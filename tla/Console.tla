------------------------------- MODULE Console -------------------------------
(***************************************************************************)
(* The web console (src/web/src): its pages side by side.                  *)
(*                                                                         *)
(* The router mounts one page at a time, and a page keeps nothing when it  *)
(* is left but the query cache, which the pages read by keys of their own. *)
(* So a behaviour of this module is one of one area, chosen at the start:  *)
(* the state space is the sum of the areas' and not their product.  Who is *)
(* logged in (Session) is an area of its own, and so are the counters      *)
(* behind the limits per minute (RateLimit), which the forms of keys and   *)
(* channels set: its variables stand in the places of this module's.       *)
(***************************************************************************)
EXTENDS Naturals, Sequences, FiniteSets

CONSTANTS
    Null,           \* "no value"
    Areas,          \* the areas to look at
    PushKeys,       \* ids of push keys
    Channels,       \* ids of channels, numbered in the order they are listed
    ChannelType,    \* kinds of channels
    Users,          \* ids of users
    Groups,         \* ids of user groups
    Deliveries,     \* deliveries of a message
    MaxFailures,    \* bound: failures of a delivery
    Classes,        \* what the filters of lists tell apart
    PageSize,       \* rows on a page of a list
    MaxRows,        \* bound: rows of a class
    Ranges,         \* the ranges of days of the overview
    MaxCalls,       \* bound: requests sent
    MaxElsewhere,   \* bound: changes by other sessions
    MaxGestures,    \* bound: what the user does on a page with forms
    MaxLooks        \* bound: what the user does on the other pages

ASSUME ConsoleAssumption ==
    /\ PushKeys # {} /\ Channels # {} /\ ChannelType # {}
    /\ Null \notin Users /\ Null \notin [owner : Users, version : Nat]
    /\ Users # {} /\ Groups # {} /\ Channels \subseteq Nat /\ IsFiniteSet(Channels)
    /\ IsFiniteSet(Classes) /\ PageSize \in Nat \ {0} /\ MaxRows \in Nat
    /\ Ranges # {} /\ Ranges \subseteq Nat
    /\ MaxCalls \in Nat /\ MaxElsewhere \in Nat /\ MaxGestures \in Nat

VARIABLES area, server, cache, page, calls

vars == <<area, server, cache, page, calls>>

Links == [member |-> Users, channel |-> Channels]

Keys      == INSTANCE PushKeysPage
Chans     == INSTANCE ChannelsPage
Grps      == INSTANCE GroupsPage
Usrs      == INSTANCE UsersPage
Detail    == INSTANCE MessageDetailPage WITH MaxGestures <- MaxLooks
Lists     == INSTANCE ListPages WITH MaxGestures <- MaxLooks
Overview  == INSTANCE DashboardPage WITH MaxGestures <- MaxLooks
Who       == INSTANCE Session
Limit     == INSTANCE RateLimit WITH redis <- server, clock <- cache, callers <- page,
                 takes <- calls, Limits <- {1, 2}, Minute <- 3, NumCallers <- 3,
                 MaxClock <- 7, MaxTakes <- 4

Init ==
    /\ area \in Areas
    /\ \/ area = "push-keys" /\ Keys!Init
       \/ area = "channels" /\ Chans!Init
       \/ area = "groups" /\ Grps!Init
       \/ area = "users" /\ Usrs!Init
       \/ area = "message" /\ Detail!Init
       \/ area = "lists" /\ Lists!Init
       \/ area = "overview" /\ Overview!Init
       \/ area = "session" /\ Who!Init
       \/ area = "limits" /\ Limit!Init

(* A step of one area.                                                     *)
InKeys     == area = "push-keys" /\ Keys!Next     /\ UNCHANGED area
InChannels == area = "channels"  /\ Chans!Next    /\ UNCHANGED area
InGroups   == area = "groups"    /\ Grps!Next     /\ UNCHANGED area
InUsers    == area = "users"     /\ Usrs!Next     /\ UNCHANGED area
InMessage  == area = "message"   /\ Detail!Next   /\ UNCHANGED area
InLists    == area = "lists"     /\ Lists!Next    /\ UNCHANGED area
InOverview == area = "overview"  /\ Overview!Next /\ UNCHANGED area
InSession  == area = "session"   /\ Who!Next      /\ UNCHANGED area
InLimits   == area = "limits"    /\ Limit!Next    /\ UNCHANGED area

Next ==
    \/ InKeys \/ InChannels \/ InGroups \/ InUsers
    \/ InMessage \/ InLists \/ InOverview \/ InSession \/ InLimits

Spec == Init /\ [][Next]_vars

(***************************************************************************)
(* The properties of the pages, each in its area.                          *)
(***************************************************************************)
(* The "shown only once" dialog shows a secret that works (PushKeysPage).  *)
ShownSecretLive == area = "push-keys" => Keys!ShownSecretLive

(* A default channel the user picked is the one that is sent.              *)
DefaultAsShown == area = "push-keys" => Keys!DefaultAsShown

(* A save of a push key changes only what was touched, or old.             *)
SaveKeepsUntouched == [][area = "push-keys" => Keys!SaveKeepsUntouched]_vars

(* A page has at most one save of a push key on its way.                   *)
OneSaveAtATime == area = "push-keys" => Keys!OneSaveAtATime

(* A dialog shows the test of its own channel (ChannelsPage).              *)
TestResultOfDialog == area = "channels" => Chans!TestResultOfDialog

(* A save of a channel keeps its secret, type and switch (ChannelsPage).   *)
ChannelSaveKeeps == [][area = "channels" => Chans!ChannelSaveKeeps]_vars

(* A links dialog at rest shows what is stored (GroupsPage).               *)
ShownLinksStored == area = "groups" => Grps!ShownLinksStored

(* A save of a group changes only what was touched, or old (GroupsPage).   *)
GroupSaveKeeps == [][area = "groups" => Grps!GroupSaveKeeps]_vars

(* A saved user is in the groups the form listed (UsersPage).              *)
MembershipsAsSent == [][area = "users" => Usrs!MembershipsAsSent]_vars

(* A save of a user changes only what was touched, or old (UsersPage).     *)
UserSaveKeeps == [][area = "users" => Usrs!UserSaveKeeps]_vars

(* A failure is retried once (MessageDetailPage).                          *)
RetryOncePerFailure == area = "message" => Detail!RetryOncePerFailure

(* Rows belong to the page and the filter on the screen (ListPages).       *)
RowsAsAsked == area = "lists" => Lists!RowsAsAsked

(* An empty table means what it says (ListPages).                          *)
EmptyTableExplained == area = "lists" => Lists!EmptyTableExplained

(* Figures are of the range on the screen, and never older (DashboardPage).*)
FiguresOfRange == [][area = "overview" => Overview!FiguresOfRange]_vars

(* A change of password ends earlier sessions (Session).                   *)
PasswordEndsSessions == area = "session" => Who!PasswordEndsSessions

(* A tab shows the user its token is of (Session).                         *)
TabShowsTokenOwner == area = "session" => Who!TabShowsTokenOwner

(* A login leads into the console (Session).                               *)
LoginEnters == [][area = "session" => Who!LoginEnters]_vars

(* The limit per minute is kept (RateLimit).                               *)
LimitHonoured == area = "limits" => Limit!LimitHonoured

(* Nobody is refused before the limit is used up (RateLimit).              *)
RefusedForReason == area = "limits" => Limit!RefusedForReason

(* A deferred delivery outlasts the counter that deferred it (RateLimit).  *)
DeferralOutlasts == area = "limits" => Limit!DeferralOutlasts
=============================================================================
