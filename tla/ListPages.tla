------------------------------ MODULE ListPages ------------------------------
(***************************************************************************)
(* The tables of the console: what the six list pages of src/web/src/pages *)
(* ask for, show, filter and page through.  Each page has its own copy of  *)
(* this code; they differ in the filters they offer.                       *)
(*                                                                         *)
(* Of a row only its class matters, what a filter sees of it (a status, a  *)
(* role, a search text ...); a filter is the set of classes asked for, the *)
(* empty set asking for every row.  The actions on the rows themselves are *)
(* in the module of each page.                                             *)
(***************************************************************************)
EXTENDS Mutations, FiniteSets, FiniteSetsExt

CONSTANTS
    Classes,        \* what filters tell apart
    PageSize,       \* PAGE_SIZE
    MaxRows,        \* bound: rows of a class
    MaxElsewhere,   \* bound: rows added or removed
    MaxGestures     \* bound: what the user does on the page

VARIABLES server, cache, page

vars == <<server, cache, page, calls>>

(***************************************************************************)
(* The pages.  filter: one class at a time, any set of them, or no filter. *)
(***************************************************************************)
MessagesPage  == [name |-> "messages",   filter |-> "many", reset |-> TRUE]
AuditLogsPage == [name |-> "audit-logs", filter |-> "one",  reset |-> FALSE]
UsersPage     == [name |-> "users",      filter |-> "many", reset |-> TRUE]
GroupsPage    == [name |-> "groups",     filter |-> "many", reset |-> TRUE]
ChannelsPage  == [name |-> "channels",   filter |-> "none", reset |-> FALSE]
PushKeysPage  == [name |-> "push-keys",  filter |-> "none", reset |-> FALSE]

Pages == {MessagesPage, AuditLogsPage, UsersPage, GroupsPage, ChannelsPage,
          PushKeysPage}

(***************************************************************************)
(* The server: a row is its class and a number.                            *)
(***************************************************************************)
Matching(filter) ==
    Cardinality({r \in server.rows : filter = {} \/ r[1] \in filter})

(* Rows come and go; a removal by this page is one of them.                *)
Elsewhere(r) ==
    /\ server.changes < MaxElsewhere
    /\ server' = [server EXCEPT !.rows = SymDiff(@, {r}), !.changes = @ + 1,
                                !.removed = @ \/ r \in server.rows]
    /\ UNCHANGED <<cache, page, calls>>

(***************************************************************************)
(* The query.  Its key holds the page and the filter; a query that has no  *)
(* data is asked for as soon as its key is shown, one that has some may be *)
(* asked for again at any time.                                            *)
(***************************************************************************)
(* A bug: the filter is not part of the key.                               *)
KeyOfPage(p, filter) == <<p, {}>>
Key(p, filter) == <<p, filter>>

None == [at |-> "none"]
Failed == [at |-> "failed"]

(* What the cache has under key k; a key it never heard of has no data.    *)
Entry(k) == IF k \in DOMAIN cache.entry THEN cache.entry[k] ELSE None

Entered(k, e) ==
    [x \in DOMAIN cache.entry \cup {k} |-> IF x = k THEN e ELSE cache.entry[x]]

(* What the page has of what it now asks for.                              *)
Data == Entry(Key(page.page, page.filter))

Asked == [page |-> page.page, filter |-> page.filter]

isLoading == Data = None

Ask ==
    /\ Asked \notin cache.asked
    /\ cache' = [cache EXCEPT !.asked = @ \cup {Asked}]
    /\ UNCHANGED <<server, page, calls>>

Rows(n, p) == Max({0, Min({PageSize, n - p * PageSize})})

(* The answer to an earlier request may arrive after the page has moved on.*)
Land(a) ==
    LET n == Matching(a.filter) IN
    /\ cache' = [entry |-> Entered(Key(a.page, a.filter),
                    [at |-> "data", of |-> a, items |-> Rows(n, a.page), total |-> n]),
                 asked |-> cache.asked \ {a}]
    /\ UNCHANGED <<server, page, calls>>

(* A query that had data keeps it.                                         *)
Fail(a) ==
    LET k == Key(a.page, a.filter) IN
    /\ cache' = [entry |-> Entered(k, IF Entry(k) = None THEN Failed ELSE Entry(k)),
                 asked |-> cache.asked \ {a}]
    /\ UNCHANGED <<server, page, calls>>

(***************************************************************************)
(* What is shown.                                                          *)
(***************************************************************************)
items == IF Data.at = "data" THEN Data.items ELSE 0
total == IF Data.at = "data" THEN Data.total ELSE 0
totalPages == (total + PageSize - 1) \div PageSize

EmptyText == ~isLoading /\ items = 0

(***************************************************************************)
(* What the user does.                                                     *)
(***************************************************************************)
Gesture(p) ==
    /\ page.gestures < MaxGestures
    /\ page' = [p EXCEPT !.gestures = page.gestures + 1]
    /\ UNCHANGED <<server, cache, calls>>

(* A bug: the page number stays.                                           *)
FilteredKeepsPage(filter) == [page EXCEPT !.filter = filter]
Filtered(filter) == [page EXCEPT !.filter = filter, !.page = 0]

toggle(values, value) == SymDiff(values, {value})

(* A set of checkboxes and search fields; a class is ticked or unticked.   *)
Checkboxes == \E c \in Classes : Gesture(Filtered(toggle(page.filter, c)))

resetFilters ==
    /\ page.of.reset /\ page.filter # {}
    /\ Gesture(Filtered({}))

MessagesFilters  == page.of = MessagesPage /\ Checkboxes
UsersFilters     == page.of = UsersPage /\ Checkboxes
GroupsFilters    == page.of = GroupsPage /\ Checkboxes

(* A select box, one of whose choices is "all".                            *)
AuditLogsFilters ==
    /\ page.of = AuditLogsPage
    /\ \E f \in {{}} \cup {{c} : c \in Classes} :
          f # page.filter /\ Gesture(Filtered(f))

(* The two buttons of the pager, shown if there is more than one page.     *)
Pager ==
    /\ totalPages > 1
    /\ \/ /\ page.page # 0
          /\ Gesture([page EXCEPT !.page = Max({0, @ - 1})])
       \/ /\ page.page < totalPages - 1
          /\ Gesture([page EXCEPT !.page = Min({totalPages - 1, @ + 1})])

MessagesPager  == page.of = MessagesPage /\ Pager
AuditLogsPager == page.of = AuditLogsPage /\ Pager
UsersPager     == page.of = UsersPage /\ Pager
GroupsPager    == page.of = GroupsPage /\ Pager
ChannelsPager  == page.of = ChannelsPage /\ Pager
PushKeysPager  == page.of = PushKeysPage /\ Pager

Init ==
    /\ server = [rows |-> Classes \X (1..(MaxRows - 1)), changes |-> 0, removed |-> FALSE]
    /\ cache = [entry |-> <<>>, asked |-> {}]
    /\ \E of \in Pages : page = [of |-> of, page |-> 0, filter |-> {}, gestures |-> 0]
    /\ calls = <<>>

Next ==
    \/ \E r \in Classes \X (1..MaxRows) : Elsewhere(r)
    \/ Ask \/ \E a \in cache.asked : Land(a) \/ Fail(a)
    \/ MessagesFilters \/ AuditLogsFilters \/ UsersFilters \/ GroupsFilters
    \/ resetFilters
    \/ MessagesPager \/ AuditLogsPager \/ UsersPager \/ GroupsPager
    \/ ChannelsPager \/ PushKeysPager

Spec == Init /\ [][Next]_vars

(***************************************************************************)
(* Properties.                                                             *)
(***************************************************************************)
(* The rows on the screen are the answer to the page and the filter on the *)
(* screen, however late earlier answers arrive.                            *)
RowsAsAsked == Data.at = "data" => Data.of = Asked

(* The words "no rows yet" are true of the filter on the screen, as it was *)
(* answered: a page past the end is reached only because rows were removed *)
(* (the table is then empty although there are rows, and with one page     *)
(* left the pager is gone, too), and a failed query looks like an empty    *)
(* one.                                                                    *)
EmptyTableExplained ==
    EmptyText => Data = Failed \/ total = 0 \/ server.removed
=============================================================================
