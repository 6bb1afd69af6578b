----------------------------- MODULE GroupsPage -----------------------------
(***************************************************************************)
(* The user-group page of the console (src/web/src/pages/GroupsPage.tsx)   *)
(* and the handlers it calls (src/app/services/groups.py).                 *)
(*                                                                         *)
(* The member and the channel dialog work alike: a click changes the shown *)
(* set at once, sends one request, and a failure puts back the set that    *)
(* was shown before the click.  kind tells them apart.                     *)
(***************************************************************************)
EXTENDS Mutations, FiniteSets, FiniteSetsExt

CONSTANTS
    Groups,         \* ids of user groups
    Links,          \* Links[kind]: what a group is linked to, for each kind
    MaxElsewhere,   \* bound: changes made by other administrators
    MaxGestures     \* bound: what the user does on the page

Kinds == {"member", "channel"}

VARIABLES server, cache, page

vars == <<server, cache, page, calls>>

(***************************************************************************)
(* The server.                                                             *)
(***************************************************************************)
NoLinks == [kind \in Kinds |-> {}]

Absent == [live |-> FALSE, active |-> FALSE, described |-> FALSE, links |-> NoLinks]

Live(g) == server[g].live

ServeCreate(i, g) ==
    LET a == calls[i].arg IN
    /\ calls[i].op = "create" /\ calls[i].at = "sent" /\ server[g] = Absent
    /\ g \notin cache.used
    /\ server' = [server EXCEPT ![g] = [live |-> TRUE, active |-> a.active,
                                        described |-> a.described, links |-> NoLinks]]
    /\ cache' = [cache EXCEPT !.used = @ \cup {g}]
    /\ Answer(i, "ok", Null)
    /\ UNCHANGED page

(* update_group sets the fields the request names: the console does not    *)
(* name an empty description.                                              *)
Updated(row, a) ==
    [row EXCEPT !.active = a.active, !.described = @ \/ a.described]

ServeUpdate(i) ==
    LET a == calls[i].arg IN
    /\ calls[i].op = "update" /\ calls[i].at = "sent"
    /\ IF Live(a.group)
       THEN /\ server' = [server EXCEPT ![a.group] = Updated(@, a)]
            /\ Answer(i, "ok", Null)
       ELSE Answer(i, "error", Null) /\ UNCHANGED server
    /\ UNCHANGED <<cache, page>>

ServeDelete(i) ==
    LET g == calls[i].arg IN
    /\ calls[i].op = "delete" /\ calls[i].at = "sent"
    /\ IF Live(g)
       THEN server' = [server EXCEPT ![g] = Absent] /\ Answer(i, "ok", Null)
       ELSE Answer(i, "error", Null) /\ UNCHANGED server
    /\ UNCHANGED <<cache, page>>

(* set_group_member and set_group_channel_permission read the link, then   *)
(* insert or delete it and commit: a second insert of a link that appeared *)
(* in between fails on the primary key.                                    *)
ReadLink(i) ==
    LET a == calls[i].arg IN
    /\ calls[i].op \in Kinds /\ calls[i].at = "sent"
    /\ IF Live(a.group)
       THEN Answer(i, "read", a.what \in server[a.group].links[calls[i].op])
       ELSE Answer(i, "error", Null)
    /\ UNCHANGED <<server, cache, page>>

WriteLink(i) ==
    LET a == calls[i].arg
        k == calls[i].op
    IN
    /\ calls[i].at = "read"
    /\ LET there == a.what \in server[a.group].links[k] IN
       IF a.checked /\ ~calls[i].out /\ (there \/ ~Live(a.group))
       THEN Answer(i, "error", Null) /\ UNCHANGED server
       ELSE /\ server' = IF ~Live(a.group) THEN server ELSE
               [server EXCEPT ![a.group].links[k] =
                  IF a.checked /\ ~calls[i].out THEN @ \cup {a.what}
                  ELSE IF ~a.checked /\ calls[i].out THEN @ \ {a.what} ELSE @]
            /\ Answer(i, "ok", Null)
    /\ UNCHANGED <<cache, page>>

(* Another administrator changes a link.                                   *)
Elsewhere(g, k) ==
    /\ cache.elsewhere < MaxElsewhere /\ Live(g)
    /\ \E x \in Links[k] :
          server' = [server EXCEPT ![g].links[k] = SymDiff(@, {x})]
    /\ cache' = [cache EXCEPT !.elsewhere = @ + 1]
    /\ page' = [page EXCEPT !.doubt = @ \/ page.group = g]
    /\ UNCHANGED calls

(* Another administrator switches a group on or off, or deletes it.        *)
RowElsewhere(g) ==
    /\ cache.elsewhere < MaxElsewhere /\ Live(g)
    /\ \E row \in {[server[g] EXCEPT !.active = ~@], Absent} :
          server' = [server EXCEPT ![g] = row]
    /\ cache' = [cache EXCEPT !.elsewhere = @ + 1]
    /\ UNCHANGED <<page, calls>>

Fetch ==
    /\ cache' = [cache EXCEPT !.groups = server]
    /\ UNCHANGED <<server, page, calls>>

Listed == {g \in Groups : cache.groups[g].live}

(***************************************************************************)
(* The page.  group and picked are activeGroup and selectedMemberIds or    *)
(* selectedChannelIds; doubt (history) tells that what the dialog shows    *)
(* may rightly differ from what is stored, touched (history) what of the   *)
(* form the user changed.                                                  *)
(***************************************************************************)
Blank == [dialog |-> "none", group |-> Null, active |-> TRUE, picked |-> {},
          from |-> Absent, touched |-> {}, doubt |-> FALSE, gestures |-> 0]

Gesture(p) ==
    /\ page.gestures < MaxGestures
    /\ page' = [p EXCEPT !.gestures = page.gestures + 1]

(* groupActive is not reset when the form closes: openCreate and openEdit  *)
(* set it.                                                                 *)
Closed(p) ==
    [p EXCEPT !.dialog = "none", !.group = Null, !.picked = {},
              !.from = Absent, !.touched = {}, !.doubt = FALSE]

openCreate ==
    /\ page.dialog = "none"
    /\ Gesture([page EXCEPT !.dialog = "form", !.active = TRUE])
    /\ UNCHANGED <<server, cache, calls>>

(* A bug: the switch stands as the last form left it.                      *)
OpenedOnForgetful(g) ==
    [page EXCEPT !.dialog = "form", !.group = g, !.from = cache.groups[g]]
OpenedOn(g) ==
    [page EXCEPT !.dialog = "form", !.group = g, !.from = cache.groups[g],
                 !.active = cache.groups[g].active]

openEdit(g) ==
    /\ page.dialog = "none" /\ g \in Listed
    /\ Gesture(OpenedOn(g))
    /\ UNCHANGED <<server, cache, calls>>

switchActive ==
    /\ page.dialog = "form"
    /\ Gesture([page EXCEPT !.active = ~@, !.touched = @ \cup {"active"}])
    /\ UNCHANGED <<server, cache, calls>>

handleSubmit(described) ==
    /\ page.dialog = "form" /\ ~Pending("create") /\ ~Pending("update")
    /\ Send(IF page.group = Null THEN "create" ELSE "update",
            [group |-> page.group, active |-> page.active, described |-> described,
             from |-> page.from, touched |-> page.touched])
    /\ Gesture(page)
    /\ UNCHANGED <<server, cache>>

Toggling(k) == {i \in InFlight : calls[i].op = k}

OpenLinks(k, g) ==
    /\ page.dialog = "none" /\ g \in Listed
    /\ Gesture([page EXCEPT !.dialog = k, !.group = g,
                  !.picked = cache.groups[g].links[k],
                  !.doubt = \/ Toggling(k) # {}
                           \/ cache.groups[g].links[k] # server[g].links[k]])
    /\ UNCHANGED <<server, cache, calls>>

openMembers(g) == OpenLinks("member", g)
openChannels(g) == OpenLinks("channel", g)

toggleArrayValue(values, value, checked) ==
    IF checked THEN values \cup {value} ELSE values \ {value}

HandleChecked(k, x) ==
    LET checked == x \notin page.picked IN
    /\ page.dialog = k
    /\ Send(k, [group |-> page.group, what |-> x, checked |-> checked,
                previous |-> page.picked])
    /\ Gesture([page EXCEPT
                  !.picked = toggleArrayValue(@, x, checked),
                  !.doubt = @ \/ \E i \in Toggling(k) : calls[i].arg.what = x])
    /\ UNCHANGED <<server, cache>>

handleMemberChecked(u) == HandleChecked("member", u)
handleChannelChecked(c) == HandleChecked("channel", c)

askDelete(g) ==
    /\ page.dialog = "none" /\ g \in Listed
    /\ Gesture([page EXCEPT !.dialog = "delete", !.group = g])
    /\ UNCHANGED <<server, cache, calls>>

confirmDelete ==
    /\ page.dialog = "delete"
    /\ Send("delete", page.group)
    /\ Gesture(page)
    /\ UNCHANGED <<server, cache>>

close ==
    /\ page.dialog # "none"
    /\ Gesture(Closed(page))
    /\ UNCHANGED <<server, cache, calls>>

(***************************************************************************)
(* The answers.  A save closes the form and a deletion its confirmation,   *)
(* whatever they show by then; a link toggle that succeeds changes nothing *)
(* shown.  Of the toggles of a dialog only the latest restores the set it  *)
(* captured when it fails (the callback belongs to that one call).         *)
(***************************************************************************)
OnSuccess(i) ==
    IF \/ calls[i].op \in {"create", "update"} /\ page.dialog = "form"
       \/ calls[i].op = "delete" /\ page.dialog = "delete"
    THEN Closed(page) ELSE page

(* A bug: a failed toggle stays ticked.                                    *)
OnErrorKept(i) == page
OnError(i) ==
    LET a == calls[i].arg IN
    IF calls[i].op \notin Kinds \/ ~calls[i].here \/ page.dialog # calls[i].op
    THEN page
    ELSE IF IsLatest(i) THEN [page EXCEPT !.picked = a.previous]
                        ELSE [page EXCEPT !.doubt = TRUE]

settle(i) ==
    /\ calls[i].at \in {"ok", "error"}
    /\ page' = IF calls[i].at = "error" THEN OnError(i)
               ELSE IF calls[i].here THEN OnSuccess(i) ELSE page
    /\ Settled(i)
    /\ UNCHANGED <<server, cache>>

lose(i) ==
    /\ Lose(i)
    /\ page' = [page EXCEPT !.doubt = @ \/ calls[i].at = "ok"]
    /\ UNCHANGED <<server, cache>>

leave ==
    /\ page # Blank
    /\ Gesture(Blank)
    /\ Abandon
    /\ UNCHANGED <<server, cache>>

Init ==
    /\ LET old == CHOOSE g \in Groups : TRUE
           row == [live |-> TRUE, active |-> TRUE, described |-> TRUE,
                   links |-> [k \in Kinds |-> {CHOOSE x \in Links[k] : TRUE}]]
       IN  /\ server = [g \in Groups |-> IF g = old THEN row ELSE Absent]
           /\ cache = [groups |-> [g \in Groups |-> Absent], used |-> {old},
                       elsewhere |-> 0]
    /\ page = Blank
    /\ calls = <<>>

Next ==
    \/ Fetch \/ openCreate \/ switchActive \/ confirmDelete \/ close \/ leave
    \/ \E described \in BOOLEAN : handleSubmit(described)
    \/ \E g \in Groups : openEdit(g) \/ openMembers(g) \/ openChannels(g) \/ askDelete(g)
    \/ \E g \in Groups : RowElsewhere(g) \/ \E k \in Kinds : Elsewhere(g, k)
    \/ \E u \in Links["member"] : handleMemberChecked(u)
    \/ \E c \in Links["channel"] : handleChannelChecked(c)
    \/ \E i \in InFlight :
          \/ \E g \in Groups : ServeCreate(i, g)
          \/ ServeUpdate(i) \/ ServeDelete(i) \/ ReadLink(i) \/ WriteLink(i)
          \/ settle(i) \/ lose(i)

Spec == Init /\ [][Next]_vars

(***************************************************************************)
(* Properties.                                                             *)
(***************************************************************************)
(* Once every click of an open member or channel dialog is answered, the   *)
(* dialog shows what is stored, refused clicks included.  It may not if it *)
(* was opened from an old row or over unanswered clicks, if one link was   *)
(* clicked again before its answer, if a click that failed was not the     *)
(* latest, if an answer was lost after its effect, or if somebody else     *)
(* changed the group.                                                      *)
ShownLinksStored ==
    /\ page.dialog \in Kinds /\ ~page.doubt
    /\ Toggling(page.dialog) = {} /\ Live(page.group)
    => page.picked = server[page.group].links[page.dialog]

(* A save sends the whole form, from the row it was opened from.  Still, a *)
(* group is switched on or off only if the user moved the switch in that   *)
(* form, or somebody did on the server since its row was read; and the     *)
(* links stay (the form says so of disabling).                             *)
GroupSaveKeeps ==
    \A i \in InFlight :
       calls[i].op = "update" /\ calls[i].at = "sent" /\ calls'[i].at = "ok" =>
         LET a == calls[i].arg
             old == server[a.group]
             new == server'[a.group]
         IN  /\ new.links = old.links
             /\ ("active" \notin a.touched /\ old.active = a.from.active)
                   => new.active = old.active
=============================================================================
