------------------------------ MODULE UsersPage ------------------------------
(***************************************************************************)
(* The user page of the console (src/web/src/pages/UsersPage.tsx) and the  *)
(* handlers it calls (src/app/services/users.py).                          *)
(*                                                                         *)
(* username and display_name are left out; a save sends the display name   *)
(* along with the fields modelled here.                                    *)
(***************************************************************************)
EXTENDS Mutations, FiniteSets, FiniteSetsExt

CONSTANTS
    Users,          \* ids of users
    Groups,         \* ids of user groups
    MaxElsewhere,   \* bound: changes made by other administrators
    MaxGestures     \* bound: what the user does on the page

VARIABLES server, cache, page

vars == <<server, cache, page, calls>>

Roles == {"admin", "user"}

(***************************************************************************)
(* The server.  version is users.token_version: a token is good for one    *)
(* version only.                                                           *)
(***************************************************************************)
Absent == [role |-> "user", active |-> FALSE, groups |-> {}, version |-> 0]

Live(u) == server.user[u].version > 0

(* _sync_user_groups refuses a list with an unknown group.                 *)
KnownGroups(a) == a.groups \subseteq server.groups

ServeCreate(i, u) ==
    LET a == calls[i].arg IN
    /\ calls[i].op = "create" /\ calls[i].at = "sent" /\ ~Live(u)
    /\ IF KnownGroups(a)
       THEN /\ server' = [server EXCEPT !.user[u] =
                 [role |-> a.role, active |-> TRUE, groups |-> a.groups, version |-> 1]]
            /\ Answer(i, "ok", Null)
       ELSE Answer(i, "error", Null) /\ UNCHANGED server
    /\ UNCHANGED <<cache, page>>

(* update_user loads the user and the memberships it has then ...          *)
ReadUser(i) ==
    LET a == calls[i].arg IN
    /\ calls[i].op = "update" /\ calls[i].at = "sent"
    /\ IF KnownGroups(a) THEN Answer(i, "read", server.user[a.user])
                         ELSE Answer(i, "error", Null)
    /\ UNCHANGED <<server, cache, page>>

(* ... and commits the fields that differ from what was loaded, the        *)
(* memberships to delete and those to add, which must not be there yet and *)
(* whose groups must still be.                                             *)
Written(now, read, sent) == IF sent = read THEN now ELSE sent

(* A bug: the new list is only added to the old one.                       *)
SyncedAdd(now, read, sent) == now \cup (sent \ read)
Synced(now, read, sent) == (now \ (read \ sent)) \cup (sent \ read)

WriteUser(i) ==
    LET a == calls[i].arg
        now == server.user[a.user]
        read == calls[i].out
    IN
    /\ calls[i].op = "update" /\ calls[i].at = "read"
    /\ IF ~(a.groups \ read.groups \subseteq server.groups \ now.groups)
       THEN Answer(i, "error", Null) /\ UNCHANGED server
       ELSE /\ server' = [server EXCEPT !.user[a.user] =
                 [role |-> Written(now.role, read.role, a.role),
                  active |-> Written(now.active, read.active, a.active),
                  groups |-> Synced(now.groups, read.groups, a.groups),
                  version |-> IF a.password THEN read.version + 1 ELSE now.version]]
            /\ Answer(i, "ok", Null)
    /\ UNCHANGED <<cache, page>>

(* Another administrator changes a membership, disables a user or deletes  *)
(* a group.                                                                *)
Elsewhere ==
    /\ cache.elsewhere < MaxElsewhere
    /\ \/ \E u \in Users, g \in server.groups :
             /\ Live(u)
             /\ server' = [server EXCEPT !.user[u].groups = SymDiff(@, {g})]
       \/ \E u \in Users :
             Live(u) /\ server' = [server EXCEPT !.user[u].active = ~@]
       \/ \E g \in server.groups :
             server' = [groups |-> server.groups \ {g},
                        user |-> [u \in Users |->
                           [server.user[u] EXCEPT !.groups = @ \ {g}]]]
    /\ cache' = [cache EXCEPT !.elsewhere = @ + 1]
    /\ UNCHANGED <<page, calls>>

FetchUsers ==
    /\ cache' = [cache EXCEPT !.users = server.user]
    /\ UNCHANGED <<server, page, calls>>

FetchGroups ==
    /\ cache' = [cache EXCEPT !.groups = server.groups]
    /\ UNCHANGED <<server, page, calls>>

Listed == {u \in Users : cache.users[u].version > 0}

(***************************************************************************)
(* The form.                                                               *)
(***************************************************************************)
Blank == [dialog |-> FALSE, editing |-> Null, from |-> Absent, active |-> TRUE,
          role |-> "user", groups |-> {}, touched |-> {}, gestures |-> 0]

Gesture(p) ==
    /\ page.gestures < MaxGestures
    /\ page' = [p EXCEPT !.gestures = page.gestures + 1]

(* What a closed form holds is overwritten by the next opening; the ticked *)
(* groups are kept here.                                                   *)
Closed(p) ==
    [p EXCEPT !.dialog = FALSE, !.editing = Null, !.from = Absent,
              !.active = TRUE, !.role = "user", !.touched = {}]

openCreate ==
    /\ ~page.dialog
    /\ Gesture([page EXCEPT !.dialog = TRUE, !.active = TRUE, !.role = "user",
                            !.groups = {}])
    /\ UNCHANGED <<server, cache, calls>>

(* A bug: the groups ticked in the last dialog are still ticked.           *)
OpenedOnForgetful(u) ==
    [page EXCEPT !.dialog = TRUE, !.editing = u, !.from = cache.users[u],
                 !.active = cache.users[u].active, !.role = cache.users[u].role]
OpenedOn(u) ==
    [page EXCEPT !.dialog = TRUE, !.editing = u, !.from = cache.users[u],
                 !.active = cache.users[u].active, !.role = cache.users[u].role,
                 !.groups = cache.users[u].groups]

openEdit(u) ==
    /\ ~page.dialog /\ u \in Listed
    /\ Gesture(OpenedOn(u))
    /\ UNCHANGED <<server, cache, calls>>

closeForm ==
    /\ page.dialog
    /\ Gesture(Closed(page))
    /\ UNCHANGED <<server, cache, calls>>

setRole ==
    /\ page.dialog
    /\ \E r \in Roles \ {page.role} :
          Gesture([page EXCEPT !.role = r, !.touched = @ \cup {"role"}])
    /\ UNCHANGED <<server, cache, calls>>

switchActive ==
    /\ page.dialog /\ page.editing # Null
    /\ Gesture([page EXCEPT !.active = ~@, !.touched = @ \cup {"active"}])
    /\ UNCHANGED <<server, cache, calls>>

toggleArrayValue(values, value) == SymDiff(values, {value})

toggleGroup(g) ==
    /\ page.dialog /\ g \in cache.groups
    /\ Gesture([page EXCEPT !.groups = toggleArrayValue(@, g),
                            !.touched = @ \cup {"groups"}])
    /\ UNCHANGED <<server, cache, calls>>

(* password: one was typed.                                                *)
handleSubmit(password) ==
    /\ page.dialog /\ ~Pending("create") /\ ~Pending("update")
    /\ page.editing = Null => password          \* the field is required
    /\ Send(IF page.editing = Null THEN "create" ELSE "update",
            [user |-> page.editing, role |-> page.role, active |-> page.active,
             groups |-> page.groups, password |-> password,
             from |-> page.from, touched |-> page.touched])
    /\ Gesture(page)
    /\ UNCHANGED <<server, cache>>

settle(i) ==
    /\ calls[i].at \in {"ok", "error"}
    /\ page' = IF calls[i].at = "ok" /\ calls[i].here THEN Closed(page) ELSE page
    /\ Settled(i)
    /\ UNCHANGED <<server, cache>>

lose(i) ==
    /\ Lose(i)
    /\ UNCHANGED <<server, cache, page>>

leave ==
    /\ page # Blank
    /\ Gesture(Blank)
    /\ Abandon
    /\ UNCHANGED <<server, cache>>

Init ==
    /\ LET old == CHOOSE u \in Users : TRUE
           row == [role |-> "user", active |-> TRUE,
                   groups |-> {CHOOSE g \in Groups : TRUE}, version |-> 1]
       IN  server = [groups |-> Groups,
                     user |-> [u \in Users |-> IF u = old THEN row ELSE Absent]]
    /\ cache = [users |-> [u \in Users |-> Absent], groups |-> {}, elsewhere |-> 0]
    /\ page = Blank
    /\ calls = <<>>

Next ==
    \/ Elsewhere \/ FetchUsers \/ FetchGroups
    \/ openCreate \/ closeForm \/ setRole \/ switchActive \/ leave
    \/ \E u \in Users : openEdit(u)
    \/ \E g \in Groups : toggleGroup(g)
    \/ \E password \in BOOLEAN : handleSubmit(password)
    \/ \E i \in InFlight :
          \/ \E u \in Users : ServeCreate(i, u)
          \/ ReadUser(i) \/ WriteUser(i) \/ settle(i) \/ lose(i)

Spec == Init /\ [][Next]_vars

(***************************************************************************)
(* Properties.                                                             *)
(***************************************************************************)
Saved(i) ==
    calls[i].op = "update" /\ calls[i].at = "read" /\ calls'[i].at = "ok"

(* A saved form leaves the user in exactly the groups it lists, except for *)
(* memberships that came or went while the request was being served.       *)
MembershipsAsSent ==
    \A i \in InFlight : Saved(i) =>
       LET a == calls[i].arg
           moved == SymDiff(server.user[a.user].groups, calls[i].out.groups)
       IN  SymDiff(server'.user[a.user].groups, a.groups) \subseteq moved

(* A save sends the whole form, from the row it was opened from.  Still, a *)
(* role, a switch or a membership the administrator did not touch changes  *)
(* only if it changed on the server since that row was read, and the       *)
(* user's sessions survive unless a password was typed ("leave empty to    *)
(* keep it").                                                              *)
UserSaveKeeps ==
    \A i \in InFlight : Saved(i) =>
       LET a == calls[i].arg
           old == server.user[a.user]
           new == server'.user[a.user]
       IN  /\ ("role" \notin a.touched /\ old.role = a.from.role)
                => new.role = old.role
           /\ ("active" \notin a.touched /\ old.active = a.from.active)
                => new.active = old.active
           /\ ("groups" \notin a.touched /\ old.groups = a.from.groups
               /\ calls[i].out.groups = old.groups)
                => new.groups = old.groups
           /\ (calls[i].out.version = old.version) =>
                ((new.version = old.version) = ~a.password)
=============================================================================
