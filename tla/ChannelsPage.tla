---------------------------- MODULE ChannelsPage ----------------------------
(***************************************************************************)
(* The channel page of the console (src/web/src/pages/ChannelsPage.tsx) as *)
(* an administrator uses it, and the handlers it calls                     *)
(* (src/app/services/channels.py, src/app/api/routes/channels.py).         *)
(* Everybody else is shown the rows without a button.                      *)
(*                                                                         *)
(* name, webhook_url and per_minute_limit travel with every save like      *)
(* is_enabled and are left out; a secret is Null (none) or a number.       *)
(***************************************************************************)
EXTENDS Mutations, FiniteSets

CONSTANTS
    Channels,       \* ids of channels
    ChannelType,    \* wecom_bot, dingtalk_bot, ...
    MaxElsewhere,   \* bound: changes made by other administrators
    MaxGestures     \* bound: what the user does on the page

VARIABLES server, cache, page

vars == <<server, cache, page, calls>>

(***************************************************************************)
(* The server.                                                             *)
(***************************************************************************)
FirstType == CHOOSE t \in ChannelType : TRUE

Unborn == [state |-> "unborn", type |-> FirstType, enabled |-> FALSE, secret |-> Null]

Live(c) == server[c].state = "live"

ServeCreate(i, c) ==
    LET a == calls[i].arg IN
    /\ calls[i].op = "create" /\ calls[i].at = "sent"
    /\ server[c].state = "unborn"
    /\ server' = [server EXCEPT ![c] = [state |-> "live", type |-> a.type,
                                        enabled |-> a.enabled, secret |-> a.secret]]
    /\ Answer(i, "ok", Null)
    /\ UNCHANGED <<cache, page>>

(* update_channel sets the fields of ChannelUpdate that the request names. *)
(* type is not one of them: pydantic drops what the form sends for it.     *)
Updated(row, a) ==
    [row EXCEPT !.enabled = a.enabled,
                !.secret = IF "secret" \in a.fields THEN a.secret ELSE @]

ServeUpdate(i) ==
    LET a == calls[i].arg IN
    /\ calls[i].op = "update" /\ calls[i].at = "sent"
    /\ IF Live(a.id)
       THEN /\ server' = [server EXCEPT ![a.id] = Updated(@, a)]
            /\ Answer(i, "ok", Null)
       ELSE Answer(i, "error", Null) /\ UNCHANGED server
    /\ UNCHANGED <<cache, page>>

(* soft_delete_channel *)
ServeDelete(i) ==
    LET c == calls[i].arg IN
    /\ calls[i].op = "delete" /\ calls[i].at = "sent"
    /\ IF Live(c)
       THEN /\ server' = [server EXCEPT ![c].state = "deleted", ![c].enabled = FALSE]
            /\ Answer(i, "ok", Null)
       ELSE Answer(i, "error", Null) /\ UNCHANGED server
    /\ UNCHANGED <<cache, page>>

(* post_channel_test: the answer says what sending to this channel gave.   *)
ServeTest(i) ==
    LET c == calls[i].arg IN
    /\ calls[i].op = "test" /\ calls[i].at = "sent"
    /\ IF Live(c) THEN Answer(i, "ok", c) ELSE Answer(i, "error", Null)
    /\ UNCHANGED <<server, cache, page>>

(* Another administrator switches a channel or gives it a new secret.      *)
Elsewhere(c) ==
    /\ cache.elsewhere < MaxElsewhere /\ Live(c)
    /\ \/ server' = [server EXCEPT ![c].enabled = ~@]
       \/ server' = [server EXCEPT ![c].secret = 9]
    /\ cache' = [cache EXCEPT !.elsewhere = @ + 1]
    /\ UNCHANGED <<page, calls>>

Fetch ==
    /\ cache' = [cache EXCEPT !.channels = server]
    /\ UNCHANGED <<server, page, calls>>

Listed == {c \in Channels : cache.channels[c].state = "live"}

(***************************************************************************)
(* The form.                                                               *)
(***************************************************************************)
Blank == [dialog |-> FALSE, editing |-> Null, from |-> Unborn, enabled |-> TRUE,
          type |-> FirstType, delete |-> Null, test |-> Null, result |-> Null,
          mixed |-> FALSE, gestures |-> 0]

Gesture(p) ==
    /\ page.gestures < MaxGestures
    /\ page' = [p EXCEPT !.gestures = page.gestures + 1]

Free == ~page.dialog /\ page.delete = Null /\ page.test = Null

(* What a closed form holds is overwritten by the next opening.            *)
Closed(p) ==
    [p EXCEPT !.dialog = FALSE, !.editing = Null, !.from = Unborn, !.type = FirstType]

openCreate ==
    /\ Free
    /\ Gesture([page EXCEPT !.dialog = TRUE, !.editing = Null, !.enabled = TRUE,
                            !.type = FirstType])
    /\ UNCHANGED <<server, cache, calls>>

openEdit(c) ==
    /\ Free /\ c \in Listed
    /\ Gesture([page EXCEPT !.dialog = TRUE, !.editing = c,
                            !.from = cache.channels[c],
                            !.enabled = cache.channels[c].enabled,
                            !.type = cache.channels[c].type])
    /\ UNCHANGED <<server, cache, calls>>

closeForm ==
    /\ page.dialog
    /\ Gesture(Closed(page))
    /\ UNCHANGED <<server, cache, calls>>

setType(t) ==
    /\ page.dialog /\ t # page.type
    /\ Gesture([page EXCEPT !.type = t])
    /\ UNCHANGED <<server, cache, calls>>

switchEnabled ==
    /\ page.dialog
    /\ Gesture([page EXCEPT !.enabled = ~@])
    /\ UNCHANGED <<server, cache, calls>>

(* The secret is named in an update only if the user typed one.            *)
(* A bug: it is named always, so an empty field clears the secret.         *)
NamedFieldsAll(typed) == {"enabled", "secret"}
NamedFields(typed) == {"enabled"} \cup (IF typed = Null THEN {} ELSE {"secret"})

handleSubmit(typed) ==
    /\ page.dialog
    /\ ~Pending("create") /\ ~Pending("update")
    /\ Send(IF page.editing = Null THEN "create" ELSE "update",
            [id |-> page.editing, type |-> page.type, enabled |-> page.enabled,
             secret |-> typed, fields |-> NamedFields(typed), from |-> page.from])
    /\ Gesture(page)
    /\ UNCHANGED <<server, cache>>

(***************************************************************************)
(* Deleting and testing.                                                   *)
(***************************************************************************)
askDelete(c) ==
    /\ Free /\ c \in Listed
    /\ Gesture([page EXCEPT !.delete = c])
    /\ UNCHANGED <<server, cache, calls>>

cancelDelete ==
    /\ page.delete # Null
    /\ Gesture([page EXCEPT !.delete = Null])
    /\ UNCHANGED <<server, cache, calls>>

confirmDelete ==
    /\ page.delete # Null
    /\ Send("delete", page.delete)
    /\ Gesture(page)
    /\ UNCHANGED <<server, cache>>

(* mixed: a test of another channel is still in flight (history).          *)
Mixed(c) == \E i \in InFlight : calls[i].op = "test" /\ calls[i].here /\ calls[i].arg # c

(* A bug: the last result stays on the page.                               *)
TestOpenedStale(c) == [page EXCEPT !.test = c, !.mixed = Mixed(c)]
TestOpened(c) == [page EXCEPT !.test = c, !.result = Null, !.mixed = Mixed(c)]

openTest(c) ==
    /\ Free /\ c \in Listed
    /\ Gesture(TestOpened(c))
    /\ Send("test", c)
    /\ UNCHANGED <<server, cache>>

closeTest ==
    /\ page.test # Null
    /\ Gesture([page EXCEPT !.test = Null])
    /\ UNCHANGED <<server, cache, calls>>

(* The dialog shows a skeleton while the latest test is pending.           *)
ShownResult ==
    IF page.test = Null \/ Pending("test") THEN Null ELSE page.result

(***************************************************************************)
(* The answers.                                                            *)
(***************************************************************************)
OnSuccess(i) ==
    CASE calls[i].op \in {"create", "update"} -> Closed(page)
      [] calls[i].op = "delete" -> [page EXCEPT !.delete = Null]
      [] calls[i].op = "test"   -> [page EXCEPT !.result = calls[i].out]

settle(i) ==
    /\ calls[i].at \in {"ok", "error"}
    /\ page' = IF calls[i].at = "ok" /\ calls[i].here THEN OnSuccess(i) ELSE page
    /\ Settled(i)
    /\ UNCHANGED <<server, cache>>

lose(i) ==
    /\ Lose(i)
    /\ UNCHANGED <<server, cache, page>>

leave ==
    /\ page # Blank
    /\ Gesture(Blank)
    /\ Abandon
    /\ UNCHANGED <<server, cache>>

Init ==
    /\ \E new \in SUBSET {CHOOSE c \in Channels : TRUE} :
       server = [c \in Channels |-> IF c \in new THEN Unborn ELSE
                    [state |-> "live", type |-> FirstType, enabled |-> FALSE, secret |-> 1]]
    /\ cache = [channels |-> [c \in Channels |-> Unborn], elsewhere |-> 0]
    /\ page = Blank
    /\ calls = <<>>

Next ==
    \/ Fetch \/ openCreate \/ closeForm \/ switchEnabled
    \/ \E t \in ChannelType : setType(t)
    \/ \E typed \in {Null, 2} : handleSubmit(typed)
    \/ \E c \in Channels :
          Elsewhere(c) \/ openEdit(c) \/ askDelete(c) \/ openTest(c)
    \/ cancelDelete \/ confirmDelete \/ closeTest \/ leave
    \/ \E i \in InFlight :
          \/ \E c \in Channels : ServeCreate(i, c)
          \/ ServeUpdate(i) \/ ServeDelete(i) \/ ServeTest(i)
          \/ settle(i) \/ lose(i)

Spec == Init /\ [][Next]_vars

(***************************************************************************)
(* Properties.                                                             *)
(***************************************************************************)
(* The test result shown in a channel's dialog is a result of that         *)
(* channel, unless the test of another one was still under way when the    *)
(* dialog was opened: the two answers share one slot of the page.          *)
TestResultOfDialog ==
    ShownResult # Null => ShownResult = page.test \/ page.mixed

(* A save leaves a channel's secret alone unless a new one was typed (the  *)
(* form says so: "leave empty to keep"), leaves the switch alone unless it *)
(* was moved or the row was stale, never revives a deleted channel and     *)
(* never changes its type, whatever the form's type field says.            *)
ChannelSaveKeeps ==
    \A i \in InFlight :
       calls[i].op = "update" /\ calls[i].at = "sent" /\ calls'[i].at = "ok" =>
         LET a == calls[i].arg
             old == server[a.id]
             new == server'[a.id]
         IN  /\ a.secret = Null => new.secret = old.secret
             /\ (a.enabled = a.from.enabled /\ old.enabled = a.from.enabled)
                   => new.enabled = old.enabled
             /\ new.type = old.type /\ new.state = old.state
=============================================================================
