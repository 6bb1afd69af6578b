---------------------------- MODULE PushKeysPage ----------------------------
(***************************************************************************)
(* The push-key page of the console (src/web/src/pages/PushKeysPage.tsx)   *)
(* and the part of the server it talks to (src/app/services/push_keys.py). *)
(*                                                                         *)
(*   server   the push_keys rows with the secret each key has, and the     *)
(*            channels that are listed for the user                        *)
(*   cache    ["push-keys", page] and ["channels", "push-key-choices"]     *)
(*   page     the useState of the mounted component                        *)
(*   calls    the requests in flight                                       *)
(*                                                                         *)
(* business_name and per_minute_limit travel with every save like the      *)
(* other fields and are left out.  Which page of the list is shown is the  *)
(* subject of ListPages.                                                   *)
(***************************************************************************)
EXTENDS Mutations, FiniteSets, FiniteSetsExt, SequencesExt

CONSTANTS
    PushKeys,       \* ids of push keys
    Channels,       \* channel ids, numbered in the order the server lists them
    MaxElsewhere,   \* bound: changes made by other sessions
    MaxGestures     \* bound: what the user does on the page

VARIABLES server, cache, page

vars == <<server, cache, page, calls>>

(***************************************************************************)
(* The server.                                                             *)
(***************************************************************************)
Absent == [active |-> FALSE, channels |-> {}, default |-> Null, secret |-> 0]

Live(k) == server.key[k].secret > 0

(* _validate_channel_bindings: the default is bound, every channel is      *)
(* there, authorised to the caller, and enabled.                           *)
ValidBinding(a) ==
    a.default \in a.channels /\ a.channels \subseteq server.listed \ server.disabled

Stored(a, active, secret) ==
    [active |-> active, channels |-> a.channels, default |-> a.default,
     secret |-> secret]

ServeCreate(i, k) ==
    LET a == calls[i].arg IN
    /\ calls[i].op = "create" /\ calls[i].at = "sent"
    /\ IF ValidBinding(a)
       THEN /\ k \notin server.used
            /\ server' = [server EXCEPT !.key[k] = Stored(a, TRUE, 1),
                                        !.used = @ \cup {k}]
            /\ Answer(i, "ok", [key |-> k, secret |-> 1])
       ELSE Answer(i, "error", Null) /\ UNCHANGED server
    /\ UNCHANGED <<cache, page>>

ServeUpdate(i) ==
    LET a == calls[i].arg IN
    /\ calls[i].op = "update" /\ calls[i].at = "sent"
    /\ IF Live(a.key) /\ ValidBinding(a)
       THEN /\ server' = [server EXCEPT !.key[a.key] =
                             Stored(a, a.active, @.secret)]
            /\ Answer(i, "ok", Null)
       ELSE Answer(i, "error", Null) /\ UNCHANGED server
    /\ UNCHANGED <<cache, page>>

(* The plaintext goes out with the answer and is not stored.              *)
AnsweredSecretOld(k) == server.key[k].secret
AnsweredSecret(k) == server.key[k].secret + 1

ServeRotate(i) ==
    LET k == calls[i].arg IN
    /\ calls[i].op = "rotate" /\ calls[i].at = "sent"
    /\ IF Live(k)
       THEN /\ server' = [server EXCEPT !.key[k].secret = @ + 1]
            /\ Answer(i, "ok", [key |-> k, secret |-> AnsweredSecret(k)])
       ELSE Answer(i, "error", Null) /\ UNCHANGED server
    /\ UNCHANGED <<cache, page>>

ServeDelete(i) ==
    LET k == calls[i].arg IN
    /\ calls[i].op = "delete" /\ calls[i].at = "sent"
    /\ IF Live(k)
       THEN /\ server' = [server EXCEPT !.key[k] = Absent]
            /\ Answer(i, "ok", Null)
       ELSE Answer(i, "error", Null) /\ UNCHANGED server
    /\ UNCHANGED <<cache, page>>

(* What an administrator may bind to anybody's key: any enabled channel.   *)
Bindings ==
    {a \in [channels : SUBSET Channels, default : Channels] :
        a.default \in a.channels /\ a.channels \cap server.disabled = {}}

(* What an update or a deletion by another session makes of a key.         *)
ChangedRows(k) ==
    {Absent, [server.key[k] EXCEPT !.active = ~@]} \cup
    {Stored(a, server.key[k].active, server.key[k].secret) : a \in Bindings}

(* Another session updates, deletes or creates a key (it rotates one in    *)
(* RotatedElsewhere), or an administrator takes a channel away, gives one, *)
(* or disables or enables one.                                             *)
Elsewhere ==
    /\ server.elsewhere < MaxElsewhere
    /\ \/ \E k \in PushKeys :
             /\ Live(k)
             /\ \E row \in ChangedRows(k) :
                   server' = [server EXCEPT !.key[k] = row, !.elsewhere = @ + 1]
       \/ \E k \in PushKeys \ server.used, a \in Bindings :
             server' = [server EXCEPT !.key[k] = Stored(a, TRUE, 1),
                                      !.used = @ \cup {k}, !.elsewhere = @ + 1]
       \/ \E c \in Channels :
             \/ server' = [server EXCEPT !.listed = SymDiff(@, {c}),
                                         !.elsewhere = @ + 1]
             \/ server' = [server EXCEPT !.disabled = SymDiff(@, {c}),
                                         !.elsewhere = @ + 1]
    /\ UNCHANGED <<cache, page, calls>>

(***************************************************************************)
(* The queries.  A fetch may land at any time (on mount, on focus, after   *)
(* an invalidation); until it does the page shows what it had.             *)
(***************************************************************************)
Row(k) == server.key[k]

FetchKeys ==
    /\ cache' = [cache EXCEPT !.keys = server.key]
    /\ UNCHANGED <<server, page, calls>>

(* A disabled channel is listed among the choices and refused when bound.  *)
FetchChannels ==
    /\ cache' = [cache EXCEPT !.channels = server.listed]
    /\ UNCHANGED <<server, page, calls>>

Listed == {k \in PushKeys : cache.keys[k].secret > 0}

(***************************************************************************)
(* The form.                                                               *)
(***************************************************************************)
(* useState of the page.  from is the row the dialog was opened from       *)
(* (editingKey), secret the plaintext the last dialog shows (newKeyValue). *)
Blank == [dialog |-> FALSE, editing |-> Null, from |-> Absent, touched |-> {},
          selected |-> <<>>, default |-> Null,
          active |-> TRUE, rotate |-> Null, delete |-> Null, secret |-> Null,
          raced |-> {}, gestures |-> 0]

(* One gesture of the user gives the page the state p.                     *)
Gesture(p) ==
    /\ page.gestures < MaxGestures
    /\ page' = [p EXCEPT !.gestures = page.gestures + 1]

(* The form is gone.  Its state stays behind, but the next opening         *)
(* overwrites all of it: only the switch is kept here.                     *)
Closed(p) ==
    [p EXCEPT !.dialog = FALSE, !.editing = Null, !.from = Absent,
              !.selected = <<>>, !.default = Null, !.touched = {}]

Modal == page.rotate # Null \/ page.delete # Null \/ page.secret # Null

openCreate ==
    /\ ~page.dialog /\ ~Modal
    /\ Gesture([page EXCEPT !.dialog = TRUE, !.editing = Null, !.from = Absent,
                            !.selected = <<>>, !.default = Null, !.active = TRUE,
                            !.secret = Null, !.touched = {}])
    /\ UNCHANGED <<server, cache, calls>>

(* A bug: the switch keeps the position it had in the last dialog.         *)
OpenedOnForgetful(k, order) ==
    [page EXCEPT !.dialog = TRUE, !.editing = k, !.from = cache.keys[k],
                 !.selected = order, !.default = cache.keys[k].default,
                 !.secret = Null, !.touched = {}]

OpenedOn(k, order) ==
    [page EXCEPT !.dialog = TRUE, !.editing = k, !.from = cache.keys[k],
                 !.selected = order, !.default = cache.keys[k].default,
                 !.active = cache.keys[k].active, !.secret = Null,
                 !.touched = {}]

openEdit(k) ==
    /\ ~page.dialog /\ ~Modal /\ k \in Listed
    /\ \E order \in SetToSeqs(cache.keys[k].channels) : Gesture(OpenedOn(k, order))
    /\ UNCHANGED <<server, cache, calls>>

closeForm ==
    /\ page.dialog /\ ~Modal
    /\ Gesture(Closed(page))
    /\ UNCHANGED <<server, cache, calls>>

(* The checkbox of a channel the list of choices shows.                    *)
toggleChannel(c) ==
    /\ page.dialog /\ ~Modal /\ c \in cache.channels
    /\ Gesture([page EXCEPT !.touched = @ \cup {"channels"},
                  !.selected = IF c \in ToSet(@) THEN Remove(@, c)
                                                 ELSE Append(@, c)])
    /\ UNCHANGED <<server, cache, calls>>

(* selectableChannels: the choices that are ticked, in the list's order.   *)
Selectable == cache.channels \cap ToSet(page.selected)

(* The default the form shows.                                             *)
ShownDefault ==
    IF page.default \in Selectable THEN page.default
    ELSE IF Selectable = {} THEN Null ELSE Min(Selectable)

pickDefault(c) ==
    /\ page.dialog /\ ~Modal /\ c \in Selectable
    /\ Gesture([page EXCEPT !.default = c, !.touched = @ \cup {"channels"}])
    /\ UNCHANGED <<server, cache, calls>>

switchActive ==
    /\ page.dialog /\ ~Modal /\ page.editing # Null
    /\ Gesture([page EXCEPT !.active = ~@, !.touched = @ \cup {"active"}])
    /\ UNCHANGED <<server, cache, calls>>

(* bindableSelectedChannels: the ticked channels that are choices, and the *)
(* one of them that was ticked first.                                      *)
Bindable == {c \in ToSet(page.selected) : c \in cache.channels}
FirstTicked ==
    page.selected[Min({n \in DOMAIN page.selected : page.selected[n] \in Bindable})]

(* A bug: the picked default is forgotten.                                 *)
SentDefaultFirst == FirstTicked

(* The default the form sends.                                             *)
SentDefault == IF page.default \in Bindable THEN page.default ELSE FirstTicked

Payload ==
    [key |-> page.editing, channels |-> Bindable, default |-> SentDefault,
     active |-> page.active,
     \* history: what the form showed when it was sent
     shown |-> ShownDefault, chosen |-> page.default,
     from |-> page.from, touched |-> page.touched,
     hidden |-> page.from.channels \ cache.channels]

(* The submit button is disabled while a save is pending.                  *)
SaveDisabledOnUpdate == Pending("update")
SaveDisabled == Pending("create") \/ Pending("update")

handleSubmit ==
    /\ page.dialog /\ ~Modal /\ ~SaveDisabled
    /\ Bindable # {}                                \* else a toast
    /\ Send(IF page.editing = Null THEN "create" ELSE "update", Payload)
    /\ Gesture(page)
    /\ UNCHANGED <<server, cache>>

(***************************************************************************)
(* The confirmations.  AlertDialogAction is a plain button: it neither     *)
(* closes the dialog nor is disabled while the request is pending.         *)
(***************************************************************************)
askRotate(k) ==
    /\ ~page.dialog /\ ~Modal /\ k \in Listed
    /\ Gesture([page EXCEPT !.rotate = k])
    /\ UNCHANGED <<server, cache, calls>>

askDelete(k) ==
    /\ ~page.dialog /\ ~Modal /\ k \in Listed
    /\ Gesture([page EXCEPT !.delete = k])
    /\ UNCHANGED <<server, cache, calls>>

cancelConfirm ==
    /\ page.rotate # Null \/ page.delete # Null
    /\ page.secret = Null
    /\ Gesture([page EXCEPT !.rotate = Null, !.delete = Null])
    /\ UNCHANGED <<server, cache, calls>>

(* raced: keys rotated while another secret of theirs was on its way to    *)
(* this page, or on its screen (history).                                  *)
SecretInFlight(k) ==
    \E i \in InFlight :
        \/ calls[i].op = "rotate" /\ calls[i].arg = k
        \/ calls[i].op = "create" /\ calls[i].at = "ok" /\ calls[i].out.key = k

confirmRotate ==
    /\ page.rotate # Null /\ page.secret = Null
    /\ Send("rotate", page.rotate)
    /\ Gesture([page EXCEPT !.raced =
                  IF SecretInFlight(page.rotate) THEN @ \cup {page.rotate} ELSE @])
    /\ UNCHANGED <<server, cache>>

confirmDelete ==
    /\ page.delete # Null /\ page.secret = Null
    /\ Send("delete", page.delete)
    /\ Gesture(page)
    /\ UNCHANGED <<server, cache>>

(* Another session rotates a key.                                          *)
SecretOut(k) ==
    \/ page.secret # Null /\ page.secret.key = k
    \/ \E i \in InFlight :
          /\ calls[i].op \in {"create", "rotate"} /\ calls[i].at = "ok"
          /\ calls[i].out.key = k

RotatedElsewhere(k) ==
    /\ server.elsewhere < MaxElsewhere /\ Live(k)
    /\ server' = [server EXCEPT !.key[k].secret = @ + 1, !.elsewhere = @ + 1]
    /\ page' = [page EXCEPT !.raced = IF SecretOut(k) THEN @ \cup {k} ELSE @]
    /\ UNCHANGED <<cache, calls>>

closeSecret ==
    /\ page.secret # Null
    /\ Gesture([page EXCEPT !.secret = Null])
    /\ UNCHANGED <<server, cache, calls>>

(***************************************************************************)
(* The answers (onSuccess of the four mutations).  The invalidation only   *)
(* brings FetchKeys forward.  A page that is gone changes nothing.         *)
(***************************************************************************)
OnSuccess(i) ==
    CASE calls[i].op = "create" -> [page EXCEPT !.secret = calls[i].out]
      [] calls[i].op = "update" ->
            Closed(page)
      [] calls[i].op = "rotate" ->
            [page EXCEPT !.rotate = Null, !.secret = calls[i].out]
      [] calls[i].op = "delete" -> [page EXCEPT !.delete = Null]

settle(i) ==
    /\ calls[i].at \in {"ok", "error"}
    /\ page' = IF calls[i].at = "ok" /\ calls[i].here THEN OnSuccess(i) ELSE page
    /\ Settled(i)
    /\ UNCHANGED <<server, cache>>

lose(i) ==
    /\ Lose(i)
    /\ UNCHANGED <<server, cache, page>>

(* Leaving the route and coming back: the component starts afresh, the     *)
(* cache and the requests survive.                                         *)
leave ==
    /\ page # Blank
    /\ Gesture([Blank EXCEPT !.raced = page.raced])
    /\ Abandon
    /\ UNCHANGED <<server, cache>>

Init ==
    /\ LET k == CHOOSE x \in PushKeys : TRUE
           row == [active |-> TRUE, channels |-> Channels,
                   default |-> Max(Channels), secret |-> 1]
       IN  server = [key |-> [x \in PushKeys |-> IF x = k THEN row ELSE Absent],
                     used |-> {k}, listed |-> Channels, disabled |-> {},
                     elsewhere |-> 0]
    /\ cache = [keys |-> [x \in PushKeys |-> Absent], channels |-> {}]
    /\ page = Blank
    /\ calls = <<>>

Next ==
    \/ Elsewhere \/ FetchKeys \/ FetchChannels
    \/ openCreate \/ closeForm \/ switchActive \/ handleSubmit
    \/ \E k \in PushKeys :
          RotatedElsewhere(k) \/ openEdit(k) \/ askRotate(k) \/ askDelete(k)
    \/ \E c \in Channels : toggleChannel(c) \/ pickDefault(c)
    \/ cancelConfirm \/ confirmRotate \/ confirmDelete \/ closeSecret \/ leave
    \/ \E i \in InFlight :
          \/ \E k \in PushKeys : ServeCreate(i, k)
          \/ ServeUpdate(i) \/ ServeRotate(i) \/ ServeDelete(i)
          \/ settle(i) \/ lose(i)

Spec == Init /\ [][Next]_vars

(***************************************************************************)
(* Properties.                                                             *)
(***************************************************************************)
(* The secret the "shown only once" dialog displays is the one the key now *)
(* answers to, as long as the key is there, with two exceptions.  This     *)
(* page asked for a rotation of the key while another secret of it was on  *)
(* its way (the confirmation stays enabled while a rotation is pending):   *)
(* then the answers may arrive in either order.  Or another session        *)
(* rotated the key after its secret had been handed out to this page: no   *)
(* page learns of that, and the secret on the screen is dead.              *)
ShownSecretLive ==
    page.secret # Null =>
        LET k == page.secret.key IN
        Live(k) /\ k \notin page.raced => page.secret.secret = server.key[k].secret

(* A default the user picked, and whose channel is among those sent, is    *)
(* the default that is sent.  Only without such a pick may the form show   *)
(* one default (first of the list) and send another (first ticked).        *)
DefaultAsShown ==
    \A i \in InFlight :
        calls[i].op \in {"create", "update"} /\ calls[i].at = "sent" =>
            LET a == calls[i].arg IN
            a.default # a.shown => a.chosen \notin a.channels

(* A save sends every field of the form, from the row the dialog was       *)
(* opened from.  Still, a field the user did not touch changes on the      *)
(* server only if it changed there since that row was read, or, for the    *)
(* bindings, if a bound channel was no longer among the choices.           *)
SaveKeepsUntouched ==
    \A i \in InFlight :
       calls[i].op = "update" /\ calls[i].at = "sent" /\ calls'[i].at = "ok" =>
         LET a == calls[i].arg
             old == server.key[a.key]
             new == server'.key[a.key]
         IN  /\ ("active" \notin a.touched /\ old.active = a.from.active)
                   => new.active = old.active
             /\ ("channels" \notin a.touched /\ a.hidden = {}
                 /\ old.channels = a.from.channels
                 /\ old.default = a.from.default)
                   => new.channels = old.channels /\ new.default = old.default

(* A page has at most one save on its way: a second click creates no       *)
(* second key and sends no second update.                                  *)
OneSaveAtATime ==
    \A i, j \in InFlight :
        /\ calls[i].op \in {"create", "update"} /\ calls[i].here
        /\ calls[j].op \in {"create", "update"} /\ calls[j].here
        => i = j
=============================================================================
