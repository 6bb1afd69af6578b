-------------------------- MODULE MessageDetailPage --------------------------
(***************************************************************************)
(* The page of one message (src/web/src/pages/MessageDetailPage.tsx): its  *)
(* deliveries, the button that retries a failed one and the one that       *)
(* replays the message.  What the server does with a retry is the subject  *)
(* of Delivery; here it is accepted for a dead letter and refused          *)
(* otherwise.  "failed" is shown and retried like "dead_letter".           *)
(***************************************************************************)
EXTENDS Mutations, FiniteSets

CONSTANTS
    Deliveries,     \* deliveries of the message
    MaxFailures,    \* bound: failures of a delivery
    MaxElsewhere,   \* bound: retries by other sessions
    MaxGestures     \* bound: what the user does, and refetches

VARIABLES server, cache, page

vars == <<server, cache, page, calls>>

(***************************************************************************)
(* The server.  failure numbers the dead letters of a delivery.            *)
(***************************************************************************)
Requeued(d) == server' = [server EXCEPT !.row[d].status = "queued"]

ServeRetry(i) ==
    LET d == calls[i].arg.delivery IN
    /\ calls[i].op = "retry" /\ calls[i].at = "sent"
    /\ IF server.row[d].status = "dead_letter"
       THEN Requeued(d) /\ Answer(i, "ok", Null)
       ELSE Answer(i, "error", Null) /\ UNCHANGED server
    /\ UNCHANGED <<cache, page>>

(* A replay is a new message: this one is left as it is.                   *)
ServeReplay(i) ==
    /\ calls[i].op = "replay" /\ calls[i].at = "sent"
    /\ Answer(i, "ok", Null)
    /\ UNCHANGED <<server, cache, page>>

(* The worker ends a delivery, or somebody else retries it.                *)
Elsewhere(d) ==
    /\ \/ /\ server.row[d].status = "queued"
          /\ \/ server' = [server EXCEPT !.row[d].status = "success"]
             \/ /\ server.row[d].failure < MaxFailures
                /\ server' = [server EXCEPT !.row[d] =
                      [status |-> "dead_letter", failure |-> @.failure + 1]]
       \/ /\ server.row[d].status = "dead_letter" /\ server.elsewhere < MaxElsewhere
          /\ server' = [server EXCEPT !.row[d].status = "queued", !.elsewhere = @ + 1]
    /\ UNCHANGED <<cache, page, calls>>

(***************************************************************************)
(* The query ["message", id].                                              *)
(***************************************************************************)
Idle == [at |-> "idle", rows |-> Null]
Sent == [at |-> "sent", rows |-> Null]

Gesture(p) ==
    /\ page.gestures < MaxGestures
    /\ page' = [p EXCEPT !.gestures = page.gestures + 1]

(* The window gets the focus, or the page is opened.                       *)
Refetch ==
    /\ cache.fetch = Idle
    /\ cache' = [cache EXCEPT !.fetch = Sent]
    /\ Gesture(page)
    /\ UNCHANGED <<server, calls>>

ServeFetch ==
    /\ cache.fetch = Sent
    /\ cache' = [cache EXCEPT !.fetch = [at |-> "back", rows |-> server.row]]
    /\ UNCHANGED <<server, page, calls>>

Awaiting == {i \in InFlight : calls[i].at = "await"}

(* invalidateQueries settles with the fetch, whether it succeeded or not.  *)
FetchOver(rows) ==
    /\ cache' = [cache EXCEPT !.fetch = Idle, !.rows = IF rows = Null THEN @ ELSE rows]
    /\ calls' = [i \in DOMAIN calls |->
                   IF i \in Awaiting
                   THEN [calls[i] EXCEPT !.at = "done", !.arg = Null] ELSE calls[i]]
    /\ page' = [page EXCEPT !.retried =
                   IF rows # Null THEN @ ELSE @ \ {calls[i].arg : i \in Awaiting}]
    /\ UNCHANGED server

FetchLands == cache.fetch.at = "back" /\ FetchOver(cache.fetch.rows)
FetchFails == cache.fetch # Idle /\ FetchOver(Null)

(***************************************************************************)
(* The buttons.  retried (history): the failures this page has retried     *)
(* with success, and whose refetch has not failed.                         *)
(***************************************************************************)
Blank == [retried |-> {}, gestures |-> 0]

Shown == IF cache.rows = Null THEN {} ELSE DOMAIN cache.rows

(* All the rows' buttons are disabled while one retry is pending.          *)
retry(d) ==
    /\ d \in Shown /\ cache.rows[d].status = "dead_letter"
    /\ ~Pending("retry")
    /\ Send("retry", [delivery |-> d, failure |-> cache.rows[d].failure])
    /\ Gesture(page)
    /\ UNCHANGED <<server, cache>>

replay ==
    /\ Shown # {} /\ ~Pending("replay")
    /\ Send("replay", Null)
    /\ Gesture(page)
    /\ UNCHANGED <<server, cache>>

(* onSuccess awaits the refetch it asks for, so that the mutation is       *)
(* pending until the rows are new.  A bug: it does not wait for it.        *)
AfterRetryAtOnce == "done"
AfterRetry == "await"

(* A query with data is fetched anew, whatever was under way.              *)
retryAnswered(i) ==
    /\ calls[i].op = "retry" /\ calls[i].at = "ok"
    /\ cache' = [cache EXCEPT !.fetch = Sent]
    /\ calls' = [calls EXCEPT ![i].at = AfterRetry]
    /\ page' = IF calls[i].here THEN [page EXCEPT !.retried = @ \cup {calls[i].arg}]
                                ELSE page
    /\ UNCHANGED server

settle(i) ==
    /\ \/ calls[i].at = "error"
       \/ calls[i].op = "replay" /\ calls[i].at = "ok"
    /\ Settled(i)
    /\ UNCHANGED <<server, cache, page>>

lose(i) ==
    /\ Lose(i)
    /\ UNCHANGED <<server, cache, page>>

leave ==
    /\ Gesture(Blank)
    /\ Abandon
    /\ UNCHANGED <<server, cache>>

Init ==
    /\ server = [row |-> [d \in Deliveries |-> [status |-> "dead_letter", failure |-> 1]],
                 elsewhere |-> 0]
    /\ cache = [rows |-> Null, fetch |-> Sent]
    /\ page = Blank
    /\ calls = <<>>

Next ==
    \/ \E d \in Deliveries : Elsewhere(d) \/ retry(d)
    \/ Refetch \/ ServeFetch \/ FetchLands \/ FetchFails
    \/ replay \/ leave
    \/ \E i \in InFlight :
          ServeRetry(i) \/ ServeReplay(i) \/ retryAnswered(i) \/ settle(i) \/ lose(i)

Spec == Init /\ [][Next]_vars

(***************************************************************************)
(* Properties.                                                             *)
(***************************************************************************)
(* The page never asks for a second retry of a failure it has retried: by  *)
(* the time the buttons work again the row shows what became of the first, *)
(* unless the refetch failed.                                              *)
RetryOncePerFailure ==
    \A i \in InFlight :
        calls[i].op = "retry" /\ calls[i].at = "sent" /\ calls[i].here
        => calls[i].arg \notin page.retried
=============================================================================
