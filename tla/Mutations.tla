------------------------------ MODULE Mutations ------------------------------
(***************************************************************************)
(* What the console's pages use of @tanstack/react-query's useMutation     *)
(* (the library is a dependency of src/web and is modelled from its use).  *)
(*                                                                         *)
(* calls is the sequence of requests the mounted page, and the pages       *)
(* before it, have sent.  A request is carried to the server, served,      *)
(* answered and settled in separate steps, so two requests may be served   *)
(* in either order and their answers may come back in either order.  A     *)
(* request, or its answer, may be lost; the page then sees a failure.      *)
(* Mutations are not retried (main.tsx sets retry for queries only).       *)
(***************************************************************************)
EXTENDS Naturals, Sequences

CONSTANTS
    Null,       \* "no value"
    MaxCalls    \* bound: requests sent in a behaviour

VARIABLE calls

(* "sent": on its way; "ok" and "error": the answer is on its way back     *)
(* (an error may also be the loss of the request or of the answer);        *)
(* "done": the page has dealt with the answer.  here is FALSE once the     *)
(* page that sent the request is unmounted: its observer is gone and the   *)
(* useState setters of its callbacks do nothing.                           *)
Request(op, arg) ==
    [op |-> op, arg |-> arg, at |-> "sent", here |-> TRUE, out |-> Null]

Send(op, arg) ==
    /\ Len(calls) < MaxCalls
    /\ calls' = Append(calls, Request(op, arg))

InFlight == {i \in DOMAIN calls : calls[i].at # "done"}

(* mutation.isPending: the observer follows the latest mutate of its page. *)
Pending(op) ==
    \E i \in InFlight :
        /\ calls[i].op = op /\ calls[i].here
        /\ \A j \in DOMAIN calls : j > i => ~(calls[j].op = op /\ calls[j].here)

(* The latest mutate of an observer: its per-call callbacks still run.     *)
IsLatest(i) ==
    /\ calls[i].here
    /\ \A j \in DOMAIN calls :
          j > i => ~(calls[j].op = calls[i].op /\ calls[j].here)

Answer(i, at, out) ==
    calls' = [calls EXCEPT ![i].at = at, ![i].out = out]

Lose(i) ==
    /\ calls[i].at \in {"sent", "ok"}
    /\ Answer(i, "error", Null)

(* What a settled request was about no longer matters; only its place in   *)
(* the order of its observer does.                                         *)
Settled(i) ==
    calls' = [calls EXCEPT ![i].at = "done", ![i].arg = Null, ![i].out = Null]

(* Leaving the route unmounts the page.                                    *)
Abandon == calls' = [i \in DOMAIN calls |-> [calls[i] EXCEPT !.here = FALSE]]
=============================================================================
