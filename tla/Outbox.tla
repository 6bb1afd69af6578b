------------------------------- MODULE Outbox -------------------------------
(***************************************************************************)
(* What the delivery engine promises of each delivery it accepted, without *)
(* a word on rows, jobs, workers or repairs:                               *)
(*   - the deliveries of a message are accepted together;                  *)
(*   - a delivery is called delivered only after the provider took it, and *)
(*     given up only after a refusal or a spent retry schedule.            *)
(* Without faults (Exact) it promises more: the provider takes a delivery  *)
(* once, a delivered one stays so, and nothing but a retry by hand opens   *)
(* one that was given up.                                                  *)
(***************************************************************************)
EXTENDS Naturals

CONSTANTS
  Messages,      \* messages the API accepts
  Deliveries,    \* their deliveries
  MessageOf,     \* the message of each delivery
  NumDelays,     \* length of the retry schedule
  Exact          \* exactly once, or at least once?

VARIABLES
  state,     \* what a delivery is said to be
  tries,     \* attempts made
  acks,      \* attempts the provider took
  refused    \* deliveries that met a refusal

vars == <<state, tries, acks, refused>>

Init ==
  /\ state = [d \in Deliveries |-> "absent"]
  /\ tries = [d \in Deliveries |-> 0]
  /\ acks = [d \in Deliveries |-> 0]
  /\ refused = {}

Accept(m) ==
  /\ \A d \in Deliveries : MessageOf[d] = m => state[d] = "absent"
  /\ state' = [d \in Deliveries |-> IF MessageOf[d] = m THEN "open" ELSE state[d]]
  /\ UNCHANGED <<tries, acks, refused>>

\* The delivery may be worked on.
Open(d) ==
  /\ state[d] # "absent"
  /\ Exact => state[d] = "open"

\* The provider is asked: it takes the delivery, fails for now or refuses.
Attempt(d) ==
  /\ Open(d)
  /\ Exact => acks[d] = 0
  /\ tries' = [tries EXCEPT ![d] = @ + 1]
  /\ \/ acks' = [acks EXCEPT ![d] = @ + 1] /\ UNCHANGED refused
     \/ UNCHANGED acks /\ refused' \in {refused, refused \cup {d}}
  /\ UNCHANGED state

\* The attempt ends before the provider: there is no usable channel or key.
Reject(d) ==
  /\ Open(d)
  /\ Exact => acks[d] = 0
  /\ tries' = [tries EXCEPT ![d] = @ + 1]
  /\ refused' = refused \cup {d}
  /\ state' = [state EXCEPT ![d] = "given up"]
  /\ UNCHANGED acks

Deliver(d) ==
  /\ Open(d)
  /\ acks[d] > 0
  /\ state' = [state EXCEPT ![d] = "delivered"]
  /\ UNCHANGED <<tries, acks, refused>>

GiveUp(d) ==
  /\ Open(d)
  /\ d \in refused \/ tries[d] > NumDelays
  /\ Exact => acks[d] = 0
  /\ state' = [state EXCEPT ![d] = "given up"]
  /\ UNCHANGED <<tries, acks, refused>>

\* By hand, or at least once by the repair and by late sessions.
Reopen(D) ==
  /\ \A d \in D : state[d] # "absent"
  /\ Exact => \A d \in D : state[d] = "given up"
  /\ state' = [d \in Deliveries |-> IF d \in D THEN "open" ELSE state[d]]
  /\ UNCHANGED <<tries, acks, refused>>

Next ==
  \/ \E m \in Messages : Accept(m)
  \/ \E d \in Deliveries : Attempt(d) \/ Reject(d) \/ Deliver(d) \/ GiveUp(d)
  \/ \E D \in SUBSET Deliveries : Reopen(D)

Spec == Init /\ [][Next]_vars
=============================================================================
