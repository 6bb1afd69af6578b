----------------------------- MODULE MCDelivery -----------------------------
EXTENDS Delivery, TLC

CONSTANTS m1, d1

OneMessage == [d \in Deliveries |-> m1]

\* d1 alone in m1, the others in another message.
MessageEach ==
  [d \in Deliveries |-> IF d = d1 THEN m1 ELSE CHOOSE m \in Messages : m # m1]

Symmetric == Permutations(Workers)
=============================================================================
