------------------------------- MODULE MCPush -------------------------------
EXTENDS Push, TLC

CONSTANTS c1, c2

\* Switch the key off; move it to the other channel.
SomePatches ==
  {[ids |-> {}, default |-> {}, active |-> {FALSE}],
   [ids |-> {c2}, default |-> {c2}, active |-> {}]}

BindingPatches ==
  {[ids |-> {c1, c2}, default |-> {}, active |-> {}],
   [ids |-> {c1}, default |-> {}, active |-> {}],
   [ids |-> {}, default |-> {c2}, active |-> {}]}

\* The same, and what a key that has moved must refuse: the old channel without a new
\* default, and the old default without the channel.
RefusedPatches ==
  {[ids |-> {c1}, default |-> {}, active |-> {}],
   [ids |-> {}, default |-> {c1}, active |-> {}]}

AllPatches == SomePatches \cup RefusedPatches

SomePayloads == {[text |-> "hello", ids |-> {}], [text |-> "hello", ids |-> {c2}]}

Symmetric == Permutations(Requests) \cup Permutations(Admins)
=============================================================================
