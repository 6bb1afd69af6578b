SPECIFICATION Spec
CONSTANTS
  c1 = c1
  c2 = c2
  Requests = {r1, r2}
  Admins = {a1}
  Channels = {c1, c2}
  Initial = c1
  IdemKeys = {i1}
  NoIdem = noidem
  Payloads <- SomePayloads
  Patches <- SomePatches
  ForeignKeys = FALSE
SYMMETRY Symmetric
CHECK_DEADLOCK FALSE
INVARIANT NoOrphan
