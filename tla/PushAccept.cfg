SPECIFICATION Spec
CONSTANTS
  c1 = c1
  c2 = c2
  Requests = {r1, r2, r3}
  Admins = {a1}
  Channels = {c1, c2}
  Initial = c1
  IdemKeys = {i1}
  NoIdem = noidem
  Payloads <- SomePayloads
  Patches <- AllPatches
  ForeignKeys = TRUE
SYMMETRY Symmetric
CHECK_DEADLOCK FALSE
INVARIANTS TypeOK OneMessage AnswerTrue DefaultBound
