SPECIFICATION Spec
CONSTANTS
  c1 = c1
  c2 = c2
  Requests = {r1}
  Admins = {a1, a2}
  Channels = {c1, c2}
  Initial = c1
  IdemKeys = {i1}
  NoIdem = noidem
  Payloads <- SomePayloads
  Patches <- BindingPatches
  ForeignKeys = TRUE
SYMMETRY Symmetric
CHECK_DEADLOCK FALSE
INVARIANT DefaultBound
