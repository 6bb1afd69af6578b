SPECIFICATION Spec
CONSTANTS
  m1 = m1
  d1 = d1
  Messages = {m1}
  Deliveries = {d1}
  MessageOf <- OneMessage
  Workers = {w1, w2}
  Apis = {a1}
  Repair = repair
  NumDelays = 1
  RepairLimit = 1
  Stalls = TRUE
  MaxFaults = 2
  MaxLimited = 1
  MaxRetries = 1
  MaxSpent = 2
SYMMETRY Symmetric
CHECK_DEADLOCK FALSE
INVARIANTS NothingStranded AttemptsReal GivenUpFairly
PROPERTY DeliversAtLeastOnce
