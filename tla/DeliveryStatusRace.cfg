SPECIFICATION Spec
CONSTANTS
  m1 = m1
  d1 = d1
  Messages = {m1}
  Deliveries = {d1, d2}
  MessageOf <- OneMessage
  Workers = {w1, w2}
  Apis = {a1}
  Repair = repair
  NumDelays = 1
  RepairLimit = 1
  Stalls = TRUE
  MaxFaults = 0
  MaxLimited = 0
  MaxRetries = 0
  MaxSpent = 0
CHECK_DEADLOCK FALSE
INVARIANT MessageSettled
