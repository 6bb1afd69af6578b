SPECIFICATION Spec
CONSTANTS
  m1 = m1
  d1 = d1
  Messages = {m1, m2}
  Deliveries = {d1, d2, d3}
  MessageOf <- MessageEach
  Workers = {w1}
  Apis = {a1}
  Repair = repair
  NumDelays = 0
  RepairLimit = 2
  Stalls = TRUE
  MaxFaults = 1
  MaxLimited = 0
  MaxRetries = 0
  MaxSpent = 1
CHECK_DEADLOCK FALSE
INVARIANTS SuccessAcknowledged
