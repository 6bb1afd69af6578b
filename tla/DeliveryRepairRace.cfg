SPECIFICATION Spec
CONSTANTS
  m1 = m1
  d1 = d1
  Messages = {m1}
  Deliveries = {d1}
  MessageOf <- OneMessage
  Workers = {w1}
  Apis = {a1}
  Repair = repair
  NumDelays = 1
  RepairLimit = 1
  Stalls = FALSE
  MaxFaults = 1
  MaxLimited = 0
  MaxRetries = 0
  MaxSpent = 1
CHECK_DEADLOCK FALSE
PROPERTY RepairSparesDelivered
