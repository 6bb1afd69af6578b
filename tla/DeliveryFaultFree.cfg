SPECIFICATION Spec
CONSTANTS
  m1 = m1
  d1 = d1
  Messages = {m1}
  Deliveries = {d1, d2}
  MessageOf <- OneMessage
  Workers = {w1, w2}
  Apis = {a1}
  Repair = repair
  NumDelays = 1
  RepairLimit = 1
  Stalls = TRUE
  MaxFaults = 0
  MaxLimited = 1
  MaxRetries = 2
  MaxSpent = 3
SYMMETRY Symmetric
CHECK_DEADLOCK FALSE
INVARIANTS TypeOK OneOwner SentOnce StampsAgree
PROPERTIES SuccessStays DeliversExactlyOnce
