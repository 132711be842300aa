SPECIFICATION NatsSpec
CONSTANTS
  Thread = {t1, t2}
  t1 = t1
  t2 = t2
  Message = {m1, m2}
  m1 = m1
  m2 = m2
  Forbidden = {m2}
  Log = Log
  kMaxRetries = 2
  failure_threshold = 2
  Capacity = 2
  MaxOutages = 1
  MaxLostAcks = 1
  MaxLogs = 2
  Statuses <- MCStatuses
  MaxWorkers = 2
  TotalBudget = 3
  ProbeTimeout = 2
INVARIANT Accounted
INVARIANT KeepsNewest
INVARIANT FoundIsReturned
INVARIANT BudgetKept
PROPERTY DiscoveryReturns
 
CHECK_DEADLOCK FALSE
