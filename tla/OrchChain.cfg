SPECIFICATION Spec
CONSTANTS
  NoTask = NoTask
  Brief = {1}
  Id <- TwoModulesIds
  Plan <- TwoModulesPlan
  Uuid <- NoUuid
  Thread <- SerialThread
  Serves <- SerialThreads
  ExtraBlockers <- NoExtra
  MaxSplit = 1
  MaxCalls = 0
  MaxFaults = 0
  Copies = 1
  Announce = {}
  Outcomes = {"complete"}
INVARIANT NoneLeftBehind
CHECK_DEADLOCK FALSE
