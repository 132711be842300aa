SPECIFICATION FairSpec
CONSTANTS
  NoTask = NoTask
  Brief = {1}
  Id <- DiamondIds
  Plan <- DiamondPlan
  Uuid <- NoUuid
  Thread <- CompletionThread
  Serves <- CompletionThreads
  ExtraBlockers <- NoExtra
  MaxSplit = 0
  MaxCalls = 0
  MaxFaults = 0
  Copies = 1
  Announce = {}
  Outcomes = {"complete"}
INVARIANT NoneLeftBehind
PROPERTY BriefCompletes
CHECK_DEADLOCK FALSE
