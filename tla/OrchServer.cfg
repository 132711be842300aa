SPECIFICATION Spec
CONSTANTS
  NoTask = NoTask
  Brief = {1}
  Id <- LineIds
  Plan <- LinePlan
  Uuid <- OneUuid
  Thread <- ServerThread
  Serves <- ServerThreads
  ExtraBlockers <- LeafExtra
  MaxSplit = 1
  MaxCalls = 1
  MaxFaults = 0
  Copies = 1
  Announce = {TRUE}
  Outcomes = {"complete"}
INVARIANT WaitAll
INVARIANT ActiveIsDispatched
CHECK_DEADLOCK FALSE
