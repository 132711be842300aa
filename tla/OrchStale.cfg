SPECIFICATION Spec
CONSTANTS
  NoTask = NoTask
  Brief = {1}
  Id <- LineIds
  Plan <- LinePlan
  Uuid <- OneUuid
  Thread <- ServerThread
  Serves <- ServerThreads
  ExtraBlockers <- NoExtra
  MaxSplit = 1
  MaxCalls = 0
  MaxFaults = 0
  Copies = 1
  Announce = {TRUE}
  Outcomes = {"complete"}
PROPERTY TerminalIsFinal
CHECK_DEADLOCK FALSE
