SPECIFICATION Spec
CONSTANTS
  NoTask = NoTask
  Brief = {1}
  Id <- LineIds
  Plan <- LinePlan
  Uuid <- OneUuid
  Thread <- SerialThread
  Serves <- SerialThreads
  ExtraBlockers <- NoExtra
  MaxSplit = 1
  MaxCalls = 1
  MaxFaults = 1
  Copies = 1
  Announce = {TRUE}
  Outcomes = {"complete", "fail"}
PROPERTY TerminalIsFinal
 
CHECK_DEADLOCK FALSE
