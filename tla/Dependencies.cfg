SPECIFICATION DependenciesSpec
CONSTANTS
  t1 = t1
  t2 = t2
  t3 = t3
  Task = {t1, t2, t3}
  Dependencies <- MCDependsOn
  a1 = a1
  a2 = a2
  Agent = {a1, a2}
  Caller = {c1, c2}
  c1 = c1
  c2 = c2
  NoAgent = NoAgent
  Idle = Idle
  MaxFaults = 1
  Node = {t1, t2, t3}
  Ghost = Ghost
  None = None
  MaxDependencies = 2
  Briefs <- SmallBriefs
INVARIANT NoDoubleAssignment
INVARIANT DependenciesFirst
PROPERTY Verdict
 
PROPERTY ScanFinishes
PROPERTY RunsToEnd
