SPECIFICATION FairSpec
CONSTANTS
  a = a
  b = b
  t1 = t1
  t2 = t2
  t3 = t3
  Team = {a}
  Task = {t1, t2}
  TeamOf <- MCTeamOf
  Call = {c1, c2, c3}
  c1 = c1
  c2 = c2
  c3 = c3
  NoCall = NoCall
  NoLock = NoLock
  MaxFaults = 0
PROPERTY ReadyIsClaimed
CHECK_DEADLOCK FALSE
