SPECIFICATION FairLibSpec
CONSTANTS
  e1 = e1
  e2 = e2
  e3 = e3
  Env = {e1, e2, e3}
  envs <- MCEnvs
  NULL = NULL
  HEAD = HEAD
  NASID = 3
  GenMod = 8
  MaxAlloc = 4
  Pri = {2}
  Value = {0}
INVARIANTS
  SchedListExact
  StopsOnlyWhenAllBlocked
PROPERTIES
  YieldGivesWay
  MessageStable
  RunnableRuns
CHECK_DEADLOCK FALSE
