SPECIFICATION Spec
CONSTANTS
  e1 = e1
  e2 = e2
  e3 = e3
  Env = {e1, e2, e3}
  envs <- MCEnvs
  NULL = NULL
  HEAD = HEAD
  NASID = 2
  GenMod = 8
  MaxAlloc = 4
  Pri = {1, 2}
  Value = {0, 1}
INVARIANTS
  TypeOK
  AsidsExclusive
  FreeListExact
  SliceWithinPriority
PROPERTIES
  StatusConfined
  BornChildless
CHECK_DEADLOCK FALSE
