SPECIFICATION FairSpec
CONSTANTS
  c1 = c1
  c2 = c2
  Client = {c1, c2}
  Sector = {0, 1}
  Value = {0, 1, 2}
  Src <- MCSrc
  SECT2BLK = 2
  MaxCalls <- MCCalls
  Served = {7}
  QN = 8
  IdxMod = 8
  NULL = NULL
INVARIANTS
  DescConserved
  PageInUse
PROPERTIES
  Linearizable
  CallReturns
CHECK_DEADLOCK FALSE
