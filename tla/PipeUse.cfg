SPECIFICATION FairUseSpec
CONSTANTS
  parent = parent
  child = child
  other = other
  Proc = {parent, child}
  Creator = parent
  Reader = child
  Writer = parent
  MAXFD = 2
  BY2PIPE = 2
  Orders = {"byte_first", "pos_first"}
  MaxRequest = 2
  MaxBytes = 5
INVARIANTS
  ClosedIsReal
PROPERTIES
  Fifo
  CloseUnblocks
CHECK_DEADLOCK FALSE
