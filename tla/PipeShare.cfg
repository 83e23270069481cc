SPECIFICATION Spec
CONSTANTS
  parent = parent
  child = child
  other = other
  Proc = {parent, child}
  Creator = parent
  Reader = child
  Writer = parent
  MAXFD = 3
  BY2PIPE = 1
  Orders = {"byte_first"}
  MaxRequest = 1
  MaxBytes = 1
INVARIANTS
  ClosedIsSeen
CHECK_DEADLOCK FALSE
