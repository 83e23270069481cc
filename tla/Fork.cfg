SPECIFICATION Spec
CONSTANTS
  root = root
  child = child
  third = third
  Env = {root, child, third}
  Root = root
  VaSeq <- MCVaSeq
  Stack = "stack"
  Lib = {"lib"}
  Frame = {1, 2, 3, 4, 5, 6, 7, 8}
  Value = {0, 1}
  Zero = 0
  MaxForks = 2
  NULL = NULL
INVARIANTS
  HandlerReady
  CowFrozen
PROPERTIES
  Isolated
CHECK_DEADLOCK FALSE
SYMMETRY MCSymmetry
