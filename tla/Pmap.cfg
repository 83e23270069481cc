SPECIFICATION Spec
CONSTANTS
  e1 = e1
  e2 = e2
  d1 = d1
  d2 = d2
  t1 = t1
  p1 = p1
  p2 = p2
  p3 = p3
  p4 = p4
  p5 = p5
  p6 = p6
  Env = {e1, e2}
  Page = {p1, p2, p3, p4, p5, p6}
  Dir = {d1, d2}
  Tab = {t1}
  NASID = 2
  NULL = NULL
  UVPT = UVPT
SYMMETRY Pages
INVARIANTS
  RefCountExact
  FreeNotUsed
  TablesPrivate
  TlbCoherent
  UvptFresh
CHECK_DEADLOCK FALSE
