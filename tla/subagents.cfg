CONSTANTS
  Id = {i1, i2}
  Child = {c1, c2, c3}
  Caller = {p1, p2}
  Depth = 0
  MaxDepth = 3
  MaxWaits = 1
  MayClose = TRUE
  Nil = Nil
SPECIFICATION FairManagerSpec
CHECK_DEADLOCK FALSE
INVARIANTS NoOrphans ResultOnce
PROPERTIES ChildrenEnd WaitReturns
