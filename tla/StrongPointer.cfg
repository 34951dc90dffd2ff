CONSTANTS
  Threads = {t1, t2}
  Pointers = {p, q}
  Objects = {a, b}
  Null = Null
  New = New
  MaxOps = 2
SPECIFICATION FairSpec
INVARIANTS
  CountIsReferences
  NoUseAfterFree
PROPERTIES
  Implements
  LastDropDeletes
CHECK_DEADLOCK FALSE
