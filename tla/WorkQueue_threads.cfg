SPECIFICATION FairSpec
CONSTANTS
  i1 = i1
  i2 = i2
  t1 = t1
  Node = {i1, i2}
  NULL = NULL
  Caller = {t1}
  Worker = Worker
  Leaving = {{}, {i1, i2}}
INVARIANTS NoLostWakeup AttachedKeepsRunning DetachBeforeDestroy
PROPERTIES  StopsWhenEmpty
