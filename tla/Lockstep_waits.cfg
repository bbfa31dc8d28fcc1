SPECIFICATION FairSpec
CONSTANTS
  t1 = t1
  t2 = t2
  Thread = {t1, t2}
  Setter = Setter
  NULL = NULL
  MaxTime = 2
INVARIANTS NoUseAfterReturn NoLockCycle
PROPERTY SleepersWake
