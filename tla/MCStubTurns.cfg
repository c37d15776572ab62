SPECIFICATION FairSpec
CONSTANTS
  t1 = t1
  t2 = t2
  t3 = t3
  i1 = i1
  i2 = i2
  Turns = {t1, t2}
  Interrupts = {i1, i2}
  Nobody = Nobody
INVARIANTS
  TurnsAreRecorded
  FlagIsExact
PROPERTIES
  TaskEnds
CHECK_DEADLOCK FALSE
