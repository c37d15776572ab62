SPECIFICATION Spec
CONSTANTS
  t1 = t1
  t2 = t2
  Turns = {t1, t2}
  Interrupts = {}
  Nobody = Nobody
INVARIANTS
  AcceptedIsEchoed
CHECK_DEADLOCK FALSE
