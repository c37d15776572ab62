SPECIFICATION FairSpec
CONSTANTS
  t1 = t1
  t2 = t2
  Turns = {t1, t2}
  Interrupts = {}
  Streams = {TRUE}
  Modes = {"gate"}
  Timed = TRUE
  Drops = FALSE
  Nobody = Nobody
PROPERTIES
  TimeoutBoundsTurn
CHECK_DEADLOCK FALSE
