SPECIFICATION Spec
CONSTANTS
  Agents = {a1}
  Turns = {t1, t2, t3}
  Interrupts = {i1, i2}
  write = write
  Tools = {write}
  Plans <- UngatedPlans
  Modes = {"off"}
  Llm = FALSE
  Delay = TRUE
  HistoryMax = 2
  Unlucky = {}
  Nobody = Nobody
SYMMETRY Symmetry
INVARIANTS
  TurnsExclude
  TurnsAreRecorded
  ContextIsRecent
CHECK_DEADLOCK FALSE
