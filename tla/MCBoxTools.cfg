SPECIFICATION FairSpec
CONSTANTS
  Agents = {a1}
  Turns = {t1, t2}
  Interrupts = {i1}
  write = write
  Tools = {write}
  Plans <- GatedPlans
  Modes = {"gate", "auto_deny", "off"}
  Llm = TRUE
  Delay = TRUE
  HistoryMax = 1
  Unlucky = {t1}
  Nobody = Nobody
INVARIANTS
  NothingOutlivesTurn
  NoEffectWithoutAllow
PROPERTIES
  PromptReturns
  IdleAgain
CHECK_DEADLOCK FALSE
