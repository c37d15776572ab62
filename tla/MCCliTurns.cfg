SPECIFICATION ExitingSpec
CONSTANTS
  t1 = t1
  t2 = t2
  i1 = i1
  Turns = {t1, t2}
  Interrupts = {i1}
  Streams = {TRUE, FALSE}
  Modes = {"off", "gate", "auto_deny"}
  Timed = TRUE
  Drops = TRUE
  Nobody = Nobody
INVARIANTS
  TypeOK
  ChildReaped
  AnswerMatchesTranscript
  InterruptedByInterrupt
  NoPassWithoutAllow
  LeftSlotHasCause
PROPERTIES
  PromptReturns
CHECK_DEADLOCK FALSE
