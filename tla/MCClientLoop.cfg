SPECIFICATION OrderedSpec
CONSTANTS
  q1 = q1
  q2 = q2
  q3 = q3
  f1 = f1
  Requests = {q1, q2, q3}
  Kinds = {"initialize", "prompt", "cancel", "tail"}
  Foreign = {f1}
  Backends = {"sync", "async"}
  Lossy = TRUE
  Silent = Silent
INVARIANTS
  AnswerIsOwnTurn
  CancelComesLate
PROPERTIES
  RequestIsAnswered
CHECK_DEADLOCK FALSE
