SPECIFICATION FairSpec
CONSTANTS
  Gates = {g1, g2}
  Calls = {c1, c2}
  Modes = {"gate", "auto_deny", "off"}
  MaxInject = 1
  NoGate = NoGate
INVARIANTS
  TypeOK
  SingleAcceptance
  SlotsMatchGates
PROPERTIES
  GateReturns
  ImplementsContract
CHECK_DEADLOCK FALSE
