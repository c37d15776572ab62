SPECIFICATION FairSpec
CONSTANTS
  a1 = a1
  c1 = c1
  k1 = k1
  k2 = k2
  x = x
  blank = blank
  Blank = blank
  Conns = {c1}
  Agents = {a1}
  Cmds = {k1}
  Texts = {x}
  BusCap = 2
  Bridges = {TRUE}
  Lapses = {TRUE}
  MaxEpoch = 1
  Nothing = Nothing
PROPERTIES
  MidTurnIsMidTurn
CHECK_DEADLOCK FALSE
