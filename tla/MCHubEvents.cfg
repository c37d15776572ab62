SPECIFICATION RaceSpec
CONSTANTS
  a1 = a1
  c1 = c1
  c2 = c2
  k1 = k1
  k2 = k2
  x = x
  blank = blank
  y = y
  Blank = blank
  Conns = {c1, c2}
  Agents = {a1}
  Cmds = {k1, k2}
  Texts = {x, y, blank}
  BusCap = 2
  Bridges = {TRUE, FALSE}
  Lapses = {TRUE, FALSE}
  MaxEpoch = 2
  Nothing = Nothing
INVARIANTS
  ClosedIsUnsubscribed
  AnsweredIsAnnounced
  RepeatsHaveCause
PROPERTIES
  GapMeansLag
  FramesAreTaken
CHECK_DEADLOCK FALSE
