SPECIFICATION Spec
CONSTANTS
  k1 = k1
  k2 = k2
  Prompts = {k1, k2}
  Tails = {r1}
  Interrupts = {i1}
  Pagers = {p1}
  Limits = {2, 20}
  PageSize = 2
  Bridges = {TRUE, FALSE}
SYMMETRY Symmetry
INVARIANTS
  NoEntryTwice
  AnsweredIsCached
  PagesAreExact
CHECK_DEADLOCK FALSE
