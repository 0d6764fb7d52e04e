SPECIFICATION Spec
CONSTANTS
  c1 = c1
  c2 = c2
  c3 = c3
  Calls = {c1, c2, c3}
  Mixes <- CellsOnly
  Snippets = 1
  MaxBoots = 4
  NoCall = NoCall
PROPERTY RestoredBeforeUse
CHECK_DEADLOCK FALSE
