SPECIFICATION FairSpec
CONSTANTS
  c1 = c1
  c2 = c2
  c3 = c3
  Calls = {c1, c2, c3}
  Mixes <- MixedOps
  Snippets = 1
  MaxBoots = 4
  NoCall = NoCall
INVARIANTS TypeOK OutcomeTellsWhatRan
PROPERTIES AnswersStand EveryCallEnds
CHECK_DEADLOCK FALSE
