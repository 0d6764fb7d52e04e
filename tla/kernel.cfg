SPECIFICATION FairSpec
CONSTANTS
  c1 = c1
  c2 = c2
  c3 = c3
  e1 = e1
  e2 = e2
  Calls = {c1, c2, c3}
  Executors = {e1, e2}
  Mixes <- MixedCalls
  Dirs = {"home", "w1", "w2", "w3"}
  Home = "home"
  Root <- Roots
  NewRoot = "w3"
  Lost = {c3}
  NoCall = NoCall
INVARIANTS TypeOK LineageComplete InWorkspaceUntilLeft
PROPERTY EveryCallEnds
CHECK_DEADLOCK FALSE
