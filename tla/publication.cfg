SPECIFICATION Spec
CONSTANTS
  Notebooks = {n1, n2}
  Parts = {"head", "body"}
  Texts = {"old", "new"}
  Drafts <- MCDrafts
  LiveNames = {l1}
  Titles = {t1}
  Hosted = TRUE
  MaxBatches = 3
  MaxCalls = 2
  MaxScripts = 3
  MaxOthers = 1
  None = None
INVARIANTS TypeOK WrittenAsRun CitesItsCode EmbedsResolve
CHECK_DEADLOCK FALSE
SYMMETRY Symmetry
