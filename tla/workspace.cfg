SPECIFICATION FairSpec
CONSTANTS
  LessonsCap = 5
  MaxIterations = 3
  TimeLimit = 1
  Grace = 0
  StallThreshold = 0
  LoopHardThreshold = 9
  MaxBatch = 2
  WorkCalls = {}
  OneOffCalls = {"read", "publish", "notebook", "pathless"}
  ReadOnlyCalls = {"read"}
  Deliverables = {"publish", "notebook"}
  NotebookCalls = {"notebook"}
  PathlessCalls = {"pathless"}
  Batches <- MixedBatches
  HookRegistered = TRUE
  MaxResumes = 1
INVARIANTS BatchTypeOK EachCallAnsweredOnce DeliverablesAreReusable
PROPERTY KeepsPromise
CHECK_DEADLOCK FALSE
