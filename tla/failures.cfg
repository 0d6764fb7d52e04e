SPECIFICATION Spec
CONSTANTS
  LessonsCap = 5
  MaxIterations = 3
  TimeLimit = 1
  Grace = 0
  StallThreshold = 1
  LoopHardThreshold = 3
  MaxBatch = 2
  WorkCalls = {"fetch"}
  OneOffCalls = {"once"}
  Batches <- FailureBatches
  HookRegistered = FALSE
  MaxResumes = 1
  ToolFailures <- ManyFailures
INVARIANTS TypeOK RecoveriesWithinBudget LessonsMatchAttempts RepeatsNearThreshold
CHECK_DEADLOCK FALSE
