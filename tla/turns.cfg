SPECIFICATION FairSpec
CONSTANTS
  LessonsCap = 5
  MaxIterations = 3
  TimeLimit = 1
  Grace = 1
  StallThreshold = 1
  LoopHardThreshold = 3
  MaxBatch = 2
  WorkCalls = {"fetch"}
  OneOffCalls = {"once"}
  Batches <- ControlBatches
  HookRegistered = TRUE
  MaxResumes = 1
  ToolFailures <- FewFailures
INVARIANTS LlmCallsWithinBudget NoSilentEnd
PROPERTIES NoLlmCallAfterClosing TurnEnds KeepsPromise
CHECK_DEADLOCK FALSE
