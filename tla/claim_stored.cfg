SPECIFICATION Spec
CONSTANTS
  LessonsCap = 2
  Names = {"a", "b"}
  Kinds = {"tool_error"}
  Hosted = TRUE
  Batches <- SomeBatches
  MaxIterations = 2
  MaxAnswers = 2
  MaxTurns = 2
INVARIANT StoredRecordResumes
CHECK_DEADLOCK FALSE
