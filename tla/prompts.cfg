SPECIFICATION Spec
CONSTANTS
  Names = {"a", "b"}
  Kinds = {"transient_provider", "tool_error", "no_progress"}
  LessonsCap = 2
  Hosted = TRUE
  Batches <- SomeBatches
  MaxIterations = 6
  MaxAnswers = 3
  MaxTurns = 2
INVARIANTS TypeOK ResultsAreRead TurnArtifactsAreMine LessonsAreTheLatest
CHECK_DEADLOCK FALSE
