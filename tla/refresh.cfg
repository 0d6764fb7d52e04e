SPECIFICATION Spec
CONSTANTS
  Datasets = {"dataset"}
  Charts = {"chart"}
  Reports = {"report"}
  Uses <- MCUses
  Notebook <- MCNotebook
  Variable <- MCVariable
  Initially <- Loading
  Source = "source"
  Data = {1, 2}
  First = 1
  MaxWalks = 2
  MaxEvents = 2
  None = None
  Refused = Refused
INVARIANT TypeOK
PROPERTIES LineageTellsTheValue EndsCoherent Idempotent DiffExplains RefreshEnds
CHECK_DEADLOCK FALSE
