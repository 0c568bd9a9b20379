CONSTANTS
  Handlers = {h1, h2}
  ErasureIds = {e1, e2}
  Matches = {m1}
  Applications <- MCApplications
  FirstScores = {50}
  Assessments <- MCAssessments
  Deltas <- MCDeltas
  ReportedHolds = {{}, {"ACTIVE_LOAN"}}
  EndDates = {0, 1}
  Retention = 1
  LastDate = 2
  MaxCalls = 3
  MaxRestarts = 1
  None = None
SPECIFICATION DeskSpec
SYMMETRY MCSymmetry
CHECK_DEADLOCK FALSE
INVARIANTS
  DeskTypeOK
  ScheduleMeetsRelease
  ErasureIsRecorded
  RiskIsExplained
  DispositionIsTraceable
