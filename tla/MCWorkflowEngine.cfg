CONSTANTS
  Workflows <- MCWorkflows
  InitialFlags <- MCInitialFlags
SPECIFICATION EngineSpec
INVARIANTS
  EngineTypeOK
  RunsInOrder
  RecordDecidesFetching
  ShippedNeverThrows
  OutcomeContract
