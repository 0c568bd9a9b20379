CONSTANTS
  InitialStatuses <- MCInitialStatuses
  None = None
SPECIFICATION Spec
INVARIANTS
  TypeOK
  SuspensionMemory
  AuditAtMostOneAhead
PROPERTIES
  ChangesAreAudited
  KeepsLifecycle
