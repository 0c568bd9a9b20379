CONSTANTS
  Requests = {r1}
  Handlers = {h1, h2}
  Sessions = {s1}
  Verdicts = {"completed", "failed"}
  RequestedTiers = {"MINIMUM", "EDD"}
  InitialDocuments <- MCLacksAadhaar
  UploadedTypes = {"AADHAAR"}
  EventIds = {TRUE}
  MaxRestarts = 1
  None = None
SPECIFICATION Spec
SYMMETRY MCSymmetry
INVARIANTS
  TypeOK
  StatusMirrored
PROPERTIES
  TierFallsOnlyToWhatWasRead
  RequestsKeepLifecycle
