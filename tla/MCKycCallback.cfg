CONSTANTS
  Requests = {r1}
  Handlers = {h1}
  Sessions = {s1, s2}
  Verdicts = {"completed", "failed"}
  RequestedTiers = {"MINIMUM", "EDD"}
  InitialDocuments <- MCLacksAadhaar
  UploadedTypes = {"AADHAAR", "PAN"}
  EventIds = {TRUE}
  MaxRestarts = 0
  None = None
SPECIFICATION Spec
INVARIANTS
  CallbackResumesWorkflow
