CONSTANTS
  Requests = {r1}
  Handlers = {h1, h2}
  Sessions = {s1, s2}
  Verdicts = {"completed"}
  RequestedTiers = {"FULL", "EDD"}
  InitialDocuments <- MCLacksOneOrTwo
  UploadedTypes = {"AADHAAR"}
  EventIds = {FALSE}
  MaxRestarts = 0
  None = None
SPECIFICATION Spec
SYMMETRY MCSymmetry
INVARIANTS
  HighRiskIsEdd
  VerifiedHasDocuments
  EddNeedsReview
