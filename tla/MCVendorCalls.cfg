CONSTANTS
  Calls = {c1, c2}
  FailureThresholdPercent = 50
  RollingWindow = 1
  MinimumRequestsInWindow = 2
  OpenStateTimeout = 1
  MaxTime = 2
  MaxExecutions = 4
  Never = Never
  RetryLimit = 2
  CertificateExpiry = 2
SPECIFICATION FairVendorSpec
INVARIANTS
  VendorTypeOK
  NeverStuck
  ClosedIsBelowThreshold
  OneRecordPerCall
  OpenCircuitDrains
PROPERTIES
  CallsEnd
