--------------------------- MODULE TransitionTable ---------------------------
(***************************************************************************)
(* The 18-row transition table of the verification state machine, as a set *)
(* of records, with the look-ups that every user of the table performs.    *)
(* A guard is named after the field of the guard context it reads; a guard *)
(* context is represented by the set of the guards it satisfies.           *)
(***************************************************************************)

\* The members of the VerificationStatus enumeration.
Statuses ==
  {"NOT_STARTED", "INITIATED", "DOCUMENTS_PENDING", "DOCUMENTS_RECEIVED",
   "VERIFICATION_IN_PROGRESS", "VENDOR_CALLBACK_AWAITED", "VERIFIED",
   "REJECTED", "ESCALATED_TO_MANUAL", "EXPIRED", "RE_VERIFICATION_REQUIRED",
   "SUSPENDED"}

\* The members of the VerificationEvent enumeration.
Events ==
  {"kyc.initiated", "docs.requested", "doc.uploaded", "timer.48h",
   "verify.start", "vendor.async", "callback.rcvd", "timer.72h",
   "step.passed", "all.passed", "step.failed", "step.retry",
   "risk.elevated", "risk.changed", "reg.update", "reverify.init",
   "compliance.freeze", "compliance.lift"}

\* What a guard context can tell: the two hour counters are represented by
\* whether they have reached the 48 and 72 hours that the guards compare with.
GuardNames ==
  {"validCustomerAndTierAssigned", "workflowHasDocumentSteps",
   "documentValidNotExpired", "documentsRequested48hAgo",
   "allRequiredDocumentsPresent", "isAsyncVendorStep",
   "webhookSignatureValid", "vendorCalled72hAgo", "moreStepsRemain",
   "allStepsPassed", "stepFailureNonRecoverable", "retriesRemaining",
   "riskScoreExceedsEddThreshold", "reVerificationTriggered",
   "newRegulatoryRequirement", "withinGracePeriod",
   "hasLegalOrRegulatoryOrder", "freezeOrderLifted"}

\* A row may start from any status, and one row ends in a sentinel that is
\* replaced, when the event is applied, by the status before the suspension.
ANY == "ANY"
PREVIOUS_STATE == "PREVIOUS_STATE"

Row(event, from, to, guard) ==
  [event |-> event, from |-> from, to |-> to, guard |-> guard]

TRANSITIONS ==
  { Row("kyc.initiated", "NOT_STARTED", "INITIATED", "validCustomerAndTierAssigned"),
    Row("docs.requested", "INITIATED", "DOCUMENTS_PENDING", "workflowHasDocumentSteps"),
    Row("doc.uploaded", "DOCUMENTS_PENDING", "DOCUMENTS_RECEIVED", "documentValidNotExpired"),
    Row("timer.48h", "DOCUMENTS_PENDING", "EXPIRED", "documentsRequested48hAgo"),
    Row("verify.start", "DOCUMENTS_RECEIVED", "VERIFICATION_IN_PROGRESS",
        "allRequiredDocumentsPresent"),
    Row("vendor.async", "VERIFICATION_IN_PROGRESS", "VENDOR_CALLBACK_AWAITED",
        "isAsyncVendorStep"),
    Row("callback.rcvd", "VENDOR_CALLBACK_AWAITED", "VERIFICATION_IN_PROGRESS",
        "webhookSignatureValid"),
    Row("timer.72h", "VENDOR_CALLBACK_AWAITED", "ESCALATED_TO_MANUAL", "vendorCalled72hAgo"),
    Row("step.passed", "VERIFICATION_IN_PROGRESS", "VERIFICATION_IN_PROGRESS", "moreStepsRemain"),
    Row("all.passed", "VERIFICATION_IN_PROGRESS", "VERIFIED", "allStepsPassed"),
    Row("step.failed", "VERIFICATION_IN_PROGRESS", "REJECTED", "stepFailureNonRecoverable"),
    Row("step.retry", "VERIFICATION_IN_PROGRESS", "VERIFICATION_IN_PROGRESS", "retriesRemaining"),
    Row("risk.elevated", "VERIFICATION_IN_PROGRESS", "ESCALATED_TO_MANUAL",
        "riskScoreExceedsEddThreshold"),
    Row("risk.changed", "VERIFIED", "RE_VERIFICATION_REQUIRED", "reVerificationTriggered"),
    Row("reg.update", "VERIFIED", "RE_VERIFICATION_REQUIRED", "newRegulatoryRequirement"),
    Row("reverify.init", "RE_VERIFICATION_REQUIRED", "INITIATED", "withinGracePeriod"),
    Row("compliance.freeze", ANY, "SUSPENDED", "hasLegalOrRegulatoryOrder"),
    Row("compliance.lift", "SUSPENDED", PREVIOUS_STATE, "freezeOrderLifted") }

\* Variant, used only to show what a property detects: the look-up forgets to
\* compare the row's starting status.
CandidatesFromAnywhere(event, status) ==
  {t \in TRANSITIONS : t.event = event}

\* The rows that apply() finds for an event in a status.
Candidates(event, status) ==
  {t \in TRANSITIONS : t.event = event /\ t.from \in {ANY, status}}

\* getAllowedEvents(): what an InvalidTransitionError reports.
AllowedEvents(status) ==
  {t.event : t \in {r \in TRANSITIONS : r.from \in {ANY, status}}}

=============================================================================
