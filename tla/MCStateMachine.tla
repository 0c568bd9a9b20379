---------------------------- MODULE MCStateMachine ----------------------------
(***************************************************************************)
(* Instance of VerificationStateMachine: machines are constructed with the *)
(* statuses that the use cases construct them with.                        *)
(***************************************************************************)
EXTENDS VerificationStateMachine

\* InitiateKycUseCase starts at NOT_STARTED; the upload and webhook use cases
\* start from a stored request, whose status is one that a use case saved.
MCInitialStatuses ==
  {"NOT_STARTED", "DOCUMENTS_PENDING", "DOCUMENTS_RECEIVED",
   "VENDOR_CALLBACK_AWAITED", "ESCALATED_TO_MANUAL", "VERIFIED", "REJECTED"}

=============================================================================
