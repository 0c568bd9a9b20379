--------------------------- MODULE MCWorkflowEngine ---------------------------
(***************************************************************************)
(* Instance of WorkflowEngine: the shipped workflows and the shapes that   *)
(* its unit tests add to them, called before and after a compliance        *)
(* officer's approval.                                                     *)
(***************************************************************************)
EXTENDS WorkflowEngine

\* Two steps of one group.
Parallel ==
  { InGroup("grp", Step(1, "ckyc-search", "CKYC", NoGuard)),
    InGroup("grp", Step(2, "b", "DIGILOCKER", Unless("ckycRecordFound"))) }

\* An asynchronous step in a group with a synchronous one, then a review.
ParallelAsync ==
  { InGroup("grp", AsyncStep(1, "a", "VIDEO_KYC")),
    InGroup("grp", Step(2, "b", "AML_SCREENING", NoGuard)),
    ManualStep(3, "review") }

\* The same group name on both sides of an ungrouped step.
Interrupted ==
  { InGroup("grp", Step(1, "a", "DIGILOCKER", NoGuard)),
    Step(2, "b", "DIGILOCKER", NoGuard),
    InGroup("grp", Step(3, "c", "DIGILOCKER", NoGuard)) }

\* An EDD-like workflow whose video step is called like any other.
EddShaped ==
  { Step(1, "video-kyc-session", "VIDEO_KYC", NoGuard),
    Step(2, "full-aml-screen-adverse-media", "AML_SCREENING", NoGuard),
    ManualStep(3, "compliance-officer-review"),
    Step(4, "ckyc-upload", "CKYC", If("complianceApproved")) }

MCWorkflows ==
  {MinimumKyc, FullKyc, Edd, Parallel, ParallelAsync, Interrupted, EddShaped}

MCInitialFlags ==
  {[f \in {} |-> FALSE], [f \in {"complianceApproved"} |-> TRUE]}

=============================================================================
