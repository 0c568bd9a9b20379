---------------------------- MODULE WorkflowConfig ----------------------------
(***************************************************************************)
(* The three shipped workflow files, and what running a workflow can come  *)
(* to as far as the use cases can tell. A workflow is a set of steps whose *)
(* `order' values are distinct (the loader insists), so that sorting it is *)
(* reading it in that order.                                               *)
(***************************************************************************)
EXTENDS Integers

NoGroup == "NoGroup"
NoVendor == "NoVendor"

\* The guard expressions: none, a flag, or a flag preceded by "!".
NoGuard == [flag |-> "none", negated |-> FALSE]
If(f) == [flag |-> f, negated |-> FALSE]
Unless(f) == [flag |-> f, negated |-> TRUE]

Step(n, name, vendor, guard) ==
  [order |-> n, name |-> name, vendor |-> vendor, group |-> NoGroup,
   guard |-> guard, isAsync |-> FALSE, isManual |-> FALSE]
ManualStep(n, name) == [Step(n, name, NoVendor, NoGuard) EXCEPT !.isManual = TRUE]
AsyncStep(n, name, vendor) == [Step(n, name, vendor, NoGuard) EXCEPT !.isAsync = TRUE]
InGroup(group, step) == [step EXCEPT !.group = group]

\* What loadWorkflowConfig() insists on: steps, each with a numeric order of its
\* own, and a vendor for every step that is not a manual one.
Loaded(steps) ==
  /\ steps # {}
  /\ \A s, t \in steps : s.order = t.order => s = t
  /\ \A s \in steps : s.order \in Int /\ (s.isManual \/ s.vendor # NoVendor)

MinimumKyc ==
  { Step(1, "aadhaar-otp-fetch", "DIGILOCKER", NoGuard),
    Step(2, "basic-name-screen", "AML_SCREENING", NoGuard) }

FullKyc ==
  { Step(1, "ckyc-search", "CKYC", NoGuard),
    InGroup("docs", Step(2, "digilocker-fetch", "DIGILOCKER", Unless("ckycRecordFound"))),
    Step(3, "full-aml-screen", "AML_SCREENING", NoGuard),
    Step(4, "ckyc-upload", "CKYC", Unless("ckycRecordFound")) }

Edd ==
  { Step(1, "ckyc-search", "CKYC", NoGuard),
    InGroup("docs", Step(2, "digilocker-fetch", "DIGILOCKER", Unless("ckycRecordFound"))),
    AsyncStep(3, "video-kyc-session", "VIDEO_KYC"),
    Step(4, "full-aml-screen-adverse-media", "AML_SCREENING", NoGuard),
    Step(5, "ongoing-monitoring-register", "AML_SCREENING", NoGuard),
    ManualStep(6, "compliance-officer-review"),
    Step(7, "ckyc-upload", "CKYC", If("complianceApproved")) }

Tiers == {"MINIMUM", "FULL", "EDD"}

Shipped == [tier \in Tiers |->
  CASE tier = "MINIMUM" -> MinimumKyc
    [] tier = "FULL"    -> FullKyc
    [] tier = "EDD"     -> Edd]

\* requiredDocuments, every one of them mandatory.
MandatoryDocuments == [tier \in Tiers |->
  CASE tier = "MINIMUM" -> {"AADHAAR"}
    [] tier = "FULL"    -> {"PAN", "AADHAAR", "ADDRESS_PROOF"}
    [] tier = "EDD"     -> {"PAN", "AADHAAR", "ADDRESS_PROOF", "INCOME_PROOF"}]

DocumentTypes == UNION {MandatoryDocuments[tier] : tier \in Tiers}

\* TIER_RANK: the order in which the domain compares tiers.
TierRank == [tier \in Tiers |->
  CASE tier = "MINIMUM" -> 1 [] tier = "FULL" -> 2 [] tier = "EDD" -> 3]

\* The vendors whose adapter answers initiateVerification() with isAsync.
AsyncVendors == {"VIDEO_KYC"}

WaitsForVendor(step) == step.isAsync /\ step.vendor \in AsyncVendors

\* The steps at which the engine stops before the workflow's end, other than
\* because of a failure, and the first of them.
HaltingSteps(steps, approved) ==
  {s \in steps : WaitsForVendor(s) \/ (s.isManual /\ ~approved)}

FirstHalt(steps, approved) ==
  {s \in HaltingSteps(steps, approved) :
     \A t \in HaltingSteps(steps, approved) : s.order <= t.order}

\* What the use cases can see of a run: it failed at some step, or it got as
\* far as the first step that waits for somebody, or to the end.
EngineResults(steps, approved) ==
  {"failed"} \cup
  IF FirstHalt(steps, approved) = {}
  THEN {"allSucceeded"}
  ELSE {IF s.isManual THEN "awaitingManual" ELSE "awaitingCallback" :
          s \in FirstHalt(steps, approved)}

=============================================================================
