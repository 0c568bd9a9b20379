---------------------------- MODULE WorkflowEngine ----------------------------
(***************************************************************************)
(* One call of WorkflowEngine.executeWorkflow(), with the vendor calls of  *)
(* VendorStepExecutor. Groups of steps run one after the other, the steps  *)
(* of a group concurrently; a step is an asynchronous function with two    *)
(* awaits, the vendor's initiateVerification() and its fetchResult().      *)
(***************************************************************************)
EXTENDS WorkflowConfig, FiniteSets

CONSTANTS
  Workflows,     \* the step sets that executeWorkflow() is called with
  InitialFlags   \* the flag contexts that it is called with

FlagNames == {"ckycRecordFound", "complianceApproved"}

\* A context holds some of the flags: reading another one is an error.
FlagContexts == UNION {[fs -> BOOLEAN] : fs \in SUBSET FlagNames}

ASSUME FlagsAssumption == InitialFlags \subseteq FlagContexts
ASSUME WorkflowsAssumption == \A w \in Workflows : Loaded(w)

VARIABLES
  steps,     \* the workflow being executed
  given,     \* the flags it was called with
  flags,     \* context.flags
  status,    \* how far each step is
  group,     \* the steps that the loop is waiting for
  phase,     \* "running", "returned" or "threw"
  registry   \* history: what the last successful ckyc-search answered

engineVars == <<steps, given, flags, status, group, phase, registry>>

\* Variant: a step counts as done once its vendor call is started.
SettledOnceInitiated ==
  {"succeeded", "failed", "guardedOff", "approved", "halted", "awaitingCallback", "fetching"}

\* How a step's promise can have been settled when Promise.all() resumes.
Settled == {"succeeded", "failed", "guardedOff", "approved", "halted", "awaitingCallback"}

Started == Settled \cup {"initiating", "fetching"}

EngineInit ==
  /\ steps \in Workflows
  /\ given \in InitialFlags
  /\ flags = given
  /\ status = [s \in steps |-> "pending"]
  /\ group = {}
  /\ phase = "running"
  /\ registry = "none"

-----------------------------------------------------------------------------
\* groupSteps(): neighbours with the same group name run together.
SameGroup(s, t) ==
  \/ s = t
  \/ /\ s.group # NoGroup
     /\ \A u \in steps :
          \/ u.order < s.order /\ u.order < t.order
          \/ u.order > s.order /\ u.order > t.order
          \/ u.group = s.group

Pending == {s \in steps : status[s] = "pending"}

NextGroup ==
  {s \in Pending : \A t \in Pending : t.order < s.order => SameGroup(s, t)}

\* evaluateGuardExpression()'s three ends.
GuardUnknown(s) == s.guard # NoGuard /\ s.guard.flag \notin DOMAIN flags
\* Variant: the negation is not looked at.
GuardHoldsIgnoringNegation(s) == s.guard = NoGuard \/ flags[s.guard.flag]
GuardHolds(s) == s.guard = NoGuard \/ flags[s.guard.flag] # s.guard.negated

Approved == "complianceApproved" \in DOMAIN flags /\ flags["complianceApproved"]

\* executeStep() up to its first await. An unknown flag rejects the step's
\* promise, and with it the whole group's.
BeginStep(s) ==
  CASE GuardUnknown(s)                -> "rejected"
    [] ~GuardUnknown(s) /\ ~GuardHolds(s) -> "guardedOff"
    [] ~GuardUnknown(s) /\ GuardHolds(s) /\ s.isManual ->
         IF Approved THEN "approved" ELSE "halted"
    [] OTHER                          -> "initiating"

Halted == {s \in steps : status[s] \in {"halted", "awaitingCallback"}}
Failed == {s \in steps : status[s] = "failed"}

\* Variant: the loop goes on with the next group whatever a step waits for.
ContinueAfterGroupIgnoringHalts ==
  /\ phase = "running"
  /\ \A s \in group : status[s] \in Settled
  /\ LET begin == [s \in NextGroup |-> BeginStep(s)]
     IN /\ IF Failed = {} /\ NextGroup # {}
           THEN /\ status' = [s \in steps |-> IF s \in NextGroup THEN begin[s] ELSE status[s]]
                /\ group' = NextGroup
                /\ phase' = IF \E s \in NextGroup : begin[s] = "rejected"
                            THEN "threw" ELSE "running"
           ELSE phase' = "returned" /\ UNCHANGED <<status, group>>
        /\ UNCHANGED <<steps, given, flags, registry>>

\* The loop resumes once the group's Promise.all has: it stops at a failure,
\* marks the rest as not reached when a step waits for somebody, and otherwise
\* begins every step of the next group before any of them reaches an await.
ContinueAfterGroup ==
  /\ phase = "running"
  /\ \A s \in group : status[s] \in Settled
  /\ LET begin == [s \in NextGroup |-> BeginStep(s)]
     IN \/ /\ Failed # {}
           /\ phase' = "returned"
           /\ UNCHANGED <<status, group>>
        \/ /\ Failed = {}
           /\ Halted # {} \/ NextGroup = {}
           /\ phase' = "returned"
           /\ status' = [s \in steps |-> IF s \in Pending THEN "notReached" ELSE status[s]]
           /\ UNCHANGED group
        \/ /\ Failed = {} /\ Halted = {} /\ NextGroup # {}
           /\ status' = [s \in steps |-> IF s \in NextGroup THEN begin[s] ELSE status[s]]
           /\ group' = NextGroup
           /\ phase' = IF \E s \in NextGroup : begin[s] = "rejected" THEN "threw" ELSE "running"
  /\ UNCHANGED <<steps, given, flags, registry>>

\* Variant: the flag is set when a record is found and otherwise left alone.
ApplyResultToFlagsIfFound(s, source) ==
  IF s.name = "ckyc-search" /\ source = "existing"
  THEN [f \in DOMAIN flags \cup {"ckycRecordFound"} |->
          IF f = "ckycRecordFound" THEN TRUE ELSE flags[f]]
  ELSE flags

\* applyResultToFlags() for a successful result; others leave the flags alone.
ApplyResultToFlags(s, source) ==
  IF s.name = "ckyc-search"
  THEN [f \in DOMAIN flags \cup {"ckycRecordFound"} |->
          IF f = "ckycRecordFound" THEN source = "existing" ELSE flags[f]]
  ELSE flags

\* Variant: the executor asks every vendor for a result at once.
InitiateWithoutWaiting(s) ==
  /\ status[s] = "initiating"
  /\ status' \in {[status EXCEPT ![s] = "failed"], [status EXCEPT ![s] = "fetching"]}
  /\ UNCHANGED <<steps, given, flags, group, phase, registry>>

\* The vendor's initiateVerification() ends. An asynchronous step of a vendor
\* that works asynchronously has then done all it can, without a source; a step
\* whose call throws has failed; the others go on to fetch the result.
Initiate(s) ==
  /\ status[s] = "initiating"
  /\ \/ /\ status' = [status EXCEPT ![s] = "failed"]
        /\ UNCHANGED flags
     \/ /\ WaitsForVendor(s)
        /\ status' = [status EXCEPT ![s] = "awaitingCallback"]
        /\ flags' = ApplyResultToFlags(s, "none")
     \/ /\ ~WaitsForVendor(s)
        /\ status' = [status EXCEPT ![s] = "fetching"]
        /\ UNCHANGED flags
  /\ UNCHANGED <<steps, given, group, phase, registry>>

\* fetchResult() throws, or answers without success.
FetchFails(s) ==
  /\ status[s] = "fetching"
  /\ status' = [status EXCEPT ![s] = "failed"]
  /\ UNCHANGED <<steps, given, flags, group, phase, registry>>

\* fetchResult() answers with success: a search says whether a record existed.
FetchSucceeds(s, source) ==
  /\ status[s] = "fetching"
  /\ (s.name = "ckyc-search") = (source # "none")
  /\ status' = [status EXCEPT ![s] = "succeeded"]
  /\ flags' = ApplyResultToFlags(s, source)
  /\ registry' = IF source = "none" THEN registry ELSE source
  /\ UNCHANGED <<steps, given, group, phase>>

\* The call is over, and so is every step it started.
Finished ==
  /\ phase # "running"
  /\ \A s \in steps : status[s] \notin {"initiating", "fetching"}
  /\ UNCHANGED engineVars

EngineNext ==
  \/ ContinueAfterGroup
  \/ \E s \in steps :
       \/ Initiate(s)
       \/ FetchFails(s)
       \/ \E source \in {"none", "existing", "fresh"} : FetchSucceeds(s, source)
  \/ Finished

EngineSpec == EngineInit /\ [][EngineNext]_engineVars

-----------------------------------------------------------------------------
(***************************************************************************)
(* Properties                                                              *)
(***************************************************************************)

\* Types; and every step whose vendor call is under way is one that the loop is
\* waiting for, unless executeWorkflow() threw meanwhile.
EngineTypeOK ==
  /\ steps \in Workflows /\ given \in InitialFlags
  /\ flags \in FlagContexts
  /\ status \in [steps -> Started \cup {"pending", "rejected", "notReached"}]
  /\ group \subseteq steps
  /\ phase \in {"running", "returned", "threw"}
  /\ registry \in {"none", "existing", "fresh"}
  /\ \A s \in steps : status[s] \in {"initiating", "fetching"} =>
       s \in group /\ phase # "returned"

\* No step is begun, not even its guard looked at, before every step of the
\* earlier groups is done and has neither failed nor left the workflow waiting:
\* a vendor is never called for a verification that failed or is on hold.
RunsInOrder ==
  \A s, t \in steps :
    /\ s.order < t.order
    /\ ~SameGroup(s, t)
    /\ status[t] \notin {"pending", "notReached"}
    => status[s] \in {"succeeded", "guardedOff", "approved"}

\* A step that is only for customers without a registry record is not begun for
\* one with a record, and is never skipped for one without.
RecordDecidesFetching ==
  \A s \in steps : s.guard = Unless("ckycRecordFound") =>
    /\ status[s] \in Started \ {"guardedOff"} => registry = "fresh"
    /\ status[s] = "guardedOff" => registry = "existing"

\* Every flag that a shipped workflow reads has been set by the time it is
\* read, whichever steps were skipped and whether or not compliance approved:
\* executeWorkflow() never throws for a shipped file.
ShippedNeverThrows ==
  phase = "threw" => \A tier \in Tiers : steps # Shipped[tier]

\* What executeWorkflow() returns, read in the order in which the use cases
\* read it.
Outcome ==
  IF Failed # {} THEN "failed"
  ELSE IF \E s \in steps : status[s] = "awaitingCallback" THEN "awaitingCallback"
  ELSE IF \E s \in steps : status[s] = "halted" THEN "awaitingManual"
  ELSE "allSucceeded"

\* A run of a shipped workflow ends in one of the results the use cases are
\* modelled with, and it succeeds only when every step was executed, skipped by
\* its guard or approved beforehand. No run both fails and waits for somebody.
OutcomeContract ==
  (phase = "returned" /\ \E tier \in Tiers : steps = Shipped[tier]) =>
    /\ Outcome \in EngineResults(steps, "complianceApproved" \in DOMAIN given)
    /\ Failed = {} \/ Halted = {}
    /\ Outcome = "allSucceeded" =>
         \A s \in steps : status[s] \in {"succeeded", "guardedOff", "approved"}

=============================================================================
