------------------------- MODULE WorkflowEngineProofs -------------------------
(***************************************************************************)
(* Proofs about WorkflowEngine, for any workflows that the loader accepts  *)
(* and any order of answers and failures. What holds of the shipped files  *)
(* only is proved from a condition on the file that a reader of another    *)
(* one can check.                                                          *)
(***************************************************************************)
EXTENDS WorkflowEngine, WellFoundedInduction, TLAPS

Done == {"succeeded", "guardedOff", "approved"}

\* What the loop relies on besides the types.
FlowInv ==
  /\ EngineTypeOK
  /\ \A s \in steps : status[s] = "rejected" => phase = "threw"
  /\ \A s \in steps : status[s] = "notReached" => phase = "returned"

-----------------------------------------------------------------------------
(***************************************************************************)
(* Flags, groups and the beginning of a step                               *)
(***************************************************************************)

LEMMA FlagContext ==
  ASSUME NEW f
  PROVE  f \in FlagContexts <=> DOMAIN f \subseteq FlagNames /\ f \in [DOMAIN f -> BOOLEAN]
  BY DEF FlagContexts

\* A successful search sets its flag; every other flag stays.
LEMMA FlagsApplied ==
  ASSUME flags \in FlagContexts, NEW s, NEW source
  PROVE  LET after == ApplyResultToFlags(s, source)
         IN /\ after \in FlagContexts
            /\ s.name # "ckyc-search" => after = flags
            /\ s.name = "ckyc-search" =>
                 /\ DOMAIN after = DOMAIN flags \cup {"ckycRecordFound"}
                 /\ after["ckycRecordFound"] = (source = "existing")
            /\ "complianceApproved" \in DOMAIN after <=> "complianceApproved" \in DOMAIN flags
            /\ "complianceApproved" \in DOMAIN flags =>
                 after["complianceApproved"] = flags["complianceApproved"]
            /\ DOMAIN flags \subseteq DOMAIN after
  <1>1. DOMAIN flags \subseteq FlagNames /\ flags \in [DOMAIN flags -> BOOLEAN]
    BY FlagContext
  <1>2. CASE s.name # "ckyc-search"
    BY <1>2 DEF ApplyResultToFlags
  <1>3. CASE s.name = "ckyc-search"
    <2> DEFINE after == [f \in DOMAIN flags \cup {"ckycRecordFound"} |->
                           IF f = "ckycRecordFound" THEN source = "existing" ELSE flags[f]]
    <2>1. ApplyResultToFlags(s, source) = after
      BY <1>3 DEF ApplyResultToFlags
    <2>2. /\ DOMAIN after = DOMAIN flags \cup {"ckycRecordFound"}
          /\ after["ckycRecordFound"] = (source = "existing")
          /\ \A f \in DOMAIN flags : f # "ckycRecordFound" => after[f] = flags[f]
      OBVIOUS
    <2>3. after \in [DOMAIN flags \cup {"ckycRecordFound"} -> BOOLEAN]
      <3> SUFFICES ASSUME NEW f \in DOMAIN flags \cup {"ckycRecordFound"}
                   PROVE  after[f] \in BOOLEAN
        OBVIOUS
      <3>1. CASE f = "ckycRecordFound"
        BY <3>1
      <3>2. CASE f # "ckycRecordFound"
        BY <3>2, <1>1
      <3> QED
        BY <3>1, <3>2
    <2>4. DOMAIN after \subseteq FlagNames
      BY <1>1, <2>2 DEF FlagNames
    <2> HIDE DEF after
    <2>5. after \in FlagContexts
      BY <2>2, <2>3, <2>4, FlagContext
    <2> QED
      BY <1>3, <2>1, <2>2, <2>5
  <1> QED
    BY <1>2, <1>3

LEMMA LoadedSteps ==
  ASSUME FlowInv
  PROVE  /\ \A s \in steps : s.order \in Int
         /\ \A s, t \in steps : s.order = t.order => s = t
  BY WorkflowsAssumption DEF FlowInv, EngineTypeOK, Loaded

LEMMA SameGroupIsSymmetric ==
  ASSUME FlowInv, NEW s \in steps, NEW t \in steps, SameGroup(s, t)
  PROVE  SameGroup(t, s)
  BY LoadedSteps DEF SameGroup

LEMMA BeginningIsDecided ==
  ASSUME NEW s
  PROVE  /\ BeginStep(s) \in {"rejected", "guardedOff", "approved", "halted", "initiating"}
         /\ BeginStep(s) = "rejected" => GuardUnknown(s)
         /\ BeginStep(s) # "rejected" => ~GuardUnknown(s)
         /\ BeginStep(s) = "guardedOff" => ~GuardHolds(s)
         /\ BeginStep(s) \in {"approved", "halted", "initiating"} => GuardHolds(s)
         /\ BeginStep(s) = "approved" => s.isManual /\ Approved
         /\ BeginStep(s) = "halted" => s.isManual /\ ~Approved
         /\ BeginStep(s) = "initiating" => ~s.isManual
  BY DEF BeginStep

\* The loop's step, when it begins a group.
BeginsGroup ==
  /\ phase = "running" /\ Failed = {} /\ Halted = {}
  /\ \A s \in group : status[s] \in Settled
  /\ status' = [s \in steps |-> IF s \in NextGroup THEN BeginStep(s) ELSE status[s]]
  /\ group' = NextGroup
  /\ phase' = IF \E s \in NextGroup : BeginStep(s) = "rejected" THEN "threw" ELSE "running"
  /\ UNCHANGED <<steps, given, flags, registry>>

Returns ==
  /\ phase = "running" /\ phase' = "returned"
  /\ \A s \in group : status[s] \in Settled
  /\ \/ Failed # {} /\ status' = status
     \/ /\ Failed = {} /\ (Halted # {} \/ NextGroup = {})
        /\ status' = [s \in steps |-> IF s \in Pending THEN "notReached" ELSE status[s]]
  /\ UNCHANGED <<steps, given, flags, group, registry>>

LEMMA LoopStep ==
  ASSUME ContinueAfterGroup
  PROVE  BeginsGroup \/ Returns
  BY DEF ContinueAfterGroup, BeginsGroup, Returns

\* A step of the loop finds nothing under way.
LEMMA NothingUnderWay ==
  ASSUME FlowInv, phase = "running", \A s \in group : status[s] \in Settled
  PROVE  \A s \in steps : status[s] \in Settled \cup {"pending"}
  BY DEF FlowInv, EngineTypeOK, Started, Settled

\* A group begins when everything before it is done.
LEMMA EarlierIsDone ==
  ASSUME FlowInv, BeginsGroup, NEW s \in steps, NEW t \in NextGroup,
         s.order < t.order, ~SameGroup(s, t)
  PROVE  status[s] \in Done
  <1>1. t \in steps
    BY DEF NextGroup, Pending
  <1>2. status[s] # "pending"
    BY <1>1, SameGroupIsSymmetric DEF NextGroup, Pending
  <1>3. status[s] \in Settled
    BY <1>2, NothingUnderWay DEF BeginsGroup
  <1> QED
    BY <1>3 DEF BeginsGroup, Failed, Halted, Settled, Done

-----------------------------------------------------------------------------
(***************************************************************************)
(* Types and order                                                         *)
(***************************************************************************)

\* What the three steps of a vendor call have in common.
CallStep(s) ==
  /\ status[s] \in {"initiating", "fetching"}
  /\ \E new \in {"failed", "awaitingCallback", "fetching", "succeeded"} :
       status' = [status EXCEPT ![s] = new]
  /\ UNCHANGED <<steps, given, group, phase>>
  /\ registry' \in {"none", "existing", "fresh"}
  /\ flags' = flags \/ \E source : flags' = ApplyResultToFlags(s, source)

LEMMA CallSteps ==
  ASSUME FlowInv, NEW s \in steps,
         \/ Initiate(s)
         \/ FetchFails(s)
         \/ \E source \in {"none", "existing", "fresh"} : FetchSucceeds(s, source)
  PROVE  CallStep(s)
  <1>1. registry \in {"none", "existing", "fresh"}
    BY DEF FlowInv, EngineTypeOK
  <1>2. CASE Initiate(s)
    BY <1>1, <1>2 DEF Initiate, CallStep
  <1>3. CASE FetchFails(s)
    BY <1>1, <1>3 DEF FetchFails, CallStep
  <1>4. ASSUME NEW source \in {"none", "existing", "fresh"}, FetchSucceeds(s, source)
        PROVE  CallStep(s)
    BY <1>1, <1>4 DEF FetchSucceeds, CallStep
  <1> QED
    BY <1>2, <1>3, <1>4

LEMMA FlowInitially ==
  ASSUME EngineInit
  PROVE  FlowInv /\ RunsInOrder
  <1>1. flags \in FlagContexts
    BY FlagsAssumption DEF EngineInit
  <1> QED
    BY <1>1 DEF EngineInit, FlowInv, EngineTypeOK, RunsInOrder, Started

LEMMA FlowKept ==
  ASSUME FlowInv, [EngineNext]_engineVars
  PROVE  FlowInv'
  <1>1. ASSUME BeginsGroup
        PROVE  FlowInv'
    <2>1. NextGroup \subseteq steps
      BY DEF NextGroup, Pending
    <2>2. \A s \in steps : status[s] \in Settled \cup {"pending"}
      BY <1>1, NothingUnderWay DEF BeginsGroup
    <2>3. \A s \in steps : status'[s] = IF s \in NextGroup THEN BeginStep(s) ELSE status[s]
      BY <1>1 DEF BeginsGroup
    <2>4. status' \in [steps -> Started \cup {"pending", "rejected", "notReached"}]
      BY <1>1, <2>2, BeginningIsDecided DEF BeginsGroup, Started, Settled
    <2>5. phase' \in {"running", "threw"}
      BY <1>1 DEF BeginsGroup
    <2>6. \A s \in steps : status'[s] = "rejected" => phase' = "threw"
      BY <1>1, <2>2, <2>3 DEF BeginsGroup, Settled
    <2>7. \A s \in steps : status'[s] # "notReached"
      BY <2>2, <2>3, BeginningIsDecided DEF Settled
    <2>8. \A s \in steps : status'[s] \in {"initiating", "fetching"} => s \in NextGroup
      BY <2>2, <2>3 DEF Settled
    <2> QED
      BY <1>1, <2>1, <2>4, <2>5, <2>6, <2>7, <2>8 DEF BeginsGroup, FlowInv, EngineTypeOK
  <1>2. ASSUME Returns
        PROVE  FlowInv'
    <2>1. \A s \in steps : status[s] \in Settled \cup {"pending"}
      BY <1>2, NothingUnderWay DEF Returns
    <2>2. \A s \in steps : status'[s] \in {status[s], "notReached"}
      BY <1>2 DEF Returns
    <2>3. status' \in [steps -> Started \cup {"pending", "rejected", "notReached"}]
      BY <1>2 DEF Returns, FlowInv, EngineTypeOK
    <2>4. \A s \in steps : status'[s] \notin {"initiating", "fetching", "rejected"}
      BY <2>1, <2>2 DEF Settled
    <2> QED
      BY <1>2, <2>3, <2>4 DEF Returns, FlowInv, EngineTypeOK
  <1>3. ASSUME NEW s \in steps, CallStep(s)
        PROVE  FlowInv'
    <2>1. flags' \in FlagContexts
      BY <1>3, FlagsApplied DEF CallStep, FlowInv, EngineTypeOK
    <2> QED
      BY <1>3, <2>1 DEF CallStep, FlowInv, EngineTypeOK, Started, Settled
  <1>4. ASSUME UNCHANGED engineVars
        PROVE  FlowInv'
    BY <1>4 DEF engineVars, FlowInv, EngineTypeOK
  <1> QED
    BY <1>1, <1>2, <1>3, <1>4, LoopStep, CallSteps DEF EngineNext, Finished

LEMMA OrderKept ==
  ASSUME FlowInv, RunsInOrder, [EngineNext]_engineVars
  PROVE  RunsInOrder'
  <1> USE DEF Done
  <1>1. ASSUME steps' = steps, NEW s \in steps, NEW t \in steps
        PROVE  SameGroup(s, t)' <=> SameGroup(s, t)
    BY <1>1 DEF SameGroup
  <1>2. ASSUME BeginsGroup
        PROVE  RunsInOrder'
    <2>1. \A s \in steps : status'[s] = IF s \in NextGroup THEN BeginStep(s) ELSE status[s]
      BY <1>2 DEF BeginsGroup
    <2>2. ASSUME NEW s \in steps, NEW t \in steps, s.order < t.order, ~SameGroup(s, t),
                 status'[t] \notin {"pending", "notReached"}
          PROVE  status'[s] \in Done
      <3>1. status[s] \in Done
        <4>1. CASE t \in NextGroup
          BY <1>2, <2>2, <4>1, EarlierIsDone
        <4>2. CASE t \notin NextGroup
          BY <2>1, <2>2, <4>2 DEF RunsInOrder
        <4> QED
          BY <4>1, <4>2
      <3> QED
        BY <2>1, <3>1 DEF NextGroup, Pending
    <2> QED
      BY <1>1, <1>2, <2>2 DEF BeginsGroup, RunsInOrder
  <1>3. ASSUME Returns
        PROVE  RunsInOrder'
    <2>1. ASSUME NEW s \in steps
          PROVE  \/ status'[s] = status[s]
                 \/ status[s] = "pending" /\ status'[s] = "notReached"
      BY <1>3, <2>1 DEF Returns, Pending
    <2> QED
      BY <1>1, <1>3, <2>1 DEF Returns, RunsInOrder
  <1>4. ASSUME NEW c \in steps, CallStep(c)
        PROVE  RunsInOrder'
    <2>1. \A s \in steps : s # c => status'[s] = status[s]
      BY <1>4 DEF CallStep, FlowInv, EngineTypeOK
    <2> QED
      BY <1>1, <1>4, <2>1 DEF CallStep, RunsInOrder
  <1>5. ASSUME UNCHANGED engineVars
        PROVE  RunsInOrder'
    BY <1>1, <1>5 DEF engineVars, RunsInOrder
  <1> QED
    BY <1>2, <1>3, <1>4, <1>5, LoopStep, CallSteps DEF EngineNext, Finished

\* Types hold of every loaded workflow, and a step whose vendor call is under
\* way is one that the loop waits for.
THEOREM EngineTypesCorrect == EngineSpec => []EngineTypeOK
  <1>1. FlowInv => EngineTypeOK
    BY DEF FlowInv
  <1> QED
    BY <1>1, FlowInitially, FlowKept, PTL DEF EngineSpec

\* executeWorkflow() never begins a step before the earlier groups are done,
\* however their steps overlap, wait and fail.
THEOREM StepsRunInOrder == EngineSpec => []RunsInOrder
  BY FlowInitially, FlowKept, OrderKept, PTL DEF EngineSpec

-----------------------------------------------------------------------------
(***************************************************************************)
(* The registry record                                                     *)
(***************************************************************************)

\* A workflow searches the registry in one step at most, and waits for it.
SearchesOnce(w) ==
  /\ \A s, t \in w : s.name = "ckyc-search" /\ t.name = "ckyc-search" => s = t
  /\ \A s \in w : s.name = "ckyc-search" => ~WaitsForVendor(s)

\* Nobody calls the engine with a result of a search.
NothingSearchedYet == \A f \in InitialFlags : "ckycRecordFound" \notin DOMAIN f

\* The flag is what the one search answered.
RecordInv ==
  /\ "ckycRecordFound" \in DOMAIN flags <=> registry # "none"
  /\ registry # "none" => flags["ckycRecordFound"] = (registry = "existing")
  /\ \A s \in steps :
       s.name = "ckyc-search" => (status[s] = "succeeded" <=> registry # "none")
  /\ RecordDecidesFetching

LEMMA RecordKept ==
  ASSUME FlowInv, RecordInv, SearchesOnce(steps), [EngineNext]_engineVars
  PROVE  RecordInv'
  <1>1. ASSUME BeginsGroup
        PROVE  RecordInv'
    <2>1. \A s \in steps : status'[s] = IF s \in NextGroup THEN BeginStep(s) ELSE status[s]
      BY <1>1 DEF BeginsGroup
    <2>2. \A s \in NextGroup : s \in steps /\ status[s] = "pending"
      BY DEF NextGroup, Pending
    <2>3. \A s \in steps : status'[s] = "succeeded" <=> status[s] = "succeeded"
      BY <2>1, <2>2, BeginningIsDecided
    <2>4. ASSUME NEW s \in NextGroup, s.guard = Unless("ckycRecordFound")
          PROVE  /\ status'[s] \in Started \ {"guardedOff"} => registry = "fresh"
                 /\ status'[s] = "guardedOff" => registry = "existing"
      <3>1. s.guard # NoGuard /\ s.guard.flag = "ckycRecordFound" /\ s.guard.negated = TRUE
        BY <2>4 DEF Unless, NoGuard
      <3>2. registry \in {"none", "existing", "fresh"}
        BY DEF FlowInv, EngineTypeOK
      <3>3. status'[s] = BeginStep(s)
        BY <2>1, <2>2
      <3>4. CASE registry = "none"
        BY <3>1, <3>3, <3>4, BeginningIsDecided DEF RecordInv, GuardUnknown, Started, Settled
      <3>5. CASE registry = "existing"
        <4>1. flags["ckycRecordFound"] = TRUE
          BY <3>5 DEF RecordInv
        <4>2. ~GuardHolds(s)
          BY <3>1, <4>1 DEF GuardHolds
        <4> QED
          BY <3>3, <3>5, <4>2, BeginningIsDecided DEF Started, Settled
      <3>6. CASE registry = "fresh"
        <4>1. flags["ckycRecordFound"] = FALSE
          BY <3>6 DEF RecordInv
        <4>2. GuardHolds(s)
          BY <3>1, <4>1 DEF GuardHolds
        <4> QED
          BY <3>3, <3>6, <4>2, BeginningIsDecided
      <3> QED
        BY <3>2, <3>4, <3>5, <3>6
    <2> QED
      BY <1>1, <2>1, <2>3, <2>4 DEF BeginsGroup, RecordInv, RecordDecidesFetching
  <1>2. ASSUME Returns
        PROVE  RecordInv'
    <2>1. ASSUME NEW s \in steps
          PROVE  \/ status'[s] = status[s]
                 \/ status[s] = "pending" /\ status'[s] = "notReached"
      BY <1>2, <2>1 DEF Returns, Pending
    <2> QED
      BY <1>2, <2>1 DEF Returns, RecordInv, RecordDecidesFetching, Started, Settled
  <1>3. ASSUME NEW c \in steps, CallStep(c), UNCHANGED <<flags, registry>>,
               status'[c] # "succeeded"
        PROVE  RecordInv'
    <2>1. \A s \in steps : s # c => status'[s] = status[s]
      BY <1>3 DEF CallStep, FlowInv, EngineTypeOK
    <2>2. status'[c] \in Started \ {"guardedOff"} /\ status[c] \in Started \ {"guardedOff"}
      BY <1>3 DEF CallStep, FlowInv, EngineTypeOK, Started, Settled
    <2>3. status[c] # "succeeded"
      BY <1>3 DEF CallStep
    <2> QED
      BY <1>3, <2>1, <2>2, <2>3 DEF CallStep, RecordInv, RecordDecidesFetching
  <1>4. ASSUME NEW c \in steps, Initiate(c)
        PROVE  RecordInv'
    <2>1. CallStep(c)
      BY <1>4, CallSteps
    <2>2. WaitsForVendor(c) => ApplyResultToFlags(c, "none") = flags
      BY DEF SearchesOnce, ApplyResultToFlags
    <2>3. UNCHANGED <<flags, registry>> /\ status'[c] # "succeeded"
      BY <1>4, <2>2 DEF Initiate, FlowInv, EngineTypeOK
    <2> QED
      BY <1>3, <2>1, <2>3
  <1>5. ASSUME NEW c \in steps, FetchFails(c)
        PROVE  RecordInv'
    <2>1. CallStep(c)
      BY <1>5, CallSteps
    <2>2. UNCHANGED <<flags, registry>> /\ status'[c] # "succeeded"
      BY <1>5 DEF FetchFails, FlowInv, EngineTypeOK
    <2> QED
      BY <1>3, <2>1, <2>2
  <1>6. ASSUME NEW c \in steps, NEW source \in {"none", "existing", "fresh"},
               FetchSucceeds(c, source)
        PROVE  RecordInv'
    <2>1. /\ \A s \in steps : s # c => status'[s] = status[s]
          /\ status'[c] = "succeeded" /\ status[c] = "fetching"
          /\ steps' = steps
      BY <1>6 DEF FetchSucceeds, FlowInv, EngineTypeOK
    <2>2. CASE c.name # "ckyc-search"
      <3>1. flags' = flags /\ registry' = registry
        BY <1>6, <2>2 DEF FetchSucceeds, ApplyResultToFlags
      <3> QED
        BY <2>1, <2>2, <3>1 DEF RecordInv, RecordDecidesFetching, Started, Settled
    <2>3. CASE c.name = "ckyc-search"
      <3>1. registry = "none"
        BY <2>1, <2>3 DEF RecordInv
      <3>2. registry' = source /\ source # "none" /\ flags' = ApplyResultToFlags(c, source)
        BY <1>6, <2>3 DEF FetchSucceeds
      <3>3. /\ "ckycRecordFound" \in DOMAIN flags'
            /\ flags'["ckycRecordFound"] = (source = "existing")
        BY <2>3, <3>2, FlagsApplied DEF FlowInv, EngineTypeOK
      <3>4. \A s \in steps : s.name = "ckyc-search" => s = c
        BY <2>3 DEF SearchesOnce
      <3>5. ASSUME NEW s \in steps, s.guard = Unless("ckycRecordFound")
            PROVE  status'[s] \notin Started
        BY <2>1, <3>1, <3>5 DEF RecordInv, RecordDecidesFetching, Started, Settled
      <3> QED
        BY <2>1, <3>2, <3>3, <3>4, <3>5 DEF RecordInv, RecordDecidesFetching, Started, Settled
    <2> QED
      BY <2>2, <2>3
  <1>7. ASSUME UNCHANGED engineVars
        PROVE  RecordInv'
    BY <1>7 DEF engineVars, RecordInv, RecordDecidesFetching
  <1> QED
    BY <1>1, <1>2, <1>4, <1>5, <1>6, <1>7, LoopStep DEF EngineNext, Finished

\* For workflows with one search: a step that is only for customers without
\* a record is begun for exactly these.
THEOREM RecordDecides ==
  ASSUME NothingSearchedYet, \A w \in Workflows : SearchesOnce(w)
  PROVE  EngineSpec => []RecordDecidesFetching
  <1>1. EngineInit => RecordInv
    BY DEF EngineInit, RecordInv, RecordDecidesFetching, NothingSearchedYet, Started, Settled
  <1>2. FlowInv /\ RecordInv /\ [EngineNext]_engineVars => RecordInv'
    <2>1. FlowInv => SearchesOnce(steps)
      BY DEF FlowInv, EngineTypeOK
    <2> QED
      BY <2>1, RecordKept
  <1>3. RecordInv => RecordDecidesFetching
    BY DEF RecordInv
  <1> QED
    BY <1>1, <1>2, <1>3, FlowInitially, FlowKept, PTL DEF EngineSpec

-----------------------------------------------------------------------------
(***************************************************************************)
(* Flags that are read have been set                                       *)
(***************************************************************************)

\* A step that, once done, has set the flag.
Sets(s, flag) ==
  \/ flag = "ckycRecordFound" /\ s.name = "ckyc-search" /\ ~s.isManual
  \/ flag = "complianceApproved" /\ s.isManual

\* The condition on a workflow: every flag that a step reads is set by an earlier
\* one, which runs alone and is never skipped.
SetsWhatItReads(w) ==
  \A t \in w : t.guard # NoGuard =>
    \E s \in w : /\ s.order < t.order /\ s.group = NoGroup /\ s.guard = NoGuard
                 /\ Sets(s, t.guard.flag)

\* What the shipped files say of their steps, as far as it matters here.
LEMMA MinimumSteps ==
  \A t \in MinimumKyc : t.guard = NoGuard /\ t.order \in 1..2 /\ ~t.isManual /\ ~t.isAsync
  <1> DEFINE s1 == Step(1, "aadhaar-otp-fetch", "DIGILOCKER", NoGuard)
             s2 == Step(2, "basic-name-screen", "AML_SCREENING", NoGuard)
  <1>1. MinimumKyc = {s1, s2}
    BY DEF MinimumKyc
  <1>2. /\ s1.guard = NoGuard /\ s1.order = 1 /\ ~s1.isManual /\ ~s1.isAsync
        /\ s2.guard = NoGuard /\ s2.order = 2 /\ ~s2.isManual /\ ~s2.isAsync
    BY DEF Step
  <1> HIDE DEF s1, s2
  <1> QED
    BY <1>1, <1>2

LEMMA FullSteps ==
  /\ \E s \in FullKyc : /\ s.order = 1 /\ s.group = NoGroup /\ s.guard = NoGuard
                        /\ s.name = "ckyc-search" /\ ~s.isManual
  /\ \A t \in FullKyc : \/ t.guard = NoGuard
                        \/ t.order > 1 /\ t.guard = Unless("ckycRecordFound")
  /\ \A t \in FullKyc : t.order \in 1..4 /\ ~t.isManual /\ ~t.isAsync
  <1> DEFINE s1 == Step(1, "ckyc-search", "CKYC", NoGuard)
             fetch == Step(2, "digilocker-fetch", "DIGILOCKER", Unless("ckycRecordFound"))
             s2 == InGroup("docs", fetch)
             s3 == Step(3, "full-aml-screen", "AML_SCREENING", NoGuard)
             s4 == Step(4, "ckyc-upload", "CKYC", Unless("ckycRecordFound"))
  <1>1. FullKyc = {s1, s2, s3, s4}
    BY DEF FullKyc
  <1>2. /\ s1.order = 1 /\ s1.group = NoGroup /\ s1.guard = NoGuard
        /\ s1.name = "ckyc-search" /\ ~s1.isManual /\ ~s1.isAsync
    BY DEF Step
  <1>3. s2.order = 2 /\ s2.guard = Unless("ckycRecordFound") /\ ~s2.isManual /\ ~s2.isAsync
    BY DEF Step, InGroup
  <1>4. s3.order = 3 /\ s3.guard = NoGuard /\ ~s3.isManual /\ ~s3.isAsync
    BY DEF Step
  <1>5. s4.order = 4 /\ s4.guard = Unless("ckycRecordFound") /\ ~s4.isManual /\ ~s4.isAsync
    BY DEF Step
  <1> HIDE DEF s1, s2, s3, s4
  <1> QED
    BY <1>1, <1>2, <1>3, <1>4, <1>5

LEMMA EddSteps ==
  /\ \E s \in Edd : /\ s.order = 1 /\ s.group = NoGroup /\ s.guard = NoGuard
                    /\ s.name = "ckyc-search" /\ ~s.isManual
  /\ \E s \in Edd : /\ s.order = 6 /\ s.group = NoGroup /\ s.guard = NoGuard
                    /\ s.isManual
  /\ \A t \in Edd : \/ t.guard = NoGuard
                    \/ t.order = 2 /\ t.guard = Unless("ckycRecordFound")
                    \/ t.order = 7 /\ t.guard = If("complianceApproved")
  /\ \A t \in Edd :
       /\ t.order \in 1..7
       /\ t.isManual \/ t.isAsync => /\ t.group = NoGroup /\ t.guard = NoGuard
                                    /\ ~(t.isManual /\ t.isAsync)
  <1> DEFINE s1 == Step(1, "ckyc-search", "CKYC", NoGuard)
             fetch == Step(2, "digilocker-fetch", "DIGILOCKER", Unless("ckycRecordFound"))
             s2 == InGroup("docs", fetch)
             s3 == AsyncStep(3, "video-kyc-session", "VIDEO_KYC")
             s4 == Step(4, "full-aml-screen-adverse-media", "AML_SCREENING", NoGuard)
             s5 == Step(5, "ongoing-monitoring-register", "AML_SCREENING", NoGuard)
             s6 == ManualStep(6, "compliance-officer-review")
             s7 == Step(7, "ckyc-upload", "CKYC", If("complianceApproved"))
  <1>1. Edd = {s1, s2, s3, s4, s5, s6, s7}
    BY DEF Edd
  <1>2. /\ s1.order = 1 /\ s1.group = NoGroup /\ s1.guard = NoGuard
        /\ s1.name = "ckyc-search" /\ ~s1.isManual /\ ~s1.isAsync
    BY DEF Step
  <1>3. s2.order = 2 /\ s2.guard = Unless("ckycRecordFound") /\ ~s2.isManual /\ ~s2.isAsync
    BY DEF Step, InGroup
  <1>4. s3.order = 3 /\ s3.group = NoGroup /\ s3.guard = NoGuard /\ ~s3.isManual
    BY DEF AsyncStep, Step
  <1>5. /\ s4.order = 4 /\ s4.guard = NoGuard /\ ~s4.isManual /\ ~s4.isAsync
        /\ s5.order = 5 /\ s5.guard = NoGuard /\ ~s5.isManual /\ ~s5.isAsync
    BY DEF Step
  <1>6. /\ s6.order = 6 /\ s6.group = NoGroup /\ s6.guard = NoGuard
        /\ s6.isManual /\ ~s6.isAsync
    BY DEF ManualStep, Step
  <1>7. s7.order = 7 /\ s7.guard = If("complianceApproved") /\ ~s7.isManual /\ ~s7.isAsync
    BY DEF Step
  <1> HIDE DEF s1, s2, s3, s4, s5, s6, s7
  <1> QED
    BY <1>1, <1>2, <1>3, <1>4, <1>5, <1>6, <1>7

LEMMA ShippedSetWhatTheyRead ==
  ASSUME NEW tier \in Tiers
  PROVE  SetsWhatItReads(Shipped[tier])
  <1>1. SetsWhatItReads(MinimumKyc)
    BY MinimumSteps DEF SetsWhatItReads
  <1>2. Unless("ckycRecordFound").flag = "ckycRecordFound"
        /\ If("complianceApproved").flag = "complianceApproved"
    BY DEF Unless, If
  <1>3. SetsWhatItReads(FullKyc)
    BY <1>2, FullSteps DEF SetsWhatItReads, Sets
  <1>4. SetsWhatItReads(Edd)
    <2>1. PICK s \in Edd : /\ s.order = 1 /\ s.group = NoGroup /\ s.guard = NoGuard
                           /\ s.name = "ckyc-search" /\ ~s.isManual
      BY EddSteps
    <2>2. PICK r \in Edd : /\ r.order = 6 /\ r.group = NoGroup /\ r.guard = NoGuard
                           /\ r.isManual
      BY EddSteps
    <2>3. Sets(s, "ckycRecordFound") /\ Sets(r, "complianceApproved")
      BY <2>1, <2>2 DEF Sets
    <2> SUFFICES ASSUME NEW t \in Edd, t.guard # NoGuard
                 PROVE  \E u \in Edd : /\ u.order < t.order /\ u.group = NoGroup
                                       /\ u.guard = NoGuard /\ Sets(u, t.guard.flag)
      BY DEF SetsWhatItReads
    <2>4. CASE t.order = 2 /\ t.guard = Unless("ckycRecordFound")
      BY <1>2, <2>1, <2>3, <2>4
    <2>5. CASE t.order = 7 /\ t.guard = If("complianceApproved")
      BY <1>2, <2>2, <2>3, <2>5
    <2> QED
      BY <2>4, <2>5, EddSteps
  <1> QED
    BY <1>1, <1>3, <1>4 DEF Shipped, Tiers

\* What a step that is done has left behind.
GuardInv ==
  /\ \A s \in steps :
       /\ status[s] = "guardedOff" => s.guard # NoGuard
       /\ status[s] = "approved" => s.isManual /\ "complianceApproved" \in DOMAIN flags
       /\ status[s] \in {"initiating", "fetching", "succeeded"} => ~s.isManual
       /\ status[s] = "succeeded" /\ s.name = "ckyc-search" => "ckycRecordFound" \in DOMAIN flags
  /\ SetsWhatItReads(steps) => phase # "threw"

LEMMA GuardsKept ==
  ASSUME FlowInv, RunsInOrder, GuardInv, [EngineNext]_engineVars
  PROVE  GuardInv'
  <1>1. ASSUME BeginsGroup
        PROVE  GuardInv'
    <2>1. \A s \in steps : status'[s] = IF s \in NextGroup THEN BeginStep(s) ELSE status[s]
      BY <1>1 DEF BeginsGroup
    <2>2. ASSUME NEW s \in steps
          PROVE  /\ status'[s] = "guardedOff" => s.guard # NoGuard
                 /\ status'[s] = "approved" => s.isManual /\ "complianceApproved" \in DOMAIN flags
                 /\ status'[s] \in {"initiating", "fetching", "succeeded"} => ~s.isManual
                 /\ status'[s] = "succeeded" /\ s.name = "ckyc-search" =>
                      "ckycRecordFound" \in DOMAIN flags
      <3>1. CASE s \notin NextGroup
        BY <2>1, <3>1 DEF GuardInv
      <3>2. CASE s \in NextGroup
        BY <2>1, <3>2, BeginningIsDecided DEF GuardHolds, Approved
      <3> QED
        BY <3>1, <3>2
    <2>3. ASSUME SetsWhatItReads(steps), NEW t \in NextGroup, BeginStep(t) = "rejected"
          PROVE  FALSE
      <3>1. t \in steps /\ t.guard # NoGuard /\ t.guard.flag \notin DOMAIN flags
        BY <2>3, BeginningIsDecided DEF GuardUnknown, NextGroup, Pending
      <3>2. PICK s \in steps : /\ s.order < t.order /\ s.group = NoGroup /\ s.guard = NoGuard
                               /\ Sets(s, t.guard.flag)
        BY <2>3, <3>1 DEF SetsWhatItReads
      <3>3. ~SameGroup(s, t)
        BY <3>1, <3>2, LoadedSteps DEF SameGroup
      <3>4. status[s] \in Done
        BY <1>1, <3>2, <3>3, EarlierIsDone
      <3>5. t.guard.flag \in DOMAIN flags
        BY <3>2, <3>4 DEF GuardInv, Sets, Done
      <3> QED
        BY <3>1, <3>5
    <2>4. SetsWhatItReads(steps) => phase' # "threw"
      BY <1>1, <2>3 DEF BeginsGroup
    <2> QED
      BY <1>1, <2>2, <2>4 DEF BeginsGroup, GuardInv
  <1>2. ASSUME Returns
        PROVE  GuardInv'
    <2>1. ASSUME NEW s \in steps
          PROVE  status'[s] = status[s] \/ status'[s] = "notReached"
      BY <1>2, <2>1 DEF Returns, Pending
    <2> QED
      BY <1>2, <2>1 DEF Returns, GuardInv
  <1>3. ASSUME NEW c \in steps, CallStep(c),
               status'[c] = "succeeded" /\ c.name = "ckyc-search" =>
                 "ckycRecordFound" \in DOMAIN flags'
        PROVE  GuardInv'
    <2>1. \A s \in steps : s # c => status'[s] = status[s]
      BY <1>3 DEF CallStep, FlowInv, EngineTypeOK
    <2>2. status'[c] \in {"failed", "awaitingCallback", "fetching", "succeeded"} /\ ~c.isManual
      BY <1>3 DEF CallStep, FlowInv, EngineTypeOK, GuardInv
    <2>3. DOMAIN flags \subseteq DOMAIN flags'
      BY <1>3, FlagsApplied DEF CallStep, FlowInv, EngineTypeOK
    <2> QED
      BY <1>3, <2>1, <2>2, <2>3 DEF CallStep, GuardInv
  <1>4. ASSUME NEW c \in steps,
               \/ Initiate(c)
               \/ FetchFails(c)
               \/ \E source \in {"none", "existing", "fresh"} : FetchSucceeds(c, source)
        PROVE  GuardInv'
    <2>1. CallStep(c)
      BY <1>4, CallSteps
    <2>2. CASE Initiate(c) \/ FetchFails(c)
      <3>1. status'[c] # "succeeded"
        BY <2>2 DEF Initiate, FetchFails, FlowInv, EngineTypeOK
      <3> QED
        BY <1>3, <2>1, <3>1
    <2>3. ASSUME NEW source \in {"none", "existing", "fresh"}, FetchSucceeds(c, source)
          PROVE  GuardInv'
      <3>1. c.name = "ckyc-search" => "ckycRecordFound" \in DOMAIN flags'
        BY <2>3, FlagsApplied DEF FetchSucceeds, FlowInv, EngineTypeOK
      <3> QED
        BY <1>3, <2>1, <3>1
    <2> QED
      BY <1>4, <2>2, <2>3
  <1>5. ASSUME UNCHANGED engineVars
        PROVE  GuardInv'
    BY <1>5 DEF engineVars, GuardInv
  <1> QED
    BY <1>1, <1>2, <1>4, <1>5, LoopStep DEF EngineNext, Finished

LEMMA GuardsInitially ==
  ASSUME EngineInit
  PROVE  GuardInv
  BY DEF EngineInit, GuardInv

\* executeWorkflow() never throws for a file that sets what it reads.
THEOREM NeverThrows == EngineSpec => [](SetsWhatItReads(steps) => phase # "threw")
  <1>1. GuardInv => (SetsWhatItReads(steps) => phase # "threw")
    BY DEF GuardInv
  <1> QED
    BY <1>1, FlowInitially, FlowKept, OrderKept, GuardsInitially, GuardsKept, PTL DEF EngineSpec

\* The shipped files are such files.
THEOREM ShippedFilesNeverThrow == EngineSpec => []ShippedNeverThrows
  <1>1. (SetsWhatItReads(steps) => phase # "threw") => ShippedNeverThrows
    BY ShippedSetWhatTheyRead DEF ShippedNeverThrows
  <1> QED
    BY <1>1, NeverThrows, PTL

-----------------------------------------------------------------------------
(***************************************************************************)
(* How a run ends                                                          *)
(***************************************************************************)

\* The condition on a workflow: a step that may stop the run is in no group, is
\* never skipped and stops it for one reason only; and orders count upwards.
HaltsAlone(w) ==
  \A s \in w :
    /\ s.order \in Nat
    /\ s.isManual \/ WaitsForVendor(s) => /\ s.group = NoGroup /\ s.guard = NoGuard
                                          /\ ~(s.isManual /\ WaitsForVendor(s))

LEMMA ShippedHaltAlone ==
  ASSUME NEW tier \in Tiers
  PROVE  HaltsAlone(Shipped[tier])
  <1>1. HaltsAlone(MinimumKyc)
    BY MinimumSteps DEF HaltsAlone, WaitsForVendor
  <1>2. HaltsAlone(FullKyc)
    BY FullSteps DEF HaltsAlone, WaitsForVendor
  <1>3. HaltsAlone(Edd)
    BY EddSteps DEF HaltsAlone, WaitsForVendor
  <1> QED
    BY <1>1, <1>2, <1>3 DEF Shipped, Tiers

\* An approval is never given as FALSE: it is given or it is not.
ApprovedOrNot ==
  \A f \in InitialFlags : "complianceApproved" \in DOMAIN f => f["complianceApproved"] = TRUE

\* The approval that the run began with, which no step of it changes.
WasApproved == "complianceApproved" \in DOMAIN given

\* Why a step is where it is, and why a run returned.
EndingInv ==
  /\ "complianceApproved" \in DOMAIN flags <=> WasApproved
  /\ WasApproved => flags["complianceApproved"] = TRUE
  /\ \A s \in steps :
       /\ status[s] = "halted" => s.isManual /\ ~WasApproved
       /\ status[s] = "awaitingCallback" => WaitsForVendor(s)
       /\ status[s] = "approved" => s.isManual /\ WasApproved
       /\ status[s] \in {"fetching", "succeeded"} => ~WaitsForVendor(s)
  /\ phase = "returned" => \/ Failed # {} \/ Halted # {}
                           \/ \A s \in steps : status[s] \in Done

LEMMA EndingInitially ==
  ASSUME EngineInit, ApprovedOrNot
  PROVE  EndingInv
  BY DEF EngineInit, EndingInv, WasApproved, ApprovedOrNot

\* While a step is left to begin there is a group to begin.
LEMMA PendingHasFirst ==
  ASSUME HaltsAlone(steps), Pending # {}
  PROVE  NextGroup # {}
  <1> DEFINE orders == {s.order : s \in Pending}
  <1>1. orders \subseteq Nat /\ orders # {}
    BY DEF HaltsAlone, Pending
  <1>2. PICK n \in orders : \A m \in orders : ~(<<m, n>> \in OpToRel(<, Nat))
    BY <1>1, NatLessThanWellFounded, WFMin
  <1>3. \A m \in orders : ~(m < n)
    BY <1>1, <1>2 DEF OpToRel
  <1>4. PICK s \in Pending : s.order = n
    OBVIOUS
  <1>5. s \in NextGroup
    BY <1>3, <1>4 DEF NextGroup
  <1> QED
    BY <1>5

LEMMA EndingKept ==
  ASSUME FlowInv, GuardInv, EndingInv, HaltsAlone(steps), [EngineNext]_engineVars
  PROVE  EndingInv'
  <1>1. ASSUME BeginsGroup
        PROVE  EndingInv'
    <2>1. \A s \in steps : status'[s] = IF s \in NextGroup THEN BeginStep(s) ELSE status[s]
      BY <1>1 DEF BeginsGroup
    <2>2. Approved <=> WasApproved
      BY DEF Approved, EndingInv
    <2>3. phase' # "returned" /\ (WasApproved' <=> WasApproved)
      BY <1>1 DEF BeginsGroup, WasApproved
    <2> QED
      BY <1>1, <2>1, <2>2, <2>3, BeginningIsDecided DEF BeginsGroup, EndingInv
  <1>2. ASSUME Returns
        PROVE  EndingInv'
    <2>1. \A s \in steps : \/ status'[s] = status[s]
                           \/ status[s] = "pending" /\ status'[s] = "notReached"
      BY <1>2 DEF Returns, Pending
    <2>2. ASSUME Failed = {}, Halted = {}
          PROVE  \A s \in steps : status'[s] \in Done
      <3>1. Pending = {}
        BY <1>2, <2>2, PendingHasFirst DEF Returns
      <3>2. \A s \in steps : status[s] \in Settled
        BY <1>2, <3>1, NothingUnderWay DEF Returns, Pending
      <3> QED
        BY <2>1, <2>2, <3>1, <3>2 DEF Pending, Failed, Halted, Settled, Done
    <2>3. Failed # {} => Failed' # {}
      BY <1>2, <2>1 DEF Failed, Returns
    <2>4. Halted # {} => Halted' # {}
      BY <1>2, <2>1 DEF Halted, Returns
    <2>5. WasApproved' <=> WasApproved
      BY <1>2 DEF Returns, WasApproved
    <2> QED
      BY <1>2, <2>1, <2>2, <2>3, <2>4, <2>5 DEF Returns, EndingInv
  <1>3. ASSUME NEW c \in steps, CallStep(c),
               status'[c] = "awaitingCallback" => WaitsForVendor(c),
               status'[c] \in {"fetching", "succeeded"} => ~WaitsForVendor(c)
        PROVE  EndingInv'
    <2>1. \A s \in steps : s # c => status'[s] = status[s]
      BY <1>3 DEF CallStep, FlowInv, EngineTypeOK
    <2>2. status'[c] \in {"failed", "awaitingCallback", "fetching", "succeeded"}
      BY <1>3 DEF CallStep, FlowInv, EngineTypeOK
    <2>3. /\ "complianceApproved" \in DOMAIN flags' <=> "complianceApproved" \in DOMAIN flags
          /\ "complianceApproved" \in DOMAIN flags =>
               flags'["complianceApproved"] = flags["complianceApproved"]
      BY <1>3, FlagsApplied DEF CallStep, FlowInv, EngineTypeOK
    <2>4. phase' # "returned" /\ (WasApproved' <=> WasApproved)
      BY <1>3 DEF CallStep, FlowInv, EngineTypeOK, WasApproved
    <2> QED
      BY <1>3, <2>1, <2>2, <2>3, <2>4 DEF CallStep, EndingInv
  <1>4. ASSUME NEW c \in steps,
               \/ Initiate(c)
               \/ FetchFails(c)
               \/ \E source \in {"none", "existing", "fresh"} : FetchSucceeds(c, source)
        PROVE  EndingInv'
    <2>1. CallStep(c)
      BY <1>4, CallSteps
    <2>2. /\ status'[c] = "awaitingCallback" => WaitsForVendor(c)
          /\ status'[c] \in {"fetching", "succeeded"} => ~WaitsForVendor(c)
      BY <1>4 DEF Initiate, FetchFails, FetchSucceeds, FlowInv, EngineTypeOK, EndingInv
    <2> QED
      BY <1>3, <2>1, <2>2
  <1>5. ASSUME UNCHANGED engineVars
        PROVE  EndingInv'
    BY <1>5 DEF engineVars, EndingInv, WasApproved, Failed, Halted
  <1> QED
    BY <1>1, <1>2, <1>4, <1>5, LoopStep DEF EngineNext, Finished

\* A step that may stop the run is never done.
LEMMA HaltingIsNotDone ==
  ASSUME FlowInv, GuardInv, EndingInv, HaltsAlone(steps),
         NEW s \in HaltingSteps(steps, WasApproved)
  PROVE  s \in steps /\ status[s] \notin Done
  BY DEF HaltingSteps, HaltsAlone, GuardInv, EndingInv, Done

\* Where a run waits is the first step at which it may.
LEMMA HaltsAtFirst ==
  ASSUME FlowInv, GuardInv, EndingInv, RunsInOrder, HaltsAlone(steps), NEW s \in Halted
  PROVE  s \in FirstHalt(steps, WasApproved)
  <1>1. s \in HaltingSteps(steps, WasApproved)
    BY DEF Halted, EndingInv, HaltingSteps
  <1>2. ASSUME NEW t \in HaltingSteps(steps, WasApproved), ~(s.order <= t.order)
        PROVE  FALSE
    <2>1. /\ s \in steps /\ t \in steps /\ t.order < s.order /\ t # s
          /\ t.group = NoGroup
      BY <1>1, <1>2 DEF HaltsAlone, HaltingSteps
    <2>2. ~SameGroup(t, s)
      BY <2>1 DEF SameGroup
    <2>3. status[s] \notin {"pending", "notReached"}
      BY DEF Halted
    <2>4. status[t] \in Done
      BY <2>1, <2>2, <2>3 DEF RunsInOrder, Done
    <2> QED
      BY <1>2, <2>4, HaltingIsNotDone
  <1> QED
    BY <1>1, <1>2 DEF FirstHalt

\* A run does not fail and wait.
LEMMA FailsOrWaits ==
  ASSUME FlowInv, GuardInv, EndingInv, RunsInOrder, HaltsAlone(steps),
         NEW f \in Failed, NEW h \in Halted
  PROVE  FALSE
  <1>1. /\ f \in steps /\ status[f] = "failed"
        /\ h \in steps /\ status[h] \in {"halted", "awaitingCallback"} /\ f # h
    BY DEF Failed, Halted
  <1>2. h.group = NoGroup
    BY <1>1 DEF HaltsAlone, EndingInv
  <1>3. f.order \in Int /\ h.order \in Int /\ f.order # h.order
    BY <1>1, LoadedSteps
  <1>4. ~SameGroup(f, h) /\ ~SameGroup(h, f)
    BY <1>1, <1>2, <1>3 DEF SameGroup
  <1>5. f.order < h.order \/ h.order < f.order
    BY <1>3
  <1> QED
    BY <1>1, <1>4, <1>5 DEF RunsInOrder

\* What a run comes to, and why.
LEMMA EndsAsPromised ==
  ASSUME FlowInv, GuardInv, EndingInv, RunsInOrder, HaltsAlone(steps), phase = "returned"
  PROVE  /\ Outcome \in EngineResults(steps, WasApproved)
         /\ Failed = {} \/ Halted = {}
         /\ Outcome = "allSucceeded" => \A s \in steps : status[s] \in Done
  <1>1. Failed = {} \/ Halted = {}
    BY FailsOrWaits
  <1>2. CASE Failed # {}
    BY <1>1, <1>2 DEF Outcome, EngineResults
  <1>3. ASSUME Failed = {}, NEW s \in steps, status[s] = "awaitingCallback"
        PROVE  Outcome = "awaitingCallback" /\ Outcome \in EngineResults(steps, WasApproved)
    <2>1. Outcome = "awaitingCallback"
      BY <1>3 DEF Outcome
    <2>2. s \in FirstHalt(steps, WasApproved) /\ ~s.isManual
      BY <1>3, HaltsAtFirst DEF Halted, EndingInv, HaltsAlone
    <2> QED
      BY <2>1, <2>2 DEF EngineResults
  <1>4. ASSUME Failed = {}, \A t \in steps : status[t] # "awaitingCallback",
               NEW s \in steps, status[s] = "halted"
        PROVE  Outcome = "awaitingManual" /\ Outcome \in EngineResults(steps, WasApproved)
    <2>1. Outcome = "awaitingManual"
      BY <1>4 DEF Outcome
    <2>2. s \in FirstHalt(steps, WasApproved) /\ s.isManual
      BY <1>4, HaltsAtFirst DEF Halted, EndingInv
    <2> QED
      BY <2>1, <2>2 DEF EngineResults
  <1>5. ASSUME Failed = {}, Halted = {}
        PROVE  /\ Outcome = "allSucceeded" /\ Outcome \in EngineResults(steps, WasApproved)
               /\ \A s \in steps : status[s] \in Done
    <2>1. Outcome = "allSucceeded"
      BY <1>5 DEF Outcome, Halted
    <2>2. \A s \in steps : status[s] \in Done
      BY <1>5 DEF EndingInv
    <2>3. HaltingSteps(steps, WasApproved) = {}
      BY <2>2, HaltingIsNotDone
    <2>4. FirstHalt(steps, WasApproved) = {}
      BY <2>3 DEF FirstHalt
    <2> QED
      BY <2>1, <2>2, <2>4 DEF EngineResults
  <1>6. Halted # {} => \E s \in steps : status[s] \in {"halted", "awaitingCallback"}
    BY DEF Halted
  <1> QED
    BY <1>1, <1>2, <1>3, <1>4, <1>5, <1>6

\* executeWorkflow() on a shipped file comes to one of the results that the use
\* cases are modelled with, never fails and waits at once, and succeeds only when
\* every step is done.
THEOREM ShippedOutcomes ==
  ASSUME ApprovedOrNot
  PROVE  EngineSpec => []OutcomeContract
  <1> DEFINE Inv == HaltsAlone(steps) => EndingInv
  <1>1. EngineInit => Inv
    BY EndingInitially
  <1>2. FlowInv /\ GuardInv /\ Inv /\ [EngineNext]_engineVars => Inv'
    <2>1. [EngineNext]_engineVars => steps' = steps
      BY DEF EngineNext, ContinueAfterGroup, Initiate, FetchFails, FetchSucceeds, Finished,
             engineVars
    <2>2. steps' = steps => (HaltsAlone(steps)' <=> HaltsAlone(steps))
      BY DEF HaltsAlone
    <2> QED
      BY <2>1, <2>2, EndingKept
  <1>3. FlowInv /\ GuardInv /\ RunsInOrder /\ Inv => OutcomeContract
    BY EndsAsPromised, ShippedHaltAlone DEF OutcomeContract, WasApproved, Done
  <1> HIDE DEF Inv
  <1> QED
    BY <1>1, <1>2, <1>3, FlowInitially, FlowKept, OrderKept, GuardsInitially, GuardsKept, PTL
       DEF EngineSpec

=============================================================================
