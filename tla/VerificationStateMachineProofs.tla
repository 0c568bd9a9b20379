-------------------- MODULE VerificationStateMachineProofs --------------------
(***************************************************************************)
(* Proofs about VerificationStateMachine, for every set of statuses that a *)
(* machine may be constructed with.                                        *)
(***************************************************************************)
EXTENDS VerificationStateMachine, TLAPS

(***************************************************************************)
(* Facts about the table.                                                  *)
(***************************************************************************)

\* Every row names an event, statuses (or a sentinel) and a guard that exist.
LEMMA TableTyped ==
  \A t \in TRANSITIONS : /\ t.event \in Events
                         /\ t.from \in Statuses \cup {ANY}
                         /\ t.to \in Statuses \cup {PREVIOUS_STATE}
                         /\ t.guard \in GuardNames
  BY DEF TRANSITIONS, Row, Events, Statuses, ANY, PREVIOUS_STATE, GuardNames

\* "Exactly one transition definition exists per (event, from-state) pairing":
\* apply() takes the first row it finds, and there is never a second one.
THEOREM AtMostOneRow ==
  \A event \in Events, status \in Statuses :
    \A t, u \in Candidates(event, status) : t = u
  BY DEF Candidates, TRANSITIONS, Row, Events, Statuses, ANY

\* The two sentinels are not statuses.
LEMMA SentinelsAreNotStatuses == ANY \notin Statuses /\ PREVIOUS_STATE \notin Statuses
  BY DEF ANY, PREVIOUS_STATE, Statuses

\* Only the freeze row leads to SUSPENDED and it starts from anywhere; only the
\* lift row has the sentinel for a target, and it starts from SUSPENDED; all
\* the other rows are edges of the life cycle or stay where they are.
LEMMA RowsByEvent ==
  ASSUME NEW t \in TRANSITIONS
  PROVE  \/ t.event = "compliance.freeze" /\ t.to = "SUSPENDED"
         \/ t.event = "compliance.lift" /\ t.from = "SUSPENDED" /\ t.to = PREVIOUS_STATE
         \/ /\ t.event \notin {"compliance.freeze", "compliance.lift"}
            /\ t.from \in Statuses \ {"SUSPENDED"}
            /\ t.to \in Statuses \ {"SUSPENDED"}
            /\ t.from = t.to \/ <<t.from, t.to>> \in Lifecycle!Edges
  BY DEF TRANSITIONS, Row, Statuses, ANY, PREVIOUS_STATE, Lifecycle!Edges

-----------------------------------------------------------------------------
(***************************************************************************)
(* The inductive invariant.                                                *)
(***************************************************************************)

LEMMA InitIInv == Init => IInv
  BY InitialStatusesAssumption
  DEF Init, IInv, TypeOK, SuspensionMemory, AuditAtMostOneAhead, PendingApply

\* What apply() hands to the side-effect handler.
LEMMA ApplyIsSound ==
  ASSUME IInv, NEW event \in Events, NEW guardContext \in GuardContexts,
         Apply(event, guardContext)
  PROVE  /\ applying' \in Applied
         /\ PendingApply'
  <1>1. PICK row \in Candidates(event, currentState) :
          /\ Resolve(row) # None
          /\ applying' = [event |-> event, from |-> currentState, to |-> Resolve(row)]
    BY DEF Apply
  <1>2. /\ row \in TRANSITIONS
        /\ row.event = event
        /\ row.from \in {ANY, currentState}
    BY DEF Candidates
  <1>3. Resolve(row) \in Statuses
    BY <1>1, <1>2, TableTyped DEF Resolve, IInv, TypeOK
  <1>4. applying' \in Applied
    BY <1>1, <1>3 DEF Applied, IInv, TypeOK
  <1>5. /\ stage = "idle" /\ stage' = "audit"
        /\ UNCHANGED machine
    BY DEF Apply
  <1>6. /\ applying'.from = currentState
        /\ applying'.event = row.event
        /\ applying'.to = Resolve(row)
    BY <1>1, <1>2
  <1>7. CASE row.event = "compliance.freeze" /\ row.to = "SUSPENDED"
    <2>1. Resolve(row) = "SUSPENDED"
      BY <1>7 DEF Resolve, PREVIOUS_STATE
    <2> QED
      BY <2>1, <1>4, <1>5, <1>6, <1>7 DEF PendingApply, machine
  <1>8. CASE /\ row.event = "compliance.lift"
             /\ row.from = "SUSPENDED"
             /\ row.to = PREVIOUS_STATE
    <2>1. currentState = "SUSPENDED"
      BY <1>2, <1>8 DEF ANY
    <2>2. Resolve(row) = stateBeforeSuspension
      BY <1>8 DEF Resolve
    <2> QED
      BY <2>1, <2>2, <1>4, <1>5, <1>6, <1>8 DEF PendingApply, machine
  <1>9. CASE /\ row.event \notin {"compliance.freeze", "compliance.lift"}
             /\ row.from \in Statuses \ {"SUSPENDED"}
             /\ row.to \in Statuses \ {"SUSPENDED"}
             /\ row.from = row.to \/ <<row.from, row.to>> \in Lifecycle!Edges
    <2>1. currentState = row.from
      BY <1>2, <1>9, SentinelsAreNotStatuses
    <2>2. Resolve(row) = row.to
      BY <1>9, SentinelsAreNotStatuses DEF Resolve
    <2> QED
      BY <2>1, <2>2, <1>4, <1>5, <1>6, <1>9 DEF PendingApply, machine
  <1> QED
    BY <1>2, <1>7, <1>8, <1>9, RowsByEvent

\* Where a commit takes the machine.
LEMMA CommitIsSound ==
  ASSUME IInv, Commit
  PROVE  /\ stateBeforeSuspension' \in Statuses \cup {None}
         /\ SuspensionMemory'
  <1>1. /\ stage = "commit"
        /\ applying \in Applied
        /\ applying.to \in Statuses
        /\ currentState' = applying.to
    BY DEF Commit, IInv, TypeOK, Applied
  <1>2. CASE applying.event = "compliance.freeze"
    <2>1. applying.to = "SUSPENDED"
      BY <1>1, <1>2 DEF IInv, PendingApply
    <2>2. /\ stateBeforeSuspension' = currentState
          /\ progress' = progress
          /\ refrozen' = (refrozen \/ currentState = "SUSPENDED")
      BY <1>2, <2>1 DEF Commit, FreezesAgain
    <2> QED
      BY <1>1, <2>1, <2>2 DEF IInv, TypeOK, SuspensionMemory
  <1>3. CASE applying.event = "compliance.lift"
    <2>1. applying.to = stateBeforeSuspension /\ currentState = "SUSPENDED"
      BY <1>1, <1>3 DEF IInv, PendingApply
    <2>2. stateBeforeSuspension' = None /\ (refrozen' <=> refrozen)
      BY <1>3 DEF Commit, FreezesAgain
    <2>3. CASE refrozen
      <3>1. applying.to = "SUSPENDED"
        BY <1>1, <2>1, <2>3, NoneAssumption DEF IInv, SuspensionMemory
      <3> QED
        BY <1>1, <2>2, <2>3, <3>1 DEF SuspensionMemory
    <2>4. CASE ~refrozen
      <3>1. applying.to = progress /\ progress # "SUSPENDED"
        BY <1>1, <2>1, <2>4 DEF IInv, TypeOK, SuspensionMemory
      <3>2. progress' = progress
        BY <3>1 DEF Commit
      <3> QED
        BY <1>1, <2>2, <2>4, <3>1, <3>2 DEF SuspensionMemory
    <2> QED
      BY <2>3, <2>4 DEF IInv, TypeOK
  <1>4. CASE applying.event \notin {"compliance.freeze", "compliance.lift"}
    <2>1. currentState # "SUSPENDED" /\ applying.to # "SUSPENDED"
      BY <1>1, <1>4 DEF IInv, PendingApply
    <2>2. /\ stateBeforeSuspension' = stateBeforeSuspension
          /\ progress' = applying.to
          /\ refrozen' <=> refrozen
      BY <1>4, <2>1 DEF Commit, FreezesAgain
    <2> QED
      BY <1>1, <2>1, <2>2 DEF IInv, TypeOK, SuspensionMemory
  <1> QED
    BY <1>2, <1>3, <1>4

LEMMA NextIInv == IInv /\ [Next]_vars => IInv'
  <1> SUFFICES ASSUME IInv, [Next]_vars
               PROVE  IInv'
    OBVIOUS
  <1>1. ASSUME NEW event \in Events, NEW guardContext \in GuardContexts,
               Apply(event, guardContext)
        PROVE  IInv'
    <2>1. PendingApply' /\ applying' \in Applied
      BY <1>1, ApplyIsSound
    <2>2. stage' = "audit" /\ UNCHANGED <<machine, history>>
      BY <1>1 DEF Apply
    <2> QED
      BY <2>1, <2>2
      DEF machine, history, IInv, TypeOK, SuspensionMemory, AuditAtMostOneAhead
  <1>2. CASE RecordAuditEvent
    <2>1. stage = "audit" /\ applying \in Applied /\ applying.from = currentState
      BY <1>2 DEF RecordAuditEvent, IInv, TypeOK, PendingApply
    <2>2. /\ lastAudit' = applying
          /\ stage' \in {"notify", "commit"}
          /\ UNCHANGED <<machine, applying, progress, refrozen>>
      BY <1>2 DEF RecordAuditEvent
    <2>3. TypeOK' /\ SuspensionMemory' /\ AuditAtMostOneAhead'
      BY <2>1, <2>2
      DEF machine, IInv, TypeOK, SuspensionMemory, AuditAtMostOneAhead
    <2>4. PendingApply'
      BY <2>1, <2>2 DEF machine, IInv, PendingApply
    <2> QED
      BY <2>3, <2>4 DEF IInv
  <1>3. CASE SendNotification
    BY <1>3
    DEF SendNotification, machine, history, IInv, TypeOK, SuspensionMemory,
        AuditAtMostOneAhead, PendingApply
  <1>4. CASE SideEffectFails
    BY <1>4
    DEF SideEffectFails, machine, history, IInv, TypeOK, SuspensionMemory,
        AuditAtMostOneAhead, PendingApply
  <1>5. CASE Commit
    <2>1. stateBeforeSuspension' \in Statuses \cup {None} /\ SuspensionMemory'
      BY <1>5, CommitIsSound
    <2>2. /\ applying \in Applied
          /\ applying.to \in Statuses
          /\ lastAudit = applying
      BY <1>5 DEF Commit, IInv, TypeOK, Applied, PendingApply
    <2>3. /\ currentState' = applying.to
          /\ progress' = IF applying.to = "SUSPENDED" THEN progress ELSE applying.to
          /\ applying' = None
          /\ stage' = "idle"
          /\ lastAudit' = lastAudit
          /\ refrozen' \in BOOLEAN
      BY <1>5 DEF Commit, FreezesAgain, IInv, TypeOK
    <2>4. TypeOK'
      BY <2>1, <2>2, <2>3 DEF IInv, TypeOK
    <2>5. AuditAtMostOneAhead' /\ PendingApply'
      BY <2>2, <2>3 DEF AuditAtMostOneAhead, PendingApply
    <2> QED
      BY <2>1, <2>4, <2>5 DEF IInv
  <1>6. CASE UNCHANGED vars
    BY <1>6
    DEF vars, machine, history, IInv, TypeOK, SuspensionMemory, AuditAtMostOneAhead, PendingApply
  <1> QED
    BY <1>1, <1>2, <1>3, <1>4, <1>5, <1>6 DEF Next

\* The inductive invariant holds in every reachable state.
THEOREM Invariance == Spec => []IInv
  BY InitIInv, NextIInv, PTL DEF Spec

\* Type correctness of the machine and of what it has pending.
THEOREM TypeCorrect == Spec => []TypeOK
  <1>1. IInv => TypeOK
    BY DEF IInv
  <1> QED
    BY <1>1, Invariance, PTL

\* What a machine that was frozen once remembers is what it was frozen in; once it
\* has been frozen a second time, that status is lost and no lift leads out again.
THEOREM MemoryUntilFrozenAgain == Spec => []SuspensionMemory
  <1>1. IInv => SuspensionMemory
    BY DEF IInv
  <1> QED
    BY <1>1, Invariance, PTL

\* The audit trail and the machine never differ by more than one transition.
THEOREM AuditKeepsUp == Spec => []AuditAtMostOneAhead
  <1>1. IInv => AuditAtMostOneAhead
    BY DEF IInv
  <1> QED
    BY <1>1, Invariance, PTL

-----------------------------------------------------------------------------
(***************************************************************************)
(* Action properties and the abstract life cycle.                          *)
(***************************************************************************)

\* Only Commit changes the state, and only to what was audited.
LEMMA OnlyCommitChangesState ==
  ASSUME [Next]_vars, ~Commit
  PROVE  UNCHANGED <<currentState, progress>>
  BY DEF Next, vars, machine, history, Apply, RecordAuditEvent, SendNotification, SideEffectFails

\* No change of state without its audit event before it.
THEOREM AuditBeforeChange == Spec => ChangesAreAudited
  <1> DEFINE Audited == /\ lastAudit # None
                        /\ lastAudit.from = currentState
                        /\ lastAudit.to = currentState'
  <1>1. ASSUME IInv, [Next]_vars, currentState' # currentState
        PROVE  Audited
    <2>1. Commit
      BY <1>1, OnlyCommitChangesState
    <2>2. /\ applying \in Applied
          /\ applying.from = currentState
          /\ lastAudit = applying
          /\ currentState' = applying.to
      BY <1>1, <2>1 DEF Commit, IInv, TypeOK, PendingApply
    <2>3. lastAudit # None
      BY <2>2, NoneAssumption
    <2> QED
      BY <2>2, <2>3
  <1>2. IInv /\ [Next]_vars => [currentState' # currentState => Audited]_vars
    BY <1>1
  <1> QED
    BY <1>2, Invariance, PTL DEF Spec, ChangesAreAudited

\* A commit is an edge of the life cycle, a hold, a release, or no change.
LEMMA CommitIsLifecycleStep ==
  ASSUME IInv, Commit
  PROVE  \/ Lifecycle!LifecycleNext
         \/ UNCHANGED <<progress, currentState = "SUSPENDED">>
  <1>1. /\ applying \in Applied
        /\ applying.to \in Statuses
        /\ currentState' = applying.to
        /\ progress' = IF applying.to = "SUSPENDED" THEN progress ELSE applying.to
        /\ stage = "commit"
    BY DEF Commit, IInv, TypeOK, Applied
  <1>2. CASE applying.event = "compliance.freeze"
    <2>1. currentState' = "SUSPENDED" /\ progress' = progress
      BY <1>1, <1>2 DEF IInv, PendingApply
    <2> QED
      BY <2>1 DEF Lifecycle!LifecycleNext, Lifecycle!Hold
  <1>3. CASE applying.event = "compliance.lift"
    <2>1. /\ currentState = "SUSPENDED"
          /\ applying.to = stateBeforeSuspension
      BY <1>1, <1>3 DEF IInv, PendingApply
    <2>2. applying.to \in {"SUSPENDED", progress}
      BY <1>1, <2>1, NoneAssumption DEF IInv, TypeOK, SuspensionMemory
    <2>3. progress' = progress
      BY <1>1, <2>2
    <2> QED
      BY <1>1, <2>1, <2>2, <2>3 DEF Lifecycle!LifecycleNext, Lifecycle!Release
  <1>4. CASE applying.event \notin {"compliance.freeze", "compliance.lift"}
    <2>1. /\ currentState # "SUSPENDED"
          /\ applying.to # "SUSPENDED"
          /\ currentState = applying.to \/ <<currentState, applying.to>> \in Lifecycle!Edges
      BY <1>1, <1>4 DEF IInv, PendingApply
    <2>2. progress = currentState /\ progress' = applying.to
      BY <1>1, <2>1 DEF IInv, SuspensionMemory
    <2> QED
      BY <1>1, <2>1, <2>2 DEF Lifecycle!LifecycleNext, Lifecycle!Advance
  <1> QED
    BY <1>2, <1>3, <1>4

\* The machine implements the life cycle: every step of the machine is a step
\* of the life cycle or leaves it alone.
THEOREM ImplementsLifecycle == Spec => KeepsLifecycle
  <1>1. Init => Lifecycle!LifecycleInit(InitialStatuses)
    BY InitialStatusesAssumption DEF Init, Lifecycle!LifecycleInit
  <1>2. IInv /\ [Next]_vars
          => [Lifecycle!LifecycleNext]_<<progress, currentState = "SUSPENDED">>
    BY CommitIsLifecycleStep, OnlyCommitChangesState
  <1> QED
    BY <1>1, <1>2, Invariance, PTL DEF Spec, KeepsLifecycle

=============================================================================
