----------------------- MODULE VerificationStateMachine -----------------------
(***************************************************************************)
(* One VerificationStateMachine object, from its construction by a use     *)
(* case to its last apply(), with the side-effect handler that the use     *)
(* cases inject: an audit event first, then, for some events, a            *)
(* notification. Each of the two may fail, and either failure makes        *)
(* apply() throw before it has changed anything.                           *)
(***************************************************************************)
EXTENDS TransitionTable

CONSTANTS
  InitialStatuses,  \* the statuses a use case constructs a machine with
  None              \* null

\* What is handed to the side-effect handler, and audited by it.
Applied == [event : Events, from : Statuses, to : Statuses]

\* A use case constructs a machine with NOT_STARTED or with the status of a
\* stored request, and no use case stores SUSPENDED.
ASSUME InitialStatusesAssumption ==
  InitialStatuses \subseteq Statuses \ {"SUSPENDED"}
ASSUME NoneAssumption == None \notin Statuses \cup Applied

VARIABLES
  currentState,
  stateBeforeSuspension,
  applying,    \* the apply() whose side effects are running: a row, resolved
  stage,       \* "idle", or what the side-effect handler is about to do
  lastAudit,   \* history: the newest StateTransition event of the audit trail
  progress,    \* history: the last status other than SUSPENDED
  refrozen     \* history: has a machine that was frozen been frozen again?

machine == <<currentState, stateBeforeSuspension>>
history == <<lastAudit, progress, refrozen>>
vars == <<machine, applying, stage, history>>

Init ==
  /\ currentState \in InitialStatuses
  /\ stateBeforeSuspension = None
  /\ applying = None
  /\ stage = "idle"
  /\ lastAudit = None
  /\ progress = currentState
  /\ refrozen = FALSE

-----------------------------------------------------------------------------
(***************************************************************************)
(* apply()                                                                 *)
(***************************************************************************)

\* The events whose side effect also sends a notification.
NotifyingEvents ==
  {"docs.requested", "timer.48h", "callback.rcvd", "all.passed", "step.failed"}

\* Variant: the sentinel is passed on as if it were a status.
ResolveKeepingSentinel(row) == row.to

\* A row's target, with the sentinel resolved. None stands for the error that
\* resolvePreviousState() throws.
Resolve(row) ==
  IF row.to = PREVIOUS_STATE THEN stateBeforeSuspension ELSE row.to

\* Variant: the state is changed before the side effects have succeeded.
ApplyMutatingFirst(event, guardContext) ==
  /\ stage = "idle"
  /\ \E row \in Candidates(event, currentState) :
       /\ row.guard \in guardContext
       /\ Resolve(row) # None
       /\ applying' = [event |-> event, from |-> currentState, to |-> Resolve(row)]
       /\ currentState' = Resolve(row)
  /\ stage' = "audit"
  /\ UNCHANGED <<stateBeforeSuspension, history>>

\* apply(event, guardContext) up to its await: an unknown event, a guard that
\* does not hold and a suspension that was not recorded all throw here, and
\* leave the machine as it was.
Apply(event, guardContext) ==
  /\ stage = "idle"
  /\ \E row \in Candidates(event, currentState) :
       /\ row.guard \in guardContext
       /\ Resolve(row) # None
       /\ applying' = [event |-> event, from |-> currentState, to |-> Resolve(row)]
  /\ stage' = "audit"
  /\ UNCHANGED <<machine, history>>

\* The handler's recordEvent() succeeds.
RecordAuditEvent ==
  /\ stage = "audit"
  /\ lastAudit' = applying
  /\ stage' = IF applying.event \in NotifyingEvents THEN "notify" ELSE "commit"
  /\ UNCHANGED <<machine, applying, progress, refrozen>>

\* The handler's send() succeeds.
SendNotification ==
  /\ stage = "notify"
  /\ stage' = "commit"
  /\ UNCHANGED <<machine, applying, history>>

\* Variant: a failing side effect is logged and the transition goes on.
SideEffectErrorSwallowed ==
  /\ stage \in {"audit", "notify"}
  /\ stage' = "commit"
  /\ UNCHANGED <<machine, applying, history>>

\* recordEvent() or send() throws, and so does apply().
SideEffectFails ==
  /\ stage \in {"audit", "notify"}
  /\ stage' = "idle"
  /\ applying' = None
  /\ UNCHANGED <<machine, history>>

\* A freeze that is about to be committed by a machine that is frozen already.
FreezesAgain == applying.event = "compliance.freeze" /\ currentState = "SUSPENDED"

\* Variant: a lift leaves the remembered status behind.
CommitKeepingMemory ==
  /\ stage = "commit"
  /\ stateBeforeSuspension' =
       IF applying.event = "compliance.freeze" THEN currentState ELSE stateBeforeSuspension
  /\ currentState' = applying.to
  /\ progress' = IF applying.to = "SUSPENDED" THEN progress ELSE applying.to
  /\ refrozen' = (refrozen \/ FreezesAgain)
  /\ applying' = None
  /\ stage' = "idle"
  /\ UNCHANGED lastAudit

\* The rest of apply(), after the await: remember or forget the suspension,
\* then change the state.
Commit ==
  /\ stage = "commit"
  /\ stateBeforeSuspension' =
       CASE applying.event = "compliance.freeze" -> currentState
         [] applying.event = "compliance.lift"   -> None
         [] OTHER                                -> stateBeforeSuspension
  /\ currentState' = applying.to
  /\ progress' = IF applying.to = "SUSPENDED" THEN progress ELSE applying.to
  /\ refrozen' = (refrozen \/ FreezesAgain)
  /\ applying' = None
  /\ stage' = "idle"
  /\ UNCHANGED lastAudit

\* Guards read one field each, so contexts with at most one suffice.
GuardContexts == {{}} \cup {{g} : g \in GuardNames}

Next ==
  \/ \E event \in Events, guardContext \in GuardContexts : Apply(event, guardContext)
  \/ RecordAuditEvent
  \/ SendNotification
  \/ SideEffectFails
  \/ Commit

Spec == Init /\ [][Next]_vars

-----------------------------------------------------------------------------
(***************************************************************************)
(* Properties                                                              *)
(***************************************************************************)

\* Types of the fields of the machine, and what a pending apply() holds.
TypeOK ==
  /\ currentState \in Statuses
  /\ stateBeforeSuspension \in Statuses \cup {None}
  /\ stage \in {"idle", "audit", "notify", "commit"}
  /\ applying \in IF stage = "idle" THEN {None} ELSE Applied
  /\ lastAudit \in Applied \cup {None}
  /\ progress \in Statuses \ {"SUSPENDED"}
  /\ refrozen \in BOOLEAN

\* A machine that has been frozen once, in every suspension, remembers exactly the
\* status it was in before, so that a lift takes it back there, and one that is not
\* suspended remembers nothing. What a second freeze does is part of it: the status
\* is lost, nothing or SUSPENDED is remembered, and no lift leads out any more.
SuspensionMemory ==
  CASE currentState # "SUSPENDED" ->
         stateBeforeSuspension = None /\ progress = currentState /\ ~refrozen
    [] currentState = "SUSPENDED" /\ ~refrozen ->
         stateBeforeSuspension = progress
    [] currentState = "SUSPENDED" /\ refrozen ->
         stateBeforeSuspension \in {None, "SUSPENDED"}

\* The audit trail is never behind the machine and at most one transition
\* ahead of it: whatever failed, the newest StateTransition event either led
\* to the current state, or starts from it and was not followed by a commit.
AuditAtMostOneAhead ==
  lastAudit # None => currentState \in {lastAudit.from, lastAudit.to}

\* A change of state is the one the newest audit event announced: the state
\* is only changed after its audit event was written, and by nothing else.
ChangesAreAudited ==
  [][currentState' # currentState =>
       /\ lastAudit # None
       /\ lastAudit.from = currentState
       /\ lastAudit.to = currentState']_vars

\* The machine keeps the promise of the abstract life cycle: it advances only
\* along its edges, and a suspension is a hold after which verification goes
\* on from where it was.
Lifecycle == INSTANCE StatusLifecycle WITH
  progress <- progress, onHold <- currentState = "SUSPENDED"

KeepsLifecycle ==
  /\ Lifecycle!LifecycleInit(InitialStatuses)
  /\ [][Lifecycle!LifecycleNext]_<<progress, currentState = "SUSPENDED">>

\* What is true of a pending apply(): it started from the state the machine is
\* still in, along a row of the table, and once past the audit write it is the
\* newest audit event. This is what makes the properties above inductive.
PendingApply ==
  stage # "idle" =>
    /\ applying.from = currentState
    /\ \/ applying.event = "compliance.freeze" /\ applying.to = "SUSPENDED"
       \/ /\ applying.event = "compliance.lift"
          /\ currentState = "SUSPENDED"
          /\ applying.to = stateBeforeSuspension
       \/ /\ applying.event \notin {"compliance.freeze", "compliance.lift"}
          /\ currentState # "SUSPENDED"
          /\ applying.to # "SUSPENDED"
          /\ currentState = applying.to \/ <<currentState, applying.to>> \in Lifecycle!Edges
    /\ stage \in {"notify", "commit"} => lastAudit = applying

IInv == TypeOK /\ SuspensionMemory /\ AuditAtMostOneAhead /\ PendingApply

=============================================================================
