---------------------------- MODULE CircuitBreaker ----------------------------
(***************************************************************************)
(* One CircuitBreaker, shared by the concurrent calls to a vendor. A call  *)
(* runs alone up to `await fn()' and again after it; what it saw before    *)
(* the await it still believes after it.                                   *)
(***************************************************************************)
EXTENDS Integers, Sequences, FiniteSets

CONSTANTS
  Calls,                    \* callers, each with at most one call in flight
  FailureThresholdPercent,
  RollingWindow,            \* the windows and the timeout are in clock ticks
  MinimumRequestsInWindow,
  OpenStateTimeout,
  MaxTime,                  \* bound on the clock
  MaxExecutions,            \* bound on the calls that are let through
  Never                     \* null

ASSUME ConfigAssumption ==
  /\ FailureThresholdPercent \in 1..100
  /\ RollingWindow \in Nat /\ MinimumRequestsInWindow \in Nat \ {0}
  /\ OpenStateTimeout \in Nat /\ MaxTime \in Nat /\ MaxExecutions \in Nat
  /\ Never \notin Nat

VARIABLES
  state, outcomes, openedAt, halfOpenProbeInFlight,
  inFlight,    \* per caller: "none", or the state its call was let through in
  now,         \* the clock
  executions   \* calls let through so far

breaker == <<state, outcomes, openedAt, halfOpenProbeInFlight>>
breakerVars == <<breaker, inFlight, now, executions>>

States == {"CLOSED", "OPEN", "HALF_OPEN"}

BreakerInit ==
  /\ state = "CLOSED"
  /\ outcomes = <<>>
  /\ openedAt = Never
  /\ halfOpenProbeInFlight = FALSE
  /\ inFlight = [c \in Calls |-> "none"]
  /\ now = 0
  /\ executions = 0

\* maybeTransitionToHalfOpen(): the state that getState() returns.
CurrentState ==
  IF state = "OPEN" /\ openedAt # Never /\ now - openedAt >= OpenStateTimeout
  THEN "HALF_OPEN" ELSE state

\* transitionTo(), with the outcomes to keep if it is not to CLOSED: a
\* transition to the state it is in does nothing.
TransitionTo(to, kept) ==
  /\ state' = to
  /\ openedAt' = IF to = state THEN openedAt
                 ELSE IF to = "OPEN" THEN now
                 ELSE IF to = "CLOSED" THEN Never ELSE openedAt
  /\ outcomes' = IF to = "CLOSED" /\ state # "CLOSED" THEN <<>> ELSE kept

\* pruneOldOutcomes(): kept[i] is what is left of the first i outcomes.
StillIn(window, cutoff) ==
  LET kept[i \in 0..Len(window)] ==
        IF i = 0 THEN <<>>
        ELSE IF window[i].timestamp >= cutoff THEN Append(kept[i - 1], window[i])
        ELSE kept[i - 1]
  IN kept[Len(window)]

\* recordOutcome(): the new outcome, and the older ones still in the window.
Recorded(succeeded) ==
  StillIn(Append(outcomes, [timestamp |-> now, succeeded |-> succeeded]), now - RollingWindow)

\* evaluateThreshold(), on a window of outcomes.
Tripped(window) ==
  LET failures == {i \in DOMAIN window : ~window[i].succeeded}
  IN /\ Len(window) >= MinimumRequestsInWindow
     /\ Cardinality(failures) * 100 >= FailureThresholdPercent * Len(window)

-----------------------------------------------------------------------------
\* getState(), as the adapters' health checks call it.
ObserveState ==
  /\ TransitionTo(CurrentState, outcomes)
  /\ UNCHANGED <<halfOpenProbeInFlight, inFlight, now, executions>>

\* Variant: only a half-open circuit refuses calls.
ExecuteWhenOpen(c) ==
  /\ inFlight[c] = "none"
  /\ executions < MaxExecutions
  /\ CurrentState = "HALF_OPEN" => ~halfOpenProbeInFlight
  /\ TransitionTo(CurrentState, outcomes)
  /\ inFlight' = [inFlight EXCEPT ![c] = CurrentState]
  /\ halfOpenProbeInFlight' = (CurrentState = "HALF_OPEN" \/ halfOpenProbeInFlight)
  /\ executions' = executions + 1
  /\ UNCHANGED now

\* execute(fn) up to its await: an open circuit, and a probe in flight, refuse
\* the call, but even then getState() may have moved the state.
Execute(c) ==
  /\ inFlight[c] = "none"
  /\ TransitionTo(CurrentState, outcomes)
  /\ \/ /\ CurrentState = "CLOSED" \/ (CurrentState = "HALF_OPEN" /\ ~halfOpenProbeInFlight)
        /\ executions < MaxExecutions
        /\ inFlight' = [inFlight EXCEPT ![c] = CurrentState]
        /\ halfOpenProbeInFlight' = (CurrentState = "HALF_OPEN" \/ halfOpenProbeInFlight)
        /\ executions' = executions + 1
     \/ /\ CurrentState = "OPEN" \/ (CurrentState = "HALF_OPEN" /\ halfOpenProbeInFlight)
        /\ UNCHANGED <<halfOpenProbeInFlight, inFlight, executions>>
  /\ UNCHANGED now

\* fn() resolves: a call that was let through as a probe closes the circuit.
Succeed(c) ==
  /\ inFlight[c] # "none"
  /\ IF inFlight[c] = "HALF_OPEN"
     THEN TransitionTo("CLOSED", Recorded(TRUE))
     ELSE TransitionTo(state, Recorded(TRUE))
  /\ halfOpenProbeInFlight' = FALSE
  /\ inFlight' = [inFlight EXCEPT ![c] = "none"]
  /\ UNCHANGED <<now, executions>>

\* Variant: the probe's failure leaves the flag set.
FailKeepingFlag(c) ==
  /\ inFlight[c] # "none"
  /\ IF inFlight[c] = "HALF_OPEN" \/ Tripped(Recorded(FALSE))
     THEN TransitionTo("OPEN", Recorded(FALSE))
     ELSE TransitionTo(state, Recorded(FALSE))
  /\ inFlight' = [inFlight EXCEPT ![c] = "none"]
  /\ UNCHANGED <<halfOpenProbeInFlight, now, executions>>

\* Variant: a failure counts from the next evaluation on only.
FailEvaluatingFirst(c) ==
  /\ inFlight[c] # "none"
  /\ IF inFlight[c] = "HALF_OPEN" \/ Tripped(outcomes)
     THEN TransitionTo("OPEN", Recorded(FALSE))
     ELSE TransitionTo(state, Recorded(FALSE))
  /\ halfOpenProbeInFlight' = FALSE
  /\ inFlight' = [inFlight EXCEPT ![c] = "none"]
  /\ UNCHANGED <<now, executions>>

\* fn() rejects: a probe reopens the circuit, another call opens it when the
\* failure rate says so, whatever the state has become by now.
Fail(c) ==
  /\ inFlight[c] # "none"
  /\ IF inFlight[c] = "HALF_OPEN" \/ Tripped(Recorded(FALSE))
     THEN TransitionTo("OPEN", Recorded(FALSE))
     ELSE TransitionTo(state, Recorded(FALSE))
  /\ halfOpenProbeInFlight' = FALSE
  /\ inFlight' = [inFlight EXCEPT ![c] = "none"]
  /\ UNCHANGED <<now, executions>>

Tick ==
  /\ now < MaxTime
  /\ now' = now + 1
  /\ UNCHANGED <<breaker, inFlight, executions>>

BreakerNext ==
  \/ ObserveState
  \/ \E c \in Calls : Execute(c) \/ Succeed(c) \/ Fail(c)
  \/ Tick

BreakerSpec == BreakerInit /\ [][BreakerNext]_breakerVars

-----------------------------------------------------------------------------
(***************************************************************************)
(* Properties                                                              *)
(***************************************************************************)

Outcomes == [timestamp : 0..MaxTime, succeeded : BOOLEAN]

\* Types of the breaker's fields.
BreakerTypeOK ==
  /\ state \in States
  /\ outcomes \in Seq(Outcomes)
  /\ openedAt \in Nat \cup {Never}
  /\ halfOpenProbeInFlight \in BOOLEAN
  /\ inFlight \in [Calls -> {"none", "CLOSED", "HALF_OPEN"}]
  /\ now \in 0..MaxTime
  /\ executions \in 0..MaxExecutions

\* The circuit is never stuck. Whenever it is not closed it knows when it was
\* opened, so that the timeout can end; and whenever it holds calls back for a
\* probe there is a probe whose end will release them. Calls that were let
\* through before the circuit opened, and end later, do not change that.
NeverStuck ==
  /\ state # "CLOSED" => openedAt # Never
  /\ halfOpenProbeInFlight => \E c \in Calls : inFlight[c] = "HALF_OPEN"

\* While the circuit is closed and the newest outcome is a failure, the failures
\* in the window are too few for it to be open: no interleaving of late
\* answers leaves a closed circuit in front of a failing vendor.
ClosedIsBelowThreshold ==
  /\ state = "CLOSED"
  /\ outcomes # <<>>
  /\ ~outcomes[Len(outcomes)].succeeded
  => ~Tripped(outcomes)

=============================================================================
