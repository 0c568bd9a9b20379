----------------------------- MODULE TimerService -----------------------------
(***************************************************************************)
(* TimerService over its repository: timers are scheduled, cancelled and,  *)
(* by polls that an outside scheduler starts on an interval, fired. Polls  *)
(* and cancellations read a list of timers and then work through it, with  *)
(* an await per timer; several of them may be under way at a time.         *)
(***************************************************************************)
EXTENDS Integers, Sequences, FiniteSets

CONSTANTS
  Owners,      \* pairs of a customer and a timer type, as cancellations name them
  Durations,   \* the durations that callers ask for, in clock ticks
  Pollers,     \* calls of pollAndFireDue() that may be under way at a time
  MaxTimers,   \* bound on the timers ever scheduled
  MaxTime,     \* bound on the clock
  MaxFailures  \* bound on the polls that end with an error

ASSUME TimerAssumption ==
  /\ Durations \subseteq Int
  /\ MaxTimers \in Nat /\ MaxTime \in Nat /\ MaxFailures \in Nat

VARIABLES
  table,      \* the repository, in the order of insertion
  poll,       \* per poller: where it is, and the timers it has still to fire
  cancelling, \* the timers that cancelAllForCustomer() has still to cancel
  now,        \* the clock
  failures,   \* polls that ended with an error so far
  resolved,   \* history: how often each timer's handler has resolved
  disturbed   \* history: have polls overlapped, or stopped before markFired()?

timerVars == <<table, poll, cancelling, now, failures, resolved, disturbed>>

Timer == [owner : Owners, fireAt : Int, fired : BOOLEAN, cancelled : BOOLEAN]
IdlePoll == [at |-> "idle", due |-> {}]

TimerInit ==
  /\ table = <<>>
  /\ poll = [p \in Pollers |-> IdlePoll]
  /\ cancelling = {}
  /\ now = 0
  /\ failures = 0
  /\ resolved = <<>>
  /\ disturbed = FALSE

Active(i) == ~table[i].fired /\ ~table[i].cancelled

\* Variant: a timer that was cancelled is found as well.
FindDueThoughCancelled == {i \in DOMAIN table : ~table[i].fired /\ table[i].fireAt <= now}

\* Variant: a timer is found only in the very tick it is due.
FindDueExactly == {i \in DOMAIN table : Active(i) /\ table[i].fireAt = now}

\* Variant: a timer is found a tick early.
FindDueEarly == {i \in DOMAIN table : Active(i) /\ table[i].fireAt <= now + 1}

\* findDue(): the timers to fire. They are listed in the order of insertion,
\* which is that of their numbers.
FindDue == {i \in DOMAIN table : Active(i) /\ table[i].fireAt <= now}

\* The timer that a loop over a list has come to.
FirstOf(timers) == {i \in timers : \A j \in timers : i <= j}

\* scheduleFixedTimer() and scheduleCustomDurationTimer(): only a positive
\* duration is accepted.
Schedule(owner, duration) ==
  /\ duration > 0
  /\ Len(table) < MaxTimers
  /\ table' = Append(table, [owner |-> owner, fireAt |-> now + duration,
                             fired |-> FALSE, cancelled |-> FALSE])
  /\ resolved' = Append(resolved, 0)
  /\ UNCHANGED <<poll, cancelling, now, failures, disturbed>>

\* cancelTimer(): the repository marks the timer, whatever became of it.
CancelTimer(i) ==
  /\ table' = [table EXCEPT ![i].cancelled = TRUE]
  /\ UNCHANGED <<poll, cancelling, now, failures, resolved, disturbed>>

\* cancelAllForCustomer() up to its first await: which timers are active.
FindToCancel(owner) ==
  /\ cancelling = {}
  /\ cancelling' = {i \in DOMAIN table : table[i].owner = owner /\ Active(i)}
  /\ UNCHANGED <<table, poll, now, failures, resolved, disturbed>>

\* Its loop: the first of them is marked, even if it has fired by now.
CancelNext ==
  \E i \in FirstOf(cancelling) :
    /\ table' = [table EXCEPT ![i].cancelled = TRUE]
    /\ cancelling' = cancelling \ {i}
    /\ UNCHANGED <<poll, now, failures, resolved, disturbed>>

Tick ==
  /\ now < MaxTime
  /\ now' = now + 1
  /\ UNCHANGED <<table, poll, cancelling, failures, resolved, disturbed>>

-----------------------------------------------------------------------------
(***************************************************************************)
(* pollAndFireDue()                                                        *)
(***************************************************************************)

\* findDue() answers, and the loop calls the first timer's handler.
StartPoll(p) ==
  /\ poll[p].at = "idle"
  /\ FindDue # {}
  /\ poll' = [poll EXCEPT ![p] = [at |-> "handling", due |-> FindDue]]
  /\ disturbed' = (disturbed \/ \E q \in Pollers : poll[q].at # "idle")
  /\ UNCHANGED <<table, cancelling, now, failures, resolved>>

\* The handler resolves.
HandlerResolves(p) ==
  /\ poll[p].at = "handling"
  /\ poll' = [poll EXCEPT ![p].at = "marking"]
  /\ \E i \in FirstOf(poll[p].due) :
       resolved' = [resolved EXCEPT ![i] = IF @ < 2 THEN @ + 1 ELSE @]
  /\ UNCHANGED <<table, cancelling, now, failures, disturbed>>

\* Variant: the error of a handler is swallowed, and its timer marked.
PollFailsMarking(p) ==
  /\ poll[p].at # "idle"
  /\ failures < MaxFailures
  /\ failures' = failures + 1
  /\ poll' = [poll EXCEPT ![p].at = "marking"]
  /\ UNCHANGED <<table, cancelling, now, resolved, disturbed>>

\* The handler throws, or markFired() does: the poll ends with that error, and
\* the rest of its timers wait for another poll.
PollFails(p) ==
  /\ poll[p].at # "idle"
  /\ failures < MaxFailures
  /\ failures' = failures + 1
  /\ disturbed' = (disturbed \/ poll[p].at = "marking")
  /\ poll' = [poll EXCEPT ![p] = IdlePoll]
  /\ UNCHANGED <<table, cancelling, now, resolved>>

\* The loop goes on to the timer after i, or ends.
GoOn(p, i) ==
  LET rest == poll[p].due \ {i}
  IN poll' = [poll EXCEPT ![p] = IF rest = {} THEN IdlePoll
                                 ELSE [at |-> "handling", due |-> rest]]

\* Variant: the timer is reported as fired without being marked.
MarkFiredNot(p) ==
  /\ poll[p].at = "marking"
  /\ \E i \in FirstOf(poll[p].due) : GoOn(p, i)
  /\ UNCHANGED <<table, cancelling, now, failures, resolved, disturbed>>

\* markFired() answers.
MarkFired(p) ==
  /\ poll[p].at = "marking"
  /\ \E i \in FirstOf(poll[p].due) :
       /\ table' = [table EXCEPT ![i].fired = TRUE]
       /\ GoOn(p, i)
  /\ UNCHANGED <<cancelling, now, failures, resolved, disturbed>>

TimerNext ==
  \/ \E owner \in Owners : FindToCancel(owner) \/ \E d \in Durations : Schedule(owner, d)
  \/ \E i \in DOMAIN table : CancelTimer(i)
  \/ CancelNext
  \/ \E p \in Pollers : StartPoll(p) \/ HandlerResolves(p) \/ PollFails(p) \/ MarkFired(p)
  \/ Tick

TimerSpec == TimerInit /\ [][TimerNext]_timerVars

\* The outside scheduler polls again and again, and a handler or a repository
\* that is called answers.
Scheduled ==
  \A p \in Pollers :
    /\ WF_timerVars(StartPoll(p))
    /\ WF_timerVars(HandlerResolves(p))
    /\ WF_timerVars(MarkFired(p))

FairTimerSpec == TimerSpec /\ Scheduled

-----------------------------------------------------------------------------
(***************************************************************************)
(* Properties                                                              *)
(***************************************************************************)

\* Types; a poll that is under way has a timer at hand, and it was due.
TimerTypeOK ==
  /\ table \in Seq(Timer)
  /\ \A p \in Pollers :
       /\ poll[p].at \in {"idle", "handling", "marking"}
       /\ (poll[p].at = "idle") = (poll[p].due = {})
       /\ \A i \in poll[p].due : i \in DOMAIN table /\ table[i].fireAt <= now
  /\ cancelling \subseteq DOMAIN table
  /\ now \in 0..MaxTime /\ failures \in 0..MaxFailures
  /\ DOMAIN resolved = DOMAIN table /\ \A i \in DOMAIN table : resolved[i] \in 0..2
  /\ disturbed \in BOOLEAN

\* A timer is marked as fired only after its handler resolved, whichever polls
\* failed half-way: an expiry is retried rather than dropped.
FiredWasHandled == \A i \in DOMAIN table : table[i].fired => resolved[i] > 0

\* Polls that do not overlap, and whose markFired() answers, never hand a timer
\* to its handler again after the handler resolved.
HandledOnce == ~disturbed => \A i \in DOMAIN table : resolved[i] <= 1

\* A poll hands out no timer that was cancelled when the poll began: what is
\* due and cancelled stays quiet unless a poll had already read it.
CancelledStaysQuiet ==
  [][\A p \in Pollers : poll[p].at = "idle" =>
       \A i \in poll'[p].due : ~table[i].cancelled]_timerVars

\* Every timer that is due is fired or cancelled at last, although polls fail
\* and leave the timers behind the failing one alone.
DueIsFired ==
  \A i \in 1..MaxTimers :
    (i \in DOMAIN table /\ table[i].fireAt <= now) ~>
      (i \in DOMAIN table /\ (table[i].fired \/ table[i].cancelled))

=============================================================================
