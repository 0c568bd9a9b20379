---------------------------- MODULE ComplianceDesk ----------------------------
(***************************************************************************)
(* What officers and the customer ask of one customer's data: recalculate  *)
(* the risk score, dispose of an AML match, erase the personal data. Each  *)
(* is a handler that runs alone between two awaits, and every await may be *)
(* where it fails or the process restarts. Erasure requests and their      *)
(* timers are kept in memory only. Dates are ticks of a calendar.          *)
(***************************************************************************)
EXTENDS RiskScoring, FiniteSetsExt

CONSTANTS
  Handlers,      \* HTTP requests that the server works on at a time
  ErasureIds,    \* identifiers of erasure requests
  Matches,       \* the customer's AML matches
  Applications,  \* how the customer's tier may have been selected
  FirstScores,   \* the scores that the customer may begin with
  Assessments,   \* factors that a score may be recalculated from
  Deltas,        \* sums of deltas that may be applied to it
  ReportedHolds, \* the sets of indefinite holds that a request may report
  EndDates,      \* when a request may say that the relationship ended
  Retention,     \* PMLA_RETENTION_YEARS
  LastDate,      \* bound on the calendar
  MaxCalls,      \* bound on the requests the server gets
  MaxRestarts,   \* bound on process restarts
  None           \* null

IndefiniteHolds == {"ACTIVE_LOAN", "INVESTIGATION", "LITIGATION"}

ASSUME ScoringAssumption ==
  FirstScores \subseteq Points /\ Assessments \subseteq Factors /\ Deltas \subseteq Int
ASSUME DatesAssumption ==
  EndDates \subseteq Nat /\ Retention \in Nat /\ LastDate \in Nat /\ None \notin Nat
ASSUME HoldsAssumption == ReportedHolds \subseteq SUBSET IndefiniteHolds
ASSUME BoundsAssumption == MaxCalls \in Nat /\ MaxRestarts \in Nat

VARIABLES
  customer,      \* customers: the customer's row
  trail,         \* audit_events: what was recorded, by the type of the event
  dispositions,  \* the disposition stored for each match
  erasures,      \* InMemoryDataErasureRepository.records
  timers,        \* the DATA_ERASURE_DUE timers (in memory)
  handler,       \* the local variables of each handler that is running
  today, calls, restarts,
  first,         \* history: the row the customer began with
  forgotten,     \* history: erasure requests that an earlier process had
  unaudited      \* history: matches of handlers stopped between saving and auditing

memory == <<erasures, timers>>
clock == <<today, restarts, forgotten>>
deskVars == <<customer, trail, dispositions, memory, handler, calls, clock, first, unaudited>>

CustomerRows == [score : Points, tier : Tiers, personalData : {"original", "anonymised"}]
Commands == [relationshipEnd : EndDates \cup {None}, reported : ReportedHolds]
Dispositions == {"CLEARED", "ESCALATED"}

DeskInit ==
  /\ \E score \in FirstScores, a \in Applications :
       customer = [score |-> score,
                   tier |-> IF ExceedsEddThreshold(score) THEN "EDD"
                            ELSE SelectTier(a.loan, a.isPep, a.isHighRiskJurisdiction),
                   personalData |-> "original"]
  /\ trail = [DataErasureRequested |-> {}, DataErasureExecuted |-> {},
              RiskScoreCalculated |-> {}, RiskTierUpgraded |-> {}, AmlAlertDisposed |-> {}]
  /\ dispositions = [m \in Matches |-> None]
  /\ erasures = [id \in ErasureIds |-> None]
  /\ timers = {}
  /\ handler = [h \in Handlers |-> None]
  /\ today = 0 /\ calls = 0 /\ restarts = 0
  /\ first = customer
  /\ forgotten = {} /\ unaudited = {}

-----------------------------------------------------------------------------
(***************************************************************************)
(* Legal holds                                                             *)
(***************************************************************************)

\* Variant: a retention that ends on this day is still active.
HoldsThroughExpiry(command, asOf) ==
  {[holdType |-> t, expiryDate |-> None] : t \in command.reported} \cup
  IF command.relationshipEnd # None /\ command.relationshipEnd + Retention >= asOf
  THEN {[holdType |-> "PMLA", expiryDate |-> command.relationshipEnd + Retention]}
  ELSE {}

\* LegalHoldEvaluator.evaluate(): a relationship that has not ended is no hold.
Holds(command, asOf) ==
  {[holdType |-> t, expiryDate |-> None] : t \in command.reported} \cup
  IF command.relationshipEnd # None /\ command.relationshipEnd + Retention > asOf
  THEN {[holdType |-> "PMLA", expiryDate |-> command.relationshipEnd + Retention]}
  ELSE {}

\* latestExpiry().
LatestExpiry(holds) ==
  LET dates == {hold.expiryDate : hold \in holds}
  IN IF dates = {} \/ None \in dates THEN None ELSE Max(dates)

\* categoriseDataForErasure(): what a request is told to have been anonymised.
RequiredCategories == {"KYC_DOCUMENTS", "VERIFICATION_RECORDS", "TRANSACTION_HISTORY",
                       "AML_SCREENING_RESULTS", "AUDIT_EVENTS", "CORE_IDENTITY_PII"}
AlwaysEligible == {"MARKETING_PREFERENCES", "COMMUNICATION_HISTORY", "BEHAVIOURAL_DATA",
                   "SUPPLEMENTARY_DOCUMENTS"}
EligibleForErasure(holds) ==
  AlwaysEligible \cup IF holds = {} THEN RequiredCategories ELSE {}

-----------------------------------------------------------------------------
(***************************************************************************)
(* Handlers                                                                *)
(***************************************************************************)

IsAt(h, place) == handler[h] # None /\ handler[h].at = place
Begin(h, call) ==
  /\ handler[h] = None
  /\ calls < MaxCalls
  /\ calls' = calls + 1
  /\ handler' = [handler EXCEPT ![h] = call]
Go(h, place) == handler' = [handler EXCEPT ![h].at = place]
End(h) == handler' = [handler EXCEPT ![h] = None]

Record(type, payload) == trail' = [trail EXCEPT ![type] = @ \cup {payload}]

\* RecalculateRiskScoreUseCase: the row is read, and the new score in it.
RecalculateRiskScore(h, newScore) ==
  /\ Begin(h, [kind |-> "risk", at |-> "auditScore", previous |-> customer.score,
               row |-> [customer EXCEPT !.score = newScore]])
  /\ UNCHANGED <<customer, trail, dispositions, memory, clock, first, unaudited>>

\* RequestDataErasureUseCase: the row is read, a fresh identifier made.
RequestDataErasure(h, id, command) ==
  /\ erasures[id] = None /\ id \notin forgotten \cup trail.DataErasureRequested
  /\ \A g \in Handlers : handler[g] # None /\ handler[g].kind = "erase" => handler[g].id # id
  /\ Begin(h, [kind |-> "erase", at |-> "auditRequest", id |-> id, command |-> command,
               requestDate |-> today, row |-> customer])
  /\ UNCHANGED <<customer, trail, dispositions, memory, clock, first, unaudited>>

\* DisposeAmlAlertUseCase: the match is found; that it has been disposed of
\* already does not matter.
DisposeAmlAlert(h, m, disposition) ==
  /\ Begin(h, [kind |-> "dispose", at |-> "saveDisposition", match |-> m,
               disposition |-> disposition])
  /\ UNCHANGED <<customer, trail, dispositions, memory, clock, first, unaudited>>

\* Variant: an upgrade is saved without its event.
AuditScoreOnly(h) ==
  /\ IsAt(h, "auditScore")
  /\ Record("RiskScoreCalculated",
            [previous |-> handler[h].previous, new |-> handler[h].row.score])
  /\ handler' = [handler EXCEPT ![h].at = "saveCustomer",
       ![h].row.tier = IF ExceedsEddThreshold(handler[h].row.score) THEN "EDD" ELSE @]
  /\ UNCHANGED <<customer, dispositions, memory, calls, clock, first, unaudited>>

\* The score is announced, and decides on an upgrade.
AuditScore(h) ==
  /\ IsAt(h, "auditScore")
  /\ Record("RiskScoreCalculated",
            [previous |-> handler[h].previous, new |-> handler[h].row.score])
  /\ IF ExceedsEddThreshold(handler[h].row.score) /\ handler[h].row.tier # "EDD"
     THEN Go(h, "auditUpgrade") ELSE Go(h, "saveCustomer")
  /\ UNCHANGED <<customer, dispositions, memory, calls, clock, first, unaudited>>

\* upgradeTier(), announced before it is saved.
AuditUpgrade(h) ==
  /\ IsAt(h, "auditUpgrade")
  /\ Record("RiskTierUpgraded", handler[h].row.tier)
  /\ handler' = [handler EXCEPT ![h].row.tier = "EDD", ![h].at = "saveCustomer"]
  /\ UNCHANGED <<customer, dispositions, memory, calls, clock, first, unaudited>>

\* PrismaCustomerRepository.save() of a row that exists: the columns with the
\* name and the date of birth are not among those that are updated.
SaveCustomer(h) ==
  /\ IsAt(h, "saveCustomer")
  /\ customer' = [handler[h].row EXCEPT !.personalData = customer.personalData]
  /\ IF handler[h].kind = "erase" THEN Go(h, "saveErasure") ELSE End(h)
  /\ UNCHANGED <<trail, dispositions, memory, calls, clock, first, unaudited>>

\* Variant: nothing is scheduled.
AuditRequestOnly(h) ==
  /\ IsAt(h, "auditRequest")
  /\ Record("DataErasureRequested", handler[h].id)
  /\ Go(h, "saveErasure")
  /\ UNCHANGED <<customer, dispositions, memory, calls, clock, first, unaudited>>

\* The request is announced and the holds evaluated, on the day it was made.
AuditRequest(h) ==
  LET holds == Holds(handler[h].command, handler[h].requestDate)
  IN /\ IsAt(h, "auditRequest")
     /\ Record("DataErasureRequested", handler[h].id)
     /\ IF holds = {}
        THEN handler' = [handler EXCEPT ![h].at = "saveCustomer",
                                        ![h].row.personalData = "anonymised"]
        ELSE Go(h, IF LatestExpiry(holds) = None THEN "saveErasure" ELSE "schedule")
     /\ UNCHANGED <<customer, dispositions, memory, calls, clock, first, unaudited>>

\* scheduleCustomDurationTimer() insists on a positive duration.
ScheduleErasure(h) ==
  LET fireAt == LatestExpiry(Holds(handler[h].command, handler[h].requestDate))
  IN /\ IsAt(h, "schedule")
     /\ fireAt > handler[h].requestDate
     /\ timers' = timers \cup {[id |-> handler[h].id, fireAt |-> fireAt]}
     /\ Go(h, "saveErasure")
     /\ UNCHANGED <<customer, trail, dispositions, erasures, calls, clock, first, unaudited>>

\* The outcome, as the erasure request and the audit event have it.
Outcome(call) ==
  LET holds == Holds(call.command, call.requestDate)
  IN [status |-> IF holds = {} THEN "COMPLETED" ELSE "PARTIALLY_EXECUTED",
      anonymised |-> EligibleForErasure(holds), scheduled |-> LatestExpiry(holds)]

SaveErasure(h) ==
  /\ IsAt(h, "saveErasure")
  /\ erasures' = [erasures EXCEPT ![handler[h].id] =
       [command |-> handler[h].command, requestDate |-> handler[h].requestDate,
        outcome |-> Outcome(handler[h])]]
  /\ Go(h, "auditExecution")
  /\ UNCHANGED <<customer, trail, dispositions, timers, calls, clock, first, unaudited>>

AuditExecution(h) ==
  /\ IsAt(h, "auditExecution")
  /\ Record("DataErasureExecuted", [id |-> handler[h].id, outcome |-> Outcome(handler[h])])
  /\ End(h)
  /\ UNCHANGED <<customer, dispositions, memory, calls, clock, first, unaudited>>

SaveDisposition(h) ==
  /\ IsAt(h, "saveDisposition")
  /\ dispositions' = [dispositions EXCEPT ![handler[h].match] = handler[h].disposition]
  /\ Go(h, "auditDisposition")
  /\ UNCHANGED <<customer, trail, memory, calls, clock, first, unaudited>>

\* Variant: a match has one event.
AuditDispositionOnce(h) ==
  /\ IsAt(h, "auditDisposition")
  /\ IF \E e \in trail.AmlAlertDisposed : e.match = handler[h].match
     THEN UNCHANGED trail
     ELSE Record("AmlAlertDisposed",
                 [match |-> handler[h].match, disposition |-> handler[h].disposition])
  /\ End(h)
  /\ UNCHANGED <<customer, dispositions, memory, calls, clock, first, unaudited>>

AuditDisposition(h) ==
  /\ IsAt(h, "auditDisposition")
  /\ Record("AmlAlertDisposed",
            [match |-> handler[h].match, disposition |-> handler[h].disposition])
  /\ End(h)
  /\ UNCHANGED <<customer, dispositions, memory, calls, clock, first, unaudited>>

\* What a handler awaits is rejected, and with it the call.
Stopped(hs) ==
  unaudited' = unaudited \cup {handler[h].match : h \in {g \in hs : IsAt(g, "auditDisposition")}}

HandlerFails(h) ==
  /\ handler[h] # None
  /\ End(h)
  /\ Stopped({h})
  /\ UNCHANGED <<customer, trail, dispositions, memory, calls, clock, first>>

Restart ==
  /\ restarts < MaxRestarts
  /\ restarts' = restarts + 1
  /\ handler' = [h \in Handlers |-> None]
  /\ erasures' = [id \in ErasureIds |-> None]
  /\ timers' = {}
  /\ forgotten' = forgotten \cup {id \in ErasureIds : erasures[id] # None}
  /\ Stopped(Handlers)
  /\ UNCHANGED <<customer, trail, dispositions, today, calls, first>>

NextDay ==
  /\ today < LastDate
  /\ today' = today + 1
  /\ UNCHANGED <<customer, trail, dispositions, memory, handler, calls, restarts,
                 forgotten, first, unaudited>>

DeskNext ==
  \/ \E h \in Handlers :
       \/ \E f \in Assessments : \E s \in WeightedScores(f) : RecalculateRiskScore(h, s)
       \/ \E points \in Deltas : RecalculateRiskScore(h, AfterDeltas(customer.score, points))
       \/ \E id \in ErasureIds, command \in Commands : RequestDataErasure(h, id, command)
       \/ \E m \in Matches, d \in Dispositions : DisposeAmlAlert(h, m, d)
       \/ AuditScore(h) \/ AuditUpgrade(h) \/ SaveCustomer(h)
       \/ AuditRequest(h) \/ ScheduleErasure(h) \/ SaveErasure(h) \/ AuditExecution(h)
       \/ SaveDisposition(h) \/ AuditDisposition(h)
       \/ HandlerFails(h)
  \/ Restart
  \/ NextDay

DeskSpec == DeskInit /\ [][DeskNext]_deskVars

-----------------------------------------------------------------------------
(***************************************************************************)
(* Properties                                                              *)
(***************************************************************************)

Outcomes ==
  [status : {"COMPLETED", "PARTIALLY_EXECUTED"},
   anonymised : SUBSET (RequiredCategories \cup AlwaysEligible), scheduled : Nat \cup {None}]
ErasureRecords == [command : Commands, requestDate : Nat, outcome : Outcomes]

\* What a handler holds of the call that it is working on.
RiskCalls ==
  [kind : {"risk"}, at : {"auditScore", "auditUpgrade", "saveCustomer"},
   previous : Points, row : CustomerRows]
EraseCalls ==
  [kind : {"erase"},
   at : {"auditRequest", "schedule", "saveCustomer", "saveErasure", "auditExecution"},
   id : ErasureIds, command : Commands, requestDate : Nat, row : CustomerRows]
DisposeCalls ==
  [kind : {"dispose"}, at : {"saveDisposition", "auditDisposition"},
   match : Matches, disposition : Dispositions]

AllCalls == RiskCalls \cup EraseCalls \cup DisposeCalls

\* null is none of these objects.
ASSUME NullAssumption == None \notin ErasureRecords \cup AllCalls

\* Types of the rows, the trail, the memory and the calls that are under way.
DeskTypeOK ==
  /\ customer \in CustomerRows /\ first \in CustomerRows
  /\ trail.DataErasureRequested \subseteq ErasureIds
  /\ trail.DataErasureExecuted \subseteq [id : ErasureIds, outcome : Outcomes]
  /\ trail.RiskScoreCalculated \subseteq [previous : Points, new : Points]
  /\ trail.RiskTierUpgraded \subseteq Tiers \ {"EDD"}
  /\ trail.AmlAlertDisposed \subseteq [match : Matches, disposition : Dispositions]
  /\ dispositions \in [Matches -> Dispositions \cup {None}]
  /\ erasures \in [ErasureIds -> ErasureRecords \cup {None}]
  /\ timers \subseteq [id : ErasureIds, fireAt : Nat]
  /\ handler \in [Handlers -> AllCalls \cup {None}]
  /\ today \in 0..LastDate /\ calls \in 0..MaxCalls /\ restarts \in 0..MaxRestarts
  /\ forgotten \subseteq ErasureIds /\ unaudited \subseteq Matches

\* An erasure that could not be completed is scheduled for exactly the day on
\* which what it was refused for has ended: evaluated again on that day, the
\* request meets no hold, and on every day before it does. It has no date
\* if no day ends its holds.
ScheduleMeetsRelease ==
  \A id \in ErasureIds :
    erasures[id] # None /\ erasures[id].outcome.status = "PARTIALLY_EXECUTED" =>
      LET e == erasures[id]
          Held(day) == Holds(e.command, day) # {}
      IN IF e.outcome.scheduled = None
         THEN e.command.reported # {}
         ELSE /\ ~Held(e.outcome.scheduled)
              /\ \A day \in e.requestDate..(e.outcome.scheduled - 1) : Held(day)

\* Wherever a handler fails, the trail, the erasure requests and the timers agree:
\* an executed erasure is recorded with the same outcome, a recorded one
\* was announced, and one that is scheduled has its timer. A restart
\* takes the requests and the timers of an earlier process.
ErasureIsRecorded ==
  \A id \in ErasureIds \ forgotten :
    /\ \A e \in trail.DataErasureExecuted :
         e.id = id => erasures[id] # None /\ erasures[id].outcome = e.outcome
    /\ erasures[id] # None =>
         /\ id \in trail.DataErasureRequested
         /\ erasures[id].outcome.scheduled # None =>
              [id |-> id, fireAt |-> erasures[id].outcome.scheduled] \in timers

\* The row's risk is explained by the trail, however recalculations and
\* erasures overlap and whichever of them fails: its score is reached from
\* the first one by announced changes, a score above the threshold is under EDD,
\* and a tier that was raised was announced.
KnownScores == {first.score} \cup {e.new : e \in trail.RiskScoreCalculated}

Explained(score) ==
  \A S \in SUBSET KnownScores :
    /\ first.score \in S
    /\ \A e \in trail.RiskScoreCalculated : e.previous \in S => e.new \in S
    => score \in S

RiskIsExplained ==
  /\ Explained(customer.score)
  /\ ExceedsEddThreshold(customer.score) => customer.tier = "EDD"
  /\ customer.tier # first.tier => trail.RiskTierUpgraded # {}

\* A stored disposition is in the trail, or a handler is about to record it, even
\* if officers disagree about a match at the same time. Only a handler that
\* stops in between leaves one that is not.
DispositionIsTraceable ==
  \A m \in Matches \ unaudited :
    dispositions[m] # None =>
      \/ [match |-> m, disposition |-> dispositions[m]] \in trail.AmlAlertDisposed
      \/ \E h \in Handlers : IsAt(h, "auditDisposition") /\ handler[h].match = m
                             /\ handler[h].disposition = dispositions[m]

\* Checked to be violated: when an erasure is reported to have anonymised the
\* customer's core identity, the row's name and date of birth are.
AnonymisedAsReported ==
  \A id \in ErasureIds :
    erasures[id] # None /\ "CORE_IDENTITY_PII" \in erasures[id].outcome.anonymised =>
      customer.personalData = "anonymised"

=============================================================================
