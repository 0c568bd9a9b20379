------------------------- MODULE ComplianceDeskProofs -------------------------
(***************************************************************************)
(* Proofs about RiskScoring and ComplianceDesk, for every set of factors,  *)
(* deltas, holds and dates, and any number of handlers and restarts.       *)
(***************************************************************************)
EXTENDS ComplianceDesk, TLAPS

-----------------------------------------------------------------------------
(***************************************************************************)
(* Scores                                                                  *)
(***************************************************************************)

\* Weighted totals, in hundredths of a point.
Totals == {total \in Nat : total <= 10000}

LEMMA SumInRange ==
  ASSUME NEW a \in Int, NEW b \in Int, NEW c \in Int, NEW d \in Int, NEW e \in Int,
         0 <= a, 0 <= b, 0 <= c, 0 <= d, 0 <= e,
         a <= 100, b <= 100, c <= 100, d <= 100, e <= 100
  PROVE  /\ 20 * a + 25 * b + 20 * c + 15 * d + 20 * e \in Int
         /\ 0 <= 20 * a + 25 * b + 20 * c + 15 * d + 20 * e
         /\ 20 * a + 25 * b + 20 * c + 15 * d + 20 * e <= 10000
  OBVIOUS

LEMMA TotalInRange ==
  ASSUME NEW f \in Factors
  PROVE  WeightedTotal(f) \in Totals
  <1> DEFINE a == f.productType
             b == f.transactionAnomaly
             c == f.jurisdictionalRisk
             d == f.pepStatus
             e == f.amlResults
             sum == 20 * a + 25 * b + 20 * c + 15 * d + 20 * e
  <1>1. a \in 0..100 /\ b \in 0..100 /\ c \in 0..100 /\ d \in 0..100 /\ e \in 0..100
    BY DEF Factors, Points, MaxPoints
  <1>2. WeightedTotal(f) = sum
    BY DEF WeightedTotal
  <1> HIDE DEF a, b, c, d, e
  <1>3. /\ a \in Int /\ b \in Int /\ c \in Int /\ d \in Int /\ e \in Int
        /\ 0 <= a /\ 0 <= b /\ 0 <= c /\ 0 <= d /\ 0 <= e
        /\ a <= 100 /\ b <= 100 /\ c <= 100 /\ d <= 100 /\ e <= 100
    BY <1>1
  <1>4. sum \in Int /\ 0 <= sum /\ sum <= 10000
    BY <1>3, SumInRange
  <1> HIDE DEF sum
  <1>5. sum \in Totals
    BY <1>4 DEF Totals
  <1> QED
    BY <1>2, <1>5

LEMMA RoundedInRange ==
  ASSUME NEW total \in Totals
  PROVE  RoundedScores(total) \subseteq Points
  <1> DEFINE whole == total \div 100
             over == (total + 50) \div 100
  <1>1. /\ total \in Nat /\ total <= 10000
        /\ whole \in Int /\ 100 * whole <= total /\ total - 100 * whole = total % 100
        /\ over \in Int /\ 100 * over <= total + 50 /\ total + 50 < 100 * over + 100
    BY DEF Totals
  <1>2. over \in 0..100
    <2> HIDE DEF over
    <2> QED
      BY <1>1
  <1>3. ASSUME total % 100 = 50
        PROVE  whole \in 0..99
    <2>1. total - 100 * whole = 50
      BY <1>1, <1>3
    <2> HIDE DEF whole
    <2> QED
      BY <1>1, <2>1
  <1>4. RoundedScores(total) = IF total % 100 = 50 THEN {whole, whole + 1} ELSE {over}
    BY DEF RoundedScores
  <1> HIDE DEF whole, over
  <1> QED
    BY <1>2, <1>3, <1>4 DEF Points, MaxPoints

\* calculateWeightedScore() and applyDeltas(): whatever the factors and deltas,
\* the score that a customer gets is one that RiskScore accepts.
THEOREM NewScoresAreScores ==
  /\ \A f \in Factors : WeightedScores(f) \subseteq Points
  /\ \A score \in Points, points \in Int : AfterDeltas(score, points) \in Points
  <1>1. \A f \in Factors : WeightedScores(f) \subseteq Points
    <2> SUFFICES ASSUME NEW f \in Factors
                 PROVE  RoundedScores(WeightedTotal(f)) \subseteq Points
      BY DEF WeightedScores
    <2> DEFINE total == WeightedTotal(f)
    <2>1. total \in Totals
      BY TotalInRange
    <2> HIDE DEF total
    <2>2. RoundedScores(total) \subseteq Points
      BY <2>1, RoundedInRange
    <2> QED
      BY <2>2 DEF total
  <1>2. \A score \in Points, points \in Int : AfterDeltas(score, points) \in Points
    BY DEF AfterDeltas, Clamped, Points, MaxPoints
  <1> QED
    BY <1>1, <1>2

\* RiskScore.exceedsEddThreshold() after rounding: a total of 60.51 points or more
\* is under EDD, one of 60.49 or less is not, and only one of exactly 60.5
\* depends on how the floating-point sum comes out.
THEOREM RoundingDecidesAtOneTotal ==
  ASSUME NEW total \in Totals, NEW score \in RoundedScores(total)
  PROVE  /\ total > 6050 => ExceedsEddThreshold(score)
         /\ total < 6050 => ~ExceedsEddThreshold(score)
  BY DEF RoundedScores, ExceedsEddThreshold, EddThreshold, Totals

LEMMA RoundingIsMonotone ==
  ASSUME NEW total \in Totals, NEW larger \in Totals, total < larger,
         NEW s \in RoundedScores(total), NEW t \in RoundedScores(larger)
  PROVE  s <= t
  BY DEF RoundedScores, Totals

\* calculateWeightedScore(): a customer with a worse factor, and none better,
\* never gets the lower score.
THEOREM WorseFactorsScoreNoLower ==
  ASSUME NEW f \in Factors, NEW worse \in Factors, WeightedTotal(f) # WeightedTotal(worse),
         f.productType <= worse.productType, f.transactionAnomaly <= worse.transactionAnomaly,
         f.jurisdictionalRisk <= worse.jurisdictionalRisk, f.pepStatus <= worse.pepStatus,
         f.amlResults <= worse.amlResults,
         NEW s \in WeightedScores(f), NEW t \in WeightedScores(worse)
  PROVE  s <= t
  <1>1. \A g \in {f, worse} :
          /\ g.productType \in Int /\ g.transactionAnomaly \in Int
          /\ g.jurisdictionalRisk \in Int /\ g.pepStatus \in Int /\ g.amlResults \in Int
    BY DEF Factors, Points, MaxPoints
  <1>2. WeightedTotal(f) <= WeightedTotal(worse)
    BY <1>1 DEF WeightedTotal
  <1> DEFINE total == WeightedTotal(f)
             larger == WeightedTotal(worse)
  <1>3. total \in Totals /\ larger \in Totals
    BY TotalInRange
  <1>4. total < larger
    <2>1. total <= larger /\ total # larger
      BY <1>2
    <2> HIDE DEF total, larger
    <2> QED
      BY <1>3, <2>1 DEF Totals
  <1>5. s \in RoundedScores(total) /\ t \in RoundedScores(larger)
    BY DEF WeightedScores
  <1> HIDE DEF total, larger
  <1> QED
    BY <1>3, <1>4, <1>5, RoundingIsMonotone

\* TierSelector.selectTier(): of two applications that differ in their loans, the
\* larger loan is never verified under the lighter tier.
THEOREM TierGrowsWithTheLoan ==
  ASSUME NEW loan \in Nat, NEW larger \in Nat, loan <= larger,
         NEW isPep \in BOOLEAN, NEW isHighRisk \in BOOLEAN
  PROVE  /\ SelectTier(loan, isPep, isHighRisk) = "EDD" =>
              SelectTier(larger, isPep, isHighRisk) = "EDD"
         /\ SelectTier(loan, isPep, isHighRisk) = "FULL" =>
              SelectTier(larger, isPep, isHighRisk) # "MINIMUM"
  BY DEF SelectTier

-----------------------------------------------------------------------------
(***************************************************************************)
(* Legal holds                                                             *)
(***************************************************************************)

\* The last day of retention, for a relationship that has ended.
Expiry(command) == command.relationshipEnd + Retention

LEMMA HoldsHaveDates ==
  ASSUME NEW command \in Commands, NEW asOf \in Nat
  PROVE  /\ LatestExpiry(Holds(command, asOf)) =
              IF command.reported = {} /\ Holds(command, asOf) # {} THEN Expiry(command) ELSE None
         /\ LatestExpiry(Holds(command, asOf)) \in Nat \cup {None}
         /\ LatestExpiry(Holds(command, asOf)) # None => Expiry(command) > asOf
  <1> DEFINE holds == Holds(command, asOf)
             dates == {hold.expiryDate : hold \in holds}
             ended == command.relationshipEnd # None
  <1>1. command.reported \subseteq IndefiniteHolds /\ (ended => command.relationshipEnd \in Nat)
    BY HoldsAssumption, DatesAssumption DEF Commands
  <1>2. ended => Expiry(command) \in Nat
    BY <1>1, DatesAssumption DEF Expiry
  <1>3. CASE command.reported # {}
    <2>1. PICK t \in command.reported : TRUE
      BY <1>3
    <2>2. [holdType |-> t, expiryDate |-> None] \in holds
      BY <2>1 DEF Holds
    <2>3. [holdType |-> t, expiryDate |-> None].expiryDate = None
      OBVIOUS
    <2>4. None \in dates
      BY <2>2, <2>3
    <2> QED
      BY <1>3, <2>4 DEF LatestExpiry
  <1>4. CASE command.reported = {} /\ ended /\ Expiry(command) > asOf
    <2>1. holds = {[holdType |-> "PMLA", expiryDate |-> Expiry(command)]}
      BY <1>4 DEF Holds, Expiry
    <2>2. dates = {Expiry(command)}
      BY <2>1
    <2>3. Max(dates) = Expiry(command)
      BY <1>2, <1>4, <2>2 DEF Max
    <2>4. None \notin dates /\ dates # {} /\ holds # {}
      BY <1>2, <1>4, <2>1, <2>2, DatesAssumption
    <2>5. LatestExpiry(holds) = Expiry(command)
      BY <2>3, <2>4 DEF LatestExpiry
    <2> QED
      BY <1>2, <1>4, <2>4, <2>5
  <1>5. CASE command.reported = {} /\ ~(ended /\ Expiry(command) > asOf)
    <2>1. holds = {}
      BY <1>5 DEF Holds, Expiry
    <2>2. dates = {}
      BY <2>1
    <2>3. LatestExpiry(holds) = None
      BY <2>2 DEF LatestExpiry
    <2> QED
      BY <1>5, <2>1, <2>3
  <1> QED
    BY <1>3, <1>4, <1>5

\* LegalHoldEvaluator: the date that a refused request is given is the first day
\* on which it would be granted; it has no date only for a hold without one.
THEOREM ExpiryIsTheFirstFreeDay ==
  ASSUME NEW command \in Commands, NEW asOf \in Nat, Holds(command, asOf) # {}
  PROVE  LET date == LatestExpiry(Holds(command, asOf))
         IN IF date = None THEN command.reported # {}
            ELSE /\ date \in Nat /\ date > asOf
                 /\ \A day \in Nat : Holds(command, day) = {} <=> day >= date
  <1> DEFINE date == LatestExpiry(Holds(command, asOf))
  <1>1. /\ date = IF command.reported = {} THEN Expiry(command) ELSE None
        /\ date \in Nat \cup {None}
        /\ date # None => Expiry(command) > asOf
    BY HoldsHaveDates
  <1>2. CASE date = None
    <2>1. command.reported = {} => command.relationshipEnd \in Nat
      BY DatesAssumption DEF Commands, Holds
    <2>2. command.reported = {} => Expiry(command) \in Nat
      BY <2>1, DatesAssumption DEF Expiry
    <2>3. command.reported # {}
      BY <1>1, <1>2, <2>2, DatesAssumption
    <2> QED
      BY <1>2, <2>3
  <1>3. CASE date # None
    <2>1. command.reported = {} /\ date = Expiry(command) /\ date \in Nat
      BY <1>1, <1>3
    <2>2. command.relationshipEnd # None /\ command.relationshipEnd \in Nat
      BY <2>1, DatesAssumption DEF Commands, Holds
    <2>3. \A day \in Nat : Holds(command, day) = {} <=> day >= date
      <3> SUFFICES ASSUME NEW day \in Nat
                   PROVE  Holds(command, day) = {} <=> day >= date
        OBVIOUS
      <3>1. CASE Expiry(command) > day
        BY <2>1, <2>2, <3>1 DEF Holds, Expiry
      <3>2. CASE ~(Expiry(command) > day)
        BY <2>1, <2>2, <3>2 DEF Holds, Expiry
      <3> QED
        BY <3>1, <3>2
    <2> QED
      BY <1>1, <1>3, <2>1, <2>3
  <1> QED
    BY <1>2, <1>3

-----------------------------------------------------------------------------
(***************************************************************************)
(* What handlers hold, and how they move                                   *)
(***************************************************************************)

HandlerTypes == handler \in [Handlers -> AllCalls \cup {None}]

LEMMA KindOf ==
  ASSUME NEW c \in AllCalls
  PROVE  /\ c.at \in {"auditScore", "auditUpgrade"} => c \in RiskCalls
         /\ c.at \in {"auditRequest", "schedule", "saveErasure", "auditExecution"} =>
              c \in EraseCalls
         /\ c.at = "saveCustomer" => c \in RiskCalls \cup EraseCalls
         /\ c.at \in {"saveDisposition", "auditDisposition"} => c \in DisposeCalls
         /\ c.kind = "risk" <=> c \in RiskCalls
         /\ c.kind = "erase" <=> c \in EraseCalls
  BY DEF AllCalls, RiskCalls, EraseCalls, DisposeCalls

LEMMA CallAt ==
  ASSUME HandlerTypes, NEW h \in Handlers, NEW place, IsAt(h, place)
  PROVE  handler[h] \in AllCalls /\ handler[h].at = place
  BY DEF HandlerTypes, IsAt

\* Only h changes.
Only(h) == \A g \in Handlers \ {h} : handler'[g] = handler[g]

LEMMA HandlerReplaced ==
  ASSUME HandlerTypes, NEW h \in Handlers, NEW new,
         handler' = [handler EXCEPT ![h] = new]
  PROVE  /\ handler'[h] = new /\ Only(h)
         /\ new \in AllCalls \cup {None} => HandlerTypes'
  BY DEF HandlerTypes, Only

\* A call goes on to its next place, with what else it holds.
LEMMA RiskMoves ==
  ASSUME HandlerTypes, NEW h \in Handlers, handler[h] \in RiskCalls,
         NEW place \in {"auditScore", "auditUpgrade", "saveCustomer"}, Go(h, place)
  PROVE  /\ HandlerTypes' /\ Only(h) /\ handler'[h] \in RiskCalls /\ handler'[h].at = place
         /\ handler'[h].row = handler[h].row /\ handler'[h].previous = handler[h].previous
  <1> DEFINE new == [handler[h] EXCEPT !.at = place]
  <1>1. /\ new \in RiskCalls /\ new.at = place
        /\ new.row = handler[h].row /\ new.previous = handler[h].previous
    BY DEF RiskCalls
  <1>2. handler' = [handler EXCEPT ![h] = new]
    BY DEF Go
  <1> HIDE DEF new
  <1> QED
    BY <1>1, <1>2, HandlerReplaced DEF AllCalls

SameErasure(c, d) == c.id = d.id /\ c.command = d.command /\ c.requestDate = d.requestDate

LEMMA ErasureMoves ==
  ASSUME HandlerTypes, NEW h \in Handlers, handler[h] \in EraseCalls,
         NEW place \in {"schedule", "saveCustomer", "saveErasure", "auditExecution"},
         Go(h, place)
  PROVE  /\ HandlerTypes' /\ Only(h) /\ handler'[h] \in EraseCalls /\ handler'[h].at = place
         /\ SameErasure(handler'[h], handler[h]) /\ handler'[h].row = handler[h].row
  <1> DEFINE new == [handler[h] EXCEPT !.at = place]
  <1>1. /\ new \in EraseCalls /\ new.at = place /\ SameErasure(new, handler[h])
        /\ new.row = handler[h].row
    BY DEF EraseCalls, SameErasure
  <1>2. handler' = [handler EXCEPT ![h] = new]
    BY DEF Go
  <1> HIDE DEF new
  <1>3. /\ HandlerTypes' /\ Only(h) /\ handler'[h] = new
    BY <1>1, <1>2, HandlerReplaced DEF AllCalls
  <1> QED
    BY <1>1, <1>3 DEF SameErasure

LEMMA DispositionMoves ==
  ASSUME HandlerTypes, NEW h \in Handlers, handler[h] \in DisposeCalls,
         Go(h, "auditDisposition")
  PROVE  /\ HandlerTypes' /\ Only(h) /\ handler'[h] \in DisposeCalls
         /\ handler'[h].at = "auditDisposition"
         /\ handler'[h].match = handler[h].match
         /\ handler'[h].disposition = handler[h].disposition
  <1> DEFINE new == [handler[h] EXCEPT !.at = "auditDisposition"]
  <1>1. /\ new \in DisposeCalls /\ new.at = "auditDisposition"
        /\ new.match = handler[h].match /\ new.disposition = handler[h].disposition
    BY DEF DisposeCalls
  <1>2. handler' = [handler EXCEPT ![h] = new]
    BY DEF Go
  <1> HIDE DEF new
  <1> QED
    BY <1>1, <1>2, HandlerReplaced DEF AllCalls

LEMMA HandlerEnds ==
  ASSUME HandlerTypes, NEW h \in Handlers, End(h)
  PROVE  HandlerTypes' /\ Only(h) /\ handler'[h] = None
  BY HandlerReplaced DEF End

\* The upgrade, and the anonymisation, of the row that a call holds.
LEMMA RowUpgraded ==
  ASSUME HandlerTypes, NEW h \in Handlers, AuditUpgrade(h)
  PROVE  /\ HandlerTypes' /\ Only(h) /\ handler'[h] \in RiskCalls
         /\ handler'[h].at = "saveCustomer" /\ handler'[h].row.tier = "EDD"
         /\ handler'[h].row.score = handler[h].row.score
  <1> DEFINE row == [handler[h].row EXCEPT !.tier = "EDD"]
             new == [handler[h] EXCEPT !.row = row, !.at = "saveCustomer"]
  <1>1. handler[h] \in RiskCalls
    BY CallAt, KindOf DEF AuditUpgrade
  <1>2. handler[h].row \in CustomerRows
    BY <1>1 DEF RiskCalls
  <1>3. row \in CustomerRows /\ row.tier = "EDD" /\ row.score = handler[h].row.score
    BY <1>2 DEF CustomerRows, Tiers
  <1>4. handler' = [handler EXCEPT ![h] = new]
    BY DEF AuditUpgrade
  <1> HIDE DEF row
  <1>5. new \in RiskCalls /\ new.at = "saveCustomer" /\ new.row = row
    BY <1>1, <1>3 DEF RiskCalls
  <1> HIDE DEF new
  <1> QED
    BY <1>3, <1>4, <1>5, HandlerReplaced DEF AllCalls

LEMMA RowAnonymised ==
  ASSUME HandlerTypes, NEW h \in Handlers, handler[h] \in EraseCalls,
         handler' = [handler EXCEPT ![h].at = "saveCustomer",
                                    ![h].row.personalData = "anonymised"]
  PROVE  /\ HandlerTypes' /\ Only(h) /\ handler'[h] \in EraseCalls
         /\ handler'[h].at = "saveCustomer" /\ SameErasure(handler'[h], handler[h])
         /\ handler'[h].row.tier = handler[h].row.tier
         /\ handler'[h].row.score = handler[h].row.score
  <1> DEFINE row == [handler[h].row EXCEPT !.personalData = "anonymised"]
             new == [handler[h] EXCEPT !.at = "saveCustomer", !.row = row]
  <1>1. handler[h].row \in CustomerRows
    BY DEF EraseCalls
  <1>2. row \in CustomerRows /\ row.tier = handler[h].row.tier /\ row.score = handler[h].row.score
    BY <1>1 DEF CustomerRows
  <1>3. handler' = [handler EXCEPT ![h] = new]
    OBVIOUS
  <1> HIDE DEF row
  <1>4. /\ new \in EraseCalls /\ new.at = "saveCustomer" /\ new.row = row
        /\ SameErasure(new, handler[h])
    BY <1>2 DEF EraseCalls, SameErasure
  <1> HIDE DEF new
  <1>5. HandlerTypes' /\ Only(h) /\ handler'[h] = new
    BY <1>3, <1>4, HandlerReplaced DEF AllCalls
  <1> QED
    BY <1>2, <1>4, <1>5 DEF SameErasure

-----------------------------------------------------------------------------
(***************************************************************************)
(* Types                                                                   *)
(***************************************************************************)

Trails ==
  [DataErasureRequested : SUBSET ErasureIds,
   DataErasureExecuted : SUBSET [id : ErasureIds, outcome : Outcomes],
   RiskScoreCalculated : SUBSET [previous : Points, new : Points],
   RiskTierUpgraded : SUBSET (Tiers \ {"EDD"}),
   AmlAlertDisposed : SUBSET [match : Matches, disposition : Dispositions]]

\* What a call has found out before it comes to a place.
Paths ==
  \A h \in Handlers :
    /\ IsAt(h, "auditUpgrade") => handler[h].row.tier # "EDD"
    /\ IsAt(h, "schedule") =>
         LatestExpiry(Holds(handler[h].command, handler[h].requestDate)) # None

RowTypes ==
  /\ customer \in CustomerRows /\ first \in CustomerRows
  /\ dispositions \in [Matches -> Dispositions \cup {None}]
  /\ erasures \in [ErasureIds -> ErasureRecords \cup {None}]
  /\ timers \subseteq [id : ErasureIds, fireAt : Nat]
  /\ today \in 0..LastDate /\ calls \in 0..MaxCalls /\ restarts \in 0..MaxRestarts
  /\ forgotten \subseteq ErasureIds /\ unaudited \subseteq Matches

Types == RowTypes /\ trail \in Trails /\ HandlerTypes /\ Paths

LEMMA TypesGiveTypeOK == Types => DeskTypeOK
  BY DEF Types, RowTypes, Trails, HandlerTypes, DeskTypeOK

LEMMA TypesInitially == DeskInit => Types
  <1> SUFFICES ASSUME DeskInit
               PROVE  Types
    OBVIOUS
  <1>1. PICK score \in FirstScores, a \in Applications :
          customer = [score |-> score,
                      tier |-> IF ExceedsEddThreshold(score) THEN "EDD"
                               ELSE SelectTier(a.loan, a.isPep, a.isHighRiskJurisdiction),
                      personalData |-> "original"]
    BY DEF DeskInit
  <1>2. customer \in CustomerRows
    <2>1. score \in Points
      BY ScoringAssumption
    <2>2. customer.tier \in Tiers
      BY <1>1 DEF SelectTier, Tiers
    <2> QED
      BY <1>1, <2>1, <2>2 DEF CustomerRows
  <1>3. \A h \in Handlers : handler[h] = None
    BY DEF DeskInit
  <1>4. HandlerTypes /\ Paths
    BY <1>3 DEF DeskInit, HandlerTypes, Paths, IsAt
  <1>5. trail \in Trails
    BY DEF DeskInit, Trails
  <1>6. RowTypes
    BY <1>2, BoundsAssumption, DatesAssumption DEF DeskInit, RowTypes
  <1> QED
    BY <1>4, <1>5, <1>6 DEF Types

\* Others than h are where they were.
LEMMA PathsKept ==
  ASSUME Paths, NEW h \in Handlers, Only(h),
         IsAt(h, "auditUpgrade")' => handler'[h].row.tier # "EDD",
         IsAt(h, "schedule")' =>
           LatestExpiry(Holds(handler'[h].command, handler'[h].requestDate)) # None
  PROVE  Paths'
  BY DEF Paths, IsAt, Only

LEMMA OutcomeHasType ==
  ASSUME NEW c \in EraseCalls
  PROVE  Outcome(c) \in Outcomes
  <1> DEFINE holds == Holds(c.command, c.requestDate)
  <1>1. c.command \in Commands /\ c.requestDate \in Nat
    BY DEF EraseCalls
  <1>2. LatestExpiry(holds) \in Nat \cup {None}
    BY <1>1, HoldsHaveDates
  <1>3. EligibleForErasure(holds) \subseteq RequiredCategories \cup AlwaysEligible
    BY DEF EligibleForErasure
  <1> HIDE DEF holds
  <1> QED
    BY <1>2, <1>3 DEF Outcome, Outcomes, holds

-----------------------------------------------------------------------------
(***************************************************************************)
(* What each action does, to the types above all                           *)
(***************************************************************************)

BeginActions(h) ==
  \/ \E f \in Assessments : \E s \in WeightedScores(f) : RecalculateRiskScore(h, s)
  \/ \E points \in Deltas : RecalculateRiskScore(h, AfterDeltas(customer.score, points))
  \/ \E id \in ErasureIds, command \in Commands : RequestDataErasure(h, id, command)
  \/ \E m \in Matches, d \in Dispositions : DisposeAmlAlert(h, m, d)

Rows == <<customer, trail, dispositions, memory, clock, first, unaudited>>

\* A call that begins is at its first place, and holds the customer's row.
FreshCall(c) ==
  \/ c \in RiskCalls /\ c.at = "auditScore" /\ c.previous = customer.score
       /\ c.row.tier = customer.tier
  \/ c \in EraseCalls /\ c.at = "auditRequest" /\ c.row = customer
       /\ erasures[c.id] = None /\ c.id \notin forgotten \cup trail.DataErasureRequested
       /\ \A g \in Handlers : handler[g] # None /\ handler[g].kind = "erase" => handler[g].id # c.id
  \/ c \in DisposeCalls /\ c.at = "saveDisposition"

LEMMA RecalculationIsFresh ==
  ASSUME Types, NEW h \in Handlers, NEW s \in Points, RecalculateRiskScore(h, s)
  PROVE  \E c : FreshCall(c) /\ Begin(h, c) /\ UNCHANGED Rows
  <1> DEFINE row == [customer EXCEPT !.score = s]
             c == [kind |-> "risk", at |-> "auditScore", previous |-> customer.score, row |-> row]
  <1>1. customer \in CustomerRows
    BY DEF Types, RowTypes
  <1>2. row \in CustomerRows /\ row.tier = customer.tier /\ customer.score \in Points
    BY <1>1 DEF CustomerRows
  <1>3. Begin(h, c) /\ UNCHANGED Rows
    BY DEF RecalculateRiskScore, Rows
  <1> HIDE DEF row
  <1>4. c \in RiskCalls /\ c.at = "auditScore" /\ c.previous = customer.score
        /\ c.row.tier = customer.tier
    BY <1>2 DEF RiskCalls
  <1>5. FreshCall(c)
    BY <1>4 DEF FreshCall
  <1> QED
    BY <1>3, <1>5

LEMMA ErasureIsFresh ==
  ASSUME Types, NEW h \in Handlers, NEW id \in ErasureIds, NEW command \in Commands,
         RequestDataErasure(h, id, command)
  PROVE  \E c : FreshCall(c) /\ Begin(h, c) /\ UNCHANGED Rows
  <1> DEFINE c == [kind |-> "erase", at |-> "auditRequest", id |-> id, command |-> command,
                   requestDate |-> today, row |-> customer]
  <1>1. c \in EraseCalls /\ c.at = "auditRequest" /\ c.row = customer /\ c.id = id
    BY DatesAssumption DEF EraseCalls, Types, RowTypes
  <1>2. Begin(h, c) /\ UNCHANGED Rows
    BY DEF RequestDataErasure, Rows
  <1> HIDE DEF c
  <1>3. FreshCall(c)
    BY <1>1 DEF FreshCall, RequestDataErasure
  <1> QED
    BY <1>2, <1>3

LEMMA DispositionIsFresh ==
  ASSUME NEW h \in Handlers, NEW m \in Matches, NEW d \in Dispositions, DisposeAmlAlert(h, m, d)
  PROVE  \E c : FreshCall(c) /\ Begin(h, c) /\ UNCHANGED Rows
  <1> DEFINE c == [kind |-> "dispose", at |-> "saveDisposition", match |-> m, disposition |-> d]
  <1>1. c \in DisposeCalls /\ c.at = "saveDisposition"
    BY DEF DisposeCalls
  <1>2. FreshCall(c)
    BY <1>1 DEF FreshCall
  <1> QED
    BY <1>2 DEF DisposeAmlAlert, Rows

LEMMA BeginsFresh ==
  ASSUME Types, NEW h \in Handlers, BeginActions(h)
  PROVE  \E c : FreshCall(c) /\ Begin(h, c) /\ UNCHANGED Rows
  <1>1. ASSUME NEW f \in Assessments, NEW s \in WeightedScores(f), RecalculateRiskScore(h, s)
        PROVE  \E c : FreshCall(c) /\ Begin(h, c) /\ UNCHANGED Rows
    <2>1. s \in Points
      BY ScoringAssumption, NewScoresAreScores
    <2> QED
      BY <1>1, <2>1, RecalculationIsFresh
  <1>2. ASSUME NEW points \in Deltas, RecalculateRiskScore(h, AfterDeltas(customer.score, points))
        PROVE  \E c : FreshCall(c) /\ Begin(h, c) /\ UNCHANGED Rows
    <2>1. customer.score \in Points
      BY DEF Types, RowTypes, CustomerRows
    <2>2. AfterDeltas(customer.score, points) \in Points
      BY <2>1, ScoringAssumption, NewScoresAreScores
    <2> QED
      BY <1>2, <2>2, RecalculationIsFresh
  <1> QED
    BY <1>1, <1>2, ErasureIsFresh, DispositionIsFresh DEF BeginActions

LEMMA BeginTypes ==
  ASSUME Types, NEW h \in Handlers, NEW c, FreshCall(c), Begin(h, c), UNCHANGED Rows
  PROVE  /\ Types' /\ handler[h] = None /\ handler'[h] = c /\ Only(h)
         /\ UNCHANGED <<customer, trail, dispositions, erasures, timers, first, forgotten, unaudited>>
  <1>1. c \in AllCalls /\ c.at \in {"auditScore", "auditRequest", "saveDisposition"}
    BY DEF FreshCall, AllCalls
  <1>2. handler' = [handler EXCEPT ![h] = c] /\ handler[h] = None
    BY DEF Begin
  <1>3. handler'[h] = c /\ Only(h) /\ HandlerTypes'
    BY <1>1, <1>2, HandlerReplaced DEF Types
  <1>4. Paths'
    BY <1>1, <1>3, PathsKept DEF Types, IsAt
  <1>5. UNCHANGED <<customer, trail, dispositions, erasures, timers, today, restarts, forgotten,
                    first, unaudited>>
    BY DEF Rows, memory, clock
  <1>6. calls' \in 0..MaxCalls
    BY BoundsAssumption DEF Begin, Types, RowTypes
  <1>7. RowTypes' /\ trail' \in Trails
    BY <1>5, <1>6 DEF Types, RowTypes
  <1> QED
    BY <1>2, <1>3, <1>4, <1>5, <1>7 DEF Types


\* An event changes the trail at its own type.
LEMMA EventRecorded ==
  ASSUME trail \in Trails
  PROVE  /\ \A x \in ErasureIds : Record("DataErasureRequested", x) =>
              /\ trail' \in Trails
              /\ trail' = [trail EXCEPT !.DataErasureRequested = @ \cup {x}]
         /\ \A x \in [id : ErasureIds, outcome : Outcomes] : Record("DataErasureExecuted", x) =>
              /\ trail' \in Trails
              /\ trail' = [trail EXCEPT !.DataErasureExecuted = @ \cup {x}]
         /\ \A x \in [previous : Points, new : Points] : Record("RiskScoreCalculated", x) =>
              /\ trail' \in Trails
              /\ trail' = [trail EXCEPT !.RiskScoreCalculated = @ \cup {x}]
         /\ \A x \in Tiers \ {"EDD"} : Record("RiskTierUpgraded", x) =>
              /\ trail' \in Trails
              /\ trail' = [trail EXCEPT !.RiskTierUpgraded = @ \cup {x}]
         /\ \A x \in [match : Matches, disposition : Dispositions] : Record("AmlAlertDisposed", x) =>
              /\ trail' \in Trails
              /\ trail' = [trail EXCEPT !.AmlAlertDisposed = @ \cup {x}]
  BY DEF Record, Trails

LEMMA AuditScoreTypes ==
  ASSUME Types, NEW h \in Handlers, AuditScore(h)
  PROVE  /\ Types' /\ Only(h)
         /\ handler[h] \in RiskCalls /\ IsAt(h, "auditScore")
         /\ handler'[h] \in RiskCalls /\ handler'[h].row = handler[h].row
         /\ handler'[h].at = IF ExceedsEddThreshold(handler[h].row.score)
                                /\ handler[h].row.tier # "EDD"
                             THEN "auditUpgrade" ELSE "saveCustomer"
         /\ trail' = [trail EXCEPT !.RiskScoreCalculated =
                        @ \cup {[previous |-> handler[h].previous, new |-> handler[h].row.score]}]
         /\ UNCHANGED <<customer, dispositions, erasures, timers, first, forgotten, unaudited>>
  <1> DEFINE event == [previous |-> handler[h].previous, new |-> handler[h].row.score]
             place == IF ExceedsEddThreshold(handler[h].row.score) /\ handler[h].row.tier # "EDD"
                      THEN "auditUpgrade" ELSE "saveCustomer"
  <1>1. IsAt(h, "auditScore") /\ Go(h, place) /\ Record("RiskScoreCalculated", event)
    BY DEF AuditScore
  <1>2. handler[h] \in RiskCalls
    BY <1>1, CallAt, KindOf DEF Types
  <1>3. event \in [previous : Points, new : Points]
    BY <1>2 DEF RiskCalls, CustomerRows
  <1>4. place \in {"auditUpgrade", "saveCustomer"}
        /\ (place = "auditUpgrade" => handler[h].row.tier # "EDD")
    OBVIOUS
  <1>5. /\ HandlerTypes' /\ Only(h) /\ handler'[h] \in RiskCalls /\ handler'[h].at = place
        /\ handler'[h].row = handler[h].row
    <2> HIDE DEF place
    <2> QED
      BY <1>1, <1>2, <1>4, RiskMoves DEF Types
  <1>6. trail' \in Trails /\ trail' = [trail EXCEPT !.RiskScoreCalculated = @ \cup {event}]
    <2> HIDE DEF event
    <2> QED
      BY <1>1, <1>3, EventRecorded DEF Types
  <1>7. UNCHANGED <<customer, dispositions, erasures, timers, calls, today, restarts, forgotten,
                    first, unaudited>>
    BY DEF AuditScore, memory, clock
  <1>8. Paths'
    BY <1>4, <1>5, PathsKept DEF Types, IsAt
  <1> HIDE DEF event, place
  <1>9. Types'
    BY <1>5, <1>6, <1>7, <1>8 DEF Types, RowTypes
  <1> QED
    BY <1>1, <1>2, <1>5, <1>6, <1>7, <1>9 DEF event, place

LEMMA AuditUpgradeTypes ==
  ASSUME Types, NEW h \in Handlers, AuditUpgrade(h)
  PROVE  /\ Types' /\ Only(h)
         /\ handler[h] \in RiskCalls /\ IsAt(h, "auditUpgrade")
         /\ handler'[h] \in RiskCalls /\ handler'[h].at = "saveCustomer"
         /\ handler'[h].row.tier = "EDD" /\ handler'[h].row.score = handler[h].row.score
         /\ trail' = [trail EXCEPT !.RiskTierUpgraded = @ \cup {handler[h].row.tier}]
         /\ UNCHANGED <<customer, dispositions, erasures, timers, first, forgotten, unaudited>>
  <1>1. IsAt(h, "auditUpgrade") /\ Record("RiskTierUpgraded", handler[h].row.tier)
    BY DEF AuditUpgrade
  <1>2. handler[h] \in RiskCalls /\ handler[h].row.tier # "EDD"
    BY <1>1, CallAt, KindOf DEF Types, Paths
  <1>3. handler[h].row.tier \in Tiers \ {"EDD"}
    BY <1>2 DEF RiskCalls, CustomerRows
  <1>4. /\ HandlerTypes' /\ Only(h) /\ handler'[h] \in RiskCalls
        /\ handler'[h].at = "saveCustomer" /\ handler'[h].row.tier = "EDD"
        /\ handler'[h].row.score = handler[h].row.score
    BY RowUpgraded DEF Types
  <1>5. /\ trail' \in Trails
        /\ trail' = [trail EXCEPT !.RiskTierUpgraded = @ \cup {handler[h].row.tier}]
    BY <1>1, <1>3, EventRecorded DEF Types
  <1>6. UNCHANGED <<customer, dispositions, erasures, timers, calls, today, restarts, forgotten,
                    first, unaudited>>
    BY DEF AuditUpgrade, memory, clock
  <1>7. Paths'
    BY <1>4, PathsKept DEF Types, IsAt
  <1>8. Types'
    BY <1>4, <1>5, <1>6, <1>7 DEF Types, RowTypes
  <1> QED
    BY <1>1, <1>2, <1>4, <1>5, <1>6, <1>8

LEMMA SaveCustomerTypes ==
  ASSUME Types, NEW h \in Handlers, SaveCustomer(h)
  PROVE  /\ Types' /\ Only(h)
         /\ handler[h] \in RiskCalls \cup EraseCalls /\ IsAt(h, "saveCustomer")
         /\ customer'.score = handler[h].row.score /\ customer'.tier = handler[h].row.tier
         /\ IF handler[h] \in EraseCalls
            THEN /\ handler'[h] \in EraseCalls /\ handler'[h].at = "saveErasure"
                 /\ SameErasure(handler'[h], handler[h])
            ELSE handler'[h] = None
         /\ UNCHANGED <<trail, dispositions, erasures, timers, first, forgotten, unaudited>>
  <1>1. IsAt(h, "saveCustomer") /\ handler[h].at = "saveCustomer"
    BY DEF SaveCustomer, IsAt
  <1>2. handler[h] \in RiskCalls \cup EraseCalls /\ handler[h] \in AllCalls
    BY <1>1, CallAt, KindOf DEF Types
  <1>3. handler[h].row \in CustomerRows /\ customer \in CustomerRows
    BY <1>2 DEF RiskCalls, EraseCalls, Types, RowTypes
  <1>4. customer' = [handler[h].row EXCEPT !.personalData = customer.personalData]
    BY DEF SaveCustomer
  <1>5. /\ customer' \in CustomerRows
        /\ customer'.score = handler[h].row.score /\ customer'.tier = handler[h].row.tier
    BY <1>3, <1>4 DEF CustomerRows
  <1>6. /\ HandlerTypes' /\ Only(h)
        /\ IF handler[h] \in EraseCalls
           THEN /\ handler'[h] \in EraseCalls /\ handler'[h].at = "saveErasure"
                /\ SameErasure(handler'[h], handler[h])
           ELSE handler'[h] = None
    <2>1. CASE handler[h] \in EraseCalls
      <3>1. Go(h, "saveErasure")
        BY <1>2, <2>1, KindOf DEF SaveCustomer
      <3> QED
        BY <2>1, <3>1, ErasureMoves DEF Types
    <2>2. CASE handler[h] \notin EraseCalls
      <3>1. End(h)
        BY <1>2, <2>2, KindOf DEF SaveCustomer
      <3> QED
        BY <2>2, <3>1, HandlerEnds DEF Types
    <2> QED
      BY <2>1, <2>2
  <1>7. UNCHANGED <<trail, dispositions, erasures, timers, calls, today, restarts, forgotten,
                    first, unaudited>>
    BY DEF SaveCustomer, memory, clock
  <1>8. Paths'
    BY <1>6, PathsKept DEF Types, IsAt
  <1>9. Types'
    BY <1>5, <1>6, <1>7, <1>8 DEF Types, RowTypes
  <1> QED
    BY <1>1, <1>2, <1>5, <1>6, <1>7, <1>9


LEMMA AuditRequestTypes ==
  ASSUME Types, NEW h \in Handlers, AuditRequest(h)
  PROVE  LET holds == Holds(handler[h].command, handler[h].requestDate) IN
         /\ Types' /\ Only(h)
         /\ handler[h] \in EraseCalls /\ IsAt(h, "auditRequest")
         /\ handler'[h] \in EraseCalls /\ SameErasure(handler'[h], handler[h])
         /\ handler'[h].row.tier = handler[h].row.tier
         /\ handler'[h].row.score = handler[h].row.score
         /\ handler'[h].at = IF holds = {} THEN "saveCustomer"
                             ELSE IF LatestExpiry(holds) = None THEN "saveErasure" ELSE "schedule"
         /\ trail' = [trail EXCEPT !.DataErasureRequested = @ \cup {handler[h].id}]
         /\ UNCHANGED <<customer, dispositions, erasures, timers, first, forgotten, unaudited>>
  <1> DEFINE holds == Holds(handler[h].command, handler[h].requestDate)
             date == LatestExpiry(holds)
  <1>1. /\ IsAt(h, "auditRequest") /\ Record("DataErasureRequested", handler[h].id)
        /\ IF holds = {}
           THEN handler' = [handler EXCEPT ![h].at = "saveCustomer",
                                           ![h].row.personalData = "anonymised"]
           ELSE Go(h, IF date = None THEN "saveErasure" ELSE "schedule")
    BY DEF AuditRequest
  <1>2. handler[h] \in EraseCalls
    BY <1>1, CallAt, KindOf DEF Types
  <1>3. handler[h].id \in ErasureIds
    BY <1>2 DEF EraseCalls
  <1>4. trail' \in Trails
        /\ trail' = [trail EXCEPT !.DataErasureRequested = @ \cup {handler[h].id}]
    BY <1>1, <1>3, EventRecorded DEF Types
  <1> HIDE DEF holds, date
  <1>5. /\ HandlerTypes' /\ Only(h) /\ handler'[h] \in EraseCalls
        /\ SameErasure(handler'[h], handler[h])
        /\ handler'[h].row.tier = handler[h].row.tier
        /\ handler'[h].row.score = handler[h].row.score
        /\ handler'[h].at = IF holds = {} THEN "saveCustomer"
                            ELSE IF date = None THEN "saveErasure" ELSE "schedule"
    <2>1. CASE holds = {}
      BY <1>1, <1>2, <2>1, RowAnonymised DEF Types
    <2>2. CASE holds # {} /\ date = None
      <3>1. Go(h, "saveErasure")
        BY <1>1, <2>2
      <3> QED
        BY <1>2, <2>2, <3>1, ErasureMoves DEF Types
    <2>3. CASE holds # {} /\ date # None
      <3>1. Go(h, "schedule")
        BY <1>1, <2>3
      <3> QED
        BY <1>2, <2>3, <3>1, ErasureMoves DEF Types
    <2> QED
      BY <2>1, <2>2, <2>3
  <1>6. UNCHANGED <<customer, dispositions, erasures, timers, calls, today, restarts, forgotten,
                    first, unaudited>>
    BY DEF AuditRequest, memory, clock
  <1>7. Paths'
    <2>1. IsAt(h, "schedule")' =>
            LatestExpiry(Holds(handler'[h].command, handler'[h].requestDate)) # None
      BY <1>5 DEF IsAt, SameErasure, date, holds
    <2>2. ~IsAt(h, "auditUpgrade")'
      BY <1>5 DEF IsAt
    <2> QED
      BY <1>5, <2>1, <2>2, PathsKept DEF Types
  <1>8. Types'
    BY <1>4, <1>5, <1>6, <1>7 DEF Types, RowTypes
  <1> QED
    BY <1>1, <1>2, <1>4, <1>5, <1>6, <1>8 DEF holds, date

LEMMA ScheduleErasureTypes ==
  ASSUME Types, NEW h \in Handlers, ScheduleErasure(h)
  PROVE  LET date == LatestExpiry(Holds(handler[h].command, handler[h].requestDate)) IN
         /\ Types' /\ Only(h)
         /\ handler[h] \in EraseCalls /\ IsAt(h, "schedule")
         /\ handler'[h] \in EraseCalls /\ handler'[h].at = "saveErasure"
         /\ SameErasure(handler'[h], handler[h])
         /\ timers' = timers \cup {[id |-> handler[h].id, fireAt |-> date]}
         /\ UNCHANGED <<customer, trail, dispositions, erasures, first, forgotten, unaudited>>
  <1> DEFINE date == LatestExpiry(Holds(handler[h].command, handler[h].requestDate))
  <1>1. /\ IsAt(h, "schedule") /\ Go(h, "saveErasure")
        /\ timers' = timers \cup {[id |-> handler[h].id, fireAt |-> date]}
    BY DEF ScheduleErasure
  <1>2. handler[h] \in EraseCalls /\ date # None
    BY <1>1, CallAt, KindOf DEF Types, Paths
  <1>3. handler[h].id \in ErasureIds /\ handler[h].command \in Commands
        /\ handler[h].requestDate \in Nat
    BY <1>2 DEF EraseCalls
  <1>4. date \in Nat
    BY <1>2, <1>3, HoldsHaveDates
  <1>5. /\ HandlerTypes' /\ Only(h) /\ handler'[h] \in EraseCalls
        /\ handler'[h].at = "saveErasure" /\ SameErasure(handler'[h], handler[h])
    BY <1>1, <1>2, ErasureMoves DEF Types
  <1>6. UNCHANGED <<customer, trail, dispositions, erasures, calls, today, restarts, forgotten,
                    first, unaudited>>
    BY DEF ScheduleErasure, clock
  <1>7. timers' \subseteq [id : ErasureIds, fireAt : Nat]
    <2> HIDE DEF date
    <2> QED
      BY <1>1, <1>3, <1>4 DEF Types, RowTypes
  <1>8. Paths'
    BY <1>5, PathsKept DEF Types, IsAt
  <1>9. Types'
    BY <1>5, <1>6, <1>7, <1>8 DEF Types, RowTypes
  <1> QED
    BY <1>1, <1>2, <1>5, <1>6, <1>9

LEMMA SaveErasureTypes ==
  ASSUME Types, NEW h \in Handlers, SaveErasure(h)
  PROVE  /\ Types' /\ Only(h)
         /\ handler[h] \in EraseCalls /\ IsAt(h, "saveErasure")
         /\ handler'[h] \in EraseCalls /\ handler'[h].at = "auditExecution"
         /\ SameErasure(handler'[h], handler[h])
         /\ \A id \in ErasureIds \ {handler[h].id} : erasures'[id] = erasures[id]
         /\ erasures'[handler[h].id] # None
         /\ erasures'[handler[h].id].command = handler[h].command
         /\ erasures'[handler[h].id].requestDate = handler[h].requestDate
         /\ erasures'[handler[h].id].outcome = Outcome(handler[h])
         /\ UNCHANGED <<customer, trail, dispositions, timers, first, forgotten, unaudited>>
  <1> DEFINE row == [command |-> handler[h].command, requestDate |-> handler[h].requestDate,
                     outcome |-> Outcome(handler[h])]
  <1>1. /\ IsAt(h, "saveErasure") /\ Go(h, "auditExecution")
        /\ erasures' = [erasures EXCEPT ![handler[h].id] = row]
    BY DEF SaveErasure
  <1>2. handler[h] \in EraseCalls
    BY <1>1, CallAt, KindOf DEF Types
  <1>3. handler[h].id \in ErasureIds /\ handler[h].command \in Commands
        /\ handler[h].requestDate \in Nat
    BY <1>2 DEF EraseCalls
  <1>4. Outcome(handler[h]) \in Outcomes
    BY <1>2, OutcomeHasType
  <1>5. row \in ErasureRecords /\ row # None
    BY <1>3, <1>4, NullAssumption DEF ErasureRecords
  <1>6. row.command = handler[h].command /\ row.requestDate = handler[h].requestDate
        /\ row.outcome = Outcome(handler[h])
    OBVIOUS
  <1>7. /\ HandlerTypes' /\ Only(h) /\ handler'[h] \in EraseCalls
        /\ handler'[h].at = "auditExecution" /\ SameErasure(handler'[h], handler[h])
    BY <1>1, <1>2, ErasureMoves DEF Types
  <1>8. UNCHANGED <<customer, trail, dispositions, timers, calls, today, restarts, forgotten,
                    first, unaudited>>
    BY DEF SaveErasure, clock
  <1>9. Paths'
    BY <1>7, PathsKept DEF Types, IsAt
  <1> HIDE DEF row
  <1>10. /\ erasures' \in [ErasureIds -> ErasureRecords \cup {None}]
         /\ erasures'[handler[h].id] = row
         /\ \A id \in ErasureIds \ {handler[h].id} : erasures'[id] = erasures[id]
    BY <1>1, <1>3, <1>5 DEF Types, RowTypes
  <1>11. Types'
    BY <1>7, <1>8, <1>9, <1>10 DEF Types, RowTypes
  <1> QED
    BY <1>1, <1>2, <1>5, <1>6, <1>7, <1>8, <1>10, <1>11

LEMMA AuditExecutionTypes ==
  ASSUME Types, NEW h \in Handlers, AuditExecution(h)
  PROVE  /\ Types' /\ Only(h)
         /\ handler[h] \in EraseCalls /\ IsAt(h, "auditExecution") /\ handler'[h] = None
         /\ trail' = [trail EXCEPT !.DataErasureExecuted =
                        @ \cup {[id |-> handler[h].id, outcome |-> Outcome(handler[h])]}]
         /\ UNCHANGED <<customer, dispositions, erasures, timers, first, forgotten, unaudited>>
  <1> DEFINE event == [id |-> handler[h].id, outcome |-> Outcome(handler[h])]
  <1>1. IsAt(h, "auditExecution") /\ End(h) /\ Record("DataErasureExecuted", event)
    BY DEF AuditExecution
  <1>2. handler[h] \in EraseCalls
    BY <1>1, CallAt, KindOf DEF Types
  <1>3. handler[h].id \in ErasureIds /\ Outcome(handler[h]) \in Outcomes
    BY <1>2, OutcomeHasType DEF EraseCalls
  <1>4. event \in [id : ErasureIds, outcome : Outcomes]
    BY <1>3
  <1>5. trail' \in Trails /\ trail' = [trail EXCEPT !.DataErasureExecuted = @ \cup {event}]
    <2> HIDE DEF event
    <2> QED
      BY <1>1, <1>4, EventRecorded DEF Types
  <1>6. HandlerTypes' /\ Only(h) /\ handler'[h] = None
    BY <1>1, HandlerEnds DEF Types
  <1>7. UNCHANGED <<customer, dispositions, erasures, timers, calls, today, restarts, forgotten,
                    first, unaudited>>
    BY DEF AuditExecution, memory, clock
  <1>8. Paths'
    BY <1>6, PathsKept DEF Types, IsAt
  <1>9. Types'
    BY <1>5, <1>6, <1>7, <1>8 DEF Types, RowTypes
  <1> QED
    BY <1>1, <1>2, <1>5, <1>6, <1>7, <1>9

LEMMA SaveDispositionTypes ==
  ASSUME Types, NEW h \in Handlers, SaveDisposition(h)
  PROVE  /\ Types' /\ Only(h)
         /\ handler[h] \in DisposeCalls /\ IsAt(h, "saveDisposition")
         /\ handler'[h] \in DisposeCalls /\ handler'[h].at = "auditDisposition"
         /\ handler'[h].match = handler[h].match
         /\ handler'[h].disposition = handler[h].disposition
         /\ dispositions' = [dispositions EXCEPT ![handler[h].match] = handler[h].disposition]
         /\ UNCHANGED <<customer, trail, erasures, timers, first, forgotten, unaudited>>
  <1>1. /\ IsAt(h, "saveDisposition") /\ Go(h, "auditDisposition")
        /\ dispositions' = [dispositions EXCEPT ![handler[h].match] = handler[h].disposition]
    BY DEF SaveDisposition
  <1>2. handler[h] \in DisposeCalls
    BY <1>1, CallAt, KindOf DEF Types
  <1>3. /\ HandlerTypes' /\ Only(h) /\ handler'[h] \in DisposeCalls
        /\ handler'[h].at = "auditDisposition" /\ handler'[h].match = handler[h].match
        /\ handler'[h].disposition = handler[h].disposition
    BY <1>1, <1>2, DispositionMoves DEF Types
  <1>4. UNCHANGED <<customer, trail, erasures, timers, calls, today, restarts, forgotten,
                    first, unaudited>>
    BY DEF SaveDisposition, memory, clock
  <1>5. Paths'
    BY <1>3, PathsKept DEF Types, IsAt
  <1>6. dispositions' \in [Matches -> Dispositions \cup {None}]
    BY <1>1, <1>2 DEF Types, RowTypes, DisposeCalls
  <1>7. Types'
    BY <1>3, <1>4, <1>5, <1>6 DEF Types, RowTypes
  <1> QED
    BY <1>1, <1>2, <1>3, <1>4, <1>7

LEMMA AuditDispositionTypes ==
  ASSUME Types, NEW h \in Handlers, AuditDisposition(h)
  PROVE  /\ Types' /\ Only(h)
         /\ handler[h] \in DisposeCalls /\ IsAt(h, "auditDisposition") /\ handler'[h] = None
         /\ trail' = [trail EXCEPT !.AmlAlertDisposed =
              @ \cup {[match |-> handler[h].match, disposition |-> handler[h].disposition]}]
         /\ UNCHANGED <<customer, dispositions, erasures, timers, first, forgotten, unaudited>>
  <1> DEFINE event == [match |-> handler[h].match, disposition |-> handler[h].disposition]
  <1>1. IsAt(h, "auditDisposition") /\ End(h) /\ Record("AmlAlertDisposed", event)
    BY DEF AuditDisposition
  <1>2. handler[h] \in DisposeCalls
    BY <1>1, CallAt, KindOf DEF Types
  <1>3. event \in [match : Matches, disposition : Dispositions]
    BY <1>2 DEF DisposeCalls
  <1>4. trail' \in Trails /\ trail' = [trail EXCEPT !.AmlAlertDisposed = @ \cup {event}]
    <2> HIDE DEF event
    <2> QED
      BY <1>1, <1>3, EventRecorded DEF Types
  <1>5. HandlerTypes' /\ Only(h) /\ handler'[h] = None
    BY <1>1, HandlerEnds DEF Types
  <1>6. UNCHANGED <<customer, dispositions, erasures, timers, calls, today, restarts, forgotten,
                    first, unaudited>>
    BY DEF AuditDisposition, memory, clock
  <1>7. Paths'
    BY <1>5, PathsKept DEF Types, IsAt
  <1>8. Types'
    BY <1>4, <1>5, <1>6, <1>7 DEF Types, RowTypes
  <1> QED
    BY <1>1, <1>2, <1>4, <1>5, <1>6, <1>8


\* The matches of handlers that are about to record a disposition.
LEMMA StoppedMatches ==
  ASSUME Types, NEW hs \in SUBSET Handlers, Stopped(hs)
  PROVE  /\ unaudited \subseteq unaudited' /\ unaudited' \subseteq Matches
         /\ \A h \in hs : IsAt(h, "auditDisposition") => handler[h].match \in unaudited'
  <1>1. \A h \in hs : IsAt(h, "auditDisposition") => handler[h].match \in Matches
    BY CallAt, KindOf DEF Types, DisposeCalls
  <1> QED
    BY <1>1 DEF Stopped, Types, RowTypes

LEMMA HandlerFailsTypes ==
  ASSUME Types, NEW h \in Handlers, HandlerFails(h)
  PROVE  /\ Types' /\ Only(h) /\ handler'[h] = None
         /\ unaudited \subseteq unaudited'
         /\ IsAt(h, "auditDisposition") => handler[h].match \in unaudited'
         /\ UNCHANGED <<customer, trail, dispositions, erasures, timers, first, forgotten>>
  <1>1. End(h) /\ Stopped({h})
    BY DEF HandlerFails
  <1>2. HandlerTypes' /\ Only(h) /\ handler'[h] = None
    BY <1>1, HandlerEnds DEF Types
  <1>3. /\ unaudited \subseteq unaudited' /\ unaudited' \subseteq Matches
        /\ IsAt(h, "auditDisposition") => handler[h].match \in unaudited'
    BY <1>1, StoppedMatches
  <1>4. UNCHANGED <<customer, trail, dispositions, erasures, timers, calls, today, restarts,
                    forgotten, first>>
    BY DEF HandlerFails, memory, clock
  <1>5. Paths'
    BY <1>2, PathsKept DEF Types, IsAt
  <1>6. Types'
    BY <1>2, <1>3, <1>4, <1>5 DEF Types, RowTypes
  <1> QED
    BY <1>2, <1>3, <1>4, <1>6

LEMMA RestartTypes ==
  ASSUME Types, Restart
  PROVE  /\ Types'
         /\ \A h \in Handlers : handler'[h] = None
         /\ \A id \in ErasureIds : erasures'[id] = None
         /\ forgotten' = forgotten \cup {id \in ErasureIds : erasures[id] # None}
         /\ unaudited \subseteq unaudited'
         /\ \A h \in Handlers : IsAt(h, "auditDisposition") => handler[h].match \in unaudited'
         /\ UNCHANGED <<customer, trail, dispositions, first>>
  <1>1. /\ Stopped(Handlers) /\ handler' = [h \in Handlers |-> None] /\ timers' = {}
        /\ erasures' = [id \in ErasureIds |-> None] /\ restarts' \in 0..MaxRestarts
        /\ forgotten' = forgotten \cup {id \in ErasureIds : erasures[id] # None}
        /\ UNCHANGED <<customer, trail, dispositions, today, calls, first>>
    BY BoundsAssumption DEF Restart, Types, RowTypes
  <1>2. /\ unaudited \subseteq unaudited' /\ unaudited' \subseteq Matches
        /\ \A h \in Handlers : IsAt(h, "auditDisposition") => handler[h].match \in unaudited'
    BY <1>1, StoppedMatches
  <1>3. HandlerTypes' /\ Paths'
    BY <1>1 DEF HandlerTypes, Paths, IsAt
  <1>4. forgotten' \subseteq ErasureIds
    BY <1>1 DEF Types, RowTypes
  <1>5. Types'
    BY <1>1, <1>2, <1>3, <1>4 DEF Types, RowTypes
  <1> QED
    BY <1>1, <1>2, <1>5

LEMMA OtherTypes ==
  ASSUME Types, NextDay \/ UNCHANGED deskVars
  PROVE  /\ Types'
         /\ UNCHANGED <<customer, trail, dispositions, erasures, timers, handler, first,
                        forgotten, unaudited>>
  <1>1. /\ UNCHANGED <<customer, trail, dispositions, erasures, timers, handler, calls, restarts,
                       first, forgotten, unaudited>>
        /\ today' \in 0..LastDate
    BY DatesAssumption DEF NextDay, deskVars, memory, clock, Types, RowTypes
  <1>2. HandlerTypes' /\ Paths'
    BY <1>1 DEF Types, HandlerTypes, Paths, IsAt
  <1>3. RowTypes' /\ trail' \in Trails
    BY <1>1 DEF Types, RowTypes
  <1> QED
    BY <1>1, <1>2, <1>3 DEF Types

\* The steps of a handler that has begun.
LEMMA DeskSteps ==
  ASSUME [DeskNext]_deskVars
  PROVE  \/ \E h \in Handlers :
              \/ BeginActions(h)
              \/ AuditScore(h) \/ AuditUpgrade(h) \/ SaveCustomer(h)
              \/ AuditRequest(h) \/ ScheduleErasure(h) \/ SaveErasure(h) \/ AuditExecution(h)
              \/ SaveDisposition(h) \/ AuditDisposition(h) \/ HandlerFails(h)
         \/ Restart
         \/ NextDay \/ UNCHANGED deskVars
  <1>1. CASE \E h \in Handlers : BeginActions(h)
    BY <1>1
  <1>2. CASE ~ \E h \in Handlers : BeginActions(h)
    BY <1>2 DEF DeskNext, BeginActions
  <1> QED
    BY <1>1, <1>2

LEMMA TypesInductive == Types /\ [DeskNext]_deskVars => Types'
  <1> SUFFICES ASSUME Types, [DeskNext]_deskVars
               PROVE  Types'
    OBVIOUS
  <1>1. ASSUME NEW h \in Handlers, BeginActions(h)
        PROVE  Types'
    BY <1>1, BeginsFresh, BeginTypes
  <1>2. ASSUME NEW h \in Handlers,
               \/ AuditScore(h) \/ AuditUpgrade(h) \/ SaveCustomer(h)
               \/ AuditRequest(h) \/ ScheduleErasure(h) \/ SaveErasure(h) \/ AuditExecution(h)
               \/ SaveDisposition(h) \/ AuditDisposition(h) \/ HandlerFails(h)
        PROVE  Types'
    BY <1>2, AuditScoreTypes, AuditUpgradeTypes, SaveCustomerTypes, AuditRequestTypes,
       ScheduleErasureTypes, SaveErasureTypes, AuditExecutionTypes, SaveDispositionTypes,
       AuditDispositionTypes, HandlerFailsTypes
  <1>3. CASE Restart
    BY <1>3, RestartTypes
  <1>4. CASE NextDay \/ UNCHANGED deskVars
    BY <1>4, OtherTypes
  <1> QED
    BY <1>1, <1>2, <1>3, <1>4, DeskSteps

LEMMA TypesHold == DeskSpec => []Types
  BY TypesInitially, TypesInductive, PTL DEF DeskSpec

\* The customer's row, the trail, the dispositions, the erasure requests and their
\* timers have their types: scores stay between 0 and 100, upgrades start
\* from a lighter tier, and every timer of an erasure has a date.
THEOREM DeskTypesCorrect == DeskSpec => []DeskTypeOK
  BY TypesHold, TypesGiveTypeOK, PTL

-----------------------------------------------------------------------------
(***************************************************************************)
(* Dispositions                                                            *)
(***************************************************************************)

\* A disposition that is stored is in the trail, or about to be.
LEMMA DispositionKept ==
  ASSUME Types, DispositionIsTraceable, [DeskNext]_deskVars
  PROVE  DispositionIsTraceable'
  <1> SUFFICES ASSUME NEW m \in Matches, m \notin unaudited', dispositions'[m] # None,
                      [match |-> m, disposition |-> dispositions'[m]] \notin trail'.AmlAlertDisposed
               PROVE  \E h \in Handlers : IsAt(h, "auditDisposition")' /\ handler'[h].match = m
                                          /\ handler'[h].disposition = dispositions'[m]
    BY DEF DispositionIsTraceable
  <1> DEFINE Recording(h) == IsAt(h, "auditDisposition") /\ handler[h].match = m
                             /\ handler[h].disposition = dispositions[m]
  <1>1. ASSUME UNCHANGED dispositions, unaudited \subseteq unaudited',
               trail.AmlAlertDisposed \subseteq trail'.AmlAlertDisposed
        PROVE  \E h \in Handlers : Recording(h)
    BY <1>1 DEF DispositionIsTraceable
  <1>2. ASSUME NEW g \in Handlers, Only(g), ~IsAt(g, "auditDisposition"),
               UNCHANGED <<dispositions, unaudited>>,
               trail.AmlAlertDisposed \subseteq trail'.AmlAlertDisposed
        PROVE  \E h \in Handlers : IsAt(h, "auditDisposition")' /\ handler'[h].match = m
                                   /\ handler'[h].disposition = dispositions'[m]
    <2>1. PICK h \in Handlers : Recording(h)
      BY <1>1, <1>2
    <2>2. h # g
      BY <1>2, <2>1
    <2> QED
      BY <1>2, <2>1, <2>2 DEF Only, IsAt
  <1>3. ASSUME NEW g \in Handlers, BeginActions(g)
        PROVE  \E h \in Handlers : IsAt(h, "auditDisposition")' /\ handler'[h].match = m
                                   /\ handler'[h].disposition = dispositions'[m]
    <2>1. Only(g) /\ handler[g] = None /\ UNCHANGED <<dispositions, unaudited, trail>>
      BY <1>3, BeginsFresh, BeginTypes
    <2> QED
      BY <1>2, <2>1 DEF IsAt
  <1>4. ASSUME NEW g \in Handlers,
               AuditScore(g) \/ AuditUpgrade(g) \/ AuditRequest(g) \/ AuditExecution(g)
        PROVE  \E h \in Handlers : IsAt(h, "auditDisposition")' /\ handler'[h].match = m
                                   /\ handler'[h].disposition = dispositions'[m]
    <2>1. trail \in Trails
      BY DEF Types
    <2>2. CASE AuditScore(g)
      BY <1>2, <2>1, <2>2, AuditScoreTypes DEF Trails, IsAt
    <2>3. CASE AuditUpgrade(g)
      BY <1>2, <2>1, <2>3, AuditUpgradeTypes DEF Trails, IsAt
    <2>4. CASE AuditRequest(g)
      BY <1>2, <2>1, <2>4, AuditRequestTypes DEF Trails, IsAt
    <2>5. CASE AuditExecution(g)
      BY <1>2, <2>1, <2>5, AuditExecutionTypes DEF Trails, IsAt
    <2> QED
      BY <1>4, <2>2, <2>3, <2>4, <2>5
  <1>5. ASSUME NEW g \in Handlers, SaveCustomer(g) \/ ScheduleErasure(g) \/ SaveErasure(g)
        PROVE  \E h \in Handlers : IsAt(h, "auditDisposition")' /\ handler'[h].match = m
                                   /\ handler'[h].disposition = dispositions'[m]
    <2>1. Only(g) /\ ~IsAt(g, "auditDisposition") /\ UNCHANGED <<dispositions, unaudited, trail>>
      BY <1>5, SaveCustomerTypes, ScheduleErasureTypes, SaveErasureTypes DEF IsAt
    <2> QED
      BY <1>2, <2>1
  <1>6. ASSUME NEW g \in Handlers, SaveDisposition(g)
        PROVE  \E h \in Handlers : IsAt(h, "auditDisposition")' /\ handler'[h].match = m
                                   /\ handler'[h].disposition = dispositions'[m]
    <2>1. /\ Only(g) /\ handler[g] \in DisposeCalls /\ IsAt(g, "saveDisposition")
          /\ handler'[g] \in DisposeCalls /\ handler'[g].at = "auditDisposition"
          /\ handler'[g].match = handler[g].match
          /\ handler'[g].disposition = handler[g].disposition
          /\ dispositions' = [dispositions EXCEPT ![handler[g].match] = handler[g].disposition]
          /\ UNCHANGED <<trail, unaudited>> /\ Types'
      BY <1>6, SaveDispositionTypes
    <2>2. CASE handler[g].match = m
      <3>1. dispositions'[m] = handler'[g].disposition
        BY <2>1, <2>2 DEF Types, RowTypes
      <3>2. handler'[g] # None
        BY <2>1, NullAssumption DEF AllCalls
      <3> QED
        BY <2>1, <2>2, <3>1, <3>2 DEF IsAt
    <2>3. CASE handler[g].match # m
      <3>1. dispositions'[m] = dispositions[m]
        BY <2>1, <2>3 DEF Types, RowTypes
      <3>2. PICK h \in Handlers : Recording(h)
        BY <2>1, <3>1 DEF DispositionIsTraceable
      <3>3. h # g
        BY <2>1, <3>2 DEF IsAt
      <3> QED
        BY <2>1, <3>1, <3>2, <3>3 DEF Only, IsAt
    <2> QED
      BY <2>2, <2>3
  <1>7. ASSUME NEW g \in Handlers, AuditDisposition(g)
        PROVE  \E h \in Handlers : IsAt(h, "auditDisposition")' /\ handler'[h].match = m
                                   /\ handler'[h].disposition = dispositions'[m]
    <2> DEFINE event == [match |-> handler[g].match, disposition |-> handler[g].disposition]
    <2>1. /\ Only(g) /\ trail' = [trail EXCEPT !.AmlAlertDisposed = @ \cup {event}]
          /\ UNCHANGED <<dispositions, unaudited>>
      BY <1>7, AuditDispositionTypes
    <2>2. event \in trail'.AmlAlertDisposed
          /\ trail.AmlAlertDisposed \subseteq trail'.AmlAlertDisposed
      BY <2>1 DEF Types, Trails
    <2>3. PICK h \in Handlers : Recording(h)
      BY <1>1, <2>1, <2>2
    <2>4. h # g
      BY <2>1, <2>2, <2>3
    <2> QED
      BY <2>1, <2>3, <2>4 DEF Only, IsAt
  <1>8. ASSUME NEW g \in Handlers, HandlerFails(g)
        PROVE  \E h \in Handlers : IsAt(h, "auditDisposition")' /\ handler'[h].match = m
                                   /\ handler'[h].disposition = dispositions'[m]
    <2>1. /\ Only(g) /\ unaudited \subseteq unaudited' /\ UNCHANGED <<dispositions, trail>>
          /\ IsAt(g, "auditDisposition") => handler[g].match \in unaudited'
      BY <1>8, HandlerFailsTypes
    <2>2. PICK h \in Handlers : Recording(h)
      BY <1>1, <2>1
    <2>3. h # g
      BY <2>1, <2>2
    <2> QED
      BY <2>1, <2>2, <2>3 DEF Only, IsAt
  <1>9. CASE Restart
    <2>1. /\ unaudited \subseteq unaudited' /\ UNCHANGED <<dispositions, trail>>
          /\ \A h \in Handlers : IsAt(h, "auditDisposition") => handler[h].match \in unaudited'
      BY <1>9, RestartTypes
    <2>2. PICK h \in Handlers : Recording(h)
      BY <1>1, <2>1
    <2> QED
      BY <2>1, <2>2
  <1>10. CASE NextDay \/ UNCHANGED deskVars
    <2>1. UNCHANGED <<dispositions, trail, handler, unaudited>>
      BY <1>10, OtherTypes
    <2> QED
      BY <1>1, <2>1 DEF IsAt
  <1> QED
    BY <1>3, <1>4, <1>5, <1>6, <1>7, <1>8, <1>9, <1>10, DeskSteps

\* DisposeAmlAlertUseCase: every stored disposition can be traced, however many
\* officers dispose of how many matches, unless the handler that stored it
\* was stopped before its audit event.
THEOREM DispositionsAreTraceable == DeskSpec => []DispositionIsTraceable
  <1>1. DeskInit => DispositionIsTraceable
    BY DEF DeskInit, DispositionIsTraceable
  <1> QED
    BY <1>1, TypesHold, DispositionKept, PTL DEF DeskSpec


-----------------------------------------------------------------------------
(***************************************************************************)
(* The risk of the row                                                     *)
(***************************************************************************)

\* What the trail says of scores and rows.
ExplainedScores == {score \in Points : Explained(score)}
RaisedRows ==
  {row \in CustomerRows : row.tier # first.tier => trail.RiskTierUpgraded # {}}
SoundRows ==
  {row \in RaisedRows : /\ row.score \in ExplainedScores
                        /\ ExceedsEddThreshold(row.score) => row.tier = "EDD"}

\* The row in the table, and what handlers know before they save theirs.
SoundCall(h) ==
  /\ IsAt(h, "auditScore") =>
       handler[h].previous \in ExplainedScores /\ handler[h].row \in RaisedRows
  /\ IsAt(h, "auditUpgrade") => handler[h].row.score \in ExplainedScores
  /\ IsAt(h, "saveCustomer") \/ IsAt(h, "auditRequest") => handler[h].row \in SoundRows

RiskInv == customer \in SoundRows /\ \A h \in Handlers : SoundCall(h)

\* What the trail has explained stays explained.
TrailGrows ==
  /\ UNCHANGED first
  /\ trail.RiskScoreCalculated \subseteq trail'.RiskScoreCalculated
  /\ trail.RiskTierUpgraded \subseteq trail'.RiskTierUpgraded

LEMMA ExplainedForGood ==
  ASSUME TrailGrows
  PROVE  ExplainedScores \subseteq ExplainedScores'
  <1> SUFFICES ASSUME NEW score \in ExplainedScores, NEW S \in SUBSET KnownScores',
                      first.score \in S,
                      \A e \in trail'.RiskScoreCalculated : e.previous \in S => e.new \in S
               PROVE  score \in S
    BY DEF ExplainedScores, Explained, TrailGrows
  <1> DEFINE T == S \cap KnownScores
  <1>1. first.score \in T
    BY DEF KnownScores
  <1>2. \A e \in trail.RiskScoreCalculated : e.previous \in T => e.new \in T
    BY DEF KnownScores, TrailGrows
  <1>3. score \in T
    BY <1>1, <1>2 DEF ExplainedScores, Explained
  <1> QED
    BY <1>3

LEMMA SoundForGood ==
  ASSUME TrailGrows
  PROVE  RaisedRows \subseteq RaisedRows' /\ SoundRows \subseteq SoundRows'
  <1>1. RaisedRows \subseteq RaisedRows'
    BY DEF RaisedRows, TrailGrows
  <1> QED
    BY <1>1, ExplainedForGood DEF SoundRows

\* A change that is announced explains the score that it leads to.
LEMMA ChangeExplains ==
  ASSUME TrailGrows, NEW e \in trail'.RiskScoreCalculated,
         e.previous \in ExplainedScores, e.new \in Points
  PROVE  e.new \in ExplainedScores'
  <1>1. e.previous \in ExplainedScores'
    BY ExplainedForGood
  <1> QED
    BY <1>1 DEF ExplainedScores, Explained

\* A step of h that saves no row is sound if it leaves sound what h holds.
LEMMA RiskKeptIf ==
  ASSUME RiskInv, TrailGrows, UNCHANGED customer, NEW h \in Handlers, Only(h), SoundCall(h)'
  PROVE  RiskInv'
  <1>1. customer' \in SoundRows'
    BY SoundForGood DEF RiskInv
  <1>2. \A g \in Handlers \ {h} : SoundCall(g)'
    BY ExplainedForGood, SoundForGood DEF RiskInv, SoundCall, Only, IsAt
  <1> QED
    BY <1>1, <1>2 DEF RiskInv

\* So is one that leaves h with nothing to save.
LEMMA RiskKeptElsewhere ==
  ASSUME RiskInv, TrailGrows, UNCHANGED customer, NEW h \in Handlers, Only(h),
         ~IsAt(h, "auditScore")', ~IsAt(h, "auditUpgrade")', ~IsAt(h, "saveCustomer")',
         ~IsAt(h, "auditRequest")'
  PROVE  RiskInv'
  BY RiskKeptIf DEF SoundCall

LEMMA AnnouncementsGrow ==
  ASSUME Types, UNCHANGED first
  PROVE  /\ UNCHANGED trail => TrailGrows
         /\ \A x : trail' = [trail EXCEPT !.RiskScoreCalculated = @ \cup {x}] =>
              TrailGrows /\ trail'.RiskScoreCalculated = trail.RiskScoreCalculated \cup {x}
         /\ \A x : trail' = [trail EXCEPT !.RiskTierUpgraded = @ \cup {x}] =>
              TrailGrows /\ trail'.RiskTierUpgraded = trail.RiskTierUpgraded \cup {x}
         /\ \A x : \/ trail' = [trail EXCEPT !.DataErasureRequested = @ \cup {x}]
                   \/ trail' = [trail EXCEPT !.DataErasureExecuted = @ \cup {x}]
                   \/ trail' = [trail EXCEPT !.AmlAlertDisposed = @ \cup {x}]
                   => TrailGrows
  BY DEF Types, Trails, TrailGrows

LEMMA RiskBegins ==
  ASSUME Types, RiskInv, NEW h \in Handlers, BeginActions(h)
  PROVE  RiskInv'
  <1>1. PICK c : FreshCall(c) /\ Begin(h, c) /\ UNCHANGED Rows
    BY BeginsFresh
  <1>2. handler'[h] = c /\ Only(h) /\ UNCHANGED <<customer, trail, first>> /\ TrailGrows
    BY <1>1, BeginTypes, AnnouncementsGrow
  <1>3. customer \in SoundRows /\ customer \in RaisedRows /\ customer.score \in ExplainedScores
    BY DEF RiskInv, SoundRows
  <1>4. customer \in SoundRows' /\ customer.score \in ExplainedScores'
    BY <1>2, <1>3, ExplainedForGood, SoundForGood
  <1>5. CASE c \in RiskCalls /\ c.at = "auditScore" /\ c.previous = customer.score
             /\ c.row.tier = customer.tier
    <2>1. c.row \in RaisedRows
      BY <1>3, <1>5 DEF RaisedRows, RiskCalls
    <2>2. c.row \in RaisedRows'
      BY <1>2, <2>1, SoundForGood
    <2> QED
      BY <1>2, <1>4, <1>5, <2>2, RiskKeptIf DEF SoundCall, IsAt
  <1>6. CASE c \in EraseCalls /\ c.at = "auditRequest" /\ c.row = customer
    BY <1>2, <1>4, <1>6, RiskKeptIf DEF SoundCall, IsAt
  <1>7. CASE c \in DisposeCalls /\ c.at = "saveDisposition"
    BY <1>2, <1>7, RiskKeptElsewhere DEF IsAt
  <1> QED
    BY <1>1, <1>5, <1>6, <1>7 DEF FreshCall

LEMMA RiskScored ==
  ASSUME Types, RiskInv, NEW h \in Handlers, AuditScore(h)
  PROVE  RiskInv'
  <1> DEFINE event == [previous |-> handler[h].previous, new |-> handler[h].row.score]
  <1>1. /\ Only(h) /\ handler[h] \in RiskCalls /\ IsAt(h, "auditScore")
        /\ handler'[h].row = handler[h].row
        /\ handler'[h].at = IF ExceedsEddThreshold(handler[h].row.score)
                               /\ handler[h].row.tier # "EDD"
                            THEN "auditUpgrade" ELSE "saveCustomer"
        /\ trail' = [trail EXCEPT !.RiskScoreCalculated = @ \cup {event}]
        /\ UNCHANGED <<customer, first>>
    BY AuditScoreTypes
  <1>2. handler[h].row \in CustomerRows /\ handler[h].row.score \in Points
    BY <1>1 DEF RiskCalls, CustomerRows
  <1>3. handler[h].previous \in ExplainedScores /\ handler[h].row \in RaisedRows
    BY <1>1 DEF RiskInv, SoundCall
  <1>4. event.previous = handler[h].previous /\ event.new = handler[h].row.score
    OBVIOUS
  <1> HIDE DEF event
  <1>5. TrailGrows /\ event \in trail'.RiskScoreCalculated
    BY <1>1, AnnouncementsGrow
  <1>6. handler[h].row.score \in ExplainedScores'
    BY <1>2, <1>3, <1>4, <1>5, ChangeExplains
  <1>7. handler[h].row \in RaisedRows'
    BY <1>3, <1>5, SoundForGood
  <1>8. SoundCall(h)'
    BY <1>1, <1>6, <1>7 DEF SoundCall, SoundRows, IsAt
  <1> QED
    BY <1>1, <1>5, <1>8, RiskKeptIf

LEMMA RiskRaised ==
  ASSUME Types, RiskInv, NEW h \in Handlers, AuditUpgrade(h)
  PROVE  RiskInv'
  <1>1. /\ Only(h) /\ IsAt(h, "auditUpgrade") /\ handler'[h] \in RiskCalls
        /\ handler'[h].at = "saveCustomer" /\ handler'[h].row.tier = "EDD"
        /\ handler'[h].row.score = handler[h].row.score
        /\ trail' = [trail EXCEPT !.RiskTierUpgraded = @ \cup {handler[h].row.tier}]
        /\ UNCHANGED <<customer, first>>
    BY AuditUpgradeTypes
  <1>2. TrailGrows /\ trail'.RiskTierUpgraded # {}
    BY <1>1, AnnouncementsGrow
  <1>3. handler'[h].row.score \in ExplainedScores'
    BY <1>1, <1>2, ExplainedForGood DEF RiskInv, SoundCall
  <1>4. handler'[h].row \in SoundRows'
    BY <1>1, <1>2, <1>3 DEF SoundRows, RaisedRows, RiskCalls
  <1> QED
    BY <1>1, <1>2, <1>4, RiskKeptIf DEF SoundCall, IsAt

LEMMA RiskSaved ==
  ASSUME Types, RiskInv, NEW h \in Handlers, SaveCustomer(h)
  PROVE  RiskInv'
  <1>1. /\ Only(h) /\ IsAt(h, "saveCustomer") /\ Types'
        /\ customer'.score = handler[h].row.score /\ customer'.tier = handler[h].row.tier
        /\ handler'[h] = None \/ handler'[h].at = "saveErasure"
        /\ UNCHANGED <<trail, first>>
    BY SaveCustomerTypes
  <1>2. TrailGrows
    BY <1>1, AnnouncementsGrow
  <1>3. handler[h].row \in SoundRows /\ customer' \in CustomerRows
    BY <1>1 DEF RiskInv, SoundCall, Types, RowTypes
  <1>4. customer' \in SoundRows
    BY <1>1, <1>3 DEF SoundRows, RaisedRows
  <1>5. customer' \in SoundRows'
    BY <1>2, <1>4, SoundForGood
  <1>6. SoundCall(h)'
    BY <1>1 DEF SoundCall, IsAt
  <1>7. \A g \in Handlers \ {h} : SoundCall(g)'
    BY <1>1, <1>2, ExplainedForGood, SoundForGood DEF RiskInv, SoundCall, Only, IsAt
  <1> QED
    BY <1>5, <1>6, <1>7 DEF RiskInv

LEMMA RiskAnnounced ==
  ASSUME Types, RiskInv, NEW h \in Handlers, AuditRequest(h)
  PROVE  RiskInv'
  <1>1. /\ Only(h) /\ handler[h] \in EraseCalls /\ IsAt(h, "auditRequest")
        /\ handler'[h] \in EraseCalls /\ handler'[h].row.tier = handler[h].row.tier
        /\ handler'[h].row.score = handler[h].row.score
        /\ handler'[h].at \in {"saveCustomer", "saveErasure", "schedule"}
        /\ trail' = [trail EXCEPT !.DataErasureRequested = @ \cup {handler[h].id}]
        /\ UNCHANGED <<customer, first>>
    BY AuditRequestTypes
  <1>2. TrailGrows
    BY <1>1, AnnouncementsGrow
  <1>3. handler[h].row \in SoundRows /\ handler'[h].row \in CustomerRows
    BY <1>1 DEF RiskInv, SoundCall, EraseCalls
  <1>4. handler'[h].row \in SoundRows
    BY <1>1, <1>3 DEF SoundRows, RaisedRows
  <1>5. handler'[h].row \in SoundRows'
    BY <1>2, <1>4, SoundForGood
  <1> QED
    BY <1>1, <1>2, <1>5, RiskKeptIf DEF SoundCall, IsAt

LEMMA RiskInvInductive == Types /\ RiskInv /\ [DeskNext]_deskVars => RiskInv'
  <1> SUFFICES ASSUME Types, RiskInv, [DeskNext]_deskVars
               PROVE  RiskInv'
    OBVIOUS
  <1>1. ASSUME NEW h \in Handlers,
               \/ ScheduleErasure(h) \/ SaveErasure(h) \/ AuditExecution(h)
               \/ SaveDisposition(h) \/ AuditDisposition(h) \/ HandlerFails(h)
        PROVE  RiskInv'
    <2>1. /\ Only(h) /\ UNCHANGED <<customer, first>>
          /\ \/ handler'[h] = None
             \/ handler'[h].at \in {"saveErasure", "auditExecution", "auditDisposition"}
      BY <1>1, ScheduleErasureTypes, SaveErasureTypes, AuditExecutionTypes, SaveDispositionTypes,
         AuditDispositionTypes, HandlerFailsTypes
    <2>2. TrailGrows
      BY <1>1, <2>1, AnnouncementsGrow, ScheduleErasureTypes, SaveErasureTypes,
         AuditExecutionTypes, SaveDispositionTypes, AuditDispositionTypes, HandlerFailsTypes
    <2> QED
      BY <2>1, <2>2, RiskKeptElsewhere DEF IsAt
  <1>2. CASE Restart
    <2>1. (\A h \in Handlers : handler'[h] = None) /\ UNCHANGED <<customer, trail, first>>
      BY <1>2, RestartTypes
    <2> QED
      BY <2>1, AnnouncementsGrow, SoundForGood DEF RiskInv, SoundCall, IsAt
  <1>3. CASE NextDay \/ UNCHANGED deskVars
    <2>1. UNCHANGED <<customer, trail, handler, first>>
      BY <1>3, OtherTypes
    <2> QED
      BY <2>1, AnnouncementsGrow, ExplainedForGood, SoundForGood DEF RiskInv, SoundCall, IsAt
  <1> QED
    BY <1>1, <1>2, <1>3, RiskBegins, RiskScored, RiskRaised, RiskSaved, RiskAnnounced, DeskSteps

LEMMA RiskInitially == DeskInit => RiskInv
  <1> SUFFICES ASSUME DeskInit
               PROVE  RiskInv
    OBVIOUS
  <1>1. Types /\ \A h \in Handlers : handler[h] = None
    BY TypesInitially DEF DeskInit
  <1>2. customer \in CustomerRows /\ customer = first
    BY <1>1 DEF Types, RowTypes, DeskInit
  <1>3. customer.score \in ExplainedScores
    BY <1>2 DEF ExplainedScores, Explained, CustomerRows
  <1>4. ExceedsEddThreshold(customer.score) => customer.tier = "EDD"
    BY DEF DeskInit
  <1>5. customer \in SoundRows
    BY <1>2, <1>3, <1>4 DEF SoundRows, RaisedRows
  <1> QED
    BY <1>1, <1>5 DEF RiskInv, SoundCall, IsAt

\* RecalculateRiskScoreUseCase and the erasures: the row's score follows from the
\* first one by announced changes, a score above the threshold is under EDD, and a
\* raised tier was announced, however many handlers save rows that are stale.
THEOREM RiskIsAlwaysExplained == DeskSpec => []RiskIsExplained
  <1>1. RiskInv => RiskIsExplained
    BY DEF RiskInv, SoundRows, RaisedRows, ExplainedScores, RiskIsExplained
  <1> QED
    BY <1>1, TypesHold, RiskInitially, RiskInvInductive, PTL DEF DeskSpec

-----------------------------------------------------------------------------
(***************************************************************************)
(* Erasure requests                                                        *)
(***************************************************************************)

Timed(id, outcome) ==
  outcome.scheduled # None => [id |-> id, fireAt |-> outcome.scheduled] \in timers

\* What is recorded of an erasure.
SoundRecord(id) ==
  erasures[id] # None =>
    /\ id \in trail.DataErasureRequested
    /\ erasures[id].outcome = Outcome(erasures[id])
    /\ Timed(id, erasures[id].outcome)

SoundEvent(e) ==
  /\ e.id \in trail.DataErasureRequested
  /\ e.id \notin forgotten => erasures[e.id] # None /\ erasures[e.id].outcome = e.outcome

\* What a handler relies on: an erasure is not executed before its last step.
SoundErasure(h) ==
  handler[h] \in EraseCalls =>
    LET c == handler[h] IN
    /\ c.at # "auditRequest" => c.id \in trail.DataErasureRequested
    /\ c.at # "auditExecution" => \A e \in trail.DataErasureExecuted : e.id # c.id
    /\ c.at = "saveCustomer" => Holds(c.command, c.requestDate) = {}
    /\ c.at = "saveErasure" => Timed(c.id, Outcome(c))
    /\ c.at = "auditExecution" => erasures[c.id] # None /\ erasures[c.id].outcome = Outcome(c)

ErasureInv ==
  /\ \A id \in ErasureIds : SoundRecord(id)
  /\ \A e \in trail.DataErasureExecuted : SoundEvent(e)
  /\ \A h \in Handlers : SoundErasure(h)
  /\ \A g, h \in Handlers :
       handler[g] \in EraseCalls /\ handler[h] \in EraseCalls /\ handler[g].id = handler[h].id
         => g = h

LEMMA OutcomeOfSame ==
  ASSUME NEW c, NEW d, c.command = d.command, c.requestDate = d.requestDate
  PROVE  Outcome(c) = Outcome(d)
  BY DEF Outcome

\* What handlers that do not move, and the tables, need of a step of h.
RecordsGrow ==
  /\ trail.DataErasureRequested \subseteq trail'.DataErasureRequested
  /\ timers \subseteq timers'
  /\ UNCHANGED forgotten

LEMMA RecordsGrowIf ==
  ASSUME Types, UNCHANGED forgotten, timers \subseteq timers'
  PROVE  /\ UNCHANGED trail => RecordsGrow
         /\ \A x : trail' = [trail EXCEPT !.DataErasureRequested = @ \cup {x}] =>
              /\ RecordsGrow /\ x \in trail'.DataErasureRequested
              /\ UNCHANGED trail.DataErasureExecuted
         /\ \A x : trail' = [trail EXCEPT !.DataErasureExecuted = @ \cup {x}] =>
              /\ RecordsGrow
              /\ trail'.DataErasureExecuted = trail.DataErasureExecuted \cup {x}
         /\ \A x : \/ trail' = [trail EXCEPT !.RiskScoreCalculated = @ \cup {x}]
                   \/ trail' = [trail EXCEPT !.RiskTierUpgraded = @ \cup {x}]
                   \/ trail' = [trail EXCEPT !.AmlAlertDisposed = @ \cup {x}]
                   => RecordsGrow /\ UNCHANGED trail.DataErasureExecuted
  BY DEF Types, Trails, RecordsGrow

\* Most steps record no erasure, and execute none.
LEMMA ErasureKeptIf ==
  ASSUME ErasureInv, RecordsGrow, UNCHANGED <<erasures, trail.DataErasureExecuted>>,
         NEW h \in Handlers, Only(h), SoundErasure(h)',
         handler'[h] \in EraseCalls =>
           \A g \in Handlers \ {h} : handler[g] \in EraseCalls => handler[g].id # handler'[h].id
  PROVE  ErasureInv'
  <1>1. \A id \in ErasureIds : SoundRecord(id)'
    BY DEF ErasureInv, SoundRecord, RecordsGrow, Timed
  <1>2. \A e \in trail'.DataErasureExecuted : SoundEvent(e)'
    BY DEF ErasureInv, SoundEvent, RecordsGrow
  <1>3. \A g \in Handlers \ {h} : SoundErasure(g)'
    BY DEF ErasureInv, SoundErasure, RecordsGrow, Timed, Only
  <1>4. \A f, g \in Handlers :
          handler'[f] \in EraseCalls /\ handler'[g] \in EraseCalls /\ handler'[f].id = handler'[g].id
            => f = g
    BY DEF ErasureInv, Only
  <1> QED
    BY <1>1, <1>2, <1>3, <1>4 DEF ErasureInv

\* The same erasure goes on.
LEMMA ErasureGoesOn ==
  ASSUME ErasureInv, RecordsGrow, UNCHANGED <<erasures, trail.DataErasureExecuted>>,
         NEW h \in Handlers, Only(h), SoundErasure(h)',
         handler'[h] \in EraseCalls => handler[h] \in EraseCalls /\ handler'[h].id = handler[h].id
  PROVE  ErasureInv'
  <1>1. handler'[h] \in EraseCalls =>
          \A g \in Handlers \ {h} : handler[g] \in EraseCalls => handler[g].id # handler'[h].id
    BY DEF ErasureInv
  <1> QED
    BY <1>1, ErasureKeptIf


LEMMA OneKind ==
  /\ None \notin EraseCalls
  /\ \A c \in RiskCalls \cup DisposeCalls : c \notin EraseCalls
  BY NullAssumption DEF AllCalls, RiskCalls, EraseCalls, DisposeCalls

LEMMA ErasureBegins ==
  ASSUME Types, ErasureInv, NEW h \in Handlers, BeginActions(h)
  PROVE  ErasureInv'
  <1>1. PICK c : FreshCall(c) /\ Begin(h, c) /\ UNCHANGED Rows
    BY BeginsFresh
  <1>2. /\ handler'[h] = c /\ Only(h)
        /\ UNCHANGED <<trail, erasures, timers, forgotten>> /\ RecordsGrow
    BY <1>1, BeginTypes, RecordsGrowIf
  <1>3. CASE c \in EraseCalls
    <2>1. /\ c.at = "auditRequest" /\ c.id \notin trail.DataErasureRequested
          /\ \A g \in Handlers : handler[g] # None /\ handler[g].kind = "erase" => handler[g].id # c.id
      BY <1>1, <1>3, OneKind DEF FreshCall
    <2>2. \A g \in Handlers : handler[g] \in EraseCalls => handler[g].id # c.id
      BY <2>1, OneKind DEF EraseCalls
    <2>3. \A e \in trail.DataErasureExecuted : e.id # c.id
      BY <2>1 DEF ErasureInv, SoundEvent
    <2>4. SoundErasure(h)'
      BY <1>2, <2>1, <2>3 DEF SoundErasure
    <2> QED
      BY <1>2, <2>2, <2>4, ErasureKeptIf
  <1>4. CASE c \notin EraseCalls
    BY <1>2, <1>4, ErasureKeptIf DEF SoundErasure
  <1> QED
    BY <1>3, <1>4

\* A handler without an erasure has nothing to do with them.
LEMMA ErasureUntouched ==
  ASSUME Types, ErasureInv, NEW h \in Handlers,
         \/ AuditScore(h) \/ AuditUpgrade(h)
         \/ SaveDisposition(h) \/ AuditDisposition(h) \/ HandlerFails(h)
  PROVE  ErasureInv'
  <1>1. /\ Only(h) /\ UNCHANGED <<erasures, timers, forgotten>>
        /\ handler'[h] \in RiskCalls \cup DisposeCalls \cup {None}
    BY AuditScoreTypes, AuditUpgradeTypes, SaveDispositionTypes, AuditDispositionTypes,
       HandlerFailsTypes
  <1>2. RecordsGrow /\ UNCHANGED trail.DataErasureExecuted
    BY <1>1, RecordsGrowIf, AuditScoreTypes, AuditUpgradeTypes, SaveDispositionTypes,
       AuditDispositionTypes, HandlerFailsTypes
  <1>3. handler'[h] \notin EraseCalls
    BY <1>1, OneKind
  <1>4. SoundErasure(h)'
    BY <1>3 DEF SoundErasure
  <1> QED
    BY <1>1, <1>2, <1>3, <1>4, ErasureKeptIf

LEMMA ErasureRowSaved ==
  ASSUME Types, ErasureInv, NEW h \in Handlers, SaveCustomer(h)
  PROVE  ErasureInv'
  <1>1. /\ Only(h) /\ UNCHANGED <<trail, erasures, timers, forgotten>>
        /\ handler[h] \in RiskCalls \cup EraseCalls /\ IsAt(h, "saveCustomer")
        /\ IF handler[h] \in EraseCalls
           THEN /\ handler'[h] \in EraseCalls /\ handler'[h].at = "saveErasure"
                /\ SameErasure(handler'[h], handler[h])
           ELSE handler'[h] = None
    BY SaveCustomerTypes
  <1>2. RecordsGrow
    BY <1>1, RecordsGrowIf
  <1>3. CASE handler[h] \in EraseCalls
    <2> DEFINE c == handler[h]
    <2>1. /\ c.id \in trail.DataErasureRequested
          /\ \A e \in trail.DataErasureExecuted : e.id # c.id
          /\ Holds(c.command, c.requestDate) = {}
      BY <1>1, <1>3 DEF ErasureInv, SoundErasure, IsAt
    <2>2. Outcome(c).scheduled = None
      BY <2>1 DEF Outcome, LatestExpiry
    <2>3. Outcome(handler'[h]) = Outcome(c)
      BY <1>1, <1>3, OutcomeOfSame DEF SameErasure
    <2>4. Outcome(handler'[h]).scheduled # None =>
            [id |-> handler'[h].id, fireAt |-> Outcome(handler'[h]).scheduled] \in timers'
      BY <2>2, <2>3
    <2>5. SoundErasure(h)'
      BY <1>1, <1>3, <2>1, <2>4 DEF SoundErasure, SameErasure, Timed
    <2> QED
      BY <1>1, <1>2, <1>3, <2>5, ErasureGoesOn DEF SameErasure
  <1>4. CASE handler[h] \notin EraseCalls
    <2>1. handler'[h] \notin EraseCalls
      BY <1>1, <1>4, OneKind
    <2> QED
      BY <1>1, <1>2, <2>1, ErasureKeptIf DEF SoundErasure
  <1> QED
    BY <1>3, <1>4

LEMMA ErasureAnnounced ==
  ASSUME Types, ErasureInv, NEW h \in Handlers, AuditRequest(h)
  PROVE  ErasureInv'
  <1> DEFINE c == handler[h]
             holds == Holds(c.command, c.requestDate)
             date == LatestExpiry(holds)
  <1>1. /\ Only(h) /\ c \in EraseCalls /\ IsAt(h, "auditRequest")
        /\ handler'[h] \in EraseCalls /\ SameErasure(handler'[h], c)
        /\ handler'[h].at = IF holds = {} THEN "saveCustomer"
                            ELSE IF date = None THEN "saveErasure" ELSE "schedule"
        /\ trail' = [trail EXCEPT !.DataErasureRequested = @ \cup {c.id}]
        /\ UNCHANGED <<erasures, timers, forgotten>>
    BY AuditRequestTypes
  <1>2. RecordsGrow /\ c.id \in trail'.DataErasureRequested /\ UNCHANGED trail.DataErasureExecuted
    BY <1>1, RecordsGrowIf
  <1>3. \A e \in trail.DataErasureExecuted : e.id # c.id
    BY <1>1 DEF ErasureInv, SoundErasure, IsAt
  <1>4. Outcome(handler'[h]) = Outcome(c) /\ Outcome(c).scheduled = date
    BY <1>1, OutcomeOfSame DEF SameErasure, Outcome
  <1>5. handler'[h].at = "saveErasure" => Outcome(handler'[h]).scheduled = None
    BY <1>1, <1>4
  <1>6. handler'[h].at = "saveCustomer" => Holds(handler'[h].command, handler'[h].requestDate) = {}
    BY <1>1 DEF SameErasure
  <1>7. SoundErasure(h)'
    BY <1>1, <1>2, <1>3, <1>5, <1>6 DEF SoundErasure, SameErasure, Timed
  <1> QED
    BY <1>1, <1>2, <1>7, ErasureGoesOn DEF SameErasure

LEMMA ErasureScheduled ==
  ASSUME Types, ErasureInv, NEW h \in Handlers, ScheduleErasure(h)
  PROVE  ErasureInv'
  <1> DEFINE c == handler[h]
             date == LatestExpiry(Holds(c.command, c.requestDate))
  <1>1. /\ Only(h) /\ c \in EraseCalls /\ IsAt(h, "schedule")
        /\ handler'[h] \in EraseCalls /\ handler'[h].at = "saveErasure"
        /\ SameErasure(handler'[h], c)
        /\ timers' = timers \cup {[id |-> c.id, fireAt |-> date]}
        /\ UNCHANGED <<trail, erasures, forgotten>>
    BY ScheduleErasureTypes
  <1>2. RecordsGrow
    BY <1>1, RecordsGrowIf
  <1>3. /\ c.id \in trail.DataErasureRequested
        /\ \A e \in trail.DataErasureExecuted : e.id # c.id
    BY <1>1 DEF ErasureInv, SoundErasure, IsAt
  <1>4. Outcome(handler'[h]) = Outcome(c) /\ Outcome(c).scheduled = date
    BY <1>1, OutcomeOfSame DEF SameErasure, Outcome
  <1>5. Outcome(handler'[h]).scheduled # None =>
          [id |-> handler'[h].id, fireAt |-> Outcome(handler'[h]).scheduled] \in timers'
    BY <1>1, <1>4 DEF SameErasure
  <1>6. SoundErasure(h)'
    BY <1>1, <1>3, <1>5 DEF SoundErasure, SameErasure, Timed
  <1> QED
    BY <1>1, <1>2, <1>6, ErasureGoesOn DEF SameErasure

LEMMA ErasureSaved ==
  ASSUME Types, ErasureInv, NEW h \in Handlers, SaveErasure(h)
  PROVE  ErasureInv'
  <1> DEFINE c == handler[h]
  <1>1. /\ Only(h) /\ c \in EraseCalls /\ IsAt(h, "saveErasure")
        /\ handler'[h] \in EraseCalls /\ handler'[h].at = "auditExecution"
        /\ SameErasure(handler'[h], c)
        /\ \A id \in ErasureIds \ {c.id} : erasures'[id] = erasures[id]
        /\ erasures'[c.id] # None
        /\ erasures'[c.id].command = c.command /\ erasures'[c.id].requestDate = c.requestDate
        /\ erasures'[c.id].outcome = Outcome(c)
        /\ UNCHANGED <<trail, timers, forgotten>>
    BY SaveErasureTypes
  <1>2. RecordsGrow
    BY <1>1, RecordsGrowIf
  <1>3. /\ c.id \in trail.DataErasureRequested /\ Timed(c.id, Outcome(c))
        /\ \A e \in trail.DataErasureExecuted : e.id # c.id
    BY <1>1 DEF ErasureInv, SoundErasure, IsAt
  <1>4. Outcome(handler'[h]) = Outcome(c) /\ Outcome(erasures'[c.id]) = Outcome(c)
    BY <1>1, OutcomeOfSame DEF SameErasure
  <1>5. \A id \in ErasureIds : SoundRecord(id)'
    <2> SUFFICES ASSUME NEW id \in ErasureIds
                 PROVE  SoundRecord(id)'
      OBVIOUS
    <2>1. CASE id = c.id
      BY <1>1, <1>3, <1>4, <2>1 DEF SoundRecord, Timed
    <2>2. CASE id # c.id
      <3>1. erasures'[id] = erasures[id]
        BY <1>1, <2>2
      <3> QED
        BY <1>1, <3>1 DEF ErasureInv, SoundRecord, Timed
    <2> QED
      BY <2>1, <2>2
  <1>6. \A e \in trail.DataErasureExecuted : SoundEvent(e)'
    <2>1. \A e \in trail.DataErasureExecuted : e.id \in ErasureIds
      BY DEF Types, Trails
    <2> QED
      BY <1>1, <1>3, <2>1 DEF ErasureInv, SoundEvent
  <1>7. \A g \in Handlers : SoundErasure(g)'
    <2> SUFFICES ASSUME NEW g \in Handlers
                 PROVE  SoundErasure(g)'
      OBVIOUS
    <2>1. CASE g = h
      BY <1>1, <1>3, <1>4, <2>1 DEF SoundErasure, SameErasure
    <2>2. CASE g # h /\ handler[g] \in EraseCalls
      <3>1. handler'[g] = handler[g] /\ handler[g].id # c.id /\ handler[g].id \in ErasureIds
        BY <1>1, <2>2 DEF Only, ErasureInv, EraseCalls
      <3>2. erasures'[handler[g].id] = erasures[handler[g].id]
        BY <1>1, <3>1
      <3> QED
        BY <1>1, <3>1, <3>2 DEF ErasureInv, SoundErasure, Timed
    <2>3. CASE g # h /\ handler[g] \notin EraseCalls
      BY <1>1, <2>3 DEF SoundErasure, Only
    <2> QED
      BY <2>1, <2>2, <2>3
  <1>8. \A f, g \in Handlers :
          handler'[f] \in EraseCalls /\ handler'[g] \in EraseCalls /\ handler'[f].id = handler'[g].id
            => f = g
    BY <1>1 DEF ErasureInv, Only, SameErasure
  <1> QED
    BY <1>1, <1>5, <1>6, <1>7, <1>8 DEF ErasureInv

LEMMA ErasureExecuted ==
  ASSUME Types, ErasureInv, NEW h \in Handlers, AuditExecution(h)
  PROVE  ErasureInv'
  <1> DEFINE c == handler[h]
             event == [id |-> c.id, outcome |-> Outcome(c)]
  <1>1. /\ Only(h) /\ c \in EraseCalls /\ IsAt(h, "auditExecution") /\ handler'[h] = None
        /\ trail' = [trail EXCEPT !.DataErasureExecuted = @ \cup {event}]
        /\ UNCHANGED <<erasures, timers, forgotten>>
    BY AuditExecutionTypes
  <1>2. event.id = c.id /\ event.outcome = Outcome(c)
    OBVIOUS
  <1>3. /\ c.id \in trail.DataErasureRequested
        /\ erasures[c.id] # None /\ erasures[c.id].outcome = Outcome(c)
    BY <1>1 DEF ErasureInv, SoundErasure, IsAt
  <1> HIDE DEF event
  <1>4. RecordsGrow /\ trail'.DataErasureExecuted = trail.DataErasureExecuted \cup {event}
    BY <1>1, RecordsGrowIf
  <1>5. \A id \in ErasureIds : SoundRecord(id)'
    BY <1>1, <1>4 DEF ErasureInv, SoundRecord, RecordsGrow, Timed
  <1>6. \A e \in trail'.DataErasureExecuted : SoundEvent(e)'
    BY <1>1, <1>2, <1>3, <1>4 DEF ErasureInv, SoundEvent, RecordsGrow
  <1>7. \A g \in Handlers : SoundErasure(g)'
    <2> SUFFICES ASSUME NEW g \in Handlers, handler'[g] \in EraseCalls
                 PROVE  SoundErasure(g)'
      BY DEF SoundErasure
    <2>1. g # h /\ handler'[g] = handler[g]
      BY <1>1, OneKind DEF Only
    <2>2. handler[g].id # event.id
      BY <1>1, <1>2, <2>1 DEF ErasureInv
    <2> QED
      BY <1>1, <1>4, <2>1, <2>2 DEF ErasureInv, SoundErasure, RecordsGrow, Timed
  <1>8. \A f, g \in Handlers :
          handler'[f] \in EraseCalls /\ handler'[g] \in EraseCalls /\ handler'[f].id = handler'[g].id
            => f = g
    BY <1>1, OneKind DEF ErasureInv, Only
  <1> QED
    BY <1>5, <1>6, <1>7, <1>8 DEF ErasureInv

\* A restart takes the records, and with them the handlers.
LEMMA ErasureForgotten ==
  ASSUME Types, ErasureInv, Restart
  PROVE  ErasureInv'
  <1>1. /\ \A h \in Handlers : handler'[h] = None
        /\ \A id \in ErasureIds : erasures'[id] = None
        /\ forgotten' = forgotten \cup {id \in ErasureIds : erasures[id] # None}
        /\ UNCHANGED trail
    BY RestartTypes
  <1>2. \A e \in trail.DataErasureExecuted : e.id \in ErasureIds
    BY DEF Types, Trails
  <1>3. \A e \in trail.DataErasureExecuted : e.id \in trail.DataErasureRequested /\ e.id \in forgotten'
    BY <1>1, <1>2 DEF ErasureInv, SoundEvent
  <1>4. \A h \in Handlers : handler'[h] \notin EraseCalls
    BY <1>1, OneKind
  <1> QED
    BY <1>1, <1>3, <1>4 DEF ErasureInv, SoundRecord, SoundEvent, SoundErasure

LEMMA ErasureInvInductive == Types /\ ErasureInv /\ [DeskNext]_deskVars => ErasureInv'
  <1> SUFFICES ASSUME Types, ErasureInv, [DeskNext]_deskVars
               PROVE  ErasureInv'
    OBVIOUS
  <1>1. CASE NextDay \/ UNCHANGED deskVars
    <2>1. UNCHANGED <<trail, erasures, timers, handler, forgotten>>
      BY <1>1, OtherTypes
    <2> QED
      BY <2>1 DEF ErasureInv, SoundRecord, SoundEvent, SoundErasure, Timed
  <1> QED
    BY <1>1, ErasureBegins, ErasureUntouched, ErasureRowSaved, ErasureAnnounced,
       ErasureScheduled, ErasureSaved, ErasureExecuted, ErasureForgotten, DeskSteps

LEMMA ErasureInitially == DeskInit => ErasureInv
  <1> SUFFICES ASSUME DeskInit
               PROVE  ErasureInv
    OBVIOUS
  <1>1. /\ \A h \in Handlers : handler[h] \notin EraseCalls
        /\ \A id \in ErasureIds : erasures[id] = None
        /\ trail.DataErasureExecuted = {}
    BY OneKind DEF DeskInit
  <1> QED
    BY <1>1 DEF ErasureInv, SoundRecord, SoundErasure

LEMMA ErasureInvHolds == DeskSpec => []ErasureInv
  BY TypesHold, ErasureInitially, ErasureInvInductive, PTL DEF DeskSpec

\* RequestDataErasureUseCase: an executed erasure is recorded with the outcome that
\* was announced, and one with a date has its timer, however many requests
\* overlap, wherever a handler fails; only a restart takes records.
THEOREM ErasuresAreRecorded == DeskSpec => []ErasureIsRecorded
  <1>1. Types /\ ErasureInv => ErasureIsRecorded
    <2> SUFFICES ASSUME Types, ErasureInv, NEW id \in ErasureIds, id \notin forgotten
                 PROVE  /\ \A e \in trail.DataErasureExecuted :
                             e.id = id => erasures[id] # None /\ erasures[id].outcome = e.outcome
                        /\ erasures[id] # None =>
                             /\ id \in trail.DataErasureRequested
                             /\ erasures[id].outcome.scheduled # None =>
                                  [id |-> id, fireAt |-> erasures[id].outcome.scheduled] \in timers
      BY DEF ErasureIsRecorded
    <2> QED
      BY DEF ErasureInv, SoundEvent, SoundRecord, Timed
  <1> QED
    BY <1>1, TypesHold, ErasureInvHolds, PTL

\* LegalHoldEvaluator and RequestDataErasureUseCase: a recorded erasure that was not
\* completed has the first day on which nothing holds it any more, or a hold
\* that has no end, for every set of dates and retention.
THEOREM SchedulesMeetReleases == DeskSpec => []ScheduleMeetsRelease
  <1>1. Types /\ ErasureInv => ScheduleMeetsRelease
    <2> SUFFICES ASSUME Types, ErasureInv, NEW id \in ErasureIds, erasures[id] # None,
                        erasures[id].outcome.status = "PARTIALLY_EXECUTED"
                 PROVE  IF erasures[id].outcome.scheduled = None
                        THEN erasures[id].command.reported # {}
                        ELSE /\ ~(Holds(erasures[id].command, erasures[id].outcome.scheduled) # {})
                             /\ \A day \in erasures[id].requestDate..(erasures[id].outcome.scheduled - 1) :
                                  Holds(erasures[id].command, day) # {}
      BY DEF ScheduleMeetsRelease
    <2> DEFINE command == erasures[id].command
               asOf == erasures[id].requestDate
               holds == Holds(command, asOf)
               date == LatestExpiry(holds)
    <2>1. command \in Commands /\ asOf \in Nat
      BY DEF Types, RowTypes, ErasureRecords
    <2>2. erasures[id].outcome = Outcome(erasures[id])
      BY DEF ErasureInv, SoundRecord
    <2>3. holds # {}
      BY <2>2 DEF Outcome
    <2>4. erasures[id].outcome.scheduled = date
      BY <2>2 DEF Outcome
    <2>5. IF date = None THEN command.reported # {}
          ELSE /\ date \in Nat /\ date > asOf
               /\ \A day \in Nat : Holds(command, day) = {} <=> day >= date
      BY <2>1, <2>3, ExpiryIsTheFirstFreeDay
    <2> HIDE DEF command, asOf, holds, date
    <2>6. CASE date = None
      BY <2>4, <2>5, <2>6 DEF command
    <2>7. CASE date # None
      <3>1. Holds(command, date) = {}
        BY <2>5, <2>7
      <3>2. ASSUME NEW day \in asOf..(date - 1)
            PROVE  Holds(command, day) # {}
        <4>1. day \in Nat /\ ~(day >= date)
          BY <2>1, <2>5, <2>7
        <4> QED
          BY <2>5, <2>7, <4>1
      <3> QED
        BY <2>4, <2>7, <3>1, <3>2 DEF command, asOf
    <2> QED
      BY <2>6, <2>7
  <1> QED
    BY <1>1, TypesHold, ErasureInvHolds, PTL


=============================================================================
