------------------------------ MODULE RiskScoring ------------------------------
(***************************************************************************)
(* The risk score of a customer, and the tier that an application is       *)
(* verified under. Factors are whole points from 0 to 100, as are scores;  *)
(* the weights are in hundredths, so that a weighted total is a whole      *)
(* number of hundredths of a point until it is rounded.                    *)
(***************************************************************************)
EXTENDS WorkflowConfig

MaxPoints == 100
EddThreshold == 60

Points == 0..MaxPoints

Factors == [productType : Points, transactionAnomaly : Points, jurisdictionalRisk : Points,
            pepStatus : Points, amlResults : Points]

\* The weighted total, in hundredths of a point.
WeightedTotal(f) ==
  20 * f.productType + 25 * f.transactionAnomaly + 20 * f.jurisdictionalRisk
    + 15 * f.pepStatus + 20 * f.amlResults

\* Math.min(Math.max(value, MIN), MAX).
Clamped(value) == IF value < 0 THEN 0 ELSE IF value > MaxPoints THEN MaxPoints ELSE value

\* Math.round() of a total. The code sums products of floating-point numbers:
\* what is half a point may come out below it, and is then rounded down.
RoundedScores(total) ==
  IF total % 100 = 50 THEN {total \div 100, total \div 100 + 1} ELSE {(total + 50) \div 100}

\* calculateWeightedScore(), the scores that it may return. A weighted total of
\* valid factors needs no clamping.
WeightedScores(f) == RoundedScores(WeightedTotal(f))

\* Variant: the sum is not clamped.
AfterDeltasUnclamped(score, points) == score + points

\* applyDeltas(), for the sum of the deltas.
AfterDeltas(score, points) == Clamped(score + points)

ExceedsEddThreshold(score) == score > EddThreshold

\* TierSelector.selectTier(), loans in rupees.
SelectTier(loan, isPep, isHighRiskJurisdiction) ==
  IF isPep \/ isHighRiskJurisdiction \/ loan > 5000000 THEN "EDD"
  ELSE IF loan < 50000 THEN "MINIMUM" ELSE "FULL"

=============================================================================
