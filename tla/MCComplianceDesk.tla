--------------------------- MODULE MCComplianceDesk ---------------------------
(***************************************************************************)
(* Instance of ComplianceDesk: two handlers at a time. The first           *)
(* assessment amounts to 60.5 points, the second to 80.                    *)
(***************************************************************************)
EXTENDS ComplianceDesk, TLC

MCAssessments ==
  { [productType |-> 69, transactionAnomaly |-> 76, jurisdictionalRisk |-> 62,
     pepStatus |-> 62, amlResults |-> 30],
    [productType |-> 80, transactionAnomaly |-> 80, jurisdictionalRisk |-> 80,
     pepStatus |-> 80, amlResults |-> 80] }

MCDeltas == {-30, 15}

MCApplications ==
  { [loan |-> 50000, isPep |-> FALSE, isHighRiskJurisdiction |-> FALSE],
    [loan |-> 50000, isPep |-> TRUE, isHighRiskJurisdiction |-> FALSE] }

MCSymmetry == Permutations(Handlers) \cup Permutations(ErasureIds)

=============================================================================
