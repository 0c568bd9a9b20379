-------------------------- MODULE MCKycOrchestration --------------------------
(***************************************************************************)
(* Instances of KycOrchestration.                                          *)
(***************************************************************************)
EXTENDS KycOrchestration, TLC

\* A customer with documents from earlier, but not the one that every tier asks
\* for, and maybe not another one either.
MCLacksAadhaar == {DocumentTypes \ {"AADHAAR"}}
MCLacksOneOrTwo == {DocumentTypes \ {"AADHAAR"}, DocumentTypes \ {"AADHAAR", "PAN"}}

MCSymmetry == Permutations(Requests) \cup Permutations(Handlers) \cup Permutations(Sessions)

=============================================================================
