----------------------------- MODULE MCAuditChain -----------------------------
(***************************************************************************)
(* Instance of AuditChain: two writers, three events, four milliseconds.   *)
(***************************************************************************)
EXTENDS AuditChain, TLC

MCChainSymmetry == Permutations(Events) \cup Permutations(Writers)

=============================================================================
