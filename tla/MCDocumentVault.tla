---------------------------- MODULE MCDocumentVault ----------------------------
(***************************************************************************)
(* Instance of DocumentVault: a document, two calls, three keys.           *)
(***************************************************************************)
EXTENDS DocumentVault, TLC

MCVaultSymmetry == Permutations(Documents) \cup Permutations(Calls)

=============================================================================
