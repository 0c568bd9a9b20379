----------------------------- MODULE MCVendorCalls -----------------------------
(***************************************************************************)
(* Instance of VendorCalls: each vendor in turn, with small windows.       *)
(* Without symmetry, as liveness is checked.                               *)
(***************************************************************************)
EXTENDS VendorCalls

=============================================================================
