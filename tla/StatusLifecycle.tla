--------------------------- MODULE StatusLifecycle ---------------------------
(***************************************************************************)
(* What a verification promises its customer, told without suspension      *)
(* memory, side effects or failures: the verification makes progress along *)
(* the edges below, compliance may put it on hold at any moment, and a     *)
(* hold, while it lasts, neither loses nor makes progress.                 *)
(***************************************************************************)

VARIABLES progress,  \* the status reached, holds left aside
          onHold     \* is the verification suspended?

lifecycleVars == <<progress, onHold>>

\* The edges of the life cycle, in the order a verification meets them.
Edges ==
  { <<"NOT_STARTED", "INITIATED">>,
    <<"INITIATED", "DOCUMENTS_PENDING">>,
    <<"DOCUMENTS_PENDING", "DOCUMENTS_RECEIVED">>,
    <<"DOCUMENTS_PENDING", "EXPIRED">>,
    <<"DOCUMENTS_RECEIVED", "VERIFICATION_IN_PROGRESS">>,
    <<"VERIFICATION_IN_PROGRESS", "VENDOR_CALLBACK_AWAITED">>,
    <<"VENDOR_CALLBACK_AWAITED", "VERIFICATION_IN_PROGRESS">>,
    <<"VENDOR_CALLBACK_AWAITED", "ESCALATED_TO_MANUAL">>,
    <<"VERIFICATION_IN_PROGRESS", "ESCALATED_TO_MANUAL">>,
    <<"VERIFICATION_IN_PROGRESS", "VERIFIED">>,
    <<"VERIFICATION_IN_PROGRESS", "REJECTED">>,
    <<"VERIFIED", "RE_VERIFICATION_REQUIRED">>,
    <<"RE_VERIFICATION_REQUIRED", "INITIATED">> }

LifecycleInit(starts) ==
  /\ progress \in starts
  /\ onHold = FALSE

Advance ==
  /\ ~onHold
  /\ <<progress, progress'>> \in Edges
  /\ UNCHANGED onHold

Hold ==
  /\ ~onHold
  /\ onHold' = TRUE
  /\ UNCHANGED progress

Release ==
  /\ onHold
  /\ onHold' = FALSE
  /\ UNCHANGED progress

LifecycleNext == Advance \/ Hold \/ Release

=============================================================================
