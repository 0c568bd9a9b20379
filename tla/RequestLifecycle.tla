--------------------------- MODULE RequestLifecycle ---------------------------
(***************************************************************************)
(* What the stored statuses of verification requests promise: a request is *)
(* created waiting for documents, moves only forward, waits for a vendor   *)
(* at most once, and a decision stands. Nothing is locked: a writer reads  *)
(* the status of a request and later saves the one it made of it, whatever *)
(* others have saved meanwhile. So the promise holds between what a writer *)
(* read and what it saves, and of what is stored unless writers overlap.   *)
(***************************************************************************)

CONSTANTS Ids, Writers, Absent, Idle
VARIABLES
  stored,  \* the status of each request, or Absent
  reading  \* what each writer has read: the request and its status, or Idle

lifecycleVars == <<stored, reading>>

Decisions == {"VERIFIED", "REJECTED", "ESCALATED_TO_MANUAL"}

Moves ==
  {<<Absent, "DOCUMENTS_PENDING">>}
  \cup ({"DOCUMENTS_PENDING"} \X
          ({"DOCUMENTS_RECEIVED", "VENDOR_CALLBACK_AWAITED"} \cup Decisions))
  \cup ({"VENDOR_CALLBACK_AWAITED"} \X Decisions)

LifecycleInit ==
  /\ stored = [r \in Ids |-> Absent]
  /\ reading = [w \in Writers |-> Idle]

Read(w, r) ==
  /\ reading[w] = Idle
  /\ reading' = [reading EXCEPT ![w] = [id |-> r, status |-> stored[r]]]
  /\ UNCHANGED stored

\* A creation is never overtaken: nobody else knows the new request.
Save(w, to) ==
  /\ reading[w] # Idle
  /\ <<reading[w].status, to>> \in Moves
  /\ reading[w].status = Absent => stored[reading[w].id] = Absent
  /\ stored' = [stored EXCEPT ![reading[w].id] = to]
  /\ reading' = [reading EXCEPT ![w] = Idle]

\* Writers may stop before they save, also all at once.
GiveUp(stopped) ==
  /\ reading' = [w \in Writers |-> IF w \in stopped THEN Idle ELSE reading[w]]
  /\ UNCHANGED stored

LifecycleNext ==
  \/ \E stopped \in SUBSET Writers : GiveUp(stopped)
  \/ \E w \in Writers, r \in Ids : Read(w, r)
  \/ \E w \in Writers, to \in {move[2] : move \in Moves} : Save(w, to)

LifecycleSpec == LifecycleInit /\ [][LifecycleNext]_lifecycleVars

=============================================================================
