--------------------------- MODULE KycOrchestration ---------------------------
(***************************************************************************)
(* The use cases that move one customer's verifications: initiate, upload  *)
(* a document, process a vendor webhook, recalculate the risk score and    *)
(* escalate the tier, as handlers that run concurrently in one process.    *)
(* Between two awaits a handler runs alone; every await may be the place   *)
(* where it fails or the process restarts. Rows are read whole, changed in *)
(* memory and saved whole. The state machine is the transition table, the  *)
(* workflow engine its possible results (WorkflowEngine!OutcomeContract),  *)
(* and a handler's audit events and notifications only ways of failing.    *)
(***************************************************************************)
EXTENDS TransitionTable, WorkflowConfig, FiniteSets

CONSTANTS
  Requests,          \* request identifiers
  Handlers,          \* HTTP requests that the server works on at a time
  Sessions,          \* bound on the video sessions that are ever created
  Verdicts,          \* how the vendor may end a session: completed, failed
  RequestedTiers,    \* the tiers that a loan or an officer may ask for
  InitialDocuments,  \* the document types a customer may have stored already
  UploadedTypes,     \* the document types that are uploaded
  EventIds,          \* may webhooks name their event: a set of truth values
  MaxRestarts,       \* bound on process restarts
  None               \* null

RequestRows == [tier : Tiers, status : Statuses]

ASSUME TiersAssumption == RequestedTiers \subseteq Tiers
ASSUME DocumentsAssumption ==
  InitialDocuments \subseteq SUBSET DocumentTypes /\ UploadedTypes \subseteq DocumentTypes
ASSUME VerdictsAssumption == Verdicts \subseteq {"completed", "failed"}
ASSUME EventIdsAssumption == EventIds \subseteq BOOLEAN
ASSUME BoundsAssumption == MaxRestarts \in Nat
ASSUME NoneAssumption ==
  /\ None \notin Statuses \cup Requests \cup Sessions \cup Tiers \cup Verdicts
  /\ None \notin RequestRows \cup [id : Requests, status : Statuses \cup {None}]

VARIABLES
  request,    \* verification_requests: a row per request, or None
  customer,   \* customers: the customer's row
  documents,  \* documents: the types of the customer's active documents
  timers,     \* requests with an active VENDOR_CALLBACK_TIMEOUT timer (in memory)
  sessions,   \* VideoKycAdapter.sessions (in memory)
  processed,  \* the webhook events marked as processed (in memory)
  asked,      \* the vendor's sessions: how each will end, or None
  handler,    \* the local variables of each handler that is running
  restarts,   \* process restarts so far
  lastSaved,  \* history: the status last saved for a request
  overtaken,  \* history: handlers about to save a customer status that is outdated
  torn        \* history: since the status was last mirrored, a handler has stopped
              \* before it mirrored its own, or an overtaken one has saved

rows == <<request, customer, documents>>
memory == <<timers, sessions, processed>>
history == <<lastSaved, overtaken, torn>>
vars == <<rows, memory, asked, handler, restarts, history>>

WebhookEvents == [session : Sessions, event : {"started"} \cup Verdicts, hasId : EventIds]
CustomerRows == [tier : Tiers, status : Statuses, highRisk : BOOLEAN]

Init ==
  /\ request = [r \in Requests |-> None]
  /\ customer = [tier |-> "MINIMUM", status |-> "NOT_STARTED", highRisk |-> FALSE]
  /\ documents \in InitialDocuments
  /\ timers = {}
  /\ sessions = [s \in Sessions |-> None]
  /\ processed = {}
  /\ asked = [s \in Sessions |-> None]
  /\ handler = [h \in Handlers |-> None]
  /\ restarts = 0
  /\ lastSaved = "NOT_STARTED"
  /\ overtaken = {}
  /\ torn = FALSE

-----------------------------------------------------------------------------
(***************************************************************************)
(* Handlers                                                                *)
(***************************************************************************)

\* A handler's local variables: what it was called with, the status of the request
\* row and the customer row as it read them, the state of its state machine and
\* the result of its vendor calls.
Call(kind, at, r, input) ==
  [kind |-> kind, at |-> at, request |-> r, input |-> input,
   found |-> None, row |-> None, machine |-> None, result |-> None]

IsFree(h) == handler[h] = None
IsAt(h, place) == handler[h] # None /\ handler[h].at = place
Begin(h, call) == handler' = [handler EXCEPT ![h] = call]
End(h) == handler' = [handler EXCEPT ![h] = None]

\* apply() on the handler's machine. The use cases pass a guard context in
\* which every guard they need is true, so only the table can refuse.
StatusesAfter(event, status) == {t.to : t \in Candidates(event, status)}

MandatoryStored(r) == MandatoryDocuments[request[r].tier] \subseteq documents

\* InitiateKycUseCase up to its first save: a fresh request id, the customer's
\* row, and a machine driven from NOT_STARTED by the two events.
InitiateKyc(h, r, tier) ==
  /\ IsFree(h)
  /\ request[r] = None
  /\ \A g \in Handlers : handler[g] # None => handler[g].request # r
  /\ \E initiated \in StatusesAfter("kyc.initiated", "NOT_STARTED") :
       \E pending \in StatusesAfter("docs.requested", initiated) :
         Begin(h, [Call("initiate", "saveRequest", r, tier) EXCEPT
                     !.row = customer, !.machine = pending])
  /\ UNCHANGED <<rows, memory, asked, restarts, history>>

\* Variant: the machine is built from the status of the customer's row.
UploadDocumentFromCustomer(h, r, documentType) ==
  /\ IsFree(h)
  /\ request[r] # None
  /\ Begin(h, [Call("upload", "readCustomer", r, documentType) EXCEPT
                 !.found = request[r].status, !.machine = customer.status])
  /\ UNCHANGED <<rows, memory, asked, restarts, history>>

\* UploadKycDocumentUseCase: the request is found, and its status remembered.
UploadDocument(h, r, documentType) ==
  /\ IsFree(h)
  /\ request[r] # None
  /\ Begin(h, [Call("upload", "readCustomer", r, documentType) EXCEPT
                 !.found = request[r].status, !.machine = request[r].status])
  /\ UNCHANGED <<rows, memory, asked, restarts, history>>

\* ProcessWebhookUseCase: the same, for an event of a session that the vendor
\* has: its start and its end, each sent once or more, in either order. The
\* request is the one that a header names, whatever the session was for.
ReceiveWebhook(h, r, e) ==
  /\ IsFree(h)
  /\ asked[e.session] # None
  /\ e.event \in {"started", asked[e.session]}
  /\ request[r] # None
  /\ Begin(h, [Call("webhook", "readCustomer", r, e) EXCEPT
                 !.found = request[r].status, !.machine = request[r].status])
  /\ UNCHANGED <<rows, memory, asked, restarts, history>>

\* RecalculateRiskScoreUseCase up to its only save.
RecalculateRisk(h, exceedsEddThreshold) ==
  /\ IsFree(h)
  /\ Begin(h, [Call("risk", "saveCustomer", None, exceedsEddThreshold) EXCEPT
                 !.row = customer])
  /\ UNCHANGED <<rows, memory, asked, restarts, history>>

\* EscalateKycTierUseCase: the target must be above the request's tier.
EscalateTier(h, r, targetTier) ==
  /\ IsFree(h)
  /\ request[r] # None
  /\ TierRank[targetTier] > TierRank[request[r].tier]
  /\ Begin(h, Call("escalate", "readCustomer", r, targetTier))
  /\ UNCHANGED <<rows, memory, asked, restarts, history>>

\* findById(customerId). An escalation that would not raise the customer's tier
\* has then nothing to save.
ReadCustomer(h) ==
  /\ IsAt(h, "readCustomer")
  /\ LET next == [upload |-> "storeDocument", webhook |-> "checkDuplicate",
                  escalate |-> "saveCustomer"][handler[h].kind]
     IN IF handler[h].kind = "escalate" /\ TierRank[handler[h].input] <= TierRank[customer.tier]
        THEN End(h)
        ELSE Begin(h, [handler[h] EXCEPT !.row = customer, !.at = next])
  /\ UNCHANGED <<rows, memory, asked, restarts, history>>

\* The document is stored before doc.uploaded is applied to the remembered
\* status; when the table refuses the event, the upload throws.
StoreDocument(h) ==
  /\ IsAt(h, "storeDocument")
  /\ documents' = documents \cup {handler[h].input}
  /\ LET received == StatusesAfter("doc.uploaded", handler[h].machine)
     IN \/ received = {} /\ End(h)
        \/ \E to \in received :
             Begin(h, [handler[h] EXCEPT !.machine = to, !.at = "checkDocuments"])
  /\ UNCHANGED <<request, customer, memory, asked, restarts, history>>

\* Variant: one stored document is taken for all of them.
CheckDocumentsAny(h) ==
  /\ IsAt(h, "checkDocuments")
  /\ \E to \in StatusesAfter("verify.start", handler[h].machine) :
       Begin(h, [handler[h] EXCEPT !.machine = to, !.at = "runWorkflow"])
  /\ UNCHANGED <<rows, memory, asked, restarts, history>>

\* The vendor workflow starts once the documents that the request's tier asks
\* for are stored; otherwise the upload ends with the documents received.
CheckDocuments(h) ==
  /\ IsAt(h, "checkDocuments")
  /\ IF MandatoryStored(handler[h].request)
     THEN \E to \in StatusesAfter("verify.start", handler[h].machine) :
            Begin(h, [handler[h] EXCEPT !.machine = to, !.at = "runWorkflow"])
     ELSE Begin(h, [handler[h] EXCEPT !.at = "saveRequest"])
  /\ UNCHANGED <<rows, memory, asked, restarts, history>>

\* Variant: the webhook handler asks only whether a step has failed.
EventAfterUnlessFailed(kind, result) ==
  CASE result = "failed"                                -> "step.failed"
    [] result = "awaitingManual"                        -> "risk.elevated"
    [] result = "awaitingCallback" /\ kind = "upload"   -> "vendor.async"
    [] OTHER                                            -> "all.passed"

\* The event each use case applies for the engine's result. Only the upload has
\* a case for a workflow that waits for a callback.
EventAfter(kind, result) ==
  CASE result = "awaitingManual"                        -> "risk.elevated"
    [] result = "awaitingCallback" /\ kind = "upload"   -> "vendor.async"
    [] result = "allSucceeded"                          -> "all.passed"
    [] OTHER                                            -> "step.failed"

\* executeWorkflow(), from its first step and without flags for both use cases.
\* A result that waits for a callback means that a video session was created.
RunWorkflow(h) ==
  /\ IsAt(h, "runWorkflow")
  /\ \E result \in EngineResults(Shipped[request[handler[h].request].tier], FALSE) :
       /\ \E to \in StatusesAfter(EventAfter(handler[h].kind, result), handler[h].machine) :
            Begin(h, [handler[h] EXCEPT
                        !.result = result,
                        !.machine = to,
                        !.at = IF to = "VENDOR_CALLBACK_AWAITED"
                               THEN "scheduleTimer" ELSE "saveRequest"])
       /\ IF result = "awaitingCallback"
          THEN \E s \in Sessions, verdict \in Verdicts :
                 /\ asked[s] = None
                 /\ asked' = [asked EXCEPT ![s] = verdict]
                 /\ sessions' = [sessions EXCEPT ![s] = "PENDING"]
          ELSE UNCHANGED <<asked, sessions>>
  /\ UNCHANGED <<rows, timers, processed, restarts, history>>

\* scheduleFixedTimer(VENDOR_CALLBACK_TIMEOUT).
ScheduleTimer(h) ==
  /\ IsAt(h, "scheduleTimer")
  /\ timers' = timers \cup {handler[h].request}
  /\ Begin(h, [handler[h] EXCEPT !.at = "saveRequest"])
  /\ UNCHANGED <<rows, sessions, processed, asked, restarts, history>>

\* hasBeenProcessed(eventId): a duplicate is acknowledged, nothing else. An event
\* without an identifier was given a random one, and is never a duplicate.
CheckDuplicate(h) ==
  /\ IsAt(h, "checkDuplicate")
  /\ IF handler[h].input \in processed
     THEN End(h)
     ELSE Begin(h, [handler[h] EXCEPT !.at = "markProcessed"])
  /\ UNCHANGED <<rows, memory, asked, restarts, history>>

\* The rest of handleCallback() up to and including markProcessed(): a session
\* that the process does not know makes it throw.
MarkProcessed(h) ==
  /\ IsAt(h, "markProcessed")
  /\ LET s == handler[h].input.session
         event == handler[h].input.event
     IN IF sessions[s] = None
        THEN End(h) /\ UNCHANGED <<sessions, processed>>
        ELSE /\ sessions' = [sessions EXCEPT ![s] =
                  CASE event = "completed" -> "COMPLETED"
                    [] event = "failed"    -> "FAILED"
                    [] event = "started"   -> @]
             /\ processed' = processed \cup
                  (IF handler[h].input.hasId THEN {handler[h].input} ELSE {})
             /\ Begin(h, [handler[h] EXCEPT !.at = "applyCallback"])
  /\ UNCHANGED <<rows, timers, asked, restarts, history>>

\* The adapter's answer is read from its session; every timer of the customer is
\* cancelled; then callback.rcvd is applied, or refused, in which case the
\* handler throws. A callback without a result fails the verification.
ApplyCallback(h) ==
  /\ IsAt(h, "applyCallback")
  /\ timers' = {}
  /\ LET completed == sessions[handler[h].input.session] = "COMPLETED"
         resumed == StatusesAfter("callback.rcvd", handler[h].machine)
     IN \/ resumed = {} /\ End(h)
        \/ \E to \in resumed :
             IF completed
             THEN Begin(h, [handler[h] EXCEPT !.machine = to, !.at = "runWorkflow"])
             ELSE \E failed \in StatusesAfter("step.failed", to) :
                    Begin(h, [handler[h] EXCEPT !.machine = failed, !.at = "saveRequest"])
  /\ UNCHANGED <<rows, sessions, processed, asked, restarts, history>>

\* The kinds of handlers that save a request and then mirror its status.
Mirrors(h) == handler[h].kind \in {"initiate", "upload", "webhook"}

BetweenSaves(h) == IsAt(h, "saveCustomer") /\ Mirrors(h)

\* A handler that keeps the status of the customer's row as it read it.
KeepsStatus(h) == IsAt(h, "saveCustomer") /\ ~Mirrors(h)

\* verificationRequestRepository.save(): an insert, or an update of the status. A
\* handler that has yet to mirror the status it saved before has been overtaken.
SaveRequest(h) ==
  /\ IsAt(h, "saveRequest")
  /\ LET r == handler[h].request
         tier == IF handler[h].kind = "initiate" THEN handler[h].input ELSE request[r].tier
     IN request' = [request EXCEPT ![r] = [tier |-> tier, status |-> handler[h].machine]]
  /\ lastSaved' = handler[h].machine
  /\ overtaken' = overtaken \cup {g \in Handlers : BetweenSaves(g)}
  /\ Begin(h, [handler[h] EXCEPT !.at = "saveCustomer"])
  /\ UNCHANGED <<customer, documents, memory, asked, restarts, torn>>

Raise(tier, to) == IF TierRank[to] > TierRank[tier] THEN to ELSE tier

\* Variant: the initiation assigns the selected tier without comparing.
RowToSaveAssigningTier(h) ==
  LET call == handler[h]
      row == [call.row EXCEPT !.status = IF Mirrors(h) THEN call.machine ELSE @]
  IN CASE call.kind = "initiate" -> [row EXCEPT !.tier = call.input]
       [] call.kind = "escalate" -> [row EXCEPT !.tier = Raise(@, call.input)]
       [] call.kind = "risk"     -> [row EXCEPT !.highRisk = call.input,
                                                !.tier = IF call.input THEN "EDD" ELSE @]
       [] OTHER                  -> row

\* Variant: every use case mirrors its machine, also the ones without one.
RowToSaveAlwaysMirroring(h) ==
  [handler[h].row EXCEPT !.status = handler[h].machine]

\* Variant: the status is mirrored only when it is a final one.
RowToSaveFinalOnly(h) ==
  LET call == handler[h]
      row == [call.row EXCEPT !.status =
                IF call.machine \in {"VERIFIED", "REJECTED"} THEN call.machine ELSE @]
  IN CASE call.kind \in {"initiate", "escalate"} -> [row EXCEPT !.tier = Raise(@, call.input)]
       [] call.kind = "risk" -> [row EXCEPT !.highRisk = call.input,
                                            !.tier = IF call.input THEN "EDD" ELSE @]
       [] OTHER              -> row

\* Variant: the tier and the score are written as columns of the present row
\* rather than of the row that was read.
RowToSaveMerging(h) ==
  LET call == handler[h]
  IN CASE call.kind \in {"initiate", "escalate"} ->
            [customer EXCEPT !.tier = Raise(call.row.tier, call.input),
                             !.status = IF Mirrors(h) THEN call.machine ELSE @]
       [] call.kind = "risk" -> [customer EXCEPT !.highRisk = call.input,
                                   !.tier = IF call.input THEN "EDD" ELSE call.row.tier]
       [] OTHER              -> [customer EXCEPT !.status = call.machine]

\* What the handler made of the row it read.
RowToSave(h) ==
  LET call == handler[h]
      row == [call.row EXCEPT !.status = IF Mirrors(h) THEN call.machine ELSE @]
  IN CASE call.kind \in {"initiate", "escalate"} -> [row EXCEPT !.tier = Raise(@, call.input)]
       [] call.kind = "risk" -> [row EXCEPT !.highRisk = call.input,
                                            !.tier = IF call.input THEN "EDD" ELSE @]
       [] OTHER              -> row

\* customerRepository.save(), the last await of every handler that gets here. When
\* it changes the status, the handlers that keep the one they read are overtaken.
SaveCustomer(h) ==
  /\ IsAt(h, "saveCustomer")
  /\ customer' = RowToSave(h)
  /\ torn' = (h \in overtaken \/ (torn /\ ~Mirrors(h)))
  /\ overtaken' = (overtaken \ {h}) \cup
       {g \in Handlers \ {h} : KeepsStatus(g) /\ (Mirrors(h) \/ h \in overtaken)}
  /\ End(h)
  /\ UNCHANGED <<request, documents, memory, asked, restarts, lastSaved>>

\* A handler whose status nobody mirrors if it stops here.
LeavesTorn(h) == BetweenSaves(h) /\ h \notin overtaken

\* Whatever the handler awaits rejects: a repository, the audit trail, the
\* notification port or the object store. Nothing is rolled back.
HandlerFails(h) ==
  /\ handler[h] # None
  /\ torn' = (torn \/ LeavesTorn(h))
  /\ overtaken' = overtaken \ {h}
  /\ End(h)
  /\ UNCHANGED <<rows, memory, asked, restarts, lastSaved>>

\* The process stops and starts: what is kept in memory is lost.
Restart ==
  /\ restarts < MaxRestarts
  /\ restarts' = restarts + 1
  /\ torn' = (torn \/ \E h \in Handlers : LeavesTorn(h))
  /\ overtaken' = {}
  /\ handler' = [h \in Handlers |-> None]
  /\ timers' = {}
  /\ sessions' = [s \in Sessions |-> None]
  /\ processed' = {}
  /\ UNCHANGED <<rows, asked, lastSaved>>

Start(h) ==
  \/ \E r \in Requests :
       \/ \E tier \in RequestedTiers : InitiateKyc(h, r, tier)
       \/ \E documentType \in UploadedTypes : UploadDocument(h, r, documentType)
       \/ \E tier \in RequestedTiers : EscalateTier(h, r, tier)
       \/ \E e \in WebhookEvents : ReceiveWebhook(h, r, e)
  \/ \E exceeds \in BOOLEAN : RecalculateRisk(h, exceeds)

Continue(h) ==
  \/ ReadCustomer(h)
  \/ StoreDocument(h)
  \/ CheckDocuments(h)
  \/ RunWorkflow(h)
  \/ ScheduleTimer(h)
  \/ CheckDuplicate(h)
  \/ MarkProcessed(h)
  \/ ApplyCallback(h)
  \/ SaveRequest(h)
  \/ SaveCustomer(h)

Next ==
  \/ \E h \in Handlers : Start(h) \/ Continue(h) \/ HandlerFails(h)
  \/ Restart

Spec == Init /\ [][Next]_vars

-----------------------------------------------------------------------------
(***************************************************************************)
(* Properties                                                              *)
(***************************************************************************)

Inputs == [initiate |-> Tiers, upload |-> DocumentTypes, webhook |-> WebhookEvents,
           risk |-> BOOLEAN, escalate |-> Tiers]
Places ==
  [initiate |-> {"saveRequest", "saveCustomer"},
   upload   |-> {"readCustomer", "storeDocument", "checkDocuments", "runWorkflow",
                 "scheduleTimer", "saveRequest", "saveCustomer"},
   webhook  |-> {"readCustomer", "checkDuplicate", "markProcessed", "applyCallback",
                 "runWorkflow", "saveRequest", "saveCustomer"},
   risk     |-> {"saveCustomer"},
   escalate |-> {"readCustomer", "saveCustomer"}]

CallRecords(kind) ==
  [kind : {kind}, at : Places[kind], request : Requests \cup {None}, input : Inputs[kind],
   found : Statuses \cup {None}, row : CustomerRows \cup {None},
   machine : Statuses \cup {None},
   result : {None, "failed", "allSucceeded", "awaitingManual", "awaitingCallback"}]

ASSUME NotACallAssumption == \A kind \in DOMAIN Places : None \notin CallRecords(kind)

\* The local variables of a handler: where it may be and what it holds there.
CallOK(call) ==
  /\ call = [kind |-> call.kind, at |-> call.at, request |-> call.request,
             input |-> call.input, found |-> call.found, row |-> call.row,
             machine |-> call.machine, result |-> call.result]
  /\ call.kind \in DOMAIN Places
  /\ call.at \in Places[call.kind]
  /\ call.input \in Inputs[call.kind]
  /\ call.found \in IF call.kind \in {"upload", "webhook"} THEN Statuses ELSE {None}
  /\ call.row \in CustomerRows \/ (call.at = "readCustomer" /\ call.row = None)
  /\ call.request \in IF call.kind = "risk" THEN {None} ELSE Requests
  /\ call.machine \in IF call.kind \in {"risk", "escalate"} THEN {None} ELSE Statuses
  /\ call.result \in {None, "failed", "allSucceeded", "awaitingManual", "awaitingCallback"}
  /\ call.kind \in {"upload", "webhook", "escalate"} => request[call.request] # None

\* Types of the rows, the process memory and the handlers.
TypeOK ==
  /\ request \in [Requests -> RequestRows \cup {None}]
  /\ customer \in CustomerRows
  /\ documents \subseteq DocumentTypes
  /\ timers \subseteq Requests
  /\ sessions \in [Sessions -> {None, "PENDING", "COMPLETED", "FAILED"}]
  /\ processed \subseteq WebhookEvents
  /\ asked \in [Sessions -> Verdicts \cup {None}]
  /\ \A h \in Handlers : handler[h] # None => CallOK(handler[h])
  /\ DOMAIN handler = Handlers
  /\ restarts \in 0..MaxRestarts
  /\ lastSaved \in Statuses
  /\ overtaken \subseteq {h \in Handlers : IsAt(h, "saveCustomer")}
  /\ torn \in BOOLEAN

\* A customer whose stored score exceeds the threshold is stored as EDD, however
\* the read-modify-write cycles of the use cases interleave and fail: the two
\* columns are only ever written together.
HighRiskIsEdd == customer.highRisk => customer.tier = "EDD"

\* A request is only ever stored as VERIFIED with every document that its tier
\* asks for in the store, whichever snapshots the handlers worked with.
VerifiedHasDocuments ==
  \A r \in Requests :
    request[r] # None /\ request[r].status = "VERIFIED" => MandatoryStored(r)

\* No EDD request is stored as VERIFIED, by a late, repeated or overlapping
\* webhook either: its workflow has a review that no use case marks approved.
EddNeedsReview ==
  \A r \in Requests :
    request[r] # None /\ request[r].tier = "EDD" => request[r].status # "VERIFIED"

\* What the handlers make of the stored requests, told by RequestLifecycle: however
\* they overlap, fail and restart, each save is a life-cycle move from the status
\* that its handler found, hence from the stored one unless it was overtaken.
Lifecycle == INSTANCE RequestLifecycle WITH
  Ids <- Requests,
  Writers <- Handlers,
  Absent <- None,
  Idle <- None,
  stored <- [r \in Requests |-> IF request[r] = None THEN None ELSE request[r].status],
  reading <- [h \in Handlers |->
                IF handler[h] # None /\ Mirrors(h) /\ handler[h].at # "saveCustomer"
                THEN [id |-> handler[h].request, status |-> handler[h].found]
                ELSE None]

RequestsKeepLifecycle == Lifecycle!LifecycleSpec

\* The customer's tier is lowered, if ever, by a lost update only: by a handler that
\* saves a row which it read before others raised the tier, and then not below the
\* tier it read. A small loan after a large one or a lower score never lowers it.
TierFallsOnlyToWhatWasRead ==
  [][TierRank[customer'.tier] < TierRank[customer.tier] =>
       \E h \in Handlers :
         /\ SaveCustomer(h)
         /\ handler[h].row # customer
         /\ TierRank[handler[h].row.tier] <= TierRank[customer'.tier]]_vars

\* The customer's row shows the status of the request row that was saved last,
\* except while the handler that saved it has yet to mirror it, and after a handler
\* stopped there or saved a status that was outdated: a row never disagrees for any
\* other reason, and agrees again once a handler that nobody overtook mirrors.
StatusMirrored ==
  ~torn /\ (\A h \in Handlers : ~LeavesTorn(h)) => customer.status = lastSaved

-----------------------------------------------------------------------------
(***************************************************************************)
(* What comments and tests of the repository say, and the code does not do *)
(***************************************************************************)

\* A completed session rejects the verification only when a vendor step fails.
CallbackResumesWorkflow ==
  \A h \in Handlers :
    /\ handler[h] # None
    /\ handler[h].kind = "webhook"
    /\ handler[h].machine = "REJECTED"
    /\ handler[h].result # None
    => handler[h].result = "failed"

=============================================================================
