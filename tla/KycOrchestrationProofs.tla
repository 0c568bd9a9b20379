------------------------ MODULE KycOrchestrationProofs ------------------------
(***************************************************************************)
(* Proofs about KycOrchestration, for any number of requests, handlers,    *)
(* sessions and restarts, and for every interleaving of the handlers.      *)
(***************************************************************************)
EXTENDS KycOrchestration, TLAPS

(***************************************************************************)
(* Facts about the table and the workflows                                 *)
(***************************************************************************)

\* Where the events that the use cases apply lead from a status.
LEMMA Steps ==
  \A status :
    /\ \A to \in StatusesAfter("kyc.initiated", status) : to = "INITIATED"
    /\ \A to \in StatusesAfter("docs.requested", status) : to = "DOCUMENTS_PENDING"
    /\ \A to \in StatusesAfter("doc.uploaded", status) :
         to = "DOCUMENTS_RECEIVED" /\ status = "DOCUMENTS_PENDING"
    /\ \A to \in StatusesAfter("verify.start", status) : to = "VERIFICATION_IN_PROGRESS"
    /\ \A to \in StatusesAfter("callback.rcvd", status) :
         to = "VERIFICATION_IN_PROGRESS" /\ status = "VENDOR_CALLBACK_AWAITED"
    /\ \A to \in StatusesAfter("vendor.async", status) :
         to = "VENDOR_CALLBACK_AWAITED" /\ status = "VERIFICATION_IN_PROGRESS"
    /\ \A to \in StatusesAfter("all.passed", status) :
         to = "VERIFIED" /\ status = "VERIFICATION_IN_PROGRESS"
    /\ \A to \in StatusesAfter("step.failed", status) : to = "REJECTED"
    /\ \A to \in StatusesAfter("risk.elevated", status) : to = "ESCALATED_TO_MANUAL"
  BY DEF StatusesAfter, Candidates, TRANSITIONS, Row, ANY

LEMMA RaiseSound ==
  ASSUME NEW tier \in Tiers, NEW to \in Tiers
  PROVE  /\ Raise(tier, to) \in Tiers
         /\ tier = "EDD" => Raise(tier, to) = "EDD"
         /\ TierRank[Raise(tier, to)] >= TierRank[tier]
  BY DEF Raise, Tiers, TierRank

Results == {"failed", "allSucceeded", "awaitingManual", "awaitingCallback"}

LEMMA ResultsTyped ==
  ASSUME NEW steps, NEW approved
  PROVE  EngineResults(steps, approved) \subseteq Results
  BY DEF EngineResults, Results

\* The review without approval, or the video session before it, ends every run
\* of the EDD workflow that does not fail.
LEMMA EddNeverSucceeds == "allSucceeded" \notin EngineResults(Shipped["EDD"], FALSE)
  <1> DEFINE video == AsyncStep(3, "video-kyc-session", "VIDEO_KYC")
             review == ManualStep(6, "compliance-officer-review")
             halting == HaltingSteps(Edd, FALSE)
  <1>1. Shipped["EDD"] = Edd
    BY DEF Shipped, Tiers
  <1>2. video.order = 3 /\ review.order = 6
    BY DEF AsyncStep, ManualStep, Step
  <1>3. video \in halting
    BY DEF HaltingSteps, WaitsForVendor, AsyncVendors, Edd, AsyncStep, Step
  <1>4. ASSUME NEW t \in Edd, t # video, t # review
        PROVE  t.isAsync = FALSE /\ t.isManual = FALSE
    <2>1. \A n, name, vendor, guard :
            LET s == Step(n, name, vendor, guard)
            IN s.isAsync = FALSE /\ s.isManual = FALSE
      BY DEF Step
    <2>2. \A g, n, name, vendor, guard :
            LET s == InGroup(g, Step(n, name, vendor, guard))
            IN s.isAsync = FALSE /\ s.isManual = FALSE
      BY DEF Step, InGroup
    <2> QED
      BY <1>4, <2>1, <2>2 DEF Edd
  <1>5. ASSUME NEW t \in halting
        PROVE  video.order <= t.order
    <2>1. t = video \/ t = review
      BY <1>4 DEF HaltingSteps, WaitsForVendor
    <2> QED
      BY <1>2, <2>1
  <1>6. video \in FirstHalt(Edd, FALSE)
    BY <1>3, <1>5 DEF FirstHalt
  <1> QED
    BY <1>1, <1>6 DEF EngineResults

-----------------------------------------------------------------------------
(***************************************************************************)
(* The inductive invariant                                                 *)
(***************************************************************************)

\* The statuses that a request may be given only when its documents are stored.
Careful == {"VERIFICATION_IN_PROGRESS", "VENDOR_CALLBACK_AWAITED", "VERIFIED"}

StatusSound(r, status) ==
  /\ status \in Careful => MandatoryStored(r)
  /\ request[r].tier = "EDD" => status # "VERIFIED"

RowSound(row) == row.highRisk => row.tier = "EDD"

Decisions == {"VERIFIED", "REJECTED", "ESCALATED_TO_MANUAL"}

\* How far an upload that is at some place has taken its machine from the status
\* that it found its request with.
UploadOnCourse(found, at, machine) ==
  /\ at \in {"readCustomer", "storeDocument"} => machine = found
  /\ at \notin {"readCustomer", "storeDocument"} => found = "DOCUMENTS_PENDING"
  /\ at = "checkDocuments" => machine = "DOCUMENTS_RECEIVED"
  /\ at = "runWorkflow" => machine = "VERIFICATION_IN_PROGRESS"
  /\ at = "scheduleTimer" => machine = "VENDOR_CALLBACK_AWAITED"
  /\ at \in {"saveRequest", "saveCustomer"} =>
       machine \in {"DOCUMENTS_RECEIVED", "VENDOR_CALLBACK_AWAITED"} \cup Decisions

\* The same for a webhook.
WebhookOnCourse(found, at, machine) ==
  /\ at \in {"readCustomer", "checkDuplicate", "markProcessed", "applyCallback"} =>
       machine = found
  /\ at \in {"runWorkflow", "saveRequest", "saveCustomer"} => found = "VENDOR_CALLBACK_AWAITED"
  /\ at = "runWorkflow" => machine = "VERIFICATION_IN_PROGRESS"
  /\ at \in {"saveRequest", "saveCustomer"} => machine \in Decisions

OnCourse(kind, found, at, machine) ==
  /\ kind = "initiate" => machine = "DOCUMENTS_PENDING"
  /\ kind = "upload" => UploadOnCourse(found, at, machine)
  /\ kind = "webhook" => WebhookOnCourse(found, at, machine)

\* A call that is about to insert its request.
Inserting(call) == call.kind = "initiate" /\ call.at = "saveRequest"

CallSound(call) ==
  /\ CallOK(call)
  /\ OnCourse(call.kind, call.found, call.at, call.machine)
  /\ call.at # "readCustomer" => RowSound(call.row)
  /\ Inserting(call) => request[call.request] = None /\ call.machine \notin Careful
  /\ call.kind \in {"upload", "webhook"} => StatusSound(call.request, call.machine)

\* The calls are quantified over apart from the handlers so that what is known
\* of a call can be carried from a state to the next.
HandlersSound ==
  /\ DOMAIN handler = Handlers
  /\ \A call : \A h \in Handlers : handler[h] = call /\ call # None => CallSound(call)
  /\ \A g, h \in Handlers :
       /\ handler[g] # None /\ handler[h] # None
       /\ Inserting(handler[g]) /\ Inserting(handler[h])
       /\ handler[g].request = handler[h].request
       => g = h

RowsSound ==
  /\ request \in [Requests -> RequestRows \cup {None}]
  /\ customer \in CustomerRows /\ RowSound(customer)
  /\ documents \subseteq DocumentTypes
  /\ \A r \in Requests : request[r] # None => StatusSound(r, request[r].status)

MemorySound ==
  /\ timers \subseteq Requests
  /\ sessions \in [Sessions -> {None, "PENDING", "COMPLETED", "FAILED"}]
  /\ processed \subseteq WebhookEvents
  /\ asked \in [Sessions -> Verdicts \cup {None}]

HistorySound ==
  /\ restarts \in 0..MaxRestarts
  /\ lastSaved \in Statuses
  /\ torn \in BOOLEAN

\* Why the customer's status is the one last saved: the handler that will mirror it
\* still holds it, unless overtaken, and so do the handlers that keep it as it is.
MirrorSound ==
  /\ overtaken \subseteq {h \in Handlers : IsAt(h, "saveCustomer")}
  /\ StatusMirrored
  /\ \A h \in Handlers : LeavesTorn(h) => handler[h].machine = lastSaved
  /\ \A h \in Handlers : KeepsStatus(h) /\ h \notin overtaken =>
                           handler[h].row.status = customer.status

IInv == HandlersSound /\ RowsSound /\ MemorySound /\ HistorySound /\ MirrorSound

LEMMA IInvImplies ==
  IInv => TypeOK /\ HighRiskIsEdd /\ VerifiedHasDocuments /\ EddNeedsReview /\ StatusMirrored
  <1> SUFFICES ASSUME IInv
               PROVE  /\ TypeOK /\ HighRiskIsEdd /\ VerifiedHasDocuments
                      /\ EddNeedsReview /\ StatusMirrored
    OBVIOUS
  <1>1. TypeOK
    BY DEF IInv, HandlersSound, CallSound, RowsSound, MemorySound, HistorySound,
      MirrorSound, TypeOK
  <1>2. HighRiskIsEdd
    BY DEF IInv, RowsSound, RowSound, HighRiskIsEdd
  <1>3. VerifiedHasDocuments
    BY DEF IInv, RowsSound, StatusSound, Careful, VerifiedHasDocuments
  <1>4. EddNeedsReview
    BY DEF IInv, RowsSound, StatusSound, EddNeedsReview
  <1>5. StatusMirrored
    BY DEF IInv, MirrorSound
  <1> QED
    BY <1>1, <1>2, <1>3, <1>4, <1>5

LEMMA InitIInv == Init => IInv
  <1> SUFFICES ASSUME Init
               PROVE  IInv
    OBVIOUS
  <1>1. HandlersSound
    BY DEF Init, HandlersSound
  <1>2. RowsSound
    BY DocumentsAssumption
    DEF Init, RowsSound, RowSound, CustomerRows, Tiers, Statuses
  <1>3. MemorySound
    BY DEF Init, MemorySound
  <1>4. restarts \in 0..MaxRestarts
    BY BoundsAssumption DEF Init
  <1>5. lastSaved \in Statuses /\ torn \in BOOLEAN
    BY DEF Init, Statuses
  <1>6. MirrorSound
    BY DEF Init, MirrorSound, StatusMirrored, LeavesTorn, BetweenSaves, KeepsStatus, IsAt
  <1> QED
    BY <1>1, <1>2, <1>3, <1>4, <1>5, <1>6 DEF IInv, HistorySound

-----------------------------------------------------------------------------
(***************************************************************************)
(* What a step does to the handlers                                        *)
(***************************************************************************)

\* Requests keep their tiers, and documents stay stored.
KeepsRows ==
  /\ documents \subseteq documents'
  /\ \A r \in Requests :
       request[r] # None => request'[r] # None /\ request'[r].tier = request[r].tier

\* What is sound stays sound when rows are kept.
LEMMA StatusStaysSound ==
  ASSUME KeepsRows, NEW r \in Requests, request[r] # None, NEW status,
         StatusSound(r, status)
  PROVE  StatusSound(r, status)'
  BY DEF KeepsRows, StatusSound, MandatoryStored

LEMMA CallStaysSound ==
  ASSUME KeepsRows, NEW call, CallSound(call),
         Inserting(call) => request'[call.request] = None
  PROVE  CallSound(call)'
  <1>1. CallOK(call)'
    BY DEF CallSound, CallOK, KeepsRows
  <1>2. ASSUME call.kind \in {"upload", "webhook"}
        PROVE  StatusSound(call.request, call.machine)'
    <2>1. call.request \in Requests /\ request[call.request] # None
      BY <1>2 DEF CallSound, CallOK
    <2> QED
      BY <1>2, <2>1, StatusStaysSound DEF CallSound
  <1> QED
    BY <1>1, <1>2 DEF CallSound, Inserting, RowSound

\* A handler's step: its call ends, or goes on as a call that is sound. Nobody
\* else's insertion is overtaken.
LEMMA HandlerStep ==
  ASSUME HandlersSound, KeepsRows, NEW h \in Handlers,
         \A g \in Handlers \ {h} :
           handler[g] # None /\ Inserting(handler[g]) =>
             request'[handler[g].request] = None,
         \/ End(h)
         \/ \E call :
              /\ Begin(h, call)
              /\ CallSound(call)'
              /\ Inserting(call) => \A g \in Handlers \ {h} :
                   handler[g] # None => handler[g].request # call.request
  PROVE  HandlersSound'
  <1>1. \A call : \A g \in Handlers \ {h} :
          handler[g] = call /\ call # None => CallSound(call)'
    BY CallStaysSound DEF HandlersSound
  <1>2. CASE End(h)
    <2>1. DOMAIN handler' = Handlers /\ handler'[h] = None
      BY <1>2 DEF End, HandlersSound
    <2>2. \A g \in Handlers \ {h} : handler'[g] = handler[g]
      BY <1>2 DEF End, HandlersSound
    <2>3. \A call : \A g \in Handlers : handler'[g] = call /\ call # None => CallSound(call)'
      BY <1>1, <2>1, <2>2
    <2> QED
      BY <2>1, <2>2, <2>3 DEF HandlersSound, Inserting
  <1>3. ASSUME NEW new, Begin(h, new), CallSound(new)',
               Inserting(new) => \A g \in Handlers \ {h} :
                 handler[g] # None => handler[g].request # new.request
        PROVE  HandlersSound'
    <2>1. DOMAIN handler' = Handlers /\ handler'[h] = new
      BY <1>3 DEF Begin, HandlersSound
    <2>2. \A g \in Handlers \ {h} : handler'[g] = handler[g]
      BY <1>3 DEF Begin, HandlersSound
    <2>3. \A call : \A g \in Handlers : handler'[g] = call /\ call # None => CallSound(call)'
      BY <1>1, <1>3, <2>1, <2>2
    <2>4. \A f, g \in Handlers :
            /\ handler'[f] # None /\ handler'[g] # None
            /\ Inserting(handler'[f]) /\ Inserting(handler'[g])
            /\ handler'[f].request = handler'[g].request
            => f = g
      BY <1>3, <2>1, <2>2 DEF HandlersSound, Inserting
    <2> QED
      BY <2>1, <2>3, <2>4 DEF HandlersSound, Inserting
  <1> QED
    BY <1>2, <1>3

\* Most steps leave the rows alone.
LEMMA RowlessStep ==
  ASSUME IInv, UNCHANGED rows, NEW h \in Handlers,
         \/ End(h)
         \/ \E call :
              /\ Begin(h, call)
              /\ CallSound(call)
              /\ Inserting(call) => \A g \in Handlers \ {h} :
                   handler[g] # None => handler[g].request # call.request
  PROVE  HandlersSound' /\ RowsSound'
  <1>1. KeepsRows /\ RowsSound'
    BY DEF KeepsRows, rows, IInv, RowsSound, StatusSound, MandatoryStored
  <1>2. \A g \in Handlers :
          handler[g] # None /\ Inserting(handler[g]) => request'[handler[g].request] = None
    BY DEF rows, IInv, HandlersSound, CallSound
  <1>3. \A call : CallSound(call) => CallSound(call)'
    BY <1>1, CallStaysSound DEF rows, CallSound
  <1> QED
    BY <1>1, <1>2, <1>3, HandlerStep DEF IInv

\* A handler that runs is told from one that does not.
LEMMA CallIsNotNone ==
  ASSUME NEW call, CallOK(call)
  PROVE  call # None
  <1>1. /\ call.kind \in {call.kind} /\ call.at \in Places[call.kind]
        /\ call.request \in Requests \cup {None} /\ call.input \in Inputs[call.kind]
        /\ call.found \in Statuses \cup {None}
        /\ call.row \in CustomerRows \cup {None} /\ call.machine \in Statuses \cup {None}
        /\ call.result \in {None, "failed", "allSucceeded", "awaitingManual",
                            "awaitingCallback"}
    BY DEF CallOK
  <1>2. /\ call = [kind |-> call.kind, at |-> call.at, request |-> call.request,
                   input |-> call.input, found |-> call.found, row |-> call.row,
                   machine |-> call.machine, result |-> call.result]
        /\ call.kind \in DOMAIN Places
    BY DEF CallOK
  <1>3. call \in CallRecords(call.kind)
    BY <1>1, <1>2 DEF CallRecords
  <1> QED
    BY <1>2, <1>3, NotACallAssumption

-----------------------------------------------------------------------------
(***************************************************************************)
(* What a step means to the life cycle of requests and to the mirror       *)
(***************************************************************************)

Mirroring(call) == call.kind \in {"initiate", "upload", "webhook"}

\* What the life cycle sees of a call: the request, and the status that was found,
\* until a new one is saved.
ReadOf(call) ==
  IF call # None /\ Mirroring(call) /\ call.at # "saveCustomer"
  THEN [id |-> call.request, status |-> call.found]
  ELSE None

\* What the life cycle sees of the rows.
Stored == [r \in Requests |-> IF request[r] = None THEN None ELSE request[r].status]

\* A call that is about to save the customer, having saved no request, has just
\* read the customer's row.
JustRead(call) == call.at = "saveCustomer" => ~Mirroring(call) /\ call.row = customer

\* A handler that starts reads one stored status, or none.
Starting(h) ==
  /\ handler[h] = None
  /\ UNCHANGED <<request, customer, history>>
  /\ \E new :
       /\ Begin(h, new)
       /\ JustRead(new)
       /\ \/ ReadOf(new) = None
          \/ \E r \in Requests : ReadOf(new) = [id |-> r, status |-> Stored[r]]

GoesOn(old, new) ==
  /\ CallSound(new)
  /\ ~Inserting(new)
  /\ ReadOf(new) = ReadOf(old)
  /\ JustRead(new)

\* A handler that goes on to its saves keeps in mind what it has read.
Continuing(h) ==
  /\ handler[h] # None
  /\ handler[h].at # "saveCustomer"
  /\ UNCHANGED <<request, customer, history>>
  /\ End(h) \/ \E new : Begin(h, new) /\ GoesOn(handler[h], new)

LEMMA StartingStep ==
  ASSUME IInv, UNCHANGED <<rows, history>>, NEW h \in Handlers, handler[h] = None,
         NEW new, Begin(h, new), CallSound(new), JustRead(new),
         Inserting(new) => \A g \in Handlers \ {h} :
           handler[g] # None => handler[g].request # new.request,
         \/ ReadOf(new) = None
         \/ \E r \in Requests : ReadOf(new) = [id |-> r, status |-> Stored[r]]
  PROVE  HandlersSound' /\ RowsSound' /\ Starting(h)
  <1>1. HandlersSound' /\ RowsSound'
    BY RowlessStep
  <1>2. Starting(h)
    BY DEF Starting, rows
  <1> QED
    BY <1>1, <1>2

LEMMA ContinuingStep ==
  ASSUME IInv, UNCHANGED <<rows, history>>, NEW h \in Handlers, handler[h] # None,
         handler[h].at # "saveCustomer",
         End(h) \/ \E new : Begin(h, new) /\ GoesOn(handler[h], new)
  PROVE  HandlersSound' /\ RowsSound' /\ Continuing(h)
  <1>1. HandlersSound' /\ RowsSound'
    BY RowlessStep DEF GoesOn
  <1>2. Continuing(h)
    BY DEF Continuing, rows
  <1> QED
    BY <1>1, <1>2

-----------------------------------------------------------------------------
(***************************************************************************)
(* The steps that start a handler                                          *)
(***************************************************************************)

LEMMA InitiateKycSound ==
  ASSUME IInv, NEW h \in Handlers, NEW r \in Requests, NEW tier \in RequestedTiers,
         InitiateKyc(h, r, tier)
  PROVE  HandlersSound' /\ RowsSound' /\ Starting(h)
  <1>1. PICK call :
          /\ Begin(h, call)
          /\ call = [Call("initiate", "saveRequest", r, tier) EXCEPT
                       !.row = customer, !.machine = "DOCUMENTS_PENDING"]
    BY Steps DEF InitiateKyc
  <1>2. call = [kind |-> "initiate", at |-> "saveRequest", request |-> r, input |-> tier,
                found |-> None, row |-> customer, machine |-> "DOCUMENTS_PENDING",
                result |-> None]
    BY <1>1 DEF Call
  <1>3. CallOK(call)
    BY <1>2, TiersAssumption DEF CallOK, Places, Inputs, IInv, RowsSound, Statuses
  <1>4. CallSound(call)
    BY <1>2, <1>3 DEF CallSound, OnCourse, Inserting, Careful, InitiateKyc, IInv, RowsSound
  <1>5. \A g \in Handlers \ {h} : handler[g] # None => handler[g].request # call.request
    BY <1>2 DEF InitiateKyc
  <1>6. ReadOf(call) = [id |-> r, status |-> Stored[r]]
    BY <1>2, <1>3, CallIsNotNone DEF ReadOf, Mirroring, Stored, InitiateKyc
  <1>7. JustRead(call)
    BY <1>2 DEF JustRead
  <1>8. Begin(h, call)
    BY <1>1
  <1>9. handler[h] = None /\ UNCHANGED <<rows, history>>
    BY DEF InitiateKyc, IsFree
  <1> QED
    BY <1>4, <1>5, <1>6, <1>7, <1>8, <1>9, StartingStep

LEMMA UploadDocumentSound ==
  ASSUME IInv, NEW h \in Handlers, NEW r \in Requests, NEW documentType \in UploadedTypes,
         UploadDocument(h, r, documentType)
  PROVE  HandlersSound' /\ RowsSound' /\ Starting(h)
  <1>0. PICK status : status = request[r].status
    OBVIOUS
  <1>1. /\ request[r] # None /\ request[r] \in RequestRows
        /\ StatusSound(r, status) /\ status \in Statuses
    BY <1>0 DEF UploadDocument, IInv, RowsSound, RequestRows
  <1>2. PICK call :
          /\ Begin(h, call)
          /\ call = [Call("upload", "readCustomer", r, documentType) EXCEPT
                       !.found = status, !.machine = status]
    BY <1>0 DEF UploadDocument
  <1>3. call = [kind |-> "upload", at |-> "readCustomer", request |-> r,
                input |-> documentType, found |-> status, row |-> None,
                machine |-> status, result |-> None]
    BY <1>2 DEF Call
  <1>4. CallOK(call)
    BY <1>1, <1>3, DocumentsAssumption DEF CallOK, Places, Inputs, RequestRows
  <1>5. CallSound(call) /\ ~Inserting(call)
    BY <1>1, <1>3, <1>4 DEF CallSound, OnCourse, UploadOnCourse, Inserting
  <1>6. ReadOf(call) = [id |-> r, status |-> Stored[r]] /\ JustRead(call)
    BY <1>0, <1>1, <1>3, <1>4, CallIsNotNone DEF ReadOf, Mirroring, Stored, JustRead
  <1>7. Begin(h, call)
    BY <1>2
  <1>8. handler[h] = None /\ UNCHANGED <<rows, history>>
    BY DEF UploadDocument, IsFree
  <1> QED
    BY <1>5, <1>6, <1>7, <1>8, StartingStep

LEMMA ReceiveWebhookSound ==
  ASSUME IInv, NEW h \in Handlers, NEW r \in Requests, NEW e \in WebhookEvents,
         ReceiveWebhook(h, r, e)
  PROVE  HandlersSound' /\ RowsSound' /\ Starting(h)
  <1>0. PICK status : status = request[r].status
    OBVIOUS
  <1>1. /\ request[r] # None /\ request[r] \in RequestRows
        /\ StatusSound(r, status) /\ status \in Statuses
    BY <1>0 DEF ReceiveWebhook, IInv, RowsSound, RequestRows
  <1>2. PICK call :
          /\ Begin(h, call)
          /\ call = [Call("webhook", "readCustomer", r, e) EXCEPT
                       !.found = status, !.machine = status]
    BY <1>0 DEF ReceiveWebhook
  <1>3. call = [kind |-> "webhook", at |-> "readCustomer", request |-> r,
                input |-> e, found |-> status, row |-> None,
                machine |-> status, result |-> None]
    BY <1>2 DEF Call
  <1>4. CallOK(call)
    BY <1>1, <1>3 DEF CallOK, Places, Inputs, RequestRows
  <1>5. CallSound(call) /\ ~Inserting(call)
    BY <1>1, <1>3, <1>4 DEF CallSound, OnCourse, WebhookOnCourse, Inserting
  <1>6. ReadOf(call) = [id |-> r, status |-> Stored[r]] /\ JustRead(call)
    BY <1>0, <1>1, <1>3, <1>4, CallIsNotNone DEF ReadOf, Mirroring, Stored, JustRead
  <1>7. Begin(h, call)
    BY <1>2
  <1>8. handler[h] = None /\ UNCHANGED <<rows, history>>
    BY DEF ReceiveWebhook, IsFree
  <1> QED
    BY <1>5, <1>6, <1>7, <1>8, StartingStep

LEMMA RecalculateRiskSound ==
  ASSUME IInv, NEW h \in Handlers, NEW exceeds \in BOOLEAN, RecalculateRisk(h, exceeds)
  PROVE  HandlersSound' /\ RowsSound' /\ Starting(h)
  <1>1. PICK call :
          /\ Begin(h, call)
          /\ call = [kind |-> "risk", at |-> "saveCustomer", request |-> None,
                     input |-> exceeds, found |-> None, row |-> customer,
                     machine |-> None, result |-> None]
    BY DEF RecalculateRisk, Call
  <1>2. CallOK(call)
    BY <1>1 DEF CallOK, Places, Inputs, IInv, RowsSound
  <1>3. CallSound(call) /\ ~Inserting(call)
    BY <1>1, <1>2 DEF CallSound, OnCourse, Inserting, IInv, RowsSound
  <1>4. ReadOf(call) = None /\ JustRead(call)
    BY <1>1 DEF ReadOf, Mirroring, JustRead
  <1>5. Begin(h, call)
    BY <1>1
  <1>6. handler[h] = None /\ UNCHANGED <<rows, history>>
    BY DEF RecalculateRisk, IsFree
  <1> QED
    BY <1>3, <1>4, <1>5, <1>6, StartingStep

LEMMA EscalateTierSound ==
  ASSUME IInv, NEW h \in Handlers, NEW r \in Requests, NEW targetTier \in RequestedTiers,
         EscalateTier(h, r, targetTier)
  PROVE  HandlersSound' /\ RowsSound' /\ Starting(h)
  <1>1. PICK call :
          /\ Begin(h, call)
          /\ call = [kind |-> "escalate", at |-> "readCustomer", request |-> r,
                     input |-> targetTier, found |-> None, row |-> None,
                     machine |-> None, result |-> None]
    BY DEF EscalateTier, Call
  <1>2. CallOK(call)
    BY <1>1, TiersAssumption DEF CallOK, Places, Inputs, EscalateTier
  <1>3. CallSound(call) /\ ~Inserting(call)
    BY <1>1, <1>2 DEF CallSound, OnCourse, Inserting
  <1>4. ReadOf(call) = None /\ JustRead(call)
    BY <1>1 DEF ReadOf, Mirroring, JustRead
  <1>5. Begin(h, call)
    BY <1>1
  <1>6. handler[h] = None /\ UNCHANGED <<rows, history>>
    BY DEF EscalateTier, IsFree
  <1> QED
    BY <1>3, <1>4, <1>5, <1>6, StartingStep

-----------------------------------------------------------------------------
(***************************************************************************)
(* The steps between a handler's start and its saves                       *)
(***************************************************************************)

\* The call of a handler at some place.
LEMMA CurrentCall ==
  ASSUME IInv, NEW h \in Handlers, handler[h] # None
  PROVE  CallSound(handler[h])
  BY DEF IInv, HandlersSound

\* A call at another place, with another row, status and result.
Advanced(old, at, row, machine, result) ==
  [kind |-> old.kind, at |-> at, request |-> old.request, input |-> old.input,
   found |-> old.found, row |-> row, machine |-> machine, result |-> result]

LEMMA AdvancedOK ==
  ASSUME NEW old, CallOK(old), NEW at \in Places[old.kind], NEW row \in CustomerRows,
         NEW machine,
         machine = old.machine \/ (old.kind \notin {"risk", "escalate"} /\ machine \in Statuses),
         NEW result, result = old.result \/ result \in Results
  PROVE  CallOK(Advanced(old, at, row, machine, result))
  BY DEF CallOK, Results, Advanced

\* The same for calls whose machine does not leave what is sound, nor its course.
LEMMA AdvancedSound ==
  ASSUME NEW old, CallSound(old), old # None, old.kind \in {"upload", "webhook"},
         old.at \notin {"readCustomer", "saveCustomer"},
         NEW at \in Places[old.kind] \ {"readCustomer", "saveCustomer"},
         NEW machine \in Statuses, StatusSound(old.request, machine),
         OnCourse(old.kind, old.found, at, machine),
         NEW result, result = old.result \/ result \in Results
  PROVE  GoesOn(old, Advanced(old, at, old.row, machine, result))
  <1>0. PICK new : new = Advanced(old, at, old.row, machine, result)
    OBVIOUS
  <1>1. CallOK(old) /\ old.row \in CustomerRows
    BY DEF CallSound, CallOK
  <1>2. CallOK(new)
    BY <1>0, <1>1, AdvancedOK
  <1>3. /\ new.kind = old.kind /\ new.at = at /\ new.row = old.row
        /\ new.request = old.request /\ new.machine = machine /\ new.found = old.found
    BY <1>0 DEF Advanced
  <1>4. CallSound(new) /\ ~Inserting(new)
    BY <1>2, <1>3 DEF CallSound, Inserting
  <1>5. ReadOf(new) = ReadOf(old) /\ JustRead(new)
    BY <1>2, <1>3, CallIsNotNone DEF ReadOf, Mirroring, JustRead
  <1> QED
    BY <1>0, <1>4, <1>5 DEF GoesOn

LEMMA ReadCustomerSound ==
  ASSUME IInv, NEW h \in Handlers, ReadCustomer(h)
  PROVE  HandlersSound' /\ RowsSound' /\ Continuing(h)
  <1> DEFINE old == handler[h]
             place == [upload |-> "storeDocument", webhook |-> "checkDuplicate",
                       escalate |-> "saveCustomer"][old.kind]
  <1>1. old # None /\ old.at = "readCustomer" /\ CallSound(old) /\ CallOK(old)
    BY CurrentCall DEF ReadCustomer, IsAt, CallSound
  <1>2. place \in Places[old.kind] /\ place # "saveRequest" /\ place # "readCustomer"
    BY <1>1 DEF CallOK, Places
  <1>3. customer \in CustomerRows /\ RowSound(customer)
    BY DEF IInv, RowsSound
  <1>6. \/ old.kind = "upload" /\ place = "storeDocument"
        \/ old.kind = "webhook" /\ place = "checkDuplicate"
        \/ old.kind = "escalate" /\ place = "saveCustomer"
    BY <1>1 DEF CallOK, Places
  <1>4. ASSUME NEW new, new = [old EXCEPT !.row = customer, !.at = place]
        PROVE  GoesOn(old, new)
    <2> HIDE DEF old, place
    <2>1. new = Advanced(old, place, customer, old.machine, old.result)
      BY <1>1, <1>4 DEF CallOK, Advanced
    <2>2. CallOK(new)
      BY <1>1, <1>2, <1>3, <2>1, AdvancedOK
    <2>3. /\ new.kind = old.kind /\ new.at = place /\ new.row = customer
          /\ new.request = old.request /\ new.machine = old.machine /\ new.found = old.found
      BY <2>1 DEF Advanced
    <2>4. OnCourse(new.kind, new.found, new.at, new.machine)
      BY <1>1, <1>6, <2>3 DEF CallSound, OnCourse, UploadOnCourse, WebhookOnCourse
    <2>5. CallSound(new) /\ ~Inserting(new)
      BY <1>1, <1>2, <1>3, <2>2, <2>3, <2>4 DEF CallSound, Inserting
    <2>6. ReadOf(new) = ReadOf(old) /\ JustRead(new)
      BY <1>1, <1>6, <2>2, <2>3, CallIsNotNone DEF ReadOf, Mirroring, JustRead
    <2> QED
      BY <2>5, <2>6 DEF GoesOn
  <1>5. End(h) \/ \E new : Begin(h, new) /\ new = [old EXCEPT !.row = customer, !.at = place]
    BY DEF ReadCustomer
  <1>7. UNCHANGED <<rows, history>> /\ old # None /\ old.at # "saveCustomer"
    BY <1>1 DEF ReadCustomer
  <1> HIDE DEF place
  <1> QED
    BY <1>4, <1>5, <1>7, ContinuingStep

\* How the steps of an upload or a webhook go on.
LEMMA AdvancingCall ==
  ASSUME IInv, NEW h \in Handlers, handler[h] # None,
         handler[h].kind \in {"upload", "webhook"},
         handler[h].at \notin {"readCustomer", "saveCustomer"},
         NEW at \in Places[handler[h].kind] \ {"readCustomer", "saveCustomer"},
         NEW machine \in Statuses, StatusSound(handler[h].request, machine),
         OnCourse(handler[h].kind, handler[h].found, at, machine),
         NEW result, result = handler[h].result \/ result \in Results,
         NEW new,
         \/ /\ new = [handler[h] EXCEPT !.at = at]
            /\ machine = handler[h].machine /\ result = handler[h].result
         \/ /\ new = [handler[h] EXCEPT !.machine = machine, !.at = at]
            /\ result = handler[h].result
         \/ new = [handler[h] EXCEPT !.result = result, !.machine = machine, !.at = at]
  PROVE  GoesOn(handler[h], new)
  <1> DEFINE old == handler[h]
  <1>1. CallSound(old) /\ CallOK(old)
    BY CurrentCall DEF CallSound
  <1>2. new = Advanced(old, at, old.row, machine, result)
    BY <1>1 DEF CallOK, Advanced
  <1> HIDE DEF old
  <1> QED
    BY <1>1, <1>2, AdvancedSound DEF old

LEMMA CheckDocumentsSound ==
  ASSUME IInv, NEW h \in Handlers, CheckDocuments(h)
  PROVE  HandlersSound' /\ RowsSound' /\ Continuing(h)
  <1> DEFINE old == handler[h]
  <1>1. old # None /\ old.at = "checkDocuments" /\ CallSound(old)
    BY CurrentCall DEF CheckDocuments, IsAt
  <1>2. /\ old.kind = "upload" /\ old.machine = "DOCUMENTS_RECEIVED"
        /\ old.found = "DOCUMENTS_PENDING"
        /\ StatusSound(old.request, old.machine)
    BY <1>1 DEF CallSound, CallOK, Places, OnCourse, UploadOnCourse
  <1>3. /\ {"runWorkflow", "saveRequest"} \subseteq Places[old.kind]
        /\ {"DOCUMENTS_RECEIVED", "VERIFICATION_IN_PROGRESS"} \subseteq Statuses
    BY <1>2 DEF Places, Statuses
  <1>4. ASSUME NEW new, MandatoryStored(old.request),
               new = [old EXCEPT !.machine = "VERIFICATION_IN_PROGRESS", !.at = "runWorkflow"]
        PROVE  GoesOn(old, new)
    <2>1. StatusSound(old.request, "VERIFICATION_IN_PROGRESS")
      BY <1>4 DEF StatusSound
    <2>2. OnCourse(old.kind, old.found, "runWorkflow", "VERIFICATION_IN_PROGRESS")
      BY <1>2 DEF OnCourse, UploadOnCourse
    <2> QED
      BY <1>1, <1>2, <1>3, <1>4, <2>1, <2>2, AdvancingCall
  <1>5. ASSUME NEW new, new = [old EXCEPT !.at = "saveRequest"]
        PROVE  GoesOn(old, new)
    <2>1. OnCourse(old.kind, old.found, "saveRequest", old.machine)
      BY <1>2 DEF OnCourse, UploadOnCourse
    <2> QED
      BY <1>1, <1>2, <1>3, <1>5, <2>1, AdvancingCall
  <1>6. \E new :
          /\ Begin(h, new)
          /\ \/ /\ MandatoryStored(old.request)
                /\ new = [old EXCEPT !.machine = "VERIFICATION_IN_PROGRESS", !.at = "runWorkflow"]
             \/ new = [old EXCEPT !.at = "saveRequest"]
    BY Steps DEF CheckDocuments
  <1>7. UNCHANGED <<rows, history>>
    BY DEF CheckDocuments
  <1> QED
    BY <1>1, <1>4, <1>5, <1>6, <1>7, ContinuingStep

LEMMA StoreDocumentSound ==
  ASSUME IInv, NEW h \in Handlers, StoreDocument(h)
  PROVE  HandlersSound' /\ RowsSound' /\ Continuing(h)
  <1> DEFINE old == handler[h]
  <1>1. old # None /\ old.at = "storeDocument" /\ CallSound(old)
    BY CurrentCall DEF StoreDocument, IsAt
  <1>2. /\ old.kind = "upload" /\ old.input \in DocumentTypes /\ old.request \in Requests
        /\ old.machine = old.found
    BY <1>1 DEF CallSound, CallOK, Places, Inputs, OnCourse, UploadOnCourse
  <1>3. "checkDocuments" \in Places[old.kind]
    BY <1>2 DEF Places
  <1>4. KeepsRows
    BY DEF StoreDocument, KeepsRows
  <1>5. RowsSound'
    <2>1. /\ documents' \subseteq DocumentTypes
          /\ UNCHANGED <<request, customer>>
      BY <1>2 DEF StoreDocument, IInv, RowsSound
    <2>2. \A r \in Requests : request[r] # None => StatusSound(r, request[r].status)'
      BY <1>4, <2>1 DEF IInv, RowsSound, KeepsRows, StatusSound, MandatoryStored
    <2> QED
      BY <2>1, <2>2 DEF IInv, RowsSound, RowSound
  <1>6. ASSUME NEW new, old.machine = "DOCUMENTS_PENDING",
               new = [old EXCEPT !.machine = "DOCUMENTS_RECEIVED", !.at = "checkDocuments"]
        PROVE  GoesOn(old, new) /\ CallSound(new)'
    <2>1. StatusSound(old.request, "DOCUMENTS_RECEIVED")
      BY DEF StatusSound, Careful
    <2>2. "DOCUMENTS_RECEIVED" \in Statuses
      BY DEF Statuses
    <2>3. OnCourse(old.kind, old.found, "checkDocuments", "DOCUMENTS_RECEIVED")
      BY <1>2, <1>6 DEF OnCourse, UploadOnCourse
    <2>4. GoesOn(old, new)
      BY <1>1, <1>2, <1>3, <1>6, <2>1, <2>2, <2>3, AdvancingCall
    <2> QED
      BY <1>4, <2>4, CallStaysSound DEF GoesOn
  <1>7. \/ End(h)
        \/ \E new : /\ Begin(h, new)
                    /\ old.machine = "DOCUMENTS_PENDING"
                    /\ new = [old EXCEPT !.machine = "DOCUMENTS_RECEIVED",
                                         !.at = "checkDocuments"]
    BY Steps DEF StoreDocument
  <1>8. \A g \in Handlers :
          handler[g] # None /\ Inserting(handler[g]) => request'[handler[g].request] = None
    BY DEF StoreDocument, IInv, HandlersSound, CallSound
  <1>9. HandlersSound'
    BY <1>4, <1>6, <1>7, <1>8, HandlerStep DEF IInv, GoesOn
  <1>10. UNCHANGED <<request, customer, history>>
    BY DEF StoreDocument
  <1>11. Continuing(h)
    BY <1>1, <1>6, <1>7, <1>10 DEF Continuing
  <1> QED
    BY <1>5, <1>9, <1>11

\* The workflow leaves an upload waiting for a vendor or decided, a webhook decided.
LEMMA RunWorkflowSound ==
  ASSUME IInv, NEW h \in Handlers, RunWorkflow(h)
  PROVE  HandlersSound' /\ RowsSound' /\ Continuing(h)
  <1> DEFINE old == handler[h]
             steps == Shipped[request[old.request].tier]
  <1>1. old # None /\ old.at = "runWorkflow" /\ CallSound(old)
    BY CurrentCall DEF RunWorkflow, IsAt
  <1>2. /\ old.kind \in {"upload", "webhook"} /\ old.machine \in Statuses
        /\ old.request \in Requests /\ request[old.request] # None
        /\ StatusSound(old.request, old.machine)
        /\ old.kind = "upload" => old.found = "DOCUMENTS_PENDING"
        /\ old.kind = "webhook" => old.found = "VENDOR_CALLBACK_AWAITED"
    BY <1>1 DEF CallSound, CallOK, Places, OnCourse, UploadOnCourse, WebhookOnCourse
  <1>3. PICK result \in EngineResults(steps, FALSE) :
          \E to \in StatusesAfter(EventAfter(old.kind, result), old.machine) :
            Begin(h, [old EXCEPT !.result = result, !.machine = to,
                                 !.at = IF to = "VENDOR_CALLBACK_AWAITED"
                                        THEN "scheduleTimer" ELSE "saveRequest"])
    BY DEF RunWorkflow
  <1>4. PICK to \in StatusesAfter(EventAfter(old.kind, result), old.machine) :
          Begin(h, [old EXCEPT !.result = result, !.machine = to,
                               !.at = IF to = "VENDOR_CALLBACK_AWAITED"
                                      THEN "scheduleTimer" ELSE "saveRequest"])
    BY <1>3
  <1> DEFINE at == IF to = "VENDOR_CALLBACK_AWAITED" THEN "scheduleTimer" ELSE "saveRequest"
  <1>5. result \in Results
    BY ResultsTyped
  <1>6. EventAfter(old.kind, result) \in
          {"risk.elevated", "vendor.async", "all.passed", "step.failed"}
    BY DEF EventAfter
  <1>7. \/ to = "ESCALATED_TO_MANUAL"
        \/ to = "REJECTED"
        \/ /\ to = "VENDOR_CALLBACK_AWAITED" /\ old.machine = "VERIFICATION_IN_PROGRESS"
           /\ EventAfter(old.kind, result) = "vendor.async"
        \/ /\ to = "VERIFIED" /\ old.machine = "VERIFICATION_IN_PROGRESS"
           /\ EventAfter(old.kind, result) = "all.passed"
    <2> HIDE DEF old
    <2> QED
      BY <1>6, Steps
  <1>8. StatusSound(old.request, to) /\ to \in Statuses
    <2>1. to \in Careful => MandatoryStored(old.request)
      BY <1>2, <1>7 DEF StatusSound, Careful
    <2>2. ASSUME request[old.request].tier = "EDD", to = "VERIFIED"
          PROVE  FALSE
      <3>1. result = "allSucceeded"
        BY <1>5, <1>7, <2>2 DEF EventAfter, Results
      <3> QED
        BY <2>2, <3>1, EddNeverSucceeds
    <2> QED
      BY <1>7, <2>1, <2>2 DEF StatusSound, Statuses
  <1>9. to = "VENDOR_CALLBACK_AWAITED" => old.kind = "upload"
    BY <1>2, <1>7 DEF EventAfter
  <1>10. at \in Places[old.kind] \ {"readCustomer", "saveCustomer"}
    BY <1>2, <1>9 DEF Places
  <1>11. OnCourse(old.kind, old.found, at, to)
    BY <1>2, <1>7, <1>9 DEF OnCourse, UploadOnCourse, WebhookOnCourse, Decisions
  <1>12. ASSUME NEW new, new = [old EXCEPT !.result = result, !.machine = to, !.at = at]
         PROVE  GoesOn(old, new)
    BY <1>1, <1>2, <1>5, <1>8, <1>10, <1>11, <1>12, AdvancingCall
  <1>13. UNCHANGED <<rows, history>>
    BY DEF RunWorkflow
  <1> QED
    BY <1>1, <1>4, <1>12, <1>13, ContinuingStep

\* The steps that only go on to another place.
LEMMA PlainStep ==
  ASSUME IInv, NEW h \in Handlers, handler[h] # None,
         handler[h].kind \in {"upload", "webhook"},
         handler[h].at \notin {"readCustomer", "saveCustomer"},
         UNCHANGED <<rows, history>>,
         NEW at \in Places[handler[h].kind] \ {"readCustomer", "saveCustomer"},
         OnCourse(handler[h].kind, handler[h].found, at, handler[h].machine),
         End(h) \/ Begin(h, [handler[h] EXCEPT !.at = at])
  PROVE  HandlersSound' /\ RowsSound' /\ Continuing(h)
  <1> DEFINE old == handler[h]
  <1>1. CallSound(old)
    BY CurrentCall
  <1>2. old.machine \in Statuses /\ StatusSound(old.request, old.machine)
    BY <1>1 DEF CallSound, CallOK
  <1>3. ASSUME NEW new, new = [old EXCEPT !.at = at]
        PROVE  GoesOn(old, new)
    BY <1>1, <1>2, <1>3, AdvancingCall
  <1> QED
    BY <1>3, ContinuingStep

LEMMA ScheduleTimerSound ==
  ASSUME IInv, NEW h \in Handlers, ScheduleTimer(h)
  PROVE  HandlersSound' /\ RowsSound' /\ Continuing(h)
  <1> DEFINE old == handler[h]
  <1>1. old # None /\ old.at = "scheduleTimer" /\ CallSound(old)
    BY CurrentCall DEF ScheduleTimer, IsAt
  <1>2. old.kind = "upload" /\ "saveRequest" \in Places[old.kind]
    BY <1>1 DEF CallSound, CallOK, Places
  <1>3. OnCourse(old.kind, old.found, "saveRequest", old.machine)
    BY <1>1, <1>2 DEF CallSound, OnCourse, UploadOnCourse
  <1>4. Begin(h, [old EXCEPT !.at = "saveRequest"])
    BY DEF ScheduleTimer
  <1>5. UNCHANGED <<rows, history>>
    BY DEF ScheduleTimer
  <1> QED
    BY <1>1, <1>2, <1>3, <1>4, <1>5, PlainStep

LEMMA CheckDuplicateSound ==
  ASSUME IInv, NEW h \in Handlers, CheckDuplicate(h)
  PROVE  HandlersSound' /\ RowsSound' /\ Continuing(h)
  <1> DEFINE old == handler[h]
  <1>1. old # None /\ old.at = "checkDuplicate" /\ CallSound(old)
    BY CurrentCall DEF CheckDuplicate, IsAt
  <1>2. old.kind = "webhook" /\ "markProcessed" \in Places[old.kind]
    BY <1>1 DEF CallSound, CallOK, Places
  <1>3. OnCourse(old.kind, old.found, "markProcessed", old.machine)
    BY <1>1, <1>2 DEF CallSound, OnCourse, WebhookOnCourse
  <1>4. End(h) \/ Begin(h, [old EXCEPT !.at = "markProcessed"])
    BY DEF CheckDuplicate
  <1>5. UNCHANGED <<rows, history>>
    BY DEF CheckDuplicate
  <1> QED
    BY <1>1, <1>2, <1>3, <1>4, <1>5, PlainStep

LEMMA MarkProcessedSound ==
  ASSUME IInv, NEW h \in Handlers, MarkProcessed(h)
  PROVE  HandlersSound' /\ RowsSound' /\ Continuing(h)
  <1> DEFINE old == handler[h]
  <1>1. old # None /\ old.at = "markProcessed" /\ CallSound(old)
    BY CurrentCall DEF MarkProcessed, IsAt
  <1>2. old.kind = "webhook" /\ "applyCallback" \in Places[old.kind]
    BY <1>1 DEF CallSound, CallOK, Places
  <1>3. OnCourse(old.kind, old.found, "applyCallback", old.machine)
    BY <1>1, <1>2 DEF CallSound, OnCourse, WebhookOnCourse
  <1>4. End(h) \/ Begin(h, [old EXCEPT !.at = "applyCallback"])
    BY DEF MarkProcessed
  <1>5. UNCHANGED <<rows, history>>
    BY DEF MarkProcessed
  <1> QED
    BY <1>1, <1>2, <1>3, <1>4, <1>5, PlainStep

LEMMA ApplyCallbackSound ==
  ASSUME IInv, NEW h \in Handlers, ApplyCallback(h)
  PROVE  HandlersSound' /\ RowsSound' /\ Continuing(h)
  <1> DEFINE old == handler[h]
  <1>1. old # None /\ old.at = "applyCallback" /\ CallSound(old)
    BY CurrentCall DEF ApplyCallback, IsAt
  <1>2. /\ old.kind = "webhook" /\ StatusSound(old.request, old.machine)
        /\ {"runWorkflow", "saveRequest"} \subseteq Places[old.kind]
        /\ old.machine = old.found
    BY <1>1 DEF CallSound, CallOK, Places, OnCourse, WebhookOnCourse
  <1>3. ASSUME NEW new, old.machine = "VENDOR_CALLBACK_AWAITED",
               new = [old EXCEPT !.machine = "VERIFICATION_IN_PROGRESS", !.at = "runWorkflow"]
        PROVE  GoesOn(old, new)
    <2>1. /\ StatusSound(old.request, "VERIFICATION_IN_PROGRESS")
          /\ "VERIFICATION_IN_PROGRESS" \in Statuses
      BY <1>2, <1>3 DEF StatusSound, Careful, Statuses
    <2>2. OnCourse(old.kind, old.found, "runWorkflow", "VERIFICATION_IN_PROGRESS")
      BY <1>2, <1>3 DEF OnCourse, WebhookOnCourse
    <2> QED
      BY <1>1, <1>2, <1>3, <2>1, <2>2, AdvancingCall
  <1>4. ASSUME NEW new, old.machine = "VENDOR_CALLBACK_AWAITED",
               new = [old EXCEPT !.machine = "REJECTED", !.at = "saveRequest"]
        PROVE  GoesOn(old, new)
    <2>1. StatusSound(old.request, "REJECTED") /\ "REJECTED" \in Statuses
      BY DEF StatusSound, Careful, Statuses
    <2>2. OnCourse(old.kind, old.found, "saveRequest", "REJECTED")
      BY <1>2, <1>4 DEF OnCourse, WebhookOnCourse, Decisions
    <2> QED
      BY <1>1, <1>2, <1>4, <2>1, <2>2, AdvancingCall
  <1>5. \/ End(h)
        \/ \E new :
             /\ Begin(h, new)
             /\ old.machine = "VENDOR_CALLBACK_AWAITED"
             /\ \/ new = [old EXCEPT !.machine = "VERIFICATION_IN_PROGRESS",
                                     !.at = "runWorkflow"]
                \/ new = [old EXCEPT !.machine = "REJECTED", !.at = "saveRequest"]
    BY Steps DEF ApplyCallback
  <1>6. UNCHANGED <<rows, history>>
    BY DEF ApplyCallback
  <1> QED
    BY <1>1, <1>3, <1>4, <1>5, <1>6, ContinuingStep

-----------------------------------------------------------------------------
(***************************************************************************)
(* The saves                                                               *)
(***************************************************************************)

\* A call after the save of its request.
LEMMA SavedCall ==
  ASSUME NEW old, CallSound(old), old.at = "saveRequest",
         NEW new, new = [old EXCEPT !.at = "saveCustomer"]
  PROVE  /\ CallSound(new) /\ ~Inserting(new) /\ new # None
         /\ new.at = "saveCustomer" /\ Mirroring(new) /\ new.machine = old.machine
  <1>1. CallOK(old) /\ old.kind \in {"initiate", "upload", "webhook"}
    BY DEF CallSound, CallOK, Places
  <1>2. new = Advanced(old, "saveCustomer", old.row, old.machine, old.result)
    BY <1>1 DEF CallOK, Advanced
  <1>3. old.row \in CustomerRows /\ "saveCustomer" \in Places[old.kind]
    BY <1>1 DEF CallOK, Places
  <1>4. CallOK(new)
    BY <1>1, <1>2, <1>3, AdvancedOK
  <1>5. /\ new.kind = old.kind /\ new.at = "saveCustomer" /\ new.found = old.found
        /\ new.request = old.request /\ new.row = old.row /\ new.machine = old.machine
    BY <1>2 DEF Advanced
  <1>6. OnCourse(new.kind, new.found, new.at, new.machine)
    BY <1>5 DEF CallSound, OnCourse, UploadOnCourse, WebhookOnCourse
  <1>7. CallSound(new) /\ ~Inserting(new)
    BY <1>4, <1>5, <1>6 DEF CallSound, Inserting
  <1> QED
    BY <1>1, <1>4, <1>5, <1>7, CallIsNotNone DEF Mirroring

\* An insertion is the first row of its request, and nobody else is about to
\* insert it; an update leaves the tier alone.
LEMMA SaveRequestSound ==
  ASSUME IInv, NEW h \in Handlers, SaveRequest(h)
  PROVE  HandlersSound' /\ RowsSound'
  <1>0. PICK old, r, tier :
          /\ old = handler[h] /\ r = old.request
          /\ tier = IF old.kind = "initiate" THEN old.input ELSE request[r].tier
    OBVIOUS
  <1>1. old # None /\ old.at = "saveRequest" /\ CallSound(old) /\ CallOK(old)
    BY <1>0, CurrentCall DEF SaveRequest, IsAt, CallSound
  <1>2. /\ old.kind \in {"initiate", "upload", "webhook"}
        /\ r \in Requests /\ old.machine \in Statuses
        /\ "saveCustomer" \in Places[old.kind]
    BY <1>0, <1>1 DEF CallOK, Places
  <1>3. /\ request' = [request EXCEPT ![r] = [tier |-> tier, status |-> old.machine]]
        /\ UNCHANGED <<customer, documents>>
    BY <1>0 DEF SaveRequest
  <1>4. request \in [Requests -> RequestRows \cup {None}]
    BY DEF IInv, RowsSound
  <1>5. ASSUME old.kind = "initiate"
        PROVE  /\ request[r] = None /\ old.machine \notin Careful
               /\ old.input \in Tiers
    BY <1>0, <1>1, <1>5 DEF CallSound, CallOK, Inserting, Inputs
  <1>6. ASSUME old.kind # "initiate"
        PROVE  /\ request[r] # None /\ request[r].tier \in Tiers
               /\ StatusSound(r, old.machine)
    <2>1. old.kind \in {"upload", "webhook"}
      BY <1>2, <1>6
    <2>2. request[r] # None /\ StatusSound(r, old.machine)
      BY <1>0, <1>1, <2>1 DEF CallSound, CallOK
    <2>3. request[r] \in RequestRows
      BY <1>2, <1>4, <2>2
    <2> QED
      BY <2>2, <2>3 DEF RequestRows
  <1>7. [tier |-> tier, status |-> old.machine] \in RequestRows
    BY <1>0, <1>2, <1>5, <1>6 DEF RequestRows
  <1>8. request'[r] = [tier |-> tier, status |-> old.machine]
    BY <1>2, <1>3, <1>4
  <1>9. \A q \in Requests \ {r} : request'[q] = request[q]
    BY <1>3, <1>4
  <1>10. KeepsRows
    BY <1>0, <1>3, <1>5, <1>6, <1>7, <1>8, <1>9, NoneAssumption DEF KeepsRows
  <1>11. RowsSound'
    <2>1. request' \in [Requests -> RequestRows \cup {None}]
      BY <1>3, <1>4, <1>7
    <2>2. request'[r].status = old.machine /\ request'[r].tier = tier
      BY <1>8
    <2>3. old.machine \in Careful => MandatoryStored(r)'
      BY <1>0, <1>3, <1>5, <1>6, <2>2 DEF StatusSound, MandatoryStored
    <2>4. tier = "EDD" => old.machine # "VERIFIED"
      BY <1>0, <1>5, <1>6 DEF StatusSound, Careful
    <2>5. ASSUME NEW q \in Requests, request'[q] # None
          PROVE  /\ request'[q].status \in Careful => MandatoryStored(q)'
                 /\ request'[q].tier = "EDD" => request'[q].status # "VERIFIED"
      <3>1. CASE q = r
        BY <3>1, <2>2, <2>3, <2>4
      <3>2. CASE q # r
        BY <3>2, <1>3, <1>9, <2>5 DEF IInv, RowsSound, StatusSound, MandatoryStored
      <3> QED
        BY <3>1, <3>2
    <2> QED
      BY <1>3, <2>1, <2>5 DEF IInv, RowsSound, RowSound, StatusSound
  <1>12. \A g \in Handlers \ {h} :
           handler[g] # None /\ Inserting(handler[g]) => request'[handler[g].request] = None
    <2> SUFFICES ASSUME NEW g \in Handlers \ {h}, handler[g] # None, Inserting(handler[g])
                 PROVE  request'[handler[g].request] = None
      OBVIOUS
    <2>1. CallSound(handler[g])
      BY CurrentCall
    <2>2. request[handler[g].request] = None /\ handler[g].request \in Requests
      BY <2>1 DEF CallSound, CallOK, Inserting
    <2>3. handler[g].request # r
      <3>1. CASE old.kind = "initiate"
        BY <1>0, <1>1, <3>1 DEF IInv, HandlersSound, Inserting
      <3>2. CASE old.kind # "initiate"
        BY <1>6, <2>2, <3>2
      <3> QED
        BY <3>1, <3>2
    <2> QED
      BY <1>9, <2>2, <2>3
  <1>13. ASSUME NEW new, new = [old EXCEPT !.at = "saveCustomer"]
         PROVE  CallSound(new)' /\ ~Inserting(new)
    <2>1. CallSound(new) /\ ~Inserting(new)
      BY <1>1, <1>13, SavedCall
    <2> QED
      BY <1>10, <2>1, CallStaysSound
  <1>14. \E new : Begin(h, new) /\ new = [old EXCEPT !.at = "saveCustomer"]
    BY <1>0 DEF SaveRequest
  <1> QED
    BY <1>10, <1>11, <1>12, <1>13, <1>14, HandlerStep DEF IInv

\* The row that is saved is as sound as the row that was read: raising the tier
\* or setting the score keeps it so. Its tier is not lower, and its status is
\* that of the machine, if the handler mirrors one.
LEMMA RowToSaveSound ==
  ASSUME NEW h \in Handlers, handler[h].at = "saveCustomer", CallSound(handler[h])
  PROVE  /\ RowToSave(h) \in CustomerRows /\ RowSound(RowToSave(h))
         /\ TierRank[RowToSave(h).tier] >= TierRank[handler[h].row.tier]
         /\ RowToSave(h).status = IF Mirrors(h) THEN handler[h].machine ELSE handler[h].row.status
  <1> DEFINE call == handler[h]
  <1>1. call.row \in CustomerRows /\ RowSound(call.row) /\ call.kind \in DOMAIN Places
    BY DEF CallSound, CallOK
  <1>2. Mirrors(h) => call.machine \in Statuses
    BY DEF CallSound, CallOK, Mirrors
  <1>3. PICK row : row = [call.row EXCEPT !.status = IF Mirrors(h) THEN call.machine ELSE @]
    OBVIOUS
  <1>4. row \in CustomerRows /\ RowSound(row)
    BY <1>1, <1>2, <1>3 DEF CustomerRows, RowSound
  <1>5. /\ row.tier = call.row.tier
        /\ row.status = IF Mirrors(h) THEN call.machine ELSE call.row.status
    BY <1>1, <1>3 DEF CustomerRows
  <1>6. TierRank[row.tier] >= TierRank[row.tier] /\ TierRank["EDD"] >= TierRank[row.tier]
    BY <1>4 DEF CustomerRows, Tiers, TierRank
  <1>7. RowToSave(h) =
          CASE call.kind \in {"initiate", "escalate"} ->
                 [row EXCEPT !.tier = Raise(row.tier, call.input)]
            [] call.kind = "risk" ->
                 [row EXCEPT !.highRisk = call.input,
                             !.tier = IF call.input THEN "EDD" ELSE row.tier]
            [] OTHER -> row
    BY <1>3 DEF RowToSave
  <1>8. CASE call.kind \in {"initiate", "escalate"}
    <2>1. call.input \in Tiers
      BY <1>8 DEF CallSound, CallOK, Inputs
    <2>2. row.tier \in Tiers
      BY <1>4 DEF CustomerRows
    <2>3. PICK raised : raised = Raise(row.tier, call.input)
      OBVIOUS
    <2>4. /\ raised \in Tiers /\ (row.tier = "EDD" => raised = "EDD")
          /\ TierRank[raised] >= TierRank[row.tier]
      BY <2>1, <2>2, <2>3, RaiseSound
    <2>5. RowToSave(h) = [row EXCEPT !.tier = raised]
      BY <1>7, <1>8, <2>3
    <2> QED
      BY <1>4, <1>5, <2>4, <2>5 DEF CustomerRows, RowSound
  <1>9. CASE call.kind = "risk"
    <2>1. call.input \in BOOLEAN
      BY <1>9 DEF CallSound, CallOK, Inputs
    <2>2. RowToSave(h) = [row EXCEPT !.highRisk = call.input,
                                     !.tier = IF call.input THEN "EDD" ELSE row.tier]
      BY <1>7, <1>9
    <2> QED
      BY <1>4, <1>5, <1>6, <2>1, <2>2 DEF CustomerRows, RowSound, Tiers
  <1>10. CASE call.kind \notin {"initiate", "escalate", "risk"}
    BY <1>4, <1>7, <1>10, <1>5, <1>6
  <1> QED
    BY <1>8, <1>9, <1>10

LEMMA SaveCustomerSound ==
  ASSUME IInv, NEW h \in Handlers, SaveCustomer(h)
  PROVE  HandlersSound' /\ RowsSound'
  <1>1. handler[h] # None /\ handler[h].at = "saveCustomer" /\ CallSound(handler[h])
    BY CurrentCall DEF SaveCustomer, IsAt
  <1>2. customer' \in CustomerRows /\ RowSound(customer')
    BY <1>1, RowToSaveSound DEF SaveCustomer
  <1>3. End(h) /\ UNCHANGED <<request, documents>>
    BY DEF SaveCustomer
  <1>4. KeepsRows
    BY <1>3 DEF KeepsRows
  <1>5. \A g \in Handlers :
          handler[g] # None /\ Inserting(handler[g]) => request'[handler[g].request] = None
    BY <1>3 DEF IInv, HandlersSound, CallSound
  <1>6. RowsSound'
    BY <1>2, <1>3 DEF IInv, RowsSound, RowSound, StatusSound, MandatoryStored
  <1> QED
    BY <1>3, <1>4, <1>5, <1>6, HandlerStep DEF IInv

LEMMA HandlerFailsSound ==
  ASSUME IInv, NEW h \in Handlers, HandlerFails(h)
  PROVE  HandlersSound' /\ RowsSound'
  <1>1. End(h) /\ UNCHANGED rows
    BY DEF HandlerFails
  <1> QED
    BY <1>1, RowlessStep

LEMMA RestartSound ==
  ASSUME IInv, Restart
  PROVE  HandlersSound' /\ RowsSound'
  <1>1. handler' = [h \in Handlers |-> None] /\ UNCHANGED rows
    BY DEF Restart
  <1> QED
    BY <1>1 DEF HandlersSound, IInv, RowsSound, rows, StatusSound, MandatoryStored

LEMMA StartSound ==
  ASSUME IInv, NEW h \in Handlers, Start(h)
  PROVE  HandlersSound' /\ RowsSound' /\ Starting(h)
  BY InitiateKycSound, UploadDocumentSound, ReceiveWebhookSound, RecalculateRiskSound,
     EscalateTierSound DEF Start

LEMMA ContinueSound ==
  ASSUME IInv, NEW h \in Handlers, Continue(h), ~SaveRequest(h), ~SaveCustomer(h)
  PROVE  HandlersSound' /\ RowsSound' /\ Continuing(h)
  BY ReadCustomerSound, StoreDocumentSound, CheckDocumentsSound, RunWorkflowSound,
     ScheduleTimerSound, CheckDuplicateSound, MarkProcessedSound, ApplyCallbackSound
  DEF Continue

-----------------------------------------------------------------------------
(***************************************************************************)
(* What is in memory, and the history                                      *)
(***************************************************************************)

LEMMA MemoryStaysSound == IInv /\ [Next]_vars => MemorySound'
  <1> SUFFICES ASSUME IInv, [Next]_vars
               PROVE  MemorySound'
    OBVIOUS
  <1>1. CASE UNCHANGED <<memory, asked>>
    BY <1>1 DEF memory, IInv, MemorySound
  <1>2. ASSUME NEW h \in Handlers, RunWorkflow(h)
        PROVE  MemorySound'
    <2>1. CASE UNCHANGED <<asked, sessions>>
      BY <1>2, <2>1 DEF RunWorkflow, IInv, MemorySound
    <2>2. CASE \E s \in Sessions, verdict \in Verdicts :
                 /\ asked' = [asked EXCEPT ![s] = verdict]
                 /\ sessions' = [sessions EXCEPT ![s] = "PENDING"]
      BY <1>2, <2>2 DEF RunWorkflow, IInv, MemorySound
    <2> QED
      BY <1>2, <2>1, <2>2 DEF RunWorkflow
  <1>3. ASSUME NEW h \in Handlers, ScheduleTimer(h)
        PROVE  MemorySound'
    <2>1. handler[h] # None /\ handler[h].at = "scheduleTimer" /\ CallSound(handler[h])
      BY <1>3, CurrentCall DEF ScheduleTimer, IsAt
    <2>2. handler[h].kind # "risk"
      BY <2>1 DEF CallSound, CallOK, Places
    <2>3. handler[h].request \in Requests
      BY <2>1, <2>2 DEF CallSound, CallOK
    <2> QED
      BY <1>3, <2>3 DEF ScheduleTimer, IInv, MemorySound
  <1>4. ASSUME NEW h \in Handlers, MarkProcessed(h)
        PROVE  MemorySound'
    <2>1. handler[h] # None /\ handler[h].at = "markProcessed" /\ CallSound(handler[h])
      BY <1>4, CurrentCall DEF MarkProcessed, IsAt
    <2>2. handler[h].kind = "webhook"
      BY <2>1 DEF CallSound, CallOK, Places
    <2>3. handler[h].input \in WebhookEvents
      BY <2>1, <2>2 DEF CallSound, CallOK, Inputs
    <2>4. /\ handler[h].input.session \in Sessions
          /\ handler[h].input.event \in {"started", "completed", "failed"}
      BY <2>3, VerdictsAssumption DEF WebhookEvents
    <2> QED
      BY <1>4, <2>3, <2>4 DEF MarkProcessed, IInv, MemorySound
  <1>5. ASSUME NEW h \in Handlers, ApplyCallback(h)
        PROVE  MemorySound'
    BY <1>5 DEF ApplyCallback, IInv, MemorySound
  <1>6. CASE Restart
    BY <1>6 DEF Restart, IInv, MemorySound
  <1>7. ASSUME NEW h \in Handlers, Start(h)
        PROVE  UNCHANGED <<memory, asked>>
    BY <1>7 DEF Start, InitiateKyc, UploadDocument, ReceiveWebhook, RecalculateRisk, EscalateTier
  <1>8. ASSUME NEW h \in Handlers,
               \/ ReadCustomer(h) \/ StoreDocument(h) \/ CheckDocuments(h)
               \/ CheckDuplicate(h) \/ SaveRequest(h) \/ SaveCustomer(h) \/ HandlerFails(h)
        PROVE  UNCHANGED <<memory, asked>>
    BY <1>8 DEF ReadCustomer, StoreDocument, CheckDocuments, CheckDuplicate, SaveRequest,
      SaveCustomer, HandlerFails
  <1>9. CASE UNCHANGED vars
    BY <1>9, <1>1 DEF vars
  <1> QED
    BY <1>1, <1>2, <1>3, <1>4, <1>5, <1>6, <1>7, <1>8, <1>9 DEF Next, Continue

LEMMA HistoryStaysSound == IInv /\ [Next]_vars => HistorySound'
  <1> SUFFICES ASSUME IInv, [Next]_vars
               PROVE  HistorySound'
    OBVIOUS
  <1>1. CASE UNCHANGED <<restarts, history>>
    BY <1>1 DEF history, IInv, HistorySound
  <1>2. ASSUME NEW h \in Handlers, SaveRequest(h)
        PROVE  HistorySound'
    <2>1. handler[h] # None /\ handler[h].at = "saveRequest" /\ CallSound(handler[h])
      BY <1>2, CurrentCall DEF SaveRequest, IsAt
    <2>2. handler[h].kind \in {"initiate", "upload", "webhook"}
      BY <2>1 DEF CallSound, CallOK, Places
    <2>3. handler[h].machine \in Statuses
      BY <2>1, <2>2 DEF CallSound, CallOK
    <2> QED
      BY <1>2, <2>3 DEF SaveRequest, IInv, HistorySound
  <1>3. ASSUME NEW h \in Handlers, SaveCustomer(h) \/ HandlerFails(h)
        PROVE  HistorySound'
    <2>1. torn' \in BOOLEAN
      BY <1>3 DEF SaveCustomer, HandlerFails
    <2>2. UNCHANGED <<restarts, lastSaved>>
      BY <1>3 DEF SaveCustomer, HandlerFails
    <2> QED
      BY <2>1, <2>2 DEF IInv, HistorySound
  <1>4. CASE Restart
    <2>1. torn' \in BOOLEAN
      BY <1>4 DEF Restart
    <2>2. restarts' \in 0..MaxRestarts
      BY <1>4, BoundsAssumption DEF Restart, IInv, HistorySound
    <2>3. lastSaved' = lastSaved
      BY <1>4 DEF Restart
    <2> QED
      BY <2>1, <2>2, <2>3 DEF IInv, HistorySound
  <1>5. ASSUME NEW h \in Handlers, Start(h)
        PROVE  UNCHANGED <<restarts, history>>
    BY <1>5 DEF Start, InitiateKyc, UploadDocument, ReceiveWebhook, RecalculateRisk, EscalateTier
  <1>6. ASSUME NEW h \in Handlers,
               \/ ReadCustomer(h) \/ StoreDocument(h) \/ CheckDocuments(h) \/ RunWorkflow(h)
               \/ ScheduleTimer(h) \/ CheckDuplicate(h) \/ MarkProcessed(h) \/ ApplyCallback(h)
        PROVE  UNCHANGED <<restarts, history>>
    BY <1>6 DEF ReadCustomer, StoreDocument, CheckDocuments, RunWorkflow, ScheduleTimer,
      CheckDuplicate, MarkProcessed, ApplyCallback
  <1>7. CASE UNCHANGED vars
    BY <1>7, <1>1 DEF vars
  <1> QED
    BY <1>1, <1>2, <1>3, <1>4, <1>5, <1>6, <1>7 DEF Next, Continue

-----------------------------------------------------------------------------
(***************************************************************************)
(* The mirror of the status in the customer's row                          *)
(***************************************************************************)

\* A handler's step leaves the other handlers where they are.
LEMMA OthersStay ==
  ASSUME IInv, NEW h \in Handlers, End(h) \/ \E new : Begin(h, new)
  PROVE  \A g \in Handlers \ {h} :
           /\ handler'[g] = handler[g]
           /\ BetweenSaves(g)' <=> BetweenSaves(g)
           /\ KeepsStatus(g)' <=> KeepsStatus(g)
           /\ IsAt(g, "saveCustomer")' <=> IsAt(g, "saveCustomer")
  <1>1. \A g \in Handlers \ {h} : handler'[g] = handler[g]
    BY DEF IInv, HandlersSound, Begin, End
  <1> QED
    BY <1>1 DEF BetweenSaves, KeepsStatus, IsAt, Mirrors

LEMMA EndedHandler ==
  ASSUME IInv, NEW h \in Handlers, End(h)
  PROVE  ~BetweenSaves(h)' /\ ~KeepsStatus(h)' /\ ~IsAt(h, "saveCustomer")'
  <1>1. handler'[h] = None
    BY DEF IInv, HandlersSound, End
  <1> QED
    BY <1>1 DEF BetweenSaves, KeepsStatus, IsAt

LEMMA BegunHandler ==
  ASSUME IInv, NEW h \in Handlers, NEW new, Begin(h, new)
  PROVE  /\ handler'[h] = new
         /\ BetweenSaves(h)' <=> new # None /\ new.at = "saveCustomer" /\ Mirroring(new)
         /\ KeepsStatus(h)' <=> new # None /\ new.at = "saveCustomer" /\ ~Mirroring(new)
  <1>1. handler'[h] = new
    BY DEF IInv, HandlersSound, Begin
  <1> QED
    BY <1>1 DEF BetweenSaves, KeepsStatus, IsAt, Mirrors, Mirroring

\* Steps of a handler that is not about to save the customer's row.
LEMMA MirrorStep ==
  ASSUME IInv, UNCHANGED <<customer, history>>, NEW h \in Handlers, ~IsAt(h, "saveCustomer"),
         End(h) \/ \E new : Begin(h, new) /\ JustRead(new)
  PROVE  MirrorSound'
  <1>1. h \notin overtaken /\ ~BetweenSaves(h)
    BY DEF IInv, MirrorSound, BetweenSaves
  <1>2. ~BetweenSaves(h)'
    BY EndedHandler, BegunHandler DEF JustRead
  <1>3. KeepsStatus(h)' => handler'[h].row = customer
    BY EndedHandler, BegunHandler DEF JustRead
  <1>4. \A g \in Handlers : LeavesTorn(g)' <=> LeavesTorn(g)
    BY <1>1, <1>2, OthersStay DEF LeavesTorn, history
  <1>5. overtaken' \subseteq {g \in Handlers : IsAt(g, "saveCustomer")}'
    BY <1>1, OthersStay DEF IInv, MirrorSound, history
  <1>6. StatusMirrored'
    BY <1>4 DEF IInv, MirrorSound, StatusMirrored, history
  <1>7. ASSUME NEW g \in Handlers
        PROVE  /\ LeavesTorn(g)' => handler'[g].machine = lastSaved'
               /\ KeepsStatus(g)' /\ g \notin overtaken' =>
                    handler'[g].row.status = customer'.status
    <2>1. CASE g = h
      BY <2>1, <1>1, <1>3, <1>4 DEF LeavesTorn, history
    <2>2. CASE g # h
      BY <2>2, <1>4, OthersStay DEF IInv, MirrorSound, history
    <2> QED
      BY <2>1, <2>2
  <1> QED
    BY <1>5, <1>6, <1>7 DEF MirrorSound

\* A handler that saves a request is the next to mirror; the ones before it are not.
LEMMA SaveRequestMirrors ==
  ASSUME IInv, NEW h \in Handlers, SaveRequest(h)
  PROVE  MirrorSound'
  <1>0. PICK old : old = handler[h]
    OBVIOUS
  <1>1. old # None /\ old.at = "saveRequest" /\ CallSound(old)
    BY <1>0, CurrentCall DEF SaveRequest, IsAt
  <1>2. PICK new : Begin(h, new) /\ new = [old EXCEPT !.at = "saveCustomer"]
    BY <1>0 DEF SaveRequest
  <1>3. /\ new # None /\ new.at = "saveCustomer" /\ Mirroring(new)
        /\ new.machine = old.machine
    BY <1>1, <1>2, SavedCall
  <1>4. /\ lastSaved' = old.machine /\ customer' = customer
        /\ overtaken' = overtaken \cup {g \in Handlers : BetweenSaves(g)}
    BY <1>0 DEF SaveRequest
  <1>5. /\ handler'[h] = new /\ BetweenSaves(h)' /\ ~KeepsStatus(h)'
        /\ IsAt(h, "saveCustomer")'
    BY <1>2, <1>3, BegunHandler DEF IsAt
  <1>6. h \notin overtaken /\ ~BetweenSaves(h)
    BY <1>0, <1>1 DEF IInv, MirrorSound, BetweenSaves, IsAt
  <1>7. LeavesTorn(h)' /\ \A g \in Handlers \ {h} : ~LeavesTorn(g)'
    BY <1>2, <1>4, <1>5, <1>6, OthersStay DEF LeavesTorn
  <1>8. overtaken' \subseteq {g \in Handlers : IsAt(g, "saveCustomer")}'
    BY <1>2, <1>4, <1>6, OthersStay DEF IInv, MirrorSound, BetweenSaves
  <1>9. StatusMirrored'
    BY <1>7 DEF StatusMirrored
  <1>10. ASSUME NEW g \in Handlers, KeepsStatus(g)', g \notin overtaken'
         PROVE  handler'[g].row.status = customer'.status
    BY <1>2, <1>4, <1>5, <1>10, OthersStay DEF IInv, MirrorSound
  <1>11. ASSUME NEW g \in Handlers, LeavesTorn(g)'
         PROVE  handler'[g].machine = lastSaved'
    BY <1>3, <1>4, <1>5, <1>7, <1>11
  <1> QED
    BY <1>8, <1>9, <1>10, <1>11 DEF MirrorSound

\* Saving the customer mirrors the status, or keeps it, unless the handler has been
\* overtaken, and then it is torn until another one mirrors.
LEMMA SaveCustomerMirrors ==
  ASSUME IInv, NEW h \in Handlers, SaveCustomer(h)
  PROVE  MirrorSound'
  <1>1. /\ handler[h] # None /\ handler[h].at = "saveCustomer" /\ CallSound(handler[h])
        /\ IsAt(h, "saveCustomer")
    BY CurrentCall DEF SaveCustomer, IsAt
  <1>2. customer'.status = IF Mirrors(h) THEN handler[h].machine ELSE handler[h].row.status
    BY <1>1, RowToSaveSound DEF SaveCustomer
  <1>3. /\ End(h) /\ lastSaved' = lastSaved
        /\ torn' = (h \in overtaken \/ (torn /\ ~Mirrors(h)))
        /\ overtaken' = (overtaken \ {h}) \cup
             {g \in Handlers \ {h} : KeepsStatus(g) /\ (Mirrors(h) \/ h \in overtaken)}
    BY DEF SaveCustomer
  <1>4. ~BetweenSaves(h)' /\ ~KeepsStatus(h)'
    BY <1>3, EndedHandler
  <1>5. \A g \in Handlers \ {h} : LeavesTorn(g)' <=> LeavesTorn(g)
    BY <1>3, OthersStay DEF LeavesTorn, BetweenSaves, KeepsStatus
  <1>6. overtaken' \subseteq {g \in Handlers : IsAt(g, "saveCustomer")}'
    <2>1. \A g \in overtaken' : g \in Handlers \ {h} /\ IsAt(g, "saveCustomer")
      BY <1>3 DEF IInv, MirrorSound, KeepsStatus
    <2> QED
      BY <1>3, <2>1, OthersStay
  <1>7. h \notin overtaken /\ ~Mirrors(h) => customer'.status = customer.status
    BY <1>1, <1>2 DEF IInv, MirrorSound, KeepsStatus
  <1>8. StatusMirrored'
    <2> SUFFICES ASSUME ~torn', \A g \in Handlers : ~LeavesTorn(g)'
                 PROVE  customer'.status = lastSaved'
      BY DEF StatusMirrored
    <2>1. h \notin overtaken /\ (torn => Mirrors(h))
      BY <1>3
    <2>2. CASE Mirrors(h)
      <3>1. LeavesTorn(h)
        BY <1>1, <2>1, <2>2 DEF LeavesTorn, BetweenSaves
      <3> QED
        BY <1>2, <1>3, <2>2, <3>1 DEF IInv, MirrorSound
    <2>3. CASE ~Mirrors(h)
      <3>1. ~torn /\ \A g \in Handlers : ~LeavesTorn(g)
        BY <1>5, <2>1, <2>3 DEF LeavesTorn, BetweenSaves
      <3> QED
        BY <1>3, <1>7, <2>1, <2>3, <3>1 DEF IInv, MirrorSound, StatusMirrored
    <2> QED
      BY <2>2, <2>3
  <1>9. ASSUME NEW g \in Handlers, LeavesTorn(g)'
        PROVE  handler'[g].machine = lastSaved'
    <2>1. g # h
      BY <1>4, <1>9 DEF LeavesTorn
    <2> QED
      BY <1>3, <1>5, <1>9, <2>1, OthersStay DEF IInv, MirrorSound
  <1>10. ASSUME NEW g \in Handlers, KeepsStatus(g)', g \notin overtaken'
         PROVE  handler'[g].row.status = customer'.status
    <2>1. g # h
      BY <1>4, <1>10
    <2>2. handler'[g] = handler[g] /\ KeepsStatus(g)
      BY <1>3, <1>10, <2>1, OthersStay
    <2>3. g \notin overtaken /\ ~Mirrors(h) /\ h \notin overtaken
      BY <1>3, <1>10, <2>1, <2>2
    <2> QED
      BY <1>7, <2>2, <2>3 DEF IInv, MirrorSound
  <1> QED
    BY <1>6, <1>8, <1>9, <1>10 DEF MirrorSound

LEMMA HandlerFailsMirrors ==
  ASSUME IInv, NEW h \in Handlers, HandlerFails(h)
  PROVE  MirrorSound'
  <1>1. /\ End(h) /\ UNCHANGED <<customer, lastSaved>>
        /\ torn' = (torn \/ LeavesTorn(h))
        /\ overtaken' = overtaken \ {h}
    BY DEF HandlerFails, rows
  <1>2. ~BetweenSaves(h)' /\ ~KeepsStatus(h)'
    BY <1>1, EndedHandler
  <1>3. \A g \in Handlers \ {h} : LeavesTorn(g)' <=> LeavesTorn(g)
    BY <1>1, OthersStay DEF LeavesTorn
  <1>4. overtaken' \subseteq {g \in Handlers : IsAt(g, "saveCustomer")}'
    BY <1>1, OthersStay DEF IInv, MirrorSound
  <1>5. StatusMirrored'
    BY <1>1, <1>3 DEF IInv, MirrorSound, StatusMirrored
  <1>6. ASSUME NEW g \in Handlers
        PROVE  /\ LeavesTorn(g)' => handler'[g].machine = lastSaved'
               /\ KeepsStatus(g)' /\ g \notin overtaken' =>
                    handler'[g].row.status = customer'.status
    <2>1. CASE g = h
      BY <1>2, <2>1 DEF LeavesTorn
    <2>2. CASE g # h
      BY <1>1, <1>3, <2>2, OthersStay DEF IInv, MirrorSound
    <2> QED
      BY <2>1, <2>2
  <1> QED
    BY <1>4, <1>5, <1>6 DEF MirrorSound

LEMMA RestartMirrors ==
  ASSUME IInv, Restart
  PROVE  MirrorSound'
  <1>1. /\ \A g \in Handlers : handler'[g] = None
        /\ UNCHANGED <<customer, lastSaved>>
        /\ torn' = (torn \/ \E g \in Handlers : LeavesTorn(g))
        /\ overtaken' = {}
    BY DEF Restart, rows
  <1>2. \A g \in Handlers : ~LeavesTorn(g)' /\ ~KeepsStatus(g)'
    BY <1>1 DEF LeavesTorn, BetweenSaves, KeepsStatus, IsAt
  <1>3. StatusMirrored'
    BY <1>1 DEF IInv, MirrorSound, StatusMirrored
  <1> QED
    BY <1>1, <1>2, <1>3 DEF MirrorSound

-----------------------------------------------------------------------------
(***************************************************************************)
(* Theorems about the rows, the handlers and the mirror                    *)
(***************************************************************************)

LEMMA NextIInv == IInv /\ [Next]_vars => IInv'
  <1> SUFFICES ASSUME IInv, [Next]_vars
               PROVE  HandlersSound' /\ RowsSound' /\ MirrorSound'
    BY MemoryStaysSound, HistoryStaysSound DEF IInv
  <1>1. ASSUME NEW h \in Handlers, Start(h)
        PROVE  HandlersSound' /\ RowsSound' /\ Starting(h)
    BY <1>1, StartSound
  <1>2. ASSUME NEW h \in Handlers, Continue(h)
        PROVE  \/ HandlersSound' /\ RowsSound' /\ Continuing(h)
               \/ SaveRequest(h) \/ SaveCustomer(h)
    BY <1>2, ContinueSound
  <1>3. ASSUME NEW h \in Handlers, Starting(h) \/ Continuing(h)
        PROVE  MirrorSound'
    <2>1. ~IsAt(h, "saveCustomer") /\ UNCHANGED <<customer, history>>
      BY <1>3 DEF Starting, Continuing, IsAt
    <2>2. End(h) \/ \E new : Begin(h, new) /\ JustRead(new)
      BY <1>3 DEF Starting, Continuing, GoesOn
    <2> QED
      BY <2>1, <2>2, MirrorStep
  <1>4. ASSUME NEW h \in Handlers, SaveRequest(h) \/ SaveCustomer(h) \/ HandlerFails(h)
        PROVE  HandlersSound' /\ RowsSound' /\ MirrorSound'
    BY <1>4, SaveRequestSound, SaveCustomerSound, HandlerFailsSound,
       SaveRequestMirrors, SaveCustomerMirrors, HandlerFailsMirrors
  <1>5. CASE Restart
    BY <1>5, RestartSound, RestartMirrors
  <1>6. CASE UNCHANGED vars
    <2>1. KeepsRows /\ UNCHANGED <<rows, handler, history>>
      BY <1>6 DEF vars, rows, KeepsRows
    <2>2. RowsSound'
      BY <2>1 DEF IInv, RowsSound, rows, StatusSound, MandatoryStored
    <2>3. \A call : \A h \in Handlers : handler[h] = call /\ call # None => CallSound(call)'
      BY <2>1, CallStaysSound DEF IInv, HandlersSound, CallSound, rows
    <2>4. MirrorSound'
      BY <2>1 DEF IInv, MirrorSound, StatusMirrored, LeavesTorn, BetweenSaves, KeepsStatus,
        IsAt, Mirrors, rows, history
    <2> QED
      BY <2>1, <2>2, <2>3, <2>4 DEF IInv, HandlersSound
  <1> QED
    BY <1>1, <1>2, <1>3, <1>4, <1>5, <1>6 DEF Next

\* The rows, the process memory and the handlers keep their types, and every
\* handler is where a use case can be with what it holds there.
THEOREM HandlersTypeCorrect == Spec => []TypeOK
  BY InitIInv, NextIInv, IInvImplies, PTL DEF Spec

\* However handlers interleave and fail, a customer stored with a score above
\* the threshold is stored as EDD.
THEOREM HighRiskStaysEdd == Spec => []HighRiskIsEdd
  BY InitIInv, NextIInv, IInvImplies, PTL DEF Spec

\* However handlers interleave and fail, a request that is stored as VERIFIED
\* has every document that its tier asks for in the store.
THEOREM NothingVerifiedWithoutDocuments == Spec => []VerifiedHasDocuments
  BY InitIInv, NextIInv, IInvImplies, PTL DEF Spec

\* However handlers interleave, and webhooks are repeated, an EDD request is not
\* stored as VERIFIED without a review.
THEOREM NoEddWithoutReview == Spec => []EddNeedsReview
  BY InitIInv, NextIInv, IInvImplies, PTL DEF Spec

\* However handlers overtake each other, fail and restart, the customer's row shows
\* the status last saved for a request, unless the handler that saved it has yet to
\* mirror it, or a handler stopped there or saved a status that was outdated.
THEOREM StatusIsMirrored == Spec => []StatusMirrored
  BY InitIInv, NextIInv, IInvImplies, PTL DEF Spec

-----------------------------------------------------------------------------
(***************************************************************************)
(* The tier of the customer                                                *)
(***************************************************************************)

\* Only one step writes the customer's row.
LEMMA OnlySaveCustomerWrites ==
  ASSUME [Next]_vars, \A h \in Handlers : ~SaveCustomer(h)
  PROVE  customer' = customer
  <1>1. ASSUME NEW h \in Handlers, Start(h)
        PROVE  customer' = customer
    BY <1>1 DEF Start, InitiateKyc, UploadDocument, ReceiveWebhook, RecalculateRisk,
      EscalateTier, rows
  <1>2. ASSUME NEW h \in Handlers,
               \/ ReadCustomer(h) \/ StoreDocument(h) \/ CheckDocuments(h) \/ RunWorkflow(h)
               \/ ScheduleTimer(h) \/ CheckDuplicate(h) \/ MarkProcessed(h)
        PROVE  customer' = customer
    BY <1>2 DEF ReadCustomer, StoreDocument, CheckDocuments, RunWorkflow, ScheduleTimer,
      CheckDuplicate, MarkProcessed, rows
  <1>3. ASSUME NEW h \in Handlers, ApplyCallback(h) \/ SaveRequest(h) \/ HandlerFails(h)
        PROVE  customer' = customer
    BY <1>3 DEF ApplyCallback, SaveRequest, HandlerFails, rows
  <1>4. CASE Restart \/ UNCHANGED vars
    BY <1>4 DEF Restart, vars, rows
  <1> QED
    BY <1>1, <1>2, <1>3, <1>4 DEF Next, Continue

\* A save that lowers the tier is of a handler that had read another row.
LEMMA SaveRaisesTierRead ==
  ASSUME IInv, NEW h \in Handlers, SaveCustomer(h),
         TierRank[customer'.tier] < TierRank[customer.tier]
  PROVE  /\ handler[h].row # customer
         /\ TierRank[handler[h].row.tier] <= TierRank[customer'.tier]
  <1>1. handler[h] # None /\ handler[h].at = "saveCustomer" /\ CallSound(handler[h])
    BY CurrentCall DEF SaveCustomer, IsAt
  <1>2. customer' = RowToSave(h) /\ customer' \in CustomerRows
    BY <1>1, RowToSaveSound DEF SaveCustomer
  <1>3. handler[h].row \in CustomerRows /\ customer \in CustomerRows
    BY <1>1 DEF CallSound, CallOK, IInv, RowsSound
  <1>4. \A row \in CustomerRows : TierRank[row.tier] \in Nat
    BY DEF CustomerRows, Tiers, TierRank
  <1>5. TierRank[customer'.tier] >= TierRank[handler[h].row.tier]
    BY <1>1, <1>2, RowToSaveSound
  <1> QED
    BY <1>2, <1>3, <1>4, <1>5

\* A tier that was raised is lowered by nothing but a lost update: a handler that
\* saves over it the row it had read before, and never below what it read.
THEOREM TierFallsByLostUpdateOnly == Spec => TierFallsOnlyToWhatWasRead
  <1> DEFINE Falls == TierRank[customer'.tier] < TierRank[customer.tier]
             LostUpdate == \E h \in Handlers :
                             /\ SaveCustomer(h)
                             /\ handler[h].row # customer
                             /\ TierRank[handler[h].row.tier] <= TierRank[customer'.tier]
  <1>1. IInv /\ [Next]_vars => [Falls => LostUpdate]_vars
    <2> SUFFICES ASSUME IInv, [Next]_vars, Falls
                 PROVE  LostUpdate
      OBVIOUS
    <2>1. TierRank[customer.tier] \in Nat
      BY DEF IInv, RowsSound, CustomerRows, Tiers, TierRank
    <2>2. customer' # customer
      BY <2>1
    <2>3. PICK h \in Handlers : SaveCustomer(h)
      BY <2>2, OnlySaveCustomerWrites
    <2> QED
      BY <2>3, SaveRaisesTierRead
  <1> QED
    BY <1>1, InitIInv, NextIInv, PTL DEF Spec, TierFallsOnlyToWhatWasRead

-----------------------------------------------------------------------------
(***************************************************************************)
(* The life cycle of requests                                              *)
(***************************************************************************)

\* What the handlers have read, as the life cycle sees it.
Reads == [h \in Handlers |->
            IF handler[h] # None /\ Mirrors(h) /\ handler[h].at # "saveCustomer"
            THEN [id |-> handler[h].request, status |-> handler[h].found]
            ELSE None]

LEMMA ReadsOfCalls ==
  Reads = [h \in Handlers |-> ReadOf(handler[h])]
  BY DEF Reads, ReadOf, Mirroring, Mirrors

LEMMA ReadsOfCallsNext ==
  Reads' = [h \in Handlers |-> ReadOf(handler'[h])]
  BY DEF Reads, ReadOf, Mirroring, Mirrors

\* A handler whose call begins or goes on changes what it alone has read.
LEMMA ReadsStep ==
  ASSUME IInv, NEW h \in Handlers, NEW new, Begin(h, new)
  PROVE  Reads' = [Reads EXCEPT ![h] = ReadOf(new)]
  <1>1. handler' = [handler EXCEPT ![h] = new] /\ DOMAIN handler = Handlers
    BY DEF IInv, HandlersSound, Begin
  <1>2. handler'[h] = new /\ \A g \in Handlers \ {h} : handler'[g] = handler[g]
    BY <1>1
  <1> QED
    BY <1>2, ReadsOfCalls, ReadsOfCallsNext

\* A handler that ends gives up what it has read, and saves nothing of it.
LEMMA EndGivesUp ==
  ASSUME IInv, NEW h \in Handlers, End(h), request' = request
  PROVE  Lifecycle!LifecycleNext
  <1>1. handler'[h] = None /\ \A g \in Handlers \ {h} : handler'[g] = handler[g]
    BY DEF IInv, HandlersSound, End
  <1>2. ReadOf(handler'[h]) = None
    BY <1>1 DEF ReadOf
  <1>3. Reads' = [g \in Handlers |-> IF g \in {h} THEN None ELSE Reads[g]]
    BY <1>1, <1>2, ReadsOfCalls, ReadsOfCallsNext
  <1>4. Stored' = Stored
    BY DEF Stored
  <1>5. Lifecycle!GiveUp({h})
    BY <1>3, <1>4 DEF Lifecycle!GiveUp, Reads, Stored
  <1> QED
    BY <1>5 DEF Lifecycle!LifecycleNext

LEMMA StartingReads ==
  ASSUME IInv, NEW h \in Handlers, Starting(h)
  PROVE  \/ Lifecycle!LifecycleNext
         \/ UNCHANGED <<Stored, Reads>>
  <1>1. PICK new :
          /\ Begin(h, new)
          /\ \/ ReadOf(new) = None
             \/ \E r \in Requests : ReadOf(new) = [id |-> r, status |-> Stored[r]]
    BY DEF Starting
  <1>2. Reads' = [Reads EXCEPT ![h] = ReadOf(new)]
    BY <1>1, ReadsStep
  <1>3. Reads[h] = None
    BY ReadsOfCalls DEF Starting, ReadOf
  <1>4. Stored' = Stored
    BY DEF Starting, Stored
  <1>5. CASE ReadOf(new) = None
    <2>1. Reads' = Reads
      BY <1>2, <1>3, <1>5 DEF Reads
    <2> QED
      BY <1>4, <2>1
  <1>6. ASSUME NEW r \in Requests, ReadOf(new) = [id |-> r, status |-> Stored[r]]
        PROVE  Lifecycle!LifecycleNext
    <2>1. Lifecycle!Read(h, r)
      BY <1>2, <1>3, <1>4, <1>6 DEF Lifecycle!Read, Reads, Stored
    <2> QED
      BY <2>1 DEF Lifecycle!LifecycleNext
  <1> QED
    BY <1>1, <1>5, <1>6

LEMMA ContinuingReads ==
  ASSUME IInv, NEW h \in Handlers, Continuing(h)
  PROVE  \/ Lifecycle!LifecycleNext
         \/ UNCHANGED <<Stored, Reads>>
  <1>1. request' = request /\ Stored' = Stored
    BY DEF Continuing, Stored
  <1>2. CASE End(h)
    BY <1>1, <1>2, EndGivesUp
  <1>3. ASSUME NEW new, Begin(h, new), GoesOn(handler[h], new)
        PROVE  Reads' = Reads
    <2>1. ReadOf(new) = Reads[h]
      BY <1>3, ReadsOfCalls DEF GoesOn
    <2>2. Reads' = [Reads EXCEPT ![h] = Reads[h]]
      BY <1>3, <2>1, ReadsStep
    <2> QED
      BY <2>2 DEF Reads
  <1> QED
    BY <1>1, <1>2, <1>3 DEF Continuing

\* What a handler on its course saves is a move from what it found.
LEMMA SaveIsMove ==
  ASSUME NEW call, CallSound(call), call.at = "saveRequest"
  PROVE  /\ <<call.found, call.machine>> \in Lifecycle!Moves
         /\ call.found = None => call.kind = "initiate"
  <1>1. CallOK(call) /\ call.kind \in {"initiate", "upload", "webhook"}
    BY DEF CallSound, CallOK, Places
  <1>2. CASE call.kind = "initiate"
    <2>1. call.found = None /\ call.machine = "DOCUMENTS_PENDING"
      BY <1>1, <1>2 DEF CallSound, CallOK, OnCourse
    <2> QED
      BY <1>2, <2>1 DEF Lifecycle!Moves
  <1>3. CASE call.kind = "upload"
    <2>1. /\ call.found = "DOCUMENTS_PENDING"
          /\ call.machine \in {"DOCUMENTS_RECEIVED", "VENDOR_CALLBACK_AWAITED"} \cup Decisions
      BY <1>3 DEF CallSound, OnCourse, UploadOnCourse
    <2>2. call.found # None
      BY <1>1, <1>3, NoneAssumption DEF CallOK
    <2> QED
      BY <2>1, <2>2 DEF Lifecycle!Moves, Lifecycle!Decisions, Decisions
  <1>4. CASE call.kind = "webhook"
    <2>1. call.found = "VENDOR_CALLBACK_AWAITED" /\ call.machine \in Decisions
      BY <1>4 DEF CallSound, OnCourse, WebhookOnCourse
    <2>2. call.found # None
      BY <1>1, <1>4, NoneAssumption DEF CallOK
    <2> QED
      BY <2>1, <2>2 DEF Lifecycle!Moves, Lifecycle!Decisions, Decisions
  <1> QED
    BY <1>1, <1>2, <1>3, <1>4

\* Saving a request is a save of the life cycle, of what the handler had read.
LEMMA SaveRequestIsSave ==
  ASSUME IInv, NEW h \in Handlers, SaveRequest(h)
  PROVE  Lifecycle!LifecycleNext
  <1>0. PICK old, r, tier :
          /\ old = handler[h] /\ r = old.request
          /\ tier = IF old.kind = "initiate" THEN old.input ELSE request[r].tier
    OBVIOUS
  <1>1. old # None /\ old.at = "saveRequest" /\ CallSound(old) /\ CallOK(old)
    BY <1>0, CurrentCall DEF SaveRequest, IsAt, CallSound
  <1>2. /\ old.kind \in {"initiate", "upload", "webhook"}
        /\ r \in Requests /\ old.machine \in Statuses /\ old.found \in Statuses \cup {None}
    BY <1>0, <1>1 DEF CallOK, Places
  <1>3. request' = [request EXCEPT ![r] = [tier |-> tier, status |-> old.machine]]
    BY <1>0 DEF SaveRequest
  <1>4. request \in [Requests -> RequestRows \cup {None}]
    BY DEF IInv, RowsSound
  <1>5. tier \in Tiers
    <2>1. CASE old.kind = "initiate"
      BY <1>0, <1>1, <2>1 DEF CallOK, Inputs
    <2>2. CASE old.kind # "initiate"
      <3>1. request[r] # None
        BY <1>0, <1>1, <1>2, <2>2 DEF CallOK
      <3> QED
        BY <1>0, <1>2, <1>4, <2>2, <3>1 DEF RequestRows
    <2> QED
      BY <2>1, <2>2
  <1>6. Stored' = [Stored EXCEPT ![r] = old.machine]
    <2>1. [tier |-> tier, status |-> old.machine] # None
      BY <1>2, <1>5, NoneAssumption DEF RequestRows
    <2> QED
      BY <1>2, <1>3, <1>4, <2>1 DEF Stored
  <1>7. ReadOf(old) = [id |-> r, status |-> old.found] /\ ReadOf(old) # None
    <2>1. [id |-> r, status |-> old.found] \in [id : Requests, status : Statuses \cup {None}]
      BY <1>2
    <2> QED
      BY <1>0, <1>1, <1>2, <2>1, NoneAssumption DEF ReadOf, Mirroring
  <1>8. Reads[h] = [id |-> r, status |-> old.found] /\ Reads[h] # None
    BY <1>0, <1>7, ReadsOfCalls
  <1>9. Reads' = [Reads EXCEPT ![h] = None]
    <2>1. PICK new : Begin(h, new) /\ new = [old EXCEPT !.at = "saveCustomer"]
      BY <1>0 DEF SaveRequest
    <2>2. ReadOf(new) = None
      BY <1>1, <2>1, SavedCall DEF ReadOf
    <2> QED
      BY <2>1, <2>2, ReadsStep
  <1>10. /\ <<old.found, old.machine>> \in Lifecycle!Moves
         /\ old.found = None => old.kind = "initiate"
    BY <1>1, SaveIsMove
  <1>11. old.found = None => Stored[r] = None
    BY <1>0, <1>1, <1>2, <1>10 DEF CallSound, Inserting, Stored
  <1>12. /\ Reads[h].id = r /\ Reads[h].status = old.found
    BY <1>8
  <1>13. Lifecycle!Save(h, old.machine)
    BY <1>6, <1>8, <1>9, <1>10, <1>11, <1>12 DEF Lifecycle!Save, Reads, Stored
  <1>14. old.machine \in {move[2] : move \in Lifecycle!Moves}
    BY <1>10
  <1> QED
    BY <1>13, <1>14 DEF Lifecycle!LifecycleNext

LEMMA RestartGivesUp ==
  ASSUME IInv, Restart
  PROVE  Lifecycle!LifecycleNext
  <1>1. \A g \in Handlers : ReadOf(handler'[g]) = None
    BY DEF Restart, ReadOf
  <1>2. Reads' = [g \in Handlers |-> IF g \in Handlers THEN None ELSE Reads[g]]
    BY <1>1, ReadsOfCallsNext
  <1>3. Stored' = Stored
    BY DEF Restart, rows, Stored
  <1>4. Lifecycle!GiveUp(Handlers)
    BY <1>2, <1>3 DEF Lifecycle!GiveUp, Reads, Stored
  <1> QED
    BY <1>4 DEF Lifecycle!LifecycleNext

LEMMA NextIsLifecycleStep ==
  IInv /\ [Next]_vars => [Lifecycle!LifecycleNext]_<<Stored, Reads>>
  <1> SUFFICES ASSUME IInv, [Next]_vars
               PROVE  Lifecycle!LifecycleNext \/ UNCHANGED <<Stored, Reads>>
    OBVIOUS
  <1>1. ASSUME NEW h \in Handlers, Start(h)
        PROVE  Lifecycle!LifecycleNext \/ UNCHANGED <<Stored, Reads>>
    BY <1>1, StartSound, StartingReads
  <1>2. ASSUME NEW h \in Handlers, SaveCustomer(h) \/ HandlerFails(h)
        PROVE  Lifecycle!LifecycleNext
    <2>1. End(h) /\ request' = request
      BY <1>2 DEF SaveCustomer, HandlerFails, rows
    <2> QED
      BY <2>1, EndGivesUp
  <1>3. ASSUME NEW h \in Handlers, Continue(h)
        PROVE  Lifecycle!LifecycleNext \/ UNCHANGED <<Stored, Reads>>
    BY <1>2, <1>3, ContinueSound, ContinuingReads, SaveRequestIsSave
  <1>4. CASE Restart
    BY <1>4, RestartGivesUp
  <1>5. CASE UNCHANGED vars
    BY <1>5 DEF vars, rows, Stored, Reads, Mirrors
  <1> QED
    BY <1>1, <1>2, <1>3, <1>4, <1>5 DEF Next

\* The handlers implement the life cycle of requests, however they overlap, whatever
\* fails and however often the process restarts: whoever saves a status makes a move
\* of the life cycle from the status that it read, and a new request is nobody else's.
THEOREM RequestsImplementLifecycle == Spec => RequestsKeepLifecycle
  <1>1. Init => Lifecycle!LifecycleInit
    BY DEF Init, Lifecycle!LifecycleInit
  <1>2. IInv /\ [Next]_vars => [Lifecycle!LifecycleNext]_(Lifecycle!lifecycleVars)
    BY NextIsLifecycleStep DEF Lifecycle!lifecycleVars, Stored, Reads
  <1> QED
    BY <1>1, <1>2, InitIInv, NextIInv, PTL DEF Spec, RequestsKeepLifecycle,
      Lifecycle!LifecycleSpec

=============================================================================
