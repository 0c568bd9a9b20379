# A verification project for the KYC orchestration service

The service drives a customer's identity verification (KYC) from the first
request to a decision: it chooses a tier, asks for documents, calls vendors
(Digilocker, CKYC registry, AML screening, video KYC) in the order that a YAML
workflow gives, keeps a hash-chained audit trail, and runs timers. It is a
NestJS application: one process, many HTTP requests and webhooks at a time, each
an asynchronous function that runs alone between two `await`s. Rows live in a
database, several other things only in memory. There are no transactions and no
locks around a use case.

This directory holds TLA+ models of that program, TLC configurations that check
them on small instances, and TLAPS proofs. Paths below are relative to
`src/src/`, unless they say otherwise.

## 1. Inventory

| Component | State | Operations | Hard behaviour | What makes it correct |
|---|---|---|---|---|
| Verification state machine, `domain/state-machine`, `application/workflow-engine/state-machine-side-effects.ts` | `currentState`, `stateBeforeSuspension` | `apply(event, guards)`, `getAllowedEvents()` | the side effects (audit, notification) are awaited before the change is committed and may fail; a freeze starts from any status | changes follow the life cycle; a suspension neither loses nor makes progress; the audit trail announces every change |
| Workflow engine, `application/workflow-engine`, `config/workflows/*.yml` | flags and step results of one call | `executeWorkflow()`, `VendorStepExecutor.execute()` | steps of a group run concurrently, fail, wait for a callback or for a person; guards read flags other steps set | order, flags set before they are read, the result tells the truth |
| Use cases, `application/use-cases` | the rows of requests, customers, documents; the locals of each handler | initiate, upload, webhook, recalculate risk, escalate tier | read-modify-write of whole rows across awaits; two saves per handler; restarts lose what is in memory | each save of a request is a life-cycle move from the status it was made from; the tier falls, and the two rows disagree, for known reasons only; nothing is verified without its documents or its review |
| Video KYC adapter and webhook deduplication, `infrastructure/vendors` | sessions and processed events, in memory | `initiateVerification()`, `handleCallback()` | duplicated, reordered and late webhooks; a failure after an event was marked as processed | an event takes effect once |
| Circuit breaker, `infrastructure/vendors/circuit-breaker.ts` | state, outcomes in the window, probe flag | `execute()`, `getState()` | calls answer late, in any order, in another state than they started in | it never blocks calls for ever, never stays closed above its threshold |
| Audit trail, `infrastructure/audit`, `domain/entities/audit-event.entity.ts` | `audit_events` | `recordEvent()`, `verifyChainIntegrity()` | the newest event is read, then another is written, with no lock; several events in a millisecond | the chain verifies unless somebody tampered with it |
| Timer service, `application/workflow-engine/timer.service.ts` | timers | schedule, cancel, `pollAndFireDue()` | overlapping polls, cancellation while firing, a handler that throws | an expiry is handled before it is marked, once, and not dropped |
| Document storage, `infrastructure/storage` | object store and document rows | upload, read, deactivate | two stores, no transaction | a row has its object |
| Encryption and keys, `infrastructure/encryption` | key versions, in memory and on disk | encrypt, decrypt, rotate | rotation between an encryption and a decryption, a failed persist, a restart | whatever was stored can be read |
| Data erasure, `application/use-cases/request-data-erasure.use-case.ts`, `domain/data-erasure` | the customer's row; erasure requests and their timers, in memory | request erasure | holds that end on a day or never; the audit event, the row, the timer, the request and the second event are awaits that fail one by one; a restart | what is held is not erased and scheduled for the day on which it no longer is; trail, requests and timers agree; what is reported as erased is |
| Risk scoring and tier selection, `domain/risk-scoring`, `domain/strategies/tier-selector.ts` | none; the score and the tier in the customer's row | `calculateWeightedScore()`, `applyDeltas()`, `selectTier()`, the recalculation | rounding in floating point before a comparison; overlapping recalculations | scores stay in range, a worse customer scores no lower, a stored score is explained by the trail |
| AML alert disposition, `application/use-cases/dispose-aml-alert.use-case.ts` | a disposition per match | dispose | saved first, audited afterwards; two officers | every stored disposition can be traced |
| Digilocker, CKYC, AML and video adapters, retry, vendor factory, `infrastructure/vendors` | a map of operations per adapter, in memory; the circuit breaker | the vendor port, batch uploads and screenings | retries inside one call of the breaker, whatever becomes of the circuit; uploads whose answers are lost or come true late | a retry does not repeat what was done; an open circuit comes to rest; a call ends |
| HTTP API, authentication, error mapping; verification strategies | none | - | - | - |

How they interact: a controller calls a use case; the use case reads rows,
drives a state machine object of its own, stores documents, calls the workflow
engine, which calls vendor adapters through their circuit breakers; it schedules
or cancels timers and saves the request row and then the customer row. The state
machine's side effects append to the audit chain and notify. A vendor answers a
video session by a webhook, which the webhook controller hands to
`ProcessWebhookUseCase`. Timers are fired by `pollAndFireDue()`, which an outside
scheduler is to call.

Facts about the repository that shape the models:

- No use case applies `compliance.freeze`, `compliance.lift`, `timer.48h`,
  `timer.72h`; no code outside the tests calls `pollAndFireDue()`. The machine
  and the timer service are therefore modelled on their own, with every event
  and every call their interfaces allow, and `KycOrchestration` uses the table only
  with the events the use cases apply.
- `infrastructure/shared-infrastructure.module.ts` wires in-memory timers,
  deduplication and notifications: a restart loses them.
- `timeoutSeconds` and `retryPolicy` in the workflow files are read by no code.

The hazards, each at its line with the property that covers it or the reason why
none does, are the `hazards` of `PROJECT.json`.

## 2. Modules

| Module | Models | Used by |
|---|---|---|
| `TransitionTable` | the statuses, events, guards and the rows of the table, `Candidates` (the look-up of `apply()`) and `AllowedEvents` | the next one, `KycOrchestration` |
| `VerificationStateMachine` | one machine: `Apply` (look-up and guard), `RecordAuditEvent`, `SendNotification`, `SideEffectFails`, `Commit`, one per await of `apply()` | proofs, MC |
| `StatusLifecycle` | abstract: progress along edges, hold and release | refined by the machine |
| `WorkflowConfig` | the three shipped YAML files, what the loader accepts (`Loaded`), and the results a workflow may have (`EngineResults`) | engine, `KycOrchestration` |
| `WorkflowEngine` | one `executeWorkflow()`: `ContinueAfterGroup` (the loop and the beginning of a group), `Initiate`, `FetchSucceeds`, `FetchFails` (the awaits of a step) | MC |
| `KycOrchestration` | the five use cases as concurrent handlers over shared rows, with the video adapter, the deduplication set, timers and restarts | proofs, MC |
| `RequestLifecycle` | abstract: writers without a lock that read the status of a request and save a life-cycle move from it | refined by `KycOrchestration` |
| `CircuitBreaker` | one breaker with concurrent calls: `Execute` up to the await, `Succeed`/`Fail` after it, `ObserveState` | `VendorCalls` |
| `VendorCalls` | one vendor's adapter on top of its breaker: `Begin`, the requests of an attempt, `AttemptFails` (the catch block of the retry loop), `Wake`; uploads that the registry carries out late | proofs, MC |
| `AuditChain` | one customer's chain: `ReadLast`, `CreateEvent`, `Insert`, `WriteFails` | proofs, MC |
| `TimerService` | the timer table, polls and cancellations that work through a list | proofs, MC |
| `KeyStore` | `LocalFileKms`: keys and current version in memory, the file, `CreateKeyStore`, `LoadKeyStore`, `RotateKek`, the end of a process | `DocumentVault` |
| `DocumentVault` | the document storage service over key store, object store, rows and audit trail; concurrent calls, failures at every await, restarts | proofs, MC |
| `RiskScoring` | pure: weighted scores, deltas, rounding, the EDD threshold, the tier of a loan | `ComplianceDesk` |
| `ComplianceDesk` | erasure requests, risk recalculations and AML dispositions of one customer as concurrent handlers, one action per await; failures, a restart, the calendar | proofs, MC |
| `VerificationStateMachineProofs`, `WorkflowEngineProofs`, `KycOrchestrationProofs`, `VendorCallsProofs` (which includes the circuit breaker), `AuditChainProofs`, `DocumentVaultProofs`, `TimerServiceProofs`, `ComplianceDeskProofs` | theorems about the module they are named after | - |

`MC*` modules give the instances. An action stands for the code from one await to
the next; variables have the source's names where there is one. Operators whose
comment begins with `Variant:` are not part of a specification: each is a plausible
wrong version of the operation after it, and shows what a property detects.

Composition: `DocumentVault` extends `KeyStore` and takes its steps together with its own: every
envelope is wrapped with the key store's current key, and a process that ends takes
the object store and the calls with it. `VendorCalls` extends `CircuitBreaker` in the same way: its steps are
steps of the breaker with something of the adapter added, which `AdaptersKeepToTheBreaker` proves. `ComplianceDesk`
extends `RiskScoring`, which extends `WorkflowConfig`
for the tiers. `KycOrchestration` does not run the other machines inside it. It
uses the *table* of the state machine and the *results* of the engine
(`EngineResults`), and the run `workflow_engine` checks, as `OutcomeContract`, that
every run of the engine on a shipped file ends in one of these results. What the
state machine module adds to the table (side effects that fail before the commit)
appears in `KycOrchestration` as a handler that fails: the machine object is
discarded with it.

### State and code

- `VerificationStateMachine`: `currentState` and `stateBeforeSuspension` are the fields;
  `applying` and `stage` are the `apply()` in progress and the side effect it has come
  to. `lastAudit` (the newest audit event), `progress` (the last status other than
  `SUSPENDED`) and `refrozen` (has a frozen machine been frozen again?) are history.
- `WorkflowEngine`: `status[s]` tells how far the promise of a step is; `flags`
  is `context.flags`; `group` is what the `Promise.all` waits for. `registry` is
  history.
- `KycOrchestration`: `request`, `customer` and `documents` are rows; `timers`, `sessions`,
  `processed` are in memory and lost by `Restart`; `asked` is the vendor's side
  (external): the sessions it has and how each will end. `handler[h]` holds the
  locals of a running handler: the status of the request as it found it (`found`), the
  customer row it read (`row`), the state of its machine and where it is (`at`). A webhook names
  its request freely, by a header that nothing compares with the session, and its event by an
  identifier or not (`hasId`; the controller then makes one up). `lastSaved`, `overtaken` and
  `torn` are history: `overtaken` are the handlers about to save a customer status that another save
  has made outdated, and `torn` says that one of them did, or that a handler stopped between its
  two saves, and nobody has mirrored a status since.
- `CircuitBreaker`: the four fields; `inFlight[c]` is the local
  `stateBeforeExecution` of a call.
- `VendorCalls`: `vendor` says whose adapter it is; `call[c]` is the operation a caller is in, the
  request it waits for or the `sleep` between two attempts, and the `attempt` of the retry
  loop. `holdsReference` abstracts the adapter's map to whether it has an entry, `recorded`
  is the registry's side (external). `call[c].created`, `call[c].unsettled`, `late` and `delayed` are history.
- `ComplianceDesk`: `customer`, `trail` and `dispositions` are in the database, `erasures` and `timers` in
  memory. `handler[h]` holds the command, the row that was read, and the await it has come to.
  The trail is a set of payloads per type of event: the order of events is the
  business of `AuditChain`. `first`, `forgotten` and `unaudited` are history.
- `AuditChain`: `rows`; `writer[w]` holds the locals of a `recordEvent()`. `contended` is
  history: have two calls overlapped, or two events been stamped with the same
  millisecond?
- `KeyStore`: `keks` and `currentVersion` are the fields (version `vN` is `N`), `file` the content of the
  key store file. `unsaved` and `lost` are history: did this process's latest `persist()` throw, and
  has a key been given up since the beginning?
- `DocumentVault`: `objects` is the object store's map, `rows` and `trail` are in the database; `call[c]`
  holds what a call will record, its document and the envelope it made or read. An envelope is
  its version and the key it was wrapped with. `forgotten` is history: rows whose objects went with
  an earlier process.
- `TimerService`: `table`; `poll[p]` is a `pollAndFireDue()` with the timers it has
  read and not fired; `cancelling` the same for `cancelAllForCustomer()`. `resolved`
  and `disturbed` are history.

## 3. Runs

Runs that must pass:

| Run | Question | Bounds, and why they are enough |
|---|---|---|
| `state_machine` | every sequence of events, guard contexts and failing side effects on one machine | none but the initial statuses, which are those the use cases construct a machine with; the graph is complete |
| `workflow_engine` | every order of answers and failures for the shipped files and the parallel shapes of the unit tests | seven workflows, with and without the compliance flag; complete |
| `kyc_overtaking` | two handlers of one request that may overlap, failures at every await, one restart: what each save was made from | two handlers show every way in which one overtakes another, between its reads, its saves or after; a loan below and an escalation above the tier; webhooks with an identifier, so that duplicates are recognised |
| `kyc_concurrent` | two overlapping handlers on one customer: what no lost update can break | lost updates need two; two sessions, since a request waits for one and the webhook creates another; webhooks without an identifier, none of which is ever a duplicate, so that everything a repeated event may do happens; no restart, which would only take away timers, sessions and handlers |
| `vendor_calls` | each of the four adapters with two callers; lost and late answers | two callers show one that goes on after the other has opened the circuit; window 1, minimum 2, timeout 1 and clock 2 let the circuit open, half open and close; four executions; two retries, which is the policy of three of the five kinds of call (the others have three); the certificate expires at 2 |
| `compliance_desk` | two handlers at a time out of three calls, among erasures, recalculations and dispositions; a restart | two handlers overlap, and a third call comes after them; two erasure requests; one match, about which two officers disagree; scores that reach 60.5, 80, or pass the threshold by deltas from 50; holds that end on the day of the request, later or never, with a retention of 1 and a calendar of 0 to 2 |
| `audit_chain` | two writers, three events, four milliseconds | three events give a chain with a middle; two writers overlap |
| `document_vault` | uploads, reads and deactivations with rotations, failing writes and restarts | one document that two calls compete for, since documents only share the keys; three keys: one from the start, one whose write fails, one that makes it good or comes after a restart |
| `timers` | two polls, cancellations, failing handlers | two timers are what a failing one and one behind it need; two failures |

What the passing runs check, one line per property:

- `SuspensionMemory`: the status remembered is exactly the last one before the suspension, until a
  second freeze; what that loses is stated with it.
  `AuditAtMostOneAhead`, `ChangesAreAudited`: whatever side effect fails, the newest
  audit event led to the current state or starts from it, and a state changes
  only as announced. `KeepsLifecycle`: the machine implements `StatusLifecycle`.
- `RunsInOrder`, `RecordDecidesFetching`, `ShippedNeverThrows`, `OutcomeContract`: steps
  are not begun before the earlier groups succeeded; registry-only steps run for
  the right customers; no flag is read before it is set; the result is one the use
  cases were written for.
- `RequestsKeepLifecycle`: each save of a request is a move of the life cycle from the status that
  its handler found; the stored status is left by such a move unless it was overtaken.
  `TierFallsOnlyToWhatWasRead`: the tier falls by a lost update only, and not below what
  was read. `StatusMirrored`: the two rows disagree only while a handler is between its saves, after one stopped
  there, or after an overtaken one has saved. `HighRiskIsEdd`,
  `VerifiedHasDocuments`, `EddNeedsReview`: what no interleaving breaks.
- `NeverStuck`, `ClosedIsBelowThreshold`: however calls and retries overlap, the breaker is not stuck, and
  not closed in front of a failing vendor. `OneRecordPerCall`: a retry does not repeat an upload.
  `OpenCircuitDrains`: after the circuit has opened, only the retries that were left come
  through. `CallsEnd`: a call that was let through ends.
- `ScheduleMeetsRelease`: a partial erasure is scheduled for exactly the first day without a hold.
  `ErasureIsRecorded`, `RiskIsExplained`, `DispositionIsTraceable`: rows, requests, timers and trail
  agree, wherever handlers overlap and fail.
- `SerialChainVerifies`, `LinksLeadBack`.
- `EnvelopesOpen`, `RowHasObject`, `TrailIsTruthful`: what the database has can be decrypted, rows
  have objects, events happened.
- `FiredWasHandled`, `HandledOnce`, `CancelledStaysQuiet`, `DueIsFired`.

The use cases run without a lock or a version on any row: two
read-modify-write cycles do overwrite each other. So the properties of `kyc_overtaking` do not say that the
tier never falls, that no decision is overwritten or that the rows always agree, which is false of the code.
They say what each save was made from, and bound what a lost update can do; without an overlap and without a stop
between two saves they come to exactly those promises. One request is enough to break
them in the ways of the mutants, and the theorems hold for any number of requests.

Runs that show a disagreement between the code and what its comments, error
texts or tests say (the quotations are in `findings`):

| Run | What TLC finds |
|---|---|
| `callback_rerun` | a completed video session makes the webhook run the whole workflow again, wait for a new session, and reject the verification |
| `first_key_store` | the key store file that the first start writes has no current version, and the next start refuses it: without a rotation in between, which no code does, the service cannot be restarted with its keys |
| `erasure_completed` | an erasure without holds is recorded as completed, its categories with the core identity among them, and the row keeps the name and the date of birth: `save()` of a row that exists does not write these columns |

Disagreements without a run of their own, read off the code and its models: a machine frozen
twice and then lifted is suspended with no status to return to, which an error text
calls "structurally impossible"; the second of two mandatory documents finds no row in the
table, so that a request rests in `DOCUMENTS_RECEIVED` with all its documents stored; the
Digilocker adapter's `checkStatus()` is not retried; missing credentials are noticed on the
first use of a vendor and not at startup; a disposition whose audit event fails stays
unaudited; a call from
before the circuit opened clears the flag of a probe in flight (`Fail` and `Succeed` of
`CircuitBreaker`); overlapping `recordEvent()` calls name the same previous event, which is what
`contended` sets apart in `AuditChain`; the two awaits of the webhook deduplication; timers
that nothing polls.

`MCAuditChain`, `MCTimerService`, `MCDocumentVault`, `MCKeyStoreRestart`, `MCComplianceDesk` and `MCErasureCompleted` turn the
deadlock check off: nothing forces another event, timer, key or request, and the bounds on them are used up; a service whose key file is
refused stops for good. Everywhere
else it is on.

### Fairness

There are two liveness properties. `DueIsFired`, of the timer service, assumes weak
fairness of `StartPoll`, `HandlerResolves` and `MarkFired` for each poller: the class comment of
`timer.service.ts` asks for a scheduler that calls `pollAndFireDue()` on an
interval, and a handler or repository that is called answers. Nothing is assumed
of the clock, of callers or of cancellations. `MaxFailures` bounds the polls that
throw: a timer whose handler throws each time is retried first in every poll,
and blocks the timers behind it for ever.

`CallsEnd`, of `VendorCalls`, assumes weak fairness of `Answer` and `Wake` for each caller: a vendor that
was asked answers or the connection to it fails, and a `setTimeout()` ends. The first is an
assumption about the vendors and their clients, which no code ensures, as no
time-out bounds a call. What the property adds is the code's part: the retry loop comes to an
end, whatever errors it gets, and then releases the breaker. For the same reason no fairness is assumed
of use cases: liveness of a verification is not something the code promises.

## 4. Proofs

`VerificationStateMachineProofs` proves, for every set of initial statuses
(`InitialStatusesAssumption`, `NoneAssumption`): `TypeCorrect`, `MemoryUntilFrozenAgain`, `AuditKeepsUp`,
`AuditBeforeChange`, `ImplementsLifecycle`, and about the table `AtMostOneRow`, that
`apply()` taking the *first* matching row loses nothing.

The inductive invariant is

    IInv == TypeOK /\ SuspensionMemory /\ AuditAtMostOneAhead /\ PendingApply

`SuspensionMemory` alone is not inductive: `Commit` installs a target chosen by an
earlier `Apply`, and until then only `applying` knows it. `PendingApply` states what holds of a
call in progress: it started from the state the machine is still in, its target
fits its event, and its audit event, once recorded, is the newest one.
`ApplyIsSound` (by `RowsByEvent`, on the shapes of the table's rows) establishes it; the
side-effect steps keep it; `Commit` uses it up. `refrozen` tells the suspensions whose memory is
exact from those in which a second freeze has overwritten it: in these every lift moves from
`SUSPENDED` to `SUSPENDED` or throws, so that nothing leads out again. The refinement maps
`progress` to `progress` and `onHold` to `currentState = "SUSPENDED"`: a freeze
is `Hold`, a lift `Release`, a row that stays where it is, and a freeze of a frozen
machine, stutter.

`KycOrchestrationProofs` proves what holds of every interleaving of the use cases,
for any number of requests, handlers, sessions and restarts (`NoneAssumption`,
`TiersAssumption`, `DocumentsAssumption`, `VerdictsAssumption`, `BoundsAssumption`):
`HandlersTypeCorrect`, `HighRiskStaysEdd`, `NothingVerifiedWithoutDocuments`,
`NoEddWithoutReview`, `StatusIsMirrored`, `TierFallsByLostUpdateOnly` and
`RequestsImplementLifecycle`. Handlers overlap freely in all of them. The inductive invariant is

    IInv == HandlersSound /\ RowsSound /\ MemorySound /\ HistorySound /\ MirrorSound

The properties speak of stored rows, but a row is written from what a handler read
or decided many awaits ago. So `CallSound` states the same of the handler's locals:
the customer row it holds is EDD if it is of high risk (`RowSound`), and the status
of its machine may be one of `Careful` only if the documents of its request are stored, and
`VERIFIED` only if the tier is not EDD (`StatusSound`). That survives the steps of others because
documents are never taken away and no update changes the tier of a request row.
Only an insertion could, which is why `HandlersSound` also says that
a request about to be inserted has no row yet, and that no two handlers insert the
same one. `EddNeverSucceeds`, a lemma about the shipped EDD workflow, is what rules out a
successful run without approval.

For the life cycle, `CallSound` also says how far the use case can have taken the status that it found
by each of its awaits (`OnCourse`): an upload saves only what began at `DOCUMENTS_PENDING`, a
webhook only what began at `VENDOR_CALLBACK_AWAITED`, because `doc.uploaded` and
`callback.rcvd` have one row each. That speaks of the handler's locals alone, so no other
handler disturbs it. The refinement maps `stored` to the statuses of the request rows and
`reading` to the request and the status found by each handler that has yet to save it (`Reads`): the start
of a handler is a `Read`, a save of a request a `Save`, an end without one, a failure and a restart `GiveUp`,
and every other step stutters. A creation meets no row because `HandlersSound` keeps its request to itself.

`MirrorSound` says of a handler between its saves that the status in its hands is `lastSaved` unless it was
overtaken, and of one that keeps the status it read that this is still the customer's, unless it was
overtaken; with it `StatusMirrored` is inductive. `TierFallsByLostUpdateOnly` follows from what `RowToSave`
does to the row in the handler's hands: each use case only raises its tier (`Raise`), so a row that is still the
stored one is not lowered. `NotACallAssumption` says that null is none of the records that a handler holds.

`VendorCallsProofs` first proves `BreakerNeverStuck` of the breaker alone, for any number of
calls and any configuration (`ConfigAssumption`). `NeverStuck` is inductive up to the types of four variables, which `StuckInv`
adds. The work is in `TransitionKeepsOpening` and `EndIsSound`: a call may end in another
state than it began in, and every such end must leave the time of the opening behind, and
no flag of a probe that nobody carries.

Then it proves that every step of an adapter is a step of its breaker or leaves it alone
(`AdaptersKeepToTheBreaker`, a refinement without a mapping, as the breaker's variables are
among the adapter's), from which `RetriesNeverStickTheBreaker` follows at once, and
`UploadsAtMostOnce` for any number of retries. `OneRecordPerCall` alone is not inductive: a
second upload is ruled out only because a call that has uploaded goes back to the search, and
the search finds the record. `UploadSound` says so: once a call has created a record and
nothing was carried out late, the registry has it, and the call is not at an upload.

The remaining safety properties of these two modules are proved as well:

- `ClosedStaysBelowThreshold`, by `WindowInv`, which is the property with the types of the breaker.
  It rests on what the window keeps of the outcomes. `StillIn`, the filter of `pruneOldOutcomes()`, is
  a recursive function, and not `SelectSeq`, whose recursive definition the provers cannot expand. That
  such a function exists is proved first (`FilterExists`), by looking for a least sequence without a
  filtered copy (`LeastNatural`, from well-founded orders); then that the filter keeps the
  types (`StillInTyped`) and the outcome just recorded (`StillInKeepsLast`). `RetriesKeepClosedBelowThreshold`
  follows as `NeverStuck` did.
- `VendorCallsTypeCorrect`, by `CallsInv`: the types of the breaker and of the calls, together with
  `UploadInv`, which knows how an operation goes on after each answer.
- `OpenCircuitsDrain`, which bounds a counter by the retries of all callers. Instead of a sum over the callers, `DrainInv` keeps
  a set of pairs, a caller and the number of a retry, with as many elements as `late` counts, all of them
  begun (`DrainedBy`). A retry that is woken adds a new pair, and the caller whose failure opened the circuit has none. The bound
  is the size of the set of all pairs, for which the callers must be finite in number and not none
  (`CallersAssumption`: a process serves finitely many requests at a time).

`WorkflowEngineProofs` proves all five properties of the engine, for any workflows that the
loader accepts (`WorkflowsAssumption`) and any order of answers and failures:

- `EngineTypesCorrect`, `StepsRunInOrder`. `FlowInv` adds to the types that a rejected step
  means that the call threw, and a step not reached that it returned. The work is in
  `EarlierIsDone`: nothing under way and nothing waiting leaves only steps that are done.
- `RecordDecides`, if the registry is searched in one step at most (`SearchesOnce`) and nobody
  calls the engine with a search result (`NothingSearchedYet`). `RecordInv` ties the
  flag to the answer: with a second search the flag could change between two steps that read it.
- `NeverThrows`, for a file in which every flag that is read is set by an earlier step that runs
  alone and is never skipped (`SetsWhatItReads`); `ShippedFilesNeverThrow` shows the three files to be such.
- `ShippedOutcomes`, if an approval is only ever given as true (`ApprovedOrNot`; the use cases
  pass no flags at all, the unit tests an approval as true). The files satisfy `HaltsAlone`: a step that may stop the run is
  in no group, never skipped, and stops it for one reason. `EndingInv` says why each step is
  where it is; `HaltsAtFirst` and `FailsOrWaits` use `RunsInOrder` for the rest, and `PendingHasFirst`
  a least order, which exists because orders are natural numbers.

`AuditChainProofs` proves `ChainTypeCorrect`, `LinksAlwaysLeadBack` and `SerialCallsVerify`.
`LinksInv` adds that the event a writer has read is recorded and, once the writer has its own
time stamp, not younger than that. `SerialInv` adds that, as long as nothing is
`contended`, at most one call is under way, its time stamp is later than every recorded one,
and what it read is the newest event: only then does an insertion extend the chain at its end.

`DocumentVaultProofs` proves all four properties of the vault (`KeysAssumption`, `VaultAssumption`).
The keys that matter are `Kept`: those in memory, or, while no process runs, those in the file.
`KeysSound` says that they are the same as long as the latest write succeeded, and `OpenStaysOpen` that
an envelope which opens with `Kept` does so after every step that loses no key; rotation only
appends. `StoredOpens` applies this to what is stored, `CallSound` to the envelope of an upload under way,
with what the upload has done so far: at `save`, its object is there, and no other
call uploads the same document.

`TimerServiceProofs` proves the safety properties for any number of timers, owners, polls and failures
(`TimerAssumption`): `TimersTypeCorrect`, `FiredTimersWereHandled`, `UndisturbedTimersAreHandledOnce`,
`CancelledTimersStayQuiet`. `HandledInv` adds that the timer a poll is about to mark was handled.
`OnceInv` adds, for undisturbed polls, that one is under way at a time, that what was handled is marked or
being marked, and that the list a poll works through holds nothing that is fired.

`ComplianceDeskProofs` proves, over `RiskScoring` alone: `NewScoresAreScores`,
`RoundingDecidesAtOneTotal`, `WorseFactorsScoreNoLower`, `TierGrowsWithTheLoan`; of the legal holds,
`ExpiryIsTheFirstFreeDay`; and of the handlers, for any number of them, of calls, requests, matches and
restarts (`ScoringAssumption`, `DatesAssumption`, `HoldsAssumption`, `BoundsAssumption`,
`NullAssumption`), all five properties of the run.
`Types` needs to know more than `DeskTypeOK`: which places the calls of each kind come to, and
with what (`Paths`: an upgrade is announced only of a row that is not EDD, a schedule reached only with a date).
`RiskInv` says of the row that a handler is about to save what `RiskIsExplained` says of the stored one;
it survives the steps of others because a trail only grows, and what it explains stays
explained (`ExplainedForGood`). `ErasureInv` follows a request from its announcement to its
execution: what `Outcome` computes is the same at every await, as it depends on the command and
the day of the request only; its timer exists before it is saved, and it is saved before it is reported. TLC checked `IInv` of this module,
`OnCourse` and `MirrorSound` of `KycOrchestrationProofs` and `DrainInv` of `VendorCallsProofs` on the instances of their runs before they were proved.

What TLC alone checks: `DueIsFired` and `CallsEnd`, which need fairness, and with it `ENABLED`; that
nothing deadlocks; and the three runs that expect a violation. Every other property of a run is also a
theorem.

## 5. Not modelled

- *Tampering, cryptography, encodings*: an audit event's hash covers its random id,
  which stands for the hash. OAuth tokens, request signatures, HMAC checks and the shape of
  vendor results are left out; that an answer is refused for one of them is a request that fails.
- *The clock* is monotone, and the length of a backoff is a sleep that ends.
- *One customer* at a time: no operation modelled touches two. AML and CKYC webhooks reach
  the same handler as the video ones; their adapters' `handleCallback()` is left out.
- *Merged steps*: `cancelAllForCustomer()` inside `ApplyCallback` is one step there (its
  own interleavings are those of `TimerService`); the adapter's answer is read with
  the step after `markProcessed()`. Audit events and notifications between the
  awaits of a handler appear in `KycOrchestration` as places where it may fail.
- *The AML repository*: what `aml.module.ts` binds is a stub that finds no match and stores
  nothing, so `ComplianceDesk` follows the port and the in-memory fake of the tests.
- *The 24 hour expiry* of a deduplication entry, read-only queries, breaker listeners (none is
  registered), the breakdown of a score (nothing reads it), reading and validating `vendors.yml`.
- *HTTP API, authentication, error mapping*: stateless routing, decorators and formatting.
- *Verification strategies*: constant step lists that no use case reads; the YAML files are what runs.

## 6. Plan

Done, in this order: state machine and its proofs, workflow engine, use cases,
circuit breaker, audit chain, timers; document vault with its keys; proofs about the
breaker, the chain, the use cases and the vault; the vendor adapters with their retries,
risk scoring, the compliance desk, polls and cancellations of timers one await at a time; the proofs about
these four and about the engine; the window and the draining of the breaker, and what overlapping use cases
keep of the life cycle, the tier and the mirrored status.

What is left:

1. The expiry of a deduplication entry in `KycOrchestration`: it needs a clock there, which
   multiplies the states of the two largest runs.
2. A version column on the rows, should the code get one: `RequestLifecycle` could then promise that
   the stored status itself is left by life-cycle moves only, and the tier would never fall.
