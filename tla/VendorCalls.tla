------------------------------ MODULE VendorCalls ------------------------------
(***************************************************************************)
(* One vendor's adapter: what its operations do between their caller and   *)
(* the vendor. Each runs inside the adapter's circuit breaker, and most    *)
(* run there inside retryWithBackoff(), so that one call of the breaker is *)
(* up to maxRetries + 1 attempts, whatever becomes of the circuit in the   *)
(* meantime. A CKYC attempt is two requests: a search, then a download of  *)
(* the record or, if there is none, an upload.                             *)
(***************************************************************************)
EXTENDS CircuitBreaker, FiniteSetsExt

CONSTANTS
  RetryLimit,        \* bound on the retries of a call, at or below the policies'
  CertificateExpiry  \* the tick at which the CKYC client certificate expires

ASSUME LimitAssumption == RetryLimit \in Nat /\ CertificateExpiry \in Nat

\* There is somebody to call, and only so many at a time.
ASSUME CallersAssumption == IsFiniteSet(Calls) /\ Calls # {}

VARIABLES
  vendor,          \* whose adapter this is
  call,            \* per caller: the operation it is in, and how far
  holdsReference,  \* is there an entry in the adapter's in-memory map?
  recorded,        \* the CKYC registry's side: does it have the customer's record?
  late,            \* attempts begun since the circuit opened, while it is open
  delayed          \* history: did a request take effect after its answer was given up?

adapterVars == <<vendor, call, holdsReference, recorded, late, delayed>>
vendorVars == <<breakerVars, adapterVars>>

\* maxRetries of the retry policies.
RetriesOf == [DIGILOCKER_DOCUMENT_FETCH |-> 3, CKYC_SEARCH_DOWNLOAD |-> 2, CKYC_UPLOAD |-> 3,
              VIDEO_KYC_SESSION_CREATE |-> 2, AML_REALTIME_SCREENING |-> 2, none |-> 0]

\* Each adapter's operations that go through its breaker, with the policy that
\* they are retried under. The others look into the adapter's map.
DigilockerCalls == [initiateVerification |-> "DIGILOCKER_DOCUMENT_FETCH", checkStatus |-> "none",
                    fetchResult |-> "DIGILOCKER_DOCUMENT_FETCH"]
CkycCalls == [fetchResult |-> "CKYC_SEARCH_DOWNLOAD", uploadBatch |-> "CKYC_UPLOAD"]
VideoKycCalls == [initiateVerification |-> "VIDEO_KYC_SESSION_CREATE"]
AmlCalls == [initiateVerification |-> "AML_REALTIME_SCREENING", screenBatch |-> "none",
             registerOngoingMonitoring |-> "none"]

Policies == [DIGILOCKER |-> DigilockerCalls, CKYC |-> CkycCalls,
             VIDEO_KYC |-> VideoKycCalls, AML_SCREENING |-> AmlCalls]

Vendors == DOMAIN Policies
Operations == DOMAIN Policies[vendor]
Smaller(m, n) == IF m <= n THEN m ELSE n
MaxRetries(op) == Smaller(RetriesOf[Policies[vendor][op]], RetryLimit)

\* The vendor codes that the error maps call retryable; every other code, and
\* every error without a code, is not.
RetryableDigilocker == {"rate-limited", "service-unavailable"}
RetryableCkyc == {"timeout"}
RetryableVideoKyc == {"liveness-failed", "face-mismatch", "session-expired", "poor-connectivity",
                      "concurrent-session-limit-reached"}
RetryableAml == {"quota-exceeded", "service-degraded", "list-update-in-progress"}

RetryableCodes == [DIGILOCKER |-> RetryableDigilocker, CKYC |-> RetryableCkyc,
                   VIDEO_KYC |-> RetryableVideoKyc, AML_SCREENING |-> RetryableAml]

Codes == RetryableCodes[vendor] \cup {"any other"}
IsRetryable(code) == code \in RetryableCodes[vendor]

NoCall == [op |-> "none", at |-> "none", attempt |-> 0, created |-> 0, unsettled |-> 0]

VendorInit ==
  /\ BreakerInit
  /\ vendor \in Vendors
  /\ call = [c \in Calls |-> NoCall]
  /\ holdsReference = FALSE
  /\ recorded \in BOOLEAN /\ (recorded => vendor = "CKYC")
  /\ late = 0
  /\ delayed = FALSE

\* The first request of an attempt is named after its operation, a search apart.
FirstRequest(op) == IF vendor = "CKYC" /\ op = "fetchResult" THEN "search" ELSE op

Asking(c) == call[c].at \notin {"none", "sleep"}

\* `late' after a step that begins n attempts.
LateAfter(n) == late' = IF state' = "OPEN" THEN late + n ELSE 0

End(c) == call' = [call EXCEPT ![c] = NoCall]

-----------------------------------------------------------------------------
(***************************************************************************)
(* The adapters' operations                                                *)
(***************************************************************************)

\* CkycAdapter.initiateVerification(): an operation is stored, nobody is called.
StoreOperation ==
  /\ vendor = "CKYC"
  /\ now < CertificateExpiry
  /\ holdsReference' = TRUE
  /\ UNCHANGED <<breakerVars, vendor, call, recorded, late, delayed>>

\* What an operation checks before it enters the breaker. The context that it is
\* called with has the fields it insists on.
Accepts(op) ==
  /\ vendor = "CKYC" /\ op = "fetchResult" => now < CertificateExpiry
  /\ op \in {"checkStatus", "fetchResult"} => holdsReference

\* An operation up to its first request, unless the breaker refuses it.
Begin(c, op) ==
  /\ Accepts(op)
  /\ Execute(c)
  /\ call' = IF inFlight'[c] = "none" THEN call
             ELSE [call EXCEPT ![c] = [op |-> op, at |-> FirstRequest(op), attempt |-> 0,
                                       created |-> 0, unsettled |-> 0]]
  /\ LateAfter(0)
  /\ UNCHANGED <<vendor, holdsReference, recorded, delayed>>

\* The search answers; the attempt goes on with a download or an upload.
SearchAnswered(c) ==
  /\ call[c].at = "search"
  /\ call' = [call EXCEPT ![c].at = IF recorded THEN "download" ELSE "upload"]
  /\ UNCHANGED <<breakerVars, vendor, holdsReference, recorded, late, delayed>>

\* What a request has done at the vendor, when it was carried out.
Effect(c) ==
  recorded' \in IF call[c].at = "upload" THEN {TRUE}
                ELSE IF call[c].at = "uploadBatch" THEN {TRUE, recorded} ELSE {recorded}

\* The last request of an attempt answers as it should: the breaker counts a
\* success, and an initiated verification has its entry in the adapter's map.
RequestSucceeds(c) ==
  /\ Asking(c) /\ call[c].at # "search"
  /\ Succeed(c)
  /\ Effect(c)
  /\ holdsReference' = (holdsReference \/ call[c].op = "initiateVerification")
  /\ End(c)
  /\ LateAfter(0)
  /\ UNCHANGED <<vendor, delayed>>

\* Variant: the loop forgets to count the attempt.
AttemptFailsUncounted(c, code, created, unsettled) ==
  IF call[c].attempt < MaxRetries(call[c].op) /\ IsRetryable(code)
  THEN /\ call' = [call EXCEPT ![c].at = "sleep",
                               ![c].created = @ + created, ![c].unsettled = @ + unsettled]
       /\ UNCHANGED <<breakerVars, late>>
  ELSE Fail(c) /\ End(c) /\ LateAfter(0)

\* Variant: one attempt too many.
AttemptFailsOffByOne(c, code, created, unsettled) ==
  IF call[c].attempt <= MaxRetries(call[c].op) /\ IsRetryable(code)
  THEN /\ call' = [call EXCEPT ![c].at = "sleep", ![c].attempt = @ + 1,
                               ![c].created = @ + created, ![c].unsettled = @ + unsettled]
       /\ UNCHANGED <<breakerVars, late>>
  ELSE Fail(c) /\ End(c) /\ LateAfter(0)

\* The catch block of retryWithBackoff(): sleep if the error is retryable and an
\* attempt is left, else let the breaker count a failure and throw.
AttemptFails(c, code, created, unsettled) ==
  IF call[c].attempt < MaxRetries(call[c].op) /\ IsRetryable(code)
  THEN /\ call' = [call EXCEPT ![c].at = "sleep", ![c].attempt = @ + 1,
                               ![c].created = @ + created, ![c].unsettled = @ + unsettled]
       /\ UNCHANGED <<breakerVars, late>>
  ELSE Fail(c) /\ End(c) /\ LateAfter(0)

\* A request fails, with an error that the vendor answers, an answer that is
\* refused (a malformed KIN, an unsigned document) or no answer. Only the Digilocker
\* initiation cannot: it asks nobody.
RequestFails(c) ==
  /\ Asking(c)
  /\ ~(vendor = "DIGILOCKER" /\ call[c].op = "initiateVerification")
  /\ \E code \in Codes :
       \/ AttemptFails(c, code, 0, 0) /\ UNCHANGED recorded
       \/ /\ call[c].at \in {"upload", "uploadBatch"}
          /\ Effect(c)
          /\ AttemptFails(c, code, IF call[c].at = "upload" THEN 1 ELSE 0, 0)
       \/ /\ call[c].at = "upload"
          /\ AttemptFails(c, code, 0, 1)
          /\ UNCHANGED recorded
  /\ UNCHANGED <<vendor, holdsReference, delayed>>

\* The registry carries out an upload whose answer nobody waits for any more.
UploadTakesEffectLate(c) ==
  /\ call[c].unsettled > 0
  /\ call' = [call EXCEPT ![c].unsettled = @ - 1, ![c].created = @ + 1]
  /\ recorded' = TRUE
  /\ delayed' = TRUE
  /\ UNCHANGED <<breakerVars, vendor, holdsReference, late>>

\* Variant: only the request that failed is made again.
WakeAtUpload(c) ==
  /\ call[c].at = "sleep"
  /\ call' = [call EXCEPT ![c].at =
                IF FirstRequest(call[c].op) = "search" THEN "upload" ELSE call[c].op]
  /\ UNCHANGED <<breakerVars, vendor, holdsReference, recorded, delayed>>
  /\ LateAfter(1)

\* The backoff has passed: the next attempt begins, with its first request, and
\* without asking the breaker again.
Wake(c) ==
  /\ call[c].at = "sleep"
  /\ call' = [call EXCEPT ![c].at = FirstRequest(call[c].op)]
  /\ UNCHANGED <<breakerVars, vendor, holdsReference, recorded, delayed>>
  /\ LateAfter(1)

\* getHealthStatus().
GetHealthStatus ==
  /\ ObserveState
  /\ LateAfter(0)
  /\ UNCHANGED <<vendor, call, holdsReference, recorded, delayed>>

PassTime == Tick /\ UNCHANGED adapterVars

VendorNext ==
  \/ StoreOperation
  \/ \E c \in Calls :
       \/ \E op \in Operations : Begin(c, op)
       \/ SearchAnswered(c)
       \/ RequestSucceeds(c)
       \/ RequestFails(c)
       \/ UploadTakesEffectLate(c)
       \/ Wake(c)
  \/ GetHealthStatus
  \/ PassTime

VendorSpec == VendorInit /\ [][VendorNext]_vendorVars

\* A vendor that was asked answers, or the connection to it fails; a sleep ends.
Answer(c) == SearchAnswered(c) \/ RequestSucceeds(c) \/ RequestFails(c)

Answering ==
  \A c \in Calls : WF_vendorVars(Answer(c)) /\ WF_vendorVars(Wake(c))

FairVendorSpec == VendorSpec /\ Answering

-----------------------------------------------------------------------------
(***************************************************************************)
(* Properties                                                              *)
(***************************************************************************)

\* Types. A caller is in an operation exactly while the breaker has its call,
\* and never in more attempts than the policy allows.
CallTypeOK(c) ==
  \/ call[c] = NoCall
  \/ /\ call[c].op \in Operations
     /\ call[c].at \in {FirstRequest(call[c].op), "sleep"} \cup
          IF FirstRequest(call[c].op) = "search" THEN {"download", "upload"} ELSE {}
     /\ call[c].attempt \in 0..MaxRetries(call[c].op)
     /\ call[c].created \in Nat /\ call[c].unsettled \in Nat
     /\ call[c].at = "sleep" => call[c].attempt > 0

VendorTypeOK ==
  /\ BreakerTypeOK
  /\ vendor \in Vendors
  /\ \A c \in Calls : CallTypeOK(c) /\ (call[c] = NoCall) = (inFlight[c] = "none")
  /\ holdsReference \in BOOLEAN /\ recorded \in BOOLEAN /\ delayed \in BOOLEAN
  /\ late \in Nat

\* A retry does not repeat what was done: fetchResult() uploads a customer's data
\* at most once with success, however many of its answers are lost, because
\* every attempt searches first. That needs the registry to have dealt with an
\* upload by the time its call fails: an upload that it carries out afterwards
\* is one that the next attempt's search may miss.
OneRecordPerCall == ~delayed => \A c \in Calls : call[c].created <= 1

\* An open circuit does not stop the retries of calls it let through before. All
\* that still reaches the vendor is what these have left: each caller but the
\* one that opened the circuit has its retries, and nobody begins a new call.
OpenCircuitDrains ==
  late <= (Cardinality(Calls) - 1) * Max({MaxRetries(op) : op \in Operations})

\* A call that the breaker let through ends, and releases what it holds of the
\* breaker, as long as the vendor answers or fails and sleeps end.
CallsEnd == \A c \in Calls : (inFlight[c] # "none") ~> (inFlight[c] = "none")

=============================================================================
