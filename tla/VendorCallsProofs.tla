--------------------------- MODULE VendorCallsProofs ---------------------------
(***************************************************************************)
(* Proofs about CircuitBreaker and VendorCalls, for every vendor, number   *)
(* of callers, bound on the retries and configuration of the breaker.      *)
(***************************************************************************)
EXTENDS VendorCalls, TLAPS, WellFoundedInduction, FiniteSetTheorems

-----------------------------------------------------------------------------
(***************************************************************************)
(* The breaker alone. The contents of its window do not matter here.       *)
(***************************************************************************)

\* The part of the types that the argument needs, and what it is about.
StuckInv ==
  /\ state \in States
  /\ inFlight \in [Calls -> {"none", "CLOSED", "HALF_OPEN"}]
  /\ now \in Nat
  /\ openedAt \in Nat \cup {Never}
  /\ NeverStuck

\* A transition to a state that is not OPEN keeps the time of the opening, or
\* forgets it in a circuit that is closed afterwards.
LEMMA TransitionKeepsOpening ==
  ASSUME StuckInv, NEW to \in States, NEW kept, TransitionTo(to, kept),
         to = "HALF_OPEN" => state # "CLOSED"
  PROVE  /\ state' \in States
         /\ openedAt' \in Nat \cup {Never}
         /\ state' # "CLOSED" => openedAt' # Never
  <1>1. CASE to = state
    BY <1>1 DEF TransitionTo, StuckInv, NeverStuck
  <1>2. CASE to # state /\ to = "OPEN"
    BY <1>2, ConfigAssumption DEF TransitionTo, StuckInv
  <1>3. CASE to # state /\ to = "CLOSED"
    BY <1>3 DEF TransitionTo, States
  <1>4. CASE to # state /\ to = "HALF_OPEN"
    BY <1>4 DEF TransitionTo, StuckInv, NeverStuck
  <1> QED
    BY <1>1, <1>2, <1>3, <1>4 DEF States

\* getState() shows a half-open circuit only after it was open.
LEMMA CurrentStateSound ==
  ASSUME StuckInv
  PROVE  /\ CurrentState \in States
         /\ CurrentState = "HALF_OPEN" => state # "CLOSED"
  BY DEF StuckInv, CurrentState, States

\* A call that ends, whatever it does to the state, leaves no flag behind.
LEMMA EndIsSound ==
  ASSUME StuckInv, NEW c \in Calls,
         inFlight' = [inFlight EXCEPT ![c] = "none"],
         halfOpenProbeInFlight' = FALSE,
         UNCHANGED now,
         NEW to \in States, NEW kept, TransitionTo(to, kept),
         to = "HALF_OPEN" => state # "CLOSED"
  PROVE  StuckInv'
  <1>1. /\ state' \in States
        /\ openedAt' \in Nat \cup {Never}
        /\ state' # "CLOSED" => openedAt' # Never
    BY TransitionKeepsOpening
  <1> QED
    BY <1>1 DEF StuckInv, NeverStuck

LEMMA ExecuteIsSound ==
  ASSUME StuckInv, NEW c \in Calls, Execute(c)
  PROVE  StuckInv'
  <1>1. /\ state' \in States
        /\ openedAt' \in Nat \cup {Never}
        /\ state' # "CLOSED" => openedAt' # Never
    BY CurrentStateSound, TransitionKeepsOpening DEF Execute
  <1>2. inFlight[c] = "none" /\ now' = now
    BY DEF Execute
  <1>3. CASE /\ inFlight' = [inFlight EXCEPT ![c] = CurrentState]
             /\ CurrentState \in {"CLOSED", "HALF_OPEN"}
             /\ halfOpenProbeInFlight' = (CurrentState = "HALF_OPEN" \/ halfOpenProbeInFlight)
    <2>1. inFlight' \in [Calls -> {"none", "CLOSED", "HALF_OPEN"}]
      BY <1>3 DEF StuckInv
    <2>2. CASE CurrentState = "HALF_OPEN"
      <3>1. inFlight'[c] = "HALF_OPEN"
        BY <1>3, <2>2 DEF StuckInv
      <3> QED
        BY <1>1, <1>2, <2>1, <3>1 DEF StuckInv, NeverStuck
    <2>3. CASE CurrentState # "HALF_OPEN"
      <3>1. halfOpenProbeInFlight' => halfOpenProbeInFlight
        BY <1>3, <2>3
      <3>2. \A d \in Calls : inFlight[d] = "HALF_OPEN" => inFlight'[d] = "HALF_OPEN"
        BY <1>2, <1>3 DEF StuckInv
      <3> QED
        BY <1>1, <1>2, <2>1, <3>1, <3>2 DEF StuckInv, NeverStuck
    <2> QED
      BY <2>2, <2>3
  <1>4. CASE UNCHANGED <<halfOpenProbeInFlight, inFlight>>
    BY <1>1, <1>2, <1>4 DEF StuckInv, NeverStuck
  <1> QED
    BY <1>3, <1>4 DEF Execute

LEMMA StuckInvInductive == StuckInv /\ [BreakerNext]_breakerVars => StuckInv'
  <1> SUFFICES ASSUME StuckInv, [BreakerNext]_breakerVars
               PROVE  StuckInv'
    OBVIOUS
  <1>1. CASE ObserveState
    <2>1. /\ state' \in States
          /\ openedAt' \in Nat \cup {Never}
          /\ state' # "CLOSED" => openedAt' # Never
      BY <1>1, CurrentStateSound, TransitionKeepsOpening DEF ObserveState
    <2> QED
      BY <1>1, <2>1 DEF ObserveState, StuckInv, NeverStuck
  <1>2. ASSUME NEW c \in Calls, Execute(c)
        PROVE  StuckInv'
    BY <1>2, ExecuteIsSound
  <1>3. ASSUME NEW c \in Calls, Succeed(c)
        PROVE  StuckInv'
    <2>1. PICK to \in {"CLOSED", state} : TransitionTo(to, Recorded(TRUE))
      BY <1>3 DEF Succeed
    <2>2. to \in States /\ (to = "HALF_OPEN" => state # "CLOSED")
      BY <2>1 DEF StuckInv, States
    <2> QED
      BY <1>3, <2>1, <2>2, EndIsSound DEF Succeed
  <1>4. ASSUME NEW c \in Calls, Fail(c)
        PROVE  StuckInv'
    <2>1. PICK to \in {"OPEN", state} : TransitionTo(to, Recorded(FALSE))
      BY <1>4 DEF Fail
    <2>2. to \in States /\ (to = "HALF_OPEN" => state # "CLOSED")
      BY <2>1 DEF StuckInv, States
    <2> QED
      BY <1>4, <2>1, <2>2, EndIsSound DEF Fail
  <1>5. CASE Tick
    BY <1>5 DEF Tick, breaker, StuckInv, NeverStuck
  <1>6. CASE UNCHANGED breakerVars
    BY <1>6 DEF breakerVars, breaker, StuckInv, NeverStuck
  <1> QED
    BY <1>1, <1>2, <1>3, <1>4, <1>5, <1>6 DEF BreakerNext

\* The circuit is never stuck: when it is not closed it knows when it was
\* opened, and when it holds calls back there is a probe to wait for.
THEOREM BreakerNeverStuck == BreakerSpec => []NeverStuck
  <1>1. BreakerInit => StuckInv
    BY ConfigAssumption DEF BreakerInit, StuckInv, NeverStuck, States
  <1>2. StuckInv => NeverStuck
    BY DEF StuckInv
  <1> QED
    BY <1>1, <1>2, StuckInvInductive, PTL DEF BreakerSpec

-----------------------------------------------------------------------------
(***************************************************************************)
(* The window of outcomes                                                  *)
(***************************************************************************)

\* What defines the recursive function of StillIn.
IsFiltered(kept, window, n, cutoff) ==
  kept = [i \in 0..n |->
            IF i = 0 THEN <<>>
            ELSE IF window[i].timestamp >= cutoff THEN Append(kept[i - 1], window[i])
            ELSE kept[i - 1]]

\* A set of naturals that has a member has a least one.
LEMMA LeastNatural ==
  ASSUME NEW T \in SUBSET Nat, T # {}
  PROVE  \E n \in T : \A m \in T : n <= m
  <1> DEFINE Less == {pair \in Nat \X Nat : pair[1] < pair[2]}
  <1>1. IsWellFoundedOn(Less, Nat)
    BY NatLessThanWellFounded DEF OpToRel
  <1> HIDE DEF Less
  <1>2. PICK n \in T : \A m \in T : <<m, n>> \notin Less
    BY <1>1, WFMin
  <1>3. ASSUME NEW m \in T
        PROVE  n <= m
    <2>1. m \in Nat /\ n \in Nat
      BY <1>2
    <2>2. m < n => <<m, n>> \in Less
      BY <2>1 DEF Less
    <2> QED
      BY <1>2, <2>1, <2>2
  <1> QED
    BY <1>3

\* A recursive function is chosen among those that satisfy its definition: there
\* is one, because a longest stretch without one cannot be.
LEMMA FilterExists ==
  ASSUME NEW window, NEW cutoff, NEW len \in Nat
  PROVE  \E kept : IsFiltered(kept, window, len, cutoff)
  <1> DEFINE Missing == {n \in Nat : ~\E kept : IsFiltered(kept, window, n, cutoff)}
  <1>1. SUFFICES ASSUME Missing # {} PROVE FALSE
    OBVIOUS
  <1>2. PICK n \in Missing : \A m \in Missing : n <= m
    BY <1>1, LeastNatural
  <1>3. n # 0
    <2>1. IsFiltered([i \in 0..0 |-> <<>>], window, 0, cutoff)
      BY DEF IsFiltered
    <2> QED
      BY <2>1
  <1>4. n - 1 \in Nat /\ n - 1 \notin Missing
    BY <1>2, <1>3
  <1>5. PICK kept : IsFiltered(kept, window, n - 1, cutoff)
    BY <1>4
  <1> DEFINE rest == kept[n - 1]
  <1> DEFINE longer == [i \in 0..n |->
               IF i < n THEN kept[i]
               ELSE IF window[i].timestamp >= cutoff THEN Append(rest, window[i]) ELSE rest]
  <1>6. IsFiltered(longer, window, n, cutoff)
    <2>1. ASSUME NEW i \in 0..n
          PROVE  longer[i] = IF i = 0 THEN <<>>
                             ELSE IF window[i].timestamp >= cutoff
                                  THEN Append(longer[i - 1], window[i])
                             ELSE longer[i - 1]
      <3>1. CASE i = n
        <4>1. longer[i - 1] = rest
          BY <1>3, <3>1
        <4> QED
          BY <1>3, <3>1, <4>1
      <3>2. CASE i # n
        <4>1. i \in 0..(n - 1) /\ longer[i] = kept[i]
          BY <3>2
        <4>2. i # 0 => longer[i - 1] = kept[i - 1]
          BY <4>1
        <4> QED
          BY <1>5, <4>1, <4>2 DEF IsFiltered
      <3> QED
        BY <3>1, <3>2
    <2> QED
      BY <2>1 DEF IsFiltered
  <1> QED
    BY <1>2, <1>6

\* StillIn() is the last value of a function that does what its definition says.
LEMMA StillInUnfolds ==
  ASSUME NEW window, NEW cutoff, Len(window) \in Nat
  PROVE  \E kept : IsFiltered(kept, window, Len(window), cutoff)
                   /\ StillIn(window, cutoff) = kept[Len(window)]
  <1> DEFINE kept == CHOOSE g : IsFiltered(g, window, Len(window), cutoff)
  <1>1. IsFiltered(kept, window, Len(window), cutoff)
    BY FilterExists
  <1>2. StillIn(window, cutoff) = kept[Len(window)]
    BY DEF StillIn, IsFiltered
  <1> QED
    BY <1>1, <1>2

LEMMA FilteredTyped ==
  ASSUME NEW S, NEW window \in Seq(S), NEW cutoff,
         NEW kept, IsFiltered(kept, window, Len(window), cutoff)
  PROVE  \A n \in 0..Len(window) : kept[n] \in Seq(S)
  <1> DEFINE Bad == {n \in 0..Len(window) : kept[n] \notin Seq(S)}
  <1>1. SUFFICES ASSUME Bad # {} PROVE FALSE
    OBVIOUS
  <1>2. PICK n \in Bad : \A m \in Bad : n <= m
    <2>1. Bad \in SUBSET Nat
      OBVIOUS
    <2> HIDE DEF Bad
    <2> QED
      BY <1>1, <2>1, LeastNatural
  <1>3. n \in 0..Len(window) /\ kept[n] \notin Seq(S)
    BY <1>2
  <1>4. n # 0
    BY <1>3 DEF IsFiltered
  <1>5. n - 1 \in 0..Len(window) /\ kept[n - 1] \in Seq(S) /\ window[n] \in S
    BY <1>2, <1>3, <1>4
  <1>6. kept[n] = IF window[n].timestamp >= cutoff THEN Append(kept[n - 1], window[n])
                  ELSE kept[n - 1]
    BY <1>3, <1>4 DEF IsFiltered
  <1>7. Append(kept[n - 1], window[n]) \in Seq(S)
    BY <1>5
  <1> QED
    BY <1>3, <1>5, <1>6, <1>7

LEMMA StillInTyped ==
  ASSUME NEW S, NEW window \in Seq(S), NEW cutoff
  PROVE  StillIn(window, cutoff) \in Seq(S)
  <1>1. Len(window) \in 0..Len(window)
    OBVIOUS
  <1> QED
    BY <1>1, StillInUnfolds, FilteredTyped

\* A new outcome is in the window, at its end.
LEMMA StillInKeepsLast ==
  ASSUME NEW S, NEW window \in Seq(S), NEW cutoff, Len(window) > 0,
         window[Len(window)].timestamp >= cutoff
  PROVE  LET result == StillIn(window, cutoff)
         IN result # <<>> /\ result[Len(result)] = window[Len(window)]
  <1>1. PICK kept : /\ IsFiltered(kept, window, Len(window), cutoff)
                    /\ StillIn(window, cutoff) = kept[Len(window)]
    BY StillInUnfolds
  <1> DEFINE n == Len(window)
             rest == kept[n - 1]
  <1>2. n \in 0..n /\ n - 1 \in 0..n /\ n # 0 /\ window[n] \in S
    OBVIOUS
  <1>3. rest \in Seq(S)
    BY <1>1, <1>2, FilteredTyped
  <1>4. kept[n] = Append(rest, window[n])
    <2>1. IsFiltered(kept, window, n, cutoff) /\ window[n].timestamp >= cutoff
      BY <1>1
    <2> HIDE DEF n
    <2> QED
      BY <1>2, <2>1 DEF IsFiltered
  <1> HIDE DEF rest
  <1> QED
    BY <1>1, <1>2, <1>3, <1>4

LEMMA RecordedSound ==
  ASSUME outcomes \in Seq(Outcomes), now \in 0..MaxTime, NEW succeeded \in BOOLEAN
  PROVE  /\ Recorded(succeeded) \in Seq(Outcomes)
         /\ Recorded(succeeded) # <<>>
         /\ LET window == Recorded(succeeded)
            IN window[Len(window)].succeeded = succeeded
  <1> DEFINE new == [timestamp |-> now, succeeded |-> succeeded]
             all == Append(outcomes, new)
             cutoff == now - RollingWindow
  <1>1. new \in Outcomes
    BY DEF Outcomes
  <1>2. new.timestamp >= cutoff
    BY ConfigAssumption
  <1>3. new.succeeded = succeeded
    OBVIOUS
  <1> HIDE DEF new, cutoff
  <1>4. all \in Seq(Outcomes) /\ Len(all) > 0 /\ all[Len(all)] = new
    BY <1>1
  <1>5. Recorded(succeeded) = StillIn(all, cutoff)
    BY DEF Recorded, new, cutoff
  <1> HIDE DEF all
  <1>6. StillIn(all, cutoff) \in Seq(Outcomes)
    BY <1>4, StillInTyped
  <1>7. /\ StillIn(all, cutoff) # <<>>
        /\ LET window == StillIn(all, cutoff)
           IN window[Len(window)] = all[Len(all)]
    BY <1>2, <1>4, StillInKeepsLast
  <1> QED
    BY <1>3, <1>4, <1>5, <1>6, <1>7

-----------------------------------------------------------------------------
(***************************************************************************)
(* Types of the breaker, and the threshold                                 *)
(***************************************************************************)

WindowInv == BreakerTypeOK /\ ClosedIsBelowThreshold

LEMMA WindowInvInitially == BreakerInit => WindowInv
  <1> SUFFICES ASSUME BreakerInit
               PROVE  WindowInv
    OBVIOUS
  <1>1. outcomes \in Seq(Outcomes)
    BY DEF BreakerInit
  <1>2. inFlight \in [Calls -> {"none", "CLOSED", "HALF_OPEN"}]
    BY DEF BreakerInit
  <1>3. BreakerTypeOK
    <2>1. now \in 0..MaxTime /\ executions \in 0..MaxExecutions
      BY ConfigAssumption DEF BreakerInit
    <2> QED
      BY <1>1, <1>2, <2>1 DEF BreakerInit, BreakerTypeOK, States
  <1>4. ClosedIsBelowThreshold
    BY DEF BreakerInit, ClosedIsBelowThreshold
  <1> QED
    BY <1>3, <1>4 DEF WindowInv

\* What a transition makes of the breaker's own fields.
LEMMA TransitionTyped ==
  ASSUME BreakerTypeOK, NEW to \in States, NEW kept \in Seq(Outcomes), TransitionTo(to, kept)
  PROVE  /\ state' = to
         /\ openedAt' \in Nat \cup {Never}
         /\ outcomes' \in Seq(Outcomes)
         /\ outcomes' = kept \/ outcomes' = <<>>
  <1>1. openedAt' \in Nat \cup {Never}
    BY ConfigAssumption DEF TransitionTo, BreakerTypeOK
  <1>2. <<>> \in Seq(Outcomes)
    OBVIOUS
  <1> QED
    BY <1>1, <1>2 DEF TransitionTo

\* getState() closes nothing.
LEMMA CurrentStateTyped ==
  ASSUME BreakerTypeOK
  PROVE  CurrentState \in States /\ (CurrentState = "CLOSED" <=> state = "CLOSED")
  BY DEF BreakerTypeOK, CurrentState, States

LEMMA WindowKept ==
  ASSUME WindowInv, TransitionTo(CurrentState, outcomes)
  PROVE  /\ ClosedIsBelowThreshold'
         /\ state' \in States
         /\ outcomes' \in Seq(Outcomes)
         /\ openedAt' \in Nat \cup {Never}
  <1>1. BreakerTypeOK /\ outcomes \in Seq(Outcomes)
    BY DEF WindowInv, BreakerTypeOK
  <1>2. CurrentState \in States /\ (CurrentState = "CLOSED" <=> state = "CLOSED")
    BY <1>1, CurrentStateTyped
  <1>3. /\ state' = CurrentState
        /\ openedAt' \in Nat \cup {Never}
        /\ outcomes' \in Seq(Outcomes)
    BY <1>1, <1>2, TransitionTyped
  <1>4. outcomes' = outcomes
    BY <1>2 DEF TransitionTo
  <1>5. ClosedIsBelowThreshold'
    BY <1>2, <1>3, <1>4 DEF WindowInv, ClosedIsBelowThreshold, Tripped
  <1> QED
    BY <1>2, <1>3, <1>5

\* A call that ends puts an outcome into the window: a success is the newest one
\* then, and a failure that trips the circuit opens it.
LEMMA EndKeepsWindow ==
  ASSUME WindowInv, NEW c \in Calls, inFlight[c] # "none",
         inFlight' = [inFlight EXCEPT ![c] = "none"],
         halfOpenProbeInFlight' = FALSE,
         UNCHANGED <<now, executions>>,
         NEW to \in States, NEW window \in Seq(Outcomes), TransitionTo(to, window),
         \/ window[Len(window)].succeeded
         \/ to = "OPEN"
         \/ ~Tripped(window)
  PROVE  WindowInv'
  <1>1. BreakerTypeOK
    BY DEF WindowInv
  <1>2. /\ state' = to
        /\ openedAt' \in Nat \cup {Never}
        /\ outcomes' \in Seq(Outcomes)
        /\ outcomes' = window \/ outcomes' = <<>>
    BY <1>1, TransitionTyped
  <1>3. ClosedIsBelowThreshold'
    <2>1. CASE outcomes' = <<>>
      BY <2>1 DEF ClosedIsBelowThreshold
    <2>2. CASE outcomes' = window
      BY <1>2, <2>2 DEF ClosedIsBelowThreshold, Tripped
    <2> QED
      BY <1>2, <2>1, <2>2
  <1>4. inFlight' \in [Calls -> {"none", "CLOSED", "HALF_OPEN"}]
    BY <1>1 DEF BreakerTypeOK
  <1> QED
    BY <1>1, <1>2, <1>3, <1>4 DEF WindowInv, BreakerTypeOK

LEMMA WindowInvInductive == WindowInv /\ [BreakerNext]_breakerVars => WindowInv'
  <1> SUFFICES ASSUME WindowInv, [BreakerNext]_breakerVars
               PROVE  WindowInv'
    OBVIOUS
  <1>0. BreakerTypeOK
    BY DEF WindowInv
  <1>1. CASE ObserveState
    <2>1. TransitionTo(CurrentState, outcomes)
      BY <1>1 DEF ObserveState
    <2> QED
      BY <1>0, <1>1, <2>1, WindowKept DEF ObserveState, WindowInv, BreakerTypeOK
  <1>2. ASSUME NEW c \in Calls, Execute(c)
        PROVE  WindowInv'
    <2>1. TransitionTo(CurrentState, outcomes) /\ now' = now
      BY <1>2 DEF Execute
    <2>2. /\ inFlight' \in [Calls -> {"none", "CLOSED", "HALF_OPEN"}]
          /\ halfOpenProbeInFlight' \in BOOLEAN
      BY <1>0, <1>2 DEF Execute, BreakerTypeOK
    <2>3. executions' \in 0..MaxExecutions
      BY <1>0, <1>2, ConfigAssumption DEF Execute, BreakerTypeOK
    <2> QED
      BY <1>0, <2>1, <2>2, <2>3, WindowKept DEF WindowInv, BreakerTypeOK
  <1>3. ASSUME NEW c \in Calls, Succeed(c)
        PROVE  WindowInv'
    <2> DEFINE window == Recorded(TRUE)
    <2>1. window \in Seq(Outcomes) /\ window[Len(window)].succeeded
      BY <1>0, RecordedSound DEF BreakerTypeOK
    <2>2. PICK to \in {"CLOSED", state} : TransitionTo(to, window)
      BY <1>3 DEF Succeed
    <2>3. to \in States
      BY <1>0, <2>2 DEF BreakerTypeOK, States
    <2> HIDE DEF window
    <2> QED
      BY <1>3, <2>1, <2>2, <2>3, EndKeepsWindow DEF Succeed
  <1>4. ASSUME NEW c \in Calls, Fail(c)
        PROVE  WindowInv'
    <2> DEFINE window == Recorded(FALSE)
    <2> HIDE DEF window
    <2>1. window \in Seq(Outcomes)
      BY <1>0, RecordedSound DEF BreakerTypeOK, window
    <2>2. "OPEN" \in States /\ state \in States
      BY <1>0 DEF BreakerTypeOK, States
    <2>3. PICK to \in States : /\ TransitionTo(to, window)
                               /\ to = "OPEN" \/ ~Tripped(window)
      BY <1>4, <2>2 DEF Fail, window
    <2> QED
      BY <1>4, <2>1, <2>3, EndKeepsWindow DEF Fail
  <1>5. CASE Tick
    <2>1. now' \in 0..MaxTime
      BY <1>0, <1>5, ConfigAssumption DEF Tick, BreakerTypeOK
    <2> QED
      BY <1>0, <1>5, <2>1
      DEF Tick, breaker, WindowInv, BreakerTypeOK, ClosedIsBelowThreshold, Tripped
  <1>6. CASE UNCHANGED breakerVars
    BY <1>0, <1>6
    DEF breakerVars, breaker, WindowInv, BreakerTypeOK, ClosedIsBelowThreshold, Tripped
  <1> QED
    BY <1>1, <1>2, <1>3, <1>4, <1>5, <1>6 DEF BreakerNext

LEMMA BreakerKeepsWindow == BreakerSpec => []WindowInv
  BY WindowInvInitially, WindowInvInductive, PTL DEF BreakerSpec

\* No interleaving of late answers leaves a closed circuit whose newest outcome is
\* a failure and whose window is at the threshold: what ends in a failure while
\* the circuit is closed has evaluated the very window that it leaves.
THEOREM ClosedStaysBelowThreshold == BreakerSpec => []ClosedIsBelowThreshold
  <1>1. WindowInv => ClosedIsBelowThreshold
    BY DEF WindowInv
  <1> QED
    BY <1>1, BreakerKeepsWindow, PTL

-----------------------------------------------------------------------------
(***************************************************************************)
(* The breaker under the adapters                                          *)
(***************************************************************************)

AllOperations == {"initiateVerification", "checkStatus", "fetchResult", "uploadBatch",
                  "screenBatch", "registerOngoingMonitoring"}

LEMMA OperationsAreKnown ==
  ASSUME vendor \in Vendors
  PROVE  Operations \subseteq AllOperations
  <1>1. vendor \in {"DIGILOCKER", "CKYC", "VIDEO_KYC", "AML_SCREENING"}
    BY DEF Vendors, Policies
  <1>2. CASE vendor = "DIGILOCKER"
    BY <1>2 DEF Operations, Policies, DigilockerCalls, AllOperations
  <1>3. CASE vendor = "CKYC"
    BY <1>3 DEF Operations, Policies, CkycCalls, AllOperations
  <1>4. CASE vendor = "VIDEO_KYC"
    BY <1>4 DEF Operations, Policies, VideoKycCalls, AllOperations
  <1>5. CASE vendor = "AML_SCREENING"
    BY <1>5 DEF Operations, Policies, AmlCalls, AllOperations
  <1> QED
    BY <1>1, <1>2, <1>3, <1>4, <1>5

\* Every step of an adapter is one of its breaker, or leaves the breaker alone.
LEMMA StepIsBreakerStep ==
  ASSUME [VendorNext]_vendorVars
  PROVE  [BreakerNext]_breakerVars
  <1>1. CASE StoreOperation
    BY <1>1 DEF StoreOperation
  <1>2. ASSUME NEW c \in Calls, NEW op \in Operations, Begin(c, op)
        PROVE  BreakerNext
    BY <1>2 DEF Begin, BreakerNext
  <1>3. ASSUME NEW c \in Calls, SearchAnswered(c)
        PROVE  UNCHANGED breakerVars
    BY <1>3 DEF SearchAnswered
  <1>4. ASSUME NEW c \in Calls, RequestSucceeds(c)
        PROVE  BreakerNext
    BY <1>4 DEF RequestSucceeds, BreakerNext
  <1>5. ASSUME NEW c \in Calls, RequestFails(c)
        PROVE  [BreakerNext]_breakerVars
    <2>1. PICK code, created, unsettled : AttemptFails(c, code, created, unsettled)
      BY <1>5 DEF RequestFails
    <2> QED
      BY <2>1 DEF AttemptFails, BreakerNext
  <1>6. ASSUME NEW c \in Calls, UploadTakesEffectLate(c) \/ Wake(c)
        PROVE  UNCHANGED breakerVars
    BY <1>6 DEF UploadTakesEffectLate, Wake
  <1>7. CASE GetHealthStatus
    BY <1>7 DEF GetHealthStatus, BreakerNext
  <1>8. CASE PassTime
    BY <1>8 DEF PassTime, BreakerNext
  <1>9. CASE UNCHANGED vendorVars
    BY <1>9 DEF vendorVars
  <1> QED
    BY <1>1, <1>2, <1>3, <1>4, <1>5, <1>6, <1>7, <1>8, <1>9 DEF VendorNext

\* The adapters use their breaker as it is meant to be used: what calls with
\* retries do to it is what its own specification allows.
THEOREM AdaptersKeepToTheBreaker == VendorSpec => BreakerSpec
  <1>1. VendorInit => BreakerInit
    BY DEF VendorInit
  <1>2. [VendorNext]_vendorVars => [BreakerNext]_breakerVars
    BY StepIsBreakerStep
  <1> QED
    BY <1>1, <1>2, PTL DEF VendorSpec, BreakerSpec

\* A breaker shared by calls that retry is never stuck, as none is: it knows when
\* it was opened, and whom it holds calls back for.
THEOREM RetriesNeverStickTheBreaker == VendorSpec => []NeverStuck
  BY AdaptersKeepToTheBreaker, BreakerNeverStuck, PTL

-----------------------------------------------------------------------------
(***************************************************************************)
(* One record per call                                                     *)
(***************************************************************************)

Places == AllOperations \cup {"none", "search", "download", "upload", "sleep"}

CallRecords == [op : AllOperations \cup {"none"}, at : Places, attempt : Nat,
                created : Nat, unsettled : Nat]

\* An upload belongs to a fetchResult() of CKYC. Once one has been carried out, the
\* registry has the record, and the call is not at another upload.
UploadSound(c) ==
  /\ call[c].at \in {"search", "download", "upload"} => FirstRequest(call[c].op) = "search"
  /\ call[c].created > 0 /\ ~delayed =>
       /\ call[c].created = 1
       /\ recorded
       /\ FirstRequest(call[c].op) = "search"
       /\ call[c].at # "upload"

UploadInv ==
  /\ vendor \in Vendors
  /\ call \in [Calls -> CallRecords]
  /\ recorded \in BOOLEAN /\ delayed \in BOOLEAN
  /\ \A c \in Calls : UploadSound(c)

LEMMA FirstRequestIsPlace ==
  ASSUME NEW op \in AllOperations \cup {"none"}
  PROVE  /\ FirstRequest(op) \in Places
         /\ FirstRequest(op) \in {"search", "download", "upload"} => FirstRequest(op) = "search"
         /\ FirstRequest(op) # "upload"
  BY DEF FirstRequest, Places, AllOperations

LEMMA NoCallSound == NoCall \in CallRecords
  BY DEF NoCall, CallRecords, Places, AllOperations

\* The calls of others are sound whatever becomes of c, as the registry forgets
\* nothing.
LEMMA OthersStaySound ==
  ASSUME UploadInv, NEW c \in Calls, NEW new \in CallRecords,
         call' = [call EXCEPT ![c] = new],
         UNCHANGED vendor, recorded' \in BOOLEAN, recorded => recorded',
         delayed' \in BOOLEAN, delayed => delayed',
         UploadSound(c)'
  PROVE  UploadInv'
  <1>1. call' \in [Calls -> CallRecords]
    BY DEF UploadInv
  <1>2. ASSUME NEW d \in Calls, d # c
        PROVE  UploadSound(d)'
    <2>1. call'[d] = call[d]
      BY <1>2 DEF UploadInv
    <2> QED
      BY <1>2, <2>1 DEF UploadInv, UploadSound, FirstRequest
  <1> QED
    BY <1>1, <1>2 DEF UploadInv

LEMMA UploadInvInitially == VendorInit => UploadInv
  <1> SUFFICES ASSUME VendorInit
               PROVE  UploadInv
    OBVIOUS
  <1>1. ASSUME NEW c \in Calls
        PROVE  UploadSound(c)
    BY DEF VendorInit, UploadSound, NoCall
  <1> QED
    BY <1>1, NoCallSound DEF VendorInit, UploadInv

\* The end of a call forgets it.
LEMMA EndKeepsUploads ==
  ASSUME UploadInv, NEW c \in Calls, End(c), UNCHANGED <<vendor, delayed>>,
         recorded' \in BOOLEAN, recorded => recorded'
  PROVE  UploadInv'
  <1>1. call' = [call EXCEPT ![c] = NoCall] /\ call'[c] = NoCall
    BY DEF End, UploadInv
  <1>2. UploadSound(c)'
    BY <1>1 DEF UploadSound, NoCall
  <1> QED
    BY <1>1, <1>2, NoCallSound, OthersStaySound DEF UploadInv

\* A failed attempt has created at most the record of the upload it was at.
LEMMA FailureKeepsUploads ==
  ASSUME UploadInv, NEW c \in Calls, NEW code, NEW created \in {0, 1}, NEW unsettled \in {0, 1},
         AttemptFails(c, code, created, unsettled), UNCHANGED <<vendor, delayed>>,
         recorded' \in BOOLEAN, recorded => recorded',
         created = 1 => call[c].at = "upload" /\ recorded'
  PROVE  UploadInv'
  <1>1. CASE End(c)
    BY <1>1, EndKeepsUploads
  <1>2. CASE call' = [call EXCEPT ![c].at = "sleep", ![c].attempt = @ + 1,
                                  ![c].created = @ + created, ![c].unsettled = @ + unsettled]
    <2> DEFINE new == [op |-> call[c].op, at |-> "sleep", attempt |-> call[c].attempt + 1,
                       created |-> call[c].created + created,
                       unsettled |-> call[c].unsettled + unsettled]
    <2>1. call[c] \in CallRecords
      BY DEF UploadInv
    <2>2. new \in CallRecords
      BY <2>1 DEF CallRecords, Places
    <2>3. call' = [call EXCEPT ![c] = new]
      BY <1>2, <2>1 DEF UploadInv, CallRecords
    <2>4. call'[c] = new
      BY <2>3 DEF UploadInv
    <2>5. UploadSound(c)'
      <3>1. UploadSound(c)
        BY DEF UploadInv
      <3>2. call[c].created \in Nat
        BY <2>1 DEF CallRecords
      <3> QED
        BY <2>4, <3>1, <3>2 DEF UploadSound, FirstRequest
    <2> QED
      BY <2>2, <2>3, <2>5, OthersStaySound DEF UploadInv
  <1> QED
    BY <1>1, <1>2 DEF AttemptFails

LEMMA UploadInvInductive == UploadInv /\ [VendorNext]_vendorVars => UploadInv'
  <1> SUFFICES ASSUME UploadInv, [VendorNext]_vendorVars
               PROVE  UploadInv'
    OBVIOUS
  <1>1. CASE UNCHANGED <<vendor, call, recorded, delayed>>
    BY <1>1 DEF UploadInv, UploadSound, FirstRequest
  <1>2. ASSUME NEW c \in Calls, NEW op \in Operations, Begin(c, op)
        PROVE  UploadInv'
    <2>1. op \in AllOperations
      BY OperationsAreKnown DEF UploadInv
    <2> DEFINE new == [op |-> op, at |-> FirstRequest(op), attempt |-> 0, created |-> 0,
                       unsettled |-> 0]
    <2>2. UNCHANGED <<vendor, recorded, delayed>>
      BY <1>2 DEF Begin
    <2>3. CASE UNCHANGED call
      BY <1>1, <2>2, <2>3
    <2>4. CASE call' = [call EXCEPT ![c] = new]
      <3>1. new \in CallRecords
        BY <2>1, FirstRequestIsPlace DEF CallRecords
      <3>2. call'[c] = new
        BY <2>4 DEF UploadInv
      <3>3. UploadSound(c)'
        <4>1. FirstRequest(op)' = FirstRequest(op)
          BY <2>2 DEF FirstRequest
        <4> QED
          BY <2>1, <3>2, <4>1, FirstRequestIsPlace DEF UploadSound
      <3> QED
        BY <2>2, <2>4, <3>1, <3>3, OthersStaySound DEF UploadInv
    <2> QED
      BY <1>2, <2>3, <2>4 DEF Begin
  <1>3. ASSUME NEW c \in Calls, NEW place \in Places,
               call' = [call EXCEPT ![c].at = place],
               UNCHANGED <<vendor, recorded, delayed>>,
               place \in {"search", "download", "upload"} => FirstRequest(call[c].op) = "search",
               place = "upload" => ~recorded
        PROVE  UploadInv'
    <2> DEFINE new == [op |-> call[c].op, at |-> place, attempt |-> call[c].attempt,
                       created |-> call[c].created, unsettled |-> call[c].unsettled]
    <2>1. call[c] \in CallRecords
      BY DEF UploadInv
    <2>2. new \in CallRecords
      BY <2>1 DEF CallRecords
    <2>3. call' = [call EXCEPT ![c] = new]
      <3>1. call' = [call EXCEPT ![c] = [call[c] EXCEPT !.at = place]]
        BY <1>3
      <3>2. [call[c] EXCEPT !.at = place] = new
        BY <2>1 DEF CallRecords
      <3> QED
        BY <3>1, <3>2
    <2>4. call'[c] = new
      BY <2>3 DEF UploadInv
    <2>5. UNCHANGED <<vendor, recorded, delayed>>
      BY <1>3
    <2>6. UploadSound(c)'
      <3>1. UploadSound(c)
        BY DEF UploadInv
      <3>2. \A op : FirstRequest(op)' = FirstRequest(op)
        BY <2>5 DEF FirstRequest
      <3> HIDE DEF new
      <3>3. new.at = place /\ new.created = call[c].created /\ new.op = call[c].op
        BY DEF new
      <3>4. /\ place \in {"search", "download", "upload"} => FirstRequest(call[c].op) = "search"
            /\ place = "upload" => ~recorded
        BY <1>3
      <3> QED
        BY <2>4, <2>5, <3>1, <3>2, <3>3, <3>4 DEF UploadSound
    <2> HIDE DEF new
    <2> QED
      BY <2>2, <2>3, <2>5, <2>6, OthersStaySound DEF UploadInv
  <1>4. ASSUME NEW c \in Calls, SearchAnswered(c)
        PROVE  UploadInv'
    <2>1. FirstRequest(call[c].op) = "search"
      BY <1>4 DEF SearchAnswered, UploadInv, UploadSound
    <2>2. PICK place \in {"download", "upload"} :
            call' = [call EXCEPT ![c].at = place] /\ (place = "upload" => ~recorded)
      BY <1>4 DEF SearchAnswered
    <2>3. place \in Places
      BY DEF Places
    <2> QED
      BY <1>3, <1>4, <2>1, <2>2, <2>3 DEF SearchAnswered
  <1>5. ASSUME NEW c \in Calls, RequestSucceeds(c)
        PROVE  UploadInv'
    BY <1>5, EndKeepsUploads DEF RequestSucceeds, Effect, UploadInv
  <1>6. ASSUME NEW c \in Calls, RequestFails(c)
        PROVE  UploadInv'
    <2>1. UNCHANGED <<vendor, delayed>>
      BY <1>6 DEF RequestFails
    <2>2. PICK code \in Codes :
            \/ AttemptFails(c, code, 0, 0) /\ UNCHANGED recorded
            \/ /\ call[c].at \in {"upload", "uploadBatch"}
               /\ Effect(c)
               /\ AttemptFails(c, code, IF call[c].at = "upload" THEN 1 ELSE 0, 0)
            \/ /\ call[c].at = "upload"
               /\ AttemptFails(c, code, 0, 1)
               /\ UNCHANGED recorded
      BY <1>6 DEF RequestFails
    <2>3. CASE \E unsettled \in {0, 1} : AttemptFails(c, code, 0, unsettled) /\ UNCHANGED recorded
      BY <2>1, <2>3, FailureKeepsUploads DEF UploadInv
    <2>4. CASE /\ call[c].at \in {"upload", "uploadBatch"}
               /\ Effect(c)
               /\ AttemptFails(c, code, IF call[c].at = "upload" THEN 1 ELSE 0, 0)
      <3>1. CASE call[c].at = "upload"
        <4>1. recorded' = TRUE /\ AttemptFails(c, code, 1, 0)
          BY <2>4, <3>1 DEF Effect
        <4> QED
          BY <2>1, <3>1, <4>1, FailureKeepsUploads
      <3>2. CASE call[c].at # "upload"
        <4>1. recorded' = TRUE \/ recorded' = recorded
          BY <2>4, <3>2 DEF Effect
        <4>2. recorded' \in BOOLEAN /\ (recorded => recorded')
          BY <4>1 DEF UploadInv
        <4>3. AttemptFails(c, code, 0, 0)
          BY <2>4, <3>2
        <4> QED
          BY <2>1, <4>2, <4>3, FailureKeepsUploads
      <3> QED
        BY <3>1, <3>2
    <2> QED
      BY <2>2, <2>3, <2>4
  <1>7. ASSUME NEW c \in Calls, UploadTakesEffectLate(c)
        PROVE  UploadInv'
    <2> DEFINE new == [op |-> call[c].op, at |-> call[c].at, attempt |-> call[c].attempt,
                       created |-> call[c].created + 1, unsettled |-> call[c].unsettled - 1]
    <2>1. call[c] \in CallRecords /\ call[c].unsettled > 0
      BY <1>7 DEF UploadInv, UploadTakesEffectLate
    <2>2. new \in CallRecords
      BY <2>1 DEF CallRecords
    <2>3. call' = [call EXCEPT ![c] = new]
      BY <1>7, <2>1 DEF UploadTakesEffectLate, UploadInv, CallRecords
    <2>4. call'[c] = new
      BY <2>3 DEF UploadInv
    <2>5. delayed' = TRUE /\ recorded' = TRUE /\ vendor' = vendor
      BY <1>7 DEF UploadTakesEffectLate
    <2>6. UploadSound(c)'
      BY <2>4, <2>5 DEF UploadInv, UploadSound, FirstRequest
    <2> HIDE DEF new
    <2> QED
      BY <2>2, <2>3, <2>5, <2>6, OthersStaySound DEF UploadInv
  <1>8. ASSUME NEW c \in Calls, Wake(c)
        PROVE  UploadInv'
    <2> DEFINE place == FirstRequest(call[c].op)
    <2>1. call[c].op \in AllOperations \cup {"none"}
      BY DEF UploadInv, CallRecords
    <2>2. /\ place \in Places /\ place # "upload"
          /\ place \in {"search", "download", "upload"} => place = "search"
      BY <2>1, FirstRequestIsPlace
    <2>3. call' = [call EXCEPT ![c].at = place] /\ UNCHANGED <<vendor, recorded, delayed>>
      BY <1>8 DEF Wake
    <2> HIDE DEF place
    <2> QED
      BY <1>3, <2>2, <2>3 DEF place
  <1> QED
    BY <1>1, <1>2, <1>4, <1>5, <1>6, <1>7, <1>8
    DEF VendorNext, StoreOperation, GetHealthStatus, PassTime, adapterVars, vendorVars

\* A fetchResult() uploads a customer's data at most once with success, whatever
\* the number of its retries and of the answers that are lost, as long as no
\* upload takes effect after its answer was given up.
THEOREM UploadsAtMostOnce == VendorSpec => []OneRecordPerCall
  <1>1. UploadInv => OneRecordPerCall
    <2> SUFFICES ASSUME UploadInv, ~delayed, NEW c \in Calls
                 PROVE  call[c].created <= 1
      BY DEF OneRecordPerCall
    <2>1. call[c].created \in Nat /\ UploadSound(c)
      BY DEF UploadInv, CallRecords
    <2> QED
      BY <2>1 DEF UploadSound
  <1> QED
    BY <1>1, UploadInvInitially, UploadInvInductive, PTL DEF VendorSpec

-----------------------------------------------------------------------------
(***************************************************************************)
(* Types of the calls                                                      *)
(***************************************************************************)

\* A closed circuit stays below the threshold under calls that retry, too.
THEOREM RetriesKeepClosedBelowThreshold == VendorSpec => []ClosedIsBelowThreshold
  BY AdaptersKeepToTheBreaker, ClosedStaysBelowThreshold, PTL

\* VendorTypeOK, with what it rests on.
CallsInv == WindowInv /\ UploadInv /\ VendorTypeOK

LEMMA RetriesBounded ==
  ASSUME vendor \in Vendors
  PROVE  /\ Operations # {}
         /\ \A op \in Operations : MaxRetries(op) \in Nat /\ MaxRetries(op) <= 3
  <1>1. vendor \in {"DIGILOCKER", "CKYC", "VIDEO_KYC", "AML_SCREENING"}
    BY DEF Vendors, Policies
  <1>2. CASE vendor = "DIGILOCKER"
    BY <1>2, LimitAssumption DEF Operations, Policies, DigilockerCalls, MaxRetries, RetriesOf, Smaller
  <1>3. CASE vendor = "CKYC"
    BY <1>3, LimitAssumption DEF Operations, Policies, CkycCalls, MaxRetries, RetriesOf, Smaller
  <1>4. CASE vendor = "VIDEO_KYC"
    BY <1>4, LimitAssumption DEF Operations, Policies, VideoKycCalls, MaxRetries, RetriesOf, Smaller
  <1>5. CASE vendor = "AML_SCREENING"
    BY <1>5, LimitAssumption DEF Operations, Policies, AmlCalls, MaxRetries, RetriesOf, Smaller
  <1> QED
    BY <1>1, <1>2, <1>3, <1>4, <1>5

CallMatches(c) == CallTypeOK(c) /\ (call[c] = NoCall) = (inFlight[c] = "none")

\* A step leaves the types alone if it does so for the only call that it changes.
LEMMA OthersStayTyped ==
  ASSUME CallsInv, NEW c \in Calls,
         WindowInv', UploadInv', UNCHANGED vendor,
         \A d \in Calls \ {c} : call'[d] = call[d] /\ inFlight'[d] = inFlight[d],
         CallMatches(c)',
         holdsReference' \in BOOLEAN, late' \in Nat
  PROVE  CallsInv'
  <1>1. ASSUME NEW d \in Calls, d # c
        PROVE  CallMatches(d)'
    <2>1. CallMatches(d)
      BY DEF CallsInv, VendorTypeOK, CallMatches
    <2>2. call'[d] = call[d] /\ inFlight'[d] = inFlight[d]
      BY <1>1
    <2> QED
      BY <2>1, <2>2
      DEF CallMatches, CallTypeOK, Operations, MaxRetries, FirstRequest, NoCall
  <1>2. \A d \in Calls : CallMatches(d)'
    BY <1>1
  <1>3. BreakerTypeOK' /\ vendor' \in Vendors /\ recorded' \in BOOLEAN /\ delayed' \in BOOLEAN
    BY DEF WindowInv, UploadInv
  <1> QED
    BY <1>2, <1>3 DEF CallsInv, VendorTypeOK, CallMatches

LEMMA LateTyped ==
  ASSUME CallsInv, NEW n \in Nat, LateAfter(n)
  PROVE  late' \in Nat
  BY DEF CallsInv, VendorTypeOK, LateAfter

\* A call that ends is neither in an operation nor in the breaker.
LEMMA EndKeepsTypes ==
  ASSUME CallsInv, NEW c \in Calls, WindowInv', UploadInv', UNCHANGED vendor,
         End(c), inFlight' = [inFlight EXCEPT ![c] = "none"],
         holdsReference' \in BOOLEAN, late' \in Nat
  PROVE  CallsInv'
  <1>1. /\ call \in [Calls -> CallRecords]
        /\ inFlight \in [Calls -> {"none", "CLOSED", "HALF_OPEN"}]
    BY DEF CallsInv, UploadInv, VendorTypeOK, BreakerTypeOK
  <1>2. /\ call'[c] = NoCall /\ inFlight'[c] = "none"
        /\ \A d \in Calls \ {c} : call'[d] = call[d] /\ inFlight'[d] = inFlight[d]
    BY <1>1 DEF End
  <1>3. CallMatches(c)'
    BY <1>2 DEF CallMatches, CallTypeOK, NoCall
  <1> QED
    BY <1>2, <1>3, OthersStayTyped

\* A call that goes on is at a place of its operation, with attempts left.
LEMMA CallStaysTyped ==
  ASSUME CallsInv, NEW c \in Calls, WindowInv', UploadInv', UNCHANGED <<vendor, inFlight>>,
         call[c] # NoCall,
         NEW place, NEW attempt \in 0..MaxRetries(call[c].op),
         NEW created \in Nat, NEW unsettled \in Nat,
         call' = [call EXCEPT ![c] = [op |-> call[c].op, at |-> place, attempt |-> attempt,
                                      created |-> created, unsettled |-> unsettled]],
         place \in {FirstRequest(call[c].op), "sleep"} \cup
           IF FirstRequest(call[c].op) = "search" THEN {"download", "upload"} ELSE {},
         place = "sleep" => attempt > 0,
         holdsReference' \in BOOLEAN, late' \in Nat
  PROVE  CallsInv'
  <1> DEFINE new == [op |-> call[c].op, at |-> place, attempt |-> attempt,
                     created |-> created, unsettled |-> unsettled]
  <1>1. /\ call \in [Calls -> CallRecords]
        /\ vendor \in Vendors
        /\ CallMatches(c)
    BY DEF CallsInv, UploadInv, VendorTypeOK, CallMatches
  <1>2. /\ call'[c] = new
        /\ \A d \in Calls \ {c} : call'[d] = call[d]
    BY <1>1
  <1>3. call[c].op \in Operations /\ inFlight[c] # "none"
    BY <1>1 DEF CallMatches, CallTypeOK
  <1>4. new # NoCall
    BY <1>1, <1>3, OperationsAreKnown DEF NoCall, AllOperations
  <1>5. CallTypeOK(c)'
    <2>1. /\ \A op : FirstRequest(op)' = FirstRequest(op)
          /\ \A op : MaxRetries(op)' = MaxRetries(op)
          /\ Operations' = Operations
      BY DEF FirstRequest, MaxRetries, Operations
    <2>2. /\ new.op = call[c].op /\ new.at = place /\ new.attempt = attempt
          /\ new.created = created /\ new.unsettled = unsettled
      OBVIOUS
    <2> HIDE DEF new
    <2> QED
      BY <1>2, <1>3, <2>1, <2>2 DEF CallTypeOK
  <1>6. CallMatches(c)'
    BY <1>2, <1>3, <1>4, <1>5 DEF CallMatches, NoCall
  <1> QED
    BY <1>2, <1>6, OthersStayTyped

LEMMA AttemptFailsKeepsTypes ==
  ASSUME CallsInv, NEW c \in Calls, WindowInv', UploadInv',
         UNCHANGED <<vendor, holdsReference>>, Asking(c),
         NEW code, NEW created \in Nat, NEW unsettled \in Nat,
         AttemptFails(c, code, created, unsettled)
  PROVE  CallsInv'
  <1>1. /\ call \in [Calls -> CallRecords]
        /\ call[c] \in CallRecords
        /\ CallMatches(c)
        /\ holdsReference \in BOOLEAN /\ late \in Nat
        /\ vendor \in Vendors
    BY DEF CallsInv, UploadInv, VendorTypeOK, CallMatches
  <1>2. CASE Fail(c) /\ End(c) /\ LateAfter(0)
    BY <1>1, <1>2, LateTyped, EndKeepsTypes DEF Fail
  <1>3. CASE /\ call[c].attempt < MaxRetries(call[c].op)
             /\ call' = [call EXCEPT ![c].at = "sleep", ![c].attempt = @ + 1,
                                     ![c].created = @ + created, ![c].unsettled = @ + unsettled]
             /\ UNCHANGED <<breakerVars, late>>
    <2>1. call[c] # NoCall
      BY DEF Asking, NoCall
    <2>2. call[c].op \in Operations
      BY <1>1, <2>1 DEF CallMatches, CallTypeOK
    <2>3. MaxRetries(call[c].op) \in Nat
      BY <1>1, <2>2, RetriesBounded
    <2>4. /\ call[c].attempt + 1 \in 0..MaxRetries(call[c].op) /\ call[c].attempt + 1 > 0
          /\ call[c].created + created \in Nat /\ call[c].unsettled + unsettled \in Nat
      BY <1>1, <1>3, <2>3 DEF CallRecords
    <2>5. call' = [call EXCEPT ![c] =
                     [op |-> call[c].op, at |-> "sleep", attempt |-> call[c].attempt + 1,
                      created |-> call[c].created + created,
                      unsettled |-> call[c].unsettled + unsettled]]
      BY <1>1, <1>3 DEF CallRecords
    <2>6. inFlight' = inFlight /\ holdsReference' \in BOOLEAN /\ late' \in Nat
      BY <1>1, <1>3 DEF breakerVars
    <2> QED
      BY <2>1, <2>4, <2>5, <2>6, CallStaysTyped
  <1> QED
    BY <1>2, <1>3 DEF AttemptFails

LEMMA CallsInvInitially == VendorInit => CallsInv
  <1> SUFFICES ASSUME VendorInit
               PROVE  CallsInv
    OBVIOUS
  <1>1. WindowInv /\ UploadInv
    BY WindowInvInitially, UploadInvInitially DEF VendorInit
  <1>2. ASSUME NEW c \in Calls
        PROVE  CallTypeOK(c) /\ (call[c] = NoCall) = (inFlight[c] = "none")
    BY DEF VendorInit, BreakerInit, CallTypeOK, NoCall
  <1> QED
    BY <1>1, <1>2 DEF CallsInv, VendorTypeOK, VendorInit, WindowInv, UploadInv

LEMMA CallsInvInductive == CallsInv /\ [VendorNext]_vendorVars => CallsInv'
  <1> SUFFICES ASSUME CallsInv, [VendorNext]_vendorVars
               PROVE  CallsInv'
    OBVIOUS
  <1>1. WindowInv' /\ UploadInv'
    BY StepIsBreakerStep, WindowInvInductive, UploadInvInductive DEF CallsInv
  <1>2. /\ call \in [Calls -> CallRecords]
        /\ inFlight \in [Calls -> {"none", "CLOSED", "HALF_OPEN"}]
        /\ holdsReference \in BOOLEAN /\ late \in Nat
        /\ vendor \in Vendors
        /\ \A c \in Calls : CallMatches(c) /\ UploadSound(c)
    BY DEF CallsInv, UploadInv, VendorTypeOK, BreakerTypeOK, CallMatches
  <1>3. ASSUME UNCHANGED <<vendor, call, inFlight>>, holdsReference' \in BOOLEAN, late' \in Nat
        PROVE  CallsInv'
    <2>1. ASSUME NEW c \in Calls
          PROVE  CallMatches(c)'
      <3>1. CallMatches(c)
        BY <1>2
      <3> QED
        BY <1>3, <3>1 DEF CallMatches, CallTypeOK, Operations, MaxRetries, FirstRequest, NoCall
    <2>2. BreakerTypeOK' /\ vendor' \in Vendors /\ recorded' \in BOOLEAN /\ delayed' \in BOOLEAN
      BY <1>1 DEF WindowInv, UploadInv
    <2> QED
      BY <1>1, <1>3, <2>1, <2>2 DEF CallsInv, VendorTypeOK, CallMatches
  <1>4. CASE StoreOperation \/ GetHealthStatus \/ PassTime \/ UNCHANGED vendorVars
    <2>1. UNCHANGED <<vendor, call, inFlight>> /\ holdsReference' \in BOOLEAN
      BY <1>2, <1>4 DEF StoreOperation, GetHealthStatus, ObserveState, PassTime, Tick,
                        adapterVars, breakerVars, vendorVars
    <2>2. late' \in Nat
      BY <1>2, <1>4, LateTyped DEF StoreOperation, GetHealthStatus, PassTime, adapterVars, vendorVars
    <2> QED
      BY <1>3, <2>1, <2>2
  <1>5. ASSUME NEW c \in Calls, NEW op \in Operations, Begin(c, op)
        PROVE  CallsInv'
    <2> DEFINE new == [op |-> op, at |-> FirstRequest(op), attempt |-> 0, created |-> 0,
                       unsettled |-> 0]
    <2>1. vendor' = vendor /\ holdsReference' \in BOOLEAN /\ late' \in Nat
      BY <1>2, <1>5, LateTyped DEF Begin
    <2>2. inFlight[c] = "none"
      BY <1>5 DEF Begin, Execute
    <2>3. CASE UNCHANGED inFlight
      BY <1>3, <1>5, <2>1, <2>2, <2>3 DEF Begin
    <2>4. CASE /\ inFlight' = [inFlight EXCEPT ![c] = CurrentState]
               /\ CurrentState \in {"CLOSED", "HALF_OPEN"}
      <3>1. inFlight'[c] # "none" /\ \A d \in Calls \ {c} : inFlight'[d] = inFlight[d]
        BY <1>2, <2>4
      <3>2. call' = [call EXCEPT ![c] = new]
        BY <1>5, <3>1 DEF Begin
      <3>3. call'[c] = new /\ \A d \in Calls \ {c} : call'[d] = call[d]
        BY <1>2, <3>2
      <3>4. op \in AllOperations /\ MaxRetries(op) \in Nat
        BY <1>2, OperationsAreKnown, RetriesBounded
      <3>5. FirstRequest(op) # "sleep" /\ new # NoCall
        BY <3>4 DEF FirstRequest, AllOperations, NoCall
      <3>6. CallTypeOK(c)'
        <4>1. /\ FirstRequest(op)' = FirstRequest(op)
              /\ MaxRetries(op)' = MaxRetries(op)
              /\ Operations' = Operations
          BY <2>1 DEF FirstRequest, MaxRetries, Operations
        <4>2. 0 \in 0..MaxRetries(op)
          BY <3>4
        <4> QED
          BY <3>3, <3>5, <4>1, <4>2 DEF CallTypeOK
      <3>7. CallMatches(c)'
        BY <3>1, <3>3, <3>5, <3>6 DEF CallMatches, NoCall
      <3> QED
        BY <1>1, <2>1, <3>1, <3>3, <3>7, OthersStayTyped
    <2> QED
      BY <1>5, <2>3, <2>4 DEF Begin, Execute
  <1>6. ASSUME NEW c \in Calls, call[c] # NoCall
        PROVE  /\ call[c].op \in Operations
               /\ call[c].op \in AllOperations
               /\ FirstRequest(call[c].op) # "sleep"
               /\ call[c].attempt \in 0..MaxRetries(call[c].op)
               /\ call[c].created \in Nat /\ call[c].unsettled \in Nat
    <2>1. CallTypeOK(c)
      BY <1>2 DEF CallMatches
    <2>2. call[c].op \in Operations
      BY <1>6, <2>1 DEF CallTypeOK
    <2>3. call[c].op \in AllOperations
      BY <1>2, <2>2, OperationsAreKnown
    <2>4. FirstRequest(call[c].op) # "sleep"
      BY <2>3 DEF FirstRequest, AllOperations
    <2> QED
      BY <1>6, <2>1, <2>2, <2>3, <2>4 DEF CallTypeOK
  <1>7. ASSUME NEW c \in Calls, NEW place, call[c] # NoCall,
               call' = [call EXCEPT ![c].at = place],
               place # "sleep",
               place \in {FirstRequest(call[c].op)} \cup
                 IF FirstRequest(call[c].op) = "search" THEN {"download", "upload"} ELSE {},
               UNCHANGED <<vendor, inFlight>>, holdsReference' \in BOOLEAN, late' \in Nat
        PROVE  CallsInv'
    <2>1. call' = [call EXCEPT ![c] =
                     [op |-> call[c].op, at |-> place, attempt |-> call[c].attempt,
                      created |-> call[c].created, unsettled |-> call[c].unsettled]]
      <3>1. call' = [call EXCEPT ![c] = [call[c] EXCEPT !.at = place]]
        BY <1>7
      <3>2. [call[c] EXCEPT !.at = place] =
              [op |-> call[c].op, at |-> place, attempt |-> call[c].attempt,
               created |-> call[c].created, unsettled |-> call[c].unsettled]
        BY <1>2 DEF CallRecords
      <3> QED
        BY <3>1, <3>2
    <2>2. /\ call[c].attempt \in 0..MaxRetries(call[c].op)
          /\ call[c].created \in Nat /\ call[c].unsettled \in Nat
      BY <1>6, <1>7
    <2>3. place \in {FirstRequest(call[c].op), "sleep"} \cup
            IF FirstRequest(call[c].op) = "search" THEN {"download", "upload"} ELSE {}
      BY <1>7
    <2>4. /\ call[c] # NoCall /\ place # "sleep"
          /\ UNCHANGED <<vendor, inFlight>> /\ holdsReference' \in BOOLEAN /\ late' \in Nat
      BY <1>7
    <2> QED
      BY <1>1, <2>1, <2>2, <2>3, <2>4, CallStaysTyped
  <1>8. ASSUME NEW c \in Calls, SearchAnswered(c)
        PROVE  CallsInv'
    <2>1. FirstRequest(call[c].op) = "search" /\ call[c] # NoCall
      BY <1>2, <1>8 DEF SearchAnswered, UploadSound, NoCall
    <2>2. PICK place \in {"download", "upload"} : call' = [call EXCEPT ![c].at = place]
      BY <1>8 DEF SearchAnswered
    <2>3. UNCHANGED <<vendor, inFlight>> /\ holdsReference' \in BOOLEAN /\ late' \in Nat
      BY <1>2, <1>8 DEF SearchAnswered, breakerVars
    <2> QED
      BY <1>7, <2>1, <2>2, <2>3
  <1>9. ASSUME NEW c \in Calls, RequestSucceeds(c)
        PROVE  CallsInv'
    <2>1. late' \in Nat /\ holdsReference' \in BOOLEAN
      BY <1>2, <1>9, LateTyped DEF RequestSucceeds
    <2> QED
      BY <1>1, <1>9, <2>1, EndKeepsTypes DEF RequestSucceeds, Succeed
  <1>10. ASSUME NEW c \in Calls, RequestFails(c)
         PROVE  CallsInv'
    <2> DEFINE created == IF call[c].at = "upload" THEN 1 ELSE 0
    <2>1. PICK code : \/ AttemptFails(c, code, 0, 0)
                      \/ AttemptFails(c, code, created, 0)
                      \/ AttemptFails(c, code, 0, 1)
      BY <1>10 DEF RequestFails
    <2>2. created \in Nat
      OBVIOUS
    <2> HIDE DEF created
    <2> QED
      BY <1>1, <1>10, <2>1, <2>2, AttemptFailsKeepsTypes DEF RequestFails
  <1>11. ASSUME NEW c \in Calls, UploadTakesEffectLate(c)
         PROVE  CallsInv'
    <2>1. call[c] # NoCall
      BY <1>11 DEF UploadTakesEffectLate, NoCall
    <2>2. call[c].created + 1 \in Nat /\ call[c].unsettled - 1 \in Nat
      BY <1>6, <1>11, <2>1 DEF UploadTakesEffectLate
    <2>3. call' = [call EXCEPT ![c] =
                     [op |-> call[c].op, at |-> call[c].at, attempt |-> call[c].attempt,
                      created |-> call[c].created + 1, unsettled |-> call[c].unsettled - 1]]
      BY <1>2, <1>11 DEF UploadTakesEffectLate, CallRecords
    <2>4. UNCHANGED <<vendor, inFlight>> /\ holdsReference' \in BOOLEAN /\ late' \in Nat
      BY <1>2, <1>11 DEF UploadTakesEffectLate, breakerVars
    <2>5. CallTypeOK(c)
      BY <1>2 DEF CallMatches
    <2>6. /\ call[c].at \in {FirstRequest(call[c].op), "sleep"} \cup
               IF FirstRequest(call[c].op) = "search" THEN {"download", "upload"} ELSE {}
          /\ call[c].at = "sleep" => call[c].attempt > 0
          /\ call[c].attempt \in 0..MaxRetries(call[c].op)
      BY <2>1, <2>5 DEF CallTypeOK
    <2> QED
      BY <1>1, <2>1, <2>2, <2>3, <2>4, <2>6, CallStaysTyped
  <1>12. ASSUME NEW c \in Calls, Wake(c)
         PROVE  CallsInv'
    <2>1. call[c] # NoCall
      BY <1>12 DEF Wake, NoCall
    <2>2. FirstRequest(call[c].op) # "sleep"
      BY <1>6, <2>1
    <2>3. UNCHANGED <<vendor, inFlight>> /\ holdsReference' \in BOOLEAN /\ late' \in Nat
      BY <1>2, <1>12, LateTyped DEF Wake, breakerVars
    <2> QED
      BY <1>7, <1>12, <2>1, <2>2, <2>3 DEF Wake
  <1> QED
    BY <1>4, <1>5, <1>8, <1>9, <1>10, <1>11, <1>12 DEF VendorNext

LEMMA CallsInvHolds == VendorSpec => []CallsInv
  BY CallsInvInitially, CallsInvInductive, PTL DEF VendorSpec

\* Type correctness: a caller is in an operation exactly while the breaker has its
\* call, and never in more attempts than the policy of the operation allows.
THEOREM VendorCallsTypeCorrect == VendorSpec => []VendorTypeOK
  <1>1. CallsInv => VendorTypeOK
    BY DEF CallsInv
  <1> QED
    BY <1>1, CallsInvHolds, PTL

-----------------------------------------------------------------------------
(***************************************************************************)
(* What still reaches the vendor of an open circuit                        *)
(***************************************************************************)

MostRetries == Max({MaxRetries(op) : op \in Operations})

LEMMA MostRetriesBounds ==
  ASSUME vendor \in Vendors
  PROVE  /\ MostRetries \in Nat
         /\ \A op \in Operations : MaxRetries(op) <= MostRetries
  <1> DEFINE all == {MaxRetries(op) : op \in Operations}
  <1>1. all # {} /\ \A n \in all : n \in Nat /\ n <= 3
    BY RetriesBounded
  <1> HIDE DEF all
  <1>2. \E n \in all : \A m \in all : n >= m
    <2>1. \A n \in all : n = 0 \/ n = 1 \/ n = 2 \/ n = 3
      BY <1>1
    <2>2. CASE 3 \in all
      BY <1>1, <2>2
    <2>3. CASE 3 \notin all /\ 2 \in all
      BY <2>1, <2>3
    <2>4. CASE 3 \notin all /\ 2 \notin all /\ 1 \in all
      BY <2>1, <2>4
    <2>5. CASE 3 \notin all /\ 2 \notin all /\ 1 \notin all
      BY <1>1, <2>1, <2>5
    <2> QED
      BY <2>2, <2>3, <2>4, <2>5
  <1>3. Max(all) \in all /\ \A m \in all : Max(all) >= m
    BY <1>2 DEF Max
  <1>4. MostRetries = Max(all)
    BY DEF MostRetries, all
  <1>5. \A op \in Operations : MaxRetries(op) \in all
    BY DEF all
  <1> QED
    BY <1>1, <1>3, <1>4, <1>5

\* Has caller c, if it is still in its call, begun its k-th retry?
Begun(c, k) ==
  \/ call[c] = NoCall
  \/ k < call[c].attempt
  \/ k = call[c].attempt /\ call[c].at # "sleep"

\* The attempts begun since the circuit opened are retries, each by its number,
\* of other calls than the one whose failure opened it: that caller is in none
\* and does not get into one while the circuit is open.
DrainedBy(opener, begun) ==
  /\ call[opener] = NoCall
  /\ begun \subseteq (Calls \ {opener}) \X (1..MostRetries)
  /\ Cardinality(begun) = late
  /\ \A retry \in begun : Begun(retry[1], retry[2])

DrainInv ==
  /\ state = "OPEN" => \E opener \in Calls : \E begun : DrainedBy(opener, begun)
  /\ state # "OPEN" => late = 0

LEMMA RetriesAreFinite ==
  ASSUME vendor \in Vendors, NEW opener \in Calls
  PROVE  /\ IsFiniteSet((Calls \ {opener}) \X (1..MostRetries))
         /\ Cardinality((Calls \ {opener}) \X (1..MostRetries))
              = (Cardinality(Calls) - 1) * MostRetries
         /\ Cardinality(Calls) - 1 \in Nat
  <1>1. MostRetries \in Nat
    BY MostRetriesBounds
  <1>2. IsFiniteSet(1..MostRetries) /\ Cardinality(1..MostRetries) = MostRetries
    BY <1>1, FS_Interval
  <1>3. /\ IsFiniteSet(Calls \ {opener})
        /\ Cardinality(Calls \ {opener}) = Cardinality(Calls) - 1
    BY CallersAssumption, FS_RemoveElement
  <1>4. Cardinality(Calls \ {opener}) \in Nat
    BY <1>3, FS_CardinalityType
  <1>5. ASSUME NEW others, NEW numbers, IsFiniteSet(others), IsFiniteSet(numbers)
        PROVE  /\ IsFiniteSet(others \X numbers)
               /\ Cardinality(others \X numbers) = Cardinality(others) * Cardinality(numbers)
    BY <1>5, FS_Product
  <1>6. /\ IsFiniteSet((Calls \ {opener}) \X (1..MostRetries))
        /\ Cardinality((Calls \ {opener}) \X (1..MostRetries))
             = Cardinality(Calls \ {opener}) * Cardinality(1..MostRetries)
    BY <1>2, <1>3, <1>5
  <1> QED
    BY <1>2, <1>3, <1>4, <1>6

LEMMA DrainInvBounds ==
  ASSUME CallsInv, DrainInv
  PROVE  OpenCircuitDrains
  <1>1. vendor \in Vendors
    BY DEF CallsInv, VendorTypeOK
  <1>2. MostRetries \in Nat
    BY <1>1, MostRetriesBounds
  <1>3. PICK someone : someone \in Calls
    BY CallersAssumption
  <1>4. Cardinality(Calls) - 1 \in Nat
    BY <1>1, <1>3, RetriesAreFinite
  <1>5. CASE state # "OPEN"
    BY <1>2, <1>4, <1>5 DEF DrainInv, OpenCircuitDrains, MostRetries
  <1>6. CASE state = "OPEN"
    <2> PICK opener \in Calls : \E begun : DrainedBy(opener, begun)
      BY <1>6 DEF DrainInv
    <2>1. PICK begun : DrainedBy(opener, begun)
      OBVIOUS
    <2> DEFINE all == (Calls \ {opener}) \X (1..MostRetries)
    <2>2. begun \in SUBSET all
      BY <2>1 DEF DrainedBy
    <2>3. IsFiniteSet(all) /\ Cardinality(all) = (Cardinality(Calls) - 1) * MostRetries
      BY <1>1, RetriesAreFinite
    <2> HIDE DEF all
    <2>4. Cardinality(begun) <= Cardinality(all)
      BY <2>2, <2>3, FS_Subset
    <2> QED
      BY <2>1, <2>3, <2>4 DEF DrainedBy, OpenCircuitDrains, MostRetries
  <1> QED
    BY <1>5, <1>6

\* Does caller c's call go on, no less far than it was?
NoLessFar(c) ==
  \/ call'[c] = NoCall
  \/ call'[c] = call[c]
  \/ /\ call[c] # NoCall
     /\ \/ /\ call'[c].attempt = call[c].attempt
           /\ call'[c].at = "sleep" => call[c].at = "sleep"
        \/ call'[c].attempt = call[c].attempt + 1

\* A step that begins no attempt and does not open the circuit.
LEMMA NothingBegins ==
  ASSUME CallsInv, DrainInv, UNCHANGED vendor,
         state' = "OPEN" => state = "OPEN" /\ late' = late,
         state' # "OPEN" => late' = 0,
         \A c \in Calls : NoLessFar(c),
         \A c \in Calls : state' = "OPEN" /\ call[c] = NoCall => call'[c] = NoCall
  PROVE  DrainInv'
  <1>1. CASE state' # "OPEN"
    BY <1>1 DEF DrainInv
  <1>2. CASE state' = "OPEN"
    <2> PICK opener \in Calls : \E begun : DrainedBy(opener, begun)
      BY <1>2 DEF DrainInv
    <2>1. PICK begun : DrainedBy(opener, begun)
      OBVIOUS
    <2>2. ASSUME NEW c \in Calls, NEW k \in Nat, Begun(c, k)
          PROVE  Begun(c, k)'
      <3>1. call[c] \in CallRecords
        BY DEF CallsInv, UploadInv
      <3>2. call[c].attempt \in Nat
        BY <3>1 DEF CallRecords
      <3>3. NoLessFar(c)
        OBVIOUS
      <3>4. NoCall' = NoCall
        BY DEF NoCall
      <3> QED
        BY <1>2, <2>2, <3>2, <3>3, <3>4 DEF NoLessFar, Begun
    <2>3. MostRetries' = MostRetries
      BY DEF MostRetries, Operations, MaxRetries
    <2>4. \A retry \in begun : retry[1] \in Calls /\ retry[2] \in Nat
      BY <2>1 DEF DrainedBy
    <2>5. \A retry \in begun : Begun(retry[1], retry[2])'
      BY <2>1, <2>2, <2>4 DEF DrainedBy
    <2>6. call'[opener] = NoCall
      BY <1>2, <2>1 DEF DrainedBy
    <2>7. DrainedBy(opener, begun)'
      BY <1>2, <2>1, <2>3, <2>5, <2>6 DEF DrainedBy, NoCall
    <2> QED
      BY <1>2, <2>7 DEF DrainInv
  <1> QED
    BY <1>1, <1>2

\* A call that fails may open the circuit: nothing was begun since, and its caller
\* is in no call.
LEMMA FailureDrains ==
  ASSUME CallsInv, DrainInv, UNCHANGED vendor, NEW c \in Calls,
         Fail(c), End(c), LateAfter(0)
  PROVE  DrainInv'
  <1>1. /\ call \in [Calls -> CallRecords]
        /\ late \in Nat
        /\ vendor \in Vendors
    BY DEF CallsInv, UploadInv, VendorTypeOK
  <1>2. call'[c] = NoCall /\ \A d \in Calls \ {c} : call'[d] = call[d]
    BY <1>1 DEF End
  <1>3. CASE state' = "OPEN" /\ state # "OPEN"
    <2>1. late' = 0
      BY <1>1, <1>3 DEF LateAfter, DrainInv
    <2>2. DrainedBy(c, {})'
      BY <1>2, <2>1, FS_EmptySet DEF DrainedBy, NoCall
    <2> QED
      BY <1>3, <2>2 DEF DrainInv
  <1>4. CASE ~(state' = "OPEN" /\ state # "OPEN")
    <2>1. late' = IF state' = "OPEN" THEN late ELSE 0
      BY <1>1 DEF LateAfter
    <2>2. \A d \in Calls : NoLessFar(d)
      BY <1>2 DEF NoLessFar
    <2>3. \A d \in Calls : call[d] = NoCall => call'[d] = NoCall
      BY <1>2
    <2> QED
      BY <1>4, <2>1, <2>2, <2>3, NothingBegins
  <1> QED
    BY <1>3, <1>4

\* A sleep that ends begins the attempt that it was counted as: a new one.
LEMMA WakeDrains ==
  ASSUME CallsInv, DrainInv, NEW c \in Calls, Wake(c)
  PROVE  DrainInv'
  <1>1. /\ call \in [Calls -> CallRecords]
        /\ call[c] \in CallRecords
        /\ late \in Nat
        /\ vendor \in Vendors
        /\ CallTypeOK(c)
    BY DEF CallsInv, UploadInv, VendorTypeOK
  <1>2. /\ state' = state /\ vendor' = vendor
        /\ late' = IF state' = "OPEN" THEN late + 1 ELSE 0
    BY DEF Wake, LateAfter, breakerVars, breaker
  <1>3. call[c] # NoCall /\ call[c].at = "sleep"
    BY DEF Wake, NoCall
  <1>4. /\ call[c].op \in Operations
        /\ call[c].attempt \in 0..MaxRetries(call[c].op)
        /\ call[c].attempt > 0
    BY <1>1, <1>3 DEF CallTypeOK
  <1>5. FirstRequest(call[c].op) # "sleep"
    <2>1. call[c].op \in AllOperations
      BY <1>1, <1>4, OperationsAreKnown
    <2> QED
      BY <2>1 DEF FirstRequest, AllOperations
  <1> PICK k : k = call[c].attempt
    OBVIOUS
  <1>6. k \in 1..MostRetries
    <2>1. MostRetries \in Nat /\ MaxRetries(call[c].op) <= MostRetries
      BY <1>1, <1>4, MostRetriesBounds
    <2>2. MaxRetries(call[c].op) \in Nat
      BY <1>1, <1>4, RetriesBounded
    <2> QED
      BY <1>4, <2>1, <2>2
  <1>7. CASE state # "OPEN"
    BY <1>2, <1>7 DEF DrainInv
  <1>8. CASE state = "OPEN"
    <2> PICK opener \in Calls : \E begun : DrainedBy(opener, begun)
      BY <1>8 DEF DrainInv
    <2>1. PICK begun : DrainedBy(opener, begun)
      OBVIOUS
    <2> PICK more : more = begun \cup {<<c, k>>}
      OBVIOUS
    <2>2. opener # c
      BY <1>3, <2>1 DEF DrainedBy
    <2>3. IsFiniteSet(begun)
      BY <1>1, <2>1, RetriesAreFinite, FS_Subset DEF DrainedBy
    <2>4. <<c, k>> \notin begun
      BY <1>3, <1>4, <2>1 DEF DrainedBy, Begun
    <2>5. Cardinality(more) = late'
      BY <1>2, <1>8, <2>1, <2>3, <2>4, FS_AddElement DEF DrainedBy
    <2>6. /\ call'[c].at = FirstRequest(call[c].op)
          /\ call'[c].attempt = call[c].attempt
          /\ \A d \in Calls \ {c} : call'[d] = call[d]
      BY <1>1 DEF Wake, CallRecords
    <2>7. ASSUME NEW retry \in more
          PROVE  Begun(retry[1], retry[2])'
      <3>1. CASE retry = <<c, k>>
        BY <1>5, <2>6, <3>1 DEF Begun
      <3>2. CASE retry \in begun /\ retry[1] # c
        <4>1. retry[1] \in Calls /\ Begun(retry[1], retry[2])
          BY <2>1, <3>2 DEF DrainedBy
        <4> QED
          BY <2>6, <3>2, <4>1 DEF Begun, NoCall
      <3>3. CASE retry \in begun /\ retry[1] = c
        <4>1. Begun(c, retry[2])
          BY <2>1, <3>3 DEF DrainedBy
        <4> QED
          BY <1>3, <2>6, <3>3, <4>1 DEF Begun
      <3> QED
        BY <3>1, <3>2, <3>3
    <2>8. MostRetries' = MostRetries
      BY <1>2 DEF MostRetries, Operations, MaxRetries
    <2>9. more \subseteq (Calls \ {opener}) \X (1..MostRetries)
      BY <1>6, <2>1, <2>2 DEF DrainedBy
    <2>10. call'[opener] = NoCall
      BY <2>1, <2>2, <2>6 DEF DrainedBy
    <2>11. DrainedBy(opener, more)'
      BY <2>5, <2>7, <2>8, <2>9, <2>10 DEF DrainedBy, NoCall
    <2> QED
      BY <1>2, <1>8, <2>11 DEF DrainInv
  <1> QED
    BY <1>7, <1>8

LEMMA DrainInvInductive == CallsInv /\ DrainInv /\ [VendorNext]_vendorVars => DrainInv'
  <1> SUFFICES ASSUME CallsInv, DrainInv, [VendorNext]_vendorVars
               PROVE  DrainInv'
    OBVIOUS
  <1>1. /\ call \in [Calls -> CallRecords]
        /\ late \in Nat
        /\ state \in States
    BY DEF CallsInv, UploadInv, VendorTypeOK, BreakerTypeOK
  <1>2. ASSUME UNCHANGED <<vendor, state, late>>,
               \A c \in Calls : NoLessFar(c) /\ (call[c] = NoCall => call'[c] = NoCall)
        PROVE  DrainInv'
    <2>1. state # "OPEN" => late = 0
      BY DEF DrainInv
    <2> QED
      BY <1>2, <2>1, NothingBegins
  <1>3. ASSUME UNCHANGED vendor, state' = "OPEN" => state = "OPEN", LateAfter(0),
               \A c \in Calls : NoLessFar(c) /\ (state' = "OPEN" /\ call[c] = NoCall => call'[c] = NoCall)
        PROVE  DrainInv'
    <2>1. late' = IF state' = "OPEN" THEN late ELSE 0
      BY <1>1, <1>3 DEF LateAfter
    <2> QED
      BY <1>3, <2>1, NothingBegins
  <1>4. CASE StoreOperation \/ PassTime \/ UNCHANGED vendorVars
    <2>1. UNCHANGED <<vendor, state, late, call>>
      BY <1>4 DEF StoreOperation, PassTime, Tick, breaker, breakerVars, adapterVars, vendorVars
    <2>2. \A c \in Calls : NoLessFar(c)
      BY <2>1 DEF NoLessFar
    <2> QED
      BY <1>2, <2>1, <2>2
  <1>5. CASE GetHealthStatus
    <2>1. UNCHANGED <<vendor, call>> /\ LateAfter(0) /\ (state' = "OPEN" => state = "OPEN")
      BY <1>5 DEF GetHealthStatus, ObserveState, TransitionTo, CurrentState
    <2>2. \A c \in Calls : NoLessFar(c)
      BY <2>1 DEF NoLessFar
    <2> QED
      BY <1>3, <2>1, <2>2
  <1>6. ASSUME NEW c \in Calls, NEW op \in Operations, Begin(c, op)
        PROVE  DrainInv'
    <2>1. UNCHANGED vendor /\ LateAfter(0) /\ (state' = "OPEN" => state = "OPEN")
      BY <1>6 DEF Begin, Execute, TransitionTo, CurrentState
    <2>2. CASE UNCHANGED call
      <3>1. \A d \in Calls : NoLessFar(d)
        BY <2>2 DEF NoLessFar
      <3> QED
        BY <1>3, <2>1, <2>2, <3>1
    <2>3. CASE inFlight'[c] # "none"
      <3>1. state' # "OPEN"
        BY <1>6, <2>3 DEF Begin, Execute, TransitionTo
      <3>2. late' = 0
        BY <2>1, <3>1 DEF LateAfter
      <3> QED
        BY <3>1, <3>2 DEF DrainInv
    <2> QED
      BY <1>6, <2>2, <2>3 DEF Begin
  <1>7. ASSUME NEW c \in Calls, SearchAnswered(c)
        PROVE  DrainInv'
    <2>1. UNCHANGED <<vendor, state, late>> /\ call[c] # NoCall
      BY <1>7 DEF SearchAnswered, breakerVars, breaker, NoCall
    <2>2. /\ call'[c].attempt = call[c].attempt /\ call'[c].at # "sleep"
          /\ \A d \in Calls \ {c} : call'[d] = call[d]
      BY <1>1, <1>7 DEF SearchAnswered, CallRecords
    <2>3. \A d \in Calls : NoLessFar(d) /\ (call[d] = NoCall => call'[d] = NoCall)
      BY <2>1, <2>2 DEF NoLessFar
    <2> QED
      BY <1>2, <2>1, <2>3
  <1>8. ASSUME NEW c \in Calls, RequestSucceeds(c)
        PROVE  DrainInv'
    <2>1. UNCHANGED vendor /\ LateAfter(0) /\ (state' = "OPEN" => state = "OPEN")
      BY <1>8 DEF RequestSucceeds, Succeed, TransitionTo
    <2>2. call'[c] = NoCall /\ \A d \in Calls \ {c} : call'[d] = call[d]
      BY <1>1, <1>8 DEF RequestSucceeds, End
    <2>3. \A d \in Calls : NoLessFar(d) /\ (call[d] = NoCall => call'[d] = NoCall)
      BY <2>2 DEF NoLessFar
    <2> QED
      BY <1>3, <2>1, <2>3
  <1>9. ASSUME NEW c \in Calls, RequestFails(c)
        PROVE  DrainInv'
    <2>1. PICK code, created, unsettled : AttemptFails(c, code, created, unsettled)
      BY <1>9 DEF RequestFails
    <2>2. UNCHANGED vendor /\ call[c] # NoCall
      BY <1>9 DEF RequestFails, Asking, NoCall
    <2>3. CASE Fail(c) /\ End(c) /\ LateAfter(0)
      BY <2>2, <2>3, FailureDrains
    <2>4. CASE /\ call' = [call EXCEPT ![c].at = "sleep", ![c].attempt = @ + 1,
                                       ![c].created = @ + created, ![c].unsettled = @ + unsettled]
               /\ UNCHANGED <<breakerVars, late>>
      <3>1. /\ call'[c].attempt = call[c].attempt + 1
            /\ \A d \in Calls \ {c} : call'[d] = call[d]
        BY <1>1, <2>4 DEF CallRecords
      <3>2. \A d \in Calls : NoLessFar(d) /\ (call[d] = NoCall => call'[d] = NoCall)
        BY <2>2, <3>1 DEF NoLessFar
      <3>3. UNCHANGED <<state, late>>
        BY <2>4 DEF breakerVars, breaker
      <3> QED
        BY <1>2, <2>2, <3>2, <3>3
    <2> QED
      BY <2>1, <2>3, <2>4 DEF AttemptFails
  <1>10. ASSUME NEW c \in Calls, UploadTakesEffectLate(c)
         PROVE  DrainInv'
    <2>1. UNCHANGED <<vendor, state, late>> /\ call[c] # NoCall
      BY <1>10 DEF UploadTakesEffectLate, breakerVars, breaker, NoCall
    <2>2. /\ call'[c].attempt = call[c].attempt /\ call'[c].at = call[c].at
          /\ \A d \in Calls \ {c} : call'[d] = call[d]
      BY <1>1, <1>10 DEF UploadTakesEffectLate, CallRecords
    <2>3. \A d \in Calls : NoLessFar(d) /\ (call[d] = NoCall => call'[d] = NoCall)
      BY <2>1, <2>2 DEF NoLessFar
    <2> QED
      BY <1>2, <2>1, <2>3
  <1>11. ASSUME NEW c \in Calls, Wake(c)
         PROVE  DrainInv'
    BY <1>11, WakeDrains
  <1> QED
    BY <1>4, <1>5, <1>6, <1>7, <1>8, <1>9, <1>10, <1>11 DEF VendorNext

\* However many callers there are and whatever the vendor answers, what reaches it
\* behind an open circuit is at most the retries of all callers but one.
THEOREM OpenCircuitsDrain == VendorSpec => []OpenCircuitDrains
  <1>1. VendorInit => DrainInv
    BY DEF VendorInit, BreakerInit, DrainInv
  <1>2. CallsInv /\ DrainInv => OpenCircuitDrains
    BY DrainInvBounds
  <1> QED
    BY <1>1, <1>2, CallsInvInitially, CallsInvInductive, DrainInvInductive, PTL DEF VendorSpec

=============================================================================
