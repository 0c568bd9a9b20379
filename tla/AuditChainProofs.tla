--------------------------- MODULE AuditChainProofs ---------------------------
(***************************************************************************)
(* Proofs about AuditChain, for any number of writers and events.          *)
(***************************************************************************)
EXTENDS AuditChain, TLAPS

Calls == [at : {"idle", "create", "insert"}, event : Events \cup {Null},
          previous : Events \cup {Null}, createdAt : 0..MaxTime]

(***************************************************************************)
(* Types                                                                   *)
(***************************************************************************)

LEMMA TypeInit == ChainInit => ChainTypeOK
  <1> SUFFICES ASSUME ChainInit
               PROVE  ChainTypeOK
    OBVIOUS
  <1>1. Idle \in Calls
    BY ChainAssumption DEF Idle, Calls
  <1>2. writer \in [Writers -> Calls]
    BY <1>1 DEF ChainInit
  <1>3. \A w \in Writers : writer[w].at = "idle" /\ writer[w].event = Null
    BY DEF ChainInit, Idle
  <1>4. rows \subseteq Rows
    BY DEF ChainInit, Rows
  <1>5. now \in 0..MaxTime
    BY ChainAssumption DEF ChainInit
  <1>6. contended \in BOOLEAN
    BY DEF ChainInit
  <1> QED
    BY <1>2, <1>3, <1>4, <1>5, <1>6 DEF ChainTypeOK, Calls

\* A call that is started, goes on or ends is still well typed.
LEMMA CallTyped ==
  ASSUME ChainTypeOK, NEW w \in Writers, NEW call \in Calls,
         writer' = [writer EXCEPT ![w] = call],
         (call.at = "idle") = (call.event = Null),
         rows' \subseteq Rows, now' = now, contended' \in BOOLEAN
  PROVE  ChainTypeOK'
  <1>1. writer' \in [Writers -> Calls]
    BY DEF ChainTypeOK, Calls
  <1>2. \A v \in Writers : (writer'[v].at = "idle") = (writer'[v].event = Null)
    BY DEF ChainTypeOK
  <1> QED
    BY <1>1, <1>2 DEF ChainTypeOK, Calls

LEMMA TypeNext == ChainTypeOK /\ [ChainNext]_chainVars => ChainTypeOK'
  <1> SUFFICES ASSUME ChainTypeOK, [ChainNext]_chainVars
               PROVE  ChainTypeOK'
    OBVIOUS
  <1> Idle \in Calls /\ Idle.at = "idle" /\ Idle.event = Null
    BY ChainAssumption DEF Idle, Calls
  <1>1. ASSUME NEW w \in Writers, NEW e \in Events, ReadLast(w, e)
        PROVE  ChainTypeOK'
    <2>1. PICK previous \in GetLastEventHash :
            writer' = [writer EXCEPT ![w] =
              [at |-> "create", event |-> e, previous |-> previous, createdAt |-> 0]]
      BY <1>1 DEF ReadLast
    <2>2. previous \in Events \cup {Null}
      BY DEF GetLastEventHash, Newest, ChainTypeOK, Rows
    <2> DEFINE call == [at |-> "create", event |-> e, previous |-> previous, createdAt |-> 0]
    <2>3. call \in Calls /\ call.at # "idle" /\ call.event # Null
      BY <2>2, ChainAssumption DEF Calls
    <2>4. contended' \in BOOLEAN
      BY <1>1 DEF ReadLast
    <2> HIDE DEF call
    <2> QED
      BY <1>1, <2>1, <2>3, <2>4, CallTyped DEF ReadLast, ChainTypeOK, call
  <1>2. ASSUME NEW w \in Writers, CreateEvent(w)
        PROVE  ChainTypeOK'
    <2> DEFINE call == [writer[w] EXCEPT !.at = "insert", !.createdAt = now]
    <2>1. writer' = [writer EXCEPT ![w] = call]
      BY <1>2 DEF CreateEvent, ChainTypeOK
    <2>2. call \in Calls /\ call.at # "idle" /\ call.event # Null
      BY <1>2 DEF CreateEvent, ChainTypeOK, Calls
    <2>3. contended' \in BOOLEAN
      BY <1>2 DEF CreateEvent
    <2> HIDE DEF call
    <2> QED
      BY <1>2, <2>1, <2>2, <2>3, CallTyped DEF CreateEvent, ChainTypeOK
  <1>3. ASSUME NEW w \in Writers, Insert(w)
        PROVE  ChainTypeOK'
    <2>1. writer[w].event \in Events
      BY <1>3 DEF Insert, ChainTypeOK
    <2>2. rows' \subseteq Rows
      BY <1>3, <2>1 DEF Insert, ChainTypeOK, Rows
    <2> QED
      BY <1>3, <2>2, CallTyped DEF Insert, ChainTypeOK
  <1>4. ASSUME NEW w \in Writers, WriteFails(w)
        PROVE  ChainTypeOK'
    BY <1>4, CallTyped DEF WriteFails, ChainTypeOK
  <1>5. CASE Tick
    BY <1>5, ChainAssumption DEF Tick, ChainTypeOK
  <1>6. CASE UNCHANGED chainVars
    BY <1>6 DEF chainVars, ChainTypeOK
  <1> QED
    BY <1>1, <1>2, <1>3, <1>4, <1>5, <1>6 DEF ChainNext

\* The chain is well typed, and a call holds an event exactly while under way.
THEOREM ChainTypeCorrect == ChainSpec => []ChainTypeOK
  BY TypeInit, TypeNext, PTL DEF ChainSpec

-----------------------------------------------------------------------------
(***************************************************************************)
(* Links                                                                   *)
(***************************************************************************)

Recorded(hash, time) == \E q \in rows : q.eventId = hash /\ q.createdAt <= time

\* LinksLeadBack, and the same of the events that are being written.
LinksInv ==
  /\ LinksLeadBack
  /\ \A r \in rows : r.createdAt <= now
  /\ \A w \in Writers :
       /\ writer[w].at = "create" /\ writer[w].previous # Null =>
            Recorded(writer[w].previous, now)
       /\ writer[w].at = "insert" => writer[w].createdAt <= now
       /\ writer[w].at = "insert" /\ writer[w].previous # Null =>
            Recorded(writer[w].previous, writer[w].createdAt)

LEMMA LinksInit == ChainInit => LinksInv
  BY DEF ChainInit, LinksInv, LinksLeadBack, Idle

LEMMA LinksNext == ChainTypeOK /\ LinksInv /\ [ChainNext]_chainVars => LinksInv'
  <1> SUFFICES ASSUME ChainTypeOK, LinksInv, [ChainNext]_chainVars
               PROVE  LinksInv'
    OBVIOUS
  <1> now \in Nat
    BY DEF ChainTypeOK
  <1>1. ASSUME NEW w \in Writers, NEW e \in Events, ReadLast(w, e)
        PROVE  LinksInv'
    <2>1. PICK previous \in GetLastEventHash :
            writer' = [writer EXCEPT ![w] =
              [at |-> "create", event |-> e, previous |-> previous, createdAt |-> 0]]
      BY <1>1 DEF ReadLast
    <2>2. previous # Null => Recorded(previous, now)
      BY DEF GetLastEventHash, Newest, LinksInv, Recorded
    <2>3. UNCHANGED <<rows, now>>
      BY <1>1 DEF ReadLast
    <2> QED
      BY <2>1, <2>2, <2>3 DEF LinksInv, LinksLeadBack, Recorded, ChainTypeOK
  <1>2. ASSUME NEW w \in Writers, CreateEvent(w)
        PROVE  LinksInv'
    BY <1>2 DEF CreateEvent, LinksInv, LinksLeadBack, Recorded, ChainTypeOK
  <1>3. ASSUME NEW w \in Writers, Insert(w)
        PROVE  LinksInv'
    <2> DEFINE new == [eventId |-> writer[w].event,
                       previousEventHash |-> writer[w].previous,
                       createdAt |-> writer[w].createdAt]
    <2>1. /\ rows' = rows \cup {new}
          /\ new.previousEventHash = writer[w].previous
          /\ new.createdAt = writer[w].createdAt
      BY <1>3 DEF Insert
    <2> HIDE DEF new
    <2>2. writer' = [writer EXCEPT ![w] = Idle] /\ now' = now /\ writer[w].at = "insert"
      BY <1>3 DEF Insert
    <2>3. \A hash, time : Recorded(hash, time) => Recorded(hash, time)'
      BY <2>1 DEF Recorded
    <2>4. new.previousEventHash # Null => Recorded(new.previousEventHash, new.createdAt)
      BY <2>1, <2>2 DEF LinksInv
    <2>5. \A r \in rows : r.previousEventHash # Null =>
            Recorded(r.previousEventHash, r.createdAt)
      BY DEF LinksInv, LinksLeadBack, Recorded
    <2>6. LinksLeadBack'
      BY <2>1, <2>3, <2>4, <2>5 DEF LinksLeadBack, Recorded
    <2>7. \A r \in rows' : r.createdAt <= now'
      BY <2>1, <2>2 DEF LinksInv
    <2>8. \A v \in Writers : writer'[v] = writer[v] \/ writer'[v].at = "idle"
      BY <2>2 DEF ChainTypeOK, Idle
    <2> QED
      BY <2>2, <2>3, <2>6, <2>7, <2>8 DEF LinksInv
  <1>4. ASSUME NEW w \in Writers, WriteFails(w)
        PROVE  LinksInv'
    BY <1>4 DEF WriteFails, LinksInv, LinksLeadBack, Recorded, ChainTypeOK, Idle
  <1>5. CASE Tick
    <2>1. now' = now + 1 /\ rows' = rows /\ writer' = writer
      BY <1>5 DEF Tick
    <2>2. \A r \in rows : r.createdAt \in Nat
      BY DEF ChainTypeOK, Rows
    <2>3. \A w \in Writers : writer[w].createdAt \in Nat
      BY DEF ChainTypeOK
    <2>4. \A hash : Recorded(hash, now) => Recorded(hash, now + 1)
      BY <2>2 DEF Recorded
    <2>5. LinksLeadBack'
      BY <2>1 DEF LinksInv, LinksLeadBack
    <2>6. \A r \in rows' : r.createdAt <= now'
      BY <2>1, <2>2 DEF LinksInv
    <2> QED
      BY <2>1, <2>3, <2>4, <2>5, <2>6 DEF LinksInv, Recorded
  <1>6. CASE UNCHANGED chainVars
    BY <1>6 DEF chainVars, LinksInv, LinksLeadBack, Recorded
  <1> QED
    BY <1>1, <1>2, <1>3, <1>4, <1>5, <1>6 DEF ChainNext

\* However the calls interleave, and whichever fail, an event names an event
\* that is recorded and is not younger.
THEOREM LinksAlwaysLeadBack == ChainSpec => []LinksLeadBack
  <1>1. LinksInv => LinksLeadBack
    BY DEF LinksInv
  <1> QED
    BY <1>1, LinksInit, TypeInit, TypeNext, LinksNext, PTL DEF ChainSpec

-----------------------------------------------------------------------------
(***************************************************************************)
(* Verification                                                            *)
(***************************************************************************)

NamesNewest(hash) ==
  IF rows = {} THEN hash = Null ELSE \E q \in Newest : hash = q.eventId

\* Without contention there is one call at most; it names the newest row, and
\* from the time it has its own time stamp on, every row is older.
SerialInv ==
  ~contended =>
    /\ ChainVerifies
    /\ \A w, v \in Writers : writer[w].at # "idle" /\ writer[v].at # "idle" => w = v
    /\ \A w \in Writers :
         /\ writer[w].at # "idle" => NamesNewest(writer[w].previous)
         /\ writer[w].at = "insert" => \A r \in rows : r.createdAt < writer[w].createdAt

\* A chain that verifies still does after a younger event that names the newest
\* one is added to it.
LEMMA YoungerEventVerifies ==
  ASSUME ChainTypeOK, ChainVerifies, NEW new \in Rows, rows' = rows \cup {new},
         NamesNewest(new.previousEventHash),
         \A r \in rows : r.createdAt < new.createdAt
  PROVE  ChainVerifies'
  <1>1. \A r \in rows \cup {new} : r.createdAt \in Nat
    BY DEF ChainTypeOK, Rows
  <1>2. \A r, q \in rows' : r.createdAt = q.createdAt => r = q
    BY <1>1 DEF ChainVerifies
  <1>3. ASSUME NEW r \in rows
        PROVE  Before(r)' = Before(r)
    BY <1>1 DEF Before
  <1>4. Before(new)' = Newest
    BY <1>1 DEF Before, Newest
  <1>5. IF Newest = {} THEN new.previousEventHash = Null
                       ELSE \A q \in Newest : new.previousEventHash = q.eventId
    <2>1. CASE rows = {}
      BY <2>1 DEF NamesNewest, Newest
    <2>2. CASE rows # {}
      <3>1. PICK q \in Newest : new.previousEventHash = q.eventId
        BY <2>2 DEF NamesNewest
      <3>2. \A p \in Newest : p = q
        BY <1>1 DEF Newest, ChainVerifies
      <3> QED
        BY <3>1, <3>2
    <2> QED
      BY <2>1, <2>2
  <1>6. ASSUME NEW r \in rows'
        PROVE  IF Before(r)' = {} THEN r.previousEventHash = Null
                                  ELSE \A q \in Before(r)' : r.previousEventHash = q.eventId
    <2>1. CASE r = new
      BY <2>1, <1>4, <1>5
    <2>2. CASE r \in rows
      BY <2>2, <1>3 DEF ChainVerifies
    <2> QED
      BY <2>1, <2>2
  <1> QED
    BY <1>2, <1>6 DEF ChainVerifies

\* What does not touch the rows does not touch what depends on them alone.
LEMMA RowsAlone ==
  ASSUME UNCHANGED rows
  PROVE  /\ ChainVerifies' = ChainVerifies
         /\ \A hash : NamesNewest(hash)' = NamesNewest(hash)
  BY DEF ChainVerifies, Before, NamesNewest, Newest

LEMMA SerialNext ==
  ChainTypeOK /\ LinksInv /\ SerialInv /\ [ChainNext]_chainVars => SerialInv'
  <1> SUFFICES ASSUME ChainTypeOK, LinksInv, SerialInv, [ChainNext]_chainVars, ~contended'
               PROVE  SerialInv'
    BY DEF SerialInv
  <1>1. ASSUME NEW w \in Writers, NEW e \in Events, ReadLast(w, e)
        PROVE  SerialInv'
    <2>1. PICK previous \in GetLastEventHash :
            writer' = [writer EXCEPT ![w] =
              [at |-> "create", event |-> e, previous |-> previous, createdAt |-> 0]]
      BY <1>1 DEF ReadLast
    <2>2. NamesNewest(previous)
      BY DEF GetLastEventHash, NamesNewest
    <2>3. ~contended /\ UNCHANGED rows /\ \A v \in Writers : writer[v].at = "idle"
      BY <1>1 DEF ReadLast
    <2>4. \A v \in Writers \ {w} : writer'[v].at = "idle"
      BY <2>1, <2>3 DEF ChainTypeOK
    <2>5. writer'[w].at = "create" /\ writer'[w].previous = previous
      BY <2>1 DEF ChainTypeOK
    <2> QED
      BY <2>2, <2>3, <2>4, <2>5, RowsAlone DEF SerialInv
  <1>2. ASSUME NEW w \in Writers, CreateEvent(w)
        PROVE  SerialInv'
    <2>1. ~contended /\ UNCHANGED rows
      BY <1>2 DEF CreateEvent
    <2>2. ASSUME NEW r \in rows
          PROVE  r.createdAt < now
      <3>1. r.createdAt # now
        BY <1>2 DEF CreateEvent
      <3>2. r.createdAt <= now /\ r.createdAt \in Nat /\ now \in Nat
        BY DEF ChainTypeOK, Rows, LinksInv
      <3> QED
        BY <3>1, <3>2
    <2>3. \A v \in Writers : /\ writer'[v].at = "idle" <=> writer[v].at = "idle"
                             /\ writer'[v].previous = writer[v].previous
      BY <1>2 DEF CreateEvent, ChainTypeOK
    <2>4. writer'[w].createdAt = now
      BY <1>2 DEF CreateEvent, ChainTypeOK
    <2>5. \A v \in Writers : writer'[v].at = "insert" => v = w
      BY <1>2, <2>1, <2>3 DEF CreateEvent, SerialInv
    <2> QED
      BY <2>1, <2>2, <2>3, <2>4, <2>5, RowsAlone DEF SerialInv
  <1>3. ASSUME NEW w \in Writers, Insert(w)
        PROVE  SerialInv'
    <2> DEFINE new == [eventId |-> writer[w].event,
                       previousEventHash |-> writer[w].previous,
                       createdAt |-> writer[w].createdAt]
    <2>1. new \in Rows
      BY <1>3 DEF Insert, ChainTypeOK, Rows
    <2>2. /\ new.previousEventHash = writer[w].previous
          /\ new.createdAt = writer[w].createdAt
          /\ rows' = rows \cup {new}
          /\ writer' = [writer EXCEPT ![w] = Idle]
          /\ ~contended
          /\ writer[w].at = "insert"
      BY <1>3 DEF Insert
    <2> HIDE DEF new
    <2>3. ChainVerifies'
      BY <2>1, <2>2, YoungerEventVerifies DEF SerialInv
    <2>4. \A v \in Writers : writer'[v].at = "idle"
      BY <2>2 DEF SerialInv, ChainTypeOK, Idle
    <2> QED
      BY <2>3, <2>4 DEF SerialInv
  <1>4. ASSUME NEW w \in Writers, WriteFails(w)
        PROVE  SerialInv'
    <2>1. \A v \in Writers : writer'[v].at # "idle" => writer'[v] = writer[v]
      BY <1>4 DEF WriteFails, ChainTypeOK, Idle
    <2> QED
      BY <1>4, <2>1, RowsAlone DEF WriteFails, SerialInv
  <1>5. CASE Tick
    BY <1>5, RowsAlone DEF Tick, SerialInv
  <1>6. CASE UNCHANGED chainVars
    BY <1>6, RowsAlone DEF chainVars, SerialInv
  <1> QED
    BY <1>1, <1>2, <1>3, <1>4, <1>5, <1>6 DEF ChainNext

\* Calls that are awaited one after the other, and whose events have different
\* time stamps, keep the chain verifiable at every moment, however many of them
\* there are and wherever they fail.
THEOREM SerialCallsVerify == ChainSpec => []SerialChainVerifies
  <1>1. ChainInit => SerialInv
    BY DEF ChainInit, SerialInv, ChainVerifies, Before, Idle
  <1>2. SerialInv => SerialChainVerifies
    BY DEF SerialInv, SerialChainVerifies
  <1> QED
    BY <1>1, <1>2, TypeInit, TypeNext, LinksInit, LinksNext, SerialNext, PTL DEF ChainSpec

=============================================================================
