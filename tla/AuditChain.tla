------------------------------ MODULE AuditChain ------------------------------
(***************************************************************************)
(* The hash chain of one customer's audit events, as the Prisma repository *)
(* writes and verifies it. An event's hash covers its random id, so that   *)
(* the id stands for the hash: previousEventHash names the event before.   *)
(* The database is asked for the newest event by createdAt, which counts   *)
(* milliseconds: events of the same millisecond come in any order.         *)
(***************************************************************************)
EXTENDS Integers, FiniteSets

CONSTANTS
  Events,    \* bound on the events ever recorded: their ids
  Writers,   \* recordEvent() calls in flight at a time
  MaxTime,   \* bound on the clock, in milliseconds
  Null       \* null

ASSUME ChainAssumption == MaxTime \in Nat /\ Null \notin Events

VARIABLES
  rows,      \* audit_events of the customer
  writer,    \* per call: the step it is at, and the event it is writing
  now,       \* the clock
  contended  \* history: have two calls overlapped, or fallen in a millisecond?

chainVars == <<rows, writer, now, contended>>

Rows == [eventId : Events, previousEventHash : Events \cup {Null}, createdAt : 0..MaxTime]
Idle == [at |-> "idle", event |-> Null, previous |-> Null, createdAt |-> 0]

ChainInit ==
  /\ rows = {}
  /\ writer = [w \in Writers |-> Idle]
  /\ now = 0
  /\ contended = FALSE

\* Variant: findFirst() asked for the oldest event.
NewestAscending == {r \in rows : \A q \in rows : r.createdAt <= q.createdAt}

\* findFirst() ordered by createdAt, descending: one of the newest events.
Newest == {r \in rows : \A q \in rows : q.createdAt <= r.createdAt}

\* getLastEventHash(), all the answers it may give.
GetLastEventHash ==
  IF rows = {} THEN {Null} ELSE {r.eventId : r \in Newest}

\* recordEvent() up to its first await's answer. The id is fresh: randomUUID().
ReadLast(w, e) ==
  /\ writer[w].at = "idle"
  /\ \A r \in rows : r.eventId # e
  /\ \A v \in Writers : writer[v].event # e
  /\ \E previous \in GetLastEventHash :
       writer' = [writer EXCEPT ![w] =
         [at |-> "create", event |-> e, previous |-> previous, createdAt |-> 0]]
  /\ contended' = (contended \/ \E v \in Writers : writer[v].at # "idle")
  /\ UNCHANGED <<rows, now>>

\* Variant: the event is stamped with some time at or before the present one.
CreateEventBackdated(w) ==
  /\ writer[w].at = "create"
  /\ \E t \in 0..now : writer' = [writer EXCEPT ![w].at = "insert", ![w].createdAt = t]
  /\ contended' = (contended \/ \E r \in rows : r.createdAt = now)
  /\ UNCHANGED <<rows, now>>

\* AuditEvent.create(): the event gets its time and its hash.
CreateEvent(w) ==
  /\ writer[w].at = "create"
  /\ writer' = [writer EXCEPT ![w].at = "insert", ![w].createdAt = now]
  /\ contended' = (contended \/ \E r \in rows : r.createdAt = now)
  /\ UNCHANGED <<rows, now>>

\* The payload is encrypted and the row inserted.
Insert(w) ==
  /\ writer[w].at = "insert"
  /\ rows' = rows \cup {[eventId |-> writer[w].event,
                         previousEventHash |-> writer[w].previous,
                         createdAt |-> writer[w].createdAt]}
  /\ writer' = [writer EXCEPT ![w] = Idle]
  /\ UNCHANGED <<now, contended>>

\* Variant: the call ends without giving up the event it could not record.
WriteFailsKeepingEvent(w) ==
  /\ writer[w].at # "idle"
  /\ writer' = [writer EXCEPT ![w].at = "idle"]
  /\ UNCHANGED <<rows, now, contended>>

\* The read, the encryption or the insert fails: nothing is recorded.
WriteFails(w) ==
  /\ writer[w].at # "idle"
  /\ writer' = [writer EXCEPT ![w] = Idle]
  /\ UNCHANGED <<rows, now, contended>>

Tick ==
  /\ now < MaxTime
  /\ now' = now + 1
  /\ UNCHANGED <<rows, writer, contended>>

ChainNext ==
  \/ \E w \in Writers :
       \/ \E e \in Events : ReadLast(w, e)
       \/ CreateEvent(w)
       \/ Insert(w)
       \/ WriteFails(w)
  \/ Tick

ChainSpec == ChainInit /\ [][ChainNext]_chainVars

-----------------------------------------------------------------------------
(***************************************************************************)
(* Properties                                                              *)
(***************************************************************************)

\* Types; a call holds an event exactly while it is under way, and no other
\* call or row has that event's id.
ChainTypeOK ==
  /\ rows \subseteq Rows
  /\ writer \in [Writers -> [at : {"idle", "create", "insert"}, event : Events \cup {Null},
                             previous : Events \cup {Null}, createdAt : 0..MaxTime]]
  /\ now \in 0..MaxTime
  /\ contended \in BOOLEAN
  /\ \A w \in Writers : (writer[w].at = "idle") = (writer[w].event = Null)

\* verifyChainIntegrity() walks the rows in ascending order of createdAt: each
\* must name the one before it, the first must name none. It answers `valid'
\* whatever order the database gives to rows of one millisecond.
Before(r) ==
  {q \in rows : q.createdAt < r.createdAt /\
     \A p \in rows : p.createdAt < r.createdAt => p.createdAt <= q.createdAt}

ChainVerifies ==
  /\ \A r, q \in rows : r.createdAt = q.createdAt => r = q
  /\ \A r \in rows :
       IF Before(r) = {} THEN r.previousEventHash = Null
                         ELSE \A q \in Before(r) : r.previousEventHash = q.eventId

\* When a customer's recordEvent() calls are awaited one after the other and no
\* two fall in the same millisecond, the chain verifies at every moment, calls
\* that failed half-way included.
SerialChainVerifies == ~contended => ChainVerifies

\* However the calls interleave, an event names an event that is recorded and
\* is not younger: following the hashes never leaves the table.
LinksLeadBack ==
  \A r \in rows : r.previousEventHash # Null =>
    \E q \in rows : q.eventId = r.previousEventHash /\ q.createdAt <= r.createdAt

=============================================================================
