-------------------------- MODULE TimerServiceProofs --------------------------
(***************************************************************************)
(* Proofs about TimerService, for any number of timers, owners, pollers    *)
(* and failures.                                                           *)
(***************************************************************************)
EXTENDS TimerService, SequenceTheorems, TLAPS

Numbers == 1..Len(table)

PollRecords == [at : {"idle", "handling", "marking"}, due : SUBSET Numbers]

Types ==
  /\ table \in Seq(Timer)
  /\ resolved \in Seq(0..2) /\ Len(resolved) = Len(table)
  /\ poll \in [Pollers -> PollRecords]
  /\ \A p \in Pollers :
       /\ (poll[p].at = "idle") = (poll[p].due = {})
       /\ \A i \in poll[p].due : table[i].fireAt <= now
  /\ cancelling \subseteq Numbers
  /\ now \in 0..MaxTime /\ failures \in 0..MaxFailures
  /\ disturbed \in BOOLEAN

\* What is marked was handled, and so was what is about to be marked.
HandledInv ==
  /\ \A i \in Numbers : table[i].fired => resolved[i] > 0
  /\ \A p \in Pollers : poll[p].at = "marking" =>
       \A i \in FirstOf(poll[p].due) : resolved[i] > 0

\* p is marking i.
Marking(p, i) == poll[p].at = "marking" /\ i \in FirstOf(poll[p].due)

\* Undisturbed, one poll is under way, with timers that are not fired and, but for
\* one that it is marking, not handled; and what was handled is marked.
OnceInv ==
  ~disturbed =>
    /\ \A p, q \in Pollers : poll[p].at # "idle" /\ poll[q].at # "idle" => p = q
    /\ \A i \in Numbers :
         resolved[i] # 0 =>
           resolved[i] = 1 /\ (table[i].fired \/ \E p \in Pollers : Marking(p, i))
    /\ \A p \in Pollers : \A i \in poll[p].due :
         ~table[i].fired /\ (resolved[i] # 0 => Marking(p, i))

TimerInv == Types /\ HandledInv /\ OnceInv

-----------------------------------------------------------------------------
LEMMA NumbersAreDomain ==
  ASSUME Types
  PROVE  DOMAIN table = Numbers /\ DOMAIN resolved = Numbers
  BY DEF Types, Numbers

LEMMA FirstIsUnique ==
  ASSUME NEW S \in SUBSET Nat, NEW i \in FirstOf(S), NEW j \in FirstOf(S)
  PROVE  i = j
  BY DEF FirstOf

LEMMA TypesGiveTypeOK == Types => TimerTypeOK
  <1> SUFFICES ASSUME Types
               PROVE  TimerTypeOK
    OBVIOUS
  <1>1. \A p \in Pollers : poll[p].at \in {"idle", "handling", "marking"}
                           /\ poll[p].due \subseteq Numbers
    BY DEF Types, PollRecords
  <1>2. \A i \in DOMAIN table : resolved[i] \in 0..2
    BY DEF Types
  <1> QED
    BY <1>1, <1>2, NumbersAreDomain DEF Types, TimerTypeOK

LEMMA Initially == TimerInit => TimerInv
  <1> SUFFICES ASSUME TimerInit
               PROVE  TimerInv
    OBVIOUS
  <1>0. table = <<>> /\ resolved = <<>>
    BY DEF TimerInit
  <1>1. Numbers = {} /\ Len(table) = 0 /\ table \in Seq(Timer) /\ resolved \in Seq(0..2)
    BY <1>0 DEF Numbers
  <1>2. \A p \in Pollers : poll[p] = [at |-> "idle", due |-> {}]
    BY DEF TimerInit, IdlePoll
  <1>3. poll \in [Pollers -> PollRecords]
    BY DEF TimerInit, IdlePoll, PollRecords
  <1>4. Types
    <2>1. 0 \in 0..MaxTime /\ 0 \in 0..MaxFailures
      BY TimerAssumption
    <2>2. Len(resolved) = 0
      BY <1>0
    <2>3. \A p \in Pollers : /\ (poll[p].at = "idle") = (poll[p].due = {})
                            /\ \A i \in poll[p].due : table[i].fireAt <= now
      BY <1>2
    <2>4. cancelling = {} /\ now = 0 /\ failures = 0 /\ disturbed = FALSE
      BY DEF TimerInit
    <2> QED
      BY <1>1, <1>3, <2>1, <2>2, <2>3, <2>4 DEF Types
  <1>5. HandledInv /\ OnceInv
    BY <1>1, <1>2 DEF HandledInv, OnceInv
  <1> QED
    BY <1>4, <1>5 DEF TimerInv

\* Marking a timer in the table changes one row, in one field that is no date.
LEMMA RowMarked ==
  ASSUME Types, NEW i \in Numbers, NEW row \in Timer, row.fireAt = table[i].fireAt,
         table' = [table EXCEPT ![i] = row]
  PROVE  /\ table' \in Seq(Timer) /\ Len(table') = Len(table) /\ Numbers' = Numbers
         /\ \A j \in Numbers : table'[j].fireAt = table[j].fireAt
         /\ \A j \in Numbers : table'[j] = IF j = i THEN row ELSE table[j]
  BY ExceptSeq DEF Types, Numbers

\* A cancellation disturbs nothing.
LEMMA CancelledRow ==
  ASSUME TimerInv, NEW i \in Numbers, table' = [table EXCEPT ![i].cancelled = TRUE],
         cancelling' \subseteq cancelling,
         UNCHANGED <<poll, now, failures, resolved, disturbed>>
  PROVE  TimerInv'
  <1> DEFINE row == [table[i] EXCEPT !.cancelled = TRUE]
  <1>1. table[i] \in Timer
    BY DEF TimerInv, Types, Numbers
  <1>2. row \in Timer /\ row.fireAt = table[i].fireAt /\ row.fired = table[i].fired
    BY <1>1 DEF Timer
  <1>3. table' = [table EXCEPT ![i] = row]
    BY DEF row
  <1> HIDE DEF row
  <1>4. /\ table' \in Seq(Timer) /\ Len(table') = Len(table) /\ Numbers' = Numbers
        /\ \A j \in Numbers : table'[j].fireAt = table[j].fireAt
        /\ \A j \in Numbers : table'[j].fired = table[j].fired
    <2>1. /\ table' \in Seq(Timer) /\ Len(table') = Len(table) /\ Numbers' = Numbers
          /\ \A j \in Numbers : table'[j].fireAt = table[j].fireAt
          /\ \A j \in Numbers : table'[j] = IF j = i THEN row ELSE table[j]
      BY <1>2, <1>3, RowMarked DEF TimerInv
    <2> QED
      BY <1>2, <2>1
  <1>5. Types'
    BY <1>4 DEF TimerInv, Types, PollRecords
  <1>6. HandledInv'
    BY <1>4 DEF TimerInv, HandledInv, Types, PollRecords, FirstOf
  <1>7. OnceInv'
    <2>1. \A p \in Pollers : poll[p].due \subseteq Numbers
      BY DEF TimerInv, Types, PollRecords
    <2> QED
      BY <1>4, <2>1 DEF TimerInv, OnceInv, Marking
  <1> QED
    BY <1>5, <1>6, <1>7 DEF TimerInv


LEMMA FindDueKnown ==
  ASSUME Types
  PROVE  /\ FindDue \subseteq Numbers
         /\ \A i \in FindDue : ~table[i].fired /\ table[i].fireAt <= now
  BY NumbersAreDomain DEF FindDue, Active

\* A poll's step that leaves the table alone changes the types of nothing else.
LEMMA PollTypes ==
  ASSUME Types, NEW p \in Pollers, NEW new \in PollRecords,
         poll' = [poll EXCEPT ![p] = new],
         (new.at = "idle") = (new.due = {}),
         \A i \in new.due : table'[i].fireAt <= now,
         table' \in Seq(Timer), Len(table') = Len(table),
         \A j \in Numbers : table'[j].fireAt = table[j].fireAt,
         resolved' \in Seq(0..2), Len(resolved') = Len(resolved),
         UNCHANGED <<cancelling, now>>, failures' \in 0..MaxFailures, disturbed' \in BOOLEAN
  PROVE  Types'
  <1>1. poll' \in [Pollers -> PollRecords] /\ Numbers' = Numbers
    BY DEF Types, Numbers
  <1>2. PollRecords' = PollRecords
    BY <1>1 DEF PollRecords
  <1>3. ASSUME NEW q \in Pollers
        PROVE  /\ (poll'[q].at = "idle") = (poll'[q].due = {})
               /\ \A i \in poll'[q].due : table'[i].fireAt <= now
    <2>1. CASE q = p
      <3>1. poll'[q] = new
        BY <2>1 DEF Types
      <3> QED
        BY <3>1
    <2>2. CASE q # p
      <3>1. poll'[q] = poll[q] /\ poll[q].due \subseteq Numbers
        BY <2>2 DEF Types, PollRecords
      <3> QED
        BY <3>1 DEF Types
    <2> QED
      BY <2>1, <2>2
  <1> QED
    BY <1>1, <1>2, <1>3 DEF Types, Numbers


\* A new timer is not fired, not handled and in no list.
LEMMA ScheduleSound ==
  ASSUME TimerInv, NEW owner \in Owners, NEW duration \in Durations, Schedule(owner, duration)
  PROVE  TimerInv'
  <1> DEFINE row == [owner |-> owner, fireAt |-> now + duration, fired |-> FALSE,
                     cancelled |-> FALSE]
  <1>1. UNCHANGED <<poll, cancelling, now, failures, disturbed>>
    BY DEF Schedule
  <1>2. row \in Timer
    BY TimerAssumption DEF Timer, TimerInv, Types
  <1>3. /\ table' \in Seq(Timer) /\ Len(table') = Len(table) + 1
        /\ \A j \in Numbers : table'[j] = table[j]
        /\ table'[Len(table) + 1] = row
    BY <1>2, AppendProperties DEF Schedule, TimerInv, Types, Numbers
  <1>4. /\ resolved' \in Seq(0..2) /\ Len(resolved') = Len(table')
        /\ \A j \in Numbers : resolved'[j] = resolved[j]
        /\ resolved'[Len(table) + 1] = 0
    BY <1>3, AppendProperties DEF Schedule, TimerInv, Types, Numbers
  <1>5. Numbers' = Numbers \cup {Len(table) + 1}
    BY <1>3 DEF Numbers, TimerInv, Types
  <1>6. ~table'[Len(table) + 1].fired
    BY <1>3
  <1> HIDE DEF row
  <1>7. \A p \in Pollers : poll[p].due \subseteq Numbers
    BY DEF TimerInv, Types, PollRecords
  <1>8. Types'
    <2>1. poll' \in [Pollers -> PollRecords']
      BY <1>1, <1>5 DEF TimerInv, Types, PollRecords
    <2>2. \A p \in Pollers : \A i \in poll'[p].due : table'[i].fireAt <= now'
      BY <1>1, <1>3, <1>7 DEF TimerInv, Types
    <2> QED
      BY <1>1, <1>3, <1>4, <1>5, <2>1, <2>2 DEF TimerInv, Types
  <1>9. HandledInv'
    <2>1. \A i \in Numbers' : table'[i].fired => resolved'[i] > 0
      BY <1>3, <1>4, <1>5, <1>6 DEF TimerInv, HandledInv
    <2>2. \A p \in Pollers : poll'[p].at = "marking" =>
            \A i \in FirstOf(poll'[p].due) : resolved'[i] > 0
      BY <1>1, <1>4, <1>7 DEF TimerInv, HandledInv, FirstOf
    <2> QED
      BY <2>1, <2>2 DEF HandledInv
  <1>10. OnceInv'
    BY <1>1, <1>3, <1>4, <1>5, <1>7 DEF TimerInv, OnceInv, Marking
  <1> QED
    BY <1>8, <1>9, <1>10 DEF TimerInv

LEMMA StartSound ==
  ASSUME TimerInv, NEW p \in Pollers, StartPoll(p)
  PROVE  TimerInv'
  <1> DEFINE new == [at |-> "handling", due |-> FindDue]
  <1>1. Types
    BY DEF TimerInv
  <1>2. /\ poll[p].at = "idle" /\ FindDue # {} /\ poll' = [poll EXCEPT ![p] = new]
        /\ UNCHANGED <<table, cancelling, now, failures, resolved>>
        /\ disturbed' = (disturbed \/ \E q \in Pollers : poll[q].at # "idle")
    BY DEF StartPoll
  <1>3. new \in PollRecords /\ new.at = "handling" /\ new.due = FindDue
    BY <1>1, FindDueKnown DEF PollRecords
  <1>4. poll'[p] = new /\ \A q \in Pollers : q # p => poll'[q] = poll[q]
    BY <1>1, <1>2 DEF Types
  <1> HIDE DEF new
  <1>5. disturbed' \in BOOLEAN
    BY <1>1, <1>2 DEF Types
  <1>6. \A i \in new.due : table'[i].fireAt <= now
    BY <1>1, <1>2, <1>3, FindDueKnown
  <1>7. Types'
    BY <1>1, <1>2, <1>3, <1>5, <1>6, PollTypes DEF Types
  <1>8. Numbers' = Numbers
    BY <1>2 DEF Numbers
  <1>9. HandledInv'
    BY <1>2, <1>3, <1>4, <1>8 DEF TimerInv, HandledInv
  <1>10. OnceInv'
    <2> SUFFICES ASSUME ~disturbed'
                 PROVE  OnceInv'
      BY DEF OnceInv
    <2>1. ~disturbed /\ \A q \in Pollers : poll[q].at = "idle"
      BY <1>2
    <2>2. \A q \in Pollers : q # p => poll'[q].at = "idle" /\ poll'[q].due = {}
      BY <1>1, <1>4, <2>1 DEF Types
    <2>3. \A i \in Numbers : resolved[i] # 0 => resolved[i] = 1 /\ table[i].fired
      BY <2>1 DEF TimerInv, OnceInv, Marking
    <2>4. \A i \in FindDue : i \in Numbers /\ ~table[i].fired /\ resolved[i] = 0
      BY <1>1, <2>3, FindDueKnown
    <2> QED
      BY <1>2, <1>3, <1>4, <1>8, <2>2, <2>3, <2>4 DEF OnceInv
  <1> QED
    BY <1>7, <1>9, <1>10 DEF TimerInv

LEMMA ResolveSound ==
  ASSUME TimerInv, NEW p \in Pollers, HandlerResolves(p)
  PROVE  TimerInv'
  <1> DEFINE new == [at |-> "marking", due |-> poll[p].due]
  <1>1. Types /\ poll[p] \in PollRecords
    BY DEF TimerInv, Types
  <1>2. PICK i \in FirstOf(poll[p].due) :
          resolved' = [resolved EXCEPT ![i] = IF @ < 2 THEN @ + 1 ELSE @]
    BY DEF HandlerResolves
  <1>3. poll[p].at = "handling" /\ UNCHANGED <<table, cancelling, now, failures, disturbed>>
    BY DEF HandlerResolves
  <1>4. poll' = [poll EXCEPT ![p] = new]
    <2>1. poll' = [poll EXCEPT ![p] = [poll[p] EXCEPT !.at = "marking"]]
      BY DEF HandlerResolves
    <2>2. [poll[p] EXCEPT !.at = "marking"] = new
      BY <1>1 DEF PollRecords
    <2> QED
      BY <2>1, <2>2
  <1>5. new \in PollRecords /\ new.at = "marking" /\ new.due = poll[p].due
    BY <1>1 DEF PollRecords
  <1>6. poll'[p] = new /\ \A q \in Pollers : q # p => poll'[q] = poll[q]
    BY <1>1, <1>4 DEF Types
  <1> HIDE DEF new
  <1>7. i \in Numbers /\ i \in poll[p].due /\ poll[p].due \subseteq Nat
    BY <1>1 DEF PollRecords, FirstOf, Numbers
  <1>8. /\ resolved' \in Seq(0..2) /\ Len(resolved') = Len(resolved)
        /\ \A j \in Numbers :
             resolved'[j] = IF j = i THEN IF resolved[i] < 2 THEN resolved[i] + 1 ELSE resolved[i]
                            ELSE resolved[j]
    <2> DEFINE count == IF resolved[i] < 2 THEN resolved[i] + 1 ELSE resolved[i]
    <2>1. i \in 1..Len(resolved) /\ resolved[i] \in 0..2
      BY <1>1, <1>7 DEF Types, Numbers
    <2>2. count \in 0..2
      BY <2>1
    <2>3. resolved' = [resolved EXCEPT ![i] = count]
      BY <1>2
    <2> QED
      BY <1>1, <2>1, <2>2, <2>3, ExceptSeq DEF Types, Numbers
  <1>9. Types'
    <2>1. (new.at = "idle") = (new.due = {}) /\ \A j \in new.due : table'[j].fireAt <= now
      BY <1>1, <1>3, <1>5, <1>7 DEF Types
    <2> QED
      BY <1>1, <1>3, <1>4, <1>5, <1>8, <2>1, PollTypes DEF Types
  <1>10. Numbers' = Numbers
    BY <1>3 DEF Numbers
  <1>11. \A j \in Numbers : resolved[j] \in 0..2 /\ (resolved[j] > 0 => resolved'[j] > 0)
    BY <1>1, <1>8 DEF Types, Numbers
  <1>12. resolved'[i] > 0
    BY <1>7, <1>8, <1>11
  <1>13. HandledInv'
    <2>1. \A j \in FirstOf(poll[p].due) : j = i
      BY <1>2, <1>7, FirstIsUnique
    <2>2. \A q \in Pollers : poll[q].due \subseteq Numbers
      BY <1>1 DEF Types, PollRecords
    <2>3. \A q \in Pollers : \A j \in FirstOf(poll[q].due) : j \in Numbers
      BY <2>2 DEF FirstOf
    <2> QED
      BY <1>3, <1>5, <1>6, <1>10, <1>11, <1>12, <2>1, <2>3 DEF TimerInv, HandledInv
  <1>14. OnceInv'
    <2> SUFFICES ASSUME ~disturbed
                 PROVE  OnceInv'
      BY <1>3 DEF OnceInv
    <2>1. \A q \in Pollers : q # p => poll[q].at = "idle" /\ poll[q].due = {}
      BY <1>1, <1>3 DEF TimerInv, OnceInv, Types
    <2>2. resolved[i] = 0 /\ resolved'[i] = 1
      BY <1>3, <1>7, <1>8 DEF TimerInv, OnceInv, Marking
    <2>3. \A j \in poll[p].due : ~table[j].fired /\ (j # i => resolved'[j] = 0) /\ j \in Numbers
      BY <1>1, <1>3, <1>8 DEF TimerInv, OnceInv, Marking, PollRecords
    <2>4. \A j \in Numbers : j # i => resolved'[j] = resolved[j]
      BY <1>8
    <2>5. \A j \in Numbers : resolved[j] # 0 => resolved[j] = 1 /\ table[j].fired
      BY <1>3, <2>1 DEF TimerInv, OnceInv, Marking
    <2>6. Marking(p, i)'
      BY <1>2, <1>5, <1>6 DEF Marking
    <2> QED
      BY <1>3, <1>5, <1>6, <1>10, <2>1, <2>2, <2>3, <2>4, <2>5, <2>6 DEF OnceInv
  <1> QED
    BY <1>9, <1>13, <1>14 DEF TimerInv


LEMMA PollFailsSound ==
  ASSUME TimerInv, NEW p \in Pollers, PollFails(p)
  PROVE  TimerInv'
  <1>1. Types
    BY DEF TimerInv
  <1>2. /\ poll' = [poll EXCEPT ![p] = IdlePoll] /\ failures < MaxFailures
        /\ failures' = failures + 1 /\ disturbed' = (disturbed \/ poll[p].at = "marking")
        /\ UNCHANGED <<table, cancelling, now, resolved>>
    BY DEF PollFails
  <1>3. IdlePoll \in PollRecords /\ IdlePoll.at = "idle" /\ IdlePoll.due = {}
    BY DEF PollRecords, IdlePoll
  <1>4. poll'[p] = IdlePoll /\ \A q \in Pollers : q # p => poll'[q] = poll[q]
    BY <1>1, <1>2 DEF Types
  <1>5. failures' \in 0..MaxFailures /\ disturbed' \in BOOLEAN
    BY <1>1, <1>2, TimerAssumption DEF Types
  <1>6. Types'
    BY <1>1, <1>2, <1>3, <1>5, PollTypes DEF Types
  <1>7. Numbers' = Numbers
    BY <1>2 DEF Numbers
  <1>8. HandledInv'
    BY <1>2, <1>3, <1>4, <1>7 DEF TimerInv, HandledInv
  <1>9. OnceInv'
    <2> SUFFICES ASSUME ~disturbed'
                 PROVE  OnceInv'
      BY DEF OnceInv
    <2>1. ~disturbed /\ poll[p].at # "marking"
      BY <1>2
    <2>2. \A q \in Pollers, i \in Numbers : Marking(q, i) => q # p /\ Marking(q, i)'
      BY <1>4, <2>1 DEF Marking
    <2>3. \A q \in Pollers : poll'[q].at # "idle" => q # p
      BY <1>3, <1>4
    <2>4. \A q \in Pollers : \A i \in poll'[q].due : q # p /\ i \in poll[q].due /\ i \in Numbers
      BY <1>1, <1>3, <1>4 DEF Types, PollRecords
    <2>5. \A q, r \in Pollers : poll'[q].at # "idle" /\ poll'[r].at # "idle" => q = r
      BY <1>4, <2>1, <2>3 DEF TimerInv, OnceInv
    <2>6. \A i \in Numbers :
            resolved[i] # 0 =>
              resolved[i] = 1 /\ (table[i].fired \/ \E q \in Pollers : Marking(q, i)')
      BY <2>1, <2>2 DEF TimerInv, OnceInv
    <2>7. \A q \in Pollers : \A i \in poll'[q].due :
            ~table[i].fired /\ (resolved[i] # 0 => Marking(q, i)')
      BY <2>1, <2>2, <2>4 DEF TimerInv, OnceInv
    <2> QED
      BY <1>2, <1>7, <2>5, <2>6, <2>7 DEF OnceInv, Marking
  <1> QED
    BY <1>6, <1>8, <1>9 DEF TimerInv

LEMMA MarkFiredSound ==
  ASSUME TimerInv, NEW p \in Pollers, MarkFired(p)
  PROVE  TimerInv'
  <1>1. Types /\ poll[p] \in PollRecords
    BY DEF TimerInv, Types
  <1>2. PICK i \in FirstOf(poll[p].due) :
          table' = [table EXCEPT ![i].fired = TRUE] /\ GoOn(p, i)
    BY DEF MarkFired
  <1>3. poll[p].at = "marking" /\ UNCHANGED <<cancelling, now, failures, resolved, disturbed>>
    BY DEF MarkFired
  <1>4. i \in Numbers /\ i \in poll[p].due /\ poll[p].due \subseteq Numbers
    BY <1>1 DEF PollRecords, FirstOf
  <1> DEFINE row == [table[i] EXCEPT !.fired = TRUE]
             rest == poll[p].due \ {i}
             new == IF rest = {} THEN IdlePoll ELSE [at |-> "handling", due |-> rest]
  <1>5. row \in Timer /\ row.fireAt = table[i].fireAt /\ row.fired = TRUE
    <2>1. table[i] \in Timer
      BY <1>1, <1>4 DEF Types, Numbers
    <2> QED
      BY <2>1 DEF Timer
  <1>6. table' = [table EXCEPT ![i] = row]
    BY <1>2
  <1>7. poll' = [poll EXCEPT ![p] = new]
    BY <1>2 DEF GoOn
  <1>8. /\ new \in PollRecords /\ new.at \in {"idle", "handling"} /\ new.due = rest
        /\ (new.at = "idle") = (rest = {})
    BY <1>4 DEF PollRecords, IdlePoll
  <1>9. rest \subseteq poll[p].due /\ i \notin rest
    OBVIOUS
  <1> HIDE DEF row, rest, new
  <1>10. poll'[p] = new /\ \A q \in Pollers : q # p => poll'[q] = poll[q]
    BY <1>1, <1>7 DEF Types
  <1>11. /\ table' \in Seq(Timer) /\ Len(table') = Len(table) /\ Numbers' = Numbers
         /\ \A j \in Numbers : table'[j].fireAt = table[j].fireAt
         /\ \A j \in Numbers : table'[j] = IF j = i THEN row ELSE table[j]
    BY <1>1, <1>4, <1>5, <1>6, RowMarked
  <1>12. Types'
    <2>1. \A j \in new.due : table'[j].fireAt <= now
      BY <1>1, <1>4, <1>8, <1>9, <1>11 DEF Types
    <2>2. resolved' \in Seq(0..2) /\ failures' \in 0..MaxFailures /\ disturbed' \in BOOLEAN
      BY <1>1, <1>3 DEF Types
    <2> QED
      BY <1>1, <1>3, <1>7, <1>8, <1>11, <2>1, <2>2, PollTypes
  <1>13. resolved[i] > 0
    BY <1>2, <1>3 DEF TimerInv, HandledInv
  <1>14. HandledInv'
    <2>1. \A j \in Numbers' : table'[j].fired => resolved'[j] > 0
      BY <1>3, <1>11, <1>13 DEF TimerInv, HandledInv
    <2>2. \A q \in Pollers : poll'[q].at = "marking" =>
            \A j \in FirstOf(poll'[q].due) : resolved'[j] > 0
      BY <1>3, <1>8, <1>10 DEF TimerInv, HandledInv
    <2> QED
      BY <2>1, <2>2 DEF HandledInv
  <1>15. OnceInv'
    <2> SUFFICES ASSUME ~disturbed
                 PROVE  OnceInv'
      BY <1>3 DEF OnceInv
    <2>1. \A q \in Pollers : q # p => poll'[q].at = "idle" /\ poll'[q].due = {}
      BY <1>1, <1>3, <1>10 DEF TimerInv, OnceInv, Types
    <2>2. \A q \in Pollers, j \in Numbers : Marking(q, j) => j = i
      <3>1. \A q \in Pollers, j \in Numbers : Marking(q, j) => q = p
        BY <1>3 DEF TimerInv, OnceInv, Marking
      <3>2. \A j \in FirstOf(poll[p].due) : j = i
        BY <1>2, <1>4, FirstIsUnique DEF Numbers
      <3> QED
        BY <3>1, <3>2 DEF Marking
    <2>3. \A j \in Numbers : resolved[j] # 0 => resolved[j] = 1 /\ table'[j].fired
      BY <1>5, <1>11, <2>2 DEF TimerInv, OnceInv
    <2>4. \A j \in rest : j \in Numbers /\ j # i /\ ~table'[j].fired /\ resolved[j] = 0
      <3>1. \A j \in rest : j \in Numbers /\ j # i /\ j \in poll[p].due
        BY <1>4, <1>9
      <3>2. \A j \in rest : ~table[j].fired /\ resolved[j] = 0
        BY <2>2, <3>1 DEF TimerInv, OnceInv
      <3> QED
        BY <1>11, <3>1, <3>2
    <2>5. \A q \in Pollers : \A j \in poll'[q].due : ~table'[j].fired /\ resolved'[j] = 0
      BY <1>3, <1>8, <1>10, <2>1, <2>4
    <2> QED
      BY <1>3, <1>11, <2>1, <2>3, <2>5 DEF OnceInv
  <1> QED
    BY <1>12, <1>14, <1>15 DEF TimerInv

\* Cancellations, and the clock.
LEMMA OthersSound ==
  ASSUME TimerInv,
         \/ \E owner \in Owners : FindToCancel(owner)
         \/ \E i \in DOMAIN table : CancelTimer(i)
         \/ CancelNext
         \/ Tick
         \/ UNCHANGED timerVars
  PROVE  TimerInv'
  <1>0. Types
    BY DEF TimerInv
  <1>1. ASSUME NEW owner \in Owners, FindToCancel(owner)
        PROVE  TimerInv'
    <2>1. cancelling' \subseteq Numbers /\ UNCHANGED <<table, poll, now, failures, resolved, disturbed>>
      BY <1>0, <1>1, NumbersAreDomain DEF FindToCancel
    <2> QED
      BY <2>1 DEF TimerInv, Types, HandledInv, OnceInv, Marking, Numbers, PollRecords
  <1>2. ASSUME NEW i \in DOMAIN table, CancelTimer(i)
        PROVE  TimerInv'
    <2>1. i \in Numbers
      BY <1>0, NumbersAreDomain
    <2> QED
      BY <1>2, <2>1, CancelledRow DEF CancelTimer
  <1>3. CASE CancelNext
    <2>1. PICK i \in FirstOf(cancelling) :
            /\ table' = [table EXCEPT ![i].cancelled = TRUE] /\ cancelling' = cancelling \ {i}
            /\ UNCHANGED <<poll, now, failures, resolved, disturbed>>
      BY <1>3 DEF CancelNext
    <2>2. i \in Numbers
      BY <1>0 DEF FirstOf, Types
    <2> QED
      BY <2>1, <2>2, CancelledRow
  <1>4. CASE Tick
    <2>1. now' = now + 1 /\ now' \in 0..MaxTime
          /\ UNCHANGED <<table, poll, cancelling, failures, resolved, disturbed>>
      BY <1>0, <1>4, TimerAssumption DEF Tick, Types
    <2>2. \A p \in Pollers : \A i \in poll[p].due : table[i].fireAt <= now'
      <3> SUFFICES ASSUME NEW p \in Pollers, NEW i \in poll[p].due
                   PROVE  table[i].fireAt <= now'
        OBVIOUS
      <3>1. i \in Numbers
        BY <1>0 DEF Types, PollRecords
      <3>2. table[i] \in Timer /\ table[i].fireAt <= now /\ now \in Int
        BY <1>0, <3>1 DEF Types, Numbers
      <3> QED
        BY <2>1, <3>2 DEF Timer
    <2> QED
      BY <2>1, <2>2 DEF TimerInv, Types, HandledInv, OnceInv, Marking, Numbers, PollRecords
  <1>5. CASE UNCHANGED timerVars
    BY <1>5 DEF timerVars, TimerInv, Types, HandledInv, OnceInv, Marking, Numbers, PollRecords
  <1> QED
    BY <1>1, <1>2, <1>3, <1>4, <1>5

LEMMA TimerInvInductive == TimerInv /\ [TimerNext]_timerVars => TimerInv'
  <1> SUFFICES ASSUME TimerInv, [TimerNext]_timerVars
               PROVE  TimerInv'
    OBVIOUS
  <1>1. ASSUME NEW owner \in Owners, NEW d \in Durations, Schedule(owner, d)
        PROVE  TimerInv'
    BY <1>1, ScheduleSound
  <1>2. ASSUME NEW p \in Pollers,
               StartPoll(p) \/ HandlerResolves(p) \/ PollFails(p) \/ MarkFired(p)
        PROVE  TimerInv'
    BY <1>2, StartSound, ResolveSound, PollFailsSound, MarkFiredSound
  <1> QED
    BY <1>1, <1>2, OthersSound DEF TimerNext

LEMMA TimerSpecInv == TimerSpec => []TimerInv
  BY Initially, TimerInvInductive, PTL DEF TimerSpec

-----------------------------------------------------------------------------
\* TimerService's tables and lists have their types: whatever is cancelled or fails
\* while polls work through their lists, every number in a list is a timer's.
THEOREM TimersTypeCorrect == TimerSpec => []TimerTypeOK
  <1>1. TimerInv => TimerTypeOK
    BY TypesGiveTypeOK DEF TimerInv
  <1> QED
    BY <1>1, TimerSpecInv, PTL

\* pollAndFireDue(): no timer is marked as fired before its handler resolved,
\* however many polls overlap and wherever they fail.
THEOREM FiredTimersWereHandled == TimerSpec => []FiredWasHandled
  <1>1. TimerInv => FiredWasHandled
    BY NumbersAreDomain DEF TimerInv, HandledInv, FiredWasHandled
  <1> QED
    BY <1>1, TimerSpecInv, PTL

\* pollAndFireDue(): as long as polls do not overlap and markFired() answers,
\* no handler resolves twice for a timer.
THEOREM UndisturbedTimersAreHandledOnce == TimerSpec => []HandledOnce
  <1>1. TimerInv => HandledOnce
    <2> SUFFICES ASSUME TimerInv, ~disturbed, NEW i \in DOMAIN table
                 PROVE  resolved[i] <= 1
      BY DEF HandledOnce
    <2>1. i \in Numbers /\ resolved[i] \in 0..2
      BY NumbersAreDomain DEF TimerInv, Types
    <2>2. resolved[i] # 0 => resolved[i] = 1
      BY <2>1 DEF TimerInv, OnceInv
    <2> QED
      BY <2>1, <2>2
  <1> QED
    BY <1>1, TimerSpecInv, PTL

\* findDue(): a poll takes up no timer that was cancelled before it began,
\* whatever other polls and cancellations are under way.
THEOREM CancelledTimersStayQuiet == TimerSpec => CancelledStaysQuiet
  <1> DEFINE Quiet == \A p \in Pollers : poll[p].at = "idle" =>
                        \A i \in poll'[p].due : ~table[i].cancelled
  <1>1. TimerInv /\ [TimerNext]_timerVars => [Quiet]_timerVars
    <2> SUFFICES ASSUME TimerInv, TimerNext, NEW p \in Pollers, poll[p].at = "idle",
                        NEW i \in poll'[p].due
                 PROVE  ~table[i].cancelled
      OBVIOUS
    <2>1. Types /\ poll[p].due = {}
      BY DEF TimerInv, Types
    <2>2. PICK q \in Pollers :
            StartPoll(q) \/ HandlerResolves(q) \/ PollFails(q) \/ MarkFired(q)
      BY <2>1 DEF TimerNext, FindToCancel, Schedule, CancelTimer, CancelNext, Tick
    <2>3. q = p
      BY <2>1, <2>2 DEF Types, StartPoll, HandlerResolves, PollFails, MarkFired, GoOn
    <2>4. StartPoll(p)
      BY <2>2, <2>3, <2>1 DEF HandlerResolves, PollFails, MarkFired
    <2>5. poll'[p].due = FindDue
      BY <2>1, <2>4 DEF Types, StartPoll
    <2> QED
      BY <2>5 DEF FindDue, Active
  <1> QED
    BY <1>1, TimerSpecInv, PTL DEF TimerSpec, CancelledStaysQuiet

=============================================================================
