----------------------------- MODULE TableProofs -----------------------------
(***************************************************************************)
(* Four tables of the control store, each for any sessions, keys and       *)
(* calls, with the calls interleaved statement by statement and broken off *)
(* anywhere.  Events: concurrent appends give every reader a prefix        *)
(* without gaps, and none is refused by a constraint of the table, which   *)
(* is what Controller's Commit takes as one step.  Commands: a command and *)
(* its outbox row are committed together, and an id returned stays the id  *)
(* of what was asked for.  Reviews: an accepted decision stands.  Signed   *)
(* objects: at most one version of a type is active; of two activations    *)
(* that overlap, one sees the object of the other in its snapshot and has  *)
(* to wait for its row, so the one that commits second clears what the     *)
(* first has set.                                                          *)
(***************************************************************************)
EXTENDS EventLog, CommandOutbox, ReviewQueue, SignedObjects, TLAPS, FiniteSetTheorems,
        SequenceTheorems

-----------------------------------------------------------------------------
(* Events *)

Pcs == {"idle", "begun", "locked", "absent", "numbered"}

Holding == {"locked", "absent", "numbered"}

EventRows == [sequence : Nat, key : EventKeys, command : Commands]

LogTypes ==
  /\ rows \in [Experiments -> SUBSET EventRows]
  /\ \A e \in Experiments : IsFiniteSet(rows[e])
  /\ advisory \in [Experiments -> Sessions \cup {NoSession}]
  /\ last \in [Sessions -> Nat]
  /\ pc \in [Sessions -> Pcs]
  /\ call \in [Sessions -> Appends \cup {NoCall}]
  /\ \A s \in Sessions : pc[s] # "idle" => call[s] \in Appends

\* The numbers of an experiment end with the number of its events.
Numbered(e) ==
  /\ \A r \in rows[e] : r.sequence <= Cardinality(rows[e])
  /\ rows[e] # {} => \E r \in rows[e] : r.sequence = Cardinality(rows[e])

\* Whoever has come past the lock holds it, and what it has read since still holds.
ReadsStand(s) ==
  /\ pc[s] \in Holding => advisory[call[s].experiment] = s
  /\ pc[s] \in {"absent", "numbered"} => \A r \in Own(s) : r.key # call[s].key
  /\ pc[s] = "numbered" => last[s] = Cardinality(Own(s))

LogInv ==
  /\ LogTypes
  /\ \A e \in Experiments : Numbered(e)
  /\ \A s \in Sessions : ReadsStand(s)

\* What ReadLast computes.
LEMMA LastNumber ==
  ASSUME NEW S \in SUBSET Nat, NEW m \in S, \A n \in S : n <= m
  PROVE  Max(S) = m
<1>1. \E x \in S : \A y \in S : x >= y
  OBVIOUS
<1>2. Max(S) \in S /\ \A y \in S : Max(S) >= y
  BY <1>1 DEF Max
<1>3. Max(S) \in Nat /\ m \in Nat /\ Max(S) <= m /\ Max(S) >= m
  BY <1>2
<1> QED
  BY <1>3

LEMMA GreatestSequence ==
  ASSUME LogInv, NEW e \in Experiments
  PROVE  Max({r.sequence : r \in rows[e]} \cup {0}) = Cardinality(rows[e])
<1> DEFINE S == {r.sequence : r \in rows[e]} \cup {0}
<1>1. S \in SUBSET Nat
  BY DEF LogInv, LogTypes, EventRows
<1>2. Cardinality(rows[e]) \in Nat /\ (rows[e] = {} => Cardinality(rows[e]) = 0)
  BY FS_CardinalityType, FS_EmptySet DEF LogInv, LogTypes
<1>3. Cardinality(rows[e]) \in S
  BY <1>2 DEF LogInv, Numbered
<1>4. \A n \in S : n <= Cardinality(rows[e])
  BY <1>2 DEF LogInv, Numbered
<1> QED
  BY <1>1, <1>3, <1>4, LastNumber

\* A session that writes nothing and takes no lock of another leaves the others be.
LEMMA OthersKeep ==
  ASSUME LogInv, SessionAssumption, EventLogCalls,
         NEW s \in Sessions, NEW q \in Sessions, s # q, UNCHANGED rows,
         pc'[q] = pc[q], call'[q] = call[q], last'[q] = last[q],
         \A e \in Experiments : advisory[e] = q => advisory'[e] = q
  PROVE  ReadsStand(q)'
<1>1. ReadsStand(q)
  BY DEF LogInv
<1>2. pc[q] # "idle" => call[q].experiment \in Experiments
  BY DEF LogInv, LogTypes, EventLogCalls
<1> QED
  BY <1>1, <1>2 DEF ReadsStand, Own, Holding

\* The end of a transaction, for the session itself and its types.
LEMMA Closed ==
  ASSUME LogInv, SessionAssumption, EventLogCalls, NEW s \in Sessions, CloseAppend(s)
  PROVE  /\ pc' = [pc EXCEPT ![s] = "idle"] /\ call' = [call EXCEPT ![s] = NoCall]
         /\ advisory' \in [Experiments -> Sessions \cup {NoSession}]
         /\ \A q \in Sessions : q # s =>
              \A e \in Experiments : advisory[e] = q => advisory'[e] = q
         /\ last' = [last EXCEPT ![s] = 0]
  BY DEF LogInv, LogTypes, CloseAppend, End, SessionAssumption

\* A step of s that writes nothing keeps the invariant when it keeps the types and
\* what s itself has read.
LEMMA QuietStep ==
  ASSUME LogInv, SessionAssumption, EventLogCalls, NEW s \in Sessions, UNCHANGED rows,
         pc' = [pc EXCEPT ![s] = pc'[s]], pc'[s] \in Pcs,
         call' = [call EXCEPT ![s] = call'[s]], call'[s] \in Appends \cup {NoCall},
         pc'[s] # "idle" => call'[s] \in Appends,
         last' = [last EXCEPT ![s] = last'[s]], last'[s] \in Nat,
         advisory' \in [Experiments -> Sessions \cup {NoSession}],
         \A q \in Sessions : q # s =>
           \A e \in Experiments : advisory[e] = q => advisory'[e] = q,
         ReadsStand(s)'
  PROVE  LogInv'
<1>1. LogTypes'
  BY DEF LogInv, LogTypes
<1>2. ASSUME NEW e \in Experiments PROVE Numbered(e)'
  BY DEF LogInv, Numbered
<1>3. ASSUME NEW q \in Sessions PROVE ReadsStand(q)'
  <2>1. CASE q = s
    BY <2>1
  <2>2. CASE q # s
    <3>1. pc'[q] = pc[q] /\ call'[q] = call[q] /\ last'[q] = last[q]
      BY <2>2 DEF LogInv, LogTypes
    <3> QED
      BY <2>2, <3>1, OthersKeep
  <2> QED
    BY <2>1, <2>2
<1> QED
  BY <1>1, <1>2, <1>3 DEF LogInv

LEMMA LeaveKeeps ==
  ASSUME LogInv, SessionAssumption, EventLogCalls, NEW s \in Sessions, LeaveAppend(s)
  PROVE  LogInv'
<1>1. CloseAppend(s) /\ UNCHANGED rows
  BY DEF LeaveAppend
<1>2. /\ pc' = [pc EXCEPT ![s] = "idle"] /\ call' = [call EXCEPT ![s] = NoCall]
      /\ advisory' \in [Experiments -> Sessions \cup {NoSession}]
      /\ \A q \in Sessions : q # s =>
           \A e \in Experiments : advisory[e] = q => advisory'[e] = q
      /\ last' = [last EXCEPT ![s] = 0]
  BY <1>1, Closed
<1>3. pc'[s] = "idle" /\ call'[s] = NoCall /\ last'[s] = 0
  BY <1>2 DEF LogInv, LogTypes
<1>4. ReadsStand(s)'
  BY <1>3 DEF ReadsStand, Holding
<1>5. pc'[s] \in Pcs /\ call'[s] \in Appends \cup {NoCall} /\ last'[s] \in Nat
  BY <1>3 DEF Pcs
<1>6. pc' = [pc EXCEPT ![s] = pc'[s]]
  BY <1>2, <1>3
<1>7. call' = [call EXCEPT ![s] = call'[s]]
  BY <1>2, <1>3
<1>8. last' = [last EXCEPT ![s] = last'[s]]
  BY <1>2, <1>3
<1> QED
  BY <1>1, <1>2, <1>3, <1>4, <1>5, <1>6, <1>7, <1>8, QuietStep

\* What InsertEvent adds: the next number, under a key that is free.
LEMMA NextEvent ==
  ASSUME LogInv, SessionAssumption, EventLogCalls, NEW s \in Sessions, InsertEvent(s)
  PROVE  \E r \in EventRows :
           /\ call[s].experiment \in Experiments
           /\ r \notin rows[call[s].experiment]
           /\ rows' = [rows EXCEPT ![call[s].experiment] = @ \cup {r}]
           /\ r.sequence = Cardinality(rows[call[s].experiment]) + 1
           /\ \A q \in rows[call[s].experiment] : q.key # r.key
<1> DEFINE r == [sequence |-> last[s] + 1, key |-> call[s].key, command |-> call[s].command]
<1>1. pc[s] = "numbered" /\ call[s] \in Appends
  BY DEF InsertEvent, At, LogInv, LogTypes
<1>2. call[s].experiment \in Experiments /\ r \in EventRows
  BY <1>1 DEF EventLogCalls, LogInv, LogTypes, EventRows
<1>3. last[s] = Cardinality(rows[call[s].experiment])
  BY <1>1 DEF LogInv, ReadsStand, Own
<1>4. \A q \in rows[call[s].experiment] : q.key # r.key
  BY <1>1 DEF LogInv, ReadsStand, Own
<1>5. r \notin rows[call[s].experiment]
  BY <1>4
<1>6. rows' = [rows EXCEPT ![call[s].experiment] = @ \cup {r}]
  BY DEF InsertEvent
<1> QED
  BY <1>2, <1>3, <1>4, <1>5, <1>6

LEMMA InsertKeeps ==
  ASSUME LogInv, SessionAssumption, EventLogCalls, NEW s \in Sessions, InsertEvent(s)
  PROVE  LogInv'
<1> DEFINE e == call[s].experiment
<1>1. CloseAppend(s) /\ pc[s] = "numbered"
  BY DEF InsertEvent, At
<1>2. PICK r \in EventRows : /\ e \in Experiments /\ r \notin rows[e]
                        /\ rows' = [rows EXCEPT ![e] = @ \cup {r}]
                        /\ r.sequence = Cardinality(rows[e]) + 1
  BY NextEvent
<1>3. /\ pc' = [pc EXCEPT ![s] = "idle"] /\ call' = [call EXCEPT ![s] = NoCall]
      /\ advisory' \in [Experiments -> Sessions \cup {NoSession}]
      /\ \A q \in Sessions : q # s =>
           \A f \in Experiments : advisory[f] = q => advisory'[f] = q
      /\ last' = [last EXCEPT ![s] = 0]
  BY <1>1, Closed
<1>4. /\ rows'[e] = rows[e] \cup {r}
      /\ \A f \in Experiments : f # e => rows'[f] = rows[f]
  BY <1>2 DEF LogInv, LogTypes
<1>5. /\ Cardinality(rows[e]) \in Nat
      /\ IsFiniteSet(rows'[e])
      /\ Cardinality(rows'[e]) = Cardinality(rows[e]) + 1
  <2>1. IsFiniteSet(rows[e])
    BY <1>2 DEF LogInv, LogTypes
  <2>2. Cardinality(rows[e]) \in Nat
    BY <2>1, FS_CardinalityType
  <2>3. IsFiniteSet(rows[e] \cup {r}) /\ Cardinality(rows[e] \cup {r}) = Cardinality(rows[e]) + 1
    BY <1>2, <2>1, FS_AddElement
  <2> QED
    BY <1>4, <2>2, <2>3
<1>6. LogTypes'
  <2>1. rows' \in [Experiments -> SUBSET EventRows]
    BY <1>2 DEF LogInv, LogTypes
  <2>2. \A f \in Experiments : IsFiniteSet(rows'[f])
    BY <1>4, <1>5 DEF LogInv, LogTypes
  <2> QED
    BY <2>1, <2>2, <1>3 DEF LogInv, LogTypes, Pcs
<1>7. ASSUME NEW f \in Experiments PROVE Numbered(f)'
  <2>1. CASE f = e
    <3>1. \A q \in rows[e] : q.sequence \in Nat /\ q.sequence <= Cardinality(rows[e])
      BY <1>2 DEF LogInv, LogTypes, Numbered, EventRows
    <3>2. \A q \in rows'[e] : q.sequence <= Cardinality(rows'[e])
      <4> SUFFICES ASSUME NEW q \in rows'[e]
                   PROVE  q.sequence <= Cardinality(rows[e]) + 1
        BY <1>5
      <4>1. CASE q \in rows[e]
        BY <1>5, <3>1, <4>1
      <4>2. CASE q = r
        BY <1>2, <1>5, <4>2
      <4> QED
        BY <1>4, <4>1, <4>2
    <3>3. r \in rows'[e] /\ r.sequence = Cardinality(rows'[e])
      BY <1>2, <1>4, <1>5
    <3> QED
      BY <2>1, <3>2, <3>3 DEF Numbered
  <2>2. CASE f # e
    <3>1. rows'[f] = rows[f] /\ Numbered(f)
      BY <1>4, <2>2 DEF LogInv
    <3> QED
      BY <3>1 DEF Numbered
  <2> QED
    BY <2>1, <2>2
<1>8. ASSUME NEW q \in Sessions PROVE ReadsStand(q)'
  <2>1. CASE q = s
    BY <1>3, <2>1 DEF LogInv, LogTypes, ReadsStand, Holding
  <2>2. CASE q # s
    <3>1. pc'[q] = pc[q] /\ call'[q] = call[q] /\ last'[q] = last[q] /\ ReadsStand(q)
      BY <1>3, <2>2 DEF LogInv, LogTypes
    <3>2. CASE pc[q] \in Holding
      <4>1. call[q].experiment \in Experiments
        BY <3>2 DEF LogInv, LogTypes, EventLogCalls, Holding
      <4>2. advisory[e] = s /\ advisory[call[q].experiment] = q
        BY <1>1, <3>1, <3>2 DEF LogInv, ReadsStand, Holding
      <4>3. call[q].experiment # e
        BY <2>2, <4>2
      <4> QED
        BY <1>3, <1>4, <2>2, <3>1, <4>1, <4>2, <4>3 DEF ReadsStand, Own
    <3>3. CASE pc[q] \notin Holding
      BY <3>1, <3>3 DEF ReadsStand, Holding
    <3> QED
      BY <3>2, <3>3
  <2> QED
    BY <2>1, <2>2
<1> QED
  BY <1>6, <1>7, <1>8 DEF LogInv

\* The statements before the insert.
LEMMA ReadKeeps ==
  ASSUME LogInv, SessionAssumption, EventLogCalls, NEW s \in Sessions,
         Lock(s) \/ KeyFree(s) \/ ReadLast(s)
  PROVE  LogInv'
<1>1. /\ UNCHANGED <<rows, call>> /\ pc' = [pc EXCEPT ![s] = pc'[s]]
      /\ pc[s] # "idle"
  BY DEF Lock, KeyFree, ReadLast, Goto, At, LogInv, LogTypes
<1>2. call[s] \in Appends /\ call[s].experiment \in Experiments
  BY <1>1 DEF LogInv, LogTypes, EventLogCalls
<1>3. call' = [call EXCEPT ![s] = call'[s]]
  BY <1>1 DEF LogInv, LogTypes
<1>4. CASE Lock(s)
  <2>1. /\ pc[s] = "begun" /\ pc'[s] = "locked" /\ UNCHANGED last
        /\ advisory[call[s].experiment] = NoSession
        /\ advisory' = [advisory EXCEPT ![call[s].experiment] = s]
    BY <1>4 DEF Lock, Goto, At, LogInv, LogTypes
  <2>2. /\ advisory' \in [Experiments -> Sessions \cup {NoSession}]
        /\ advisory'[call[s].experiment] = s
        /\ \A q \in Sessions : q # s =>
             \A e \in Experiments : advisory[e] = q => advisory'[e] = q
    BY <1>2, <2>1 DEF LogInv, LogTypes, SessionAssumption
  <2>3. ReadsStand(s)'
    BY <1>1, <2>1, <2>2 DEF ReadsStand, Holding
  <2>4. last' = [last EXCEPT ![s] = last'[s]] /\ last'[s] \in Nat
    BY <2>1 DEF LogInv, LogTypes
  <2> QED
    BY <1>1, <1>2, <1>3, <2>1, <2>2, <2>3, <2>4, QuietStep DEF Pcs
<1>5. CASE KeyFree(s)
  <2>1. /\ pc[s] = "locked" /\ pc'[s] = "absent" /\ UNCHANGED <<last, advisory>>
        /\ \A r \in Own(s) : r.key # call[s].key
    BY <1>5 DEF KeyFree, Goto, At, LogInv, LogTypes
  <2>2. advisory[call[s].experiment] = s
    BY <2>1 DEF LogInv, ReadsStand, Holding
  <2>3. ReadsStand(s)'
    BY <1>1, <2>1, <2>2 DEF ReadsStand, Own, Holding
  <2>4. /\ last' = [last EXCEPT ![s] = last'[s]] /\ last'[s] \in Nat
        /\ advisory' \in [Experiments -> Sessions \cup {NoSession}]
    BY <2>1 DEF LogInv, LogTypes
  <2> QED
    BY <1>1, <1>2, <1>3, <2>1, <2>3, <2>4, QuietStep DEF Pcs
<1>6. CASE ReadLast(s)
  <2>1. /\ pc[s] = "absent" /\ pc'[s] = "numbered" /\ UNCHANGED advisory
        /\ last' = [last EXCEPT ![s] = Max({r.sequence : r \in Own(s)} \cup {0})]
    BY <1>6 DEF ReadLast, Goto, At, LogInv, LogTypes
  <2>2. Max({r.sequence : r \in Own(s)} \cup {0}) = Cardinality(Own(s))
    BY <1>2, GreatestSequence DEF Own
  <2>3. last'[s] = Cardinality(Own(s)) /\ Cardinality(Own(s)) \in Nat
    BY <1>2, <2>1, <2>2, FS_CardinalityType DEF LogInv, LogTypes, Own
  <2>4. advisory[call[s].experiment] = s /\ \A r \in Own(s) : r.key # call[s].key
    BY <2>1 DEF LogInv, ReadsStand, Holding
  <2>5. ReadsStand(s)'
    BY <1>1, <2>1, <2>3, <2>4 DEF ReadsStand, Own, Holding
  <2>6. /\ last' = [last EXCEPT ![s] = last'[s]]
        /\ advisory' \in [Experiments -> Sessions \cup {NoSession}]
    BY <2>1 DEF LogInv, LogTypes
  <2> QED
    BY <1>1, <1>2, <1>3, <2>1, <2>3, <2>5, <2>6, QuietStep DEF Pcs
<1> QED
  BY <1>4, <1>5, <1>6

LEMMA BeginKeeps ==
  ASSUME LogInv, SessionAssumption, EventLogCalls, NEW s \in Sessions, NEW c \in Appends,
         Begin(s, c), UNCHANGED <<rows, advisory, last>>
  PROVE  LogInv'
<1>1. /\ pc' = [pc EXCEPT ![s] = "begun"] /\ call' = [call EXCEPT ![s] = c]
  BY DEF Begin
<1>2. pc'[s] = "begun" /\ call'[s] = c /\ last'[s] \in Nat
  BY <1>1 DEF LogInv, LogTypes
<1>3. ReadsStand(s)'
  BY <1>2 DEF ReadsStand, Holding
<1>4. /\ last' = [last EXCEPT ![s] = last'[s]]
      /\ advisory' \in [Experiments -> Sessions \cup {NoSession}]
  BY DEF LogInv, LogTypes
<1> QED
  BY <1>1, <1>2, <1>3, <1>4, QuietStep DEF Pcs

LEMMA LogInvStarts ==
  ASSUME SessionAssumption, LogInit
  PROVE  LogInv
<1>1. Cardinality({}) = 0 /\ IsFiniteSet({})
  BY FS_EmptySet
<1> QED
  BY <1>1 DEF LogInit, EventsInit, SessionInit, LogInv, LogTypes, Numbered, ReadsStand, Own, Holding,
     EventRows, Pcs

LEMMA LogInvKept ==
  ASSUME SessionAssumption, EventLogCalls, LogInv, [LogNext]_logVars
  PROVE  LogInv'
<1>1. CASE UNCHANGED logVars
  BY <1>1 DEF logVars, sessionVars, LogInv, LogTypes, Numbered, ReadsStand, Own
<1>2. ASSUME NEW s \in Sessions, NEW c \in Appends, Begin(s, c), UNCHANGED <<rows, advisory, last>>
      PROVE  LogInv'
  BY <1>2, BeginKeeps
<1>3. ASSUME NEW s \in Sessions, Lock(s) \/ KeyFree(s) \/ ReadLast(s) PROVE LogInv'
  BY <1>3, ReadKeeps
<1>4. ASSUME NEW s \in Sessions, InsertEvent(s) PROVE LogInv'
  BY <1>4, InsertKeeps
<1>5. ASSUME NEW s \in Sessions, KeyStored(s) \/ AbortAppend(s) PROVE LogInv'
  BY <1>5, LeaveKeeps DEF KeyStored, AbortAppend
<1> QED
  BY <1>1, <1>2, <1>3, <1>4, <1>5 DEF LogNext, AppendStatement

\* An insert is the only step that writes, and it writes the next event.
LEMMA StepAppends ==
  ASSUME SessionAssumption, EventLogCalls, LogInv, [LogNext]_logVars,
         NEW e \in Experiments, rows'[e] # rows[e]
  PROVE  \E r \in rows'[e] :
           /\ rows'[e] = rows[e] \cup {r}
           /\ r.sequence = Cardinality(rows[e]) + 1
           /\ \A q \in rows[e] : q.key # r.key /\ q.sequence <= Cardinality(rows[e])
<1>1. PICK s \in Sessions : InsertEvent(s)
  BY DEF LogNext, AppendStatement, logVars, Lock, KeyStored, KeyFree, ReadLast, AbortAppend, LeaveAppend
<1>2. PICK r \in EventRows :
        /\ call[s].experiment \in Experiments
        /\ rows' = [rows EXCEPT ![call[s].experiment] = @ \cup {r}]
        /\ r.sequence = Cardinality(rows[call[s].experiment]) + 1
        /\ \A q \in rows[call[s].experiment] : q.key # r.key
  BY <1>1, NextEvent
<1>3. e = call[s].experiment /\ rows'[e] = rows[e] \cup {r}
  BY <1>2 DEF LogInv, LogTypes
<1>4. \A q \in rows[e] : q.sequence <= Cardinality(rows[e])
  BY DEF LogInv, Numbered
<1> QED
  BY <1>2, <1>3, <1>4

\* For any sessions and calls, an experiment's events are committed one at a time, with
\* the next number and a new key, so that a reader sees a prefix without gaps (append,
\* test_events_are_idempotent_and_append_only).
THEOREM EventsAppendInOrder ==
  ASSUME SessionAssumption, EventLogCalls
  PROVE  LogSpec => AppendsInOrder
<1>1. LogInit => LogInv
  BY LogInvStarts
<1>2. LogInv /\ [LogNext]_logVars => LogInv'
  BY LogInvKept
<1>3. LogInv /\ [LogNext]_logVars =>
        [\A e \in Experiments :
           rows'[e] # rows[e] =>
             \E r \in rows'[e] :
               /\ rows'[e] = rows[e] \cup {r}
               /\ r.sequence = Cardinality(rows[e]) + 1
               /\ \A q \in rows[e] : q.key # r.key /\ q.sequence <= Cardinality(rows[e])]_logVars
  BY StepAppends
<1> QED
  BY <1>1, <1>2, <1>3, PTL DEF LogSpec, AppendsInOrder

\* The table's constraints never refuse an append, whoever else appends (append,
\* pg_advisory_xact_lock).
THEOREM InsertsAccepted ==
  ASSUME SessionAssumption, EventLogCalls
  PROVE  LogSpec => []InsertAccepted
<1>1. LogInit => LogInv
  BY LogInvStarts
<1>2. LogInv /\ [LogNext]_logVars => LogInv'
  BY LogInvKept
<1>3. LogInv => InsertAccepted
  <2> SUFFICES ASSUME LogInv, NEW s \in Sessions, At(s, "numbered", "append"), Refused(s)
               PROVE  FALSE
    BY DEF InsertAccepted
  <2>1. pc[s] = "numbered" /\ call[s].experiment \in Experiments
    BY DEF At, LogInv, LogTypes, EventLogCalls
  <2>2. PICK r \in Own(s) : r.sequence = last[s] + 1 \/ r.key = call[s].key
    BY DEF Refused
  <2>3. last[s] = Cardinality(Own(s)) /\ r.key # call[s].key
    BY <2>1, <2>2 DEF LogInv, ReadsStand
  <2>4. r.sequence \in Nat /\ r.sequence <= Cardinality(Own(s)) /\ Cardinality(Own(s)) \in Nat
    BY <2>1, <2>2, FS_CardinalityType DEF LogInv, LogTypes, Numbered, Own, EventRows
  <2> QED
    BY <2>2, <2>3, <2>4
<1> QED
  BY <1>1, <1>2, <1>3, PTL DEF LogSpec

-----------------------------------------------------------------------------
(* Commands and their outbox rows *)

EnqueuePcs == {"idle", "begun", "inserted", "taken", "read"}

AnswerRows == [slot : Slots, content : Contents, id : Nat]

OutboxTypes ==
  /\ commands \in [Slots -> CommandRows \cup {NoRow}]
  /\ inserting \in [Slots -> Sessions \cup {NoSession}]
  /\ nextId \in Nat
  /\ found \in [Sessions -> Nat]
  /\ answers \in SUBSET AnswerRows
  /\ pc \in [Sessions -> EnqueuePcs]
  /\ call \in [Sessions -> Enqueues \cup {NoCall}]
  /\ \A s \in Sessions : pc[s] # "idle" => call[s] \in Enqueues

\* An open insert keeps its slot free for itself; a row found under the key stays.
FindStands(s) ==
  /\ pc[s] = "inserted" => inserting[call[s].slot] = s /\ commands[call[s].slot] = NoRow
  /\ pc[s] = "read" =>
       commands[call[s].slot] = [id |-> found[s], content |-> call[s].content]

OutboxInv ==
  /\ OutboxTypes
  /\ \A s \in Sessions : FindStands(s)
  /\ CommandsAnnounced
  /\ AnswersStand

\* A step of s that commits nothing keeps the invariant when it keeps the types and
\* what s itself has found.
LEMMA QuietEnqueue ==
  ASSUME OutboxInv, SessionAssumption, OutboxCalls, NEW s \in Sessions,
         UNCHANGED <<commands, outbox, answers>>,
         pc' = [pc EXCEPT ![s] = pc'[s]], pc'[s] \in EnqueuePcs,
         call' = [call EXCEPT ![s] = call'[s]], call'[s] \in Enqueues \cup {NoCall},
         pc'[s] # "idle" => call'[s] \in Enqueues,
         found' = [found EXCEPT ![s] = found'[s]], found'[s] \in Nat,
         inserting' \in [Slots -> Sessions \cup {NoSession}], nextId' \in Nat,
         \A q \in Sessions : q # s =>
           \A k \in Slots : inserting[k] = q => inserting'[k] = q,
         FindStands(s)'
  PROVE  OutboxInv'
<1>1. OutboxTypes'
  BY DEF OutboxInv, OutboxTypes
<1>2. ASSUME NEW q \in Sessions PROVE FindStands(q)'
  <2>1. CASE q = s
    BY <2>1
  <2>2. CASE q # s
    <3>1. /\ pc'[q] = pc[q] /\ call'[q] = call[q] /\ found'[q] = found[q]
          /\ FindStands(q)
      BY <2>2 DEF OutboxInv, OutboxTypes
    <3>2. pc[q] # "idle" => call[q].slot \in Slots
      BY DEF OutboxInv, OutboxTypes, OutboxCalls
    <3> QED
      BY <2>2, <3>1, <3>2 DEF FindStands
  <2> QED
    BY <2>1, <2>2
<1>3. CommandsAnnounced' /\ AnswersStand'
  BY DEF OutboxInv, CommandsAnnounced, AnswersStand
<1> QED
  BY <1>1, <1>2, <1>3 DEF OutboxInv

\* The end of an enqueue transaction.
LEMMA EnqueueClosed ==
  ASSUME OutboxInv, SessionAssumption, NEW s \in Sessions, CloseEnqueue(s)
  PROVE  /\ pc' = [pc EXCEPT ![s] = "idle"] /\ call' = [call EXCEPT ![s] = NoCall]
         /\ found' = [found EXCEPT ![s] = 0]
         /\ inserting' \in [Slots -> Sessions \cup {NoSession}]
         /\ \A q \in Sessions : q # s =>
              \A k \in Slots : inserting[k] = q => inserting'[k] = q
         /\ pc'[s] = "idle" /\ call'[s] = NoCall /\ found'[s] = 0
  BY DEF OutboxInv, OutboxTypes, CloseEnqueue, End, SessionAssumption

LEMMA EnqueueLeaves ==
  ASSUME OutboxInv, SessionAssumption, OutboxCalls, NEW s \in Sessions, LeaveEnqueue(s)
  PROVE  OutboxInv'
<1>1. CloseEnqueue(s) /\ UNCHANGED <<commands, outbox, nextId, answers>>
  BY DEF LeaveEnqueue
<1>2. /\ pc' = [pc EXCEPT ![s] = "idle"] /\ call' = [call EXCEPT ![s] = NoCall]
      /\ found' = [found EXCEPT ![s] = 0]
      /\ inserting' \in [Slots -> Sessions \cup {NoSession}]
      /\ \A q \in Sessions : q # s =>
           \A k \in Slots : inserting[k] = q => inserting'[k] = q
      /\ pc'[s] = "idle" /\ call'[s] = NoCall /\ found'[s] = 0
  BY <1>1, EnqueueClosed
<1>3. FindStands(s)'
  BY <1>2 DEF FindStands
<1>4. nextId' \in Nat
  BY <1>1 DEF OutboxInv, OutboxTypes
<1>5. pc' = [pc EXCEPT ![s] = pc'[s]]
  BY <1>2
<1>6. call' = [call EXCEPT ![s] = call'[s]]
  BY <1>2
<1>7. found' = [found EXCEPT ![s] = found'[s]]
  BY <1>2
<1>8. UNCHANGED <<commands, outbox, answers>>
  BY <1>1
<1>9. /\ pc'[s] \in EnqueuePcs /\ call'[s] \in Enqueues \cup {NoCall} /\ found'[s] \in Nat
      /\ pc'[s] # "idle" => call'[s] \in Enqueues
  BY <1>2 DEF EnqueuePcs
<1> QED
  BY <1>2, <1>3, <1>4, <1>5, <1>6, <1>7, <1>8, <1>9, QuietEnqueue

\* The statements before the commit.
LEMMA FindKeeps ==
  ASSUME OutboxInv, SessionAssumption, OutboxCalls, NEW s \in Sessions,
         InsertCommand(s) \/ ReadTaken(s)
  PROVE  OutboxInv'
<1>1. /\ UNCHANGED <<commands, outbox, answers, call>> /\ pc[s] # "idle"
      /\ pc' = [pc EXCEPT ![s] = pc'[s]]
  BY DEF InsertCommand, ReadTaken, Goto, At, OutboxInv, OutboxTypes
<1>2. call[s] \in Enqueues /\ call[s].slot \in Slots
  BY <1>1 DEF OutboxInv, OutboxTypes, OutboxCalls
<1>3. call' = [call EXCEPT ![s] = call'[s]]
  BY <1>1 DEF OutboxInv, OutboxTypes
<1>4. UNCHANGED <<commands, outbox, answers>> /\ call'[s] \in Enqueues
  BY <1>1, <1>2
<1>5. CASE InsertCommand(s)
  <2>1. nextId \in Nat /\ nextId' = nextId + 1 /\ inserting[call[s].slot] = NoSession
    BY <1>5 DEF InsertCommand, OutboxInv, OutboxTypes
  <2>2. CASE commands[call[s].slot] = NoRow
    <3>1. /\ inserting' = [inserting EXCEPT ![call[s].slot] = s]
          /\ found' = [found EXCEPT ![s] = nextId] /\ pc'[s] = "inserted"
      BY <1>5, <2>2 DEF InsertCommand, Goto, OutboxInv, OutboxTypes
    <3>2. /\ inserting' \in [Slots -> Sessions \cup {NoSession}]
          /\ inserting'[call[s].slot] = s
          /\ \A q \in Sessions : q # s =>
               \A k \in Slots : inserting[k] = q => inserting'[k] = q
      BY <1>2, <2>1, <3>1 DEF OutboxInv, OutboxTypes, SessionAssumption
    <3>3. FindStands(s)'
      BY <1>1, <2>2, <3>1, <3>2 DEF FindStands
    <3>4. found' = [found EXCEPT ![s] = found'[s]] /\ found'[s] \in Nat
      BY <2>1, <3>1 DEF OutboxInv, OutboxTypes
    <3>5. pc'[s] \in EnqueuePcs /\ nextId' \in Nat
      BY <2>1, <3>1 DEF EnqueuePcs
    <3> QED
      BY <1>1, <1>3, <1>4, <3>2, <3>3, <3>4, <3>5, QuietEnqueue
  <2>3. CASE commands[call[s].slot] # NoRow
    <3>1. pc'[s] = "taken" /\ UNCHANGED <<inserting, found>>
      BY <1>5, <2>3 DEF InsertCommand, Goto, OutboxInv, OutboxTypes
    <3>2. FindStands(s)'
      BY <3>1 DEF FindStands
    <3>3. /\ found' = [found EXCEPT ![s] = found'[s]] /\ found'[s] \in Nat
          /\ inserting' \in [Slots -> Sessions \cup {NoSession}]
      BY <3>1 DEF OutboxInv, OutboxTypes
    <3>4. pc'[s] \in EnqueuePcs /\ nextId' \in Nat
      BY <2>1, <3>1 DEF EnqueuePcs
    <3> QED
      BY <1>1, <1>3, <1>4, <3>1, <3>2, <3>3, <3>4, QuietEnqueue
  <2> QED
    BY <2>2, <2>3
<1>6. CASE ReadTaken(s)
  <2>1. /\ pc'[s] = "read" /\ UNCHANGED <<inserting, nextId>>
        /\ commands[call[s].slot] # NoRow
        /\ commands[call[s].slot].content = call[s].content
        /\ found' = [found EXCEPT ![s] = commands[call[s].slot].id]
    BY <1>6 DEF ReadTaken, SameContent, Goto, OutboxInv, OutboxTypes
  <2>2. commands[call[s].slot] \in CommandRows
    BY <1>2, <2>1 DEF OutboxInv, OutboxTypes
  <2>3. found'[s] = commands[call[s].slot].id /\ found'[s] \in Nat
    BY <2>1, <2>2 DEF OutboxInv, OutboxTypes, CommandRows
  <2>4. FindStands(s)'
    BY <1>1, <2>1, <2>2, <2>3 DEF FindStands, CommandRows
  <2>5. /\ found' = [found EXCEPT ![s] = found'[s]] /\ nextId' \in Nat
        /\ inserting' \in [Slots -> Sessions \cup {NoSession}]
    BY <2>1, <2>3 DEF OutboxInv, OutboxTypes
  <2>6. pc'[s] \in EnqueuePcs
    BY <2>1 DEF EnqueuePcs
  <2> QED
    BY <1>1, <1>3, <1>4, <2>1, <2>3, <2>4, <2>5, <2>6, QuietEnqueue
<1> QED
  BY <1>5, <1>6

\* The commit of a new command: nothing was in its slot, and its outbox row comes with it.
LEMMA CommitKeeps ==
  ASSUME OutboxInv, SessionAssumption, OutboxCalls, NEW s \in Sessions, CommitCommand(s)
  PROVE  OutboxInv'
<1> DEFINE k == call[s].slot
           new == [id |-> found[s], content |-> call[s].content]
<1>1. /\ pc[s] = "inserted" /\ call[s] \in Enqueues /\ CloseEnqueue(s)
      /\ commands' = [commands EXCEPT ![k] = new]
      /\ outbox' = outbox \cup {found[s]}
      /\ answers' = answers \cup {[slot |-> k, content |-> call[s].content, id |-> found[s]]}
      /\ nextId' = nextId
  BY DEF CommitCommand, Returned, At, OutboxInv, OutboxTypes
<1>2. k \in Slots /\ call[s].content \in Contents /\ found[s] \in Nat
  BY <1>1 DEF OutboxInv, OutboxTypes, OutboxCalls
<1>3. new \in CommandRows /\ new # NoRow
  BY <1>2 DEF CommandRows, OutboxCalls
<1>4. inserting[k] = s /\ commands[k] = NoRow
  BY <1>1 DEF OutboxInv, FindStands
<1>5. commands'[k] = new /\ \A j \in Slots : j # k => commands'[j] = commands[j]
  BY <1>1, <1>2 DEF OutboxInv, OutboxTypes
<1>6. /\ pc' = [pc EXCEPT ![s] = "idle"] /\ call' = [call EXCEPT ![s] = NoCall]
      /\ found' = [found EXCEPT ![s] = 0]
      /\ inserting' \in [Slots -> Sessions \cup {NoSession}]
      /\ \A q \in Sessions : q # s =>
           \A j \in Slots : inserting[j] = q => inserting'[j] = q
      /\ pc'[s] = "idle" /\ call'[s] = NoCall /\ found'[s] = 0
  BY <1>1, EnqueueClosed
<1>7. OutboxTypes'
  <2>1. commands' \in [Slots -> CommandRows \cup {NoRow}] /\ nextId' \in Nat
    BY <1>1, <1>3 DEF OutboxInv, OutboxTypes
  <2>2. answers' \in SUBSET AnswerRows
    BY <1>1, <1>2 DEF OutboxInv, OutboxTypes, AnswerRows
  <2>3. /\ pc' \in [Sessions -> EnqueuePcs] /\ found' \in [Sessions -> Nat]
        /\ call' \in [Sessions -> Enqueues \cup {NoCall}]
        /\ \A q \in Sessions : pc'[q] # "idle" => call'[q] \in Enqueues
    BY <1>6 DEF OutboxInv, OutboxTypes, EnqueuePcs
  <2> QED
    BY <1>6, <2>1, <2>2, <2>3 DEF OutboxTypes
<1>8. ASSUME NEW q \in Sessions PROVE FindStands(q)'
  <2>1. CASE q = s
    BY <1>6, <2>1 DEF FindStands
  <2>2. CASE q # s
    <3>1. pc'[q] = pc[q] /\ call'[q] = call[q] /\ found'[q] = found[q] /\ FindStands(q)
      BY <1>6, <2>2 DEF OutboxInv, OutboxTypes
    <3>2. pc[q] # "idle" => call[q].slot \in Slots /\ call[q].content \in Contents
      BY DEF OutboxInv, OutboxTypes, OutboxCalls
    <3>3. CASE pc[q] = "inserted"
      <4>1. inserting[call[q].slot] = q /\ call[q].slot # k
        BY <1>4, <2>2, <3>1, <3>3 DEF FindStands
      <4> QED
        BY <1>5, <1>6, <2>2, <3>1, <3>2, <3>3, <4>1 DEF FindStands
    <3>4. CASE pc[q] = "read"
      <4>1. [id |-> found[q], content |-> call[q].content] \in CommandRows
        BY <3>2, <3>4 DEF OutboxInv, OutboxTypes, CommandRows
      <4>2. call[q].slot # k
        BY <1>4, <3>1, <3>4, <4>1 DEF FindStands, OutboxCalls
      <4> QED
        BY <1>5, <3>1, <3>2, <3>4, <4>2 DEF FindStands
    <3>5. CASE pc[q] \notin {"inserted", "read"}
      BY <3>1, <3>5 DEF FindStands
    <3> QED
      BY <3>3, <3>4, <3>5
  <2> QED
    BY <2>1, <2>2
<1>9. CommandsAnnounced'
  <2>1. {q \in Slots : commands'[q] # NoRow} = {q \in Slots : commands[q] # NoRow} \cup {k}
    BY <1>2, <1>3, <1>5
  <2>2. \A q \in Slots : commands[q] # NoRow => q # k
    BY <1>4
  <2>3. {commands'[q].id : q \in {j \in Slots : commands'[j] # NoRow}}
          = {commands[q].id : q \in {j \in Slots : commands[j] # NoRow}} \cup {found[s]}
    BY <1>2, <1>5, <2>1, <2>2
  <2> QED
    BY <1>1, <2>3 DEF OutboxInv, CommandsAnnounced
<1>10. AnswersStand'
  <2> SUFFICES ASSUME NEW a \in answers'
               PROVE  commands'[a.slot] = [id |-> a.id, content |-> a.content]
    BY DEF AnswersStand
  <2>1. CASE a \in answers
    <3>1. /\ a.slot \in Slots /\ [id |-> a.id, content |-> a.content] \in CommandRows
          /\ commands[a.slot] = [id |-> a.id, content |-> a.content]
      BY <2>1 DEF OutboxInv, OutboxTypes, AnswersStand, AnswerRows, CommandRows
    <3>2. a.slot # k
      BY <1>4, <3>1 DEF OutboxCalls
    <3> QED
      BY <1>5, <3>1, <3>2
  <2>2. CASE a \notin answers
    <3>1. a = [slot |-> k, content |-> call[s].content, id |-> found[s]]
      BY <1>1, <2>2
    <3> QED
      BY <1>5, <3>1
  <2> QED
    BY <2>1, <2>2
<1> QED
  BY <1>7, <1>8, <1>9, <1>10 DEF OutboxInv

\* A repeated call announces and answers what its slot holds already.
LEMMA RepeatKeeps ==
  ASSUME OutboxInv, SessionAssumption, OutboxCalls, NEW s \in Sessions, CommitRepeated(s)
  PROVE  OutboxInv'
<1> DEFINE k == call[s].slot
           new == [slot |-> k, content |-> call[s].content, id |-> found[s]]
<1>1. /\ pc[s] = "read" /\ call[s] \in Enqueues /\ CloseEnqueue(s)
      /\ UNCHANGED <<commands, nextId>>
      /\ outbox' = outbox \cup {found[s]} /\ answers' = answers \cup {new}
  BY DEF CommitRepeated, Returned, At, OutboxInv, OutboxTypes
<1>2. k \in Slots /\ call[s].content \in Contents /\ found[s] \in Nat
  BY <1>1 DEF OutboxInv, OutboxTypes, OutboxCalls
<1>3. commands[k] = [id |-> found[s], content |-> call[s].content]
  BY <1>1 DEF OutboxInv, FindStands
<1>4. outbox' = outbox
  <2>1. commands[k] # NoRow
    BY <1>2, <1>3 DEF OutboxCalls, CommandRows
  <2>2. found[s] \in outbox
    BY <1>2, <1>3, <2>1 DEF OutboxInv, CommandsAnnounced
  <2> QED
    BY <1>1, <2>2
<1>5. /\ pc' = [pc EXCEPT ![s] = "idle"] /\ call' = [call EXCEPT ![s] = NoCall]
      /\ found' = [found EXCEPT ![s] = 0]
      /\ inserting' \in [Slots -> Sessions \cup {NoSession}]
      /\ pc'[s] = "idle" /\ call'[s] = NoCall /\ found'[s] = 0
      /\ \A q \in Sessions : q # s =>
           \A j \in Slots : inserting[j] = q => inserting'[j] = q
  BY <1>1, EnqueueClosed
<1>6. OutboxTypes'
  <2>1. answers' \in SUBSET AnswerRows
    BY <1>1, <1>2 DEF OutboxInv, OutboxTypes, AnswerRows
  <2>2. /\ pc' \in [Sessions -> EnqueuePcs] /\ found' \in [Sessions -> Nat]
        /\ call' \in [Sessions -> Enqueues \cup {NoCall}]
        /\ \A q \in Sessions : pc'[q] # "idle" => call'[q] \in Enqueues
    BY <1>5 DEF OutboxInv, OutboxTypes, EnqueuePcs
  <2> QED
    BY <1>1, <1>5, <2>1, <2>2 DEF OutboxInv, OutboxTypes
<1>7. ASSUME NEW q \in Sessions PROVE FindStands(q)'
  <2>1. CASE q = s
    BY <1>5, <2>1 DEF FindStands
  <2>2. CASE q # s
    <3>1. pc'[q] = pc[q] /\ call'[q] = call[q] /\ found'[q] = found[q] /\ FindStands(q)
      BY <1>5, <2>2 DEF OutboxInv, OutboxTypes
    <3>2. pc[q] # "idle" => call[q].slot \in Slots
      BY DEF OutboxInv, OutboxTypes, OutboxCalls
    <3> QED
      BY <1>1, <1>5, <2>2, <3>1, <3>2 DEF FindStands
  <2> QED
    BY <2>1, <2>2
<1>8. CommandsAnnounced' /\ AnswersStand'
  BY <1>1, <1>3, <1>4 DEF OutboxInv, CommandsAnnounced, AnswersStand
<1> QED
  BY <1>6, <1>7, <1>8 DEF OutboxInv

LEMMA EnqueueBegins ==
  ASSUME OutboxInv, SessionAssumption, OutboxCalls, NEW s \in Sessions, NEW c \in Enqueues,
         Begin(s, c), UNCHANGED <<commands, outbox, inserting, nextId, found, answers>>
  PROVE  OutboxInv'
<1>1. pc' = [pc EXCEPT ![s] = "begun"] /\ call' = [call EXCEPT ![s] = c]
  BY DEF Begin
<1>2. pc'[s] = "begun" /\ call'[s] = c
  BY <1>1 DEF OutboxInv, OutboxTypes
<1>3. FindStands(s)'
  BY <1>2 DEF FindStands
<1>4. pc' = [pc EXCEPT ![s] = pc'[s]] /\ call' = [call EXCEPT ![s] = call'[s]]
  BY <1>1, <1>2
<1>5. /\ found' = [found EXCEPT ![s] = found'[s]] /\ found'[s] \in Nat /\ nextId' \in Nat
      /\ inserting' \in [Slots -> Sessions \cup {NoSession}]
  BY DEF OutboxInv, OutboxTypes
<1>6. /\ pc'[s] \in EnqueuePcs /\ call'[s] \in Enqueues \cup {NoCall}
      /\ pc'[s] # "idle" => call'[s] \in Enqueues
  BY <1>2 DEF EnqueuePcs
<1> QED
  BY <1>3, <1>4, <1>5, <1>6, QuietEnqueue

LEMMA OutboxInvStarts ==
  ASSUME SessionAssumption, OutboxInit
  PROVE  OutboxInv
<1>1. OutboxTypes
  BY DEF OutboxInit, CommandsInit, SessionInit, OutboxTypes, EnqueuePcs
<1>2. \A s \in Sessions : FindStands(s)
  BY DEF OutboxInit, SessionInit, FindStands
<1>3. CommandsAnnounced
  <2>1. {q \in Slots : commands[q] # NoRow} = {}
    BY DEF OutboxInit, CommandsInit
  <2> QED
    BY <2>1 DEF OutboxInit, CommandsInit, CommandsAnnounced
<1>4. AnswersStand
  BY DEF OutboxInit, CommandsInit, AnswersStand
<1> QED
  BY <1>1, <1>2, <1>3, <1>4 DEF OutboxInv

LEMMA OutboxInvKept ==
  ASSUME SessionAssumption, OutboxCalls, OutboxInv, [OutboxNext]_outboxVars
  PROVE  OutboxInv'
<1>1. CASE UNCHANGED outboxVars
  BY <1>1 DEF outboxVars, sessionVars, OutboxInv, OutboxTypes, FindStands, CommandsAnnounced,
     AnswersStand
<1>2. ASSUME NEW s \in Sessions, NEW c \in Enqueues, Begin(s, c),
             UNCHANGED <<commands, outbox, inserting, nextId, found, answers>>
      PROVE  OutboxInv'
  BY <1>2, EnqueueBegins
<1>3. ASSUME NEW s \in Sessions, InsertCommand(s) \/ ReadTaken(s) PROVE OutboxInv'
  BY <1>3, FindKeeps
<1>4. ASSUME NEW s \in Sessions, CommitCommand(s) PROVE OutboxInv'
  BY <1>4, CommitKeeps
<1>5. ASSUME NEW s \in Sessions, CommitRepeated(s) PROVE OutboxInv'
  BY <1>5, RepeatKeeps
<1>6. ASSUME NEW s \in Sessions, ContentConflict(s) \/ AbortEnqueue(s) PROVE OutboxInv'
  BY <1>6, EnqueueLeaves DEF ContentConflict, AbortEnqueue
<1> QED
  BY <1>1, <1>2, <1>3, <1>4, <1>5, <1>6 DEF OutboxNext, EnqueueStatement

\* For any sessions and calls, committed commands and outbox rows are the same set,
\* wherever a connection is lost (enqueue_command, test_command_and_outbox_commit_together).
THEOREM CommandsAlwaysAnnounced ==
  ASSUME SessionAssumption, OutboxCalls
  PROVE  OutboxSpec => []CommandsAnnounced
<1>1. OutboxInit => OutboxInv
  BY OutboxInvStarts
<1>2. OutboxInv /\ [OutboxNext]_outboxVars => OutboxInv'
  BY OutboxInvKept
<1>3. OutboxInv => CommandsAnnounced
  BY DEF OutboxInv
<1> QED
  BY <1>1, <1>2, <1>3, PTL DEF OutboxSpec

\* For any sessions and calls, an id that enqueue_command returned is for good the id of
\* the command under the key, with the content the caller asked for.
THEOREM AnswersAlwaysStand ==
  ASSUME SessionAssumption, OutboxCalls
  PROVE  OutboxSpec => []AnswersStand
<1>1. OutboxInit => OutboxInv
  BY OutboxInvStarts
<1>2. OutboxInv /\ [OutboxNext]_outboxVars => OutboxInv'
  BY OutboxInvKept
<1>3. OutboxInv => AnswersStand
  BY DEF OutboxInv
<1> QED
  BY <1>1, <1>2, <1>3, PTL DEF OutboxSpec

-----------------------------------------------------------------------------
(* Reviews and decisions *)

ReviewPcs == {"idle", "begun", "inserted", "checked"}

ReviewTypes ==
  /\ reviews \in [ReviewIds -> ReviewRows \cup {NoReview}]
  /\ drawn \in [Sessions -> Nat]
  /\ nextReview \in Nat
  /\ accepted \in SUBSET ReviewOps
  /\ pc \in [Sessions -> ReviewPcs]
  /\ call \in [Sessions -> ReviewOps \cup {NoCall}]
  /\ \A s \in Sessions : pc[s] # "idle" => call[s] \in ReviewOps

\* An id that was drawn is free until its review is committed, and each insert has its own;
\* a review that was checked is still about the question of the decision.
DrawStands(s) ==
  /\ pc[s] = "inserted" =>
       /\ drawn[s] < nextReview
       /\ drawn[s] \in ReviewIds => reviews[drawn[s]] = NoReview
       /\ \A q \in Sessions : q # s /\ pc[q] = "inserted" => drawn[q] # drawn[s]
  /\ pc[s] = "checked" =>
       /\ reviews[call[s].review] # NoReview
       /\ reviews[call[s].review].question = call[s].question

ReviewInv ==
  /\ ReviewTypes
  /\ \A i \in ReviewIds : i >= nextReview => reviews[i] = NoReview
  /\ \A s \in Sessions : DrawStands(s)
  /\ DecisionsStand

\* What a call names is in the tables' domains.
LEMMA ReviewCalled ==
  ASSUME ReviewInv, ReviewCalls, NEW s \in Sessions, pc[s] # "idle"
  PROVE  /\ call[s] \in ReviewOps /\ call[s].review \in ReviewIds
         /\ call[s].question \in Questions /\ call[s].decision \in Decisions
  BY DEF ReviewInv, ReviewTypes, ReviewCalls

\* A step of s that stores nothing and draws no id.
LEMMA QuietReview ==
  ASSUME ReviewInv, ReviewCalls, NEW s \in Sessions,
         UNCHANGED <<reviews, nextReview, accepted>>,
         pc' = [pc EXCEPT ![s] = pc'[s]], pc'[s] \in ReviewPcs \ {"inserted"},
         call' = [call EXCEPT ![s] = call'[s]], call'[s] \in ReviewOps \cup {NoCall},
         pc'[s] # "idle" => call'[s] \in ReviewOps,
         drawn' = [drawn EXCEPT ![s] = drawn'[s]], drawn'[s] \in Nat,
         DrawStands(s)'
  PROVE  ReviewInv'
<1>1. ReviewTypes'
  BY DEF ReviewInv, ReviewTypes
<1>2. ASSUME NEW q \in Sessions PROVE DrawStands(q)'
  <2>1. CASE q = s
    BY <2>1
  <2>2. CASE q # s
    <3>1. /\ pc'[q] = pc[q] /\ call'[q] = call[q] /\ drawn'[q] = drawn[q] /\ DrawStands(q)
          /\ \A p \in Sessions : pc'[p] = "inserted" => pc[p] = "inserted" /\ drawn'[p] = drawn[p]
      BY <2>2 DEF ReviewInv, ReviewTypes
    <3> QED
      BY <3>1 DEF DrawStands
  <2> QED
    BY <2>1, <2>2
<1>3. DecisionsStand' /\ \A i \in ReviewIds : i >= nextReview' => reviews'[i] = NoReview
  BY DEF ReviewInv, DecisionsStand
<1> QED
  BY <1>1, <1>2, <1>3 DEF ReviewInv

LEMMA ReviewLeaves ==
  ASSUME ReviewInv, ReviewCalls, NEW s \in Sessions, LeaveReview(s)
  PROVE  ReviewInv'
<1>1. /\ pc' = [pc EXCEPT ![s] = "idle"] /\ call' = [call EXCEPT ![s] = NoCall]
      /\ drawn' = [drawn EXCEPT ![s] = 0] /\ UNCHANGED <<reviews, nextReview, accepted>>
  BY DEF LeaveReview, End
<1>2. pc'[s] = "idle" /\ call'[s] = NoCall /\ drawn'[s] = 0
  BY <1>1 DEF ReviewInv, ReviewTypes
<1>3. DrawStands(s)'
  BY <1>2 DEF DrawStands
<1>4. /\ pc' = [pc EXCEPT ![s] = pc'[s]] /\ call' = [call EXCEPT ![s] = call'[s]]
      /\ drawn' = [drawn EXCEPT ![s] = drawn'[s]]
  BY <1>1, <1>2
<1>5. /\ pc'[s] \in ReviewPcs \ {"inserted"} /\ call'[s] \in ReviewOps \cup {NoCall}
      /\ pc'[s] # "idle" => call'[s] \in ReviewOps
      /\ drawn'[s] \in Nat
  BY <1>2 DEF ReviewPcs
<1> QED
  BY <1>1, <1>3, <1>4, <1>5, QuietReview

LEMMA ReadKeepsReviews ==
  ASSUME ReviewInv, ReviewCalls, NEW s \in Sessions, ReadReview(s)
  PROVE  ReviewInv'
<1>1. /\ pc[s] = "begun" /\ pc' = [pc EXCEPT ![s] = "checked"] /\ AboutReview(s)
      /\ UNCHANGED <<call, reviews, drawn, nextReview, accepted>>
  BY DEF ReadReview, At, Goto
<1>2. pc'[s] = "checked" /\ call[s] \in ReviewOps
  BY <1>1 DEF ReviewInv, ReviewTypes
<1>3. DrawStands(s)'
  BY <1>1, <1>2 DEF DrawStands, AboutReview
<1>4. /\ pc' = [pc EXCEPT ![s] = pc'[s]] /\ call' = [call EXCEPT ![s] = call'[s]]
      /\ drawn' = [drawn EXCEPT ![s] = drawn'[s]]
  BY <1>1, <1>2 DEF ReviewInv, ReviewTypes
<1>5. /\ pc'[s] \in ReviewPcs \ {"inserted"} /\ call'[s] \in ReviewOps \cup {NoCall}
      /\ pc'[s] # "idle" => call'[s] \in ReviewOps
      /\ drawn'[s] \in Nat
  BY <1>1, <1>2 DEF ReviewPcs, ReviewInv, ReviewTypes
<1> QED
  BY <1>1, <1>3, <1>4, <1>5, QuietReview

LEMMA BeginKeepsReviews ==
  ASSUME ReviewInv, ReviewCalls, NEW s \in Sessions, NEW c \in ReviewOps, Begin(s, c),
         UNCHANGED <<reviews, drawn, nextReview, accepted>>
  PROVE  ReviewInv'
<1>1. pc' = [pc EXCEPT ![s] = "begun"] /\ call' = [call EXCEPT ![s] = c]
  BY DEF Begin
<1>2. pc'[s] = "begun" /\ call'[s] = c
  BY <1>1 DEF ReviewInv, ReviewTypes
<1>3. DrawStands(s)'
  BY <1>2 DEF DrawStands
<1>4. /\ pc' = [pc EXCEPT ![s] = pc'[s]] /\ call' = [call EXCEPT ![s] = call'[s]]
      /\ drawn' = [drawn EXCEPT ![s] = drawn'[s]]
  BY <1>1, <1>2 DEF ReviewInv, ReviewTypes
<1>5. /\ pc'[s] \in ReviewPcs \ {"inserted"} /\ call'[s] \in ReviewOps \cup {NoCall}
      /\ pc'[s] # "idle" => call'[s] \in ReviewOps
      /\ drawn'[s] \in Nat
  BY <1>2 DEF ReviewPcs, ReviewInv, ReviewTypes
<1> QED
  BY <1>3, <1>4, <1>5, QuietReview

\* The identity column hands the id out once.
LEMMA DrawKeeps ==
  ASSUME ReviewInv, ReviewCalls, NEW s \in Sessions, InsertReview(s)
  PROVE  ReviewInv'
<1>1. /\ pc[s] = "begun" /\ pc' = [pc EXCEPT ![s] = "inserted"]
      /\ drawn' = [drawn EXCEPT ![s] = nextReview] /\ nextReview' = nextReview + 1
      /\ UNCHANGED <<call, reviews, accepted>>
  BY DEF InsertReview, At, Goto
<1>2. /\ pc'[s] = "inserted" /\ drawn'[s] = nextReview /\ nextReview \in Nat
      /\ \A q \in Sessions : q # s => pc'[q] = pc[q] /\ drawn'[q] = drawn[q]
      /\ call[s] \in ReviewOps
  BY <1>1 DEF ReviewInv, ReviewTypes
<1>3. ReviewTypes'
  BY <1>1, <1>2 DEF ReviewInv, ReviewTypes, ReviewPcs
<1>4. \A i \in ReviewIds : i \in Int
  BY DEF ReviewIds
<1>5. \A i \in ReviewIds : i >= nextReview' => reviews'[i] = NoReview
  BY <1>1, <1>2, <1>4 DEF ReviewInv
<1>6. ASSUME NEW q \in Sessions, pc[q] = "inserted"
      PROVE  drawn[q] \in Nat /\ drawn[q] < nextReview
  BY <1>6 DEF ReviewInv, ReviewTypes, DrawStands
<1>7. ASSUME NEW q \in Sessions PROVE DrawStands(q)'
  <2>1. CASE q = s
    <3>1. drawn'[s] < nextReview'
      BY <1>1, <1>2
    <3>2. drawn'[s] \in ReviewIds => reviews'[drawn'[s]] = NoReview
      BY <1>1, <1>2, <1>4 DEF ReviewInv
    <3>3. \A p \in Sessions : p # s /\ pc'[p] = "inserted" => drawn'[p] # drawn'[s]
      BY <1>2, <1>6
    <3> QED
      BY <1>2, <2>1, <3>1, <3>2, <3>3 DEF DrawStands
  <2>2. CASE q # s
    <3>1. pc'[q] = pc[q] /\ drawn'[q] = drawn[q] /\ DrawStands(q)
      BY <1>2, <2>2 DEF ReviewInv
    <3>2. CASE pc[q] = "inserted"
      <4>1. drawn'[q] < nextReview'
        BY <1>1, <1>2, <1>6, <3>1, <3>2
      <4>2. drawn'[q] # drawn'[s]
        BY <1>2, <1>6, <3>1, <3>2
      <4>3. \A p \in Sessions : p # q /\ pc'[p] = "inserted" => drawn'[p] # drawn'[q]
        BY <1>2, <3>1, <3>2, <4>2 DEF DrawStands
      <4> QED
        BY <1>1, <3>1, <3>2, <4>1, <4>3 DEF DrawStands
    <3>3. CASE pc[q] # "inserted"
      BY <1>1, <3>1, <3>3 DEF DrawStands
    <3> QED
      BY <3>2, <3>3
  <2> QED
    BY <2>1, <2>2
<1>8. DecisionsStand'
  BY <1>1 DEF ReviewInv, DecisionsStand
<1> QED
  BY <1>3, <1>5, <1>7, <1>8 DEF ReviewInv

\* A new review takes the place of nothing, so no decision and no check is about it.
LEMMA CommitKeepsReviews ==
  ASSUME ReviewInv, ReviewCalls, NEW s \in Sessions, CommitReview(s)
  PROVE  ReviewInv'
<1> DEFINE new == [question |-> call[s].question, decision |-> NoDecision]
<1>1. /\ pc[s] = "inserted" /\ reviews' = [reviews EXCEPT ![drawn[s]] = new]
      /\ pc' = [pc EXCEPT ![s] = "idle"] /\ call' = [call EXCEPT ![s] = NoCall]
      /\ drawn' = [drawn EXCEPT ![s] = 0] /\ UNCHANGED <<nextReview, accepted>>
  BY DEF CommitReview, At, End
<1>2. new \in ReviewRows
  BY <1>1, ReviewCalled DEF ReviewRows
<1>3. /\ drawn[s] \in Nat /\ drawn[s] < nextReview /\ nextReview \in Nat
      /\ drawn[s] \in ReviewIds => reviews[drawn[s]] = NoReview
      /\ \A q \in Sessions : q # s /\ pc[q] = "inserted" => drawn[q] # drawn[s]
  BY <1>1 DEF ReviewInv, ReviewTypes, DrawStands
<1>4. /\ \A i \in ReviewIds : i # drawn[s] => reviews'[i] = reviews[i]
      /\ \A i \in ReviewIds : reviews[i] # NoReview => reviews'[i] = reviews[i]
  BY <1>1, <1>3 DEF ReviewInv, ReviewTypes
<1>5. /\ pc'[s] = "idle"
      /\ \A q \in Sessions : q # s => pc'[q] = pc[q] /\ call'[q] = call[q] /\ drawn'[q] = drawn[q]
  BY <1>1 DEF ReviewInv, ReviewTypes
<1>6. ReviewTypes'
  <2>1. reviews' \in [ReviewIds -> ReviewRows \cup {NoReview}]
    BY <1>1, <1>2 DEF ReviewInv, ReviewTypes
  <2> QED
    BY <1>1, <1>5, <2>1 DEF ReviewInv, ReviewTypes, ReviewPcs
<1>7. ASSUME NEW i \in ReviewIds, i >= nextReview' PROVE reviews'[i] = NoReview
  <2>1. i \in Int /\ i # drawn[s]
    BY <1>1, <1>3, <1>7 DEF ReviewIds
  <2> QED
    BY <1>1, <1>4, <1>7, <2>1 DEF ReviewInv
<1>8. ASSUME NEW q \in Sessions PROVE DrawStands(q)'
  <2>1. CASE q = s
    BY <1>5, <2>1 DEF DrawStands
  <2>2. CASE q # s
    <3>1. /\ pc'[q] = pc[q] /\ call'[q] = call[q] /\ drawn'[q] = drawn[q] /\ DrawStands(q)
      BY <1>5, <2>2 DEF ReviewInv
    <3>2. CASE pc[q] = "inserted"
      <4>1. drawn'[q] \in ReviewIds => reviews'[drawn'[q]] = NoReview
        BY <1>3, <1>4, <2>2, <3>1, <3>2 DEF DrawStands
      <4>2. \A p \in Sessions : p # q /\ pc'[p] = "inserted" => drawn'[p] # drawn'[q]
        BY <1>5, <3>1, <3>2 DEF DrawStands
      <4> QED
        BY <1>1, <3>1, <3>2, <4>1, <4>2 DEF DrawStands
    <3>3. CASE pc[q] = "checked"
      <4>1. call[q].review \in ReviewIds /\ reviews[call[q].review] # NoReview
        BY <3>1, <3>3, ReviewCalled DEF DrawStands
      <4>2. reviews'[call[q].review] = reviews[call[q].review]
        BY <1>4, <4>1
      <4> QED
        BY <3>1, <3>3, <4>2 DEF DrawStands
    <3>4. CASE pc[q] \notin {"inserted", "checked"}
      BY <3>1, <3>4 DEF DrawStands
    <3> QED
      BY <3>2, <3>3, <3>4
  <2> QED
    BY <2>1, <2>2
<1>9. DecisionsStand'
  <2> SUFFICES ASSUME NEW c \in accepted
               PROVE  reviews'[c.review] = [question |-> c.question, decision |-> c.decision]
    BY <1>1 DEF DecisionsStand
  <2>1. c.review \in ReviewIds /\ c.question \in Questions /\ c.decision \in Decisions
    BY DEF ReviewInv, ReviewTypes, ReviewCalls
  <2>2. reviews[c.review] = [question |-> c.question, decision |-> c.decision]
    BY DEF ReviewInv, DecisionsStand
  <2>3. reviews[c.review] # NoReview
    BY <2>1, <2>2 DEF ReviewCalls, ReviewRows
  <2> QED
    BY <1>4, <2>1, <2>2, <2>3
<1> QED
  BY <1>6, <1>7, <1>8, <1>9 DEF ReviewInv

\* A decision is stored only where there was none, so that every earlier one stands.
LEMMA AnswerKeepsReviews ==
  ASSUME ReviewInv, ReviewCalls, NEW s \in Sessions, CommitAnswer(s)
  PROVE  ReviewInv'
<1> DEFINE i == call[s].review
           new == [question |-> call[s].question, decision |-> call[s].decision]
<1>1. /\ pc[s] = "checked" /\ Pending(s)
      /\ reviews' = [reviews EXCEPT ![i].decision = call[s].decision]
      /\ accepted' = accepted \cup {call[s]}
      /\ pc' = [pc EXCEPT ![s] = "idle"] /\ call' = [call EXCEPT ![s] = NoCall]
      /\ UNCHANGED <<drawn, nextReview>>
  BY DEF CommitAnswer, At, End
<1>2. /\ call[s] \in ReviewOps /\ i \in ReviewIds
      /\ call[s].question \in Questions /\ call[s].decision \in Decisions
  BY <1>1, ReviewCalled
<1>3. /\ reviews[i] \in ReviewRows /\ reviews[i] # NoReview
      /\ reviews[i].decision = NoDecision /\ reviews[i].question = call[s].question
  BY <1>1, <1>2 DEF Pending, ReviewInv, ReviewTypes, DrawStands
<1>4. /\ reviews'[i] = new /\ new \in ReviewRows /\ new # NoReview
      /\ \A j \in ReviewIds : j # i => reviews'[j] = reviews[j]
  <2>1. [reviews[i] EXCEPT !.decision = call[s].decision] = new
    BY <1>3 DEF ReviewRows
  <2>2. new \in ReviewRows /\ new # NoReview
    BY <1>2 DEF ReviewRows, ReviewCalls
  <2> QED
    BY <1>1, <1>2, <2>1, <2>2 DEF ReviewInv, ReviewTypes
<1>5. /\ pc'[s] = "idle"
      /\ \A q \in Sessions : q # s => pc'[q] = pc[q] /\ call'[q] = call[q] /\ drawn'[q] = drawn[q]
  BY <1>1 DEF ReviewInv, ReviewTypes
<1>6. ReviewTypes'
  <2>1. reviews' \in [ReviewIds -> ReviewRows \cup {NoReview}]
    BY <1>1, <1>2, <1>4 DEF ReviewInv, ReviewTypes
  <2>2. accepted' \in SUBSET ReviewOps
    BY <1>1, <1>2 DEF ReviewInv, ReviewTypes
  <2> QED
    BY <1>1, <1>5, <2>1, <2>2 DEF ReviewInv, ReviewTypes, ReviewPcs
<1>7. ASSUME NEW j \in ReviewIds, j >= nextReview' PROVE reviews'[j] = NoReview
  BY <1>1, <1>3, <1>4, <1>7 DEF ReviewInv
<1>8. ASSUME NEW q \in Sessions PROVE DrawStands(q)'
  <2>1. CASE q = s
    BY <1>5, <2>1 DEF DrawStands
  <2>2. CASE q # s
    <3>1. /\ pc'[q] = pc[q] /\ call'[q] = call[q] /\ drawn'[q] = drawn[q] /\ DrawStands(q)
      BY <1>5, <2>2 DEF ReviewInv
    <3>2. CASE pc[q] = "inserted"
      <4>1. drawn'[q] \in ReviewIds => reviews'[drawn'[q]] = NoReview
        BY <1>3, <1>4, <3>1, <3>2 DEF DrawStands
      <4>2. \A p \in Sessions : p # q /\ pc'[p] = "inserted" => drawn'[p] # drawn'[q]
        BY <1>5, <3>1, <3>2 DEF DrawStands
      <4> QED
        BY <1>1, <3>1, <3>2, <4>1, <4>2 DEF DrawStands
    <3>3. CASE pc[q] = "checked"
      <4>1. /\ call[q].review \in ReviewIds /\ reviews[call[q].review] # NoReview
            /\ reviews[call[q].review].question = call[q].question
        BY <3>1, <3>3, ReviewCalled DEF DrawStands
      <4>2. /\ reviews'[call[q].review] # NoReview
            /\ reviews'[call[q].review].question = reviews[call[q].review].question
        BY <1>3, <1>4, <4>1
      <4> QED
        BY <3>1, <3>3, <4>1, <4>2 DEF DrawStands
    <3>4. CASE pc[q] \notin {"inserted", "checked"}
      BY <3>1, <3>4 DEF DrawStands
    <3> QED
      BY <3>2, <3>3, <3>4
  <2> QED
    BY <2>1, <2>2
<1>9. DecisionsStand'
  <2> SUFFICES ASSUME NEW c \in accepted'
               PROVE  reviews'[c.review] = [question |-> c.question, decision |-> c.decision]
    BY DEF DecisionsStand
  <2>1. CASE c \in accepted
    <3>1. c.review \in ReviewIds /\ c.decision \in Decisions
      BY <2>1 DEF ReviewInv, ReviewTypes, ReviewCalls
    <3>2. reviews[c.review] = [question |-> c.question, decision |-> c.decision]
      BY <2>1 DEF ReviewInv, DecisionsStand
    <3>3. c.review # i
      BY <1>3, <3>1, <3>2 DEF ReviewCalls
    <3> QED
      BY <1>4, <3>1, <3>2, <3>3
  <2>2. CASE c \notin accepted
    BY <1>1, <1>4, <2>2
  <2> QED
    BY <2>1, <2>2
<1> QED
  BY <1>6, <1>7, <1>8, <1>9 DEF ReviewInv

LEMMA ReviewInvStarts ==
  ASSUME ReviewInit
  PROVE  ReviewInv
BY DEF ReviewInit, ReviewsInit, SessionInit, ReviewInv, ReviewTypes, ReviewPcs, DrawStands,
   DecisionsStand

LEMMA ReviewInvKept ==
  ASSUME ReviewCalls, ReviewInv, [ReviewNext]_reviewVars
  PROVE  ReviewInv'
<1>1. CASE UNCHANGED reviewVars
  BY <1>1 DEF reviewVars, sessionVars, ReviewInv, ReviewTypes, DrawStands, DecisionsStand
<1>2. ASSUME NEW s \in Sessions, NEW c \in ReviewOps, Begin(s, c),
             UNCHANGED <<reviews, drawn, nextReview, accepted>>
      PROVE  ReviewInv'
  BY <1>2, BeginKeepsReviews
<1>3. ASSUME NEW s \in Sessions, InsertReview(s) PROVE ReviewInv'
  BY <1>3, DrawKeeps
<1>4. ASSUME NEW s \in Sessions, CommitReview(s) PROVE ReviewInv'
  BY <1>4, CommitKeepsReviews
<1>5. ASSUME NEW s \in Sessions, ReadReview(s) PROVE ReviewInv'
  BY <1>5, ReadKeepsReviews
<1>6. ASSUME NEW s \in Sessions, CommitAnswer(s) PROVE ReviewInv'
  BY <1>6, AnswerKeepsReviews
<1>7. ASSUME NEW s \in Sessions, AnswerRefused(s) \/ AlreadyAnswered(s) \/ AbortReview(s)
      PROVE  ReviewInv'
  BY <1>7, ReviewLeaves DEF AnswerRefused, AlreadyAnswered, AbortReview
<1> QED
  BY <1>1, <1>2, <1>3, <1>4, <1>5, <1>6, <1>7 DEF ReviewNext, ReviewStatement

\* For any sessions and calls, a decision whose reviewer was told "answered" is the one in
\* the queue for good, about the question of the review (answer_review,
\* test_review_queue_is_fifo_and_decisions_are_immutable).
THEOREM DecisionsAlwaysStand ==
  ASSUME ReviewCalls
  PROVE  ReviewSpec => []DecisionsStand
<1>1. ReviewInit => ReviewInv
  BY ReviewInvStarts
<1>2. ReviewInv /\ [ReviewNext]_reviewVars => ReviewInv'
  BY ReviewInvKept
<1>3. ReviewInv => DecisionsStand
  BY DEF ReviewInv
<1> QED
  BY <1>1, <1>2, <1>3, PTL DEF ReviewSpec

-----------------------------------------------------------------------------
(* Signed objects *)

SignedPcs == {"idle", "begun", "absent", "inserted", "locked", "clearing"}

SignedTypes ==
  /\ row \in [Objects -> Rows \cup {Absent}]
  /\ holder \in [Objects -> Sessions \cup {NoSession}]
  /\ snapshot \in [Sessions -> SUBSET Objects]
  /\ todo \in [Sessions -> Seq(Objects)]
  /\ pc \in [Sessions -> SignedPcs]
  /\ call \in [Sessions -> Calls \cup {NoCall}]

Clearing(s) == pc[s] = "clearing"

\* What session s has locked, and what the rows its UPDATE has missed are like.
LocksHeld(s) ==
  /\ pc[s] # "idle" => call[s] \in Calls
  /\ pc[s] = "inserted" => holder[call[s].object] = s /\ ~Present(call[s].object)
  /\ pc[s] \in {"locked", "clearing"} =>
       holder[call[s].object] = s /\ call[s].object \in OfType(call[s].type)
  /\ Clearing(s) =>
       /\ call[s].object \in snapshot[s] /\ snapshot[s] \subseteq OfType(call[s].type)
       /\ \A o \in snapshot[s] :
            holder[o] = s \/ \E i \in 1..Len(todo[s]) : todo[s][i] = o
       /\ \A o \in OfType(call[s].type) \ snapshot[s] : ~row[o].active

\* Of two activations of one type, one has seen the object of the other.
OneSeesOther(s, q) ==
  (s # q /\ Clearing(s) /\ Clearing(q) /\ call[s].type = call[q].type) =>
    call[s].object \in snapshot[q] \/ call[q].object \in snapshot[s]

SignedInv ==
  /\ SignedTypes
  /\ \A s \in Sessions : LocksHeld(s)
  /\ \A s, q \in Sessions : OneSeesOther(s, q)
  /\ OneActive

\* The part of the invariant that is about the sessions other than s, when s
\* takes a step that keeps the rows and takes no lock of theirs.
LEMMA SignedOthersKeep ==
  ASSUME SessionAssumption, SignedCalls, SignedInv,
         NEW s \in Sessions, NEW q \in Sessions, s # q, UNCHANGED row,
         pc'[q] = pc[q], call'[q] = call[q],
         snapshot'[q] = snapshot[q], todo'[q] = todo[q],
         \A o \in Objects : holder[o] = q => holder'[o] = q
  PROVE  LocksHeld(q)'
<1>1. LocksHeld(q)
  BY DEF SignedInv
<1>2. /\ \A t : OfType(t)' = OfType(t)
      /\ \A o : Present(o)' = Present(o)
  BY DEF OfType, Present
<1>3. pc[q] # "idle" => call[q].object \in Objects
  BY <1>1 DEF LocksHeld, SignedCalls
<1>4. snapshot[q] \subseteq Objects
  BY DEF SignedInv, SignedTypes
<1> QED
  BY <1>1, <1>2, <1>3, <1>4 DEF LocksHeld, Clearing

\* The end of a transaction that has written nothing.
LEMMA SignedLeaveKeeps ==
  ASSUME SessionAssumption, SignedCalls, SignedInv, NEW s \in Sessions, Leave(s)
  PROVE  SignedInv'
<1>1. SignedTypes'
  BY DEF SignedInv, SignedTypes, Leave, Close, End, SignedPcs
<1>2. ASSUME NEW q \in Sessions PROVE LocksHeld(q)'
  <2>1. CASE q = s
    BY <2>1 DEF SignedInv, SignedTypes, Leave, Close, End, LocksHeld, Clearing
  <2>2. CASE q # s
    <3>1. /\ pc'[q] = pc[q] /\ call'[q] = call[q] /\ UNCHANGED row
          /\ snapshot'[q] = snapshot[q] /\ todo'[q] = todo[q]
          /\ \A o \in Objects : holder[o] = q => holder'[o] = q
      BY <2>2 DEF SignedInv, SignedTypes, Leave, Close, End
    <3> QED
      BY <2>2, <3>1, SignedOthersKeep
  <2> QED
    BY <2>1, <2>2
<1>3. ASSUME NEW p \in Sessions, NEW q \in Sessions PROVE OneSeesOther(p, q)'
  <2>1. OneSeesOther(p, q)
    BY DEF SignedInv
  <2> QED
    BY <2>1 DEF SignedInv, SignedTypes, Leave, Close, End, OneSeesOther, Clearing
<1>4. OneActive'
  BY DEF SignedInv, Leave, OneActive, Present
<1> QED
  BY <1>1, <1>2, <1>3, <1>4 DEF SignedInv

\* A statement of s before its UPDATE: nothing is written, at most one free row
\* is locked.
LEMMA QuietSigned ==
  ASSUME SessionAssumption, SignedCalls, SignedInv, NEW s \in Sessions,
         UNCHANGED <<row, snapshot, todo>>,
         pc' = [pc EXCEPT ![s] = pc'[s]], pc'[s] \in SignedPcs, pc'[s] # "clearing",
         call' = [call EXCEPT ![s] = call'[s]], call'[s] \in Calls,
         holder' \in [Objects -> Sessions \cup {NoSession}],
         \A o \in Objects : holder[o] \notin {NoSession, s} => holder'[o] = holder[o],
         pc'[s] = "inserted" => holder'[call'[s].object] = s /\ ~Present(call'[s].object),
         pc'[s] = "locked" => /\ holder'[call'[s].object] = s
                              /\ call'[s].object \in OfType(call'[s].type)
  PROVE  SignedInv'
<1>1. SignedTypes'
  BY DEF SignedInv, SignedTypes
<1>2. /\ \A t : OfType(t)' = OfType(t)
      /\ \A o : Present(o)' = Present(o)
  BY DEF OfType, Present
<1>3. ASSUME NEW q \in Sessions PROVE LocksHeld(q)'
  <2>1. CASE q = s
    BY <1>2, <2>1 DEF LocksHeld, Clearing
  <2>2. CASE q # s
    <3>1. \A o \in Objects : holder[o] = q => holder'[o] = q
      BY <2>2 DEF SessionAssumption
    <3>2. pc'[q] = pc[q] /\ call'[q] = call[q]
      BY <2>2 DEF SignedInv, SignedTypes
    <3> QED
      BY <2>2, <3>1, <3>2, SignedOthersKeep
  <2> QED
    BY <2>1, <2>2
<1>4. ASSUME NEW p \in Sessions, NEW q \in Sessions PROVE OneSeesOther(p, q)'
  <2>1. OneSeesOther(p, q)
    BY DEF SignedInv
  <2>2. \A r \in Sessions : Clearing(r)' => Clearing(r) /\ call'[r] = call[r]
    BY DEF SignedInv, SignedTypes, Clearing
  <2> QED
    BY <2>1, <2>2 DEF OneSeesOther
<1>5. OneActive'
  BY <1>2 DEF SignedInv, OneActive
<1> QED
  BY <1>1, <1>3, <1>4, <1>5 DEF SignedInv

\* The snapshot of an UPDATE holds every row of the type.
LEMMA StartClearKeeps ==
  ASSUME SessionAssumption, SignedCalls, SignedInv, NEW s \in Sessions, StartClear(s)
  PROVE  SignedInv'
<1> DEFINE S == OfType(call[s].type)
<1>1. /\ call[s] \in Calls /\ holder[call[s].object] = s /\ call[s].object \in S
      /\ S \subseteq Objects
  BY DEF StartClear, At, SignedInv, LocksHeld, OfType
<1>2. PICK f \in SetToSeqs(S) : todo' = [todo EXCEPT ![s] = f]
  BY DEF StartClear, Cleared
<1>3. f \in Seq(Objects) /\ \A o \in S : \E i \in 1..Len(f) : f[i] = o
  <2>1. IsFiniteSet(S) /\ Cardinality(S) \in Nat
    BY <1>1, FS_Subset, FS_CardinalityType DEF SignedCalls
  <2>2. /\ f \in [1..Cardinality(S) -> S]
        /\ \A i, j \in 1..Cardinality(S) : i # j => f[i] # f[j]
    BY <1>2 DEF SetToSeqs
  <2>3. f \in Injection(1..Cardinality(S), S)
    BY <2>2 DEF Injection, IsInjective
  <2>4. Cardinality(1..Cardinality(S)) = Cardinality(S)
    BY <2>1, FS_Interval
  <2>5. f \in Surjection(1..Cardinality(S), S)
    BY <2>1, <2>3, <2>4, FS_Injection
  <2>6. \A o \in S : \E i \in 1..Cardinality(S) : f[i] = o
    BY <2>5 DEF Surjection
  <2>7. f \in Seq(S) /\ Len(f) = Cardinality(S)
    BY <2>1, <2>2
  <2> QED
    BY <1>1, <2>6, <2>7
<1>4. /\ snapshot' = [snapshot EXCEPT ![s] = S]
      /\ pc' = [pc EXCEPT ![s] = "clearing"]
      /\ UNCHANGED <<row, holder, call>>
  BY DEF StartClear, Cleared, Goto
<1>5. SignedTypes'
  BY <1>1, <1>2, <1>3, <1>4 DEF SignedInv, SignedTypes, SignedPcs
<1>6. \A t : OfType(t)' = OfType(t)
  BY <1>4 DEF OfType, Present
<1>7. ASSUME NEW q \in Sessions PROVE LocksHeld(q)'
  <2>1. CASE q = s
    <3>1. pc'[s] = "clearing" /\ snapshot'[s] = S /\ todo'[s] = f
      BY <1>2, <1>4 DEF SignedInv, SignedTypes
    <3> QED
      <4>1. OfType(call[s].type)' = S /\ call'[s] = call[s] /\ UNCHANGED <<row, holder>>
        BY <1>4 DEF OfType, Present
      <4>2. \A o \in S : \E i \in 1..Len(f) : f[i] = o
        BY <1>3
      <4> HIDE DEF S
      <4> QED
        BY <1>1, <2>1, <3>1, <4>1, <4>2 DEF LocksHeld, Clearing
  <2>2. CASE q # s
    BY <1>2, <1>4, <2>2, SignedOthersKeep DEF SignedInv, SignedTypes
  <2> QED
    BY <2>1, <2>2
<1>8. ASSUME NEW p \in Sessions, NEW q \in Sessions PROVE OneSeesOther(p, q)'
  <2>1. OneSeesOther(p, q) /\ LocksHeld(p) /\ LocksHeld(q)
    BY DEF SignedInv
  <2>2. CASE p # s /\ q # s
    BY <1>4, <2>1, <2>2 DEF SignedInv, SignedTypes, OneSeesOther, Clearing
  <2>3. CASE p = s /\ q # s
    BY <1>4, <2>1, <2>3 DEF SignedInv, SignedTypes, OneSeesOther, Clearing, LocksHeld
  <2>4. CASE p # s /\ q = s
    BY <1>4, <2>1, <2>4 DEF SignedInv, SignedTypes, OneSeesOther, Clearing, LocksHeld
  <2> QED
    BY <2>2, <2>3, <2>4 DEF OneSeesOther
<1>9. OneActive'
  BY <1>4 DEF SignedInv, OneActive, Present
<1> QED
  BY <1>5, <1>7, <1>8, <1>9 DEF SignedInv

\* The UPDATE locks the next row.
LEMMA ClearRowKeeps ==
  ASSUME SessionAssumption, SignedCalls, SignedInv, NEW s \in Sessions, ClearRow(s)
  PROVE  SignedInv'
<1> DEFINE o == Head(todo[s])
<1>1. /\ todo[s] \in Seq(Objects) /\ todo[s] # <<>>
  BY DEF ClearRow, SignedInv, SignedTypes
<1>2. /\ o \in Objects /\ Tail(todo[s]) \in Seq(Objects)
      /\ Len(Tail(todo[s])) = Len(todo[s]) - 1 /\ Len(todo[s]) \in Nat
      /\ \A i \in 1..Len(Tail(todo[s])) : Tail(todo[s])[i] = todo[s][i + 1]
      /\ o = todo[s][1]
  BY <1>1, HeadTailProperties
<1>3. /\ holder' = [holder EXCEPT ![o] = s] /\ holder[o] \in {NoSession, s}
      /\ todo' = [todo EXCEPT ![s] = Tail(@)]
      /\ UNCHANGED <<row, snapshot, pc, call>>
      /\ pc[s] = "clearing"
  BY DEF ClearRow, Free, At, sessionVars
<1>4. SignedTypes'
  BY <1>2, <1>3 DEF SignedInv, SignedTypes
<1>5. ASSUME NEW q \in Sessions PROVE LocksHeld(q)'
  <2>1. CASE q = s
    <3>1. \A p \in snapshot[s] :
            holder'[p] = s \/ \E i \in 1..Len(Tail(todo[s])) : Tail(todo[s])[i] = p
      <4> SUFFICES ASSUME NEW p \in snapshot[s], holder'[p] # s
                   PROVE  \E i \in 1..Len(Tail(todo[s])) : Tail(todo[s])[i] = p
        OBVIOUS
      <4>1. p \in Objects /\ p # o /\ holder[p] # s
        BY <1>2, <1>3 DEF SignedInv, SignedTypes
      <4>2. PICK i \in 1..Len(todo[s]) : todo[s][i] = p
        BY <1>3, <4>1 DEF SignedInv, LocksHeld, Clearing
      <4>3. i # 1 /\ i - 1 \in 1..Len(Tail(todo[s]))
        BY <1>2, <4>1, <4>2
      <4> QED
        BY <1>2, <4>2, <4>3
    <3>2. todo'[s] = Tail(todo[s]) /\ \A t : OfType(t)' = OfType(t)
      BY <1>3 DEF SignedInv, SignedTypes, OfType, Present
    <3>3. LocksHeld(s)
      BY DEF SignedInv
    <3>4. call[s] \in Calls /\ holder[call[s].object] = s /\ call[s].object \in Objects
      BY <1>3, <3>3 DEF LocksHeld, SignedCalls
    <3>5. holder'[call[s].object] = s
      BY <1>2, <1>3, <3>4 DEF SignedInv, SignedTypes
    <3>6. \A x \in OfType(call[s].type) \ snapshot[s] : ~row'[x].active
      BY <1>3, <3>3 DEF LocksHeld, Clearing
    <3>7. /\ call[s].object \in snapshot[s] /\ snapshot[s] \subseteq OfType(call[s].type)
          /\ call[s].object \in OfType(call[s].type)
      BY <1>3, <3>3 DEF LocksHeld, Clearing
    <3> HIDE DEF o
    <3>8. LocksHeld(s)'
      BY <1>3, <3>1, <3>2, <3>4, <3>5, <3>6, <3>7 DEF LocksHeld, Clearing
    <3> QED
      BY <2>1, <3>8
  <2>2. CASE q # s
    <3>1. \A p \in Objects : holder[p] = q => holder'[p] = q
      BY <1>2, <1>3, <2>2 DEF SignedInv, SignedTypes, SessionAssumption
    <3>2. todo'[q] = todo[q]
      BY <1>3, <2>2 DEF SignedInv, SignedTypes
    <3> QED
      BY <1>3, <2>2, <3>1, <3>2, SignedOthersKeep
  <2> QED
    BY <2>1, <2>2
<1>6. ASSUME NEW p \in Sessions, NEW q \in Sessions PROVE OneSeesOther(p, q)'
  BY <1>3 DEF SignedInv, OneSeesOther, Clearing
<1>7. OneActive'
  BY <1>3 DEF SignedInv, OneActive, Present
<1> QED
  BY <1>4, <1>5, <1>6, <1>7 DEF SignedInv

\* The end of a transaction that has written rows: the rows stay rows of their
\* types, and what a clearing session has missed is still inactive.
LEMMA SignedCommitKeeps ==
  ASSUME SessionAssumption, SignedCalls, SignedInv, NEW s \in Sessions, Close(s),
         row' \in [Objects -> Rows \cup {Absent}],
         \A t : OfType(t) \subseteq OfType(t)',
         \A q \in Sessions : q # s /\ pc[q] = "inserted" => ~Present(call[q].object)',
         \A q \in Sessions : q # s /\ Clearing(q) =>
           \A o \in OfType(call[q].type)' \ snapshot[q] : ~row'[o].active,
         OneActive'
  PROVE  SignedInv'
<1>1. SignedTypes'
  BY DEF SignedInv, SignedTypes, Close, End, SignedPcs
<1>2. ASSUME NEW q \in Sessions PROVE LocksHeld(q)'
  <2>1. CASE q = s
    BY <2>1 DEF SignedInv, SignedTypes, Close, End, LocksHeld, Clearing
  <2>2. CASE q # s
    <3>1. /\ pc'[q] = pc[q] /\ call'[q] = call[q]
          /\ snapshot'[q] = snapshot[q] /\ todo'[q] = todo[q]
          /\ \A o \in Objects : holder[o] = q => holder'[o] = q
      BY <2>2 DEF SignedInv, SignedTypes, Close, End
    <3>2. LocksHeld(q) /\ snapshot[q] \subseteq Objects
      BY DEF SignedInv, SignedTypes
    <3>3. pc[q] # "idle" => call[q].object \in Objects
      BY <3>2 DEF LocksHeld, SignedCalls
    <3>4. pc[q] = "inserted" =>
            holder'[call[q].object] = q /\ ~Present(call[q].object)'
      BY <2>2, <3>1, <3>2, <3>3 DEF LocksHeld
    <3>5. pc[q] \in {"locked", "clearing"} =>
            holder'[call[q].object] = q /\ call[q].object \in OfType(call[q].type)'
      BY <3>1, <3>2, <3>3 DEF LocksHeld
    <3>6. Clearing(q) =>
            /\ call[q].object \in snapshot[q] /\ snapshot[q] \subseteq OfType(call[q].type)'
            /\ \A o \in snapshot[q] :
                 holder'[o] = q \/ \E i \in 1..Len(todo[q]) : todo[q][i] = o
            /\ \A o \in OfType(call[q].type)' \ snapshot[q] : ~row'[o].active
      BY <2>2, <3>1, <3>2 DEF LocksHeld
    <3> QED
      BY <3>1, <3>2, <3>4, <3>5, <3>6 DEF LocksHeld, Clearing
  <2> QED
    BY <2>1, <2>2
<1>3. ASSUME NEW p \in Sessions, NEW q \in Sessions PROVE OneSeesOther(p, q)'
  <2>1. OneSeesOther(p, q)
    BY DEF SignedInv
  <2> QED
    BY <2>1 DEF SignedInv, SignedTypes, Close, End, OneSeesOther, Clearing
<1> QED
  BY <1>1, <1>2, <1>3 DEF SignedInv

\* A new version is inactive.
LEMMA CommitRecordKeeps ==
  ASSUME SessionAssumption, SignedCalls, SignedInv, NEW s \in Sessions, CommitRecord(s)
  PROVE  SignedInv'
<1> DEFINE o == call[s].object
           new == [type |-> call[s].type, approval |-> call[s].approval, active |-> FALSE]
<1>1. /\ pc[s] = "inserted" /\ holder[o] = s /\ ~Present(o) /\ o \in Objects
      /\ new \in Rows /\ Close(s) /\ row' = [row EXCEPT ![o] = new]
  BY DEF CommitRecord, At, SignedInv, LocksHeld, SignedCalls, Rows
<1>2. row \in [Objects -> Rows \cup {Absent}] /\ row'[o] = new /\ ~new.active
  BY <1>1 DEF SignedInv, SignedTypes
<1> HIDE DEF o, new
<1>3. /\ row' \in [Objects -> Rows \cup {Absent}]
      /\ \A q \in Sessions : q # s => call'[q] = call[q]
  BY <1>1, <1>2 DEF Close, End, SignedInv, SignedTypes
<1>4. \A p \in Objects : p # o => row'[p] = row[p]
  BY <1>1, <1>2
<1>5. \A t : OfType(t) \subseteq OfType(t)' /\ OfType(t)' \subseteq OfType(t) \cup {o}
  BY <1>1, <1>4 DEF OfType, Present
<1>6. ASSUME NEW q \in Sessions, q # s, pc[q] = "inserted"
      PROVE  ~Present(call[q].object)'
  <2>1. holder[call[q].object] = q /\ ~Present(call[q].object) /\ call[q].object \in Objects
    BY <1>6 DEF SignedInv, LocksHeld, SignedCalls
  <2>2. call[q].object # o
    BY <1>1, <1>6, <2>1
  <2> QED
    BY <1>3, <1>4, <1>6, <2>1, <2>2 DEF Present
<1>7. ASSUME NEW q \in Sessions, q # s, Clearing(q),
             NEW p \in OfType(call[q].type)' \ snapshot[q]
      PROVE  ~row'[p].active
  <2>1. CASE p = o
    BY <1>2, <2>1
  <2>2. CASE p # o
    <3>1. p \in OfType(call[q].type) /\ p \in Objects
      BY <1>3, <1>5, <1>7, <2>2 DEF OfType
    <3> QED
      BY <1>4, <1>7, <2>2, <3>1 DEF SignedInv, LocksHeld, Clearing
  <2> QED
    BY <2>1, <2>2
<1>8. OneActive'
  <2>1. OneActive /\ (\A p \in Objects : Present(p)' /\ row'[p].active =>
                       p # o /\ Present(p) /\ row[p].active)
    BY <1>2, <1>4 DEF SignedInv, Present
  <2> QED
    BY <1>4, <2>1 DEF OneActive
<1> QED
  BY <1>1, <1>3, <1>5, <1>6, <1>7, <1>8, SignedCommitKeeps

\* The object is the only active row of its type: the rows of the snapshot are
\* cleared and those it has missed are inactive.  No other clearing session has
\* missed the object, or it would itself be waited for.
LEMMA CommitActivateKeeps ==
  ASSUME SessionAssumption, SignedCalls, SignedInv, NEW s \in Sessions, CommitActivate(s)
  PROVE  SignedInv'
<1> DEFINE o == call[s].object
           T == call[s].type
           W == snapshot[s]
<1>1. /\ pc[s] = "clearing" /\ Clearing(s) /\ todo[s] = <<>> /\ Close(s) /\ LocksHeld(s)
      /\ row' = [p \in Objects |-> IF p \in W \cup {o}
                                   THEN [row[p] EXCEPT !.active = (p = o)] ELSE row[p]]
  BY DEF CommitActivate, At, SignedInv, Clearing
<1>2. /\ o \in W /\ W \subseteq OfType(T)
      /\ \A p \in W : holder[p] = s
      /\ \A p \in OfType(T) \ W : ~row[p].active
  BY <1>1 DEF LocksHeld
<1>3. /\ OfType(T) \subseteq Objects /\ row \in [Objects -> Rows \cup {Absent}]
      /\ \A q \in Sessions : q # s => call'[q] = call[q]
  BY <1>1 DEF OfType, SignedInv, SignedTypes, Close, End
<1>4. \A p \in W : row[p] \in Rows /\ row[p].type = T /\ p \in Objects
  BY <1>2, <1>3 DEF OfType, Present
<1>5. /\ \A p \in Objects \ W : row'[p] = row[p]
      /\ \A p \in W : row'[p] = [row[p] EXCEPT !.active = (p = o)]
  BY <1>1, <1>2, <1>4
<1> HIDE DEF o, T, W
<1>6. ASSUME NEW p \in W
      PROVE  row'[p] \in Rows /\ row'[p].type = T /\ row'[p].active = (p = o)
  <2>1. row[p] \in Rows /\ row[p].type = T /\ row'[p] = [row[p] EXCEPT !.active = (p = o)]
    BY <1>4, <1>5
  <2>2. row'[p] = [type |-> T, approval |-> row[p].approval, active |-> (p = o)]
    BY <2>1 DEF Rows
  <2> QED
    BY <2>1, <2>2 DEF Rows
<1>7. row' \in [Objects -> Rows \cup {Absent}]
  <2>1. row' = [p \in Objects |-> row'[p]]
    BY <1>1
  <2>2. \A p \in Objects : row'[p] \in Rows \cup {Absent}
    BY <1>3, <1>5, <1>6
  <2> QED
    BY <2>1, <2>2
<1>8. \A p \in Objects : Present(p)' <=> Present(p)
  BY <1>4, <1>5, <1>6 DEF Present, SignedCalls
<1>9. \A t : OfType(t)' = OfType(t)
  BY <1>4, <1>5, <1>6, <1>8 DEF OfType
<1>10. ASSUME NEW q \in Sessions, q # s, pc[q] = "inserted"
       PROVE  ~Present(call[q].object)'
  BY <1>3, <1>8, <1>10 DEF SignedInv, LocksHeld, SignedCalls
<1>11. ASSUME NEW q \in Sessions, q # s, Clearing(q),
              NEW p \in OfType(call[q].type)' \ snapshot[q]
       PROVE  ~row'[p].active
  <2>1. /\ p \in OfType(call[q].type) /\ p \in Objects /\ ~row[p].active
        /\ row[p].type = call[q].type /\ holder[call[q].object] = q
    <3>1. p \in OfType(call[q].type) /\ p \notin snapshot[q]
      <4>1. PICK t : t = call[q].type /\ t = call'[q].type
        BY <1>3, <1>11
      <4>2. p \in OfType(t)' /\ p \notin snapshot[q]
        BY <1>11, <4>1 DEF OfType
      <4> QED
        BY <1>9, <4>1, <4>2
    <3>2. LocksHeld(q)
      BY DEF SignedInv
    <3> QED
      BY <1>11, <3>1, <3>2 DEF LocksHeld, OfType, Clearing
  <2>2. CASE p \notin W
    BY <1>5, <2>1, <2>2
  <2>3. CASE p \in W
    <3>1. call[q].type = T /\ OneSeesOther(s, q)
      BY <1>4, <2>1, <2>3 DEF SignedInv
    <3>2. call[q].object \notin W
      BY <1>2, <1>11, <2>1
    <3>3. p # o
      BY <1>1, <1>11, <3>1, <3>2 DEF OneSeesOther, o, T, W
    <3> QED
      BY <1>6, <2>3, <3>3
  <2> QED
    BY <2>2, <2>3
<1>12. OneActive'
  <2>1. \A p \in Objects : (Present(p)' /\ row'[p].active /\ row'[p].type = T) => p = o
    <3>1. \A p \in Objects \ W : (Present(p) /\ row[p].type = T) => ~row[p].active
      BY <1>2 DEF OfType
    <3> QED
      BY <1>5, <1>6, <1>8, <3>1
  <2>2. \A p \in Objects : (Present(p)' /\ row'[p].type # T) => row'[p] = row[p] /\ Present(p)
    BY <1>5, <1>6, <1>8
  <2> QED
    BY <2>1, <2>2 DEF SignedInv, OneActive
<1> QED
  BY <1>1, <1>7, <1>9, <1>10, <1>11, <1>12, SignedCommitKeeps

\* Every step keeps the invariant.
LEMMA SignedStepKeeps ==
  ASSUME SessionAssumption, SignedCalls, SignedInv, [Next]_vars
  PROVE  SignedInv'
<1>1. ASSUME UNCHANGED vars PROVE SignedInv'
  BY <1>1 DEF vars, sessionVars, SignedInv, SignedTypes, LocksHeld, OneSeesOther, OneActive,
              Clearing, OfType, Present
<1>2. ASSUME NEW s \in Sessions, NEW c \in Calls, Begin(s, c),
             UNCHANGED <<row, holder, snapshot, todo>>
      PROVE  SignedInv'
  BY <1>2, QuietSigned DEF Begin, SignedInv, SignedTypes, SignedPcs
<1>3. ASSUME NEW s \in Sessions, RecordAbsent(s) PROVE SignedInv'
  <2>1. call[s] \in Calls
    BY <1>3 DEF RecordAbsent, At, SignedInv, LocksHeld
  <2> QED
    BY <1>3, <2>1, QuietSigned DEF RecordAbsent, Goto, SignedInv, SignedTypes, SignedPcs
<1>4. ASSUME NEW s \in Sessions, Insert(s) PROVE SignedInv'
  <2>1. call[s] \in Calls /\ call[s].object \in Objects
    BY <1>4 DEF Insert, At, SignedInv, LocksHeld, SignedCalls
  <2> QED
    BY <1>4, <2>1, QuietSigned DEF Insert, Free, Goto, SignedInv, SignedTypes, SignedPcs
<1>5. ASSUME NEW s \in Sessions, LockRow(s) PROVE SignedInv'
  <2>1. call[s] \in Calls /\ call[s].object \in Objects
    BY <1>5 DEF LockRow, At, SignedInv, LocksHeld, SignedCalls
  <2> QED
    BY <1>5, <2>1, QuietSigned DEF LockRow, Free, Goto, SignedInv, SignedTypes, SignedPcs
<1>6. ASSUME NEW s \in Sessions,
             \/ RecordFound(s) \/ InsertRefused(s) \/ ActivateRefused(s)
             \/ Abort(s) \/ BreakDeadlock(s)
      PROVE  SignedInv'
  BY <1>6, SignedLeaveKeeps DEF RecordFound, InsertRefused, ActivateRefused, Abort, BreakDeadlock
<1> QED
  BY <1>1, <1>2, <1>3, <1>4, <1>5, <1>6, StartClearKeeps, ClearRowKeeps, CommitRecordKeeps,
     CommitActivateKeeps DEF Next, Statement

\* At most one version of a type is active, for any number of sessions, objects
\* and calls (activate_signed_object: the row lock and the two UPDATEs).
THEOREM OneActiveAlways ==
  ASSUME SessionAssumption, SignedCalls
  PROVE  Spec => []OneActive
<1>1. Init => SignedInv
  BY DEF Init, SignedInit, SessionInit, SessionAssumption, SignedInv, SignedTypes, LocksHeld,
         OneSeesOther, OneActive, Clearing, Present, SignedPcs
<1>2. SignedInv /\ [Next]_vars => SignedInv'
  BY SignedStepKeeps
<1>3. SignedInv => OneActive
  BY DEF SignedInv
<1> QED
  BY <1>1, <1>2, <1>3, PTL DEF Spec

=============================================================================
