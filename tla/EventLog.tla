------------------------------- MODULE EventLog -------------------------------
(***************************************************************************)
(* PostgresControlStore.append, statement by statement: the transaction    *)
(* that Controller takes as one step.  The advisory lock of the experiment *)
(* is held to the end of the transaction; each later statement reads the   *)
(* rows committed before it.  The table itself refuses a row whose         *)
(* sequence or key the experiment has already.                             *)
(***************************************************************************)
EXTENDS Session, FiniteSets, FiniteSetsExt

CONSTANTS
    Experiments,
    EventKeys,
    Commands,      \* what an event says: its type, hash and payload
    Appends

EventLogCalls ==
  Appends \subseteq [op : {"append"}, experiment : Experiments, key : EventKeys,
              command : Commands]

VARIABLES
    rows,          \* rows[e]: the committed events of experiment e
    advisory,      \* advisory[e]: the session that holds the lock of e
    last           \* last[s]: the greatest sequence s has read

logVars == <<rows, advisory, last, sessionVars>>

EventsInit ==
  /\ rows = [e \in Experiments |-> {}]
  /\ advisory = [e \in Experiments |-> NoSession]
  /\ last = [s \in Sessions |-> 0]

LogInit == EventsInit /\ SessionInit

CloseAppend(s) ==
  /\ End(s)
  /\ advisory' = [e \in Experiments |-> IF advisory[e] = s THEN NoSession ELSE advisory[e]]
  /\ last' = [last EXCEPT ![s] = 0]

LeaveAppend(s) == CloseAppend(s) /\ UNCHANGED rows

Own(s) == rows[call[s].experiment]

\* Mutant of Lock: nobody waits for the lock.
LockFreely(s) ==
  /\ At(s, "begun", "append")
  /\ Goto(s, "locked")
  /\ UNCHANGED <<rows, advisory, last>>

\* pg_advisory_xact_lock of the experiment.
Lock(s) ==
  /\ At(s, "begun", "append")
  /\ advisory[call[s].experiment] = NoSession
  /\ advisory' = [advisory EXCEPT ![call[s].experiment] = s]
  /\ Goto(s, "locked")
  /\ UNCHANGED <<rows, last>>

\* The key is stored: its event is the answer.
KeyStored(s) ==
  /\ At(s, "locked", "append")
  /\ \E r \in Own(s) : r.key = call[s].key
  /\ LeaveAppend(s)

KeyFree(s) ==
  /\ At(s, "locked", "append")
  /\ \A r \in Own(s) : r.key # call[s].key
  /\ Goto(s, "absent")
  /\ UNCHANGED <<rows, advisory, last>>

\* Mutant of ReadLast: the experiment is not part of the condition.
ReadLastOfAll(s) ==
  /\ At(s, "absent", "append")
  /\ last' = [last EXCEPT ![s] =
                Max(UNION {{r.sequence : r \in rows[e]} : e \in Experiments} \cup {0})]
  /\ Goto(s, "numbered")
  /\ UNCHANGED <<rows, advisory>>

ReadLast(s) ==
  /\ At(s, "absent", "append")
  /\ last' = [last EXCEPT ![s] = Max({r.sequence : r \in Own(s)} \cup {0})]
  /\ Goto(s, "numbered")
  /\ UNCHANGED <<rows, advisory>>

\* PRIMARY KEY (experiment_id, sequence), UNIQUE (experiment_id, idempotency_key).
Refused(s) == \E r \in Own(s) : r.sequence = last[s] + 1 \/ r.key = call[s].key

InsertEvent(s) ==
  /\ At(s, "numbered", "append")
  /\ ~Refused(s)
  /\ rows' = [rows EXCEPT ![call[s].experiment] = @ \cup
                {[sequence |-> last[s] + 1, key |-> call[s].key, command |-> call[s].command]}]
  /\ CloseAppend(s)

AbortAppend(s) == pc[s] # "idle" /\ LeaveAppend(s)

AppendStatement(s) ==
  \/ Lock(s) \/ KeyStored(s) \/ KeyFree(s) \/ ReadLast(s) \/ InsertEvent(s)

LogNext ==
  \E s \in Sessions :
    \/ \E c \in Appends : Begin(s, c) /\ UNCHANGED <<rows, advisory, last>>
    \/ AppendStatement(s) \/ AbortAppend(s)

LogSpec == LogInit /\ [][LogNext]_logVars

-----------------------------------------------------------------------------
(* Properties *)

\* What Controller's Commit takes for granted: the events of an experiment are
\* committed one at a time, each with the next sequence number and a key not
\* stored before, so that a reader always sees a prefix without gaps
\* (test_events_are_idempotent_and_append_only).
AppendsInOrder ==
  [][\A e \in Experiments :
       rows'[e] # rows[e] =>
         \E r \in rows'[e] :
           /\ rows'[e] = rows[e] \cup {r}
           /\ r.sequence = Cardinality(rows[e]) + 1
           /\ \A q \in rows[e] : q.key # r.key /\ q.sequence <= Cardinality(rows[e])]_logVars

\* Neither constraint of the table ever refuses an event: concurrent appends
\* wait for each other instead of failing.
InsertAccepted == \A s \in Sessions : At(s, "numbered", "append") => ~Refused(s)

=============================================================================
