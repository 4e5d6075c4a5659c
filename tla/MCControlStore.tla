--------------------------- MODULE MCControlStore ---------------------------
(***************************************************************************)
(* Small instances for TLC of the tables that share nothing but their      *)
(* sessions: no transaction touches two of them, so a behaviour exercises  *)
(* the one that "table" names and leaves the others as they are.           *)
(***************************************************************************)
EXTENDS EventLog, CommandOutbox, SignedObjects, ReviewQueue, PromotionStore

CONSTANTS d1, d2, e1, e2, k1, k2, k3, x, y, o1, o2, o3, experiment, bundle, yes, no

VARIABLE table

AppendCall(e, k, c) == [op |-> "append", experiment |-> e, key |-> k, command |-> c]
Enqueue(e, k, c) == [op |-> "enqueue", slot |-> <<e, k>>, content |-> c]
Record(o, t, a) == [op |-> "record", object |-> o, type |-> t, approval |-> a]
Activate(o, t) == [op |-> "activate", object |-> o, type |-> t, approval |-> x]
Ask(q) == [op |-> "ask", question |-> q, review |-> 1, decision |-> yes]
Answer(i, q, d) == [op |-> "answer", question |-> q, review |-> i, decision |-> d]

MCAppends == {AppendCall(e1, k, c) : k \in {k1, k2}, c \in {x, y}} \cup {AppendCall(e2, k1, x)}
MCSlots == {e1, e2} \X {k1, k2}
MCEnqueues == {Enqueue(e1, k, c) : k \in {k1, k2}, c \in {x, y}} \cup {Enqueue(e2, k1, x)}
MCCalls ==
  {Record(o, bundle, x) : o \in {o1, o2}} \cup {Record(o1, bundle, y), Record(o3, experiment, x)}
    \cup {Activate(o, bundle) : o \in {o1, o2, o3}} \cup {Activate(o3, experiment)}
MCReviewOps ==
  {Ask(q) : q \in {x, y}} \cup {Answer(i, q, d) : i \in {1, 2}, q \in {x, y}, d \in {yes, no}}

\* What the table modules assume of their constants.
ASSUME SessionAssumption /\ SignedCalls /\ EventLogCalls /\ OutboxCalls /\ ReviewCalls

logRows == <<rows, advisory, last>>
outboxRows == <<commands, outbox, inserting, nextId, found, answers>>
signedRows == <<row, holder, snapshot, todo>>
reviewRows == <<reviews, drawn, nextReview, accepted>>

SomeTable ==
  /\ table \in {"control_events", "commands", "signed_objects", "review_queue", "promotions"}
  /\ SessionInit /\ EventsInit /\ CommandsInit /\ SignedInit /\ ReviewsInit /\ StoreInit

TableNext ==
  /\ UNCHANGED table
  /\ \/ /\ table = "control_events" /\ LogNext
        /\ UNCHANGED <<outboxRows, signedRows, reviewRows, storeVars>>
     \/ /\ table = "commands" /\ OutboxNext
        /\ UNCHANGED <<logRows, signedRows, reviewRows, storeVars>>
     \/ /\ table = "signed_objects" /\ Next
        /\ UNCHANGED <<logRows, outboxRows, reviewRows, storeVars>>
     \/ /\ table = "review_queue" /\ ReviewNext
        /\ UNCHANGED <<logRows, outboxRows, signedRows, storeVars>>
     \/ /\ table = "promotions" /\ StoreNext
        /\ UNCHANGED <<logRows, outboxRows, signedRows, reviewRows, sessionVars>>

TableSpec ==
  SomeTable /\ [][TableNext]_<<table, sessionVars, logRows, outboxRows, signedRows, reviewRows,
                              storeVars>>

=============================================================================
