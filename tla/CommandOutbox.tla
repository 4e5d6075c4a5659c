---------------------------- MODULE CommandOutbox ----------------------------
(***************************************************************************)
(* enqueue_command, statement by statement: an insert that does nothing    *)
(* when the key is there, a look at what is there, and the outbox row.     *)
(* Ids come from identity columns, which hand out each number once and     *)
(* take none back.  The rows of a transaction appear when it commits.      *)
(***************************************************************************)
EXTENDS Session

CONSTANTS
    Slots,         \* experiments with the idempotency keys of their commands
    Contents,      \* command types with their payloads
    NoRow,
    Enqueues

CommandRows == [id : Nat, content : Contents]

OutboxCalls ==
  /\ NoRow \notin CommandRows
  /\ Enqueues \subseteq [op : {"enqueue"}, slot : Slots, content : Contents]

VARIABLES
    commands,      \* commands[k]: the committed command in slot k
    outbox,        \* the committed outbox rows
    inserting,     \* inserting[k]: the session whose insert is not committed
    nextId,        \* the next command id
    found,         \* found[s]: the command id s goes on with
    answers        \* history: the calls that returned, with the id they returned

outboxVars == <<commands, outbox, inserting, nextId, found, answers, sessionVars>>

CommandsInit ==
  /\ commands = [k \in Slots |-> NoRow]
  /\ outbox = {}
  /\ inserting = [k \in Slots |-> NoSession]
  /\ nextId = 1
  /\ found = [s \in Sessions |-> 0]
  /\ answers = {}

OutboxInit == CommandsInit /\ SessionInit

CloseEnqueue(s) ==
  /\ End(s)
  /\ inserting' = [k \in Slots |-> IF inserting[k] = s THEN NoSession ELSE inserting[k]]
  /\ found' = [found EXCEPT ![s] = 0]

LeaveEnqueue(s) == CloseEnqueue(s) /\ UNCHANGED <<commands, outbox, nextId, answers>>

\* INSERT ... ON CONFLICT DO NOTHING: waits for an insert of the same key that
\* is not committed; an id is drawn even when the key is taken.
InsertCommand(s) ==
  /\ At(s, "begun", "enqueue")
  /\ inserting[call[s].slot] = NoSession
  /\ nextId' = nextId + 1
  /\ IF commands[call[s].slot] = NoRow
     THEN /\ inserting' = [inserting EXCEPT ![call[s].slot] = s]
          /\ found' = [found EXCEPT ![s] = nextId]
          /\ Goto(s, "inserted")
     ELSE Goto(s, "taken") /\ UNCHANGED <<inserting, found>>
  /\ UNCHANGED <<commands, outbox, answers>>

\* Mutant of SameContent: the key alone decides.
SameKey(s) == TRUE

SameContent(s) == commands[call[s].slot].content = call[s].content

\* The SELECT finds the row the insert has run into.
ReadTaken(s) ==
  /\ At(s, "taken", "enqueue")
  /\ commands[call[s].slot] # NoRow
  /\ SameContent(s)
  /\ found' = [found EXCEPT ![s] = commands[call[s].slot].id]
  /\ Goto(s, "read")
  /\ UNCHANGED <<commands, outbox, inserting, nextId, answers>>

ContentConflict(s) ==
  /\ At(s, "taken", "enqueue")
  /\ commands[call[s].slot] # NoRow
  /\ ~SameContent(s)
  /\ LeaveEnqueue(s)

Returned(s) == [slot |-> call[s].slot, content |-> call[s].content, id |-> found[s]]

\* Mutant of CommitCommand: the outbox row is left to a later transaction.
CommitWithoutOutbox(s) ==
  /\ At(s, "inserted", "enqueue")
  /\ commands' = [commands EXCEPT ![call[s].slot] = [id |-> found[s], content |-> call[s].content]]
  /\ answers' = answers \cup {Returned(s)}
  /\ CloseEnqueue(s)
  /\ UNCHANGED <<outbox, nextId>>

\* The outbox INSERT, and the commit of both rows.
CommitCommand(s) ==
  /\ At(s, "inserted", "enqueue")
  /\ commands' = [commands EXCEPT ![call[s].slot] = [id |-> found[s], content |-> call[s].content]]
  /\ outbox' = outbox \cup {found[s]}
  /\ answers' = answers \cup {Returned(s)}
  /\ CloseEnqueue(s)
  /\ UNCHANGED nextId

\* The outbox INSERT of a repeated call does nothing.
CommitRepeated(s) ==
  /\ At(s, "read", "enqueue")
  /\ outbox' = outbox \cup {found[s]}
  /\ answers' = answers \cup {Returned(s)}
  /\ CloseEnqueue(s)
  /\ UNCHANGED <<commands, nextId>>

AbortEnqueue(s) == pc[s] # "idle" /\ LeaveEnqueue(s)

EnqueueStatement(s) ==
  \/ InsertCommand(s) \/ ReadTaken(s) \/ ContentConflict(s)
  \/ CommitCommand(s) \/ CommitRepeated(s)

OutboxNext ==
  \E s \in Sessions :
    \/ \E c \in Enqueues :
         Begin(s, c) /\ UNCHANGED <<commands, outbox, inserting, nextId, found, answers>>
    \/ EnqueueStatement(s) \/ AbortEnqueue(s)

OutboxSpec == OutboxInit /\ [][OutboxNext]_outboxVars

-----------------------------------------------------------------------------
(* Properties *)

\* Every command is announced, and nothing else is
\* (test_command_and_outbox_commit_together).
CommandsAnnounced ==
  outbox = {commands[k].id : k \in {q \in Slots : commands[q] # NoRow}}

\* Whoever got an id back, first or repeated, got the id of a command with the
\* content it asked for, and the command is still the one under its key.
AnswersStand ==
  \A a \in answers : commands[a.slot] = [id |-> a.id, content |-> a.content]

=============================================================================
