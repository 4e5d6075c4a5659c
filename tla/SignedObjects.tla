---------------------------- MODULE SignedObjects ----------------------------
(***************************************************************************)
(* The signed objects of the control store: versions of a bundle or of an  *)
(* experiment, of which at most one per type is active.  Recording looks   *)
(* the hash up and inserts in separate statements; activating locks the    *)
(* row of the object alone, then updates the rows of the type one by one,  *)
(* in an order PostgreSQL chooses, waiting for the lock of each.           *)
(*                                                                         *)
(* A hash stands for its payload, so a row is told apart by its type and   *)
(* its approval.  Rows become visible at commit.                           *)
(***************************************************************************)
EXTENDS Session, Sequences, FiniteSets, SequencesExt

CONSTANTS
    Objects,       \* object hashes
    Types,
    Approvals,
    Absent,        \* no row
    Calls

VARIABLES
    row,           \* row[o]: the committed row of object o
    holder,        \* holder[o]: the session that has its row locked or its hash inserted
    snapshot,      \* snapshot[s]: the rows the first UPDATE of s saw
    todo           \* todo[s]: those it has still to visit, the next one first

vars == <<row, holder, snapshot, todo, sessionVars>>

Rows == [type : Types, approval : Approvals, active : BOOLEAN]

SignedCalls ==
  /\ Calls \subseteq [op : {"record", "activate"}, object : Objects, type : Types,
                      approval : Approvals]
  /\ IsFiniteSet(Objects) /\ Absent \notin Rows

SignedInit ==
  /\ row = [o \in Objects |-> Absent]
  /\ holder = [o \in Objects |-> NoSession]
  /\ snapshot = [s \in Sessions |-> {}]
  /\ todo = [s \in Sessions |-> <<>>]

Init == SignedInit /\ SessionInit

\* The transaction of s ends, and its locks with it.
Close(s) ==
  /\ End(s)
  /\ holder' = [o \in Objects |-> IF holder[o] = s THEN NoSession ELSE holder[o]]
  /\ snapshot' = [snapshot EXCEPT ![s] = {}]
  /\ todo' = [todo EXCEPT ![s] = <<>>]

Present(o) == row[o] # Absent

Free(o, s) == holder[o] \in {NoSession, s}

\* A call that fails or finds nothing to do leaves the table alone.
Leave(s) == Close(s) /\ UNCHANGED row

-----------------------------------------------------------------------------
(* record_signed_object *)

\* The hash is there already, with the same type and approval or with others.
RecordFound(s) ==
  /\ At(s, "begun", "record")
  /\ Present(call[s].object)
  /\ Leave(s)

RecordAbsent(s) ==
  /\ At(s, "begun", "record")
  /\ ~Present(call[s].object)
  /\ Goto(s, "absent")
  /\ UNCHANGED <<row, holder, snapshot, todo>>

\* The INSERT waits for a transaction that inserts the same hash.
Insert(s) ==
  /\ At(s, "absent", "record")
  /\ Free(call[s].object, s) /\ ~Present(call[s].object)
  /\ holder' = [holder EXCEPT ![call[s].object] = s]
  /\ Goto(s, "inserted")
  /\ UNCHANGED <<row, snapshot, todo>>

\* The primary key refuses the row of a call that another one has overtaken.
InsertRefused(s) ==
  /\ At(s, "absent", "record")
  /\ Present(call[s].object)
  /\ Leave(s)

CommitRecord(s) ==
  /\ At(s, "inserted", "record")
  /\ row' = [row EXCEPT ![call[s].object] =
               [type |-> call[s].type, approval |-> call[s].approval, active |-> FALSE]]
  /\ Close(s)

-----------------------------------------------------------------------------
(* activate_signed_object *)

\* The rows of a type: the object must be one, and all of them are cleared.
OfType(t) == {o \in Objects : Present(o) /\ row[o].type = t}

\* SELECT ... FOR UPDATE of the object.
LockRow(s) ==
  /\ At(s, "begun", "activate")
  /\ call[s].object \in OfType(call[s].type)
  /\ Free(call[s].object, s)
  /\ holder' = [holder EXCEPT ![call[s].object] = s]
  /\ Goto(s, "locked")
  /\ UNCHANGED <<row, snapshot, todo>>

ActivateRefused(s) ==
  /\ At(s, "begun", "activate")
  /\ call[s].object \notin OfType(call[s].type)
  /\ Leave(s)

\* Mutant of Cleared: only the row that is active is looked at.
ActiveOfType(t) == {o \in OfType(t) : row[o].active}

\* The rows the first UPDATE visits.
Cleared(t) == OfType(t)

StartClear(s) ==
  /\ At(s, "locked", "activate")
  /\ snapshot' = [snapshot EXCEPT ![s] = Cleared(call[s].type)]
  /\ \E q \in SetToSeqs(Cleared(call[s].type)) : todo' = [todo EXCEPT ![s] = q]
  /\ Goto(s, "clearing")
  /\ UNCHANGED <<row, holder>>

ClearRow(s) ==
  /\ At(s, "clearing", "activate")
  /\ todo[s] # <<>>
  /\ Free(Head(todo[s]), s)
  /\ holder' = [holder EXCEPT ![Head(todo[s])] = s]
  /\ todo' = [todo EXCEPT ![s] = Tail(@)]
  /\ UNCHANGED <<row, snapshot, sessionVars>>

\* Every row of the snapshot is inactive, the object itself active again.
CommitActivate(s) ==
  /\ At(s, "clearing", "activate")
  /\ todo[s] = <<>>
  /\ row' = [o \in Objects |-> IF o \in snapshot[s] \cup {call[s].object}
                               THEN [row[o] EXCEPT !.active = (o = call[s].object)]
                               ELSE row[o]]
  /\ Close(s)

-----------------------------------------------------------------------------

\* The connection is lost, and the transaction with it.
Abort(s) == pc[s] # "idle" /\ Leave(s)

\* Whom s waits for while it holds rows itself.
BlockedBy(s) ==
  IF At(s, "clearing", "activate") /\ todo[s] # <<>> /\ ~Free(Head(todo[s]), s)
  THEN holder[Head(todo[s])] ELSE NoSession

\* PostgreSQL ends a transaction of a circle in which each waits for the next.
BreakDeadlock(s) ==
  /\ \E circle \in SUBSET Sessions :
       s \in circle /\ circle = {BlockedBy(q) : q \in circle}
  /\ Leave(s)

Statement(s) ==
  \/ RecordFound(s) \/ RecordAbsent(s) \/ Insert(s) \/ InsertRefused(s) \/ CommitRecord(s)
  \/ LockRow(s) \/ ActivateRefused(s) \/ StartClear(s) \/ ClearRow(s) \/ CommitActivate(s)

Next ==
  \E s \in Sessions :
    \/ \E c \in Calls : Begin(s, c) /\ UNCHANGED <<row, holder, snapshot, todo>>
    \/ Statement(s) \/ Abort(s) \/ BreakDeadlock(s)

Spec == Init /\ [][Next]_vars

-----------------------------------------------------------------------------
(* Properties *)

\* At most one version of a type is active, whoever activates what at the same
\* time (test_signed_objects_require_exact_identity_and_one_active_version).
OneActive ==
  \A o, p \in Objects :
    (/\ Present(o) /\ row[o].active
     /\ Present(p) /\ row[p].active
     /\ row[o].type = row[p].type) => o = p

=============================================================================
