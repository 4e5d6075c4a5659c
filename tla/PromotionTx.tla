----------------------------- MODULE PromotionTx -----------------------------
(***************************************************************************)
(* The transactions of the control store on the promotion tables of one    *)
(* experiment, statement by statement, in READ COMMITTED PostgreSQL.       *)
(*                                                                         *)
(* The variables of PromotionStore are the committed rows.  A transaction  *)
(* begins when its connection sets the search path, which fixes created_at *)
(* for all it inserts.  SELECT ... FOR UPDATE on the fence row and the     *)
(* upsert of acquire_fence wait for the transaction that holds the row;    *)
(* the lock goes with commit or abort.  The writes of a transaction are    *)
(* seen by nobody before it commits and are made in its commit step.  A    *)
(* connection may be lost between any two statements.                      *)
(***************************************************************************)
EXTENDS Integers, Sequences

CONSTANTS
    Drafters, NoDrafter, Keys, MaxFence,   \* see PromotionStore
    Sessions,      \* connections to the database
    Calls,         \* the calls that are made, with their arguments
    NoCall,
    NoSession,
    MaxTime        \* bound: transactions begun

ASSUME TxDrafters == NoDrafter \notin Drafters
ASSUME TxSessions == NoSession \notin Sessions /\ NoCall \notin Calls
ASSUME TxBounds == MaxFence \in Nat /\ MaxTime \in Nat

\* candidate and parent: the drafters a call names; number: the fencing number
\* it passes.
Operations == {"acquire_fence", "set_active_pointer", "record_candidate",
               "promote_candidate", "rollback"}

ASSUME TxCalls ==
  Calls \subseteq [op : Operations, candidate : Drafters, parent : Drafters,
                   verified : BOOLEAN, number : Nat, key : Keys]

VARIABLES
    fence, pointer, candidates, actions, configured,   \* see PromotionStore
    clock,         \* the next transaction start
    lock,          \* the session that holds the fence row
    pc,            \* pc[s]: the last statement of session s
    call,          \* call[s]: the call session s executes
    begun,         \* begun[s]: the start of its transaction
    read           \* read[s]: what it has read: the fence it adds one to, the pointer

vars == <<fence, pointer, candidates, actions, configured, clock, lock, pc, call, begun, read>>

Stamps == 0..MaxTime

Store == INSTANCE PromotionStore

rows == <<fence, pointer, candidates, actions, configured>>

Points == {"idle", "begun", "locked", "fenced", "keyed", "checked", "pointed"}

Reads == [fence : Nat, active : Drafters \cup {NoDrafter}, parent : Drafters \cup {NoDrafter}]

NothingRead == [fence |-> 0, active |-> NoDrafter, parent |-> NoDrafter]

Init ==
  /\ Store!StoreInit
  /\ clock = 0
  /\ lock = NoSession
  /\ pc = [s \in Sessions |-> "idle"]
  /\ call = [s \in Sessions |-> NoCall]
  /\ begun = [s \in Sessions |-> 0]
  /\ read = [s \in Sessions |-> NothingRead]

\* A connection is opened and its first statement starts the transaction.
Begin(s, c) ==
  /\ pc[s] = "idle"
  /\ clock < MaxTime
  /\ pc' = [pc EXCEPT ![s] = "begun"]
  /\ call' = [call EXCEPT ![s] = c]
  /\ begun' = [begun EXCEPT ![s] = clock]
  /\ clock' = clock + 1
  /\ UNCHANGED <<rows, lock, read>>

\* Mutant of End: the row lock outlives the transaction.
EndKeepingLock(s) ==
  /\ pc' = [pc EXCEPT ![s] = "idle"]
  /\ call' = [call EXCEPT ![s] = NoCall]
  /\ begun' = [begun EXCEPT ![s] = 0]
  /\ read' = [read EXCEPT ![s] = NothingRead]
  /\ UNCHANGED <<clock, lock>>

\* The transaction of s ends, and its lock with it.
End(s) ==
  /\ pc' = [pc EXCEPT ![s] = "idle"]
  /\ call' = [call EXCEPT ![s] = NoCall]
  /\ begun' = [begun EXCEPT ![s] = 0]
  /\ read' = [read EXCEPT ![s] = NothingRead]
  /\ lock' = IF lock = s THEN NoSession ELSE lock
  /\ UNCHANGED clock

\* Session s goes on to the next statement, all locks as they are.
Advance(s, point) ==
  /\ pc' = [pc EXCEPT ![s] = point]
  /\ UNCHANGED <<rows, clock, lock, call, begun>>

-----------------------------------------------------------------------------
(* acquire_fence, set_active_pointer and record_candidate *)

\* INSERT ... ON CONFLICT DO UPDATE: waits for the row, reads the number under
\* its lock and adds one.
UpsertFence(s) ==
  /\ pc[s] = "begun" /\ call[s].op = "acquire_fence"
  /\ lock = NoSession
  /\ fence < MaxFence
  /\ lock' = s
  /\ pc' = [pc EXCEPT ![s] = "locked"]
  /\ read' = [read EXCEPT ![s].fence = fence]
  /\ UNCHANGED <<rows, clock, call, begun>>

CommitFence(s) ==
  /\ pc[s] = "locked"
  /\ fence' = read[s].fence + 1
  /\ End(s)
  /\ UNCHANGED <<pointer, candidates, actions, configured>>

NeedsFence(s) == call[s].op \in {"set_active_pointer", "promote_candidate", "rollback"}

\* Mutant of RequireFence: the row is read without FOR UPDATE.
RequireFenceUnlocked(s) ==
  /\ pc[s] = "begun" /\ NeedsFence(s)
  /\ fence # 0 /\ call[s].number = fence
  /\ UNCHANGED read
  /\ Advance(s, "fenced")

\* _require_current_fence with the caller's number current: the row stays locked.
RequireFence(s) ==
  /\ pc[s] = "begun" /\ NeedsFence(s)
  /\ fence # 0 /\ lock = NoSession
  /\ call[s].number = fence
  /\ lock' = s
  /\ pc' = [pc EXCEPT ![s] = "fenced"]
  /\ UNCHANGED <<rows, clock, call, begun, read>>

\* No committed row is no row to wait for; otherwise the number is another one.
StaleFence(s) ==
  /\ pc[s] = "begun" /\ NeedsFence(s)
  /\ fence = 0 \/ (lock = NoSession /\ call[s].number # fence)
  /\ End(s)
  /\ UNCHANGED rows

CommitPointer(s) ==
  /\ pc[s] = "fenced" /\ call[s].op = "set_active_pointer"
  /\ pointer' = [active |-> call[s].candidate, parent |-> call[s].parent, fence |-> call[s].number]
  /\ configured' = configured \cup {<<call[s].candidate, call[s].parent>>}
  /\ End(s)
  /\ UNCHANGED <<fence, candidates, actions>>

\* The insert and its commit; a row that exists already is left alone.
CommitCandidate(s) ==
  /\ pc[s] = "begun" /\ call[s].op = "record_candidate"
  /\ candidates' = IF candidates[call[s].candidate].parent = NoDrafter
                   THEN [candidates EXCEPT ![call[s].candidate] =
                           [parent |-> call[s].parent, verified |-> call[s].verified]]
                   ELSE candidates
  /\ End(s)
  /\ UNCHANGED <<fence, pointer, actions, configured>>

-----------------------------------------------------------------------------
(* promote_candidate and rollback *)

KeyFound(s) ==
  /\ pc[s] = "fenced" /\ call[s].op \in {"promote_candidate", "rollback"}
  /\ Store!KeyUsed(call[s].key)
  /\ End(s)
  /\ UNCHANGED rows

KeyAbsent(s) ==
  /\ pc[s] = "fenced" /\ call[s].op \in {"promote_candidate", "rollback"}
  /\ ~Store!KeyUsed(call[s].key)
  /\ UNCHANGED read
  /\ Advance(s, "keyed")

\* The candidate exists, was loaded and has the expected parent.
Promotable(s) ==
  /\ candidates[call[s].candidate].parent # NoDrafter
  /\ candidates[call[s].candidate].verified
  /\ candidates[call[s].candidate].parent = call[s].parent

CheckCandidate(s) ==
  /\ pc[s] = "keyed" /\ call[s].op = "promote_candidate"
  /\ Promotable(s)
  /\ UNCHANGED read
  /\ Advance(s, "checked")

RefuseCandidate(s) ==
  /\ pc[s] = "keyed" /\ call[s].op = "promote_candidate"
  /\ ~Promotable(s)
  /\ End(s)
  /\ UNCHANGED rows

\* What the pointer must be: the expected parent, or the failed candidate.
ExpectedActive(s) ==
  IF call[s].op = "promote_candidate" THEN call[s].parent ELSE call[s].candidate

ReadsPointer(s) ==
  \/ pc[s] = "checked" /\ call[s].op = "promote_candidate"
  \/ pc[s] = "keyed" /\ call[s].op = "rollback"

CheckPointer(s) ==
  /\ ReadsPointer(s)
  /\ pointer.active = ExpectedActive(s)
  /\ read' = [read EXCEPT ![s].active = pointer.active, ![s].parent = pointer.parent]
  /\ Advance(s, "pointed")

RefusePointer(s) ==
  /\ ReadsPointer(s)
  /\ pointer.active # ExpectedActive(s)
  /\ End(s)
  /\ UNCHANGED rows

CommitPromotion(s) ==
  /\ pc[s] = "pointed" /\ call[s].op = "promote_candidate"
  /\ actions' = Append(actions, [key |-> call[s].key, kind |-> "promote",
                                 candidate |-> call[s].candidate,
                                 active |-> read[s].active, parent |-> read[s].parent,
                                 fence |-> call[s].number, at |-> begun[s]])
  /\ pointer' = [active |-> call[s].candidate, parent |-> call[s].parent, fence |-> call[s].number]
  /\ End(s)
  /\ UNCHANGED <<fence, candidates, configured>>

\* The promotions of the failed candidate, and the latest ones by created_at.
PromotionsOf(c) == {i \in DOMAIN actions : actions[i].kind = "promote" /\ actions[i].candidate = c}

Latest(c) == {i \in PromotionsOf(c) : \A j \in PromotionsOf(c) : actions[j].at <= actions[i].at}

\* The SELECT of the promotion, the INSERT, the UPDATE and the commit; all of
\* them under the lock of the fence row, which every writer of both tables takes.
CommitRollback(s) ==
  /\ pc[s] = "pointed" /\ call[s].op = "rollback"
  /\ \E i \in Latest(call[s].candidate) :
       /\ actions' = Append(actions, [key |-> call[s].key, kind |-> "rollback",
                                      candidate |-> call[s].candidate,
                                      active |-> read[s].active, parent |-> actions[i].active,
                                      fence |-> call[s].number, at |-> begun[s]])
       /\ pointer' = [active |-> actions[i].active, parent |-> actions[i].parent,
                      fence |-> call[s].number]
  /\ End(s)
  /\ UNCHANGED <<fence, candidates, configured>>

RefuseRollback(s) ==
  /\ pc[s] = "pointed" /\ call[s].op = "rollback"
  /\ PromotionsOf(call[s].candidate) = {}
  /\ End(s)
  /\ UNCHANGED rows

\* The connection or the process is lost: PostgreSQL undoes the transaction.
Abort(s) ==
  /\ pc[s] # "idle"
  /\ End(s)
  /\ UNCHANGED rows

-----------------------------------------------------------------------------

Statement(s) ==
  \/ UpsertFence(s) \/ CommitFence(s) \/ RequireFence(s) \/ StaleFence(s)
  \/ CommitPointer(s) \/ CommitCandidate(s)
  \/ KeyFound(s) \/ KeyAbsent(s) \/ CheckCandidate(s) \/ RefuseCandidate(s)
  \/ CheckPointer(s) \/ RefusePointer(s) \/ CommitPromotion(s)
  \/ CommitRollback(s) \/ RefuseRollback(s)

Next == \E s \in Sessions : (\E c \in Calls : Begin(s, c)) \/ Statement(s) \/ Abort(s)

Spec == Init /\ [][Next]_vars

\* The server and the process of a transaction that is not lost keep going.
Fairness == \A s \in Sessions : WF_vars(Statement(s))

FairSpec == Spec /\ Fairness

-----------------------------------------------------------------------------
(* Properties *)

\* Types of the rows and of the transactions.
TxTypeOK ==
  /\ Store!StoreTypeOK
  /\ clock \in 0..MaxTime
  /\ lock \in Sessions \cup {NoSession}
  /\ pc \in [Sessions -> Points]
  /\ call \in [Sessions -> Calls \cup {NoCall}]
  /\ begun \in [Sessions -> Stamps]
  /\ read \in [Sessions -> Reads]

\* Interleaved statement by statement, and lost at any point, the transactions
\* still take effect at once or not at all, under the fence they were given:
\* they implement the atomic store.
ImplementsStore == Store!StoreSpec

\* A rollback returns to the pointer that the latest promotion of its candidate
\* replaced (test_verified_candidate_promotes_and_rolls_back_atomically).
RollbackRestoresReplaced ==
  [][\A c \in Drafters :
       (/\ Len(actions') > Len(actions)
        /\ actions'[Len(actions')].kind = "rollback"
        /\ actions'[Len(actions')].candidate = c) =>
         \E i \in PromotionsOf(c) :
           /\ \A j \in PromotionsOf(c) : j <= i
           /\ pointer'.active = actions[i].active
           /\ pointer'.parent = actions[i].parent]_vars

\* No call waits for the fence row forever: whoever holds it ends.
CallsEnd == \A s \in Sessions : pc[s] # "idle" ~> pc[s] = "idle"

=============================================================================
