-------------------------- MODULE PromotionTxProofs --------------------------
(***************************************************************************)
(* The transactions implement the atomic store, for every set of sessions, *)
(* calls and drafters: nothing a transaction has read under the lock of    *)
(* the fence row changes before it commits.                                *)
(***************************************************************************)
EXTENDS PromotionTx, TLAPS

\* The points at which a transaction holds the row, and those at which it has
\* compared its number with the row.
Holding == {"locked", "fenced", "keyed", "checked", "pointed"}
Fenced == Holding \ {"locked"}

\* What session s has read is still what the tables say.
ReadsCurrent(s) ==
  /\ pc[s] # "idle" => call[s] \in Calls
  /\ pc[s] \in Holding => lock = s
  /\ pc[s] = "locked" => /\ call[s].op = "acquire_fence"
                         /\ read[s].fence = fence /\ fence < MaxFence
  /\ pc[s] \in Fenced => NeedsFence(s) /\ Store!Current(call[s].number)
  /\ pc[s] \in {"keyed", "checked", "pointed"} =>
       call[s].op # "set_active_pointer" /\ ~Store!KeyUsed(call[s].key)
  /\ pc[s] = "checked" => call[s].op = "promote_candidate"
  /\ (pc[s] \in {"checked", "pointed"} /\ call[s].op = "promote_candidate") => Promotable(s)
  /\ pc[s] = "pointed" => /\ pointer.active = ExpectedActive(s)
                          /\ read[s].active = pointer.active /\ read[s].parent = pointer.parent

SessionTypes == /\ fence \in 0..MaxFence /\ clock \in 0..MaxTime
                /\ pc \in [Sessions -> Points]
                /\ call \in [Sessions -> Calls \cup {NoCall}]
                /\ begun \in [Sessions -> Stamps]
                /\ DOMAIN read = Sessions
                /\ \A s \in Sessions : DOMAIN read[s] = {"fence", "active", "parent"}
                /\ DOMAIN candidates = Drafters

TxInv == SessionTypes /\ \A s \in Sessions : ReadsCurrent(s)

\* A step of another session that moves no row keeps what s has read.
LEMMA OthersQuiet ==
  ASSUME TxInv, NEW s \in Sessions, UNCHANGED rows,
         pc'[s] = pc[s], call'[s] = call[s], read'[s] = read[s],
         pc[s] \in Holding => lock' = lock
  PROVE  ReadsCurrent(s)'
<1>1. /\ Promotable(s)' = Promotable(s) /\ NeedsFence(s)' = NeedsFence(s)
      /\ ExpectedActive(s)' = ExpectedActive(s)
  BY DEF Promotable, NeedsFence, ExpectedActive, rows
<1>2. /\ \A f : Store!Current(f)' = Store!Current(f)
      /\ \A k : Store!KeyUsed(k)' = Store!KeyUsed(k)
  BY DEF rows, Store!Current, Store!KeyUsed
<1>3. ReadsCurrent(s)
  BY DEF TxInv
<1>4. pc'[s] \in Holding => lock' = s
  BY <1>3 DEF ReadsCurrent
<1>5. UNCHANGED <<fence, pointer>>
  BY DEF rows
<1> QED
  BY <1>1, <1>2, <1>3, <1>4, <1>5 DEF ReadsCurrent, Fenced, Holding

\* A session that is not holding the row has read nothing that counts.
LEMMA Uncommitted ==
  ASSUME NEW s \in Sessions, pc[s] \in {"idle", "begun"}, pc[s] # "idle" => call[s] \in Calls
  PROVE  ReadsCurrent(s)
BY DEF ReadsCurrent, Holding, Fenced

\* The end of a transaction of s.
LEMMA EndTypes ==
  ASSUME TxInv, NEW s \in Sessions, End(s), fence' \in 0..MaxFence,
         DOMAIN candidates' = Drafters
  PROVE  /\ SessionTypes'
         /\ pc'[s] = "idle" /\ ReadsCurrent(s)'
         /\ \A q \in Sessions : q # s => /\ pc'[q] = pc[q] /\ call'[q] = call[q]
                                         /\ read'[q] = read[q]
                                         /\ pc[q] \in Holding => lock' = lock
<1>1. SessionTypes'
  BY TxBounds DEF TxInv, SessionTypes, End, Points, Stamps, NothingRead
<1>2. pc'[s] = "idle"
  BY DEF TxInv, SessionTypes, End
<1>3. ReadsCurrent(s)'
  BY <1>2 DEF ReadsCurrent, Holding, Fenced
<1>4. \A q \in Sessions : q # s => /\ pc'[q] = pc[q] /\ call'[q] = call[q]
                                   /\ read'[q] = read[q]
                                   /\ pc[q] \in Holding => lock' = lock
  BY DEF TxInv, SessionTypes, End, ReadsCurrent
<1> QED
  BY <1>1, <1>2, <1>3, <1>4

\* A commit under the row lock: nobody else holds it.
LEMMA CommitLocked ==
  ASSUME TxInv, NEW s \in Sessions, pc[s] \in Holding, End(s), fence' \in 0..MaxFence,
         UNCHANGED candidates
  PROVE  TxInv'
<1>1. DOMAIN candidates' = Drafters
  BY DEF TxInv, SessionTypes
<1>2. ASSUME NEW q \in Sessions PROVE ReadsCurrent(q)'
  <2>1. CASE q = s
    BY <1>1, <2>1, EndTypes
  <2>2. CASE q # s
    <3>1. pc[q] \notin Holding
      BY <2>2 DEF TxInv, ReadsCurrent
    <3>2. pc'[q] = pc[q] /\ call'[q] = call[q]
      BY <1>1, <2>2, EndTypes
    <3> QED
      BY <3>1, <3>2 DEF TxInv, ReadsCurrent, Holding, Fenced
  <2> QED
    BY <2>1, <2>2
<1> QED
  BY <1>1, <1>2, EndTypes DEF TxInv

\* The end of a transaction that writes nothing.
LEMMA EndUnwritten ==
  ASSUME TxInv, NEW s \in Sessions, End(s), UNCHANGED rows
  PROVE  TxInv'
<1>1. fence' \in 0..MaxFence /\ DOMAIN candidates' = Drafters
  BY DEF TxInv, SessionTypes, rows
<1> QED
  BY <1>1, EndTypes, OthersQuiet DEF TxInv

\* A statement of s that moves no row and lets the row lock be taken only when
\* it is free.
LEMMA ReadStep ==
  ASSUME TxInv, NEW s \in Sessions, UNCHANGED <<rows, clock, call, begun>>,
         lock' = lock \/ lock = NoSession,
         NEW point \in Points, pc' = [pc EXCEPT ![s] = point],
         DOMAIN read' = Sessions, DOMAIN read'[s] = DOMAIN read[s],
         \A q \in Sessions : q # s => read'[q] = read[q],
         ReadsCurrent(s)'
  PROVE  TxInv'
<1>1. SessionTypes'
  BY DEF TxInv, SessionTypes, rows
<1>2. ASSUME NEW q \in Sessions, q # s PROVE ReadsCurrent(q)'
  <2>1. pc'[q] = pc[q]
    BY <1>2 DEF TxInv, SessionTypes
  <2>2. pc[q] \in Holding => lock' = lock
    BY TxSessions DEF TxInv, ReadsCurrent
  <2> QED
    BY <1>2, <2>1, <2>2, OthersQuiet
<1> QED
  BY <1>1, <1>2 DEF TxInv

\* Every step maps to a step of the store or a stutter, and keeps the invariant.
LEMMA StatementSteps ==
  ASSUME TxInv, NEW s \in Sessions, Statement(s)
  PROVE  TxInv' /\ [Store!StoreNext]_rows
<1> DEFINE c == call[s]
<1>0. /\ ReadsCurrent(s) /\ SessionTypes
      /\ DOMAIN pc = Sessions /\ DOMAIN read = Sessions /\ pc[s] \in Points
      /\ fence \in 0..MaxFence /\ begun[s] \in Stamps
  BY DEF TxInv, SessionTypes
<1>t. pc[s] # "idle" => /\ c \in Calls /\ c.candidate \in Drafters /\ c.parent \in Drafters
                        /\ c.verified \in BOOLEAN /\ c.number \in Nat /\ c.key \in Keys
                        /\ c.op \in Operations
  BY <1>0, TxCalls DEF ReadsCurrent
<1>r. /\ DOMAIN read = Sessions /\ DOMAIN read[s] = {"fence", "active", "parent"}
  BY DEF TxInv, SessionTypes
<1>1. CASE UpsertFence(s)
  <2>1. /\ pc[s] = "begun" /\ c.op = "acquire_fence" /\ lock = NoSession /\ lock' = s
        /\ fence < MaxFence /\ pc' = [pc EXCEPT ![s] = "locked"]
        /\ read' = [read EXCEPT ![s].fence = fence] /\ UNCHANGED <<rows, clock, call, begun>>
    BY <1>1 DEF UpsertFence
  <2>2. pc'[s] = "locked" /\ read'[s].fence = fence /\ fence' = fence
    BY <1>0, <1>r, <2>1 DEF rows
  <2>3. ReadsCurrent(s)'
    BY <1>t, <2>1, <2>2 DEF ReadsCurrent, Holding, Fenced
  <2>4. TxInv'
    BY <1>0, <1>r, <2>1, <2>3, ReadStep DEF Points
  <2> QED
    BY <2>1, <2>4
<1>2. CASE CommitFence(s)
  <2>1. pc[s] = "locked" /\ fence' = fence + 1 /\ fence < MaxFence
        /\ UNCHANGED <<pointer, candidates, actions, configured>> /\ End(s)
    BY <1>0, <1>2 DEF CommitFence, ReadsCurrent
  <2>2. fence' \in 0..MaxFence
    BY <1>0, <2>1, TxBounds
  <2>3. TxInv'
    BY <2>1, <2>2, CommitLocked DEF Holding
  <2>4. Store!AcquireFence
    BY <2>1 DEF Store!AcquireFence
  <2> QED
    BY <2>3, <2>4 DEF Store!StoreNext
<1>3. CASE RequireFence(s)
  <2>1. /\ pc[s] = "begun" /\ NeedsFence(s) /\ fence # 0 /\ lock = NoSession /\ lock' = s
        /\ c.number = fence /\ pc' = [pc EXCEPT ![s] = "fenced"]
        /\ UNCHANGED <<rows, clock, call, begun, read>>
    BY <1>3 DEF RequireFence
  <2>2. pc'[s] = "fenced" /\ fence' = fence
    BY <1>0, <2>1 DEF rows
  <2>3. ReadsCurrent(s)'
    BY <1>t, <2>1, <2>2 DEF ReadsCurrent, Holding, Fenced, NeedsFence, Store!Current
  <2>4. TxInv'
    BY <1>0, <1>r, <2>1, <2>3, ReadStep DEF Points
  <2> QED
    BY <2>1, <2>4
<1>4. CASE StaleFence(s) \/ KeyFound(s) \/ RefuseCandidate(s) \/ RefusePointer(s) \/ RefuseRollback(s)
  <2>1. End(s) /\ UNCHANGED rows
    BY <1>4 DEF StaleFence, KeyFound, RefuseCandidate, RefusePointer, RefuseRollback
  <2> QED
    BY <2>1, EndUnwritten
<1>5. CASE CommitPointer(s)
  <2>1. /\ pc[s] = "fenced" /\ End(s)
        /\ pointer' = [active |-> c.candidate, parent |-> c.parent, fence |-> c.number]
        /\ configured' = configured \cup {<<c.candidate, c.parent>>}
        /\ UNCHANGED <<fence, candidates, actions>>
    BY <1>5 DEF CommitPointer
  <2>2. Store!Current(c.number) /\ c.number \in 0..MaxFence
    BY <1>0, <2>1 DEF ReadsCurrent, Fenced, Holding, Store!Current
  <2>3. Store!SetActivePointer(c.candidate, c.parent, c.number)
    BY <2>1, <2>2 DEF Store!SetActivePointer
  <2>4. TxInv'
    BY <1>0, <2>1, CommitLocked DEF Holding
  <2>5. c.candidate \in Drafters /\ c.parent \in Drafters
    BY <1>t, <2>1
  <2> QED
    BY <2>2, <2>3, <2>4, <2>5 DEF Store!StoreNext
<1>6. CASE CommitCandidate(s)
  <2>1. /\ pc[s] = "begun" /\ End(s) /\ UNCHANGED <<fence, pointer, actions, configured>>
        /\ candidates' = IF candidates[c.candidate].parent = NoDrafter
                         THEN [candidates EXCEPT ![c.candidate] =
                                 [parent |-> c.parent, verified |-> c.verified]]
                         ELSE candidates
    BY <1>6 DEF CommitCandidate
  <2>2. fence' \in 0..MaxFence /\ DOMAIN candidates' = Drafters
    BY <1>0, <2>1 DEF SessionTypes
  <2>3. \A d \in Drafters : candidates[d].parent # NoDrafter => candidates'[d] = candidates[d]
    BY <1>0, <2>1 DEF SessionTypes
  <2>4. ASSUME NEW q \in Sessions, q # s PROVE ReadsCurrent(q)'
    <3>1. /\ ReadsCurrent(q) /\ pc'[q] = pc[q] /\ call'[q] = call[q] /\ read'[q] = read[q]
          /\ pc[q] \in Holding => lock' = lock
      BY <2>1, <2>2, <2>4, EndTypes DEF TxInv
    <3>2. (Promotable(q) /\ pc[q] # "idle") => Promotable(q)'
      <4>1. pc[q] # "idle" => call[q].candidate \in Drafters
        BY <3>1, TxCalls DEF ReadsCurrent
      <4> QED
        BY <2>3, <3>1, <4>1 DEF Promotable
    <3>3. /\ NeedsFence(q)' = NeedsFence(q) /\ ExpectedActive(q)' = ExpectedActive(q)
          /\ \A f : Store!Current(f)' = Store!Current(f)
          /\ \A k : Store!KeyUsed(k)' = Store!KeyUsed(k)
      BY <2>1, <3>1 DEF NeedsFence, ExpectedActive, Store!Current, Store!KeyUsed
    <3>4. pc'[q] \in Holding => lock' = q
      BY <3>1 DEF ReadsCurrent
    <3> QED
      BY <2>1, <3>1, <3>2, <3>3, <3>4 DEF ReadsCurrent, Holding, Fenced
  <2>5. TxInv'
    BY <2>1, <2>2, <2>4, EndTypes DEF TxInv
  <2>6. CASE candidates[c.candidate].parent = NoDrafter
    <3>1. Store!RecordCandidate(c.candidate, c.parent, c.verified)
      BY <2>1, <2>6 DEF Store!RecordCandidate
    <3>2. c.candidate \in Drafters /\ c.parent \in Drafters /\ c.verified \in BOOLEAN
      BY <1>t, <2>1
    <3> QED
      BY <2>5, <3>1, <3>2 DEF Store!StoreNext
  <2>7. CASE candidates[c.candidate].parent # NoDrafter
    BY <2>1, <2>5, <2>7 DEF rows
  <2> QED
    BY <2>6, <2>7
<1>7. CASE KeyAbsent(s)
  <2>1. /\ pc[s] = "fenced" /\ c.op \in {"promote_candidate", "rollback"}
        /\ ~Store!KeyUsed(c.key) /\ pc' = [pc EXCEPT ![s] = "keyed"]
        /\ UNCHANGED <<rows, clock, lock, call, begun, read>>
    BY <1>7 DEF KeyAbsent, Advance
  <2>2. pc'[s] = "keyed" /\ fence' = fence /\ actions' = actions
    BY <1>0, <2>1 DEF rows
  <2>3. ReadsCurrent(s)'
    BY <1>0, <1>t, <2>1, <2>2
       DEF ReadsCurrent, Holding, Fenced, NeedsFence, Store!Current, Store!KeyUsed
  <2> QED
    BY <1>0, <1>r, <2>1, <2>3, ReadStep DEF Points
<1>8. CASE CheckCandidate(s)
  <2>1. /\ pc[s] = "keyed" /\ c.op = "promote_candidate" /\ Promotable(s)
        /\ pc' = [pc EXCEPT ![s] = "checked"]
        /\ UNCHANGED <<rows, clock, lock, call, begun, read>>
    BY <1>8 DEF CheckCandidate, Advance
  <2>2. pc'[s] = "checked" /\ fence' = fence /\ actions' = actions /\ candidates' = candidates
    BY <1>0, <2>1 DEF rows
  <2>3. ReadsCurrent(s)'
    BY <1>0, <1>t, <2>1, <2>2
       DEF ReadsCurrent, Holding, Fenced, NeedsFence, Promotable, Store!Current, Store!KeyUsed
  <2> QED
    BY <1>0, <1>r, <2>1, <2>3, ReadStep DEF Points
<1>9. CASE CheckPointer(s)
  <2>1. /\ ReadsPointer(s) /\ pointer.active = ExpectedActive(s)
        /\ read' = [read EXCEPT ![s].active = pointer.active, ![s].parent = pointer.parent]
        /\ pc' = [pc EXCEPT ![s] = "pointed"] /\ UNCHANGED <<rows, clock, lock, call, begun>>
    BY <1>9 DEF CheckPointer, Advance
  <2>2. /\ pc'[s] = "pointed" /\ fence' = fence /\ actions' = actions
        /\ candidates' = candidates /\ pointer' = pointer
    BY <1>0, <2>1 DEF rows
  <2>3. read'[s].active = pointer.active /\ read'[s].parent = pointer.parent
        /\ DOMAIN read' = Sessions /\ DOMAIN read'[s] = DOMAIN read[s]
        /\ \A q \in Sessions : q # s => read'[q] = read[q]
    BY <1>r, <2>1
  <2>4. pc[s] \in {"keyed", "checked"}
    BY <2>1 DEF ReadsPointer
  <2>5. ReadsCurrent(s)'
    BY <1>0, <1>t, <2>1, <2>2, <2>3, <2>4
       DEF ReadsCurrent, ReadsPointer, Holding, Fenced, NeedsFence, Promotable, ExpectedActive,
           Store!Current, Store!KeyUsed
  <2> QED
    BY <1>0, <1>r, <2>1, <2>3, <2>5, ReadStep DEF Points
<1>10. CASE CommitPromotion(s)
  <2>1. /\ pc[s] = "pointed" /\ c.op = "promote_candidate" /\ End(s)
        /\ actions' = Append(actions, [key |-> c.key, kind |-> "promote",
                                       candidate |-> c.candidate, active |-> read[s].active,
                                       parent |-> read[s].parent, fence |-> c.number,
                                       at |-> begun[s]])
        /\ pointer' = [active |-> c.candidate, parent |-> c.parent, fence |-> c.number]
        /\ UNCHANGED <<fence, candidates, configured>>
    BY <1>10 DEF CommitPromotion
  <2>2. /\ Store!Current(c.number) /\ ~Store!KeyUsed(c.key) /\ Promotable(s)
        /\ pointer.active = c.parent /\ read[s].active = c.parent
        /\ read[s].parent = pointer.parent
    BY <1>0, <2>1 DEF ReadsCurrent, Holding, Fenced, ExpectedActive
  <2>3. Store!PromoteCandidate(c.candidate, c.parent, c.number, c.key, begun[s])
    BY <2>1, <2>2 DEF Store!PromoteCandidate, Promotable
  <2>4. TxInv'
    BY <1>0, <2>1, CommitLocked DEF Holding
  <2>5. c.candidate \in Drafters /\ c.parent \in Drafters /\ c.number \in 0..MaxFence
        /\ c.key \in Keys /\ begun[s] \in Stamps
    BY <1>0, <1>t, <2>1, <2>2 DEF Store!Current
  <2> QED
    BY <2>3, <2>4, <2>5 DEF Store!StoreNext
<1>11. CASE CommitRollback(s)
  <2>1. /\ pc[s] = "pointed" /\ c.op = "rollback" /\ End(s)
        /\ UNCHANGED <<fence, candidates, configured>>
    BY <1>11 DEF CommitRollback
  <2>2. PICK i \in Latest(c.candidate) :
          /\ actions' = Append(actions, [key |-> c.key, kind |-> "rollback",
                                         candidate |-> c.candidate,
                                         active |-> read[s].active, parent |-> actions[i].active,
                                         fence |-> c.number, at |-> begun[s]])
          /\ pointer' = [active |-> actions[i].active, parent |-> actions[i].parent,
                         fence |-> c.number]
    BY <1>11 DEF CommitRollback
  <2>3. i \in DOMAIN actions /\ actions[i].kind = "promote" /\ actions[i].candidate = c.candidate
    BY DEF Latest, PromotionsOf
  <2>4. /\ Store!Current(c.number) /\ ~Store!KeyUsed(c.key)
        /\ pointer.active = c.candidate /\ read[s].active = c.candidate
    BY <1>0, <2>1 DEF ReadsCurrent, Holding, Fenced, ExpectedActive
  <2>5. Store!Rollback(c.candidate, c.number, c.key, begun[s])
    BY <2>1, <2>2, <2>3, <2>4 DEF Store!Rollback
  <2>6. TxInv'
    BY <1>0, <2>1, CommitLocked DEF Holding
  <2>7. c.candidate \in Drafters /\ c.number \in 0..MaxFence
        /\ c.key \in Keys /\ begun[s] \in Stamps
    BY <1>0, <1>t, <2>1, <2>4 DEF Store!Current
  <2> QED
    BY <2>5, <2>6, <2>7 DEF Store!StoreNext
<1> QED
  BY <1>1, <1>2, <1>3, <1>4, <1>5, <1>6, <1>7, <1>8, <1>9, <1>10, <1>11 DEF Statement

\* The transactions implement the atomic store.
THEOREM TransactionsImplementStore == Spec => ImplementsStore
<1>1. Init => TxInv
  <2> SUFFICES ASSUME Init PROVE TxInv
    OBVIOUS
  <2>1. SessionTypes
    BY TxBounds DEF Init, Store!StoreInit, SessionTypes, Points, Stamps, NothingRead
  <2> QED
    BY <2>1 DEF Init, TxInv, ReadsCurrent, Holding, Fenced
<1>2. TxInv /\ [Next]_vars => TxInv' /\ [Store!StoreNext]_rows
  <2> SUFFICES ASSUME TxInv, [Next]_vars PROVE TxInv' /\ [Store!StoreNext]_rows
    OBVIOUS
  <2>1. ASSUME NEW s \in Sessions, NEW d \in Calls, Begin(s, d)
        PROVE  TxInv' /\ UNCHANGED rows
    <3>1. /\ UNCHANGED rows /\ pc'[s] = "begun" /\ call'[s] = d
          /\ \A q \in Sessions : q # s => /\ pc'[q] = pc[q] /\ call'[q] = call[q]
                                          /\ read'[q] = read[q] /\ lock' = lock
      BY <2>1 DEF Begin, TxInv, SessionTypes
    <3>2. SessionTypes'
      BY <2>1, TxBounds DEF Begin, TxInv, SessionTypes, Points, Stamps, rows
    <3>3. ReadsCurrent(s)'
      BY <3>1 DEF ReadsCurrent, Holding, Fenced
    <3>4. \A q \in Sessions : q # s => ReadsCurrent(q)'
      BY <3>1, OthersQuiet
    <3> QED
      BY <3>1, <3>2, <3>3, <3>4 DEF TxInv
  <2>2. ASSUME NEW s \in Sessions, Statement(s) PROVE TxInv' /\ [Store!StoreNext]_rows
    BY <2>2, StatementSteps
  <2>3. ASSUME NEW s \in Sessions, Abort(s) PROVE TxInv' /\ UNCHANGED rows
    BY <2>3, EndUnwritten DEF Abort
  <2>4. CASE UNCHANGED vars
    <3>1. UNCHANGED rows /\ UNCHANGED <<clock, lock, pc, call, begun, read>>
      BY <2>4 DEF vars, rows
    <3>2. SessionTypes'
      BY <3>1 DEF TxInv, SessionTypes, rows
    <3> QED
      BY <3>1, <3>2, OthersQuiet DEF TxInv
  <2> QED
    BY <2>1, <2>2, <2>3, <2>4 DEF Next
<1>3. Init => Store!StoreInit
  BY DEF Init
<1> QED
  BY <1>1, <1>2, <1>3, PTL DEF Spec, ImplementsStore, Store!StoreSpec, Store!storeVars, rows

=============================================================================
