------------------------ MODULE PromotionStoreProofs ------------------------
(***************************************************************************)
(* The promises of PromotionStore, proved for every set of drafters, keys  *)
(* and stamps and every number of operations.                              *)
(***************************************************************************)
EXTENDS PromotionStore, TLAPS

\* The pointer that a promotion replaced was trusted too: without it a rollback
\* could not be shown to lead back to a trusted drafter.
ReplacedTrusted ==
  \A i \in DOMAIN actions : actions[i].kind = "promote" => Trusted(actions[i].active)

\* The pointer that a promotion replaced was linked: a rollback restores both of
\* its drafters from one action.
ReplacedLinked ==
  \A i \in DOMAIN actions : actions[i].kind = "promote" =>
    Linked(actions[i].active, actions[i].parent)

\* A pointer row has both drafters.
PointerWhole == pointer.active # NoDrafter => pointer.parent # NoDrafter

StoreInv == /\ StoreTypeOK /\ PointerWhole /\ ActiveIsTrusted /\ ReplacedTrusted
            /\ PointerLinked /\ ReplacedLinked /\ ActionsFenced
            /\ PromotionsLinked /\ ActionKeysUnique

\* What appending does to a sequence.
LEMMA AppendFacts ==
  ASSUME NEW T, NEW q \in Seq(T), NEW x \in T
  PROVE  /\ Append(q, x) \in Seq(T)
         /\ Len(q) \in Nat /\ DOMAIN q = 1..Len(q)
         /\ DOMAIN Append(q, x) = 1..(Len(q) + 1)
         /\ Append(q, x)[Len(q) + 1] = x
         /\ \A i \in 1..Len(q) : Append(q, x)[i] = q[i]
OBVIOUS

\* Trust is never lost by a step that only adds candidates and configured ids.
LEMMA TrustGrows ==
  ASSUME NEW d, Trusted(d), configured \subseteq configured',
         \A c \in Drafters : candidates[c].parent # NoDrafter => candidates'[c] = candidates[c],
         d \in Drafters
  PROVE  Trusted(d)'
BY DEF Trusted

\* Nor are two drafters ever unlinked by such a step.
LEMMA LinkStays ==
  ASSUME NEW a \in Drafters, NEW b \in Drafters, Linked(a, b), configured \subseteq configured',
         \A c \in Drafters : candidates[c].parent # NoDrafter => candidates'[c] = candidates[c]
  PROVE  Linked(a, b)'
BY StoreDrafters DEF Linked

\* The safety of an operation that appends the action x and leaves fence,
\* candidates and configuration alone.
LEMMA AppendAction ==
  ASSUME StoreInv, NEW x \in Actions, actions' = Append(actions, x),
         pointer' \in Pointers, pointer'.fence = x.fence, x.fence = fence,
         pointer'.parent \in Drafters,
         UNCHANGED <<fence, candidates, configured>>,
         ~KeyUsed(x.key), Trusted(pointer'.active), Linked(pointer'.active, pointer'.parent),
         x.kind = "promote" => /\ candidates[x.candidate].verified
                               /\ candidates[x.candidate].parent = x.active
                               /\ Trusted(x.active) /\ Linked(x.active, x.parent)
  PROVE  StoreInv'
<1>0. actions \in Seq(Actions) /\ fence \in Nat /\ pointer.fence \in Nat
  BY DEF StoreInv, StoreTypeOK, Pointers
<1>1. PICK n \in Nat :
        /\ n = Len(actions) /\ DOMAIN actions = 1..n /\ DOMAIN actions' = 1..(n + 1)
        /\ actions' \in Seq(Actions) /\ actions'[n + 1] = x
        /\ \A i \in 1..n : actions'[i] = actions[i]
  <2>1. /\ Append(actions, x) \in Seq(Actions)
        /\ Len(actions) \in Nat /\ DOMAIN actions = 1..Len(actions)
        /\ DOMAIN Append(actions, x) = 1..(Len(actions) + 1)
        /\ Append(actions, x)[Len(actions) + 1] = x
        /\ \A i \in 1..Len(actions) : Append(actions, x)[i] = actions[i]
    BY <1>0, AppendFacts
  <2> QED
    BY <2>1
<1>2. \A i \in 1..n : actions[i] \in Actions /\ actions[i].fence \in Nat
  <2>1. \A i \in 1..n : actions[i] \in Actions
    BY <1>0, <1>1
  <2>2. \A y \in Actions : y.fence \in Nat
    BY DEF Actions
  <2> QED
    BY <2>1, <2>2
<1>3. StoreTypeOK'
  BY <1>1 DEF StoreInv, StoreTypeOK
<1>4. ActiveIsTrusted' /\ PointerWhole'
  BY StoreDrafters DEF ActiveIsTrusted, PointerWhole, Trusted
<1>5. ReplacedTrusted'
  BY <1>1 DEF StoreInv, ReplacedTrusted, Trusted
<1>7. PointerLinked' /\ ReplacedLinked'
  <2>1. PointerLinked'
    BY DEF PointerLinked, Linked
  <2>2. \A i \in 1..n : actions[i].kind = "promote" => Linked(actions[i].active, actions[i].parent)
    BY <1>1 DEF StoreInv, ReplacedLinked
  <2>3. \A i \in 1..(n + 1) :
          actions'[i].kind = "promote" => Linked(actions'[i].active, actions'[i].parent)
    BY <1>1, <2>2
  <2> QED
    BY <1>1, <2>1, <2>3 DEF ReplacedLinked, Linked
<1>6. ActionsFenced'
  <2>1. \A i \in 1..n : actions[i].fence <= x.fence
    BY <1>0, <1>1, <1>2 DEF StoreInv, ActionsFenced
  <2>2. \A i, j \in 1..(n + 1) : i < j => actions'[i].fence <= actions'[j].fence
    <3> SUFFICES ASSUME NEW i \in 1..(n + 1), NEW j \in 1..(n + 1), i < j
                 PROVE  actions'[i].fence <= actions'[j].fence
      OBVIOUS
    <3>1. i \in 1..n
      BY <1>1
    <3>2. CASE j = n + 1
      BY <1>1, <2>1, <3>1, <3>2
    <3>3. CASE j \in 1..n
      BY <1>1, <3>1, <3>3 DEF StoreInv, ActionsFenced
    <3> QED
      BY <1>1, <3>2, <3>3
  <2>3. \A i \in 1..(n + 1) : actions'[i].fence <= pointer'.fence
    <3> SUFFICES ASSUME NEW i \in 1..(n + 1) PROVE actions'[i].fence <= pointer'.fence
      OBVIOUS
    <3>1. CASE i = n + 1
      BY <1>0, <1>1, <3>1
    <3>2. CASE i \in 1..n
      BY <1>1, <2>1, <3>2
    <3> QED
      BY <1>1, <3>1, <3>2
  <2> QED
    BY <1>0, <1>1, <2>2, <2>3 DEF ActionsFenced
<1>8. PromotionsLinked'
  BY <1>1 DEF StoreInv, PromotionsLinked
<1>9. ActionKeysUnique'
  <2>1. \A i \in 1..n : actions[i].key # x.key
    BY <1>1 DEF KeyUsed
  <2> SUFFICES ASSUME NEW i \in 1..(n + 1), NEW j \in 1..(n + 1),
                      actions'[i].key = actions'[j].key
               PROVE  i = j
    BY <1>1 DEF ActionKeysUnique
  <2>2. CASE i \in 1..n /\ j \in 1..n
    BY <1>1, <2>2 DEF StoreInv, ActionKeysUnique
  <2>3. CASE i = n + 1 /\ j \in 1..n
    BY <1>1, <2>1, <2>3
  <2>4. CASE i \in 1..n /\ j = n + 1
    BY <1>1, <2>1, <2>4
  <2> QED
    BY <2>2, <2>3, <2>4
<1> QED
  BY <1>3, <1>4, <1>5, <1>6, <1>7, <1>8, <1>9 DEF StoreInv

\* The same for an operation that adds no action.
LEMMA NoAction ==
  ASSUME StoreInv, StoreTypeOK', UNCHANGED actions, configured \subseteq configured',
         \A c \in Drafters : candidates[c].parent # NoDrafter => candidates'[c] = candidates[c],
         pointer.fence <= pointer'.fence, pointer'.fence <= fence',
         pointer' = pointer \/ /\ Trusted(pointer.active)' /\ pointer'.parent \in Drafters
                               /\ Linked(pointer.active, pointer.parent)'
  PROVE  StoreInv'
<1>0. /\ actions \in Seq(Actions) /\ pointer \in Pointers /\ pointer' \in Pointers
      /\ fence \in Nat /\ fence' \in Nat
  BY DEF StoreInv, StoreTypeOK
<1>1. \A i \in DOMAIN actions : actions[i] \in Actions
  BY <1>0
<1>2. ActiveIsTrusted' /\ PointerWhole'
  <2>1. CASE pointer' = pointer
    <3>1. pointer.active # NoDrafter => pointer.active \in Drafters
      BY <1>0 DEF Pointers
    <3> QED
      BY <1>0, <2>1, <3>1, TrustGrows DEF StoreInv, ActiveIsTrusted, PointerWhole
  <2>2. CASE Trusted(pointer.active)' /\ pointer'.parent \in Drafters
    BY <2>2, StoreDrafters DEF ActiveIsTrusted, PointerWhole
  <2> QED
    BY <2>1, <2>2
<1>3. ReplacedTrusted'
  <2> SUFFICES ASSUME NEW i \in DOMAIN actions, actions[i].kind = "promote"
               PROVE  Trusted(actions[i].active)'
    BY DEF ReplacedTrusted
  <2>1. actions[i].active \in Drafters /\ Trusted(actions[i].active)
    BY <1>1 DEF Actions, StoreInv, ReplacedTrusted
  <2> QED
    BY <1>0, <2>1 DEF Trusted
<1>4. ActionsFenced'
  <2>1. \A i \in DOMAIN actions : actions[i].fence \in Nat
    BY <1>1 DEF Actions
  <2> QED
    BY <1>0, <2>1 DEF StoreInv, ActionsFenced, Pointers
<1>5. ActionKeysUnique'
  BY DEF StoreInv, ActionKeysUnique
<1>7. PointerLinked'
  <2>1. pointer.active # NoDrafter => pointer.active \in Drafters /\ pointer.parent \in Drafters
    BY <1>0 DEF Pointers, StoreInv, PointerWhole
  <2> QED
    BY <2>1, LinkStays DEF StoreInv, PointerLinked
<1>8. ReplacedLinked'
  <2> SUFFICES ASSUME NEW i \in DOMAIN actions, actions[i].kind = "promote"
               PROVE  Linked(actions[i].active, actions[i].parent)'
    BY DEF ReplacedLinked
  <2>1. /\ actions[i].active \in Drafters /\ actions[i].parent \in Drafters
        /\ Linked(actions[i].active, actions[i].parent)
    BY <1>1 DEF Actions, StoreInv, ReplacedLinked
  <2>2. Linked(actions[i].active, actions[i].parent)'
    BY <2>1, StoreDrafters DEF Linked
  <2> QED
    BY <2>2
<1>6. PromotionsLinked'
  <2> SUFFICES ASSUME NEW i \in DOMAIN actions, actions[i].kind = "promote"
               PROVE  /\ candidates'[actions[i].candidate].verified
                      /\ candidates'[actions[i].candidate].parent = actions[i].active
    BY DEF PromotionsLinked
  <2>1. /\ actions[i].candidate \in Drafters /\ actions[i].active \in Drafters
        /\ candidates[actions[i].candidate].verified
        /\ candidates[actions[i].candidate].parent = actions[i].active
    BY <1>1 DEF Actions, StoreInv, PromotionsLinked
  <2>2. candidates[actions[i].candidate].parent # NoDrafter
    BY <2>1, StoreDrafters
  <2> QED
    BY <2>1, <2>2
<1> QED
  BY <1>2, <1>3, <1>4, <1>5, <1>6, <1>7, <1>8 DEF StoreInv

LEMMA StoreInvInductive ==
  /\ StoreInit => StoreInv
  /\ StoreInv /\ [StoreNext]_storeVars => StoreInv'
<1>1. StoreInit => StoreInv
  <2> SUFFICES ASSUME StoreInit PROVE StoreInv
    OBVIOUS
  <2>1. StoreTypeOK
    BY DEF StoreInit, StoreTypeOK, Pointers, Candidates
  <2>2. DOMAIN actions = {}
    BY DEF StoreInit
  <2> QED
    BY <2>1, <2>2 DEF StoreInit, StoreInv, PointerWhole, ActiveIsTrusted, ReplacedTrusted,
       PointerLinked, ReplacedLinked, ActionsFenced, PromotionsLinked, ActionKeysUnique
<1>2. StoreInv /\ [StoreNext]_storeVars => StoreInv'
  <2> SUFFICES ASSUME StoreInv, [StoreNext]_storeVars PROVE StoreInv'
    OBVIOUS
  <2>0. /\ StoreTypeOK /\ pointer.fence \in Nat /\ pointer.fence <= fence /\ fence \in Nat
    BY DEF StoreInv, StoreTypeOK, ActionsFenced, Pointers
  <2>1. CASE AcquireFence
    <3>1. StoreTypeOK'
      BY <2>0, <2>1 DEF AcquireFence, StoreTypeOK
    <3> QED
      BY <2>0, <2>1, <3>1, NoAction DEF AcquireFence
  <2>2. ASSUME NEW a \in Drafters, NEW b \in Drafters, NEW f \in 0..MaxFence,
               SetActivePointer(a, b, f)
        PROVE  StoreInv'
    <3>1. f = fence /\ pointer' = [active |-> a, parent |-> b, fence |-> f]
          /\ configured' = configured \cup {<<a, b>>} /\ UNCHANGED <<fence, candidates, actions>>
      BY <2>2 DEF SetActivePointer, Current
    <3>2. StoreTypeOK'
      BY <2>0, <3>1 DEF StoreTypeOK, Pointers
    <3>3. Trusted(pointer.active)' /\ Linked(pointer.active, pointer.parent)'
      <4>1. <<a, b>> \in configured' /\ pointer'.active = a /\ pointer'.parent = b
        BY <3>1
      <4>2. <<a, b>>[1] = a
        OBVIOUS
      <4>3. Trusted(a)'
        BY <4>1, <4>2 DEF Trusted
      <4> QED
        BY <4>1, <4>3 DEF Trusted, Linked
    <3> QED
      BY <2>0, <3>1, <3>2, <3>3, NoAction
  <2>3. ASSUME NEW c \in Drafters, NEW b \in Drafters, NEW verdict \in BOOLEAN,
               RecordCandidate(c, b, verdict)
        PROVE  StoreInv'
    <3>1. StoreTypeOK'
      BY <2>0, <2>3 DEF RecordCandidate, StoreTypeOK, Candidates
    <3>2. \A d \in Drafters : candidates[d].parent # NoDrafter => candidates'[d] = candidates[d]
      BY <2>0, <2>3 DEF RecordCandidate, StoreTypeOK
    <3> QED
      BY <2>0, <2>3, <3>1, <3>2, NoAction DEF RecordCandidate
  <2>4. ASSUME NEW c \in Drafters, NEW b \in Drafters, NEW f \in 0..MaxFence, NEW k \in Keys,
               NEW t \in Stamps, PromoteCandidate(c, b, f, k, t)
        PROVE  StoreInv'
    <3> DEFINE x == [key |-> k, kind |-> "promote", candidate |-> c, active |-> b,
                     parent |-> pointer.parent, fence |-> f, at |-> t]
    <3>1. /\ f = fence /\ ~KeyUsed(k) /\ candidates[c].parent = b /\ candidates[c].verified
          /\ pointer.active = b /\ actions' = Append(actions, x)
          /\ pointer' = [active |-> c, parent |-> b, fence |-> f]
          /\ UNCHANGED <<fence, candidates, configured>>
      BY <2>4 DEF PromoteCandidate, Current
    <3>2. pointer.parent \in Drafters
      BY <2>0, <3>1, StoreDrafters DEF StoreInv, PointerWhole, StoreTypeOK, Pointers
    <3>3. x \in Actions
      BY <2>0, <3>1, <3>2 DEF Actions
    <3>4. Trusted(b) /\ Trusted(c)
      BY <3>1, StoreDrafters DEF StoreInv, ActiveIsTrusted, Trusted
    <3>5. Linked(b, pointer.parent) /\ Linked(c, b)
      BY <3>1, StoreDrafters DEF StoreInv, PointerLinked, Linked
    <3> QED
      BY <2>0, <3>1, <3>3, <3>4, <3>5, AppendAction DEF Pointers
  <2>5. ASSUME NEW c \in Drafters, NEW f \in 0..MaxFence, NEW k \in Keys, NEW t \in Stamps,
               Rollback(c, f, k, t)
        PROVE  StoreInv'
    <3>1. PICK i \in DOMAIN actions :
            /\ actions[i].kind = "promote" /\ actions[i].candidate = c
            /\ actions' = Append(actions, [key |-> k, kind |-> "rollback", candidate |-> c,
                                           active |-> c, parent |-> actions[i].active,
                                           fence |-> f, at |-> t])
            /\ pointer' = [active |-> actions[i].active, parent |-> actions[i].parent,
                           fence |-> f]
      BY <2>5 DEF Rollback
    <3>2. f = fence /\ ~KeyUsed(k) /\ UNCHANGED <<fence, candidates, configured>>
      BY <2>5 DEF Rollback, Current
    <3>3. /\ actions[i] \in Actions
          /\ Trusted(actions[i].active) /\ Linked(actions[i].active, actions[i].parent)
      BY <2>0, <3>1 DEF StoreTypeOK, StoreInv, ReplacedTrusted, ReplacedLinked
    <3> DEFINE x == [key |-> k, kind |-> "rollback", candidate |-> c, active |-> c,
                     parent |-> actions[i].active, fence |-> f, at |-> t]
    <3>4. x \in Actions
      BY <2>0, <3>2, <3>3 DEF Actions
    <3> QED
      BY <2>0, <3>1, <3>2, <3>3, <3>4, AppendAction DEF Pointers, Actions
  <2>6. CASE UNCHANGED storeVars
    BY <2>0, <2>6, NoAction DEF storeVars, StoreTypeOK
  <2> QED
    BY <2>1, <2>2, <2>3, <2>4, <2>5, <2>6 DEF StoreNext
<1> QED
  BY <1>1, <1>2

\* The store, whatever is called in whatever order, keeps all its promises.
THEOREM StoreSafe ==
  StoreSpec => [](/\ ActiveIsTrusted /\ PointerLinked /\ ActionsFenced
             /\ PromotionsLinked /\ ActionKeysUnique)
<1>1. StoreInv => /\ ActiveIsTrusted /\ PointerLinked /\ ActionsFenced
                  /\ PromotionsLinked /\ ActionKeysUnique
  BY DEF StoreInv
<1> QED
  BY <1>1, StoreInvInductive, PTL DEF StoreSpec

\* Whoever promotes, rolls back or configures, actions follow the fences.
THEOREM ActionsAlwaysFenced == StoreSpec => []ActionsFenced
BY StoreSafe, PTL

\* Whatever chain of promotions, rollbacks and operator changes led to it, the
\* active drafter stands beside a parent it belongs to.
THEOREM PointerAlwaysLinked == StoreSpec => []PointerLinked
BY StoreSafe, PTL

=============================================================================
