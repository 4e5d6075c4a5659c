--------------------------- MODULE PromotionStore ---------------------------
(***************************************************************************)
(* What the promotion tables of one experiment promise: every operation of *)
(* the control store takes effect at once or not at all, on the fence, the *)
(* active pointer, the candidates and the promotion actions.               *)
(*                                                                         *)
(* Rows are keyed by experiment, so one experiment is modelled.  Operations *)
(* that fail or find their key leave everything unchanged and are not      *)
(* actions here; PromotionTx has them.                                     *)
(***************************************************************************)
EXTENDS Integers, Sequences

CONSTANTS
    Drafters,      \* drafter and candidate ids
    NoDrafter,     \* an absent row
    Keys,          \* idempotency keys of promotions and rollbacks
    Stamps,        \* values of created_at
    MaxFence       \* bound: fencing numbers

ASSUME StoreDrafters == NoDrafter \notin Drafters
ASSUME StoreStamps == Stamps \subseteq Nat
ASSUME StoreBound == MaxFence \in Nat

VARIABLES
    fence,         \* the fencing number, 0 while the experiment has no fence row
    pointer,       \* the active pointer; active is NoDrafter while there is no row
    candidates,    \* candidates[d]: parent (NoDrafter: no row) and loader verdict
    actions,       \* the committed promotion actions, in commit order
    configured     \* history: the pairs of active and parent drafter an operator set

storeVars == <<fence, pointer, candidates, actions, configured>>

Pointers == [active : Drafters \cup {NoDrafter}, parent : Drafters \cup {NoDrafter},
             fence : Nat]

Candidates == [parent : Drafters \cup {NoDrafter}, verified : BOOLEAN]

\* before: the pointer the action replaced.  The code stores the two drafters of
\* a promotion; of a rollback it stores the target in place of the parent, which
\* it never reads back.
Actions == [key : Keys, kind : {"promote", "rollback"}, candidate : Drafters,
            active : Drafters, parent : Drafters, fence : Nat, at : Stamps]

StoreInit ==
  /\ fence = 0
  /\ pointer = [active |-> NoDrafter, parent |-> NoDrafter, fence |-> 0]
  /\ candidates = [d \in Drafters |-> [parent |-> NoDrafter, verified |-> FALSE]]
  /\ actions = <<>>
  /\ configured = {}

\* Mutant of Current: an older number is accepted.
CurrentOrOlder(f) == fence # 0 /\ f <= fence

\* The fence row is the experiment's own and the number is the caller's.
Current(f) == fence # 0 /\ f = fence

KeyUsed(k) == \E i \in DOMAIN actions : actions[i].key = k

AcquireFence ==
  /\ fence < MaxFence
  /\ fence' = fence + 1
  /\ UNCHANGED <<pointer, candidates, actions, configured>>

SetActivePointer(a, b, f) ==
  /\ Current(f)
  /\ pointer' = [active |-> a, parent |-> b, fence |-> f]
  /\ configured' = configured \cup {<<a, b>>}
  /\ UNCHANGED <<fence, candidates, actions>>

\* ON CONFLICT DO NOTHING: the first record of a candidate stands.
RecordCandidate(c, b, verdict) ==
  /\ candidates[c].parent = NoDrafter
  /\ candidates' = [candidates EXCEPT ![c] = [parent |-> b, verified |-> verdict]]
  /\ UNCHANGED <<fence, pointer, actions, configured>>

\* Mutant of PromoteCandidate: the loader verdict is not read.
PromoteUnverified(c, b, f, k, t) ==
  /\ Current(f)
  /\ ~KeyUsed(k)
  /\ candidates[c].parent = b
  /\ pointer.active = b
  /\ actions' = Append(actions, [key |-> k, kind |-> "promote", candidate |-> c,
                                 active |-> b, parent |-> pointer.parent,
                                 fence |-> f, at |-> t])
  /\ pointer' = [active |-> c, parent |-> b, fence |-> f]
  /\ UNCHANGED <<fence, candidates, configured>>

PromoteCandidate(c, b, f, k, t) ==
  /\ Current(f)
  /\ ~KeyUsed(k)
  /\ candidates[c].parent = b /\ candidates[c].verified
  /\ pointer.active = b
  /\ actions' = Append(actions, [key |-> k, kind |-> "promote", candidate |-> c,
                                 active |-> b, parent |-> pointer.parent,
                                 fence |-> f, at |-> t])
  /\ pointer' = [active |-> c, parent |-> b, fence |-> f]
  /\ UNCHANGED <<fence, candidates, configured>>

\* Mutant of Rollback: the parent of the pointer is left as it is.
RollbackKeepingParent(c, f, k, t) ==
  /\ Current(f)
  /\ ~KeyUsed(k)
  /\ pointer.active = c
  /\ \E i \in DOMAIN actions :
       /\ actions[i].kind = "promote" /\ actions[i].candidate = c
       /\ actions' = Append(actions, [key |-> k, kind |-> "rollback", candidate |-> c,
                                      active |-> c, parent |-> actions[i].active,
                                      fence |-> f, at |-> t])
       /\ pointer' = [active |-> actions[i].active, parent |-> pointer.parent, fence |-> f]
  /\ UNCHANGED <<fence, candidates, configured>>

\* A rollback undoes one promotion of the failed candidate.
Rollback(c, f, k, t) ==
  /\ Current(f)
  /\ ~KeyUsed(k)
  /\ pointer.active = c
  /\ \E i \in DOMAIN actions :
       /\ actions[i].kind = "promote" /\ actions[i].candidate = c
       /\ actions' = Append(actions, [key |-> k, kind |-> "rollback", candidate |-> c,
                                      active |-> c, parent |-> actions[i].active,
                                      fence |-> f, at |-> t])
       /\ pointer' = [active |-> actions[i].active, parent |-> actions[i].parent,
                      fence |-> f]
  /\ UNCHANGED <<fence, candidates, configured>>

StoreNext ==
  \/ AcquireFence
  \/ \E a, b \in Drafters, f \in 0..MaxFence : SetActivePointer(a, b, f)
  \/ \E c, b \in Drafters, verdict \in BOOLEAN : RecordCandidate(c, b, verdict)
  \/ \E c, b \in Drafters, f \in 0..MaxFence, k \in Keys, t \in Stamps :
       PromoteCandidate(c, b, f, k, t)
  \/ \E c \in Drafters, f \in 0..MaxFence, k \in Keys, t \in Stamps : Rollback(c, f, k, t)

StoreSpec == StoreInit /\ [][StoreNext]_storeVars

-----------------------------------------------------------------------------
(* Properties *)

\* Types of the rows.
StoreTypeOK ==
  /\ fence \in Nat
  /\ pointer \in Pointers
  /\ candidates \in [Drafters -> Candidates]
  /\ actions \in Seq(Actions)
  /\ configured \subseteq Drafters \X Drafters

\* What may serve: a drafter an operator configured, or a candidate that was
\* loaded successfully.
Trusted(d) == \/ \E q \in configured : d \in {q[1], q[2]}
              \/ candidates[d].parent # NoDrafter /\ candidates[d].verified

\* An active and a parent drafter that belong together: an operator set them
\* together, or the active one is a candidate recorded with this parent.
Linked(a, b) == <<a, b>> \in configured \/ candidates[a].parent = b

\* However promotions, rollbacks and operators follow each other, the active
\* drafter is never an unverified candidate nobody configured
\* (test_unverified_candidate_cannot_become_active).
ActiveIsTrusted == pointer.active # NoDrafter => Trusted(pointer.active)

\* Actions are committed in the order of their fencing numbers: nothing of a
\* deposed writer follows an action of its successor, and the pointer carries a
\* number at least as large as every action before it.
ActionsFenced ==
  /\ \A i, j \in DOMAIN actions : i < j => actions[i].fence <= actions[j].fence
  /\ \A i \in DOMAIN actions : actions[i].fence <= pointer.fence
  /\ pointer.fence <= fence

\* However operators, promotions and rollbacks follow each other, the active
\* drafter and the parent beside it belong together: a rollback never joins the
\* drafter of one earlier pointer to the parent of another
\* (test_verified_candidate_promotes_and_rolls_back_atomically).
PointerLinked ==
  pointer.active # NoDrafter => Linked(pointer.active, pointer.parent)

\* Every promotion replaced the parent its candidate was recorded with.
PromotionsLinked ==
  \A i \in DOMAIN actions : actions[i].kind = "promote" =>
    /\ candidates[actions[i].candidate].verified
    /\ candidates[actions[i].candidate].parent = actions[i].active

\* A key of a promotion or rollback takes effect at most once.
ActionKeysUnique ==
  \A i, j \in DOMAIN actions : actions[i].key = actions[j].key => i = j

=============================================================================
