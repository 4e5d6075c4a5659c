---------------------------- MODULE MCPromotion ----------------------------
(* Small instances of PromotionTx for TLC. *)
EXTENDS PromotionTx, TLC

CONSTANTS a, b, k1, k2, k3, k4, s1, s2

\* The arguments a call does not use have one value.
CallOf(op, c, p, verified, f, k) ==
  [op |-> op, candidate |-> c, parent |-> p, verified |-> verified, number |-> f, key |-> k]

Fencing == {CallOf("acquire_fence", a, a, FALSE, 1, k1)}
Configure(f) == {CallOf("set_active_pointer", a, a, FALSE, f, k1)}
Reconfigure(f) == {CallOf("set_active_pointer", a, b, FALSE, f, k1)}
Record(verified) == {CallOf("record_candidate", b, a, v, 1, k1) : v \in verified}
Promote(f, keys) == {CallOf("promote_candidate", b, a, FALSE, f, k) : k \in keys}
Undo(f, keys) == {CallOf("rollback", b, a, FALSE, f, k) : k \in keys}

MixedCalls ==
  Fencing \cup Configure(1) \cup Record(BOOLEAN) \cup Promote(1, {k1})
    \cup Promote(2, {k2}) \cup Undo(1, {k1}) \cup Undo(2, {k3})
    \cup {CallOf("set_active_pointer", b, a, FALSE, 2, k1)}

RollbackCalls ==
  Fencing \cup Configure(1) \cup Reconfigure(1) \cup Record({TRUE})
    \cup Promote(1, {k1, k2}) \cup Undo(1, {k3, k4})

=============================================================================
