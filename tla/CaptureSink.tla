---------------------------- MODULE CaptureSink ----------------------------
(***************************************************************************)
(* The sink that a patched server writes captured tensors to: put_sample   *)
(* stores the features of one sample one after the other under keys that   *)
(* a retry of the request reuses, and cleans up when one of them fails.    *)
(*                                                                         *)
(* One scheduler process writes.  The store is external: it refuses to put *)
(* under a key that exists, a put that it reports as failed has stored     *)
(* nothing, and a removal works unless a reader holds the key.             *)
(***************************************************************************)
EXTENDS Naturals

CONSTANTS
    NFeatures,     \* aux, last_hidden and the tensors passed through, in this order
    MaxSamples     \* bound: calls of put_sample

Features == 1 .. NFeatures

ASSUME SinkAssumption ==
  NFeatures \in Nat \ {0} /\ MaxSamples \in Nat

VARIABLES
    stored,        \* stored[f]: the call that stored feature f, or Absent
    samples,       \* how many calls of put_sample were made; the last one runs
    replace,       \* it is a retry that replaces
    feature,       \* the feature it writes next
    pc,
    response,      \* the call whose sample the client was told is stored, or Absent
    completed,     \* history: the calls that returned
    kept           \* history: a removal has failed

vars == <<stored, samples, replace, feature, pc, response, completed, kept>>

Absent == 0
Calls == 1 .. MaxSamples

Init ==
  /\ stored = [f \in Features |-> Absent]
  /\ samples = 0 /\ replace = FALSE /\ feature = 1 /\ pc = "idle" /\ response = Absent
  /\ completed = {} /\ kept = FALSE

PutSampleFromZero ==
  /\ pc = "idle" /\ samples < MaxSamples
  /\ samples' = samples + 1 /\ replace' \in BOOLEAN
  /\ feature' = 0 /\ pc' = "remove"
  /\ UNCHANGED <<stored, response, completed, kept>>

\* A client that replaces its sample gives up the one it had.
PutSample ==
  /\ pc = "idle" /\ samples < MaxSamples
  /\ samples' = samples + 1
  /\ replace' \in BOOLEAN
  /\ response' = IF replace' THEN Absent ELSE response
  /\ feature' = 1 /\ pc' = "remove"
  /\ UNCHANGED <<stored, completed, kept>>

\* _remove_quiet: what is left of these features.
Remove(features) ==
  \E held \in SUBSET {f \in features : stored[f] # Absent} :
    /\ stored' = [f \in Features |-> IF f \in features \ held THEN Absent ELSE stored[f]]
    /\ kept' = (kept \/ held # {})

RemoveOld ==
  /\ pc = "remove" /\ feature \in Features
  /\ IF replace THEN Remove({feature}) ELSE UNCHANGED <<stored, kept>>
  /\ pc' = "put"
  /\ UNCHANGED <<samples, replace, feature, response, completed>>

PutTensor ==
  /\ pc = "put" /\ stored[feature] = Absent
  /\ stored' = [stored EXCEPT ![feature] = samples]
  /\ feature' = feature + 1 /\ pc' = "remove"
  /\ UNCHANGED <<samples, replace, response, completed, kept>>

\* put_from fails, or the request lacks what the feature needs.
PutFails ==
  /\ pc \in {"remove", "put"} /\ feature \in Features
  /\ pc' = "clean"
  /\ UNCHANGED <<stored, samples, replace, feature, response, completed, kept>>

\* The features this call has written, which the failed one is not.
AllFeatures == Features
AllButLast == 1 .. (feature - 2)
Written == 1 .. (feature - 1)

CleanUp ==
  /\ pc = "clean"
  /\ Remove(Written)
  /\ pc' = "idle"
  /\ UNCHANGED <<samples, replace, feature, response, completed>>

Respond ==
  /\ pc = "remove" /\ feature \notin Features
  /\ response' = samples /\ completed' = completed \cup {samples} /\ pc' = "idle"
  /\ UNCHANGED <<stored, samples, replace, feature, kept>>

Next == PutSample \/ RemoveOld \/ PutTensor \/ PutFails \/ CleanUp \/ Respond

Spec == Init /\ [][Next]_vars

-----------------------------------------------------------------------------

SinkTypeOK ==
  /\ stored \in [Features -> {Absent} \cup Calls]
  /\ samples \in {Absent} \cup Calls /\ response \in {Absent} \cup Calls
  /\ completed \subseteq Calls /\ kept \in BOOLEAN
  /\ replace \in BOOLEAN /\ feature \in 1 .. (NFeatures + 1)
  /\ pc \in {"idle", "remove", "put", "clean"}

\* A sample that the client was told is stored is there with all its features,
\* until the client replaces it, whatever later calls under the same keys do: a
\* retry that does not replace is refused and cleans up nothing that was there
\* before it (put_sample).
ResponseStands ==
  response # Absent => \A f \in Features : stored[f] = response

\* No partial sample is consumable: between calls, and unless a removal has
\* failed, what can be read as a full set of features is the sample of one call, which did
\* not fail; a failed call leaves features of older ones behind, which no later
\* call may complete (put_sample's docstring).
NothingMixed ==
  pc = "idle" /\ ~kept /\ (\A f \in Features : stored[f] # Absent) =>
    \E call \in completed : \A f \in Features : stored[f] = call

=============================================================================
