----------------------------- MODULE DataSplit -----------------------------
(***************************************************************************)
(* The partition plan and the firewall in front of its users: rows that    *)
(* share a repository, their syntax or their operations are grouped, one   *)
(* row after the other, groups are assigned to partitions, and a record is *)
(* let through to training, to the judge or to promotion by the signed     *)
(* membership (build_partition_plan, DataFirewall).                        *)
(*                                                                         *)
(* The signed manifest has the plan's membership, as its validator checks; *)
(* hashes that decide on a bucket are any function.                        *)
(***************************************************************************)
EXTENDS Naturals, FiniteSets

CONSTANTS
    Rows,          \* row numbers
    rank,          \* rank[r]: the place of r among the rows as strings
    Values,        \* repositories, syntax hashes and operation hashes
    Few            \* with fewer accepted rows than this, 20, all are for training

SplitAssumption ==
  /\ IsFiniteSet(Rows) /\ Rows \subseteq Nat /\ Few \in Nat
  /\ \A r, s \in Rows : rank[r] \in Nat /\ (rank[r] = rank[s] => r = s)

VARIABLES
    keys,          \* keys[r]: what the accepted row r has
    todo,          \* the rows that are not grouped yet
    parent,        \* of the union-find
    equivalence,   \* equivalence[k][v]: the last row with value v of kind k
    membership     \* the partition of each row, or "none" before they are assigned

splitVars == <<keys, todo, parent, equivalence, membership>>

Kinds == {"repo", "ast", "operation-family"}
Internal == {"train", "evaluator-development", "promotion-same-family", "promotion-unseen-family"}
Partitions == Internal \cup {"public-audit", "quarantine"}

Accepted == DOMAIN keys

\* Every other row is in quarantine.
SplitInit ==
  /\ \E accepted \in SUBSET Rows : keys \in [accepted -> [Kinds -> Values]]
  /\ todo = Accepted
  /\ parent = [r \in Accepted |-> r]
  /\ equivalence = [k \in Kinds |-> [v \in Values |-> {}]]
  /\ membership = [r \in Accepted |-> "none"]

-----------------------------------------------------------------------------
(* _UnionFind. *)

\* The rows that find passes on its way from r to the root.
PathIn(p) ==
  LET path[r \in DOMAIN p] == IF p[r] = r THEN {r} ELSE {r} \cup path[p[r]] IN path

RootIn(p, r) == CHOOSE root \in PathIn(p)[r] : p[root] = root

\* find shortens the path.
Found(p, r) == [q \in DOMAIN p |-> IF q \in PathIn(p)[r] THEN RootIn(p, r) ELSE p[q]]

UnionOfRows(p, left, right) ==
  IF rank[left] < rank[right] THEN [p EXCEPT ![right] = left] ELSE [p EXCEPT ![left] = right]
Union(p, left, right) ==
  LET found == Found(Found(p, left), right)
      l == RootIn(p, left)
      r == RootIn(p, right)
  IN CASE l = r -> found
       [] rank[l] < rank[r] -> [found EXCEPT ![r] = l]
       [] rank[r] < rank[l] -> [found EXCEPT ![l] = r]

\* The row that had this value before, if there was one.
Join(p, r, k) ==
  LET previous == equivalence[k][keys[r][k]]
  IN IF previous = {} THEN p ELSE Union(p, CHOOSE q \in previous : TRUE, r)

GroupRow(r) ==
  /\ r \in todo /\ \A q \in todo : r <= q
  /\ todo' = todo \ {r}
  /\ parent' = Join(Join(Join(parent, r, "repo"), r, "ast"), r, "operation-family")
  /\ equivalence' = [k \in Kinds |-> [equivalence[k] EXCEPT ![keys[r][k]] = {r}]]
  /\ UNCHANGED <<keys, membership>>

-----------------------------------------------------------------------------
(* The partitions. *)

Group(r) == {q \in Accepted : RootIn(parent, q) = RootIn(parent, r)}
Families(rows) == {keys[r]["operation-family"] : r \in rows}

\* The partition of a group, by the bucket of one of its families and by its own.
Buckets == {"evaluator-development", "promotion-same-family", "train"}

Partition(group, family, unseen, bucket) ==
  IF Cardinality(Accepted) < Few THEN "train"
  ELSE IF family \in unseen THEN "promotion-unseen-family" ELSE bucket

\* The family is the least of the group's hashes.
AssignPartitions ==
  /\ todo = {} /\ Accepted # {} /\ \A r \in Accepted : membership[r] = "none"
  /\ LET groups == {Group(r) : r \in Accepted}
     IN \E unseen \in SUBSET Values, least \in [SUBSET Values \ {{}} -> Values],
           bucket \in [groups -> Buckets] :
          /\ \A families \in DOMAIN least : least[families] \in families
          /\ membership' = [r \in Accepted |->
               Partition(Group(r), least[Families(Group(r))], unseen, bucket[Group(r)])]
  /\ UNCHANGED <<keys, todo, parent, equivalence>>

SplitNext == AssignPartitions \/ \E r \in Rows : GroupRow(r)

SplitSpec == SplitInit /\ [][SplitNext]_splitVars

-----------------------------------------------------------------------------
(* DataFirewall. *)

\* A record names a row, its source and the partition it says it is in.
Records == [row : Rows, source : {"manifest", "sealed", "other"}, partition : Partitions]

SourceTrusted(claim) == claim.source = "manifest" /\ claim.row \in Accepted
Trusted(claim) ==
  /\ claim.source = "manifest"
  /\ claim.row \in Accepted
  /\ membership[claim.row] = claim.partition

AuthorizeTraining(claim) == Trusted(claim) /\ claim.partition = "train"
AuthorizeJudge(claim) ==
  Trusted(claim) /\ claim.partition \in {"train", "evaluator-development"}
AuthorizePromotion(claim) ==
  Trusted(claim) /\ claim.partition \in {"promotion-same-family", "promotion-unseen-family"}

RowsFor(Authorize(_)) == {claim.row : claim \in {x \in Records : Authorize(x)}}

-----------------------------------------------------------------------------

Assigned == \E r \in Accepted : membership[r] # "none"

Share(r, s) == \E k \in Kinds : keys[r][k] = keys[s][k]

\* The rows connected to r by rows that share something, the grouping's reference.
Reach(n) ==
  LET reach[i \in 0 .. Cardinality(Rows)] ==
        IF i = 0 THEN {n}
        ELSE {s \in Accepted : s \in reach[i - 1] \/ \E r \in reach[i - 1] : Share(r, s)}
  IN reach[Cardinality(Rows)]

\* The groups are what the rows' shared values connect, also through rows that come
\* later and join two groups, and each is named by its least row as a string, in
\* whatever order the rows came (build_partition_plan, _UnionFind).
GroupsAreConnected ==
  todo = {} =>
    \A r \in Accepted :
      /\ Group(r) = Reach(r)
      /\ \A s \in Group(r) : rank[RootIn(parent, r)] <= rank[s]

\* A row that may be trained on shares no repository, no syntax and no operations
\* with one that candidates are measured on, nor does a row that the judge sees,
\* whatever partition a record claims (README: sealed data; the firewall's tests).
MeasuredOnUnseen ==
  Assigned =>
    \A r \in RowsFor(AuthorizeTraining) \cup RowsFor(AuthorizeJudge),
       s \in RowsFor(AuthorizePromotion) : ~Share(r, s)

=============================================================================
