---------------------- MODULE SampledDistributionProofs ----------------------
(***************************************************************************)
(* The gate on sampled outputs, for any rule, arms and draws: the distance *)
(* of two outputs is the least number of edits, by induction over the      *)
(* table of distances; what the bootstrap looks up by index is what the    *)
(* resampled replies give; and the bound that it takes leaves no more of   *)
(* the resamples above it than the confidence does.                        *)
(***************************************************************************)
EXTENDS SampledDistribution, TrainingDataProofs

-----------------------------------------------------------------------------
(* The distance of tokens *)

\* g is computed over 1 .. n from base, by a step that takes an index and the value before.
Computed(n, V, base, step, g) ==
  g \in [0 .. n -> V] /\ g[0] = base /\ \A j \in 1 .. n : g[j] = step[<<j, g[j - 1]>>]

InStep(n, g, h) == g[0] = h[0] /\ \A j \in 1 .. n : g[j - 1] = h[j - 1] => g[j] = h[j]

Agree(n, g, h) == \A j \in 0 .. n : g[j] = h[j]

\* A recursion over 1 .. n has a solution.
LEMMA Recursion ==
  ASSUME NEW n \in Nat, NEW V, NEW base \in V, NEW step \in [(1 .. n) \X V -> V]
  PROVE  \E g : Computed(n, V, base, step, g)
<1> DEFINE Solves(g, k) == g[0] = base /\ \A j \in 1 .. k : g[j] = step[<<j, g[j - 1]>>]
           solved == {k \in Nat : k <= n => \E g \in [0 .. k -> V] : Solves(g, k)}
<1>1. 0 \in solved
  <2>1. Solves([j \in 0 .. 0 |-> base], 0)
    OBVIOUS
  <2>2. [j \in 0 .. 0 |-> base] \in [0 .. 0 -> V]
    OBVIOUS
  <2> HIDE DEF Solves
  <2> QED
    BY <2>1, <2>2
<1>2. ASSUME NEW k \in Nat, k \in solved PROVE k + 1 \in solved
  <2> SUFFICES ASSUME k + 1 <= n PROVE \E g \in [0 .. k + 1 -> V] : Solves(g, k + 1)
    OBVIOUS
  <2>1. PICK g \in [0 .. k -> V] : Solves(g, k)
    BY <1>2
  <2> DEFINE h == [j \in 0 .. k + 1 |-> IF j = k + 1 THEN step[<<k + 1, g[k]>>] ELSE g[j]]
  <2>2. step[<<k + 1, g[k]>>] \in V
    OBVIOUS
  <2>3. h \in [0 .. k + 1 -> V]
    BY <2>2
  <2>4. h[0] = base
    BY <2>1
  <2>5. ASSUME NEW j \in 1 .. k + 1 PROVE h[j] = step[<<j, h[j - 1]>>]
    <3>1. CASE j = k + 1
      <4>1. h[k + 1] = step[<<k + 1, g[k]>>] /\ h[k] = g[k] /\ j - 1 = k
        BY <3>1
      <4> QED
        BY <3>1, <4>1
    <3>2. CASE j # k + 1
      <4>1. j \in 1 .. k /\ j \in 0 .. k /\ j - 1 \in 0 .. k /\ h[j] = g[j] /\ h[j - 1] = g[j - 1]
        BY <3>2
      <4> QED
        BY <2>1, <4>1
    <3> QED
      BY <3>1, <3>2
  <2>6. Solves(h, k + 1)
    BY <2>4, <2>5
  <2> HIDE DEF Solves, h
  <2> QED
    BY <2>3, <2>6
<1>3. n \in solved
  <2> HIDE DEF solved
  <2>1. Nat \subseteq solved
    BY <1>1, <1>2, Induct
  <2> QED
    BY <2>1
<1> QED
  BY <1>3 DEF Computed

\* Two solutions are one.
LEMMA OneSolution ==
  ASSUME NEW n \in Nat, NEW g, NEW h, InStep(n, g, h)
  PROVE  Agree(n, g, h)
<1> DEFINE same == {k \in Nat : k <= n => g[k] = h[k]}
<1>1. 0 \in same
  BY DEF InStep
<1>2. ASSUME NEW k \in Nat, k \in same PROVE k + 1 \in same
  <2> SUFFICES ASSUME k + 1 <= n PROVE g[k + 1] = h[k + 1]
    OBVIOUS
  <2>1. k + 1 \in 1 .. n /\ (k + 1) - 1 = k
    OBVIOUS
  <2> QED
    BY <1>2, <2>1 DEF InStep
<1>3. Nat \subseteq same
  <2> HIDE DEF same
  <2> QED
    BY <1>1, <1>2, Induct
<1> QED
  BY <1>3 DEF Agree

\* An entry is one more than a neighbour, or the diagonal one with what it costs, whichever
\* is least.
LEMMA EntryIs ==
  ASSUME NEW above \in Nat, NEW before \in Nat, NEW diagonal \in Nat, NEW same \in BOOLEAN,
         NEW cost, cost = IF same THEN 0 ELSE 1
  PROVE  /\ NextEntry(above, before, diagonal, same) \in {before + 1, above + 1, diagonal + cost}
         /\ NextEntry(above, before, diagonal, same) <= before + 1
         /\ NextEntry(above, before, diagonal, same) <= above + 1
         /\ NextEntry(above, before, diagonal, same) <= diagonal + cost
<1> DEFINE S == {before + 1, above + 1, diagonal + cost}
<1>1. NextEntry(above, before, diagonal, same) = Min(S)
  BY DEF NextEntry
<1>2. \E e \in S : \A y \in S : e <= y
  OBVIOUS
<1>3. Min(S) \in S /\ \A y \in S : Min(S) <= y
  <2> HIDE DEF S
  <2> QED
    BY <1>2 DEF Min
<1> QED
  BY <1>1, <1>3

\* A row starts with its number, and an entry follows from its three neighbours.
FromAbove(previous, i, token, right, current) ==
  /\ current \in [0 .. Len(right) -> Nat] /\ current[0] = i
  /\ \A j \in 1 .. Len(right) :
       current[j] = NextEntry(previous[j], current[j - 1], previous[j - 1], token = right[j])

LEMMA NextRowIs ==
  ASSUME NEW right, Len(right) \in Nat, NEW previous \in [0 .. Len(right) -> Nat],
         NEW i \in Nat, NEW token
  PROVE  FromAbove(previous, i, token, right, NextRow(previous, i, token, right))
<1> DEFINE m == Len(right)
           Entry(j, before) == NextEntry(previous[j], before, previous[j - 1], token = right[j])
           step == [p \in (1 .. m) \X Nat |-> Entry(p[1], p[2])]
           Row(f) == [j \in 0 .. m |-> IF j = 0 THEN i ELSE Entry(j, f[j - 1])]
           row == NextRow(previous, i, token, right)
<1>1. \A j \in 1 .. m, before \in Nat : Entry(j, before) \in Nat
  <2> TAKE j \in 1 .. m, before \in Nat
  <2>1. previous[j] \in Nat /\ previous[j - 1] \in Nat /\ (token = right[j]) \in BOOLEAN
    OBVIOUS
  <2> DEFINE cost == IF token = right[j] THEN 0 ELSE 1
  <2>2. Entry(j, before) \in {before + 1, previous[j] + 1, previous[j - 1] + cost}
    BY <2>1, EntryIs
  <2> QED
    BY <2>1, <2>2
<1>2. step \in [(1 .. m) \X Nat -> Nat]
  <2> HIDE DEF Entry
  <2> QED
    BY <1>1
<1>3. PICK g : Computed(m, Nat, i, step, g)
  <2> HIDE DEF step
  <2> QED
    BY <1>2, Recursion
<1>4. \A j \in 1 .. m : g[j] = Entry(j, g[j - 1])
  <2> HIDE DEF Entry
  <2> TAKE j \in 1 .. m
  <2>1. <<j, g[j - 1]>> \in (1 .. m) \X Nat
    <3>1. g \in [0 .. m -> Nat]
      BY <1>3 DEF Computed
    <3>2. j - 1 \in 0 .. m
      OBVIOUS
    <3> QED
      BY <3>1, <3>2
  <2>2. step[<<j, g[j - 1]>>] = Entry(j, g[j - 1])
    BY <2>1
  <2> QED
    BY <1>3, <2>2 DEF Computed
<1>5. g = Row(g)
  <2> HIDE DEF Entry
  <2> QED
    BY <1>3, <1>4 DEF Computed
<1>6. row = CHOOSE f : f = Row(f)
  BY DEF NextRow
<1>7. row = Row(row)
  <2> HIDE DEF Row, row
  <2> QED
    BY <1>5, <1>6
<1> HIDE DEF row
<1>8. row[0] = i /\ \A j \in 1 .. m : row[j] = Entry(j, row[j - 1])
  <2> HIDE DEF Entry
  <2>1. \A j \in 0 .. m : row[j] = IF j = 0 THEN i ELSE Entry(j, row[j - 1])
    BY <1>7
  <2>2. 0 \in 0 .. m /\ \A j \in 1 .. m : j \in 0 .. m /\ j # 0
    OBVIOUS
  <2> QED
    BY <2>1, <2>2
<1>9. \A j \in 0 .. m : row[j] = g[j]
  <2> HIDE DEF Entry
  <2>1. \A j \in 1 .. m : row[j - 1] = g[j - 1] => row[j] = g[j]
    BY <1>4, <1>8
  <2>2. row[0] = g[0]
    BY <1>3, <1>8 DEF Computed
  <2>3. InStep(m, row, g)
    BY <2>1, <2>2 DEF InStep
  <2>4. Agree(m, row, g)
    BY <2>3, OneSolution
  <2> QED
    BY <2>4 DEF Agree
<1>10. row \in [0 .. m -> Nat]
  <2>1. row = [j \in 0 .. m |-> row[j]]
    <3> HIDE DEF Entry
    <3> QED
      BY <1>7
  <2> QED
    BY <1>3, <1>9, <2>1 DEF Computed
<1> QED
  BY <1>8, <1>10 DEF row, FromAbove

\* The rows of the table, each computed from the one above it.
Table(left, right, row) ==
  /\ row \in [0 .. Len(left) -> [0 .. Len(right) -> Nat]]
  /\ row[0] = [j \in 0 .. Len(right) |-> j]
  /\ \A i \in 1 .. Len(left) : row[i] = NextRow(row[i - 1], i, left[i], right)

\* The distance is the last entry of such a table.
LEMMA DistanceDef ==
  ASSUME NEW left, NEW right, Len(left) \in Nat, Len(right) \in Nat
  PROVE  \E row : /\ Table(left, right, row)
                  /\ TokenEditDistance(left, right) = row[Len(left)][Len(right)]
<1> DEFINE n == Len(left)
           m == Len(right)
           V == [0 .. m -> Nat]
           first == [j \in 0 .. m |-> j]
           step == [p \in (1 .. n) \X V |-> NextRow(p[2], p[1], left[p[1]], right)]
           Grown(f) ==
             [i \in 0 .. n |-> IF i = 0 THEN first ELSE NextRow(f[i - 1], i, left[i], right)]
           row == CHOOSE f : f = Grown(f)
<1>1. step \in [(1 .. n) \X V -> V]
  <2>1. \A p \in (1 .. n) \X V : NextRow(p[2], p[1], left[p[1]], right) \in V
    BY NextRowIs DEF FromAbove
  <2> HIDE DEF V
  <2> QED
    BY <2>1
<1>2. PICK g : Computed(n, V, first, step, g)
  <2>1. first \in V
    OBVIOUS
  <2> HIDE DEF step, V, first
  <2> QED
    BY <1>1, <2>1, Recursion
<1>3. \A i \in 1 .. n : g[i] = NextRow(g[i - 1], i, left[i], right)
  <2> HIDE DEF V
  <2> TAKE i \in 1 .. n
  <2>1. <<i, g[i - 1]>> \in (1 .. n) \X V
    <3>1. g \in [0 .. n -> V]
      BY <1>2 DEF Computed
    <3>2. i - 1 \in 0 .. n
      OBVIOUS
    <3> QED
      BY <3>1, <3>2
  <2>2. step[<<i, g[i - 1]>>] = NextRow(g[i - 1], i, left[i], right)
    BY <2>1
  <2> QED
    BY <1>2, <2>2 DEF Computed
<1>4. g = Grown(g)
  <2> HIDE DEF V, first
  <2> QED
    BY <1>2, <1>3 DEF Computed
<1>5. row = Grown(row)
  <2> HIDE DEF Grown
  <2> QED
    BY <1>4
<1>6. TokenEditDistance(left, right) = row[n][m]
  BY DEF TokenEditDistance
<1> HIDE DEF row
<1>7. row[0] = first /\ \A i \in 1 .. n : row[i] = NextRow(row[i - 1], i, left[i], right)
  <2> HIDE DEF first
  <2>1. \A i \in 0 .. n : row[i] = IF i = 0 THEN first ELSE NextRow(row[i - 1], i, left[i], right)
    BY <1>5
  <2>2. 0 \in 0 .. n /\ \A i \in 1 .. n : i \in 0 .. n /\ i # 0
    OBVIOUS
  <2> QED
    BY <2>1, <2>2
<1>8. row \in [0 .. n -> V]
  <2> HIDE DEF V, first
  <2>1. InStep(n, row, g)
    BY <1>2, <1>3, <1>7 DEF InStep, Computed
  <2>2. Agree(n, row, g)
    BY <2>1, OneSolution
  <2>3. row = [i \in 0 .. n |-> row[i]]
    BY <1>5
  <2> QED
    BY <1>2, <2>2, <2>3 DEF Agree, Computed
<1>9. Table(left, right, row)
  BY <1>7, <1>8 DEF Table
<1> QED
  BY <1>6, <1>9

\* The entries at the margins, and each of the others from its three neighbours.
LEMMA TableEntries ==
  ASSUME NEW left, NEW right, Len(left) \in Nat, Len(right) \in Nat,
         NEW row, Table(left, right, row)
  PROVE  /\ \A i \in 0 .. Len(left), j \in 0 .. Len(right) : row[i][j] \in Nat
         /\ \A j \in 0 .. Len(right) : row[0][j] = j
         /\ \A i \in 0 .. Len(left) : row[i][0] = i
         /\ \A i \in 1 .. Len(left), j \in 1 .. Len(right) :
              row[i][j] = NextEntry(row[i - 1][j], row[i][j - 1], row[i - 1][j - 1], left[i] = right[j])
<1>1. \A i \in 1 .. Len(left) :
        /\ i \in Nat /\ i - 1 \in 0 .. Len(left) /\ row[i - 1] \in [0 .. Len(right) -> Nat]
        /\ row[i] = NextRow(row[i - 1], i, left[i], right)
  <2>1. row \in [0 .. Len(left) -> [0 .. Len(right) -> Nat]]
    BY DEF Table
  <2>2. \A i \in 1 .. Len(left) : i \in Nat /\ i - 1 \in 0 .. Len(left)
    OBVIOUS
  <2> QED
    BY <2>1, <2>2 DEF Table
<1>2. ASSUME NEW i \in 1 .. Len(left)
      PROVE  /\ row[i][0] = i
             /\ \A j \in 1 .. Len(right) :
                  row[i][j] = NextEntry(row[i - 1][j], row[i][j - 1], row[i - 1][j - 1], left[i] = right[j])
  <2>1. FromAbove(row[i - 1], i, left[i], right, row[i])
    BY <1>1, NextRowIs
  <2> QED
    BY <2>1 DEF FromAbove
<1>3. \A i \in 0 .. Len(left), j \in 0 .. Len(right) : row[i][j] \in Nat
  BY DEF Table
<1>4. \A j \in 0 .. Len(right) : row[0][j] = j
  BY DEF Table
<1>5. \A i \in 0 .. Len(left) : row[i][0] = i
  BY <1>2, <1>4
<1> QED
  BY <1>2, <1>3, <1>4, <1>5

-----------------------------------------------------------------------------
(* Alignments *)

\* Alignments of the first i and the first j tokens, and what they cost.
AlignmentsTo(i, j) ==
  {a \in SUBSET ((1 .. i) \X (1 .. j)) :
     \A p, q \in a : p # q => (p[1] < q[1] /\ p[2] < q[2]) \/ (q[1] < p[1] /\ q[2] < p[2])}

Substituted(left, right, a) == {p \in a : left[p[1]] # right[p[2]]}

Cost(left, right, i, j, a) == i + j - 2 * Cardinality(a) + Cardinality(Substituted(left, right, a))

\* What is counted is finite.
LEMMA AlignmentsFinite ==
  ASSUME NEW i \in Nat, NEW j \in Nat, NEW a \in AlignmentsTo(i, j), NEW left, NEW right
  PROVE  /\ IsFiniteSet(a) /\ Cardinality(a) \in Nat
         /\ IsFiniteSet(Substituted(left, right, a)) /\ Cardinality(Substituted(left, right, a)) \in Nat
         /\ Cost(left, right, i, j, a) \in Int
<1>1. IsFiniteSet((1 .. i) \X (1 .. j))
  <2>1. IsFiniteSet(1 .. i) /\ IsFiniteSet(1 .. j)
    BY FS_Interval
  <2> QED
    BY <2>1, FS_Product
<1>2. IsFiniteSet(a)
  BY <1>1, FS_Subset DEF AlignmentsTo
<1>3. IsFiniteSet(Substituted(left, right, a))
  BY <1>2, FS_Subset DEF Substituted
<1>4. Cardinality(a) \in Nat /\ Cardinality(Substituted(left, right, a)) \in Nat
  BY <1>2, <1>3, FS_CardinalityType
<1> QED
  BY <1>2, <1>3, <1>4 DEF Cost

\* A pair after all others keeps or substitutes one more token.
LEMMA PairAdded ==
  ASSUME NEW i \in Nat \ {0}, NEW j \in Nat \ {0}, NEW left, NEW right,
         NEW a \in AlignmentsTo(i - 1, j - 1), NEW cost, cost = IF left[i] = right[j] THEN 0 ELSE 1
  PROVE  /\ a \cup {<<i, j>>} \in AlignmentsTo(i, j)
         /\ Cost(left, right, i, j, a \cup {<<i, j>>}) = Cost(left, right, i - 1, j - 1, a) + cost
<1> DEFINE last == <<i, j>>
           b == a \cup {last}
<1>1. i - 1 \in Nat /\ j - 1 \in Nat
  OBVIOUS
<1>2. \A p \in a : p \in (1 .. i) \X (1 .. j) /\ p[1] < i /\ p[2] < j /\ p # last
  BY DEF AlignmentsTo
<1>3. b \in AlignmentsTo(i, j)
  <2>1. b \subseteq (1 .. i) \X (1 .. j)
    BY <1>2
  <2>2. \A p, q \in a : p # q => (p[1] < q[1] /\ p[2] < q[2]) \/ (q[1] < p[1] /\ q[2] < p[2])
    BY DEF AlignmentsTo
  <2>3. \A p \in a : p[1] < last[1] /\ p[2] < last[2]
    BY <1>2
  <2> HIDE DEF last
  <2>4. \A p, q \in b : p # q => (p[1] < q[1] /\ p[2] < q[2]) \/ (q[1] < p[1] /\ q[2] < p[2])
    BY <2>2, <2>3
  <2> QED
    BY <2>1, <2>4 DEF AlignmentsTo
<1>4. /\ IsFiniteSet(a) /\ Cardinality(a) \in Nat
      /\ IsFiniteSet(Substituted(left, right, a)) /\ Cardinality(Substituted(left, right, a)) \in Nat
  BY <1>1, AlignmentsFinite
<1>5. Cardinality(b) = Cardinality(a) + 1
  <2>1. last \notin a
    BY <1>2
  <2> HIDE DEF last
  <2> QED
    BY <1>4, <2>1, FS_AddElement
<1>6. Cardinality(Substituted(left, right, b)) = Cardinality(Substituted(left, right, a)) + cost
  <2>1. CASE left[i] = right[j]
    <3>1. Substituted(left, right, b) = Substituted(left, right, a)
      BY <2>1 DEF Substituted
    <3> QED
      BY <1>4, <2>1, <3>1
  <2>2. CASE left[i] # right[j]
    <3>1. Substituted(left, right, b) = Substituted(left, right, a) \cup {last}
      BY <2>2 DEF Substituted
    <3>2. last \notin Substituted(left, right, a)
      BY <1>2 DEF Substituted
    <3> HIDE DEF last
    <3>3. Cardinality(Substituted(left, right, a) \cup {last}) = Cardinality(Substituted(left, right, a)) + 1
      BY <1>4, <3>2, FS_AddElement
    <3> QED
      BY <2>2, <3>1, <3>3
  <2> QED
    BY <2>1, <2>2
<1>7. cost \in Int
  OBVIOUS
<1> QED
  BY <1>3, <1>4, <1>5, <1>6, <1>7 DEF Cost

\* With one token more on either side, the alignment leaves over one more.
LEMMA TokenLeftOver ==
  ASSUME NEW i \in Nat, NEW j \in Nat, NEW left, NEW right
  PROVE  /\ i # 0 => \A a \in AlignmentsTo(i - 1, j) :
              /\ a \in AlignmentsTo(i, j)
              /\ Cost(left, right, i, j, a) = Cost(left, right, i - 1, j, a) + 1
         /\ j # 0 => \A a \in AlignmentsTo(i, j - 1) :
              /\ a \in AlignmentsTo(i, j)
              /\ Cost(left, right, i, j, a) = Cost(left, right, i, j - 1, a) + 1
<1>1. ASSUME i # 0, NEW a \in AlignmentsTo(i - 1, j)
      PROVE  /\ a \in AlignmentsTo(i, j)
             /\ Cost(left, right, i, j, a) = Cost(left, right, i - 1, j, a) + 1
  <2>1. i - 1 \in Nat /\ 1 .. i - 1 \subseteq 1 .. i
    BY <1>1
  <2>2. a \in AlignmentsTo(i, j)
    BY <2>1 DEF AlignmentsTo
  <2>3. Cardinality(a) \in Nat /\ Cardinality(Substituted(left, right, a)) \in Nat
    BY <2>2, AlignmentsFinite
  <2>4. \A c, s \in Nat : i + j - 2 * c + s = (i - 1) + j - 2 * c + s + 1
    OBVIOUS
  <2> QED
    BY <2>2, <2>3, <2>4 DEF Cost
<1>2. ASSUME j # 0, NEW a \in AlignmentsTo(i, j - 1)
      PROVE  /\ a \in AlignmentsTo(i, j)
             /\ Cost(left, right, i, j, a) = Cost(left, right, i, j - 1, a) + 1
  <2>1. j - 1 \in Nat /\ 1 .. j - 1 \subseteq 1 .. j
    BY <1>2
  <2>2. a \in AlignmentsTo(i, j)
    BY <2>1 DEF AlignmentsTo
  <2>3. Cardinality(a) \in Nat /\ Cardinality(Substituted(left, right, a)) \in Nat
    BY <2>2, AlignmentsFinite
  <2>4. \A c, s \in Nat : i + j - 2 * c + s = i + (j - 1) - 2 * c + s + 1
    OBVIOUS
  <2> QED
    BY <2>2, <2>3, <2>4 DEF Cost
<1> QED
  BY <1>1, <1>2

\* An alignment joins the last tokens, or leaves over one of them.
LEMMA LastTokens ==
  ASSUME NEW i \in Nat \ {0}, NEW j \in Nat \ {0}, NEW a \in AlignmentsTo(i, j)
  PROVE  \/ a \in AlignmentsTo(i - 1, j) \/ a \in AlignmentsTo(i, j - 1)
         \/ <<i, j>> \in a /\ a \ {<<i, j>>} \in AlignmentsTo(i - 1, j - 1)
<1>1. \A p \in a : p \in (1 .. i) \X (1 .. j)
  BY DEF AlignmentsTo
<1>2. \A p, q \in a : p # q => (p[1] < q[1] /\ p[2] < q[2]) \/ (q[1] < p[1] /\ q[2] < p[2])
  BY DEF AlignmentsTo
<1>3. CASE <<i, j>> \in a
  <2> DEFINE last == <<i, j>>
  <2>1. \A p \in a : p # last => p[1] < i /\ p[2] < j
    <3>1. last[1] = i /\ last[2] = j /\ last \in a
      BY <1>3
    <3> HIDE DEF last
    <3> TAKE p \in a
    <3> HAVE p # last
    <3>2. (p[1] < i /\ p[2] < j) \/ (i < p[1] /\ j < p[2])
      BY <1>2, <3>1
    <3>3. p[1] \in 1 .. i /\ p[2] \in 1 .. j
      BY <1>1
    <3> QED
      BY <3>2, <3>3
  <2>2. a \ {last} \subseteq (1 .. i - 1) \X (1 .. j - 1)
    <3> SUFFICES ASSUME NEW p \in a, p # last PROVE p \in (1 .. i - 1) \X (1 .. j - 1)
      OBVIOUS
    <3> HIDE DEF last
    <3>1. p = <<p[1], p[2]>> /\ p[1] \in 1 .. i - 1 /\ p[2] \in 1 .. j - 1
      BY <1>1, <2>1
    <3> QED
      BY <3>1
  <2>3. a \ {last} \in AlignmentsTo(i - 1, j - 1)
    <3> HIDE DEF last
    <3> QED
      BY <1>2, <2>2 DEF AlignmentsTo
  <2> QED
    BY <1>3, <2>3
<1>4. CASE \A p \in a : p[1] # i
  <2>1. a \subseteq (1 .. i - 1) \X (1 .. j)
    <3> SUFFICES ASSUME NEW p \in a PROVE p \in (1 .. i - 1) \X (1 .. j)
      OBVIOUS
    <3>1. p = <<p[1], p[2]>> /\ p[1] \in 1 .. i - 1 /\ p[2] \in 1 .. j
      BY <1>1, <1>4
    <3> QED
      BY <3>1
  <2> QED
    BY <1>2, <2>1 DEF AlignmentsTo
<1>5. CASE \A p \in a : p[2] # j
  <2>1. a \subseteq (1 .. i) \X (1 .. j - 1)
    <3> SUFFICES ASSUME NEW p \in a PROVE p \in (1 .. i) \X (1 .. j - 1)
      OBVIOUS
    <3>1. p = <<p[1], p[2]>> /\ p[1] \in 1 .. i /\ p[2] \in 1 .. j - 1
      BY <1>1, <1>5
    <3> QED
      BY <3>1
  <2> QED
    BY <1>2, <2>1 DEF AlignmentsTo
<1>6. CASE \E p, q \in a : p[1] = i /\ q[2] = j
  <2>1. PICK p \in a, q \in a : p[1] = i /\ q[2] = j
    BY <1>6
  <2>2. p = <<p[1], p[2]>> /\ p[2] \in 1 .. j /\ q[1] \in 1 .. i
    BY <1>1
  <2>3. p = q
    <3> SUFFICES ASSUME p # q PROVE FALSE
      OBVIOUS
    <3>1. (p[1] < q[1] /\ p[2] < q[2]) \/ (q[1] < p[1] /\ q[2] < p[2])
      BY <1>2
    <3> QED
      BY <2>1, <2>2, <3>1
  <2> QED
    BY <1>3, <2>1, <2>2, <2>3
<1> QED
  BY <1>4, <1>5, <1>6

-----------------------------------------------------------------------------
(* The least of them *)

\* d is what the cheapest alignment costs.
Least(left, right, i, j, d) ==
  /\ \E a \in AlignmentsTo(i, j) : Cost(left, right, i, j, a) = d
  /\ \A a \in AlignmentsTo(i, j) : d <= Cost(left, right, i, j, a)

\* Without tokens on one side all of the other are left over.
LEMMA NoTokens ==
  ASSUME NEW left, NEW right, NEW i \in Nat, NEW j \in Nat, i = 0 \/ j = 0
  PROVE  Least(left, right, i, j, i + j)
<1>1. (1 .. i) \X (1 .. j) = {}
  <2>1. 1 .. i = {} \/ 1 .. j = {}
    OBVIOUS
  <2> QED
    BY <2>1
<1>2. AlignmentsTo(i, j) = {{}}
  BY <1>1 DEF AlignmentsTo
<1>3. Substituted(left, right, {}) = {} /\ Cardinality({}) = 0
  BY FS_EmptySet DEF Substituted
<1>4. Cost(left, right, i, j, {}) = i + j
  <2> DEFINE none == {}
  <2>1. Cardinality(none) = 0 /\ Cardinality(Substituted(left, right, none)) = 0
    BY <1>3
  <2> HIDE DEF none
  <2>2. Cost(left, right, i, j, none) = i + j
    BY <2>1 DEF Cost
  <2> QED
    BY <2>2 DEF none
<1> QED
  BY <1>2, <1>4 DEF Least

\* An entry is least when its neighbours are.
LEMMA EntryIsLeast ==
  ASSUME NEW left, NEW right, NEW i \in Nat \ {0}, NEW j \in Nat \ {0},
         NEW above \in Nat, Least(left, right, i - 1, j, above),
         NEW before \in Nat, Least(left, right, i, j - 1, before),
         NEW diagonal \in Nat, Least(left, right, i - 1, j - 1, diagonal)
  PROVE  Least(left, right, i, j, NextEntry(above, before, diagonal, left[i] = right[j]))
<1> DEFINE entry == NextEntry(above, before, diagonal, left[i] = right[j])
           cost == IF left[i] = right[j] THEN 0 ELSE 1
<1>1. /\ entry \in {before + 1, above + 1, diagonal + cost}
      /\ entry <= before + 1 /\ entry <= above + 1 /\ entry <= diagonal + cost
  <2>1. (left[i] = right[j]) \in BOOLEAN
    OBVIOUS
  <2> QED
    BY <2>1, EntryIs
<1>2. cost \in Nat /\ i - 1 \in Nat /\ j - 1 \in Nat
  OBVIOUS
<1>3. entry \in Int
  BY <1>1, <1>2
<1> HIDE DEF entry
<1>4. \A a \in AlignmentsTo(i - 1, j - 1) :
        /\ a \cup {<<i, j>>} \in AlignmentsTo(i, j)
        /\ Cost(left, right, i, j, a \cup {<<i, j>>}) = Cost(left, right, i - 1, j - 1, a) + cost
  BY PairAdded
<1> HIDE DEF cost
<1>5. /\ \A a \in AlignmentsTo(i - 1, j) :
           a \in AlignmentsTo(i, j) /\ Cost(left, right, i, j, a) = Cost(left, right, i - 1, j, a) + 1
      /\ \A a \in AlignmentsTo(i, j - 1) :
           a \in AlignmentsTo(i, j) /\ Cost(left, right, i, j, a) = Cost(left, right, i, j - 1, a) + 1
  BY TokenLeftOver
<1>6. \E a \in AlignmentsTo(i, j) : Cost(left, right, i, j, a) = entry
  <2>1. CASE entry = above + 1
    <3>1. PICK a \in AlignmentsTo(i - 1, j) : Cost(left, right, i - 1, j, a) = above
      BY DEF Least
    <3> QED
      BY <1>5, <2>1, <3>1
  <2>2. CASE entry = before + 1
    <3>1. PICK a \in AlignmentsTo(i, j - 1) : Cost(left, right, i, j - 1, a) = before
      BY DEF Least
    <3> QED
      BY <1>5, <2>2, <3>1
  <2>3. CASE entry = diagonal + cost
    <3>1. PICK a \in AlignmentsTo(i - 1, j - 1) : Cost(left, right, i - 1, j - 1, a) = diagonal
      BY DEF Least
    <3> QED
      BY <1>4, <2>3, <3>1
  <2> QED
    BY <1>1, <2>1, <2>2, <2>3
<1>7. ASSUME NEW a \in AlignmentsTo(i, j) PROVE entry <= Cost(left, right, i, j, a)
  <2>1. CASE a \in AlignmentsTo(i - 1, j)
    <3>1. above <= Cost(left, right, i - 1, j, a) /\ Cost(left, right, i - 1, j, a) \in Int
      BY <1>2, <2>1, AlignmentsFinite DEF Least
    <3>2. Cost(left, right, i, j, a) = Cost(left, right, i - 1, j, a) + 1
      BY <1>5, <2>1
    <3> QED
      BY <1>1, <1>3, <3>1, <3>2
  <2>2. CASE a \in AlignmentsTo(i, j - 1)
    <3>1. before <= Cost(left, right, i, j - 1, a) /\ Cost(left, right, i, j - 1, a) \in Int
      BY <1>2, <2>2, AlignmentsFinite DEF Least
    <3>2. Cost(left, right, i, j, a) = Cost(left, right, i, j - 1, a) + 1
      BY <1>5, <2>2
    <3> QED
      BY <1>1, <1>3, <3>1, <3>2
  <2>3. CASE <<i, j>> \in a /\ a \ {<<i, j>>} \in AlignmentsTo(i - 1, j - 1)
    <3> DEFINE b == a \ {<<i, j>>}
    <3>1. a = b \cup {<<i, j>>} /\ b \in AlignmentsTo(i - 1, j - 1)
      BY <2>3
    <3> HIDE DEF b
    <3>2. diagonal <= Cost(left, right, i - 1, j - 1, b) /\ Cost(left, right, i - 1, j - 1, b) \in Int
      BY <1>2, <3>1, AlignmentsFinite DEF Least
    <3>3. Cost(left, right, i, j, a) = Cost(left, right, i - 1, j - 1, b) + cost
      BY <1>4, <3>1
    <3> QED
      BY <1>1, <1>2, <1>3, <3>2, <3>3
  <2> QED
    BY <2>1, <2>2, <2>3, LastTokens
<1> QED
  BY <1>6, <1>7 DEF Least, entry

\* Every entry of the table is what the cheapest alignment of its tokens costs.
LEMMA TableIsLeast ==
  ASSUME NEW left, NEW right, Len(left) \in Nat, Len(right) \in Nat,
         NEW row, Table(left, right, row)
  PROVE  Least(left, right, Len(left), Len(right), row[Len(left)][Len(right)])
<1> DEFINE n == Len(left)
           m == Len(right)
           least == {k \in Nat : \A i \in 0 .. n, j \in 0 .. m :
                       i + j <= k => Least(left, right, i, j, row[i][j])}
<1>1. /\ \A i \in 0 .. n, j \in 0 .. m : row[i][j] \in Nat
      /\ \A j \in 0 .. m : row[0][j] = j
      /\ \A i \in 0 .. n : row[i][0] = i
      /\ \A i \in 1 .. n, j \in 1 .. m :
           row[i][j] = NextEntry(row[i - 1][j], row[i][j - 1], row[i - 1][j - 1], left[i] = right[j])
  BY TableEntries
<1>2. \A i \in 0 .. n, j \in 0 .. m : i = 0 \/ j = 0 => Least(left, right, i, j, row[i][j])
  <2> TAKE i \in 0 .. n, j \in 0 .. m
  <2> HAVE i = 0 \/ j = 0
  <2>1. row[i][j] = i + j
    BY <1>1
  <2>2. Least(left, right, i, j, i + j)
    <3>1. i \in Nat /\ j \in Nat
      OBVIOUS
    <3> QED
      BY <3>1, NoTokens, Zenon
  <2> QED
    BY <2>1, <2>2
<1>3. 0 \in least
  BY <1>2
<1>4. ASSUME NEW k \in Nat, k \in least PROVE k + 1 \in least
  <2> SUFFICES ASSUME NEW i \in 0 .. n, NEW j \in 0 .. m, i + j <= k + 1
               PROVE  Least(left, right, i, j, row[i][j])
    OBVIOUS
  <2>1. CASE i # 0 /\ j # 0
    <3>1. /\ i \in 1 .. n /\ i - 1 \in 0 .. n /\ j \in 1 .. m /\ j - 1 \in 0 .. m
          /\ i \in Nat \ {0} /\ j \in Nat \ {0}
          /\ (i - 1) + j <= k /\ i + (j - 1) <= k /\ (i - 1) + (j - 1) <= k
      BY <2>1
    <3>2. /\ Least(left, right, i - 1, j, row[i - 1][j]) /\ Least(left, right, i, j - 1, row[i][j - 1])
          /\ Least(left, right, i - 1, j - 1, row[i - 1][j - 1])
      BY <1>4, <3>1
    <3>3. row[i - 1][j] \in Nat /\ row[i][j - 1] \in Nat /\ row[i - 1][j - 1] \in Nat
      BY <1>1, <3>1
    <3>4. row[i][j] = NextEntry(row[i - 1][j], row[i][j - 1], row[i - 1][j - 1], left[i] = right[j])
      BY <1>1, <3>1
    <3> DEFINE above == row[i - 1][j]
               before == row[i][j - 1]
               diagonal == row[i - 1][j - 1]
    <3> HIDE DEF above, before, diagonal
    <3>5. Least(left, right, i, j, NextEntry(above, before, diagonal, left[i] = right[j]))
      BY <3>1, <3>2, <3>3, EntryIsLeast DEF above, before, diagonal
    <3> QED
      BY <3>4, <3>5 DEF above, before, diagonal
  <2> QED
    BY <1>2, <2>1
<1>5. n + m \in least
  <2> HIDE DEF least
  <2>1. Nat \subseteq least
    BY <1>3, <1>4, Induct
  <2> QED
    BY <2>1
<1> QED
  BY <1>5

\* The distance of two sequences is the least number of edits between them.
LEMMA DistanceIsLeast ==
  ASSUME NEW left \in Seq(Tokens), NEW right \in Seq(Tokens)
  PROVE  /\ TokenEditDistance(left, right) \in Nat
         /\ TokenEditDistance(left, right) =
              Min({Edits(left, right, a) : a \in Alignments(left, right)})
<1> DEFINE d == TokenEditDistance(left, right)
           S == {Edits(left, right, a) : a \in Alignments(left, right)}
<1>1. /\ Len(left) \in Nat /\ DOMAIN left = 1 .. Len(left)
      /\ Len(right) \in Nat /\ DOMAIN right = 1 .. Len(right)
  OBVIOUS
<1>2. PICK row : Table(left, right, row) /\ d = row[Len(left)][Len(right)]
  BY <1>1, DistanceDef
<1>3. Least(left, right, Len(left), Len(right), d)
  BY <1>1, <1>2, TableIsLeast
<1>4. d \in Nat
  BY <1>1, <1>2, TableEntries
<1> HIDE DEF d
<1>5. /\ Alignments(left, right) = AlignmentsTo(Len(left), Len(right))
      /\ \A a : Edits(left, right, a) = Cost(left, right, Len(left), Len(right), a)
  BY <1>1 DEF Alignments, AlignmentsTo, Edits, Cost, Substituted
<1>6. d \in S /\ \A e \in S : d <= e
  BY <1>3, <1>5 DEF Least
<1>7. \A e \in S : e \in Int
  BY <1>1, <1>5, AlignmentsFinite
<1>8. Min(S) \in S /\ \A e \in S : Min(S) <= e
  <2> HIDE DEF S
  <2> QED
    BY <1>6 DEF Min
<1>9. Min(S) = d
  <2> HIDE DEF S
  <2> QED
    <3>1. d <= Min(S) /\ Min(S) <= d
      BY <1>6, <1>8
    <3>2. Min(S) \in Int
      BY <1>7, <1>8
    <3> QED
      BY <1>4, <3>1, <3>2
<1> QED
  BY <1>4, <1>9 DEF d

-----------------------------------------------------------------------------
(* Sums *)

\* A sum of integers is one.
LEMMA SumIsInt ==
  ASSUME NEW D, IsFiniteSet(D), NEW f \in [D -> Int]
  PROVE  SumFunction(f) \in Int
<1> DEFINE c(s) == CHOOSE x \in s : TRUE
           term(g, s) == IF s = {} THEN 0 ELSE f[c(s)] + g[s \ {c(s)}]
           partial == {n \in Nat : \E g :
                         \A s \in SUBSET D : Cardinality(s) <= n => g[s] = term(g, s)}
<1>1. \A s \in SUBSET D : IsFiniteSet(s) /\ Cardinality(s) \in Nat /\ Cardinality(s) <= Cardinality(D)
  BY FS_Subset, FS_CardinalityType
<1>2. \A s \in SUBSET D : s # {} =>
        /\ c(s) \in s /\ c(s) \in D /\ s \ {c(s)} \in SUBSET D /\ f[c(s)] \in Int
        /\ Cardinality(s \ {c(s)}) = Cardinality(s) - 1 /\ Cardinality(s) # 0
  <2> TAKE s \in SUBSET D
  <2> HAVE s # {}
  <2>1. c(s) \in s
    OBVIOUS
  <2> HIDE DEF c
  <2>2. IsFiniteSet(s)
    BY <1>1
  <2>3. Cardinality(s \ {c(s)}) = Cardinality(s) - 1
    BY <2>1, <2>2, FS_RemoveElement
  <2>4. Cardinality(s) # 0
    BY <2>1, <2>2, FS_EmptySet
  <2> QED
    BY <2>1, <2>3, <2>4
<1> HIDE DEF c
<1>3. 0 \in partial
  <2> DEFINE g == [s \in SUBSET D |-> 0]
  <2>1. \A s \in SUBSET D : Cardinality(s) <= 0 => s = {}
    <3>1. \A s \in SUBSET D : Cardinality(s) <= 0 => Cardinality(s) = 0
      BY <1>1
    <3> QED
      BY <1>2, <3>1
  <2>2. \A s \in SUBSET D : Cardinality(s) <= 0 => g[s] = term(g, s)
    BY <2>1
  <2> QED
    BY <2>2
<1>4. ASSUME NEW n \in Nat, n \in partial PROVE n + 1 \in partial
  <2>1. PICK g : \A s \in SUBSET D : Cardinality(s) <= n => g[s] = term(g, s)
    BY <1>4
  <2> DEFINE h == [s \in SUBSET D |-> term(g, s)]
  <2>3. \A s \in SUBSET D : Cardinality(s) <= n => h[s] = g[s]
    BY <2>1
  <2>4. ASSUME NEW s \in SUBSET D, Cardinality(s) <= n + 1 PROVE h[s] = term(h, s)
    <3>1. s # {} => s \ {c(s)} \in SUBSET D /\ Cardinality(s \ {c(s)}) <= n
      BY <1>1, <1>2, <2>4
    <3>2. s # {} => h[s \ {c(s)}] = g[s \ {c(s)}]
      BY <2>3, <3>1
    <3> HIDE DEF h
    <3>3. h[s] = term(g, s)
      BY DEF h
    <3> QED
      BY <3>2, <3>3
  <2>5. \E k : \A s \in SUBSET D : Cardinality(s) <= n + 1 => k[s] = term(k, s)
    <3> HIDE DEF h, term
    <3> QED
      BY <2>4
  <2>6. n + 1 \in Nat
    OBVIOUS
  <2> HIDE DEF term
  <2> QED
    BY <2>5, <2>6, Zenon
<1>5. Cardinality(D) \in partial
  <2> HIDE DEF partial
  <2>1. Nat \subseteq partial
    BY <1>3, <1>4, Induct
  <2> QED
    BY <2>1, FS_CardinalityType
<1>6. PICK g : \A s \in SUBSET D : g[s] = term(g, s)
  BY <1>1, <1>5
<1> DEFINE whole == [s \in SUBSET D |-> g[s]]
<1>7. whole = [s \in SUBSET D |-> term(whole, s)]
  <2>1. \A s \in SUBSET D : whole[s] = term(whole, s)
    BY <1>2, <1>6
  <2> HIDE DEF term
  <2> QED
    BY <2>1
<1> DEFINE iter == CHOOSE it : it = [s \in SUBSET D |-> term(it, s)]
<1>8. iter = [s \in SUBSET D |-> term(iter, s)]
  <2> HIDE DEF term, whole
  <2> QED
    BY <1>7
<1>9. SumFunction(f) = iter[D]
  BY DEF SumFunction, SumFunctionOnSet, FoldFunctionOnSet, MapThenFoldSet, c
<1> HIDE DEF iter
<1>10. \A s \in SUBSET D : iter[s] = term(iter, s)
  <2> HIDE DEF term
  <2> QED
    BY <1>8
<1> DEFINE summed == {n \in Nat : \A s \in SUBSET D : Cardinality(s) <= n => iter[s] \in Int}
<1>11. Nat \subseteq summed
  <2>1. ASSUME NEW n \in Nat, NEW s \in SUBSET D, Cardinality(s) <= n,
               \A z \in SUBSET D : Cardinality(z) <= n - 1 => iter[z] \in Int
        PROVE  iter[s] \in Int
    <3>1. s # {} => iter[s \ {c(s)}] \in Int /\ f[c(s)] \in Int
      BY <1>1, <1>2, <2>1
    <3>2. iter[s] = term(iter, s)
      BY <1>10
    <3>3. CASE s = {}
      BY <3>2, <3>3
    <3>4. CASE s # {}
      BY <3>1, <3>2, <3>4
    <3> QED
      BY <3>3, <3>4
  <2>2. 0 \in summed
    <3>1. \A z \in SUBSET D : ~(Cardinality(z) <= 0 - 1)
      BY <1>1
    <3> QED
      BY <2>1, <3>1
  <2>3. ASSUME NEW n \in Nat, n \in summed PROVE n + 1 \in summed
    BY <2>1, <2>3
  <2> HIDE DEF summed
  <2> QED
    BY <2>2, <2>3, Induct
<1> QED
  BY <1>1, <1>9, <1>11

-----------------------------------------------------------------------------
(* The quantile *)

\* Of values that are numbered, one is the greatest.
LEMMA Greatest ==
  ASSUME NEW n \in Nat, NEW values \in [1 .. n -> Int], NEW S \in SUBSET (1 .. n), S # {}
  PROVE  \E i \in S : \A j \in S : values[j] <= values[i]
<1> DEFINE Under(i) == {j \in S : values[j] <= values[i]}
           N == Cardinality(S)
           T == {k \in Nat : \E i \in S : k = N - Cardinality(Under(i))}
<1>1. IsFiniteSet(S) /\ N \in Nat
  <2>1. IsFiniteSet(1 .. n)
    BY FS_Interval
  <2>2. IsFiniteSet(S)
    BY <2>1, FS_Subset
  <2> QED
    BY <2>2, FS_CardinalityType
<1>2. \A i \in S : Cardinality(Under(i)) \in Nat /\ Cardinality(Under(i)) <= N /\ IsFiniteSet(Under(i))
  <2> TAKE i \in S
  <2>1. Under(i) \subseteq S
    OBVIOUS
  <2> HIDE DEF Under
  <2> QED
    BY <1>1, <2>1, FS_Subset, FS_CardinalityType
<1>3. T # {}
  <2>1. PICK i \in S : TRUE
    OBVIOUS
  <2>2. N - Cardinality(Under(i)) \in Nat
    BY <1>1, <1>2
  <2> QED
    BY <2>2
<1>4. PICK k \in T : \A m \in T : k <= m
  <2>1. T \in SUBSET Nat
    OBVIOUS
  <2> HIDE DEF T
  <2> QED
    BY <1>3, <2>1, LeastNumber
<1>5. PICK i \in S : k = N - Cardinality(Under(i))
  OBVIOUS
<1>6. ASSUME NEW j \in S, ~(values[j] <= values[i]) PROVE FALSE
  <2>1. Under(i) \subseteq Under(j) /\ j \in Under(j) /\ j \notin Under(i)
    <3>1. \A m \in S : values[m] \in Int
      OBVIOUS
    <3>2. values[i] < values[j]
      BY <1>6, <3>1
    <3>3. \A m \in S : values[m] <= values[i] => values[m] <= values[j]
      BY <3>1, <3>2
    <3>4. values[j] <= values[j]
      BY <3>1
    <3> QED
      BY <1>6, <3>3, <3>4
  <2>2. Cardinality(Under(i)) <= Cardinality(Under(j)) /\ Cardinality(Under(i)) # Cardinality(Under(j))
    <3>1. IsFiniteSet(Under(j)) /\ Under(i) # Under(j)
      BY <1>2, <2>1
    <3> HIDE DEF Under
    <3> QED
      BY <2>1, <3>1, FS_Subset
  <2>3. N - Cardinality(Under(j)) \in T
    <3> HIDE DEF Under, N
    <3>1. Cardinality(Under(j)) \in Nat /\ Cardinality(Under(j)) <= N /\ N \in Nat
      BY <1>1, <1>2, <1>6
    <3>2. N - Cardinality(Under(j)) \in Nat
      BY <3>1
    <3> QED
      BY <1>6, <3>2
  <2> HIDE DEF Under, T
  <2> QED
    BY <1>1, <1>2, <1>4, <1>5, <2>2, <2>3
<1> QED
  BY <1>6

\* The bound is one of the values, and the confidence leaves those that are above it.
LEMMA QuantileIs ==
  ASSUME GateAssumption, NEW n \in Nat \ {0}, NEW values \in [1 .. n -> Int], Len(values) = n
  PROVE  /\ UpperQuantile(values) \in Int
         /\ 100 * Cardinality({i \in 1 .. n : ~(values[i] <= UpperQuantile(values))})
              <= (100 - Confidence) * n
<1> DEFINE place == QuantilePlace(n)
           Within(v) == Cardinality(Below(values, v)) <= place /\ place < Cardinality(UpTo(values, v))
           bound == UpperQuantile(values)
<1>1. place \in 0 .. n - 1 /\ 100 * (n - 1 - place) <= (100 - Confidence) * n
  <2> DEFINE part == (Confidence * n) \div 100
  <2>1. Confidence * n \in Nat /\ (100 - Confidence) * n = 100 * n - Confidence * n
        /\ (100 - Confidence) * n >= 0
    BY DEF GateAssumption
  <2>2. part \in Nat /\ Confidence * n - 100 < 100 * part
    BY <2>1
  <2> HIDE DEF part
  <2>3. place = Min({n - 1, part})
    BY DEF QuantilePlace, part
  <2>4. place = n - 1 \/ (place = part /\ part <= n - 1)
    <3>1. \E e \in {n - 1, part} : \A y \in {n - 1, part} : e <= y
      BY <2>2
    <3> HIDE DEF place
    <3>2. place \in {n - 1, part} /\ \A y \in {n - 1, part} : place <= y
      BY <2>3, <3>1 DEF Min
    <3> QED
      BY <3>2
  <2> HIDE DEF place
  <2> QED
    BY <2>1, <2>2, <2>4
<1> HIDE DEF place
<1>2. DOMAIN values = 1 .. n
  OBVIOUS
<1>3. \A v : /\ IsFiniteSet(Below(values, v)) /\ Cardinality(Below(values, v)) \in Nat
             /\ IsFiniteSet(UpTo(values, v)) /\ Cardinality(UpTo(values, v)) \in Nat
             /\ Below(values, v) \subseteq 1 .. n /\ UpTo(values, v) \subseteq 1 .. n
  <2> TAKE v
  <2>1. Below(values, v) \subseteq 1 .. n /\ UpTo(values, v) \subseteq 1 .. n
    BY <1>2 DEF Below, UpTo
  <2>2. IsFiniteSet(1 .. n)
    BY FS_Interval
  <2>3. IsFiniteSet(Below(values, v)) /\ IsFiniteSet(UpTo(values, v))
    BY <2>1, <2>2, FS_Subset
  <2> QED
    BY <2>1, <2>3, FS_CardinalityType
<1>4. \E i \in 1 .. n : Within(values[i])
  <2> DEFINE over == {k \in Nat : \E i \in 1 .. n : k = Cardinality(UpTo(values, values[i])) /\ place < k}
  <2>1. over # {}
    <3>1. PICK i \in 1 .. n : \A j \in 1 .. n : values[j] <= values[i]
      <4>1. 1 .. n \in SUBSET (1 .. n) /\ 1 .. n # {}
        OBVIOUS
      <4> QED
        BY <4>1, Greatest
    <3>2. UpTo(values, values[i]) = 1 .. n
      BY <1>2, <3>1 DEF UpTo
    <3>3. Cardinality(UpTo(values, values[i])) = n
      BY <3>2, FS_Interval
    <3>4. n \in Nat /\ place < n
      BY <1>1
    <3>5. n \in over
      BY <3>3, <3>4
    <3> HIDE DEF over
    <3> QED
      BY <3>5
  <2>2. PICK k \in over : \A m \in over : k <= m
    <3>1. over \in SUBSET Nat
      OBVIOUS
    <3> HIDE DEF over
    <3> QED
      BY <2>1, <3>1, LeastNumber
  <2>3. PICK i \in 1 .. n : k = Cardinality(UpTo(values, values[i])) /\ place < k
    OBVIOUS
  <2>4. Cardinality(Below(values, values[i])) <= place
    <3> SUFFICES ASSUME place < Cardinality(Below(values, values[i])) PROVE FALSE
      BY <1>1, <1>3
    <3>1. Below(values, values[i]) # {}
      <4>1. Below(values, values[i]) = {} => Cardinality(Below(values, values[i])) = 0
        BY FS_EmptySet
      <4> QED
        BY <1>1, <4>1
    <3>2. PICK u \in Below(values, values[i]) : \A j \in Below(values, values[i]) : values[j] <= values[u]
      <4>1. Below(values, values[i]) \in SUBSET (1 .. n)
        BY <1>3
      <4> QED
        BY <3>1, <4>1, Greatest
    <3>3. u \in 1 .. n /\ values[u] < values[i]
      BY <1>2 DEF Below
    <3>4. Below(values, values[i]) \subseteq UpTo(values, values[u])
      BY <1>2, <3>2 DEF Below, UpTo
    <3>5. UpTo(values, values[u]) \subseteq UpTo(values, values[i])
          /\ i \in UpTo(values, values[i]) /\ i \notin UpTo(values, values[u])
      BY <1>2, <3>3 DEF UpTo
    <3>6. Cardinality(UpTo(values, values[u])) < Cardinality(UpTo(values, values[i]))
      <4> DEFINE fewer == UpTo(values, values[u])
                 more == UpTo(values, values[i])
      <4>1. IsFiniteSet(more) /\ Cardinality(fewer) \in Nat /\ Cardinality(more) \in Nat
        BY <1>3
      <4>2. fewer \in SUBSET more /\ more # fewer
        BY <3>5
      <4> HIDE DEF fewer, more
      <4>3. Cardinality(fewer) <= Cardinality(more) /\ Cardinality(fewer) # Cardinality(more)
        BY <4>1, <4>2, FS_Subset
      <4> QED
        BY <4>1, <4>3 DEF fewer, more
    <3>7. Cardinality(Below(values, values[i])) <= Cardinality(UpTo(values, values[u]))
      BY <1>3, <3>4, FS_Subset
    <3>8. Cardinality(UpTo(values, values[u])) \in over
      <4>1. place < Cardinality(UpTo(values, values[u])) /\ Cardinality(UpTo(values, values[u])) \in Nat
        BY <1>1, <1>3, <3>7
      <4> QED
        BY <3>3, <4>1
    <3> HIDE DEF over
    <3> QED
      BY <1>3, <2>2, <2>3, <3>6, <3>8
  <2> QED
    BY <2>3, <2>4
<1>5. PICK i \in 1 .. n : bound = values[i] /\ Within(bound)
  <2> DEFINE S == {values[i] : i \in DOMAIN values}
  <2>1. bound = CHOOSE v \in S : Within(v)
    BY DEF UpperQuantile, place
  <2>2. \E v \in S : Within(v)
    BY <1>2, <1>4
  <2>3. bound \in S /\ Within(bound)
    <3> HIDE DEF S, bound, Within
    <3> QED
      BY <2>1, <2>2
  <2> HIDE DEF bound, Within
  <2> QED
    BY <1>2, <2>3
<1> HIDE DEF bound
<1>6. bound \in Int
  BY <1>5
<1> DEFINE above == {j \in 1 .. n : ~(values[j] <= bound)}
<1>7. Cardinality(above) = n - Cardinality(UpTo(values, bound))
  <2>1. above = (1 .. n) \ UpTo(values, bound)
    BY <1>2 DEF UpTo
  <2>2. IsFiniteSet(1 .. n) /\ Cardinality(1 .. n) = n
    <3>1. 1 \in Int /\ n \in Int /\ ~(1 > n) /\ n - 1 + 1 = n
      OBVIOUS
    <3> QED
      BY <3>1, FS_Interval
  <2>3. (1 .. n) \cap UpTo(values, bound) = UpTo(values, bound)
    BY <1>3
  <2> HIDE DEF above
  <2> QED
    <3>1. Cardinality((1 .. n) \ UpTo(values, bound))
            = Cardinality(1 .. n) - Cardinality((1 .. n) \cap UpTo(values, bound))
      BY <2>2, FS_Difference
    <3> QED
      BY <2>1, <2>2, <2>3, <3>1
<1>8. 100 * Cardinality(above) <= (100 - Confidence) * n
  <2> HIDE DEF above
  <2>1. Cardinality(UpTo(values, bound)) \in Nat /\ Cardinality(above) <= n - 1 - place
    BY <1>1, <1>3, <1>5, <1>7
  <2>2. Cardinality(above) \in Int /\ (100 - Confidence) * n \in Int
    BY <1>7, <2>1 DEF GateAssumption
  <2> QED
    BY <1>1, <2>1, <2>2
<1> QED
  BY <1>6, <1>8 DEF bound

-----------------------------------------------------------------------------
(* The energies *)

\* The greatest of two numbers is one.
LEMMA GreaterIsInt == ASSUME NEW a \in Int, NEW b \in Int PROVE Max({a, b}) \in Int
<1>1. \E e \in {a, b} : \A y \in {a, b} : e >= y
  OBVIOUS
<1>2. Max({a, b}) \in {a, b}
  BY <1>1 DEF Max
<1> QED
  BY <1>2

\* The distance of two replies is a number.
LEMMA SampleDistanceIsInt ==
  ASSUME GateAssumption, NEW s \in Samples, NEW t \in Samples
  PROVE  SampleDistance(s, t) \in Int
<1> DEFINE m == Max({Len(s.ids), Len(t.ids), 1})
           d == TokenEditDistance(s.ids, t.ids)
           normalized == (d * Units) \div m
<1>1. s.ids \in Seq(Tokens) /\ t.ids \in Seq(Tokens) /\ Units \in Nat
  BY DEF GateAssumption, Samples
<1>2. Len(s.ids) \in Nat /\ Len(t.ids) \in Nat
  BY <1>1
<1>3. m \in Nat /\ m >= 1
  <2> DEFINE S == {Len(s.ids), Len(t.ids), 1}
  <2>1. \E e \in S : \A y \in S : e >= y
    BY <1>2
  <2>2. Max(S) \in S /\ \A y \in S : Max(S) >= y
    <3> HIDE DEF S
    <3> QED
      BY <2>1 DEF Max
  <2> QED
    BY <1>2, <2>2
<1>4. d \in Nat
  BY <1>1, DistanceIsLeast
<1> HIDE DEF d, m
<1>5. d * Units \in Int
  BY <1>1, <1>4
<1>6. normalized \in Int
  BY <1>3, <1>5
<1> HIDE DEF normalized
<1>7. normalized + Units \div 10 \in Int
  BY <1>1, <1>6
<1>8. Min({Units, normalized + Units \div 10}) \in Int
  <2> DEFINE more == normalized + Units \div 10
  <2>1. more \in Int
    BY <1>7
  <2> HIDE DEF more
  <2>2. \E e \in {Units, more} : \A y \in {Units, more} : e <= y
    BY <1>1, <2>1
  <2>3. Min({Units, more}) \in {Units, more}
    BY <2>2 DEF Min
  <2> QED
    BY <1>1, <2>1, <2>3 DEF more
<1>9. SampleDistance(s, t) =
        IF s.finish = t.finish THEN normalized ELSE Min({Units, normalized + Units \div 10})
  BY DEF SampleDistance, normalized, d, m
<1> QED
  BY <1>6, <1>8, <1>9

\* So is a mean of such distances.
LEMMA MeanIsInt ==
  ASSUME GateAssumption, NEW m \in Nat, NEW n \in Nat, NEW first \in [1 .. m -> Samples],
         NEW second \in [1 .. n -> Samples], Len(first) = m, Len(second) = n, NEW sameGroup
  PROVE  MeanPairDistance(first, second, sameGroup) \in Int
<1> DEFINE pairs == Positions(m, n, sameGroup)
           distances == [p \in pairs |-> SampleDistance(first[p[1]], second[p[2]])]
<1>1. pairs \subseteq (1 .. m) \X (1 .. n)
  BY DEF Positions
<1>2. IsFiniteSet(pairs)
  <2>1. IsFiniteSet(1 .. m) /\ IsFiniteSet(1 .. n)
    BY FS_Interval
  <2>2. IsFiniteSet((1 .. m) \X (1 .. n))
    BY <2>1, FS_Product
  <2> HIDE DEF pairs
  <2> QED
    BY <1>1, <2>2, FS_Subset
<1>3. Cardinality(pairs) \in Nat
  BY <1>2, FS_CardinalityType
<1> HIDE DEF pairs
<1>4. distances \in [pairs -> Int]
  <2>1. \A p \in pairs : SampleDistance(first[p[1]], second[p[2]]) \in Int
    BY <1>1, SampleDistanceIsInt
  <2> QED
    BY <2>1
<1>5. SumFunction(distances) \in Int
  <2> HIDE DEF distances
  <2> QED
    BY <1>2, <1>4, SumIsInt
<1>6. MeanPairDistance(first, second, sameGroup) = MeanOf(SumFunction(distances), Cardinality(pairs), m)
  BY DEF MeanPairDistance, pairs
<1> HIDE DEF distances
<1>7. SumFunction(distances) * MeanUnits(m) \in Int
  <2>1. MeanUnits(m) \in Int
    BY DEF MeanUnits
  <2> QED
    BY <1>5, <2>1
<1>8. MeanOf(SumFunction(distances), Cardinality(pairs), m) \in Int
  <2>1. CASE Cardinality(pairs) = 0
    BY <2>1 DEF MeanOf
  <2>2. CASE Cardinality(pairs) # 0
    BY <1>3, <1>7, <2>2 DEF MeanOf
  <2> QED
    BY <2>1, <2>2
<1> QED
  BY <1>6, <1>8

Arms == [1 .. 4 -> [1 .. ArmSize -> Samples]]

\* The length of a sequence of a given length.
LEMMA LengthIs ==
  ASSUME NEW n \in Nat, NEW S, NEW s \in [1 .. n -> S]
  PROVE  s \in Seq(S) /\ Len(s) = n
  OBVIOUS

\* The excess of any arms is a number.
LEMMA ExcessIsInt == ASSUME GateAssumption, NEW a \in Arms PROVE Excess(a) \in Int
<1>1. ArmSize \in Nat
  BY DEF GateAssumption
<1>2. \A k \in 1 .. 4 : a[k] \in [1 .. ArmSize -> Samples] /\ Len(a[k]) = ArmSize
  BY <1>1, LengthIs DEF Arms
<1>3. \A k, l \in 1 .. 4 : \A same \in BOOLEAN : MeanPairDistance(a[k], a[l], same) \in Int
  BY <1>1, <1>2, MeanIsInt
<1>4. \A k, l \in 1 .. 4 : EnergyDistance(a[k], a[l]) \in Int
  <2> TAKE k \in 1 .. 4, l \in 1 .. 4
  <2> DEFINE cross == MeanPairDistance(a[k], a[l], FALSE)
             withinFirst == MeanPairDistance(a[k], a[k], TRUE)
             withinSecond == MeanPairDistance(a[l], a[l], TRUE)
             difference == 2 * cross - withinFirst - withinSecond
  <2>1. difference \in Int
    <3>1. TRUE \in BOOLEAN /\ FALSE \in BOOLEAN
      OBVIOUS
    <3>2. cross \in Int /\ withinFirst \in Int /\ withinSecond \in Int
      BY <1>3, <3>1, Zenon
    <3> HIDE DEF cross, withinFirst, withinSecond
    <3> QED
      BY <3>2
  <2>2. EnergyDistance(a[k], a[l]) = Max({0, difference})
    BY DEF EnergyDistance, Energy
  <2> HIDE DEF difference
  <2> QED
    BY <2>1, <2>2, GreaterIsInt
<1>5. Max({EnergyDistance(a[1], a[3]), EnergyDistance(a[2], a[4])}) \in Int
  BY <1>4, GreaterIsInt
<1> QED
  BY <1>4, <1>5 DEF Excess

\* What is looked up by index in the matrices is what the resampled replies give.
LEMMA ResampledMean ==
  ASSUME GateAssumption, arms \in Arms, NEW draw \in Draws,
         NEW k \in 1 .. 4, NEW l \in 1 .. 4, NEW sameGroup
  PROVE  IndexedMean(DistanceMatrix(arms[k], arms[l]), draw[k], draw[l], sameGroup)
           = MeanPairDistance(Resampled(draw)[k], Resampled(draw)[l], sameGroup)
<1> DEFINE first == Resampled(draw)[k]
           second == Resampled(draw)[l]
           n == ArmSize
           pairs == Positions(n, n, sameGroup)
           matrix == DistanceMatrix(arms[k], arms[l])
<1>1. n \in Nat /\ draw \in [1 .. 4 -> [1 .. n -> 1 .. n]]
  BY DEF GateAssumption
<1>2. /\ draw[k] \in [1 .. n -> 1 .. n] /\ draw[l] \in [1 .. n -> 1 .. n]
      /\ arms[k] \in [1 .. n -> Samples] /\ arms[l] \in [1 .. n -> Samples]
  BY <1>1 DEF Arms
<1>3. Len(draw[k]) = n /\ Len(draw[l]) = n
  BY <1>1, <1>2, LengthIs
<1>4. /\ first = [i \in 1 .. n |-> arms[k][draw[k][i]]] /\ first \in [1 .. n -> Samples]
      /\ second = [i \in 1 .. n |-> arms[l][draw[l][i]]] /\ second \in [1 .. n -> Samples]
  BY <1>2 DEF Resampled
<1>5. Len(first) = n /\ Len(second) = n
  <2> HIDE DEF first, second
  <2> QED
    BY <1>1, <1>4, LengthIs
<1>6. \A p \in pairs : p[1] \in 1 .. n /\ p[2] \in 1 .. n
  BY DEF Positions
<1>7. \A i, j \in 1 .. n : matrix[i][j] = SampleDistance(arms[k][i], arms[l][j])
  BY <1>2 DEF DistanceMatrix
<1> HIDE DEF first, second, pairs, matrix
<1>8. \A p \in pairs :
        matrix[draw[k][p[1]]][draw[l][p[2]]] = SampleDistance(first[p[1]], second[p[2]])
  BY <1>2, <1>4, <1>6, <1>7
<1>9. [p \in pairs |-> matrix[draw[k][p[1]]][draw[l][p[2]]]]
        = [p \in pairs |-> SampleDistance(first[p[1]], second[p[2]])]
  BY <1>8
<1>10. IndexedMean(matrix, draw[k], draw[l], sameGroup)
         = MeanOf(SumFunction([p \in pairs |-> matrix[draw[k][p[1]]][draw[l][p[2]]]]), Cardinality(pairs), n)
  BY <1>3 DEF IndexedMean, pairs
<1>11. MeanPairDistance(first, second, sameGroup)
         = MeanOf(SumFunction([p \in pairs |-> SampleDistance(first[p[1]], second[p[2]])]),
                  Cardinality(pairs), n)
  BY <1>5 DEF MeanPairDistance, pairs
<1> QED
  BY <1>9, <1>10, <1>11 DEF first, second, matrix

\* So the excess of a resample is that of its replies.
LEMMA ResampledExcess ==
  ASSUME GateAssumption, arms \in Arms, NEW draw \in Draws
  PROVE  Resampled(draw) \in Arms /\ BootstrapExcess(arms, draw) = Excess(Resampled(draw))
<1>1. Resampled(draw) \in Arms
  <2>1. ArmSize \in Nat /\ draw \in [1 .. 4 -> [1 .. ArmSize -> 1 .. ArmSize]]
    BY DEF GateAssumption
  <2> QED
    BY <2>1 DEF Resampled, Arms
<1>2. \A k, l \in 1 .. 4 : \A same \in BOOLEAN :
        IndexedMean(DistanceMatrix(arms[k], arms[l]), draw[k], draw[l], same)
          = MeanPairDistance(Resampled(draw)[k], Resampled(draw)[l], same)
  BY ResampledMean
<1>3. \A k, l \in 1 .. 4 :
        IndexedEnergy(arms, draw, k, l) = EnergyDistance(Resampled(draw)[k], Resampled(draw)[l])
  BY <1>2 DEF IndexedEnergy, EnergyDistance
<1>4. /\ IndexedEnergy(arms, draw, 1, 3) = EnergyDistance(Resampled(draw)[1], Resampled(draw)[3])
      /\ IndexedEnergy(arms, draw, 2, 4) = EnergyDistance(Resampled(draw)[2], Resampled(draw)[4])
      /\ IndexedEnergy(arms, draw, 1, 2) = EnergyDistance(Resampled(draw)[1], Resampled(draw)[2])
  BY <1>3
<1> QED
  BY <1>1, <1>4 DEF BootstrapExcess, Excess

-----------------------------------------------------------------------------
(* The gate *)

GateTypes ==
  /\ pair \in Outputs \X Outputs
  /\ arms \in Arms
  /\ drawn \in Seq(Draws) /\ Len(drawn) <= Resamples

\* A verdict rests on all of the resamples, and a distance on its two outputs.
GateInv ==
  /\ GateTypes
  /\ distance # Uncomputed => distance = TokenEditDistance(pair[1], pair[2])
  /\ gate = "passed" => Len(drawn) = Resamples /\ UpperQuantile(Excesses) <= MarginUnits

\* Initially nothing is computed, drawn or passed.
LEMMA GateStarts == ASSUME GateAssumption, GateInit PROVE GateInv
<1>1. arms \in Arms
  BY DEF GateInit, GateAssumption, Arms
<1>2. drawn = <<>> /\ <<>> \in Seq(Draws) /\ Len(<<>>) = 0 /\ 0 <= Resamples
  BY DEF GateInit, GateAssumption
<1> QED
  BY <1>1, <1>2 DEF GateInit, GateInv, GateTypes

\* Drawing goes before the verdict, and nothing after it.
LEMMA GateKeeps == ASSUME GateAssumption, GateInv, [GateNext]_gateVars PROVE GateInv'
<1>1. CASE CompareOutputs
  BY <1>1 DEF CompareOutputs, GateInv, GateTypes, Excesses, MarginUnits
<1>2. CASE Draw
  <2>1. PICK draw \in Draws : drawn' = Append(drawn, draw)
    BY <1>2 DEF Draw
  <2>2. drawn' \in Seq(Draws) /\ Len(drawn') <= Resamples
    <3>1. drawn \in Seq(Draws) /\ Len(drawn) < Resamples /\ Resamples \in Nat
      BY <1>2 DEF Draw, GateInv, GateTypes, GateAssumption
    <3>2. drawn' \in Seq(Draws) /\ Len(drawn') = Len(drawn) + 1 /\ Len(drawn) \in Nat
      BY <2>1, <3>1
    <3> QED
      BY <3>1, <3>2
  <2>3. gate' # "passed"
    BY <1>2 DEF Draw
  <2> QED
    BY <1>2, <2>2, <2>3 DEF Draw, GateInv, GateTypes
<1>3. CASE Evaluate
  <2>1. gate' = "passed" => UpperQuantile(Excesses) <= MarginUnits
    BY <1>3 DEF Evaluate
  <2>2. Excesses' = Excesses /\ MarginUnits' = MarginUnits
    BY <1>3 DEF Evaluate, Excesses, MarginUnits
  <2> QED
    BY <1>3, <2>1, <2>2 DEF Evaluate, GateInv, GateTypes
<1>4. CASE UNCHANGED gateVars
  BY <1>4 DEF gateVars, GateInv, GateTypes, Excesses, MarginUnits
<1> QED
  BY <1>1, <1>2, <1>3, <1>4 DEF GateNext

\* For any rule, arms and draws: when the gate passes, no more of the resamples exceed the
\* margin than the confidence leaves, as the resampled replies themselves would tell
\* (evaluate_sampled_distribution, _bootstrap_excess, _upper_quantile).
THEOREM PassedConfidently ==
  ASSUME GateAssumption
  PROVE  GateSpec => []PassedIsConfident
<1>1. GateInv => PassedIsConfident
  <2> SUFFICES ASSUME GateInv, gate = "passed"
               PROVE  100 * Cardinality({i \in DOMAIN drawn : Excess(Resampled(drawn[i])) > MarginUnits})
                        <= (100 - Confidence) * Len(drawn)
    BY DEF PassedIsConfident
  <2> DEFINE n == Len(drawn)
  <2>1. n \in Nat \ {0} /\ DOMAIN drawn = 1 .. n /\ \A i \in 1 .. n : drawn[i] \in Draws
    BY DEF GateInv, GateTypes, GateAssumption
  <2>2. arms \in Arms /\ UpperQuantile(Excesses) <= MarginUnits
    BY DEF GateInv, GateTypes
  <2>3. \A i \in 1 .. n : Excesses[i] = Excess(Resampled(drawn[i])) /\ Excess(Resampled(drawn[i])) \in Int
    <3>1. \A i \in 1 .. n : Excesses[i] = BootstrapExcess(arms, drawn[i])
      BY <2>1 DEF Excesses
    <3> QED
      BY <2>1, <2>2, <3>1, ResampledExcess, ExcessIsInt
  <2>4. Excesses \in [1 .. n -> Int]
    <3>1. Excesses = [i \in 1 .. n |-> Excesses[i]]
      BY <2>1 DEF Excesses
    <3> QED
      BY <2>3, <3>1
  <2>5. Len(Excesses) = n
    BY <2>1, <2>4, LengthIs
  <2>6. /\ UpperQuantile(Excesses) \in Int
        /\ 100 * Cardinality({i \in 1 .. n : ~(Excesses[i] <= UpperQuantile(Excesses))})
             <= (100 - Confidence) * n
    BY <2>1, <2>4, <2>5, QuantileIs
  <2>7. MarginUnits \in Int
    <3>1. Len(arms[1]) = ArmSize /\ ArmSize \in Int
      BY <2>2, LengthIs DEF Arms, GateAssumption
    <3> QED
      BY <3>1 DEF MarginUnits, MeanUnits, GateAssumption
  <2> DEFINE over == {i \in 1 .. n : Excess(Resampled(drawn[i])) > MarginUnits}
             above == {i \in 1 .. n : ~(Excesses[i] <= UpperQuantile(Excesses))}
  <2>8. over \subseteq above
    BY <2>2, <2>3, <2>6, <2>7
  <2>9. Cardinality(over) <= Cardinality(above) /\ Cardinality(over) \in Nat /\ Cardinality(above) \in Nat
    <3>1. IsFiniteSet(1 .. n)
      BY <2>1, FS_Interval
    <3>2. IsFiniteSet(above)
      BY <3>1, FS_Subset
    <3> HIDE DEF over, above
    <3> QED
      BY <2>8, <3>2, FS_Subset, FS_CardinalityType
  <2>10. 100 * Cardinality(above) <= (100 - Confidence) * n /\ (100 - Confidence) * n \in Int
    BY <2>1, <2>6 DEF GateAssumption
  <2>11. 100 * Cardinality(over) <= (100 - Confidence) * n
    <3> HIDE DEF over, above
    <3> QED
      BY <2>9, <2>10
  <2> QED
    BY <2>1, <2>11
<1> QED
  BY <1>1, GateStarts, GateKeeps, PTL DEF GateSpec

\* For any two outputs, of any length: the rows computed one from the other end in the
\* least number of edits (_token_edit_distance).
THEOREM DistancesAreEdits ==
  ASSUME GateAssumption
  PROVE  GateSpec => []DistanceIsEditDistance
<1>1. GateInv => DistanceIsEditDistance
  <2> SUFFICES ASSUME GateInv, distance # Uncomputed
               PROVE  distance = Min({Edits(pair[1], pair[2], a) : a \in Alignments(pair[1], pair[2])})
    BY DEF DistanceIsEditDistance
  <2>1. pair[1] \in Seq(Tokens) /\ pair[2] \in Seq(Tokens)
    BY DEF GateInv, GateTypes, GateAssumption
  <2> QED
    BY <2>1, DistanceIsLeast DEF GateInv
<1> QED
  BY <1>1, GateStarts, GateKeeps, PTL DEF GateSpec

=============================================================================
