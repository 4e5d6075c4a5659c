------------------------ MODULE SampledDistribution ------------------------
(***************************************************************************)
(* The statistical gate on sampled outputs: two arms of the target and two *)
(* of the candidate, the energy distance between arms over a normalized    *)
(* edit distance between replies, its excess over what the target differs  *)
(* from itself, and an upper bound of that excess by resampling.           *)
(*                                                                         *)
(* The excess of the arms is computed from their samples, and that of a    *)
(* resample from matrices of distances and the indices drawn.  Fractions   *)
(* are integers in units that divide evenly; floating point is left out.   *)
(***************************************************************************)
EXTENDS Integers, Sequences, FiniteSets, FiniteSetsExt, Functions

CONSTANTS
    Tokens, Finishes,
    Outputs,        \* sequences of tokens
    MaxLength,      \* bound: tokens of an output
    Units,          \* 1.0, so that lengths and the tenth for another finish reason divide it
    ArmSize,        \* samples_per_arm
    ArmChoices,     \* the arms: sequences of samples
    Draws,          \* what random.Random may draw: four sequences of indices
    Resamples,      \* bootstrap_resamples
    Confidence,     \* confidence_level, in percent
    Margin          \* equivalence_margin, in Units

Samples == [ids : Outputs, finish : Finishes]

\* The rule's fields, and what the arms of a run are made of.
GateAssumption ==
  /\ Outputs \subseteq Seq(Tokens) /\ MaxLength \in Nat
  /\ \A output \in Outputs : Len(output) \in 1 .. MaxLength
  /\ Units \in Nat /\ \A k \in (1 .. MaxLength) \cup {10} : Units % k = 0
  /\ ArmSize \in Nat /\ ArmSize > 1
  /\ ArmChoices \subseteq [1 .. ArmSize -> Samples]
  /\ Draws \subseteq [1 .. 4 -> [1 .. ArmSize -> 1 .. ArmSize]]
  /\ Resamples \in Nat \ {0} /\ Confidence \in 0 .. 100 /\ Margin \in Nat

VARIABLES
    pair,           \* two outputs, and their distance once it is computed
    distance,
    arms,           \* target-a, target-b, candidate-a, candidate-b
    drawn,          \* the resamples so far
    gate            \* none, passed or failed

gateVars == <<pair, distance, arms, drawn, gate>>

Uncomputed == -1

GateInit ==
  /\ pair \in Outputs \X Outputs /\ distance = Uncomputed
  /\ arms \in [1 .. 4 -> ArmChoices]
  /\ drawn = <<>> /\ gate = "none"

-----------------------------------------------------------------------------
(* Distances. *)

\* Mutant of NextEntry: a token that is dropped and one that is added are two edits.
NextEntryWithoutSubstitution(above, before, diagonal, same) ==
  Min({before + 1, above + 1, diagonal + IF same THEN 0 ELSE 2})
NextEntry(above, before, diagonal, same) ==
  Min({before + 1, above + 1, diagonal + IF same THEN 0 ELSE 1})

\* A row from the one above it, which belongs to the tokens before this one.
NextRow(previous, i, token, right) ==
  LET current[j \in 0 .. Len(right)] ==
        IF j = 0 THEN i
        ELSE NextEntry(previous[j], current[j - 1], previous[j - 1], token = right[j])
  IN current

TokenEditDistance(left, right) ==
  LET row[i \in 0 .. Len(left)] ==
        IF i = 0 THEN [j \in 0 .. Len(right) |-> j]
        ELSE NextRow(row[i - 1], i, left[i], right)
  IN row[Len(left)][Len(right)]

SampleDistance(s, t) ==
  LET normalized == (TokenEditDistance(s.ids, t.ids) * Units) \div Max({Len(s.ids), Len(t.ids), 1})
  IN IF s.finish = t.finish THEN normalized ELSE Min({Units, normalized + Units \div 10})

\* The positions that are compared, each pair once within one group.
Positions(m, n, sameGroup) ==
  {p \in (1 .. m) \X (1 .. n) : sameGroup => p[1] < p[2]}

\* Numbers of pairs divide it.
MeanUnits(n) == n * n * (n - 1)

MeanOf(total, count, n) == IF count = 0 THEN 0 ELSE (total * MeanUnits(n)) \div count

Energy(cross, withinFirst, withinSecond) == Max({0, 2 * cross - withinFirst - withinSecond})

MeanPairDistance(first, second, sameGroup) ==
  LET pairs == Positions(Len(first), Len(second), sameGroup)
  IN MeanOf(SumFunction([p \in pairs |-> SampleDistance(first[p[1]], second[p[2]])]),
            Cardinality(pairs), Len(first))

EnergyDistance(first, second) ==
  Energy(MeanPairDistance(first, second, FALSE),
         MeanPairDistance(first, first, TRUE), MeanPairDistance(second, second, TRUE))

Excess(a) == Max({EnergyDistance(a[1], a[3]), EnergyDistance(a[2], a[4])}) - EnergyDistance(a[1], a[2])

-----------------------------------------------------------------------------
(* The bootstrap. *)

DistanceMatrix(first, second) ==
  [i \in DOMAIN first |-> [j \in DOMAIN second |-> SampleDistance(first[i], second[j])]]

IndexedMean(matrix, rows, columns, sameGroup) ==
  LET pairs == Positions(Len(rows), Len(columns), sameGroup)
  IN MeanOf(SumFunction([p \in pairs |-> matrix[rows[p[1]]][columns[p[2]]]]),
            Cardinality(pairs), Len(rows))

\* Mutant of IndexedEnergy: the second group is looked up in the matrix of the first.
IndexedEnergyOfFirst(a, draw, l, r) ==
  Energy(IndexedMean(DistanceMatrix(a[l], a[r]), draw[l], draw[r], FALSE),
         IndexedMean(DistanceMatrix(a[l], a[l]), draw[l], draw[l], TRUE),
         IndexedMean(DistanceMatrix(a[l], a[l]), draw[r], draw[r], TRUE))
IndexedEnergy(a, draw, l, r) ==
  Energy(IndexedMean(DistanceMatrix(a[l], a[r]), draw[l], draw[r], FALSE),
         IndexedMean(DistanceMatrix(a[l], a[l]), draw[l], draw[l], TRUE),
         IndexedMean(DistanceMatrix(a[r], a[r]), draw[r], draw[r], TRUE))

BootstrapExcess(a, draw) ==
  Max({IndexedEnergy(a, draw, 1, 3), IndexedEnergy(a, draw, 2, 4)}) - IndexedEnergy(a, draw, 1, 2)

\* The place of the upper bound among n values in order, counted from zero.
QuantilePlace(n) == Min({n - 1, (Confidence * n) \div 100})

Below(values, v) == {i \in DOMAIN values : values[i] < v}
UpTo(values, v) == {i \in DOMAIN values : values[i] <= v}

\* The value at that place among the ordered ones.
UpperQuantile(values) ==
  LET place == QuantilePlace(Len(values))
  IN CHOOSE v \in {values[i] : i \in DOMAIN values} :
       Cardinality(Below(values, v)) <= place /\ place < Cardinality(UpTo(values, v))

-----------------------------------------------------------------------------

CompareOutputs ==
  /\ distance = Uncomputed
  /\ distance' = TokenEditDistance(pair[1], pair[2])
  /\ UNCHANGED <<pair, arms, drawn, gate>>

Draw ==
  /\ gate = "none" /\ Len(drawn) < Resamples
  /\ \E draw \in Draws : drawn' = Append(drawn, draw)
  /\ UNCHANGED <<pair, distance, arms, gate>>

MarginUnits == Margin * MeanUnits(Len(arms[1]))

Excesses == [i \in DOMAIN drawn |-> BootstrapExcess(arms, drawn[i])]

Evaluate ==
  /\ gate = "none" /\ Len(drawn) = Resamples
  /\ gate' = IF UpperQuantile(Excesses) <= MarginUnits THEN "passed" ELSE "failed"
  /\ UNCHANGED <<pair, distance, arms, drawn>>

GateNext == CompareOutputs \/ Draw \/ Evaluate

GateSpec == GateInit /\ [][GateNext]_gateVars

-----------------------------------------------------------------------------

\* The pairs of tokens an alignment keeps or substitutes, in order.
Alignments(left, right) ==
  {a \in SUBSET ((DOMAIN left) \X (DOMAIN right)) :
     \A p, q \in a : p # q => (p[1] < q[1] /\ p[2] < q[2]) \/ (q[1] < p[1] /\ q[2] < p[2])}

\* What the alignment leaves over is dropped or added.
Edits(left, right, a) ==
  Len(left) + Len(right) - 2 * Cardinality(a) + Cardinality({p \in a : left[p[1]] # right[p[2]]})

\* The rows computed one from the other give the least number of tokens that are added,
\* dropped or substituted (_token_edit_distance).
DistanceIsEditDistance ==
  distance # Uncomputed =>
    distance = Min({Edits(pair[1], pair[2], a) : a \in Alignments(pair[1], pair[2])})

Resampled(draw) == [k \in 1 .. 4 |-> [i \in DOMAIN draw[k] |-> arms[k][draw[k][i]]]]

\* When the gate passes, the resamples whose excess is above the margin are no more than
\* the confidence leaves, the excess being that of the resampled replies themselves: what
\* the bootstrap looks up by index in seven matrices is what the direct computation
\* gives, and its bound is no place too low (evaluate_sampled_distribution).
PassedIsConfident ==
  gate = "passed" =>
    100 * Cardinality({i \in DOMAIN drawn : Excess(Resampled(drawn[i])) > MarginUnits})
      <= (100 - Confidence) * Len(drawn)

=============================================================================
