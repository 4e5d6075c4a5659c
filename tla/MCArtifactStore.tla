--------------------------- MODULE MCArtifactStore ---------------------------
(***************************************************************************)
(* Small instances for TLC of the artifact store and of the evidence that  *)
(* is kept in it: "part" names what a behaviour exercises.  "verdict" is   *)
(* one probe's verdict alone, on whatever one of its arms may have given.  *)
(***************************************************************************)
EXTENDS ArtifactStore, EvidenceReport, ProbeJudgement, TLC

CONSTANTS p1, p2, h1, h2, m, n, r1, r2, v1, v2, x, y

VARIABLE part

Symmetry == Permutations(Procs) \cup Permutations(Names) \cup Permutations(Runs)

\* The files that the runs of one behaviour are made for.
PassingMenus == {<<"capture", "captured-optimizer">>, <<"candidate-serving", "parent-restore">>}
ServerMenus == {<<"target", "dflash">>}

-----------------------------------------------------------------------------
(* What arms give *)

ArmWith(probe, o, clean) ==
  [healthy |-> TRUE, clean |-> clean,
   groups |-> [i \in 1 .. Groups(probe) |-> [j \in 1 .. Size(probe) |->
     Answer(IF i = 1 THEN o ELSE CHOOSE p \in Outputs : p # o, HasOutput(probe))]]]

\* What matters to records and reports: an output, or a server that stays.
SomeArms(probe) ==
  LET outputs == IF HasOutput(probe) THEN Outputs ELSE {NoOutput} IN
  {ArmWith(probe, o, TRUE) : o \in outputs}
    \cup {ArmWith(probe, CHOOSE o \in outputs : TRUE, FALSE)}

\* At most one arm is any of those given, and the others are good.
OutcomesFrom(probe, given) ==
  LET good == CHOOSE arm \in SomeArms(probe) : arm.clean IN
  {[[i \in 1 .. NArmsOf(probe) |-> good] EXCEPT ![k] = arm] : k \in 1 .. NArmsOf(probe), arm \in given}

SomeMeasurements == [probe \in Probes |-> OutcomesFrom(probe, SomeArms(probe))]
AllOfOneArm == [probe \in Probes |-> OutcomesFrom(probe, ArmsOf(probe))]

ASSUME EvidenceAssumption /\ OutcomesAssumption

-----------------------------------------------------------------------------

SomePart ==
  /\ part \in {"store", "evidence", "verdict"}
  /\ Init /\ EvidenceInit /\ JudgementInit
  /\ part # "evidence" => menu = CHOOSE f \in Menus : TRUE

PartNext ==
  /\ UNCHANGED part
  /\ \/ part = "store" /\ Next /\ UNCHANGED <<evidenceVars, judged>>
     \/ part = "evidence" /\ EvidenceNext /\ UNCHANGED <<vars, judged>>
     \/ part = "verdict" /\ Judge /\ UNCHANGED <<vars, evidenceVars>>

PartSpec == SomePart /\ [][PartNext]_<<part, vars, evidenceVars, judged>>

=============================================================================
