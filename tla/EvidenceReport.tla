--------------------------- MODULE EvidenceReport ---------------------------
(***************************************************************************)
(* From a probe's measurement to the compatibility report: an operator's   *)
(* runs each measure once, publish a record in the artifact store and      *)
(* leave it in a file; reports are built from those files, and recorded.   *)
(* Runs and reports share the store and the files and nothing else; each   *)
(* may die at any step.                                                    *)
(*                                                                         *)
(* An artifact is named by its content: it is the record.  A report begins *)
(* with an artifact on the training model, whose content only depends on   *)
(* the revisions of the repository and of SpecForge: a report is named by  *)
(* it, and so begins once.                                                 *)
(***************************************************************************)
EXTENDS ProbeVerdicts

CONSTANTS
    Runs,          \* the runs of main
    Reports,       \* the reports, by their training-model artifacts
    Menus,         \* the files that runs are made for, named by their probes
    measurements,  \* measurements[probe]: what the arms of a probe may give
    Missing        \* no file, no record, no report

EvidenceAssumption ==
  /\ Menus \subseteq Seq(Probes)
  /\ \A probe \in Probes : measurements[probe] \subseteq [1 .. NArmsOf(probe) -> ArmsOf(probe)]

VARIABLES
    menu,          \* the files of this behaviour
    run,           \* run[r]: what r measures, how far it is, and its record
    store,         \* the records published
    begun,         \* the training-model artifacts published
    file,          \* file[f]: missing, empty while it is written, whole, or mixed up
    draft,         \* draft[v]: how far the report v is, and what it has found
    artifacts,     \* the table of artifacts
    report         \* what is recorded of the compatibility: a report's evidence

prober == <<run, store, file>>
reporter == <<begun, draft, artifacts, report>>
evidenceVars == <<menu, prober, reporter>>

NoRun(point) == [pc |-> point, to |-> Missing, record |-> Missing]
NoDraft(point) == [pc |-> point, next |-> 1, found |-> <<>>]
MixedFile == [state |-> "mixed", record |-> Missing]
NoFile == [state |-> "missing", record |-> Missing]

Menu == {menu[i] : i \in DOMAIN menu}

EvidenceInit ==
  /\ menu \in Menus
  /\ run = [r \in Runs |-> NoRun("new")] /\ store = {} /\ begun = {}
  /\ file = [f \in Menu |-> NoFile]
  /\ draft = [v \in Reports |-> NoDraft("new")]
  /\ artifacts = {} /\ report = Missing

-----------------------------------------------------------------------------
(* A run of main. *)

\* An exception leaves a record without a result, which need not tell runs apart.
FailedRecord(probe) ==
  [probe |-> probe, status |-> "failed", by |-> Missing, arms |-> <<>>, basis |-> Missing]

Record(probe, status, r, arms, basis) ==
  IF status = "raised" THEN FailedRecord(probe)
  ELSE [probe |-> probe, status |-> status, by |-> r, arms |-> arms, basis |-> basis]

\* Mutant of PassingCandidate: any candidate-serving result will do.
CandidateWithResult(record) == record.probe = "candidate-serving" /\ record.arms # <<>>
\* What parent-restore reads before it measures: a record of candidate-serving that passed.
PassingCandidate(record) ==
  record.probe = "candidate-serving" /\ record.status = "passed"

CandidateOutput(record) == record.arms[2].groups[1][1].output

\* The operator may name any file for the record, and any for its basis.
Measure(r) ==
  /\ run[r].pc = "new"
  /\ \E probe \in Menu, f \in Menu, g \in Menu, within \in BOOLEAN :
       /\ within \/ probe = "sampled-distribution"
       /\ IF probe = "parent-restore"
            THEN file[g].state = "whole" /\ PassingCandidate(file[g].record) ELSE g = f
       /\ \E arms \in measurements[probe] :
            LET basis == IF probe = "parent-restore" THEN file[g].record ELSE Missing
                expected == IF probe = "parent-restore" THEN CandidateOutput(basis) ELSE NoOutput
            IN run' = [run EXCEPT ![r] =
                 [pc |-> "measured", to |-> f,
                  record |-> Record(probe, Verdict(probe, arms, expected, within), r, arms, basis)]]
  /\ UNCHANGED <<menu, store, file, reporter>>

\* The remote call raises, or the basis cannot be read or has not passed.
MeasureFails(r) ==
  /\ run[r].pc = "new"
  /\ \E probe \in Menu, f \in Menu :
       run' = [run EXCEPT ![r] = [pc |-> "measured", to |-> f, record |-> FailedRecord(probe)]]
  /\ UNCHANGED <<menu, store, file, reporter>>

\* commit refuses what the store has; the run ends without its file then.
PublishRecord(r) ==
  /\ run[r].pc = "measured"
  /\ store' = store \cup {run[r].record}
  /\ run' = [run EXCEPT ![r] = IF @.record \in store THEN NoRun("ended")
                                                    ELSE [@ EXCEPT !.pc = "published"]]
  /\ UNCHANGED <<menu, file, reporter>>

\* write_text truncates the file and then writes it.
OpenFile(r) ==
  /\ run[r].pc = "published"
  /\ file' = [file EXCEPT ![run[r].to] = [state |-> "empty", record |-> Missing]]
  /\ run' = [run EXCEPT ![r].pc = "writing"]
  /\ UNCHANGED <<menu, store, reporter>>

\* Over what another run has written since, the rest of it may stay.
WriteResult(r) ==
  /\ run[r].pc = "writing"
  /\ file' \in {[file EXCEPT ![run[r].to] = content] :
       content \in {[state |-> "whole", record |-> run[r].record]}
                     \cup (IF file[run[r].to].state = "empty" THEN {} ELSE {MixedFile})}
  /\ run' = [run EXCEPT ![r] = NoRun("ended")]
  /\ UNCHANGED <<menu, store, reporter>>

RunDies(r) ==
  /\ run[r].pc \in {"measured", "published", "writing"}
  /\ run' = [run EXCEPT ![r] = NoRun("ended")]
  /\ UNCHANGED <<menu, store, file, reporter>>

-----------------------------------------------------------------------------
(* A report. *)

CompatibilityLadder ==
  {"target-load", "tokenizer-template-identity", "target-only-serving", "official-dflash-load",
   "greedy-lossless-parity", "sampled-distribution-equivalence", "target-hidden-state-capture",
   "specforge-batch-ingest", "bounded-optimizer-step", "complete-checkpoint-save",
   "fresh-process-reload", "reloaded-logit-parity", "candidate-speculative-serving",
   "parent-restore", "resource-cleanup"}

\* The files a step's evidence is taken from.
Evidence(name) ==
  CASE name \in {"target-load", "target-only-serving"} -> {"target"}
    [] name = "official-dflash-load" -> {"dflash"}
    [] name = "greedy-lossless-parity" -> {"target", "dflash"}
    [] name = "tokenizer-template-identity" -> {"tokenizer-identity"}
    [] name = "sampled-distribution-equivalence" -> {"sampled-distribution"}
    [] name = "target-hidden-state-capture" -> {"capture"}
    [] name = "specforge-batch-ingest" -> {"ingest"}
    [] name = "candidate-speculative-serving" -> {"candidate-serving"}
    [] name \in {"parent-restore", "resource-cleanup"} -> {"parent-restore"}
    [] OTHER -> {"captured-optimizer"}

PhysicalGpu(name) == Evidence(name) \cap {"target", "dflash"} = {}

\* Mutant of PassingProbeArtifact: the probe is not asked for.
PassingArtifact(f, record) ==
  record.status = "passed" /\ \A i \in DOMAIN record.arms : record.arms[i].clean
PassingProbeArtifact(f, record) ==
  /\ record.probe = f /\ record.status = "passed"
  /\ \A i \in DOMAIN record.arms : record.arms[i].clean

\* What of a file becomes evidence; target and dflash are taken as they are.
Found(f) ==
  IF file[f].state = "whole"
       /\ (f \in {"target", "dflash"} \/ PassingProbeArtifact(f, file[f].record))
    THEN file[f].record ELSE Missing

End(v) == draft' = [draft EXCEPT ![v] = NoDraft("ended")]

\* The source artifact is new every time; the one on the training model is not.
BeginReport(v) ==
  /\ draft[v].pc = "new" /\ v \notin begun
  /\ begun' = begun \cup {v}
  /\ draft' = [draft EXCEPT ![v].pc = "reading"]
  /\ UNCHANGED <<menu, prober, artifacts, report>>

\* A file that is no JSON ends the command.
ReadFile(v) ==
  /\ draft[v].pc = "reading" /\ draft[v].next <= Len(menu)
  /\ LET f == menu[draft[v].next] IN
     IF file[f].state \in {"empty", "mixed"} THEN End(v)
     ELSE draft' = [draft EXCEPT ![v].next = @ + 1, ![v].found = Append(@, Found(f))]
  /\ UNCHANGED <<menu, prober, begun, artifacts, report>>

BuildSteps(v) ==
  /\ draft[v].pc = "reading" /\ draft[v].next > Len(menu)
  /\ draft' = [draft EXCEPT ![v].pc = "recording", ![v].next = 1]
  /\ UNCHANGED <<menu, prober, begun, artifacts, report>>

RecordArtifact(v) ==
  /\ draft[v].pc = "recording" /\ draft[v].next <= Len(menu)
  /\ artifacts' = artifacts \cup ({draft[v].found[draft[v].next]} \ {Missing})
  /\ draft' = [draft EXCEPT ![v].next = @ + 1]
  /\ UNCHANGED <<menu, prober, begun, report>>

AllRecorded(v) == draft[v].next > Len(menu)

\* The latest report of the draft stands, whichever began first.
RecordReport(v) ==
  /\ draft[v].pc = "recording" /\ AllRecorded(v)
  /\ report' = draft[v].found
  /\ End(v)
  /\ UNCHANGED <<menu, prober, begun, artifacts>>

ReportDies(v) ==
  /\ draft[v].pc \in {"reading", "recording"}
  /\ End(v)
  /\ UNCHANGED <<menu, prober, begun, artifacts, report>>

EvidenceNext ==
  \/ \E r \in Runs :
       \/ Measure(r) \/ MeasureFails(r) \/ PublishRecord(r)
       \/ OpenFile(r) \/ WriteResult(r) \/ RunDies(r)
  \/ \E v \in Reports :
       \/ BeginReport(v) \/ ReadFile(v) \/ BuildSteps(v)
       \/ RecordArtifact(v) \/ RecordReport(v) \/ ReportDies(v)

EvidenceSpec == EvidenceInit /\ [][EvidenceNext]_evidenceVars

-----------------------------------------------------------------------------

EvidenceOf(f) == report[CHOOSE i \in DOMAIN menu : menu[i] = f]

\* A step of the recorded report is passed when all its evidence was found.
StepPassed(name) ==
  /\ report # Missing
  /\ Evidence(name) \subseteq Menu
  /\ \A f \in Evidence(name) : EvidenceOf(f) # Missing

\* A step that the recorded report calls passed on a physical GPU rests on a record of
\* its own probe that has passed, in the artifact store and in the table, whatever runs
\* and other reports did to the files meanwhile (_passing_probe_artifact,
\* probe_source_compatibility).
ReportGrounded ==
  \A name \in CompatibilityLadder : PhysicalGpu(name) /\ StepPassed(name) =>
    \A f \in Evidence(name) :
      /\ EvidenceOf(f).probe = f /\ EvidenceOf(f).status = "passed"
      /\ EvidenceOf(f) \in store \cap artifacts

\* A parent that counts as restored has answered what the target alone answered when
\* the candidate was served, in a published record of a run that passed (main,
\* _parent_restore_probe).
RestoreFollowsCandidate ==
  \A record \in store : record.probe = "parent-restore" /\ record.status = "passed" =>
    /\ record.basis \in store
    /\ record.basis.probe = "candidate-serving" /\ record.basis.status = "passed"
    /\ record.arms[1].groups[1][1].output = record.basis.arms[1].groups[1][1].output

\* "one request, fixed server seed, exact token and text parity": what the report says
\* of a passed step greedy-lossless-parity (_build_source_compatibility_steps).
GreedyParityShown ==
  StepPassed("greedy-lossless-parity") =>
    /\ EvidenceOf("target").status = "passed" /\ EvidenceOf("dflash").status = "passed"
    /\ EvidenceOf("target").arms[1].groups = EvidenceOf("dflash").arms[1].groups

=============================================================================
