---------------------------- MODULE ProbeVerdicts ----------------------------
(***************************************************************************)
(* How a GPU probe judges what its serving arms gave it.  An arm is a      *)
(* server that was asked a few groups of requests: a group is the replies  *)
(* under one sampling seed or stratum, and counts once it is complete.     *)
(* Processes and ports are ServingProbe's; here is what becomes of their   *)
(* answers.  The statistics of the sampled distribution are an input.      *)
(***************************************************************************)
EXTENDS Naturals, Sequences

CONSTANTS
    Outputs,       \* tokens, text and finish reason of a reply
    NoOutput

Probes == {"target", "dflash", "tokenizer-identity", "capture", "ingest", "model-port",
           "captured-optimizer", "reload-diagnostic", "candidate-serving", "sampled-rng",
           "sampled-distribution", "target-sampling-determinism", "parent-restore"}

Answer(o, d) == [passed |-> TRUE, output |-> o, drafts |-> d]
\* An HTTP error, or a body that is no object; and an object without the fields.
Refused == [passed |-> FALSE, output |-> NoOutput, drafts |-> FALSE]
Bare == Answer(NoOutput, FALSE)

\* The probes whose replies are generated text; a workload or a child only passes.
HasOutput(probe) ==
  probe \in {"target", "dflash", "candidate-serving", "sampled-rng", "sampled-distribution",
            "target-sampling-determinism", "parent-restore"}

Replies(probe) ==
  {Refused, Bare} \cup (IF HasOutput(probe) THEN {Answer(o, d) : o \in Outputs, d \in BOOLEAN} ELSE {})

\* The groups an arm is asked, and the replies in each.
Groups(probe) ==
  IF probe \in {"sampled-rng", "target-sampling-determinism", "sampled-distribution"} THEN 2 ELSE 1
Size(probe) == IF Groups(probe) = 1 THEN 1 ELSE 2

\* target-a, target-b, candidate-a and candidate-b; target and candidate.
NArmsOf(probe) ==
  CASE probe = "sampled-distribution" -> 4
    [] probe \in {"candidate-serving", "sampled-rng"} -> 2
    [] OTHER -> 1

\* The arms that serve a draft model.
Drafting(probe) ==
  CASE probe = "sampled-distribution" -> {3, 4}
    [] probe \in {"candidate-serving", "sampled-rng"} -> {2}
    [] probe = "parent-restore" -> {1}
    [] OTHER -> {}

\* An exception ends an arm: the groups before it are kept, none if the server never
\* became healthy.
ArmsOf(probe) ==
  {arm \in [healthy : BOOLEAN, clean : BOOLEAN,
            groups : UNION {[1 .. n -> [1 .. Size(probe) -> Replies(probe)]] : n \in 0 .. Groups(probe)}] :
     arm.groups = <<>> \/ arm.healthy}

RepliesOf(arm) == UNION {{arm.groups[i][j] : j \in DOMAIN arm.groups[i]} : i \in DOMAIN arm.groups}

\* Whatever was asked was answered; not that all was asked.
RequestsPassed(arm) == arm.groups # <<>> /\ \A r \in RepliesOf(arm) : r.passed

ArmPassed(arm) == arm.healthy /\ RequestsPassed(arm) /\ arm.clean

\* Mutant of Answered: a group that was not asked is not missed.
AnsweredSoFar(probe, arm) == arm.groups # <<>> /\ \A r \in RepliesOf(arm) : r.output # NoOutput
\* Every seed and stratum has its replies, and every reply its output; or else a KeyError.
Answered(probe, arm) ==
  Len(arm.groups) = Groups(probe) /\ \A r \in RepliesOf(arm) : r.output # NoOutput

\* The telemetry of all replies, summed: drafts were proposed and verified.
Drafted(arm) == \E r \in RepliesOf(arm) : r.drafts

Status(passed) == IF passed THEN "passed" ELSE "failed"

FirstOutputs(arm) == {arm.groups[i][1].output : i \in DOMAIN arm.groups}
OutputsVary(arm) == \E o, p \in FirstOutputs(arm) : o # p
Repeatable(arm) == \A i \in DOMAIN arm.groups : arm.groups[i][1].output = arm.groups[i][2].output
SameOutputs(a, b) ==
  \A i \in DOMAIN a.groups \cap DOMAIN b.groups : a.groups[i][1].output = b.groups[i][1].output

-----------------------------------------------------------------------------
(* The probes.  "raised" is an exception nobody catches. *)

ServerProbe(arm) == Status(ArmPassed(arm))

\* A server with a workload: a reply without output.
CaptureProbe(arm) == Status(ArmPassed(arm))

\* A child without a server: its record is the reply, and only the GPU is looked at.
ChildProbe(arm) == Status(RequestsPassed(arm) /\ arm.clean)

TargetDeterminism(arm) ==
  Status(/\ ArmPassed(arm) /\ Answered("target-sampling-determinism", arm)
         /\ OutputsVary(arm) /\ Repeatable(arm))

CandidateServing(target, candidate) ==
  Status(/\ Answered("candidate-serving", target) /\ Answered("candidate-serving", candidate)
         /\ target.healthy /\ candidate.healthy /\ target.clean /\ candidate.clean
         /\ SameOutputs(target, candidate)
         /\ Drafted(candidate))

SampledRng(target, candidate) ==
  Status(/\ Answered("sampled-rng", target) /\ Answered("sampled-rng", candidate)
         /\ target.healthy /\ candidate.healthy /\ target.clean /\ candidate.clean
         /\ Drafted(candidate)
         /\ OutputsVary(target)
         /\ Repeatable(target) /\ Repeatable(candidate) /\ SameOutputs(target, candidate))

\* within: the tests have power, and every stratum stays inside the margin.
SampledDistribution(arms, within) ==
  IF \E i \in DOMAIN arms : ~ArmPassed(arms[i]) THEN "failed"
  ELSE IF \E i \in DOMAIN arms : ~Answered("sampled-distribution", arms[i]) THEN "raised"
  ELSE Status(within /\ \E i \in {3, 4} : Drafted(arms[i]))

\* expected: what the candidate answered.
ParentRestore(arm, expected) ==
  Status(/\ Answered("parent-restore", arm)
         /\ arm.groups[1][1].output = expected
         /\ Drafted(arm) /\ arm.healthy /\ arm.clean)

Verdict(probe, arms, expected, within) ==
  CASE probe \in {"target", "dflash"} -> ServerProbe(arms[1])
    [] probe = "target-sampling-determinism" -> TargetDeterminism(arms[1])
    [] probe = "candidate-serving" -> CandidateServing(arms[1], arms[2])
    [] probe = "sampled-rng" -> SampledRng(arms[1], arms[2])
    [] probe = "sampled-distribution" -> SampledDistribution(arms, within)
    [] probe = "parent-restore" -> ParentRestore(arms[1], expected)
    [] probe \in {"capture", "ingest", "captured-optimizer"} -> CaptureProbe(arms[1])
    [] OTHER -> ChildProbe(arms[1])

-----------------------------------------------------------------------------

Comparing == {"candidate-serving", "sampled-rng"}

\* All that was to be measured was: every server healthy and gone again, every request
\* asked and answered; where outputs are compared they are there and equal, and where
\* drafts count there were some.
Measured(probe, arms) ==
  /\ Len(arms) = NArmsOf(probe)
  /\ \A i \in DOMAIN arms :
       /\ arms[i].healthy /\ arms[i].clean
       /\ Len(arms[i].groups) = Groups(probe) /\ \A r \in RepliesOf(arms[i]) : r.passed
  /\ Groups(probe) > 1 \/ Drafting(probe) # {} =>
       \A i \in DOMAIN arms : \A r \in RepliesOf(arms[i]) : r.output # NoOutput
  /\ Drafting(probe) # {} => \E i \in Drafting(probe) : Drafted(arms[i])
  /\ probe \in Comparing =>
       \A i \in DOMAIN arms, g \in 1 .. Groups(probe), j \in 1 .. Size(probe) :
         arms[i].groups[g][j].output = arms[1].groups[g][1].output

=============================================================================
