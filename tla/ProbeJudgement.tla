---------------------------- MODULE ProbeJudgement ----------------------------
(***************************************************************************)
(* One run of one probe and its verdict, on whatever its arms have given:  *)
(* answers of any kind, or an exception half-way.                          *)
(***************************************************************************)
EXTENDS ProbeVerdicts

CONSTANT outcomes   \* outcomes[probe]: what the arms of a probe may give

OutcomesAssumption ==
  \A probe \in Probes : outcomes[probe] \subseteq [1 .. NArmsOf(probe) -> ArmsOf(probe)]

VARIABLE judged     \* the probe, its arms and its verdict

Unjudged == [probe |-> "target", arms |-> <<>>, status |-> "none"]

JudgementInit == judged = Unjudged

\* A parent's answer is compared with one that a candidate has given.
Judge ==
  /\ judged = Unjudged
  /\ \E probe \in Probes, within \in BOOLEAN, expected \in Outputs \cup {NoOutput} :
       /\ within \/ probe = "sampled-distribution"
       /\ IF probe = "parent-restore" THEN expected \in Outputs ELSE expected = NoOutput
       /\ \E arms \in outcomes[probe] :
            judged' = [probe |-> probe, arms |-> arms,
                       status |-> Verdict(probe, arms, expected, within)]

JudgementSpec == JudgementInit /\ [][Judge]_judged

-----------------------------------------------------------------------------

\* A probe passes only when all that was to be measured was: no verdict overlooks an arm
\* that broke off, a request that was not answered, outputs that differ, drafts that were
\* not verified or a server that stays (the results' validators, main).
PassedIsMeasured == judged.status = "passed" => Measured(judged.probe, judged.arms)

=============================================================================
