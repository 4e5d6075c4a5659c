------------------------- MODULE ChildProcessProofs -------------------------
(***************************************************************************)
(* What supervises a child process, each for any children: serving probes  *)
(* of any number of arms and requests on any ports, the capture probe with *)
(* its two services, a run that ends with a terminal record, for any       *)
(* number of records and lines between them, and the judge's client, for   *)
(* any number of messages in any order.                                    *)
(***************************************************************************)
EXTENDS CaptureServers, TerminalRecord, JudgeClient, TLAPS

-----------------------------------------------------------------------------
(* Serving probes *)

Statuses == {"absent", "running", "killed", "zombie", "gone"}
Servers == [Arms -> [Roles -> Processes]]

\* The leader of a server is dead and reaped.
LeaderGone(a) == process[a]["leader"].status = "gone"

\* Servers of later arms are not started, and nothing is known of them; those of
\* earlier arms were, and no leader leaves its group.
Started ==
  \A a \in Arms :
    /\ ~process[a]["leader"].detached
    /\ a > arm \/ (a = arm /\ pc = "start") =>
         /\ \A r \in Roles : process[a][r].status = "absent"
         /\ answered[a] = {} /\ company[a] = {}
    /\ a < arm \/ (a = arm /\ pc \notin {"start", "ended"}) => process[a]["leader"].status # "absent"

\* What is known of the arm that is being measured.
Cleaned ==
  /\ pc \in {"gpu", "port"} => LeaderGone(arm)
  /\ pc \in {"reap", "gpu", "port"} /\ report.remaining = {} =>
       LeaderGone(arm) /\ \A r \in Roles : ~InGroup(arm, r)
  /\ pc = "port" /\ report.gpu = {} => arm \in blind \/ \A r \in Roles : ~HoldsGpu(arm, r)

\* Nothing is left of an arm that passed.
Quiet(a) ==
  /\ LeaderGone(a)
  /\ \A r \in Roles : ~InGroup(a, r) /\ ~Listens(a, r) /\ (a \in blind \/ ~HoldsGpu(a, r))

Past == {a \in Arms : a < arm \/ (a = arm /\ pc = "ended")}

\* An arm before which all have passed was measured alone.
Alone ==
  \A a \in Arms :
    (\A b \in Arms : b < a => b \in passed) =>
      answered[a] \subseteq {a} /\ (blind = {} => company[a] \subseteq {a})

ProbeInv ==
  /\ TypeOK
  /\ Started /\ Cleaned
  /\ passed \subseteq Past /\ \A a \in passed : Quiet(a)
  /\ Alone
  /\ outcome = "passed" => passed = Arms

-----------------------------------------------------------------------------
(* Types. *)

\* A process that has died is a process.
LEMMA DeadIsProcess ==
  ASSUME NEW a \in Arms, NEW r \in Roles, NEW s \in Statuses, process \in Servers
  PROVE  /\ Dead(a, r, s) \in Processes
         /\ Dead(a, r, s).status = s /\ ~Dead(a, r, s).listening /\ ~Dead(a, r, s).gpu
         /\ Dead(a, r, s).detached = process[a][r].detached
  BY DEF Dead, Servers, Processes, Statuses

\* Replacing a process leaves the others.
LEMMA SetOne ==
  ASSUME NEW a \in Arms, NEW r \in Roles, NEW p \in Processes, process \in Servers,
         SetProcess(a, r, p)
  PROVE  /\ process' \in Servers
         /\ process'[a][r] = p
         /\ \A q \in Roles \ {r} : process'[a][q] = process[a][q]
         /\ \A b \in Arms \ {a} : process'[b] = process[b]
  BY DEF SetProcess, Servers

-----------------------------------------------------------------------------
(* Every step. *)

\* What is over stays over: with its leader gone a server only loses processes, and
\* an absent one stays so unless it is started.
Fades(a) ==
  /\ LeaderGone(a) => LeaderGone(a)' /\ \A r \in Roles :
       /\ InGroup(a, r)' => InGroup(a, r)
       /\ Listens(a, r)' => Listens(a, r)
       /\ HoldsGpu(a, r)' => HoldsGpu(a, r)
  /\ ~process[a]["leader"].detached => ~process'[a]["leader"].detached
  /\ process[a]["leader"].status # "absent" => process'[a]["leader"].status # "absent"
  /\ (\A r \in Roles : process[a][r].status = "absent") =>
       \A r \in Roles : process'[a][r].status = "absent"

\* A server that is left alone fades.
LEMMA SameFades ==
  ASSUME NEW a \in Arms, process'[a] = process[a]
  PROVE  Fades(a)
  BY DEF Fades, LeaderGone, InGroup, Listens, HoldsGpu, Alive

\* A dead process changes nothing for the worse.
LEMMA DeathFades ==
  ASSUME NEW a \in Arms, NEW r \in Roles, NEW s \in {"zombie", "gone"}, process \in Servers,
         process[a][r].status \in {"running", "killed", "zombie"} \/ s = "gone",
         process[a][r].status # "absent",
         SetProcess(a, r, Dead(a, r, s))
  PROVE  process' \in Servers /\ \A b \in Arms : Fades(b)
<1>1. Dead(a, r, s) \in Processes
  BY DeadIsProcess DEF Statuses
<1>2. process' \in Servers /\ process'[a][r] = Dead(a, r, s)
        /\ (\A q \in Roles \ {r} : process'[a][q] = process[a][q])
        /\ \A b \in Arms \ {a} : process'[b] = process[b]
  BY <1>1, SetOne
<1>3. Dead(a, r, s).status = s /\ ~Dead(a, r, s).listening /\ ~Dead(a, r, s).gpu
         /\ Dead(a, r, s).detached = process[a][r].detached
  BY DeadIsProcess DEF Statuses
<1>4. Fades(a)
  BY <1>2, <1>3 DEF Fades, LeaderGone, InGroup, Listens, HoldsGpu, Alive, Roles
<1> QED BY <1>2, <1>4, SameFades

\* Servers do not wake what is over.
LEMMA ServersFade ==
  ASSUME NEW a \in Arms, ServerStep(a), process \in Servers
  PROVE  process' \in Servers /\ \A b \in Arms : Fades(b)
<1>1. CASE \E r \in Roles : Exit(a, r)
  BY <1>1, DeathFades DEF Exit, Alive, Corpses
<1>2. CASE Disappear(a)
  BY <1>2, DeathFades DEF Disappear, Roles
<1>3. CASE Listen(a)
  <2> DEFINE p == [process[a]["leader"] EXCEPT !.listening = TRUE]
  <2>1. p \in Processes /\ p.status = process[a]["leader"].status
          /\ p.detached = process[a]["leader"].detached
    <3>1. process[a]["leader"] \in Processes
      BY DEF Servers, Roles
    <3>2. \A q \in Processes : LET n == [q EXCEPT !.listening = TRUE]
                             IN  n \in Processes /\ n.status = q.status /\ n.detached = q.detached
      BY DEF Processes
    <3> QED
      BY <3>1, <3>2
  <2>2. /\ process' \in Servers
        /\ process'[a]["leader"] = p
        /\ \A b \in Arms \ {a} : process'[b] = process[b]
        /\ process[a]["leader"].status = "running"
    BY <1>3, <2>1, SetOne DEF Listen, Roles
  <2>3. Fades(a)
    BY <2>1, <2>2 DEF Fades, LeaderGone, Roles
  <2> QED BY <2>1, <2>2, <2>3, SameFades
<1>4. CASE Fork(a)
  <2>1. PICK p \in Processes : SetProcess(a, "worker", p)
    BY <1>4 DEF Fork, Processes, Servers, Roles
  <2>2. /\ process' \in Servers
        /\ process'[a]["leader"] = process[a]["leader"]
        /\ \A b \in Arms \ {a} : process'[b] = process[b]
    BY <2>1, SetOne DEF Roles
  <2>3. Fades(a)
    BY <1>4, <2>2 DEF Fades, LeaderGone, Fork, Roles
  <2> QED BY <2>2, <2>3, SameFades
<1> QED BY <1>1, <1>2, <1>3, <1>4 DEF ServerStep

\* Nor does a poll.
LEMMA PollFades ==
  ASSUME Poll, process \in Servers, arm \in Arms
  PROVE  process' \in Servers /\ \A b \in Arms : Fades(b)
<1>1. CASE Reaped
  BY <1>1, DeathFades DEF Poll, Reaped, Roles
<1>2. CASE ~Reaped
  BY <1>2, SameFades DEF Poll
<1> QED BY <1>1, <1>2

\* Nor does SIGTERM to a group.
LEMMA SigtermFades ==
  ASSUME NEW a \in Arms, Sigterm(a), process \in Servers
  PROVE  process' \in Servers /\ \A b \in Arms : Fades(b)
<1>0. PICK leaving \in SUBSET {r \in ProcessGroupMembers(a) : Alive(a, r)} :
        \E corpse \in [leaving -> {"zombie", "gone"}] :
          process' = [process EXCEPT ![a] =
            [r \in Roles |-> IF r \in leaving THEN Dead(a, r, corpse[r]) ELSE @[r]]]
  BY DEF Sigterm
<1>1. PICK corpse \in [leaving -> {"zombie", "gone"}] :
        process' = [process EXCEPT ![a] =
          [r \in Roles |-> IF r \in leaving THEN Dead(a, r, corpse[r]) ELSE @[r]]]
  BY <1>0
<1>2. \A b \in Arms \ {a} : process'[b] = process[b]
  BY <1>1 DEF Servers
<1>3. /\ leaving \subseteq Roles
      /\ \A r \in leaving : Alive(a, r) /\ corpse[r] \in {"zombie", "gone"}
  BY <1>0, <1>1 DEF ProcessGroupMembers
<1>4. \A r \in Roles :
        /\ r \in leaving => process'[a][r] = Dead(a, r, corpse[r])
        /\ r \notin leaving => process'[a][r] = process[a][r]
  BY <1>1 DEF Servers
<1>5. \A r \in leaving :
        /\ Dead(a, r, corpse[r]) \in Processes
        /\ Dead(a, r, corpse[r]).status = corpse[r]
        /\ ~Dead(a, r, corpse[r]).listening /\ ~Dead(a, r, corpse[r]).gpu
        /\ Dead(a, r, corpse[r]).detached = process[a][r].detached
  BY <1>3, DeadIsProcess DEF Statuses
<1>6. process' \in Servers
  <2>1. \A r \in Roles : process'[a][r] \in Processes
    BY <1>4, <1>5 DEF Servers
  <2>2. process'[a] = [r \in Roles |-> process'[a][r]]
    BY <1>1 DEF Servers
  <2>3. process'[a] \in [Roles -> Processes]
    BY <2>1, <2>2
  <2>4. process' = [b \in Arms |-> process'[b]]
    BY <1>1 DEF Servers
  <2> QED BY <1>2, <2>3, <2>4 DEF Servers
<1>7. Fades(a)
  <2>1. ASSUME NEW r \in Roles
        PROVE  /\ InGroup(a, r)' => InGroup(a, r)
               /\ Listens(a, r)' => Listens(a, r)
               /\ HoldsGpu(a, r)' => HoldsGpu(a, r)
               /\ process[a][r].status = "gone" => process'[a][r].status = "gone"
               /\ process[a][r].status = "absent" <=> process'[a][r].status = "absent"
               /\ process'[a][r].detached = process[a][r].detached
    <3>1. CASE r \in leaving
      BY <3>1, <1>3, <1>4, <1>5 DEF InGroup, Listens, HoldsGpu, Alive
    <3>2. CASE r \notin leaving
      <4>1. process'[a][r] = process[a][r]
        BY <3>2, <1>3, <1>4, <1>5
      <4> QED BY <4>1 DEF InGroup, Listens, HoldsGpu, Alive
    <3> QED BY <3>1, <3>2
  <2> QED BY <2>1 DEF Fades, LeaderGone, Roles
<1> QED BY <1>2, <1>6, <1>7, SameFades

\* Nor does SIGKILL.
LEMMA SigkillFades ==
  ASSUME NEW a \in Arms, Sigkill(a), process \in Servers
  PROVE  process' \in Servers /\ \A b \in Arms : Fades(b)
<1> DEFINE hit == {r \in Roles : InGroup(a, r) /\ Alive(a, r)}
           killed(r) == [process[a][r] EXCEPT !.status = "killed"]
<1>1. process' = [process EXCEPT ![a] = [r \in Roles |-> IF r \in hit THEN killed(r) ELSE @[r]]]
  BY DEF Sigkill, Servers
<1>2. \A b \in Arms \ {a} : process'[b] = process[b]
  BY <1>1 DEF Servers
<1>3. \A r \in Roles :
        /\ r \in hit => process'[a][r] = killed(r)
        /\ r \notin hit => process'[a][r] = process[a][r]
  BY <1>1 DEF Servers
<1>4. \A r \in Roles :
        /\ killed(r) \in Processes
        /\ killed(r).status = "killed" /\ killed(r).listening = process[a][r].listening
        /\ killed(r).gpu = process[a][r].gpu /\ killed(r).detached = process[a][r].detached
  BY DEF Servers, Processes
<1> HIDE DEF killed
<1>5. process' \in Servers
  <2>1. \A r \in Roles : process'[a][r] \in Processes
    BY <1>3, <1>4 DEF Servers
  <2>2. process'[a] = [r \in Roles |-> process'[a][r]]
    BY <1>1 DEF Servers
  <2>3. process'[a] \in [Roles -> Processes]
    BY <2>1, <2>2
  <2>4. process' = [b \in Arms |-> process'[b]]
    BY <1>1 DEF Servers
  <2> QED BY <1>2, <2>3, <2>4 DEF Servers
<1>6. Fades(a)
  <2>1. ASSUME NEW r \in Roles
        PROVE  /\ InGroup(a, r)' => InGroup(a, r)
               /\ Listens(a, r)' => Listens(a, r)
               /\ HoldsGpu(a, r)' => HoldsGpu(a, r)
               /\ process[a][r].status = "gone" => process'[a][r].status = "gone"
               /\ process[a][r].status = "absent" <=> process'[a][r].status = "absent"
               /\ process'[a][r].detached = process[a][r].detached
    <3>1. CASE r \in hit
      BY <3>1, <1>3, <1>4 DEF InGroup, Listens, HoldsGpu, Alive
    <3>2. CASE r \notin hit
      <4>1. process'[a][r] = process[a][r]
        BY <3>2, <1>3, <1>4
      <4> QED BY <4>1 DEF InGroup, Listens, HoldsGpu, Alive
    <3> QED BY <3>1, <3>2
  <2> QED BY <2>1 DEF Fades, LeaderGone, Roles
<1> QED BY <1>2, <1>5, <1>6, SameFades

-----------------------------------------------------------------------------
(* The invariant. *)

\* What passed stays quiet.
LEMMA QuietStays ==
  ASSUME NEW a \in Arms, Fades(a), blind \subseteq blind', Quiet(a)
  PROVE  Quiet(a)'
  BY DEF Quiet, Fades

\* A step within the measurement of an arm, which learns nothing and wakes nothing.
Within ==
  /\ pc \notin {"start", "ended"} /\ pc' # "start"
  /\ UNCHANGED <<arm, passed, answered, company>>
  /\ blind \subseteq blind'
  /\ \A b \in Arms : Fades(b)

\* It keeps what is known of the other arms.
LEMMA WithinKeeps ==
  ASSUME ProbeInv, Within
  PROVE  Started' /\ passed' \subseteq Past' /\ (\A a \in passed' : Quiet(a)') /\ Alone'
<1>1. arm \in Nat /\ Arms \subseteq Nat
  BY ProbeAssumption DEF ProbeInv, TypeOK, Arms
<1>2. Started'
  BY <1>1 DEF ProbeInv, Within, Started, Fades
<1>3. passed' \subseteq Past'
  BY DEF ProbeInv, Within, Past
<1>4. \A a \in passed' : Quiet(a)'
  BY QuietStays DEF ProbeInv, Within, Past
<1>5. Alone'
  BY DEF ProbeInv, Within, Alone
<1> QED BY <1>2, <1>3, <1>4, <1>5

\* The server of an arm was started, and its leader does not leave its group.
LeaderStarted(a) == process[a]["leader"].status # "absent" /\ ~process[a]["leader"].detached

\* An arm's group that is empty has lost its leader.
LEMMA EmptyGroup ==
  ASSUME TypeOK, LeaderStarted(arm), ProcessGroupMembers(arm) = {}
  PROVE  LeaderGone(arm) /\ \A r \in Roles : ~InGroup(arm, r)
<1>1. \A r \in Roles : ~InGroup(arm, r)
  BY DEF ProcessGroupMembers
<1>2. process[arm]["leader"].status \in Statuses \ {"absent"} /\ ~process[arm]["leader"].detached
  BY DEF TypeOK, LeaderStarted, Processes, Statuses, Roles
<1> QED BY <1>1, <1>2 DEF InGroup, LeaderGone, Statuses, Roles

\* A server's step.
LEMMA ServersKeep ==
  ASSUME ProbeInv, NEW a \in Arms, ServerStep(a)
  PROVE  ProbeInv'
<1>1. process \in Servers /\ arm \in Arms
  BY DEF ProbeInv, TypeOK, Servers
<1>2. process' \in Servers /\ \A b \in Arms : Fades(b)
  BY <1>1, ServersFade
<1>3. UNCHANGED <<port, arm, pc, report, passed, outcome, answered, company, blind>>
  BY DEF ServerStep, history
<1>4. TypeOK'
  BY <1>2, <1>3 DEF ProbeInv, TypeOK, Servers
<1>5. Started'
  BY <1>2, <1>3 DEF ProbeInv, Started, Fades
<1>6. Cleaned'
  BY <1>1, <1>2, <1>3 DEF ProbeInv, Cleaned, Fades
<1>7. passed' \subseteq Past' /\ (\A b \in passed' : Quiet(b)') /\ Alone'
  BY <1>2, <1>3, QuietStays DEF ProbeInv, Past, Alone
<1> QED BY <1>3, <1>4, <1>5, <1>6, <1>7 DEF ProbeInv

\* A step that stops the probe.
LEMMA RaiseKeeps ==
  ASSUME ProbeInv, Raise, UNCHANGED process, pc # "ended", UNCHANGED port
  PROVE  ProbeInv'
<1>1. TypeOK'
  BY DEF ProbeInv, TypeOK, Raise, history, Points
<1>2. arm \in Nat /\ Arms \subseteq Nat /\ arm \in Arms
  BY ProbeAssumption DEF ProbeInv, TypeOK, Arms
<1>3. Started' /\ Cleaned'
  BY <1>2 DEF ProbeInv, Raise, history, Started, Cleaned
<1>4. passed' \subseteq Past'
  BY DEF ProbeInv, Raise, Past
<1>5. \A a \in passed' : Quiet(a)'
  BY DEF ProbeInv, Raise, history, Quiet, LeaderGone, InGroup, Listens, HoldsGpu, Alive
<1>6. Alone' /\ outcome' # "passed"
  BY DEF ProbeInv, Raise, history, Alone
<1> QED BY <1>1, <1>3, <1>4, <1>5, <1>6 DEF ProbeInv

\* A server is started where none was.
LEMMA StartKeeps ==
  ASSUME ProbeInv, StartServer, UNCHANGED port
  PROVE  ProbeInv'
<1> DEFINE p == [NoProcess EXCEPT !.status = "running"]
<1>1. p \in Processes /\ p.status = "running" /\ ~p.detached
  BY DEF NoProcess, Processes
<1>2. arm \in Nat /\ Arms \subseteq Nat /\ arm \in Arms /\ process \in Servers /\ "leader" \in Roles
  BY ProbeAssumption DEF ProbeInv, TypeOK, Arms, Servers, Roles
<1>3. /\ process' \in Servers
      /\ process'[arm]["leader"] = p
      /\ \A b \in Arms \ {arm} : process'[b] = process[b]
  BY <1>1, <1>2, SetOne DEF StartServer
<1>4. pc = "start" /\ pc' = "health" /\ report' = NoReport
        /\ UNCHANGED <<arm, passed, outcome, answered, company, blind>>
  BY DEF StartServer, Goto, history
<1> HIDE DEF p
<1>5. TypeOK'
  <2>1. NoReport \in Reports
    BY ProbeAssumption DEF NoReport, Reports
  <2> QED BY <1>3, <1>4, <2>1 DEF ProbeInv, TypeOK, Servers, Points
<1>6. Started'
  BY <1>1, <1>2, <1>3, <1>4 DEF ProbeInv, Started
<1>7. Cleaned'
  BY <1>4 DEF Cleaned
<1>8. passed' \subseteq Past'
  BY <1>4 DEF ProbeInv, Past
<1>9. ASSUME NEW a \in passed' PROVE Quiet(a)'
  <2>1. a \in Arms \ {arm} /\ Quiet(a)
    BY <1>2, <1>4 DEF ProbeInv, Past
  <2>2. Fades(a)
    BY <1>3, <2>1, SameFades
  <2> QED BY <1>4, <2>1, <2>2, QuietStays
<1>10. Alone' /\ (outcome' = "passed" => passed' = Arms)
  BY <1>4 DEF ProbeInv, Alone
<1> QED BY <1>5, <1>6, <1>7, <1>8, <1>9, <1>10 DEF ProbeInv

\* The other steps before an arm is finished.
Measuring ==
  \/ WaitForServer \/ ServerFails \/ GenerateEnds \/ TerminateGroup \/ WaitForLeader
  \/ ListGroup \/ KillGroup \/ LookAgain \/ ReapLeader \/ QueryGpu

\* They stay within the arm.
LEMMA MeasuringWithin ==
  ASSUME TypeOK, Measuring, UNCHANGED port
  PROVE  Within /\ TypeOK' /\ outcome' = outcome
<1>1. process \in Servers /\ arm \in Arms
  BY DEF TypeOK, Servers
<1>2. process' \in Servers /\ \A b \in Arms : Fades(b)
  <2>1. CASE ServerFails \/ WaitForLeader \/ ReapLeader
    BY <1>1, <2>1, PollFades DEF ServerFails, WaitForLeader, ReapLeader
  <2>2. CASE TerminateGroup
    BY <1>1, <2>2, SigtermFades DEF TerminateGroup
  <2>3. CASE KillGroup
    BY <1>1, <2>3, SigkillFades DEF KillGroup
  <2>4. CASE UNCHANGED process
    BY <1>1, <2>4, SameFades
  <2> QED BY <2>1, <2>2, <2>3, <2>4 DEF Measuring, WaitForServer, GenerateEnds, ListGroup,
          LookAgain, QueryGpu
<1>3. /\ pc \notin {"start", "ended"} /\ pc' \in Points \ {"start"}
      /\ UNCHANGED <<arm, passed, outcome, answered, company>>
  BY DEF Measuring, WaitForServer, ServerFails, GenerateEnds, TerminateGroup, WaitForLeader,
     ListGroup, KillGroup, LookAgain, ReapLeader, QueryGpu, Goto, history, Points
<1>4. blind \subseteq blind' /\ blind' \subseteq Arms
  BY <1>1 DEF TypeOK, Measuring, WaitForServer, ServerFails, GenerateEnds,
     TerminateGroup, WaitForLeader, ListGroup, KillGroup, LookAgain, ReapLeader, QueryGpu, history
<1>5. report' \in Reports
  <2>1. report \in Reports /\ ProcessGroupMembers(arm) \subseteq Roles /\ GpuHolders \subseteq Arms
    BY DEF TypeOK, ProcessGroupMembers, GpuHolders
  <2>2. CASE UNCHANGED report
    BY <2>1, <2>2
  <2>3. CASE WaitForServer \/ ListGroup \/ LookAgain \/ QueryGpu
    BY <2>1, <2>3 DEF WaitForServer, ListGroup, LookAgain, QueryGpu, Reports
  <2> QED BY <2>2, <2>3 DEF Measuring, ServerFails, GenerateEnds, TerminateGroup,
          WaitForLeader, KillGroup, ReapLeader
<1>6. TypeOK'
  BY <1>2, <1>3, <1>4, <1>5 DEF TypeOK, Servers
<1> QED BY <1>2, <1>3, <1>4, <1>6 DEF Within

\* What such a step knows of its arm.
LEMMA MeasuringCleaned ==
  ASSUME TypeOK, Cleaned, LeaderStarted(arm), Measuring, UNCHANGED port
  PROVE  Cleaned'
<1>1. Within /\ arm \in Arms /\ process \in Servers
  BY MeasuringWithin DEF TypeOK, Servers
<1>2. CASE ListGroup \/ LookAgain
  <2>1. /\ pc' \in {"reap", "look", "kill"} /\ UNCHANGED <<process, arm>>
        /\ report'.remaining = ProcessGroupMembers(arm)
    BY <1>2 DEF ListGroup, LookAgain, Goto, TypeOK, Reports
  <2>2. ProcessGroupMembers(arm) = {} => LeaderGone(arm) /\ \A r \in Roles : ~InGroup(arm, r)
    BY <1>1, EmptyGroup DEF Within
  <2> QED BY <2>1, <2>2 DEF Cleaned, LeaderGone, InGroup
<1>3. CASE ReapLeader
  <2>1. pc = "reap" /\ pc' = "gpu" /\ UNCHANGED <<arm, report>> /\ Reaped /\ Poll
    BY <1>3 DEF ReapLeader, Goto
  <2>2. PICK a \in Arms : a = arm
    BY <1>1
  <2>3. LeaderGone(a)'
    <3>1. Dead(arm, "leader", "gone") \in Processes /\ Dead(arm, "leader", "gone").status = "gone"
      BY <1>1, DeadIsProcess DEF Statuses, Roles
    <3>2. process'[arm]["leader"] = Dead(arm, "leader", "gone")
      BY <1>1, <2>1, <3>1, SetOne DEF Poll, Roles
    <3> QED BY <2>2, <3>1, <3>2 DEF LeaderGone
  <2>4. Fades(a)
    BY <1>1 DEF Within
  <2>5. report.remaining = {} => \A r \in Roles : ~InGroup(a, r)'
    BY <2>1, <2>2, <2>4 DEF Cleaned, Fades
  <2> QED BY <2>1, <2>2, <2>3, <2>5 DEF Cleaned
<1>4. CASE QueryGpu
  <2>1. /\ pc = "gpu" /\ UNCHANGED <<process, arm>> /\ report'.remaining = report.remaining
        /\ report'.gpu = {} => arm \in blind' \/ GpuHolders = {}
    BY <1>4 DEF QueryGpu, Goto, TypeOK, Reports
  <2>2. GpuHolders = {} => \A r \in Roles : ~HoldsGpu(arm, r)
    BY <1>1 DEF GpuHolders
  <2> QED BY <2>1, <2>2 DEF Cleaned, LeaderGone, InGroup, HoldsGpu, Alive
<1>5. CASE pc' \notin {"reap", "gpu", "port"}
  BY <1>5 DEF Cleaned
<1> QED BY <1>2, <1>3, <1>4, <1>5 DEF Measuring, WaitForServer, ServerFails, GenerateEnds,
        TerminateGroup, WaitForLeader, KillGroup, Goto

\* They keep the invariant.
LEMMA MeasuringKeeps ==
  ASSUME ProbeInv, Measuring, UNCHANGED port
  PROVE  ProbeInv'
<1>1. TypeOK /\ Cleaned
  BY DEF ProbeInv
<1>2. Within /\ TypeOK' /\ outcome' = outcome
  BY <1>1, MeasuringWithin
<1>3. LeaderStarted(arm)
  BY <1>2 DEF ProbeInv, TypeOK, Started, Within, LeaderStarted
<1>4. Cleaned'
  BY <1>1, <1>3, MeasuringCleaned
<1> QED
  BY <1>2, <1>4, WithinKeeps DEF ProbeInv, Within

\* An answer comes from the arm itself when all before it have passed: what passed does
\* not listen, and what follows was not started.
LEMMA GenerateKeeps ==
  ASSUME ProbeInv, Generate, UNCHANGED port
  PROVE  ProbeInv'
<1>1. arm \in Nat /\ Arms \subseteq Nat /\ arm \in Arms /\ process \in Servers
  BY ProbeAssumption DEF ProbeInv, TypeOK, Arms, Servers
<1>2. /\ pc = "generate" /\ pc' = "generate" /\ report.answers < Requests
      /\ UNCHANGED <<process, arm, passed, outcome, blind>>
      /\ report' = [report EXCEPT !.answers = @ + 1]
      /\ company' = [company EXCEPT ![arm] = @ \cup GpuHolders]
  BY DEF Generate, Goto
<1>3. PICK b \in Answering(arm) : answered' = [answered EXCEPT ![arm] = @ \cup {b}]
  BY DEF Generate
<1>4. b \in Arms /\ GpuHolders \subseteq Arms
  BY <1>3 DEF Answering, GpuHolders
<1>5. TypeOK'
  <2>1. report' \in Reports
    <3>1. report \in Reports /\ report.answers + 1 \in 0 .. Requests
      BY <1>2, ProbeAssumption DEF ProbeInv, TypeOK, Reports
    <3> QED BY <1>2, <3>1 DEF Reports
  <2> QED BY <1>2, <1>3, <1>4, <2>1 DEF ProbeInv, TypeOK
<1>6. Started' /\ Cleaned'
  BY <1>1, <1>2, <1>3 DEF ProbeInv, TypeOK, Started, Cleaned
<1>7. passed' \subseteq Past' /\ \A a \in passed' : Quiet(a)'
  BY <1>2 DEF ProbeInv, Past, Quiet, LeaderGone, InGroup, Listens, HoldsGpu, Alive
<1>8. \A a \in Arms : a > arm => \A r \in Roles : ~Alive(a, r)
  BY DEF ProbeInv, Started, Alive
<1>9. ASSUME \A a \in Arms : a < arm => a \in passed
      PROVE  b = arm /\ (blind = {} => GpuHolders \subseteq {arm})
  <2>1. ASSUME NEW a \in Arms, a # arm
        PROVE  \A r \in Roles : ~Listens(a, r) /\ (blind = {} => ~HoldsGpu(a, r))
    <3>1. CASE a < arm
      BY <1>9, <3>1 DEF ProbeInv, Quiet
    <3>2. CASE a > arm
      BY <1>8, <3>2 DEF Listens, HoldsGpu
    <3> QED BY <1>1, <2>1, <3>1, <3>2
  <2> QED BY <1>3, <1>4, <2>1 DEF Answering, GpuHolders
<1>10. Alone'
  BY <1>1, <1>2, <1>3, <1>9 DEF ProbeInv, TypeOK, Alone
<1> QED BY <1>2, <1>5, <1>6, <1>7, <1>10 DEF ProbeInv

\* An arm that passes is quiet, and the next one starts.
LEMMA FinishArmKeeps ==
  ASSUME ProbeInv, FinishArm, UNCHANGED port
  PROVE  ProbeInv'
<1>1. arm \in Nat /\ Arms \subseteq Nat /\ arm \in Arms /\ NArms \in Nat /\ Arms = 1 .. NArms
  BY ProbeAssumption DEF ProbeInv, TypeOK, Arms
<1>2. /\ pc = "port" /\ UNCHANGED <<process, report, answered, company, blind>>
      /\ passed' \in {passed, passed \cup {arm}}
      /\ passed' # passed => ArmPassed(PortIsClosed(port[arm]))
      /\ \/ arm < NArms /\ arm' = arm + 1 /\ pc' = "start" /\ outcome' = outcome
         \/ arm = NArms /\ arm' = arm /\ pc' = "ended" /\ outcome' \in Verdicts(passed')
  BY DEF FinishArm, PassedArms, history
<1>3. TypeOK'
  BY <1>1, <1>2 DEF ProbeInv, TypeOK, Points, Verdicts
<1>4. Started'
  BY <1>1, <1>2 DEF ProbeInv, Started
<1>5. Cleaned'
  BY <1>2 DEF Cleaned
<1>6. passed' \subseteq Past'
  BY <1>1, <1>2 DEF ProbeInv, Past
<1>7. ASSUME NEW a \in passed' PROVE Quiet(a)'
  <2>1. CASE a \in passed
    BY <1>2, <2>1 DEF ProbeInv, Quiet, LeaderGone, InGroup, Listens, HoldsGpu, Alive
  <2>2. CASE a = arm /\ a \notin passed
    <3>1. report.remaining = {} /\ report.gpu = {} /\ PortIsClosed(port[arm])
      BY <1>2, <1>7, <2>2 DEF ArmPassed, CleanupPassed
    <3>2. \A r \in Roles : ~Listens(arm, r)
      BY <1>1, <3>1 DEF PortIsClosed
    <3>3. Quiet(a)
      BY <1>2, <2>2, <3>1, <3>2 DEF ProbeInv, Cleaned, Quiet
    <3> QED BY <1>2, <3>3 DEF Quiet, LeaderGone, InGroup, Listens, HoldsGpu, Alive
  <2> QED BY <1>2, <1>7, <2>1, <2>2
<1>8. Alone'
  <2>1. \A a \in Arms : a > arm => answered[a] = {} /\ company[a] = {}
    BY DEF ProbeInv, Started
  <2>2. ASSUME NEW a \in Arms, \A b \in Arms : b < a => b \in passed'
        PROVE  answered[a] \subseteq {a} /\ (blind = {} => company[a] \subseteq {a})
    <3>1. CASE a > arm
      BY <2>1, <3>1
    <3>2. CASE ~(a > arm)
      BY <1>1, <1>2, <2>2, <3>2 DEF ProbeInv, Alone
    <3> QED BY <3>1, <3>2
  <2> QED BY <1>2, <2>2 DEF Alone
<1>9. outcome' = "passed" => passed' = Arms
  <2>1. CASE outcome' = outcome
    BY <1>2, <1>1, <2>1 DEF ProbeInv
  <2>2. CASE outcome' \in Verdicts(passed')
    BY <2>2 DEF Verdicts
  <2> QED BY <1>2, <2>1, <2>2
<1> QED BY <1>3, <1>4, <1>5, <1>6, <1>7, <1>8, <1>9 DEF ProbeInv

\* At first nothing is started.
LEMMA ProbeStarts == Init => ProbeInv
<1> SUFFICES ASSUME Init PROVE ProbeInv
  OBVIOUS
<1>1. NoProcess \in Processes /\ NoProcess.status = "absent" /\ ~NoProcess.detached
  BY DEF NoProcess, Processes
<1>2. NoReport \in Reports
  BY ProbeAssumption DEF NoReport, Reports
<1>3. 1 \in Arms /\ Arms \subseteq Nat
  BY ProbeAssumption DEF Arms
<1> HIDE DEF NoProcess, NoReport
<1>4. TypeOK
  BY <1>1, <1>2, <1>3 DEF Init, TypeOK, Points
<1>5. Started
  BY <1>1, <1>3, ProbeAssumption DEF Init, Started, Roles, Arms
<1>6. Cleaned /\ passed = {} /\ outcome # "passed"
  BY DEF Init, Cleaned
<1>7. Alone
  BY DEF Init, Alone
<1> QED BY <1>4, <1>5, <1>6, <1>7 DEF ProbeInv

\* Every step keeps the invariant.
LEMMA ProbeSteps == ProbeInv /\ [Next]_vars => ProbeInv'
<1> SUFFICES ASSUME ProbeInv, [Next]_vars PROVE ProbeInv'
  OBVIOUS
<1>1. CASE ProbeStep
  <2>1. UNCHANGED port
    BY <1>1 DEF ProbeStep
  <2>2. CASE StartServer
    BY <2>1, <2>2, StartKeeps
  <2>3. CASE StartFails \/ LeaderStays
    BY <2>1, <2>3, RaiseKeeps DEF StartFails, LeaderStays
  <2>4. CASE Measuring
    BY <2>1, <2>4, MeasuringKeeps
  <2>5. CASE Generate
    BY <2>1, <2>5, GenerateKeeps
  <2>6. CASE FinishArm
    BY <2>1, <2>6, FinishArmKeeps
  <2> QED BY <1>1, <2>2, <2>3, <2>4, <2>5, <2>6 DEF ProbeStep, Measuring
<1>2. CASE \E a \in Arms : ServerStep(a)
  BY <1>2, ServersKeep
<1>3. CASE UNCHANGED vars
  BY <1>3 DEF vars, history, ProbeInv, TypeOK, Started, Cleaned, Past, Quiet, Alone, LeaderGone,
     InGroup, Listens, HoldsGpu, Alive
<1> QED BY <1>1, <1>2, <1>3 DEF Next

\* Of a probe that passed, the invariant is what it promises.
LEMMA PassedPromises == ProbeInv => MeasuredAlone /\ NothingLeft
<1> SUFFICES ASSUME ProbeInv, outcome = "passed"
             PROVE  /\ \A a \in Arms :
                         answered[a] \subseteq {a} /\ (blind = {} => company[a] \subseteq {a})
                    /\ \A a \in Arms : /\ \A r \in Roles : ~InGroup(a, r)
                                       /\ PortIsClosed(port[a])
                                       /\ blind = {} => a \notin GpuHolders
  BY DEF MeasuredAlone, NothingLeft
<1>1. passed = Arms /\ \A a \in Arms : Quiet(a)
  BY DEF ProbeInv
<1>2. \A a \in Arms : answered[a] \subseteq {a} /\ (blind = {} => company[a] \subseteq {a})
  BY <1>1 DEF ProbeInv, Alone
<1>3. \A a \in Arms : /\ \A r \in Roles : ~InGroup(a, r)
                      /\ PortIsClosed(port[a])
                      /\ blind = {} => a \notin GpuHolders
  BY <1>1 DEF Quiet, PortIsClosed, GpuHolders
<1> QED BY <1>2, <1>3

\* For every number of arms, requests and every choice of ports: a probe that passed
\* measured each arm alone and left nothing of any of them, whatever its servers did.
THEOREM ProbeSafe == Spec => [](TypeOK /\ MeasuredAlone /\ NothingLeft)
<1>1. ProbeInv => TypeOK /\ MeasuredAlone /\ NothingLeft
  BY PassedPromises DEF ProbeInv
<1> QED BY <1>1, ProbeStarts, ProbeSteps, PTL DEF Spec

\* However its servers died, a probe that passed leaves none of them behind.
THEOREM PassedLeavesNothing == Spec => []NothingLeft
BY ProbeSafe, PTL

-----------------------------------------------------------------------------
(* The capture probe *)

\* Both services are started before anything is measured, the master first.
ServicesStarted ==
  /\ \A a \in Arms : ~process[a]["leader"].detached
  /\ pc = "start" => \A a \in Arms, r \in Roles : a >= arm => process[a][r].status = "absent"
  /\ pc = "start" /\ arm = Server => process[Master]["leader"].status # "absent"
  /\ pc \notin {"start", "ended"} => \A a \in Arms : process[a]["leader"].status # "absent"

\* While the master is being stopped, what the server's cleanup has found still holds,
\* and a GPU that was free when it was asked for has no new user.
ServerStopped ==
  arm = Master /\ pc \notin {"start", "ended"} =>
    /\ LeaderGone(Server)
    /\ stopped.remaining = {} => \A r \in Roles : ~InGroup(Server, r)
    /\ stopped.closed => \A r \in Roles : ~Listens(Server, r)
    /\ pc = "port" /\ report.gpu = {} => blind # {} \/ GpuHolders = {}

\* Nothing is left of a service.
ServiceOver(a) == LeaderGone(a) /\ \A r \in Roles : ~InGroup(a, r) /\ ~Listens(a, r)

CaptureInv ==
  /\ TypeOK
  /\ stopped \in [remaining : SUBSET Roles, closed : BOOLEAN]
  /\ ServicesStarted /\ Cleaned /\ ServerStopped
  /\ outcome = "passed" =>
       pc = "ended" /\ (\A a \in Arms : ServiceOver(a)) /\ (blind = {} => GpuHolders = {})

\* Of a GPU whose users can only die, nobody becomes a user.
LEMMA GpuFades ==
  ASSUME \A a \in Arms : Fades(a) /\ LeaderGone(a)
  PROVE  GpuHolders' \subseteq GpuHolders
  BY DEF GpuHolders, Fades

\* A step that wakes no service and finds out nothing of the GPU.
LEMMA ServicesKeep ==
  ASSUME CaptureInv, CaptureAssumption, \A a \in Arms : Fades(a),
         pc' = pc \/ (pc \notin {"start", "ended"} /\ pc' \notin {"start", "ended", "port"}),
         UNCHANGED <<arm, stopped, outcome, blind>>, report'.gpu = report.gpu,
         TypeOK', Cleaned'
  PROVE  CaptureInv'
<1>1. Master \in Arms /\ Server \in Arms /\ \A a \in Arms : a \in {Master, Server}
  BY DEF CaptureAssumption
<1>2. ServicesStarted'
  <2>1. ServicesStarted
    BY DEF CaptureInv
  <2>2. ASSUME NEW a \in Arms
        PROVE  /\ ~process[a]["leader"].detached => ~process'[a]["leader"].detached
               /\ process[a]["leader"].status # "absent" => process'[a]["leader"].status # "absent"
               /\ (\A r \in Roles : process[a][r].status = "absent") =>
                    \A r \in Roles : process'[a][r].status = "absent"
    BY DEF Fades
  <2>3. ASSUME pc' = "start", NEW a \in Arms, a >= arm
        PROVE  \A r \in Roles : process'[a][r].status = "absent"
    <3>1. pc = "start"
      BY <2>3
    <3>2. \A r \in Roles : process[a][r].status = "absent"
      BY <2>1, <2>3, <3>1 DEF ServicesStarted
    <3> QED
      BY <2>2, <3>2
  <2>4. ASSUME pc' = "start", arm = Server PROVE process'[Master]["leader"].status # "absent"
    <3>1. pc = "start"
      BY <2>4
    <3>2. process[Master]["leader"].status # "absent"
      BY <2>1, <2>4, <3>1 DEF ServicesStarted
    <3> QED
      BY <1>1, <2>2, <3>2
  <2>5. ASSUME pc' \notin {"start", "ended"}, NEW a \in Arms
        PROVE  process'[a]["leader"].status # "absent"
    <3>1. pc \notin {"start", "ended"}
      BY <2>5
    <3>2. process[a]["leader"].status # "absent"
      BY <2>1, <3>1 DEF ServicesStarted
    <3> QED
      BY <2>2, <3>2
  <2>6. \A a \in Arms : ~process'[a]["leader"].detached
    BY <2>1, <2>2 DEF ServicesStarted
  <2>7. arm' = arm
    OBVIOUS
  <2> QED
    BY <2>3, <2>4, <2>5, <2>6, <2>7 DEF ServicesStarted
<1>3. ServerStopped'
  <2> SUFFICES ASSUME arm = Master, pc' \notin {"start", "ended"}
               PROVE  /\ LeaderGone(Server)'
                      /\ stopped.remaining = {} => \A r \in Roles : ~InGroup(Server, r)'
                      /\ stopped.closed => \A r \in Roles : ~Listens(Server, r)'
                      /\ pc' = "port" /\ report'.gpu = {} => blind # {} \/ GpuHolders' = {}
    BY DEF ServerStopped
  <2>1. /\ LeaderGone(Server)
        /\ stopped.remaining = {} => \A r \in Roles : ~InGroup(Server, r)
        /\ stopped.closed => \A r \in Roles : ~Listens(Server, r)
        /\ pc = "port" /\ report.gpu = {} => blind # {} \/ GpuHolders = {}
    BY DEF CaptureInv, ServerStopped
  <2>2. /\ LeaderGone(Server)'
        /\ stopped.remaining = {} => \A r \in Roles : ~InGroup(Server, r)'
        /\ stopped.closed => \A r \in Roles : ~Listens(Server, r)'
    BY <1>1, <2>1 DEF Fades
  <2>3. ASSUME pc' = "port" PROVE GpuHolders' \subseteq GpuHolders
    <3>1. pc = "port" /\ LeaderGone(Master)
      BY <2>3 DEF CaptureInv, Cleaned
    <3> QED
      BY <1>1, <2>1, <3>1, GpuFades
  <2> QED
    BY <2>1, <2>2, <2>3
<1>4. ASSUME outcome' = "passed"
      PROVE  /\ pc' = "ended" /\ (\A a \in Arms : ServiceOver(a)')
             /\ (blind = {} => GpuHolders' = {})
  <2>1. /\ pc = "ended" /\ (\A a \in Arms : ServiceOver(a)) /\ (blind = {} => GpuHolders = {})
    BY <1>4 DEF CaptureInv
  <2>2. \A a \in Arms : ServiceOver(a)'
    BY <2>1 DEF ServiceOver, Fades
  <2>3. GpuHolders' \subseteq GpuHolders
    BY <2>1, GpuFades DEF ServiceOver
  <2> QED
    BY <2>1, <2>2, <2>3
<1> QED
  BY <1>2, <1>3, <1>4 DEF CaptureInv

LEMMA ServiceSteps ==
  ASSUME CaptureInv, CaptureAssumption, NEW a \in Arms, ServiceStep(a)
  PROVE  CaptureInv'
<1>1. process \in Servers /\ arm \in Arms
  BY DEF CaptureInv, TypeOK, Servers
<1>2. process' \in Servers /\ \A b \in Arms : Fades(b)
  BY <1>1, ServersFade DEF ServiceStep
<1>3. UNCHANGED <<port, arm, pc, report, passed, outcome, answered, company, blind, stopped>>
  BY DEF ServiceStep, ServerStep, history
<1>4. TypeOK'
  BY <1>2, <1>3 DEF CaptureInv, TypeOK, Servers
<1>5. Cleaned'
  BY <1>1, <1>2, <1>3 DEF CaptureInv, Cleaned, Fades
<1> QED
  BY <1>2, <1>3, <1>4, <1>5, ServicesKeep

\* The requests, and the steps of the cleanup but the query of the GPU.
LEMMA CaptureMeasuring ==
  ASSUME CaptureInv, CaptureAssumption, UNCHANGED <<port, stopped>>, Measuring, ~QueryGpu
  PROVE  CaptureInv'
<1>1. TypeOK /\ Cleaned /\ Within /\ TypeOK' /\ outcome' = outcome
  BY MeasuringWithin DEF CaptureInv
<1>2. LeaderStarted(arm)
  BY <1>1 DEF CaptureInv, ServicesStarted, Within, LeaderStarted, TypeOK
<1>3. Cleaned'
  BY <1>1, <1>2, MeasuringCleaned
<1>4. /\ pc \notin {"start", "ended"} /\ pc' \notin {"start", "ended", "port"}
      /\ UNCHANGED <<arm, blind>>
  BY DEF Measuring, WaitForServer, ServerFails, GenerateEnds, TerminateGroup, WaitForLeader,
     ListGroup, KillGroup, LookAgain, ReapLeader, Goto, history
<1>5. report'.gpu = report.gpu
  BY <1>1 DEF Measuring, WaitForServer, ServerFails, GenerateEnds, TerminateGroup, WaitForLeader,
     ListGroup, KillGroup, LookAgain, ReapLeader, TypeOK, Reports
<1> QED
  BY <1>1, <1>3, <1>4, <1>5, ServicesKeep DEF Within

LEMMA CaptureQueries ==
  ASSUME CaptureInv, CaptureAssumption, UNCHANGED <<port, stopped>>, QueryGpu
  PROVE  CaptureInv'
<1>1. TypeOK /\ Cleaned /\ Within /\ TypeOK' /\ outcome' = outcome
  BY MeasuringWithin DEF CaptureInv, Measuring
<1>2. LeaderStarted(arm)
  BY <1>1 DEF CaptureInv, ServicesStarted, Within, LeaderStarted, TypeOK
<1>3. Cleaned'
  BY <1>1, <1>2, MeasuringCleaned DEF Measuring
<1>4. /\ pc = "gpu" /\ pc' = "port" /\ UNCHANGED <<arm, process>>
      /\ report'.gpu = {} => blind' # {} \/ GpuHolders = {}
  BY <1>1 DEF QueryGpu, Goto, TypeOK, Reports
<1>5. ServicesStarted'
  BY <1>4 DEF CaptureInv, ServicesStarted
<1>6. ServerStopped'
  BY <1>4 DEF CaptureInv, ServerStopped, LeaderGone, InGroup, Listens, HoldsGpu, GpuHolders, Alive
<1> QED
  BY <1>1, <1>3, <1>4, <1>5, <1>6 DEF CaptureInv

LEMMA WorkloadKeeps ==
  ASSUME CaptureInv, CaptureAssumption, UNCHANGED <<port, stopped>>, Workload
  PROVE  CaptureInv'
<1>1. /\ pc = "generate" /\ pc' = "generate" /\ report.answers < Requests
      /\ UNCHANGED <<process, arm, passed, outcome, answered, company, blind>>
      /\ report' = [report EXCEPT !.answers = @ + 1]
  BY DEF Workload, Goto, history
<1>2. \A a \in Arms : Fades(a)
  BY <1>1, SameFades
<1>3. report \in Reports /\ report.answers + 1 \in 0 .. Requests
  BY <1>1, ProbeAssumption DEF CaptureInv, TypeOK, Reports
<1>4. report' \in Reports /\ report'.gpu = report.gpu
  BY <1>1, <1>3 DEF Reports
<1>5. TypeOK'
  BY <1>1, <1>4 DEF CaptureInv, TypeOK
<1>6. Cleaned'
  BY <1>1 DEF Cleaned
<1> QED
  BY <1>1, <1>2, <1>4, <1>5, <1>6, ServicesKeep

LEMMA StartMasterKeeps ==
  ASSUME CaptureInv, CaptureAssumption, UNCHANGED <<port, stopped>>, StartMaster
  PROVE  CaptureInv'
<1> DEFINE p == [NoProcess EXCEPT !.status = "running"]
<1>1. p \in Processes /\ p.status = "running" /\ ~p.detached
  BY DEF NoProcess, Processes
<1>2. /\ Master \in Arms /\ Server \in Arms /\ Arms = {Master, Server} /\ "leader" \in Roles
      /\ process \in Servers
  BY DEF CaptureAssumption, CaptureInv, TypeOK, Servers, Roles
<1>3. /\ process' \in Servers /\ process'[Master]["leader"] = p
      /\ process'[Server] = process[Server]
  BY <1>1, <1>2, SetOne DEF StartMaster, Master, Server
<1>4. /\ pc = "start" /\ pc' = "start" /\ arm = Master /\ arm' = Server
      /\ UNCHANGED <<report, passed, outcome, answered, company, blind>>
  BY DEF StartMaster, history
<1> HIDE DEF p
<1>5. TypeOK'
  BY <1>2, <1>3, <1>4 DEF CaptureInv, TypeOK, Servers
<1>6. ServicesStarted'
  <2>1. Master = 1 /\ Server = 2
    BY DEF Master, Server
  <2>2. ~process'[Server]["leader"].detached /\ ~process'[Master]["leader"].detached
    BY <1>1, <1>2, <1>3 DEF CaptureInv, ServicesStarted
  <2>3. \A r \in Roles : process'[Server][r].status = "absent"
    BY <1>2, <1>3, <1>4, <2>1 DEF CaptureInv, ServicesStarted
  <2>4. process'[Master]["leader"].status # "absent"
    BY <1>1, <1>3
  <2> QED
    BY <1>2, <1>4, <2>1, <2>2, <2>3, <2>4 DEF ServicesStarted
<1>7. Cleaned' /\ ServerStopped'
  BY <1>4 DEF Cleaned, ServerStopped
<1> QED
  BY <1>4, <1>5, <1>6, <1>7 DEF CaptureInv

LEMMA StartServerKeeps ==
  ASSUME CaptureInv, CaptureAssumption, UNCHANGED <<port, stopped>>, StartCaptureServer
  PROVE  CaptureInv'
<1> DEFINE p == [NoProcess EXCEPT !.status = "running"]
<1>1. p \in Processes /\ p.status = "running" /\ ~p.detached
  BY DEF NoProcess, Processes
<1>2. /\ Master \in Arms /\ Server \in Arms /\ Arms = {Master, Server} /\ Master # Server
      /\ "leader" \in Roles /\ process \in Servers
  BY DEF CaptureAssumption, CaptureInv, TypeOK, Servers, Roles, Master, Server
<1>3. /\ pc = "start" /\ pc' = "health" /\ arm = Server /\ report' = NoReport
      /\ UNCHANGED <<arm, passed, outcome, answered, company, blind>>
  BY DEF StartCaptureServer, StartServer, Goto, history
<1>4. /\ process' \in Servers /\ process'[Server]["leader"] = p
      /\ process'[Master] = process[Master]
  BY <1>1, <1>2, <1>3, SetOne DEF StartCaptureServer, StartServer
<1> HIDE DEF p
<1>5. TypeOK'
  <2>1. NoReport \in Reports
    BY ProbeAssumption DEF NoReport, Reports
  <2> QED
    BY <1>3, <1>4, <2>1 DEF CaptureInv, TypeOK, Servers, Points
<1>6. ServicesStarted'
  <2>1. ~process'[Server]["leader"].detached /\ ~process'[Master]["leader"].detached
    BY <1>1, <1>2, <1>4 DEF CaptureInv, ServicesStarted
  <2>2. /\ process'[Server]["leader"].status # "absent"
        /\ process'[Master]["leader"].status # "absent"
    BY <1>1, <1>3, <1>4 DEF CaptureInv, ServicesStarted
  <2> QED
    BY <1>2, <1>3, <2>1, <2>2 DEF ServicesStarted
<1>7. Cleaned' /\ ServerStopped'
  BY <1>2, <1>3 DEF Cleaned, ServerStopped
<1> QED
  BY <1>3, <1>5, <1>6, <1>7 DEF CaptureInv

LEMMA CaptureRaises ==
  ASSUME CaptureInv, UNCHANGED <<port, process, stopped>>, Raise
  PROVE  CaptureInv'
<1>1. TypeOK'
  BY DEF CaptureInv, TypeOK, Raise, history, Points
<1>2. ServicesStarted' /\ Cleaned' /\ ServerStopped' /\ outcome' # "passed"
  BY DEF CaptureInv, Raise, ServicesStarted, Cleaned, ServerStopped
<1> QED
  BY <1>1, <1>2 DEF CaptureInv

\* The server's cleanup is over, and the master's begins.
LEMMA StopMasterKeeps ==
  ASSUME CaptureInv, CaptureAssumption, UNCHANGED port, StopMaster
  PROVE  CaptureInv'
<1>1. /\ pc = "port" /\ pc' = "terminate" /\ arm = Server /\ arm' = Master
      /\ UNCHANGED <<process, passed, outcome, answered, company, blind>>
      /\ stopped' = [remaining |-> report.remaining, closed |-> PortIsClosed(port[Server])]
      /\ report' = [report EXCEPT !.remaining = {}, !.gpu = {}]
  BY DEF StopMaster, history
<1>2. Master \in Arms /\ Server \in Arms
  BY DEF CaptureAssumption
<1>3. TypeOK'
  <2>1. report' \in Reports
    BY <1>1 DEF CaptureInv, TypeOK, Reports
  <2> QED
    BY <1>1, <1>2, <2>1 DEF CaptureInv, TypeOK, Points
<1>4. stopped' \in [remaining : SUBSET Roles, closed : BOOLEAN]
  BY <1>1 DEF CaptureInv, TypeOK, Reports, PortIsClosed
<1>5. ServicesStarted' /\ Cleaned'
  BY <1>1 DEF CaptureInv, ServicesStarted, Cleaned
<1>6. ServerStopped'
  <2>1. /\ LeaderGone(Server)
        /\ report.remaining = {} => \A r \in Roles : ~InGroup(Server, r)
    BY <1>1 DEF CaptureInv, Cleaned
  <2>2. PortIsClosed(port[Server]) => \A r \in Roles : ~Listens(Server, r)
    BY <1>2 DEF PortIsClosed
  <2> QED
    BY <1>1, <2>1, <2>2 DEF ServerStopped, LeaderGone, InGroup, Listens, Alive
<1>7. outcome' # "passed"
  BY <1>1 DEF CaptureInv
<1> QED
  BY <1>3, <1>4, <1>5, <1>6, <1>7 DEF CaptureInv

\* The verdict is on both.
LEMMA FinishKeeps ==
  ASSUME CaptureInv, CaptureAssumption, UNCHANGED port, FinishCapture
  PROVE  CaptureInv'
<1>1. /\ pc = "port" /\ pc' = "ended" /\ arm = Master
      /\ UNCHANGED <<process, arm, report, passed, answered, company, blind, stopped>>
      /\ outcome' \in {"passed", "failed"}
      /\ outcome' = "passed" => CaptureCleanup(PortIsClosed(port[Master]))
  BY DEF FinishCapture, history
<1>2. Master \in Arms /\ Arms = {Master, Server}
  BY DEF CaptureAssumption
<1>3. TypeOK' /\ ServicesStarted' /\ Cleaned' /\ ServerStopped'
  BY <1>1 DEF CaptureInv, TypeOK, Points, ServicesStarted, Cleaned, ServerStopped
<1>4. ASSUME outcome' = "passed"
      PROVE  (\A a \in Arms : ServiceOver(a)) /\ (blind = {} => GpuHolders = {})
  <2>1. /\ stopped.remaining = {} /\ report.remaining = {} /\ report.gpu = {} /\ stopped.closed
        /\ PortIsClosed(port[Master])
    BY <1>1, <1>4 DEF CaptureCleanup
  <2>2. ServiceOver(Server) /\ (blind = {} => GpuHolders = {})
    BY <1>1, <2>1 DEF CaptureInv, ServerStopped, ServiceOver
  <2>3. LeaderGone(Master) /\ \A r \in Roles : ~InGroup(Master, r)
    BY <1>1, <2>1 DEF CaptureInv, Cleaned
  <2>4. \A r \in Roles : ~Listens(Master, r)
    BY <1>2, <2>1 DEF PortIsClosed
  <2> QED
    BY <1>2, <2>2, <2>3, <2>4 DEF ServiceOver
<1>5. outcome' = "passed" => (\A a \in Arms : ServiceOver(a))' /\ (blind = {} => GpuHolders = {})'
  BY <1>1, <1>4 DEF ServiceOver, LeaderGone, InGroup, Listens, HoldsGpu, GpuHolders, Alive
<1> QED
  BY <1>1, <1>3, <1>5 DEF CaptureInv

LEMMA CaptureStarts ==
  ASSUME CaptureInit
  PROVE  CaptureInv
<1>1. TypeOK
  BY ProbeStarts DEF CaptureInit, ProbeInv
<1>2. NoProcess.status = "absent" /\ ~NoProcess.detached
  BY DEF NoProcess
<1> HIDE DEF NoProcess
<1>3. pc = "start" /\ arm = 1 /\ outcome = "none" /\ stopped = NotStopped
  BY DEF CaptureInit, Init
<1>4. ServicesStarted
  BY <1>2, <1>3 DEF CaptureInit, Init, ServicesStarted, Roles, Server
<1>5. Cleaned /\ ServerStopped
  BY <1>3 DEF Cleaned, ServerStopped
<1>6. stopped \in [remaining : SUBSET Roles, closed : BOOLEAN]
  BY <1>3 DEF NotStopped
<1> QED
  BY <1>1, <1>3, <1>4, <1>5, <1>6 DEF CaptureInv

LEMMA CaptureSteps ==
  ASSUME CaptureAssumption, CaptureInv, [CaptureNext]_captureVars
  PROVE  CaptureInv'
<1>1. CASE UNCHANGED captureVars
  BY <1>1 DEF captureVars, vars, history, CaptureInv, TypeOK, ServicesStarted, Cleaned,
     ServerStopped, ServiceOver, LeaderGone, InGroup, Listens, HoldsGpu, GpuHolders, Alive
<1>2. ASSUME NEW a \in {Master, Server}, ServiceStep(a) PROVE CaptureInv'
  BY <1>2, ServiceSteps DEF CaptureAssumption
<1>3. CASE CaptureStep
  <2>1. UNCHANGED port
    BY <1>3 DEF CaptureStep
  <2>2. CASE UNCHANGED stopped /\ StartMaster
    BY <2>1, <2>2, StartMasterKeeps
  <2>3. CASE UNCHANGED stopped /\ StartCaptureServer
    BY <2>1, <2>3, StartServerKeeps
  <2>4. CASE UNCHANGED stopped /\ (StartFails \/ LeaderStays)
    BY <2>1, <2>4, CaptureRaises DEF StartFails, LeaderStays
  <2>5. CASE UNCHANGED stopped /\ Measuring /\ ~QueryGpu
    BY <2>1, <2>5, CaptureMeasuring
  <2>6. CASE UNCHANGED stopped /\ QueryGpu
    BY <2>1, <2>6, CaptureQueries
  <2>7. CASE UNCHANGED stopped /\ Workload
    BY <2>1, <2>7, WorkloadKeeps
  <2>8. CASE StopMaster
    BY <2>1, <2>8, StopMasterKeeps
  <2>9. CASE FinishCapture
    BY <2>1, <2>9, FinishKeeps
  <2> QED
    BY <1>3, <2>2, <2>3, <2>4, <2>5, <2>6, <2>7, <2>8, <2>9 DEF CaptureStep, Measuring
<1> QED
  BY <1>1, <1>2, <1>3 DEF CaptureNext

\* On any ports and for any requests, a capture probe that passed has left neither its server
\* nor its master, wherever they went when they were stopped (_capture_server_probe).
THEOREM CaptureIsClean ==
  ASSUME CaptureAssumption
  PROVE  CaptureSpec => []CaptureLeavesNothing
<1>1. CaptureInit => CaptureInv
  BY CaptureStarts
<1>2. CaptureInv /\ [CaptureNext]_captureVars => CaptureInv'
  BY CaptureSteps
<1>3. CaptureInv => CaptureLeavesNothing
  BY DEF CaptureAssumption, CaptureInv, ServiceOver, PortIsClosed, CaptureLeavesNothing
<1> QED
  BY <1>1, <1>2, <1>3, PTL DEF CaptureSpec

-----------------------------------------------------------------------------
(* The terminal record *)

LogPieces == {"marker", "rest", "newline", "text"}
RunPoints == {"read", "poll", "check", "stop", "wait", "wait killed", "final", "ended"}

RecordTypes ==
  /\ log \in Seq(LogPieces) /\ written \in Nat
  /\ child \in {"running", "killed"} \cup ExitStatuses /\ point \in RunPoints
  /\ timedOut \in BOOLEAN /\ doneFirst \in BOOLEAN
  /\ reader \in {"exit", "record"} /\ result \in {"none", "raised", "accepted", "refused"}

\* What may follow a piece that does not end its line.
Follow(piece) ==
  CASE piece = "marker" -> {"rest", "text"}
    [] piece = "rest" -> {"newline", "text"}
    [] OTHER -> LogPieces

\* The child writes its record in order, and the worker whole lines.
LogInOrder ==
  /\ \A i \in DOMAIN log : i + 1 \in DOMAIN log => log[i + 1] \in Follow(log[i])
  /\ log # <<>> =>
       /\ log[Len(log)] = "marker" => written % 3 = 1
       /\ log[Len(log)] = "rest" => written % 3 = 2

\* Nobody stops a child without its record but at the deadline.
StoppedForCause ==
  /\ doneFirst => TerminalRecords # {}
  /\ point = "check" => timedOut \/ Exited \/ seen # {}
  /\ point = "stop" => timedOut \/ Exited \/ doneFirst
  /\ point \in {"wait", "wait killed"} => timedOut \/ doneFirst
  /\ child \in {"killed", "signalled"} =>
       point \notin {"read", "poll", "check", "stop"} /\ (timedOut \/ doneFirst)

\* What the verdict rests on.
VerdictStands ==
  /\ point = "final" => Exited /\ returncode = child
  /\ result \in {"accepted", "refused"} => point = "ended" /\ Exited /\ returncode = child
  /\ result = "refused" => ~Accepted(seen)

RecordInv ==
  /\ RecordTypes /\ LogInOrder /\ seen \subseteq TerminalRecords
  /\ StoppedForCause /\ VerdictStands

\* A record whose line nobody wrote into is whole.
LEMMA RecordsWhole ==
  ASSUME RecordTypes, LogInOrder, NEW line \in TerminalRecords
  PROVE  Whole(line) \/ Mixed(line)
<1> DEFINE i == line[1]
           j == line[2]
<1>1. /\ i \in DOMAIN log /\ j \in DOMAIN log /\ i <= j /\ log[i] = "marker" /\ log[j] = "newline"
      /\ \A k \in i .. (j - 1) : log[k] # "newline"
  BY DEF TerminalRecords, Lines, Pieces, WithinLine
<1>2. log \in Seq(LogPieces) /\ DOMAIN log = 1 .. Len(log)
  BY DEF RecordTypes
<1>3. SUFFICES ASSUME ~Mixed(line) PROVE Whole(line)
  OBVIOUS
<1>4. \A k \in i .. j : log[k] # "text"
  BY <1>3 DEF Mixed
<1> HIDE DEF i, j
<1>5. i + 1 \in DOMAIN log /\ i + 1 <= j
  BY <1>1, <1>2
<1>6. log[i + 1] = "rest"
  <2>1. log[i + 1] \in Follow("marker")
    BY <1>1, <1>5 DEF LogInOrder
  <2> QED
    BY <1>1, <1>2, <1>4, <1>5, <2>1 DEF Follow
<1>7. i + 2 \in DOMAIN log /\ i + 2 <= j
  BY <1>1, <1>2, <1>5, <1>6
<1>8. log[i + 2] = "newline"
  <2>1. (i + 1) + 1 = i + 2
    BY <1>1, <1>2
  <2>2. log[i + 2] \in Follow("rest")
    BY <1>5, <1>6, <1>7, <2>1 DEF LogInOrder
  <2> QED
    BY <1>1, <1>2, <1>4, <1>7, <2>2 DEF Follow
<1>9. j = i + 2
  BY <1>1, <1>2, <1>7, <1>8
<1>10. SubSeq(log, i, j) = <<"marker", "rest", "newline">>
  <2> DEFINE part == SubSeq(log, i, j)
  <2>1. part \in Seq(LogPieces) /\ Len(part) = 3
    BY <1>1, <1>2, <1>9
  <2>2. part[1] = "marker" /\ part[2] = "rest" /\ part[3] = "newline"
    BY <1>1, <1>2, <1>6, <1>8, <1>9
  <2> HIDE DEF part
  <2>3. part = <<part[1], part[2], part[3]>>
    BY <2>1
  <2> QED
    BY <2>2, <2>3 DEF part
<1> QED
  BY <1>10 DEF Whole, Record, i, j

\* A line that has ended stays as it is when the log grows.
LEMMA RecordsStay ==
  ASSUME log \in Seq(LogPieces), log' \in Seq(LogPieces), Len(log) <= Len(log'),
         \A k \in DOMAIN log : log'[k] = log[k]
  PROVE  /\ TerminalRecords \subseteq TerminalRecords'
         /\ \A line \in TerminalRecords : Whole(line)' <=> Whole(line)
<1>1. DOMAIN log = 1 .. Len(log) /\ DOMAIN log' = 1 .. Len(log')
  OBVIOUS
<1>2. ASSUME NEW line \in TerminalRecords
      PROVE  line \in TerminalRecords' /\ (Whole(line)' <=> Whole(line))
  <2>1. /\ line \in (DOMAIN log) \X (DOMAIN log) /\ WithinLine(line[1], line[2])
        /\ log[line[2]] = "newline" /\ log[line[1]] = "marker"
    BY DEF TerminalRecords, Lines, Pieces
  <2>2. line \in (DOMAIN log') \X (DOMAIN log')
    <3>1. DOMAIN log \subseteq DOMAIN log'
      BY <1>1
    <3> QED
      BY <2>1, <3>1
  <2>3. WithinLine(line[1], line[2])'
    <3>1. line[1] \in DOMAIN log /\ line[2] \in DOMAIN log
      BY <2>1
    <3>2. line[1] # 1 => line[1] - 1 \in DOMAIN log
      BY <1>1, <3>1
    <3>3. \A k \in line[1] .. (line[2] - 1) : k \in DOMAIN log
      BY <1>1, <3>1
    <3> QED
      BY <2>1, <3>2, <3>3 DEF WithinLine
  <2>4. \A k \in line[1] .. line[2] : log'[k] = log[k]
    BY <1>1, <2>1
  <2>5. line \in TerminalRecords'
    BY <2>1, <2>2, <2>3 DEF TerminalRecords, Lines, Pieces
  <2>6. SubSeq(log', line[1], line[2]) = SubSeq(log, line[1], line[2])
    BY <1>1, <2>1, <2>4
  <2> QED
    BY <2>5, <2>6 DEF Whole, Record
<1> QED
  BY <1>2

LEMMA RecordStarts ==
  RecordInit => RecordInv
<1> SUFFICES ASSUME RecordInit PROVE RecordInv
  OBVIOUS
<1>1. RecordTypes
  <2>1. log \in Seq(LogPieces) /\ written \in Nat /\ child = "running"
    BY DEF RecordInit
  <2> QED
    BY <2>1 DEF RecordInit, RecordTypes, RunPoints
<1>2. StoppedForCause /\ VerdictStands /\ seen \subseteq TerminalRecords
  BY DEF RecordInit, StoppedForCause, VerdictStands
<1>3. LogInOrder
  BY DEF RecordInit, LogInOrder
<1> QED
  BY <1>1, <1>2, <1>3 DEF RecordInv

\* While the probe stands still, the log grows and the child exits or not.
LEMMA GrownLogKeeps ==
  ASSUME RecordInv, UNCHANGED probeVars, RecordTypes', LogInOrder', Len(log) <= Len(log'),
         \A k \in DOMAIN log : log'[k] = log[k],
         Exited => child' = child,
         child' \in {"killed", "signalled"} => child \in {"killed", "signalled"}
  PROVE  RecordInv'
<1>1. /\ log \in Seq(LogPieces) /\ log' \in Seq(LogPieces)
  BY DEF RecordInv, RecordTypes
<1>2. TerminalRecords \subseteq TerminalRecords' /\ \A line \in TerminalRecords : Whole(line)' <=> Whole(line)
  BY <1>1, RecordsStay
<1>3. UNCHANGED <<point, seen, timedOut, doneFirst, returncode, reader, result>>
  BY DEF probeVars
<1>4. (seen \subseteq TerminalRecords)'
  BY <1>2, <1>3 DEF RecordInv
<1>5. Exited => Exited'
  BY DEF Exited
<1>6. StoppedForCause'
  BY <1>2, <1>3, <1>5 DEF RecordInv, StoppedForCause, Exited, ExitStatuses
<1>7. Accepted(seen)' => Accepted(seen)
  BY <1>2, <1>3 DEF RecordInv, Accepted
<1>8. VerdictStands'
  BY <1>3, <1>5, <1>7 DEF RecordInv, VerdictStands
<1> QED
  BY <1>4, <1>6, <1>8 DEF RecordInv

\* The child writes the next piece of its record.
LEMMA ChildWritesKeeps ==
  ASSUME RecordInv, ChildWrites, UNCHANGED probeVars
  PROVE  RecordInv'
<1> DEFINE piece == Record[(written % 3) + 1]
<1>1. /\ log' = Append(log, piece) /\ written' = written + 1 /\ UNCHANGED child
      /\ log \in Seq(LogPieces) /\ written \in Nat
  BY DEF ChildWrites, RecordInv, RecordTypes
<1>2. /\ written % 3 \in 0 .. 2
      /\ (written % 3 = 0 => (written + 1) % 3 = 1)
      /\ (written % 3 = 1 => (written + 1) % 3 = 2)
  BY <1>1
<1>3. /\ piece \in LogPieces
      /\ piece = "marker" => written % 3 = 0
      /\ piece = "rest" => written % 3 = 1
      /\ written % 3 = 1 => piece = "rest"
      /\ written % 3 = 2 => piece = "newline"
  BY <1>2 DEF Record, LogPieces
<1> HIDE DEF piece
<1>4. /\ log' \in Seq(LogPieces) /\ Len(log') = Len(log) + 1 /\ log'[Len(log')] = piece
      /\ \A k \in DOMAIN log : log'[k] = log[k]
      /\ DOMAIN log = 1 .. Len(log) /\ DOMAIN log' = 1 .. (Len(log) + 1) /\ Len(log) \in Nat
  BY <1>1, <1>3
<1>5. RecordTypes'
  BY <1>1, <1>4 DEF RecordInv, RecordTypes, probeVars, Exited
<1>6. ASSUME NEW i \in DOMAIN log', i + 1 \in DOMAIN log'
      PROVE  log'[i + 1] \in Follow(log'[i])
  <2>1. CASE i + 1 \in DOMAIN log
    BY <1>4, <1>6, <2>1 DEF RecordInv, LogInOrder
  <2>2. CASE i + 1 \notin DOMAIN log
    <3>1. i = Len(log) /\ i \in DOMAIN log /\ log # <<>> /\ i + 1 = Len(log')
      BY <1>4, <1>6, <2>2
    <3>2. log'[i] = log[Len(log)] /\ log'[i + 1] = piece
      BY <1>4, <3>1
    <3>3. /\ log[Len(log)] = "marker" => piece = "rest"
          /\ log[Len(log)] = "rest" => piece = "newline"
      BY <1>3, <3>1 DEF RecordInv, LogInOrder
    <3> QED
      BY <1>3, <3>2, <3>3 DEF Follow
  <2> QED
    BY <2>1, <2>2
<1>7. LogInOrder'
  BY <1>1, <1>2, <1>3, <1>4, <1>6 DEF LogInOrder
<1> QED
  BY <1>1, <1>4, <1>5, <1>7, GrownLogKeeps

\* The worker writes a line.
LEMMA WorkerWritesKeeps ==
  ASSUME RecordInv, WorkerWrites, UNCHANGED probeVars
  PROVE  RecordInv'
<1>1. /\ log' = log \o <<"text", "newline">> /\ UNCHANGED <<written, child>>
      /\ log \in Seq(LogPieces)
  BY DEF WorkerWrites, Noise, RecordInv, RecordTypes
<1>2. <<"text", "newline">> \in Seq(LogPieces) /\ Len(<<"text", "newline">>) = 2
  BY DEF LogPieces
<1>3. /\ log' \in Seq(LogPieces) /\ Len(log') = Len(log) + 2
      /\ log'[Len(log) + 1] = "text" /\ log'[Len(log) + 2] = "newline"
      /\ \A k \in DOMAIN log : log'[k] = log[k]
      /\ DOMAIN log = 1 .. Len(log) /\ DOMAIN log' = 1 .. (Len(log) + 2) /\ Len(log) \in Nat
  BY <1>1, <1>2
<1>4. RecordTypes'
  BY <1>1, <1>3 DEF RecordInv, RecordTypes, probeVars, Exited
<1>5. ASSUME NEW i \in DOMAIN log', i + 1 \in DOMAIN log'
      PROVE  log'[i + 1] \in Follow(log'[i])
  <2>1. CASE i + 1 \in DOMAIN log
    BY <1>3, <1>5, <2>1 DEF RecordInv, LogInOrder
  <2>2. CASE i = Len(log)
    BY <1>3, <2>2 DEF Follow, LogPieces
  <2>3. CASE i = Len(log) + 1
    <3>1. log'[i] = "text" /\ log'[i + 1] = "newline"
      BY <1>3, <2>3
    <3> QED
      BY <3>1 DEF Follow, LogPieces
  <2> QED
    BY <1>3, <1>5, <2>1, <2>2, <2>3
<1>6. LogInOrder'
  BY <1>3, <1>5 DEF LogInOrder
<1> QED
  BY <1>1, <1>3, <1>4, <1>6, GrownLogKeeps

\* The child exits.
LEMMA ChildExitsKeeps ==
  ASSUME RecordInv, ChildExits, UNCHANGED probeVars
  PROVE  RecordInv'
<1>1. /\ UNCHANGED <<log, written>> /\ ~Exited /\ child' \in ExitStatuses
      /\ child' = "signalled" => child = "killed"
  BY DEF ChildExits, ExitStatuses
<1>2. RecordTypes'
  BY <1>1 DEF RecordInv, RecordTypes, probeVars
<1>3. LogInOrder'
  BY <1>1 DEF RecordInv, LogInOrder, Follow
<1>4. child' # "killed" /\ log \in Seq(LogPieces)
  BY <1>1 DEF ExitStatuses, RecordInv, RecordTypes
<1> QED
  BY <1>1, <1>2, <1>3, <1>4, GrownLogKeeps

\* While the log stands still, so do its lines.
LEMMA SameLog ==
  ASSUME RecordInv, UNCHANGED <<log, written>>
  PROVE  /\ LogInOrder' /\ UNCHANGED TerminalRecords
         /\ \A line \in TerminalRecords : Whole(line)' <=> Whole(line)
BY DEF RecordInv, LogInOrder, Follow, TerminalRecords, Lines, Pieces, WithinLine, Whole, Record

\* The probe looks at the log and at the child, and takes its decision.
LEMMA LookingKeeps ==
  ASSUME RecordInv, ReadLog \/ PollChild \/ DeadlinePasses \/ Check
  PROVE  RecordInv'
<1>1. /\ UNCHANGED <<log, written, noise, child, reader, result>>
      /\ point \in {"read", "poll", "check"} /\ point' \in {"read", "poll", "check", "stop"}
      /\ seen' \in {seen, TerminalRecords} /\ timedOut' \in BOOLEAN /\ doneFirst' \in BOOLEAN
  BY DEF ReadLog, PollChild, DeadlinePasses, Check, childVars, RecordInv, RecordTypes
<1>2. LogInOrder' /\ UNCHANGED TerminalRecords
  BY <1>1, SameLog
<1>3. RecordTypes'
  BY <1>1 DEF RecordInv, RecordTypes, RunPoints
<1>4. (seen \subseteq TerminalRecords)'
  BY <1>1, <1>2 DEF RecordInv
<1>5. StoppedForCause'
  <2>1. child' \notin {"killed", "signalled"}
    BY <1>1 DEF RecordInv, StoppedForCause
  <2>2. doneFirst' => TerminalRecords' # {}
    BY <1>2 DEF ReadLog, PollChild, DeadlinePasses, Check, RecordInv, StoppedForCause
  <2>3. point' = "check" => timedOut' \/ Exited' \/ seen' # {}
    BY <1>1 DEF ReadLog, PollChild, DeadlinePasses, Check, Exited
  <2>4. point' = "stop" => timedOut' \/ Exited' \/ doneFirst'
    BY <1>1 DEF ReadLog, PollChild, DeadlinePasses, Check, Exited, RecordInv, StoppedForCause
  <2> QED
    BY <1>1, <2>1, <2>2, <2>3, <2>4 DEF StoppedForCause
<1>6. VerdictStands'
  BY <1>1 DEF RecordInv, VerdictStands
<1> QED
  BY <1>2, <1>3, <1>4, <1>5, <1>6 DEF RecordInv

\* The probe stops the child and waits for it.
LEMMA StoppingRunKeeps ==
  ASSUME RecordInv, Stop \/ WaitForChild \/ Kill \/ ChildStays
  PROVE  RecordInv'
<1>1. /\ UNCHANGED <<log, written, noise, reader, seen, timedOut, doneFirst>>
      /\ point \in {"stop", "wait", "wait killed"}
      /\ point' \in {"wait", "wait killed", "final", "ended"}
      /\ result' \in {result, "raised"}
      /\ child' = child \/ (~Exited /\ child' \in {"killed", "signalled"})
  BY DEF Stop, WaitForChild, Kill, ChildStays, childVars
<1>2. LogInOrder' /\ UNCHANGED TerminalRecords
  BY <1>1, SameLog
<1>3. RecordTypes'
  BY <1>1 DEF RecordInv, RecordTypes, RunPoints, ExitStatuses
<1>4. (seen \subseteq TerminalRecords)'
  BY <1>1, <1>2 DEF RecordInv
<1>5. StoppedForCause'
  <2>1. ~Exited => timedOut \/ doneFirst
    BY <1>1 DEF RecordInv, StoppedForCause
  <2>2. child' \in {"killed", "signalled"} => timedOut \/ doneFirst
    BY <1>1, <2>1 DEF RecordInv, StoppedForCause
  <2>3. point' \in {"wait", "wait killed"} => ~Exited
    BY DEF Stop, WaitForChild, Kill, ChildStays
  <2> QED
    BY <1>1, <1>2, <2>1, <2>2, <2>3 DEF RecordInv, StoppedForCause
<1>6. VerdictStands'
  <2>1. result \notin {"accepted", "refused"}
    BY <1>1 DEF RecordInv, VerdictStands
  <2>2. point' = "final" => Exited' /\ returncode' = child'
    BY <1>1 DEF Stop, WaitForChild, Kill, ChildStays, PollStatus, Exited, childVars
  <2> QED
    BY <1>1, <2>1, <2>2 DEF VerdictStands
<1> QED
  BY <1>2, <1>3, <1>4, <1>5, <1>6 DEF RecordInv

\* The log is read again, and the reader decides.
LEMMA ReturnKeeps ==
  ASSUME RecordInv, Return
  PROVE  RecordInv'
<1>1. /\ UNCHANGED <<log, written, noise, child, timedOut, doneFirst, returncode, reader>>
      /\ point = "final" /\ point' = "ended" /\ seen' = TerminalRecords
      /\ result' = IF Accepted(TerminalRecords) THEN "accepted" ELSE "refused"
  BY DEF Return, childVars
<1>2. /\ LogInOrder' /\ UNCHANGED TerminalRecords
      /\ \A line \in TerminalRecords : Whole(line)' <=> Whole(line)
  BY <1>1, SameLog
<1>3. RecordTypes'
  BY <1>1 DEF RecordInv, RecordTypes, RunPoints
<1>4. StoppedForCause'
  BY <1>1, <1>2 DEF RecordInv, StoppedForCause
<1>5. VerdictStands'
  <2>1. Accepted(seen)' => Accepted(TerminalRecords)
    BY <1>1, <1>2 DEF Accepted
  <2> QED
    BY <1>1, <2>1 DEF RecordInv, VerdictStands, Exited
<1> QED
  BY <1>1, <1>2, <1>3, <1>4, <1>5 DEF RecordInv

LEMMA RecordSteps ==
  ASSUME RecordInv, [RecordNext]_recordVars
  PROVE  RecordInv'
<1>1. CASE UNCHANGED recordVars
  <2>1. RecordTypes' /\ UNCHANGED probeVars /\ UNCHANGED child /\ log \in Seq(LogPieces)
    BY <1>1 DEF recordVars, childVars, probeVars, RecordInv, RecordTypes
  <2>2. LogInOrder'
    BY <1>1, SameLog DEF recordVars, childVars
  <2> QED
    BY <1>1, <2>1, <2>2, GrownLogKeeps DEF recordVars, childVars
<1>2. CASE ChildStep
  BY <1>2, ChildWritesKeeps, WorkerWritesKeeps, ChildExitsKeeps DEF ChildStep
<1>3. CASE RecordStep
  BY <1>3, LookingKeeps, StoppingRunKeeps, ReturnKeeps DEF RecordStep
<1> QED
  BY <1>1, <1>2, <1>3 DEF RecordNext

\* For any number of records and lines between them, a child is stopped before the deadline only
\* when its record is in the log as a line that has ended (_run_until_terminal_record).
THEOREM SignalsFollowRecords ==
  RecordSpec => []SignalAfterRecord
<1>1. RecordInv => SignalAfterRecord
  BY RecordsWhole DEF RecordInv, StoppedForCause, SignalAfterRecord
<1> QED
  BY <1>1, RecordStarts, RecordSteps, PTL DEF RecordSpec

\* For any number of records and lines between them, a child that has left one whole record in
\* time is accepted, unless its exit counts and it failed by itself (_specforge_ingest).
THEOREM WholeRecordsAccepted ==
  RecordSpec => []RecordAccepted
<1>1. RecordInv => RecordAccepted
  BY DEF RecordInv, StoppedForCause, VerdictStands, RecordAccepted, Accepted, Exited, ExitStatuses
<1> QED
  BY <1>1, RecordStarts, RecordSteps, PTL DEF RecordSpec

-----------------------------------------------------------------------------
(* The judge's client *)

Messages == Results \cup ServerRequests \cup Items \cup Completions

JudgeTypes ==
  /\ sent \in Seq(Messages) /\ position \in 0 .. Len(sent)
  /\ server \in {"running", "killed", "exited"}
  /\ stage \in {"request", "turn", "terminate", "killed", "ended"}

\* The last text of our turn among the first messages.
LastText(end, text) ==
  \E i \in OwnTexts(end) : (\A j \in OwnTexts(end) : j <= i) /\ sent[i].text = text

JudgeInv ==
  /\ JudgeTypes
  /\ finalText # NoText => LastText(position, finalText)
  /\ answer # NoText =>
       \E end \in 1 .. position :
         Ends(sent[end]) /\ sent[end].status = "completed" /\ LastText(end, answer)
  /\ stage = "request" => finalText = NoText
  /\ stage \in {"request", "turn"} => answer = NoText
  /\ stage = "ended" /\ answer # NoText => server = "exited"

\* The last text of our turn is the same when more is sent.
LEMMA LastTextStays ==
  ASSUME sent \in Seq(Messages), NEW m \in Messages, sent' = Append(sent, m),
         NEW end \in 0 .. Len(sent), NEW text, LastText(end, text)
  PROVE  LastText(end, text)'
<1>1. \A i \in 1 .. end : sent'[i] = sent[i]
  OBVIOUS
<1>2. OwnTexts(end)' = OwnTexts(end)
  BY <1>1 DEF OwnTexts
<1> QED
  BY <1>1, <1>2 DEF LastText, OwnTexts

\* A message that is no text of our turn leaves the last one.
LEMMA LastTextSkips ==
  ASSUME sent \in Seq(Messages), NEW end \in 0 .. Len(sent), end < Len(sent),
         sent[end + 1].kind # "item/completed" \/ sent[end + 1].turn # "ours",
         NEW text, LastText(end, text)
  PROVE  LastText(end + 1, text)
<1>1. OwnTexts(end + 1) = OwnTexts(end)
  <2>1. 1 .. (end + 1) = (1 .. end) \cup {end + 1}
    OBVIOUS
  <2> QED
    BY <2>1 DEF OwnTexts
<1> QED
  BY <1>1 DEF LastText

LEMMA JudgeStarts ==
  JudgeInit => JudgeInv
BY DEF JudgeInit, JudgeInv, JudgeTypes

\* The server sends, and what was read stays.
LEMMA ServerSendsKeeps ==
  ASSUME JudgeInv, ServerSends
  PROVE  JudgeInv'
<1>1. PICK m \in Messages : sent' = Append(sent, m)
  BY DEF ServerSends, Messages
<1>2. sent \in Seq(Messages) /\ position \in 0 .. Len(sent)
  BY DEF JudgeInv, JudgeTypes
<1>3. UNCHANGED <<server, clientVars>>
  BY DEF ServerSends
<1>4. sent' \in Seq(Messages) /\ Len(sent') = Len(sent) + 1 /\ \A i \in 1 .. position : sent'[i] = sent[i]
  BY <1>1, <1>2
<1>5. JudgeTypes'
  BY <1>2, <1>3, <1>4 DEF JudgeInv, JudgeTypes, clientVars
<1>6. ASSUME finalText' # NoText PROVE LastText(position, finalText)'
  <2>1. LastText(position, finalText)
    BY <1>3, <1>6 DEF JudgeInv, clientVars
  <2> QED
    BY <1>1, <1>2, <1>3, <2>1, LastTextStays DEF clientVars, LastText, OwnTexts
<1>7. ASSUME answer' # NoText
      PROVE  (\E end \in 1 .. position :
                Ends(sent[end]) /\ sent[end].status = "completed" /\ LastText(end, answer))'
  <2>1. PICK end \in 1 .. position :
          Ends(sent[end]) /\ sent[end].status = "completed" /\ LastText(end, answer)
    BY <1>3, <1>7 DEF JudgeInv, clientVars
  <2>2. LastText(end, answer)'
    BY <1>1, <1>2, <1>3, <2>1, LastTextStays DEF clientVars, LastText, OwnTexts
  <2> QED
    BY <1>3, <1>4, <2>1, <2>2 DEF clientVars, Ends
<1> QED
  BY <1>3, <1>5, <1>6, <1>7 DEF JudgeInv, clientVars

\* The client reads a message that is none of our texts, and keeps its last one.
LEMMA ReadKeeps ==
  ASSUME JudgeInv, sent \in Seq(Messages), Unread, position' = position + 1, UNCHANGED sent,
         UNCHANGED finalText,
         Message.kind # "item/completed" \/ Message.turn # "ours" \/ finalText = NoText
  PROVE  (finalText # NoText => LastText(position, finalText))'
<1>1. position \in 0 .. Len(sent) /\ position < Len(sent)
  BY DEF JudgeInv, JudgeTypes, Unread
<1>2. ASSUME finalText # NoText PROVE LastText(position + 1, finalText)
  <2>1. LastText(position, finalText)
    BY <1>2 DEF JudgeInv
  <2> QED
    BY <1>1, <1>2, <2>1, LastTextSkips DEF Message
<1> QED
  BY <1>2 DEF LastText, OwnTexts

\* What was completed stays so when more is read.
LEMMA CompletionStays ==
  ASSUME JudgeTypes, position' \in Nat, position <= position', UNCHANGED <<sent, answer>>,
         NEW end \in 1 .. position,
         Ends(sent[end]) /\ sent[end].status = "completed" /\ LastText(end, answer)
  PROVE  (\E e \in 1 .. position :
            Ends(sent[e]) /\ sent[e].status = "completed" /\ LastText(e, answer))'
<1>1. end \in 1 .. position'
  BY DEF JudgeTypes
<1>2. LastText(end, answer)'
  BY DEF LastText, OwnTexts
<1> QED
  BY <1>1, <1>2 DEF Ends

\* The client waits for the answer to a request: there is no text yet.
LEMMA RequestKeeps ==
  ASSUME JudgeInv, RequestAnswered \/ RequestFails \/ OtherMessage
  PROVE  JudgeInv'
<1>1. /\ UNCHANGED <<sent, server, finalText>> /\ position' = position + 1 /\ Unread
      /\ stage = "request" /\ stage' \in {"request", "turn", "terminate"} /\ answer' = NoText
  BY DEF RequestAnswered, RequestFails, OtherMessage, Read, Leave, serverVars, JudgeInv
<1>2. finalText = NoText
  BY <1>1 DEF JudgeInv
<1>3. JudgeTypes'
  BY <1>1 DEF JudgeInv, JudgeTypes, Unread
<1> QED
  BY <1>1, <1>2, <1>3 DEF JudgeInv

\* The client listens to its turn, and keeps the last text of it.
LEMMA TurnMessageKeeps ==
  ASSUME JudgeInv, TurnMessage
  PROVE  JudgeInv'
<1>1. /\ UNCHANGED <<sent, server, stage, answer>> /\ position' = position + 1 /\ Unread
      /\ stage = "turn" /\ finalText' = Text(Message)
  BY DEF TurnMessage, Read, serverVars
<1>2. sent \in Seq(Messages) /\ position \in 0 .. Len(sent) /\ position < Len(sent)
  BY <1>1 DEF JudgeInv, JudgeTypes, Unread
<1>3. JudgeTypes'
  BY <1>1, <1>2 DEF JudgeInv, JudgeTypes
<1>4. CASE Message.kind = "item/completed" /\ Message.turn = "ours"
  <2>1. finalText' = sent'[position'].text
    BY <1>1, <1>4 DEF Text, Message
  <2>2. position' \in OwnTexts(position)' /\ \A j \in OwnTexts(position)' : j <= position'
    BY <1>1, <1>2, <1>4 DEF OwnTexts, Message
  <2>3. LastText(position, finalText)'
    BY <2>1, <2>2 DEF LastText
  <2> QED
    BY <1>1, <1>3, <2>3 DEF JudgeInv
<1>5. CASE ~(Message.kind = "item/completed" /\ Message.turn = "ours")
  <2>1. UNCHANGED finalText
    BY <1>1, <1>5 DEF Text
  <2> QED
    BY <1>1, <1>2, <1>3, <1>5, <2>1, ReadKeeps DEF JudgeInv
<1> QED
  BY <1>4, <1>5

\* The turn completes, and its last text is the answer.
LEMMA TurnCompletesKeeps ==
  ASSUME JudgeInv, TurnCompletes
  PROVE  JudgeInv'
<1>1. /\ UNCHANGED <<sent, server, finalText>> /\ position' = position + 1 /\ Unread
      /\ stage = "turn" /\ stage' = "terminate" /\ Ends(Message)
      /\ answer' = IF Message.status = "completed" THEN finalText ELSE NoText
  BY DEF TurnCompletes, Read, Leave, serverVars
<1>2. sent \in Seq(Messages) /\ position \in 0 .. Len(sent) /\ position < Len(sent)
  BY <1>1 DEF JudgeInv, JudgeTypes, Unread
<1>3. JudgeTypes'
  BY <1>1, <1>2 DEF JudgeInv, JudgeTypes
<1>4. (finalText # NoText => LastText(position, finalText))'
  BY <1>1, <1>2, ReadKeeps DEF Ends
<1>5. ASSUME answer' # NoText
      PROVE  (\E end \in 1 .. position :
                Ends(sent[end]) /\ sent[end].status = "completed" /\ LastText(end, answer))'
  <2>1. answer' = finalText' /\ Message.status = "completed"
    BY <1>1, <1>5
  <2>2. LastText(position, answer)'
    BY <1>4, <1>5, <2>1 DEF LastText
  <2>3. Ends(sent'[position']) /\ sent'[position'].status = "completed" /\ position' \in 1 .. position'
    BY <1>1, <1>2, <2>1 DEF Message
  <2> QED
    BY <2>2, <2>3 DEF Ends
<1> QED
  BY <1>1, <1>3, <1>4, <1>5 DEF JudgeInv

\* The server is stopped; an answer is given up when it does not stop.
LEMMA StoppingKeeps ==
  ASSUME JudgeInv, ServerExits \/ EndOfFile \/ StopServer \/ WaitForExit
  PROVE  JudgeInv'
<1>1. /\ UNCHANGED <<sent, position, finalText>> /\ (answer' = answer \/ answer' = NoText)
      /\ stage' \in {"request", "turn", "terminate", "killed", "ended"}
      /\ server' \in {"running", "killed", "exited"}
      /\ (stage' = "request" => stage = "request") /\ (stage' = "turn" => stage = "turn")
      /\ stage' = "ended" /\ answer' # NoText => server' = "exited"
  BY DEF JudgeInv, JudgeTypes, ServerExits, EndOfFile, StopServer, WaitForExit, Leave, serverVars, clientVars
<1>2. JudgeTypes'
  BY <1>1 DEF JudgeInv, JudgeTypes
<1>3. (finalText # NoText => LastText(position, finalText))'
  BY <1>1 DEF JudgeInv, LastText, OwnTexts
<1>4. ASSUME answer' # NoText
      PROVE  (\E end \in 1 .. position :
                Ends(sent[end]) /\ sent[end].status = "completed" /\ LastText(end, answer))'
  <2>1. answer' = answer
    BY <1>1, <1>4
  <2>2. PICK end \in 1 .. position :
          Ends(sent[end]) /\ sent[end].status = "completed" /\ LastText(end, answer)
    BY <1>4, <2>1 DEF JudgeInv
  <2> QED
    BY <1>1, <2>1, <2>2, CompletionStays DEF JudgeInv, JudgeTypes
<1> QED
  BY <1>1, <1>2, <1>3, <1>4 DEF JudgeInv

LEMMA JudgeSteps ==
  ASSUME JudgeInv, [JudgeNext]_judgeVars
  PROVE  JudgeInv'
<1>1. CASE UNCHANGED judgeVars
  BY <1>1 DEF judgeVars, serverVars, clientVars, JudgeInv, JudgeTypes, LastText, OwnTexts, Ends
<1> QED
  BY <1>1, ServerSendsKeeps, RequestKeeps, TurnMessageKeeps, TurnCompletesKeeps, StoppingKeeps
  DEF JudgeNext

\* For any number of requests and messages in any order, an evaluation returns the last text of
\* its own turn, which has completed, and has stopped its server (evaluate).
THEOREM AnswersAreOurs ==
  JudgeSpec => []AnswerIsOurs
<1>1. JudgeInv => AnswerIsOurs
  BY DEF JudgeInv, JudgeTypes, AnswerIsOurs, LastText, OwnTexts
<1> QED
  BY <1>1, JudgeStarts, JudgeSteps, PTL DEF JudgeSpec

=============================================================================
