---------------------------- MODULE ServingProbe ----------------------------
(***************************************************************************)
(* A probe that measures serving arms one after the other: for each it     *)
(* starts a server in a process group of its own, waits until the server   *)
(* is healthy, sends its requests, stops the group and reports on what is  *)
(* left; the probe passes only if every arm did.                           *)
(*                                                                         *)
(* The servers are external.  Any process may exit at any time and none    *)
(* need ever do so when asked.  A leader begins to listen once it can, and *)
(* may start a worker, which may leave the group, inherit the socket and   *)
(* take the GPU, then or never.  A port has one listener and those that    *)
(* inherited its socket.                                                   *)
(***************************************************************************)
EXTENDS Naturals

CONSTANTS
    NArms,         \* the number of arms
    Layouts,       \* the ports of the servers: one function of the arms for each probe
    Requests       \* how many requests an arm answers

Arms == 1 .. NArms

ASSUME ProbeAssumption ==
  NArms \in Nat \ {0} /\ Requests \in Nat \ {0}

VARIABLES
    port,          \* port[a]: the port of arm a's server, as the probe chose it
    process,       \* process[a][r]: the processes of arm a's server
    arm,           \* the arm that is being measured
    pc,            \* how far it has come
    report,        \* what is known of it
    passed,        \* the arms that passed
    outcome,       \* what the probe returned
    answered,      \* history: answered[a], the arms whose servers answered for a
    company,       \* history: company[a], the arms that held the GPU meanwhile
    blind          \* history: the arms whose GPU query failed

history == <<answered, company, blind>>
vars == <<port, process, arm, pc, report, passed, outcome, history>>

Roles == {"leader", "worker"}

\* killed: SIGKILL is pending, as it is while a driver call lasts; zombie: dead,
\* and still listed under its group until somebody waits for it.
Processes == [status : {"absent", "running", "killed", "zombie", "gone"},
              listening : BOOLEAN, gpu : BOOLEAN, detached : BOOLEAN]

NoProcess == [status |-> "absent", listening |-> FALSE, gpu |-> FALSE, detached |-> FALSE]

Points == {"start", "health", "generate", "terminate", "wait", "list", "kill", "look",
           "reap", "gpu", "port", "ended"}

Reports == [healthy : BOOLEAN, answers : 0 .. Requests, remaining : SUBSET Roles,
            gpu : SUBSET Arms]

\* target-a, target-b, candidate-a and candidate-b.
DistributionPorts == <<37000, 37000, 38000, 38000>>

NoReport == [healthy |-> FALSE, answers |-> 0, remaining |-> {}, gpu |-> {}]

Init ==
  /\ port \in Layouts
  /\ process = [a \in Arms |-> [r \in Roles |-> NoProcess]]
  /\ arm = 1 /\ pc = "start" /\ report = NoReport
  /\ passed = {} /\ outcome = "none"
  /\ answered = [a \in Arms |-> {}] /\ company = [a \in Arms |-> {}] /\ blind = {}

Alive(a, r) == process[a][r].status \in {"running", "killed"}

Listens(a, r) == Alive(a, r) /\ process[a][r].listening
HoldsGpu(a, r) == Alive(a, r) /\ process[a][r].gpu

PortIsClosed(n) == \A a \in Arms, r \in Roles : port[a] = n => ~Listens(a, r)

GpuHolders == {a \in Arms : \E r \in Roles : HoldsGpu(a, r)}

\* pgrep lists zombies.
InGroup(a, r) ==
  process[a][r].status \in {"running", "killed", "zombie"} /\ ~process[a][r].detached

\* Mutant of ProcessGroupMembers: the leader alone is looked for.
LeaderInGroup(a) == {r \in {"leader"} : InGroup(a, r)}

ProcessGroupMembers(a) == {r \in Roles : InGroup(a, r)}

\* The arms whose processes may answer a request to arm a's port.
Answering(a) ==
  {b \in Arms : port[b] = port[a]
                  /\ \E r \in Roles : Listens(b, r) /\ process[b][r].status = "running"}

-----------------------------------------------------------------------------
(* The servers. *)

SetProcess(a, r, p) == process' = [process EXCEPT ![a][r] = p]

\* What a process holds is free once it is dead.
Dead(a, r, s) ==
  [status |-> s, listening |-> FALSE, gpu |-> FALSE, detached |-> process[a][r].detached]

\* What becomes of a process that exits: a leader waits for the probe to reap it.
Corpses(r) == IF r = "leader" THEN {"zombie"} ELSE {"zombie", "gone"}

Exit(a, r) ==
  /\ Alive(a, r)
  /\ \E s \in Corpses(r) : SetProcess(a, r, Dead(a, r, s))

Disappear(a) ==
  /\ process[a]["worker"].status = "zombie"
  /\ SetProcess(a, "worker", Dead(a, "worker", "gone"))

Listen(a) ==
  /\ process[a]["leader"].status = "running"
  /\ PortIsClosed(port[a])
  /\ SetProcess(a, "leader", [process[a]["leader"] EXCEPT !.listening = TRUE])

Fork(a) ==
  /\ process[a]["leader"].status = "running"
  /\ process[a]["worker"].status = "absent"
  /\ \E l \in {FALSE, process[a]["leader"].listening}, g, d \in BOOLEAN :
       SetProcess(a, "worker",
                  [status |-> "running", listening |-> l, gpu |-> g, detached |-> d])

ServerStep(a) ==
  /\ \/ \E r \in Roles : Exit(a, r)
     \/ Disappear(a) \/ Listen(a) \/ Fork(a)
  /\ UNCHANGED <<port, arm, pc, report, passed, outcome, history>>

-----------------------------------------------------------------------------
(* The probe. *)

Raise ==
  /\ pc' = "ended" /\ outcome' = "raised"
  /\ UNCHANGED <<arm, report, passed, history>>

Goto(point) ==
  /\ pc' = point
  /\ UNCHANGED <<arm, passed, outcome>>

StartServer ==
  /\ pc = "start"
  /\ SetProcess(arm, "leader", [NoProcess EXCEPT !.status = "running"])
  /\ report' = NoReport
  /\ Goto("health") /\ UNCHANGED history

StartFails == pc = "start" /\ Raise /\ UNCHANGED process

\* Reaps the leader if it has exited, and says whether it has.
Reaped == process[arm]["leader"].status \in {"zombie", "gone"}
Poll == IF Reaped THEN SetProcess(arm, "leader", Dead(arm, "leader", "gone")) ELSE UNCHANGED process

\* The server was seen running, and somebody answered on its port.
WaitForServer ==
  /\ pc = "health"
  /\ ~Reaped /\ Answering(arm) # {}
  /\ report' = [report EXCEPT !.healthy = TRUE]
  /\ Goto("generate") /\ UNCHANGED <<process, history>>

\* It exited, or the deadline has passed.
ServerFails ==
  /\ pc = "health"
  /\ Poll
  /\ Goto("terminate") /\ UNCHANGED <<report, history>>

Generate ==
  /\ pc = "generate" /\ report.answers < Requests
  /\ \E b \in Answering(arm) : answered' = [answered EXCEPT ![arm] = @ \cup {b}]
  /\ company' = [company EXCEPT ![arm] = @ \cup GpuHolders]
  /\ report' = [report EXCEPT !.answers = @ + 1]
  /\ Goto("generate") /\ UNCHANGED <<process, blind>>

\* All requests were answered, or one has failed.
GenerateEnds ==
  /\ pc = "generate"
  /\ Goto("terminate") /\ UNCHANGED <<process, report, history>>

\* SIGTERM to the group: some exit, and the others go on.
Sigterm(a) ==
  \E leaving \in SUBSET {r \in ProcessGroupMembers(a) : Alive(a, r)} :
    \E corpse \in [leaving -> {"zombie", "gone"}] :
      /\ \A r \in leaving : corpse[r] \in Corpses(r)
      /\ process' = [process EXCEPT ![a] =
           [r \in Roles |-> IF r \in leaving THEN Dead(a, r, corpse[r]) ELSE @[r]]]

TerminateGroup ==
  /\ pc = "terminate"
  /\ Sigterm(arm)
  /\ Goto("wait") /\ UNCHANGED <<report, history>>

\* The leader has exited and is reaped, or 30 seconds have passed.
WaitForLeader ==
  /\ pc = "wait"
  /\ Poll
  /\ Goto("list") /\ UNCHANGED <<report, history>>

ListGroup ==
  /\ pc = "list"
  /\ report' = [report EXCEPT !.remaining = ProcessGroupMembers(arm)]
  /\ Goto(IF ProcessGroupMembers(arm) = {} THEN "reap" ELSE "kill")
  /\ UNCHANGED <<process, history>>

\* SIGKILL to the group.
Sigkill(a) ==
  process' = [process EXCEPT ![a] =
    [r \in Roles |-> IF InGroup(a, r) /\ Alive(a, r) THEN [@[r] EXCEPT !.status = "killed"]
                                                     ELSE @[r]]]

KillGroup ==
  /\ pc = "kill"
  /\ Sigkill(arm)
  /\ Goto("look") /\ UNCHANGED <<report, history>>

\* Mutant of LookAgain: the ten seconds are forgotten.
LookUntilGone ==
  /\ pc = "look"
  /\ report' = [report EXCEPT !.remaining = ProcessGroupMembers(arm)]
  /\ Goto(IF ProcessGroupMembers(arm) = {} THEN "reap" ELSE "look")
  /\ UNCHANGED <<process, history>>

\* Nobody is left, or ten seconds have passed, or look again.
LookAgain ==
  /\ pc = "look"
  /\ report' = [report EXCEPT !.remaining = ProcessGroupMembers(arm)]
  /\ \E point \in IF ProcessGroupMembers(arm) = {} THEN {"reap"} ELSE {"reap", "look"} : Goto(point)
  /\ UNCHANGED <<process, history>>

\* wait(timeout=10) raises when the leader is still there.
ReapLeader ==
  /\ pc = "reap" /\ Reaped
  /\ Poll
  /\ Goto("gpu") /\ UNCHANGED <<report, history>>

LeaderStays == pc = "reap" /\ ~Reaped /\ Raise /\ UNCHANGED process

\* nvidia-smi; a failed query lists nothing.
QueryGpu ==
  /\ pc = "gpu"
  /\ \/ report' = [report EXCEPT !.gpu = GpuHolders] /\ UNCHANGED blind
     \/ report' = [report EXCEPT !.gpu = {}] /\ blind' = blind \cup {arm}
  /\ Goto("port") /\ UNCHANGED <<process, answered, company>>

\* Mutant of CleanupPassed: the port is not looked at.
PortForgotten(closed) == report.remaining = {} /\ report.gpu = {}

CleanupPassed(closed) == report.remaining = {} /\ report.gpu = {} /\ closed

ArmPassed(closed) == report.healthy /\ report.answers = Requests /\ CleanupPassed(closed)

PassedArms == IF ArmPassed(PortIsClosed(port[arm])) THEN passed \cup {arm} ELSE passed

\* What the probe returns; the measurements themselves may fail it as well.
Verdicts(arms) == IF arms = Arms THEN {"passed", "failed"} ELSE {"failed"}

FinishArm ==
  /\ pc = "port"
  /\ passed' = PassedArms
  /\ \/ /\ arm < NArms
        /\ arm' = arm + 1 /\ pc' = "start" /\ UNCHANGED outcome
     \/ /\ arm = NArms
        /\ outcome' \in Verdicts(PassedArms)
        /\ pc' = "ended" /\ UNCHANGED arm
  /\ UNCHANGED <<process, report, history>>

ProbeStep ==
  /\ UNCHANGED port
  /\ \/ StartServer \/ StartFails \/ WaitForServer \/ ServerFails
     \/ Generate \/ GenerateEnds
     \/ TerminateGroup \/ WaitForLeader \/ ListGroup \/ KillGroup \/ LookAgain
     \/ ReapLeader \/ LeaderStays \/ QueryGpu \/ FinishArm

Next == ProbeStep \/ \E a \in Arms : ServerStep(a)

\* Every wait of the probe has a deadline and nothing else stops it; a server
\* owes nothing.
Fairness == WF_vars(ProbeStep)

Spec == Init /\ [][Next]_vars /\ Fairness

-----------------------------------------------------------------------------

TypeOK ==
  /\ port \in Layouts
  /\ process \in [Arms -> [Roles -> Processes]]
  /\ arm \in Arms /\ pc \in Points /\ report \in Reports
  /\ passed \subseteq Arms /\ outcome \in {"none", "passed", "failed", "raised"}
  /\ answered \in [Arms -> SUBSET Arms] /\ company \in [Arms -> SUBSET Arms]
  /\ blind \subseteq Arms

\* When a probe passes, what it measured for an arm was answered by that arm's
\* server, and no other arm's processes held the GPU meanwhile: arms reuse a port,
\* the next one starts whatever the last cleanup has found, and its health check
\* asks the port and not the process (_wait_for_server, _distribution_serving_arm,
\* _sampled_distribution_equivalence_probe).
MeasuredAlone ==
  outcome = "passed" =>
    \A a \in Arms : answered[a] \subseteq {a} /\ (blind = {} => company[a] \subseteq {a})

\* When a probe passes, nothing it started is left: its groups are empty, its ports
\* closed and, if nvidia-smi worked, its GPU free, also of workers that left their
\* group and of leaders that died before their workers (_stop_process_group).
NothingLeft ==
  outcome = "passed" =>
    \A a \in Arms :
      /\ \A r \in Roles : ~InGroup(a, r)
      /\ PortIsClosed(port[a])
      /\ blind = {} => a \notin GpuHolders

\* A probe ends, whatever its servers do.
ProbeEnds == <>(pc = "ended")

=============================================================================
