--------------------------- MODULE CaptureServers ---------------------------
(***************************************************************************)
(* The capture probe: one workload on two services that run side by side.  *)
(* The Mooncake master is started first, then the capture server; in the   *)
(* end the server is stopped, then the master, and one verdict is given on *)
(* both.  Services are ServingProbe's: "arms" 1 and 2, which "arm" takes   *)
(* one after the other to start them, and again to stop them.              *)
(***************************************************************************)
EXTENDS ServingProbe

VARIABLE stopped   \* what the server's cleanup has found

captureVars == <<vars, stopped>>

Master == 1
Server == 2

CapturePorts == <<50051, 32000>>

CaptureAssumption == Arms = {Master, Server}

NotStopped == [remaining |-> {}, closed |-> FALSE]

CaptureInit == Init /\ stopped = NotStopped

ServiceStep(a) == ServerStep(a) /\ UNCHANGED stopped

StartMaster ==
  /\ pc = "start" /\ arm = Master
  /\ SetProcess(Master, "leader", [NoProcess EXCEPT !.status = "running"])
  /\ arm' = Server
  /\ UNCHANGED <<pc, report, passed, outcome, history>>

\* Both are started outside of the try: if the server is not, the master stays.
StartCaptureServer == arm = Server /\ StartServer

\* prewarm and workload, or the workload alone; it has passed when all was answered.
Workload ==
  /\ pc = "generate" /\ report.answers < Requests
  /\ Answering(Server) # {}
  /\ report' = [report EXCEPT !.answers = @ + 1]
  /\ Goto("generate") /\ UNCHANGED <<process, history>>

\* What the server's cleanup has found of the GPU is not used.
StopMaster ==
  /\ pc = "port" /\ arm = Server
  /\ stopped' = [remaining |-> report.remaining, closed |-> PortIsClosed(port[Server])]
  /\ arm' = Master /\ pc' = "terminate"
  /\ report' = [report EXCEPT !.remaining = {}, !.gpu = {}]
  /\ UNCHANGED <<process, passed, outcome, history>>

\* Mutant of CaptureCleanup: only the server's processes are looked for.
ServerCleanup(closed) ==
  stopped.remaining = {} /\ report.gpu = {} /\ stopped.closed /\ closed
CaptureCleanup(closed) ==
  stopped.remaining = {} /\ report.remaining = {} /\ report.gpu = {} /\ stopped.closed /\ closed

FinishCapture ==
  /\ pc = "port" /\ arm = Master
  /\ outcome' = IF report.healthy /\ report.answers = Requests
                     /\ CaptureCleanup(PortIsClosed(port[Master]))
                THEN "passed" ELSE "failed"
  /\ pc' = "ended"
  /\ UNCHANGED <<process, arm, report, passed, history, stopped>>

CaptureStep ==
  /\ UNCHANGED port
  /\ \/ /\ \/ StartMaster \/ StartCaptureServer \/ StartFails \/ WaitForServer \/ ServerFails
           \/ Workload \/ GenerateEnds
           \/ TerminateGroup \/ WaitForLeader \/ ListGroup \/ KillGroup \/ LookAgain
           \/ ReapLeader \/ LeaderStays \/ QueryGpu
        /\ UNCHANGED stopped
     \/ StopMaster \/ FinishCapture

CaptureNext == CaptureStep \/ \E a \in {Master, Server} : ServiceStep(a)

CaptureSpec == CaptureInit /\ [][CaptureNext]_captureVars /\ WF_captureVars(CaptureStep)

-----------------------------------------------------------------------------

\* Neither service of a capture probe that passed has left anything: not the master,
\* which is not stopped when stopping the server raises, and not the GPU's user, whom
\* only the master's cleanup is asked for (_capture_server_probe).
CaptureLeavesNothing ==
  outcome = "passed" =>
    \A a \in {Master, Server} :
      /\ \A r \in Roles : ~InGroup(a, r)
      /\ PortIsClosed(port[a])
      /\ blind = {} => GpuHolders = {}

=============================================================================
