-------------------------- MODULE MCChildProcesses --------------------------
(***************************************************************************)
(* Small instances for TLC of what supervises a child process: a serving   *)
(* probe, a capture probe, a probe that waits for a terminal record and    *)
(* the judge's client never run in one process, so a behaviour exercises   *)
(* the one that "part" names.                                             *)
(***************************************************************************)
EXTENDS CaptureServers, TerminalRecord, JudgeClient

CONSTANTS x, y

VARIABLE part

MCLayouts == {DistributionPorts, CapturePorts}

ASSUME CaptureAssumption /\ JudgeAssumption

SomeChild ==
  /\ part \in {"serving", "capture", "record", "judge"}
  /\ CaptureInit /\ RecordInit /\ JudgeInit
  /\ port = IF part = "capture" THEN CapturePorts ELSE DistributionPorts
  /\ part # "record" => reader = "exit"

ChildNext ==
  /\ UNCHANGED part
  /\ \/ part = "serving" /\ Next /\ UNCHANGED <<stopped, recordVars, judgeVars>>
     \/ part = "capture" /\ CaptureNext /\ UNCHANGED <<recordVars, judgeVars>>
     \/ part = "record" /\ RecordNext /\ UNCHANGED <<captureVars, judgeVars>>
     \/ part = "judge" /\ JudgeNext /\ UNCHANGED <<captureVars, recordVars>>

ChildSpec ==
  /\ SomeChild /\ [][ChildNext]_<<part, captureVars, recordVars, judgeVars>>
  /\ WF_vars(part = "serving" /\ ProbeStep)
  /\ WF_captureVars(part = "capture" /\ CaptureStep)
  /\ WF_recordVars(part = "record" /\ RecordStep)
  /\ SF_recordVars(part = "record" /\ DeadlinePasses)

\* A probe ends, whatever its children do (_stop_process_group, _run_until_terminal_record).
ProbesEnd ==
  /\ part \in {"serving", "capture"} => ProbeEnds
  /\ part = "record" => RunEnds

=============================================================================
