--------------------------- MODULE TerminalRecord ---------------------------
(***************************************************************************)
(* A child that reports by one marked line in its log, and the probe that  *)
(* reads the log until the line is there, the child has exited or the      *)
(* deadline has passed, and then stops the child                           *)
(* (_run_until_terminal_record).  Of its readers, the ingest probe also     *)
(* asks how the child exited; those of the model port, the optimizer, the  *)
(* reloaded checkpoint and the tokenizer ask only for the record.          *)
(*                                                                         *)
(* The child and its worker are external: the child writes its records in  *)
(* pieces, may exit with any status at any time or hang, and the worker    *)
(* writes lines to the same log whenever it likes, also between pieces.    *)
(***************************************************************************)
EXTENDS Naturals, Sequences, FiniteSets

CONSTANTS
    MaxRecords,    \* bound: records the child writes
    MaxNoise       \* bound: lines its worker writes

VARIABLES
    log,           \* the pieces in the log
    written,       \* how many of them the child wrote
    noise,         \* how many lines its worker wrote
    child,         \* running, killed (SIGKILL is pending), or how it exited
    point,         \* how far the probe has come
    seen,          \* terminal_records of the last look
    timedOut,
    doneFirst,     \* terminated_after_terminal_record
    returncode,    \* what poll and wait have reaped
    reader,        \* whether the exit counts ("exit") or the record alone ("record")
    result         \* what the reader makes of it

childVars == <<log, written, noise, child>>
probeVars == <<point, seen, timedOut, doneFirst, returncode, reader, result>>
recordVars == <<childVars, probeVars>>

\* The first part of a record begins with the marker.
Record == <<"marker", "rest", "newline">>
Noise == <<"text", "newline">>

ExitStatuses == {"zero", "failure", "signalled"}
Exited == child \in ExitStatuses

RecordInit ==
  /\ log = <<>> /\ written = 0 /\ noise = 0 /\ child = "running"
  /\ point = "read" /\ seen = {}
  /\ timedOut = FALSE /\ doneFirst = FALSE
  /\ reader \in {"exit", "record"}
  /\ returncode = "none" /\ result = "none"

Pieces == (DOMAIN log) \X (DOMAIN log)

\* From a piece that begins a line to one of the same line.
WithinLine(i, j) ==
  /\ i <= j /\ (i = 1 \/ log[i - 1] = "newline")
  /\ \A k \in i .. (j - 1) : log[k] # "newline"

\* The lines that have ended, as <<first, last>>.
Lines == {p \in Pieces : WithinLine(p[1], p[2]) /\ log[p[2]] = "newline"}

\* Mutant of TerminalRecords: a record counts before its line has ended.
RecordsSoFar ==
  {p \in Pieces : /\ WithinLine(p[1], p[2]) /\ log[p[1]] = "marker"
                  /\ log[p[2]] = "newline" \/ p[2] = Len(log)}

TerminalRecords == {line \in Lines : log[line[1]] = "marker"}

\* Only a whole record is a JSON object.
Whole(line) == SubSeq(log, line[1], line[2]) = Record

\* The worker wrote into the line.
Mixed(line) == \E k \in line[1] .. line[2] : log[k] = "text"

-----------------------------------------------------------------------------
(* The child and its worker. *)

ChildWrites ==
  /\ child = "running"
  /\ written < 3 * MaxRecords
  /\ log' = Append(log, Record[(written % 3) + 1])
  /\ written' = written + 1
  /\ UNCHANGED <<noise, child>>

WorkerWrites ==
  /\ noise < MaxNoise
  /\ log' = log \o Noise
  /\ noise' = noise + 1
  /\ UNCHANGED <<written, child>>

ChildExits ==
  /\ ~Exited
  /\ child' \in IF child = "killed" THEN {"signalled"} ELSE {"zero", "failure"}
  /\ UNCHANGED <<log, written, noise>>

ChildStep ==
  /\ ChildWrites \/ WorkerWrites \/ ChildExits
  /\ UNCHANGED probeVars

-----------------------------------------------------------------------------
(* The probe. *)

\* poll and wait: the status of a child that has exited.
PollStatus == returncode' = IF Exited THEN child ELSE returncode

ReadLog ==
  /\ point = "read"
  /\ seen' = TerminalRecords
  /\ point' = IF TerminalRecords = {} THEN "poll" ELSE "check"
  /\ UNCHANGED <<childVars, timedOut, doneFirst, returncode, result, reader>>

PollChild ==
  /\ point = "poll"
  /\ PollStatus
  /\ point' = IF Exited THEN "check" ELSE "read"
  /\ UNCHANGED <<childVars, seen, timedOut, doneFirst, result, reader>>

DeadlinePasses ==
  /\ point = "read"
  /\ timedOut' = TRUE
  /\ point' = "check"
  /\ UNCHANGED <<childVars, seen, doneFirst, returncode, result, reader>>

Check ==
  /\ point = "check"
  /\ doneFirst' = (seen # {} /\ ~Exited)
  /\ PollStatus
  /\ point' = "stop"
  /\ UNCHANGED <<childVars, seen, timedOut, result, reader>>

\* SIGTERM, unless the child has exited; it may exit at once.
Stop ==
  /\ point = "stop"
  /\ PollStatus
  /\ IF Exited THEN point' = "final" /\ UNCHANGED child
               ELSE point' = "wait" /\ child' \in {child, "signalled"}
  /\ UNCHANGED <<log, written, noise, seen, timedOut, doneFirst, result, reader>>

WaitForChild ==
  /\ point \in {"wait", "wait killed"} /\ Exited
  /\ PollStatus
  /\ point' = "final"
  /\ UNCHANGED <<childVars, seen, timedOut, doneFirst, result, reader>>

\* SIGKILL after ten seconds.
Kill ==
  /\ point = "wait" /\ ~Exited
  /\ child' = "killed"
  /\ point' = "wait killed"
  /\ UNCHANGED <<log, written, noise, seen, timedOut, doneFirst, returncode, result, reader>>

\* wait(timeout=10) raises when the child is still there.
ChildStays ==
  /\ point = "wait killed" /\ ~Exited
  /\ point' = "ended" /\ result' = "raised"
  /\ UNCHANGED <<childVars, seen, timedOut, doneFirst, returncode, reader>>

\* Mutant of Accepted: a child that was stopped is refused.
AcceptedByStatus(records) ==
  ~timedOut /\ returncode = "zero" /\ \E line \in records : records = {line} /\ Whole(line)

\* One record, for _specforge_ingest from a child that exited well or was stopped.
Accepted(records) ==
  /\ ~timedOut
  /\ reader = "exit" => returncode = "zero" \/ doneFirst
  /\ \E line \in records : records = {line} /\ Whole(line)

\* The log is read again, and removed.
Return ==
  /\ point = "final"
  /\ seen' = TerminalRecords
  /\ result' = IF Accepted(TerminalRecords) THEN "accepted" ELSE "refused"
  /\ point' = "ended"
  /\ UNCHANGED <<childVars, timedOut, doneFirst, returncode, reader>>

RecordStep ==
  \/ ReadLog \/ PollChild \/ DeadlinePasses \/ Check \/ Stop
  \/ WaitForChild \/ Kill \/ ChildStays \/ Return

RecordNext == RecordStep \/ ChildStep

\* The probe goes on, and its clock does; the child owes nothing.
RecordFairness == WF_recordVars(RecordStep) /\ SF_recordVars(DeadlinePasses)

RecordSpec == RecordInit /\ [][RecordNext]_recordVars /\ RecordFairness

-----------------------------------------------------------------------------

\* A child is stopped before its time only when its record is complete: what is
\* in the log so far may end in the middle of a record, and only a line that has
\* ended counts.  A worker that writes into the record can spoil it
\* (_run_until_terminal_record).
SignalAfterRecord ==
  point \in {"wait", "wait killed"} /\ ~timedOut =>
    \E line \in TerminalRecords : Whole(line) \/ Mixed(line)

\* A child that has left one whole record in time is accepted, whether it exits, hangs
\* in its shutdown and has to be stopped, or writes the record just before it exits
\* (test_terminal_record_ends_a_child...); one that fails by itself is refused at most
\* where the exit counts.
RecordAccepted ==
  result = "refused" /\ ~timedOut /\ (\E line \in seen : seen = {line} /\ Whole(line)) =>
    reader = "exit" /\ child = "failure"

\* The probe ends, whatever the child does.
RunEnds == <>(point = "ended")

=============================================================================
