--------------------------- MODULE SampleConsumer ---------------------------
(***************************************************************************)
(* The two scripts that consume one captured sample of the Mooncake store. *)
(* The ingest script reads it twice and compares; the optimizer script     *)
(* trains one step on it, publishes a checkpoint and has a fresh process   *)
(* reload it.  A script reports by one record, and the record is its end:  *)
(* the reader stops it as soon as it sees one (TerminalRecord).            *)
(*                                                                         *)
(* External: the store, any call of which may raise, and Modal, which may  *)
(* commit the checkpoint volume at any time and may lose the container.  A *)
(* signal ends a script at once: its finally block does not run.           *)
(***************************************************************************)
EXTENDS Naturals, FiniteSets

CONSTANT Contents        \* what one training step may produce

VARIABLES
    script,        \* which script runs
    at,            \* how far it has come
    exit,          \* how it ended
    ref,           \* whether it knows its sample
    handles,       \* the handles it holds
    released,
    drained,       \* release_drain: no, clean or pending
    sample,        \* the sample in the store
    leases,        \* the handles the store has lent
    dropped,       \* whether the store was told to remove the sample
    broken,        \* history: whether a call of the store has raised
    content,       \* what training produced
    staging,       \* the files of the checkpoint: those written and the one being written
    objects,       \* the published checkpoints, as the container sees them
    committed,     \* those the volume keeps
    record,        \* what the script has printed
    verdict        \* what the reader makes of it

memory == <<ref, handles, released, drained>>
mooncake == <<sample, leases, dropped, broken>>
volume == <<content, staging, objects, committed>>
consumerVars == <<script, at, exit, memory, mooncake, volume, record, verdict>>

\* In the order in which write_checkpoint writes them.
Order == <<"weights", "config", "optimizer", "random_state", "manifest">>
Files == {Order[i] : i \in DOMAIN Order}

\* What a fresh process must find equal to the trained one.
Facets == {"tensors", "execution", "outputs"}

Checkpoint(c) == [name |-> c, files |-> Files]
NothingStaged == [done |-> {}, open |-> {}]
NoRecord == [printed |-> FALSE, good |-> FALSE, equal |-> {}, drained |-> "no"]

ConsumerInit ==
  /\ script \in {"ingest", "optimizer"}
  /\ at = "produce" /\ exit = "none"
  /\ ref = FALSE /\ handles = {} /\ released = FALSE /\ drained = "no"
  /\ sample = "absent" /\ leases = {} /\ dropped = FALSE /\ broken = FALSE
  /\ content \in Contents /\ staging = NothingStaged
  /\ committed \in SUBSET {Checkpoint(c) : c \in Contents} /\ objects = committed
  /\ record = NoRecord /\ verdict = "none"

-----------------------------------------------------------------------------
(* The scripts. *)

Goto(point) == at' = point /\ UNCHANGED <<script, exit, verdict>>

\* The server captures the sample; only the ingest script knows it from here on.
Produce ==
  /\ at = "produce"
  /\ sample' = "stored"
  /\ ref' = (script = "ingest")
  /\ Goto("get")
  /\ UNCHANGED <<handles, released, drained, leases, dropped, broken, volume, record>>

\* A failure, whatever was stored; the ingest script may keep it as its ref.
ProduceFails ==
  /\ at = "produce"
  /\ sample' \in {"absent", "stored"}
  /\ ref' \in {FALSE, script = "ingest"}
  /\ Goto("finally")
  /\ UNCHANGED <<handles, released, drained, leases, dropped, broken, volume, record>>

\* store.get: twice in the ingest script; capture_batch returns its handle at its end.
Get ==
  /\ at = "get"
  /\ LET h == Cardinality(leases) + 1 IN
     /\ leases' = leases \cup {h}
     /\ IF script = "ingest"
          THEN handles' = handles \cup {h} /\ Goto(IF h = 2 THEN "use" ELSE "get")
          ELSE UNCHANGED handles /\ Goto("collate")
  /\ UNCHANGED <<ref, released, drained, sample, dropped, broken, volume, record>>

Collate ==
  /\ at = "collate"
  /\ ref' = TRUE /\ handles' = leases
  /\ Goto("use")
  /\ UNCHANGED <<released, drained, mooncake, volume, record>>

\* The two copies are compared and the tensors described.
Compare ==
  /\ at = "use" /\ script = "ingest"
  /\ \E good \in BOOLEAN : record' = [record EXCEPT !.good = good]
  /\ Goto("release")
  /\ UNCHANGED <<memory, mooncake, volume>>

\* The model is built and takes one step, which may change and learn what it should.
Train ==
  /\ at = "use" /\ script = "optimizer"
  /\ \E good \in BOOLEAN : record' = [record EXCEPT !.good = good]
  /\ Goto("write")
  /\ UNCHANGED <<memory, mooncake, volume>>

\* A file is torn while it is being written.
WriteFile ==
  /\ at = "write"
  /\ \E i \in DOMAIN Order :
       /\ staging.done = {Order[j] : j \in 1 .. (i - 1)}
       /\ staging' = IF staging.open = {} THEN [staging EXCEPT !.open = {Order[i]}]
                                          ELSE [staging EXCEPT !.done = @ \cup {Order[i]}, !.open = {}]
  /\ UNCHANGED <<at, exit, script, memory, mooncake, content, objects, committed, record, verdict>>

\* Mutant of Publishable: the manifest is written after the rename.
PublishableEarly == staging.done \cup {"manifest"} = Files /\ staging.open = {}
Publishable == staging.done = Files

\* The staging directory is renamed to the hash of its manifest.
Publish ==
  /\ at = "write" /\ Publishable
  /\ \A o \in objects : o.name # content
  /\ objects' = objects \cup {[name |-> content, files |-> staging.done]}
  /\ staging' = NothingStaged
  /\ Goto("reload")
  /\ UNCHANGED <<memory, mooncake, content, committed, record>>

AlreadyPublished ==
  /\ at = "write" /\ Publishable
  /\ \E o \in objects : o.name = content
  /\ Goto("finally") /\ UNCHANGED <<memory, mooncake, volume, record>>

\* A fresh process loads the checkpoint and says what it finds equal.
Reload ==
  /\ at = "reload"
  /\ \E equal \in SUBSET Facets : record' = [record EXCEPT !.equal = equal]
  /\ Goto("release")
  /\ UNCHANGED <<memory, mooncake, volume>>

\* Anything may raise before the sample is released.
Raise ==
  /\ at \in {"get", "collate", "use", "write", "reload", "print"}
  /\ Goto("finally")
  /\ UNCHANGED <<memory, mooncake, volume, record>>

ReleaseOne ==
  /\ \E h \in handles :
       /\ \A g \in handles : h <= g
       /\ leases' = leases \ {h} /\ handles' = handles \ {h}
  /\ dropped' = TRUE
  /\ UNCHANGED <<ref, drained, sample, broken, volume, record>>

Release ==
  /\ at = "release"
  /\ ReleaseOne
  /\ released' = (handles' = {})
  /\ Goto(IF handles' = {} THEN "drain" ELSE "release")

\* drain_pending_removals: a sample that is still lent stays.
DrainStore ==
  /\ sample' \in IF dropped /\ leases = {} THEN {"removed", sample} ELSE {sample}
  /\ drained' = IF dropped /\ sample' = "stored" THEN "pending" ELSE "clean"
  /\ UNCHANGED <<ref, handles, released, leases, dropped, broken, volume, record>>

Drain == at = "drain" /\ DrainStore /\ Goto("print")

PrintRecord ==
  /\ at = "print"
  /\ record' = [record EXCEPT !.printed = TRUE, !.drained = drained]
  /\ Goto("finally")
  /\ UNCHANGED <<memory, mooncake, volume>>

\* The sample is known and was not released.
Forgotten == ref /\ ~released

\* A call of the store raises; in the finally block that ends the script.
StoreFails ==
  /\ \/ at \in {"get", "release", "drain"} /\ Goto("finally")
     \/ /\ \/ at = "finally" /\ handles # {}
           \/ at = "abort" /\ Forgotten
           \/ at = "final drain" /\ drained = "no"
        /\ at' = "ended" /\ exit' = "failure" /\ UNCHANGED <<script, verdict>>
  /\ broken' = TRUE
  /\ UNCHANGED <<memory, sample, leases, dropped, volume, record>>

-----------------------------------------------------------------------------
(* The finally blocks. *)

\* Mutant of AfterRelease: the second handle is forgotten.
AfterReleaseOfOne(rest) == IF script = "ingest" THEN "abort" ELSE "final drain"
\* The ingest script goes on to abort, the optimizer script does one or the other.
AfterRelease(rest) ==
  IF rest # {} THEN "finally" ELSE IF script = "ingest" THEN "abort" ELSE "final drain"

FinalRelease ==
  /\ at = "finally" /\ handles # {}
  /\ ReleaseOne
  /\ Goto(AfterRelease(handles'))
  /\ UNCHANGED released

NoRelease ==
  /\ at = "finally" /\ handles = {}
  /\ Goto("abort") /\ UNCHANGED <<memory, mooncake, volume, record>>

Abort ==
  /\ at = "abort"
  /\ dropped' = (dropped \/ Forgotten)
  /\ Goto("final drain")
  /\ UNCHANGED <<memory, sample, leases, broken, volume, record>>

FinalDrain ==
  /\ at = "final drain"
  /\ IF drained = "no" THEN DrainStore ELSE UNCHANGED <<memory, mooncake, volume, record>>
  /\ at' = "ended" /\ exit' = IF record.printed THEN "zero" ELSE "failure"
  /\ UNCHANGED <<script, verdict>>

-----------------------------------------------------------------------------
(* The reader and the container. *)

Stopped == at' = "ended" /\ exit' = "signalled" /\ UNCHANGED <<script, memory, mooncake, volume, record>>

\* Because of a record, or at the deadline, maybe with a record not looked at yet.
StopScript ==
  /\ at # "ended"
  /\ Stopped
  /\ verdict' \in IF record.printed THEN {"none", "refused"} ELSE {"refused"}

ContainerLost == at # "ended" /\ Stopped /\ verdict' = "lost"

OptimizerPassedUndrained == record.printed /\ record.good /\ record.equal = Facets
\* CapturedBatchOptimizerResult.passed.
OptimizerPassed ==
  record.printed /\ record.good /\ record.equal = Facets /\ record.drained = "clean"

\* validate_specforge_ingest_result, of a script that did not fail.
IngestAccepted ==
  /\ record.printed /\ record.good /\ record.drained = "clean"
  /\ exit \in {"zero", "signalled"}

ReadIngest ==
  /\ at = "ended" /\ verdict = "none" /\ script = "ingest"
  /\ verdict' = IF IngestAccepted THEN "accepted" ELSE "refused"
  /\ UNCHANGED <<script, at, exit, memory, mooncake, volume, record>>

\* The volume is committed before a passed result is returned, unless that raises.
ReadOptimizer ==
  /\ at = "ended" /\ verdict = "none" /\ script = "optimizer"
  /\ \/ OptimizerPassed /\ committed' = committed \cup objects /\ verdict' = "accepted"
     \/ UNCHANGED committed /\ verdict' = "refused"
  /\ UNCHANGED <<script, at, exit, memory, mooncake, content, staging, objects, record>>

\* Modal commits by itself.
Sync ==
  /\ verdict \in {"none", "refused"} /\ committed # objects
  /\ committed' = committed \cup objects
  /\ UNCHANGED <<script, at, exit, memory, mooncake, content, staging, objects, record, verdict>>

ConsumerNext ==
  \/ Produce \/ ProduceFails \/ Get \/ Collate \/ Compare \/ Train
  \/ WriteFile \/ Publish \/ AlreadyPublished \/ Reload \/ Raise \/ Release \/ Drain \/ PrintRecord \/ StoreFails
  \/ FinalRelease \/ NoRelease \/ Abort \/ FinalDrain
  \/ StopScript \/ ContainerLost \/ ReadIngest \/ ReadOptimizer \/ Sync

ConsumerSpec == ConsumerInit /\ [][ConsumerNext]_consumerVars

-----------------------------------------------------------------------------

\* A published checkpoint has all its files, wherever the script was stopped and
\* whenever the volume was committed: candidates are served from it by its name
\* (write_checkpoint, "candidate checkpoint must be an immutable checkpoint object").
CheckpointsWhole == \A o \in objects \cup committed : o.files = Files

\* When a record is accepted, the script has been or will be stopped without its
\* finally block, and yet nothing is left to do: the sample is gone from the store,
\* its leases are returned, and the checkpoint that a fresh process found equal is
\* in the committed volume (_specforge_ingest, _captured_batch_optimizer).
AcceptedIsComplete ==
  verdict = "accepted" =>
    /\ sample = "removed" /\ leases = {}
    /\ script = "optimizer" => Checkpoint(content) \in committed /\ record.equal = Facets

\* A script that ends by itself gives back what it knows of, on every path and with
\* either number of handles, unless the store itself fails.  Until capture_batch has
\* returned, the optimizer script knows of nothing (finally blocks).
SampleFreed ==
  exit \in {"zero", "failure"} /\ ~broken /\ ref => leases = {} /\ dropped

=============================================================================
