# A TLA+ verification of Aurora++

Aurora++ is the control side of a continual speculative-decoding service: a
controller that decides which draft model may serve, a PostgreSQL control record
it must never disagree with, a content-addressed evidence store, an evaluation
side (judge, oracles, promotion rules, data firewall) and probes that drive GPU
servers.  This directory holds TLA+ modules translated from that code, TLC
configurations that check them on small instances, and theorems about them that
the TLA+ proof system checks.

Paths below are relative to the repository; `src/aurorapp/` is the package.

## 1. Inventory

| Component | State it keeps | Operations | What is hard about it | What makes it correct |
|---|---|---|---|---|
| **Controller** `controller.py`, fakes in `simulation.py` | `ControllerState` in memory only; the stored events | `enable`, `recover`, `acquire_fence`, `bootstrap`, `promote`, `fail_learning`, `drain`; rebuild from events | every command is lookup, append, reduce, boundary call, with a crash or a failed call between any two; other writers share the store | memory is the replay of the record; promotions authorized by the record they enter; OFF is recorded only after a moment of rest |
| **Event table** `database.py` `append` | `control_events` | `append`, `load_events`, `get_by_idempotency_key` | a five-statement transaction under an advisory lock; key and sequence computed from reads | gap-free order, one event per key |
| **Promotion tables** `database.py` | `fences`, `active_pointers`, `candidates`, `promotion_actions` | `acquire_fence`, `set_active_pointer`, `record_candidate`, `promote_candidate`, `rollback` | up to six statements, READ COMMITTED, row lock on the fence, `created_at` fixed at transaction start | a transaction acts at once, under the current fence, or not at all; only trusted drafters become active, beside a parent they belong to; a rollback restores what was replaced |
| **Command queue and outbox** `database.py`, used by `cli.py` | `commands`, `outbox` | `enqueue_command`, `pending_outbox` | insert-or-find in two statements | command and outbox row commit together; a returned id has the content asked for |
| **Signed objects** `database.py`, used by `cli.py` | `signed_objects` | `record_signed_object`, `activate_signed_object` | lookup then insert; locks on single rows, row-by-row updates, deadlocks | at most one active version per type |
| **Review queue** `database.py`, `cli.py` `review answer` | `review_queue` | `enqueue_review`, `next_review`, `answer_review` | the decision is checked in one transaction and stored in another | an accepted decision stands |
| **Artifact store** `artifacts.py` | `objects/`, `.staging/` on disk | `stage_bytes`, `commit`, `resolve` | several committers of one content, death between two file operations | published objects are complete, immutable, and published once |
| **Judge client and broker** `judge.py` | request ids, cache | `request`, `wait_for_turn`, `evaluate` | notifications, server requests and answers interleave; deadline; child process | the answer belongs to the request; the turn's own text is returned |
| **Probe supervision** `modal_probe.py` | child process groups, logs, ports | start, wait for health or a terminal record, stop, report | escalation SIGTERM/SIGKILL, parents that die before their children, two services cleaned up in one `finally` | every started group is stopped; a truncated record is never accepted |
| **Evidence and compatibility report** `modal_probe.py` `main`, results in `model_port.py`, `cli.py` `source-compatibility`, ladder in `compatibility.py` | records in the artifact store, result files, the tables of artifacts and reports | measure, judge, publish, write the file; read the files, build the steps, record | files are truncated and rewritten under names an operator chooses; an arm that breaks off half-way still reports; a process dies between store and file | a passed probe measured all it was to measure; a passed step rests on a published record of its own probe |
| **Capture sink** `patches/sglang/.../spec-capture.patch` | tensors under keys in Mooncake | `put_sample`, `_put_tensor` | partial failures while a sample's tensors are written | a sample is consumable only if complete |
| **Data partition** `data.py`; **firewall** `firewall.py` | plan; manifest membership | `build_partition_plan`; `authorize_*` | equivalence classes built incrementally by union-find | rows that share repository, syntax or operations share a partition; sealed and public data reach neither training nor judge |
| **Sampled distribution** `sampled_distribution.py` | none | edit distance, energy of arms, bootstrap, upper quantile | two rows instead of a table, indices into seven matrices, a truncated quantile | the gate passes only what its confidence allows |
| **Promotion gate** `promotion.py`; report and parity checks of `compatibility.py`; **oracles** `oracles.py` | none | decide, verify, compare | precedence of rejections, limits | fail closed |
| **Trainer probes** `scripts/specforge_*_probe.py`, `training_probe.py` | leases on a captured sample; the checkpoint directory and its volume | get, train, write, reload, release, print | the printed record is the signal that stops the script; a container may be lost between two files | an accepted record leaves nothing to do; a checkpoint that is visible is complete |
| **Models and signatures** `models.py`, `canonical.py`, `signatures.py` | none | validate, sign, verify | encoding | assumed by the models: an authorization that reaches a command is genuine |
| **Source, runtime and model-port probes** `source_probe.py`, `sglang_contract.py`, `model_port.py`, `schema.py`, `audit.py`, `observability.py`, `factories.py` | none | read and report | none that a state machine would show | not modelled |
| **Fault simulation** `simulation.py` `DeterministicFaultSimulator` | local variables | `run` | none: it changes its own sets and asserts on them | not modelled |

How they interact.  A controller process reaches the world only through its
event store and its serving boundary; processes meet only in the store.  The
command line enqueues commands, records and activates signed objects, answers
reviews and assembles compatibility evidence from the artifact store, each in
transactions of its own; no transaction touches the tables of two components,
with the exception of command and outbox.  Nothing in the repository consumes
the command queue or calls the promotion tables from the controller yet, so the
components are modelled side by side and meet where the code makes them meet:
`Controller` takes as one step what `EventLog` shows of the append transaction.

## 2. Modules

| Module | Models | Form |
|---|---|---|
| `Controller` | the controller processes, the event store as they see it, the boundary | one action per command (`Enable`, `RecoverCertain`, `Promote...`, `Drain`), one per step inside a call (`LookupAbsent`, `LookupFound`, `AppendEvent`, `RouteCandidate`, `Cleanup`), failures (`CallFails`, `Crash`, `AppendUnacknowledged`) and the rebuild (`Restart`, `Replay`, `Replayed`) |
| `PromotionStore` | what the promotion tables promise: each operation atomic | abstract specification |
| `PromotionTx` | the same operations statement by statement, several sessions, row lock, aborts | detailed specification; `Store == INSTANCE PromotionStore`, shown to implement `Store!Spec` |
| `Session` | connections and the calls they execute | shared by the four table modules |
| `EventLog` | `append` under the advisory lock | state machine |
| `CommandOutbox` | `enqueue_command` | state machine |
| `SignedObjects` | `record_signed_object`, `activate_signed_object` with row locks and deadlocks | state machine |
| `ReviewQueue` | `enqueue_review`, `review answer` | state machine |
| `ArtifactStore` | `stage_bytes`, `commit`, `resolve` as file operations of several processes, with process death and power loss | one action per file operation |
| `ProbeVerdicts` | how each of the thirteen probes judges what its arms gave it | operators |
| `ProbeJudgement` | one run of one probe and its verdict, on whatever its arms have given; extends `ProbeVerdicts` | one action |
| `EvidenceReport` | `main` of the probe program from a measurement to the result file, and `source-compatibility` from the files to the recorded report; extends `ProbeVerdicts` | several runs and reports that share the store and the files, each of which may die |
| `ServingProbe` | the distribution probe: serving arms one after the other, each with a server in a process group of its own | the probe's steps, and external actions of the servers |
| `CaptureServers` | the capture probe: a Mooncake master and a capture server side by side, stopped in one `finally`; extends `ServingProbe` | the same services and cleanup, in another order |
| `TerminalRecord` | `_run_until_terminal_record` and what its two kinds of readers accept | the probe's steps, and external actions of the child |
| `JudgeClient` | one evaluation of the Codex judge over the pipes of its app server | the client's reads, and external actions of the server |
| `CaptureSink` | `put_sample` of the patched server, feature by feature | state machine |
| `DataSplit` | `build_partition_plan` row by row, the assignment of groups, the firewall's three authorizations | state machine; the authorizations are operators |
| `SampleConsumer` | the two scripts that consume a captured sample: ingest, and one optimizer step with checkpoint and reload | the scripts' steps; external actions of the store, the volume and whoever stops the script |
| `SampledDistribution` | edit distance, energy distance, bootstrap and gate | recursive functions over rows, sums of functions, and three actions |
| `ControllerProofs`, `PromotionStoreProofs`, `PromotionTxProofs` | theorems of `Controller`, `PromotionStore`, `PromotionTx` | proofs |
| `TableProofs` | theorems of `EventLog`, `CommandOutbox`, `ReviewQueue` and `SignedObjects` | proofs |
| `ArtifactStoreProofs` | theorems of `ArtifactStore`, `ProbeJudgement` and `EvidenceReport` | proofs |
| `ChildProcessProofs` | theorems of `ServingProbe`, `CaptureServers`, `TerminalRecord` and `JudgeClient` | proofs |
| `TrainingDataProofs` | theorems of `CaptureSink`, `SampleConsumer` and `DataSplit`; induction on the natural numbers | proofs |
| `SampledDistributionProofs` | theorems of `SampledDistribution` | proofs |
| `MCController`, `MCPromotion`, `MCControlStore`, `MCArtifactStore`, `MCChildProcesses`, `MCTrainingData` | small instances | model checking |

Correspondence of state and steps.

- `Controller`.  `log[e]` is `control_events` of one experiment; `state[p]` the
  `ControllerState` of a process; `pc[p]` and `call[p]` say where inside
  `_execute` / `drain` / `bootstrap` / `promote` it is.  `replayed[e]` is a
  history variable: the reduction of every prefix of the log, so that properties
  can speak of "the state in which an event was stored".  A command hash is the
  pair (type, payload), which is what `_command_hash` hashes.  The signature
  checks come before the first store access and change nothing when they fail,
  so a command carries only genuine authorizations.  `serving` and `live` stand
  for the boundary; the repository has only the fake one of `simulation.py`.
  `start_owned_resources` has no condition there and no caller that gives it one, so
  `StartOwnedResources` has none either: workers start at any moment, in any mode,
  and in the middle of a drain.  `rested[e]` is a history variable, read off every
  step by `Observe` from the record and from what runs, whatever the step was: it is
  true when nothing of the experiment was running at some moment after the last
  stored event that left a mode other than OFF desired.
- `PromotionStore` and `PromotionTx`.  The committed rows of one experiment (all
  tables are keyed by it).  `configured` is a history variable: the pairs of
  active and parent drafter that an operator put into the pointer.  In `PromotionTx` the writes of a transaction
  are made in its commit step, because READ COMMITTED shows them to nobody
  earlier; what its statements read is read at the time of the statement.
- The table modules.  A call is one transaction; its writes appear at commit;
  locks last until it ends; a connection may be lost at any point (`Abort`).
  `MCControlStore` extends all four and `PromotionStore`.
- `ArtifactStore`.  `objects[h]` is the directory that `objects/` shows under a
  hash, `own[p]` the staged or moved file and directory of a process, each with
  the parts it has and those that are flushed; a power failure keeps what was
  flushed, and any of the rest.  Contents are model values, and a content's hash
  is the content.  `Alter` is somebody who writes to a file that is staged or
  was moved; `NewBuckets` are the hashes whose bucket directory did not exist.
- `ProbeVerdicts` and `ProbeJudgement`.  An arm is what a server's requests left: whether it was
  healthy and was cleaned up, and the groups of replies that were complete when
  it ended; a reply is its output (one model value for tokens, text and finish
  reason), whether the request passed, and whether drafts were proposed.  A verdict
  is "passed", "failed" or "raised", an exception that nobody catches.  What arms may
  give is a constant of both modules that judge them (`outcomes`, `measurements`), so
  that the proofs are about anything an arm can give and the runs about a part of it.
- `EvidenceReport`.  `run[r]` is a process that measures once and then publishes
  and writes; `file[f]` is a result file, which may be missing, empty between
  truncation and writing, whole, or mixed up by two writers; `draft[v]` is a
  `source-compatibility` command between its reads and its inserts.  The files that
  one behaviour needs are its `menu`; artifacts are named by their content, so a
  published record stands for itself.
- `ServingProbe`.  `process[a][r]` are the leader and one worker of arm `a`'s
  server; the leader is the child that `_start_logged_process` starts in a new
  session.  A worker is forked at any time, with or without the leader's socket,
  the GPU and the group.  `pc` is the place in `_distribution_serving_arm` and
  `_stop_process_group`; a loop with a deadline is left by its condition or at
  any time.  `answered`, `company` and `blind` are history variables: who
  answered, who held the GPU meanwhile, and whose `nvidia-smi` query failed,
  which `_gpu_processes` reports as no process.  The ports of the arms are chosen
  once (`port`, out of the constant `Layouts`).  That a process group number is
  used again within a probe is left out.
- `CaptureServers`.  Services 1 and 2 are the arms of `ServingProbe`; `stopped` is
  what the first cleanup returned.  An exception while the server is stopped ends
  the `finally` block, so that the master is not stopped and nothing passes.
- `SampleConsumer`.  `leases` are the handles the store has lent, `handles` those
  the script's variables hold; `objects` are the checkpoints in the container,
  `committed` those the Modal volume keeps.  A signal ends a script without its
  `finally` block (Python runs none on an unhandled SIGTERM), which is why all that
  matters must precede the record.
- `SampledDistribution`.  Fractions are integers in units (`Units`, a constant) that
  lengths and numbers of pairs divide; the draws of `random.Random` are an input
  (`Draws`), and so are the replies.  `GateAssumption` says what `DistributionSample`
  and the rule's fields guarantee: outputs are not empty, the four arms have
  `ArmSize` replies, and a draw has as many indices into them.
- `TerminalRecord`.  `log` is the file in pieces: a record is a marker, a rest
  and a newline, which the child writes one by one and its worker's lines may cut.
- `JudgeClient`.  `sent` is what the server has written and `position` what the
  client has read of it.  `turn/start` is the third request in the code; its
  number is a constant.  Decoding the returned text, which may raise, is left
  out: a text that is returned here is one that the caller then parses.
- `CaptureSink`.  `stored[f]` names the call that stored a feature.  One
  scheduler process writes, so that calls follow each other.
- `DataSplit`.  A row is its repository, syntax hash and operation hash; parents
  are kept by row number, and `rank` is the order of the row numbers as strings,
  by which `union` keeps one of two roots.

## 3. Runs

| Run | Question | Instance |
|---|---|---|
| `controller` | Do the controller's promises hold for one controller that may crash anywhere and whose calls may fail? | every command in every order, 4 caller keys, up to 5 events, 2 fences, 3 drafters |
| `controller_writers` | Does an experiment store a key once when several writers race? | 3 processes, 2 experiments, shared keys, lost acknowledgements, 2 events per log |
| `controller_retry` | (violation) Is a promotion repeated under its key accepted, as a repeated command is? | 5 events |
| `controller_stale_writer` | (violation) Does a stale fence keep a controller from promoting? | 2 processes on one experiment |
| `controller_lost_ack` | (violation) Is memory equal to the record when a commit's answer is lost? | 4 events |
| `promotion_tx` | Do the interleaved transactions implement the atomic store, and does every call end? | 2 sessions, 6 transactions of every kind, 2 fences |
| `promotion_inverted` | (violation) Does a rollback restore what the last promotion replaced? | 2 sessions, 8 transactions |
| `control_store` | Do the four other tables keep their promises, and does the atomic promotion store over long sequences? | 2 sessions, 5 transactions, connections lost anywhere; 2 drafters, 3 keys, 2 fences |
| `artifacts` | Is what was committed there for good, whole, and committed once? Does a probe pass only what it measured, does a report rest on passed records, and a restored parent on a served candidate? | 2 processes, 2 contents, 2 names, one bucket that is new; failure and death anywhere, power loss, altered files. Every probe, with any outcome of one arm. 2 runs, 2 reports, 2 files, 2 outputs |
| `greedy_parity` | (violation) Is greedy parity shown when the report says so? | 2 runs, the files of target and draft |
| `child_processes` | Is what passes measured alone, and nothing left; is a whole record accepted; is the judge's answer its own; do probes end? | 2 arms on one port, one request each; 2 services on two ports; 2 records and one foreign line; 5 messages, requests up to the second |
| `training_data` | Do stored samples stand and not mix; does the split group what is connected, so that nothing measured on is trained on; does a script that consumes a sample leave nothing behind; is the gate on sampled outputs as confident as it says? | 3 features, 4 calls; every 4 rows over 2 values of each kind; 2 scripts, 5 files of a checkpoint, 2 contents; every two outputs of up to 3 of 2 tokens; 4 arms of 2 out of 3 replies, 3 resamples |

**Bounds, and why they are enough.**

- `controller`: a property of the controller that needs several commands to fail
  needs at most four of them and the repeat of one: activate, seed a drafter,
  promote, revoke.  `MaxKeys` bounds the callers' keys, which are only compared,
  so they are drawn in order.  `MaxEvents` = 5 lets the longest of these stories
  (activation, recovery, bootstrap, promotion, and one more event) fit.  The
  state constraint `OneConcern` keeps the run within minutes: after the first
  event a log, with the command under way, is either about serving (fences, bootstraps, promotions) or about
  the learning side (failures, drains), with enables and recoveries in both.
  The invariants whose proof is listed below hold without this constraint.
- `controller_writers`: two writers of one experiment and one of another, all
  under two keys; the conflict needs a lookup and an append on each side.
- `promotion_tx`: six transactions are enough for a fence, a pointer, a
  candidate, a second fence while a writer is waiting, a promotion and a
  rollback.  `MaxTime` bounds the transactions begun, which also numbers their
  start times.
- `control_store`: five transactions by two sessions: two rows to exist, two
  overlapping calls on them, and one more.  For the promotion tables two
  promotions, a rollback and operator changes in any order; three keys are one more
  than a repeated one needs.  `MCControlStore` is a disjoint sum: a behaviour
  exercises one table.

- `artifacts`: two committers of one content and of two; a third only repeats
  what the second does, since a published directory never changes.  A verdict is
  a function of its arms, and each clause of it looks at one arm or compares two:
  one arm that gave anything beside good ones shows every way to fail.  A record
  that misleads a report needs a run that writes over the file of another, so two
  runs and two files; two reports, because they share their artifacts and the row
  of the report.  The pairs of files are those whose steps depend on each other.
- `child_processes`: a second arm is what a survivor of the first can disturb;
  more arms are more such pairs.  One worker besides the leader is enough for
  every kind of survivor.  Two records tell one from several.  Five messages fit
  two answers, a text and a completion of the own turn and one of another.
  `MaxUnread` = 1 loses nothing, because the client is a function of the order of
  the messages and not of when they arrive; only exits and requests depend on
  time, and they still interleave with every message.  Like `MCControlStore`,
  `MCChildProcesses` is a disjoint sum of four modules that never meet.
- `training_data`: a mixed sample needs three calls (one complete, one that fails
  while it replaces, one that completes what is left).  Four rows are the least
  in which two groups of two are joined by a later row; 8, 9, 10 and 11 are
  ordered differently as strings.  Few = 3 stands for the 20 rows below which
  everything is for training, so that both branches occur.  The consuming scripts
  are sequential and finite: the run has all of their behaviours, with the volume
  committed and the script stopped or lost at every step.  Outputs of three tokens
  have every case of a row (first, inner and last entry, with and without a match).
  Arms of two replies have one pair inside and four across, so that a matrix or an
  index that is exchanged shows; three resamples at 50 percent make the bound the
  middle one of three, so that a place too low or too high shows.  The code has at
  least 24 replies, 400 resamples and 95 percent.

Deadlock is not checked where the bound on transactions, calls or messages, or
the end of a probe, a run or a script lets the system stop (`promotion_*`,
`control_store`, `artifacts`, `greedy_parity`, `child_processes`,
`training_data`); the controller runs leave the test on, but there workers may start at any
moment, so that it can find nothing.

**Fairness.**  `ProbesEnd` assumes that a probe takes its next step when it has one
(weak fairness of `ProbeStep`, and of `CaptureStep` for the capture probe) and that its clock goes on (strong fairness of
`DeadlinePasses`, since the loop of `_run_until_terminal_record` is at its
deadline's test again and again); nothing at all is assumed of a server or a
child, which may hang after SIGKILL.  Every wait of these probes has a timeout,
which is what the property says.  `promotion_tx` has `CallsEnd`, under
weak fairness of each session's next statement (`Fairness`).  The code justifies
it: `_connection` is a context manager, a statement that is not blocked is
executed by the server, and the only thing a statement waits for is the fence
row, whose holder waits for nothing.  A lost connection (`Abort`) is allowed,
never assumed.

## 4. What the violations say

- `controller_retry`: an identical `promote` call, repeated after its event was
  stored, is judged against the state it has produced itself; it becomes a
  rejection of another type and raises `CommandConflictError`
  (`controller.py:213`, `:277`).  Other commands return their first result.
- `controller_stale_writer`: `promote` compares the fencing number with local
  state (`controller.py:211`); a process that has not seen another's
  `acquire_fence` records a promotion with an old number.
- `controller_lost_ack`: when a commit's answer is lost, the event is stored and
  never reduced (`controller.py:298`), not even by the retry.
- `promotion_inverted`: `rollback` orders promotions by `created_at`
  (`database.py:435`), the start of a transaction; one that waited for the fence
  row commits last and sorts first.
- `greedy_parity`: the step `greedy-lossless-parity` is passed as soon as the files
  of both probes name an artifact (`cli.py:320`, `_probe_artifact` at `:434`), also
  of probes that failed and of answers that differ; `verify_greedy_probe_parity`
  (`compatibility.py:94`) would tell and is called by tests only.  The passed step
  is recorded with the detail "one request, fixed server seed, exact token and text
  parity" (`cli.py:323`).

## 5. Theorems

Every safety property that a run checks is stated by a theorem as well: the run
shows it on a small instance, the theorem for every value of the constants (any
number of processes, experiments, drafters, keys, sessions, calls, rows, features,
requests, messages, replies) that satisfies the module's named assumption, which the
run's module evaluates.  Each proof follows the same argument: an inductive
invariant, one step per action, and a temporal step that combines them.

| Theorem | Statement |
|---|---|
| `ControllerProofs!TypeCorrect` | `Spec => []TypeOK` |
| `ControllerProofs!Inductive` | the strengthening below is inductive |
| `ControllerProofs!MemoryIsRecord`, `PromotionsAreAuthorized`, `FencesAlwaysIncrease`, `AuthorityAlwaysSigned` | `Spec => []P` for the controller's safety invariants |
| `ControllerProofs!OffAfterRestHolds` | `Spec => []OffAfterRest` |
| `ControllerProofs!RoutesRecorded` | `Spec => []RoutedIsRecorded`, for one experiment |
| `ControllerProofs!KeysStoredOnce` | `Spec => []KeyStoredOnce`, with any number of writers |
| `PromotionStoreProofs!StoreSafe`, `ActionsAlwaysFenced`, `PointerAlwaysLinked` | the safety invariants of the atomic store (`ActiveIsTrusted`, `ActionsFenced`, `PointerLinked`, and the two below that no run checks) |
| `PromotionTxProofs!TransactionsImplementStore` | `Spec => Store!Spec` |
| `TableProofs!EventsAppendInOrder`, `InsertsAccepted` | the statements of `append` add one event at a time, with the next number and a new key (`AppendsInOrder`), and no constraint refuses them (`InsertAccepted`) |
| `TableProofs!CommandsAlwaysAnnounced`, `AnswersAlwaysStand` | the outbox holds the ids of the committed commands (`CommandsAnnounced`); a returned id stays the id of what was asked for (`AnswersStand`) |
| `TableProofs!DecisionsAlwaysStand` | an accepted decision is in the queue for good (`DecisionsStand`) |
| `TableProofs!OneActiveAlways` | at most one active version per type (`OneActive`) |
| `ArtifactStoreProofs!ArtifactsSafe`, `PublishedAtMostOnce`, `NeverTorn` | `TypeOK`, `ReferencesStand`, `PublishedOnce` and `NothingTorn` |
| `ArtifactStoreProofs!VerdictsAreMeasured` | for all thirteen probes and any outcomes of their arms, "passed" means measured (`PassedIsMeasured`) |
| `ArtifactStoreProofs!ReportsAreGrounded`, `RestoresFollow` | `ReportGrounded` and `RestoreFollowsCandidate`, for any runs, reports, files and measurements |
| `ChildProcessProofs!ProbeSafe`, `PassedLeavesNothing` | `TypeOK`, `MeasuredAlone` and `NothingLeft` of the distribution probe |
| `ChildProcessProofs!CaptureIsClean` | `CaptureLeavesNothing` |
| `ChildProcessProofs!SignalsFollowRecords`, `WholeRecordsAccepted` | `SignalAfterRecord` and `RecordAccepted`, for any number of records and of foreign lines |
| `ChildProcessProofs!AnswersAreOurs` | `AnswerIsOurs`, for any number of messages |
| `TrainingDataProofs!SinkSafe`, `NeverMixed` | `SinkTypeOK`, `ResponseStands` and `NothingMixed` |
| `TrainingDataProofs!CheckpointsAreWhole`, `AcceptedLeavesNothing`, `SamplesAreFreed` | `CheckpointsWhole`, `AcceptedIsComplete` and `SampleFreed` of both scripts |
| `TrainingDataProofs!GroupsConnected` | for any rows in any order, the union-find's groups are the classes that shared values connect (`GroupsAreConnected`) |
| `TrainingDataProofs!UnseenIsMeasured` | what is measured on shares nothing with what is trained on (`MeasuredOnUnseen`) |
| `SampledDistributionProofs!DistancesAreEdits` | for any two outputs the table ends in the least number of edits (`DistanceIsEditDistance`) |
| `SampledDistributionProofs!PassedConfidently` | for any rule, arms and draws, a gate that passes is as confident as the rule says (`PassedIsConfident`) |

- *Controller.*  `StateMatchesRecord` alone is not inductive: the replay of a
  restarting process is compared with a log that may grow, an append reduces an
  event that was computed from an earlier state, and the recorded promotion must
  have been judged in the state it enters.  The strengthening adds `HistoryInv`
  (the history is the reduction of every prefix), `MemoryInv` (a process is a
  prefix of the record, all of it once it runs), `PendingInv` (what a call in
  flight carries still agrees with the record) and `LogInv`.  These theorems
  assume one controller per experiment (`SingleWriter`) and no lost
  acknowledgement; the runs `controller_stale_writer` and `controller_lost_ack`
  show that neither assumption can be dropped.  `KeysStoredOnce` needs neither.
  `OffAfterRestHolds` adds that an experiment whose desired mode is OFF has come to
  rest, also while its mode is FAILED or DRAINING, from where a recovery restores OFF
  (`RestInv`), and that it has with a completion on its way to the store, because
  nothing was stored since the cleanup of that very call (`DrainInv`).  The same two
  assumptions are needed: a second controller may record a recovery between the cleanup
  and the completion, and one that missed the answer of its activation would restore OFF.
  `RoutesRecorded` also assumes one experiment: `get_by_idempotency_key` searches
  every experiment, and with two of them a controller takes the event of another one
  for its own when key, type and payload agree.
- *Event table.*  (`LogInv`)  Whoever has come past the advisory lock holds it, so a key it has
  not found stays absent and the number it has read stays the last one (`ReadsStand`);
  the numbers of an experiment end with the number of its events (`Numbered`).
- *Command queue.*  (`OutboxInv`)  A key that one session is inserting is held by it and
  not yet in the table; a call that has met a conflict and read the row has read the
  command that is there, with the content asked for, until it returns (`FindStands`),
  because a committed command is never changed or removed.
- *Review queue.*  (`ReviewInv`)  A number that was drawn is drawn by nobody else, and no
  row has it before its insert commits; whoever has checked a decision in the first
  transaction has checked it against the question that is in the queue and stays in it
  (`DrawStands`).
- *Atomic promotion store.*  (`StoreInv`)  `PointerLinked` is about the pointer now, and a
  rollback brings back an old one; so the invariant says the same of the pointer
  that every recorded promotion replaced (`ReplacedLinked`, `ReplacedTrusted`), both
  drafters of one action, and that no later step separates them (`LinkStays`).
- *Promotion tables.*  The refinement mapping is the identity on the rows; the
  invariant says what a transaction has read and still holds under its lock.
- *Signed objects.*  (`SignedInv`)  Two activations of one type lock different rows first.  The
  invariant is that of two overlapping ones at least one has the object of the
  other in its snapshot (`OneSeesOther`) and so waits for its row, and that the
  rows a snapshot has missed are inactive.
- *Artifacts.*  What a process has flushed grows with its place in `commit`
  (`Prepared`); two processes never show the same object (`OneOwner`); a visible
  directory that nobody wrote to has all its parts flushed (`Complete`), and a
  reference is to such a one (`Grounded`).
- *Verdicts.*  No induction: an arm that the validators count as complete has all the
  groups of replies that its probe asks for (`PassedIsFull`), and each of the thirteen
  verdicts is a case of its own (`VerdictMeasured`).
- *Evidence.*  (`EvidenceInv`, checked by TLC before it was proved)  A whole file holds a
  record that was published before it was written (`Prober`); a published restore that
  passed names a published candidate that passed, whose answers are its own
  (`Rests`); a report in the making has taken, for each of its steps, nothing or a
  published record of the right probe that passed, and recorded those before the
  report (`Taken`, `DraftGood`).  Nothing leaves the store, so what rested on it still
  does (`StoreGrows`).
- *Serving probe.*  With its leader reaped a server only loses processes (`Fades`,
  shown for every step), so what the cleanup saw empty, closed and free stays so
  (`Cleaned`, `Quiet`), later arms are not started, and an arm before which all
  have passed can only be answered by itself (`Alone`).  The one way in which an
  arm that passed could disturb the next would be a worker that gains a socket or
  the GPU after it was forked, which the assumptions on servers in section 6 exclude.
- *Capture probe.*  (`CaptureInv`)  The same facts of two services: once a cleanup has
  returned clean, its service is over (`ServiceOver`), and neither the other service's
  steps nor the other cleanup revive it.
- *Terminal records.*  (`RecordInv`)  The child's pieces are in the log in order, whatever
  lines come between them (`LogInOrder`); a signal was sent for a deadline or a whole
  record (`StoppedForCause`); records once whole stay whole (`RecordsStay`).
- *Judge.*  (`JudgeInv`)  The text in the client's hands is the last of its own turn in what
  it has read, and messages that are skipped do not change which that is
  (`LastTextSkips`).
- *Captured samples.*  While an answered sample stands, a call that does not
  replace is refused at its first feature (`Refused`); what is there is of a
  completed call or being written (`Grounded`), and what is left of completed
  samples is of one of them (`OneLeft`), since a feature is only put where there
  is none and only a completed call has put them all.

- *Consumers of samples.*  (`ConsumerInv`)  Handles the script holds are leases the store
  has lent (`Lent`), and their record is printed when nothing is left to give back
  (`RecordIsLast`, `GivenBack`); a checkpoint is visible under its name only with all
  its files (`Published`), and an accepted verdict rests on what was printed
  (`VerdictRests`).
- *Data split.*  (`SplitInv`, checked by TLC before it was proved)  Every row's parent has a
  lesser rank or is the row itself, so that each row has one root (`Forest`,
  `RootUnique`); a set that is closed under sharing has all the rows of a root or
  none (`Sound`), and the rows that came with a value are with the last one that had it
  (`LastRows`).  A union lets every root stand or joins two of them (`UnionRoots`,
  `Coarser`).  That the reference, `Reach`, is the least closed set, is proved by
  induction over its rounds.
- *Edit distance.*  The recursive functions have solutions and these are unique
  (`Recursion`, `OneSolution`), so that the table is what its rows say (`TableEntries`).
  An alignment of two prefixes joins their last tokens, or leaves one of them over
  (`LastTokens`), and every alignment of shorter prefixes extends (`PairAdded`,
  `TokenLeftOver`); so by induction over both lengths together every entry is the cost of the
  cheapest alignment (`TableIsLeast`).
- *Gate.*  (`GateInv`)  The sums that are looked up and those of the resampled replies are
  sums of one function (`ResampledMean`, `ResampledExcess`).  Among numbers there is
  one at the place of the bound, and above it are no more than the confidence leaves
  (`QuantileIs`, with `Greatest`).

Induction over data is not available as a theorem of the library here (those take an
operator as a parameter); it is proved as `Induct` from the least counterexample
(`LeastNumber`, from `WFMin` and `NatLessThanWellFounded`), of sets of numbers.

Type invariants, `PromotionsLinked` (a promotion joins a drafter to its recorded
parent) and `ActionKeysUnique` (a key acts once) are stated by these theorems and
need no run of their own.

Only model-checked: the liveness properties `CallsEnd` and `ProbesEnd` (liveness
under fairness and ENABLED are outside the prover).  What the theorems rest on and
do not show: the assumptions on the environment in section 6 (how a database,
a file system, a server or a store outside the repository behaves is part of each
model), and the assumptions on constants that each module names.

## 6. Not modelled, and why

- Signatures, canonical encoding, schemas: pure functions over data that the
  models take as given; an authorization that reaches a command is genuine.
- What lies outside the repository is taken by what the code relies on.  PostgreSQL:
  READ COMMITTED, row and advisory locks, one deadlock victim.  The file system:
  a rename is atomic, what was flushed stays.  SGLang servers: only a leader
  begins to listen, a worker takes the socket and the GPU when it is forked or
  never.  Mooncake: a put under an existing key is refused, a put reported as
  failed has stored nothing; a removal may fail.
- `pending_outbox`, `load_events`, `next_review`: reads.
- Routing to target-only decoding (`route_target_only`): no operation calls it.
- `ROLLED_BACK`: reduced by `reduce_event`, recorded by no operation.
- Source probe, SGLang contract, observability, audit, factories, and in
  `model_port.py` what is not a result's verdict: sequential inspection and numerics.
- `decide_promotion`, `verify_compatibility_report`, `verify_greedy_probe_parity`:
  chains of comparisons on one value, which only tests call.  A model of them would
  repeat the code clause by clause.
- The judge broker: three sequential answers, the one given most often, and a cache
  in memory.  When the three answers differ the winner is the first of a Python set,
  so that processes may disagree (`judge.py:50`); no text promises otherwise.
- The client's deadline in `judge.py`: `readline` blocks on a silent server, so that
  the 120 seconds are looked at only between messages.  The model lets the client
  wait for good and states no liveness for it.
- What the models show and no text of the repository rules out: a worker that starts
  between the cleanup of a drain and its DRAIN_COMPLETED, or later, runs under a
  recorded OFF, since nothing in the repository ties a start to the mode (README: "OFF:
  no GPU work should run" is left to whoever starts workers; `OffAfterRest` says what
  the controller does for it), and from there a drain whose cleanup fails, followed by
  recover(CERTAIN), records OFF again with what is left; a key that two experiments
  share lets one of them act on the event of the other; a rollback under the key of a
  promotion does nothing and says nothing; stopping the capture server may raise and
  leave its Mooncake master (`NotStopped`); two records of one
  signed object race and the slower one fails (`InsertRefused`); two activations may
  deadlock and lose one (`BreakDeadlock`); a commit that fails after its rename has
  published its content and cannot be repeated; a new bucket directory is never
  flushed (`NewBuckets`); a report that dies cannot be made again for the same
  revisions (`BeginReport`); a failure inside `capture_batch` after `store.get` leaves
  its lease, because the script does not know the sample yet (`SampleFreed`).
- The calibration of the statistical gate's power on synthetic arms, and floating
  point.  The sampled-distribution probe's verdict takes the statistics as an input.
- Tensors, gradients and oracles: numerics within tolerances.
- The fault simulator: it manipulates its own local sets and calls none of the
  components it is named after.

## 7. Plan

1. Done: every component that keeps state or runs beside another one, the evidence
   from a probe's arms to the recorded report, the consumers of captured samples and
   the statistical gate; a theorem for every safety property.
2. Proofs that are left: that `Controller`'s atomic append is what `EventLog` shows of
   the transaction, as a refinement of an abstract log shared by both; that
   `activate_signed_object` implements an atomic activation.
3. The power calibration of `sampled_distribution.py`, and the trainer of
   `training_probe.py`, when they keep state that outlives a call.
