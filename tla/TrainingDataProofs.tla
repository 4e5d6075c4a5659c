------------------------- MODULE TrainingDataProofs -------------------------
(***************************************************************************)
(* Where training data comes from and goes: a captured sample stands and   *)
(* samples do not mix, for any number of features and calls; a script that *)
(* consumes one gives it back, for anything that it may learn; and the     *)
(* groups of a split are what its rows share, for any rows.                *)
(***************************************************************************)
EXTENDS CaptureSink, SampleConsumer, DataSplit, FiniteSetTheorems, WellFoundedInduction, TLAPS

-----------------------------------------------------------------------------
(* The capture sink *)

Before == 1 .. (feature - 1)

\* A call writes features and nothing else.
InPlace == pc = "put" => feature \in Features

\* What the running call has written is there.
Progress == pc # "idle" => \A f \in Before : stored[f] = samples

\* While a sample stands, a call can replace it or be refused at its first feature.
Refused == pc # "idle" /\ response # Absent => ~replace /\ feature = 1

Fresh ==
  /\ completed \subseteq 1 .. samples
  /\ pc # "idle" => samples # Absent /\ samples \notin completed

\* What is there is of a call that completed, or is being written.
Grounded ==
  \A f \in Features :
    kept \/ stored[f] \in {Absent} \cup completed
      \/ (pc # "idle" /\ f \in Before /\ stored[f] = samples)

\* What is left of completed samples is of one of them.
OneLeft ==
  \A f, g \in Features :
    stored[f] \in completed /\ stored[g] \in completed => stored[f] = stored[g]

SinkInv ==
  /\ SinkTypeOK /\ ResponseStands
  /\ InPlace /\ Progress /\ Refused /\ Fresh /\ Grounded /\ OneLeft

-----------------------------------------------------------------------------

\* Initially nothing is stored.
LEMMA SinkStarts == Init => SinkInv
<1> SUFFICES ASSUME Init PROVE SinkInv
  OBVIOUS
<1>1. SinkTypeOK
  <2>1. stored \in [Features -> {Absent} \cup Calls]
    BY DEF Init
  <2>2. feature \in 1 .. (NFeatures + 1)
    BY SinkAssumption DEF Init
  <2>3. kept \in BOOLEAN /\ replace \in BOOLEAN /\ pc \in {"idle", "remove", "put", "clean"}
    BY DEF Init
  <2>4. /\ samples \in {Absent} \cup Calls /\ response \in {Absent} \cup Calls
        /\ completed \subseteq Calls
    BY DEF Init, Absent
  <2> QED BY <2>1, <2>2, <2>3, <2>4 DEF SinkTypeOK
<1>2. ResponseStands /\ InPlace /\ Progress /\ Refused
  BY DEF Init, ResponseStands, InPlace, Progress, Refused
<1>3. Fresh /\ Grounded /\ OneLeft
  BY DEF Init, Fresh, Grounded, OneLeft, Absent
<1> QED BY <1>1, <1>2, <1>3 DEF SinkInv

\* Removing features leaves the others, and each that is removed is gone or was held.
LEMMA Removing ==
  ASSUME NEW features, Remove(features), SinkTypeOK
  PROVE  /\ stored' \in [Features -> {Absent} \cup Calls]
         /\ kept' \in BOOLEAN /\ (kept => kept')
         /\ \A f \in Features : stored'[f] \in {Absent, stored[f]}
         /\ \A f \in Features \ features : stored'[f] = stored[f]
         /\ \A f \in features \cap Features : stored'[f] = Absent \/ kept'
  BY DEF Remove, SinkTypeOK

\* A call of put_sample begins, with nothing written.
LEMMA PutSampleSafe == SinkInv /\ PutSample => SinkInv'
  BY SinkAssumption DEF PutSample, SinkInv, SinkTypeOK, ResponseStands, InPlace, Progress,
     Refused, Fresh, Grounded, OneLeft, Before, Features, Calls, Absent

\* Only a call that replaces removes what is there.
LEMMA RemoveOldSafe == SinkInv /\ RemoveOld => SinkInv'
<1> SUFFICES ASSUME SinkInv, RemoveOld PROVE SinkInv'
  OBVIOUS
<1>1. CASE replace
  <2>1. Remove({feature})
    BY <1>1 DEF RemoveOld
  <2>2. response = Absent
    BY <1>1 DEF SinkInv, Refused, RemoveOld
  <2> QED
    BY <2>1, <2>2, Removing, SinkAssumption DEF RemoveOld, SinkInv, SinkTypeOK, ResponseStands,
       InPlace, Progress, Refused, Fresh, Grounded, OneLeft, Before, Features, Calls, Absent
<1>2. CASE ~replace
  BY <1>2 DEF RemoveOld, SinkInv, SinkTypeOK, ResponseStands, InPlace, Progress, Refused, Fresh,
     Grounded, OneLeft, Before, Features, Calls, Absent
<1> QED BY <1>1, <1>2

\* A feature is written where nothing was, so no sample stands.
LEMMA PutTensorSafe == SinkInv /\ PutTensor => SinkInv'
<1> SUFFICES ASSUME SinkInv, PutTensor PROVE SinkInv'
  OBVIOUS
<1>1. feature \in Features
  BY DEF SinkInv, PutTensor, InPlace
<1>2. response = Absent
  BY SinkAssumption DEF SinkInv, PutTensor, Refused, ResponseStands, Features
<1> QED
  BY <1>1, <1>2, SinkAssumption DEF PutTensor, SinkInv, SinkTypeOK, ResponseStands, InPlace,
     Progress, Refused, Fresh, Grounded, OneLeft, Before, Features, Calls, Absent

\* A failed call removes what it has written and nothing else.
LEMMA CleanUpSafe == SinkInv /\ CleanUp => SinkInv'
<1> SUFFICES ASSUME SinkInv, CleanUp PROVE SinkInv'
  OBVIOUS
<1>1. Remove(Before)
  BY DEF CleanUp, Written, Before
<1>2. response # Absent => Before = {}
  BY DEF SinkInv, CleanUp, Refused, Before
<1>3. pc' = "idle" /\ UNCHANGED <<samples, replace, feature, response, completed>>
  BY DEF CleanUp
<1>4. SinkTypeOK'
  BY <1>1, <1>3, Removing DEF SinkInv, SinkTypeOK
<1>5. ResponseStands'
  BY <1>1, <1>2, <1>3, Removing DEF SinkInv, ResponseStands
<1>6. Grounded'
  BY <1>1, <1>3, Removing DEF SinkInv, Grounded
<1>7. OneLeft'
  <2>1. Absent \notin completed
    BY DEF SinkInv, SinkTypeOK, Absent, Calls
  <2> QED BY <1>1, <1>3, <2>1, Removing DEF SinkInv, OneLeft
<1> QED
  BY <1>3, <1>4, <1>5, <1>6, <1>7 DEF SinkInv, CleanUp, InPlace, Progress, Refused, Fresh

\* A call that ends well has written every feature.
LEMMA RespondSafe == SinkInv /\ Respond => SinkInv'
<1> SUFFICES ASSUME SinkInv, Respond PROVE SinkInv'
  OBVIOUS
<1>1. \A f \in Features : stored[f] = samples
  BY SinkAssumption DEF SinkInv, Respond, SinkTypeOK, Progress, Before, Features
<1> QED
  BY <1>1, SinkAssumption DEF Respond, SinkInv, SinkTypeOK, ResponseStands, InPlace, Progress,
     Refused, Fresh, Grounded, OneLeft, Before, Features, Calls, Absent

\* Every step keeps the invariant.
LEMMA SinkSteps == SinkInv /\ [Next]_vars => SinkInv'
<1> SUFFICES ASSUME SinkInv, [Next]_vars PROVE SinkInv'
  OBVIOUS
<1>1. CASE PutFails
  BY <1>1 DEF PutFails, SinkInv, SinkTypeOK, ResponseStands, InPlace, Progress, Refused, Fresh,
     Grounded, OneLeft, Before
<1>2. CASE UNCHANGED vars
  BY <1>2 DEF vars, SinkInv, SinkTypeOK, ResponseStands, InPlace, Progress, Refused, Fresh,
     Grounded, OneLeft, Before
<1> QED
  BY <1>1, <1>2, PutSampleSafe, RemoveOldSafe, PutTensorSafe, CleanUpSafe, RespondSafe DEF Next

\* A full set that no failed removal has spoilt is one completed sample.
LEMMA SinkUnmixed == SinkInv => NothingMixed
<1> SUFFICES ASSUME SinkInv, pc = "idle", ~kept, \A f \in Features : stored[f] # Absent
             PROVE  \E call \in completed : \A f \in Features : stored[f] = call
  BY DEF NothingMixed
<1>1. \A f \in Features : stored[f] \in completed
  BY DEF SinkInv, Grounded
<1>2. 1 \in Features
  BY SinkAssumption DEF Features
<1> QED BY <1>1, <1>2 DEF SinkInv, OneLeft

\* For every number of features and calls: a sample that was answered is there with
\* all its features until its client replaces it, and what can be read as a full
\* set is the sample of one call that completed, unless a removal has failed.
THEOREM SinkSafe == Spec => [](SinkTypeOK /\ ResponseStands /\ NothingMixed)
<1>1. SinkInv => SinkTypeOK /\ ResponseStands /\ NothingMixed
  BY SinkUnmixed DEF SinkInv
<1> QED BY <1>1, SinkStarts, SinkSteps, PTL DEF Spec

\* A full set of features never mixes two calls unless a removal has failed.
THEOREM NeverMixed == Spec => []NothingMixed
BY SinkSafe, PTL

-----------------------------------------------------------------------------
(* The scripts that consume a captured sample *)

ConsumerTypes ==
  /\ script \in {"ingest", "optimizer"} /\ drained \in {"no", "clean", "pending"}
  /\ record \in [printed : BOOLEAN, good : BOOLEAN, equal : SUBSET Facets,
                 drained : {"no", "clean", "pending"}]

\* Everything is given back, and the sample is removed if the drain was clean.
GivenBack ==
  /\ handles = {} /\ leases = {} /\ released
  /\ drained # "no" /\ (drained = "clean" => sample = "removed")

\* What is lent is what the script holds, once it knows its sample.
Lent ==
  /\ script = "ingest" \/ ref => leases = handles
  /\ at \in {"get", "collate"} /\ script = "optimizer" => ~ref
  /\ at \in {"use", "write", "reload", "release", "drain", "print"} => leases = handles
  /\ at \in {"get", "collate", "use", "write", "reload", "release", "drain"} => sample = "stored"
  /\ released => dropped

\* What each place rests on.
InTurn ==
  /\ at = "drain" => handles = {} /\ released
  /\ at = "print" => GivenBack
  /\ at \in {"abort", "final drain"} => handles = {}
  /\ at = "final drain" /\ ref => dropped
  /\ exit # "none" => at = "ended"
  /\ exit \in {"zero", "failure"} /\ ~broken /\ ref => handles = {} /\ dropped

\* A record is the end, whatever it says.
RecordIsLast ==
  record.printed =>
    /\ at \in {"finally", "abort", "final drain", "ended"}
    /\ GivenBack /\ drained = record.drained

\* What was found equal is published, and published whole.
Published ==
  /\ CheckpointsWhole
  /\ at = "reload" \/ record.equal # {} => Checkpoint(content) \in objects

VerdictRests ==
  verdict = "accepted" =>
    /\ at = "ended" /\ record.printed /\ record.drained = "clean"
    /\ script = "optimizer" => Checkpoint(content) \in committed /\ record.equal = Facets

ConsumerInv ==
  /\ ConsumerTypes /\ Lent /\ InTurn /\ RecordIsLast /\ Published /\ VerdictRests

LEMMA ConsumerStarts ==
  ConsumerInit => ConsumerInv
<1> SUFFICES ASSUME ConsumerInit PROVE ConsumerInv
  OBVIOUS
<1>1. ConsumerTypes
  BY DEF ConsumerInit, ConsumerTypes, NoRecord
<1>2. Lent /\ InTurn /\ RecordIsLast /\ VerdictRests
  BY DEF ConsumerInit, NoRecord, Lent, InTurn, RecordIsLast, VerdictRests
<1>3. Published
  BY DEF ConsumerInit, NoRecord, Published, CheckpointsWhole, Checkpoint
<1> QED
  BY <1>1, <1>2, <1>3 DEF ConsumerInv

\* The sample is captured and lent.
LEMMA CaptureKeeps ==
  ASSUME ConsumerInv, Produce \/ ProduceFails \/ Get \/ Collate
  PROVE  ConsumerInv'
<1>1. ConsumerTypes'
  BY DEF Produce, ProduceFails, Get, Collate, Goto, ConsumerInv, ConsumerTypes
<1>2. Lent'
  <2>1. CASE Produce
    BY <2>1 DEF Produce, Goto, ConsumerInv, Lent
  <2>2. CASE ProduceFails
    BY <2>2 DEF ProduceFails, Goto, ConsumerInv, Lent
  <2>3. CASE Get
    <3>1. CASE script = "ingest"
      BY <2>3, <3>1 DEF Get, Goto, ConsumerInv, Lent
    <3>2. CASE script = "optimizer"
      BY <2>3, <3>2 DEF Get, Goto, ConsumerInv, Lent
    <3> QED
      BY <3>1, <3>2 DEF ConsumerInv, ConsumerTypes
  <2>4. CASE Collate
    BY <2>4 DEF Collate, Goto, mooncake, ConsumerInv, Lent
  <2> QED
    BY <2>1, <2>2, <2>3, <2>4
<1>3. InTurn'
  BY DEF Produce, ProduceFails, Get, Collate, Goto, ConsumerInv, InTurn
<1>4. RecordIsLast'
  BY DEF Produce, ProduceFails, Get, Collate, ConsumerInv, RecordIsLast
<1>5. Published'
  BY DEF Produce, ProduceFails, Get, Collate, Goto, volume, ConsumerInv, Published, CheckpointsWhole
<1>6. VerdictRests'
  BY DEF Produce, ProduceFails, Get, Collate, Goto, ConsumerInv, VerdictRests
<1> QED
  BY <1>1, <1>2, <1>3, <1>4, <1>5, <1>6 DEF ConsumerInv

\* It is compared, or trained on.
LEMMA UseKeeps ==
  ASSUME ConsumerInv, Compare \/ Train
  PROVE  ConsumerInv'
<1>1. ConsumerTypes'
  BY DEF Compare, Train, Goto, memory, ConsumerInv, ConsumerTypes
<1>2. Lent'
  BY DEF Compare, Train, Goto, memory, mooncake, ConsumerInv, Lent
<1>3. InTurn'
  BY DEF Compare, Train, Goto, ConsumerInv, InTurn
<1>4. RecordIsLast'
  BY DEF Compare, Train, ConsumerInv, ConsumerTypes, RecordIsLast
<1>5. Published'
  BY DEF Compare, Train, Goto, volume, ConsumerInv, ConsumerTypes, Published, CheckpointsWhole
<1>6. VerdictRests'
  BY DEF Compare, Train, Goto, ConsumerInv, VerdictRests
<1> QED
  BY <1>1, <1>2, <1>3, <1>4, <1>5, <1>6 DEF ConsumerInv

\* The checkpoint is written, published and reloaded.
LEMMA CheckpointKeeps ==
  ASSUME ConsumerInv, WriteFile \/ Publish \/ AlreadyPublished \/ Reload
  PROVE  ConsumerInv'
<1>1. ConsumerTypes'
  BY DEF WriteFile, Publish, AlreadyPublished, Reload, Goto, memory, ConsumerInv, ConsumerTypes
<1>2. Lent'
  <2>1. CASE WriteFile
    BY <2>1 DEF WriteFile, memory, mooncake, ConsumerInv, Lent
  <2>2. CASE Publish
    BY <2>2 DEF Publish, Goto, memory, mooncake, ConsumerInv, Lent
  <2>3. CASE AlreadyPublished
    BY <2>3 DEF AlreadyPublished, Goto, memory, mooncake, ConsumerInv, Lent
  <2>4. CASE Reload
    BY <2>4 DEF Reload, Goto, memory, mooncake, ConsumerInv, Lent
  <2> QED
    BY <2>1, <2>2, <2>3, <2>4
<1>3. InTurn'
  BY DEF WriteFile, Publish, AlreadyPublished, Reload, Goto, ConsumerInv, InTurn
<1>4. RecordIsLast'
  BY DEF WriteFile, Publish, AlreadyPublished, Reload, ConsumerInv, ConsumerTypes, RecordIsLast
<1>5. Published'
  <2>1. CASE WriteFile
    BY <2>1 DEF WriteFile, ConsumerInv, Published, CheckpointsWhole
  <2>2. CASE Publish
    BY <2>2 DEF Publish, Publishable, Checkpoint, ConsumerInv, Published, CheckpointsWhole
  <2>3. CASE AlreadyPublished
    BY <2>3 DEF AlreadyPublished, Goto, volume, ConsumerInv, Published, CheckpointsWhole
  <2>4. CASE Reload
    BY <2>4 DEF Reload, volume, ConsumerInv, Published, CheckpointsWhole
  <2> QED
    BY <2>1, <2>2, <2>3, <2>4
<1>6. VerdictRests'
  BY DEF WriteFile, Publish, AlreadyPublished, Reload, Goto, ConsumerInv, VerdictRests
<1> QED
  BY <1>1, <1>2, <1>3, <1>4, <1>5, <1>6 DEF ConsumerInv

\* The sample is released and drained, and the record printed.
LEMMA ReleaseKeeps ==
  ASSUME ConsumerInv, Release \/ Drain \/ PrintRecord
  PROVE  ConsumerInv'
<1>1. ConsumerTypes'
  BY DEF Release, Drain, PrintRecord, Goto, memory, ReleaseOne, DrainStore, ConsumerInv,
         ConsumerTypes
<1>2. Lent'
  BY DEF Release, Drain, PrintRecord, Goto, memory, mooncake, ReleaseOne, DrainStore, ConsumerInv,
         Lent
<1>3. InTurn'
  BY DEF Release, Drain, PrintRecord, Goto, DrainStore, ConsumerInv, Lent, InTurn, GivenBack
<1>4. RecordIsLast'
  BY DEF Release, Drain, PrintRecord, Goto, memory, mooncake, ReleaseOne, DrainStore, ConsumerInv,
         ConsumerTypes, RecordIsLast, GivenBack, InTurn
<1>5. Published'
  BY DEF Release, Drain, PrintRecord, Goto, volume, ReleaseOne, DrainStore, ConsumerInv,
         ConsumerTypes, Published, CheckpointsWhole
<1>6. VerdictRests'
  BY DEF Release, Drain, PrintRecord, Goto, ConsumerInv, VerdictRests
<1> QED
  BY <1>1, <1>2, <1>3, <1>4, <1>5, <1>6 DEF ConsumerInv

\* Something raises, or the store does.
LEMMA FailureKeeps ==
  ASSUME ConsumerInv, Raise \/ StoreFails
  PROVE  ConsumerInv'
<1>1. ConsumerTypes'
  BY DEF Raise, StoreFails, Goto, memory, ConsumerInv, ConsumerTypes
<1>2. Lent'
  <2>1. CASE Raise
    BY <2>1 DEF Raise, Goto, memory, mooncake, ConsumerInv, Lent
  <2>2. CASE StoreFails
    BY <2>2 DEF StoreFails, Goto, memory, ConsumerInv, Lent
  <2> QED
    BY <2>1, <2>2
<1>3. InTurn'
  BY DEF Raise, StoreFails, Goto, ConsumerInv, InTurn
<1>4. RecordIsLast'
  BY DEF Raise, StoreFails, memory, ConsumerInv, RecordIsLast, GivenBack
<1>5. Published'
  BY DEF Raise, StoreFails, Goto, volume, ConsumerInv, Published, CheckpointsWhole
<1>6. VerdictRests'
  BY DEF Raise, StoreFails, Goto, ConsumerInv, VerdictRests
<1> QED
  BY <1>1, <1>2, <1>3, <1>4, <1>5, <1>6 DEF ConsumerInv

\* The finally blocks give back what is left.
LEMMA FinallyKeeps ==
  ASSUME ConsumerInv, FinalRelease \/ NoRelease \/ Abort \/ FinalDrain
  PROVE  ConsumerInv'
<1>1. ConsumerTypes'
  BY DEF FinalRelease, NoRelease, Abort, FinalDrain, Goto, memory, ReleaseOne, DrainStore,
         ConsumerInv, ConsumerTypes
<1>2. Lent'
  BY DEF FinalRelease, NoRelease, Abort, FinalDrain, Goto, memory, mooncake, ReleaseOne,
         AfterRelease, DrainStore, ConsumerInv, Lent
<1>3. InTurn'
  BY DEF FinalRelease, NoRelease, Abort, FinalDrain, Goto, memory, mooncake, ReleaseOne,
         AfterRelease, Forgotten, DrainStore, ConsumerInv, Lent, InTurn
<1>4. RecordIsLast'
  BY DEF FinalRelease, NoRelease, Abort, FinalDrain, Goto, memory, mooncake, ReleaseOne,
         DrainStore, ConsumerInv, RecordIsLast, GivenBack
<1>5. Published'
  <2>1. CASE FinalRelease
    BY <2>1 DEF FinalRelease, Goto, volume, ReleaseOne, AfterRelease, ConsumerInv, Published,
       CheckpointsWhole
  <2>2. CASE NoRelease
    BY <2>2 DEF NoRelease, Goto, volume, ConsumerInv, Published, CheckpointsWhole
  <2>3. CASE Abort
    BY <2>3 DEF Abort, Goto, volume, ConsumerInv, Published, CheckpointsWhole
  <2>4. CASE FinalDrain
    <3>1. UNCHANGED <<content, objects, committed, record>> /\ at' # "reload"
      BY <2>4 DEF FinalDrain, DrainStore, volume
    <3> QED
      BY <3>1 DEF ConsumerInv, Published, CheckpointsWhole
  <2> QED
    BY <2>1, <2>2, <2>3, <2>4
<1>6. VerdictRests'
  BY DEF FinalRelease, NoRelease, Abort, FinalDrain, Goto, ConsumerInv, VerdictRests
<1> QED
  BY <1>1, <1>2, <1>3, <1>4, <1>5, <1>6 DEF ConsumerInv

\* The script is stopped, and its record read.
LEMMA EndKeeps ==
  ASSUME ConsumerInv, StopScript \/ ContainerLost \/ ReadIngest \/ ReadOptimizer \/ Sync
  PROVE  ConsumerInv'
<1>1. ConsumerTypes'
  BY DEF StopScript, ContainerLost, ReadIngest, ReadOptimizer, Sync, memory, Stopped, ConsumerInv,
         ConsumerTypes
<1>2. Lent'
  BY DEF StopScript, ContainerLost, ReadIngest, ReadOptimizer, Sync, memory, mooncake, Stopped,
         ConsumerInv, Lent
<1>3. InTurn'
  <2>1. CASE StopScript
    BY <2>1 DEF StopScript, Stopped, InTurn
  <2>2. CASE ContainerLost
    BY <2>2 DEF ContainerLost, Stopped, InTurn
  <2>3. CASE ReadIngest
    BY <2>3 DEF ReadIngest, memory, mooncake, ConsumerInv, InTurn
  <2>4. CASE ReadOptimizer
    BY <2>4 DEF ReadOptimizer, memory, mooncake, ConsumerInv, InTurn
  <2>5. CASE Sync
    BY <2>5 DEF Sync, memory, mooncake, ConsumerInv, InTurn, GivenBack
  <2> QED
    BY <2>1, <2>2, <2>3, <2>4, <2>5
<1>4. RecordIsLast'
  BY DEF StopScript, ContainerLost, ReadIngest, ReadOptimizer, Sync, memory, mooncake, Stopped,
         ConsumerInv, RecordIsLast, GivenBack
<1>5. Published'
  BY DEF StopScript, ContainerLost, ReadIngest, ReadOptimizer, Sync, volume, Stopped, ConsumerInv,
         Published, CheckpointsWhole
<1>6. VerdictRests'
  <2>1. CASE StopScript
    BY <2>1 DEF StopScript, VerdictRests
  <2>2. CASE ContainerLost
    BY <2>2 DEF ContainerLost, VerdictRests
  <2>3. CASE ReadIngest
    BY <2>3 DEF ReadIngest, IngestAccepted, VerdictRests
  <2>4. CASE ReadOptimizer
    <3>1. verdict' = "accepted" => OptimizerPassed /\ committed' = committed \cup objects
      BY <2>4 DEF ReadOptimizer
    <3>2. UNCHANGED <<at, script, record, content>> /\ at = "ended"
      BY <2>4 DEF ReadOptimizer
    <3>3. OptimizerPassed => Checkpoint(content) \in objects
      BY DEF OptimizerPassed, Facets, ConsumerInv, Published
    <3> QED
      BY <3>1, <3>2, <3>3 DEF OptimizerPassed, VerdictRests
  <2>5. CASE Sync
    BY <2>5 DEF Sync, VerdictRests
  <2> QED
    BY <2>1, <2>2, <2>3, <2>4, <2>5
<1> QED
  BY <1>1, <1>2, <1>3, <1>4, <1>5, <1>6 DEF ConsumerInv

LEMMA ConsumerSteps ==
  ASSUME ConsumerInv, [ConsumerNext]_consumerVars
  PROVE  ConsumerInv'
<1>1. CASE UNCHANGED consumerVars
  <2>1. ConsumerTypes' /\ Lent'
    BY <1>1 DEF consumerVars, memory, mooncake, ConsumerInv, ConsumerTypes, Lent
  <2>2. InTurn'
    BY <1>1 DEF consumerVars, memory, mooncake, ConsumerInv, InTurn, GivenBack
  <2>3. RecordIsLast' /\ Published'
    BY <1>1 DEF consumerVars, memory, mooncake, volume, ConsumerInv, RecordIsLast, GivenBack,
       Published, CheckpointsWhole
  <2>4. VerdictRests'
    BY <1>1 DEF consumerVars, volume, ConsumerInv, VerdictRests
  <2> QED
    BY <2>1, <2>2, <2>3, <2>4 DEF ConsumerInv
<1> QED
  BY <1>1, CaptureKeeps, UseKeeps, CheckpointKeeps, ReleaseKeeps, FailureKeeps, FinallyKeeps,
     EndKeeps
  DEF ConsumerNext

\* Whatever training produces and wherever a script is stopped, a checkpoint that is published
\* or committed has all its files (write_checkpoint).
THEOREM CheckpointsAreWhole ==
  ConsumerSpec => []CheckpointsWhole
<1>1. ConsumerInv => CheckpointsWhole
  BY DEF ConsumerInv, Published
<1> QED
  BY <1>1, ConsumerStarts, ConsumerSteps, PTL DEF ConsumerSpec

\* When a record is accepted, nothing is left to a finally block that may never run: the sample
\* is removed, its leases are returned and the checkpoint is committed (_specforge_ingest,
\* _captured_batch_optimizer).
THEOREM AcceptedLeavesNothing ==
  ConsumerSpec => []AcceptedIsComplete
<1>1. ConsumerInv => AcceptedIsComplete
  BY DEF ConsumerInv, VerdictRests, RecordIsLast, GivenBack, AcceptedIsComplete
<1> QED
  BY <1>1, ConsumerStarts, ConsumerSteps, PTL DEF ConsumerSpec

\* A script that ends by itself has given back the sample it knows of, unless the store failed
\* (the finally blocks).
THEOREM SamplesAreFreed ==
  ConsumerSpec => []SampleFreed
<1>1. ConsumerInv => SampleFreed
  BY DEF ConsumerInv, InTurn, Lent, SampleFreed
<1> QED
  BY <1>1, ConsumerStarts, ConsumerSteps, PTL DEF ConsumerSpec

-----------------------------------------------------------------------------
(* Induction, by the least counterexample *)

LEMMA LeastNumber ==
  ASSUME NEW T \in SUBSET Nat, T # {}
  PROVE  \E n \in T : \A m \in T : n <= m
<1> DEFINE Smaller == {ij \in Nat \X Nat : ij[1] < ij[2]}
<1>1. IsWellFoundedOn(Smaller, Nat)
  <2>1. OpToRel(<, Nat) = Smaller
    BY DEF OpToRel
  <2> QED
    BY <2>1, NatLessThanWellFounded
<1>2. PICK n \in T : \A m \in T : ~(<<m, n>> \in Smaller)
  <2> HIDE DEF Smaller
  <2> QED
    BY <1>1, WFMin
<1>3. \A m \in T : m < n => <<m, n>> \in Smaller
  OBVIOUS
<1> HIDE DEF Smaller
<1>4. \A m \in T : ~(m < n) /\ m \in Nat /\ n \in Nat
  BY <1>2, <1>3
<1> QED
  BY <1>4

LEMMA Induct ==
  ASSUME NEW S, 0 \in S, \A n \in Nat : n \in S => n + 1 \in S
  PROVE  Nat \subseteq S
<1> SUFFICES ASSUME Nat \ S # {} PROVE FALSE
  OBVIOUS
<1>1. PICK n \in Nat \ S : \A m \in Nat \ S : n <= m
  <2>1. Nat \ S \in SUBSET Nat
    OBVIOUS
  <2> QED
    BY <2>1, LeastNumber
<1>2. n # 0 /\ n - 1 \in Nat /\ n - 1 \in S
  BY <1>1
<1> QED
  BY <1>1, <1>2

-----------------------------------------------------------------------------
(* The union-find *)

\* Every row points to itself or to one of less rank.
Forest(p, rows) ==
  /\ rows \subseteq Rows /\ p \in [rows -> rows]
  /\ \A r \in rows : p[r] = r \/ rank[p[r]] < rank[r]

LEMMA LeastRank ==
  ASSUME SplitAssumption, NEW T \in SUBSET Rows, T # {}
  PROVE  \E r \in T : \A q \in T : rank[r] <= rank[q]
<1> DEFINE ranks == {rank[r] : r \in T}
<1>1. ranks \in SUBSET Nat /\ ranks # {}
  <2>1. \A r \in T : rank[r] \in Nat
    BY DEF SplitAssumption
  <2> QED
    BY <2>1
<1>2. PICK n \in ranks : \A m \in ranks : n <= m
  <2> HIDE DEF ranks
  <2> QED
    BY <1>1, LeastNumber
<1> QED
  BY <1>2

\* find ends in what is reached from a row.
LEMMA PathDef ==
  ASSUME NEW D, NEW p \in [D -> D], NEW r \in D
  PROVE  /\ p[r] = r => PathIn(p)[r] = {r}
         /\ p[r] # r => PathIn(p)[r] = {r} \cup PathIn(p)[p[r]]
<1> DEFINE Closed(S) == \A q \in S : p[q] \in S
           Reached(x) == {q \in D : \A S \in SUBSET D : x \in S /\ Closed(S) => q \in S}
           path == [x \in D |-> Reached(x)]
<1>1. DOMAIN p = D /\ \A x \in D : p[x] \in D
  OBVIOUS
<1>2. \A x \in D : x \in Reached(x) /\ Closed(Reached(x)) /\ Reached(x) \subseteq D
  BY <1>1
<1>3. ASSUME NEW x \in D
      PROVE  Reached(x) = IF p[x] = x THEN {x} ELSE {x} \cup Reached(p[x])
  <2>1. CASE p[x] = x
    <3>1. {x} \in SUBSET D /\ Closed({x})
      BY <2>1
    <3>2. Reached(x) \subseteq {x} /\ x \in Reached(x)
      BY <1>2, <3>1
    <3> QED
      BY <2>1, <3>2
  <2>2. CASE p[x] # x
    <3> DEFINE S == {x} \cup Reached(p[x])
    <3>1. p[x] \in Reached(p[x]) /\ Closed(Reached(p[x]))
      BY <1>1, <1>2
    <3>2. S \in SUBSET D /\ Closed(S) /\ x \in S
      BY <1>1, <1>2, <3>1
    <3>3. Reached(x) \subseteq S
      BY <3>2
    <3>4. Reached(p[x]) \subseteq Reached(x)
      BY <1>1, <1>2
    <3> QED
      BY <1>2, <2>2, <3>3, <3>4
  <2> QED
    BY <2>1, <2>2
<1> HIDE DEF Reached
<1>4. path = [x \in DOMAIN p |-> IF p[x] = x THEN {x} ELSE {x} \cup path[p[x]]]
  BY <1>1, <1>3
<1>5. PathIn(p) = CHOOSE f : f = [x \in DOMAIN p |-> IF p[x] = x THEN {x} ELSE {x} \cup f[p[x]]]
  BY DEF PathIn
<1> HIDE DEF path
<1>6. PathIn(p) = [x \in DOMAIN p |-> IF p[x] = x THEN {x} ELSE {x} \cup PathIn(p)[p[x]]]
  BY <1>4, <1>5
<1> QED
  BY <1>1, <1>6

\* Every row reaches one root, of no greater rank.
LEMMA OneRoot ==
  ASSUME SplitAssumption, NEW D, NEW p, Forest(p, D)
  PROVE  \A r \in D : \E root \in D :
           /\ PathIn(p)[r] \subseteq D /\ root \in PathIn(p)[r] /\ p[root] = root
           /\ \A q \in PathIn(p)[r] : p[q] = q => q = root
           /\ rank[root] <= rank[r]
<1> DEFINE Good(r) == \E root \in D :
             /\ PathIn(p)[r] \subseteq D /\ root \in PathIn(p)[r] /\ p[root] = root
             /\ \A q \in PathIn(p)[r] : p[q] = q => q = root
             /\ rank[root] <= rank[r]
           bad == {r \in D : ~Good(r)}
<1>1. /\ p \in [D -> D] /\ D \subseteq Rows
      /\ \A r \in D : p[r] \in D /\ (p[r] = r \/ rank[p[r]] < rank[r])
      /\ \A r \in D : rank[r] \in Nat
  BY DEF Forest, SplitAssumption
<1>2. \A r \in D : /\ p[r] = r => PathIn(p)[r] = {r}
                   /\ p[r] # r => PathIn(p)[r] = {r} \cup PathIn(p)[p[r]]
  <2>1. p \in [D -> D]
    BY <1>1
  <2> QED
    BY <2>1, PathDef
<1>3. SUFFICES ASSUME bad # {} PROVE FALSE
  OBVIOUS
<1>4. PICK r \in bad : \A q \in bad : rank[r] <= rank[q]
  <2>1. bad \subseteq Rows
    BY <1>1
  <2> HIDE DEF bad
  <2> QED
    BY <1>3, <2>1, LeastRank
<1>5. r \in D /\ ~Good(r)
  BY <1>4
<1>6. CASE p[r] = r
  <2>1. PathIn(p)[r] = {r} /\ rank[r] \in Nat
    BY <1>1, <1>2, <1>5, <1>6
  <2>2. PathIn(p)[r] \subseteq D /\ r \in PathIn(p)[r] /\ rank[r] <= rank[r]
        /\ \A q \in PathIn(p)[r] : p[q] = q => q = r
    BY <1>5, <2>1
  <2> QED
    BY <1>5, <1>6, <2>2
<1>7. CASE p[r] # r
  <2>1. p[r] \in D /\ rank[p[r]] < rank[r] /\ rank[p[r]] \in Nat /\ rank[r] \in Nat
    BY <1>1, <1>5, <1>7
  <2>2. p[r] \notin bad
    BY <1>4, <2>1
  <2>3. Good(p[r])
    BY <2>1, <2>2
  <2>4. PICK root \in D :
          /\ PathIn(p)[p[r]] \subseteq D /\ root \in PathIn(p)[p[r]] /\ p[root] = root
          /\ \A q \in PathIn(p)[p[r]] : p[q] = q => q = root
          /\ rank[root] <= rank[p[r]]
    BY <2>3
  <2>5. PathIn(p)[r] = {r} \cup PathIn(p)[p[r]]
    BY <1>2, <1>5, <1>7
  <2>6. rank[root] <= rank[r]
    BY <1>1, <2>1, <2>4
  <2>7. \A q \in PathIn(p)[r] : p[q] = q => q = root
    BY <1>7, <2>4, <2>5
  <2>8. PathIn(p)[r] \subseteq D /\ root \in PathIn(p)[r]
    BY <1>5, <2>4, <2>5
  <2> QED
    BY <1>5, <2>4, <2>6, <2>7, <2>8
<1> QED
  BY <1>6, <1>7

\* What find returns.
LEMMA RootIs ==
  ASSUME SplitAssumption, NEW D, NEW p, Forest(p, D), NEW r \in D
  PROVE  /\ RootIn(p, r) \in D /\ p[RootIn(p, r)] = RootIn(p, r)
         /\ rank[RootIn(p, r)] <= rank[r]
         /\ p[r] = r => RootIn(p, r) = r
         /\ RootIn(p, p[r]) = RootIn(p, r)
         /\ PathIn(p)[r] \subseteq D
<1>1. /\ p \in [D -> D] /\ p[r] \in D
  BY DEF Forest
<1>2. /\ p[r] = r => PathIn(p)[r] = {r}
      /\ p[r] # r => PathIn(p)[r] = {r} \cup PathIn(p)[p[r]]
  BY <1>1, PathDef
<1>3. ASSUME NEW q \in D
      PROVE  /\ RootIn(p, q) \in D /\ p[RootIn(p, q)] = RootIn(p, q)
             /\ rank[RootIn(p, q)] <= rank[q] /\ PathIn(p)[q] \subseteq D
             /\ RootIn(p, q) \in PathIn(p)[q]
             /\ \A root \in PathIn(p)[q] : p[root] = root => RootIn(p, q) = root
  <2>1. PICK root \in D :
          /\ PathIn(p)[q] \subseteq D /\ root \in PathIn(p)[q] /\ p[root] = root
          /\ \A z \in PathIn(p)[q] : p[z] = z => z = root
          /\ rank[root] <= rank[q]
    BY OneRoot
  <2>2. RootIn(p, q) = root
    BY <2>1 DEF RootIn
  <2> QED
    BY <2>1, <2>2
<1>4. p[r] = r => RootIn(p, r) = r
  BY <1>2, <1>3
<1>5. RootIn(p, p[r]) = RootIn(p, r)
  BY <1>1, <1>2, <1>3
<1> QED
  BY <1>3, <1>4, <1>5

\* A function that keeps roots and is the same on a row and its parent is find.
LEMMA RootUnique ==
  ASSUME SplitAssumption, NEW D, NEW p, Forest(p, D), NEW F,
         \A r \in D : (p[r] = r => F[r] = r) /\ F[r] = F[p[r]]
  PROVE  \A r \in D : RootIn(p, r) = F[r]
<1> DEFINE bad == {r \in D : RootIn(p, r) # F[r]}
<1>1. SUFFICES ASSUME bad # {} PROVE FALSE
  OBVIOUS
<1>2. PICK r \in bad : \A q \in bad : rank[r] <= rank[q]
  <2>1. bad \subseteq Rows
    BY DEF Forest
  <2> HIDE DEF bad
  <2> QED
    BY <1>1, <2>1, LeastRank
<1>3. /\ r \in D /\ p[r] \in D /\ rank[r] \in Nat /\ rank[p[r]] \in Nat
      /\ p[r] = r \/ rank[p[r]] < rank[r]
  BY <1>2 DEF Forest, SplitAssumption
<1>4. p[r] # r
  BY <1>2, <1>3, RootIs
<1>5. p[r] \notin bad
  BY <1>2, <1>3, <1>4
<1> QED
  BY <1>2, <1>3, <1>5, RootIs

\* What lies on a path has the same root.
LEMMA PathRoot ==
  ASSUME SplitAssumption, NEW D, NEW p, Forest(p, D)
  PROVE  \A r \in D : \A q \in PathIn(p)[r] : q \in D /\ RootIn(p, q) = RootIn(p, r)
<1> DEFINE bad == {r \in D : ~\A q \in PathIn(p)[r] : q \in D /\ RootIn(p, q) = RootIn(p, r)}
<1>1. SUFFICES ASSUME bad # {} PROVE FALSE
  OBVIOUS
<1>2. PICK r \in bad : \A q \in bad : rank[r] <= rank[q]
  <2>1. bad \subseteq Rows
    BY DEF Forest
  <2> HIDE DEF bad
  <2> QED
    BY <1>1, <2>1, LeastRank
<1>3. /\ r \in D /\ p[r] \in D /\ rank[r] \in Nat /\ rank[p[r]] \in Nat
      /\ p[r] = r \/ rank[p[r]] < rank[r]
  BY <1>2 DEF Forest, SplitAssumption
<1>4. /\ p[r] = r => PathIn(p)[r] = {r}
      /\ p[r] # r => PathIn(p)[r] = {r} \cup PathIn(p)[p[r]]
  <2>1. p \in [D -> D]
    BY DEF Forest
  <2> QED
    BY <1>3, <2>1, PathDef
<1>5. p[r] # r
  BY <1>2, <1>3, <1>4
<1>6. p[r] \notin bad
  BY <1>2, <1>3, <1>5
<1>7. \A q \in PathIn(p)[p[r]] : q \in D /\ RootIn(p, q) = RootIn(p, p[r])
  BY <1>3, <1>6
<1>8. RootIn(p, p[r]) = RootIn(p, r)
  BY <1>3, RootIs
<1> QED
  BY <1>2, <1>3, <1>4, <1>7, <1>8

\* Shortening a path leaves every root.
LEMMA FoundRoots ==
  ASSUME SplitAssumption, NEW D, NEW p, Forest(p, D), NEW r \in D
  PROVE  /\ Forest(Found(p, r), D)
         /\ \A q \in D : RootIn(Found(p, r), q) = RootIn(p, q)
<1> DEFINE f == Found(p, r)
           F == [q \in D |-> RootIn(p, q)]
<1>1. p \in [D -> D] /\ D \subseteq Rows /\ DOMAIN p = D
  BY DEF Forest
<1>2. \A q \in D : f[q] = IF q \in PathIn(p)[r] THEN RootIn(p, r) ELSE p[q]
  BY <1>1 DEF Found
<1>3. \A q \in D : /\ RootIn(p, q) \in D /\ p[RootIn(p, q)] = RootIn(p, q)
                   /\ rank[RootIn(p, q)] <= rank[q]
                   /\ (p[q] = q => RootIn(p, q) = q) /\ RootIn(p, p[q]) = RootIn(p, q)
  BY RootIs
<1>4. \A q \in D : q \in PathIn(p)[r] => RootIn(p, q) = RootIn(p, r)
  BY PathRoot
<1>5. \A q \in D : p[q] \in D /\ rank[q] \in Nat /\ rank[p[q]] \in Nat
                   /\ (p[q] = q \/ rank[p[q]] < rank[q])
  BY DEF Forest, SplitAssumption
<1>6. f \in [D -> D]
  BY <1>1, <1>2, <1>3, <1>5 DEF Found
<1>7. \A q, z \in D : rank[q] = rank[z] => q = z
  BY <1>1 DEF SplitAssumption
<1>8. Forest(f, D)
  <2>1. ASSUME NEW q \in D, f[q] # q PROVE rank[f[q]] < rank[q]
    <3>1. CASE q \in PathIn(p)[r]
      <4>1. f[q] = RootIn(p, q)
        BY <1>2, <1>4, <3>1
      <4>2. rank[f[q]] <= rank[q] /\ f[q] \in D /\ rank[f[q]] \in Nat
        BY <1>3, <1>5, <4>1
      <4> QED
        BY <1>5, <1>7, <2>1, <4>2
    <3>2. CASE q \notin PathIn(p)[r]
      BY <1>2, <1>5, <2>1, <3>2
    <3> QED
      BY <3>1, <3>2
  <2> QED
    BY <1>1, <1>6, <2>1 DEF Forest
<1>9. ASSUME NEW q \in D PROVE (f[q] = q => F[q] = q) /\ F[q] = F[f[q]]
  <2>1. CASE q \in PathIn(p)[r]
    <3>1. f[q] = RootIn(p, q)
      BY <1>2, <1>4, <2>1
    <3>2. RootIn(p, f[q]) = RootIn(p, q) /\ f[q] \in D
      BY <1>3, <3>1
    <3> QED
      BY <3>1, <3>2
  <2>2. CASE q \notin PathIn(p)[r]
    BY <1>2, <1>3, <1>5, <2>2
  <2> QED
    BY <2>1, <2>2
<1>10. \A q \in D : RootIn(f, q) = F[q]
  <2> HIDE DEF f, F
  <2> QED
    BY <1>8, <1>9, RootUnique
<1> QED
  BY <1>8, <1>10

\* union makes one group of two, and leaves the others.
LEMMA UnionRoots ==
  ASSUME SplitAssumption, NEW D, NEW p, Forest(p, D), NEW left \in D, NEW right \in D
  PROVE  /\ Forest(Union(p, left, right), D)
         /\ \A q, z \in D : RootIn(p, q) = RootIn(p, z) =>
              RootIn(Union(p, left, right), q) = RootIn(Union(p, left, right), z)
         /\ RootIn(Union(p, left, right), left) = RootIn(Union(p, left, right), right)
         /\ \A q, z \in D : RootIn(Union(p, left, right), q) = RootIn(Union(p, left, right), z) =>
              \/ RootIn(p, q) = RootIn(p, z)
              \/ RootIn(p, q) = RootIn(p, left) /\ RootIn(p, z) = RootIn(p, right)
              \/ RootIn(p, q) = RootIn(p, right) /\ RootIn(p, z) = RootIn(p, left)
<1> DEFINE l == RootIn(p, left)
           r == RootIn(p, right)
           found == Found(Found(p, left), right)
           u == Union(p, left, right)
<1>1. Forest(found, D) /\ \A q \in D : RootIn(found, q) = RootIn(p, q)
  <2>1. Forest(Found(p, left), D) /\ \A q \in D : RootIn(Found(p, left), q) = RootIn(p, q)
    BY FoundRoots
  <2> QED
    BY <2>1, FoundRoots
<1>2. \A q \in D : /\ RootIn(found, q) \in D /\ found[RootIn(found, q)] = RootIn(found, q)
                   /\ (found[q] = q => RootIn(found, q) = q)
                   /\ RootIn(found, found[q]) = RootIn(found, q)
  <2> HIDE DEF found
  <2> QED
    BY <1>1, RootIs
<1>3. /\ l \in D /\ r \in D /\ found[l] = l /\ found[r] = r
      /\ RootIn(p, l) = l /\ RootIn(p, r) = r
  BY <1>1, <1>2
<1>4. u = CASE l = r -> found
            [] rank[l] < rank[r] -> [found EXCEPT ![r] = l]
            [] rank[r] < rank[l] -> [found EXCEPT ![l] = r]
  BY DEF Union
<1>5. /\ found \in [D -> D] /\ D \subseteq Rows
      /\ \A q \in D : rank[q] \in Nat /\ (found[q] = q \/ rank[found[q]] < rank[q])
  BY <1>1 DEF Forest, SplitAssumption
<1> HIDE DEF found, l, r, u
<1>6. CASE l = r
  <2>1. u = found
    BY <1>3, <1>4, <1>5, <1>6
  <2> QED
    BY <1>1, <1>6, <2>1 DEF u, l, r
<1>7. ASSUME NEW keep \in D, NEW merge \in D, rank[keep] < rank[merge], {keep, merge} = {l, r},
             u = [found EXCEPT ![merge] = keep]
      PROVE  /\ Forest(u, D)
             /\ \A q \in D : RootIn(u, q) = IF RootIn(p, q) = merge THEN keep ELSE RootIn(p, q)
  <2> DEFINE F == [q \in D |-> IF RootIn(p, q) = merge THEN keep ELSE RootIn(p, q)]
  <2>1. \A q \in D : u[q] = IF q = merge THEN keep ELSE found[q]
    BY <1>5, <1>7
  <2>2. u \in [D -> D]
    BY <1>5, <1>7
  <2>3. Forest(u, D)
    BY <1>5, <1>7, <2>1, <2>2 DEF Forest
  <2>4. keep # merge /\ RootIn(p, keep) = keep /\ RootIn(p, merge) = merge
    BY <1>3, <1>5, <1>7
  <2>5. ASSUME NEW q \in D PROVE (u[q] = q => F[q] = q) /\ F[q] = F[u[q]]
    <3>1. CASE q = merge
      BY <2>1, <2>4, <3>1
    <3>2. CASE q # merge
      <4>1. u[q] = found[q] /\ found[q] \in D
        BY <1>5, <2>1, <3>2
      <4>2. RootIn(p, found[q]) = RootIn(p, q) /\ (found[q] = q => RootIn(p, q) = q)
        BY <1>1, <1>2, <4>1
      <4> QED
        BY <3>2, <4>1, <4>2
    <3> QED
      BY <3>1, <3>2
  <2>6. \A q \in D : RootIn(u, q) = F[q]
    <3> HIDE DEF F
    <3> QED
      BY <2>3, <2>5, RootUnique
  <2> QED
    BY <2>3, <2>6
<1>8. CASE rank[l] < rank[r]
  <2>1. u = [found EXCEPT ![r] = l]
    BY <1>3, <1>4, <1>5, <1>8
  <2>2. /\ Forest(u, D)
        /\ \A q \in D : RootIn(u, q) = IF RootIn(p, q) = r THEN l ELSE RootIn(p, q)
    BY <1>3, <1>7, <1>8, <2>1
  <2> QED
    BY <2>2 DEF u, l, r
<1>9. CASE rank[r] < rank[l]
  <2>1. u = [found EXCEPT ![l] = r]
    BY <1>3, <1>4, <1>5, <1>9
  <2>2. r \in D /\ l \in D /\ {r, l} = {l, r}
    BY <1>3
  <2>3. /\ Forest(u, D)
        /\ \A q \in D : RootIn(u, q) = IF RootIn(p, q) = l THEN r ELSE RootIn(p, q)
    BY <1>7, <1>9, <2>1, <2>2
  <2> QED
    BY <2>3 DEF u, l, r
<1> QED
  <2>1. l = r \/ rank[l] < rank[r] \/ rank[r] < rank[l]
    BY <1>3, <1>5 DEF SplitAssumption
  <2> QED
    BY <1>6, <1>8, <1>9, <2>1

-----------------------------------------------------------------------------
(* The plan *)

\* Rows that share something are in it, or none of them.
ShareClosed(S) == \A r \in S, s \in Accepted : Share(r, s) => s \in S

\* The groups are no larger than what is shared.
Sound(p) ==
  \A S \in SUBSET Accepted : ShareClosed(S) =>
    \A q, r \in Accepted : RootIn(p, q) = RootIn(p, r) /\ q \in S => r \in S

\* What is one group stays one.
Coarser(p, new) ==
  \A q, r \in Accepted : RootIn(p, q) = RootIn(p, r) => RootIn(new, q) = RootIn(new, r)

\* The last row with a value is in the group of every row with that value.
LastRows ==
  \A k \in Kinds : \A r \in Accepted \ todo :
    \E q \in Accepted \ todo :
      /\ equivalence[k][keys[r][k]] = {q}
      /\ keys[q][k] = keys[r][k] /\ RootIn(parent, q) = RootIn(parent, r)

SplitTypes ==
  /\ Accepted \subseteq Rows /\ keys \in [Accepted -> [Kinds -> Values]] /\ todo \subseteq Accepted
  /\ equivalence \in [Kinds -> [Values -> SUBSET Accepted]]
  /\ \A k \in Kinds, v \in Values :
       equivalence[k][v] = {} \/ \E q \in Accepted : equivalence[k][v] = {q} /\ keys[q][k] = v

SplitInv ==
  /\ SplitTypes /\ Forest(parent, Accepted) /\ Sound(parent) /\ LastRows
  /\ Assigned =>
       /\ todo = {}
       /\ \A q, r \in Accepted :
            RootIn(parent, q) = RootIn(parent, r) => membership[q] = membership[r]

\* Joining a row to one that shares something with it.
LEMMA UnionSound ==
  ASSUME SplitAssumption, NEW p, Forest(p, Accepted), Sound(p),
         NEW left \in Accepted, NEW right \in Accepted, Share(left, right)
  PROVE  /\ Forest(Union(p, left, right), Accepted) /\ Sound(Union(p, left, right))
         /\ Coarser(p, Union(p, left, right))
         /\ RootIn(Union(p, left, right), left) = RootIn(Union(p, left, right), right)
<1> DEFINE u == Union(p, left, right)
<1>1. /\ Forest(u, Accepted) /\ RootIn(u, left) = RootIn(u, right)
      /\ \A q, r \in Accepted : RootIn(p, q) = RootIn(p, r) => RootIn(u, q) = RootIn(u, r)
      /\ \A q, r \in Accepted : RootIn(u, q) = RootIn(u, r) =>
           \/ RootIn(p, q) = RootIn(p, r)
           \/ RootIn(p, q) = RootIn(p, left) /\ RootIn(p, r) = RootIn(p, right)
           \/ RootIn(p, q) = RootIn(p, right) /\ RootIn(p, r) = RootIn(p, left)
  BY UnionRoots
<1> HIDE DEF u
<1>5. ASSUME NEW S \in SUBSET Accepted, ShareClosed(S),
             NEW q \in Accepted, NEW r \in Accepted, RootIn(u, q) = RootIn(u, r), q \in S
      PROVE  r \in S
  <2>1. left \in S <=> right \in S
    BY <1>5 DEF ShareClosed, Share
  <2>2. \A a, b \in Accepted : RootIn(p, a) = RootIn(p, b) /\ a \in S => b \in S
    BY <1>5 DEF Sound
  <2>3. \/ RootIn(p, q) = RootIn(p, r)
        \/ RootIn(p, q) = RootIn(p, left) /\ RootIn(p, r) = RootIn(p, right)
        \/ RootIn(p, q) = RootIn(p, right) /\ RootIn(p, r) = RootIn(p, left)
    BY <1>1, <1>5
  <2> QED
    BY <1>5, <2>1, <2>2, <2>3
<1>6. Sound(u)
  BY <1>5 DEF Sound
<1>7. Coarser(p, u)
  BY <1>1 DEF Coarser
<1> QED
  BY <1>1, <1>6, <1>7 DEF u

\* A row is joined to the last one with its value.
LEMMA JoinSound ==
  ASSUME SplitAssumption, SplitTypes, NEW p, Forest(p, Accepted), Sound(p),
         NEW r \in Accepted, NEW k \in Kinds
  PROVE  /\ Forest(Join(p, r, k), Accepted) /\ Sound(Join(p, r, k)) /\ Coarser(p, Join(p, r, k))
         /\ \A q \in equivalence[k][keys[r][k]] :
              RootIn(Join(p, r, k), q) = RootIn(Join(p, r, k), r)
<1> DEFINE v == keys[r][k]
<1>1. v \in Values
  BY DEF SplitTypes
<1>2. CASE equivalence[k][v] = {}
  <2>1. Join(p, r, k) = p
    BY <1>2 DEF Join
  <2> QED
    BY <1>2, <2>1 DEF Coarser
<1>3. CASE equivalence[k][v] # {}
  <2>1. PICK q \in Accepted : equivalence[k][v] = {q} /\ keys[q][k] = v
    BY <1>1, <1>3 DEF SplitTypes
  <2>2. Join(p, r, k) = Union(p, q, r)
    BY <1>3, <2>1 DEF Join
  <2>3. Share(q, r)
    BY <2>1 DEF Share
  <2> QED
    BY <2>1, <2>2, <2>3, UnionSound
<1> QED
  BY <1>2, <1>3

\* A row joins the groups of the rows it shares something with.
LEMMA GroupKeeps ==
  ASSUME SplitAssumption, SplitInv, NEW r, GroupRow(r)
  PROVE  SplitInv'
<1> DEFINE p1 == Join(parent, r, "repo")
           p2 == Join(p1, r, "ast")
           p3 == Join(p2, r, "operation-family")
<1>1. /\ r \in todo /\ r \in Accepted /\ todo' = todo \ {r} /\ parent' = p3
      /\ equivalence' = [k \in Kinds |-> [equivalence[k] EXCEPT ![keys[r][k]] = {r}]]
      /\ keys' = keys /\ membership' = membership /\ Accepted' = Accepted
  BY DEF GroupRow, SplitInv, SplitTypes, Accepted
<1>2. /\ SplitTypes /\ Forest(parent, Accepted) /\ Sound(parent) /\ LastRows /\ ~Assigned
  BY <1>1 DEF SplitInv
<1>3. /\ Forest(p1, Accepted) /\ Sound(p1) /\ Coarser(parent, p1)
      /\ \A q \in equivalence["repo"][keys[r]["repo"]] : RootIn(p1, q) = RootIn(p1, r)
  BY <1>1, <1>2, JoinSound DEF Kinds
<1> HIDE DEF p1
<1>4. /\ Forest(p2, Accepted) /\ Sound(p2) /\ Coarser(p1, p2)
      /\ \A q \in equivalence["ast"][keys[r]["ast"]] : RootIn(p2, q) = RootIn(p2, r)
  BY <1>1, <1>2, <1>3, JoinSound DEF Kinds
<1> HIDE DEF p2
<1>5. /\ Forest(p3, Accepted) /\ Sound(p3) /\ Coarser(p2, p3)
      /\ \A q \in equivalence["operation-family"][keys[r]["operation-family"]] :
           RootIn(p3, q) = RootIn(p3, r)
  BY <1>1, <1>2, <1>4, JoinSound DEF Kinds
<1> HIDE DEF p3
<1>6. Coarser(parent, p3)
  BY <1>3, <1>4, <1>5 DEF Coarser
<1>7. \A k \in Kinds : \A q \in equivalence[k][keys[r][k]] : RootIn(p3, q) = RootIn(p3, r)
  <2>1. \A k \in Kinds : \A q \in equivalence[k][keys[r][k]] : q \in Accepted
    BY <1>1, <1>2 DEF SplitTypes
  <2> QED
    BY <1>1, <1>3, <1>4, <1>5, <2>1 DEF Coarser, Kinds
<1>8. \A k \in Kinds : keys[r][k] \in Values
  BY <1>1, <1>2 DEF SplitTypes
<1>9. \A k \in Kinds, v \in Values :
        equivalence'[k][v] = IF v = keys[r][k] THEN {r} ELSE equivalence[k][v]
  BY <1>1, <1>2 DEF SplitTypes
<1>10. SplitTypes'
  <2>1. equivalence' \in [Kinds -> [Values -> SUBSET Accepted]]
    BY <1>1, <1>2, <1>8 DEF SplitTypes
  <2>2. \A k \in Kinds, v \in Values :
          equivalence'[k][v] = {} \/ \E q \in Accepted : equivalence'[k][v] = {q} /\ keys[q][k] = v
    <3> TAKE k \in Kinds, v \in Values
    <3>1. equivalence[k][v] = {} \/ \E q \in Accepted : equivalence[k][v] = {q} /\ keys[q][k] = v
      BY <1>2 DEF SplitTypes
    <3>2. CASE v = keys[r][k]
      BY <1>1, <1>9, <3>2
    <3>3. CASE v # keys[r][k]
      BY <1>9, <3>1, <3>3
    <3> QED
      BY <3>2, <3>3
  <2> QED
    BY <1>1, <1>2, <2>1, <2>2 DEF SplitTypes
<1>11. Forest(parent, Accepted)'
  BY <1>1, <1>5
<1>12. Sound(parent)'
  <2>1. \A S : ShareClosed(S)' <=> ShareClosed(S)
    BY <1>1 DEF ShareClosed, Share
  <2> QED
    BY <1>1, <1>5, <2>1 DEF Sound
<1>13. LastRows'
  <2> SUFFICES ASSUME NEW k \in Kinds, NEW s \in (Accepted \ todo)'
               PROVE  \E q \in (Accepted \ todo)' :
                        /\ equivalence'[k][keys[s][k]'] = {q}
                        /\ keys'[q][k] = keys'[s][k] /\ RootIn(parent', q) = RootIn(parent', s)
    BY DEF LastRows
  <2>1. CASE s = r
    BY <1>1, <1>8, <1>9, <2>1
  <2>2. CASE s # r
    <3>1. s \in Accepted \ todo /\ keys[s][k] \in Values
      BY <1>1, <1>2, <2>2 DEF SplitTypes
    <3>2. PICK q \in Accepted \ todo :
            /\ equivalence[k][keys[s][k]] = {q}
            /\ keys[q][k] = keys[s][k] /\ RootIn(parent, q) = RootIn(parent, s)
      BY <1>2, <3>1 DEF LastRows
    <3>3. RootIn(p3, q) = RootIn(p3, s)
      BY <1>6, <3>1, <3>2 DEF Coarser
    <3>4. CASE keys[s][k] = keys[r][k]
      BY <1>1, <1>7, <1>9, <3>1, <3>2, <3>3, <3>4
    <3>5. CASE keys[s][k] # keys[r][k]
      BY <1>1, <1>9, <3>1, <3>2, <3>3, <3>5
    <3> QED
      BY <3>4, <3>5
  <2> QED
    BY <2>1, <2>2
<1>14. ~Assigned'
  BY <1>1, <1>2 DEF Assigned
<1> QED
  BY <1>10, <1>11, <1>12, <1>13, <1>14 DEF SplitInv

\* A group is assigned as a whole.
LEMMA AssignKeeps ==
  ASSUME SplitInv, AssignPartitions
  PROVE  SplitInv'
<1>1. /\ keys' = keys /\ todo' = todo /\ parent' = parent /\ equivalence' = equivalence
      /\ Accepted' = Accepted /\ todo = {}
  BY DEF AssignPartitions, Accepted
<1>2. SplitTypes' /\ Forest(parent, Accepted)' /\ Sound(parent)' /\ LastRows'
  <2>1. \A S : ShareClosed(S)' <=> ShareClosed(S)
    BY <1>1 DEF ShareClosed, Share
  <2>2. Sound(parent)'
    BY <1>1, <2>1 DEF SplitInv, Sound
  <2>3. LastRows'
    BY <1>1 DEF SplitInv, LastRows
  <2>4. SplitTypes' /\ Forest(parent, Accepted)'
    BY <1>1 DEF SplitInv, SplitTypes
  <2> QED
    BY <2>2, <2>3, <2>4
<1>3. ASSUME NEW q \in Accepted, NEW r \in Accepted, RootIn(parent, q) = RootIn(parent, r)
      PROVE  membership'[q] = membership'[r]
  <2>1. Group(q) = Group(r)
    BY <1>3 DEF Group
  <2> QED
    BY <1>3, <2>1 DEF AssignPartitions
<1> QED
  BY <1>1, <1>2, <1>3 DEF SplitInv

LEMMA SplitStarts ==
  ASSUME SplitAssumption, SplitInit
  PROVE  SplitInv
<1>1. /\ Accepted \subseteq Rows /\ keys \in [Accepted -> [Kinds -> Values]] /\ todo = Accepted
      /\ parent = [r \in Accepted |-> r] /\ equivalence = [k \in Kinds |-> [v \in Values |-> {}]]
      /\ membership = [r \in Accepted |-> "none"]
  BY DEF SplitInit, Accepted
<1>2. Forest(parent, Accepted)
  BY <1>1 DEF Forest
<1>3. \A r \in Accepted : RootIn(parent, r) = r
  BY <1>1, <1>2, RootIs
<1>4. Sound(parent)
  BY <1>3 DEF Sound
<1> QED
  BY <1>1, <1>2, <1>4 DEF SplitInv, SplitTypes, LastRows, Assigned

LEMMA SplitSafe ==
  ASSUME SplitAssumption
  PROVE  SplitSpec => []SplitInv
<1>1. SplitInit => SplitInv
  BY SplitStarts
<1>2. SplitInv /\ [SplitNext]_splitVars => SplitInv'
  <2> SUFFICES ASSUME SplitInv, [SplitNext]_splitVars PROVE SplitInv'
    OBVIOUS
  <2>1. CASE AssignPartitions
    BY <2>1, AssignKeeps
  <2>2. CASE \E r \in Rows : GroupRow(r)
    BY <2>2, GroupKeeps
  <2>3. CASE UNCHANGED splitVars
    <3>1. \A S : ShareClosed(S)' <=> ShareClosed(S)
      BY <2>3 DEF ShareClosed, Share, Accepted, splitVars
    <3> QED
      BY <2>3, <3>1 DEF SplitInv, SplitTypes, Sound, LastRows, Assigned, Accepted, splitVars
  <2> QED
    BY <2>1, <2>2, <2>3 DEF SplitNext
<1> QED
  BY <1>1, <1>2, PTL DEF SplitSpec

\* Rows that share something are in one group.
LEMMA ShareRoots ==
  ASSUME SplitInv, todo = {}, NEW r \in Accepted, NEW s \in Accepted, Share(r, s)
  PROVE  RootIn(parent, r) = RootIn(parent, s)
<1>1. PICK k \in Kinds : keys[r][k] = keys[s][k]
  BY DEF Share
<1>2. \A x \in Accepted : \E q \in Accepted :
        equivalence[k][keys[x][k]] = {q} /\ RootIn(parent, q) = RootIn(parent, x)
  <2>1. \A x \in Accepted \ todo : \E q \in Accepted \ todo :
          /\ equivalence[k][keys[x][k]] = {q}
          /\ keys[q][k] = keys[x][k] /\ RootIn(parent, q) = RootIn(parent, x)
    <3>1. LastRows
      BY DEF SplitInv
    <3> QED
      BY <3>1 DEF LastRows
  <2>2. \A x \in Accepted : x \in Accepted \ todo
    OBVIOUS
  <2> QED
    BY <2>1, <2>2
<1> QED
  BY <1>1, <1>2

\* For any rows, whatever they share and whatever the buckets are: no row of training or of
\* the judge shares anything with one that candidates are measured on (build_partition_plan,
\* DataFirewall).
THEOREM UnseenIsMeasured ==
  ASSUME SplitAssumption
  PROVE  SplitSpec => []MeasuredOnUnseen
<1>1. SplitInv => MeasuredOnUnseen
  <2> SUFFICES ASSUME SplitInv, Assigned,
                      NEW r \in RowsFor(AuthorizeTraining) \cup RowsFor(AuthorizeJudge),
                      NEW s \in RowsFor(AuthorizePromotion), Share(r, s)
               PROVE  FALSE
    BY DEF MeasuredOnUnseen
  <2>1. r \in Accepted /\ membership[r] \in {"train", "evaluator-development"}
    BY DEF RowsFor, AuthorizeTraining, AuthorizeJudge, Trusted
  <2>2. s \in Accepted /\ membership[s] \in {"promotion-same-family", "promotion-unseen-family"}
    BY DEF RowsFor, AuthorizePromotion, Trusted
  <2>3. RootIn(parent, r) = RootIn(parent, s)
    BY <2>1, <2>2, ShareRoots DEF SplitInv
  <2> QED
    BY <2>1, <2>2, <2>3 DEF SplitInv
<1> QED
  BY <1>1, SplitSafe, PTL

\* What is connected to the rows of T by one step.
Closer(T) == {s \in Accepted : s \in T \/ \E r \in T : Share(r, s)}

\* The recursive function of Reach exists.
LEMMA ReachDef ==
  ASSUME NEW n, Cardinality(Rows) \in Nat
  PROVE  \E reach : /\ Reach(n) = reach[Cardinality(Rows)] /\ reach[0] = {n}
                    /\ \A i \in 0 .. Cardinality(Rows) : i # 0 => reach[i] = Closer(reach[i - 1])
<1> DEFINE N == Cardinality(Rows)
<1> DEFINE Solves(g, i) == g = [j \in 0 .. i |-> IF j = 0 THEN {n} ELSE Closer(g[j - 1])]
           solved == {i \in Nat : \E g : Solves(g, i)}
<1>1. 0 \in solved
  <2>1. Solves([j \in 0 .. 0 |-> {n}], 0)
    OBVIOUS
  <2> QED
    BY <2>1
<1>2. ASSUME NEW i \in Nat, i \in solved PROVE i + 1 \in solved
  <2>1. PICK g : Solves(g, i)
    BY <1>2
  <2> DEFINE h == [j \in 0 .. i + 1 |-> IF j = i + 1 THEN Closer(g[i]) ELSE g[j]]
  <2>2. \A j \in 0 .. i + 1 : h[j] = IF j = 0 THEN {n} ELSE Closer(h[j - 1])
    <3>1. ASSUME NEW j \in 0 .. i + 1 PROVE h[j] = IF j = 0 THEN {n} ELSE Closer(h[j - 1])
      <4>1. CASE j = i + 1
        BY <2>1, <4>1
      <4>2. CASE j # i + 1 /\ j # 0
        <5>1. j \in 0 .. i /\ j - 1 \in 0 .. i /\ h[j] = g[j] /\ h[j - 1] = g[j - 1]
          BY <4>2
        <5> QED
          BY <2>1, <4>2, <5>1
      <4>3. CASE j = 0
        BY <2>1, <4>3
      <4> QED
        BY <4>1, <4>2, <4>3
    <3> QED
      BY <3>1
  <2>3. Solves(h, i + 1)
    BY <2>2
  <2> HIDE DEF Solves, h
  <2> QED
    BY <2>3
<1>3. PICK g : Solves(g, N)
  <2> HIDE DEF Solves
  <2>1. Nat \subseteq solved
    <3> HIDE DEF solved
    <3> QED
      BY <1>1, <1>2, Induct
  <2> QED
    BY <2>1
<1> DEFINE reach == CHOOSE g_ : Solves(g_, N)
<1>4. Solves(reach, N)
  BY <1>3
<1>5. Reach(n) = reach[N]
  BY DEF Reach, Closer
<1>6. \A i \in 0 .. N : reach[i] = IF i = 0 THEN {n} ELSE Closer(reach[i - 1])
  BY <1>4
<1> HIDE DEF reach
<1> QED
  BY <1>5, <1>6

\* Reach is the least set with n of which no row shares something with another.
LEMMA ReachIs ==
  ASSUME SplitAssumption, Accepted \subseteq Rows, NEW n \in Accepted
  PROVE  /\ n \in Reach(n) /\ Reach(n) \subseteq Accepted /\ ShareClosed(Reach(n))
         /\ \A S \in SUBSET Accepted : n \in S /\ ShareClosed(S) => Reach(n) \subseteq S
<1>1. IsFiniteSet(Rows) /\ Cardinality(Rows) \in Nat
  BY FS_CardinalityType DEF SplitAssumption
<1>2. PICK reach : /\ Reach(n) = reach[Cardinality(Rows)] /\ reach[0] = {n}
                   /\ \A i \in 0 .. Cardinality(Rows) : i # 0 => reach[i] = Closer(reach[i - 1])
  BY <1>1, ReachDef
<1> DEFINE N == Cardinality(Rows)
<1> DEFINE within == {i \in Nat : i <= N =>
             /\ n \in reach[i] /\ reach[i] \subseteq Accepted
             /\ \A S \in SUBSET Accepted : n \in S /\ ShareClosed(S) => reach[i] \subseteq S}
           growing == {i \in Nat : i <= N =>
             ShareClosed(reach[i]) \/ Cardinality(reach[i]) >= i + 1}
<1>3. ASSUME NEW i \in Nat, i + 1 <= N
      PROVE  i <= N /\ reach[i + 1] = Closer(reach[i])
  <2>1. i + 1 \in 0 .. N /\ i + 1 # 0 /\ (i + 1) - 1 = i
    BY <1>1, <1>3
  <2> QED
    BY <1>1, <1>2, <1>3, <2>1
<1>4. Nat \subseteq within
  <2>1. 0 \in within
    BY <1>2
  <2>2. ASSUME NEW i \in Nat, i \in within, i + 1 <= N
        PROVE  /\ n \in reach[i + 1] /\ reach[i + 1] \subseteq Accepted
               /\ \A S \in SUBSET Accepted : n \in S /\ ShareClosed(S) => reach[i + 1] \subseteq S
    BY <1>3, <2>2 DEF Closer, ShareClosed
  <2>3. ASSUME NEW i \in Nat, i \in within PROVE i + 1 \in within
    BY <2>2, <2>3
  <2> HIDE DEF within
  <2> QED
    BY <2>1, <2>3, Induct
<1>5. \A i \in 0 .. N : /\ n \in reach[i] /\ reach[i] \subseteq Accepted
                        /\ IsFiniteSet(reach[i]) /\ Cardinality(reach[i]) \in Nat
                        /\ Cardinality(reach[i]) <= N
  <2> TAKE i \in 0 .. N
  <2>1. n \in reach[i] /\ reach[i] \subseteq Accepted
    BY <1>1, <1>4
  <2>2. reach[i] \subseteq Rows
    BY <2>1
  <2> QED
    BY <1>1, <2>1, <2>2, FS_Subset, FS_CardinalityType
<1>6. Nat \subseteq growing
  <2>1. 0 \in growing
    <3>1. Cardinality(reach[0]) = 1
      BY <1>2, FS_Singleton
    <3> QED
      BY <3>1
  <2>2. ASSUME NEW i \in Nat, i + 1 <= N, ShareClosed(reach[i])
        PROVE  ShareClosed(reach[i + 1])
    <3>1. reach[i] \subseteq Accepted
      BY <1>1, <1>3, <1>5, <2>2
    <3>2. reach[i + 1] = reach[i]
      BY <1>3, <2>2, <3>1 DEF Closer, ShareClosed
    <3> QED
      BY <2>2, <3>2
  <2>3. ASSUME NEW i \in Nat, i + 1 <= N, ~ShareClosed(reach[i]), Cardinality(reach[i]) >= i + 1
        PROVE  Cardinality(reach[i + 1]) >= i + 2
    <3>1. PICK s \in Accepted : s \notin reach[i] /\ \E r \in reach[i] : Share(r, s)
      BY <2>3 DEF ShareClosed
    <3>2. i \in 0 .. N /\ i + 1 \in 0 .. N
      BY <1>1, <2>3
    <3>3. reach[i] \cup {s} \subseteq reach[i + 1]
      BY <1>3, <1>5, <2>3, <3>1, <3>2 DEF Closer
    <3>4. Cardinality(reach[i] \cup {s}) = Cardinality(reach[i]) + 1
      <4>1. IsFiniteSet(reach[i]) /\ s \notin reach[i]
        BY <1>5, <3>1, <3>2
      <4> QED
        BY <4>1, FS_AddElement
    <3>5. Cardinality(reach[i] \cup {s}) <= Cardinality(reach[i + 1])
      BY <1>5, <3>2, <3>3, FS_Subset
    <3> QED
      BY <1>5, <2>3, <3>2, <3>4, <3>5
  <2>4. ASSUME NEW i \in Nat, i \in growing PROVE i + 1 \in growing
    <3> SUFFICES ASSUME i + 1 <= N
                 PROVE  ShareClosed(reach[i + 1]) \/ Cardinality(reach[i + 1]) >= i + 2
      OBVIOUS
    <3>1. ShareClosed(reach[i]) \/ Cardinality(reach[i]) >= i + 1
      BY <1>3, <2>4
    <3> QED
      BY <2>2, <2>3, <3>1
  <2> HIDE DEF growing
  <2> QED
    BY <2>1, <2>4, Induct
<1>7. ShareClosed(reach[N])
  <2>1. N \in growing /\ N \in 0 .. N
    BY <1>1, <1>6
  <2> QED
    BY <1>1, <1>5, <2>1
<1>8. N \in within
  BY <1>1, <1>4
<1> QED
  BY <1>1, <1>2, <1>7, <1>8

\* For any rows, in whatever order they come: the groups are what the rows' shared values
\* connect, and each is named by its least row (build_partition_plan, _UnionFind).
THEOREM GroupsConnected ==
  ASSUME SplitAssumption
  PROVE  SplitSpec => []GroupsAreConnected
<1>1. SplitInv => GroupsAreConnected
  <2> SUFFICES ASSUME SplitInv, todo = {}, NEW r \in Accepted
               PROVE  /\ Group(r) = Reach(r)
                      /\ \A s \in Group(r) : rank[RootIn(parent, r)] <= rank[s]
    BY DEF GroupsAreConnected
  <2>1. Accepted \subseteq Rows /\ Forest(parent, Accepted) /\ Sound(parent)
    BY DEF SplitInv, SplitTypes
  <2>2. /\ r \in Reach(r) /\ Reach(r) \subseteq Accepted /\ ShareClosed(Reach(r))
        /\ \A S \in SUBSET Accepted : r \in S /\ ShareClosed(S) => Reach(r) \subseteq S
    BY <2>1, ReachIs
  <2>3. Reach(r) \subseteq Group(r)
    <3>1. ShareClosed(Group(r)) /\ Group(r) \in SUBSET Accepted /\ r \in Group(r)
      BY ShareRoots DEF ShareClosed, Group
    <3> QED
      BY <2>2, <3>1
  <2>4. Group(r) \subseteq Reach(r)
    BY <2>1, <2>2 DEF Sound, Group
  <2>5. \A s \in Group(r) : rank[RootIn(parent, r)] <= rank[s]
    BY <2>1, RootIs DEF Group
  <2> QED
    BY <2>3, <2>4, <2>5
<1> QED
  BY <1>1, SplitSafe, PTL

=============================================================================
