--------------------------- MODULE ControllerProofs ---------------------------
(***************************************************************************)
(* Theorems about Controller, for every set of processes, experiments,     *)
(* keys, drafters and every bound.                                         *)
(***************************************************************************)
EXTENDS Controller, TLAPS

\* The constant records the commands are built from are well typed.
LEMMA ConstantRecords ==
  /\ InitialState \in States
  /\ Blank \in Payloads
  /\ NoCall \in Calls
<1>1. InitialState \in States
  BY DEF InitialState, States, Modes
<1>2. Blank \in Payloads
  BY DEF Blank, Payloads, Modes, Reasons
<1>3. NoCall \in Calls
  <2>1. <<1, "">> \in StoredKeys
    <3>1. 1 \in Keys
      BY BoundsAssumption DEF Keys
    <3> QED
      BY <3>1 DEF StoredKeys
  <2> QED
    BY <1>2, <2>1 DEF NoCall, Calls, EventTypes, Continuations
<1> QED
  BY <1>1, <1>2, <1>3

\* reduce_event maps states to states.
LEMMA ReduceType ==
  ASSUME NEW s \in States, NEW ev \in Events
  PROVE  Reduce(s, ev) \in States
<1>1. /\ ev.payload.mode \in Modes /\ ev.fence \in Nat
      /\ ev.payload.drafter \in Drafters \cup {NoDrafter}
      /\ ev.payload.parent \in Drafters \cup {NoDrafter}
      /\ ev.payload.owner \in Owners \cup {NoOwner}
  BY DEF Events, Payloads
<1>2. CASE ev.type = "MODE_REQUESTED"
  BY <1>1, <1>2 DEF Reduce, States, Modes
<1>3. CASE ev.type # "MODE_REQUESTED"
  BY <1>1, <1>3 DEF Reduce, States, Modes
<1> QED
  BY <1>2, <1>3

\* The event a call stores is an event.
LEMMA NewEventType ==
  ASSUME ControlTypes, NEW p \in Procs
  PROVE  NewEvent(p) \in Events
BY DEF ControlTypes, NewEvent, Calls, Events

LEMMA RecordType ==
  ASSUME ControlTypes, NEW e \in Experiments
  PROVE  Record(e) \in States
BY DEF ControlTypes, Record

\* What the append transaction returns is an event.
LEMMA StoredType ==
  ASSUME ControlTypes, NEW p \in Procs
  PROVE  Stored(p) \in Events
<1> DEFINE e == ExperimentOf[p]
<1>1. e \in Experiments
  BY ProcessesAssumption
<1>2. CASE e \in Holders(call[p].key)
  <2>1. PICK i \in DOMAIN log[e] : log[e][i].key = call[p].key
    BY <1>1, <1>2 DEF Holders
  <2>2. PositionOf(e, call[p].key) \in DOMAIN log[e]
    BY <2>1 DEF PositionOf
  <2>3. log[e][PositionOf(e, call[p].key)] \in Events
    BY <1>1, <2>2 DEF ControlTypes
  <2> QED
    BY <1>2, <2>3 DEF Stored
<1>3. CASE e \notin Holders(call[p].key)
  BY <1>3, NewEventType DEF Stored
<1> QED
  BY <1>2, <1>3

\* Returning and continuing leave well-typed program points and calls.
LEMMA ReturnType ==
  ASSUME ControlTypes, NEW p \in Procs, Return(p) \/ Continue(p)
  PROVE  pc' \in [Procs -> ProgramPoints] /\ call' \in [Procs -> Calls]
<1>1. CASE Return(p)
  BY <1>1, ConstantRecords DEF ControlTypes, Return, ProgramPoints, Continuations
<1>2. CASE Continue(p) /\ call[p].next # "idle"
  <2>1. call[p].next \in ProgramPoints
    BY DEF ControlTypes, Calls, ProgramPoints
  <2>2. pc' = [pc EXCEPT ![p] = call[p].next] /\ UNCHANGED call
    BY <1>2 DEF Continue
  <2> QED
    BY <2>1, <2>2 DEF ControlTypes
<1> QED
  BY <1>1, <1>2 DEF Continue

LEMMA SubmitType ==
  ASSUME ControlTypes, NEW p \in Procs, NEW type \in EventTypes, NEW key \in StoredKeys,
         NEW payload \in Payloads, NEW fence \in Nat, NEW next \in Continuations,
         Submit(p, type, key, payload, fence, next)
  PROVE  ControlTypes'
<1>1. call' \in [Procs -> Calls]
  BY DEF ControlTypes, Submit, Calls
<1>2. pc' \in [Procs -> ProgramPoints]
  BY DEF ControlTypes, Submit, ProgramPoints
<1> QED
  BY <1>1, <1>2 DEF ControlTypes, Submit

\* Committing keeps the log and its history in step.
LEMMA CommitType ==
  ASSUME ControlTypes, NEW p \in Procs, Commit(p)
  PROVE  /\ log' \in [Experiments -> Seq(Events)]
         /\ replayed' \in [Experiments -> Seq(States)]
         /\ \A e \in Experiments : Len(replayed'[e]) = Len(log'[e]) + 1
         /\ \A e \in Experiments : Len(log[e]) <= Len(log'[e])
<1> DEFINE e == ExperimentOf[p]
<1>1. e \in Experiments
  BY ProcessesAssumption
<1>2. CASE e \in Holders(call[p].key)
  BY <1>2 DEF Commit, ControlTypes
<1>3. CASE e \notin Holders(call[p].key)
  <2>1. NewEvent(p) \in Events /\ Reduce(Record(e), NewEvent(p)) \in States
    BY <1>1, NewEventType, RecordType, ReduceType
  <2>2. /\ log' = [log EXCEPT ![e] = Append(@, NewEvent(p))]
        /\ replayed' = [replayed EXCEPT ![e] = Append(@, Reduce(Record(e), NewEvent(p)))]
    BY <1>3 DEF Commit
  <2>3. log' \in [Experiments -> Seq(Events)] /\ replayed' \in [Experiments -> Seq(States)]
    BY <1>1, <2>1, <2>2 DEF ControlTypes
  <2>4. ASSUME NEW d \in Experiments
        PROVE  Len(replayed'[d]) = Len(log'[d]) + 1 /\ Len(log[d]) <= Len(log'[d])
    <3>1. CASE d = e
      <4>1. /\ log'[d] = Append(log[d], NewEvent(p))
            /\ replayed'[d] = Append(replayed[d], Reduce(Record(d), NewEvent(p)))
        BY <2>2, <3>1 DEF ControlTypes
      <4>2. log[d] \in Seq(Events) /\ replayed[d] \in Seq(States)
        BY DEF ControlTypes
      <4> QED
        BY <2>1, <3>1, <4>1, <4>2 DEF ControlTypes
    <3>2. CASE d # e
      BY <2>2, <3>2 DEF ControlTypes
    <3> QED
      BY <3>1, <3>2
  <2> QED
    BY <2>3, <2>4
<1> QED
  BY <1>2, <1>3

LEMMA CommandType ==
  ASSUME ControlTypes, NEW p \in Procs, Command(p)
  PROVE  ControlTypes'
<1> USE ConstantRecords
<1>0. state[p] \in States /\ state[p].fence \in Nat
  BY DEF ControlTypes, States
<1>1. PICK k \in Keys :
        \/ Enable(p, k, "shadow") \/ Enable(p, k, "auto-drafter")
        \/ RecoverUncertain(p, k) \/ RecoverCertain(p, k)
        \/ \E o \in Owners : AcquireFence(p, k, o)
        \/ \E b \in Bootstraps : Bootstrap(p, k, b)
        \/ \E a \in Promotions, f \in 0..MaxFence :
             PromoteRejected(p, k, a, f) \/ PromoteAccepted(p, k, a, f)
        \/ FailLearning(p, k)
        \/ Drain(p, k)
  BY DEF Command
<1>2. <<k, "">> \in StoredKeys
  BY DEF StoredKeys
<1>3. ASSUME NEW m \in {"shadow", "auto-drafter"}, Enable(p, k, m)
      PROVE  ControlTypes'
  <2>1. [Blank EXCEPT !.mode = m] \in Payloads
    BY DEF Payloads, Modes
  <2> QED
    BY <1>0, <1>2, <1>3, <2>1, SubmitType DEF Enable, EventTypes, Continuations
<1>4. CASE RecoverUncertain(p, k)
  BY <1>0, <1>2, <1>4, SubmitType DEF RecoverUncertain, EventTypes, Continuations
<1>5. CASE RecoverCertain(p, k)
  <2>1. [Blank EXCEPT !.mode = state[p].desired, !.recovery = TRUE] \in Payloads
    BY <1>0 DEF Payloads, States
  <2> QED
    BY <1>0, <1>2, <1>5, <2>1, SubmitType DEF RecoverCertain, EventTypes, Continuations
<1>6. ASSUME NEW o \in Owners, AcquireFence(p, k, o)
      PROVE  ControlTypes'
  <2> DEFINE n == state[p].fence + 1
  <2>1. n \in Nat
    BY <1>0
  <2>2. Submit(p, "FENCE_ACQUIRED", <<k, "">>, [Blank EXCEPT !.owner = o, !.number = n], n, "idle")
    BY <1>6 DEF AcquireFence
  <2> HIDE DEF n
  <2>3. [Blank EXCEPT !.owner = o, !.number = n] \in Payloads
    BY <2>1 DEF Payloads
  <2> QED
    BY <1>2, <2>1, <2>2, <2>3, SubmitType DEF EventTypes, Continuations
<1>7. ASSUME NEW b \in Bootstraps, Bootstrap(p, k, b)
      PROVE  ControlTypes'
  <2>1. [Blank EXCEPT !.drafter = b.drafter, !.parent = b.parent] \in Payloads
    BY BootstrapsAssumption DEF Payloads
  <2> QED
    BY <1>0, <1>2, <1>7, <2>1, SubmitType DEF Bootstrap, EventTypes, Continuations
<1>8. ASSUME NEW a \in Promotions, NEW f \in 0..MaxFence, PromoteRejected(p, k, a, f)
      PROVE  ControlTypes'
  <2>1. Rejection(p, a, f) \in Reasons
    BY DEF Rejection, Reasons
  <2>2. [Blank EXCEPT !.drafter = a.candidate, !.reason = Rejection(p, a, f)] \in Payloads
    BY <2>1, PromotionsAssumption DEF Payloads
  <2> QED
    BY <1>0, <1>2, <1>8, <2>2, SubmitType DEF PromoteRejected, EventTypes, Continuations
<1>9. ASSUME NEW a \in Promotions, NEW f \in 0..MaxFence, PromoteAccepted(p, k, a, f)
      PROVE  ControlTypes'
  <2>1. [Blank EXCEPT !.drafter = a.candidate, !.parent = a.parent] \in Payloads
    BY PromotionsAssumption DEF Payloads
  <2> QED
    BY <1>0, <1>2, <1>9, <2>1, SubmitType DEF PromoteAccepted, EventTypes, Continuations
<1>10. CASE FailLearning(p, k)
  <2>1. [Blank EXCEPT !.reason = "learner"] \in Payloads
    BY DEF Payloads, Reasons
  <2> QED
    BY <1>0, <1>2, <1>10, <2>1, SubmitType DEF FailLearning, EventTypes, Continuations
<1>11. CASE Drain(p, k)
  <2>1. call' \in [Procs -> Calls]
    BY <1>0, <1>2, <1>11 DEF Drain, ControlTypes, Calls, EventTypes, Continuations
  <2>2. pc' \in [Procs -> ProgramPoints]
    BY <1>11 DEF Drain, ControlTypes, ProgramPoints
  <2> QED
    BY <1>11, <2>1, <2>2 DEF Drain, ControlTypes
<1> QED
  BY <1>1, <1>3, <1>4, <1>5, <1>6, <1>7, <1>8, <1>9, <1>10, <1>11

LEMMA StepType ==
  ASSUME ControlTypes, NEW p \in Procs, Step(p)
  PROVE  ControlTypes'
<1> DEFINE e == ExperimentOf[p]
<1>0. e \in Experiments /\ call[p] \in Calls
  BY ProcessesAssumption DEF ControlTypes
<1>1. CASE LookupAbsent(p)
  <2>1. <<call[p].key[1], "start">> \in StoredKeys
    BY <1>0 DEF Calls, StoredKeys
  <2>2. call' \in [Procs -> Calls] /\ pc' \in [Procs -> ProgramPoints]
    <3>1. CASE pc[p] = "lookup"
      BY <1>1, <3>1 DEF LookupAbsent, ControlTypes, ProgramPoints
    <3>2. CASE pc[p] = "drain"
      <4>1. [call[p] EXCEPT !.type = "DRAIN_STARTED", !.key = <<call[p].key[1], "start">>,
                            !.next = "cleanup"] \in Calls
        BY <1>0, <2>1 DEF Calls, EventTypes, Continuations
      <4>2. call' = [call EXCEPT ![p] =
                       [call[p] EXCEPT !.type = "DRAIN_STARTED",
                                       !.key = <<call[p].key[1], "start">>, !.next = "cleanup"]]
        BY <1>1, <3>2 DEF LookupAbsent, ControlTypes
      <4>3. pc' = [pc EXCEPT ![p] = "lookup"]
        BY <1>1, <3>2 DEF LookupAbsent
      <4> QED
        BY <4>1, <4>2, <4>3 DEF ControlTypes, ProgramPoints
    <3> QED
      BY <1>1, <3>1, <3>2 DEF LookupAbsent
  <2> QED
    BY <1>1, <2>2 DEF LookupAbsent, ControlTypes
<1>2. CASE LookupFound(p)
  <2>1. call' \in [Procs -> Calls] /\ pc' \in [Procs -> ProgramPoints]
    BY <1>2, ReturnType DEF LookupFound, ControlTypes, ProgramPoints
  <2> QED
    BY <1>2, <2>1 DEF LookupFound, ControlTypes
<1>3. CASE LookupAmbiguous(p)
  BY <1>3, ReturnType DEF LookupAmbiguous, ControlTypes
<1>4. CASE RaiseConflict(p)
  BY <1>4, ReturnType DEF RaiseConflict, ControlTypes
<1>5. CASE AppendEvent(p)
  <2>1. state' \in [Procs -> States]
    BY <1>5, StoredType, ReduceType DEF AppendEvent, ControlTypes
  <2>2. \A q \in Procs : cursor'[q] <= fetched'[q] /\ fetched'[q] <= Len(log'[ExperimentOf[q]])
    <3>1. \A q \in Procs : /\ fetched[q] \in Nat /\ ExperimentOf[q] \in Experiments
                          /\ Len(log[ExperimentOf[q]]) \in Nat
                          /\ Len(log'[ExperimentOf[q]]) \in Nat
      <4> SUFFICES ASSUME NEW q \in Procs
                   PROVE  /\ fetched[q] \in Nat /\ ExperimentOf[q] \in Experiments
                          /\ Len(log[ExperimentOf[q]]) \in Nat
                          /\ Len(log'[ExperimentOf[q]]) \in Nat
        OBVIOUS
      <4>1. ExperimentOf[q] \in Experiments
        BY ProcessesAssumption
      <4>2. log[ExperimentOf[q]] \in Seq(Events) /\ log'[ExperimentOf[q]] \in Seq(Events)
        BY <1>5, <4>1, CommitType DEF AppendEvent, ControlTypes
      <4> QED
        BY <4>1, <4>2 DEF ControlTypes
    <3>2. /\ \A d \in Experiments : Len(log[d]) <= Len(log'[d])
          /\ \A q \in Procs : cursor'[q] = cursor[q] /\ fetched'[q] = fetched[q]
      BY <1>5, CommitType DEF AppendEvent
    <3>3. \A q \in Procs : cursor[q] <= fetched[q] /\ fetched[q] <= Len(log[ExperimentOf[q]])
      BY DEF ControlTypes
    <3> QED
      BY <3>1, <3>2, <3>3
  <2> QED
    BY <1>5, <2>1, <2>2, CommitType, ReturnType DEF AppendEvent, ControlTypes
<1>6. CASE AppendUnacknowledged(p)
  <2>1. \A q \in Procs : cursor'[q] <= fetched'[q] /\ fetched'[q] <= Len(log'[ExperimentOf[q]])
    <3>1. \A q \in Procs : /\ fetched[q] \in Nat /\ ExperimentOf[q] \in Experiments
                          /\ Len(log[ExperimentOf[q]]) \in Nat
                          /\ Len(log'[ExperimentOf[q]]) \in Nat
      <4> SUFFICES ASSUME NEW q \in Procs
                   PROVE  /\ fetched[q] \in Nat /\ ExperimentOf[q] \in Experiments
                          /\ Len(log[ExperimentOf[q]]) \in Nat
                          /\ Len(log'[ExperimentOf[q]]) \in Nat
        OBVIOUS
      <4>1. ExperimentOf[q] \in Experiments
        BY ProcessesAssumption
      <4>2. log[ExperimentOf[q]] \in Seq(Events) /\ log'[ExperimentOf[q]] \in Seq(Events)
        BY <1>6, <4>1, CommitType DEF AppendUnacknowledged, ControlTypes
      <4> QED
        BY <4>1, <4>2 DEF ControlTypes
    <3>2. /\ \A d \in Experiments : Len(log[d]) <= Len(log'[d])
          /\ \A q \in Procs : cursor'[q] = cursor[q] /\ fetched'[q] = fetched[q]
      BY <1>6, CommitType DEF AppendUnacknowledged
    <3>3. \A q \in Procs : cursor[q] <= fetched[q] /\ fetched[q] <= Len(log[ExperimentOf[q]])
      BY DEF ControlTypes
    <3> QED
      BY <3>1, <3>2, <3>3
  <2> QED
    BY <1>6, <2>1, CommitType, ReturnType DEF AppendUnacknowledged, ControlTypes
<1>7. CASE RouteDrafter(p)
  <2>1. serving' \in [Experiments -> Serving]
    BY <1>0, <1>7 DEF RouteDrafter, ControlTypes, Serving
  <2> QED
    BY <1>7, <2>1, ReturnType DEF RouteDrafter, ControlTypes
<1>8. CASE RouteCandidate(p)
  <2>1. serving' \in [Experiments -> Serving]
    BY <1>0, <1>8 DEF RouteCandidate, ControlTypes, Serving, Calls, Payloads
  <2> QED
    BY <1>8, <2>1, ReturnType DEF RouteCandidate, ControlTypes
<1>9. CASE Cleanup(p)
  <2>1. PICK left \in SUBSET live[e] :
          /\ live' = [live EXCEPT ![e] = left]
          /\ call' = [call EXCEPT ![p] =
               IF left = {}
               THEN [@ EXCEPT !.type = "DRAIN_COMPLETED", !.key = <<call[p].key[1], "">>,
                              !.next = "idle"]
               ELSE [@ EXCEPT !.type = "LEARNING_FAILED",
                              !.key = <<call[p].key[1], "cleanup-failed">>,
                              !.payload.resources = left, !.next = "idle"]]
    BY <1>9 DEF Cleanup
  <2>2. live' \in [Experiments -> SUBSET Resources] /\ left \in SUBSET Resources
    BY <1>0, <2>1 DEF ControlTypes
  <2>3. /\ <<call[p].key[1], "">> \in StoredKeys
        /\ <<call[p].key[1], "cleanup-failed">> \in StoredKeys
    BY <1>0 DEF Calls, StoredKeys
  <2>4. [call[p].payload EXCEPT !.resources = left] \in Payloads
    BY <1>0, <2>2 DEF Calls, Payloads
  <2>5. call' \in [Procs -> Calls]
    <3>1. [call[p] EXCEPT !.type = "DRAIN_COMPLETED", !.key = <<call[p].key[1], "">>,
                          !.next = "idle"] \in Calls
      BY <1>0, <2>3 DEF Calls, EventTypes, Continuations
    <3>2. [call[p] EXCEPT !.type = "LEARNING_FAILED",
                          !.key = <<call[p].key[1], "cleanup-failed">>,
                          !.payload.resources = left, !.next = "idle"] \in Calls
      BY <1>0, <2>3, <2>4 DEF Calls, EventTypes, Continuations
    <3> QED
      BY <2>1, <3>1, <3>2 DEF ControlTypes
  <2>6. pc' \in [Procs -> ProgramPoints]
    BY <1>9 DEF Cleanup, ControlTypes, ProgramPoints
  <2> QED
    BY <1>9, <2>2, <2>5, <2>6 DEF Cleanup, ControlTypes
<1>10. CASE CallFails(p)
  BY <1>10, ReturnType DEF CallFails, ControlTypes
<1>11. CASE Crash(p)
  BY <1>11, ConstantRecords DEF Crash, ControlTypes, ProgramPoints
<1>12. CASE Restart(p)
  <2>1. /\ fetched' = [fetched EXCEPT ![p] = Len(log[e])] /\ Len(log[e]) \in Nat
        /\ pc' = [pc EXCEPT ![p] = "replay"]
        /\ UNCHANGED <<log, replayed, state, call, cursor, serving, live>>
    BY <1>0, <1>12 DEF Restart, ControlTypes
  <2>2. cursor[p] \in Nat /\ fetched[p] \in Nat /\ cursor[p] <= fetched[p] /\ fetched[p] <= Len(log[e])
    BY DEF ControlTypes
  <2>3. \A q \in Procs : cursor'[q] <= fetched'[q] /\ fetched'[q] <= Len(log'[ExperimentOf[q]])
    BY <2>1, <2>2 DEF ControlTypes
  <2>4. pc' \in [Procs -> ProgramPoints] /\ fetched' \in [Procs -> Nat]
    BY <2>1 DEF ControlTypes, ProgramPoints
  <2> QED
    BY <2>1, <2>3, <2>4 DEF ControlTypes
<1>13. CASE Replay(p)
  <2>1. cursor[p] + 1 \in DOMAIN log[e]
    BY <1>0, <1>13 DEF Replay, ControlTypes
  <2>2. log[e][cursor[p] + 1] \in Events
    BY <1>0, <2>1 DEF ControlTypes
  <2>3. state' \in [Procs -> States]
    BY <1>13, <2>2, ReduceType DEF Replay, ControlTypes
  <2> QED
    BY <1>13, <2>3 DEF Replay, ControlTypes
<1>14. CASE Replayed(p)
  BY <1>14 DEF Replayed, ControlTypes, ProgramPoints, Continuations
<1> QED
  BY <1>1, <1>2, <1>3, <1>4, <1>5, <1>6, <1>7, <1>8, <1>9, <1>10, <1>11, <1>12,
     <1>13, <1>14 DEF Step

LEMMA InitialTypes ==
  ASSUME Init
  PROVE  ControlTypes
<1>1. log \in [Experiments -> Seq(Events)] /\ replayed \in [Experiments -> Seq(States)]
  BY ConstantRecords DEF Init
<1>2. \A e \in Experiments : Len(replayed[e]) = Len(log[e]) + 1
  BY DEF Init
<1>3. \A p \in Procs : cursor[p] <= fetched[p] /\ fetched[p] <= Len(log[ExperimentOf[p]])
  <2> SUFFICES ASSUME NEW p \in Procs
               PROVE  cursor[p] <= fetched[p] /\ fetched[p] <= Len(log[ExperimentOf[p]])
    OBVIOUS
  <2>1. ExperimentOf[p] \in Experiments
    BY ProcessesAssumption
  <2>2. Len(log[ExperimentOf[p]]) = 0
    BY <2>1 DEF Init
  <2>3. cursor[p] = 0 /\ fetched[p] = 0
    BY DEF Init
  <2> QED
    BY <2>2, <2>3
<1>4. serving \in [Experiments -> Serving] /\ live \in [Experiments -> SUBSET Resources]
  BY DEF Init, Serving
<1> QED
  BY <1>1, <1>2, <1>3, <1>4, ConstantRecords DEF Init, ControlTypes, ProgramPoints, Continuations

\* ControlTypes is inductive, whoever writes.
LEMMA ControlTypesHold == Spec => []ControlTypes
<1>1. Init => ControlTypes
  BY InitialTypes
<1>2. ControlTypes /\ [Next]_vars => ControlTypes'
  <2> SUFFICES ASSUME ControlTypes, [Next]_vars PROVE ControlTypes'
    OBVIOUS
  <2>1. ASSUME NEW p \in Procs, Command(p) PROVE ControlTypes'
    BY <2>1, CommandType
  <2>2. ASSUME NEW p \in Procs, Step(p) PROVE ControlTypes'
    BY <2>2, StepType
  <2>3. ASSUME NEW e \in Experiments, StartOwnedResources(e) PROVE ControlTypes'
    BY <2>3 DEF StartOwnedResources, ControlTypes
  <2>4. CASE UNCHANGED vars
    BY <2>4 DEF vars, ControlTypes
  <2> QED
    BY <2>1, <2>2, <2>3, <2>4 DEF Next
<1> QED
  BY <1>1, <1>2, PTL DEF Spec

\* Every reachable state is well typed, history included, whoever writes.
THEOREM TypeCorrect == Spec => []TypeOK
<1>1. Init => TypeOK
  BY InitialTypes DEF Init, TypeOK
<1>2. ControlTypes' /\ TypeOK /\ [Next]_vars => TypeOK'
  <2> SUFFICES ASSUME ControlTypes', TypeOK, [Next]_vars PROVE rested' \in [Experiments -> BOOLEAN]
    BY DEF TypeOK
  <2>1. CASE Observe
    <3>1. \A e \in Experiments :
            (\/ live'[e] = {}
             \/ rested[e] /\ (log'[e] = log[e] \/ Record(e)'.desired = "off")) \in BOOLEAN
      OBVIOUS
    <3> QED
      BY <2>1, <3>1 DEF Observe
  <2>2. CASE UNCHANGED vars
    BY <2>2 DEF vars, TypeOK
  <2> QED
    BY <2>1, <2>2 DEF Next
<1> QED
  BY <1>1, <1>2, ControlTypesHold, PTL DEF Spec

-----------------------------------------------------------------------------
(***************************************************************************)
(* The safety of one controller per experiment, when no commit             *)
(* acknowledgement is lost.  Both hypotheses are needed: the runs          *)
(* controller_stale_writer and controller_lost_ack show what happens       *)
(* without them.                                                           *)
(***************************************************************************)

\* The history variable is the stepwise replay of the log.
HistoryInv ==
  \A e \in Experiments :
    /\ replayed[e][1] = InitialState
    /\ \A i \in DOMAIN log[e] : replayed[e][i + 1] = Reduce(replayed[e][i], log[e][i])

\* What every process holds in memory, while it runs, replays or is down.
MemoryInv ==
  \A p \in Procs :
    /\ pc[p] = "down" => state[p] = InitialState /\ cursor[p] = 0
    /\ pc[p] = "replay" => /\ fetched[p] = Len(log[ExperimentOf[p]])
                           /\ state[p] = replayed[ExperimentOf[p]][cursor[p] + 1]
    /\ pc[p] \notin {"down", "replay"} => state[p] = Record(ExperimentOf[p])

\* A command that has not been stored yet agrees with the state it was built
\* from, and its key is still free when the append transaction runs.
PendingInv ==
  \A p \in Procs :
    /\ pc[p] = "append" => ExperimentOf[p] \notin Holders(call[p].key)
    /\ pc[p] \in {"lookup", "append"} =>
         /\ call[p].type = "CANDIDATE_PROMOTED" =>
              /\ state[p].mode = "auto-drafter"
              /\ state[p].active = call[p].payload.parent
              /\ state[p].fence = call[p].fence
         /\ call[p].type = "FENCE_ACQUIRED" => call[p].fence = state[p].fence + 1
         /\ (/\ call[p].type = "MODE_REQUESTED"
             /\ call[p].payload.recovery) => call[p].payload.mode = state[p].desired

\* No fencing number exceeds the one the record ends with.
FencesBounded ==
  \A e \in Experiments : \A i \in DOMAIN log[e] :
    log[e][i].type = "FENCE_ACQUIRED" => log[e][i].fence <= Record(e).fence

\* The events before position i hold a signed activation that still counts.
SignedBefore(e, i) ==
  \E j \in 1..(i - 1) :
    /\ log[e][j].type = "MODE_REQUESTED"
    /\ log[e][j].payload.mode = "auto-drafter"
    /\ ~log[e][j].payload.recovery
    /\ \A n \in (j + 1)..(i - 1) :
         /\ log[e][n].type \notin {"RECOVERED_TO_SHADOW", "DRAIN_COMPLETED"}
         /\ log[e][n].type = "MODE_REQUESTED" => log[e][n].payload.mode = "auto-drafter"

DesiredInv ==
  \A e \in Experiments : \A i \in DOMAIN replayed[e] :
    /\ replayed[e][i].mode = "auto-drafter" => replayed[e][i].desired = "auto-drafter"
    /\ replayed[e][i].desired = "auto-drafter" => SignedBefore(e, i)

LogInv == PromotionsAuthorized /\ FencesIncrease /\ FencesBounded /\ DesiredInv

ControllerInv == ControlTypes /\ HistoryInv /\ MemoryInv /\ PendingInv /\ LogInv


-----------------------------------------------------------------------------
(* What one append does *)

\* reduce_event changes the fence only when one is acquired.
LEMMA ReduceFence ==
  ASSUME NEW s \in States, NEW ev \in Events
  PROVE  Reduce(s, ev).fence = IF ev.type = "FENCE_ACQUIRED" THEN ev.fence ELSE s.fence
BY DEF Reduce, States, Events

\* How an event can lead to automatic authority, or keep it desired.
LEMMA ReduceDesired ==
  ASSUME NEW s \in States, NEW ev \in Events
  PROVE  /\ Reduce(s, ev).mode = "auto-drafter" =>
              \/ Reduce(s, ev).desired = "auto-drafter"
              \/ s.mode = "auto-drafter" /\ Reduce(s, ev).desired = s.desired
         /\ Reduce(s, ev).desired = "auto-drafter" =>
              \/ ev.type = "MODE_REQUESTED" /\ ev.payload.mode = "auto-drafter"
              \/ /\ s.desired = "auto-drafter"
                 /\ ev.type \notin {"MODE_REQUESTED", "RECOVERED_TO_SHADOW", "DRAIN_COMPLETED"}
BY DEF Reduce, States, Events

\* Event ev was appended to the n events of e; nothing else has moved.
Appended(e, n, ev) ==
  /\ e \in Experiments /\ ev \in Events
  /\ Len(log[e]) = n
  /\ Len(log'[e]) = n + 1 /\ log'[e][n + 1] = ev
  /\ \A i \in 1..n : log'[e][i] = log[e][i]
  /\ Len(replayed'[e]) = n + 2
  /\ replayed'[e][n + 2] = Reduce(Record(e), ev)
  /\ \A i \in 1..(n + 1) : replayed'[e][i] = replayed[e][i]
  /\ Record(e) = replayed[e][n + 1]
  /\ \A d \in Experiments : d # e => log'[d] = log[d] /\ replayed'[d] = replayed[d]

LEMMA AppendShape ==
  ASSUME ControlTypes, NEW p \in Procs, Commit(p), ExperimentOf[p] \notin Holders(call[p].key)
  PROVE  /\ Stored(p) = NewEvent(p)
         /\ \E n \in Nat : Appended(ExperimentOf[p], n, NewEvent(p))
<1> DEFINE e == ExperimentOf[p]
<1>n. PICK n \in Nat : n = Len(log[e])
  BY ProcessesAssumption DEF ControlTypes
<1>1. e \in Experiments
  BY ProcessesAssumption
<1>2. log[e] \in Seq(Events) /\ replayed[e] \in Seq(States) /\ Len(replayed[e]) = n + 1
  BY <1>1, <1>n DEF ControlTypes
<1>3. NewEvent(p) \in Events /\ Reduce(Record(e), NewEvent(p)) \in States
  BY <1>1, NewEventType, RecordType, ReduceType
<1>4. /\ log' = [log EXCEPT ![e] = Append(@, NewEvent(p))]
      /\ replayed' = [replayed EXCEPT ![e] = Append(@, Reduce(Record(e), NewEvent(p)))]
  BY DEF Commit
<1>5. /\ log'[e] = Append(log[e], NewEvent(p))
      /\ replayed'[e] = Append(replayed[e], Reduce(Record(e), NewEvent(p)))
      /\ \A d \in Experiments : d # e => log'[d] = log[d] /\ replayed'[d] = replayed[d]
  BY <1>1, <1>4 DEF ControlTypes
<1>6. Record(e) = replayed[e][n + 1]
  BY <1>2 DEF Record
<1>7. Stored(p) = NewEvent(p)
  BY DEF Stored
<1> DEFINE ev == NewEvent(p)
           r == Reduce(Record(e), NewEvent(p))
<1>8. /\ Len(Append(log[e], ev)) = n + 1 /\ Append(log[e], ev)[n + 1] = ev
      /\ \A i \in 1..n : Append(log[e], ev)[i] = log[e][i]
  <2> HIDE DEF ev
  <2> QED BY <1>2, <1>3, <1>n DEF ev
<1>9. /\ Len(Append(replayed[e], r)) = n + 2 /\ Append(replayed[e], r)[n + 2] = r
      /\ \A i \in 1..(n + 1) : Append(replayed[e], r)[i] = replayed[e][i]
  <2>1. r \in States
    BY <1>3
  <2> HIDE DEF r
  <2> QED BY <1>2, <2>1
<1>10. Appended(e, n, NewEvent(p))
  BY <1>1, <1>3, <1>5, <1>6, <1>8, <1>9, <1>n DEF Appended
<1> QED
  BY <1>7, <1>10

LEMMA AppendHistory ==
  ASSUME ControlTypes, HistoryInv, NEW p \in Procs, Commit(p),
         ExperimentOf[p] \notin Holders(call[p].key)
  PROVE  HistoryInv'
<1> DEFINE e == ExperimentOf[p]
<1>n. PICK n \in Nat : Appended(e, n, NewEvent(p))
  BY AppendShape
<1>0. /\ e \in Experiments /\ n \in Nat /\ Len(log[e]) = n
      /\ Len(log'[e]) = n + 1 /\ log'[e][n + 1] = NewEvent(p)
      /\ \A i \in 1..n : log'[e][i] = log[e][i]
      /\ replayed'[e][n + 2] = Reduce(Record(e), NewEvent(p))
      /\ \A i \in 1..(n + 1) : replayed'[e][i] = replayed[e][i]
      /\ Record(e) = replayed[e][n + 1]
      /\ \A d \in Experiments : d # e => log'[d] = log[d] /\ replayed'[d] = replayed[d]
  BY <1>n DEF Appended
<1>t. log[e] \in Seq(Events) /\ log'[e] \in Seq(Events)
  BY <1>0, CommitType DEF ControlTypes
<1> HIDE DEF e
<1> SUFFICES ASSUME NEW d \in Experiments
             PROVE  /\ replayed'[d][1] = InitialState
                    /\ \A i \in DOMAIN log'[d] :
                         replayed'[d][i + 1] = Reduce(replayed'[d][i], log'[d][i])
  BY DEF HistoryInv
<1>1. CASE d # e
  BY <1>0, <1>1 DEF HistoryInv
<1>2. CASE d = e
  <2>1. replayed'[e][1] = InitialState
    BY <1>0 DEF HistoryInv
  <2>2. ASSUME NEW i \in DOMAIN log'[e]
        PROVE  replayed'[e][i + 1] = Reduce(replayed'[e][i], log'[e][i])
    <3>1. i \in 1..(n + 1)
      BY <1>0, <1>t
    <3>2. CASE i = n + 1
      BY <1>0, <3>2
    <3>3. CASE i \in 1..n
      <4>1. i \in DOMAIN log[e]
        BY <1>0, <1>t, <3>3
      <4>2. i + 1 \in 1..(n + 1)
        BY <1>0, <3>3
      <4>3. replayed[e][i + 1] = Reduce(replayed[e][i], log[e][i])
        BY <1>0, <4>1 DEF HistoryInv
      <4>4. /\ replayed'[e][i + 1] = replayed[e][i + 1] /\ replayed'[e][i] = replayed[e][i]
            /\ log'[e][i] = log[e][i]
        BY <1>0, <3>1, <3>3, <4>2
      <4> QED
        BY <4>3, <4>4
    <3> QED
      BY <1>0, <3>1, <3>2, <3>3
  <2> QED
    BY <1>2, <2>1, <2>2
<1> QED
  BY <1>1, <1>2


\* What promote and acquire_fence checked against memory is true of the record.
LEMMA AppendPromotions ==
  ASSUME ControlTypes, MemoryInv, PendingInv, PromotionsAuthorized, NEW p \in Procs, pc[p] = "append",
         Commit(p), ExperimentOf[p] \notin Holders(call[p].key)
  PROVE  PromotionsAuthorized'
<1> DEFINE e == ExperimentOf[p]
<1>n. PICK n \in Nat : Appended(e, n, NewEvent(p))
  BY AppendShape
<1>0. /\ e \in Experiments /\ n \in Nat /\ Len(log[e]) = n
      /\ Len(log'[e]) = n + 1 /\ log'[e][n + 1] = NewEvent(p)
      /\ \A i \in 1..n : log'[e][i] = log[e][i]
      /\ \A i \in 1..(n + 1) : replayed'[e][i] = replayed[e][i]
      /\ Record(e) = replayed[e][n + 1]
      /\ \A d \in Experiments : d # e => log'[d] = log[d] /\ replayed'[d] = replayed[d]
  BY <1>n DEF Appended
<1>t. log[e] \in Seq(Events) /\ log'[e] \in Seq(Events)
  BY <1>0, CommitType DEF ControlTypes
<1>m. state[p] = Record(e)
  BY DEF MemoryInv
<1> SUFFICES ASSUME NEW d \in Experiments, NEW i \in DOMAIN log'[d],
                    log'[d][i].type = "CANDIDATE_PROMOTED"
             PROVE  /\ replayed'[d][i].mode = "auto-drafter"
                    /\ replayed'[d][i].active = log'[d][i].payload.parent
                    /\ replayed'[d][i].fence = log'[d][i].fence
  BY DEF PromotionsAuthorized
<1>1. CASE d # e
  BY <1>0, <1>1 DEF PromotionsAuthorized
<1>2. CASE d = e
  <2>1. i \in 1..(n + 1)
    BY <1>0, <1>t, <1>2
  <2>2. CASE i = n + 1
    <3>1. log'[d][i] = NewEvent(p) /\ replayed'[d][i] = state[p]
      BY <1>0, <1>m, <1>2, <2>1, <2>2
    <3>2. call[p].type = "CANDIDATE_PROMOTED"
      BY <3>1 DEF NewEvent
    <3>3. /\ state[p].mode = "auto-drafter"
          /\ state[p].active = call[p].payload.parent
          /\ state[p].fence = call[p].fence
      BY <3>2 DEF PendingInv
    <3> QED
      BY <3>1, <3>3 DEF NewEvent
  <2>3. CASE i \in 1..n
    <3>1. i \in DOMAIN log[e]
      BY <1>0, <1>t, <2>3
    <3>2. log'[d][i] = log[e][i] /\ replayed'[d][i] = replayed[e][i]
      BY <1>0, <1>2, <2>1, <2>3
    <3> QED
      BY <1>0, <3>1, <3>2 DEF PromotionsAuthorized
  <2> QED
    BY <1>0, <2>1, <2>2, <2>3
<1> QED
  BY <1>1, <1>2

LEMMA AppendFences ==
  ASSUME ControlTypes, MemoryInv, PendingInv, FencesIncrease, FencesBounded,
         NEW p \in Procs, pc[p] = "append",
         Commit(p), ExperimentOf[p] \notin Holders(call[p].key)
  PROVE  FencesIncrease' /\ FencesBounded'
<1> DEFINE e == ExperimentOf[p]
           ev == NewEvent(p)
<1>n. PICK n \in Nat : Appended(e, n, NewEvent(p))
  BY AppendShape
<1>0. /\ e \in Experiments /\ n \in Nat /\ ev \in Events /\ Len(log[e]) = n
      /\ Len(log'[e]) = n + 1 /\ log'[e][n + 1] = ev
      /\ \A i \in 1..n : log'[e][i] = log[e][i]
      /\ Len(replayed'[e]) = n + 2
      /\ replayed'[e][n + 2] = Reduce(Record(e), ev)
      /\ \A d \in Experiments : d # e => log'[d] = log[d] /\ replayed'[d] = replayed[d]
  BY <1>n DEF Appended
<1>t. log[e] \in Seq(Events) /\ log'[e] \in Seq(Events)
  BY <1>0, CommitType DEF ControlTypes
<1>m. state[p] = Record(e)
  BY DEF MemoryInv
<1>1. Record(e)' = Reduce(Record(e), ev)
  BY <1>0 DEF Record
<1>2. \A d \in Experiments : d # e => Record(d)' = Record(d)
  BY <1>0 DEF Record
<1>3. Record(e) \in States /\ Record(e).fence \in Nat /\ ev.fence \in Nat
  BY <1>0, RecordType DEF States, Events
<1>4. Record(e)'.fence = IF ev.type = "FENCE_ACQUIRED" THEN ev.fence ELSE Record(e).fence
  BY <1>0, <1>1, <1>3, ReduceFence
<1>5. ev.type = "FENCE_ACQUIRED" => ev.fence = Record(e).fence + 1
  <2>1. ev.type = call[p].type /\ ev.fence = call[p].fence
    BY DEF NewEvent
  <2> QED
    BY <1>m, <2>1 DEF PendingInv
<1>6. DOMAIN log'[e] = 1..(n + 1) /\ DOMAIN log[e] = 1..n
  BY <1>0, <1>t
<1>7. \A i \in 1..n : log[e][i].type = "FENCE_ACQUIRED" =>
                        log[e][i].fence <= Record(e).fence /\ log[e][i].fence \in Nat
  <2>1. \A i \in 1..n : log[e][i] \in Events
    BY <1>6, <1>t
  <2> QED
    BY <1>0, <1>6, <2>1 DEF FencesBounded, Events
<1> HIDE DEF ev
<1>8. ASSUME NEW d \in Experiments, NEW i \in DOMAIN log'[d], NEW j \in DOMAIN log'[d],
             i < j, log'[d][i].type = "FENCE_ACQUIRED", log'[d][j].type = "FENCE_ACQUIRED"
      PROVE  log'[d][i].fence < log'[d][j].fence
  <2>1. CASE d # e
    BY <1>0, <1>8, <2>1 DEF FencesIncrease
  <2>2. CASE d = e /\ j = n + 1
    <3>1. i \in 1..n /\ log'[d][i] = log[e][i] /\ log'[d][j] = ev
      BY <1>0, <1>6, <1>8, <2>2
    <3> QED
      BY <1>3, <1>5, <1>7, <1>8, <3>1
  <2>3. CASE d = e /\ j \in 1..n
    <3>1. i \in 1..n /\ log'[d][i] = log[e][i] /\ log'[d][j] = log[e][j]
      BY <1>0, <1>6, <1>8, <2>3
    <3>2. i \in DOMAIN log[e] /\ j \in DOMAIN log[e]
      BY <1>6, <2>3, <3>1
    <3> QED
      BY <1>0, <1>8, <3>1, <3>2 DEF FencesIncrease
  <2> QED
    BY <1>0, <1>6, <2>1, <2>2, <2>3
<1>9. ASSUME NEW d \in Experiments, NEW i \in DOMAIN log'[d], log'[d][i].type = "FENCE_ACQUIRED"
      PROVE  log'[d][i].fence <= Record(d)'.fence
  <2>1. CASE d # e
    BY <1>0, <1>2, <1>9, <2>1 DEF FencesBounded
  <2>2. CASE d = e /\ i = n + 1
    BY <1>0, <1>3, <1>4, <1>9, <2>2
  <2>3. CASE d = e /\ i \in 1..n
    <3>1. log'[d][i] = log[e][i]
      BY <1>0, <2>3
    <3> QED
      BY <1>3, <1>4, <1>5, <1>7, <1>9, <2>3, <3>1
  <2> QED
    BY <1>0, <1>6, <2>1, <2>2, <2>3
<1> QED
  BY <1>8, <1>9 DEF FencesIncrease, FencesBounded

LEMMA AppendDesired ==
  ASSUME ControlTypes, MemoryInv, PendingInv, DesiredInv, NEW p \in Procs, pc[p] = "append",
         Commit(p), ExperimentOf[p] \notin Holders(call[p].key)
  PROVE  DesiredInv'
<1> DEFINE e == ExperimentOf[p]
           ev == NewEvent(p)
<1>n. PICK n \in Nat : Appended(e, n, NewEvent(p))
  BY AppendShape
<1>0. /\ e \in Experiments /\ n \in Nat /\ ev \in Events /\ Len(log[e]) = n
      /\ Len(log'[e]) = n + 1 /\ log'[e][n + 1] = ev
      /\ \A i \in 1..n : log'[e][i] = log[e][i]
      /\ Len(replayed'[e]) = n + 2
      /\ replayed'[e][n + 2] = Reduce(Record(e), ev)
      /\ \A i \in 1..(n + 1) : replayed'[e][i] = replayed[e][i]
      /\ Record(e) = replayed[e][n + 1]
      /\ \A d \in Experiments : d # e => log'[d] = log[d] /\ replayed'[d] = replayed[d]
  BY <1>n DEF Appended
<1>t. replayed[e] \in Seq(States) /\ replayed'[e] \in Seq(States) /\ Len(replayed[e]) = n + 1
  BY <1>0, CommitType DEF ControlTypes
<1>m. state[p] = Record(e)
  BY DEF MemoryInv
<1>1. Record(e) \in States
  BY <1>0, RecordType
<1>2. DOMAIN replayed'[e] = 1..(n + 2) /\ DOMAIN replayed[e] = 1..(n + 1)
  BY <1>0, <1>t
<1>3. /\ Record(e).mode = "auto-drafter" => Record(e).desired = "auto-drafter"
      /\ Record(e).desired = "auto-drafter" => SignedBefore(e, n + 1)
  BY <1>0, <1>2 DEF DesiredInv
<1>4. (ev.type = "MODE_REQUESTED" /\ ev.payload.recovery) =>
         ev.payload.mode = Record(e).desired
  <2>1. ev.type = call[p].type /\ ev.payload = call[p].payload
    BY DEF NewEvent
  <2> QED
    BY <1>m, <2>1 DEF PendingInv
<1> HIDE DEF ev
<1>5. ASSUME NEW i \in 1..(n + 1), SignedBefore(e, i)
      PROVE  SignedBefore(e, i)'
  <2>1. \A j \in 1..(i - 1) : log'[e][j] = log[e][j]
    BY <1>0
  <2>2. PICK j \in 1..(i - 1) :
          /\ log[e][j].type = "MODE_REQUESTED"
          /\ log[e][j].payload.mode = "auto-drafter"
          /\ ~log[e][j].payload.recovery
          /\ \A k \in (j + 1)..(i - 1) :
               /\ log[e][k].type \notin {"RECOVERED_TO_SHADOW", "DRAIN_COMPLETED"}
               /\ log[e][k].type = "MODE_REQUESTED" => log[e][k].payload.mode = "auto-drafter"
    BY <1>5 DEF SignedBefore
  <2>3. \A k \in (j + 1)..(i - 1) : log'[e][k] = log[e][k]
    BY <2>1, <2>2
  <2> QED
    BY <2>1, <2>2, <2>3 DEF SignedBefore
<1>6. ASSUME Reduce(Record(e), ev).desired = "auto-drafter"
      PROVE  SignedBefore(e, n + 2)'
  <2>1. CASE ev.type = "MODE_REQUESTED" /\ ~ev.payload.recovery
    <3>1. ev.payload.mode = "auto-drafter"
      BY <1>0, <1>1, <1>6, <2>1, ReduceDesired
    <3>2. n + 1 \in 1..((n + 2) - 1) /\ ((n + 1) + 1)..((n + 2) - 1) = {}
      BY <1>0
    <3> QED
      BY <1>0, <2>1, <3>1, <3>2 DEF SignedBefore
  <2>2. CASE ~(ev.type = "MODE_REQUESTED" /\ ~ev.payload.recovery)
    <3>1. /\ Record(e).desired = "auto-drafter"
          /\ ev.type \notin {"RECOVERED_TO_SHADOW", "DRAIN_COMPLETED"}
          /\ ev.type = "MODE_REQUESTED" => ev.payload.mode = "auto-drafter"
      BY <1>0, <1>1, <1>4, <1>6, <2>2, ReduceDesired
    <3>2. PICK j \in 1..n :
            /\ log[e][j].type = "MODE_REQUESTED"
            /\ log[e][j].payload.mode = "auto-drafter"
            /\ ~log[e][j].payload.recovery
            /\ \A k \in (j + 1)..n :
                 /\ log[e][k].type \notin {"RECOVERED_TO_SHADOW", "DRAIN_COMPLETED"}
                 /\ log[e][k].type = "MODE_REQUESTED" => log[e][k].payload.mode = "auto-drafter"
      <4>1. (n + 1) - 1 = n
        BY <1>0
      <4> QED
        BY <1>3, <3>1, <4>1 DEF SignedBefore
    <3>3. ASSUME NEW k \in (j + 1)..(n + 1)
          PROVE  /\ log'[e][k].type \notin {"RECOVERED_TO_SHADOW", "DRAIN_COMPLETED"}
                 /\ log'[e][k].type = "MODE_REQUESTED" => log'[e][k].payload.mode = "auto-drafter"
      <4>1. CASE k = n + 1
        BY <1>0, <3>1, <4>1
      <4>2. CASE k # n + 1
        <5>1. k \in (j + 1)..n /\ k \in 1..n
          BY <1>0, <3>2, <4>2
        <5> QED
          BY <1>0, <3>2, <5>1
      <4> QED
        BY <4>1, <4>2
    <3>4. (n + 2) - 1 = n + 1 /\ j \in 1..(n + 1) /\ log'[e][j] = log[e][j]
      BY <1>0, <3>2
    <3> QED
      BY <3>2, <3>3, <3>4 DEF SignedBefore
  <2> QED
    BY <2>1, <2>2
<1>7. Reduce(Record(e), ev).mode = "auto-drafter" =>
        Reduce(Record(e), ev).desired = "auto-drafter"
  BY <1>0, <1>1, <1>3, ReduceDesired
<1>8. ASSUME NEW d \in Experiments, NEW i \in DOMAIN replayed'[d]
      PROVE  /\ replayed'[d][i].mode = "auto-drafter" => replayed'[d][i].desired = "auto-drafter"
             /\ replayed'[d][i].desired = "auto-drafter" => SignedBefore(d, i)'
  <2>1. CASE d # e
    <3>1. log'[d] = log[d] /\ replayed'[d] = replayed[d]
      BY <1>0, <2>1
    <3>2. SignedBefore(d, i) => SignedBefore(d, i)'
      BY <3>1 DEF SignedBefore
    <3> QED
      BY <3>1, <3>2 DEF DesiredInv
  <2>2. CASE d = e /\ i = n + 2
    BY <1>0, <1>6, <1>7, <2>2
  <2>3. CASE d = e /\ i \in 1..(n + 1)
    <3>1. i \in DOMAIN replayed[e] /\ replayed'[d][i] = replayed[e][i]
      BY <1>0, <1>2, <2>3
    <3>2. SignedBefore(e, i) => SignedBefore(e, i)'
      BY <1>5, <2>3
    <3> QED
      BY <1>0, <2>3, <3>1, <3>2 DEF DesiredInv
  <2> QED
    BY <1>0, <1>2, <2>1, <2>2, <2>3
<1> QED
  BY <1>8 DEF DesiredInv


-----------------------------------------------------------------------------
(* Every step preserves the invariant *)

\* An invariant of the log and its history survives a step that leaves both.
LEMMA LogUntouched ==
  ASSUME HistoryInv, LogInv, UNCHANGED <<log, replayed>>
  PROVE  HistoryInv' /\ LogInv'
<1>1. \A e : Record(e)' = Record(e)
  BY DEF Record
<1>2. \A e, i : SignedBefore(e, i)' = SignedBefore(e, i)
  BY DEF SignedBefore
<1>3. HistoryInv'
  BY DEF HistoryInv
<1>4. PromotionsAuthorized' /\ FencesIncrease'
  BY DEF LogInv, PromotionsAuthorized, FencesIncrease
<1>5. FencesBounded'
  BY <1>1 DEF LogInv, FencesBounded
<1>6. DesiredInv'
  BY <1>2 DEF LogInv, DesiredInv
<1> QED
  BY <1>3, <1>4, <1>5, <1>6 DEF LogInv

\* Where a call may go next, and what it carries there.
LEMMA AfterReturn ==
  ASSUME ControlTypes, NEW p \in Procs, Return(p) \/ Continue(p)
  PROVE  /\ pc'[p] \in Continuations
         /\ \A q \in Procs : q # p => pc'[q] = pc[q] /\ call'[q] = call[q]
<1>1. CASE Return(p)
  BY <1>1 DEF ControlTypes, Return, Continuations
<1>2. CASE Continue(p) /\ call[p].next # "idle"
  BY <1>2 DEF ControlTypes, Continue, Calls
<1> QED
  BY <1>1, <1>2 DEF Continue

\* A step inside the memory of p that neither stores nor reduces an event.
LEMMA QuietStep ==
  ASSUME ControllerInv, NEW p \in Procs, ControlTypes', UNCHANGED <<log, replayed, state, cursor, fetched>>,
         pc[p] \notin {"down", "replay"}, pc'[p] \notin {"down", "replay", "lookup", "append"},
         \A q \in Procs : q # p => pc'[q] = pc[q] /\ call'[q] = call[q]
  PROVE  ControllerInv'
<1>1. HistoryInv' /\ LogInv'
  BY LogUntouched DEF ControllerInv
<1>2. MemoryInv'
  BY DEF ControllerInv, MemoryInv, Record
<1>3. PendingInv'
  BY DEF ControllerInv, PendingInv, Holders
<1> QED
  BY <1>1, <1>2, <1>3 DEF ControllerInv

\* A new command is built from the state in memory.
LEMMA CommandPreserves ==
  ASSUME ControllerInv, NEW p \in Procs, Command(p)
  PROVE  ControllerInv'
<1>0. ControlTypes'
  BY CommandType DEF ControllerInv
<1>1. PICK k \in Keys :
        \/ Enable(p, k, "shadow") \/ Enable(p, k, "auto-drafter")
        \/ RecoverUncertain(p, k) \/ RecoverCertain(p, k)
        \/ \E o \in Owners : AcquireFence(p, k, o)
        \/ \E b \in Bootstraps : Bootstrap(p, k, b)
        \/ \E a \in Promotions, f \in 0..MaxFence :
             PromoteRejected(p, k, a, f) \/ PromoteAccepted(p, k, a, f)
        \/ FailLearning(p, k)
        \/ Drain(p, k)
  BY DEF Command
<1>2. /\ UNCHANGED <<log, replayed, state, cursor, fetched>>
      /\ pc[p] = "idle" /\ pc'[p] \in {"lookup", "drain"}
      /\ \A q \in Procs : q # p => pc'[q] = pc[q] /\ call'[q] = call[q]
  <2>1. CASE Drain(p, k)
    BY <2>1 DEF Drain, ControllerInv, ControlTypes
  <2>2. CASE ~Drain(p, k)
    BY <1>1, <2>2 DEF Enable, RecoverUncertain, RecoverCertain, AcquireFence, Bootstrap,
       PromoteRejected, PromoteAccepted, FailLearning, Submit, ControllerInv, ControlTypes
  <2> QED
    BY <2>1, <2>2
<1>3. HistoryInv' /\ LogInv'
  BY <1>2, LogUntouched DEF ControllerInv
<1>4. MemoryInv'
  BY <1>2 DEF ControllerInv, MemoryInv, Record
<1>5. PendingInv'
  <2>1. pc'[p] = "lookup" =>
          /\ call'[p].type = "CANDIDATE_PROMOTED" =>
               /\ state[p].mode = "auto-drafter"
               /\ state[p].active = call'[p].payload.parent
               /\ state[p].fence = call'[p].fence
          /\ call'[p].type = "FENCE_ACQUIRED" => call'[p].fence = state[p].fence + 1
          /\ (/\ call'[p].type = "MODE_REQUESTED"
              /\ call'[p].payload.recovery) => call'[p].payload.mode = state[p].desired
    <3>t. DOMAIN call = Procs
      BY DEF ControllerInv, ControlTypes
    <3>1. ASSUME NEW m, Enable(p, k, m)
          PROVE  call'[p].type = "MODE_REQUESTED" /\ call'[p].payload.recovery = FALSE
      <4>1. call'[p].payload = [Blank EXCEPT !.mode = m] /\ call'[p].type = "MODE_REQUESTED"
        BY <3>t, <3>1 DEF Enable, Submit
      <4> QED
        BY <4>1 DEF Blank
    <3>2. CASE RecoverUncertain(p, k)
      BY <3>t, <3>2 DEF RecoverUncertain, Submit
    <3>3. CASE RecoverCertain(p, k)
      <4>1. call'[p].payload = [Blank EXCEPT !.mode = state[p].desired, !.recovery = TRUE]
            /\ call'[p].type = "MODE_REQUESTED"
        BY <3>t, <3>3 DEF RecoverCertain, Submit
      <4> QED
        BY <4>1 DEF Blank
    <3>4. ASSUME NEW o \in Owners, AcquireFence(p, k, o)
          PROVE  call'[p].type = "FENCE_ACQUIRED" /\ call'[p].fence = state[p].fence + 1
      BY <3>t, <3>4 DEF AcquireFence, Submit
    <3>5. ASSUME NEW b \in Bootstraps, Bootstrap(p, k, b)
          PROVE  call'[p].type = "LAST_GOOD_SET"
      BY <3>t, <3>5 DEF Bootstrap, Submit
    <3>6. ASSUME NEW a \in Promotions, NEW f \in 0..MaxFence, PromoteRejected(p, k, a, f)
          PROVE  call'[p].type = "PROMOTION_REJECTED"
      BY <3>t, <3>6 DEF PromoteRejected, Submit
    <3>7. ASSUME NEW a \in Promotions, NEW f \in 0..MaxFence, PromoteAccepted(p, k, a, f)
          PROVE  /\ call'[p].type = "CANDIDATE_PROMOTED" /\ state[p].mode = "auto-drafter"
                 /\ state[p].active = call'[p].payload.parent
                 /\ state[p].fence = call'[p].fence
      <4>1. state[p].mode = "auto-drafter" /\ state[p].active = a.parent
        BY <3>7 DEF PromoteAccepted, Rejection
      <4>2. /\ call'[p].payload = [Blank EXCEPT !.drafter = a.candidate, !.parent = a.parent]
            /\ call'[p].fence = state[p].fence /\ call'[p].type = "CANDIDATE_PROMOTED"
        BY <3>t, <3>7 DEF PromoteAccepted, Submit
      <4> QED
        BY <4>1, <4>2 DEF Blank
    <3>9. CASE FailLearning(p, k)
      BY <3>t, <3>9 DEF FailLearning, Submit
    <3>8. CASE Drain(p, k)
      BY <3>8 DEF Drain, ControllerInv, ControlTypes
    <3> QED
      BY <1>1, <3>1, <3>2, <3>3, <3>4, <3>5, <3>6, <3>7, <3>8, <3>9
  <2> QED
    BY <1>2, <2>1 DEF ControllerInv, PendingInv, Holders
<1> QED
  BY <1>0, <1>3, <1>4, <1>5 DEF ControllerInv

\* The append transaction stores what the process believes, and the process
\* then believes what is stored.
LEMMA AppendPreserves ==
  ASSUME SingleWriter, ControllerInv, NEW p \in Procs, AppendEvent(p)
  PROVE  ControllerInv'
<1> DEFINE e == ExperimentOf[p]
<1>0. ControlTypes'
  <2>1. Step(p)
    BY DEF Step
  <2> QED
    BY <2>1, StepType DEF ControllerInv
<1>1. /\ ControlTypes /\ HistoryInv /\ MemoryInv /\ PendingInv /\ LogInv
      /\ pc[p] = "append" /\ Commit(p)
  BY DEF ControllerInv, AppendEvent
<1>2. e \notin Holders(call[p].key)
  BY <1>1 DEF PendingInv
<1>3. HistoryInv'
  BY <1>1, <1>2, AppendHistory
<1>4. LogInv'
  BY <1>1, <1>2, AppendPromotions, AppendFences, AppendDesired DEF LogInv
<1>5. PICK n \in Nat : Appended(e, n, NewEvent(p))
  BY <1>1, <1>2, AppendShape
<1>6. Stored(p) = NewEvent(p)
  BY <1>1, <1>2, AppendShape
<1>7. state'[p] = Record(e)'
  <2>1. Record(e)' = Reduce(Record(e), NewEvent(p))
    BY <1>5 DEF Appended, Record
  <2>2. state'[p] = Reduce(state[p], NewEvent(p))
    BY <1>1, <1>6 DEF AppendEvent, ControlTypes
  <2>3. state[p] = Record(e)
    BY <1>1 DEF MemoryInv
  <2> QED
    BY <2>1, <2>2, <2>3
<1>8. pc'[p] \in Continuations
  BY <1>1, AfterReturn DEF AppendEvent
<1>9. ASSUME NEW q \in Procs, q # p
      PROVE  /\ ExperimentOf[q] \in Experiments
             /\ log'[ExperimentOf[q]] = log[ExperimentOf[q]]
             /\ replayed'[ExperimentOf[q]] = replayed[ExperimentOf[q]]
             /\ pc'[q] = pc[q] /\ call'[q] = call[q] /\ state'[q] = state[q]
             /\ cursor'[q] = cursor[q] /\ fetched'[q] = fetched[q]
  <2>1. ExperimentOf[q] \in Experiments /\ ExperimentOf[q] # e
    BY <1>9, ProcessesAssumption DEF SingleWriter
  <2>2. pc'[q] = pc[q] /\ call'[q] = call[q]
    BY <1>1, <1>9, AfterReturn DEF AppendEvent
  <2>3. state'[q] = state[q] /\ cursor'[q] = cursor[q] /\ fetched'[q] = fetched[q]
    BY <1>1, <1>9 DEF AppendEvent, ControlTypes
  <2> QED
    BY <1>5, <2>1, <2>2, <2>3 DEF Appended
<1>10. MemoryInv'
  <2>1. ASSUME NEW q \in Procs
        PROVE  /\ pc'[q] = "down" => state'[q] = InitialState /\ cursor'[q] = 0
               /\ pc'[q] = "replay" =>
                    /\ fetched'[q] = Len(log'[ExperimentOf[q]])
                    /\ state'[q] = replayed'[ExperimentOf[q]][cursor'[q] + 1]
               /\ pc'[q] \notin {"down", "replay"} => state'[q] = Record(ExperimentOf[q])'
    <3>1. CASE q = p
      BY <1>7, <1>8, <3>1 DEF Continuations
    <3>2. CASE q # p
      BY <1>1, <1>9, <3>2 DEF MemoryInv, Record
    <3> QED
      BY <3>1, <3>2
  <2> QED
    BY <2>1 DEF MemoryInv
<1>11. PendingInv'
  <2>1. ASSUME NEW q \in Procs
        PROVE  /\ pc'[q] = "append" => ExperimentOf[q] \notin Holders(call[q].key)'
               /\ pc'[q] \in {"lookup", "append"} =>
                    /\ call'[q].type = "CANDIDATE_PROMOTED" =>
                         /\ state'[q].mode = "auto-drafter"
                         /\ state'[q].active = call'[q].payload.parent
                         /\ state'[q].fence = call'[q].fence
                    /\ call'[q].type = "FENCE_ACQUIRED" => call'[q].fence = state'[q].fence + 1
                    /\ (/\ call'[q].type = "MODE_REQUESTED"
                        /\ call'[q].payload.recovery) => call'[q].payload.mode = state'[q].desired
    <3>1. CASE q = p
      BY <1>8, <3>1 DEF Continuations
    <3>2. CASE q # p
      BY <1>1, <1>9, <3>2 DEF PendingInv, Holders
    <3> QED
      BY <3>1, <3>2
  <2> QED
    BY <2>1 DEF PendingInv
<1> QED
  BY <1>0, <1>3, <1>4, <1>10, <1>11 DEF ControllerInv


LEMMA StepPreserves ==
  ASSUME SingleWriter, CommitAckLost = FALSE, ControllerInv, NEW p \in Procs, Step(p)
  PROVE  ControllerInv'
<1> DEFINE e == ExperimentOf[p]
<1>0. ControlTypes'
  BY StepType DEF ControllerInv
<1>t. /\ ControlTypes /\ HistoryInv /\ MemoryInv /\ PendingInv /\ LogInv
      /\ e \in Experiments /\ log[e] \in Seq(Events) /\ Len(replayed[e]) = Len(log[e]) + 1
      /\ cursor[p] \in Nat /\ cursor[p] <= fetched[p]
      /\ call \in [Procs -> Calls] /\ DOMAIN pc = Procs /\ DOMAIN state = Procs
      /\ DOMAIN cursor = Procs /\ DOMAIN fetched = Procs
  BY ProcessesAssumption DEF ControllerInv, ControlTypes
<1>1. CASE LookupAbsent(p)
  <2>1. /\ UNCHANGED <<log, replayed, state, cursor, fetched>>
        /\ pc[p] \in {"lookup", "drain"} /\ Holders(call[p].key) = {}
        /\ \A q \in Procs : q # p => pc'[q] = pc[q] /\ call'[q] = call[q]
        /\ \/ pc'[p] = "append" /\ pc[p] = "lookup" /\ call'[p] = call[p]
           \/ pc'[p] = "lookup" /\ call'[p].type = "DRAIN_STARTED"
    <3>1. CASE pc[p] = "lookup"
      BY <1>1, <1>t, <3>1 DEF LookupAbsent
    <3>2. CASE pc[p] = "drain"
      BY <1>1, <1>t, <3>2 DEF LookupAbsent, Calls
    <3> QED
      BY <1>1, <3>1, <3>2 DEF LookupAbsent
  <2>2. HistoryInv' /\ LogInv'
    BY <1>t, <2>1, LogUntouched
  <2>3. MemoryInv'
    BY <1>t, <2>1 DEF MemoryInv, Record
  <2>4. PendingInv'
    BY <1>t, <2>1 DEF PendingInv, Holders
  <2> QED
    BY <1>0, <2>2, <2>3, <2>4 DEF ControllerInv
<1>2. CASE LookupFound(p)
  <2>1. /\ pc'[p] \in Continuations \cup {"conflict"}
        /\ \A q \in Procs : q # p => pc'[q] = pc[q] /\ call'[q] = call[q]
    BY <1>2, <1>t, AfterReturn DEF LookupFound
  <2> QED
    BY <1>0, <1>2, <2>1, QuietStep DEF LookupFound, Continuations
<1>3. CASE LookupAmbiguous(p) \/ RaiseConflict(p) \/ CallFails(p) \/ RouteDrafter(p)
           \/ RouteCandidate(p)
  <2>1. /\ Return(p) /\ UNCHANGED <<log, replayed, state, cursor, fetched>>
        /\ pc[p] \notin {"down", "replay"}
    BY <1>3 DEF LookupAmbiguous, RaiseConflict, CallFails, RouteDrafter, RouteCandidate
  <2>2. /\ pc'[p] = "idle"
        /\ \A q \in Procs : q # p => pc'[q] = pc[q] /\ call'[q] = call[q]
    BY <1>t, <2>1 DEF Return
  <2> QED
    BY <1>0, <2>1, <2>2, QuietStep
<1>4. CASE AppendEvent(p)
  BY <1>4, AppendPreserves
<1>5. CASE AppendUnacknowledged(p)
  BY <1>5 DEF AppendUnacknowledged
<1>6. CASE Cleanup(p)
  <2>1. /\ UNCHANGED <<log, replayed, state, cursor, fetched>>
        /\ pc[p] = "cleanup" /\ pc'[p] = "lookup"
        /\ \A q \in Procs : q # p => pc'[q] = pc[q] /\ call'[q] = call[q]
        /\ call'[p].type \in {"DRAIN_COMPLETED", "LEARNING_FAILED"}
    <3>1. PICK left \in SUBSET live[e] :
            call' = [call EXCEPT ![p] =
                 IF left = {}
                 THEN [@ EXCEPT !.type = "DRAIN_COMPLETED", !.key = <<call[p].key[1], "">>,
                                !.next = "idle"]
                 ELSE [@ EXCEPT !.type = "LEARNING_FAILED",
                                !.key = <<call[p].key[1], "cleanup-failed">>,
                                !.payload.resources = left, !.next = "idle"]]
      BY <1>6 DEF Cleanup
    <3>2. call'[p].type \in {"DRAIN_COMPLETED", "LEARNING_FAILED"}
      BY <1>t, <3>1 DEF Calls
    <3> QED
      BY <1>6, <1>t, <3>1, <3>2 DEF Cleanup
  <2>2. HistoryInv' /\ LogInv'
    BY <1>t, <2>1, LogUntouched
  <2>3. MemoryInv'
    BY <1>t, <2>1 DEF MemoryInv, Record
  <2>4. PendingInv'
    BY <1>t, <2>1 DEF PendingInv, Holders
  <2> QED
    BY <1>0, <2>2, <2>3, <2>4 DEF ControllerInv
<1>7. CASE Crash(p) \/ Restart(p) \/ Replay(p) \/ Replayed(p)
  <2>1. /\ UNCHANGED <<log, replayed>> /\ pc'[p] \notin {"lookup", "append"}
        /\ \A q \in Procs : q # p =>
             /\ pc'[q] = pc[q] /\ call'[q] = call[q] /\ state'[q] = state[q]
             /\ cursor'[q] = cursor[q] /\ fetched'[q] = fetched[q]
    BY <1>7, <1>t DEF Crash, Restart, Replay, Replayed
  <2>2. HistoryInv' /\ LogInv'
    BY <1>t, <2>1, LogUntouched
  <2>3. /\ pc'[p] = "down" => state'[p] = InitialState /\ cursor'[p] = 0
        /\ pc'[p] = "replay" => /\ fetched'[p] = Len(log[e])
                                /\ state'[p] = replayed[e][cursor'[p] + 1]
        /\ pc'[p] \notin {"down", "replay"} => state'[p] = Record(e)
    <3>1. CASE Crash(p)
      BY <1>t, <3>1 DEF Crash
    <3>2. CASE Restart(p)
      BY <1>t, <3>2 DEF Restart, MemoryInv, HistoryInv
    <3>3. CASE Replay(p)
      <4>1. /\ pc[p] = "replay" /\ pc'[p] = "replay" /\ cursor[p] < fetched[p]
            /\ fetched'[p] = fetched[p] /\ cursor'[p] = cursor[p] + 1
            /\ state'[p] = Reduce(state[p], log[e][cursor[p] + 1])
        BY <1>t, <3>3 DEF Replay
      <4>2. fetched[p] = Len(log[e]) /\ state[p] = replayed[e][cursor[p] + 1]
        BY <1>t, <4>1 DEF MemoryInv
      <4>3. cursor[p] + 1 \in DOMAIN log[e]
        BY <1>t, <4>1, <4>2
      <4>4. replayed[e][cursor[p] + 1 + 1] =
              Reduce(replayed[e][cursor[p] + 1], log[e][cursor[p] + 1])
        BY <1>t, <4>3 DEF HistoryInv
      <4> QED
        BY <4>1, <4>2, <4>4
    <3>4. CASE Replayed(p)
      <4>1. pc[p] = "replay" /\ pc'[p] = "idle" /\ cursor[p] = fetched[p] /\ state' = state
        BY <1>t, <3>4 DEF Replayed
      <4>2. state[p] = replayed[e][Len(log[e]) + 1]
        BY <1>t, <4>1 DEF MemoryInv
      <4> QED
        BY <1>t, <4>1, <4>2 DEF Record
    <3> QED
      BY <1>7, <3>1, <3>2, <3>3, <3>4
  <2>4. MemoryInv'
    <3> SUFFICES ASSUME NEW q \in Procs
                 PROVE  /\ pc'[q] = "down" => state'[q] = InitialState /\ cursor'[q] = 0
                        /\ pc'[q] = "replay" =>
                             /\ fetched'[q] = Len(log'[ExperimentOf[q]])
                             /\ state'[q] = replayed'[ExperimentOf[q]][cursor'[q] + 1]
                        /\ pc'[q] \notin {"down", "replay"} =>
                             state'[q] = Record(ExperimentOf[q])'
      BY DEF MemoryInv
    <3>1. CASE q = p
      BY <2>1, <2>3, <3>1 DEF Record
    <3>2. CASE q # p
      BY <1>t, <2>1, <3>2 DEF MemoryInv, Record
    <3> QED
      BY <3>1, <3>2
  <2>5. PendingInv'
    BY <1>t, <2>1 DEF PendingInv, Holders
  <2> QED
    BY <1>0, <2>2, <2>4, <2>5 DEF ControllerInv
<1> QED
  BY <1>1, <1>2, <1>3, <1>4, <1>5, <1>6, <1>7 DEF Step

\* The invariant holds in every reachable state.
THEOREM Inductive ==
  ASSUME SingleWriter, CommitAckLost = FALSE
  PROVE  Spec => []ControllerInv
<1>1. Init => ControllerInv
  <2> SUFFICES ASSUME Init PROVE ControllerInv
    OBVIOUS
  <2>1. ControlTypes
    BY InitialTypes
  <2>2. \A e \in Experiments : /\ log[e] = <<>> /\ replayed[e] = <<InitialState>>
                               /\ DOMAIN log[e] = {} /\ DOMAIN replayed[e] = {1}
                               /\ replayed[e][1] = InitialState
                               /\ Record(e) = InitialState
    BY DEF Init, Record
  <2>3. HistoryInv
    BY <2>2 DEF HistoryInv
  <2>4. MemoryInv
    BY <2>2, ProcessesAssumption DEF Init, MemoryInv
  <2>5. PendingInv
    BY DEF Init, PendingInv
  <2>6. PromotionsAuthorized /\ FencesIncrease /\ FencesBounded
    BY <2>2 DEF PromotionsAuthorized, FencesIncrease, FencesBounded
  <2>7. DesiredInv
    BY <2>2 DEF DesiredInv, InitialState
  <2> QED
    BY <2>1, <2>3, <2>4, <2>5, <2>6, <2>7 DEF ControllerInv, LogInv
<1>2. ControllerInv /\ [Next]_vars => ControllerInv'
  <2> SUFFICES ASSUME ControllerInv, [Next]_vars PROVE ControllerInv'
    OBVIOUS
  <2>1. ASSUME NEW p \in Procs, Command(p) PROVE ControllerInv'
    BY <2>1, CommandPreserves
  <2>2. ASSUME NEW p \in Procs, Step(p) PROVE ControllerInv'
    BY <2>2, StepPreserves
  <2>3. CASE \/ \E e \in Experiments : StartOwnedResources(e)
             \/ UNCHANGED vars
    <3>1. /\ UNCHANGED <<log, replayed, state, pc, call, cursor, fetched>>
          /\ ControlTypes'
      BY <2>3 DEF StartOwnedResources, vars, ControllerInv, ControlTypes
    <3>2. HistoryInv' /\ LogInv'
      BY <3>1, LogUntouched DEF ControllerInv
    <3>3. MemoryInv' /\ PendingInv'
      BY <3>1 DEF ControllerInv, MemoryInv, PendingInv, Record, Holders
    <3> QED
      BY <3>1, <3>2, <3>3 DEF ControllerInv
  <2> QED
    BY <2>1, <2>2, <2>3 DEF Next
<1> QED
  BY <1>1, <1>2, PTL DEF Spec

\* With one controller per experiment, memory always equals the replay of the
\* record, whatever crashed or failed.
THEOREM MemoryIsRecord ==
  ASSUME SingleWriter, CommitAckLost = FALSE
  PROVE  Spec => []StateMatchesRecord
<1>1. ControllerInv => StateMatchesRecord
  BY DEF ControllerInv, MemoryInv, StateMatchesRecord
<1> QED
  BY <1>1, Inductive, PTL

\* With one controller per experiment, every recorded promotion was made in
\* AUTO_DRAFTER, over its parent, with the fence of the record.
THEOREM PromotionsAreAuthorized ==
  ASSUME SingleWriter, CommitAckLost = FALSE
  PROVE  Spec => []PromotionsAuthorized
<1>1. ControllerInv => PromotionsAuthorized
  BY DEF ControllerInv, LogInv
<1> QED
  BY <1>1, Inductive, PTL

\* With one controller per experiment, fencing numbers strictly increase.
THEOREM FencesAlwaysIncrease ==
  ASSUME SingleWriter, CommitAckLost = FALSE
  PROVE  Spec => []FencesIncrease
<1>1. ControllerInv => FencesIncrease
  BY DEF ControllerInv, LogInv
<1> QED
  BY <1>1, Inductive, PTL

\* With one controller per experiment, automatic authority goes back to a
\* signed activation in force.
THEOREM AuthorityAlwaysSigned ==
  ASSUME SingleWriter, CommitAckLost = FALSE
  PROVE  Spec => []AuthorityIsSigned
<1>1. ControllerInv => AuthorityIsSigned
  BY DEF ControllerInv, LogInv, DesiredInv, SignedBefore, AuthorityIsSigned
<1> QED
  BY <1>1, Inductive, PTL


-----------------------------------------------------------------------------
(* Any number of writers *)

\* A commit stores a key only where it is absent.
LEMMA CommitKeepsKeys ==
  ASSUME ControlTypes, KeyStoredOnce, NEW p \in Procs, Commit(p)
  PROVE  KeyStoredOnce'
<1> DEFINE e == ExperimentOf[p]
<1>1. CASE e \in Holders(call[p].key)
  BY <1>1 DEF Commit, KeyStoredOnce
<1>2. CASE e \notin Holders(call[p].key)
  <2>1. PICK n \in Nat : Appended(e, n, NewEvent(p))
    BY <1>2, AppendShape
  <2>2. /\ e \in Experiments
        /\ log'[e][n + 1] = NewEvent(p) /\ NewEvent(p).key = call[p].key
        /\ \A i \in 1..n : log'[e][i] = log[e][i]
        /\ \A d \in Experiments : d # e => log'[d] = log[d]
    BY <2>1 DEF Appended, NewEvent
  <2>3. log[e] \in Seq(Events) /\ log'[e] \in Seq(Events)
    BY <2>2, CommitType DEF ControlTypes
  <2>4. DOMAIN log'[e] = 1..(n + 1) /\ DOMAIN log[e] = 1..n
    BY <2>1, <2>3 DEF Appended
  <2>5. \A i \in 1..n : log[e][i].key # call[p].key
    BY <1>2, <2>2, <2>4 DEF Holders
  <2>6. ASSUME NEW d \in Experiments, NEW i \in DOMAIN log'[d], NEW j \in DOMAIN log'[d],
               log'[d][i].key = log'[d][j].key
        PROVE  i = j
    <3>1. CASE d # e
      BY <2>2, <2>6, <3>1 DEF KeyStoredOnce
    <3>2. CASE d = e /\ i \in 1..n /\ j \in 1..n
      <4>1. i \in DOMAIN log[e] /\ j \in DOMAIN log[e] /\ log[e][i].key = log[e][j].key
        BY <2>2, <2>4, <2>6, <3>2
      <4> QED
        BY <2>2, <4>1 DEF KeyStoredOnce
    <3>3. CASE d = e /\ i = n + 1 /\ j \in 1..n
      BY <2>2, <2>5, <2>6, <3>3
    <3>4. CASE d = e /\ i \in 1..n /\ j = n + 1
      BY <2>2, <2>5, <2>6, <3>4
    <3>5. d = e => (i \in 1..n \/ i = n + 1) /\ (j \in 1..n \/ j = n + 1)
      BY <2>4
    <3> QED
      BY <3>1, <3>2, <3>3, <3>4, <3>5
  <2> QED
    BY <2>6 DEF KeyStoredOnce
<1> QED
  BY <1>1, <1>2

\* Whatever the number of writers and the answers lost, an experiment stores
\* at most one event per idempotency key.
THEOREM KeysStoredOnce == Spec => []KeyStoredOnce
<1>1. Init => KeyStoredOnce
  BY DEF Init, KeyStoredOnce
<1>2. ControlTypes /\ KeyStoredOnce /\ [Next]_vars => KeyStoredOnce'
  <2> SUFFICES ASSUME ControlTypes, KeyStoredOnce, [Next]_vars PROVE KeyStoredOnce'
    OBVIOUS
  <2>1. CASE UNCHANGED log
    BY <2>1 DEF KeyStoredOnce
  <2>2. ASSUME NEW p \in Procs, Commit(p) PROVE KeyStoredOnce'
    BY <2>2, CommitKeepsKeys
  <2>3. ASSUME NEW p \in Procs, Command(p) PROVE UNCHANGED log
    BY <2>3 DEF Command, Enable, RecoverUncertain, RecoverCertain, AcquireFence, Bootstrap,
       PromoteRejected, PromoteAccepted, FailLearning, Drain, Submit
  <2>4. ASSUME NEW p \in Procs, Step(p) PROVE UNCHANGED log \/ Commit(p)
    BY <2>4 DEF Step, LookupAbsent, LookupFound, LookupAmbiguous, RaiseConflict, AppendEvent,
       AppendUnacknowledged, RouteDrafter, RouteCandidate, Cleanup, CallFails, Crash,
       Restart, Replay, Replayed
  <2>5. ASSUME NEW e \in Experiments, StartOwnedResources(e) PROVE UNCHANGED log
    BY <2>5 DEF StartOwnedResources
  <2> QED
    BY <2>1, <2>2, <2>3, <2>4, <2>5 DEF Next, vars
<1> QED
  BY <1>1, <1>2, ControlTypesHold, PTL DEF Spec

-----------------------------------------------------------------------------
(* OFF after rest *)

\* The mode is OFF only where OFF is desired too, and OFF is desired only where
\* the experiment has come to rest: a recovery may restore OFF from FAILED.
RestInv ==
  \A e \in Experiments :
    /\ Record(e).mode = "off" => Record(e).desired = "off"
    /\ Record(e).desired = "off" => rested[e]

\* A completion still to be stored was decided after the experiment had come to
\* rest, with no event stored since, and a signed mode request never asks for OFF.
DrainInv ==
  \A p \in Procs : pc[p] \in {"lookup", "append"} =>
    /\ call[p].type = "DRAIN_COMPLETED" => rested[ExperimentOf[p]]
    /\ (/\ call[p].type = "MODE_REQUESTED"
        /\ ~call[p].payload.recovery) => call[p].payload.mode # "off"

\* How one event moves an experiment to rest.
LEMMA ReduceRest ==
  ASSUME NEW s \in States, NEW ev \in Events,
         s.mode = "off" => s.desired = "off",
         ev.type = "MODE_REQUESTED" =>
           IF ev.payload.recovery THEN ev.payload.mode = s.desired ELSE ev.payload.mode # "off"
  PROVE  /\ Reduce(s, ev).mode = "off" => Reduce(s, ev).desired = "off"
         /\ Reduce(s, ev).desired = "off" => s.desired = "off" \/ ev.type = "DRAIN_COMPLETED"
<1>t. ev.payload.recovery \in BOOLEAN /\ s.mode \in Modes
  BY DEF Events, Payloads, States
<1>1. CASE ev.type = "MODE_REQUESTED"
  BY <1>t, <1>1 DEF Reduce, States
<1>2. CASE ev.type = "RECOVERED_TO_SHADOW"
  BY <1>2 DEF Reduce, States
<1>3. CASE ev.type \notin {"MODE_REQUESTED", "RECOVERED_TO_SHADOW"}
  BY <1>3 DEF Reduce, States
<1> QED
  BY <1>1, <1>2, <1>3

\* While nothing is stored, an experiment that has come to rest stays so; a
\* cleanup that leaves nothing brings it to rest.
LEMMA RestStays ==
  ASSUME NEW e \in Experiments, Observe, log'[e] = log[e]
  PROVE  (rested[e] => rested'[e]) /\ (live'[e] = {} => rested'[e])
BY DEF Observe

\* Storing an event keeps the experiment at rest if it is at rest.
LEMMA AppendRest ==
  ASSUME SingleWriter, ControllerInv, RestInv, DrainInv, Observe, NEW p \in Procs,
         AppendEvent(p)
  PROVE  RestInv' /\ DrainInv'
<1> DEFINE e == ExperimentOf[p]
           ev == NewEvent(p)
<1>1. /\ ControlTypes /\ MemoryInv /\ PendingInv /\ pc[p] = "append" /\ Commit(p)
      /\ e \in Experiments
  BY ProcessesAssumption DEF ControllerInv, AppendEvent
<1>2. e \notin Holders(call[p].key)
  BY <1>1 DEF PendingInv
<1>3. PICK n \in Nat : Appended(e, n, ev)
  BY <1>1, <1>2, AppendShape
<1>4. /\ Record(e)' = Reduce(Record(e), ev) /\ ev \in Events
      /\ \A d \in Experiments : d # e => Record(d)' = Record(d) /\ log'[d] = log[d]
  BY <1>3 DEF Appended, Record
<1>5. Record(e) \in States /\ state[p] = Record(e)
  BY <1>1, RecordType DEF MemoryInv
<1>6. ev.type = call[p].type /\ ev.payload = call[p].payload
  BY DEF NewEvent
<1>7. ev.type = "MODE_REQUESTED" =>
        IF ev.payload.recovery THEN ev.payload.mode = Record(e).desired
        ELSE ev.payload.mode # "off"
  <2>1. ASSUME call[p].type = "MODE_REQUESTED"
        PROVE  /\ call[p].payload.recovery => call[p].payload.mode = state[p].desired
               /\ ~call[p].payload.recovery => call[p].payload.mode # "off"
    BY <1>1, <2>1 DEF PendingInv, DrainInv
  <2> HIDE DEF ev
  <2> QED
    BY <1>5, <1>6, <2>1
<1>8. ev.type = "DRAIN_COMPLETED" => rested[e]
  BY <1>1, <1>6 DEF DrainInv
<1> HIDE DEF ev
<1>9. /\ Record(e)'.mode = "off" => Record(e)'.desired = "off"
      /\ Record(e)'.desired = "off" => rested[e]
  BY <1>1, <1>4, <1>5, <1>7, <1>8, ReduceRest DEF RestInv
<1>10. RestInv'
  <2>1. Record(e)'.desired = "off" => rested'[e]
    BY <1>1, <1>9 DEF Observe
  <2>2. \A d \in Experiments : d # e => (rested[d] => rested'[d])
    BY <1>4, RestStays
  <2> QED
    BY <1>1, <1>4, <1>9, <2>1, <2>2 DEF RestInv
<1>11. DrainInv'
  <2>1. /\ pc'[p] \in Continuations
        /\ \A q \in Procs : q # p => pc'[q] = pc[q] /\ call'[q] = call[q]
    BY <1>1, AfterReturn DEF AppendEvent
  <2>2. \A q \in Procs : q # p => ExperimentOf[q] # e /\ ExperimentOf[q] \in Experiments
    BY ProcessesAssumption DEF SingleWriter
  <2>3. \A q \in Procs : q # p => (rested[ExperimentOf[q]] => rested'[ExperimentOf[q]])
    BY <1>4, <2>2, RestStays
  <2> QED
    BY <2>1, <2>3 DEF DrainInv, Continuations
<1> QED
  BY <1>10, <1>11

\* A step that leaves the record, and after which p carries neither
\* a completion nor a request for OFF.
LEMMA QuietRest ==
  ASSUME RestInv, DrainInv, Observe, NEW p \in Procs, UNCHANGED <<log, replayed>>,
         pc'[p] \in {"lookup", "append"} =>
           /\ call'[p].type # "DRAIN_COMPLETED"
           /\ (/\ call'[p].type = "MODE_REQUESTED"
               /\ ~call'[p].payload.recovery) => call'[p].payload.mode # "off",
         \A q \in Procs : q # p => pc'[q] = pc[q] /\ call'[q] = call[q]
  PROVE  RestInv' /\ DrainInv'
<1>0. \A e \in Experiments : rested[e] => rested'[e]
  BY RestStays
<1>1. RestInv'
  BY <1>0 DEF RestInv, Record
<1>2. DrainInv'
  <2> SUFFICES ASSUME NEW q \in Procs, pc'[q] \in {"lookup", "append"}
               PROVE  /\ call'[q].type = "DRAIN_COMPLETED" => rested'[ExperimentOf[q]]
                      /\ (/\ call'[q].type = "MODE_REQUESTED"
                          /\ ~call'[q].payload.recovery) => call'[q].payload.mode # "off"
    BY DEF DrainInv
  <2>1. CASE q = p
    BY <2>1
  <2>2. CASE q # p
    BY <1>0, <2>2, ProcessesAssumption DEF DrainInv
  <2> QED
    BY <2>1, <2>2
<1> QED
  BY <1>1, <1>2

LEMMA CommandRest ==
  ASSUME ControllerInv, RestInv, DrainInv, Observe, NEW p \in Procs, Command(p)
  PROVE  RestInv' /\ DrainInv'
<1>t. DOMAIN call = Procs /\ DOMAIN pc = Procs
  BY DEF ControllerInv, ControlTypes
<1>1. PICK k \in Keys :
        \/ Enable(p, k, "shadow") \/ Enable(p, k, "auto-drafter")
        \/ RecoverUncertain(p, k) \/ RecoverCertain(p, k)
        \/ \E o \in Owners : AcquireFence(p, k, o)
        \/ \E b \in Bootstraps : Bootstrap(p, k, b)
        \/ \E a \in Promotions, f \in 0..MaxFence :
             PromoteRejected(p, k, a, f) \/ PromoteAccepted(p, k, a, f)
        \/ FailLearning(p, k)
        \/ Drain(p, k)
  BY DEF Command
<1>2. ASSUME NEW m \in {"shadow", "auto-drafter"}, Enable(p, k, m)
      PROVE  RestInv' /\ DrainInv'
  <2>1. /\ call'[p].payload = [Blank EXCEPT !.mode = m] /\ call'[p].type = "MODE_REQUESTED"
        /\ UNCHANGED <<log, replayed>>
        /\ \A q \in Procs : q # p => pc'[q] = pc[q] /\ call'[q] = call[q]
    BY <1>t, <1>2 DEF Enable, Submit
  <2>2. call'[p].payload.mode # "off"
    BY <2>1 DEF Blank
  <2> QED
    BY <2>1, <2>2, QuietRest
<1>3. CASE RecoverCertain(p, k)
  <2>1. /\ call'[p].payload = [Blank EXCEPT !.mode = state[p].desired, !.recovery = TRUE]
        /\ call'[p].type = "MODE_REQUESTED" /\ UNCHANGED <<log, replayed>>
        /\ \A q \in Procs : q # p => pc'[q] = pc[q] /\ call'[q] = call[q]
    BY <1>t, <1>3 DEF RecoverCertain, Submit
  <2>2. call'[p].payload.recovery = TRUE
    BY <2>1 DEF Blank
  <2> QED
    BY <2>1, <2>2, QuietRest
<1>4. CASE Drain(p, k)
  <2>1. /\ UNCHANGED <<log, replayed>> /\ pc'[p] = "drain"
        /\ \A q \in Procs : q # p => pc'[q] = pc[q] /\ call'[q] = call[q]
    BY <1>t, <1>4 DEF Drain
  <2> QED
    BY <2>1, QuietRest
<1>5. ASSUME \/ RecoverUncertain(p, k) \/ FailLearning(p, k)
             \/ \E o \in Owners : AcquireFence(p, k, o)
             \/ \E b \in Bootstraps : Bootstrap(p, k, b)
             \/ \E a \in Promotions, f \in 0..MaxFence :
                  PromoteRejected(p, k, a, f) \/ PromoteAccepted(p, k, a, f)
      PROVE  RestInv' /\ DrainInv'
  <2>1. \E type, key, payload, fence, next :
          /\ type \notin {"DRAIN_COMPLETED", "MODE_REQUESTED"}
          /\ Submit(p, type, key, payload, fence, next)
    BY <1>5 DEF RecoverUncertain, FailLearning, AcquireFence, Bootstrap,
       PromoteRejected, PromoteAccepted
  <2>2. /\ UNCHANGED <<log, replayed>>
        /\ call'[p].type \notin {"DRAIN_COMPLETED", "MODE_REQUESTED"}
        /\ \A q \in Procs : q # p => pc'[q] = pc[q] /\ call'[q] = call[q]
    BY <1>t, <2>1 DEF Submit
  <2> QED
    BY <2>2, QuietRest
<1> QED
  BY <1>1, <1>2, <1>3, <1>4, <1>5

LEMMA StepRest ==
  ASSUME SingleWriter, CommitAckLost = FALSE, ControllerInv, RestInv, DrainInv, Observe,
         NEW p \in Procs, Step(p)
  PROVE  RestInv' /\ DrainInv'
<1> DEFINE e == ExperimentOf[p]
<1>t. /\ ControlTypes /\ e \in Experiments /\ DOMAIN live = Experiments
      /\ call \in [Procs -> Calls] /\ DOMAIN call = Procs /\ DOMAIN pc = Procs
  BY ProcessesAssumption DEF ControllerInv, ControlTypes
<1>1. CASE LookupAbsent(p)
  <2>1. CASE pc[p] = "lookup"
    <3>1. /\ UNCHANGED <<log, replayed, call>>
          /\ \A q \in Procs : q # p => pc'[q] = pc[q] /\ call'[q] = call[q]
      BY <1>1, <1>t, <2>1 DEF LookupAbsent
    <3>2. \A d \in Experiments : rested[d] => rested'[d]
      BY <3>1, RestStays
    <3>3. RestInv'
      BY <3>1, <3>2 DEF RestInv, Record
    <3>4. \A q \in Procs : pc'[q] \in {"lookup", "append"} => pc[q] \in {"lookup", "append"}
      BY <2>1, <3>1
    <3>5. DrainInv'
      BY <3>1, <3>2, <3>4, ProcessesAssumption DEF DrainInv
    <3> QED
      BY <3>3, <3>5
  <2>2. CASE pc[p] = "drain"
    <3>1. /\ UNCHANGED <<log, replayed>> /\ call'[p].type = "DRAIN_STARTED"
          /\ \A q \in Procs : q # p => pc'[q] = pc[q] /\ call'[q] = call[q]
      BY <1>1, <1>t, <2>2 DEF LookupAbsent, Calls
    <3> QED
      BY <3>1, QuietRest
  <2> QED
    BY <1>1, <2>1, <2>2 DEF LookupAbsent
<1>2. CASE LookupFound(p)
  <2>1. /\ pc'[p] \in Continuations \cup {"conflict"} /\ UNCHANGED <<log, replayed>>
        /\ \A q \in Procs : q # p => pc'[q] = pc[q] /\ call'[q] = call[q]
    BY <1>2, <1>t, AfterReturn DEF LookupFound
  <2> QED
    BY <2>1, QuietRest DEF Continuations
<1>3. CASE LookupAmbiguous(p) \/ RaiseConflict(p) \/ CallFails(p) \/ RouteDrafter(p)
           \/ RouteCandidate(p)
  <2>1. Return(p) /\ UNCHANGED <<log, replayed>>
    BY <1>3 DEF LookupAmbiguous, RaiseConflict, CallFails, RouteDrafter, RouteCandidate
  <2>2. pc'[p] = "idle" /\ \A q \in Procs : q # p => pc'[q] = pc[q] /\ call'[q] = call[q]
    BY <1>t, <2>1 DEF Return
  <2> QED
    BY <2>1, <2>2, QuietRest
<1>4. CASE AppendEvent(p)
  BY <1>4, AppendRest
<1>5. CASE AppendUnacknowledged(p)
  BY <1>5 DEF AppendUnacknowledged
<1>6. CASE Cleanup(p)
  <2>1. PICK left \in SUBSET live[e] :
          /\ live' = [live EXCEPT ![e] = left]
          /\ call' = [call EXCEPT ![p] =
               IF left = {}
               THEN [@ EXCEPT !.type = "DRAIN_COMPLETED", !.key = <<call[p].key[1], "">>,
                              !.next = "idle"]
               ELSE [@ EXCEPT !.type = "LEARNING_FAILED",
                              !.key = <<call[p].key[1], "cleanup-failed">>,
                              !.payload.resources = left, !.next = "idle"]]
    BY <1>6 DEF Cleanup
  <2>2. call'[p].type = IF left = {} THEN "DRAIN_COMPLETED" ELSE "LEARNING_FAILED"
    BY <1>t, <2>1 DEF Calls
  <2>3. live'[e] = left
    BY <1>t, <2>1
  <2>4. /\ UNCHANGED <<log, replayed>>
        /\ \A q \in Procs : q # p => pc'[q] = pc[q] /\ call'[q] = call[q]
    BY <1>6, <1>t, <2>1 DEF Cleanup
  <2>5. /\ \A d \in Experiments : rested[d] => rested'[d]
        /\ left = {} => rested'[e]
    BY <1>t, <2>3, <2>4, RestStays
  <2>6. RestInv'
    BY <2>4, <2>5 DEF RestInv, Record
  <2>7. DrainInv'
    BY <2>2, <2>4, <2>5, ProcessesAssumption DEF DrainInv
  <2> QED
    BY <2>6, <2>7
<1>7. CASE Crash(p) \/ Restart(p) \/ Replay(p) \/ Replayed(p)
  <2>1. /\ UNCHANGED <<log, replayed>> /\ pc'[p] \notin {"lookup", "append"}
        /\ \A q \in Procs : q # p => pc'[q] = pc[q] /\ call'[q] = call[q]
    BY <1>7, <1>t DEF Crash, Restart, Replay, Replayed
  <2> QED
    BY <2>1, QuietRest
<1> QED
  BY <1>1, <1>2, <1>3, <1>4, <1>5, <1>6, <1>7 DEF Step

\* With one controller per experiment and no lost acknowledgement, the record is
\* OFF only if nothing was running at some moment after the last event that left
\* another mode desired, whenever resources start.
THEOREM OffAfterRestHolds ==
  ASSUME SingleWriter, CommitAckLost = FALSE
  PROVE  Spec => []OffAfterRest
<1>1. Init => RestInv /\ DrainInv
  BY DEF Init, RestInv, DrainInv, Record, InitialState
<1>2. /\ ControllerInv /\ RestInv /\ DrainInv /\ [Next]_vars
      => RestInv' /\ DrainInv'
  <2> SUFFICES ASSUME ControllerInv, RestInv, DrainInv, [Next]_vars
               PROVE  RestInv' /\ DrainInv'
    OBVIOUS
  <2>1. ASSUME NEW p \in Procs, Command(p), Observe PROVE RestInv' /\ DrainInv'
    BY <2>1, CommandRest
  <2>2. ASSUME NEW p \in Procs, Step(p), Observe PROVE RestInv' /\ DrainInv'
    BY <2>2, StepRest
  <2>3. ASSUME NEW e \in Experiments, StartOwnedResources(e), Observe
        PROVE  RestInv' /\ DrainInv'
    <3>1. UNCHANGED <<log, replayed, pc, call>>
      BY <2>3 DEF StartOwnedResources
    <3>2. \A d \in Experiments : rested[d] => rested'[d]
      BY <2>3, <3>1, RestStays
    <3> QED
      BY <3>1, <3>2, ProcessesAssumption DEF RestInv, DrainInv, Record
  <2>4. CASE UNCHANGED vars
    BY <2>4 DEF vars, RestInv, DrainInv, Record
  <2> QED
    BY <2>1, <2>2, <2>3, <2>4 DEF Next
<1>3. RestInv => OffAfterRest
  BY DEF RestInv, OffAfterRest
<1> QED
  BY <1>1, <1>2, <1>3, Inductive, PTL DEF Spec

-----------------------------------------------------------------------------
(* Only recorded commands reach the boundary *)

\* Stored events stay where they are.
LogGrows ==
  \A e \in Experiments : \A i \in DOMAIN log[e] : i \in DOMAIN log'[e] /\ log'[e][i] = log[e][i]

LEMMA CommitGrows ==
  ASSUME ControlTypes, NEW p \in Procs, Commit(p)
  PROVE  LogGrows
<1> DEFINE e == ExperimentOf[p]
<1>1. CASE e \in Holders(call[p].key)
  BY <1>1 DEF Commit, LogGrows
<1>2. CASE e \notin Holders(call[p].key)
  <2>1. PICK n \in Nat : Appended(e, n, NewEvent(p))
    BY <1>2, AppendShape
  <2>2. /\ e \in Experiments /\ Len(log[e]) = n /\ Len(log'[e]) = n + 1
        /\ \A i \in 1..n : log'[e][i] = log[e][i]
        /\ \A d \in Experiments : d # e => log'[d] = log[d]
    BY <2>1 DEF Appended
  <2>3. log[e] \in Seq(Events) /\ log'[e] \in Seq(Events)
    BY <2>2, CommitType DEF ControlTypes
  <2>4. DOMAIN log'[e] = 1..(n + 1) /\ DOMAIN log[e] = 1..n
    BY <2>2, <2>3
  <2> QED
    BY <2>2, <2>4 DEF LogGrows
<1> QED
  BY <1>1, <1>2

\* An event of the log of p has the key and the type of the call of p.
RecordedCall(p) ==
  \E i \in DOMAIN log[ExperimentOf[p]] :
    /\ log[ExperimentOf[p]][i].key = call[p].key
    /\ log[ExperimentOf[p]][i].type = call[p].type

LEMMA StepRoutes ==
  ASSUME \A e, f \in Experiments : e = f, ControllerInv, RoutedIsRecorded,
         NEW p \in Procs, Step(p)
  PROVE  LogGrows /\ (pc'[p] \in {"route_drafter", "route_candidate"} => RecordedCall(p)')
<1> DEFINE e == ExperimentOf[p]
<1>t. /\ ControlTypes /\ PendingInv /\ e \in Experiments /\ DOMAIN pc = Procs /\ DOMAIN call = Procs
  BY ProcessesAssumption DEF ControllerInv, ControlTypes
<1>c. Continue(p) /\ pc'[p] \in {"route_drafter", "route_candidate"} => UNCHANGED call
  BY <1>t DEF Continue, Return
<1>1. CASE LookupFound(p)
  <2>1. UNCHANGED log /\ LogGrows
    BY <1>1 DEF LookupFound, LogGrows
  <2>2. ASSUME pc'[p] \in {"route_drafter", "route_candidate"}
        PROVE  RecordedCall(p)'
    <3>1. PICK f \in Experiments :
            /\ Holders(call[p].key) = {f}
            /\ IF SameCommand(f, call[p])
               THEN Continue(p)
               ELSE pc' = [pc EXCEPT ![p] = "conflict"] /\ UNCHANGED call
      BY <1>1 DEF LookupFound
    <3>2. f = e /\ SameCommand(e, call[p]) /\ UNCHANGED call
      BY <1>t, <1>c, <2>2, <3>1
    <3>3. PICK i \in DOMAIN log[e] : log[e][i].key = call[p].key
      BY <3>1, <3>2 DEF Holders
    <3>4. /\ PositionOf(e, call[p].key) \in DOMAIN log[e]
          /\ log[e][PositionOf(e, call[p].key)].key = call[p].key
      BY <3>3 DEF PositionOf
    <3>5. log[e][PositionOf(e, call[p].key)].type = call[p].type
      BY <3>2 DEF SameCommand
    <3> QED
      BY <2>1, <3>2, <3>4, <3>5 DEF RecordedCall
  <2> QED
    BY <2>1, <2>2
<1>2. CASE AppendEvent(p)
  <2>1. Commit(p) /\ e \notin Holders(call[p].key) /\ Continue(p)
    BY <1>2, <1>t DEF AppendEvent, PendingInv
  <2>2. LogGrows
    BY <1>t, <2>1, CommitGrows
  <2>3. PICK n \in Nat : Appended(e, n, NewEvent(p))
    BY <1>t, <2>1, AppendShape
  <2>4. log'[e] \in Seq(Events)
    BY <1>t, <2>1, CommitType
  <2>5. n + 1 \in DOMAIN log'[e] /\ log'[e][n + 1] = NewEvent(p)
    BY <2>3, <2>4 DEF Appended
  <2>6. ASSUME pc'[p] \in {"route_drafter", "route_candidate"}
        PROVE  RecordedCall(p)'
    <3>1. UNCHANGED call
      BY <1>c, <2>1, <2>6
    <3>2. log'[e][n + 1].key = call[p].key /\ log'[e][n + 1].type = call[p].type
      BY <2>5 DEF NewEvent
    <3> QED
      BY <2>5, <3>1, <3>2 DEF RecordedCall
  <2> QED
    BY <2>2, <2>6
<1>3. CASE AppendUnacknowledged(p)
  <2>1. Commit(p) /\ pc'[p] = "idle"
    BY <1>3, <1>t DEF AppendUnacknowledged, Return
  <2> QED
    BY <1>t, <2>1, CommitGrows
<1>4. CASE \/ LookupAmbiguous(p) \/ RaiseConflict(p) \/ CallFails(p) \/ RouteDrafter(p)
           \/ RouteCandidate(p)
  <2>1. Return(p) /\ UNCHANGED log
    BY <1>4 DEF LookupAmbiguous, RaiseConflict, CallFails, RouteDrafter, RouteCandidate
  <2> QED
    BY <1>t, <2>1 DEF Return, LogGrows
<1>5. CASE \/ LookupAbsent(p) \/ Cleanup(p) \/ Crash(p) \/ Restart(p) \/ Replay(p)
           \/ Replayed(p)
  <2>1. UNCHANGED log
    BY <1>5 DEF LookupAbsent, Cleanup, Crash, Restart, Replay, Replayed
  <2>2. pc'[p] \notin {"route_drafter", "route_candidate"}
    BY <1>5, <1>t DEF LookupAbsent, Cleanup, Crash, Restart, Replay, Replayed
  <2> QED
    BY <2>1, <2>2 DEF LogGrows
<1> QED
  BY <1>1, <1>2, <1>3, <1>4, <1>5 DEF Step

\* With one experiment, one controller and no lost acknowledgement, the
\* boundary is told to serve only what the event log of the experiment holds.
THEOREM RoutesRecorded ==
  ASSUME SingleWriter, CommitAckLost = FALSE, \A e, f \in Experiments : e = f
  PROVE  Spec => []RoutedIsRecorded
<1>1. Init => RoutedIsRecorded
  BY DEF Init, RoutedIsRecorded
<1>2. ControllerInv /\ RoutedIsRecorded /\ [Next]_vars => RoutedIsRecorded'
  <2> SUFFICES ASSUME ControllerInv, RoutedIsRecorded, [Next]_vars PROVE RoutedIsRecorded'
    OBVIOUS
  <2>t. DOMAIN pc = Procs /\ DOMAIN call = Procs
    BY DEF ControllerInv, ControlTypes
  <2>0. CASE UNCHANGED <<log, pc, call>>
    BY <2>0 DEF RoutedIsRecorded
  <2>1. ASSUME NEW p \in Procs, Command(p) \/ Step(p)
        PROVE  RoutedIsRecorded'
    <3>1. \A q \in Procs : q = p
      BY ProcessesAssumption DEF SingleWriter
    <3>2. CASE Step(p)
      BY <3>1, <3>2, StepRoutes DEF RoutedIsRecorded, RecordedCall
    <3>3. CASE Command(p)
      <4>1. pc'[p] \in {"lookup", "drain"}
        BY <2>t, <3>3 DEF Command, Enable, RecoverUncertain, RecoverCertain, AcquireFence,
           Bootstrap, PromoteRejected, PromoteAccepted, FailLearning, Drain, Submit
      <4> QED
        BY <3>1, <4>1 DEF RoutedIsRecorded
    <3> QED
      BY <2>1, <3>2, <3>3
  <2>2. ASSUME NEW e \in Experiments, StartOwnedResources(e) PROVE UNCHANGED <<log, pc, call>>
    BY <2>2 DEF StartOwnedResources
  <2> QED
    BY <2>0, <2>1, <2>2 DEF Next, vars
<1> QED
  BY <1>1, <1>2, Inductive, PTL DEF Spec

=============================================================================
