----------------------------- MODULE Controller -----------------------------
(***************************************************************************)
(* The fail-closed controller of one or several experiments.               *)
(*                                                                         *)
(* A controller process keeps its ControllerState in memory only.  Every   *)
(* command looks its idempotency key up in the shared event store, appends *)
(* an event (one database transaction each), reduces what the store        *)
(* returned into the local state, and only then calls the serving          *)
(* boundary.  A restarted process rebuilds its state from the stored       *)
(* events.  The steps of different processes interleave, a process may     *)
(* die between any two of them, and a store or boundary call may fail.     *)
(*                                                                         *)
(* Abstracted: command_hash is the pair (type, payload); signatures are    *)
(* checked before the first store access and change nothing when they      *)
(* fail, so a command carries only authorizations that are genuine; clock  *)
(* readings and wording are left out.  ROLLED_BACK is reduced by the code  *)
(* but no operation of the controller records it.                          *)
(***************************************************************************)
EXTENDS Naturals, Sequences

CONSTANTS
    Procs,           \* controller processes
    Experiments,     \* experiment ids
    ExperimentOf,    \* the experiment each process controls
    Offered,         \* Offered[p]: the commands the callers of p issue
    MaxKeys,         \* bound: idempotency keys chosen by callers
    Drafters,        \* drafter ids named by authorizations
    NoDrafter,       \* the code's None
    Owners,          \* fence owners
    NoOwner,         \* the code's None
    Bootstraps,      \* signed bootstraps: [drafter, parent]
    Promotions,      \* signed promotions: [experiment, candidate, parent]
    Resources,       \* resources the learning side may own
    MaxEvents,       \* bound: events per experiment
    MaxFence,        \* bound: fencing numbers
    Crashing,        \* the processes that may die
    CommitAckLost    \* whether a commit may succeed and its answer be lost

ASSUME ProcessesAssumption == ExperimentOf \in [Procs -> Experiments]
ASSUME OfferedAssumption == Offered \in
  [Procs -> SUBSET {"enable-shadow", "enable-auto-drafter", "recover-certain",
                    "recover-uncertain", "fence", "bootstrap", "promote", "fail", "drain"}]
ASSUME DraftersAssumption == NoDrafter \notin Drafters
ASSUME OwnersAssumption == NoOwner \notin Owners
ASSUME BootstrapsAssumption == Bootstraps \subseteq [drafter : Drafters, parent : Drafters]
ASSUME PromotionsAssumption ==
  Promotions \subseteq [experiment : Experiments, candidate : Drafters, parent : Drafters]
ASSUME BoundsAssumption == MaxKeys \in Nat \ {0} /\ MaxEvents \in Nat /\ MaxFence \in Nat
ASSUME CrashingAssumption == Crashing \subseteq Procs
ASSUME AckAssumption == CommitAckLost \in BOOLEAN

VARIABLES
    log,        \* log[e]: the stored events of experiment e, in sequence order
    replayed,   \* history: replayed[e][i] is the state after the first i-1 events of e
    state,      \* state[p]: the ControllerState in the memory of process p
    pc,         \* pc[p]: where process p is inside the current call
    call,       \* call[p]: the command p is executing
    cursor,     \* cursor[p]: how many events a restarting process has reduced
    fetched,    \* fetched[p]: how many events its SELECT returned
    serving,    \* serving[e]: what the boundary was last told to serve
    live,       \* live[e]: the resources that are running
    rested      \* history: rested[e]: nothing of e was running at some moment since
                \* the last event that left a mode other than OFF desired

vars == <<log, replayed, state, pc, call, cursor, fetched, serving, live, rested>>

-----------------------------------------------------------------------------
(* Events and their reduction *)

Modes == {"off", "starting", "shadow", "auto-drafter", "draining", "failed"}

EventTypes == {"MODE_REQUESTED", "RECOVERED_TO_SHADOW", "FENCE_ACQUIRED",
               "LAST_GOOD_SET", "CANDIDATE_PROMOTED", "PROMOTION_REJECTED",
               "LEARNING_FAILED", "DRAIN_STARTED", "DRAIN_COMPLETED"}

Reasons == {"none", "experiment", "fence", "parent", "authority", "learner"}

Keys == 1..MaxKeys

\* The key of the caller, and the two that drain derives from it.
StoredKeys == Keys \X {"", "start", "cleanup-failed"}

Payloads == [mode : Modes, recovery : BOOLEAN,
             drafter : Drafters \cup {NoDrafter}, parent : Drafters \cup {NoDrafter},
             owner : Owners \cup {NoOwner}, number : Nat,
             reason : Reasons, resources : SUBSET Resources]

Events == [type : EventTypes, key : StoredKeys, payload : Payloads, fence : Nat]

States == [mode : Modes, desired : Modes,
           active : Drafters \cup {NoDrafter}, parent : Drafters \cup {NoDrafter},
           fence : Nat, owner : Owners \cup {NoOwner}]

InitialState == [mode |-> "off", desired |-> "off", active |-> NoDrafter,
                 parent |-> NoDrafter, fence |-> 0, owner |-> NoOwner]

\* A payload with no field of interest; each command sets the fields it names.
Blank == [mode |-> "off", recovery |-> FALSE, drafter |-> NoDrafter,
          parent |-> NoDrafter, owner |-> NoOwner, number |-> 0,
          reason |-> "none", resources |-> {}]

\* Mutant of Reduce: an uncertain recovery forgets to lower the desired mode.
ReduceKeepingDesired(s, ev) ==
  CASE ev.type = "MODE_REQUESTED" ->
         [s EXCEPT !.desired = ev.payload.mode,
                   !.mode = IF ev.payload.recovery THEN ev.payload.mode ELSE "starting"]
    [] ev.type = "RECOVERED_TO_SHADOW" -> [s EXCEPT !.mode = "shadow"]
    [] ev.type = "FENCE_ACQUIRED" ->
         [s EXCEPT !.fence = ev.fence, !.owner = ev.payload.owner]
    [] ev.type = "LEARNING_FAILED" -> [s EXCEPT !.mode = "failed"]
    [] ev.type = "DRAIN_STARTED" -> [s EXCEPT !.mode = "draining"]
    [] ev.type = "DRAIN_COMPLETED" -> [s EXCEPT !.mode = "off", !.desired = "off"]
    [] OTHER -> s

\* reduce_event: a mode request enters STARTING unless it comes from a
\* recovery, which restores the mode at once.
Reduce(s, ev) ==
  CASE ev.type = "MODE_REQUESTED" ->
         [s EXCEPT !.desired = ev.payload.mode,
                   !.mode = IF ev.payload.recovery THEN ev.payload.mode ELSE "starting"]
    [] ev.type = "RECOVERED_TO_SHADOW" -> [s EXCEPT !.desired = "shadow", !.mode = "shadow"]
    [] ev.type = "FENCE_ACQUIRED" ->
         [s EXCEPT !.fence = ev.fence, !.owner = ev.payload.owner]
    [] ev.type \in {"LAST_GOOD_SET", "CANDIDATE_PROMOTED"} ->
         [s EXCEPT !.active = ev.payload.drafter, !.parent = ev.payload.parent]
    [] ev.type = "LEARNING_FAILED" -> [s EXCEPT !.mode = "failed"]
    [] ev.type = "DRAIN_STARTED" -> [s EXCEPT !.mode = "draining"]
    [] ev.type = "DRAIN_COMPLETED" -> [s EXCEPT !.mode = "off", !.desired = "off"]
    [] OTHER -> s

\* Experiments whose log holds an event with this key, and its position there.
Holders(key) == {e \in Experiments : \E i \in DOMAIN log[e] : log[e][i].key = key}
PositionOf(e, key) == CHOOSE i \in DOMAIN log[e] : log[e][i].key = key

\* The state the stored events of e stand for.
Record(e) == replayed[e][Len(replayed[e])]

-----------------------------------------------------------------------------
(* Calls *)

Continuations == {"idle", "route_drafter", "route_candidate", "cleanup"}

Calls == [type : EventTypes, key : StoredKeys, payload : Payloads,
          fence : Nat, next : Continuations]

ProgramPoints == Continuations \cup
    {"lookup", "append", "drain", "conflict", "down", "replay"}

Serving == [targetOnly : BOOLEAN, candidate : Drafters \cup {NoDrafter}]

NoCall == [type |-> "PROMOTION_REJECTED", key |-> <<1, "">>,
           payload |-> Blank, fence |-> 0, next |-> "idle"]

Init ==
  /\ log = [e \in Experiments |-> <<>>]
  /\ replayed = [e \in Experiments |-> <<InitialState>>]
  /\ state = [p \in Procs |-> InitialState]
  /\ pc = [p \in Procs |-> "idle"]
  /\ call = [p \in Procs |-> NoCall]
  /\ cursor = [p \in Procs |-> 0]
  /\ fetched = [p \in Procs |-> 0]
  /\ serving = [e \in Experiments |-> [targetOnly |-> FALSE, candidate |-> NoDrafter]]
  /\ live = [e \in Experiments |-> {}]
  /\ rested = [e \in Experiments |-> TRUE]

\* The call of p ends: nothing of it stays in memory but the state.
Return(p) ==
  /\ pc' = [pc EXCEPT ![p] = "idle"]
  /\ call' = [call EXCEPT ![p] = NoCall]

\* The call of p goes on with what its command does after the event.
Continue(p) ==
  IF call[p].next = "idle"
  THEN Return(p)
  ELSE pc' = [pc EXCEPT ![p] = call[p].next] /\ UNCHANGED call

\* Process p starts executing the command (type, payload) under a key.
Submit(p, type, key, payload, fence, next) ==
  /\ pc[p] = "idle"
  /\ call' = [call EXCEPT ![p] = [type |-> type, key |-> key, payload |-> payload,
                                  fence |-> fence, next |-> next]]
  /\ pc' = [pc EXCEPT ![p] = "lookup"]
  /\ UNCHANGED <<log, replayed, state, cursor, fetched, serving, live>>

\* Only "shadow" and "auto-drafter" are accepted.
Enable(p, k, m) ==
  Submit(p, "MODE_REQUESTED", <<k, "">>, [Blank EXCEPT !.mode = m], state[p].fence, "idle")

RecoverUncertain(p, k) ==
  Submit(p, "RECOVERED_TO_SHADOW", <<k, "">>, Blank, state[p].fence, "idle")

RecoverCertain(p, k) ==
  Submit(p, "MODE_REQUESTED", <<k, "">>,
         [Blank EXCEPT !.mode = state[p].desired, !.recovery = TRUE],
         state[p].fence, "idle")

\* Mutant of AcquireFence: the current number is handed out again.
AcquireSameFence(p, k, o) ==
  /\ state[p].fence < MaxFence
  /\ Submit(p, "FENCE_ACQUIRED", <<k, "">>,
            [Blank EXCEPT !.owner = o, !.number = state[p].fence],
            state[p].fence, "idle")

\* The next fencing number is part of the payload, and so of the command hash.
AcquireFence(p, k, o) ==
  /\ state[p].fence < MaxFence
  /\ Submit(p, "FENCE_ACQUIRED", <<k, "">>,
            [Blank EXCEPT !.owner = o, !.number = state[p].fence + 1],
            state[p].fence + 1, "idle")

Bootstrap(p, k, b) ==
  Submit(p, "LAST_GOOD_SET", <<k, "">>,
         [Blank EXCEPT !.drafter = b.drafter, !.parent = b.parent],
         state[p].fence, "route_drafter")

\* Mutant of Rejection: the mode is not tested.
RejectionWithoutMode(p, a, f) ==
  IF a.experiment # ExperimentOf[p] THEN "experiment"
  ELSE IF f # state[p].fence THEN "fence"
  ELSE IF state[p].active # a.parent THEN "parent"
  ELSE "none"

\* The first reason, in the order the code tests them, to reject a promotion.
Rejection(p, a, f) ==
  IF a.experiment # ExperimentOf[p] THEN "experiment"
  ELSE IF f # state[p].fence THEN "fence"
  ELSE IF state[p].active # a.parent THEN "parent"
  ELSE IF state[p].mode # "auto-drafter" THEN "authority"
  ELSE "none"

PromoteRejected(p, k, a, f) ==
  /\ Rejection(p, a, f) # "none"
  /\ Submit(p, "PROMOTION_REJECTED", <<k, "">>,
            [Blank EXCEPT !.drafter = a.candidate, !.reason = Rejection(p, a, f)],
            state[p].fence, "idle")

PromoteAccepted(p, k, a, f) ==
  /\ Rejection(p, a, f) = "none"
  /\ Submit(p, "CANDIDATE_PROMOTED", <<k, "">>,
            [Blank EXCEPT !.drafter = a.candidate, !.parent = a.parent],
            state[p].fence, "route_candidate")

FailLearning(p, k) ==
  Submit(p, "LEARNING_FAILED", <<k, "">>, [Blank EXCEPT !.reason = "learner"],
         state[p].fence, "idle")

\* drain first asks whether this very drain has completed before.
Drain(p, k) ==
  /\ pc[p] = "idle"
  /\ pc' = [pc EXCEPT ![p] = "drain"]
  /\ call' = [call EXCEPT ![p] = [type |-> "DRAIN_COMPLETED", key |-> <<k, "">>,
                                  payload |-> Blank, fence |-> state[p].fence,
                                  next |-> "idle"]]
  /\ UNCHANGED <<log, replayed, state, cursor, fetched, serving, live>>

-----------------------------------------------------------------------------
(* Steps inside a call *)

\* Mutant of SameCommand: the command hash is not compared.
SameKeyIsEnough(e, c) == TRUE

\* The event found under the key was written by the same command.
SameCommand(e, c) ==
  LET ev == log[e][PositionOf(e, c.key)]
  IN  ev.type = c.type /\ ev.payload = c.payload

\* get_by_idempotency_key searches every experiment: no event, one event to
\* compare, or an "ambiguous across experiments" error that ends the call.
LookupAbsent(p) ==
  /\ pc[p] \in {"lookup", "drain"}
  /\ Holders(call[p].key) = {}
  /\ IF pc[p] = "lookup"
     THEN pc' = [pc EXCEPT ![p] = "append"] /\ UNCHANGED call
     ELSE /\ pc' = [pc EXCEPT ![p] = "lookup"]
          /\ call' = [call EXCEPT ![p].type = "DRAIN_STARTED",
                                  ![p].key = <<call[p].key[1], "start">>,
                                  ![p].next = "cleanup"]
  /\ UNCHANGED <<log, replayed, state, cursor, fetched, serving, live>>

LookupFound(p) ==
  /\ pc[p] \in {"lookup", "drain"}
  /\ \E e \in Experiments :
       /\ Holders(call[p].key) = {e}
       /\ IF SameCommand(e, call[p])
          THEN Continue(p)
          ELSE pc' = [pc EXCEPT ![p] = "conflict"] /\ UNCHANGED call
  /\ UNCHANGED <<log, replayed, state, cursor, fetched, serving, live>>

LookupAmbiguous(p) ==
  /\ pc[p] \in {"lookup", "drain"}
  /\ \E e, f \in Holders(call[p].key) : e # f
  /\ Return(p)
  /\ UNCHANGED <<log, replayed, state, cursor, fetched, serving, live>>

\* CommandConflictError leaves the call.
RaiseConflict(p) ==
  /\ pc[p] = "conflict"
  /\ Return(p)
  /\ UNCHANGED <<log, replayed, state, cursor, fetched, serving, live>>

NewEvent(p) == [type |-> call[p].type, key |-> call[p].key,
                payload |-> call[p].payload, fence |-> call[p].fence]

\* The append transaction: under the lock of the experiment, the event that
\* already has the key is returned, or the new one is stored.
Stored(p) ==
  LET e == ExperimentOf[p]
  IN  IF e \in Holders(call[p].key) THEN log[e][PositionOf(e, call[p].key)] ELSE NewEvent(p)

\* Mutant of Commit: the transaction does not look for the key again.
CommitWithoutRecheck(p) ==
  LET e == ExperimentOf[p]
  IN  /\ Len(log[e]) < MaxEvents
      /\ log' = [log EXCEPT ![e] = Append(@, NewEvent(p))]
      /\ replayed' = [replayed EXCEPT ![e] = Append(@, Reduce(Record(e), NewEvent(p)))]

Commit(p) ==
  LET e == ExperimentOf[p]
  IN  IF e \in Holders(call[p].key)
      THEN UNCHANGED <<log, replayed>>
      ELSE /\ Len(log[e]) < MaxEvents
           /\ log' = [log EXCEPT ![e] = Append(@, NewEvent(p))]
           /\ replayed' = [replayed EXCEPT ![e] = Append(@, Reduce(Record(e), NewEvent(p)))]

AppendEvent(p) ==
  /\ pc[p] = "append"
  /\ Commit(p)
  /\ state' = [state EXCEPT ![p] = Reduce(@, Stored(p))]
  /\ Continue(p)
  /\ UNCHANGED <<cursor, fetched, serving, live>>

\* The transaction commits but the process only sees a connection error.
AppendUnacknowledged(p) ==
  /\ CommitAckLost
  /\ pc[p] = "append"
  /\ Commit(p)
  /\ Return(p)
  /\ UNCHANGED <<state, cursor, fetched, serving, live>>

RouteDrafter(p) ==
  /\ pc[p] = "route_drafter"
  /\ serving' = [serving EXCEPT ![ExperimentOf[p]].targetOnly = FALSE]
  /\ Return(p)
  /\ UNCHANGED <<log, replayed, state, cursor, fetched, live>>

RouteCandidate(p) ==
  /\ pc[p] = "route_candidate"
  /\ serving' = [serving EXCEPT ![ExperimentOf[p]] =
                   [targetOnly |-> FALSE, candidate |-> call[p].payload.drafter]]
  /\ Return(p)
  /\ UNCHANGED <<log, replayed, state, cursor, fetched, live>>

\* Mutant of Cleanup: drain completes without asking what is left.
CleanupUnchecked(p) ==
  LET e == ExperimentOf[p]
      k == call[p].key[1]
  IN  /\ pc[p] = "cleanup"
      /\ \E left \in SUBSET live[e] : live' = [live EXCEPT ![e] = left]
      /\ call' = [call EXCEPT ![p].type = "DRAIN_COMPLETED", ![p].key = <<k, "">>,
                              ![p].next = "idle"]
      /\ pc' = [pc EXCEPT ![p] = "lookup"]
      /\ UNCHANGED <<log, replayed, state, cursor, fetched, serving>>

\* cleanup stops some of the resources; what is left decides how drain ends.  A
\* start between cleanup and the look at live_resources is one before cleanup, of
\* which all is left.
Cleanup(p) ==
  LET e == ExperimentOf[p]
      k == call[p].key[1]
  IN  /\ pc[p] = "cleanup"
      /\ \E left \in SUBSET live[e] :
           /\ live' = [live EXCEPT ![e] = left]
           /\ call' = [call EXCEPT ![p] =
                IF left = {}
                THEN [@ EXCEPT !.type = "DRAIN_COMPLETED", !.key = <<k, "">>, !.next = "idle"]
                ELSE [@ EXCEPT !.type = "LEARNING_FAILED", !.key = <<k, "cleanup-failed">>,
                               !.payload.resources = left, !.next = "idle"]]
      /\ pc' = [pc EXCEPT ![p] = "lookup"]
      /\ UNCHANGED <<log, replayed, state, cursor, fetched, serving>>

-----------------------------------------------------------------------------
(* Failures, restarts and the learning side *)

\* The store or the boundary raises: the call ends where it is.
CallFails(p) ==
  /\ pc[p] \in {"lookup", "drain", "append", "route_drafter", "route_candidate", "cleanup"}
  /\ Return(p)
  /\ UNCHANGED <<log, replayed, state, cursor, fetched, serving, live>>

Crash(p) ==
  /\ p \in Crashing
  /\ pc[p] # "down"
  /\ pc' = [pc EXCEPT ![p] = "down"]
  /\ state' = [state EXCEPT ![p] = InitialState]
  /\ call' = [call EXCEPT ![p] = NoCall]
  /\ cursor' = [cursor EXCEPT ![p] = 0]
  /\ fetched' = [fetched EXCEPT ![p] = 0]
  /\ UNCHANGED <<log, replayed, serving, live>>

\* __init__: one SELECT, then the events are reduced one by one.
Restart(p) ==
  /\ pc[p] = "down"
  /\ pc' = [pc EXCEPT ![p] = "replay"]
  /\ fetched' = [fetched EXCEPT ![p] = Len(log[ExperimentOf[p]])]
  /\ UNCHANGED <<log, replayed, state, call, cursor, serving, live>>

Replay(p) ==
  /\ pc[p] = "replay"
  /\ cursor[p] < fetched[p]
  /\ state' = [state EXCEPT ![p] = Reduce(@, log[ExperimentOf[p]][cursor[p] + 1])]
  /\ cursor' = [cursor EXCEPT ![p] = @ + 1]
  /\ UNCHANGED <<log, replayed, pc, call, fetched, serving, live>>

\* Mutant of Replayed: the last fetched event is not reduced.
ReplayedTooEarly(p) ==
  /\ pc[p] = "replay"
  /\ cursor[p] + 1 >= fetched[p]
  /\ pc' = [pc EXCEPT ![p] = "idle"]
  /\ cursor' = [cursor EXCEPT ![p] = 0]
  /\ fetched' = [fetched EXCEPT ![p] = 0]
  /\ UNCHANGED <<log, replayed, state, call, serving, live>>

Replayed(p) ==
  /\ pc[p] = "replay"
  /\ cursor[p] = fetched[p]
  /\ pc' = [pc EXCEPT ![p] = "idle"]
  /\ cursor' = [cursor EXCEPT ![p] = 0]
  /\ fetched' = [fetched EXCEPT ![p] = 0]
  /\ UNCHANGED <<log, replayed, state, call, serving, live>>

\* Nothing ties a start to the recorded mode or to a drain in progress: workers
\* may start at any moment, between the cleanup of a drain and its completion too.
StartOwnedResources(e) ==
  /\ live' = [live EXCEPT ![e] = Resources]
  /\ UNCHANGED <<log, replayed, state, pc, call, cursor, fetched, serving>>

-----------------------------------------------------------------------------

\* Bounds on the callers: keys are only compared, so drawing fresh ones in
\* order loses nothing; no command is issued to a full log.
Used(k) == \/ \E e \in Experiments : \E i \in DOMAIN log[e] : log[e][i].key[1] = k
           \/ \E p \in Procs : pc[p] \notin {"idle", "down", "replay"} /\ call[p].key[1] = k

MayUse(p, k) == /\ \A j \in Keys : j < k => Used(j)
                /\ Len(log[ExperimentOf[p]]) < MaxEvents

Command(p) ==
  \E k \in Keys :
    /\ MayUse(p, k)
    /\ \/ "enable-shadow" \in Offered[p] /\ Enable(p, k, "shadow")
       \/ "enable-auto-drafter" \in Offered[p] /\ Enable(p, k, "auto-drafter")
       \/ "recover-uncertain" \in Offered[p] /\ RecoverUncertain(p, k)
       \/ "recover-certain" \in Offered[p] /\ RecoverCertain(p, k)
       \/ "fence" \in Offered[p] /\ \E o \in Owners : AcquireFence(p, k, o)
       \/ "bootstrap" \in Offered[p] /\ \E b \in Bootstraps : Bootstrap(p, k, b)
       \/ "promote" \in Offered[p] /\ \E a \in Promotions, f \in 0..MaxFence :
            PromoteRejected(p, k, a, f) \/ PromoteAccepted(p, k, a, f)
       \/ "fail" \in Offered[p] /\ FailLearning(p, k)
       \/ "drain" \in Offered[p] /\ Drain(p, k)

Step(p) ==
  \/ LookupAbsent(p) \/ LookupFound(p) \/ LookupAmbiguous(p) \/ RaiseConflict(p)
  \/ AppendEvent(p) \/ AppendUnacknowledged(p)
  \/ RouteDrafter(p) \/ RouteCandidate(p) \/ Cleanup(p)
  \/ CallFails(p) \/ Crash(p) \/ Restart(p) \/ Replay(p) \/ Replayed(p)

\* The history of what ran beside the record, read off every step.
Observe ==
  rested' = [e \in Experiments |->
    \/ live'[e] = {}
    \/ rested[e] /\ (log'[e] = log[e] \/ Record(e)'.desired = "off")]

Next ==
  /\ \/ \E p \in Procs : Command(p) \/ Step(p)
     \/ \E e \in Experiments : StartOwnedResources(e)
  /\ Observe

Spec == Init /\ [][Next]_vars

-----------------------------------------------------------------------------
(* Properties *)

\* Types of what the controllers, the store and the boundary keep.
ControlTypes ==
  /\ log \in [Experiments -> Seq(Events)]
  /\ replayed \in [Experiments -> Seq(States)]
  /\ \A e \in Experiments : Len(replayed[e]) = Len(log[e]) + 1
  /\ state \in [Procs -> States]
  /\ pc \in [Procs -> ProgramPoints]
  /\ call \in [Procs -> Calls]
  /\ cursor \in [Procs -> Nat]
  /\ fetched \in [Procs -> Nat]
  /\ \A p \in Procs : cursor[p] <= fetched[p] /\ fetched[p] <= Len(log[ExperimentOf[p]])
  /\ serving \in [Experiments -> Serving]
  /\ live \in [Experiments -> SUBSET Resources]

\* Types of every variable.
TypeOK == ControlTypes /\ rested \in [Experiments -> BOOLEAN]

\* No two processes control the same experiment.
SingleWriter == \A p, q \in Procs : ExperimentOf[p] = ExperimentOf[q] => p = q

\* The state in memory is what a fresh process would rebuild from the stored
\* events, at every point of every command and after every failed call
\* (test_restart_reconstructs_identical_state_from_events).
StateMatchesRecord ==
  \A p \in Procs : pc[p] \notin {"down", "replay"} => state[p] = Record(ExperimentOf[p])

\* Whoever replays the log up to a recorded promotion is in AUTO_DRAFTER, has
\* the promotion's parent as active drafter and holds the promotion's fencing
\* number: what promote checked still held when the event was stored.
PromotionsAuthorized ==
  \A e \in Experiments : \A i \in DOMAIN log[e] :
    log[e][i].type = "CANDIDATE_PROMOTED" =>
      /\ replayed[e][i].mode = "auto-drafter"
      /\ replayed[e][i].active = log[e][i].payload.parent
      /\ replayed[e][i].fence = log[e][i].fence

\* Automatic authority always goes back to a signed AUTO_DRAFTER activation
\* that no drain, uncertain recovery or other mode request has followed.
AuthorityIsSigned ==
  \A e \in Experiments : \A i \in DOMAIN replayed[e] :
    replayed[e][i].mode = "auto-drafter" =>
      \E j \in 1..(i - 1) :
        /\ log[e][j].type = "MODE_REQUESTED"
        /\ log[e][j].payload.mode = "auto-drafter"
        /\ ~log[e][j].payload.recovery
        /\ \A n \in (j + 1)..(i - 1) :
             /\ log[e][n].type \notin {"RECOVERED_TO_SHADOW", "DRAIN_COMPLETED"}
             /\ log[e][n].type = "MODE_REQUESTED" =>
                  log[e][n].payload.mode = "auto-drafter"

\* No fencing number is handed out twice in an experiment, and later ones are
\* larger, so a number identifies the writer that acquired it.
FencesIncrease ==
  \A e \in Experiments : \A i, j \in DOMAIN log[e] :
    (/\ i < j
     /\ log[e][i].type = "FENCE_ACQUIRED"
     /\ log[e][j].type = "FENCE_ACQUIRED") => log[e][i].fence < log[e][j].fence

\* The record says OFF only if nothing was running at some moment after the
\* last event that left another mode desired: a drain that is retried under its
\* key, whose DRAIN_STARTED is then not stored again, does not rest on a cleanup
\* from before a recovery, nor on one that left something, and recover(CERTAIN)
\* restores OFF only where a drain had come to rest.  What runs under OFF was
\* started later (README: "OFF: no GPU work should run").
OffAfterRest ==
  \A e \in Experiments : Record(e).mode = "off" => rested[e]

\* However lookups and appends of several writers interleave, an experiment
\* stores at most one event per idempotency key.
KeyStoredOnce ==
  \A e \in Experiments : \A i, j \in DOMAIN log[e] :
    log[e][i].key = log[e][j].key => i = j

\* The boundary is told to serve something only after the bootstrap or the
\* promotion is an event of the controller's own experiment.
RoutedIsRecorded ==
  \A p \in Procs : pc[p] \in {"route_drafter", "route_candidate"} =>
    \E i \in DOMAIN log[ExperimentOf[p]] :
      /\ log[ExperimentOf[p]][i].key = call[p].key
      /\ log[ExperimentOf[p]][i].type = call[p].type

\* Repeating a promotion that is already recorded under the same key is not a
\* conflict: the command content has not changed.
RepeatedPromotionAccepted ==
  \A p \in Procs :
    ~ /\ pc[p] = "conflict"
      /\ call[p].type = "PROMOTION_REJECTED"
      /\ \E i \in DOMAIN log[ExperimentOf[p]] :
           /\ log[ExperimentOf[p]][i].type = "CANDIDATE_PROMOTED"
           /\ log[ExperimentOf[p]][i].key = call[p].key
           /\ log[ExperimentOf[p]][i].payload.drafter = call[p].payload.drafter

=============================================================================
