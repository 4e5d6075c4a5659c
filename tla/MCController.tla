---------------------------- MODULE MCController ----------------------------
(* Small instances of Controller for TLC. *)
EXTENDS Controller, TLC

CONSTANTS p1, p2, p3, e1, e2, d0, d1, d2

OneWriter == p1 :> e1
TwoWriters == p1 :> e1 @@ p2 :> e1
ThreeWriters == p1 :> e1 @@ p2 :> e1 @@ p3 :> e2

\* Who issues which commands.
Enables == {"enable-shadow", "enable-auto-drafter"}
Recoveries == {"recover-certain", "recover-uncertain"}
AllCommands ==
  p1 :> Enables \cup Recoveries \cup {"fence", "bootstrap", "promote", "fail", "drain"}
RacingCommands ==
  p1 :> {"bootstrap", "drain"} @@ p2 :> {"fail", "bootstrap"} @@ p3 :> {"fail"}
RetryCommands == p1 :> {"enable-auto-drafter", "recover-certain", "bootstrap", "promote"}
PromoterAndFencer ==
  p1 :> {"enable-auto-drafter", "recover-certain", "bootstrap", "promote"} @@ p2 :> {"fence"}
AckCommands == p1 :> Enables \cup Recoveries \cup {"bootstrap", "drain"}

\* State constraint: the first event may be anything; a longer log, with the
\* command that is under way, is either about serving (fences, bootstraps,
\* promotions, no worker running) or about the learning side (failures, drains),
\* with enables and recoveries in both.
TypesIn(e) ==
  {log[e][i].type : i \in DOMAIN log[e]}
    \cup {call[p].type : p \in {q \in Procs : pc[q] \notin {"idle", "down", "replay"}}}
OneConcern ==
  \A e \in Experiments :
    \/ Len(log[e]) <= 1
    \/ TypesIn(e) \cap {"LEARNING_FAILED", "DRAIN_STARTED"} = {} /\ live[e] = {}
    \/ TypesIn(e) \cap {"FENCE_ACQUIRED", "LAST_GOOD_SET", "PROMOTION_REJECTED"} = {}

SeedDrafter == {[drafter |-> d1, parent |-> d0]}

OneCandidate == {[experiment |-> e1, candidate |-> d2, parent |-> d1]}

=============================================================================
