------------------------------- MODULE Session -------------------------------
(***************************************************************************)
(* Connections to the control store and the calls they execute: the part   *)
(* that the table modules share.  A call is one transaction; its first     *)
(* statement opens it, and its end, commit or rollback, closes the         *)
(* connection (PostgresControlStore._connection).                          *)
(***************************************************************************)
EXTENDS Naturals

CONSTANTS
    Sessions,
    NoSession,
    NoCall,
    MaxCalls       \* bound: calls made in all

SessionAssumption == NoSession \notin Sessions /\ MaxCalls \in Nat

VARIABLES
    pc,            \* pc[s]: the last statement of session s
    call,          \* call[s]: the call it executes
    issued         \* how many calls were made

sessionVars == <<pc, call, issued>>

SessionInit ==
  /\ pc = [s \in Sessions |-> "idle"]
  /\ call = [s \in Sessions |-> NoCall]
  /\ issued = 0

Begin(s, c) ==
  /\ pc[s] = "idle"
  /\ issued < MaxCalls
  /\ issued' = issued + 1
  /\ pc' = [pc EXCEPT ![s] = "begun"]
  /\ call' = [call EXCEPT ![s] = c]

Goto(s, point) ==
  /\ pc' = [pc EXCEPT ![s] = point]
  /\ UNCHANGED <<call, issued>>

End(s) ==
  /\ pc' = [pc EXCEPT ![s] = "idle"]
  /\ call' = [call EXCEPT ![s] = NoCall]
  /\ UNCHANGED issued

\* Session s executes this operation and has come to this point.
At(s, point, op) == pc[s] = point /\ call[s].op = op

=============================================================================
