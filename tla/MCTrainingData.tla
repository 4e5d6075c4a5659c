--------------------------- MODULE MCTrainingData ---------------------------
(***************************************************************************)
(* Small instances for TLC of where training data comes from and goes: the *)
(* sink of captured tensors, the split of the rows, the scripts that       *)
(* consume a captured sample, and the gate on what the result samples;     *)
(* "part" names the one that a behaviour exercises.                        *)
(***************************************************************************)
EXTENDS CaptureSink, DataSplit, SampleConsumer, SampledDistribution, TLC

CONSTANTS x, y

VARIABLE part

\* Rows as numbers, and their places as strings: "10", "11", "8", "9".
MCRows == 8 .. 11
StringRank == 8 :> 3 @@ 9 :> 4 @@ 10 :> 1 @@ 11 :> 2

Sample(ids, finish) == [ids |-> ids, finish |-> finish]
Short == Sample(<<x>>, "stop")
Long == Sample(<<x, y>>, "stop")
Cut == Sample(<<y>>, "length")

\* Arms of two replies, and what may be drawn of them.
TwoReplies == {<<Short, Long>>, <<Long, Cut>>, <<Cut, Cut>>}
SomeDraws ==
  {[k \in 1 .. 4 |-> <<1, 2>>], <<<<1, 1>>, <<1, 1>>, <<1, 2>>, <<2, 1>>>>,
   <<<<1, 1>>, <<2, 1>>, <<2, 2>>, <<1, 2>>>>, <<<<2, 1>>, <<1, 1>>, <<1, 2>>, <<2, 2>>>>}

SomeOutputs == UNION {[1 .. n -> {x, y}] : n \in 1 .. 3}

ASSUME SplitAssumption /\ GateAssumption

SomePart ==
  /\ part \in {"capture", "split", "consumer", "distance", "gate"}
  /\ part # "split" => keys = <<>>
  /\ part # "consumer" => script = "ingest" /\ content = x /\ committed = {}
  /\ part # "distance" => pair = <<<<x>>, <<x>>>>
  /\ part # "gate" => arms = [k \in 1 .. 4 |-> <<Cut, Cut>>]
  /\ Init /\ SplitInit /\ ConsumerInit /\ GateInit

PartNext ==
  /\ UNCHANGED part
  /\ \/ part = "capture" /\ Next /\ UNCHANGED <<splitVars, consumerVars, gateVars>>
     \/ part = "split" /\ SplitNext /\ UNCHANGED <<vars, consumerVars, gateVars>>
     \/ part = "consumer" /\ ConsumerNext /\ UNCHANGED <<vars, splitVars, gateVars>>
     \/ /\ \/ part = "distance" /\ CompareOutputs
           \/ part = "gate" /\ (Draw \/ Evaluate)
        /\ UNCHANGED <<vars, splitVars, consumerVars>>

PartSpec == SomePart /\ [][PartNext]_<<part, vars, splitVars, consumerVars, gateVars>>

=============================================================================
