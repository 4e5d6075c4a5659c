SPECIFICATION PartSpec
CONSTANTS
  NFeatures = 3
  MaxSamples = 4
  Rows <- MCRows
  rank <- StringRank
  Values = {x, y}
  Few = 3
  Contents = {x, y}
  Tokens = {x, y}
  Finishes = {"stop", "length"}
  Outputs <- SomeOutputs
  MaxLength = 3
  Units = 60
  ArmSize = 2
  ArmChoices <- TwoReplies
  Draws <- SomeDraws
  Resamples = 3
  Confidence = 50
  Margin = 10
  x = x
  y = y
INVARIANTS ResponseStands NothingMixed GroupsAreConnected MeasuredOnUnseen
           CheckpointsWhole AcceptedIsComplete SampleFreed DistanceIsEditDistance PassedIsConfident
\* Calls of put_sample are bounded, a plan is complete and a script ends.
CHECK_DEADLOCK FALSE
