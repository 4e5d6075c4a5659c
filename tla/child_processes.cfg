SPECIFICATION ChildSpec
CONSTANTS
  NArms = 2
  Layouts <- MCLayouts
  Requests = 1
  MaxRecords = 2
  MaxNoise = 1
  x = x
  y = y
  Texts = {x, y}
  NoText = NoText
  TurnStart = 2
  MaxMessages = 5
  MaxUnread = 1
INVARIANTS MeasuredAlone NothingLeft CaptureLeavesNothing SignalAfterRecord RecordAccepted AnswerIsOurs
PROPERTY ProbesEnd
\* A probe, a run and an evaluation end.
CHECK_DEADLOCK FALSE
