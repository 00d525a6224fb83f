SPECIFICATION MCSpec
CONSTANTS
  MaxPieces = 2
  Deadline = 60
  Slack = 2
INVARIANT StreamInv
INVARIANT CompleteIsEnded
INVARIANT ImageInv
INVARIANT OneTaskForAnImage
INVARIANT DeadlineHolds
PROPERTY ImplementsAnswerStream
PROPERTY UnsubscribeStops
PROPERTY GenerationEnds
CHECK_DEADLOCK FALSE
