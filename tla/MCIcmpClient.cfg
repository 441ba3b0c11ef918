\* The summaries without a run time.
SPECIFICATION Spec
CONSTANTS
  None = None
  Count = 4
  RunTime = 3060
  ReplyTimes <- MCReplyTimes
  Platforms <- MCQuiet
INVARIANTS
  TypeOK
  LatencyComesFromReplies
  ReachableIffAnswered
  JitterWithinSpread
\* A run ends when its result is there.
CHECK_DEADLOCK FALSE
