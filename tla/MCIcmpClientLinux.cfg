\* The Linux summary prints the duration of the run.
SPECIFICATION Spec
CONSTANTS
  None = None
  Count = 4
  RunTime = 3060
  ReplyTimes <- MCReplyTimes
  Platforms <- MCLinux
INVARIANT
  TotalLossIsUnreachable
CHECK_DEADLOCK FALSE
