CONSTANTS
  None = None
  TotalSteps = 4
  Warmup = 3
  BufferSize = 3
  PolicyDelay = 2
  MaxJobs = 10
  MaxRounds = 3
  NumStations = 2
  Intervals <- MCIntervals
  MaxAlone = 3
  MaxKills = 2
SPECIFICATION Spec
CHECK_DEADLOCK FALSE
INVARIANT BufferHoldsNewest
INVARIANT LossBounded
INVARIANT RejectedLeaveNoTrace
