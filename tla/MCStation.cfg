CONSTANTS
  r1 = r1
  r2 = r2
  r3 = r3
  r4 = r4
  s1 = s1
  Nobody = Nobody
  Runs <- MCRuns
  Singles <- MCSingles
  MaxRequests = 4
  LastStep = 3
  HistoryLen = 2
SPECIFICATION FairSpec
CHECK_DEADLOCK FALSE
INVARIANT AccountsAgree
INVARIANT CommandsAreFresh
INVARIANT StopFindsLoop
PROPERTY IsTimeline
PROPERTY LoopsAdvance
PROPERTY RequestsAnswered
PROPERTY StopEndsLoops
