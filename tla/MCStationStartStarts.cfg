CONSTANTS
  r1 = r1
  r2 = r2
  r3 = r3
  r4 = r4
  s1 = s1
  Nobody = Nobody
  Runs <- MCRuns
  Singles <- Nobodies
  MaxRequests = 3
  LastStep = 3
  HistoryLen = 2
SPECIFICATION Spec
CHECK_DEADLOCK FALSE
INVARIANT StartStarts
