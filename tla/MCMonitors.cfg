CONSTANTS
  c1 = c1
  c2 = c2
  c3 = c3
  Keys <- MCKeys
  Channels <- MCChannels
  MaxStale <- MCMaxStale
  Readings <- MCReadings
  Garbage = Garbage
  Missing = Missing
  Interventions = 2
  Distances = {0, 2}
  Threshold = 1
  MaxCalls = 3
  Clients = {"a", "b"}
  MaxRequests = 2
  WindowS = 2
  MaxTime = 6
SPECIFICATION Spec
CHECK_DEADLOCK FALSE
INVARIANT GradesAreRecent
INVARIANT LimiterExact
