CONSTANTS
  s1 = s1
  s2 = s2
  u1 = u1
  u2 = u2
  Streams <- MCStreams
  Unaries <- MCUnaries
  Workers = 2
  MaxStreams = 1
SPECIFICATION FairPoolSpec
INVARIANT SlotsConserved
PROPERTY CallsAnswered
PROPERTY SlotsComeBack
