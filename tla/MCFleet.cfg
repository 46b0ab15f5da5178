CONSTANTS
  g1 = g1
  g2 = g2
  g3 = g3
  Gensets <- MCGensets
  Order <- MCOrder
  Rated <- MCRated
  Recoverable <- MCRecoverable
  BoilerRated = 5
  ReserveMargin = 1
  MinUpTime = 30
  MinDownTime = 20
  Dt = 10
  CriticalLoads <- MCCriticalLoads
  FirmHeats <- MCHeats
  Sensing <- SafeSensing
SPECIFICATION Spec
INVARIANT ProjectionIdempotent
INVARIANT CheapestCover
PROPERTY CoverEveryInterval
PROPERTY HeatWhenNoneLocked
