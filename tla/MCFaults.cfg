CONSTANTS
  g1 = g1
  g2 = g2
  b1 = b1
  b2 = b2
  Gensets <- MCGensets
  Order <- MCOrder
  Rated <- MCRated
  Recoverable <- MCRecoverable
  BoilerRated = 5
  ReserveMargin = 1
  MinUpTime = 20
  MinDownTime = 20
  Dt = 10
  CriticalLoads <- MCCriticalLoads
  FirmHeats <- MCFirmHeats
  Sensing <- NotSensed
  Batteries <- MCBatteries
  Schedules <- MCSchedules
  EpisodeSteps = 6
SPECIFICATION Spec
CHECK_DEADLOCK FALSE
PROPERTY LockoutsReleased
PROPERTY TripHoldsInBenchmark
PROPERTY CoverDespiteTrips
