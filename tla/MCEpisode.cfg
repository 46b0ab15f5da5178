CONSTANTS
  g1 = g1
  b1 = b1
  Gensets <- MCGensets
  Order <- MCOrder
  Rated <- MCRated
  Recoverable <- MCRated
  BoilerRated = 2
  ReserveMargin = 1
  MinUpTime = 120
  MinDownTime = 60
  Dt = 60
  CriticalLoads <- MCLoads
  FirmHeats <- MCHeats
  Sensing <- NotSensed
  Packs <- MCPacks
  Exterior <- MCExterior
  Temperatures <- MCTemperatures
  Indoors = {2}
  Derated <- MCDerated
  Frozen <- MCFrozen
  Band = 4
  Unit = 2
  Gain = 1
  Cost = 4
  HoursPerDay = 2
  DailyMelt = 4
  Steps = 5
  MeltCeiling = 4
  Melts = {0, 2}
  Starts = {0, 1}
  Charges = {0, 4}
SPECIFICATION Spec
CHECK_DEADLOCK FALSE
INVARIANT PackConserves
INVARIANT ScheduleFollowed
INVARIANT EnvelopeHolds
INVARIANT MonitorsAgree
PROPERTY FallbackMeetsWater
