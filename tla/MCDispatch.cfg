CONSTANTS
  g1 = g1
  g2 = g2
  None = None
  Gensets <- MCGensets
  Order <- MCOrder
  Rated <- MCRated
  MinStable <- MCMinStable
  BoilerRated = 2
  ReserveMargin = 1
  MeltCeiling = 3
  Conditions <- MCConditions
  Setpoints <- MCSetpoints
  Charges <- MCCharges
  Discharges <- MCDischarges
  Melts <- MCMelts
SPECIFICATION IntervalSpec
CHECK_DEADLOCK FALSE
INVARIANT LifeSupportServed
INVARIANT CurtailedOnlyAtFloor
INVARIANT ProjectionStable
