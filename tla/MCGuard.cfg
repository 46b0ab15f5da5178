CONSTANTS
  g1 = g1
  g2 = g2
  g3 = g3
  None = None
  Gensets <- MCGensets
  Order <- MCOrder
  Rated <- MCRated
  MinStable <- MCMinStable
  TargetLoad <- MCTargetLoad
  BurnOff <- MCBurnOff
  MinOnline = 2
  MeltersMax = 24
  Packs <- MCPacks
  Loads <- MCLoads
  Situations <- MCSituations
  HasAgent = TRUE
  HasInverter = TRUE
  EnforceBudget = TRUE
  ReserveMargin = 12
  Steps = 2
SPECIFICATION FairSpec
CHECK_DEADLOCK FALSE
INVARIANT BooksBalance
INVARIANT RecordAddsUp
INVARIANT RulesCommitFewest
INVARIANT ProposalBalances
PROPERTY SafetyAnswers
