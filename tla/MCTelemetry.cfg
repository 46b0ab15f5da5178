CONSTANTS
  b1 = b1
  b2 = b2
  Stations <- MCStations
  Browsers <- MCBrowsers
  Deployments <- MCDeployments
  Switching <- MCSwitching
  Sockets <- MCSockets
  MaxRecords = 2
  MaxCrashes = 1
SPECIFICATION FairSpec
CHECK_DEADLOCK FALSE
INVARIANT BridgeAccounts
INVARIANT RowsInOrder
INVARIANT PageIsCurrent
PROPERTY SocketsLeave
