SPECIFICATION FairSpec
CONSTANTS
  energy = energy
  logging = logging
  sntp = sntp
  DataClients <- MC_Energy
  Logger = logging
  TimeClient = sntp
  Capacity = 3
  PerRecv = 2
  CutMidAnswer = TRUE
  MaxAge = 3
  NItems = 2
  Greeters <- MC_Energy
  BadPeers <- MC_Energy
INVARIANTS TypeOK FreshOrEmpty ConnectedBeforeUse NoSharedUse FailedGivesNothing
PROPERTIES AbortsOnlyOnLogger RoundsEnd FailedIsRelinked
