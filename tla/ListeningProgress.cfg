CONSTANTS
  SyncWorker = {w1, w2}
  StatsTable = {tracks}
  MaxPlay = 3
  PageSize = 1
  Retention = 2
  MaxPages = 2
  MaxRepeat = 0
  MaxFaults = 1
SPECIFICATION SeedSpec
PROPERTIES EveryPlaySettled
