\* Two sync jobs and an import, whose batch may repeat a play, over two plays.
CONSTANTS
  SyncWorker = {w1, w2}
  StatsTable = {tracks}
  MaxPlay = 2
  PageSize = 1
  Retention = 2
  MaxPages = 2
  MaxRepeat = 2
  MaxFaults = 1
SPECIFICATION Spec
SYMMETRY Symmetry
INVARIANTS NoPhantomStats StatsWithinTotals OvercountBounded NoGapBelowLastIngested
PROPERTY ImplementsLedger
