CONSTANTS
  r1 = r1
  r2 = r2
  w1 = w1
  w2 = w2
  NoRoot = NoRoot
  NoWatcher = NoWatcher
  Ticker = Ticker
  Handler = Handler
  Roots <- MCRoots
  Local <- MCLocal
  Watchers <- MCWatchers
  Limit = TRUE
  Behind = FALSE
  MaxQueue = 1
  MaxInodes = 2
  MaxChanges = 2
  MaxFaults = 1
SPECIFICATION Spec
INVARIANTS
  TypeOK
  ChangeRemembered
  NoLeakedWatcher
  OneQueuedScan
  WholeTreeWatched
PROPERTIES
  ChangeIsScanned
  OnlyWantedRuns
