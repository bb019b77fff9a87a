CONSTANTS
  r1 = r1
  w1 = w1
  NoRoot = NoRoot
  NoWatcher = NoWatcher
  Ticker = Ticker
  Handler = Handler
  Roots <- MCRoots
  Local <- MCRoots
  Watchers <- MCWatchers
  Limit = FALSE
  Behind = TRUE
  MaxQueue = 2
  MaxInodes = 3
  MaxChanges = 5
  MaxFaults = 0
SPECIFICATION Spec
INVARIANTS
  WholeTreeWatched
