CONSTANTS
  server = server
  mcp = mcp
  s1 = s1
  m1 = m1
  NoProc = NoProc
  NoWorker = NoWorker
  Procs <- MCProcs
  Workers <- MCWorkers
  Home <- MCHome
  Cancellers = {server}
  MaxJobs = 2
  MaxStops = 1
  MaxCrashes = 1
  MaxFaults = 1
  MaxTrouble = 2
SPECIFICATION FairSpec
INVARIANTS
  TypeOK
  OneQueueRunner
  ExecutedOnce
  HeldJobIsRunning
  NoOrphanJob
  CancelMapsExact
  CancelHonoured
PROPERTIES
  EndIsFinal
  ImplementsLifecycle
  QueuedIsServed
  RunningEnds
  StopCompletes
