CONSTANTS
  t1 = t1
  t2 = t2
  t3 = t3
  t4 = t4
  k1 = k1
  k2 = k2
  o1 = o1
  o2 = o2
  o3 = o3
  NoObject = NoObject
  NoThread = NoThread
  Threads <- MCThreads
  Keys <- MCKeys
  Objects <- MCObjects
SPECIFICATION FairSpec
INVARIANTS
  TypeOK
  EntriesExact
PROPERTIES
  ImplementsPathLock
  EveryoneServed
