CONSTANTS
  j1 = j1
  j2 = j2
  scan = scan
  NoJob = NoJob
  Jobs <- MCJobs
  Passes <- MCPasses
  Windows = {}
  MaxWrites = 3
  MaxCrashes = 1
SPECIFICATION FairSpec
INVARIANTS
  TypeOK
  RowDescribesFile
  NoTempLeft
PROPERTIES
  RightTracks
  NoLostReplacement
  CatalogConverges
