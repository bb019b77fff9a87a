CONSTANTS
  p1 = p1
  p2 = p2
  r1 = r1
  s1 = s1
  s2 = s2
  NoRoot = NoRoot
  NoPath = NoPath
  Paths <- MCPaths
  Roots <- MCRoots
  Root <- MCRoot
  Scans <- MCScans
  MinStale = 1
  MaxPercent = 50
  Window = TRUE
  MaxId = 2
  MaxTime = 1
  MaxChanges = 1
SPECIFICATION Spec
CHECK_DEADLOCK FALSE
PROPERTIES
  ScansDoNotCollide
