CONSTANTS
  a = a
  b = b
  x = x
  y = y
  cut = cut
  j1 = j1
  j2 = j2
  s1 = s1
  NoVideo = NoVideo
  NoPath = NoPath
  NoJob = NoJob
  Videos <- MCVideos
  Paths <- MCPaths
  Order <- MCOrder
  Fits <- MCFits
  Longer <- MCLonger
  Label <- MCLabel
  Stem <- MCStem
  Scans <- MCScans
  Jobs <- MCJobs
  Keep = 0
  Rewriting = FALSE
  MaxId = 2
  MaxBody = 2
  MaxTime = 1
  MaxEvents = 1
SPECIFICATION Spec
CHECK_DEADLOCK FALSE
PROPERTIES
  UnchangedMatches
