CONSTANTS
  v = v
  w = w
  a1 = a1
  a2 = a2
  a3 = a3
  s1 = s1
  d = d
  p = p
  NoLang = NoLang
  Und = "und"
  Kinds <- MCKinds
  TypeOf <- MCTypeOf
  LangOf <- MCLangOf
  SizeOf <- MCSizeOf
  BitRateOf <- MCBitRate
  Langs <- MCLangs
  Files <- MCFiles
  ToolSets <- MCTools
  MaxIndex = 4
  MaxPicks = 2
  MaxOdd = 2
  MaxLost = 1
SPECIFICATION Spec
CHECK_DEADLOCK FALSE
INVARIANTS
  TypeOK
  RemovalExact
  TracksMeant
  SizeCheckSound
  BatchValid
