CONSTANTS
  v = v
  w = w
  a1 = a1
  a2 = a2
  a3 = a3
  s1 = s1
  d = d
  p = p
  NoLang = NoLang
  Und = "und"
  Kinds <- MCKinds
  TypeOf <- MCTypeOf
  LangOf <- MCLangOf
  SizeOf <- MCSizeOf
  BitRateOf <- MCBitRate
  Langs <- MCLangs
  Files <- MCOneFile
  ToolSets <- MCTools
  MaxIndex = 4
  MaxPicks = 2
  MaxOdd = 0
  MaxLost = 0
SPECIFICATION Spec
CHECK_DEADLOCK FALSE
INVARIANTS
  NeverTruncated
