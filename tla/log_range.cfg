SPECIFICATION Spec
CONSTANTS
  building = building
  viewer = viewer
  regulator = regulator
  other = other
  x = x
  Leaving <- MC_Two
  Conns <- MC_Two
  Patient <- MC_Building
  Vars <- MC_OneVar
  Kinds <- MC_Anything
  MaxReq = 2
  OutCap = 1
  Nobody = nobody
INVARIANTS RangeGivesData
