SPECIFICATION Spec
CONSTANTS
  building = building
  viewer = viewer
  regulator = regulator
  other = other
  x = x
  Leaving <- MC_Nobody
  Conns <- MC_Three
  Patient <- MC_Pair
  Vars <- MC_OneVar
  Kinds <- MC_Logging
  MaxReq = 2
  OutCap = 1
  Nobody = nobody
INVARIANTS CompletePutIsOK
