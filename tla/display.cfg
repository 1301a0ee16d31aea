SPECIFICATION FairSpec
CONSTANTS
  Tpco_2 = Tpco_2
  Tr_2 = Tr_2
  Names <- MC_Names
  Stamps <- MC_Stamps
  Ahead = 2
  Window = 2
  MaxLog <- MC_MaxLog
INVARIANTS TypeOK OwnRecordsInOrder
PROPERTIES TablesAreDrawn
