CONSTANTS
  Slaves <- EdgeSlaves
  Starts <- EdgeStarts
  Words <- EdgeWords
  Counts <- EdgeCounts
  SubCounts <- EdgeSubCounts
  CoilCounts <- EdgeCoils
  DamageLen = 12
  table_crc_hi <- TableCrcHi
  table_crc_lo <- TableCrcLo
SPECIFICATION FrameSpec
INVARIANTS
  TablesAreCrc16
  VerdictIsIntact
  ByteCountIsRest
  PayloadIsCovered
CHECK_DEADLOCK FALSE
