SPECIFICATION FairSpec
CONSTANTS
  w1 = w1  w2 = w2
  dates = dates  mixed = mixed
  Workers <- TwoWorkers
  Columns <- FourColumns
  Types = {"BIGINT", "DATE", "TEXT"}
  Absent = Absent
  Loads <- TwoLoads
  Inferred <- MCInferred
  Odd <- MCOdd
  Commented = {dates}
  Legacy <- MCLegacy
  InitialTables <- MCTables
INVARIANT CopyNeverRejected
INVARIANT StoredRowsFit
INVARIANT LegacyNotSplit
PROPERTY PromotionComesWithRows
PROPERTY LoadsFinish
