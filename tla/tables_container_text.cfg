SPECIFICATION WellFormedSpec
CONSTANTS
  Containers = {"template", "object"}
  CellTags <- PlainCells
  Alphabet <- RegularTokens
  MaxTables = 1
  MaxRows = 1
  MaxCells = 1
  MaxText = 2
  MaxTokens = 9
  MaxTexts = 2
INVARIANT InertNotLoaded
CHECK_DEADLOCK FALSE
