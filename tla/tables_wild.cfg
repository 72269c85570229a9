SPECIFICATION Spec
CONSTANTS
  Containers = {"template", "object"}
  CellTags <- WildCells
  Alphabet <- AnyToken
  MaxTables = 2
  MaxRows = 2
  MaxCells = 2
  MaxText = 2
  MaxTokens = 9
  MaxTexts = 3
INVARIANT TextPlacedOnce
INVARIANT InertNotInspected
CHECK_DEADLOCK FALSE
