SPECIFICATION RegularSpec
CONSTANTS
  Containers = {"template"}
  CellTags <- RegularCells
  Alphabet <- RegularTokens
  MaxTables = 2
  MaxRows = 3
  MaxCells = 4
  MaxText = 1
  MaxTokens = 17
  MaxTexts = 3
INVARIANT ParsersAgree
INVARIANT ProposalDescribesLoad
CHECK_DEADLOCK FALSE
