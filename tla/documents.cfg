SPECIFICATION Spec
CONSTANTS
  MaxSource = 3
  Chunk = 2
  MaxFile = 5
  MaxParts = 3
  MaxDepth = 2
  Messages <- MCMessages
  MaxRows = 3
  MaxColumns = 4
  MaxTotalCells = 10
  RawDocuments <- MCRawDocuments
  MaxTokens = 3
  Aliases <- MCAliases
  Reserved <- MCReserved
  HeaderLists <- MCHeaderLists
  ColumnValues <- MCColumnValues
  MappingDocuments <- MCMappingDocuments
INVARIANT SourceReadWhole
INVARIANT WalkComplete
INVARIANT RootIsNamed
INVARIANT LoadReadsRoot
INVARIANT ProjectionExact
INVARIANT GridExact
INVARIANT NamesUnique
INVARIANT NewTableRefused
INVARIANT ProposalNamesLoad
INVARIANT ProposalFitsLoad
INVARIANT CommentsExact
INVARIANT HeaderFindsColumn
