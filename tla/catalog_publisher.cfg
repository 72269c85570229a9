SPECIFICATION Spec
CONSTANTS
  Publications = {p1, p2}
  Proposals = {"wide", "bare"}
  ColumnCount <- MCColumnCount
  Names = {"voc", "complaints"}
  Tenants = {"t1", "t2"}
  Actors = {"alice", "bob"}
  Approvals = {"first", "second"}
  Plans <- MCPlans
INVARIANT ReportBoundsPortal
INVARIANT NoDanglingEdges
PROPERTY ImplementsGraph
CHECK_DEADLOCK FALSE
