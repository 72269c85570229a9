SPECIFICATION FairBatchSpec
CONSTANTS
  c1 = c1  c2 = c2  c3 = c3  c4 = c4  s1 = s1  s2 = s2
  Calls <- ThreeCalls
  Sessions <- MCSessions
  NoCall = NoCall
  NoSession = NoSession
  Artifacts = {a1, a2}
  EmptyArtifacts = {a2}
  Files <- TwoAndOne
  StopOnError = {s2}
INVARIANT FailuresIsolated
INVARIANT ReportTrue
PROPERTY BatchEnds
CHECK_DEADLOCK FALSE
