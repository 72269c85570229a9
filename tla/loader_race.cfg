SPECIFICATION Spec
CONSTANTS
  c1 = c1  c2 = c2  c3 = c3
  s1 = s1  s2 = s2  a1 = a1  a2 = a2
  Calls <- ThreeCalls
  Sessions <- TwoSessions
  Artifacts = {a1}
  EmptyArtifacts = {}
  NoCall = NoCall
  NoSession = NoSession
INVARIANT SkipIsIdempotent
