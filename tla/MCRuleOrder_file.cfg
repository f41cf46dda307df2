\* Files of up to three rules, with and without a not-matched section: lists of
\* up to three rules are sorted stably, those of four are not.
CONSTANTS
  u1 = u1  u2 = u2  h1 = h1  h2 = h2  m1 = m1  m2 = m2
  NoMatcher = NoMatcher
  Default = Default
  StableLen = 3
  Uri <- MCUri
  Pred <- MCPred
  Msg <- MCMsg
  Config <- AllFiles
SPECIFICATION Spec
INVARIANTS
  RoutesToBest
  NeverOutranked
CHECK_DEADLOCK FALSE
