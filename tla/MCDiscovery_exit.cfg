\* One provider: is everything closed on exit?  (service.go 29)
CONSTANTS
  a = a  b = b  r1 = r1  r2 = r2  m1 = m1  m2 = m2  u1 = u1  h1 = h1  s1 = s1
  NoMatcher = NoMatcher
  Mock = Mock
  StableLen = 12
  NProviders = 1
  Name <- MCName
  Uri <- MCUri
  Pred <- MCPred
  Msg <- MCMsg
  File <- AllFiles
  Request = {r2}
  UriOf <- MCUriOf
  MdOf <- MCMdOf
  Stream = {s1}
  Reflecting = {b}
  MaxMerges = 2
SPECIFICATION FairSpec
INVARIANT
  ClosedOnExit
CHECK_DEADLOCK FALSE
