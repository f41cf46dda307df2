CONSTANTS
  Conn = {u1, u2}
  Local = local
  Call = {c1, c2}
  StopOnError = TRUE
SPECIFICATION FairSpec
CHECK_DEADLOCK FALSE
INVARIANTS
  TypeOK
  StopsLoseNoCall
  CutOnlyByRetirement
  ErrorReported
PROPERTIES
  Ends
