\* Calls of up to two messages each way.
CONSTANTS
  m1 = m1
  Empty = Empty
  Huge = Huge
  Msg <- MCMsg
  MaxMsgs = 2
SPECIFICATION FairSpec
INVARIANTS
  TypeOK
  StatusIsUpstreams
  HalfCloseIsLast
PROPERTIES
  RelaySpec
  Returns
  HalfCloseArrives
CHECK_DEADLOCK FALSE
