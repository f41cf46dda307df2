\* Two upstreams, two requests, either version of the protocol.
CONSTANTS
  N = 2
  Alpha = {TRUE, FALSE}
  Answer <- MCAnswer
  MayAnswer <- MCMayAnswer
  MaxRequests = 2
SPECIFICATION FairSpec
INVARIANTS
  TypeOK
  RepliesMerge
  ErrorNeverHidden
  FailsForAReason
PROPERTIES
  AnsweredIsReplied
  LeavesHungUpstreams
CHECK_DEADLOCK FALSE
