\* A v1alpha client: are extension numbers answered?  (README.md:189)
CONSTANTS
  N = 2
  Alpha = {TRUE}
  Answer <- MCAnswer
  MayAnswer <- MCMayAnswer
  MaxRequests = 1
SPECIFICATION Spec
INVARIANT
  NumbersAnswered
CHECK_DEADLOCK FALSE
