\* A client that speaks v1: do extension numbers come from the first upstream
\* that answers without an error?  (README.md:189, reflection.go:305)
CONSTANTS
  N = 2
  Alpha = {FALSE}
  Answer <- MCAnswer
  MayAnswer <- MCMayAnswer
  MaxRequests = 1
SPECIFICATION Spec
INVARIANT
  NumbersReplied
CHECK_DEADLOCK FALSE
