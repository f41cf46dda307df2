\* Writes at any distance: is the file reloaded if it changes?  (README.md:169)
CONSTANTS
  Delay = 2
  Steps <- InAnyOrder
  MaxWrites = 2
SPECIFICATION FairSpec
PROPERTY
  CatchesUp
CHECK_DEADLOCK FALSE
