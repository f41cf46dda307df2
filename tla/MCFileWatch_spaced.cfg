\* Writes whose modification times are at least Delay apart.
CONSTANTS
  Delay = 2
  Steps <- FarApart
  MaxWrites = 4
SPECIFICATION FairSpec
INVARIANTS
  UnchangedMeansServed
PROPERTIES
  CatchesUp
  ReloadsCease
CHECK_DEADLOCK FALSE
