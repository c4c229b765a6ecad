SPECIFICATION Spec
CONSTANTS
  Ids = {1, 2, 3}
  Archive = {2}
  Take <- MCTake
  MaxFaults = 1
  MaxWait = 6
INVARIANTS
  TypeOK
  CurrentNotDelayed
PROPERTY
  EveryRowVisited
