SPECIFICATION Spec
CONSTANTS
  Node = {1,2,3}
  Line = line
  Origin = 1
  Dest = 3
  Members = {1}
  Nbr <- ChainNbr
  Dist <- ChainDist
  LineKind = "direct"
  Ttl = 3
  PrioTtl = 3
  MaxRetries = 1
  Lossy = TRUE
  Overdue = TRUE
  Patient = FALSE
  Aware = FALSE
  MaxLosses = 0
  MaxFaults = 1
INVARIANTS TypeOK HopsAreSpent FinishedIsNotKeyed MarksAreTrue
PROPERTIES GivesUpOnlyUnheard MarksMoveForward ServesLine
CHECK_DEADLOCK FALSE
