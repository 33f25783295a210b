SPECIFICATION FairSpec
CONSTANTS
  Node = {1,2,3,4}
  Line = line
  Origin = 1
  Dest = 4
  Members = {1}
  Nbr <- ChainNbr
  Dist <- ChainDist
  LineKind = "bulletin"
  Ttl = 4
  PrioTtl = 3
  MaxRetries = 2
  Lossy = FALSE
  Overdue = FALSE
  Patient = TRUE
  Aware = TRUE
  MaxLosses = 2
  MaxFaults = 0
INVARIANTS ReceiptsGoHome CopiesAreCapped
PROPERTIES LineIsAnswered AirFallsSilent
CHECK_DEADLOCK FALSE
