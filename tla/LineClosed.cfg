SPECIFICATION FairSpec
CONSTANTS
  Node = {1,2,3}
  Line = line
  Origin = 1
  Dest = 3
  Members = {1,2,3}
  Nbr <- ChainNbr
  Dist <- ChainDist
  LineKind = "closed"
  Ttl = 3
  PrioTtl = 2
  MaxRetries = 1
  Lossy = FALSE
  Overdue = FALSE
  Patient = TRUE
  Aware = FALSE
  MaxLosses = 2
  MaxFaults = 0
INVARIANTS MarksAreTrue ReceiptsGoHome
PROPERTIES AnsweredDespiteOneLoss
CHECK_DEADLOCK FALSE
