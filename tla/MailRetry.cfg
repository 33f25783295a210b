SPECIFICATION FairSpec
CONSTANTS
  Gateway = {g1}
  Pinned = g1
  AutoGw = AutoGw
  Chunks = 2
  ProbeMin = 1
  Cap = 2
  MaxLosses = 2
  MaxFaults = 1
  MaxTrouble = 4
  MaxByHand = 1
PROPERTIES RetryEnds
CHECK_DEADLOCK FALSE
