SPECIFICATION FairSpec
CONSTANTS
  Gateway = {g1, g2}
  Pinned = AutoGw
  AutoGw = AutoGw
  Chunks = 2
  ProbeMin = 1
  Cap = 1
  MaxLosses = 3
  MaxFaults = 1
  MaxByHand = 1
  MaxTrouble = 3
INVARIANTS TypeOK PostedOncePerGateway
PROPERTIES ServesMail SentStays MailEnds GetsThrough
CHECK_DEADLOCK FALSE
