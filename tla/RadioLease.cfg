SPECIFICATION FairSpec
CONSTANTS
  ListenMax = 1
  Cap = 1
  PeerMax = 1
  OwnMax = 2
  HandedMax = 1
  AckMailWait = 2
  AckDrain = 1
  AckDrainMax = 2
  MaxDefer = 1
  ChatGrace = 1
  AckWait = 2
  LeaseWait = 1
  ChatDrain = 1
  BurstDrain = 1
  MaxFail = 1
INVARIANTS TypeOK BurstKeepsItsMode OverlapsOnlyInHurry ChatComesBack
PROPERTIES RidesNoLine QueueRunsAgain LeaseEnds FlightEnds
