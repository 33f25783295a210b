SPECIFICATION FairSpec
CONSTANTS
  Frame = {f1, f2}
  Offerer = {"main"}
  Room = 1
  InRoom = 1
  MaxClient = 1
  Refusing = {}
  Downlink = TRUE
PROPERTIES MainComesBack
