SPECIFICATION Spec
CONSTANTS
  Frame = {f1, f2}
  Offerer = {"main"}
  Room = 1
  InRoom = 1
  MaxClient = 2
  Refusing = {2}
  Downlink = TRUE
INVARIANTS TypeOK FlagIsNotStale HandedOnce LaterCopyCanTry
