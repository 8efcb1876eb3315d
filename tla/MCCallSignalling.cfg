SPECIFICATION CallsSpec
CONSTANTS
  Sockets = {s1, s2, s3}
  Nobody = Nobody
  MaxEntries = 2
  MaxPairings = 2
  MaxSignals = 2
SYMMETRY SocketSymmetry
INVARIANTS
  CallsTypeOK
  AtMostOneWaiting
  BothSidesHear
  OneMatchPerEntry
  RoomHoldsItsPair
  GoodbyeIsHeard
  CallersAreIntroduced
PROPERTIES
  ImplementsRendezvous
CHECK_DEADLOCK FALSE
