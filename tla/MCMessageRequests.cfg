SPECIFICATION FairSpec
CONSTANTS
  Addresses = {a1, a2}
  Matches = {}
  Calls = {c1, c2}
  MaxMessages = 2
  MaxRooms = 3
  Users = {u1, u2}
  Starred = {u1}
  Asks = {k1}
  MaxRequests = 1
  Attempts = 3
  MaxStalled = 1
INVARIANTS
  TypeOK
  OneRoomPerRequest
  AcceptedRoomExpires
PROPERTIES
  ImplementsLifecycle
  AcceptedGetsRoom
  QueuedRoomGoes
CHECK_DEADLOCK FALSE
