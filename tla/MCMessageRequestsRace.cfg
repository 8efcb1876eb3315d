SPECIFICATION Spec
CONSTANTS
  Addresses = {a1}
  Matches = {}
  Calls = {c1}
  MaxMessages = 1
  MaxRooms = 1
  Users = {u1, u2}
  Starred = {u1}
  Asks = {k1, k2}
  MaxRequests = 2
  Attempts = 3
  MaxStalled = 1
INVARIANTS
  OneOpenRequest
CHECK_DEADLOCK FALSE
