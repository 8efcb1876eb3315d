SPECIFICATION FeedSpec
CONSTANTS
  Addresses = {a1, a2}
  Matches = {a1, a2}
  Calls = {c1, c2}
  MaxMessages = 2
  MaxRooms = 4
  Clients = {k1}
SYMMETRY FeedSymmetry
INVARIANTS
  FeedTypeOK
  TablesAgree
  MessageLandsAtItsAddress
  NoMessageMissed
PROPERTIES
  DeletionFollowsReplies
CHECK_DEADLOCK FALSE
