SPECIFICATION RoomsSpec
CONSTANTS
  Addresses = {a1}
  Matches = {a1}
  Calls = {c1, c2}
  MaxMessages = 2
  MaxRooms = 2
PROPERTIES
  NewRoomMessageIsSaved
CHECK_DEADLOCK FALSE
