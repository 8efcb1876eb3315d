SPECIFICATION FairSpec
CONSTANTS
  Users = {u1, u2}
  Registered = {u1}
  Kinds = {"follower"}
  Settings = {{"disableAll"}, {"follower", "disableAll"}}
  Senders = {u2}
  Owners = {u1}
  Saves = {s1}
  MaxJobs = 2
  MaxTokens = 2
  MaxStalled = 1
INVARIANTS
  TypeOK
  RowsCountStarts
  PushGoesToHisDevice
PROPERTIES
  RefusedKindStaysOut
  EveryJobSettles
CHECK_DEADLOCK FALSE
