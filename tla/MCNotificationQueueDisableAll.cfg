SPECIFICATION Spec
CONSTANTS
  Users = {u1, u2}
  Registered = {u1}
  Kinds = {"follower"}
  Settings = {{}, {"disableAll"}}
  Senders = {u2}
  Owners = {u1}
  Saves = {s1}
  MaxJobs = 1
  MaxTokens = 0
  MaxStalled = 1
PROPERTIES
  DisableAllIsSilent
CHECK_DEADLOCK FALSE
