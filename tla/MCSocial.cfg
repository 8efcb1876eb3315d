SPECIFICATION Spec
CONSTANTS
  Users = {u1, u2}
  Starred = {u1, u2}
  First = u1
  Calls = {c1, c2, c3}
  Limit = 1
  Songs = {song1, song2}
  Silence = Silence
  MaxCalls = 5
SYMMETRY CallSymmetry
INVARIANTS
  TypeOK
  StarsAddUp
  DuplicatesNeedRivals
  ListenersAgree
CHECK_DEADLOCK FALSE
