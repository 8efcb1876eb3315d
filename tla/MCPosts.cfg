SPECIFICATION Spec
CONSTANTS
  Users = {u1, u2}
  Nobody = Nobody
  Calls = {c1, c2}
  MaxEntries = 3
  MaxLikes = 3
SYMMETRY PostsSymmetry
INVARIANTS
  TypeOK
  LikesCoverLikers
  EveryPostCanBeLiked
  ThreadsStandTogether
CHECK_DEADLOCK FALSE
