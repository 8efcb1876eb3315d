------------------------------- MODULE MCPosts --------------------------------
(* Model checking Posts with a few entries and likes.                        *)
EXTENDS Posts, TLC

PostsSymmetry == Permutations(Calls) \cup Permutations(Users)
=============================================================================
