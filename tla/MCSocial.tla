------------------------------ MODULE MCSocial -------------------------------
(* Model checking Social with a count that soon meets the end of SmallInt.   *)
EXTENDS Social, TLC

CallSymmetry == Permutations(Calls) \cup Permutations(Songs)
=============================================================================
