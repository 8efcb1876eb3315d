-------------------------- MODULE MCCallSignalling --------------------------
(* Model checking CallSignalling, and MatchQueue in it; the sockets are      *)
(* interchangeable.                                                          *)
EXTENDS CallSignalling, TLC

SocketSymmetry == Permutations(Sockets)
=============================================================================
