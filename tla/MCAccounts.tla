----------------------------- MODULE MCAccounts -----------------------------
(* Model checking Accounts with two addresses and a few calls. Addresses,    *)
(* names and calls are interchangeable in the runs without liveness.         *)
EXTENDS Accounts, TLC

AccountSymmetry == Permutations(Emails) \cup Permutations(Names) \cup Permutations(Calls)
=============================================================================
