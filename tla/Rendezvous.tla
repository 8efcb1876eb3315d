----------------------------- MODULE Rendezvous -----------------------------
(***************************************************************************)
(* What the match queue of the chat gateway promises, free of arrays,      *)
(* random indices and callbacks: a meeting point with a single chair.  The *)
(* first socket to arrive sits down, the next different one to arrive      *)
(* leaves together with it, and a socket that waits may give up its chair. *)
(***************************************************************************)
EXTENDS Naturals, Sequences

CONSTANTS Sockets,   \* the socket ids that ever connect
          Nobody     \* the chair is free; not a socket

VARIABLES waiting,   \* who sits on the chair
          meetings   \* the couples that met, in order

vars == <<waiting, meetings>>

Couple == [joiner: Sockets, partner: Sockets]

Init == /\ waiting = Nobody
        /\ meetings = <<>>

Arrive(s) == /\ waiting = Nobody
             /\ waiting' = s
             /\ UNCHANGED meetings

Meet(s) == /\ waiting \in Sockets \ {s}
           /\ meetings' = Append(meetings, [joiner |-> s, partner |-> waiting])
           /\ waiting' = Nobody

GiveUp == /\ waiting # Nobody
          /\ waiting' = Nobody
          /\ UNCHANGED meetings

Next == \/ \E s \in Sockets : Arrive(s) \/ Meet(s)
        \/ GiveUp

Spec == Init /\ [][Next]_vars
=============================================================================
