-------------------------- MODULE RequestLifecycle --------------------------
(***************************************************************************)
(* What becomes of a message request, as its two users see it: it is made, *)
(* decided once (accepted or rejected by the one asked, or retrieved by    *)
(* the one who asked), and when it was accepted, one room is opened for it.*)
(***************************************************************************)
CONSTANT Requests   \* the ids of message requests

VARIABLES fate,     \* what became of each request
          opened    \* the rooms opened for each request

vars == <<fate, opened>>

Decisions == {"accepted", "rejected", "retrieved"}

Init == /\ fate = [q \in Requests |-> "none"]
        /\ opened = [q \in Requests |-> {}]

Make(q) == /\ fate[q] = "none"
           /\ fate' = [fate EXCEPT ![q] = "pending"]
           /\ UNCHANGED opened

Decide(q, decision) == /\ fate[q] = "pending"
                       /\ fate' = [fate EXCEPT ![q] = decision]
                       /\ UNCHANGED opened

(* Some room is opened, whatever its id. *)
Open(q) == /\ fate[q] = "accepted"
           /\ opened[q] = {}
           /\ \E room \in opened'[q] : opened' = [opened EXCEPT ![q] = {room}]
           /\ UNCHANGED fate

Next == \E q \in Requests : \/ Make(q)
                            \/ \E d \in Decisions : Decide(q, d)
                            \/ Open(q)

Spec == Init /\ [][Next]_vars
=============================================================================
