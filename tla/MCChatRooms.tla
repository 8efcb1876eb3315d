---------------------------- MODULE MCChatRooms -----------------------------
(* Model checking ChatRooms with a few calls, which are interchangeable, and *)
(* addresses, of which only the cfg says that they are matched.              *)
EXTENDS ChatRooms, TLC

RoomSymmetry == Permutations(Calls)
=============================================================================
