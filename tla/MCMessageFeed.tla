--------------------------- MODULE MCMessageFeed ----------------------------
(* Model checking MessageFeed, and ChatRooms in it: calls and addresses, all *)
(* of which are matched, are interchangeable.                                *)
EXTENDS MessageFeed, TLC

FeedSymmetry ==
  Permutations(Calls) \cup Permutations(Clients) \cup Permutations(Addresses)
=============================================================================
