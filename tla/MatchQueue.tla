----------------------------- MODULE MatchQueue -----------------------------
(***************************************************************************)
(* The anonymous match-making of src/chat/chat.gateway.ts: the array pool  *)
(* of waiting sockets, the handlers 'join queue' and 'leave queue', and    *)
(* pair(), which picks a partner with rangeNumber() of src/helpers.ts,     *)
(* tells the partner at once and the joiner from a promise callback.       *)
(*                                                                         *)
(* A handler runs to its end without being interrupted (JavaScript), so it *)
(* is one action; the callback that pair().then() queues runs later, in    *)
(* the order of the queue, and other handlers may run in between.  The     *)
(* gateway has no disconnect handler: a socket that drops stays in pool.   *)
(*                                                                         *)
(* getRandomString(10) is taken to return a name never used before: the    *)
(* room of the n-th pairing is called n.                                   *)
(***************************************************************************)
EXTENDS Integers, Sequences, FiniteSets

CONSTANTS Sockets,      \* socket ids; a reconnecting client gets a new one
          Nobody,       \* no socket (refinement mapping only)
          MaxEntries,   \* bound: how often one socket enters the pool
          MaxPairings   \* bound: how many rooms are generated

ASSUME NobodyAssumption == Nobody \notin Sockets
ASSUME BoundsAssumption == MaxEntries \in Nat /\ MaxPairings \in Nat

VARIABLES conn,       \* connection of each socket, as socket.io sees it
          pool,       \* ChatGateway.pool, the uuids in array order
          thens,      \* the .then callbacks queued by resolve()
          told,       \* the ClientPaired events each socket has received
          pairings,   \* history: who was paired with whom, room by room
          entries     \* history: how often a socket was pushed to pool

vars == <<conn, pool, thens, told, pairings, entries>>

Rooms == Nat \ {0}
Event == [room: Rooms, peer: Sockets]
Callback == [joiner: Sockets, room: Rooms, peer: Sockets]
Pairing == [joiner: Sockets, partner: Sockets]

TypeOK == /\ conn \in [Sockets -> {"new", "open", "closed"}]
          /\ pool \in Seq(Sockets)
          /\ thens \in Seq(Callback)
          /\ told \in [Sockets -> SUBSET Event]
          /\ pairings \in Seq(Pairing)
          /\ entries \in [Sockets -> Nat]

Init == /\ conn = [s \in Sockets |-> "new"]
        /\ pool = <<>>
        /\ thens = <<>>
        /\ told = [s \in Sockets |-> {}]
        /\ pairings = <<>>
        /\ entries = [s \in Sockets |-> 0]
-----------------------------------------------------------------------------
(* Each definition Wrong... is a plausible slip in the code, which the     *)
(* definition after it would have if its body were replaced: the property  *)
(* that notices is the one its comment names.                              *)

(* AtMostOneWaiting, ImplementsRendezvous: both ends included. *)
WrongRangeNumber(min, max) == min .. max

(* Math.floor(Math.random() * (max - min) + min), for min <= max: the      *)
(* upper end is reached only when it is the lower end too.                 *)
RangeNumber(min, max) == IF min < max THEN min .. (max - 1) ELSE {min}

(* Array.prototype.filter, dropping the entries of the set gone: the       *)
(* surviving indices keep their order.  (SelectSeq says the same, but by a *)
(* recursion that the provers cannot unfold.)                              *)
Kept(seq, gone) == {i \in 1 .. Len(seq) : seq[i] \notin gone}
Nth(n, indices) ==
  CHOOSE i \in indices : Cardinality({k \in indices : k <= i}) = n
Without(seq, gone) == [n \in 1 .. Cardinality(Kept(seq, gone)) |->
                         seq[Nth(n, Kept(seq, gone))]]

InPool(s) == \E i \in 1 .. Len(pool) : pool[i] = s

(* RoomHoldsItsPair: one room name used for a second pairing. *)
WrongFreshRoom == IF pairings = <<>> THEN 1 ELSE Len(pairings)

(* CallsTypeOK: rooms counted from zero. *)
WrongFirstRoom == Len(pairings)

(* getRandomString(10). *)
FreshRoom == Len(pairings) + 1

(* OneMatchPerEntry: only the joiner is filtered out. *)
WrongLeavers(s, partner) == {s}

(* Who the filter at the end of pair() drops. *)
Leavers(s, partner) == {s, partner}

(* BothSidesHear: only a socket still waiting is told. *)
WrongTell(s, event) == told' = IF InPool(s)
                               THEN [told EXCEPT ![s] = @ \cup {event}]
                               ELSE told

(* emit reaches a socket only while it is connected. *)
Tell(s, event) == told' = IF conn[s] = "open"
                          THEN [told EXCEPT ![s] = @ \cup {event}]
                          ELSE told

(* pair(), when the random entry is the socket itself: the promise is      *)
(* rejected, the error logged, and the socket stays in the pool.           *)
KeepWaiting(queued) == /\ pool' = queued
                       /\ UNCHANGED <<thens, told, pairings>>

(* pair(), when the random entry is another socket, still there or not:    *)
(* the partner is told, the promise resolved, both leave the pool.         *)
PairWith(s, partner, queued) ==
  LET room == FreshRoom
  IN  /\ Tell(partner, [room |-> room, peer |-> s])
      /\ thens' = Append(thens, [joiner |-> s, room |-> room, peer |-> partner])
      /\ pool' = Without(queued, Leavers(s, partner))
      /\ pairings' = Append(pairings, [joiner |-> s, partner |-> partner])

(* ImplementsRendezvous: the drawn entry is not compared with the socket. *)
WrongPair(s, queued) ==
  \E random \in RangeNumber(0, Len(queued) - 1) :
    PairWith(s, queued[random + 1], queued)

(* pair(): random indexes the array as it stands after the push. *)
Pair(s, queued) ==
  \E random \in RangeNumber(0, Len(queued) - 1) :
    LET chosen == queued[random + 1]
    IN  \/ chosen = s /\ KeepWaiting(queued)
        \/ chosen # s /\ PairWith(s, chosen, queued)
-----------------------------------------------------------------------------
HandleConnection(s) ==
  /\ conn[s] = "new"
  /\ conn' = [conn EXCEPT ![s] = "open"]
  /\ UNCHANGED <<pool, thens, told, pairings, entries>>

(* handleJoinQueue, for a socket not in the pool and for one already there,*)
(* which is paired again without being pushed a second time.               *)
HandleJoinQueue(s) ==
  /\ conn[s] = "open"
  /\ Len(pairings) < MaxPairings
  /\ \/ /\ ~InPool(s)
        /\ entries[s] < MaxEntries
        /\ entries' = [entries EXCEPT ![s] = @ + 1]
        /\ Pair(s, Append(pool, s))
     \/ /\ InPool(s)
        /\ UNCHANGED entries
        /\ Pair(s, pool)
  /\ UNCHANGED conn

HandleLeaveQueue(s) ==
  /\ conn[s] = "open"
  /\ pool' = Without(pool, {s})
  /\ UNCHANGED <<conn, thens, told, pairings, entries>>

(* The callback of pair(socket).then(...): the joiner hears of its partner.*)
RunThen ==
  /\ thens # <<>>
  /\ LET c == Head(thens)
     IN  Tell(c.joiner, [room |-> c.room, peer |-> c.peer])
  /\ thens' = Tail(thens)
  /\ UNCHANGED <<conn, pool, pairings, entries>>

(* The connection drops: socket.io forgets the socket, the gateway, which  *)
(* has no handleDisconnect, does not.                                      *)
Disconnect(s) ==
  /\ conn[s] = "open"
  /\ conn' = [conn EXCEPT ![s] = "closed"]
  /\ UNCHANGED <<pool, thens, told, pairings, entries>>

(* The server process stops and starts again: pool and the queued callbacks*)
(* were in its memory, and every connection is lost.                       *)
Restart ==
  /\ \E s \in Sockets : conn[s] = "open"
  /\ conn' = [s \in Sockets |-> IF conn[s] = "open" THEN "closed" ELSE conn[s]]
  /\ pool' = <<>>
  /\ thens' = <<>>
  /\ UNCHANGED <<told, pairings, entries>>

Next == \/ \E s \in Sockets : \/ HandleConnection(s)
                              \/ HandleJoinQueue(s)
                              \/ HandleLeaveQueue(s)
                              \/ Disconnect(s)
        \/ RunThen
        \/ Restart

Spec == Init /\ [][Next]_vars
-----------------------------------------------------------------------------
(* However sockets join, leave, drop and come back, at most one entry is   *)
(* left in the pool after a handler: pair() never leaves two sockets       *)
(* waiting for each other (chat.gateway.ts:63-91, helpers.ts:3-5).         *)
AtMostOneWaiting == Len(pool) <= 1

(* No room joins a socket with itself, also when it sends 'join queue'     *)
(* twice (chat.gateway.ts:66).                                             *)
NoSelfPairing == \A r \in 1 .. Len(pairings) :
                   pairings[r].joiner # pairings[r].partner

(* A room is known to its two sockets only, and each of them knows it      *)
(* together with the id of the other one (chat.gateway.ts:73-85, 120-124). *)
RoomsArePrivate ==
  \A s \in Sockets : \A e \in told[s] :
    /\ e.room \in 1 .. Len(pairings)
    /\ \/ pairings[e.room] = [joiner |-> s, partner |-> e.peer]
       \/ pairings[e.room] = [joiner |-> e.peer, partner |-> s]

(* The partner of room r has heard of the joiner, or is gone. *)
PartnerHeard(r) ==
  \/ [room |-> r, peer |-> pairings[r].joiner] \in told[pairings[r].partner]
  \/ conn[pairings[r].partner] = "closed"

(* The joiner of room r has heard of the partner, or will, or is gone. *)
JoinerHeard(r) ==
  LET news == [room |-> r, peer |-> pairings[r].partner]
  IN  \/ news \in told[pairings[r].joiner]
      \/ conn[pairings[r].joiner] = "closed"
      \/ \E i \in 1 .. Len(thens) :
           /\ thens[i].joiner = pairings[r].joiner
           /\ [room |-> thens[i].room, peer |-> thens[i].peer] = news

(* Neither side of a pairing is left without the news: it has heard, or    *)
(* its callback is still queued, or its connection is gone                 *)
(* (chat.gateway.ts:73-85, 114-124).                                       *)
BothSidesHear ==
  \A r \in 1 .. Len(pairings) : PartnerHeard(r) /\ JoinerHeard(r)

(* A socket is matched at most once for each time it entered the pool, so  *)
(* the entry that a dropped socket leaves behind spoils one match at most  *)
(* (chat.gateway.ts:87-91, and the absence of a disconnect handler).       *)
OneMatchPerEntry ==
  \A s \in Sockets :
    LET matches == {r \in 1 .. Len(pairings) :
                      s \in {pairings[r].joiner, pairings[r].partner}}
    IN  Cardinality(matches) + (IF InPool(s) THEN 1 ELSE 0) <= entries[s]
-----------------------------------------------------------------------------
(* The random matcher is a meeting point with one chair: whatever entry it *)
(* draws, the partner is the socket that has been waiting.                 *)
RV == INSTANCE Rendezvous
        WITH waiting <- IF pool = <<>> THEN Nobody ELSE pool[1],
             meetings <- pairings

(* Every behaviour of the gateway is one of the meeting point. *)
ImplementsRendezvous == RV!Spec
=============================================================================
