---------------------------- MODULE GatewayProofs ----------------------------
(***************************************************************************)
(* Proofs about the gateway, for any set of sockets and any bounds: first  *)
(* the queue of MatchQueue, then what CallSignalling adds to it.           *)
(*                                                                         *)
(* The argument about the queue turns on one lemma, JoinOutcomes: while at *)
(* most one socket waits, 'join queue' has three outcomes only, and none   *)
(* leaves two sockets in the pool.  All the other facts follow from it.    *)
(*                                                                         *)
(* The handlers of rooms and calls leave the queue alone, so its           *)
(* invariants hold of the whole gateway as they are; of the queue's own    *)
(* steps it is enough to know that pairings only grow and that no closed   *)
(* connection opens again.                                                 *)
(***************************************************************************)
EXTENDS CallSignalling, FiniteSetTheorems, SequenceTheorems, TLAPS

(* A queued callback carries what its pairing says, for a joiner that had  *)
(* connected.                                                              *)
ThensMatchPairings ==
  \A i \in 1 .. Len(thens) :
    LET c == thens[i]
    IN  /\ c.room \in 1 .. Len(pairings)
        /\ pairings[c.room] = [joiner |-> c.joiner, partner |-> c.peer]
        /\ conn[c.joiner] # "new"

(* Who waits has connected once. *)
WaitersConnected == \A i \in 1 .. Len(pool) : conn[pool[i]] # "new"

(* The inductive invariant of the pool. *)
PoolInv == TypeOK /\ AtMostOneWaiting /\ NoSelfPairing

(* The inductive invariant of the events. *)
EventInv == /\ ThensMatchPairings
            /\ WaitersConnected
            /\ RoomsArePrivate
            /\ BothSidesHear
-----------------------------------------------------------------------------
(* A number below two. *)
LEMMA AtMostOne ==
  ASSUME NEW n \in Nat, n <= 1
  PROVE  /\ n = 0 \/ n = 1
         /\ \A i \in 1 .. n : n = 1 /\ i = 1
OBVIOUS

(* A sequence of length one is made of its only element. *)
LEMMA OneElement ==
  ASSUME NEW S, NEW seq \in Seq(S), Len(seq) = 1
  PROVE  seq[1] \in S /\ seq = <<seq[1]>>
<1>1. seq[1] \in S
  BY ElementOfSeq
<1>2. <<seq[1]>> \in Seq(S) /\ Len(<<seq[1]>>) = 1
  BY <1>1
<1>3. \A i \in 1 .. Len(seq) : seq[i] = <<seq[1]>>[i]
  OBVIOUS
<1>4. QED
  BY <1>2, <1>3, SeqEqual

(* Pushing to an array of one entry. *)
LEMMA AppendToOne == ASSUME NEW a, NEW b PROVE Append(<<a>>, b) = <<a, b>>
<1>1. Append(<<a>>, b) \in Seq({a, b}) /\ <<a, b>> \in Seq({a, b})
  OBVIOUS
<1>2. Len(Append(<<a>>, b)) = 2 /\ Len(<<a, b>>) = 2
  OBVIOUS
<1>3. \A i \in 1 .. 2 : Append(<<a>>, b)[i] = <<a, b>>[i]
  OBVIOUS
<1>4. QED
  BY <1>1, <1>2, <1>3, SeqEqual

(* An array without entries is the empty one. *)
LEMMA NoEntries == ASSUME NEW f(_) PROVE [n \in 1 .. 0 |-> f(n)] = <<>>
<1>1. [n \in 1 .. 0 |-> f(n)] \in Seq({}) /\ Len([n \in 1 .. 0 |-> f(n)]) = 0
  OBVIOUS
<1>2. QED
  BY <1>1

(* Filtering an array of at most one entry. *)
LEMMA WithoutShort ==
  ASSUME NEW S, NEW seq \in Seq(S), Len(seq) <= 1, NEW gone
  PROVE  /\ Without(seq, gone) \in Seq(S)
         /\ Without(seq, gone) = <<>> \/ Without(seq, gone) = seq
<1>1. CASE Kept(seq, gone) = {}
  <2>1. Cardinality(Kept(seq, gone)) = 0
    BY <1>1, FS_EmptySet
  <2>2. Without(seq, gone) = [n \in 1 .. 0 |-> seq[Nth(n, Kept(seq, gone))]]
    BY <2>1 DEF Without
  <2>3. Without(seq, gone) = <<>>
    BY <2>2, NoEntries
  <2>4. QED
    BY <2>3
<1>2. CASE Kept(seq, gone) # {}
  <2>1. Len(seq) = 1 /\ Kept(seq, gone) = {1}
    <3>1. PICK i \in Kept(seq, gone) : TRUE
      BY <1>2
    <3>2. Len(seq) \in Nat /\ i \in 1 .. Len(seq)
      BY <3>1, LenProperties DEF Kept
    <3>3. Len(seq) = 1 /\ i = 1
      BY <3>2, AtMostOne
    <3>4. \A j \in Kept(seq, gone) : j = 1
      BY <3>3 DEF Kept
    <3>5. QED
      BY <3>1, <3>3, <3>4
  <2>2. Cardinality({1}) = 1
    BY FS_Singleton
  <2>3. {k \in {1} : k <= 1} = {1}
    OBVIOUS
  <2>4. Nth(1, {1}) = 1
    BY <2>2, <2>3 DEF Nth
  <2>5. Without(seq, gone) = [n \in 1 .. 1 |-> seq[Nth(n, {1})]]
    BY <2>1, <2>2 DEF Without
  <2>6. Without(seq, gone) = [n \in 1 .. 1 |-> seq[1]]
    BY <2>4, <2>5
  <2>7. QED
    BY <2>1, <2>6
<1>3. QED
  BY <1>1, <1>2

(* Filtering out every entry. *)
LEMMA WithoutAll ==
  ASSUME NEW S, NEW seq \in Seq(S), NEW gone,
         \A i \in 1 .. Len(seq) : seq[i] \in gone
  PROVE  Without(seq, gone) = <<>>
<1>1. Kept(seq, gone) = {}
  BY DEF Kept
<1>2. Without(seq, gone) = [n \in 1 .. 0 |-> seq[Nth(n, Kept(seq, gone))]]
  BY <1>1, FS_EmptySet DEF Without
<1>3. QED
  BY <1>2, NoEntries
-----------------------------------------------------------------------------
(* 'join queue' when nobody waits: the socket draws itself and waits.      *)
(* When it waits already, it draws itself again.  When another one waits,  *)
(* it draws that one and both leave (chat.gateway.ts:61-112).              *)
LEMMA JoinOutcomes ==
  ASSUME PoolInv, NEW s \in Sockets, HandleJoinQueue(s)
  PROVE  \/ pool = <<>> /\ KeepWaiting(<<s>>)
         \/ pool = <<s>> /\ KeepWaiting(pool)
         \/ \E w \in Sockets \ {s} :
              /\ pool = <<w>>
              /\ pool' = <<>>
              /\ PairWith(s, w, <<w, s>>)
<1> USE DEF PoolInv, TypeOK, AtMostOneWaiting
<1>1. Len(pool) = 0 \/ Len(pool) = 1
  <2>1. Len(pool) \in Nat
    BY LenProperties
  <2>2. QED
    BY <2>1, AtMostOne
<1>2. CASE Len(pool) = 0
  <2>1. pool = <<>> /\ ~InPool(s)
    BY <1>2 DEF InPool
  <2>2. Pair(s, <<s>>)
    BY <2>1 DEF HandleJoinQueue
  <2>3. RangeNumber(0, Len(<<s>>) - 1) = {0}
    BY DEF RangeNumber
  <2>4. KeepWaiting(<<s>>)
    BY <2>2, <2>3 DEF Pair
  <2>5. QED
    BY <2>1, <2>4
<1>3. CASE Len(pool) = 1
  <2>1. PICK w \in Sockets : pool = <<w>>
    BY <1>3, OneElement
  <2>2. CASE w = s
    <3>1. InPool(s)
      BY <2>1, <2>2 DEF InPool
    <3>2. Pair(s, <<s>>)
      BY <2>1, <2>2, <3>1 DEF HandleJoinQueue
    <3>3. RangeNumber(0, Len(<<s>>) - 1) = {0}
      BY DEF RangeNumber
    <3>4. KeepWaiting(<<s>>)
      BY <3>2, <3>3 DEF Pair
    <3>5. QED
      BY <2>1, <2>2, <3>4
  <2>3. CASE w # s
    <3>1. ~InPool(s) /\ Append(pool, s) = <<w, s>>
      <4>1. Len(<<w>>) = 1 /\ <<w>>[1] = w
        OBVIOUS
      <4>2. ~InPool(s)
        BY <2>1, <2>3, <4>1 DEF InPool
      <4>3. Append(<<w>>, s) = <<w, s>>
        BY AppendToOne
      <4>4. QED
        BY <2>1, <4>2, <4>3
    <3>2. Pair(s, <<w, s>>)
      BY <3>1 DEF HandleJoinQueue
    <3>3. RangeNumber(0, Len(<<w, s>>) - 1) = {0}
      BY DEF RangeNumber
    <3>4. PairWith(s, w, <<w, s>>)
      BY <2>3, <3>2, <3>3 DEF Pair
    <3>5. Without(<<w, s>>, Leavers(s, w)) = <<>>
      <4>1. <<w, s>> \in Seq(Sockets)
        OBVIOUS
      <4>2. \A i \in 1 .. Len(<<w, s>>) : <<w, s>>[i] \in Leavers(s, w)
        BY DEF Leavers
      <4>3. QED
        BY <4>1, <4>2, WithoutAll
    <3>6. QED
      BY <2>1, <2>3, <3>4, <3>5 DEF PairWith
  <2>4. QED
    BY <2>2, <2>3
<1>4. QED
  BY <1>1, <1>2, <1>3
-----------------------------------------------------------------------------
(* The pool invariant holds at the start. *)
LEMMA PoolInvInit == Init => PoolInv
BY DEF Init, PoolInv, TypeOK, AtMostOneWaiting, NoSelfPairing

(* A told event that is well typed keeps the events well typed. *)
LEMMA TellTyped ==
  ASSUME NEW s \in Sockets, NEW e \in Event, told \in [Sockets -> SUBSET Event],
         Tell(s, e)
  PROVE  told' \in [Sockets -> SUBSET Event]
BY DEF Tell

(* 'join queue' leaves the connections alone and counts in numbers. *)
LEMMA JoinCounts ==
  ASSUME TypeOK, NEW s \in Sockets, HandleJoinQueue(s)
  PROVE  conn' = conn /\ entries' \in [Sockets -> Nat]
<1>1. entries \in [Sockets -> Nat]
  BY DEF TypeOK
<1>2. entries' = [entries EXCEPT ![s] = @ + 1] \/ entries' = entries
  BY DEF HandleJoinQueue
<1>3. entries[s] + 1 \in Nat
  BY <1>1
<1>4. entries' \in [Sockets -> Nat]
  BY <1>1, <1>2, <1>3
<1>5. QED
  BY <1>4 DEF HandleJoinQueue

(* What Append does to a sequence. *)
LEMMA AppendEffect ==
  ASSUME NEW S, NEW seq \in Seq(S), NEW e \in S
  PROVE  /\ Len(seq) \in Nat
         /\ Len(Append(seq, e)) = Len(seq) + 1
         /\ Append(seq, e)[Len(seq) + 1] = e
         /\ \A i \in 1 .. Len(seq) : Append(seq, e)[i] = seq[i]
OBVIOUS

(* Every step preserves the pool invariant. *)
LEMMA PoolInvNext == PoolInv /\ [Next]_vars => PoolInv'
<1> SUFFICES ASSUME PoolInv, [Next]_vars PROVE PoolInv'
  OBVIOUS
<1> USE DEF PoolInv, TypeOK, AtMostOneWaiting, NoSelfPairing
<1>1. ASSUME NEW s \in Sockets, HandleConnection(s) PROVE PoolInv'
  BY <1>1 DEF HandleConnection
<1>2. ASSUME NEW s \in Sockets, HandleJoinQueue(s) PROVE PoolInv'
  <2>1. conn' = conn /\ entries' \in [Sockets -> Nat]
    BY <1>2, JoinCounts
  <2>2. CASE pool = <<>> /\ KeepWaiting(<<s>>)
    BY <2>1, <2>2 DEF KeepWaiting
  <2>3. CASE pool = <<s>> /\ KeepWaiting(pool)
    BY <2>1, <2>3 DEF KeepWaiting
  <2>4. ASSUME NEW w \in Sockets \ {s}, pool' = <<>>, PairWith(s, w, <<w, s>>)
        PROVE  PoolInv'
    <3>1. FreshRoom \in Rooms
      BY DEF FreshRoom, Rooms
    <3>2. told' \in [Sockets -> SUBSET Event]
      BY <2>4, <3>1, TellTyped DEF PairWith, Event
    <3>3. thens' \in Seq(Callback)
      BY <2>4, <3>1 DEF PairWith, Callback
    <3>4. pairings' \in Seq(Pairing)
      BY <2>4 DEF PairWith, Pairing
    <3>5. NoSelfPairing'
      <4> DEFINE p == [joiner |-> s, partner |-> w]
      <4>1. p \in Pairing /\ p.joiner # p.partner
        BY DEF Pairing
      <4>2. pairings' = Append(pairings, p)
        BY <2>4 DEF PairWith
      <4> HIDE DEF p
      <4>3. /\ Len(pairings) \in Nat /\ Len(pairings') = Len(pairings) + 1
            /\ pairings'[Len(pairings) + 1] = p
            /\ \A r \in 1 .. Len(pairings) : pairings'[r] = pairings[r]
        BY <4>1, <4>2, AppendEffect
      <4>4. ASSUME NEW r \in 1 .. Len(pairings')
            PROVE  pairings'[r].joiner # pairings'[r].partner
        <5>1. CASE r \in 1 .. Len(pairings)
          BY <4>3, <5>1
        <5>2. CASE r = Len(pairings) + 1
          BY <4>1, <4>3, <5>2
        <5>3. QED
          BY <4>3, <5>1, <5>2
      <4>5. QED
        BY <4>4
    <3>6. QED
      BY <2>1, <2>4, <3>2, <3>3, <3>4, <3>5
  <2>5. QED
    BY <1>2, <2>2, <2>3, <2>4, JoinOutcomes
<1>3. ASSUME NEW s \in Sockets, HandleLeaveQueue(s) PROVE PoolInv'
  <2>1. pool' \in Seq(Sockets) /\ (pool' = <<>> \/ pool' = pool)
    BY <1>3, WithoutShort DEF HandleLeaveQueue
  <2>2. QED
    BY <1>3, <2>1 DEF HandleLeaveQueue
<1>4. ASSUME NEW s \in Sockets, Disconnect(s) PROVE PoolInv'
  BY <1>4 DEF Disconnect
<1>5. CASE RunThen
  <2>1. Head(thens) \in Callback /\ thens' \in Seq(Callback)
    BY <1>5, HeadTailProperties DEF RunThen
  <2>2. told' \in [Sockets -> SUBSET Event]
    BY <1>5, <2>1, TellTyped DEF RunThen, Callback, Event
  <2>3. QED
    BY <1>5, <2>1, <2>2 DEF RunThen
<1>6. CASE Restart
  BY <1>6 DEF Restart
<1>7. CASE UNCHANGED vars
  BY <1>7 DEF vars
<1>8. QED
  BY <1>1, <1>2, <1>3, <1>4, <1>5, <1>6, <1>7 DEF Next

(* The pool, the connections and the events keep their types, and at most  *)
(* one socket waits, for any number of sockets (chat.gateway.ts:61-127).   *)
THEOREM PoolSafe == Spec => [](TypeOK /\ AtMostOneWaiting /\ NoSelfPairing)
<1>1. PoolInv => TypeOK /\ AtMostOneWaiting /\ NoSelfPairing
  BY DEF PoolInv
<1>2. QED
  BY <1>1, PoolInvInit, PoolInvNext, PTL DEF Spec
-----------------------------------------------------------------------------
(* The events hold at the start. *)
LEMMA EventInvInit == Init => EventInv
BY DEF Init, EventInv, ThensMatchPairings, WaitersConnected, RoomsArePrivate,
       BothSidesHear

(* What emit does to the events of every socket. *)
LEMMA TellEffect ==
  ASSUME NEW s \in Sockets, NEW e, told \in [Sockets -> SUBSET Event], Tell(s, e)
  PROVE  /\ \A x \in Sockets : told[x] \subseteq told'[x]
         /\ \A x \in Sockets : \A f \in told'[x] :
              f \in told[x] \/ (x = s /\ f = e)
         /\ conn[s] = "open" => e \in told'[s]
BY DEF Tell

(* A pairing preserves the event invariant. *)
LEMMA EventInvPairWith ==
  ASSUME PoolInv, EventInv, NEW s \in Sockets, NEW w \in Sockets,
         conn[s] = "open", conn[w] # "new", conn' = conn, pool' = <<>>,
         PairWith(s, w, <<w, s>>)
  PROVE  EventInv'
<1> DEFINE n == Len(pairings)
           last == Len(thens) + 1
           pairing == [joiner |-> s, partner |-> w]
           callback == [joiner |-> s, room |-> n + 1, peer |-> w]
           event == [room |-> n + 1, peer |-> s]
<1>1. /\ n \in Nat
      /\ Len(pairings') = n + 1
      /\ pairings'[n + 1] = pairing
      /\ \A r \in 1 .. n : pairings'[r] = pairings[r]
      /\ \A r \in 1 .. n : pairings[r] \in Pairing
  <2>1. pairings \in Seq(Pairing) /\ pairing \in Pairing
    BY DEF PoolInv, TypeOK, Pairing
  <2>2. pairings' = Append(pairings, pairing)
    BY DEF PairWith
  <2>3. QED
    BY <2>1, <2>2, AppendEffect, ElementOfSeq
<1>2. /\ Len(thens) \in Nat
      /\ Len(thens') = last
      /\ thens'[last] = callback
      /\ \A i \in 1 .. Len(thens) : thens'[i] = thens[i]
      /\ \A i \in 1 .. Len(thens) : thens[i] \in Callback
  <2>1. thens \in Seq(Callback) /\ callback \in Callback
    BY <1>1 DEF PoolInv, TypeOK, Callback, Rooms
  <2>2. thens' = Append(thens, callback)
    BY DEF PairWith, FreshRoom
  <2>3. QED
    BY <2>1, <2>2, AppendEffect, ElementOfSeq
<1>3. /\ \A x \in Sockets : told[x] \subseteq told'[x]
      /\ \A x \in Sockets : \A f \in told'[x] :
           f \in told[x] \/ (x = w /\ f = event)
      /\ conn[w] = "open" => event \in told'[w]
  <2>1. Tell(w, event) /\ told \in [Sockets -> SUBSET Event]
    BY DEF PairWith, FreshRoom, PoolInv, TypeOK
  <2>2. QED
    BY <2>1, TellEffect
<1>4. conn[w] = "open" \/ conn[w] = "closed"
  BY DEF PoolInv, TypeOK
<1> HIDE DEF n, last
<1>5. ThensMatchPairings'
  <2> SUFFICES ASSUME NEW i \in 1 .. Len(thens')
               PROVE  /\ thens'[i].room \in 1 .. Len(pairings')
                      /\ pairings'[thens'[i].room] =
                           [joiner |-> thens'[i].joiner, partner |-> thens'[i].peer]
                      /\ conn'[thens'[i].joiner] # "new"
    BY DEF ThensMatchPairings
  <2>1. CASE i = last
    BY <1>1, <1>2, <2>1
  <2>2. CASE i # last
    <3>1. i \in 1 .. Len(thens) /\ thens'[i] = thens[i]
      BY <1>2, <2>2 DEF last
    <3>2. /\ thens[i].room \in 1 .. n
          /\ pairings[thens[i].room] =
               [joiner |-> thens[i].joiner, partner |-> thens[i].peer]
          /\ conn[thens[i].joiner] # "new"
      BY <3>1 DEF EventInv, ThensMatchPairings, n
    <3>3. QED
      BY <1>1, <3>1, <3>2
  <2>3. QED
    BY <2>1, <2>2
<1>6. WaitersConnected'
  BY DEF WaitersConnected
<1>7. RoomsArePrivate'
  <2> SUFFICES ASSUME NEW x \in Sockets, NEW f \in told'[x]
               PROVE  /\ f.room \in 1 .. Len(pairings')
                      /\ \/ pairings'[f.room] = [joiner |-> x, partner |-> f.peer]
                         \/ pairings'[f.room] = [joiner |-> f.peer, partner |-> x]
    BY DEF RoomsArePrivate
  <2>1. CASE x = w /\ f = event
    BY <1>1, <2>1
  <2>2. CASE f \in told[x]
    <3>1. /\ f.room \in 1 .. n
          /\ \/ pairings[f.room] = [joiner |-> x, partner |-> f.peer]
             \/ pairings[f.room] = [joiner |-> f.peer, partner |-> x]
      BY <2>2 DEF EventInv, RoomsArePrivate, n
    <3>2. QED
      BY <1>1, <3>1
  <2>3. QED
    BY <1>3, <2>1, <2>2
<1>8. BothSidesHear'
  <2> SUFFICES ASSUME NEW r \in 1 .. Len(pairings')
               PROVE  PartnerHeard(r)' /\ JoinerHeard(r)'
    BY DEF BothSidesHear
  <2>1. CASE r = n + 1
    <3>1. PartnerHeard(r)'
      BY <1>1, <1>3, <1>4, <2>1 DEF PartnerHeard
    <3>2. last \in 1 .. Len(thens')
      BY <1>2 DEF last
    <3>3. JoinerHeard(r)'
      BY <1>1, <1>2, <2>1, <3>2 DEF JoinerHeard
    <3>4. QED
      BY <3>1, <3>3
  <2>2. CASE r # n + 1
    <3>1. /\ r \in 1 .. n
          /\ pairings'[r] = pairings[r]
          /\ pairings[r].joiner \in Sockets
          /\ pairings[r].partner \in Sockets
      BY <1>1, <2>2 DEF Pairing
    <3>2. PartnerHeard(r) /\ JoinerHeard(r)
      BY <3>1 DEF EventInv, BothSidesHear, n
    <3>3. PartnerHeard(r)'
      BY <1>3, <3>1, <3>2 DEF PartnerHeard
    <3>4. \A i \in 1 .. Len(thens) : i \in 1 .. Len(thens') /\ thens'[i] = thens[i]
      BY <1>2 DEF last
    <3>5. JoinerHeard(r)'
      BY <1>3, <3>1, <3>2, <3>4 DEF JoinerHeard
    <3>6. QED
      BY <3>3, <3>5
  <2>3. QED
    BY <2>1, <2>2
<1>9. QED
  BY <1>5, <1>6, <1>7, <1>8 DEF EventInv

(* The sockets that pairings and callbacks name. *)
LEMMA NamedSockets ==
  ASSUME PoolInv
  PROVE  /\ \A r \in 1 .. Len(pairings) : /\ pairings[r].joiner \in Sockets
                                          /\ pairings[r].partner \in Sockets
         /\ \A i \in 1 .. Len(thens) : thens[i].joiner \in Sockets
<1>1. pairings \in Seq(Pairing) /\ thens \in Seq(Callback)
  BY DEF PoolInv, TypeOK
<1>2. \A r \in 1 .. Len(pairings) : pairings[r] \in Pairing
  BY <1>1, ElementOfSeq
<1>3. \A i \in 1 .. Len(thens) : thens[i] \in Callback
  BY <1>1, ElementOfSeq
<1>4. QED
  BY <1>2, <1>3 DEF Pairing, Callback

(* The events survive a change of connections that opens or closes some.  *)
LEMMA StillHeard ==
  ASSUME PoolInv, EventInv, UNCHANGED <<pool, thens, told, pairings>>,
         \A x \in Sockets : /\ conn[x] # "new" => conn'[x] # "new"
                            /\ conn[x] = "closed" => conn'[x] = "closed"
  PROVE  EventInv'
<1>1. ThensMatchPairings'
  <2>1. \A i \in 1 .. Len(thens) : thens[i].joiner \in Sockets
    BY NamedSockets
  <2>2. QED
    BY <2>1 DEF EventInv, ThensMatchPairings
<1>2. WaitersConnected'
  BY ElementOfSeq DEF PoolInv, TypeOK, EventInv, WaitersConnected
<1>3. RoomsArePrivate'
  BY DEF EventInv, RoomsArePrivate
<1>4. BothSidesHear'
  <2>1. \A r \in 1 .. Len(pairings) : /\ pairings[r].joiner \in Sockets
                                      /\ pairings[r].partner \in Sockets
    BY NamedSockets
  <2>2. QED
    BY <2>1 DEF EventInv, BothSidesHear, PartnerHeard, JoinerHeard
<1>5. QED
  BY <1>1, <1>2, <1>3, <1>4 DEF EventInv

(* Running the first callback preserves the event invariant. *)
LEMMA EventInvRunThen ==
  ASSUME PoolInv, EventInv, RunThen
  PROVE  EventInv'
<1> DEFINE c == thens[1]
           event == [room |-> c.room, peer |-> c.peer]
<1>1. /\ Len(thens) \in Nat
      /\ Len(thens) >= 1
      /\ Len(thens') = Len(thens) - 1
      /\ \A i \in 1 .. Len(thens') : thens'[i] = thens[i + 1]
      /\ c \in Callback
      /\ Tell(c.joiner, event)
  <2>1. thens \in Seq(Callback) /\ thens # <<>> /\ thens' = Tail(thens)
    BY DEF PoolInv, TypeOK, RunThen
  <2>2. Len(thens) \in Nat /\ Len(thens) >= 1
    BY <2>1, EmptySeq
  <2>3. c \in Callback /\ Head(thens) = c
    BY <2>1, <2>2
  <2>4. QED
    BY <2>1, <2>2, <2>3, HeadTailProperties DEF RunThen
<1>2. /\ \A x \in Sockets : told[x] \subseteq told'[x]
      /\ \A x \in Sockets : \A f \in told'[x] :
           f \in told[x] \/ (x = c.joiner /\ f = event)
      /\ conn[c.joiner] = "open" => event \in told'[c.joiner]
  BY <1>1, TellEffect DEF PoolInv, TypeOK, Callback
<1>3. /\ c.room \in 1 .. Len(pairings)
      /\ pairings[c.room] = [joiner |-> c.joiner, partner |-> c.peer]
      /\ conn[c.joiner] # "new"
  BY <1>1 DEF EventInv, ThensMatchPairings
<1>4. UNCHANGED <<conn, pool, pairings>>
  BY DEF RunThen
<1> HIDE DEF c
<1>5. ThensMatchPairings'
  <2>1. \A i \in 1 .. Len(thens') : i + 1 \in 1 .. Len(thens)
    BY <1>1
  <2>2. QED
    BY <1>1, <1>4, <2>1 DEF EventInv, ThensMatchPairings
<1>6. WaitersConnected'
  BY <1>4 DEF EventInv, WaitersConnected
<1>7. RoomsArePrivate'
  <2> SUFFICES ASSUME NEW x \in Sockets, NEW f \in told'[x]
               PROVE  /\ f.room \in 1 .. Len(pairings)
                      /\ \/ pairings[f.room] = [joiner |-> x, partner |-> f.peer]
                         \/ pairings[f.room] = [joiner |-> f.peer, partner |-> x]
    BY <1>4 DEF RoomsArePrivate
  <2>1. CASE x = c.joiner /\ f = event
    BY <1>3, <2>1
  <2>2. CASE f \in told[x]
    BY <2>2 DEF EventInv, RoomsArePrivate
  <2>3. QED
    BY <1>2, <2>1, <2>2
<1>8. BothSidesHear'
  <2> SUFFICES ASSUME NEW r \in 1 .. Len(pairings)
               PROVE  PartnerHeard(r)' /\ JoinerHeard(r)'
    BY <1>4 DEF BothSidesHear
  <2>1. pairings[r].joiner \in Sockets /\ pairings[r].partner \in Sockets
    BY NamedSockets
  <2>2. PartnerHeard(r) /\ JoinerHeard(r)
    BY DEF EventInv, BothSidesHear
  <2>3. PartnerHeard(r)'
    BY <1>2, <1>4, <2>1, <2>2 DEF PartnerHeard
  <2>4. ASSUME NEW i \in 1 .. Len(thens),
               thens[i].joiner = pairings[r].joiner,
               [room |-> thens[i].room, peer |-> thens[i].peer]
                 = [room |-> r, peer |-> pairings[r].partner]
        PROVE  JoinerHeard(r)'
    <3>1. CASE i = 1
      <4>1. /\ c.joiner = pairings[r].joiner
            /\ event = [room |-> r, peer |-> pairings[r].partner]
        BY <2>4, <3>1 DEF c
      <4>2. conn[c.joiner] = "open" \/ conn[c.joiner] = "closed"
        BY <1>3, <2>1, <4>1 DEF PoolInv, TypeOK
      <4>3. QED
        BY <1>2, <1>4, <4>1, <4>2 DEF JoinerHeard
    <3>2. CASE i # 1
      <4>1. i - 1 \in 1 .. Len(thens') /\ thens'[i - 1] = thens[i]
        BY <1>1, <3>2
      <4>2. QED
        BY <1>4, <2>4, <4>1 DEF JoinerHeard
    <3>3. QED
      BY <3>1, <3>2
  <2>5. JoinerHeard(r)'
    BY <1>2, <1>4, <2>1, <2>2, <2>4 DEF JoinerHeard
  <2>6. QED
    BY <2>3, <2>5
<1>9. QED
  BY <1>5, <1>6, <1>7, <1>8 DEF EventInv

(* A restart closes every socket whose callback it drops. *)
LEMMA EventInvRestart ==
  ASSUME PoolInv, EventInv, Restart
  PROVE  EventInv'
<1>1. /\ pool' = <<>>
      /\ thens' = <<>>
      /\ UNCHANGED <<told, pairings>>
      /\ \A x \in Sockets : conn[x] # "new" => conn'[x] = "closed"
  BY DEF Restart, PoolInv, TypeOK
<1>2. ThensMatchPairings' /\ WaitersConnected'
  BY <1>1 DEF ThensMatchPairings, WaitersConnected
<1>3. RoomsArePrivate'
  BY <1>1 DEF EventInv, RoomsArePrivate
<1>4. BothSidesHear'
  <2> SUFFICES ASSUME NEW r \in 1 .. Len(pairings)
               PROVE  PartnerHeard(r)' /\ JoinerHeard(r)'
    BY <1>1 DEF BothSidesHear
  <2>1. pairings[r].joiner \in Sockets /\ pairings[r].partner \in Sockets
    BY NamedSockets
  <2>2. PartnerHeard(r) /\ JoinerHeard(r)
    BY DEF EventInv, BothSidesHear
  <2>3. PartnerHeard(r)'
    BY <1>1, <2>1, <2>2 DEF PartnerHeard
  <2>4. JoinerHeard(r)'
    <3>1. (\E i \in 1 .. Len(thens) : thens[i].joiner = pairings[r].joiner)
            => conn[pairings[r].joiner] # "new"
      BY DEF EventInv, ThensMatchPairings
    <3>2. conn[pairings[r].joiner] = "closed"
            => conn'[pairings[r].joiner] = "closed"
      BY <1>1, <2>1
    <3>3. QED
      BY <1>1, <2>1, <2>2, <3>1, <3>2 DEF JoinerHeard
  <2>5. QED
    BY <2>3, <2>4
<1>5. QED
  BY <1>2, <1>3, <1>4 DEF EventInv

(* A step that only takes sockets from the pool, or adds connected ones.   *)
LEMMA NothingTold ==
  ASSUME EventInv, UNCHANGED <<conn, thens, told, pairings>>, WaitersConnected'
  PROVE  EventInv'
<1>1. ThensMatchPairings'
  BY DEF EventInv, ThensMatchPairings
<1>2. RoomsArePrivate'
  BY DEF EventInv, RoomsArePrivate
<1>3. BothSidesHear'
  BY DEF EventInv, BothSidesHear, PartnerHeard, JoinerHeard
<1>4. QED BY <1>1, <1>2, <1>3 DEF EventInv

(* Every step preserves the event invariant. *)
LEMMA EventInvNext == PoolInv /\ EventInv /\ [Next]_vars => EventInv'
<1> SUFFICES ASSUME PoolInv, EventInv, [Next]_vars PROVE EventInv'
  OBVIOUS
<1>1. ASSUME NEW s \in Sockets, HandleConnection(s) PROVE EventInv'
  <2>1. /\ conn \in [Sockets -> {"new", "open", "closed"}]
        /\ conn[s] = "new"
        /\ conn' = [conn EXCEPT ![s] = "open"]
    BY <1>1 DEF HandleConnection, PoolInv, TypeOK
  <2>2. \A x \in Sockets : /\ conn[x] # "new" => conn'[x] # "new"
                           /\ conn[x] = "closed" => conn'[x] = "closed"
    BY <2>1
  <2>3. QED
    BY <1>1, <2>2, StillHeard DEF HandleConnection
<1>2. ASSUME NEW s \in Sockets, HandleJoinQueue(s) PROVE EventInv'
  <2>1. conn' = conn /\ conn[s] = "open"
    BY <1>2 DEF HandleJoinQueue
  <2>2. CASE pool = <<>> /\ KeepWaiting(<<s>>)
    <3>1. pool' = <<s>> /\ UNCHANGED <<conn, thens, told, pairings>>
      BY <2>1, <2>2 DEF KeepWaiting
    <3>2. WaitersConnected'
      BY <2>1, <3>1 DEF WaitersConnected
    <3>3. QED
      BY <3>1, <3>2, NothingTold
  <2>3. CASE pool = <<s>> /\ KeepWaiting(pool)
    <3>1. UNCHANGED <<conn, pool, thens, told, pairings>>
      BY <2>1, <2>3 DEF KeepWaiting
    <3>2. WaitersConnected'
      BY <3>1 DEF EventInv, WaitersConnected
    <3>3. QED
      BY <3>1, <3>2, NothingTold
  <2>4. ASSUME NEW w \in Sockets \ {s}, pool = <<w>>, pool' = <<>>,
               PairWith(s, w, <<w, s>>)
        PROVE  EventInv'
    <3>1. conn[w] # "new"
      BY <2>4 DEF EventInv, WaitersConnected
    <3>2. QED
      BY <2>1, <2>4, <3>1, EventInvPairWith
  <2>5. QED
    BY <1>2, <2>2, <2>3, <2>4, JoinOutcomes
<1>3. ASSUME NEW s \in Sockets, HandleLeaveQueue(s) PROVE EventInv'
  <2>1. pool' = <<>> \/ pool' = pool
    BY <1>3, WithoutShort
    DEF HandleLeaveQueue, PoolInv, TypeOK, AtMostOneWaiting
  <2>2. WaitersConnected'
    BY <1>3, <2>1 DEF HandleLeaveQueue, EventInv, WaitersConnected
  <2>3. QED
    BY <1>3, <2>2, NothingTold DEF HandleLeaveQueue
<1>4. ASSUME NEW s \in Sockets, Disconnect(s) PROVE EventInv'
  <2>1. /\ conn \in [Sockets -> {"new", "open", "closed"}]
        /\ conn' = [conn EXCEPT ![s] = "closed"]
    BY <1>4 DEF Disconnect, PoolInv, TypeOK
  <2>2. \A x \in Sockets : /\ conn[x] # "new" => conn'[x] # "new"
                           /\ conn[x] = "closed" => conn'[x] = "closed"
    BY <2>1
  <2>3. QED
    BY <1>4, <2>2, StillHeard DEF Disconnect
<1>5. CASE RunThen
  BY <1>5, EventInvRunThen
<1>6. CASE Restart
  BY <1>6, EventInvRestart
<1>7. CASE UNCHANGED vars
  BY <1>7 DEF vars, EventInv, ThensMatchPairings, WaitersConnected,
              RoomsArePrivate, BothSidesHear, PartnerHeard, JoinerHeard
<1>8. QED
  BY <1>1, <1>2, <1>3, <1>4, <1>5, <1>6, <1>7 DEF Next

(* Rooms are private to two sockets, and neither side of a pairing is left *)
(* without news of it, for any number of sockets, restarts included        *)
(* (chat.gateway.ts:61-127).                                               *)
THEOREM EventsSafe == Spec => [](RoomsArePrivate /\ BothSidesHear)
<1>1. EventInv => RoomsArePrivate /\ BothSidesHear
  BY DEF EventInv
<1>2. QED
  BY <1>1, PoolInvInit, PoolInvNext, EventInvInit, EventInvNext, PTL DEF Spec
-----------------------------------------------------------------------------
(* A pool that changes from empty to one socket, back, or not at all.      *)
LEMMA ChairMoves ==
  ASSUME PoolInv, NEW s \in Sockets
  PROVE  /\ pool = <<>> /\ pool' = <<s>> /\ pairings' = pairings
              => RV!Arrive(s)
         /\ pool' = <<>> /\ pairings' = pairings
              => RV!GiveUp \/ UNCHANGED RV!vars
         /\ \A w \in Sockets \ {s} :
              /\ pool = <<w>> /\ pool' = <<>>
              /\ pairings' = Append(pairings, [joiner |-> s, partner |-> w])
              => RV!Meet(s)
<1>1. \A w : <<w>> # <<>> /\ <<w>>[1] = w
  OBVIOUS
<1>2. Nobody \notin Sockets
  BY NobodyAssumption
<1>3. pool # <<>> => pool[1] \in Sockets
  BY EmptySeq, ElementOfSeq DEF PoolInv, TypeOK
<1>4. QED
  BY <1>1, <1>2, <1>3 DEF RV!Arrive, RV!GiveUp, RV!Meet, RV!vars

(* Every step of the gateway is a step of the meeting point or none.       *)
LEMMA RefinesNext == PoolInv /\ [Next]_vars => [RV!Next]_RV!vars
<1> SUFFICES ASSUME PoolInv, [Next]_vars PROVE [RV!Next]_RV!vars
  OBVIOUS
<1>1. ASSUME NEW s \in Sockets, HandleConnection(s) PROVE UNCHANGED RV!vars
  BY <1>1 DEF HandleConnection, RV!vars
<1>2. ASSUME NEW s \in Sockets, HandleJoinQueue(s) PROVE [RV!Next]_RV!vars
  <2>1. CASE pool = <<>> /\ KeepWaiting(<<s>>)
    <3>1. RV!Arrive(s)
      BY <2>1, ChairMoves DEF KeepWaiting
    <3>2. QED
      BY <3>1 DEF RV!Next
  <2>2. CASE pool = <<s>> /\ KeepWaiting(pool)
    BY <2>2 DEF KeepWaiting, RV!vars
  <2>3. ASSUME NEW w \in Sockets \ {s}, pool = <<w>>, pool' = <<>>,
               PairWith(s, w, <<w, s>>)
        PROVE  [RV!Next]_RV!vars
    <3>1. pairings' = Append(pairings, [joiner |-> s, partner |-> w])
      BY <2>3 DEF PairWith
    <3>2. RV!Meet(s)
      BY <2>3, <3>1, ChairMoves
    <3>3. QED
      BY <3>2 DEF RV!Next
  <2>4. QED
    BY <1>2, <2>1, <2>2, <2>3, JoinOutcomes
<1>3. ASSUME NEW s \in Sockets, HandleLeaveQueue(s) PROVE [RV!Next]_RV!vars
  <2>1. pool' = <<>> \/ pool' = pool
    BY <1>3, WithoutShort
    DEF HandleLeaveQueue, PoolInv, TypeOK, AtMostOneWaiting
  <2>2. pairings' = pairings
    BY <1>3 DEF HandleLeaveQueue
  <2>3. CASE pool' = <<>>
    BY <2>2, <2>3, ChairMoves DEF RV!Next
  <2>4. CASE pool' = pool
    BY <2>2, <2>4 DEF RV!vars
  <2>5. QED
    BY <2>1, <2>3, <2>4
<1>4. ASSUME NEW s \in Sockets, Disconnect(s) PROVE UNCHANGED RV!vars
  BY <1>4 DEF Disconnect, RV!vars
<1>5. CASE RunThen
  BY <1>5 DEF RunThen, RV!vars
<1>6. CASE Restart
  <2>1. PICK s \in Sockets : conn[s] = "open"
    BY <1>6 DEF Restart
  <2>2. pool' = <<>> /\ pairings' = pairings
    BY <1>6 DEF Restart
  <2>3. QED
    BY <2>1, <2>2, ChairMoves DEF RV!Next
<1>7. CASE UNCHANGED vars
  BY <1>7 DEF vars, RV!vars
<1>8. QED
  BY <1>1, <1>2, <1>3, <1>4, <1>5, <1>6, <1>7 DEF Next

(* The random matcher implements the meeting point with one chair, for any *)
(* number of sockets (chat.gateway.ts:61-127, 224-227).                    *)
THEOREM Refinement == Spec => ImplementsRendezvous
<1>1. Init => RV!Init
  BY DEF Init, RV!Init
<1>2. QED
  BY <1>1, PoolInvInit, PoolInvNext, RefinesNext, PTL
  DEF Spec, ImplementsRendezvous, RV!Spec
-----------------------------------------------------------------------------
(* The rooms a socket has had. *)
RoomsOf(s) == {r \in 1 .. Len(pairings) :
                 s \in {pairings[r].joiner, pairings[r].partner}}

(* How often a socket was matched, or is about to be. *)
Spent(s) == Cardinality(RoomsOf(s)) + (IF InPool(s) THEN 1 ELSE 0)

(* Who has had finitely many rooms. *)
LEMMA RoomsCount ==
  ASSUME PoolInv, NEW s
  PROVE  IsFiniteSet(RoomsOf(s)) /\ Cardinality(RoomsOf(s)) \in Nat
<1>1. Len(pairings) \in Nat
  BY LenProperties DEF PoolInv, TypeOK
<1>2. IsFiniteSet(1 .. Len(pairings))
  BY <1>1, FS_Interval
<1>3. RoomsOf(s) \subseteq 1 .. Len(pairings)
  BY DEF RoomsOf
<1>4. QED
  BY <1>2, <1>3, FS_Subset, FS_CardinalityType

(* Without a pairing it is enough that whoever enters the pool is counted. *)
LEMMA NoMatchNoSpending ==
  ASSUME PoolInv, OneMatchPerEntry, UNCHANGED pairings,
         \A x \in Sockets : /\ entries'[x] \in Nat
                            /\ entries'[x] >= entries[x]
                            /\ InPool(x)' /\ ~InPool(x)
                                 => entries'[x] >= entries[x] + 1
  PROVE  OneMatchPerEntry'
<1> SUFFICES ASSUME NEW x \in Sockets PROVE Spent(x)' <= entries'[x]
  BY DEF OneMatchPerEntry, Spent, RoomsOf
<1>1. RoomsOf(x)' = RoomsOf(x)
  BY DEF RoomsOf
<1>2. Cardinality(RoomsOf(x)) \in Nat
  BY RoomsCount
<1>3. Spent(x) <= entries[x] /\ entries[x] \in Nat
  BY DEF OneMatchPerEntry, Spent, RoomsOf, PoolInv, TypeOK
<1>4. QED
  BY <1>1, <1>2, <1>3 DEF Spent

(* A pairing spends the entry of each side. *)
LEMMA MatchSpendsEntries ==
  ASSUME PoolInv, OneMatchPerEntry, NEW s \in Sockets, NEW w \in Sockets \ {s},
         pool = <<w>>, pool' = <<>>, PairWith(s, w, <<w, s>>),
         entries' = [entries EXCEPT ![s] = @ + 1]
  PROVE  OneMatchPerEntry'
<1> DEFINE n == Len(pairings)
<1>1. /\ n \in Nat
      /\ Len(pairings') = n + 1
      /\ pairings'[n + 1] = [joiner |-> s, partner |-> w]
      /\ \A r \in 1 .. n : pairings'[r] = pairings[r]
  <2>1. [joiner |-> s, partner |-> w] \in Pairing
    BY DEF Pairing
  <2>2. pairings \in Seq(Pairing)
    BY DEF PoolInv, TypeOK
  <2>3. pairings' = Append(pairings, [joiner |-> s, partner |-> w])
    BY DEF PairWith
  <2>4. QED
    BY <2>1, <2>2, <2>3, AppendEffect
<1> SUFFICES ASSUME NEW x \in Sockets PROVE Spent(x)' <= entries'[x]
  BY DEF OneMatchPerEntry, Spent, RoomsOf
<1>2. /\ Spent(x) <= entries[x]
      /\ entries[x] \in Nat
      /\ entries'[x] = IF x = s THEN entries[x] + 1 ELSE entries[x]
  BY DEF OneMatchPerEntry, Spent, RoomsOf, PoolInv, TypeOK
<1>3. IsFiniteSet(RoomsOf(x)) /\ Cardinality(RoomsOf(x)) \in Nat
  BY RoomsCount
<1>4. ~InPool(x)'
  BY DEF InPool
<1>5. InPool(x) <=> x = w
  BY DEF InPool
<1>6. RoomsOf(x)' = IF x \in {s, w} THEN RoomsOf(x) \cup {n + 1} ELSE RoomsOf(x)
  <2>1. \A r \in 1 .. n + 1 : r \in 1 .. n \/ r = n + 1
    BY <1>1
  <2>2. \A r \in 1 .. n : r \in RoomsOf(x)' <=> r \in RoomsOf(x)
    BY <1>1 DEF RoomsOf
  <2>3. n + 1 \in RoomsOf(x)' <=> x \in {s, w}
    BY <1>1 DEF RoomsOf
  <2>4. /\ RoomsOf(x) \subseteq 1 .. n
        /\ RoomsOf(x)' \subseteq 1 .. n + 1
    BY <1>1 DEF RoomsOf
  <2>5. QED
    BY <2>1, <2>2, <2>3, <2>4
<1>7. n + 1 \notin RoomsOf(x)
  BY <1>1 DEF RoomsOf
<1>8. Cardinality(RoomsOf(x) \cup {n + 1}) = Cardinality(RoomsOf(x)) + 1
  BY <1>3, <1>7, FS_AddElement
<1>9. QED
  BY <1>2, <1>3, <1>4, <1>5, <1>6, <1>8 DEF Spent

(* Every step keeps the count. *)
LEMMA MatchesNext == PoolInv /\ OneMatchPerEntry /\ [Next]_vars => OneMatchPerEntry'
<1> SUFFICES ASSUME PoolInv, OneMatchPerEntry, [Next]_vars
             PROVE  OneMatchPerEntry'
  OBVIOUS
<1>1. entries \in [Sockets -> Nat]
  BY DEF PoolInv, TypeOK
<1>2. ASSUME UNCHANGED <<pairings, entries>>, pool' = pool \/ pool' = <<>>
      PROVE  OneMatchPerEntry'
  <2>1. \A x \in Sockets : InPool(x)' => InPool(x)
    BY <1>2 DEF InPool
  <2>2. QED
    BY <1>1, <1>2, <2>1, NoMatchNoSpending
<1>3. ASSUME NEW s \in Sockets, HandleJoinQueue(s) PROVE OneMatchPerEntry'
  <2>1. CASE pool = <<>> /\ KeepWaiting(<<s>>)
    <3>1. pool' = <<s>> /\ pairings' = pairings /\ ~InPool(s)
      BY <2>1 DEF KeepWaiting, InPool
    <3>2. entries' = [entries EXCEPT ![s] = @ + 1]
      BY <1>3, <3>1 DEF HandleJoinQueue
    <3>3. \A x \in Sockets : InPool(x)' => x = s
      BY <3>1 DEF InPool
    <3>4. QED
      BY <1>1, <3>1, <3>2, <3>3, NoMatchNoSpending
  <2>2. CASE pool = <<s>> /\ KeepWaiting(pool)
    <3>1. InPool(s) /\ pool' = pool /\ pairings' = pairings
      BY <2>2 DEF KeepWaiting, InPool
    <3>2. entries' = entries
      BY <1>3, <3>1 DEF HandleJoinQueue
    <3>3. QED
      BY <1>2, <3>1, <3>2
  <2>3. ASSUME NEW w \in Sockets \ {s}, pool = <<w>>, pool' = <<>>,
               PairWith(s, w, <<w, s>>)
        PROVE  OneMatchPerEntry'
    <3>1. ~InPool(s)
      BY <2>3 DEF InPool
    <3>2. entries' = [entries EXCEPT ![s] = @ + 1]
      BY <1>3, <3>1 DEF HandleJoinQueue
    <3>3. QED
      BY <2>3, <3>2, MatchSpendsEntries
  <2>4. QED
    BY <1>3, <2>1, <2>2, <2>3, JoinOutcomes
<1>4. ASSUME NEW s \in Sockets, HandleLeaveQueue(s) PROVE OneMatchPerEntry'
  <2>1. pool' = <<>> \/ pool' = pool
    BY <1>4, WithoutShort
    DEF HandleLeaveQueue, PoolInv, TypeOK, AtMostOneWaiting
  <2>2. QED
    BY <1>2, <1>4, <2>1 DEF HandleLeaveQueue
<1>5. ASSUME NEW s \in Sockets, HandleConnection(s) \/ Disconnect(s)
      PROVE  OneMatchPerEntry'
  BY <1>2, <1>5 DEF HandleConnection, Disconnect
<1>6. CASE RunThen
  BY <1>2, <1>6 DEF RunThen
<1>7. CASE Restart
  BY <1>2, <1>7 DEF Restart
<1>8. CASE UNCHANGED vars
  BY <1>2, <1>8 DEF vars
<1>9. QED
  BY <1>3, <1>4, <1>5, <1>6, <1>7, <1>8 DEF Next

(* A socket is matched at most once for each time it entered the pool, for *)
(* any number of sockets and entries (chat.gateway.ts:61-127, 224-227).    *)
THEOREM MatchesSafe == Spec => []OneMatchPerEntry
<1>1. Init => OneMatchPerEntry
  <2> SUFFICES ASSUME Init, NEW x \in Sockets PROVE Spent(x) <= entries[x]
    BY DEF OneMatchPerEntry, Spent, RoomsOf
  <2>1. RoomsOf(x) = {} /\ ~InPool(x) /\ entries[x] = 0
    BY DEF Init, RoomsOf, InPool
  <2>2. QED
    BY <2>1, FS_EmptySet DEF Spent
<1>2. QED
  BY <1>1, PoolInvInit, PoolInvNext, MatchesNext, PTL DEF Spec
-----------------------------------------------------------------------------
(* Who is in a room is connected. *)
MembersConnected == \A s \in Sockets : joined[s] # {} => conn[s] = "open"

(* Company is kept in the rooms that one is in. *)
CompanyInRooms == \A s \in Sockets : company[s] \subseteq joined[s]

(* The inductive invariant of the rooms. *)
RoomInv == /\ CallsTypeOK
           /\ MembersConnected
           /\ CompanyInRooms
           /\ RoomHoldsItsPair
           /\ GoodbyeIsHeard
-----------------------------------------------------------------------------
(* What a step of the queue may not undo. *)
LEMMA QueueOnlyGrows ==
  ASSUME PoolInv, [Next]_vars
  PROVE  /\ \A r \in 1 .. Len(pairings) : /\ r \in 1 .. Len(pairings')
                                          /\ pairings'[r] = pairings[r]
         /\ \A s \in Sockets : /\ conn[s] # "new" => conn'[s] # "new"
                               /\ conn[s] = "closed" => conn'[s] = "closed"
<1> USE DEF PoolInv, TypeOK
<1>1. ASSUME NEW s \in Sockets, NEW w \in Sockets, PairWith(s, w, <<w, s>>)
      PROVE  \A r \in 1 .. Len(pairings) : /\ r \in 1 .. Len(pairings')
                                           /\ pairings'[r] = pairings[r]
  <2>1. [joiner |-> s, partner |-> w] \in Pairing
    BY DEF Pairing
  <2>2. pairings' = Append(pairings, [joiner |-> s, partner |-> w])
    BY <1>1 DEF PairWith
  <2>3. QED
    BY <2>1, <2>2, AppendEffect
<1>2. ASSUME NEW s \in Sockets, HandleConnection(s)
      PROVE  pairings' = pairings /\ conn' = [conn EXCEPT ![s] = "open"]
             /\ conn[s] = "new"
  BY <1>2 DEF HandleConnection
<1>3. ASSUME NEW s \in Sockets, HandleJoinQueue(s)
      PROVE  /\ conn' = conn
             /\ \A r \in 1 .. Len(pairings) : /\ r \in 1 .. Len(pairings')
                                              /\ pairings'[r] = pairings[r]
  <2>1. conn' = conn
    BY <1>3 DEF HandleJoinQueue
  <2>2. ASSUME NEW queued, KeepWaiting(queued) PROVE pairings' = pairings
    BY <2>2 DEF KeepWaiting
  <2>3. QED
    BY <1>1, <1>3, <2>1, <2>2, JoinOutcomes
<1>4. ASSUME NEW s \in Sockets, HandleLeaveQueue(s)
      PROVE  UNCHANGED <<conn, pairings>>
  BY <1>4 DEF HandleLeaveQueue
<1>5. ASSUME NEW s \in Sockets, Disconnect(s)
      PROVE  pairings' = pairings /\ conn' = [conn EXCEPT ![s] = "closed"]
  BY <1>5 DEF Disconnect
<1>6. RunThen => UNCHANGED <<conn, pairings>>
  BY DEF RunThen
<1>7. Restart => /\ pairings' = pairings
                 /\ conn' = [s \in Sockets |-> IF conn[s] = "open" THEN "closed"
                                                                   ELSE conn[s]]
  BY DEF Restart
<1>8. CASE UNCHANGED vars
  BY <1>8 DEF vars
<1>9. QED
  BY <1>2, <1>3, <1>4, <1>5, <1>6, <1>7, <1>8 DEF Next

(* Who the two sockets of a room are. *)
LEMMA PairOfRoom ==
  ASSUME PoolInv, NEW r \in 1 .. Len(pairings)
  PROVE  /\ pairings[r].joiner \in Sockets /\ pairings[r].partner \in Sockets
         /\ pairings[r].joiner # pairings[r].partner
         /\ \A s : Peer(s, r) \in Sockets
         /\ \A s \in {pairings[r].joiner, pairings[r].partner} :
              /\ Peer(s, r) # s
              /\ \A t \in {pairings[r].joiner, pairings[r].partner} :
                   t = s \/ t = Peer(s, r)
<1>1. pairings[r].joiner \in Sockets /\ pairings[r].partner \in Sockets
  BY NamedSockets
<1>2. pairings[r].joiner # pairings[r].partner
  BY DEF PoolInv, NoSelfPairing
<1>3. QED
  BY <1>1, <1>2 DEF Peer

(* Who were together in a room that was generated. *)
WerePaired(s, t) == \E r \in 1 .. Len(pairings) :
                      {pairings[r].joiner, pairings[r].partner} = {s, t}

(* Whom a socket was told of, it was paired with. *)
LEMMA ToldOfPairs ==
  ASSUME PoolInv, EventInv, NEW s \in Sockets
  PROVE  /\ \A room \in RoomsTold(s) :
              /\ room \in 1 .. Len(pairings)
              /\ s \in {pairings[room].joiner, pairings[room].partner}
         /\ \A t \in PeersTold(s) : WerePaired(s, t)
<1>1. ASSUME NEW e \in told[s]
      PROVE  /\ e.room \in 1 .. Len(pairings)
             /\ {pairings[e.room].joiner, pairings[e.room].partner} = {s, e.peer}
  <2>1. /\ e.room \in 1 .. Len(pairings)
        /\ \/ pairings[e.room] = [joiner |-> s, partner |-> e.peer]
           \/ pairings[e.room] = [joiner |-> e.peer, partner |-> s]
    BY DEF EventInv, RoomsArePrivate
  <2>2. \/ pairings[e.room].joiner = s /\ pairings[e.room].partner = e.peer
        \/ pairings[e.room].joiner = e.peer /\ pairings[e.room].partner = s
    BY <2>1
  <2>3. QED
    BY <2>1, <2>2
<1>2. QED
  BY <1>1 DEF RoomsTold, PeersTold, WerePaired

(* Every step of the calls is one of the queue, or none. *)
LEMMA CallsRefineQueue == [CallsNext]_<<vars, callVars>> => [Next]_vars
BY DEF CallsNext, QueueStep, HandleJoinRoom, HandleLeaveRoom, HandleCallUser,
       HandleCallAnswer, HandleAddIceCandidate, HandleAskForMediaPermission,
       HandleMediaControl, Relay

(* What is passed on: one signal more, to whom it is for. *)
LEMMA RelayEffect ==
  ASSUME CallsTypeOK, NEW kind \in Kinds, NEW s \in Sockets, NEW uuid \in Sockets,
         Relay(kind, s, uuid)
  PROVE  /\ UNCHANGED <<vars, joined, company>>
         /\ heard' \in [Sockets -> SUBSET Signal]
         /\ \A t \in Sockets : heard[t] \subseteq heard'[t]
         /\ \A t \in Sockets : \A x \in heard'[t] :
              x \in heard[t] \/ (t = uuid /\ x = [kind |-> kind, uuid |-> s])
<1>1. [kind |-> kind, uuid |-> s] \in Signal
  BY DEF Signal
<1>2. heard \in [Sockets -> SUBSET Signal]
  BY DEF CallsTypeOK
<1>3. QED
  BY <1>1, <1>2 DEF Relay, Sender
-----------------------------------------------------------------------------
(* Joining a room preserves the invariant of the rooms. *)
LEMMA RoomInvJoin ==
  ASSUME PoolInv, EventInv, RoomInv, PoolInv', NEW s \in Sockets, NEW room,
         HandleJoinRoom(s, room)
  PROVE  RoomInv'
<1> DEFINE peer == Peer(s, room)
<1>1. /\ room \in 1 .. Len(pairings)
      /\ s \in {pairings[room].joiner, pairings[room].partner}
  BY ToldOfPairs DEF HandleJoinRoom
<1>2. /\ peer \in Sockets /\ peer # s /\ Peer(peer, room) = s
  BY <1>1, PairOfRoom DEF Peer
<1>3. room \in Rooms
  BY <1>1 DEF Rooms, PoolInv, TypeOK
<1>4. /\ joined \in [Sockets -> SUBSET Rooms]
      /\ company \in [Sockets -> SUBSET Rooms]
      /\ heard \in [Sockets -> SUBSET Signal]
  BY DEF RoomInv, CallsTypeOK
<1>5. /\ conn[s] = "open"
      /\ joined' = [joined EXCEPT ![s] = @ \cup {room}]
      /\ UNCHANGED <<conn, pairings, heard>>
  BY DEF HandleJoinRoom, vars
<1>6. \/ /\ room \in joined[peer]
         /\ company' = [company EXCEPT ![s] = @ \cup {room},
                                       ![peer] = @ \cup {room}]
      \/ company' = company
  BY DEF HandleJoinRoom
<1> HIDE DEF peer
<1>7. \A t \in Sockets : joined[t] \subseteq joined'[t]
  BY <1>4, <1>5
<1>8. CallsTypeOK'
  <2>1. joined' \in [Sockets -> SUBSET Rooms]
    BY <1>3, <1>4, <1>5
  <2>2. company' \in [Sockets -> SUBSET Rooms]
    BY <1>2, <1>3, <1>4, <1>6
  <2>3. QED
    BY <1>4, <1>5, <2>1, <2>2 DEF PoolInv, CallsTypeOK
<1>9. MembersConnected'
  BY <1>4, <1>5 DEF RoomInv, MembersConnected
<1>10. CompanyInRooms'
  <2>1. \A t \in Sockets : company[t] \subseteq joined'[t]
    BY <1>7 DEF RoomInv, CompanyInRooms
  <2>2. room \in joined'[s]
    BY <1>4, <1>5
  <2>3. room \in joined[peer] => room \in joined'[peer]
    BY <1>2, <1>7
  <2>4. QED
    BY <1>2, <1>4, <1>6, <2>1, <2>2, <2>3 DEF CompanyInRooms
<1>11. RoomHoldsItsPair'
  BY <1>1, <1>4, <1>5 DEF RoomInv, RoomHoldsItsPair
<1>12. GoodbyeIsHeard'
  <2> SUFFICES ASSUME NEW t \in Sockets, NEW r \in company'[t]
               PROVE  r \in joined'[Peer(t, r)] \/ conn[Peer(t, r)] = "closed"
    BY <1>5 DEF GoodbyeIsHeard, Peer
  <2>1. CASE r \in company[t]
    <3>1. r \in 1 .. Len(pairings)
      BY <2>1 DEF RoomInv, CompanyInRooms, RoomHoldsItsPair
    <3>2. Peer(t, r) \in Sockets
      BY <3>1, PairOfRoom
    <3>3. QED
      BY <1>7, <2>1, <3>2 DEF RoomInv, GoodbyeIsHeard
  <2>2. CASE t = s /\ r = room /\ room \in joined[peer]
    BY <1>2, <1>7, <2>2 DEF peer
  <2>3. CASE t = peer /\ r = room
    <3>1. room \in joined'[s]
      BY <1>4, <1>5
    <3>2. QED
      BY <1>2, <2>3, <3>1
  <2>4. QED
    BY <1>2, <1>4, <1>6, <2>1, <2>2, <2>3
<1>13. QED
  BY <1>8, <1>9, <1>10, <1>11, <1>12 DEF RoomInv

(* So does leaving it, because the one who stays is told. *)
LEMMA RoomInvLeave ==
  ASSUME PoolInv, EventInv, RoomInv, PoolInv', NEW s \in Sockets, NEW room,
         HandleLeaveRoom(s, room)
  PROVE  RoomInv'
<1>1. /\ room \in 1 .. Len(pairings)
      /\ s \in {pairings[room].joiner, pairings[room].partner}
  BY ToldOfPairs DEF HandleLeaveRoom
<1>2. /\ joined \in [Sockets -> SUBSET Rooms]
      /\ company \in [Sockets -> SUBSET Rooms]
      /\ heard \in [Sockets -> SUBSET Signal]
  BY DEF RoomInv, CallsTypeOK
<1>3. /\ joined' = [joined EXCEPT ![s] = @ \ {room}]
      /\ company' = [t \in Sockets |-> IF t = s \/ t \in Others(s, room)
                                       THEN company[t] \ {room} ELSE company[t]]
      /\ UNCHANGED <<conn, pairings, heard>>
  BY DEF HandleLeaveRoom, vars
<1>4. /\ \A t \in Sockets : company'[t] \subseteq company[t]
      /\ \A t \in Sockets : joined'[t] \subseteq joined[t]
      /\ \A t \in Sockets : room \notin company'[t]
  <2>1. \A t \in Sockets : company'[t] \subseteq company[t]
    BY <1>2, <1>3
  <2>2. \A t \in Sockets : joined'[t] \subseteq joined[t]
    BY <1>2, <1>3
  <2>3. ASSUME NEW t \in Sockets PROVE room \notin company'[t]
    <3>1. CASE t = s \/ t \in Others(s, room)
      BY <1>3, <3>1
    <3>2. CASE ~(t = s \/ t \in Others(s, room))
      <4>1. room \notin joined[t]
        BY <3>2 DEF Others
      <4>2. QED
        BY <1>3, <3>2, <4>1 DEF RoomInv, CompanyInRooms
    <3>3. QED
      BY <3>1, <3>2
  <2>4. QED
    BY <2>1, <2>2, <2>3
<1>5. \A t \in Sockets : \A r : r # room /\ r \in joined[t] => r \in joined'[t]
  BY <1>2, <1>3
<1>6. CallsTypeOK'
  BY <1>2, <1>3 DEF PoolInv, CallsTypeOK
<1>7. MembersConnected'
  BY <1>3, <1>4 DEF RoomInv, MembersConnected
<1>8. CompanyInRooms'
  <2>1. \A t \in Sockets : \A r \in company'[t] : r # room /\ r \in joined[t]
    BY <1>4 DEF RoomInv, CompanyInRooms
  <2>2. QED
    BY <1>5, <2>1 DEF CompanyInRooms
<1>9. RoomHoldsItsPair'
  BY <1>3, <1>4 DEF RoomInv, RoomHoldsItsPair
<1>10. GoodbyeIsHeard'
  <2> SUFFICES ASSUME NEW t \in Sockets, NEW r \in company'[t]
               PROVE  r \in joined'[Peer(t, r)] \/ conn[Peer(t, r)] = "closed"
    BY <1>3 DEF GoodbyeIsHeard, Peer
  <2>1. r # room /\ r \in company[t]
    BY <1>4
  <2>2. r \in 1 .. Len(pairings)
    BY <2>1 DEF RoomInv, CompanyInRooms, RoomHoldsItsPair
  <2>3. Peer(t, r) \in Sockets
    BY <2>2, PairOfRoom
  <2>4. QED
    BY <1>5, <2>1, <2>3 DEF RoomInv, GoodbyeIsHeard
<1>11. QED
  BY <1>6, <1>7, <1>8, <1>9, <1>10 DEF RoomInv

(* And a step of the queue: who drops leaves its rooms, and is closed.     *)
LEMMA RoomInvQueue ==
  ASSUME PoolInv, RoomInv, PoolInv', QueueStep
  PROVE  RoomInv'
<1>1. /\ joined \in [Sockets -> SUBSET Rooms]
      /\ company \in [Sockets -> SUBSET Rooms]
      /\ heard \in [Sockets -> SUBSET Signal]
      /\ heard' = heard
  BY DEF RoomInv, CallsTypeOK, QueueStep
<1>2. /\ joined' = [s \in Sockets |-> IF conn'[s] = "open" THEN joined[s] ELSE {}]
      /\ company' = [s \in Sockets |-> IF conn'[s] = "open" THEN company[s]
                                                            ELSE {}]
  BY DEF QueueStep, Still
<1>3. /\ \A r \in 1 .. Len(pairings) : /\ r \in 1 .. Len(pairings')
                                       /\ pairings'[r] = pairings[r]
      /\ \A s \in Sockets : /\ conn[s] # "new" => conn'[s] # "new"
                            /\ conn[s] = "closed" => conn'[s] = "closed"
  BY QueueOnlyGrows DEF QueueStep
<1>4. CallsTypeOK'
  BY <1>1, <1>2 DEF PoolInv, CallsTypeOK
<1>5. MembersConnected'
  BY <1>2 DEF MembersConnected
<1>6. CompanyInRooms'
  BY <1>2 DEF RoomInv, CompanyInRooms
<1>7. RoomHoldsItsPair'
  BY <1>2, <1>3 DEF RoomInv, RoomHoldsItsPair
<1>8. GoodbyeIsHeard'
  <2> SUFFICES ASSUME NEW t \in Sockets, NEW r \in company'[t]
               PROVE  \/ r \in joined'[Peer(t, r)']
                      \/ conn'[Peer(t, r)'] = "closed"
    BY DEF GoodbyeIsHeard
  <2>1. r \in company[t]
    BY <1>2
  <2>2. r \in 1 .. Len(pairings)
    BY <2>1 DEF RoomInv, CompanyInRooms, RoomHoldsItsPair
  <2>3. Peer(t, r) \in Sockets /\ Peer(t, r)' = Peer(t, r)
    BY <1>3, <2>2, PairOfRoom DEF Peer
  <2>4. r \in joined[Peer(t, r)] \/ conn[Peer(t, r)] = "closed"
    BY <2>1 DEF RoomInv, GoodbyeIsHeard
  <2>5. r \in joined[Peer(t, r)] => conn[Peer(t, r)] = "open"
    BY <2>3 DEF RoomInv, MembersConnected
  <2>6. conn'[Peer(t, r)] \in {"new", "open", "closed"}
    BY <2>3 DEF PoolInv, TypeOK
  <2>7. QED
    BY <1>2, <1>3, <2>3, <2>4, <2>5, <2>6
<1>9. QED
  BY <1>4, <1>5, <1>6, <1>7, <1>8 DEF RoomInv

(* What is passed on touches no room. *)
LEMMA RoomInvRelay ==
  ASSUME PoolInv', RoomInv, NEW kind \in Kinds, NEW s \in Sockets,
         NEW uuid \in Sockets, Relay(kind, s, uuid)
  PROVE  RoomInv'
<1>1. UNCHANGED <<vars, joined, company>> /\ heard' \in [Sockets -> SUBSET Signal]
  BY RelayEffect DEF RoomInv
<1>2. CallsTypeOK'
  BY <1>1 DEF RoomInv, CallsTypeOK, PoolInv
<1>3. MembersConnected' /\ CompanyInRooms' /\ RoomHoldsItsPair' /\ GoodbyeIsHeard'
  BY <1>1 DEF RoomInv, MembersConnected, CompanyInRooms, RoomHoldsItsPair,
              GoodbyeIsHeard, Peer, vars
<1>4. QED
  BY <1>2, <1>3 DEF RoomInv

(* Every step preserves the invariant of the rooms. *)
LEMMA RoomInvNext ==
  ASSUME PoolInv, EventInv, RoomInv, [CallsNext]_<<vars, callVars>>
  PROVE  RoomInv'
<1>1. PoolInv'
  BY PoolInvNext, CallsRefineQueue
<1>2. CASE QueueStep
  BY <1>1, <1>2, RoomInvQueue
<1>3. ASSUME NEW s \in Sockets, NEW room \in 1 .. Len(pairings),
             HandleJoinRoom(s, room)
      PROVE  RoomInv'
  BY <1>1, <1>3, RoomInvJoin
<1>4. ASSUME NEW s \in Sockets, NEW room \in 1 .. Len(pairings),
             HandleLeaveRoom(s, room)
      PROVE  RoomInv'
  BY <1>1, <1>4, RoomInvLeave
<1>5. ASSUME NEW kind \in Kinds, NEW s \in Sockets, NEW uuid \in Sockets,
             Relay(kind, s, uuid)
      PROVE  RoomInv'
  BY <1>1, <1>5, RoomInvRelay
<1>6. CASE UNCHANGED <<vars, callVars>>
  BY <1>1, <1>6
  DEF vars, callVars, RoomInv, CallsTypeOK, MembersConnected, CompanyInRooms,
      RoomHoldsItsPair, GoodbyeIsHeard, Peer, PoolInv
<1>7. QED
  BY <1>2, <1>3, <1>4, <1>5, <1>6
  DEF CallsNext, HandleCallUser, HandleCallAnswer, HandleAddIceCandidate,
      HandleAskForMediaPermission, HandleMediaControl, Kinds

(* Nobody is in a room at first. *)
LEMMA RoomInvInit == CallsInit => RoomInv
BY PoolInvInit DEF CallsInit, Init, RoomInv, CallsTypeOK, MembersConnected,
   CompanyInRooms, RoomHoldsItsPair, GoodbyeIsHeard, PoolInv

LEMMA RoomInvHolds == CallsSpec => []RoomInv
<1>1. CallsInit => Init
  BY DEF CallsInit
<1>2. QED
  BY <1>1, PoolInvInit, EventInvInit, RoomInvInit, PoolInvNext, EventInvNext,
     RoomInvNext, CallsRefineQueue, PTL DEF CallsSpec

(* What the handlers of rooms and calls keep has its type.                 *)
THEOREM CallsTyped == CallsSpec => []CallsTypeOK
<1>1. RoomInv => CallsTypeOK
  BY DEF RoomInv
<1>2. QED BY <1>1, RoomInvHolds, PTL

(* Whatever the sockets do, a room holds no one but the pair it was        *)
(* generated for (chat.gateway.ts:68-85, 114-138).                         *)
THEOREM RoomsArePairs == CallsSpec => []RoomHoldsItsPair
<1>1. RoomInv => RoomHoldsItsPair
  BY DEF RoomInv
<1>2. QED BY <1>1, RoomInvHolds, PTL

(* Who stays in a room alone has heard that the other left, or lost it to  *)
(* a dropped connection (chat.gateway.ts:114-138).                         *)
THEOREM RoomsSafe == CallsSpec => []GoodbyeIsHeard
<1>1. RoomInv => GoodbyeIsHeard
  BY DEF RoomInv
<1>2. QED BY <1>1, RoomInvHolds, PTL
-----------------------------------------------------------------------------
(* Being paired once is for ever. *)
LEMMA PairsStay ==
  ASSUME PoolInv, [Next]_vars, NEW s, NEW t, WerePaired(s, t)
  PROVE  WerePaired(s, t)'
BY QueueOnlyGrows DEF WerePaired

(* Signals go between sockets that were paired, in whatever room. *)
CallersWerePaired ==
  \A s \in Sockets : \A x \in heard[s] : WerePaired(s, x.uuid)

(* Those that were paired have heard of each other, or are about to. *)
LEMMA PairedAreIntroduced ==
  ASSUME PoolInv, EventInv, CallersWerePaired
  PROVE  CallersAreIntroduced
<1> SUFFICES ASSUME NEW s \in Sockets, conn[s] = "open", NEW x \in heard[s]
             PROVE  x.uuid \in PeersTold(s) \/ ToBeTold(s, x.uuid)
  BY DEF CallersAreIntroduced
<1>1. PICK r \in 1 .. Len(pairings) :
        {pairings[r].joiner, pairings[r].partner} = {s, x.uuid}
  BY DEF CallersWerePaired, WerePaired
<1>2. PartnerHeard(r) /\ JoinerHeard(r)
  BY DEF EventInv, BothSidesHear
<1>3. pairings[r].joiner # pairings[r].partner
  BY DEF PoolInv, NoSelfPairing
<1>4. CASE pairings[r].joiner = s /\ pairings[r].partner = x.uuid
  <2> DEFINE news == [room |-> r, peer |-> x.uuid]
  <2>1. news.peer = x.uuid
    OBVIOUS
  <2>2. \/ news \in told[s]
        \/ \E i \in 1 .. Len(thens) :
             /\ thens[i].joiner = s
             /\ [room |-> thens[i].room, peer |-> thens[i].peer] = news
    BY <1>2, <1>4 DEF JoinerHeard
  <2> HIDE DEF news
  <2>3. CASE news \in told[s]
    BY <2>1, <2>3 DEF PeersTold
  <2>4. ASSUME NEW i \in 1 .. Len(thens), thens[i].joiner = s,
               [room |-> thens[i].room, peer |-> thens[i].peer] = news
        PROVE  ToBeTold(s, x.uuid)
    <3>1. thens[i].peer = x.uuid
      BY <2>1, <2>4
    <3>2. QED
      BY <2>4, <3>1 DEF ToBeTold
  <2>5. QED
    BY <2>2, <2>3, <2>4
<1>5. CASE pairings[r].joiner = x.uuid /\ pairings[r].partner = s
  BY <1>2, <1>5 DEF PartnerHeard, PeersTold
<1>6. QED
  BY <1>1, <1>3, <1>4, <1>5

(* A signal goes to a socket that was paired with the one it names. *)
LEMMA CallersRelay ==
  ASSUME PoolInv, EventInv, CallsTypeOK, CallersWerePaired, NEW kind \in Kinds,
         NEW s \in Sockets, NEW uuid \in Sockets, Relay(kind, s, uuid)
  PROVE  CallersWerePaired'
<1>1. /\ UNCHANGED vars
      /\ \A t \in Sockets : \A x \in heard'[t] :
           x \in heard[t] \/ (t = uuid /\ x = [kind |-> kind, uuid |-> s])
  BY RelayEffect
<1>2. WerePaired(s, uuid)
  BY ToldOfPairs DEF Relay, Known, CallersWerePaired
<1>3. WerePaired(uuid, s)
  BY <1>2 DEF WerePaired
<1>4. \A t, w : WerePaired(t, w)' = WerePaired(t, w)
  BY <1>1 DEF vars, WerePaired
<1>5. \A t \in Sockets : \A x \in heard'[t] : WerePaired(t, x.uuid)
  BY <1>1, <1>3 DEF CallersWerePaired
<1>6. QED
  BY <1>4, <1>5 DEF CallersWerePaired

(* Every step keeps them so. *)
LEMMA CallersNext ==
  ASSUME PoolInv, EventInv, CallsTypeOK, CallersWerePaired,
         [CallsNext]_<<vars, callVars>>
  PROVE  CallersWerePaired'
<1>1. [Next]_vars
  BY CallsRefineQueue
<1>2. CASE UNCHANGED heard
  BY <1>1, <1>2, PairsStay DEF CallersWerePaired
<1>3. ASSUME NEW kind \in Kinds, NEW s \in Sockets, NEW uuid \in Sockets,
             Relay(kind, s, uuid)
      PROVE  CallersWerePaired'
  BY <1>3, CallersRelay
<1>4. QED
  BY <1>2, <1>3
  DEF CallsNext, QueueStep, HandleJoinRoom, HandleLeaveRoom, HandleCallUser,
      HandleCallAnswer, HandleAddIceCandidate, HandleAskForMediaPermission,
      HandleMediaControl, Kinds, callVars

(* Who calls a socket, or answers it, is one that the socket was told of,  *)
(* or is about to be, however the events of the pairing and the signals    *)
(* are ordered (chat.gateway.ts:73-85, 114-124, 234-281).                  *)
THEOREM SignalsSafe == CallsSpec => []CallersAreIntroduced
<1>1. CallsInit => Init /\ CallersWerePaired
  BY DEF CallsInit, CallersWerePaired
<1>2. QED
  BY <1>1, PoolInvInit, EventInvInit, RoomInvInit, PoolInvNext, EventInvNext,
     RoomInvNext, CallersNext, PairedAreIntroduced, CallsRefineQueue, PTL
  DEF CallsSpec, RoomInv

(* Calls and rooms change nothing for the queue: whatever holds of it      *)
(* holds of the whole gateway, its refinement of the meeting point         *)
(* included (chat.gateway.ts:61-138, 224-283).                             *)
THEOREM CallsRefineRendezvous ==
  CallsSpec => /\ Spec
               /\ [](AtMostOneWaiting /\ BothSidesHear /\ OneMatchPerEntry)
               /\ ImplementsRendezvous
<1>1. CallsInit => Init
  BY DEF CallsInit
<1>2. CallsSpec => Spec
  BY <1>1, CallsRefineQueue, PTL DEF CallsSpec, Spec
<1>3. QED
  BY <1>2, PoolSafe, EventsSafe, MatchesSafe, Refinement, PTL
=============================================================================
