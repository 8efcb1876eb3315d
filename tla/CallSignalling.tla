--------------------------- MODULE CallSignalling ---------------------------
(***************************************************************************)
(* What two paired sockets do with each other: 'join room' and 'leave room'*)
(* of src/chat/chat.gateway.ts, and the handlers that pass on the offers,  *)
(* answers, candidates and permissions of a WebRTC call.  It adds them to  *)
(* MatchQueue, whose ClientPaired events tell a client of the room and of  *)
(* the uuid it uses here.                                                  *)
(*                                                                         *)
(* The gateway checks nothing of what it passes on: anybody may answer what*)
(* nobody asked.  The ids of sockets and the names of rooms are random, so *)
(* a client is assumed to use only those it was told or has heard from.    *)
(* Offers and candidates themselves are left out.                          *)
(***************************************************************************)
EXTENDS MatchQueue

CONSTANT MaxSignals    \* bound: how many signals arrive

ASSUME SignalsAssumption == MaxSignals \in Nat

VARIABLES joined,    \* the rooms of socket.io that each socket is in
          heard,     \* the signals each socket has received
          company    \* history: the rooms in which a socket has been together
                     \* with its peer, and has not heard that it left

callVars == <<joined, heard, company>>

Kinds == {"CallMade", "AnswerMade", "ReceivedIceCandidate",
          "MediaPermissionAsked", "MediaPermissionAnswered"}
Signal == [kind: Kinds, uuid: Sockets]

CallsTypeOK == /\ TypeOK
               /\ joined \in [Sockets -> SUBSET Rooms]
               /\ heard \in [Sockets -> SUBSET Signal]
               /\ company \in [Sockets -> SUBSET Rooms]

CallsInit == /\ Init
             /\ joined = [s \in Sockets |-> {}]
             /\ heard = [s \in Sockets |-> {}]
             /\ company = [s \in Sockets |-> {}]

RoomsTold(s) == {e.room : e \in told[s]}
PeersTold(s) == {e.peer : e \in told[s]}

(* The sockets that s can name: its peers, and those that have called it.  *)
Known(s) == PeersTold(s) \cup {x.uuid : x \in heard[s]}
Peer(s, room) == IF pairings[room].joiner = s THEN pairings[room].partner
                                              ELSE pairings[room].joiner
-----------------------------------------------------------------------------
HandleJoinRoom(s, room) ==
  /\ conn[s] = "open"
  /\ room \in RoomsTold(s)
  /\ joined' = [joined EXCEPT ![s] = @ \cup {room}]
  /\ company' = IF room \in joined[Peer(s, room)]
                THEN [company EXCEPT ![s] = @ \cup {room},
                                     ![Peer(s, room)] = @ \cup {room}]
                ELSE company
  /\ UNCHANGED <<vars, heard>>

(* GoodbyeIsHeard: socket.emit, to the socket that leaves. *)
WrongOthers(s, room) == {s}

(* socket.to(room): all that are in it but the socket. *)
Others(s, room) == {t \in Sockets \ {s} : room \in joined[t]}

(* handleLeaveRoom: the room is left, and ClientDisconnected sent to it. *)
HandleLeaveRoom(s, room) ==
  /\ conn[s] = "open"
  /\ room \in RoomsTold(s)
  /\ joined' = [joined EXCEPT ![s] = @ \ {room}]
  /\ company' = [t \in Sockets |-> IF t = s \/ t \in Others(s, room)
                                   THEN company[t] \ {room} ELSE company[t]]
  /\ UNCHANGED <<vars, heard>>

Arrived == UNION {heard[s] \X {s} : s \in Sockets}

(* CallersAreIntroduced: uuid as it is in data. *)
WrongSender(s, uuid) == uuid

(* The uuid that is passed on; the spread data come before it. *)
Sender(s, uuid) == s

(* server.to(uuid).emit: nobody is there when the connection is closed. *)
Relay(kind, s, uuid) ==
  /\ conn[s] = "open"
  /\ uuid \in Known(s)
  /\ Cardinality(Arrived) < MaxSignals
  /\ heard' = IF conn[uuid] = "open"
              THEN [heard EXCEPT ![uuid] = @ \cup {[kind |-> kind,
                                                    uuid |-> Sender(s, uuid)]}]
              ELSE heard
  /\ UNCHANGED <<vars, joined, company>>

HandleCallUser(s, uuid) == Relay("CallMade", s, uuid)

HandleCallAnswer(s, uuid) == Relay("AnswerMade", s, uuid)

HandleAddIceCandidate(s, uuid) == Relay("ReceivedIceCandidate", s, uuid)

HandleAskForMediaPermission(s, uuid) == Relay("MediaPermissionAsked", s, uuid)

HandleMediaControl(s, uuid) == Relay("MediaPermissionAnswered", s, uuid)
-----------------------------------------------------------------------------
(* A step of the queue.  A socket whose connection drops with it is taken  *)
(* out of its rooms by socket.io, and nobody is told: there is no          *)
(* handleDisconnect.                                                       *)
Still(f) == [s \in Sockets |-> IF conn'[s] = "open" THEN f[s] ELSE {}]

QueueStep == /\ Next
             /\ joined' = Still(joined)
             /\ company' = Still(company)
             /\ UNCHANGED heard

CallsNext ==
  \/ QueueStep
  \/ \E s \in Sockets, room \in 1 .. Len(pairings) :
       HandleJoinRoom(s, room) \/ HandleLeaveRoom(s, room)
  \/ \E s \in Sockets, uuid \in Sockets :
       \/ HandleCallUser(s, uuid) \/ HandleCallAnswer(s, uuid)
       \/ HandleAddIceCandidate(s, uuid)
       \/ HandleAskForMediaPermission(s, uuid) \/ HandleMediaControl(s, uuid)

CallsSpec == CallsInit /\ [][CallsNext]_<<vars, callVars>>
-----------------------------------------------------------------------------
(* Whoever joins, leaves, drops and is matched anew: in a room are at most *)
(* the two sockets it was generated for, so that what is emitted to it     *)
(* stays between them (chat.gateway.ts:68-85, 114-138, 183).               *)
RoomHoldsItsPair ==
  \A s \in Sockets : \A r \in joined[s] :
    /\ r \in 1 .. Len(pairings)
    /\ s \in {pairings[r].joiner, pairings[r].partner}

(* A socket that has been in a room together with its peer and is there    *)
(* alone has heard that the peer left, unless the peer's connection        *)
(* dropped (chat.gateway.ts:129-133, and no handleDisconnect).             *)
GoodbyeIsHeard ==
  \A s \in Sockets : \A r \in company[s] :
    r \in joined[Peer(s, r)] \/ conn[Peer(s, r)] = "closed"

(* The callback that tells socket s of its peer is still queued. *)
ToBeTold(s, peer) ==
  \E i \in 1 .. Len(thens) : thens[i].joiner = s /\ thens[i].peer = peer

(* A partner may call the joiner before the joiner's own callback has run, *)
(* and calls outlive the room they were made in; still a signal names a    *)
(* socket that the one it reaches was introduced to, or is about to be     *)
(* (chat.gateway.ts:73-85, 114-124, 234-281).                              *)
CallersAreIntroduced ==
  \A s \in Sockets : conn[s] = "open" =>
    \A x \in heard[s] : x.uuid \in PeersTold(s) \/ ToBeTold(s, x.uuid)
=============================================================================
