-------------------------- MODULE MessageFeedProofs --------------------------
(***************************************************************************)
(* That no client misses a message, for any number of clients, addresses,  *)
(* calls and messages.  What clients do leaves the tables alone, so that   *)
(* every step is one of ChatRooms or none of its steps, and RoomsInv holds *)
(* here as well: it says where the message of a call is that is about to   *)
(* publish it.                                                             *)
(***************************************************************************)
EXTENDS MessageFeed, ChatRoomsProofs

allVars == <<roomVars, feedVars>>

ClientsTypeOK == /\ joined \in SUBSET Views
                 /\ fetched \in SUBSET joined
                 /\ shown \in [Views -> SUBSET Ids]

SeenRows == seen \in SUBSET IdsOf(messages)

FeedInv == RoomsInv /\ ClientsTypeOK /\ SeenRows /\ NoMessageMissed
-----------------------------------------------------------------------------
(* What clients do is no step of ChatRooms; all the rest is one.           *)
LEMMA FeedTakesRoomSteps == [FeedNext]_allVars => [RoomsNext]_roomVars
<1> SUFFICES ASSUME [FeedNext]_allVars PROVE [RoomsNext]_roomVars
  OBVIOUS
<1>1. ASSUME NEW c \in Calls, HandleMessage(c) \/ SaveMessageStep(c) \/ ReportFailure(c)
      PROVE  RoomsNext
  BY <1>1 DEF RoomsNext, SendStep
<1>2. ASSUME NEW c \in Calls, EmitMessage(c) PROVE RoomsNext
  BY <1>2 DEF EmitMessage, RoomsNext, SendStep
<1>3. ASSUME NEW r \in rooms, RoomGone(r) PROVE RoomsNext
  BY <1>3 DEF RoomGone, RoomsNext
<1>4. ASSUME NEW r \in rooms, MarkAllMessagesRead(r) PROVE UNCHANGED roomVars
  BY <1>4 DEF MarkAllMessagesRead
<1>5. ASSUME NEW k \in Clients, NEW a \in Addresses,
             \/ JoinRoom(k, a) \/ LeaveRoom(k, a)
             \/ \E id \in 1 .. (nextRoom - 1) : MessagesFromRoom(k, a, id)
      PROVE  UNCHANGED roomVars
  BY <1>5 DEF JoinRoom, LeaveRoom, MessagesFromRoom
<1>6. ASSUME NEW k \in Clients, Disconnect(k) PROVE UNCHANGED roomVars
  BY <1>6 DEF Disconnect
<1>7. ASSUME Restart PROVE RoomsNext
  BY <1>7 DEF Restart, RoomsNext
<1>8. QED
  BY <1>1, <1>2, <1>3, <1>4, <1>5, <1>6, <1>7 DEF FeedNext, allVars

(* Nobody has asked for anything at first.                                 *)
LEMMA FeedInvInit == FeedInit => FeedInv
BY RoomsInvInit DEF FeedInit, FeedInv, ClientsTypeOK, SeenRows, NoMessageMissed
-----------------------------------------------------------------------------
(* A step of a call that emits nothing: what it adds to an address is a    *)
(* message that it is about to publish.                                    *)
LEMMA CallsMissNothing ==
  ASSUME RoomsInv, NoMessageMissed, UNCHANGED feedVars,
         NEW c \in Calls, HandleMessage(c) \/ SaveMessageStep(c) \/ ReportFailure(c)
  PROVE  NoMessageMissed'
<1> DEFINE Pending(m) == \E d \in Calls : /\ calls[d].at = "saved"
                                          /\ calls[d].message = m.id
<1>1. /\ calls[c].at # "saved" /\ \A d \in Calls \ {c} : calls'[d] = calls[d]
  BY DEF HandleMessage, MayStart, SaveMessageStep, FindRoom, SaveRoom,
         CreateMessage, ReportFailure, Fail, RoomsInv, RoomsTypeOK
<1>2. SUFFICES ASSUME NEW v \in fetched, NEW m \in MessagesAt(v[2])'
               PROVE  m.id \in shown[v] \/ Pending(m)'
  BY DEF NoMessageMissed, feedVars
<1>3. ASSUME m \in MessagesAt(v[2]) PROVE m.id \in shown[v] \/ Pending(m)'
  BY <1>1, <1>3 DEF NoMessageMissed
<1>4. ASSUME m \notin messages PROVE Pending(m)'
  <2>1. m \in messages' /\ CreateMessage(c)
    BY <1>4 DEF MessagesAt, HandleMessage, SaveMessageStep, FindRoom, SaveRoom,
                ReportFailure
  <2>2. /\ m.id = nextMessage
        /\ calls' = [calls EXCEPT ![c] = [@ EXCEPT !.at = "saved", !.message = nextMessage]]
    BY <1>4, <2>1 DEF CreateMessage
  <2>3. calls'[c].at = "saved" /\ calls'[c].message = nextMessage
    BY <2>2 DEF RoomsInv, RoomsTypeOK, Call
  <2>4. QED BY <2>2, <2>3
<1>5. ASSUME m \in messages PROVE m \in MessagesAt(v[2])
  <2>1. PICK r \in rooms' : r.address = v[2] /\ m.room = r.id
    BY DEF MessagesAt, RoomsAt
  <2>2. PICK q \in rooms : m.room = q.id
    BY <1>5 DEF RoomsInv, NoOrphans, RoomExists
  <2>3. q.id # nextRoom
    BY DEF RoomsInv, RoomsTypeOK, RoomIds, Room, Ids
  <2>4. \A p \in rooms' \ rooms : p.id = nextRoom
    <3>1. rooms' = rooms \/ \E a \in Addresses : InsertRoom(a)
      BY DEF HandleMessage, SaveMessageStep, FindRoom, SaveRoom, CreateMessage,
             ReportFailure, RoomsInv, RoomsTypeOK, Call
    <3>2. ASSUME NEW a, InsertRoom(a) PROVE \A p \in rooms' \ rooms : p.id = nextRoom
      BY <3>2 DEF InsertRoom
    <3>3. QED BY <3>1, <3>2
  <2>5. QED BY <1>5, <2>1, <2>2, <2>3, <2>4 DEF MessagesAt, RoomsAt
<1>6. QED BY <1>3, <1>4, <1>5

(* The message emitted is at the address it is emitted to, and nowhere     *)
(* else; all who are there get it.                                         *)
LEMMA EmitMissesNothing ==
  ASSUME RoomsInv, ClientsTypeOK, NoMessageMissed, NEW c \in Calls, EmitMessage(c)
  PROVE  NoMessageMissed' /\ ClientsTypeOK'
<1>1. /\ UNCHANGED <<rooms, messages, joined, fetched>>
      /\ calls[c].at = "saved" /\ calls[c].message \in broadcast'
      /\ \A d \in Calls \ {c} : calls'[d] = calls[d]
  BY DEF EmitMessage, PublishMessage
<1>2. /\ calls[c].message \in Ids /\ IsAt(calls[c].message, calls[c].address)
  BY <1>1 DEF RoomsInv, Remembered, MessageRemembered
<1>3. /\ shown' \in [Views -> SUBSET Ids]
      /\ \A v \in Views : shown[v] \subseteq shown'[v]
      /\ \A v \in joined : v[2] = calls[c].address => calls[c].message \in shown'[v]
  BY <1>1, <1>2 DEF EmitMessage, Receivers, ClientsTypeOK
<1>4. ClientsTypeOK'
  BY <1>1, <1>3 DEF ClientsTypeOK
<1>5. ASSUME NEW v \in fetched, NEW m \in MessagesAt(v[2]), m.id = calls[c].message
      PROVE  v[2] = calls[c].address
  <2>1. PICK r \in rooms : r.address = v[2] /\ m.room = r.id
    BY DEF MessagesAt, RoomsAt
  <2>2. m \in messages
    BY DEF MessagesAt
  <2>3. PICK q \in rooms : q.address = calls[c].address /\ m.room = q.id
    BY <1>2, <1>5, <2>2 DEF IsAt, RoomsAt
  <2>4. QED BY <2>1, <2>3 DEF RoomsInv, RoomIds
<1>6. NoMessageMissed'
  <2> SUFFICES ASSUME NEW v \in fetched, NEW m \in MessagesAt(v[2])
               PROVE  \/ m.id \in shown'[v]
                      \/ \E d \in Calls : calls'[d].at = "saved" /\ calls'[d].message = m.id
    BY <1>1 DEF NoMessageMissed, MessagesAt, RoomsAt
  <2>1. v \in joined /\ v \in Views
    BY DEF ClientsTypeOK
  <2>2. CASE m.id = calls[c].message
    BY <1>3, <1>5, <2>1, <2>2
  <2>3. CASE m.id # calls[c].message
    BY <1>1, <1>3, <2>1, <2>3 DEF NoMessageMissed
  <2>4. QED BY <2>2, <2>3
<1>7. QED BY <1>4, <1>6

(* Nothing is added to the tables or taken from those who look. *)
LEMMA NothingAdded ==
  ASSUME NoMessageMissed, rooms' \subseteq rooms, messages' \subseteq messages,
         calls' = calls, fetched' \subseteq fetched,
         \A v \in fetched' : shown'[v] = shown[v]
  PROVE  NoMessageMissed'
BY DEF NoMessageMissed, MessagesAt, RoomsAt

(* Who leaves relies on nothing any more.                                  *)
LEMMA LeaveMissesNothing ==
  ASSUME ClientsTypeOK, NoMessageMissed, NEW views \in SUBSET Views, Leave(views),
         UNCHANGED roomVars
  PROVE  NoMessageMissed' /\ ClientsTypeOK'
<1>1. ClientsTypeOK'
  BY DEF Leave, ClientsTypeOK
<1>2. fetched' \subseteq fetched /\ \A v \in fetched' : shown'[v] = shown[v]
  BY DEF Leave, ClientsTypeOK
<1>3. QED BY <1>1, <1>2, NothingAdded DEF roomVars

(* Who joins relies on what is emitted only where there is no message yet. *)
LEMMA JoinMissesNothing ==
  ASSUME ClientsTypeOK, NoMessageMissed, NEW k \in Clients, NEW a \in Addresses,
         JoinRoom(k, a)
  PROVE  NoMessageMissed' /\ ClientsTypeOK'
<1>1. /\ UNCHANGED <<rooms, messages, calls, shown>>
      /\ joined' = joined \cup {<<k, a>>}
      /\ fetched' = fetched \cup {v \in {<<k, a>>} : MessagesAt(a) = {}}
  BY DEF JoinRoom, roomVars
<1>2. ClientsTypeOK'
  BY <1>1 DEF ClientsTypeOK, Views
<1>3. \A b : MessagesAt(b)' = MessagesAt(b)
  BY <1>1 DEF MessagesAt, RoomsAt
<1>4. ASSUME NEW v \in fetched', NEW m \in MessagesAt(v[2]) PROVE v \in fetched
  BY <1>1, <1>4
<1>5. QED BY <1>1, <1>2, <1>3, <1>4 DEF NoMessageMissed

(* Who asks with the id of the room that is there is shown all that it has;*)
(* who asks with another one relies on no more than before.                *)
LEMMA FetchMissesNothing ==
  ASSUME RoomsInv, ClientsTypeOK, NoMessageMissed, NEW k \in Clients,
         NEW a \in Addresses, NEW id, MessagesFromRoom(k, a, id)
  PROVE  NoMessageMissed' /\ ClientsTypeOK'
<1> DEFINE w == <<k, a>>
           answer == IdsOf({m \in messages : m.room = id})
<1>1. /\ UNCHANGED <<rooms, messages, calls, joined>> /\ w \in joined /\ w \in Views
      /\ fetched' = fetched \cup {v \in {w} : \E r \in RoomsAt(a) : r.id = id}
      /\ shown' = [shown EXCEPT ![w] = @ \cup answer]
  BY DEF MessagesFromRoom, roomVars, ClientsTypeOK
<1>2. answer \subseteq Ids
  BY DEF IdsOf, RoomsInv, RoomsTypeOK, Message
<1>3. ClientsTypeOK'
  <2>1. fetched' \subseteq joined'
    BY <1>1 DEF ClientsTypeOK
  <2>2. shown' \in [Views -> SUBSET Ids]
    BY <1>1, <1>2 DEF ClientsTypeOK
  <2>3. QED BY <1>1, <2>1, <2>2 DEF ClientsTypeOK
<1>4. NoMessageMissed'
  <2> SUFFICES ASSUME NEW v \in fetched', NEW m \in MessagesAt(v[2])
               PROVE  \/ m.id \in shown'[v]
                      \/ \E d \in Calls : calls[d].at = "saved" /\ calls[d].message = m.id
    <3>1. \A b : MessagesAt(b)' = MessagesAt(b)
      BY <1>1 DEF MessagesAt, RoomsAt
    <3>2. calls' = calls
      BY <1>1
    <3>3. QED BY <3>1, <3>2 DEF NoMessageMissed
  <2>1. CASE v \in fetched
    <3>1. shown[v] \subseteq shown'[v]
      BY <1>1, <2>1 DEF ClientsTypeOK
    <3>2. QED BY <2>1, <3>1 DEF NoMessageMissed
  <2>2. CASE v \notin fetched
    <3>1. v = w /\ \E r \in RoomsAt(a) : r.id = id
      BY <1>1, <2>2
    <3>2. PICK q \in RoomsAt(a) : m.room = q.id /\ m \in messages
      BY <3>1 DEF MessagesAt
    <3>3. m.room = id
      BY <3>1, <3>2 DEF RoomsInv, OneRoomPerAddress, RoomsAt
    <3>4. m.id \in answer
      BY <3>2, <3>3 DEF IdsOf
    <3>5. QED BY <1>1, <3>1, <3>4 DEF ClientsTypeOK
  <2>3. QED BY <2>1, <2>2
<1>5. QED BY <1>3, <1>4
-----------------------------------------------------------------------------
(* Rows are only ever added, except by the deletion of a room.             *)
LEMMA SeenRowsKept ==
  ASSUME SeenRows, [FeedNext]_allVars PROVE SeenRows'
<1>1. ASSUME NEW c \in Calls,
             HandleMessage(c) \/ SaveMessageStep(c) \/ ReportFailure(c) \/ PublishMessage(c)
      PROVE  messages \subseteq messages'
  BY <1>1 DEF HandleMessage, SaveMessageStep, FindRoom, SaveRoom, CreateMessage,
              ReportFailure, PublishMessage
<1>2. ASSUME messages \subseteq messages', seen' = seen PROVE SeenRows'
  BY <1>2 DEF SeenRows, IdsOf
<1>3. ASSUME NEW r \in rooms, RoomGone(r) PROVE SeenRows'
  BY <1>3 DEF RoomGone, SeenRows
<1>4. ASSUME NEW r \in rooms, MarkAllMessagesRead(r) PROVE SeenRows'
  BY <1>4 DEF MarkAllMessagesRead, SeenRows, IdsOf, roomVars
<1>5. ASSUME NEW k \in Clients, NEW a \in Addresses,
             \/ JoinRoom(k, a) \/ LeaveRoom(k, a)
             \/ \E id \in 1 .. (nextRoom - 1) : MessagesFromRoom(k, a, id)
      PROVE  SeenRows'
  BY <1>2, <1>5 DEF JoinRoom, LeaveRoom, MessagesFromRoom, roomVars
<1>6. ASSUME NEW k \in Clients, Disconnect(k) PROVE SeenRows'
  BY <1>2, <1>6 DEF Disconnect, roomVars
<1>7. ASSUME NEW c \in Calls, EmitMessage(c) PROVE SeenRows'
  BY <1>1, <1>2, <1>7 DEF EmitMessage
<1>8. ASSUME Restart PROVE SeenRows'
  BY <1>2, <1>8 DEF Restart, RoomsRestart
<1>9. QED
  BY <1>1, <1>2, <1>3, <1>4, <1>5, <1>6, <1>7, <1>8
     DEF FeedNext, allVars, feedVars, roomVars

LEMMA FeedInvNext == FeedInv /\ [FeedNext]_allVars => FeedInv'
<1> SUFFICES ASSUME FeedInv, [FeedNext]_allVars PROVE FeedInv'
  OBVIOUS
<1>1. RoomsInv'
  BY FeedTakesRoomSteps, RoomsInvStep DEF FeedInv
<1>2. SeenRows'
  BY SeenRowsKept DEF FeedInv
<1> SUFFICES ClientsTypeOK' /\ NoMessageMissed'
  BY <1>1, <1>2 DEF FeedInv
<1> USE DEF FeedInv
<1>3. ASSUME NEW c \in Calls, UNCHANGED feedVars,
             HandleMessage(c) \/ SaveMessageStep(c) \/ ReportFailure(c)
      PROVE  ClientsTypeOK' /\ NoMessageMissed'
  BY <1>3, CallsMissNothing DEF feedVars, ClientsTypeOK
<1>4. ASSUME NEW c \in Calls, EmitMessage(c) PROVE ClientsTypeOK' /\ NoMessageMissed'
  BY <1>4, EmitMissesNothing
<1>5. ASSUME NEW r \in rooms, RoomGone(r) PROVE ClientsTypeOK' /\ NoMessageMissed'
  <2>1. /\ rooms' \subseteq rooms /\ messages' \subseteq messages
        /\ UNCHANGED <<calls, joined, fetched, shown>>
    BY <1>5 DEF RoomGone, DeleteRoom, DropRoom
  <2>2. QED BY <2>1, NothingAdded DEF ClientsTypeOK
<1>6. ASSUME NEW r \in rooms, MarkAllMessagesRead(r)
      PROVE  ClientsTypeOK' /\ NoMessageMissed'
  <2>1. UNCHANGED <<rooms, messages, calls, joined, fetched, shown>>
    BY <1>6 DEF MarkAllMessagesRead, roomVars
  <2>2. QED BY <2>1, NothingAdded DEF ClientsTypeOK
<1>7. ASSUME NEW k \in Clients, Disconnect(k) PROVE ClientsTypeOK' /\ NoMessageMissed'
  BY <1>7, LeaveMissesNothing DEF Disconnect, Views
<1>8. ASSUME NEW k \in Clients, NEW a \in Addresses, JoinRoom(k, a)
      PROVE  ClientsTypeOK' /\ NoMessageMissed'
  BY <1>8, JoinMissesNothing
<1>9. ASSUME NEW k \in Clients, NEW a \in Addresses, LeaveRoom(k, a)
      PROVE  ClientsTypeOK' /\ NoMessageMissed'
  BY <1>9, LeaveMissesNothing DEF LeaveRoom, Views
<1>10. ASSUME NEW k \in Clients, NEW a \in Addresses,
              NEW id \in 1 .. (nextRoom - 1), MessagesFromRoom(k, a, id)
       PROVE  ClientsTypeOK' /\ NoMessageMissed'
  BY <1>10, FetchMissesNothing
<1>11. ASSUME Restart PROVE ClientsTypeOK' /\ NoMessageMissed'
  <2>1. ClientsTypeOK' /\ fetched' = {}
    BY <1>11 DEF Restart, Leave, ClientsTypeOK
  <2>2. QED BY <2>1 DEF NoMessageMissed
<1>12. ASSUME UNCHANGED allVars PROVE ClientsTypeOK' /\ NoMessageMissed'
  BY <1>12, NothingAdded DEF allVars, roomVars, feedVars, ClientsTypeOK
<1>13. QED
  BY <1>3, <1>4, <1>5, <1>6, <1>7, <1>8, <1>9, <1>10, <1>11, <1>12 DEF FeedNext
-----------------------------------------------------------------------------
LEMMA FeedInvHolds == FeedSpec => []FeedInv
BY FeedInvInit, FeedInvNext, PTL DEF FeedSpec, allVars

(* The tables and what clients show of them have their types.              *)
THEOREM FeedTyped == FeedSpec => []FeedTypeOK
<1>1. FeedInv => FeedTypeOK
  BY DEF FeedInv, RoomsInv, ClientsTypeOK, SeenRows, FeedTypeOK
<1>2. QED BY <1>1, FeedInvHolds, PTL

(* Whoever joins a room and then asks for its messages misses none that is *)
(* saved, before or after (chat.gateway.ts:135-187, chat.service.ts:48-91).*)
THEOREM FeedSafe == FeedSpec => []NoMessageMissed
<1>1. FeedInv => NoMessageMissed
  BY DEF FeedInv
<1>2. QED BY <1>1, FeedInvHolds, PTL

(* What clients see changes nothing of what the calls do: every behaviour  *)
(* here is one of ChatRooms, so that what is proved of it holds.           *)
THEOREM FeedRefinesRooms == FeedSpec => RoomsSpec /\ []TablesAgree /\ DeletionFollowsReplies
<1>1. FeedInit => RoomsInit
  BY DEF FeedInit
<1>2. FeedSpec => RoomsSpec
  BY <1>1, FeedTakesRoomSteps, PTL DEF FeedSpec, RoomsSpec, allVars
<1>3. QED BY <1>2, TablesSafe, DeletionSafe, PTL
=============================================================================
