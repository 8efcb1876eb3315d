---------------------------- MODULE MessageFeed -----------------------------
(***************************************************************************)
(* What the clients see of the messages of ChatRooms.  A client joins the  *)
(* room of an address on its socket ('join room' of                        *)
(* src/chat/chat.gateway.ts), then asks for the messages that are there    *)
(* (messagesFromRoom of src/chat/messages.resolver.ts), and from then on   *)
(* relies on what is emitted to the room.  It marks a room as read         *)
(* (markAllMessagesRead of src/chat/chat.resolver.ts).                     *)
(*                                                                         *)
(* That clients join before they ask is assumed of them.  The id of the    *)
(* room they ask for is their word: the room may be gone, another one be at*)
(* its address by now, or the id be of another address.  The pages of      *)
(* messagesFromRoom are one statement here: they are sorted from the newest*)
(* message on, so that a new one moves the others to later pages and past  *)
(* none.                                                                   *)
(***************************************************************************)
EXTENDS ChatRooms

CONSTANT Clients

VARIABLES joined,    \* the rooms of socket.io that each client is in
          fetched,   \* history: those whose messages it has asked for
                     \* since, by the id of the room that was there then,
                     \* or where there was none to ask for when it joined
          shown,     \* the ids of the messages it shows of each
          seen       \* Messages.seen: the ids of the messages marked as read

feedVars == <<joined, fetched, shown, seen>>

Views == Clients \X Addresses
IdsOf(rows) == {m.id : m \in rows}

FeedTypeOK == /\ RoomsTypeOK
              /\ joined \in SUBSET Views
              /\ fetched \in SUBSET joined
              /\ shown \in [Views -> SUBSET Ids]
              /\ seen \in SUBSET IdsOf(messages)

FeedInit == /\ RoomsInit
            /\ joined = {}
            /\ fetched = {}
            /\ shown = [v \in Views |-> {}]
            /\ seen = {}
-----------------------------------------------------------------------------
(* socket.join(data.room). *)
JoinRoom(k, address) ==
  /\ address \in known
  /\ joined' = joined \cup {<<k, address>>}
  /\ fetched' = fetched \cup {v \in {<<k, address>>} : MessagesAt(address) = {}}
  /\ UNCHANGED <<roomVars, shown, seen>>

Leave(views) == /\ joined' = joined \ views
                /\ fetched' = fetched \ views
                /\ shown' = [v \in Views |-> IF v \in views THEN {} ELSE shown[v]]

(* socket.leave(data.room). *)
LeaveRoom(k, address) ==
  /\ <<k, address>> \in joined
  /\ Leave({<<k, address>>})
  /\ UNCHANGED <<roomVars, seen>>

(* The connection drops; what is emitted until the client joins again does *)
(* not reach it.                                                           *)
Disconnect(k) ==
  /\ \E v \in joined : v[1] = k
  /\ Leave({k} \X Addresses)
  /\ UNCHANGED <<roomVars, seen>>

(* getMessages: where roomId = id.  A client that is in the room of an     *)
(* address asks, and adds the answer to what it shows there.               *)
MessagesFromRoom(k, address, id) ==
  /\ <<k, address>> \in joined
  /\ fetched' = fetched \cup {v \in {<<k, address>>} :
                                 \E r \in RoomsAt(address) : r.id = id}
  /\ shown' = [shown EXCEPT ![<<k, address>>] =
                 @ \cup IdsOf({m \in messages : m.room = id})]
  /\ UNCHANGED <<roomVars, joined, seen>>

(* updateMany of all messages of the room, whoever was sent them. *)
MarkAllMessagesRead(r) ==
  /\ r \in rooms
  /\ seen' = seen \cup {m.id : m \in {n \in messages : n.room = r.id}}
  /\ UNCHANGED <<roomVars, joined, fetched, shown>>
-----------------------------------------------------------------------------
(* server.to(room): all that are in it. *)
Receivers(address) == {v \in joined : v[2] = address}

(* handleMessage, its end: the message is emitted to the room it was sent  *)
(* to.                                                                     *)
EmitMessage(c) ==
  /\ PublishMessage(c)
  /\ shown' = [v \in Views |-> IF v \in Receivers(calls[c].address)
                               THEN shown[v] \cup (broadcast' \cap {calls[c].message})
                               ELSE shown[v]]
  /\ UNCHANGED <<joined, fetched, seen>>

(* The rows that a room takes along are marked no longer. *)
RoomGone(r) == /\ DeleteRoom(r)
               /\ seen' = seen \cap IdsOf(messages')
               /\ UNCHANGED <<joined, fetched, shown>>

(* With the server process all connections are lost.  When no call is in   *)
(* flight, this is what disconnecting every client is.                     *)
Restart == RoomsRestart /\ Leave(Views) /\ UNCHANGED seen

FeedNext ==
  \/ /\ \E c \in Calls : HandleMessage(c) \/ SaveMessageStep(c) \/ ReportFailure(c)
     /\ UNCHANGED feedVars
  \/ \E c \in Calls : EmitMessage(c)
  \/ \E r \in rooms : RoomGone(r) \/ MarkAllMessagesRead(r)
  \/ \E k \in Clients : Disconnect(k)
  \/ \E k \in Clients, a \in Addresses :
       \/ JoinRoom(k, a) \/ LeaveRoom(k, a)
       \/ \E id \in 1 .. (nextRoom - 1) : MessagesFromRoom(k, a, id)
  \/ Restart

FeedSpec == FeedInit /\ [][FeedNext]_<<roomVars, feedVars>>
-----------------------------------------------------------------------------
(* A client that is in a room and has asked for its messages since it      *)
(* joined, or joined before there were any, shows all of them, but those   *)
(* whose call has saved and not yet published them: none is saved too late *)
(* to be found and published too early to be heard, also when the room is  *)
(* deleted and created anew, so that the client asks with a stale id later *)
(* on, the push notification fails, or calls are cut                       *)
(* (chat.gateway.ts:140-187, chat.service.ts:263-285).                     *)
NoMessageMissed ==
  \A v \in fetched : \A m \in MessagesAt(v[2]) :
    \/ m.id \in shown[v]
    \/ \E c \in Calls : calls[c].at = "saved" /\ calls[c].message = m.id
=============================================================================
