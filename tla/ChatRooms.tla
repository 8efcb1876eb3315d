----------------------------- MODULE ChatRooms ------------------------------
(***************************************************************************)
(* Rooms and messages: the tables Room and Messages (prisma/schema.prisma),*)
(* saveMessage() and saveRoom() of src/chat/chat.service.ts, the handler   *)
(* 'send message' of src/chat/chat.gateway.ts and the mutation deleteRoom. *)
(*                                                                         *)
(* Every await is a point where other calls run, so a call in flight is a  *)
(* record with its own program counter and each statement sent to Postgres *)
(* is one action, atomic as Postgres makes it.  A statement that breaks a  *)
(* constraint makes the call fail.  saveMessage() serves two callers: the  *)
(* gateway, and answerRequest(), which module MessageRequests adds.        *)
(*                                                                         *)
(* Texts and users are left out: whether senderId and receiverId, which    *)
(* nothing checks, name users is left open where the foreign keys ask for  *)
(* it.  The seen flag is in MessageFeed.                                   *)
(***************************************************************************)
EXTENDS Integers, FiniteSets

CONSTANTS Addresses,    \* room addresses, random strings
          Matches,      \* those handed out by the match queue
          Calls,        \* the server calls that may run at the same time
          MaxMessages,  \* bound: how many messages are ever written
          MaxRooms      \* bound: no call starts after so many rooms

ASSUME AddressAssumption == Addresses # {} /\ Matches \subseteq Addresses
ASSUME BoundsAssumption == MaxMessages \in Nat /\ MaxRooms \in Nat

VARIABLES rooms,         \* table Room
          messages,      \* table Messages
          calls,         \* the calls in flight
          known,         \* the room addresses that clients hold: those
                         \* matched, written to, or named in an answer
          nextRoom,      \* the sequence behind Room.id
          nextMessage,   \* the sequence behind Messages.id
          broadcast      \* history: ids of the messages published

roomVars == <<rooms, messages, calls, known, nextRoom, nextMessage, broadcast>>

Ids == Nat \ {0}
Room == [id: Ids, address: Addresses]
Message == [id: Ids, room: Ids, reply: Nat]    \* reply 0: to no message
Call == [at: {"idle", "find", "saveRoom", "create", "saved", "failed",
              "delete", "open", "notify"},
         address: Addresses,
         reply: Nat,
         room: Nat,        \* the room found or created
         message: Nat,     \* the message created
         request: Nat,     \* the request being accepted, 0 for the gateway
         opens: Nat]       \* the room opened for it, 0 for none

RoomsTypeOK == /\ rooms \in SUBSET Room
               /\ messages \in SUBSET Message
               /\ calls \in [Calls -> Call]
               /\ known \in SUBSET Addresses
               /\ nextRoom \in Ids
               /\ nextMessage \in Ids
               /\ broadcast \in SUBSET Ids

Idle == [at |-> "idle", address |-> CHOOSE a \in Addresses : TRUE,
         reply |-> 0, room |-> 0, message |-> 0, request |-> 0,
         opens |-> 0]

(* FeedTypeOK: ids counted from 0, which stands for no row. *)
WrongFirstId == 0

(* @default(autoincrement()). *)
FirstId == 1

RoomsInit == /\ rooms = {}
             /\ messages = {}
             /\ calls = [c \in Calls |-> Idle]
             /\ known = Matches
             /\ nextRoom = FirstId
             /\ nextMessage = FirstId
             /\ broadcast = {}

Sending == {c \in Calls : calls[c].at # "idle"}
RoomsAt(address) == {r \in rooms : r.address = address}
MessagesAt(address) ==
  {m \in messages : \E r \in RoomsAt(address) : m.room = r.id}
RoomExists(id) == \E r \in rooms : r.id = id
MessageExists(id) == \E m \in messages : m.id = id
-----------------------------------------------------------------------------
(* DeletionFollowsReplies: a message takes along what it replies to, too.  *)
WrongCascades(gone, room) ==
  \A m \in messages :
    m.room = room \/ (\E p \in gone : m.reply = p.id \/ p.reply = m.id)
      => m \in gone

(* Messages.roomId and repliedToMessageId are declared onDelete: Cascade:  *)
(* a room takes its messages along, and these the replies they got.        *)
Cascades(gone, room) ==
  \A m \in messages :
    m.room = room \/ (\E p \in gone : m.reply = p.id) => m \in gone

Cascaded(room) ==
  {m \in messages : \A gone \in SUBSET messages :
                      Cascades(gone, room) => m \in gone}

(* QueuedRoomGoes: a room with messages is not deleted (onDelete: Restrict).*)
WrongKeepRoom(id) == /\ \A m \in messages : m.room # id
                     /\ rooms' = {r \in rooms : r.id # id}
                     /\ UNCHANGED messages

(* DELETE FROM "Room" WHERE id. *)
DropRoom(id) == /\ rooms' = {r \in rooms : r.id # id}
                /\ messages' = messages \ Cascaded(id)

(* TablesAgree: Room.roomAdress declared without @unique. *)
WrongInsertRoom(address) == /\ rooms' = rooms \cup {[id |-> nextRoom,
                                                     address |-> address]}
                            /\ nextRoom' = nextRoom + 1

(* INSERT INTO "Room": Room.roomAdress is @unique. *)
InsertRoom(address) == /\ RoomsAt(address) = {}
                       /\ rooms' = rooms \cup {[id |-> nextRoom,
                                                address |-> address]}
                       /\ nextRoom' = nextRoom + 1

Fail(c) == calls' = [calls EXCEPT ![c].at = "failed"]
-----------------------------------------------------------------------------
(* The bounds count the calls in flight, so that none is stopped by them.  *)
MayStart(c) == /\ calls[c].at = "idle"
               /\ nextMessage + Cardinality(Sending) <= MaxMessages
               /\ nextRoom + Cardinality(Sending) <= MaxRooms

(* handleMessage: a client sends to an address it holds.  The id of the    *)
(* message it replies to is the client's word: 0 for none, and otherwise a *)
(* message anywhere, one that is gone or one still to come.                *)
HandleMessage(c) ==
  /\ MayStart(c)
  /\ \E address \in known, reply \in 0 .. MaxMessages :
       calls' = [calls EXCEPT ![c] = [Idle EXCEPT !.at = "find",
                                                  !.address = address,
                                                  !.reply = reply]]
  /\ UNCHANGED <<rooms, messages, known, nextRoom, nextMessage, broadcast>>

(* MessageLandsAtItsAddress: the where clause is lost. *)
WrongFindRoom(c) ==
  /\ calls[c].at = "find"
  /\ \/ \E r \in rooms :
          calls' = [calls EXCEPT ![c] = [@ EXCEPT !.at = "create", !.room = r.id]]
     \/ /\ rooms = {}
        /\ calls' = [calls EXCEPT ![c].at = "saveRoom"]
  /\ UNCHANGED <<rooms, messages, known, nextRoom, nextMessage, broadcast>>

(* saveMessage: the room with this address, if there is one. *)
FindRoom(c) ==
  /\ calls[c].at = "find"
  /\ \/ \E r \in RoomsAt(calls[c].address) :
          calls' = [calls EXCEPT ![c] = [@ EXCEPT !.at = "create", !.room = r.id]]
     \/ /\ RoomsAt(calls[c].address) = {}
        /\ calls' = [calls EXCEPT ![c].at = "saveRoom"]
  /\ UNCHANGED <<rooms, messages, known, nextRoom, nextMessage, broadcast>>

(* saveMessage: there was no such room, so it is created.  When another    *)
(* call has created it meanwhile, the insert is refused and the call fails.*)
SaveRoom(c) ==
  /\ calls[c].at = "saveRoom"
  /\ \/ /\ InsertRoom(calls[c].address)
        /\ calls' = [calls EXCEPT ![c] = [@ EXCEPT !.at = "create", !.room = nextRoom]]
     \/ /\ RoomsAt(calls[c].address) # {}
        /\ Fail(c)
        /\ UNCHANGED <<rooms, nextRoom>>
  /\ UNCHANGED <<messages, known, nextMessage, broadcast>>

(* What the foreign keys of "Messages" want of the new row that is modelled*)
(* here: its room and the message it replies to, which may be itself.      *)
ReferencesExist(c) ==
  /\ RoomExists(calls[c].room)
  /\ \/ calls[c].reply \in {0, nextMessage}
     \/ MessageExists(calls[c].reply)

(* saveMessage: INSERT INTO "Messages".  It is refused when a row it refers*)
(* to is not there, and that may always be a user, sender or receiver.     *)
CreateMessage(c) ==
  /\ calls[c].at = "create"
  /\ \/ /\ ReferencesExist(c)
        /\ messages' = messages \cup {[id |-> nextMessage,
                                       room |-> calls[c].room,
                                       reply |-> calls[c].reply]}
        /\ nextMessage' = nextMessage + 1
        /\ known' = known \cup {calls[c].address}
        /\ calls' = [calls EXCEPT ![c] = [@ EXCEPT !.at = "saved",
                                                    !.message = nextMessage]]
     \/ Fail(c) /\ UNCHANGED <<messages, nextMessage, known>>
  /\ UNCHANGED <<rooms, nextRoom, broadcast>>

(* NoMessageMissed: the failure of the push is not caught. *)
WrongPublishMessage(c) ==
  /\ calls[c].at = "saved"
  /\ calls[c].request = 0
  /\ \/ /\ broadcast' = broadcast \cup {calls[c].message}
        /\ calls' = [calls EXCEPT ![c] = Idle]
     \/ Fail(c) /\ UNCHANGED broadcast
  /\ UNCHANGED <<rooms, messages, known, nextRoom, nextMessage>>

(* handleMessage, after saveMessage: the token is looked up and the push   *)
(* sent, its failure caught; then the message is published to the room.    *)
PublishMessage(c) ==
  /\ calls[c].at = "saved"
  /\ calls[c].request = 0
  /\ broadcast' = broadcast \cup {calls[c].message}
  /\ calls' = [calls EXCEPT ![c] = Idle]
  /\ UNCHANGED <<rooms, messages, known, nextRoom, nextMessage>>

(* The exception reaches the client and the call is over. *)
ReportFailure(c) ==
  /\ calls[c].at = "failed"
  /\ calls' = [calls EXCEPT ![c] = Idle]
  /\ UNCHANGED <<rooms, messages, known, nextRoom, nextMessage, broadcast>>

(* Mutation deleteRoom, with any id, for ids count up.  Its answer is the  *)
(* row that was deleted: the client now holds the address.                 *)
DeleteRoom(r) ==
  /\ r \in rooms
  /\ DropRoom(r.id)
  /\ known' = known \cup {r.address}
  /\ UNCHANGED <<calls, nextRoom, nextMessage, broadcast>>

(* The server process stops: its calls are gone, the database is not.      *)
CutCalls == calls' = [c \in Calls |-> Idle]

RoomsRestart ==
  /\ Sending # {}
  /\ CutCalls
  /\ UNCHANGED <<rooms, messages, known, nextRoom, nextMessage, broadcast>>

(* The steps of a call inside saveMessage. *)
SaveMessageStep(c) == FindRoom(c) \/ SaveRoom(c) \/ CreateMessage(c)

SendStep(c) == SaveMessageStep(c) \/ PublishMessage(c) \/ ReportFailure(c)

RoomsNext == \/ \E c \in Calls : HandleMessage(c) \/ SendStep(c)
             \/ \E r \in rooms : DeleteRoom(r)
             \/ RoomsRestart

RoomsSpec == RoomsInit /\ [][RoomsNext]_roomVars
-----------------------------------------------------------------------------
OneRoomPerAddress == \A r, q \in rooms : r.address = q.address => r = q
NoOrphans == \A m \in messages : /\ RoomExists(m.room)
                                 /\ m.reply = 0 \/ MessageExists(m.reply)

(* Two calls that find no room at an address both go on to create it, and  *)
(* one room results; and whatever rooms are deleted while messages are     *)
(* written, every message has its room and the message it replies to       *)
(* (chat.service.ts:50-74, schema.prisma, models Room and Messages).       *)
TablesAgree == OneRoomPerAddress /\ NoOrphans

(* A message is deleted only together with its room, or after an earlier   *)
(* message that it replies to: so each deletion of a room accounts, through*)
(* a chain of replies, for every message that goes, in its own room or in  *)
(* another one, and for no other (schema.prisma:73-75, chat.service.ts:73, *)
(* where the id replied to is the client's).                               *)
DeletionFollowsReplies ==
  [][\A m \in messages \ messages' :
       \/ ~RoomExists(m.room)'
       \/ \E p \in messages \ messages' : p.id < m.id /\ p.id = m.reply
    ]_roomVars

(* A message about to be published at an address was saved in the room of  *)
(* that address, or has been deleted since (chat.gateway.ts:143-185).      *)
MessageLandsAtItsAddress ==
  \A c \in Calls : \A m \in messages :
    calls[c].at = "saved" /\ m.id = calls[c].message
      => \E r \in RoomsAt(calls[c].address) : m.room = r.id

(* What the comment at chat.service.ts:87 says becomes of a message for    *)
(* which there is no room: the room is created and the message saved.  So  *)
(* a message on its way to create its room is not dropped.                 *)
NewRoomMessageIsSaved ==
  [][\A c \in Calls : ~(calls[c].at = "saveRoom" /\ calls'[c].at = "failed")]_roomVars
=============================================================================
