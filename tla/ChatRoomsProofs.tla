--------------------------- MODULE ChatRoomsProofs ---------------------------
(***************************************************************************)
(* What holds of the rooms and messages of ChatRooms for any number of     *)
(* addresses, calls and messages.                                          *)
(*                                                                         *)
(* RoomsInv adds to the properties what a call in flight remembers: the    *)
(* room it found and the message it wrote may be deleted under it, but ids *)
(* are never used again, so if they are still there they are at the address*)
(* the call was sent to.  And a reply is younger than what it replies to,  *)
(* or is that itself, whatever id the client named.  Each action keeps     *)
(* RoomsInv by a lemma of its own, for module MessageRequests takes the    *)
(* same steps.                                                             *)
(***************************************************************************)
EXTENDS ChatRooms, TLAPS

(* Rows are told apart by their ids, which the sequences have handed out.  *)
RoomIds == /\ \A r, q \in rooms : r.id = q.id => r = q
           /\ \A r \in rooms : r.id < nextRoom

MessageIds == /\ \A m, p \in messages : m.id = p.id => m = p
              /\ \A m \in messages : m.id < nextMessage

(* Message m, if it is there at all, is in the room at this address.       *)
IsAt(id, address) ==
  \A m \in messages : m.id = id => \E r \in RoomsAt(address) : m.room = r.id

(* The room a call is about to write to.                                   *)
RoomRemembered(c) ==
  calls[c].at = "create" =>
    /\ calls[c].room < nextRoom
    /\ \A r \in rooms : r.id = calls[c].room => r.address = calls[c].address

(* The message a call has written.                                         *)
MessageRemembered(c) ==
  calls[c].at = "saved" => /\ calls[c].message \in Ids
                           /\ calls[c].message < nextMessage
                           /\ IsAt(calls[c].message, calls[c].address)

Remembered(c) == RoomRemembered(c) /\ MessageRemembered(c)

(* A message replies to none, to an earlier one or to itself.              *)
RepliesLookBack == \A m \in messages : m.reply <= m.id

RoomsInv == /\ RoomsTypeOK
            /\ RoomIds
            /\ MessageIds
            /\ OneRoomPerAddress
            /\ NoOrphans
            /\ RepliesLookBack
            /\ \A c \in Calls : Remembered(c)
-----------------------------------------------------------------------------
(* What goes with a room is closed: its messages go, and with a message    *)
(* the replies to it.                                                      *)
LEMMA CascadedIsClosed ==
  ASSUME NEW id
  PROVE  /\ Cascaded(id) \subseteq messages
         /\ Cascades(Cascaded(id), id)
BY DEF Cascaded, Cascades

(* And nothing else goes: a message of another room goes after another one *)
(* that it replies to.                                                     *)
LEMMA CascadedHasCause ==
  ASSUME NEW id, NEW m \in Cascaded(id), m.room # id
  PROVE  \E p \in Cascaded(id) : p # m /\ p.id = m.reply
<1> SUFFICES ASSUME \A p \in Cascaded(id) : p.id = m.reply => p = m
             PROVE  FALSE
  OBVIOUS
<1> DEFINE fewer == Cascaded(id) \ {m}
<1>1. Cascades(fewer, id)
  <2>1. SUFFICES ASSUME NEW q \in messages,
                        q.room = id \/ \E p \in fewer : q.reply = p.id
                 PROVE  q \in fewer
    BY DEF Cascades
  <2>2. q \in Cascaded(id)
    BY <2>1, CascadedIsClosed DEF Cascades
  <2>3. q # m
    BY <2>1
  <2>4. QED BY <2>2, <2>3
<1>2. fewer \in SUBSET messages
  BY CascadedIsClosed
<1>3. m \in fewer
  BY <1>1, <1>2 DEF Cascaded
<1>4. QED BY <1>3

LEMMA IdleIsCall == Idle \in Call /\ Idle.at = "idle" /\ Idle.request = 0
BY AddressAssumption DEF Idle, Call
-----------------------------------------------------------------------------
(* Steps that leave the two tables alone: what the other calls remember is *)
(* still so.                                                               *)
LEMMA TablesUntouched ==
  ASSUME RoomsInv,
         UNCHANGED <<rooms, messages, nextRoom, nextMessage>>,
         RoomsTypeOK',
         \A c \in Calls : calls'[c] = calls[c] \/ Remembered(c)'
  PROVE  RoomsInv'
<1>1. /\ RoomIds' /\ MessageIds' /\ OneRoomPerAddress' /\ NoOrphans'
      /\ RepliesLookBack'
  BY DEF RoomsInv, RoomIds, MessageIds, OneRoomPerAddress, NoOrphans,
         RepliesLookBack, RoomExists, MessageExists
<1>2. ASSUME NEW c \in Calls, calls'[c] = calls[c]
      PROVE  Remembered(c)'
  BY <1>2 DEF RoomsInv, Remembered, RoomRemembered, MessageRemembered, IsAt,
              RoomsAt
<1>3. QED BY <1>1, <1>2 DEF RoomsInv

(* A room is inserted at an address where there is none.                   *)
LEMMA InsertRoomKeeps ==
  ASSUME RoomsInv, NEW address \in Addresses, InsertRoom(address),
         UNCHANGED <<messages, nextMessage>>,
         RoomsTypeOK',
         \A c \in Calls : calls'[c] = calls[c] \/ Remembered(c)'
  PROVE  RoomsInv'
<1> DEFINE new == [id |-> nextRoom, address |-> address]
<1>1. /\ rooms' = rooms \cup {new}
      /\ nextRoom' = nextRoom + 1
      /\ \A r \in rooms : r.address # address
  BY DEF InsertRoom, RoomsAt
<1>2. /\ nextRoom \in Nat
      /\ \A r \in rooms : r.id \in Nat /\ r.id < nextRoom
      /\ new.id = nextRoom /\ new.address = address
  BY DEF RoomsInv, RoomsTypeOK, RoomIds, Room, Ids
<1> HIDE DEF new
<1>3. RoomIds'
  BY <1>1, <1>2 DEF RoomsInv, RoomIds
<1>4. OneRoomPerAddress'
  BY <1>1, <1>2 DEF RoomsInv, OneRoomPerAddress
<1>5. MessageIds' /\ RepliesLookBack'
  BY DEF RoomsInv, MessageIds, RepliesLookBack
<1>6. NoOrphans'
  BY <1>1 DEF RoomsInv, NoOrphans, RoomExists, MessageExists
<1>7. ASSUME NEW c \in Calls, calls'[c] = calls[c]
      PROVE  Remembered(c)'
  <2>1. \A id, a : IsAt(id, a) => IsAt(id, a)'
    BY <1>1 DEF IsAt, RoomsAt
  <2>2. Remembered(c) /\ calls[c].room \in Nat
    BY DEF RoomsInv, RoomsTypeOK, Call
  <2>3. RoomRemembered(c)'
    BY <1>1, <1>2, <1>7, <2>2 DEF Remembered, RoomRemembered
  <2>4. MessageRemembered(c)'
    BY <1>7, <2>1, <2>2 DEF Remembered, MessageRemembered
  <2>5. QED BY <2>3, <2>4 DEF Remembered
<1>8. QED BY <1>3, <1>4, <1>5, <1>6, <1>7 DEF RoomsInv

(* A room is deleted, and with it messages: a call that remembers one of   *)
(* them does not find it, and finds no other one in its stead.             *)
LEMMA DropRoomKeeps ==
  ASSUME RoomsInv, NEW id, DropRoom(id), known' \in SUBSET Addresses,
         UNCHANGED <<calls, nextRoom, nextMessage, broadcast>>
  PROVE  RoomsInv'
<1>1. /\ rooms' = {r \in rooms : r.id # id}
      /\ messages' = messages \ Cascaded(id)
  BY DEF DropRoom
<1>2. RoomsTypeOK'
  BY <1>1 DEF RoomsInv, RoomsTypeOK
<1>3. RoomIds' /\ OneRoomPerAddress' /\ MessageIds' /\ RepliesLookBack'
  BY <1>1 DEF RoomsInv, RoomIds, OneRoomPerAddress, MessageIds,
              RepliesLookBack
<1>c. \A m \in messages' : /\ m.room # id
                           /\ \A p \in Cascaded(id) : m.reply # p.id
  BY <1>1, CascadedIsClosed DEF Cascades
<1>4. NoOrphans'
  <2>1. ASSUME NEW m \in messages' PROVE RoomExists(m.room)'
    BY <1>1, <1>c DEF RoomsInv, NoOrphans, RoomExists
  <2>2. ASSUME NEW m \in messages', m.reply # 0 PROVE MessageExists(m.reply)'
    <3>1. PICK p \in messages : p.id = m.reply
      BY <1>1, <2>2 DEF RoomsInv, NoOrphans, MessageExists
    <3>2. p \in messages'
      BY <1>1, <1>c, <3>1
    <3>3. QED BY <3>1, <3>2 DEF MessageExists
  <2>3. QED BY <2>1, <2>2 DEF NoOrphans
<1>5. ASSUME NEW i, NEW a, IsAt(i, a) PROVE IsAt(i, a)'
  BY <1>1, <1>c, <1>5 DEF IsAt, RoomsAt
<1>6. ASSUME NEW c \in Calls PROVE Remembered(c)'
  BY <1>1, <1>5 DEF RoomsInv, Remembered, RoomRemembered, MessageRemembered
<1>7. QED BY <1>2, <1>3, <1>4, <1>6 DEF RoomsInv
-----------------------------------------------------------------------------
(* The calls all forgotten, or one of them changed.                        *)
LEMMA CallsTyped ==
  ASSUME RoomsTypeOK, NEW c \in Calls, NEW call \in Call,
         calls' = [calls EXCEPT ![c] = call]
  PROVE  /\ calls' \in [Calls -> Call]
         /\ calls'[c] = call
         /\ \A d \in Calls : d # c => calls'[d] = calls[d]
BY DEF RoomsTypeOK

LEMMA IdleRemembers ==
  ASSUME NEW c \in Calls, calls'[c] = Idle
  PROVE  Remembered(c)'
BY IdleIsCall DEF Remembered, RoomRemembered, MessageRemembered

(* A call that comes to an end, whatever its answer. *)
LEMMA EndingKeeps ==
  ASSUME RoomsInv, NEW c \in Calls, calls' = [calls EXCEPT ![c] = Idle],
         UNCHANGED <<rooms, messages, known, nextRoom, nextMessage>>,
         broadcast' \in SUBSET Ids
  PROVE  RoomsInv'
<1>1. /\ calls' \in [Calls -> Call]
      /\ calls'[c] = Idle
      /\ \A d \in Calls : d # c => calls'[d] = calls[d]
  BY CallsTyped, IdleIsCall DEF RoomsInv
<1>2. RoomsTypeOK'
  BY <1>1 DEF RoomsInv, RoomsTypeOK
<1>3. Remembered(c)'
  BY <1>1, IdleRemembers
<1>4. QED BY <1>1, <1>2, <1>3, TablesUntouched

(* A call that fails remembers nothing that matters. *)
LEMMA FailTyped ==
  ASSUME RoomsInv, NEW c \in Calls, Fail(c)
  PROVE  /\ calls' \in [Calls -> Call]
         /\ \A d \in Calls : d # c => calls'[d] = calls[d]
         /\ Remembered(c)'
<1> DEFINE call == [calls[c] EXCEPT !.at = "failed"]
<1>1. calls[c] \in Call
  BY DEF RoomsInv, RoomsTypeOK
<1>2. call \in Call /\ call.at = "failed"
  BY <1>1 DEF Call
<1>3. calls' = [calls EXCEPT ![c] = call]
  BY DEF Fail
<1> HIDE DEF call
<1>4. /\ calls' \in [Calls -> Call]
      /\ calls'[c] = call
      /\ \A d \in Calls : d # c => calls'[d] = calls[d]
  BY <1>2, <1>3, CallsTyped DEF RoomsInv
<1>5. Remembered(c)'
  BY <1>2, <1>4 DEF Remembered, RoomRemembered, MessageRemembered
<1>6. QED BY <1>4, <1>5

LEMMA FailKeeps ==
  ASSUME RoomsInv, NEW c \in Calls, Fail(c),
         UNCHANGED <<rooms, messages, known, nextRoom, nextMessage, broadcast>>
  PROVE  RoomsInv'
<1>1. RoomsTypeOK'
  BY FailTyped DEF RoomsInv, RoomsTypeOK
<1>2. QED BY <1>1, FailTyped, TablesUntouched
-----------------------------------------------------------------------------
LEMMA HandleMessageKeeps ==
  ASSUME RoomsInv, NEW c \in Calls, HandleMessage(c)
  PROVE  RoomsInv'
<1>1. PICK address \in known, reply \in 0 .. MaxMessages :
        calls' = [calls EXCEPT ![c] = [Idle EXCEPT !.at = "find",
                                                   !.address = address,
                                                   !.reply = reply]]
  BY DEF HandleMessage
<1> DEFINE call == [Idle EXCEPT !.at = "find", !.address = address, !.reply = reply]
<1>2. address \in Addresses /\ reply \in Nat
  BY BoundsAssumption DEF RoomsInv, RoomsTypeOK
<1>3. call \in Call /\ call.at = "find"
  BY <1>2, IdleIsCall DEF Call
<1> HIDE DEF call
<1>4. /\ calls' \in [Calls -> Call]
      /\ calls'[c] = call
      /\ \A d \in Calls : d # c => calls'[d] = calls[d]
  BY <1>1, <1>3, CallsTyped DEF RoomsInv, call
<1>5. UNCHANGED <<rooms, messages, known, nextRoom, nextMessage, broadcast>>
  BY DEF HandleMessage
<1>6. RoomsTypeOK'
  BY <1>4, <1>5 DEF RoomsInv, RoomsTypeOK
<1>7. Remembered(c)'
  BY <1>3, <1>4 DEF Remembered, RoomRemembered, MessageRemembered
<1>8. QED BY <1>4, <1>5, <1>6, <1>7, TablesUntouched

LEMMA FindRoomKeeps ==
  ASSUME RoomsInv, NEW c \in Calls, FindRoom(c)
  PROVE  RoomsInv'
<1>1. UNCHANGED <<rooms, messages, known, nextRoom, nextMessage, broadcast>>
  BY DEF FindRoom
<1>2. calls[c] \in Call /\ calls[c].at = "find" /\ Remembered(c)
  BY DEF FindRoom, RoomsInv, RoomsTypeOK
<1>3. ASSUME NEW r \in RoomsAt(calls[c].address),
             calls' = [calls EXCEPT ![c] = [@ EXCEPT !.at = "create", !.room = r.id]]
      PROVE  RoomsInv'
  <2> DEFINE call == [calls[c] EXCEPT !.at = "create", !.room = r.id]
  <2>1. /\ r.id \in Nat /\ r.id < nextRoom /\ r.address = calls[c].address
        /\ \A q \in rooms : q.id = r.id => q = r
    BY DEF RoomsAt, RoomsInv, RoomsTypeOK, RoomIds, Room, Ids
  <2>2. /\ call \in Call
        /\ call.at = "create" /\ call.address = calls[c].address
        /\ call.room = r.id
    BY <1>2, <2>1 DEF Call
  <2>3. calls' = [calls EXCEPT ![c] = call]
    BY <1>3
  <2> HIDE DEF call
  <2>4. /\ calls' \in [Calls -> Call]
        /\ calls'[c] = call
        /\ \A d \in Calls : d # c => calls'[d] = calls[d]
    BY <2>2, <2>3, CallsTyped DEF RoomsInv
  <2>5. RoomsTypeOK'
    BY <1>1, <2>4 DEF RoomsInv, RoomsTypeOK
  <2>6. Remembered(c)'
    BY <1>1, <1>2, <2>1, <2>2, <2>4 DEF Remembered, RoomRemembered,
       MessageRemembered, IsAt, RoomsAt
  <2>7. QED BY <1>1, <2>4, <2>5, <2>6, TablesUntouched
<1>4. ASSUME calls' = [calls EXCEPT ![c].at = "saveRoom"]
      PROVE  RoomsInv'
  <2> DEFINE call == [calls[c] EXCEPT !.at = "saveRoom"]
  <2>1. call \in Call /\ call.at = "saveRoom"
    BY <1>2 DEF Call
  <2>2. calls' = [calls EXCEPT ![c] = call]
    BY <1>4
  <2> HIDE DEF call
  <2>3. /\ calls' \in [Calls -> Call]
        /\ calls'[c] = call
        /\ \A d \in Calls : d # c => calls'[d] = calls[d]
    BY <2>1, <2>2, CallsTyped DEF RoomsInv
  <2>4. RoomsTypeOK'
    BY <1>1, <2>3 DEF RoomsInv, RoomsTypeOK
  <2>5. Remembered(c)'
    BY <1>1, <1>2, <2>1, <2>3 DEF Remembered, RoomRemembered,
       MessageRemembered, IsAt, RoomsAt
  <2>6. QED BY <1>1, <2>3, <2>4, <2>5, TablesUntouched
<1>5. QED BY <1>3, <1>4 DEF FindRoom

LEMMA SaveRoomKeeps ==
  ASSUME RoomsInv, NEW c \in Calls, SaveRoom(c)
  PROVE  RoomsInv'
<1>1. UNCHANGED <<messages, known, nextMessage, broadcast>>
  BY DEF SaveRoom
<1>2. /\ calls[c] \in Call /\ calls[c].at = "saveRoom" /\ Remembered(c)
      /\ nextRoom \in Ids
  BY DEF SaveRoom, RoomsInv, RoomsTypeOK
<1>3. ASSUME InsertRoom(calls[c].address),
             calls' = [calls EXCEPT ![c] = [@ EXCEPT !.at = "create", !.room = nextRoom]]
      PROVE  RoomsInv'
  <2> DEFINE call == [calls[c] EXCEPT !.at = "create", !.room = nextRoom]
             new == [id |-> nextRoom, address |-> calls[c].address]
  <2>1. /\ call \in Call
        /\ call.at = "create" /\ call.address = calls[c].address
        /\ call.room = nextRoom
    BY <1>2 DEF Call, Ids
  <2>2. calls' = [calls EXCEPT ![c] = call]
    BY <1>3
  <2>3. /\ new \in Room /\ new.id = nextRoom /\ new.address = call.address
        /\ rooms' = rooms \cup {new}
        /\ nextRoom' = nextRoom + 1
    BY <1>2, <1>3, <2>1 DEF InsertRoom, Room, Call
  <2> HIDE DEF call, new
  <2>4. /\ calls' \in [Calls -> Call]
        /\ calls'[c] = call
        /\ \A d \in Calls : d # c => calls'[d] = calls[d]
    BY <2>1, <2>2, CallsTyped DEF RoomsInv
  <2>5. RoomsTypeOK'
    BY <1>1, <1>2, <2>3, <2>4 DEF RoomsInv, RoomsTypeOK, Ids
  <2>6. \A r \in rooms : r.id < nextRoom
    BY DEF RoomsInv, RoomIds
  <2>7. RoomRemembered(c)'
    BY <1>2, <2>1, <2>3, <2>4, <2>6 DEF RoomRemembered, RoomsInv, RoomsTypeOK,
       Room, Ids
  <2>8. MessageRemembered(c)'
    BY <2>1, <2>4 DEF MessageRemembered
  <2>9. calls[c].address \in Addresses
    BY <1>2 DEF Call
  <2>10. QED BY <1>1, <1>3, <2>4, <2>5, <2>7, <2>8, <2>9, InsertRoomKeeps
             DEF Remembered
<1>4. ASSUME Fail(c), UNCHANGED <<rooms, nextRoom>>
      PROVE  RoomsInv'
  BY <1>1, <1>4, FailKeeps
<1>5. QED BY <1>3, <1>4 DEF SaveRoom

(* The message is written where the call was sent: the room it remembers   *)
(* is there, so it is the one at the address.                              *)
LEMMA CreateMessageKeeps ==
  ASSUME RoomsInv, NEW c \in Calls, CreateMessage(c)
  PROVE  RoomsInv'
<1>1. UNCHANGED <<rooms, nextRoom, broadcast>>
  BY DEF CreateMessage
<1>2. /\ calls[c] \in Call /\ calls[c].at = "create" /\ Remembered(c)
      /\ nextMessage \in Ids
  BY DEF CreateMessage, RoomsInv, RoomsTypeOK
<1>3. ASSUME Fail(c), UNCHANGED <<messages, nextMessage, known>>
      PROVE  RoomsInv'
  BY <1>1, <1>3, FailKeeps
<1> DEFINE new == [id |-> nextMessage, room |-> calls[c].room,
                   reply |-> calls[c].reply]
<1>4. ASSUME ReferencesExist(c),
             messages' = messages \cup {new},
             nextMessage' = nextMessage + 1,
             known' = known \cup {calls[c].address},
             calls' = [calls EXCEPT ![c] = [@ EXCEPT !.at = "saved", !.message = nextMessage]]
      PROVE  RoomsInv'
  <2> DEFINE call == [calls[c] EXCEPT !.at = "saved", !.message = nextMessage]
  <2>1. /\ call \in Call
        /\ call.at = "saved" /\ call.address = calls[c].address
        /\ call.message = nextMessage
    BY <1>2 DEF Call, Ids
  <2>2. calls' = [calls EXCEPT ![c] = call]
    BY <1>4
  <2>3. PICK r \in rooms : r.id = calls[c].room
    BY <1>4 DEF ReferencesExist, RoomExists
  <2>4. /\ new \in Message
        /\ new.id = nextMessage /\ new.room = r.id /\ new.reply = calls[c].reply
    BY <1>2, <2>3 DEF Message, Call, Ids, RoomsInv, RoomsTypeOK, Room
  <2> HIDE DEF call, new
  <2>5. /\ calls' \in [Calls -> Call]
        /\ calls'[c] = call
        /\ \A d \in Calls : d # c => calls'[d] = calls[d]
    BY <2>1, <2>2, CallsTyped DEF RoomsInv
  <2>6. r.address = calls[c].address /\ r \in RoomsAt(calls[c].address)
    BY <1>2, <2>3 DEF Remembered, RoomRemembered, RoomsAt
  <2>7. \/ calls[c].reply \in {0, nextMessage}
        \/ \E p \in messages : p.id = calls[c].reply
    BY <1>4 DEF ReferencesExist, MessageExists
  <2>8. calls[c].reply \in Nat
    BY <1>2 DEF Call
  <2>9. \A m \in messages : /\ m.id \in Nat \ {0} /\ m.id < nextMessage
                            /\ m.reply \in Nat
    BY DEF RoomsInv, RoomsTypeOK, MessageIds, Message, Ids
  <2>10. RoomsTypeOK'
    BY <1>1, <1>2, <1>4, <2>4, <2>5 DEF RoomsInv, RoomsTypeOK, Ids, Call
  <2>11. RoomIds' /\ OneRoomPerAddress'
    BY <1>1 DEF RoomsInv, RoomIds, OneRoomPerAddress
  <2>12. MessageIds'
    BY <1>2, <1>4, <2>4, <2>9 DEF RoomsInv, MessageIds, Ids
  <2>13. NoOrphans'
    BY <1>1, <1>4, <2>3, <2>4, <2>7 DEF RoomsInv, NoOrphans, RoomExists, MessageExists
  <2>14. RepliesLookBack'
    BY <1>2, <1>4, <2>4, <2>7, <2>8, <2>9 DEF RoomsInv, RepliesLookBack, Ids
  <2>15. \A i \in Nat : \A a : i < nextMessage /\ IsAt(i, a) => IsAt(i, a)'
    BY <1>1, <1>2, <1>4, <2>4 DEF IsAt, RoomsAt, Ids
  <2>16. ASSUME NEW d \in Calls, d # c PROVE Remembered(d)'
    <3>1. calls'[d] = calls[d] /\ calls[d] \in Call /\ Remembered(d)
      BY <2>5, <2>16 DEF RoomsInv, RoomsTypeOK
    <3>2. calls[d].message \in Nat
      BY <3>1 DEF Call
    <3>3. RoomRemembered(d)'
      BY <1>1, <3>1 DEF Remembered, RoomRemembered
    <3>4. MessageRemembered(d)'
      <4>1. SUFFICES ASSUME calls[d].at = "saved"
                     PROVE  /\ calls[d].message \in Ids
                            /\ calls[d].message < nextMessage'
                            /\ IsAt(calls[d].message, calls[d].address)'
        BY <3>1 DEF MessageRemembered
      <4>2. /\ calls[d].message \in Ids
            /\ calls[d].message < nextMessage
            /\ IsAt(calls[d].message, calls[d].address)
        BY <3>1, <4>1 DEF Remembered, MessageRemembered
      <4>3. IsAt(calls[d].message, calls[d].address)'
        <5>1. UNCHANGED <<calls[d].message, calls[d].address>>
          BY <3>1
        <5>2. QED BY <2>15, <3>2, <4>2, <5>1
      <4>4. calls[d].message < nextMessage'
        BY <1>2, <1>4, <3>2, <4>2 DEF Ids
      <4>5. QED BY <4>2, <4>3, <4>4
    <3>5. QED BY <3>3, <3>4 DEF Remembered
  <2>17. Remembered(c)'
    <3>1. \A m \in messages' : m.id = nextMessage => m = new
      BY <1>2, <1>4, <2>9 DEF Ids
    <3>2. calls'[c].message = nextMessage /\ calls'[c].address = calls[c].address
      BY <2>1, <2>5
    <3>3. IsAt(calls[c].message, calls[c].address)'
      BY <1>1, <2>4, <2>6, <3>1, <3>2 DEF IsAt, RoomsAt
    <3>4. QED BY <1>2, <1>4, <2>1, <2>5, <3>2, <3>3 DEF Remembered, RoomRemembered,
              MessageRemembered, Ids
  <2>18. QED BY <2>10, <2>11, <2>12, <2>13, <2>14, <2>16, <2>17 DEF RoomsInv
<1>5. QED BY <1>3, <1>4 DEF CreateMessage

(* A restart: no call is in flight any more. *)
LEMMA CutKeeps ==
  ASSUME RoomsInv, CutCalls,
         UNCHANGED <<rooms, messages, known, nextRoom, nextMessage, broadcast>>
  PROVE  RoomsInv'
<1>1. \A c \in Calls : calls'[c] = Idle
  BY DEF CutCalls
<1>2. RoomsTypeOK'
  BY IdleIsCall DEF CutCalls, RoomsInv, RoomsTypeOK
<1>3. \A c \in Calls : Remembered(c)'
  BY <1>1, IdleRemembers
<1>4. QED BY <1>2, <1>3, TablesUntouched

LEMMA PublishMessageKeeps ==
  ASSUME RoomsInv, NEW c \in Calls, PublishMessage(c)
  PROVE  RoomsInv'
<1>1. calls[c].message \in Ids
  <2>1. calls[c] \in Call /\ calls[c].at = "saved"
    BY DEF PublishMessage, RoomsInv, RoomsTypeOK
  <2>2. QED BY <2>1 DEF Call, Ids, RoomsInv, Remembered, MessageRemembered
<1>2. broadcast' \in SUBSET Ids
  BY <1>1 DEF PublishMessage, RoomsInv, RoomsTypeOK
<1>3. QED BY <1>2, EndingKeeps DEF PublishMessage

LEMMA SendStepKeeps ==
  ASSUME RoomsInv, NEW c \in Calls, SendStep(c)
  PROVE  RoomsInv'
<1>1. CASE SaveMessageStep(c)
  BY <1>1, FindRoomKeeps, SaveRoomKeeps, CreateMessageKeeps DEF SaveMessageStep
<1>2. CASE PublishMessage(c)
  BY <1>2, PublishMessageKeeps
<1>3. CASE ReportFailure(c)
  BY <1>3, EndingKeeps DEF ReportFailure, RoomsInv, RoomsTypeOK
<1>4. QED BY <1>1, <1>2, <1>3 DEF SendStep

LEMMA DeleteRoomKeeps ==
  ASSUME RoomsInv, NEW r \in rooms, DeleteRoom(r)
  PROVE  RoomsInv'
<1>1. known' \in SUBSET Addresses
  BY DEF DeleteRoom, RoomsInv, RoomsTypeOK, Room
<1>2. QED BY <1>1, DropRoomKeeps DEF DeleteRoom

LEMMA RoomsInvInit == RoomsInit => RoomsInv
<1> SUFFICES ASSUME RoomsInit PROVE RoomsInv
  OBVIOUS
<1>1. RoomsTypeOK
  BY IdleIsCall, AddressAssumption DEF RoomsInit, RoomsTypeOK, FirstId, Ids
<1>2. \A c \in Calls : Remembered(c)
  BY IdleIsCall DEF RoomsInit, Remembered, RoomRemembered, MessageRemembered
<1>3. QED BY <1>1, <1>2 DEF RoomsInit, RoomsInv, RoomIds, MessageIds,
             OneRoomPerAddress, NoOrphans, RepliesLookBack

LEMMA RoomsInvStep == RoomsInv /\ [RoomsNext]_roomVars => RoomsInv'
<1> SUFFICES ASSUME RoomsInv, [RoomsNext]_roomVars PROVE RoomsInv'
  OBVIOUS
<1>1. ASSUME NEW c \in Calls, HandleMessage(c) \/ SendStep(c) PROVE RoomsInv'
  BY <1>1, HandleMessageKeeps, SendStepKeeps
<1>2. ASSUME NEW r \in rooms, DeleteRoom(r) PROVE RoomsInv'
  BY <1>2, DeleteRoomKeeps
<1>3. CASE RoomsRestart
  BY <1>3, CutKeeps DEF RoomsRestart
<1>4. CASE UNCHANGED roomVars
  <2>1. RoomsTypeOK'
    BY <1>4 DEF RoomsInv, RoomsTypeOK, roomVars
  <2>2. QED BY <1>4, <2>1, TablesUntouched DEF roomVars
<1>5. QED BY <1>1, <1>2, <1>3, <1>4 DEF RoomsNext

LEMMA RoomsInvImplies ==
  RoomsInv => RoomsTypeOK /\ TablesAgree /\ MessageLandsAtItsAddress
BY DEF RoomsInv, TablesAgree, MessageLandsAtItsAddress, Remembered, MessageRemembered, IsAt
-----------------------------------------------------------------------------
(* At any time, whatever calls run and are cut: there is one room at an    *)
(* address, and no message without its room and the message it answers     *)
(* (saveRoom and removeRoom under saveMessage, chat.service.ts:23-91).     *)
THEOREM TablesSafe == RoomsSpec => [](RoomsTypeOK /\ TablesAgree)
BY RoomsInvInit, RoomsInvStep, RoomsInvImplies, PTL DEF RoomsSpec

(* A message is written at the address it was sent to, though saveMessage  *)
(* uses a room id that it read before an await (chat.service.ts:48-91).    *)
THEOREM MessagesSafe == RoomsSpec => []MessageLandsAtItsAddress
BY RoomsInvInit, RoomsInvStep, RoomsInvImplies, PTL DEF RoomsSpec

(* A message is deleted only with its room or after an earlier message it  *)
(* replies to, in whatever rooms clients put their replies                 *)
(* (schema.prisma:73-75, chat.service.ts:73).                              *)
THEOREM DeletionSafe == RoomsSpec => DeletionFollowsReplies
<1>1. ASSUME RoomsInv, [RoomsNext]_roomVars, NEW m \in messages \ messages'
      PROVE  \/ ~RoomExists(m.room)'
             \/ \E p \in messages \ messages' : p.id < m.id /\ p.id = m.reply
  <2>1. ASSUME NEW c \in Calls, HandleMessage(c) \/ SendStep(c)
        PROVE  messages \subseteq messages'
    BY <2>1 DEF HandleMessage, SendStep, SaveMessageStep, FindRoom, SaveRoom,
       CreateMessage, PublishMessage, ReportFailure
  <2>2. PICK r \in rooms : DeleteRoom(r)
    BY <1>1, <2>1 DEF RoomsNext, RoomsRestart, roomVars
  <2>3. /\ rooms' = {q \in rooms : q.id # r.id}
        /\ messages \ messages' = Cascaded(r.id)
    BY <2>2, CascadedIsClosed DEF DeleteRoom, DropRoom
  <2>4. CASE m.room = r.id
    BY <2>3, <2>4 DEF RoomExists
  <2>5. CASE m.room # r.id
    <3>1. PICK p \in Cascaded(r.id) : p # m /\ p.id = m.reply
      BY <2>3, <2>5, CascadedHasCause
    <3>2. p \in messages /\ p \in messages \ messages'
      BY <2>3, <3>1
    <3>3. p.id \in Nat /\ m.id \in Nat /\ p.id # m.id /\ m.reply <= m.id
      BY <1>1, <3>1, <3>2 DEF RoomsInv, RoomsTypeOK, Message, Ids, MessageIds,
         RepliesLookBack
    <3>4. p.id < m.id
      BY <3>1, <3>3
    <3>5. QED BY <3>1, <3>2, <3>4
  <2>6. QED BY <2>4, <2>5
<1>2. RoomsInv /\ [RoomsNext]_roomVars
        => [\A m \in messages \ messages' :
              \/ ~RoomExists(m.room)'
              \/ \E p \in messages \ messages' : p.id < m.id /\ p.id = m.reply
           ]_roomVars
  BY <1>1
<1>3. QED BY <1>2, RoomsInvInit, RoomsInvStep, PTL DEF RoomsSpec, DeletionFollowsReplies
=============================================================================
