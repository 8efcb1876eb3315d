------------------------ MODULE MessageRequestsProofs ------------------------
(***************************************************************************)
(* What holds of message requests for any number of users, requests, calls *)
(* and restarts.                                                           *)
(*                                                                         *)
(* The hard part is AcceptedRoomExpires: answerRequest() opens a room and  *)
(* then looks it up again by its address, inside saveMessage(), while the  *)
(* deletion it queues is that of the room it opened.  Until its greeting is*)
(* written a room is Secret: nobody else knows the address, so nobody else *)
(* writes to it; clients may only delete it, by its id, and then it is not *)
(* there any more, whatever room the greeting goes to (Acceptance).        *)
(***************************************************************************)
EXTENDS MessageRequests, ChatRoomsProofs

(* The bound on the requests, and who is told of one knows which.          *)
AsksInv ==
  /\ nextRequest <= MaxRequests + 1
  /\ \A a \in Asks : asks[a].at = "notify" => asks[a].request \in RequestIds

(* Requests are made in the order of their ids.                            *)
FatesInv == /\ TableTellsFate
            /\ \A q \in RequestIds : fate[q] # "none" <=> q < nextRequest

(* Rooms are opened for accepted requests, one each, none for two.         *)
OpenedInv ==
  /\ OneRoomPerRequest
  /\ \A q \in RequestIds : \A r \in opened[q] : r < nextRoom
  /\ \A p, q \in RequestIds : p # q => opened[p] \cap opened[q] = {}

(* A client sends only to addresses that clients hold.                     *)
Gateway(c) ==
  calls[c].request = 0 =>
    /\ calls[c].at \notin {"delete", "open", "notify"}
    /\ calls[c].at \in {"find", "saveRoom", "create", "saved"}
         => calls[c].address \in known

(* The room that call c has opened is there, at the address it writes to.  *)
OwnRoom(c) ==
  \E r \in rooms : r.address = calls[c].address /\ r.id = calls[c].opens

(* What a call that accepts a request knows of it.  Its own room is there, *)
(* or was deleted by a client, who was told the address.                   *)
Acceptance(c) ==
  calls[c].request # 0 =>
    /\ calls[c].at # "idle"
    /\ calls[c].request \in RequestIds
    /\ calls[c].request < nextRequest
    /\ calls[c].at = "open" => /\ fate[calls[c].request] = "accepted"
                               /\ opened[calls[c].request] = {}
    /\ calls[c].at \in {"find", "saveRoom", "create", "saved", "notify"}
         => opened[calls[c].request] = {calls[c].opens}
    /\ calls[c].at \in {"find", "saveRoom", "create"}
         => calls[c].address \in known \/ OwnRoom(c)

(* The request of call c is deleted, its room not yet about to be.         *)
Accepting(c) == /\ calls[c].request # 0
                /\ calls[c].at \in {"open", "find", "saveRoom", "create", "saved"}

(* One call carries an acceptance through, before its deletion is queued.  *)
OneAcceptance ==
  /\ \A c, d \in Calls :
       /\ Accepting(c) /\ Accepting(d)
       /\ calls[c].request = calls[d].request
       => c = d
  /\ \A c \in Calls : Accepting(c) =>
       /\ \A e \in enqueuing : e.request # calls[c].request
       /\ \A j \in jobs : j.request # calls[c].request

(* No client holds the address of room r, and nothing is written in it.    *)
Secret(r) == r.address \notin known /\ \A m \in messages : m.room # r.id

(* The deletion of the room with this id, opened for request q, is queued, *)
(* or about to be, or was lost in a restart.                               *)
Saved(q) == \E c \in Calls : calls[c].request = q /\ calls[c].at = "saved"
Expires(q, id) == \/ Saved(q)
                  \/ \E e \in enqueuing : e.room = id
                  \/ \E j \in jobs : j.room = id
                  \/ q \in cut

ExpiryInv == \A q \in RequestIds : \A r \in rooms :
               r.id \in opened[q] => Secret(r) \/ Expires(q, r.id)

(* Deletions are for the room of their request.                            *)
DeletionsInv == /\ JobsDeleteTheirOwnRoom
                /\ \A e \in enqueuing : e.room \in opened[e.request]
                /\ \A j \in jobs : j.at = "deleted" => ~RoomExists(j.room)

CallsInv == \A c \in Calls : Gateway(c) /\ Acceptance(c)

RequestsInv == /\ RoomsInv
               /\ TypeOK
               /\ AsksInv
               /\ FatesInv
               /\ OpenedInv
               /\ CallsInv
               /\ OneAcceptance
               /\ DeletionsInv
               /\ NoticeFollowsRoom
               /\ ExpiryInv
-----------------------------------------------------------------------------
LEMMA RoomsStutter ==
  ASSUME RoomsInv, UNCHANGED roomVars
  PROVE  RoomsInv'
BY RoomsInvStep

(* Steps of the tables and queues on the side of the requests: what the    *)
(* calls know is not touched, so long as no acceptance is taken back.      *)
LEMMA CallsUntouched ==
  ASSUME RequestsInv, UNCHANGED <<roomVars, opened>>,
         nextRequest' \in Nat, nextRequest <= nextRequest',
         \A q \in RequestIds : fate[q] = "accepted" => fate'[q] = "accepted"
  PROVE  CallsInv'
<1> SUFFICES ASSUME NEW c \in Calls PROVE Gateway(c)' /\ Acceptance(c)'
  BY DEF CallsInv
<1>1. Gateway(c) /\ Acceptance(c) /\ calls[c] \in Call /\ nextRequest \in Nat
  BY DEF RequestsInv, CallsInv, TypeOK, RoomsTypeOK, Ids
<1>2. calls[c].request \in Nat
  BY <1>1 DEF Call
<1>3. Gateway(c)'
  BY <1>1 DEF Gateway, roomVars
<1>4. OwnRoom(c) => OwnRoom(c)'
  BY DEF OwnRoom, roomVars
<1>5. Acceptance(c)'
  BY <1>1, <1>2, <1>4 DEF Acceptance, roomVars
<1>6. QED BY <1>3, <1>5

(* No room and no secret is touched, and no deletion is lost.              *)
LEMMA ExpiryKept ==
  ASSUME RequestsInv, UNCHANGED <<rooms, messages, known, opened>>,
         \A q \in RequestIds : \A r \in rooms :
           r.id \in opened[q] /\ Expires(q, r.id) => Expires(q, r.id)'
  PROVE  ExpiryInv'
BY DEF RequestsInv, ExpiryInv, Secret

(* The calls newMessageRequest that are under way, and the notifications.  *)
LEMMA AsksKeep ==
  ASSUME RequestsInv,
         UNCHANGED <<roomVars, requests, nextRequest, enqueuing, jobs, fate,
                     opened, cut>>,
         asks' \in [Asks -> Ask], AsksInv',
         notices' \in SUBSET Notice,
         \A n \in notices' : n \in notices \/ n.kind # "accepted"
  PROVE  RequestsInv'
<1>1. RoomsInv'
  BY RoomsStutter DEF RequestsInv
<1>2. TypeOK'
  BY <1>1 DEF RequestsInv, TypeOK, RoomsInv
<1>3. FatesInv'
  BY DEF RequestsInv, FatesInv, TableTellsFate, RequestExists
<1>4. OpenedInv'
  BY DEF RequestsInv, OpenedInv, OneRoomPerRequest, roomVars
<1>5. CallsInv'
  BY CallsUntouched DEF RequestsInv, TypeOK, Ids
<1>6. OneAcceptance'
  BY DEF RequestsInv, OneAcceptance, Accepting, roomVars
<1>7. DeletionsInv'
  BY DEF RequestsInv, DeletionsInv, JobsDeleteTheirOwnRoom, RoomExists, roomVars
<1>8. NoticeFollowsRoom'
  BY DEF RequestsInv, NoticeFollowsRoom
<1>9. ExpiryInv'
  BY ExpiryKept DEF Expires, Saved, roomVars
<1>10. QED BY <1>1, <1>2, <1>3, <1>4, <1>5, <1>6, <1>7, <1>8, <1>9 DEF RequestsInv

LEMMA NoAskIsAsk == NoAsk \in Ask /\ NoAsk.at = "idle"
BY UsersAssumption DEF NoAsk, Ask

LEMMA AskTyped ==
  ASSUME TypeOK, NEW a \in Asks, NEW ask \in Ask,
         asks' = [asks EXCEPT ![a] = ask]
  PROVE  /\ asks' \in [Asks -> Ask]
         /\ \A b \in Asks : asks'[b] = IF b = a THEN ask ELSE asks[b]
BY DEF TypeOK

(* Whatever an ask becomes, but one that notifies.                         *)
LEMMA AskProceeds ==
  ASSUME RequestsInv, NEW a \in Asks, NEW ask \in Ask, ask.at # "notify",
         asks' = [asks EXCEPT ![a] = ask],
         UNCHANGED <<roomVars, requests, nextRequest, enqueuing, jobs, fate,
                     opened, cut>>,
         notices' \in SUBSET Notice,
         \A n \in notices' : n \in notices \/ n.kind # "accepted"
  PROVE  RequestsInv'
<1>1. /\ asks' \in [Asks -> Ask]
      /\ \A b \in Asks : asks'[b] = IF b = a THEN ask ELSE asks[b]
  BY AskTyped DEF RequestsInv
<1>2. AsksInv'
  BY <1>1 DEF RequestsInv, AsksInv
<1>3. QED BY <1>1, <1>2, AsksKeep

LEMMA NewMessageRequestKeeps ==
  ASSUME RequestsInv, NEW a \in Asks, NewMessageRequest(a)
  PROVE  RequestsInv'
<1>1. PICK from, to \in Users :
        asks' = [asks EXCEPT ![a] = [at |-> "stars", from |-> from, to |-> to,
                                     request |-> 0]]
  BY DEF NewMessageRequest
<1> DEFINE ask == [at |-> "stars", from |-> from, to |-> to, request |-> 0]
<1>2. ask \in Ask /\ ask.at = "stars"
  BY DEF Ask
<1> HIDE DEF ask
<1>3. asks' = [asks EXCEPT ![a] = ask]
  BY <1>1 DEF ask
<1>4. UNCHANGED <<roomVars, requests, nextRequest, enqueuing, jobs, notices,
                  fate, opened, cut>>
  BY DEF NewMessageRequest
<1>5. QED BY <1>2, <1>3, <1>4, AskProceeds DEF RequestsInv, TypeOK

LEMMA CheckStarsKeeps ==
  ASSUME RequestsInv, NEW a \in Asks, CheckStars(a) \/ CheckForRequest(a)
  PROVE  RequestsInv'
<1>1. asks[a] \in Ask
  BY DEF RequestsInv, TypeOK
<1>2. \E ask \in Ask : ask.at # "notify" /\ asks' = [asks EXCEPT ![a] = ask]
  <2>1. \A at \in {"check", "create"} : LET ask == [asks[a] EXCEPT !.at = at]
                                        IN  ask \in Ask /\ ask.at = at
    BY <1>1 DEF Ask
  <2>2. \/ asks' = [asks EXCEPT ![a] = NoAsk]
        \/ asks' = [asks EXCEPT ![a] = [asks[a] EXCEPT !.at = "check"]]
        \/ asks' = [asks EXCEPT ![a] = [asks[a] EXCEPT !.at = "create"]]
    BY DEF CheckStars, CheckForRequest
  <2>3. QED BY <2>1, <2>2, NoAskIsAsk
<1>3. UNCHANGED <<roomVars, requests, nextRequest, enqueuing, jobs, notices,
                  fate, opened, cut>>
  BY DEF CheckStars, CheckForRequest
<1>4. QED BY <1>2, <1>3, AskProceeds DEF RequestsInv, TypeOK

(* The check leaves the creation to a later statement: what it found may   *)
(* not hold any more, and nothing here relies on it.                       *)
LEMMA RequestMadeKeeps ==
  ASSUME RequestsInv, NEW a \in Asks, CreateNewMessageRequest(a),
         asks' # [asks EXCEPT ![a] = NoAsk]
  PROVE  RequestsInv'
<1> DEFINE ask == [asks[a] EXCEPT !.at = "notify", !.request = nextRequest]
           new == [id |-> nextRequest, from |-> asks[a].from, to |-> asks[a].to]
<1>1. UNCHANGED <<roomVars, enqueuing, jobs, notices, opened, cut>>
  BY DEF CreateNewMessageRequest
<1>2. asks[a] \in Ask /\ asks[a].at = "create" /\ nextRequest \in Ids
  BY DEF CreateNewMessageRequest, RequestsInv, TypeOK
<1>3. ask \in Ask /\ ask.at = "notify" /\ ask.request = nextRequest
  BY <1>2 DEF Ask, Ids
<1>4. asks' = [asks EXCEPT ![a] = ask]
  BY DEF CreateNewMessageRequest
<1> HIDE DEF ask
<1>5. /\ asks' \in [Asks -> Ask]
      /\ \A b \in Asks : asks'[b] = IF b = a THEN ask ELSE asks[b]
  BY <1>3, <1>4, AskTyped DEF RequestsInv
<1>6. nextRequest <= MaxRequests
  BY DEF CreateNewMessageRequest
<1>7. /\ nextRequest' = nextRequest + 1
      /\ fate' = [fate EXCEPT ![nextRequest] = "pending"]
      /\ requests' = requests \cup {new}
  BY DEF CreateNewMessageRequest
<1>8. nextRequest \in RequestIds
  BY <1>2, <1>6, RequestsAssumption DEF RequestIds, Ids
<1>9. AsksInv'
  BY <1>2, <1>3, <1>5, <1>7, <1>8, RequestsAssumption
     DEF RequestsInv, AsksInv, RequestIds, Ids
<1>10. /\ new \in Request /\ new.id = nextRequest
  BY <1>2, <1>8 DEF Request, Ask
<1>11. fate[nextRequest] = "none" /\ fate'[nextRequest] = "pending"
       /\ (\A q \in RequestIds : q # nextRequest => fate'[q] = fate[q])
  BY <1>2, <1>7, <1>8 DEF RequestsInv, FatesInv, TypeOK, Fates, Ids
<1> HIDE DEF new
<1>12. RoomsInv'
  BY <1>1, RoomsStutter DEF RequestsInv
<1>13. TypeOK'
  <2>1. fate' \in [RequestIds -> Fates]
    BY <1>7 DEF RequestsInv, TypeOK, Fates
  <2>2. requests' \in SUBSET Request /\ nextRequest' \in Ids
    BY <1>2, <1>7, <1>10 DEF RequestsInv, TypeOK, Ids
  <2>3. QED BY <1>1, <1>5, <1>12, <2>1, <2>2 DEF RequestsInv, TypeOK, RoomsInv
<1>14. FatesInv'
  <2>1. TableTellsFate'
    BY <1>7, <1>10, <1>11 DEF RequestsInv, FatesInv, TableTellsFate, RequestExists
  <2>2. \A q \in RequestIds : fate'[q] # "none" <=> q < nextRequest'
    BY <1>2, <1>7, <1>11 DEF RequestsInv, FatesInv, RequestIds, Ids
  <2>3. QED BY <2>1, <2>2 DEF FatesInv
<1>15. OpenedInv'
  BY <1>1, <1>11 DEF RequestsInv, OpenedInv, OneRoomPerRequest, roomVars
<1>16. CallsInv'
  BY <1>1, <1>2, <1>7, <1>11, CallsUntouched DEF Ids
<1>17. OneAcceptance' /\ DeletionsInv' /\ NoticeFollowsRoom'
  BY <1>1 DEF RequestsInv, OneAcceptance, Accepting, DeletionsInv,
     JobsDeleteTheirOwnRoom, NoticeFollowsRoom, RoomExists, roomVars
<1>18. ExpiryInv'
  BY <1>1, ExpiryKept DEF Expires, Saved, roomVars
<1>19. QED BY <1>9, <1>12, <1>13, <1>14, <1>15, <1>16, <1>17, <1>18 DEF RequestsInv

(* A refused request leaves nothing behind.                                *)
LEMMA CreateNewMessageRequestKeeps ==
  ASSUME RequestsInv, NEW a \in Asks, CreateNewMessageRequest(a)
  PROVE  RequestsInv'
<1>1. CASE asks' = [asks EXCEPT ![a] = NoAsk]
  <2>1. asks'[a].at = "idle"
    BY <1>1, NoAskIsAsk DEF RequestsInv, TypeOK
  <2>2. asks' # [asks EXCEPT ![a] = [@ EXCEPT !.at = "notify", !.request = nextRequest]]
    <3>1. asks[a] \in Ask
      BY DEF RequestsInv, TypeOK
    <3>2. [asks EXCEPT ![a] = [@ EXCEPT !.at = "notify", !.request = nextRequest]][a].at = "notify"
      BY <3>1 DEF RequestsInv, TypeOK, Ask
    <3>3. QED BY <2>1, <3>2
  <2>3. UNCHANGED <<roomVars, requests, nextRequest, enqueuing, jobs, notices,
                    fate, opened, cut>>
    BY <2>2 DEF CreateNewMessageRequest
  <2>4. QED BY <1>1, <2>3, NoAskIsAsk, AskProceeds DEF RequestsInv, TypeOK
<1>2. CASE asks' # [asks EXCEPT ![a] = NoAsk]
  BY <1>2, RequestMadeKeeps
<1>3. QED BY <1>1, <1>2

LEMMA NotifyRequestKeeps ==
  ASSUME RequestsInv, NEW a \in Asks, NotifyRequest(a)
  PROVE  RequestsInv'
<1>1. asks[a] \in Ask /\ asks[a].request \in RequestIds
  BY DEF NotifyRequest, RequestsInv, AsksInv, TypeOK
<1>2. notices' \in SUBSET Notice
  BY <1>1 DEF NotifyRequest, RequestsInv, TypeOK, Notice
<1>3. \A n \in notices' : n \in notices \/ n.kind # "accepted"
  BY DEF NotifyRequest
<1>4. QED BY <1>2, <1>3, NoAskIsAsk, AskProceeds DEF NotifyRequest

LEMMA AskStepKeeps ==
  ASSUME RequestsInv, NEW a \in Asks, AskStep(a)
  PROVE  RequestsInv'
BY CheckStarsKeeps, CreateNewMessageRequestKeeps, NotifyRequestKeeps DEF AskStep
-----------------------------------------------------------------------------
(* Rejecting and retrieving: an acceptance is never taken back, for the    *)
(* request of one is not in the table.                                     *)
LEMMA RemoveRequestEffect ==
  ASSUME RequestsInv, NEW id, NEW decision \in Fates \ {"none", "pending"},
         RemoveRequest(id, decision)
  PROVE  /\ id \in RequestIds /\ fate[id] = "pending" /\ opened[id] = {}
         /\ requests' \in SUBSET Request
         /\ fate' \in [RequestIds -> Fates]
         /\ fate'[id] = decision
         /\ \A q \in RequestIds : q # id => fate'[q] = fate[q]
         /\ nextRequest' = nextRequest => FatesInv'
<1>1. id \in RequestIds /\ fate[id] = "pending"
  BY DEF RemoveRequest, RequestExists, RequestsInv, TypeOK, Request, FatesInv,
         TableTellsFate
<1>2. opened[id] = {}
  BY <1>1 DEF RequestsInv, OpenedInv, OneRoomPerRequest
<1>3. requests' = {q \in requests : q.id # id} /\ fate' = [fate EXCEPT ![id] = decision]
  BY DEF RemoveRequest
<1>4. /\ requests' \in SUBSET Request
      /\ fate' \in [RequestIds -> Fates]
      /\ fate'[id] = decision
      /\ \A q \in RequestIds : q # id => fate'[q] = fate[q]
  BY <1>1, <1>3 DEF RequestsInv, TypeOK
<1>5. ASSUME nextRequest' = nextRequest PROVE FatesInv'
  <2>1. TableTellsFate'
    BY <1>3, <1>4 DEF RequestsInv, FatesInv, TableTellsFate, RequestExists
  <2>2. \A q \in RequestIds : fate'[q] # "none" <=> q < nextRequest'
    BY <1>1, <1>4, <1>5 DEF RequestsInv, FatesInv
  <2>3. QED BY <2>1, <2>2 DEF FatesInv
<1>6. QED BY <1>1, <1>2, <1>4, <1>5

LEMMA DeclineKeeps ==
  ASSUME RequestsInv, NEW id, RejectRequest(id) \/ RetrieveMessageRequest(id)
  PROVE  RequestsInv'
<1>1. PICK decision \in {"rejected", "retrieved"} : RemoveRequest(id, decision)
  BY DEF RejectRequest, RetrieveMessageRequest
<1>2. UNCHANGED <<roomVars, nextRequest, asks, enqueuing, jobs, notices, opened, cut>>
  BY DEF RejectRequest, RetrieveMessageRequest
<1>3. /\ id \in RequestIds /\ fate[id] = "pending" /\ opened[id] = {}
      /\ requests' \in SUBSET Request
      /\ fate' \in [RequestIds -> Fates]
      /\ \A q \in RequestIds : q # id => fate'[q] = fate[q]
      /\ FatesInv'
  BY <1>1, <1>2, RemoveRequestEffect DEF Fates
<1>4. RoomsInv'
  BY <1>2, RoomsStutter DEF RequestsInv
<1>5. TypeOK'
  BY <1>2, <1>3, <1>4 DEF RequestsInv, TypeOK, RoomsInv
<1>6. AsksInv'
  BY <1>2 DEF RequestsInv, AsksInv
<1>7. OpenedInv'
  BY <1>2, <1>3 DEF RequestsInv, OpenedInv, OneRoomPerRequest, roomVars
<1>8. CallsInv'
  BY <1>2, <1>3, CallsUntouched DEF RequestsInv, TypeOK, Ids
<1>9. OneAcceptance' /\ DeletionsInv' /\ NoticeFollowsRoom'
  BY <1>2 DEF RequestsInv, OneAcceptance, Accepting, DeletionsInv,
     JobsDeleteTheirOwnRoom, NoticeFollowsRoom, RoomExists, roomVars
<1>10. ExpiryInv'
  BY <1>2, ExpiryKept DEF Expires, Saved, roomVars
<1>11. QED BY <1>3, <1>4, <1>5, <1>6, <1>7, <1>8, <1>9, <1>10 DEF RequestsInv
-----------------------------------------------------------------------------
(* Steps of the queue: no job is for anything but a deletion asked for,    *)
(* and none is dropped while its room exists.                              *)
LEMMA QueueKeeps ==
  ASSUME RequestsInv,
         UNCHANGED <<roomVars, requests, nextRequest, asks, notices, fate,
                     opened, cut>>,
         jobs' \in SUBSET Job,
         enqueuing' \subseteq enqueuing,
         \A j \in jobs' :
           /\ \E d \in jobs \cup enqueuing : j.room = d.room /\ j.request = d.request
           /\ j.at = "deleted" => j \in jobs,
         \A e \in enqueuing : e \in enqueuing' \/ \E k \in jobs' : k.room = e.room,
         \A j \in jobs : ~RoomExists(j.room) \/ \E k \in jobs' : k.room = j.room
  PROVE  RequestsInv'
<1>1. RoomsInv'
  BY RoomsStutter DEF RequestsInv
<1>2. TypeOK'
  BY <1>1 DEF RequestsInv, TypeOK, RoomsInv
<1>3. AsksInv' /\ FatesInv' /\ NoticeFollowsRoom'
  BY DEF RequestsInv, AsksInv, FatesInv, TableTellsFate,
         RequestExists, NoticeFollowsRoom
<1>4. OpenedInv'
  BY DEF RequestsInv, OpenedInv, OneRoomPerRequest, roomVars
<1>5. CallsInv'
  BY CallsUntouched DEF RequestsInv, TypeOK, Ids
<1>6. OneAcceptance'
  BY DEF RequestsInv, OneAcceptance, Accepting, roomVars
<1>7. DeletionsInv'
  BY DEF RequestsInv, DeletionsInv, JobsDeleteTheirOwnRoom, RoomExists, roomVars
<1>8. ExpiryInv'
  <2>1. ASSUME NEW q, NEW r \in rooms, Expires(q, r.id) PROVE Expires(q, r.id)'
    <3>1. RoomExists(r.id)
      BY DEF RoomExists
    <3>2. Saved(q) => Saved(q)'
      BY DEF Saved, roomVars
    <3>3. QED BY <2>1, <3>1, <3>2 DEF Expires
  <2>2. QED BY <2>1, ExpiryKept DEF roomVars
<1>9. QED BY <1>1, <1>2, <1>3, <1>4, <1>5, <1>6, <1>7, <1>8 DEF RequestsInv

LEMMA JobQueuedKeeps ==
  ASSUME RequestsInv, NEW e \in enqueuing, JobQueued(e)
  PROVE  RequestsInv'
<1>1. /\ NewJob(e) \in Job /\ NewJob(e).at = "waiting"
      /\ NewJob(e).room = e.room /\ NewJob(e).request = e.request
  BY AttemptsAssumption DEF NewJob, Job, RequestsInv, TypeOK
<1>2. enqueuing' = enqueuing \ {e} /\ jobs' = jobs \cup {NewJob(e)}
  BY DEF JobQueued
<1>3. jobs' \in SUBSET Job
  BY <1>1, <1>2 DEF RequestsInv, TypeOK
<1>4. QED BY <1>1, <1>2, <1>3, QueueKeeps DEF JobQueued

LEMMA TakeJobKeeps ==
  ASSUME RequestsInv, NEW j \in jobs, TakeJob(j)
  PROVE  RequestsInv'
<1> DEFINE taken == [j EXCEPT !.at = "active"]
<1>1. /\ taken \in Job /\ taken.at = "active"
      /\ taken.room = j.room /\ taken.request = j.request
  BY DEF Job, RequestsInv, TypeOK
<1>2. jobs' = (jobs \ {j}) \cup {taken}
  BY DEF TakeJob
<1> HIDE DEF taken
<1>3. jobs' \in SUBSET Job
  BY <1>1, <1>2 DEF RequestsInv, TypeOK
<1>4. QED BY <1>1, <1>2, <1>3, QueueKeeps DEF TakeJob

(* After a failed attempt the job waits for the next one, or was the last. *)
LEMMA FailAttemptEffect ==
  ASSUME TypeOK, NEW j \in jobs, FailAttempt(j)
  PROVE  /\ jobs' \in SUBSET Job
         /\ \A k \in jobs' :
              \/ k \in jobs
              \/ k.room = j.room /\ k.request = j.request /\ k.at = "waiting"
         /\ jobs \ {j} \subseteq jobs'
<1> DEFINE retry == [j EXCEPT !.at = "waiting", !.left = @ - 1]
<1>1. j.left > 1 => retry \in Job
  <2>1. j \in Job /\ j.left \in 1 .. Attempts
    BY DEF TypeOK, Job
  <2>2. j.left > 1 => j.left - 1 \in 1 .. Attempts
    BY <2>1, AttemptsAssumption
  <2>3. QED BY <2>1, <2>2 DEF Job
<1>2. retry.room = j.room /\ retry.request = j.request /\ retry.at = "waiting"
  BY DEF TypeOK, Job
<1>3. jobs' = (jobs \ {j}) \cup {k \in {retry} : j.left > 1}
  BY DEF FailAttempt
<1> HIDE DEF retry
<1>4. QED BY <1>1, <1>2, <1>3 DEF TypeOK

LEMMA JobEndsKeeps ==
  ASSUME RequestsInv, NEW j \in jobs, JobDone(j) \/ JobTimeout(j)
  PROVE  RequestsInv'
<1>1. ~RoomExists(j.room)
  BY DEF JobDone, JobTimeout, RequestsInv, DeletionsInv
<1>2. /\ jobs' \in SUBSET Job
      /\ \A k \in jobs' :
           \/ k \in jobs
           \/ k.room = j.room /\ k.request = j.request /\ k.at = "waiting"
      /\ jobs \ {j} \subseteq jobs'
  BY FailAttemptEffect DEF JobDone, JobTimeout, RequestsInv, TypeOK
<1>3. UNCHANGED <<roomVars, requests, nextRequest, asks, enqueuing, notices,
                  fate, opened, cut>>
  BY DEF JobDone, JobTimeout
<1>4. \A k \in jobs' :
        /\ \E d \in jobs \cup enqueuing : k.room = d.room /\ k.request = d.request
        /\ k.at = "deleted" => k \in jobs
  BY <1>2
<1>5. QED BY <1>1, <1>2, <1>3, <1>4, QueueKeeps
-----------------------------------------------------------------------------
(* Steps that delete a room, of the worker and of clients: it is not the   *)
(* room that a call has opened and goes on to write to, unless a client    *)
(* deletes it.                                                             *)
LEMMA DropEffect ==
  ASSUME RequestsInv, NEW id, DropRoom(id),
         known \subseteq known', known' \in SUBSET Addresses,
         UNCHANGED <<calls, nextRoom, nextMessage, broadcast, requests,
                     nextRequest, asks, enqueuing, notices, fate, opened, cut>>,
         \A c \in Calls :
           /\ calls[c].request # 0
           /\ calls[c].at \in {"find", "saveRoom", "create"}
           /\ calls[c].address \notin known'
           => calls[c].opens # id
  PROVE  /\ RoomsInv' /\ AsksInv' /\ FatesInv' /\ OpenedInv' /\ CallsInv'
         /\ NoticeFollowsRoom'
         /\ \A r : RoomExists(r)' => RoomExists(r) /\ r # id
<1>1. RoomsInv'
  BY DropRoomKeeps DEF RequestsInv
<1>2. rooms' = {r \in rooms : r.id # id}
  BY DEF DropRoom
<1>3. AsksInv' /\ FatesInv' /\ OpenedInv' /\ NoticeFollowsRoom'
  BY DEF RequestsInv, AsksInv, FatesInv, TableTellsFate,
     RequestExists, OpenedInv, OneRoomPerRequest, NoticeFollowsRoom
<1>4. ASSUME NEW c \in Calls PROVE Gateway(c)' /\ Acceptance(c)'
  <2>1. Gateway(c) /\ Acceptance(c)
    BY DEF RequestsInv, CallsInv
  <2>2. Gateway(c)'
    BY <2>1 DEF Gateway
  <2>3. calls[c].request # 0 /\ calls[c].at \in {"find", "saveRoom", "create"}
          => calls[c].address \in known' \/ OwnRoom(c)'
    BY <1>2, <2>1 DEF Acceptance, OwnRoom
  <2>4. Acceptance(c)'
    BY <2>1, <2>3 DEF Acceptance
  <2>5. QED BY <2>2, <2>4
<1>5. QED BY <1>1, <1>2, <1>3, <1>4 DEF CallsInv, RoomExists

(* The rooms that are left expire as before, and are as secret as before.  *)
LEMMA DropKeepsExpiry ==
  ASSUME RequestsInv, NEW id, DropRoom(id), UNCHANGED <<calls, enqueuing, opened, cut>>,
         \A r \in rooms : r.id # id /\ r.address \notin known => r.address \notin known',
         \A j \in jobs : \E k \in jobs' : k.room = j.room
  PROVE  ExpiryInv'
<1>1. /\ rooms' = {r \in rooms : r.id # id}
      /\ messages' \subseteq messages
  BY DEF DropRoom
<1>2. \A r \in rooms' : Secret(r) => Secret(r)'
  BY <1>1 DEF Secret
<1>3. \A q, i : Expires(q, i) => Expires(q, i)'
  BY DEF Expires, Saved
<1>4. QED BY <1>1, <1>2, <1>3 DEF RequestsInv, ExpiryInv

LEMMA DeleteRoomStepKeeps ==
  ASSUME RequestsInv, NEW r \in rooms, DeleteRoom(r), UNCHANGED requestVars
  PROVE  RequestsInv'
<1>1. UNCHANGED <<calls, nextRoom, nextMessage, broadcast, requests,
                  nextRequest, asks, enqueuing, jobs, notices, fate, opened, cut>>
  BY DEF DeleteRoom, requestVars
<1>2. DropRoom(r.id) /\ known' = known \cup {r.address} /\ r.address \in Addresses
  BY DEF DeleteRoom, RequestsInv, TypeOK, RoomsTypeOK, Room
<1>3. known \subseteq known' /\ known' \in SUBSET Addresses
  BY <1>2 DEF RequestsInv, TypeOK, RoomsTypeOK
<1>4. \A c \in Calls :
        /\ calls[c].request # 0
        /\ calls[c].at \in {"find", "saveRoom", "create"}
        /\ calls[c].address \notin known'
        => calls[c].opens # r.id
  BY <1>2 DEF RequestsInv, CallsInv, Acceptance, OwnRoom, RoomsInv, RoomIds
<1>5. /\ RoomsInv' /\ AsksInv' /\ FatesInv' /\ OpenedInv' /\ CallsInv'
      /\ NoticeFollowsRoom'
      /\ \A i : RoomExists(i)' => RoomExists(i)
  BY <1>1, <1>2, <1>3, <1>4, DropEffect
<1>6. TypeOK'
  BY <1>1, <1>5 DEF RequestsInv, TypeOK, RoomsInv
<1>7. OneAcceptance'
  BY <1>1 DEF RequestsInv, OneAcceptance, Accepting
<1>8. DeletionsInv'
  BY <1>1, <1>5 DEF RequestsInv, DeletionsInv, JobsDeleteTheirOwnRoom
<1>9. ExpiryInv'
  <2>1. \A q \in rooms : q.id # r.id /\ q.address \notin known => q.address \notin known'
    BY <1>2 DEF RequestsInv, RoomsInv, OneRoomPerAddress
  <2>2. QED BY <1>1, <1>2, <2>1, DropKeepsExpiry
<1>10. QED BY <1>5, <1>6, <1>7, <1>8, <1>9 DEF RequestsInv

LEMMA DeleteOutdatedKeeps ==
  ASSUME RequestsInv, NEW j \in jobs, DeleteOutdated(j)
  PROVE  RequestsInv'
<1>1. UNCHANGED <<calls, known, nextRoom, nextMessage, broadcast, requests,
                  nextRequest, asks, enqueuing, notices, fate, opened, cut>>
  BY DEF DeleteOutdated
<1>2. j \in Job /\ j.room \in opened[j.request] /\ j.request \in RequestIds
  BY DEF RequestsInv, TypeOK, DeletionsInv, JobsDeleteTheirOwnRoom, Job
<1>3. ASSUME DropRoom(j.room),
             jobs' = (jobs \ {j}) \cup {[j EXCEPT !.at = "deleted"]}
      PROVE  RequestsInv'
  <2> DEFINE done == [j EXCEPT !.at = "deleted"]
  <2>1. /\ done \in Job
        /\ done.room = j.room /\ done.request = j.request
    BY <1>2 DEF Job
  <2>2. jobs' = (jobs \ {j}) \cup {done}
    BY <1>3
  <2> HIDE DEF done
  <2>3. ASSUME NEW c \in Calls, calls[c].request # 0,
               calls[c].at \in {"find", "saveRoom", "create"}
        PROVE  calls[c].opens # j.room
    <3>1. /\ Accepting(c) /\ calls[c].request \in RequestIds
          /\ opened[calls[c].request] = {calls[c].opens}
      BY <2>3 DEF Accepting, RequestsInv, CallsInv, Acceptance
    <3>2. j.request # calls[c].request
      BY <3>1 DEF RequestsInv, OneAcceptance
    <3>3. opened[j.request] \cap opened[calls[c].request] = {}
      BY <1>2, <3>1, <3>2 DEF RequestsInv, OpenedInv
    <3>4. QED BY <1>2, <3>1, <3>3
  <2>4. /\ RoomsInv' /\ AsksInv' /\ FatesInv' /\ OpenedInv' /\ CallsInv'
        /\ NoticeFollowsRoom'
        /\ \A i : RoomExists(i)' => RoomExists(i) /\ i # j.room
    <3>1. known \subseteq known' /\ known' \in SUBSET Addresses
      BY <1>1 DEF RequestsInv, TypeOK, RoomsTypeOK
    <3>2. QED BY <1>1, <1>3, <2>3, <3>1, DropEffect
  <2>5. TypeOK'
    BY <1>1, <2>1, <2>2, <2>4 DEF RequestsInv, TypeOK, RoomsInv
  <2>6. OneAcceptance'
    BY <1>1, <2>1, <2>2 DEF RequestsInv, OneAcceptance, Accepting
  <2>7. DeletionsInv'
    BY <1>1, <1>2, <2>1, <2>2, <2>4 DEF RequestsInv, DeletionsInv, JobsDeleteTheirOwnRoom
  <2>8. ExpiryInv'
    <3>1. \A k \in jobs : \E i \in jobs' : i.room = k.room
      BY <2>1, <2>2
    <3>2. QED BY <1>1, <1>3, <3>1, DropKeepsExpiry
  <2>9. QED BY <2>4, <2>5, <2>6, <2>7, <2>8 DEF RequestsInv
<1>4. ASSUME ~RoomExists(j.room), FailAttempt(j), UNCHANGED <<rooms, messages>>
      PROVE  RequestsInv'
  <2>1. /\ jobs' \in SUBSET Job
        /\ \A k \in jobs' :
             \/ k \in jobs
             \/ k.room = j.room /\ k.request = j.request /\ k.at = "waiting"
        /\ jobs \ {j} \subseteq jobs'
    BY <1>4, FailAttemptEffect DEF RequestsInv
  <2>2. UNCHANGED roomVars
    BY <1>1, <1>4 DEF roomVars
  <2>3. \A k \in jobs' :
          /\ \E d \in jobs \cup enqueuing : k.room = d.room /\ k.request = d.request
          /\ k.at = "deleted" => k \in jobs
    BY <2>1
  <2>4. QED BY <1>1, <1>4, <2>1, <2>2, <2>3, QueueKeeps
<1>5. QED BY <1>3, <1>4 DEF DeleteOutdated

LEMMA WorkerKeeps ==
  ASSUME RequestsInv, WorkerStep \/ \E j \in jobs : JobTimeout(j)
  PROVE  RequestsInv'
BY TakeJobKeeps, DeleteOutdatedKeeps, JobEndsKeeps DEF WorkerStep
-----------------------------------------------------------------------------
(* Steps of one call.  Another call d knows what it knew before.           *)
LEMMA OtherCall ==
  ASSUME RequestsInv, NEW d \in Calls, calls'[d] = calls[d],
         rooms \subseteq rooms', known \subseteq known',
         UNCHANGED nextRequest,
         \A q \in RequestIds : fate[q] = "accepted" => fate'[q] = "accepted",
         /\ calls[d].request # 0
         /\ calls[d].at \in {"open", "find", "saveRoom", "create", "saved", "notify"}
         => opened'[calls[d].request] = opened[calls[d].request]
  PROVE  Gateway(d)' /\ Acceptance(d)'
<1>1. Gateway(d) /\ Acceptance(d)
  BY DEF RequestsInv, CallsInv
<1>2. Gateway(d)'
  BY <1>1 DEF Gateway
<1>3. OwnRoom(d) => OwnRoom(d)'
  BY DEF OwnRoom
<1>4. Acceptance(d)'
  BY <1>1, <1>3 DEF Acceptance
<1>5. QED BY <1>2, <1>4

(* Steps of a call inside saveMessage, or at its ends: the requests and    *)
(* queues are as they were, an acceptance that is under way stays so, and  *)
(* a room is secret no more only when the call that opened it has written  *)
(* its greeting there.                                                     *)
LEMMA CallKeeps ==
  ASSUME RequestsInv, NEW c \in Calls, UNCHANGED requestVars, RoomsInv',
         \A d \in Calls : d # c => calls'[d] = calls[d],
         \A d \in Calls : Gateway(d)' /\ Acceptance(d)',
         Accepting(c)' => Accepting(c) /\ calls'[c].request = calls[c].request,
         calls[c].request = 0 \/ calls[c].at # "saved",
         nextRoom' \in Nat, nextRoom <= nextRoom',
         \A r \in rooms' : r \in rooms \/ r.id = nextRoom,
         \A r \in rooms : \A q \in RequestIds :
           Secret(r) /\ r.id \in opened[q] => Secret(r)' \/ Saved(q)'
  PROVE  RequestsInv'
<1>1. TypeOK'
  BY DEF RequestsInv, TypeOK, RoomsInv, requestVars
<1>2. AsksInv' /\ FatesInv' /\ NoticeFollowsRoom'
  BY DEF RequestsInv, AsksInv, FatesInv, TableTellsFate,
     RequestExists, NoticeFollowsRoom, requestVars
<1>3. \A q \in RequestIds : \A r \in opened[q] : r \in Nat /\ r < nextRoom
  BY DEF RequestsInv, OpenedInv, TypeOK, Ids
<1>4. nextRoom \in Nat
  BY DEF RequestsInv, TypeOK, RoomsTypeOK, Ids
<1>5. OpenedInv'
  BY <1>3, <1>4 DEF RequestsInv, OpenedInv, OneRoomPerRequest, requestVars
<1>6. OneAcceptance'
  <2>1. \A d \in Calls : Accepting(d)'
          => Accepting(d) /\ calls'[d].request = calls[d].request
    BY DEF Accepting
  <2>2. QED BY <2>1 DEF RequestsInv, OneAcceptance, requestVars
<1>7. DeletionsInv'
  <2>1. \A j \in jobs : j.room \in opened[j.request] /\ j.request \in RequestIds
    BY DEF RequestsInv, DeletionsInv, JobsDeleteTheirOwnRoom, TypeOK, Job
  <2>2. \A i \in Nat : RoomExists(i)' /\ i < nextRoom => RoomExists(i)
    BY <1>4 DEF RoomExists
  <2>3. QED BY <1>3, <2>1, <2>2 DEF RequestsInv, DeletionsInv, JobsDeleteTheirOwnRoom,
               requestVars
<1>8. ExpiryInv'
  <2> SUFFICES ASSUME NEW q \in RequestIds, NEW r \in rooms', r.id \in opened[q]
               PROVE  Secret(r)' \/ Expires(q, r.id)'
    BY DEF ExpiryInv, requestVars
  <2>1. r \in rooms
    BY <1>3, <1>4
  <2>2. Secret(r) \/ Expires(q, r.id)
    BY <2>1 DEF RequestsInv, ExpiryInv
  <2>3. CASE Secret(r)
    BY <2>1, <2>3 DEF Expires
  <2>4. CASE Expires(q, r.id)
    <3>1. q # 0
      BY DEF RequestIds
    <3>2. Saved(q) => Saved(q)'
      BY <3>1 DEF Saved
    <3>3. QED BY <2>4, <3>2 DEF Expires, requestVars
  <2>5. QED BY <2>2, <2>3, <2>4
<1>9. QED BY <1>1, <1>2, <1>5, <1>6, <1>7, <1>8 DEF RequestsInv, CallsInv
-----------------------------------------------------------------------------
LEMMA CallIsRecord ==
  ASSUME RequestsInv, NEW c \in Calls
  PROVE  /\ calls \in [Calls -> Call] /\ calls[c] \in Call
         /\ Gateway(c) /\ Acceptance(c)
         /\ nextRoom \in Nat
BY DEF RequestsInv, CallsInv, TypeOK, RoomsTypeOK, Ids

(* When neither the rooms nor the messages nor what clients hold change.   *)
LEMMA OthersKnow ==
  ASSUME RequestsInv, NEW c \in Calls,
         UNCHANGED <<rooms, messages, known, nextRoom, requestVars>>,
         \A d \in Calls : d # c => calls'[d] = calls[d]
  PROVE  \A d \in Calls : d # c => Gateway(d)' /\ Acceptance(d)'
<1> SUFFICES ASSUME NEW d \in Calls, d # c PROVE Gateway(d)' /\ Acceptance(d)'
  OBVIOUS
<1>1. calls'[d] = calls[d] /\ UNCHANGED <<nextRequest, fate, opened>>
  BY DEF requestVars
<1>2. QED BY <1>1, OtherCall

LEMMA SecretsKept ==
  ASSUME UNCHANGED <<messages, known>>
  PROVE  \A r : Secret(r) => Secret(r)'
BY DEF Secret

LEMMA HandleMessageStep ==
  ASSUME RequestsInv, NEW c \in Calls, HandleMessage(c), UNCHANGED requestVars
  PROVE  RequestsInv'
<1>1. RoomsInv'
  BY HandleMessageKeeps DEF RequestsInv
<1>2. UNCHANGED <<rooms, messages, known, nextRoom>> /\ calls[c].at = "idle"
  BY DEF HandleMessage, MayStart
<1>3. PICK address \in known, reply \in 0 .. MaxMessages :
        calls' = [calls EXCEPT ![c] = [Idle EXCEPT !.at = "find",
                                                   !.address = address,
                                                   !.reply = reply]]
  BY DEF HandleMessage
<1>4. /\ calls'[c].at = "find" /\ calls'[c].request = 0
      /\ calls'[c].address = address
      /\ \A d \in Calls : d # c => calls'[d] = calls[d]
  BY <1>3, CallIsRecord DEF Idle
<1>5. calls[c].request = 0
  BY <1>2, CallIsRecord DEF Acceptance
<1>6. Gateway(c)' /\ Acceptance(c)'
  BY <1>2, <1>4 DEF Gateway, Acceptance
<1>7. \A d \in Calls : Gateway(d)' /\ Acceptance(d)'
  BY <1>2, <1>4, <1>6, OthersKnow
<1>8. ~Accepting(c)'
  BY <1>4 DEF Accepting
<1>9. QED BY <1>1, <1>2, <1>4, <1>5, <1>7, <1>8, CallKeeps, CallIsRecord, SecretsKept

LEMMA FindRoomStep ==
  ASSUME RequestsInv, NEW c \in Calls, FindRoom(c), UNCHANGED requestVars
  PROVE  RequestsInv'
<1>1. RoomsInv'
  BY FindRoomKeeps DEF RequestsInv
<1>2. UNCHANGED <<rooms, messages, known, nextRoom>> /\ calls[c].at = "find"
  BY DEF FindRoom
<1>3. \/ \E r \in RoomsAt(calls[c].address) :
           calls' = [calls EXCEPT ![c] = [@ EXCEPT !.at = "create", !.room = r.id]]
      \/ /\ RoomsAt(calls[c].address) = {}
         /\ calls' = [calls EXCEPT ![c].at = "saveRoom"]
  BY DEF FindRoom
<1>4. /\ calls'[c].at \in {"create", "saveRoom"}
      /\ calls'[c].address = calls[c].address
      /\ calls'[c].opens = calls[c].opens
      /\ calls'[c].request = calls[c].request
      /\ \A d \in Calls : d # c => calls'[d] = calls[d]
  <2>1. ASSUME NEW r \in RoomsAt(calls[c].address),
               calls' = [calls EXCEPT ![c] = [@ EXCEPT !.at = "create", !.room = r.id]]
        PROVE  /\ calls'[c].at = "create"
               /\ calls'[c].address = calls[c].address
               /\ calls'[c].opens = calls[c].opens
               /\ calls'[c].request = calls[c].request
               /\ \A d \in Calls : d # c => calls'[d] = calls[d]
    BY <2>1, CallIsRecord DEF Call
  <2>2. CASE calls' = [calls EXCEPT ![c].at = "saveRoom"]
    BY <2>2, CallIsRecord DEF Call
  <2>3. QED BY <1>3, <2>1, <2>2
<1>5. Gateway(c)' /\ Acceptance(c)'
  <2>1. OwnRoom(c) => OwnRoom(c)'
    BY <1>2, <1>4 DEF OwnRoom
  <2>2. Gateway(c)'
    BY <1>2, <1>4, CallIsRecord DEF Gateway
  <2>3. Acceptance(c)'
    BY <1>2, <1>4, <2>1, CallIsRecord DEF Acceptance, requestVars
  <2>4. QED BY <2>2, <2>3
<1>6. \A d \in Calls : Gateway(d)' /\ Acceptance(d)'
  BY <1>2, <1>4, <1>5, OthersKnow
<1>7. Accepting(c)' => Accepting(c)
  BY <1>2, <1>4 DEF Accepting
<1>8. QED BY <1>1, <1>2, <1>4, <1>6, <1>7, CallKeeps, CallIsRecord, SecretsKept

(* There is no room at the address: that of an acceptance was deleted by a *)
(* client, and the one inserted now is none that was opened for a request. *)
LEMMA SaveRoomStep ==
  ASSUME RequestsInv, NEW c \in Calls, SaveRoom(c), UNCHANGED requestVars
  PROVE  RequestsInv'
<1>1. RoomsInv'
  BY SaveRoomKeeps DEF RequestsInv
<1>2. UNCHANGED <<messages, known>> /\ calls[c].at = "saveRoom"
  BY DEF SaveRoom
<1>3. \/ /\ InsertRoom(calls[c].address)
         /\ calls' = [calls EXCEPT ![c] = [@ EXCEPT !.at = "create", !.room = nextRoom]]
      \/ Fail(c) /\ UNCHANGED <<rooms, nextRoom>>
  BY DEF SaveRoom
<1>4. /\ calls'[c].at \in {"create", "failed"}
      /\ calls'[c].address = calls[c].address
      /\ calls'[c].opens = calls[c].opens
      /\ calls'[c].request = calls[c].request
      /\ \A d \in Calls : d # c => calls'[d] = calls[d]
  <2>1. CASE calls' = [calls EXCEPT ![c] = [@ EXCEPT !.at = "create", !.room = nextRoom]]
    BY <2>1, CallIsRecord DEF Call
  <2>2. CASE Fail(c)
    BY <2>2, CallIsRecord DEF Call, Fail
  <2>3. QED BY <1>3, <2>1, <2>2
<1>5. /\ nextRoom' \in {nextRoom, nextRoom + 1}
      /\ rooms \subseteq rooms'
      /\ \A r \in rooms' : r \in rooms \/ r.id = nextRoom
  BY <1>3 DEF InsertRoom
<1>6. Gateway(c)' /\ Acceptance(c)'
  <2>1. OwnRoom(c) => OwnRoom(c)'
    BY <1>4, <1>5 DEF OwnRoom
  <2>2. QED BY <1>2, <1>4, <2>1, CallIsRecord DEF Gateway, Acceptance, requestVars
<1>7. ASSUME NEW d \in Calls, d # c PROVE Gateway(d)' /\ Acceptance(d)'
  <2>1. calls'[d] = calls[d] /\ UNCHANGED <<known, nextRequest, fate, opened>>
    BY <1>2, <1>4, <1>7 DEF requestVars
  <2>2. QED BY <1>5, <2>1, OtherCall
<1>8. \A d \in Calls : Gateway(d)' /\ Acceptance(d)'
  BY <1>6, <1>7
<1>9. nextRoom' \in Nat /\ nextRoom <= nextRoom'
  BY <1>5, CallIsRecord
<1>10. Accepting(c)' => Accepting(c)
  BY <1>2, <1>4 DEF Accepting
<1>11. QED BY <1>1, <1>2, <1>4, <1>5, <1>8, <1>9, <1>10, CallKeeps, SecretsKept

(* The greeting may be refused.  What is written to a secret room is the   *)
(* greeting of the call that has opened it, for nobody else has its        *)
(* address.                                                                *)
LEMMA CreateMessageStep ==
  ASSUME RequestsInv, NEW c \in Calls, CreateMessage(c), UNCHANGED requestVars
  PROVE  RequestsInv'
<1>1. RoomsInv'
  BY CreateMessageKeeps DEF RequestsInv
<1>2. UNCHANGED <<rooms, nextRoom>> /\ calls[c].at = "create"
  BY DEF CreateMessage
<1>3. ASSUME Fail(c), UNCHANGED <<messages, nextMessage, known>>
      PROVE  RequestsInv'
  <2>1. /\ calls'[c].at = "failed" /\ calls'[c].request = calls[c].request
        /\ \A d \in Calls : d # c => calls'[d] = calls[d]
    BY <1>3, CallIsRecord DEF Call, Fail
  <2>2. Gateway(c)' /\ Acceptance(c)'
    BY <2>1, CallIsRecord DEF Gateway, Acceptance, requestVars
  <2>3. \A d \in Calls : Gateway(d)' /\ Acceptance(d)'
    BY <1>2, <1>3, <2>1, <2>2, OthersKnow
  <2>4. ~Accepting(c)'
    BY <2>1 DEF Accepting
  <2>5. QED BY <1>1, <1>2, <1>3, <2>1, <2>3, <2>4, CallKeeps, CallIsRecord, SecretsKept
<1>4. ASSUME ReferencesExist(c),
             messages' = messages \cup {[id |-> nextMessage,
                                         room |-> calls[c].room,
                                         reply |-> calls[c].reply]},
             known' = known \cup {calls[c].address},
             calls' = [calls EXCEPT ![c] = [@ EXCEPT !.at = "saved", !.message = nextMessage]]
      PROVE  RequestsInv'
  <2>1. /\ calls'[c].at = "saved" /\ calls'[c].opens = calls[c].opens
        /\ calls'[c].address = calls[c].address
        /\ calls'[c].request = calls[c].request
        /\ \A d \in Calls : d # c => calls'[d] = calls[d]
    BY <1>4, CallIsRecord DEF Call
  <2>2. Gateway(c)' /\ Acceptance(c)'
    BY <1>2, <1>4, <2>1, CallIsRecord DEF Gateway, Acceptance, requestVars
  <2>3. ASSUME NEW d \in Calls, d # c PROVE Gateway(d)' /\ Acceptance(d)'
    <3>1. /\ calls'[d] = calls[d] /\ UNCHANGED <<rooms, nextRequest, fate, opened>>
          /\ known \subseteq known'
      BY <1>2, <1>4, <2>1, <2>3 DEF requestVars
    <3>2. QED BY <3>1, OtherCall
  <2>4. \A d \in Calls : Gateway(d)' /\ Acceptance(d)'
    BY <2>2, <2>3
  <2>5. PICK w \in rooms : w.id = calls[c].room
    BY <1>4 DEF ReferencesExist, RoomExists
  <2>6. w.address = calls[c].address
    BY <1>2, <2>5 DEF RequestsInv, RoomsInv, Remembered, RoomRemembered
  <2>7. ASSUME NEW r \in rooms, NEW q \in RequestIds, Secret(r), r.id \in opened[q]
        PROVE  Secret(r)' \/ Saved(q)'
    <3>1. CASE r = w
      <4>1. calls[c].address \notin known
        BY <2>6, <2>7, <3>1 DEF Secret
      <4>2. calls[c].request # 0 /\ OwnRoom(c)
        BY <1>2, <4>1, CallIsRecord DEF Gateway, Acceptance
      <4>3. calls[c].opens = r.id
        BY <2>6, <3>1, <4>2 DEF OwnRoom, RequestsInv, RoomsInv, OneRoomPerAddress
      <4>4. r.id \in opened[calls[c].request] /\ calls[c].request \in RequestIds
        BY <1>2, <4>2, <4>3, CallIsRecord DEF Acceptance
      <4>5. calls[c].request = q
        BY <2>7, <4>4 DEF RequestsInv, OpenedInv
      <4>6. QED BY <2>1, <4>5 DEF Saved
    <3>2. CASE r # w
      <4>1. r.address # w.address /\ r.id # w.id
        BY <3>2 DEF RequestsInv, RoomsInv, OneRoomPerAddress, RoomIds
      <4>2. QED BY <1>4, <2>5, <2>6, <2>7, <4>1 DEF Secret
    <3>3. QED BY <3>1, <3>2
  <2>8. Accepting(c)' => Accepting(c)
    BY <1>2, <2>1 DEF Accepting
  <2>9. QED BY <1>1, <1>2, <2>1, <2>4, <2>7, <2>8, CallKeeps, CallIsRecord
<1>5. QED BY <1>3, <1>4 DEF CreateMessage

LEMMA EndingStep ==
  ASSUME RequestsInv, NEW c \in Calls, PublishMessage(c) \/ ReportFailure(c),
         UNCHANGED requestVars
  PROVE  RequestsInv'
<1>1. RoomsInv'
  BY SendStepKeeps DEF RequestsInv, SendStep
<1>2. UNCHANGED <<rooms, messages, known, nextRoom>>
  BY DEF PublishMessage, ReportFailure
<1>3. /\ calls'[c] = Idle
      /\ \A d \in Calls : d # c => calls'[d] = calls[d]
  BY CallIsRecord DEF PublishMessage, ReportFailure
<1>4. Idle.at = "idle" /\ Idle.request = 0
  BY DEF Idle
<1>5. Gateway(c)' /\ Acceptance(c)'
  BY <1>3, <1>4 DEF Gateway, Acceptance
<1>6. \A d \in Calls : Gateway(d)' /\ Acceptance(d)'
  BY <1>2, <1>3, <1>5, OthersKnow
<1>7. calls[c].request = 0 \/ calls[c].at # "saved"
  BY DEF PublishMessage, ReportFailure
<1>8. ~Accepting(c)'
  BY <1>3, <1>4 DEF Accepting
<1>9. QED BY <1>1, <1>2, <1>3, <1>4, <1>6, <1>7, <1>8, CallKeeps, CallIsRecord, SecretsKept

LEMMA SendStepStep ==
  ASSUME RequestsInv, NEW c \in Calls, HandleMessage(c) \/ SendStep(c),
         UNCHANGED requestVars
  PROVE  RequestsInv'
BY HandleMessageStep, FindRoomStep, SaveRoomStep, CreateMessageStep, EndingStep
   DEF SendStep, SaveMessageStep
-----------------------------------------------------------------------------
(* The steps of acceptRequest around saveMessage. *)
LEMMA AcceptRequestStep ==
  ASSUME RequestsInv, NEW c \in Calls, AcceptRequest(c)
  PROVE  RequestsInv'
<1>1. /\ UNCHANGED <<rooms, messages, known, nextRoom, nextMessage, broadcast, requestVars>>
      /\ calls[c].at = "idle"
  BY DEF AcceptRequest, MayStart
<1>2. PICK id \in 1 .. (nextRequest - 1) :
        calls' = [calls EXCEPT ![c] = [Idle EXCEPT !.at = "delete", !.request = id]]
  BY DEF AcceptRequest
<1> DEFINE call == [Idle EXCEPT !.at = "delete", !.request = id]
<1>3. /\ call \in Call
      /\ call.at = "delete" /\ call.request = id
  <2>1. id \in Nat
    BY DEF RequestsInv, TypeOK, Ids
  <2>2. QED BY <2>1, IdleIsCall DEF Call
<1> HIDE DEF call
<1>4. /\ calls' \in [Calls -> Call]
      /\ calls'[c] = call
      /\ \A d \in Calls : d # c => calls'[d] = calls[d]
  BY <1>2, <1>3, CallsTyped DEF RequestsInv, TypeOK, call
<1>5. Remembered(c)'
  BY <1>3, <1>4 DEF Remembered, RoomRemembered, MessageRemembered
<1>6. RoomsInv'
  <2>1. RoomsTypeOK'
    BY <1>1, <1>4 DEF RequestsInv, TypeOK, RoomsTypeOK
  <2>2. QED BY <1>1, <1>4, <1>5, <2>1, TablesUntouched DEF RequestsInv
<1>7. id \in RequestIds /\ id < nextRequest /\ id # 0
  BY RequestsAssumption DEF RequestsInv, AsksInv, TypeOK, RequestIds, Ids
<1>8. Gateway(c)' /\ Acceptance(c)'
  BY <1>1, <1>3, <1>4, <1>7 DEF Gateway, Acceptance, requestVars
<1>9. \A d \in Calls : Gateway(d)' /\ Acceptance(d)'
  BY <1>1, <1>4, <1>8, OthersKnow
<1>10. ~Accepting(c)'
  BY <1>3, <1>4 DEF Accepting
<1>11. QED BY <1>1, <1>4, <1>6, <1>9, <1>10, CallKeeps, CallIsRecord, SecretsKept

(* The request is deleted by this call, so no other call has accepted it.  *)
LEMMA AnswerRequestStep ==
  ASSUME RequestsInv, NEW c \in Calls, AnswerRequest(c)
  PROVE  RequestsInv'
<1>1. /\ UNCHANGED <<rooms, messages, known, nextRoom, nextMessage, broadcast,
                     nextRequest, asks, enqueuing, jobs, notices, opened, cut>>
      /\ calls[c].at = "delete"
  BY DEF AnswerRequest
<1>2. ASSUME Fail(c), UNCHANGED <<requests, fate>> PROVE RequestsInv'
  <2>1. RoomsInv' /\ UNCHANGED requestVars
    BY <1>1, <1>2, FailKeeps DEF RequestsInv, requestVars
  <2>2. /\ calls'[c].at = "failed" /\ calls'[c].request = calls[c].request
        /\ \A d \in Calls : d # c => calls'[d] = calls[d]
    BY <1>2, CallIsRecord DEF Call, Fail
  <2>3. Gateway(c)' /\ Acceptance(c)'
    BY <2>1, <2>2, CallIsRecord DEF Gateway, Acceptance, requestVars
  <2>4. \A d \in Calls : Gateway(d)' /\ Acceptance(d)'
    BY <1>1, <2>1, <2>2, <2>3, OthersKnow
  <2>5. ~Accepting(c)'
    BY <2>2 DEF Accepting
  <2>6. QED BY <1>1, <2>1, <2>2, <2>4, <2>5, CallKeeps, CallIsRecord, SecretsKept
<1>3. ASSUME RemoveRequest(calls[c].request, "accepted"),
             calls' = [calls EXCEPT ![c].at = "open"]
      PROVE  RequestsInv'
  <2> DEFINE id == calls[c].request
             call == [calls[c] EXCEPT !.at = "open"]
  <2>1. /\ call \in Call /\ calls[c] \in Call
        /\ call.at = "open" /\ call.request = id
    BY CallIsRecord DEF Call
  <2>2. calls' = [calls EXCEPT ![c] = call]
    BY <1>3
  <2>3. /\ id \in RequestIds /\ fate[id] = "pending" /\ opened[id] = {}
        /\ requests' \in SUBSET Request
        /\ fate' \in [RequestIds -> Fates]
        /\ fate'[id] = "accepted"
        /\ \A q \in RequestIds : q # id => fate'[q] = fate[q]
        /\ FatesInv'
    BY <1>1, <1>3, RemoveRequestEffect DEF Fates
  <2>4. id \in Nat /\ id # 0
    BY <2>3 DEF RequestIds
  <2> HIDE DEF call, id
  <2>5. /\ calls' \in [Calls -> Call]
        /\ calls'[c] = call
        /\ \A d \in Calls : d # c => calls'[d] = calls[d]
    BY <2>1, <2>2, CallsTyped DEF RequestsInv, TypeOK
  <2>6. calls[c].request = id
    BY DEF id
  <2>7. RoomsInv'
    <3>1. RoomsTypeOK'
      BY <1>1, <2>5 DEF RequestsInv, TypeOK, RoomsTypeOK
    <3>2. Remembered(c)'
      BY <2>1, <2>5 DEF Remembered, RoomRemembered, MessageRemembered
    <3>3. QED BY <1>1, <2>5, <3>1, <3>2, TablesUntouched DEF RequestsInv
  <2>8. TypeOK'
    BY <1>1, <2>3, <2>7 DEF RequestsInv, TypeOK, RoomsInv
  <2>9. AsksInv' /\ NoticeFollowsRoom'
    BY <1>1 DEF RequestsInv, AsksInv, NoticeFollowsRoom
  <2>10. OpenedInv'
    BY <1>1, <2>3 DEF RequestsInv, OpenedInv, OneRoomPerRequest
  <2>11. Gateway(c)' /\ Acceptance(c)'
    BY <1>1, <2>1, <2>3, <2>4, <2>5, <2>6, CallIsRecord DEF Gateway, Acceptance
  <2>12. ASSUME NEW d \in Calls, d # c PROVE Gateway(d)' /\ Acceptance(d)'
    <3>1. calls'[d] = calls[d]
      BY <2>5, <2>12
    <3>2. \A q \in RequestIds : fate[q] = "accepted" => fate'[q] = "accepted"
      BY <2>3
    <3>3. QED BY <1>1, <3>1, <3>2, OtherCall
  <2>13. ASSUME NEW d \in Calls, Accepting(d) PROVE calls[d].request # id
    <3>1. Acceptance(d) /\ calls[d].request # 0
      BY <2>13, CallIsRecord DEF Accepting
    <3>2. opened[calls[d].request] # {} \/ fate[calls[d].request] = "accepted"
      BY <2>13, <3>1 DEF Acceptance, Accepting
    <3>3. QED BY <2>3, <3>2
  <2>14. /\ \A e \in enqueuing : e.request # id
         /\ \A j \in jobs : j.request # id
    BY <2>3 DEF RequestsInv, DeletionsInv, JobsDeleteTheirOwnRoom
  <2>15. OneAcceptance'
    <3>1. \A d \in Calls : d # c /\ Accepting(d)'
            => Accepting(d) /\ calls'[d].request = calls[d].request
      BY <2>5 DEF Accepting
    <3>2. calls'[c].request = id
      BY <2>1, <2>5
    <3>3. QED BY <1>1, <2>13, <2>14, <3>1, <3>2 DEF RequestsInv, OneAcceptance
  <2>16. DeletionsInv'
    BY <1>1 DEF RequestsInv, DeletionsInv, JobsDeleteTheirOwnRoom, RoomExists
  <2>17. ExpiryInv'
    <3>1. \A d \in Calls : calls[d].at = "saved" => calls'[d] = calls[d]
      BY <1>1, <2>5
    <3>2. QED BY <1>1, <3>1, ExpiryKept DEF Expires, Saved
  <2>18. QED BY <2>3, <2>7, <2>8, <2>9, <2>10, <2>11, <2>12, <2>15, <2>16, <2>17
             DEF RequestsInv, CallsInv
<1>4. QED BY <1>2, <1>3 DEF AnswerRequest

(* The address is new, so no client holds it and no room has it: the room  *)
(* opened here is secret.                                                  *)
LEMMA OpenRoomStep ==
  ASSUME RequestsInv, NEW c \in Calls, OpenRoom(c)
  PROVE  RequestsInv'
<1> DEFINE id == calls[c].request
<1>1. /\ UNCHANGED <<messages, known, nextMessage, broadcast, requests,
                     nextRequest, asks, enqueuing, jobs, notices, fate, cut>>
      /\ calls[c].at = "open"
      /\ opened' = [opened EXCEPT ![id] = @ \cup {nextRoom}]
  BY DEF OpenRoom
<1>2. PICK address \in Addresses \ known :
        /\ InsertRoom(address)
        /\ calls' = [calls EXCEPT ![c] = [@ EXCEPT !.at = "find",
                                                   !.address = address,
                                                   !.opens = nextRoom]]
  BY DEF OpenRoom
<1> DEFINE call == [calls[c] EXCEPT !.at = "find", !.address = address,
                                    !.opens = nextRoom]
           new == [id |-> nextRoom, address |-> address]
<1>3. /\ id # 0 /\ id \in RequestIds /\ id < nextRequest
      /\ fate[id] = "accepted" /\ opened[id] = {}
  BY <1>1, CallIsRecord DEF Gateway, Acceptance
<1>4. /\ call \in Call /\ call.at = "find" /\ call.address = address
      /\ call.opens = nextRoom /\ call.request = id
  BY <1>3, CallIsRecord DEF Call
<1>5. calls' = [calls EXCEPT ![c] = call]
  BY <1>2
<1>6. calls[c].request = id
  OBVIOUS
<1>7. /\ new \in Room /\ new.id = nextRoom /\ new.address = address
      /\ rooms' = rooms \cup {new} /\ nextRoom' = nextRoom + 1
      /\ nextRoom \in Ids
  BY <1>2 DEF InsertRoom, RequestsInv, TypeOK, RoomsTypeOK, Room
<1> HIDE DEF call, id, new
<1>8. /\ calls' \in [Calls -> Call]
      /\ calls'[c] = call
      /\ \A d \in Calls : d # c => calls'[d] = calls[d]
  BY <1>4, <1>5, CallsTyped DEF RequestsInv, TypeOK
<1>9. /\ opened' \in [RequestIds -> SUBSET Ids]
      /\ opened'[id] = {nextRoom}
      /\ \A q \in RequestIds : q # id => opened'[q] = opened[q]
  BY <1>1, <1>3, <1>7 DEF RequestsInv, TypeOK
<1>10. RoomsInv'
  <2>1. RoomsTypeOK'
    BY <1>1, <1>7, <1>8 DEF RequestsInv, TypeOK, RoomsTypeOK, Ids
  <2>2. Remembered(c)'
    BY <1>4, <1>8 DEF Remembered, RoomRemembered, MessageRemembered
  <2>3. QED BY <1>1, <1>2, <1>8, <2>1, <2>2, InsertRoomKeeps DEF RequestsInv
<1>11. TypeOK'
  BY <1>1, <1>9, <1>10 DEF RequestsInv, TypeOK, RoomsInv
<1>12. AsksInv' /\ FatesInv'
  BY <1>1 DEF RequestsInv, AsksInv, FatesInv, TableTellsFate, RequestExists
<1>13. \A q \in RequestIds : \A r \in opened[q] : r \in Nat /\ r < nextRoom
  BY DEF RequestsInv, OpenedInv, TypeOK, Ids
<1>14. nextRoom \in Nat
  BY <1>7 DEF Ids
<1>15. OpenedInv'
  <2>1. OneRoomPerRequest'
    BY <1>1, <1>3, <1>9 DEF RequestsInv, OpenedInv, OneRoomPerRequest
  <2>2. \A q \in RequestIds : \A r \in opened'[q] : r < nextRoom'
    BY <1>7, <1>9, <1>13, <1>14
  <2>3. \A p, q \in RequestIds : p # q => opened'[p] \cap opened'[q] = {}
    <3>1. \A q \in RequestIds : nextRoom \notin opened[q]
      BY <1>13, <1>14
    <3>2. QED BY <1>9, <3>1 DEF RequestsInv, OpenedInv
  <2>4. QED BY <2>1, <2>2, <2>3 DEF OpenedInv
<1>16. Gateway(c)' /\ Acceptance(c)'
  <2>1. OwnRoom(c)'
    BY <1>4, <1>7, <1>8 DEF OwnRoom
  <2>2. QED BY <1>1, <1>3, <1>4, <1>8, <1>9, <2>1 DEF Gateway, Acceptance
<1>17. ASSUME NEW d \in Calls, d # c PROVE Gateway(d)' /\ Acceptance(d)'
  <2>1. ASSUME calls[d].request # 0,
               calls[d].at \in {"open", "find", "saveRoom", "create", "saved", "notify"}
        PROVE  opened'[calls[d].request] = opened[calls[d].request]
    <3>1. calls[d].request \in RequestIds
      BY <2>1, CallIsRecord DEF Acceptance
    <3>2. calls[d].request # id
      <4>1. CASE calls[d].at = "notify"
        BY <1>3, <2>1, <4>1, CallIsRecord DEF Acceptance
      <4>2. CASE calls[d].at # "notify"
        <5>1. Accepting(c) /\ Accepting(d)
          BY <1>1, <1>3, <1>6, <2>1, <4>2 DEF Accepting
        <5>2. QED BY <1>6, <1>17, <5>1 DEF RequestsInv, OneAcceptance
      <4>3. QED BY <4>1, <4>2
    <3>3. QED BY <1>9, <3>1, <3>2
  <2>2. calls'[d] = calls[d] /\ rooms \subseteq rooms'
    BY <1>7, <1>8, <1>17
  <2>3. QED BY <1>1, <2>1, <2>2, OtherCall
<1>18. OneAcceptance'
  <2>1. \A d \in Calls : Accepting(d)'
          => Accepting(d) /\ calls'[d].request = calls[d].request
    BY <1>1, <1>3, <1>4, <1>6, <1>8 DEF Accepting
  <2>2. QED BY <1>1, <2>1 DEF RequestsInv, OneAcceptance
<1>19. \A q \in RequestIds : opened[q] \subseteq opened'[q]
  BY <1>3, <1>9
<1>20. \A i \in Nat : RoomExists(i)' /\ i < nextRoom => RoomExists(i)
  BY <1>7, <1>14 DEF RoomExists
<1>21. DeletionsInv'
  <2>1. /\ \A j \in jobs : j.request \in RequestIds /\ j.room \in opened[j.request]
        /\ \A e \in enqueuing : e.request \in RequestIds /\ e.room \in opened[e.request]
    BY DEF RequestsInv, DeletionsInv, JobsDeleteTheirOwnRoom, TypeOK, Job
  <2>2. \A j \in jobs : j.at = "deleted" => ~RoomExists(j.room)'
    BY <1>13, <1>20, <2>1 DEF RequestsInv, DeletionsInv
  <2>3. QED BY <1>1, <1>19, <2>1, <2>2 DEF DeletionsInv, JobsDeleteTheirOwnRoom
<1>22. NoticeFollowsRoom'
  <2>1. \A n \in notices : n.request \in RequestIds
    BY DEF RequestsInv, TypeOK, Notice
  <2>2. QED BY <1>1, <1>19, <2>1 DEF RequestsInv, NoticeFollowsRoom
<1>23. ExpiryInv'
  <2> SUFFICES ASSUME NEW q \in RequestIds, NEW r \in rooms', r.id \in opened'[q]
               PROVE  Secret(r)' \/ Expires(q, r.id)'
    BY DEF ExpiryInv
  <2>1. CASE r = new
    <3>1. \A m \in messages : m.room # nextRoom
      BY <1>14 DEF RequestsInv, RoomsInv, NoOrphans, RoomExists, RoomIds
    <3>2. QED BY <1>1, <1>2, <1>7, <2>1, <3>1 DEF Secret
  <2>2. CASE r # new
    <3>1. r \in rooms /\ r.id # nextRoom
      BY <1>7, <1>14, <2>2 DEF RequestsInv, RoomsInv, RoomIds, RoomsTypeOK, Room, Ids
    <3>2. r.id \in opened[q]
      BY <1>9, <3>1
    <3>3. Saved(q) => Saved(q)'
      BY <1>1, <1>8 DEF Saved
    <3>4. QED BY <1>1, <3>1, <3>2, <3>3 DEF RequestsInv, ExpiryInv, Secret, Expires
  <2>3. QED BY <2>1, <2>2
<1>24. QED BY <1>10, <1>11, <1>12, <1>15, <1>16, <1>17, <1>18, <1>21, <1>22, <1>23
           DEF RequestsInv, CallsInv

(* From now on the deletion of the room is the queue's.                    *)
LEMMA QueueDeletionStep ==
  ASSUME RequestsInv, NEW c \in Calls, QueueDeletion(c)
  PROVE  RequestsInv'
<1> DEFINE id == calls[c].request
           e == [room |-> calls[c].opens, request |-> id]
           call == [calls[c] EXCEPT !.at = "notify"]
<1>1. /\ UNCHANGED <<rooms, messages, known, nextRoom, nextMessage, broadcast,
                     requests, nextRequest, asks, jobs, notices, fate, opened, cut>>
      /\ calls[c].at = "saved" /\ id # 0
      /\ enqueuing' = enqueuing \cup {e}
      /\ calls' = [calls EXCEPT ![c] = call]
  BY DEF QueueDeletion, DeletionOf
<1>2. /\ id \in RequestIds /\ id < nextRequest
      /\ opened[id] = {calls[c].opens}
  BY <1>1, CallIsRecord DEF Acceptance
<1>3. /\ call \in Call /\ call.at = "notify" /\ call.request = id
      /\ call.opens = calls[c].opens
  BY <1>2, CallIsRecord DEF Call
<1>4. e \in [room: Ids, request: RequestIds] /\ e.room = calls[c].opens /\ e.request = id
  BY <1>2 DEF RequestsInv, TypeOK
<1>5. calls[c].request = id
  OBVIOUS
<1> HIDE DEF call, e, id
<1>6. /\ calls' \in [Calls -> Call]
      /\ calls'[c] = call
      /\ \A d \in Calls : d # c => calls'[d] = calls[d]
  BY <1>1, <1>3, CallsTyped DEF RequestsInv, TypeOK
<1>7. RoomsInv'
  <2>1. RoomsTypeOK'
    BY <1>1, <1>6 DEF RequestsInv, TypeOK, RoomsTypeOK
  <2>2. Remembered(c)'
    BY <1>3, <1>6 DEF Remembered, RoomRemembered, MessageRemembered
  <2>3. QED BY <1>1, <1>6, <2>1, <2>2, TablesUntouched DEF RequestsInv
<1>8. TypeOK'
  BY <1>1, <1>4, <1>7 DEF RequestsInv, TypeOK, RoomsInv
<1>9. AsksInv' /\ FatesInv' /\ NoticeFollowsRoom' /\ OpenedInv'
  BY <1>1 DEF RequestsInv, AsksInv, FatesInv, TableTellsFate,
     RequestExists, NoticeFollowsRoom, OpenedInv, OneRoomPerRequest
<1>10. Gateway(c)' /\ Acceptance(c)'
  BY <1>1, <1>2, <1>3, <1>6 DEF Gateway, Acceptance
<1>11. ASSUME NEW d \in Calls, d # c PROVE Gateway(d)' /\ Acceptance(d)'
  <2>1. calls'[d] = calls[d]
    BY <1>6, <1>11
  <2>2. QED BY <1>1, <2>1, OtherCall
<1>12. OneAcceptance'
  <2>1. Accepting(c)
    BY <1>1, <1>5 DEF Accepting
  <2>2. \A d \in Calls : Accepting(d)' => d # c /\ Accepting(d) /\ calls'[d] = calls[d]
    BY <1>3, <1>6 DEF Accepting
  <2>3. \A d \in Calls : Accepting(d)' => calls'[d].request # e.request
    BY <1>4, <1>5, <2>1, <2>2 DEF RequestsInv, OneAcceptance
  <2>4. QED BY <1>1, <2>2, <2>3 DEF RequestsInv, OneAcceptance
<1>13. DeletionsInv'
  BY <1>1, <1>2, <1>4 DEF RequestsInv, DeletionsInv, JobsDeleteTheirOwnRoom, RoomExists
<1>14. ExpiryInv'
  <2> SUFFICES ASSUME NEW q \in RequestIds, NEW r \in rooms, r.id \in opened[q],
                      Expires(q, r.id)
               PROVE  Expires(q, r.id)'
    BY <1>1, ExpiryKept
  <2>1. CASE Saved(q)
    <3>1. PICK d \in Calls : calls[d].request = q /\ calls[d].at = "saved"
      BY <2>1 DEF Saved
    <3>2. CASE d = c
      <4>1. e \in enqueuing' /\ e.room = r.id
        BY <1>1, <1>2, <1>4, <1>5, <3>1, <3>2
      <4>2. QED BY <4>1 DEF Expires
    <3>3. CASE d # c
      BY <1>6, <3>1, <3>3 DEF Expires, Saved
    <3>4. QED BY <3>2, <3>3
  <2>2. CASE ~Saved(q)
    BY <1>1, <2>2 DEF Expires
  <2>3. QED BY <2>1, <2>2
<1>15. QED BY <1>7, <1>8, <1>9, <1>10, <1>11, <1>12, <1>13, <1>14
           DEF RequestsInv, CallsInv

LEMMA NotifyAcceptedStep ==
  ASSUME RequestsInv, NEW c \in Calls, NotifyAccepted(c)
  PROVE  RequestsInv'
<1> DEFINE notice == [kind |-> "accepted", request |-> calls[c].request]
<1>1. /\ UNCHANGED <<rooms, messages, known, nextRoom, nextMessage, broadcast,
                     requests, nextRequest, asks, enqueuing, jobs, fate, opened,
                     cut>>
      /\ calls[c].at = "notify"
      /\ notices' = notices \cup {notice}
      /\ calls' = [calls EXCEPT ![c] = Idle]
  BY DEF NotifyAccepted
<1>2. calls[c].request \in RequestIds /\ opened[calls[c].request] # {}
  BY <1>1, CallIsRecord DEF Gateway, Acceptance
<1>3. notice \in Notice /\ notice.request = calls[c].request
  BY <1>2 DEF Notice
<1> HIDE DEF notice
<1>4. RoomsInv'
  BY <1>1, EndingKeeps DEF RequestsInv, TypeOK, RoomsTypeOK
<1>5. TypeOK'
  BY <1>1, <1>3, <1>4 DEF RequestsInv, TypeOK, RoomsInv
<1>6. AsksInv' /\ FatesInv' /\ OpenedInv'
  BY <1>1 DEF RequestsInv, AsksInv, FatesInv, TableTellsFate,
     RequestExists, OpenedInv, OneRoomPerRequest
<1>7. NoticeFollowsRoom'
  BY <1>1, <1>2, <1>3 DEF RequestsInv, NoticeFollowsRoom
<1>8. /\ calls'[c].at = "idle" /\ calls'[c].request = 0
      /\ \A d \in Calls : d # c => calls'[d] = calls[d]
  BY <1>1, CallIsRecord DEF Idle
<1>9. Gateway(c)' /\ Acceptance(c)'
  BY <1>8 DEF Gateway, Acceptance
<1>10. ASSUME NEW d \in Calls, d # c PROVE Gateway(d)' /\ Acceptance(d)'
  <2>1. calls'[d] = calls[d]
    BY <1>8, <1>10
  <2>2. QED BY <1>1, <2>1, OtherCall
<1>11. OneAcceptance'
  <2>1. \A d \in Calls : Accepting(d)' => Accepting(d) /\ calls'[d] = calls[d]
    BY <1>8 DEF Accepting
  <2>2. QED BY <1>1, <2>1 DEF RequestsInv, OneAcceptance
<1>12. DeletionsInv'
  BY <1>1 DEF RequestsInv, DeletionsInv, JobsDeleteTheirOwnRoom, RoomExists
<1>13. ExpiryInv'
  <2>1. \A d \in Calls : calls[d].at = "saved" => calls'[d] = calls[d]
    BY <1>1, <1>8
  <2>2. QED BY <1>1, <2>1, ExpiryKept DEF Expires, Saved
<1>14. QED BY <1>4, <1>5, <1>6, <1>7, <1>9, <1>10, <1>11, <1>12, <1>13
           DEF RequestsInv, CallsInv
-----------------------------------------------------------------------------
(* What a restart makes of the jobs of a worker that died.                 *)
LEMMA RevivedTyped ==
  ASSUME TypeOK, NEW j \in jobs \ GivenUp
  PROVE  /\ Revived(j) \in Job /\ Revived(j).at = "waiting"
         /\ Revived(j).room = j.room /\ Revived(j).request = j.request
<1>1. j \in Job /\ MaxStalled \in Nat
  BY AttemptsAssumption DEF TypeOK
<1>2. CASE Stalled(j)
  <2>1. j.stalls \in 0 .. MaxStalled /\ j.stalls # MaxStalled
    BY <1>1, <1>2 DEF GivenUp, Job
  <2>2. j.stalls + 1 \in 0 .. MaxStalled
    BY <1>1, <2>1
  <2>3. QED BY <1>1, <1>2, <2>2 DEF Revived, Job
<1>3. CASE ~Stalled(j)
  BY <1>1, <1>3 DEF Revived, Stalled, Job
<1>4. QED BY <1>2, <1>3

LEMMA RestartStep ==
  ASSUME RequestsInv, Restart
  PROVE  RequestsInv'
<1>1. /\ UNCHANGED <<rooms, messages, known, nextRoom, nextMessage, broadcast,
                     requests, nextRequest, notices, fate, opened>>
      /\ asks' = [a \in Asks |-> NoAsk] /\ enqueuing' = {}
      /\ jobs' = {Revived(j) : j \in jobs \ GivenUp}
      /\ cut' = cut \cup {j.request : j \in enqueuing \cup GivenUp} \cup CutAccepts
  BY DEF Restart
<1>2. /\ \A c \in Calls : /\ calls'[c].at = "idle" /\ calls'[c].request = 0
      /\ CutCalls
  BY DEF Restart, CutCalls, Idle
<1>3. RoomsInv'
  BY <1>1, <1>2, CutKeeps DEF RequestsInv
<1>4. \A k \in jobs' : /\ k \in Job /\ k.at = "waiting"
                       /\ \E j \in jobs : k.room = j.room /\ k.request = j.request
  BY <1>1, RevivedTyped DEF RequestsInv
<1>5. CutAccepts \subseteq RequestIds
  BY CallIsRecord DEF CutAccepts, Acceptance
<1>6. TypeOK'
  <2>1. cut' \in SUBSET RequestIds
    BY <1>1, <1>5 DEF RequestsInv, TypeOK, GivenUp, Job
  <2>2. asks' \in [Asks -> Ask] /\ enqueuing' = {} /\ jobs' \in SUBSET Job
    BY <1>1, <1>4, NoAskIsAsk
  <2>3. QED BY <1>1, <1>3, <2>1, <2>2 DEF RequestsInv, TypeOK, RoomsInv
<1>7. AsksInv'
  BY <1>1, NoAskIsAsk DEF RequestsInv, AsksInv
<1>8. FatesInv' /\ OpenedInv' /\ NoticeFollowsRoom'
  BY <1>1 DEF RequestsInv, FatesInv, TableTellsFate, RequestExists, OpenedInv,
     OneRoomPerRequest, NoticeFollowsRoom
<1>9. CallsInv' /\ OneAcceptance'
  BY <1>2 DEF CallsInv, Gateway, Acceptance, OneAcceptance, Accepting
<1>10. DeletionsInv'
  BY <1>1, <1>4 DEF RequestsInv, DeletionsInv, JobsDeleteTheirOwnRoom
<1>11. ExpiryInv'
  <2> SUFFICES ASSUME NEW q \in RequestIds, NEW r \in rooms, r.id \in opened[q],
                      Expires(q, r.id)
               PROVE  (\E j \in jobs' : j.room = r.id) \/ q \in cut'
    BY <1>1, ExpiryKept DEF Expires
  <2>1. ASSUME Saved(q) PROVE q \in cut'
    <3>1. q # 0
      BY DEF RequestIds
    <3>2. q \in CutAccepts
      BY <2>1, <3>1 DEF CutAccepts, Saved
    <3>3. QED BY <1>1, <3>2
  <2>2. \A e \in enqueuing \cup jobs : e.room = r.id => e.request = q
    <3>1. \A e \in enqueuing \cup jobs :
            e.request \in RequestIds /\ e.room \in opened[e.request]
      BY DEF RequestsInv, TypeOK, Job, DeletionsInv, JobsDeleteTheirOwnRoom
    <3>2. QED BY <3>1 DEF RequestsInv, OpenedInv
  <2>3. ASSUME NEW j \in jobs, j.room = r.id
        PROVE  (\E k \in jobs' : k.room = r.id) \/ q \in cut'
    <3>1. CASE j \in GivenUp
      BY <1>1, <2>2, <2>3, <3>1
    <3>2. CASE j \notin GivenUp
      BY <1>1, <2>3, <3>2, RevivedTyped DEF RequestsInv
    <3>3. QED BY <3>1, <3>2
  <2>4. ASSUME NEW e \in enqueuing, e.room = r.id
        PROVE  q \in cut'
    BY <1>1, <2>2, <2>4
  <2>5. QED BY <1>1, <2>1, <2>3, <2>4 DEF Expires
<1>12. QED BY <1>3, <1>6, <1>7, <1>8, <1>9, <1>10, <1>11 DEF RequestsInv
-----------------------------------------------------------------------------
LEMMA RequestsInvInit == Init => RequestsInv
<1> SUFFICES ASSUME Init PROVE RequestsInv
  OBVIOUS
<1>1. RoomsInv
  BY RoomsInvInit DEF Init
<1>2. TypeOK
  BY <1>1, NoAskIsAsk DEF Init, TypeOK, RoomsInv, FirstId, Ids, Fates
<1>3. AsksInv
  BY NoAskIsAsk, RequestsAssumption DEF Init, AsksInv, FirstId
<1>4. FatesInv /\ OpenedInv
  BY DEF Init, FatesInv, TableTellsFate, RequestExists, OpenedInv,
     OneRoomPerRequest, RequestIds, FirstId
<1>5. \A c \in Calls : calls[c].at = "idle" /\ calls[c].request = 0
  BY DEF Init, RoomsInit, Idle
<1>6. CallsInv /\ OneAcceptance
  BY <1>5 DEF CallsInv, Gateway, Acceptance, OneAcceptance, Accepting
<1>7. DeletionsInv /\ NoticeFollowsRoom /\ ExpiryInv
  BY DEF Init, RoomsInit, DeletionsInv, JobsDeleteTheirOwnRoom,
     NoticeFollowsRoom, ExpiryInv
<1>8. QED BY <1>1, <1>2, <1>3, <1>4, <1>6, <1>7 DEF RequestsInv

LEMMA RequestsInvStep == RequestsInv /\ [Next]_vars => RequestsInv'
<1> SUFFICES ASSUME RequestsInv, [Next]_vars PROVE RequestsInv'
  OBVIOUS
<1>1. ASSUME NEW c \in Calls, HandleMessage(c) \/ SendStep(c), UNCHANGED requestVars
      PROVE  RequestsInv'
  BY <1>1, SendStepStep
<1>2. ASSUME NEW r \in rooms, DeleteRoom(r), UNCHANGED requestVars
      PROVE  RequestsInv'
  BY <1>2, DeleteRoomStepKeeps
<1>3. ASSUME NEW a \in Asks, NewMessageRequest(a) \/ AskStep(a) PROVE RequestsInv'
  BY <1>3, NewMessageRequestKeeps, AskStepKeeps
<1>4. ASSUME NEW c \in Calls, AcceptRequest(c) \/ AcceptStep(c) PROVE RequestsInv'
  BY <1>4, AcceptRequestStep, AnswerRequestStep, OpenRoomStep, QueueDeletionStep,
     NotifyAcceptedStep DEF AcceptStep
<1>5. ASSUME NEW id \in RequestIds, RejectRequest(id) \/ RetrieveMessageRequest(id)
      PROVE  RequestsInv'
  BY <1>5, DeclineKeeps
<1>6. ASSUME NEW e \in enqueuing, JobQueued(e) PROVE RequestsInv'
  BY <1>6, JobQueuedKeeps
<1>7. ASSUME WorkerStep \/ \E j \in jobs : JobTimeout(j) PROVE RequestsInv'
  BY <1>7, WorkerKeeps
<1>8. CASE Restart
  BY <1>8, RestartStep
<1>9. CASE UNCHANGED vars
  <2>1. asks' \in [Asks -> Ask] /\ AsksInv' /\ notices' \in SUBSET Notice
    BY <1>9 DEF vars, requestVars, RequestsInv, TypeOK, AsksInv
  <2>2. QED BY <1>9, <2>1, AsksKeep DEF vars, requestVars
<1>10. QED BY <1>1, <1>2, <1>3, <1>4, <1>5, <1>6, <1>7, <1>8, <1>9 DEF Next

LEMMA RequestsInvImplies ==
  RequestsInv => /\ TypeOK /\ TableTellsFate /\ OneRoomPerRequest
                 /\ AcceptedRoomExpires /\ JobsDeleteTheirOwnRoom
                 /\ NoticeFollowsRoom /\ OneRoomPerAddress /\ NoOrphans
<1> SUFFICES ASSUME RequestsInv PROVE AcceptedRoomExpires
  BY DEF RequestsInv, RoomsInv, FatesInv, OpenedInv, DeletionsInv
<1> SUFFICES ASSUME NEW q \in RequestIds, NEW id \in opened[q], RoomExists(id),
                    \E m \in messages : m.room = id
             PROVE  Expires(q, id)
  BY DEF AcceptedRoomExpires, Expires, Saved
<1>1. PICK r \in rooms : r.id = id
  BY DEF RoomExists
<1>2. ~Secret(r)
  BY <1>1 DEF Secret
<1>3. QED BY <1>1, <1>2 DEF RequestsInv, ExpiryInv
-----------------------------------------------------------------------------
(* Rooms, requests, calls and jobs keep their types through calls, jobs    *)
(* and restarts.                                                           *)
THEOREM TypeCorrect == Spec => []TypeOK
BY RequestsInvInit, RequestsInvStep, RequestsInvImplies, PTL DEF Spec

(* The table holds the undecided requests and no others, and a request is  *)
(* given one room, after it was accepted, though answerRequest and         *)
(* rejectRequest race for its row (chat.service.ts:177-228, 347-359).      *)
THEOREM RequestsSafe == Spec => [](TableTellsFate /\ OneRoomPerRequest)
BY RequestsInvInit, RequestsInvStep, RequestsInvImplies, PTL DEF Spec

(* The room of an accepted request, once the greeting is in it, is going   *)
(* to be deleted, unless a restart came at the wrong time, and its job     *)
(* deletes no other room (chat.service.ts:30-46, 189-200,                  *)
(* deleteOudatedMessages.queue.ts:6-19).                                   *)
THEOREM ExpirySafe == Spec => [](AcceptedRoomExpires /\ JobsDeleteTheirOwnRoom)
BY RequestsInvInit, RequestsInvStep, RequestsInvImplies, PTL DEF Spec

(* Nobody is notified of an acceptance before the room is there            *)
(* (chat.resolver.ts:133-152).                                             *)
THEOREM NoticesSafe == Spec => []NoticeFollowsRoom
BY RequestsInvInit, RequestsInvStep, RequestsInvImplies, PTL DEF Spec

(* The rooms stay as they should when acceptRequest uses saveMessage, and  *)
(* the worker deletes rooms, next to the gateway and the clients.          *)
THEOREM TablesStaySafe == Spec => [](OneRoomPerAddress /\ NoOrphans)
BY RequestsInvInit, RequestsInvStep, RequestsInvImplies, PTL DEF Spec
-----------------------------------------------------------------------------
(* Steps of the life of a request. *)
LEMMA StepIsLifecycle ==
  RequestsInv /\ [Next]_vars => [RL!Next]_(RL!vars)
<1> SUFFICES ASSUME RequestsInv, [Next]_vars,
                    ~UNCHANGED <<fate, opened>>
             PROVE  RL!Next
  BY DEF RL!vars
<1>1. ASSUME NEW a \in Asks, CreateNewMessageRequest(a) PROVE RL!Next
  <2>1. /\ nextRequest <= MaxRequests /\ UNCHANGED opened
        /\ fate' = [fate EXCEPT ![nextRequest] = "pending"]
    BY <1>1 DEF CreateNewMessageRequest
  <2>2. nextRequest \in RequestIds /\ nextRequest \in Nat
    BY <2>1, RequestsAssumption DEF RequestsInv, TypeOK, RequestIds, Ids
  <2>3. fate[nextRequest] = "none"
    BY <2>2 DEF RequestsInv, FatesInv
  <2>4. RL!Make(nextRequest)
    BY <2>1, <2>3 DEF RL!Make
  <2>5. QED BY <2>2, <2>4 DEF RL!Next
<1>2. ASSUME NEW id, NEW decision \in RL!Decisions, RemoveRequest(id, decision),
             UNCHANGED opened
      PROVE  RL!Next
  <2>1. decision \in Fates \ {"none", "pending"}
    BY DEF RL!Decisions, Fates
  <2>2. id \in RequestIds /\ fate[id] = "pending"
    BY <1>2, <2>1, RemoveRequestEffect
  <2>3. RL!Decide(id, decision)
    BY <1>2, <2>2 DEF RemoveRequest, RL!Decide
  <2>4. QED BY <2>2, <2>3 DEF RL!Next
<1>3. ASSUME NEW c \in Calls, OpenRoom(c) PROVE RL!Next
  <2> DEFINE id == calls[c].request
  <2>1. id \in RequestIds /\ fate[id] = "accepted" /\ opened[id] = {}
    BY <1>3, CallIsRecord DEF OpenRoom, Gateway, Acceptance
  <2>2. opened' = [opened EXCEPT ![id] = {nextRoom}] /\ UNCHANGED fate
    BY <1>3, <2>1 DEF OpenRoom
  <2>3. opened'[id] = {nextRoom}
    BY <2>1, <2>2 DEF RequestsInv, TypeOK
  <2>4. RL!Open(id)
    BY <2>1, <2>2, <2>3 DEF RL!Open
  <2>5. QED BY <2>1, <2>4 DEF RL!Next
<1>4. ASSUME NEW a \in Asks, NewMessageRequest(a) \/ AskStep(a) PROVE RL!Next
  BY <1>1, <1>4 DEF NewMessageRequest, AskStep, CheckStars, CheckForRequest,
     NotifyRequest
<1>5. ASSUME NEW c \in Calls, AcceptRequest(c) \/ AcceptStep(c) PROVE RL!Next
  <2>1. ASSUME AnswerRequest(c) PROVE RL!Next
    BY <1>2, <2>1 DEF AnswerRequest, RL!Decisions
  <2>2. QED BY <1>3, <1>5, <2>1 DEF AcceptRequest, AcceptStep, QueueDeletion,
            NotifyAccepted, requestVars
<1>6. ASSUME NEW id \in RequestIds, RejectRequest(id) \/ RetrieveMessageRequest(id)
      PROVE  RL!Next
  BY <1>2, <1>6 DEF RejectRequest, RetrieveMessageRequest, RL!Decisions
<1>7. ~WorkerStep /\ ~Restart /\ ~UNCHANGED vars /\ ~UNCHANGED requestVars
      /\ ~(\E j \in jobs : JobTimeout(j)) /\ ~(\E e \in enqueuing : JobQueued(e))
  BY DEF WorkerStep, TakeJob, DeleteOutdated, JobDone, JobTimeout, JobQueued,
     Restart, vars, requestVars
<1>8. QED BY <1>4, <1>5, <1>6, <1>7 DEF Next

(* The calls, statement by statement and cut by restarts, are what the two *)
(* users see: a request is made, decided once, and opened at most once     *)
(* (createNewMessageRequest, answerRequest, rejectRequest and              *)
(* retrieveMessageRequest, chat.service.ts:177-228, 347-359).              *)
THEOREM LifecycleRefinement == Spec => ImplementsLifecycle
<1>1. Init => RL!Init
  BY DEF Init, RL!Init
<1>2. QED BY <1>1, RequestsInvInit, RequestsInvStep, StepIsLifecycle, PTL
          DEF Spec, ImplementsLifecycle, RL!Spec
=============================================================================
