--------------------------- MODULE MessageRequests --------------------------
(***************************************************************************)
(* Message requests and the rooms they open: the mutations of              *)
(* src/chat/chat.resolver.ts with answerRequest(), rejectRequest(),        *)
(* retrieveMessageRequest() and createNewMessageRequest() of               *)
(* src/chat/chat.service.ts, and the queue whose worker                    *)
(* src/chat/deleteOudatedMessages.queue.ts deletes a room a day later.     *)
(* It adds them to the rooms and messages of ChatRooms: answerRequest()    *)
(* goes through saveMessage() like the gateway does.                       *)
(*                                                                         *)
(* Nothing here runs in a transaction: a restart may cut a call between    *)
(* any two of its statements.  Postgres and the Redis of the queue persist.*)
(***************************************************************************)
EXTENDS ChatRooms

CONSTANTS Users,         \* the users
          Starred,       \* those whose star count is positive
          Asks,          \* newMessageRequest calls running at a time
          MaxRequests,   \* bound: how many requests are ever made
          Attempts,      \* attempts of a job, 3 in app.module.ts
          MaxStalled     \* how often a job may stall, 1 by Bull's default

ASSUME UsersAssumption == Users # {} /\ Starred \subseteq Users
ASSUME RequestsAssumption == MaxRequests \in Nat
ASSUME AttemptsAssumption == Attempts \in Nat \ {0} /\ MaxStalled \in Nat

VARIABLES requests,      \* table MessageRequest
          nextRequest,   \* the sequence behind MessageRequest.id
          asks,          \* the newMessageRequest calls in flight
          enqueuing,     \* queue.add calls that nobody awaits
          jobs,          \* the queue deleteOutdatedMessages
          notices,       \* notifications handed to their queue
          fate,          \* history: what became of each request
          opened,        \* history: the rooms opened for each request
          cut            \* history: requests whose acceptance, or whose
                         \* room's deletion, was lost to restarts

requestVars == <<requests, nextRequest, asks, enqueuing, jobs, notices, fate,
                 opened, cut>>
vars == <<roomVars, requestVars>>

RequestIds == 1 .. MaxRequests
Request == [id: RequestIds, from: Users, to: Users]
Ask == [at: {"idle", "stars", "check", "create", "notify"},
        from: Users, to: Users, request: Nat]
Job == [room: Ids, request: RequestIds, left: 1 .. Attempts,
        stalls: 0 .. MaxStalled, at: {"waiting", "active", "deleted"}]
Notice == [kind: {"sended", "accepted"}, request: RequestIds]
Fates == {"none", "pending", "accepted", "rejected", "retrieved"}

TypeOK == /\ RoomsTypeOK
          /\ requests \in SUBSET Request
          /\ nextRequest \in Ids
          /\ asks \in [Asks -> Ask]
          /\ enqueuing \in SUBSET [room: Ids, request: RequestIds]
          /\ jobs \in SUBSET Job
          /\ notices \in SUBSET Notice
          /\ fate \in [RequestIds -> Fates]
          /\ opened \in [RequestIds -> SUBSET Ids]
          /\ cut \in SUBSET RequestIds

NoAsk == [at |-> "idle", from |-> CHOOSE u \in Users : TRUE,
          to |-> CHOOSE u \in Users : TRUE, request |-> 0]

Init == /\ RoomsInit
        /\ requests = {}
        /\ nextRequest = FirstId
        /\ asks = [a \in Asks |-> NoAsk]
        /\ enqueuing = {}
        /\ jobs = {}
        /\ notices = {}
        /\ fate = [q \in RequestIds |-> "none"]
        /\ opened = [q \in RequestIds |-> {}]
        /\ cut = {}

Asking == {a \in Asks : asks[a].at # "idle"}
RequestExists(id) == \E q \in requests : q.id = id
-----------------------------------------------------------------------------
(* newMessageRequest: the checks, each an await of its own. *)
NewMessageRequest(a) ==
  /\ asks[a].at = "idle"
  /\ \E from, to \in Users :
       asks' = [asks EXCEPT ![a] = [at |-> "stars", from |-> from, to |-> to,
                                    request |-> 0]]
  /\ UNCHANGED <<roomVars, requests, nextRequest, enqueuing, jobs, notices,
                 fate, opened, cut>>

(* userStars: NOT_ENOUGH_STARS is thrown to a user without stars. *)
CheckStars(a) ==
  /\ asks[a].at = "stars"
  /\ \/ asks[a].from \in Starred /\ asks' = [asks EXCEPT ![a].at = "check"]
     \/ asks[a].from \notin Starred /\ asks' = [asks EXCEPT ![a] = NoAsk]
  /\ UNCHANGED <<roomVars, requests, nextRequest, enqueuing, jobs, notices,
                 fate, opened, cut>>

SameRequest(q, a) == q.from = asks[a].from /\ q.to = asks[a].to

(* checkForRequest: REQUEST_ALREADY_EXISTS is thrown. *)
CheckForRequest(a) ==
  /\ asks[a].at = "check"
  /\ \/ /\ \E q \in requests : SameRequest(q, a)
        /\ asks' = [asks EXCEPT ![a] = NoAsk]
     \/ /\ \A q \in requests : ~SameRequest(q, a)
        /\ asks' = [asks EXCEPT ![a].at = "create"]
  /\ UNCHANGED <<roomVars, requests, nextRequest, enqueuing, jobs, notices,
                 fate, opened, cut>>

(* createNewMessageRequest, a statement after the checks; it is refused    *)
(* when toUserId, the client's and unchecked, names no user.               *)
CreateNewMessageRequest(a) ==
  /\ asks[a].at = "create"
  /\ \/ /\ nextRequest <= MaxRequests
        /\ requests' = requests \cup {[id |-> nextRequest,
                                       from |-> asks[a].from, to |-> asks[a].to]}
        /\ fate' = [fate EXCEPT ![nextRequest] = "pending"]
        /\ nextRequest' = nextRequest + 1
        /\ asks' = [asks EXCEPT ![a] = [@ EXCEPT !.at = "notify",
                                                !.request = nextRequest]]
     \/ /\ asks' = [asks EXCEPT ![a] = NoAsk]
        /\ UNCHANGED <<requests, nextRequest, fate>>
  /\ UNCHANGED <<roomVars, enqueuing, jobs, notices, opened, cut>>

NotifyRequest(a) ==
  /\ asks[a].at = "notify"
  /\ notices' = notices \cup {[kind |-> "sended", request |-> asks[a].request]}
  /\ asks' = [asks EXCEPT ![a] = NoAsk]
  /\ UNCHANGED <<roomVars, requests, nextRequest, enqueuing, jobs, fate,
                 opened, cut>>
-----------------------------------------------------------------------------
(* OneRoomPerRequest, ImplementsLifecycle: deleteMany, which does not      *)
(* mind a missing row.                                                     *)
WrongRemoveRequest(id, decision) ==
  /\ requests' = {q \in requests : q.id # id}
  /\ fate' = [fate EXCEPT ![id] = decision]

(* messageRequest.delete: Prisma throws when there is no such row.         *)
RemoveRequest(id, decision) ==
  /\ RequestExists(id)
  /\ requests' = {q \in requests : q.id # id}
  /\ fate' = [fate EXCEPT ![id] = decision]

(* acceptRequest, of a request that a client has seen at some time. *)
AcceptRequest(c) ==
  /\ MayStart(c)
  /\ \E id \in 1 .. (nextRequest - 1) :
       calls' = [calls EXCEPT ![c] = [Idle EXCEPT !.at = "delete",
                                                  !.request = id]]
  /\ UNCHANGED <<rooms, messages, known, nextRoom, nextMessage, broadcast,
                 requestVars>>

(* answerRequest: the request is deleted, or was gone and the call fails.  *)
AnswerRequest(c) ==
  /\ calls[c].at = "delete"
  /\ \/ /\ RemoveRequest(calls[c].request, "accepted")
        /\ calls' = [calls EXCEPT ![c].at = "open"]
     \/ /\ ~RequestExists(calls[c].request)
        /\ Fail(c)
        /\ UNCHANGED <<requests, fate>>
  /\ UNCHANGED <<rooms, messages, known, nextRoom, nextMessage, broadcast,
                 nextRequest, asks, enqueuing, jobs, notices, opened, cut>>

(* answerRequest: a room with a random address, which no client holds and  *)
(* no room ever had; then saveMessage writes the greeting to that address. *)
OpenRoom(c) ==
  /\ calls[c].at = "open"
  /\ \E address \in Addresses \ known :
       /\ InsertRoom(address)
       /\ calls' = [calls EXCEPT ![c] = [@ EXCEPT !.at = "find",
                                                   !.address = address,
                                                   !.opens = nextRoom]]
  /\ opened' = [opened EXCEPT ![calls[c].request] = @ \cup {nextRoom}]
  /\ UNCHANGED <<messages, known, nextMessage, broadcast, requests,
                 nextRequest, asks, enqueuing, jobs, notices, fate, cut>>

(* What addQueue(room.id) is asked to delete: the room that saveRoom made, *)
(* wherever saveMessage has put the greeting since.                        *)
DeletionOf(c) == [room |-> calls[c].opens, request |-> calls[c].request]

(* answerRequest, once the greeting is saved: the deletion of the room is  *)
(* being queued (addQueue is not awaited), the acceptance published.       *)
QueueDeletion(c) ==
  /\ calls[c].at = "saved"
  /\ calls[c].request # 0
  /\ enqueuing' = enqueuing \cup {DeletionOf(c)}
  /\ calls' = [calls EXCEPT ![c].at = "notify"]
  /\ UNCHANGED <<rooms, messages, known, nextRoom, nextMessage, broadcast,
                 requests, nextRequest, asks, jobs, notices, fate, opened, cut>>

(* AcceptedGetsRoom: acceptRequest goes on, and ends, when the request is  *)
(* deleted and before its room is there.                                   *)
WrongNotifyAccepted(c) ==
  /\ calls[c].at \in {"open", "notify"}
  /\ notices' = notices \cup {[kind |-> "accepted", request |-> calls[c].request]}
  /\ calls' = [calls EXCEPT ![c] = Idle]
  /\ UNCHANGED <<rooms, messages, known, nextRoom, nextMessage, broadcast,
                 requests, nextRequest, asks, enqueuing, jobs, fate, opened,
                 cut>>

(* acceptRequest hands the notification to its queue and returns. *)
NotifyAccepted(c) ==
  /\ calls[c].at = "notify"
  /\ notices' = notices \cup {[kind |-> "accepted", request |-> calls[c].request]}
  /\ calls' = [calls EXCEPT ![c] = Idle]
  /\ UNCHANGED <<rooms, messages, known, nextRoom, nextMessage, broadcast,
                 requests, nextRequest, asks, enqueuing, jobs, fate, opened,
                 cut>>

(* rejectRequest and retrieveMessageRequest; on a missing row they throw.  *)
RejectRequest(id) ==
  /\ RemoveRequest(id, "rejected")
  /\ UNCHANGED <<roomVars, nextRequest, asks, enqueuing, jobs, notices, opened,
                 cut>>

RetrieveMessageRequest(id) ==
  /\ RemoveRequest(id, "retrieved")
  /\ UNCHANGED <<roomVars, nextRequest, asks, enqueuing, jobs, notices, opened,
                 cut>>
-----------------------------------------------------------------------------
(* TypeOK: the first attempt is not counted. *)
WrongNewJob(e) == [room |-> e.room, request |-> e.request,
                   left |-> Attempts + 1, stalls |-> 0, at |-> "waiting"]

(* A delayed job with the default options of the queue. *)
NewJob(e) == [room |-> e.room, request |-> e.request,
              left |-> Attempts, stalls |-> 0, at |-> "waiting"]

(* The queue.add of addQueue reaches Redis. *)
JobQueued(e) ==
  /\ e \in enqueuing
  /\ enqueuing' = enqueuing \ {e}
  /\ jobs' = jobs \cup {NewJob(e)}
  /\ UNCHANGED <<roomVars, requests, nextRequest, asks, notices, fate, opened,
                 cut>>

(* The worker takes one job at a time, a day after it was queued. *)
TakeJob(j) ==
  /\ \A k \in jobs : k.at = "waiting"
  /\ jobs' = (jobs \ {j}) \cup {[j EXCEPT !.at = "active"]}
  /\ UNCHANGED <<roomVars, requests, nextRequest, asks, enqueuing, notices,
                 fate, opened, cut>>

(* An attempt is over and has failed: another one, or none was left and    *)
(* the job is removed (removeOnFail).                                      *)
FailAttempt(j) ==
  jobs' = (jobs \ {j}) \cup {k \in {[j EXCEPT !.at = "waiting", !.left = @ - 1]} :
                              j.left > 1}

(* AcceptedRoomExpires: the worker calls back without waiting for the      *)
(* deletion, which prisma then never sends.                                *)
WrongDeleteOutdated(j) ==
  /\ j.at = "active"
  /\ jobs' = (jobs \ {j}) \cup {[j EXCEPT !.at = "deleted"]}
  /\ UNCHANGED <<roomVars, requests, nextRequest, asks, enqueuing, notices,
                 fate, opened, cut>>

(* The worker deletes the room; when there is none, prisma throws.         *)
DeleteOutdated(j) ==
  /\ j.at = "active"
  /\ \/ /\ RoomExists(j.room)
        /\ DropRoom(j.room)
        /\ jobs' = (jobs \ {j}) \cup {[j EXCEPT !.at = "deleted"]}
     \/ /\ ~RoomExists(j.room)
        /\ FailAttempt(j)
        /\ UNCHANGED <<rooms, messages>>
  /\ UNCHANGED <<calls, known, nextRoom, nextMessage, broadcast, requests,
                 nextRequest, asks, enqueuing, notices, fate, opened, cut>>

(* cb(null, true): Bull removes the job (removeOnComplete). *)
JobDone(j) ==
  /\ j.at = "deleted"
  /\ jobs' = jobs \ {j}
  /\ UNCHANGED <<roomVars, requests, nextRequest, asks, enqueuing, notices,
                 fate, opened, cut>>

(* The room is deleted, but the worker does not disconnect in the five     *)
(* seconds of the job's timeout: the attempt has failed for Bull.          *)
JobTimeout(j) ==
  /\ j.at = "deleted"
  /\ FailAttempt(j)
  /\ UNCHANGED <<roomVars, requests, nextRequest, asks, enqueuing, notices,
                 fate, opened, cut>>

(* Bull on a job whose worker died: it waits again, unless it has stalled  *)
(* too often, when it is given up.                                         *)
Stalled(j) == j.at # "waiting"
GivenUp == {j \in jobs : Stalled(j) /\ j.stalls = MaxStalled}
Revived(j) == IF Stalled(j) THEN [j EXCEPT !.at = "waiting", !.stalls = @ + 1]
                            ELSE j

(* Acceptances that stop with no room, or with a room in use and before its*)
(* deletion is queued.                                                     *)
CutAccepts ==
  {calls[c].request :
     c \in {d \in Calls : /\ calls[d].request # 0
                          /\ calls[d].at \in {"open", "saved"}}}

(* The server stops: the calls and the queue.add in flight are lost.       *)
Restart ==
  /\ Sending # {} \/ Asking # {} \/ enqueuing # {} \/ \E j \in jobs : Stalled(j)
  /\ CutCalls
  /\ asks' = [a \in Asks |-> NoAsk]
  /\ enqueuing' = {}
  /\ jobs' = {Revived(j) : j \in jobs \ GivenUp}
  /\ cut' = cut \cup {j.request : j \in enqueuing \cup GivenUp} \cup CutAccepts
  /\ UNCHANGED <<rooms, messages, known, nextRoom, nextMessage, broadcast,
                 requests, nextRequest, notices, fate, opened>>
-----------------------------------------------------------------------------
AskStep(a) == \/ CheckStars(a) \/ CheckForRequest(a)
              \/ CreateNewMessageRequest(a) \/ NotifyRequest(a)

AcceptStep(c) == \/ AnswerRequest(c) \/ OpenRoom(c)
                 \/ QueueDeletion(c) \/ NotifyAccepted(c)

WorkerStep == \E j \in jobs : TakeJob(j) \/ DeleteOutdated(j) \/ JobDone(j)

Next == \/ /\ \/ \E c \in Calls : HandleMessage(c) \/ SendStep(c)
              \/ \E r \in rooms : DeleteRoom(r)
           /\ UNCHANGED requestVars
        \/ \E a \in Asks : NewMessageRequest(a) \/ AskStep(a)
        \/ \E c \in Calls : AcceptRequest(c) \/ AcceptStep(c)
        \/ \E id \in RequestIds : RejectRequest(id) \/ RetrieveMessageRequest(id)
        \/ \E e \in enqueuing : JobQueued(e)
        \/ WorkerStep
        \/ \E j \in jobs : JobTimeout(j)
        \/ Restart

Spec == Init /\ [][Next]_vars

(* Postgres and Redis answer, the event loop resumes every call, and the   *)
(* worker keeps taking jobs.                                               *)
Fairness == /\ \A c \in Calls : WF_vars(SendStep(c) /\ UNCHANGED requestVars)
            /\ \A c \in Calls : WF_vars(AcceptStep(c))
            /\ \A a \in Asks : WF_vars(AskStep(a))
            /\ WF_vars(\E e \in enqueuing : JobQueued(e))
            /\ WF_vars(WorkerStep)

FairSpec == Spec /\ Fairness
-----------------------------------------------------------------------------
(* A request is in the table until it is decided, and it is decided once:  *)
(* accepted, rejected and retrieved at the same time, one of them wins     *)
(* (chat.service.ts:182, 214, 348).                                        *)
TableTellsFate ==
  \A id \in RequestIds : RequestExists(id) <=> fate[id] = "pending"

(* Two users get one room for a request, and only for an accepted one,     *)
(* however often acceptRequest is sent (chat.service.ts:177-212).          *)
OneRoomPerRequest ==
  \A id \in RequestIds : /\ opened[id] # {} => fate[id] = "accepted"
                         /\ \A r, q \in opened[id] : r = q

(* The room of an accepted request that its users can use, for a message   *)
(* is in it, is deleted some day: its deletion is queued, or about to be,  *)
(* or restarts have cut the acceptance or the job.  Also when clients have *)
(* deleted the room and written to its address again while it was being    *)
(* opened (chat.service.ts:189-200, deleteOudatedMessages.queue.ts:10-14). *)
AcceptedRoomExpires ==
  \A id \in RequestIds : \A r \in opened[id] :
    RoomExists(r) /\ (\E m \in messages : m.room = r) =>
      \/ \E c \in Calls : calls[c].request = id /\ calls[c].at = "saved"
      \/ \E e \in enqueuing : e.room = r
      \/ \E j \in jobs : j.room = r
      \/ id \in cut

(* A job deletes no room but the one opened for its request, also when the *)
(* address is in use again (chat.service.ts:37-46).                        *)
JobsDeleteTheirOwnRoom == \A j \in jobs : j.room \in opened[j.request]

(* Who is notified of an acceptance finds the room, unless it was deleted  *)
(* since: there never was an acceptance without one (chat.resolver.ts:141).*)
NoticeFollowsRoom ==
  \A n \in notices : n.kind = "accepted" => opened[n.request] # {}

(* Liveness: an accepted request gets its room, or a restart came between. *)
AcceptedGetsRoom ==
  \A id \in RequestIds :
    fate[id] = "accepted" ~> (opened[id] # {} \/ id \in cut)

(* Liveness: a room whose deletion is queued is gone at last, unless two   *)
(* restarts hit the worker of its job (deleteOudatedMessages.queue.ts).    *)
QueuedRoomGoes ==
  \A id \in RequestIds :
    (\E j \in jobs : j.request = id)
      ~> \/ \A r \in opened[id] : ~RoomExists(r)
         \/ id \in cut

(* What REQUEST_ALREADY_EXISTS says (chat.resolver.ts:98-106): there is no *)
(* second open request between the same two users.                         *)
OneOpenRequest ==
  \A p, q \in requests : p.from = q.from /\ p.to = q.to => p = q
-----------------------------------------------------------------------------
(* The detailed calls implement the life of a request as its users see it. *)
RL == INSTANCE RequestLifecycle WITH Requests <- RequestIds

ImplementsLifecycle == RL!Spec
=============================================================================
