------------------------- MODULE NotificationQueue --------------------------
(***************************************************************************)
(* Notifications: the queue whose worker is sendNotification() of          *)
(* src/notification/providers/Notification.consumer.ts, and the calls of   *)
(* src/notification/notification.service.ts beside it: settings, device    *)
(* tokens, and marking as read.                                            *)
(*                                                                         *)
(* The worker is an async function that is also given a callback: Bull     *)
(* waits for the callback only, so when the function throws, the job stays *)
(* active, and since the queue runs one job at a time and its options have *)
(* no timeout, nothing else runs until the server is started anew.         *)
(*                                                                         *)
(* Texts, link data and the entities that a notification is about are left *)
(* out.                                                                    *)
(***************************************************************************)
EXTENDS Integers, FiniteSets

CONSTANTS Users,        \* the users
          Registered,   \* those with a row of NotificationSettings
          Kinds,        \* the entity types that are notified of
          Settings,     \* bound: the settings that users choose between
          Senders,      \* bound: those whose doings are notified of
          Owners,       \* bound: those with a device, or several
          Saves,        \* saveUserFcmToken calls running at a time
          MaxJobs,      \* bound: how many notifications are ever queued
          MaxTokens,    \* bound: how many device tokens there are
          MaxStalled    \* how often a job may stall, 1 by Bull's default

EntityTypes == {"follower", "post", "user", "comment"}
Flags == {"follower", "comments", "messageRequest", "disableAll"}

ASSUME NotifiedAssumption == /\ Registered \subseteq Users /\ Users # {}
                             /\ Senders \subseteq Users /\ Owners \subseteq Users
                             /\ Kinds \subseteq EntityTypes /\ Kinds # {}
ASSUME SettingsAssumption == Settings \subseteq SUBSET Flags
ASSUME QueueAssumption == MaxJobs \in Nat /\ MaxTokens \in Nat /\ MaxStalled \in Nat

VARIABLES settings,        \* table NotificationSettings: the flags that are set
          tokens,          \* table FcmNotificationTokens, 0 for no row
          saves,           \* the saveUserFcmToken calls in flight
          jobs,            \* the queue
          notifications,   \* table Notification
          nextRow,         \* the sequence behind Notification.id
          steady,          \* history: the flags set ever since a job was taken
          held             \* history: the tokens its receiver had since then

history == <<steady, held>>
vars == <<settings, tokens, saves, jobs, notifications, nextRow, history>>

JobIds == 1 .. MaxJobs
Save == [at: {"idle", "create", "update"}, user: Users, token: Nat]
Active == {"settings", "token", "store", "push", "pushed", "threw"}
Over == {"completed", "failed"}
Job == [at: {"none", "waiting"} \cup Active \cup Over,
        kind: Kinds, from: Users, to: Users,
        device: Nat, left: Nat, stalls: 0 .. MaxStalled]
Row == [id: Nat, job: JobIds, readed: BOOLEAN]

TypeOK == /\ settings \in [Users -> SUBSET Flags]
          /\ tokens \in [Users -> Nat]
          /\ saves \in [Saves -> Save]
          /\ jobs \in [JobIds -> Job]
          /\ notifications \in SUBSET Row
          /\ nextRow \in Nat
          /\ steady \in [JobIds -> SUBSET Flags]
          /\ held \in [JobIds -> SUBSET Nat]

(* RowsCountStarts: the options of app.module.ts instead of those of the   *)
(* queue itself.                                                           *)
WrongAttempts == 3

(* The queue has options of its own, which replace those of app.module.ts. *)
Attempts == 1

SomeUser == CHOOSE u \in Users : TRUE
NoSave == [at |-> "idle", user |-> SomeUser, token |-> 0]
NoJob == [at |-> "none", kind |-> CHOOSE k \in Kinds : TRUE, from |-> SomeUser,
          to |-> SomeUser, device |-> 0, left |-> Attempts, stalls |-> 0]

Init == /\ settings = [u \in Users |-> {}]
        /\ tokens = [u \in Users |-> 0]
        /\ saves = [s \in Saves |-> NoSave]
        /\ jobs = [j \in JobIds |-> NoJob]
        /\ notifications = {}
        /\ nextRow = 1
        /\ steady = [j \in JobIds |-> {}]
        /\ held = [j \in JobIds |-> {}]

Blocked == \E j \in JobIds : jobs[j].at = "threw"
-----------------------------------------------------------------------------
(* Which settings speak about an entity type; none does about comments on  *)
(* comments.                                                               *)
FlagOf == [follower |-> {"follower"}, post |-> {"comments"},
           user |-> {"messageRequest"}, comment |-> {}]

(* The switch has no breaks: what is asked of an entity type is asked of   *)
(* those after it, too.                                                    *)
Asked == [follower |-> {"follower", "comments", "messageRequest"},
          post |-> {"comments", "messageRequest"},
          user |-> {"messageRequest"},
          comment |-> {}]

(* RefusedKindStaysOut: the switch asks for disableAll only.               *)
WrongIsUserDisabledNotification(u, kind) ==
  kind # "comment" /\ "disableAll" \notin settings[u]

(* Each case returns true also when disableAll is not set. *)
IsUserDisabledNotification(u, kind) ==
  /\ Asked[kind] # {}
  /\ "disableAll" \notin settings[u] \/ Asked[kind] \cap settings[u] # {}
-----------------------------------------------------------------------------
(* notification.add: followUser, newMessageRequest, acceptRequest. *)
Add(j) ==
  /\ jobs[j].at = "none"
  /\ \A i \in 1 .. (j - 1) : jobs[i].at # "none"
  /\ \E from \in Senders, to \in Users, kind \in Kinds :
       jobs' = [jobs EXCEPT ![j] = [NoJob EXCEPT !.at = "waiting", !.kind = kind,
                                                 !.from = from, !.to = to]]
  /\ UNCHANGED <<settings, tokens, saves, notifications, nextRow, history>>

(* One job at a time, and not in the order of their arrival (lifo).  The   *)
(* histories are those of the job at work.                                 *)
TakeJob(j) ==
  /\ jobs[j].at = "waiting"
  /\ \A i \in JobIds : jobs[i].at \notin Active
  /\ jobs' = [jobs EXCEPT ![j].at = "settings"]
  /\ steady' = [i \in JobIds |-> IF i = j THEN settings[jobs[j].to] ELSE {}]
  /\ held' = [i \in JobIds |-> IF i = j THEN {tokens[jobs[j].to]} ELSE {}]
  /\ UNCHANGED <<settings, tokens, saves, notifications, nextRow>>

(* EveryJobSettles: when the notification is disabled the function returns *)
(* without calling back.                                                   *)
WrongReadSettings(j) ==
  /\ jobs[j].at = "settings"
  /\ \/ /\ jobs[j].to \notin Registered
        /\ jobs' = [jobs EXCEPT ![j].at = "threw"]
     \/ /\ jobs[j].to \in Registered
        /\ ~IsUserDisabledNotification(jobs[j].to, jobs[j].kind)
        /\ jobs' = [jobs EXCEPT ![j].at = "token"]
  /\ UNCHANGED <<settings, tokens, saves, notifications, nextRow, history>>

(* isUserDisabledNotification: without a row of settings it throws, since  *)
(* the switch reads a field of null.                                       *)
ReadSettings(j) ==
  /\ jobs[j].at = "settings"
  /\ \/ /\ jobs[j].to \notin Registered
        /\ jobs[j].kind # "comment"
        /\ jobs' = [jobs EXCEPT ![j].at = "threw"]
     \/ /\ jobs[j].to \in Registered
        /\ IsUserDisabledNotification(jobs[j].to, jobs[j].kind)
        /\ jobs' = [jobs EXCEPT ![j].at = "completed"]
     \/ /\ jobs[j].to \in Registered \/ jobs[j].kind = "comment"
        /\ ~IsUserDisabledNotification(jobs[j].to, jobs[j].kind)
        /\ jobs' = [jobs EXCEPT ![j].at = "token"]
  /\ UNCHANGED <<settings, tokens, saves, notifications, nextRow, history>>

(* PushGoesToHisDevice: fromUser.id, which is what the row has as userId.  *)
WrongReadToken(j) ==
  /\ jobs[j].at = "token"
  /\ jobs' = [jobs EXCEPT ![j] = [@ EXCEPT !.at = "store",
                                         !.device = tokens[jobs[j].from]]]
  /\ UNCHANGED <<settings, tokens, saves, notifications, nextRow, history>>

(* fcmNotificationTokens.findFirst: the token is read before the row is    *)
(* stored and used after it.                                               *)
ReadToken(j) ==
  /\ jobs[j].at = "token"
  /\ jobs' = [jobs EXCEPT ![j] = [@ EXCEPT !.at = "store",
                                         !.device = tokens[jobs[j].to]]]
  /\ UNCHANGED <<settings, tokens, saves, notifications, nextRow, history>>

SaveNotificationToDatabase(j) ==
  /\ jobs[j].at = "store"
  /\ notifications' = notifications \cup {[id |-> nextRow, job |-> j,
                                           readed |-> FALSE]}
  /\ nextRow' = nextRow + 1
  /\ jobs' = [jobs EXCEPT ![j].at = "push"]
  /\ UNCHANGED <<settings, tokens, saves, history>>

(* cb with an error: the attempt has failed, for good if it was the last.  *)
CallBackError(j) ==
  jobs' = [jobs EXCEPT ![j] =
            [@ EXCEPT !.at = IF jobs[j].left > 1 THEN "waiting" ELSE "failed",
                      !.left = jobs[j].left - 1, !.device = 0]]

(* sendToDevice reaches the device, or no device, or rejects; a user       *)
(* without a token is an error as well.                                    *)
SendToDevice(j) ==
  /\ jobs[j].at = "push"
  /\ \/ /\ jobs[j].device # 0
        /\ jobs' = [jobs EXCEPT ![j].at = "pushed"]
     \/ CallBackError(j)
     \/ /\ jobs[j].device # 0
        /\ jobs' = [jobs EXCEPT ![j].at = "threw"]
  /\ UNCHANGED <<settings, tokens, saves, notifications, nextRow, history>>

(* cb(null, true) reaches Redis. *)
CallBack(j) ==
  /\ jobs[j].at = "pushed"
  /\ jobs' = [jobs EXCEPT ![j] = [@ EXCEPT !.at = "completed", !.device = 0]]
  /\ UNCHANGED <<settings, tokens, saves, notifications, nextRow, history>>
-----------------------------------------------------------------------------
(* editNotificationSettings: one statement, which throws without a row.    *)
EditNotificationSettings(u) ==
  /\ u \in Registered
  /\ \E flags \in Settings :
       /\ settings' = [settings EXCEPT ![u] = flags]
       /\ steady' = [j \in JobIds |-> IF jobs[j].to = u THEN steady[j] \cap flags
                                                        ELSE steady[j]]
  /\ UNCHANGED <<tokens, saves, jobs, notifications, nextRow, held>>

(* saveFcmToken looks for a row of the user ...                            *)
SaveFcmToken(s) ==
  /\ saves[s].at = "idle"
  /\ \E u \in Owners, token \in 1 .. MaxTokens :
       saves' = [saves EXCEPT ![s] =
                  [at |-> IF tokens[u] = 0 THEN "create" ELSE "update",
                   user |-> u, token |-> token]]
  /\ UNCHANGED <<settings, tokens, jobs, notifications, nextRow, history>>

(* The jobs at work for user u: the token is his from now on.              *)
NowHeld(u, token) ==
  [j \in JobIds |-> IF jobs[j].at \in Active /\ jobs[j].to = u
                    THEN held[j] \cup {token} ELSE held[j]]

(* ... and creates or updates it.  userId is unique: who found none and    *)
(* finds one by now is refused and throws.                                 *)
Refused(s) == saves[s].at = "create" /\ tokens[saves[s].user] # 0

WriteToken(s) ==
  /\ saves[s].at # "idle"
  /\ tokens' = [tokens EXCEPT ![saves[s].user] =
                  IF Refused(s) THEN @ ELSE saves[s].token]
  /\ held' = NowHeld(saves[s].user, tokens'[saves[s].user])
  /\ saves' = [saves EXCEPT ![s] = NoSave]
  /\ UNCHANGED <<settings, jobs, notifications, nextRow, steady>>

(* The two lists: those a user has got and not read, and those he has.     *)
GetUserNotifications(u) == {r \in notifications : jobs[r.job].to = u /\ ~r.readed}
GetUserReadedNotifications(u) == {r \in notifications : jobs[r.job].to = u /\ r.readed}

(* The types whose entities are looked for, and that the union of the      *)
(* answer has.                                                             *)
ShownTypes == {"post", "follower"}

Marked(rows) ==
  {IF r \in rows THEN [r EXCEPT !.readed = TRUE] ELSE r : r \in notifications}

(* markNotificationAsRead. *)
MarkNotificationAsRead(r) ==
  /\ ~r.readed
  /\ notifications' = Marked({r})
  /\ UNCHANGED <<settings, tokens, saves, jobs, nextRow, history>>

(* markAllNotificationAsRead: those a user has got and those he has caused.*)
MarkAllNotificationAsRead(u) ==
  /\ notifications' = Marked({r \in notifications : u \in {jobs[r.job].to,
                                                           jobs[r.job].from}})
  /\ UNCHANGED <<settings, tokens, saves, jobs, nextRow, history>>

(* TypeOK: a job is started again however often it has stalled.            *)
WrongRestarted(job) ==
  IF job.at \notin Active THEN job
  ELSE [job EXCEPT !.at = "waiting", !.device = 0, !.stalls = @ + 1]

(* Bull on the job whose worker died: it waits again, unless it has        *)
(* stalled too often.                                                      *)
Restarted(job) ==
  IF job.at \notin Active THEN job
  ELSE IF job.stalls = MaxStalled THEN [job EXCEPT !.at = "failed", !.device = 0]
  ELSE [job EXCEPT !.at = "waiting", !.device = 0, !.stalls = @ + 1]

Restart ==
  /\ \/ \E j \in JobIds : jobs[j].at \in Active
     \/ \E s \in Saves : saves[s].at # "idle"
  /\ jobs' = [j \in JobIds |-> Restarted(jobs[j])]
  /\ saves' = [s \in Saves |-> NoSave]
  /\ UNCHANGED <<settings, tokens, notifications, nextRow, history>>
-----------------------------------------------------------------------------
SendNotification(j) == \/ ReadSettings(j) \/ ReadToken(j)
                       \/ SaveNotificationToDatabase(j)
                       \/ SendToDevice(j) \/ CallBack(j)

WorkerStep == \E j \in JobIds : TakeJob(j) \/ SendNotification(j)

Next == \/ \E j \in JobIds : Add(j)
        \/ WorkerStep
        \/ \E u \in Users : \/ EditNotificationSettings(u)
                            \/ MarkAllNotificationAsRead(u)
        \/ \E s \in Saves : SaveFcmToken(s) \/ WriteToken(s)
        \/ \E r \in notifications : MarkNotificationAsRead(r)
        \/ Restart

Spec == Init /\ [][Next]_vars

(* Redis, Postgres and the push service answer, be it with an error.       *)
FairSpec == Spec /\ WF_vars(WorkerStep)
-----------------------------------------------------------------------------
RowsOf(j) == {r \in notifications : r.job = j}

(* A notification is stored a second time only when a restart has cut its  *)
(* job: a failed push is not tried again (notification.module.ts:15-24).   *)
RowsCountStarts == \A j \in JobIds : Cardinality(RowsOf(j)) <= 1 + jobs[j].stalls

(* Nobody is notified of what he has switched off before the job was taken *)
(* and not on again since (Notification.consumer.ts:105-127).              *)
RefusedKindStaysOut ==
  [][\A r \in notifications' \ notifications :
       r.id = nextRow => FlagOf[jobs[r.job].kind] \cap steady[r.job] = {}]_vars

(* What the migration add_disable_all_notification_option promises: nobody *)
(* is notified while disableAll is set.                                    *)
DisableAllIsSilent ==
  [][\A r \in notifications' \ notifications :
       r.id = nextRow => "disableAll" \notin steady[r.job]]_vars

(* What the field entity of notification.entity.ts:55 says, which is not   *)
(* nullable: a listed notification has its entity.  One that has none      *)
(* takes the whole list with it.                                           *)
ListedEntityIsThere ==
  \A u \in Users :
    \A r \in GetUserNotifications(u) \cup GetUserReadedNotifications(u) :
      jobs[r.job].kind \in ShownTypes

(* The token is read before the row is stored and used after it, while the *)
(* receiver moves to other devices and restarts run the job again: a push  *)
(* goes to a device that was his at some time since the job was taken, and *)
(* is left out only when he had none (Notification.consumer.ts:56-87,      *)
(* notification.service.ts:172-200).                                       *)
PushGoesToHisDevice ==
  \A j \in JobIds :
    jobs[j].at \in {"push", "pushed"} => jobs[j].device \in held[j]

(* Liveness: a queued notification is dealt with, unless the worker has    *)
(* thrown and blocks the queue (Notification.consumer.ts:48-88).           *)
EveryJobSettles ==
  \A j \in JobIds : jobs[j].at = "waiting" ~> (jobs[j].at \in Over \/ Blocked)
=============================================================================
