---------------------- MODULE NotificationQueueProofs -----------------------
(***************************************************************************)
(* Notifications for any users, settings, saveUserFcmToken calls, jobs and *)
(* restarts: types, how often a notification is stored, whom it is kept    *)
(* from, and to which device it is pushed.                                 *)
(***************************************************************************)
EXTENDS NotificationQueue, FiniteSetTheorems, TLAPS

(* Since the queue makes one attempt, a job has it until it has failed.    *)
AttemptInv ==
  \A j \in JobIds : /\ jobs[j].at # "failed" => jobs[j].left = 1
                    /\ jobs[j].at = "none" => jobs[j].stalls = 0

(* The row of a job's present start has been stored. *)
StoredNow(j) == jobs[j].at \in {"push", "pushed", "threw"} \cup Over

(* As many rows as a job may have by now. *)
Starts(j) == jobs[j].stalls + (IF StoredNow(j) THEN 1 ELSE 0)

RowsInv ==
  /\ \A r \in notifications : r.id < nextRow
  /\ \A j \in JobIds : IsFiniteSet(RowsOf(j)) /\ Cardinality(RowsOf(j)) <= Starts(j)

(* While a job is at work, what has been off ever since is off now; and    *)
(* nothing that was off may be on its way to the table.                    *)
SteadyInv ==
  \A j \in JobIds :
    /\ jobs[j].at \in Active => steady[j] \subseteq settings[jobs[j].to]
    /\ jobs[j].at \in {"token", "store"} => FlagOf[jobs[j].kind] \cap steady[j] = {}

(* While a job is at work, its receiver's token is one that he has had     *)
(* since it was taken; and so is the one that it has read.                 *)
DevicesInv ==
  \A j \in JobIds :
    /\ jobs[j].at \in Active => tokens[jobs[j].to] \in held[j]
    /\ jobs[j].at \in {"store", "push", "pushed"} => jobs[j].device \in held[j]

QueueInv == TypeOK /\ AttemptInv /\ RowsInv /\ SteadyInv /\ DevicesInv
-----------------------------------------------------------------------------
LEMMA ConstantTypes ==
  /\ SomeUser \in Users
  /\ NoSave \in Save /\ NoSave.at = "idle"
  /\ NoJob \in Job /\ NoJob.at = "none" /\ NoJob.left = 1 /\ NoJob.stalls = 0
<1>1. SomeUser \in Users
  BY NotifiedAssumption DEF SomeUser
<1>2. NoSave \in Save /\ NoSave.at = "idle"
  BY <1>1 DEF NoSave, Save
<1>3. (CHOOSE k \in Kinds : TRUE) \in Kinds
  BY NotifiedAssumption
<1>4. NoJob \in Job /\ NoJob.at = "none" /\ NoJob.left = 1 /\ NoJob.stalls = 0
  BY <1>1, <1>3, QueueAssumption DEF NoJob, Job, Attempts
<1>5. QED BY <1>1, <1>2, <1>4

(* Every flag that speaks of a type is asked of it. *)
LEMMA FlagsAreAsked ==
  ASSUME NEW kind \in EntityTypes
  PROVE  /\ FlagOf[kind] \subseteq Asked[kind]
         /\ Asked[kind] = {} => FlagOf[kind] = {}
BY DEF EntityTypes, FlagOf, Asked

LEMMA InitEstablishes == Init => QueueInv
<1> SUFFICES ASSUME Init PROVE QueueInv
  OBVIOUS
<1> USE ConstantTypes DEF Init
<1>1. TypeOK
  BY DEF TypeOK
<1>2. AttemptInv /\ SteadyInv /\ DevicesInv
  BY DEF AttemptInv, SteadyInv, DevicesInv, Active
<1>3. \A j \in JobIds : RowsOf(j) = {}
  BY DEF RowsOf
<1>4. RowsInv
  <2>1. \A j \in JobIds : jobs[j].at = "none" /\ jobs[j].stalls = 0
    OBVIOUS
  <2>2. notifications = {}
    OBVIOUS
  <2> HIDE DEF Init
  <2>3. ASSUME NEW j \in JobIds PROVE Starts(j) = 0
    BY <2>1 DEF Starts, StoredNow, Over
  <2>4. ASSUME NEW j \in JobIds
        PROVE  IsFiniteSet(RowsOf(j)) /\ Cardinality(RowsOf(j)) = 0
    BY <1>3, FS_EmptySet
  <2>5. QED BY <2>2, <2>3, <2>4 DEF RowsInv
<1>5. QED BY <1>1, <1>2, <1>4 DEF QueueInv
-----------------------------------------------------------------------------
(* A job is a record with these fields. *)
LEMMA JobTyped ==
  ASSUME TypeOK, NEW j \in JobIds
  PROVE  /\ jobs[j] \in Job
         /\ jobs[j].at \in {"none", "waiting"} \cup Active \cup Over
         /\ jobs[j].kind \in Kinds /\ jobs[j].from \in Users /\ jobs[j].to \in Users
         /\ jobs[j].device \in Nat /\ jobs[j].left \in Nat
         /\ jobs[j].stalls \in 0 .. MaxStalled
BY DEF TypeOK, Job

LEMMA RestartedTyped ==
  ASSUME NEW job \in Job
  PROVE  Restarted(job) \in Job
<1> USE QueueAssumption DEF Job, Active, Over
<1>1. CASE job.at \notin Active
  BY <1>1 DEF Restarted
<1>2. CASE job.at \in Active /\ job.stalls = MaxStalled
  BY <1>2 DEF Restarted
<1>3. CASE job.at \in Active /\ job.stalls # MaxStalled
  <2>1. job.stalls + 1 \in 0 .. MaxStalled
    BY <1>3
  <2>2. Restarted(job) = [at |-> "waiting", kind |-> job.kind, from |-> job.from,
                          to |-> job.to, device |-> 0, left |-> job.left,
                          stalls |-> job.stalls + 1]
    BY <1>3 DEF Restarted
  <2>3. QED BY <2>1, <2>2
<1>4. QED BY <1>1, <1>2, <1>3

LEMMA TypeStep ==
  ASSUME TypeOK, AttemptInv, [Next]_vars PROVE TypeOK'
<1> USE DEF TypeOK, history
<1>1. ASSUME NEW j \in JobIds, Add(j) PROVE TypeOK'
  <2>1. PICK from \in Users, to \in Users, kind \in Kinds :
          jobs' = [jobs EXCEPT ![j] = [NoJob EXCEPT !.at = "waiting", !.kind = kind,
                                                    !.from = from, !.to = to]]
    BY <1>1, NotifiedAssumption DEF Add
  <2>2. [NoJob EXCEPT !.at = "waiting", !.kind = kind, !.from = from, !.to = to] \in Job
    BY ConstantTypes DEF Job
  <2>3. QED BY <1>1, <2>1, <2>2 DEF Add
<1>2. ASSUME NEW j \in JobIds, TakeJob(j) PROVE TypeOK'
  BY <1>2, JobTyped DEF TakeJob, Job, Active
<1>3. ASSUME NEW j \in JobIds, ReadSettings(j) PROVE TypeOK'
  BY <1>3, JobTyped DEF ReadSettings, Job, Active, Over
<1>4. ASSUME NEW j \in JobIds, ReadToken(j) PROVE TypeOK'
  <2>1. jobs' = [jobs EXCEPT ![j] = [jobs[j] EXCEPT !.at = "store",
                                                   !.device = tokens[jobs[j].to]]]
    BY <1>4 DEF ReadToken
  <2>2. tokens[jobs[j].to] \in Nat
    BY JobTyped DEF TypeOK
  <2>3. [jobs[j] EXCEPT !.at = "store", !.device = tokens[jobs[j].to]] \in Job
    BY <2>2, JobTyped DEF Job, Active
  <2>4. jobs' \in [JobIds -> Job]
    BY <2>1, <2>3 DEF TypeOK
  <2>5. QED BY <1>4, <2>4 DEF ReadToken, TypeOK
<1>5. ASSUME NEW j \in JobIds, SaveNotificationToDatabase(j) PROVE TypeOK'
  <2>1. jobs' \in [JobIds -> Job]
    BY <1>5, JobTyped DEF SaveNotificationToDatabase, Job, Active
  <2>2. [id |-> nextRow, job |-> j, readed |-> FALSE] \in Row
    BY DEF Row
  <2>3. notifications' \subseteq Row
    BY <1>5, <2>2 DEF SaveNotificationToDatabase
  <2>4. QED BY <1>5, <2>1, <2>3 DEF SaveNotificationToDatabase
<1>6. ASSUME NEW j \in JobIds, SendToDevice(j) PROVE TypeOK'
  <2>1. jobs[j].left = 1
    BY <1>6 DEF SendToDevice, AttemptInv
  <2>2. \/ jobs' = [jobs EXCEPT ![j].at = "pushed"]
        \/ jobs' = [jobs EXCEPT ![j].at = "threw"]
        \/ jobs' = [jobs EXCEPT ![j] = [@ EXCEPT !.at = "failed", !.left = 0, !.device = 0]]
    BY <1>6, <2>1 DEF SendToDevice, CallBackError
  <2>3. jobs' \in [JobIds -> Job]
    <3>1. [jobs[j] EXCEPT !.at = "failed", !.left = 0, !.device = 0] \in Job
      BY JobTyped DEF Job, Over
    <3>2. CASE jobs' = [jobs EXCEPT ![j].at = "pushed"]
      BY <3>2, JobTyped DEF Job, Active
    <3>3. CASE jobs' = [jobs EXCEPT ![j].at = "threw"]
      BY <3>3, JobTyped DEF Job, Active
    <3>4. QED BY <2>2, <3>1, <3>2, <3>3
  <2>4. QED BY <1>6, <2>3 DEF SendToDevice
<1>7. ASSUME NEW j \in JobIds, CallBack(j) PROVE TypeOK'
  <2>1. [jobs[j] EXCEPT !.at = "completed", !.device = 0] \in Job
    BY JobTyped DEF Job, Over
  <2>2. QED BY <1>7, <2>1 DEF CallBack
<1>8. ASSUME NEW u \in Users, EditNotificationSettings(u) PROVE TypeOK'
  BY <1>8, SettingsAssumption DEF EditNotificationSettings
<1>9. ASSUME NEW rows \in SUBSET notifications, notifications' = Marked(rows),
             UNCHANGED <<settings, tokens, saves, jobs, nextRow, history>>
      PROVE  TypeOK'
  <2>1. \A r \in Row : [r EXCEPT !.readed = TRUE] \in Row
    BY DEF Row
  <2>2. Marked(rows) \subseteq Row
    BY <2>1 DEF Marked
  <2>3. QED BY <1>9, <2>2
<1>10. ASSUME NEW s \in Saves, SaveFcmToken(s) PROVE TypeOK'
  BY <1>10, NotifiedAssumption DEF SaveFcmToken, Save
<1>11. ASSUME NEW s \in Saves, WriteToken(s) PROVE TypeOK'
  <2>1. saves' \in [Saves -> Save] /\ saves[s].token \in Nat
    BY <1>11, ConstantTypes DEF WriteToken, Save
  <2>2. tokens' \in [Users -> Nat]
    BY <1>11, <2>1 DEF WriteToken
  <2>3. tokens'[saves[s].user] \in Nat
    BY <2>1, <2>2 DEF Save
  <2>4. held' \in [JobIds -> SUBSET Nat]
    BY <1>11, <2>3 DEF WriteToken, NowHeld
  <2>5. QED BY <1>11, <2>1, <2>2, <2>4 DEF WriteToken
<1>12. ASSUME Restart PROVE TypeOK'
  BY <1>12, ConstantTypes, RestartedTyped DEF Restart
<1>13. CASE UNCHANGED vars
  BY <1>13 DEF vars
<1>14. QED
  <2>1. ASSUME NEW r \in notifications, MarkNotificationAsRead(r) PROVE TypeOK'
    BY <2>1, <1>9 DEF MarkNotificationAsRead
  <2>2. ASSUME NEW u \in Users, MarkAllNotificationAsRead(u) PROVE TypeOK'
    BY <2>2, <1>9 DEF MarkAllNotificationAsRead
  <2>3. QED
    BY <1>1, <1>2, <1>3, <1>4, <1>5, <1>6, <1>7, <1>8, <1>10, <1>11, <1>12, <1>13,
       <2>1, <2>2 DEF Next, WorkerStep, SendNotification
-----------------------------------------------------------------------------
LEMMA AttemptStep ==
  ASSUME TypeOK, AttemptInv, [Next]_vars PROVE AttemptInv'
<1> USE DEF AttemptInv
<1>1. ASSUME UNCHANGED jobs PROVE AttemptInv'
  BY <1>1
<1>2. ASSUME NEW j \in JobIds, \A i \in JobIds \ {j} : jobs'[i] = jobs[i],
             jobs'[j].at # "failed" => jobs'[j].left = 1,
             jobs'[j].at = "none" => jobs'[j].stalls = 0
      PROVE  AttemptInv'
  BY <1>2
<1>3. ASSUME NEW j \in JobIds, Add(j) PROVE AttemptInv'
  BY <1>3, <1>2, ConstantTypes DEF Add, TypeOK, Job
<1>4. ASSUME NEW j \in JobIds, TakeJob(j) \/ SendNotification(j) PROVE AttemptInv'
  <2>1. jobs[j].at # "failed" /\ jobs[j].left = 1
    BY <1>4 DEF TakeJob, SendNotification, ReadSettings, ReadToken,
                SaveNotificationToDatabase, SendToDevice, CallBack
  <2>2. \/ \E at \in {"settings", "threw", "completed", "token", "push", "pushed"} :
             jobs' = [jobs EXCEPT ![j].at = at]
        \/ jobs' = [jobs EXCEPT ![j] = [@ EXCEPT !.at = "store",
                                                 !.device = tokens[jobs[j].to]]]
        \/ jobs' = [jobs EXCEPT ![j] = [@ EXCEPT !.at = "completed", !.device = 0]]
        \/ jobs' = [jobs EXCEPT ![j] = [@ EXCEPT !.at = "failed", !.left = 0, !.device = 0]]
    BY <1>4, <2>1 DEF TakeJob, SendNotification, ReadSettings, ReadToken,
                      SaveNotificationToDatabase, SendToDevice, CallBackError, CallBack
  <2>3. \A i \in JobIds \ {j} : jobs'[i] = jobs[i]
    BY <2>2 DEF TypeOK
  <2>4. jobs'[j].at # "none" /\ (jobs'[j].at # "failed" => jobs'[j].left = 1)
    <3>1. CASE \E at \in {"settings", "threw", "completed", "token", "push", "pushed"} :
                 jobs' = [jobs EXCEPT ![j].at = at]
      BY <2>1, <3>1, JobTyped DEF TypeOK, Job
    <3>2. CASE jobs' = [jobs EXCEPT ![j] = [@ EXCEPT !.at = "store",
                                                     !.device = tokens[jobs[j].to]]]
      BY <2>1, <3>2, JobTyped DEF TypeOK, Job
    <3>3. CASE jobs' = [jobs EXCEPT ![j] = [@ EXCEPT !.at = "failed", !.left = 0, !.device = 0]]
      BY <3>3, JobTyped DEF TypeOK, Job
    <3>4. CASE jobs' = [jobs EXCEPT ![j] = [@ EXCEPT !.at = "completed", !.device = 0]]
      BY <2>1, <3>4, JobTyped DEF TypeOK, Job
    <3>5. QED BY <2>2, <3>1, <3>2, <3>3, <3>4
  <2>5. QED BY <1>2, <2>3, <2>4
<1>5. ASSUME Restart PROVE AttemptInv'
  <2>1. \A j \in JobIds : jobs'[j] = Restarted(jobs[j])
    BY <1>5 DEF Restart
  <2>2. \A j \in JobIds : jobs'[j].left = jobs[j].left
                          /\ (jobs[j].at # "failed" => jobs[j].left = 1)
                          /\ (jobs'[j].at = "none" => jobs'[j] = jobs[j])
    BY <2>1, JobTyped DEF Restarted, Job
  <2>3. \A j \in JobIds : jobs[j].at = "failed" => jobs'[j] = jobs[j]
    BY <2>1 DEF Restarted, Active
  <2>4. QED BY <2>2, <2>3
<1>6. QED
  BY <1>1, <1>3, <1>4, <1>5
     DEF Next, WorkerStep, EditNotificationSettings, MarkAllNotificationAsRead,
         SaveFcmToken, WriteToken, MarkNotificationAsRead, vars, history
-----------------------------------------------------------------------------
(* Nothing is stored, and no job loses a start. *)
LEMMA RowsUntouched ==
  ASSUME TypeOK, TypeOK', RowsInv, UNCHANGED <<notifications, nextRow>>,
         \A j \in JobIds : Starts(j) <= Starts(j)'
  PROVE  RowsInv'
<1>1. \A j \in JobIds : RowsOf(j)' = RowsOf(j)
  BY DEF RowsOf
<1>2. \A j \in JobIds : Starts(j) \in Nat /\ Starts(j)' \in Nat
  BY QueueAssumption DEF TypeOK, Starts, Job
<1>3. \A j \in JobIds : Cardinality(RowsOf(j)) \in Nat
  BY FS_CardinalityType DEF RowsInv
<1>4. QED BY <1>1, <1>2, <1>3 DEF RowsInv

(* To mark rows as read adds none. *)
LEMMA MarkedRows ==
  ASSUME TypeOK, RowsInv, NEW rows \in SUBSET notifications,
         notifications' = Marked(rows), UNCHANGED <<jobs, nextRow>>
  PROVE  RowsInv'
<1> DEFINE mark(r) == IF r \in rows THEN [r EXCEPT !.readed = TRUE] ELSE r
<1>1. \A r \in notifications : mark(r).id = r.id /\ mark(r).job = r.job
  BY DEF TypeOK, Row
<1>2. notifications' = {mark(r) : r \in notifications}
  BY DEF Marked
<1>3. ASSUME NEW j \in JobIds
      PROVE  (IsFiniteSet(RowsOf(j)) /\ Cardinality(RowsOf(j)) <= Starts(j))'
  <2> DEFINE f == [r \in RowsOf(j) |-> mark(r)]
  <2>1. RowsOf(j)' = {mark(r) : r \in RowsOf(j)}
    BY <1>1, <1>2 DEF RowsOf
  <2>2. f \in Surjection(RowsOf(j), RowsOf(j)')
    BY <2>1 DEF Surjection
  <2>3. IsFiniteSet(RowsOf(j)) /\ Cardinality(RowsOf(j)) \in Nat
        /\ Cardinality(RowsOf(j)) <= Starts(j)
    BY FS_CardinalityType DEF RowsInv
  <2>4. IsFiniteSet(RowsOf(j)') /\ Cardinality(RowsOf(j)') <= Cardinality(RowsOf(j))
    BY <2>2, <2>3, FS_Surjection
  <2>5. Cardinality(RowsOf(j)') \in Nat /\ Starts(j)' = Starts(j) /\ Starts(j) \in Nat
    BY <2>4, FS_CardinalityType, QueueAssumption DEF Starts, StoredNow, TypeOK, Job
  <2>6. QED BY <2>3, <2>4, <2>5
<1>4. \A r \in notifications' : r.id < nextRow
  BY <1>1, <1>2 DEF RowsInv
<1>5. QED BY <1>3, <1>4 DEF RowsInv

LEMMA StoredRows ==
  ASSUME TypeOK, RowsInv, NEW j \in JobIds, SaveNotificationToDatabase(j)
  PROVE  RowsInv'
<1> DEFINE new == [id |-> nextRow, job |-> j, readed |-> FALSE]
<1>1. /\ notifications' = notifications \cup {new} /\ nextRow' = nextRow + 1
      /\ jobs[j].at = "store" /\ jobs' = [jobs EXCEPT ![j].at = "push"]
  BY DEF SaveNotificationToDatabase
<1>2. RowsOf(j)' = RowsOf(j) \cup {new}
      /\ \A i \in JobIds \ {j} : RowsOf(i)' = RowsOf(i)
  BY <1>1 DEF RowsOf
<1>3. \A i \in JobIds \ {j} : Starts(i)' = Starts(i)
  BY <1>1 DEF Starts, StoredNow, TypeOK
<1>4. Starts(j)' = Starts(j) + 1 /\ Starts(j) \in Nat
  BY <1>1, QueueAssumption DEF Starts, StoredNow, TypeOK, Job, Over
<1>5. /\ IsFiniteSet(RowsOf(j)') /\ Cardinality(RowsOf(j)) \in Nat
      /\ Cardinality(RowsOf(j)') <= Cardinality(RowsOf(j)) + 1
  <2>1. IsFiniteSet(RowsOf(j)) /\ Cardinality(RowsOf(j)) \in Nat
    BY FS_CardinalityType DEF RowsInv
  <2>2. /\ IsFiniteSet(RowsOf(j) \cup {new})
        /\ \/ Cardinality(RowsOf(j) \cup {new}) = Cardinality(RowsOf(j))
           \/ Cardinality(RowsOf(j) \cup {new}) = Cardinality(RowsOf(j)) + 1
    BY <2>1, FS_AddElement
  <2>3. QED BY <1>2, <2>1, <2>2
<1>6. Cardinality(RowsOf(j)') \in Nat
  BY <1>5, FS_CardinalityType
<1>7. Cardinality(RowsOf(j)') <= Starts(j)'
  BY <1>4, <1>5, <1>6 DEF RowsInv
<1>8. \A r \in notifications' : r.id < nextRow'
  BY <1>1 DEF RowsInv, TypeOK, Row
<1>9. QED BY <1>2, <1>3, <1>5, <1>7, <1>8 DEF RowsInv

LEMMA RowsStep ==
  ASSUME TypeOK, TypeOK', AttemptInv, RowsInv, [Next]_vars PROVE RowsInv'
<1>1. \A j \in JobIds : jobs[j].stalls \in Nat /\ jobs'[j].stalls \in Nat
  BY QueueAssumption DEF TypeOK, Job
<1>2. ASSUME NEW j \in JobIds, \A i \in JobIds \ {j} : jobs'[i] = jobs[i],
             jobs'[j].stalls = jobs[j].stalls, StoredNow(j) => StoredNow(j)',
             UNCHANGED <<notifications, nextRow>>
      PROVE  RowsInv'
  <2>1. \A i \in JobIds : Starts(i) <= Starts(i)'
    BY <1>1, <1>2 DEF Starts, StoredNow
  <2>2. QED BY <1>2, <2>1, RowsUntouched
<1>3. ASSUME UNCHANGED <<jobs, notifications, nextRow>> PROVE RowsInv'
  BY <1>3 DEF RowsInv, RowsOf, Starts, StoredNow
<1>4. ASSUME NEW j \in JobIds, Add(j) PROVE RowsInv'
  BY <1>2, <1>4, ConstantTypes DEF Add, AttemptInv, StoredNow, Over, TypeOK, Job
<1>5. ASSUME NEW j \in JobIds, TakeJob(j) \/ ReadSettings(j) \/ CallBack(j)
      PROVE  RowsInv'
  <2>1. \/ /\ jobs[j].at \in {"waiting", "settings"}
           /\ \E at \in {"settings", "threw", "completed", "token"} :
                jobs' = [jobs EXCEPT ![j].at = at]
        \/ jobs' = [jobs EXCEPT ![j] = [@ EXCEPT !.at = "completed", !.device = 0]]
    BY <1>5 DEF TakeJob, ReadSettings, CallBack
  <2>2. /\ \A i \in JobIds \ {j} : jobs'[i] = jobs[i]
        /\ jobs'[j].stalls = jobs[j].stalls
    <3>1. CASE \E at \in {"settings", "threw", "completed", "token"} :
                 jobs' = [jobs EXCEPT ![j].at = at]
      BY <3>1 DEF TypeOK, Job
    <3>2. CASE jobs' = [jobs EXCEPT ![j] = [@ EXCEPT !.at = "completed", !.device = 0]]
      BY <3>2 DEF TypeOK, Job
    <3>3. QED BY <2>1, <3>1, <3>2
  <2>3. jobs[j].at \in {"waiting", "settings"} \/ jobs'[j].at = "completed"
    <3>1. CASE jobs[j].at \in {"waiting", "settings"}
      BY <3>1
    <3>2. CASE jobs' = [jobs EXCEPT ![j] = [@ EXCEPT !.at = "completed", !.device = 0]]
      BY <3>2 DEF TypeOK, Job
    <3>3. QED BY <2>1, <3>1, <3>2
  <2>4. StoredNow(j) => StoredNow(j)'
    BY <2>3 DEF StoredNow, Over
  <2>5. QED BY <1>2, <1>5, <2>2, <2>4 DEF TakeJob, ReadSettings, CallBack
<1>6. ASSUME NEW j \in JobIds, ReadToken(j) PROVE RowsInv'
  BY <1>2, <1>6 DEF ReadToken, StoredNow, Over, TypeOK, Job
<1>7. ASSUME NEW j \in JobIds, SendToDevice(j) PROVE RowsInv'
  <2>1. jobs[j].at = "push" /\ jobs[j].left = 1
    BY <1>7 DEF SendToDevice, AttemptInv
  <2>2. \/ jobs' = [jobs EXCEPT ![j].at = "pushed"]
        \/ jobs' = [jobs EXCEPT ![j].at = "threw"]
        \/ jobs' = [jobs EXCEPT ![j] = [@ EXCEPT !.at = "failed", !.left = 0, !.device = 0]]
    BY <1>7, <2>1 DEF SendToDevice, CallBackError
  <2>3. /\ \A i \in JobIds \ {j} : jobs'[i] = jobs[i]
        /\ jobs'[j].stalls = jobs[j].stalls /\ StoredNow(j)'
    <3>1. CASE jobs' = [jobs EXCEPT ![j] = [@ EXCEPT !.at = "failed", !.left = 0, !.device = 0]]
      BY <3>1, JobTyped DEF StoredNow, Over, TypeOK, Job
    <3>2. CASE \E at \in {"pushed", "threw"} : jobs' = [jobs EXCEPT ![j].at = at]
      BY <3>2, JobTyped DEF StoredNow, Over, TypeOK, Job
    <3>3. QED BY <2>2, <3>1, <3>2
  <2>4. QED BY <1>2, <1>7, <2>3 DEF SendToDevice
<1>8. ASSUME Restart PROVE RowsInv'
  <2>1. UNCHANGED <<notifications, nextRow>>
        /\ \A j \in JobIds : jobs'[j] = Restarted(jobs[j])
    BY <1>8 DEF Restart
  <2>2. ASSUME NEW j \in JobIds PROVE Starts(j) <= Starts(j)'
    <3>1. CASE jobs'[j] = jobs[j]
      BY <1>1, <3>1 DEF Starts, StoredNow
    <3>2. CASE jobs[j].at \in Active /\ jobs[j].stalls = MaxStalled
      <4>1. jobs'[j].at = "failed" /\ jobs'[j].stalls = jobs[j].stalls
        BY <2>1, <3>2, JobTyped DEF Restarted, Job
      <4>2. QED BY <1>1, <4>1 DEF Starts, StoredNow, Over
    <3>3. CASE jobs[j].at \in Active /\ jobs[j].stalls # MaxStalled
      <4>1. jobs'[j].at = "waiting" /\ jobs'[j].stalls = jobs[j].stalls + 1
        BY <2>1, <3>3, JobTyped DEF Restarted, Job
      <4>2. QED BY <1>1, <4>1 DEF Starts, StoredNow, Over
    <3>4. QED BY <2>1, <3>1, <3>2, <3>3 DEF Restarted
  <2>3. QED BY <2>1, <2>2, RowsUntouched
<1>9. ASSUME NEW r \in notifications, MarkNotificationAsRead(r) PROVE RowsInv'
  BY <1>9, MarkedRows DEF MarkNotificationAsRead
<1>10. ASSUME NEW u \in Users, MarkAllNotificationAsRead(u) PROVE RowsInv'
  BY <1>10, MarkedRows DEF MarkAllNotificationAsRead
<1>11. QED
  BY <1>3, <1>4, <1>5, <1>6, <1>7, <1>8, <1>9, <1>10, StoredRows
     DEF Next, WorkerStep, SendNotification, EditNotificationSettings,
         SaveFcmToken, WriteToken, vars
-----------------------------------------------------------------------------
(* No job begins an attempt, and no setting is switched on or off. *)
LEMMA SteadyUntouched ==
  ASSUME SteadyInv, UNCHANGED <<settings, steady>>,
         \A j \in JobIds : \/ jobs'[j] = jobs[j]
                           \/ jobs'[j].at \notin Active
                           \/ /\ jobs[j].at \in Active
                              /\ jobs'[j].kind = jobs[j].kind
                              /\ jobs'[j].to = jobs[j].to
                              /\ jobs'[j].at \notin {"token", "store"}
                                 \/ jobs[j].at \in {"token", "store"}
  PROVE  SteadyInv'
BY DEF SteadyInv, Active

LEMMA SteadyStep ==
  ASSUME TypeOK, AttemptInv, SteadyInv, [Next]_vars PROVE SteadyInv'
<1>1. ASSUME UNCHANGED <<settings, steady, jobs>> PROVE SteadyInv'
  BY <1>1, SteadyUntouched
<1>2. ASSUME NEW j \in JobIds, Add(j) PROVE SteadyInv'
  BY <1>2, SteadyUntouched, ConstantTypes DEF Add, TypeOK, Job, Active, history
<1>3. ASSUME NEW j \in JobIds, TakeJob(j) PROVE SteadyInv'
  <2>1. /\ jobs'[j].at = "settings" /\ jobs'[j].to = jobs[j].to
        /\ steady'[j] = settings[jobs[j].to] /\ settings' = settings
        /\ \A i \in JobIds \ {j} : jobs'[i] = jobs[i] /\ jobs[i].at \notin Active
    BY <1>3 DEF TakeJob, TypeOK, Job
  <2>2. QED BY <2>1 DEF SteadyInv, Active
<1>4. ASSUME NEW j \in JobIds, ReadSettings(j) PROVE SteadyInv'
  <2>1. jobs[j].at = "settings" /\ UNCHANGED <<settings, steady>>
    BY <1>4 DEF ReadSettings, history
  <2>2. CASE \E at \in {"threw", "completed"} : jobs' = [jobs EXCEPT ![j].at = at]
    <3>1. /\ \A i \in JobIds \ {j} : jobs'[i] = jobs[i]
          /\ jobs'[j].kind = jobs[j].kind /\ jobs'[j].to = jobs[j].to
          /\ jobs'[j].at \in {"threw", "completed"}
      BY <2>2 DEF TypeOK, Job
    <3>2. QED BY <2>1, <3>1, SteadyUntouched DEF Active
  <2>3. CASE /\ jobs' = [jobs EXCEPT ![j].at = "token"]
             /\ ~IsUserDisabledNotification(jobs[j].to, jobs[j].kind)
    <3>1. /\ \A i \in JobIds \ {j} : jobs'[i] = jobs[i]
          /\ jobs'[j].kind = jobs[j].kind /\ jobs'[j].to = jobs[j].to
      BY <2>3 DEF TypeOK, Job
    <3>2. steady[j] \subseteq settings[jobs[j].to]
      BY <2>1 DEF SteadyInv, Active
    <3>3. FlagOf[jobs[j].kind] \cap settings[jobs[j].to] = {}
      BY <2>3, FlagsAreAsked, JobTyped, NotifiedAssumption
         DEF IsUserDisabledNotification
    <3>4. FlagOf[jobs[j].kind] \cap steady[j] = {}
      BY <3>2, <3>3
    <3>5. QED BY <2>1, <3>1, <3>2, <3>4 DEF SteadyInv
  <2>4. QED BY <1>4, <2>2, <2>3 DEF ReadSettings
<1>5. ASSUME NEW j \in JobIds, ReadToken(j) \/ SaveNotificationToDatabase(j)
                               \/ CallBack(j)
      PROVE  SteadyInv'
  <2>1. /\ \A i \in JobIds \ {j} : jobs'[i] = jobs[i]
        /\ jobs'[j].kind = jobs[j].kind /\ jobs'[j].to = jobs[j].to
    <3>1. CASE ReadToken(j)
      BY <3>1 DEF ReadToken, TypeOK, Job
    <3>2. CASE SaveNotificationToDatabase(j)
      BY <3>2 DEF SaveNotificationToDatabase, TypeOK, Job
    <3>3. CASE CallBack(j)
      BY <3>3 DEF CallBack, TypeOK, Job
    <3>4. QED BY <1>5, <3>1, <3>2, <3>3
  <2>2. \/ jobs[j].at = "token" /\ jobs'[j].at = "store"
        \/ jobs[j].at = "store" /\ jobs'[j].at = "push"
        \/ jobs'[j].at = "completed"
    <3>1. CASE ReadToken(j)
      BY <3>1 DEF ReadToken, TypeOK, Job
    <3>2. CASE SaveNotificationToDatabase(j)
      BY <3>2 DEF SaveNotificationToDatabase, TypeOK, Job
    <3>3. CASE CallBack(j)
      BY <3>3 DEF CallBack, TypeOK, Job
    <3>4. QED BY <1>5, <3>1, <3>2, <3>3
  <2>3. UNCHANGED <<settings, steady>>
    BY <1>5 DEF ReadToken, SaveNotificationToDatabase, CallBack, history
  <2>4. QED BY <2>1, <2>2, <2>3, SteadyUntouched DEF Active
<1>6. ASSUME NEW j \in JobIds, SendToDevice(j) PROVE SteadyInv'
  <2>1. jobs[j].at = "push" /\ jobs[j].left = 1
    BY <1>6 DEF SendToDevice, AttemptInv
  <2>2. \/ \E at \in {"pushed", "threw"} : jobs' = [jobs EXCEPT ![j].at = at]
        \/ jobs' = [jobs EXCEPT ![j] = [@ EXCEPT !.at = "failed", !.left = 0, !.device = 0]]
    BY <1>6, <2>1 DEF SendToDevice, CallBackError
  <2>3. /\ \A i \in JobIds \ {j} : jobs'[i] = jobs[i]
        /\ jobs'[j].kind = jobs[j].kind /\ jobs'[j].to = jobs[j].to
        /\ jobs'[j].at \in {"pushed", "threw", "failed"}
    <3>1. CASE \E at \in {"pushed", "threw"} : jobs' = [jobs EXCEPT ![j].at = at]
      BY <3>1 DEF TypeOK, Job
    <3>2. CASE jobs' = [jobs EXCEPT ![j] = [@ EXCEPT !.at = "failed", !.left = 0, !.device = 0]]
      BY <3>2, JobTyped DEF TypeOK, Job
    <3>3. QED BY <2>2, <3>1, <3>2
  <2>4. QED BY <1>6, <2>1, <2>3, SteadyUntouched DEF SendToDevice, Active, history
<1>7. ASSUME NEW u \in Users, EditNotificationSettings(u) PROVE SteadyInv'
  <2>1. PICK flags \in Settings :
          /\ settings' = [settings EXCEPT ![u] = flags]
          /\ steady' = [j \in JobIds |-> IF jobs[j].to = u THEN steady[j] \cap flags
                                                           ELSE steady[j]]
    BY <1>7 DEF EditNotificationSettings
  <2>2. jobs' = jobs
    BY <1>7 DEF EditNotificationSettings
  <2>3. ASSUME NEW j \in JobIds, jobs[j].at \in Active
        PROVE  steady'[j] \subseteq settings'[jobs[j].to]
    BY <2>1, <2>3, JobTyped DEF SteadyInv, TypeOK
  <2>4. \A j \in JobIds : steady'[j] \subseteq steady[j]
    BY <2>1
  <2>5. QED BY <2>2, <2>3, <2>4 DEF SteadyInv
<1>8. ASSUME Restart PROVE SteadyInv'
  <2>1. ASSUME NEW j \in JobIds PROVE jobs'[j] = jobs[j] \/ jobs'[j].at \notin Active
    <3>1. jobs'[j] = Restarted(jobs[j])
      BY <1>8 DEF Restart
    <3>2. QED BY <3>1, JobTyped DEF Restarted, Job, Active
  <2>2. QED BY <1>8, <2>1, SteadyUntouched DEF Restart, history
<1>9. QED
  BY <1>1, <1>2, <1>3, <1>4, <1>5, <1>6, <1>7, <1>8
     DEF Next, WorkerStep, SendNotification, MarkAllNotificationAsRead,
         SaveFcmToken, WriteToken, MarkNotificationAsRead, vars, history
-----------------------------------------------------------------------------
(* No token is written, and no job at work is another's. *)
LEMMA DevicesUntouched ==
  ASSUME DevicesInv, UNCHANGED <<tokens, held>>,
         \A j \in JobIds : \/ jobs'[j] = jobs[j]
                           \/ jobs'[j].at \notin Active
                           \/ /\ jobs[j].at \in Active
                              /\ jobs'[j].to = jobs[j].to
                              /\ jobs'[j].at \in {"store", "push", "pushed"}
                                   => jobs'[j].device \in held[j]
  PROVE  DevicesInv'
BY DEF DevicesInv, Active

LEMMA DevicesStep ==
  ASSUME TypeOK, AttemptInv, DevicesInv, [Next]_vars PROVE DevicesInv'
<1>1. ASSUME UNCHANGED <<tokens, held, jobs>> PROVE DevicesInv'
  BY <1>1, DevicesUntouched
<1>2. ASSUME NEW j \in JobIds, Add(j) PROVE DevicesInv'
  BY <1>2, DevicesUntouched, ConstantTypes DEF Add, TypeOK, Job, Active, history
<1>3. ASSUME NEW j \in JobIds, TakeJob(j) PROVE DevicesInv'
  <2>1. /\ jobs'[j].at = "settings" /\ jobs'[j].to = jobs[j].to
        /\ held'[j] = {tokens[jobs[j].to]} /\ tokens' = tokens
        /\ \A i \in JobIds \ {j} : jobs'[i] = jobs[i] /\ jobs[i].at \notin Active
    BY <1>3 DEF TakeJob, TypeOK, Job
  <2>2. QED BY <2>1 DEF DevicesInv, Active
<1>4. ASSUME NEW j \in JobIds, ReadToken(j) PROVE DevicesInv'
  <2>1. /\ jobs[j].at = "token" /\ UNCHANGED <<tokens, held>>
        /\ jobs' = [jobs EXCEPT ![j] = [@ EXCEPT !.at = "store",
                                                 !.device = tokens[jobs[j].to]]]
    BY <1>4 DEF ReadToken, history
  <2>2. /\ \A i \in JobIds \ {j} : jobs'[i] = jobs[i]
        /\ jobs'[j].to = jobs[j].to /\ jobs'[j].device = tokens[jobs[j].to]
    BY <2>1 DEF TypeOK, Job
  <2>3. tokens[jobs[j].to] \in held[j]
    BY <2>1 DEF DevicesInv, Active
  <2>4. QED BY <2>1, <2>2, <2>3, DevicesUntouched DEF Active
<1>5. ASSUME NEW j \in JobIds, ReadSettings(j) \/ CallBack(j) PROVE DevicesInv'
  <2>1. \/ \E at \in {"threw", "completed", "token"} : jobs' = [jobs EXCEPT ![j].at = at]
        \/ jobs' = [jobs EXCEPT ![j] = [@ EXCEPT !.at = "completed", !.device = 0]]
    BY <1>5 DEF ReadSettings, CallBack
  <2>2. /\ \A i \in JobIds \ {j} : jobs'[i] = jobs[i]
        /\ jobs'[j].to = jobs[j].to /\ jobs'[j].at \in {"threw", "completed", "token"}
    <3>1. CASE \E at \in {"threw", "completed", "token"} :
                 jobs' = [jobs EXCEPT ![j].at = at]
      BY <3>1 DEF TypeOK, Job
    <3>2. CASE jobs' = [jobs EXCEPT ![j] = [@ EXCEPT !.at = "completed", !.device = 0]]
      BY <3>2 DEF TypeOK, Job
    <3>3. QED BY <2>1, <3>1, <3>2
  <2>3. jobs[j].at \in Active /\ UNCHANGED <<tokens, held>>
    BY <1>5 DEF ReadSettings, CallBack, Active, history
  <2>4. QED BY <2>2, <2>3, DevicesUntouched
<1>6. ASSUME NEW j \in JobIds, SaveNotificationToDatabase(j) PROVE DevicesInv'
  <2>1. /\ jobs[j].at = "store" /\ UNCHANGED <<tokens, held>>
        /\ jobs' = [jobs EXCEPT ![j].at = "push"]
    BY <1>6 DEF SaveNotificationToDatabase, history
  <2>2. /\ \A i \in JobIds \ {j} : jobs'[i] = jobs[i]
        /\ jobs'[j].to = jobs[j].to /\ jobs'[j].device = jobs[j].device
    BY <2>1 DEF TypeOK, Job
  <2>3. jobs[j].device \in held[j]
    BY <2>1 DEF DevicesInv
  <2>4. QED BY <2>1, <2>2, <2>3, DevicesUntouched DEF Active
<1>7. ASSUME NEW j \in JobIds, SendToDevice(j) PROVE DevicesInv'
  <2>1. /\ jobs[j].at = "push" /\ jobs[j].left = 1 /\ UNCHANGED <<tokens, held>>
    BY <1>7 DEF SendToDevice, AttemptInv, history
  <2>2. \/ \E at \in {"pushed", "threw"} : jobs' = [jobs EXCEPT ![j].at = at]
        \/ jobs' = [jobs EXCEPT ![j] = [@ EXCEPT !.at = "failed", !.left = 0, !.device = 0]]
    BY <1>7, <2>1 DEF SendToDevice, CallBackError
  <2>3. /\ \A i \in JobIds \ {j} : jobs'[i] = jobs[i]
        /\ jobs'[j].to = jobs[j].to
        /\ jobs'[j].device = jobs[j].device \/ jobs'[j].at = "failed"
    <3>1. CASE \E at \in {"pushed", "threw"} : jobs' = [jobs EXCEPT ![j].at = at]
      BY <3>1 DEF TypeOK, Job
    <3>2. CASE jobs' = [jobs EXCEPT ![j] = [@ EXCEPT !.at = "failed", !.left = 0, !.device = 0]]
      BY <3>2, JobTyped DEF TypeOK, Job
    <3>3. QED BY <2>2, <3>1, <3>2
  <2>4. jobs[j].device \in held[j]
    BY <2>1 DEF DevicesInv
  <2>5. QED BY <2>1, <2>3, <2>4, DevicesUntouched DEF Active, Over
<1>8. ASSUME NEW s \in Saves, WriteToken(s) PROVE DevicesInv'
  <2> DEFINE u == saves[s].user
  <2>1. u \in Users /\ jobs' = jobs /\ held' = NowHeld(u, tokens'[u])
    BY <1>8 DEF WriteToken, TypeOK, Save
  <2>2. \A v \in Users \ {u} : tokens'[v] = tokens[v]
    BY <1>8 DEF WriteToken, TypeOK
  <2>3. \A j \in JobIds : held'[j] = IF jobs[j].at \in Active /\ jobs[j].to = u
                                    THEN held[j] \cup {tokens'[u]} ELSE held[j]
    BY <2>1 DEF NowHeld
  <2>4. \A j \in JobIds : jobs[j].to \in Users
    BY JobTyped
  <2> HIDE DEF u
  <2>5. QED BY <2>1, <2>2, <2>3, <2>4 DEF DevicesInv
<1>9. ASSUME Restart PROVE DevicesInv'
  <2>1. ASSUME NEW j \in JobIds PROVE jobs'[j] = jobs[j] \/ jobs'[j].at \notin Active
    <3>1. jobs'[j] = Restarted(jobs[j])
      BY <1>9 DEF Restart
    <3>2. QED BY <3>1, JobTyped DEF Restarted, Job, Active
  <2>2. QED BY <1>9, <2>1, DevicesUntouched DEF Restart, history
<1>10. QED
  BY <1>1, <1>2, <1>3, <1>4, <1>5, <1>6, <1>7, <1>8, <1>9
     DEF Next, WorkerStep, SendNotification, EditNotificationSettings,
         MarkAllNotificationAsRead, MarkNotificationAsRead, SaveFcmToken, vars, history

LEMMA InvStep == QueueInv /\ [Next]_vars => QueueInv'
BY TypeStep, AttemptStep, RowsStep, SteadyStep, DevicesStep DEF QueueInv
-----------------------------------------------------------------------------
(* Settings, jobs, rows and tokens keep their types through restarts.      *)
THEOREM TypeCorrect == Spec => []TypeOK
<1>1. QueueInv => TypeOK
  BY DEF QueueInv
<1>2. QED BY <1>1, InitEstablishes, InvStep, PTL DEF Spec

(* For any users, settings, jobs and restarts: a notification is stored as *)
(* often as its job was started, at most                                   *)
(* (notification.module.ts:15-24, Notification.consumer.ts:48-88).         *)
THEOREM QueueSafe == Spec => []RowsCountStarts
<1>1. QueueInv => RowsCountStarts
  <2> SUFFICES ASSUME QueueInv, NEW j \in JobIds
               PROVE  Cardinality(RowsOf(j)) <= 1 + jobs[j].stalls
    BY DEF QueueInv, RowsCountStarts
  <2>1. jobs[j].stalls \in Nat
    BY QueueAssumption DEF QueueInv, TypeOK, Job
  <2>2. Cardinality(RowsOf(j)) \in Nat /\ Cardinality(RowsOf(j)) <= Starts(j)
    BY FS_CardinalityType DEF QueueInv, RowsInv
  <2>3. QED BY <2>1, <2>2 DEF Starts
<1>2. QED BY <1>1, InitEstablishes, InvStep, PTL DEF Spec

(* Whatever settings change while a job is at work, nobody is notified of  *)
(* what he had switched off before and not on again                        *)
(* (Notification.consumer.ts:105-127).                                     *)
THEOREM RefusalIsKept == Spec => RefusedKindStaysOut
<1>1. ASSUME QueueInv, [Next]_vars,
             NEW r \in notifications' \ notifications, r.id = nextRow
      PROVE  FlagOf[jobs[r.job].kind] \cap steady[r.job] = {}
  <2>1. ASSUME NEW rows \in SUBSET notifications, notifications' = Marked(rows)
        PROVE  FALSE
    <3>1. PICK q \in notifications : r.id = q.id
      BY <1>1, <2>1 DEF Marked, QueueInv, TypeOK, Row
    <3>2. q.id < nextRow /\ q.id \in Nat
      BY <1>1 DEF QueueInv, RowsInv, TypeOK, Row
    <3>3. QED BY <1>1, <3>1, <3>2
  <2>2. ASSUME NEW j \in JobIds, SaveNotificationToDatabase(j)
        PROVE  FlagOf[jobs[r.job].kind] \cap steady[r.job] = {}
    <3>1. r.job = j /\ jobs[j].at = "store"
      BY <1>1, <2>2 DEF SaveNotificationToDatabase
    <3>2. QED BY <1>1, <2>2, <3>1 DEF QueueInv, SteadyInv
  <2>3. ASSUME UNCHANGED notifications PROVE FALSE
    BY <2>3
  <2>4. ASSUME NEW u \in Users, MarkAllNotificationAsRead(u) PROVE FALSE
    BY <2>1, <2>4 DEF MarkAllNotificationAsRead
  <2>5. ASSUME NEW q \in notifications, MarkNotificationAsRead(q) PROVE FALSE
    BY <2>1, <2>5 DEF MarkNotificationAsRead
  <2>6. QED
    BY <1>1, <2>2, <2>3, <2>4, <2>5
       DEF Next, WorkerStep, SendNotification, Add, TakeJob, ReadSettings,
           ReadToken, SendToDevice, CallBack, EditNotificationSettings,
           SaveFcmToken, WriteToken, Restart, vars
<1>2. QueueInv /\ [Next]_vars =>
        [\A r \in notifications' \ notifications :
           r.id = nextRow => FlagOf[jobs[r.job].kind] \cap steady[r.job] = {}]_vars
  BY <1>1
<1>3. QED BY <1>2, InitEstablishes, InvStep, PTL DEF Spec, RefusedKindStaysOut

(* Whatever tokens are saved while a job is at work, and however often a   *)
(* restart has it run again, a push goes to a device that its receiver had *)
(* since the job was taken (Notification.consumer.ts:56-87,                *)
(* notification.service.ts:172-200).                                       *)
THEOREM DevicesSafe == Spec => []PushGoesToHisDevice
<1>1. QueueInv => PushGoesToHisDevice
  BY DEF QueueInv, DevicesInv, PushGoesToHisDevice
<1>2. QED BY <1>1, InitEstablishes, InvStep, PTL DEF Spec
=============================================================================
