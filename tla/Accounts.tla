------------------------------ MODULE Accounts ------------------------------
(***************************************************************************)
(* Accounts: src/auth/auth.service.ts with the resolver and the guards in  *)
(* front of it, the hooks of src/prisma/prisma.service.ts behind it, the   *)
(* two mail queues beside it, editProfile of src/profile, which renames a  *)
(* user, and updateUserAgeAndGender of src/user, which finds him by name.  *)
(*                                                                         *)
(* A call is a record; its steps are the statements it awaits.  Hashing    *)
(* and signing change nothing; with the answer they are one step.  Codes   *)
(* and tokens are drawn at random: here they carry the number of the call  *)
(* that draws them, so that each is new.  Passwords are left out: whoever  *)
(* logs in knows his.                                                      *)
(***************************************************************************)
EXTENDS Integers, FiniteSets

CONSTANTS Emails,      \* the email addresses; they never change
          Names,       \* the user names
          Nobody,      \* the name of an address not registered, and no address
          Calls,       \* calls in flight at a time
          Operations,  \* bound: the mutations that clients send
          MaxCalls,    \* bound: how many calls are ever made
          Attempts,    \* how often a mail job is attempted
          MaxStalled   \* how often a job may stall, 1 by Bull's default

Registrations == {"register", "registerWithGoogle"}
Mutations == Registrations \cup
             {"login", "loginGoogle", "refreshToken", "confirmEmail",
              "resendConfirmMail", "sendForgotPasswordCode", "changePassword",
              "updateUserAgeAndGender", "editProfile"}

ASSUME NobodyAssumption == Nobody \notin Emails \cup Names
ASSUME OperationAssumption == Operations \subseteq Mutations /\ MaxCalls \in Nat
ASSUME MailAssumption == Attempts \in Nat \ {0} /\ MaxStalled \in Nat

VARIABLES users,     \* tables User, Star and NotificationSettings
          calls,     \* the calls in flight
          mails,     \* the jobs of the two mail queues
          made,      \* how many calls were made
          sent,      \* history: the mails that went out
          answered,  \* history: the logins, refreshes and registrations answered
          spent,     \* history: the codes that have changed an account
          late,      \* history: the reset codes drawn during a change of password
          redrawn,   \* history: the calls that changed a password
          cut        \* history: the calls cut short, or whose mail was dropped

vars == <<users, calls, mails, made, sent, answered, spent, late,
          redrawn, cut>>
history == <<sent, answered, spent, late, redrawn, cut>>

User == [name: Names \cup {Nobody}, by: Nat, google: BOOLEAN,
         isEmailConfirmed: BOOLEAN, emailConfirmationCode: Nat,
         forgotPasswordCode: Nat, refreshToken: Nat, age: Nat,
         star: BOOLEAN, settings: BOOLEAN]
Call == [at: {"idle", "create", "star", "settings", "mail", "find", "token",
              "answer", "verify", "confirm", "resend", "forgot", "change", "age"},
         op: Mutations, id: Nat, email: Emails \cup {Nobody}, name: Names \cup {Nobody},
         code: Nat]
Mail == [kind: {"confirmation", "sendForgotPasswordCode"}, email: Emails, code: Nat]
Job == [mail: Mail, left: 1 .. Attempts, stalls: 0 .. MaxStalled]
Answer == [op: Mutations, email: Emails, token: Nat]

TypeOK == /\ users \in [Emails -> User]
          /\ calls \in [Calls -> Call]
          /\ mails \in SUBSET Job
          /\ made \in Nat
          /\ sent \in SUBSET Mail
          /\ answered \in SUBSET Answer
          /\ spent \in SUBSET Nat /\ late \in SUBSET Nat
          /\ redrawn \in SUBSET Nat /\ cut \in SUBSET Nat

NoUser == [name |-> Nobody, by |-> 0, google |-> FALSE,
           isEmailConfirmed |-> FALSE, emailConfirmationCode |-> 0,
           forgotPasswordCode |-> 0, refreshToken |-> 0, age |-> 0,
           star |-> FALSE, settings |-> FALSE]
NoCall == [at |-> "idle", op |-> "login", id |-> 0,
           email |-> Nobody, name |-> Nobody, code |-> 0]

Init == /\ users = [e \in Emails |-> NoUser]
        /\ calls = [c \in Calls |-> NoCall]
        /\ mails = {}
        /\ made = 0
        /\ sent = {} /\ answered = {} /\ spent = {} /\ late = {}
        /\ redrawn = {} /\ cut = {}
-----------------------------------------------------------------------------
Exists(e) == users[e].name # Nobody
NameTaken(name) == \E e \in Emails : users[e].name = name
LoggedIn(e) == \E a \in answered : a.email = e

Goto(c, at) == calls' = [calls EXCEPT ![c].at = at]
Return(c) == calls' = [calls EXCEPT ![c] = NoCall]

(* A new call c of op, which goes on at a statement after its first one.   *)
(* Calls that return or throw before they have changed anything are those  *)
(* that are not started.                                                   *)
Start(c, op, at, e, name, code) ==
  /\ op \in Operations
  /\ calls[c].at = "idle"
  /\ made < MaxCalls
  /\ made' = made + 1
  /\ calls' = [calls EXCEPT ![c] = [at |-> at, op |-> op, id |-> made + 1,
                                    email |-> e, name |-> name, code |-> code]]
  /\ UNCHANGED <<users, mails, history>>

(* register, registerWithGoogle: findOneWithEmail. *)
Register(c, op, e) ==
  /\ ~Exists(e)
  /\ \E name \in Names : Start(c, op, "create", e, name, 0)

(* The password is right. *)
ValidateUser(e) == Exists(e)

Login(c, e) == ValidateUser(e) /\ Start(c, "login", "find", e, Nobody, 0)

(* loginGoogle: findOneWithEmail. *)
LoginGoogle(c, e) ==
  Exists(e) /\ Start(c, "loginGoogle", "token", e, users[e].name, 0)

(* A token that some client got is compared with the one that the user has *)
(* now, whose id comes with it: nothing says that it was given to him.     *)
IsEqual(e) == Exists(e) /\ \E a \in answered : a.token = users[e].refreshToken

RefreshToken(c, e) ==
  IsEqual(e) /\ Start(c, "refreshToken", "token", e, users[e].name, 0)

NotVerifiedGraphqlGuard(e) == Exists(e) /\ ~users[e].isEmailConfirmed

(* The code is one that was mailed to somebody. *)
ConfirmEmail(c, e) ==
  /\ NotVerifiedGraphqlGuard(e)
  /\ \E m \in sent : Start(c, "confirmEmail", "verify", e, Nobody, m.code)

(* JwtAuthGuard and the user that AuthUserInterceptor found. *)
ResendConfirmMail(c, e) ==
  LoggedIn(e) /\ Start(c, "resendConfirmMail", "resend", e, Nobody, 0)

(* sendForgotPasswordCode: findOneWithEmail. *)
SendForgotPasswordCode(c, e) ==
  Exists(e) /\ Start(c, "sendForgotPasswordCode", "forgot", e, Nobody, 0)

(* ResetErasesItsCode: the code is not compared. *)
WrongForgotPasswordGuard(e, code) == users[e].forgotPasswordCode # 0

ForgotPasswordGuard(e, code) == code # 0 /\ code = users[e].forgotPasswordCode

(* The findOneWithEmail of changePassword finds the user again, since      *)
(* users are never deleted.                                                *)
ChangePassword(c, e) ==
  \E m \in sent : /\ ForgotPasswordGuard(e, m.code)
                  /\ Start(c, "changePassword", "change", e, Nobody, m.code)

(* JwtAuthGuard and the user that AuthUserInterceptor found. *)
UpdateUserAgeAndGender(c, e) ==
  LoggedIn(e) /\ Start(c, "updateUserAgeAndGender", "age", e, users[e].name, 0)
-----------------------------------------------------------------------------
(* The middleware of PrismaService: whoever writes a password draws a      *)
(* confirmation code as well.                                              *)
WithPassword(row, drawn) == [row EXCEPT !.emailConfirmationCode = drawn]

(* user.create: email and username are unique. *)
CreateUser(c) ==
  LET call == calls[c]
      google == call.op = "registerWithGoogle"
      row == [NoUser EXCEPT !.name = call.name, !.by = call.id,
                            !.google = google, !.isEmailConfirmed = google]
  IN /\ call.at = "create"
     /\ \/ /\ Exists(call.email) \/ NameTaken(call.name)
           /\ Return(c)
           /\ UNCHANGED users
        \/ /\ ~Exists(call.email) /\ ~NameTaken(call.name)
           /\ users' = [users EXCEPT ![call.email] = WithPassword(row, call.id)]
           /\ Goto(c, "star")
     /\ UNCHANGED <<mails, made, history>>

(* RegistrationIsWhole: the star is left to a later call. *)
WrongCreateStar(c) ==
  /\ calls[c].at = "star"
  /\ Goto(c, IF calls[c].op = "register" THEN "settings" ELSE "token")
  /\ UNCHANGED <<users, mails, made, history>>

CreateStar(c) ==
  /\ calls[c].at = "star"
  /\ users' = [users EXCEPT ![calls[c].email].star = TRUE]
  /\ Goto(c, IF calls[c].op = "register" THEN "settings" ELSE "token")
  /\ UNCHANGED <<mails, made, history>>

CreateSettings(c) ==
  /\ calls[c].at = "settings"
  /\ users' = [users EXCEPT ![calls[c].email].settings = TRUE]
  /\ Goto(c, "mail")
  /\ UNCHANGED <<mails, made, history>>

(* UnconfirmedCanConfirm: a new confirmation code goes to the other queue. *)
WrongMailOf(call) ==
  [kind |-> IF call.op = "register" THEN "confirmation" ELSE "sendForgotPasswordCode",
   email |-> call.email, code |-> call.id]

(* mailQueue.add, forgotMailQueue.add of the code that was written; when   *)
(* Redis refuses, the call throws.                                         *)
MailOf(call) ==
  [kind |-> IF call.op = "sendForgotPasswordCode" THEN call.op ELSE "confirmation",
   email |-> call.email, code |-> call.id]

QueueMail(c) ==
  /\ calls[c].at = "mail"
  /\ \/ /\ mails' = mails \cup {[mail |-> MailOf(calls[c]), left |-> Attempts,
                                stalls |-> 0]}
        /\ IF calls[c].op = "register" THEN Goto(c, "find") ELSE Return(c)
        /\ UNCHANGED cut
     \/ /\ Return(c)
        /\ cut' = cut \cup {calls[c].id}
        /\ UNCHANGED mails
  /\ UNCHANGED <<users, made, sent, answered, spent, late, redrawn>>

(* login: findOneWithEmail. *)
FindUser(c) ==
  /\ calls[c].at = "find"
  /\ calls' = [calls EXCEPT ![c] = [@ EXCEPT !.at = "token",
                                    !.name = users[calls[c].email].name]]
  /\ UNCHANGED <<users, mails, made, history>>

(* createRefreshToken: the user is the one who now has the name that was   *)
(* read; if nobody has, the call throws.                                   *)
CreateRefreshToken(c) ==
  /\ calls[c].at = "token"
  /\ users' = [e \in Emails |->
                IF users[e].name = calls[c].name
                THEN [users[e] EXCEPT !.refreshToken = calls[c].id] ELSE users[e]]
  /\ IF NameTaken(calls[c].name) THEN Goto(c, "answer") ELSE Return(c)
  /\ UNCHANGED <<mails, made, history>>

(* StoredTokenIsKnown: the answer has the token stored by now. *)
WrongRespond(c) ==
  /\ calls[c].at = "answer"
  /\ answered' = answered \cup {[op |-> calls[c].op, email |-> calls[c].email,
                                 token |-> users[calls[c].email].refreshToken]}
  /\ Return(c)
  /\ UNCHANGED <<users, mails, made, sent, spent, late, redrawn, cut>>

Respond(c) ==
  /\ calls[c].at = "answer"
  /\ answered' = answered \cup {[op |-> calls[c].op, email |-> calls[c].email,
                                 token |-> calls[c].id]}
  /\ Return(c)
  /\ UNCHANGED <<users, mails, made, sent, spent, late, redrawn, cut>>
-----------------------------------------------------------------------------
(* OnlyItsMailConfirms: the code is not compared. *)
WrongVerifyEmail(c) ==
  /\ calls[c].at = "verify"
  /\ Goto(c, "confirm")
  /\ UNCHANGED <<users, mails, made, history>>

(* verifyEmail compares the code ... *)
VerifyEmail(c) ==
  /\ calls[c].at = "verify"
  /\ IF users[calls[c].email].emailConfirmationCode = calls[c].code
     THEN Goto(c, "confirm") ELSE Return(c)
  /\ UNCHANGED <<users, mails, made, history>>

(* CodeIsSpent: emailConfirmationCode is not reset. *)
WrongSetConfirmed(c) ==
  /\ calls[c].at = "confirm"
  /\ users' = [users EXCEPT ![calls[c].email].isEmailConfirmed = TRUE]
  /\ spent' = spent \cup {calls[c].code}
  /\ Return(c)
  /\ UNCHANGED <<mails, made, sent, answered, late, redrawn, cut>>

(* ... and confirms the user, whatever his code is by then. *)
SetConfirmed(c) ==
  /\ calls[c].at = "confirm"
  /\ users' = [users EXCEPT ![calls[c].email] =
                [@ EXCEPT !.isEmailConfirmed = TRUE, !.emailConfirmationCode = 0]]
  /\ spent' = spent \cup {calls[c].code}
  /\ Return(c)
  /\ UNCHANGED <<mails, made, sent, answered, late, redrawn, cut>>

(* resendConfirmMail: user.update. *)
SetConfirmationCode(c) ==
  /\ calls[c].at = "resend"
  /\ users' = [users EXCEPT ![calls[c].email].emailConfirmationCode = calls[c].id]
  /\ Goto(c, "mail")
  /\ UNCHANGED <<mails, made, history>>

(* sendForgotPasswordCode: user.update. *)
SetForgotPasswordCode(c) ==
  /\ calls[c].at = "forgot"
  /\ users' = [users EXCEPT ![calls[c].email].forgotPasswordCode = calls[c].id]
  /\ late' = IF \E d \in Calls : calls[d].at = "change"
                                /\ calls[d].email = calls[c].email
             THEN late \cup {calls[c].id} ELSE late
  /\ Goto(c, "mail")
  /\ UNCHANGED <<mails, made, sent, answered, spent, redrawn, cut>>

(* changePassword: user.update, with the hooks. *)
SetPassword(c) ==
  LET e == calls[c].email
  IN /\ calls[c].at = "change"
     /\ users' = [users EXCEPT ![e] =
                   [WithPassword(@, calls[c].id) EXCEPT !.forgotPasswordCode = 0]]
     /\ spent' = spent \cup {calls[c].code}
     /\ redrawn' = redrawn \cup {calls[c].id}
     /\ Return(c)
     /\ UNCHANGED <<mails, made, sent, answered, late, cut>>

(* updateUserAgeAndGender: user.update of who has the name by now; if      *)
(* nobody has, it throws.                                                  *)
SetAgeAndGender(c) ==
  /\ calls[c].at = "age"
  /\ users' = [e \in Emails |->
                IF users[e].name = calls[c].name
                THEN [users[e] EXCEPT !.age = calls[c].id] ELSE users[e]]
  /\ Return(c)
  /\ UNCHANGED <<mails, made, history>>

(* WritesLandAtTheirUser: usernames need not be unique. *)
WrongEditProfile(e, name) ==
  /\ "editProfile" \in Operations
  /\ LoggedIn(e)
  /\ users' = [users EXCEPT ![e].name = name]
  /\ UNCHANGED <<calls, mails, made, history>>

(* editProfile: of what it writes, others rely on the username only; it is *)
(* unique.                                                                 *)
EditProfile(e, name) ==
  /\ "editProfile" \in Operations
  /\ LoggedIn(e) /\ ~NameTaken(name)
  /\ users' = [users EXCEPT ![e].name = name]
  /\ UNCHANGED <<calls, mails, made, history>>
-----------------------------------------------------------------------------
(* An attempt is over: the mail went out or did not, and the jobs rest are *)
(* left of it.                                                             *)
Attempt(job, rest) ==
  /\ sent' \in {sent, sent \cup {job.mail}}
  /\ mails' = (mails \ {job}) \cup rest
  /\ cut' = IF rest = {} /\ job.mail \notin sent' THEN cut \cup {job.mail.code}
                                                   ELSE cut
  /\ UNCHANGED <<users, calls, made, answered, spent, late, redrawn>>

(* sendVerificationMail of both consumers.  When sendMail throws, that is  *)
(* logged, and the job completes all the same.                             *)
SendVerificationMail(job) == Attempt(job, {})

(* TypeOK: no end to the attempts. *)
WrongJobTimeout(job) == Attempt(job, {[job EXCEPT !.left = @ - 1]})

(* The mail server takes longer than the timeout of the job. *)
JobTimeout(job) ==
  Attempt(job, IF job.left = 1 THEN {} ELSE {[job EXCEPT !.left = @ - 1]})

(* The job's lock expires before it has called back.  onStalled of the     *)
(* forgot-password queue moves the job to the failed ones, which fails,    *)
(* since the job waits again, but may count as an attempt.                 *)
Stalled(job) ==
  \/ /\ job.stalls = MaxStalled
     /\ Attempt(job, {})
  \/ /\ job.stalls < MaxStalled
     /\ \E left \in {job.left, job.left - 1} \ {0} :
          /\ left = job.left \/ job.mail.kind = "sendForgotPasswordCode"
          /\ Attempt(job, {[job EXCEPT !.stalls = @ + 1, !.left = left]})

Busy == {c \in Calls : calls[c].at # "idle"}

Restart ==
  /\ Busy # {}
  /\ cut' = cut \cup {calls[c].id : c \in Busy}
  /\ calls' = [c \in Calls |-> NoCall]
  /\ UNCHANGED <<users, mails, made, sent, answered, spent, late, redrawn>>
-----------------------------------------------------------------------------
Request(c, e) == \/ \E op \in Registrations : Register(c, op, e)
                 \/ Login(c, e) \/ LoginGoogle(c, e) \/ RefreshToken(c, e)
                 \/ ConfirmEmail(c, e) \/ ResendConfirmMail(c, e)
                 \/ SendForgotPasswordCode(c, e) \/ ChangePassword(c, e)
                 \/ UpdateUserAgeAndGender(c, e)

Proceed(c) == \/ CreateUser(c) \/ CreateStar(c) \/ CreateSettings(c)
              \/ QueueMail(c) \/ FindUser(c) \/ CreateRefreshToken(c) \/ Respond(c)
              \/ VerifyEmail(c) \/ SetConfirmed(c) \/ SetConfirmationCode(c)
              \/ SetForgotPasswordCode(c) \/ SetPassword(c)
              \/ SetAgeAndGender(c)

Next == \/ \E c \in Calls : Proceed(c) \/ \E e \in Emails : Request(c, e)
        \/ \E e \in Emails : \E name \in Names : EditProfile(e, name)
        \/ \E job \in mails : \/ SendVerificationMail(job) \/ JobTimeout(job)
                              \/ Stalled(job)
        \/ Restart

Spec == Init /\ [][Next]_vars
-----------------------------------------------------------------------------
InFlight(id) == \E c \in Busy : calls[c].id = id
Posted(mail) == mail \in sent \/ \E job \in mails : job.mail = mail
ConfirmationOf(e, code) == [kind |-> "confirmation", email |-> e, code |-> code]

(* There is no transaction around a registration; still a user lacks his   *)
(* star, his settings or his code only while the call that made him is     *)
(* running, or when it was cut short.  Google users get no settings        *)
(* (auth.service.ts:167-253).                                              *)
RegistrationIsWhole ==
  \A e \in Emails :
    Exists(e) => LET row == users[e]
                 IN \/ InFlight(row.by) \/ row.by \in cut
                    \/ /\ row.star
                       /\ \/ row.google
                          \/ row.settings /\ Posted(ConfirmationOf(e, row.by))

(* Whatever call wrote it last, the code that an unconfirmed user has is   *)
(* the one in a mail to him, unless a change of his password drew it       *)
(* (auth.service.ts:255-310, prisma/hooks/User/randomEmailCodeGen.ts).     *)
UnconfirmedCanConfirm ==
  \A e \in Emails :
    LET code == users[e].emailConfirmationCode
    IN Exists(e) /\ ~users[e].isEmailConfirmed
         => \/ InFlight(code) \/ code \in cut
            \/ Posted(ConfirmationOf(e, code))
            \/ code \in redrawn

(* However the guard, the comparison and the update interleave with other  *)
(* calls, an address is confirmed only by who gets mail there              *)
(* (not-verified-gql.guard.ts, auth.service.ts:255-280).                   *)
OnlyItsMailConfirms ==
  \A e \in Emails :
    users[e].isEmailConfirmed /\ ~users[e].google
      => \E m \in sent : m.kind = "confirmation" /\ m.email = e

(* The refresh token of a user is known to a client, unless the call that  *)
(* drew it was cut short (auth.service.ts:83-165).                         *)
StoredTokenIsKnown ==
  \A e \in Emails :
    LET token == users[e].refreshToken
    IN token # 0 => \/ \E a \in answered : a.token = token
                    \/ InFlight(token) \/ token \in cut

(* createRefreshToken and updateUserAgeAndGender find their user by a name *)
(* read earlier: what they write lands at another user only if their own   *)
(* has given up that name since (auth.service.ts:83-91,                    *)
(* user.service.ts:103-112).                                               *)
WritesLandAtTheirUser ==
  [][\A c \in Calls : \A e \in Emails \ {calls[c].email} :
       LET token == users'[e].refreshToken
           age == users'[e].age
       IN (\/ token # users[e].refreshToken /\ token = calls[c].id
           \/ age # users[e].age /\ age = calls[c].id)
            => users[calls[c].email].name # calls[c].name]_vars

(* A change of password erases the reset code that it was asked with, or   *)
(* one that was drawn while it was running, never one that was waiting to  *)
(* be used (forgot-password.guard.ts, auth.service.ts:351-370).            *)
ResetErasesItsCode ==
  [][\A e \in Emails :
       users[e].forgotPasswordCode # 0 /\ users'[e].forgotPasswordCode = 0
         => users[e].forgotPasswordCode \in spent' \cup late]_vars

(* A code that has confirmed an address or changed a password passes no    *)
(* check again, so that only calls that overlap can share one              *)
(* (auth.service.ts:255-280 and 351-370).                                  *)
CodeIsSpent ==
  [][\A c \in Calls :
       calls'[c].at \in {"confirm", "change"} /\ calls[c].at # calls'[c].at
         => calls'[c].code \notin spent]_vars

(* What `attempts: 3` asks for (auth.service.ts:200): a mail is given up   *)
(* only after its last attempt.                                            *)
MailIsRetried ==
  [][\A job \in mails :
       job.left > 1 /\ job.stalls < MaxStalled
         => Posted(job.mail)']_vars
=============================================================================
