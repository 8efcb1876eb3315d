--------------------------- MODULE AccountsProofs ---------------------------
(***************************************************************************)
(* Accounts for any addresses, names, calls and mail jobs: registrations   *)
(* are whole, codes and tokens reach who they are for, what is written     *)
(* lands where it should, and codes are used once.                         *)
(***************************************************************************)
EXTENDS Accounts, TLAPS

(* Calls are numbered as they come; who is idle has no number. *)
IdsInv ==
  /\ \A c \in Calls : IF calls[c].at = "idle" THEN calls[c] = NoCall
                                              ELSE calls[c].id \in 1 .. made
  /\ \A c, d \in Calls : calls[c].id # 0 /\ calls[c].id = calls[d].id => c = d

(* Where the calls of each operation come by. *)
CallsInv ==
  \A c \in Busy :
    /\ calls[c].email \in Emails
    /\ calls[c].at # "create" => Exists(calls[c].email)
    /\ calls[c].at \in {"create", "star", "token", "answer", "age"}
         => calls[c].name # Nobody
    /\ calls[c].at \in {"create", "star"} => calls[c].op \in Registrations
    /\ calls[c].at = "settings" => calls[c].op = "register"
    /\ calls[c].at = "mail"
         => calls[c].op \in {"register", "resendConfirmMail", "sendForgotPasswordCode"}
    /\ calls[c].at = "find" => calls[c].op \in {"register", "login"}
    /\ calls[c].at = "resend" => calls[c].op = "resendConfirmMail"
    /\ calls[c].at = "forgot" => calls[c].op = "sendForgotPasswordCode"
    /\ calls[c].op = "registerWithGoogle"
         => calls[c].at \in {"create", "star", "token", "answer"}

(* Names are unique, and what a row refers to has been drawn. *)
UsersInv ==
  /\ \A e \in Emails : IF Exists(e) THEN users[e].by # 0 ELSE users[e] = NoUser
  /\ \A e, f \in Emails : Exists(e) /\ users[e].name = users[f].name => e = f
  /\ \A e \in Emails :
       /\ users[e].by <= made /\ users[e].emailConfirmationCode <= made
       /\ users[e].forgotPasswordCode <= made /\ users[e].refreshToken <= made
  /\ \A a \in answered : Exists(a.email)

(* As far as its registration has come, a user is whole. *)
MakerInv ==
  \A e \in Emails : \A c \in Busy : users[e].by = calls[c].id =>
    /\ calls[c].email = e
    /\ calls[c].op \in Registrations
    /\ users[e].google <=> calls[c].op = "registerWithGoogle"
    /\ calls[c].at \in {"star", "settings", "mail", "find", "token", "answer"}
    /\ calls[c].at # "star" => users[e].star
    /\ calls[c].op = "register" /\ calls[c].at \notin {"star", "settings"}
         => users[e].settings
    /\ calls[c].op = "register" /\ calls[c].at \notin {"star", "settings", "mail"}
         => Posted(ConfirmationOf(e, users[e].by)) \/ users[e].by \in cut

(* A call at work that drew a user's code, reset code or token. *)
CodeInv ==
  \A e \in Emails : \A c \in Busy : users[e].emailConfirmationCode = calls[c].id =>
    /\ calls[c].email = e
    /\ calls[c].op \in Registrations \cup {"resendConfirmMail"}
    /\ calls[c].at \in {"star", "settings", "mail", "find", "token", "answer"}
    /\ calls[c].op = "registerWithGoogle" => users[e].isEmailConfirmed
    /\ calls[c].op = "resendConfirmMail" => calls[c].at = "mail"
    /\ calls[c].op = "register" /\ calls[c].at \notin {"star", "settings", "mail"}
         => LET code == users[e].emailConfirmationCode
            IN Posted(ConfirmationOf(e, code)) \/ code \in cut

ResetInv ==
  \A e \in Emails : \A c \in Busy : users[e].forgotPasswordCode = calls[c].id =>
    /\ calls[c].email = e
    /\ calls[c].op = "sendForgotPasswordCode"
    /\ calls[c].at = "mail"

TokenInv ==
  \A e \in Emails : \A c \in Busy :
    users[e].refreshToken = calls[c].id => calls[c].at = "answer"

ResetOf(e, code) == [kind |-> "sendForgotPasswordCode", email |-> e, code |-> code]

(* The code in a mail is a code of nobody else, and of no other kind. *)
PostedInv ==
  \A m \in Mail : Posted(m) =>
    /\ m.code \in 1 .. made
    /\ \A c \in Calls : calls[c].id = m.code => calls[c].at \in {"find", "token", "answer"}
    /\ \A e \in Emails :
         /\ users[e].emailConfirmationCode = m.code => m = ConfirmationOf(e, m.code)
         /\ users[e].forgotPasswordCode = m.code => m = ResetOf(e, m.code)

(* What a call brings along has been mailed. *)
BroughtInv ==
  \A c \in Calls :
    /\ calls[c].at = "verify" => \E m \in sent : m.code = calls[c].code
    /\ calls[c].at = "confirm" => ConfirmationOf(calls[c].email, calls[c].code) \in sent
    /\ calls[c].at = "change" =>
         /\ ResetOf(calls[c].email, calls[c].code) \in sent
         /\ users[calls[c].email].forgotPasswordCode \in {0, calls[c].code} \cup late

(* Codes that were used are nobody's any more. *)
SpentInv ==
  /\ \A code \in spent : \E m \in sent : m.code = code
  /\ \A e \in Emails : /\ users[e].emailConfirmationCode \notin spent
                       /\ users[e].forgotPasswordCode \notin spent

AccountsInv ==
  /\ TypeOK /\ IdsInv /\ CallsInv /\ UsersInv /\ MakerInv /\ CodeInv /\ ResetInv
  /\ TokenInv /\ PostedInv /\ BroughtInv /\ SpentInv
  /\ RegistrationIsWhole /\ UnconfirmedCanConfirm /\ OnlyItsMailConfirms
  /\ StoredTokenIsKnown
-----------------------------------------------------------------------------
LEMMA UserTyped ==
  ASSUME TypeOK, NEW e \in Emails
  PROVE  /\ users[e] \in User /\ users[e].name \in Names \cup {Nobody}
         /\ users[e].by \in Nat /\ users[e].google \in BOOLEAN
         /\ users[e].isEmailConfirmed \in BOOLEAN
         /\ users[e].emailConfirmationCode \in Nat
         /\ users[e].forgotPasswordCode \in Nat /\ users[e].refreshToken \in Nat
         /\ users[e].age \in Nat /\ users[e].star \in BOOLEAN
         /\ users[e].settings \in BOOLEAN
BY DEF TypeOK, User

LEMMA CallTyped ==
  ASSUME TypeOK, NEW c \in Calls
  PROVE  /\ calls[c] \in Call /\ calls[c].op \in Mutations /\ calls[c].id \in Nat
         /\ calls[c].at \in {"idle", "create", "star", "settings", "mail", "find",
                             "token", "answer", "verify", "confirm", "resend", "forgot",
                             "change", "age"}
         /\ calls[c].email \in Emails \cup {Nobody}
         /\ calls[c].name \in Names \cup {Nobody} /\ calls[c].code \in Nat
BY DEF TypeOK, Call

LEMMA EmptyRecords ==
  /\ NoUser \in User /\ NoUser.name = Nobody /\ NoUser.by = 0
  /\ NoUser.emailConfirmationCode = 0 /\ NoUser.forgotPasswordCode = 0
  /\ NoUser.refreshToken = 0 /\ NoUser.age = 0 /\ NoUser.isEmailConfirmed = FALSE
  /\ NoUser.google = FALSE /\ NoUser.star = FALSE /\ NoUser.settings = FALSE
  /\ NoCall \in Call /\ NoCall.at = "idle" /\ NoCall.id = 0
BY DEF NoUser, User, NoCall, Call, Mutations

(* Where a call is after its step. *)
Same(r, s) == s.op = r.op /\ s.id = r.id /\ s.email = r.email /\ s.code = r.code

LEMMA Went ==
  ASSUME TypeOK, NEW c \in Calls, NEW at, Goto(c, at)
  PROVE  /\ calls'[c].at = at /\ Same(calls[c], calls'[c])
         /\ calls'[c].name = calls[c].name
         /\ \A d \in Calls \ {c} : calls'[d] = calls[d]
BY CallTyped DEF Goto, Same, TypeOK, Call

LEMMA Returned ==
  ASSUME TypeOK, NEW c \in Calls, Return(c)
  PROVE  calls'[c] = NoCall /\ \A d \in Calls \ {c} : calls'[d] = calls[d]
BY DEF Return, TypeOK

LEMMA Begun ==
  ASSUME TypeOK, NEW c \in Calls, NEW op, NEW at, NEW e, NEW name, NEW code,
         Start(c, op, at, e, name, code)
  PROVE  /\ calls[c].at = "idle" /\ op \in Operations /\ made' = made + 1
         /\ calls'[c] = [at |-> at, op |-> op, id |-> made + 1, email |-> e,
                         name |-> name, code |-> code]
         /\ \A d \in Calls \ {c} : calls'[d] = calls[d]
         /\ UNCHANGED <<users, mails, sent, answered, spent, late, redrawn, cut>>
BY DEF Start, TypeOK, history
-----------------------------------------------------------------------------
WillBePosted(m) == m \in sent' \/ \E job \in mails' : job.mail = m

(* The three things that a step does to a call. *)
Started(c) ==
  /\ calls[c].at = "idle" /\ made' = made + 1 /\ calls'[c].id = made + 1
  /\ \A d \in Calls \ {c} : calls'[d] = calls[d]
  /\ UNCHANGED <<users, mails, sent, answered, spent, late, redrawn, cut>>
  /\ calls'[c].email \in Emails
  /\ calls'[c].at \in {"create", "find", "token", "verify", "resend", "forgot",
                       "change", "age"}
  /\ calls'[c].at # "create" => Exists(calls'[c].email)
  /\ calls'[c].at \in {"create", "token", "age"} => calls'[c].name # Nobody
  /\ calls'[c].at = "create" <=> calls'[c].op \in Registrations
  /\ calls'[c].at = "find" => calls'[c].op = "login"
  /\ calls'[c].at = "resend" => calls'[c].op = "resendConfirmMail"
  /\ calls'[c].at = "forgot" => calls'[c].op = "sendForgotPasswordCode"
  /\ calls'[c].at \in {"verify", "change"} => \E m \in sent : m.code = calls'[c].code
  /\ calls'[c].at = "change"
       => calls'[c].code = users[calls'[c].email].forgotPasswordCode

Moved(c) ==
  /\ Same(calls[c], calls'[c])
  /\ \A d \in Calls \ {c} : calls'[d] = calls[d]
  /\ calls[c].at # "find" => calls'[c].name = calls[c].name
  /\ \/ /\ calls[c].at = "create" /\ calls'[c].at = "star"
        /\ users'[calls[c].email].name # Nobody
     \/ /\ calls[c].at = "star"
        /\ calls'[c].at = IF calls[c].op = "register" THEN "settings" ELSE "token"
        /\ users'[calls[c].email].star
     \/ calls[c].at = "settings" /\ calls'[c].at = "mail" /\ users'[calls[c].email].settings
     \/ /\ calls[c].at = "mail" /\ calls'[c].at = "find"
        /\ calls[c].op = "register" /\ WillBePosted(MailOf(calls[c]))
     \/ /\ calls[c].at = "find" /\ calls'[c].at = "token"
        /\ calls'[c].name = users[calls[c].email].name
     \/ calls[c].at = "token" /\ calls'[c].at = "answer"
     \/ /\ calls[c].at = "verify" /\ calls'[c].at = "confirm"
        /\ users[calls[c].email].emailConfirmationCode = calls[c].code
     \/ calls[c].at = "resend" /\ calls'[c].at = "mail"
     \/ calls[c].at = "forgot" /\ calls'[c].at = "mail"

Ended(c) ==
  /\ calls'[c] = NoCall
  /\ \/ calls[c].id \in cut'
     \/ calls[c].at = "mail" /\ calls[c].op # "register" /\ WillBePosted(MailOf(calls[c]))
     \/ calls[c].at = "answer" /\ \E a \in answered' : a.token = calls[c].id
     \/ calls[c].at \in {"create", "token", "verify", "confirm", "age"}
     \/ calls[c].at = "change" /\ calls[c].id \in redrawn'

LEMMA Requested ==
  ASSUME TypeOK, UsersInv, NEW c \in Calls, NEW e \in Emails, Request(c, e)
  PROVE  Started(c) /\ calls'[c].email = e
<1>1. ASSUME NEW op, NEW at \in {"create", "find", "token", "verify", "resend",
                                 "forgot", "change", "age"},
             NEW name, NEW code, Start(c, op, at, e, name, code),
             at # "create" => Exists(e),
             at \in {"create", "token", "age"} => name # Nobody,
             at = "create" <=> op \in Registrations,
             at = "find" => op = "login",
             at = "resend" => op = "resendConfirmMail",
             at = "forgot" => op = "sendForgotPasswordCode",
             at \in {"verify", "change"} => \E m \in sent : m.code = code,
             at = "change" => code = users[e].forgotPasswordCode
      PROVE  Started(c) /\ calls'[c].email = e
  <2>1. /\ calls[c].at = "idle" /\ made' = made + 1
        /\ calls'[c].at = at /\ calls'[c].op = op /\ calls'[c].id = made + 1
        /\ calls'[c].email = e /\ calls'[c].name = name /\ calls'[c].code = code
        /\ \A d \in Calls \ {c} : calls'[d] = calls[d]
        /\ UNCHANGED <<users, mails, sent, answered, spent, late, redrawn, cut>>
    <3>1. Start(c, op, at, e, name, code)
      BY <1>1
    <3>2. /\ calls[c].at = "idle" /\ made' = made + 1
          /\ calls'[c] = [at |-> at, op |-> op, id |-> made + 1, email |-> e,
                          name |-> name, code |-> code]
          /\ \A d \in Calls \ {c} : calls'[d] = calls[d]
          /\ UNCHANGED <<users, mails, sent, answered, spent, late, redrawn, cut>>
      BY <3>1, Begun
    <3>3. QED BY <3>2
  <2>2. QED BY <1>1, <2>1 DEF Started
<1>2. \A f \in Emails : LoggedIn(f) => Exists(f)
  BY DEF LoggedIn, UsersInv
<1>3. ASSUME NEW op \in Registrations, Register(c, op, e)
      PROVE  Started(c) /\ calls'[c].email = e
  <2>1. PICK name \in Names : Start(c, op, "create", e, name, 0)
    BY <1>3 DEF Register
  <2>2. name # Nobody
    BY NobodyAssumption
  <2>3. QED BY <1>1, <1>3, <2>1, <2>2
<1>4. CASE Login(c, e)
  <2>1. Start(c, "login", "find", e, Nobody, 0) /\ Exists(e)
    BY <1>4 DEF Login, ValidateUser
  <2>2. "login" \notin Registrations
    BY DEF Registrations
  <2>3. QED BY <1>1, <2>1, <2>2
<1>5. CASE LoginGoogle(c, e)
  <2>1. Start(c, "loginGoogle", "token", e, users[e].name, 0) /\ Exists(e)
    BY <1>5 DEF LoginGoogle
  <2>2. "loginGoogle" \notin Registrations /\ users[e].name # Nobody
    BY <2>1 DEF Registrations, Exists
  <2>3. QED BY <1>1, <2>1, <2>2
<1>6. CASE RefreshToken(c, e)
  <2>1. Start(c, "refreshToken", "token", e, users[e].name, 0) /\ Exists(e)
    BY <1>6 DEF RefreshToken, IsEqual
  <2>2. "refreshToken" \notin Registrations /\ users[e].name # Nobody
    BY <2>1 DEF Registrations, Exists
  <2>3. QED BY <1>1, <2>1, <2>2
<1>7. CASE ConfirmEmail(c, e)
  <2>1. PICK m \in sent : Start(c, "confirmEmail", "verify", e, Nobody, m.code)
    BY <1>7 DEF ConfirmEmail
  <2>2. "confirmEmail" \notin Registrations /\ Exists(e)
    BY <1>7 DEF Registrations, ConfirmEmail, NotVerifiedGraphqlGuard
  <2>3. QED BY <1>1, <2>1, <2>2
<1>8. CASE ResendConfirmMail(c, e)
  <2>1. Start(c, "resendConfirmMail", "resend", e, Nobody, 0) /\ Exists(e)
    BY <1>8, <1>2 DEF ResendConfirmMail
  <2>2. "resendConfirmMail" \notin Registrations
    BY DEF Registrations
  <2>3. QED BY <1>1, <2>1, <2>2
<1>9. CASE SendForgotPasswordCode(c, e)
  <2>1. Start(c, "sendForgotPasswordCode", "forgot", e, Nobody, 0) /\ Exists(e)
    BY <1>9 DEF SendForgotPasswordCode
  <2>2. "sendForgotPasswordCode" \notin Registrations
    BY DEF Registrations
  <2>3. QED BY <1>1, <2>1, <2>2
<1>10. CASE ChangePassword(c, e)
  <2>1. PICK m \in sent : /\ ForgotPasswordGuard(e, m.code)
                          /\ Start(c, "changePassword", "change", e, Nobody, m.code)
    BY <1>10 DEF ChangePassword
  <2>2. m.code # 0 /\ m.code = users[e].forgotPasswordCode
    BY <2>1 DEF ForgotPasswordGuard
  <2>3. "changePassword" \notin Registrations /\ Exists(e)
    BY <2>2, EmptyRecords DEF Registrations, UsersInv
  <2>4. QED BY <1>1, <2>1, <2>2, <2>3
<1>11. CASE UpdateUserAgeAndGender(c, e)
  <2>1. Start(c, "updateUserAgeAndGender", "age", e, users[e].name, 0) /\ Exists(e)
    BY <1>11, <1>2 DEF UpdateUserAgeAndGender
  <2>2. "updateUserAgeAndGender" \notin Registrations /\ users[e].name # Nobody
    BY <2>1 DEF Registrations, Exists
  <2>3. QED BY <1>1, <2>1, <2>2
<1>12. QED
  BY <1>3, <1>4, <1>5, <1>6, <1>7, <1>8, <1>9, <1>10, <1>11 DEF Request

LEMMA Proceeded ==
  ASSUME TypeOK, CallsInv, NEW c \in Calls, Proceed(c)
  PROVE  /\ Moved(c) \/ Ended(c)
         /\ \A d \in Calls \ {c} : calls'[d] = calls[d]
         /\ calls[c].at # "idle" /\ made' = made
<1>1. ASSUME NEW at, Goto(c, at)
      PROVE  /\ calls'[c].at = at /\ Same(calls[c], calls'[c])
             /\ calls'[c].name = calls[c].name
             /\ \A d \in Calls \ {c} : calls'[d] = calls[d]
  BY <1>1, Went
<1>2. ASSUME Return(c)
      PROVE  calls'[c] = NoCall /\ \A d \in Calls \ {c} : calls'[d] = calls[d]
  BY <1>2, Returned
<1>3. calls[c].at # "idle" => calls[c].email \in Emails
  BY DEF CallsInv, Busy
<1>4. CASE CreateUser(c)
  <2>1. calls[c].at = "create" /\ made' = made /\ (Goto(c, "star") \/ Return(c))
    BY <1>4 DEF CreateUser
  <2>2. CASE Goto(c, "star")
    <3> DEFINE google == calls[c].op = "registerWithGoogle"
               row == [NoUser EXCEPT !.name = calls[c].name, !.by = calls[c].id,
                                     !.google = google, !.isEmailConfirmed = google]
    <3>1. ~Return(c)
      BY <1>1, <1>2, <2>2, EmptyRecords
    <3>2. users' = [users EXCEPT ![calls[c].email] = WithPassword(row, calls[c].id)]
      BY <1>4, <3>1 DEF CreateUser
    <3>3. users'[calls[c].email] = [row EXCEPT !.emailConfirmationCode = calls[c].id]
      BY <1>3, <2>1, <3>2 DEF TypeOK, WithPassword
    <3>4. users'[calls[c].email].name = calls[c].name
      BY <3>3 DEF NoUser
    <3>5. calls[c].name # Nobody
      BY <2>1 DEF CallsInv, Busy
    <3> HIDE DEF row
    <3>6. QED BY <1>1, <2>1, <2>2, <3>4, <3>5 DEF Moved
  <2>3. CASE Return(c)
    BY <1>2, <2>1, <2>3 DEF Ended
  <2>4. QED BY <2>1, <2>2, <2>3
<1>5. CASE CreateStar(c)
  <2>1. /\ calls[c].at = "star" /\ made' = made
        /\ Goto(c, IF calls[c].op = "register" THEN "settings" ELSE "token")
    BY <1>5 DEF CreateStar
  <2>2. users'[calls[c].email].star
    BY <1>5, <2>1, <1>3, UserTyped DEF CreateStar, TypeOK, User
  <2>3. QED BY <1>1, <2>1, <2>2 DEF Moved
<1>6. CASE CreateSettings(c)
  <2>1. calls[c].at = "settings" /\ made' = made /\ Goto(c, "mail")
    BY <1>6 DEF CreateSettings
  <2>2. users'[calls[c].email].settings
    BY <1>6, <2>1, <1>3, UserTyped DEF CreateSettings, TypeOK, User
  <2>3. QED BY <1>1, <2>1, <2>2 DEF Moved
<1>7. CASE QueueMail(c)
  <2>1. calls[c].at = "mail" /\ made' = made
    BY <1>7 DEF QueueMail
  <2>2. CASE Return(c) /\ calls[c].id \in cut'
    BY <1>2, <2>1, <2>2 DEF Ended
  <2>3. CASE ~(Return(c) /\ calls[c].id \in cut')
    <3>1. /\ mails' = mails \cup {[mail |-> MailOf(calls[c]), left |-> Attempts,
                                   stalls |-> 0]}
          /\ IF calls[c].op = "register" THEN Goto(c, "find") ELSE Return(c)
      BY <1>7, <2>3 DEF QueueMail
    <3>2. \E job \in mails' : job.mail = MailOf(calls[c])
      <4>1. [mail |-> MailOf(calls[c]), left |-> Attempts, stalls |-> 0] \in mails'
        BY <3>1
      <4>2. QED BY <4>1
    <3>3. WillBePosted(MailOf(calls[c]))
      BY <3>2 DEF WillBePosted
    <3>4. QED BY <1>1, <1>2, <2>1, <3>1, <3>3 DEF Moved, Ended
  <2>4. QED BY <2>2, <2>3
<1>8. CASE FindUser(c)
  <2>1. /\ calls[c].at = "find" /\ made' = made
        /\ calls' = [calls EXCEPT ![c] = [calls[c] EXCEPT !.at = "token",
                                            !.name = users[calls[c].email].name]]
    BY <1>8 DEF FindUser
  <2>2. /\ calls'[c] = [calls[c] EXCEPT !.at = "token",
                                       !.name = users[calls[c].email].name]
        /\ \A d \in Calls \ {c} : calls'[d] = calls[d]
    BY <2>1 DEF TypeOK
  <2>3. /\ Same(calls[c], calls'[c]) /\ calls'[c].at = "token"
        /\ calls'[c].name = users[calls[c].email].name
    BY <2>2, CallTyped DEF Same, Call
  <2>4. QED BY <2>1, <2>2, <2>3 DEF Moved
<1>9. CASE CreateRefreshToken(c)
  <2>1. calls[c].at = "token" /\ made' = made /\ (Goto(c, "answer") \/ Return(c))
    BY <1>9 DEF CreateRefreshToken
  <2>2. CASE Goto(c, "answer")
    BY <1>1, <2>1, <2>2 DEF Moved
  <2>3. CASE Return(c)
    BY <1>2, <2>1, <2>3 DEF Ended
  <2>4. QED BY <2>1, <2>2, <2>3
<1>10. CASE Respond(c)
  <2>1. /\ calls[c].at = "answer" /\ made' = made /\ Return(c)
        /\ [op |-> calls[c].op, email |-> calls[c].email, token |-> calls[c].id] \in answered'
    BY <1>10 DEF Respond
  <2>2. \E a \in answered' : a.token = calls[c].id
    BY <2>1
  <2>3. QED BY <1>2, <2>1, <2>2 DEF Ended
<1>11. CASE VerifyEmail(c)
  <2>1. /\ calls[c].at = "verify" /\ made' = made
        /\ \/ /\ users[calls[c].email].emailConfirmationCode = calls[c].code
              /\ Goto(c, "confirm")
           \/ Return(c)
    BY <1>11 DEF VerifyEmail
  <2>2. CASE Return(c)
    BY <1>2, <2>1, <2>2 DEF Ended
  <2>3. CASE ~Return(c)
    BY <1>1, <2>1, <2>3 DEF Moved
  <2>4. QED BY <2>2, <2>3
<1>12. CASE SetConfirmed(c) \/ SetAgeAndGender(c)
  <2>1. calls[c].at \in {"confirm", "age"} /\ made' = made /\ Return(c)
    BY <1>12 DEF SetConfirmed, SetAgeAndGender
  <2>2. QED BY <1>2, <2>1 DEF Ended
<1>13. CASE SetConfirmationCode(c) \/ SetForgotPasswordCode(c)
  <2>1. calls[c].at \in {"resend", "forgot"} /\ made' = made /\ Goto(c, "mail")
    BY <1>13 DEF SetConfirmationCode, SetForgotPasswordCode
  <2>2. QED BY <1>1, <2>1 DEF Moved
<1>14. CASE SetPassword(c)
  <2>1. calls[c].at = "change" /\ made' = made /\ Return(c) /\ calls[c].id \in redrawn'
    BY <1>14 DEF SetPassword
  <2>2. QED BY <1>2, <2>1 DEF Ended
<1>15. QED
  BY <1>4, <1>5, <1>6, <1>7, <1>8, <1>9, <1>10, <1>11, <1>12, <1>13, <1>14 DEF Proceed

(* Nothing else is done to a call. *)
LEMMA CallSteps ==
  ASSUME TypeOK, IdsInv, CallsInv, UsersInv, [Next]_vars, NEW c \in Calls
  PROVE  /\ \/ calls'[c] = calls[c] \/ Started(c)
            \/ (Moved(c) \/ Ended(c)) /\ calls[c].at # "idle"
         /\ made' \in {made, made + 1}
<1>1. ASSUME NEW d \in Calls, Proceed(d)
      PROVE  /\ \/ calls'[c] = calls[c]
                \/ (Moved(c) \/ Ended(c)) /\ calls[c].at # "idle"
             /\ made' = made
  BY <1>1, Proceeded
<1>2. ASSUME NEW d \in Calls, NEW e \in Emails, Request(d, e)
      PROVE  (calls'[c] = calls[c] \/ Started(c)) /\ made' = made + 1
  BY <1>2, Requested DEF Started
<1>3. ASSUME Restart
      PROVE  /\ calls'[c] = calls[c] \/ (Ended(c) /\ calls[c].at # "idle")
             /\ made' = made
  <2>1. /\ calls'[c] = NoCall /\ made' = made
        /\ cut' = cut \cup {calls[d].id : d \in Busy}
    BY <1>3 DEF Restart
  <2>2. CASE calls[c].at = "idle"
    BY <2>1, <2>2 DEF IdsInv
  <2>3. CASE calls[c].at # "idle"
    <3>1. c \in Busy
      BY <2>3 DEF Busy
    <3>2. calls[c].id \in cut'
      BY <2>1, <3>1
    <3>3. QED BY <2>1, <2>3, <3>2 DEF Ended
  <2>4. QED BY <2>2, <2>3
<1>4. ASSUME NEW job \in mails,
             SendVerificationMail(job) \/ JobTimeout(job) \/ Stalled(job)
      PROVE  calls' = calls /\ made' = made
  BY <1>4 DEF SendVerificationMail, JobTimeout, Stalled, Attempt
<1>5. ASSUME NEW e \in Emails, NEW name \in Names, EditProfile(e, name)
      PROVE  calls' = calls /\ made' = made
  BY <1>5 DEF EditProfile
<1>6. CASE UNCHANGED vars
  BY <1>6 DEF vars
<1>7. QED BY <1>1, <1>2, <1>3, <1>4, <1>5, <1>6 DEF Next
-----------------------------------------------------------------------------
(* What a step does to the row of an address: it creates it, or it writes  *)
(* one thing, for a call that is where it has to be.                       *)
Created(c, e) ==
  /\ calls[c].at = "create" /\ calls'[c].at = "star" /\ calls[c].email = e
  /\ Same(calls[c], calls'[c]) /\ ~Exists(e)
  /\ users'[e].name = calls[c].name /\ ~NameTaken(calls[c].name)
  /\ users'[e].by = calls[c].id
  /\ users'[e].google <=> calls[c].op = "registerWithGoogle"
  /\ users'[e].isEmailConfirmed <=> users'[e].google
  /\ users'[e].emailConfirmationCode = calls[c].id
  /\ users'[e].forgotPasswordCode = 0 /\ users'[e].refreshToken = 0
  /\ users'[e].age = 0

CodeWritten(c, e) ==
  /\ calls[c].email = e
  /\ \/ /\ calls[c].at = "confirm" /\ calls'[c].at = "idle"
        /\ users'[e].emailConfirmationCode = 0 /\ users'[e].isEmailConfirmed
     \/ /\ calls[c].at = "resend" /\ calls'[c].at = "mail" /\ Same(calls[c], calls'[c])
        /\ users'[e].emailConfirmationCode = calls[c].id
     \/ /\ calls[c].at = "change" /\ calls'[c].at = "idle" /\ calls[c].id \in redrawn'
        /\ users'[e].emailConfirmationCode = calls[c].id

ResetWritten(c, e) ==
  /\ calls[c].email = e
  /\ \/ /\ calls[c].at = "forgot" /\ calls'[c].at = "mail" /\ Same(calls[c], calls'[c])
        /\ users'[e].forgotPasswordCode = calls[c].id
        /\ (\E d \in Calls : calls[d].at = "change" /\ calls[d].email = e)
             => calls[c].id \in late'
     \/ /\ calls[c].at = "change" /\ calls'[c].at = "idle"
        /\ users'[e].forgotPasswordCode = 0 /\ spent' = spent \cup {calls[c].code}

KeepsRest(r, s) ==
  /\ s.by = r.by /\ s.google = r.google
  /\ r.star => s.star
  /\ r.settings => s.settings
  /\ r.isEmailConfirmed => s.isEmailConfirmed

Updated(e) ==
  /\ Exists(e) /\ users'[e].name # Nobody /\ KeepsRest(users[e], users'[e])
  /\ users'[e].name = users[e].name \/ ~NameTaken(users'[e].name)
  /\ users'[e].isEmailConfirmed
       => users[e].isEmailConfirmed \/ \E c \in Calls : calls[c].at = "confirm" /\ calls[c].email = e
  /\ users'[e].emailConfirmationCode = users[e].emailConfirmationCode
       \/ \E c \in Calls : CodeWritten(c, e)
  /\ users'[e].forgotPasswordCode = users[e].forgotPasswordCode
       \/ \E c \in Calls : ResetWritten(c, e)
  /\ users'[e].refreshToken = users[e].refreshToken
       \/ \E c \in Calls : /\ calls[c].at = "token" /\ calls'[c].at = "answer"
                           /\ users'[e].refreshToken = calls[c].id
                           /\ users[e].name = calls[c].name
  /\ users'[e].age = users[e].age
       \/ \E c \in Calls : /\ calls[c].at = "age" /\ users'[e].age = calls[c].id
                           /\ users[e].name = calls[c].name

RowStep(e) ==
  users'[e] = users[e] \/ Updated(e) \/ \E c \in Calls : Created(c, e)

LEMMA RowSteps ==
  ASSUME TypeOK, CallsInv, UsersInv, [Next]_vars, NEW e \in Emails
  PROVE  RowStep(e)
<1> USE UserTyped
<1>1. ASSUME NEW c \in Calls, calls[c].at \notin {"idle", "create"}
      PROVE  calls[c].email \in Emails /\ Exists(calls[c].email)
  BY <1>1 DEF CallsInv, Busy
<1>2. ASSUME NEW c \in Calls, calls[c].email # e,
             NEW r, users' = [users EXCEPT ![calls[c].email] = r]
      PROVE  RowStep(e)
  BY <1>2 DEF RowStep, TypeOK
<1>3. ASSUME NEW c \in Calls, CreateUser(c), calls[c].email = e PROVE RowStep(e)
  <2>1. CASE users' = users
    BY <2>1 DEF RowStep
  <2>2. CASE users' # users
    <3> DEFINE google == calls[c].op = "registerWithGoogle"
               row == [NoUser EXCEPT !.name = calls[c].name, !.by = calls[c].id,
                                     !.google = google, !.isEmailConfirmed = google]
    <3>1. /\ calls[c].at = "create" /\ ~Exists(e) /\ ~NameTaken(calls[c].name)
          /\ users' = [users EXCEPT ![e] = WithPassword(row, calls[c].id)]
          /\ Goto(c, "star")
      BY <1>3, <2>2 DEF CreateUser
    <3>2. users'[e] = [row EXCEPT !.emailConfirmationCode = calls[c].id]
      BY <3>1 DEF TypeOK, WithPassword
    <3>3. /\ users'[e].name = calls[c].name /\ users'[e].by = calls[c].id
          /\ users'[e].google = google /\ users'[e].isEmailConfirmed = google
          /\ users'[e].emailConfirmationCode = calls[c].id
          /\ users'[e].forgotPasswordCode = 0 /\ users'[e].refreshToken = 0
          /\ users'[e].age = 0
      BY <3>2 DEF NoUser
    <3> HIDE DEF row, google
    <3>4. Created(c, e)
      BY <1>3, <3>1, <3>3, Went DEF Created, google
    <3>5. QED BY <3>4 DEF RowStep
  <2>3. QED BY <2>1, <2>2
<1>4. ASSUME NEW c \in Calls, CreateStar(c) \/ CreateSettings(c), calls[c].email = e
      PROVE  Updated(e)
  <2>1. Exists(e) /\ \/ users'[e] = [users[e] EXCEPT !.star = TRUE]
                     \/ users'[e] = [users[e] EXCEPT !.settings = TRUE]
    BY <1>1, <1>4 DEF CreateStar, CreateSettings, TypeOK
  <2>2. QED BY <2>1 DEF Updated, KeepsRest, Exists, User
<1>5. ASSUME NEW c \in Calls, CreateRefreshToken(c) PROVE RowStep(e)
  <2>1. CASE users[e].name # calls[c].name
    BY <1>5, <2>1 DEF CreateRefreshToken, RowStep
  <2>2. CASE users[e].name = calls[c].name
    <3>1. /\ calls[c].at = "token" /\ NameTaken(calls[c].name) /\ Goto(c, "answer")
          /\ users'[e] = [users[e] EXCEPT !.refreshToken = calls[c].id]
      BY <1>5, <2>2 DEF CreateRefreshToken, NameTaken
    <3>2. calls[c].name # Nobody /\ calls'[c].at = "answer"
      BY <3>1, Went DEF CallsInv, Busy
    <3>3. Updated(e)
      BY <2>2, <3>1, <3>2 DEF Updated, KeepsRest, Exists, User
    <3>4. QED BY <3>3 DEF RowStep
  <2>3. QED BY <2>1, <2>2
<1>6. ASSUME NEW c \in Calls, SetAgeAndGender(c) PROVE RowStep(e)
  <2>1. CASE users[e].name # calls[c].name
    BY <1>6, <2>1 DEF SetAgeAndGender, RowStep
  <2>2. CASE users[e].name = calls[c].name
    <3>1. calls[c].at = "age" /\ users'[e] = [users[e] EXCEPT !.age = calls[c].id]
      BY <1>6, <2>2 DEF SetAgeAndGender
    <3>2. calls[c].name # Nobody
      BY <3>1 DEF CallsInv, Busy
    <3>3. Updated(e)
      BY <2>2, <3>1, <3>2 DEF Updated, KeepsRest, Exists, User
    <3>4. QED BY <3>3 DEF RowStep
  <2>3. QED BY <2>1, <2>2
<1>7. ASSUME NEW c \in Calls, SetConfirmed(c), calls[c].email = e PROVE Updated(e)
  <2>1. /\ calls[c].at = "confirm" /\ Return(c) /\ Exists(e)
        /\ users'[e] = [users[e] EXCEPT !.isEmailConfirmed = TRUE,
                                       !.emailConfirmationCode = 0]
    BY <1>1, <1>7 DEF SetConfirmed, TypeOK
  <2>2. CodeWritten(c, e)
    BY <1>7, <2>1, Returned, EmptyRecords DEF CodeWritten, User
  <2>3. QED BY <1>7, <2>1, <2>2 DEF Updated, KeepsRest, Exists, User
<1>8. ASSUME NEW c \in Calls, SetConfirmationCode(c), calls[c].email = e PROVE Updated(e)
  <2>1. /\ calls[c].at = "resend" /\ Goto(c, "mail") /\ Exists(e)
        /\ users'[e] = [users[e] EXCEPT !.emailConfirmationCode = calls[c].id]
    BY <1>1, <1>8 DEF SetConfirmationCode, TypeOK
  <2>2. CodeWritten(c, e)
    BY <1>8, <2>1, Went DEF CodeWritten, User
  <2>3. QED BY <2>1, <2>2 DEF Updated, KeepsRest, Exists, User
<1>9. ASSUME NEW c \in Calls, SetForgotPasswordCode(c), calls[c].email = e PROVE Updated(e)
  <2>1. /\ calls[c].at = "forgot" /\ Goto(c, "mail") /\ Exists(e)
        /\ users'[e] = [users[e] EXCEPT !.forgotPasswordCode = calls[c].id]
        /\ (\E d \in Calls : calls[d].at = "change" /\ calls[d].email = e)
             => calls[c].id \in late'
    BY <1>1, <1>9 DEF SetForgotPasswordCode, TypeOK
  <2>2. ResetWritten(c, e)
    BY <1>9, <2>1, Went DEF ResetWritten, User
  <2>3. QED BY <2>1, <2>2 DEF Updated, KeepsRest, Exists, User
<1>10. ASSUME NEW c \in Calls, SetPassword(c), calls[c].email = e PROVE Updated(e)
  <2>1. /\ calls[c].at = "change" /\ Return(c) /\ Exists(e)
        /\ spent' = spent \cup {calls[c].code} /\ calls[c].id \in redrawn'
        /\ users'[e] = [[users[e] EXCEPT !.emailConfirmationCode = calls[c].id]
                         EXCEPT !.forgotPasswordCode = 0]
    BY <1>1, <1>10 DEF SetPassword, TypeOK, WithPassword
  <2>2. CodeWritten(c, e)
    BY <1>10, <2>1, Returned, EmptyRecords DEF CodeWritten, User
  <2>3. ResetWritten(c, e)
    BY <1>10, <2>1, Returned, EmptyRecords DEF ResetWritten, User
  <2>4. QED BY <2>1, <2>2, <2>3 DEF Updated, KeepsRest, Exists, User
<1>11. ASSUME NEW f \in Emails, NEW name \in Names, EditProfile(f, name) PROVE RowStep(e)
  <2>1. CASE f # e
    BY <1>11, <2>1 DEF EditProfile, RowStep, TypeOK
  <2>2. CASE f = e
    <3>1. /\ users'[e] = [users[e] EXCEPT !.name = name] /\ Exists(e)
          /\ name # Nobody /\ ~NameTaken(name)
      BY <1>11, <2>2, NobodyAssumption DEF EditProfile, LoggedIn, UsersInv, TypeOK
    <3>2. Updated(e)
      BY <3>1 DEF Updated, KeepsRest, Exists, User
    <3>3. QED BY <3>2 DEF RowStep
  <2>3. QED BY <2>1, <2>2
<1>12. ASSUME NEW c \in Calls, Proceed(c) PROVE RowStep(e)
  <2>1. ASSUME CreateUser(c) \/ CreateStar(c) \/ CreateSettings(c) \/ SetConfirmed(c)
               \/ SetConfirmationCode(c) \/ SetForgotPasswordCode(c) \/ SetPassword(c)
        PROVE  RowStep(e)
    <3>1. CASE calls[c].email = e
      BY <1>3, <1>4, <1>7, <1>8, <1>9, <1>10, <2>1, <3>1 DEF RowStep
    <3>2. CASE calls[c].email # e
      BY <1>2, <2>1, <3>2
      DEF CreateUser, CreateStar, CreateSettings, SetConfirmed, SetConfirmationCode,
          SetForgotPasswordCode, SetPassword, RowStep, TypeOK
    <3>3. QED BY <3>1, <3>2
  <2>2. ASSUME QueueMail(c) \/ FindUser(c) \/ Respond(c) \/ VerifyEmail(c)
        PROVE  RowStep(e)
    BY <2>2 DEF QueueMail, FindUser, Respond, VerifyEmail, RowStep
  <2>3. QED BY <1>5, <1>6, <1>12, <2>1, <2>2 DEF Proceed
<1>13. ASSUME NEW c \in Calls, NEW f \in Emails, Request(c, f) PROVE RowStep(e)
  BY <1>13, Requested DEF Started, RowStep
<1>14. CASE UNCHANGED users
  BY <1>14 DEF RowStep
<1>15. QED
  BY <1>11, <1>12, <1>13, <1>14
  DEF Next, vars, SendVerificationMail, JobTimeout, Stalled, Attempt, Restart
-----------------------------------------------------------------------------
(* A code is spent by who confirms an address or changes a password, and   *)
(* is taken from the row.                                                  *)
Spending(c) ==
  /\ spent' = spent \cup {calls[c].code}
  /\ \A f \in Emails \ {calls[c].email} : users'[f] = users[f]
  /\ \/ /\ calls[c].at = "confirm"
        /\ users'[calls[c].email].emailConfirmationCode = 0
     \/ /\ calls[c].at = "change"
        /\ users'[calls[c].email].forgotPasswordCode = 0

LEMMA HistorySteps ==
  ASSUME TypeOK, CallsInv, UsersInv, [Next]_vars
  PROVE  /\ answered \subseteq answered' /\ cut \subseteq cut'
         /\ redrawn \subseteq redrawn' /\ late \subseteq late'
         /\ \A a \in answered' \ answered :
              \E c \in Calls : calls[c].at = "answer" /\ a.email = calls[c].email
         /\ spent' = spent \/ \E c \in Calls : Spending(c)
<1>1. ASSUME NEW c \in Calls, Respond(c)
      PROVE  /\ answered \subseteq answered' /\ UNCHANGED <<cut, redrawn, late, spent>>
             /\ \A a \in answered' \ answered :
                  \E d \in Calls : calls[d].at = "answer" /\ a.email = calls[d].email
  BY <1>1 DEF Respond
<1>2. ASSUME NEW c \in Calls, SetConfirmed(c) \/ SetPassword(c)
      PROVE  /\ UNCHANGED <<answered, cut, late>> /\ redrawn \subseteq redrawn'
             /\ Spending(c)
  <2>1. calls[c].at \in {"confirm", "change"}
    BY <1>2 DEF SetConfirmed, SetPassword
  <2>2. calls[c].email \in Emails
    BY <2>1 DEF CallsInv, Busy
  <2>3. CASE SetConfirmed(c)
    <3>1. users'[calls[c].email] = [users[calls[c].email] EXCEPT
                                     !.isEmailConfirmed = TRUE, !.emailConfirmationCode = 0]
      BY <2>2, <2>3 DEF SetConfirmed, TypeOK
    <3>2. users'[calls[c].email].emailConfirmationCode = 0
      BY <2>2, <3>1, UserTyped DEF User
    <3>3. QED BY <2>2, <2>3, <3>2 DEF SetConfirmed, Spending, TypeOK
  <2>4. CASE SetPassword(c)
    <3>1. users'[calls[c].email] =
            [[users[calls[c].email] EXCEPT !.emailConfirmationCode = calls[c].id]
             EXCEPT !.forgotPasswordCode = 0]
      BY <2>2, <2>4 DEF SetPassword, WithPassword, TypeOK
    <3>2. users'[calls[c].email].forgotPasswordCode = 0
      BY <2>2, <3>1, UserTyped DEF User
    <3>3. QED BY <2>2, <2>4, <3>2 DEF SetPassword, Spending, TypeOK
  <2>5. QED BY <1>2, <2>3, <2>4
<1>3. ASSUME NEW c \in Calls, NEW e \in Emails, Request(c, e)
      PROVE  UNCHANGED <<answered, cut, redrawn, late, spent>>
  BY <1>3, Requested DEF Started
<1>4. ASSUME NEW c \in Calls, Proceed(c)
      PROVE  /\ answered \subseteq answered' /\ cut \subseteq cut'
             /\ redrawn \subseteq redrawn' /\ late \subseteq late'
             /\ \A a \in answered' \ answered :
                  \E d \in Calls : calls[d].at = "answer" /\ a.email = calls[d].email
             /\ spent' = spent \/ Spending(c)
  <2>1. CASE Respond(c)
    BY <1>1, <2>1
  <2>2. CASE SetConfirmed(c) \/ SetPassword(c)
    BY <1>2, <2>2
  <2>3. CASE QueueMail(c)
    BY <2>3 DEF QueueMail
  <2>4. CASE SetForgotPasswordCode(c)
    BY <2>4 DEF SetForgotPasswordCode
  <2>5. CASE CreateUser(c) \/ CreateStar(c) \/ CreateSettings(c) \/ FindUser(c)
             \/ CreateRefreshToken(c) \/ VerifyEmail(c) \/ SetConfirmationCode(c)
             \/ SetAgeAndGender(c)
    BY <2>5 DEF CreateUser, CreateStar, CreateSettings, FindUser, CreateRefreshToken,
                VerifyEmail, SetConfirmationCode, SetAgeAndGender, history
  <2>6. QED BY <1>4, <2>1, <2>2, <2>3, <2>4, <2>5 DEF Proceed
<1>5. ASSUME NEW job \in mails,
             SendVerificationMail(job) \/ JobTimeout(job) \/ Stalled(job)
      PROVE  cut \subseteq cut' /\ UNCHANGED <<answered, redrawn, late, spent>>
  BY <1>5 DEF SendVerificationMail, JobTimeout, Stalled, Attempt
<1>6. ASSUME NEW e \in Emails, NEW name \in Names, EditProfile(e, name)
      PROVE  UNCHANGED <<answered, cut, redrawn, late, spent>>
  BY <1>6 DEF EditProfile, history
<1>7. ASSUME Restart
      PROVE  cut \subseteq cut' /\ UNCHANGED <<answered, redrawn, late, spent>>
  BY <1>7 DEF Restart
<1>8. CASE UNCHANGED vars
  BY <1>8 DEF vars
<1>9. QED BY <1>3, <1>4, <1>5, <1>6, <1>7, <1>8 DEF Next

(* A mail that was posted stays so, unless it is given up; a new one is the*)
(* one of a call that queues it.                                           *)
LEMMA MailSteps ==
  ASSUME TypeOK, CallsInv, UsersInv, [Next]_vars, NEW m
  PROVE  /\ sent \subseteq sent'
         /\ m \in sent' => Posted(m)
         /\ Posted(m) => WillBePosted(m) \/ m.code \in cut'
         /\ WillBePosted(m) =>
              \/ Posted(m)
              \/ \E c \in Calls : /\ calls[c].at = "mail" /\ m = MailOf(calls[c])
                                 /\ IF calls[c].op = "register"
                                    THEN calls'[c].at = "find" /\ Same(calls[c], calls'[c])
                                    ELSE calls'[c].at = "idle"
<1>1. ASSUME UNCHANGED <<mails, sent>>
      PROVE  /\ sent \subseteq sent' /\ (m \in sent' => Posted(m))
             /\ Posted(m) <=> WillBePosted(m)
  BY <1>1 DEF Posted, WillBePosted
<1>2. ASSUME NEW c \in Calls, QueueMail(c), mails' # mails
      PROVE  /\ sent' = sent /\ (Posted(m) => WillBePosted(m))
             /\ WillBePosted(m) =>
                  \/ Posted(m)
                  \/ /\ calls[c].at = "mail" /\ m = MailOf(calls[c])
                     /\ IF calls[c].op = "register"
                        THEN calls'[c].at = "find" /\ Same(calls[c], calls'[c])
                        ELSE calls'[c].at = "idle"
  <2> DEFINE job == [mail |-> MailOf(calls[c]), left |-> Attempts, stalls |-> 0]
  <2>1. /\ calls[c].at = "mail" /\ mails' = mails \cup {job} /\ sent' = sent
        /\ IF calls[c].op = "register" THEN Goto(c, "find") ELSE Return(c)
    BY <1>2 DEF QueueMail
  <2>2. job.mail = MailOf(calls[c])
    OBVIOUS
  <2>3. IF calls[c].op = "register"
        THEN calls'[c].at = "find" /\ Same(calls[c], calls'[c])
        ELSE calls'[c].at = "idle"
    BY <2>1, Went, Returned, EmptyRecords
  <2> HIDE DEF job
  <2>4. QED BY <2>1, <2>2, <2>3 DEF Posted, WillBePosted
<1>3. ASSUME NEW job \in mails, NEW rest, Attempt(job, rest),
             \A other \in rest : other.mail = job.mail
      PROVE  /\ sent \subseteq sent' /\ (m \in sent' => Posted(m))
             /\ Posted(m) => WillBePosted(m) \/ m.code \in cut'
             /\ WillBePosted(m) => Posted(m)
  <2>1. /\ sent' \in {sent, sent \cup {job.mail}} /\ mails' = (mails \ {job}) \cup rest
        /\ rest = {} /\ job.mail \notin sent' => cut' = cut \cup {job.mail.code}
    BY <1>3 DEF Attempt
  <2>2. Posted(m) => WillBePosted(m) \/ m.code \in cut'
    <3>1. CASE m # job.mail
      BY <2>1, <3>1 DEF Posted, WillBePosted
    <3>2. CASE m = job.mail
      <4>1. CASE rest = {}
        BY <2>1, <3>2, <4>1 DEF WillBePosted
      <4>2. CASE rest # {}
        BY <1>3, <2>1, <3>2, <4>2 DEF WillBePosted
      <4>3. QED BY <4>1, <4>2
    <3>3. QED BY <3>1, <3>2
  <2>3. QED BY <1>3, <2>1, <2>2 DEF Posted, WillBePosted
<1>4. ASSUME NEW job \in mails,
             SendVerificationMail(job) \/ JobTimeout(job) \/ Stalled(job)
      PROVE  \E rest : Attempt(job, rest) /\ \A other \in rest : other.mail = job.mail
  <2>1. job \in Job
    BY DEF TypeOK
  <2>2. CASE SendVerificationMail(job)
    BY <2>2 DEF SendVerificationMail
  <2>3. CASE JobTimeout(job)
    BY <2>1, <2>3 DEF JobTimeout, Job
  <2>4. CASE Stalled(job) /\ job.stalls = MaxStalled
    <3>1. ~(job.stalls < MaxStalled)
      BY <2>4, MailAssumption
    <3>2. Attempt(job, {})
      BY <2>4, <3>1 DEF Stalled
    <3>3. QED BY <3>2
  <2>5. CASE Stalled(job) /\ job.stalls # MaxStalled
    <3>1. PICK left : Attempt(job, {[job EXCEPT !.stalls = job.stalls + 1, !.left = left]})
      BY <2>5 DEF Stalled
    <3> DEFINE again == [job EXCEPT !.stalls = job.stalls + 1, !.left = left]
    <3>2. again.mail = job.mail
      BY <2>1 DEF Job
    <3>3. Attempt(job, {again})
      BY <3>1
    <3> HIDE DEF again
    <3>4. \A other \in {again} : other.mail = job.mail
      BY <3>2
    <3>5. QED BY <3>3, <3>4
  <2>6. QED BY <1>4, <2>2, <2>3, <2>4, <2>5
<1>5. ASSUME NEW c \in Calls, Proceed(c), ~QueueMail(c) PROVE UNCHANGED <<mails, sent>>
  BY <1>5 DEF Proceed, CreateUser, CreateStar, CreateSettings, FindUser, Respond,
              CreateRefreshToken, VerifyEmail, SetConfirmed, SetConfirmationCode,
              SetForgotPasswordCode, SetPassword, SetAgeAndGender, history
<1>6. ASSUME NEW c \in Calls, NEW e \in Emails, Request(c, e)
      PROVE  UNCHANGED <<mails, sent>>
  BY <1>6, Requested DEF Started
<1>7. ASSUME NEW c \in Calls, QueueMail(c), mails' = mails PROVE UNCHANGED <<mails, sent>>
  BY <1>7 DEF QueueMail
<1>8. ASSUME NEW e \in Emails, NEW name \in Names, EditProfile(e, name)
      PROVE  UNCHANGED <<mails, sent>>
  BY <1>8 DEF EditProfile, history
<1>9. CASE Restart \/ UNCHANGED vars
  BY <1>1, <1>9 DEF Restart, vars
<1>10. ASSUME NEW c \in Calls, Proceed(c)
       PROVE  UNCHANGED <<mails, sent>> \/ (QueueMail(c) /\ mails' # mails)
  BY <1>5, <1>7, <1>10
<1>11. CASE \E job \in mails :
              SendVerificationMail(job) \/ JobTimeout(job) \/ Stalled(job)
  <2>1. PICK job \in mails :
          \E rest : Attempt(job, rest) /\ \A other \in rest : other.mail = job.mail
    BY <1>4, <1>11
  <2>2. PICK rest : Attempt(job, rest) /\ \A other \in rest : other.mail = job.mail
    BY <2>1
  <2>3. QED BY <1>3, <2>2
<1>12. CASE UNCHANGED <<mails, sent>>
  BY <1>1, <1>12
<1>13. CASE \E c \in Calls : QueueMail(c) /\ mails' # mails
  <2>1. PICK c \in Calls : QueueMail(c) /\ mails' # mails
    BY <1>13
  <2>2. QED BY <1>2, <2>1 DEF Posted
<1>14. QED BY <1>6, <1>8, <1>9, <1>10, <1>11, <1>12, <1>13 DEF Next
-----------------------------------------------------------------------------
LEMMA CallsTyped ==
  ASSUME TypeOK, CallsInv, UsersInv, [Next]_vars
  PROVE  calls' \in [Calls -> Call]
<1> USE EmptyRecords
<1>1. ASSUME NEW c \in Calls, Return(c) PROVE calls' \in [Calls -> Call]
  BY <1>1 DEF Return, TypeOK
<1>2. ASSUME NEW c \in Calls, NEW at \in {"star", "settings", "mail", "find", "token",
                                         "answer", "confirm"}, Goto(c, at)
      PROVE  calls' \in [Calls -> Call]
  BY <1>2, CallTyped DEF Goto, TypeOK, Call
<1>3. ASSUME NEW c \in Calls, Proceed(c) PROVE calls' \in [Calls -> Call]
  <2>1. CASE FindUser(c)
    <3>1. /\ calls[c].at = "find"
          /\ calls' = [calls EXCEPT ![c] = [calls[c] EXCEPT !.at = "token",
                                              !.name = users[calls[c].email].name]]
      BY <2>1 DEF FindUser
    <3>2. users[calls[c].email].name \in Names \cup {Nobody}
      BY <3>1, UserTyped DEF CallsInv, Busy
    <3>3. [calls[c] EXCEPT !.at = "token", !.name = users[calls[c].email].name] \in Call
      BY <3>2, CallTyped DEF Call
    <3>4. QED BY <3>1, <3>3 DEF TypeOK
  <2>2. CASE ~FindUser(c)
    <3>1. Return(c) \/ \E at \in {"star", "settings", "mail", "find", "token", "answer",
                                  "confirm"} : Goto(c, at)
      BY <1>3, <2>2
      DEF Proceed, CreateUser, CreateStar, CreateSettings, QueueMail, CreateRefreshToken,
          Respond, VerifyEmail, SetConfirmed, SetConfirmationCode, SetForgotPasswordCode,
          SetPassword, SetAgeAndGender
    <3>2. QED BY <1>1, <1>2, <3>1
  <2>3. QED BY <2>1, <2>2
<1>4. ASSUME NEW c \in Calls, NEW e \in Emails, NEW op, NEW name \in Names \cup {Nobody},
             NEW at \in {"create", "find", "token", "verify", "resend", "forgot",
                        "change", "age"},
             NEW code \in Nat, Start(c, op, at, e, name, code)
      PROVE  calls' \in [Calls -> Call]
  <2>1. op \in Mutations /\ made + 1 \in Nat
    BY <1>4, OperationAssumption DEF Start, TypeOK
  <2>2. [at |-> at, op |-> op, id |-> made + 1, email |-> e, name |-> name,
         code |-> code] \in Call
    BY <2>1 DEF Call
  <2>3. QED BY <1>4, <2>2 DEF Start, TypeOK
<1>5. ASSUME NEW c \in Calls, NEW e \in Emails, Request(c, e)
      PROVE  calls' \in [Calls -> Call]
  <2>1. users[e].name \in Names \cup {Nobody} /\ \A m \in sent : m.code \in Nat
    BY UserTyped DEF TypeOK, Mail
  <2>2. \E op : \E name \in Names \cup {Nobody} : \E code \in Nat :
          \E at \in {"create", "find", "token", "verify", "resend", "forgot", "change",
                    "age"} : Start(c, op, at, e, name, code)
    BY <1>5, <2>1
    DEF Request, Register, Login, LoginGoogle, RefreshToken, ConfirmEmail,
        ResendConfirmMail, SendForgotPasswordCode, ChangePassword, UpdateUserAgeAndGender
  <2>3. QED BY <1>4, <2>2
<1>6. CASE UNCHANGED calls
  BY <1>6 DEF TypeOK
<1>7. CASE Restart
  BY <1>7 DEF Restart
<1>8. QED
  BY <1>3, <1>5, <1>6, <1>7
  DEF Next, EditProfile, SendVerificationMail, JobTimeout, Stalled, Attempt, vars

LEMMA UsersTyped ==
  ASSUME TypeOK, CallsInv, UsersInv, [Next]_vars
  PROVE  users' \in [Emails -> User]
<1> USE EmptyRecords
<1>1. ASSUME NEW e \in Emails, NEW r \in User, users' = [users EXCEPT ![e] = r]
      PROVE  users' \in [Emails -> User]
  BY <1>1 DEF TypeOK
<1>2. ASSUME NEW c \in Calls, calls[c].at # "idle"
      PROVE  /\ calls[c].email \in Emails /\ calls[c].id \in Nat
             /\ users[calls[c].email] \in User
             /\ calls[c].name \in Names \cup {Nobody}
  BY <1>2, CallTyped, UserTyped DEF CallsInv, Busy
<1>3. ASSUME NEW c \in Calls, CreateUser(c) PROVE users' \in [Emails -> User]
  <2> DEFINE google == calls[c].op = "registerWithGoogle"
             row == [NoUser EXCEPT !.name = calls[c].name, !.by = calls[c].id,
                                   !.google = google, !.isEmailConfirmed = google]
  <2>1. CASE users' = users
    BY <2>1 DEF TypeOK
  <2>2. CASE users' # users
    <3>1. /\ users' = [users EXCEPT ![calls[c].email] = WithPassword(row, calls[c].id)]
          /\ calls[c].at = "create"
      BY <1>3, <2>2 DEF CreateUser
    <3>2. google \in BOOLEAN
      OBVIOUS
    <3> HIDE DEF google
    <3>3. row \in User
      <4> DEFINE named == [NoUser EXCEPT !.name = calls[c].name, !.by = calls[c].id]
      <4>1. named \in User
        BY <1>2, <3>1 DEF User
      <4>2. row = [named EXCEPT !.google = google, !.isEmailConfirmed = google]
        BY DEF User
      <4> HIDE DEF named
      <4>3. QED BY <3>2, <4>1, <4>2 DEF User
    <3> HIDE DEF row
    <3>4. WithPassword(row, calls[c].id) \in User
      BY <1>2, <3>1, <3>3 DEF WithPassword, User
    <3>5. QED BY <1>1, <1>2, <3>1, <3>4
  <2>3. QED BY <2>1, <2>2
<1>4. ASSUME NEW c \in Calls, CreateStar(c) \/ CreateSettings(c)
      PROVE  users' \in [Emails -> User]
  <2>1. calls[c].at # "idle"
    BY <1>4 DEF CreateStar, CreateSettings
  <2>2. /\ [users[calls[c].email] EXCEPT !.star = TRUE] \in User
        /\ [users[calls[c].email] EXCEPT !.settings = TRUE] \in User
    BY <1>2, <2>1 DEF User
  <2>3. QED BY <1>2, <1>4, <2>1, <2>2 DEF CreateStar, CreateSettings, TypeOK
<1>5. ASSUME NEW c \in Calls, CreateRefreshToken(c) \/ SetAgeAndGender(c)
      PROVE  users' \in [Emails -> User]
  <2>1. calls[c].at # "idle"
    BY <1>5 DEF CreateRefreshToken, SetAgeAndGender
  <2>2. ASSUME NEW e \in Emails
        PROVE  /\ users[e] \in User
               /\ [users[e] EXCEPT !.refreshToken = calls[c].id] \in User
               /\ [users[e] EXCEPT !.age = calls[c].id] \in User
    BY <1>2, <2>1, UserTyped DEF User
  <2>3. QED BY <1>5, <2>2 DEF CreateRefreshToken, SetAgeAndGender
<1>6. ASSUME NEW c \in Calls, SetConfirmed(c) \/ SetConfirmationCode(c)
                              \/ SetForgotPasswordCode(c) \/ SetPassword(c)
      PROVE  users' \in [Emails -> User]
  <2>1. calls[c].at # "idle"
    BY <1>6 DEF SetConfirmed, SetConfirmationCode, SetForgotPasswordCode, SetPassword
  <2> DEFINE r == users[calls[c].email]
  <2>2. r \in User /\ calls[c].id \in Nat
    BY <1>2, <2>1
  <2>3. /\ [r EXCEPT !.isEmailConfirmed = TRUE, !.emailConfirmationCode = 0] \in User
        /\ [r EXCEPT !.emailConfirmationCode = calls[c].id] \in User
        /\ [r EXCEPT !.forgotPasswordCode = calls[c].id] \in User
    BY <2>2 DEF User
  <2>4. [[r EXCEPT !.emailConfirmationCode = calls[c].id]
           EXCEPT !.forgotPasswordCode = 0] \in User
    BY <2>3 DEF User
  <2>5. QED
    BY <1>1, <1>2, <1>6, <2>1, <2>3, <2>4
    DEF SetConfirmed, SetConfirmationCode, SetForgotPasswordCode, SetPassword,
        WithPassword, TypeOK
<1>7. ASSUME NEW c \in Calls, QueueMail(c) \/ FindUser(c) \/ Respond(c) \/ VerifyEmail(c)
      PROVE  users' = users
  BY <1>7 DEF QueueMail, FindUser, Respond, VerifyEmail
<1>8. ASSUME NEW e \in Emails, NEW name \in Names, EditProfile(e, name)
      PROVE  users' \in [Emails -> User]
  <2>1. [users[e] EXCEPT !.name = name] \in User
    BY UserTyped DEF User
  <2>2. QED BY <1>8, <2>1 DEF EditProfile, TypeOK
<1>9. ASSUME NEW c \in Calls, NEW e \in Emails, Request(c, e) PROVE users' = users
  BY <1>9, Requested DEF Started
<1>10. CASE UNCHANGED users
  BY <1>10 DEF TypeOK
<1>11. ASSUME NEW c \in Calls, Proceed(c) PROVE users' \in [Emails -> User]
  BY <1>3, <1>4, <1>5, <1>6, <1>7, <1>10, <1>11 DEF Proceed
<1>12. QED
  BY <1>8, <1>9, <1>10, <1>11
  DEF Next, SendVerificationMail, JobTimeout, Stalled, Attempt, Restart, vars

LEMMA TypeStep ==
  ASSUME TypeOK, CallsInv, UsersInv, [Next]_vars PROVE TypeOK'
<1>1. users' \in [Emails -> User] /\ calls' \in [Calls -> Call]
  BY UsersTyped, CallsTyped
<1> DEFINE Rest == /\ mails' \in SUBSET Job /\ made' \in Nat /\ sent' \in SUBSET Mail
                   /\ answered' \in SUBSET Answer /\ spent' \in SUBSET Nat
                   /\ late' \in SUBSET Nat /\ redrawn' \in SUBSET Nat
                   /\ cut' \in SUBSET Nat
<1>2. ASSUME NEW c \in Calls, calls[c].at # "idle"
      PROVE  /\ calls[c].email \in Emails /\ calls[c].id \in Nat /\ calls[c].code \in Nat
             /\ calls[c].op \in Mutations
  BY <1>2, CallTyped DEF CallsInv, Busy
<1>3. ASSUME NEW c \in Calls, QueueMail(c) PROVE Rest
  <2>1. calls[c].at # "idle"
    BY <1>3 DEF QueueMail
  <2>2. MailOf(calls[c]) \in Mail
    BY <1>2, <2>1 DEF MailOf, Mail
  <2>3. [mail |-> MailOf(calls[c]), left |-> Attempts, stalls |-> 0] \in Job
    BY <2>2, MailAssumption DEF Job
  <2>4. QED BY <1>2, <1>3, <2>1, <2>3 DEF QueueMail, TypeOK
<1>4. ASSUME NEW c \in Calls, Respond(c) PROVE Rest
  <2>1. calls[c].at # "idle"
    BY <1>4 DEF Respond
  <2>2. [op |-> calls[c].op, email |-> calls[c].email, token |-> calls[c].id] \in Answer
    BY <1>2, <2>1 DEF Answer
  <2>3. QED BY <1>4, <2>2 DEF Respond, TypeOK
<1>5. ASSUME NEW c \in Calls,
             SetConfirmed(c) \/ SetPassword(c) \/ SetForgotPasswordCode(c)
      PROVE  Rest
  <2>1. calls[c].id \in Nat /\ calls[c].code \in Nat
    BY CallTyped
  <2>2. CASE SetConfirmed(c)
    BY <2>1, <2>2 DEF SetConfirmed, TypeOK
  <2>3. CASE SetPassword(c)
    BY <2>1, <2>3 DEF SetPassword, TypeOK
  <2>4. CASE SetForgotPasswordCode(c)
    BY <2>1, <2>4 DEF SetForgotPasswordCode, TypeOK
  <2>5. QED BY <1>5, <2>2, <2>3, <2>4
<1>6. ASSUME NEW c \in Calls,
             CreateUser(c) \/ CreateStar(c) \/ CreateSettings(c) \/ FindUser(c)
               \/ CreateRefreshToken(c) \/ VerifyEmail(c) \/ SetConfirmationCode(c)
               \/ SetAgeAndGender(c)
      PROVE  Rest
  BY <1>6 DEF CreateUser, CreateStar, CreateSettings, FindUser, CreateRefreshToken,
              VerifyEmail, SetConfirmationCode, SetAgeAndGender, history, TypeOK
<1>7. ASSUME NEW c \in Calls, NEW e \in Emails, Request(c, e) PROVE Rest
  <2>1. /\ made' = made + 1
        /\ UNCHANGED <<mails, sent, answered, spent, late, redrawn, cut>>
    BY <1>7, Requested DEF Started
  <2>2. QED BY <2>1 DEF TypeOK
<1>8. ASSUME NEW job \in mails, NEW rest \in SUBSET Job, Attempt(job, rest) PROVE Rest
  <2>1. job \in Job /\ job.mail \in Mail /\ job.mail.code \in Nat
    BY DEF TypeOK, Job, Mail
  <2>2. QED BY <1>8, <2>1 DEF Attempt, TypeOK
<1>9. ASSUME NEW job \in mails,
             SendVerificationMail(job) \/ JobTimeout(job) \/ Stalled(job)
      PROVE  Rest
  <2>1. job \in Job /\ job.left \in 1 .. Attempts /\ job.stalls \in 0 .. MaxStalled
    BY DEF TypeOK, Job
  <2>2. CASE SendVerificationMail(job)
    BY <1>8, <2>2 DEF SendVerificationMail
  <2>3. CASE JobTimeout(job)
    <3>1. job.left # 1 => [job EXCEPT !.left = job.left - 1] \in Job
      BY <2>1, MailAssumption DEF Job
    <3>2. QED BY <1>8, <2>3, <3>1 DEF JobTimeout
  <2>4. CASE Stalled(job)
    <3>1. CASE Attempt(job, {})
      BY <1>8, <3>1
    <3>2. CASE ~Attempt(job, {})
      <4>1. PICK left \in {job.left, job.left - 1} \ {0} :
              Attempt(job, {[job EXCEPT !.stalls = job.stalls + 1, !.left = left]})
        BY <2>4, <3>2 DEF Stalled
      <4>2. job.stalls < MaxStalled
        BY <2>4, <3>2 DEF Stalled
      <4>3. left \in 1 .. Attempts /\ job.stalls + 1 \in 0 .. MaxStalled
        BY <2>1, <4>1, <4>2, MailAssumption
      <4>4. [job EXCEPT !.stalls = job.stalls + 1, !.left = left] \in Job
        BY <2>1, <4>3 DEF Job
      <4>5. QED BY <1>8, <4>1, <4>4
    <3>3. QED BY <3>1, <3>2
  <2>5. QED BY <1>9, <2>2, <2>3, <2>4
<1>10. ASSUME NEW e \in Emails, NEW name \in Names, EditProfile(e, name) PROVE Rest
  BY <1>10 DEF EditProfile, history, TypeOK
<1>11. ASSUME Restart PROVE Rest
  <2>1. {calls[c].id : c \in Busy} \in SUBSET Nat
    BY CallTyped DEF Busy
  <2>2. cut' \in SUBSET Nat
    BY <1>11, <2>1 DEF Restart, TypeOK
  <2>3. UNCHANGED <<mails, made, sent, answered, spent, late, redrawn>>
    BY <1>11 DEF Restart
  <2>4. QED BY <2>2, <2>3 DEF TypeOK
<1>12. ASSUME UNCHANGED vars PROVE Rest
  BY <1>12 DEF vars, TypeOK
<1>13. ASSUME NEW c \in Calls, Proceed(c) PROVE Rest
  BY <1>3, <1>4, <1>5, <1>6, <1>13 DEF Proceed
<1> HIDE DEF Rest
<1>14. Rest
  BY <1>7, <1>9, <1>10, <1>11, <1>12, <1>13 DEF Next
<1>15. QED BY <1>1, <1>14 DEF TypeOK, Rest
-----------------------------------------------------------------------------
(* A number belongs to one call, before and after a step. *)
LEMMA SameCall ==
  ASSUME TypeOK, IdsInv, CallsInv, UsersInv, [Next]_vars, NEW c \in Calls, NEW d \in Calls,
         calls'[c].id = calls[d].id, calls[d].id # 0
  PROVE  c = d /\ calls[c].at # "idle" /\ (calls'[c] = calls[c] \/ Moved(c))
<1>1. calls[d].id <= made /\ calls[d].id \in Nat /\ made \in Nat
  BY CallTyped, EmptyRecords DEF IdsInv, TypeOK
<1>2. CASE calls'[c] = calls[c]
  BY <1>2, EmptyRecords DEF IdsInv
<1>3. CASE Started(c)
  BY <1>1, <1>3 DEF Started
<1>4. CASE Moved(c)
  BY <1>4, EmptyRecords DEF Moved, Same, IdsInv
<1>5. CASE Ended(c)
  BY <1>5, EmptyRecords DEF Ended
<1>6. QED BY <1>2, <1>3, <1>4, <1>5, CallSteps

LEMMA IdsStep ==
  ASSUME TypeOK, IdsInv, CallsInv, UsersInv, [Next]_vars
  PROVE  IdsInv'
<1> USE EmptyRecords
<1>1. ASSUME NEW c \in Calls
      PROVE  /\ made \in Nat /\ made' \in {made, made + 1}
             /\ calls[c].id \in 0 .. made
  BY CallSteps DEF TypeOK, IdsInv
<1>2. ASSUME NEW c \in Calls
      PROVE  IF calls'[c].at = "idle" THEN calls'[c] = NoCall ELSE calls'[c].id \in 1 .. made'
  <2>1. CASE calls'[c] = calls[c]
    BY <1>1, <2>1 DEF IdsInv
  <2>2. CASE Started(c)
    BY <1>1, <2>2 DEF Started
  <2>3. CASE Moved(c) /\ calls[c].at # "idle"
    BY <1>1, <2>3 DEF Moved, Same, IdsInv
  <2>4. CASE Ended(c)
    BY <2>4 DEF Ended
  <2>5. QED BY <2>1, <2>2, <2>3, <2>4, CallSteps
<1>3. ASSUME NEW c \in Calls, NEW d \in Calls, calls'[c].id # 0,
             calls'[c].id = calls'[d].id
      PROVE  c = d
  <2>1. CASE Started(c)
    <3>1. calls'[c].id = made + 1 /\ (c # d => calls'[d] = calls[d])
      BY <2>1 DEF Started
    <3>2. c # d => calls'[d].id # made + 1
      BY <1>1, <3>1
    <3>3. QED BY <1>3, <3>1, <3>2
  <2>2. CASE Started(d)
    <3>1. calls'[d].id = made + 1 /\ (c # d => calls'[c] = calls[c])
      BY <2>2 DEF Started
    <3>2. c # d => calls'[c].id # made + 1
      BY <1>1, <3>1
    <3>3. QED BY <1>3, <3>1, <3>2
  <2>3. CASE ~Started(c) /\ ~Started(d)
    <3>1. calls'[c].id = calls[c].id /\ calls'[d].id = calls[d].id
      BY <1>3, <2>3, CallSteps DEF Moved, Same, Ended
    <3>2. QED BY <1>3, <3>1 DEF IdsInv
  <2>4. QED BY <2>1, <2>2, <2>3
<1>4. QED BY <1>2, <1>3 DEF IdsInv

LEMMA UsersStay ==
  ASSUME TypeOK, CallsInv, UsersInv, [Next]_vars, NEW e \in Emails, Exists(e)
  PROVE  /\ users'[e].name # Nobody /\ KeepsRest(users[e], users'[e])
         /\ users'[e] = users[e] \/ Updated(e)
BY RowSteps DEF RowStep, Updated, Created, Exists, KeepsRest

(* Only one row changes its name. *)
LEMMA NamesStep ==
  ASSUME TypeOK, CallsInv, UsersInv, [Next]_vars
  PROVE  \E f : \A e \in Emails \ {f} : users'[e].name = users[e].name
<1>1. ASSUME NEW f, NEW r, users' = [users EXCEPT ![f] = r]
      PROVE  \A e \in Emails \ {f} : users'[e].name = users[e].name
  BY <1>1 DEF TypeOK
<1>2. ASSUME NEW c \in Calls, CreateRefreshToken(c) \/ SetAgeAndGender(c),
             NEW e \in Emails
      PROVE  users'[e].name = users[e].name
  <2>1. \/ users'[e] = users[e] \/ users'[e] = [users[e] EXCEPT !.refreshToken = calls[c].id]
        \/ users'[e] = [users[e] EXCEPT !.age = calls[c].id]
    BY <1>2 DEF CreateRefreshToken, SetAgeAndGender
  <2>2. QED BY <2>1, UserTyped DEF User
<1>3. ASSUME UNCHANGED users
      PROVE  \E f : \A e \in Emails \ {f} : users'[e].name = users[e].name
  BY <1>3
<1>4. ASSUME NEW c \in Calls, Proceed(c), ~CreateRefreshToken(c), ~SetAgeAndGender(c)
      PROVE  UNCHANGED users \/ \E f : \E r : users' = [users EXCEPT ![f] = r]
  <2>1. CASE CreateUser(c)
    BY <2>1 DEF CreateUser
  <2>2. CASE CreateStar(c) \/ CreateSettings(c)
    BY <2>2 DEF CreateStar, CreateSettings
  <2>3. CASE SetConfirmed(c) \/ SetConfirmationCode(c)
    BY <2>3 DEF SetConfirmed, SetConfirmationCode
  <2>4. CASE SetForgotPasswordCode(c) \/ SetPassword(c)
    BY <2>4 DEF SetForgotPasswordCode, SetPassword
  <2>5. CASE QueueMail(c) \/ FindUser(c) \/ Respond(c) \/ VerifyEmail(c)
    BY <2>5 DEF QueueMail, FindUser, Respond, VerifyEmail
  <2>6. QED BY <1>4, <2>1, <2>2, <2>3, <2>4, <2>5 DEF Proceed
<1>5. ASSUME NEW e \in Emails, NEW name \in Names, EditProfile(e, name)
      PROVE  \E f : \E r : users' = [users EXCEPT ![f] = r]
  <2>1. \E r : users' = [users EXCEPT ![e] = r]
    BY <1>5 DEF EditProfile
  <2>2. QED BY <2>1
<1>6. ASSUME NEW c \in Calls, NEW e \in Emails, Request(c, e) PROVE UNCHANGED users
  BY <1>6, Requested DEF Started
<1>7. QED
  BY <1>1, <1>2, <1>3, <1>4, <1>5, <1>6
  DEF Next, SendVerificationMail, JobTimeout, Stalled, Attempt, Restart, vars

LEMMA MadeGrows ==
  ASSUME TypeOK, CallsInv, UsersInv, [Next]_vars PROVE made' \in {made, made + 1}
<1>1. ASSUME NEW c \in Calls, Proceed(c) PROVE made' = made
  BY <1>1, Proceeded
<1>2. ASSUME NEW c \in Calls, NEW e \in Emails, Request(c, e) PROVE made' = made + 1
  BY <1>2, Requested DEF Started
<1>3. QED
  BY <1>1, <1>2
  DEF Next, EditProfile, SendVerificationMail, JobTimeout, Stalled, Attempt, Restart, vars

LEMMA CallsStep ==
  ASSUME TypeOK, IdsInv, CallsInv, UsersInv, [Next]_vars
  PROVE  CallsInv'
<1> DEFINE Fits(at, op, email, name, exists) ==
             /\ email \in Emails
             /\ at # "create" => exists
             /\ at \in {"create", "star", "token", "answer", "age"} => name # Nobody
             /\ at \in {"create", "star"} => op \in Registrations
             /\ at = "settings" => op = "register"
             /\ at = "mail"
                  => op \in {"register", "resendConfirmMail", "sendForgotPasswordCode"}
             /\ at = "find" => op \in {"register", "login"}
             /\ at = "resend" => op = "resendConfirmMail"
             /\ at = "forgot" => op = "sendForgotPasswordCode"
             /\ op = "registerWithGoogle" => at \in {"create", "star", "token", "answer"}
<1>1. ASSUME NEW c \in Calls, calls[c].at # "idle"
      PROVE  Fits(calls[c].at, calls[c].op, calls[c].email, calls[c].name,
                  Exists(calls[c].email))
  BY <1>1 DEF CallsInv, Busy
<1>2. ASSUME NEW c \in Calls, calls'[c].at # "idle"
      PROVE  Fits(calls'[c].at, calls'[c].op, calls'[c].email, calls'[c].name,
                  users'[calls'[c].email].name # Nobody)
  <2>1. CASE calls'[c] = calls[c]
    BY <1>1, <1>2, <2>1, UsersStay
  <2>2. CASE Started(c)
    BY <1>2, <2>2 DEF Started, Exists, Registrations
  <2>3. CASE Moved(c) /\ calls[c].at # "idle"
    <3>1. /\ calls'[c].op = calls[c].op /\ calls'[c].email = calls[c].email
          /\ calls[c].at # "find" => calls'[c].name = calls[c].name
      BY <2>3 DEF Moved, Same
    <3>2. calls[c].at # "create" => users'[calls[c].email].name # Nobody
      BY <1>1, <2>3, UsersStay
    <3>3. CASE calls[c].at = "create"
      BY <1>1, <2>3, <3>1, <3>3 DEF Moved
    <3>4. CASE calls[c].at = "star"
      BY <1>1, <2>3, <3>1, <3>2, <3>4 DEF Moved, Registrations
    <3>5. CASE calls[c].at \in {"settings", "mail"}
      BY <1>1, <2>3, <3>1, <3>2, <3>5 DEF Moved
    <3>6. CASE calls[c].at \notin {"create", "star", "settings", "mail"}
      BY <1>1, <2>3, <3>1, <3>2, <3>6 DEF Moved, Exists
    <3>7. QED BY <3>3, <3>4, <3>5, <3>6
  <2>4. CASE Ended(c)
    BY <1>2, <2>4, EmptyRecords DEF Ended
  <2>5. QED BY <2>1, <2>2, <2>3, <2>4, CallSteps
<1>3. QED BY <1>2 DEF CallsInv, Busy, Exists

LEMMA UsersStep ==
  ASSUME TypeOK, IdsInv, CallsInv, UsersInv, [Next]_vars
  PROVE  UsersInv'
<1>1. ASSUME NEW c \in Calls, NEW e \in Emails, Created(c, e)
      PROVE  users'[e].name # Nobody /\ users'[e].by \in 1 .. made
  BY <1>1 DEF Created, CallsInv, Busy, IdsInv
<1>2. ASSUME NEW e \in Emails
      PROVE  IF users'[e].name # Nobody THEN users'[e].by # 0 ELSE users'[e] = NoUser
  <2>1. CASE users'[e] = users[e]
    BY <2>1 DEF UsersInv, Exists
  <2>2. CASE Updated(e)
    BY <2>2 DEF UsersInv, Exists, Updated, KeepsRest
  <2>3. ASSUME NEW c \in Calls, Created(c, e) PROVE users'[e].name # Nobody /\ users'[e].by # 0
    BY <1>1, <2>3
  <2>4. QED BY <2>1, <2>2, <2>3, RowSteps DEF RowStep
<1>3. ASSUME NEW e \in Emails, NEW f \in Emails, users'[e].name # Nobody,
             users'[e].name = users'[f].name
      PROVE  e = f
  <2>1. ASSUME NEW g \in Emails
        PROVE  users'[g].name = users[g].name \/ ~NameTaken(users'[g].name)
    BY RowSteps DEF RowStep, Updated, Created
  <2>2. users'[e].name = users[e].name \/ users'[f].name = users[f].name \/ e = f
    BY NamesStep
  <2>3. QED BY <1>3, <2>1, <2>2 DEF UsersInv, NameTaken, Exists
<1> DEFINE Drawn(n) == n <= made'
<1>4. ASSUME NEW n \in Nat, n <= made PROVE Drawn(n)
  BY <1>4, MadeGrows DEF TypeOK
<1>5. ASSUME NEW c \in Calls PROVE Drawn(calls[c].id)
  BY <1>4, CallTyped, EmptyRecords DEF IdsInv, TypeOK
<1>6. Drawn(0)
  BY <1>4 DEF TypeOK
<1> HIDE DEF Drawn
<1>7. ASSUME NEW e \in Emails
      PROVE  /\ Drawn(users'[e].by) /\ Drawn(users'[e].emailConfirmationCode)
             /\ Drawn(users'[e].forgotPasswordCode) /\ Drawn(users'[e].refreshToken)
  <2>1. /\ Drawn(users[e].by) /\ Drawn(users[e].emailConfirmationCode)
        /\ Drawn(users[e].forgotPasswordCode) /\ Drawn(users[e].refreshToken)
    BY <1>4, UserTyped DEF UsersInv
  <2>2. CASE users'[e] = users[e]
    BY <2>1, <2>2
  <2>3. CASE Updated(e)
    BY <1>5, <1>6, <2>1, <2>3 DEF Updated, KeepsRest, CodeWritten, ResetWritten
  <2>4. ASSUME NEW c \in Calls, Created(c, e)
        PROVE  /\ Drawn(users'[e].by) /\ Drawn(users'[e].emailConfirmationCode)
               /\ Drawn(users'[e].forgotPasswordCode) /\ Drawn(users'[e].refreshToken)
    BY <1>5, <1>6, <2>4 DEF Created
  <2>5. QED BY <2>2, <2>3, <2>4, RowSteps DEF RowStep
<1>8. ASSUME NEW a \in answered' PROVE users'[a.email].name # Nobody
  <2>1. ASSUME NEW e \in Emails, Exists(e) PROVE users'[e].name # Nobody
    BY <2>1, UsersStay
  <2>2. CASE a \in answered
    BY <2>1, <2>2 DEF UsersInv, TypeOK, Answer
  <2>3. CASE a \notin answered
    <3>1. PICK c \in Calls : calls[c].at = "answer" /\ a.email = calls[c].email
      BY <2>3, HistorySteps
    <3>2. QED BY <2>1, <3>1 DEF CallsInv, Busy
  <2>4. QED BY <2>2, <2>3
<1>9. QED BY <1>2, <1>3, <1>7, <1>8 DEF UsersInv, Exists, Drawn
-----------------------------------------------------------------------------

(* A call whose number is no new one was at work before the step. *)
LEMMA Earlier ==
  ASSUME TypeOK, IdsInv, CallsInv, UsersInv, [Next]_vars, NEW c \in Calls,
         calls'[c].at # "idle", calls'[c].id <= made
  PROVE  /\ c \in Busy /\ calls'[c].id # 0
         /\ calls'[c].id = calls[c].id /\ calls'[c].op = calls[c].op
         /\ calls'[c].email = calls[c].email /\ calls'[c].code = calls[c].code
         /\ calls'[c] = calls[c] \/ Moved(c)
<1>1. CASE calls'[c] = calls[c]
  BY <1>1 DEF Busy, IdsInv
<1>2. ~Started(c)
  BY DEF Started, TypeOK
<1>3. CASE Moved(c) /\ calls[c].at # "idle"
  BY <1>3 DEF Moved, Same, Busy, IdsInv
<1>4. CASE Ended(c)
  BY <1>4, EmptyRecords DEF Ended
<1>5. QED BY <1>1, <1>2, <1>3, <1>4, CallSteps

LEMMA MakerStep ==
  ASSUME TypeOK, IdsInv, CallsInv, UsersInv, MakerInv, [Next]_vars
  PROVE  MakerInv'
<1> DEFINE Reaches(m) == WillBePosted(m) \/ m.code \in cut'
<1>1. ASSUME NEW m, Posted(m) \/ m.code \in cut PROVE Reaches(m)
  BY <1>1, MailSteps, HistorySteps
<1> HIDE DEF Reaches
<1> SUFFICES ASSUME NEW e \in Emails, NEW c \in Calls, calls'[c].at # "idle",
                    users'[e].by = calls'[c].id
             PROVE  /\ calls'[c].email = e
                    /\ calls'[c].op \in Registrations
                    /\ users'[e].google <=> calls'[c].op = "registerWithGoogle"
                    /\ calls'[c].at \in {"star", "settings", "mail", "find", "token", "answer"}
                    /\ calls'[c].at # "star" => users'[e].star
                    /\ calls'[c].op = "register" /\ calls'[c].at \notin {"star", "settings"}
                         => users'[e].settings
                    /\ (calls'[c].op = "register"
                          /\ calls'[c].at \notin {"star", "settings", "mail"})
                         => Reaches(ConfirmationOf(e, users'[e].by))
  BY DEF MakerInv, Busy, Posted, WillBePosted, Reaches, ConfirmationOf
<1>2. ASSUME NEW d \in Calls, Created(d, e)
      PROVE  /\ calls'[c].email = e /\ calls'[c].op \in Registrations
             /\ users'[e].google <=> calls'[c].op = "registerWithGoogle"
             /\ calls'[c].at = "star"
  <2>1. calls[d].id # 0 /\ calls[d].op \in Registrations
    BY <1>2 DEF Created, IdsInv, CallsInv, Busy
  <2>2. c = d
    BY <1>2, <2>1, SameCall DEF Created
  <2>3. QED BY <1>2, <2>1, <2>2 DEF Created, Same
<1>3. CASE users'[e] = users[e] \/ Updated(e)
  <2>1. KeepsRest(users[e], users'[e])
    BY <1>3 DEF KeepsRest, Updated
  <2>2. calls'[c].id <= made
    BY <2>1 DEF KeepsRest, UsersInv
  <2>3. /\ c \in Busy /\ calls'[c].id = calls[c].id /\ calls'[c].op = calls[c].op
        /\ calls'[c].email = calls[c].email /\ (calls'[c] = calls[c] \/ Moved(c))
    BY <2>2, Earlier
  <2>4. users[e].by = calls[c].id /\ users'[e].by = users[e].by
    BY <2>1, <2>3 DEF KeepsRest
  <2>5. /\ calls[c].email = e /\ calls[c].op \in Registrations
        /\ users'[e].google <=> calls[c].op = "registerWithGoogle"
        /\ calls[c].at \in {"star", "settings", "mail", "find", "token", "answer"}
        /\ calls[c].at # "star" => users'[e].star
        /\ calls[c].op = "register" /\ calls[c].at \notin {"star", "settings"}
             => users'[e].settings
    BY <2>1, <2>3, <2>4 DEF MakerInv, KeepsRest
  <2>6. (calls[c].op = "register" /\ calls[c].at \notin {"star", "settings", "mail"})
          => Reaches(ConfirmationOf(e, users'[e].by))
    <3>1. (calls[c].op = "register" /\ calls[c].at \notin {"star", "settings", "mail"})
            => Posted(ConfirmationOf(e, users[e].by)) \/ users[e].by \in cut
      BY <2>3, <2>4 DEF MakerInv
    <3>2. ConfirmationOf(e, users[e].by).code = users[e].by
      BY DEF ConfirmationOf
    <3>3. QED BY <1>1, <2>4, <3>1, <3>2
  <2>7. CASE calls'[c] = calls[c]
    BY <2>5, <2>6, <2>7
  <2>8. CASE Moved(c)
    <3>1. CASE calls[c].at = "mail"
      <4>1. /\ calls'[c].at = "find" /\ calls[c].op = "register"
            /\ WillBePosted(MailOf(calls[c]))
        BY <2>8, <3>1 DEF Moved
      <4>2. MailOf(calls[c]) = ConfirmationOf(e, users'[e].by)
        BY <2>4, <2>5, <4>1 DEF MailOf, ConfirmationOf
      <4>3. QED BY <2>3, <2>5, <3>1, <4>1, <4>2 DEF Reaches
    <3>2. CASE calls[c].at = "star"
      BY <2>3, <2>5, <2>8, <3>2 DEF Moved, Registrations
    <3>3. CASE calls[c].at = "settings"
      BY <2>3, <2>5, <2>8, <3>3 DEF Moved
    <3>4. CASE calls[c].at \in {"find", "token", "answer"}
      BY <2>3, <2>5, <2>6, <2>8, <3>4 DEF Moved
    <3>5. QED BY <2>5, <3>1, <3>2, <3>3, <3>4
  <2>9. QED BY <2>3, <2>7, <2>8
<1>4. QED
  <2>1. ASSUME NEW d \in Calls, Created(d, e)
        PROVE  /\ calls'[c].email = e /\ calls'[c].op \in Registrations
               /\ users'[e].google <=> calls'[c].op = "registerWithGoogle"
               /\ calls'[c].at = "star"
    BY <1>2, <2>1
  <2>2. QED BY <1>3, <2>1, RowSteps DEF RowStep

(* Who wrote a number of his own into a row is the one who has it.         *)
LEMMA Writer ==
  ASSUME TypeOK, IdsInv, CallsInv, UsersInv, [Next]_vars, NEW c \in Calls, NEW d \in Calls,
         calls[d].at # "idle", calls'[c].id = calls[d].id
  PROVE  c = d
BY SameCall DEF IdsInv

LEMMA CodeStep ==
  ASSUME TypeOK, IdsInv, CallsInv, UsersInv, CodeInv, [Next]_vars
  PROVE  CodeInv'
<1> DEFINE Reaches(m) == WillBePosted(m) \/ m.code \in cut'
<1>1. ASSUME NEW m, Posted(m) \/ m.code \in cut PROVE Reaches(m)
  BY <1>1, MailSteps, HistorySteps
<1> HIDE DEF Reaches
<1> DEFINE code(e) == users[e].emailConfirmationCode
           next(e) == users'[e].emailConfirmationCode
<1> SUFFICES ASSUME NEW e \in Emails, NEW c \in Calls, calls'[c].at # "idle",
                    next(e) = calls'[c].id
             PROVE  /\ calls'[c].email = e
                    /\ calls'[c].op \in Registrations \cup {"resendConfirmMail"}
                    /\ calls'[c].at \in {"star", "settings", "mail", "find", "token", "answer"}
                    /\ calls'[c].op = "registerWithGoogle" => users'[e].isEmailConfirmed
                    /\ calls'[c].op = "resendConfirmMail" => calls'[c].at = "mail"
                    /\ (calls'[c].op = "register"
                          /\ calls'[c].at \notin {"star", "settings", "mail"})
                         => Reaches(ConfirmationOf(e, next(e)))
  BY DEF CodeInv, Busy, Posted, WillBePosted, Reaches, ConfirmationOf
<1>2. ASSUME NEW d \in Calls, Created(d, e)
      PROVE  /\ calls'[c].email = e /\ calls'[c].op \in Registrations
             /\ users'[e].isEmailConfirmed <=> calls'[c].op = "registerWithGoogle"
             /\ calls'[c].at = "star"
  <2>1. calls[d].at # "idle" /\ calls[d].op \in Registrations
    BY <1>2 DEF Created, CallsInv, Busy
  <2>2. c = d
    BY <1>2, <2>1, Writer DEF Created
  <2>3. QED BY <1>2, <2>1, <2>2 DEF Created, Same
<1>3. ASSUME NEW d \in Calls, CodeWritten(d, e)
      PROVE  /\ calls'[c].email = e /\ calls'[c].op = "resendConfirmMail"
             /\ calls'[c].at = "mail"
  <2>1. calls[d].at # "idle" /\ (calls[d].at = "resend" => calls[d].op = "resendConfirmMail")
    BY <1>3 DEF CodeWritten, CallsInv, Busy
  <2>2. next(e) # 0
    <3>1. calls'[c].id \in 1 .. made'
      BY IdsStep DEF IdsInv
    <3>2. QED BY <3>1
  <2>3. c = d
    BY <1>3, <2>1, <2>2, Writer DEF CodeWritten
  <2>4. QED BY <1>3, <2>1, <2>2, <2>3 DEF CodeWritten, Same
<1>4. ASSUME next(e) = code(e), users[e].isEmailConfirmed => users'[e].isEmailConfirmed
      PROVE  /\ calls'[c].email = e
             /\ calls'[c].op \in Registrations \cup {"resendConfirmMail"}
             /\ calls'[c].at \in {"star", "settings", "mail", "find", "token", "answer"}
             /\ calls'[c].op = "registerWithGoogle" => users'[e].isEmailConfirmed
             /\ calls'[c].op = "resendConfirmMail" => calls'[c].at = "mail"
             /\ (calls'[c].op = "register"
                   /\ calls'[c].at \notin {"star", "settings", "mail"})
                  => Reaches(ConfirmationOf(e, next(e)))
  <2>1. calls'[c].id <= made
    BY <1>4 DEF UsersInv
  <2>2. /\ c \in Busy /\ calls'[c].id = calls[c].id /\ calls'[c].op = calls[c].op
        /\ calls'[c].email = calls[c].email /\ (calls'[c] = calls[c] \/ Moved(c))
    BY <2>1, Earlier
  <2>3. code(e) = calls[c].id
    BY <1>4, <2>2
  <2>4. /\ calls[c].email = e
        /\ calls[c].op \in Registrations \cup {"resendConfirmMail"}
        /\ calls[c].at \in {"star", "settings", "mail", "find", "token", "answer"}
        /\ calls[c].op = "registerWithGoogle" => users'[e].isEmailConfirmed
        /\ calls[c].op = "resendConfirmMail" => calls[c].at = "mail"
    BY <1>4, <2>2, <2>3 DEF CodeInv
  <2>5. (calls[c].op = "register" /\ calls[c].at \notin {"star", "settings", "mail"})
          => Reaches(ConfirmationOf(e, next(e)))
    <3>1. (calls[c].op = "register" /\ calls[c].at \notin {"star", "settings", "mail"})
            => Posted(ConfirmationOf(e, code(e))) \/ code(e) \in cut
      BY <2>2, <2>3 DEF CodeInv
    <3>2. ConfirmationOf(e, code(e)).code = code(e)
      BY DEF ConfirmationOf
    <3>3. QED BY <1>1, <1>4, <3>1, <3>2
  <2>6. CASE calls'[c] = calls[c]
    BY <2>4, <2>5, <2>6
  <2>7. CASE Moved(c)
    <3>1. CASE calls[c].at = "mail"
      <4>1. /\ calls'[c].at = "find" /\ calls[c].op = "register"
            /\ WillBePosted(MailOf(calls[c]))
        BY <2>7, <3>1 DEF Moved
      <4>2. MailOf(calls[c]) = ConfirmationOf(e, next(e))
        BY <1>4, <2>3, <2>4, <4>1 DEF MailOf, ConfirmationOf
      <4>3. QED BY <2>2, <2>4, <4>1, <4>2 DEF Reaches, Registrations
    <3>2. CASE calls[c].at = "star"
      BY <2>2, <2>4, <2>7, <3>2 DEF Moved, Registrations
    <3>3. CASE calls[c].at = "settings"
      BY <2>2, <2>4, <2>7, <3>3 DEF Moved
    <3>4. CASE calls[c].at \in {"find", "token", "answer"}
      BY <2>2, <2>4, <2>5, <2>7, <3>4 DEF Moved
    <3>5. QED BY <2>4, <3>1, <3>2, <3>3, <3>4
  <2>8. QED BY <2>2, <2>6, <2>7
<1> HIDE DEF code, next
<1>5. CASE \E d \in Calls : Created(d, e)
  BY <1>2, <1>5 DEF Registrations
<1>6. CASE \E d \in Calls : CodeWritten(d, e)
  BY <1>3, <1>6 DEF Registrations
<1>7. CASE ~\E d \in Calls : Created(d, e) \/ CodeWritten(d, e)
  BY <1>4, <1>7, RowSteps DEF RowStep, Updated, KeepsRest, code, next
<1>8. QED BY <1>5, <1>6, <1>7

LEMMA ResetStep ==
  ASSUME TypeOK, IdsInv, CallsInv, UsersInv, ResetInv, [Next]_vars
  PROVE  ResetInv'
<1> SUFFICES ASSUME NEW e \in Emails, NEW c \in Calls, calls'[c].at # "idle",
                    users'[e].forgotPasswordCode = calls'[c].id
             PROVE  /\ calls'[c].email = e /\ calls'[c].op = "sendForgotPasswordCode"
                    /\ calls'[c].at = "mail"
  BY DEF ResetInv, Busy
<1>1. calls'[c].id # 0
  <2>1. calls'[c].id \in 1 .. made'
    BY IdsStep DEF IdsInv
  <2>2. QED BY <2>1
<1>2. CASE \E d \in Calls : ResetWritten(d, e)
  <2>1. PICK d \in Calls : ResetWritten(d, e)
    BY <1>2
  <2>2. calls[d].at # "idle" /\ (calls[d].at = "forgot" => calls[d].op = "sendForgotPasswordCode")
    BY <2>1 DEF ResetWritten, CallsInv, Busy
  <2>3. c = d
    BY <1>1, <2>1, <2>2, Writer DEF ResetWritten
  <2>4. QED BY <1>1, <2>1, <2>2, <2>3 DEF ResetWritten, Same
<1>3. CASE users'[e].forgotPasswordCode = users[e].forgotPasswordCode
  <2>1. calls'[c].id <= made
    BY <1>3 DEF UsersInv
  <2>2. /\ c \in Busy /\ calls'[c].id = calls[c].id /\ calls'[c].op = calls[c].op
        /\ calls'[c].email = calls[c].email /\ (calls'[c] = calls[c] \/ Moved(c))
    BY <2>1, Earlier
  <2>3. /\ calls[c].email = e /\ calls[c].op = "sendForgotPasswordCode"
        /\ calls[c].at = "mail"
    <3>1. users[e].forgotPasswordCode = calls[c].id
      BY <1>3, <2>2
    <3>2. QED BY <2>2, <3>1 DEF ResetInv
  <2>4. ~Moved(c)
    BY <2>3 DEF Moved
  <2>5. QED BY <2>2, <2>3, <2>4
<1>4. QED BY <1>1, <1>2, <1>3, RowSteps DEF RowStep, Updated, Created

LEMMA TokenStep ==
  ASSUME TypeOK, IdsInv, CallsInv, UsersInv, TokenInv, [Next]_vars
  PROVE  TokenInv'
<1> SUFFICES ASSUME NEW e \in Emails, NEW c \in Calls, calls'[c].at # "idle",
                    users'[e].refreshToken = calls'[c].id
             PROVE  calls'[c].at = "answer"
  BY DEF TokenInv, Busy
<1>1. calls'[c].id # 0
  <2>1. calls'[c].id \in 1 .. made'
    BY IdsStep DEF IdsInv
  <2>2. QED BY <2>1
<1>2. ASSUME NEW d \in Calls, calls[d].at = "token", calls'[d].at = "answer",
             users'[e].refreshToken = calls[d].id
      PROVE  calls'[c].at = "answer"
  BY <1>2, Writer
<1>3. CASE users'[e].refreshToken = users[e].refreshToken
  <2>1. calls'[c].id <= made
    BY <1>3 DEF UsersInv
  <2>2. /\ c \in Busy /\ calls'[c].id = calls[c].id /\ (calls'[c] = calls[c] \/ Moved(c))
    BY <2>1, Earlier
  <2>3. calls[c].at = "answer"
    BY <1>3, <2>2 DEF TokenInv
  <2>4. ~Moved(c)
    BY <2>3 DEF Moved
  <2>5. QED BY <2>2, <2>3, <2>4
<1>4. QED BY <1>1, <1>2, <1>3, RowSteps DEF RowStep, Updated, Created

-----------------------------------------------------------------------------
(* Who is in flight stays so, unless it ends.                              *)
LEMMA FlightStep ==
  ASSUME TypeOK, IdsInv, CallsInv, UsersInv, [Next]_vars, NEW c \in Busy
  PROVE  (calls'[c].at # "idle" /\ calls'[c].id = calls[c].id) \/ Ended(c)
<1>1. ~Started(c)
  BY DEF Started, Busy
<1>2. CASE Moved(c)
  BY <1>2 DEF Moved, Same
<1>3. QED BY <1>1, <1>2, CallSteps DEF Busy

LEMMA RegistrationStep ==
  ASSUME TypeOK, IdsInv, CallsInv, UsersInv, MakerInv, RegistrationIsWhole, [Next]_vars
  PROVE  RegistrationIsWhole'
<1> DEFINE Reaches(m) == WillBePosted(m) \/ m.code \in cut'
           Whole(e) == \/ \E c \in Calls : calls'[c].at # "idle" /\ calls'[c].id = users'[e].by
                       \/ users'[e].by \in cut'
                       \/ /\ users'[e].star
                          /\ \/ users'[e].google
                             \/ /\ users'[e].settings
                                /\ WillBePosted(ConfirmationOf(e, users'[e].by))
<1>1. ASSUME NEW m, Posted(m) \/ m.code \in cut PROVE Reaches(m)
  BY <1>1, MailSteps, HistorySteps
<1>2. ASSUME NEW e \in Emails, users'[e].name # Nobody PROVE Whole(e)
  <2>1. ASSUME NEW d \in Calls, Created(d, e) PROVE Whole(e)
    BY <2>1 DEF Created, Same
  <2>2. CASE Exists(e)
    <3>1. KeepsRest(users[e], users'[e])
      BY <2>2, UsersStay
    <3>2. ConfirmationOf(e, users[e].by).code = users[e].by
      BY DEF ConfirmationOf
    <3>3. ASSUME NEW c \in Busy, calls[c].id = users[e].by PROVE Whole(e)
      <4>1. CASE calls'[c].at # "idle" /\ calls'[c].id = calls[c].id
        BY <3>1, <3>3, <4>1 DEF KeepsRest, Busy
      <4>2. CASE Ended(c) /\ calls[c].id \in cut'
        BY <3>1, <3>3, <4>2 DEF KeepsRest
      <4>3. CASE Ended(c) /\ calls[c].id \notin cut'
        <5>1. calls[c].at \in {"token", "answer"}
          BY <3>3, <4>3 DEF Ended, MakerInv, CallsInv, Registrations
        <5>2. /\ users[e].star /\ calls[c].op \in Registrations
              /\ users[e].google <=> calls[c].op = "registerWithGoogle"
              /\ calls[c].op = "register" =>
                   /\ users[e].settings
                   /\ Posted(ConfirmationOf(e, users[e].by)) \/ users[e].by \in cut
          BY <3>3, <5>1 DEF MakerInv
        <5>3. calls[c].op = "register" => Reaches(ConfirmationOf(e, users[e].by))
          BY <1>1, <3>2, <5>2
        <5>4. QED BY <3>1, <3>2, <5>2, <5>3 DEF KeepsRest, Registrations
      <4>4. QED BY <4>1, <4>2, <4>3, FlightStep
    <3>4. CASE users[e].by \in cut
      BY <3>1, <3>4, HistorySteps DEF KeepsRest
    <3>5. CASE /\ users[e].star
               /\ \/ users[e].google
                  \/ users[e].settings /\ Posted(ConfirmationOf(e, users[e].by))
      BY <1>1, <3>1, <3>2, <3>5 DEF KeepsRest
    <3>6. QED BY <2>2, <3>3, <3>4, <3>5 DEF RegistrationIsWhole, InFlight
  <2>3. QED BY <1>2, <2>1, <2>2, RowSteps DEF RowStep, Updated, Exists
<1>3. QED BY <1>2 DEF RegistrationIsWhole, InFlight, Busy, Exists, Posted, WillBePosted,
                      ConfirmationOf

LEMMA UnconfirmedStep ==
  ASSUME TypeOK, IdsInv, CallsInv, UsersInv, CodeInv, UnconfirmedCanConfirm, [Next]_vars
  PROVE  UnconfirmedCanConfirm'
<1> DEFINE Reaches(m) == WillBePosted(m) \/ m.code \in cut'
           code(e) == users[e].emailConfirmationCode
           next(e) == users'[e].emailConfirmationCode
           Reached(e) == \/ \E c \in Calls : calls'[c].at # "idle" /\ calls'[c].id = next(e)
                         \/ next(e) \in cut' \/ next(e) \in redrawn'
                         \/ WillBePosted(ConfirmationOf(e, next(e)))
<1>1. ASSUME NEW m, Posted(m) \/ m.code \in cut PROVE Reaches(m)
  BY <1>1, MailSteps, HistorySteps
<1>2. ASSUME NEW e \in Emails, users'[e].name # Nobody, ~users'[e].isEmailConfirmed
      PROVE  Reached(e)
  <2>1. ASSUME NEW d \in Calls, Created(d, e) PROVE Reached(e)
    BY <2>1 DEF Created, Same
  <2>2. ASSUME NEW d \in Calls, CodeWritten(d, e) PROVE Reached(e)
    BY <1>2, <2>2 DEF CodeWritten, Same
  <2>3. CASE Exists(e) /\ ~users[e].isEmailConfirmed /\ next(e) = code(e)
    <3>1. ConfirmationOf(e, code(e)).code = code(e)
      BY DEF ConfirmationOf
    <3>2. ASSUME NEW c \in Busy, calls[c].id = code(e) PROVE Reached(e)
      <4>1. CASE calls'[c].at # "idle" /\ calls'[c].id = calls[c].id
        BY <2>3, <3>2, <4>1 DEF Busy
      <4>2. CASE Ended(c) /\ calls[c].id \in cut'
        BY <2>3, <3>2, <4>2
      <4>3. CASE Ended(c) /\ calls[c].id \notin cut'
        <5>1. /\ calls[c].email = e /\ calls[c].at \in {"mail", "token", "answer"}
              /\ calls[c].op # "registerWithGoogle"
              /\ calls[c].op \in Registrations \cup {"resendConfirmMail"}
              /\ calls[c].op = "resendConfirmMail" => calls[c].at = "mail"
              /\ calls[c].op = "register" /\ calls[c].at # "mail"
                   => Posted(ConfirmationOf(e, code(e))) \/ code(e) \in cut
          BY <2>3, <3>2, <4>3 DEF Ended, CodeInv
        <5>2. CASE calls[c].at = "mail"
          <6>1. calls[c].op = "resendConfirmMail" /\ WillBePosted(MailOf(calls[c]))
            BY <4>3, <5>1, <5>2 DEF Ended, Registrations
          <6>2. MailOf(calls[c]) = ConfirmationOf(e, next(e))
            BY <2>3, <3>2, <5>1, <6>1 DEF MailOf, ConfirmationOf
          <6>3. QED BY <6>1, <6>2
        <5>3. CASE calls[c].at # "mail"
          <6>1. Reaches(ConfirmationOf(e, code(e)))
            BY <1>1, <3>1, <5>1, <5>3 DEF Registrations
          <6>2. QED BY <2>3, <3>1, <6>1
        <5>4. QED BY <5>2, <5>3
      <4>4. QED BY <4>1, <4>2, <4>3, FlightStep
    <3>3. CASE code(e) \in cut \/ code(e) \in redrawn
      BY <2>3, <3>3, HistorySteps
    <3>4. CASE Posted(ConfirmationOf(e, code(e)))
      BY <1>1, <2>3, <3>1, <3>4
    <3>5. QED BY <2>3, <3>2, <3>3, <3>4 DEF UnconfirmedCanConfirm, InFlight
  <2> HIDE DEF Reached
  <2>4. QED BY <1>2, <2>1, <2>2, <2>3, RowSteps DEF RowStep, Updated, KeepsRest, Exists
<1>3. QED BY <1>2 DEF UnconfirmedCanConfirm, InFlight, Busy, Exists, Posted, WillBePosted,
                      ConfirmationOf

LEMMA StoredTokenStep ==
  ASSUME TypeOK, IdsInv, CallsInv, UsersInv, TokenInv, StoredTokenIsKnown, [Next]_vars
  PROVE  StoredTokenIsKnown'
<1> DEFINE Known(t) == \/ \E a \in answered' : a.token = t
                       \/ \E c \in Calls : calls'[c].at # "idle" /\ calls'[c].id = t
                       \/ t \in cut'
<1>1. ASSUME NEW e \in Emails, users'[e].refreshToken # 0
      PROVE  Known(users'[e].refreshToken)
  <2>1. ASSUME NEW d \in Calls, calls[d].at = "token", calls'[d].at = "answer",
               users'[e].refreshToken = calls[d].id
        PROVE  Known(users'[e].refreshToken)
    <3>1. d \in Busy /\ ~Ended(d)
      BY <2>1, EmptyRecords DEF Busy, Ended
    <3>2. QED BY <2>1, <3>1, FlightStep
  <2>2. CASE users'[e].refreshToken = users[e].refreshToken
    <3>1. ASSUME NEW c \in Busy, calls[c].id = users[e].refreshToken
          PROVE  Known(users'[e].refreshToken)
      <4>1. calls[c].at = "answer"
        BY <3>1 DEF TokenInv
      <4>2. CASE Ended(c)
        BY <2>2, <3>1, <4>1, <4>2 DEF Ended
      <4>3. QED BY <2>2, <3>1, <4>2, FlightStep DEF Busy
    <3>2. QED BY <1>1, <2>2, <3>1, HistorySteps DEF StoredTokenIsKnown, InFlight
  <2> HIDE DEF Known
  <2>3. QED BY <1>1, <2>1, <2>2, RowSteps DEF RowStep, Updated, Created
<1>2. QED BY <1>1 DEF StoredTokenIsKnown, InFlight, Busy

LEMMA OnlyItsMailStep ==
  ASSUME TypeOK, IdsInv, CallsInv, UsersInv, BroughtInv, OnlyItsMailConfirms, [Next]_vars
  PROVE  OnlyItsMailConfirms'
<1> SUFFICES ASSUME NEW e \in Emails, users'[e].isEmailConfirmed, ~users'[e].google
             PROVE  \E m \in sent' : m.kind = "confirmation" /\ m.email = e
  BY DEF OnlyItsMailConfirms
<1>1. ASSUME \E m \in sent : m.kind = "confirmation" /\ m.email = e
      PROVE  \E m \in sent' : m.kind = "confirmation" /\ m.email = e
  BY <1>1, MailSteps
<1>2. ASSUME NEW c \in Calls, calls[c].at = "confirm", calls[c].email = e
      PROVE  \E m \in sent : m.kind = "confirmation" /\ m.email = e
  BY <1>2 DEF BroughtInv, ConfirmationOf
<1>3. CASE users[e].isEmailConfirmed /\ users'[e].google = users[e].google
  BY <1>1, <1>3 DEF OnlyItsMailConfirms
<1>4. QED BY <1>1, <1>2, <1>3, RowSteps DEF RowStep, Updated, KeepsRest, Created
-----------------------------------------------------------------------------

(* No step writes a code that has been mailed.                             *)
LEMMA NoNewCode ==
  ASSUME TypeOK, IdsInv, CallsInv, UsersInv, [Next]_vars, NEW id, id # 0,
         \A d \in Calls : calls[d].id = id
                            => calls[d].at \notin {"create", "resend", "change", "forgot"},
         NEW e \in Emails
  PROVE  /\ users'[e].emailConfirmationCode = id => users[e].emailConfirmationCode = id
         /\ users'[e].forgotPasswordCode = id => users[e].forgotPasswordCode = id
<1>1. ASSUME NEW d \in Calls, Created(d, e)
      PROVE  users'[e].emailConfirmationCode # id /\ users'[e].forgotPasswordCode # id
  BY <1>1 DEF Created
<1>2. ASSUME NEW d \in Calls, CodeWritten(d, e) PROVE users'[e].emailConfirmationCode # id
  BY <1>2 DEF CodeWritten
<1>3. ASSUME NEW d \in Calls, ResetWritten(d, e) PROVE users'[e].forgotPasswordCode # id
  BY <1>3 DEF ResetWritten
<1>4. QED BY <1>1, <1>2, <1>3, RowSteps DEF RowStep, Updated

LEMMA PostedStep ==
  ASSUME TypeOK, IdsInv, CallsInv, UsersInv, CodeInv, ResetInv, PostedInv, [Next]_vars
  PROVE  PostedInv'
<1> SUFFICES ASSUME NEW m \in Mail, WillBePosted(m)
             PROVE  /\ m.code \in 1 .. made'
                    /\ \A c \in Calls : calls'[c].id = m.code
                         => calls'[c].at \in {"find", "token", "answer"}
                    /\ \A e \in Emails :
                         /\ users'[e].emailConfirmationCode = m.code
                              => m = ConfirmationOf(e, m.code)
                         /\ users'[e].forgotPasswordCode = m.code => m = ResetOf(e, m.code)
  BY DEF PostedInv, Posted, WillBePosted, ConfirmationOf, ResetOf
<1>1. ASSUME NEW c \in Calls, calls'[c].id # 0 PROVE calls'[c].at # "idle"
  BY <1>1, IdsStep, EmptyRecords DEF IdsInv
<1>2. ASSUME m.code \in 1 .. made PROVE m.code \in 1 .. made' /\ m.code # 0 /\ m.code <= made
  BY <1>2, MadeGrows DEF TypeOK
<1>3. CASE Posted(m)
  <2>1. /\ m.code \in 1 .. made
        /\ \A c \in Calls : calls[c].id = m.code => calls[c].at \in {"find", "token", "answer"}
        /\ \A e \in Emails :
             /\ users[e].emailConfirmationCode = m.code => m = ConfirmationOf(e, m.code)
             /\ users[e].forgotPasswordCode = m.code => m = ResetOf(e, m.code)
    BY <1>3 DEF PostedInv
  <2>2. m.code \in 1 .. made' /\ m.code # 0 /\ m.code <= made
    BY <1>2, <2>1
  <2>3. ASSUME NEW c \in Calls, calls'[c].id = m.code
        PROVE  calls'[c].at \in {"find", "token", "answer"}
    <3>1. calls[c].id = m.code /\ (calls'[c] = calls[c] \/ Moved(c))
      BY <1>1, <2>2, <2>3, Earlier
    <3>2. calls[c].at \in {"find", "token", "answer"}
      BY <2>1, <3>1
    <3>3. QED BY <3>1, <3>2 DEF Moved
  <2>4. ASSUME NEW e \in Emails
        PROVE  /\ users'[e].emailConfirmationCode = m.code
                    => users[e].emailConfirmationCode = m.code
               /\ users'[e].forgotPasswordCode = m.code
                    => users[e].forgotPasswordCode = m.code
    <3>1. \A d \in Calls : calls[d].id = m.code
                             => calls[d].at \notin {"create", "resend", "change", "forgot"}
      BY <2>1
    <3>2. QED BY <2>2, <3>1, NoNewCode
  <2>5. QED BY <2>1, <2>2, <2>3, <2>4
<1>4. ASSUME NEW d \in Calls, calls[d].at = "mail", m = MailOf(calls[d]),
             IF calls[d].op = "register"
             THEN calls'[d].at = "find" /\ Same(calls[d], calls'[d])
             ELSE calls'[d].at = "idle"
      PROVE  /\ m.code \in 1 .. made'
             /\ \A c \in Calls : calls'[c].id = m.code
                  => calls'[c].at \in {"find", "token", "answer"}
             /\ \A e \in Emails :
                  /\ users'[e].emailConfirmationCode = m.code
                       => m = ConfirmationOf(e, m.code)
                  /\ users'[e].forgotPasswordCode = m.code => m = ResetOf(e, m.code)
  <2>1. m.code = calls[d].id /\ calls[d].id \in 1 .. made /\ d \in Busy
    BY <1>4 DEF MailOf, IdsInv, Busy
  <2>2. m.code \in 1 .. made' /\ m.code # 0
    BY <1>2, <2>1
  <2>3. ASSUME NEW c \in Calls, calls'[c].id = m.code
        PROVE  calls'[c].at \in {"find", "token", "answer"}
    <3>1. c = d /\ calls'[c].at # "idle"
      BY <1>1, <1>4, <2>1, <2>2, <2>3, Writer
    <3>2. QED BY <1>4, <3>1
  <2>4. ASSUME NEW e \in Emails
        PROVE  /\ users'[e].emailConfirmationCode = m.code
                    => users[e].emailConfirmationCode = m.code
               /\ users'[e].forgotPasswordCode = m.code
                    => users[e].forgotPasswordCode = m.code
    <3>1. \A c \in Calls : calls[c].id = m.code
                             => calls[c].at \notin {"create", "resend", "change", "forgot"}
      BY <1>4, <2>1, <2>2 DEF IdsInv
    <3>2. QED BY <2>2, <3>1, NoNewCode
  <2>5. ASSUME NEW e \in Emails, users[e].emailConfirmationCode = m.code
        PROVE  m = ConfirmationOf(e, m.code)
    <3>1. calls[d].email = e /\ calls[d].op # "sendForgotPasswordCode"
      BY <2>1, <2>5 DEF CodeInv, Registrations
    <3>2. QED BY <1>4, <2>1, <3>1 DEF MailOf, ConfirmationOf
  <2>6. ASSUME NEW e \in Emails, users[e].forgotPasswordCode = m.code
        PROVE  m = ResetOf(e, m.code)
    <3>1. calls[d].email = e /\ calls[d].op = "sendForgotPasswordCode"
      BY <2>1, <2>6 DEF ResetInv
    <3>2. QED BY <1>4, <2>1, <3>1 DEF MailOf, ResetOf
  <2>7. QED BY <2>2, <2>3, <2>4, <2>5, <2>6
<1>5. QED BY <1>3, <1>4, MailSteps

LEMMA BroughtStep ==
  ASSUME TypeOK, IdsInv, CallsInv, UsersInv, PostedInv, BroughtInv, [Next]_vars
  PROVE  BroughtInv'
<1>1. ASSUME NEW m \in sent
      PROVE  /\ m \in sent' /\ m \in Mail /\ m.code # 0
             /\ \A e \in Emails :
                  /\ users[e].emailConfirmationCode = m.code => m = ConfirmationOf(e, m.code)
                  /\ users[e].forgotPasswordCode = m.code => m = ResetOf(e, m.code)
  <2>1. m \in sent' /\ m \in Mail /\ Posted(m)
    BY MailSteps DEF Posted, TypeOK
  <2>2. m.code \in 1 .. made
    BY <2>1 DEF PostedInv
  <2>3. m.code # 0
    BY <2>2
  <2>4. QED BY <2>1, <2>3 DEF PostedInv
<1>2. ASSUME NEW c \in Calls, calls'[c].at = "verify"
      PROVE  \E m \in sent' : m.code = calls'[c].code
  <2>1. calls'[c] = calls[c] \/ Started(c)
    BY <1>2, CallSteps, EmptyRecords DEF Moved, Ended
  <2>2. \E m \in sent : m.code = calls'[c].code
    BY <1>2, <2>1 DEF BroughtInv, Started
  <2>3. QED BY <1>1, <2>2
<1>3. ASSUME NEW c \in Calls, calls'[c].at = "confirm"
      PROVE  ConfirmationOf(calls'[c].email, calls'[c].code) \in sent'
  <2>1. CASE calls'[c] = calls[c]
    BY <1>1, <1>3, <2>1 DEF BroughtInv
  <2>2. CASE Moved(c)
    <3>1. /\ calls[c].at = "verify" /\ Same(calls[c], calls'[c])
          /\ users[calls[c].email].emailConfirmationCode = calls[c].code
      BY <1>3, <2>2 DEF Moved
    <3>2. PICK m \in sent : m.code = calls[c].code
      BY <3>1 DEF BroughtInv
    <3>3. calls[c].email \in Emails
      BY <3>1 DEF CallsInv, Busy
    <3>4. m = ConfirmationOf(calls[c].email, calls[c].code)
      BY <1>1, <3>1, <3>2, <3>3
    <3>5. QED BY <1>1, <3>1, <3>4 DEF Same
  <2>3. QED BY <1>3, <2>1, <2>2, CallSteps, EmptyRecords DEF Started, Ended
<1>4. ASSUME NEW c \in Calls, calls'[c].at = "change"
      PROVE  /\ ResetOf(calls'[c].email, calls'[c].code) \in sent'
             /\ users'[calls'[c].email].forgotPasswordCode \in {0, calls'[c].code} \cup late'
  <2>1. CASE Started(c)
    <3>1. /\ users' = users /\ calls'[c].email \in Emails
          /\ calls'[c].code = users[calls'[c].email].forgotPasswordCode
      BY <1>4, <2>1 DEF Started
    <3>2. PICK m \in sent : m.code = calls'[c].code
      BY <1>4, <2>1 DEF Started
    <3>3. m = ResetOf(calls'[c].email, calls'[c].code)
      BY <1>1, <3>1, <3>2
    <3>4. QED BY <1>1, <3>1, <3>3
  <2>2. CASE calls'[c] = calls[c]
    <3> DEFINE e == calls[c].email
    <3>1. /\ ResetOf(e, calls[c].code) \in sent /\ e \in Emails
          /\ users[e].forgotPasswordCode \in {0, calls[c].code} \cup late
      BY <1>4, <2>2 DEF BroughtInv, CallsInv, Busy
    <3>2. users'[e].forgotPasswordCode \in {0, users[e].forgotPasswordCode} \cup late'
      <4>1. ASSUME NEW d \in Calls, ResetWritten(d, e)
            PROVE  users'[e].forgotPasswordCode \in {0} \cup late'
        BY <1>4, <2>2, <4>1 DEF ResetWritten
      <4>2. QED BY <3>1, <4>1, RowSteps DEF RowStep, Updated, Created
    <3>3. QED BY <1>1, <2>2, <3>1, <3>2, HistorySteps
  <2>3. QED BY <1>4, <2>1, <2>2, CallSteps, EmptyRecords DEF Moved, Ended
<1>5. QED BY <1>2, <1>3, <1>4 DEF BroughtInv, ConfirmationOf, ResetOf

LEMMA SpentStep ==
  ASSUME TypeOK, IdsInv, CallsInv, UsersInv, PostedInv, BroughtInv, SpentInv, [Next]_vars
  PROVE  SpentInv'
<1>1. ASSUME NEW m \in sent, NEW e \in Emails
      PROVE  /\ m \in sent' /\ m.code # 0
             /\ users'[e].emailConfirmationCode = m.code
                  => /\ users[e].emailConfirmationCode = m.code
                     /\ m = ConfirmationOf(e, m.code)
             /\ users'[e].forgotPasswordCode = m.code
                  => users[e].forgotPasswordCode = m.code /\ m = ResetOf(e, m.code)
  <2>1. m \in sent' /\ m \in Mail /\ Posted(m)
    BY MailSteps DEF Posted, TypeOK
  <2>2. m.code \in 1 .. made
    BY <2>1 DEF PostedInv
  <2>3. m.code # 0
    BY <2>2
  <2>4. \A d \in Calls : calls[d].id = m.code
                           => calls[d].at \notin {"create", "resend", "change", "forgot"}
    BY <2>1 DEF PostedInv
  <2>5. QED BY <2>1, <2>3, <2>4, NoNewCode DEF PostedInv
<1>2. ASSUME NEW code \in spent
      PROVE  /\ \E m \in sent' : m.code = code
             /\ \A e \in Emails : /\ users'[e].emailConfirmationCode # code
                                  /\ users'[e].forgotPasswordCode # code
  <2>1. PICK m \in sent : m.code = code
    BY <1>2 DEF SpentInv
  <2>2. m \in sent'
    BY MailSteps
  <2>3. QED BY <1>1, <1>2, <2>1, <2>2 DEF SpentInv
<1>3. ASSUME NEW c \in Calls, Spending(c)
      PROVE  /\ \E m \in sent' : m.code = calls[c].code
             /\ \A e \in Emails : /\ users'[e].emailConfirmationCode # calls[c].code
                                  /\ users'[e].forgotPasswordCode # calls[c].code
  <2> DEFINE m == IF calls[c].at = "confirm"
                  THEN ConfirmationOf(calls[c].email, calls[c].code)
                  ELSE ResetOf(calls[c].email, calls[c].code)
  <2>1. m \in sent /\ m.code = calls[c].code /\ m.email = calls[c].email
    BY <1>3 DEF Spending, BroughtInv, ConfirmationOf, ResetOf
  <2>2. m.kind = IF calls[c].at = "confirm" THEN "confirmation" ELSE "sendForgotPasswordCode"
    BY DEF ConfirmationOf, ResetOf
  <2> HIDE DEF m
  <2>3. ASSUME NEW e \in Emails
        PROVE  /\ users'[e].emailConfirmationCode # calls[c].code
               /\ users'[e].forgotPasswordCode # calls[c].code
    <3>1. CASE users'[e].emailConfirmationCode = calls[c].code
      <4>1. m = ConfirmationOf(e, m.code) /\ m.code # 0
        BY <1>1, <2>1, <3>1
      <4>2. m.kind = "confirmation" /\ m.email = e
        BY <4>1 DEF ConfirmationOf
      <4>3. calls[c].at = "confirm" /\ calls[c].email = e
        BY <2>1, <2>2, <4>2
      <4>4. QED BY <1>3, <2>1, <3>1, <4>1, <4>3 DEF Spending
    <3>2. CASE users'[e].forgotPasswordCode = calls[c].code
      <4>1. m = ResetOf(e, m.code) /\ m.code # 0
        BY <1>1, <2>1, <3>2
      <4>2. m.kind = "sendForgotPasswordCode" /\ m.email = e
        BY <4>1 DEF ResetOf
      <4>3. calls[c].at # "confirm" /\ calls[c].email = e
        BY <2>1, <2>2, <4>2
      <4>4. QED BY <1>3, <2>1, <3>2, <4>1, <4>3 DEF Spending
    <3>3. QED BY <3>1, <3>2
  <2>4. m \in sent'
    BY <2>1, MailSteps
  <2>5. QED BY <2>1, <2>3, <2>4
<1>4. QED BY <1>2, <1>3, HistorySteps DEF SpentInv, Spending
-----------------------------------------------------------------------------

LEMMA InitEstablishesInv == Init => AccountsInv
<1> SUFFICES ASSUME Init PROVE AccountsInv
  OBVIOUS
<1> USE EmptyRecords
<1>1. \A e \in Emails : users[e] = NoUser
  BY DEF Init
<1>2. \A c \in Calls : calls[c] = NoCall
  BY DEF Init
<1>3. TypeOK
  BY DEF Init, TypeOK
<1>4. IdsInv /\ CallsInv /\ MakerInv /\ CodeInv /\ ResetInv /\ TokenInv /\ BroughtInv
  BY <1>2 DEF IdsInv, CallsInv, MakerInv, CodeInv, ResetInv, TokenInv, BroughtInv, Busy
<1>5. UsersInv
  BY <1>1 DEF Init, UsersInv, Exists
<1>6. PostedInv /\ SpentInv
  BY DEF Init, PostedInv, Posted, SpentInv
<1>7. /\ RegistrationIsWhole /\ UnconfirmedCanConfirm /\ OnlyItsMailConfirms
      /\ StoredTokenIsKnown
  BY <1>1 DEF RegistrationIsWhole, UnconfirmedCanConfirm, OnlyItsMailConfirms,
              StoredTokenIsKnown, Exists
<1>8. QED BY <1>3, <1>4, <1>5, <1>6, <1>7 DEF AccountsInv

LEMMA NextKeepsInv == AccountsInv /\ [Next]_vars => AccountsInv'
<1> SUFFICES ASSUME AccountsInv, [Next]_vars PROVE AccountsInv'
  OBVIOUS
<1>1. /\ TypeOK /\ IdsInv /\ CallsInv /\ UsersInv /\ MakerInv /\ CodeInv /\ ResetInv
      /\ TokenInv /\ PostedInv /\ BroughtInv /\ SpentInv
      /\ RegistrationIsWhole /\ UnconfirmedCanConfirm /\ OnlyItsMailConfirms
      /\ StoredTokenIsKnown
  BY DEF AccountsInv
<1>2. TypeOK' /\ IdsInv' /\ CallsInv' /\ UsersInv'
  BY <1>1, TypeStep, IdsStep, CallsStep, UsersStep
<1>3. MakerInv' /\ CodeInv' /\ ResetInv' /\ TokenInv'
  BY <1>1, MakerStep, CodeStep, ResetStep, TokenStep
<1>4. PostedInv' /\ BroughtInv' /\ SpentInv'
  BY <1>1, PostedStep, BroughtStep, SpentStep
<1>5. RegistrationIsWhole' /\ UnconfirmedCanConfirm'
  BY <1>1, RegistrationStep, UnconfirmedStep
<1>6. OnlyItsMailConfirms' /\ StoredTokenIsKnown'
  BY <1>1, OnlyItsMailStep, StoredTokenStep
<1>7. QED BY <1>2, <1>3, <1>4, <1>5, <1>6 DEF AccountsInv

LEMMA InvHolds == Spec => []AccountsInv
BY InitEstablishesInv, NextKeepsInv, PTL DEF Spec

(* Whatever the calls and the mail jobs do, the tables keep their types.   *)
THEOREM TypeCorrect == Spec => []TypeOK
<1>1. AccountsInv => TypeOK
  BY DEF AccountsInv
<1>2. QED BY <1>1, InvHolds, PTL

(* register and registerWithGoogle leave no user without his star, his     *)
(* settings and his code, unless they are cut short.                       *)
THEOREM RegistrationsAreWhole == Spec => []RegistrationIsWhole
<1>1. AccountsInv => RegistrationIsWhole
  BY DEF AccountsInv
<1>2. QED BY <1>1, InvHolds, PTL

(* The code of an unconfirmed user is in a mail to him, whichever of       *)
(* register, resendConfirmMail and changePassword drew it.                 *)
THEOREM CodesReachTheirUser == Spec => []UnconfirmedCanConfirm
<1>1. AccountsInv => UnconfirmedCanConfirm
  BY DEF AccountsInv
<1>2. QED BY <1>1, InvHolds, PTL

(* verifyEmail confirms nobody who has had no mail.                        *)
THEOREM ConfirmedByMail == Spec => []OnlyItsMailConfirms
<1>1. AccountsInv => OnlyItsMailConfirms
  BY DEF AccountsInv
<1>2. QED BY <1>1, InvHolds, PTL

(* createRefreshToken stores no token that its client does not get.        *)
THEOREM TokensAreKnown == Spec => []StoredTokenIsKnown
<1>1. AccountsInv => StoredTokenIsKnown
  BY DEF AccountsInv
<1>2. QED BY <1>1, InvHolds, PTL
-----------------------------------------------------------------------------
(* A token or an age that was looked up by name lands at another user only *)
(* if the own one has given up the name.                                   *)
THEOREM WritesLand == Spec => WritesLandAtTheirUser
<1> DEFINE Lands == \A c \in Calls : \A e \in Emails \ {calls[c].email} :
                      LET token == users'[e].refreshToken
                          age == users'[e].age
                      IN (\/ token # users[e].refreshToken /\ token = calls[c].id
                          \/ age # users[e].age /\ age = calls[c].id)
                           => users[calls[c].email].name # calls[c].name
<1>1. AccountsInv /\ [Next]_vars => [Lands]_vars
  <2> SUFFICES ASSUME AccountsInv, [Next]_vars,
                      NEW c \in Calls, NEW e \in Emails \ {calls[c].email},
                      \/ /\ users'[e].refreshToken # users[e].refreshToken
                         /\ users'[e].refreshToken = calls[c].id
                      \/ users'[e].age # users[e].age /\ users'[e].age = calls[c].id
               PROVE  users[calls[c].email].name # calls[c].name
    OBVIOUS
  <2>1. TypeOK /\ IdsInv /\ CallsInv /\ UsersInv
    BY DEF AccountsInv
  <2>2. Updated(e)
    <3>1. ~Exists(e) => users[e].refreshToken = 0 /\ users[e].age = 0
      BY <2>1, EmptyRecords DEF UsersInv
    <3>2. QED BY <2>1, <3>1, RowSteps DEF RowStep, Created
  <2>3. PICK d \in Calls : /\ calls[d].at \in {"token", "age"} /\ calls[d].id = calls[c].id
                           /\ users[e].name = calls[d].name
    BY <2>2 DEF Updated
  <2>4. c = d /\ calls[c].email \in Emails /\ Exists(e)
    BY <2>1, <2>2, <2>3, EmptyRecords DEF IdsInv, CallsInv, Busy, Updated
  <2>5. QED BY <2>1, <2>3, <2>4 DEF UsersInv
<1>2. QED BY <1>1, InvHolds, PTL DEF Spec, WritesLandAtTheirUser

(* changePassword erases no reset code but its own, or one that came while *)
(* it was running.                                                         *)
THEOREM ResetsErase == Spec => ResetErasesItsCode
<1> DEFINE Erases == \A e \in Emails :
                       users[e].forgotPasswordCode # 0 /\ users'[e].forgotPasswordCode = 0
                         => users[e].forgotPasswordCode \in spent' \cup late
<1>1. AccountsInv /\ [Next]_vars => [Erases]_vars
  <2> SUFFICES ASSUME AccountsInv, [Next]_vars, NEW e \in Emails,
                      users[e].forgotPasswordCode # 0, users'[e].forgotPasswordCode = 0
               PROVE  users[e].forgotPasswordCode \in spent' \cup late
    OBVIOUS
  <2>1. TypeOK /\ IdsInv /\ CallsInv /\ UsersInv /\ BroughtInv
    BY DEF AccountsInv
  <2>2. Updated(e)
    <3>1. ~Exists(e) => users[e].forgotPasswordCode = 0
      BY <2>1, EmptyRecords DEF UsersInv
    <3>2. QED BY <2>1, <3>1, RowSteps DEF RowStep, Created
  <2>3. PICK d \in Calls : ResetWritten(d, e)
    BY <2>2 DEF Updated
  <2>4. calls[d].at # "idle" => calls[d].id # 0
    BY <2>1 DEF IdsInv
  <2>5. calls[d].at = "change" /\ calls[d].email = e /\ calls[d].code \in spent'
    BY <2>3, <2>4 DEF ResetWritten
  <2>6. users[e].forgotPasswordCode \in {0, calls[d].code} \cup late
    BY <2>1, <2>5 DEF BroughtInv
  <2>7. QED BY <2>5, <2>6
<1>2. QED BY <1>1, InvHolds, PTL DEF Spec, ResetErasesItsCode

(* verifyEmail and the guard of changePassword let no spent code pass.     *)
THEOREM CodesAreSpent == Spec => CodeIsSpent
<1> DEFINE Passes == \A c \in Calls :
                       calls'[c].at \in {"confirm", "change"} /\ calls[c].at # calls'[c].at
                         => calls'[c].code \notin spent
<1>1. AccountsInv /\ [Next]_vars => [Passes]_vars
  <2> SUFFICES ASSUME AccountsInv, [Next]_vars, NEW c \in Calls,
                      calls'[c].at \in {"confirm", "change"}, calls[c].at # calls'[c].at
               PROVE  calls'[c].code \notin spent
    OBVIOUS
  <2>1. TypeOK /\ IdsInv /\ CallsInv /\ UsersInv /\ SpentInv
    BY DEF AccountsInv
  <2>2. CASE Started(c)
    BY <2>1, <2>2 DEF Started, SpentInv
  <2>3. CASE Moved(c)
    BY <2>1, <2>3 DEF Moved, Same, CallsInv, Busy, SpentInv
  <2>4. QED BY <2>1, <2>2, <2>3, CallSteps, EmptyRecords DEF Ended
<1>2. QED BY <1>1, InvHolds, PTL DEF Spec, CodeIsSpent
=============================================================================
