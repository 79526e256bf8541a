------------------------------ MODULE Accounts ------------------------------
(***************************************************************************)
(* Registering, signing in, codes and links sent by mail, and the settings *)
(* of an account (controllers/authController.js, settingsController.js,    *)
(* plugins/authPlugin.js, utils/jwt.js).                                   *)
(*                                                                         *)
(* A browser belongs to the person of one address and has one call under   *)
(* way.  A handler is cut at its awaits: a call is at the query it does    *)
(* next.  What the pages do with the answer is in AuthPages.               *)
(***************************************************************************)
EXTENDS Users

CONSTANTS Browsers,     \* the browsers
          Address       \* Address[b]: the address of the person at browser b

ASSUME AddressAssumption == Address \in [Browsers -> Emails]

VARIABLES mailbox,      \* what was delivered: [kind, email, id, token]
          calls         \* the call of each browser: a handler, or its answer

Kinds == {"code", "otp", "link"}
PublicOps == {"register", "login", "forgot", "reset", "otp", "verify", "google"}
TokenOps == {"profile", "security", "enable2fa", "disable2fa", "delete"}
ASSUME OpsAssumption == Nothing \notin PublicOps \cup TokenOps
Stages == {"idle", "read", "check", "insert", "find", "code", "otp", "link", "mailcode",
           "mailotp", "maillink", "set", "write", "clear", "auth", "refresh", "act", "answered"}

\* id: the row a call is about; with a token, the user the token names.
\* again: fetchWithToken has got a new token.  barred: history, see Barred.
Call == [op : PublicOps \cup TokenOps \cup {Nothing}, at : Stages,
         password : Passwords \cup {Nothing}, new : Passwords \cup {Nothing},
         token : Tokens \cup {Nothing}, id : Ids \cup {Nothing}, again : BOOLEAN,
         status : {0, 200, 201, 302, 400, 403, 404, 409, 500}, barred : BOOLEAN]

Idle == [op |-> Nothing, at |-> "idle", password |-> Nothing, new |-> Nothing,
         token |-> Nothing, id |-> Nothing, again |-> FALSE, status |-> 0, barred |-> FALSE]

AccountsTypeOK ==
    /\ UsersTypeOK
    /\ mailbox \subseteq [kind : Kinds, email : Emails, id : Ids, token : Tokens]
    /\ calls \in [Browsers -> Call]

(***************************************************************************)
(* How a call moves.  An action changes the rows first and the calls then. *)
(***************************************************************************)

\* History: what a call has no right to succeed with, as the table stands.  A
\* login with a password that no row of the address has, or only rows that ask
\* for a second factor; a change of a password with a wrong one.
Barred(b, call, table) ==
    CASE call.op = "login" ->
            \A id \in DOMAIN table : table[id].email = Address[b] =>
                \/ table[id].two_factor_enabled
                \/ table[id].password # call.password
      [] call.op = "security" ->
            call.id \notin DOMAIN table \/ table[call.id].password # call.password
      [] OTHER -> FALSE
\* It is barred as long as it has been so at every moment.
Watched(b, call) == IF call.at = "answered" THEN call
                    ELSE [call EXCEPT !.barred = @ /\ Barred(b, call, rows')]
Becomes(b, call) == calls' = [x \in Browsers |-> IF x = b THEN call ELSE Watched(x, calls[x])]

Goes(b, stage) == Becomes(b, Watched(b, [calls[b] EXCEPT !.at = stage]))
GoesFor(b, stage, id) == Becomes(b, Watched(b, [calls[b] EXCEPT !.at = stage, !.id = id]))
GoesWith(b, stage, token) == Becomes(b, Watched(b, [calls[b] EXCEPT !.at = stage, !.token = token]))
\* The handler forgets what it was sent; a session is for the user id.
Answers(b, status, id) ==
    Becomes(b, [Idle EXCEPT !.op = calls[b].op, !.at = "answered", !.id = id, !.status = status,
                            !.barred = Watched(b, calls[b]).barred])
Fails(b, status) == Answers(b, status, Nothing)

At(b, op, stage) == calls[b].op = op /\ calls[b].at = stage
Caller(b) == Address[b]

\* A call that needs a session starts at authPlugin, the others at their query.
Begun(b, op, password, new, token, id) ==
    LET call == [Idle EXCEPT !.op = op, !.at = IF op \in TokenOps THEN "auth" ELSE "read",
                             !.password = password, !.new = new, !.token = token, !.id = id]
    IN  [call EXCEPT !.barred = Barred(b, call, rows)]

NewToken == lastToken < MaxTokens /\ lastToken' = lastToken + 1

(***************************************************************************)
(* register, login, sendVerificationEmail.                                 *)
(***************************************************************************)

RegisterRead(b) ==
    /\ At(b, "register", "read")
    /\ UNCHANGED <<rows, lastId, lastToken>>
    /\ IF getUserByEmail(Caller(b)) # Nothing THEN Fails(b, 409) ELSE Goes(b, "insert")

RegisterInsert(b) ==
    /\ At(b, "register", "insert")
    /\ createUser(Caller(b), calls[b].new, FALSE)
    /\ GoesFor(b, "code", lastId + 1)
    /\ UNCHANGED lastToken

Confirmed(row) == row.verified \/ row.google
\* fault: the second factor is asked of nobody
AsksForNoCode(row) == FALSE
AsksForCode(row) == row.two_factor_enabled
\* What the row said when it was read decides, whatever happens to it later.
LoginRead(b) ==
    /\ At(b, "login", "read")
    /\ UNCHANGED <<rows, lastId, lastToken>>
    /\ LET id == getUserByEmail(Caller(b))
       IN  \/ id = Nothing /\ Fails(b, 404)
          \/ /\ id # Nothing
             /\ LET row == rows[id]
                IN  CASE ~ Confirmed(row) -> GoesFor(b, "code", id)
                      [] Confirmed(row) /\ (row.google \/ row.password # calls[b].password) -> Fails(b, 400)
                      [] OTHER -> IF AsksForCode(row) THEN GoesFor(b, "otp", id) ELSE Answers(b, 200, id)

\* A new code takes the place of the one before; the row may be gone by now.
SaveCode(b) ==
    /\ calls[b].op \in {"register", "login"} /\ calls[b].at = "code"
    /\ NewToken
    /\ saveHashedVerificationCode(calls[b].id, lastToken + 1)
    /\ GoesWith(b, "mailcode", lastToken + 1)
    /\ UNCHANGED lastId

SaveOtp(b) ==
    /\ At(b, "login", "otp")
    /\ NewToken
    /\ saveHashedOtpCode(calls[b].id, lastToken + 1)
    /\ GoesWith(b, "mailotp", lastToken + 1)
    /\ UNCHANGED lastId

MailKind == [mailcode |-> "code", mailotp |-> "otp", maillink |-> "link"]
MailStatus(b) == CASE calls[b].op = "login" -> IF calls[b].at = "mailotp" THEN 201 ELSE 403
                   [] OTHER -> 200
\* sendEmail; when it throws, what was stored stays.
Mail(b, sent) ==
    /\ calls[b].at \in DOMAIN MailKind
    /\ UNCHANGED userVars
    /\ mailbox' = IF sent THEN mailbox \cup {[kind |-> MailKind[calls[b].at], email |-> Caller(b),
                                              id |-> calls[b].id, token |-> calls[b].token]}
                          ELSE mailbox
    /\ Fails(b, IF sent THEN MailStatus(b) ELSE 500)

(***************************************************************************)
(* verifyEmail, verify2fa.  No token stored is a 400 for the one, a        *)
(* TypeError and a 500 for the other.                                      *)
(***************************************************************************)

FindByEmail(b) ==
    /\ calls[b].op \in {"verify", "otp"} /\ calls[b].at = "read"
    /\ UNCHANGED <<rows, lastId, lastToken>>
    /\ LET id == getUserByEmail(Caller(b))
       IN  IF id = Nothing THEN Fails(b, 404) ELSE GoesFor(b, "check", id)

\* fault: only that a code is waiting counts
MatchesAny(stored, token) == stored # Nothing
Matches(stored, token) == stored # Nothing /\ stored = token
CheckCode(b) ==
    /\ At(b, "verify", "check")
    /\ UNCHANGED <<rows, lastId, lastToken>>
    /\ IF Matches(getUserVerificationCode(calls[b].id), calls[b].token)
       THEN Goes(b, "set") ELSE Fails(b, 400)

SetVerified(b) ==
    /\ At(b, "verify", "set")
    /\ setEmailVerified(calls[b].id, Caller(b))
    /\ Goes(b, "clear")
    /\ UNCHANGED <<lastId, lastToken>>

ClearCode(b) ==
    /\ At(b, "verify", "clear")
    /\ clearVerificationFields(calls[b].id)
    /\ Fails(b, 200)
    /\ UNCHANGED <<lastId, lastToken>>

CheckOtp(b) ==
    /\ At(b, "otp", "check")
    /\ UNCHANGED <<rows, lastId, lastToken>>
    /\ LET stored == getUserOtpCode(calls[b].id)
       IN  IF Matches(stored, calls[b].token) THEN Goes(b, "clear")
           ELSE Fails(b, IF stored = Nothing THEN 500 ELSE 400)

ClearOtp(b) ==
    /\ At(b, "otp", "clear")
    /\ clearOtpFields(calls[b].id)
    /\ Answers(b, 200, calls[b].id)
    /\ UNCHANGED <<lastId, lastToken>>

(***************************************************************************)
(* forgotPassword, resetPassword, google.                                  *)
(***************************************************************************)

ForgotRead(b) ==
    /\ At(b, "forgot", "read")
    /\ UNCHANGED <<rows, lastId, lastToken>>
    /\ LET id == getUserByEmail(Caller(b))
       IN  IF id = Nothing THEN Fails(b, 404) ELSE GoesFor(b, "link", id)

ForgotSave(b) ==
    /\ At(b, "forgot", "link")
    /\ NewToken
    /\ updateUserRestorations(calls[b].id, lastToken + 1)
    /\ GoesWith(b, "maillink", lastToken + 1)
    /\ UNCHANGED lastId

ResetRead(b) ==
    /\ At(b, "reset", "read")
    /\ UNCHANGED <<rows, lastId, lastToken>>
    /\ LET id == getUserByToken(calls[b].token)
       IN  IF id = Nothing THEN Fails(b, 400) ELSE GoesFor(b, "write", id)

\* clearRestorationTokens(), called without an id, finds no row: the link stays.
ResetWrite(b) ==
    /\ At(b, "reset", "write")
    /\ updatePassword(calls[b].id, calls[b].new)
    /\ Fails(b, 200)
    /\ UNCHANGED <<lastId, lastToken>>

GoogleRead(b) ==
    /\ At(b, "google", "read")
    /\ UNCHANGED <<rows, lastId, lastToken>>
    /\ Goes(b, IF getUserByGoogleId(Caller(b)) = Nothing THEN "insert" ELSE "find")

GoogleInsert(b) ==
    /\ At(b, "google", "insert")
    /\ createUser(Caller(b), Nothing, TRUE)
    /\ Goes(b, "find")
    /\ UNCHANGED lastToken

GoogleFind(b) ==
    /\ At(b, "google", "find")
    /\ UNCHANGED <<rows, lastId, lastToken>>
    /\ LET id == getUserByGoogleId(Caller(b))
       IN  IF id = Nothing THEN Fails(b, 500) ELSE Answers(b, 302, id)

(***************************************************************************)
(* The calls of a user that is signed in: profile, security, twofa,        *)
(* deleteAccount.  The token says who it is.                               *)
(***************************************************************************)

Profile(b) ==
    /\ At(b, "profile", "act")
    /\ UNCHANGED <<rows, lastId, lastToken>>
    /\ Fails(b, IF getUserById(calls[b].id) = Nothing THEN 404 ELSE 200)

\* fault: the password that is in use is not asked for
MayChangeUnasked(row, call) == ~ row.google
MayChangePassword(row, call) == ~ row.google /\ row.password = call.password
SecurityRead(b) ==
    /\ At(b, "security", "act")
    /\ UNCHANGED <<rows, lastId, lastToken>>
    /\ LET id == getUserById(calls[b].id)
       IN  CASE id = Nothing -> Fails(b, 500)
             [] id # Nothing /\ ~ MayChangePassword(rows[id], calls[b]) -> Fails(b, 400)
             [] OTHER -> Goes(b, "write")

SecurityWrite(b) ==
    /\ At(b, "security", "write")
    /\ updatePassword(calls[b].id, calls[b].new)
    /\ Fails(b, 201)
    /\ UNCHANGED <<lastId, lastToken>>

TwoFactor(b) ==
    /\ calls[b].op \in {"enable2fa", "disable2fa"} /\ calls[b].at = "act"
    /\ update2fa(calls[b].id, calls[b].op = "enable2fa")
    /\ Fails(b, IF Has2fa(calls[b].id) THEN 200 ELSE 404)
    /\ UNCHANGED <<lastId, lastToken>>

DeleteAccount(b) ==
    /\ At(b, "delete", "act")
    /\ deleteUser(calls[b].id)
    /\ Fails(b, 200)
    /\ UNCHANGED <<lastId, lastToken>>

\* Ten minutes pass: no query finds the token any more.  Only the queries that
\* look for a token ask its age, so it is old enough at the latest there.
LooksFor == [otp_code |-> <<"otp", "check">>, verification_code |-> <<"verify", "check">>,
             resetPasswordToken |-> <<"reset", "read">>]
Expire(id, column) ==
    /\ id \in DOMAIN rows /\ rows[id][column] # Nothing
    /\ \E b \in Browsers : <<calls[b].op, calls[b].at>> = LooksFor[column]
    /\ Set(id, column, Nothing)
    /\ UNCHANGED <<lastId, lastToken, mailbox, calls>>

Serve(b) ==
    \/ /\ UNCHANGED mailbox
       /\ \/ RegisterRead(b) \/ RegisterInsert(b) \/ LoginRead(b) \/ SaveCode(b) \/ SaveOtp(b)
          \/ FindByEmail(b) \/ CheckCode(b) \/ SetVerified(b) \/ ClearCode(b)
          \/ CheckOtp(b) \/ ClearOtp(b)
          \/ ForgotRead(b) \/ ForgotSave(b) \/ ResetRead(b) \/ ResetWrite(b)
          \/ GoogleRead(b) \/ GoogleInsert(b) \/ GoogleFind(b)
          \/ Profile(b) \/ SecurityRead(b) \/ SecurityWrite(b) \/ TwoFactor(b) \/ DeleteAccount(b)
    \/ \E sent \in BOOLEAN : Mail(b, sent)

=============================================================================
