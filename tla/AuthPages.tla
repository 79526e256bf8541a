------------------------------ MODULE AuthPages -----------------------------
(***************************************************************************)
(* The browser's side of Accounts: the pages under /auth, fetchWithToken   *)
(* and refreshAccessToken (app/Utils.tsx), the UserProvider of app/types   *)
(* and the settings page.  A browser keeps the access token in its local   *)
(* storage and the refresh token in a cookie; both name a user id.         *)
(*                                                                         *)
(* The button "log out" is not here: its handler never replies, so the     *)
(* page waits and nothing changes.                                         *)
(***************************************************************************)
EXTENDS Accounts

CONSTANTS FirstPassword,    \* the password of the row that may be there at the start
          NewPasswords      \* the passwords that are chosen later

ASSUME PasswordsAssumption == FirstPassword \in Passwords /\ NewPasswords \subseteq Passwords

VARIABLES page,         \* what a browser shows
          link,         \* the token in the URL of /auth/reset-password
          access,       \* the user of the access token
          live,         \* whether that token has not expired
          cookie        \* the user of the refresh token, as long as it lives

browser == <<page, link, access, live, cookie>>
vars == <<userVars, mailbox, calls, browser>>

AuthPaths == {"auth", "email/verify", "2fa/verify", "forgot-password", "email-sent", "reset-password"}

TypeOK ==
    /\ AccountsTypeOK
    /\ page \in [Browsers -> AuthPaths \cup {"Home"}]
    /\ link \in [Browsers -> Tokens \cup {Nothing}]
    /\ access \in [Browsers -> Ids \cup {Nothing}] /\ cookie \in [Browsers -> Ids \cup {Nothing}]
    /\ live \in [Browsers -> BOOLEAN]

\* Nobody, or one person whose address is confirmed, with or without 2FA.
Init ==
    /\ \/ rows = <<>> /\ lastId = 0 /\ lastToken = 0 /\ mailbox = {}
       \/ \E email \in Emails, factor \in BOOLEAN :
            /\ rows = [id \in {1} |-> [NewRow(email, FirstPassword, FALSE) EXCEPT
                                         !.verified = TRUE, !.two_factor_enabled = factor]]
            /\ lastId = 1 /\ lastToken = 1
            /\ mailbox = {[kind |-> "code", email |-> email, id |-> 1, token |-> 1]}
    /\ calls = [b \in Browsers |-> Idle]
    /\ page = [b \in Browsers |-> "auth"] /\ link = [b \in Browsers |-> Nothing]
    /\ access = [b \in Browsers |-> Nothing] /\ live = [b \in Browsers |-> FALSE]
    /\ cookie = [b \in Browsers |-> Nothing]

(***************************************************************************)
(* The forms.                                                              *)
(***************************************************************************)

\* The bound: a call starts only if what it may insert or generate is left.
InsertOps == {"register", "google"}
TokenMakers == {"register", "login", "forgot"}
Pending(ops) == Cardinality({b \in Browsers : calls[b].op \in ops})
WithinBounds(op) == /\ op \in InsertOps => lastId + Pending(InsertOps) < MaxUsers
                    /\ op \in TokenMakers => lastToken + Pending(TokenMakers) < MaxTokens

Starts(b, op, password, new, token) ==
    /\ calls[b] = Idle /\ WithinBounds(op)
    /\ calls' = [calls EXCEPT ![b] =
                    Begun(b, op, password, new, token, IF op \in TokenOps THEN access[b] ELSE Nothing)]

Received(b, kind) == {m.token : m \in {n \in mailbox : n.kind = kind /\ n.email = Address[b]}}

\* The page /auth: handleSubmit in its two modes, continueWithGoogle.
handleSubmit(b) ==
    /\ page[b] = "auth"
    /\ \/ \E new \in NewPasswords : Starts(b, "register", Nothing, new, Nothing)
       \/ \E password \in Passwords : Starts(b, "login", password, Nothing, Nothing)
continueWithGoogle(b) == page[b] = "auth" /\ Starts(b, "google", Nothing, Nothing, Nothing)

\* A code is typed from a mail, or wrong.
EmailVerification(b) ==
    /\ page[b] = "email/verify"
    /\ \E code \in Received(b, "code") \cup {Nothing} : Starts(b, "verify", Nothing, Nothing, code)
verifyOTP(b) ==
    /\ page[b] = "2fa/verify"
    /\ \E code \in Received(b, "otp") \cup {Nothing} : Starts(b, "otp", Nothing, Nothing, code)

sendResetLink(b) == page[b] = "forgot-password" /\ Starts(b, "forgot", Nothing, Nothing, Nothing)
handleResetPassword(b) ==
    /\ page[b] = "reset-password"
    /\ \E new \in NewPasswords : Starts(b, "reset", Nothing, new, link[b])

\* The settings.
SavePassword(b) ==
    /\ page[b] = "Home"
    /\ \E password \in Passwords, new \in NewPasswords : Starts(b, "security", password, new, Nothing)
twofaHandler(b) ==
    page[b] = "Home" /\ \E op \in {"enable2fa", "disable2fa"} : Starts(b, op, Nothing, Nothing, Nothing)
Delete(b) == page[b] = "Home" /\ Starts(b, "delete", Nothing, Nothing, Nothing)

Submit(b) ==
    /\ \/ handleSubmit(b) \/ continueWithGoogle(b) \/ EmailVerification(b) \/ verifyOTP(b)
       \/ sendResetLink(b) \/ handleResetPassword(b)
       \/ SavePassword(b) \/ twofaHandler(b) \/ Delete(b)
    /\ UNCHANGED <<userVars, mailbox, browser>>

\* A page of the application: UserProvider sends a browser without a token
\* away and fetches the profile of the others.
Enter(b, token) ==
    IF token = Nothing
    THEN /\ page' = [page EXCEPT ![b] = "auth"]
         /\ calls' = [calls EXCEPT ![b] = Idle]
    ELSE /\ page' = [page EXCEPT ![b] = "Home"]
         /\ calls' = [calls EXCEPT ![b] = Begun(b, "profile", Nothing, Nothing, Nothing, token)]

\* A link, or a URL that is typed in.
Visit(b, path) ==
    /\ calls[b] = Idle
    /\ \/ /\ path \in {"auth", "forgot-password"} \ {page[b]}
          /\ page' = [page EXCEPT ![b] = path] /\ link' = [link EXCEPT ![b] = Nothing]
          /\ UNCHANGED calls
       \/ path = "Home" /\ Enter(b, access[b]) /\ link' = [link EXCEPT ![b] = Nothing]
       \/ /\ path = "reset-password"
          /\ \E token \in Received(b, "link") : link' = [link EXCEPT ![b] = token]
          /\ page' = [page EXCEPT ![b] = path]
          /\ UNCHANGED calls
    /\ UNCHANGED <<userVars, mailbox, access, live, cookie>>

(***************************************************************************)
(* fetchWithToken: the request, once more with a new token if the first    *)
(* was refused.                                                            *)
(***************************************************************************)

\* fault: the request is not made again
GivesUp(b) == Fails(b, 403)
Refreshes(b) == IF calls[b].again THEN Fails(b, 403) ELSE Goes(b, "refresh")
Authorize(b) ==
    /\ calls[b].at = "auth"
    /\ UNCHANGED <<userVars, mailbox, browser>>
    /\ IF live[b] THEN Goes(b, "act") ELSE Refreshes(b)

\* No cookie, or no row for it: 401 or 403, and fetchWithToken throws.
Refresh(b) ==
    /\ calls[b].at = "refresh"
    /\ UNCHANGED <<userVars, mailbox, page, link, cookie>>
    /\ IF getUserById(cookie[b]) = Nothing
       THEN Fails(b, 403) /\ UNCHANGED <<access, live>>
       ELSE /\ access' = [access EXCEPT ![b] = cookie[b]] /\ live' = [live EXCEPT ![b] = TRUE]
            /\ Becomes(b, [calls[b] EXCEPT !.at = "auth", !.id = cookie[b], !.again = TRUE])

\* A query of the handler fails, which answers 500 (refresh: 403), or the network
\* does: to the page it is all the same.
Breaks(b) ==
    /\ calls[b].at \notin {"idle", "answered"}
    /\ UNCHANGED <<userVars, mailbox, browser>>
    /\ Fails(b, 0)

(***************************************************************************)
(* The answers.                                                            *)
(***************************************************************************)

\* Whether the answer brings the tokens of a session.
OpensSession(call) == call.op \in {"login", "otp", "google"} /\ call.status \in {200, 302}

\* The page an answer leads to; by default the page stays.
NextPage(call, path) ==
    CASE call.op = "register" /\ call.status = 200 -> "email/verify"
      [] call.op = "login" /\ call.status = 403 -> "email/verify"
      [] call.op = "login" /\ call.status = 201 -> "2fa/verify"
      [] call.op = "forgot" /\ call.status = 200 -> "email-sent"
      [] call.op \in {"verify", "reset", "delete"} /\ call.status = 200 -> "auth"
      [] call.op = "profile" /\ call.status # 200 -> "auth"
      [] OTHER -> path

Receive(b) ==
    /\ calls[b].at = "answered"
    /\ UNCHANGED <<userVars, mailbox, link>>
    /\ IF OpensSession(calls[b])
       THEN /\ access' = [access EXCEPT ![b] = calls[b].id] /\ live' = [live EXCEPT ![b] = TRUE]
            /\ cookie' = [cookie EXCEPT ![b] = calls[b].id]
            /\ Enter(b, calls[b].id)
       ELSE /\ page' = [page EXCEPT ![b] = NextPage(calls[b], page[b])]
            /\ calls' = [calls EXCEPT ![b] = Idle]
            /\ IF calls[b].op = "delete" /\ calls[b].status = 200
               THEN access' = [access EXCEPT ![b] = Nothing] /\ live' = [live EXCEPT ![b] = FALSE]
               ELSE UNCHANGED <<access, live>>
            /\ UNCHANGED cookie

(***************************************************************************)
(* Time.  A token's age is asked where it is verified, in authPlugin and    *)
(* in the handler of refresh, and an access token outlives the request it  *)
(* was fetched for.                                                        *)
(***************************************************************************)

ExpireAccess(b) ==
    /\ live[b] /\ calls[b].at = "auth" /\ ~ calls[b].again
    /\ live' = [live EXCEPT ![b] = FALSE]
    /\ UNCHANGED <<userVars, mailbox, calls, page, link, access, cookie>>

ExpireCookie(b) ==
    /\ cookie[b] # Nothing /\ calls[b].at = "refresh"
    /\ cookie' = [cookie EXCEPT ![b] = Nothing]
    /\ UNCHANGED <<userVars, mailbox, calls, page, link, access, live>>

Next ==
    \/ \E b \in Browsers :
          \/ Submit(b) \/ Authorize(b) \/ Refresh(b) \/ Breaks(b) \/ Receive(b)
          \/ Serve(b) /\ UNCHANGED browser
          \/ ExpireAccess(b) \/ ExpireCookie(b)
          \/ \E path \in AuthPaths \cup {"Home"} : Visit(b, path)
    \/ \E id \in Ids, column \in {"otp_code", "verification_code", "resetPasswordToken"} :
          Expire(id, column) /\ UNCHANGED browser

Spec == Init /\ [][Next]_vars

(***************************************************************************)
(* Properties.                                                             *)
(***************************************************************************)

\* A login that all along had a wrong password or met only accounts with a
\* second factor never opens a session, and a change of a password all along
\* asked with a wrong one never succeeds, whatever the other browser changes
\* in between (authController.js:117-141, settingsController.js:130-141).
BarredCallsFail ==
    \A b \in Browsers : calls[b].barred /\ calls[b].at = "answered" =>
        ~ OpensSession(calls[b]) /\ ~ (calls[b].op = "security" /\ calls[b].status = 201)

\* An account somebody is signed in to has a confirmed address or is Google's
\* (authController.js:104): also a session by a code, which does not look
\* at the column again.
SessionsAreConfirmed ==
    \A b \in Browsers :
        access[b] \in DOMAIN rows => rows[access[b]].verified \/ rows[access[b]].google

\* A confirmed address received a code for that very account
\* (authController.js:343-363), although the account is looked up anew at each
\* step and several may have the address.
ProvedByMail ==
    \A id \in DOMAIN rows : rows[id].verified =>
        \E m \in mailbox : m.kind = "code" /\ m.id = id /\ m.email = rows[id].email

\* Whoever is signed in has proved the address of the account, or is Google's.
SessionsAreProved == TypeOK /\ SessionsAreConfirmed /\ ProvedByMail

\* A password changes only by a link that was mailed to the account's address,
\* or by its own user who gave the password that was in use
\* (authController.js:274-281, settingsController.js:120-141).
MayRewrite(b, id) ==
    \/ /\ calls[b].op = "reset"
       /\ \E m \in mailbox : /\ m.kind = "link" /\ m.token = calls[b].token
                             /\ m.id = id /\ m.email = rows[id].email
    \/ calls[b].op = "security" /\ access[b] = id /\ ~ calls[b].barred
NewPasswordIsProved ==
    [][\A id \in DOMAIN rows : id \in DOMAIN rows' /\ rows'[id].password # rows[id].password =>
          \E b \in Browsers : calls[b].id = id /\ calls[b].at = "write" /\ MayRewrite(b, id)]_vars

\* A page of the application is left for /auth only after the account was
\* deleted or the week of the refresh token is over, or because a request
\* broke, which the provider does not tell from a refusal: an access token that
\* expires in the middle of a request costs nobody his session
\* (Utils.tsx:73-84, types.tsx:391-417).
SignedOutWithReason ==
    [][\A b \in Browsers : page[b] = "Home" /\ page'[b] = "auth" /\ calls[b].op = "profile" =>
          calls[b].status = 0 \/ cookie[b] \notin DOMAIN rows]_vars

=============================================================================
