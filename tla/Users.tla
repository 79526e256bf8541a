-------------------------------- MODULE Users -------------------------------
(***************************************************************************)
(* The table Users of Transcendence as far as signing in is concerned,     *)
(* and the queries on it (models/userModel.js, migrations/init.sql).       *)
(*                                                                         *)
(* A person has one address and one username, so the address stands for    *)
(* both; a Google account is known by its address.  A code or link is      *)
(* stored as a token.  The queries that look for one ask that it has not   *)
(* expired, and answer as if it were NULL when it has: an expired token is *)
(* NULL here (Expire in Accounts).                                         *)
(***************************************************************************)
EXTENDS Naturals, FiniteSets

CONSTANTS Emails,       \* the addresses
          Passwords,    \* what a password may be
          Nothing,      \* NULL, or no row
          MaxUsers,     \* bound on the rows ever inserted
          MaxTokens     \* bound on the codes and links ever generated

ASSUME UsersAssumption == /\ MaxUsers \in Nat \ {0} /\ MaxTokens \in Nat \ {0}
                          /\ Nothing \notin Nat /\ Nothing \notin Passwords

VARIABLES rows,         \* the rows that are there, by id
          lastId,       \* AUTOINCREMENT: the id of the last row
          lastToken     \* the last token generated

userVars == <<rows, lastId, lastToken>>

Ids == 1..MaxUsers
Tokens == 1..MaxTokens
Row == [email : Emails, password : Passwords \cup {Nothing}, google : BOOLEAN,
        verified : BOOLEAN, two_factor_enabled : BOOLEAN,
        otp_code : Tokens \cup {Nothing}, verification_code : Tokens \cup {Nothing},
        resetPasswordToken : Tokens \cup {Nothing}]

UsersTypeOK ==
    /\ lastId \in 0..MaxUsers /\ lastToken \in 0..MaxTokens
    /\ DOMAIN rows \subseteq 1..lastId
    /\ \A id \in DOMAIN rows : rows[id] \in Row

NewRow(email, password, google) ==
    [email |-> email, password |-> password, google |-> google,
     verified |-> FALSE, two_factor_enabled |-> FALSE,
     otp_code |-> Nothing, verification_code |-> Nothing, resetPasswordToken |-> Nothing]

\* db.get: the first row, or none.
First(ids) == IF ids = {} THEN Nothing ELSE CHOOSE id \in ids : \A other \in ids : id <= other

getUserByEmail(email) == First({id \in DOMAIN rows : rows[id].email = email})
getUserByGoogleId(email) == First({id \in DOMAIN rows : rows[id].google /\ rows[id].email = email})
getUserByToken(token) == First({id \in DOMAIN rows : rows[id].resetPasswordToken = token})
getUserById(id) == First({id} \cap DOMAIN rows)
getUserOtpCode(id) == IF id \in DOMAIN rows THEN rows[id].otp_code ELSE Nothing
getUserVerificationCode(id) == IF id \in DOMAIN rows THEN rows[id].verification_code ELSE Nothing

createUser(email, password, google) ==
    /\ lastId < MaxUsers
    /\ lastId' = lastId + 1
    /\ rows' = [id \in DOMAIN rows \cup {lastId + 1} |->
                   IF id \in DOMAIN rows THEN rows[id] ELSE NewRow(email, password, google)]

\* UPDATE Users SET column = value WHERE id = ?
Set(id, column, value) ==
    rows' = [i \in DOMAIN rows |-> IF i = id THEN [rows[i] EXCEPT ![column] = value] ELSE rows[i]]

updatePassword(id, password) == Set(id, "password", password)
setEmailVerified(id, email) ==
    IF id \in DOMAIN rows /\ rows[id].email = email THEN Set(id, "verified", TRUE) ELSE UNCHANGED rows
\* The rows of Google accounts are left alone.
Has2fa(id) == id \in DOMAIN rows /\ ~ rows[id].google
update2fa(id, enabled) ==
    IF Has2fa(id) THEN Set(id, "two_factor_enabled", enabled) ELSE UNCHANGED rows
saveHashedOtpCode(id, token) == Set(id, "otp_code", token)
saveHashedVerificationCode(id, token) == Set(id, "verification_code", token)
updateUserRestorations(id, token) == Set(id, "resetPasswordToken", token)
clearOtpFields(id) == Set(id, "otp_code", Nothing)
clearVerificationFields(id) == Set(id, "verification_code", Nothing)
deleteUser(id) == rows' = [i \in DOMAIN rows \ {id} |-> rows[i]]

=============================================================================
