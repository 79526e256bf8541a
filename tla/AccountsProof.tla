---------------------------- MODULE AccountsProof ----------------------------
(***************************************************************************)
(* Theorems about AuthPages, Settings, SearchBox and Toasts for all        *)
(* browsers, addresses, pictures, words, messages and bounds.              *)
(***************************************************************************)
EXTENDS AuthPages, Settings, SearchBox, Toasts, FiniteSetTheorems, SequenceTheorems,
        WellFoundedInduction, TLAPS

(***************************************************************************)
(* AuthPages: the invariant.  A call remembers an id or a token across its *)
(* queries, while the other browsers change the rows.  What it remembers   *)
(* stays true of the row because an id is never given again, an address    *)
(* never changes, a confirmed row stays so, and a token is made for one    *)
(* row and mailed to its address.                                          *)
(***************************************************************************)

\* Who may have a session: a row that is still there is confirmed.
MayEnter(id) == id \in DOMAIN rows => Confirmed(rows[id])

AddressIs(id, email) == id \in DOMAIN rows => rows[id].email = email

\* A token that was made for one row is in no other.
CodeIsFor(token, id) ==
    \A i \in DOMAIN rows : rows[i].verification_code = token => i = id
LinkIsFor(token, id) ==
    \A i \in DOMAIN rows : rows[i].resetPasswordToken = token => i = id

Mailed(kind, token, email) ==
    \E m \in mailbox : m.kind = kind /\ m.token = token /\ m.email = email
CodeWasMailed(id, email) ==
    \E m \in mailbox : m.kind = "code" /\ m.id = id /\ m.email = email
LinkWasMailed(id, token) ==
    \E m \in mailbox : m.kind = "link" /\ m.id = id /\ m.token = token

GivenIds == 1..lastId \cup {Nothing}
GivenTokens == 1..lastToken \cup {Nothing}

RowsAreSound ==
    \A id \in DOMAIN rows :
        /\ rows[id].verification_code \in GivenTokens
        /\ rows[id].resetPasswordToken \in GivenTokens
        /\ rows[id].otp_code # Nothing => Confirmed(rows[id])
        /\ rows[id].verified => CodeWasMailed(id, rows[id].email)

MailsAreSound ==
    \A m \in mailbox :
        /\ m.id \in 1..lastId /\ m.token \in 1..lastToken
        /\ m.kind = "code" => CodeIsFor(m.token, m.id)
        /\ m.kind = "link" => LinkIsFor(m.token, m.id) /\ AddressIs(m.id, m.email)

\* What browser b's call of a public handler remembers.
Remembers(b) ==
    LET call == calls[b]
    IN  /\ call.id \in GivenIds /\ call.token \in GivenTokens
        /\ call.at \in {"code", "otp", "link", "mailcode", "mailotp", "maillink"} => call.id # Nothing
        /\ call.at \in {"mailcode", "mailotp", "maillink"} =>
              call.token # Nothing /\ call.op \in TokenMakers
        /\ call.at = "mailcode" => CodeIsFor(call.token, call.id)
        /\ call.at \in {"link", "maillink"} => AddressIs(call.id, Address[b])
        /\ call.at = "maillink" => LinkIsFor(call.token, call.id)
        /\ call.op = "verify" /\ call.at \in {"read", "check"} =>
              call.token = Nothing \/ Mailed("code", call.token, Address[b])
        /\ call.op = "verify" /\ call.at = "set" => CodeWasMailed(call.id, Address[b])
        /\ call.op = "reset" /\ call.at = "read" =>
              \E id \in 1..lastId : LinkWasMailed(id, call.token)
        /\ call.op = "reset" /\ call.at = "write" => LinkWasMailed(call.id, call.token)
        /\ At(b, "login", "otp") \/ At(b, "otp", "clear") => MayEnter(call.id)
        /\ call.at = "answered" /\ OpensSession(call) => MayEnter(call.id)

\* What it may not do.
KeepsOut(b) ==
    LET call == calls[b]
    IN  call.barred => /\ call.op \in {"login", "security"}
                       /\ call.op = "security" => call.at # "write"
                       /\ call.at = "answered" => /\ ~ OpensSession(call)
                                                  /\ ~ (call.op = "security" /\ call.status = 201)

\* The tokens of browser b, and a call that sends one of them.
SessionIsSound(b) ==
    /\ access[b] \in GivenIds /\ MayEnter(access[b])
    /\ cookie[b] \in GivenIds /\ MayEnter(cookie[b])
    /\ access[b] = Nothing \/ cookie[b] = Nothing \/ access[b] = cookie[b]
    /\ page[b] = "reset-password" => \E id \in 1..lastId : LinkWasMailed(id, link[b])

CallIsSigned(b) ==
    LET call == calls[b]
    IN  /\ call.op \in TokenOps /\ call.at # "answered" => call.id = access[b]
        /\ call.op = "profile" /\ call.at # "answered" => access[b] # Nothing
        /\ call.op = "profile" /\ call.at = "answered" /\ call.status \notin {0, 200} =>
              cookie[b] \notin DOMAIN rows
        /\ call.at = "auth" /\ call.again => live[b]

TablesAreSound == TypeOK /\ RowsAreSound /\ MailsAreSound
CallIsSound(b) == Remembers(b) /\ KeepsOut(b) /\ CallIsSigned(b)

AccountsInv ==
    /\ TablesAreSound
    /\ \A b \in Browsers : CallIsSound(b) /\ SessionIsSound(b)
(***************************************************************************)
(* The queries.                                                            *)
(***************************************************************************)

LEMMA FirstIn ==
    ASSUME NEW ids \in SUBSET Nat
    PROVE  /\ ids = {} => First(ids) = Nothing
           /\ ids # {} => First(ids) \in ids
<1>1. ids = {} => First(ids) = Nothing
  BY DEF First
<1>2. ASSUME ids # {} PROVE First(ids) \in ids
  <2>1. \E id \in ids : \A other \in ids : <<other, id>> \notin OpToRel(<, Nat)
    BY <1>2, NatLessThanWellFounded, WFMin, Zenon
  <2>2. \A id \in ids, other \in ids : <<other, id>> \notin OpToRel(<, Nat) => id <= other
    BY DEF OpToRel
  <2>3. \E id \in ids : \A other \in ids : id <= other
    BY <2>1, <2>2
  <2> QED BY <1>2, <2>3, Zenon DEF First
<1> QED BY <1>1, <1>2

LEMMA IdsAreNumbers == UsersTypeOK => DOMAIN rows \in SUBSET Nat
  BY UsersAssumption DEF UsersTypeOK

\* What each query finds.
LEMMA ByEmail ==
    ASSUME UsersTypeOK, NEW email, getUserByEmail(email) # Nothing
    PROVE  /\ getUserByEmail(email) \in DOMAIN rows
           /\ rows[getUserByEmail(email)].email = email
<1> DEFINE found == {id \in DOMAIN rows : rows[id].email = email}
<1>1. found \in SUBSET Nat /\ getUserByEmail(email) = First(found)
  BY IdsAreNumbers DEF getUserByEmail
<1> HIDE DEF found
<1>2. getUserByEmail(email) \in found
  BY <1>1, FirstIn
<1> QED BY <1>2 DEF found

LEMMA ByGoogle ==
    ASSUME UsersTypeOK, NEW email, getUserByGoogleId(email) # Nothing
    PROVE  /\ getUserByGoogleId(email) \in DOMAIN rows
           /\ rows[getUserByGoogleId(email)].google
<1> DEFINE found == {id \in DOMAIN rows : rows[id].google /\ rows[id].email = email}
<1>1. found \in SUBSET Nat /\ getUserByGoogleId(email) = First(found)
  BY IdsAreNumbers DEF getUserByGoogleId
<1> HIDE DEF found
<1>2. getUserByGoogleId(email) \in found
  BY <1>1, FirstIn
<1> QED BY <1>2 DEF found

LEMMA ByToken ==
    ASSUME UsersTypeOK, NEW token, getUserByToken(token) # Nothing
    PROVE  /\ getUserByToken(token) \in DOMAIN rows
           /\ rows[getUserByToken(token)].resetPasswordToken = token
<1> DEFINE found == {id \in DOMAIN rows : rows[id].resetPasswordToken = token}
<1>1. found \in SUBSET Nat /\ getUserByToken(token) = First(found)
  BY IdsAreNumbers DEF getUserByToken
<1> HIDE DEF found
<1>2. getUserByToken(token) \in found
  BY <1>1, FirstIn
<1> QED BY <1>2 DEF found

LEMMA ById ==
    ASSUME UsersTypeOK, NEW id
    PROVE  /\ id \in DOMAIN rows => getUserById(id) = id
           /\ id \notin DOMAIN rows => getUserById(id) = Nothing
<1> DEFINE found == {id} \cap DOMAIN rows
<1>1. found \in SUBSET Nat /\ getUserById(id) = First(found)
  BY IdsAreNumbers DEF getUserById
<1>2. \A i \in found : i = id
  OBVIOUS
<1>3. id \in DOMAIN rows <=> found # {}
  OBVIOUS
<1> HIDE DEF found
<1>4. /\ found = {} => getUserById(id) = Nothing
      /\ found # {} => getUserById(id) \in found
  BY <1>1, FirstIn
<1> QED BY <1>2, <1>3, <1>4

(***************************************************************************)
(* The moves of a call.  The calls of the other browsers stay as they are, *)
(* but for the history of what they may not do.                            *)
(***************************************************************************)

Follows(c, d) ==
    /\ d.op = c.op /\ d.at = c.at /\ d.password = c.password /\ d.new = c.new
    /\ d.token = c.token /\ d.id = c.id /\ d.again = c.again /\ d.status = c.status
    /\ d.barred => c.barred

Bystanders(b) == \A x \in Browsers \ {b} : Follows(calls[x], calls'[x])

\* Call b is at another stage, with a token and an id.
Moved(b, at, token, id, status) ==
    /\ calls' \in [Browsers -> Call] /\ Bystanders(b)
    /\ calls'[b].op = calls[b].op /\ calls'[b].at = at
    /\ calls'[b].token = token /\ calls'[b].id = id /\ calls'[b].status = status
    /\ calls'[b].barred => calls[b].barred

LEMMA BarredIsTruth ==
    ASSUME NEW b, NEW call, NEW table PROVE Barred(b, call, table) \in BOOLEAN
<1>1. CASE call.op = "login"
  BY <1>1, Zenon DEF Barred
<1>2. CASE call.op = "security"
  BY <1>2, Zenon DEF Barred
<1>3. CASE call.op \notin {"login", "security"}
  BY <1>3, Zenon DEF Barred
<1> QED BY <1>1, <1>2, <1>3

LEMMA WatchedFollows ==
    ASSUME NEW x, NEW c \in Call
    PROVE  /\ Watched(x, c) \in Call
           /\ Follows(c, Watched(x, c))
           /\ c.at # "answered" /\ Watched(x, c).barred => Barred(x, c, rows')
<1> DEFINE barred == c.barred /\ Barred(x, c, rows')
<1>1. barred \in BOOLEAN
  OBVIOUS
<1>2. barred => c.barred /\ Barred(x, c, rows')
  OBVIOUS
<1> HIDE DEF barred
<1>3. Watched(x, c) = IF c.at = "answered" THEN c ELSE [c EXCEPT !.barred = barred]
  BY DEF Watched, barred
<1> QED BY <1>1, <1>2, <1>3 DEF Follows, Call

LEMMA BecomesMoves ==
    ASSUME TypeOK, NEW b \in Browsers, NEW call \in Call, Becomes(b, call)
    PROVE  /\ calls' \in [Browsers -> Call] /\ Bystanders(b)
           /\ calls'[b] = call
<1>1. calls \in [Browsers -> Call]
  BY DEF TypeOK, AccountsTypeOK
<1>2. \A x \in Browsers : calls'[x] = IF x = b THEN call ELSE Watched(x, calls[x])
  BY DEF Becomes
<1>3. \A x \in Browsers : Watched(x, calls[x]) \in Call /\ Follows(calls[x], Watched(x, calls[x]))
  BY <1>1, WatchedFollows
<1>4. calls' = [x \in Browsers |-> IF x = b THEN call ELSE Watched(x, calls[x])]
  BY DEF Becomes
<1> QED BY <1>2, <1>3, <1>4 DEF Bystanders

\* Goes, GoesFor and GoesWith, at another stage than the answer.
LEMMA GoesOn ==
    ASSUME TypeOK, NEW b \in Browsers, NEW stage \in Stages \ {"answered"},
           NEW token \in Tokens \cup {Nothing}, NEW id \in Ids \cup {Nothing},
           NEW call, call \in Call,
           call.op = calls[b].op, call.at = stage, call.token = token, call.id = id,
           call.password = calls[b].password, call.status = calls[b].status,
           call.barred => calls[b].barred,
           Becomes(b, Watched(b, call))
    PROVE  /\ Moved(b, stage, token, id, calls[b].status)
           /\ calls'[b].barred => Barred(b, call, rows')
<1>1. /\ Watched(b, call) \in Call /\ Follows(call, Watched(b, call))
      /\ Watched(b, call).barred => Barred(b, call, rows')
  BY WatchedFollows
<1>2. calls' \in [Browsers -> Call] /\ Bystanders(b) /\ calls'[b] = Watched(b, call)
  BY <1>1, BecomesMoves
<1> QED BY <1>1, <1>2 DEF Moved, Follows

LEMMA GoesMoves ==
    ASSUME TypeOK, NEW b \in Browsers, NEW stage \in Stages \ {"answered"}, Goes(b, stage)
    PROVE  /\ Moved(b, stage, calls[b].token, calls[b].id, calls[b].status)
           /\ calls'[b].barred => Barred(b, [calls[b] EXCEPT !.at = stage], rows')
<1> DEFINE call == [calls[b] EXCEPT !.at = stage]
<1>1. calls[b] \in Call
  BY DEF TypeOK, AccountsTypeOK
<1>2. /\ call \in Call
      /\ call.op = calls[b].op /\ call.at = stage /\ call.token = calls[b].token
      /\ call.id = calls[b].id /\ call.password = calls[b].password
      /\ call.status = calls[b].status /\ call.barred = calls[b].barred
  BY <1>1 DEF Call
<1>3. Becomes(b, Watched(b, call))
  BY DEF Goes
<1>4. calls[b].token \in Tokens \cup {Nothing} /\ calls[b].id \in Ids \cup {Nothing}
  BY <1>1 DEF Call
<1> HIDE DEF call
<1>5. /\ Moved(b, stage, calls[b].token, calls[b].id, calls[b].status)
      /\ calls'[b].barred => Barred(b, call, rows')
  BY <1>2, <1>3, <1>4, GoesOn
<1> QED BY <1>5 DEF call

LEMMA GoesForMoves ==
    ASSUME TypeOK, NEW b \in Browsers, NEW stage \in Stages \ {"answered"},
           NEW id \in Ids, GoesFor(b, stage, id)
    PROVE  Moved(b, stage, calls[b].token, id, calls[b].status)
<1> DEFINE c == calls[b]
           call == [c EXCEPT !.at = stage, !.id = id]
<1>1. c \in Call /\ call = [c EXCEPT !.at = stage, !.id = id]
  BY DEF TypeOK, AccountsTypeOK
<1>2. Becomes(b, Watched(b, call))
  BY DEF GoesFor
<1>3. c = calls[b]
  OBVIOUS
<1> HIDE DEF call, c
<1>4. call = [op |-> c.op, at |-> stage, password |-> c.password, new |-> c.new,
              token |-> c.token, id |-> id, again |-> c.again, status |-> c.status,
              barred |-> c.barred]
  BY <1>1 DEF Call
<1>5. /\ call \in Call
      /\ call.op = c.op /\ call.at = stage /\ call.token = c.token /\ call.id = id
      /\ call.password = c.password /\ call.status = c.status /\ call.barred = c.barred
      /\ c.token \in Tokens \cup {Nothing}
  BY <1>1, <1>4 DEF Call
<1> QED BY <1>2, <1>3, <1>5, GoesOn

LEMMA GoesWithMoves ==
    ASSUME TypeOK, NEW b \in Browsers, NEW stage \in Stages \ {"answered"},
           NEW token \in Tokens, GoesWith(b, stage, token)
    PROVE  Moved(b, stage, token, calls[b].id, calls[b].status)
<1> DEFINE c == calls[b]
           call == [c EXCEPT !.at = stage, !.token = token]
<1>1. c \in Call /\ call = [c EXCEPT !.at = stage, !.token = token]
  BY DEF TypeOK, AccountsTypeOK
<1>2. Becomes(b, Watched(b, call))
  BY DEF GoesWith
<1>3. c = calls[b]
  OBVIOUS
<1> HIDE DEF call, c
<1>4. call = [op |-> c.op, at |-> stage, password |-> c.password, new |-> c.new,
              token |-> token, id |-> c.id, again |-> c.again, status |-> c.status,
              barred |-> c.barred]
  BY <1>1 DEF Call
<1>5. /\ call \in Call
      /\ call.op = c.op /\ call.at = stage /\ call.token = token /\ call.id = c.id
      /\ call.password = c.password /\ call.status = c.status /\ call.barred = c.barred
      /\ c.id \in Ids \cup {Nothing}
  BY <1>1, <1>4 DEF Call
<1> QED BY <1>2, <1>3, <1>5, GoesOn

Statuses == {0, 200, 201, 302, 400, 403, 404, 409, 500}

LEMMA AnswersMoves ==
    ASSUME TypeOK, NEW b \in Browsers,
           NEW status \in Statuses, NEW id \in Ids \cup {Nothing}, Answers(b, status, id)
    PROVE  /\ Moved(b, "answered", Nothing, id, status)
           /\ calls[b].at # "answered" /\ calls'[b].barred => Barred(b, calls[b], rows')
<1> DEFINE barred == Watched(b, calls[b]).barred
           op == calls[b].op
           idle == Idle
           first == [idle EXCEPT !.op = op, !.at = "answered"]
           call == [idle EXCEPT !.op = op, !.at = "answered", !.id = id, !.status = status,
                                !.barred = barred]
<1>1. calls[b] \in Call
  BY DEF TypeOK, AccountsTypeOK
<1>2. /\ barred \in BOOLEAN
      /\ barred => calls[b].barred
      /\ calls[b].at # "answered" /\ barred => Barred(b, calls[b], rows')
  BY <1>1, WatchedFollows DEF Call, Follows
<1>3. op \in PublicOps \cup TokenOps \cup {Nothing}
  BY <1>1 DEF Call
<1>4. Becomes(b, call)
  BY Zenon DEF Answers
<1>5. idle \in Call
  BY DEF Idle, Call, Stages
<1>6. idle.token = Nothing
  BY DEF Idle
<1>7. call = [[[idle EXCEPT !.op = op, !.at = "answered"] EXCEPT !.id = id, !.status = status]
                 EXCEPT !.barred = barred]
  BY Zenon
<1> HIDE DEF barred, op, idle, call
<1>8. first \in Call /\ first.op = op /\ first.at = "answered" /\ first.token = Nothing
  <2>1. first = [idle EXCEPT !.op = op, !.at = "answered"]
    OBVIOUS
  <2> HIDE DEF first
  <2>2. first = [op |-> op, at |-> "answered", password |-> idle.password, new |-> idle.new,
                 token |-> idle.token, id |-> idle.id, again |-> idle.again,
                 status |-> idle.status, barred |-> idle.barred]
    BY <1>5, <2>1 DEF Call
  <2> QED BY <1>3, <1>5, <1>6, <2>2 DEF Call, Stages
<1>9. /\ call \in Call
      /\ call.op = op /\ call.at = "answered" /\ call.id = id /\ call.status = status
      /\ call.token = Nothing /\ call.barred = barred
  <2> DEFINE second == [first EXCEPT !.id = id, !.status = status]
  <2>1. second = [first EXCEPT !.id = id, !.status = status]
    OBVIOUS
  <2>2. call = [second EXCEPT !.barred = barred]
    BY <1>7
  <2> HIDE DEF first, second
  <2>3. second = [op |-> first.op, at |-> first.at, password |-> first.password,
                  new |-> first.new, token |-> first.token, id |-> id,
                  again |-> first.again, status |-> status, barred |-> first.barred]
    <3>1. first \in Call
      BY <1>8
    <3> QED BY <2>1, <3>1 DEF Call
  <2>4. /\ second \in Call
        /\ second.op = op /\ second.at = "answered" /\ second.id = id
        /\ second.status = status /\ second.token = Nothing
    BY <1>8, <2>3 DEF Call, Statuses
  <2> QED BY <1>2, <2>2, <2>4 DEF Call
<1>10. calls' \in [Browsers -> Call] /\ Bystanders(b) /\ calls'[b] = call
  BY <1>4, <1>9, BecomesMoves
<1> QED BY <1>2, <1>9, <1>10 DEF Moved, op

LEMMA FailsMoves ==
    ASSUME TypeOK, NEW b \in Browsers, NEW status \in Statuses, Fails(b, status)
    PROVE  Moved(b, "answered", Nothing, Nothing, status)
  BY AnswersMoves DEF Fails
LEMMA BegunIs ==
    ASSUME NEW b, NEW op \in PublicOps \cup TokenOps, NEW password \in Passwords \cup {Nothing},
           NEW new \in Passwords \cup {Nothing}, NEW token \in Tokens \cup {Nothing},
           NEW id \in Ids \cup {Nothing}
    PROVE  LET call == Begun(b, op, password, new, token, id)
           IN  /\ call \in Call
               /\ call.op = op /\ call.at = IF op \in TokenOps THEN "auth" ELSE "read"
               /\ call.token = token /\ call.id = id /\ ~ call.again
               /\ call.barred => op \in {"login", "security"}
<1> DEFINE at == IF op \in TokenOps THEN "auth" ELSE "read"
           idle == Idle
           whole == [idle EXCEPT !.op = op, !.at = at, !.password = password, !.new = new,
                                 !.token = token, !.id = id]
           barred == Barred(b, whole, rows)
           call == [whole EXCEPT !.barred = barred]
           first == [idle EXCEPT !.op = op, !.at = at]
           second == [first EXCEPT !.password = password, !.new = new]
<1>1. idle \in Call /\ ~ idle.again
  BY DEF Idle, Call, Stages
<1>2. at \in Stages
  BY DEF Stages
<1>3. barred \in BOOLEAN
  BY BarredIsTruth
<1>4. barred => whole.op \in {"login", "security"}
  BY Zenon DEF Barred
<1>5. Begun(b, op, password, new, token, id) = call
  BY Zenon DEF Begun
<1>6. whole = [[[idle EXCEPT !.op = op, !.at = at]
                     EXCEPT !.password = password, !.new = new]
                     EXCEPT !.token = token, !.id = id]
  BY Zenon
<1> HIDE DEF idle, barred, whole, at
<1>7. first \in Call /\ first.op = op /\ first.at = at /\ ~ first.again
  <2>1. first = [idle EXCEPT !.op = op, !.at = at]
    OBVIOUS
  <2> HIDE DEF first
  <2>2. first = [op |-> op, at |-> at, password |-> idle.password, new |-> idle.new,
                 token |-> idle.token, id |-> idle.id, again |-> idle.again,
                 status |-> idle.status, barred |-> idle.barred]
    <3>1. idle \in Call
      BY <1>1
    <3> QED BY <2>1, <3>1 DEF Call
  <2> QED BY <1>1, <1>2, <2>2 DEF Call
<1>8. second \in Call /\ second.op = op /\ second.at = at /\ ~ second.again
  <2>1. second = [first EXCEPT !.password = password, !.new = new]
    OBVIOUS
  <2> HIDE DEF first, second
  <2>2. second = [op |-> first.op, at |-> first.at, password |-> password, new |-> new,
                  token |-> first.token, id |-> first.id, again |-> first.again,
                  status |-> first.status, barred |-> first.barred]
    <3>1. first \in Call
      BY <1>7
    <3> QED BY <2>1, <3>1 DEF Call
  <2> QED BY <1>7, <2>2 DEF Call
<1>9. /\ whole \in Call /\ whole.op = op /\ whole.at = at /\ ~ whole.again
      /\ whole.token = token /\ whole.id = id
  <2>1. whole = [second EXCEPT !.token = token, !.id = id]
    BY <1>6
  <2> HIDE DEF first, second
  <2>2. whole = [op |-> second.op, at |-> second.at, password |-> second.password,
                 new |-> second.new, token |-> token, id |-> id, again |-> second.again,
                 status |-> second.status, barred |-> second.barred]
    <3>1. second \in Call
      BY <1>8
    <3> QED BY <2>1, <3>1 DEF Call
  <2> QED BY <1>8, <2>2 DEF Call
<1>10. /\ call \in Call /\ call.op = op /\ call.at = at /\ ~ call.again
       /\ call.token = token /\ call.id = id /\ call.barred = barred
  BY <1>3, <1>9 DEF Call
<1> HIDE DEF call
<1> QED BY <1>4, <1>5, <1>9, <1>10 DEF at

(***************************************************************************)
(* What any step leaves true of the rows and the mails.                    *)
(***************************************************************************)

Grows ==
    /\ lastId <= lastId' /\ lastToken <= lastToken' /\ mailbox \subseteq mailbox'
    /\ \A id \in DOMAIN rows' :
          /\ id \in DOMAIN rows \/ id > lastId
          /\ id \in DOMAIN rows =>
                /\ rows'[id].email = rows[id].email /\ rows'[id].google = rows[id].google
                /\ rows[id].verified => rows'[id].verified
          /\ \A token \in 1..lastToken :
                /\ rows'[id].verification_code = token =>
                      id \in DOMAIN rows /\ rows[id].verification_code = token
                /\ rows'[id].resetPasswordToken = token =>
                      id \in DOMAIN rows /\ rows[id].resetPasswordToken = token

LEMMA StaysTrue ==
    ASSUME UsersTypeOK, UsersTypeOK', Grows
    PROVE  /\ GivenIds \subseteq GivenIds' /\ GivenTokens \subseteq GivenTokens'
           /\ 1..lastId \subseteq 1..lastId'
           /\ \A id \in GivenIds : id \notin DOMAIN rows => id \notin DOMAIN rows'
           /\ \A id \in GivenIds : MayEnter(id) => MayEnter(id)'
           /\ \A id \in GivenIds : \A email : AddressIs(id, email) => AddressIs(id, email)'
           /\ \A token \in 1..lastToken : \A id :
                 /\ CodeIsFor(token, id) => CodeIsFor(token, id)'
                 /\ LinkIsFor(token, id) => LinkIsFor(token, id)'
           /\ \A kind, token, email : Mailed(kind, token, email) => Mailed(kind, token, email)'
           /\ \A id, email : CodeWasMailed(id, email) => CodeWasMailed(id, email)'
           /\ \A id, token : LinkWasMailed(id, token) => LinkWasMailed(id, token)'
<1>1. lastId \in Nat /\ lastId' \in Nat /\ lastToken \in Nat /\ lastToken' \in Nat
  BY UsersAssumption DEF UsersTypeOK
<1>2. /\ GivenIds \subseteq GivenIds' /\ GivenTokens \subseteq GivenTokens'
      /\ 1..lastId \subseteq 1..lastId'
  BY <1>1 DEF Grows, GivenIds, GivenTokens
<1>3. \A id \in GivenIds : id \in DOMAIN rows' => id \in DOMAIN rows
  <2> SUFFICES ASSUME NEW id \in GivenIds, id \in DOMAIN rows' PROVE id \in DOMAIN rows
    OBVIOUS
  <2>1. id \in 1..lastId'
    BY DEF UsersTypeOK
  <2>2. id # Nothing
    BY <1>1, <2>1, UsersAssumption
  <2>3. id \in 1..lastId
    BY <2>2 DEF GivenIds
  <2> QED BY <1>1, <2>3 DEF Grows
<1>4. \A id \in GivenIds : MayEnter(id) => MayEnter(id)'
  BY <1>3 DEF Grows, MayEnter, Confirmed
<1>5. \A id \in GivenIds : \A email : AddressIs(id, email) => AddressIs(id, email)'
  BY <1>3 DEF Grows, AddressIs
<1>6. \A token \in 1..lastToken : \A id :
         /\ CodeIsFor(token, id) => CodeIsFor(token, id)'
         /\ LinkIsFor(token, id) => LinkIsFor(token, id)'
  BY DEF Grows, CodeIsFor, LinkIsFor
<1>7. /\ \A kind, token, email : Mailed(kind, token, email) => Mailed(kind, token, email)'
      /\ \A id, email : CodeWasMailed(id, email) => CodeWasMailed(id, email)'
      /\ \A id, token : LinkWasMailed(id, token) => LinkWasMailed(id, token)'
  BY DEF Grows, Mailed, CodeWasMailed, LinkWasMailed
<1> QED BY <1>2, <1>3, <1>4, <1>5, <1>6, <1>7
(***************************************************************************)
(* The tables after each kind of query.                                    *)
(***************************************************************************)

TablesStep == Grows /\ UsersTypeOK' /\ RowsAreSound' /\ MailsAreSound'

MailboxOK == mailbox \subseteq [kind : Kinds, email : Emails, id : Ids, token : Tokens]

LEMMA ReadsOnly ==
    ASSUME TablesAreSound, UNCHANGED <<userVars, mailbox>> PROVE TablesStep
<1>1. rows' = rows /\ lastId' = lastId /\ lastToken' = lastToken /\ mailbox' = mailbox
  BY DEF userVars
<1>2. UsersTypeOK' /\ RowsAreSound' /\ MailsAreSound'
  BY <1>1 DEF TablesAreSound, TypeOK, AccountsTypeOK, UsersTypeOK, RowsAreSound, MailsAreSound,
     GivenTokens, Confirmed, CodeWasMailed, CodeIsFor, LinkIsFor, AddressIs
<1>3. Grows
  BY <1>1, UsersAssumption DEF Grows, TablesAreSound, TypeOK, AccountsTypeOK, UsersTypeOK
<1> QED BY <1>2, <1>3 DEF TablesStep

\* A column of a row is written: a token in it is a new one.
NewOrOld(new, old) ==
    new = old \/ new = Nothing \/ (new = lastToken + 1 /\ lastToken' = lastToken + 1)

LEMMA Rewritten ==
    ASSUME TablesAreSound, UsersTypeOK', DOMAIN rows' = DOMAIN rows, lastId' = lastId,
           lastToken' \in {lastToken, lastToken + 1}, mailbox' = mailbox,
           \A id \in DOMAIN rows :
              /\ rows'[id].email = rows[id].email /\ rows'[id].google = rows[id].google
              /\ rows[id].verified => rows'[id].verified
              /\ rows'[id].verified => CodeWasMailed(id, rows[id].email)
              /\ NewOrOld(rows'[id].verification_code, rows[id].verification_code)
              /\ NewOrOld(rows'[id].resetPasswordToken, rows[id].resetPasswordToken)
              /\ rows'[id].otp_code # Nothing => Confirmed(rows[id])
    PROVE  TablesStep
<1>1. /\ lastId \in Nat /\ lastToken \in Nat /\ Nothing \notin Nat
      /\ DOMAIN rows \subseteq 1..lastId
  BY UsersAssumption DEF TablesAreSound, TypeOK, AccountsTypeOK, UsersTypeOK
<1>2. Grows
  BY <1>1 DEF Grows, NewOrOld
<1>3. RowsAreSound'
  <2> SUFFICES ASSUME NEW id \in DOMAIN rows
               PROVE  /\ rows'[id].verification_code \in GivenTokens'
                      /\ rows'[id].resetPasswordToken \in GivenTokens'
                      /\ rows'[id].otp_code # Nothing => Confirmed(rows'[id])
                      /\ rows'[id].verified => CodeWasMailed(id, rows[id].email)'
    BY DEF RowsAreSound
  <2>1. rows[id].verification_code \in GivenTokens /\ rows[id].resetPasswordToken \in GivenTokens
    BY DEF TablesAreSound, RowsAreSound
  <2>2. rows'[id].verification_code \in GivenTokens' /\ rows'[id].resetPasswordToken \in GivenTokens'
    BY <1>1, <2>1 DEF NewOrOld, GivenTokens
  <2>3. rows'[id].otp_code # Nothing => Confirmed(rows'[id])
    BY DEF Confirmed
  <2>4. rows'[id].verified => CodeWasMailed(id, rows[id].email)'
    BY DEF CodeWasMailed
  <2> QED BY <2>2, <2>3, <2>4
<1>4. MailsAreSound'
  <2> SUFFICES ASSUME NEW m \in mailbox
               PROVE  /\ m.id \in 1..lastId' /\ m.token \in 1..lastToken'
                      /\ m.kind = "code" => CodeIsFor(m.token, m.id)'
                      /\ m.kind = "link" => LinkIsFor(m.token, m.id)' /\ AddressIs(m.id, m.email)'
    BY DEF MailsAreSound
  <2>1. /\ m.id \in 1..lastId /\ m.token \in 1..lastToken
        /\ m.kind = "code" => CodeIsFor(m.token, m.id)
        /\ m.kind = "link" => LinkIsFor(m.token, m.id) /\ AddressIs(m.id, m.email)
    BY DEF TablesAreSound, MailsAreSound
  <2>2. UsersTypeOK /\ m.id \in GivenIds
    BY <2>1 DEF TablesAreSound, TypeOK, AccountsTypeOK, GivenIds
  <2> QED BY <1>1, <1>2, <2>1, <2>2, StaysTrue
<1> QED BY <1>2, <1>3, <1>4 DEF TablesStep

\* What the rows were like.
LEMMA RowsWere ==
    ASSUME TablesAreSound
    PROVE  /\ UsersTypeOK
           /\ \A id \in DOMAIN rows :
                 /\ rows[id] \in Row
                 /\ rows[id].otp_code # Nothing => Confirmed(rows[id])
                 /\ rows[id].verified => CodeWasMailed(id, rows[id].email)
  BY DEF TablesAreSound, TypeOK, AccountsTypeOK, UsersTypeOK, RowsAreSound

\* The writes that give a column of a row a value.
LEMMA SetsPassword ==
    ASSUME TablesAreSound, NEW id, NEW value \in Passwords \cup {Nothing}, Set(id, "password", value),
           lastId' = lastId, lastToken' = lastToken, mailbox' = mailbox
    PROVE  TablesStep
<1>1. DOMAIN rows' = DOMAIN rows
  BY DEF Set
<1>2. \A i \in DOMAIN rows :
         /\ rows'[i] \in Row
         /\ rows'[i].email = rows[i].email
         /\ rows'[i].google = rows[i].google
         /\ rows'[i].verified = rows[i].verified
         /\ rows'[i].otp_code = rows[i].otp_code
         /\ rows'[i].verification_code = rows[i].verification_code
         /\ rows'[i].resetPasswordToken = rows[i].resetPasswordToken
  BY RowsWere DEF Set, Row
<1>3. UsersTypeOK'
  BY <1>1, <1>2, RowsWere, UsersAssumption DEF UsersTypeOK
<1> QED BY <1>1, <1>2, <1>3, RowsWere, Rewritten, Zenon DEF NewOrOld

LEMMA SetsTwoFactor ==
    ASSUME TablesAreSound, NEW id, NEW value \in BOOLEAN, Set(id, "two_factor_enabled", value),
           lastId' = lastId, lastToken' = lastToken, mailbox' = mailbox
    PROVE  TablesStep
<1>1. DOMAIN rows' = DOMAIN rows
  BY DEF Set
<1>2. \A i \in DOMAIN rows :
         /\ rows'[i] \in Row
         /\ rows'[i].email = rows[i].email
         /\ rows'[i].google = rows[i].google
         /\ rows'[i].verified = rows[i].verified
         /\ rows'[i].otp_code = rows[i].otp_code
         /\ rows'[i].verification_code = rows[i].verification_code
         /\ rows'[i].resetPasswordToken = rows[i].resetPasswordToken
  BY RowsWere DEF Set, Row
<1>3. UsersTypeOK'
  BY <1>1, <1>2, RowsWere, UsersAssumption DEF UsersTypeOK
<1> QED BY <1>1, <1>2, <1>3, RowsWere, Rewritten, Zenon DEF NewOrOld

LEMMA SetsVerified ==
    ASSUME TablesAreSound, NEW id, NEW value \in {TRUE}, Set(id, "verified", value),
           id \in DOMAIN rows => CodeWasMailed(id, rows[id].email),
           lastId' = lastId, lastToken' = lastToken, mailbox' = mailbox
    PROVE  TablesStep
<1>1. DOMAIN rows' = DOMAIN rows
  BY DEF Set
<1>2. \A i \in DOMAIN rows :
         /\ rows'[i] \in Row
         /\ rows'[i].email = rows[i].email
         /\ rows'[i].google = rows[i].google
         /\ rows'[i].verified = IF i = id THEN value ELSE rows[i].verified
         /\ rows'[i].otp_code = rows[i].otp_code
         /\ rows'[i].verification_code = rows[i].verification_code
         /\ rows'[i].resetPasswordToken = rows[i].resetPasswordToken
  BY RowsWere DEF Set, Row
<1>3. UsersTypeOK'
  BY <1>1, <1>2, RowsWere, UsersAssumption DEF UsersTypeOK
<1> QED BY <1>1, <1>2, <1>3, RowsWere, Rewritten, Zenon DEF NewOrOld

LEMMA ClearsOtp ==
    ASSUME TablesAreSound, NEW id, NEW value \in {Nothing}, Set(id, "otp_code", value),
           lastId' = lastId, lastToken' = lastToken, mailbox' = mailbox
    PROVE  TablesStep
<1>1. DOMAIN rows' = DOMAIN rows
  BY DEF Set
<1>2. \A i \in DOMAIN rows :
         /\ rows'[i] \in Row
         /\ rows'[i].email = rows[i].email
         /\ rows'[i].google = rows[i].google
         /\ rows'[i].verified = rows[i].verified
         /\ rows'[i].otp_code = IF i = id THEN value ELSE rows[i].otp_code
         /\ rows'[i].verification_code = rows[i].verification_code
         /\ rows'[i].resetPasswordToken = rows[i].resetPasswordToken
  BY RowsWere DEF Set, Row
<1>3. UsersTypeOK'
  BY <1>1, <1>2, RowsWere, UsersAssumption DEF UsersTypeOK
<1> QED BY <1>1, <1>2, <1>3, RowsWere, Rewritten, Zenon DEF NewOrOld

LEMMA ClearsVerification ==
    ASSUME TablesAreSound, NEW id, NEW value \in {Nothing}, Set(id, "verification_code", value),
           lastId' = lastId, lastToken' = lastToken, mailbox' = mailbox
    PROVE  TablesStep
<1>1. DOMAIN rows' = DOMAIN rows
  BY DEF Set
<1>2. \A i \in DOMAIN rows :
         /\ rows'[i] \in Row
         /\ rows'[i].email = rows[i].email
         /\ rows'[i].google = rows[i].google
         /\ rows'[i].verified = rows[i].verified
         /\ rows'[i].otp_code = rows[i].otp_code
         /\ rows'[i].verification_code = IF i = id THEN value ELSE rows[i].verification_code
         /\ rows'[i].resetPasswordToken = rows[i].resetPasswordToken
  BY RowsWere DEF Set, Row
<1>3. UsersTypeOK'
  BY <1>1, <1>2, RowsWere, UsersAssumption DEF UsersTypeOK
<1> QED BY <1>1, <1>2, <1>3, RowsWere, Rewritten, Zenon DEF NewOrOld

LEMMA ClearsRestoration ==
    ASSUME TablesAreSound, NEW id, NEW value \in {Nothing}, Set(id, "resetPasswordToken", value),
           lastId' = lastId, lastToken' = lastToken, mailbox' = mailbox
    PROVE  TablesStep
<1>1. DOMAIN rows' = DOMAIN rows
  BY DEF Set
<1>2. \A i \in DOMAIN rows :
         /\ rows'[i] \in Row
         /\ rows'[i].email = rows[i].email
         /\ rows'[i].google = rows[i].google
         /\ rows'[i].verified = rows[i].verified
         /\ rows'[i].otp_code = rows[i].otp_code
         /\ rows'[i].verification_code = rows[i].verification_code
         /\ rows'[i].resetPasswordToken = IF i = id THEN value ELSE rows[i].resetPasswordToken
  BY RowsWere DEF Set, Row
<1>3. UsersTypeOK'
  BY <1>1, <1>2, RowsWere, UsersAssumption DEF UsersTypeOK
<1> QED BY <1>1, <1>2, <1>3, RowsWere, Rewritten, Zenon DEF NewOrOld

LEMMA SavesOtp ==
    ASSUME TablesAreSound, NEW id, NEW value \in {lastToken + 1}, Set(id, "otp_code", value),
           MayEnter(id), lastToken < MaxTokens,
           lastId' = lastId, lastToken' = lastToken + 1, mailbox' = mailbox
    PROVE  TablesStep
<1>0. value \in Tokens
  BY RowsWere, UsersAssumption DEF UsersTypeOK, Tokens
<1>1. DOMAIN rows' = DOMAIN rows
  BY DEF Set
<1>2. \A i \in DOMAIN rows :
         /\ rows'[i] \in Row
         /\ rows'[i].email = rows[i].email
         /\ rows'[i].google = rows[i].google
         /\ rows'[i].verified = rows[i].verified
         /\ rows'[i].otp_code = IF i = id THEN value ELSE rows[i].otp_code
         /\ rows'[i].verification_code = rows[i].verification_code
         /\ rows'[i].resetPasswordToken = rows[i].resetPasswordToken
  BY <1>0, RowsWere DEF Set, Row
<1>3. UsersTypeOK'
  BY <1>1, <1>2, RowsWere, UsersAssumption DEF UsersTypeOK
<1>4. \A i \in DOMAIN rows : rows'[i].otp_code # Nothing => Confirmed(rows[i])
  BY <1>2, RowsWere DEF MayEnter
<1> QED BY <1>1, <1>2, <1>3, <1>4, RowsWere, Rewritten, Zenon DEF NewOrOld

LEMMA SavesVerification ==
    ASSUME TablesAreSound, NEW id, NEW value \in {lastToken + 1}, Set(id, "verification_code", value),
           lastToken < MaxTokens,
           lastId' = lastId, lastToken' = lastToken + 1, mailbox' = mailbox
    PROVE  TablesStep
<1>0. value \in Tokens
  BY RowsWere, UsersAssumption DEF UsersTypeOK, Tokens
<1>1. DOMAIN rows' = DOMAIN rows
  BY DEF Set
<1>2. \A i \in DOMAIN rows :
         /\ rows'[i] \in Row
         /\ rows'[i].email = rows[i].email
         /\ rows'[i].google = rows[i].google
         /\ rows'[i].verified = rows[i].verified
         /\ rows'[i].otp_code = rows[i].otp_code
         /\ rows'[i].verification_code = IF i = id THEN value ELSE rows[i].verification_code
         /\ rows'[i].resetPasswordToken = rows[i].resetPasswordToken
  BY <1>0, RowsWere DEF Set, Row
<1>3. UsersTypeOK'
  BY <1>1, <1>2, RowsWere, UsersAssumption DEF UsersTypeOK
<1> QED BY <1>1, <1>2, <1>3, RowsWere, Rewritten, Zenon DEF NewOrOld

LEMMA SavesRestoration ==
    ASSUME TablesAreSound, NEW id, NEW value \in {lastToken + 1}, Set(id, "resetPasswordToken", value),
           lastToken < MaxTokens,
           lastId' = lastId, lastToken' = lastToken + 1, mailbox' = mailbox
    PROVE  TablesStep
<1>0. value \in Tokens
  BY RowsWere, UsersAssumption DEF UsersTypeOK, Tokens
<1>1. DOMAIN rows' = DOMAIN rows
  BY DEF Set
<1>2. \A i \in DOMAIN rows :
         /\ rows'[i] \in Row
         /\ rows'[i].email = rows[i].email
         /\ rows'[i].google = rows[i].google
         /\ rows'[i].verified = rows[i].verified
         /\ rows'[i].otp_code = rows[i].otp_code
         /\ rows'[i].verification_code = rows[i].verification_code
         /\ rows'[i].resetPasswordToken = IF i = id THEN value ELSE rows[i].resetPasswordToken
  BY <1>0, RowsWere DEF Set, Row
<1>3. UsersTypeOK'
  BY <1>1, <1>2, RowsWere, UsersAssumption DEF UsersTypeOK
<1> QED BY <1>1, <1>2, <1>3, RowsWere, Rewritten, Zenon DEF NewOrOld

\* A row is inserted: no token that was made is in it.
LEMMA Creates ==
    ASSUME TablesAreSound, NEW email \in Emails, NEW password \in Passwords \cup {Nothing},
           NEW google \in BOOLEAN, createUser(email, password, google),
           lastToken' = lastToken, mailbox' = mailbox
    PROVE  TablesStep /\ lastId + 1 \in GivenIds' /\ lastId + 1 \in Ids
<1> DEFINE new == lastId + 1
           row == NewRow(email, password, google)
<1>1. /\ lastId \in Nat /\ lastId' \in Nat /\ lastToken \in Nat /\ Nothing \notin Nat
      /\ DOMAIN rows \subseteq 1..lastId /\ new \in Ids /\ new \notin DOMAIN rows
      /\ lastId' = new
  BY UsersAssumption DEF TablesAreSound, TypeOK, AccountsTypeOK, UsersTypeOK, createUser, Ids
<1>2. DOMAIN rows' = DOMAIN rows \cup {new}
  BY DEF createUser
<1>3. rows'[new] = row /\ \A id \in DOMAIN rows : rows'[id] = rows[id]
  BY <1>1 DEF createUser
<1>4. /\ row \in Row /\ ~ row.verified /\ row.otp_code = Nothing
      /\ row.verification_code = Nothing /\ row.resetPasswordToken = Nothing
  BY DEF NewRow, Row
<1> HIDE DEF row
<1>5. UsersTypeOK'
  BY <1>1, <1>2, <1>3, <1>4, RowsWere DEF UsersTypeOK, Ids
<1>6. Grows
  BY <1>1, <1>2, <1>3, <1>4 DEF Grows
<1>7. RowsAreSound'
  BY <1>2, <1>3, <1>4
     DEF TablesAreSound, RowsAreSound, GivenTokens, Confirmed, CodeWasMailed
<1>8. MailsAreSound'
  <2> SUFFICES ASSUME NEW m \in mailbox
               PROVE  /\ m.id \in 1..lastId' /\ m.token \in 1..lastToken'
                      /\ m.kind = "code" => CodeIsFor(m.token, m.id)'
                      /\ m.kind = "link" => LinkIsFor(m.token, m.id)' /\ AddressIs(m.id, m.email)'
    BY DEF MailsAreSound
  <2>1. /\ m.id \in 1..lastId /\ m.token \in 1..lastToken
        /\ m.kind = "code" => CodeIsFor(m.token, m.id)
        /\ m.kind = "link" => LinkIsFor(m.token, m.id) /\ AddressIs(m.id, m.email)
    BY DEF TablesAreSound, MailsAreSound
  <2>2. m.id \in GivenIds
    BY <2>1 DEF GivenIds
  <2> QED BY <1>1, <1>5, <1>6, <2>1, <2>2, RowsWere, StaysTrue
<1>9. new \in GivenIds'
  BY <1>1 DEF GivenIds
<1> QED BY <1>1, <1>5, <1>6, <1>7, <1>8, <1>9 DEF TablesStep

LEMMA Deletes ==
    ASSUME TablesAreSound, NEW id, deleteUser(id),
           lastId' = lastId, lastToken' = lastToken, mailbox' = mailbox
    PROVE  TablesStep
<1>1. lastId \in Nat /\ lastToken \in Nat
  BY UsersAssumption DEF TablesAreSound, TypeOK, AccountsTypeOK, UsersTypeOK
<1>2. /\ DOMAIN rows' \subseteq DOMAIN rows
      /\ \A i \in DOMAIN rows' : rows'[i] = rows[i]
  BY DEF deleteUser
<1>3. UsersTypeOK'
  BY <1>2, RowsWere DEF UsersTypeOK
<1>4. Grows
  BY <1>1, <1>2 DEF Grows
<1>5. RowsAreSound'
  BY <1>2 DEF TablesAreSound, RowsAreSound, GivenTokens, CodeWasMailed, Confirmed
<1>6. MailsAreSound'
  BY <1>2 DEF TablesAreSound, MailsAreSound, CodeIsFor, LinkIsFor, AddressIs
<1> QED BY <1>3, <1>4, <1>5, <1>6 DEF TablesStep

\* A mail is delivered: its token was made for the row it names.
LEMMA Delivers ==
    ASSUME TablesAreSound, UNCHANGED userVars,
           NEW m \in [kind : Kinds, email : Emails, id : Ids, token : Tokens],
           mailbox' = mailbox \cup {m},
           m.id \in 1..lastId, m.token \in 1..lastToken,
           m.kind = "code" => CodeIsFor(m.token, m.id),
           m.kind = "link" => LinkIsFor(m.token, m.id) /\ AddressIs(m.id, m.email)
    PROVE  TablesStep /\ MailboxOK'
<1>1. rows' = rows /\ lastId' = lastId /\ lastToken' = lastToken
  BY DEF userVars
<1>2. UsersTypeOK' /\ MailboxOK'
  BY <1>1 DEF TablesAreSound, TypeOK, AccountsTypeOK, UsersTypeOK, MailboxOK
<1>3. Grows
  BY <1>1, UsersAssumption DEF Grows, TablesAreSound, TypeOK, AccountsTypeOK, UsersTypeOK
<1>4. RowsAreSound'
  BY <1>1 DEF TablesAreSound, RowsAreSound, GivenTokens, CodeWasMailed, Confirmed
<1>5. MailsAreSound'
  BY <1>1 DEF TablesAreSound, MailsAreSound, CodeIsFor, LinkIsFor, AddressIs
<1> QED BY <1>2, <1>3, <1>4, <1>5 DEF TablesStep

(***************************************************************************)
(* A call that does not move remembers what is still true.                 *)
(***************************************************************************)

BrowserStays(b) ==
    /\ page'[b] = page[b] /\ link'[b] = link[b] /\ access'[b] = access[b]
    /\ live'[b] = live[b] /\ cookie'[b] = cookie[b]

LEMMA StillRemembers ==
    ASSUME AccountsInv, TablesStep, NEW b \in Browsers, Follows(calls[b], calls'[b])
    PROVE  Remembers(b)'
<1>1. UsersTypeOK /\ UsersTypeOK' /\ Grows
  BY DEF AccountsInv, TablesAreSound, TypeOK, AccountsTypeOK, TablesStep
<1>2. Remembers(b)
  BY DEF AccountsInv, CallIsSound
<1>3. PICK id, token : id = calls[b].id /\ token = calls[b].token
  OBVIOUS
<1>4. /\ calls'[b].id = id /\ calls'[b].token = token
      /\ calls'[b].op = calls[b].op /\ calls'[b].at = calls[b].at
      /\ calls'[b].status = calls[b].status
  BY <1>3 DEF Follows
<1>5. id \in GivenIds /\ token \in GivenTokens
  BY <1>2, <1>3 DEF Remembers
<1>6. id \in GivenIds' /\ token \in GivenTokens' /\ 1..lastId \subseteq 1..lastId'
  BY <1>1, <1>5, StaysTrue
<1>7. /\ MayEnter(id) => MayEnter(id)'
      /\ AddressIs(id, Address[b]) => AddressIs(id, Address[b])'
      /\ CodeWasMailed(id, Address[b]) => CodeWasMailed(id, Address[b])'
      /\ LinkWasMailed(id, token) => LinkWasMailed(id, token)'
      /\ Mailed("code", token, Address[b]) => Mailed("code", token, Address[b])'
  BY <1>1, <1>5, StaysTrue
<1>8. token # Nothing =>
         /\ CodeIsFor(token, id) => CodeIsFor(token, id)'
         /\ LinkIsFor(token, id) => LinkIsFor(token, id)'
  BY <1>1, <1>5, StaysTrue DEF GivenTokens
<1>9. (\E i \in 1..lastId : LinkWasMailed(i, token)) =>
          (\E i \in 1..lastId : LinkWasMailed(i, token))'
  BY <1>1, <1>6, StaysTrue
<1> QED BY <1>2, <1>3, <1>4, <1>6, <1>7, <1>8, <1>9 DEF Remembers, At, OpensSession

LEMMA SessionStays ==
    ASSUME AccountsInv, TablesStep, NEW b \in Browsers, BrowserStays(b)
    PROVE  SessionIsSound(b)'
<1>1. UsersTypeOK /\ UsersTypeOK' /\ Grows
  BY DEF AccountsInv, TablesAreSound, TypeOK, AccountsTypeOK, TablesStep
<1>2. SessionIsSound(b)
  BY DEF AccountsInv
<1>3. PICK signed, kept : signed = access[b] /\ kept = cookie[b]
  OBVIOUS
<1>4. access'[b] = signed /\ cookie'[b] = kept
  BY <1>3 DEF BrowserStays
<1>5. signed \in GivenIds' /\ MayEnter(signed)' /\ kept \in GivenIds' /\ MayEnter(kept)'
  BY <1>1, <1>2, <1>3, StaysTrue DEF SessionIsSound
<1>6. (\E id \in 1..lastId : LinkWasMailed(id, link[b])) =>
          (\E id \in 1..lastId : LinkWasMailed(id, link[b]))'
  <2>1. PICK token : token = link[b] /\ token = link'[b]
    BY DEF BrowserStays
  <2>2. \A id : LinkWasMailed(id, token) => LinkWasMailed(id, token)'
    BY <1>1, StaysTrue
  <2>3. 1..lastId \subseteq 1..lastId'
    BY <1>1, StaysTrue
  <2> QED BY <2>1, <2>2, <2>3
<1> QED BY <1>2, <1>3, <1>4, <1>5, <1>6 DEF SessionIsSound, BrowserStays

LEMMA CallStays ==
    ASSUME AccountsInv, TablesStep, NEW b \in Browsers, Follows(calls[b], calls'[b]),
           BrowserStays(b)
    PROVE  CallIsSound(b)'
<1>1. UsersTypeOK /\ UsersTypeOK' /\ Grows
  BY DEF AccountsInv, TablesAreSound, TypeOK, AccountsTypeOK, TablesStep
<1>2. CallIsSound(b) /\ SessionIsSound(b)
  BY DEF AccountsInv
<1>3. KeepsOut(b)'
  BY <1>2 DEF CallIsSound, KeepsOut, Follows, OpensSession
<1>4. cookie[b] \notin DOMAIN rows => cookie'[b] \notin DOMAIN rows'
  <2>1. PICK kept : kept = cookie[b]
    OBVIOUS
  <2>2. kept \notin DOMAIN rows => kept \notin DOMAIN rows'
    BY <1>1, <1>2, <2>1, StaysTrue DEF SessionIsSound
  <2> QED BY <2>1, <2>2 DEF BrowserStays
<1>5. CallIsSigned(b)'
  BY <1>2, <1>4 DEF CallIsSound, CallIsSigned, Follows, BrowserStays
<1> QED BY <1>3, <1>5, StillRemembers DEF CallIsSound

(***************************************************************************)
(* A handler: the tables step, one call moves, the browsers stay.          *)
(***************************************************************************)

LEMMA HandlerKeeps ==
    ASSUME AccountsInv, TablesStep, MailboxOK', UNCHANGED browser, NEW b \in Browsers,
           calls' \in [Browsers -> Call], Bystanders(b), CallIsSound(b)'
    PROVE  AccountsInv'
<1>1. /\ page' = page /\ link' = link /\ access' = access /\ live' = live /\ cookie' = cookie
  BY DEF browser
<1>2. TypeOK'
  BY <1>1 DEF AccountsInv, TablesAreSound, TypeOK, AccountsTypeOK, MailboxOK, TablesStep, Tokens, Ids
<1>3. TablesAreSound'
  BY <1>2 DEF TablesAreSound, TablesStep
<1>4. \A x \in Browsers : BrowserStays(x)
  BY <1>1 DEF BrowserStays
<1>5. \A x \in Browsers \ {b} : CallIsSound(x)'
  BY <1>4, CallStays DEF Bystanders
<1>6. \A x \in Browsers : SessionIsSound(x)'
  BY <1>4, SessionStays
<1> QED BY <1>3, <1>5, <1>6 DEF AccountsInv
ServesWell(b) ==
    TablesStep /\ MailboxOK' /\ calls' \in [Browsers -> Call] /\ Bystanders(b) /\ CallIsSound(b)'

LEMMA InvTypes ==
    ASSUME AccountsInv
    PROVE  TypeOK /\ TablesAreSound /\ UsersTypeOK /\ MailboxOK
  BY DEF AccountsInv, TablesAreSound, TypeOK, AccountsTypeOK, MailboxOK, Tokens, Ids

LEMMA NothingHere == UsersTypeOK => Nothing \notin DOMAIN rows
  BY UsersAssumption DEF UsersTypeOK

\* A public handler answers: with a session only for one who may enter.
LEMMA AnswersWell ==
    ASSUME AccountsInv, TablesStep, MailboxOK', NEW b \in Browsers, calls[b].op \notin TokenOps,
           NEW id, id \in GivenIds', NEW status, Moved(b, "answered", Nothing, id, status),
           OpensSession(calls'[b]) => MayEnter(id)' /\ ~ calls'[b].barred
    PROVE  ServesWell(b)
<1>1. CallIsSound(b)
  BY DEF AccountsInv
<1>2. Remembers(b)'
  BY DEF Moved, Remembers, GivenTokens, At
<1>3. KeepsOut(b)'
  BY <1>1 DEF Moved, CallIsSound, KeepsOut, TokenOps
<1>4. CallIsSigned(b)'
  BY DEF Moved, CallIsSigned, TokenOps
<1> QED BY <1>2, <1>3, <1>4 DEF ServesWell, CallIsSound, Moved

LEMMA FailsWell ==
    ASSUME AccountsInv, TablesStep, MailboxOK', NEW b \in Browsers, calls[b].op \notin TokenOps,
           calls[b].at # "answered", NEW status \in Statuses, Fails(b, status),
           calls[b].op \in {"login", "otp", "google"} => status \notin {200, 302}
    PROVE  ServesWell(b)
<1>1. Moved(b, "answered", Nothing, Nothing, status)
  BY InvTypes, FailsMoves
<1>2. ~ OpensSession(calls'[b])
  BY <1>1 DEF Moved, OpensSession
<1>3. Nothing \in GivenIds'
  BY DEF GivenIds
<1> QED BY <1>1, <1>2, <1>3, AnswersWell

LEMMA GoesWell ==
    ASSUME AccountsInv, TablesStep, MailboxOK', NEW b \in Browsers, calls[b].op \notin TokenOps,
           NEW at \in Stages \ {"auth", "answered"}, NEW token, NEW id, NEW status,
           Moved(b, at, token, id, status), Remembers(b)'
    PROVE  ServesWell(b)
<1>1. CallIsSound(b)
  BY DEF AccountsInv
<1>2. KeepsOut(b)'
  BY <1>1 DEF Moved, CallIsSound, KeepsOut, TokenOps
<1>3. CallIsSigned(b)'
  BY DEF Moved, CallIsSigned, TokenOps
<1> QED BY <1>2, <1>3 DEF ServesWell, CallIsSound, Moved

\* What a call still remembers of its id and its token.
LEMMA StillGiven ==
    ASSUME AccountsInv, TablesStep, NEW b \in Browsers
    PROVE  /\ calls[b].id \in GivenIds' /\ calls[b].token \in GivenTokens'
           /\ calls[b].id \in Ids \cup {Nothing} /\ calls[b].token \in Tokens \cup {Nothing}
<1>1. UsersTypeOK /\ UsersTypeOK' /\ Grows
  BY DEF AccountsInv, TablesAreSound, TypeOK, AccountsTypeOK, TablesStep
<1>2. calls[b].id \in GivenIds /\ calls[b].token \in GivenTokens
  BY DEF AccountsInv, CallIsSound, Remembers
<1>3. calls[b] \in Call
  BY DEF AccountsInv, TablesAreSound, TypeOK, AccountsTypeOK
<1> QED BY <1>1, <1>2, <1>3, StaysTrue DEF Call

(***************************************************************************)
(* The public handlers.                                                    *)
(***************************************************************************)

LEMMA RegisterReadWell ==
    ASSUME AccountsInv, UNCHANGED mailbox, NEW b \in Browsers, RegisterRead(b)
    PROVE  ServesWell(b)
<1>1. TablesStep /\ MailboxOK'
  BY InvTypes, ReadsOnly DEF RegisterRead, MailboxOK, userVars
<1>2. calls[b].op = "register" /\ calls[b].at = "read"
  BY DEF RegisterRead, At
<1>3. CASE Fails(b, 409)
  BY <1>1, <1>2, <1>3, FailsWell DEF Statuses, TokenOps
<1>4. CASE Goes(b, "insert")
  <2>1. Moved(b, "insert", calls[b].token, calls[b].id, calls[b].status)
    BY <1>4, InvTypes, GoesMoves DEF Stages
  <2>2. Remembers(b)'
    BY <1>1, <1>2, <2>1, StillGiven DEF Moved, Remembers, At
  <2> QED BY <1>1, <1>2, <2>1, <2>2, GoesWell DEF Stages, TokenOps
<1> QED BY <1>3, <1>4 DEF RegisterRead

LEMMA RegisterInsertWell ==
    ASSUME AccountsInv, UNCHANGED mailbox, NEW b \in Browsers, RegisterInsert(b)
    PROVE  ServesWell(b)
<1>1. calls[b].op = "register" /\ calls[b].at = "insert" /\ GoesFor(b, "code", lastId + 1)
  BY DEF RegisterInsert, At
<1>2. Caller(b) \in Emails /\ calls[b].new \in Passwords \cup {Nothing}
  BY AddressAssumption, InvTypes DEF Caller, TypeOK, AccountsTypeOK, Call
<1>3. /\ TablesStep /\ MailboxOK'
      /\ lastId + 1 \in GivenIds' /\ lastId + 1 \in Ids
  BY <1>2, InvTypes, Creates DEF RegisterInsert, MailboxOK
<1>4. Moved(b, "code", calls[b].token, lastId + 1, calls[b].status)
  BY <1>1, <1>3, InvTypes, GoesForMoves DEF Stages
<1>5. lastId + 1 # Nothing
  BY <1>3, UsersAssumption DEF Ids
<1>6. Remembers(b)'
  BY <1>1, <1>3, <1>4, <1>5, StillGiven DEF Moved, Remembers, At
<1> QED BY <1>1, <1>3, <1>4, <1>6, GoesWell DEF Stages, TokenOps

\* A token is stored in one row, and is new.
LEMMA NewTokenIsNew ==
    ASSUME AccountsInv, NEW id, NEW token, token = lastToken + 1, NewToken
    PROVE  /\ token \in Tokens /\ token \in GivenTokens' /\ token # Nothing
           /\ token \notin GivenTokens /\ token \in 1..lastToken'
           /\ saveHashedVerificationCode(id, token) => CodeIsFor(token, id)'
           /\ updateUserRestorations(id, token) => LinkIsFor(token, id)'
<1>1. /\ token \in Tokens /\ token \in GivenTokens' /\ token # Nothing
      /\ token \notin GivenTokens /\ token \in 1..lastToken'
  BY InvTypes, UsersAssumption DEF UsersTypeOK, NewToken, Tokens, GivenTokens
<1>2. \A i \in DOMAIN rows : /\ rows[i].verification_code \in GivenTokens
                             /\ rows[i].resetPasswordToken \in GivenTokens
  BY DEF AccountsInv, TablesAreSound, RowsAreSound
<1>3. saveHashedVerificationCode(id, token) => CodeIsFor(token, id)'
  BY <1>1, <1>2 DEF saveHashedVerificationCode, Set, CodeIsFor
<1>4. updateUserRestorations(id, token) => LinkIsFor(token, id)'
  BY <1>1, <1>2 DEF updateUserRestorations, Set, LinkIsFor
<1> QED BY <1>1, <1>3, <1>4

LEMMA SaveCodeWell ==
    ASSUME AccountsInv, UNCHANGED mailbox, NEW b \in Browsers, SaveCode(b)
    PROVE  ServesWell(b)
<1>1. PICK id, token : id = calls[b].id /\ token = lastToken + 1
  OBVIOUS
<1>2. /\ calls[b].op \in {"register", "login"} /\ calls[b].at = "code" /\ NewToken
      /\ saveHashedVerificationCode(id, token) /\ GoesWith(b, "mailcode", token)
  BY <1>1 DEF SaveCode
<1>3. TablesStep /\ MailboxOK'
  BY InvTypes, SavesVerification DEF SaveCode, NewToken, saveHashedVerificationCode, MailboxOK
<1>4. token \in Tokens /\ token \in GivenTokens' /\ token # Nothing /\ CodeIsFor(token, id)'
  BY <1>1, <1>2, NewTokenIsNew
<1>5. Moved(b, "mailcode", token, id, calls[b].status)
  BY <1>1, <1>2, <1>4, InvTypes, GoesWithMoves DEF Stages
<1>6. id \in GivenIds' /\ id # Nothing
  BY <1>1, <1>2, <1>3, StillGiven DEF AccountsInv, CallIsSound, Remembers
<1>7. Remembers(b)'
  BY <1>2, <1>4, <1>5, <1>6 DEF Moved, Remembers, At, TokenMakers
<1> QED BY <1>2, <1>3, <1>5, <1>7, GoesWell DEF Stages, TokenOps

LEMMA SaveOtpWell ==
    ASSUME AccountsInv, UNCHANGED mailbox, NEW b \in Browsers, SaveOtp(b)
    PROVE  ServesWell(b)
<1>1. PICK id, token : id = calls[b].id /\ token = lastToken + 1
  OBVIOUS
<1>2. /\ calls[b].op = "login" /\ calls[b].at = "otp" /\ NewToken
      /\ GoesWith(b, "mailotp", token)
  BY <1>1 DEF SaveOtp, At
<1>3. MayEnter(id) /\ id # Nothing
  BY <1>1, <1>2 DEF AccountsInv, CallIsSound, Remembers, At
<1>4. TablesStep /\ MailboxOK'
  BY <1>1, <1>3, InvTypes, SavesOtp DEF SaveOtp, NewToken, saveHashedOtpCode, MailboxOK
<1>5. token \in Tokens /\ token \in GivenTokens' /\ token # Nothing
  BY <1>1, <1>2, NewTokenIsNew
<1>6. Moved(b, "mailotp", token, id, calls[b].status)
  BY <1>1, <1>2, <1>5, InvTypes, GoesWithMoves DEF Stages
<1>7. Remembers(b)'
  BY <1>1, <1>2, <1>3, <1>4, <1>5, <1>6, StillGiven DEF Moved, Remembers, At, TokenMakers
<1> QED BY <1>2, <1>4, <1>6, <1>7, GoesWell DEF Stages, TokenOps

LEMMA ForgotSaveWell ==
    ASSUME AccountsInv, UNCHANGED mailbox, NEW b \in Browsers, ForgotSave(b)
    PROVE  ServesWell(b)
<1>1. PICK id, token : id = calls[b].id /\ token = lastToken + 1
  OBVIOUS
<1>2. /\ calls[b].op = "forgot" /\ calls[b].at = "link" /\ NewToken
      /\ updateUserRestorations(id, token) /\ GoesWith(b, "maillink", token)
  BY <1>1 DEF ForgotSave, At
<1>3. TablesStep /\ MailboxOK'
  BY InvTypes, SavesRestoration DEF ForgotSave, NewToken, updateUserRestorations, MailboxOK
<1>4. token \in Tokens /\ token \in GivenTokens' /\ token # Nothing /\ LinkIsFor(token, id)'
  BY <1>1, <1>2, NewTokenIsNew
<1>5. Moved(b, "maillink", token, id, calls[b].status)
  BY <1>1, <1>2, <1>4, InvTypes, GoesWithMoves DEF Stages
<1>6. id \in GivenIds /\ id # Nothing /\ AddressIs(id, Address[b])
  BY <1>1, <1>2 DEF AccountsInv, CallIsSound, Remembers
<1>7. id \in GivenIds' /\ AddressIs(id, Address[b])'
  BY <1>3, <1>6, InvTypes, StaysTrue DEF TablesStep
<1>8. Remembers(b)'
  BY <1>2, <1>4, <1>5, <1>6, <1>7 DEF Moved, Remembers, At, TokenMakers
<1> QED BY <1>2, <1>3, <1>5, <1>8, GoesWell DEF Stages, TokenOps

LEMMA LoginReadWell ==
    ASSUME AccountsInv, UNCHANGED mailbox, NEW b \in Browsers, LoginRead(b)
    PROVE  ServesWell(b)
<1> DEFINE id == getUserByEmail(Caller(b))
<1>1. TablesStep /\ MailboxOK' /\ rows' = rows
  BY InvTypes, ReadsOnly DEF LoginRead, MailboxOK, userVars
<1>2. calls[b].op = "login" /\ calls[b].at = "read"
  BY DEF LoginRead, At
<1>3. CASE id = Nothing
  <2>1. Fails(b, 404)
    BY <1>3 DEF LoginRead
  <2> QED BY <1>1, <1>2, <2>1, FailsWell DEF Statuses, TokenOps
<1>4. CASE id # Nothing
  <2>1. PICK i : i = id
    OBVIOUS
  <2>2. i \in DOMAIN rows /\ rows[i].email = Address[b] /\ i # Nothing
    BY <1>4, <2>1, InvTypes, ByEmail DEF Caller
  <2>3. i \in Ids /\ i \in GivenIds'
    BY <1>1, <2>2, InvTypes, UsersAssumption DEF TablesStep, UsersTypeOK, Ids, GivenIds
  <2>4. CASE ~ Confirmed(rows[i])
    <3>1. GoesFor(b, "code", i)
      BY <1>4, <2>1, <2>4, Zenon DEF LoginRead
    <3>2. Moved(b, "code", calls[b].token, i, calls[b].status)
      BY <2>3, <3>1, InvTypes, GoesForMoves DEF Stages
    <3>3. Remembers(b)'
      BY <1>1, <1>2, <2>2, <2>3, <3>2, StillGiven DEF Moved, Remembers, At
    <3> QED BY <1>1, <1>2, <3>2, <3>3, GoesWell DEF Stages, TokenOps
  <2>5. CASE Confirmed(rows[i]) /\ (rows[i].google \/ rows[i].password # calls[b].password)
    <3>1. Fails(b, 400)
      BY <1>4, <2>1, <2>5, Zenon DEF LoginRead
    <3> QED BY <1>1, <1>2, <3>1, FailsWell DEF Statuses, TokenOps
  <2>6. CASE Confirmed(rows[i]) /\ ~ (rows[i].google \/ rows[i].password # calls[b].password)
    <3>1. IF AsksForCode(rows[i]) THEN GoesFor(b, "otp", i) ELSE Answers(b, 200, i)
      BY <1>4, <2>1, <2>6, Zenon DEF LoginRead
    <3>2. MayEnter(i)'
      BY <1>1, <2>6 DEF MayEnter
    <3>3. CASE AsksForCode(rows[i])
      <4>1. Moved(b, "otp", calls[b].token, i, calls[b].status)
        BY <2>3, <3>1, <3>3, InvTypes, GoesForMoves DEF Stages
      <4>2. Remembers(b)'
        BY <1>1, <1>2, <2>2, <2>3, <3>2, <4>1, StillGiven DEF Moved, Remembers, At
      <4> QED BY <1>1, <1>2, <4>1, <4>2, GoesWell DEF Stages, TokenOps
    <3>4. CASE ~ AsksForCode(rows[i])
      <4>1. /\ Moved(b, "answered", Nothing, i, 200)
            /\ calls'[b].barred => Barred(b, calls[b], rows)
        BY <1>1, <1>2, <2>3, <3>1, <3>4, InvTypes, AnswersMoves DEF Statuses
      <4>2. ~ Barred(b, calls[b], rows)
        BY <1>2, <2>2, <2>6, <3>4, Zenon DEF Barred, AsksForCode
      <4> QED BY <1>1, <1>2, <2>3, <3>2, <4>1, <4>2, AnswersWell DEF TokenOps
    <3> QED BY <3>3, <3>4
  <2> QED BY <2>4, <2>5, <2>6
<1> QED BY <1>3, <1>4
LEMMA MailWell ==
    ASSUME AccountsInv, NEW b \in Browsers, NEW mailed \in BOOLEAN, Mail(b, mailed)
    PROVE  ServesWell(b)
<1>1. PICK id, token, at : id = calls[b].id /\ token = calls[b].token /\ at = calls[b].at
  OBVIOUS
<1>2. at \in {"mailcode", "mailotp", "maillink"}
  BY <1>1 DEF Mail, MailKind
<1>3. /\ id \in GivenIds /\ id # Nothing /\ token \in GivenTokens /\ token # Nothing
      /\ calls[b].op \in TokenMakers
      /\ at = "mailcode" => CodeIsFor(token, id)
      /\ at = "maillink" => LinkIsFor(token, id) /\ AddressIs(id, Address[b])
  BY <1>1, <1>2 DEF AccountsInv, CallIsSound, Remembers
<1>4. id \in 1..lastId /\ token \in 1..lastToken /\ id \in Ids /\ token \in Tokens
  BY <1>3, InvTypes, UsersAssumption DEF GivenIds, GivenTokens, UsersTypeOK, Ids, Tokens
<1>5. TablesStep /\ MailboxOK'
  <2>1. CASE ~ mailed
    BY <2>1, InvTypes, ReadsOnly DEF Mail, MailboxOK
  <2>2. CASE mailed
    <3> DEFINE kind == MailKind[at]
               m == [kind |-> kind, email |-> Address[b], id |-> id, token |-> token]
    <3>1. /\ kind \in Kinds
          /\ kind = "code" => at = "mailcode"
          /\ kind = "link" => at = "maillink"
      BY <1>2 DEF MailKind, Kinds
    <3>2. mailbox' = mailbox \cup {m} /\ UNCHANGED userVars
      BY <1>1, <2>2 DEF Mail, Caller
    <3>3. kind \in Kinds /\ Address[b] \in Emails
      BY <3>1, AddressAssumption
    <3> HIDE DEF kind
    <3>4. /\ m \in [kind : Kinds, email : Emails, id : Ids, token : Tokens]
          /\ m.kind = kind /\ m.email = Address[b] /\ m.id = id /\ m.token = token
      BY <1>4, <3>3
    <3> HIDE DEF m
    <3> QED BY <1>3, <1>4, <3>1, <3>2, <3>4, InvTypes, Delivers
  <2> QED BY <2>1, <2>2
<1>6. PICK status \in {200, 201, 403, 500} :
          Fails(b, status) /\ (calls[b].op = "login" => status # 200)
  <2> DEFINE status == IF mailed THEN MailStatus(b) ELSE 500
  <2>1. Fails(b, status)
    BY DEF Mail
  <2>2. status \in {200, 201, 403, 500}
    BY DEF MailStatus
  <2>3. calls[b].op = "login" => status # 200
    BY DEF MailStatus
  <2> HIDE DEF status
  <2> QED BY <2>1, <2>2, <2>3
<1>7. calls[b].op \in {"register", "login", "forgot"} /\ calls[b].at # "answered"
  BY <1>1, <1>2, <1>3 DEF TokenMakers
<1> QED BY <1>5, <1>6, <1>7, FailsWell DEF Statuses, TokenOps

LEMMA FindByEmailWell ==
    ASSUME AccountsInv, UNCHANGED mailbox, NEW b \in Browsers, FindByEmail(b)
    PROVE  ServesWell(b)
<1>1. PICK id, token : id = getUserByEmail(Caller(b)) /\ token = calls[b].token
  OBVIOUS
<1>2. TablesStep /\ MailboxOK' /\ mailbox' = mailbox
  BY InvTypes, ReadsOnly DEF FindByEmail, MailboxOK, userVars
<1>3. calls[b].op \in {"verify", "otp"} /\ calls[b].at = "read"
  BY DEF FindByEmail
<1>4. CASE id = Nothing
  <2>1. Fails(b, 404)
    BY <1>1, <1>4 DEF FindByEmail
  <2> QED BY <1>2, <1>3, <2>1, FailsWell DEF Statuses, TokenOps
<1>5. CASE id # Nothing
  <2>1. id \in DOMAIN rows
    BY <1>1, <1>5, InvTypes, ByEmail
  <2>2. id \in Ids /\ id \in GivenIds'
    BY <1>2, <2>1, InvTypes, UsersAssumption DEF FindByEmail, UsersTypeOK, Ids, GivenIds
  <2>3. GoesFor(b, "check", id)
    BY <1>1, <1>5 DEF FindByEmail
  <2>4. Moved(b, "check", token, id, calls[b].status)
    BY <1>1, <2>2, <2>3, InvTypes, GoesForMoves DEF Stages
  <2>5. calls[b].op = "verify" =>
            token = Nothing \/ Mailed("code", token, Address[b])
    BY <1>1, <1>3 DEF AccountsInv, CallIsSound, Remembers
  <2>6. calls[b].op = "verify" =>
            token = Nothing \/ Mailed("code", token, Address[b])'
    BY <1>2, <2>5 DEF Mailed
  <2>7. Remembers(b)'
    BY <1>1, <1>2, <1>3, <2>2, <2>4, <2>6, StillGiven DEF Moved, Remembers, At
  <2> QED BY <1>2, <1>3, <2>4, <2>7, GoesWell DEF Stages, TokenOps
<1> QED BY <1>4, <1>5

\* A code that matches was mailed for the very row that is looked at.
LEMMA CheckCodeWell ==
    ASSUME AccountsInv, UNCHANGED mailbox, NEW b \in Browsers, CheckCode(b)
    PROVE  ServesWell(b)
<1>1. PICK id, token : id = calls[b].id /\ token = calls[b].token
  OBVIOUS
<1>2. TablesStep /\ MailboxOK' /\ mailbox' = mailbox
  BY InvTypes, ReadsOnly DEF CheckCode, MailboxOK, userVars
<1>3. calls[b].op = "verify" /\ calls[b].at = "check"
  BY DEF CheckCode, At
<1>4. CASE Fails(b, 400)
  BY <1>2, <1>3, <1>4, FailsWell DEF Statuses, TokenOps
<1>5. CASE Matches(getUserVerificationCode(id), token) /\ Goes(b, "set")
  <2>1. id \in DOMAIN rows /\ rows[id].verification_code = token /\ token # Nothing
    BY <1>5, Zenon DEF Matches, getUserVerificationCode
  <2>2. Mailed("code", token, Address[b])
    BY <1>1, <1>3, <2>1 DEF AccountsInv, CallIsSound, Remembers
  <2>3. CodeWasMailed(id, Address[b])
    BY <2>1, <2>2
       DEF Mailed, CodeWasMailed, AccountsInv, TablesAreSound, MailsAreSound, CodeIsFor
  <2>4. CodeWasMailed(id, Address[b])'
    BY <1>2, <2>3 DEF CodeWasMailed
  <2>5. Moved(b, "set", token, id, calls[b].status)
    BY <1>1, <1>5, InvTypes, GoesMoves DEF Stages
  <2>6. Remembers(b)'
    BY <1>1, <1>2, <1>3, <2>4, <2>5, StillGiven DEF Moved, Remembers, At
  <2> QED BY <1>2, <1>3, <2>5, <2>6, GoesWell DEF Stages, TokenOps
<1> QED BY <1>1, <1>4, <1>5 DEF CheckCode

LEMMA SetVerifiedWell ==
    ASSUME AccountsInv, UNCHANGED mailbox, NEW b \in Browsers, SetVerified(b)
    PROVE  ServesWell(b)
<1>1. PICK id, token : id = calls[b].id /\ token = calls[b].token
  OBVIOUS
<1>2. calls[b].op = "verify" /\ calls[b].at = "set" /\ Goes(b, "clear")
  BY DEF SetVerified, At
<1>3. CodeWasMailed(id, Address[b])
  BY <1>1, <1>2 DEF AccountsInv, CallIsSound, Remembers
<1>4. TablesStep /\ MailboxOK'
  <2>1. CASE id \in DOMAIN rows /\ rows[id].email = Address[b]
    <3>1. Set(id, "verified", TRUE)
      BY <1>1, <2>1 DEF SetVerified, setEmailVerified, Caller
    <3> QED BY <1>3, <2>1, <3>1, InvTypes, SetsVerified DEF SetVerified, MailboxOK
  <2>2. CASE ~ (id \in DOMAIN rows /\ rows[id].email = Address[b])
    BY <1>1, <2>2, InvTypes, ReadsOnly
       DEF SetVerified, setEmailVerified, Caller, MailboxOK, userVars
  <2> QED BY <2>1, <2>2
<1>5. Moved(b, "clear", token, id, calls[b].status)
  BY <1>1, <1>2, InvTypes, GoesMoves DEF Stages
<1>6. Remembers(b)'
  BY <1>1, <1>2, <1>4, <1>5, StillGiven DEF Moved, Remembers, At
<1> QED BY <1>2, <1>4, <1>5, <1>6, GoesWell DEF Stages, TokenOps

LEMMA ClearCodeWell ==
    ASSUME AccountsInv, UNCHANGED mailbox, NEW b \in Browsers, ClearCode(b)
    PROVE  ServesWell(b)
<1>1. calls[b].op = "verify" /\ calls[b].at = "clear" /\ Fails(b, 200)
  BY DEF ClearCode, At
<1>2. TablesStep /\ MailboxOK'
  BY InvTypes, ClearsVerification DEF ClearCode, clearVerificationFields, MailboxOK
<1> QED BY <1>1, <1>2, FailsWell DEF Statuses, TokenOps

LEMMA CheckOtpWell ==
    ASSUME AccountsInv, UNCHANGED mailbox, NEW b \in Browsers, CheckOtp(b)
    PROVE  ServesWell(b)
<1>1. PICK id, token : id = calls[b].id /\ token = calls[b].token
  OBVIOUS
<1>2. TablesStep /\ MailboxOK' /\ rows' = rows
  BY InvTypes, ReadsOnly DEF CheckOtp, MailboxOK, userVars
<1>3. calls[b].op = "otp" /\ calls[b].at = "check"
  BY DEF CheckOtp, At
<1>4. CASE \E status \in {400, 500} : Fails(b, status)
  BY <1>2, <1>3, <1>4, FailsWell DEF Statuses, TokenOps
<1>5. CASE Matches(getUserOtpCode(id), token) /\ Goes(b, "clear")
  <2>1. id \in DOMAIN rows /\ rows[id].otp_code # Nothing
    BY <1>5, Zenon DEF Matches, getUserOtpCode
  <2>2. MayEnter(id)'
    BY <1>2, <2>1, InvTypes, RowsWere DEF MayEnter
  <2>3. Moved(b, "clear", token, id, calls[b].status)
    BY <1>1, <1>5, InvTypes, GoesMoves DEF Stages
  <2>4. Remembers(b)'
    BY <1>1, <1>2, <1>3, <2>2, <2>3, StillGiven DEF Moved, Remembers, At
  <2> QED BY <1>2, <1>3, <2>3, <2>4, GoesWell DEF Stages, TokenOps
<1> QED BY <1>1, <1>4, <1>5, Zenon DEF CheckOtp

LEMMA ClearOtpWell ==
    ASSUME AccountsInv, UNCHANGED mailbox, NEW b \in Browsers, ClearOtp(b)
    PROVE  ServesWell(b)
<1>1. PICK id : id = calls[b].id
  OBVIOUS
<1>2. calls[b].op = "otp" /\ calls[b].at = "clear" /\ Answers(b, 200, id)
  BY <1>1 DEF ClearOtp, At
<1>3. TablesStep /\ MailboxOK'
  BY InvTypes, ClearsOtp DEF ClearOtp, clearOtpFields, MailboxOK
<1>4. id \in GivenIds /\ MayEnter(id)
  BY <1>1, <1>2 DEF AccountsInv, CallIsSound, Remembers, At
<1>5. id \in GivenIds' /\ MayEnter(id)'
  BY <1>3, <1>4, InvTypes, StaysTrue DEF TablesStep
<1>6. Moved(b, "answered", Nothing, id, 200)
  BY <1>1, <1>2, <1>3, InvTypes, StillGiven, AnswersMoves DEF Statuses
<1>7. ~ calls'[b].barred
  BY <1>2, <1>6 DEF Moved, AccountsInv, CallIsSound, KeepsOut
<1> QED BY <1>2, <1>3, <1>5, <1>6, <1>7, AnswersWell DEF TokenOps
LEMMA ForgotReadWell ==
    ASSUME AccountsInv, UNCHANGED mailbox, NEW b \in Browsers, ForgotRead(b)
    PROVE  ServesWell(b)
<1>1. PICK id : id = getUserByEmail(Caller(b))
  OBVIOUS
<1>2. TablesStep /\ MailboxOK' /\ rows' = rows /\ lastId' = lastId
  BY InvTypes, ReadsOnly DEF ForgotRead, MailboxOK, userVars
<1>3. calls[b].op = "forgot" /\ calls[b].at = "read"
  BY DEF ForgotRead, At
<1>4. CASE id = Nothing
  <2>1. Fails(b, 404)
    BY <1>1, <1>4 DEF ForgotRead
  <2> QED BY <1>2, <1>3, <2>1, FailsWell DEF Statuses, TokenOps
<1>5. CASE id # Nothing
  <2>1. id \in DOMAIN rows /\ rows[id].email = Address[b]
    BY <1>1, <1>5, InvTypes, ByEmail DEF Caller
  <2>2. id \in Ids /\ id \in GivenIds'
    BY <1>2, <2>1, InvTypes, UsersAssumption DEF UsersTypeOK, Ids, GivenIds
  <2>3. GoesFor(b, "link", id)
    BY <1>1, <1>5 DEF ForgotRead
  <2>4. Moved(b, "link", calls[b].token, id, calls[b].status)
    BY <2>2, <2>3, InvTypes, GoesForMoves DEF Stages
  <2>5. AddressIs(id, Address[b])'
    BY <1>2, <2>1 DEF AddressIs
  <2>6. Remembers(b)'
    BY <1>2, <1>3, <1>5, <2>2, <2>4, <2>5, StillGiven DEF Moved, Remembers, At
  <2> QED BY <1>2, <1>3, <2>4, <2>6, GoesWell DEF Stages, TokenOps
<1> QED BY <1>4, <1>5

\* A link that is found was mailed for the very row that has it.
LEMMA ResetReadWell ==
    ASSUME AccountsInv, UNCHANGED mailbox, NEW b \in Browsers, ResetRead(b)
    PROVE  ServesWell(b)
<1>1. PICK id, token : token = calls[b].token /\ id = getUserByToken(token)
  OBVIOUS
<1>2. TablesStep /\ MailboxOK' /\ mailbox' = mailbox /\ lastId' = lastId
  BY InvTypes, ReadsOnly DEF ResetRead, MailboxOK, userVars
<1>3. calls[b].op = "reset" /\ calls[b].at = "read"
  BY DEF ResetRead, At
<1>4. CASE id = Nothing
  <2>1. Fails(b, 400)
    BY <1>1, <1>4 DEF ResetRead
  <2> QED BY <1>2, <1>3, <2>1, FailsWell DEF Statuses, TokenOps
<1>5. CASE id # Nothing
  <2>1. id \in DOMAIN rows /\ rows[id].resetPasswordToken = token
    BY <1>1, <1>5, InvTypes, ByToken
  <2>2. id \in Ids /\ id \in GivenIds'
    BY <1>2, <2>1, InvTypes, UsersAssumption DEF UsersTypeOK, Ids, GivenIds
  <2>3. GoesFor(b, "write", id)
    BY <1>1, <1>5 DEF ResetRead
  <2>4. Moved(b, "write", token, id, calls[b].status)
    BY <1>1, <2>2, <2>3, InvTypes, GoesForMoves DEF Stages
  <2>5. \E i \in 1..lastId : LinkWasMailed(i, token)
    BY <1>1, <1>3 DEF AccountsInv, CallIsSound, Remembers
  <2>6. LinkWasMailed(id, token)
    BY <2>1, <2>5 DEF LinkWasMailed, AccountsInv, TablesAreSound, MailsAreSound, LinkIsFor
  <2>7. LinkWasMailed(id, token)'
    BY <1>2, <2>6 DEF LinkWasMailed
  <2>8. Remembers(b)'
    BY <1>1, <1>2, <1>3, <2>2, <2>4, <2>7, StillGiven DEF Moved, Remembers, At
  <2> QED BY <1>2, <1>3, <2>4, <2>8, GoesWell DEF Stages, TokenOps
<1> QED BY <1>4, <1>5

LEMMA ResetWriteWell ==
    ASSUME AccountsInv, UNCHANGED mailbox, NEW b \in Browsers, ResetWrite(b)
    PROVE  ServesWell(b)
<1>1. calls[b].op = "reset" /\ calls[b].at = "write" /\ Fails(b, 200)
  BY DEF ResetWrite, At
<1>2. calls[b].new \in Passwords \cup {Nothing}
  BY InvTypes DEF TypeOK, AccountsTypeOK, Call
<1>3. TablesStep /\ MailboxOK'
  BY <1>2, InvTypes, SetsPassword DEF ResetWrite, updatePassword, MailboxOK
<1> QED BY <1>1, <1>3, FailsWell DEF Statuses, TokenOps

LEMMA GoogleReadWell ==
    ASSUME AccountsInv, UNCHANGED mailbox, NEW b \in Browsers, GoogleRead(b)
    PROVE  ServesWell(b)
<1>1. TablesStep /\ MailboxOK'
  BY InvTypes, ReadsOnly DEF GoogleRead, MailboxOK, userVars
<1>2. calls[b].op = "google" /\ calls[b].at = "read"
  BY DEF GoogleRead, At
<1>3. PICK at \in {"insert", "find"} : Goes(b, at)
  BY DEF GoogleRead
<1>4. Moved(b, at, calls[b].token, calls[b].id, calls[b].status)
  BY <1>3, InvTypes, GoesMoves DEF Stages
<1>5. Remembers(b)'
  BY <1>1, <1>2, <1>4, StillGiven DEF Moved, Remembers, At
<1> QED BY <1>1, <1>2, <1>4, <1>5, GoesWell DEF Stages, TokenOps

LEMMA GoogleInsertWell ==
    ASSUME AccountsInv, UNCHANGED mailbox, NEW b \in Browsers, GoogleInsert(b)
    PROVE  ServesWell(b)
<1>1. calls[b].op = "google" /\ calls[b].at = "insert" /\ Goes(b, "find")
  BY DEF GoogleInsert, At
<1>2. Caller(b) \in Emails
  BY AddressAssumption DEF Caller
<1>3. TablesStep /\ MailboxOK'
  BY <1>2, InvTypes, Creates DEF GoogleInsert, MailboxOK
<1>4. Moved(b, "find", calls[b].token, calls[b].id, calls[b].status)
  BY <1>1, InvTypes, GoesMoves DEF Stages
<1>5. Remembers(b)'
  BY <1>1, <1>3, <1>4, StillGiven DEF Moved, Remembers, At
<1> QED BY <1>1, <1>3, <1>4, <1>5, GoesWell DEF Stages, TokenOps

LEMMA GoogleFindWell ==
    ASSUME AccountsInv, UNCHANGED mailbox, NEW b \in Browsers, GoogleFind(b)
    PROVE  ServesWell(b)
<1>1. PICK id : id = getUserByGoogleId(Caller(b))
  OBVIOUS
<1>2. TablesStep /\ MailboxOK' /\ rows' = rows /\ lastId' = lastId
  BY InvTypes, ReadsOnly DEF GoogleFind, MailboxOK, userVars
<1>3. calls[b].op = "google" /\ calls[b].at = "find"
  BY DEF GoogleFind, At
<1>4. CASE id = Nothing
  <2>1. Fails(b, 500)
    BY <1>1, <1>4 DEF GoogleFind
  <2> QED BY <1>2, <1>3, <2>1, FailsWell DEF Statuses, TokenOps
<1>5. CASE id # Nothing
  <2>1. id \in DOMAIN rows /\ rows[id].google
    BY <1>1, <1>5, InvTypes, ByGoogle
  <2>2. id \in Ids /\ id \in GivenIds'
    BY <1>2, <2>1, InvTypes, UsersAssumption DEF UsersTypeOK, Ids, GivenIds
  <2>3. Moved(b, "answered", Nothing, id, 302)
    BY <1>1, <1>3, <1>5, <2>2, InvTypes, AnswersMoves DEF GoogleFind, Statuses
  <2>4. MayEnter(id)'
    BY <1>2, <2>1 DEF MayEnter, Confirmed
  <2>5. ~ calls'[b].barred
    BY <1>3, <2>3 DEF Moved, AccountsInv, CallIsSound, KeepsOut
  <2> QED BY <1>2, <1>3, <2>2, <2>3, <2>4, <2>5, AnswersWell DEF TokenOps
<1> QED BY <1>4, <1>5

(***************************************************************************)
(* The handlers of a user that is signed in.                               *)
(***************************************************************************)

LEMMA SignedFailsWell ==
    ASSUME AccountsInv, TablesStep, MailboxOK', UNCHANGED browser,
           NEW b \in Browsers, calls[b].op \in TokenOps, calls[b].at # "answered",
           NEW status \in Statuses, Fails(b, status),
           calls[b].op = "security" => status # 201 \/ ~ calls[b].barred,
           calls[b].op = "profile" => status = 200 \/ cookie[b] \notin DOMAIN rows'
    PROVE  ServesWell(b)
<1>1. Moved(b, "answered", Nothing, Nothing, status)
  BY InvTypes, FailsMoves
<1>2. ~ OpensSession(calls'[b])
  BY <1>1 DEF Moved, OpensSession, TokenOps
<1>3. Remembers(b)'
  BY <1>1, <1>2 DEF Moved, Remembers, At, GivenIds, GivenTokens, TokenOps
<1>4. KeepsOut(b)'
  BY <1>1, <1>2 DEF Moved, KeepsOut, AccountsInv, CallIsSound
<1>5. CallIsSigned(b)'
  BY <1>1 DEF Moved, CallIsSigned, browser
<1> QED BY <1>1, <1>3, <1>4, <1>5 DEF ServesWell, CallIsSound, Moved

LEMMA ProfileWell ==
    ASSUME AccountsInv, UNCHANGED mailbox, UNCHANGED browser, NEW b \in Browsers, Profile(b)
    PROVE  ServesWell(b)
<1>1. TablesStep /\ MailboxOK' /\ rows' = rows
  BY InvTypes, ReadsOnly DEF Profile, MailboxOK, userVars
<1>2. calls[b].op = "profile" /\ calls[b].at = "act"
  BY DEF Profile, At
<1>3. PICK status \in {200, 404} :
          /\ Fails(b, status)
          /\ status = 404 => getUserById(calls[b].id) = Nothing
  BY DEF Profile
<1>4. calls[b].id = access[b] /\ access[b] # Nothing
  BY <1>2 DEF AccountsInv, CallIsSound, CallIsSigned, TokenOps
<1>5. cookie[b] \in {Nothing, access[b]}
  BY <1>4 DEF AccountsInv, SessionIsSound
<1>6. status = 404 => cookie[b] \notin DOMAIN rows
  BY <1>3, <1>4, <1>5, InvTypes, ById, NothingHere
<1> QED BY <1>1, <1>2, <1>3, <1>6, SignedFailsWell DEF Statuses, TokenOps

LEMMA SecurityReadWell ==
    ASSUME AccountsInv, UNCHANGED mailbox, UNCHANGED browser, NEW b \in Browsers,
           SecurityRead(b)
    PROVE  ServesWell(b)
<1>1. PICK id : id = calls[b].id
  OBVIOUS
<1>2. TablesStep /\ MailboxOK' /\ rows' = rows
  BY InvTypes, ReadsOnly DEF SecurityRead, MailboxOK, userVars
<1>3. calls[b].op = "security" /\ calls[b].at = "act"
  BY DEF SecurityRead, At
<1>4. CASE getUserById(id) = Nothing
  <2>1. Fails(b, 500)
    BY <1>1, <1>4, Zenon DEF SecurityRead
  <2> QED BY <1>2, <1>3, <2>1, SignedFailsWell DEF Statuses, TokenOps
<1>5. CASE getUserById(id) # Nothing
  <2>1. id \in DOMAIN rows /\ getUserById(id) = id
    BY <1>5, InvTypes, ById
  <2>2. CASE ~ MayChangePassword(rows[id], calls[b])
    <3>1. Fails(b, 400)
      BY <1>1, <1>5, <2>1, <2>2, Zenon DEF SecurityRead
    <3> QED BY <1>2, <1>3, <3>1, SignedFailsWell DEF Statuses, TokenOps
  <2>3. CASE MayChangePassword(rows[id], calls[b])
    <3>1. Goes(b, "write")
      BY <1>1, <1>5, <2>1, <2>3, Zenon DEF SecurityRead
    <3>2. /\ Moved(b, "write", calls[b].token, id, calls[b].status)
          /\ calls'[b].barred => Barred(b, [calls[b] EXCEPT !.at = "write"], rows)
      BY <1>1, <1>2, <3>1, InvTypes, GoesMoves DEF Stages
    <3>3. ~ Barred(b, [calls[b] EXCEPT !.at = "write"], rows)
      <4> DEFINE call == [calls[b] EXCEPT !.at = "write"]
      <4>1. /\ call.op = "security" /\ call.id = id /\ call.password = calls[b].password
        BY <1>1, <1>3, InvTypes DEF TypeOK, AccountsTypeOK, Call
      <4> HIDE DEF call
      <4>2. ~ Barred(b, call, rows)
        BY <2>1, <2>3, <4>1, Zenon DEF Barred, MayChangePassword
      <4> QED BY <4>2 DEF call
    <3>4. Remembers(b)'
      BY <1>1, <1>2, <1>3, <3>2, StillGiven DEF Moved, Remembers, At
    <3>5. KeepsOut(b)'
      BY <1>3, <3>2, <3>3 DEF Moved, KeepsOut
    <3>6. CallIsSigned(b)'
      BY <1>1, <1>3, <3>2
         DEF Moved, CallIsSigned, browser, AccountsInv, CallIsSound, TokenOps
    <3> QED BY <1>2, <3>2, <3>4, <3>5, <3>6 DEF ServesWell, CallIsSound, Moved
  <2> QED BY <2>2, <2>3
<1> QED BY <1>4, <1>5

LEMMA SecurityWriteWell ==
    ASSUME AccountsInv, UNCHANGED mailbox, UNCHANGED browser, NEW b \in Browsers,
           SecurityWrite(b)
    PROVE  ServesWell(b)
<1>1. calls[b].op = "security" /\ calls[b].at = "write" /\ Fails(b, 201)
  BY DEF SecurityWrite, At
<1>2. calls[b].new \in Passwords \cup {Nothing}
  BY InvTypes DEF TypeOK, AccountsTypeOK, Call
<1>3. TablesStep /\ MailboxOK'
  BY <1>2, InvTypes, SetsPassword DEF SecurityWrite, updatePassword, MailboxOK
<1>4. ~ calls[b].barred
  BY <1>1 DEF AccountsInv, CallIsSound, KeepsOut
<1> QED BY <1>1, <1>3, <1>4, SignedFailsWell DEF Statuses, TokenOps

LEMMA TwoFactorWell ==
    ASSUME AccountsInv, UNCHANGED mailbox, UNCHANGED browser, NEW b \in Browsers, TwoFactor(b)
    PROVE  ServesWell(b)
<1>1. PICK status \in {200, 404} : Fails(b, status)
  BY DEF TwoFactor
<1>2. calls[b].op \in {"enable2fa", "disable2fa"} /\ calls[b].at = "act"
  BY DEF TwoFactor
<1>3. TablesStep /\ MailboxOK'
  <2>1. CASE Has2fa(calls[b].id)
    <3>1. PICK enabled \in BOOLEAN : Set(calls[b].id, "two_factor_enabled", enabled)
      BY <2>1 DEF TwoFactor, update2fa
    <3> QED BY <3>1, InvTypes, SetsTwoFactor DEF TwoFactor, MailboxOK
  <2>2. CASE ~ Has2fa(calls[b].id)
    BY <2>2, InvTypes, ReadsOnly DEF TwoFactor, update2fa, MailboxOK, userVars
  <2> QED BY <2>1, <2>2
<1> QED BY <1>1, <1>2, <1>3, SignedFailsWell DEF Statuses, TokenOps

LEMMA DeleteAccountWell ==
    ASSUME AccountsInv, UNCHANGED mailbox, UNCHANGED browser, NEW b \in Browsers,
           DeleteAccount(b)
    PROVE  ServesWell(b)
<1>1. calls[b].op = "delete" /\ calls[b].at = "act" /\ Fails(b, 200)
  BY DEF DeleteAccount, At
<1>2. TablesStep /\ MailboxOK'
  BY InvTypes, Deletes DEF DeleteAccount, MailboxOK
<1> QED BY <1>1, <1>2, SignedFailsWell DEF Statuses, TokenOps

LEMMA ServeKeeps ==
    ASSUME AccountsInv, NEW b \in Browsers, Serve(b), UNCHANGED browser
    PROVE  AccountsInv'
<1>1. ServesWell(b)
  BY RegisterReadWell, RegisterInsertWell, LoginReadWell, SaveCodeWell, SaveOtpWell,
     FindByEmailWell, CheckCodeWell, SetVerifiedWell, ClearCodeWell, CheckOtpWell,
     ClearOtpWell, ForgotReadWell, ForgotSaveWell, ResetReadWell, ResetWriteWell,
     GoogleReadWell, GoogleInsertWell, GoogleFindWell, ProfileWell, SecurityReadWell,
     SecurityWriteWell, TwoFactorWell, DeleteAccountWell, MailWell
     DEF Serve
<1> QED BY <1>1, HandlerKeeps DEF ServesWell
(***************************************************************************)
(* The pages.                                                              *)
(***************************************************************************)

LEMMA PageKeeps ==
    ASSUME AccountsInv, UNCHANGED <<userVars, mailbox>>, TypeOK', NEW b \in Browsers,
           Bystanders(b), \A x \in Browsers \ {b} : BrowserStays(x),
           CallIsSound(b)', SessionIsSound(b)'
    PROVE  AccountsInv'
<1>1. TablesStep
  BY InvTypes, ReadsOnly
<1>2. TablesAreSound'
  BY <1>1 DEF TablesAreSound, TablesStep
<1>3. \A x \in Browsers \ {b} : CallIsSound(x)' /\ SessionIsSound(x)'
  BY <1>1, CallStays, SessionStays DEF Bystanders
<1> QED BY <1>2, <1>3 DEF AccountsInv

LEMMA OthersWait ==
    ASSUME NEW b, \A x \in Browsers \ {b} : calls'[x] = calls[x] PROVE Bystanders(b)
  BY DEF Bystanders, Follows

\* What a call is begun with.
LEMMA BegunWell ==
    ASSUME AccountsInv, UNCHANGED <<userVars, mailbox>>, NEW b \in Browsers,
           NEW op \in PublicOps \cup TokenOps, NEW password \in Passwords \cup {Nothing},
           NEW new \in Passwords \cup {Nothing}, NEW token \in GivenTokens,
           NEW id \in GivenIds,
           calls'[b] = Begun(b, op, password, new, token, id),
           op = "verify" => token = Nothing \/ Mailed("code", token, Address[b]),
           op = "reset" => \E i \in 1..lastId : LinkWasMailed(i, token),
           op \in TokenOps => id = access'[b],
           op = "profile" => id # Nothing
    PROVE  CallIsSound(b)' /\ calls'[b] \in Call
<1>1. rows' = rows /\ lastId' = lastId /\ lastToken' = lastToken /\ mailbox' = mailbox
  BY DEF userVars
<1>2. id \in Ids \cup {Nothing} /\ token \in Tokens \cup {Nothing}
  BY InvTypes, UsersAssumption DEF UsersTypeOK, GivenIds, GivenTokens, Ids, Tokens
<1>3. PICK call : call = calls'[b]
  OBVIOUS
<1>4. /\ call \in Call
      /\ call.op = op /\ call.at = IF op \in TokenOps THEN "auth" ELSE "read"
      /\ call.token = token /\ call.id = id /\ ~ call.again
      /\ call.barred => op \in {"login", "security"}
  BY <1>2, <1>3, BegunIs
<1>5. call.at \in {"auth", "read"} /\ (call.at = "auth" => op \in TokenOps)
  BY <1>4
<1>6. (op = "verify" => token = Nothing \/ Mailed("code", token, Address[b])')
      /\ (op = "reset" => (\E i \in 1..lastId : LinkWasMailed(i, token))')
  BY <1>1 DEF Mailed, LinkWasMailed
<1>7. Remembers(b)'
  BY <1>1, <1>3, <1>4, <1>5, <1>6 DEF Remembers, At, GivenIds, GivenTokens
<1>8. KeepsOut(b)'
  BY <1>3, <1>4, <1>5 DEF KeepsOut
<1>9. CallIsSigned(b)'
  BY <1>3, <1>4, <1>5 DEF CallIsSigned, TokenOps
<1> QED BY <1>3, <1>4, <1>7, <1>8, <1>9 DEF CallIsSound

LEMMA StartsWell ==
    ASSUME AccountsInv, UNCHANGED <<userVars, mailbox, browser>>, NEW b \in Browsers,
           NEW op \in (PublicOps \cup TokenOps) \ {"profile"},
           NEW password \in Passwords \cup {Nothing},
           NEW new \in Passwords \cup {Nothing}, NEW token,
           Starts(b, op, password, new, token),
           op = "verify" => token = Nothing \/ Mailed("code", token, Address[b]),
           op = "reset" => \E i \in 1..lastId : LinkWasMailed(i, token),
           op = "otp" => token \in GivenTokens,
           op \notin {"verify", "reset", "otp"} => token = Nothing
    PROVE  AccountsInv'
<1>1. PICK id : id = IF op \in TokenOps THEN access[b] ELSE Nothing
  OBVIOUS
<1>2. id \in GivenIds
  BY <1>1 DEF AccountsInv, SessionIsSound, GivenIds
<1>3. token \in GivenTokens
  <2>1. \A m \in mailbox : m.token \in GivenTokens
    BY DEF AccountsInv, TablesAreSound, MailsAreSound, GivenTokens
  <2>2. Nothing \in GivenTokens
    BY DEF GivenTokens
  <2> QED BY <2>1, <2>2 DEF Mailed, LinkWasMailed
<1>4. calls \in [Browsers -> Call]
  BY InvTypes DEF TypeOK, AccountsTypeOK
<1>5. calls' = [calls EXCEPT ![b] = Begun(b, op, password, new, token, id)]
  BY <1>1 DEF Starts
<1>6. /\ calls'[b] = Begun(b, op, password, new, token, id)
      /\ \A x \in Browsers \ {b} : calls'[x] = calls[x]
  BY <1>4, <1>5
<1>7. /\ page' = page /\ link' = link /\ access' = access /\ live' = live /\ cookie' = cookie
  BY DEF browser
<1>8. CallIsSound(b)' /\ calls'[b] \in Call
  BY <1>1, <1>2, <1>3, <1>6, <1>7, BegunWell
<1>9. \A x \in Browsers : BrowserStays(x)
  BY <1>7 DEF BrowserStays
<1>10. calls' \in [Browsers -> Call]
  BY <1>4, <1>5, <1>8
<1>11. TypeOK'
  BY <1>7, <1>10, InvTypes DEF TypeOK, AccountsTypeOK, UsersTypeOK, userVars
<1>12. SessionIsSound(b)'
  BY <1>9, InvTypes, ReadsOnly, SessionStays
<1> QED BY <1>6, <1>8, <1>9, <1>11, <1>12, OthersWait, PageKeeps

\* The code or the link of a mail.
LEMMA ReceivedIs ==
    ASSUME AccountsInv, NEW b \in Browsers, NEW kind, NEW token \in Received(b, kind)
    PROVE  /\ Mailed(kind, token, Address[b]) /\ token \in GivenTokens /\ token \in Tokens
           /\ kind = "link" => \E id \in 1..lastId : LinkWasMailed(id, token)
<1>1. PICK m \in mailbox : m.kind = kind /\ m.email = Address[b] /\ m.token = token
  BY DEF Received
<1>2. m.id \in 1..lastId /\ m.token \in 1..lastToken
  BY DEF AccountsInv, TablesAreSound, MailsAreSound
<1>3. m.token \in Tokens
  BY InvTypes DEF MailboxOK
<1>4. token \in GivenTokens
  BY <1>1, <1>2 DEF GivenTokens
<1> QED BY <1>1, <1>2, <1>3, <1>4 DEF Mailed, LinkWasMailed

LEMMA SubmitKeeps ==
    ASSUME AccountsInv, NEW b \in Browsers, Submit(b) PROVE AccountsInv'
<1>1. UNCHANGED <<userVars, mailbox, browser>>
  BY DEF Submit
<1>2. CASE handleSubmit(b)
  BY <1>1, <1>2, StartsWell, PasswordsAssumption DEF handleSubmit, PublicOps
<1>3. CASE continueWithGoogle(b)
  BY <1>1, <1>3, StartsWell DEF continueWithGoogle, PublicOps
<1>4. CASE EmailVerification(b)
  BY <1>1, <1>4, StartsWell, ReceivedIs DEF EmailVerification, PublicOps
<1>5. CASE verifyOTP(b)
  BY <1>1, <1>5, StartsWell, ReceivedIs DEF verifyOTP, PublicOps, GivenTokens
<1>6. CASE sendResetLink(b)
  BY <1>1, <1>6, StartsWell DEF sendResetLink, PublicOps
<1>7. CASE handleResetPassword(b)
  <2>1. \E id \in 1..lastId : LinkWasMailed(id, link[b])
    BY <1>7 DEF handleResetPassword, AccountsInv, SessionIsSound
  <2> QED BY <1>1, <1>7, <2>1, StartsWell, PasswordsAssumption DEF handleResetPassword, PublicOps
<1>8. CASE SavePassword(b)
  BY <1>1, <1>8, StartsWell, PasswordsAssumption DEF SavePassword, TokenOps
<1>9. CASE twofaHandler(b)
  BY <1>1, <1>9, StartsWell DEF twofaHandler, TokenOps
<1>10. CASE Delete(b)
  BY <1>1, <1>10, StartsWell DEF Delete, TokenOps
<1> QED
  BY <1>2, <1>3, <1>4, <1>5, <1>6, <1>7, <1>8, <1>9, <1>10 DEF Submit
LEMMA IdleIsSound ==
    ASSUME UsersTypeOK', NEW b, calls'[b] = Idle PROVE CallIsSound(b)'
<1>1. /\ calls'[b].op = Nothing /\ calls'[b].at = "idle" /\ calls'[b].id = Nothing
      /\ calls'[b].token = Nothing /\ ~ calls'[b].barred
  BY DEF Idle
<1>2. Remembers(b)'
  BY <1>1 DEF Remembers, At, GivenIds, GivenTokens
<1>3. KeepsOut(b)' /\ CallIsSigned(b)'
  BY <1>1, OpsAssumption DEF KeepsOut, CallIsSigned, TokenOps
<1> QED BY <1>2, <1>3 DEF CallIsSound

LEMMA IdleIsCall == Idle \in Call
  BY DEF Idle, Call, Stages

\* The pages while nothing is sent.
LEMMA BrowserTypes ==
    ASSUME TypeOK
    PROVE  /\ page \in [Browsers -> AuthPaths \cup {"Home"}]
           /\ link \in [Browsers -> Tokens \cup {Nothing}]
           /\ access \in [Browsers -> Ids \cup {Nothing}]
           /\ cookie \in [Browsers -> Ids \cup {Nothing}]
           /\ live \in [Browsers -> BOOLEAN] /\ calls \in [Browsers -> Call]
  BY DEF TypeOK, AccountsTypeOK

LEMMA AuthorizeKeeps ==
    ASSUME AccountsInv, NEW b \in Browsers, Authorize(b) PROVE AccountsInv'
<1>1. /\ TablesStep /\ MailboxOK' /\ UNCHANGED browser
      /\ rows' = rows /\ lastId' = lastId /\ lastToken' = lastToken
  BY InvTypes, ReadsOnly DEF Authorize, MailboxOK, userVars
<1>2. calls[b].at = "auth" /\ CallIsSound(b)
  BY DEF Authorize, AccountsInv
<1>3. PICK stage \in {"act", "refresh"} : Goes(b, stage)
  BY <1>2 DEF Authorize, Refreshes, CallIsSound, CallIsSigned
<1>4. Moved(b, stage, calls[b].token, calls[b].id, calls[b].status)
  BY <1>3, InvTypes, GoesMoves DEF Stages
<1>5. Remembers(b)'
  BY <1>1, <1>4, StillGiven DEF Moved, Remembers, At
<1>6. KeepsOut(b)'
  BY <1>2, <1>4 DEF Moved, KeepsOut, CallIsSound
<1>7. CallIsSigned(b)'
  BY <1>1, <1>2, <1>4 DEF Moved, CallIsSigned, CallIsSound, browser
<1> QED BY <1>1, <1>4, <1>5, <1>6, <1>7, HandlerKeeps DEF Moved, CallIsSound

LEMMA RefreshKeeps ==
    ASSUME AccountsInv, NEW b \in Browsers, Refresh(b) PROVE AccountsInv'
<1>1. /\ TablesStep /\ MailboxOK' /\ UNCHANGED <<userVars, mailbox>>
      /\ rows' = rows /\ lastId' = lastId /\ lastToken' = lastToken
      /\ page' = page /\ link' = link /\ cookie' = cookie
  BY InvTypes, ReadsOnly DEF Refresh, MailboxOK, userVars
<1>2. calls[b].at = "refresh" /\ CallIsSound(b) /\ SessionIsSound(b)
  BY DEF Refresh, AccountsInv
<1>3. CASE getUserById(cookie[b]) = Nothing
  <2>1. Fails(b, 403) /\ UNCHANGED browser
    BY <1>1, <1>3 DEF Refresh, browser
  <2>2. cookie[b] \notin DOMAIN rows
    BY <1>3, InvTypes, ById, NothingHere
  <2>3. Moved(b, "answered", Nothing, Nothing, 403)
    BY <1>2, <2>1, InvTypes, FailsMoves DEF Statuses
  <2>4. ~ OpensSession(calls'[b])
    BY <2>3 DEF Moved, OpensSession
  <2>5. Remembers(b)'
    BY <2>3, <2>4 DEF Moved, Remembers, At, GivenIds, GivenTokens
  <2>6. KeepsOut(b)'
    BY <1>2, <2>3, <2>4 DEF Moved, KeepsOut, CallIsSound
  <2>7. CallIsSigned(b)'
    BY <1>1, <2>2, <2>3 DEF Moved, CallIsSigned
  <2> QED BY <1>1, <2>1, <2>3, <2>5, <2>6, <2>7, HandlerKeeps DEF Moved, CallIsSound
<1>4. CASE getUserById(cookie[b]) # Nothing
  <2> DEFINE c == calls[b]
             id == cookie[b]
             call == [c EXCEPT !.at = "auth", !.id = id, !.again = TRUE]
  <2>1. id \in DOMAIN rows /\ id # Nothing /\ id \in Ids
    BY <1>4, InvTypes, BrowserTypes, ById, NothingHere
  <2>2. /\ access' = [access EXCEPT ![b] = id] /\ live' = [live EXCEPT ![b] = TRUE]
        /\ Becomes(b, call)
    BY <1>4 DEF Refresh
  <2>3. c \in Call /\ call = [c EXCEPT !.at = "auth", !.id = id, !.again = TRUE]
    BY InvTypes, BrowserTypes
  <2> HIDE DEF c, call
  <2>4. call = [op |-> c.op, at |-> "auth", password |-> c.password, new |-> c.new,
                token |-> c.token, id |-> id, again |-> TRUE, status |-> c.status,
                barred |-> c.barred]
    BY <2>3 DEF Call
  <2>5. /\ call \in Call
        /\ call.op = c.op /\ call.at = "auth" /\ call.token = c.token /\ call.id = id
        /\ call.barred = c.barred
    <3>1. c \in Call
      BY <2>3
    <3> HIDE DEF id
    <3> QED BY <2>1, <2>4, <3>1 DEF Call, Stages
  <2>6. /\ calls' \in [Browsers -> Call] /\ Bystanders(b) /\ calls'[b] = call
    BY <2>2, <2>5, InvTypes, BecomesMoves
  <2>7. access'[b] = id /\ live'[b] /\ cookie'[b] = id
    BY <1>1, <2>2, InvTypes, BrowserTypes
  <2>8. TypeOK'
    <3>1. /\ access' \in [Browsers -> Ids \cup {Nothing}] /\ live' \in [Browsers -> BOOLEAN]
      BY <2>1, <2>2, InvTypes, BrowserTypes
    <3> QED BY <1>1, <2>6, <3>1, InvTypes, BrowserTypes
            DEF TypeOK, AccountsTypeOK, UsersTypeOK
  <2>9. \A x \in Browsers \ {b} : BrowserStays(x)
    BY <1>1, <2>2, InvTypes, BrowserTypes DEF BrowserStays
  <2>10. id \in GivenIds /\ MayEnter(id) /\ c.token \in GivenTokens
    BY <1>2 DEF SessionIsSound, CallIsSound, Remembers, c
  <2>11. Remembers(b)'
    BY <1>1, <2>5, <2>6, <2>10 DEF Remembers, At, GivenIds, GivenTokens
  <2>12. KeepsOut(b)'
    BY <1>2, <2>5, <2>6 DEF KeepsOut, CallIsSound, c
  <2>13. CallIsSigned(b)'
    BY <2>1, <2>5, <2>6, <2>7 DEF CallIsSigned
  <2>14. SessionIsSound(b)'
    BY <1>1, <1>2, <2>7, <2>10 DEF SessionIsSound, GivenIds, MayEnter, LinkWasMailed
  <2> QED BY <1>1, <2>6, <2>8, <2>9, <2>11, <2>12, <2>13, <2>14, PageKeeps DEF CallIsSound
<1> QED BY <1>3, <1>4

LEMMA BreaksKeeps ==
    ASSUME AccountsInv, NEW b \in Browsers, Breaks(b) PROVE AccountsInv'
<1>1. TablesStep /\ MailboxOK' /\ UNCHANGED browser
  BY InvTypes, ReadsOnly DEF Breaks, MailboxOK, userVars
<1>2. CallIsSound(b)
  BY DEF AccountsInv
<1>3. Moved(b, "answered", Nothing, Nothing, 0)
  BY InvTypes, FailsMoves DEF Breaks, Statuses
<1>4. ~ OpensSession(calls'[b])
  BY <1>3 DEF Moved, OpensSession
<1>5. Remembers(b)'
  BY <1>3, <1>4 DEF Moved, Remembers, At, GivenIds, GivenTokens
<1>6. KeepsOut(b)'
  BY <1>2, <1>3, <1>4 DEF Moved, KeepsOut, CallIsSound
<1>7. CallIsSigned(b)'
  BY <1>3 DEF Moved, CallIsSigned
<1> QED BY <1>1, <1>3, <1>5, <1>6, <1>7, HandlerKeeps DEF Moved, CallIsSound

LEMMA ExpireKeeps ==
    ASSUME AccountsInv, NEW id \in Ids,
           NEW column \in {"otp_code", "verification_code", "resetPasswordToken"},
           Expire(id, column), UNCHANGED browser
    PROVE  AccountsInv'
<1>1. /\ Set(id, column, Nothing) /\ UNCHANGED <<lastId, lastToken, mailbox, calls>>
  BY DEF Expire
<1>2. TablesStep
  BY <1>1, InvTypes, ClearsOtp, ClearsVerification, ClearsRestoration
<1>3. /\ page' = page /\ link' = link /\ access' = access /\ live' = live /\ cookie' = cookie
  BY DEF browser
<1>4. TypeOK'
  BY <1>1, <1>2, <1>3, InvTypes DEF TypeOK, AccountsTypeOK, TablesStep
<1>5. TablesAreSound'
  BY <1>2, <1>4 DEF TablesAreSound, TablesStep
<1>6. \A x \in Browsers : BrowserStays(x) /\ Follows(calls[x], calls'[x])
  BY <1>1, <1>3 DEF BrowserStays, Follows
<1>7. \A x \in Browsers : CallIsSound(x)' /\ SessionIsSound(x)'
  BY <1>2, <1>6, CallStays, SessionStays
<1> QED BY <1>5, <1>7 DEF AccountsInv

LEMMA TokensExpire ==
    ASSUME AccountsInv, NEW b \in Browsers, ExpireAccess(b) \/ ExpireCookie(b)
    PROVE  AccountsInv'
<1>1. /\ UNCHANGED <<userVars, mailbox, calls, page, link, access>>
      /\ rows' = rows /\ lastId' = lastId /\ lastToken' = lastToken
  BY DEF ExpireAccess, ExpireCookie, userVars
<1>2. CallIsSound(b) /\ SessionIsSound(b)
  BY DEF AccountsInv
<1>3. TypeOK'
  BY <1>1, InvTypes, BrowserTypes
     DEF ExpireAccess, ExpireCookie, TypeOK, AccountsTypeOK, UsersTypeOK
<1>4. \A x \in Browsers \ {b} : BrowserStays(x)
  BY <1>1, InvTypes, BrowserTypes DEF ExpireAccess, ExpireCookie, BrowserStays
<1>5. cookie'[b] = cookie[b] \/ (cookie'[b] = Nothing /\ calls[b].at = "refresh")
  BY InvTypes, BrowserTypes DEF ExpireAccess, ExpireCookie
<1>6. live'[b] = live[b] \/ ~ calls[b].again
  BY InvTypes, BrowserTypes DEF ExpireAccess, ExpireCookie
<1>7. Remembers(b)'
  BY <1>1, <1>2
     DEF CallIsSound, Remembers, At, GivenIds, GivenTokens, CodeIsFor, LinkIsFor, AddressIs,
         Mailed, CodeWasMailed, LinkWasMailed, MayEnter
<1>8. KeepsOut(b)'
  BY <1>1, <1>2 DEF CallIsSound, KeepsOut
<1>9. CallIsSigned(b)'
  BY <1>1, <1>2, <1>5, <1>6 DEF CallIsSound, CallIsSigned
<1>10. SessionIsSound(b)'
  BY <1>1, <1>2, <1>5, InvTypes, NothingHere
     DEF SessionIsSound, GivenIds, MayEnter, LinkWasMailed
<1> QED BY <1>1, <1>3, <1>4, <1>7, <1>8, <1>9, <1>10, OthersWait, PageKeeps DEF CallIsSound
\* A page of the application is entered with a token or without one.
LEMMA EntersWell ==
    ASSUME AccountsInv, UNCHANGED <<userVars, mailbox>>, NEW b \in Browsers,
           NEW token \in GivenIds, Enter(b, token), access'[b] = token
    PROVE  /\ CallIsSound(b)' /\ calls' \in [Browsers -> Call] /\ Bystanders(b)
           /\ page' \in [Browsers -> AuthPaths \cup {"Home"}] /\ page'[b] # "reset-password"
           /\ \A x \in Browsers \ {b} : page'[x] = page[x]
<1>1. UsersTypeOK'
  BY InvTypes, ReadsOnly DEF TablesStep
<1>2. CASE token = Nothing
  <2>1. /\ page' = [page EXCEPT ![b] = "auth"] /\ calls' = [calls EXCEPT ![b] = Idle]
    BY <1>2 DEF Enter
  <2>2. /\ calls'[b] = Idle /\ calls' \in [Browsers -> Call]
        /\ \A x \in Browsers \ {b} : calls'[x] = calls[x]
    BY <2>1, IdleIsCall, InvTypes, BrowserTypes
  <2>3. /\ page' \in [Browsers -> AuthPaths \cup {"Home"}] /\ page'[b] # "reset-password"
        /\ \A x \in Browsers \ {b} : page'[x] = page[x]
    BY <2>1, InvTypes, BrowserTypes DEF AuthPaths
  <2> QED BY <1>1, <2>2, <2>3, IdleIsSound, OthersWait
<1>3. CASE token # Nothing
  <2> DEFINE call == Begun(b, "profile", Nothing, Nothing, Nothing, token)
  <2>1. /\ page' = [page EXCEPT ![b] = "Home"] /\ calls' = [calls EXCEPT ![b] = call]
    BY <1>3 DEF Enter
  <2> HIDE DEF call
  <2>2. /\ calls'[b] = call /\ \A x \in Browsers \ {b} : calls'[x] = calls[x]
    BY <2>1, InvTypes, BrowserTypes
  <2>3. CallIsSound(b)' /\ calls'[b] \in Call
    <3>1. /\ calls'[b] = Begun(b, "profile", Nothing, Nothing, Nothing, token)
          /\ Nothing \in GivenTokens
          /\ "profile" \in PublicOps \cup TokenOps /\ Nothing \in Passwords \cup {Nothing}
      BY <2>2 DEF call, TokenOps, GivenTokens
    <3> QED BY <1>3, <3>1, BegunWell
  <2>4. calls' \in [Browsers -> Call]
    BY <2>1, <2>2, <2>3, InvTypes, BrowserTypes
  <2>5. /\ page' \in [Browsers -> AuthPaths \cup {"Home"}] /\ page'[b] # "reset-password"
        /\ \A x \in Browsers \ {b} : page'[x] = page[x]
    BY <2>1, InvTypes, BrowserTypes DEF AuthPaths
  <2> QED BY <2>2, <2>3, <2>4, <2>5, OthersWait
<1> QED BY <1>2, <1>3

LEMMA NextPageIs ==
    ASSUME NEW call, NEW path
    PROVE  NextPage(call, path) \in {path, "email/verify", "2fa/verify", "email-sent", "auth"}
  BY ZenonT(40) DEF NextPage

LEMMA ReceiveKeeps ==
    ASSUME AccountsInv, NEW b \in Browsers, Receive(b) PROVE AccountsInv'
<1>1. /\ UNCHANGED <<userVars, mailbox>> /\ UsersTypeOK' /\ link' = link
      /\ rows' = rows /\ lastId' = lastId /\ lastToken' = lastToken /\ mailbox' = mailbox
  BY InvTypes, ReadsOnly DEF Receive, TablesStep, userVars
<1>2. calls[b].at = "answered" /\ CallIsSound(b) /\ SessionIsSound(b)
  BY DEF Receive, AccountsInv
<1>3. CASE OpensSession(calls[b])
  <2>1. PICK id : id = calls[b].id
    OBVIOUS
  <2>2. id \in GivenIds /\ MayEnter(id) /\ id \in Ids \cup {Nothing}
    BY <1>2, <1>3, <2>1, InvTypes, BrowserTypes DEF CallIsSound, Remembers, Call
  <2>3. /\ access' = [access EXCEPT ![b] = id] /\ live' = [live EXCEPT ![b] = TRUE]
        /\ cookie' = [cookie EXCEPT ![b] = id] /\ Enter(b, id)
    BY <1>3, <2>1 DEF Receive
  <2>4. /\ access'[b] = id /\ cookie'[b] = id
        /\ access' \in [Browsers -> Ids \cup {Nothing}]
        /\ cookie' \in [Browsers -> Ids \cup {Nothing}] /\ live' \in [Browsers -> BOOLEAN]
    BY <2>2, <2>3, InvTypes, BrowserTypes
  <2>5. /\ CallIsSound(b)' /\ calls' \in [Browsers -> Call] /\ Bystanders(b)
        /\ page' \in [Browsers -> AuthPaths \cup {"Home"}] /\ page'[b] # "reset-password"
        /\ \A x \in Browsers \ {b} : page'[x] = page[x]
    BY <1>1, <2>2, <2>3, <2>4, EntersWell
  <2>6. TypeOK'
    BY <1>1, <2>4, <2>5, InvTypes, BrowserTypes DEF TypeOK, AccountsTypeOK
  <2>7. \A x \in Browsers \ {b} : BrowserStays(x)
    BY <1>1, <2>3, <2>5, InvTypes, BrowserTypes DEF BrowserStays
  <2>8. SessionIsSound(b)'
    BY <1>1, <2>2, <2>4, <2>5 DEF SessionIsSound, GivenIds, MayEnter
  <2> QED BY <1>1, <2>5, <2>6, <2>7, <2>8, PageKeeps
<1>4. CASE ~ OpensSession(calls[b])
  <2>1. PICK path : path = NextPage(calls[b], page[b])
    OBVIOUS
  <2>2. path \in {page[b], "email/verify", "2fa/verify", "email-sent", "auth"}
    BY <2>1, NextPageIs
  <2>3. /\ page' = [page EXCEPT ![b] = path] /\ calls' = [calls EXCEPT ![b] = Idle]
        /\ cookie' = cookie
        /\ \/ access' = [access EXCEPT ![b] = Nothing] /\ live' = [live EXCEPT ![b] = FALSE]
           \/ access' = access /\ live' = live
    BY <1>4, <2>1 DEF Receive
  <2>4. /\ calls'[b] = Idle /\ calls' \in [Browsers -> Call]
        /\ \A x \in Browsers \ {b} : calls'[x] = calls[x]
    BY <2>3, IdleIsCall, InvTypes, BrowserTypes
  <2>5. page'[b] = path /\ (access'[b] = Nothing \/ access'[b] = access[b])
    BY <2>3, InvTypes, BrowserTypes
  <2>6. TypeOK'
    <3>1. page' \in [Browsers -> AuthPaths \cup {"Home"}]
      BY <2>2, <2>3, InvTypes, BrowserTypes DEF AuthPaths
    <3>2. access' \in [Browsers -> Ids \cup {Nothing}] /\ live' \in [Browsers -> BOOLEAN]
      BY <2>3, InvTypes, BrowserTypes
    <3> QED BY <1>1, <2>3, <2>4, <3>1, <3>2, InvTypes, BrowserTypes DEF TypeOK, AccountsTypeOK
  <2>7. \A x \in Browsers \ {b} : BrowserStays(x)
    BY <1>1, <2>3, InvTypes, BrowserTypes DEF BrowserStays
  <2>8. SessionIsSound(b)'
    BY <1>1, <1>2, <2>2, <2>3, <2>5, InvTypes, NothingHere
       DEF SessionIsSound, GivenIds, MayEnter, LinkWasMailed
  <2>9. CallIsSound(b)'
    BY <1>1, <2>4, IdleIsSound
  <2> QED BY <1>1, <2>4, <2>6, <2>7, <2>8, <2>9, OthersWait, PageKeeps
<1> QED BY <1>3, <1>4

LEMMA VisitKeeps ==
    ASSUME AccountsInv, NEW b \in Browsers, NEW path \in AuthPaths \cup {"Home"}, Visit(b, path)
    PROVE  AccountsInv'
<1>1. /\ UNCHANGED <<userVars, mailbox>> /\ UsersTypeOK'
      /\ rows' = rows /\ lastId' = lastId /\ lastToken' = lastToken /\ mailbox' = mailbox
      /\ access' = access /\ live' = live /\ cookie' = cookie /\ calls[b] = Idle
  BY InvTypes, ReadsOnly DEF Visit, TablesStep, userVars
<1>2. SessionIsSound(b)
  BY DEF AccountsInv
<1>3. CASE path = "Home" /\ Enter(b, access[b]) /\ link' = [link EXCEPT ![b] = Nothing]
  <2>1. PICK token : token = access[b]
    OBVIOUS
  <2>2. token \in GivenIds
    BY <1>2, <2>1 DEF SessionIsSound
  <2>3. /\ CallIsSound(b)' /\ calls' \in [Browsers -> Call] /\ Bystanders(b)
        /\ page' \in [Browsers -> AuthPaths \cup {"Home"}] /\ page'[b] # "reset-password"
        /\ \A x \in Browsers \ {b} : page'[x] = page[x]
    BY <1>1, <1>3, <2>1, <2>2, EntersWell
  <2>4. TypeOK'
    BY <1>1, <1>3, <2>3, InvTypes, BrowserTypes DEF TypeOK, AccountsTypeOK
  <2>5. \A x \in Browsers \ {b} : BrowserStays(x)
    BY <1>1, <1>3, <2>3, InvTypes, BrowserTypes DEF BrowserStays
  <2>6. SessionIsSound(b)'
    BY <1>1, <1>2, <2>3 DEF SessionIsSound, GivenIds, MayEnter
  <2> QED BY <1>1, <2>3, <2>4, <2>5, <2>6, PageKeeps
<1>4. ASSUME calls' = calls,
             page' = [page EXCEPT ![b] = path],
             NEW token \in Tokens \cup {Nothing}, link' = [link EXCEPT ![b] = token],
             path = "reset-password" => \E id \in 1..lastId : LinkWasMailed(id, token)
      PROVE  AccountsInv'
  <2>1. page'[b] = path /\ link'[b] = token
    BY <1>4, InvTypes, BrowserTypes
  <2>2. TypeOK'
    BY <1>1, <1>4, InvTypes, BrowserTypes DEF TypeOK, AccountsTypeOK
  <2>3. \A x \in Browsers \ {b} : BrowserStays(x)
    BY <1>1, <1>4, InvTypes, BrowserTypes DEF BrowserStays
  <2>4. SessionIsSound(b)'
    BY <1>1, <1>2, <1>4, <2>1 DEF SessionIsSound, GivenIds, MayEnter, LinkWasMailed
  <2>5. CallIsSound(b)'
    BY <1>1, <1>4, IdleIsSound
  <2> QED BY <1>1, <1>4, <2>2, <2>3, <2>4, <2>5, OthersWait, PageKeeps
<1>5. CASE /\ path \in {"auth", "forgot-password"}
           /\ page' = [page EXCEPT ![b] = path] /\ link' = [link EXCEPT ![b] = Nothing]
           /\ UNCHANGED calls
  BY <1>4, <1>5
<1>6. CASE /\ path = "reset-password"
           /\ \E token \in Received(b, "link") : link' = [link EXCEPT ![b] = token]
           /\ page' = [page EXCEPT ![b] = path]
           /\ UNCHANGED calls
  BY <1>4, <1>6, ReceivedIs
<1> QED BY <1>3, <1>5, <1>6 DEF Visit

(***************************************************************************)
(* The invariant holds.                                                    *)
(***************************************************************************)

LEMMA AccountsStart == Init => AccountsInv
<1> SUFFICES ASSUME Init PROVE AccountsInv
  OBVIOUS
<1>1. /\ calls \in [Browsers -> Call]
      /\ page \in [Browsers -> AuthPaths \cup {"Home"}]
      /\ link \in [Browsers -> Tokens \cup {Nothing}]
      /\ access \in [Browsers -> Ids \cup {Nothing}] /\ cookie \in [Browsers -> Ids \cup {Nothing}]
      /\ live \in [Browsers -> BOOLEAN]
  BY IdleIsCall DEF Init, AuthPaths
<1>2. MaxUsers >= 1 /\ MaxTokens >= 1
  BY UsersAssumption
<1>3. TablesAreSound
  <2>1. CASE rows = <<>> /\ lastId = 0 /\ lastToken = 0 /\ mailbox = {}
    <3>1. DOMAIN rows = {}
      BY <2>1
    <3>2. RowsAreSound /\ MailsAreSound
      BY <2>1, <3>1 DEF RowsAreSound, MailsAreSound
    <3>3. UsersTypeOK
      BY <2>1, <3>1, UsersAssumption DEF UsersTypeOK
    <3> QED BY <1>1, <2>1, <3>2, <3>3 DEF TablesAreSound, TypeOK, AccountsTypeOK
  <2>2. ASSUME NEW email \in Emails, NEW factor \in BOOLEAN,
               rows = [id \in {1} |-> [NewRow(email, FirstPassword, FALSE) EXCEPT
                                         !.verified = TRUE, !.two_factor_enabled = factor]],
               lastId = 1, lastToken = 1,
               mailbox = {[kind |-> "code", email |-> email, id |-> 1, token |-> 1]}
        PROVE  TablesAreSound
    <3> DEFINE new == NewRow(email, FirstPassword, FALSE)
               row == [new EXCEPT !.verified = TRUE, !.two_factor_enabled = factor]
               m == [kind |-> "code", email |-> email, id |-> 1, token |-> 1]
    <3>1. /\ new \in Row /\ new.email = email /\ new.otp_code = Nothing
          /\ new.verification_code = Nothing /\ new.resetPasswordToken = Nothing
      BY PasswordsAssumption DEF NewRow, Row
    <3>2. row = [new EXCEPT !.verified = TRUE, !.two_factor_enabled = factor]
      OBVIOUS
    <3>3. DOMAIN rows = {1} /\ rows[1] = row /\ mailbox = {m}
      BY <2>2
    <3>4. /\ 1 \in Ids /\ 1 \in Tokens
      BY <1>2 DEF Ids, Tokens
    <3> HIDE DEF new, row
    <3>5. /\ row \in Row /\ row.email = email /\ row.otp_code = Nothing
          /\ row.verification_code = Nothing /\ row.resetPasswordToken = Nothing
      BY <3>1, <3>2 DEF Row
    <3>6. /\ m \in [kind : Kinds, email : Emails, id : Ids, token : Tokens]
          /\ m.kind = "code" /\ m.email = email /\ m.id = 1 /\ m.token = 1
      BY <3>4 DEF Kinds
    <3> HIDE DEF m
    <3>7. UsersTypeOK
      BY <1>2, <2>2, <3>3, <3>5, UsersAssumption DEF UsersTypeOK
    <3>8. CodeWasMailed(1, email)
      BY <3>3, <3>6 DEF CodeWasMailed
    <3>9. RowsAreSound
      BY <2>2, <3>3, <3>5, <3>8 DEF RowsAreSound, GivenTokens
    <3>10. MailsAreSound
      <4>1. lastId = 1 /\ lastToken = 1
        BY <2>2
      <4>2. DOMAIN rows = {1} /\ m.id = 1 /\ m.token = 1
        BY <3>3, <3>6
      <4>3. CodeIsFor(m.token, m.id)
        BY <4>2 DEF CodeIsFor
      <4>4. m.id \in 1..lastId /\ m.token \in 1..lastToken
        BY <4>1, <4>2
      <4>5. m.kind = "code" /\ AddressIs(m.id, m.email)
        BY <3>3, <3>5, <3>6 DEF AddressIs
      <4>6. mailbox = {m}
        BY <3>3
      <4> QED BY <4>3, <4>4, <4>5, <4>6 DEF MailsAreSound
    <3> QED BY <1>1, <3>3, <3>6, <3>7, <3>9, <3>10 DEF TablesAreSound, TypeOK, AccountsTypeOK
  <2> QED BY <2>1, <2>2 DEF Init
<1>4. \A b \in Browsers : CallIsSound(b) /\ SessionIsSound(b)
  <2> TAKE b \in Browsers
  <2>1. /\ calls[b] = Idle /\ page[b] = "auth" /\ access[b] = Nothing /\ cookie[b] = Nothing
    BY DEF Init
  <2>2. UsersTypeOK
    BY <1>3 DEF TablesAreSound, TypeOK, AccountsTypeOK
  <2>3. CallIsSound(b)
    BY <2>1, <2>2, OpsAssumption
       DEF CallIsSound, Remembers, KeepsOut, CallIsSigned, Idle, At, GivenIds, GivenTokens, TokenOps
  <2>4. SessionIsSound(b)
    BY <2>1, <2>2, NothingHere DEF SessionIsSound, GivenIds, MayEnter
  <2> QED BY <2>3, <2>4
<1> QED BY <1>3, <1>4 DEF AccountsInv

LEMMA AccountsStep == AccountsInv /\ [Next]_vars => AccountsInv'
<1> SUFFICES ASSUME AccountsInv, [Next]_vars PROVE AccountsInv'
  OBVIOUS
<1>1. CASE UNCHANGED vars
  <2>1. /\ TablesStep /\ UNCHANGED browser /\ UNCHANGED <<userVars, mailbox>> /\ calls' = calls
    BY <1>1, InvTypes, ReadsOnly DEF vars
  <2>2. TypeOK'
    BY <2>1, InvTypes DEF TypeOK, AccountsTypeOK, UsersTypeOK, userVars, browser
  <2>3. \A x \in Browsers : BrowserStays(x) /\ Follows(calls[x], calls'[x])
    BY <2>1 DEF BrowserStays, Follows, browser
  <2>4. \A x \in Browsers : CallIsSound(x)' /\ SessionIsSound(x)'
    BY <2>1, <2>3, CallStays, SessionStays
  <2> QED BY <2>1, <2>2, <2>4 DEF AccountsInv, TablesAreSound, TablesStep
<1>2. CASE Next
  BY <1>2, SubmitKeeps, AuthorizeKeeps, RefreshKeeps, BreaksKeeps, ReceiveKeeps, ServeKeeps,
     TokensExpire, VisitKeeps, ExpireKeeps DEF Next
<1> QED BY <1>1, <1>2
THEOREM AccountsInvariant == Spec => []AccountsInv
  BY AccountsStart, AccountsStep, PTL DEF Spec

(***************************************************************************)
(* A session is of an account whose address is proved, or that is          *)
(* Google's, however the handlers of several browsers interleave and       *)
(* whatever becomes of the rows in between.                                *)
(***************************************************************************)
THEOREM SessionsProved == Spec => []SessionsAreProved
<1>1. AccountsInv => SessionsAreProved
  <2> SUFFICES ASSUME AccountsInv PROVE SessionsAreProved
    OBVIOUS
  <2>1. SessionsAreConfirmed
    BY DEF AccountsInv, SessionIsSound, MayEnter, Confirmed, SessionsAreConfirmed
  <2>2. ProvedByMail
    BY DEF AccountsInv, TablesAreSound, RowsAreSound, CodeWasMailed, ProvedByMail
  <2> QED BY <2>1, <2>2, InvTypes DEF SessionsAreProved
<1> QED BY <1>1, AccountsInvariant, PTL

(***************************************************************************)
(* A login that never had the right to succeed opens no session, and a     *)
(* change of a password that never had it changes none.                    *)
(***************************************************************************)
THEOREM BarredFail == Spec => []BarredCallsFail
<1>1. AccountsInv => BarredCallsFail
  BY DEF AccountsInv, CallIsSound, KeepsOut, BarredCallsFail
<1> QED BY <1>1, AccountsInvariant, PTL

(***************************************************************************)
(* A password changes only by a link that was mailed to the address of the *)
(* very account, or by its user who gave the old one.                      *)
(***************************************************************************)

\* The rows of these steps keep their passwords.
LEMMA ColumnsKeepPasswords ==
    ASSUME UsersTypeOK, NEW id \in DOMAIN rows, NEW i, NEW value,
           NEW column \in {"verified", "two_factor_enabled", "otp_code", "verification_code",
                           "resetPasswordToken"},
           Set(i, column, value)
    PROVE  id \in DOMAIN rows' /\ rows'[id].password = rows[id].password
  BY DEF Set, Row, UsersTypeOK

LEMMA PasswordsAreProved ==
    ASSUME AccountsInv, Next, NEW id \in DOMAIN rows, id \in DOMAIN rows',
           rows'[id].password # rows[id].password
    PROVE  \E b \in Browsers : calls[b].id = id /\ calls[b].at = "write" /\ MayRewrite(b, id)
<1>1. rows' # rows
  OBVIOUS
<1>2. PICK b \in Browsers : Serve(b)
  <2>1. ASSUME NEW b \in Browsers, \/ Submit(b) \/ Authorize(b) \/ Refresh(b)
                                  \/ Breaks(b) \/ Receive(b)
        PROVE  FALSE
    BY <1>1, <2>1 DEF Submit, Authorize, Refresh, Breaks, Receive, userVars
  <2>2. ASSUME NEW b \in Browsers, ExpireAccess(b) \/ ExpireCookie(b)
        PROVE  FALSE
    BY <1>1, <2>2 DEF ExpireAccess, ExpireCookie, userVars
  <2>3. ASSUME NEW b \in Browsers, NEW path, Visit(b, path) PROVE FALSE
    BY <1>1, <2>3 DEF Visit, userVars
  <2>4. ASSUME NEW i \in Ids, NEW column \in {"otp_code", "verification_code", "resetPasswordToken"},
               Expire(i, column)
        PROVE  FALSE
    BY <2>4, InvTypes, ColumnsKeepPasswords DEF Expire
  <2> QED BY <2>1, <2>2, <2>3, <2>4 DEF Next
<1>3. CASE ResetWrite(b)
  <2>1. calls[b].op = "reset" /\ calls[b].at = "write" /\ calls[b].id = id
    BY <1>1, <1>3 DEF ResetWrite, At, updatePassword, Set
  <2>2. LinkWasMailed(id, calls[b].token)
    BY <2>1 DEF AccountsInv, CallIsSound, Remembers
  <2>3. \E m \in mailbox : /\ m.kind = "link" /\ m.token = calls[b].token
                           /\ m.id = id /\ m.email = rows[id].email
    BY <2>2 DEF LinkWasMailed, AccountsInv, TablesAreSound, MailsAreSound, AddressIs
  <2> QED BY <2>1, <2>3 DEF MayRewrite
<1>4. CASE SecurityWrite(b)
  <2>1. calls[b].op = "security" /\ calls[b].at = "write" /\ calls[b].id = id
    BY <1>1, <1>4 DEF SecurityWrite, At, updatePassword, Set
  <2>2. ~ calls[b].barred /\ access[b] = id
    BY <2>1 DEF AccountsInv, CallIsSound, KeepsOut, CallIsSigned, TokenOps
  <2> QED BY <2>1, <2>2 DEF MayRewrite
<1>5. ASSUME NEW i, NEW value,
             \/ Set(i, "verified", value) \/ Set(i, "two_factor_enabled", value)
             \/ Set(i, "otp_code", value) \/ Set(i, "verification_code", value)
             \/ Set(i, "resetPasswordToken", value)
      PROVE  FALSE
  BY <1>5, InvTypes, ColumnsKeepPasswords
<1>6. ASSUME NEW email, NEW password, NEW google, createUser(email, password, google)
      PROVE  FALSE
  BY <1>6 DEF createUser
<1>7. ASSUME NEW i, deleteUser(i) PROVE FALSE
  BY <1>7 DEF deleteUser
<1>8. CASE RegisterInsert(b) \/ GoogleInsert(b)
  BY <1>6, <1>8 DEF RegisterInsert, GoogleInsert
<1>9. CASE SaveCode(b) \/ SaveOtp(b) \/ ForgotSave(b) \/ ClearCode(b) \/ ClearOtp(b)
  BY <1>5, <1>9 DEF SaveCode, SaveOtp, ForgotSave, ClearCode, ClearOtp,
     saveHashedVerificationCode, saveHashedOtpCode, updateUserRestorations,
     clearVerificationFields, clearOtpFields
<1>10. CASE SetVerified(b) \/ TwoFactor(b)
  BY <1>1, <1>5, <1>10 DEF SetVerified, TwoFactor, setEmailVerified, update2fa
<1>11. CASE DeleteAccount(b)
  BY <1>7, <1>11 DEF DeleteAccount
<1>12. CASE \/ RegisterRead(b) \/ LoginRead(b) \/ FindByEmail(b) \/ CheckCode(b) \/ CheckOtp(b)
            \/ ForgotRead(b) \/ ResetRead(b) \/ GoogleRead(b) \/ GoogleFind(b)
  BY <1>1, <1>12 DEF RegisterRead, LoginRead, FindByEmail, CheckCode, CheckOtp, ForgotRead,
     ResetRead, GoogleRead, GoogleFind
<1>13. CASE Profile(b) \/ SecurityRead(b) \/ \E mailed \in BOOLEAN : Mail(b, mailed)
  BY <1>1, <1>13 DEF Profile, SecurityRead, Mail, userVars
<1> QED BY <1>2, <1>3, <1>4, <1>8, <1>9, <1>10, <1>11, <1>12, <1>13 DEF Serve

THEOREM NewPasswordProved == Spec => NewPasswordIsProved
<1>1. AccountsInv /\ [Next]_vars =>
        [\A id \in DOMAIN rows : id \in DOMAIN rows' /\ rows'[id].password # rows[id].password =>
            \E b \in Browsers : calls[b].id = id /\ calls[b].at = "write" /\ MayRewrite(b, id)]_vars
  BY PasswordsAreProved
<1> QED BY <1>1, AccountsInvariant, PTL DEF Spec, NewPasswordIsProved

(***************************************************************************)
(* A page of the application is left for /auth only when the account of    *)
(* the refresh token is gone, or the token, or when a request broke.       *)
(***************************************************************************)

LEMMA LeavesWithReason ==
    ASSUME AccountsInv, Next, NEW b \in Browsers,
           page[b] = "Home", page'[b] = "auth", calls[b].op = "profile"
    PROVE  calls[b].status = 0 \/ cookie[b] \notin DOMAIN rows
<1>1. page \in [Browsers -> AuthPaths \cup {"Home"}] /\ page' # page
  BY InvTypes, BrowserTypes
<1>2. PICK x \in Browsers : Receive(x) \/ \E path \in AuthPaths \cup {"Home"} : Visit(x, path)
  BY <1>1 DEF Next, Submit, Authorize, Refresh, Breaks, ExpireAccess, ExpireCookie, browser
<1>3. x = b
  BY <1>1, <1>2 DEF Receive, Visit, Enter
<1>4. Receive(b)
  BY <1>2, <1>3, OpsAssumption DEF Visit, Idle, TokenOps
<1>5. calls[b].at = "answered" /\ ~ OpensSession(calls[b])
  BY <1>4 DEF Receive, OpensSession
<1>6. page'[b] = NextPage(calls[b], "Home")
  BY <1>1, <1>4, <1>5 DEF Receive
<1>7. calls[b].status # 200
  BY <1>6, Zenon DEF NextPage
<1> QED BY <1>5, <1>7 DEF AccountsInv, CallIsSound, CallIsSigned

THEOREM SignedOutForAReason == Spec => SignedOutWithReason
<1>1. AccountsInv /\ [Next]_vars =>
        [\A b \in Browsers : page[b] = "Home" /\ page'[b] = "auth" /\ calls[b].op = "profile" =>
            calls[b].status = 0 \/ cookie[b] \notin DOMAIN rows]_vars
  BY LeavesWithReason
<1> QED BY <1>1, AccountsInvariant, PTL DEF Spec, SignedOutWithReason

(***************************************************************************)
(* Settings: the invariant.  The files are numbered from 0 on, and there   *)
(* is room for those of the uploads under way.  At most one save is of the *)
(* form that is shown, and a form that pauses or says that it is saved has *)
(* stored it.  A request that is alone has met no other since it was sent, *)
(* so that the tab differs from the row in what the request changes only.  *)
(***************************************************************************)
FilesAreNumbered ==
    /\ \E n \in 0 .. MaxFiles : uploads = 0 .. n
    /\ Cardinality(uploads) + Cardinality(Uploading) <= MaxFiles + 1

\* What the request in slot s carries.
RequestIsSound(s) ==
    LET r == requests[s]
    IN  /\ r.op = "none" => r = NoRequest
        /\ r.op = "account" => r.arg \in Names \cup {NoName}
        /\ r.op = "privacy" => r.arg \in Languages
        /\ r.at = "written" => r.op \in Pictures
        /\ r.op \in Pictures /\ r.at \in {"written", "done"} => r.file \in uploads
        /\ \A picture \in Pictures : r.seen.pictures[picture] \in uploads \cup {NoPicture}
        /\ r.op = "profile" /\ r.at = "done" =>
              \A picture \in Pictures : r.seen.pictures[picture] \in uploads

\* The answer to the save in slot s still concerns the form.
Heard(s) == requests[s].op = "account" /\ requests[s].heard
SavesAreSound ==
    /\ \A s \in Slots : Heard(s) => tab.saving = "call"
    /\ \A s \in Slots : Heard(s) /\ requests[s].at = "done" => landed
    /\ \A s, r \in Slots : Heard(s) /\ Heard(r) => r = s
    /\ tab.saving = "pause" => landed
    /\ tab.saved => landed

SamePictures == tab.user.pictures = stored.pictures
SameLanguage == tab.user.language = stored.language
ShownLanguage(language) == tab.page = "settings" => tab.language = language

\* What the tab holds while slot s has the only request.
LoneProfile(s) ==
    /\ requests[s].was = tab.user.language
    /\ requests[s].at = "done" => requests[s].seen = stored
LoneAccount(s) == SamePictures /\ SameLanguage /\ ShownLanguage(stored.language)
LonePrivacy(s) ==
    /\ SamePictures
    /\ tab.user.language = requests[s].arg
    /\ ShownLanguage(requests[s].arg)
    /\ requests[s].at = "done" => stored.language = requests[s].arg
LonePicture(s) ==
    /\ SameLanguage /\ ShownLanguage(stored.language)
    /\ requests[s].at \in {"sent", "written"} => SamePictures
    /\ requests[s].at = "done" =>
          stored.pictures = [tab.user.pictures EXCEPT ![requests[s].op] = requests[s].file]
LoneIsSound(s) ==
    requests[s].alone =>
        /\ \A r \in Slots \ {s} : requests[r].op = "none"
        /\ requests[s].op = "profile" => LoneProfile(s)
        /\ ~ upset /\ requests[s].op = "account" => LoneAccount(s)
        /\ ~ upset /\ requests[s].op = "privacy" => LonePrivacy(s)
        /\ ~ upset /\ requests[s].op \in Pictures => LonePicture(s)

SettingsInv ==
    /\ SettingsTypeOK /\ PicturesExist /\ QuietPageIsStored
    /\ FilesAreNumbered /\ SavesAreSound
    /\ \A s \in Slots : RequestIsSound(s) /\ LoneIsSound(s)

\* The request of slot s goes on as it was, but for having met another, and but
\* for a form that is left.
Continues(s) ==
    /\ requests'[s].op = requests[s].op /\ requests'[s].arg = requests[s].arg
    /\ requests'[s].at = requests[s].at /\ requests'[s].was = requests[s].was
    /\ requests'[s].seen = requests[s].seen /\ requests'[s].file = requests[s].file
    /\ requests'[s].alone => requests[s].alone
    /\ requests[s].op = "account" /\ requests'[s].heard => requests[s].heard
    /\ requests[s] = NoRequest => requests'[s] = NoRequest

\* A request with these values takes slot s, and the others are not alone.
Begins(s, op, arg, was) ==
    /\ s \notin Underway
    /\ requests' \in [Slots -> Requests]
    /\ requests'[s].op = op /\ requests'[s].arg = arg /\ requests'[s].at = "sent"
    /\ requests'[s].was = was /\ requests'[s].seen = EmptyUser
    /\ requests'[s].alone => Underway = {}
    /\ \A r \in Slots \ {s} : Continues(r) /\ ~ requests'[r].alone

LEMMA SettingsBounds ==
    /\ MaxRequests \in Nat /\ MaxFiles \in Nat /\ MaxFading \in Nat
    /\ NoName \notin Names /\ English \in Languages
    /\ Pictures \subseteq {"profile_image", "cover"}
  BY SettingsAssumption DEF SettingsAssumption

LEMMA NothingAsked ==
    /\ EmptyUser \in UserRows /\ NoRequest \in Requests
    /\ \A picture \in Pictures : EmptyUser.pictures[picture] = NoPicture
    /\ NoRequest.op = "none" /\ NoRequest.at = "sent" /\ ~ NoRequest.alone
    /\ NoRequest.seen = EmptyUser /\ NoRequest.heard
<1>1. EmptyUser \in UserRows
  BY SettingsBounds DEF EmptyUser, UserRows
<1>2. \A picture \in Pictures : EmptyUser.pictures[picture] = NoPicture
  BY DEF EmptyUser
<1> QED BY <1>1, <1>2, SettingsBounds DEF NoRequest, Requests

LEMMA RequestTypes ==
    ASSUME NEW r \in Requests
    PROVE  /\ r.op \in {"none", "profile", "account", "privacy"} \cup Pictures
           /\ r.heard \in BOOLEAN /\ r.arg \in Names \cup {NoName} \cup Languages
           /\ r.at \in {"sent", "written", "done", "refused", "broken"}
           /\ r.was \in Languages /\ r.seen \in UserRows /\ r.file \in 0 .. MaxFiles
           /\ r.alone \in BOOLEAN
  BY DEF Requests

LEMMA TabTypes ==
    ASSUME NEW t \in Tabs
    PROVE  /\ t.page \in {"closed", "elsewhere", "settings"} /\ t.user \in UserRows
           /\ t.language \in Languages /\ t.account \in Names \cup {NoName}
           /\ t.saving \in {"no", "call", "pause"} /\ t.saved \in BOOLEAN
           /\ t.fading \in 0 .. MaxFading
  BY DEF Tabs

LEMMA RowTypes ==
    ASSUME NEW u \in UserRows
    PROVE  /\ u.account \in Names \cup {NoName} /\ u.language \in Languages
           /\ u.pictures \in [Pictures -> 0 .. MaxFiles \cup {NoPicture}]
  BY DEF UserRows

LEMMA OverlappedContinues ==
    ASSUME NEW r \in Requests
    PROVE  /\ Overlapped(r) \in Requests
           /\ Overlapped(r).op = r.op /\ Overlapped(r).arg = r.arg
           /\ Overlapped(r).at = r.at /\ Overlapped(r).was = r.was
           /\ Overlapped(r).seen = r.seen /\ Overlapped(r).file = r.file
           /\ Overlapped(r).heard = r.heard /\ ~ Overlapped(r).alone
           /\ r = NoRequest => Overlapped(r) = NoRequest
<1>1. /\ Overlapped(r) \in Requests
      /\ Overlapped(r).op = r.op /\ Overlapped(r).arg = r.arg
      /\ Overlapped(r).at = r.at /\ Overlapped(r).was = r.was
      /\ Overlapped(r).seen = r.seen /\ Overlapped(r).file = r.file
      /\ Overlapped(r).heard = r.heard /\ ~ Overlapped(r).alone
  BY DEF Overlapped, Requests
<1>2. Overlapped(NoRequest) = NoRequest
  <2>1. NoRequest \in Requests /\ NoRequest.alone = FALSE
    BY NothingAsked DEF NoRequest
  <2> QED BY <2>1 DEF Overlapped, Requests
<1> QED BY <1>1, <1>2

LEMMA LeftContinues ==
    ASSUME NEW r \in Requests
    PROVE  /\ Left(r) \in Requests
           /\ Left(r).op = r.op /\ Left(r).arg = r.arg
           /\ Left(r).at = r.at /\ Left(r).was = r.was
           /\ Left(r).seen = r.seen /\ Left(r).file = r.file
           /\ (r.op = "account" => ~ Left(r).heard) /\ ~ Left(r).alone
<1> DEFINE o == Overlapped(r)
<1>1. /\ o \in Requests
      /\ o.op = r.op /\ o.arg = r.arg /\ o.at = r.at /\ o.was = r.was
      /\ o.seen = r.seen /\ o.file = r.file /\ ~ o.alone
  BY DEF Overlapped, Requests
<1>2. Left(r) = [o EXCEPT !.heard = r.op # "account"]
  BY DEF Left
<1> HIDE DEF o
<1> QED BY <1>1, <1>2 DEF Requests

\* A tab with another user, and a page that is mounted.
LEMMA WithUserIs ==
    ASSUME NEW t \in Tabs, NEW user \in UserRows
    PROVE  /\ WithUser(t, user) \in Tabs
           /\ WithUser(t, user).page = t.page /\ WithUser(t, user).user = user
           /\ WithUser(t, user).saving = t.saving /\ WithUser(t, user).saved = t.saved
           /\ t.page = "settings" /\ user.language # t.user.language =>
                 WithUser(t, user).language = user.language
           /\ user.language = t.user.language => WithUser(t, user).language = t.language
<1> DEFINE account == IF t.page = "settings" THEN user.account ELSE t.account
           language == IF t.page = "settings" /\ user.language # t.user.language
                       THEN user.language ELSE t.language
           a == [t EXCEPT !.user = user]
           b == [a EXCEPT !.account = account]
           c == [b EXCEPT !.language = language]
<1>1. WithUser(t, user) = c
  BY Zenon DEF WithUser
<1>2. account \in Names \cup {NoName} /\ language \in Languages
  BY TabTypes, RowTypes
<1>3. /\ a = [t EXCEPT !.user = user] /\ b = [a EXCEPT !.account = account]
      /\ c = [b EXCEPT !.language = language]
  OBVIOUS
<1>4. /\ t.page = "settings" /\ user.language # t.user.language => language = user.language
      /\ user.language = t.user.language => language = t.language
  OBVIOUS
<1> HIDE DEF account, language, a, b, c
<1>5. /\ a \in Tabs /\ a.page = t.page /\ a.user = user /\ a.saving = t.saving
      /\ a.saved = t.saved
  BY <1>3 DEF Tabs
<1>6. /\ b \in Tabs /\ b.page = t.page /\ b.user = user /\ b.saving = t.saving
      /\ b.saved = t.saved
  BY <1>2, <1>3, <1>5 DEF Tabs
<1>7. /\ c \in Tabs /\ c.page = t.page /\ c.user = user /\ c.saving = t.saving
      /\ c.saved = t.saved /\ c.language = language
  BY <1>2, <1>3, <1>6 DEF Tabs
<1> QED BY <1>1, <1>4, <1>7

LEMMA MountedIs ==
    ASSUME NEW t \in Tabs, NEW path \in {"elsewhere", "settings"}
    PROVE  /\ Mounted(t, path) \in Tabs
           /\ Mounted(t, path).page = path /\ Mounted(t, path).user = t.user
           /\ Mounted(t, path).saving = "no" /\ ~ Mounted(t, path).saved
           /\ path = "settings" => Mounted(t, path).language = t.user.language
<1> DEFINE account == IF path = "settings" THEN t.user.account ELSE NoName
           language == IF path = "settings" THEN t.user.language ELSE t.language
           a == [t EXCEPT !.page = path, !.saving = "no"]
           b == [a EXCEPT !.saved = FALSE, !.fading = 0]
           c == [b EXCEPT !.account = account, !.language = language]
<1>1. Mounted(t, path) = c
  BY Zenon DEF Mounted
<1>2. account \in Names \cup {NoName} /\ language \in Languages
  BY TabTypes, RowTypes
<1>3. /\ a = [t EXCEPT !.page = path, !.saving = "no"]
      /\ b = [a EXCEPT !.saved = FALSE, !.fading = 0]
      /\ c = [b EXCEPT !.account = account, !.language = language]
  OBVIOUS
<1>4. path = "settings" => language = t.user.language
  OBVIOUS
<1>8. 0 \in 0 .. MaxFading
  BY SettingsBounds
<1> HIDE DEF account, language, a, b, c
<1>5. /\ a \in Tabs /\ a.page = path /\ a.user = t.user /\ a.saving = "no"
  BY <1>3 DEF Tabs
<1>6. /\ b \in Tabs /\ b.page = path /\ b.user = t.user /\ b.saving = "no" /\ ~ b.saved
  BY <1>3, <1>5, <1>8 DEF Tabs
<1>7. /\ c \in Tabs /\ c.page = path /\ c.user = t.user /\ c.saving = "no" /\ ~ c.saved
      /\ c.language = language
  BY <1>2, <1>3, <1>6 DEF Tabs
<1> QED BY <1>1, <1>4, <1>7

\* What the invariant says of the types, and which slots are in use.
LEMMA SettingsTypes ==
    ASSUME SettingsInv
    PROVE  /\ stored \in UserRows /\ tab \in Tabs /\ requests \in [Slots -> Requests]
           /\ uploads \subseteq 0 .. MaxFiles /\ landed \in BOOLEAN /\ upset \in BOOLEAN
           /\ \A s \in Slots : requests[s] \in Requests
           /\ \A s \in Slots : s \in Underway <=> requests[s].op # "none"
<1>1. requests \in [Slots -> Requests]
  BY DEF SettingsInv, SettingsTypeOK
<1>2. \A s \in Slots : requests[s].op = "none" => requests[s] = NoRequest
  BY DEF SettingsInv, RequestIsSound
<1> QED BY <1>1, <1>2, NothingAsked DEF SettingsInv, SettingsTypeOK, Underway

LEMMA SoundRequest ==
    ASSUME NEW s \in Slots, RequestIsSound(s), Continues(s), uploads \subseteq uploads'
    PROVE  RequestIsSound(s)'
  BY DEF RequestIsSound, Continues

\* Requests that only begin: a new one, and the others go on.
LEMMA SentBegins ==
    ASSUME SettingsInv, NEW op \in {"account", "privacy"} \cup Pictures,
           NEW arg \in Names \cup {NoName} \cup Languages,
           NEW was \in Languages, Sent(op, arg, was)
    PROVE  \E s \in Slots : Begins(s, op, arg, was)
<1>1. PICK s \in Slots \ Underway :
         requests' = [r \in Slots |->
              IF r # s THEN Overlapped(requests[r])
              ELSE [NoRequest EXCEPT !.op = op, !.arg = arg, !.was = was,
                                     !.alone = Underway = {}]]
  BY DEF Sent
<1> DEFINE free == Underway = {}
           a == [NoRequest EXCEPT !.op = op, !.arg = arg]
           new == [a EXCEPT !.was = was, !.alone = free]
<1>2. requests' = [r \in Slots |-> IF r # s THEN Overlapped(requests[r]) ELSE new]
  BY <1>1, Zenon
<1>3. a = [NoRequest EXCEPT !.op = op, !.arg = arg] /\ new = [a EXCEPT !.was = was, !.alone = free]
  OBVIOUS
<1>4. free \in BOOLEAN /\ (free => Underway = {})
  OBVIOUS
<1>5. op \in {"none", "profile", "account", "privacy"} \cup Pictures
  OBVIOUS
<1> HIDE DEF free, a, new
<1>6. /\ a \in Requests /\ a.op = op /\ a.arg = arg /\ a.at = "sent" /\ a.seen = EmptyUser
  BY <1>3, <1>5, NothingAsked DEF Requests
<1>7. /\ new \in Requests /\ new.op = op /\ new.arg = arg /\ new.at = "sent"
      /\ new.seen = EmptyUser /\ new.was = was /\ new.alone = free
  BY <1>3, <1>4, <1>6 DEF Requests
<1>8. \A r \in Slots : requests'[r] = IF r # s THEN Overlapped(requests[r]) ELSE new
  BY <1>2
<1>9. \A r \in Slots \ {s} :
         Continues(r) /\ ~ requests'[r].alone /\ requests'[r] \in Requests
  BY <1>8, SettingsTypes, OverlappedContinues DEF Continues
<1>10. requests' \in [Slots -> Requests]
  BY <1>2, <1>7, <1>8, <1>9
<1> QED BY <1>1, <1>4, <1>7, <1>8, <1>9, <1>10 DEF Begins

LEMMA FetchedBegins ==
    ASSUME SettingsInv, Fetched
    PROVE  /\ \E s \in Slots : Begins(s, "profile", NoName, tab.user.language)
           /\ \A r \in Slots : ~ Heard(r)'
<1>1. PICK s \in Slots \ Underway :
         requests' = [r \in Slots |->
              IF r # s
              THEN IF r \in Underway THEN Left(requests[r]) ELSE NoRequest
              ELSE [NoRequest EXCEPT !.op = "profile", !.was = tab.user.language,
                                     !.alone = Underway = {}]]
  BY DEF Fetched
<1> DEFINE free == Underway = {}
           a == [NoRequest EXCEPT !.op = "profile", !.was = tab.user.language]
           new == [a EXCEPT !.alone = free]
<1>2. requests' = [r \in Slots |-> IF r # s
                                   THEN IF r \in Underway THEN Left(requests[r]) ELSE NoRequest
                                   ELSE new]
  BY <1>1, Zenon
<1>3. /\ a = [NoRequest EXCEPT !.op = "profile", !.was = tab.user.language]
      /\ new = [a EXCEPT !.alone = free]
  OBVIOUS
<1>4. free \in BOOLEAN /\ (free => Underway = {})
  OBVIOUS
<1>5. tab.user.language \in Languages
  BY SettingsTypes, TabTypes, RowTypes
<1>6. NoRequest.arg = NoName
  BY DEF NoRequest
<1> HIDE DEF free, a, new
<1>7. /\ a \in Requests /\ a.op = "profile" /\ a.arg = NoName /\ a.at = "sent"
      /\ a.seen = EmptyUser /\ a.was = tab.user.language
  BY <1>3, <1>5, <1>6, NothingAsked DEF Requests
<1>8. /\ new \in Requests /\ new.op = "profile" /\ new.arg = NoName /\ new.at = "sent"
      /\ new.seen = EmptyUser /\ new.was = tab.user.language /\ new.alone = free
  BY <1>3, <1>4, <1>7 DEF Requests
<1>9. \A r \in Slots : requests'[r] = IF r # s
                                      THEN IF r \in Underway THEN Left(requests[r]) ELSE NoRequest
                                      ELSE new
  BY <1>2
<1>10. \A r \in Slots \ {s} :
         /\ Continues(r) /\ ~ requests'[r].alone /\ requests'[r] \in Requests
         /\ requests'[r].op = "account" => ~ requests'[r].heard
  <2> TAKE r \in Slots \ {s}
  <2>1. CASE r \in Underway
    <3>1. requests'[r] = Left(requests[r]) /\ requests[r] # NoRequest /\ requests[r] \in Requests
      BY <1>9, <2>1, SettingsTypes DEF Underway
    <3> QED BY <3>1, LeftContinues DEF Continues
  <2>2. CASE r \notin Underway
    <3>1. requests[r] = NoRequest /\ requests'[r] = NoRequest
      BY <1>9, <2>2 DEF Underway
    <3> QED BY <3>1, NothingAsked DEF Continues
  <2> QED BY <2>1, <2>2
<1>11. requests' \in [Slots -> Requests]
  BY <1>2, <1>8, <1>9, <1>10
<1>12. \A r \in Slots : ~ (requests'[r].op = "account" /\ requests'[r].heard)
  BY <1>8, <1>9, <1>10
<1> QED BY <1>1, <1>4, <1>8, <1>9, <1>10, <1>11, <1>12 DEF Begins, Heard

\* The parts of the invariant after a step.
LEMMA UploadingIs ==
    ASSUME SettingsInv
    PROVE  /\ Uploading = {s \in Slots : requests[s].op \in Pictures /\ requests[s].at = "sent"}
           /\ IsFiniteSet(Uploading) /\ Cardinality(Uploading) \in Nat
<1>1. \A s \in Slots : requests[s].op \in Pictures => s \in Underway
  BY SettingsTypes, SettingsBounds
<1>2. Uploading = {s \in Slots : requests[s].op \in Pictures /\ requests[s].at = "sent"}
  BY <1>1 DEF Uploading, Underway
<1>3. IsFiniteSet(Slots)
  BY FS_Interval, SettingsBounds DEF Slots
<1>4. IsFiniteSet(Uploading)
  BY <1>2, <1>3, FS_Subset
<1> QED BY <1>2, <1>4, FS_CardinalityType

LEMMA UploadsAre ==
    ASSUME SettingsInv
    PROVE  \E n \in 0 .. MaxFiles : uploads = 0 .. n /\ Cardinality(uploads) = n + 1
<1>1. PICK n \in 0 .. MaxFiles : uploads = 0 .. n
  BY DEF SettingsInv, FilesAreNumbered
<1>2. Cardinality(uploads) = n + 1
  BY <1>1, FS_Interval, SettingsBounds
<1> QED BY <1>1, <1>2

LEMMA FilesStay ==
    ASSUME SettingsInv, uploads' = uploads,
           \A s \in Slots : requests'[s].op \in Pictures /\ requests'[s].at = "sent" =>
               requests[s].op \in Pictures /\ requests[s].at = "sent"
    PROVE  FilesAreNumbered'
<1>1. Uploading' \subseteq Uploading
  BY UploadingIs DEF Uploading, Underway
<1>2. Cardinality(Uploading') <= Cardinality(Uploading) /\ Cardinality(Uploading') \in Nat
  BY <1>1, UploadingIs, FS_Subset, FS_CardinalityType
<1>3. Cardinality(uploads) \in Nat
  BY UploadsAre, SettingsBounds
<1> QED BY <1>2, <1>3, UploadingIs, SettingsBounds DEF FilesAreNumbered, SettingsInv

LEMMA SavesStay ==
    ASSUME SettingsInv, tab'.saving = tab.saving, tab'.saved => tab.saved, landed => landed',
           \A r \in Slots : Heard(r)' => /\ Heard(r)
                                         /\ requests'[r].at = "done" =>
                                               requests[r].at = "done" \/ landed'
    PROVE  SavesAreSound'
  BY DEF SettingsInv, SavesAreSound

\* A request goes on to another stage, and the tab does not notice.
Moves(s) ==
    /\ requests' \in [Slots -> Requests]
    /\ requests'[s].op = requests[s].op /\ requests'[s].arg = requests[s].arg
    /\ requests'[s].was = requests[s].was /\ requests'[s].heard = requests[s].heard
    /\ requests'[s].alone = requests[s].alone
    /\ \A r \in Slots \ {s} : requests'[r] = requests[r]

LEMMA MoveKeeps ==
    ASSUME SettingsInv, NEW s \in Slots, Moves(s), requests[s].op # "none",
           UNCHANGED <<tab, upset>>,
           stored' \in UserRows, \A picture \in Pictures : stored'.pictures[picture] \in uploads',
           uploads \subseteq uploads', uploads' \subseteq 0 .. MaxFiles, FilesAreNumbered',
           landed' \in BOOLEAN, landed => landed',
           Heard(s) /\ requests'[s].at = "done" /\ requests[s].at # "done" => landed',
           RequestIsSound(s)', requests[s].alone => LoneIsSound(s)'
    PROVE  SettingsInv'
<1>1. SettingsTypeOK'
  BY SettingsTypes DEF Moves, SettingsTypeOK
<1>2. PicturesExist'
  BY DEF SettingsInv, PicturesExist
<1>3. QuietPageIsStored'
  <2>1. requests'[s] # NoRequest
    BY NothingAsked DEF Moves
  <2> QED BY <2>1 DEF QuietPageIsStored, Underway
<1>4. SavesAreSound'
  <2>1. \A r \in Slots : Heard(r)' => /\ Heard(r)
                                      /\ requests'[r].at = "done" =>
                                            requests[r].at = "done" \/ landed'
    BY DEF Moves, Heard
  <2> QED BY <2>1, SavesStay
<1>5. \A r \in Slots \ {s} : Continues(r)
  BY DEF Continues, Moves
<1>6. \A r \in Slots : RequestIsSound(r)'
  BY <1>5, SoundRequest DEF SettingsInv
<1>7. \A r \in Slots : LoneIsSound(r)'
  <2> TAKE r \in Slots
  <2>1. CASE r = s
    BY <2>1 DEF LoneIsSound, Moves
  <2>2. CASE r # s
    <3>1. ~ requests[r].alone
      BY <2>2 DEF SettingsInv, LoneIsSound
    <3> QED BY <2>2, <3>1 DEF LoneIsSound, Moves
  <2> QED BY <2>1, <2>2
<1> QED BY <1>1, <1>2, <1>3, <1>4, <1>6, <1>7 DEF SettingsInv

\* An answer is taken, and its slot is free again.
LEMMA TakenIs ==
    ASSUME SettingsInv, NEW s \in Slots, requests[s].op # "none", Taken(s)
    PROVE  /\ requests' \in [Slots -> Requests] /\ requests'[s] = NoRequest
           /\ \A r \in Slots \ {s} : requests'[r] = requests[r]
           /\ \A r \in Slots : ~ requests'[r].alone
           /\ upset' \in BOOLEAN /\ UNCHANGED <<stored, uploads, landed>>
           /\ ~ upset' => /\ requests[s].at = "done" /\ requests[s].alone
                          /\ ~ upset \/ requests[s].op = "profile"
<1>1. /\ requests' = [requests EXCEPT ![s] = NoRequest] /\ requests'[s] = NoRequest
      /\ \A r \in Slots \ {s} : requests'[r] = requests[r]
      /\ UNCHANGED <<stored, uploads, landed>>
  BY SettingsTypes DEF Taken
<1>2. \A r \in Slots : ~ requests'[r].alone
  <2> TAKE r \in Slots
  <2>1. CASE r = s
    BY <1>1, <2>1, NothingAsked
  <2>2. CASE r # s
    BY <1>1, <2>2 DEF SettingsInv, LoneIsSound
  <2> QED BY <2>1, <2>2
<1>3. requests' \in [Slots -> Requests]
  BY <1>1, SettingsTypes, NothingAsked
<1>4. upset' = IF requests[s].at # "done" \/ ~requests[s].alone THEN TRUE
               ELSE upset /\ requests[s].op # "profile"
  BY DEF Taken
<1>5. upset \in BOOLEAN
  BY SettingsTypes
<1>6. upset' \in BOOLEAN
  BY <1>4, Zenon
<1>7. ~ upset' => /\ requests[s].at = "done" /\ requests[s].alone
                  /\ ~ upset \/ requests[s].op = "profile"
  BY <1>4, <1>5, Zenon
<1> QED BY <1>1, <1>2, <1>3, <1>6, <1>7

LEMMA TakenKeeps ==
    ASSUME SettingsInv, NEW s \in Slots, requests[s].op # "none", Taken(s), tab' \in Tabs,
           \A picture \in Pictures : tab'.user.pictures[picture] \in uploads \cup {NoPicture},
           SavesAreSound',
           ~ upset' => /\ tab'.user.pictures = stored.pictures
                       /\ tab'.user.language = stored.language
                       /\ tab'.page = "settings" => tab'.language = stored.language
    PROVE  SettingsInv'
<1>1. SettingsTypeOK'
  BY SettingsTypes, TakenIs DEF SettingsTypeOK
<1>2. PicturesExist'
  BY TakenIs DEF SettingsInv, PicturesExist
<1>3. QuietPageIsStored'
  BY TakenIs DEF QuietPageIsStored
<1>4. FilesAreNumbered'
  <2>1. \A r \in Slots : requests'[r].op \in Pictures /\ requests'[r].at = "sent" =>
            requests[r].op \in Pictures /\ requests[r].at = "sent"
    BY TakenIs, NothingAsked, SettingsBounds
  <2> QED BY <2>1, FilesStay, TakenIs
<1>5. \A r \in Slots : RequestIsSound(r)'
  <2> TAKE r \in Slots
  <2>1. CASE r = s
    <3>1. requests'[r] = NoRequest
      BY <2>1, TakenIs
    <3> QED BY <3>1, NothingAsked, SettingsBounds DEF RequestIsSound
  <2>2. CASE r # s
    <3>1. Continues(r) /\ uploads' = uploads
      BY <2>2, TakenIs DEF Continues
    <3> QED BY <3>1, SoundRequest DEF SettingsInv
  <2> QED BY <2>1, <2>2
<1>6. \A r \in Slots : LoneIsSound(r)'
  BY TakenIs DEF LoneIsSound
<1> QED BY <1>1, <1>2, <1>3, <1>4, <1>5, <1>6 DEF SettingsInv

\* What only the tab does.
LEMMA TabKeeps ==
    ASSUME SettingsInv, UNCHANGED <<stored, uploads, requests, landed, upset>>,
           tab' \in Tabs, tab'.user = tab.user, tab'.page = tab.page,
           tab'.language = tab.language, SavesAreSound'
    PROVE  SettingsInv'
<1>1. SettingsTypeOK' /\ PicturesExist' /\ QuietPageIsStored'
  BY SettingsTypes DEF SettingsInv, SettingsTypeOK, PicturesExist, QuietPageIsStored, Underway
<1>2. FilesAreNumbered'
  BY FilesStay
<1>3. \A r \in Slots : RequestIsSound(r)'
  BY DEF RequestIsSound, SettingsInv
<1>4. \A r \in Slots : LoneIsSound(r)'
  BY DEF SettingsInv, LoneIsSound, LoneProfile, LoneAccount, LonePrivacy, LonePicture,
     SamePictures, SameLanguage, ShownLanguage
<1> QED BY <1>1, <1>2, <1>3, <1>4 DEF SettingsInv

\* A request begins.
LEMMA BeginKeeps ==
    ASSUME SettingsInv, NEW s \in Slots,
           NEW op \in {"profile", "account", "privacy"} \cup Pictures, NEW arg, NEW was,
           Begins(s, op, arg, was), UNCHANGED <<stored, uploads, upset>>, landed' \in BOOLEAN,
           op = "account" => arg \in Names \cup {NoName}, op = "privacy" => arg \in Languages,
           tab' \in Tabs,
           \A picture \in Pictures : tab'.user.pictures[picture] \in uploads \cup {NoPicture},
           SavesAreSound', FilesAreNumbered',
           requests'[s].alone => LoneIsSound(s)'
    PROVE  SettingsInv'
<1>1. SettingsTypeOK'
  BY SettingsTypes DEF Begins, SettingsTypeOK
<1>2. PicturesExist'
  BY DEF SettingsInv, PicturesExist
<1>3. QuietPageIsStored'
  <2>1. requests'[s] # NoRequest
    BY NothingAsked, SettingsBounds DEF Begins
  <2> QED BY <2>1 DEF QuietPageIsStored, Underway
<1>4. \A r \in Slots : RequestIsSound(r)'
  <2> TAKE r \in Slots
  <2>1. CASE r = s
    BY <2>1, NothingAsked, SettingsBounds DEF Begins, RequestIsSound
  <2>2. CASE r # s
    BY <2>2, SoundRequest DEF Begins, SettingsInv
  <2> QED BY <2>1, <2>2
<1>5. \A r \in Slots : LoneIsSound(r)'
  BY DEF Begins, LoneIsSound
<1> QED BY <1>1, <1>2, <1>3, <1>4, <1>5 DEF SettingsInv

\* The tab goes to another path.
LEMMA PathKeeps ==
    ASSUME SettingsInv, Fetched, NEW path \in {"elsewhere", "settings"}, NEW t \in Tabs,
           t.user = tab.user, tab' = Mounted(t, path),
           UNCHANGED <<stored, uploads, landed, upset>>
    PROVE  SettingsInv'
<1>1. /\ tab' \in Tabs /\ tab'.user = tab.user /\ tab'.saving = "no" /\ ~ tab'.saved
  BY MountedIs
<1>2. PICK s \in Slots : Begins(s, "profile", NoName, tab.user.language)
  BY FetchedBegins
<1>3. SavesAreSound'
  BY <1>1, FetchedBegins DEF SavesAreSound
<1>4. FilesAreNumbered'
  <2>1. \A r \in Slots : requests'[r].op \in Pictures /\ requests'[r].at = "sent" =>
            requests[r].op \in Pictures /\ requests[r].at = "sent"
    BY <1>2, SettingsBounds DEF Begins, Continues
  <2> QED BY <2>1, FilesStay
<1>5. requests'[s].alone => LoneIsSound(s)'
  <2> SUFFICES ASSUME requests'[s].alone PROVE LoneIsSound(s)'
    OBVIOUS
  <2>1. \A r \in Slots \ {s} : requests'[r].op = "none"
    BY <1>2, NothingAsked DEF Begins, Continues, Underway
  <2>2. LoneProfile(s)'
    BY <1>1, <1>2 DEF Begins, LoneProfile
  <2>3. requests'[s].op = "profile"
    BY <1>2 DEF Begins
  <2> QED BY <2>1, <2>2, <2>3, SettingsBounds DEF LoneIsSound
<1>6. \A picture \in Pictures : tab'.user.pictures[picture] \in uploads \cup {NoPicture}
  BY <1>1 DEF SettingsInv, PicturesExist
<1>7. landed' \in BOOLEAN
  BY SettingsTypes
<1> QED BY <1>1, <1>2, <1>3, <1>4, <1>5, <1>6, <1>7, BeginKeeps

LEMMA OpenKeeps ==
    ASSUME SettingsInv, NEW path \in {"elsewhere", "settings"}, NEW language \in Languages,
           Open(path, language)
    PROVE  SettingsInv'
<1> DEFINE t == [tab EXCEPT !.language = language]
<1>1. t \in Tabs /\ t.user = tab.user
  BY SettingsTypes DEF Tabs
<1>2. /\ Fetched /\ tab' = Mounted(t, path) /\ UNCHANGED <<stored, uploads, landed, upset>>
  BY DEF Open
<1> HIDE DEF t
<1> QED BY <1>1, <1>2, PathKeeps

LEMMA GoToKeeps ==
    ASSUME SettingsInv, NEW path \in {"elsewhere", "settings"}, GoTo(path) PROVE SettingsInv'
  BY SettingsTypes, PathKeeps DEF GoTo

LEMMA TypeKeeps ==
    ASSUME SettingsInv, NEW account \in Names \cup {NoName}, Type(account) PROVE SettingsInv'
<1>1. /\ tab' \in Tabs /\ tab'.user = tab.user /\ tab'.page = tab.page
      /\ tab'.language = tab.language /\ tab'.saving = tab.saving /\ tab'.saved = tab.saved
  BY SettingsTypes DEF Type, Tabs
<1>2. UNCHANGED <<stored, uploads, requests, landed, upset>>
  BY DEF Type
<1>3. SavesAreSound'
  BY <1>1, <1>2, SavesStay DEF Heard
<1> QED BY <1>1, <1>2, <1>3, TabKeeps

LEMMA SettleKeeps == SettingsInv /\ Settle => SettingsInv'
<1> SUFFICES ASSUME SettingsInv, Settle PROVE SettingsInv'
  OBVIOUS
<1> DEFINE fading == tab.fading + 1
<1>1. fading \in 0 .. MaxFading
  BY SettingsTypes, TabTypes, SettingsBounds DEF Settle
<1>2. tab' = [tab EXCEPT !.saving = "no", !.saved = TRUE, !.fading = fading]
  BY DEF Settle
<1> HIDE DEF fading
<1>3. /\ tab' \in Tabs /\ tab'.user = tab.user /\ tab'.page = tab.page
      /\ tab'.language = tab.language /\ tab'.saving = "no" /\ tab'.saved
  BY <1>1, <1>2, SettingsTypes DEF Tabs
<1>4. tab.saving = "pause" /\ UNCHANGED <<stored, uploads, requests, landed, upset>>
  BY DEF Settle
<1>5. SavesAreSound'
  BY <1>3, <1>4 DEF SettingsInv, SavesAreSound, Heard
<1> QED BY <1>3, <1>4, <1>5, TabKeeps

LEMMA FadeKeeps == SettingsInv /\ Fade => SettingsInv'
<1> SUFFICES ASSUME SettingsInv, Fade PROVE SettingsInv'
  OBVIOUS
<1> DEFINE fading == tab.fading - 1
<1>1. fading \in 0 .. MaxFading
  BY SettingsTypes, TabTypes, SettingsBounds DEF Fade
<1>2. tab' = [tab EXCEPT !.saved = FALSE, !.fading = fading]
  BY DEF Fade
<1> HIDE DEF fading
<1>3. /\ tab' \in Tabs /\ tab'.user = tab.user /\ tab'.page = tab.page
      /\ tab'.language = tab.language /\ tab'.saving = tab.saving /\ ~ tab'.saved
  BY <1>1, <1>2, SettingsTypes DEF Tabs
<1>4. UNCHANGED <<stored, uploads, requests, landed, upset>>
  BY DEF Fade
<1>5. SavesAreSound'
  BY <1>3, <1>4, SavesStay DEF Heard
<1> QED BY <1>3, <1>4, <1>5, TabKeeps

\* The requests of the settings page.
LEMMA SaveKeeps == SettingsInv /\ Save => SettingsInv'
<1> SUFFICES ASSUME SettingsInv, Save PROVE SettingsInv'
  OBVIOUS
<1>1. /\ tab' \in Tabs /\ tab'.user = tab.user /\ tab'.page = tab.page
      /\ tab'.language = tab.language /\ tab'.saving = "call" /\ ~ tab'.saved
  BY SettingsTypes DEF Save, Tabs
<1>2. /\ tab.saving = "no" /\ ~ landed' /\ UNCHANGED <<stored, uploads, upset>>
      /\ landed' \in BOOLEAN /\ Sent("account", tab.account, English)
  BY DEF Save
<1>3. tab.account \in Names \cup {NoName}
  BY SettingsTypes, TabTypes
<1>4. PICK s \in Slots : Begins(s, "account", tab.account, English)
  BY <1>2, <1>3, SentBegins, SettingsBounds
<1>5. \A r \in Slots : Heard(r)' => r = s
  BY <1>2, <1>4 DEF SettingsInv, SavesAreSound, Heard, Begins, Continues
<1>6. SavesAreSound'
  <2>1. requests'[s].at # "done"
    BY <1>4 DEF Begins
  <2> QED BY <1>1, <1>5, <2>1 DEF SavesAreSound
<1>7. FilesAreNumbered'
  <2>1. \A r \in Slots : requests'[r].op \in Pictures /\ requests'[r].at = "sent" =>
            requests[r].op \in Pictures /\ requests[r].at = "sent"
    BY <1>4, SettingsBounds DEF Begins, Continues
  <2> QED BY <1>2, <2>1, FilesStay
<1>8. requests'[s].alone => LoneIsSound(s)'
  <2> SUFFICES ASSUME requests'[s].alone PROVE LoneIsSound(s)'
    OBVIOUS
  <2>1. Underway = {} /\ \A r \in Slots \ {s} : requests'[r].op = "none"
    BY <1>4, NothingAsked DEF Begins, Continues, Underway
  <2>2. ~ upset => LoneAccount(s)'
    BY <1>1, <1>2, <2>1 DEF SettingsInv, QuietPageIsStored, LoneAccount, SamePictures,
       SameLanguage, ShownLanguage
  <2>3. requests'[s].op = "account"
    BY <1>4 DEF Begins
  <2> QED BY <1>2, <2>1, <2>2, <2>3, SettingsBounds DEF LoneIsSound
<1>9. \A picture \in Pictures : tab'.user.pictures[picture] \in uploads \cup {NoPicture}
  BY <1>1 DEF SettingsInv, PicturesExist
<1> QED BY <1>1, <1>2, <1>3, <1>4, <1>6, <1>7, <1>8, <1>9, BeginKeeps

LEMMA ChooseLanguageKeeps ==
    ASSUME SettingsInv, NEW language \in Languages, ChooseLanguage(language) PROVE SettingsInv'
<1> DEFINE t == [tab EXCEPT !.language = language]
           user == [tab.user EXCEPT !.language = language]
<1>1. /\ t \in Tabs /\ t.user = tab.user /\ t.page = tab.page /\ t.saving = tab.saving
      /\ t.saved = tab.saved /\ t.language = language
  BY SettingsTypes DEF Tabs
<1>2. user \in UserRows /\ user.language = language /\ user.pictures = tab.user.pictures
  BY SettingsTypes, TabTypes DEF UserRows
<1>3. /\ tab' = WithUser(t, user) /\ Sent("privacy", language, English)
      /\ tab.page = "settings" /\ UNCHANGED <<stored, uploads, landed, upset>>
  BY DEF ChooseLanguage
<1> HIDE DEF t, user
<1>4. /\ tab' \in Tabs /\ tab'.user = user /\ tab'.page = tab.page
      /\ tab'.saving = tab.saving /\ tab'.saved = tab.saved
  BY <1>1, <1>2, <1>3, WithUserIs
<1>5. tab'.language = language
  BY <1>1, <1>2, <1>3, WithUserIs
<1>6. PICK s \in Slots : Begins(s, "privacy", language, English)
  BY <1>3, SentBegins, SettingsBounds
<1>7. SavesAreSound'
  <2>1. \A r \in Slots : Heard(r)' => Heard(r) /\ (requests'[r].at = "done" => requests[r].at = "done")
    BY <1>6 DEF Begins, Continues, Heard
  <2> QED BY <1>3, <1>4, <2>1, SavesStay
<1>8. FilesAreNumbered'
  <2>1. \A r \in Slots : requests'[r].op \in Pictures /\ requests'[r].at = "sent" =>
            requests[r].op \in Pictures /\ requests[r].at = "sent"
    BY <1>6, SettingsBounds DEF Begins, Continues
  <2> QED BY <1>3, <2>1, FilesStay
<1>9. requests'[s].alone => LoneIsSound(s)'
  <2> SUFFICES ASSUME requests'[s].alone PROVE LoneIsSound(s)'
    OBVIOUS
  <2>1. Underway = {} /\ \A r \in Slots \ {s} : requests'[r].op = "none"
    BY <1>6, NothingAsked DEF Begins, Continues, Underway
  <2>2. requests'[s].op = "privacy" /\ requests'[s].arg = language /\ requests'[s].at = "sent"
    BY <1>6 DEF Begins
  <2>3. ~ upset => LonePrivacy(s)'
    BY <1>2, <1>3, <1>4, <1>5, <2>1, <2>2
       DEF SettingsInv, QuietPageIsStored, LonePrivacy, SamePictures, ShownLanguage
  <2> QED BY <1>3, <2>1, <2>2, <2>3, SettingsBounds DEF LoneIsSound
<1>10. \A picture \in Pictures : tab'.user.pictures[picture] \in uploads \cup {NoPicture}
  BY <1>2, <1>4 DEF SettingsInv, PicturesExist
<1>11. landed' \in BOOLEAN
  BY <1>3, SettingsTypes
<1> QED BY <1>3, <1>4, <1>6, <1>7, <1>8, <1>9, <1>10, <1>11, BeginKeeps

LEMMA UploadKeeps ==
    ASSUME SettingsInv, NEW picture \in Pictures, Upload(picture) PROVE SettingsInv'
<1>1. /\ Sent(picture, NoName, English) /\ UNCHANGED <<stored, uploads, tab, landed, upset>>
      /\ Cardinality(uploads) + Cardinality(Uploading) <= MaxFiles
  BY DEF Upload
<1>2. PICK s \in Slots : Begins(s, picture, NoName, English)
  BY <1>1, SentBegins, SettingsBounds
<1>3. SavesAreSound'
  <2>1. \A r \in Slots : Heard(r)' => Heard(r) /\ (requests'[r].at = "done" => requests[r].at = "done")
    BY <1>2, SettingsBounds DEF Begins, Continues, Heard
  <2> QED BY <1>1, <2>1, SavesStay
<1>4. FilesAreNumbered'
  <2>1. Uploading' \subseteq Uploading \cup {s}
    BY <1>2, UploadingIs DEF Uploading, Underway, Begins, Continues
  <2>2. /\ IsFiniteSet(Uploading \cup {s})
        /\ Cardinality(Uploading \cup {s}) <= Cardinality(Uploading) + 1
        /\ Cardinality(Uploading \cup {s}) \in Nat
    <3>1. PICK up : up = Uploading
      OBVIOUS
    <3>2. IsFiniteSet(up) /\ Cardinality(up) \in Nat
      BY <3>1, UploadingIs
    <3>3. /\ IsFiniteSet(up \cup {s})
          /\ Cardinality(up \cup {s}) = Cardinality(up) \/ Cardinality(up \cup {s}) = Cardinality(up) + 1
      BY <3>2, FS_AddElement
    <3> QED BY <3>1, <3>2, <3>3
  <2>3. Cardinality(Uploading') <= Cardinality(Uploading) + 1 /\ Cardinality(Uploading') \in Nat
    BY <2>1, <2>2, FS_Subset, FS_CardinalityType, UploadingIs
  <2>4. Cardinality(uploads) \in Nat
    BY UploadsAre, SettingsBounds
  <2> QED BY <1>1, <2>3, <2>4, UploadingIs, SettingsBounds DEF FilesAreNumbered, SettingsInv
<1>5. requests'[s].alone => LoneIsSound(s)'
  <2> SUFFICES ASSUME requests'[s].alone PROVE LoneIsSound(s)'
    OBVIOUS
  <2>1. Underway = {} /\ \A r \in Slots \ {s} : requests'[r].op = "none"
    BY <1>2, NothingAsked DEF Begins, Continues, Underway
  <2>2. requests'[s].op = picture /\ requests'[s].at = "sent"
    BY <1>2 DEF Begins
  <2>3. ~ upset => LonePicture(s)'
    BY <1>1, <2>1, <2>2 DEF SettingsInv, QuietPageIsStored, LonePicture, SamePictures,
       SameLanguage, ShownLanguage
  <2> QED BY <1>1, <2>1, <2>2, <2>3, SettingsBounds DEF LoneIsSound
<1>6. /\ tab' \in Tabs /\ landed' \in BOOLEAN
      /\ \A p \in Pictures : tab'.user.pictures[p] \in uploads \cup {NoPicture}
  BY <1>1, SettingsTypes DEF SettingsInv, PicturesExist
<1> QED BY <1>1, <1>2, <1>3, <1>4, <1>5, <1>6, BeginKeeps, SettingsBounds

\* The server handles a request, or the request fails.
LEMMA ServeProfileKeeps ==
    ASSUME SettingsInv, NEW s \in Slots, ServeProfile(s) PROVE SettingsInv'
<1> DEFINE r == requests[s]
           q == [r EXCEPT !.at = "done", !.seen = stored]
<1>1. /\ requests' = [requests EXCEPT ![s] = q] /\ r.op = "profile" /\ r.at = "sent"
      /\ UNCHANGED <<stored, uploads, tab, landed, upset>>
  BY DEF ServeProfile, AtStep
<1>2. r \in Requests /\ stored \in UserRows /\ q = [r EXCEPT !.at = "done", !.seen = stored]
  BY SettingsTypes
<1>3. r = requests[s]
  OBVIOUS
<1> HIDE DEF r, q
<1>4. /\ q \in Requests /\ q.op = r.op /\ q.arg = r.arg /\ q.was = r.was /\ q.heard = r.heard
      /\ q.alone = r.alone /\ q.at = "done" /\ q.seen = stored
  BY <1>2 DEF Requests
<1>5. requests'[s] = q /\ Moves(s)
  BY <1>1, <1>3, <1>4, SettingsTypes DEF Moves
<1>6. RequestIsSound(s)'
  BY <1>1, <1>3, <1>4, <1>5, SettingsBounds DEF RequestIsSound, SettingsInv, PicturesExist
<1>7. requests[s].alone => LoneIsSound(s)'
  BY <1>1, <1>3, <1>4, <1>5, SettingsBounds DEF LoneIsSound, LoneProfile, SettingsInv, Moves
<1>8. FilesAreNumbered'
  <2>1. \A x \in Slots : requests'[x].op \in Pictures /\ requests'[x].at = "sent" =>
            requests[x].op \in Pictures /\ requests[x].at = "sent"
    BY <1>4, <1>5 DEF Moves
  <2> QED BY <1>1, <2>1, FilesStay
<1>9. /\ stored' \in UserRows /\ uploads' \subseteq 0 .. MaxFiles /\ landed' \in BOOLEAN
      /\ \A picture \in Pictures : stored'.pictures[picture] \in uploads'
  BY <1>1, SettingsTypes DEF SettingsInv, PicturesExist
<1>10. requests[s].op # "none" /\ ~ Heard(s)
  BY <1>1, <1>3 DEF Heard
<1> QED BY <1>1, <1>5, <1>6, <1>7, <1>8, <1>9, <1>10, MoveKeeps

\* The three ways in which only the stage of a request changes.
LEMMA StageMoves ==
    ASSUME SettingsInv, NEW s \in Slots, NEW at \in {"written", "done", "refused"},
           requests' = [requests EXCEPT ![s].at = at]
    PROVE  /\ Moves(s) /\ requests'[s].at = at /\ requests'[s].seen = requests[s].seen
           /\ requests'[s].file = requests[s].file
<1> DEFINE r == requests[s]
           q == [r EXCEPT !.at = at]
<1>1. requests' = [requests EXCEPT ![s] = q] /\ q = [r EXCEPT !.at = at] /\ r = requests[s]
  OBVIOUS
<1>2. r \in Requests
  BY SettingsTypes
<1> HIDE DEF r, q
<1>3. /\ q \in Requests /\ q.op = r.op /\ q.arg = r.arg /\ q.was = r.was /\ q.heard = r.heard
      /\ q.alone = r.alone /\ q.at = at /\ q.seen = r.seen /\ q.file = r.file
  BY <1>1, <1>2 DEF Requests
<1> QED BY <1>1, <1>3, SettingsTypes DEF Moves

LEMMA NoNewUpload ==
    ASSUME SettingsInv, NEW s \in Slots, Moves(s), requests'[s].at # "sent", uploads' = uploads
    PROVE  FilesAreNumbered'
<1>1. \A x \in Slots : requests'[x].op \in Pictures /\ requests'[x].at = "sent" =>
          requests[x].op \in Pictures /\ requests[x].at = "sent"
  BY DEF Moves
<1> QED BY <1>1, FilesStay

LEMMA ServeAccountKeeps ==
    ASSUME SettingsInv, NEW s \in Slots, ServeAccount(s) PROVE SettingsInv'
<1>1. /\ requests' = [requests EXCEPT ![s].at = "done"]
      /\ requests[s].op = "account" /\ requests[s].at = "sent"
      /\ stored' = [stored EXCEPT !.account = requests[s].arg]
      /\ landed' = (landed \/ requests[s].heard) /\ UNCHANGED <<uploads, tab, upset>>
  BY DEF ServeAccount, AtStep, updateAccount
<1>2. /\ Moves(s) /\ requests'[s].at = "done" /\ requests'[s].seen = requests[s].seen
  BY <1>1, StageMoves
<1>3. requests[s].arg \in Names \cup {NoName}
  BY <1>1 DEF SettingsInv, RequestIsSound
<1>4. /\ stored' \in UserRows /\ stored'.pictures = stored.pictures
      /\ stored'.language = stored.language
  BY <1>1, <1>3, SettingsTypes DEF UserRows
<1>5. RequestIsSound(s)'
  BY <1>1, <1>2, <1>3, SettingsBounds DEF RequestIsSound, SettingsInv, Moves
<1>6. requests[s].alone => LoneIsSound(s)'
  BY <1>1, <1>2, <1>4, SettingsBounds DEF LoneIsSound, LoneAccount, SettingsInv, Moves,
     SamePictures, SameLanguage, ShownLanguage
<1>7. FilesAreNumbered'
  BY <1>1, <1>2, NoNewUpload
<1>8. /\ uploads' \subseteq 0 .. MaxFiles /\ landed' \in BOOLEAN
      /\ \A picture \in Pictures : stored'.pictures[picture] \in uploads'
  BY <1>1, <1>4, SettingsTypes, RequestTypes DEF SettingsInv, PicturesExist
<1>9. /\ requests[s].op # "none" /\ (Heard(s) => landed') /\ (landed => landed')
  BY <1>1 DEF Heard
<1> QED BY <1>1, <1>2, <1>4, <1>5, <1>6, <1>7, <1>8, <1>9, MoveKeeps

LEMMA ServePrivacyKeeps ==
    ASSUME SettingsInv, NEW s \in Slots, ServePrivacy(s) PROVE SettingsInv'
<1>1. /\ requests' = [requests EXCEPT ![s].at = "done"]
      /\ requests[s].op = "privacy" /\ requests[s].at = "sent"
      /\ stored' = [stored EXCEPT !.language = requests[s].arg]
      /\ UNCHANGED <<uploads, tab, landed, upset>>
  BY DEF ServePrivacy, AtStep, updateUserGeneralInfo
<1>2. /\ Moves(s) /\ requests'[s].at = "done" /\ requests'[s].seen = requests[s].seen
  BY <1>1, StageMoves
<1>3. requests[s].arg \in Languages
  BY <1>1 DEF SettingsInv, RequestIsSound
<1>4. /\ stored' \in UserRows /\ stored'.pictures = stored.pictures
      /\ stored'.language = requests[s].arg
  BY <1>1, <1>3, SettingsTypes DEF UserRows
<1>5. RequestIsSound(s)'
  BY <1>1, <1>2, <1>3, SettingsBounds DEF RequestIsSound, SettingsInv, Moves
<1>6. requests[s].alone => LoneIsSound(s)'
  BY <1>1, <1>2, <1>4, SettingsBounds DEF LoneIsSound, LonePrivacy, SettingsInv, Moves,
     SamePictures, ShownLanguage
<1>7. FilesAreNumbered'
  BY <1>1, <1>2, NoNewUpload
<1>8. /\ uploads' \subseteq 0 .. MaxFiles /\ landed' \in BOOLEAN
      /\ \A picture \in Pictures : stored'.pictures[picture] \in uploads'
  BY <1>1, <1>4, SettingsTypes DEF SettingsInv, PicturesExist
<1>9. requests[s].op # "none" /\ ~ Heard(s)
  BY <1>1 DEF Heard
<1> QED BY <1>1, <1>2, <1>4, <1>5, <1>6, <1>7, <1>8, <1>9, MoveKeeps

LEMMA WriteFileKeeps ==
    ASSUME SettingsInv, NEW s \in Slots, WriteFile(s) PROVE SettingsInv'
<1>1. PICK n \in 0 .. MaxFiles : uploads = 0 .. n /\ Cardinality(uploads) = n + 1
  BY UploadsAre
<1> DEFINE file == n + 1
           r == requests[s]
           q == [r EXCEPT !.at = "written", !.file = file]
<1>2. /\ requests' = [requests EXCEPT ![s] = q] /\ q = [r EXCEPT !.at = "written", !.file = file]
      /\ r = requests[s] /\ s \in Uploading /\ uploads' = uploads \cup {file}
      /\ UNCHANGED <<stored, tab, landed, upset>>
  BY <1>1 DEF WriteFile
<1>3. r.op \in Pictures /\ r.at = "sent" /\ r \in Requests
  BY <1>2, UploadingIs, SettingsTypes
<1>4. /\ IsFiniteSet(Uploading) /\ Cardinality(Uploading) \in Nat
      /\ IsFiniteSet(Uploading \ {s}) /\ Cardinality(Uploading \ {s}) = Cardinality(Uploading) - 1
      /\ Cardinality(Uploading \ {s}) \in Nat
  <2>1. PICK up : up = Uploading
    OBVIOUS
  <2>2. IsFiniteSet(up) /\ Cardinality(up) \in Nat /\ s \in up
    BY <1>2, <2>1, UploadingIs
  <2>3. IsFiniteSet(up \ {s}) /\ Cardinality(up \ {s}) = Cardinality(up) - 1
    BY <2>2, FS_RemoveElement
  <2>4. Cardinality(up \ {s}) \in Nat
    BY <2>3, FS_CardinalityType
  <2> QED BY <2>1, <2>2, <2>3, <2>4
<1>5. n + 1 + Cardinality(Uploading) <= MaxFiles + 1
  BY <1>1 DEF SettingsInv, FilesAreNumbered
<1>6. file \in 0 .. MaxFiles
  BY <1>1, <1>4, <1>5, SettingsBounds
<1>7. uploads' = 0 .. n + 1
  BY <1>1, <1>2
<1>8. file \in uploads'
  BY <1>2
<1> HIDE DEF file, r, q
<1>9. /\ q \in Requests /\ q.op = r.op /\ q.arg = r.arg /\ q.was = r.was /\ q.heard = r.heard
      /\ q.alone = r.alone /\ q.at = "written" /\ q.file = file /\ q.seen = r.seen
  BY <1>2, <1>3, <1>6 DEF Requests
<1>10. requests'[s] = q /\ Moves(s)
  BY <1>2, <1>9, SettingsTypes DEF Moves
<1>11. FilesAreNumbered'
  <2>1. Uploading' \subseteq Uploading \ {s}
    <3>1. \A x \in Slots : requests'[x].op \in Pictures /\ requests'[x].at = "sent" =>
              x # s /\ requests[x].op \in Pictures /\ requests[x].at = "sent"
      BY <1>9, <1>10 DEF Moves
    <3> QED BY <3>1, UploadingIs DEF Uploading, Underway
  <2>2. Cardinality(Uploading') <= Cardinality(Uploading) - 1 /\ Cardinality(Uploading') \in Nat
    BY <1>4, <2>1, FS_Subset, FS_CardinalityType
  <2>3. n + 1 \in 0 .. MaxFiles
    BY <1>6 DEF file
  <2>4. Cardinality(uploads') = n + 2
    BY <1>1, <1>7, FS_Interval, SettingsBounds
  <2>5. Cardinality(uploads') + Cardinality(Uploading') <= MaxFiles + 1
    BY <1>1, <1>4, <1>5, <2>2, <2>4, SettingsBounds
  <2> QED BY <1>7, <2>3, <2>5 DEF FilesAreNumbered
<1>12. RequestIsSound(s)'
  BY <1>2, <1>3, <1>8, <1>9, <1>10, SettingsBounds DEF RequestIsSound, SettingsInv
<1>13. requests[s].alone => LoneIsSound(s)'
  BY <1>2, <1>3, <1>9, <1>10, SettingsBounds DEF LoneIsSound, LonePicture, SettingsInv, Moves,
     SamePictures, SameLanguage, ShownLanguage
<1>14. /\ stored' \in UserRows /\ uploads' \subseteq 0 .. MaxFiles /\ landed' \in BOOLEAN
       /\ uploads \subseteq uploads'
       /\ \A picture \in Pictures : stored'.pictures[picture] \in uploads'
  BY <1>2, <1>6, SettingsTypes DEF SettingsInv, PicturesExist
<1>15. requests[s].op # "none" /\ ~ Heard(s)
  BY <1>2, <1>3, SettingsBounds DEF Heard
<1> QED BY <1>2, <1>10, <1>11, <1>12, <1>13, <1>14, <1>15, MoveKeeps

LEMMA UpdateImageKeeps ==
    ASSUME SettingsInv, NEW s \in Slots, UpdateImage(s) PROVE SettingsInv'
<1>1. PICK picture : picture = requests[s].op
  OBVIOUS
<1>2. PICK file : file = requests[s].file
  OBVIOUS
<1> DEFINE pictures == [stored.pictures EXCEPT ![picture] = file]
<1>3. /\ requests' = [requests EXCEPT ![s].at = "done"] /\ requests[s].at = "written"
      /\ stored' = [stored EXCEPT !.pictures = pictures]
      /\ UNCHANGED <<uploads, tab, landed, upset>>
  BY <1>1, <1>2 DEF UpdateImage, updateImage
<1>4. picture \in Pictures /\ file \in uploads
  BY <1>1, <1>2, <1>3 DEF SettingsInv, RequestIsSound
<1>5. /\ Moves(s) /\ requests'[s].at = "done" /\ requests'[s].seen = requests[s].seen
      /\ requests'[s].file = file
  BY <1>2, <1>3, StageMoves
<1>6. /\ pictures \in [Pictures -> 0 .. MaxFiles \cup {NoPicture}]
      /\ \A p \in Pictures : pictures[p] \in uploads
  BY <1>4, SettingsTypes, RowTypes DEF SettingsInv, PicturesExist
<1>7. pictures = [stored.pictures EXCEPT ![picture] = file]
  OBVIOUS
<1> HIDE DEF pictures
<1>8. /\ stored' \in UserRows /\ stored'.pictures = pictures
      /\ stored'.language = stored.language
  BY <1>3, <1>6, SettingsTypes DEF UserRows
<1>9. RequestIsSound(s)'
  BY <1>1, <1>3, <1>4, <1>5, SettingsBounds DEF RequestIsSound, SettingsInv, Moves
<1>10. requests[s].alone => LoneIsSound(s)'
  <2> SUFFICES ASSUME requests[s].alone PROVE LoneIsSound(s)'
    OBVIOUS
  <2>1. \A r \in Slots \ {s} : requests'[r].op = "none"
    BY <1>5 DEF SettingsInv, LoneIsSound, Moves
  <2>2. requests'[s].op = picture
    BY <1>1, <1>5 DEF Moves
  <2>3. ~ upset => LonePicture(s)
    BY <1>1, <1>4 DEF SettingsInv, LoneIsSound
  <2>4. ~ upset => LonePicture(s)'
    BY <1>3, <1>5, <1>7, <1>8, <2>2, <2>3 DEF LonePicture, SamePictures, SameLanguage, ShownLanguage
  <2> QED BY <1>3, <1>4, <2>1, <2>2, <2>4, SettingsBounds DEF LoneIsSound
<1>11. FilesAreNumbered'
  BY <1>3, <1>5, NoNewUpload
<1>12. /\ uploads' \subseteq 0 .. MaxFiles /\ landed' \in BOOLEAN
       /\ \A p \in Pictures : stored'.pictures[p] \in uploads'
  BY <1>3, <1>6, <1>8, SettingsTypes
<1>13. requests[s].op # "none" /\ ~ Heard(s)
  BY <1>1, <1>4, SettingsBounds DEF Heard
<1> QED BY <1>3, <1>5, <1>8, <1>9, <1>10, <1>11, <1>12, <1>13, MoveKeeps

LEMMA FailedMoveKeeps ==
    ASSUME SettingsInv, NEW s \in Slots, Moves(s), requests[s].op # "none",
           requests'[s].at \in {"refused", "broken"},
           requests'[s].seen \in {requests[s].seen, EmptyUser},
           UNCHANGED <<stored, uploads, tab, landed, upset>>
    PROVE  SettingsInv'
<1>1. RequestIsSound(s)'
  BY NothingAsked DEF RequestIsSound, SettingsInv, Moves
<1>2. requests[s].alone => LoneIsSound(s)'
  <2> SUFFICES ASSUME requests[s].alone PROVE LoneIsSound(s)'
    OBVIOUS
  <2>1. \A r \in Slots \ {s} : requests'[r].op = "none"
    BY DEF SettingsInv, LoneIsSound, Moves
  <2>2. LoneIsSound(s)
    BY DEF SettingsInv
  <2> QED BY <2>1, <2>2 DEF LoneIsSound, Moves, LoneProfile, LoneAccount, LonePrivacy,
             LonePicture, SamePictures, SameLanguage, ShownLanguage
<1>3. FilesAreNumbered'
  BY NoNewUpload
<1>4. /\ stored' \in UserRows /\ uploads' \subseteq 0 .. MaxFiles /\ landed' \in BOOLEAN
      /\ \A p \in Pictures : stored'.pictures[p] \in uploads'
  BY SettingsTypes DEF SettingsInv, PicturesExist
<1> QED BY <1>1, <1>2, <1>3, <1>4, MoveKeeps

LEMMA RefuseKeeps ==
    ASSUME SettingsInv, NEW s \in Slots, Refuse(s) PROVE SettingsInv'
<1>1. /\ Moves(s) /\ requests'[s].at = "refused" /\ requests'[s].seen = requests[s].seen
  BY StageMoves DEF Refuse
<1>2. requests[s].op # "none" /\ UNCHANGED <<stored, uploads, tab, landed, upset>>
  BY SettingsTypes DEF Refuse
<1> QED BY <1>1, <1>2, FailedMoveKeeps

LEMMA BreakOffKeeps ==
    ASSUME SettingsInv, NEW s \in Slots, BreakOff(s) PROVE SettingsInv'
<1> DEFINE r == requests[s]
           q == [r EXCEPT !.at = "broken", !.seen = EmptyUser]
<1>1. /\ requests' = [requests EXCEPT ![s] = q] /\ s \in Underway
      /\ UNCHANGED <<stored, uploads, tab, landed, upset>>
  BY DEF BreakOff
<1>2. r \in Requests /\ EmptyUser \in UserRows /\ q = [r EXCEPT !.at = "broken", !.seen = EmptyUser]
  BY SettingsTypes, NothingAsked
<1>3. r = requests[s]
  OBVIOUS
<1> HIDE DEF r, q
<1>4. /\ q \in Requests /\ q.op = r.op /\ q.arg = r.arg /\ q.was = r.was /\ q.heard = r.heard
      /\ q.alone = r.alone /\ q.at = "broken" /\ q.seen = EmptyUser
  BY <1>2 DEF Requests
<1>5. requests'[s] = q /\ Moves(s) /\ requests[s].op # "none"
  BY <1>1, <1>3, <1>4, SettingsTypes DEF Moves
<1> QED BY <1>1, <1>4, <1>5, FailedMoveKeeps

LEMMA ChangedElsewhereKeeps ==
    ASSUME SettingsInv, NEW language \in Languages, ChangedElsewhere(language)
    PROVE  SettingsInv'
<1>1. /\ requests' = [s \in Slots |-> Overlapped(requests[s])]
      /\ stored' = [stored EXCEPT !.language = language] /\ upset'
      /\ upset' \in BOOLEAN /\ UNCHANGED <<uploads, tab, landed>>
  BY DEF ChangedElsewhere, updateUserGeneralInfo
<1>2. stored' \in UserRows /\ stored'.pictures = stored.pictures
  BY <1>1, SettingsTypes DEF UserRows
<1>3. \A s \in Slots : requests'[s] = Overlapped(requests[s]) /\ requests[s] \in Requests
  BY <1>1, SettingsTypes
<1>4. \A s \in Slots : /\ Continues(s) /\ ~ requests'[s].alone /\ requests'[s] \in Requests
                       /\ requests'[s].heard = requests[s].heard
  BY <1>3, OverlappedContinues DEF Continues
<1>5. SettingsTypeOK'
  BY <1>1, <1>2, <1>4, SettingsTypes DEF SettingsTypeOK
<1>6. PicturesExist' /\ QuietPageIsStored'
  BY <1>1, <1>2 DEF SettingsInv, PicturesExist, QuietPageIsStored
<1>7. SavesAreSound'
  <2>1. \A r \in Slots : Heard(r)' => Heard(r) /\ (requests'[r].at = "done" => requests[r].at = "done")
    BY <1>4 DEF Continues, Heard
  <2> QED BY <1>1, <2>1, SavesStay
<1>8. FilesAreNumbered'
  <2>1. \A r \in Slots : requests'[r].op \in Pictures /\ requests'[r].at = "sent" =>
            requests[r].op \in Pictures /\ requests[r].at = "sent"
    BY <1>4 DEF Continues
  <2> QED BY <1>1, <2>1, FilesStay
<1>9. \A s \in Slots : RequestIsSound(s)'
  BY <1>1, <1>4, SoundRequest DEF SettingsInv
<1>10. \A s \in Slots : LoneIsSound(s)'
  BY <1>4 DEF LoneIsSound
<1> QED BY <1>5, <1>6, <1>7, <1>8, <1>9, <1>10 DEF SettingsInv

\* The answers.
LEMMA FormStays ==
    ASSUME SettingsInv, NEW s \in Slots, requests[s].op # "none", Taken(s),
           tab'.saving = tab.saving, tab'.saved = tab.saved
    PROVE  SavesAreSound'
<1>1. \A r \in Slots : Heard(r)' => Heard(r) /\ (requests'[r].at = "done" => requests[r].at = "done")
  BY TakenIs, NothingAsked DEF Heard
<1> QED BY <1>1, TakenIs, SavesStay

LEMMA TakeProfileKeeps ==
    ASSUME SettingsInv, NEW s \in Slots, TakeProfile(s) PROVE SettingsInv'
<1> DEFINE was == requests[s].was
           t == [tab EXCEPT !.language = was]
<1>1. /\ tab' = WithUser(t, requests[s].seen) /\ Taken(s) /\ requests[s].op = "profile"
      /\ requests[s].at = "done"
  BY DEF TakeProfile, Answered
<1>2. was \in Languages /\ requests[s].seen \in UserRows
  BY SettingsTypes, RequestTypes
<1>3. was = requests[s].was
  OBVIOUS
<1> HIDE DEF was
<1>4. /\ t \in Tabs /\ t.user = tab.user /\ t.page = tab.page /\ t.saving = tab.saving
      /\ t.saved = tab.saved /\ t.language = was
  BY <1>2, SettingsTypes DEF Tabs
<1> HIDE DEF t
<1>5. /\ tab' \in Tabs /\ tab'.user = requests[s].seen /\ tab'.page = tab.page
      /\ tab'.saving = tab.saving /\ tab'.saved = tab.saved
      /\ tab.page = "settings" /\ requests[s].seen.language # tab.user.language =>
            tab'.language = requests[s].seen.language
      /\ requests[s].seen.language = tab.user.language => tab'.language = was
  BY <1>1, <1>2, <1>4, WithUserIs
<1>6. \A picture \in Pictures : tab'.user.pictures[picture] \in uploads \cup {NoPicture}
  BY <1>1, <1>5 DEF SettingsInv, RequestIsSound
<1>7. SavesAreSound'
  BY <1>1, <1>5, FormStays
<1>8. ASSUME ~ upset'
      PROVE  /\ tab'.user.pictures = stored.pictures
             /\ tab'.user.language = stored.language
             /\ tab'.page = "settings" => tab'.language = stored.language
  <2>1. requests[s].alone
    BY <1>1, <1>8, TakenIs
  <2>2. was = tab.user.language /\ requests[s].seen = stored
    BY <1>1, <1>3, <2>1 DEF SettingsInv, LoneIsSound, LoneProfile
  <2> QED BY <1>5, <2>2
<1> QED BY <1>1, <1>5, <1>6, <1>7, <1>8, TakenKeeps

LEMMA SentToSignInKeeps ==
    ASSUME SettingsInv, NEW s \in Slots, SentToSignIn(s) PROVE SettingsInv'
<1>1. /\ tab' = Mounted(tab, "elsewhere") /\ upset' /\ upset' \in BOOLEAN
      /\ UNCHANGED <<stored, uploads, landed>> /\ requests[s].op = "profile"
      /\ requests' = [r \in Slots |-> IF r = s \/ r \notin Underway THEN NoRequest
                                      ELSE [requests[r] EXCEPT !.heard = @ /\ requests[r].op # "account"]]
  BY DEF SentToSignIn, Answered
<1>2. /\ tab' \in Tabs /\ tab'.user = tab.user /\ tab'.saving = "no" /\ ~ tab'.saved
  BY <1>1, SettingsTypes, MountedIs
<1>3. \A r \in Slots : ~ requests[r].alone \/ r = s
  BY <1>1 DEF SettingsInv, LoneIsSound
<1>4. ASSUME NEW r \in Slots
      PROVE  /\ requests'[r] \in Requests /\ ~ requests'[r].alone
             /\ requests'[r].op = "account" => ~ requests'[r].heard
             /\ r = s => requests'[r] = NoRequest
             /\ r # s => Continues(r)
  <2>1. CASE r = s \/ r \notin Underway
    <3>1. requests'[r] = NoRequest /\ (r # s => requests[r] = NoRequest)
      BY <1>1, <2>1 DEF Underway
    <3> QED BY <3>1, NothingAsked DEF Continues
  <2>2. CASE r # s /\ r \in Underway
    <3> DEFINE heard == requests[r].heard /\ requests[r].op # "account"
               o == requests[r]
               q == [o EXCEPT !.heard = heard]
    <3>1. requests'[r] = q /\ requests[r] # NoRequest
      BY <1>1, <2>2, Zenon DEF Underway
    <3>2. heard \in BOOLEAN /\ (requests[r].op = "account" => ~ heard)
      OBVIOUS
    <3>3. o = requests[r] /\ q = [o EXCEPT !.heard = heard]
      OBVIOUS
    <3>4. o \in Requests
      BY SettingsTypes
    <3> HIDE DEF heard, o, q
    <3>5. /\ q \in Requests /\ q.op = o.op /\ q.arg = o.arg /\ q.at = o.at /\ q.was = o.was
          /\ q.seen = o.seen /\ q.file = o.file /\ q.alone = o.alone /\ q.heard = heard
      BY <3>2, <3>3, <3>4 DEF Requests
    <3> QED BY <1>3, <2>2, <3>1, <3>2, <3>3, <3>5 DEF Continues
  <2> QED BY <2>1, <2>2
<1>5. SettingsTypeOK'
  BY <1>1, <1>2, <1>4, SettingsTypes DEF SettingsTypeOK
<1>6. PicturesExist' /\ QuietPageIsStored'
  BY <1>1, <1>2 DEF SettingsInv, PicturesExist, QuietPageIsStored
<1>7. SavesAreSound'
  BY <1>2, <1>4 DEF SavesAreSound, Heard
<1>8. FilesAreNumbered'
  <2>1. \A r \in Slots : requests'[r].op \in Pictures /\ requests'[r].at = "sent" =>
            requests[r].op \in Pictures /\ requests[r].at = "sent"
    BY <1>4, NothingAsked, SettingsBounds DEF Continues
  <2> QED BY <1>1, <2>1, FilesStay
<1>9. \A r \in Slots : RequestIsSound(r)'
  <2> TAKE r \in Slots
  <2>1. CASE r = s
    <3>1. requests'[r] = NoRequest
      BY <1>4, <2>1
    <3> QED BY <3>1, NothingAsked, SettingsBounds DEF RequestIsSound
  <2>2. CASE r # s
    <3>1. Continues(r) /\ uploads' = uploads
      BY <1>1, <1>4, <2>2
    <3> QED BY <3>1, SoundRequest DEF SettingsInv
  <2> QED BY <2>1, <2>2
<1>10. \A r \in Slots : LoneIsSound(r)'
  BY <1>4 DEF LoneIsSound
<1> QED BY <1>5, <1>6, <1>7, <1>8, <1>9, <1>10 DEF SettingsInv

LEMMA TakeAccountKeeps ==
    ASSUME SettingsInv, NEW s \in Slots, TakeAccount(s) PROVE SettingsInv'
<1> DEFINE saving == Saving(requests[s].at)
<1>1. /\ Taken(s) /\ requests[s].op = "account"
      /\ requests[s].heard => tab' = [tab EXCEPT !.saving = saving]
      /\ ~ requests[s].heard => tab' = tab
  BY DEF TakeAccount, Answered
<1>2. /\ saving \in {"no", "pause"} /\ (saving = "pause" => requests[s].at = "done")
  BY DEF Saving
<1>3. tab \in Tabs /\ saving \in {"no", "call", "pause"}
  BY <1>2, SettingsTypes
<1> HIDE DEF saving
<1>4. /\ tab' \in Tabs /\ tab'.user = tab.user /\ tab'.page = tab.page
      /\ tab'.language = tab.language /\ tab'.saved = tab.saved
      /\ requests[s].heard => tab'.saving = saving
      /\ ~ requests[s].heard => tab'.saving = tab.saving
  <2>1. CASE requests[s].heard
    <3>1. tab' = [tab EXCEPT !.saving = saving]
      BY <1>1, <2>1
    <3>2. /\ tab' \in Tabs /\ tab'.user = tab.user /\ tab'.page = tab.page
          /\ tab'.language = tab.language /\ tab'.saved = tab.saved /\ tab'.saving = saving
      BY <1>3, <3>1 DEF Tabs
    <3> QED BY <2>1, <3>2
  <2>2. CASE ~ requests[s].heard
    BY <1>1, <1>3, <2>2
  <2> QED BY <2>1, <2>2
<1>5. SavesAreSound'
  <2>1. CASE ~ requests[s].heard
    BY <1>1, <1>4, <2>1, FormStays
  <2>2. CASE requests[s].heard
    <3>1. Heard(s)
      BY <1>1, <2>2 DEF Heard
    <3>2. \A r \in Slots : ~ Heard(r)'
      BY <1>1, <3>1, TakenIs, NothingAsked DEF Heard, SettingsInv, SavesAreSound
    <3>3. tab'.saving = "pause" => landed
      BY <1>2, <1>4, <2>2, <3>1 DEF SettingsInv, SavesAreSound
    <3>4. tab'.saved => landed
      BY <1>4 DEF SettingsInv, SavesAreSound
    <3> QED BY <1>1, <3>2, <3>3, <3>4, TakenIs DEF SavesAreSound
  <2> QED BY <2>1, <2>2
<1>6. ASSUME ~ upset'
      PROVE  /\ tab'.user.pictures = stored.pictures
             /\ tab'.user.language = stored.language
             /\ tab'.page = "settings" => tab'.language = stored.language
  <2>1. requests[s].alone /\ ~ upset
    BY <1>1, <1>6, TakenIs
  <2>2. LoneAccount(s)
    BY <1>1, <2>1 DEF SettingsInv, LoneIsSound
  <2> QED BY <1>4, <2>2 DEF LoneAccount, SamePictures, SameLanguage, ShownLanguage
<1>7. \A picture \in Pictures : tab'.user.pictures[picture] \in uploads \cup {NoPicture}
  BY <1>4 DEF SettingsInv, PicturesExist
<1> QED BY <1>1, <1>4, <1>5, <1>6, <1>7, TakenKeeps

LEMMA TakePrivacyKeeps ==
    ASSUME SettingsInv, NEW s \in Slots, TakePrivacy(s) PROVE SettingsInv'
<1>1. Taken(s) /\ requests[s].op = "privacy" /\ tab' = tab
  BY DEF TakePrivacy, Answered
<1>2. SavesAreSound'
  BY <1>1, FormStays
<1>3. ASSUME ~ upset'
      PROVE  /\ tab'.user.pictures = stored.pictures
             /\ tab'.user.language = stored.language
             /\ tab'.page = "settings" => tab'.language = stored.language
  <2>1. requests[s].alone /\ ~ upset /\ requests[s].at = "done"
    BY <1>1, <1>3, TakenIs
  <2>2. LonePrivacy(s)
    BY <1>1, <2>1 DEF SettingsInv, LoneIsSound
  <2> QED BY <1>1, <2>1, <2>2 DEF LonePrivacy, SamePictures, ShownLanguage
<1>4. tab' \in Tabs /\ \A picture \in Pictures : tab'.user.pictures[picture] \in uploads \cup {NoPicture}
  BY <1>1, SettingsTypes DEF SettingsInv, PicturesExist
<1> QED BY <1>1, <1>2, <1>3, <1>4, TakenKeeps

LEMMA TakePictureKeeps ==
    ASSUME SettingsInv, NEW s \in Slots, NEW picture \in Pictures, TakePicture(s, picture)
    PROVE  SettingsInv'
<1>1. PICK path : path = PathOf(requests[s])
  OBVIOUS
<1> DEFINE pictures == [tab.user.pictures EXCEPT ![picture] = path]
           user == [tab.user EXCEPT !.pictures = pictures]
<1>2. /\ Taken(s) /\ requests[s].op = picture
      /\ requests[s].at = "broken" => tab' = tab
      /\ requests[s].at # "broken" => tab' = WithUser(tab, user)
  BY <1>1 DEF TakePicture, Answered
<1>3. requests[s].at = "done" => path = requests[s].file /\ path \in uploads
  BY <1>1, <1>2 DEF PathOf, SettingsInv, RequestIsSound
<1>4. requests[s].at # "done" => path = NoPicture
  BY <1>1 DEF PathOf
<1>5. /\ pictures \in [Pictures -> 0 .. MaxFiles \cup {NoPicture}]
      /\ \A p \in Pictures : pictures[p] \in uploads \cup {NoPicture}
  BY <1>3, <1>4, SettingsTypes, TabTypes, RowTypes DEF SettingsInv, PicturesExist
<1>6. pictures = [tab.user.pictures EXCEPT ![picture] = path]
  OBVIOUS
<1> HIDE DEF pictures
<1>7. user \in UserRows /\ user.pictures = pictures /\ user.language = tab.user.language
  BY <1>5, SettingsTypes, TabTypes DEF UserRows
<1> HIDE DEF user
<1>8. /\ tab' \in Tabs /\ tab'.page = tab.page /\ tab'.saving = tab.saving
      /\ tab'.saved = tab.saved /\ tab'.language = tab.language
      /\ tab'.user.language = tab.user.language
      /\ requests[s].at # "broken" => tab'.user.pictures = pictures
      /\ requests[s].at = "broken" => tab' = tab
  <2>1. CASE requests[s].at = "broken"
    BY <1>2, <2>1, SettingsTypes
  <2>2. CASE requests[s].at # "broken"
    BY <1>2, <1>7, <2>2, SettingsTypes, WithUserIs
  <2> QED BY <2>1, <2>2
<1>9. requests[s].op # "none"
  BY <1>2, SettingsBounds
<1>10. SavesAreSound'
  BY <1>2, <1>8, <1>9, FormStays
<1>11. ASSUME ~ upset'
       PROVE  /\ tab'.user.pictures = stored.pictures
              /\ tab'.user.language = stored.language
              /\ tab'.page = "settings" => tab'.language = stored.language
  <2>1. requests[s].alone /\ ~ upset /\ requests[s].at = "done"
    BY <1>2, <1>9, <1>11, TakenIs, SettingsBounds
  <2>2. LonePicture(s)
    BY <1>2, <2>1 DEF SettingsInv, LoneIsSound
  <2> QED BY <1>2, <1>3, <1>6, <1>8, <2>1, <2>2 DEF LonePicture, SameLanguage, ShownLanguage
<1>12. \A p \in Pictures : tab'.user.pictures[p] \in uploads \cup {NoPicture}
  BY <1>5, <1>8 DEF SettingsInv, PicturesExist
<1> QED BY <1>2, <1>8, <1>9, <1>10, <1>11, <1>12, TakenKeeps

LEMMA SettingsStart == SettingsInit => SettingsInv
<1> SUFFICES ASSUME SettingsInit PROVE SettingsInv
  OBVIOUS
<1>1. \A s \in Slots : requests[s] = NoRequest
  BY DEF SettingsInit
<1>2. 0 \in 0 .. MaxFiles /\ 0 \in 0 .. MaxFading
  BY SettingsBounds
<1>3. /\ stored \in UserRows /\ \A picture \in Pictures : stored.pictures[picture] = 0
  BY <1>2 DEF SettingsInit, UserRows
<1>4. EmptyUser \in UserRows /\ English \in Languages
  BY NothingAsked, SettingsBounds
<1>5. tab \in Tabs /\ tab.user = EmptyUser /\ tab.saving = "no" /\ ~ tab.saved
  BY <1>2, <1>4 DEF SettingsInit, Tabs
<1>6. SettingsTypeOK
  BY <1>2, <1>3, <1>5, NothingAsked DEF SettingsInit, SettingsTypeOK
<1>7. PicturesExist /\ QuietPageIsStored
  BY <1>3, <1>5, NothingAsked DEF SettingsInit, PicturesExist, QuietPageIsStored
<1>8. FilesAreNumbered
  <2>1. Uploading = {}
    BY <1>1 DEF Uploading, Underway
  <2>2. uploads = 0 .. 0 /\ Cardinality(uploads) = 1
    <3>1. uploads = {0}
      BY DEF SettingsInit
    <3>2. Cardinality({0}) = 1
      BY FS_Singleton, Zenon
    <3>3. {0} = 0 .. 0
      OBVIOUS
    <3> QED BY <3>1, <3>2, <3>3
  <2>3. Cardinality(Uploading) = 0
    BY <2>1, FS_EmptySet
  <2> QED BY <1>2, <2>2, <2>3, SettingsBounds DEF FilesAreNumbered
<1>9. SavesAreSound
  BY <1>1, <1>5, NothingAsked DEF SavesAreSound, Heard
<1>10. \A s \in Slots : RequestIsSound(s) /\ LoneIsSound(s)
  BY <1>1, NothingAsked, SettingsBounds DEF RequestIsSound, LoneIsSound
<1> QED BY <1>6, <1>7, <1>8, <1>9, <1>10 DEF SettingsInv

LEMMA SettingsStep == SettingsInv /\ [SettingsNext]_settingsVars => SettingsInv'
<1> SUFFICES ASSUME SettingsInv, [SettingsNext]_settingsVars PROVE SettingsInv'
  OBVIOUS
<1>1. CASE UNCHANGED settingsVars
  <2>1. UNCHANGED <<stored, uploads, tab, requests, landed, upset>>
    BY <1>1 DEF settingsVars
  <2>2. SavesAreSound'
    BY <2>1, SavesStay DEF Heard
  <2> QED BY <2>1, <2>2, SettingsTypes, TabKeeps
<1>2. CASE SettingsNext
  BY <1>2, OpenKeeps, GoToKeeps, TypeKeeps, SaveKeeps, SettleKeeps, FadeKeeps,
     ChooseLanguageKeeps, ChangedElsewhereKeeps, UploadKeeps, TakePictureKeeps,
     ServeProfileKeeps, ServeAccountKeeps, ServePrivacyKeeps, WriteFileKeeps, UpdateImageKeeps,
     RefuseKeeps, BreakOffKeeps, TakeProfileKeeps, SentToSignInKeeps, TakeAccountKeeps,
     TakePrivacyKeeps
     DEF SettingsNext
<1> QED BY <1>1, <1>2

(***************************************************************************)
(* What the settings page shows has been stored, however its requests      *)
(* overlap, are refused and break off.                                     *)
(***************************************************************************)
THEOREM SettingsStored == SettingsSpec => []SettingsAreStored
<1>1. SettingsInv => SettingsAreStored
  BY DEF SettingsInv, SavesAreSound, SettingsAreStored, SavedIsStored
<1> QED BY <1>1, SettingsStart, SettingsStep, PTL DEF SettingsSpec

(***************************************************************************)
(* SearchBox: the invariant.  While no text waits for the pause, a text in *)
(* the box is the word that was sent last, and what its answer has found   *)
(* is shown unless another answer has come since.                          *)
(***************************************************************************)
LatestIsShown ==
    box.typed = Unsaid /\ box.input \in Words =>
        /\ \A s \in searches : s.id = sent => s.word = box.input
        /\ answer.id = sent => answer.word = box.input /\ box.results = answer.found
BoxIsSound ==
    /\ box.input \in Words => box.open
    /\ box.typed # Unsaid => box.input \in {box.typed, Blank}
SearchInv ==
    /\ SearchTypeOK
    /\ \A s \in searches : s.id <= sent
    /\ answer.id <= sent
    /\ box.searching => searches # {}
    /\ BoxIsSound /\ LatestIsShown

Boxes == [input : Texts, open : BOOLEAN, searching : BOOLEAN,
          results : SUBSET Others, typed : Texts \cup {Unsaid}]

LEMMA BoxTypes ==
    ASSUME NEW b \in Boxes
    PROVE  /\ b.input \in Texts /\ b.open \in BOOLEAN /\ b.searching \in BOOLEAN
           /\ b.results \subseteq Others /\ b.typed \in Texts \cup {Unsaid}
  BY DEF Boxes

LEMMA SearchTypes ==
    ASSUME SearchInv
    PROVE  /\ box \in Boxes /\ sent \in Nat /\ sent <= MaxSearches /\ MaxSearches \in Nat
           /\ searches \subseteq Searches /\ registered \subseteq Others
           /\ answer \in [id : 0 .. MaxSearches, word : Texts, found : SUBSET Others]
           /\ answer.id \in Nat
  BY SearchAssumption DEF SearchAssumption, SearchInv, SearchTypeOK, Boxes

LEMMA SearchWords ==
    /\ Blank \notin Words /\ Unsaid \notin Texts /\ Blank \in Texts
    /\ \A text \in Texts : text = Blank \/ text \in Words
    /\ \A text \in Words : text \in Texts /\ text # Unsaid
  BY SearchAssumption DEF SearchAssumption, Texts

LEMMA WithInputIs ==
    ASSUME NEW b \in Boxes, NEW text \in Texts, b.input \in Words => b.open
    PROVE  /\ WithInput(b, text) \in Boxes
           /\ WithInput(b, text).input = text
           /\ text \in Words => WithInput(b, text).open
           /\ WithInput(b, text).typed = b.typed
           /\ WithInput(b, text).searching = b.searching
<1>1. CASE text = b.input
  BY <1>1 DEF WithInput
<1>2. CASE text # b.input
  <2> DEFINE open == text # Blank
             results == IF text = Blank THEN {} ELSE b.results
             c == [b EXCEPT !.input = text, !.open = open]
             d == [c EXCEPT !.results = results]
  <2>1. WithInput(b, text) = d
    BY <1>2, Zenon DEF WithInput
  <2>2. open \in BOOLEAN /\ (text \in Words => open)
    BY SearchWords
  <2>3. results \in SUBSET Others
    BY BoxTypes
  <2>4. c = [b EXCEPT !.input = text, !.open = open] /\ d = [c EXCEPT !.results = results]
    OBVIOUS
  <2> HIDE DEF open, results, c, d
  <2>5. /\ c \in Boxes /\ c.input = text /\ c.open = open /\ c.typed = b.typed
        /\ c.searching = b.searching
    BY <2>2, <2>4 DEF Boxes
  <2>6. /\ d \in Boxes /\ d.input = text /\ d.open = open /\ d.typed = b.typed
        /\ d.searching = b.searching
    BY <2>3, <2>4, <2>5 DEF Boxes
  <2> QED BY <2>1, <2>2, <2>6
<1> QED BY <1>1, <1>2

\* The box is emptied or filled, and no search changes.
LEMMA BoxKeeps ==
    ASSUME SearchInv, box' \in Boxes, UNCHANGED <<sent, searches, registered, answer>>,
           box'.searching => box.searching,
           BoxIsSound',
           box'.input \in Words => \/ box'.typed # Unsaid
                                   \/ /\ box'.typed = box.typed /\ box'.input = box.input
                                      /\ box'.results = box.results
    PROVE  SearchInv'
<1>1. SearchTypeOK'
  BY SearchTypes DEF SearchInv, SearchTypeOK, Boxes
<1>2. LatestIsShown'
  BY DEF SearchInv, LatestIsShown
<1> QED BY <1>1, <1>2 DEF SearchInv

LEMMA TypingKeeps ==
    ASSUME SearchInv, NEW text \in Texts, TypeText(text) PROVE SearchInv'
<1> DEFINE b == WithInput(box, text)
<1>1. /\ b \in Boxes /\ b.input = text /\ (text \in Words => b.open)
      /\ b.searching = box.searching
  BY SearchTypes, WithInputIs DEF SearchInv, BoxIsSound
<1>2. box' = [b EXCEPT !.typed = text] /\ UNCHANGED <<sent, searches, registered, answer>>
  BY DEF TypeText
<1>3. text \in Texts \cup {Unsaid}
  OBVIOUS
<1> HIDE DEF b
<1>4. /\ box' \in Boxes /\ box'.input = text /\ box'.open = b.open /\ box'.typed = text
      /\ box'.searching = b.searching
  BY <1>1, <1>2, <1>3 DEF Boxes
<1>5. BoxIsSound'
  BY <1>1, <1>4 DEF BoxIsSound
<1> QED BY <1>1, <1>2, <1>4, <1>5, SearchWords, BoxKeeps

\* The four ways in which the box is emptied.
LEMMA EmptyKeeps ==
    ASSUME SearchInv, UNCHANGED <<sent, searches, registered, answer>>,
           box' \in Boxes, box'.input = Blank, box'.searching = box.searching
    PROVE  SearchInv'
  BY BoxKeeps, SearchWords DEF BoxIsSound

LEMMA BlankIs ==
    ASSUME SearchInv
    PROVE  /\ WithInput(box, Blank) \in Boxes /\ WithInput(box, Blank).input = Blank
           /\ WithInput(box, Blank).searching = box.searching
           /\ [WithInput(box, Blank) EXCEPT !.open = FALSE] \in Boxes
           /\ [WithInput(box, Blank) EXCEPT !.open = FALSE].input = Blank
           /\ [WithInput(box, Blank) EXCEPT !.open = FALSE].searching = box.searching
<1> DEFINE b == WithInput(box, Blank)
<1>1. b \in Boxes /\ b.input = Blank /\ b.searching = box.searching
  BY SearchTypes, WithInputIs, SearchWords DEF SearchInv, BoxIsSound
<1> HIDE DEF b
<1>2. /\ [b EXCEPT !.open = FALSE] \in Boxes /\ [b EXCEPT !.open = FALSE].input = b.input
      /\ [b EXCEPT !.open = FALSE].searching = b.searching
  BY <1>1 DEF Boxes
<1> QED BY <1>1, <1>2 DEF b

LEMMA ClosingKeeps ==
    ASSUME SearchInv, CloseOverlay \/ (\E user \in Others : Pick(user)) \/ Navigate
    PROVE  SearchInv'
<1>1. CASE CloseOverlay \/ (\E user \in Others : Pick(user))
  <2>1. /\ box' = [WithInput(box, Blank) EXCEPT !.open = FALSE]
        /\ UNCHANGED <<sent, searches, registered, answer>>
    BY <1>1 DEF CloseOverlay, Pick
  <2> QED BY <2>1, BlankIs, EmptyKeeps
<1>2. CASE Navigate
  BY <1>2, BlankIs, EmptyKeeps DEF Navigate
<1> QED BY <1>1, <1>2

LEMMA ClearBoxKeeps == SearchInv /\ ClearBox => SearchInv'
<1> SUFFICES ASSUME SearchInv, ClearBox PROVE SearchInv'
  OBVIOUS
<1> DEFINE b == WithInput(box, Blank)
<1>1. /\ box' = [b EXCEPT !.open = FALSE, !.results = {}]
      /\ UNCHANGED <<sent, searches, registered, answer>>
  BY DEF ClearBox
<1>2. b \in Boxes /\ b.input = Blank /\ b.searching = box.searching
  BY BlankIs
<1> HIDE DEF b
<1>3. box' \in Boxes /\ box'.input = Blank /\ box'.searching = b.searching
  BY <1>1, <1>2 DEF Boxes
<1> QED BY <1>1, <1>2, <1>3, EmptyKeeps

LEMMA FocusKeeps == SearchInv /\ Focus => SearchInv'
<1> SUFFICES ASSUME SearchInv, Focus PROVE SearchInv'
  OBVIOUS
<1>1. /\ box' = [box EXCEPT !.open = TRUE] /\ UNCHANGED <<sent, searches, registered, answer>>
  BY DEF Focus
<1>2. box \in Boxes
  BY SearchTypes
<1>3. /\ box' \in Boxes /\ box'.input = box.input /\ box'.open /\ box'.typed = box.typed
      /\ box'.searching = box.searching /\ box'.results = box.results
  BY <1>1, <1>2 DEF Boxes
<1>4. BoxIsSound'
  BY <1>3 DEF SearchInv, BoxIsSound
<1> QED BY <1>1, <1>3, <1>4, BoxKeeps

LEMMA HandleBlankKeeps == SearchInv /\ HandleBlank => SearchInv'
<1> SUFFICES ASSUME SearchInv, HandleBlank PROVE SearchInv'
  OBVIOUS
<1>1. /\ box' = [box EXCEPT !.typed = Unsaid, !.results = {}] /\ box.typed = Blank
      /\ UNCHANGED <<sent, searches, registered, answer>>
  BY DEF HandleBlank
<1>2. box \in Boxes
  BY SearchTypes
<1>3. Unsaid \in Texts \cup {Unsaid} /\ {} \in SUBSET Others
  OBVIOUS
<1>4. box' \in Boxes /\ box'.input = box.input /\ box'.searching = box.searching
  BY <1>1, <1>2, <1>3 DEF Boxes
<1>5. box.input = Blank
  BY <1>1, SearchWords DEF SearchInv, BoxIsSound
<1> QED BY <1>1, <1>4, <1>5, EmptyKeeps

\* A word is sent.
LEMMA HandleSearchKeeps == SearchInv /\ HandleSearch => SearchInv'
<1> SUFFICES ASSUME SearchInv, HandleSearch PROVE SearchInv'
  OBVIOUS
<1> DEFINE word == box.typed
           new == [id |-> sent + 1, word |-> word, at |-> "sent", found |-> {}]
<1>1. /\ word \in Words /\ sent < MaxSearches /\ sent' = sent + 1
      /\ searches' = searches \cup {new}
      /\ box' = [box EXCEPT !.typed = Unsaid, !.searching = TRUE]
      /\ UNCHANGED <<registered, answer>>
  BY DEF HandleSearch
<1>2. new \in Searches /\ new.id = sent + 1 /\ new.word = word
  BY <1>1, SearchTypes DEF Searches
<1>3. box \in Boxes /\ Unsaid \in Texts \cup {Unsaid}
  BY SearchTypes
<1>4. /\ box' \in Boxes /\ box'.input = box.input /\ box'.open = box.open
      /\ box'.typed = Unsaid
  BY <1>1, <1>3 DEF Boxes
<1>5. box.typed = word /\ word # Unsaid
  BY <1>1, SearchWords
<1> HIDE DEF word, new
<1>6. SearchTypeOK'
  BY <1>1, <1>2, <1>4, SearchTypes DEF SearchTypeOK, Boxes
<1>7. \A s \in searches' : s.id <= sent' /\ (s.id = sent' => s = new)
  <2> TAKE s \in searches'
  <2>1. CASE s \in searches
    <3>1. s.id \in Nat /\ s.id <= sent /\ sent \in Nat
      BY <2>1, SearchTypes DEF SearchInv, Searches
    <3> QED BY <1>1, <3>1
  <2>2. CASE s = new
    BY <1>1, <1>2, <2>2, SearchTypes
  <2> QED BY <1>1, <2>1, <2>2
<1>8. answer'.id <= sent' /\ answer'.id # sent'
  BY <1>1, SearchTypes DEF SearchInv
<1>9. BoxIsSound'
  BY <1>4 DEF SearchInv, BoxIsSound
<1>10. box'.input \in Words => box'.input = word
  BY <1>4, <1>5, SearchWords DEF SearchInv, BoxIsSound
<1>11. LatestIsShown'
  BY <1>2, <1>7, <1>8, <1>10 DEF LatestIsShown
<1> QED BY <1>1, <1>6, <1>7, <1>8, <1>9, <1>11 DEF SearchInv

\* A search goes on, with its number and its word.
LEMMA SearchMoves ==
    ASSUME SearchInv, NEW s \in searches, NEW t \in Searches, t.id = s.id, t.word = s.word,
           searches' = (searches \ {s}) \cup {t}, UNCHANGED <<box, sent, registered, answer>>
    PROVE  SearchInv'
<1>1. SearchTypeOK'
  BY SearchTypes DEF SearchInv, SearchTypeOK
<1>2. LatestIsShown'
  BY DEF SearchInv, LatestIsShown
<1> QED BY <1>1, <1>2 DEF SearchInv, BoxIsSound

LEMMA AnswerKeeps ==
    ASSUME SearchInv, NEW s \in searches, ServeSearch(s) \/ FailSearch(s) PROVE SearchInv'
<1>1. s \in Searches
  BY SearchTypes
<1>2. CASE ServeSearch(s)
  <2> DEFINE found == searchForUser(s.word)
             t == [s EXCEPT !.at = "found", !.found = found]
  <2>1. found \in SUBSET Others
    BY SearchTypes DEF searchForUser
  <2>2. /\ t = [s EXCEPT !.at = "found", !.found = found]
        /\ searches' = (searches \ {s}) \cup {t} /\ UNCHANGED <<box, sent, registered, answer>>
    BY <1>2 DEF ServeSearch
  <2> HIDE DEF found, t
  <2>3. t \in Searches /\ t.id = s.id /\ t.word = s.word
    BY <1>1, <2>1, <2>2 DEF Searches
  <2> QED BY <2>2, <2>3, SearchMoves
<1>3. CASE FailSearch(s)
  <2> DEFINE t == [s EXCEPT !.at = "failed", !.found = {}]
  <2>1. /\ t = [s EXCEPT !.at = "failed", !.found = {}]
        /\ searches' = (searches \ {s}) \cup {t} /\ UNCHANGED <<box, sent, registered, answer>>
    BY <1>3 DEF FailSearch
  <2> HIDE DEF t
  <2>2. {} \in SUBSET Others
    OBVIOUS
  <2>3. t \in Searches /\ t.id = s.id /\ t.word = s.word
    BY <1>1, <2>1, <2>2 DEF Searches
  <2> QED BY <2>1, <2>3, SearchMoves
<1> QED BY <1>2, <1>3

LEMMA TakeSearchKeeps ==
    ASSUME SearchInv, NEW s \in searches, TakeSearch(s) PROVE SearchInv'
<1> DEFINE found == s.found
<1>1. /\ searches' = searches \ {s}
      /\ box' = [box EXCEPT !.searching = FALSE, !.results = found]
      /\ answer' = [id |-> s.id, word |-> s.word, found |-> found]
      /\ UNCHANGED <<sent, registered>>
  BY DEF TakeSearch
<1>2. /\ s.id \in 1 .. MaxSearches /\ s.word \in Words /\ found \in SUBSET Others /\ s.id <= sent
  BY SearchTypes DEF SearchInv, Searches
<1>3. box \in Boxes
  BY SearchTypes
<1> HIDE DEF found
<1>4. /\ box' \in Boxes /\ box'.input = box.input /\ box'.open = box.open
      /\ box'.typed = box.typed /\ ~ box'.searching /\ box'.results = found
  BY <1>1, <1>2, <1>3 DEF Boxes
<1>5. /\ answer' \in [id : 0 .. MaxSearches, word : Texts, found : SUBSET Others]
      /\ answer'.id = s.id /\ answer'.word = s.word /\ answer'.found = found
  BY <1>1, <1>2, SearchTypes, SearchWords
<1>6. SearchTypeOK'
  BY <1>1, <1>4, <1>5, SearchTypes DEF SearchTypeOK, SearchInv, Boxes
<1>7. BoxIsSound' /\ LatestIsShown'
  BY <1>1, <1>4, <1>5 DEF SearchInv, BoxIsSound, LatestIsShown
<1> QED BY <1>1, <1>2, <1>4, <1>5, <1>6, <1>7 DEF SearchInv

LEMMA SearchStart == SearchInit => SearchInv
  BY SearchAssumption
     DEF SearchAssumption, SearchInit, SearchInv, SearchTypeOK, BoxIsSound, LatestIsShown, Texts

LEMMA SearchStep == SearchInv /\ [SearchNext]_searchVars => SearchInv'
<1> SUFFICES ASSUME SearchInv, [SearchNext]_searchVars PROVE SearchInv'
  OBVIOUS
<1>1. CASE UNCHANGED searchVars
  BY <1>1 DEF searchVars, SearchInv, SearchTypeOK, BoxIsSound, LatestIsShown
<1>2. ASSUME NEW user \in Others, RegisterOrDelete(user) PROVE SearchInv'
  <2>1. registered' \subseteq Others /\ UNCHANGED <<box, sent, searches, answer>>
    BY <1>2, SearchTypes DEF RegisterOrDelete
  <2> QED BY <2>1 DEF SearchInv, SearchTypeOK, BoxIsSound, LatestIsShown
<1>3. CASE SearchNext
  BY <1>2, <1>3, FocusKeeps, ClosingKeeps, ClearBoxKeeps, HandleSearchKeeps, HandleBlankKeeps,
     TypingKeeps, AnswerKeeps, TakeSearchKeeps DEF SearchNext
<1> QED BY <1>1, <1>3

(***************************************************************************)
(* The overlay shows what was found for the text in the box, whatever the  *)
(* order of the answers.                                                   *)
(***************************************************************************)
THEOREM ResultsFit == SearchSpec => []ResultsFitText
<1>1. SearchInv => ResultsFitText
  BY SearchWords DEF SearchInv, BoxIsSound, LatestIsShown, ResultsFitText, Quiet
<1> QED BY <1>1, SearchStart, SearchStep, PTL DEF SearchSpec

(***************************************************************************)
(* Toasts: the invariant.  The ids go down from the newest message on, and *)
(* a message waits for its removal only when it was closed.                *)
(***************************************************************************)
ToastsInv ==
    /\ ToastsTypeOK
    /\ \A i \in DOMAIN toasts : toasts[i].id <= count
    /\ \A i, j \in DOMAIN toasts : i < j => toasts[i].id > toasts[j].id
    /\ toastTimeouts \subseteq closed
    /\ \A id \in closed : id <= count
    /\ count \in ToastIds \ closed =>
          \E i \in DOMAIN toasts : toasts[i].id = count /\ toasts[i].open
    /\ \A i \in DOMAIN toasts : toasts[i].open \/ toasts[i].id \in toastTimeouts

Messages == [id : ToastIds, open : BOOLEAN]

LEMMA ToastTypes ==
    ASSUME ToastsInv
    PROVE  /\ toasts \in Seq(Messages) /\ Len(toasts) \in Nat /\ Len(toasts) <= TOAST_LIMIT
           /\ DOMAIN toasts = 1 .. Len(toasts)
           /\ \A i \in DOMAIN toasts : toasts[i] \in Messages /\ toasts[i].id \in Nat
           /\ count \in 0 .. MaxToasts /\ MaxToasts \in Nat /\ TOAST_LIMIT \in Nat \ {0}
           /\ toastTimeouts \subseteq ToastIds /\ closed \subseteq ToastIds
<1>1. toasts \in Seq(Messages)
  BY DEF ToastsInv, ToastsTypeOK, Messages
<1>2. \A i \in DOMAIN toasts : toasts[i] \in Messages
  BY <1>1
<1>3. \A m \in Messages : m.id \in Nat
  BY ToastsAssumption DEF Messages, ToastIds
<1> QED BY <1>1, <1>2, <1>3, ToastsAssumption DEF ToastsInv, ToastsTypeOK

LEMMA AddedIs ==
    ASSUME ToastsInv, NEW m \in Messages
    PROVE  /\ Added(m) \in Seq(Messages) /\ Len(Added(m)) <= TOAST_LIMIT
           /\ Len(Added(m)) \in 1 .. Len(toasts) + 1
           /\ Added(m)[1] = m
           /\ \A i \in 2 .. Len(Added(m)) : Added(m)[i] = toasts[i - 1]
<1> DEFINE all == <<m>> \o toasts
           last == IF Len(toasts) < TOAST_LIMIT THEN Len(toasts) + 1 ELSE TOAST_LIMIT
<1>1. /\ all \in Seq(Messages) /\ Len(all) = Len(toasts) + 1 /\ all[1] = m
      /\ \A i \in 2 .. Len(all) : all[i] = toasts[i - 1]
  BY ToastTypes
<1>2. last \in 1 .. Len(all) /\ last <= TOAST_LIMIT
  BY <1>1, ToastTypes
<1>3. Added(m) = SubSeq(all, 1, last)
  BY DEF Added
<1> HIDE DEF all, last
<1> QED BY <1>1, <1>2, <1>3, ToastTypes

LEMMA AddToastKeeps == ToastsInv /\ AddToast => ToastsInv'
<1> SUFFICES ASSUME ToastsInv, AddToast PROVE ToastsInv'
  OBVIOUS
<1> DEFINE m == [id |-> count + 1, open |-> TRUE]
           new == Added(m)
<1>1. /\ count < MaxToasts /\ count' = count + 1 /\ toasts' = new
      /\ UNCHANGED <<toastTimeouts, closed>>
  BY DEF AddToast
<1>2. m \in Messages /\ m.id = count + 1 /\ m.open
  BY <1>1, ToastTypes DEF Messages, ToastIds
<1> HIDE DEF m
<1>3. /\ new \in Seq(Messages) /\ Len(new) <= TOAST_LIMIT /\ Len(new) \in 1 .. Len(toasts) + 1
      /\ new[1] = m /\ \A i \in 2 .. Len(new) : new[i] = toasts[i - 1]
  BY <1>2, AddedIs
<1> HIDE DEF new
<1>4. ToastsTypeOK'
  BY <1>1, <1>3, ToastTypes DEF ToastsTypeOK, Messages
<1>5. DOMAIN new = 1 .. Len(new) /\ Len(new) \in Nat
  BY <1>3, ToastTypes
<1>6. \A i \in DOMAIN new : i = 1 \/ (i \in 2 .. Len(new) /\ i - 1 \in DOMAIN toasts)
  BY <1>3, <1>5, ToastTypes
<1>7. \A i \in DOMAIN toasts : toasts[i].id <= count
  BY DEF ToastsInv
<1>8. \A i \in DOMAIN new : new[i].id <= count + 1 /\ (i # 1 => new[i].id <= count)
  BY <1>2, <1>3, <1>6, <1>7, ToastTypes
<1>9. ASSUME NEW i \in DOMAIN new, NEW j \in DOMAIN new, i < j PROVE new[i].id > new[j].id
  <2>1. j \in 2 .. Len(new) /\ j - 1 \in DOMAIN toasts /\ new[j] = toasts[j - 1]
    BY <1>3, <1>5, <1>6, <1>9
  <2>2. CASE i = 1
    BY <1>2, <1>3, <1>7, <2>1, <2>2, ToastTypes
  <2>3. CASE i # 1
    <3>1. new[i] = toasts[i - 1] /\ i - 1 \in DOMAIN toasts /\ i - 1 < j - 1
      BY <1>3, <1>5, <1>6, <1>9, <2>3
    <3> QED BY <2>1, <3>1 DEF ToastsInv
  <2> QED BY <2>2, <2>3
<1>10. \E i \in DOMAIN new : new[i].id = count' /\ new[i].open
  BY <1>1, <1>2, <1>3, <1>5
<1>11. \A i \in DOMAIN new : new[i].open \/ new[i].id \in toastTimeouts
  BY <1>2, <1>3, <1>6 DEF ToastsInv
<1>12. toastTimeouts \subseteq closed /\ \A id \in closed : id <= count /\ id \in Nat
  BY ToastTypes DEF ToastsInv, ToastIds
<1> QED BY <1>1, <1>4, <1>8, <1>9, <1>10, <1>11, <1>12, ToastTypes DEF ToastsInv

LEMMA DismissToastKeeps ==
    ASSUME ToastsInv, NEW id \in ToastIds, DismissToast(id) PROVE ToastsInv'
<1>1. /\ toasts' = Dismissed(id) /\ toastTimeouts' = toastTimeouts \cup {id}
      /\ closed' = closed \cup {id} /\ count' = count
  BY DEF DismissToast
<1>2. PICK k \in DOMAIN toasts : toasts[k] = [id |-> id, open |-> TRUE]
  BY DEF DismissToast
<1>3. id <= count
  BY <1>2 DEF ToastsInv
<1>4. ASSUME NEW i \in DOMAIN toasts
      PROVE  /\ toasts'[i] \in Messages /\ toasts'[i].id = toasts[i].id
             /\ toasts[i].id # id => toasts'[i].open = toasts[i].open
  <2> DEFINE m == toasts[i]
             n == [m EXCEPT !.open = FALSE]
  <2>1. toasts'[i] = IF m.id = id THEN n ELSE m
    BY <1>1 DEF Dismissed
  <2>2. m = toasts[i] /\ m \in Messages /\ n = [m EXCEPT !.open = FALSE]
    BY ToastTypes
  <2> HIDE DEF m, n
  <2>3. n \in Messages /\ n.id = m.id
    BY <2>2 DEF Messages
  <2> QED BY <2>1, <2>2, <2>3
<1>5. DOMAIN toasts' = DOMAIN toasts /\ Len(toasts') = Len(toasts) /\ toasts' \in Seq(Messages)
  <2>1. toasts' = [i \in 1 .. Len(toasts) |-> toasts'[i]]
    BY <1>1, ToastTypes DEF Dismissed
  <2> QED BY <1>4, <2>1, ToastTypes
<1>6. ToastsTypeOK'
  BY <1>1, <1>5, ToastTypes DEF ToastsTypeOK, Messages
<1>7. \A i \in DOMAIN toasts' : toasts'[i].open \/ toasts'[i].id \in toastTimeouts'
  BY <1>1, <1>4, <1>5 DEF ToastsInv
<1>8. count' \in ToastIds \ closed' =>
          \E i \in DOMAIN toasts' : toasts'[i].id = count' /\ toasts'[i].open
  <2> SUFFICES ASSUME count' \in ToastIds \ closed'
               PROVE  \E i \in DOMAIN toasts' : toasts'[i].id = count' /\ toasts'[i].open
    OBVIOUS
  <2>1. count # id /\ count \in ToastIds \ closed
    BY <1>1
  <2>2. PICK i \in DOMAIN toasts : toasts[i].id = count /\ toasts[i].open
    BY <2>1 DEF ToastsInv
  <2> QED BY <1>1, <1>4, <1>5, <2>1, <2>2
<1>9. /\ \A i \in DOMAIN toasts' : toasts'[i].id <= count'
      /\ \A i, j \in DOMAIN toasts' : i < j => toasts'[i].id > toasts'[j].id
  BY <1>1, <1>4, <1>5 DEF ToastsInv
<1> QED BY <1>1, <1>3, <1>6, <1>7, <1>8, <1>9 DEF ToastsInv

LEMMA RemainingIs ==
    ASSUME ToastsInv, NEW id
    PROVE  /\ Remaining(id) \in Seq(Messages) /\ Len(Remaining(id)) <= Len(toasts)
           /\ \A i \in DOMAIN Remaining(id) :
                 /\ Remaining(id)[i].id # id
                 /\ \E k \in DOMAIN toasts : Remaining(id)[i] = toasts[k]
           /\ \A k \in DOMAIN toasts : toasts[k].id # id =>
                 \E i \in DOMAIN Remaining(id) : Remaining(id)[i] = toasts[k]
           /\ \A i, j \in DOMAIN Remaining(id) : i < j => Remaining(id)[i].id > Remaining(id)[j].id
<1>1. CASE ~ \E i \in DOMAIN toasts : toasts[i].id = id
  <2>1. Remaining(id) = toasts
    BY <1>1 DEF Remaining
  <2> QED BY <1>1, <2>1, ToastTypes DEF ToastsInv
<1>2. CASE \E i \in DOMAIN toasts : toasts[i].id = id
  <2>1. PICK c : c = CHOOSE i \in DOMAIN toasts : toasts[i].id = id
    OBVIOUS
  <2>2. c \in DOMAIN toasts /\ toasts[c].id = id
    BY <1>2, <2>1
  <2>3. Remaining(id) = SubSeq(toasts, 1, c - 1) \o SubSeq(toasts, c + 1, Len(toasts))
    BY <1>2, <2>1 DEF Remaining, Without
  <2> DEFINE rest == SubSeq(toasts, 1, c - 1) \o SubSeq(toasts, c + 1, Len(toasts))
  <2>4. c \in 1 .. Len(toasts) /\ Len(toasts) \in Nat /\ toasts \in Seq(Messages)
    BY <2>2, ToastTypes
  <2>5. PICK front : front = SubSeq(toasts, 1, c - 1)
    OBVIOUS
  <2>6. PICK back : back = SubSeq(toasts, c + 1, Len(toasts))
    OBVIOUS
  <2>7. /\ rest \in Seq(Messages) /\ Len(rest) = Len(toasts) - 1
        /\ DOMAIN rest = 1 .. Len(toasts) - 1
        /\ \A i \in 1 .. Len(toasts) - 1 : rest[i] = IF i < c THEN toasts[i] ELSE toasts[i + 1]
    <3>1. /\ front \in Seq(Messages) /\ Len(front) = c - 1
          /\ \A i \in 1 .. c - 1 : front[i] = toasts[i]
      BY <2>4, <2>5
    <3>2. /\ back \in Seq(Messages) /\ Len(back) = Len(toasts) - c
          /\ \A i \in 1 .. Len(toasts) - c : back[i] = toasts[c + i]
      BY <2>4, <2>6
    <3>3. rest = front \o back
      BY <2>5, <2>6
    <3> HIDE DEF rest
    <3>4. /\ front \o back \in Seq(Messages) /\ Len(front \o back) = Len(front) + Len(back)
          /\ \A i \in 1 .. Len(front) + Len(back) :
                (front \o back)[i] = IF i <= Len(front) THEN front[i] ELSE back[i - Len(front)]
      <4>1. front \in Seq(Messages) /\ back \in Seq(Messages)
        BY <3>1, <3>2
      <4> QED BY <4>1, ConcatProperties, Zenon
    <3>5. /\ rest \in Seq(Messages) /\ Len(rest) = Len(front) + Len(back)
          /\ \A i \in 1 .. Len(front) + Len(back) :
                rest[i] = IF i <= Len(front) THEN front[i] ELSE back[i - Len(front)]
      BY <3>3, <3>4, Zenon
    <3>6. Len(rest) = Len(toasts) - 1
      BY <2>4, <3>1, <3>2, <3>5
    <3>7. DOMAIN rest = 1 .. Len(toasts) - 1
      BY <3>5, <3>6
    <3>8. ASSUME NEW i \in 1 .. Len(toasts) - 1
          PROVE  rest[i] = IF i < c THEN toasts[i] ELSE toasts[i + 1]
      <4>1. CASE i < c
        <5>1. i \in 1 .. c - 1 /\ i \in 1 .. Len(front) + Len(back) /\ i <= Len(front)
          BY <2>4, <3>1, <3>2, <4>1
        <5>2. rest[i] = front[i] /\ front[i] = toasts[i]
          BY <3>1, <3>5, <5>1
        <5> QED BY <4>1, <5>2
      <4>2. CASE ~ i < c
        <5>1. /\ i \in 1 .. Len(front) + Len(back) /\ ~ i <= Len(front)
              /\ Len(front) = c - 1 /\ i - (c - 1) \in 1 .. Len(toasts) - c
          BY <2>4, <3>1, <3>2, <4>2
        <5>2. rest[i] = back[i - (c - 1)]
          BY <3>5, <5>1
        <5>3. c + (i - (c - 1)) = i + 1
          BY <2>4
        <5> QED BY <3>2, <4>2, <5>1, <5>2, <5>3
      <4> QED BY <4>1, <4>2
    <3> QED BY <3>5, <3>6, <3>7, <3>8
  <2>8. Remaining(id) = rest
    BY <2>3
  <2> HIDE DEF rest
  <2>9. \A i, j \in DOMAIN toasts : i < j => toasts[i].id > toasts[j].id
    BY DEF ToastsInv
  <2>10. \A k \in DOMAIN toasts : k # c => toasts[k].id # id
    BY <2>2, <2>4, <2>9, ToastTypes
  <2>11. ASSUME NEW i \in DOMAIN rest
         PROVE  \E k \in DOMAIN toasts : k # c /\ rest[i] = toasts[k]
    <3>1. CASE i < c
      BY <2>4, <2>7, <3>1, ToastTypes
    <3>2. CASE ~ i < c
      <4>1. i + 1 \in DOMAIN toasts /\ i + 1 # c /\ rest[i] = toasts[i + 1]
        BY <2>4, <2>7, <3>2, ToastTypes
      <4> QED BY <4>1
    <3> QED BY <3>1, <3>2
  <2>12. ASSUME NEW k \in DOMAIN toasts, toasts[k].id # id
         PROVE  \E i \in DOMAIN rest : rest[i] = toasts[k]
    <3>1. k # c
      BY <2>2, <2>12
    <3>2. CASE k < c
      BY <2>4, <2>7, <3>2, ToastTypes
    <3>3. CASE k > c
      <4>1. k - 1 \in DOMAIN rest /\ ~ (k - 1 < c) /\ (k - 1) + 1 = k
        BY <2>4, <2>7, <3>3, ToastTypes
      <4> QED BY <2>7, <4>1
    <3> QED BY <2>4, <3>1, <3>2, <3>3, ToastTypes
  <2>13. ASSUME NEW i \in DOMAIN rest, NEW j \in DOMAIN rest, i < j PROVE rest[i].id > rest[j].id
    <3> DEFINE at(x) == IF x < c THEN x ELSE x + 1
    <3>1. rest[i] = toasts[at(i)] /\ rest[j] = toasts[at(j)]
      BY <2>7
    <3>2. at(i) \in DOMAIN toasts /\ at(j) \in DOMAIN toasts /\ at(i) < at(j)
      BY <2>4, <2>7, <2>13, ToastTypes
    <3> HIDE DEF at
    <3> QED BY <2>9, <3>1, <3>2
  <2> QED BY <2>4, <2>7, <2>8, <2>10, <2>11, <2>12, <2>13
<1> QED BY <1>1, <1>2

LEMMA RemoveToastKeeps ==
    ASSUME ToastsInv, NEW id \in ToastIds, RemoveToast(id) PROVE ToastsInv'
<1> DEFINE rest == Remaining(id)
<1>1. /\ id \in toastTimeouts /\ toastTimeouts' = toastTimeouts \ {id} /\ toasts' = rest
      /\ UNCHANGED <<count, closed>>
  BY DEF RemoveToast
<1>2. /\ rest \in Seq(Messages) /\ Len(rest) <= Len(toasts)
      /\ \A i \in DOMAIN rest : /\ rest[i].id # id
                                /\ \E k \in DOMAIN toasts : rest[i] = toasts[k]
      /\ \A k \in DOMAIN toasts : toasts[k].id # id => \E i \in DOMAIN rest : rest[i] = toasts[k]
      /\ \A i, j \in DOMAIN rest : i < j => rest[i].id > rest[j].id
  BY RemainingIs
<1> HIDE DEF rest
<1>3. ToastsTypeOK'
  BY <1>1, <1>2, ToastTypes DEF ToastsTypeOK, Messages
<1>4. \A i \in DOMAIN rest : rest[i].id <= count /\ (rest[i].open \/ rest[i].id \in toastTimeouts \ {id})
  BY <1>2 DEF ToastsInv
<1>5. count \in ToastIds \ closed => \E i \in DOMAIN rest : rest[i].id = count /\ rest[i].open
  <2> SUFFICES ASSUME count \in ToastIds \ closed
               PROVE  \E i \in DOMAIN rest : rest[i].id = count /\ rest[i].open
    OBVIOUS
  <2>1. PICK k \in DOMAIN toasts : toasts[k].id = count /\ toasts[k].open
    BY DEF ToastsInv
  <2>2. count # id
    BY <1>1 DEF ToastsInv
  <2> QED BY <1>2, <2>1, <2>2
<1> QED BY <1>1, <1>2, <1>3, <1>4, <1>5 DEF ToastsInv

LEMMA ToastsStep == ToastsInv /\ [ToastsNext]_toastVars => ToastsInv'
<1> SUFFICES ASSUME ToastsInv, [ToastsNext]_toastVars PROVE ToastsInv'
  OBVIOUS
<1>1. CASE UNCHANGED toastVars
  BY <1>1 DEF toastVars, ToastsInv, ToastsTypeOK
<1>2. CASE Reload
  BY <1>2, ToastTypes DEF Reload, ToastsInv, ToastsTypeOK, ToastIds
<1>3. CASE ToastsNext
  BY <1>2, <1>3, AddToastKeeps, DismissToastKeeps, RemoveToastKeeps DEF ToastsNext
<1> QED BY <1>1, <1>3

(***************************************************************************)
(* The newest message stays in view until it is closed itself.             *)
(***************************************************************************)
THEOREM NewestStays == ToastsSpec => []NewestToastStays
<1>1. ToastsInit => ToastsInv
  BY ToastsAssumption DEF ToastsInit, ToastsInv, ToastsTypeOK, ToastIds
<1>2. ToastsInv => NewestToastStays
  <2> SUFFICES ASSUME ToastsInv PROVE NewestToastStays
    OBVIOUS
  <2>1. ASSUME NEW m \in Messages, m.open PROVE m = [id |-> m.id, open |-> TRUE]
    BY <2>1 DEF Messages
  <2>2. count \in ToastIds \ closed =>
            \E i \in DOMAIN toasts : toasts[i] = [id |-> count, open |-> TRUE]
    BY <2>1, ToastTypes DEF ToastsInv
  <2> QED BY <2>2 DEF ToastsInv, NewestToastStays
<1> QED BY <1>1, <1>2, ToastsStep, PTL DEF ToastsSpec
=============================================================================
