--------------------------- MODULE AccountsProofs ---------------------------
(***************************************************************************)
(* Proofs about module Accounts, for every number of requests, accounts,   *)
(* passwords and tokens.                                                   *)
(***************************************************************************)
EXTENDS Accounts, FiniteSetTheorems, TLAPS

(* What a request holds is what its place in the handler says: an account  *)
(* that exists, a row that account has held, a proof that matched it, and  *)
(* salts that are not the dummy one.                                       *)
ContextOK(r) ==
  /\ ctx[r].user # NoId =>
       /\ Exists(ctx[r].user)
       /\ ctx[r].kind # "register" => ctx[r].row \in stored[ctx[r].user]
  /\ pc[r] \in {"newDerive", "revoke", "session"} => ctx[r].user # NoId
  /\ pc[r] \in {"newDerive", "session"} => ctx[r].proof \in stored[ctx[r].user]
  /\ pc[r] = "newDerive" => ctx[r].fresh.salt # 0
  /\ pc[r] = "revoke" => ctx[r].fresh \in stored[ctx[r].user]
  /\ pc[r] = "derive" /\ ctx[r].kind = "register" => ctx[r].proof.salt # 0

RowsStored == \A id \in UserIds : Exists(id) => users[id].hash \in stored[id]

(* The inductive invariant.                                                *)
IInv ==
  /\ TypeOK
  /\ RowsStored
  /\ \A r \in Requests : ContextOK(r)
  /\ SessionsProven
  /\ SessionsPostdateChange

USE NoIdAssumption, MaxSaltAssumption DEF PCs, Kinds

LEMMA InitIInv == Init => IInv
<1> SUFFICES ASSUME Init PROVE IInv
  OBVIOUS
<1>1. TypeOK
  BY DEF Init, TypeOK, Row, NoRow, Hash, NoHash, Session, NoSession, Context, NoContext
<1>2. RowsStored /\ SessionsProven /\ SessionsPostdateChange
  BY DEF Init, RowsStored, SessionsProven, SessionsPostdateChange, Exists,
         NoRow, NoHash, NoSession
<1>3. \A r \in Requests : ContextOK(r)
  BY DEF Init, ContextOK, NoContext
<1> QED
  BY <1>1, <1>2, <1>3 DEF IInv

-----------------------------------------------------------------------------
LEMMA Values ==
  /\ NoHash \in Hash /\ NoContext \in Context /\ NoSession \in Session
  /\ \A p \in Passwords, s \in 0..MaxSalt : passwordHash(p, s) \in Hash
BY DEF NoHash, NoContext, NoSession, Hash, Context, Session, passwordHash

LEMMA Hashes ==
  ASSUME TypeOK
  PROVE  /\ \A id \in UserIds : users[id].hash \in Hash
         /\ \A h \in Hash : h.salt \in 0..MaxSalt
BY DEF TypeOK, Row, Hash

LEMMA MoveType ==
  ASSUME TypeOK, NEW r \in Requests, NEW p \in PCs, NEW c \in Context, Move(r, p, c)
  PROVE  pc' \in [Requests -> PCs] /\ ctx' \in [Requests -> Context]
BY DEF TypeOK, Move

LEMMA AnswerType ==
  ASSUME TypeOK, NEW r \in Requests, Answer(r)
  PROVE  pc' \in [Requests -> PCs] /\ ctx' \in [Requests -> Context]
BY MoveType, Values DEF Answer

LEMMA DeriveType ==
  ASSUME TypeOK, NEW r \in Requests, NEW c \in Context, Derive(r, c)
  PROVE  pc' \in [Requests -> PCs] /\ ctx' \in [Requests -> Context]
BY MoveType, AnswerType DEF Derive

(* The steps, named as in Handle.                                          *)
LEMMA TypeStep ==
  ASSUME TypeOK, \A r \in Requests : ContextOK(r), [Next]_vars, activeHashes' \in Nat
  PROVE  TypeOK'
<1>1. ASSUME NEW r \in Requests, NEW k \in {"register", "login"}, BeginAuth(r, k)
      PROVE TypeOK'
  <2>1. [NoContext EXCEPT !.kind = k] \in Context
    BY Values DEF Context
  <2> QED
    BY <1>1, <2>1, MoveType DEF BeginAuth, TypeOK
<1>2. ASSUME NEW r \in Requests, NEW t \in Tokens, BeginPassword(r, t)
      PROVE TypeOK'
  <2>1. userFrom(t) \in UserIds
    BY <1>2 DEF BeginPassword, userFrom, SignedIn, TypeOK, Session
  <2>2. users[userFrom(t)].hash \in Hash
    BY <2>1, Hashes
  <2>3. [NoContext EXCEPT !.kind = "password", !.user = userFrom(t),
                          !.row = users[userFrom(t)].hash] \in Context
    BY <2>1, <2>2, Values DEF Context
  <2> QED
    BY <1>2, <2>3, MoveType DEF BeginPassword, TypeOK
<1>3. ASSUME NEW r \in Requests, NEW t \in Tokens, Logout(r, t)
      PROVE TypeOK'
  BY <1>3, Values DEF Logout, TypeOK
<1>4. ASSUME NEW r \in Requests, RejectBody(r)
      PROVE TypeOK'
  BY <1>4, AnswerType DEF RejectBody, TypeOK
<1>5. ASSUME NEW r \in Requests, NEW e \in Emails, NEW p \in Passwords, RegisterBody(r, e, p)
      PROVE TypeOK'
  <2>1. nextSalt \in 0..MaxSalt /\ nextSalt' \in 1..(MaxSalt + 1)
    BY <1>5 DEF RegisterBody, TypeOK
  <2>2. [ctx[r] EXCEPT !.email = e, !.proof = passwordHash(p, nextSalt)] \in Context
    BY <2>1, Values DEF Context, TypeOK
  <2> QED
    BY <1>5, <2>1, <2>2, DeriveType DEF RegisterBody, TypeOK
<1>6. ASSUME NEW r \in Requests, NEW e \in Emails, NEW p \in Passwords, LoginBody(r, e, p)
      PROVE TypeOK'
  <2>1. ASSUME NEW id \in UserIds
        PROVE  [ctx[r] EXCEPT !.user = id, !.row = users[id].hash,
                  !.proof = passwordHash(p, users[id].hash.salt)] \in Context
    <3>1. users[id].hash \in Hash /\ passwordHash(p, users[id].hash.salt) \in Hash
      BY Hashes, Values
    <3>2. ctx[r] \in Context
      BY DEF TypeOK
    <3> HIDE DEF passwordHash
    <3> QED
      BY <3>1, <3>2 DEF Context
  <2>2. [ctx[r] EXCEPT !.proof = passwordHash(p, 0)] \in Context
    BY Values DEF Context, TypeOK
  <2>3. pc' \in [Requests -> PCs] /\ ctx' \in [Requests -> Context]
    BY <1>6, <2>1, <2>2, DeriveType DEF LoginBody, OwnerOf
  <2> QED
    BY <1>6, <2>3 DEF LoginBody, TypeOK
<1>7. ASSUME NEW r \in Requests, NEW p \in Passwords, PasswordBody(r, p)
      PROVE TypeOK'
  <2>1. passwordHash(p, ctx[r].row.salt) \in Hash
    BY Hashes, Values DEF Context, TypeOK
  <2>2. [ctx[r] EXCEPT !.proof = passwordHash(p, ctx[r].row.salt)] \in Context
    BY <2>1 DEF Context, TypeOK
  <2> QED
    BY <1>7, <2>2, DeriveType DEF PasswordBody, TypeOK
<1>8. ASSUME NEW r \in Requests, NEW p \in Passwords, PasswordDerived(r, p)
      PROVE TypeOK'
  <2>1. nextSalt \in 0..MaxSalt /\ nextSalt' \in 1..(MaxSalt + 1)
    BY <1>8 DEF PasswordDerived, TypeOK
  <2>2. [ctx[r] EXCEPT !.fresh = passwordHash(p, nextSalt)] \in Context
    BY <2>1, Values DEF Context, TypeOK
  <2> QED
    BY <1>8, <2>1, <2>2, MoveType DEF PasswordDerived, TypeOK
<1>9. ASSUME NEW r \in Requests, NEW id \in UserIds, RegisterInsert(r, id)
      PROVE TypeOK'
  <2>1. ctx[r].proof \in Hash /\ [ctx[r] EXCEPT !.user = id] \in Context
    BY DEF Context, TypeOK
  <2>2. [email |-> ctx[r].email, hash |-> ctx[r].proof] \in Row
    BY <2>1 DEF Row, Context, TypeOK
  <2>3. pc' \in [Requests -> PCs] /\ ctx' \in [Requests -> Context]
    BY <1>9, <2>1, MoveType DEF RegisterInsert
  <2> QED
    BY <1>9, <2>1, <2>2, <2>3 DEF RegisterInsert, TypeOK
<1>10. ASSUME NEW r \in Requests, RegisterConflict(r) \/ LoginDerived(r) \/ DeriveFails(r)
      PROVE TypeOK'
  <2>1. ctx[r] \in Context
    BY DEF TypeOK
  <2>2. pc' \in [Requests -> PCs] /\ ctx' \in [Requests -> Context]
    BY <1>10, <2>1, AnswerType, MoveType DEF RegisterConflict, LoginDerived, DeriveFails
  <2> QED
    BY <1>10, <2>2 DEF RegisterConflict, LoginDerived, DeriveFails, TypeOK
<1>11. ASSUME NEW r \in Requests, PasswordUpdate(r)
      PROVE TypeOK'
  <2>1. ctx[r] \in Context /\ ctx[r].user \in UserIds /\ ctx[r].fresh \in Hash
    BY <1>11 DEF PasswordUpdate, ContextOK, Context, TypeOK
  <2>2. [users[ctx[r].user] EXCEPT !.hash = ctx[r].fresh] \in Row
    BY <2>1 DEF Row, TypeOK
  <2>3. users' \in [UserIds -> Row]
    BY <1>11, <2>2 DEF PasswordUpdate, TypeOK
  <2> QED
    BY <1>11, <2>1, <2>3, MoveType DEF PasswordUpdate, TypeOK
<1>12. ASSUME NEW r \in Requests, PasswordRevoke(r)
      PROVE TypeOK'
  <2>1. [ctx[r] EXCEPT !.proof = ctx[r].fresh] \in Context
    BY DEF Context, TypeOK
  <2> QED
    BY <1>12, <2>1, MoveType, Values DEF PasswordRevoke, TypeOK
<1>13. ASSUME NEW r \in Requests, NEW t \in Tokens, newSession(r, t)
      PROVE TypeOK'
  <2>1. ctx[r].user \in UserIds /\ ctx[r].proof \in Hash
    BY <1>13 DEF newSession, ContextOK, Context, TypeOK
  <2>2. [user |-> ctx[r].user, live |-> TRUE, proof |-> ctx[r].proof,
         under |-> users[ctx[r].user].hash] \in Session
    BY <2>1, Hashes DEF Session
  <2>3. sessions' \in [Tokens -> Session]
    BY <1>13, <2>2, Values DEF newSession, TypeOK
  <2> QED
    BY <1>13, <2>3, AnswerType DEF newSession, TypeOK
<1>14. ASSUME NEW t \in Tokens, Expire(t)
      PROVE TypeOK'
  <2>1. [sessions[t] EXCEPT !.live = FALSE] \in Session
    <3>1. sessions[t] \in Session
      BY DEF TypeOK
    <3> QED
      BY <3>1 DEF Session
  <2> QED
    BY <1>14, <2>1 DEF Expire, TypeOK
<1>15. CASE Restart
  <2>1. \A r \in Requests : pc[r] = "revoke" => ctx[r].user \in UserIds
    BY DEF ContextOK, Context, TypeOK
  <2> QED
    BY <1>15, <2>1, Values DEF Restart, TypeOK
<1>16. CASE UNCHANGED vars
  BY <1>16 DEF vars, TypeOK
<1> QED
  BY <1>1, <1>2, <1>3, <1>4, <1>5, <1>6, <1>7, <1>8, <1>9, <1>10, <1>11, <1>12,
     <1>13, <1>14, <1>15, <1>16 DEF Next, Handle

-----------------------------------------------------------------------------
(* Accounts stay and the hashes they have held stay recorded.              *)
LEMMA UserSteps ==
  ASSUME [Next]_vars
  PROVE  \/ UNCHANGED <<users, stored>>
         \/ \E r \in Requests, id \in UserIds : RegisterInsert(r, id)
         \/ \E r \in Requests : PasswordUpdate(r)
BY DEF Next, Handle, vars, BeginAuth, BeginPassword, Logout, RejectBody, RegisterBody,
       LoginBody, PasswordBody, PasswordDerived, RegisterConflict, LoginDerived,
       DeriveFails, PasswordRevoke, newSession, Expire, Restart

LEMMA Growth ==
  ASSUME TypeOK, \A r \in Requests : ContextOK(r), RowsStored, [Next]_vars
  PROVE  /\ \A id \in UserIds : Exists(id) => Exists(id)'
         /\ \A id \in UserIds : stored[id] \subseteq stored'[id]
         /\ RowsStored'
<1>1. CASE UNCHANGED <<users, stored>>
  BY <1>1 DEF Exists, RowsStored
<1>2. ASSUME NEW r \in Requests, NEW id \in UserIds, RegisterInsert(r, id)
      PROVE  /\ \A i \in UserIds : Exists(i) => Exists(i)'
             /\ \A i \in UserIds : stored[i] \subseteq stored'[i]
             /\ RowsStored'
  BY <1>2 DEF RegisterInsert, Exists, RowsStored, TypeOK
<1>3. ASSUME NEW r \in Requests, PasswordUpdate(r)
      PROVE  /\ \A i \in UserIds : Exists(i) => Exists(i)'
             /\ \A i \in UserIds : stored[i] \subseteq stored'[i]
             /\ RowsStored'
  <2>1. ctx[r].user \in UserIds /\ ctx[r].fresh.salt # 0
    BY <1>3 DEF PasswordUpdate, ContextOK, Context, TypeOK
  <2> QED
    BY <1>3, <2>1 DEF PasswordUpdate, Exists, RowsStored, TypeOK, Row
<1> QED
  BY <1>1, <1>2, <1>3, UserSteps

(* The context of a request that does not move stays good.                 *)
LEMMA ContextKept ==
  ASSUME TypeOK, RowsStored, \A r \in Requests : ContextOK(r), [Next]_vars,
         NEW s \in Requests, pc'[s] = pc[s], ctx'[s] = ctx[s]
  PROVE  ContextOK(s)'
<1>1. ctx[s].user \in UserIds \cup {NoId}
  BY DEF TypeOK, Context
<1>2. ctx[s].user # NoId => Exists(ctx[s].user)' /\ stored[ctx[s].user] \subseteq stored'[ctx[s].user]
  BY <1>1, Growth DEF ContextOK
<1> QED
  BY <1>2 DEF ContextOK

LEMMA ContextAnswered ==
  ASSUME TypeOK, NEW r \in Requests, Answer(r)
  PROVE  ContextOK(r)'
BY DEF Answer, Move, ContextOK, NoContext, TypeOK

LEMMA Others ==
  ASSUME TypeOK, NEW r \in Requests, NEW s \in Requests, s # r,
         NEW p, NEW c, Move(r, p, c)
  PROVE  pc'[s] = pc[s] /\ ctx'[s] = ctx[s]
BY DEF Move, TypeOK

LEMMA ActingContext ==
  ASSUME IInv, [Next]_vars, NEW r \in Requests, Handle(r)
  PROVE  ContextOK(r)'
<1> USE DEF IInv
<1>1. ContextOK(r) /\ ctx[r] \in Context
  BY DEF TypeOK
<1>2. /\ \A id \in UserIds : Exists(id) => Exists(id)'
      /\ \A id \in UserIds : stored[id] \subseteq stored'[id]
  BY Growth
<1>3. \A p, c : Move(r, p, c) => pc'[r] = p /\ ctx'[r] = c
  BY DEF Move, TypeOK
<1>4. Answer(r) => ContextOK(r)'
  BY ContextAnswered
<1>5. ASSUME NEW k \in {"register", "login"}, BeginAuth(r, k)
      PROVE ContextOK(r)'
  BY <1>3, <1>5 DEF BeginAuth, ContextOK, NoContext
<1>6. ASSUME NEW t \in Tokens, BeginPassword(r, t)
      PROVE ContextOK(r)'
  <2> DEFINE id == userFrom(t)
             c == [NoContext EXCEPT !.kind = "password", !.user = id, !.row = users[id].hash]
  <2>1. id \in UserIds /\ Exists(id)
    BY <1>6 DEF BeginPassword, userFrom, SignedIn, Session, SessionsProven, TypeOK
  <2>2. c.user = id /\ c.row = users[id].hash /\ c.kind = "password"
    BY DEF NoContext
  <2>3. pc'[r] = "body" /\ ctx'[r] = c
    BY <1>3, <1>6 DEF BeginPassword
  <2>4. users[id].hash \in stored'[id]
    BY <1>2, <2>1 DEF RowsStored
  <2> HIDE DEF c, id
  <2> QED
    BY <1>2, <2>1, <2>2, <2>3, <2>4 DEF ContextOK
<1>7. ASSUME NEW t \in Tokens, Logout(r, t)
      PROVE ContextOK(r)'
  BY <1>7, ContextKept DEF Logout
<1>8. CASE RejectBody(r)
  BY <1>4, <1>8 DEF RejectBody
<1>9. ASSUME NEW e \in Emails, NEW p \in Passwords, RegisterBody(r, e, p)
      PROVE ContextOK(r)'
  <2> DEFINE c == [ctx[r] EXCEPT !.email = e, !.proof = passwordHash(p, nextSalt)]
  <2>1. CASE Answer(r)
    BY <1>4, <2>1
  <2>2. CASE Move(r, "derive", c)
    <3>1. c.user = ctx[r].user /\ c.kind = "register" /\ c.proof.salt # 0 /\ ctx[r].kind = "register"
      BY <1>1, <1>9 DEF RegisterBody, passwordHash, Context, TypeOK
    <3>2. pc'[r] = "derive" /\ ctx'[r] = c
      BY <1>3, <2>2
    <3>3. c.row = ctx[r].row
      BY <1>1 DEF Context
    <3> HIDE DEF c
    <3> QED
      BY <1>1, <1>2, <3>1, <3>2, <3>3 DEF ContextOK, Context
  <2> QED
    BY <1>9, <2>1, <2>2 DEF RegisterBody, Derive
<1>10. ASSUME NEW e \in Emails, NEW p \in Passwords, LoginBody(r, e, p)
      PROVE ContextOK(r)'
  <2>1. CASE Answer(r)
    BY <1>4, <2>1
  <2>2. ASSUME NEW id \in OwnerOf(e),
               Move(r, "derive", [ctx[r] EXCEPT !.user = id, !.row = users[id].hash,
                                    !.proof = passwordHash(p, users[id].hash.salt)])
        PROVE  ContextOK(r)'
    <3>1. id \in UserIds /\ Exists(id)
      BY DEF OwnerOf
    <3>2. Exists(id)' /\ users[id].hash \in stored'[id]
      BY <1>2, <3>1 DEF RowsStored
    <3> DEFINE h == passwordHash(p, users[id].hash.salt)
               c == [ctx[r] EXCEPT !.user = id, !.row = users[id].hash, !.proof = h]
    <3>3. pc'[r] = "derive" /\ ctx'[r] = c
      BY <1>3, <2>2
    <3>4. c.kind = "login"
      BY <1>1, <1>10 DEF Context, LoginBody
    <3>5. c.user = id /\ c.row = users[id].hash
      <4> HIDE DEF h
      <4> QED
        BY <1>1 DEF Context
    <3> HIDE DEF c
    <3> QED
      BY <3>2, <3>3, <3>4, <3>5 DEF ContextOK
  <2>3. ASSUME Move(r, "derive", [ctx[r] EXCEPT !.proof = passwordHash(p, 0)])
        PROVE  ContextOK(r)'
    <3>1. /\ ctx'[r].user = ctx[r].user /\ ctx'[r].row = ctx[r].row
          /\ ctx'[r].kind = "login" /\ pc'[r] = "derive" /\ ctx[r].kind = "login"
      BY <1>1, <1>3, <1>10, <2>3 DEF Context, LoginBody
    <3> QED
      BY <1>1, <1>2, <3>1 DEF ContextOK, Context
  <2> QED
    BY <1>10, <2>1, <2>2, <2>3 DEF LoginBody, Derive
<1>11. ASSUME NEW p \in Passwords, PasswordBody(r, p)
      PROVE ContextOK(r)'
  <2> DEFINE c == [ctx[r] EXCEPT !.proof = passwordHash(p, ctx[r].row.salt)]
  <2>1. CASE Answer(r)
    BY <1>4, <2>1
  <2>2. CASE Move(r, "derive", c)
    <3>1. /\ ctx'[r].user = ctx[r].user /\ ctx'[r].row = ctx[r].row
          /\ ctx'[r].kind = "password" /\ pc'[r] = "derive" /\ ctx[r].kind = "password"
      BY <1>1, <1>3, <1>11, <2>2 DEF Context, PasswordBody
    <3> QED
      BY <1>1, <1>2, <3>1 DEF ContextOK, Context
  <2> QED
    BY <1>11, <2>1, <2>2 DEF PasswordBody, Derive
<1>12. ASSUME NEW p \in Passwords, PasswordDerived(r, p)
      PROVE ContextOK(r)'
  <2>1. /\ ctx'[r].user = ctx[r].user /\ ctx'[r].row = ctx[r].row /\ ctx'[r].proof = ctx[r].proof
        /\ ctx'[r].fresh = passwordHash(p, nextSalt)
        /\ ctx'[r].kind = "password" /\ pc'[r] = "newDerive" /\ ctx[r].kind = "password"
    BY <1>1, <1>3, <1>12 DEF PasswordDerived, Context
  <2>2. ctx[r].user # NoId /\ ctx[r].proof = ctx[r].row /\ ctx'[r].fresh.salt # 0
    BY <1>12, <2>1 DEF PasswordDerived, Matches, passwordHash, TypeOK
  <2> QED
    BY <1>1, <1>2, <2>1, <2>2 DEF ContextOK, Context
<1>13. ASSUME NEW id \in UserIds, RegisterInsert(r, id)
      PROVE ContextOK(r)'
  <2>1. /\ ctx'[r].user = id /\ ctx'[r].proof = ctx[r].proof /\ ctx[r].proof.salt # 0
        /\ ctx'[r].kind = "register" /\ pc'[r] = "session"
    BY <1>1, <1>3, <1>13 DEF RegisterInsert, Derived, ContextOK, Context
  <2>2. Exists(id)' /\ ctx[r].proof \in stored'[id]
    BY <1>13, <2>1 DEF RegisterInsert, Exists, TypeOK
  <2> QED
    BY <2>1, <2>2 DEF ContextOK
<1>14. CASE RegisterConflict(r) \/ DeriveFails(r)
  BY <1>4, <1>14 DEF RegisterConflict, DeriveFails
<1>15. CASE LoginDerived(r)
  <2>1. CASE Answer(r)
    BY <1>4, <2>1
  <2>2. CASE Matches(ctx[r]) /\ Move(r, "session", ctx[r])
    <3>1. ctx'[r] = ctx[r] /\ pc'[r] = "session" /\ ctx[r].kind = "login"
      BY <1>3, <1>15, <2>2 DEF LoginDerived
    <3>2. ctx[r].user # NoId /\ ctx[r].proof = ctx[r].row
      BY <2>2 DEF Matches
    <3> QED
      BY <1>1, <1>2, <3>1, <3>2 DEF ContextOK, Context
  <2> QED
    BY <1>15, <2>1, <2>2 DEF LoginDerived
<1>16. CASE PasswordUpdate(r)
  <2>1. ctx'[r] = ctx[r] /\ pc'[r] = "revoke" /\ ctx[r].user \in UserIds /\ pc[r] = "newDerive"
    BY <1>1, <1>3, <1>16 DEF PasswordUpdate, ContextOK, Context
  <2>2. ctx[r].fresh \in stored'[ctx[r].user]
    BY <1>16, <2>1 DEF PasswordUpdate, TypeOK
  <2> QED
    BY <1>1, <1>2, <2>1, <2>2 DEF ContextOK, Context
<1>17. CASE PasswordRevoke(r)
  <2>1. /\ ctx'[r].user = ctx[r].user /\ ctx'[r].row = ctx[r].row /\ ctx'[r].kind = ctx[r].kind
        /\ ctx'[r].proof = ctx[r].fresh /\ pc'[r] = "session" /\ pc[r] = "revoke"
    BY <1>1, <1>3, <1>17 DEF PasswordRevoke, Context
  <2> QED
    BY <1>1, <1>2, <2>1 DEF ContextOK, Context
<1>18. ASSUME NEW t \in Tokens, newSession(r, t)
      PROVE ContextOK(r)'
  BY <1>4, <1>18 DEF newSession
<1> QED
  BY <1>5, <1>6, <1>7, <1>8, <1>9, <1>10, <1>11, <1>12, <1>13, <1>14, <1>15, <1>16,
     <1>17, <1>18 DEF Handle

LEMMA OthersStay ==
  ASSUME TypeOK, NEW r \in Requests, Handle(r), NEW s \in Requests, s # r
  PROVE  pc'[s] = pc[s] /\ ctx'[s] = ctx[s]
<1>1. (\E p, c : Move(r, p, c)) \/ UNCHANGED <<pc, ctx>>
  BY DEF Handle, BeginAuth, BeginPassword, Logout, RejectBody, RegisterBody, LoginBody,
         PasswordBody, PasswordDerived, RegisterInsert, RegisterConflict, LoginDerived,
         DeriveFails, PasswordUpdate, PasswordRevoke, newSession, Derive, Answer
<1> QED
  BY <1>1 DEF Move, TypeOK

LEMMA ContextStep ==
  ASSUME IInv, [Next]_vars
  PROVE  \A s \in Requests : ContextOK(s)'
<1> SUFFICES ASSUME NEW s \in Requests PROVE ContextOK(s)'
  OBVIOUS
<1>1. ASSUME NEW r \in Requests, Handle(r)
      PROVE ContextOK(s)'
  BY <1>1, OthersStay, ContextKept, ActingContext DEF IInv
<1>2. CASE UNCHANGED <<pc, ctx>>
  BY <1>2, ContextKept DEF IInv
<1>3. CASE Restart
  BY <1>3 DEF Restart, ContextOK, NoContext
<1> QED
  BY <1>1, <1>2, <1>3 DEF Next, Expire, vars

-----------------------------------------------------------------------------
(* Where a session row comes from.                                         *)
LEMMA SessionRows ==
  ASSUME IInv, [Next]_vars, NEW t \in Tokens
  PROVE  \/ /\ sessions'[t].user = sessions[t].user
            /\ sessions'[t].proof = sessions[t].proof
            /\ sessions'[t].under = sessions[t].under
         \/ sessions'[t] = NoSession
         \/ \E r \in Requests : newSession(r, t)
<1> DEFINE Kept == /\ sessions'[t].user = sessions[t].user
                   /\ sessions'[t].proof = sessions[t].proof
                   /\ sessions'[t].under = sessions[t].under
           Goal == \/ Kept
                   \/ sessions'[t] = NoSession
                   \/ \E r \in Requests : newSession(r, t)
<1>1. CASE UNCHANGED sessions
  BY <1>1
<1>2. ASSUME NEW r \in Requests, NEW u \in Tokens, Logout(r, u)
      PROVE Goal
  BY <1>2 DEF Logout, IInv, TypeOK
<1>3. ASSUME NEW r \in Requests, NEW u \in Tokens, newSession(r, u)
      PROVE Goal
  <2>1. CASE u = t
    BY <1>3, <2>1
  <2>2. CASE u # t
    BY <1>3, <2>2 DEF newSession
  <2> QED
    BY <2>1, <2>2
<1>4. ASSUME NEW r \in Requests, PasswordRevoke(r)
      PROVE Goal
  BY <1>4 DEF PasswordRevoke
<1>5. ASSUME NEW u \in Tokens, Expire(u)
      PROVE Goal
  <2>1. sessions[t] \in Session /\ sessions'[t] \in {sessions[t], [sessions[t] EXCEPT !.live = FALSE]}
    BY <1>5 DEF Expire, IInv, TypeOK
  <2> QED
    BY <2>1 DEF Session
<1> QED
  BY <1>1, <1>2, <1>3, <1>4, <1>5 DEF Next, Handle, vars, BeginAuth, BeginPassword,
     RejectBody, RegisterBody, LoginBody, PasswordBody, PasswordDerived, RegisterInsert,
     RegisterConflict, LoginDerived, DeriveFails, PasswordUpdate, Restart

LEMMA ProvenStep ==
  ASSUME IInv, [Next]_vars
  PROVE  SessionsProven'
<1> SUFFICES ASSUME NEW t \in Tokens, sessions'[t].user # NoId
             PROVE  /\ Exists(sessions[t].user)'
                    /\ sessions'[t].proof \in stored'[sessions'[t].user]
  BY DEF SessionsProven
<1>1. /\ \A id \in UserIds : Exists(id) => Exists(id)'
      /\ \A id \in UserIds : stored[id] \subseteq stored'[id]
  BY Growth DEF IInv
<1>2. CASE sessions'[t].user = sessions[t].user /\ sessions'[t].proof = sessions[t].proof
  <2>1. sessions[t].user \in UserIds
    BY <1>2 DEF IInv, TypeOK, Session
  <2>2. sessions[t].proof \in stored[sessions[t].user] /\ Exists(sessions[t].user)
    BY <1>2 DEF IInv, SessionsProven
  <2> QED
    BY <1>1, <1>2, <2>1, <2>2 DEF Exists
<1>3. ASSUME NEW r \in Requests, newSession(r, t)
      PROVE  /\ Exists(sessions[t].user)'
             /\ sessions'[t].proof \in stored'[sessions'[t].user]
  <2>1. ContextOK(r) /\ ctx[r] \in Context /\ pc[r] = "session"
    BY <1>3 DEF IInv, TypeOK, newSession
  <2>2. sessions'[t].user = ctx[r].user /\ sessions'[t].proof = ctx[r].proof
    BY <1>3 DEF newSession
  <2> QED
    BY <1>1, <2>1, <2>2 DEF ContextOK, Context, Exists
<1> QED
  BY <1>2, <1>3, SessionRows DEF NoSession

(* No row is left under an earlier hash unless a change is not finished.   *)
LEMMA PostdateStep ==
  ASSUME IInv, [Next]_vars
  PROVE  SessionsPostdateChange'
<1> SUFFICES ASSUME NEW t \in Tokens, NEW id, id = sessions'[t].user, id # NoId
             PROVE  \/ sessions'[t].under = users'[id].hash
                    \/ id \in torn'
                    \/ Revoking(id)'
  BY DEF SessionsPostdateChange, Revoking
<1>1. CASE \E r \in Requests : newSession(r, t)
  BY <1>1 DEF newSession
<1>2. CASE /\ sessions'[t].user = sessions[t].user
           /\ sessions'[t].under = sessions[t].under
  <2>1. /\ id \in UserIds /\ Exists(id)
        /\ sessions[t].under = users[id].hash \/ id \in torn \/ Revoking(id)
    BY <1>2 DEF IInv, TypeOK, Session, SessionsProven, SessionsPostdateChange
  <2>2. ASSUME NEW r \in Requests, PasswordRevoke(r)
        PROVE  \/ sessions'[t].under = users'[id].hash
               \/ id \in torn' \/ Revoking(id)'
    <3>1. id # ctx[r].user
      BY <1>2, <2>2 DEF PasswordRevoke, NoSession
    <3>2. \A s \in Requests : s # r => pc'[s] = pc[s] /\ ctx'[s] = ctx[s]
      BY <2>2, OthersStay DEF IInv, Handle
    <3> QED
      BY <1>2, <2>1, <2>2, <3>1, <3>2 DEF PasswordRevoke, Revoking
  <2>3. ASSUME NEW r \in Requests, PasswordUpdate(r)
        PROVE  \/ sessions'[t].under = users'[id].hash
               \/ id \in torn' \/ Revoking(id)'
    <3>1. pc'[r] = "revoke" /\ ctx'[r].user = ctx[r].user
      BY <2>3 DEF PasswordUpdate, Move, IInv, TypeOK
    <3>2. CASE id = ctx[r].user
      BY <3>1, <3>2 DEF Revoking
    <3>3. CASE id # ctx[r].user
      <4>1. users'[id] = users[id] /\ torn' = torn
        BY <2>1, <2>3, <3>3 DEF PasswordUpdate, IInv, TypeOK
      <4>2. Revoking(id) => Revoking(id)'
        BY <2>3 DEF PasswordUpdate, Revoking, Yielded, SyncSteps
      <4> QED
        BY <1>2, <2>1, <4>1, <4>2
    <3> QED
      BY <3>2, <3>3
  <2>4. ASSUME NEW r \in Requests, NEW i \in UserIds, RegisterInsert(r, i)
        PROVE  \/ sessions'[t].under = users'[id].hash
               \/ id \in torn' \/ Revoking(id)'
    <3>1. i # id
      BY <2>1, <2>4 DEF RegisterInsert
    <3>2. users'[id] = users[id] /\ torn' = torn /\ ~Revoking(id)
      BY <2>1, <2>4, <3>1 DEF RegisterInsert, Derived, Yielded, SyncSteps, Revoking, IInv, TypeOK
    <3> QED
      BY <1>2, <2>1, <3>2
  <2>5. CASE Restart
    BY <1>2, <2>1, <2>5 DEF Restart, Revoking
  <2>6. CASE UNCHANGED <<users, torn>> /\ (Revoking(id) => Revoking(id)')
    BY <1>2, <2>1, <2>6
  <2>7. ASSUME NEW r \in Requests, NEW u \in Tokens, newSession(r, u)
        PROVE  Revoking(id) => Revoking(id)'
    <3>1. \A s \in Requests : s # r => pc'[s] = pc[s] /\ ctx'[s] = ctx[s]
      BY <2>7, OthersStay DEF IInv, Handle
    <3> QED
      BY <2>7, <3>1 DEF newSession, Revoking
  <2>8. Yielded => ~Revoking(id)
    BY DEF Yielded, SyncSteps, Revoking
  <2> QED
    BY <2>2, <2>3, <2>4, <2>5, <2>6, <2>7, <2>8 DEF Next, Handle, vars, BeginAuth,
       BeginPassword, Logout, RejectBody, RegisterBody, LoginBody, PasswordBody,
       PasswordDerived, RegisterConflict, LoginDerived, DeriveFails, Derived,
       newSession, Expire, Revoking
<1> QED
  BY <1>1, <1>2, SessionRows DEF NoSession

-----------------------------------------------------------------------------
(* A step takes one slot, gives one back, or touches none.                 *)
LEMMA SlotSteps ==
  ASSUME TypeOK, [Next]_vars
  PROVE  \/ activeHashes' = activeHashes /\ Hashing' = Hashing
         \/ \E r \in Requests \ Hashing :
              /\ activeHashes < MaxActiveHashes
              /\ activeHashes' = activeHashes + 1 /\ Hashing' = Hashing \cup {r}
         \/ \E r \in Hashing :
              activeHashes' = activeHashes - 1 /\ Hashing' = Hashing \ {r}
         \/ activeHashes' = 0 /\ Hashing' = {}
<1> DEFINE Same == activeHashes' = activeHashes /\ Hashing' = Hashing
           Take(r) == /\ activeHashes < MaxActiveHashes
                      /\ activeHashes' = activeHashes + 1 /\ Hashing' = Hashing \cup {r}
           Give(r) == activeHashes' = activeHashes - 1 /\ Hashing' = Hashing \ {r}
<1> USE MaxActiveHashesAssumption DEF TypeOK, Hashing, HashSteps, Move, Answer
<1>1. ASSUME NEW r \in Requests,
             \/ \E k \in {"register", "login"} : BeginAuth(r, k)
             \/ \E t \in Tokens : BeginPassword(r, t) \/ Logout(r, t)
             \/ RejectBody(r)
      PROVE  Same
  BY <1>1 DEF BeginAuth, BeginPassword, Logout, RejectBody
<1>2. ASSUME NEW r \in Requests, NEW c, Derive(r, c), pc[r] = "body"
      PROVE  r \notin Hashing /\ (Same \/ Take(r))
  BY <1>2 DEF Derive
<1>3. ASSUME NEW r \in Requests,
             \/ \E e \in Emails, p \in Passwords : RegisterBody(r, e, p) \/ LoginBody(r, e, p)
             \/ \E p \in Passwords : PasswordBody(r, p)
      PROVE  r \notin Hashing /\ (Same \/ Take(r))
  <2>1. pc[r] = "body" /\ \E c : Derive(r, c)
    BY <1>3 DEF RegisterBody, LoginBody, PasswordBody
  <2> HIDE DEF Same, Take
  <2> QED
    BY <2>1, <1>2
<1>4. ASSUME NEW r \in Requests,
             \/ \E p \in Passwords : PasswordDerived(r, p)
             \/ PasswordRevoke(r)
             \/ \E t \in Tokens : newSession(r, t)
      PROVE  Same
  BY <1>4 DEF PasswordDerived, PasswordRevoke, newSession
<1>5. ASSUME NEW r \in Requests,
             \/ \E id \in UserIds : RegisterInsert(r, id)
             \/ RegisterConflict(r) \/ LoginDerived(r) \/ DeriveFails(r)
             \/ PasswordUpdate(r)
      PROVE  r \in Hashing /\ Give(r)
  BY <1>5 DEF RegisterInsert, RegisterConflict, LoginDerived, DeriveFails,
              PasswordUpdate, Derived
<1>6. ASSUME NEW t \in Tokens, Expire(t)
      PROVE Same
  BY <1>6 DEF Expire
<1>7. CASE Restart
  BY <1>7 DEF Restart
<1>8. CASE UNCHANGED vars
  BY <1>8 DEF vars
<1> QED
  BY <1>1, <1>3, <1>4, <1>5, <1>6, <1>7, <1>8 DEF Next, Handle

LEMMA HashStep ==
  ASSUME TypeOK, HashAccounting, [Next]_vars
  PROVE  HashAccounting'
<1> USE MaxActiveHashesAssumption
<1>1. IsFiniteSet(Hashing) /\ Cardinality(Hashing) \in Nat
  BY RequestsAssumption, FS_Subset, FS_CardinalityType DEF Hashing
<1>2. ASSUME NEW r \in Requests \ Hashing, activeHashes < MaxActiveHashes,
             activeHashes' = activeHashes + 1, Hashing' = Hashing \cup {r}
      PROVE  HashAccounting'
  BY <1>1, <1>2, FS_AddElement DEF HashAccounting
<1>3. ASSUME NEW r \in Hashing, activeHashes' = activeHashes - 1, Hashing' = Hashing \ {r}
      PROVE  HashAccounting'
  <2>1. Cardinality(Hashing \ {r}) = Cardinality(Hashing) - 1
    BY <1>1, FS_RemoveElement
  <2> QED
    BY <1>1, <1>3, <2>1 DEF HashAccounting
<1>4. ASSUME activeHashes' = 0, Hashing' = {}
      PROVE  HashAccounting'
  BY <1>4, FS_EmptySet DEF HashAccounting
<1>5. ASSUME activeHashes' = activeHashes, Hashing' = Hashing
      PROVE  HashAccounting'
  BY <1>5 DEF HashAccounting
<1> QED
  BY <1>2, <1>3, <1>4, <1>5, SlotSteps

LEMMA EmailStep ==
  ASSUME IInv, OneAccountPerEmail, [Next]_vars
  PROVE  OneAccountPerEmail'
<1>1. CASE UNCHANGED <<users, stored>>
  BY <1>1 DEF OneAccountPerEmail, Exists
<1>2. ASSUME NEW r \in Requests, NEW id \in UserIds, RegisterInsert(r, id)
      PROVE  OneAccountPerEmail'
  BY <1>2 DEF RegisterInsert, OneAccountPerEmail, Exists, OwnerOf, IInv, TypeOK
<1>3. ASSUME NEW r \in Requests, PasswordUpdate(r)
      PROVE  OneAccountPerEmail'
  <2>1. ctx[r].user \in UserIds /\ Exists(ctx[r].user)
    BY <1>3 DEF PasswordUpdate, IInv, ContextOK, Context, TypeOK
  <2>2. \A a \in UserIds : users'[a].email = users[a].email /\ (Exists(a)' => Exists(a))
    BY <1>3, <2>1 DEF PasswordUpdate, IInv, TypeOK, Row, Exists
  <2> QED
    BY <2>2 DEF OneAccountPerEmail
<1> QED
  BY <1>1, <1>2, <1>3, UserSteps

-----------------------------------------------------------------------------
Safety == IInv /\ HashAccounting /\ OneAccountPerEmail

LEMMA SafetyInductive == Spec => []Safety
<1>1. Init => Safety
  <2> SUFFICES ASSUME Init PROVE HashAccounting /\ OneAccountPerEmail
    BY InitIInv DEF Safety
  <2>1. Hashing = {}
    BY DEF Init, Hashing, HashSteps
  <2>2. HashAccounting
    BY <2>1, FS_EmptySet, MaxActiveHashesAssumption DEF Init, HashAccounting
  <2>3. OneAccountPerEmail
    BY DEF Init, OneAccountPerEmail, Exists, NoRow, NoHash
  <2> QED
    BY <2>2, <2>3
<1>2. Safety /\ [Next]_vars => Safety'
  <2> SUFFICES ASSUME Safety, [Next]_vars PROVE Safety'
    OBVIOUS
  <2> USE DEF Safety
  <2>1. HashAccounting' /\ OneAccountPerEmail'
    BY HashStep, EmailStep DEF IInv
  <2>2. activeHashes' \in Nat
    BY MaxActiveHashesAssumption, SlotSteps, RequestsAssumption, <2>1, FS_Subset,
       FS_CardinalityType DEF HashAccounting, Hashing
  <2>3. TypeOK'
    BY <2>2, TypeStep DEF IInv
  <2>4. RowsStored'
    BY Growth DEF IInv
  <2> QED
    BY <2>1, <2>3, <2>4, ContextStep, ProvenStep, PostdateStep DEF IInv
<1> QED
  BY <1>1, <1>2, PTL DEF Spec

(* The tables and the requests keep their shape.                           *)
THEOREM Typing == Spec => []TypeOK
BY SafetyInductive, PTL DEF Safety, IInv

(* The bound on scrypt derivations holds and its slots never leak.         *)
THEOREM HashBound == Spec => []HashAccounting
BY SafetyInductive, PTL DEF Safety

(* Overlapping registrations of one email leave one account.               *)
THEOREM UniqueEmail == Spec => []OneAccountPerEmail
BY SafetyInductive, PTL DEF Safety

(* Every session was opened with a password its own account has held.      *)
THEOREM ProvenSessions == Spec => []SessionsProven
BY SafetyInductive, PTL DEF Safety, IInv

(* A completed password change leaves none of the sessions before it.      *)
THEOREM ChangeEndsSessions == Spec => []SessionsPostdateChange
BY SafetyInductive, PTL DEF Safety, IInv

(* Only a proof of one of the account's own passwords replaces it.         *)
THEOREM ProvenReplacement == Spec => ReplacedOnlyByProof
<1> DEFINE Replacement ==
      \A id \in UserIds :
        Exists(id) /\ users'[id] # users[id] =>
          \E r \in Requests :
            /\ pc[r] = "newDerive" /\ pc'[r] = "revoke"
            /\ ctx[r].user = id /\ ctx[r].proof \in stored[id]
            /\ users'[id].email = users[id].email
<1>1. IInv /\ [Next]_vars => [Replacement]_vars
  <2> SUFFICES ASSUME IInv, [Next]_vars PROVE Replacement
    OBVIOUS
  <2>1. CASE UNCHANGED <<users, stored>>
    BY <2>1
  <2>2. ASSUME NEW r \in Requests, NEW id \in UserIds, RegisterInsert(r, id)
        PROVE  Replacement
    BY <2>2 DEF RegisterInsert, IInv, TypeOK
  <2>3. ASSUME NEW r \in Requests, PasswordUpdate(r)
        PROVE  Replacement
    <3>1. /\ ctx[r].user \in UserIds /\ pc[r] = "newDerive" /\ pc'[r] = "revoke"
          /\ ctx[r].proof \in stored[ctx[r].user]
      BY <2>3 DEF PasswordUpdate, Move, IInv, ContextOK, Context, TypeOK
    <3>2. \A id \in UserIds : users'[id].email = users[id].email
                             /\ (id # ctx[r].user => users'[id] = users[id])
      BY <2>3, <3>1 DEF PasswordUpdate, IInv, TypeOK, Row
    <3> QED
      BY <3>1, <3>2
  <2> QED
    BY <2>1, <2>2, <2>3, UserSteps
<1> QED
  BY <1>1, SafetyInductive, PTL DEF Spec, Safety, ReplacedOnlyByProof
=============================================================================
