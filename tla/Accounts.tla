------------------------------ MODULE Accounts ------------------------------
(***************************************************************************)
(* Credentials and sessions of the dashboard's account server.             *)
(*                                                                         *)
(* The server is one node process over one sqlite file.  A handler runs    *)
(* without interruption between two awaits; it awaits the request body and *)
(* every scrypt derivation, and other handlers run meanwhile.  So a        *)
(* request is a small process, `pc', and what it read before an await is   *)
(* kept in its context `ctx' and used afterwards as it was.                *)
(*                                                                         *)
(* The statements of a password change (UPDATE, DELETE, INSERT) are not in *)
(* one transaction.  No handler runs between them, a kill of the process   *)
(* may: the steps "revoke" and "session" are such points.                  *)
(***************************************************************************)
EXTENDS Integers, FiniteSets

CONSTANTS
  Requests,        \* request slots: connections served at the same time
  UserIds,         \* random ids given to accounts
  Emails,
  Passwords,
  Tokens,          \* session tokens, stored by their digest
  MaxActiveHashes, \* derivations that may run at once (2 in the code)
  MaxSalt,         \* bound of the model: salts that may ever be drawn
  NoId, NoEmail, NoPassword

ASSUME MaxActiveHashesAssumption == MaxActiveHashes \in Nat \ {0}
ASSUME MaxSaltAssumption == MaxSalt \in Nat \ {0}
ASSUME RequestsAssumption == IsFiniteSet(Requests)
ASSUME NoIdAssumption == NoId \notin UserIds

VARIABLES
  users,        \* table users: id -> row
  sessions,     \* table sessions: token -> row
  activeHashes, \* derivations in flight
  pc,           \* where each request is
  ctx,          \* what each request holds across its awaits
  nextSalt,     \* the next random salt; salts never repeat
  stored,       \* history: every hash a user's row has held
  torn          \* history: users whose change was cut before the DELETE

vars == <<users, sessions, activeHashes, pc, ctx, nextSalt, stored, torn>>

-----------------------------------------------------------------------------
(* scrypt is taken as injective: a hash is the password and the salt it    *)
(* was derived from.  Salt 0 is the dummy salt, which no row holds.        *)
Hash == [password : Passwords \cup {NoPassword}, salt : 0..MaxSalt]
NoHash == [password |-> NoPassword, salt |-> 0]

passwordHash(p, s) == [password |-> p, salt |-> s]

Row == [email : Emails \cup {NoEmail}, hash : Hash]
NoRow == [email |-> NoEmail, hash |-> NoHash]

Exists(id) == users[id].hash.salt # 0

(* A session row.  `proof' (the hash its request matched) and `under' (the *)
(* hash its user's row held when it was inserted) are history.             *)
Session == [user : UserIds \cup {NoId}, live : BOOLEAN, proof : Hash, under : Hash]
NoSession == [user |-> NoId, live |-> FALSE, proof |-> NoHash, under |-> NoHash]

Kinds == {"register", "login", "password"}
PCs == {"idle", "body", "derive", "newDerive", "revoke", "session"}
SyncSteps == {"revoke", "session"}
HashSteps == {"derive", "newDerive"}

Context == [kind : Kinds, user : UserIds \cup {NoId}, row : Hash,
            email : Emails \cup {NoEmail}, proof : Hash, fresh : Hash]
NoContext == [kind |-> "login", user |-> NoId, row |-> NoHash,
              email |-> NoEmail, proof |-> NoHash, fresh |-> NoHash]

-----------------------------------------------------------------------------
Init ==
  /\ users = [id \in UserIds |-> NoRow]
  /\ sessions = [t \in Tokens |-> NoSession]
  /\ activeHashes = 0
  /\ pc = [r \in Requests |-> "idle"]
  /\ ctx = [r \in Requests |-> NoContext]
  /\ nextSalt = 1
  /\ stored = [id \in UserIds |-> {}]
  /\ torn = {}

(* No handler is between two of its synchronous statements.                *)
Yielded == \A r \in Requests : pc[r] \notin SyncSteps

Move(r, p, c) ==
  /\ pc' = [pc EXCEPT ![r] = p]
  /\ ctx' = [ctx EXCEPT ![r] = c]

Answer(r) == Move(r, "idle", NoContext)

SignedIn(t) == sessions[t].user # NoId /\ sessions[t].live

(* userFrom: the whole user row is read here, before any await.            *)
userFrom(t) == sessions[t].user

OwnerOf(e) == {id \in UserIds : Exists(id) /\ users[id].email = e}

-----------------------------------------------------------------------------
(* Bound of the model: a request that may end in a new session begins only *)
(* while a token is left for it.                                           *)
TokenLeft ==
  Cardinality({t \in Tokens : SignedIn(t)})
    + Cardinality({r \in Requests : pc[r] # "idle"}) < Cardinality(Tokens)

(* POST register and login: the handler awaits the body.                   *)
BeginAuth(r, k) ==
  /\ Yielded /\ pc[r] = "idle" /\ TokenLeft
  /\ Move(r, "body", [NoContext EXCEPT !.kind = k])
  /\ UNCHANGED <<users, sessions, activeHashes, nextSalt, stored, torn>>

(* POST password: the session is checked and the row read, then the body   *)
(* is awaited.                                                             *)
BeginPassword(r, t) ==
  /\ Yielded /\ pc[r] = "idle" /\ SignedIn(t) /\ TokenLeft
  /\ Move(r, "body", [NoContext EXCEPT !.kind = "password",
                                       !.user = userFrom(t),
                                       !.row = users[userFrom(t)].hash])
  /\ UNCHANGED <<users, sessions, activeHashes, nextSalt, stored, torn>>

(* POST logout never awaits.                                               *)
Logout(r, t) ==
  /\ Yielded /\ pc[r] = "idle" /\ SignedIn(t)
  /\ sessions' = [sessions EXCEPT ![t] = NoSession]
  /\ UNCHANGED <<users, activeHashes, pc, ctx, nextSalt, stored, torn>>

(* Mutant of RejectBody: the error of a lost body is swallowed.            *)
RejectBodySilent(r) ==
  /\ Yielded /\ pc[r] = "body"
  /\ UNCHANGED vars

(* The client goes away, or its body is too long, not JSON or not valid.   *)
RejectBody(r) ==
  /\ Yielded /\ pc[r] = "body"
  /\ Answer(r)
  /\ UNCHANGED <<users, sessions, activeHashes, nextSalt, stored, torn>>

(* Mutant of Derive: the bound is off by one.                               *)
DerivePastBound(r, c) ==
  IF activeHashes > MaxActiveHashes
    THEN Answer(r) /\ UNCHANGED activeHashes
    ELSE Move(r, "derive", c) /\ activeHashes' = activeHashes + 1

(* deriveBounded: refuse with 503 at the bound, else count and await.      *)
Derive(r, c) ==
  IF activeHashes >= MaxActiveHashes
    THEN Answer(r) /\ UNCHANGED activeHashes
    ELSE Move(r, "derive", c) /\ activeHashes' = activeHashes + 1

RegisterBody(r, e, p) ==
  /\ Yielded /\ pc[r] = "body" /\ ctx[r].kind = "register"
  /\ nextSalt <= MaxSalt
  /\ Derive(r, [ctx[r] EXCEPT !.email = e, !.proof = passwordHash(p, nextSalt)])
  /\ nextSalt' = nextSalt + 1
  /\ UNCHANGED <<users, sessions, stored, torn>>

(* The row of the account is read now and compared after the derivation.   *)
LoginBody(r, e, p) ==
  /\ Yielded /\ pc[r] = "body" /\ ctx[r].kind = "login"
  /\ \/ \E id \in OwnerOf(e) :
          Derive(r, [ctx[r] EXCEPT !.user = id, !.row = users[id].hash,
                       !.proof = passwordHash(p, users[id].hash.salt)])
     \/ /\ OwnerOf(e) = {}
        /\ Derive(r, [ctx[r] EXCEPT !.proof = passwordHash(p, 0)])
  /\ UNCHANGED <<users, sessions, nextSalt, stored, torn>>

PasswordBody(r, p) ==
  /\ Yielded /\ pc[r] = "body" /\ ctx[r].kind = "password"
  /\ Derive(r, [ctx[r] EXCEPT !.proof = passwordHash(p, ctx[r].row.salt)])
  /\ UNCHANGED <<users, sessions, nextSalt, stored, torn>>
-----------------------------------------------------------------------------
(* The finally of deriveBounded, then the rest of the handler up to its    *)
(* next await or its next point where a kill leaves something behind.      *)
Derived(r) ==
  /\ Yielded /\ pc[r] = "derive"
  /\ activeHashes' = activeHashes - 1

(* Mutant of RegisterInsert: email is not UNIQUE.                          *)
RegisterInsertAny(r, id) ==
  /\ Derived(r) /\ ctx[r].kind = "register"
  /\ ~Exists(id)
  /\ users' = [users EXCEPT ![id] = [email |-> ctx[r].email, hash |-> ctx[r].proof]]
  /\ stored' = [stored EXCEPT ![id] = @ \cup {ctx[r].proof}]
  /\ Move(r, "session", [ctx[r] EXCEPT !.user = id])
  /\ UNCHANGED <<sessions, nextSalt, torn>>

(* INSERT INTO users: the UNIQUE email decides between two registrations.  *)
RegisterInsert(r, id) ==
  /\ Derived(r) /\ ctx[r].kind = "register"
  /\ ~Exists(id) /\ OwnerOf(ctx[r].email) = {}
  /\ users' = [users EXCEPT ![id] = [email |-> ctx[r].email, hash |-> ctx[r].proof]]
  /\ stored' = [stored EXCEPT ![id] = @ \cup {ctx[r].proof}]
  /\ Move(r, "session", [ctx[r] EXCEPT !.user = id])
  /\ UNCHANGED <<sessions, nextSalt, torn>>

RegisterConflict(r) ==
  /\ Derived(r) /\ ctx[r].kind = "register"
  /\ OwnerOf(ctx[r].email) # {}
  /\ Answer(r)
  /\ UNCHANGED <<users, sessions, nextSalt, stored, torn>>

(* Mutant of Matches: the comparison is forgotten.                         *)
MatchesAnyRow(c) == c.user # NoId

Matches(c) == c.user # NoId /\ c.proof = c.row

LoginDerived(r) ==
  /\ Derived(r) /\ ctx[r].kind = "login"
  /\ IF Matches(ctx[r]) THEN Move(r, "session", ctx[r]) ELSE Answer(r)
  /\ UNCHANGED <<users, sessions, nextSalt, stored, torn>>

(* Mutant of DeriveFails: no finally, so a failure keeps its slot.         *)
DeriveFailsLeaking(r) ==
  /\ Yielded /\ pc[r] \in HashSteps
  /\ Answer(r)
  /\ UNCHANGED <<users, sessions, activeHashes, nextSalt, stored, torn>>

(* scrypt fails, or the current password is wrong, or the new one is not   *)
(* acceptable: the error is answered, the finally has run.                 *)
DeriveFails(r) ==
  /\ Yielded /\ pc[r] \in HashSteps
  /\ activeHashes' = activeHashes - 1
  /\ Answer(r)
  /\ UNCHANGED <<users, sessions, nextSalt, stored, torn>>

(* A second derivation follows at once: this handler just freed a slot.    *)
PasswordDerived(r, p) ==
  /\ Yielded /\ pc[r] = "derive" /\ ctx[r].kind = "password"
  /\ Matches(ctx[r])
  /\ nextSalt <= MaxSalt
  /\ Move(r, "newDerive", [ctx[r] EXCEPT !.fresh = passwordHash(p, nextSalt)])
  /\ nextSalt' = nextSalt + 1
  /\ UNCHANGED <<users, sessions, activeHashes, stored, torn>>

(* UPDATE users SET salt, password                                         *)
PasswordUpdate(r) ==
  /\ Yielded /\ pc[r] = "newDerive"
  /\ activeHashes' = activeHashes - 1
  /\ users' = [users EXCEPT ![ctx[r].user].hash = ctx[r].fresh]
  /\ stored' = [stored EXCEPT ![ctx[r].user] = @ \cup {ctx[r].fresh}]
  /\ Move(r, "revoke", ctx[r])
  /\ UNCHANGED <<sessions, nextSalt, torn>>

(* Mutant of PasswordRevoke: the DELETE takes expired sessions only.       *)
PasswordRevokeExpired(r) ==
  /\ pc[r] = "revoke"
  /\ sessions' = [t \in Tokens |-> IF sessions[t].user = ctx[r].user /\ ~sessions[t].live
                                     THEN NoSession ELSE sessions[t]]
  /\ torn' = torn \ {ctx[r].user}
  /\ Move(r, "session", [ctx[r] EXCEPT !.proof = ctx[r].fresh])
  /\ UNCHANGED <<users, activeHashes, nextSalt, stored>>

(* DELETE FROM sessions WHERE user_id                                      *)
PasswordRevoke(r) ==
  /\ pc[r] = "revoke"
  /\ sessions' = [t \in Tokens |-> IF sessions[t].user = ctx[r].user
                                     THEN NoSession ELSE sessions[t]]
  /\ torn' = torn \ {ctx[r].user}
  /\ Move(r, "session", [ctx[r] EXCEPT !.proof = ctx[r].fresh])
  /\ UNCHANGED <<users, activeHashes, nextSalt, stored>>

(* newSession: expired rows are purged, a row with a fresh token added.    *)
newSession(r, t) ==
  /\ pc[r] = "session"
  /\ ~SignedIn(t)
  /\ sessions' =
       [s \in Tokens |->
          IF s = t THEN [user |-> ctx[r].user, live |-> TRUE,
                         proof |-> ctx[r].proof,
                         under |-> users[ctx[r].user].hash]
          ELSE IF sessions[s].live THEN sessions[s] ELSE NoSession]
  /\ Answer(r)
  /\ UNCHANGED <<users, activeHashes, nextSalt, stored, torn>>

-----------------------------------------------------------------------------
(* SESSION_AGE has passed.                                                 *)
Expire(t) ==
  /\ Yielded /\ SignedIn(t)
  /\ sessions' = [sessions EXCEPT ![t].live = FALSE]
  /\ UNCHANGED <<users, activeHashes, pc, ctx, nextSalt, stored, torn>>

(* The process is killed and started again: the tables stay as they are,   *)
(* requests in flight are gone.                                            *)
Restart ==
  /\ \E r \in Requests : pc[r] # "idle"
  /\ torn' = torn \cup {ctx[r].user : r \in {q \in Requests : pc[q] = "revoke"}}
  /\ activeHashes' = 0
  /\ pc' = [r \in Requests |-> "idle"]
  /\ ctx' = [r \in Requests |-> NoContext]
  /\ UNCHANGED <<users, sessions, nextSalt, stored>>

Handle(r) ==
  \/ \E k \in {"register", "login"} : BeginAuth(r, k)
  \/ \E t \in Tokens : BeginPassword(r, t) \/ Logout(r, t)
  \/ RejectBody(r)
  \/ \E e \in Emails, p \in Passwords : RegisterBody(r, e, p) \/ LoginBody(r, e, p)
  \/ \E p \in Passwords : PasswordBody(r, p) \/ PasswordDerived(r, p)
  \/ \E id \in UserIds : RegisterInsert(r, id)
  \/ RegisterConflict(r) \/ LoginDerived(r) \/ DeriveFails(r)
  \/ PasswordUpdate(r) \/ PasswordRevoke(r)
  \/ \E t \in Tokens : newSession(r, t)

Next ==
  \/ \E r \in Requests : Handle(r)
  \/ \E t \in Tokens : Expire(t)
  \/ Restart

Spec == Init /\ [][Next]_vars

(* The event loop runs: a synchronous run of statements goes on, scrypt    *)
(* completes, and node ends a request whose body does not arrive in        *)
(* requestTimeout.  Strong fairness, because another handler's synchronous *)
(* run disables the step for its length, and the loop's queues are served  *)
(* in order.  Nothing is assumed of clients, of time or of kills.          *)
FairSpec ==
  /\ Spec
  /\ \A r \in Requests :
       /\ SF_vars(RejectBody(r))
       /\ SF_vars(\/ \E id \in UserIds : RegisterInsert(r, id)
                  \/ RegisterConflict(r) \/ LoginDerived(r) \/ DeriveFails(r)
                  \/ PasswordUpdate(r) \/ PasswordRevoke(r)
                  \/ \E t \in Tokens : newSession(r, t))

-----------------------------------------------------------------------------
TypeOK ==
  /\ users \in [UserIds -> Row]
  /\ sessions \in [Tokens -> Session]
  /\ activeHashes \in Nat
  /\ pc \in [Requests -> PCs]
  /\ ctx \in [Requests -> Context]
  /\ nextSalt \in 1..(MaxSalt + 1)
  /\ stored \in [UserIds -> SUBSET Hash]
  /\ torn \in SUBSET UserIds

(* deriveBounded gives back every slot it takes, whatever way the handler  *)
(* goes on: the counter is the number of derivations in flight and never   *)
(* passes the bound, so memory for scrypt stays bounded and the service is *)
(* not refused for good.                                                   *)
Hashing == {r \in Requests : pc[r] \in HashSteps}
HashAccounting ==
  activeHashes = Cardinality(Hashing) /\ activeHashes <= MaxActiveHashes

(* Two registrations of one email, overlapping at their derivations, leave *)
(* one account.                                                            *)
OneAccountPerEmail ==
  \A a, b \in UserIds :
    Exists(a) /\ Exists(b) /\ users[a].email = users[b].email => a = b

(* No session exists for an account unless its request matched a password  *)
(* that this very account has held: not through a missing account's dummy  *)
(* salt, not through a row of another account read before an await.        *)
SessionsProven ==
  \A t \in Tokens : sessions[t].user # NoId =>
    /\ Exists(sessions[t].user)
    /\ sessions[t].proof \in stored[sessions[t].user]

(* A password change ends every session inserted before it: no session     *)
(* outlives the row it was inserted under, but while the change is between *)
(* its UPDATE and its DELETE, or if a kill cut it there.                   *)
Revoking(id) == \E r \in Requests : pc[r] = "revoke" /\ ctx[r].user = id
SessionsPostdateChange ==
  \A t \in Tokens : LET id == sessions[t].user IN
    id # NoId =>
      sessions[t].under = users[id].hash \/ id \in torn \/ Revoking(id)

(* A stored password is only ever replaced by a handler that matched a     *)
(* password of the same account, while a handler of that account commits.  *)
ReplacedOnlyByProof ==
  [][\A id \in UserIds :
       Exists(id) /\ users'[id] # users[id] =>
         \E r \in Requests :
           /\ pc[r] = "newDerive" /\ pc'[r] = "revoke"
           /\ ctx[r].user = id /\ ctx[r].proof \in stored[id]
           /\ users'[id].email = users[id].email]_vars

(* DASHBOARD-SETUP.md: "Password changes revoke other sessions."  A        *)
(* session that is left, outside the change itself and kills, was opened   *)
(* with the password the account has now.                                  *)
ChangeRevokesOldPassword ==
  \A t \in Tokens : LET id == sessions[t].user IN
    id # NoId /\ torn = {} /\ Yielded => sessions[t].proof = users[id].hash

(* server.test.mjs: "Passwords change with current-password proof": the    *)
(* password a change replaces is the one its request matched.              *)
ChangeProvesCurrentPassword ==
  [][\A r \in Requests : pc[r] = "newDerive" /\ pc'[r] = "revoke" =>
       ctx[r].proof = users[ctx[r].user].hash]_vars

(* Every request is answered.                                              *)
RequestsAnswered == \A r \in Requests : pc[r] # "idle" ~> pc[r] = "idle"

(* The service does not stay at its bound of derivations.                  *)
NeverBusyForGood == []<>(activeHashes < MaxActiveHashes)
=============================================================================
