------------------------------ MODULE Community ------------------------------
(***************************************************************************)
(* The chat rooms and their reports.  A page shows what it was sent some   *)
(* time ago; a report or a deletion names a message by its number, which   *)
(* may mean another message by then.  A post awaits its body; all other    *)
(* handlers are one step.  The limit of posts is in RateLimit.             *)
(***************************************************************************)
EXTENDS ServerProcess, FiniteSets, FiniteSetsExt

CONSTANTS
  Rooms,
  Moderators,   \* DASHBOARD_MODERATOR_IDS of this process
  PageLength,   \* messages of a room a page is sent (100 in the code)
  MaxPosts      \* bound of the model

ASSUME CommunityAssumption ==
  /\ Moderators \subseteq Users
  /\ PageLength \in Nat \ {0} /\ MaxPosts \in Nat

VARIABLES
  messages,  \* table messages; `post' (which post made it) is history
  sequence,  \* the greatest number AUTOINCREMENT has given, kept by sqlite
  reports,   \* table reports; `post' is the message its user meant, history
  posts,     \* posts made so far
  page,      \* what each user was last sent
  pending    \* posts whose body is awaited: the user, by request

chatVars == <<messages, sequence, reports, posts, page, pending>>

Numbers == 1..MaxPosts
Message == [id : Numbers, author : Users, room : Rooms, post : Numbers]

ChatInit ==
  /\ messages = {} /\ sequence = 0 /\ reports = {} /\ posts = 0
  /\ page = [user \in Users |-> {}]
  /\ pending = [r \in Requests |-> None]

(* Mutant of NextId: the numbers of a table without AUTOINCREMENT.         *)
NextIdReusing == IF messages = {} THEN 1 ELSE Max({m.id : m \in messages}) + 1

NextId == sequence + 1

BeginPostMessage(r, user) ==
  /\ pending[r] = None
  /\ pending' = [pending EXCEPT ![r] = user]
  /\ UNCHANGED <<messages, sequence, reports, posts, page>>

PostMessage(r, room) ==
  /\ pending[r] # None /\ posts < MaxPosts
  /\ posts' = posts + 1
  /\ messages' = messages \cup
       {[id |-> NextId, author |-> pending[r], room |-> room, post |-> posts']}
  /\ sequence' = NextId
  /\ pending' = [pending EXCEPT ![r] = None]
  /\ UNCHANGED <<reports, page>>

RejectMessage(r) ==
  /\ pending[r] # None
  /\ pending' = [pending EXCEPT ![r] = None]
  /\ UNCHANGED <<messages, sequence, reports, posts, page>>

(* ORDER BY id DESC LIMIT 100.                                             *)
Latest(room) ==
  {m \in messages : m.room = room
                    /\ Cardinality({n \in messages : n.room = room /\ n.id > m.id}) < PageLength}

ReadRoom(user, room) ==
  /\ page' = [page EXCEPT ![user] = Latest(room)]
  /\ UNCHANGED <<messages, sequence, reports, posts, pending>>

ReportCount(m) == Cardinality({x \in reports : x.id = m.id})

(* A moderator's page: the messages with the most reports.                 *)
ReadReports(user) ==
  /\ user \in Moderators
  /\ LET reported == {m \in messages : ReportCount(m) > 0} IN
     \E shown \in SUBSET reported :
       /\ Cardinality(shown) = Min({PageLength, Cardinality(reported)})
       /\ \A m \in shown, n \in reported \ shown : ReportCount(m) >= ReportCount(n)
       /\ page' = [page EXCEPT ![user] = shown]
  /\ UNCHANGED <<messages, sequence, reports, posts, pending>>

(* INSERT OR IGNORE, once for a message and a user.                        *)
Report(user, seen) ==
  /\ seen \in page[user]
  /\ \E m \in messages : m.id = seen.id
  /\ reports' = IF \E x \in reports : x.id = seen.id /\ x.user = user THEN reports
                ELSE reports \cup {[id |-> seen.id, user |-> user, post |-> seen.post]}
  /\ UNCHANGED <<messages, sequence, posts, page, pending>>

(* The reports that stay when a message goes.                              *)
Cascade(id) == {x \in reports : x.id # id}

(* Mutant of MayDelete: whoever sees a message may delete it.              *)
MayDeleteSeen(user, m) == m \in page[user]

MayDelete(user, m) == m.author = user \/ user \in Moderators

(* DELETE asks who wrote the message that has the number now.              *)
DeleteMessage(user, seen) ==
  /\ seen \in page[user]
  /\ \E m \in messages :
       /\ m.id = seen.id /\ MayDelete(user, m)
       /\ messages' = messages \ {m}
  /\ reports' = Cascade(seen.id)
  /\ UNCHANGED <<sequence, posts, page, pending>>

(* The process is killed; the pages and the tables stay.                   *)
ChatRestart ==
  /\ pending' = [r \in Requests |-> None]
  /\ UNCHANGED <<messages, sequence, reports, posts, page>>

ChatNext ==
  \/ \E r \in Requests :
       \/ \E user \in Users : BeginPostMessage(r, user)
       \/ \E room \in Rooms : PostMessage(r, room)
       \/ RejectMessage(r)
  \/ \E user \in Users :
       \/ \E room \in Rooms : ReadRoom(user, room)
       \/ ReadReports(user)
       \/ \E seen \in page[user] : Report(user, seen) \/ DeleteMessage(user, seen)
  \/ ChatRestart

ChatSpec == ChatInit /\ [][ChatNext]_chatVars

-----------------------------------------------------------------------------
ChatTypeOK ==
  /\ messages \subseteq Message
  /\ sequence \in 0..MaxPosts /\ posts \in 0..MaxPosts
  /\ reports \subseteq [id : Numbers, user : Users, post : Numbers]
  /\ page \in [Users -> SUBSET Message]
  /\ pending \in [Requests -> Users \cup {None}]
  /\ \A m, n \in messages : m.id = n.id => m = n

(* A report is one of a message that exists, and of the very message its   *)
(* user was looking at.                                                    *)
ReportsMeanWhatWasSeen ==
  \A x \in reports : \E m \in messages : m.id = x.id /\ m.post = x.post

(* A message goes only by its author or a moderator, and only when that    *)
(* very message was on their page.                                         *)
DeletedKnowingly ==
  [][\A m \in messages \ messages' :
       \E user \in Users : m \in page[user] /\ (m.author = user \/ user \in Moderators)]_chatVars
=============================================================================
