-------------------------- MODULE AccountServerProofs --------------------------
(***************************************************************************)
(* The parts of the account server for any numbers of requests, accounts,  *)
(* items, rooms, symbols and keys, each with the invariant of its own, and *)
(* the server that is made of them.                                        *)
(***************************************************************************)
EXTENDS AccountServer, FiniteSetTheorems, TLAPS

(***************************************************************************)
(* Items.  What a request keeps across its body is not what the tables     *)
(* hold; the invariant says what of it is still true: the id was drawn,    *)
(* and if its row is there, it is of the type that was read.               *)
(***************************************************************************)

(* What a PUT read before its body.                                        *)
ContextOK(r) ==
  /\ itemPc[r] = "post" => itemCtx[r].user \in Users
  /\ itemPc[r] = "put" =>
       /\ itemCtx[r].user \in Users /\ itemCtx[r].id \in drawn /\ itemCtx[r].type \in Types
       /\ items[itemCtx[r].id].user = itemCtx[r].user => items[itemCtx[r].id].type = itemCtx[r].type

ItemsIInv ==
  /\ ItemsTypeOK
  /\ \A id \in ItemIds :
       items[id].user # None => id \in drawn /\ items[id].type \in Types
  /\ \A r \in Requests : ContextOK(r)
  /\ PayloadFitsType
  /\ ItemLimit

LEMMA ItemsConstants ==
  /\ IsFiniteSet(ItemIds) /\ MaxItems \in Nat
  /\ None \notin ItemIds /\ None \notin Types /\ None \notin Users
  BY WorkspaceAssumption, ServerAssumption

LEMMA ItemsInitIInv == ItemsInit => ItemsIInv
<1> SUFFICES ASSUME ItemsInit PROVE ItemsIInv
  OBVIOUS
<1>1. ItemsTypeOK
  BY DEF ItemsInit, ItemsTypeOK, ItemRow, NoItem, NoItemCtx
<1>2. \A user \in Users : Owned(user) = {}
  BY ItemsConstants DEF ItemsInit, Owned, NoItem
<1>3. ItemLimit
  BY ItemsConstants, <1>2, FS_EmptySet DEF ItemLimit
<1> QED
  BY <1>1, <1>3 DEF ItemsInit, ItemsIInv, ContextOK, PayloadFitsType, NoItem

(* Rows of one account that do not grow stay under its limit.              *)
LEMMA Shrinks ==
  ASSUME NEW user \in Users, Owned(user)' \subseteq Owned(user),
         Cardinality(Owned(user)) <= MaxItems
  PROVE  Cardinality(Owned(user)') <= MaxItems
<1>1. IsFiniteSet(Owned(user))
  BY ItemsConstants, FS_Subset DEF Owned
<1>2. /\ Cardinality(Owned(user)) \in Nat
      /\ Cardinality(Owned(user)') \in Nat
      /\ Cardinality(Owned(user)') <= Cardinality(Owned(user))
  BY <1>1, FS_Subset, FS_CardinalityType
<1> QED
  BY ItemsConstants, <1>2

LEMMA PostItemKeeps ==
  ASSUME ItemsIInv, NEW r \in Requests, NEW type \in Types, NEW id \in ItemIds, PostItem(r, type, id)
  PROVE  ItemsIInv'
<1> USE DEF ItemsIInv, ItemsTypeOK
<1>1. itemCtx[r].user \in Users
  BY DEF PostItem, ContextOK
<1>2. CASE ~HasRoom(itemCtx[r].user)
  BY <1>2 DEF PostItem, ItemAnswered, NoItemCtx, ContextOK, PayloadFitsType, ItemLimit, Owned, ItemRow
<1>3. CASE HasRoom(itemCtx[r].user)
  <2>1. items' = [items EXCEPT ![id] =
                    [user |-> itemCtx[r].user, type |-> type, payload |-> type]]
        /\ id \notin drawn /\ drawn' = drawn \cup {id} /\ ItemAnswered(r)
    BY <1>3 DEF PostItem
  <2>2. ItemsTypeOK'
    BY <1>1, <2>1 DEF ItemAnswered, NoItemCtx, ItemRow
  <2>3. items[id].user = None
    BY <2>1 DEF ItemRow
  <2>4. \A i \in ItemIds :
          items'[i].user # None => i \in drawn' /\ items'[i].type \in Types
    BY <2>1
  <2>5. \A q \in Requests : ContextOK(q)'
    BY <2>1 DEF ItemAnswered, NoItemCtx, ContextOK
  <2>6. PayloadFitsType'
    BY <2>1 DEF PayloadFitsType
  <2>7. ASSUME NEW user \in Users PROVE Cardinality(Owned(user)') <= MaxItems
    <3>1. CASE user # itemCtx[r].user
      <4>1. Owned(user)' \subseteq Owned(user)
        BY <2>1, <3>1 DEF Owned
      <4> QED
        BY <4>1, Shrinks DEF ItemLimit
    <3>2. CASE user = itemCtx[r].user
      <4>1. Owned(user)' = Owned(user) \cup {id} /\ id \notin Owned(user)
        BY ItemsConstants, <2>1, <2>3, <3>2, <1>1 DEF Owned
      <4>2. IsFiniteSet(Owned(user))
        BY ItemsConstants, FS_Subset DEF Owned
      <4>3. Cardinality(Owned(user)') = Cardinality(Owned(user)) + 1
            /\ Cardinality(Owned(user)) \in Nat
        BY <4>1, <4>2, FS_AddElement, FS_CardinalityType
      <4> QED
        BY ItemsConstants, <1>3, <3>2, <4>3 DEF HasRoom
    <3> QED
      BY <3>1, <3>2
  <2> QED
    BY <2>2, <2>4, <2>5, <2>6, <2>7 DEF ItemLimit
<1> QED
  BY <1>2, <1>3

LEMMA PutItemKeeps ==
  ASSUME ItemsIInv, NEW r \in Requests, NEW type \in Types, PutItem(r, type)
  PROVE  ItemsIInv'
<1> USE DEF ItemsIInv, ItemsTypeOK
<1>1. /\ type = itemCtx[r].type /\ itemCtx[r].user \in Users /\ itemCtx[r].id \in drawn
      /\ items[itemCtx[r].id].user = itemCtx[r].user => items[itemCtx[r].id].type = type
      /\ ItemAnswered(r) /\ drawn' = drawn
  BY DEF PutItem, ContextOK
<1>2. items' = [id \in ItemIds |->
                  IF id = itemCtx[r].id /\ items[id].user = itemCtx[r].user
                    THEN [items[id] EXCEPT !.payload = type] ELSE items[id]]
  BY DEF PutItem
<1>3. \A id \in ItemIds : items'[id] \in ItemRow
  BY <1>2 DEF ItemRow
<1>4. \A id \in ItemIds : items'[id].user = items[id].user /\ items'[id].type = items[id].type
  BY <1>2 DEF ItemRow
<1>5. ItemsTypeOK'
  BY <1>1, <1>2, <1>3 DEF ItemAnswered, NoItemCtx
<1>6. \A q \in Requests : ContextOK(q)'
  BY <1>1, <1>4 DEF ItemAnswered, NoItemCtx, ContextOK
<1>7. PayloadFitsType'
  BY <1>1, <1>2 DEF PayloadFitsType, ItemRow
<1>8. \A user \in Users : Owned(user)' = Owned(user)
  BY <1>4 DEF Owned
<1>9. ItemLimit'
  BY <1>8, Shrinks DEF ItemLimit
<1> QED
  BY <1>1, <1>4, <1>5, <1>6, <1>7, <1>9

LEMMA DeleteItemKeeps ==
  ASSUME ItemsIInv, NEW owner \in Users, NEW id \in ItemIds, DeleteItem(owner, id)
  PROVE  ItemsIInv'
<1> USE DEF ItemsIInv, ItemsTypeOK, DeleteItem
<1>1. ItemsTypeOK'
  BY DEF ItemRow, NoItem
<1>2. \A r \in Requests : ContextOK(r)'
  BY ItemsConstants DEF ContextOK, NoItem
<1>3. PayloadFitsType'
  BY DEF PayloadFitsType, NoItem
<1>4. \A user \in Users : Owned(user)' \subseteq Owned(user)
  BY ItemsConstants DEF Owned, NoItem
<1>5. ItemLimit'
  BY <1>4, Shrinks DEF ItemLimit
<1> QED
  BY <1>1, <1>2, <1>3, <1>5 DEF NoItem

LEMMA ItemsInvariance == ItemsSpec => []ItemsIInv
<1>1. ItemsIInv /\ [ItemsNext]_itemVars => ItemsIInv'
  <2> SUFFICES ASSUME ItemsIInv, [ItemsNext]_itemVars PROVE ItemsIInv'
    OBVIOUS
  <2> USE DEF ItemsIInv, ItemsTypeOK
  <2>1. ASSUME UNCHANGED items
        PROVE  (PayloadFitsType /\ ItemLimit)'
    BY <2>1 DEF PayloadFitsType, ItemLimit, Owned
  <2>2. CASE UNCHANGED itemVars
    BY <2>1, <2>2 DEF itemVars, ContextOK
  <2>3. ASSUME NEW r \in Requests, NEW user \in Users, BeginPostItem(r, user) PROVE ItemsIInv'
    BY <2>1, <2>3 DEF BeginPostItem, ContextOK, NoItemCtx
  <2>4. ASSUME NEW r \in Requests, NEW user \in Users, NEW id \in ItemIds, BeginPutItem(r, user, id)
        PROVE  ItemsIInv'
    <3>1. items[id].user = user /\ id \in drawn /\ items[id].type \in Types
      BY ItemsConstants, <2>4 DEF BeginPutItem, Owned
    <3> QED
      BY <2>1, <2>4, <3>1 DEF BeginPutItem, ContextOK
  <2>5. ASSUME NEW r \in Requests, RejectItem(r) PROVE ItemsIInv'
    BY <2>1, <2>5 DEF RejectItem, ItemAnswered, ContextOK, NoItemCtx
  <2>6. CASE ItemsRestart
    BY <2>1, <2>6 DEF ItemsRestart, ContextOK, NoItemCtx
  <2> QED
    BY <2>2, <2>3, <2>4, <2>5, <2>6, PostItemKeeps, PutItemKeeps, DeleteItemKeeps DEF ItemsNext
<1> QED
  BY ItemsInitIInv, <1>1, PTL DEF ItemsSpec
-----------------------------------------------------------------------------
(* The table and the requests keep their shape.                            *)
THEOREM ItemsTyping == ItemsSpec => []ItemsTypeOK
BY ItemsInvariance, PTL DEF ItemsIInv

(* Overlapping POSTs never pass the limit of an account.                   *)
THEOREM LimitHolds == ItemsSpec => []ItemLimit
BY ItemsInvariance, PTL DEF ItemsIInv

(* Every payload fits the type of its row, whatever requests overlapped.   *)
THEOREM PayloadsFit == ItemsSpec => []PayloadFitsType
BY ItemsInvariance, PTL DEF ItemsIInv

(* No step brings an item back or gives it to another account.             *)
THEOREM NothingRevived == ItemsSpec => DeletedForGood
<1>1. ASSUME ItemsIInv, [ItemsNext]_itemVars
      PROVE  \A id \in drawn : items'[id].user \in {items[id].user, None}
  <2> USE <1>1 DEF ItemsIInv, ItemsTypeOK
  <2> TAKE id \in drawn
  <2>1. CASE UNCHANGED items
    BY <2>1
  <2>2. ASSUME NEW r \in Requests, NEW type \in Types, NEW new \in ItemIds, PostItem(r, type, new)
        PROVE  items'[id].user \in {items[id].user, None}
    BY <2>2 DEF PostItem
  <2>3. ASSUME NEW r \in Requests, NEW type \in Types, PutItem(r, type)
        PROVE  items'[id].user \in {items[id].user, None}
    BY <2>3 DEF PutItem, ItemRow
  <2>4. ASSUME NEW user \in Users, NEW gone \in ItemIds, DeleteItem(user, gone)
        PROVE  items'[id].user \in {items[id].user, None}
    BY <2>4 DEF DeleteItem, NoItem
  <2> QED
    BY <2>1, <2>2, <2>3, <2>4 DEF ItemsNext, itemVars, BeginPostItem, BeginPutItem, RejectItem, ItemsRestart
<1>2. ItemsIInv /\ [ItemsNext]_itemVars =>
        [\A id \in drawn : items'[id].user \in {items[id].user, None}]_itemVars
  BY <1>1
<1> QED
  BY ItemsInvariance, <1>2, PTL DEF ItemsSpec, DeletedForGood

-----------------------------------------------------------------------------
(***************************************************************************)
(* Chat.  What a report or a deletion names by its number is what its user *)
(* saw, because a number is never given twice: it counts the posts, so     *)
(* whatever a page or a report remembers under a number is the message     *)
(* that has the number, or one that is gone.                               *)
(***************************************************************************)

Numbered(m) == m.id \in Nat /\ m.post = m.id /\ m.id <= sequence

NumbersOK ==
  /\ sequence \in Nat /\ posts = sequence
  /\ \A m \in messages : Numbered(m)
  /\ \A m, n \in messages : m.id = n.id => m = n

(* A page that is out of date shows no message under another's number.     *)
PagesOK ==
  /\ page = [user \in Users |-> page[user]]
  /\ \A user \in Users : \A seen \in page[user] :
       Numbered(seen) /\ \A m \in messages : m.id = seen.id => m = seen

ReportsOK ==
  \A x \in reports : x.post = x.id /\ \E m \in messages : m.id = x.id

ChatIInv == NumbersOK /\ PagesOK /\ ReportsOK

-----------------------------------------------------------------------------
LEMMA ChatInitIInv == ChatInit => ChatIInv
  BY DEF ChatInit, ChatIInv, NumbersOK, PagesOK, ReportsOK

LEMMA PostMessageKeeps ==
  ASSUME ChatIInv, NEW r \in Requests, NEW room \in Rooms, PostMessage(r, room)
  PROVE  ChatIInv'
<1> DEFINE new == [id |-> sequence + 1, author |-> pending[r], room |-> room, post |-> posts + 1]
<1>1. /\ messages' = messages \cup {new}
      /\ sequence' = sequence + 1 /\ posts' = posts + 1
      /\ UNCHANGED <<reports, page>>
  BY DEF PostMessage, NextId
<1>2. /\ sequence \in Nat /\ posts = sequence
      /\ \A m \in messages : Numbered(m)
      /\ \A m, n \in messages : m.id = n.id => m = n
  BY DEF ChatIInv, NumbersOK
<1>3. new.id = sequence + 1 /\ new.post = sequence + 1
  BY <1>2
<1> HIDE DEF new
<1>4. \A m : Numbered(m) => Numbered(m)' /\ m.id # new.id
  BY <1>1, <1>2, <1>3 DEF Numbered
<1>5. NumbersOK'
  <2>1. \A m \in messages' : Numbered(m)'
    BY <1>1, <1>2, <1>3, <1>4 DEF Numbered
  <2>2. \A m, n \in messages' : m.id = n.id => m = n
    BY <1>1, <1>2, <1>4
  <2>3. sequence' \in Nat /\ posts' = sequence'
    BY <1>1, <1>2
  <2> QED
    BY <2>1, <2>2, <2>3 DEF NumbersOK
<1>6. PagesOK'
  <2>1. \A user \in Users : \A seen \in page[user] :
          Numbered(seen) /\ \A m \in messages : m.id = seen.id => m = seen
    BY DEF ChatIInv, PagesOK
  <2>2. \A user \in Users : \A seen \in page[user] :
          Numbered(seen)' /\ \A m \in messages' : m.id = seen.id => m = seen
    BY <2>1, <1>1, <1>4
  <2> QED
    BY <2>2, <1>1 DEF ChatIInv, PagesOK
<1>7. ReportsOK'
  BY <1>1 DEF ChatIInv, ReportsOK
<1> QED
  BY <1>5, <1>6, <1>7 DEF ChatIInv

(* A page is sent again: what it shows is stored.                          *)
LEMMA ReadRoomKeeps ==
  ASSUME ChatIInv, NEW user \in Users, NEW shown \in SUBSET messages,
         page' = [page EXCEPT ![user] = shown],
         UNCHANGED <<messages, sequence, reports, posts>>
  PROVE  ChatIInv'
<1>1. NumbersOK' /\ ReportsOK'
  BY DEF ChatIInv, NumbersOK, ReportsOK, Numbered
<1>2. ASSUME NEW u \in Users, NEW seen \in page'[u]
      PROVE  Numbered(seen)' /\ \A m \in messages' : m.id = seen.id => m = seen
  <2>1. seen \in messages \/ seen \in page[u]
    BY <1>2 DEF ChatIInv, PagesOK
  <2>2. Numbered(seen) /\ \A m \in messages : m.id = seen.id => m = seen
    BY <2>1 DEF ChatIInv, NumbersOK, PagesOK
  <2> QED
    BY <2>2 DEF Numbered
<1>3. page' = [u \in Users |-> page'[u]]
  BY DEF ChatIInv, PagesOK
<1> QED
  BY <1>1, <1>2, <1>3 DEF ChatIInv, PagesOK

LEMMA ReportKeeps ==
  ASSUME ChatIInv, NEW user \in Users, NEW seen \in page[user], Report(user, seen)
  PROVE  ChatIInv'
<1>1. UNCHANGED <<messages, sequence, posts, page>>
  BY DEF Report
<1>2. NumbersOK' /\ PagesOK'
  BY <1>1 DEF ChatIInv, NumbersOK, PagesOK, Numbered
<1>3. seen.post = seen.id /\ \E m \in messages : m.id = seen.id
  BY DEF Report, ChatIInv, PagesOK, Numbered
<1>4. reports' \subseteq reports \cup {[id |-> seen.id, user |-> user, post |-> seen.post]}
  BY DEF Report
<1>5. ReportsOK'
  BY <1>1, <1>3, <1>4 DEF ChatIInv, ReportsOK
<1> QED
  BY <1>2, <1>5 DEF ChatIInv

LEMMA DeleteMessageKeeps ==
  ASSUME ChatIInv, NEW user \in Users, NEW seen \in page[user], DeleteMessage(user, seen)
  PROVE  ChatIInv'
<1>1. PICK m \in messages : m.id = seen.id /\ messages' = messages \ {m}
  BY DEF DeleteMessage
<1>2. /\ reports' = {x \in reports : x.id # seen.id}
      /\ UNCHANGED <<sequence, posts, page>>
  BY DEF DeleteMessage, Cascade
<1>3. NumbersOK'
  BY <1>1, <1>2 DEF ChatIInv, NumbersOK, Numbered
<1>4. PagesOK'
  BY <1>1, <1>2 DEF ChatIInv, PagesOK, Numbered
<1>5. ReportsOK'
  BY <1>1, <1>2 DEF ChatIInv, ReportsOK
<1> QED
  BY <1>3, <1>4, <1>5 DEF ChatIInv

LEMMA ChatNextIInv == ChatIInv /\ [ChatNext]_chatVars => ChatIInv'
<1> SUFFICES ASSUME ChatIInv, [ChatNext]_chatVars PROVE ChatIInv'
  OBVIOUS
<1>1. ASSUME UNCHANGED <<messages, sequence, reports, posts, page>> PROVE ChatIInv'
  BY <1>1 DEF ChatIInv, NumbersOK, PagesOK, ReportsOK, Numbered
<1>2. ASSUME NEW r \in Requests, NEW room \in Rooms, PostMessage(r, room) PROVE ChatIInv'
  BY <1>2, PostMessageKeeps
<1>3. ASSUME NEW user \in Users, NEW room \in Rooms, ReadRoom(user, room) PROVE ChatIInv'
  <2>1. Latest(room) \subseteq messages
    BY DEF Latest
  <2> QED
    BY <1>3, <2>1, ReadRoomKeeps DEF ReadRoom
<1>4. ASSUME NEW user \in Users, ReadReports(user) PROVE ChatIInv'
  <2>1. \E shown \in SUBSET messages : page' = [page EXCEPT ![user] = shown]
    BY <1>4 DEF ReadReports
  <2> QED
    BY <1>4, <2>1, ReadRoomKeeps DEF ReadReports
<1>5. ASSUME NEW user \in Users, NEW seen \in page[user],
             Report(user, seen) \/ DeleteMessage(user, seen)
      PROVE  ChatIInv'
  BY <1>5, ReportKeeps, DeleteMessageKeeps
<1>6. \/ UNCHANGED <<messages, sequence, reports, posts, page>>
      \/ \E r \in Requests, room \in Rooms : PostMessage(r, room)
      \/ \E user \in Users, room \in Rooms : ReadRoom(user, room)
      \/ \E user \in Users : ReadReports(user)
      \/ \E user \in Users : \E seen \in page[user] :
           Report(user, seen) \/ DeleteMessage(user, seen)
  BY DEF ChatNext, chatVars, BeginPostMessage, RejectMessage, ChatRestart
<1> QED
  BY <1>1, <1>2, <1>3, <1>4, <1>5, <1>6

LEMMA ChatInvariance == ChatSpec => []ChatIInv
  BY ChatInitIInv, ChatNextIInv, PTL DEF ChatSpec

-----------------------------------------------------------------------------
(* A report, whatever was posted and deleted before it was sent, is of the *)
(* message its user was looking at.                                        *)
THEOREM SeenIsReported == ChatSpec => []ReportsMeanWhatWasSeen
<1>1. ChatIInv => ReportsMeanWhatWasSeen
  BY DEF ChatIInv, NumbersOK, ReportsOK, Numbered, ReportsMeanWhatWasSeen
<1> QED
  BY <1>1, ChatInvariance, PTL

(* A message goes only when a moderator or its author, who saw this very   *)
(* message, asks for it.                                                   *)
THEOREM SeenIsDeleted == ChatSpec => DeletedKnowingly
<1> DEFINE Knowingly ==
      \A m \in messages \ messages' :
        \E user \in Users : m \in page[user] /\ (m.author = user \/ user \in Moderators)
<1>1. ChatIInv /\ [ChatNext]_chatVars => [Knowingly]_chatVars
  <2> SUFFICES ASSUME ChatIInv, ChatNext, NEW m \in messages \ messages'
               PROVE  \E user \in Users :
                        m \in page[user] /\ (m.author = user \/ user \in Moderators)
    OBVIOUS
  <2>1. PICK user \in Users : \E seen \in page[user] : DeleteMessage(user, seen)
    BY DEF ChatNext, BeginPostMessage, PostMessage, RejectMessage, ReadRoom,
           ReadReports, Report, ChatRestart
  <2>2. PICK seen \in page[user] : DeleteMessage(user, seen)
    BY <2>1
  <2>3. m.id = seen.id /\ MayDelete(user, m)
    BY <2>2 DEF DeleteMessage
  <2>4. m = seen
    BY <2>3 DEF ChatIInv, PagesOK
  <2> QED
    BY <2>3, <2>4 DEF MayDelete
<1> QED
  BY <1>1, ChatInvariance, PTL DEF ChatSpec, DeletedKnowingly

-----------------------------------------------------------------------------
(***************************************************************************)
(* Quotes.  The invariant follows a quote's age: what a flight holds came  *)
(* since it began, and a flight lasts no longer than the timeout, for the  *)
(* clock does not pass the timer of a fetch; what the cache holds is a     *)
(* timeout older than its check at most.  And it ties the last question to *)
(* the upstream to the flight, or to the cache the flight has left.        *)
(***************************************************************************)

Time == Nat \cup {Never}

MarketTypeOK ==
  /\ now \in Nat
  /\ flight \in [quotes : [Symbols -> Time], open : SUBSET Symbols, since : Time]
  /\ priceCache \in [quotes : [Symbols -> Time], checked : Time]
  /\ answer \in [quotes : [Symbols -> Time], at : Time]
  /\ asked \in Time

FlightOK ==
  flight # NoFlight =>
    /\ flight.since \in Nat /\ flight.since <= now /\ now - flight.since <= Timeout
    /\ asked = flight.since
    /\ \A s \in Symbols : flight.quotes[s] # Missing =>
         flight.since <= flight.quotes[s] /\ flight.quotes[s] <= now

CacheOK ==
  priceCache # NoCache =>
    /\ priceCache.checked \in Nat /\ priceCache.checked <= now
    /\ \A s \in Symbols : priceCache.quotes[s] # Missing =>
         priceCache.checked - priceCache.quotes[s] <= Timeout

AskedOK ==
  asked # Never /\ flight = NoFlight =>
    priceCache # NoCache /\ asked <= priceCache.checked

MarketIInv ==
  /\ MarketTypeOK /\ FlightOK /\ CacheOK /\ AskedOK
  /\ waiting # {} => flight # NoFlight
  /\ QuotesAreYoung

-----------------------------------------------------------------------------
LEMMA MarketConstants == Fresh \in Nat \ {0} /\ Timeout \in Nat \ {0} /\ MaxTime \in Nat
  BY MarketAssumption, ServerAssumption

LEMMA NoneType ==
  /\ NoFlight \in [quotes : [Symbols -> Time], open : SUBSET Symbols, since : Time]
  /\ NoCache \in [quotes : [Symbols -> Time], checked : Time]
  /\ NoAnswer \in [quotes : [Symbols -> Time], at : Time]
  /\ NoQuotes \in [Symbols -> Time] /\ \A s \in Symbols : NoQuotes[s] = Missing
  /\ NoFlight.open = {} /\ NoFlight.quotes = NoQuotes /\ NoFlight.since = Never
  /\ NoAnswer.quotes = NoQuotes
  BY DEF NoFlight, NoCache, NoAnswer, NoQuotes, Time, Missing

LEMMA MarketInitIInv == MarketInit => MarketIInv
  BY NoneType DEF MarketInit, MarketIInv, MarketTypeOK, FlightOK, CacheOK, AskedOK,
                  QuotesAreYoung, Time

(* A request is answered from the cache, joins the flight or begins one.   *)
LEMMA MarketKeeps ==
  ASSUME MarketIInv, NEW r \in Requests, market(r)
  PROVE  MarketIInv'
<1> USE DEF MarketIInv
<1>1. UNCHANGED <<now, priceCache>> /\ now \in Nat
  BY DEF market, MarketTypeOK
<1>2. CASE CacheFresh
  <2>1. /\ answer' = [quotes |-> priceCache.quotes, at |-> now]
        /\ UNCHANGED <<waiting, flight, asked>>
    BY <1>2 DEF market
  <2>2. MarketTypeOK'
    BY <1>1, <2>1 DEF MarketTypeOK, Time
  <2>3. QuotesAreYoung'
    <3>1. /\ priceCache.checked \in Nat /\ now - priceCache.checked < Fresh
          /\ \A s \in Symbols : priceCache.quotes[s] \in Time /\
               (priceCache.quotes[s] # Missing => priceCache.checked - priceCache.quotes[s] <= Timeout)
      BY <1>2 DEF CacheFresh, CacheOK, MarketTypeOK
    <3>2. answer'.quotes = priceCache.quotes /\ answer'.at = now
      BY <2>1
    <3> QED
      BY <3>1, <3>2, <1>1, MarketConstants DEF QuotesAreYoung, Time, Missing, Never
  <2> QED
    BY <1>1, <2>1, <2>2, <2>3 DEF FlightOK, CacheOK, AskedOK
<1>3. CASE ~CacheFresh /\ flight # NoFlight
  <2>1. flight' = flight /\ asked' = asked /\ answer' = answer
    BY <1>3 DEF market, FlightOK
  <2> QED
    BY <1>1, <1>3, <2>1 DEF MarketTypeOK, FlightOK, CacheOK, AskedOK, QuotesAreYoung
<1>4. CASE ~CacheFresh /\ flight = NoFlight
  <2>1. flight' = [quotes |-> NoQuotes, open |-> Symbols, since |-> now]
        /\ asked' = now /\ answer' = answer
    BY <1>4 DEF market
  <2>2. flight'.since = now /\ flight'.quotes = NoQuotes /\ flight' # NoFlight
    BY <2>1, <1>1, NoneType DEF Never
  <2>3. MarketTypeOK'
    BY <1>1, <2>1, NoneType DEF MarketTypeOK, Time
  <2>4. FlightOK'
    BY <1>1, <2>1, <2>2, NoneType, MarketConstants DEF FlightOK
  <2> QED
    BY <1>1, <2>1, <2>2, <2>3, <2>4 DEF CacheOK, AskedOK, QuotesAreYoung
<1> QED
  BY <1>2, <1>3, <1>4

(* A fetch ends, with a quote of this moment or none.                      *)
LEMMA FetchKeeps ==
  ASSUME MarketIInv, NEW s \in Symbols, Quoted(s) \/ Unquoted(s)
  PROVE  MarketIInv'
<1> USE DEF MarketIInv
<1>1. UNCHANGED <<now, priceCache, waiting, answer, asked>> /\ now \in Nat
      /\ s \in flight.open
  BY DEF Quoted, Unquoted, MarketTypeOK
<1>2. flight # NoFlight
  BY <1>1, NoneType
<1>3. /\ flight'.since = flight.since
      /\ \A t \in Symbols : flight'.quotes[t] \in {flight.quotes[t], now}
      /\ flight' \in [quotes : [Symbols -> Time], open : SUBSET Symbols, since : Time]
  <2>1. flight \in [quotes : [Symbols -> Time], open : SUBSET Symbols, since : Time]
    BY DEF MarketTypeOK
  <2>2. CASE Quoted(s)
    <3>1. flight' = [flight EXCEPT !.open = @ \ {s}, !.quotes[s] = now]
      BY <2>2 DEF Quoted
    <3> QED
      BY <2>1, <3>1, <1>1 DEF Time
  <2>3. CASE Unquoted(s)
    BY <2>1, <2>3 DEF Unquoted
  <2> QED
    BY <2>2, <2>3
<1>4. flight' # NoFlight
  BY <1>2, <1>3, NoneType DEF FlightOK, Never
<1>5. FlightOK'
  BY <1>1, <1>2, <1>3 DEF FlightOK
<1>6. MarketTypeOK'
  BY <1>1, <1>3 DEF MarketTypeOK
<1> QED
  BY <1>1, <1>4, <1>5, <1>6 DEF CacheOK, AskedOK, QuotesAreYoung

LEMMA LandKeeps ==
  ASSUME MarketIInv, Land
  PROVE  MarketIInv'
<1> USE DEF MarketIInv
<1>1. /\ flight # NoFlight /\ flight' = NoFlight
      /\ priceCache' = [quotes |-> flight.quotes, checked |-> now]
      /\ answer' = [quotes |-> flight.quotes, at |-> now]
      /\ waiting' = {} /\ UNCHANGED <<now, asked>> /\ now \in Nat
  BY DEF Land, MarketTypeOK
<1>2. /\ priceCache'.quotes = flight.quotes /\ priceCache'.checked = now
      /\ answer'.quotes = flight.quotes /\ answer'.at = now
  BY <1>1
<1>3. /\ asked <= now
      /\ \A s \in Symbols : flight.quotes[s] \in Time /\
           (flight.quotes[s] # Missing => now - flight.quotes[s] <= Timeout)
  <2>1. /\ flight.since \in Nat /\ now - flight.since <= Timeout
        /\ asked = flight.since /\ flight.since <= now
        /\ \A s \in Symbols : flight.quotes[s] \in Time /\
             (flight.quotes[s] # Missing => flight.since <= flight.quotes[s])
    BY <1>1 DEF FlightOK, MarketTypeOK
  <2> QED
    BY <2>1, <1>1, MarketConstants DEF Time, Missing, Never
<1>4. MarketTypeOK'
  BY <1>1, NoneType DEF MarketTypeOK, Time
<1>5. CacheOK' /\ QuotesAreYoung'
  BY <1>1, <1>2, <1>3, MarketConstants DEF CacheOK, QuotesAreYoung, Time, Missing, Never
<1>6. AskedOK'
  <2>1. priceCache' # NoCache
    BY <1>1, <1>2 DEF NoCache, Never
  <2> QED
    BY <2>1, <1>1, <1>2, <1>3 DEF AskedOK
<1> QED
  BY <1>1, <1>4, <1>5, <1>6 DEF FlightOK

LEMMA MarketTickKeeps ==
  ASSUME MarketIInv, MarketTick
  PROVE  MarketIInv'
<1> USE DEF MarketIInv
<1>1. /\ now \in Nat /\ now' = now + 1
      /\ UNCHANGED <<priceCache, flight, waiting, answer, asked>>
  BY DEF MarketTick, MarketTypeOK
<1>2. ASSUME flight # NoFlight PROVE now - flight.since < Timeout
  <2>1. ~(now - flight.since >= Timeout)
    BY <1>2 DEF MarketTick, Aborting
  <2>2. flight.since \in Nat
    BY <1>2 DEF FlightOK
  <2> QED
    BY <2>1, <2>2, <1>1, MarketConstants
<1>3. FlightOK'
  <2>1. ASSUME flight # NoFlight
        PROVE  /\ flight.since \in Nat /\ flight.since <= now' /\ now' - flight.since <= Timeout
               /\ asked = flight.since
    BY <2>1, <1>1, <1>2, MarketConstants DEF FlightOK
  <2>2. ASSUME flight # NoFlight, NEW s \in Symbols, flight.quotes[s] # Missing
        PROVE  flight.since <= flight.quotes[s] /\ flight.quotes[s] <= now'
    <3>1. flight.since <= flight.quotes[s] /\ flight.quotes[s] <= now
      BY <2>2 DEF FlightOK
    <3>2. flight.quotes[s] \in Time
      BY DEF MarketTypeOK
    <3> QED
      BY <3>1, <3>2, <1>1 DEF Time, Never
  <2> QED
    BY <2>1, <2>2, <1>1 DEF FlightOK
<1> QED
  BY <1>1, <1>3 DEF MarketTypeOK, CacheOK, AskedOK, QuotesAreYoung

LEMMA MarketRestartKeeps ==
  ASSUME MarketIInv, MarketRestart
  PROVE  MarketIInv'
  BY NoneType
     DEF MarketIInv, MarketRestart, MarketTypeOK, FlightOK, CacheOK, AskedOK, QuotesAreYoung, Time

LEMMA MarketNextIInv == MarketIInv /\ [MarketNext]_marketVars => MarketIInv'
<1> SUFFICES ASSUME MarketIInv, [MarketNext]_marketVars PROVE MarketIInv'
  OBVIOUS
<1>1. CASE UNCHANGED marketVars
  BY <1>1 DEF marketVars, MarketIInv, MarketTypeOK, FlightOK, CacheOK, AskedOK, QuotesAreYoung
<1>2. CASE MarketNext
  BY <1>2, MarketKeeps, FetchKeeps, LandKeeps, MarketTickKeeps, MarketRestartKeeps DEF MarketNext
<1> QED
  BY <1>1, <1>2

LEMMA MarketInvariance == MarketSpec => []MarketIInv
  BY MarketInitIInv, MarketNextIInv, PTL DEF MarketSpec

-----------------------------------------------------------------------------
(* A quote that a page is given came no longer ago than the life of the    *)
(* cache and one flight.                                                   *)
THEOREM YoungQuotes == MarketSpec => []QuotesAreYoung
  BY MarketInvariance, PTL DEF MarketIInv

(* Whatever the upstream does, who waits waits no longer than one timeout. *)
THEOREM ShortWait == MarketSpec => []NobodyWaitsLonger
<1>1. MarketIInv => NobodyWaitsLonger
  BY DEF MarketIInv, FlightOK, NobodyWaitsLonger
<1> QED
  BY <1>1, MarketInvariance, PTL

(* However many pages ask, and though flights fail, the upstream is asked  *)
(* once in the life of the cache at most.                                  *)
THEOREM Sparing == MarketSpec => AskedSeldom
<1> DEFINE Seldom == asked' # asked /\ asked' # Never /\ asked # Never => asked' - asked >= Fresh
<1>1. MarketIInv /\ [MarketNext]_marketVars => [Seldom]_marketVars
  <2> SUFFICES ASSUME MarketIInv, MarketNext, asked' # asked, asked' # Never, asked # Never
               PROVE  asked' - asked >= Fresh
    OBVIOUS
  <2>1. PICK r \in Requests : market(r)
    BY DEF MarketNext, Quoted, Unquoted, Land, MarketTick, MarketRestart
  <2>2. ~CacheFresh /\ asked' = flight'.since
    BY <2>1 DEF market
  <2>3. flight = NoFlight
    BY <2>1, <2>2 DEF market, MarketIInv, FlightOK
  <2>4. asked' = now
    BY <2>1, <2>2, <2>3 DEF market
  <2>5. now - priceCache.checked >= Fresh /\ asked <= priceCache.checked
        /\ priceCache.checked \in Nat
    BY <2>2, <2>3, MarketConstants DEF CacheFresh, MarketIInv, AskedOK, CacheOK, MarketTypeOK
  <2> QED
    BY <2>4, <2>5, MarketConstants DEF MarketIInv, MarketTypeOK, Time, Never
<1> QED
  BY <1>1, MarketInvariance, PTL DEF MarketSpec, AskedSeldom

-----------------------------------------------------------------------------
(***************************************************************************)
(* Limits.  A bucket holds the last requests of its key; those of the one  *)
(* before are older than its opening, those before that one by a whole     *)
(* interval.  No more of them are ever told apart, so the argument is one  *)
(* about a log and its end, whatever has been swept.                       *)
(***************************************************************************)

LimitTypeOK ==
  /\ now \in Nat
  /\ limits \in [Keys -> [count : Nat, until : Nat]]
  /\ accepted \in [Keys -> Seq(Nat)]

(* Requests are let through in the order of time.                          *)
InOrder(log, t) ==
  /\ \A i \in DOMAIN log : log[i] <= t
  /\ \A i, j \in DOMAIN log : i <= j => log[i] <= log[j]

Spaced(log, max, span) ==
  \A i, j \in DOMAIN log : j - i >= 2 * max => log[j] - log[i] >= span

(* A bucket that was opened at o and holds the last n requests of the log: *)
(* those of the bucket before it are older than o, those before that one   *)
(* by a whole interval.                                                    *)
Holds(log, n, o, max, span) ==
  /\ n <= max /\ n <= Len(log)
  /\ \A i \in DOMAIN log :
       /\ i > Len(log) - n => o <= log[i]
       /\ i <= Len(log) - n => log[i] <= o
       /\ i <= Len(log) - n - max => log[i] + span <= o

Live(key) ==
  LET b == limits[key] IN
  /\ b.count \in 1..maximum[key] + 1 /\ b.until - interval[key] \in 0..now
  /\ Holds(accepted[key], IF b.count > maximum[key] THEN maximum[key] ELSE b.count,
           b.until - interval[key], maximum[key], interval[key])

(* With no bucket, the next one may be opened at once.                     *)
Quiet(key) == Holds(accepted[key], 0, now, maximum[key], interval[key])

LimitIInv ==
  /\ LimitTypeOK
  /\ \A key \in Keys :
       /\ InOrder(accepted[key], now)
       /\ Spaced(accepted[key], maximum[key], interval[key])
       /\ IF limits[key] = NoBucket THEN Quiet(key) ELSE Live(key)

-----------------------------------------------------------------------------
LEMMA LimitConstants ==
  ASSUME NEW key \in Keys
  PROVE  maximum[key] \in Nat /\ maximum[key] > 0 /\ interval[key] \in Nat /\ interval[key] > 0
  BY RateAssumption

(* A bucket that is over is as good as none.                               *)
LEMMA Expires ==
  ASSUME NEW log \in Seq(Nat), NEW n \in Nat, NEW o \in Nat, NEW max \in Nat, NEW span \in Nat,
         NEW t \in Nat, Holds(log, n, o, max, span), InOrder(log, t), o + span <= t
  PROVE  Holds(log, 0, t, max, span)
<1>1. Len(log) \in Nat /\ DOMAIN log = 1..Len(log) /\ \A i \in DOMAIN log : log[i] \in Nat
  OBVIOUS
<1>2. ASSUME NEW i \in DOMAIN log, i <= Len(log) - max PROVE log[i] + span <= t
  <2>1. i <= Len(log) - n
    BY <1>1, <1>2 DEF Holds
  <2> QED
    BY <1>1, <2>1 DEF Holds
<1> QED
  BY <1>1, <1>2 DEF Holds, InOrder

(* What is quiet stays quiet.                                              *)
LEMMA StaysQuiet ==
  ASSUME NEW log \in Seq(Nat), NEW max \in Nat, NEW span \in Nat,
         NEW t \in Nat, NEW u \in Nat, t <= u, Holds(log, 0, t, max, span)
  PROVE  Holds(log, 0, u, max, span)
<1>1. Len(log) \in Nat /\ DOMAIN log = 1..Len(log) /\ \A i \in DOMAIN log : log[i] \in Nat
  OBVIOUS
<1> QED
  BY <1>1 DEF Holds

(* A request let through into a bucket with room.                          *)
LEMMA Enters ==
  ASSUME NEW log \in Seq(Nat), NEW n \in Nat, NEW o \in Nat, NEW max \in Nat, NEW span \in Nat,
         NEW t \in Nat, o <= t, n < max,
         InOrder(log, t), Spaced(log, max, span), Holds(log, n, o, max, span)
  PROVE  LET new == Append(log, t) IN
         InOrder(new, t) /\ Spaced(new, max, span) /\ Holds(new, n + 1, o, max, span)
<1> DEFINE new == Append(log, t)
           L == Len(log)
<1>1. L \in Nat /\ DOMAIN log = 1..L /\ \A i \in 1..L : log[i] \in Nat
  OBVIOUS
<1>2. /\ Len(new) = L + 1 /\ DOMAIN new = 1..(L + 1)
      /\ \A i \in 1..L : new[i] = log[i]
      /\ new[L + 1] = t
  OBVIOUS
<1> HIDE DEF new, L
<1>3. Len(log) = L
  BY DEF L
<1>4. InOrder(new, t)
  <2>1. \A i \in 1..(L + 1) : new[i] \in Nat /\ new[i] <= t
    <3>1. ASSUME NEW i \in 1..L PROVE new[i] \in Nat /\ new[i] <= t
      BY <1>1, <1>2 DEF InOrder
    <3>2. \A i \in 1..(L + 1) : i \in 1..L \/ i = L + 1
      BY <1>1
    <3> QED
      BY <1>2, <3>1, <3>2
  <2>2. ASSUME NEW i \in 1..(L + 1), NEW j \in 1..(L + 1), i <= j PROVE new[i] <= new[j]
    <3>1. CASE j = L + 1
      BY <1>2, <2>1, <3>1
    <3>2. CASE j # L + 1
      <4>1. i \in 1..L /\ j \in 1..L
        BY <1>1, <2>2, <3>2
      <4>2. log[i] <= log[j]
        BY <1>1, <2>2, <4>1 DEF InOrder
      <4> QED
        BY <1>2, <4>1, <4>2
    <3> QED
      BY <3>1, <3>2
  <2> QED
    BY <1>2, <2>1, <2>2 DEF InOrder
<1>5. ASSUME NEW i \in DOMAIN new, NEW j \in DOMAIN new, j - i >= 2 * max
      PROVE  new[j] - new[i] >= span
  <2>1. i \in 1..L
    BY <1>1, <1>2, <1>5
  <2>2. CASE j \in 1..L
    BY <1>1, <1>2, <1>5, <2>1, <2>2 DEF Spaced
  <2>3. CASE j = L + 1
    <3>1. i <= L - n - max
      BY <1>1, <1>5, <2>1, <2>3
    <3>2. log[i] + span <= o
      BY <1>1, <1>3, <2>1, <3>1 DEF Holds
    <3> QED
      BY <1>1, <1>2, <2>1, <2>3, <3>2
  <2> QED
    BY <1>1, <1>2, <2>2, <2>3
<1>6. Holds(new, n + 1, o, max, span)
  <2>1. n + 1 <= max /\ n + 1 <= L + 1 /\ (L + 1) - (n + 1) = L - n
    BY <1>1, <1>3 DEF Holds
  <2>2. ASSUME NEW i \in DOMAIN new
        PROVE  /\ i > L - n => o <= new[i]
               /\ i <= L - n => new[i] <= o
               /\ i <= L - n - max => new[i] + span <= o
    <3>1. CASE i \in 1..L
      BY <1>1, <1>2, <1>3, <3>1 DEF Holds
    <3>2. CASE i = L + 1
      BY <1>1, <1>2, <3>2
    <3> QED
      BY <1>1, <1>2, <3>1, <3>2
  <2> QED
    BY <1>2, <2>1, <2>2 DEF Holds
<1> QED
  BY <1>4, <1>5, <1>6 DEF Spaced, new

-----------------------------------------------------------------------------
LEMMA LimitInitIInv == LimitInit => LimitIInv
<1> SUFFICES ASSUME LimitInit PROVE LimitIInv
  OBVIOUS
<1>1. LimitTypeOK
  BY DEF LimitInit, LimitTypeOK, NoBucket
<1>2. ASSUME NEW key \in Keys
      PROVE  /\ InOrder(accepted[key], now) /\ Spaced(accepted[key], maximum[key], interval[key])
             /\ limits[key] = NoBucket /\ Quiet(key)
  BY LimitConstants DEF LimitInit, InOrder, Spaced, Quiet, Holds
<1> QED
  BY <1>1, <1>2 DEF LimitIInv

(* After the sweep a key has the bucket it had, or one that is over is     *)
(* gone.                                                                   *)
LEMMA SweptIs ==
  ASSUME LimitIInv, NEW key \in Keys
  PROVE  /\ Swept \in [Keys -> [count : Nat, until : Nat]]
         /\ Swept[key] = limits[key] \/ (Swept[key] = NoBucket /\ limits[key].until <= now)
  BY DEF LimitIInv, LimitTypeOK, Swept, NoBucket

(* A key whose bucket is over, or that has none, is quiet.                 *)
LEMMA OverIsQuiet ==
  ASSUME LimitIInv, NEW key \in Keys, limits[key].until <= now
  PROVE  Quiet(key)
<1>1. CASE limits[key] = NoBucket
  BY <1>1 DEF LimitIInv
<1>2. CASE limits[key] # NoBucket
  <2> DEFINE n == IF limits[key].count > maximum[key] THEN maximum[key] ELSE limits[key].count
             o == limits[key].until - interval[key]
  <2>1. Live(key) /\ InOrder(accepted[key], now) /\ accepted[key] \in Seq(Nat) /\ now \in Nat
        /\ limits[key].until \in Nat /\ limits[key].count \in Nat
    BY <1>2 DEF LimitIInv, LimitTypeOK
  <2>2. n \in Nat /\ o \in Nat /\ o + interval[key] <= now
    BY <2>1, LimitConstants DEF Live
  <2>3. Holds(accepted[key], n, o, maximum[key], interval[key])
    BY <2>1 DEF Live
  <2> HIDE DEF n, o
  <2> QED
    BY <2>1, <2>2, <2>3, Expires, LimitConstants DEF Quiet
<1> QED
  BY <1>1, <1>2

(* What a key's part of the invariant says, of its log and its bucket.     *)
KeyOK(key) ==
  /\ InOrder(accepted[key], now)
  /\ Spaced(accepted[key], maximum[key], interval[key])
  /\ IF limits[key] = NoBucket THEN Quiet(key) ELSE Live(key)

(* The bucket that counts a request is live and may still be empty.        *)
LEMMA BucketHolds ==
  ASSUME LimitIInv, NEW key \in Keys
  PROVE  LET b == Bucket(key) IN
         /\ b \in [count : 0..(maximum[key] + 1), until : Nat]
         /\ b.until - interval[key] \in 0..now
         /\ Holds(accepted[key], IF b.count > maximum[key] THEN maximum[key] ELSE b.count,
                  b.until - interval[key], maximum[key], interval[key])
<1> DEFINE b == Bucket(key)
<1>1. now \in Nat /\ limits[key] \in [count : Nat, until : Nat]
  BY DEF LimitIInv, LimitTypeOK
<1>2. CASE Swept[key].until <= now
  <2>1. b = [count |-> 0, until |-> now + interval[key]]
    BY <1>2 DEF Bucket
  <2>2. limits[key].until <= now
    BY <1>2, SweptIs
  <2>3. Quiet(key)
    BY <2>2, OverIsQuiet
  <2>4. b.count = 0 /\ b.until = now + interval[key] /\ b.until - interval[key] = now
    BY <2>1, <1>1, LimitConstants
  <2>5. b \in [count : 0..(maximum[key] + 1), until : Nat]
    BY <2>1, <1>1, LimitConstants
  <2> HIDE DEF b
  <2>6. ~(b.count > maximum[key])
    BY <2>4, LimitConstants
  <2> QED
    BY <2>3, <2>4, <2>5, <2>6, <1>1 DEF Quiet, b
<1>3. CASE ~(Swept[key].until <= now)
  <2>1. b = limits[key] /\ limits[key] # NoBucket
    BY <1>1, <1>3, SweptIs DEF Bucket, NoBucket
  <2>2. Live(key)
    BY <2>1 DEF LimitIInv
  <2> QED
    BY <1>1, <2>1, <2>2, LimitConstants DEF Live
<1> QED
  BY <1>2, <1>3

LEMMA ThrottleKeeps ==
  ASSUME LimitIInv, NEW key \in Keys, throttle(key)
  PROVE  LimitIInv'
<1> DEFINE b == Bucket(key)
           M == maximum[key]
           o == b.until - interval[key]
           n == IF b.count > M THEN M ELSE b.count
<1>1. now' = now /\ now \in Nat /\ accepted \in [Keys -> Seq(Nat)]
      /\ M \in Nat /\ M > 0 /\ interval[key] \in Nat /\ interval[key] > 0
  BY LimitConstants DEF throttle, LimitIInv, LimitTypeOK
<1>2. /\ b \in [count : 0..(M + 1), until : Nat] /\ o \in 0..now
      /\ Holds(accepted[key], n, o, M, interval[key])
  BY BucketHolds
<1>3. /\ limits' = [Swept EXCEPT ![key] = Counted(b, key)]
      /\ accepted' = IF Counted(b, key).count > M THEN accepted
                     ELSE [accepted EXCEPT ![key] = Append(@, now)]
  BY DEF throttle
<1>4. InOrder(accepted[key], now) /\ Spaced(accepted[key], M, interval[key])
  BY DEF LimitIInv
<1>5. n \in 0..M
  BY <1>1, <1>2
<1> HIDE DEF b, M
<1>6. Swept \in [Keys -> [count : Nat, until : Nat]]
  BY SweptIs
<1>7. Counted(b, key) \in [count : Nat, until : Nat]
  BY <1>1, <1>2 DEF Counted
<1>8. LimitTypeOK'
  BY <1>1, <1>3, <1>6, <1>7 DEF LimitTypeOK
<1>9. ASSUME NEW other \in Keys, other # key PROVE KeyOK(other)'
  <2>1. limits'[other] = Swept[other] /\ accepted'[other] = accepted[other]
    BY <1>1, <1>3, <1>6, <1>9
  <2>2. KeyOK(other)
    BY DEF LimitIInv, KeyOK
  <2>3. CASE Swept[other] = limits[other]
    BY <1>1, <2>1, <2>2, <2>3 DEF KeyOK, Quiet, Live
  <2>4. CASE Swept[other] = NoBucket /\ limits[other].until <= now
    <3>1. Quiet(other)
      BY <2>4, OverIsQuiet
    <3> QED
      BY <1>1, <2>1, <2>2, <2>4, <3>1 DEF KeyOK, Quiet
  <2> QED
    BY <2>3, <2>4, SweptIs
<1>10. limits'[key] = Counted(b, key)
  BY <1>3, <1>6
<1>11. CASE b.count >= M
  <2>1. Counted(b, key).count = M + 1 /\ Counted(b, key).until = b.until
    BY <1>1, <1>2, <1>11 DEF Counted, M
  <2>2. accepted' = accepted /\ n = M
    BY <1>1, <1>2, <1>3, <1>11, <2>1
  <2>3. limits'[key].count = M + 1 /\ limits'[key].until = b.until /\ limits'[key] # NoBucket
    BY <1>1, <1>10, <2>1 DEF NoBucket
  <2>4. Live(key)'
    BY <1>1, <1>2, <2>2, <2>3 DEF Live, M
  <2>5. KeyOK(key)'
    BY <1>1, <1>4, <2>2, <2>3, <2>4 DEF KeyOK, M
  <2> QED
    BY <1>8, <1>9, <2>5 DEF LimitIInv, KeyOK
<1>12. CASE b.count < M
  <2>1. Counted(b, key).count = b.count + 1 /\ Counted(b, key).until = b.until /\ n = b.count
    BY <1>1, <1>2, <1>12 DEF Counted, M
  <2>2. accepted'[key] = Append(accepted[key], now)
    BY <1>1, <1>2, <1>3, <1>12, <2>1
  <2>3. limits'[key].count = n + 1 /\ limits'[key].until = b.until /\ limits'[key] # NoBucket
    BY <1>1, <1>5, <1>10, <2>1 DEF NoBucket
  <2>4. /\ InOrder(accepted'[key], now) /\ Spaced(accepted'[key], M, interval[key])
        /\ Holds(accepted'[key], n + 1, o, M, interval[key])
    <3>1. o \in Nat /\ o <= now /\ n \in Nat /\ n < M /\ accepted[key] \in Seq(Nat)
      BY <1>1, <1>2, <1>5, <1>12, <2>1
    <3>2. Holds(accepted[key], n, o, M, interval[key])
      BY <1>2
    <3> HIDE DEF n, o
    <3>3. LET new == Append(accepted[key], now) IN
          /\ InOrder(new, now) /\ Spaced(new, M, interval[key])
          /\ Holds(new, n + 1, o, M, interval[key])
      BY <1>1, <1>4, <3>1, <3>2, Enters
    <3> QED
      BY <2>2, <3>3
  <2>5. Live(key)'
    BY <1>1, <1>2, <1>5, <1>12, <2>1, <2>3, <2>4 DEF Live, M
  <2>6. KeyOK(key)'
    BY <1>1, <2>3, <2>4, <2>5 DEF KeyOK, M
  <2> QED
    BY <1>8, <1>9, <2>6 DEF LimitIInv, KeyOK
<1> QED
  BY <1>1, <1>2, <1>11, <1>12

LEMMA LimitTickKeeps ==
  ASSUME LimitIInv, LimitTick
  PROVE  LimitIInv'
<1>1. now \in Nat /\ now' = now + 1 /\ UNCHANGED <<limits, accepted>>
      /\ accepted \in [Keys -> Seq(Nat)]
  BY DEF LimitTick, LimitIInv, LimitTypeOK
<1>2. ASSUME NEW key \in Keys PROVE KeyOK(key)'
  <2>1. KeyOK(key) /\ accepted[key] \in Seq(Nat)
    BY <1>1 DEF LimitIInv, KeyOK
  <2>2. \A i \in DOMAIN accepted[key] : accepted[key][i] \in Nat
    BY <2>1
  <2>3. InOrder(accepted[key], now)'
    BY <1>1, <2>1, <2>2 DEF KeyOK, InOrder
  <2>4. Quiet(key) => Quiet(key)'
    BY <1>1, <2>1, StaysQuiet, LimitConstants DEF Quiet
  <2>5. Live(key) => Live(key)'
    BY <1>1 DEF Live
  <2> QED
    BY <1>1, <2>1, <2>3, <2>4, <2>5 DEF KeyOK
<1> QED
  BY <1>1, <1>2 DEF LimitIInv, LimitTypeOK, KeyOK

LEMMA LimitRestartKeeps ==
  ASSUME LimitIInv, LimitRestart
  PROVE  LimitIInv'
<1>1. LimitTypeOK'
  BY DEF LimitIInv, LimitRestart, LimitTypeOK, NoBucket
<1>2. ASSUME NEW key \in Keys PROVE KeyOK(key)'
  BY LimitConstants DEF LimitRestart, KeyOK, InOrder, Spaced, Quiet, Holds
<1> QED
  BY <1>1, <1>2 DEF LimitIInv, KeyOK

LEMMA LimitNextIInv == LimitIInv /\ [LimitNext]_limitVars => LimitIInv'
<1> SUFFICES ASSUME LimitIInv, [LimitNext]_limitVars PROVE LimitIInv'
  OBVIOUS
<1>1. CASE UNCHANGED limitVars
  BY <1>1 DEF limitVars, LimitIInv, LimitTypeOK, Quiet, Live
<1> QED
  BY <1>1, ThrottleKeeps, LimitTickKeeps, LimitRestartKeeps DEF LimitNext

LEMMA LimitInvariance == LimitSpec => []LimitIInv
  BY LimitInitIInv, LimitNextIInv, PTL DEF LimitSpec

-----------------------------------------------------------------------------
(* No span of one interval lets through more than two buckets hold, for    *)
(* any limits, intervals and sizes of the map.                             *)
THEOREM BurstsBounded == LimitSpec => []BurstBounded
<1>1. LimitIInv => BurstBounded
  BY DEF LimitIInv, Spaced, BurstBounded
<1> QED
  BY <1>1, LimitInvariance, PTL

(* Retries that are refused do not put off the end of a bucket.            *)
THEOREM RefusedAfterBurst == LimitSpec => []RefusedOnlyAfterBurst
<1>1. LimitIInv => RefusedOnlyAfterBurst
  <2> SUFFICES ASSUME LimitIInv, NEW key \in Keys,
                      limits[key].count > maximum[key], limits[key].until > now
               PROVE  \E i \in DOMAIN accepted[key] :
                        /\ Len(accepted[key]) - i + 1 >= maximum[key]
                        /\ now - accepted[key][i] < interval[key]
    BY DEF RefusedOnlyAfterBurst
  <2>1. /\ accepted[key] \in Seq(Nat) /\ now \in Nat
        /\ limits[key].until \in Nat /\ limits[key].count \in Nat
    BY DEF LimitIInv, LimitTypeOK
  <2>2. Holds(accepted[key], maximum[key], limits[key].until - interval[key],
              maximum[key], interval[key])
    <3>1. limits[key] # NoBucket
      BY <2>1 DEF NoBucket
    <3> QED
      BY <3>1 DEF LimitIInv, Live
  <2> DEFINE i == Len(accepted[key]) - maximum[key] + 1
  <2>3. i \in DOMAIN accepted[key] /\ i > Len(accepted[key]) - maximum[key]
    BY <2>1, <2>2, LimitConstants DEF Holds
  <2>4. limits[key].until - interval[key] <= accepted[key][i] /\ accepted[key][i] \in Nat
    BY <2>1, <2>2, <2>3 DEF Holds
  <2>5. Len(accepted[key]) - i + 1 >= maximum[key]
    BY <2>1, LimitConstants
  <2> HIDE DEF i
  <2>6. now - accepted[key][i] < interval[key]
    BY <2>1, <2>4, LimitConstants
  <2> QED
    BY <2>3, <2>5, <2>6
<1> QED
  BY <1>1, LimitInvariance, PTL

-----------------------------------------------------------------------------
(***************************************************************************)
(* The server.  Its behaviors are behaviors of every part, so each keeps   *)
(* its promises in it.  Only the clock is shared: a tick of the quotes is  *)
(* one of the limits, and while the limits move there is no flight, so     *)
(* that theirs is one of the quotes.                                       *)
(***************************************************************************)

Apart == part = "limits" => flight = NoFlight

LEMMA ApartHolds == Spec => []Apart
<1>1. Init => Apart
  BY DEF Init, MarketInit, Apart
<1>2. Apart /\ [Next]_vars => Apart'
  BY DEF Apart, Next, vars, itemVars, chatVars, marketVars, limitVars
<1> QED
  BY <1>1, <1>2, PTL DEF Spec

LEMMA ItemsOfServer == Spec => ItemsSpec
<1>1. [Next]_vars => [ItemsNext]_itemVars
  BY DEF Next, vars
<1> QED
  BY <1>1, PTL DEF Spec, Init, ItemsSpec

LEMMA ChatOfServer == Spec => ChatSpec
<1>1. [Next]_vars => [ChatNext]_chatVars
  BY DEF Next, vars
<1> QED
  BY <1>1, PTL DEF Spec, Init, ChatSpec

LEMMA MarketOfServer == Spec => MarketSpec
<1>1. Apart /\ [Next]_vars => [MarketNext]_marketVars
  <2> SUFFICES ASSUME Apart, Next PROVE [MarketNext]_marketVars
    BY DEF vars, marketVars
  <2>1. CASE part \in {"items", "chat"}
    BY <2>1 DEF Next
  <2>2. CASE part = "market"
    BY <2>2 DEF Next
  <2>3. CASE part = "limits"
    <3>1. flight = NoFlight /\ UNCHANGED <<priceCache, flight, waiting, answer, asked>>
      BY <2>3 DEF Apart, Next
    <3>2. LimitTick => MarketTick
      BY <3>1 DEF LimitTick, MarketTick, Aborting, NoFlight
    <3> QED
      BY <2>3, <3>1, <3>2 DEF Next, LimitNext, throttle, LimitRestart, MarketNext, marketVars
  <2> QED
    BY <2>1, <2>2, <2>3 DEF Next
<1> QED
  BY <1>1, ApartHolds, PTL DEF Spec, Init, MarketSpec

LEMMA LimitsOfServer == Spec => LimitSpec
<1>1. [Next]_vars => [LimitNext]_limitVars
  <2> SUFFICES ASSUME Next PROVE [LimitNext]_limitVars
    BY DEF vars, limitVars
  <2>1. CASE part \in {"items", "chat"}
    BY <2>1 DEF Next, marketVars, limitVars
  <2>2. CASE part = "market"
    <3>1. UNCHANGED <<limits, accepted>>
      BY <2>2 DEF Next
    <3>2. MarketTick => LimitTick
      BY <3>1 DEF MarketTick, LimitTick
    <3> QED
      BY <2>2, <3>1, <3>2
         DEF Next, MarketNext, market, Quoted, Unquoted, Land, MarketRestart, LimitNext, limitVars
  <2>3. CASE part = "limits"
    BY <2>3 DEF Next
  <2> QED
    BY <2>1, <2>2, <2>3 DEF Next
<1> QED
  BY <1>1, PTL DEF Spec, Init, LimitSpec

(* The server implements each of its parts.                                *)
THEOREM ServerIsItsParts == Spec => ItemsSpec /\ ChatSpec /\ MarketSpec /\ LimitSpec
  BY ItemsOfServer, ChatOfServer, MarketOfServer, LimitsOfServer, PTL

(* And so all that is promised of the parts holds of the server.           *)
THEOREM ServerKeepsItsPromises ==
  Spec => /\ [](ItemLimit /\ PayloadFitsType /\ ReportsMeanWhatWasSeen /\ QuotesAreYoung
                /\ NobodyWaitsLonger /\ BurstBounded /\ RefusedOnlyAfterBurst)
          /\ DeletedForGood /\ DeletedKnowingly /\ AskedSeldom
  BY ServerIsItsParts, LimitHolds, PayloadsFit, NothingRevived, SeenIsReported, SeenIsDeleted,
     YoungQuotes, ShortWait, Sparing, BurstsBounded, RefusedAfterBurst, PTL
=============================================================================
