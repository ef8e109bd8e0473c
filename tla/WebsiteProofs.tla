---------------------------- MODULE WebsiteProofs ----------------------------
(***************************************************************************)
(* The personal dashboard, the gallery of the studio and Mini K, for any   *)
(* rooms, accounts, tabs, pointers and limits; and the site of all its     *)
(* scripts.                                                                *)
(***************************************************************************)
EXTENDS Website, HomePageProofs

(***************************************************************************)
(* Mini K.  With the types, the property is inductive.                     *)
(***************************************************************************)
MiniIInv ==
  /\ action \in Still \cup Moving
  /\ pointerId \in Pointers \cup {None}
  /\ left \in Nat /\ wait \in Nat
  /\ HeldOrOnHisWay

LEMMA MiniInitIInv == MiniInit => MiniIInv
  BY DEF MiniInit, MiniIInv, HeldOrOnHisWay, Still, Moving, dragging, NoRoute

(* A new choice, of any of his actions.                                    *)
LEMMA ChoiceKeeps ==
  ASSUME MiniIInv, NEW name \in Still \cup Moving, chooseAction(name), ~dragging,
         UNCHANGED <<pointerId, pressed, latest>>
  PROVE  MiniIInv'
<1>1. /\ left' \in Nat /\ wait' \in Nat
      /\ left' # NoRoute => name \in Moving /\ left' < wait'
  BY DEF chooseAction, duration, NoRoute, Still, Moving
<1>2. name = "zipline" => left' # NoRoute
  BY DEF chooseAction, duration, NoRoute, Moving
<1>3. action' = name /\ (cable' => name = "zipline")
  BY DEF chooseAction, setAction
<1> QED
  BY <1>1, <1>2, <1>3 DEF MiniIInv, HeldOrOnHisWay, dragging

LEMMA FrameKeeps ==
  ASSUME MiniIInv, frame
  PROVE  MiniIInv'
<1>1. ~dragging /\ UNCHANGED <<pointerId, pressed, latest>>
  BY DEF frame
<1>2. CASE wait = 0
  <2>1. PICK name \in Still \cup Moving : chooseAction(name)
    BY <1>2 DEF frame
  <2> QED
    BY <1>1, <2>1, ChoiceKeeps
<1>3. CASE wait # 0
  <2>1. /\ wait' = wait - 1
        /\ left' = IF left = NoRoute THEN NoRoute ELSE left - 1
        /\ IF left = 1 THEN setAction("wave") ELSE UNCHANGED <<action, cable>>
    BY <1>3 DEF frame
  <2>2. left' \in Nat /\ wait' \in Nat
    BY <1>3, <2>1 DEF MiniIInv, NoRoute
  <2>3. left' # NoRoute => left # NoRoute /\ left # 1 /\ left' < wait'
    BY <1>3, <2>1 DEF MiniIInv, HeldOrOnHisWay, NoRoute
  <2>4. left # NoRoute /\ left # 1 => left' # NoRoute
    BY <2>1 DEF MiniIInv, NoRoute
  <2>5. action' \in Still \cup Moving
    BY <2>1 DEF MiniIInv, setAction, Still
  <2>6. /\ left' # NoRoute => action' \in Moving
        /\ cable' => action' = "zipline" /\ left' # NoRoute
    <3>1. CASE left = 1
      BY <2>1, <2>3, <3>1 DEF setAction
    <3>2. CASE left # 1
      BY <2>1, <2>3, <2>4, <3>2 DEF MiniIInv, HeldOrOnHisWay
    <3> QED
      BY <3>1, <3>2
  <2> QED
    BY <1>1, <2>2, <2>3, <2>5, <2>6 DEF MiniIInv, HeldOrOnHisWay, dragging
<1> QED
  BY <1>2, <1>3

LEMMA MiniNextIInv == MiniIInv /\ [MiniNext]_miniVars => MiniIInv'
<1> SUFFICES ASSUME MiniIInv, [MiniNext]_miniVars PROVE MiniIInv'
  OBVIOUS
<1> USE DEF MiniIInv, HeldOrOnHisWay, dragging, setAction, NoRoute, Still
<1>1. ASSUME NEW p \in Pointers, pointerdown(p) PROVE MiniIInv'
  BY <1>1 DEF pointerdown
<1>2. ASSUME NEW p \in Pointers, PointerEnds(p) PROVE MiniIInv'
  <2>1. p # None
    BY MiniAssumption
  <2>2. CASE pointerId = p
    BY <1>2, <2>1, <2>2 DEF PointerEnds, stopDragging
  <2>3. CASE pointerId # p
    BY <1>2, <2>3 DEF PointerEnds, stopDragging
  <2> QED
    BY <2>2, <2>3
<1>3. CASE keydown
  BY <1>3 DEF keydown
<1>4. CASE resize
  BY <1>4 DEF resize
<1>5. CASE Pause \/ Visible \/ UNCHANGED miniVars
  BY <1>5 DEF Pause, Visible, miniVars
<1> QED
  BY <1>1, <1>2, <1>3, <1>4, <1>5, FrameKeeps DEF MiniNext

(* Any number of fingers, keys and resizes, in any order: the pointer that *)
(* took him last holds him until it ends, who is held does not travel, and *)
(* his cable is his ride.                                                  *)
THEOREM HeldOrTravelling == MiniSpec => []HeldOrOnHisWay
<1>1. MiniIInv => HeldOrOnHisWay
  BY DEF MiniIInv
<1> QED
  BY <1>1, MiniInitIInv, MiniNextIInv, PTL DEF MiniSpec

-----------------------------------------------------------------------------
(***************************************************************************)
(* The gallery.  Every tab shows what a save of its own may write: a       *)
(* gallery that opens.  A storage that is no gallery is written by nobody, *)
(* because no tab could read it.                                           *)
(***************************************************************************)
Opens(gallery) ==
  /\ gallery \in Seq(BOOLEAN) /\ Len(gallery) <= Limit
  /\ \A i, j \in DOMAIN gallery : gallery[i] /\ gallery[j] => i = j

StudioIInv ==
  /\ records = [tab \in Tabs |-> records[tab]] /\ readable = [tab \in Tabs |-> readable[tab]]
  /\ \A tab \in Tabs : Opens(records[tab])
  /\ \/ storage # Unreadable /\ Opens(storage)
     \/ storage = Unreadable /\ \A tab \in Tabs : ~readable[tab]

LEMMA EmptyOpens == Opens(<<>>) /\ <<>> # Unreadable
<1>1. <<>> \in Seq(BOOLEAN) /\ Len(<<>>) = 0 /\ DOMAIN <<>> = {}
  OBVIOUS
<1>2. Opens(<<>>)
  BY <1>1, StudioAssumption DEF Opens
<1> QED
  BY <1>1, <1>2, StudioAssumption

LEMMA StudioInitIInv == StudioInit => StudioIInv
  BY EmptyOpens, StudioAssumption DEF StudioInit, StudioIInv, Valid

(* What a tab saves opens, so all stays as it should.                      *)
LEMMA SaveKeeps ==
  ASSUME StudioIInv, NEW tab \in Tabs, NEW next, Opens(next), save(tab, next)
  PROVE  StudioIInv'
<1>1. storage' = next /\ next # Unreadable
  BY StudioAssumption DEF save, Opens
<1>2. records' = [records EXCEPT ![tab] = next] /\ readable' = readable
  BY DEF save
<1> QED
  BY <1>1, <1>2 DEF StudioIInv

(* What a save or an import adds is not featured.                          *)
LEMMA DraftsJoin ==
  ASSUME NEW gallery, Opens(gallery), NEW drafts \in Seq(BOOLEAN), NEW n \in Nat,
         n = Len(drafts), \A i \in 1..n : ~drafts[i], n + Len(gallery) <= Limit
  PROVE  Opens(gallery \o drafts)
<1> DEFINE new == gallery \o drafts
<1>1. gallery \in Seq(BOOLEAN) /\ Len(gallery) \in Nat /\ DOMAIN gallery = 1..Len(gallery)
  BY DEF Opens
<1>2. /\ new \in Seq(BOOLEAN) /\ Len(new) = Len(gallery) + n
      /\ \A i \in 1..(Len(gallery) + n) :
           new[i] = IF i <= Len(gallery) THEN gallery[i] ELSE drafts[i - Len(gallery)]
  BY <1>1, ConcatProperties
<1> HIDE DEF new
<1>3. ASSUME NEW i \in DOMAIN new, new[i] PROVE i \in DOMAIN gallery /\ gallery[i]
  <2>1. i \in 1..(Len(gallery) + n)
    BY <1>1, <1>2
  <2>2. ~(i <= Len(gallery)) => i - Len(gallery) \in 1..n
    BY <1>1, <2>1
  <2>3. i <= Len(gallery)
    BY <1>2, <1>3, <2>1, <2>2
  <2> QED
    BY <1>1, <1>2, <1>3, <2>1, <2>3
<1> QED
  BY <1>2, <1>3 DEF Opens, new

LEMMA FeatureOpens ==
  ASSUME NEW gallery, Opens(gallery), NEW i \in DOMAIN gallery
  PROVE  Opens([n \in DOMAIN gallery |-> n = i /\ ~gallery[n]])
<1> DEFINE new == [n \in DOMAIN gallery |-> n = i /\ ~gallery[n]]
<1>1. gallery \in Seq(BOOLEAN) /\ DOMAIN gallery = 1..Len(gallery) /\ Len(gallery) \in Nat
  BY DEF Opens
<1>2. new \in Seq(BOOLEAN) /\ Len(new) = Len(gallery) /\ DOMAIN new = DOMAIN gallery
  BY <1>1
<1>3. \A n \in DOMAIN new : new[n] => n = i
  OBVIOUS
<1> HIDE DEF new
<1> QED
  BY <1>2, <1>3 DEF Opens, new

LEMMA RemoveOpens ==
  ASSUME NEW gallery, Opens(gallery), NEW i \in DOMAIN gallery
  PROVE  Opens(RemoveAt(gallery, i))
<1> DEFINE new == RemoveAt(gallery, i)
           L == Len(gallery)
           front == SubSeq(gallery, 1, i - 1)
           back == SubSeq(gallery, i + 1, L)
<1>1. gallery \in Seq(BOOLEAN) /\ L \in Nat /\ DOMAIN gallery = 1..L /\ i \in 1..L /\ L <= Limit
  BY DEF Opens
<1>2. /\ front \in Seq(BOOLEAN) /\ Len(front) = i - 1
      /\ \A k \in 1..(i - 1) : front[k] = gallery[k]
  BY <1>1
<1>3. /\ back \in Seq(BOOLEAN) /\ Len(back) = L - i
      /\ \A k \in 1..(L - i) : back[k] = gallery[k + i]
  BY <1>1
<1>4. new = front \o back
  BY DEF RemoveAt
<1> HIDE DEF front, back, new, L
<1>5. /\ new \in Seq(BOOLEAN) /\ Len(new) = L - 1
      /\ \A k \in 1..(L - 1) : new[k] = IF k <= i - 1 THEN front[k] ELSE back[k - (i - 1)]
  <2>1. (i - 1) + (L - i) = L - 1
    BY <1>1
  <2>2. front \in Seq(BOOLEAN) /\ back \in Seq(BOOLEAN)
        /\ Len(front) = i - 1 /\ Len(back) = L - i
    BY <1>2, <1>3
  <2>3. /\ new \in Seq(BOOLEAN) /\ Len(new) = Len(front) + Len(back)
        /\ \A k \in 1..(Len(front) + Len(back)) :
             new[k] = IF k <= Len(front) THEN front[k] ELSE back[k - Len(front)]
    BY <1>4, <2>2, ConcatProperties
  <2> QED
    BY <2>1, <2>2, <2>3
<1>6. ASSUME NEW k \in 1..(L - 1)
      PROVE  new[k] = IF k < i THEN gallery[k] ELSE gallery[k + 1]
  <2>1. CASE k < i
    BY <1>1, <1>2, <1>5, <2>1
  <2>2. CASE ~(k < i)
    <3>1. k - (i - 1) \in 1..(L - i) /\ (k - (i - 1)) + i = k + 1 /\ ~(k <= i - 1)
      BY <1>1, <2>2
    <3> QED
      BY <1>3, <1>5, <2>2, <3>1
  <2> QED
    BY <2>1, <2>2
<1>7. ASSUME NEW j \in DOMAIN new, NEW k \in DOMAIN new, new[j], new[k] PROVE j = k
  <2>1. j \in 1..(L - 1) /\ k \in 1..(L - 1)
    BY <1>1, <1>5
  <2> DEFINE from(m) == IF m < i THEN m ELSE m + 1
  <2>2. from(j) \in 1..L /\ from(k) \in 1..L /\ (from(j) = from(k) => j = k)
    BY <1>1, <2>1
  <2>3. gallery[from(j)] /\ gallery[from(k)]
    BY <1>6, <1>7, <2>1
  <2> HIDE DEF from
  <2> QED
    BY <1>1, <2>2, <2>3 DEF Opens
<1>8. Len(new) <= Limit
  BY <1>1, <1>5, StudioAssumption
<1> QED
  BY <1>5, <1>7, <1>8 DEF Opens, new

LEMMA StudioNextIInv == StudioIInv /\ [StudioNext]_studioVars => StudioIInv'
<1> SUFFICES ASSUME StudioIInv, [StudioNext]_studioVars PROVE StudioIInv'
  OBVIOUS
<1>1. ASSUME NEW tab \in Tabs PROVE Opens(records[tab])
  BY DEF StudioIInv
<1>2. ASSUME NEW tab \in Tabs, Reload(tab) PROVE StudioIInv'
  <2>1. storage' = storage
        /\ readable' = [readable EXCEPT ![tab] = Valid(storage)]
        /\ records' = [records EXCEPT ![tab] = IF Valid(storage) THEN storage ELSE <<>>]
    BY <1>2 DEF Reload, Opened
  <2>2. Opens(IF Valid(storage) THEN storage ELSE <<>>)
    BY EmptyOpens DEF StudioIInv, Valid
  <2>3. storage = Unreadable => ~Valid(storage)
    BY DEF Valid
  <2> QED
    BY <2>1, <2>2, <2>3 DEF StudioIInv
<1>3. ASSUME NEW tab \in Tabs, SaveDraft(tab) PROVE StudioIInv'
  <2>1. Len(records[tab]) < Limit /\ records[tab] \in Seq(BOOLEAN)
        /\ save(tab, Append(records[tab], Draft))
    BY <1>1, <1>3 DEF SaveDraft, Opens
  <2>2. <<Draft>> \in Seq(BOOLEAN) /\ Len(<<Draft>>) = 1 /\ \A i \in 1..1 : ~<<Draft>>[i]
    BY DEF Draft
  <2>3. 1 + Len(records[tab]) <= Limit
    BY <2>1, StudioAssumption
  <2>4. Opens(records[tab] \o <<Draft>>)
    BY <1>1, <2>2, <2>3, DraftsJoin
  <2>5. Append(records[tab], Draft) = records[tab] \o <<Draft>>
    BY <2>1, AppendIsConcat DEF Draft
  <2> QED
    BY <2>1, <2>4, <2>5, SaveKeeps
<1>4. ASSUME NEW tab \in Tabs, NEW i \in DOMAIN records[tab], Feature(tab, i) PROVE StudioIInv'
  BY <1>1, <1>4, FeatureOpens, SaveKeeps DEF Feature
<1>5. ASSUME NEW tab \in Tabs, NEW i \in DOMAIN records[tab], RemoveDraft(tab, i) PROVE StudioIInv'
  BY <1>1, <1>5, RemoveOpens, SaveKeeps DEF RemoveDraft
<1>6. ASSUME NEW tab \in Tabs, NEW n \in 0..Limit, Import(tab, n) PROVE StudioIInv'
  <2>1. CASE UNCHANGED <<storage, readable, records>>
    BY <2>1 DEF StudioIInv
  <2>2. CASE Fits(tab, n) /\ save(tab, records[tab] \o [i \in 1..n |-> Draft])
    <3> DEFINE drafts == [i \in 1..n |-> Draft]
    <3>1. drafts \in Seq(BOOLEAN) /\ Len(drafts) = n /\ \A i \in 1..n : ~drafts[i]
      BY StudioAssumption DEF Draft
    <3>2. n \in Nat /\ n + Len(records[tab]) <= Limit
      BY <2>2, StudioAssumption DEF Fits
    <3> HIDE DEF drafts
    <3>3. Opens(records[tab] \o drafts)
      BY <1>1, <3>1, <3>2, DraftsJoin
    <3> QED
      BY <2>2, <3>3, SaveKeeps DEF drafts
  <2> QED
    BY <1>6, <2>1, <2>2 DEF Import
<1>7. ASSUME UNCHANGED <<storage, readable, records>> PROVE StudioIInv'
  BY <1>7 DEF StudioIInv
<1> QED
  BY <1>2, <1>3, <1>4, <1>5, <1>6, <1>7 DEF StudioNext, studioVars, ChooseBackup

(* Any number of tabs that overwrite one another and any backups leave a   *)
(* gallery that the next tab can open, or what none of them could read.    *)
THEOREM AlwaysOpens == StudioSpec => []GalleryOpens
<1>1. StudioIInv => GalleryOpens
  BY DEF StudioIInv, Opens, GalleryOpens, Valid, Featured
<1> QED
  BY <1>1, StudioInitIInv, StudioNextIInv, PTL DEF StudioSpec

-----------------------------------------------------------------------------
(***************************************************************************)
(* The dashboard.  Beside the types the invariant ties what the chat needs *)
(* together: the view to the timer, and chatBusy to the request, of which  *)
(* there is never a second one.                                            *)
(***************************************************************************)
Ops == {"none", "me", "login", "items", "market", "write", "logout", "chat"}
Calls == [op : Ops, cookie : Accounts \cup {None}, room : Rooms, seen : Nat]

PageTypeOK ==
  /\ session \in Accounts \cup {None} /\ user \in Accounts \cup {None}
  /\ posted \in [Rooms -> Nat]
  /\ view \in Lists \cup {"chat", "settings"} /\ room \in Rooms
  /\ call \in [Flows -> Calls]

(* One load of the chat at a time, and chatBusy says whether there is one. *)
Busy(calls, loading) ==
  /\ calls["chat"].op \in {"none", "chat"}
  /\ loading <=> calls["chat"].op = "chat"

(* The chat's interval runs while the chat is on view, for a page that is  *)
(* signed in.                                                              *)
OnTime ==
  /\ view = "chat" => user # None
  /\ chatTimers = IF view = "chat" THEN 1 ELSE 0

PageIInv == PageTypeOK /\ Busy(call, chatBusy) /\ OnTime /\ ChatOfRoom

LEMMA PageConstants == Lobby \in Rooms /\ Views \subseteq Lists \cup {"chat", "settings"}
  BY PageAssumption

LEMMA PageInitIInv == PageInit => PageIInv
<1> SUFFICES ASSUME PageInit PROVE PageIInv
  OBVIOUS
<1>1. call \in [Flows -> Calls] /\ call["chat"] = Idle
  BY PageConstants DEF PageInit, Flows, Calls, Ops, Idle, Request
<1>2. PageTypeOK
  BY <1>1, PageConstants DEF PageInit, PageTypeOK, Lists
<1>3. Busy(call, chatBusy)
  BY <1>1 DEF Busy, Idle, PageInit
<1> QED
  BY <1>2, <1>3 DEF PageInit, PageIInv, OnTime, ChatOfRoom

-----------------------------------------------------------------------------
LEMMA RequestType ==
  ASSUME NEW op \in Ops, NEW cookie \in Accounts \cup {None}
  PROVE  Idle \in Calls /\ Request(op, cookie) \in Calls
  BY PageConstants DEF Calls, Idle, Request, Ops

LEMMA AboutType ==
  ASSUME PageTypeOK, NEW op \in Ops, NEW r \in Rooms
  PROVE  About(op, r) \in Calls /\ About(op, r).op = op
  BY DEF PageTypeOK, Calls, About

(* A flow beside the chat goes on: the chat's request stays what it is.    *)
LEMMA FlowGoes ==
  ASSUME PageIInv, NEW f \in Flows \ {"chat"}, NEW c \in Calls
  PROVE  [call EXCEPT ![f] = c] \in [Flows -> Calls] /\ Busy([call EXCEPT ![f] = c], chatBusy)
  BY DEF PageIInv, PageTypeOK, Busy, Flows

(* loadChat may ask, or nothing is asked.                                  *)
LEMMA LoadChatAsks ==
  ASSUME PageTypeOK, NEW v, NEW r \in Rooms, NEW calls \in [Flows -> Calls],
         Busy(calls, chatBusy), LoadChat(v, r, calls) \/ NoChat(calls)
  PROVE  call' \in [Flows -> Calls] /\ Busy(call', chatBusy')
<1>1. CASE call' = calls /\ (chatBusy' <=> chatBusy)
  BY <1>1 DEF Busy
<1>2. CASE call' = [calls EXCEPT !["chat"] = About("chat", r)] /\ chatBusy'
  <2>1. About("chat", r) \in Calls /\ About("chat", r).op = "chat"
    BY AboutType DEF Ops
  <2> QED
    BY <1>2, <2>1 DEF Busy, Flows
<1> QED
  BY <1>1, <1>2 DEF LoadChat, NoChat

(* The parts of the invariant that a step leaves alone when it leaves the  *)
(* session, the posts, the user and the screen alone.                      *)
LEMMA ScreenStays ==
  ASSUME PageIInv, UNCHANGED <<posted, user, view, room, box, signature, chatTimers>>,
         session' \in Accounts \cup {None},
         call' \in [Flows -> Calls], Busy(call', chatBusy')
  PROVE  PageIInv'
  BY DEF PageIInv, PageTypeOK, Busy, OnTime, ChatOfRoom

(* A view is rendered anew: its chat is empty, and nothing of it is taken  *)
(* for shown.                                                              *)
LEMMA RenderKeeps ==
  ASSUME PageIInv, NEW v \in Lists \cup {"chat", "settings"}, NEW r \in Rooms, NEW shownOf,
         NEW calls \in [Flows -> Calls], Busy(calls, chatBusy),
         Render(v, r, shownOf, calls), view' = v, room' = r, user # None,
         chatTimers' = IF v = "chat" THEN 1 ELSE 0, UNCHANGED <<session, posted, user>>
  PROVE  PageIInv'
<1>1. call' \in [Flows -> Calls] /\ Busy(call', chatBusy')
  BY LoadChatAsks DEF Render, PageIInv
<1>2. box' = Unwritten /\ (v = "chat" => signature' = Unwritten)
  BY DEF Render
<1>3. PageTypeOK' /\ OnTime'
  BY <1>1 DEF PageIInv, PageTypeOK, OnTime
<1>4. ChatOfRoom'
  BY <1>2 DEF ChatOfRoom
<1> QED
  BY <1>1, <1>3, <1>4 DEF PageIInv, Busy

LEMMA RenderIfKeeps ==
  ASSUME PageIInv, NEW condition, NEW shownOf, NEW calls \in [Flows -> Calls],
         Busy(calls, chatBusy), RenderIf(condition, shownOf, calls),
         UNCHANGED <<session, posted, user, view, room, chatTimers>>
  PROVE  PageIInv'
<1>1. CASE condition /\ user # None
  <2>1. Render(view, room, shownOf, calls)
    BY <1>1 DEF RenderIf
  <2> QED
    BY <1>1, <2>1, RenderKeeps DEF PageIInv, PageTypeOK, OnTime
<1>2. CASE ~(condition /\ user # None)
  <2>1. NoChat(calls) /\ UNCHANGED <<box, signature>>
    BY <1>2 DEF RenderIf
  <2>2. call' \in [Flows -> Calls] /\ Busy(call', chatBusy')
    BY <2>1, LoadChatAsks DEF PageIInv, PageTypeOK
  <2> QED
    BY <2>1, <2>2, ScreenStays DEF PageIInv, PageTypeOK
<1> QED
  BY <1>1, <1>2

(* The page shows the sign-in: no chat is on view.                         *)
LEMMA AuthKeeps ==
  ASSUME PageIInv, showAuth, session' \in Accounts \cup {None}, UNCHANGED posted,
         call' \in [Flows -> Calls], Busy(call', chatBusy')
  PROVE  PageIInv'
<1>1. user' = None /\ view' = "overview" /\ room' = Lobby /\ chatTimers' = 0
  BY DEF showAuth
<1> QED
  BY <1>1, PageConstants DEF PageIInv, PageTypeOK, Busy, OnTime, ChatOfRoom, Lists

-----------------------------------------------------------------------------
(* A request of a flow fails or is answered, or one is sent.               *)
LEMMA FailedFrees ==
  ASSUME PageIInv, NEW f \in Flows, Failed(f)
  PROVE  call' \in [Flows -> Calls] /\ Busy(call', chatBusy')
<1>1. Idle \in Calls /\ Idle.op = "none"
  BY PageConstants DEF Calls, Idle, Ops
<1>2. call' = [call EXCEPT ![f] = Idle] /\ (chatBusy' <=> (chatBusy /\ f # "chat"))
  BY DEF Failed, Ends
<1> QED
  BY <1>1, <1>2 DEF PageIInv, PageTypeOK, Busy, Flows

LEMMA AnswerKeeps ==
  ASSUME PageIInv, NEW f \in Flows, Answer(f)
  PROVE  PageIInv'
<1>1. session \in Accounts \cup {None} /\ \A g \in Flows : call[g].cookie \in Accounts \cup {None}
  BY DEF PageIInv, PageTypeOK, Calls
<1>2. Idle \in Calls
  BY PageConstants DEF Calls, Idle, Ops
<1>3. call[f].op \notin {"none", "chat"} => f # "chat"
  BY DEF PageIInv, Busy
<1>4. CASE Entered(f)
  <2>1. f # "chat"
    BY <1>3, <1>4 DEF Entered, Answered
  <2>2. user' \in Accounts \cup {None} /\ session' \in Accounts \cup {None} /\ user' # None
    BY <1>1, <1>4, PageAssumption DEF Entered, Answered
  <2>3. call' = [call EXCEPT ![f] = Request("items", session')] /\ chatBusy' = chatBusy
        /\ UNCHANGED <<posted, view, room, box, signature, chatTimers>>
    BY <1>4 DEF Entered, NoChat, Goes, screen
  <2>4. Request("items", session') \in Calls
    BY <2>2, RequestType DEF Ops
  <2>5. call' \in [Flows -> Calls] /\ Busy(call', chatBusy')
    BY <2>1, <2>3, <2>4, FlowGoes
  <2>6. ChatOfRoom'
    BY <2>3 DEF PageIInv, OnTime, ChatOfRoom
  <2> QED
    BY <2>2, <2>3, <2>5, <2>6 DEF PageIInv, PageTypeOK, Busy, OnTime
<1>5. CASE Loaded(f)
  <2>1. f # "chat"
    BY <1>3, <1>5 DEF Loaded, Answered
  <2> DEFINE calls == IF Entering(f) THEN Goes(f, "market", session) ELSE Ends(f)
  <2>2. Request("market", session) \in Calls
    BY <1>1, RequestType DEF Ops
  <2>3. calls \in [Flows -> Calls] /\ Busy(calls, chatBusy)
    BY <1>2, <2>1, <2>2, FlowGoes DEF Goes, Ends
  <2>4. RenderIf(TRUE, data', calls) /\ UNCHANGED <<session, posted, user, view, room, chatTimers>>
    BY <1>5 DEF Loaded
  <2> HIDE DEF calls
  <2> QED
    BY <2>3, <2>4, RenderIfKeeps
<1>6. CASE Written(f)
  <2>1. f # "chat"
    BY <1>6 DEF Written
  <2>2. call' = [call EXCEPT ![f] = Request("items", session)] /\ chatBusy' = chatBusy
        /\ UNCHANGED <<session, posted, user, view, room, box, signature, chatTimers>>
    BY <1>6 DEF Written, NoChat, Goes
  <2>3. Request("items", session) \in Calls
    BY <1>1, RequestType DEF Ops
  <2>4. call' \in [Flows -> Calls] /\ Busy(call', chatBusy')
    BY <2>1, <2>2, <2>3, FlowGoes
  <2> QED
    BY <1>1, <2>2, <2>4, ScreenStays
<1>7. CASE Quoted(f)
  <2>1. f # "chat"
    BY <1>3, <1>7 DEF Quoted, Answered
  <2>2. Ends(f) \in [Flows -> Calls] /\ Busy(Ends(f), chatBusy)
    BY <1>2, <2>1, FlowGoes DEF Ends
  <2>3. RenderIf(view \in Lists, data, Ends(f))
        /\ UNCHANGED <<session, posted, user, view, room, chatTimers>>
    BY <1>7 DEF Quoted
  <2> QED
    BY <2>2, <2>3, RenderIfKeeps
<1>8. CASE Broken(f)
  <2>1. UNCHANGED <<session, posted, user, view, room, box, signature, chatTimers>> /\ Failed(f)
    BY <1>8 DEF Broken, Failed, screen
  <2> QED
    BY <1>1, <2>1, FailedFrees, ScreenStays
<1>9. CASE Denied(f)
  <2>1. showAuth /\ Failed(f) /\ UNCHANGED <<session, posted>>
    BY <1>9 DEF Denied, Failed
  <2> QED
    BY <1>1, <2>1, FailedFrees, AuthKeeps
<1> QED
  BY <1>4, <1>5, <1>6, <1>7, <1>8, <1>9 DEF Answer

LEMMA SendKeeps ==
  ASSUME PageIInv, NEW f \in Flows, Start(f)
  PROVE  PageIInv'
<1>1. session \in Accounts \cup {None} /\ room \in Rooms
  BY DEF PageIInv, PageTypeOK
<1>2. f \in {"login", "save", "remove", "quotes", "message", "logout"}
  BY DEF Start
<1> DEFINE c == IF f = "message" THEN About("write", room) ELSE Request(Opening[f], session)
<1>3. call' = [call EXCEPT ![f] = c] /\ chatBusy' = chatBusy
      /\ UNCHANGED <<session, posted, user, view, room, box, signature, chatTimers>>
  BY DEF Start, screen
<1>4. c \in Calls
  <2>1. CASE f = "message"
    BY <1>1, <2>1, AboutType DEF PageIInv, Ops
  <2>2. CASE f # "message"
    <3>1. Opening[f] \in Ops
      BY <1>2, <2>2 DEF Opening, Ops
    <3> QED
      BY <1>1, <2>2, <3>1, RequestType
  <2> QED
    BY <2>1, <2>2
<1> HIDE DEF c
<1>5. call' \in [Flows -> Calls] /\ Busy(call', chatBusy')
  BY <1>2, <1>3, <1>4, FlowGoes
<1> QED
  BY <1>1, <1>3, <1>5, ScreenStays

(* The messages that come are of the room that is on view, or not shown.   *)
LEMMA ChatLoadedKeeps ==
  ASSUME PageIInv, ChatLoaded
  PROVE  PageIInv'
<1>1. call \in [Flows -> Calls] /\ posted \in [Rooms -> Nat] /\ session \in Accounts \cup {None}
  BY DEF PageIInv, PageTypeOK
<1>2. call' = [call EXCEPT !["chat"] = Idle] /\ chatBusy' = FALSE
      /\ UNCHANGED <<session, posted, user, view, room, chatTimers>>
  BY DEF ChatLoaded, ChatFree, Ends
<1>3. call' \in [Flows -> Calls] /\ Busy(call', chatBusy')
  <2>1. Idle \in Calls /\ Idle.op = "none"
    BY PageConstants DEF Calls, Idle, Ops
  <2> QED
    BY <1>1, <1>2, <2>1 DEF Busy, Flows
<1> DEFINE r == call["chat"].room
<1>4. PICK n \in call["chat"].seen..posted[r] :
        IF Shows(r, Listing(r, n))
          THEN box' = Listing(r, n) /\ signature' = Listing(r, n)
          ELSE UNCHANGED <<box, signature>>
  BY DEF ChatLoaded
<1>5. CASE UNCHANGED <<box, signature>>
  BY <1>1, <1>2, <1>3, <1>5, ScreenStays
<1>6. CASE room = r /\ box' = Listing(r, n) /\ signature' = Listing(r, n)
  <2>1. call["chat"].seen \in Nat /\ posted[r] \in Nat
    BY <1>1 DEF Calls, Flows
  <2>2. n \in 0..posted[r]
    BY <2>1
  <2>3. ChatOfRoom'
    BY <1>2, <1>6, <2>2 DEF ChatOfRoom
  <2> QED
    BY <1>2, <1>3, <2>3 DEF PageIInv, PageTypeOK, Busy, OnTime
<1> QED
  BY <1>4, <1>5, <1>6 DEF Shows

(* More is posted: what was shown is a list of the room still.             *)
LEMMA PostingKeeps ==
  ASSUME PageIInv, NEW r \in Rooms, posted' = [posted EXCEPT ![r] = @ + 1],
         UNCHANGED <<session, user, view, room, box, chatTimers>>,
         signature' \in {signature, Unwritten},
         call' \in [Flows -> Calls], Busy(call', chatBusy')
  PROVE  PageIInv'
<1>1. posted \in [Rooms -> Nat] /\ room \in Rooms
  BY DEF PageIInv, PageTypeOK
<1>2. posted' \in [Rooms -> Nat] /\ \A n \in 0..posted[room] : n \in 0..posted'[room]
  BY <1>1
<1>3. ChatOfRoom'
  BY <1>2 DEF PageIInv, ChatOfRoom
<1> QED
  BY <1>2, <1>3 DEF PageIInv, PageTypeOK, Busy, OnTime

LEMMA MessageSentKeeps ==
  ASSUME PageIInv, MessageSent
  PROVE  PageIInv'
<1>1. call["message"].room \in Rooms /\ room \in Rooms
  BY DEF PageIInv, PageTypeOK, Calls, Flows
<1>2. Ends("message") \in [Flows -> Calls] /\ Busy(Ends("message"), chatBusy)
  <2>1. Idle \in Calls
    BY PageConstants DEF Calls, Idle, Ops
  <2> QED
    BY <2>1, FlowGoes DEF Ends, Flows
<1>3. LoadChat(view, room, Ends("message")) \/ NoChat(Ends("message"))
  BY DEF MessageSent
<1>4. call' \in [Flows -> Calls] /\ Busy(call', chatBusy')
  BY <1>1, <1>2, <1>3, LoadChatAsks DEF PageIInv
<1> QED
  BY <1>1, <1>4, PostingKeeps DEF MessageSent

LEMMA PageNextIInv == PageIInv /\ [PageNext]_pageVars => PageIInv'
<1> SUFFICES ASSUME PageIInv, [PageNext]_pageVars PROVE PageIInv'
  OBVIOUS
<1>1. /\ session \in Accounts \cup {None} /\ room \in Rooms
      /\ call \in [Flows -> Calls] /\ Busy(call, chatBusy)
  BY DEF PageIInv, PageTypeOK
<1>2. Idle \in Calls
  BY PageConstants DEF Calls, Idle, Ops
<1>3. ASSUME UNCHANGED <<posted, user, view, room, box, signature, chatTimers, call, chatBusy>>,
             session' \in Accounts \cup {None}
      PROVE  PageIInv'
  BY <1>1, <1>3, ScreenStays DEF Busy
<1>4. CASE LoggedOut
  <2>1. call' = [call EXCEPT !["logout"] = Idle] /\ chatBusy' = chatBusy
        /\ showAuth /\ session' = None /\ posted' = posted
    BY <1>4 DEF LoggedOut, NoChat, Ends
  <2>2. call' \in [Flows -> Calls] /\ Busy(call', chatBusy')
    BY <1>2, <2>1, FlowGoes DEF Flows
  <2> QED
    BY <2>1, <2>2, AuthKeeps
<1>5. ASSUME NEW v \in Views, NEW r \in Rooms, SetView(v, r) PROVE PageIInv'
  BY <1>1, <1>5, PageConstants, RenderKeeps DEF SetView
<1>6. CASE ChatTimer
  <2>1. LoadChat(view, room, call)
        /\ UNCHANGED <<session, posted, user, view, room, box, signature, chatTimers>>
    BY <1>6 DEF ChatTimer, screen
  <2>2. call' \in [Flows -> Calls] /\ Busy(call', chatBusy')
    BY <1>1, <2>1, LoadChatAsks DEF PageIInv
  <2> QED
    BY <1>1, <2>1, <2>2, ScreenStays
<1>7. CASE Visibility
  <2> DEFINE calls == IF away /\ user # None
                        THEN [call EXCEPT !["quotes"] = Request("market", session)] ELSE call
  <2>1. LoadChat(view, room, calls) \/ NoChat(calls)
    BY <1>7 DEF Visibility
  <2>2. Request("market", session) \in Calls
    BY <1>1, RequestType DEF Ops
  <2>3. calls \in [Flows -> Calls] /\ Busy(calls, chatBusy)
    BY <1>1, <2>2, FlowGoes DEF Flows
  <2>4. UNCHANGED <<session, posted, user, view, room, box, signature, chatTimers>>
    BY <1>7 DEF Visibility, screen
  <2> HIDE DEF calls
  <2>5. call' \in [Flows -> Calls] /\ Busy(call', chatBusy')
    BY <1>1, <2>1, <2>3, LoadChatAsks DEF PageIInv
  <2> QED
    BY <1>1, <2>4, <2>5, ScreenStays
<1>8. CASE Dialog
  BY <1>1, <1>3, <1>8 DEF Dialog
<1>9. CASE OtherTab
  BY <1>1, <1>3, <1>9 DEF OtherTab, screen
<1>10. CASE OtherMember
  <2>1. PICK r \in Rooms : posted' = [posted EXCEPT ![r] = @ + 1]
    BY <1>10 DEF OtherMember
  <2>2. UNCHANGED <<session, user, view, room, box, signature, chatTimers, call, chatBusy>>
    BY <1>10 DEF OtherMember, screen
  <2> QED
    BY <1>1, <2>1, <2>2, PostingKeeps
<1>11. CASE UNCHANGED pageVars
  BY <1>1, <1>3, <1>11 DEF pageVars, screen
<1> QED
  BY <1>4, <1>5, <1>6, <1>7, <1>8, <1>9, <1>10, <1>11,
     AnswerKeeps, SendKeeps, ChatLoadedKeeps, MessageSentKeeps DEF PageNext

LEMMA PageInvariance == PageSpec => []PageIInv
  BY PageInitIInv, PageNextIInv, PTL DEF PageSpec

(* Rooms and views are left and entered, answers come late and accounts    *)
(* change: the chat shows messages of its room, and what loadChat takes    *)
(* for shown is shown.                                                     *)
THEOREM ChatShowsItsRoom == PageSpec => []ChatOfRoom
  BY PageInvariance, PTL DEF PageIInv

(* What NewsIsSeen rests on: chatBusy is set exactly while a load of the   *)
(* chat is in flight, and the chat's interval runs exactly while a page    *)
(* that is signed in shows the chat.                                       *)
THEOREM OneLoadAtATime ==
  PageSpec => [](/\ chatBusy <=> call["chat"].op = "chat"
                 /\ view = "chat" => user # None
                 /\ chatTimers = IF view = "chat" THEN 1 ELSE 0)
<1>1. PageIInv => /\ chatBusy <=> call["chat"].op = "chat"
                  /\ view = "chat" => user # None
                  /\ chatTimers = IF view = "chat" THEN 1 ELSE 0
  BY DEF PageIInv, Busy, OnTime
<1> QED
  BY <1>1, PageInvariance, PTL

-----------------------------------------------------------------------------
(* The scripts do not disturb one another: what runs beside a script is no *)
(* step of its own, and the website is each of them.                       *)
THEOREM WebsiteIsItsScripts ==
  Spec => /\ PageSpec /\ FeedSpec /\ LookupSpec /\ PriceSpec
          /\ PanelSpec /\ StudioSpec /\ MiniSpec
<1>1. Init => /\ PageInit /\ FeedInit /\ LookupInit /\ PriceInit
              /\ PanelInit /\ StudioInit /\ MiniInit
  BY DEF Init
<1>2. ASSUME [Next]_vars
      PROVE  /\ [PageNext]_pageVars /\ [FeedNext]_feedVars /\ [LookupNext]_lookupVars
             /\ [PriceNext]_priceVars /\ [PanelNext]_panelVars
             /\ [StudioNext]_studioVars /\ [MiniNext]_miniVars
  BY <1>2 DEF Next, vars
<1> QED
  BY <1>1, <1>2, PTL DEF Spec, PageSpec, FeedSpec, LookupSpec, PriceSpec,
     PanelSpec, StudioSpec, MiniSpec

(* Whatever page is open and whatever its visitors and their networks do,  *)
(* the page keeps what its script promises.                                *)
THEOREM WebsiteKeepsItsPromises ==
  Spec => [](/\ ChatOfRoom /\ PairsAgree /\ LastSearchRules /\ FreshOrOffline
             /\ OwnAnswers /\ GalleryOpens /\ HeldOrOnHisWay)
  BY WebsiteIsItsScripts, ChatShowsItsRoom, PairsStayTogether, OnlyTheLast,
     NoStalePrice, ToTheQuestion, AlwaysOpens, HeldOrTravelling, PTL
=============================================================================
