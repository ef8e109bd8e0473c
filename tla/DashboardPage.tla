---------------------------- MODULE DashboardPage ----------------------------
(***************************************************************************)
(* One open page of the personal dashboard: who is signed in on it, whose  *)
(* records it holds and shows, its view, its chat, its timers, and the     *)
(* requests it waits for.  A request carries the cookie of the moment it   *)
(* is sent; its answer may come after any number of other steps, or not at *)
(* all.  Other tabs share the cookie and sign in and out as they like.     *)
(***************************************************************************)
EXTENDS PageScript, Naturals, FiniteSets

CONSTANTS
  Accounts, Rooms,
  Lobby,     \* the room a page starts in, 'lounge'
  Views,     \* the views the user goes to
  MaxPosts,  \* bound of the model: messages posted in a room
  MaxCalls   \* bound of the model: requests in flight at once, beside the chat's

Lists == {"overview", "notes"}      \* the overview, and a list of items

ASSUME PageAssumption ==
  /\ None \notin Accounts /\ Lobby \in Rooms
  /\ Views \subseteq Lists \cup {"chat", "settings"}
  /\ MaxPosts \in Nat /\ MaxCalls \in Nat \ {0}

VARIABLES
  session,      \* the account of the browser's cookie
  posted,       \* messages in each room, on the server
  user,         \* who is signed in on the page; the app is visible iff someone is
  data,         \* whose records the page holds
  markup,       \* whose records viewContent shows
  view, room,
  box,          \* the messages that are shown
  signature,    \* the messages loadChat wrote last
  chatBusy,
  chatTimers, marketTimers,   \* intervals that are running
  dialog,       \* the item dialog is open
  away,         \* document.hidden
  call          \* call[f]: what flow f waits for

screen == <<data, markup, view, room, box, signature, dialog>>
pageVars == <<session, posted, user, screen, chatBusy, chatTimers, marketTimers, away, call>>

(* A handler waits for one request at a time: a flow is a handler, and its *)
(* requests follow one another.  A disabled button keeps login and save to *)
(* one at a time, chatBusy the chat; for the others it is a bound.  The    *)
(* flow "message" posts or deletes a message.                              *)
Flows == {"boot", "login", "save", "remove", "quotes", "chat", "message", "logout"}
Opening == [login |-> "login", save |-> "write", remove |-> "write",
            quotes |-> "market", message |-> "write", logout |-> "logout"]

Idle == [op |-> "none", cookie |-> None, room |-> Lobby, seen |-> 0]
Request(op, cookie) == [Idle EXCEPT !.op = op, !.cookie = cookie]
About(op, r) == [op |-> op, cookie |-> session, room |-> r, seen |-> posted[r]]
InFlight(calls) == {f \in Flows \ {"chat"} : calls[f] # Idle}

(* Messages of a room: the empty list looks the same in every room.        *)
Unwritten == <<"unwritten">>
Listing(r, n) == IF n = 0 THEN <<"empty">> ELSE <<r, n>>

PageInit ==
  /\ session \in Accounts \cup {None}
  /\ posted = [r \in Rooms |-> 0]
  /\ user = None /\ data = None /\ markup = None
  /\ view = "overview" /\ room = Lobby
  /\ box = Unwritten /\ signature = Unwritten
  /\ chatBusy = FALSE /\ chatTimers = 0 /\ marketTimers = 0
  /\ dialog = FALSE /\ away = FALSE
  /\ call = [[f \in Flows |-> Idle] EXCEPT !["boot"] = Request("me", session)]

-----------------------------------------------------------------------------
(* loadChat, of the room r: nothing unless the chat is on screen and no    *)
(* other load is under way.  The rest of the step leaves `calls' in flight. *)
LoadChat(v, r, calls) ==
  LET asks == user # None /\ v = "chat" /\ ~chatBusy IN
  /\ chatBusy' = (chatBusy \/ asks)
  /\ call' = IF asks THEN [calls EXCEPT !["chat"] = About("chat", r)] ELSE calls

NoChat(calls) == call' = calls /\ UNCHANGED chatBusy

(* Mutant of Render: the signature outlives the box it describes.          *)
RenderKeepingSignature(v, r, records, calls) ==
  /\ markup' = IF v \notin Lists THEN None
               ELSE IF v = "overview" /\ records = None THEN markup ELSE records
  /\ box' = Unwritten /\ UNCHANGED signature
  /\ IF away THEN NoChat(calls) ELSE LoadChat(v, r, calls)

(* render: the overview throws when it has no records to count; the chat   *)
(* starts empty and asks for its messages.                                 *)
Render(v, r, records, calls) ==
  /\ markup' = IF v \notin Lists THEN None
               ELSE IF v = "overview" /\ records = None THEN markup ELSE records
  /\ box' = Unwritten
  /\ signature' = IF v = "chat" THEN Unwritten ELSE signature
  /\ IF away THEN NoChat(calls) ELSE LoadChat(v, r, calls)

RenderIf(condition, records, calls) ==
  IF condition /\ user # None THEN Render(view, room, records, calls)
  ELSE NoChat(calls) /\ UNCHANGED <<markup, box, signature>>

(* setView, from a button of the page; r is the room of a room button.     *)
SetView(v, r) ==
  /\ user # None /\ ~dialog
  /\ r = room \/ v = "chat"
  /\ view' = v /\ room' = r
  /\ Render(v, r, data, call)
  /\ chatTimers' = IF v = "chat" THEN 1 ELSE 0
  /\ UNCHANGED <<session, posted, user, data, dialog, marketTimers, away>>

showAuth ==
  /\ user' = None /\ data' = None /\ dialog' = FALSE
  /\ view' = "overview" /\ room' = Lobby /\ signature' = Unwritten
  /\ chatTimers' = 0
  /\ UNCHANGED <<markup, box>>

-----------------------------------------------------------------------------
(* A handler sends its first request.                                      *)
Start(f) ==
  /\ call[f] = Idle
  /\ \/ f = "login" /\ user = None
     \/ f = "save" /\ user # None /\ dialog
     \/ f = "remove" /\ user # None /\ ~dialog /\ view \in Lists
     \/ f = "quotes" /\ user # None /\ marketTimers > 0 /\ ~away
     \/ f = "message" /\ user # None /\ view = "chat"
     \/ f = "logout" /\ user # None /\ ~dialog
  /\ call' = [call EXCEPT ![f] = IF f = "message" THEN About("write", room)
                                 ELSE Request(Opening[f], session)]
  /\ UNCHANGED <<session, posted, user, screen, chatBusy, chatTimers, marketTimers, away>>

(* The chat's interval.                                                    *)
ChatTimer ==
  /\ chatTimers > 0 /\ ~away
  /\ LoadChat(view, room, call)
  /\ UNCHANGED <<session, posted, user, screen, chatTimers, marketTimers, away>>

openItem == user # None /\ ~dialog /\ view \in Lists /\ dialog' = TRUE
closeDialog == dialog /\ dialog' = FALSE

Dialog ==
  /\ openItem \/ closeDialog
  /\ UNCHANGED <<session, posted, user, data, markup, view, room, box, signature,
                 chatBusy, chatTimers, marketTimers, away, call>>

(* visibilitychange: a page that comes back asks for what it missed.       *)
Visibility ==
  /\ away' = ~away
  /\ IF away /\ user # None
       THEN /\ call["quotes"] = Idle
            /\ LoadChat(view, room, [call EXCEPT !["quotes"] = Request("market", session)])
       ELSE NoChat(call)
  /\ UNCHANGED <<session, posted, user, screen, chatTimers, marketTimers>>

-----------------------------------------------------------------------------
(* Answers.  What is in flight when flow f ends, or goes on to ask more.   *)
Ends(f) == [call EXCEPT ![f] = Idle]
Goes(f, op, cookie) == [call EXCEPT ![f] = Request(op, cookie)]

(* The last of enter: whether quotes came or not, its timer is set anew.   *)
Entering(f) == f \in {"boot", "login"} /\ call[f].op \in {"items", "market"}

Answered(f, op) == call[f].op = op /\ call[f].cookie # None

(* me, login and register: enter, up to its first request.                 *)
Entered(f) ==
  /\ \/ Answered(f, "me") /\ user' = call[f].cookie /\ UNCHANGED session
     \/ call[f].op = "login" /\ user' \in Accounts /\ session' = user'
  /\ NoChat(Goes(f, "items", session'))
  /\ UNCHANGED <<posted, screen, chatTimers, marketTimers, away>>

(* loadData: the answer is kept and shown whoever is signed in by now.     *)
Loaded(f) ==
  /\ Answered(f, "items")
  /\ data' = call[f].cookie
  /\ RenderIf(TRUE, data', IF Entering(f) THEN Goes(f, "market", session) ELSE Ends(f))
  /\ UNCHANGED <<session, posted, user, view, room, dialog, chatTimers, marketTimers, away>>

(* An item was written or removed: close the dialog and load the records.  *)
Written(f) ==
  /\ f \in {"save", "remove"} /\ Answered(f, "write")
  /\ dialog' = (dialog /\ f # "save")
  /\ NoChat(Goes(f, "items", session))
  /\ UNCHANGED <<session, posted, user, data, markup, view, room, box, signature,
                 chatTimers, marketTimers, away>>

Quoted(f) ==
  /\ Answered(f, "market")
  /\ RenderIf(view \in Lists, data, Ends(f))
  /\ marketTimers' = IF Entering(f) THEN 1 ELSE marketTimers
  /\ UNCHANGED <<session, posted, user, data, view, room, dialog, chatTimers, away>>

(* Mutant of Shows: the room is not looked at again.                       *)
ShowsAnyRoom(r, messages) ==
  view = "chat" /\ user # None /\ messages # signature

(* What loadChat asks itself after its await.                              *)
Shows(r, messages) ==
  view = "chat" /\ room = r /\ user # None /\ messages # signature

(* Mutant of ChatFree: the early return is not followed by the finally.    *)
ChatFreeUnlessLate == chatBusy' = (room # call["chat"].room)

ChatFree == chatBusy' = FALSE

(* The messages as they were at some moment since they were asked for.     *)
ChatLoaded ==
  /\ Answered("chat", "chat")
  /\ ChatFree /\ call' = Ends("chat")
  /\ LET r == call["chat"].room IN
     \E n \in call["chat"].seen..posted[r] :
       IF Shows(r, Listing(r, n))
         THEN box' = Listing(r, n) /\ signature' = Listing(r, n)
         ELSE UNCHANGED <<box, signature>>
  /\ UNCHANGED <<session, posted, user, data, markup, view, room, dialog,
                 chatTimers, marketTimers, away>>

(* A message of this page was posted or deleted.                           *)
MessageSent ==
  /\ Answered("message", "write")
  /\ posted[call["message"].room] < MaxPosts
  /\ posted' = [posted EXCEPT ![call["message"].room] = @ + 1]
  /\ signature' = Unwritten
  /\ IF away THEN NoChat(Ends("message"))
     ELSE LoadChat(view, room, Ends("message"))
  /\ UNCHANGED <<session, user, data, markup, view, room, box, dialog,
                 chatTimers, marketTimers, away>>

LoggedOut ==
  /\ Answered("logout", "logout")
  /\ session' = None /\ marketTimers' = 0
  /\ showAuth /\ NoChat(Ends("logout"))
  /\ UNCHANGED <<posted, away>>

(* A request fails, and with it its handler.                               *)
Failed(f) ==
  /\ call[f] # Idle /\ call' = Ends(f)
  /\ chatBusy' = (chatBusy /\ f # "chat")
  /\ UNCHANGED <<session, posted, away>>

Broken(f) ==
  /\ Failed(f)
  /\ marketTimers' = IF Entering(f) THEN 1 ELSE marketTimers
  /\ UNCHANGED <<user, screen, chatTimers>>

(* A 401: the cookie is not, or no longer, that of a session, or the       *)
(* password is wrong.  It signs the page out, whoever is signed in by now. *)
Denied(f) ==
  /\ user # None
  /\ call[f].op = "login" \/ call[f].cookie = None \/ call[f].cookie # session
  /\ Failed(f) /\ showAuth
  /\ marketTimers' = IF Entering(f) THEN 1 ELSE 0

-----------------------------------------------------------------------------
(* Another tab signs in, as anyone, or out, or the session expires.        *)
OtherTab ==
  /\ session' \in (Accounts \cup {None}) \ {session}
  /\ UNCHANGED <<posted, user, screen, chatBusy, chatTimers, marketTimers, away, call>>

OtherMember ==
  /\ \E r \in Rooms : posted[r] < MaxPosts /\ posted' = [posted EXCEPT ![r] = @ + 1]
  /\ UNCHANGED <<session, user, screen, chatBusy, chatTimers, marketTimers, away, call>>

Answer(f) == Entered(f) \/ Loaded(f) \/ Written(f) \/ Quoted(f) \/ Broken(f) \/ Denied(f)

PageNext ==
  /\ \/ \E f \in Flows : Answer(f) \/ Start(f)
     \/ ChatLoaded \/ MessageSent \/ LoggedOut
     \/ \E v \in Views, r \in Rooms : SetView(v, r)
     \/ ChatTimer \/ Dialog \/ Visibility \/ OtherTab \/ OtherMember
  /\ Cardinality(InFlight(call')) <= MaxCalls

PageSpec == PageInit /\ [][PageNext]_pageVars

(* While the script runs, the chat's timer fires, its requests are         *)
(* answered or broken at last, and not all of them are broken.             *)
PageFairness ==
  /\ WF_pageVars(script = "dashboard" /\ (Broken("chat") \/ ChatLoaded))
  /\ SF_pageVars(script = "dashboard" /\ ChatTimer)
  /\ SF_pageVars(script = "dashboard" /\ (ChatLoaded \/ Denied("chat")))

-----------------------------------------------------------------------------
(* The chat shows messages of the room its header names, or none yet; and  *)
(* what loadChat takes for shown is shown, or no later poll would show it. *)
ChatOfRoom ==
  view = "chat" /\ user # None =>
    /\ box = Unwritten \/ \E n \in 0..posted[room] : box = Listing(room, n)
    /\ signature # Unwritten => box = signature

(* Who stays in a room sees, again and again, all that is said in it,      *)
(* whatever answers were lost, late or refused on the way.                 *)
NewsIsSeen ==
  \A r \in Rooms :
    <>[](user # None /\ view = "chat" /\ room = r /\ ~away)
      => []<>(box = Listing(r, posted[r]))

(* "Your saved portfolio stays private.": the page shows no other          *)
(* account's records to the one that is signed in on it.                   *)
OwnRecordsOnly ==
  user # None /\ view \in Lists => markup \in {None, user}
=============================================================================
