-------------------------------- MODULE MiniK --------------------------------
(***************************************************************************)
(* Mini K, the figure that walks about the pages: what he does, the route  *)
(* he is on, and the pointers that may take him along.  A unit of time is  *)
(* half a second of his clock, which stands still while he is paused, held *)
(* or on a page that is hidden; where exactly he stands is left out.        *)
(***************************************************************************)
EXTENDS PageScript, Naturals

CONSTANT Pointers   \* mouse, pen, fingers

ASSUME MiniAssumption == None \notin Pointers

VARIABLES
  action,      \* what he does: one of Still or Moving
  paused, unseen,
  pointerId,   \* the pointer that holds him; dragging unless None
  pressed,     \* the pointers that are down on him
  latest,      \* history: the pointer that came down last, until it ends
  left,        \* time left of his route, NoRoute if he is on none
  wait,        \* time until he chooses anew: nextAction - clock, 0 when due
  cable        \* the cable is shown

miniVars == <<action, paused, unseen, pointerId, pressed, latest, left, wait, cable>>

Still == {"lean", "wave"}                       \* and what is modelled by lean
Moving == {"walk", "zipline", "parachute"}      \* and what is modelled by walk
NoRoute == 0
dragging == pointerId # None

duration(name) == IF name = "parachute" THEN 13 ELSE 8
setAction(name) == action' = name /\ cable' = (name = "zipline")

MiniInit ==
  /\ action = "wave" /\ cable = FALSE
  /\ paused \in BOOLEAN /\ unseen = FALSE
  /\ pointerId = None /\ pressed = {} /\ latest = None
  /\ left = NoRoute /\ wait = 5

-----------------------------------------------------------------------------
chooseAction(name) ==
  /\ setAction(name)
  /\ left' = IF name \in Moving THEN duration(name) ELSE NoRoute
  /\ wait' = duration(name) + 3

(* The frames of half a second: a choice that is due, or the route, at     *)
(* whose end he waves.                                                     *)
frame ==
  /\ ~paused /\ ~dragging /\ ~unseen
  /\ IF wait = 0 THEN \E name \in Still \cup Moving : chooseAction(name)
     ELSE /\ wait' = wait - 1
          /\ left' = IF left = NoRoute THEN NoRoute ELSE left - 1
          /\ IF left = 1 THEN setAction("wave") ELSE UNCHANGED <<action, cable>>
  /\ UNCHANGED <<paused, unseen, pointerId, pressed, latest>>

(* The primary button: a second pointer takes him over from the first.     *)
pointerdown(p) ==
  /\ p \notin pressed /\ pressed' = pressed \cup {p}
  /\ pointerId' = p /\ latest' = p /\ left' = NoRoute
  /\ setAction("wave")
  /\ UNCHANGED <<paused, unseen, wait>>

(* Mutant of stopDragging: whichever pointer ends lets him go.             *)
StopAnyPointer(p) == pointerId' = None /\ wait' = 10 /\ p = p

stopDragging(p) ==
  IF pointerId = p THEN pointerId' = None /\ wait' = 10
  ELSE UNCHANGED <<pointerId, wait>>

(* pointerup, pointercancel or lostpointercapture.                         *)
PointerEnds(p) ==
  /\ p \in pressed /\ pressed' = pressed \ {p}
  /\ latest' = IF latest = p THEN None ELSE latest
  /\ stopDragging(p)
  /\ UNCHANGED <<action, paused, unseen, left, cable>>

keydown ==
  /\ left' = NoRoute /\ wait' = 10
  /\ setAction("wave")
  /\ UNCHANGED <<paused, unseen, pointerId, pressed, latest>>

(* The button, or a change of what the system prefers.                     *)
Pause ==
  /\ paused' = ~paused
  /\ UNCHANGED <<action, unseen, pointerId, pressed, latest, left, wait, cable>>

resize ==
  /\ left' = NoRoute /\ cable' = FALSE /\ wait' = 5
  /\ UNCHANGED <<action, paused, unseen, pointerId, pressed, latest>>

Visible ==
  /\ unseen' = ~unseen
  /\ UNCHANGED <<action, paused, pointerId, pressed, latest, left, wait, cable>>

MiniNext ==
  \/ frame \/ keydown \/ Pause \/ resize \/ Visible
  \/ \E p \in Pointers : pointerdown(p) \/ PointerEnds(p)

MiniSpec == MiniInit /\ [][MiniNext]_miniVars

-----------------------------------------------------------------------------
(* Pointers come and go in any order, keys and resizes break in: he is     *)
(* held by the pointer that took him last, until that one ends and no      *)
(* longer, whichever others end meanwhile; never on a route while he is    *)
(* held, arrives before he chooses again, and hangs on the cable only      *)
(* while he rides it.                                                      *)
HeldOrOnHisWay ==
  /\ pointerId = latest
  /\ dragging => pointerId \in pressed /\ left = NoRoute
  /\ left # NoRoute => action \in Moving /\ left < wait
  /\ cable => action = "zipline" /\ left # NoRoute
=============================================================================
