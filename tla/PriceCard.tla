------------------------------ MODULE PriceCard ------------------------------
(***************************************************************************)
(* A price card of the home page.  There are two of them, of Bitcoin and   *)
(* of Ethereum, which share no state and run the same code.  A check is    *)
(* made when the page is loaded or shown again and every minute, never two *)
(* at once and never by a hidden page, and is given up after 12 seconds:   *)
(* the unit of time.  A hidden page's timers may be late, because browsers *)
(* throttle them; those of a visible one are on time.                      *)
(***************************************************************************)
EXTENDS Naturals

VARIABLES
  check,     \* how far the check is, or "idle"
  timeout,   \* time until the check is aborted, NoTimeout when none is set
  poll,      \* time until the interval fires
  hidden,    \* document.hidden
  shown,     \* how long the page has been visible, up to 2
  age,       \* how old the price on the card is, Old when older or none
  offline    \* the class btc-banner--offline

priceVars == <<check, timeout, poll, hidden, shown, age, offline>>

Minute == 5
NoTimeout == 2
Old == Minute + 2
checking == check # "idle"   \* busy

(* A page loaded in the background does not check before it is shown.      *)
PriceInit ==
  /\ hidden \in BOOLEAN /\ shown = 0
  /\ check = IF hidden THEN "idle" ELSE "fetch"
  /\ timeout = IF hidden THEN NoTimeout ELSE 1
  /\ poll = Minute
  /\ age = Old /\ offline = FALSE

-----------------------------------------------------------------------------
(* refreshPrice, up to its fetch.                                          *)
refreshPrice(visible) ==
  IF checking \/ ~visible THEN UNCHANGED <<check, timeout>>
  ELSE check' = "fetch" /\ timeout' = 1

Interval ==
  /\ poll = 0 /\ poll' = Minute
  /\ refreshPrice(~hidden)
  /\ UNCHANGED <<hidden, shown, age, offline>>

PriceVisibility ==
  /\ hidden' = ~hidden /\ shown' = 0
  /\ refreshPrice(hidden)
  /\ UNCHANGED <<poll, age, offline>>

(* Mutant of PriceResponds: the timeout is cleared when the answer begins. *)
PriceUntimed ==
  /\ check = "fetch" /\ check' = "body" /\ timeout' = NoTimeout
  /\ UNCHANGED <<poll, hidden, shown, age, offline>>

(* The headers have come; the body is still awaited.                       *)
PriceResponds ==
  /\ check = "fetch" /\ check' = "body"
  /\ UNCHANGED <<timeout, poll, hidden, shown, age, offline>>

CheckEnds == check' = "idle" /\ timeout' = NoTimeout /\ UNCHANGED <<poll, hidden, shown>>

Checked == check = "body" /\ CheckEnds /\ age' = 0 /\ offline' = FALSE

(* No connection, a bad status, no price in the answer, or the abort at    *)
(* the timeout: a price on the card stays, under the words "Feed offline". *)
CheckFails == checking /\ CheckEnds /\ offline' = TRUE /\ UNCHANGED age

(* Time passes, but not past a timer of a visible page.                    *)
Tick ==
  /\ hidden \/ (timeout # 0 /\ poll # 0)
  /\ timeout' = IF timeout = 1 THEN 0 ELSE timeout
  /\ poll' = IF poll = 0 THEN 0 ELSE poll - 1
  /\ shown' = IF hidden \/ shown = 2 THEN shown ELSE shown + 1
  /\ age' = IF age = Old THEN Old ELSE age + 1
  /\ UNCHANGED <<check, hidden, offline>>

PriceNext ==
  Interval \/ PriceVisibility \/ PriceResponds \/ Checked \/ CheckFails \/ Tick

PriceSpec == PriceInit /\ [][PriceNext]_priceVars

-----------------------------------------------------------------------------
(* On a page that is seen, a price shown as good is at most 72 seconds old *)
(* (a minute between two checks, and the time a check may take), whatever  *)
(* the provider does.  The one exception is the page that comes back from  *)
(* hidden, or is new: until the check this begins, or finds under way, has *)
(* ended, and for 12 seconds at most, it shows what it showed before.      *)
FreshOrOffline ==
  ~hidden => \/ offline
             \/ age <= Minute + 1
             \/ checking /\ shown <= 1
=============================================================================
