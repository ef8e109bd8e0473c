----------------------------- MODULE MarketCache -----------------------------
(***************************************************************************)
(* The account server's market quotes: one flight to the upstream service  *)
(* at a time, shared by all who wait for it, and its result kept for a     *)
(* while, good or bad.  Time is in ticks; a fetch that has no answer is    *)
(* aborted when Timeout ticks have passed.                                 *)
(***************************************************************************)
EXTENDS ServerProcess, FiniteSets

CONSTANTS
  Symbols,
  Fresh,     \* 60 seconds in the code
  Timeout    \* 5 seconds

ASSUME MarketAssumption ==
  Fresh \in Nat \ {0} /\ Timeout \in Nat \ {0}

VARIABLES
  priceCache,   \* the quotes with their times, and when they were checked
  flight,       \* pricePromise: what is fetched and since when, or NoFlight
  waiting,      \* the requests that await the promise
  answer,       \* the last quotes that were answered, and when: history
  asked         \* when the upstream was last asked, history

marketVars == <<now, priceCache, flight, waiting, answer, asked>>

Never == -1
(* A quote is the time it came at; Missing is none.                        *)
Missing == Never
Quotes == [Symbols -> Never..MaxTime]
NoQuotes == [s \in Symbols |-> Missing]
NoCache == [quotes |-> NoQuotes, checked |-> Never]
NoFlight == [quotes |-> NoQuotes, open |-> {}, since |-> Never]
NoAnswer == [quotes |-> NoQuotes, at |-> Never]

MarketInit ==
  /\ now = 0
  /\ priceCache = NoCache /\ flight = NoFlight
  /\ waiting = {}
  /\ answer = NoAnswer
  /\ asked = Never

-----------------------------------------------------------------------------
(* Mutant of CacheFresh: a failure is asked again at once.                 *)
CacheFreshIfComplete ==
  /\ priceCache # NoCache /\ now - priceCache.checked < Fresh
  /\ \A s \in Symbols : priceCache.quotes[s] # Missing

CacheFresh == priceCache # NoCache /\ now - priceCache.checked < Fresh

(* GET market: the cache, the flight there is, or a new one, which the     *)
(* model's time must leave room for.                                       *)
market(r) ==
  /\ r \notin waiting /\ now + Timeout <= MaxTime
  /\ IF CacheFresh
       THEN /\ answer' = [quotes |-> priceCache.quotes, at |-> now]
            /\ UNCHANGED <<waiting, flight, asked>>
       ELSE /\ waiting' = waiting \cup {r}
            /\ flight' = IF flight # NoFlight THEN flight
                         ELSE [quotes |-> NoQuotes, open |-> Symbols, since |-> now]
            /\ asked' = flight'.since
            /\ UNCHANGED answer
  /\ UNCHANGED <<now, priceCache>>

(* One symbol's fetch ends: with a proper quote, or without one.           *)
Quoted(s) ==
  /\ s \in flight.open
  /\ flight' = [flight EXCEPT !.open = @ \ {s}, !.quotes[s] = now]
  /\ UNCHANGED <<now, priceCache, waiting, answer, asked>>

(* Mutant of Unquoted: the quote of the last flight is kept on.            *)
UnquotedKept(s) ==
  /\ s \in flight.open
  /\ flight' = [flight EXCEPT !.open = @ \ {s}, !.quotes[s] = priceCache.quotes[s]]
  /\ UNCHANGED <<now, priceCache, waiting, answer, asked>>

Unquoted(s) ==
  /\ s \in flight.open
  /\ flight' = [flight EXCEPT !.open = @ \ {s}]
  /\ UNCHANGED <<now, priceCache, waiting, answer, asked>>

(* All fetches are over: the cache, the end of the promise and all who     *)
(* wait for it run before any other event.                                 *)
Land ==
  /\ flight # NoFlight /\ flight.open = {}
  /\ priceCache' = [quotes |-> flight.quotes, checked |-> now]
  /\ flight' = NoFlight
  /\ answer' = [quotes |-> flight.quotes, at |-> now]
  /\ waiting' = {}
  /\ UNCHANGED <<now, asked>>

(* Mutant of Aborting: there is no AbortSignal.                            *)
NeverAborting == FALSE

Aborting == flight.open # {} /\ now - flight.since >= Timeout

(* Time passes when no timer is due and nothing is left to run.            *)
MarketTick ==
  /\ now < MaxTime /\ ~Aborting
  /\ flight = NoFlight \/ flight.open # {}
  /\ now' = now + 1
  /\ UNCHANGED <<priceCache, flight, waiting, answer, asked>>

(* A client that goes away leaves its handler waiting; a restart does not. *)
MarketRestart ==
  /\ priceCache' = NoCache /\ flight' = NoFlight /\ waiting' = {}
  /\ asked' = Never
  /\ UNCHANGED <<now, answer>>

MarketNext ==
  \/ \E r \in Requests : market(r)
  \/ \E s \in Symbols : Quoted(s) \/ Unquoted(s)
  \/ Land \/ MarketTick \/ MarketRestart

MarketSpec == MarketInit /\ [][MarketNext]_marketVars

-----------------------------------------------------------------------------
(* The upstream is asked at most once in Fresh ticks, though many pages    *)
(* ask for quotes and though the last flight failed.                       *)
AskedSeldom ==
  [][asked' # asked /\ asked' # Never /\ asked # Never => asked' - asked >= Fresh]_marketVars

(* A quote a page is given is young: it came no longer ago than a flight   *)
(* and the life of the cache.                                              *)
QuotesAreYoung ==
  \A s \in Symbols :
    answer.quotes[s] # Missing => answer.at - answer.quotes[s] < Fresh + Timeout

(* Who waits for quotes waits no longer than one flight may take, whatever *)
(* the upstream does.                                                      *)
NobodyWaitsLonger ==
  waiting # {} => now - flight.since <= Timeout
=============================================================================
