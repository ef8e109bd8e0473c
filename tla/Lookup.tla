------------------------------- MODULE Lookup -------------------------------
(***************************************************************************)
(* The address and transaction lookup of the home page.  Every search,     *)
(* from the button, the Enter key or a row of the table, takes over from   *)
(* the one before and aborts it; a search that takes 15 seconds aborts     *)
(* itself.  What was aborted still runs to its end, beside its successor.  *)
(***************************************************************************)
EXTENDS PageScript, Naturals

CONSTANT MaxSearches   \* bound of the model: searches on one page

ASSUME LookupAssumption == MaxSearches \in Nat

VARIABLES
  current,   \* bitcoinLookupController: the last search, 0 before the first
  progress,  \* how far each search is
  aborted,   \* signal.aborted of each
  timer,     \* its timeout is set
  result,    \* what txResult shows, and the search it speaks of
  busy       \* aria-busy

lookupVars == <<current, progress, aborted, timer, result, busy>>

Searches == 1..MaxSearches
UnderWay == {"fetch", "body", "parsed"}
Stages == {"none", "over"} \cup UnderWay
Says == {"nothing", "hint", "searching", "panel", "error", "timedOut"}
Result(says, n) == [says |-> says, of |-> n]

LookupInit ==
  /\ current = 0
  /\ progress = [n \in Searches |-> "none"]
  /\ aborted = [n \in Searches |-> FALSE]
  /\ timer = [n \in Searches |-> FALSE]
  /\ result = Result("nothing", 0) /\ busy = FALSE

-----------------------------------------------------------------------------
(* searchBitcoinTransaction, up to its fetch; an input that is neither an  *)
(* address nor a transaction ends there.                                   *)
Search(valid) ==
  LET n == current + 1 IN
  /\ n \in Searches
  /\ current' = n
  /\ aborted' = IF current = 0 THEN aborted ELSE [aborted EXCEPT ![current] = TRUE]
  /\ progress' = [progress EXCEPT ![n] = IF valid THEN "fetch" ELSE "over"]
  /\ timer' = [timer EXCEPT ![n] = valid]
  /\ result' = Result(IF valid THEN "searching" ELSE "hint", n)
  /\ busy' = valid

(* The timeout.                                                            *)
TimeOut(n) ==
  /\ timer[n] /\ timer' = [timer EXCEPT ![n] = FALSE]
  /\ aborted' = [aborted EXCEPT ![n] = TRUE]
  /\ UNCHANGED <<current, progress, result, busy>>

(* The headers, and then the whole body, have come.                        *)
Comes(n, from, to) ==
  /\ progress[n] = from /\ ~aborted[n]
  /\ progress' = [progress EXCEPT ![n] = to]
  /\ UNCHANGED <<current, aborted, timer, result, busy>>

(* Mutant of Responds: the timeout is cleared when the answer begins.      *)
RespondsUntimed(n) ==
  /\ progress[n] = "fetch" /\ ~aborted[n]
  /\ progress' = [progress EXCEPT ![n] = "body"]
  /\ timer' = [timer EXCEPT ![n] = FALSE]
  /\ UNCHANGED <<current, aborted, result, busy>>

Responds(n) == Comes(n, "fetch", "body")
Parses(n) == Comes(n, "body", "parsed")

(* The finally block, and what the search says before it, if anything.     *)
Finally(n) ==
  /\ progress' = [progress EXCEPT ![n] = "over"]
  /\ timer' = [timer EXCEPT ![n] = FALSE]
  /\ busy' = (busy /\ current # n)
  /\ UNCHANGED <<current, aborted>>

(* Mutant of Concludes: what is said is not kept to the last search.       *)
ConcludesAnyway(n, says) == Finally(n) /\ result' = Result(says, n)

Concludes(n, says) ==
  /\ Finally(n)
  /\ result' = IF current = n THEN Result(says, n) ELSE result

(* A bad status, a broken connection, or figures that are not numbers.     *)
Errs(n) == progress[n] \in UnderWay /\ ~aborted[n] /\ Concludes(n, "error")

(* The abort reaches the fetch or the body.                                *)
Aborts(n) == progress[n] \in {"fetch", "body"} /\ aborted[n] /\ Concludes(n, "timedOut")

ShowsResult(n) == progress[n] = "parsed" /\ ~aborted[n] /\ Concludes(n, "panel")

(* An abort after the body: the search ends without a word.                *)
Returns(n) == progress[n] = "parsed" /\ aborted[n] /\ Finally(n) /\ UNCHANGED result

LookupNext ==
  \/ \E valid \in BOOLEAN : Search(valid)
  \/ \E n \in Searches : \/ TimeOut(n) \/ Responds(n) \/ Parses(n) \/ Errs(n)
                         \/ Aborts(n) \/ ShowsResult(n) \/ Returns(n)

LookupSpec == LookupInit /\ [][LookupNext]_lookupVars

(* While the script runs, timers fire and what is aborted or has come goes *)
(* on; the provider is not trusted to answer.                              *)
LookupFairness ==
  /\ WF_lookupVars(script = "lookup" /\ \E n \in Searches : TimeOut(n))
  /\ WF_lookupVars(script = "lookup" /\ \E n \in Searches :
                     Aborts(n) \/ ShowsResult(n) \/ Returns(n))

-----------------------------------------------------------------------------
LookupTypeOK ==
  /\ current \in 0..MaxSearches
  /\ progress \in [Searches -> Stages]
  /\ aborted \in [Searches -> BOOLEAN]
  /\ timer \in [Searches -> BOOLEAN]
  /\ result \in [says : Says, of : 0..MaxSearches]
  /\ busy \in BOOLEAN

(* Searches overtake one another, time out and fail in any order, and the  *)
(* page still speaks of the last one only, and says that it is busy while  *)
(* that one is under way and no longer.                                    *)
LastSearchRules ==
  /\ result.of = current
  /\ busy <=> current # 0 /\ progress[current] \in UnderWay
  /\ busy => result.says = "searching"

(* A provider that never answers does not keep the page busy.              *)
SearchEnds == busy ~> ~busy
=============================================================================
