------------------------------ MODULE HomeFeed ------------------------------
(***************************************************************************)
(* The live numbers of the home page.  Two sources that know nothing of    *)
(* each other, the local node's API and mempool.space, are polled by three *)
(* timers and write the same elements; no request has a time-out, so a     *)
(* poll may overlap the one before.  An answer is known by its source:     *)
(* several open requests of one feed look like one.                        *)
(***************************************************************************)
EXTENDS PageScript, Naturals

VARIABLES
  asked,      \* feeds with a request that is not answered
  up,         \* mempool.space answers what it is asked
  word, detail,   \* nodeStatus, nodeStatusDetail
  online, badge,  \* the class of nodeStatus; connectionBadge says CONNECTED
  height, mempool, peers,   \* whose numbers are shown
  blockRows, txRows         \* whose rows the tables show, or what they say instead

words == <<word, detail, online, badge>>
numbers == <<height, mempool, peers>>
feedVars == <<asked, up, words, numbers, blockRows, txRows>>

NodeFeeds == {"status", "blocks", "transactions"}
MinuteFeeds == {"bitcoinData", "bitcoinBlocks"}
Feeds == NodeFeeds \cup MinuteFeeds \cup {"recent"}

FeedInit ==
  /\ asked = Feeds /\ up = FALSE
  /\ word = "OFFLINE" /\ detail = "waiting" /\ online = FALSE /\ badge = FALSE
  /\ height = "none" /\ mempool = "none" /\ peers = "none"
  /\ blockRows = "waiting" /\ txRows = "waiting"

-----------------------------------------------------------------------------
setNodeOnline ==
  word' = "ONLINE" /\ detail' = "responding" /\ online' = TRUE /\ badge' = TRUE

setNodeOffline ==
  word' = "OFFLINE" /\ detail' = "notConnected" /\ online' = FALSE /\ badge' = FALSE

renderNetworkStatus ==
  setNodeOnline /\ height' = "node" /\ peers' = "node" /\ mempool' = "node"

(* An answer of a feed arrives, and is the only thing the step writes to.  *)
Answers(feed) == feed \in asked /\ asked' = asked \ {feed} /\ UNCHANGED up

loadNetworkStatus ==
  /\ Answers("status")
  /\ renderNetworkStatus \/ (setNodeOffline /\ UNCHANGED numbers)
  /\ UNCHANGED <<blockRows, txRows>>

(* Rows of the node, or its empty list; an error leaves what is there.     *)
loadBlocks ==
  /\ Answers("blocks")
  /\ blockRows' \in {"node", "none", blockRows}
  /\ UNCHANGED <<words, numbers, txRows>>

loadTransactions ==
  /\ Answers("transactions")
  /\ txRows' \in {"node", "none", txRows}
  /\ UNCHANGED <<words, numbers, blockRows>>

(* Mutant of loadBitcoinData: the numbers of whichever request is first.   *)
LoadBitcoinHeight ==
  /\ Answers("bitcoinData")
  /\ IF up THEN /\ height' = "bitcoin"
                /\ word' = "LIVE" /\ detail' = "bitcoin"
                /\ UNCHANGED <<mempool, peers>>
     ELSE word' = "DATA OFFLINE" /\ detail' = "unable" /\ UNCHANGED numbers
  /\ UNCHANGED <<online, badge, blockRows, txRows>>

(* Four requests, of which the first failure is the failure of all.        *)
loadBitcoinData ==
  /\ Answers("bitcoinData")
  /\ IF up THEN /\ height' = "bitcoin" /\ mempool' = "bitcoin"
                /\ word' = "LIVE" /\ detail' = "bitcoin"
                /\ UNCHANGED peers
     ELSE word' = "DATA OFFLINE" /\ detail' = "unable" /\ UNCHANGED numbers
  /\ UNCHANGED <<online, badge, blockRows, txRows>>

loadBitcoinBlocks ==
  /\ Answers("bitcoinBlocks")
  /\ blockRows' = IF up THEN "bitcoin" ELSE "unable"
  /\ UNCHANGED <<words, numbers, txRows>>

loadRecentBitcoinTransactions ==
  /\ Answers("recent")
  /\ txRows' = IF up THEN "bitcoin" ELSE "unable"
  /\ UNCHANGED <<words, numbers, blockRows>>

-----------------------------------------------------------------------------
Asks(feeds) ==
  /\ asked' = asked \cup feeds
  /\ UNCHANGED <<up, words, numbers, blockRows, txRows>>

(* Mutant of EveryMinute: a new poll waits for the tables to be filled.    *)
MinuteUnlessUnable ==
  blockRows # "unable" /\ Asks(MinuteFeeds)

refreshDashboard == Asks(NodeFeeds)
EveryMinute == Asks(MinuteFeeds)
EveryHalfMinute == Asks({"recent"})

Outage ==
  /\ up' = ~up
  /\ UNCHANGED <<asked, words, numbers, blockRows, txRows>>

FeedNext ==
  \/ loadNetworkStatus \/ loadBlocks \/ loadTransactions
  \/ loadBitcoinData \/ loadBitcoinBlocks \/ loadRecentBitcoinTransactions
  \/ refreshDashboard \/ EveryMinute \/ EveryHalfMinute \/ Outage

FeedSpec == FeedInit /\ [][FeedNext]_feedVars

(* While the script runs, its timers fire, and what is asked of            *)
(* mempool.space is answered or its connection fails in the end.           *)
FeedFairness ==
  /\ WF_feedVars(script = "feed" /\ EveryMinute)
  /\ WF_feedVars(script = "feed" /\ EveryHalfMinute)
  /\ WF_feedVars(script = "feed" /\ loadBitcoinData)
  /\ WF_feedVars(script = "feed" /\ loadBitcoinBlocks)
  /\ WF_feedVars(script = "feed" /\ loadRecentBitcoinTransactions)

-----------------------------------------------------------------------------
(* Whichever source wrote last, what is written in pairs stays in pairs:   *)
(* the word has the detail that explains it, the colour of the word agrees *)
(* with the badge, and height and mempool are numbers of one network.  No  *)
(* more than that: LIVE, of mempool.space, may stand beside the node's NOT *)
(* CONNECTED badge, and DATA OFFLINE beside its CONNECTED.                 *)
PairsAgree ==
  /\ <<word, detail>> \in {<<"OFFLINE", "waiting">>, <<"OFFLINE", "notConnected">>,
                           <<"ONLINE", "responding">>, <<"LIVE", "bitcoin">>,
                           <<"DATA OFFLINE", "unable">>}
  /\ online <=> badge
  /\ height = mempool

(* After any outage the page comes back by itself: if mempool.space is up  *)
(* for good, its blocks, transactions and numbers are on screen again and  *)
(* again (not always: an answer of the node replaces them for a while).    *)
FeedComesBack ==
  <>[]up => /\ []<>(word = "LIVE" /\ height = "bitcoin")
            /\ []<>(blockRows = "bitcoin") /\ []<>(txRows = "bitcoin")
=============================================================================
