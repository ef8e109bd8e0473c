---------------------------- MODULE NodeLifecycle ----------------------------
(***************************************************************************)
(* The daemon from main to exit: the node's threads, its signal handler    *)
(* and the HTTP server, and the few words they share.                      *)
(*                                                                         *)
(* The handler of SIGINT and SIGTERM runs Node::stop on the main thread,   *)
(* which stands still meanwhile; the other threads do not.  ~Node runs the *)
(* same stop.  What stop does is split where another thread can look.      *)
(*                                                                         *)
(* Of the Electrum server it only matters whether it is up: then it        *)
(* accepts a connection and answers; one that accepts and stays silent,    *)
(* which connect would wait for in recv without a time-out, is left out.   *)
(***************************************************************************)
EXTENDS Naturals, FiniteSets

CONSTANTS
  MAX_RECONNECT_ATTEMPTS,
  Connections,     \* TCP connections remotes make to the listen port
  MaxSignals,      \* bounds of the model: signals, and times the
  MaxOutages       \* Electrum server goes down or comes up

ASSUME LifecycleAssumption ==
  /\ MAX_RECONNECT_ATTEMPTS \in Nat \ {0}
  /\ MaxSignals \in Nat /\ MaxOutages \in Nat
  /\ IsFiniteSet(Connections)

VARIABLES
  main,          \* where the main thread is
  attempts,      \* connectToElectrum's counter
  stopping,      \* the next statement of a stop() in progress, or "no"
  running,       \* Node::running_
  listenFd,      \* Node::listenFd_ is valid
  listening,     \* the kernel has the socket open
  electrumFd,    \* ElectrumClient::fd_ is valid
  link,          \* the connection behind it is alive
  serverUp,
  mainLoop, acceptLoop,
  shake,         \* handshake threads, by connection
  peers,         \* Node::peers_
  http,          \* the HTTP server's thread
  httpRunning, httpListening,
  signals, outages,
  heeded,        \* history: a stop() found the node running
  aborted        \* the process died of a descriptor select cannot take

nodeVars == <<running, listenFd, listening, electrumFd, link>>
threadVars == <<mainLoop, acceptLoop, shake, peers>>
httpVars == <<http, httpRunning, httpListening>>
worldVars == <<serverUp, signals, outages>>
histVars == <<heeded, aborted>>
vars == <<main, attempts, stopping, nodeVars, threadVars, httpVars, worldVars, histVars>>

Init ==
  /\ main = "httpStart" /\ attempts = 0 /\ stopping = "no"
  /\ running = FALSE /\ listenFd = FALSE /\ listening = FALSE
  /\ electrumFd = FALSE /\ link = FALSE
  /\ serverUp \in BOOLEAN
  /\ mainLoop = "none" /\ acceptLoop = "none"
  /\ shake = [c \in Connections |-> "none"] /\ peers = {}
  /\ http = "none" /\ httpRunning = FALSE /\ httpListening = FALSE
  /\ signals = 0 /\ outages = 0
  /\ heeded = FALSE /\ aborted = FALSE

(* The process is there.                                                   *)
Alive == main # "exited" /\ ~aborted
(* The main thread is in main's code and not in the handler.               *)
Main(at) == main = at /\ stopping = "no" /\ Alive

-----------------------------------------------------------------------------
(* HttpServer::start; if its port is taken, main returns.                  *)
HttpStart ==
  /\ Main("httpStart")
  /\ \/ /\ main' = "start"
        /\ http' = "check" /\ httpRunning' = TRUE /\ httpListening' = TRUE
     \/ /\ main' = "destroy" /\ UNCHANGED httpVars
  /\ UNCHANGED <<attempts, stopping, nodeVars, threadVars, worldVars, histVars>>

(* Node::start, with or without electrum_enabled.                          *)
Start ==
  /\ Main("start") /\ ~running
  /\ running' = TRUE
  /\ main' \in {"connect", "listen"}
  /\ UNCHANGED <<attempts, stopping, listenFd, listening, electrumFd, link,
                 threadVars, httpVars, worldVars, histVars>>

(* One turn of connectToElectrum, with its sleep.                          *)
connectToElectrum ==
  /\ Main("connect")
  /\ IF serverUp \/ electrumFd
       THEN /\ electrumFd' = TRUE /\ link' = (serverUp \/ link)
            /\ main' = "listen" /\ UNCHANGED attempts
       ELSE /\ attempts' = attempts + 1
            /\ main' = IF attempts + 1 < MAX_RECONNECT_ATTEMPTS THEN "connect" ELSE "listen"
            /\ UNCHANGED <<electrumFd, link>>
  /\ UNCHANGED <<stopping, running, listenFd, listening, threadVars, httpVars,
                 worldVars, histVars>>

(* socket, bind or listen may fail; the node then runs without peers.      *)
startListening ==
  /\ Main("listen")
  /\ main' = "spawn"
  /\ \/ listenFd' = TRUE /\ listening' = TRUE /\ acceptLoop' = "check"
     \/ UNCHANGED <<listenFd, listening, acceptLoop>>
  /\ UNCHANGED <<attempts, stopping, running, electrumFd, link, mainLoop, shake,
                 peers, httpVars, worldVars, histVars>>

SpawnMainLoop ==
  /\ Main("spawn")
  /\ mainLoop' = "check" /\ main' = "join"
  /\ UNCHANGED <<attempts, stopping, nodeVars, acceptLoop, shake, peers, httpVars,
                 worldVars, histVars>>

(* Node::join polls running_.                                              *)
join ==
  /\ Main("join") /\ ~running
  /\ main' = "httpStop"
  /\ UNCHANGED <<attempts, stopping, nodeVars, threadVars, httpVars, worldVars, histVars>>

(* HttpServer::stop: the flag, the socket, the thread.                     *)
HttpStop ==
  /\ Main("httpStop")
  /\ httpRunning' = FALSE /\ main' = "httpClose"
  /\ UNCHANGED <<attempts, stopping, nodeVars, threadVars, http, httpListening,
                 worldVars, histVars>>

(* Mutant of HttpClose: the socket is left open.                           *)
HttpKeepOpen ==
  /\ Main("httpClose")
  /\ main' = "httpJoin"
  /\ UNCHANGED <<attempts, stopping, nodeVars, threadVars, httpVars, worldVars, histVars>>

HttpClose ==
  /\ Main("httpClose")
  /\ httpListening' = FALSE /\ main' = "httpJoin"
  /\ UNCHANGED <<attempts, stopping, nodeVars, threadVars, http, httpRunning,
                 worldVars, histVars>>

(* Mutant of HttpJoin: the thread is detached.                             *)
HttpDetach ==
  /\ Main("httpJoin")
  /\ main' = "destroy"
  /\ UNCHANGED <<attempts, stopping, nodeVars, threadVars, httpVars, worldVars, histVars>>

HttpJoin ==
  /\ Main("httpJoin") /\ http = "ended"
  /\ main' = "destroy"
  /\ UNCHANGED <<attempts, stopping, nodeVars, threadVars, httpVars, worldVars, histVars>>

(* Mutant of DestroyNode: ~Node does not stop.                             *)
DestroyOnly ==
  /\ Main("destroy")
  /\ main' = "exited"
  /\ UNCHANGED <<attempts, stopping, nodeVars, threadVars, httpVars, worldVars, histVars>>

(* g_node is null now.  ~Node: stop, then join, which does not wait.       *)
DestroyNode ==
  /\ Main("destroy")
  /\ main' = "destroying" /\ stopping' = "flag"
  /\ UNCHANGED <<attempts, nodeVars, threadVars, httpVars, worldVars, histVars>>

-----------------------------------------------------------------------------
(* handleSignal, while g_node is set.                                      *)
handleSignal ==
  /\ Alive /\ stopping = "no" /\ signals < MaxSignals
  /\ main \notin {"destroy", "destroying"}
  /\ signals' = signals + 1
  /\ stopping' = "flag"
  /\ UNCHANGED <<main, attempts, nodeVars, threadVars, httpVars, serverUp, outages, histVars>>

(* Mutant of StopFlag: running_ is cleared last.                           *)
StopFlagLate ==
  /\ Alive
  /\ \/ /\ stopping = "flag" /\ stopping' = "late"
        /\ heeded' = (heeded \/ running)
        /\ listening' = FALSE /\ listenFd' = FALSE /\ electrumFd' = FALSE /\ link' = FALSE
        /\ UNCHANGED running
     \/ /\ stopping = "late" /\ stopping' = "done"
        /\ running' = FALSE
        /\ UNCHANGED <<heeded, listening, listenFd, electrumFd, link>>
  /\ UNCHANGED <<main, attempts, threadVars, httpVars, worldVars, aborted>>

StopFlag ==
  /\ Alive /\ stopping = "flag"
  /\ running' = FALSE
  /\ heeded' = (heeded \/ running)
  /\ stopping' = "disconnect"
  /\ UNCHANGED <<main, attempts, listenFd, listening, electrumFd, link, threadVars, httpVars,
                 worldVars, aborted>>

StopDisconnect ==
  /\ Alive /\ stopping = "disconnect"
  /\ electrumFd' = FALSE /\ link' = FALSE
  /\ stopping' = IF listenFd THEN "close" ELSE "done"
  /\ UNCHANGED <<main, attempts, running, listenFd, listening, threadVars, httpVars,
                 worldVars, histVars>>

StopClose ==
  /\ Alive /\ stopping = "close"
  /\ listening' = FALSE /\ stopping' = "reset"
  /\ UNCHANGED <<main, attempts, running, listenFd, electrumFd, link, threadVars, httpVars,
                 worldVars, histVars>>

StopReset ==
  /\ Alive /\ stopping = "reset"
  /\ listenFd' = FALSE /\ stopping' = "done"
  /\ UNCHANGED <<main, attempts, running, listening, electrumFd, link, threadVars, httpVars,
                 worldVars, histVars>>

(* stop returns: to where main was, or to the end of main.                 *)
StopReturn ==
  /\ Alive /\ stopping = "done"
  /\ stopping' = "no"
  /\ main' = IF main = "destroying" THEN "exited" ELSE main
  /\ UNCHANGED <<attempts, nodeVars, threadVars, httpVars, worldVars, histVars>>

stop == StopFlag \/ StopDisconnect \/ StopClose \/ StopReset \/ StopReturn

-----------------------------------------------------------------------------
MainLoopCheck ==
  /\ Alive /\ mainLoop = "check"
  /\ mainLoop' = IF running THEN "update" ELSE "ended"
  /\ UNCHANGED <<main, attempts, stopping, nodeVars, acceptLoop, shake, peers, httpVars,
                 worldVars, histVars>>

(* updateChainState reports and changes nothing: a dead link stays with    *)
(* its descriptor.  Then the sleep.                                        *)
updateChainState ==
  /\ Alive /\ mainLoop = "update"
  /\ mainLoop' = "sleep"
  /\ UNCHANGED <<main, attempts, stopping, nodeVars, acceptLoop, shake, peers, httpVars,
                 worldVars, histVars>>

MainLoopWake ==
  /\ Alive /\ mainLoop = "sleep"
  /\ mainLoop' = "check"
  /\ UNCHANGED <<main, attempts, stopping, nodeVars, acceptLoop, shake, peers, httpVars,
                 worldVars, histVars>>

AcceptCheck ==
  /\ Alive /\ acceptLoop = "check"
  /\ acceptLoop' = IF running /\ listenFd THEN "select" ELSE "ended"
  /\ UNCHANGED <<main, attempts, stopping, nodeVars, mainLoop, shake, peers, httpVars,
                 worldVars, histVars>>

(* FD_SET and select: a time-out or an error, or a connection is there.    *)
(* With the descriptor reset since the check, FD_SET is undefined: a build *)
(* that checks the bound aborts, another goes on to wait for nothing.      *)
Select ==
  /\ Alive /\ acceptLoop = "select"
  /\ acceptLoop' \in (IF listening THEN {"check", "accept"} ELSE {"check"})
  /\ aborted' \in (IF listenFd THEN {FALSE} ELSE BOOLEAN)
  /\ UNCHANGED <<main, attempts, stopping, nodeVars, mainLoop, shake, peers, httpVars,
                 worldVars, heeded>>

(* accept gives a thread of its own to the connection, or fails.           *)
Accept ==
  /\ Alive /\ acceptLoop = "accept"
  /\ acceptLoop' = "check"
  /\ \/ /\ listening
        /\ \E c \in Connections :
             shake[c] = "none" /\ shake' = [shake EXCEPT ![c] = "shaking"]
     \/ UNCHANGED shake
  /\ UNCHANGED <<main, attempts, stopping, nodeVars, mainLoop, peers, httpVars,
                 worldVars, histVars>>

(* doHandshake returns, if it ever does.                                   *)
HandshakeReturns(c) ==
  /\ Alive /\ shake[c] = "shaking"
  /\ shake' = [shake EXCEPT ![c] = "ended"]
  /\ peers' \in {peers, peers \cup {c}}
  /\ UNCHANGED <<main, attempts, stopping, nodeVars, mainLoop, acceptLoop, httpVars,
                 worldVars, histVars>>

-----------------------------------------------------------------------------
(* HttpServer::run.                                                        *)
Http(from, to) ==
  /\ Alive /\ http = from /\ http' = to
  /\ UNCHANGED <<main, attempts, stopping, nodeVars, threadVars, httpRunning, httpListening,
                 worldVars, histVars>>

HttpCheck == Http("check", IF httpRunning THEN "accept" ELSE "ended")
HttpAcceptFails == ~httpListening /\ Http("accept", "check")
HttpServe == Http("serve", "check")

(* What the client does: it connects, then sends a request or goes away.   *)
HttpClient ==
  \/ httpListening /\ Http("accept", "recv")
  \/ Http("recv", "serve") \/ Http("recv", "check")

(* The Electrum server stops, and with it its connections, or starts.      *)
Outage ==
  /\ Alive /\ outages < MaxOutages
  /\ outages' = outages + 1
  /\ serverUp' = ~serverUp
  /\ link' = (link /\ ~serverUp)
  /\ UNCHANGED <<main, attempts, stopping, running, listenFd, listening, electrumFd,
                 threadVars, httpVars, signals, histVars>>

Over == ~Alive /\ UNCHANGED vars

MainThread ==
  \/ HttpStart \/ Start \/ connectToElectrum \/ startListening \/ SpawnMainLoop
  \/ join \/ HttpStop \/ HttpClose \/ HttpJoin \/ DestroyNode
MainLoop == MainLoopCheck \/ updateChainState \/ MainLoopWake
AcceptLoop == AcceptCheck \/ Select \/ Accept
HttpThread == HttpCheck \/ HttpAcceptFails \/ HttpServe

Next ==
  \/ MainThread \/ stop \/ handleSignal
  \/ MainLoop \/ AcceptLoop \/ \E c \in Connections : HandshakeReturns(c)
  \/ HttpThread \/ HttpClient
  \/ Outage \/ Over

Spec == Init /\ [][Next]_vars

(* The kernel runs every thread that can run; sleeps and select's second   *)
(* end.  Nothing is assumed of signals, remotes, clients and servers.      *)
FairSpec ==
  /\ Spec
  /\ WF_vars(MainThread) /\ WF_vars(stop) /\ WF_vars(MainLoop)
  /\ WF_vars(AcceptLoop) /\ WF_vars(HttpThread)

-----------------------------------------------------------------------------
(* The HTTP thread reads the node's state through references: it never     *)
(* answers a request once ~Node has begun.                                 *)
ApiSeesLiveNode ==
  http = "serve" => main \notin {"destroy", "destroying", "exited"}

(* A stop that ran before the listener was opened, or the connection made, *)
(* is made good for by ~Node: listener, connection and HTTP socket are     *)
(* closed when main returns.  Sockets of detached handshakes are not meant. *)
NothingLeftOpen ==
  main = "exited" => ~listening /\ ~listenFd /\ ~electrumFd /\ ~httpListening

(* The loops end because the node stops and for no other reason: while it  *)
(* says it is running, peers are accepted and the chain state is updated.  *)
RunningMeansServing ==
  running => mainLoop # "ended" /\ acceptLoop # "ended"

(* A signal to a running node ends the process, unless a client of the     *)
(* HTTP server keeps its thread in recv for ever.                          *)
HeededSignalEnds ==
  <>heeded /\ []<>(http # "recv") => <>~Alive

(* main.cpp: "Caught signal ..., shutting down...", printed before stop is *)
(* called: after it the process ends, if clients and the kernel go on.     *)
SignalShutsDown ==
  <>(stopping = "flag") /\ []<>(http # "recv") => <>~Alive

(* README.md: the node "will reconnect automatically" when the Electrum    *)
(* server was unavailable for some time.                                   *)
ReconnectsToElectrum ==
  <>[]serverUp /\ []<>running => <>[]link
=============================================================================
