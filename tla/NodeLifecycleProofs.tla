-------------------------- MODULE NodeLifecycleProofs --------------------------
(***************************************************************************)
(* The shutdown of the daemon for any number of connections, signals,      *)
(* outages and attempts.  The invariant says, stage by stage of main, what *)
(* can no longer be open or running by then, and what a stop that is under *)
(* way has already done.                                                   *)
(***************************************************************************)
EXTENDS NodeLifecycle, TLAPS

Stages ==
  {"httpStart", "start", "connect", "listen", "spawn", "join",
   "httpStop", "httpClose", "httpJoin", "destroy", "destroying", "exited"}
(* The stages of Node::start and Node::join: the only ones of a running node. *)
Serving == {"connect", "listen", "spawn", "join"}

StagesOK ==
  /\ main \in Stages
  /\ stopping \in {"no", "flag", "disconnect", "close", "reset", "done"}
  /\ mainLoop \in {"none", "check", "update", "sleep", "ended"}
  /\ acceptLoop \in {"none", "check", "select", "accept", "ended"}
  /\ http \in {"none", "check", "accept", "recv", "serve", "ended"}

BitsOK ==
  /\ running \in BOOLEAN /\ listenFd \in BOOLEAN /\ listening \in BOOLEAN
  /\ electrumFd \in BOOLEAN /\ link \in BOOLEAN /\ serverUp \in BOOLEAN
  /\ httpRunning \in BOOLEAN /\ httpListening \in BOOLEAN
  /\ heeded \in BOOLEAN /\ aborted \in BOOLEAN

CountsOK ==
  /\ attempts \in Nat /\ signals \in Nat /\ outages \in Nat

PeersOK ==
  /\ shake \in [Connections -> {"none", "shaking", "ended"}]
  /\ peers \subseteq Connections

LifecycleTypeOK == StagesOK /\ BitsOK /\ CountsOK /\ PeersOK

(* The HTTP server's socket and thread are gone, in this order, before     *)
(* main goes on to destroy the node.                                       *)
HttpOver ==
  /\ main = "httpStart" => http = "none" /\ ~httpListening
  /\ main \in {"httpJoin", "destroy", "destroying", "exited"} => ~httpListening
  /\ main \in {"destroy", "destroying", "exited"} => http \in {"none", "ended"}

(* running_ is set in Start and never again; the loops begin after it and  *)
(* have what they look at until it is cleared.                             *)
LoopsServe ==
  /\ running => main \in Serving /\ stopping \in {"no", "flag"}
  /\ main \in {"httpStart", "start", "connect", "listen"} => acceptLoop = "none"
  /\ main \in {"httpStart", "start", "connect", "listen", "spawn"} => mainLoop = "none"
  /\ running /\ acceptLoop # "none" => listenFd
  /\ heeded => ~running /\ main \notin {"httpStart", "start"}
  /\ RunningMeansServing

(* What ~Node's stop has closed when it comes to its next statement.       *)
StopCloses ==
  /\ listening => listenFd
  /\ stopping \in {"reset", "done"} => ~listening
  /\ main = "destroying" =>
       /\ stopping # "no"
       /\ stopping \in {"close", "reset", "done"} => ~electrumFd
       /\ stopping = "done" => ~listenFd
  /\ NothingLeftOpen

IInv == LifecycleTypeOK /\ HttpOver /\ LoopsServe /\ StopCloses

-----------------------------------------------------------------------------
USE LifecycleAssumption

LEMMA InitIInv == Init => IInv
<1> SUFFICES ASSUME Init PROVE IInv
  OBVIOUS
<1> USE DEF Init
<1>1. StagesOK
  BY DEF StagesOK, Stages
<1>2. BitsOK
  BY DEF BitsOK
<1>3. CountsOK /\ PeersOK
  BY DEF CountsOK, PeersOK
<1>4. HttpOver /\ LoopsServe /\ StopCloses
  BY DEF HttpOver, LoopsServe, Serving, RunningMeansServing, StopCloses, NothingLeftOpen
<1> QED
  BY <1>1, <1>2, <1>3, <1>4 DEF IInv, LifecycleTypeOK

(* main's own thread, up to the end of Node::start.                        *)
LEMMA StartKeeps ==
  ASSUME IInv, HttpStart \/ Start \/ connectToElectrum \/ startListening \/ SpawnMainLoop
  PROVE  IInv'
<1> USE DEF IInv, nodeVars, threadVars, httpVars, worldVars, histVars, Main, Alive,
            HttpStart, Start, connectToElectrum, startListening, SpawnMainLoop
<1>1. LifecycleTypeOK'
  <2> USE DEF LifecycleTypeOK
  <2>1. StagesOK'
    BY DEF StagesOK, Stages
  <2>2. BitsOK'
    <3> USE DEF BitsOK
    <3>1. running' \in BOOLEAN /\ listenFd' \in BOOLEAN /\ listening' \in BOOLEAN
      OBVIOUS
    <3>2. electrumFd' \in BOOLEAN /\ serverUp' \in BOOLEAN
      OBVIOUS
    <3>3. link' \in BOOLEAN
      OBVIOUS
    <3>4. httpRunning' \in BOOLEAN /\ httpListening' \in BOOLEAN
      OBVIOUS
    <3>5. heeded' \in BOOLEAN /\ aborted' \in BOOLEAN
      OBVIOUS
    <3> QED
      BY <3>1, <3>2, <3>3, <3>4, <3>5
  <2>3. CountsOK'
    BY DEF CountsOK
  <2>4. PeersOK'
    BY DEF PeersOK
  <2> QED
    BY <2>1, <2>2, <2>3, <2>4
<1>2. HttpOver'
  BY DEF HttpOver
<1>3. LoopsServe'
  BY DEF LoopsServe, Serving, RunningMeansServing
<1>4. StopCloses'
  BY DEF StopCloses, NothingLeftOpen
<1> QED
  BY <1>1, <1>2, <1>3, <1>4

(* From Node::join to ~Node.                                               *)
LEMMA EndKeeps ==
  ASSUME IInv, join \/ HttpStop \/ HttpClose \/ HttpJoin \/ DestroyNode
  PROVE  IInv'
<1> USE DEF IInv, nodeVars, threadVars, httpVars, worldVars, histVars, Main,
            join, HttpStop, HttpClose, HttpJoin, DestroyNode
<1>1. LifecycleTypeOK'
  <2> USE DEF LifecycleTypeOK
  <2>1. StagesOK'
    BY DEF StagesOK, Stages
  <2>2. BitsOK'
    <3> USE DEF BitsOK
    <3>1. running' \in BOOLEAN /\ listenFd' \in BOOLEAN /\ listening' \in BOOLEAN
      OBVIOUS
    <3>2. electrumFd' \in BOOLEAN /\ serverUp' \in BOOLEAN
      OBVIOUS
    <3>3. link' \in BOOLEAN
      OBVIOUS
    <3>4. httpRunning' \in BOOLEAN /\ httpListening' \in BOOLEAN
      OBVIOUS
    <3>5. heeded' \in BOOLEAN /\ aborted' \in BOOLEAN
      OBVIOUS
    <3> QED
      BY <3>1, <3>2, <3>3, <3>4, <3>5
  <2>3. CountsOK'
    BY DEF CountsOK
  <2>4. PeersOK'
    BY DEF PeersOK
  <2> QED
    BY <2>1, <2>2, <2>3, <2>4
<1>2. HttpOver'
  BY DEF HttpOver
<1>3. LoopsServe'
  BY DEF LoopsServe, Serving, RunningMeansServing
<1>4. StopCloses'
  BY DEF StopCloses, NothingLeftOpen
<1> QED
  BY <1>1, <1>2, <1>3, <1>4

LEMMA StopKeeps ==
  ASSUME IInv, stop \/ handleSignal
  PROVE  IInv'
<1> USE DEF IInv, nodeVars, threadVars, httpVars, worldVars, histVars, Alive, stop,
            StopFlag, StopDisconnect, StopClose, StopReset, StopReturn, handleSignal
<1>1. LifecycleTypeOK'
  <2> USE DEF LifecycleTypeOK
  <2>1. StagesOK'
    BY DEF StagesOK, Stages
  <2>2. BitsOK'
    <3> USE DEF BitsOK
    <3>1. running' \in BOOLEAN /\ listenFd' \in BOOLEAN /\ listening' \in BOOLEAN
      OBVIOUS
    <3>2. electrumFd' \in BOOLEAN /\ serverUp' \in BOOLEAN
      OBVIOUS
    <3>3. link' \in BOOLEAN
      OBVIOUS
    <3>4. httpRunning' \in BOOLEAN /\ httpListening' \in BOOLEAN
      OBVIOUS
    <3>5. heeded' \in BOOLEAN /\ aborted' \in BOOLEAN
      OBVIOUS
    <3> QED
      BY <3>1, <3>2, <3>3, <3>4, <3>5
  <2>3. CountsOK'
    BY DEF CountsOK
  <2>4. PeersOK'
    BY DEF PeersOK
  <2> QED
    BY <2>1, <2>2, <2>3, <2>4
<1>2. HttpOver'
  BY DEF HttpOver
<1>3. LoopsServe'
  BY DEF LoopsServe, Serving, RunningMeansServing, LifecycleTypeOK, BitsOK
<1>4. StopCloses'
  BY DEF StopCloses, NothingLeftOpen, HttpOver
<1> QED
  BY <1>1, <1>2, <1>3, <1>4

LEMMA MainLoopKeeps ==
  ASSUME IInv, MainLoop
  PROVE  IInv'
<1>1. /\ UNCHANGED <<main, attempts, stopping, nodeVars, acceptLoop, shake, peers, httpVars,
                     worldVars, histVars>>
      /\ mainLoop \in {"check", "update", "sleep"}
      /\ mainLoop' \in {"check", "update", "sleep", "ended"}
      /\ mainLoop' = "ended" => ~running
  BY DEF MainLoop, MainLoopCheck, updateChainState, MainLoopWake
<1> USE <1>1 DEF IInv, nodeVars, httpVars, worldVars, histVars
<1>2. LifecycleTypeOK'
  BY DEF LifecycleTypeOK, StagesOK, BitsOK, CountsOK, PeersOK
<1>3. LoopsServe'
  BY DEF LoopsServe, Serving, RunningMeansServing
<1> QED
  BY <1>2, <1>3 DEF HttpOver, StopCloses, NothingLeftOpen

LEMMA AcceptLoopKeeps ==
  ASSUME IInv, AcceptLoop \/ \E c \in Connections : HandshakeReturns(c)
  PROVE  IInv'
<1>1. /\ UNCHANGED <<main, attempts, stopping, nodeVars, mainLoop, httpVars, worldVars, heeded>>
      /\ acceptLoop = "none" <=> acceptLoop' = "none"
      /\ acceptLoop' = "ended" => acceptLoop = "ended" \/ ~running \/ ~listenFd
  BY DEF AcceptLoop, AcceptCheck, Select, Accept, HandshakeReturns, histVars
<1>2. acceptLoop' \in {"none", "check", "select", "accept", "ended"}
  BY DEF AcceptLoop, AcceptCheck, Select, Accept, HandshakeReturns,
         IInv, LifecycleTypeOK, StagesOK
<1>3. aborted' \in BOOLEAN
  BY DEF AcceptLoop, AcceptCheck, Select, Accept, HandshakeReturns, histVars,
         IInv, LifecycleTypeOK, BitsOK
<1>4. PeersOK'
  BY DEF AcceptLoop, AcceptCheck, Select, Accept, HandshakeReturns,
         IInv, LifecycleTypeOK, PeersOK
<1> USE <1>1 DEF IInv, nodeVars, httpVars, worldVars
<1>5. LifecycleTypeOK'
  BY <1>2, <1>3, <1>4 DEF LifecycleTypeOK, StagesOK, BitsOK, CountsOK
<1>6. LoopsServe'
  BY <1>2 DEF LoopsServe, Serving, RunningMeansServing
<1> QED
  BY <1>5, <1>6 DEF HttpOver, StopCloses, NothingLeftOpen

(* The HTTP thread and its clients move only while there is a thread.      *)
LEMMA HttpKeeps ==
  ASSUME IInv, HttpThread \/ HttpClient
  PROVE  IInv'
<1>1. /\ UNCHANGED <<main, attempts, stopping, nodeVars, threadVars, httpRunning, httpListening,
                     worldVars, histVars>>
      /\ http \in {"check", "accept", "recv", "serve"}
      /\ http' \in {"check", "accept", "recv", "serve", "ended"}
  BY DEF HttpThread, HttpCheck, HttpAcceptFails, HttpServe, HttpClient, Http
<1> USE <1>1 DEF IInv, nodeVars, threadVars, worldVars, histVars
<1>2. LifecycleTypeOK'
  BY DEF LifecycleTypeOK, StagesOK, BitsOK, CountsOK, PeersOK
<1>3. HttpOver'
  BY DEF HttpOver
<1> QED
  BY <1>2, <1>3 DEF LoopsServe, RunningMeansServing, StopCloses, NothingLeftOpen

LEMMA OutageKeeps ==
  ASSUME IInv, Outage
  PROVE  IInv'
<1> USE DEF IInv, Outage, threadVars, httpVars, histVars
<1>1. serverUp' \in BOOLEAN /\ link' \in BOOLEAN /\ outages' \in Nat
  BY DEF LifecycleTypeOK, BitsOK, CountsOK
<1>2. LifecycleTypeOK'
  BY <1>1 DEF LifecycleTypeOK, StagesOK, BitsOK, CountsOK, PeersOK
<1> QED
  BY <1>2 DEF HttpOver, LoopsServe, RunningMeansServing, StopCloses, NothingLeftOpen

LEMMA NextIInv == IInv /\ [Next]_vars => IInv'
<1> SUFFICES ASSUME IInv, [Next]_vars PROVE IInv'
  OBVIOUS
<1>1. CASE MainThread
  BY <1>1, StartKeeps, EndKeeps DEF MainThread
<1>2. CASE UNCHANGED vars
  <2> USE <1>2 DEF vars, nodeVars, threadVars, httpVars, worldVars, histVars, IInv
  <2>1. LifecycleTypeOK'
    BY DEF LifecycleTypeOK, StagesOK, BitsOK, CountsOK, PeersOK
  <2> QED
    BY <2>1 DEF HttpOver, LoopsServe, RunningMeansServing, StopCloses, NothingLeftOpen
<1> QED
  BY <1>1, <1>2, StopKeeps, MainLoopKeeps, AcceptLoopKeeps, HttpKeeps, OutageKeeps
     DEF Next, Over

LEMMA Invariance == Spec => []IInv
  BY InitIInv, NextIInv, PTL DEF Spec

-----------------------------------------------------------------------------
(* Every word the threads share keeps its type.                            *)
THEOREM Typing == Spec => []LifecycleTypeOK
  BY Invariance, PTL DEF IInv

(* The HTTP thread answers no request once ~Node has begun, whenever       *)
(* signals come and whatever its clients do.                               *)
THEOREM ApiOutlived == Spec => []ApiSeesLiveNode
<1>1. IInv => ApiSeesLiveNode
  BY DEF IInv, HttpOver, ApiSeesLiveNode
<1> QED
  BY <1>1, Invariance, PTL

(* When main returns, listener, connection and HTTP socket are closed.      *)
THEOREM AllClosed == Spec => []NothingLeftOpen
  BY Invariance, PTL DEF IInv, StopCloses

(* A running node serves: its loops end for a stop and for nothing else.   *)
THEOREM LoopsEndOnStop == Spec => []RunningMeansServing
  BY Invariance, PTL DEF IInv, LoopsServe

(* A stop that found the node running is final: no store of running_ comes *)
(* after it.  (One that came before Start is the signal that is lost.)     *)
THEOREM HeededIsFinal == Spec => [](heeded => ~running)
  BY Invariance, PTL DEF IInv, LoopsServe
=============================================================================
