---------------------------- MODULE PeerHandshake ----------------------------
(***************************************************************************)
(* The opening handshake of a P2P connection: the blocking exchange of     *)
(* doHandshake at the end that dialed and at the end that accepted, over   *)
(* one TCP connection.                                                     *)
(*                                                                         *)
(* An end in Foreign is played by other software for as long as the        *)
(* connection lasts: it may send anything, in any order, or nothing, and   *)
(* close at any time.  The connection keeps the order of what is sent;     *)
(* when it breaks, what is on its way may be lost.                         *)
(***************************************************************************)
EXTENDS Naturals, Sequences, SequencesExt

CONSTANTS
  Heights,     \* best heights an end may announce
  NoHeight,    \* nothing learned; the height of a malformed version payload
  Casts,       \* the sets of ends that may be played by other software
  MaxForeign   \* bound of the model: messages a foreign end sends

Ends == {"outbound", "inbound"}
Other(e) == IF e = "outbound" THEN "inbound" ELSE "outbound"

ASSUME HandshakeAssumption == NoHeight \notin Heights /\ MaxForeign \in Nat
ASSUME CastAssumption == Casts \subseteq SUBSET Ends

VARIABLES
  Foreign,       \* ends that do not run this code
  height,        \* what each end announces
  stream,        \* stream[e]: the messages sent to e, in order
  taken,         \* how many of them e has received
  step,          \* position in the exchange
  state,         \* HandshakeState
  remoteHeight,
  closed,        \* the socket of the end is closed
  cut            \* the connection is broken

connection == <<height, stream, taken, step, state, remoteHeight, closed, cut>>
vars == <<Foreign, connection>>

-----------------------------------------------------------------------------
(* What recvMsg can make of the bytes: a message of some command, or bytes *)
(* it refuses (magic, length or checksum).                                 *)
Message(c, h) == [command |-> c, height |-> h]
VersionMsg(h) == Message("version", h)
VerackMsg == Message("verack", NoHeight)
Messages == {VersionMsg(h) : h \in Heights \cup {NoHeight}} \cup
            {Message(c, NoHeight) : c \in {"verack", "other", "refused"}}

States == {"IDLE", "VERSION_SENT", "VERSION_RECEIVED", "COMPLETE", "FAILED"}

(* Mutants of Exchange: the accepting end answers before it has listened;  *)
(* it sends its verack before its version; the dialing end waits as well.  *)
EagerExchange(e) ==
  IF e = "outbound" THEN <<"sendVersion", "recvVersion", "sendVerack", "recvVerack">>
                    ELSE <<"sendVersion", "sendVerack", "recvVersion", "recvVerack">>
SwappedExchange(e) ==
  IF e = "outbound" THEN <<"sendVersion", "recvVersion", "sendVerack", "recvVerack">>
                    ELSE <<"recvVersion", "sendVerack", "sendVersion", "recvVerack">>
PoliteExchange(e) == <<"recvVersion", "sendVersion", "sendVerack", "recvVerack">>

(* The order of doHandshake's two branches.                                *)
Exchange(e) ==
  IF e = "outbound" THEN <<"sendVersion", "recvVersion", "sendVerack", "recvVerack">>
                    ELSE <<"recvVersion", "sendVersion", "sendVerack", "recvVerack">>

Init ==
  /\ Foreign \in Casts
  /\ height \in [Ends -> Heights]
  /\ stream = [e \in Ends |-> <<>>]
  /\ taken = [e \in Ends |-> 0]
  /\ step = [e \in Ends |-> 1]
  /\ state = [e \in Ends |-> "IDLE"]
  /\ remoteHeight = [e \in Ends |-> NoHeight]
  /\ closed = [e \in Ends |-> FALSE]
  /\ cut = FALSE

Runs(e, s) ==
  /\ e \notin Foreign /\ state[e] # "FAILED" /\ step[e] <= 4
  /\ Exchange(e)[step[e]] = s

-----------------------------------------------------------------------------
(* doHandshake returns false: its caller destroys the Peer, which closes   *)
(* the socket.                                                             *)
Fail(e) ==
  /\ state' = [state EXCEPT ![e] = "FAILED"]
  /\ closed' = [closed EXCEPT ![e] = TRUE]
  /\ UNCHANGED <<height, stream, step, remoteHeight, cut>>

(* sendMsg to an end that is closed may still succeed, into the void.      *)
Delivered(e, m) ==
  stream' = IF closed[Other(e)] THEN stream
            ELSE [stream EXCEPT ![Other(e)] = Append(@, m)]

sendMsg(e, s, m, next) ==
  /\ Runs(e, s) /\ ~cut
  /\ Delivered(e, m)
  /\ step' = [step EXCEPT ![e] = @ + 1]
  /\ state' = [state EXCEPT ![e] = next]
  /\ UNCHANGED <<height, taken, remoteHeight, closed, cut>>

SendVersion(e) == sendMsg(e, "sendVersion", VersionMsg(height[e]), "VERSION_SENT")
SendVerack(e) == sendMsg(e, "sendVerack", VerackMsg, state[e])

SendFails(e) ==
  /\ Runs(e, "sendVersion") \/ Runs(e, "sendVerack")
  /\ cut \/ closed[Other(e)]
  /\ Fail(e) /\ UNCHANGED taken

(* recvMsg blocks until a message is there.                                *)
Receives(e, s) ==
  /\ Runs(e, s) /\ taken[e] < Len(stream[e])
  /\ taken' = [taken EXCEPT ![e] = @ + 1]

Incoming(e) == stream[e][taken[e] + 1]

(* Mutant of RecvVersion: the command is not compared.                     *)
RecvAnyVersion(e) ==
  /\ Receives(e, "recvVersion")
  /\ IF Incoming(e).command # "refused"
       THEN /\ remoteHeight' = [remoteHeight EXCEPT ![e] = Incoming(e).height]
            /\ step' = [step EXCEPT ![e] = @ + 1]
            /\ state' = [state EXCEPT ![e] = "VERSION_RECEIVED"]
            /\ UNCHANGED <<height, stream, closed, cut>>
       ELSE Fail(e)

(* A version whose payload parses; anything else ends the handshake.       *)
RecvVersion(e) ==
  /\ Receives(e, "recvVersion")
  /\ IF Incoming(e).command = "version" /\ Incoming(e).height # NoHeight
       THEN /\ remoteHeight' = [remoteHeight EXCEPT ![e] = Incoming(e).height]
            /\ step' = [step EXCEPT ![e] = @ + 1]
            /\ state' = [state EXCEPT ![e] = "VERSION_RECEIVED"]
            /\ UNCHANGED <<height, stream, closed, cut>>
       ELSE Fail(e)

RecvVerack(e) ==
  /\ Receives(e, "recvVerack")
  /\ IF Incoming(e).command = "verack"
       THEN /\ step' = [step EXCEPT ![e] = @ + 1]
            /\ state' = [state EXCEPT ![e] = "COMPLETE"]
            /\ UNCHANGED <<height, stream, remoteHeight, closed, cut>>
       ELSE Fail(e)

(* End of stream or an error.                                              *)
RecvFails(e) ==
  /\ Runs(e, "recvVersion") \/ Runs(e, "recvVerack")
  /\ taken[e] = Len(stream[e])
  /\ cut \/ closed[Other(e)]
  /\ Fail(e) /\ UNCHANGED taken

doHandshake(e) ==
  SendVersion(e) \/ SendVerack(e) \/ SendFails(e)
    \/ RecvVersion(e) \/ RecvVerack(e) \/ RecvFails(e)

-----------------------------------------------------------------------------
(* The owner of a complete Peer destroys it.                               *)
Drop(e) ==
  /\ e \notin Foreign /\ state[e] = "COMPLETE" /\ ~closed[e]
  /\ closed' = [closed EXCEPT ![e] = TRUE]
  /\ UNCHANGED <<height, stream, taken, step, state, remoteHeight, cut>>

(* The network breaks the connection: what was not received may be lost.   *)
Cut ==
  /\ ~cut
  /\ cut' = TRUE
  /\ \E n, k \in 0..(2 + MaxForeign) :
       /\ n \in taken["outbound"]..Len(stream["outbound"])
       /\ k \in taken["inbound"]..Len(stream["inbound"])
       /\ stream' = [e \in Ends |->
                       SubSeq(stream[e], 1, IF e = "outbound" THEN n ELSE k)]
  /\ UNCHANGED <<height, taken, step, state, remoteHeight, closed>>

ForeignSend(e, m) ==
  /\ e \in Foreign /\ ~closed[e] /\ ~cut
  /\ Len(stream[Other(e)]) < MaxForeign
  /\ Delivered(e, m)
  /\ UNCHANGED <<height, taken, step, state, remoteHeight, closed, cut>>

ForeignClose(e) ==
  /\ e \in Foreign /\ ~closed[e]
  /\ closed' = [closed EXCEPT ![e] = TRUE]
  /\ UNCHANGED <<height, stream, taken, step, state, remoteHeight, cut>>

(* Both sockets are closed: the connection is over.                        *)
Over == (\A e \in Ends : closed[e]) /\ UNCHANGED connection

Next ==
  /\ UNCHANGED Foreign
  /\ \/ \E e \in Ends :
          \/ doHandshake(e) \/ Drop(e) \/ ForeignClose(e)
          \/ \E m \in Messages : ForeignSend(e, m)
     \/ Cut \/ Over

Spec == Init /\ [][Next]_vars

(* The threads run, and TCP delivers what is sent or reports an error.     *)
FairSpec == Spec /\ \A e \in Ends : WF_connection(doHandshake(e))

-----------------------------------------------------------------------------
TypeOK ==
  /\ Foreign \in Casts
  /\ height \in [Ends -> Heights]
  /\ stream \in [Ends -> Seq(Messages)]
  /\ taken \in [Ends -> Nat]
  /\ \A e \in Ends : taken[e] <= Len(stream[e])
  /\ step \in [Ends -> 1..5]
  /\ state \in [Ends -> States]
  /\ remoteHeight \in [Ends -> Heights \cup {NoHeight}]
  /\ closed \in [Ends -> BOOLEAN]
  /\ cut \in BOOLEAN

(* Between two ends of this code, one that is complete knows the other's   *)
(* height and is known to the other, however the other ended.              *)
Agreement ==
  Foreign = {} =>
    \A e \in Ends : state[e] = "COMPLETE" =>
      /\ remoteHeight[e] = height[Other(e)]
      /\ remoteHeight[Other(e)] = height[e]

(* Nothing but a proper version and then a verack completes a handshake,   *)
(* whatever the remote is, and what is kept is what that version said.     *)
CompleteMeansGreeted ==
  \A e \in Ends : state[e] = "COMPLETE" =>
    /\ taken[e] = 2
    /\ stream[e][1] = VersionMsg(remoteHeight[e]) /\ remoteHeight[e] # NoHeight
    /\ stream[e][2] = VerackMsg

(* Two ends of this code never refuse each other: a handshake between them *)
(* fails only when the connection breaks, not when one end has completed   *)
(* and gone while the other is still at it.                                *)
FailsOnlyIfCut ==
  Foreign = {} =>
    \A e \in Ends : state[e] = "FAILED" => cut

(* The two blocking sequences never wait for each other.                   *)
HandshakeEnds ==
  Foreign = {} => <>(\A e \in Ends : state[e] \in {"COMPLETE", "FAILED"})
=============================================================================
