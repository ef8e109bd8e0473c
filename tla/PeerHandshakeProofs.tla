------------------------- MODULE PeerHandshakeProofs -------------------------
(***************************************************************************)
(* Proofs about PeerHandshake, for any heights, with either, both or none  *)
(* of the ends played by other software.                                   *)
(***************************************************************************)
EXTENDS PeerHandshake, TLAPS

(* What an end has received when it stands at a step.                      *)
TakenAt(e) ==
  IF step[e] = 5 THEN 2
  ELSE IF e = "outbound" THEN IF step[e] <= 2 THEN 0 ELSE 1
  ELSE IF step[e] = 1 THEN 0 ELSE 1

(* What it has sent.                                                       *)
SentAt(e) ==
  IF step[e] >= 4 THEN 2
  ELSE IF e = "outbound" THEN IF step[e] = 1 THEN 0 ELSE 1
  ELSE IF step[e] <= 2 THEN 0 ELSE 1

(* The end's position agrees with what it took from its stream.            *)
Position(e) ==
  /\ state[e] = "COMPLETE" <=> step[e] = 5
  /\ taken[e] >= TakenAt(e)
  /\ state[e] # "FAILED" => taken[e] = TakenAt(e)
  /\ TakenAt(e) >= 1 =>
       stream[e][1] = VersionMsg(remoteHeight[e]) /\ remoteHeight[e] # NoHeight
  /\ TakenAt(e) = 2 => taken[e] = 2 /\ stream[e][2] = VerackMsg
  /\ closed[e] => state[e] \in {"COMPLETE", "FAILED"}

(* The other end's stream holds what this end has sent and nothing else.   *)
SentBy(e) ==
  LET s == stream[Other(e)] IN
  /\ Len(s) <= SentAt(e)
  /\ ~cut /\ ~closed[Other(e)] => Len(s) = SentAt(e)
  /\ Len(s) >= 1 => s[1] = VersionMsg(height[e])
  /\ Len(s) = 2 => s[2] = VerackMsg

(* A foreign end has no state of this code.                                *)
ForeignIdle == \A e \in Foreign : state[e] = "IDLE"

IInv ==
  /\ TypeOK
  /\ ForeignIdle
  /\ \A e \in Ends \ Foreign : Position(e) /\ SentBy(e)
  /\ FailsOnlyIfCut

USE HandshakeAssumption

LEMMA Values ==
  /\ VerackMsg \in Messages
  /\ \A h \in Heights \cup {NoHeight} : VersionMsg(h) \in Messages
  /\ \A m \in Messages : m.height \in Heights \cup {NoHeight}
  /\ \A m \in Messages : m.command = "version" => m = VersionMsg(m.height)
  /\ \A m \in Messages : m.command = "verack" => m = VerackMsg
  /\ \A h : VersionMsg(h).command = "version" /\ VersionMsg(h).height = h
  /\ VerackMsg.command = "verack"
BY DEF Messages, VersionMsg, VerackMsg, Message

LEMMA Both ==
  /\ \A e \in Ends : Other(e) \in Ends /\ Other(e) # e /\ Other(Other(e)) = e
  /\ \A e, d \in Ends : d = e \/ d = Other(e)
BY DEF Other, Ends

LEMMA InitIInv == Init => IInv
<1> SUFFICES ASSUME Init PROVE IInv
  OBVIOUS
<1>1. TypeOK
  <2>1. /\ stream \in [Ends -> Seq(Messages)] /\ taken \in [Ends -> Nat]
        /\ \A e \in Ends : taken[e] <= Len(stream[e])
    BY DEF Init
  <2>2. step \in [Ends -> 1..5]
    BY DEF Init
  <2>3. state \in [Ends -> States] /\ remoteHeight \in [Ends -> Heights \cup {NoHeight}]
    BY DEF Init, States
  <2>4. closed \in [Ends -> BOOLEAN] /\ cut \in BOOLEAN
    BY DEF Init
  <2> QED
    BY <2>1, <2>2, <2>3, <2>4 DEF Init, TypeOK
<1>2. ASSUME NEW e \in Ends PROVE Position(e) /\ SentBy(e)
  <2>1. step[e] = 1 /\ TakenAt(e) = 0 /\ SentAt(e) = 0
    BY DEF Init, TakenAt, SentAt
  <2>2. stream[Other(e)] = <<>> /\ taken[e] = 0 /\ state[e] = "IDLE" /\ closed[e] = FALSE
    BY Both DEF Init
  <2> QED
    BY <2>1, <2>2 DEF Position, SentBy
<1>3. FailsOnlyIfCut
  BY DEF Init, FailsOnlyIfCut
<1>4. ForeignIdle
  BY CastAssumption DEF Init, ForeignIdle
<1> QED
  BY <1>1, <1>2, <1>3, <1>4 DEF IInv

-----------------------------------------------------------------------------
(* The step at which an end runs, spelled out.                             *)
LEMMA At ==
  ASSUME TypeOK, NEW e \in Ends, NEW s, Runs(e, s), Position(e)
  PROVE  /\ e \notin Foreign /\ step[e] \in 1..4
         /\ s = "sendVersion" => step[e] = IF e = "outbound" THEN 1 ELSE 2
         /\ s = "recvVersion" => step[e] = IF e = "outbound" THEN 2 ELSE 1
         /\ s = "sendVerack" => step[e] = 3
         /\ s = "recvVerack" => step[e] = 4
         /\ taken[e] = TakenAt(e)
         /\ ~closed[e]
BY DEF Runs, Exchange, TypeOK, Position

(* What a cut leaves of each stream.                                       *)
LEMMA Cutting ==
  ASSUME TypeOK, Cut
  PROVE  \E n \in [Ends -> Nat] :
           /\ \A d \in Ends : n[d] \in taken[d]..Len(stream[d])
           /\ stream' = [d \in Ends |-> SubSeq(stream[d], 1, n[d])]
<1>1. PICK n, k \in 0..(2 + MaxForeign) :
        /\ n \in taken["outbound"]..Len(stream["outbound"])
        /\ k \in taken["inbound"]..Len(stream["inbound"])
        /\ stream' = [e \in Ends |->
                         SubSeq(stream[e], 1, IF e = "outbound" THEN n ELSE k)]
  BY DEF Cut
<1> DEFINE f == [e \in Ends |-> IF e = "outbound" THEN n ELSE k]
<1>2. f \in [Ends -> Nat] /\ \A d \in Ends : f[d] \in taken[d]..Len(stream[d])
  BY <1>1 DEF Ends, TypeOK
<1>3. stream' = [d \in Ends |-> SubSeq(stream[d], 1, f[d])]
  BY <1>1
<1> QED
  BY <1>2, <1>3

LEMMA TypeStep == TypeOK /\ [Next]_vars => TypeOK'
<1> SUFFICES ASSUME TypeOK, [Next]_vars PROVE TypeOK'
  OBVIOUS
<1>0. Foreign' = Foreign
  BY DEF Next, vars, connection
<1>1. ASSUME NEW e \in Ends, NEW m \in Messages, Delivered(e, m), UNCHANGED taken
      PROVE  /\ stream' \in [Ends -> Seq(Messages)]
             /\ taken' \in [Ends -> Nat] /\ \A d \in Ends : taken'[d] <= Len(stream'[d])
  BY <1>1, Both DEF Delivered, TypeOK
<1>2. ASSUME NEW e \in Ends, NEW s, NEW m \in Messages, NEW n \in States, sendMsg(e, s, m, n)
      PROVE  TypeOK'
  <2>1. step[e] # 5
    BY <1>2 DEF sendMsg, Runs, Exchange
  <2>2. /\ stream' \in [Ends -> Seq(Messages)] /\ taken' \in [Ends -> Nat]
        /\ \A d \in Ends : taken'[d] <= Len(stream'[d])
    BY <1>1, <1>2 DEF sendMsg
  <2>3. step' \in [Ends -> 1..5]
    <3>1. step[e] \in 1..5 /\ step \in [Ends -> 1..5]
      BY DEF TypeOK
    <3>2. step' = [step EXCEPT ![e] = step[e] + 1]
      BY <1>2 DEF sendMsg
    <3> QED
      BY <2>1, <3>1, <3>2
  <2>4. state' \in [Ends -> States]
    BY <1>2 DEF sendMsg, TypeOK
  <2> QED
    BY <1>0, <1>2, <2>2, <2>3, <2>4 DEF sendMsg, TypeOK
<1>3. ASSUME NEW e \in Ends, SendVersion(e) \/ SendVerack(e) PROVE TypeOK'
  <2>1. "VERSION_SENT" \in States /\ state[e] \in States
    BY DEF States, TypeOK
  <2>2. VersionMsg(height[e]) \in Messages /\ VerackMsg \in Messages
    BY Values DEF TypeOK
  <2> QED
    BY <1>2, <1>3, <2>1, <2>2 DEF SendVersion, SendVerack
<1>4. ASSUME NEW e \in Ends, SendFails(e) \/ RecvFails(e) PROVE TypeOK'
  <2>1. UNCHANGED <<height, stream, taken, step, remoteHeight, cut>>
    BY <1>4 DEF SendFails, RecvFails, Fail
  <2>2. state' \in [Ends -> States] /\ closed' \in [Ends -> BOOLEAN]
    BY <1>4 DEF SendFails, RecvFails, Fail, TypeOK, States
  <2> QED
    BY <1>0, <2>1, <2>2 DEF TypeOK
<1>5. ASSUME NEW e \in Ends, RecvVersion(e) \/ RecvVerack(e) PROVE TypeOK'
  <2>1. /\ taken' = [taken EXCEPT ![e] = @ + 1]
        /\ taken[e] < Len(stream[e]) /\ Incoming(e) \in Messages
        /\ step[e] # 5
    BY <1>5 DEF RecvVersion, RecvVerack, Receives, Incoming, TypeOK, Runs, Exchange
  <2>2. taken' \in [Ends -> Nat] /\ \A d \in Ends : taken'[d] <= Len(stream[d])
    BY <2>1 DEF TypeOK
  <2>3. UNCHANGED <<height, stream, cut>>
    BY <1>5 DEF RecvVersion, RecvVerack, Fail
  <2>4. step' \in [Ends -> 1..5]
    <3>1. step[e] \in 1..5 /\ step \in [Ends -> 1..5]
      BY DEF TypeOK
    <3>2. step' = step \/ step' = [step EXCEPT ![e] = step[e] + 1]
      BY <1>5 DEF RecvVersion, RecvVerack, Fail
    <3> QED
      BY <2>1, <3>1, <3>2
  <2>7. closed' \in [Ends -> BOOLEAN]
    BY <1>5 DEF RecvVersion, RecvVerack, Fail, TypeOK
  <2>5. state' \in [Ends -> States]
    BY <1>5 DEF RecvVersion, RecvVerack, Fail, TypeOK, States
  <2>6. remoteHeight' \in [Ends -> Heights \cup {NoHeight}]
    <3>1. Incoming(e).height \in Heights \cup {NoHeight}
      BY <2>1, Values
    <3> QED
      BY <1>5, <3>1 DEF RecvVersion, RecvVerack, Fail, TypeOK
  <2> QED
    BY <1>0, <2>2, <2>3, <2>4, <2>5, <2>6, <2>7 DEF TypeOK
<1>6. ASSUME NEW e \in Ends, Drop(e) \/ ForeignClose(e) PROVE TypeOK'
  BY <1>0, <1>6 DEF Drop, ForeignClose, TypeOK
<1>7. ASSUME NEW e \in Ends, NEW m \in Messages, ForeignSend(e, m) PROVE TypeOK'
  BY <1>0, <1>1, <1>7 DEF ForeignSend, TypeOK
<1>8. CASE Cut
  <2>1. PICK n \in [Ends -> Nat] :
          /\ \A d \in Ends : n[d] \in taken[d]..Len(stream[d])
          /\ stream' = [d \in Ends |-> SubSeq(stream[d], 1, n[d])]
    BY <1>8, Cutting
  <2>2. \A d \in Ends : /\ SubSeq(stream[d], 1, n[d]) \in Seq(Messages)
                         /\ Len(SubSeq(stream[d], 1, n[d])) = n[d]
    BY <2>1 DEF TypeOK
  <2> QED
    BY <1>0, <1>8, <2>1, <2>2 DEF Cut, TypeOK
<1>9. CASE Over \/ UNCHANGED vars
  BY <1>0, <1>9 DEF Over, vars, connection, TypeOK
<1> QED
  BY <1>3, <1>4, <1>5, <1>6, <1>7, <1>8, <1>9 DEF Next, doHandshake

-----------------------------------------------------------------------------
(* A step of the other end, or of the network, leaves the position of e:   *)
(* what e has taken stays at the front of its stream.                      *)
LEMMA Untouched ==
  ASSUME TypeOK, TypeOK', NEW e \in Ends, Position(e),
         step'[e] = step[e], state'[e] = state[e], taken'[e] = taken[e],
         remoteHeight'[e] = remoteHeight[e],
         closed'[e] = closed[e] \/ state[e] \in {"COMPLETE", "FAILED"},
         \A i \in 1..taken[e] : stream'[e][i] = stream[e][i]
  PROVE  Position(e)'
BY DEF Position, TakenAt, TypeOK

LEMMA PositionStep ==
  ASSUME TypeOK, TypeOK', Next, NEW e \in Ends \ Foreign, Position(e)
  PROVE  Position(e)'
<1>1. ASSUME NEW d \in Ends, doHandshake(d), d # e PROVE Position(e)'
  <2>1. /\ step'[e] = step[e] /\ state'[e] = state[e] /\ taken'[e] = taken[e]
        /\ remoteHeight'[e] = remoteHeight[e] /\ closed'[e] = closed[e]
    BY <1>1 DEF doHandshake, SendVersion, SendVerack, sendMsg, SendFails, RecvVersion, RecvVerack,
                RecvFails, Receives, Fail, TypeOK
  <2>2. stream' = stream \/ \E m \in Messages : stream'[e] = Append(stream[e], m)
    BY <1>1, Both, Values DEF doHandshake, SendVersion, SendVerack, sendMsg, SendFails,
       RecvVersion, RecvVerack, RecvFails, Fail, Delivered, TypeOK
  <2>3. \A i \in 1..taken[e] : stream'[e][i] = stream[e][i]
    <3>1. /\ stream[e] \in Seq(Messages) /\ taken[e] \in Nat
          /\ Len(stream[e]) \in Nat /\ taken[e] <= Len(stream[e])
      BY DEF TypeOK
    <3> QED
      BY <2>2, <3>1
  <2> QED
    BY <2>1, <2>3, Untouched
<1>2. ASSUME SendVersion(e) \/ SendVerack(e) PROVE Position(e)'
  <2>1. PICK s, m, n : sendMsg(e, s, m, n) /\ s \in {"sendVersion", "sendVerack"}
                       /\ n \notin {"COMPLETE", "FAILED"}
    <3>1. CASE SendVersion(e)
      BY <3>1 DEF SendVersion
    <3>2. CASE SendVerack(e)
      <4>1. state[e] \notin {"COMPLETE", "FAILED"}
        BY <3>2 DEF SendVerack, sendMsg, Runs, Position, TypeOK
      <4> QED
        BY <3>2, <4>1 DEF SendVerack
    <3> QED
      BY <1>2, <3>1, <3>2
  <2>2. stream'[e] = stream[e]
    BY <2>1, Both DEF sendMsg, Delivered, TypeOK
  <2>3. step'[e] = step[e] + 1 /\ state'[e] = n /\ step[e] \in 1..4
    BY <2>1, At DEF sendMsg, TypeOK
  <2>4. TakenAt(e)' = TakenAt(e)
    BY <2>1, <2>3, At DEF sendMsg, TakenAt
  <2> QED
    BY <2>1, <2>2, <2>3, <2>4, At DEF sendMsg, Position
<1>3. ASSUME SendFails(e) \/ RecvFails(e) PROVE Position(e)'
  <2>1. /\ stream' = stream /\ taken' = taken /\ step' = step /\ remoteHeight' = remoteHeight
        /\ state'[e] = "FAILED"
    BY <1>3 DEF SendFails, RecvFails, Fail, TypeOK
  <2>2. step[e] # 5
    BY <1>3 DEF SendFails, RecvFails, Runs, Exchange
  <2> QED
    BY <2>1, <2>2 DEF Position, TakenAt
<1>4. ASSUME RecvVersion(e) PROVE Position(e)'
  <2>1. /\ Runs(e, "recvVersion") /\ taken[e] < Len(stream[e])
        /\ taken'[e] = taken[e] + 1 /\ stream' = stream
    BY <1>4 DEF RecvVersion, Receives, Fail, TypeOK
  <2>2. taken[e] = 0 /\ TakenAt(e) = 0 /\ step[e] \in {1, 2}
    BY <2>1, At DEF TakenAt
  <2>3. Incoming(e) = stream[e][1] /\ Incoming(e) \in Messages
    BY <2>1, <2>2 DEF Incoming, TypeOK
  <2>4. CASE Incoming(e).command = "version" /\ Incoming(e).height # NoHeight
    <3>1. /\ remoteHeight'[e] = Incoming(e).height /\ step'[e] = step[e] + 1
          /\ state'[e] = "VERSION_RECEIVED" /\ closed'[e] = closed[e]
      BY <1>4, <2>4 DEF RecvVersion, TypeOK
    <3>2. TakenAt(e)' = 1
      BY <2>1, <2>2, <3>1, At DEF TakenAt
    <3> QED
      BY <2>1, <2>2, <2>3, <2>4, <3>1, <3>2, Values, At DEF Position
  <2>5. CASE ~(Incoming(e).command = "version" /\ Incoming(e).height # NoHeight)
    <3>1. /\ step' = step /\ remoteHeight' = remoteHeight /\ state'[e] = "FAILED"
      BY <1>4, <2>5 DEF RecvVersion, Fail, TypeOK
    <3>2. TakenAt(e)' = TakenAt(e)
      BY <3>1 DEF TakenAt
    <3> QED
      BY <2>1, <2>2, <3>1, <3>2 DEF Position
  <2> QED
    BY <2>4, <2>5
<1>5. ASSUME RecvVerack(e) PROVE Position(e)'
  <2>1. /\ Runs(e, "recvVerack") /\ taken[e] < Len(stream[e])
        /\ taken'[e] = taken[e] + 1 /\ stream' = stream /\ remoteHeight' = remoteHeight
    BY <1>5 DEF RecvVerack, Receives, Fail, TypeOK
  <2>2. taken[e] = 1 /\ TakenAt(e) = 1 /\ step[e] = 4
    BY <2>1, At DEF TakenAt
  <2>3. Incoming(e) = stream[e][2] /\ Incoming(e) \in Messages
    BY <2>1, <2>2 DEF Incoming, TypeOK
  <2>4. CASE Incoming(e).command = "verack"
    <3>1. step'[e] = 5 /\ state'[e] = "COMPLETE"
      BY <1>5, <2>2, <2>4 DEF RecvVerack, TypeOK
    <3> QED
      BY <2>1, <2>2, <2>3, <2>4, <3>1, Values DEF Position, TakenAt
  <2>5. CASE Incoming(e).command # "verack"
    <3>1. step' = step /\ state'[e] = "FAILED"
      BY <1>5, <2>5 DEF RecvVerack, Fail, TypeOK
    <3>2. TakenAt(e)' = TakenAt(e)
      BY <3>1 DEF TakenAt
    <3> QED
      BY <2>1, <2>2, <3>1, <3>2 DEF Position
  <2> QED
    BY <2>4, <2>5
<1>6. ASSUME NEW d \in Ends, Drop(d) \/ ForeignClose(d) PROVE Position(e)'
  BY <1>6, Untouched DEF Drop, ForeignClose, TypeOK
<1>7. ASSUME NEW d \in Ends, NEW m \in Messages, ForeignSend(d, m) PROVE Position(e)'
  <2>1. \A i \in 1..taken[e] : stream'[e][i] = stream[e][i]
    BY <1>7, Both DEF ForeignSend, Delivered, TypeOK
  <2> QED
    BY <1>7, <2>1, Untouched DEF ForeignSend
<1>8. CASE Cut
  <2>1. \A i \in 1..taken[e] : stream'[e][i] = stream[e][i]
    BY <1>8, Cutting DEF TypeOK
  <2> QED
    BY <1>8, <2>1, Untouched DEF Cut
<1>9. CASE Over
  BY <1>9, Untouched DEF Over, vars, connection
<1> QED
  BY <1>1, <1>2, <1>3, <1>4, <1>5, <1>6, <1>7, <1>8, <1>9 DEF Next, doHandshake
-----------------------------------------------------------------------------
(* What an end sends is in its place, and only it writes that stream.      *)
LEMMA SentByStep ==
  ASSUME TypeOK, TypeOK', Next, NEW e \in Ends \ Foreign, Position(e), SentBy(e)
  PROVE  SentBy(e)'
<1> DEFINE o == Other(e)
<1>0. o \in Ends /\ o # e /\ Other(o) = e /\ stream[o] \in Seq(Messages)
      /\ \A d \in Ends : d = e \/ d = o
  BY Both DEF TypeOK
<1>1. ASSUME stream'[o] = stream[o], step'[e] = step[e], height' = height,
             cut' = cut, closed[o] => closed'[o]
      PROVE  SentBy(e)'
  BY <1>1 DEF SentBy, SentAt, TypeOK
<1>2. ASSUME NEW d \in Ends, doHandshake(d), ~(d = e /\ (SendVersion(e) \/ SendVerack(e))),
             ~(d = e /\ (RecvVersion(e) \/ RecvVerack(e)))
      PROVE  SentBy(e)'
  <2>1. height' = height /\ cut' = cut /\ (closed[o] => closed'[o])
    BY <1>0, <1>2 DEF doHandshake, SendVersion, SendVerack, sendMsg, SendFails, RecvVersion,
       RecvVerack, RecvFails, Fail, TypeOK
  <2>2. stream'[o] = stream[o] /\ step'[e] = step[e]
    <3>1. CASE d = e
      BY <1>2, <3>1 DEF doHandshake, SendFails, RecvFails, Fail
    <3>2. CASE d = o
      <4>1. CASE SendVersion(o) \/ SendVerack(o)
        BY <1>0, <4>1 DEF SendVersion, SendVerack, sendMsg, Delivered, TypeOK
      <4>2. CASE SendFails(o) \/ RecvVersion(o) \/ RecvVerack(o) \/ RecvFails(o)
        BY <1>0, <4>2 DEF SendFails, RecvVersion, RecvVerack, RecvFails, Fail, TypeOK
      <4> QED
        BY <1>2, <3>2, <4>1, <4>2 DEF doHandshake
    <3> QED
      BY <1>0, <3>1, <3>2
  <2> QED
    BY <1>1, <2>1, <2>2
<1>3. ASSUME RecvVersion(e) \/ RecvVerack(e) PROVE SentBy(e)'
  <2>1. /\ stream' = stream /\ height' = height /\ cut' = cut
        /\ closed'[o] = closed[o]
    BY <1>0, <1>3 DEF RecvVersion, RecvVerack, Fail, TypeOK
  <2>2. step'[e] = step[e] \/ step'[e] = step[e] + 1
    BY <1>3 DEF RecvVersion, RecvVerack, Fail, TypeOK
  <2>3. step[e] = IF RecvVerack(e) THEN 4 ELSE IF e = "outbound" THEN 2 ELSE 1
    BY <1>3, At DEF RecvVersion, RecvVerack, Receives
  <2>4. SentAt(e)' = SentAt(e)
    BY <2>2, <2>3 DEF SentAt
  <2> QED
    BY <2>1, <2>4 DEF SentBy
<1>4. ASSUME SendVersion(e) \/ SendVerack(e) PROVE SentBy(e)'
  <2>1. PICK m : /\ m = IF SendVersion(e) THEN VersionMsg(height[e]) ELSE VerackMsg
                 /\ Delivered(e, m) /\ m \in Messages
    BY <1>4, Values DEF SendVersion, SendVerack, sendMsg, TypeOK
  <2>2. /\ step'[e] = step[e] + 1 /\ height' = height /\ cut' = cut /\ ~cut /\ closed' = closed
        /\ step[e] \in 1..4
        /\ SendVersion(e) => step[e] = IF e = "outbound" THEN 1 ELSE 2
        /\ ~SendVersion(e) => step[e] = 3
    BY <1>4, At DEF SendVersion, SendVerack, sendMsg, TypeOK
  <2>3. SentAt(e)' = SentAt(e) + 1 /\ SentAt(e) = (IF SendVersion(e) THEN 0 ELSE 1)
    BY <2>2 DEF SentAt
  <2>4. CASE closed[o]
    BY <2>1, <2>2, <2>3, <2>4, <1>0 DEF Delivered, SentBy
  <2>5. CASE ~closed[o]
    <3>1. Len(stream[o]) = SentAt(e) /\ stream'[o] = Append(stream[o], m)
      BY <1>0, <2>1, <2>2, <2>5 DEF Delivered, SentBy, TypeOK
    <3>2. /\ Len(stream'[o]) = SentAt(e) + 1 /\ stream'[o][SentAt(e) + 1] = m
          /\ \A i \in 1..SentAt(e) : stream'[o][i] = stream[o][i]
      BY <1>0, <2>1, <2>3, <3>1
    <3> QED
      BY <2>1, <2>2, <2>3, <2>5, <3>1, <3>2 DEF SentBy
  <2> QED
    BY <2>4, <2>5
<1>5. ASSUME NEW d \in Ends, Drop(d) \/ ForeignClose(d) PROVE SentBy(e)'
  BY <1>0, <1>1, <1>5 DEF Drop, ForeignClose, TypeOK
<1>6. ASSUME NEW d \in Ends, NEW m \in Messages, ForeignSend(d, m) PROVE SentBy(e)'
  <2>1. d = o
    BY <1>0, <1>6 DEF ForeignSend
  <2>2. stream'[o] = stream[o]
    BY <1>0, <1>6, <2>1 DEF ForeignSend, Delivered, TypeOK
  <2> QED
    BY <1>1, <1>6, <2>2 DEF ForeignSend
<1>7. CASE Cut
  <2>1. PICK n \in Nat : n <= Len(stream[o]) /\ stream'[o] = SubSeq(stream[o], 1, n)
    BY <1>0, <1>7, Cutting DEF TypeOK
  <2>2. Len(stream'[o]) = n /\ \A i \in 1..n : stream'[o][i] = stream[o][i]
    BY <1>0, <2>1
  <2>3. SentAt(e)' = SentAt(e) /\ height' = height /\ cut'
    BY <1>7 DEF Cut, SentAt
  <2>4. Len(stream[o]) \in Nat /\ SentAt(e) \in 0..2
    BY <1>0 DEF SentAt
  <2>5. Len(stream[o]) <= SentAt(e) /\ n <= SentAt(e) /\ (n = 2 => Len(stream[o]) = 2)
    <3>1. Len(stream[o]) <= SentAt(e)
      BY DEF SentBy
    <3>2. PICK l \in Nat, k \in 0..2 : l = Len(stream[o]) /\ k = SentAt(e)
      BY <2>4
    <3>3. l <= k /\ n <= l
      BY <2>1, <3>1, <3>2
    <3>4. l <= k /\ n <= k /\ (n = 2 => l = 2)
      BY <3>3
    <3> QED
      BY <3>2, <3>4
  <2>6. /\ n >= 1 => stream'[o][1] = VersionMsg(height[e])
        /\ n = 2 => stream'[o][2] = VerackMsg
    BY <2>1, <2>2, <2>4, <2>5 DEF SentBy
  <2> QED
    BY <2>2, <2>3, <2>5, <2>6 DEF SentBy
<1>8. CASE Over
  BY <1>0, <1>1, <1>8 DEF Over, vars, connection
<1> QED
  BY <1>2, <1>3, <1>4, <1>5, <1>6, <1>7, <1>8 DEF Next

-----------------------------------------------------------------------------
(* Between two ends of this code: a message that is there is the right     *)
(* one, and an end that is gone has sent all it had to.                    *)
LEMMA CutStep ==
  ASSUME IInv, TypeOK', Next
  PROVE  FailsOnlyIfCut'
<1> SUFFICES ASSUME Foreign = {}, ~cut', NEW e \in Ends, state'[e] = "FAILED"
             PROVE  FALSE
  BY DEF FailsOnlyIfCut, Next
<1> DEFINE o == Other(e)
<1>1. o \in Ends /\ o # e /\ Other(o) = e
      /\ Position(e) /\ SentBy(e) /\ Position(o) /\ SentBy(o) /\ TypeOK
  BY Both DEF IInv
<1>2. ~cut
  BY DEF Next, Cut, doHandshake, SendVersion, SendVerack, sendMsg, SendFails, RecvVersion,
         RecvVerack, RecvFails, Fail, Drop, ForeignClose, ForeignSend, Over, vars, connection
<1>3. state[e] # "FAILED" /\ state[o] # "FAILED"
  BY <1>1, <1>2 DEF IInv, FailsOnlyIfCut
<1>4. SendFails(e) \/ RecvVersion(e) \/ RecvVerack(e) \/ RecvFails(e)
  <2>1. state'[e] # state[e]
    BY <1>3
  <2>2. ASSUME NEW d \in Ends, doHandshake(d), d # e PROVE FALSE
    BY <2>1, <2>2 DEF doHandshake, SendVersion, SendVerack, sendMsg, SendFails, RecvVersion,
       RecvVerack, RecvFails, Fail, TypeOK
  <2>3. ASSUME SendVersion(e) \/ SendVerack(e) PROVE FALSE
    BY <1>1, <1>3, <2>3 DEF SendVersion, SendVerack, sendMsg, TypeOK
  <2>4. ASSUME NEW d \in Ends,
               Drop(d) \/ ForeignClose(d) \/ (\E m \in Messages : ForeignSend(d, m))
        PROVE  FALSE
    BY <2>1, <2>4 DEF Drop, ForeignClose, ForeignSend
  <2>5. ~Cut /\ ~Over
    BY <2>1 DEF Cut, Over, vars, connection
  <2> QED
    BY <2>2, <2>3, <2>4, <2>5 DEF Next, doHandshake
<1>5. /\ ~closed[e] /\ state[e] # "COMPLETE" /\ taken[e] = TakenAt(e)
      /\ Len(stream[e]) = SentAt(o) /\ step[e] \in 1..4
  <2>1. ~closed[e] /\ step[e] \in 1..4 /\ taken[e] = TakenAt(e)
    BY <1>1, <1>4, At DEF SendFails, RecvVersion, RecvVerack, Receives, RecvFails
  <2>2. state[e] # "COMPLETE"
    BY <1>1, <2>1 DEF Position
  <2> QED
    BY <1>1, <1>2, <2>1, <2>2 DEF SentBy
<1>6. ASSUME closed[o] PROVE SentAt(o) = 2 /\ SentAt(e) = 2
  <2>1. state[o] = "COMPLETE" /\ step[o] = 5 /\ TakenAt(o) = 2
    BY <1>1, <1>3, <1>6 DEF Position, TakenAt
  <2>2. taken[o] = 2 /\ taken[o] <= Len(stream[o]) /\ Len(stream[o]) <= SentAt(e)
    BY <1>1, <2>1 DEF Position, SentBy, TypeOK
  <2> QED
    BY <1>1, <2>1, <2>2 DEF SentAt, TypeOK
<1>7. CASE SendFails(e)
  <2>1. closed[o] /\ step[e] <= 3
    BY <1>1, <1>2, <1>7, At DEF SendFails
  <2> QED
    BY <1>5, <1>6, <2>1 DEF SentAt
<1>8. CASE RecvFails(e)
  <2>1. closed[o] /\ taken[e] = Len(stream[e])
    BY <1>2, <1>7, <1>8 DEF RecvFails
  <2> QED
    BY <1>5, <1>6, <2>1 DEF TakenAt
<1>9. CASE RecvVersion(e)
  <2>1. taken[e] = 0 /\ Len(stream[e]) >= 1
    BY <1>1, <1>5, <1>9, At DEF RecvVersion, Receives, TakenAt
  <2>2. Incoming(e) = VersionMsg(height[o]) /\ height[o] \in Heights
    BY <1>1, <2>1 DEF Incoming, SentBy, TypeOK
  <2> QED
    BY <1>1, <1>3, <1>9, <2>2, Values DEF RecvVersion, TypeOK
<1>10. CASE RecvVerack(e)
  <2>1. taken[e] = 1 /\ Len(stream[e]) > 1
    BY <1>1, <1>5, <1>10, At DEF RecvVerack, Receives, TakenAt
  <2>2. Len(stream[e]) = 2 /\ SentAt(o) \in 0..2
    BY <1>5, <2>1 DEF SentAt
  <2>3. Incoming(e) = VerackMsg
    BY <1>1, <2>1, <2>2 DEF Incoming, SentBy
  <2> QED
    BY <1>1, <1>3, <1>10, <2>3, Values DEF RecvVerack, TypeOK
<1> QED
  BY <1>4, <1>7, <1>8, <1>9, <1>10

LEMMA ForeignStep ==
  ASSUME TypeOK, ForeignIdle, [Next]_vars
  PROVE  ForeignIdle'
<1>0. Foreign' = Foreign
  BY DEF Next, vars, connection
<1> SUFFICES ASSUME NEW e \in Foreign PROVE state'[e] = state[e]
  BY <1>0 DEF ForeignIdle
<1>2. e \in Ends
  BY CastAssumption DEF TypeOK
<1>1. ASSUME NEW d \in Ends, doHandshake(d) PROVE state'[e] = state[e]
  <2>1. d # e
    BY <1>1 DEF doHandshake, SendVersion, SendVerack, sendMsg, SendFails, RecvVersion,
       RecvVerack, RecvFails, Receives, Runs
  <2> QED
    BY <1>1, <1>2, <2>1 DEF doHandshake, SendVersion, SendVerack, sendMsg, SendFails, RecvVersion,
       RecvVerack, RecvFails, Fail, TypeOK
<1> QED
  BY <1>1 DEF Next, Drop, ForeignClose, ForeignSend, Cut, Over, vars, connection

LEMMA Step == IInv /\ [Next]_vars => IInv'
<1> SUFFICES ASSUME IInv, [Next]_vars PROVE IInv'
  OBVIOUS
<1>0. Foreign' = Foreign
  BY DEF Next, vars, connection
<1>1. TypeOK' /\ ForeignIdle'
  BY TypeStep, ForeignStep DEF IInv
<1>2. CASE Next
  <2>1. ASSUME NEW e \in Ends \ Foreign PROVE Position(e)' /\ SentBy(e)'
    BY <1>1, <1>2, PositionStep, SentByStep DEF IInv
  <2> QED
    BY <1>0, <1>1, <1>2, <2>1, CutStep DEF IInv
<1>3. CASE UNCHANGED vars
  <2>1. ASSUME NEW e \in Ends \ Foreign PROVE Position(e)' /\ SentBy(e)'
    BY <1>3 DEF vars, connection, IInv, Position, SentBy, TakenAt, SentAt
  <2> QED
    BY <1>0, <1>1, <1>3, <2>1 DEF vars, connection, IInv, FailsOnlyIfCut
<1> QED
  BY <1>2, <1>3

LEMMA Invariance == Spec => []IInv
<1>1. Init => IInv
  BY InitIInv
<1>2. IInv /\ [Next]_vars => IInv'
  BY Step
<1> QED
  BY <1>1, <1>2, PTL DEF Spec

-----------------------------------------------------------------------------
(* Type correctness of both ends, their streams and positions.             *)
THEOREM Typing == Spec => []TypeOK
<1>1. IInv => TypeOK
  BY DEF IInv
<1> QED
  BY <1>1, Invariance, PTL

(* Two ends of this code never refuse each other's messages.               *)
THEOREM NoRefusal == Spec => []FailsOnlyIfCut
<1>1. IInv => FailsOnlyIfCut
  BY DEF IInv
<1> QED
  BY <1>1, Invariance, PTL

(* Whatever the remote sends, a handshake completes only on its version    *)
(* and its verack.                                                         *)
THEOREM Greeted == Spec => []CompleteMeansGreeted
<1>1. ASSUME IInv PROVE CompleteMeansGreeted
  <2> SUFFICES ASSUME NEW e \in Ends, state[e] = "COMPLETE"
               PROVE  /\ taken[e] = 2
                      /\ stream[e][1] = VersionMsg(remoteHeight[e])
                      /\ remoteHeight[e] # NoHeight
                      /\ stream[e][2] = VerackMsg
    BY DEF CompleteMeansGreeted
  <2>1. Position(e)
    BY <1>1 DEF IInv, ForeignIdle
  <2>2. TakenAt(e) = 2
    BY <2>1 DEF Position, TakenAt
  <2> QED
    BY <2>1, <2>2 DEF Position
<1> QED
  BY <1>1, Invariance, PTL

(* Two ends of this code that complete agree on both heights.              *)
THEOREM BothKnow == Spec => []Agreement
<1>1. ASSUME IInv PROVE Agreement
  <2> SUFFICES ASSUME Foreign = {}, NEW e \in Ends, state[e] = "COMPLETE"
               PROVE  /\ remoteHeight[e] = height[Other(e)]
                      /\ remoteHeight[Other(e)] = height[e]
    BY DEF Agreement
  <2> DEFINE o == Other(e)
  <2>1. o \in Ends /\ Other(o) = e /\ TypeOK
        /\ Position(e) /\ SentBy(e) /\ Position(o) /\ SentBy(o)
    BY <1>1, Both DEF IInv
  <2>2. TakenAt(e) = 2 /\ taken[e] = 2
    BY <2>1 DEF Position, TakenAt
  <2>3. Len(stream[e]) >= 2 /\ SentAt(o) >= 2
    BY <2>1, <2>2 DEF TypeOK, SentBy, SentAt
  <2>4. TakenAt(o) >= 1 /\ taken[o] >= 1
    <3>0. step[o] \in 1..5 /\ SentAt(o) >= 2
      BY <2>1, <2>3 DEF TypeOK
    <3>1. step[o] \in 4..5
      BY <3>0 DEF SentAt
    <3>2. TakenAt(o) \in 1..2 /\ taken[o] \in Nat
      BY <2>1, <3>1 DEF TakenAt, TypeOK
    <3> QED
      BY <2>1, <3>2 DEF Position
  <2>5. Len(stream[o]) >= 1
    BY <2>1, <2>4 DEF TypeOK
  <2>6. VersionMsg(remoteHeight[e]) = VersionMsg(height[o])
    BY <2>1, <2>2, <2>3 DEF Position, SentBy
  <2>7. VersionMsg(remoteHeight[o]) = VersionMsg(height[e])
    BY <2>1, <2>4, <2>5 DEF Position, SentBy
  <2> QED
    BY <2>6, <2>7, Values
<1> QED
  BY <1>1, Invariance, PTL

-----------------------------------------------------------------------------
(* The end stands in recvMsg, of a whole connection, with nothing to read. *)
Waits(e) ==
  /\ Runs(e, "recvVersion") \/ Runs(e, "recvVerack")
  /\ taken[e] = Len(stream[e]) /\ ~cut /\ ~closed[Other(e)]

(* What HandshakeEnds rests on: an end that waits, waits for one that is   *)
(* itself in its handshake and does not wait.  So no blocking read of one  *)
(* meets a blocking read of the other, and none outlasts the other's end.  *)
THEOREM NeverBothWait ==
  Spec => [](Foreign = {} =>
               \A e \in Ends : Waits(e) =>
                 state[Other(e)] \notin {"COMPLETE", "FAILED"} /\ ~Waits(Other(e)))
<1>1. ASSUME IInv, Foreign = {}, NEW e \in Ends, Waits(e)
      PROVE  state[Other(e)] \notin {"COMPLETE", "FAILED"} /\ ~Waits(Other(e))
  <2> DEFINE o == Other(e)
  <2>1. o \in Ends /\ o # e /\ Other(o) = e /\ TypeOK
        /\ Position(e) /\ SentBy(e) /\ Position(o) /\ SentBy(o)
    BY <1>1, Both DEF IInv
  <2>2. /\ step[e] = (IF e = "outbound" THEN 2 ELSE 1) \/ step[e] = 4
        /\ taken[e] = TakenAt(e) /\ ~closed[e] /\ ~closed[o] /\ ~cut
        /\ SentAt(o) = taken[e]
    BY <1>1, <2>1, At DEF Waits, SentBy, TypeOK
  <2>3. step[o] \in 1..5 /\ taken[o] <= SentAt(e) /\ taken[o] >= TakenAt(o)
    BY <2>1, <2>2 DEF TypeOK, SentBy, Position
  <2>4. state[o] # "FAILED"
    BY <1>1, <2>1, <2>2 DEF IInv, FailsOnlyIfCut
  <2>5. step[o] # 5
    BY <2>2, <2>3 DEF TakenAt, SentAt, Ends
  <2>6. ~Waits(o)
    <3>1. ASSUME Waits(o) PROVE FALSE
      <4>1. /\ step[o] = (IF o = "outbound" THEN 2 ELSE 1) \/ step[o] = 4
            /\ taken[o] = TakenAt(o) /\ SentAt(e) = taken[o]
        BY <3>1, <2>1, <2>2, At DEF Waits, SentBy, TypeOK
      <4>2. (e = "outbound" /\ o = "inbound") \/ (e = "inbound" /\ o = "outbound")
        BY <2>1 DEF Ends
      <4> QED
        BY <4>1, <4>2, <2>2 DEF TakenAt, SentAt
    <3> QED
      BY <3>1
  <2> QED
    BY <2>1, <2>4, <2>5, <2>6 DEF Position
<1>2. IInv => (Foreign = {} =>
                 \A e \in Ends : Waits(e) =>
                   state[Other(e)] \notin {"COMPLETE", "FAILED"} /\ ~Waits(Other(e)))
  BY <1>1
<1> QED
  BY <1>2, Invariance, PTL
=============================================================================
