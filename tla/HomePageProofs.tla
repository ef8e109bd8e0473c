---------------------------- MODULE HomePageProofs ----------------------------
(***************************************************************************)
(* The scripts of the home page: the Ethereum panel shows answers to the   *)
(* questions it shows them for, the lookup speaks of the last search only, *)
(* both for any number of questions; what the live numbers write in pairs  *)
(* stays in pairs, and a price card says so when its price is not fresh.   *)
(***************************************************************************)
EXTENDS EthereumPanel, Lookup, HomeFeed, PriceCard, SequenceTheorems, TLAPS

(***************************************************************************)
(* The Ethereum panel, for any number of refreshes and lookups.  What      *)
(* makes OwnAnswers inductive: an id names one request for good, each      *)
(* method is asked by one flow, Promise.all holds answers to the refresh   *)
(* under way only, and no field is of a refresh to come.                   *)
(***************************************************************************)

(* Who asks what.                                                          *)
Proper(q) ==
  /\ q.method \in Figures => q.flow = "refresh"
  /\ q.method = "balance" => q.flow = "lookup"

PanelIInv ==
  /\ sent \in Seq(RpcRequest)
  /\ \A c \in DOMAIN sent : Proper(sent[c])
  /\ round \in [PanelFlows -> Nat]
  /\ got = [f \in Figures |-> got[f]]
  /\ \A f \in Figures : got[f] # None => got[f] = Asked(f, "refresh", round["refresh"])
  /\ \A f \in Fields : figures[f] # None => figures[f].n \in 0..round["refresh"]
  /\ OwnAnswers

-----------------------------------------------------------------------------
LEMMA Leaves ==
  ASSUME PanelIInv, NEW flow \in PanelFlows, NEW n \in Nat,
         NEW methods \in Seq({"chain", "block", "gas", "balance"}),
         \A i \in 1..Len(methods) : Proper(Asked(methods[i], flow, n)),
         sent' = rpc(flow, n, methods)
  PROVE  /\ sent' \in Seq(RpcRequest)
         /\ \A c \in DOMAIN sent' : Proper(sent'[c])
<1> DEFINE new == [i \in 1..Len(methods) |-> Asked(methods[i], flow, n)]
<1>1. Len(methods) \in Nat /\ \A i \in 1..Len(methods) : methods[i] \in {"chain", "block", "gas", "balance"}
  BY LenProperties, ElementOfSeq
<1>2. \A i \in 1..Len(methods) : Asked(methods[i], flow, n) \in RpcRequest
  BY <1>1 DEF Asked, RpcRequest
<1>3. new \in Seq(RpcRequest)
  BY <1>1, <1>2
<1>4. \A i \in 1..Len(new) : Proper(new[i])
  BY <1>1
<1>5. sent \in Seq(RpcRequest)
  BY DEF PanelIInv
<1>6. \A c \in 1..Len(sent) : Proper(sent[c])
  BY <1>5, LenProperties DEF PanelIInv
<1>7. sent' = sent \o new
  BY DEF rpc
<1> HIDE DEF new
<1>8. /\ sent' \in Seq(RpcRequest) /\ Len(sent') = Len(sent) + Len(new)
      /\ \A i \in 1..(Len(sent) + Len(new)) :
           sent'[i] = IF i <= Len(sent) THEN sent[i] ELSE new[i - Len(sent)]
  BY <1>3, <1>5, <1>7, ConcatProperties
<1>9. ASSUME NEW c \in 1..Len(sent') PROVE Proper(sent'[c])
  <2>1. Len(sent) \in Nat /\ Len(new) \in Nat
    BY <1>3, <1>5, LenProperties
  <2>2. CASE c <= Len(sent)
    BY <2>1, <2>2, <1>6, <1>8
  <2>3. CASE c > Len(sent)
    <3>1. c - Len(sent) \in 1..Len(new) /\ sent'[c] = new[c - Len(sent)]
      BY <2>1, <2>3, <1>8
    <3> QED
      BY <3>1, <1>4
  <2> QED
    BY <2>1, <2>2, <2>3, <1>8
<1>10. DOMAIN sent' = 1..Len(sent')
  BY <1>8, LenProperties
<1> QED
  BY <1>8, <1>9, <1>10

LEMMA PanelInitIInv == PanelInit => PanelIInv
<1> SUFFICES ASSUME PanelInit PROVE PanelIInv
  OBVIOUS
<1>1. <<>> \in Seq(RpcRequest) /\ DOMAIN <<>> = {}
  OBVIOUS
<1> QED
  BY <1>1 DEF PanelInit, PanelIInv, OwnAnswers, Nothing, PanelFlows, Figures, Fields

(* A refresh or a lookup begins, for which nothing has been answered yet.  *)
LEMMA BeginsKeeps ==
  ASSUME PanelIInv, NEW flow \in PanelFlows, NEW limit, Begins(flow, limit),
         IF flow = "refresh" THEN got' = Nothing ELSE got' = got,
         UNCHANGED <<figures, status>>,
         balance' \in {balance, [of |-> 0, answer |-> None]}
  PROVE  PanelIInv'
<1>1. /\ round' = [round EXCEPT ![flow] = @ + 1]
      /\ sent' = rpc(flow, round[flow] + 1, <<"chain">>)
  BY DEF Begins
<1>2. round[flow] + 1 \in Nat /\ round' \in [PanelFlows -> Nat]
      /\ (flow # "refresh" => round'["refresh"] = round["refresh"])
  BY <1>1 DEF PanelIInv, PanelFlows
<1>3. sent' \in Seq(RpcRequest) /\ \A c \in DOMAIN sent' : Proper(sent'[c])
  <2>1. /\ <<"chain">> \in Seq({"chain", "block", "gas", "balance"})
        /\ \A i \in 1..Len(<<"chain">>) : Proper(Asked(<<"chain">>[i], flow, round[flow] + 1))
    BY DEF Proper, Asked, Figures
  <2> QED
    BY <2>1, <1>1, <1>2, Leaves
<1>4. /\ got' = [f \in Figures |-> got'[f]]
      /\ \A f \in Figures : got'[f] # None => got'[f] = Asked(f, "refresh", round'["refresh"])
  BY <1>2 DEF PanelIInv, Nothing
<1>5. OwnAnswers'
  BY DEF PanelIInv, OwnAnswers
<1>6. \A f \in Fields : figures'[f] # None => figures'[f].n \in 0..round'["refresh"]
  <2>1. round["refresh"] \in Nat /\ round'["refresh"] \in {round["refresh"], round["refresh"] + 1}
    BY <1>1, <1>2 DEF PanelIInv, PanelFlows
  <2> QED
    BY <2>1 DEF PanelIInv
<1> QED
  BY <1>2, <1>3, <1>4, <1>5, <1>6 DEF PanelIInv

LEMMA VerifiedKeeps ==
  ASSUME PanelIInv, NEW c \in open, NEW answer \in DOMAIN sent, Verified(c, answer)
  PROVE  PanelIInv'
<1> DEFINE flow == sent[c].flow
           next == IF flow = "refresh" THEN <<"block", "gas">> ELSE <<"balance">>
<1>1. /\ Accepts(c, answer) /\ sent' = rpc(flow, round[flow], next)
      /\ UNCHANGED <<round, got, figures, status, balance>>
  BY DEF Verified
<1>2. flow \in PanelFlows /\ round[flow] \in Nat
  <2>1. sent \in Seq(RpcRequest) /\ c \in 1..Len(sent)
    BY <1>1, LenProperties DEF PanelIInv, Accepts
  <2>2. sent[c] \in RpcRequest
    BY <2>1, ElementOfSeq
  <2> QED
    BY <2>2 DEF PanelIInv, RpcRequest
<1>3. /\ next \in Seq({"chain", "block", "gas", "balance"})
      /\ \A i \in 1..Len(next) : Proper(Asked(next[i], flow, round[flow]))
  <2>1. CASE flow = "refresh"
    BY <2>1 DEF Proper, Asked, Figures
  <2>2. CASE flow # "refresh"
    BY <1>2, <2>2 DEF Proper, Asked, Figures, PanelFlows
  <2> QED
    BY <2>1, <2>2
<1> HIDE DEF flow, next
<1>4. sent' \in Seq(RpcRequest) /\ \A d \in DOMAIN sent' : Proper(sent'[d])
  BY <1>1, <1>2, <1>3, Leaves
<1> QED
  BY <1>1, <1>4 DEF PanelIInv, OwnAnswers

(* The panel is filled from the two answers to the refresh under way, all  *)
(* of it, or its height, or nothing.                                       *)
LEMMA FillKeeps ==
  ASSUME PanelIInv, NEW written \in {{}, {"height"}, Fields}, Fill(written),
         \A f \in Figures : got'[f] # None /\ got'[f] = Asked(f, "refresh", round["refresh"]),
         UNCHANGED <<round, balance>>
  PROVE  /\ OwnAnswers'
         /\ \A f \in Fields : figures'[f] # None => figures'[f].n \in 0..round'["refresh"]
<1> DEFINE r == round["refresh"]
<1>1. r \in Nat
  BY DEF PanelIInv, PanelFlows
<1>2. ASSUME NEW f \in written
      PROVE  figures'[f] # None /\ figures'[f] = Asked(Source(f), "refresh", r) /\ figures'[f].n = r
  <2>1. f \in Fields /\ Source(f) \in Figures
    BY DEF Fields, Source, Figures
  <2>2. figures'[f] = got'[Source(f)]
    BY <2>1 DEF Fill
  <2> QED
    BY <2>1, <2>2 DEF Asked
<1>3. \A f \in Fields \ written : figures'[f] = figures[f]
  BY DEF Fill
<1>4. \A f \in Fields : figures'[f] # None =>
        figures'[f] = Asked(Source(f), "refresh", figures'[f].n) /\ figures'[f].n \in 0..r
  BY <1>1, <1>2, <1>3 DEF PanelIInv, OwnAnswers
<1>5. figures'["gas"] # None =>
        /\ figures'["transactions"] # None /\ figures'["height"] # None
        /\ figures'["transactions"].n = figures'["gas"].n
        /\ figures'["gas"].n <= figures'["height"].n
  <2>1. CASE written = {}
    BY <1>3, <2>1 DEF Fields, PanelIInv, OwnAnswers
  <2>2. CASE written = {"height"}
    BY <1>1, <1>2, <1>3, <2>2 DEF Fields, PanelIInv, OwnAnswers
  <2>3. CASE written = Fields
    BY <1>1, <1>2, <2>3 DEF Fields
  <2> QED
    BY <2>1, <2>2, <2>3
<1>6. status' = "live" => figures'["gas"] # None /\ figures'["height"].n = figures'["gas"].n
  BY <1>2 DEF Fill, Fields
<1>7. round'["refresh"] = r
  OBVIOUS
<1>8. balance'.of # 0 => balance'.answer = Asked("balance", "lookup", balance'.of)
  BY DEF PanelIInv, OwnAnswers
<1> HIDE DEF r
<1>9. OwnAnswers'
  BY <1>4, <1>5, <1>6, <1>8 DEF OwnAnswers
<1> QED
  BY <1>4, <1>7, <1>9

(* What an awaited request of the refresh is given as its answer.          *)
LEMMA FigureKeeps ==
  ASSUME PanelIInv, NEW c \in open, NEW answer \in DOMAIN sent, Figure(c, answer)
  PROVE  PanelIInv'
<1> DEFINE m == sent[c].method
<1>1. /\ answer = c /\ c \in DOMAIN sent /\ m \in Figures /\ Awaited(c)
      /\ got' = [got EXCEPT ![m] = sent[c]]
      /\ UNCHANGED <<sent, round, balance>>
      /\ \/ UNCHANGED <<figures, status>>
         \/ /\ \A f \in Figures : got'[f] # None
            /\ \E written \in {{}, {"height"}, Fields} : Fill(written)
  BY DEF Figure, Accepts
<1>2. sent[c] \in RpcRequest /\ sent[c].flow = "refresh" /\ sent[c].n = round["refresh"]
  BY <1>1, ElementOfSeq DEF PanelIInv, Proper, Awaited
<1>3. sent[c] = Asked(m, "refresh", round["refresh"])
  BY <1>2 DEF RpcRequest, Asked
<1> HIDE DEF m
<1>4. /\ got' = [f \in Figures |-> got'[f]]
      /\ \A f \in Figures : got'[f] # None => got'[f] = Asked(f, "refresh", round'["refresh"])
  BY <1>1, <1>3 DEF PanelIInv
<1>5. /\ OwnAnswers'
      /\ \A f \in Fields : figures'[f] # None => figures'[f].n \in 0..round'["refresh"]
  <2>1. CASE UNCHANGED <<figures, status>>
    BY <2>1, <1>1 DEF PanelIInv, OwnAnswers
  <2>2. ASSUME \A f \in Figures : got'[f] # None, NEW written \in {{}, {"height"}, Fields},
               Fill(written)
        PROVE  /\ OwnAnswers'
               /\ \A f \in Fields : figures'[f] # None => figures'[f].n \in 0..round'["refresh"]
    BY <2>2, <1>1, <1>4, FillKeeps
  <2> QED
    BY <2>1, <2>2, <1>1
<1> QED
  BY <1>1, <1>4, <1>5 DEF PanelIInv

LEMMA BalanceKeeps ==
  ASSUME PanelIInv, NEW c \in open, NEW answer \in DOMAIN sent, Balance(c, answer)
  PROVE  PanelIInv'
<1>1. /\ answer = c /\ c \in DOMAIN sent /\ sent[c].method = "balance"
      /\ balance' = [of |-> sent[c].n, answer |-> sent[c]]
      /\ UNCHANGED <<sent, round, got, figures, status>>
  BY DEF Balance, Accepts
<1>2. sent[c] \in RpcRequest /\ sent[c].flow = "lookup"
  BY <1>1, ElementOfSeq DEF PanelIInv, Proper
<1>3. sent[c] = Asked("balance", "lookup", sent[c].n)
  BY <1>1, <1>2 DEF RpcRequest, Asked
<1> QED
  BY <1>1, <1>3 DEF PanelIInv, OwnAnswers

LEMMA PanelNextIInv == PanelIInv /\ [PanelNext]_panelVars => PanelIInv'
<1> SUFFICES ASSUME PanelIInv, [PanelNext]_panelVars PROVE PanelIInv'
  OBVIOUS
<1>1. CASE refresh
  BY <1>1, BeginsKeeps DEF refresh, PanelFlows
<1>2. ASSUME NEW valid \in BOOLEAN, submit(valid) PROVE PanelIInv'
  <2>1. CASE valid
    BY <1>2, <2>1, BeginsKeeps DEF submit, PanelFlows
  <2>2. CASE ~valid
    BY <1>2, <2>2 DEF submit, PanelIInv, OwnAnswers
  <2> QED
    BY <2>1, <2>2
<1>3. ASSUME NEW c \in open, Leftover(c) \/ FlowFails(c) PROVE PanelIInv'
  BY <1>3 DEF Leftover, FlowFails, PanelIInv, OwnAnswers
<1>4. ASSUME NEW c \in open, NEW answer \in DOMAIN sent,
             Verified(c, answer) \/ Figure(c, answer) \/ Balance(c, answer)
      PROVE  PanelIInv'
  BY <1>4, VerifiedKeeps, FigureKeeps, BalanceKeeps
<1>5. CASE UNCHANGED panelVars
  BY <1>5 DEF panelVars, PanelIInv, OwnAnswers
<1> QED
  BY <1>1, <1>2, <1>3, <1>4, <1>5 DEF PanelNext

(* However the answers come, malformed ones too, and with the requests an  *)
(* earlier refresh left running: every figure answers its own question,    *)
(* all are of one refresh while the panel says LIVE, and only the height   *)
(* may be of a later one when it does not; a balance is of its lookup.     *)
THEOREM ToTheQuestion == PanelSpec => []OwnAnswers
<1>1. PanelIInv => OwnAnswers
  BY DEF PanelIInv
<1> QED
  BY <1>1, PanelInitIInv, PanelNextIInv, PTL DEF PanelSpec

-----------------------------------------------------------------------------
(* The safety half of PanelIsFree.  A request of the flow under way is on  *)
(* its way still.                                                          *)
Pending(flow, method) ==
  \E c \in open \cap DOMAIN sent : sent[c] = Asked(method, flow, round[flow])

FlowWaits ==
  /\ awaits \in [PanelFlows -> {"idle", "chain", "data"}]
  /\ \A f \in PanelFlows : awaits[f] = "chain" => Pending(f, "chain")
  /\ awaits["refresh"] # "idle" => \E f \in Figures : got[f] = None
  /\ awaits["refresh"] = "data" =>
       \A f \in Figures : got[f] = None => Pending("refresh", f)
  /\ awaits["lookup"] = "data" => Pending("lookup", "balance")

(* A request stays pending while its id stays open and its flow in its     *)
(* round.                                                                  *)
LEMMA StaysPending ==
  ASSUME NEW flow, NEW method, Pending(flow, method),
         \A c \in open \cap DOMAIN sent : sent[c] = Asked(method, flow, round[flow]) =>
           c \in open' \cap DOMAIN sent' /\ sent'[c] = sent[c],
         round'[flow] = round[flow]
  PROVE  Pending(flow, method)'
  BY DEF Pending

(* What is sent gets the next ids, and every one is open.                  *)
LEMMA SentIsPending ==
  ASSUME sent \in Seq(RpcRequest), NEW flow \in PanelFlows, NEW n \in Nat, NEW k \in 1..2,
         NEW methods \in Seq({"chain", "block", "gas", "balance"}), Len(methods) = k,
         sent' = rpc(flow, n, methods), n = round'[flow],
         (Len(sent) + 1)..Len(sent') \subseteq open'
  PROVE  /\ Len(sent') = Len(sent) + k
         /\ \A c \in DOMAIN sent : c \in DOMAIN sent' /\ sent'[c] = sent[c]
         /\ \A i \in 1..k : Pending(flow, methods[i])'
<1> DEFINE new == [i \in 1..Len(methods) |-> Asked(methods[i], flow, n)]
<1>0. \A i \in 1..k : Asked(methods[i], flow, n) \in RpcRequest
  <2>1. \A i \in 1..k : methods[i] \in {"chain", "block", "gas", "balance"}
    BY ElementOfSeq
  <2> QED
    BY <2>1 DEF Asked, RpcRequest
<1>1. new \in Seq(RpcRequest) /\ Len(new) = k /\ \A i \in 1..k : new[i] = Asked(methods[i], flow, n)
  BY <1>0
<1>2. sent' = sent \o new
  BY DEF rpc
<1> HIDE DEF new
<1>3. /\ sent' \in Seq(RpcRequest) /\ Len(sent') = Len(sent) + k /\ Len(sent) \in Nat
      /\ \A i \in 1..(Len(sent) + k) :
           sent'[i] = IF i <= Len(sent) THEN sent[i] ELSE new[i - Len(sent)]
  <2>1. /\ sent' \in Seq(RpcRequest) /\ Len(sent') = Len(sent) + Len(new)
        /\ \A i \in 1..(Len(sent) + Len(new)) :
             sent'[i] = IF i <= Len(sent) THEN sent[i] ELSE new[i - Len(sent)]
    <3>1. /\ sent \o new \in Seq(RpcRequest) /\ Len(sent \o new) = Len(sent) + Len(new)
          /\ \A i \in 1..(Len(sent) + Len(new)) :
               (sent \o new)[i] = IF i <= Len(sent) THEN sent[i] ELSE new[i - Len(sent)]
      <4>1. new \in Seq(RpcRequest)
        BY <1>1
      <4> QED
        BY <4>1, ConcatProperties
    <3> QED
      BY <3>1, <1>2
  <2> QED
    BY <2>1, <1>1, LenProperties
<1>4. DOMAIN sent = 1..Len(sent) /\ DOMAIN sent' = 1..(Len(sent) + k)
  BY <1>3, LenProperties
<1>5. ASSUME NEW i \in 1..k PROVE Pending(flow, methods[i])'
  <2>1. Len(sent) + i \in (Len(sent) + 1)..Len(sent') /\ ~(Len(sent) + i <= Len(sent))
        /\ Len(sent) + i - Len(sent) = i /\ Len(sent) + i \in 1..(Len(sent) + k)
    BY <1>3
  <2>2. sent'[Len(sent) + i] = Asked(methods[i], flow, n)
    BY <2>1, <1>1, <1>3
  <2> QED
    BY <2>1, <2>2, <1>3, <1>4 DEF Pending
<1> QED
  BY <1>3, <1>4, <1>5

LEMMA WaitsInit == PanelInit => FlowWaits
  BY DEF PanelInit, FlowWaits, PanelFlows, Figures, Nothing

LEMMA BeginsWaits ==
  ASSUME PanelIInv, FlowWaits, NEW flow \in PanelFlows, NEW limit, Begins(flow, limit),
         IF flow = "refresh" THEN got' = Nothing ELSE got' = got
  PROVE  FlowWaits'
<1>1. /\ round' = [round EXCEPT ![flow] = @ + 1]
      /\ awaits' = [awaits EXCEPT ![flow] = "chain"]
      /\ sent' = rpc(flow, round[flow] + 1, <<"chain">>)
      /\ open' = open \cup {Len(sent')}
  BY DEF Begins
<1>2. round[flow] + 1 \in Nat /\ round'[flow] = round[flow] + 1
      /\ \A f \in PanelFlows \ {flow} : round'[f] = round[f]
  BY <1>1 DEF PanelIInv
<1>3. /\ Len(sent') = Len(sent) + 1
      /\ \A c \in DOMAIN sent : c \in DOMAIN sent' /\ sent'[c] = sent[c]
      /\ Pending(flow, "chain")'
  <2>1. sent \in Seq(RpcRequest) /\ <<"chain">> \in Seq({"chain", "block", "gas", "balance"})
        /\ Len(<<"chain">>) = 1 /\ 1 \in 1..2 /\ 1 \in 1..1 /\ <<"chain">>[1] = "chain"
    BY DEF PanelIInv
  <2>2. Len(sent') = Len(sent) + 1 
    <3>1. [i \in 1..1 |-> Asked(<<"chain">>[i], flow, round[flow] + 1)] \in Seq(RpcRequest)
      BY <1>2 DEF Asked, RpcRequest
    <3> QED
      BY <3>1, <2>1, <1>1, ConcatProperties DEF rpc
  <2>3. (Len(sent) + 1)..Len(sent') \subseteq open'
    BY <2>1, <2>2, <1>1, LenProperties
  <2>4. /\ \A c \in DOMAIN sent : c \in DOMAIN sent' /\ sent'[c] = sent[c]
        /\ \A i \in 1..1 : Pending(flow, <<"chain">>[i])'
    BY <2>1, <2>3, <1>1, <1>2, SentIsPending
  <2> QED
    BY <2>1, <2>2, <2>4
<1>4. ASSUME NEW f \in PanelFlows \ {flow}, NEW method, Pending(f, method)
      PROVE  Pending(f, method)'
  BY <1>1, <1>2, <1>3, <1>4, StaysPending
<1>5. awaits' \in [PanelFlows -> {"idle", "chain", "data"}] /\ awaits'[flow] = "chain"
      /\ \A f \in PanelFlows \ {flow} : awaits'[f] = awaits[f]
  BY <1>1 DEF FlowWaits
<1>6. CASE flow = "refresh"
  BY <1>3, <1>4, <1>5, <1>6 DEF FlowWaits, PanelFlows, Nothing, Figures
<1>7. CASE flow = "lookup"
  BY <1>3, <1>4, <1>5, <1>7 DEF FlowWaits, PanelFlows, Figures
<1> QED
  BY <1>6, <1>7 DEF PanelFlows

LEMMA VerifiedWaits ==
  ASSUME PanelIInv, FlowWaits, NEW c \in open, NEW answer \in DOMAIN sent, Verified(c, answer)
  PROVE  FlowWaits'
<1>1. sent \in Seq(RpcRequest) /\ c \in DOMAIN sent
  BY DEF Verified, Accepts, PanelIInv
<1>2. sent[c] \in RpcRequest /\ round \in [PanelFlows -> Nat]
  BY <1>1, ElementOfSeq DEF PanelIInv
<1>3. PICK flow \in PanelFlows : flow = sent[c].flow
  BY <1>2 DEF RpcRequest
<1>4. round[flow] \in Nat
  BY <1>2
<1>5. /\ c \in DOMAIN sent /\ awaits[flow] # "idle" /\ sent[c].method = "chain"
      /\ sent' = rpc(flow, round[flow], IF flow = "refresh" THEN <<"block", "gas">> ELSE <<"balance">>)
      /\ open' = (open \ {c}) \cup (Len(sent) + 1)..Len(sent')
      /\ awaits' = [awaits EXCEPT ![flow] = "data"]
      /\ UNCHANGED <<round, got>>
  BY <1>3 DEF Verified, Accepts, Awaited
<1>6. (Len(sent) + 1)..Len(sent') \subseteq open' /\ round[flow] = round'[flow]
  BY <1>5
<1>7. ASSUME \A d \in DOMAIN sent : d \in DOMAIN sent' /\ sent'[d] = sent[d],
             NEW f \in PanelFlows \ {flow}, NEW method, Pending(f, method)
      PROVE  Pending(f, method)'
  <2>1. \A d \in open \cap DOMAIN sent : sent[d] = Asked(method, f, round[f]) => d # c
    BY <1>3 DEF Asked
  <2> QED
    BY <1>5, <1>7, <2>1, StaysPending
<1>8. awaits' \in [PanelFlows -> {"idle", "chain", "data"}] /\ awaits'[flow] = "data"
      /\ \A f \in PanelFlows \ {flow} : awaits'[f] = awaits[f]
  BY <1>5, <1>3 DEF FlowWaits
<1>9. CASE flow = "refresh"
  <2> DEFINE next == <<"block", "gas">>
  <2>1. next \in Seq({"chain", "block", "gas", "balance"}) /\ Len(next) = 2
        /\ next[1] = "block" /\ next[2] = "gas" /\ 2 \in 1..2 /\ 1 \in 1..2
    OBVIOUS
  <2>2. sent' = rpc(flow, round[flow], next)
    BY <1>5, <1>9
  <2> HIDE DEF next
  <2>3. /\ \A d \in DOMAIN sent : d \in DOMAIN sent' /\ sent'[d] = sent[d]
        /\ \A i \in 1..2 : Pending(flow, next[i])'
    BY <1>1, <1>4, <1>6, <2>1, <2>2, SentIsPending
  <2>4. Pending("refresh", "block")' /\ Pending("refresh", "gas")'
    BY <1>9, <2>1, <2>3
  <2> QED
    BY <1>5, <1>7, <1>8, <1>9, <2>3, <2>4 DEF FlowWaits, PanelFlows, Figures
<1>10. CASE flow = "lookup"
  <2> DEFINE next == <<"balance">>
  <2>1. next \in Seq({"chain", "block", "gas", "balance"}) /\ Len(next) = 1
        /\ next[1] = "balance" /\ 1 \in 1..2 /\ 1 \in 1..1
    OBVIOUS
  <2>2. sent' = rpc(flow, round[flow], next)
    BY <1>5, <1>10
  <2> HIDE DEF next
  <2>3. /\ \A d \in DOMAIN sent : d \in DOMAIN sent' /\ sent'[d] = sent[d]
        /\ \A i \in 1..1 : Pending(flow, next[i])'
    BY <1>1, <1>4, <1>6, <2>1, <2>2, SentIsPending
  <2>4. Pending("lookup", "balance")'
    BY <1>10, <2>1, <2>3
  <2> QED
    BY <1>5, <1>7, <1>8, <1>10, <2>3, <2>4 DEF FlowWaits, PanelFlows, Figures
<1> QED
  BY <1>3, <1>9, <1>10 DEF PanelFlows

(* An answer or a failure ends one request and perhaps its flow.           *)
LEMMA EndsWaits ==
  ASSUME PanelIInv, FlowWaits, NEW c \in open,
         Leftover(c) \/ FlowFails(c) \/ \E answer \in DOMAIN sent : Figure(c, answer) \/ Balance(c, answer)
  PROVE  FlowWaits'
<1> DEFINE q == sent[c]
<1>1. open' = open \ {c} /\ UNCHANGED <<sent, round>>
  BY DEF Leftover, FlowFails, Figure, Balance
<1>2. ASSUME NEW f, NEW method, Pending(f, method), q # Asked(method, f, round[f])
      PROVE  Pending(f, method)'
  BY <1>1, <1>2, StaysPending
<1>3. CASE Leftover(c)
  <2>1. \A f \in PanelFlows : \A method : awaits[f] # "idle" => q # Asked(method, f, round[f])
    BY <1>3 DEF Leftover, Awaited, Asked
  <2> QED
    BY <1>2, <1>3, <2>1 DEF Leftover, FlowWaits, PanelFlows, Figures
<1>4. CASE FlowFails(c)
  <2>1. awaits' = [awaits EXCEPT ![q.flow] = "idle"] /\ got' = got
    BY <1>4 DEF FlowFails
  <2>2. \A f \in PanelFlows : \A method : f # q.flow => q # Asked(method, f, round[f])
    BY DEF Asked
  <2>3. \A f \in PanelFlows : awaits'[f] = IF f = q.flow THEN "idle" ELSE awaits[f]
    BY <2>1 DEF FlowWaits
  <2>4. awaits' \in [PanelFlows -> {"idle", "chain", "data"}]
    BY <2>1 DEF FlowWaits
  <2> QED
    BY <1>2, <2>1, <2>2, <2>3, <2>4 DEF FlowWaits, PanelFlows, Figures
<1>5. ASSUME NEW answer \in DOMAIN sent, Figure(c, answer) PROVE FlowWaits'
  <2> DEFINE m == q.method
  <2>1. /\ c \in DOMAIN sent /\ m \in Figures
        /\ got' = [got EXCEPT ![m] = q]
        /\ IF \A f \in Figures : got'[f] # None
             THEN awaits' = [awaits EXCEPT !["refresh"] = "idle"] ELSE awaits' = awaits
    BY <1>5 DEF Figure, Accepts
  <2>2. \A f, method : method # m => q # Asked(method, f, round[f])
    BY DEF Asked
  <2>3. m \notin {"chain", "balance"} /\ \A f \in Figures \ {m} : got'[f] = got[f]
    BY <2>1 DEF Figures, PanelIInv
  <2>4. got'[m] # None
    <3>1. q \in RpcRequest
      BY <2>1, ElementOfSeq DEF PanelIInv
    <3>2. q # None
      BY <3>1, PanelAssumption
    <3> QED
      BY <2>1, <3>2 DEF PanelIInv
  <2>5. awaits' \in [PanelFlows -> {"idle", "chain", "data"}] /\ awaits'["lookup"] = awaits["lookup"]
        /\ (awaits'["refresh"] # "idle" => awaits'["refresh"] = awaits["refresh"]
             /\ \E f \in Figures : got'[f] = None)
    BY <2>1 DEF FlowWaits, PanelFlows
  <2>6. \A f \in PanelFlows : awaits'[f] = "chain" => awaits[f] = "chain"
    BY <2>5 DEF PanelFlows
  <2>7. \A f \in PanelFlows : awaits'[f] = "chain" => Pending(f, "chain")'
    BY <1>2, <2>2, <2>3, <2>6 DEF FlowWaits
  <2>8. awaits'["lookup"] = "data" => Pending("lookup", "balance")'
    BY <1>2, <2>2, <2>3, <2>5 DEF FlowWaits
  <2>9. ASSUME awaits'["refresh"] = "data", NEW f \in Figures, got'[f] = None
        PROVE  Pending("refresh", f)'
    <3>1. f # m /\ got[f] = None /\ awaits["refresh"] = "data"
      BY <2>3, <2>4, <2>5, <2>9
    <3> QED
      BY <1>2, <2>2, <3>1 DEF FlowWaits
  <2> QED
    BY <2>5, <2>7, <2>8, <2>9 DEF FlowWaits
<1>6. ASSUME NEW answer \in DOMAIN sent, Balance(c, answer) PROVE FlowWaits'
  <2>1. q.method = "balance" /\ awaits' = [awaits EXCEPT !["lookup"] = "idle"] /\ got' = got
    BY <1>6 DEF Balance
  <2>2. \A f, method : method # "balance" => q # Asked(method, f, round[f])
    BY <2>1 DEF Asked
  <2> QED
    BY <1>2, <2>1, <2>2 DEF FlowWaits, PanelFlows, Figures
<1> QED
  BY <1>3, <1>4, <1>5, <1>6

LEMMA WaitsNext == PanelIInv /\ FlowWaits /\ [PanelNext]_panelVars => FlowWaits'
<1> SUFFICES ASSUME PanelIInv, FlowWaits, [PanelNext]_panelVars PROVE FlowWaits'
  OBVIOUS
<1>1. CASE refresh
  BY <1>1, BeginsWaits DEF refresh, PanelFlows
<1>2. ASSUME NEW valid \in BOOLEAN, submit(valid) PROVE FlowWaits'
  <2>1. CASE valid
    BY <1>2, <2>1, BeginsWaits DEF submit, PanelFlows
  <2>2. CASE ~valid
    BY <1>2, <2>2 DEF submit, FlowWaits, Pending
  <2> QED
    BY <2>1, <2>2
<1>3. ASSUME NEW c \in open, NEW answer \in DOMAIN sent, Verified(c, answer) PROVE FlowWaits'
  BY <1>3, VerifiedWaits
<1>4. ASSUME NEW c \in open,
             Leftover(c) \/ FlowFails(c)
               \/ \E answer \in DOMAIN sent : Figure(c, answer) \/ Balance(c, answer)
      PROVE  FlowWaits'
  BY <1>4, EndsWaits
<1>5. CASE UNCHANGED panelVars
  BY <1>5 DEF panelVars, FlowWaits, Pending
<1> QED
  BY <1>1, <1>2, <1>3, <1>4, <1>5 DEF PanelNext

(* What PanelIsFree rests on: as long as the refresh is busy or the form   *)
(* is disabled, a request of that very refresh or lookup is open, and with *)
(* it the timer that aborts it; nothing that was given up keeps them.      *)
THEOREM BusyIsWaiting ==
  PanelSpec => [](\A f \in PanelFlows : awaits[f] # "idle" => \E c \in open : Awaited(c) /\ sent[c].flow = f)
<1>1. PanelInit => PanelIInv /\ FlowWaits
  BY PanelInitIInv, WaitsInit
<1>2. PanelIInv /\ FlowWaits /\ [PanelNext]_panelVars => (PanelIInv /\ FlowWaits)'
  BY PanelNextIInv, WaitsNext
<1>3. FlowWaits => \A f \in PanelFlows : awaits[f] # "idle" => \E c \in open : Awaited(c) /\ sent[c].flow = f
  <2> SUFFICES ASSUME FlowWaits, NEW f \in PanelFlows, awaits[f] # "idle"
               PROVE  \E c \in open : Awaited(c) /\ sent[c].flow = f
    OBVIOUS
  <2>1. \E method : Pending(f, method)
    BY DEF FlowWaits, PanelFlows
  <2> QED
    BY <2>1 DEF Pending, Awaited, Asked
<1> QED
  BY <1>1, <1>2, <1>3, PTL DEF PanelSpec

-----------------------------------------------------------------------------
(***************************************************************************)
(* The lookup.  With the types, the property is inductive: what an older   *)
(* search still does writes neither the result nor busy, and the last one  *)
(* leaves UnderWay and busy in one step.                                   *)
(***************************************************************************)
LookupIInv == LookupTypeOK /\ LastSearchRules

USE LookupAssumption

LEMMA LookupInitIInv == LookupInit => LookupIInv
<1> SUFFICES ASSUME LookupInit PROVE LookupIInv
  OBVIOUS
<1>1. LookupTypeOK
  <2>1. current \in 0..MaxSearches /\ result \in [says : Says, of : 0..MaxSearches]
    BY DEF LookupInit, Says, Result
  <2>2. progress \in [Searches -> Stages]
    BY DEF LookupInit, Stages
  <2>3. aborted \in [Searches -> BOOLEAN] /\ timer \in [Searches -> BOOLEAN]
    BY DEF LookupInit
  <2> QED
    BY <2>1, <2>2, <2>3 DEF LookupInit, LookupTypeOK
<1>2. LastSearchRules
  BY DEF LookupInit, LastSearchRules, Result
<1> QED
  BY <1>1, <1>2 DEF LookupIInv

LEMMA SearchKeeps ==
  ASSUME LookupIInv, NEW valid \in BOOLEAN, Search(valid) PROVE LookupIInv'
<1> USE DEF LookupIInv, LookupTypeOK, Searches, Stages, UnderWay, Says, Result
<1>1. current + 1 \in Searches /\ current' = current + 1
  BY DEF Search
<1>2. LookupTypeOK'
  <2>1. aborted' \in [Searches -> BOOLEAN]
    BY DEF Search
  <2>2. timer' \in [Searches -> BOOLEAN] /\ busy' \in BOOLEAN
    BY <1>1 DEF Search
  <2>3. progress' \in [Searches -> Stages]
    BY <1>1 DEF Search
  <2>4. result' \in [says : Says, of : 0..MaxSearches] /\ current' \in 0..MaxSearches
    BY <1>1 DEF Search
  <2> QED
    BY <2>1, <2>2, <2>3, <2>4
<1>3. LastSearchRules'
  <2>1. result'.of = current' /\ (valid => result'.says = "searching")
    BY DEF Search
  <2>2. progress'[current'] = IF valid THEN "fetch" ELSE "over"
    BY <1>1 DEF Search
  <2>3. busy' = valid /\ current' # 0
    BY <1>1 DEF Search
  <2> QED
    BY <2>1, <2>2, <2>3 DEF LastSearchRules
<1> QED
  BY <1>2, <1>3

LEMMA TimeOutKeeps ==
  ASSUME LookupIInv, NEW n \in Searches, TimeOut(n) PROVE LookupIInv'
  BY DEF TimeOut, LookupIInv, LookupTypeOK, LastSearchRules

LEMMA ComesKeeps ==
  ASSUME LookupIInv, NEW n \in Searches, Responds(n) \/ Parses(n) PROVE LookupIInv'
<1> USE DEF LookupIInv, LookupTypeOK, Searches, Stages, UnderWay
<1>1. PICK from \in UnderWay, to \in UnderWay : Comes(n, from, to)
  BY DEF Responds, Parses
<1>2. LookupTypeOK'
  BY <1>1 DEF Comes
<1>3. progress'[current] \in UnderWay <=> progress[current] \in UnderWay
  BY <1>1, n \in DOMAIN progress DEF Comes
<1>4. LastSearchRules'
  BY <1>1, <1>3 DEF Comes, LastSearchRules
<1> QED
  BY <1>2, <1>4

(* The last step of a search, whatever it says: only the last search       *)
(* changes the result, and to one that speaks of it.                       *)
LEMMA FinallyKeeps ==
  ASSUME LookupIInv, NEW n \in Searches, Finally(n),
         result' = result \/ \E says \in Says : current = n /\ result' = Result(says, n)
  PROVE  LookupIInv'
<1> USE DEF LookupIInv, LookupTypeOK, Searches, Stages, UnderWay
<1>1. LookupTypeOK'
  <2>1. result' \in [says : Says, of : 0..MaxSearches]
    BY DEF Result
  <2>2. timer' \in [Searches -> BOOLEAN] /\ aborted' \in [Searches -> BOOLEAN]
    BY DEF Finally
  <2>3. progress' \in [Searches -> Stages] /\ current' \in 0..MaxSearches
    BY DEF Finally
  <2>4. busy' \in BOOLEAN
    BY DEF Finally
  <2> QED
    BY <2>1, <2>2, <2>3, <2>4
<1>2. result'.of = current'
  BY DEF Finally, LastSearchRules, Result
<1>3. CASE current = n
  <2>1. busy' = FALSE /\ current' = n /\ progress'[n] = "over"
    BY <1>3 DEF Finally
  <2> QED
    BY <1>1, <1>2, <2>1 DEF LastSearchRules
<1>4. CASE current # n
  <2>1. busy' = busy /\ current' = current /\ result' = result
        /\ (current # 0 => progress'[current] = progress[current])
    BY <1>4 DEF Finally
  <2> QED
    BY <1>1, <1>2, <2>1 DEF LastSearchRules
<1> QED
  BY <1>3, <1>4

LEMMA LookupNextIInv == LookupIInv /\ [LookupNext]_lookupVars => LookupIInv'
<1> SUFFICES ASSUME LookupIInv, [LookupNext]_lookupVars PROVE LookupIInv'
  OBVIOUS
<1>1. ASSUME NEW valid \in BOOLEAN, Search(valid) PROVE LookupIInv'
  BY <1>1, SearchKeeps
<1>2. ASSUME NEW n \in Searches, TimeOut(n) PROVE LookupIInv'
  BY <1>2, TimeOutKeeps
<1>3. ASSUME NEW n \in Searches, Responds(n) \/ Parses(n) PROVE LookupIInv'
  BY <1>3, ComesKeeps
<1>4. ASSUME NEW n \in Searches, Errs(n) \/ Aborts(n) \/ ShowsResult(n) PROVE LookupIInv'
  <2>1. PICK says \in Says : Concludes(n, says)
    BY <1>4 DEF Errs, Aborts, ShowsResult, Says
  <2> QED
    BY <2>1, FinallyKeeps DEF Concludes
<1>5. ASSUME NEW n \in Searches, Returns(n) PROVE LookupIInv'
  BY <1>5, FinallyKeeps DEF Returns
<1>6. CASE UNCHANGED lookupVars
  BY <1>6 DEF lookupVars, LookupIInv, LookupTypeOK, LastSearchRules
<1> QED
  BY <1>1, <1>2, <1>3, <1>4, <1>5, <1>6 DEF LookupNext

LEMMA LookupInvariance == LookupSpec => []LookupIInv
<1>1. LookupInit => LookupIInv
  BY LookupInitIInv
<1>2. LookupIInv /\ [LookupNext]_lookupVars => LookupIInv'
  BY LookupNextIInv
<1> QED
  BY <1>1, <1>2, PTL DEF LookupSpec

(* However many searches overtake one another, time out and fail, the      *)
(* page speaks of the last one, and is busy while that one is under way.   *)
THEOREM OnlyTheLast == LookupSpec => []LastSearchRules
<1>1. LookupIInv => LastSearchRules
  BY DEF LookupIInv
<1> QED
  BY <1>1, LookupInvariance, PTL

-----------------------------------------------------------------------------
(***************************************************************************)
(* The live numbers.  The property is inductive as it stands: every        *)
(* handler writes both halves of what belongs together, or neither.        *)
(***************************************************************************)
LEMMA FeedInitIInv == FeedInit => PairsAgree
  BY DEF FeedInit, PairsAgree

LEMMA FeedNextIInv == PairsAgree /\ [FeedNext]_feedVars => PairsAgree'
<1> SUFFICES ASSUME PairsAgree, [FeedNext]_feedVars PROVE PairsAgree'
  OBVIOUS
<1> USE DEF PairsAgree
<1>1. ASSUME UNCHANGED <<words, numbers>> PROVE PairsAgree'
  BY <1>1 DEF words, numbers
<1>2. CASE loadNetworkStatus
  <2>1. CASE renderNetworkStatus
    BY <2>1 DEF renderNetworkStatus, setNodeOnline
  <2>2. CASE setNodeOffline /\ UNCHANGED numbers
    BY <2>2 DEF setNodeOffline, numbers
  <2> QED
    BY <1>2, <2>1, <2>2 DEF loadNetworkStatus
<1>3. CASE loadBitcoinData
  <2>1. /\ UNCHANGED <<online, badge>>
        /\ \/ word' = "LIVE" /\ detail' = "bitcoin" /\ height' = "bitcoin" /\ mempool' = "bitcoin"
           \/ word' = "DATA OFFLINE" /\ detail' = "unable" /\ UNCHANGED <<height, mempool>>
    BY <1>3 DEF loadBitcoinData, numbers
  <2> QED
    BY <2>1
<1> QED
  BY <1>1, <1>2, <1>3
     DEF FeedNext, feedVars, loadBlocks, loadTransactions, loadBitcoinBlocks,
         loadRecentBitcoinTransactions, refreshDashboard, EveryMinute, EveryHalfMinute, Asks, Outage

(* Whichever source answers, fails or overtakes the other, the word keeps  *)
(* its detail, the colour its badge, and height and mempool one source.    *)
THEOREM PairsStayTogether == FeedSpec => []PairsAgree
  BY FeedInitIInv, FeedNextIInv, PTL DEF FeedSpec

-----------------------------------------------------------------------------
(***************************************************************************)
(* A price card.  The property needs what bounds the age: between checks   *)
(* the interval, within a check its timeout, and for a page that has just  *)
(* been shown the check that being shown began.                            *)
(***************************************************************************)
PriceTypeOK ==
  /\ check \in {"idle", "fetch", "body"} /\ timeout \in 0..NoTimeout
  /\ poll \in 0..Minute /\ shown \in 0..2 /\ age \in 0..Old
  /\ hidden \in BOOLEAN

Current ==
  \/ check = "idle" /\ age + poll <= Minute
  \/ check # "idle" /\ (age + timeout <= Minute + 1 \/ shown + timeout <= 1)

PriceIInv ==
  /\ PriceTypeOK
  /\ check = "idle" <=> timeout = NoTimeout
  /\ hidden => shown = 0
  /\ hidden \/ offline \/ Current

LEMMA PriceInitIInv == PriceInit => PriceIInv
<1> SUFFICES ASSUME PriceInit PROVE PriceIInv
  OBVIOUS
<1> USE DEF PriceInit, Minute, NoTimeout, Old
<1>1. PriceTypeOK
  <2>1. hidden \in BOOLEAN
    OBVIOUS
  <2>2. check \in {"idle", "fetch", "body"} /\ timeout \in 0..NoTimeout /\ poll \in 0..Minute
    OBVIOUS
  <2>3. shown \in 0..2 /\ age \in 0..Old
    OBVIOUS
  <2> QED
    BY <2>1, <2>2, <2>3 DEF PriceTypeOK
<1>2. hidden \/ Current
  BY DEF Current
<1> QED
  BY <1>1, <1>2 DEF PriceIInv

LEMMA CheckEndKeeps ==
  ASSUME PriceIInv, Checked \/ CheckFails
  PROVE  PriceIInv'
<1> USE DEF PriceIInv, PriceTypeOK, CheckEnds, Minute, NoTimeout, Old
<1>1. CASE Checked
  BY <1>1 DEF Checked, Current
<1>2. CASE CheckFails
  BY <1>2 DEF CheckFails
<1> QED
  BY <1>1, <1>2

LEMMA PriceTickKeeps ==
  ASSUME PriceIInv, Tick
  PROVE  PriceIInv'
<1> USE DEF PriceIInv, PriceTypeOK, Tick, Minute, NoTimeout, Old
<1>1. PriceTypeOK' /\ (check = "idle" <=> timeout = NoTimeout)' /\ (hidden => shown = 0)'
  OBVIOUS
<1>2. ASSUME ~hidden, ~offline PROVE Current'
  <2>1. Current /\ timeout # 0 /\ poll # 0
    BY <1>2
  <2> QED
    BY <1>2, <2>1 DEF Current
<1>3. hidden' = hidden /\ offline' = offline
  OBVIOUS
<1> QED
  BY <1>1, <1>2, <1>3

LEMMA PriceNextIInv == PriceIInv /\ [PriceNext]_priceVars => PriceIInv'
<1> SUFFICES ASSUME PriceIInv, [PriceNext]_priceVars PROVE PriceIInv'
  OBVIOUS
<1> USE DEF PriceIInv, PriceTypeOK, Current, Minute, NoTimeout, Old
<1>1. CASE Interval
  BY <1>1 DEF Interval, refreshPrice, checking
<1>2. CASE PriceVisibility
  BY <1>2 DEF PriceVisibility, refreshPrice, checking
<1>3. CASE PriceResponds
  BY <1>3 DEF PriceResponds
<1>4. CASE UNCHANGED priceVars
  BY <1>4 DEF priceVars
<1> QED
  BY <1>1, <1>2, <1>3, <1>4, CheckEndKeeps, PriceTickKeeps DEF PriceNext

(* However slow the provider is, and whenever the page is hidden and       *)
(* shown, a price that is shown as good is not old, but for the 12 seconds *)
(* at most that the check takes with which a page is shown.                *)
THEOREM NoStalePrice == PriceSpec => []FreshOrOffline
<1>1. PriceIInv => FreshOrOffline
  BY DEF PriceIInv, PriceTypeOK, Current, FreshOrOffline, checking, NoTimeout, Minute, Old
<1> QED
  BY <1>1, PriceInitIInv, PriceNextIInv, PTL DEF PriceSpec
=============================================================================
