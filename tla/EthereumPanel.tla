---------------------------- MODULE EthereumPanel ----------------------------
(***************************************************************************)
(* The Ethereum panel of the home page.  Its refresh, every 30 seconds and *)
(* whenever the page is shown, and its address lookup run side by side and *)
(* share the request ids of one JSON-RPC client.  A provider behind        *)
(* caches and proxies may give a request the answer to another one.        *)
(***************************************************************************)
EXTENDS PageScript, Naturals, Sequences

CONSTANTS
  MaxRefreshes, MaxLookups   \* bounds of the model

PanelFlows == {"refresh", "lookup"}

(* What a flow's n-th run asks.                                            *)
RpcRequest == [method : {"chain", "block", "gas", "balance"}, flow : PanelFlows, n : Nat]

ASSUME PanelAssumption ==
  /\ MaxRefreshes \in Nat /\ MaxLookups \in Nat
  /\ None \notin RpcRequest

VARIABLES
  sent,      \* the requests, by id: what each asks, and for which refresh or lookup
  open,      \* ids of the requests that are not settled
  round,     \* refreshes and lookups begun so far
  awaits,    \* what the refresh (busy) and the lookup (button.disabled) wait for
  got,       \* what Promise.all has of the refresh
  figures,   \* the request whose answer each field of the panel shows
  status,    \* what is said of the figures
  balance    \* the lookup the balance is shown for, and the request it answers

panelVars == <<sent, open, round, awaits, got, figures, status, balance>>

Figures == {"block", "gas"}
Nothing == [f \in Figures |-> None]

(* The fields of the panel, and the answer that each is taken from.        *)
Fields == {"height", "gas", "transactions"}
Source(field) == IF field = "gas" THEN "gas" ELSE "block"

PanelInit ==
  /\ sent = <<>> /\ open = {}
  /\ round = [f \in PanelFlows |-> 0] /\ awaits = [f \in PanelFlows |-> "idle"]
  /\ got = Nothing /\ figures = [f \in Fields |-> None] /\ status = "connecting"
  /\ balance = [of |-> 0, answer |-> None]

-----------------------------------------------------------------------------
Asked(method, flow, n) == [method |-> method, flow |-> flow, n |-> n]

(* Requests leave in this order, with the next ids.                        *)
rpc(flow, n, methods) ==
  sent \o [i \in 1..Len(methods) |-> Asked(methods[i], flow, n)]

(* refresh and the submit handler, up to verifyMainnet.                    *)
Begins(flow, limit) ==
  /\ awaits[flow] = "idle" /\ round[flow] < limit
  /\ round' = [round EXCEPT ![flow] = @ + 1]
  /\ awaits' = [awaits EXCEPT ![flow] = "chain"]
  /\ sent' = rpc(flow, round[flow] + 1, <<"chain">>)
  /\ open' = open \cup {Len(sent')}

refresh ==
  /\ Begins("refresh", MaxRefreshes)
  /\ got' = Nothing
  /\ UNCHANGED <<figures, status, balance>>

(* What is no address gets a hint instead.                                 *)
submit(valid) ==
  /\ balance' = [of |-> 0, answer |-> None]
  /\ IF valid THEN Begins("lookup", MaxLookups)
     ELSE awaits["lookup"] = "idle" /\ UNCHANGED <<sent, open, round, awaits>>
  /\ UNCHANGED <<got, figures, status>>

(* What Promise.all has left running belongs to no refresh any more.       *)
Awaited(c) ==
  LET flow == sent[c].flow
  IN awaits[flow] # "idle" /\ sent[c].n = round[flow]

Leftover(c) ==
  /\ c \in open /\ ~Awaited(c)
  /\ open' = open \ {c}
  /\ UNCHANGED <<sent, round, awaits, got, figures, status, balance>>

(* Mutant of Accepts: an answer is taken without a look at its id.         *)
AcceptsAny(c, answer) == answer = answer

Accepts(c, answer) == answer = c

(* verifyMainnet is content, and the flow asks what it came for.           *)
Verified(c, answer) ==
  LET flow == sent[c].flow
      next == IF flow = "refresh" THEN <<"block", "gas">> ELSE <<"balance">>
  IN /\ c \in open /\ Awaited(c) /\ sent[c].method = "chain" /\ Accepts(c, answer)
     /\ sent' = rpc(flow, round[flow], next)
     /\ open' = (open \ {c}) \cup (Len(sent) + 1)..Len(sent')
     /\ awaits' = [awaits EXCEPT ![flow] = "data"]
     /\ UNCHANGED <<round, got, figures, status, balance>>

(* The fields are written in turn, and the status last: a malformed block  *)
(* throws before the first, a malformed gas price after the height.        *)
Fill(written) ==
  /\ figures' = [f \in Fields |-> IF f \in written THEN got'[Source(f)] ELSE figures[f]]
  /\ status' = IF written = Fields THEN "live" ELSE "offline"

(* Block or gas price: the second of the two fills the panel.              *)
Figure(c, answer) ==
  /\ c \in open /\ Awaited(c) /\ sent[c].method \in Figures /\ Accepts(c, answer)
  /\ open' = open \ {c}
  /\ got' = [got EXCEPT ![sent[c].method] = sent[answer]]
  /\ IF \A f \in Figures : got'[f] # None
     THEN /\ \E written \in {{}, {"height"}, Fields} : Fill(written)
          /\ awaits' = [awaits EXCEPT !["refresh"] = "idle"]
     ELSE UNCHANGED <<figures, status, awaits>>
  /\ UNCHANGED <<sent, round, balance>>

Balance(c, answer) ==
  /\ c \in open /\ Awaited(c) /\ sent[c].method = "balance" /\ Accepts(c, answer)
  /\ open' = open \ {c}
  /\ balance' = [of |-> sent[c].n, answer |-> sent[answer]]
  /\ awaits' = [awaits EXCEPT !["lookup"] = "idle"]
  /\ UNCHANGED <<sent, round, got, figures, status>>

(* Mutant of FlowFails: only an answer enables the button again.           *)
FlowFailsDisabled(c) ==
  /\ c \in open /\ Awaited(c) /\ open' = open \ {c}
  /\ IF sent[c].flow = "refresh"
     THEN status' = "offline" /\ awaits' = [awaits EXCEPT !["refresh"] = "idle"]
     ELSE UNCHANGED <<status, awaits>>
  /\ UNCHANGED <<sent, round, got, figures, balance>>

(* A refused connection, a bad status or id, another chain, a malformed    *)
(* balance, the abort after 12 seconds: the refresh or the lookup is over, *)
(* and has written no answer.                                              *)
FlowFails(c) ==
  /\ c \in open /\ Awaited(c) /\ open' = open \ {c}
  /\ awaits' = [awaits EXCEPT ![sent[c].flow] = "idle"]
  /\ status' = IF sent[c].flow = "refresh" THEN "offline" ELSE status
  /\ UNCHANGED <<sent, round, got, figures, balance>>

PanelNext ==
  \/ refresh \/ \E valid \in BOOLEAN : submit(valid)
  \/ \E c \in open :
       \/ Leftover(c) \/ FlowFails(c)
       \/ \E answer \in DOMAIN sent :
            Verified(c, answer) \/ Figure(c, answer) \/ Balance(c, answer)

PanelSpec == PanelInit /\ [][PanelNext]_panelVars

(* While the script runs, the timers of the requests a flow awaits fire.   *)
PanelFairness ==
  \A f \in PanelFlows :
    WF_panelVars(script = "panel" /\ \E c \in open : sent[c].flow = f /\ FlowFails(c))

-----------------------------------------------------------------------------
(* Two flows interleave, requests that Promise.all gave up run on, answers *)
(* are mixed up or malformed.  Still every field answers its own question; *)
(* gas and transactions are of one refresh; height is of the same one, and *)
(* only under the words DATA OFFLINE of a later; and a balance answers the *)
(* lookup it is shown for.                                                 *)
OwnAnswers ==
  /\ \A f \in Fields : figures[f] # None =>
       figures[f] = Asked(Source(f), "refresh", figures[f].n)
  /\ figures["gas"] # None =>
       /\ figures["transactions"] # None /\ figures["height"] # None
       /\ figures["transactions"].n = figures["gas"].n
       /\ figures["gas"].n <= figures["height"].n
  /\ status = "live" =>
       figures["gas"] # None /\ figures["height"].n = figures["gas"].n
  /\ balance.of # 0 => balance.answer = Asked("balance", "lookup", balance.of)

(* A provider that never answers blocks neither the refreshes nor the form. *)
PanelIsFree == \A f \in PanelFlows : awaits[f] # "idle" ~> awaits[f] = "idle"
=============================================================================
