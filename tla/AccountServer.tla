---------------------------- MODULE AccountServer ----------------------------
(***************************************************************************)
(* The parts of the account server beside its credentials, in one process. *)
(* They share the clock and nothing else that changes, and a step of one   *)
(* is neither enabled nor disabled by another: what throttle refuses has   *)
(* not begun, as if the client had not asked, and a post or an item may    *)
(* begin at any time.  So a behavior lets one part move and keeps the      *)
(* others still; the product of their interleavings reaches no other state *)
(* of any of them.                                                         *)
(***************************************************************************)
EXTENDS Workspace, Community, MarketCache, RateLimit

VARIABLE part  \* the part that moves

vars == <<part, itemVars, chatVars, marketVars, limitVars>>

Init ==
  /\ ItemsInit /\ ChatInit /\ MarketInit /\ LimitInit
  /\ part \in {"items", "chat", "market", "limits"}

Next ==
  /\ UNCHANGED part
  /\ \/ part = "items" /\ ItemsNext /\ UNCHANGED <<chatVars, marketVars, limitVars>>
     \/ part = "chat" /\ ChatNext /\ UNCHANGED <<itemVars, marketVars, limitVars>>
     \/ part = "market" /\ MarketNext /\ UNCHANGED <<itemVars, chatVars, limits, accepted>>
     \/ part = "limits" /\ LimitNext
          /\ UNCHANGED <<itemVars, chatVars, priceCache, flight, waiting, answer, asked>>

Spec == Init /\ [][Next]_vars

=============================================================================
