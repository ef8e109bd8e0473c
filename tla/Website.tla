------------------------------- MODULE Website -------------------------------
(* The scripts of the pages, one of which moves.                           *)
EXTENDS DashboardPage, HomeFeed, Lookup, PriceCard, EthereumPanel, NftStudio, MiniK

vars == <<script, pageVars, feedVars, lookupVars, priceVars, panelVars, studioVars, miniVars>>

Init ==
  /\ script \in {"dashboard", "feed", "lookup", "price", "panel", "studio", "figure"}
  /\ PageInit /\ (script # "dashboard" => session = None)
  /\ FeedInit /\ LookupInit /\ PanelInit
  /\ PriceInit /\ (script # "price" => ~hidden)
  /\ StudioInit /\ (script # "studio" => storage = <<>>)
  /\ MiniInit /\ (script # "figure" => ~paused)

Next ==
  /\ UNCHANGED script
  /\ \/ /\ script = "dashboard" /\ PageNext
        /\ UNCHANGED <<feedVars, lookupVars, priceVars, panelVars, studioVars, miniVars>>
     \/ /\ script = "feed" /\ FeedNext
        /\ UNCHANGED <<pageVars, lookupVars, priceVars, panelVars, studioVars, miniVars>>
     \/ /\ script = "lookup" /\ LookupNext
        /\ UNCHANGED <<pageVars, feedVars, priceVars, panelVars, studioVars, miniVars>>
     \/ /\ script = "price" /\ PriceNext
        /\ UNCHANGED <<pageVars, feedVars, lookupVars, panelVars, studioVars, miniVars>>
     \/ /\ script = "panel" /\ PanelNext
        /\ UNCHANGED <<pageVars, feedVars, lookupVars, priceVars, studioVars, miniVars>>
     \/ /\ script = "studio" /\ StudioNext
        /\ UNCHANGED <<pageVars, feedVars, lookupVars, priceVars, panelVars, miniVars>>
     \/ /\ script = "figure" /\ MiniNext
        /\ UNCHANGED <<pageVars, feedVars, lookupVars, priceVars, panelVars, studioVars>>

Spec ==
  /\ Init /\ [][Next]_vars
  /\ PageFairness /\ FeedFairness /\ LookupFairness /\ PanelFairness
=============================================================================
