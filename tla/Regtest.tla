------------------------------- MODULE Regtest -------------------------------
(***************************************************************************)
(* The regtest code: the chain in memory, and the tool that replays and    *)
(* extends it in a file.  A run of the tool offers its chain nothing but   *)
(* templates, so the tool's model has heights in place of chains, and the  *)
(* two move apart: a behavior lets one of them move.                       *)
(***************************************************************************)
EXTENDS RegtestMiner

VARIABLE part  \* the part that moves

regtestVars == <<part, vars, minerVars>>

RegtestInit == Init /\ MinerInit /\ part \in {"chain", "miner"}

RegtestNext ==
  /\ UNCHANGED part
  /\ \/ part = "chain" /\ Next /\ UNCHANGED minerVars
     \/ part = "miner" /\ MinerNext /\ UNCHANGED vars

RegtestSpec == RegtestInit /\ [][RegtestNext]_regtestVars
=============================================================================
