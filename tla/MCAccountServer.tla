--------------------------- MODULE MCAccountServer ---------------------------
(* Instance of AccountServer: a moderator and a member, two pages, a key   *)
(* of one request in two ticks and one of two requests in three.           *)
EXTENDS AccountServer, TLC

MCKeys == {"chat", "auth"}
MCMaximum == [chat |-> 1, auth |-> 2]
MCInterval == [chat |-> 2, auth |-> 3]

Symmetry == Permutations(ItemIds)
=============================================================================
