----------------------------- MODULE ChainStore -----------------------------
(***************************************************************************)
(* What the regtest tool's chain file promises, whatever runs share it:    *)
(* blocks are stored in height order; every run that ends well prints the  *)
(* height stored at that moment; when the run mined, no loss of power      *)
(* takes that height back, unless the file is new and goes as a whole.     *)
(* The height printed by a run that only replayed carries no such promise. *)
(***************************************************************************)
EXTENDS Naturals

CONSTANT MAX_TEST_HEIGHT

VARIABLES
  stored,   \* height of the last block stored whole
  rooted,   \* the file has outlived a loss of power: it cannot go as a whole
  printed,  \* height the last run to end well printed
  acked     \* greatest height a mining run printed of the file that is there

vars == <<stored, rooted, printed, acked>>

Init == stored = 0 /\ rooted = FALSE /\ printed = 0 /\ acked = 0

Store(h) == h > stored /\ stored' = h /\ UNCHANGED <<rooted, printed, acked>>

Acknowledge ==
  /\ printed' = stored /\ acked' = stored
  /\ UNCHANGED <<stored, rooted>>

Show == printed' = stored /\ UNCHANGED <<stored, rooted, acked>>

Lose(h) ==
  /\ h \in acked..stored
  /\ stored' = h /\ rooted' = TRUE
  /\ UNCHANGED <<printed, acked>>

LoseFile ==
  /\ ~rooted
  /\ stored' = 0 /\ acked' = 0
  /\ UNCHANGED <<rooted, printed>>

Next ==
  \/ \E h \in 0..MAX_TEST_HEIGHT : Store(h) \/ Lose(h)
  \/ Acknowledge \/ Show \/ LoseFile

Spec == Init /\ [][Next]_vars
=============================================================================
