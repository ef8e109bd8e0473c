----------------------------- MODULE PageScript -----------------------------
(***************************************************************************)
(* What the models of the pages' scripts have in common.  Each script is a *)
(* closure over its own state and its own elements of a page, and none     *)
(* waits for another: a behavior lets one of them move and keeps the       *)
(* others still, which reaches every state of each that their              *)
(* interleavings reach.                                                    *)
(***************************************************************************)
CONSTANT None   \* no account, no answer, no pointer

VARIABLE script \* the script that moves
=============================================================================
