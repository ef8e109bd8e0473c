----------------------------- MODULE MCWebsite -----------------------------
(* Instances of Website for TLC.                                           *)
EXTENDS Website
=============================================================================
