----------------------------- MODULE MCAccounts -----------------------------
(* Instance of Accounts for TLC; the constants are given in the cfg files. *)
EXTENDS Accounts, TLC

(* Slots, ids, emails, passwords and tokens are interchangeable.           *)
Symmetry == Permutations(Requests) \cup Permutations(UserIds)
              \cup Permutations(Passwords) \cup Permutations(Tokens)
=============================================================================
