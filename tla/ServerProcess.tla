---------------------------- MODULE ServerProcess ----------------------------
(***************************************************************************)
(* What the parts of the account server share besides the database: the    *)
(* process that serves requests one event at a time, and its clock.        *)
(***************************************************************************)
EXTENDS Integers

CONSTANTS
  Requests,   \* request slots: connections served at the same time
  Users,
  None,
  MaxTime     \* bound of the model

ASSUME ServerAssumption == None \notin Users /\ MaxTime \in Nat

VARIABLE now  \* Date.now, in ticks
=============================================================================
