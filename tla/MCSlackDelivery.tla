--------------------------- MODULE MCSlackDelivery ---------------------------
(* A small instance of SlackDelivery for TLC.  Its constants are numbers and  *)
(* the ids; liveness is checked, so there is no symmetry.                     *)
EXTENDS SlackDelivery, TLC
===============================================================================
