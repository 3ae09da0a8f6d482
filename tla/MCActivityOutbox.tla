--------------------------- MODULE MCActivityOutbox ---------------------------
(***************************************************************************)
(* ActivityOutbox for TLC: one ticket, one group file with two texts, two  *)
(* handlers that are interchangeable, as are the texts.                    *)
(***************************************************************************)
EXTENDS ActivityOutbox, TLC

Symmetry == Permutations(Writers) \cup Permutations(GroupTexts)
===============================================================================
