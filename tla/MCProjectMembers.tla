--------------------------- MODULE MCProjectMembers ---------------------------
(* Small instances of ProjectMembers for TLC.                                *)
EXTENDS ProjectMembers, TLC

\* Init and Next treat the users alike, the projects alike, the handlers alike.
Symmetry ==
  Permutations(Users) \cup Permutations(Projects) \cup Permutations(Handlers)
===============================================================================
