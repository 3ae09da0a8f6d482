---------------------------- MODULE MCAttachments ----------------------------
EXTENDS Attachments, TLC

CONSTANTS t1, t2, c1, c2, x, y

Alike2 == 1 :> x @@ 2 :> x
Alike3 == 1 :> x @@ 2 :> x @@ 3 :> x
Differ == 1 :> x @@ 2 :> y

Symmetry == Permutations(Callers) \cup Permutations(Tickets)
===============================================================================
