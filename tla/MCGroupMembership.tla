--------------------------- MODULE MCGroupMembership ---------------------------
(* Small instances of GroupMembership for TLC.                               *)
EXTENDS GroupMembership, TLC

CONSTANTS a, b, r1, r2

File(status, has) == [status |-> status, has |-> has]

\* Two open sprints with a ticket each, or one sprint with both.
Apart == {[g \in Groups |-> IF g = a THEN File("open", {1}) ELSE File("open", {2})],
          [g \in Groups |-> IF g = a THEN File("open", {1, 2}) ELSE NoFile]}

Symmetry == Permutations(Requests)
===============================================================================
