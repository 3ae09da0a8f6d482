---------------------------- MODULE MCJiraMigration ----------------------------
(***************************************************************************)
(* Instances of JiraMigration for TLC.                                     *)
(***************************************************************************)
EXTENDS JiraMigration

CONSTANTS p1, p2

OnePage  == {p1}
TwoPages == {p1, p2}
Broken   == {"failed"}
Either   == {"failed", "reconnect_required"}
ByUser   == {"discard"}
ByAnyone == {"discard", "expire"}
================================================================================
