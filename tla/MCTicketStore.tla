----------------------------- MODULE MCTicketStore -----------------------------
(* Small instances of TicketStore for TLC.                                   *)
EXTENDS TicketStore, TLC

\* Init and Next treat the requests alike and the scans alike.
Symmetry == Permutations(Requests) \cup Permutations(Scans)
===============================================================================
