---------------------------- MODULE MCPullRequests ----------------------------
(* Small instances of PullRequests: pull request 1 comes from branch ba,       *)
(* 2 from bb, and 1 may be stacked on 2.                                       *)
EXTENDS PullRequests, TLC

CONSTANTS ba, bb, bc, main, t1, t2, h1, h2, s1

MCHead == 1 :> ba @@ 2 :> bb
\* Both are open before the repository is connected, or 1 is opened later.
MCStack == 1 :> bb @@ 2 :> main
MCLater == 1 :> None @@ 2 :> main

\* Each pull request names a ticket of its own, or both name the same.
MCNames == 1 :> t1 @@ 2 :> t2
MCOneName == 1 :> t1 @@ 2 :> t1

\* The name of ba gives the ticket too, that of bb does not.
MCCalled == ba :> t1 @@ bb :> None

\* Next treats the handlers alike.
HookSymmetry == Permutations(Hooks)
===============================================================================
