---------------------------- MODULE RecordedWrites ----------------------------
(***************************************************************************)
(* What the activity outbox promises, without its lock, its file hashes,   *)
(* its failures or its crashes.  A document write announced to the outbox  *)
(* either lands on the file and is then published once, or never lands and *)
(* is dropped without a trace.  The log of a document lists its writes in  *)
(* the order in which they were announced, and one write is open per       *)
(* document at any time.                                                   *)
(***************************************************************************)
EXTENDS Naturals, Sequences

CONSTANTS
  Docs,        \* the documents: ticket files and group files
  Writes,      \* the numbers of the writes
  Forgettable  \* documents that a writer may change behind the outbox

VARIABLES
  pending,  \* <<document, write>> pairs announced and not yet resolved
  landed,   \* <<document, write>> pairs whose file write completed
  log,      \* per document, the published writes in order
  gone      \* documents deleted together with their log

vars == <<pending, landed, log, gone>>

Logged(d) == {log[d][i] : i \in 1..Len(log[d])}

Init ==
  /\ pending = {}
  /\ landed = {}
  /\ log = [d \in Docs |-> <<>>]
  /\ gone = {}

Announce(d, w) ==
  /\ \A v \in Writes : <<d, v>> \notin pending
  /\ \A v \in Logged(d) : v < w
  /\ <<d, w>> \notin landed
  /\ pending' = pending \cup {<<d, w>>}
  /\ UNCHANGED <<landed, log, gone>>

Land(d, w) ==
  /\ <<d, w>> \in pending \ landed
  /\ landed' = landed \cup {<<d, w>>}
  /\ UNCHANGED <<pending, log, gone>>

Publish(d, w) ==
  /\ <<d, w>> \in pending \cap landed
  /\ \A v \in Logged(d) : v < w
  /\ pending' = pending \ {<<d, w>>}
  /\ log' = [log EXCEPT ![d] = Append(@, w)]
  /\ UNCHANGED <<landed, gone>>

\* Only a write that never landed is dropped, unless its document is gone or
\* is one that may be changed behind the outbox.
Drop(d, w) ==
  /\ <<d, w>> \in pending
  /\ <<d, w>> \in landed => d \in gone \cup Forgettable
  /\ pending' = pending \ {<<d, w>>}
  /\ UNCHANGED <<landed, log, gone>>

Delete(d) ==
  /\ gone' = gone \cup {d}
  /\ UNCHANGED <<pending, landed, log>>

Erase(d) ==
  /\ d \in gone
  /\ log' = [log EXCEPT ![d] = <<>>]
  /\ UNCHANGED <<pending, landed, gone>>

Next ==
  \E d \in Docs :
    \/ \E w \in Writes : Announce(d, w) \/ Land(d, w) \/ Publish(d, w) \/ Drop(d, w)
    \/ Delete(d)
    \/ Erase(d)

Spec == Init /\ [][Next]_vars
===============================================================================
