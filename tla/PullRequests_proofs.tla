-------------------------- MODULE PullRequests_proofs --------------------------
(***************************************************************************)
(* Proofs about PullRequests, for any pull requests, branches, tickets,    *)
(* handlers, refreshes and failures.  The argument: whatever is on its     *)
(* way, remembered, fetched or shown was so on GitHub, and a merge is the  *)
(* last that happens to a pull request (Past); an answer of a refresh is   *)
(* as new as the tickets that were not written since (AnswersAreNew);      *)
(* without refreshes what the table would accept is not older than what a  *)
(* ticket shows or a handler is about to write (ForwardInv); and the       *)
(* branches that landMergesInto holds as landed are merged into the        *)
(* default one (HooksLand), where merges are shown with their bases        *)
(* (BaseTrue), which one write of late news can spoil (NoLateBase).        *)
(***************************************************************************)
EXTENDS PullRequests, FiniteSetTheorems, WellFoundedInduction, TLAPS

-------------------------------------------------------------------------------
(* The types, and what the stage of a handler tells of the rest of it.       *)

\* A pull request is told under its own number.
Told(views) == \A p \in Pulls : views[p] # None => views[p].pull = p

\* A ticket that shows a pull request has its branch.
Entry(e) ==
  /\ e \in Entries
  /\ e.pull = 0 <=> e.state = "none"
  /\ e.pull = 0 => e.seq = 0
  /\ e.pull # 0 => e.branch = Head[e.pull]

Holds(k) == k.stage \in {"attaching", "writing"}

\* A handler, whatever it holds.
Shape(k) ==
  /\ k \in HookStates
  /\ k.stage # "idle" => k.view \in Views
  /\ Holds(k) => k.on \in Tickets
  /\ k.stage \in {"applying", "writing"} => k.todo \subseteq Tickets
  /\ k.stage = "carrying" =>
       k.todo \subseteq [ticket : Tickets, branch : Branches] /\ k.base \in Steps

\* What a handler holds, it holds alone.
Holding ==
  /\ lock \in [Tickets -> Hooks \cup {None}]
  /\ repoLock \in Hooks \cup {None}
  /\ \A t \in Tickets : lock[t] # None => hook[lock[t]].on = t /\ Holds(hook[lock[t]])
  /\ \A h \in Hooks : Holds(hook[h]) => lock[hook[h].on] = h
  /\ \A h \in Hooks : hook[h].stage = "attaching" => repoLock = h

GitHubOK ==
  /\ now \in Times
  /\ gh \in [Pulls -> Views \cup {None}]
  /\ contains \in [Bases -> SUBSET Pulls]
  /\ sent \subseteq Views
  /\ Told(gh)

StoreOK ==
  /\ remembered \in [Pulls -> Views \cup {None}]
  /\ Told(remembered)
  /\ spent \in [changes : 0..MaxChanges, spare : 0..MaxSpare, acts : 0..MaxActs,
                failures : 0..MaxFailures]

TicketsOK == ticket \in [Tickets -> Entries] /\ \A t \in Tickets : Entry(ticket[t])
HooksOK == hook \in [Hooks -> HookStates] /\ \A h \in Hooks : Shape(hook[h])

\* What a refresh has in its index is so still, unless the ticket has changed.
ScansFit(scans) ==
  /\ scans \in [Scans -> ScanStates]
  /\ \A s \in Scans : Told(scans[s].views)
  /\ \A s \in Scans : scans[s].stage # "idle" =>
       \A t \in Tickets \ scans[s].changed : scans[s].index[t] = ticket[t]
ScansOK == ScansFit(scan)

TypeInv ==
  GitHubOK /\ StoreOK /\ TicketsOK /\ HooksOK /\ Holding /\ ScansOK

LEMMA TypeInvImplies == TypeInv => TypeOK
BY DEF TypeInv, TypeOK, GitHubOK, StoreOK, TicketsOK, HooksOK, Holding, Holds, ScansOK, ScansFit

-------------------------------------------------------------------------------
(* What the operators of the model return.                                   *)

LEMMA NoneIsNothing ==
  /\ None \notin Views /\ None \notin Branches /\ None \notin Tickets /\ None \notin Hooks
  /\ None # Main /\ 0 \notin Pulls /\ Pulls \subseteq Nat
BY PullsAssumption, NoneAssumption

LEMMA NoHookTyped == Shape(NoHook) /\ NoHook.stage = "idle"
BY DEF Shape, NoHook, HookStates, Holds

LEMMA NoScanTyped ==
  /\ NoScan \in ScanStates
  /\ NoScan.stage = "idle"
  /\ Told(NoScan.views)
BY DEF NoScan, ScanStates, NoIndex, NoViews, Told

LEMMA NoEntryTyped ==
  /\ Entry(NoEntry)
  /\ Entry([NoEntry EXCEPT !.off = TRUE])
  /\ \A b \in Branches : Entry(OnBranch(b)) /\ OnBranch(b).branch = b /\ OnBranch(b).pull = 0
  /\ \A b \in Branches : OnBranch(b).last = 0 /\ OnBranch(b).state = "none" /\ OnBranch(b).seq = 0
BY DEF Entry, Entries, NoEntry, OnBranch

Landing(e, v, landed) ==
  IF v.state # "merged" THEN e.last
  ELSE IF landed \/ (e.pull = v.pull /\ e.last = v.pull) THEN v.pull ELSE 0

\* A patch shows the pull request it was given.
LEMMA PatchedIs ==
  ASSUME NEW e, Entry(e), NEW v \in Views, NEW landed \in BOOLEAN, e.branch = Head[v.pull]
  PROVE  /\ Entry(Patched(e, v, landed))
         /\ Patched(e, v, landed).branch = e.branch
         /\ Patched(e, v, landed).off = e.off
         /\ Patched(e, v, landed).pull = v.pull
         /\ Patched(e, v, landed).state = v.state
         /\ Patched(e, v, landed).base = v.base
<1> DEFINE n == Patched(e, v, landed)
           last == Landing(e, v, landed)
<1>1. v.pull \in Pulls /\ v.pull # 0 /\ v.state \in {"open", "closed", "merged"}
      /\ v.base \in Bases /\ v.seq \in Nat
  BY NoneIsNothing DEF Views
<1>2. last \in Pulls \cup {0} /\ e \in Entries
  BY <1>1 DEF Landing, Entry, Entries
<1>3. \/ n = e /\ e.pull = v.pull /\ e.state = v.state /\ e.base = v.base
      \/ n = [e EXCEPT !.pull = v.pull, !.state = v.state, !.base = v.base,
                       !.last = last, !.seq = v.seq]
  BY DEF Patched, Landing
<1> HIDE DEF n, last
<1>4. CASE n = e /\ e.pull = v.pull /\ e.state = v.state /\ e.base = v.base
  BY <1>4 DEF n
<1>5. CASE n = [e EXCEPT !.pull = v.pull, !.state = v.state, !.base = v.base,
                        !.last = last, !.seq = v.seq]
  <2>1. /\ n \in Entries /\ n.branch = e.branch /\ n.off = e.off /\ n.pull = v.pull
        /\ n.state = v.state /\ n.base = v.base
    BY <1>1, <1>2, <1>5 DEF Entries
  <2>2. Entry(n)
    BY <1>1, <2>1 DEF Entry
  <2>3. QED
    BY <2>1, <2>2 DEF n
<1>6. QED
  BY <1>3, <1>4, <1>5

LEMMA PatchedSeq ==
  ASSUME NEW e, Entry(e), NEW v \in Views, NEW landed \in BOOLEAN
  PROVE  \/ Patched(e, v, landed) = e /\ e.pull = v.pull /\ e.state = v.state /\ e.base = v.base
         \/ Patched(e, v, landed).seq = v.seq
<1>1. CASE Patched(e, v, landed) =
              [e EXCEPT !.pull = v.pull, !.state = v.state, !.base = v.base,
                        !.last = Landing(e, v, landed), !.seq = v.seq]
  BY <1>1 DEF Entry, Entries
<1>2. \/ Patched(e, v, landed) = e /\ e.pull = v.pull /\ e.state = v.state /\ e.base = v.base
      \/ Patched(e, v, landed) =
              [e EXCEPT !.pull = v.pull, !.state = v.state, !.base = v.base,
                        !.last = Landing(e, v, landed), !.seq = v.seq]
  BY DEF Patched, Landing
<1>3. QED
  BY <1>1, <1>2

\* What is shown as landed has landed now, or was shown so.
LEMMA PatchedLast ==
  ASSUME NEW e, Entry(e), NEW v \in Views, NEW landed \in BOOLEAN
  PROVE  LET n == Patched(e, v, landed) IN
         /\ n.last \in {e.last, 0, v.pull}
         /\ n.last = v.pull /\ n.last # e.last => landed /\ v.state = "merged"
         /\ v.state = "merged" /\ e.pull = v.pull /\ e.last = e.pull => n.last = e.pull
<1> DEFINE n == Patched(e, v, landed)
<1>1. CASE n = e
  BY <1>1
<1>2. CASE n = [e EXCEPT !.pull = v.pull, !.state = v.state, !.base = v.base,
                        !.last = Landing(e, v, landed), !.seq = v.seq]
  <2>1. n.last = Landing(e, v, landed)
    BY <1>2 DEF Entry, Entries
  <2>2. v.pull \in Pulls /\ v.pull # 0
    BY NoneIsNothing DEF Views
  <2> HIDE DEF n
  <2>3. QED
    BY <2>1, <2>2 DEF Landing, n
<1>3. n = e \/ n = [e EXCEPT !.pull = v.pull, !.state = v.state, !.base = v.base,
                             !.last = Landing(e, v, landed), !.seq = v.seq]
  BY DEF Patched, Landing
<1>4. QED
  BY <1>1, <1>2, <1>3 DEF n

LEMMA WebhookPatchIs ==
  ASSUME NEW e, Entry(e), NEW v \in Views, NEW landed \in BOOLEAN
  PROVE  /\ Entry(WebhookPatch(e, v, landed))
         /\ WebhookPatch(e, v, landed).branch = e.branch
         /\ \/ WebhookPatch(e, v, landed) = e
            \/ /\ e.pull = v.pull /\ e.state = "merged" /\ v.state # "merged"
               /\ WebhookPatch(e, v, landed) = [e EXCEPT !.base = v.base]
            \/ /\ e.branch = Head[v.pull]
               /\ e.pull = v.pull => (e.state = "merged" => v.state = "merged")
               /\ WebhookPatch(e, v, landed) = Patched(e, v, landed)
<1>1. CASE e.branch # Head[v.pull] \/ v.pull < e.pull
  BY <1>1 DEF WebhookPatch
<1>2. CASE ~(e.branch # Head[v.pull] \/ v.pull < e.pull)
           /\ e.pull = v.pull /\ e.state = "merged" /\ v.state # "merged"
  <2>1. WebhookPatch(e, v, landed) = [e EXCEPT !.base = v.base]
    BY <1>2 DEF WebhookPatch
  <2>2. Entry([e EXCEPT !.base = v.base]) /\ [e EXCEPT !.base = v.base].branch = e.branch
    BY DEF Entry, Entries, Views, Bases
  <2>3. QED
    BY <1>2, <2>1, <2>2
<1>3. CASE ~(e.branch # Head[v.pull] \/ v.pull < e.pull)
           /\ ~(e.pull = v.pull /\ e.state = "merged" /\ v.state # "merged")
  <2>1. WebhookPatch(e, v, landed) = Patched(e, v, landed)
    BY <1>3 DEF WebhookPatch
  <2>2. QED
    BY <1>3, <2>1, PatchedIs
<1>4. QED
  BY <1>1, <1>2, <1>3

-------------------------------------------------------------------------------
(* Where a handler goes from where it is.                                    *)

LEMMA AppliedShape ==
  ASSUME NEW h \in Hooks, Shape(hook[h]), hook[h].stage # "idle"
  PROVE  /\ Shape(Applied(h))
         /\ Applied(h).stage \in {"idle", "landing"}
<1>1. CASE ~hook[h].landed
  BY <1>1, NoHookTyped DEF Applied
<1>2. CASE hook[h].landed
  <2> DEFINE F == {[branch |-> BranchOf(h), at |-> hook[h].view.mergedAt]}
             V == {BranchOf(h)}
             k == Applied(h)
  <2>1. hook[h] \in HookStates /\ hook[h].view \in Views
    BY DEF Shape
  <2>2. hook[h].view.pull \in Pulls /\ hook[h].view.mergedAt \in Times
    BY <2>1 DEF Views
  <2>3. BranchOf(h) \in Branches
    BY <2>2, PullsAssumption DEF BranchOf
  <2>4. F \subseteq Steps /\ V \subseteq Branches
    BY <2>2, <2>3 DEF Steps
  <2>5. k = [hook[h] EXCEPT !.stage = "landing", !.todo = {}, !.on = None, !.front = F,
                            !.visited = V]
    BY <1>2 DEF Applied
  <2> HIDE DEF F, V, k
  <2>6. k \in HookStates /\ k.stage = "landing" /\ k.view = hook[h].view
    BY <2>1, <2>4, <2>5 DEF HookStates
  <2>7. Shape(k)
    BY <2>1, <2>6 DEF Shape, Holds
  <2>8. QED
    BY <2>6, <2>7 DEF k
<1>3. QED
  BY <1>1, <1>2

LEMMA OnwardShape ==
  ASSUME NEW h \in Hooks, Shape(hook[h]), hook[h].stage # "idle",
         NEW todo \in SUBSET Tickets
  PROVE  /\ Shape(Onward(h, todo))
         /\ Onward(h, todo).stage \in {"idle", "landing", "applying"}
<1>1. CASE todo = {}
  BY <1>1, AppliedShape DEF Onward
<1>2. CASE todo # {}
  <2> DEFINE k == Onward(h, todo)
  <2>1. k = [hook[h] EXCEPT !.stage = "applying", !.todo = todo, !.on = None]
    BY <1>2 DEF Onward
  <2> HIDE DEF k
  <2>2. hook[h] \in HookStates /\ hook[h].view \in Views
    BY DEF Shape
  <2>3. k \in HookStates /\ k.stage = "applying" /\ k.view = hook[h].view /\ k.todo = todo
    BY <2>1, <2>2 DEF HookStates
  <2>4. Shape(k)
    BY <2>2, <2>3 DEF Shape, Holds
  <2>5. QED
    BY <2>3, <2>4 DEF k
<1>3. QED
  BY <1>1, <1>2

LEMMA CarryOnShape ==
  ASSUME NEW n \in HookStates, n.view \in Views,
         n.todo \subseteq [ticket : Tickets, branch : Branches], n.base \in Steps
  PROVE  /\ Shape(CarryOn(n))
         /\ CarryOn(n).stage \in {"idle", "landing", "carrying"}
<1>1. CASE n.todo # {}
  <2> DEFINE k == CarryOn(n)
  <2>1. k = [n EXCEPT !.stage = "carrying"]
    BY <1>1 DEF CarryOn
  <2> HIDE DEF k
  <2>2. k \in HookStates /\ k.stage = "carrying" /\ k.view = n.view /\ k.todo = n.todo
        /\ k.base = n.base
    BY <2>1 DEF HookStates
  <2>3. QED
    BY <2>2 DEF Shape, Holds, k
<1>2. CASE n.todo = {} /\ n.front # {}
  <2> DEFINE k == CarryOn(n)
  <2>1. k = [n EXCEPT !.stage = "landing", !.base = None]
    BY <1>2 DEF CarryOn
  <2> HIDE DEF k
  <2>2. k \in HookStates /\ k.stage = "landing" /\ k.view = n.view
    BY <2>1 DEF HookStates
  <2>3. QED
    BY <2>2 DEF Shape, Holds, k
<1>3. CASE n.todo = {} /\ n.front = {}
  BY <1>3, NoHookTyped DEF CarryOn
<1>4. QED
  BY <1>1, <1>2, <1>3

-------------------------------------------------------------------------------
(* What a step of a handler does to it.                                      *)

Goes(h, k) == hook' = [hook EXCEPT ![h] = k] /\ Shape(k)
Quiet(k) == ~Holds(k)

LEMMA ReceiveIs ==
  ASSUME TypeInv, NEW h \in Hooks, NEW v \in sent, Receive(h, v)
  PROVE  \/ hook' = hook /\ remembered' = remembered
         \/ \E k : /\ Goes(h, k) /\ Quiet(k) /\ k.view = v /\ k.stage = "remembered"
                   /\ k = [NoHook EXCEPT !.stage = "remembered", !.view = v]
                   /\ Accepts(v) /\ Remember(v)
<1> DEFINE k == [NoHook EXCEPT !.stage = "remembered", !.view = v]
<1>1. v \in Views
  BY DEF TypeInv, GitHubOK
<1>2. k \in HookStates /\ k.stage = "remembered" /\ k.view = v
  BY <1>1 DEF NoHook, HookStates
<1>3. Shape(k) /\ Quiet(k)
  BY <1>1, <1>2 DEF Shape, Holds, Quiet
<1>4. CASE Accepts(v)
  <2>1. hook' = [hook EXCEPT ![h] = k] /\ Remember(v)
    BY <1>4 DEF Receive
  <2> HIDE DEF k
  <2>2. Goes(h, k)
    BY <2>1, <1>3 DEF Goes
  <2>3. QED
    BY <1>2, <1>3, <1>4, <2>1, <2>2 DEF k
<1>5. CASE ~Accepts(v)
  BY <1>5 DEF Receive
<1>6. QED
  BY <1>4, <1>5

LEMMA ReadHistoryIs ==
  ASSUME TypeInv, NEW h \in Hooks, ReadHistory(h)
  PROVE  \E k :
           /\ Goes(h, k) /\ Quiet(k) /\ k.view = hook[h].view /\ k.stage = "reconciled"
           /\ k.merged = Merged({remembered[p] : p \in {q \in Pulls : remembered[q] # None}})
           /\ k.landed = Landed(k.merged, hook[h].view)
           /\ k.merged \subseteq Views /\ k.landed \in BOOLEAN
<1> DEFINE M == Merged({remembered[p] : p \in {q \in Pulls : remembered[q] # None}})
           L == Landed(M, hook[h].view)
           k == [hook[h] EXCEPT !.stage = "reconciled", !.merged = M, !.landed = L]
<1>1. hook[h] \in HookStates /\ hook[h].stage = "remembered" /\ hook[h].view \in Views
  BY DEF ReadHistory, TypeInv, HooksOK, Shape
<1>2. M \subseteq Views
  BY DEF Merged, TypeInv, StoreOK
<1>3. L \in BOOLEAN
  BY DEF Landed
<1>4. hook' = [hook EXCEPT ![h] = k]
  BY DEF ReadHistory, TypeInv, HooksOK
<1> HIDE DEF M, L
<1>5. k \in HookStates /\ k.stage = "reconciled" /\ k.view = hook[h].view /\ k.merged = M
      /\ k.landed = L
  BY <1>1, <1>2, <1>3 DEF HookStates
<1> HIDE DEF k
<1>6. Goes(h, k) /\ Quiet(k)
  BY <1>1, <1>4, <1>5 DEF Goes, Shape, Quiet, Holds
<1>7. QED
  BY <1>2, <1>3, <1>5, <1>6 DEF M, L

Owners(h) == {t \in Tickets : ticket[t].branch = BranchOf(h)}

LEMMA FindOwnersIs ==
  ASSUME TypeInv, NEW h \in Hooks, FindOwners(h)
  PROVE  \E k : /\ Goes(h, k) /\ Quiet(k)
                /\ k \in {[hook[h] EXCEPT !.stage = "linking"], Onward(h, Owners(h))}
<1> DEFINE l == [hook[h] EXCEPT !.stage = "linking"]
<1>1. hook[h] \in HookStates /\ hook[h].stage = "reconciled" /\ hook[h].view \in Views
      /\ Shape(hook[h])
  BY DEF FindOwners, TypeInv, HooksOK, Shape
<1>2. CASE hook' = [hook EXCEPT ![h] = l]
  <2>1. l \in HookStates /\ l.stage = "linking" /\ l.view = hook[h].view
    BY <1>1 DEF HookStates
  <2>2. hook' = [hook EXCEPT ![h] = l]
    BY <1>2
  <2> HIDE DEF l
  <2>3. Goes(h, l) /\ Quiet(l)
    BY <1>1, <2>1, <2>2 DEF Goes, Shape, Quiet, Holds
  <2>4. QED
    BY <2>3 DEF l
<1>3. CASE hook' = [hook EXCEPT ![h] = Onward(h, Owners(h))]
  <2>1. Owners(h) \in SUBSET Tickets
    BY DEF Owners
  <2>2. Shape(Onward(h, Owners(h))) /\ Quiet(Onward(h, Owners(h)))
    BY <1>1, <2>1, OnwardShape DEF Quiet, Holds
  <2>3. QED
    BY <1>3, <2>2 DEF Goes
<1>4. QED
  BY <1>2, <1>3 DEF FindOwners, Owners

LEMMA LockToLinkIs ==
  ASSUME TypeInv, NEW h \in Hooks, LockToLink(h)
  PROVE  \/ \E k : /\ Goes(h, k) /\ ~Attached(BranchOf(h)) /\ Accepts(hook[h].view)
                   /\ Remember(hook[h].view)
                   /\ k.stage = "attaching" /\ k.view = hook[h].view
                   /\ k = [hook[h] EXCEPT !.stage = "attaching", !.on = Names[hook[h].view.pull]]
                   /\ lock[k.on] = None /\ repoLock = None
                   /\ lock' = [lock EXCEPT ![k.on] = h] /\ repoLock' = h
         \/ Goes(h, Applied(h)) /\ Quiet(Applied(h)) /\ UNCHANGED <<locks, remembered>>
<1> DEFINE t == Names[hook[h].view.pull]
           k == [hook[h] EXCEPT !.stage = "attaching", !.on = t]
<1>1. hook[h] \in HookStates /\ hook[h].stage = "linking" /\ hook[h].view \in Views
      /\ Shape(hook[h])
  BY DEF LockToLink, TypeInv, HooksOK, Shape
<1>2. t \in Tickets
  BY <1>1, PullsAssumption DEF Views
<1>3. CASE ~Attached(BranchOf(h)) /\ Accepts(hook[h].view)
  <2>1. k \in HookStates /\ k.stage = "attaching" /\ k.view = hook[h].view /\ k.on = t
    BY <1>1, <1>2 DEF HookStates
  <2>2. hook' = [hook EXCEPT ![h] = k]
    BY <1>3 DEF LockToLink, TypeInv, HooksOK
  <2>3. lock' = [lock EXCEPT ![t] = h] /\ repoLock' = h /\ Remember(hook[h].view)
        /\ lock[t] = None /\ repoLock = None
    BY <1>3 DEF LockToLink
  <2> HIDE DEF k, t
  <2>4. Goes(h, k)
    BY <1>1, <1>2, <2>1, <2>2 DEF Goes, Shape, Holds
  <2>5. \E j : /\ Goes(h, j) /\ ~Attached(BranchOf(h)) /\ Accepts(hook[h].view)
               /\ Remember(hook[h].view)
               /\ j.stage = "attaching" /\ j.view = hook[h].view
               /\ j = [hook[h] EXCEPT !.stage = "attaching", !.on = t]
               /\ lock[j.on] = None /\ repoLock = None
               /\ lock' = [lock EXCEPT ![j.on] = h] /\ repoLock' = h
    <3> WITNESS k
    <3>1. k = [hook[h] EXCEPT !.stage = "attaching", !.on = t]
      BY DEF k
    <3>2. QED
      BY <1>3, <2>1, <2>3, <2>4, <3>1
  <2>6. QED
    BY <2>5 DEF t
<1>4. CASE ~(~Attached(BranchOf(h)) /\ Accepts(hook[h].view))
  <2>1. Shape(Applied(h)) /\ Quiet(Applied(h))
    BY <1>1, AppliedShape DEF Quiet, Holds
  <2>2. QED
    BY <1>4, <2>1 DEF LockToLink, Goes
<1>5. QED
  BY <1>3, <1>4

LEMMA AttachIs ==
  ASSUME TypeInv, NEW h \in Hooks, Attach(h)
  PROVE  /\ Goes(h, Applied(h)) /\ Quiet(Applied(h)) /\ Unlock(h) /\ hook[h].on \in Tickets
         /\ hook[h].view \in Views /\ hook[h].landed \in BOOLEAN
         /\ BranchOf(h) \in Branches
         /\ repoLock = h /\ lock[hook[h].on] = h
<1>1. hook[h] \in HookStates /\ hook[h].stage = "attaching" /\ hook[h].view \in Views
      /\ Shape(hook[h]) /\ hook[h].on \in Tickets
  BY DEF Attach, TypeInv, HooksOK, Shape, Holds
<1>2. Shape(Applied(h)) /\ Quiet(Applied(h))
  BY <1>1, AppliedShape DEF Quiet, Holds
<1>3. BranchOf(h) \in Branches
  BY <1>1, PullsAssumption DEF BranchOf, Views
<1>4. repoLock = h /\ lock[hook[h].on] = h
  BY <1>1 DEF TypeInv, Holding, Holds
<1>5. hook[h].landed \in BOOLEAN
  BY <1>1 DEF HookStates
<1>6. QED
  BY <1>1, <1>2, <1>3, <1>4, <1>5 DEF Attach, Goes

LEMMA ClaimIs ==
  ASSUME TypeInv, NEW h \in Hooks, NEW t \in Tickets, Claim(h, t)
  PROVE  \/ \E k : /\ Goes(h, k) /\ Accepts(hook[h].view) /\ Remember(hook[h].view)
                   /\ k.stage = "writing" /\ k.view = hook[h].view /\ k.on = t
                   /\ k = [hook[h] EXCEPT !.stage = "writing", !.on = t]
                   /\ lock[t] = None /\ lock' = [lock EXCEPT ![t] = h]
         \/ \E k : /\ Goes(h, k) /\ Quiet(k) /\ k = Onward(h, hook[h].todo \ {t})
                   /\ UNCHANGED <<remembered, lock>>
<1> DEFINE k == [hook[h] EXCEPT !.stage = "writing", !.on = t]
<1>1. hook[h] \in HookStates /\ hook[h].stage = "applying" /\ hook[h].view \in Views
      /\ Shape(hook[h]) /\ hook[h].todo \subseteq Tickets
  BY DEF Claim, TypeInv, HooksOK, Shape
<1>2. CASE Accepts(hook[h].view)
  <2>1. k \in HookStates /\ k.stage = "writing" /\ k.view = hook[h].view /\ k.on = t
        /\ k.todo = hook[h].todo
    BY <1>1 DEF HookStates
  <2>2. hook' = [hook EXCEPT ![h] = k]
    BY <1>2 DEF Claim, TypeInv, HooksOK
  <2>3. lock' = [lock EXCEPT ![t] = h] /\ Remember(hook[h].view) /\ lock[t] = None
    BY <1>2 DEF Claim
  <2>4. k = [hook[h] EXCEPT !.stage = "writing", !.on = t]
    OBVIOUS
  <2> HIDE DEF k
  <2>5. Goes(h, k)
    BY <1>1, <2>1, <2>2 DEF Goes, Shape, Holds
  <2>6. QED
    BY <1>2, <2>1, <2>3, <2>4, <2>5
<1>3. CASE ~Accepts(hook[h].view)
  <2>1. Shape(Onward(h, hook[h].todo \ {t})) /\ Quiet(Onward(h, hook[h].todo \ {t}))
    <3>1. hook[h].todo \ {t} \in SUBSET Tickets
      BY <1>1
    <3>2. QED
      BY <1>1, <3>1, OnwardShape DEF Quiet, Holds
  <2>2. QED
    BY <1>3, <2>1 DEF Claim, Goes
<1>4. QED
  BY <1>2, <1>3

LEMMA WriteTicketIs ==
  ASSUME TypeInv, NEW h \in Hooks, WriteTicket(h)
  PROVE  /\ hook[h].on \in Tickets /\ hook[h].view \in Views /\ hook[h].landed \in BOOLEAN
         /\ Goes(h, Onward(h, hook[h].todo \ {hook[h].on}))
         /\ Quiet(Onward(h, hook[h].todo \ {hook[h].on}))
         /\ Unlock(h) /\ lock[hook[h].on] = h
<1> DEFINE k == Onward(h, hook[h].todo \ {hook[h].on})
<1>1. hook[h] \in HookStates /\ hook[h].stage = "writing" /\ hook[h].view \in Views
      /\ Shape(hook[h]) /\ hook[h].on \in Tickets /\ hook[h].todo \subseteq Tickets
  BY DEF WriteTicket, TypeInv, HooksOK, Shape, Holds
<1>2. hook[h].todo \ {hook[h].on} \in SUBSET Tickets
  BY <1>1
<1>3. Shape(k) /\ Quiet(k)
  BY <1>1, <1>2, OnwardShape DEF Quiet, Holds
<1>4. lock[hook[h].on] = h
  BY <1>1 DEF TypeInv, Holding, Holds
<1>5. hook[h].landed \in BOOLEAN
  BY <1>1 DEF HookStates
<1>6. QED
  BY <1>1, <1>3, <1>4, <1>5 DEF WriteTicket, Goes

LEMMA EntryBranch ==
  ASSUME NEW e, Entry(e), e.pull # 0
  PROVE  e.pull \in Pulls /\ e.branch \in Branches
BY PullsAssumption DEF Entry, Entries

LEMMA WaitsTyped ==
  ASSUME NEW e, Entry(e), NEW b, Waits(e, b)
  PROVE  /\ e.pull # 0 /\ e.pull \in Pulls /\ e.branch \in Branches /\ e.branch = Head[e.pull]
         /\ Entry([e EXCEPT !.last = e.pull])
<1>1. e.state = "merged" /\ e.pull # 0
  BY DEF Waits, Entry
<1>2. e.pull \in Pulls /\ e.branch \in Branches
  BY <1>1, EntryBranch
<1>3. [e EXCEPT !.last = e.pull] \in Entries
  BY <1>2 DEF Entry, Entries
<1>4. Entry([e EXCEPT !.last = e.pull])
  BY <1>1, <1>2, <1>3 DEF Entry, Entries
<1>5. QED
  BY <1>1, <1>2, <1>4 DEF Entry

LEMMA FindMergesAwaitingIs ==
  ASSUME TypeInv, NEW h \in Hooks, NEW base \in hook[h].front, FindMergesAwaiting(h, base)
  PROVE  /\ Goes(h, CarryOn(Awaiting(h, base))) /\ Quiet(CarryOn(Awaiting(h, base)))
         /\ Awaiting(h, base) \in HookStates /\ base \in Steps /\ hook[h].view \in Views
<1> DEFINE T == {[ticket |-> t, branch |-> ticket[t].branch] :
                   t \in {u \in Tickets : Waits(ticket[u], base.branch)}}
           n == Awaiting(h, base)
<1>1. hook[h] \in HookStates /\ hook[h].stage = "landing" /\ hook[h].view \in Views
  BY DEF FindMergesAwaiting, TypeInv, HooksOK, Shape
<1>2. base \in Steps
  BY <1>1 DEF HookStates
<1>3. T \subseteq [ticket : Tickets, branch : Branches]
  <2>1. ASSUME NEW t \in Tickets, Waits(ticket[t], base.branch)
        PROVE  ticket[t].branch \in Branches
    BY <2>1, WaitsTyped DEF TypeInv, TicketsOK
  <2>2. QED
    BY <2>1
<1>4. n = [hook[h] EXCEPT !.base = base, !.front = @ \ {base}, !.todo = T]
  BY DEF Awaiting
<1> HIDE DEF T, n
<1>5. n \in HookStates /\ n.view = hook[h].view /\ n.todo = T /\ n.base = base
  BY <1>1, <1>2, <1>3, <1>4 DEF HookStates
<1>6. Shape(CarryOn(n)) /\ Quiet(CarryOn(n))
  BY <1>1, <1>2, <1>3, <1>5, CarryOnShape DEF Quiet, Holds
<1>7. hook' = [hook EXCEPT ![h] = CarryOn(n)]
  BY DEF FindMergesAwaiting, n
<1>8. QED
  BY <1>1, <1>2, <1>5, <1>6, <1>7 DEF Goes, n

Rest(h, m) == [hook[h] EXCEPT !.todo = @ \ {m}]
Further(h, m, e) ==
  [Rest(h, m) EXCEPT !.visited = @ \cup {m.branch},
                     !.front = @ \cup {[branch |-> m.branch, at |-> mergedAt] :
                                          mergedAt \in MergedBefore(h, e)}]

LEMMA LandIs ==
  ASSUME TypeInv, NEW h \in Hooks, hook[h].stage = "carrying", NEW m \in hook[h].todo,
         Land(h, m)
  PROVE  /\ m.ticket \in Tickets /\ m.branch \in Branches
         /\ hook[h].base \in Steps /\ hook[h].view \in Views
         /\ \/ \E k : /\ Goes(h, k) /\ Quiet(k) /\ k = CarryOn(Further(h, m, ticket[m.ticket]))
                      /\ Further(h, m, ticket[m.ticket]) \in HookStates
                      /\ lock[m.ticket] = None
                      /\ ticket[m.ticket].branch = m.branch
                      /\ Waits(ticket[m.ticket], hook[h].base.branch)
                      /\ MergedBefore(h, ticket[m.ticket]) # {}
                      /\ Write(m.ticket, [ticket[m.ticket] EXCEPT !.last = ticket[m.ticket].pull],
                               scan)
            \/ \E k : /\ Goes(h, k) /\ Quiet(k) /\ k = CarryOn(Rest(h, m))
                      /\ Rest(h, m) \in HookStates
                      /\ UNCHANGED <<ticket, scan>>
<1> DEFINE e == ticket[m.ticket]
           r == Rest(h, m)
           n == Further(h, m, e)
           A == {[branch |-> m.branch, at |-> mergedAt] : mergedAt \in MergedBefore(h, e)}
<1>1. hook[h] \in HookStates /\ hook[h].view \in Views /\ hook[h].base \in Steps
      /\ hook[h].todo \subseteq [ticket : Tickets, branch : Branches]
  BY DEF TypeInv, HooksOK, Shape
<1>2. m.ticket \in Tickets /\ m.branch \in Branches
  BY <1>1
<1>3. r = [hook[h] EXCEPT !.todo = @ \ {m}]
  BY DEF Rest
<1>4. n = [r EXCEPT !.visited = @ \cup {m.branch}, !.front = @ \cup A]
  BY DEF Further
<1>5. A \subseteq Steps
  <2>1. hook[h].merged \subseteq Views
    BY <1>1 DEF HookStates
  <2>2. MergedBefore(h, e) \subseteq Times
    BY <2>1 DEF MergedBefore, Views
  <2>3. QED
    BY <1>2, <2>2 DEF Steps
<1> HIDE DEF r, n, A, e
<1>6. hook[h].todo \ {m} \subseteq Tickets \cup [ticket : Tickets, branch : Branches]
  BY <1>1
<1>7. r \in HookStates /\ r.view = hook[h].view /\ r.todo = hook[h].todo \ {m}
      /\ r.base = hook[h].base
  BY <1>1, <1>3, <1>6 DEF HookStates
<1>8. n \in HookStates /\ n.view = hook[h].view /\ n.todo = hook[h].todo \ {m}
      /\ n.base = hook[h].base
  <2>1. r.visited \cup {m.branch} \subseteq Branches /\ r.front \cup A \subseteq Steps
    BY <1>2, <1>5, <1>7 DEF HookStates
  <2>2. QED
    BY <1>4, <1>7, <2>1 DEF HookStates
<1>9. Shape(CarryOn(r)) /\ Quiet(CarryOn(r))
  BY <1>1, <1>7, CarryOnShape DEF Quiet, Holds
<1>10. Shape(CarryOn(n)) /\ Quiet(CarryOn(n))
  BY <1>1, <1>8, CarryOnShape DEF Quiet, Holds
<1>11. CASE /\ m.branch \notin hook[h].visited
            /\ e.branch = m.branch /\ Waits(e, hook[h].base.branch) /\ MergedBefore(h, e) # {}
  <2>1. /\ hook' = [hook EXCEPT ![h] = CarryOn(n)]
        /\ Write(m.ticket, [e EXCEPT !.last = e.pull], scan)
        /\ lock[m.ticket] = None
    BY <1>11 DEF Land, Further, Rest, e, n
  <2>2. QED
    BY <1>1, <1>2, <1>8, <1>10, <1>11, <2>1 DEF Goes, e, n
<1>12. CASE ~(/\ m.branch \notin hook[h].visited
              /\ e.branch = m.branch /\ Waits(e, hook[h].base.branch) /\ MergedBefore(h, e) # {})
  <2>1. /\ hook' = [hook EXCEPT ![h] = CarryOn(r)]
        /\ UNCHANGED <<ticket, scan>>
    BY <1>12 DEF Land, Rest, e, r
  <2>2. QED
    BY <1>1, <1>2, <1>7, <1>9, <2>1 DEF Goes, r
<1>13. QED
  BY <1>11, <1>12

-------------------------------------------------------------------------------
(* What a write does to the tickets and to the refreshes.                    *)

LEMMA SavedScans ==
  ASSUME NEW scans \in [Scans -> ScanStates], NEW t \in Tickets, NEW e, Save(t, e, scans),
         NEW s \in Scans
  PROVE  /\ scan' = [r \in Scans |-> scan'[r]] /\ scan'[s] \in ScanStates
         /\ scan'[s].stage = scans[s].stage /\ scan'[s].cached = scans[s].cached
         /\ scan'[s].index = scans[s].index /\ scan'[s].views = scans[s].views
         /\ scan'[s].todo = scans[s].todo /\ scan'[s].left = scans[s].left
         /\ scans[s].stage # "idle" => scan'[s].changed = scans[s].changed \cup {t}
         /\ scans[s].cached \/ scans[s].stage \in {"fetching", "reconciling"}
              => scan'[s].late = scans[s].late \cup {t}
<1> DEFINE c == IF scans[s].stage = "idle" THEN {} ELSE scans[s].changed \cup {t}
           l == IF scans[s].cached \/ scans[s].stage \in {"fetching", "reconciling"}
                THEN scans[s].late \cup {t} ELSE scans[s].late
<1>1. scan' = [r \in Scans |->
                [scans[r] EXCEPT !.changed = IF scans[r].stage = "idle" THEN {} ELSE @ \cup {t},
                  !.late = IF scans[r].cached \/ scans[r].stage \in {"fetching", "reconciling"}
                           THEN @ \cup {t} ELSE @]]
  BY DEF Save
<1>2. scan'[s] = [scans[s] EXCEPT !.changed = c, !.late = l] /\ scan' = [r \in Scans |-> scan'[r]]
  BY <1>1
<1>3. c \in SUBSET Tickets /\ l \in SUBSET Tickets /\ scans[s] \in ScanStates
  BY DEF ScanStates
<1>4. scans[s].stage # "idle" => c = scans[s].changed \cup {t}
  OBVIOUS
<1>5. scans[s].cached \/ scans[s].stage \in {"fetching", "reconciling"}
        => l = scans[s].late \cup {t}
  OBVIOUS
<1> HIDE DEF c, l
<1>6. QED
  BY <1>2, <1>3, <1>4, <1>5 DEF ScanStates

LEMMA WriteKeeps ==
  ASSUME TypeInv, NEW scans, ScansFit(scans), NEW t \in Tickets, NEW e, Entry(e),
         Write(t, e, scans) \/ Save(t, e, scans)
  PROVE  TicketsOK' /\ ScansOK' /\ ticket'[t] = e
         /\ \A u \in Tickets \ {t} : ticket'[u] = ticket[u]
<1>0. scans \in [Scans -> ScanStates] /\ ticket \in [Tickets -> Entries]
      /\ \A u \in Tickets : Entry(ticket[u])
  BY DEF ScansFit, TypeInv, TicketsOK
<1>1. CASE e = ticket[t] /\ UNCHANGED ticket /\ scan' = scans
  BY <1>0, <1>1 DEF ScansOK, ScansFit, TicketsOK
<1>2. CASE Save(t, e, scans)
  <2>1. ticket' = [ticket EXCEPT ![t] = e]
    BY <1>2 DEF Save
  <2>2. e \in Entries
    BY DEF Entry
  <2>3. TicketsOK' /\ ticket'[t] = e /\ \A u \in Tickets \ {t} : ticket'[u] = ticket[u]
    BY <1>0, <2>1, <2>2 DEF TicketsOK
  <2>4. ASSUME NEW s \in Scans
        PROVE  /\ scan' = [r \in Scans |-> scan'[r]] /\ scan'[s] \in ScanStates
               /\ Told(scan'[s].views)
               /\ scan'[s].stage # "idle" =>
                    \A u \in Tickets \ scan'[s].changed : scan'[s].index[u] = ticket'[u]
    <3>1. /\ scan' = [r \in Scans |-> scan'[r]] /\ scan'[s] \in ScanStates
          /\ scan'[s].stage = scans[s].stage
          /\ scan'[s].index = scans[s].index /\ scan'[s].views = scans[s].views
          /\ scans[s].stage # "idle" => scan'[s].changed = scans[s].changed \cup {t}
      BY <1>0, <1>2, SavedScans
    <3>2. QED
      BY <2>3, <3>1 DEF ScansFit
  <2>5. scan' \in [Scans -> ScanStates]
    <3>1. CASE Scans = {}
      BY <1>2, <3>1 DEF Save
    <3>2. CASE Scans # {}
      BY <2>4, <3>2
    <3>3. QED
      BY <3>1, <3>2
  <2>6. QED
    BY <2>3, <2>4, <2>5 DEF ScansOK, ScansFit
<1>3. QED
  BY <1>1, <1>2 DEF Write

LEMMA SelectedIs ==
  ASSUME NEW views \in [Pulls -> Views \cup {None}], NEW b, HasPull(views, b)
  PROVE  /\ Selected(views, b) \in Pulls /\ Head[Selected(views, b)] = b
         /\ views[Selected(views, b)] # None /\ views[Selected(views, b)] \in Views
<1> DEFINE pulls == {p \in Pulls : views[p] # None /\ Head[p] = b}
           open == {p \in pulls : views[p].state = "open"}
           last == {p \in pulls : \A q \in pulls : views[q].at <= views[p].at}
           N == {n \in Nat : \E p \in pulls : views[p].at = MaxTime - n}
<1>1. \A p \in pulls : views[p].at \in 0..MaxTime
  BY DEF Views, Times
<1>2. last # {}
  <2>1. PICK p \in pulls : TRUE
    BY DEF HasPull
  <2>2. MaxTime \in Nat
    BY PullsAssumption
  <2>3. MaxTime - views[p].at \in N
    BY <1>1, <2>1, <2>2
  <2>4. N \subseteq Nat /\ N # {}
    BY <2>3
  <2> HIDE DEF N
  <2>5. PICK n \in N : \A k \in N : <<k, n>> \notin OpToRel(<, Nat)
    BY <2>4, NatLessThanWellFounded, WFMin
  <2>6. \A k \in N : ~(k < n)
    BY <2>4, <2>5 DEF OpToRel
  <2>7. PICK q \in pulls : views[q].at = MaxTime - n
    BY <2>5 DEF N
  <2>8. ASSUME NEW r \in pulls
        PROVE  views[r].at <= views[q].at
    <3>1. MaxTime - views[r].at \in N
      BY <1>1, <2>2 DEF N
    <3>2. ~(MaxTime - views[r].at < n) /\ n \in Nat
      BY <2>4, <2>6, <3>1
    <3>3. QED
      BY <1>1, <2>2, <2>7, <3>2
  <2>9. QED
    BY <2>7, <2>8
<1>3. Selected(views, b) \in pulls
  <2>1. Selected(views, b) = IF open # {} THEN CHOOSE p \in open : TRUE ELSE CHOOSE p \in last : TRUE
    BY DEF Selected
  <2>2. (CHOOSE p \in last : TRUE) \in last
    BY <1>2
  <2>3. open # {} => (CHOOSE p \in open : TRUE) \in open
    OBVIOUS
  <2>4. open \subseteq pulls /\ last \subseteq pulls
    OBVIOUS
  <2> HIDE DEF open, last, pulls
  <2>5. QED
    BY <2>1, <2>2, <2>3, <2>4
<1>4. QED
  BY <1>3

-------------------------------------------------------------------------------
(* What a step of a refresh does to it.                                      *)

\* What a refresh plans for a ticket comes from a pull request it was told of.
Planned(s, t, v, next) ==
  /\ v.pull \in Pulls /\ scan[s].views[v.pull] = v
  /\ \/ ticket[t].branch = Head[v.pull]
        /\ next = Patched(ticket[t], v, Landed(KnownMerges(scan[s].index, scan[s].views), v))
     \/ /\ ticket[t].branch = None
        /\ next = Patched(OnBranch(Head[v.pull]), v,
                          Landed(KnownMerges(scan[s].index, scan[s].views), v))

\* A branch without a pull request is linked by its name.
Bare(t, next) == ticket[t].branch = None /\ \E b \in Branches : next = OnBranch(b)

LEMMA PlanIs ==
  ASSUME TypeInv, NEW s \in Scans, scan[s].stage # "idle", NEW t \in Tickets \ scan[s].changed
  PROVE  \/ PlanOf(scan[s].index, scan[s].views, t) = ticket[t]
         \/ \E v \in Views : Planned(s, t, v, PlanOf(scan[s].index, scan[s].views, t))
         \/ Bare(t, PlanOf(scan[s].index, scan[s].views, t))
<1> DEFINE index == scan[s].index
           views == scan[s].views
           e == ticket[t]
           found == Bottoms(index, views, t)
<1>1. scan[s] \in ScanStates /\ index[t] = e /\ Entry(e) /\ Told(views)
  BY DEF TypeInv, ScansOK, ScansFit, TicketsOK
<1>2. views \in [Pulls -> Views \cup {None}]
  BY <1>1 DEF ScanStates
<1>3. ASSUME NEW o, HasPull(views, o.branch)
      PROVE  \E v \in Views : /\ v.pull \in Pulls /\ views[v.pull] = v /\ Head[v.pull] = o.branch
                              /\ PlanFor(index, views, o)
                                   = Patched(o, v, Landed(KnownMerges(index, views), v))
  <2> DEFINE v == views[Selected(views, o.branch)]
  <2> HIDE DEF index, views
  <2>1. /\ Selected(views, o.branch) \in Pulls /\ Head[Selected(views, o.branch)] = o.branch
        /\ v # None /\ v \in Views
    BY <1>2, <1>3, SelectedIs
  <2>2. v.pull = Selected(views, o.branch)
    BY <1>1, <2>1 DEF Told, index, views
  <2>3. PlanFor(index, views, o) = Patched(o, v, Landed(KnownMerges(index, views), v))
    BY <1>3 DEF PlanFor
  <2>4. QED
    BY <2>1, <2>2, <2>3
<1>4. ASSUME NEW o, ~HasPull(views, o.branch)
      PROVE  PlanFor(index, views, o) = o
  BY <1>4 DEF PlanFor
<1>5. CASE PlanOf(index, views, t) = PlanFor(index, views, e)
  <2>1. CASE HasPull(views, e.branch)
    <3>1. PICK v \in Views : /\ v.pull \in Pulls /\ views[v.pull] = v /\ Head[v.pull] = e.branch
                             /\ PlanFor(index, views, e)
                                  = Patched(e, v, Landed(KnownMerges(index, views), v))
      BY <1>3, <2>1
    <3>2. QED
      BY <1>5, <3>1 DEF Planned
  <2>2. QED
    BY <1>4, <1>5, <2>1
<1>6. CASE /\ e.branch = None /\ Cardinality(found) = 1
           /\ PlanOf(index, views, t) = PlanFor(index, views, OnBranch(CHOOSE b \in found : TRUE))
  <2> DEFINE b == CHOOSE c \in found : TRUE
             o == OnBranch(b)
  <2>1. found # {}
    BY <1>6, FS_EmptySet
  <2>2. b \in found
    BY <2>1
  <2>3. b \in Branches
    BY <2>2 DEF Bottoms, Candidates
  <2>4. PlanOf(index, views, t) = PlanFor(index, views, o)
    BY <1>6
  <2> HIDE DEF b, found
  <2>5. o.branch = b
    BY <2>3, NoEntryTyped
  <2>6. CASE HasPull(views, o.branch)
    <3>1. PICK v \in Views : /\ v.pull \in Pulls /\ views[v.pull] = v /\ Head[v.pull] = o.branch
                             /\ PlanFor(index, views, o)
                                  = Patched(o, v, Landed(KnownMerges(index, views), v))
      BY <1>3, <2>6
    <3>2. QED
      BY <1>6, <2>4, <2>5, <3>1 DEF Planned
  <2>7. CASE ~HasPull(views, o.branch)
    BY <1>4, <1>6, <2>3, <2>4, <2>7 DEF Bare
  <2>8. QED
    BY <2>6, <2>7
<1>7. QED
  BY <1>1, <1>5, <1>6 DEF PlanOf

LEMMA PlannedTyped ==
  ASSUME TypeInv, NEW s \in Scans, NEW t \in Tickets, NEW v \in Views, NEW n,
         Planned(s, t, v, n)
  PROVE  /\ Entry(n) /\ n.pull = v.pull /\ n.state = v.state /\ n.branch = Head[v.pull]
         /\ n.base = v.base
<1> DEFINE landed == Landed(KnownMerges(scan[s].index, scan[s].views), v)
<1>1. landed \in BOOLEAN
  BY DEF Landed
<1>2. Entry(ticket[t]) /\ Head[v.pull] \in Branches
  BY PullsAssumption DEF Planned, TypeInv, TicketsOK
<1>3. Entry(OnBranch(Head[v.pull])) /\ OnBranch(Head[v.pull]).branch = Head[v.pull]
  BY <1>2, NoEntryTyped
<1>4. \/ ticket[t].branch = Head[v.pull] /\ n = Patched(ticket[t], v, landed)
      \/ n = Patched(OnBranch(Head[v.pull]), v, landed)
  BY DEF Planned
<1> HIDE DEF landed
<1>5. QED
  BY <1>1, <1>2, <1>3, <1>4, PatchedIs

LEMMA WithoutFits ==
  ASSUME TypeInv, NEW s \in Scans, scan[s].stage = "reconciling", NEW t \in Tickets
  PROVE  /\ ScansFit(Without(s, t))
         /\ \A r \in Scans : /\ Without(s, t)[r].views = scan[r].views
                             /\ Without(s, t)[r].cached = scan[r].cached
                             /\ Without(s, t)[r].late = scan[r].late
                             /\ Without(s, t)[r].stage \in {scan[r].stage, "idle"}
                             /\ r # s => Without(s, t)[r] = scan[r]
<1> DEFINE i == [scan[s] EXCEPT !.stage = "idle", !.index = NoIndex, !.changed = {}, !.todo = {}]
           o == [scan[s] EXCEPT !.todo = scan[s].todo \ {t}]
           W == Without(s, t)
<1>1. scan \in [Scans -> ScanStates]
  BY DEF TypeInv, ScansOK, ScansFit
<1>2. W = [scan EXCEPT ![s] = i] \/ W = [scan EXCEPT ![s] = o]
  BY DEF Without
<1>3. i \in ScanStates /\ i.stage = "idle" /\ i.views = scan[s].views /\ i.cached = scan[s].cached
      /\ i.late = scan[s].late
  BY <1>1 DEF ScanStates, NoIndex
<1>4. o \in ScanStates /\ o.stage = scan[s].stage /\ o.views = scan[s].views
      /\ o.cached = scan[s].cached /\ o.late = scan[s].late /\ o.index = scan[s].index
      /\ o.changed = scan[s].changed
  BY <1>1 DEF ScanStates
<1> HIDE DEF i, o, W
<1>5. W[s] \in {i, o} /\ \A r \in Scans \ {s} : W[r] = scan[r]
  BY <1>1, <1>2
<1>6. W \in [Scans -> ScanStates]
  BY <1>1, <1>2, <1>3, <1>4
<1>7. ScansFit(W)
  BY <1>3, <1>4, <1>5, <1>6 DEF TypeInv, ScansOK, ScansFit
<1>8. \A r \in Scans : /\ W[r].views = scan[r].views
                       /\ W[r].cached = scan[r].cached
                       /\ W[r].late = scan[r].late
                       /\ W[r].stage \in {scan[r].stage, "idle"}
                       /\ r # s => W[r] = scan[r]
  BY <1>3, <1>4, <1>5
<1>9. QED
  BY <1>7, <1>8 DEF W

LEMMA ReconcileIs ==
  ASSUME TypeInv, NEW s \in Scans, NEW t \in Tickets, Reconcile(s, t)
  PROVE  /\ TicketsOK' /\ ScansOK' /\ scan[s].stage = "reconciling" /\ lock[t] = None
         /\ \/ UNCHANGED ticket /\ scan' = Without(s, t)
            \/ \E next :
                 /\ Entry(next) /\ Current(s, t)
                 /\ next = ticket[t] \/ (\E v \in Views : Planned(s, t, v, next)) \/ Bare(t, next)
                 /\ Write(t, next, Without(s, t))
                 /\ next.branch # ticket[t].branch => repoLock = None /\ ~Attached(next.branch)
                 /\ ticket'[t] = next /\ \A u \in Tickets \ {t} : ticket'[u] = ticket[u]
<1> DEFINE next == PlanOf(scan[s].index, scan[s].views, t)
<1>1. scan[s].stage = "reconciling" /\ lock[t] = None
  BY DEF Reconcile
<1>2. ScansFit(Without(s, t))
  BY <1>1, WithoutFits
<1>3. CASE UNCHANGED ticket /\ scan' = Without(s, t)
  <2>1. TicketsOK' /\ ScansOK'
    BY <1>2, <1>3 DEF TypeInv, TicketsOK, ScansOK, ScansFit
  <2>2. QED
    BY <1>1, <1>3, <2>1
<1>4. CASE /\ Current(s, t) /\ Write(t, next, Without(s, t))
           /\ next.branch # ticket[t].branch => repoLock = None /\ ~Attached(next.branch)
  <2>1. t \in Tickets \ scan[s].changed
    BY <1>4 DEF Current
  <2>2. next = ticket[t] \/ (\E v \in Views : Planned(s, t, v, next)) \/ Bare(t, next)
    BY <1>1, <2>1, PlanIs
  <2> HIDE DEF next
  <2>3. Entry(next)
    BY <2>2, PlannedTyped, NoEntryTyped DEF TypeInv, TicketsOK, Bare
  <2>4. TicketsOK' /\ ScansOK' /\ ticket'[t] = next
        /\ \A u \in Tickets \ {t} : ticket'[u] = ticket[u]
    BY <1>2, <1>4, <2>3, WriteKeeps
  <2>5. QED
    BY <1>1, <1>4, <2>2, <2>3, <2>4
<1>5. QED
  BY <1>3, <1>4 DEF Reconcile

\* The other steps of a refresh change nothing else.
LEMMA ScanStepKeeps ==
  ASSUME TypeInv, NEW s \in Scans,
         \/ ListTickets(s) \/ StartFetch(s) \/ Cached(s) \/ FetchFails(s)
         \/ \E b \in Branches : Fetched(s, b)
  PROVE  ScansOK' /\ UNCHANGED <<github, remembered, ticket, locks, hook>>
<1>1. scan \in [Scans -> ScanStates] /\ scan[s] \in ScanStates /\ Told(scan[s].views)
      /\ ticket \in [Tickets -> Entries]
  BY DEF TypeInv, ScansOK, ScansFit, TicketsOK
<1>2. UNCHANGED <<github, remembered, ticket, locks, hook>>
  BY DEF ListTickets, StartFetch, Cached, FetchFails, Fetched
<1>3. ASSUME NEW k, scan' = [scan EXCEPT ![s] = k], k \in ScanStates, Told(k.views),
             k.stage # "idle" => \A t \in Tickets \ k.changed : k.index[t] = ticket[t]
      PROVE  ScansOK'
  <2>1. scan' \in [Scans -> ScanStates] /\ scan'[s] = k /\ \A r \in Scans \ {s} : scan'[r] = scan[r]
    BY <1>1, <1>3
  <2>2. ticket' = ticket
    BY <1>2
  <2>3. QED
    BY <1>3, <2>1, <2>2 DEF TypeInv, ScansOK, ScansFit
<1>4. CASE ListTickets(s)
  <2> DEFINE k == [scan[s] EXCEPT !.stage = "listed", !.index = ticket]
  <2>1. scan' = [scan EXCEPT ![s] = k]
    BY <1>1, <1>4 DEF ListTickets
  <2>2. ticket \in [Tickets -> Entries \cup {None}]
    BY <1>1
  <2>3. k \in ScanStates /\ k.index = ticket /\ k.views = scan[s].views
    BY <1>1, <2>2 DEF ScanStates
  <2> HIDE DEF k
  <2>4. QED
    BY <1>1, <1>2, <1>3, <2>1, <2>3
<1>5. CASE StartFetch(s)
  <2> DEFINE k == [scan[s] EXCEPT !.stage = "fetching", !.cached = FALSE, !.late = {},
                                  !.left = Branches, !.views = NoViews]
  <2>1. scan' = [scan EXCEPT ![s] = k] /\ scan[s].stage = "listed"
    BY <1>1, <1>5 DEF StartFetch
  <2>2. k \in ScanStates /\ k.index = scan[s].index /\ k.views = NoViews
        /\ k.changed = scan[s].changed
    BY <1>1 DEF ScanStates, NoViews
  <2>3. Told(NoViews)
    BY NoScanTyped DEF NoScan
  <2> HIDE DEF k
  <2>4. \A t \in Tickets \ k.changed : k.index[t] = ticket[t]
    BY <2>1, <2>2 DEF TypeInv, ScansOK, ScansFit
  <2>5. QED
    BY <1>2, <1>3, <2>1, <2>2, <2>3, <2>4
<1>6. CASE FetchFails(s)
  <2>1. scan' = [scan EXCEPT ![s] = NoScan]
    BY <1>6 DEF FetchFails
  <2>2. QED
    BY <1>2, <1>3, <2>1, NoScanTyped
<1>7. Answered(s) \in ScanStates /\ Answered(s).index = scan[s].index
      /\ Answered(s).changed = scan[s].changed /\ Answered(s).views = scan[s].views
  BY <1>1 DEF Answered, ScanStates
<1>8. CASE Cached(s)
  <2>1. scan' = [scan EXCEPT ![s] = Answered(s)] /\ scan[s].stage = "listed"
    BY <1>8 DEF Cached
  <2>2. \A t \in Tickets \ scan[s].changed : scan[s].index[t] = ticket[t]
    BY <2>1 DEF TypeInv, ScansOK, ScansFit
  <2>3. QED
    BY <1>1, <1>2, <1>3, <1>7, <2>1, <2>2
<1>9. ASSUME NEW b \in Branches, Fetched(s, b)
      PROVE  ScansOK'
  <2> DEFINE k == IF scan[s].left = {b} THEN [Answered(s) EXCEPT !.views = Asked(s, b)]
                  ELSE [scan[s] EXCEPT !.views = Asked(s, b), !.left = scan[s].left \ {b}]
  <2>1. scan' = [scan EXCEPT ![s] = k] /\ scan[s].stage = "fetching"
    BY <1>9 DEF Fetched
  <2>2. \A t \in Tickets \ scan[s].changed : scan[s].index[t] = ticket[t]
    BY <2>1 DEF TypeInv, ScansOK, ScansFit
  <2>3. Asked(s, b) \in [Pulls -> Views \cup {None}] /\ Told(Asked(s, b))
    BY <1>1 DEF Asked, TypeInv, GitHubOK, Told, ScanStates
  <2>4. k \in ScanStates /\ k.index = scan[s].index /\ k.views = Asked(s, b)
        /\ k.changed = scan[s].changed
    BY <1>1, <1>7, <2>3 DEF ScanStates
  <2> HIDE DEF k
  <2>5. QED
    BY <1>2, <1>3, <2>1, <2>2, <2>3, <2>4
<1>10. QED
  BY <1>2, <1>4, <1>5, <1>6, <1>8, <1>9

-------------------------------------------------------------------------------
(* The types hold for ever.                                                  *)

LEMMA HooksKeep ==
  ASSUME TypeInv, NEW h \in Hooks, NEW k, Goes(h, k)
  PROVE  HooksOK' /\ hook'[h] = k /\ \A g \in Hooks \ {h} : hook'[g] = hook[g]
<1>1. hook \in [Hooks -> HookStates] /\ k \in HookStates /\ hook' = [hook EXCEPT ![h] = k]
      /\ Shape(k)
  BY DEF TypeInv, HooksOK, Goes, Shape
<1>2. hook' \in [Hooks -> HookStates] /\ hook'[h] = k /\ \A g \in Hooks \ {h} : hook'[g] = hook[g]
  BY <1>1
<1>3. \A g \in Hooks : Shape(hook'[g])
  BY <1>1, <1>2 DEF TypeInv, HooksOK
<1>4. QED
  BY <1>2, <1>3 DEF HooksOK

\* A handler that holds nothing goes where it holds nothing.
LEMMA QuietHolding ==
  ASSUME TypeInv, NEW h \in Hooks, NEW k, Goes(h, k), Quiet(k), ~Holds(hook[h]), UNCHANGED locks
  PROVE  Holding'
<1>1. hook'[h] = k /\ \A g \in Hooks \ {h} : hook'[g] = hook[g]
  BY HooksKeep
<1>2. k.stage # "attaching" /\ ~Holds(k)
  BY DEF Quiet, Holds
<1>3. \A t \in Tickets : lock[t] # h
  BY NoneIsNothing DEF TypeInv, Holding
<1>4. QED
  BY <1>1, <1>2, <1>3 DEF TypeInv, Holding, locks

\* A handler that gives its locks back.
LEMMA UnlockHolding ==
  ASSUME TypeInv, NEW h \in Hooks, NEW k, Goes(h, k), Quiet(k), Unlock(h)
  PROVE  Holding'
<1>1. hook'[h] = k /\ \A g \in Hooks \ {h} : hook'[g] = hook[g]
  BY HooksKeep
<1>2. k.stage # "attaching" /\ ~Holds(k)
  BY DEF Quiet, Holds
<1>3. /\ lock' = [t \in Tickets |-> IF lock[t] = h THEN None ELSE lock[t]]
      /\ repoLock' = IF repoLock = h THEN None ELSE repoLock
  BY DEF Unlock
<1>4. lock \in [Tickets -> Hooks \cup {None}] /\ repoLock \in Hooks \cup {None}
  BY DEF TypeInv, Holding
<1>5. lock' \in [Tickets -> Hooks \cup {None}] /\ repoLock' \in Hooks \cup {None}
  BY <1>3, <1>4
<1>6. \A t \in Tickets : lock'[t] # None => lock'[t] = lock[t] /\ lock[t] # h
  BY <1>3
<1>7. \A t \in Tickets : lock'[t] # None => hook'[lock'[t]].on = t /\ Holds(hook'[lock'[t]])
  BY <1>1, <1>4, <1>6 DEF TypeInv, Holding
<1>8. ASSUME NEW g \in Hooks, Holds(hook'[g]) PROVE lock'[hook'[g].on] = g
  <2>1. g # h /\ hook'[g] = hook[g] /\ hook[g].on \in Tickets
    BY <1>1, <1>2, <1>8 DEF TypeInv, HooksOK, Shape
  <2>2. lock[hook[g].on] = g
    BY <1>8, <2>1 DEF TypeInv, Holding
  <2>3. QED
    BY <1>3, <2>1, <2>2
<1>9. \A g \in Hooks : hook'[g].stage = "attaching" => repoLock' = g
  BY <1>1, <1>2, <1>3 DEF TypeInv, Holding
<1>10. QED
  BY <1>5, <1>7, <1>8, <1>9 DEF Holding

\* A handler that takes a ticket.
LEMMA TakeHolding ==
  ASSUME TypeInv, NEW h \in Hooks, NEW k, Goes(h, k), Holds(k), ~Holds(hook[h]),
         lock[k.on] = None, lock' = [lock EXCEPT ![k.on] = h],
         \/ k.stage = "attaching" /\ repoLock = None /\ repoLock' = h
         \/ k.stage = "writing" /\ UNCHANGED repoLock
  PROVE  Holding'
<1>1. hook'[h] = k /\ (\A g \in Hooks \ {h} : hook'[g] = hook[g]) /\ k.on \in Tickets
  BY HooksKeep DEF Goes, Shape
<1>2. lock \in [Tickets -> Hooks \cup {None}] /\ repoLock \in Hooks \cup {None}
  BY DEF TypeInv, Holding
<1>3. lock' \in [Tickets -> Hooks \cup {None}] /\ repoLock' \in Hooks \cup {None}
      /\ lock'[k.on] = h /\ \A t \in Tickets \ {k.on} : lock'[t] = lock[t]
  BY <1>1, <1>2
<1>4. \A t \in Tickets : lock[t] # h
  BY NoneIsNothing DEF TypeInv, Holding
<1>5. \A t \in Tickets : lock'[t] # None => hook'[lock'[t]].on = t /\ Holds(hook'[lock'[t]])
  BY <1>1, <1>2, <1>3, <1>4 DEF TypeInv, Holding
<1>6. ASSUME NEW g \in Hooks, Holds(hook'[g]) PROVE lock'[hook'[g].on] = g
  <2>1. CASE g = h
    BY <1>1, <1>3, <2>1
  <2>2. CASE g # h
    <3>1. hook'[g] = hook[g] /\ hook[g].on \in Tickets /\ lock[hook[g].on] = g
      BY <1>1, <1>6, <2>2 DEF TypeInv, HooksOK, Shape, Holding
    <3>2. QED
      BY <1>3, <3>1, NoneIsNothing
  <2>3. QED
    BY <2>1, <2>2
<1>7. \A g \in Hooks : hook'[g].stage = "attaching" => repoLock' = g
  BY <1>1, NoneIsNothing DEF TypeInv, Holding
<1>8. QED
  BY <1>3, <1>5, <1>6, <1>7 DEF Holding

LEMMA RememberKeeps ==
  ASSUME TypeInv, NEW v \in Views, Remember(v), UNCHANGED spent
  PROVE  StoreOK'
<1>1. v.pull \in Pulls /\ remembered \in [Pulls -> Views \cup {None}] /\ Told(remembered)
  BY DEF Views, TypeInv, StoreOK
<1>2. remembered' = [remembered EXCEPT ![v.pull] = v]
  BY DEF Remember
<1>3. QED
  BY <1>1, <1>2 DEF StoreOK, TypeInv, Told

\* A change on GitHub: the view that is new, and what came before it.
Newer(p, view, n) ==
  /\ Change(p, view, n)
  /\ view \in Views /\ view.pull = p /\ view.at = n
  /\ \/ gh[p] = None /\ view.seq = 1 /\ view.state = "open"
     \/ gh[p] # None /\ gh[p].state # "merged" /\ view.seq = gh[p].seq + 1
  /\ \/ view.state # "merged" /\ UNCHANGED contains
     \/ /\ view.state = "merged" /\ view.mergedAt = n /\ gh[p] # None /\ view.base = gh[p].base
        /\ contains' = [contains EXCEPT ![view.base] = @ \cup contains[Head[p]] \cup {p}]

\* GitHub alone changes what is there and adds to what is on its way.
LEMMA OnlyGitHub ==
  ASSUME [Next]_vars, ~GitHub
  PROVE  UNCHANGED <<now, gh, contains>> /\ sent' \subseteq sent
<1>1. CASE UNCHANGED vars
  BY <1>1 DEF vars
<1>2. ASSUME NEW h \in Hooks, NEW v \in sent, Receive(h, v)
      PROVE  UNCHANGED <<now, gh, contains>> /\ sent' \subseteq sent
  BY <1>2 DEF Receive
<1>3. ASSUME NEW h \in Hooks, Handle(h) PROVE UNCHANGED github
  <2>1. CASE ReadHistory(h) \/ FindOwners(h)
    BY <2>1 DEF ReadHistory, FindOwners
  <2>2. CASE LockToLink(h) \/ Attach(h)
    BY <2>2 DEF LockToLink, Attach
  <2>3. ASSUME NEW t \in Tickets, Claim(h, t) PROVE UNCHANGED github
    BY <2>3 DEF Claim
  <2>4. CASE WriteTicket(h)
    BY <2>4 DEF WriteTicket
  <2>5. ASSUME NEW base, FindMergesAwaiting(h, base) PROVE UNCHANGED github
    BY <2>5 DEF FindMergesAwaiting
  <2>6. ASSUME NEW m, Land(h, m) PROVE UNCHANGED github
    BY <2>6 DEF Land
  <2>7. QED
    BY <1>3, <2>1, <2>2, <2>3, <2>4, <2>5, <2>6, Zenon DEF Handle
<1>4. ASSUME NEW s \in Scans, Refresh(s) PROVE UNCHANGED github
  <2>1. CASE ListTickets(s) \/ StartFetch(s) \/ Cached(s) \/ FetchFails(s)
    BY <2>1 DEF ListTickets, StartFetch, Cached, FetchFails
  <2>2. ASSUME NEW b \in Branches, Fetched(s, b) PROVE UNCHANGED github
    BY <2>2 DEF Fetched
  <2>3. ASSUME NEW t \in Tickets, Reconcile(s, t) PROVE UNCHANGED github
    BY <2>3 DEF Reconcile
  <2>4. QED
    BY <1>4, <2>1, <2>2, <2>3, Zenon DEF Refresh
<1>5. ASSUME NEW t \in Tickets, ClearBranch(t) \/ \E b \in Branches : AttachBranch(t, b)
      PROVE  UNCHANGED github
  BY <1>5 DEF ClearBranch, AttachBranch, ByHand
<1>6. CASE Crash
  BY <1>6 DEF Crash, github
<1>7. CASE UNCHANGED github
  BY <1>7 DEF github
<1>8. QED
  BY <1>1, <1>2, <1>3, <1>4, <1>5, <1>6, <1>7, Zenon DEF Next

LEMMA GitHubIs ==
  ASSUME TypeInv, GitHub
  PROVE  \E p \in Pulls, n \in Times, view \in Views : Newer(p, view, n)
<1>1. PICK p \in Pulls, n \in Times :
        \/ \E base \in Bases : OpenPull(p, base, n) \/ RetargetPull(p, base, n)
        \/ ClosePull(p, n) \/ ReopenPull(p, n) \/ MergePull(p, n)
  BY DEF GitHub
<1>2. ASSUME NEW base \in Bases, OpenPull(p, base, n)
      PROVE  \E view \in Views : Newer(p, view, n)
  <2> DEFINE v == Opened(p, base, n)
  <2>1. 0 \in Times
    BY PullsAssumption DEF Times
  <2>2. v \in Views /\ v.pull = p /\ v.at = n /\ v.seq = 1 /\ v.state = "open"
    BY <2>1 DEF Opened, Views
  <2>3. gh[p] = None /\ Change(p, v, n) /\ UNCHANGED contains
    BY <1>2 DEF OpenPull
  <2> HIDE DEF v
  <2>4. QED
    BY <2>2, <2>3 DEF Newer
<1>3. ASSUME gh[p] # None
      PROVE  gh[p] \in Views /\ gh[p].pull = p
  BY <1>3 DEF TypeInv, GitHubOK, Told
<1> DEFINE l == Later(p, n)
<1>0. ASSUME gh[p] # None
      PROVE  l \in Views /\ l.pull = p /\ l.at = n /\ l.seq = gh[p].seq + 1 /\ l.state = gh[p].state
             /\ l.base = gh[p].base
  <2>1. l = [gh[p] EXCEPT !.at = n, !.seq = gh[p].seq + 1]
    BY DEF Later
  <2>2. gh[p].seq + 1 \in Nat
    BY <1>0, <1>3 DEF Views
  <2> HIDE DEF l
  <2>3. QED
    BY <1>0, <1>3, <2>1, <2>2 DEF Views
<1>4. ASSUME NEW base \in Bases, RetargetPull(p, base, n)
      PROVE  \E view \in Views : Newer(p, view, n)
  <2> DEFINE v == [l EXCEPT !.base = base]
  <2>1. gh[p] # None /\ gh[p].state = "open" /\ Change(p, v, n) /\ UNCHANGED contains
    BY <1>4 DEF RetargetPull, Has
  <2> HIDE DEF l
  <2>2. v \in Views /\ v.pull = p /\ v.at = n /\ v.seq = gh[p].seq + 1 /\ v.state = gh[p].state
    BY <1>0, <2>1 DEF Views
  <2> HIDE DEF v
  <2>3. QED
    BY <2>1, <2>2 DEF Newer
<1>5. CASE ClosePull(p, n)
  <2> DEFINE v == [l EXCEPT !.state = "closed"]
  <2>1. gh[p] # None /\ gh[p].state = "open" /\ Change(p, v, n) /\ UNCHANGED contains
    BY <1>5 DEF ClosePull, Has
  <2> HIDE DEF l
  <2>2. v \in Views /\ v.pull = p /\ v.at = n /\ v.seq = gh[p].seq + 1 /\ v.state = "closed"
    BY <1>0, <2>1 DEF Views
  <2> HIDE DEF v
  <2>3. QED
    BY <2>1, <2>2 DEF Newer
<1>6. CASE ReopenPull(p, n)
  <2> DEFINE v == [l EXCEPT !.state = "open"]
  <2>1. gh[p] # None /\ gh[p].state = "closed" /\ Change(p, v, n) /\ UNCHANGED contains
    BY <1>6 DEF ReopenPull, Has
  <2> HIDE DEF l
  <2>2. v \in Views /\ v.pull = p /\ v.at = n /\ v.seq = gh[p].seq + 1 /\ v.state = "open"
    BY <1>0, <2>1 DEF Views
  <2> HIDE DEF v
  <2>3. QED
    BY <2>1, <2>2 DEF Newer
<1>7. CASE MergePull(p, n)
  <2> DEFINE v == [l EXCEPT !.state = "merged", !.mergedAt = n]
  <2>1. gh[p] # None /\ gh[p].state = "open" /\ Change(p, v, n)
        /\ contains' = [contains EXCEPT ![gh[p].base] = @ \cup contains[Head[p]] \cup {p}]
    BY <1>7 DEF MergePull, Has
  <2> HIDE DEF l
  <2>2. v \in Views /\ v.pull = p /\ v.at = n /\ v.seq = gh[p].seq + 1 /\ v.state = "merged"
        /\ v.mergedAt = n /\ v.base = gh[p].base
    BY <1>0, <2>1 DEF Views
  <2> HIDE DEF v
  <2>3. contains' = [contains EXCEPT ![v.base] = @ \cup contains[Head[p]] \cup {p}]
    BY <2>1, <2>2
  <2>4. gh[p] # None /\ gh[p].state # "merged" /\ Change(p, v, n)
    BY <2>1
  <2>5. Newer(p, v, n)
    BY <2>2, <2>3, <2>4 DEF Newer
  <2>6. QED
    BY <2>2, <2>5
<1>8. QED
  BY <1>1, <1>2, <1>4, <1>5, <1>6, <1>7

LEMMA GitHubTyped ==
  ASSUME TypeInv, NEW p \in Pulls, NEW n \in Times, NEW view \in Views, Newer(p, view, n)
  PROVE  TypeInv'
<1>1. /\ spent.changes < MaxChanges /\ spent' = [spent EXCEPT !.changes = @ + 1]
      /\ now' = n /\ gh' = [gh EXCEPT ![p] = view] /\ sent' = sent \cup {view}
      /\ UNCHANGED <<remembered, ticket, locks, hook, scan>>
  BY DEF Newer, Change
<1>2. spent' \in [changes : 0..MaxChanges, spare : 0..MaxSpare, acts : 0..MaxActs,
                  failures : 0..MaxFailures]
  BY <1>1, PullsAssumption DEF TypeInv, StoreOK
<1>3. contains' \in [Bases -> SUBSET Pulls]
  <2>1. Head[p] \in Bases /\ view.base \in Bases
    BY PullsAssumption DEF Bases, Views
  <2>2. QED
    BY <2>1 DEF Newer, TypeInv, GitHubOK
<1>4. GitHubOK'
  BY <1>1, <1>3 DEF GitHubOK, TypeInv, Told, Newer
<1>5. StoreOK'
  BY <1>1, <1>2 DEF StoreOK, TypeInv, Told
<1>6. TicketsOK' /\ HooksOK' /\ Holding' /\ ScansOK'
  BY <1>1 DEF TypeInv, TicketsOK, HooksOK, Holding, ScansOK, ScansFit, locks
<1>7. QED
  BY <1>4, <1>5, <1>6 DEF TypeInv

LEMMA GitHubSame == ASSUME GitHubOK, UNCHANGED github PROVE GitHubOK'
BY DEF GitHubOK, github, Told

LEMMA StoreSame == ASSUME StoreOK, UNCHANGED <<remembered, spent>> PROVE StoreOK'
BY DEF StoreOK, Told

LEMMA TicketsSame ==
  ASSUME TicketsOK, ScansOK, UNCHANGED <<ticket, scan>>
  PROVE  TicketsOK' /\ ScansOK'
BY DEF TicketsOK, ScansOK, ScansFit

LEMMA HooksSame ==
  ASSUME HooksOK, Holding, UNCHANGED <<hook, locks>>
  PROVE  HooksOK' /\ Holding'
BY DEF HooksOK, Holding, locks

LEMMA ReceiveTyped ==
  ASSUME TypeInv, NEW h \in Hooks, NEW v \in sent, Receive(h, v)
  PROVE  TypeInv'
<1>1. /\ hook[h].stage = "idle" /\ UNCHANGED <<now, gh, contains, ticket, locks, scan>>
      /\ \/ sent' = sent \ {v} /\ UNCHANGED spent
         \/ /\ spent.spare < MaxSpare
            /\ spent' = [spent EXCEPT !.spare = @ + 1]
            /\ UNCHANGED sent
  BY DEF Receive
<1>2. GitHubOK'
  BY <1>1 DEF TypeInv, GitHubOK, Told
<1>3. TicketsOK' /\ ScansOK'
  BY <1>1, TicketsSame DEF TypeInv
<1>4. v \in Views
  BY DEF TypeInv, GitHubOK
<1>5. spent' \in [changes : 0..MaxChanges, spare : 0..MaxSpare, acts : 0..MaxActs,
                  failures : 0..MaxFailures]
  BY <1>1, PullsAssumption DEF TypeInv, StoreOK
<1>6. CASE hook' = hook /\ remembered' = remembered
  <2>1. HooksOK' /\ Holding'
    BY <1>1, <1>6, HooksSame DEF TypeInv
  <2>2. StoreOK'
    BY <1>5, <1>6 DEF TypeInv, StoreOK, Told
  <2>3. QED
    BY <1>2, <1>3, <2>1, <2>2 DEF TypeInv
<1>7. CASE \E k : Goes(h, k) /\ Quiet(k) /\ Remember(v)
  <2>1. PICK k : Goes(h, k) /\ Quiet(k)
    BY <1>7
  <2>2. ~Holds(hook[h])
    BY <1>1 DEF Holds
  <2>3. HooksOK' /\ Holding'
    BY <1>1, <2>1, <2>2, HooksKeep, QuietHolding
  <2>4. remembered' = [remembered EXCEPT ![v.pull] = v] /\ v.pull \in Pulls
    BY <1>4, <1>7 DEF Remember, Views
  <2>5. StoreOK'
    BY <1>4, <1>5, <2>4 DEF TypeInv, StoreOK, Told
  <2>6. QED
    BY <1>2, <1>3, <2>3, <2>5 DEF TypeInv
<1>8. QED
  BY <1>6, <1>7, ReceiveIs

\* A handler that does not write.
LEMMA MoveTyped ==
  ASSUME TypeInv, NEW h \in Hooks, NEW k, Goes(h, k), Quiet(k), ~Holds(hook[h]),
         UNCHANGED <<github, remembered, locks, spent>>, TicketsOK', ScansOK'
  PROVE  TypeInv'
<1>1. GitHubOK' /\ StoreOK'
  BY GitHubSame, StoreSame DEF TypeInv
<1>2. HooksOK' /\ Holding'
  BY HooksKeep, QuietHolding
<1>3. QED
  BY <1>1, <1>2 DEF TypeInv

\* A handler that writes and gives its locks back.
LEMMA PutTyped ==
  ASSUME TypeInv, NEW h \in Hooks, NEW k, Goes(h, k), Quiet(k), Unlock(h),
         UNCHANGED <<github, remembered, spent>>, TicketsOK', ScansOK'
  PROVE  TypeInv'
<1>1. GitHubOK' /\ StoreOK'
  BY GitHubSame, StoreSame DEF TypeInv
<1>2. HooksOK' /\ Holding'
  BY HooksKeep, UnlockHolding
<1>3. QED
  BY <1>1, <1>2 DEF TypeInv

LEMMA HandleTyped ==
  ASSUME TypeInv, NEW h \in Hooks, Handle(h)
  PROVE  TypeInv'
<1>0. TicketsOK /\ ScansOK /\ ScansFit(scan) /\ Shape(hook[h])
  BY DEF TypeInv, ScansOK, HooksOK
<1>1. CASE ReadHistory(h)
  <2>1. /\ UNCHANGED <<github, remembered, ticket, locks, scan, spent>>
        /\ ~Holds(hook[h])
    BY <1>1 DEF ReadHistory, Holds
  <2>2. PICK k : Goes(h, k) /\ Quiet(k)
    BY <1>1, ReadHistoryIs
  <2>3. QED
    BY <1>0, <2>1, <2>2, TicketsSame, MoveTyped
<1>2. CASE FindOwners(h)
  <2>1. /\ UNCHANGED <<github, remembered, ticket, locks, scan, spent>>
        /\ ~Holds(hook[h])
    BY <1>2 DEF FindOwners, Holds
  <2>2. PICK k : Goes(h, k) /\ Quiet(k)
    BY <1>2, FindOwnersIs
  <2>3. QED
    BY <1>0, <2>1, <2>2, TicketsSame, MoveTyped
<1>3. CASE LockToLink(h)
  <2>1. UNCHANGED <<github, ticket, scan, spent>> /\ ~Holds(hook[h]) /\ hook[h].stage # "idle"
    BY <1>3 DEF LockToLink, Holds
  <2>2. TicketsOK' /\ ScansOK' /\ GitHubOK' /\ hook[h].view \in Views
    BY <1>0, <2>1, TicketsSame, GitHubSame DEF TypeInv, Shape
  <2>3. CASE Goes(h, Applied(h)) /\ Quiet(Applied(h)) /\ UNCHANGED <<locks, remembered>>
    BY <2>1, <2>2, <2>3, MoveTyped
  <2>4. ASSUME NEW k, Goes(h, k), Remember(hook[h].view), k.stage = "attaching",
               lock[k.on] = None, repoLock = None,
               lock' = [lock EXCEPT ![k.on] = h], repoLock' = h
        PROVE  TypeInv'
    <3>1. Holding'
      BY <2>1, <2>4, TakeHolding DEF Holds
    <3>2. HooksOK'
      BY <2>4, HooksKeep
    <3>3. StoreOK'
      BY <2>1, <2>2, <2>4, RememberKeeps
    <3>4. QED
      BY <2>2, <3>1, <3>2, <3>3 DEF TypeInv
  <2>5. QED
    BY <1>3, <2>3, <2>4, LockToLinkIs
<1>4. CASE Attach(h)
  <2>1. Goes(h, Applied(h)) /\ Quiet(Applied(h)) /\ Unlock(h) /\ hook[h].on \in Tickets
        /\ hook[h].view \in Views /\ hook[h].landed \in BOOLEAN /\ BranchOf(h) \in Branches
    BY <1>4, AttachIs
  <2>2. UNCHANGED <<github, remembered, spent>>
    BY <1>4 DEF Attach
  <2>3. TicketsOK' /\ ScansOK'
    <3> DEFINE landed == hook[h].landed
               e == Patched(OnBranch(BranchOf(h)), hook[h].view, landed)
    <3>1. UNCHANGED <<ticket, scan>> \/ Write(hook[h].on, e, scan)
      BY <1>4 DEF Attach
    <3>2. landed \in BOOLEAN
      BY <2>1
    <3>3. Entry(OnBranch(BranchOf(h))) /\ OnBranch(BranchOf(h)).branch = Head[hook[h].view.pull]
      BY <2>1, NoEntryTyped DEF BranchOf
    <3> HIDE DEF landed
    <3>4. Entry(e)
      BY <2>1, <3>2, <3>3, PatchedIs
    <3> HIDE DEF e
    <3>5. QED
      BY <1>0, <2>1, <3>1, <3>4, TicketsSame, WriteKeeps
  <2>4. QED
    BY <2>1, <2>2, <2>3, PutTyped
<1>5. ASSUME NEW t \in Tickets, Claim(h, t) PROVE TypeInv'
  <2>1. UNCHANGED <<github, ticket, repoLock, scan, spent>> /\ ~Holds(hook[h])
        /\ hook[h].stage # "idle"
    BY <1>5 DEF Claim, Holds
  <2>2. TicketsOK' /\ ScansOK' /\ GitHubOK' /\ hook[h].view \in Views
    BY <1>0, <2>1, TicketsSame, GitHubSame DEF TypeInv, Shape
  <2>3. ASSUME NEW k, Goes(h, k), Quiet(k), UNCHANGED <<remembered, lock>>
        PROVE  TypeInv'
    BY <2>1, <2>2, <2>3, MoveTyped DEF locks
  <2>4. ASSUME NEW k, Goes(h, k), Remember(hook[h].view), k.stage = "writing", k.on = t,
               lock[t] = None, lock' = [lock EXCEPT ![t] = h]
        PROVE  TypeInv'
    <3>1. Holding'
      BY <2>1, <2>4, TakeHolding DEF Holds
    <3>2. HooksOK'
      BY <2>4, HooksKeep
    <3>3. StoreOK'
      BY <2>1, <2>2, <2>4, RememberKeeps
    <3>4. QED
      BY <2>2, <3>1, <3>2, <3>3 DEF TypeInv
  <2>5. QED
    BY <1>5, <2>3, <2>4, ClaimIs
<1>6. CASE WriteTicket(h)
  <2> DEFINE k == Onward(h, hook[h].todo \ {hook[h].on})
             landed == hook[h].landed
             e == WebhookPatch(ticket[hook[h].on], hook[h].view, landed)
  <2>1. Goes(h, k) /\ Quiet(k) /\ Unlock(h) /\ hook[h].on \in Tickets /\ hook[h].view \in Views
    BY <1>6, WriteTicketIs
  <2>2. landed \in BOOLEAN
    BY <1>6, WriteTicketIs
  <2>3. UNCHANGED <<github, remembered, spent>> /\ Write(hook[h].on, e, scan)
    BY <1>6 DEF WriteTicket
  <2>4. Entry(ticket[hook[h].on])
    BY <1>0, <2>1 DEF TicketsOK
  <2> HIDE DEF landed, k
  <2>5. Entry(e)
    BY <2>1, <2>2, <2>4, WebhookPatchIs
  <2> HIDE DEF e
  <2>6. TicketsOK' /\ ScansOK'
    BY <1>0, <2>1, <2>3, <2>5, WriteKeeps
  <2>7. QED
    BY <2>1, <2>3, <2>6, PutTyped
<1>7. ASSUME NEW base \in hook[h].front, FindMergesAwaiting(h, base) PROVE TypeInv'
  <2>1. /\ UNCHANGED <<github, remembered, ticket, locks, scan, spent>>
        /\ ~Holds(hook[h])
    BY <1>7 DEF FindMergesAwaiting, Holds
  <2>2. PICK k : Goes(h, k) /\ Quiet(k)
    BY <1>7, FindMergesAwaitingIs
  <2>3. QED
    BY <1>0, <2>1, <2>2, TicketsSame, MoveTyped
<1>8. ASSUME hook[h].stage = "carrying", NEW m \in hook[h].todo, Land(h, m) PROVE TypeInv'
  <2>1. /\ UNCHANGED <<github, remembered, locks, spent>> /\ ~Holds(hook[h])
    BY <1>8 DEF Land, Holds
  <2>2. m.ticket \in Tickets
    BY <1>8, LandIs
  <2>3. ASSUME NEW k, Goes(h, k), Quiet(k), UNCHANGED <<ticket, scan>> PROVE TypeInv'
    BY <1>0, <2>1, <2>3, TicketsSame, MoveTyped
  <2>4. ASSUME NEW k, Goes(h, k), Quiet(k), Waits(ticket[m.ticket], hook[h].base.branch),
               Write(m.ticket, [ticket[m.ticket] EXCEPT !.last = ticket[m.ticket].pull], scan)
        PROVE  TypeInv'
    <3> DEFINE e == [ticket[m.ticket] EXCEPT !.last = ticket[m.ticket].pull]
    <3>1. Entry(ticket[m.ticket])
      BY <1>0, <2>2 DEF TicketsOK
    <3>2. Entry(e)
      BY <2>4, <3>1, WaitsTyped
    <3>3. Write(m.ticket, e, scan)
      BY <2>4
    <3> HIDE DEF e
    <3>4. TicketsOK' /\ ScansOK'
      BY <1>0, <2>2, <3>2, <3>3, WriteKeeps
    <3>5. QED
      BY <2>1, <2>4, <3>4, MoveTyped
  <2>5. QED
    BY <1>8, <2>3, <2>4, LandIs
<1>9. QED
  BY <1>1, <1>2, <1>3, <1>4, <1>5, <1>6, <1>7, <1>8 DEF Handle

LEMMA SpentSame ==
  ASSUME TypeInv, UNCHANGED remembered,
         \/ UNCHANGED spent
         \/ spent.failures < MaxFailures /\ spent' = [spent EXCEPT !.failures = @ + 1]
         \/ spent.acts < MaxActs /\ spent' = [spent EXCEPT !.acts = @ + 1]
  PROVE  StoreOK'
<1>1. spent' \in [changes : 0..MaxChanges, spare : 0..MaxSpare, acts : 0..MaxActs,
                  failures : 0..MaxFailures]
  BY PullsAssumption DEF TypeInv, StoreOK
<1>2. QED
  BY <1>1 DEF TypeInv, StoreOK, Told

LEMMA RefreshTyped ==
  ASSUME TypeInv, NEW s \in Scans, Refresh(s)
  PROVE  TypeInv'
<1>1. UNCHANGED <<github, remembered, locks, hook>>
  BY DEF Refresh, ListTickets, StartFetch, Cached, FetchFails, Fetched, Reconcile
<1>2. \/ UNCHANGED spent
      \/ spent.failures < MaxFailures /\ spent' = [spent EXCEPT !.failures = @ + 1]
  BY DEF Refresh, ListTickets, StartFetch, Cached, FetchFails, Fetched, Reconcile
<1>3. GitHubOK' /\ StoreOK' /\ HooksOK' /\ Holding'
  <2>1. GitHubOK'
    BY <1>1, GitHubSame DEF TypeInv
  <2>2. StoreOK'
    BY <1>1, <1>2, SpentSame
  <2>3. HooksOK' /\ Holding'
    BY <1>1, HooksSame DEF TypeInv
  <2>4. QED
    BY <2>1, <2>2, <2>3
<1>4. TicketsOK' /\ ScansOK'
  <2>1. CASE \/ ListTickets(s) \/ StartFetch(s) \/ Cached(s) \/ FetchFails(s)
             \/ \E b \in Branches : Fetched(s, b)
    <3>1. ScansOK' /\ UNCHANGED ticket
      BY <2>1, ScanStepKeeps
    <3>2. QED
      BY <3>1 DEF TypeInv, TicketsOK
  <2>2. CASE \E t \in Tickets : Reconcile(s, t)
    BY <2>2, ReconcileIs
  <2>3. QED
    BY <2>1, <2>2 DEF Refresh
<1>5. QED
  BY <1>3, <1>4 DEF TypeInv

LEMMA ByHandTyped ==
  ASSUME TypeInv, NEW t \in Tickets, NEW e, Entry(e), ByHand(t, e)
  PROVE  TypeInv'
<1>1. ScansFit(scan) /\ Save(t, e, scan) /\ UNCHANGED <<github, remembered, locks, hook>>
      /\ spent.acts < MaxActs /\ spent' = [spent EXCEPT !.acts = @ + 1]
  BY DEF TypeInv, ScansOK, ByHand
<1>2. TicketsOK' /\ ScansOK'
  BY <1>1, WriteKeeps
<1>3. GitHubOK' /\ HooksOK' /\ Holding'
  BY <1>1, GitHubSame, HooksSame DEF TypeInv
<1>4. StoreOK'
  BY <1>1, SpentSame
<1>5. QED
  BY <1>2, <1>3, <1>4 DEF TypeInv

LEMMA CrashTyped ==
  ASSUME TypeInv, Crash
  PROVE  TypeInv'
<1>1. GitHubOK' /\ StoreOK'
  BY GitHubSame, SpentSame DEF TypeInv, Crash
<1>2. TicketsOK'
  BY DEF TypeInv, TicketsOK, Crash
<1>3. HooksOK'
  BY NoHookTyped DEF Crash, HooksOK, Shape
<1>4. Holding'
  BY NoHookTyped DEF Crash, Holding, Holds
<1>5. ScansOK'
  BY NoScanTyped DEF Crash, ScansOK, ScansFit
<1>6. QED
  BY <1>1, <1>2, <1>3, <1>4, <1>5 DEF TypeInv

LEMMA InitTyped == Init => TypeInv
<1> SUFFICES ASSUME Init PROVE TypeInv
  OBVIOUS
<1>1. 0 \in Times /\ 0 \in 0..MaxChanges /\ 0 \in 0..MaxSpare /\ 0 \in 0..MaxActs
      /\ 0 \in 0..MaxFailures
  BY PullsAssumption DEF Times
<1>2. ASSUME NEW p \in Pulls, OpenAtStart[p] # None
      PROVE  Opened(p, OpenAtStart[p], 0) \in Views /\ Opened(p, OpenAtStart[p], 0).pull = p
  BY <1>1, <1>2, PullsAssumption DEF Opened, Views, Bases
<1>3. GitHubOK
  <2>1. gh = [p \in Pulls |-> IF OpenAtStart[p] = None THEN None ELSE Opened(p, OpenAtStart[p], 0)]
    BY DEF Init
  <2>2. gh \in [Pulls -> Views \cup {None}] /\ Told(gh)
    BY <1>2, <2>1 DEF Told
  <2>3. QED
    BY <1>1, <2>2 DEF Init, GitHubOK
<1>4. StoreOK
  BY <1>1 DEF Init, StoreOK, Told
<1>5. TicketsOK
  BY NoEntryTyped DEF Init, TicketsOK, Entry
<1>6. HooksOK
  BY NoHookTyped DEF Init, HooksOK, Shape
<1>7. Holding
  BY NoHookTyped DEF Init, Holding, Holds
<1>8. ScansOK
  BY NoScanTyped DEF Init, ScansOK, ScansFit
<1>9. QED
  BY <1>3, <1>4, <1>5, <1>6, <1>7, <1>8 DEF TypeInv

LEMMA NextTyped ==
  ASSUME TypeInv, [Next]_vars
  PROVE  TypeInv'
<1>1. CASE GitHub
  BY <1>1, GitHubIs, GitHubTyped
<1>2. ASSUME NEW t \in Tickets, ClearBranch(t) PROVE TypeInv'
  BY <1>2, NoEntryTyped, ByHandTyped DEF ClearBranch
<1>3. ASSUME NEW t \in Tickets, NEW b \in Branches, AttachBranch(t, b) PROVE TypeInv'
  BY <1>3, NoEntryTyped, ByHandTyped DEF AttachBranch
<1>4. CASE UNCHANGED vars
  BY <1>4, GitHubSame, StoreSame, TicketsSame, HooksSame DEF vars, TypeInv, github, locks
<1>5. QED
  BY <1>1, <1>2, <1>3, <1>4, ReceiveTyped, HandleTyped, RefreshTyped, CrashTyped DEF Next

LEMMA AlwaysTyped == Spec => []TypeInv
<1>1. TypeInv /\ [Next]_vars => TypeInv'
  BY NextTyped
<1>2. QED
  BY <1>1, InitTyped, PTL DEF Spec

\* Every variable has its type, for any number of handlers and refreshes, and whoever holds the
\* lock of a ticket or of the links of a repository is about to write under it: no way out of a
\* webhook handler or of TicketGit keeps a lock.
THEOREM TypeCorrect == Spec => []TypeOK
BY AlwaysTyped, TypeInvImplies, PTL

-------------------------------------------------------------------------------
(* Who writes a ticket, and what.                                            *)

AttachWrites(h, t) ==
  /\ Attach(h) /\ t = hook[h].on /\ ticket[t].branch = None
  /\ ticket'[t] = Patched(OnBranch(BranchOf(h)), hook[h].view, hook[h].landed)

WebhookWrites(h, t) ==
  /\ WriteTicket(h) /\ t = hook[h].on
  /\ ticket'[t] = WebhookPatch(ticket[t], hook[h].view, hook[h].landed)

LandWrites(h, m, t) ==
  /\ hook[h].stage = "carrying" /\ m \in hook[h].todo /\ Land(h, m) /\ t = m.ticket
  /\ Waits(ticket[t], hook[h].base.branch) /\ MergedBefore(h, ticket[t]) # {}
  /\ ticket[t].branch = m.branch /\ lock[t] = None
  /\ ticket'[t] = [ticket[t] EXCEPT !.last = ticket[t].pull]

RefreshWrites(s, t, v) ==
  /\ Reconcile(s, t) /\ Current(s, t) /\ Planned(s, t, v, ticket'[t])
  /\ ticket'[t].branch # ticket[t].branch => repoLock = None /\ ~Attached(ticket'[t].branch)

RefreshLinks(s, t) ==
  /\ Reconcile(s, t) /\ Bare(t, ticket'[t])
  /\ Entry(ticket'[t]) /\ ticket'[t].pull = 0 /\ ticket'[t].last = 0
  /\ repoLock = None /\ ~Attached(ticket'[t].branch)

HandWrites(t) ==
  /\ ByHand(t, ticket'[t]) /\ Entry(ticket'[t]) /\ ticket'[t].pull = 0 /\ ticket'[t].last = 0
  /\ ticket'[t].branch # None => repoLock = None

Writes(t) ==
  \/ \E h \in Hooks : AttachWrites(h, t) \/ WebhookWrites(h, t) \/ \E m \in hook[h].todo : LandWrites(h, m, t)
  \/ \E s \in Scans : RefreshLinks(s, t) \/ \E v \in Views : RefreshWrites(s, t, v)
  \/ HandWrites(t)

LEMMA OneIsWritten ==
  ASSUME TypeInv, NEW t \in Tickets, NEW e, NEW scans, Write(t, e, scans) \/ Save(t, e, scans)
  PROVE  /\ ticket'[t] = e
         /\ \A u \in Tickets : ticket'[u] # ticket[u] => u = t
<1>1. ticket \in [Tickets -> Entries]
  BY DEF TypeInv, TicketsOK
<1>2. QED
  BY <1>1 DEF Write, Save

LEMMA HandleWrites ==
  ASSUME TypeInv, NEW h \in Hooks, Handle(h), NEW t \in Tickets, ticket'[t] # ticket[t]
  PROVE  Writes(t)
<1>1. CASE Attach(h)
  <2>1. hook[h].on \in Tickets
    BY <1>1, AttachIs
  <2>2. ticket[hook[h].on].branch = None
        /\ Write(hook[h].on, Patched(OnBranch(BranchOf(h)), hook[h].view, hook[h].landed), scan)
    BY <1>1 DEF Attach
  <2>3. AttachWrites(h, t)
    BY <1>1, <2>1, <2>2, OneIsWritten DEF AttachWrites
  <2>4. QED
    BY <2>3 DEF Writes
<1>2. CASE WriteTicket(h)
  <2>1. hook[h].on \in Tickets
    BY <1>2, WriteTicketIs
  <2>2. Write(hook[h].on, WebhookPatch(ticket[hook[h].on], hook[h].view, hook[h].landed), scan)
    BY <1>2 DEF WriteTicket
  <2>3. WebhookWrites(h, t)
    BY <1>2, <2>1, <2>2, OneIsWritten DEF WebhookWrites
  <2>4. QED
    BY <2>3 DEF Writes
<1>3. ASSUME hook[h].stage = "carrying", NEW m \in hook[h].todo, Land(h, m)
      PROVE  Writes(t)
  <2>1. m.ticket \in Tickets
    BY <1>3, LandIs
  <2>2. /\ Waits(ticket[m.ticket], hook[h].base.branch) /\ MergedBefore(h, ticket[m.ticket]) # {}
        /\ ticket[m.ticket].branch = m.branch /\ lock[m.ticket] = None
        /\ Write(m.ticket, [ticket[m.ticket] EXCEPT !.last = ticket[m.ticket].pull], scan)
    BY <1>3, LandIs
  <2>3. LandWrites(h, m, t)
    BY <1>3, <2>1, <2>2, OneIsWritten DEF LandWrites
  <2>4. QED
    BY <2>3 DEF Writes
<1>4. CASE UNCHANGED ticket
  BY <1>4
<1>5. QED
  BY <1>1, <1>2, <1>3, <1>4
  DEF Handle, ReadHistory, FindOwners, LockToLink, Claim, FindMergesAwaiting

LEMMA WhoWrites ==
  ASSUME TypeInv, [Next]_vars, NEW t \in Tickets, ticket'[t] # ticket[t]
  PROVE  /\ Writes(t)
         /\ \A u \in Tickets \ {t} : ticket'[u] = ticket[u]
<1>1. CASE GitHub
  <2>1. UNCHANGED ticket
    BY <1>1, GitHubIs DEF Newer, Change
  <2>2. QED
    BY <2>1
<1>2. ASSUME NEW h \in Hooks, Handle(h)
      PROVE  Writes(t) /\ \A u \in Tickets \ {t} : ticket'[u] = ticket[u]
  <2>1. Writes(t)
    BY <1>2, HandleWrites
  <2>2. CASE Attach(h)
    <3> DEFINE e == Patched(OnBranch(BranchOf(h)), hook[h].view, hook[h].landed)
    <3>1. Write(hook[h].on, e, scan) \/ UNCHANGED ticket
      BY <2>2 DEF Attach
    <3> HIDE DEF e
    <3>2. hook[h].on \in Tickets
      BY <2>2, AttachIs
    <3>3. QED
      BY <2>1, <3>1, <3>2, OneIsWritten
  <2>3. CASE WriteTicket(h)
    <3> DEFINE e == WebhookPatch(ticket[hook[h].on], hook[h].view, hook[h].landed)
    <3>1. Write(hook[h].on, e, scan)
      BY <2>3 DEF WriteTicket
    <3> HIDE DEF e
    <3>2. hook[h].on \in Tickets
      BY <2>3, WriteTicketIs
    <3>3. QED
      BY <2>1, <3>1, <3>2, OneIsWritten
  <2>4. ASSUME hook[h].stage = "carrying", NEW m \in hook[h].todo, Land(h, m)
        PROVE  \A u \in Tickets \ {t} : ticket'[u] = ticket[u]
    <3>1. m.ticket \in Tickets
      BY <2>4, LandIs
    <3>2. \/ Write(m.ticket, [ticket[m.ticket] EXCEPT !.last = ticket[m.ticket].pull], scan)
          \/ UNCHANGED ticket
      BY <2>4, LandIs
    <3>3. QED
      BY <3>1, <3>2, OneIsWritten
  <2>5. CASE UNCHANGED ticket
    BY <2>5
  <2>6. QED
    BY <1>2, <2>1, <2>2, <2>3, <2>4, <2>5
    DEF Handle, ReadHistory, FindOwners, LockToLink, Claim, FindMergesAwaiting
<1>3. ASSUME NEW s \in Scans, Refresh(s)
      PROVE  Writes(t) /\ \A u \in Tickets \ {t} : ticket'[u] = ticket[u]
  <2>1. CASE UNCHANGED ticket
    BY <2>1
  <2>2. ASSUME NEW r \in Tickets, Reconcile(s, r), ticket' # ticket
        PROVE  Writes(t) /\ \A u \in Tickets \ {t} : ticket'[u] = ticket[u]
    <3>1. PICK next :
            /\ Entry(next) /\ Current(s, r)
            /\ next = ticket[r] \/ (\E v \in Views : Planned(s, r, v, next)) \/ Bare(r, next)
            /\ Write(r, next, Without(s, r))
            /\ next.branch # ticket[r].branch => repoLock = None /\ ~Attached(next.branch)
            /\ ticket'[r] = next /\ \A u \in Tickets \ {r} : ticket'[u] = ticket[u]
      BY <2>2, ReconcileIs
    <3>2. r = t
      BY <3>1
    <3>3. ASSUME NEW v \in Views, Planned(s, t, v, next) PROVE RefreshWrites(s, t, v)
      BY <2>2, <3>1, <3>2, <3>3 DEF RefreshWrites
    <3>4. ASSUME Bare(t, next) PROVE RefreshLinks(s, t)
      <4>1. PICK b \in Branches : next = OnBranch(b)
        BY <3>4 DEF Bare
      <4>2. next.branch # ticket[t].branch /\ next.pull = 0 /\ next.last = 0
        BY <3>4, <4>1, NoEntryTyped, NoneIsNothing DEF Bare
      <4>3. QED
        BY <2>2, <3>1, <3>2, <3>4, <4>2 DEF RefreshLinks
    <3>5. next # ticket[t]
      BY <3>1, <3>2
    <3>6. QED
      BY <3>1, <3>2, <3>3, <3>4, <3>5 DEF Writes
  <2>3. QED
    BY <1>3, <2>1, <2>2 DEF Refresh, ListTickets, StartFetch, Cached, FetchFails, Fetched
<1>4. ASSUME NEW r \in Tickets, NEW e, Entry(e), e.pull = 0, e.last = 0, ByHand(r, e),
             e.branch # None => repoLock = None
      PROVE  Writes(t) /\ \A u \in Tickets \ {t} : ticket'[u] = ticket[u]
  <2>1. Save(r, e, scan)
    BY <1>4 DEF ByHand
  <2>2. r = t /\ ticket'[r] = e /\ \A u \in Tickets : ticket'[u] # ticket[u] => u = r
    BY <2>1, OneIsWritten
  <2>3. HandWrites(t)
    BY <1>4, <2>2 DEF HandWrites
  <2>4. QED
    BY <2>2, <2>3 DEF Writes
<1>5. ASSUME NEW r \in Tickets, ClearBranch(r)
      PROVE  Writes(t) /\ \A u \in Tickets \ {t} : ticket'[u] = ticket[u]
  <2> DEFINE e == [NoEntry EXCEPT !.off = TRUE]
  <2>1. Entry(e) /\ e.pull = 0 /\ e.last = 0 /\ e.branch = None
    BY NoEntryTyped DEF NoEntry
  <2>2. ByHand(r, e)
    BY <1>5 DEF ClearBranch
  <2> HIDE DEF e
  <2>3. QED
    BY <1>4, <2>1, <2>2
<1>6. ASSUME NEW r \in Tickets, NEW b \in Branches, AttachBranch(r, b)
      PROVE  Writes(t) /\ \A u \in Tickets \ {t} : ticket'[u] = ticket[u]
  BY <1>4, <1>6, NoEntryTyped DEF AttachBranch
<1>7. QED
  BY <1>1, <1>2, <1>3, <1>5, <1>6 DEF Next, Receive, Crash, vars

LEMMA HandleGoes ==
  ASSUME TypeInv, NEW h \in Hooks, Handle(h)
  PROVE  \E k : Goes(h, k)
BY ReadHistoryIs, FindOwnersIs, LockToLinkIs, AttachIs, ClaimIs, WriteTicketIs,
   FindMergesAwaitingIs, LandIs DEF Handle

LEMMA WhoMoves ==
  ASSUME TypeInv, [Next]_vars, NEW h \in Hooks, hook'[h] # hook[h]
  PROVE  \/ \E v \in sent : Receive(h, v)
         \/ Handle(h)
         \/ Crash /\ hook'[h] = NoHook
<1>1. CASE UNCHANGED hook
  BY <1>1
<1>2. ASSUME NEW g \in Hooks, NEW v \in sent, Receive(g, v), hook' # hook
      PROVE  g = h
  BY <1>2, ReceiveIs, HooksKeep
<1>3. ASSUME NEW g \in Hooks, Handle(g)
      PROVE  g = h
  BY <1>3, HandleGoes, HooksKeep
<1>4. CASE Crash
  BY <1>4 DEF Crash
<1>5. ASSUME GitHub PROVE UNCHANGED hook
  BY <1>5, GitHubIs DEF Newer, Change
<1>6. ASSUME NEW s \in Scans, Refresh(s) PROVE UNCHANGED hook
  BY <1>6 DEF Refresh, ListTickets, StartFetch, Cached, FetchFails, Fetched, Reconcile
<1>7. ASSUME NEW t \in Tickets, ClearBranch(t) \/ \E b \in Branches : AttachBranch(t, b)
      PROVE  UNCHANGED hook
  BY <1>7 DEF ClearBranch, AttachBranch, ByHand
<1>8. QED
  BY <1>1, <1>2, <1>3, <1>4, <1>5, <1>6, <1>7 DEF Next, vars

\* A handler that begins to hold a ticket has claimed its view.
LEMMA WhoHolds ==
  ASSUME TypeInv, [Next]_vars, NEW h \in Hooks, hook'[h] # hook[h], Holds(hook'[h])
  PROVE  /\ LockToLink(h) \/ \E t \in Tickets : Claim(h, t)
         /\ hook'[h].view = hook[h].view /\ Accepts(hook[h].view) /\ Remember(hook[h].view)
         /\ hook[h].stage # "idle" /\ UNCHANGED ticket
         /\ hook'[h].stage = "attaching" => ~Attached(BranchOf(h))
<1>1. (\E v \in sent : Receive(h, v)) \/ Handle(h) \/ (Crash /\ hook'[h] = NoHook)
  BY WhoMoves
<1>2. ASSUME NEW k, Goes(h, k), Quiet(k) PROVE FALSE
  BY <1>2, HooksKeep DEF Quiet, Holds
<1>3. hook'[h] # NoHook
  BY NoHookTyped DEF Holds
<1>4. ASSUME NEW v \in sent PROVE ~Receive(h, v)
  BY <1>2, <1>4, ReceiveIs
<1>5. ~ReadHistory(h) /\ ~FindOwners(h) /\ ~Attach(h) /\ ~WriteTicket(h)
  BY <1>2, ReadHistoryIs, FindOwnersIs, AttachIs, WriteTicketIs
<1>6. ASSUME NEW base \in hook[h].front PROVE ~FindMergesAwaiting(h, base)
  BY <1>2, FindMergesAwaitingIs
<1>7. ASSUME hook[h].stage = "carrying", NEW m \in hook[h].todo PROVE ~Land(h, m)
  BY <1>2, <1>7, LandIs
<1>8. LockToLink(h) \/ \E t \in Tickets : Claim(h, t)
  BY <1>1, <1>3, <1>4, <1>5, <1>6, <1>7 DEF Handle
<1>9. CASE LockToLink(h)
  <2>1. PICK k : Goes(h, k) /\ ~Attached(BranchOf(h)) /\ k.view = hook[h].view
                 /\ Accepts(hook[h].view) /\ Remember(hook[h].view)
    BY <1>2, <1>9, LockToLinkIs
  <2>2. QED
    BY <1>9, <2>1, HooksKeep DEF LockToLink
<1>10. ASSUME NEW t \in Tickets, Claim(h, t)
       PROVE  /\ hook'[h].view = hook[h].view /\ Accepts(hook[h].view) /\ Remember(hook[h].view)
              /\ hook[h].stage # "idle" /\ UNCHANGED ticket
              /\ hook'[h].stage = "attaching" => ~Attached(BranchOf(h))
  <2>1. PICK k : /\ Goes(h, k) /\ Accepts(hook[h].view) /\ Remember(hook[h].view)
                 /\ k.stage = "writing" /\ k.view = hook[h].view
    BY <1>2, <1>10, ClaimIs
  <2>2. QED
    BY <1>10, <2>1, HooksKeep DEF Claim
<1>11. QED
  BY <1>8, <1>9, <1>10

-------------------------------------------------------------------------------
(* A branch is linked by the programme to one ticket only.                   *)

\* While a handler holds the repository to link a branch, no ticket has the branch.
LinkInv == \A h \in Hooks : hook[h].stage = "attaching" => ~Attached(BranchOf(h))

LEMMA BranchStays ==
  ASSUME TypeInv, [Next]_vars, NEW t \in Tickets, NEW h \in Hooks, repoLock = h,
         ~Attach(h)
  PROVE  ticket'[t].branch \in {ticket[t].branch, None}
<1>1. CASE ticket'[t] = ticket[t]
  BY <1>1
<1>2. CASE ticket'[t] # ticket[t]
  <2>1. Writes(t)
    BY <1>2, WhoWrites
  <2>2. Entry(ticket[t]) /\ h # None
    BY NoneIsNothing DEF TypeInv, TicketsOK
  <2>3. ASSUME NEW g \in Hooks, AttachWrites(g, t) PROVE FALSE
    BY <2>3, AttachIs DEF AttachWrites
  <2>4. ASSUME NEW g \in Hooks, WebhookWrites(g, t) PROVE ticket'[t].branch = ticket[t].branch
    <3> DEFINE landed == hook[g].landed
    <3>1. landed \in BOOLEAN /\ hook[g].view \in Views
      BY <2>4, WriteTicketIs DEF WebhookWrites
    <3>2. ticket'[t] = WebhookPatch(ticket[t], hook[g].view, landed)
      BY <2>4 DEF WebhookWrites
    <3> HIDE DEF landed
    <3>3. QED
      BY <2>2, <3>1, <3>2, WebhookPatchIs
  <2>5. ASSUME NEW g \in Hooks, NEW m \in hook[g].todo, LandWrites(g, m, t)
        PROVE  ticket'[t].branch = ticket[t].branch
    BY <2>2, <2>5 DEF LandWrites, Entry, Entries
  <2>6. ASSUME NEW s \in Scans, NEW v \in Views, RefreshWrites(s, t, v)
        PROVE  ticket'[t].branch = ticket[t].branch
    BY <2>2, <2>6 DEF RefreshWrites
  <2>7. ASSUME NEW s \in Scans PROVE ~RefreshLinks(s, t)
    BY <2>2 DEF RefreshLinks
  <2>8. ASSUME HandWrites(t) PROVE ticket'[t].branch = None
    BY <2>2, <2>8 DEF HandWrites
  <2>9. QED
    BY <2>1, <2>3, <2>4, <2>5, <2>6, <2>7, <2>8 DEF Writes
<1>3. QED
  BY <1>1, <1>2

LEMMA LinkStep ==
  ASSUME TypeInv, LinkInv, [Next]_vars
  PROVE  LinkInv'
<1> SUFFICES ASSUME NEW h \in Hooks, hook'[h].stage = "attaching"
             PROVE  ~Attached(BranchOf(h))'
  BY DEF LinkInv
<1>1. CASE hook'[h] = hook[h]
  <2>1. repoLock = h /\ BranchOf(h)' = BranchOf(h) /\ ~Attached(BranchOf(h))
    BY <1>1 DEF BranchOf, LinkInv, TypeInv, Holding
  <2>2. BranchOf(h) # None
    <3>1. hook[h].view \in Views
      BY <1>1 DEF TypeInv, HooksOK, Shape
    <3>2. hook[h].view.pull \in Pulls
      BY <3>1 DEF Views
    <3>3. Head[hook[h].view.pull] \in Branches
      BY <3>2, PullsAssumption
    <3>4. QED
      BY <3>3, NoneIsNothing DEF BranchOf
  <2>3. ASSUME Attach(h) PROVE FALSE
    BY <1>1, <2>3, AttachIs, HooksKeep DEF Quiet, Holds
  <2>4. \A t \in Tickets : ticket'[t].branch \in {ticket[t].branch, None}
    BY <2>1, <2>3, BranchStays
  <2>5. QED
    BY <2>1, <2>2, <2>4 DEF Attached
<1>2. CASE hook'[h] # hook[h]
  BY <1>2, WhoHolds DEF BranchOf, Attached, Holds
<1>3. QED
  BY <1>1, <1>2

\* A branch that a webhook attaches to a ticket is attached to no other, whatever runs at the
\* same time: linkPullRequestWebhookToTicket looks for owners and writes under repositoryBranch.
THEOREM LinksAreExclusive == Spec => AutomaticLinksAreExclusive
<1> DEFINE Exclusive == \A t, u \in Tickets :
             /\ spent'.acts = spent.acts
             /\ ticket'[t].branch # ticket[t].branch
             /\ t # u
             => ticket'[t].branch # ticket'[u].branch
<1>1. ASSUME TypeInv, LinkInv, [Next]_vars PROVE Exclusive
  <2> SUFFICES ASSUME NEW t \in Tickets, NEW u \in Tickets, spent'.acts = spent.acts,
                      ticket'[t].branch # ticket[t].branch, t # u
               PROVE  ticket'[t].branch # ticket[u].branch /\ ticket'[u] = ticket[u]
    OBVIOUS
  <2>1. Writes(t) /\ ticket'[u] = ticket[u]
    BY <1>1, WhoWrites
  <2>2. Entry(ticket[t])
    BY <1>1 DEF TypeInv, TicketsOK
  <2>3. ASSUME NEW h \in Hooks, AttachWrites(h, t) PROVE ~Attached(ticket'[t].branch)
    <3> DEFINE landed == hook[h].landed
    <3>1. landed \in BOOLEAN /\ hook[h].view \in Views /\ BranchOf(h) \in Branches
      BY <1>1, <2>3, AttachIs DEF AttachWrites
    <3>2. ticket'[t] = Patched(OnBranch(BranchOf(h)), hook[h].view, landed)
      BY <2>3 DEF AttachWrites
    <3>3. Entry(OnBranch(BranchOf(h))) /\ OnBranch(BranchOf(h)).branch = Head[hook[h].view.pull]
      BY <3>1, NoEntryTyped DEF BranchOf
    <3> HIDE DEF landed
    <3>4. ticket'[t].branch = BranchOf(h)
      BY <3>1, <3>2, <3>3, PatchedIs DEF BranchOf
    <3>5. hook[h].stage = "attaching"
      BY <2>3 DEF AttachWrites, Attach
    <3>6. QED
      BY <1>1, <3>4, <3>5 DEF LinkInv
  <2>4. ASSUME NEW h \in Hooks, WebhookWrites(h, t) PROVE FALSE
    <3> DEFINE landed == hook[h].landed
    <3>1. landed \in BOOLEAN /\ hook[h].view \in Views
      BY <1>1, <2>4, WriteTicketIs DEF WebhookWrites
    <3>2. ticket'[t] = WebhookPatch(ticket[t], hook[h].view, landed)
      BY <2>4 DEF WebhookWrites
    <3> HIDE DEF landed
    <3>3. QED
      BY <2>2, <3>1, <3>2, WebhookPatchIs
  <2>5. ASSUME NEW h \in Hooks, NEW m \in hook[h].todo, LandWrites(h, m, t) PROVE FALSE
    BY <2>2, <2>5 DEF LandWrites, Entry, Entries
  <2>6. ASSUME NEW s \in Scans, NEW v \in Views, RefreshWrites(s, t, v)
        PROVE  ~Attached(ticket'[t].branch)
    BY <2>6 DEF RefreshWrites
  <2>7. ~HandWrites(t)
    BY <1>1 DEF HandWrites, ByHand, TypeInv, StoreOK
  <2>8. ~Attached(ticket'[t].branch)
    BY <2>1, <2>3, <2>4, <2>5, <2>6, <2>7 DEF Writes, RefreshLinks
  <2>9. QED
    BY <2>1, <2>8 DEF Attached
<1>2. TypeInv /\ LinkInv /\ [Next]_vars => [Exclusive]_vars
  BY <1>1
<1>3. Init => LinkInv
  BY NoHookTyped DEF Init, LinkInv
<1>4. TypeInv /\ LinkInv /\ [Next]_vars => LinkInv'
  BY LinkStep
<1>5. QED
  BY <1>2, <1>3, <1>4, AlwaysTyped, PTL DEF Spec, AutomaticLinksAreExclusive

-------------------------------------------------------------------------------
(* What the tickets, the handlers and the refreshes know of GitHub is true   *)
(* or was so.                                                                *)

\* A view of a pull request as it is or as it was earlier; a merge is the last one.
Known(v) ==
  /\ v \in Views /\ gh[v.pull] # None
  /\ v.seq <= gh[v.pull].seq /\ v.at <= gh[v.pull].at
  /\ v.seq = gh[v.pull].seq \/ v.state = "merged" => v = gh[v.pull]

KnownMerge(v) == Known(v) /\ v.state = "merged"

\* What a ticket shows was so.
Shown(e) ==
  e.pull # 0 =>
    /\ gh[e.pull] # None /\ e.seq <= gh[e.pull].seq
    /\ e.state = "merged" => gh[e.pull].state = "merged" /\ e.seq = gh[e.pull].seq

GitHubPast ==
  \A p \in Pulls : gh[p] # None =>
    gh[p].at <= now /\ (gh[p].state = "merged" => gh[p].mergedAt <= now)

HooksPast ==
  \A h \in Hooks : hook[h].stage # "idle" =>
    Known(hook[h].view) /\ \A v \in hook[h].merged : KnownMerge(v)

ScansPast == \A s \in Scans, p \in Pulls : scan[s].views[p] # None => Known(scan[s].views[p])

Past ==
  /\ GitHubPast
  /\ \A v \in sent : Known(v)
  /\ \A p \in Pulls : remembered[p] # None => Known(remembered[p])
  /\ HooksPast
  /\ ScansPast
  /\ \A t \in Tickets : Shown(ticket[t])

LEMMA KnownStays ==
  ASSUME TypeInv, GitHubPast, [Next]_vars
  PROVE  /\ GitHubPast'
         /\ \A v : Known(v) => Known(v)'
         /\ \A e : Shown(e) /\ e \in Entries => Shown(e)'
         /\ \A p \in Pulls : gh[p] # None => Known(gh[p])
         /\ \A v \in sent' \ sent : Known(v)'
<1>1. \A p \in Pulls : gh[p] # None => gh[p] \in Views /\ gh[p].pull = p
  BY DEF TypeInv, GitHubOK, Told
<1>2. \A p \in Pulls : gh[p] # None => Known(gh[p])
  BY <1>1 DEF Known, Views, Times
<1>3. CASE gh' = gh /\ now' = now /\ sent' \subseteq sent
  BY <1>2, <1>3 DEF GitHubPast, Known, Shown
<1>4. ASSUME NEW p \in Pulls, NEW n \in Times, NEW view \in Views, Newer(p, view, n)
      PROVE  /\ GitHubPast'
             /\ \A v : Known(v) => Known(v)'
             /\ \A e : Shown(e) /\ e \in Entries => Shown(e)'
             /\ \A v \in sent' \ sent : Known(v)'
  <2>1. /\ now' = n /\ n >= now /\ gh' = [gh EXCEPT ![p] = view] /\ sent' = sent \cup {view}
        /\ gh \in [Pulls -> Views \cup {None}] /\ now \in Nat /\ n \in Nat
    BY <1>4 DEF Newer, Change, TypeInv, GitHubOK, Times
  <2>2. gh'[p] = view /\ (\A q \in Pulls \ {p} : gh'[q] = gh[q]) /\ view # None
    BY <2>1, NoneIsNothing
  <2>3. view.pull = p /\ view.at = n /\ view.mergedAt \in Nat /\ view.seq \in Nat
        /\ (gh[p] # None => gh[p].state # "merged" /\ view.seq = gh[p].seq + 1)
        /\ (view.state = "merged" => view.mergedAt = n)
    BY <1>4 DEF Newer, Views, Times
  <2>4. ASSUME NEW q \in Pulls, gh'[q] # None
        PROVE  gh'[q].at <= now' /\ (gh'[q].state = "merged" => gh'[q].mergedAt <= now')
    <3>1. CASE q = p
      BY <2>1, <2>2, <2>3, <3>1
    <3>2. CASE q # p
      <4>1. gh'[q] = gh[q] /\ gh[q] \in Views /\ gh[q].at <= now
            /\ (gh[q].state = "merged" => gh[q].mergedAt <= now)
        BY <1>1, <2>2, <2>4, <3>2 DEF GitHubPast
      <4>2. gh[q].at \in Nat /\ gh[q].mergedAt \in Nat
        BY <4>1 DEF Views, Times
      <4>3. QED
        BY <2>1, <4>1, <4>2
    <3>3. QED
      BY <3>1, <3>2
  <2>5. ASSUME NEW v, Known(v) PROVE Known(v)'
    <3>1. v \in Views /\ v.pull \in Pulls /\ v.seq \in Nat /\ v.at \in Nat
      BY <2>5 DEF Known, Views, Times
    <3>2. CASE v.pull = p
      <4>1. gh[p] # None /\ gh[p] \in Views /\ gh[p].seq \in Nat /\ gh[p].at \in Nat
            /\ v.seq <= gh[p].seq /\ v.at <= gh[p].at /\ gh[p].at <= now
            /\ (v.state = "merged" => v = gh[p])
        BY <1>1, <2>5, <3>2 DEF Known, Views, Times, GitHubPast
      <4>2. v.state # "merged"
        BY <2>3, <4>1
      <4>3. v.seq < view.seq /\ v.at <= view.at
        BY <2>1, <2>3, <3>1, <4>1
      <4>4. QED
        BY <2>2, <2>3, <3>1, <3>2, <4>2, <4>3 DEF Known
    <3>3. CASE v.pull # p
      BY <2>2, <2>5, <3>1, <3>3 DEF Known
    <3>4. QED
      BY <3>2, <3>3
  <2>6. ASSUME NEW e, Shown(e), e \in Entries PROVE Shown(e)'
    <3>1. e.pull \in Pulls \cup {0} /\ e.seq \in Nat
      BY <2>6 DEF Entries
    <3>2. CASE e.pull = p
      <4>1. p # 0 /\ gh[p] # None /\ e.seq <= gh[p].seq
            /\ (e.state = "merged" => gh[p].state = "merged")
        BY <2>6, <3>2, NoneIsNothing DEF Shown
      <4>2. gh[p].seq \in Nat
        BY <1>1, <4>1 DEF Views
      <4>3. e.seq <= view.seq /\ e.state # "merged"
        BY <2>3, <3>1, <4>1, <4>2
      <4>4. QED
        BY <2>2, <3>2, <4>3 DEF Shown
    <3>3. CASE e.pull # p
      BY <2>2, <2>6, <3>1, <3>3 DEF Shown
    <3>4. QED
      BY <3>2, <3>3
  <2>7. Known(view)'
    BY <2>2, <2>3 DEF Known, Views, Times
  <2>8. QED
    BY <2>1, <2>4, <2>5, <2>6, <2>7 DEF GitHubPast
<1>5. CASE GitHub
  BY <1>2, <1>4, <1>5, GitHubIs
<1>6. CASE ~GitHub
  BY <1>3, <1>6, OnlyGitHub
<1>7. QED
  BY <1>5, <1>6

\* A handler keeps its view and what it has read.
Carries(h, k) ==
  k.stage # "idle" => /\ k.view = hook[h].view
                      /\ k.merged = hook[h].merged
                      /\ k.landed = hook[h].landed

LEMMA AppliedCarries ==
  ASSUME NEW h \in Hooks, hook[h] \in HookStates
  PROVE  Carries(h, Applied(h))
<1>1. CASE Applied(h) = NoHook
  BY <1>1, NoHookTyped DEF Carries
<1>2. CASE Applied(h) # NoHook
  <2> DEFINE F == {[branch |-> BranchOf(h), at |-> hook[h].view.mergedAt]}
             V == {BranchOf(h)}
             k == Applied(h)
  <2>1. k = [hook[h] EXCEPT !.stage = "landing", !.todo = {}, !.on = None, !.front = F,
                            !.visited = V]
    BY <1>2 DEF Applied
  <2> HIDE DEF F, V, k
  <2>2. Carries(h, k)
    BY <2>1 DEF HookStates, Carries
  <2>3. QED
    BY <2>2 DEF k
<1>3. QED
  BY <1>1, <1>2

LEMMA OnwardCarries ==
  ASSUME NEW h \in Hooks, hook[h] \in HookStates, NEW todo
  PROVE  Carries(h, Onward(h, todo))
<1>1. CASE todo = {}
  BY <1>1, AppliedCarries DEF Onward
<1>2. CASE todo # {}
  <2> DEFINE k == Onward(h, todo)
  <2>1. k = [hook[h] EXCEPT !.stage = "applying", !.todo = todo, !.on = None]
    BY <1>2 DEF Onward
  <2> HIDE DEF k
  <2>2. Carries(h, k)
    BY <2>1 DEF HookStates, Carries
  <2>3. QED
    BY <2>2 DEF k
<1>3. QED
  BY <1>1, <1>2

LEMMA CarryOnCarries ==
  ASSUME NEW h \in Hooks, NEW n \in HookStates, n.view = hook[h].view,
         n.merged = hook[h].merged, n.landed = hook[h].landed
  PROVE  Carries(h, CarryOn(n))
<1> DEFINE k == CarryOn(n)
<1>1. \/ k = [n EXCEPT !.stage = "carrying"]
      \/ k = [n EXCEPT !.stage = "landing", !.base = None]
      \/ k = NoHook
  BY DEF CarryOn
<1> HIDE DEF k
<1>2. Carries(h, k)
  BY <1>1, NoHookTyped DEF Carries, HookStates
<1>3. QED
  BY <1>2 DEF k

LEMMA AwaitingCarries ==
  ASSUME NEW h \in Hooks, hook[h] \in HookStates, NEW base
  PROVE  /\ Awaiting(h, base).view = hook[h].view /\ Awaiting(h, base).merged = hook[h].merged
         /\ Awaiting(h, base).landed = hook[h].landed /\ Awaiting(h, base).base = base
         /\ Awaiting(h, base).front = hook[h].front \ {base}
<1> DEFINE T == {[ticket |-> t, branch |-> ticket[t].branch] :
                   t \in {u \in Tickets : Waits(ticket[u], base.branch)}}
<1>1. Awaiting(h, base) = [hook[h] EXCEPT !.base = base, !.front = @ \ {base}, !.todo = T]
  BY DEF Awaiting
<1> HIDE DEF T
<1>2. QED
  BY <1>1 DEF HookStates

LEMMA RestCarries ==
  ASSUME NEW h \in Hooks, hook[h] \in HookStates, NEW m
  PROVE  /\ Rest(h, m).view = hook[h].view /\ Rest(h, m).merged = hook[h].merged
         /\ Rest(h, m).landed = hook[h].landed /\ Rest(h, m).base = hook[h].base
         /\ Rest(h, m).front = hook[h].front
BY DEF Rest, HookStates

LEMMA FurtherCarries ==
  ASSUME NEW h \in Hooks, hook[h] \in HookStates, NEW m, NEW e
  PROVE  /\ Further(h, m, e).view = hook[h].view /\ Further(h, m, e).merged = hook[h].merged
         /\ Further(h, m, e).landed = hook[h].landed /\ Further(h, m, e).base = hook[h].base
         /\ Further(h, m, e).front = hook[h].front \cup
              {[branch |-> m.branch, at |-> mergedAt] : mergedAt \in MergedBefore(h, e)}
<1> DEFINE A == {[branch |-> m.branch, at |-> mergedAt] : mergedAt \in MergedBefore(h, e)}
           r == Rest(h, m)
<1>1. Further(h, m, e) = [r EXCEPT !.visited = r.visited \cup {m.branch}, !.front = r.front \cup A]
  BY DEF Further
<1>2. r = [hook[h] EXCEPT !.todo = @ \ {m}]
  BY DEF Rest
<1> HIDE DEF A, r
<1>3. QED
  BY <1>1, <1>2 DEF HookStates, A

\* Only the read of the table changes what a handler has read.
LEMMA HandleCarries ==
  ASSUME TypeInv, NEW h \in Hooks, Handle(h)
  PROVE  /\ hook[h].stage # "idle"
         /\ ReadHistory(h) \/ \E k : Goes(h, k) /\ Carries(h, k)
<1>0. hook[h] \in HookStates
  BY DEF TypeInv, HooksOK
<1>1. hook[h].stage # "idle"
  BY DEF Handle, ReadHistory, FindOwners, LockToLink, Attach, Claim, WriteTicket, FindMergesAwaiting
<1>2. CASE FindOwners(h)
  <2>1. PICK k : /\ Goes(h, k) /\ Quiet(k)
                 /\ k \in {[hook[h] EXCEPT !.stage = "linking"], Onward(h, Owners(h))}
    BY <1>2, FindOwnersIs
  <2>2. Carries(h, [hook[h] EXCEPT !.stage = "linking"])
    BY <1>0 DEF Carries, HookStates
  <2>3. QED
    BY <1>0, <1>1, <2>1, <2>2, OnwardCarries
<1>3. CASE LockToLink(h)
  <2> DEFINE l == [hook[h] EXCEPT !.stage = "attaching", !.on = Names[hook[h].view.pull]]
  <2>1. Carries(h, l)
    BY <1>0 DEF Carries, HookStates
  <2>2. Goes(h, l) \/ Goes(h, Applied(h))
    BY <1>3, LockToLinkIs
  <2> HIDE DEF l
  <2>3. QED
    BY <1>0, <1>1, <2>1, <2>2, AppliedCarries
<1>4. CASE Attach(h)
  BY <1>0, <1>1, <1>4, AttachIs, AppliedCarries
<1>5. ASSUME NEW t \in Tickets, Claim(h, t) PROVE \E k : Goes(h, k) /\ Carries(h, k)
  <2> DEFINE l == [hook[h] EXCEPT !.stage = "writing", !.on = t]
  <2>1. Carries(h, l)
    BY <1>0 DEF Carries, HookStates
  <2>2. Goes(h, l) \/ Goes(h, Onward(h, hook[h].todo \ {t}))
    BY <1>5, ClaimIs
  <2> HIDE DEF l
  <2>3. QED
    BY <1>0, <2>1, <2>2, OnwardCarries
<1>6. CASE WriteTicket(h)
  BY <1>0, <1>1, <1>6, WriteTicketIs, OnwardCarries
<1>7. ASSUME NEW base \in hook[h].front, FindMergesAwaiting(h, base)
      PROVE  \E k : Goes(h, k) /\ Carries(h, k)
  <2>1. Goes(h, CarryOn(Awaiting(h, base))) /\ Awaiting(h, base) \in HookStates
    BY <1>7, FindMergesAwaitingIs
  <2>2. Carries(h, CarryOn(Awaiting(h, base)))
    BY <1>0, <2>1, AwaitingCarries, CarryOnCarries
  <2>3. QED
    BY <2>1, <2>2
<1>8. ASSUME hook[h].stage = "carrying", NEW m \in hook[h].todo, Land(h, m)
      PROVE  \E k : Goes(h, k) /\ Carries(h, k)
  <2> DEFINE f == Further(h, m, ticket[m.ticket])
             r == Rest(h, m)
  <2>1. \/ Goes(h, CarryOn(f)) /\ f \in HookStates
        \/ Goes(h, CarryOn(r)) /\ r \in HookStates
    BY <1>8, LandIs
  <2>2. f \in HookStates => Carries(h, CarryOn(f))
    BY <1>0, FurtherCarries, CarryOnCarries
  <2>3. r \in HookStates => Carries(h, CarryOn(r))
    BY <1>0, RestCarries, CarryOnCarries
  <2>4. QED
    BY <2>1, <2>2, <2>3
<1>9. QED
  BY <1>1, <1>2, <1>3, <1>4, <1>5, <1>6, <1>7, <1>8 DEF Handle

\* A refresh that has asked GitHub, or will use an answer, sees every write of a ticket.
Watching(k) == k.cached \/ k.stage \in {"fetching", "reconciling"}

Watched(s, scans) ==
  /\ scan'[s].views = scans[s].views
  /\ Watching(scan'[s]) =>
       /\ Watching(scans[s]) /\ scans[s].late \subseteq scan'[s].late
       /\ \A t \in Tickets : ticket'[t] # ticket[t] => t \in scan'[s].late

LEMMA WriteWatched ==
  ASSUME TypeInv, NEW scans \in [Scans -> ScanStates], NEW t \in Tickets, NEW e,
         Write(t, e, scans) \/ Save(t, e, scans), NEW s \in Scans
  PROVE  Watched(s, scans)
<1>1. CASE UNCHANGED ticket /\ scan' = scans
  BY <1>1 DEF Watched
<1>2. CASE Save(t, e, scans)
  <2>1. /\ scan'[s].stage = scans[s].stage /\ scan'[s].cached = scans[s].cached
        /\ scan'[s].views = scans[s].views
        /\ scans[s].cached \/ scans[s].stage \in {"fetching", "reconciling"}
             => scan'[s].late = scans[s].late \cup {t}
    BY <1>2, SavedScans
  <2>2. \A u \in Tickets : ticket'[u] # ticket[u] => u = t
    BY <1>2, OneIsWritten
  <2>3. QED
    BY <2>1, <2>2 DEF Watched, Watching
<1>3. QED
  BY <1>1, <1>2 DEF Write

LEMMA WhatScansSee ==
  ASSUME TypeInv, [Next]_vars, NEW s \in Scans
  PROVE  \/ scan'[s].views = NoViews
         \/ /\ Watching(scan[s]) /\ scan'[s].late = scan[s].late /\ UNCHANGED ticket
            /\ \E b \in Branches : scan'[s].views = Asked(s, b)
         \/ Watched(s, scan)
<1>0. scan \in [Scans -> ScanStates] /\ scan[s] \in ScanStates
  BY DEF TypeInv, ScansOK, ScansFit
<1>1. CASE scan' = scan /\ UNCHANGED ticket
  BY <1>1 DEF Watched
<1>2. ASSUME NEW t \in Tickets, NEW e, Write(t, e, scan) \/ Save(t, e, scan)
      PROVE  Watched(s, scan)
  BY <1>0, <1>2, WriteWatched
<1>3. ASSUME NEW h \in Hooks, Handle(h) PROVE Watched(s, scan) \/ (scan' = scan /\ UNCHANGED ticket)
  <2>1. CASE Attach(h)
    <3> DEFINE e == Patched(OnBranch(BranchOf(h)), hook[h].view, hook[h].landed)
    <3>1. Write(hook[h].on, e, scan) \/ (scan' = scan /\ UNCHANGED ticket)
      BY <2>1 DEF Attach
    <3> HIDE DEF e
    <3>2. QED
      BY <1>2, <2>1, <3>1, AttachIs
  <2>2. CASE WriteTicket(h)
    <3> DEFINE e == WebhookPatch(ticket[hook[h].on], hook[h].view, hook[h].landed)
    <3>1. Write(hook[h].on, e, scan)
      BY <2>2 DEF WriteTicket
    <3> HIDE DEF e
    <3>2. QED
      BY <1>2, <2>2, <3>1, WriteTicketIs
  <2>3. ASSUME hook[h].stage = "carrying", NEW m \in hook[h].todo, Land(h, m)
        PROVE  Watched(s, scan) \/ (scan' = scan /\ UNCHANGED ticket)
    <3>1. m.ticket \in Tickets
      BY <2>3, LandIs
    <3>2. \/ Write(m.ticket, [ticket[m.ticket] EXCEPT !.last = ticket[m.ticket].pull], scan)
          \/ scan' = scan /\ UNCHANGED ticket
      BY <2>3, LandIs
    <3>3. QED
      BY <1>2, <3>1, <3>2
  <2>4. QED
    BY <1>3, <2>1, <2>2, <2>3
    DEF Handle, ReadHistory, FindOwners, LockToLink, Claim, FindMergesAwaiting
<1>4. ASSUME NEW r \in Scans, NEW t \in Tickets, Reconcile(r, t) PROVE Watched(s, scan)
  <2>1. scan[r].stage = "reconciling" /\ Without(r, t) \in [Scans -> ScanStates]
    BY <1>4, WithoutFits, ReconcileIs DEF ScansFit
  <2>2. /\ Without(r, t)[s].views = scan[s].views /\ Without(r, t)[s].late = scan[s].late
        /\ Watching(Without(r, t)[s]) => Watching(scan[s])
    BY <2>1, WithoutFits DEF Watching
  <2>3. \/ UNCHANGED ticket /\ scan' = Without(r, t)
        \/ \E next : Write(t, next, Without(r, t))
    BY <1>4, ReconcileIs
  <2>4. Watched(s, Without(r, t))
    BY <2>1, <2>3, WriteWatched DEF Watched
  <2>5. QED
    BY <2>2, <2>4 DEF Watched
<1>6. ASSUME NEW r \in Scans, NEW k, scan' = [scan EXCEPT ![r] = k], UNCHANGED ticket
      PROVE  IF r = s THEN scan'[s] = k ELSE Watched(s, scan)
  BY <1>0, <1>6 DEF Watched
<1>7. ASSUME NEW r \in Scans, ListTickets(r) PROVE Watched(s, scan)
  <2> DEFINE k == [scan[r] EXCEPT !.stage = "listed", !.index = ticket]
  <2>1. scan' = [scan EXCEPT ![r] = k] /\ UNCHANGED ticket /\ scan[r].stage = "idle"
    BY <1>0, <1>7 DEF ListTickets
  <2>2. r = s => /\ k.views = scan[s].views /\ k.late = scan[s].late /\ k.cached = scan[s].cached
                 /\ k.stage = "listed"
    BY <1>0 DEF ScanStates
  <2> HIDE DEF k
  <2>3. QED
    BY <1>6, <2>1, <2>2 DEF Watched, Watching
<1>8. ASSUME NEW r \in Scans, StartFetch(r) PROVE scan'[s].views = NoViews \/ Watched(s, scan)
  <2> DEFINE k == [scan[r] EXCEPT !.stage = "fetching", !.cached = FALSE, !.late = {},
                                  !.left = Branches, !.views = NoViews]
  <2>1. scan' = [scan EXCEPT ![r] = k] /\ UNCHANGED ticket
    BY <1>0, <1>8 DEF StartFetch
  <2>2. r = s => k.views = NoViews
    BY <1>0 DEF ScanStates
  <2> HIDE DEF k
  <2>3. QED
    BY <1>6, <2>1, <2>2
<1>9. ASSUME NEW r \in Scans, Cached(r) PROVE Watched(s, scan)
  <2>1. scan' = [scan EXCEPT ![r] = Answered(r)] /\ UNCHANGED ticket /\ scan[r].cached
    BY <1>9 DEF Cached
  <2>2. r = s => Answered(r).views = scan[s].views /\ Answered(r).late = scan[s].late
    BY <1>0 DEF ScanStates, Answered
  <2>3. QED
    BY <1>6, <2>1, <2>2 DEF Watched, Watching
<1>10. ASSUME NEW r \in Scans, FetchFails(r) PROVE scan'[s].views = NoViews \/ Watched(s, scan)
  <2>1. scan' = [scan EXCEPT ![r] = NoScan] /\ UNCHANGED ticket /\ NoScan.views = NoViews
    BY <1>10 DEF FetchFails, NoScan
  <2>2. QED
    BY <1>6, <2>1
<1>11. ASSUME NEW r \in Scans, NEW b \in Branches, Fetched(r, b)
       PROVE  \/ /\ Watching(scan[s]) /\ scan'[s].late = scan[s].late /\ UNCHANGED ticket
                 /\ scan'[s].views = Asked(s, b)
              \/ Watched(s, scan)
  <2> DEFINE A == Answered(r)
             k == IF scan[r].left = {b} THEN [A EXCEPT !.views = Asked(r, b)]
                  ELSE [scan[r] EXCEPT !.views = Asked(r, b), !.left = scan[r].left \ {b}]
  <2>1. scan' = [scan EXCEPT ![r] = k] /\ UNCHANGED ticket /\ scan[r].stage = "fetching"
    BY <1>11 DEF Fetched
  <2>2. r = s => A \in [stage : {"reconciling"}, cached : {TRUE}, index : {scan[s].index},
                        changed : {scan[s].changed}, late : {scan[s].late}, left : {{}},
                        views : {scan[s].views}, todo : {Tickets}]
    BY <1>0 DEF Answered, ScanStates
  <2> HIDE DEF A
  <2>3. r = s => k.views = Asked(s, b) /\ k.late = scan[s].late
    BY <1>0, <2>2 DEF ScanStates
  <2> HIDE DEF k
  <2>4. QED
    BY <1>6, <2>1, <2>3 DEF Watching
<1>12. CASE Crash
  <2>1. scan'[s] = NoScan /\ NoScan.views = NoViews
    BY <1>12 DEF Crash, NoScan
  <2>2. QED
    BY <2>1
<1>13. ASSUME NEW t \in Tickets, ClearBranch(t) \/ \E b \in Branches : AttachBranch(t, b)
       PROVE  Watched(s, scan)
  BY <1>2, <1>13 DEF ClearBranch, AttachBranch, ByHand
<1>14. ASSUME GitHub PROVE scan' = scan /\ UNCHANGED ticket
  BY <1>14, GitHubIs DEF Newer, Change
<1>15. ASSUME NEW h \in Hooks, NEW v \in sent, Receive(h, v) PROVE scan' = scan /\ UNCHANGED ticket
  BY <1>15 DEF Receive
<1>16. QED
  BY <1>1, <1>3, <1>4, <1>7, <1>8, <1>9, <1>10, <1>11, <1>12, <1>13, <1>14, <1>15
  DEF Next, Refresh, vars

LEMMA WhatIsRemembered ==
  ASSUME TypeInv, Past, [Next]_vars, NEW p \in Pulls
  PROVE  \/ remembered'[p] = remembered[p]
         \/ Known(remembered'[p])
<1>1. CASE UNCHANGED remembered
  BY <1>1
<1>2. ASSUME NEW v, Known(v), Remember(v)
      PROVE  remembered'[p] = remembered[p] \/ Known(remembered'[p])
  <2>1. remembered \in [Pulls -> Views \cup {None}]
    BY DEF TypeInv, StoreOK
  <2>2. QED
    BY <1>2, <2>1 DEF Remember
<1>3. ASSUME NEW h \in Hooks, NEW v \in sent, Receive(h, v)
      PROVE  remembered'[p] = remembered[p] \/ Known(remembered'[p])
  <2>1. Known(v) /\ (Remember(v) \/ remembered' = remembered)
    BY <1>3, ReceiveIs DEF Past
  <2>2. QED
    BY <1>2, <2>1
<1>4. ASSUME NEW h \in Hooks, Handle(h)
      PROVE  remembered'[p] = remembered[p] \/ Known(remembered'[p])
  <2>1. Known(hook[h].view)
    BY <1>4, HandleCarries DEF Past, HooksPast
  <2>2. Remember(hook[h].view) \/ UNCHANGED remembered
    BY <1>4 DEF Handle, ReadHistory, FindOwners, LockToLink, Attach, Claim, WriteTicket,
                FindMergesAwaiting, Land
  <2>3. QED
    BY <1>2, <2>1, <2>2
<1>5. ASSUME GitHub PROVE UNCHANGED remembered
  BY <1>5, GitHubIs DEF Newer, Change
<1>6. QED
  BY <1>1, <1>3, <1>4, <1>5
  DEF Next, vars, Refresh, ListTickets, StartFetch, Cached, FetchFails, Fetched, Reconcile,
      ClearBranch, AttachBranch, ByHand, Crash

LEMMA MovedPast ==
  ASSUME TypeInv, Past, [Next]_vars, NEW h \in Hooks, hook'[h].stage # "idle"
  PROVE  Known(hook'[h].view) /\ \A v \in hook'[h].merged : KnownMerge(v)
<1>1. CASE hook'[h] = hook[h]
  BY <1>1 DEF Past, HooksPast
<1>2. CASE hook'[h] # hook[h]
  <2>1. (\E v \in sent : Receive(h, v)) \/ Handle(h) \/ (Crash /\ hook'[h] = NoHook)
    BY <1>2, WhoMoves
  <2>2. ASSUME NEW v \in sent, Receive(h, v)
        PROVE  Known(hook'[h].view) /\ \A w \in hook'[h].merged : KnownMerge(w)
    <3>1. PICK k : Goes(h, k) /\ k = [NoHook EXCEPT !.stage = "remembered", !.view = v]
      <4>1. ~(hook' = hook)
        BY <1>2
      <4>2. PICK k : /\ Goes(h, k) /\ Quiet(k) /\ k.view = v /\ k.stage = "remembered"
                     /\ k = [NoHook EXCEPT !.stage = "remembered", !.view = v]
                     /\ Accepts(v) /\ Remember(v)
        BY <2>2, <4>1, ReceiveIs
      <4>3. QED
        BY <4>2
    <3>2. k.view = v /\ k.merged = {}
      BY <3>1 DEF NoHook
    <3>3. hook'[h] = k
      BY <3>1, HooksKeep
    <3>4. QED
      BY <3>2, <3>3 DEF Past
  <2>3. ASSUME Handle(h)
        PROVE  Known(hook'[h].view) /\ \A w \in hook'[h].merged : KnownMerge(w)
    <3>1. hook[h].stage # "idle" /\ Known(hook[h].view)
          /\ \A v \in hook[h].merged : KnownMerge(v)
      BY <2>3, HandleCarries DEF Past, HooksPast
    <3>2. CASE ReadHistory(h)
      <4>1. PICK k : /\ Goes(h, k) /\ k.view = hook[h].view
                     /\ k.merged = Merged({remembered[p] : p \in {q \in Pulls : remembered[q] # None}})
        BY <3>2, ReadHistoryIs
      <4>2. \A v \in k.merged : KnownMerge(v)
        BY <4>1 DEF Merged, KnownMerge, Past
      <4>3. QED
        BY <3>1, <4>1, <4>2, HooksKeep
    <3>3. ASSUME NEW k, Goes(h, k), Carries(h, k)
          PROVE  Known(hook'[h].view) /\ \A w \in hook'[h].merged : KnownMerge(w)
      <4>1. hook'[h] = k
        BY <3>3, HooksKeep
      <4>2. QED
        BY <3>1, <3>3, <4>1 DEF Carries
    <3>4. QED
      BY <2>3, <3>2, <3>3, HandleCarries
  <2>4. QED
    BY <2>1, <2>2, <2>3, NoHookTyped
<1>3. QED
  BY <1>1, <1>2

\* What a handler writes it was told, what a refresh writes it was answered.
LEMMA PatchedShown ==
  ASSUME NEW e, Entry(e), NEW v, Known(v), NEW landed \in BOOLEAN, e.branch = Head[v.pull],
         gh \in [Pulls -> Views \cup {None}]
  PROVE  /\ e.pull # v.pull \/ Shown(e) => Shown(Patched(e, v, landed))
         /\ e.pull = v.pull /\ Shown(e) /\ Patched(e, v, landed).seq < e.seq => v.seq < e.seq
<1> DEFINE n == Patched(e, v, landed)
<1>1. v \in Views /\ v.pull \in Pulls /\ v.seq \in Nat /\ gh[v.pull] # None
      /\ v.seq <= gh[v.pull].seq /\ (v.state = "merged" => v = gh[v.pull])
  BY DEF Known, Views
<1>2. n.pull = v.pull /\ n.state = v.state
  BY <1>1, PatchedIs
<1>3. \/ n = e /\ e.pull = v.pull
      \/ n.seq = v.seq
  BY <1>1, PatchedSeq
<1> HIDE DEF n
<1>4. e.seq \in Nat
  BY DEF Entry, Entries
<1>5. e.pull # v.pull \/ Shown(e) => Shown(n)
  BY <1>1, <1>2, <1>3 DEF Shown
<1>6. n.seq < e.seq => v.seq < e.seq
  BY <1>1, <1>3, <1>4
<1>7. QED
  BY <1>5, <1>6 DEF n

LEMMA WrittenShown ==
  ASSUME TypeInv, Past, [Next]_vars, NEW t \in Tickets
  PROVE  Shown(ticket'[t])
<1>0. Entry(ticket[t]) /\ Shown(ticket[t]) /\ gh \in [Pulls -> Views \cup {None}]
  BY DEF TypeInv, TicketsOK, Past, GitHubOK
<1>1. CASE ticket'[t] = ticket[t]
  BY <1>0, <1>1
<1>2. CASE ticket'[t] # ticket[t]
  <2>1. Writes(t)
    BY <1>2, WhoWrites
  <2>2. ASSUME NEW h \in Hooks, AttachWrites(h, t) PROVE Shown(ticket'[t])
    <3> DEFINE landed == hook[h].landed
    <3>1. landed \in BOOLEAN /\ hook[h].view \in Views /\ BranchOf(h) \in Branches
      BY <2>2, AttachIs DEF AttachWrites
    <3>2. ticket'[t] = Patched(OnBranch(BranchOf(h)), hook[h].view, landed)
      BY <2>2 DEF AttachWrites
    <3>3. /\ Entry(OnBranch(BranchOf(h))) /\ OnBranch(BranchOf(h)).branch = Head[hook[h].view.pull]
          /\ OnBranch(BranchOf(h)).pull = 0
      BY <3>1, NoEntryTyped DEF BranchOf
    <3>4. Known(hook[h].view)
      BY <2>2 DEF AttachWrites, Attach, Past, HooksPast
    <3>5. Shown(OnBranch(BranchOf(h)))
      BY <3>3 DEF Shown
    <3> HIDE DEF landed
    <3>6. QED
      BY <1>0, <3>1, <3>2, <3>3, <3>4, <3>5, PatchedShown
  <2>3. ASSUME NEW h \in Hooks, WebhookWrites(h, t) PROVE Shown(ticket'[t])
    <3> DEFINE landed == hook[h].landed
    <3>1. landed \in BOOLEAN /\ hook[h].view \in Views
      BY <2>3, WriteTicketIs DEF WebhookWrites
    <3>2. ticket'[t] = WebhookPatch(ticket[t], hook[h].view, landed)
      BY <2>3 DEF WebhookWrites
    <3>3. Known(hook[h].view)
      BY <2>3 DEF WebhookWrites, WriteTicket, Past, HooksPast
    <3> HIDE DEF landed
    <3>4. \/ ticket'[t] = ticket[t]
          \/ ticket'[t] = [ticket[t] EXCEPT !.base = hook[h].view.base]
          \/ /\ ticket[t].branch = Head[hook[h].view.pull]
             /\ ticket'[t] = Patched(ticket[t], hook[h].view, landed)
      BY <1>0, <3>1, <3>2, WebhookPatchIs
    <3>5. Shown([ticket[t] EXCEPT !.base = hook[h].view.base])
      BY <1>0 DEF Shown, Entry, Entries
    <3>6. QED
      BY <1>0, <3>1, <3>3, <3>4, <3>5, PatchedShown
  <2>4. ASSUME NEW h \in Hooks, NEW m \in hook[h].todo, LandWrites(h, m, t)
        PROVE  Shown(ticket'[t])
    BY <1>0, <2>4 DEF LandWrites, Shown, Entry, Entries
  <2>5. ASSUME NEW s \in Scans, NEW v \in Views, RefreshWrites(s, t, v)
        PROVE  Shown(ticket'[t])
    <3> DEFINE landed == Landed(KnownMerges(scan[s].index, scan[s].views), v)
    <3>1. landed \in BOOLEAN
      BY DEF Landed
    <3>2. v.pull \in Pulls /\ scan[s].views[v.pull] = v
          /\ \/ ticket[t].branch = Head[v.pull] /\ ticket'[t] = Patched(ticket[t], v, landed)
             \/ ticket'[t] = Patched(OnBranch(Head[v.pull]), v, landed)
      BY <2>5 DEF RefreshWrites, Planned
    <3>3. Known(v)
      BY <3>2, NoneIsNothing DEF Past, ScansPast
    <3>4. /\ Entry(OnBranch(Head[v.pull])) /\ OnBranch(Head[v.pull]).branch = Head[v.pull]
          /\ Shown(OnBranch(Head[v.pull]))
      BY <3>2, NoEntryTyped, PullsAssumption DEF Shown
    <3> HIDE DEF landed
    <3>5. QED
      BY <1>0, <3>1, <3>2, <3>3, <3>4, PatchedShown
  <2>6. ASSUME HandWrites(t) \/ \E s \in Scans : RefreshLinks(s, t) PROVE Shown(ticket'[t])
    BY <2>6 DEF HandWrites, RefreshLinks, Shown
  <2>7. QED
    BY <2>1, <2>2, <2>3, <2>4, <2>5, <2>6 DEF Writes
<1>3. QED
  BY <1>1, <1>2

LEMMA PastStep ==
  ASSUME TypeInv, Past, [Next]_vars
  PROVE  Past'
<1>1. /\ GitHubPast'
      /\ \A v : Known(v) => Known(v)'
      /\ \A e : Shown(e) /\ e \in Entries => Shown(e)'
      /\ \A p \in Pulls : gh[p] # None => Known(gh[p])
      /\ \A v \in sent' \ sent : Known(v)'
  BY KnownStays DEF Past
<1>2. (\A v \in sent : Known(v))'
  BY <1>1 DEF Past
<1>3. (\A p \in Pulls : remembered[p] # None => Known(remembered[p]))'
  BY <1>1, WhatIsRemembered DEF Past
<1>4. HooksPast'
  <2> SUFFICES ASSUME NEW h \in Hooks, hook'[h].stage # "idle"
               PROVE  Known(hook[h].view)' /\ \A v \in hook'[h].merged : KnownMerge(v)'
    BY DEF HooksPast
  <2>1. Known(hook'[h].view) /\ \A v \in hook'[h].merged : KnownMerge(v)
    BY MovedPast
  <2>2. QED
    BY <1>1, <2>1 DEF KnownMerge
<1>5. ScansPast'
  <2> SUFFICES ASSUME NEW s \in Scans, NEW p \in Pulls, scan'[s].views[p] # None
               PROVE  Known(scan[s].views[p])'
    BY DEF ScansPast
  <2>1. NoViews[p] = None
    BY DEF NoViews
  <2>2. \A b \in Branches : Asked(s, b)[p] \in {gh[p], scan[s].views[p]}
    BY DEF Asked
  <2>3. scan'[s].views[p] \in {gh[p], scan[s].views[p]}
    BY <2>1, <2>2, WhatScansSee DEF Watched
  <2>4. Known(scan'[s].views[p])
    BY <1>1, <2>3 DEF Past, ScansPast
  <2>5. QED
    BY <1>1, <2>4
<1>6. ASSUME NEW t \in Tickets PROVE Shown(ticket[t])'
  <2>1. Shown(ticket'[t]) /\ ticket'[t] \in Entries
    BY WrittenShown, NextTyped DEF TypeInv, TicketsOK
  <2>2. QED
    BY <1>1, <2>1
<1>7. QED
  BY <1>1, <1>2, <1>3, <1>4, <1>5, <1>6 DEF Past

LEMMA AlwaysPast == Spec => []Past
<1>1. ASSUME Init PROVE Past
  <2>1. GitHubPast
    <3>1. \A p \in Pulls : gh[p] # None => gh[p] = Opened(p, OpenAtStart[p], 0)
      BY <1>1 DEF Init
    <3>2. QED
      BY <1>1, <3>1 DEF Init, GitHubPast, Opened
  <2>2. HooksPast /\ ScansPast
    BY <1>1, NoHookTyped DEF Init, HooksPast, ScansPast, NoScan, NoViews
  <2>3. \A t \in Tickets : Shown(ticket[t])
    BY <1>1 DEF Init, Shown, NoEntry
  <2>4. QED
    BY <1>1, <2>1, <2>2, <2>3 DEF Init, Past
<1>2. TypeInv /\ Past /\ [Next]_vars => Past'
  BY PastStep
<1>3. QED
  BY <1>1, <1>2, AlwaysTyped, PTL DEF Spec

-------------------------------------------------------------------------------
(* A refresh writes nothing older than what a ticket shows, and a merge that *)
(* is shown stays.                                                           *)

\* An answer is at least as new as the tickets that were not written since it was asked for.
AnswersAreNew ==
  \A s \in Scans : Watching(scan[s]) =>
    \A t \in Tickets \ scan[s].late :
      LET v == scan[s].views[ticket[t].pull] IN
      ticket[t].pull # 0 /\ v # None => v.seq >= ticket[t].seq

LEMMA AnswersStep ==
  ASSUME TypeInv, Past, AnswersAreNew, [Next]_vars
  PROVE  AnswersAreNew'
<1> SUFFICES ASSUME NEW s \in Scans, Watching(scan'[s]), NEW t \in Tickets \ scan'[s].late,
                    ticket'[t].pull # 0, scan'[s].views[ticket'[t].pull] # None
             PROVE  scan'[s].views[ticket'[t].pull].seq >= ticket'[t].seq
  BY DEF AnswersAreNew, Watching
<1> DEFINE p == ticket'[t].pull
<1>1. p \in Pulls
  BY NextTyped DEF TypeInv, TicketsOK, Entries
<1>2. CASE scan'[s].views = NoViews
  BY <1>1, <1>2 DEF NoViews
<1>3. ASSUME Watching(scan[s]), scan'[s].late = scan[s].late, UNCHANGED ticket,
             NEW b \in Branches, scan'[s].views = Asked(s, b)
      PROVE  scan'[s].views[p].seq >= ticket'[t].seq
  <2>1. scan'[s].views[p] \in {gh[p], scan[s].views[p]}
    BY <1>1, <1>3 DEF Asked
  <2>2. CASE scan'[s].views[p] = gh[p]
    <3>1. gh[p] \in Views /\ ticket[t].seq <= gh[p].seq /\ ticket[t].seq \in Nat
      BY <1>1, <1>3, <2>2 DEF Past, Shown, TypeInv, GitHubOK, TicketsOK, Entries
    <3>2. gh[p].seq \in Nat
      BY <3>1 DEF Views
    <3>3. QED
      BY <1>3, <2>2, <3>1, <3>2
  <2>3. CASE scan'[s].views[p] = scan[s].views[p]
    BY <1>3, <2>3 DEF AnswersAreNew
  <2>4. QED
    BY <2>1, <2>2, <2>3
<1>4. CASE Watched(s, scan)
  BY <1>4 DEF Watched, AnswersAreNew
<1>5. QED
  BY <1>2, <1>3, <1>4, WhatScansSee

LEMMA RefreshWritesNewer ==
  ASSUME TypeInv, Past, AnswersAreNew, NEW s \in Scans, NEW t \in Tickets, NEW v \in Views,
         RefreshWrites(s, t, v), ticket'[t].pull = ticket[t].pull
  PROVE  /\ ticket[t].pull = v.pull /\ ticket[t].pull # 0 /\ Known(v) /\ v.seq >= ticket[t].seq
         /\ ticket'[t] = Patched(ticket[t], v, Landed(KnownMerges(scan[s].index, scan[s].views), v))
<1>1. v.pull \in Pulls /\ scan[s].views[v.pull] = v /\ v.pull # 0 /\ v # None
      /\ Planned(s, t, v, ticket'[t])
  BY NoneIsNothing DEF RefreshWrites, Planned
<1>2. ticket'[t].pull = v.pull /\ Entry(ticket[t])
  BY <1>1, PlannedTyped DEF TypeInv, TicketsOK
<1>3. ticket[t].branch # None
  BY <1>1, <1>2, EntryBranch, NoneIsNothing
<1>4. scan[s].stage = "reconciling" /\ t \notin scan[s].late
  BY ReconcileIs DEF RefreshWrites, Current
<1>5. v.seq >= ticket[t].seq
  BY <1>1, <1>2, <1>4 DEF AnswersAreNew, Watching
<1>6. Known(v)
  BY <1>1 DEF Past, ScansPast
<1>7. QED
  BY <1>1, <1>2, <1>3, <1>5, <1>6 DEF Planned

LEMMA WritesKeepTodo ==
  ASSUME TypeInv, NEW t \in Tickets, NEW e, Write(t, e, scan) \/ Save(t, e, scan), NEW s \in Scans
  PROVE  scan'[s].todo = scan[s].todo
<1>1. scan \in [Scans -> ScanStates]
  BY DEF TypeInv, ScansOK, ScansFit
<1>2. QED
  BY <1>1, SavedScans DEF Write

LEMMA AlwaysNew == Spec => []AnswersAreNew
<1>1. Init => AnswersAreNew
  BY DEF Init, AnswersAreNew, Watching, NoScan
<1>2. TypeInv /\ Past /\ AnswersAreNew /\ [Next]_vars => AnswersAreNew'
  BY AnswersStep
<1>3. QED
  BY <1>1, <1>2, AlwaysTyped, AlwaysPast, PTL DEF Spec

\* A cached or slow answer never puts a ticket back, whatever webhooks come in between:
\* reconcileGitStates drops it for the tickets written since it was asked for.
THEOREM RefreshGoesForward == Spec => RefreshNeverGoesBack
<1> DEFINE Forward == \A t \in Tickets :
             (\E s \in Scans : scan'[s].todo # scan[s].todo) /\ ticket'[t].pull = ticket[t].pull
               => ticket'[t].seq >= ticket[t].seq
<1>1. ASSUME TypeInv, Past, AnswersAreNew, [Next]_vars PROVE Forward
  <2> SUFFICES ASSUME NEW t \in Tickets, NEW r \in Scans, scan'[r].todo # scan[r].todo,
                      ticket'[t].pull = ticket[t].pull, ticket'[t] # ticket[t]
               PROVE  ticket'[t].seq >= ticket[t].seq
    BY <1>1 DEF TypeInv, TicketsOK, Entries
  <2>1. Writes(t)
    BY <1>1, WhoWrites
  <2>2. ASSUME NEW h \in Hooks, AttachWrites(h, t) PROVE FALSE
    <3> DEFINE e == Patched(OnBranch(BranchOf(h)), hook[h].view, hook[h].landed)
    <3>1. Write(hook[h].on, e, scan) \/ scan' = scan
      BY <2>2 DEF AttachWrites, Attach
    <3> HIDE DEF e
    <3>2. hook[h].on = t
      BY <2>2 DEF AttachWrites
    <3>3. QED
      BY <1>1, <3>1, <3>2, WritesKeepTodo
  <2>3. ASSUME NEW h \in Hooks, WebhookWrites(h, t) PROVE FALSE
    <3> DEFINE e == WebhookPatch(ticket[hook[h].on], hook[h].view, hook[h].landed)
    <3>1. Write(hook[h].on, e, scan)
      BY <2>3 DEF WebhookWrites, WriteTicket
    <3> HIDE DEF e
    <3>2. hook[h].on = t
      BY <2>3 DEF WebhookWrites
    <3>3. QED
      BY <1>1, <3>1, <3>2, WritesKeepTodo
  <2>4. ASSUME NEW h \in Hooks, NEW m \in hook[h].todo, LandWrites(h, m, t) PROVE FALSE
    <3>1. \/ Write(m.ticket, [ticket[m.ticket] EXCEPT !.last = ticket[m.ticket].pull], scan)
          \/ scan' = scan
      BY <1>1, <2>4, LandIs DEF LandWrites
    <3>2. QED
      BY <1>1, <2>4, <3>1, WritesKeepTodo DEF LandWrites
  <2>5. ASSUME NEW s \in Scans, NEW v \in Views, RefreshWrites(s, t, v)
        PROVE  ticket'[t].seq >= ticket[t].seq
    <3> DEFINE landed == Landed(KnownMerges(scan[s].index, scan[s].views), v)
    <3>1. landed \in BOOLEAN
      BY DEF Landed
    <3>2. v.seq >= ticket[t].seq /\ ticket'[t] = Patched(ticket[t], v, landed)
      BY <1>1, <2>5, RefreshWritesNewer
    <3>3. Entry(ticket[t])
      BY <1>1 DEF TypeInv, TicketsOK
    <3> HIDE DEF landed
    <3>4. QED
      BY <3>1, <3>2, <3>3, PatchedSeq
  <2>6. ~HandWrites(t)
    <3>1. ASSUME HandWrites(t) PROVE Save(t, ticket'[t], scan)
      BY <3>1 DEF HandWrites, ByHand
    <3>2. QED
      BY <1>1, <3>1, WritesKeepTodo
  <2>7. ASSUME NEW s \in Scans, RefreshLinks(s, t) PROVE ticket'[t].seq >= ticket[t].seq
    <3>1. Entry(ticket[t]) /\ Entry(ticket'[t])
      BY <1>1, <2>7 DEF TypeInv, TicketsOK, RefreshLinks
    <3>2. ticket[t].pull = 0 /\ ticket'[t].pull = 0
      BY <3>1, <2>7 DEF RefreshLinks
    <3>3. QED
      BY <3>1, <3>2 DEF Entry
  <2>8. QED
    BY <2>1, <2>2, <2>3, <2>4, <2>5, <2>6, <2>7 DEF Writes
<1>2. TypeInv /\ Past /\ AnswersAreNew /\ [Next]_vars => [Forward]_vars
  BY <1>1
<1>3. QED
  BY <1>2, AlwaysTyped, AlwaysPast, AlwaysNew, PTL DEF Spec, RefreshNeverGoesBack

\* No webhook and no refresh takes the merge of a ticket's pull request back, however late it is:
\* planPullRequestWebhookTicket refuses every other state once a ticket shows the merge.
THEOREM MergesStay == Spec => MergedStays
<1> DEFINE Stays == \A t \in Tickets :
       /\ ticket[t].state = "merged"
       /\ <<ticket'[t].branch, ticket'[t].pull>> = <<ticket[t].branch, ticket[t].pull>>
       => ticket'[t].state = "merged" /\ (HasLanded(ticket[t]) => HasLanded(ticket'[t]))
<1>1. ASSUME TypeInv, Past, AnswersAreNew, [Next]_vars PROVE Stays
  <2> SUFFICES ASSUME NEW t \in Tickets, ticket[t].state = "merged",
                      ticket'[t].branch = ticket[t].branch, ticket'[t].pull = ticket[t].pull,
                      ticket'[t] # ticket[t]
               PROVE  ticket'[t].state = "merged" /\ (HasLanded(ticket[t]) => HasLanded(ticket'[t]))
    OBVIOUS
  <2>1. Writes(t)
    BY <1>1, WhoWrites
  <2>2. Entry(ticket[t]) /\ ticket[t].pull # 0
    BY <1>1 DEF TypeInv, TicketsOK, Entry
  <2>3. ticket[t].branch # None
    BY <2>2, EntryBranch, NoneIsNothing
  <2>4. ASSUME NEW v \in Views, NEW landed \in BOOLEAN, ticket[t].branch = Head[v.pull],
               ticket'[t] = Patched(ticket[t], v, landed),
               v.pull = ticket[t].pull => v.state = "merged"
        PROVE  ticket'[t].state = "merged" /\ (HasLanded(ticket[t]) => HasLanded(ticket'[t]))
    <3>1. ticket'[t].pull = v.pull /\ ticket'[t].state = v.state
      BY <2>2, <2>4, PatchedIs
    <3>2. ticket[t].last = ticket[t].pull => ticket'[t].last = ticket[t].pull
      BY <2>2, <2>4, <3>1, PatchedLast
    <3>3. QED
      BY <2>4, <3>1, <3>2 DEF HasLanded
  <2>5. ASSUME NEW h \in Hooks, AttachWrites(h, t) PROVE FALSE
    BY <2>3, <2>5 DEF AttachWrites
  <2>6. ASSUME NEW h \in Hooks, WebhookWrites(h, t)
        PROVE  ticket'[t].state = "merged" /\ (HasLanded(ticket[t]) => HasLanded(ticket'[t]))
    <3> DEFINE landed == hook[h].landed
    <3>1. landed \in BOOLEAN /\ hook[h].view \in Views
      BY <1>1, <2>6, WriteTicketIs DEF WebhookWrites
    <3>2. ticket'[t] = WebhookPatch(ticket[t], hook[h].view, landed)
      BY <2>6 DEF WebhookWrites
    <3> HIDE DEF landed
    <3>3. \/ ticket'[t] = [ticket[t] EXCEPT !.base = hook[h].view.base]
          \/ /\ ticket[t].branch = Head[hook[h].view.pull]
             /\ hook[h].view.pull = ticket[t].pull => hook[h].view.state = "merged"
             /\ ticket'[t] = Patched(ticket[t], hook[h].view, landed)
      BY <2>2, <3>1, <3>2, WebhookPatchIs
    <3>4. CASE ticket'[t] = [ticket[t] EXCEPT !.base = hook[h].view.base]
      BY <2>2, <3>4 DEF HasLanded, Entry, Entries
    <3>5. QED
      BY <2>4, <3>1, <3>3, <3>4
  <2>7. ASSUME NEW h \in Hooks, NEW m \in hook[h].todo, LandWrites(h, m, t)
        PROVE  ticket'[t].state = "merged" /\ (HasLanded(ticket[t]) => HasLanded(ticket'[t]))
    BY <2>2, <2>7 DEF LandWrites, HasLanded, Entry, Entries
  <2>8. ASSUME NEW s \in Scans, NEW v \in Views, RefreshWrites(s, t, v)
        PROVE  ticket'[t].state = "merged" /\ (HasLanded(ticket[t]) => HasLanded(ticket'[t]))
    <3> DEFINE landed == Landed(KnownMerges(scan[s].index, scan[s].views), v)
    <3>1. landed \in BOOLEAN
      BY DEF Landed
    <3>2. ticket[t].pull = v.pull /\ Known(v) /\ v.seq >= ticket[t].seq
          /\ ticket'[t] = Patched(ticket[t], v, landed)
      BY <1>1, <2>8, RefreshWritesNewer
    <3>3. gh[v.pull].state = "merged" /\ ticket[t].seq = gh[v.pull].seq
      BY <1>1, <2>2, <3>2 DEF Past, Shown
    <3>4. v.seq \in Nat /\ ticket[t].seq \in Nat
      BY <2>2 DEF Views, Entry, Entries
    <3>5. v.state = "merged"
      BY <3>2, <3>3, <3>4 DEF Known
    <3>6. ticket[t].branch = Head[v.pull]
      BY <2>2, <3>2 DEF Entry
    <3> HIDE DEF landed
    <3>7. QED
      BY <2>4, <3>1, <3>2, <3>5, <3>6
  <2>9. ~HandWrites(t) /\ \A s \in Scans : ~RefreshLinks(s, t)
    BY <2>2 DEF HandWrites, RefreshLinks
  <2>10. QED
    BY <2>1, <2>5, <2>6, <2>7, <2>8, <2>9 DEF Writes
<1>2. TypeInv /\ Past /\ AnswersAreNew /\ [Next]_vars => [Stays]_vars
  BY <1>1
<1>3. QED
  BY <1>2, AlwaysTyped, AlwaysPast, AlwaysNew, PTL DEF Spec, MergedStays

-------------------------------------------------------------------------------
(* Webhooks alone: what is claimed is not older than what the ticket shows.  *)

\* The views of pull requests that are on their way, known to GitHub, to the table or to a
\* handler.
Around(v) ==
  \/ v \in sent
  \/ \E h \in Hooks : hook[h].stage # "idle" /\ v = hook[h].view
  \/ \E p \in Pulls : gh[p] # None /\ v = gh[p]
  \/ \E p \in Pulls : remembered[p] # None /\ v = remembered[p]

\* Of two views of a pull request the one with the later time is the later one.
InOrder ==
  \A v, w : Around(v) /\ Around(w) /\ v.pull = w.pull /\ v.at > w.at => v.seq > w.seq

\* v is not older than x, or tells the same.
NotBefore(x, v) ==
  v.seq >= x.seq \/ (x.state = v.state /\ x.base = v.base /\ v.state # "merged")

\* What would be accepted is not older than what a ticket shows ...
Guarded ==
  \A t \in Tickets : \A v : Around(v) /\ v.pull = ticket[t].pull /\ Accepts(v)
                              => NotBefore(ticket[t], v)

\* ... nor than what a handler is about to write, and that is not older than the ticket.
Claimed ==
  \A h \in Hooks : Holds(hook[h]) =>
    /\ \A v : Around(v) /\ v.pull = hook[h].view.pull /\ Accepts(v) => NotBefore(hook[h].view, v)
    /\ ticket[hook[h].on].pull = hook[h].view.pull => NotBefore(ticket[hook[h].on], hook[h].view)

ForwardInv == InOrder /\ Guarded /\ Claimed

LEMMA ReceivedIs ==
  ASSUME TypeInv, NEW h \in Hooks, NEW v \in sent, Receive(h, v), hook'[h] # hook[h]
  PROVE  /\ hook'[h].view = v
         /\ hook'[h] = [NoHook EXCEPT !.stage = "remembered", !.view = v]
<1>1. ~(hook' = hook)
  OBVIOUS
<1>2. PICK k : /\ Goes(h, k) /\ Quiet(k) /\ k.view = v /\ k.stage = "remembered"
                /\ k = [NoHook EXCEPT !.stage = "remembered", !.view = v]
                /\ Accepts(v) /\ Remember(v)
  BY <1>1, ReceiveIs
<1>3. k.view = v
  BY <1>2
<1>4. QED
  BY <1>2, <1>3, HooksKeep

LEMMA AroundKnown == ASSUME TypeInv, Past, NEW v, Around(v) PROVE Known(v)
<1>1. \A p \in Pulls : gh[p] # None => Known(gh[p])
  BY DEF TypeInv, GitHubOK, Told, Known, Views, Times
<1>2. QED
  BY <1>1 DEF Around, Past, HooksPast

LEMMA WhatIsAccepted ==
  ASSUME TypeInv, Past, [Next]_vars
  PROVE  \/ UNCHANGED remembered
         \/ /\ sent' \subseteq sent /\ UNCHANGED gh
            /\ \E y : Around(y) /\ Accepts(y) /\ Remember(y)
<1>1. ASSUME NEW h \in Hooks, NEW v \in sent, Receive(h, v)
      PROVE  \/ UNCHANGED remembered
             \/ sent' \subseteq sent /\ UNCHANGED gh /\ Around(v) /\ Accepts(v) /\ Remember(v)
  BY <1>1, ReceiveIs DEF Receive, Around
<1>2. ASSUME NEW h \in Hooks, Handle(h)
      PROVE  \/ UNCHANGED remembered
             \/ /\ sent' \subseteq sent /\ UNCHANGED gh
                /\ Around(hook[h].view) /\ Accepts(hook[h].view) /\ Remember(hook[h].view)
  <2>1. hook[h].stage # "idle" /\ Around(hook[h].view)
    BY <1>2, HandleCarries DEF Around
  <2>2. UNCHANGED remembered \/ (Accepts(hook[h].view) /\ Remember(hook[h].view))
    BY <1>2 DEF Handle, ReadHistory, FindOwners, LockToLink, Attach, Claim, WriteTicket,
                FindMergesAwaiting, Land
  <2>3. UNCHANGED <<gh, sent>>
    BY <1>2 DEF Handle, ReadHistory, FindOwners, LockToLink, Attach, Claim, WriteTicket,
                FindMergesAwaiting, Land, github
  <2>4. QED
    BY <2>1, <2>2, <2>3
<1>3. ASSUME GitHub PROVE UNCHANGED remembered
  BY <1>3, GitHubIs DEF Newer, Change
<1>4. QED
  BY <1>1, <1>2, <1>3
  DEF Next, vars, Refresh, ListTickets, StartFetch, Cached, FetchFails, Fetched, Reconcile,
      ClearBranch, AttachBranch, ByHand, Crash

\* The table accepts less and less.
LEMMA AcceptsLess ==
  ASSUME TypeInv, Past, [Next]_vars, NEW v, Known(v), Accepts(v)'
  PROVE  Accepts(v)
<1>1. CASE UNCHANGED remembered
  BY <1>1 DEF Accepts
<1>2. ASSUME NEW y, Around(y), Accepts(y), Remember(y)
      PROVE  Accepts(v)
  <2>1. remembered \in [Pulls -> Views \cup {None}] /\ y \in Views /\ v \in Views
        /\ v.pull \in Pulls /\ y.pull \in Pulls /\ y.at \in Nat /\ v.at \in Nat
    BY <1>2, AroundKnown DEF TypeInv, StoreOK, Known, Views, Times
  <2>2. remembered' = [remembered EXCEPT ![y.pull] = y]
    BY <1>2 DEF Remember
  <2>3. CASE v.pull # y.pull
    BY <2>1, <2>2, <2>3 DEF Accepts
  <2>4. CASE v.pull = y.pull
    <3> DEFINE r == remembered[y.pull]
    <3>1. remembered'[v.pull] = y /\ y # None
      BY <2>1, <2>2, <2>4, NoneIsNothing
    <3>2. v.at > y.at \/ (v.at = y.at /\ Payload(v) = Payload(y))
      BY <3>1 DEF Accepts
    <3>3. r = None \/ y.at > r.at \/ (y.at = r.at /\ Payload(y) = Payload(r))
      BY <1>2 DEF Accepts
    <3>4. r # None => r.at \in Nat
      BY <2>1 DEF Views, Times
    <3> HIDE DEF r
    <3>5. r = None \/ v.at > r.at \/ (v.at = r.at /\ Payload(v) = Payload(r))
      BY <2>1, <3>2, <3>3, <3>4
    <3>6. QED
      BY <2>4, <3>5 DEF Accepts, r
  <2>5. QED
    BY <2>3, <2>4
<1>3. QED
  BY <1>1, <1>2, WhatIsAccepted

\* A view that comes up is later than what there was.
LEMMA AroundStep ==
  ASSUME TypeInv, Past, [Next]_vars, NEW v, Around(v)'
  PROVE  \/ Around(v)
         \/ /\ \A w : Around(w) /\ w.pull = v.pull => v.seq > w.seq /\ v.at >= w.at
            /\ \A e : Entry(e) /\ Shown(e) /\ e.pull = v.pull => v.seq >= e.seq
            /\ v = gh'[v.pull] /\ v \in Views /\ UNCHANGED <<ticket, hook, remembered>>
<1>1. ASSUME NEW p \in Pulls, NEW n \in Times, NEW view \in Views, Newer(p, view, n)
      PROVE  \/ Around(v)
             \/ /\ \A w : Around(w) /\ w.pull = v.pull => v.seq > w.seq /\ v.at >= w.at
                /\ \A e : Entry(e) /\ Shown(e) /\ e.pull = v.pull => v.seq >= e.seq
                /\ v = gh'[v.pull] /\ v \in Views /\ UNCHANGED <<ticket, hook, remembered>>
  <2>1. /\ n >= now /\ gh' = [gh EXCEPT ![p] = view] /\ sent' = sent \cup {view}
        /\ UNCHANGED <<remembered, ticket, hook>> /\ view.pull = p /\ view.at = n
        /\ gh[p] # None => view.seq = gh[p].seq + 1
        /\ gh \in [Pulls -> Views \cup {None}] /\ now \in Nat /\ n \in Nat
    BY <1>1 DEF Newer, Change, TypeInv, GitHubOK, Times
  <2>2. v = view \/ Around(v)
    BY <2>1 DEF Around
  <2>3. ASSUME NEW w, Around(w), w.pull = p PROVE view.seq > w.seq /\ view.at >= w.at
    <3>1. /\ gh[p] # None /\ w.seq <= gh[p].seq /\ w.at <= gh[p].at /\ gh[p].at <= now
          /\ w \in Views /\ gh[p] \in Views
      BY <2>1, <2>3, AroundKnown DEF Known, Past, GitHubPast
    <3>2. w.seq \in Nat /\ w.at \in Nat /\ gh[p].seq \in Nat /\ gh[p].at \in Nat
      BY <3>1 DEF Views, Times
    <3>3. QED
      BY <2>1, <3>1, <3>2
  <2>4. ASSUME NEW e, Entry(e), Shown(e), e.pull = p PROVE view.seq >= e.seq
    <3>1. gh[p] # None /\ e.seq <= gh[p].seq /\ gh[p] \in Views /\ e.seq \in Nat
      BY <2>1, <2>4, NoneIsNothing DEF Shown, Entry, Entries
    <3>2. gh[p].seq \in Nat
      BY <3>1 DEF Views
    <3>3. QED
      BY <2>1, <3>1, <3>2
  <2>5. QED
    BY <2>1, <2>2, <2>3, <2>4
<1>2. CASE ~GitHub
  <2>1. sent' \subseteq sent /\ UNCHANGED gh
    BY <1>2, OnlyGitHub
  <2>2. ASSUME NEW h \in Hooks, hook'[h].stage # "idle", v = hook'[h].view PROVE Around(v)
    <3>1. CASE hook'[h] = hook[h]
      BY <2>2, <3>1 DEF Around
    <3>2. ASSUME NEW w \in sent, Receive(h, w), hook'[h] # hook[h] PROVE Around(v)
      BY <2>2, <3>2, ReceivedIs DEF Around
    <3>3. ASSUME Handle(h) PROVE Around(v)
      <4>1. PICK k : Goes(h, k) /\ (k.stage # "idle" => k.view = hook[h].view)
        BY <3>3, HandleCarries, ReadHistoryIs DEF Carries
      <4>2. hook'[h] = k /\ hook[h].stage # "idle"
        BY <3>3, <4>1, HooksKeep, HandleCarries
      <4>3. QED
        BY <2>2, <4>1, <4>2 DEF Around
    <3>4. QED
      BY <2>2, <3>1, <3>2, <3>3, WhoMoves, NoHookTyped
  <2>3. ASSUME NEW p \in Pulls, remembered'[p] # None, v = remembered'[p] PROVE Around(v)
    <3>1. CASE remembered' = remembered
      BY <2>3, <3>1 DEF Around
    <3>2. ASSUME NEW y, Around(y), Remember(y) PROVE Around(v)
      <4>1. remembered'[p] \in {y, remembered[p]}
        BY <3>2 DEF Remember, TypeInv, StoreOK
      <4>2. QED
        BY <2>3, <3>2, <4>1 DEF Around
    <3>3. QED
      BY <3>1, <3>2, WhatIsAccepted
  <2>4. QED
    BY <2>1, <2>2, <2>3 DEF Around
<1>3. QED
  BY <1>1, <1>2, GitHubIs

LEMMA PatchedSame ==
  ASSUME NEW e, NEW v, NEW landed, e.pull = v.pull, e.state = v.state, e.base = v.base,
         v.state # "merged"
  PROVE  Patched(e, v, landed) = e
BY DEF Patched

\* Without refreshes a ticket is written by hand, by the landing of its base, or by the
\* handler that holds it, and then nothing older than what it shows.
Lands(t) ==
  /\ ticket'[t].pull = ticket[t].pull /\ ticket'[t].state = ticket[t].state
  /\ ticket'[t].base = ticket[t].base /\ ticket'[t].seq = ticket[t].seq

Tells(h, t) ==
  /\ Holds(hook[h]) /\ hook[h].on = t /\ ~Holds(hook'[h])
  /\ ticket'[t].pull = hook[h].view.pull /\ ticket'[t].state = hook[h].view.state
  /\ ticket'[t].base = hook[h].view.base /\ ticket'[t].seq = hook[h].view.seq
  /\ ticket[t].pull = hook[h].view.pull => hook[h].view.seq >= ticket[t].seq

LEMMA WebhooksTell ==
  ASSUME Scans = {}, TypeInv, Past, Claimed, [Next]_vars, NEW t \in Tickets,
         ticket'[t] # ticket[t]
  PROVE  \/ Lands(t) /\ lock[t] = None
         \/ ticket'[t].pull = 0 /\ ticket'[t].seq = 0 /\ lock[t] = None
         \/ \E h \in Hooks : Tells(h, t)
<1>1. Writes(t) /\ Entry(ticket[t])
  BY WhoWrites DEF TypeInv, TicketsOK
<1>2. ASSUME NEW h \in Hooks, AttachWrites(h, t) PROVE Tells(h, t)
  <2> DEFINE landed == hook[h].landed
             v == hook[h].view
             e == OnBranch(BranchOf(h))
  <2>1. landed \in BOOLEAN /\ v \in Views /\ BranchOf(h) \in Branches
    BY <1>2, AttachIs DEF AttachWrites
  <2>2. ticket'[t] = Patched(e, v, landed)
    BY <1>2 DEF AttachWrites
  <2>3. Entry(e) /\ e.branch = Head[v.pull] /\ e.pull = 0 /\ v.pull # 0
    BY <2>1, NoEntryTyped, NoneIsNothing DEF BranchOf, Views
  <2>4. Holds(hook[h]) /\ hook[h].on = t /\ ~Holds(hook'[h])
    <3>1. Holds(hook[h]) /\ hook[h].on = t
      BY <1>2 DEF AttachWrites, Attach, Holds
    <3>2. hook'[h] = Applied(h) /\ ~Holds(Applied(h))
      BY <1>2, AttachIs, HooksKeep DEF AttachWrites, Quiet
    <3>3. QED
      BY <3>1, <3>2
  <2>5. ticket[t].pull = 0
    BY <1>1, <1>2, EntryBranch, NoneIsNothing DEF AttachWrites
  <2> HIDE DEF landed, v, e
  <2>6. /\ ticket'[t].pull = v.pull /\ ticket'[t].state = v.state /\ ticket'[t].base = v.base
        /\ ticket'[t].seq = v.seq
    BY <2>1, <2>2, <2>3, PatchedIs, PatchedSeq
  <2>7. QED
    BY <2>3, <2>4, <2>5, <2>6 DEF Tells, v
<1>3. ASSUME NEW h \in Hooks, WebhookWrites(h, t) PROVE Tells(h, t)
  <2> DEFINE landed == hook[h].landed
             v == hook[h].view
             e == ticket[t]
  <2>1. landed \in BOOLEAN /\ v \in Views /\ Known(v)
    <3>1. hook[h].stage # "idle"
      BY <1>3 DEF WebhookWrites, WriteTicket
    <3>2. QED
      BY <1>3, <3>1, WriteTicketIs DEF WebhookWrites, Past, HooksPast
  <2>2. ticket'[t] = WebhookPatch(e, v, landed)
    BY <1>3 DEF WebhookWrites
  <2>3. Holds(hook[h]) /\ hook[h].on = t /\ ~Holds(hook'[h])
    <3>1. Holds(hook[h]) /\ hook[h].on = t
      BY <1>3 DEF WebhookWrites, WriteTicket, Holds
    <3>2. ~Holds(hook'[h])
      <4> DEFINE k == Onward(h, hook[h].todo \ {hook[h].on})
      <4>1. Goes(h, k) /\ Quiet(k)
        BY <1>3, WriteTicketIs DEF WebhookWrites
      <4> HIDE DEF k
      <4>2. QED
        BY <4>1, HooksKeep DEF Quiet
    <3>3. QED
      BY <3>1, <3>2
  <2>4. e.pull = v.pull => NotBefore(e, v)
    BY <2>3 DEF Claimed
  <2>5. Entry(e) /\ Shown(e) /\ e.seq \in Nat /\ v.seq \in Nat
    BY <1>1, <2>1 DEF Past, Entry, Entries, Views
  <2>6. ticket'[t] # e
    OBVIOUS
  <2> HIDE DEF landed, v, e
  <2>7. ~(e.pull = v.pull /\ e.state = "merged" /\ v.state # "merged")
    <3> SUFFICES ASSUME e.pull = v.pull, e.state = "merged", v.state # "merged" PROVE FALSE
      OBVIOUS
    <3>1. v.seq >= e.seq
      BY <2>4 DEF NotBefore
    <3>2. e.pull # 0
      BY <2>5 DEF Entry
    <3>3. gh[v.pull].state = "merged" /\ e.seq = gh[v.pull].seq
      BY <2>5, <3>2 DEF Shown
    <3>4. v.seq = e.seq
      BY <2>1, <2>5, <3>1, <3>3 DEF Known
    <3>5. QED
      BY <2>1, <3>3, <3>4 DEF Known
  <2>8. e.branch = Head[v.pull] /\ ticket'[t] = Patched(e, v, landed)
    BY <2>1, <2>2, <2>5, <2>6, <2>7, WebhookPatchIs
  <2>9. /\ ticket'[t].pull = v.pull /\ ticket'[t].state = v.state /\ ticket'[t].base = v.base
        /\ ticket'[t].seq = v.seq
    BY <2>1, <2>5, <2>6, <2>8, PatchedIs, PatchedSeq
  <2>10. e.pull = v.pull => v.seq >= e.seq
    BY <2>4, <2>6, <2>8, PatchedSame DEF NotBefore
  <2>11. QED
    BY <2>3, <2>9, <2>10 DEF Tells, v, e
<1>4. ASSUME NEW h \in Hooks, NEW m \in hook[h].todo, LandWrites(h, m, t)
      PROVE  Lands(t) /\ lock[t] = None
  BY <1>1, <1>4 DEF LandWrites, Lands, Entry, Entries
<1>5. ASSUME HandWrites(t) PROVE ticket'[t].pull = 0 /\ ticket'[t].seq = 0 /\ lock[t] = None
  BY <1>5 DEF HandWrites, ByHand, Entry
<1>6. QED
  BY <1>1, <1>2, <1>3, <1>4, <1>5 DEF Writes

LEMMA InOrderStep ==
  ASSUME TypeInv, Past, InOrder, [Next]_vars
  PROVE  InOrder'
<1> SUFFICES ASSUME NEW v, NEW w, Around(v)', Around(w)', v.pull = w.pull, v.at > w.at
             PROVE  v.seq > w.seq
  BY DEF InOrder
<1>1. CASE Around(v) /\ Around(w)
  BY <1>1 DEF InOrder
<1>2. CASE ~Around(v) /\ Around(w)
  BY <1>2, AroundStep
<1>3. CASE ~Around(w)
  <2>1. UNCHANGED hook /\ w = gh'[w.pull] /\ (Around(v) => w.at >= v.at)
        /\ (~Around(v) => v = gh'[v.pull])
    BY <1>3, AroundStep
  <2>2. v.at \in Nat /\ w.at \in Nat
    <3>1. v \in Views /\ w \in Views
      BY <1>3, AroundStep, AroundKnown DEF Known
    <3>2. QED
      BY <3>1 DEF Views, Times
  <2>3. QED
    BY <2>1, <2>2
<1>4. QED
  BY <1>1, <1>2, <1>3

LEMMA GuardedStep ==
  ASSUME Scans = {}, TypeInv, Past, ForwardInv, [Next]_vars
  PROVE  Guarded'
<1> SUFFICES ASSUME NEW t \in Tickets, NEW v, Around(v)', v.pull = ticket'[t].pull, Accepts(v)'
             PROVE  NotBefore(ticket'[t], v)
  BY DEF Guarded
<1>0. Entry(ticket[t]) /\ Shown(ticket[t])
  BY DEF TypeInv, TicketsOK, Past
<1>1. CASE ~Around(v)
  <2>1. ticket'[t] = ticket[t] /\ v.seq >= ticket[t].seq
    BY <1>0, <1>1, AroundStep
  <2>2. QED
    BY <2>1 DEF NotBefore
<1>2. CASE Around(v)
  <2>1. Known(v) /\ Accepts(v) /\ v.pull # 0
    BY <1>2, AroundKnown, AcceptsLess, NoneIsNothing DEF Known, Views
  <2>2. v.pull = ticket[t].pull => NotBefore(ticket[t], v)
    BY <1>2, <2>1 DEF ForwardInv, Guarded
  <2>3. CASE ticket'[t] = ticket[t]
    BY <2>2, <2>3
  <2>4. CASE Lands(t)
    BY <2>2, <2>4 DEF Lands, NotBefore
  <2>5. CASE ticket'[t].pull = 0
    BY <2>1, <2>5
  <2>6. ASSUME NEW h \in Hooks, Tells(h, t) PROVE NotBefore(ticket'[t], v)
    <3>1. NotBefore(hook[h].view, v)
      BY <1>2, <2>1, <2>6 DEF ForwardInv, Claimed, Tells
    <3>2. QED
      BY <2>6, <3>1 DEF Tells, NotBefore
  <2>7. QED
    BY <2>3, <2>4, <2>5, <2>6, WebhooksTell DEF ForwardInv
<1>3. QED
  BY <1>1, <1>2

LEMMA ClaimedStep ==
  ASSUME Scans = {}, TypeInv, Past, ForwardInv, [Next]_vars, NEW h \in Hooks, Holds(hook'[h])
  PROVE  /\ \A v : Around(v)' /\ v.pull = hook'[h].view.pull /\ Accepts(v)'
                     => NotBefore(hook'[h].view, v)
         /\ ticket'[hook'[h].on].pull = hook'[h].view.pull
              => NotBefore(ticket'[hook'[h].on], hook'[h].view)
<1>1. CASE hook'[h] = hook[h]
  <2> DEFINE t == hook[h].on
             x == hook[h].view
  <2>1. t \in Tickets /\ lock[t] = h /\ Around(x) /\ h # None
    BY <1>1, NoneIsNothing DEF TypeInv, Holding, HooksOK, Shape, Around, Holds
  <2>2. ticket[t].pull = x.pull => NotBefore(ticket[t], x)
    BY <1>1 DEF ForwardInv, Claimed
  <2>3. ASSUME NEW g \in Hooks, Tells(g, t) PROVE FALSE
    <3>1. g = h
      BY <2>1, <2>3 DEF TypeInv, Holding, Tells
    <3>2. QED
      BY <1>1, <2>3, <3>1 DEF Tells
  <2>4. ticket'[t] = ticket[t]
    BY <2>1, <2>3, WebhooksTell DEF ForwardInv
  <2>5. ASSUME NEW v, Around(v)', v.pull = x.pull, Accepts(v)' PROVE NotBefore(x, v)
    <3>1. CASE ~Around(v)
      <4>1. v.seq > x.seq /\ v \in Views
        BY <2>1, <2>5, <3>1, AroundStep
      <4>2. v.seq \in Nat /\ x.seq \in Nat
        BY <2>1, <4>1, AroundKnown DEF Known, Views
      <4>3. QED
        BY <4>1, <4>2 DEF NotBefore
    <3>2. CASE Around(v)
      <4>1. Accepts(v)
        BY <2>5, <3>2, AroundKnown, AcceptsLess
      <4>2. QED
        BY <1>1, <2>5, <3>2, <4>1 DEF ForwardInv, Claimed
    <3>3. QED
      BY <3>1, <3>2
  <2>6. QED
    BY <1>1, <2>2, <2>4, <2>5
<1>2. CASE hook'[h] # hook[h]
  <2> DEFINE x == hook[h].view
  <2>1. /\ hook'[h].view = x /\ Accepts(x) /\ Remember(x) /\ hook[h].stage # "idle"
        /\ UNCHANGED ticket
    BY <1>2, WhoHolds
  <2>2. Around(x) /\ Known(x)
    BY <2>1, AroundKnown DEF Around
  <2>3. hook'[h].on \in Tickets
    BY NextTyped DEF TypeInv, HooksOK, Shape
  <2>4. ticket[hook'[h].on].pull = x.pull => NotBefore(ticket[hook'[h].on], x)
    BY <2>1, <2>2, <2>3 DEF ForwardInv, Guarded
  <2>5. ASSUME NEW v, Around(v)', v.pull = x.pull, Accepts(v)' PROVE NotBefore(x, v)
    <3>1. Around(v) /\ Known(v)
      BY <1>2, <2>5, AroundStep, AroundKnown
    <3>2. remembered'[v.pull] = x /\ x # None
      BY <2>1, <2>2, <2>5, NoneIsNothing DEF Remember, TypeInv, StoreOK, Known, Views
    <3>3. v.at > x.at \/ Payload(v) = Payload(x)
      BY <2>5, <3>2 DEF Accepts
    <3>4. v.seq \in Nat /\ x.seq \in Nat /\ v \in Views /\ x \in Views
      BY <2>2, <3>1 DEF Known, Views
    <3>5. CASE v.at > x.at
      <4>1. v.seq > x.seq
        BY <2>2, <2>5, <3>1, <3>5 DEF ForwardInv, InOrder
      <4>2. QED
        BY <3>4, <4>1 DEF NotBefore
    <3>6. CASE Payload(v) = Payload(x)
      <4>1. v.state = x.state /\ v.base = x.base
        BY <3>4, <3>6 DEF Payload, Views
      <4>2. v.state = "merged" => v = x
        BY <2>2, <2>5, <3>1, <4>1 DEF Known
      <4>3. QED
        BY <3>4, <4>1, <4>2 DEF NotBefore
    <3>7. QED
      BY <3>3, <3>5, <3>6
  <2>6. QED
    BY <2>1, <2>4, <2>5
<1>3. QED
  BY <1>1, <1>2

LEMMA AlwaysForward == ASSUME Scans = {} PROVE Spec => []ForwardInv
<1>1. ASSUME Init PROVE ForwardInv
  <2>1. \A p \in Pulls : gh[p] # None => gh[p].at = 0
    BY <1>1 DEF Init, Opened
  <2>2. \A v : Around(v) => v.at = 0
    BY <1>1, <2>1, NoHookTyped DEF Init, Around
  <2>3. InOrder
    BY <2>2 DEF InOrder
  <2>4. \A v : Around(v) => v.pull # 0
    <3>1. TypeInv
      BY <1>1, InitTyped
    <3>2. \A p \in Pulls : gh[p] # None => gh[p].pull = p
      BY <3>1 DEF TypeInv, GitHubOK, Told
    <3>3. QED
      BY <1>1, <3>2, NoHookTyped, NoneIsNothing DEF Init, Around
  <2>5. Guarded
    BY <1>1, <2>4 DEF Init, NoEntry, Guarded
  <2>6. Claimed
    BY <1>1 DEF Init, NoHook, Claimed, Holds
  <2>7. QED
    BY <2>3, <2>5, <2>6 DEF ForwardInv
<1>2. TypeInv /\ Past /\ ForwardInv /\ [Next]_vars => ForwardInv'
  <2> SUFFICES ASSUME TypeInv, Past, ForwardInv, [Next]_vars PROVE ForwardInv'
    OBVIOUS
  <2>1. InOrder'
    BY InOrderStep DEF ForwardInv
  <2>2. Guarded'
    BY GuardedStep
  <2>3. Claimed'
    BY ClaimedStep DEF Claimed
  <2>4. QED
    BY <2>1, <2>2, <2>3 DEF ForwardInv
<1>3. QED
  BY <1>1, <1>2, AlwaysTyped, AlwaysPast, PTL DEF Spec

\* Webhooks alone, late, doubled or out of order, never put a ticket back: what claimPullRequest
\* lets pass is not older than what a ticket shows or another handler is about to write.
THEOREM WebhooksNeverGoBack == ASSUME Scans = {} PROVE Spec => WebhooksGoForward
<1> DEFINE Forward == \A t \in Tickets :
             <<ticket'[t].branch, ticket'[t].pull>> = <<ticket[t].branch, ticket[t].pull>>
             => ticket'[t].seq >= ticket[t].seq
<1>1. ASSUME TypeInv, Past, ForwardInv, [Next]_vars PROVE Forward
  <2> SUFFICES ASSUME NEW t \in Tickets, ticket'[t].pull = ticket[t].pull
               PROVE  ticket'[t].seq >= ticket[t].seq
    OBVIOUS
  <2>1. Entry(ticket[t]) /\ ticket[t].seq \in Nat
    BY <1>1 DEF TypeInv, TicketsOK, Entry, Entries
  <2>2. CASE ticket'[t] = ticket[t]
    BY <2>1, <2>2
  <2>3. CASE Lands(t)
    BY <2>1, <2>3 DEF Lands
  <2>4. CASE ticket'[t].pull = 0 /\ ticket'[t].seq = 0
    BY <2>1, <2>4 DEF Entry
  <2>5. ASSUME NEW h \in Hooks, Tells(h, t) PROVE ticket'[t].seq >= ticket[t].seq
    BY <2>5 DEF Tells
  <2>6. QED
    BY <1>1, <2>2, <2>3, <2>4, <2>5, WebhooksTell DEF ForwardInv
<1>2. TypeInv /\ Past /\ ForwardInv /\ [Next]_vars => [Forward]_vars
  BY <1>1
<1>3. QED
  BY <1>2, AlwaysTyped, AlwaysPast, AlwaysForward, PTL DEF Spec, WebhooksGoForward

-------------------------------------------------------------------------------
(* A ticket is shown as landed when its commits are on the default branch.   *)

\* What each branch contains: merges, each of them in its base, and with a merge what was
\* merged into the branch it came from before.
CommitsFlow ==
  /\ \A b \in Bases : \A u \in contains[b] : Has(u, "merged")
  /\ \A p \in Pulls : Has(p, "merged") => p \in contains[gh[p].base]
  /\ \A b \in Bases, u, w \in Pulls :
       u \in contains[b] /\ Has(w, "merged") /\ gh[w].base = Head[u]
         /\ gh[w].mergedAt < gh[u].mergedAt => w \in contains[b]

\* What is merged is merged for good, and stays where it is.
LEMMA MergesRemain ==
  ASSUME TypeInv, [Next]_vars
  PROVE  /\ \A p \in Pulls : Has(p, "merged") => gh'[p] = gh[p]
         /\ \A b \in Bases : contains[b] \subseteq contains'[b]
         /\ ticket' # ticket => UNCHANGED <<gh, contains>>
<1>1. ASSUME NEW p \in Pulls, NEW n \in Times, NEW view \in Views, Newer(p, view, n)
      PROVE  /\ \A q \in Pulls : Has(q, "merged") => gh'[q] = gh[q]
             /\ \A b \in Bases : contains[b] \subseteq contains'[b]
             /\ UNCHANGED ticket
  <2>1. gh' = [gh EXCEPT ![p] = view] /\ ~Has(p, "merged") /\ UNCHANGED ticket
    BY <1>1 DEF Newer, Change, Has
  <2>2. \A q \in Pulls : Has(q, "merged") => gh'[q] = gh[q]
    BY <2>1 DEF TypeInv, GitHubOK
  <2>3. \A b \in Bases : contains[b] \subseteq contains'[b]
    BY <1>1 DEF Newer, TypeInv, GitHubOK
  <2>4. QED
    BY <2>1, <2>2, <2>3
<1>2. CASE ~GitHub
  <2>1. UNCHANGED <<gh, contains>>
    BY <1>2, OnlyGitHub
  <2>2. QED
    BY <2>1
<1>3. QED
  BY <1>1, <1>2, GitHubIs

LEMMA CommitsStep ==
  ASSUME TypeInv, GitHubPast, CommitsFlow, [Next]_vars
  PROVE  CommitsFlow'
<1>1. CASE UNCHANGED <<gh, contains>>
  BY <1>1 DEF CommitsFlow, Has
<1>2. ASSUME NEW p \in Pulls, NEW n \in Times, NEW view \in Views, Newer(p, view, n)
      PROVE  CommitsFlow'
  <2>1. /\ gh'[p] = view /\ (\A q \in Pulls \ {p} : gh'[q] = gh[q]) /\ view # None
        /\ ~Has(p, "merged")
    BY <1>2, NoneIsNothing DEF Newer, Change, TypeInv, GitHubOK, Has
  <2>2. CASE view.state # "merged"
    <3>1. contains' = contains
      BY <1>2, <2>2 DEF Newer
    <3>2. \A q \in Pulls : Has(q, "merged")' <=> Has(q, "merged")
      BY <2>1, <2>2 DEF Has
    <3>3. \A b \in Bases : contains[b] \subseteq Pulls \ {p}
      BY <2>1 DEF CommitsFlow, TypeInv, GitHubOK
    <3>4. \A b \in Bases : \A u \in contains'[b] : Has(u, "merged")'
      BY <3>1, <3>2, <3>3 DEF CommitsFlow
    <3>5. \A q \in Pulls : Has(q, "merged")' => q \in contains'[gh'[q].base]
      BY <2>1, <3>1, <3>2 DEF CommitsFlow
    <3>6. ASSUME NEW b \in Bases, NEW u \in Pulls, NEW w \in Pulls, u \in contains'[b],
                 Has(w, "merged")', gh'[w].base = Head[u], gh'[w].mergedAt < gh'[u].mergedAt
          PROVE  w \in contains'[b]
      <4>1. u # p /\ w # p /\ Has(w, "merged")
        BY <2>1, <3>1, <3>2, <3>3, <3>6
      <4>2. gh'[u] = gh[u] /\ gh'[w] = gh[w]
        BY <2>1, <4>1
      <4>3. QED
        BY <3>1, <3>6, <4>1, <4>2 DEF CommitsFlow
    <3>7. QED
      BY <3>4, <3>5, <3>6 DEF CommitsFlow
  <2>3. CASE view.state = "merged"
    <3> DEFINE base == view.base
    <3>1. /\ contains' = [contains EXCEPT ![base] = @ \cup contains[Head[p]] \cup {p}]
          /\ view.mergedAt = n /\ n \in Nat /\ base \in Bases /\ Head[p] \in Bases
          /\ now <= n
      <4>1. contains' = [contains EXCEPT ![base] = @ \cup contains[Head[p]] \cup {p}]
            /\ view.mergedAt = n
        BY <1>2, <2>3 DEF Newer
      <4>2. base \in Bases
        BY DEF Views
      <4>3. Head[p] \in Bases
        BY PullsAssumption DEF Bases
      <4>4. now <= n /\ n \in Nat
        BY <1>2 DEF Newer, Change, Times, TypeInv, GitHubOK
      <4>5. QED
        BY <4>1, <4>2, <4>3, <4>4
    <3>2. /\ contains'[base] = contains[base] \cup contains[Head[p]] \cup {p}
          /\ \A b \in Bases \ {base} : contains'[b] = contains[b]
      BY <3>1 DEF TypeInv, GitHubOK
    <3>3. \A b \in Bases : contains[b] \subseteq Pulls \ {p}
      BY <2>1 DEF CommitsFlow, TypeInv, GitHubOK
    <3>4. Has(p, "merged")' /\ \A q \in Pulls \ {p} : Has(q, "merged")' <=> Has(q, "merged")
      BY <2>1, <2>3 DEF Has
    <3>5. \A q \in Pulls : Has(q, "merged") => gh[q].mergedAt \in Nat /\ gh[q].mergedAt <= n
      <4>1. \A q \in Pulls : Has(q, "merged") =>
              gh[q] \in Views /\ gh[q].mergedAt <= now /\ now \in Nat
        BY DEF GitHubPast, Has, TypeInv, GitHubOK, Times
      <4>2. QED
        BY <3>1, <4>1 DEF Views, Times
    <3> HIDE DEF base
    <3>6. \A b \in Bases : \A u \in contains'[b] : Has(u, "merged")'
      BY <3>1, <3>2, <3>3, <3>4 DEF CommitsFlow
    <3>7. ASSUME NEW q \in Pulls, Has(q, "merged")' PROVE q \in contains'[gh'[q].base]
      <4>1. CASE q = p
        BY <2>1, <3>2, <4>1 DEF base
      <4>2. CASE q # p
        <5>1. gh'[q] = gh[q] /\ q \in contains[gh[q].base] /\ gh[q].base \in Bases
          BY <2>1, <3>4, <3>7, <4>2 DEF CommitsFlow, Has, TypeInv, GitHubOK, Views
        <5>2. QED
          BY <3>2, <5>1
      <4>3. QED
        BY <4>1, <4>2
    <3>8. ASSUME NEW b \in Bases, NEW u \in Pulls, NEW w \in Pulls, u \in contains'[b],
                 Has(w, "merged")', gh'[w].base = Head[u], gh'[w].mergedAt < gh'[u].mergedAt
          PROVE  w \in contains'[b]
      <4>1. CASE u = p
        <5>1. b = base
          BY <3>2, <3>3, <3>8, <4>1
        <5>2. w # p
          BY <2>1, <3>1, <3>8, <4>1
        <5>3. w \in contains[Head[p]]
          BY <2>1, <3>4, <3>8, <4>1, <5>2 DEF CommitsFlow
        <5>4. QED
          BY <3>2, <5>1, <5>3
      <4>2. CASE u # p
        <5>1. Has(u, "merged") /\ gh'[u] = gh[u]
          BY <2>1, <3>4, <3>6, <3>8, <4>2
        <5>2. w # p
          BY <2>1, <3>1, <3>5, <3>8, <5>1
        <5>3. gh'[w] = gh[w] /\ Has(w, "merged")
          BY <2>1, <3>4, <3>8, <5>2
        <5>4. CASE u \in contains[b]
          <6>1. w \in contains[b]
            BY <3>8, <5>1, <5>3, <5>4 DEF CommitsFlow
          <6>2. QED
            BY <3>2, <6>1
        <5>5. CASE b = base /\ u \in contains[Head[p]]
          <6>1. w \in contains[Head[p]]
            BY <3>1, <3>8, <5>1, <5>3, <5>5 DEF CommitsFlow
          <6>2. QED
            BY <3>2, <5>5, <6>1
        <5>6. QED
          BY <3>2, <3>8, <4>2, <5>4, <5>5
      <4>3. QED
        BY <4>1, <4>2
    <3>9. QED
      BY <3>6, <3>7, <3>8 DEF CommitsFlow
  <2>4. QED
    BY <2>2, <2>3
<1>3. CASE ~GitHub
  <2>1. UNCHANGED <<gh, contains>>
    BY <1>3, OnlyGitHub
  <2>2. QED
    BY <1>1, <2>1
<1>4. QED
  BY <1>2, <1>3, GitHubIs

LEMMA AlwaysFlows == Spec => []CommitsFlow
<1>1. ASSUME Init PROVE CommitsFlow
  <2>1. \A p \in Pulls : ~Has(p, "merged")
    BY <1>1 DEF Init, Has, Opened
  <2>2. \A b \in Bases : contains[b] = {}
    BY <1>1 DEF Init
  <2>3. QED
    BY <2>1, <2>2 DEF CommitsFlow
<1>2. TypeInv /\ Past /\ CommitsFlow /\ [Next]_vars => CommitsFlow'
  BY CommitsStep DEF Past
<1>3. QED
  BY <1>1, <1>2, AlwaysTyped, AlwaysPast, PTL DEF Spec

\* What is found to have landed has.
LEMMA LandedHas ==
  ASSUME TypeInv, CommitsFlow, NEW views, NEW v, Known(v),
         \A w \in Merged(views) : KnownMerge(w), Landed(views, v)
  PROVE  v.state = "merged" /\ v.pull \in contains[Main]
<1> DEFINE merges == Merged(views \cup {v})
           S == {w \in merges : w.pull \in contains[Main]}
<1>1. v.state = "merged"
  BY DEF Landed
<1>2. \A w \in merges :
        w \in Views /\ w.pull \in Pulls /\ w = gh[w.pull] /\ Has(w.pull, "merged")
  BY <1>1 DEF Merged, KnownMerge, Known, Has, Views
<1>3. v \in merges
  BY <1>1 DEF Merged
<1>4. S \in SUBSET merges
  OBVIOUS
<1>5. ASSUME NEW w \in merges, w.base = Main PROVE w \in S
  BY <1>2, <1>5 DEF CommitsFlow
<1>6. ASSUME NEW w \in merges, NEW u \in S, Head[u.pull] = w.base, u.mergedAt > w.mergedAt
      PROVE  w \in S
  <2>1. u \in merges /\ u.pull \in contains[Main] /\ Main \in Bases
    BY <1>6 DEF Bases
  <2>2. w.mergedAt < u.mergedAt
    BY <1>2, <1>6, <2>1 DEF Views, Times
  <2>3. w.pull \in contains[Main]
    BY <1>2, <1>6, <2>1, <2>2 DEF CommitsFlow
  <2>4. QED
    BY <2>3
<1>7. \A w \in merges :
        \/ w.base = Main
        \/ \E u \in S : Head[u.pull] = w.base /\ u.mergedAt > w.mergedAt
        => w \in S
  BY <1>5, <1>6
<1> HIDE DEF S, merges
<1>8. v \in S
  BY <1>4, <1>7 DEF Landed, merges
<1>9. QED
  BY <1>1, <1>8 DEF S

\* A step of landMergesInto: a branch that landed, and when it was merged.
LandedAt(s) ==
  \E u \in Pulls : /\ Has(u, "merged") /\ u \in contains[Main]
                   /\ Head[u] = s.branch /\ gh[u].mergedAt = s.at

Fronts(k) ==
  /\ \A s \in k.front : LandedAt(s)
  /\ k.stage = "carrying" => LandedAt(k.base)

\* What a handler holds as landed has landed, and it carries on from there only.
HookLands(k) ==
  k.stage # "idle" =>
    /\ k.landed => k.view.state = "merged" /\ k.view.pull \in contains[Main]
    /\ Fronts(k)

HooksLand == \A h \in Hooks : HookLands(hook[h])

TicketsLand == \A t \in Tickets : ticket[t].last # 0 => ticket[t].last \in contains[Main]

\* A merged pull request is shown with its base.
BaseTrue ==
  \A t \in Tickets : ticket[t].state = "merged" => ticket[t].base = gh[ticket[t].pull].base

LandInv == HooksLand /\ TicketsLand

LEMMA LandsStay ==
  ASSUME TypeInv, Past, [Next]_vars
  PROVE  /\ \A s : LandedAt(s) => LandedAt(s)'
         /\ \A k \in HookStates : Fronts(k) => Fronts(k)'
         /\ \A k \in HookStates : HookLands(k) => HookLands(k)'
<1>1. Main \in Bases
  BY DEF Bases
<1>2. \A p \in Pulls : Has(p, "merged") => gh'[p] = gh[p]
  BY MergesRemain
<1>3. contains[Main] \subseteq contains'[Main]
  BY <1>1, MergesRemain
<1>4. ASSUME NEW s, LandedAt(s) PROVE LandedAt(s)'
  <2>1. PICK u \in Pulls : /\ Has(u, "merged") /\ u \in contains[Main]
                           /\ Head[u] = s.branch /\ gh[u].mergedAt = s.at
    BY <1>4 DEF LandedAt
  <2>2. gh'[u] = gh[u] /\ u \in contains'[Main]
    BY <1>2, <1>3, <2>1
  <2>3. QED
    BY <2>1, <2>2 DEF LandedAt, Has
<1>5. \A k \in HookStates : Fronts(k) => Fronts(k)'
  BY <1>4 DEF Fronts
<1>6. ASSUME NEW k \in HookStates, HookLands(k) PROVE HookLands(k)'
  <2> DEFINE landed == k.landed
  <2>1. landed \in BOOLEAN
    BY DEF HookStates
  <2>2. k.stage # "idle" =>
          /\ landed => k.view.state = "merged" /\ k.view.pull \in contains[Main]
          /\ Fronts(k)
    BY <1>6 DEF HookLands
  <2>3. k.stage # "idle" =>
          /\ landed => k.view.state = "merged" /\ k.view.pull \in contains'[Main]
          /\ Fronts(k)'
    BY <1>3, <1>5, <2>2
  <2>4. QED
    BY <2>3 DEF HookLands
<1>7. QED
  BY <1>4, <1>5, <1>6

LEMMA NoHookLands == HookLands(NoHook)
BY NoHookTyped DEF HookLands

\* A handler carries on with the branches it has, unless it has found one more.
LEMMA AppliedLands ==
  ASSUME TypeInv, Past, NEW h \in Hooks, hook[h].stage # "idle", HookLands(hook[h])
  PROVE  HookLands(Applied(h))
<1> DEFINE landed == hook[h].landed
           v == hook[h].view
           F == {[branch |-> Head[v.pull], at |-> v.mergedAt]}
           V == {BranchOf(h)}
           k == Applied(h)
<1>1. hook[h] \in HookStates /\ landed \in BOOLEAN /\ Known(v)
  BY DEF TypeInv, HooksOK, HookStates, Past, HooksPast
<1>2. landed => v.state = "merged" /\ v.pull \in contains[Main]
  BY DEF HookLands
<1>3. CASE ~landed
  BY <1>3, NoHookLands DEF Applied
<1>4. CASE landed
  <2>1. k = [hook[h] EXCEPT !.stage = "landing", !.todo = {}, !.on = None, !.front = F,
                            !.visited = V]
    BY <1>4 DEF Applied, BranchOf
  <2>2. v = gh[v.pull] /\ v.pull \in Pulls /\ v # None /\ v.state = "merged"
    BY <1>1, <1>2, <1>4, NoneIsNothing DEF Known, Views
  <2>3. Has(v.pull, "merged")
    BY <2>2 DEF Has
  <2>4. \A s \in F : s.branch = Head[v.pull] /\ s.at = v.mergedAt
    OBVIOUS
  <2>5. \A s \in F : LandedAt(s)
    BY <1>2, <1>4, <2>2, <2>3, <2>4 DEF LandedAt
  <2> HIDE DEF F, V, k
  <2>6. k.stage = "landing" /\ k.front = F /\ k.view = v /\ k.landed = landed
    BY <1>1, <2>1 DEF HookStates
  <2> HIDE DEF v, landed
  <2>7. Fronts(k)
    BY <2>5, <2>6 DEF Fronts
  <2>8. HookLands(k)
    BY <1>2, <1>4, <2>6, <2>7 DEF HookLands
  <2>9. QED
    BY <2>8 DEF k
<1>5. QED
  BY <1>1, <1>3, <1>4

\* A handler whose stage changes otherwise.
LEMMA SameFronts ==
  ASSUME NEW h \in Hooks, hook[h].stage # "idle", HookLands(hook[h]), NEW k \in HookStates,
         k.view = hook[h].view, k.landed = hook[h].landed, Fronts(k)
  PROVE  HookLands(k)
BY DEF HookLands

LEMMA OnwardLands ==
  ASSUME TypeInv, Past, NEW h \in Hooks, hook[h].stage # "idle", HookLands(hook[h]),
         NEW todo \in SUBSET Tickets
  PROVE  HookLands(Onward(h, todo))
<1>1. CASE todo = {}
  BY <1>1, AppliedLands DEF Onward
<1>2. CASE todo # {}
  <2> DEFINE k == Onward(h, todo)
  <2>1. k = [hook[h] EXCEPT !.stage = "applying", !.todo = todo, !.on = None]
    BY <1>2 DEF Onward
  <2>2. hook[h] \in HookStates
    BY DEF TypeInv, HooksOK
  <2> HIDE DEF k
  <2>3. k \in HookStates /\ k.view = hook[h].view /\ k.landed = hook[h].landed
        /\ k.front = hook[h].front /\ k.stage = "applying"
    BY <2>1, <2>2 DEF HookStates
  <2>4. Fronts(k)
    BY <2>3 DEF HookLands, Fronts
  <2>5. QED
    BY <2>3, <2>4, SameFronts DEF k
<1>3. QED
  BY <1>1, <1>2

LEMMA CarryOnLands ==
  ASSUME NEW h \in Hooks, hook[h].stage # "idle", HookLands(hook[h]), NEW n \in HookStates,
         n.view = hook[h].view, n.landed = hook[h].landed,
         \A s \in n.front : LandedAt(s), LandedAt(n.base)
  PROVE  HookLands(CarryOn(n))
<1>1. CASE n.todo # {}
  <2> DEFINE k == [n EXCEPT !.stage = "carrying"]
  <2>1. k \in HookStates /\ k.view = n.view /\ k.landed = n.landed /\ k.front = n.front
        /\ k.base = n.base
    BY DEF HookStates
  <2>2. CarryOn(n) = k
    BY <1>1 DEF CarryOn
  <2> HIDE DEF k
  <2>3. Fronts(k)
    BY <2>1 DEF Fronts
  <2>4. QED
    BY <2>1, <2>2, <2>3, SameFronts
<1>2. CASE n.todo = {} /\ n.front # {}
  <2> DEFINE k == [n EXCEPT !.stage = "landing", !.base = None]
  <2>1. k \in HookStates /\ k.view = n.view /\ k.landed = n.landed /\ k.front = n.front
        /\ k.stage = "landing"
    BY DEF HookStates
  <2>2. CarryOn(n) = k
    BY <1>2 DEF CarryOn
  <2> HIDE DEF k
  <2>3. Fronts(k)
    BY <2>1 DEF Fronts
  <2>4. QED
    BY <2>1, <2>2, <2>3, SameFronts
<1>3. CASE n.todo = {} /\ n.front = {}
  BY <1>3, NoHookLands DEF CarryOn
<1>4. QED
  BY <1>1, <1>2, <1>3

\* What was merged into a branch before the branch landed has landed with it.
LEMMA AwaitedLands ==
  ASSUME TypeInv, Past, CommitsFlow, BaseTrue, NEW h \in Hooks, hook[h].stage # "idle",
         LandedAt(hook[h].base), NEW t \in Tickets, Waits(ticket[t], hook[h].base.branch),
         NEW at \in MergedBefore(h, ticket[t])
  PROVE  /\ ticket[t].pull \in contains[Main]
         /\ LandedAt([branch |-> ticket[t].branch, at |-> at])
<1> DEFINE e == ticket[t]
           s == hook[h].base
<1>1. e.state = "merged" /\ e.base = s.branch /\ e.pull \in Pulls /\ Head[e.pull] = e.branch
  BY WaitsTyped DEF Waits, TypeInv, TicketsOK
<1>2. PICK v \in hook[h].merged : v.pull = e.pull /\ v.mergedAt < s.at /\ at = v.mergedAt
  BY DEF MergedBefore
<1>3. KnownMerge(v)
  BY <1>2 DEF Past, HooksPast
<1>4. v = gh[e.pull] /\ Has(e.pull, "merged") /\ gh[e.pull].base = e.base
  BY <1>1, <1>2, <1>3, NoneIsNothing DEF KnownMerge, Known, Has, BaseTrue
<1>5. PICK u \in Pulls : /\ Has(u, "merged") /\ u \in contains[Main]
                         /\ Head[u] = s.branch /\ gh[u].mergedAt = s.at
  BY DEF LandedAt
<1>6. e.pull \in contains[Main]
  BY <1>1, <1>2, <1>4, <1>5 DEF CommitsFlow, Bases
<1>7. LandedAt([branch |-> e.branch, at |-> at])
  BY <1>1, <1>2, <1>4, <1>6 DEF LandedAt
<1>8. QED
  BY <1>6, <1>7

LEMMA ReadHistoryLands ==
  ASSUME TypeInv, Past, CommitsFlow, NEW h \in Hooks, HookLands(hook[h]), ReadHistory(h)
  PROVE  HookLands(hook'[h])
<1> DEFINE M == Merged({remembered[p] : p \in {q \in Pulls : remembered[q] # None}})
           L == Landed(M, hook[h].view)
           k == [hook[h] EXCEPT !.stage = "reconciled", !.merged = M, !.landed = L]
<1>1. hook[h] \in HookStates /\ hook[h].stage = "remembered" /\ Known(hook[h].view)
  BY DEF ReadHistory, TypeInv, HooksOK, Past, HooksPast
<1>2. \A w \in M : KnownMerge(w)
  BY DEF Merged, KnownMerge, Past
<1>3. hook' = [hook EXCEPT ![h] = k]
  BY DEF ReadHistory, TypeInv, HooksOK
<1>4. L \in BOOLEAN
  BY DEF Landed
<1> HIDE DEF M
<1>5. L => hook[h].view.state = "merged" /\ hook[h].view.pull \in contains[Main]
  <2> DEFINE v == hook[h].view
  <2>1. Known(v)
    BY <1>1
  <2> HIDE DEF v
  <2>2. ASSUME Landed(M, v) PROVE v.state = "merged" /\ v.pull \in contains[Main]
    <3>1. \A w \in Merged(M) : KnownMerge(w)
      BY <1>2 DEF Merged
    <3>2. QED
      BY <2>1, <2>2, <3>1, LandedHas
  <2>3. QED
    BY <2>2 DEF v, L
<1> HIDE DEF L
<1>6. k.stage = "reconciled" /\ k.view = hook[h].view /\ k.landed = L /\ k.front = hook[h].front
  BY <1>1, <1>4 DEF HookStates
<1>7. hook'[h] = k
  BY <1>3 DEF TypeInv, HooksOK
<1> HIDE DEF k
<1>8. Fronts(k)
  BY <1>1, <1>6 DEF HookLands, Fronts
<1>9. HookLands(k)
  BY <1>5, <1>6, <1>8 DEF HookLands
<1>10. QED
  BY <1>7, <1>9

LEMMA HandleLands ==
  ASSUME TypeInv, Past, CommitsFlow, BaseTrue, NEW h \in Hooks, HookLands(hook[h]), Handle(h)
  PROVE  HookLands(hook'[h])
<1>0. hook[h] \in HookStates /\ hook[h].stage # "idle"
  BY HandleCarries DEF TypeInv, HooksOK
<1>1. ASSUME NEW k, Goes(h, k), HookLands(k) PROVE HookLands(hook'[h])
  <2>1. hook'[h] = k
    BY <1>1, HooksKeep
  <2>2. QED
    BY <1>1, <2>1
<1>2. ASSUME NEW k \in HookStates, k.view = hook[h].view, k.landed = hook[h].landed,
             k.front = hook[h].front, k.stage # "carrying"
      PROVE  HookLands(k)
  <2>1. Fronts(k)
    BY <1>0, <1>2 DEF HookLands, Fronts
  <2>2. QED
    BY <1>0, <1>2, <2>1, SameFronts
<1>3. CASE ReadHistory(h)
  BY <1>3, ReadHistoryLands
<1>4. CASE FindOwners(h)
  <2> DEFINE l == [hook[h] EXCEPT !.stage = "linking"]
             o == Onward(h, Owners(h))
  <2>1. PICK k : Goes(h, k) /\ Quiet(k) /\ k \in {l, o}
    BY <1>4, FindOwnersIs
  <2>2. l \in HookStates /\ l.view = hook[h].view /\ l.landed = hook[h].landed
        /\ l.front = hook[h].front /\ l.stage # "carrying"
    BY <1>0 DEF HookStates
  <2>3. Owners(h) \in SUBSET Tickets
    BY DEF Owners
  <2> HIDE DEF l
  <2>4. HookLands(l)
    BY <1>2, <2>2
  <2>5. HookLands(o)
    BY <1>0, <2>3, OnwardLands
  <2> HIDE DEF o
  <2>6. QED
    BY <1>1, <2>1, <2>4, <2>5
<1>5. CASE LockToLink(h)
  <2> DEFINE l == [hook[h] EXCEPT !.stage = "attaching", !.on = Names[hook[h].view.pull]]
             a == Applied(h)
  <2>1. Goes(h, l) \/ Goes(h, a)
    BY <1>5, LockToLinkIs
  <2>2. Goes(h, l) => l \in HookStates
    BY DEF Goes, Shape
  <2>3. l.view = hook[h].view /\ l.landed = hook[h].landed /\ l.front = hook[h].front
        /\ l.stage # "carrying"
    BY <1>0 DEF HookStates
  <2>4. HookLands(a)
    BY <1>0, AppliedLands
  <2> HIDE DEF l, a
  <2>5. QED
    BY <1>1, <1>2, <2>1, <2>2, <2>3, <2>4
<1>6. CASE Attach(h)
  BY <1>0, <1>1, <1>6, AttachIs, AppliedLands
<1>7. ASSUME NEW t \in Tickets, Claim(h, t) PROVE HookLands(hook'[h])
  <2> DEFINE l == [hook[h] EXCEPT !.stage = "writing", !.on = t]
             o == Onward(h, hook[h].todo \ {t})
  <2>1. Goes(h, l) \/ Goes(h, o)
    BY <1>7, ClaimIs
  <2>2. l \in HookStates /\ l.view = hook[h].view /\ l.landed = hook[h].landed
        /\ l.front = hook[h].front /\ l.stage # "carrying"
    BY <1>0 DEF HookStates
  <2>3. hook[h].todo \ {t} \in SUBSET Tickets
    BY <1>7 DEF Claim, TypeInv, HooksOK, Shape
  <2>4. HookLands(o)
    BY <1>0, <2>3, OnwardLands
  <2> HIDE DEF l, o
  <2>5. QED
    BY <1>1, <1>2, <2>1, <2>2, <2>4
<1>8. CASE WriteTicket(h)
  <2>1. hook[h].todo \ {hook[h].on} \in SUBSET Tickets
    BY <1>8 DEF WriteTicket, TypeInv, HooksOK, Shape
  <2>2. Goes(h, Onward(h, hook[h].todo \ {hook[h].on}))
    BY <1>8, WriteTicketIs
  <2>3. QED
    BY <1>0, <1>1, <2>1, <2>2, OnwardLands
<1>9. ASSUME NEW base \in hook[h].front, FindMergesAwaiting(h, base)
      PROVE  HookLands(hook'[h])
  <2> DEFINE n == Awaiting(h, base)
  <2>1. Goes(h, CarryOn(n)) /\ n \in HookStates
    BY <1>9, FindMergesAwaitingIs
  <2>2. /\ n.view = hook[h].view /\ n.landed = hook[h].landed /\ n.base = base
        /\ n.front = hook[h].front \ {base}
    BY <1>0, AwaitingCarries
  <2> HIDE DEF n
  <2>3. LandedAt(n.base) /\ \A s \in n.front : LandedAt(s)
    BY <1>0, <1>9, <2>2 DEF HookLands, Fronts
  <2>4. QED
    BY <1>0, <1>1, <2>1, <2>2, <2>3, CarryOnLands
<1>10. ASSUME hook[h].stage = "carrying", NEW m \in hook[h].todo, Land(h, m)
       PROVE  HookLands(hook'[h])
  <2> DEFINE e == ticket[m.ticket]
             f == Further(h, m, e)
             r == Rest(h, m)
  <2>1. LandedAt(hook[h].base) /\ \A s \in hook[h].front : LandedAt(s)
    BY <1>0, <1>10 DEF HookLands, Fronts
  <2>2. CASE Goes(h, CarryOn(r)) /\ r \in HookStates
    <3>1. /\ r.view = hook[h].view /\ r.landed = hook[h].landed /\ r.base = hook[h].base
          /\ r.front = hook[h].front
      BY <1>0, RestCarries
    <3> HIDE DEF r
    <3>2. QED
      BY <1>0, <1>1, <2>1, <2>2, <3>1, CarryOnLands
  <2>3. CASE /\ Goes(h, CarryOn(f)) /\ f \in HookStates
             /\ e.branch = m.branch /\ Waits(e, hook[h].base.branch)
    <3>1. /\ f.view = hook[h].view /\ f.landed = hook[h].landed /\ f.base = hook[h].base
          /\ f.front = hook[h].front \cup
               {[branch |-> m.branch, at |-> mergedAt] : mergedAt \in MergedBefore(h, e)}
      BY <1>0, FurtherCarries
    <3>2. m.ticket \in Tickets
      BY <1>10, LandIs
    <3>3. \A at \in MergedBefore(h, e) : LandedAt([branch |-> m.branch, at |-> at])
      BY <1>0, <2>1, <2>3, <3>2, AwaitedLands
    <3> HIDE DEF f, e
    <3>4. \A s \in f.front : LandedAt(s)
      BY <2>1, <3>1, <3>3
    <3>5. QED
      BY <1>0, <1>1, <2>1, <2>3, <3>1, <3>4, CarryOnLands
  <2>4. QED
    BY <1>10, <2>2, <2>3, LandIs
<1>11. QED
  BY <1>3, <1>4, <1>5, <1>6, <1>7, <1>8, <1>9, <1>10 DEF Handle

LEMMA HooksLandStep ==
  ASSUME TypeInv, Past, CommitsFlow, BaseTrue, HooksLand, [Next]_vars
  PROVE  HooksLand'
<1> SUFFICES ASSUME NEW h \in Hooks PROVE HookLands(hook[h])'
  BY DEF HooksLand
<1>1. hook'[h] \in HookStates
  BY NextTyped DEF TypeInv, HooksOK
<1>2. ASSUME hook'[h] = hook[h] PROVE HookLands(hook'[h])
  BY <1>2 DEF HooksLand
<1>3. ASSUME hook'[h] # hook[h] PROVE HookLands(hook'[h])
  <2>1. ASSUME NEW v \in sent, Receive(h, v) PROVE HookLands(hook'[h])
    <3>1. hook'[h] = [NoHook EXCEPT !.stage = "remembered", !.view = v]
      BY <1>3, <2>1, ReceivedIs
    <3>2. hook'[h].front = {} /\ ~hook'[h].landed /\ hook'[h].stage = "remembered"
      BY <3>1 DEF NoHook
    <3>3. QED
      BY <3>2 DEF HookLands, Fronts
  <2>2. QED
    BY <1>3, <2>1, WhoMoves, HandleLands, NoHookLands DEF HooksLand
<1>4. HookLands(hook'[h])
  BY <1>2, <1>3
<1>5. QED
  BY <1>1, <1>4, LandsStay

\* What a write shows as landed has landed.
LEMMA PatchedLands ==
  ASSUME NEW e, Entry(e), NEW v \in Views, NEW landed \in BOOLEAN,
         e.last # 0 => e.last \in contains[Main],
         landed /\ v.state = "merged" => v.pull \in contains[Main],
         Patched(e, v, landed).last # 0
  PROVE  Patched(e, v, landed).last \in contains[Main]
<1> DEFINE n == Patched(e, v, landed)
<1>1. /\ n.last \in {e.last, 0, v.pull}
      /\ n.last = v.pull /\ n.last # e.last => landed /\ v.state = "merged"
  BY PatchedLast
<1> HIDE DEF n
<1>2. n.last # 0 => n.last \in contains[Main]
  BY <1>1
<1>3. QED
  BY <1>2 DEF n

LEMMA TicketsLandStep ==
  ASSUME TypeInv, Past, CommitsFlow, BaseTrue, LandInv, [Next]_vars, NEW t \in Tickets,
         ticket'[t].last # 0
  PROVE  ticket'[t].last \in contains[Main]
<1>0. Entry(ticket[t]) /\ (ticket[t].last # 0 => ticket[t].last \in contains[Main])
  BY DEF TypeInv, TicketsOK, LandInv, TicketsLand
<1>1. ASSUME NEW h \in Hooks, AttachWrites(h, t) PROVE ticket'[t].last \in contains[Main]
  <2> DEFINE landed == hook[h].landed
             v == hook[h].view
             e == OnBranch(BranchOf(h))
  <2>1. landed \in BOOLEAN /\ v \in Views /\ BranchOf(h) \in Branches
    BY <1>1, AttachIs DEF AttachWrites
  <2>2. ticket'[t] = Patched(e, v, landed)
    BY <1>1 DEF AttachWrites
  <2>3. Entry(e) /\ e.last = 0
    BY <2>1, NoEntryTyped
  <2>4. landed => v.pull \in contains[Main]
    BY <1>1 DEF AttachWrites, Attach, LandInv, HooksLand, HookLands
  <2> HIDE DEF landed, v, e
  <2>5. QED
    BY <2>1, <2>2, <2>3, <2>4, PatchedLands
<1>2. ASSUME NEW h \in Hooks, WebhookWrites(h, t) PROVE ticket'[t].last \in contains[Main]
  <2> DEFINE landed == hook[h].landed
             v == hook[h].view
             e == ticket[t]
  <2>1. landed \in BOOLEAN /\ v \in Views
    BY <1>2, WriteTicketIs DEF WebhookWrites
  <2>2. ticket'[t] = WebhookPatch(e, v, landed)
    BY <1>2 DEF WebhookWrites
  <2>3. landed => v.pull \in contains[Main]
    BY <1>2 DEF WebhookWrites, WriteTicket, LandInv, HooksLand, HookLands
  <2> HIDE DEF landed, v
  <2>4. \/ ticket'[t] = e
        \/ ticket'[t] = [e EXCEPT !.base = v.base]
        \/ ticket'[t] = Patched(e, v, landed)
    BY <1>0, <2>1, <2>2, WebhookPatchIs
  <2>5. [e EXCEPT !.base = v.base].last = e.last
    BY <1>0 DEF Entry, Entries
  <2>6. Entry(e) /\ (e.last # 0 => e.last \in contains[Main])
    BY <1>0
  <2> HIDE DEF e
  <2>7. CASE ticket'[t] = Patched(e, v, landed)
    <3> DEFINE n == Patched(e, v, landed)
    <3>1. n.last # 0 => n.last \in contains[Main]
      BY <2>1, <2>3, <2>6, PatchedLands
    <3>2. QED
      BY <2>7, <3>1
  <2>8. QED
    BY <2>4, <2>5, <2>6, <2>7
<1>3. ASSUME NEW h \in Hooks, NEW m \in hook[h].todo, LandWrites(h, m, t)
      PROVE  ticket'[t].last \in contains[Main]
  <2>1. /\ hook[h].stage = "carrying" /\ Waits(ticket[t], hook[h].base.branch)
        /\ ticket'[t] = [ticket[t] EXCEPT !.last = ticket[t].pull]
    BY <1>3 DEF LandWrites
  <2>2. PICK at \in MergedBefore(h, ticket[t]) : TRUE
    BY <1>3 DEF LandWrites
  <2>3. LandedAt(hook[h].base)
    BY <2>1 DEF LandInv, HooksLand, HookLands, Fronts
  <2>4. ticket[t].pull \in contains[Main]
    BY <2>1, <2>2, <2>3, AwaitedLands
  <2>5. ticket'[t].last = ticket[t].pull
    BY <1>0, <2>1 DEF Entry, Entries
  <2>6. QED
    BY <2>4, <2>5
<1>4. ASSUME NEW s \in Scans, NEW v \in Views, RefreshWrites(s, t, v)
      PROVE  ticket'[t].last \in contains[Main]
  <2> DEFINE views == KnownMerges(scan[s].index, scan[s].views)
             landed == Landed(views, v)
  <2>1. landed \in BOOLEAN
    BY DEF Landed
  <2>2. v.pull \in Pulls /\ scan[s].views[v.pull] = v
        /\ \/ ticket'[t] = Patched(ticket[t], v, landed)
           \/ ticket'[t] = Patched(OnBranch(Head[v.pull]), v, landed)
    BY <1>4 DEF RefreshWrites, Planned
  <2>3. Known(v)
    BY <2>2, NoneIsNothing DEF Past, ScansPast
  <2>4. \A w \in Merged(views) : KnownMerge(w)
    <3>1. views \subseteq {scan[s].views[p] : p \in {q \in Pulls : scan[s].views[q] # None}}
      BY DEF KnownMerges, Merged
    <3> HIDE DEF views
    <3>2. QED
      BY <3>1 DEF Merged, KnownMerge, Past, ScansPast
  <2> HIDE DEF views
  <2>5. ASSUME landed PROVE v.pull \in contains[Main]
    BY <2>3, <2>4, <2>5, LandedHas
  <2>6. Entry(OnBranch(Head[v.pull])) /\ OnBranch(Head[v.pull]).last = 0
    BY <2>2, NoEntryTyped, PullsAssumption
  <2> HIDE DEF landed
  <2>7. QED
    BY <1>0, <2>1, <2>2, <2>5, <2>6, PatchedLands
<1>5. ASSUME HandWrites(t) \/ \E s \in Scans : RefreshLinks(s, t) PROVE FALSE
  BY <1>5 DEF HandWrites, RefreshLinks
<1>6. CASE ticket'[t] = ticket[t]
  BY <1>0, <1>6
<1>7. CASE ticket'[t] # ticket[t]
  BY <1>1, <1>2, <1>3, <1>4, <1>5, <1>7, WhoWrites DEF Writes
<1>8. QED
  BY <1>6, <1>7

LEMMA LandStep ==
  ASSUME TypeInv, Past, CommitsFlow, BaseTrue, LandInv, [Next]_vars
  PROVE  LandInv'
<1>1. contains[Main] \subseteq contains'[Main]
  BY MergesRemain DEF Bases
<1>2. TicketsLand'
  BY <1>1, TicketsLandStep DEF TicketsLand
<1>3. HooksLand'
  BY HooksLandStep DEF LandInv
<1>4. QED
  BY <1>2, <1>3 DEF LandInv

LEMMA AlwaysLands == Spec /\ []BaseTrue => []LandInv
<1>1. ASSUME Init PROVE LandInv
  <2>1. \A h \in Hooks : hook[h] = NoHook
    BY <1>1 DEF Init
  <2>2. \A t \in Tickets : ticket[t].last = 0
    BY <1>1 DEF Init, NoEntry
  <2>3. QED
    BY <2>1, <2>2, NoHookLands DEF LandInv, HooksLand, TicketsLand
<1>2. TypeInv /\ Past /\ CommitsFlow /\ BaseTrue /\ LandInv /\ [Next]_vars => LandInv'
  BY LandStep
<1>3. QED
  BY <1>1, <1>2, AlwaysTyped, AlwaysPast, AlwaysFlows, PTL DEF Spec

\* As long as merges are shown with their bases, landMergesInto goes from branches that
\* landed to merges that waited for them, never further.
LEMMA BasedLandsTruly == Spec /\ []BaseTrue => LandsTruly
<1> DEFINE Truly == \A t \in Tickets :
       LET e == ticket'[t] IN
       /\ HasLanded(e)
       /\ e.base = gh[e.pull].base
       /\ ~(HasLanded(ticket[t]) /\ e.pull = ticket[t].pull)
       => e.pull \in contains[Main]
<1>1. ASSUME TypeInv, Past, CommitsFlow, BaseTrue, LandInv, [Next]_vars PROVE Truly
  <2> SUFFICES ASSUME NEW t \in Tickets, HasLanded(ticket'[t]),
                      ~(HasLanded(ticket[t]) /\ ticket'[t].pull = ticket[t].pull)
               PROVE  ticket'[t].pull \in contains[Main]
    OBVIOUS
  <2>1. ticket'[t].last = ticket'[t].pull /\ ticket'[t].last # 0
    <3>1. Entry(ticket'[t])
      BY <1>1, NextTyped DEF TypeInv, TicketsOK, Entry
    <3>2. QED
      BY <3>1 DEF HasLanded, Entry
  <2>2. QED
    BY <1>1, <2>1, TicketsLandStep
<1>2. TypeInv /\ Past /\ CommitsFlow /\ BaseTrue /\ LandInv /\ [Next]_vars => [Truly]_vars
  BY <1>1
<1>3. QED
  BY <1>2, AlwaysTyped, AlwaysPast, AlwaysFlows, AlwaysLands, PTL DEF Spec, LandsTruly

\* No webhook from before a merge that a ticket shows names another base than the ticket.
NoLateBase ==
  \A h \in Hooks :
    LET e == ticket[hook[h].on]
        v == hook[h].view
    IN /\ WriteTicket(h)
       /\ e.pull = v.pull /\ e.state = "merged" /\ v.state # "merged"
       => v.base = e.base

\* What a patch shows as merged is shown with its base.
LEMMA PatchedBase ==
  ASSUME TypeInv, NEW e, Entry(e), NEW v \in Views, NEW landed \in BOOLEAN,
         e.branch = Head[v.pull], Known(v), Patched(e, v, landed).state = "merged"
  PROVE  Patched(e, v, landed).base = gh[Patched(e, v, landed).pull].base
<1> DEFINE n == Patched(e, v, landed)
<1>1. n.pull = v.pull /\ n.state = v.state /\ n.base = v.base
  BY PatchedIs
<1> HIDE DEF n
<1>2. v = gh[v.pull]
  BY <1>1 DEF Known, n
<1>3. n.base = gh[n.pull].base
  BY <1>1, <1>2
<1>4. QED
  BY <1>3 DEF n

LEMMA BaseStep ==
  ASSUME TypeInv, Past, BaseTrue, NoLateBase, [Next]_vars, NEW t \in Tickets,
         ticket'[t] # ticket[t], ticket'[t].state = "merged"
  PROVE  ticket'[t].base = gh[ticket'[t].pull].base
<1>0. Entry(ticket[t]) /\ (ticket[t].state = "merged" => ticket[t].base = gh[ticket[t].pull].base)
  BY DEF TypeInv, TicketsOK, BaseTrue
<1>1. ASSUME NEW h \in Hooks, AttachWrites(h, t) PROVE ticket'[t].base = gh[ticket'[t].pull].base
  <2> DEFINE landed == hook[h].landed
             v == hook[h].view
             e == OnBranch(BranchOf(h))
  <2>1. landed \in BOOLEAN /\ v \in Views /\ BranchOf(h) \in Branches
    BY <1>1, AttachIs DEF AttachWrites
  <2>2. ticket'[t] = Patched(e, v, landed)
    BY <1>1 DEF AttachWrites
  <2>3. Entry(e) /\ e.branch = Head[v.pull]
    BY <2>1, NoEntryTyped DEF BranchOf
  <2>4. Known(v)
    BY <1>1 DEF AttachWrites, Attach, Past, HooksPast
  <2> HIDE DEF landed, v, e
  <2>5. QED
    BY <2>1, <2>2, <2>3, <2>4, PatchedBase
<1>2. ASSUME NEW h \in Hooks, WebhookWrites(h, t) PROVE ticket'[t].base = gh[ticket'[t].pull].base
  <2> DEFINE landed == hook[h].landed
             v == hook[h].view
             e == ticket[t]
  <2>1. landed \in BOOLEAN /\ v \in Views
    BY <1>2, WriteTicketIs DEF WebhookWrites
  <2>2. ticket'[t] = WebhookPatch(e, v, landed)
    BY <1>2 DEF WebhookWrites
  <2>3. Known(v)
    BY <1>2 DEF WebhookWrites, WriteTicket, Past, HooksPast
  <2>4. e.pull = v.pull /\ e.state = "merged" /\ v.state # "merged" => v.base = e.base
    BY <1>2 DEF WebhookWrites, NoLateBase
  <2>5. Entry(e) /\ (e.state = "merged" => e.base = gh[e.pull].base) /\ ticket'[t] # e
    BY <1>0
  <2> HIDE DEF landed, v, e
  <2>6. \/ /\ e.pull = v.pull /\ e.state = "merged" /\ v.state # "merged"
           /\ ticket'[t] = [e EXCEPT !.base = v.base]
        \/ e.branch = Head[v.pull] /\ ticket'[t] = Patched(e, v, landed)
    BY <2>1, <2>2, <2>5, WebhookPatchIs
  <2>7. CASE e.branch = Head[v.pull] /\ ticket'[t] = Patched(e, v, landed)
    BY <2>1, <2>3, <2>5, <2>7, PatchedBase
  <2>8. CASE /\ e.pull = v.pull /\ e.state = "merged" /\ v.state # "merged"
             /\ ticket'[t] = [e EXCEPT !.base = v.base]
    <3>1. ticket'[t].base = v.base /\ ticket'[t].pull = e.pull
      BY <2>5, <2>8 DEF Entry, Entries
    <3>2. QED
      BY <2>4, <2>5, <2>8, <3>1
  <2>9. QED
    BY <2>6, <2>7, <2>8
<1>3. ASSUME NEW h \in Hooks, NEW m \in hook[h].todo, LandWrites(h, m, t)
      PROVE  ticket'[t].base = gh[ticket'[t].pull].base
  <2>1. ticket'[t] = [ticket[t] EXCEPT !.last = ticket[t].pull]
    BY <1>3 DEF LandWrites
  <2>2. /\ ticket'[t].base = ticket[t].base /\ ticket'[t].pull = ticket[t].pull
        /\ ticket[t].state = "merged"
    BY <1>0, <2>1 DEF Entry, Entries
  <2>3. QED
    BY <1>0, <2>2
<1>4. ASSUME NEW s \in Scans, NEW v \in Views, RefreshWrites(s, t, v)
      PROVE  ticket'[t].base = gh[ticket'[t].pull].base
  <2> DEFINE landed == Landed(KnownMerges(scan[s].index, scan[s].views), v)
  <2>1. landed \in BOOLEAN
    BY DEF Landed
  <2>2. /\ v.pull \in Pulls /\ scan[s].views[v.pull] = v
        /\ \/ ticket[t].branch = Head[v.pull] /\ ticket'[t] = Patched(ticket[t], v, landed)
           \/ ticket'[t] = Patched(OnBranch(Head[v.pull]), v, landed)
    BY <1>4 DEF RefreshWrites, Planned
  <2>3. Known(v)
    BY <2>2, NoneIsNothing DEF Past, ScansPast
  <2>4. Entry(OnBranch(Head[v.pull])) /\ OnBranch(Head[v.pull]).branch = Head[v.pull]
    BY <2>2, NoEntryTyped, PullsAssumption
  <2> HIDE DEF landed
  <2>5. QED
    BY <1>0, <2>1, <2>2, <2>3, <2>4, PatchedBase
<1>5. ASSUME HandWrites(t) \/ \E s \in Scans : RefreshLinks(s, t) PROVE FALSE
  BY <1>5 DEF HandWrites, RefreshLinks, ByHand, TypeInv, TicketsOK, Entry
<1>6. QED
  BY <1>1, <1>2, <1>3, <1>4, <1>5, WhoWrites DEF Writes

LEMMA BasesStayTrue == Spec /\ [][NoLateBase]_vars => []BaseTrue
<1>1. ASSUME Init PROVE BaseTrue
  BY <1>1 DEF Init, NoEntry, BaseTrue
<1>2. ASSUME TypeInv, Past, BaseTrue, [Next]_vars, [NoLateBase]_vars PROVE BaseTrue'
  <2>1. /\ \A p \in Pulls : Has(p, "merged") => gh'[p] = gh[p]
        /\ ticket' # ticket => UNCHANGED gh
    BY <1>2, MergesRemain
  <2>2. ASSUME NEW t \in Tickets, ticket'[t] = ticket[t], ticket'[t].state = "merged"
        PROVE  ticket'[t].base = gh'[ticket'[t].pull].base
    <3>1. Entry(ticket[t]) /\ Shown(ticket[t]) /\ ticket[t].pull # 0
      BY <1>2, <2>2 DEF TypeInv, TicketsOK, Past, Entry
    <3>2. ticket[t].pull \in Pulls
      BY <3>1, EntryBranch
    <3>3. Has(ticket[t].pull, "merged")
      BY <2>2, <3>1, <3>2 DEF Shown, Has
    <3>4. QED
      BY <1>2, <2>1, <2>2, <3>2, <3>3 DEF BaseTrue
  <2>3. ASSUME NEW t \in Tickets, ticket'[t] # ticket[t], ticket'[t].state = "merged"
        PROVE  ticket'[t].base = gh'[ticket'[t].pull].base
    <3>1. UNCHANGED gh /\ NoLateBase
      BY <1>2, <2>1, <2>3 DEF vars
    <3>2. ticket'[t].base = gh[ticket'[t].pull].base
      BY <1>2, <2>3, <3>1, BaseStep
    <3>3. QED
      BY <3>1, <3>2
  <2>4. QED
    BY <2>2, <2>3 DEF BaseTrue
<1>3. TypeInv /\ Past /\ BaseTrue /\ [Next]_vars /\ [NoLateBase]_vars => BaseTrue'
  BY <1>2
<1>4. QED
  BY <1>1, <1>3, AlwaysTyped, AlwaysPast, PTL DEF Spec

\* Whatever webhooks and refreshes do together, a ticket is shown as landed only when its
\* commits are on the default branch, unless a webhook that was sent before the merge and
\* before a change of the base comes after a refresh has shown the merge: its base is then
\* taken (withPullRequestBase), and nothing else shows a merge with a base it did not have.
THEOREM LandsTrulyWithoutLateBases == Spec /\ [][NoLateBase]_vars => LandsTruly
BY BasesStayTrue, BasedLandsTruly, PTL

\* The webhooks alone show every merge with its base.
LEMMA AlwaysBased == ASSUME Scans = {} PROVE Spec => []BaseTrue
<1>1. ASSUME Init PROVE BaseTrue
  BY <1>1 DEF Init, NoEntry, BaseTrue
<1>2. ASSUME TypeInv, Past, ForwardInv, BaseTrue, [Next]_vars PROVE BaseTrue'
  <2> SUFFICES ASSUME NEW t \in Tickets, ticket'[t].state = "merged"
               PROVE  ticket'[t].base = gh'[ticket'[t].pull].base
    BY DEF BaseTrue
  <2>1. /\ \A p \in Pulls : Has(p, "merged") => gh'[p] = gh[p]
        /\ ticket' # ticket => UNCHANGED gh
    BY <1>2, MergesRemain
  <2>2. Entry(ticket[t]) /\ Shown(ticket[t])
    BY <1>2 DEF TypeInv, TicketsOK, Past
  <2>3. CASE ticket[t].state = "merged" /\ ticket'[t].state = ticket[t].state
             /\ ticket'[t].base = ticket[t].base /\ ticket'[t].pull = ticket[t].pull
    <3>1. ticket[t].pull \in Pulls
      BY <2>2, <2>3, EntryBranch DEF Entry
    <3>2. Has(ticket[t].pull, "merged")
      BY <2>2, <2>3, <3>1, NoneIsNothing DEF Shown, Has
    <3>3. QED
      BY <1>2, <2>1, <2>3, <3>1, <3>2 DEF BaseTrue
  <2>4. ASSUME NEW h \in Hooks, Tells(h, t), ticket' # ticket
        PROVE  ticket'[t].base = gh'[ticket'[t].pull].base
    <3>1. Known(hook[h].view)
      BY <1>2, <2>4 DEF Tells, Holds, Past, HooksPast
    <3>2. hook[h].view = gh[hook[h].view.pull]
      BY <2>4, <3>1 DEF Tells, Known
    <3>3. QED
      BY <2>1, <2>4, <3>2 DEF Tells
  <2>5. CASE ticket'[t] = ticket[t]
    BY <2>3, <2>5
  <2>6. CASE ticket'[t] # ticket[t]
    <3>1. CASE Lands(t)
      BY <2>3, <3>1 DEF Lands
    <3>2. CASE ticket'[t].pull = 0
      <4>1. Entry(ticket'[t])
        BY <1>2, NextTyped DEF TypeInv, TicketsOK, Entry
      <4>2. QED
        BY <3>2, <4>1 DEF Entry
    <3>3. QED
      BY <1>2, <2>4, <2>6, <3>1, <3>2, WebhooksTell DEF ForwardInv
  <2>7. QED
    BY <2>5, <2>6
<1>3. TypeInv /\ Past /\ ForwardInv /\ BaseTrue /\ [Next]_vars => BaseTrue'
  BY <1>2
<1>4. QED
  BY <1>1, <1>3, AlwaysTyped, AlwaysPast, AlwaysForward, PTL DEF Spec

\* Without refreshes merges are always shown with their bases, so webhooks alone, in any order,
\* never show a ticket as landed before its commits are on the default branch.
THEOREM WebhooksLandTruly == ASSUME Scans = {} PROVE Spec => LandsTruly
BY AlwaysBased, BasedLandsTruly, PTL
===============================================================================
