------------------------------ MODULE PullRequests ------------------------------
(***************************************************************************)
(* What the tickets of a project show of the pull requests of its          *)
(* repository (packages/server-core/src/github, git).                      *)
(*                                                                         *)
(* GitHub reports each change of a pull request by a webhook that may be   *)
(* lost, late, doubled or overtaken.  A handler claims the change in the   *)
(* table github_pull_request_reconciliation, reads there what has been     *)
(* merged, and writes the tickets of the branch, each under its lock; a    *)
(* merge that reached the default branch is carried on to the merges that  *)
(* were waiting for it.  A refresh fetches the state of the repository and *)
(* writes the tickets that have not changed since.                         *)
(*                                                                         *)
(* A ticket has one branch here, no stack of further ones.  Its file and   *)
(* its row change in one step: the lock keeps others from the file until   *)
(* the row is written (TicketStore has the two apart).                     *)
(***************************************************************************)
EXTENDS Naturals, FiniteSets

CONSTANTS
  Pulls,       \* numbers of pull requests
  Branches,    \* branches of the repository but the default one
  Main,        \* the default branch
  Head,        \* the branch each pull request comes from
  Names,       \* the ticket that is picked from its branch and text
  Called,      \* the ticket that is picked from a branch by its name alone, or None
  OpenAtStart, \* its base if it is open when the repository is connected, or None
  Tickets,
  Hooks,       \* webhooks that may be handled at a time
  Scans,       \* refreshes that may run at a time
  None,
  MaxTime,     \* bound: the last second
  MaxChanges,  \* bound: changes of pull requests
  MaxSpare,    \* bound: webhooks delivered once more
  MaxActs,     \* bound: branches attached or cleared by hand
  MaxFailures  \* bound: crashes of the process and fetches that fail

ASSUME PullsAssumption ==
  /\ Pulls \subseteq Nat \ {0}
  /\ Head \in [Pulls -> Branches]
  /\ Names \in [Pulls -> Tickets]
  /\ Called \in [Branches -> Tickets \cup {None}]
  /\ \A p \in Pulls : Called[Head[p]] \in {Names[p], None}
  /\ OpenAtStart \in [Pulls -> Branches \cup {Main, None}]
  /\ \A p \in Pulls : OpenAtStart[p] # Head[p]
  /\ Main \notin Branches
  /\ None \notin Branches \cup {Main} \cup Tickets \cup Hooks
  /\ {MaxTime, MaxChanges, MaxSpare, MaxActs, MaxFailures} \subseteq Nat

VARIABLES
  now,         \* the second GitHub puts on a change
  gh,          \* each pull request as GitHub has it, or None
  contains,    \* history: the pull requests whose commits each branch has
  sent,        \* webhooks on their way
  remembered,  \* github_pull_request_reconciliation
  ticket,      \* each ticket's branch and what it shows of a pull request
  lock,        \* ticketDocument: the handler that holds a ticket
  repoLock,    \* repositoryBranch: the handler that holds the repository
  hook,        \* the webhook handlers
  scan,        \* the refreshes
  spent        \* changes, spare deliveries, acts by hand and crashes so far

github == <<now, gh, contains, sent>>
locks == <<lock, repoLock>>
vars == <<now, gh, contains, sent, remembered, ticket, lock, repoLock, hook, scan, spent>>

-------------------------------------------------------------------------------
Times == 0..MaxTime
Bases == Branches \cup {Main}

\* A pull request as told at some time; "seq" numbers its changes, unknown to the code.
Views == [pull : Pulls, state : {"open", "closed", "merged"}, base : Bases,
          at : Times, mergedAt : Times, seq : Nat]
ASSUME NoneAssumption == None \notin Views

Opened(p, base, n) ==
  [pull |-> p, state |-> "open", base |-> base, at |-> n, mergedAt |-> 0, seq |-> 1]
Payload(v) == [v EXCEPT !.seq = 0]

\* What a ticket shows; "last": lastTransitionedPr, "off": branchAutoLinkDisabled.
Entries == [branch : Branches \cup {None}, pull : Pulls \cup {0},
            state : {"none", "open", "closed", "merged"}, base : Bases \cup {None},
            last : Pulls \cup {0}, off : BOOLEAN, seq : Nat]
NoEntry == [branch |-> None, pull |-> 0, state |-> "none", base |-> None, last |-> 0,
            off |-> FALSE, seq |-> 0]
OnBranch(b) == [NoEntry EXCEPT !.branch = b]

Merged(views) == {v \in views : v.state = "merged"}

\* pullRequestLanded: a merge into the default branch, or into a branch that was
\* merged later by one that landed.
Landed(views, v) ==
  /\ v.state = "merged"
  /\ \A merges \in {Merged(views \cup {v})} : \A S \in SUBSET merges :
       (\A w \in merges :
          \/ w.base = Main
          \/ \E u \in S : Head[u.pull] = w.base /\ u.mergedAt > w.mergedAt
          => w \in S)
       => v \in S

HasLanded(e) == e.state = "merged" /\ e.last = e.pull

\* planPullRequestPatch and withPullRequestBase: a merge that landed once stays landed.
Patched(e, v, landed) ==
  LET same == e.pull = v.pull
      lands == landed \/ (same /\ e.last = v.pull)
      last == IF v.state # "merged" THEN e.last ELSE IF lands THEN v.pull ELSE 0
      next == [e EXCEPT !.pull = v.pull, !.state = v.state, !.base = v.base, !.last = last,
                        !.seq = v.seq]
  IN IF same /\ e.state = v.state /\ e.base = v.base
        /\ (v.state = "merged" => (e.last = v.pull) = lands)
     THEN e ELSE next

\* Fault: late news of a merged pull request is taken over.
WebhookAlwaysPatches(e, v, landed) ==
  IF e.branch # Head[v.pull] \/ v.pull < e.pull THEN e ELSE Patched(e, v, landed)

\* planPullRequestWebhookTicket and the checks before it.  What was merged stays so.
WebhookPatch(e, v, landed) ==
  IF e.branch # Head[v.pull] \/ v.pull < e.pull THEN e
  ELSE IF e.pull = v.pull /\ e.state = "merged" /\ v.state # "merged"
       THEN [e EXCEPT !.base = v.base]
       ELSE Patched(e, v, landed)

NoHook == [stage |-> "idle", view |-> None, merged |-> {}, landed |-> FALSE, todo |-> {},
           on |-> None, front |-> {}, visited |-> {}, base |-> None]
NoIndex == [t \in Tickets |-> None]
NoViews == [p \in Pulls |-> None]
NoScan == [stage |-> "idle", cached |-> FALSE, index |-> NoIndex, changed |-> {}, late |-> {},
           left |-> {}, views |-> NoViews, todo |-> {}]

Steps == [branch : Branches, at : Times]
HookStates ==
  [stage : {"idle", "remembered", "reconciled", "linking", "attaching", "applying", "writing",
            "landing", "carrying"},
   view : Views \cup {None}, merged : SUBSET Views, landed : BOOLEAN,
   todo : SUBSET (Tickets \cup [ticket : Tickets, branch : Branches]),
   on : Tickets \cup {None}, front : SUBSET Steps, visited : SUBSET Branches,
   base : Steps \cup {None}]
ScanStates ==
  [stage : {"idle", "listed", "fetching", "reconciling"},
   cached : BOOLEAN, index : [Tickets -> Entries \cup {None}], changed : SUBSET Tickets,
   late : SUBSET Tickets, left : SUBSET Branches,
   views : [Pulls -> Views \cup {None}], todo : SUBSET Tickets]

\* A repository is connected in which some pull requests are open.
Init ==
  /\ now = 0
  /\ gh = [p \in Pulls |-> IF OpenAtStart[p] = None THEN None ELSE Opened(p, OpenAtStart[p], 0)]
  /\ contains = [b \in Bases |-> {}]
  /\ sent = {}
  /\ remembered = [p \in Pulls |-> None]
  /\ ticket = [t \in Tickets |-> NoEntry]
  /\ lock = [t \in Tickets |-> None]
  /\ repoLock = None
  /\ hook = [h \in Hooks |-> NoHook]
  /\ scan = [s \in Scans |-> NoScan]
  /\ spent = [changes |-> 0, spare |-> 0, acts |-> 0, failures |-> 0]

-------------------------------------------------------------------------------
(* GitHub.                                                                   *)

\* Changes of a second may carry the same time.
Change(p, view, n) ==
  /\ spent.changes < MaxChanges
  /\ n \in {now, now + 1} \cap Times
  /\ spent' = [spent EXCEPT !.changes = @ + 1]
  /\ now' = n
  /\ gh' = [gh EXCEPT ![p] = view]
  /\ sent' = sent \cup {view}
  /\ UNCHANGED <<remembered, ticket, locks, hook, scan>>

Has(p, state) == gh[p] # None /\ gh[p].state = state
Later(p, n) == [gh[p] EXCEPT !.at = n, !.seq = @ + 1]

\* A branch has one open pull request into another one.
Alone(p, base) ==
  \A q \in Pulls \ {p} : Has(q, "open") => Head[q] # Head[p] \/ gh[q].base # base

OpenPull(p, base, n) ==
  /\ gh[p] = None
  /\ base # Head[p]
  /\ Alone(p, base)
  /\ Change(p, Opened(p, base, n), n)
  /\ UNCHANGED contains

RetargetPull(p, base, n) ==
  /\ Has(p, "open")
  /\ base # gh[p].base
  /\ base # Head[p]
  /\ Alone(p, base)
  /\ Change(p, [Later(p, n) EXCEPT !.base = base], n)
  /\ UNCHANGED contains

ClosePull(p, n) ==
  /\ Has(p, "open")
  /\ Change(p, [Later(p, n) EXCEPT !.state = "closed"], n)
  /\ UNCHANGED contains

ReopenPull(p, n) ==
  /\ Has(p, "closed")
  /\ Alone(p, gh[p].base)
  /\ Change(p, [Later(p, n) EXCEPT !.state = "open"], n)
  /\ UNCHANGED contains

MergePull(p, n) ==
  /\ Has(p, "open")
  /\ Change(p, [Later(p, n) EXCEPT !.state = "merged", !.mergedAt = n], n)
  /\ contains' = [contains EXCEPT ![gh[p].base] = @ \cup contains[Head[p]] \cup {p}]

-------------------------------------------------------------------------------
(* Webhooks: pullRequestChanged.                                             *)

\* Fault: whatever comes is taken.
AcceptsAny(v) == TRUE

\* rememberPullRequest takes what is newer than what it has, or the same again.
Accepts(v) ==
  \/ remembered[v.pull] = None
  \/ v.at > remembered[v.pull].at
  \/ v.at = remembered[v.pull].at /\ Payload(v) = Payload(remembered[v.pull])

Remember(v) == remembered' = [remembered EXCEPT ![v.pull] = v]

Receive(h, v) ==
  /\ hook[h].stage = "idle"
  /\ v \in sent
  /\ \/ sent' = sent \ {v} /\ UNCHANGED spent
     \/ /\ spent.spare < MaxSpare
        /\ spent' = [spent EXCEPT !.spare = @ + 1]
        /\ UNCHANGED sent
  /\ IF Accepts(v)
     THEN /\ Remember(v)
          /\ hook' = [hook EXCEPT ![h] = [NoHook EXCEPT !.stage = "remembered", !.view = v]]
     ELSE UNCHANGED <<remembered, hook>>
  /\ UNCHANGED <<now, gh, contains, ticket, locks, scan>>

\* mergedPullRequestsForRepository and reconcilePullRequestChange.
ReadHistory(h) ==
  LET merged == Merged({remembered[p] : p \in {q \in Pulls : remembered[q] # None}})
  IN
  /\ hook[h].stage = "remembered"
  /\ hook' = [hook EXCEPT ![h].stage = "reconciled", ![h].merged = merged,
                          ![h].landed = Landed(merged, hook[h].view)]
  /\ UNCHANGED <<github, remembered, ticket, locks, scan, spent>>

BranchOf(h) == Head[hook[h].view.pull]

\* The tickets are written; a merge that landed goes on to those waiting for it.
Applied(h) ==
  IF hook[h].landed
  THEN [hook[h] EXCEPT !.stage = "landing", !.todo = {}, !.on = None,
                       !.front = {[branch |-> BranchOf(h), at |-> hook[h].view.mergedAt]},
                       !.visited = {BranchOf(h)}]
  ELSE NoHook

\* On with the tickets that are left.
Onward(h, todo) ==
  IF todo = {} THEN Applied(h)
               ELSE [hook[h] EXCEPT !.stage = "applying", !.todo = todo, !.on = None]

FindOwners(h) ==
  LET owners == {t \in Tickets : ticket[t].branch = BranchOf(h)}
  IN
  /\ hook[h].stage = "reconciled"
  /\ hook' = [hook EXCEPT ![h] =
                IF owners = {} /\ @.view.state # "closed" THEN [@ EXCEPT !.stage = "linking"]
                ELSE Onward(h, owners)]
  /\ UNCHANGED <<github, remembered, ticket, locks, scan, spent>>

Attached(b) == \E t \in Tickets : ticket[t].branch = b

\* Fault: the branch is looked for before the repository is locked.
LockUnchecked(h) ==
  LET v == hook[h].view
  IN
  /\ hook[h].stage = "linking"
  /\ lock[Names[v.pull]] = None
  /\ IF Accepts(v)
     THEN /\ lock' = [lock EXCEPT ![Names[v.pull]] = h]
          /\ UNCHANGED repoLock
          /\ Remember(v)
          /\ hook' = [hook EXCEPT ![h].stage = "attaching", ![h].on = Names[v.pull]]
     ELSE /\ hook' = [hook EXCEPT ![h] = Applied(h)]
          /\ UNCHANGED <<locks, remembered>>
  /\ UNCHANGED <<github, ticket, scan, spent>>

\* linkPullRequestWebhookToTicket: the locks of the ticket and of the repository, the
\* check that no ticket has the branch, and the claim.
LockToLink(h) ==
  LET v == hook[h].view
  IN
  /\ hook[h].stage = "linking"
  /\ lock[Names[v.pull]] = None
  /\ repoLock = None
  /\ IF ~Attached(BranchOf(h)) /\ Accepts(v)
     THEN /\ lock' = [lock EXCEPT ![Names[v.pull]] = h]
          /\ repoLock' = h
          /\ Remember(v)
          /\ hook' = [hook EXCEPT ![h].stage = "attaching", ![h].on = Names[v.pull]]
     ELSE /\ hook' = [hook EXCEPT ![h] = Applied(h)]
          /\ UNCHANGED <<locks, remembered>>
  /\ UNCHANGED <<github, ticket, scan, spent>>

\* The write of a ticket, and its time: a refresh sees by updatedAt whether it was written
\* since the index was read ("changed") and since the time of its answer ("late").
Save(t, e, scans) ==
  /\ ticket' = [ticket EXCEPT ![t] = e]
  /\ scan' = [s \in Scans |->
       [scans[s] EXCEPT !.changed = IF scans[s].stage = "idle" THEN {} ELSE @ \cup {t},
                        !.late = IF scans[s].cached \/ scans[s].stage \in {"fetching", "reconciling"}
                                 THEN @ \cup {t} ELSE @]]

\* A change of a ticket, if it is one.
Write(t, e, scans) ==
  IF e = ticket[t] THEN UNCHANGED ticket /\ scan' = scans ELSE Save(t, e, scans)

\* Fault: the locks are not given back.
KeepLocks(h) == UNCHANGED locks

Unlock(h) ==
  /\ lock' = [t \in Tickets |-> IF lock[t] = h THEN None ELSE lock[t]]
  /\ repoLock' = IF repoLock = h THEN None ELSE repoLock

Attach(h) ==
  LET t == hook[h].on
      v == hook[h].view
  IN
  /\ hook[h].stage = "attaching"
  /\ IF ticket[t].branch = None /\ ~ticket[t].off
     THEN Write(t, Patched(OnBranch(BranchOf(h)), v, hook[h].landed), scan)
     ELSE UNCHANGED <<ticket, scan>>
  /\ hook' = [hook EXCEPT ![h] = Applied(h)]
  /\ Unlock(h)
  /\ UNCHANGED <<github, remembered, spent>>

\* applyPullRequestWebhookToTicket: the lock and the claim ...
Claim(h, t) ==
  LET v == hook[h].view
  IN
  /\ hook[h].stage = "applying"
  /\ t \in hook[h].todo
  /\ lock[t] = None
  /\ IF Accepts(v)
     THEN /\ Remember(v)
          /\ lock' = [lock EXCEPT ![t] = h]
          /\ hook' = [hook EXCEPT ![h].stage = "writing", ![h].on = t]
     ELSE /\ hook' = [hook EXCEPT ![h] = Onward(h, @.todo \ {t})]
          /\ UNCHANGED <<remembered, lock>>
  /\ UNCHANGED <<github, ticket, repoLock, scan, spent>>

\* ... then the write.
WriteTicket(h) ==
  LET t == hook[h].on
  IN
  /\ hook[h].stage = "writing"
  /\ Write(t, WebhookPatch(ticket[t], hook[h].view, hook[h].landed), scan)
  /\ hook' = [hook EXCEPT ![h] = Onward(h, @.todo \ {t})]
  /\ Unlock(h)
  /\ UNCHANGED <<github, remembered, spent>>

-------------------------------------------------------------------------------
(* landMergesInto.                                                           *)

Waits(e, b) == e.state = "merged" /\ e.base = b /\ e.last # e.pull

\* On with the merges that are left, then with the branches that landed.
CarryOn(next) ==
  IF next.todo # {} THEN [next EXCEPT !.stage = "carrying"]
  ELSE IF next.front # {} THEN [next EXCEPT !.stage = "landing", !.base = None]
  ELSE NoHook

Awaiting(h, base) ==
  [hook[h] EXCEPT !.base = base, !.front = @ \ {base},
                  !.todo = {[ticket |-> t, branch |-> ticket[t].branch] :
                              t \in {u \in Tickets : Waits(ticket[u], base.branch)}}]

FindMergesAwaiting(h, base) ==
  /\ hook[h].stage = "landing"
  /\ base \in hook[h].front
  /\ hook' = [hook EXCEPT ![h] = CarryOn(Awaiting(h, base))]
  /\ UNCHANGED <<github, remembered, ticket, locks, scan, spent>>

\* Fault: a merge is carried on even if it came after that of its base.
PrecedesAny(h, e) == {v.mergedAt : v \in {w \in hook[h].merged : w.pull = e.pull}}

\* When the pull request of a ticket was merged, if that is known and was before the base.
MergedBefore(h, e) ==
  {v.mergedAt : v \in {w \in hook[h].merged : w.pull = e.pull /\ w.mergedAt < hook[h].base.at}}

\* landAwaitingMerge, under the lock of the ticket.
Land(h, m) ==
  LET e == ticket[m.ticket]
      rest == [hook[h] EXCEPT !.todo = @ \ {m}]
      lands == e.branch = m.branch /\ Waits(e, hook[h].base.branch) /\ MergedBefore(h, e) # {}
  IN
  /\ hook[h].stage = "carrying"
  /\ m \in hook[h].todo
  /\ m.branch \notin hook[h].visited => lock[m.ticket] = None
  /\ IF m.branch \notin hook[h].visited /\ lands
     THEN /\ Write(m.ticket, [e EXCEPT !.last = e.pull], scan)
          /\ hook' = [hook EXCEPT ![h] = CarryOn(
               [rest EXCEPT !.visited = @ \cup {m.branch},
                            !.front = @ \cup {[branch |-> m.branch, at |-> mergedAt] :
                                                 mergedAt \in MergedBefore(h, e)}])]
     ELSE /\ hook' = [hook EXCEPT ![h] = CarryOn(rest)]
          /\ UNCHANGED <<ticket, scan>>
  /\ UNCHANGED <<github, remembered, locks, spent>>

-------------------------------------------------------------------------------
(* Refreshes: listGitStates and reconcileGitStates.                          *)

\* The index is read first ...
ListTickets(s) ==
  /\ scan[s].stage = "idle"
  /\ scan' = [scan EXCEPT ![s].stage = "listed", ![s].index = ticket]
  /\ UNCHANGED <<github, remembered, ticket, locks, hook, spent>>

\* Fault: an answer is kept for good.
StartFetchOnce(s) ==
  /\ scan[s].stage = "listed"
  /\ ~scan[s].cached
  /\ scan' = [scan EXCEPT ![s].stage = "fetching", ![s].cached = FALSE, ![s].late = {},
                          ![s].left = Branches, ![s].views = NoViews]
  /\ UNCHANGED <<github, remembered, ticket, locks, hook, spent>>

\* ... then the time is noted, and then GitHub asked about one branch after another.
StartFetch(s) ==
  /\ scan[s].stage = "listed"
  /\ scan' = [scan EXCEPT ![s].stage = "fetching", ![s].cached = FALSE, ![s].late = {},
                          ![s].left = Branches, ![s].views = NoViews]
  /\ UNCHANGED <<github, remembered, ticket, locks, hook, spent>>

\* The pull request shown for a branch: an open one, or the one that changed last.
Selected(views, b) ==
  LET pulls == {p \in Pulls : views[p] # None /\ Head[p] = b}
      open == {p \in pulls : views[p].state = "open"}
      last == {p \in pulls : \A q \in pulls : views[q].at <= views[p].at}
  IN IF open # {} THEN CHOOSE p \in open : TRUE ELSE CHOOSE p \in last : TRUE

HasPull(views, b) == \E p \in Pulls : views[p] # None /\ Head[p] = b

\* pickBranchTicket: of the text of the open pull request, or of the name of the branch.
Picked(views, b) ==
  IF HasPull(views, b) /\ views[Selected(views, b)].state = "open"
  THEN Names[Selected(views, b)] ELSE Called[b]

\* The merges that are looked up: those of branches that have a ticket or give one, and
\* all that a ticket may be waiting for.
KnownMerges(index, views) ==
  LET all == Merged({views[p] : p \in {q \in Pulls : views[q] # None}})
  IN IF \E t \in Tickets, b \in Branches : Waits(index[t], b) THEN all
     ELSE {v \in all : \/ \E t \in Tickets : index[t].branch = Head[v.pull]
                      \/ Picked(views, Head[v.pull]) # None}

\* A ticket whose branch has no pull request is to stay as it is.
PlanFor(index, views, e) ==
  LET v == views[Selected(views, e.branch)]
  IN IF HasPull(views, e.branch) THEN Patched(e, v, Landed(KnownMerges(index, views), v)) ELSE e

\* Branches without a ticket that give t.
Candidates(index, views, t) ==
  {b \in Branches : Picked(views, b) = t /\ \A u \in Tickets : index[u].branch # b}

\* Those of them that are not stacked on another.
Bottoms(index, views, t) ==
  {b \in Candidates(index, views, t) :
     HasPull(views, b) => views[Selected(views, b)].base \notin Candidates(index, views, t)}

\* planTicketGitStates and planAutomaticBranchLinks: what t is to show.
PlanOf(index, views, t) ==
  LET found == Bottoms(index, views, t)
  IN IF index[t].branch = None /\ Cardinality(found) = 1
     THEN PlanFor(index, views, OnBranch(CHOOSE b \in found : TRUE))
     ELSE PlanFor(index, views, index[t])

\* What is known with the pull requests of b as GitHub has them.
Asked(s, b) == [p \in Pulls |-> IF Head[p] = b THEN gh[p] ELSE scan[s].views[p]]

\* The answer is there; it is kept for the next refresh.
Answered(s) ==
  [scan[s] EXCEPT !.stage = "reconciling", !.cached = TRUE, !.left = {}, !.todo = Tickets]

Fetched(s, b) ==
  /\ scan[s].stage = "fetching"
  /\ b \in scan[s].left
  /\ scan' = [scan EXCEPT ![s] =
       IF scan[s].left = {b}
       THEN [Answered(s) EXCEPT !.views = Asked(s, b)]
       ELSE [scan[s] EXCEPT !.views = Asked(s, b), !.left = scan[s].left \ {b}]]
  /\ UNCHANGED <<github, remembered, ticket, locks, hook, spent>>

\* ProjectStateCache: the answer of an earlier fetch, with its time.
Cached(s) ==
  /\ scan[s].stage = "listed"
  /\ scan[s].cached
  /\ scan' = [scan EXCEPT ![s] = Answered(s)]
  /\ UNCHANGED <<github, remembered, ticket, locks, hook, spent>>

\* GitHub refuses or does not answer.
FetchFails(s) ==
  /\ scan[s].stage = "fetching"
  /\ spent.failures < MaxFailures
  /\ spent' = [spent EXCEPT !.failures = @ + 1]
  /\ scan' = [scan EXCEPT ![s] = NoScan]
  /\ UNCHANGED <<github, remembered, ticket, locks, hook>>

\* Fault: only the row the plan was made from is compared.
CurrentByIndex(s, t) == t \notin scan[s].changed

\* The ticket is as it was in the index, and was not written since the time of the answer.
Current(s, t) == t \notin scan[s].changed \cup scan[s].late

\* The refreshes when s is done with t.
Without(s, t) ==
  [scan EXCEPT ![s] = IF @.todo = {t}
                      THEN [@ EXCEPT !.stage = "idle", !.index = NoIndex, !.changed = {}, !.todo = {}]
                      ELSE [@ EXCEPT !.todo = scan[s].todo \ {t}]]

\* Under the lock of the ticket, and that of the repository for a new branch.
Reconcile(s, t) ==
  /\ scan[s].stage = "reconciling"
  /\ t \in scan[s].todo
  /\ lock[t] = None
  /\ \E next \in {PlanOf(scan[s].index, scan[s].views, t)} :
       LET links == ticket[t].branch # next.branch
       IN /\ links => repoLock = None
          /\ IF Current(s, t) /\ (links => ~ticket[t].off /\ ~Attached(next.branch))
             THEN Write(t, next, Without(s, t))
             ELSE UNCHANGED ticket /\ scan' = Without(s, t)
  /\ UNCHANGED <<github, remembered, locks, hook, spent>>

-------------------------------------------------------------------------------
\* By hand: attachBranch, also of the branch of another ticket, and clearBranch.
ByHand(t, e) ==
  /\ spent.acts < MaxActs
  /\ spent' = [spent EXCEPT !.acts = @ + 1]
  /\ lock[t] = None
  /\ Save(t, e, scan)
  /\ UNCHANGED <<github, remembered, locks, hook>>

AttachBranch(t, b) == repoLock = None /\ ByHand(t, OnBranch(b))
ClearBranch(t) == ByHand(t, [NoEntry EXCEPT !.off = TRUE])

\* Handlers, locks and fetched states are lost; files and tables stay.
Crash ==
  /\ spent.failures < MaxFailures
  /\ spent' = [spent EXCEPT !.failures = @ + 1]
  /\ lock' = [t \in Tickets |-> None]
  /\ repoLock' = None
  /\ hook' = [h \in Hooks |-> NoHook]
  /\ scan' = [s \in Scans |-> NoScan]
  /\ UNCHANGED <<github, remembered, ticket>>

GitHub ==
  \E p \in Pulls, n \in Times :
    \/ \E base \in Bases : OpenPull(p, base, n) \/ RetargetPull(p, base, n)
    \/ ClosePull(p, n) \/ ReopenPull(p, n) \/ MergePull(p, n)

Handle(h) ==
  \/ ReadHistory(h) \/ FindOwners(h) \/ LockToLink(h) \/ Attach(h)
  \/ \E t \in Tickets : Claim(h, t)
  \/ WriteTicket(h)
  \/ \E base \in hook[h].front : FindMergesAwaiting(h, base)
  \/ hook[h].stage = "carrying" /\ \E m \in hook[h].todo : Land(h, m)

Refresh(s) ==
  \/ ListTickets(s) \/ StartFetch(s) \/ Cached(s) \/ FetchFails(s)
  \/ \E b \in Branches : Fetched(s, b)
  \/ \E t \in Tickets : Reconcile(s, t)

Next ==
  \/ GitHub
  \/ \E h \in Hooks : (\E v \in sent : Receive(h, v)) \/ Handle(h)
  \/ \E s \in Scans : Refresh(s)
  \/ \E t \in Tickets : ClearBranch(t) \/ \E b \in Branches : AttachBranch(t, b)
  \/ Crash

Spec == Init /\ [][Next]_vars

\* A handler runs on.  The project is opened again and again, not always within the 15
\* seconds an answer is kept, and the refresh this starts runs on.
Fairness ==
  /\ \A h \in Hooks : WF_hook(Handle(h))
  /\ \A s \in Scans :
       /\ SF_scan(StartFetch(s))
       /\ WF_scan(\/ ListTickets(s)
                  \/ \E b \in Branches : Fetched(s, b)
                  \/ \E t \in Tickets : Reconcile(s, t))

FairSpec == Spec /\ Fairness

-------------------------------------------------------------------------------
\* The types, and the locks: who holds one is about to write under it.
TypeOK ==
  /\ now \in Times
  /\ gh \in [Pulls -> Views \cup {None}]
  /\ contains \in [Bases -> SUBSET Pulls]
  /\ sent \subseteq Views
  /\ remembered \in [Pulls -> Views \cup {None}]
  /\ ticket \in [Tickets -> Entries]
  /\ lock \in [Tickets -> Hooks \cup {None}]
  /\ repoLock \in Hooks \cup {None}
  /\ hook \in [Hooks -> HookStates]
  /\ scan \in [Scans -> ScanStates]
  /\ spent \in [changes : 0..MaxChanges, spare : 0..MaxSpare, acts : 0..MaxActs,
                failures : 0..MaxFailures]
  /\ \A t \in Tickets : lock[t] # None =>
       hook[lock[t]].on = t /\ hook[lock[t]].stage \in {"attaching", "writing"}

\* A merged pull request that a ticket shows is not shown as open or closed again, nor as
\* not landed once it has, whatever comes late (planPullRequestWebhookTicket, the
\* comparison with fetchedAt in reconcileGitStates).
MergedStays ==
  [][\A t \in Tickets :
       /\ ticket[t].state = "merged"
       /\ <<ticket'[t].branch, ticket'[t].pull>> = <<ticket[t].branch, ticket[t].pull>>
       => ticket'[t].state = "merged" /\ (HasLanded(ticket[t]) => HasLanded(ticket'[t]))]_vars

\* A ticket that shows the base GitHub has is marked as landed only when the commits of
\* its pull request are on the default branch, in whatever order the merges of a stack
\* were made and are told (pullRequestLanded, landMergesInto).
LandsTruly ==
  [][\A t \in Tickets :
       LET e == ticket'[t] IN
       /\ HasLanded(e)
       /\ e.base = gh[e.pull].base
       /\ ~(HasLanded(ticket[t]) /\ e.pull = ticket[t].pull)
       => e.pull \in contains[Main]]_vars

\* The webhooks alone, late, doubled or out of order, never put a ticket back to an earlier
\* state of its pull request (rememberPullRequest, the claim under the ticket lock).
WebhooksGoForward ==
  [][\A t \in Tickets :
       <<ticket'[t].branch, ticket'[t].pull>> = <<ticket[t].branch, ticket[t].pull>>
       => ticket'[t].seq >= ticket[t].seq]_vars

\* "Cached observations cannot overwrite newer ticket metadata": a refresh does not put a
\* ticket back to an earlier state of its pull request (reconcileGitStates).
RefreshNeverGoesBack ==
  [][\A t \in Tickets :
       (\E s \in Scans : scan'[s].todo # scan[s].todo) /\ ticket'[t].pull = ticket[t].pull => ticket'[t].seq >= ticket[t].seq]_vars

\* "concurrent scans cannot claim the same branch": only by hand does a ticket get a
\* branch that another ticket has (linkPullRequestWebhookToTicket, reconcileGitStates).
AutomaticLinksAreExclusive ==
  [][\A t, u \in Tickets :
       /\ spent'.acts = spent.acts
       /\ ticket'[t].branch # ticket[t].branch
       /\ t # u
       => ticket'[t].branch # ticket'[u].branch]_vars

\* What a ticket shows is what GitHub has.
UpToDate(t) ==
  LET e == ticket[t] IN
  e.branch \in Branches /\ HasPull(gh, e.branch) =>
    LET v == gh[Selected(gh, e.branch)]
        views == {gh[p] : p \in {q \in Pulls : gh[q] # None}}
    IN /\ <<e.pull, e.state, e.base>> = <<v.pull, v.state, v.base>>
       /\ Landed(Merged(views), v) => HasLanded(e)

\* Once GitHub is quiet the tickets catch up with it, whatever webhooks were lost or came
\* late and whichever handlers died (listGitStates repairs what webhooks missed).
TicketsCatchUp == <>[](\A t \in Tickets : UpToDate(t))
===============================================================================
