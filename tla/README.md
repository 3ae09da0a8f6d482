# ProjectProject in TLA+

ProjectProject is a project manager whose tickets are markdown files: a Bun
backend written with Effect, a React frontend, and a command line `pp`. A
ticket is a file `tickets/<id>.md` with its fields in the front matter and its
comments in the text. Postgres holds what a file cannot: who belongs to what,
the activity of a project, the jobs of integrations, and indexes that mirror
the files so that they can be searched (`docs/PROJECTPROJECT.md`).

A write therefore touches two stores that fail separately, in a process that
may stop between them, while other handlers, repair scans, webhooks and
workflows work on the same tickets. These modules model that part: the code in
`packages/server-core`, and the integrations that feed on it. They say what
each component promises, check it on small instances with TLC, and prove most
of it with TLAPS for instances of any size.

## Contents

1. The system: its parts, their state, what is hard
2. The modules and the code they model
3. The runs: what each checks, its bounds, its fairness
4. The proofs
5. Where the code and its documents disagree
6. What is left out, and why
7. Plan

To check: `tlc -config X.cfg MCModule.tla` with the module that `PROJECT.json`
names for the run, and `tlapm Module_proofs.tla`.

## 1. The system

Paths without a package are under `packages/server-core/src`.

### How the parts interact

    HTTP / MCP / pp ──> commands (TicketCommands, Comments, Groups, TicketGit, ...)
                            │ under the keyed locks of the process (KeyedLock)
                            ▼
      documents (TicketDocs, GroupDocs) ──> activity outbox (TicketActivity)
            │ the file first                    │ activity rows + integration events
            ▼                                   ▼
      markdown files                      Slack, Everhour: jobs, workflows
            │ then its row
            ▼
      ticket index  <── reconciliation at boot, repair queue, rebuild
            ▲
      GitHub webhooks, refreshes of Git state ──> ticket documents

`KeyedLock` is a map of semaphores with one permit, in memory: `ticketDocument`
and `ticketWrite` for a ticket, `groupFiles` for the groups of a project,
`libraryLayer`, and `repositoryBranch`. A holder that asks again waits for
itself. Membership uses row locks and a deferred trigger of Postgres instead.

### Inventory

| component | state it keeps | operations | what is hard | what makes it correct |
|---|---|---|---|---|
| Activity outbox (`activity/`) | `ticket_activity_outbox`, `ticket_activity`, `project_integration_event` | record, settle, commit, discard, removeTicket, recover at boot | file and database fail separately; a crash in between; lost answers of a commit | an activity or event stands for a write that landed; each is published once, in the order of the writes; a landed write is not forgotten |
| Ticket and group documents (`tickets/TicketDocs.ts`, `groups/GroupDocs.ts`, `markdown/`) | files; two locks of a ticket, one of the group files | read, create, update, write, remove | a ticket file is replaced by rename, a group file is overwritten in place; the locks differ by operation | no acknowledged write is lost to another writer |
| Ticket commands (`tickets/TicketCommands.ts`, `ticketPatch.ts`) | the requests under way; `next_ticket_number` | create, update, assign, bulkUpdate and its way back, split, remove | two locks; bulk changes taken back when a later one fails | undoing one change leaves those of others; numbers are not used twice |
| Ticket index (`tickets/TicketIndex*.ts`) | `ticket_index`, `comment_index`; queue of repairs in memory | publish a row, reconcile at boot, repair, rebuild | scans read files without a lock and write later; the queue dies with the process | once nothing is under way the rows say what the files say |
| Comments (`comments/`) | blocks of the file; `comment_index` | create, edit, remove | row before file; `updatedAt` does not change | every comment in a file is listed |
| Project and org members (`projects/ProjectMembers.ts`, `apps/backend/src/auth`) | `member`, `project_member`, `project_index` | add, change role, remove, leave, invite, create, delete a project | transactions that lock projects against a cascade that locks nothing | a project keeps a PM; who leaves the org leaves its projects |
| Slack (`packages/integration-slack`) | `slack_notification`, durable workflows | consume events, dispatch, attempt, finish | crash between message and record, lost answers, links and sprints that change meanwhile | what is recorded is true; every event ends |
| Pull requests (`github/`, `git/`) | Git fields of tickets, `github_pull_request_reconciliation` | webhook, link, claim, land, refresh, attach, clear | webhooks late, doubled, lost; cached answers; stacks whose merges land later | a ticket goes forward, is not marked as landed too early, and catches up |
| Git state and GitHub connection (`packages/integration-github`) | installations, a cache of Git state (15 s) | verify and decode webhooks, fetch states | answers older than what webhooks already wrote | a cached answer keeps its time |
| Groups (`groups/Groups.ts`) | group files with the ids of their tickets | create, update, change the tickets, reorder, complete, remove | a move is a write of one file after another; commands take the lock of the groups and those of tickets in turn and take back what they did | a ticket is in one open sprint at most; what is listed exists; nobody waits in a circle |
| Attachments (`attachments/`) | `attachment_index`, `attachment_reference`, `project_image_reference`, objects in the bucket | prepare, put, commit, delete, refer to an image, reconcile the references of a ticket, orphan, hash, dedupe, reap | no transaction spans two statements, none a statement and the bucket; attachments that share an object; the reaper against a new reference | what is referred to is not left to the reaper; what is served has its object; what nobody wants goes |
| Library (`library/`) | a tree of documents per layer | create, move, remove, under one lock | names and cycles | a tree |
| Feedback (`feedback/`) | outbox, workflow of 16 attempts | accept, deliver, remove attachments | as Slack | every report ends |
| Everhour (`packages/integration-everhour`) | sync requests, cached time | mark stale, sync | a sweep against a request | the last change is synced |
| Jira migration (`packages/integration-jira`, `apps/backend/src/jira`) | the row of `jira_migration`, executions of two durable workflows, staged objects, a hidden project | scan, configure, run, publish, cancel, rescan, discard, retain, clean up | every step of an execution against every command; failures of units that wait for one answer; writes that land after their caller gave up | visible exactly when it succeeded; a cancellation stands; a removal leaves nothing; an answer to a failure reaches who waits |
| Projects, tags, statuses (`projects/`, `tags/`) | one project file, `project_index` | edit under a row lock | the file is written after the row | row and file agree |
| Figma, storage, users, bots, OAuth, email, link previews | settings, caches | calls to other services, single rows | failures of the service | none that spans steps |
| Access (`packages/access`) | none | tables of policies | none | tested exhaustively in the repository |
| Entry points, frontend, `pp`, schemas | sessions, views | decode, check access, call | none of their own | the components they call |

`PROJECT.json` lists each with its sources and status, and under `hazards` the
places in the code where a test would hardly reach what can go wrong.

## 2. The modules and the code they model

`PROJECT.json` maps each definition to the lines it stands for. The names of
actions are those of the source where TLA+ allows it. Definitions marked
"Fault" are not part of any specification: each is a mistake the code could
have made, used to see that a property notices it.

### ActivityOutbox, RecordedWrites

`ActivityOutbox` models `TicketActivity.record` as `TicketDocs` and `GroupDocs`
call it. A handler (`Writers`) takes the lock of its document, settles what
earlier writers left in the outbox by comparing hashes with the file
(`SettleOne`), inserts its batch (`Prepare`), writes the file, and commits
(`Commit`) or discards (`WriteFails`). Each step can fail in the ways the code
has: the request is interrupted (`Interrupt`), the write fails and so does the
discard (`DiscardFailed`), the commit goes through unnoticed and is tried again
(`CommitUnacknowledged`), or is given up (`CommitGivesUp`). `Crash` may come
anywhere, and `RecoverOne` settles every batch before requests are served.

A ticket file is replaced at once (`WriteAtOnce`, a rename); a group file is
truncated and written in place (`Truncate`, `FinishInPlace`), so that a crash
leaves `Torn`. A text stands for its hash. Texts of tickets never repeat
because they contain `updatedAt`; texts of groups may. `BulkWrite` and
`BulkRevert` are `TicketCommands.bulkUpdate` as the outbox sees it: writes that
have no batch, and the way back to an older text.

`RecordedWrites` is what the outbox promises: a write is announced, lands, and
is published once and in order, or never lands and is dropped. `PromiseKept`
says that the outbox implements it, with its rows as `pending`.

### TicketStore

The files and rows of one project. A request goes through the stages of its
kind: `create` reserves a number and creates the file; `edit` takes
`ticketDocument`, then `ticketWrite`; `unassign` and `comment` take
`ticketWrite` alone; `bulk` takes `ticketDocument` alone, and may take its
change back (`ReadUndo`, `RevertTicketPatch`); `remove` deletes the file and
then the row. A row is published after the file, and a publication that fails
queues a repair (`Outage`).

The three scans share their steps (`TicketIndexMaintenance.reconcileProject`):
note the rows (`StartScan`), list the files, read them one by one without a
lock, look for drift, and merge what was read into the rows
(`WriteProjectIndex`: drop rows whose file is gone unless they changed, keep
rows newer than what was read, replace the rest, move the ticket counter).

A document is the set of the requests whose change it holds, with its time and
its comments: that is what lost updates, stale rows and lost comments are
about. Simplifications: one project; a request changes one ticket, once;
patches of different requests touch different fields, so that a way back
restores its own; times of updates strictly increase (the code compares
milliseconds); `writeProjectIndex` is one transaction and one step; the retries
of a publication and the pauses of the repair loop are the bound `MaxOutages`.

### ProjectMembers

Org roles, project roles and the requests that change them. A handler locks
the project's row (`Lock`), checks who may be removed or demoted (`CheckRole`)
and writes (`WriteRole`). A departure deletes the member row and, by cascade,
the project rows (`DeleteMember`), and at its commit the deferred trigger
`project_keeps_a_pm` locks each project in turn (`Trigger`) or aborts.
Transactions are READ COMMITTED, so the variables hold what is committed and a
statement sees what is committed when it runs. A guest counts as a member and a
developer as a client, since no rule here tells them apart; who may ask for
what (`packages/access`) is left out, so anybody may ask for anything.
better-auth itself is external.

### SlackDelivery

One link of a project to a channel. `Enqueue` consumes events and inserts jobs
in one transaction; the dispatch loop starts a workflow per job (`Execute`) and
marks it (`MarkDispatched`); an attempt looks at the job, the link and the
sprint, sends, and finishes the job. `Crash` loses the loop and the attempts
under way, and the engine repeats an attempt under the same number unless its
outcome was recorded. A message may be posted though the answer is lost; Slack
is given the id of the job, so that posting twice is posting once. Pauses
between attempts and the wording of messages are left out.

### PullRequests

GitHub (`OpenPull`, `RetargetPull`, `ClosePull`, `ReopenPull`, `MergePull`)
changes pull requests and sends a webhook for each change, which may be lost,
late, doubled or overtaken: `sent` is a set, and nobody need receive what is in
it. `contains` is a history of what each branch got by merges.

A handler records the view it was sent unless it knows a later one
(`Remember`), reads the merged pull requests (`ReadHistory`), decides whether
this one landed (`Landed`, over the chain of bases), finds the tickets of the
branch (`FindOwners`), or links a ticket that is named (`LockToLink`,
`Attach`). It claims each ticket under its lock (`Claim`), writes it
(`WriteTicket`), and after a merge that reached the default branch carries on
to the merges that waited for it (`FindMergesAwaiting`, `Land`).

A refresh (`ListTickets`, `StartFetch`, `Fetched`, `Reconcile`) notes the
tickets, notes the time, asks for one branch after the other, and writes each
ticket that has not changed since. An answer is kept, with its time, and may
be given again (`Cached`). `AttachBranch` and `ClearBranch` are made by hand. A
branch gives a ticket (`Picked`) by the text of its open pull request or by its
own name (`Called`), also when its pull request is merged or closed or there is
none, and a ticket with no branch is linked to the lowest of the free branches
that give it, if only one is lowest (`Candidates`, `Bottoms`).

`changed` and `late` of a refresh hold the tickets written since it listed them
and since the time of its answer: they stand for the comparisons of `updatedAt`
in `reconcileGitStates`. `seq` numbers the changes of a pull request; the code
does not know it, and only properties read it. Simplifications: a ticket has
one branch and no stack of further ones; branches exist throughout; its file
and row change together (the lock is held across both, and TicketStore has them
apart); times are seconds, as in webhooks; the cache may answer whenever it has an answer, which covers
when webhooks invalidate it.

### GroupMembership

The tickets of the groups of one project, and the commands that change several
files. `file` and `text` are the ticket files, `group` the group files with a
status and a set of tickets, `groupLock` and `docLock` the locks. A request
(`req`) has its `op`, its stage `at`, and the call of `Groups` it is making.

A call of `Groups` waits for the lock of the group files, reads them, refuses or
plans (`CreateGroup`, `UpdateGroup`, `ChangeTickets`, `Complete`,
`RemoveGroup`, `UpdateTicketOrder`, `SetSprintMembership`,
`RemoveTicketFromAllGroups`), and then writes one file per step (`WriteGroup`):
first those in `plan.now`, then those in `plan.next`. It may fail or be
interrupted before, between and after the files (`GroupCallFails`); only a
creation takes back what it did (`RollBackCreation`), and that may fail too.

`bulkUpdate` takes the locks of its tickets in order (`LockTicket`), reads all
of them, writes those that change (`WriteNext`), gives the locks back, and then
moves the tickets: into one sprint, or out of each in turn (`LeaveSprint`). When
that fails they go back (`Rejoin`), the locks are taken again, and each ticket
loses the change (`Revert`). `split` writes the new ticket and the old one under
one lock (`WriteNew`, `Retain`), assigns their sprints without it
(`AssignNew`), and on failure undoes the sprints as far as it goes
(`UndoSprints`), removes the new ticket (`Discard`) and writes the whole old one
back (`Restore`). `moveInGroup` may write a ticket under its lock while it holds
that of the groups; `remove` takes the ticket out of the groups, then removes
the file.

A text is the set of the requests whose change it holds, so a lost or a leftover
change is visible. The directory of group files is read in one step, also where
the code reads it without a lock (`groups.list` before a bulk update and a
split). Three histories delimit what is claimed, each for a case of section 5:
`torn` (tickets of a call that stopped between its files, or of a sprint that
was opened again), `haunted` (tickets that went although somebody had looked for
them and listed them, or was about to, and those that `setSprintMembership`,
which does not look, listed when they were gone) and `overwritten` (tickets that
the way back of a split wrote or removed without their lock). `relisted` only
serves `haunted`: the tickets that were listed again after a removal had cleared
the lists and before it removed the file. A call that looks for its tickets is
in no history: one that listed a missing ticket would break the property, and
so it does in the fault `ValidatedNothing`. Left out: the order of the tickets, the dates of sprints, epics,
permissions, sub-tickets, more than one new ticket per split, and the lock
`ticketWrite` but for the writer of one ticket (`Writing`); TicketStore has it.

### Attachments

The rows, objects and references of the attachments of one project. No lock
and no transaction spans two statements here, so a step is one statement or one
call to the bucket. A request (`call`) is a commit (`Commit`, `HeadObject`,
`Reject`, `FindTwin`, `CommitRow`), a deletion (`Delete`, `Claim`,
`CheckSharers`, `DeleteObject`) or a change of the banner (`SetBanner`,
`ReferToImage`, `ImageIsLive`, `OrphanOldImage`); the end of a project is
`RemoveProject` and `OrphanUnreferenced`. `writer` is the reconciliation that
follows the write of a ticket under its lock: plan the references, remove, add,
plan the statuses, orphan, revive. `loop` is the hourly loop: hash, let
attachments of the same content share the object of the first, then delete what
was pending or orphaned for long, row first and object last.

`Content` says which attachments are alike (the code compares SHA-256 and size);
an object is named after the attachment it was put for, and a row points at it
with `key`. `due` stands for the comparisons with the clock. Two histories
delimit what is claimed: `late`, the attachments that took an object when its
end was decided, and `cut`, the references whose reconciliation stopped half
way. Left out: uploads that go through the backend (`AttachmentUploads.receive`
puts and commits in one request), icons of a project, listing and serving, and
the batches of 200 rows in which the loop hashes.

### JiraMigration

One row of `jira_migration`, and everybody who fences himself by it. `flow` has
the executions of the migration workflow by idempotency key, one per attempt:
the units of a scan, stored side by side (`BeginUnit`, `SettleUnit`,
`RecordScanProgress`, `CompleteScan`), the wait for the user, the preparation
and the import (`BeginImport`, `EnsureHiddenProject`, `CopyAttachment`,
`InsertAttachment`, `WriteHiddenDocuments`, `VerifyHiddenMaterialization`), the
transaction that publishes (`PublishJiraMigrationAtomically`), and the
finalizers. A unit that fails records a numbered failure, waits for its answer,
and decides in `ResumeScan` or `ResumeImport` whether it is the one meant.
`cleaning` has the executions of the cleanup workflow: claim, one action per
stage, complete or release. The commands of the user are `Configure`, `Run`,
`Cancel`, `Rescan`, `Remove`; those of the retention are `Remove` and
`RetainPublished`.

`rev` is the revision, which every write of the row but the intent and the
hidden project bumps; `writes` is the intent that is recorded before a remote
write and cleared after it; `flying` has the puts that may still land though
nobody waits for them. A parameter `lost` is an answer that does not arrive
after the statement took effect. `Crash` loses the handlers and puts every
activity back to where the engine runs it again. The engine and the bucket are
external. Left out: the data of the plan (`PublicationPlan.ts`, a pure
function), decoding, the corrections of failed attachments, the pauses of rate
limits, OAuth, and the earlier tries of an execution that was suspended.

## 3. The runs

Deadlock is checked except where requests, changes or time run out, and then
the system rightly stops: the cfg says so with `CHECK_DEADLOCK FALSE`.

| run | distinct states | checks |
|---|---|---|
| `outbox_core` | 650 000 | `PublishedOnlyLanded`, `LandedNeverLost`, and the refinement `PromiseKept` |
| `slack_delivery` | 790 000 | `DeliveredWasPosted`, `NotBeforeStart`, `EndIsRecorded`, `OutcomeStands`, and `EveryEventEnds` under fairness |
| `members` | 155 000 | `ProjectKeepsAPm`, `MembersBelongToOrg`, `LockedCheckDecides` |
| `store_core` | 1 470 000 | `IndexMirrorsFiles`, `NumbersAreNotReused`, `NoLostUpdate`, `RowsGoForward` |
| `store_catches_up` | 150 000 | `EveryRequestEnds`, `IndexCatchesUp` under fairness, with a counter behind the files |
| `pulls_webhooks` | 1 780 000 | `TypeOK`, `LandsTruly`, `WebhooksGoForward`, `AutomaticLinksAreExclusive` |
| `pulls_refresh` | 155 000 | `MergedStays`, `RefreshNeverGoesBack`, and `TicketsCatchUp` under fairness |
| `groups_moves` | 1 540 000 | `TypeOK`, `AtMostOneSprint`, `ListedTicketsExist`, `NoCircularWait`, `FailedLeavesNothing` |
| `attachments_references` | 230 000 | `TypeOK`, `ReferencedIsLive`, and `UnwantedGoes` under fairness |
| `attachments_objects` | 1 180 000 | `CommittedHasObject` |
| `jira_safety` | 750 000 | `TypeOK`, `VisibleIffSucceeded`, `NothingLeftBehind`, `CancelSticks`, `SupersededIsPowerless` |
| `jira_served` | 177 000 | `WritersHoldTheRow`, and `RunIsServed` under fairness |

Properties that follow from these, or are proved and gain nothing from an
instance, are in no run: `ActivityInWriteOrder` and `OnePendingPerDocument`
follow from `PromiseKept`, `ConsumedIsQueued` and `SendsOnlyUnfinished` are
theorems of `SlackDelivery_proofs`; and the type invariants of
`ActivityOutbox`, `TicketStore`, `ProjectMembers` and `SlackDelivery` are proved.

### Bounds, and why they are enough

* `outbox_core`: two handlers are needed for one to settle what the other left;
  three writes let a failed write be followed by one that settles it and one
  that settles that; a ticket and a group bring both ways of writing and both
  locks; the ticket is open to bulk updates, the group is not, so the
  exceptions of `LandedNeverLost` do not empty it. Crashes have no bound. The
  rest of the question, any number of handlers, documents and writes, is
  answered by the proofs.
* `slack_delivery`: one event, since jobs share nothing but the loop; three
  attempts, so that there is a first, a middle and a last one (the code has
  13); two ticks, so that a sprint can be moved forward and back; two crashes
  and two changes, so that one can follow another.
* `members`: two users are the least for "the last PM" and for one who removes
  the other; two projects let a cascade wait for one lock while it holds
  another; two handlers race.
* `store_core`: two requests of any kind race on one ticket or number, with two
  scans in flight, one of which may be old when the other ends, a rebuild and a
  failed publication. A crash ends requests and scans and loses the queue; it is
  in `store_catches_up`, and in the proofs, which have any number of requests,
  scans and crashes.
* `store_catches_up`: two outages, so that a repair can fail as well as the
  publication that asked for it.
* `pulls_webhooks`: two pull requests, one stacked on the other, are the least
  for a merge that lands later; two handlers at once, three changes (the
  upper one is opened, and both are merged, or one of them is retargeted,
  closed or reopened), one webhook delivered twice and one act by hand.
  No refresh runs here: `WebhooksGoForward` is about webhooks alone. After a
  refresh a late webhook can put a ticket back to an earlier open state until
  the next refresh, because a refresh leaves nothing in the table of claims.
* `pulls_refresh`: a handler and a refresh with its cache, two changes, one
  crash or failed fetch. The name of one branch gives the ticket, that of the
  other does not, and both pull requests name it, so that a refresh links by
  name and by text. Both are open at the start; with `OpenAtStart <- MCLater`
  one is opened later, and a refresh may link its branch before (90 000 states,
  and the same properties hold).
* `groups_moves`: two sprints are the least for a move, three tickets for a
  split beside another ticket; two tickets at the start, in one sprint or in one
  each; a second group can be created when there is one. Two requests of any of
  the twelve kinds meet, one of which may fail, be interrupted or end in a crash
  at any step, so that the way back of one meets the steps of the other. With
  two requests a circle of waiting has length two at most; more requests take
  the same two kinds of locks.
* `attachments_references`: one attachment, since references of different
  attachments share only the statement that inserts them; two tickets, so that
  one may begin to refer while the other stops; three writes, so that a ticket
  refers, stops and refers again; a failure or a crash anywhere.
* `attachments_objects`: two attachments are the least that share an object, one
  of them an image, which is orphaned although it is served; two requests at a
  time and four in all, so that a commit, a deletion, a banner and the end of a
  project meet the loop. Tickets are left out here: objects go by rows and not
  by references.
* `jira_safety`: one page, two attempts (the second supersedes the first), three
  commands, and one failure, lost answer or crash anywhere. Two attempts are
  enough for what is claimed of superseded ones, and the proofs have any number.
* `jira_served`: two pages, which fail one by one while one answer is awaited,
  with two failures and two commands; one attempt.

Both attachment runs have `Repeats = FALSE`: a commit is asked for once. A
repeat that overtakes its own first try is a case of the disagreement on twins
in section 5.

### Fairness, and why the code justifies it

* `SlackDelivery`: weak fairness of the clock, of `Enqueue`, and of `Execute`
  and `Attempt` per job. The loop repeats every two seconds
  (`integration-slack/src/Runtime.ts`), and the durable engine resumes a
  workflow until it has its result. `MarkDispatched` needs none: a job that is
  not marked is executed again, which the engine recognizes by its id. Crashes,
  failures and changes are not fair.
* `TicketStore`: strong fairness of the steps of a request that has begun,
  because the waiters of a semaphore form a queue and every holder gives its
  permit back; weak fairness of the boot, of the repair loop (every five
  seconds) and of scans that run. Nobody need begin a request or ask for a
  rebuild, and failures are bounded, since a database that never answers again
  defeats any promise.
* `PullRequests`: weak fairness of the steps of a handler and of a refresh, and
  strong fairness of `StartFetch`: an assumption about people, that a project
  is opened again and again and not always within the 15 seconds an answer is
  kept. The frontend asks when a view is opened and does not poll; a ticket
  whose webhook was lost stays as it is until somebody looks.
* `Attachments`: weak fairness of time, of the hourly loop as a whole, and of
  requests and reconciliations that have begun. The loop repeats for ever and
  logs what fails (`Attachments.ts:1132`). Nobody need upload, commit, delete
  or write anything, and failures are bounded.
* `JiraMigration`: weak fairness of a put that is under way, and of the steps of
  the execution of each attempt: the engine resumes an execution until it has
  its result. Commands and cleanups are not fair.

## 4. The proofs

Proofs are in modules of their own. Each assumes only what the named `ASSUME`
of its component says of the constants (that bounds are numbers, that sets are
disjoint, that `None` is nothing else), which TLC evaluates in the runs. None
assumes that a set is finite or that a bound is large, with one exception,
`NobodyWaitsForEver`. What a theorem assumes beyond that is said below.

**ActivityOutbox_proofs.** `TypeCorrect`, `OnlyLandedIsPublished`,
`ActivityFollowsWrites`, `AtMostOnePending`, `LandedIsKept`, and
`OutboxImplementsRecordedWrites`. None of the properties is inductive: whether
a batch may be published is decided by a hash, so the invariant has to say what
a hash can be trusted for. `OutboxInv` adds

* `LockHeld` and `Stage`: one handler per document, and what it owes at each
  label (all pending batches of its document are in its `todo` while it
  settles, and only its own remains when it writes);
* `Numbered`: numbers of batches are used once;
* `NoPhantom`: a file, a copy a handler read, or a text a bulk update may
  restore is equal to that of a batch only if the batch landed;
* `Younger`: a batch is younger than all that is published of its document,
  from which the order follows;
* `Booting`: handlers and recovery do not run together.

The steps are first sorted into a few classes (`StepClasses`: a batch is
inserted, lands, is committed, is discarded, ...), and each property and the
step simulation of the refinement go over the classes, not over the actions.

**TicketStore_proofs.** `StoreTypeCorrect`, and, unless the counter is behind the
files (`~Behind`), `IndexIsMirrored`, `NoUpdateIsLost`, `RowsOnlyGoForward` and
`NumbersStaySpent`, for requests of all six kinds. `~Behind` is needed: TLC
finds each of the four violated with a counter behind the files and three
requests that create, edit and remove, because a number that is handed out again goes to a
ticket with a time from before the last change of the one it replaces.
`StoreInv` is `Numbers, Places, Writers, Drafts, Times, RowsBehindFiles,
ScansBehindFiles, ScanStages, Covered, Acknowledged, Found`. Its heart is
`Covered`: a row that differs from its file while nobody is about to publish it
and no repair is queued is covered by the boot or by a running scan that is
going to see it. That a scan's write keeps it needs rows and scans to be behind
the files, and equal to them when not older, which in turn needs one writer per
ticket and a draft to be a change of the file as it is. A bulk update takes one
of the two locks, so it waits for an edit or a removal (which take both) and
not for a comment, an unassignment or a creation (which take the other); and
its way back moves `updatedAt` backwards. The properties claim nothing of a
ticket that is `Raced` or `TakenBack` (section 5), but neither condition can be
put into the invariant as it is: `Raced` counts a creation by the number it has
reserved, which it may have to give up. `Crossed` counts it once the ticket is
its own; it implies `Raced` and, like `TakenBack`, is never over
(`CrossedStays`), so that the parts of the invariant about one ticket can be
claimed of tickets that are `Clean` (rows, scans, `Covered`) or not `Crossed`
(drafts, acknowledged changes). Where writers do not cross, any two of them
wait at one of the two locks (`OneWriter`). What must hold of every ticket, that
who is about to write, or to write back, has a file to write to, is `Found`.

**ProjectMembers_proofs.** `MembersTypeCorrect`, `AlwaysAPm`,
`ProjectRolesEndWithOrgRole` and `LockedCheckIsFinal`, from `MembersInv`, which
adds who holds each lock and why (`LockHeld`), and that a project whose trigger
has passed keeps another PM until the commit (`Cleared`). The trigger does not
see what a concurrent request is about to write; the locks make it unnecessary,
and this is the argument.

**SlackDelivery_proofs.** `SlackTypeCorrect`, `NoEventIsLost`,
`DeliveryIsReal`, `FinishedIsNotSent`, `StartsWait`, `NoSilentEnd`,
`OutcomesStand`, for any number of events, attempts, crashes and changes. The
invariant says what an attempt that is repeated may rely on: before it finishes
a job as delivered the message was posted (`Grounded`), and an attempt whose
outcome is recorded finds the job finished (`Ended`).

**JiraMigration_proofs.** `TypeCorrect`, `PublicationIsTheRow`,
`RemovalIsComplete`, `CancellationSticks`, `StaleExecutionsAreFenced`, for any
pages, attempts, commands and failures. The invariant `Inv` is `TypeOK, Row,
RescanTyped, Gone, Bound, Undone, VisibleIffSucceeded`. The argument: what is
imported is imported under a row that has reserved its destination and is held
by no cleanup (`Bound`), so a row without a destination leads to nothing; a
cleanup that holds the row has undone what its past stages delete (`Undone`),
because whoever could bring it back is fenced by the claim; so the row that a
removal deletes has nothing left (`Gone`). The steps that touch none of this are
dealt with once (`Kept`).

`WritersAreNamed` proves `WritersHoldTheRow` of the behaviours in which a row is
never created, or created again after a removal, under an execution that still
writes or imports (`CreatedOverNobody`). Its invariant `Held` says that the row
has moved on since each of its executions was asked for (`Asked`), and of each
execution (`Fine`): it is at work only as the current one, or the row is past it
and can never install it again (`Late`); it has written nothing before it
started (`Untouched`); it is inside one write at a time (`OneWriter`), named by
the intent of the row (`Named`), and imports under the gate that let it through
(`Imports`). The hypothesis is needed, because a row that is created again counts
its revisions from the start, so that an attempt of the old row can be asked for
anew: section 5 tells how.

**Attachments_proofs.** `AttachmentsTypeCorrect`, `WhatIsReferredToIsLive`,
`WhatIsServedIsThere`, for any attachments, tickets and requests; the last
assumes `Repeats = FALSE`. For references, `InHand` says that a reference whose
attachment is orphaned is in the hands of a reconciliation that has not decided
yet. For objects, `OnceEach` (one commit at a time per attachment), `Alone`
(an attachment that shares its object with nobody is found so by whoever
deletes it), `RepointsOld`, `NoneLeft` and `ImagesOld` (what the loop and the
deletions noted is still what the rows were when they noted it, or the
attachment is in `late`). The lemmas ending in `Steady` dispose of the steps
that change nothing a conjunct reads.

**GroupMembership_proofs.** `TypeCorrect`, `NobodyWaitsForEver`,
`ListedTicketsThere`, `FailedLeavesNothingEver` and `AtMostOneSprintEver`, for
any tickets, groups and requests of the twelve kinds. None of the properties is
inductive, since a command works over many steps on what it read at first. The
invariants say what a request may rely on at each stage:

* `LockInv` (part of `TypeInv`): which locks a request holds follows from its
  stage, and it has locked the tickets of its list in order, so that it waits
  for a higher ticket than those it holds. Of requests that wait in a circle
  one would wait for the highest ticket that is locked among them; that there
  is a highest is why this theorem, alone, assumes that the tickets are among
  `0..n`;
* `ListInv`: each list, and each that is kept to be restored, names tickets that
  are there or in `haunted`; so does the plan of whoever holds the lock of the
  groups, since it looked for them under that lock (`Found`), but for
  `setSprintMembership`. While a removal clears the lists, those it has written
  name the ticket no more, and the plan of what is left puts it nowhere
  (`Cleared`); once they are cleared, a list that names it again is noted in
  `relisted` (`Gone`). `Unplanned` adds that there is a plan only under the lock;
* `FailInv`: a change of a bulk update that is in a file is in the hands of the
  request, to be taken back, unless another one's way back wrote over it; the
  copies a request keeps do not contain more than they should;
* `OneInv`: while the lock of the groups is free, each ticket that is not
  `torn` is in one open sprint at most; while it is held, the plan of the holder
  says which sprints a ticket can still be in before and after each write
  (`OnePlan`).

**PullRequests_proofs.** `TypeCorrect`, `LinksAreExclusive`,
`RefreshGoesForward` and `MergesStay`, for any handlers and refreshes;
`WebhooksNeverGoBack` and `WebhooksLandTruly` for webhooks without refreshes
(`Scans = {}`, which is what these two properties are claimed of, and the
setting of `pulls_webhooks`); and `LandsTrulyWithoutLateBases`, with refreshes,
for behaviours in which no webhook from before a merge brings another base to a
ticket that shows the merge (`NoLateBase`). The invariants:

* `Past`: whatever is on its way, remembered, held, fetched, cached or shown
  was so on GitHub, and a merge is the last that happens to a pull request;
* `LinkInv`: who is about to link a branch under `repositoryBranch` finds it
  with nobody;
* `AnswersAreNew`: the answer of a refresh is at least as new as every ticket
  not written since it was asked for, which is why the tickets noted in `late`
  are the only ones it has to leave alone;
* `ForwardInv` (`InOrder`, `Guarded`, `Claimed`): of two views of a pull
  request the one with the later time is the later, and what the table of
  claims would still accept is not older than what a ticket shows, or than what
  a handler holds for it. Times are seconds, so two different changes within
  one second are told apart by the table alone; `NotBefore` says how;
* `CommitsFlow` (what a branch contains, in terms of merges, their bases and
  times) and `LandInv`: the branches a handler carries on from are merged into
  the default branch, and so is what a ticket shows as landed.

That a ticket lands truly follows from `BaseTrue`, that merges are shown with
their bases. It holds without refreshes (`AlwaysBased`), and this gives
`WebhooksLandTruly`. With them it fails in one way, the first disagreement on
pull requests in section 5, and in no other: `NoLateBase` excludes this one write
of a handler and leaves everything else as it is, webhooks that come late among
it (`BasesStayTrue`).

Only model-checked:

* liveness (`EveryEventEnds`, `EveryRequestEnds`, `IndexCatchesUp`,
  `TicketsCatchUp`, `UnwantedGoes`, `RunIsServed`): the prover does not reason
  about fairness and `ENABLED`.

Every other property of a passing run is stated by a theorem. Four of the
theorems' hypotheses are about more than types and bounds: `~Behind` of the
ticket store, `Repeats = FALSE` of the attachments, `NoLateBase` (or no
refreshes) of pull requests, `CreatedOverNobody` of the Jira migration. The first is
explained above, the others by the disagreements in section 5. The last holds in
every behaviour within the bounds of `jira_safety` and `jira_served`, and fails
with three attempts.

## 5. Where the code and its documents disagree

No run ends in a violation: each property is claimed for what the code does, and
what the code does not do is told here, with the way to see it in the models.

**Tickets.**

* A bulk update writes a whole document under `ticketDocument`, and a comment
  takes only `ticketWrite`; a comment acknowledged after the bulk update read
  the file is erased. `docs/integrations/github-reference.md:88` speaks of
  shared ticket locks "covering the read, markdown write, and index update". To
  see it: `NoLostUpdate` of `TicketStore` with `Kinds = {"comment", "bulk"}`.
* A rebuild that read a ticket before a comment replaces the comment's row
  (`TicketIndexMaintenance.ts:431`), and since a comment does not change
  `updatedAt` no later scan notices. `docs/PROJECTPROJECT.md:128` says that
  indexes mirror markdown. To see it: compare `listed` with the file's comments
  at the end of a scan.
* A bulk update writes without a batch in the outbox, so a status moved in bulk
  has neither activity nor event; `docs/PROJECTPROJECT.md:192` says "Document
  writes persist provider-neutral events through the durable outbox".
* A bulk update takes `ticketDocument` and a creation only `ticketWrite`: a bulk
  update of a ticket that is being created publishes its row before the creator
  does, and the creator's older row replaces it. `Raced` are the tickets that a
  bulk update shares with a request that holds `ticketWrite` alone; the
  properties of `TicketStore` claim nothing of them.
* The way back of a bulk update restores `updatedAt`, so a scan cannot see that
  a row differs, and a write interrupted after its rename is not noted for the
  way back: `IndexMirrorsFiles` and `RowsGoForward` leave out the tickets of a
  bulk update that failed or is on its way back (`TakenBack`).
* A crash between the removal of a file and of its row leaves a row until the
  next scan (`TicketIndex.ts:1517`); a ticket removed with its row while a
  rebuild holds its document comes back to the index until then
  (`TicketIndexMaintenance.ts:390`).
* With a counter behind the files (a restored database) the number of a removed
  ticket can be used again.

**Groups, splits and bulk updates.** `CONTEXT.md:125` has "A Ticket is in at most
one Sprint", and `docs/history/specs/2026-05-08-sprints-design.md:17` "at most
one active-or-planned sprint at a time". Where the code falls short, the model
notes it in a history, and the properties leave these tickets out; dropping the
history from the property shows the steps.

* A completion writes the sprint that receives the tickets before the one that
  loses them (`Groups.ts:842`, `:853`), and takes nothing back: a crash or a
  failure in between leaves the tickets in two open sprints. So does a move that
  writes the new sprint first because its id sorts first
  (`setSprintMembership`), and a creation whose evictions fail and whose way back
  fails too (`torn`).
* `update` opens a completed sprint again and evicts nobody (`Groups.ts:518`),
  though its tickets may be in another one by now (`torn`).
* A removal takes the ticket out of all groups, gives their lock back, and then
  removes the file. Who adds the ticket in between, having found it, lists a
  ticket that goes; so does who has looked for it when the file goes and writes
  the list then; and `setSprintMembership`, by which a failed bulk update or split
  puts a ticket back, does not look at all (`haunted`). The removal of the new
  ticket by a failed split clears no list that its way back did not reach.
  `complete` reads every ticket of the sprint and then answers NotFound until
  somebody takes the ticket out by hand (`Groups.ts:809`).
* The way back of a split that failed on its sprints writes the whole original
  as it was read, without the lock (`TicketCommands.ts:829`, `:1095`): it takes
  back what others wrote meanwhile, brings back a removed ticket, and may bring
  back the change of a bulk update that was reverted (`overwritten`). It also
  moves the ticket to its old sprint wherever it is by then (`:1080`).
* `discardSplitResult` waits for writers of the new ticket (`ticketWrite`) and
  not for a bulk update that holds its `ticketDocument`, which then writes the
  ticket back (`overwritten`).
* Whether a ticket that becomes an epic is in a sprint is looked up without the
  lock of the groups (`TicketCommands.ts:1388`), so an epic can end up in a
  sprint. Epics are not modelled.

**Members.**

* The check for the last owner reads without a lock before better-auth writes
  (`auth/config.ts:428`, `:96`), so that a demotion and a transfer of ownership
  can leave an org without an owner, which its message excludes.
* The grants of an invitation are a transaction after the one that accepted it
  (`auth/config.ts:436`): a crash in between loses them.

**Slack.** A sprint that is moved away and back before its start is announced
twice (`Delivery.ts:159-171`).

**Pull requests.**

* A webhook sent before a pull request was moved to another base arrives after a
  refresh has shown its merge. Its state is refused as older than a merge and
  its base is taken (`withPullRequestBase`, `git/statePlanner.ts:308-317`). When
  that former base lands, the ticket counts as landed, although it was merged
  elsewhere. `CONTEXT.md:76` defines landed as merged into the default branch.
* Two different changes of a pull request in one second: the claim takes the
  first webhook it sees and refuses the other, and a refresh repairs it.

**Attachments.** A commit looks for a twin whose object is there and points its
row at that object in a later statement (`Attachments.ts:587`, `:611`). If the
twin is deleted in between, with its object, the attachment is live, its own
object is deleted as superfluous, and what is served is not there.
`Attachments.test.ts:626` tests the order that works. To see it: drop `late`
from `CommittedHasObject`.

**Jira migration** (the design is
`docs/history/specs/2026-09-22-t172-effect-jira-migration-design.md`).

* A discard that deleted the copied objects of a failed publication and then
  failed releases its claim; a publication that is tried again trusts the
  verification made before and passes without the objects
  (`PublicationLive.ts:511`, `CleanupLive.ts:109`; design :39).
* `Run` is accepted for a migration whose execution has ended: it completes a
  deferred that nobody awaits, and the status stays `scanning` or `migrating`
  until it is cancelled (`Migrations.ts:361`; design :403, :675). `RunIsServed`
  is claimed of executions that are alive.
* One flag stands for all the writes of an attempt: the settlement of one unit
  clears it while an earlier upload, given up after a timeout, may still land
  (`MigrationProjection.ts:760`; design :431).
* The design says that a cleanup interrupts a workflow that waits (:421, :435).
  None does; the execution is left waiting.
* An execution is known by the id and the revision it was asked for at, and a
  row that is created again starts at the first revision. A creation is asked
  for and its answer is lost; it is cancelled and rescanned; the rescan fails at
  one page, and is rescanned in turn while another of its pages is between
  reading the row and writing to it, whose intent that rescan clears; this
  attempt fails too and is discarded, with the row; the creation, still under
  way, creates the row again; it is cancelled, and the rescan that follows has
  the key of the first one, whose execution, still inside its write, it joins. It
  is current again, inside a write that the row knows nothing of. To see it:
  `WritersHoldTheRow` with `MaxAttempts = 3`, a behaviour of 31 steps.
* A release that fails is logged and not tried again: the claim stays for good,
  and the key of that cleanup has run. A migration cancelled with an unsettled
  write can be neither discarded nor rescanned.

## 6. What is left out, and why

`PROJECT.json` gives the status and reason of each component. In the modelled
ones:

* wording, parsing and rendering; malformed documents; listings and queries;
  access checks;
* tickets: children, copies between projects, attachments and Figma links of a
  document, updates that change nothing, editing and removal of comments (they
  change one block under the lock of a new comment), stale estimates;
* groups: the order of tickets, dates, epics;
* members: the life of an invitation (its grants are an action), sessions;
* Slack: OAuth, channels, defects that end a workflow at once;
* pull requests: stacked branches of a ticket (each follows the rules of the
  first), webhooks of branches, checks, drafts, the status moves that follow,
  the branches and pull requests the application opens itself;
* attachments and the Jira migration: as said in section 2.

Not modelled: feedback (an outbox and a workflow of up to 16 attempts, close in
shape to Slack), Everhour, the library, the rewrites of tickets that follow a
change of tags or statuses. Access policies, entry points, the frontend and `pp`
hold no state of the system. Figma, storage, users, bots, OAuth, email and link
previews are queries, single-row changes and calls to other services.

## 7. Plan

Done, in this order: the outbox with its abstract specification; the ticket
store; members; Slack; pull requests; attachments; the Jira migration; groups,
bulk updates and splits. Each component has one module, one MC module, its runs
and a module of proofs.

Left, in this order:

1. `PullRequests`: several branches per ticket, and the status moves that follow
   a merge.
2. `ActivityOutbox` and `SlackDelivery` composed: from the write of a document
   to its notification.
3. Components without a module: feedback, invitations, Everhour, the library,
   the rewrites of tickets that follow a change of tags or statuses.
