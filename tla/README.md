# FastWrite, specified in TLA+

FastWrite is a writing environment for LaTeX papers: a single server process
(TypeScript on Bun) that keeps the sources of each project on disk, its records
in one JSON document, and runs compilations, parsers and language-model agents
for browsers that edit the same project. This directory holds TLA+ models of
its core, TLC configurations that check them on small instances, and proofs for
TLAPS that hold for every instance. Paths below are relative to the repository;
`server/` stands for `apps/server/src/`.

## 1. Inventory

The server is single-threaded. What makes it hard is that every `await` lets
another request in, that files, database and child processes fail separately,
and that the process may die between any two steps.

| Component | State | Operations | Interacts with | Hard parts | What makes it correct |
|---|---|---|---|---|---|
| Job queue `server/jobs/job-queue.ts` | job records, one abort controller per running loop | enqueue, start, cancel, prune, updateProgress, claim, sweep of leases, finishClaim, restore | saves through the database; handlers compile, parse, call providers; `app.ts` restarts jobs, retries dead letters, deletes projects | late handlers, saves that are not awaited or reject, restart from a trailing store, two kinds of owner | budgets and quotas hold, finished stays finished, nothing is orphaned, the store catches up, jobs settle |
| ChangeSet review `server/agent/revise-service.ts` | ChangeSets with hunks, expected file versions, links to plans and issues | propose, edit, decide, accept, reject, finish, rollback | reads and writes files through the workspace, records through the database | a request works on a copy of the ChangeSet across many awaits; several files, one at a time; users save meanwhile | decisions agree with files, no unseen edit is overwritten, finished reviews stay finished, links follow |
| Workspace `server/workspace/workspace-service.ts`, `project-queue.ts` | source files, file versions, project version, main document | read, save, create, add, rename, delete, discard, sync tree, restore, snapshot | called by everything; records versions in the database; Git checkpoints | disk and database change in two steps; reuse of versions | one version means one content, no lost update |
| Git history `server/workspace/git-history.ts` | a bare repository per project | checkpoint, stage, commit, discard, compare | called by the workspace | child processes | checkpoints hold what the tree held |
| JSON database `server/storage/database.ts` | the whole state in memory, one file | snapshot, mutate, flush | everybody | state visible before it is flushed, lock file, foreign writers | mutations are serial and atomic, acknowledged ones survive |
| Collaboration `server/collaboration/`, `server/server.ts` | Yjs documents, update log, snapshots, sockets | join, apply, compact, flush, restore, rename, archive | writes text through the workspace | sequences, flush against direct saves, path changes | no update is lost or applied to the wrong document |
| Agent tasks `server/agent/agent-task-service.ts`, drafts, reviews | plans, runs, issue resolutions | create, confirm, cancel, re-review | providers, ChangeSets | minutes between check and record | one outcome per plan |
| Harness runs `server/agent/harness-run-service.ts`, `packages/harness-*` | runs, events, approvals | start, record, approve, cancel | external agents | order of events, double decisions | terminal runs stay terminal |
| GitHub sync `server/sync/github-sync-service.ts` | sync runs, merge directories | start, resolve, apply, finalize, discard | workspace tree, remote | crash between push, tree and record | nothing is pushed or applied twice, edits survive |
| Mail `server/notifications/` | deliveries with leases | enqueue, claim, deliver, webhook | transport | lost acknowledgements | bounded retries, no delivery forgotten |
| Reference papers `server/references/` | papers, parse revisions, profiles | upload, parse, profile, remove | job queue | stale parse results | a result belongs to its revision |
| Paper Memory, research, claims, comments, compliance | records per project | mostly one mutation each | providers, services | stale candidates | reviewed content is kept |
| Identity: `server/auth/`, `server/teams/` | users, sessions, memberships | sign in, invite, authorise | all routes | | out of scope here |
| Compiler, TeX packages, templates, uploads, imports | caches, upload sessions | compile, fetch, upload | child processes, network | | mostly I/O |
| Web editor `apps/web/src/lib/` | open documents, offline drafts, collaboration client | edit, save, reconnect | the API | offline edits | local text survives |

`PROJECT.json` lists every component with its status, and under `hazards` the
places where this code is hard to test, each with the properties that watch it
or the reason why none does yet.

## 2. Modules

| Module | Models | Read it as |
|---|---|---|
| `JobQueue` | the job queue, its store, the restart, two administrative routes | one job record per id, one *loop* per running job |
| `ChangeSetReview` | the review of one ChangeSet | requests that stop at every await, users in between |
| `TextHunks` | how a change is cut into hunks and put together again | functions on sequences of lines, a decision per hunk |
| `Workspace` | files and versions of one project | an operation changes files, then records versions |
| `VersionedProject` | what a project version promises | the abstract specification `Workspace` implements |
| `Database` | mutations, flush, lock, processes, the PostgreSQL cutover | a process and the phase of its flush |
| `SerialStore` | what the database promises | the abstract specification `Database` implements |
| `Collaboration` | documents, update log, flush, and what a browser counts as saved | requests under the project's lock, users beside it |
| `AgentTask` | plans, their ChangeSets, resolutions, compilations | checks on snapshots, slow calls, queued mutations |
| `GithubSync` | one sync of a paper at a time against a branch | the steps of start, resolve and finalize |
| `DocumentSession` | the saving of one file from several browser windows | windows, requests and replies on the way |
| `OfflineDrafts` | the drafts a page keeps in the browser | a page that may vanish at any moment |
| `ReferencePapers` | one reference paper and its parse jobs | awaits of callers and jobs, parse revisions |
| `MailDelivery` | mails, claims, leases, dispatchers, the webhook | a delivery and who holds it |
| `PaperMemory` | versions of the agents' memory and its mirror file | operations on a copy of the latest version |
| `Services` | six components that share nothing, side by side | the five before this row and `TextHunks` |
| `JobQueueProofs`, `ChangeSetReviewProofs`, `CollaborationProofs`, `DatabaseProofs`, `WorkspaceProofs`, `GithubSyncProofs`, `AgentTaskProofs`, `ServiceProofs` | theorems | section 5 |
| `MC*` | small instances | constants for TLC, see section 3 |

### JobQueue

`job` is the queue's map of records, `stored` the jobs of the database, and
`writes` the database's mutation queue between them, first in first out. A
record keeps the status, the attempts, the dead-letter flag and the lease
(holder, and whether it is still live); inputs, results, progress and errors are
left out. `loop[j]` says which await of `launch` the loop of job `j` is at:
`starting` (save of the running record), `handling` (the handler), `finishing`
(save of the completed record), `retrying` (save after a failed attempt). An
awaited save resumes its loop in the same step in which the database runs or
rejects it (`WriteRuns`, `WriteRejected`); every other save is fired and
forgotten. `aborted[j]` is the abort signal of the loop's controller.

`Restart` forgets loops, signals and pending writes, restores the records as
the constructor does (`Restored`) and launches the kinds that `app.ts` and the
reference service launch (`Resumed`, `Relaunched`). `DeleteProject` cancels the
project's reference jobs and queues the deletion. A failing flush of the
database is `WriteRejected`: `applyMutation` puts its previous state back.

### ChangeSetReview and TextHunks

A file is abstracted to the text at the place of each hunk and the number of the
last user edit it carries; that is what the properties tell apart. `Reviewed`
is `materializeChange`. A request is a record with its phase, its copy of the
ChangeSet (`from`), the set of files still to visit (`todo`) and what it plans for
each (`plan`). Files are visited in the ChangeSet's order, and a rollback writes
them in the opposite one (`NextFile`); a workspace call is one step, because the project queue makes it
atomic, and between two calls anything may happen. `decide` is `Decide`,
`Prepare` (one file each), `Apply` (one file each), `Applied` and then `Record`
when its mutation runs; `accept` and `reject` go on to `Finish`. `shown` is the
last conflict response, the only source of overwrite versions a reviewer has. A
created file has one hunk, since `buildTextHunks` finds no common line with an
empty base.
`Fails` is a failing checkpoint, call or server between two steps.

`Revert` puts the text of a file back as `rollback` does, which looks for the
accepted text and not for its place. A deletion (`Deletions` are the empty texts)
gets its text back at its old offset, whatever stands there now. Any other text is
replaced where it occurs nearest to that offset; if that is not the hunk's place
(`astray`), the place keeps what it has and some other places (`hit`) change
instead, also the users' own. Only a text that occurs nowhere is a conflict, and
then the reviewer may give any content to write for the version shown. Two fields
are histories for the properties: `raced` of the ChangeSet says that an edit or a
finish was recorded after the decisions it relied on had changed (`Overtaken`),
`copy` of a plan in which content another occurrence was replaced.

Left out: `propose`, ChangeSets without hunks from older versions, checkpoint
ids, the run's audit trail, the applied version. Editing a whole file keeps the
identity of its hunks, an edit request touches one hunk, and asking whether a
file exists and reading it is one step (a deletion between them is a `Fails`).

`TextHunks` is the algorithm that the review takes for granted: the anchors are
the lines unique in both texts, `LongestIncreasingAnchors` the patience search
with its table of tails, the hunks what lies between two anchors. Each loop of
the code is a function of the number of its turns (`PairsOfFirst`,
`PilesOfFirst`, `GapsOfFirst`, `PutFirst`), so that a proof can follow it. The
reference definition is `Replaced`, which substitutes accepted ranges one by one
from the end.

### Workspace

Each operation computes what it will record while it changes the files
(`Writes`) and holds `busy`, the project queue, until `Records` stores the
entries and the new project version in one mutation. `Fails` releases the queue
in between: a rejected mutation, a failing disk call or the end of the process.
`entry[p] = 0` is a file without a version entry, which clients read as version
1 (`VersionOf`). Git is external: `DiscardPaths` and `RestoreHistoryFiles` may
bring any content back. `applyGithubSyncTree` removes the tree, copies the new
one (`SyncCopies`) and records nothing if nothing differs.

Three history variables serve the properties only: `born` counts the lives of a
path, `torn` names the paths a failed operation may have changed while the
version clients see did not move (a rename takes that along, `Spoiled`),
`failures` bounds failures. `Files` maps the
two halves of an operation to one change of `VersionedProject`: while an
operation is under way the abstract files are those from before it.

### Database

A state is the sequence of mutations it contains, so that what is lost, doubled
or reordered shows. `Start` is `createApplication`: it reads the file and, in a
cutover, connects to PostgreSQL and takes over the row, or writes the first row
(`Seed`). Unless `FASTWRITE_POSTGRES_REQUIRED` is set, a connection that fails
leaves the server without a primary (`attached`), on the file alone. `now[p]` is the mutation process `p` has under way and how
far its flush is: PostgreSQL commit (`primary`, `committed`), lock file
(`lock`), comparison of the file with what the process last wrote (`compare`),
rename (`rename`), removal of the lock (`unlock`). `persisted[p]` is the state
the process believes to be in the file. Two processes may open one directory; a
process may fail or die at each phase, and `RemoveLock` is the operator who
removes a lock file that is left when no process runs. `KeepsPromises` maps the file (or the
primary after a cutover) to `SerialStore`: mutations take effect one at a time
on top of everything that was acknowledged; only unacknowledged ones may be
dropped. Excepted is `strayed`, what a server without its primary acknowledged
while there was a row: the next start that reaches PostgreSQL puts the row in the
place of the file.

### Collaboration

A document is the set of insertions it has seen and the set of those deleted;
that is what a CRDT guarantees to converge on, so the model checks the code
around it: `document` reads the file, waits, looks for an active document and
creates one (`ReadFile`, `CreateDocument`); `PushUpdate` assigns the next
sequence; compaction writes a snapshot and drops the updates below it;
`flushProject` walks a list of documents under the lock (`NextDocument`,
`CompareFile`, `SaveFile`, `SetVersion`). Direct saves, creations, renames and
deletions happen without that lock, and the documents follow a rename later
(`MoveDocuments`). A client holds what it typed (`edits`) and what it believes
saved (`saved`), as the provider's revision counters do.

`stray` is history: the documents caught in a rename or deletion of their file,
which `OneDocumentPerFile` and `KeepsDirectText` leave out. A document stops being
one when it followed its file to a path where it is alone. That must be the file
it belongs to: between the two services of a rename the target may be deleted
and created again, and `renamePath` then moves the document to a file it has
never seen, whose version, counted from 1 anew, may be the one it remembers. Each
path therefore has a `life`, which a creation or deletion raises, and `route`
keeps both lives and the documents that are to follow. It takes three direct
changes beside the rename; the runs allow one, and the proof of `DirectTextKept`
is what brought it up.

### AgentTask

`plan`, `sets`, `resolution` and `compiles` are the records; a handler checks
them on a snapshot, calls the provider, and appends its mutations to `queue`s
that `Write` runs in order. Reviews, rollbacks and `compile-results` are the
routes that settle what `confirm` began. The audit trail and the progress within
a run are left out.

### GithubSync

`trees` is the paper's history, the tree that stood last under each version, `remote` the branch as a sequence of
commits with their parents, `source` the commit the project records as its
base, `runs` the stored runs and `op` the one operation in progress. A file is
the set of edits it carries, so a merge is correct when nothing disappears from
the union. `{}` is a file that is not there. `dropped` holds the edits a user's
choice gave up, `used` counts edits and faults against their bounds. Every await
of `startNow`, `resolveNow`, `prepareMergedRun` and `finalizeNow` is a step;
`Interrupted` ends the operation at any of them. The application of the merged
tree holds the project's lock, so nobody sees it half done while it runs; but it
removes the files one by one, copies the clone's one by one and records the
version last, and `ApplyStops` ends it, failing or dying, with any tree in
between (`TornTrees`) under the old version. The next synchronisation copies that
tree, takes the missing files for deleted by the user, merges and may push. `lost`
holds the edits of those files, and those a repeated conflict choice deleted. A
merged tree without the main document is refused (`ApplyRefused`). Left out: a
file that was copied in part.

### DocumentSession and OfflineDrafts

`DocumentSession` is the buffer of one window: `content`, `base` and `version` of
the last text known to be on the server, one save on its way, the timer, the
waiters of a flush, the conflict a refused save opened. Requests and replies are
sets: each may be delayed, lost, or arrive after its sender gave up. `OfflineDrafts`
is the life of a page around it: `active` is the draft in IndexedDB,
`recoveries` what was archived, `page.writes` the writes under way, and `Leave`
takes the page away with all of them.

### Services

`ReferencePapers` raises the parse revision with each parse and lets every
stretch between two awaits interleave. `MailDelivery` keeps, for each
dispatcher, where it stands between listing, claiming, sending and recording;
`troubles` counts faults. `PaperMemory` keeps the versions of the memory, with
`by` naming the operation that stored each, and the mirror file with the users'
instructions beside it.

`Services` puts these three, `DocumentSession`, `OfflineDrafts` and `TextHunks`
side by side, each with constants of its own: a behaviour is of the subject its
first state chooses, so what holds of the whole holds of each alone. Its
assumptions name what the constants of a component need.

## 3. Runs

All properties of a row hold, except in the last one.

| Run | Instance | Shows |
|---|---|---|
| `jobs_healthy` | 3 jobs of 2 kinds (budgets 1 and 2), total quota 2, one per kind, one restart, saves succeed, fairness | `AttemptsBounded`, `DurableWhenDrained`, `ActiveJobsSettle` |
| `jobs_failing` | 2 jobs, one lease worker, rejecting saves, retries of dead letters, one restart | `RunningHasOwner`, `DeletedReferenceJobsStayDeleted`, `CancelledIsFinal` |
| `review_links` | a replaced and a created file, one request at a time, both approval modes, one user edit, failures | `RecordedVersionIsReviewed`, `LinksFollow` |
| `review_edits` | one file with one hunk, two concurrent requests, both approval modes, edits with and without blocking findings, users delete and recreate the file, failures; no confirmations | `AcceptedIsJustified`, `FinishedIsFinal`, `EditsKeepDecisions` |
| `review_overwrite` | one file whose hunk may become a deletion, two concurrent requests with confirmations, two user edits, failures | `OverwriteWasShown`, `RollbackKeepsUserEdits` |
| `workspace_versions` | two paths, two texts, one client with an open view, all operations, one failure, three changes | `SnapshotIdentity`, `NoLostUpdate`, `KeepsPromise` (refinement of `VersionedProject`) |
| `database_store` | two processes on one directory or one with PostgreSQL, which a start may fail to reach, three mutations, two failures or crashes; or one mail, the inline dispatcher and two workers, two faults; fairness | `OneWriter`, `MemoryIsStore`, `KeepsPromises` (refinement of `SerialStore`), `EveryMutationAnswered`; `EveryMailSettles` |
| `collaboration_editing` | two browsers and the flush timer, two paths, two typed edits, one direct text, three calls, one crash; or two windows with three revisions, one lost message; fairness | `NothingSkipped`, `SavedEditsStay`, `OneDocumentPerFile`, `KeepsDirectText`, `LiveTextIsSaved`; `TypedTextIsSaved` |
| `agent_tasks` | one plan that rewrites two files, two handlers, four calls, one save, two compilations, one crash, fairness | `PlanFollowsItsChangeSet`, `ReviewedAfterCompile`, `GenerationEnds` |
| `github_sync` | two files, two edits on each side, two runs, one failure, one crash, at any step and in the middle of an application | `OneOpenRun`, `RemoteEditsKept`, `MergeKeepsBothSides`, `CompletedIsInSync` |
| `services` | one reference paper, one memory entry, every pair of texts of up to four lines, one page with drafts, two windows with three revisions and one lost message, one mail with two faults; one crash each where the code restarts | `PapersAgree`, `UsersWordsStay`, `HunksRebuildTexts`, `DraftsKeepText`, `Truthful`, `DeliveredOnce` |
| `sync_overwrites` | one file, two edits of users, one of others, no faults | violates `WorkspaceEditsKept`, which `docs/DESIGN.md:165-166` promises |

`Services`, `MCDatabase` and `MCCollaboration` host more than one subject: the
first state chooses one and only its steps follow, the variables of the others
rest. The subjects share no state in the code either (the mail queue does live
in the database, but as one record that is changed by whole mutations), so
nothing would be gained from their product. The two liveness properties of
mails and windows are checked beside those of the database and the documents,
with their fairness; their safety in `services`.

`sync_overwrites` is the finding of the project: after the paper was copied into
the clone, nothing compares the version that was copied with the one that is
replaced, so a save of a user in between, or while conflicts wait, is
overwritten by the merged tree. No checkpoint holds it: the one of the run
(`server/sync/github-sync-service.ts:41`) is taken before the copy, a save of a
file takes none, and the next one follows the overwrite.

### Bounds

Two jobs suffice for every pairwise interaction of the job queue; three with a
total quota of two make the quota bite. A budget of two has a retry and a last
attempt, a budget of one is what reference jobs have. One restart separates two
lives; a second one starts from the same kind of state. `MaxWrites` limits only
the saves that clients may add at will (progress, retries), never those the
queue itself issues.

In the review two files make a partial application possible, two requests are
the smallest concurrency, one hunk is enough for them to race on a decision, an
edit, a finish or a rollback, and a user edit before and one after a conflict
response are what a stale confirmation needs. Requests are alike, so the two runs
with two of them use that symmetry. `Confirms` says whether reviewers confirm
overwrites; `review_edits` is about decisions and leaves that to
`review_overwrite`. Two texts are the proposed one and an edited one: blocking in
two runs, empty in the third. `MaxVersion` stops new decisions and new changes, never
the ones under way. Four lines are what it takes for anchors to cross and for a
repeated line to lie between them; the texts before are taken up to the names of
their lines.

In the workspace three changes allow delete, recreate and save of an opened
path, and a failed change followed by two more; one open view is enough, since
restorations save with the current version the way other clients do. Two paths
are what a rename needs.

Two processes and two faults let a process die with the lock, the operator
remove it, and the other one go on and fail in turn; three mutations leave one
that is queued behind a failing one and one of the other process. In
`Collaboration` two documents and two paths allow a rename and a recreated file,
`CompactAfter = 2` brings a compaction with an update after it. Two windows are
one conflict; one lost message is a timeout, after which the delayed request may
still arrive. Two sync runs are one that is left open or fails and the next one;
two edits on either side conflict or do not. Two handlers, four calls and two
ChangeSets are two confirmations of one plan and what follows. Two parse jobs
with two revisions are the old and the new one. Two troubles make the second
copy of a mail possible and explained. Three memories are one that a slow
extraction began from, one stored meanwhile and its own.

`CHECK_DEADLOCK FALSE` is set where all jobs may be pruned, all requests finished
or all bounds used up, that is, where the system really may rest. The workspace
can always be read and so is checked for deadlock.

### Fairness

Liveness is checked in `jobs_healthy`, `database_store`, `collaboration_editing`
and `agent_tasks`. Fairness is weak throughout and given only to what the server,
the browser's own timers or the clock does: the event loop runs queued mutations
and resumes handlers; file, database, compiler and provider calls return or
time out; timers fire; answers arrive once their request did; time passes. The
callers of `enqueue` with `start: false` call `start` themselves, and the
server's timer dispatches mail. No such step is disabled by another actor for
ever. Users, external workers, operators, failures and crashes are owed nothing,
and a property that a crash ends names it: `ActiveJobsSettle` speaks about the
first life of the server, `GenerationEnds` and `LiveTextIsSaved` about the time
before a crash, `EveryMutationAnswered` about a process that stays up.

## 4. What the checks say of the code

Holding, and hard to test: no combination of late handlers, rejected saves,
claims, sweeps and restarts orphans a running job or revives a cancelled one;
the store always catches up with the queue; a confirmation that became stale
never overwrites an edit the reviewer has not seen; versions identify sources
even though every change of them takes two steps; a flush that fails at any
phase leaves memory and file in agreement; what the store acknowledged survives;
no update of a document is skipped or numbered twice; a delayed save never
overwrites what its author has not seen; a merge keeps every edit of both sides
and the base a sync records is true, but for the limits below; late parse results stay out; hunks give back
every text they were cut from.

What the models show to be limits of the code. Each property that one of these
would break names it as its exception:

- A job with one attempt that was running when the server died is queued for
  ever: its attempt is already counted. Retrying a dead letter changes the
  database only; the running queue never learns of it before the next restart. A
  rejected save of a completed job counts as a failed attempt and runs it again.
- A user's save between check and write leaves a decision applied to some files.
  A rollback deletes a file the change created, with what users wrote into it,
  and so does a decision that takes back the file: neither looks at its version
  (`OverwriteWasShown` and `RollbackKeepsUserEdits` except created files). A
  rollback of a replaced file looks for the accepted text wherever it is: if
  another occurrence is nearer than the hunk's place, part of what users wrote is
  replaced (the field `copy` in `RollbackKeepsUserEdits`), and a deletion that is
  rolled back puts its text at the old offset. Editing a whole proposed file
  stores the legacy status `conflict`.
- The routes of a review do not wait for each other, and each mutation is judged
  by the copy its request took. A decision under way while another request
  finishes the review reopens it (`FinishedIsFinal` excepts a copy with an older
  status). An edit that another request's acceptance overtakes changes the
  accepted text (`EditsKeepDecisions` excepts an older copy of the hunk), also to
  one with a blocking finding, and a finish that an edit of a file overtakes
  accepts undecided hunks (`AcceptedIsJustified` excepts the ChangeSet marked as
  `raced`). With copies that are not outdated nothing of this happens.
- A cutover server that does not reach PostgreSQL when it starts runs on the file
  alone and acknowledges mutations there, which the next start that reaches the
  row replaces (`KeepsPromises` excepts them as `strayed`).
- The application of a merged tree removes the files before it copies the new ones.
  If it fails or the server dies in between, files are missing under the old
  version; the next synchronisation takes them for deleted, merges that without a
  conflict and may push it (`RemoteEditsKept` and `MergeKeepsBothSides` except
  their edits as `lost`; `CompletedIsInSync` speaks of the last tree of a
  version).
- A file that is deleted and created again starts at version 1, so a client that
  opened the old one may overwrite the new one, and an old draft is taken up.
- A plan that was generating when the server died stays so for ever; so does one
  whose failure the database refuses to record. `GenerationEnds` excepts the crash
  and does not model that refusal.
- A browser that refuses a single write of a draft, after the drafts were loaded,
  keeps the older one until the next edit. `DraftsKeepText` speaks of writes that
  are carried out or vanish with their page.
- Repeating an interrupted conflict choice deletes the file, because the first
  attempt removed both sides from the index.
- After a direct save the flush of the file's document is refused, and
  `flushProject` stops at the first such document.
- A reference parse whose job id was not stored before a crash is neither
  cancelled nor outdated by the next one.
- Drafts: tabs of one browser share the key of a draft; a save that an earlier
  page left under way comes first.
- Repeated lines that are equal on both sides become a hunk that changes nothing.

## 5. Proofs

The proofs hold for every value of the constants, under the assumptions that
the modules name and the runs evaluate.

| Theorem | States | Argument |
|---|---|---|
| `JobQueueProofs!TypeCorrect` | `Spec => []TypeOK` | `TypeOK` is inductive: one step per action. A sweep may save its jobs in any order; only the range of that order matters. |
| `RunningJobsAreOwned` | `Spec => []RunningHasOwner` | `RunningHasOwner` alone is not inductive: a loop may end, and the job it leaves behind must not be running. `LoopInv` ties each loop to its record: its signal is aborted exactly when the job is cancelled, a finishing loop has a completed job, and a job that runs while its loop still saves a failed attempt was claimed by a worker. |
| `CancellationIsFinal` | `Spec => CancelledIsFinal` | a consequence of the same invariant: every branch that writes a status is closed to a loop whose signal is aborted |
| `AttemptsWithinBudget` | without workers, `Spec => []AttemptsBounded` | strengthened to the stored records and the records inside pending saves, because a restart takes attempts from there. With workers it is false: a claim does not look at the budget. |
| `DeletedReferenceJobs` | `Spec => []DeletedReferenceJobsStayDeleted` | inductive with the types: a deletion that ran is never undone, and the late save of a reference job checks for it when it runs |
| `QueueDurableWhenDrained` | store takes every save, nobody retries by hand, `Spec => []DurableWhenDrained` | `AccountInv`: for each job the last queued save of it, or the stored record when none is queued, is what memory holds. A rejected save and a retry of dead letters, which writes past the queue's memory, break it: hence the two hypotheses, those of the run. |
| `ChangeSetReviewProofs!TypeCorrect` | `Spec => [](TypeOK /\ Shapes)` | with `Shapes`: which operation a phase belongs to, and each waiting request is queued once |
| `LinkedRecordsFollow` | `Spec => []LinksFollow` | only a mutation changes the ChangeSet, and each mutation that ends it writes the linked records |
| `OverwritesWereShown` | users only save (`~UsersRestructure`), `Spec => OverwriteWasShown` | `OverInv`: of what was shown, confirmed or planned, a version that is still the file's comes with its content (`SightOK`), and a planned save that would overwrite an edit carries a confirmation of exactly that (`WriteOK`). It holds for any number of requests, because the save compares the version once more. |
| `RollbackKeepsEdits` | the same, `Spec => RollbackKeepsUserEdits` | the same invariant: a planned save whose version is current keeps the edit, or its reviewer gave the content for that very content, or the plan notes that it hit the edit there |
| `RecordedIsReviewed` | one request at a time, users who only save, `Spec => []RecordedVersionIsReviewed` | `RecInv`: `PlanOK` follows a decision through its files, from "not visited" over "planned" to `Settled`, where version and content go together; `Kept` is the property itself, with recorded versions never ahead of the files |
| `AcceptedJustified`, `FinishedStaysFinal`, `EditsKeepAccepted` | any number of requests, `Spec => []AcceptedIsJustified`, `Spec => FinishedIsFinal`, `Spec => EditsKeepDecisions` | `EditInv`: what a request checked at its start is true of the copy it carries, for ever (`CopyOK`); a decision leaves what its copy justifies (`Justified`), and an edit or a finish either finds the decisions of its copy or marks the ChangeSet as raced |
| `CollaborationProofs!NumberedOnce` | `Spec => []NothingSkipped` | `LogOK`: the next sequence exceeds every stored one, and a snapshot follows all it replaces. The number is taken before the update is pushed, so `PushOK` and `FlushOK` say that a log stays as the holder of the lock left it. |
| `SavedMeansSaved` | `Spec => []SavedEditsStay` | the same invariant, with `DeletedOK`: a Git discard deletes only insertions whose text had been in a file, because every document was flushed before (`DiscardOK`) |
| `OneDocument` | `Spec => []OneDocumentPerFile` | `RouteOK`: while a file is between its two services, the documents at its target are strays |
| `DirectTextKept` | `Spec => KeepsDirectText` | `DocsKnow`: the version a document remembers is never ahead of its file's, and if it is equal the document holds that text. Versions of one life only grow (`Moves`); what a request read before it creates a document may be old but not wrong (`ReadOK`). |
| `DatabaseProofs!TypeCorrect` | `Spec => []TypeOK` | one step per action |
| `AtMostOneWriter` | `Spec => []OneWriter` | inductive with the types: the lock is created only where there is none, and only its holder is past the comparison. That nothing removes the lock of a living writer is the guard of `RemoveLock`. |
| `MemoryFollowsStore` | `Spec => []MemoryIsStore` | `Remembers`: a process that rests has in memory what it last knew to be stored, and one that works has it in `before` and the new state in `state` |
| `DatabaseKeepsPromises` | `Spec => KeepsPromises` | refinement of `SerialStore`, with `Serial`: a mutation waits in one place only (`Separate`), what a process commits or writes is the state before its mutation with the mutation on top (`Working`), and that state holds all that was acknowledged: with a primary because memory is a beginning of its row (`Tidy`), without because the comparison found the file as the process last knew it (`Remembers`). The failed flush of a mutation that had already been renamed into place is the hard case: the mutation is in the file, refused, and dropped by the next write or kept by a restart; both are steps of `SerialStore`. |
| `WorkspaceProofs!TypeCorrect` | `Spec => []TypeOK` | with `SaveIsOpen`: a save under way belongs to a client whose view is open |
| `WorkspaceKeepsPromise` | `Spec => KeepsPromise` | refinement. `Held` says what an operation under way has touched and what the files were before it; the first half of an operation is a stutter, the second the abstract change, a failure spoils at most what was touched |
| `VersionsIdentifyFiles` | `Spec => []SnapshotIdentity` | `CopyInv`: a copy whose version is current differs from the files at most in torn paths and in what the operation under way touches |
| `SavesLoseNoUpdate` | `Spec => NoLostUpdate` | `Recalled`: while a path lives the life in which a client opened it, the version of that view is never ahead of the path's, and when it is current the view shows the text of the file, unless a failure touched the path (`ViewsOK`). The same of the entries an operation under way is about to record (`PendingOK`, `ReplacedOK`): they advance for every file it touches. |
| `GithubSyncProofs!TypeCorrect` | `Spec => []TypeOK` | one step per action; that a run which has pushed finds its commit again is part of the types |
| `AtMostOneOpenRun` | `Spec => []OneOpenRun` | `OpenInv`: once the open runs are discarded none is open but the operation's own; `StatusFits`: the phase of an operation decides which statuses its run may have |
| `CompletedRunsAreInSync` | `Spec => []CompletedIsInSync` | `RunsAreTrue`: a commit of a run has the tree of its clone, a run that may be published stands in the paper's history; `OpIsTrue`: the same of the operation between its awaits; histories only grow (`Grows`), except that an application that stops changes the tree of the last version, and then no run waits for its publication |
| `BranchKeepsRemoteEdits` | `Spec => []RemoteEditsKept` | `BranchKeeps`: file by file, a later commit carries what an earlier one does. Others add to the head, a push is a fast-forward of a merge, and merges keep both sides, up to `Gone`, what choices gave up and what was lost. |
| `MergesKeepBothSides` | `Spec => []MergeKeepsBothSides` | a merge compares three texts only, so it keeps an edit of one side when the base is on both sides. It is, up to `Gone`: `PaperHasSource` for the paper, of which the run's copy is made while users edit; `BranchKeeps` for the branch, since a source is never younger than what an open run merged. `RunsMerge` and `OpMerges` carry this through choices, crashes and repeated attempts. |
| `AgentTaskProofs!PlansFollowChangeSets` | `Spec => []PlanFollowsItsChangeSet` | a queued mutation does not check again what its request saw, so the invariant says what requests carry (`RequestsOK`: a ChangeSet that exists, a compilation that was recorded) and that a request has one mutation queued (`QueueOK`); `Written` is what every mutation leaves |
| `ReviewsFollowCompiles` | `Spec => []ReviewedAfterCompile` | the same invariant |
| `ServiceProofs!WindowsAreTruthful` | `Spec => []Truthful` | `Honest`: an awaited request or its reply is the text of its window at that revision (`Sent`), one save per window is on its way (`OneTurn`), each request carries the text of the version it names, and a view stands on a version the server has (`Grounded`). A lost answer only makes a request unawaited. |
| `DraftsAreKept` | `Spec => DraftsKeepText` | `DraftInv`: a dirty page has its text in the last of its writes or in the active draft (`PageOK`), what it writes against is the version it shows, and while it archives, what it found is still the active draft |
| `ReadyPapersAgree` | `Spec => []PapersAgree` | `PaperInv`: until a crash loses a job's id (`Forgotten`), every job that works on the paper's revision works on the paper's entry (`OnCourse`), and so does every selection made at that revision, stored or still in a request (`Chosen`). `JobsOK` and `CallsOK` say which requests may still start which jobs. |
| `VouchedWordsStay` | `Spec => UsersWordsStay` | `MemoryInv`: an extraction waiting to be stored has a version at most one above the latest, and exactly that only with the text that is vouched for now (`Respects`); a mirror about to be written is outdated or has the users' instructions (`Copies`). Since concurrent requests take the same version, `latestStored` breaks ties; `StoringOrders` shows that what is stored second at a version never becomes the latest. |
| `HunksAreRebuilt` | `Spec => []HunksRebuildTexts` | `HunksCutTexts`: the hunks cut both texts, their ranges rise and what lies between two of them is the same in both. It is a fact about the algorithm at the start, by induction along each of its loops: `PilesSorted` (the pile of a pair is the length of the longest run that ends with it, the tails rise) makes the anchors rise and no run longer than them (`AnchorsRise`), rising anchors make the gaps cut the texts (`GapsCut`), and a cut stays one whatever is decided (`CutDecided`). `PutsAreValid` and `RestAlways` follow the materialised text from the front and the replaced one from the end. |
| `MailsAreDeliveredOnce` | `Spec => []DeliveredOnce` | counting (`Counted`): copies accepted, senders that may still send, and one more while a claim is free are at most one plus the troubles so far; `ClaimInv`: a live lease is not due |

Two hypotheses of the review's theorems are the ones under which the code keeps
its word. `~UsersRestructure` (users save but do not delete or create the files): a
file that is deleted and created again starts at version 1, so an old version may
name new content. `OneRequest`, only in `RecordedIsReviewed` (any two requests in
flight are the same one): two requests that decide at once each write the files by
their own copy of the ChangeSet, so the last one to be recorded does not describe
what the other wrote. The other exceptions are no hypotheses but part of the
properties, which name them: created files, outdated copies, another occurrence
of an accepted text. The runs check the same properties under the same
restrictions, and those of `review_edits` with users who delete and create files.

The theorems of `ServiceProofs` are about components that share no variable: a
step of `Services` is for each of them a step of its own or none (`OneMoves`),
and each invariant above speaks of one component only. The constants need
`PapersAssumption`, `TextsAssumption`, `WindowsAssumption` and `MailAssumption`:
at least one parse revision, one text, one mail, finitely many dispatchers and one
attempt, and texts that are sequences of lines.

`HunksAreRebuilt` is about texts of any length and so needs induction. The
library's induction theorems take an operator and cannot be instantiated here;
but that `<` is well-founded on `Nat` takes none. `Least` draws from it that a
set of numbers that is not empty has a least element, `Induct` that a set closed
under successors is all of an interval, and `Recursion` that a function defined
along the turns of a loop is defined by its first value and its steps.

Only model-checked: the liveness properties (`ActiveJobsSettle`,
`EveryMutationAnswered`, `EveryMailSettles`, `LiveTextIsSaved`,
`TypedTextIsSaved`, `GenerationEnds`), since fairness and ENABLED are beyond the
prover. `AttemptsBounded`, `DurableWhenDrained` and three of the review's
properties are proved under the hypotheses named above.

## 6. Not modelled

The map covers about a twentieth of the repository's lines, the parts that hold
shared or lasting state and change it in steps. The rest, by component:

- The web application's pages and components (`apps/web/src/pages`,
  `components`): rendering and forms. The state behind them that can go wrong is
  `DocumentSession`, `OfflineDrafts` and the client of `Collaboration`.
- `apps/web/public/busytex.js` and `worker.js`: a TeX system compiled to
  WebAssembly and its loader, third-party code; `packages/shared/src/models.ts`
  and the other type and schema declarations: no behaviour.
- Routes in `app.ts`: apart from those the models name, they authorise, call one
  service and format its answer.
- Git history and the compiler: child processes. Their effects are arbitrary
  changes in `Workspace` and handlers of a job.
- Providers, prompts, skills, MCP tools: requests and parsing, no lasting state.
- Drafts and reviews by agents: a run opened by one mutation and closed by
  another around a provider call, the shape `AgentTask` has with more at stake.
- Research, claims, comments, compliance, experiments, teams, templates: single
  mutations, for each of which `SerialStore` is the whole promise.
- Authentication and authorisation: access rules, out of scope.
- Harness runs and uploads: listed as hazards; the order and meaning of a
  harness's events are the external agent's.

Left out within the modelled parts is named in section 2 and in the notes of
`PROJECT.json`: formatting, wording, network protocols and access rules
throughout; the text of files, hunks and jobs is abstract.

## 7. Plan

Done: the modules of section 2 and the theorems of section 5. Left, in order of
what it would add:

1. `ProjectQueue`: the promise chain and its reentrancy, implementing the mutual
   exclusion that `Workspace` takes for granted.
2. Uploads: the session whose completion races its cancellation.
3. Composition of `AgentTask` with `ChangeSetReview` through the ChangeSet they
   share.
