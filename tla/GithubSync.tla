----------------------------- MODULE GithubSync -----------------------------
(***************************************************************************)
(* GithubSyncService (apps/server/src/sync/github-sync-service.ts): start, *)
(* resolve and finalize of the synchronisation of one paper with a GitHub  *)
(* branch, while users edit the paper and others push to the branch.       *)
(*                                                                         *)
(* The service runs one operation of a project at a time, so the state has *)
(* one operation in progress; its steps interleave with users, the remote, *)
(* failures and crashes.  A file's content is the set of edits it carries; *)
(* {} stands for a file that is not there.                                 *)
(***************************************************************************)
EXTENDS Integers, Sequences, FiniteSets

CONSTANTS Files, Main,                                              \* Main: the main document
          MaxLocal, MaxRemote, MaxRuns, MaxCrashes, MaxFailures     \* bounds

ASSUME GithubSyncAssumption ==
  /\ Main \in Files
  /\ {MaxLocal, MaxRemote, MaxRuns, MaxCrashes, MaxFailures} \subseteq Nat

VARIABLES trees,    \* the tree that stood last under every project version so far
          remote,   \* the commits of the branch: tree, parent, and the run that pushed it
          source,   \* project.source.commit
          runs,     \* githubSyncRuns, each with its clone
          op,       \* the operation in progress
          edits,    \* edits made so far, by users and on the remote
          dropped,  \* history: edits that a conflict choice gave up
          lost,     \* history: edits that a repeated conflict choice deleted, or that were
                    \* in a file a stopped application had removed and not copied back
          used      \* how much of every bound is used

vars == <<trees, remote, source, runs, op, edits, dropped, lost, used>>

Trees     == [Files -> SUBSET (0..(MaxLocal + MaxRemote))]
Open      == {"conflicts", "ready-to-compile"}
Phases    == {"idle", "discard", "create", "clone", "copy", "merge", "choose", "before", "apply",
              "unchanged", "ready", "observe", "push", "source", "complete"}
Statuses  == Open \cup {"failed", "remote-changed", "completed"}
Carries(t) == UNION {t[f] : f \in Files}
Version   == Len(trees)
Workspace == trees[Version]
RemoteHead == Len(remote)
Uses(b, max) == used[b] < max /\ used' = [used EXCEPT ![b] = @ + 1]

NoOp == [phase |-> "idle", run |-> 0, left |-> {}, before |-> 0]
Goes(phase) == op' = [op EXCEPT !.phase = phase]
Run  == runs[op.run]
SaveRun(r) == runs' = [runs EXCEPT ![op.run] = r]
Ends == op' = NoOp

-----------------------------------------------------------------------------
\* start: older open runs are discarded; the new one counts as failed until it
\* has something to offer.
StartSync ==
  /\ op = NoOp /\ Len(runs) < MaxRuns
  /\ op' = [NoOp EXCEPT !.phase = "discard"]
  /\ UNCHANGED <<trees, remote, source, runs, edits, dropped, lost, used>>

DiscardOpenRunsMutant == runs' = [r \in DOMAIN runs |->
  IF runs[r].status = "conflicts" THEN [runs[r] EXCEPT !.status = "failed"] ELSE runs[r]]
DiscardOpenRuns == runs' = [r \in DOMAIN runs |->
  IF runs[r].status \in Open THEN [runs[r] EXCEPT !.status = "failed"] ELSE runs[r]]

Discard ==
  /\ op.phase = "discard" /\ DiscardOpenRuns /\ Goes("create")
  /\ UNCHANGED <<trees, remote, source, edits, dropped, lost, used>>

CreateRun ==
  /\ op.phase = "create"
  /\ runs' = Append(runs, [status |-> "failed", base |-> source, remote |-> source, synced |-> 0,
                           local |-> remote[source].tree, clone |-> remote[source].tree,
                           conflicts |-> {}, staged |-> {}, version |-> 0, compiled |-> FALSE])
  /\ op' = [op EXCEPT !.phase = "clone", !.run = Len(runs) + 1]
  /\ UNCHANGED <<trees, remote, source, edits, dropped, lost, used>>

Clone ==
  /\ op.phase = "clone"
  /\ SaveRun([Run EXCEPT !.remote = RemoteHead])
  /\ op' = [op EXCEPT !.phase = "copy", !.left = Files]
  /\ UNCHANGED <<trees, remote, source, edits, dropped, lost, used>>

\* copyManagedTree copies file after file; users may save in between.
CopyFile ==
  /\ op.phase = "copy"
  /\ \E f \in op.left :
       /\ SaveRun([Run EXCEPT !.local[f] = Workspace[f]])
       /\ op' = [op EXCEPT !.left = @ \ {f}, !.phase = IF op.left = {f} THEN "merge" ELSE @]
  /\ UNCHANGED <<trees, remote, source, edits, dropped, lost, used>>

\* git reset or git merge, file by file.
ConflictingMutant(b, l, r) == l # b /\ r # b /\ l = r
Conflicting(b, l, r) == l # b /\ r # b /\ l # r
Merged(b, l, r) == IF Conflicting(b, l, r) THEN {} ELSE IF l = b THEN r ELSE l

Merge ==
  LET base == remote[Run.base].tree
      incoming == remote[Run.remote].tree
      C == {f \in Files : Conflicting(base[f], Run.local[f], incoming[f])}
      clone == [f \in Files |-> Merged(base[f], Run.local[f], incoming[f])] IN
    /\ op.phase = "merge"
    /\ IF C = {}
       THEN SaveRun([Run EXCEPT !.clone = clone]) /\ Goes("before")
       ELSE SaveRun([Run EXCEPT !.clone = clone, !.conflicts = C, !.status = "conflicts"]) /\ Ends
    /\ UNCHANGED <<trees, remote, source, edits, dropped, lost, used>>

-----------------------------------------------------------------------------
\* resolve: the choices are staged in the clone one by one.  Staging a path
\* removes the sides of its conflict from the index; an attempt that stops half-
\* way and is repeated finds neither side and deletes the file.
Resolve(r) ==
  /\ op = NoOp /\ runs[r].status = "conflicts"
  /\ op' = [NoOp EXCEPT !.phase = "choose", !.run = r, !.left = runs[r].conflicts]
  /\ UNCHANGED <<trees, remote, source, runs, edits, dropped, lost, used>>

Sides(f) == Run.local[f] \cup remote[Run.remote].tree[f]

\* An edited result keeps both sides.
ChosenSide(f, choice) ==
  CASE choice = "edited"    -> Sides(f)
    [] f \in Run.staged     -> {}
    [] choice = "fastwrite" -> Run.local[f]
    [] choice = "github"    -> remote[Run.remote].tree[f]

Choose(f, choice) ==
  /\ op.phase = "choose" /\ f \in op.left
  /\ SaveRun([Run EXCEPT !.clone[f] = ChosenSide(f, choice), !.staged = @ \cup {f}])
  /\ IF choice # "edited" /\ f \in Run.staged
     THEN lost' = lost \cup Sides(f) /\ UNCHANGED dropped
     ELSE dropped' = dropped \cup (Sides(f) \ ChosenSide(f, choice)) /\ UNCHANGED lost
  /\ op' = [op EXCEPT !.left = @ \ {f}]
  /\ UNCHANGED <<trees, remote, source, edits, used>>

Resolved ==
  /\ op.phase = "choose" /\ op.left = {}
  /\ SaveRun([Run EXCEPT !.conflicts = {}]) /\ Goes("before")
  /\ UNCHANGED <<trees, remote, source, edits, dropped, lost, used>>

-----------------------------------------------------------------------------
\* prepareMergedRun: the workspace is replaced by the merged tree.
ReadVersion ==
  /\ op.phase = "before" /\ op' = [op EXCEPT !.phase = "apply", !.before = Version]
  /\ UNCHANGED <<trees, remote, source, runs, edits, dropped, lost, used>>

ApplyGithubSyncTree ==
  /\ op.phase = "apply" /\ Run.clone[Main] # {}
  /\ trees' = IF Workspace = Run.clone THEN trees ELSE Append(trees, Run.clone)
  /\ Goes(IF Len(trees') = op.before /\ Run.clone = remote[Run.remote].tree THEN "unchanged" ELSE "ready")
  /\ SaveRun([Run EXCEPT !.version = Len(trees')])
  /\ UNCHANGED <<remote, source, edits, dropped, lost, used>>

\* A merged tree without the main document is refused before anything is removed.
ApplyRefused ==
  /\ op.phase = "apply" /\ Run.clone[Main] = {} /\ Ends
  /\ UNCHANGED <<trees, remote, source, runs, edits, dropped, lost, used>>

\* The files are removed one by one, then copied one by one from the clone; the
\* version is recorded last.
Removing(tree, R)   == [f \in Files |-> IF f \in R THEN {} ELSE tree[f]]
Copying(clone, C)   == [f \in Files |-> IF f \in C THEN clone[f] ELSE {}]
TornTrees(tree, clone) ==
  {Removing(tree, R) : R \in SUBSET Files} \cup {Copying(clone, C) : C \in SUBSET Files}

\* A removal, a copy or the record fails, or the server dies: what is on disk then
\* stands under the old version.  Users wait for the project meanwhile.
ApplyStops ==
  /\ op.phase = "apply" /\ Run.clone[Main] # {}
  /\ Uses("failures", MaxFailures) \/ Uses("crashes", MaxCrashes)
  /\ \E tree \in TornTrees(Workspace, Run.clone) :
       /\ trees' = [trees EXCEPT ![Version] = tree]
       /\ lost' = lost \cup UNION {Workspace[f] : f \in {g \in Files : tree[g] = {}}}
  /\ Ends
  /\ UNCHANGED <<remote, source, runs, edits, dropped>>

\* Nothing to compile and nothing to push: the run completes at once.
SkipsCompile ==
  /\ op.phase = "unchanged"
  /\ source' = Run.remote /\ Goes("complete")
  /\ UNCHANGED <<trees, remote, runs, edits, dropped, lost, used>>

Ready ==
  /\ op.phase = "ready"
  /\ SaveRun([Run EXCEPT !.status = "ready-to-compile"]) /\ Ends
  /\ UNCHANGED <<trees, remote, source, edits, dropped, lost, used>>

\* The browser compiled that version after the run became ready.
CompileSucceeds(r) ==
  /\ runs[r].status = "ready-to-compile" /\ ~runs[r].compiled
  /\ runs' = [runs EXCEPT ![r].compiled = TRUE]
  /\ UNCHANGED <<trees, remote, source, op, edits, dropped, lost, used>>

-----------------------------------------------------------------------------
\* finalize: the paper must be as compiled and the branch as merged.
Publishable(r) == r.status = "ready-to-compile" /\ r.version = Version /\ r.compiled

Finalize(r) ==
  /\ op = NoOp /\ Publishable(runs[r])
  /\ op' = [NoOp EXCEPT !.phase = "observe", !.run = r]
  /\ UNCHANGED <<trees, remote, source, runs, edits, dropped, lost, used>>

RemoteChanged == SaveRun([Run EXCEPT !.status = "remote-changed"]) /\ Ends

ObserveRemote ==
  /\ op.phase = "observe"
  /\ IF RemoteHead # Run.remote THEN RemoteChanged
     ELSE UNCHANGED runs /\ Goes(IF Run.clone = remote[Run.remote].tree THEN "source" ELSE "push")
  /\ UNCHANGED <<trees, remote, source, edits, dropped, lost, used>>

\* Only a fast-forward is pushed.
FastForwardMutant == TRUE
FastForward == RemoteHead = Run.remote

Pushes == remote' = Append(remote, [tree |-> Run.clone, parent |-> Run.remote, by |-> op.run])

Push ==
  /\ op.phase = "push"
  /\ IF FastForward THEN Pushes /\ Goes("source") /\ UNCHANGED runs
     ELSE RemoteChanged /\ UNCHANGED remote
  /\ UNCHANGED <<trees, source, edits, dropped, lost, used>>

\* The connection breaks, before or after the branch has moved.
PushFails ==
  /\ op.phase = "push" /\ Uses("failures", MaxFailures)
  /\ (FastForward /\ Pushes) \/ UNCHANGED remote
  /\ SaveRun([Run EXCEPT !.status = "failed"]) /\ Ends
  /\ UNCHANGED <<trees, source, edits, dropped, lost>>

UpdateSourceMutant ==    \* the merged commit, not the pushed one
  /\ op.phase = "source" /\ source' = Run.remote /\ Goes("complete")
  /\ UNCHANGED <<trees, remote, runs, edits, dropped, lost, used>>
UpdateSource ==
  /\ op.phase = "source"
  /\ source' = IF Run.clone = remote[Run.remote].tree THEN Run.remote
               ELSE CHOOSE c \in DOMAIN remote : remote[c].by = op.run
  /\ Goes("complete")
  /\ UNCHANGED <<trees, remote, runs, edits, dropped, lost, used>>

Complete ==
  /\ op.phase = "complete"
  /\ SaveRun([Run EXCEPT !.status = "completed", !.synced = source]) /\ Ends
  /\ UNCHANGED <<trees, remote, source, edits, dropped, lost, used>>

-----------------------------------------------------------------------------
UserEdits(f) ==
  /\ Uses("local", MaxLocal)
  /\ trees' = Append(trees, [Workspace EXCEPT ![f] = @ \cup {edits.local + 1}])
  /\ edits' = [edits EXCEPT !.local = @ + 1]
  /\ UNCHANGED <<remote, source, runs, op, dropped, lost>>

OthersPush(f) ==
  /\ Uses("remote", MaxRemote)
  /\ remote' = Append(remote, [tree |-> [remote[RemoteHead].tree EXCEPT
                                           ![f] = @ \cup {MaxLocal + edits.remote + 1}],
                               parent |-> RemoteHead, by |-> 0])
  /\ edits' = [edits EXCEPT !.remote = @ + 1]
  /\ UNCHANGED <<trees, source, runs, op, dropped, lost>>

\* A step of git, of the network or of the disk fails: the operation ends and the
\* run stays as it was saved; so it does when the server dies (for the application
\* of the tree see ApplyStops).
Interrupted ==
  /\ op # NoOp /\ op.phase # "apply" /\ Ends
  /\ UNCHANGED <<trees, remote, source, runs, edits, dropped, lost>>
StepFails == Uses("failures", MaxFailures) /\ Interrupted
Crash     == Uses("crashes", MaxCrashes) /\ Interrupted

-----------------------------------------------------------------------------
Init ==
  /\ trees = <<[f \in Files |-> {0}]>>
  /\ remote = <<[tree |-> [f \in Files |-> {0}], parent |-> 0, by |-> 0]>>
  /\ source = 1 /\ runs = <<>> /\ op = NoOp
  /\ edits = [local |-> 0, remote |-> 0] /\ dropped = {} /\ lost = {}
  /\ used = [b \in {"local", "remote", "crashes", "failures"} |-> 0]

Next ==
  \/ StartSync \/ Discard \/ CreateRun \/ Clone \/ CopyFile \/ Merge
  \/ \E r \in DOMAIN runs : Resolve(r) \/ Finalize(r) \/ CompileSucceeds(r)
  \/ \E f \in Files, c \in {"fastwrite", "github", "edited"} : Choose(f, c)
  \/ Resolved \/ ReadVersion \/ ApplyGithubSyncTree \/ ApplyRefused \/ ApplyStops
  \/ SkipsCompile \/ Ready
  \/ ObserveRemote \/ Push \/ PushFails \/ UpdateSource \/ Complete
  \/ \E f \in Files : UserEdits(f) \/ OthersPush(f)
  \/ StepFails \/ Crash

Spec == Init /\ [][Next]_vars

-----------------------------------------------------------------------------
\* The stored state, the branch and the operation in progress keep their types;
\* a commit that is to be recorded as the source exists.
SyncRun ==
  [status: Statuses, base: Nat, remote: Nat, synced: Nat, local: Trees, clone: Trees,
   conflicts: SUBSET Files, staged: SUBSET Files, version: Nat, compiled: BOOLEAN]

Commit == [tree: Trees, parent: Nat, by: Nat]

HistoryOK ==
  /\ trees \in Seq(Trees) /\ trees # <<>>
  /\ remote \in Seq(Commit) /\ source \in DOMAIN remote
RunsOK ==
  /\ runs \in Seq(SyncRun)
  /\ \A r \in DOMAIN runs : runs[r].base \in DOMAIN remote /\ runs[r].remote \in DOMAIN remote
OpOK ==
  /\ op \in [phase: Phases, run: 0..Len(runs), left: SUBSET Files, before: Nat]
  /\ op.run = 0 => op.phase \in {"idle", "discard", "create"}
  /\ op.phase = "source" /\ Run.clone # remote[Run.remote].tree =>
       \E c \in DOMAIN remote : remote[c].by = op.run
CountsOK ==
  /\ edits \in [local: 0..MaxLocal, remote: 0..MaxRemote]
  /\ used \in [{"local", "remote", "crashes", "failures"} -> Nat]
  /\ edits.local = used["local"] /\ edits.remote = used["remote"]

TypeOK == HistoryOK /\ RunsOK /\ OpOK /\ CountsOK

\* At most one run of a paper waits for its user (discardOpenRuns).
OneOpenRun == Cardinality({r \in DOMAIN runs : runs[r].status \in Open}) <= 1

\* Whatever fails, is interrupted or pushed meanwhile, the branch keeps every edit
\* others pushed to it, except what a conflict choice gave up.  The exceptions the
\* code has are in lost: a repeated choice deletes both sides, and the files a
\* stopped application removed go out with the next synchronisation.
RemoteEditsKept ==
  \A n \in 1..edits.remote :
    MaxLocal + n \in Carries(remote[RemoteHead].tree) \cup dropped \cup lost

\* A merge that reached the workspace carries every edit of both of its sides, or
\* a choice gave it up, or it is in lost: a file missing since a stopped application
\* counts as deleted by the user (startNow, resolveNow, prepareMergedRun).
MergeKeepsBothSides ==
  \A r \in DOMAIN runs : runs[r].version # 0 =>
    Carries(runs[r].local) \cup Carries(remote[runs[r].remote].tree)
      \subseteq Carries(runs[r].clone) \cup dropped \cup lost

\* A run that completes records a commit with the tree the paper had last at the
\* run's version, so that the next merge starts from a true base; an older tree of
\* that version, before an application stopped, is not meant (prepareMergedRun,
\* finalize).
CompletesInSync ==
  \A r \in DOMAIN runs :
    runs[r].status # "completed" /\ runs'[r].status = "completed" =>
      trees'[runs'[r].version] = remote'[runs'[r].synced].tree
CompletedIsInSync == [][CompletesInSync]_vars

\* DESIGN.md:165-166: the versions are checked again before the result is applied,
\* and the paper is merged again if it has changed: no edit of a user disappears.
WorkspaceEditsKept ==
  \A n \in 1..edits.local : n \in Carries(Workspace) \cup dropped \cup lost
=============================================================================
