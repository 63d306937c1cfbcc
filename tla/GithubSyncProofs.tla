-------------------------- MODULE GithubSyncProofs --------------------------
(***************************************************************************)
(* Proofs about GithubSync, for every set of files and every bound: types, *)
(* at most one open run of a paper, that a run completes with a commit     *)
(* that has the tree of the paper at its version, and what a merge and a   *)
(* push keep.                                                              *)
(***************************************************************************)
EXTENDS GithubSync, SequenceTheorems, FiniteSetTheorems, TLAPS

USE DEF RemoteHead, Version, Workspace, Run

Ids == 0 .. (MaxLocal + MaxRemote)

-----------------------------------------------------------------------------
\* What the steps are built from.

LEMMA InitType == ASSUME Init PROVE TypeOK
<1> USE GithubSyncAssumption
<1>1. [f \in Files |-> {0}] \in Trees  BY DEF Trees
<1>2. HistoryOK
  <2>1. [tree |-> [f \in Files |-> {0}], parent |-> 0, by |-> 0] \in Commit  BY <1>1 DEF Commit
  <2>2. QED  BY <1>1, <2>1 DEF Init, HistoryOK
<1>3. RunsOK  BY DEF Init, RunsOK
<1>4. OpOK  BY DEF Init, OpOK, NoOp, Phases
<1>5. CountsOK  BY DEF Init, CountsOK
<1>6. QED  BY <1>2, <1>3, <1>4, <1>5 DEF TypeOK

\* Saving the run of the operation replaces that run and no other.
LEMMA SaveRunType ==
  ASSUME TypeOK, op.run # 0, NEW x \in SyncRun, SaveRun(x)
  PROVE  /\ op.run \in DOMAIN runs /\ Run \in SyncRun
         /\ runs' \in Seq(SyncRun) /\ Len(runs') = Len(runs) /\ DOMAIN runs' = DOMAIN runs
         /\ runs'[op.run] = x
         /\ \A r \in DOMAIN runs : r # op.run => runs'[r] = runs[r]
<1>1. op.run \in 1 .. Len(runs)  BY DEF TypeOK, OpOK
<1>2. runs \in Seq(SyncRun)  BY DEF TypeOK, RunsOK
<1>3. DOMAIN runs = 1 .. Len(runs) /\ Len(runs) \in Nat  BY <1>2
<1>4. runs' = [runs EXCEPT ![op.run] = x]  BY DEF SaveRun
<1>5. runs' \in Seq(SyncRun) /\ Len(runs') = Len(runs)  BY <1>1, <1>2, <1>4
<1>6. QED  BY <1>1, <1>2, <1>3, <1>4, <1>5

\* The run of an operation and the trees it is about.
LEMMA CommitType ==
  ASSUME TypeOK, NEW c \in DOMAIN remote
  PROVE  remote[c] \in Commit /\ remote[c].tree \in Trees /\ remote[c].by \in Nat
<1>1. remote \in Seq(Commit)  BY DEF TypeOK, HistoryOK
<1>2. remote[c] \in Commit  BY <1>1
<1>3. QED  BY <1>2 DEF Commit

LEMMA RunType ==
  ASSUME TypeOK, op.run # 0
  PROVE  /\ op.run \in DOMAIN runs /\ Run \in SyncRun
         /\ Run.base \in DOMAIN remote /\ Run.remote \in DOMAIN remote
         /\ remote[Run.base].tree \in Trees /\ remote[Run.remote].tree \in Trees
<1>1. op.run \in 1 .. Len(runs)  BY DEF TypeOK, OpOK
<1>2. runs \in Seq(SyncRun) /\ op.run \in DOMAIN runs  BY <1>1 DEF TypeOK, RunsOK
<1>3. Run \in SyncRun  BY <1>2
<1>4. Run.base \in DOMAIN remote /\ Run.remote \in DOMAIN remote  BY <1>2 DEF TypeOK, RunsOK
<1>5. QED  BY <1>2, <1>3, <1>4, CommitType

\* The current tree and the head of the branch exist.
LEMMA HeadType ==
  ASSUME TypeOK
  PROVE  /\ Version \in DOMAIN trees /\ Version \in Nat /\ Workspace \in Trees
         /\ RemoteHead \in DOMAIN remote /\ RemoteHead \in Nat /\ remote[RemoteHead].tree \in Trees
         /\ DOMAIN remote = 1 .. Len(remote) /\ DOMAIN trees = 1 .. Len(trees)
<1>1. trees \in Seq(Trees) /\ trees # <<>>  BY DEF TypeOK, HistoryOK
<1>2. Version \in DOMAIN trees /\ Version \in Nat /\ DOMAIN trees = 1 .. Len(trees)  BY <1>1
<1>3. Workspace \in Trees  BY <1>1, <1>2
<1>4. remote \in Seq(Commit) /\ source \in DOMAIN remote  BY DEF TypeOK, HistoryOK
<1>5. /\ RemoteHead \in DOMAIN remote /\ RemoteHead \in Nat
      /\ DOMAIN remote = 1 .. Len(remote)
  BY <1>4
<1>6. QED  BY <1>2, <1>3, <1>5, CommitType

\* A step that changes the run of the operation, and nothing that is recorded.
LEMMA SavedRunOK ==
  ASSUME TypeOK, op.run # 0, NEW x \in SyncRun, SaveRun(x),
         x.base \in DOMAIN remote, x.remote \in DOMAIN remote,
         \A c \in DOMAIN remote : c \in DOMAIN remote'
  PROVE  RunsOK'
  BY SaveRunType DEF TypeOK, RunsOK

LEMMA MergedType ==
  ASSUME NEW b \in SUBSET Ids, NEW l \in SUBSET Ids, NEW r \in SUBSET Ids
  PROVE  Merged(b, l, r) \in SUBSET Ids
  BY DEF Merged

\* An operation that is at rest, or waits, or goes on about the same run.
LEMMA GoesType ==
  ASSUME TypeOK, Len(runs') = Len(runs), NEW phase \in Phases \ {"source"},
         op.run = 0 => phase \in {"idle", "discard", "create"},
         Goes(phase)
  PROVE  OpOK'
<1>1. op' = [op EXCEPT !.phase = phase]  BY DEF Goes
<1>2. op' \in [phase: Phases, run: 0..Len(runs), left: SUBSET Files, before: Nat]
  BY <1>1 DEF TypeOK, OpOK
<1>3. op'.phase = phase /\ op'.run = op.run  BY <1>1 DEF TypeOK, OpOK
<1>4. QED  BY <1>2, <1>3 DEF OpOK

LEMMA EndsType ==
  ASSUME TypeOK, Len(runs') \in Nat, Ends
  PROVE  OpOK'
  BY DEF Ends, NoOp, OpOK, Phases

-----------------------------------------------------------------------------
\* Every action keeps the types.

LEMMA StartType ==
  ASSUME TypeOK, StartSync \/ Discard \/ CreateRun \/ Clone \/ CopyFile
  PROVE  TypeOK'
<1> USE GithubSyncAssumption
<1>1. CASE StartSync
  <2>1. HistoryOK' /\ RunsOK' /\ CountsOK'
    BY <1>1 DEF StartSync, TypeOK, HistoryOK, RunsOK, CountsOK
  <2>2. OpOK'  BY <1>1 DEF StartSync, NoOp, TypeOK, OpOK, Phases
  <2>3. QED  BY <2>1, <2>2 DEF TypeOK
<1>2. CASE Discard
  <2>1. HistoryOK' /\ CountsOK'  BY <1>2 DEF Discard, TypeOK, HistoryOK, CountsOK
  <2>2. runs \in Seq(SyncRun)  BY DEF TypeOK, RunsOK
  <2>3. \A r \in DOMAIN runs : runs[r] \in SyncRun  BY <2>2
  <2>4. \A r \in DOMAIN runs : [runs[r] EXCEPT !.status = "failed"] \in SyncRun
    BY <2>3 DEF SyncRun, Statuses
  <2>5. runs' = [r \in 1..Len(runs) |->
          IF runs[r].status \in Open THEN [runs[r] EXCEPT !.status = "failed"] ELSE runs[r]]
    BY <1>2, <2>2 DEF Discard, DiscardOpenRuns
  <2>6. /\ runs' \in Seq(SyncRun) /\ Len(runs') = Len(runs) /\ DOMAIN runs' = DOMAIN runs
    BY <2>2, <2>3, <2>4, <2>5, IsASeq
  <2>7. \A r \in DOMAIN runs : runs'[r].base = runs[r].base /\ runs'[r].remote = runs[r].remote
    BY <2>2, <2>3, <2>5 DEF SyncRun
  <2>8. RunsOK'  BY <1>2, <2>6, <2>7 DEF Discard, TypeOK, RunsOK
  <2>9. OpOK'
    BY <1>2, <2>6, GoesType DEF Discard, Phases
  <2>10. QED  BY <2>1, <2>8, <2>9 DEF TypeOK
<1>3. CASE CreateRun
  <2> DEFINE x == [status |-> "failed", base |-> source, remote |-> source, synced |-> 0,
                   local |-> remote[source].tree, clone |-> remote[source].tree,
                   conflicts |-> {}, staged |-> {}, version |-> 0, compiled |-> FALSE]
  <2>1. HistoryOK' /\ CountsOK'  BY <1>3 DEF CreateRun, TypeOK, HistoryOK, CountsOK
  <2>2. source \in DOMAIN remote /\ source \in Nat /\ remote[source].tree \in Trees
    BY CommitType, HeadType DEF TypeOK, HistoryOK
  <2>3. x \in SyncRun /\ x.base = source /\ x.remote = source  BY <2>2 DEF SyncRun, Statuses
  <2>4. runs' = Append(runs, x)  BY <1>3 DEF CreateRun
  <2> HIDE DEF x
  <2>5. runs \in Seq(SyncRun)  BY DEF TypeOK, RunsOK
  <2>6. /\ runs' \in Seq(SyncRun) /\ Len(runs') = Len(runs) + 1 /\ Len(runs) \in Nat
        /\ runs'[Len(runs) + 1] = x /\ \A r \in DOMAIN runs : runs'[r] = runs[r]
        /\ DOMAIN runs' = DOMAIN runs \cup {Len(runs) + 1}
    BY <2>3, <2>4, <2>5
  <2>7. RunsOK'  BY <1>3, <2>2, <2>3, <2>6 DEF CreateRun, TypeOK, RunsOK
  <2>8. op' = [op EXCEPT !.phase = "clone", !.run = Len(runs) + 1]  BY <1>3 DEF CreateRun
  <2>9. op' \in [phase: Phases, run: 0..Len(runs'), left: SUBSET Files, before: Nat]
    <3>1. op \in [phase: Phases, run: 0..Len(runs), left: SUBSET Files, before: Nat]
      BY DEF TypeOK, OpOK
    <3>2. "clone" \in Phases  BY DEF Phases
    <3>3. Len(runs) + 1 \in 0 .. Len(runs')  BY <2>6
    <3>4. QED  BY <2>8, <3>1, <3>2, <3>3
  <2>10. op'.phase = "clone" /\ op'.run # 0  BY <2>6, <2>8 DEF TypeOK, OpOK
  <2>11. QED  BY <2>1, <2>7, <2>9, <2>10 DEF TypeOK, OpOK
<1>4. CASE Clone
  <2>1. HistoryOK' /\ CountsOK'  BY <1>4 DEF Clone, TypeOK, HistoryOK, CountsOK
  <2>2. op.run # 0  BY <1>4 DEF Clone, TypeOK, OpOK
  <2>3. [Run EXCEPT !.remote = RemoteHead] \in SyncRun  BY <2>2, RunType, HeadType DEF SyncRun
  <2>4. /\ [Run EXCEPT !.remote = RemoteHead].base = Run.base
        /\ [Run EXCEPT !.remote = RemoteHead].remote = RemoteHead
    BY <2>2, RunType DEF SyncRun
  <2>5. RunsOK'  BY <1>4, <2>2, <2>3, <2>4, RunType, HeadType, SavedRunOK DEF Clone
  <2>6. Len(runs') = Len(runs)  BY <1>4, <2>2, <2>3, SaveRunType DEF Clone
  <2>7. op' = [op EXCEPT !.phase = "copy", !.left = Files]  BY <1>4 DEF Clone
  <2>8. OpOK'  BY <2>2, <2>6, <2>7 DEF TypeOK, OpOK, Phases
  <2>9. QED  BY <2>1, <2>5, <2>8 DEF TypeOK
<1>5. CASE CopyFile
  <2>1. HistoryOK' /\ CountsOK'  BY <1>5 DEF CopyFile, TypeOK, HistoryOK, CountsOK
  <2>2. op.run # 0  BY <1>5 DEF CopyFile, TypeOK, OpOK
  <2>3. PICK f \in op.left :
          /\ SaveRun([Run EXCEPT !.local[f] = Workspace[f]])
          /\ op' = [op EXCEPT !.left = @ \ {f}, !.phase = IF op.left = {f} THEN "merge" ELSE @]
    BY <1>5 DEF CopyFile
  <2> DEFINE x == [Run EXCEPT !.local[f] = Workspace[f]]
  <2>4. f \in Files  BY DEF TypeOK, OpOK
  <2>5. [Run.local EXCEPT ![f] = Workspace[f]] \in Trees
    BY <2>2, <2>4, RunType, HeadType DEF SyncRun, Trees
  <2>6. x \in SyncRun /\ x.base = Run.base /\ x.remote = Run.remote
    BY <2>2, <2>5, RunType DEF SyncRun
  <2>7. SaveRun(x)  BY <2>3
  <2> HIDE DEF x
  <2>8. RunsOK'
    <3>1. remote' = remote  BY <1>5 DEF CopyFile
    <3>2. QED  BY <2>2, <2>6, <2>7, <3>1, RunType, SavedRunOK
  <2>9. Len(runs') = Len(runs)  BY <2>2, <2>6, <2>7, SaveRunType
  <2>10. op.phase = "copy"  BY <1>5 DEF CopyFile
  <2>11. OpOK'  BY <2>2, <2>3, <2>9, <2>10 DEF TypeOK, OpOK, Phases
  <2>12. QED  BY <2>1, <2>8, <2>11 DEF TypeOK
<1>6. QED  BY <1>1, <1>2, <1>3, <1>4, <1>5

\* A run that is saved with another status keeps its type, and so on.
LEMMA RunWith ==
  ASSUME NEW x \in SyncRun
  PROVE  /\ \A st \in Statuses : [x EXCEPT !.status = st] \in SyncRun
         /\ [x EXCEPT !.conflicts = {}] \in SyncRun
         /\ [x EXCEPT !.compiled = TRUE] \in SyncRun
         /\ \A n \in Nat : [x EXCEPT !.version = n] \in SyncRun
         /\ \A n \in Nat : [x EXCEPT !.status = "completed", !.synced = n] \in SyncRun
         /\ \A t \in Trees : [x EXCEPT !.clone = t] \in SyncRun
         /\ \A t \in Trees, C \in SUBSET Files :
              /\ [x EXCEPT !.clone = t, !.conflicts = C, !.status = "conflicts"] \in SyncRun
              /\ [x EXCEPT !.clone = t, !.staged = C] \in SyncRun
  BY DEF SyncRun, Statuses, Open

\* Merging yields a tree.
LEMMA MergedTree ==
  ASSUME TypeOK, op.run # 0
  PROVE  [f \in Files |-> Merged(remote[Run.base].tree[f], Run.local[f], remote[Run.remote].tree[f])]
           \in Trees
<1> DEFINE base == remote[Run.base].tree
           incoming == remote[Run.remote].tree
<1>1. base \in Trees /\ incoming \in Trees /\ Run.local \in Trees
  BY RunType DEF SyncRun
<1>2. \A f \in Files : base[f] \in SUBSET Ids /\ incoming[f] \in SUBSET Ids
                       /\ Run.local[f] \in SUBSET Ids
  BY <1>1 DEF Trees, Ids
<1> HIDE DEF base, incoming
<1>3. \A f \in Files : Merged(base[f], Run.local[f], incoming[f]) \in SUBSET Ids
  BY <1>2, MergedType
<1>4. QED  BY <1>3 DEF Trees, Ids, base, incoming

\* Merging saves that tree, and the conflicts if there are any.
LEMMA MergeSaves ==
  ASSUME TypeOK, Merge
  PROVE  /\ op.run # 0 /\ op.phase = "merge"
         /\ \E x \in SyncRun :
              /\ SaveRun(x) /\ x.base = Run.base /\ x.remote = Run.remote
              /\ \/ x.status = Run.status /\ Goes("before")
                 \/ x.status = "conflicts" /\ Ends
<1> DEFINE base == remote[Run.base].tree
           incoming == remote[Run.remote].tree
           C == {f \in Files : Conflicting(base[f], Run.local[f], incoming[f])}
           clone == [f \in Files |-> Merged(base[f], Run.local[f], incoming[f])]
           clean == [Run EXCEPT !.clone = clone]
           marked == [Run EXCEPT !.clone = clone, !.conflicts = C, !.status = "conflicts"]
<1>1. op.run # 0 /\ op.phase = "merge"  BY DEF Merge, TypeOK, OpOK
<1>2. clone \in Trees  BY <1>1, MergedTree
<1>3. C \in SUBSET Files  OBVIOUS
<1>4. /\ clean \in SyncRun /\ marked \in SyncRun  BY <1>1, <1>2, <1>3, RunType, RunWith
<1>5. /\ clean.status = Run.status /\ clean.base = Run.base /\ clean.remote = Run.remote
      /\ marked.status = "conflicts" /\ marked.base = Run.base /\ marked.remote = Run.remote
  BY <1>1, RunType DEF SyncRun
<1>6. \/ SaveRun(clean) /\ Goes("before")
      \/ SaveRun(marked) /\ Ends
  BY DEF Merge
<1> HIDE DEF clean, marked, C, clone, base, incoming
<1>7. QED  BY <1>1, <1>4, <1>5, <1>6

\* Choosing yields a tree.
LEMMA ChosenTree ==
  ASSUME TypeOK, NEW f \in Files, NEW c \in {"fastwrite", "github", "edited"}, op.run # 0
  PROVE  [Run.clone EXCEPT ![f] = ChosenSide(f, c)] \in Trees
<1>1. ChosenSide(f, c) \in SUBSET Ids
  <2>1. Run.local[f] \in SUBSET Ids /\ remote[Run.remote].tree[f] \in SUBSET Ids
    BY RunType DEF SyncRun, Trees, Ids
  <2>2. QED  BY <2>1 DEF ChosenSide, Sides
<1>2. QED  BY <1>1, RunType DEF SyncRun, Trees, Ids

\* Choosing saves that tree.
LEMMA ChooseSaves ==
  ASSUME TypeOK, NEW f \in Files, NEW c \in {"fastwrite", "github", "edited"}, Choose(f, c)
  PROVE  /\ op.run # 0 /\ op.phase = "choose" /\ op'.run = op.run /\ op'.phase = "choose"
         /\ op' = [op EXCEPT !.left = @ \ {f}]
         /\ \E x \in SyncRun : /\ SaveRun(x) /\ x.status = Run.status
                               /\ x.base = Run.base /\ x.remote = Run.remote
<1> DEFINE t == [Run.clone EXCEPT ![f] = ChosenSide(f, c)]
           x == [Run EXCEPT !.clone[f] = ChosenSide(f, c), !.staged = @ \cup {f}]
<1>1. op.run # 0 /\ op.phase = "choose"  BY DEF Choose, TypeOK, OpOK
<1>3. t \in Trees  BY <1>1, ChosenTree
<1>4. x \in SyncRun /\ x.status = Run.status /\ x.base = Run.base /\ x.remote = Run.remote
  BY <1>1, <1>3, RunType DEF SyncRun
<1>5. /\ SaveRun(x) /\ op'.run = op.run /\ op'.phase = op.phase
      /\ op' = [op EXCEPT !.left = @ \ {f}]
  BY DEF Choose, TypeOK, OpOK
<1> HIDE DEF x, t
<1>6. QED  BY <1>1, <1>4, <1>5

\* A status or a version of the run is saved, and nothing else of it.
LEMMA RunKeeps ==
  ASSUME NEW x \in SyncRun
  PROVE  /\ \A st \in Statuses : LET y == [x EXCEPT !.status = st] IN
              y.status = st /\ y.version = x.version /\ y.clone = x.clone
         /\ \A n \in Nat : LET y == [x EXCEPT !.version = n] IN
              y.status = x.status /\ y.version = n /\ y.clone = x.clone /\ y.remote = x.remote
         /\ \A n \in Nat : LET y == [x EXCEPT !.status = "completed", !.synced = n] IN
              /\ y.status = "completed" /\ y.version = x.version /\ y.clone = x.clone
              /\ y.synced = n
         /\ LET y == [x EXCEPT !.conflicts = {}] IN
              y.status = x.status /\ y.version = x.version /\ y.clone = x.clone
         /\ LET y == [x EXCEPT !.compiled = TRUE] IN
              /\ y.status = x.status /\ y.version = x.version /\ y.clone = x.clone
              /\ y.remote = x.remote /\ y.synced = x.synced
  BY DEF SyncRun

LEMMA MergeType == ASSUME TypeOK, Merge PROVE TypeOK'
<1>1. HistoryOK' /\ CountsOK' /\ remote' = remote  BY DEF Merge, TypeOK, HistoryOK, CountsOK
<1>2. op.run # 0  BY MergeSaves
<1>3. PICK x \in SyncRun : /\ SaveRun(x) /\ x.base = Run.base /\ x.remote = Run.remote
                           /\ Goes("before") \/ Ends
  BY MergeSaves
<1>4. SaveRun(x) /\ x.base = Run.base /\ x.remote = Run.remote  BY <1>3
<1>5. RunsOK'  BY <1>1, <1>2, <1>4, RunType, SavedRunOK
<1>6. Len(runs') = Len(runs) /\ Len(runs') \in Nat  BY <1>2, <1>4, <1>5, SaveRunType DEF RunsOK
<1>7. OpOK'
  <2>1. CASE Ends  BY <1>6, <2>1, EndsType
  <2>2. CASE Goes("before")  BY <1>2, <1>6, <2>2, GoesType DEF Phases
  <2>3. QED  BY <1>3, <2>1, <2>2
<1>8. QED  BY <1>1, <1>5, <1>7 DEF TypeOK

LEMMA ResolveType ==
  ASSUME TypeOK, NEW r \in DOMAIN runs,
         Resolve(r) \/ Finalize(r) \/ CompileSucceeds(r)
  PROVE  TypeOK'
<1>1. runs \in Seq(SyncRun) /\ runs[r] \in SyncRun /\ r \in 1 .. Len(runs)
  BY DEF TypeOK, RunsOK
<1>2. CASE Resolve(r)
  <2>1. HistoryOK' /\ RunsOK' /\ CountsOK'
    BY <1>2 DEF Resolve, TypeOK, HistoryOK, RunsOK, CountsOK
  <2>2. op' = [phase |-> "choose", run |-> r, left |-> runs[r].conflicts, before |-> 0]
    BY <1>2 DEF Resolve, NoOp
  <2>3. runs[r].conflicts \in SUBSET Files /\ runs' = runs  BY <1>1, <1>2 DEF SyncRun, Resolve
  <2>4. "choose" \in Phases  BY DEF Phases
  <2>5. r \in 0 .. Len(runs') /\ r # 0  BY <1>1, <2>3
  <2>6. op' \in [phase: Phases, run: 0..Len(runs'), left: SUBSET Files, before: Nat]
    BY <2>2, <2>3, <2>4, <2>5
  <2>7. OpOK'  BY <2>2, <2>5, <2>6 DEF OpOK
  <2>8. QED  BY <2>1, <2>7 DEF TypeOK
<1>3. CASE Finalize(r)
  <2>1. HistoryOK' /\ RunsOK' /\ CountsOK'
    BY <1>3 DEF Finalize, TypeOK, HistoryOK, RunsOK, CountsOK
  <2>2. op' = [phase |-> "observe", run |-> r, left |-> {}, before |-> 0]
    BY <1>3 DEF Finalize, NoOp
  <2>3. "observe" \in Phases  BY DEF Phases
  <2>4. r \in 0 .. Len(runs') /\ r # 0  BY <1>1, <1>3 DEF Finalize
  <2>5. op' \in [phase: Phases, run: 0..Len(runs'), left: SUBSET Files, before: Nat]
    BY <2>2, <2>3, <2>4
  <2>6. OpOK'  BY <2>2, <2>4, <2>5 DEF OpOK
  <2>7. QED  BY <2>1, <2>6 DEF TypeOK
<1>4. CASE CompileSucceeds(r)
  <2> DEFINE x == [runs[r] EXCEPT !.compiled = TRUE]
  <2>1. HistoryOK' /\ CountsOK'
    BY <1>4 DEF CompileSucceeds, TypeOK, HistoryOK, CountsOK
  <2>2. runs' = [runs EXCEPT ![r] = x]  BY <1>4 DEF CompileSucceeds
  <2>3. x \in SyncRun  BY <1>1, RunWith
  <2>4. /\ x.base = runs[r].base /\ x.remote = runs[r].remote /\ x.clone = runs[r].clone
    BY <1>1 DEF SyncRun
  <2> HIDE DEF x
  <2>5. /\ runs' \in Seq(SyncRun) /\ Len(runs') = Len(runs) /\ DOMAIN runs' = DOMAIN runs
        /\ runs'[r] = x /\ \A q \in DOMAIN runs : q # r => runs'[q] = runs[q]
    BY <1>1, <2>2, <2>3
  <2>6. \A q \in DOMAIN runs : /\ runs'[q].base = runs[q].base
                               /\ runs'[q].remote = runs[q].remote
                               /\ runs'[q].clone = runs[q].clone
    BY <2>4, <2>5
  <2>7. RunsOK'  BY <1>4, <2>5, <2>6 DEF CompileSucceeds, TypeOK, RunsOK
  <2>8. op' = op /\ remote' = remote  BY <1>4 DEF CompileSucceeds
  <2>9. op.phase = "source" => op.run \in DOMAIN runs  BY <1>1 DEF TypeOK, OpOK
  <2>10. OpOK'  BY <2>5, <2>6, <2>8, <2>9 DEF TypeOK, OpOK
  <2>11. QED  BY <2>1, <2>7, <2>10 DEF TypeOK
<1>5. QED  BY <1>2, <1>3, <1>4

LEMMA ChooseType ==
  ASSUME TypeOK,
         Resolved \/ \E f \in Files, c \in {"fastwrite", "github", "edited"} : Choose(f, c)
  PROVE  TypeOK'
<1>1. HistoryOK' /\ CountsOK' /\ op.run # 0 /\ remote' = remote
  BY DEF Resolved, Choose, TypeOK, HistoryOK, CountsOK, OpOK
<1>2. CASE Resolved
  <2> DEFINE x == [Run EXCEPT !.conflicts = {}]
  <2>1. x \in SyncRun  BY <1>1, RunType, RunWith
  <2>2. x.base = Run.base /\ x.remote = Run.remote  BY <1>1, RunType DEF SyncRun
  <2>3. SaveRun(x) /\ Goes("before")  BY <1>2 DEF Resolved
  <2> HIDE DEF x
  <2>4. RunsOK'  BY <1>1, <2>1, <2>2, <2>3, RunType, SavedRunOK
  <2>5. OpOK'  BY <1>1, <2>1, <2>3, SaveRunType, GoesType DEF Phases
  <2>6. QED  BY <1>1, <2>4, <2>5 DEF TypeOK
<1>3. ASSUME NEW f \in Files, NEW c \in {"fastwrite", "github", "edited"}, Choose(f, c)
      PROVE TypeOK'
  <2>1. PICK x \in SyncRun : SaveRun(x) /\ x.base = Run.base /\ x.remote = Run.remote
    BY <1>3, ChooseSaves
  <2>2. op.phase = "choose" /\ op' = [op EXCEPT !.left = @ \ {f}]  BY <1>3, ChooseSaves
  <2>3. RunsOK'  BY <1>1, <2>1, RunType, SavedRunOK
  <2>4. Len(runs') = Len(runs)  BY <1>1, <2>1, SaveRunType
  <2>5. OpOK'  BY <1>1, <2>2, <2>4 DEF TypeOK, OpOK
  <2>6. QED  BY <1>1, <2>3, <2>5 DEF TypeOK
<1>4. QED  BY <1>2, <1>3

LEMMA ApplyType ==
  ASSUME TypeOK, ReadVersion \/ ApplyGithubSyncTree \/ SkipsCompile \/ Ready
  PROVE  TypeOK'
<1>1. CountsOK' /\ op.run # 0 /\ remote' = remote
  BY DEF ReadVersion, ApplyGithubSyncTree, SkipsCompile, Ready, TypeOK, CountsOK, OpOK
<1>2. CASE ReadVersion
  <2>1. HistoryOK' /\ RunsOK'  BY <1>2 DEF ReadVersion, TypeOK, HistoryOK, RunsOK
  <2>2. op' = [op EXCEPT !.phase = "apply", !.before = Version] /\ runs' = runs
    BY <1>2 DEF ReadVersion
  <2>3. Version \in Nat  BY HeadType
  <2>4. OpOK'  BY <1>1, <2>2, <2>3 DEF TypeOK, OpOK, Phases
  <2>5. QED  BY <1>1, <2>1, <2>4 DEF TypeOK
<1>3. CASE ApplyGithubSyncTree
  <2> DEFINE x == [Run EXCEPT !.version = Len(trees')]
             phase == IF Len(trees') = op.before /\ Run.clone = remote[Run.remote].tree
                      THEN "unchanged" ELSE "ready"
  <2>1. Run.clone \in Trees  BY <1>1, RunType DEF SyncRun
  <2>2. trees' = IF Workspace = Run.clone THEN trees ELSE Append(trees, Run.clone)
    BY <1>3 DEF ApplyGithubSyncTree
  <2>3. trees \in Seq(Trees) /\ trees # <<>>  BY DEF TypeOK, HistoryOK
  <2>4. trees' \in Seq(Trees) /\ trees' # <<>> /\ Len(trees') \in Nat
    BY <2>1, <2>2, <2>3
  <2>5. HistoryOK'  BY <1>1, <1>3, <2>4 DEF ApplyGithubSyncTree, TypeOK, HistoryOK
  <2>6. x \in SyncRun  BY <1>1, <2>4, RunType, RunWith
  <2>7. x.base = Run.base /\ x.remote = Run.remote  BY <1>1, RunType DEF SyncRun
  <2>8. SaveRun(x) /\ Goes(phase)  BY <1>3 DEF ApplyGithubSyncTree
  <2>9. phase \in Phases \ {"source"}  BY DEF Phases
  <2> HIDE DEF x, phase
  <2>10. RunsOK'  BY <1>1, <2>6, <2>7, <2>8, RunType, SavedRunOK
  <2>11. OpOK'  BY <1>1, <2>6, <2>8, <2>9, SaveRunType, GoesType
  <2>12. QED  BY <1>1, <2>5, <2>10, <2>11 DEF TypeOK
<1>4. CASE SkipsCompile
  <2>1. source' = Run.remote /\ trees' = trees /\ runs' = runs  BY <1>4 DEF SkipsCompile
  <2>2. Run.remote \in DOMAIN remote  BY <1>1, RunType
  <2>3. HistoryOK' /\ RunsOK'  BY <1>1, <2>1, <2>2 DEF TypeOK, HistoryOK, RunsOK
  <2>4. OpOK'  BY <1>1, <1>4, GoesType DEF SkipsCompile, Phases
  <2>5. QED  BY <1>1, <2>3, <2>4 DEF TypeOK
<1>5. CASE Ready
  <2> DEFINE x == [Run EXCEPT !.status = "ready-to-compile"]
  <2>1. HistoryOK'  BY <1>5 DEF Ready, TypeOK, HistoryOK
  <2>2. "ready-to-compile" \in Statuses  BY DEF Statuses, Open
  <2>3. x \in SyncRun  BY <1>1, <2>2, RunType, RunWith
  <2>4. x.base = Run.base /\ x.remote = Run.remote  BY <1>1, RunType DEF SyncRun
  <2>5. SaveRun(x) /\ Ends  BY <1>5 DEF Ready
  <2> HIDE DEF x
  <2>6. RunsOK'  BY <1>1, <2>3, <2>4, <2>5, RunType, SavedRunOK
  <2>7. Len(runs') \in Nat  BY <2>6 DEF RunsOK
  <2>8. OpOK'  BY <2>5, <2>7, EndsType
  <2>9. QED  BY <1>1, <2>1, <2>6, <2>8 DEF TypeOK
<1>6. QED  BY <1>2, <1>3, <1>4, <1>5

\* The status of the run is all that changes: remote-changed, failed.
LEMMA ClosesType ==
  ASSUME TypeOK, op.run # 0, remote' = remote, NEW st \in Statuses,
         SaveRun([Run EXCEPT !.status = st]), Ends
  PROVE  RunsOK' /\ OpOK'
<1> DEFINE x == [Run EXCEPT !.status = st]
<1>1. x \in SyncRun  BY RunType, RunWith
<1>2. x.base = Run.base /\ x.remote = Run.remote  BY RunType DEF SyncRun
<1> HIDE DEF x
<1>3. RunsOK'  BY <1>1, <1>2, RunType, SavedRunOK DEF x
<1>4. QED  BY <1>3, EndsType DEF RunsOK

\* A commit is appended to the branch, by somebody.
LEMMA AppendCommit ==
  ASSUME TypeOK, NEW c \in Commit, remote' = Append(remote, c)
  PROVE  /\ remote' \in Seq(Commit) /\ DOMAIN remote' = DOMAIN remote \cup {Len(remote) + 1}
         /\ remote'[Len(remote) + 1] = c /\ Len(remote) + 1 \notin DOMAIN remote
         /\ \A i \in DOMAIN remote : remote'[i] = remote[i] /\ i \in DOMAIN remote'
<1>1. remote \in Seq(Commit)  BY DEF TypeOK, HistoryOK
<1>2. QED  BY <1>1

LEMMA PushedCommit ==
  ASSUME TypeOK, op.run # 0
  PROVE  [tree |-> Run.clone, parent |-> Run.remote, by |-> op.run] \in Commit
<1>1. Run.clone \in Trees /\ Run.remote \in Nat /\ op.run \in Nat
  BY RunType DEF SyncRun, TypeOK, OpOK
<1>2. QED  BY <1>1 DEF Commit

LEMMA PublishType ==
  ASSUME TypeOK, ObserveRemote \/ Push \/ PushFails \/ UpdateSource \/ Complete
  PROVE  TypeOK'
<1> USE GithubSyncAssumption
<1> DEFINE c == [tree |-> Run.clone, parent |-> Run.remote, by |-> op.run]
<1>1. op.run # 0 /\ op.run \in Nat
  BY DEF ObserveRemote, Push, PushFails, UpdateSource, Complete, TypeOK, OpOK
<1>2. "remote-changed" \in Statuses /\ "failed" \in Statuses  BY DEF Statuses, Open
<1>3. c \in Commit /\ c.by = op.run  BY <1>1, PushedCommit
<1>4. Pushes => remote' = Append(remote, c)  BY DEF Pushes
<1> HIDE DEF c
<1>5. ASSUME remote' = Append(remote, c), trees' = trees, source' = source, runs' = runs
      PROVE  HistoryOK' /\ RunsOK'
  BY <1>3, <1>5, AppendCommit DEF TypeOK, HistoryOK, RunsOK
<1>6. CASE ObserveRemote
  <2>1. HistoryOK' /\ CountsOK' /\ remote' = remote
    BY <1>6 DEF ObserveRemote, TypeOK, HistoryOK, CountsOK
  <2>2. CASE RemoteHead # Run.remote
    BY <1>1, <1>2, <1>6, <2>1, <2>2, ClosesType DEF ObserveRemote, RemoteChanged, TypeOK
  <2>3. CASE RemoteHead = Run.remote
    <3> DEFINE phase == IF Run.clone = remote[Run.remote].tree THEN "source" ELSE "push"
    <3>1. runs' = runs /\ op' = [op EXCEPT !.phase = phase]
      BY <1>6, <2>3 DEF ObserveRemote, Goes
    <3>2. RunsOK'  BY <2>1, <3>1 DEF TypeOK, RunsOK
    <3>3. phase \in Phases  BY DEF Phases
    <3>4. phase = "source" => Run.clone = remote[Run.remote].tree  OBVIOUS
    <3> HIDE DEF phase
    <3>5. op' \in [phase: Phases, run: 0..Len(runs'), left: SUBSET Files, before: Nat]
          /\ op'.phase = phase /\ op'.run = op.run
      BY <3>1, <3>3 DEF TypeOK, OpOK
    <3>6. OpOK'  BY <1>1, <2>1, <3>1, <3>4, <3>5 DEF OpOK
    <3>7. QED  BY <2>1, <3>2, <3>6 DEF TypeOK
  <2>4. QED  BY <2>2, <2>3
<1>7. CASE Push
  <2>1. CountsOK' /\ trees' = trees /\ source' = source
    BY <1>7 DEF Push, TypeOK, CountsOK
  <2>2. CASE FastForward
    <3>1. remote' = Append(remote, c) /\ runs' = runs /\ Goes("source")
      BY <1>4, <1>7, <2>2 DEF Push
    <3>2. HistoryOK' /\ RunsOK'  BY <1>5, <2>1, <3>1
    <3>3. op' \in [phase: Phases, run: 0..Len(runs'), left: SUBSET Files, before: Nat]
          /\ op'.run = op.run
      BY <3>1 DEF Goes, TypeOK, OpOK, Phases
    <3>4. \E i \in DOMAIN remote' : remote'[i].by = op.run
      BY <1>3, <3>1, AppendCommit
    <3>5. OpOK'  BY <1>1, <3>3, <3>4 DEF OpOK
    <3>6. QED  BY <2>1, <3>2, <3>5 DEF TypeOK
  <2>3. CASE ~FastForward
    <3>1. remote' = remote /\ SaveRun([Run EXCEPT !.status = "remote-changed"]) /\ Ends
      BY <1>7, <2>3 DEF Push, RemoteChanged
    <3>2. RunsOK' /\ OpOK'  BY <1>1, <1>2, <3>1, ClosesType
    <3>3. HistoryOK'  BY <2>1, <3>1 DEF TypeOK, HistoryOK
    <3>4. QED  BY <2>1, <3>2, <3>3 DEF TypeOK
  <2>4. QED  BY <2>2, <2>3
<1>8. CASE PushFails
  <2> DEFINE x == [Run EXCEPT !.status = "failed"]
  <2>1. trees' = trees /\ source' = source /\ edits' = edits /\ SaveRun(x) /\ Ends
    BY <1>8 DEF PushFails
  <2>2. CountsOK'  BY <1>8 DEF PushFails, Uses, TypeOK, CountsOK
  <2>3. remote' = Append(remote, c) \/ remote' = remote  BY <1>4, <1>8 DEF PushFails
  <2>4. HistoryOK' /\ \A i \in DOMAIN remote : i \in DOMAIN remote'
    BY <1>3, <2>1, <2>3, AppendCommit DEF TypeOK, HistoryOK
  <2>5. x \in SyncRun  BY <1>1, <1>2, RunType, RunWith
  <2>6. x.base = Run.base /\ x.remote = Run.remote  BY <1>1, RunType DEF SyncRun
  <2> HIDE DEF x
  <2>7. RunsOK'  BY <1>1, <2>1, <2>4, <2>5, <2>6, RunType, SavedRunOK
  <2>8. OpOK'  BY <2>1, <2>7, EndsType DEF RunsOK
  <2>9. QED  BY <2>2, <2>4, <2>7, <2>8 DEF TypeOK
<1>9. CASE UpdateSource
  <2>1. CountsOK' /\ trees' = trees /\ remote' = remote /\ runs' = runs
    BY <1>9 DEF UpdateSource, TypeOK, CountsOK
  <2>2. source' = IF Run.clone = remote[Run.remote].tree THEN Run.remote
                  ELSE CHOOSE i \in DOMAIN remote : remote[i].by = op.run
    BY <1>9 DEF UpdateSource
  <2>3. Run.clone # remote[Run.remote].tree => \E i \in DOMAIN remote : remote[i].by = op.run
    BY <1>9 DEF UpdateSource, TypeOK, OpOK
  <2>4. source' \in DOMAIN remote  BY <1>1, <2>2, <2>3, RunType
  <2>5. HistoryOK' /\ RunsOK'  BY <2>1, <2>4 DEF TypeOK, HistoryOK, RunsOK
  <2>6. OpOK'  BY <1>1, <1>9, GoesType DEF UpdateSource, Phases
  <2>7. QED  BY <2>1, <2>5, <2>6 DEF TypeOK
<1>10. CASE Complete
  <2> DEFINE x == [Run EXCEPT !.status = "completed", !.synced = source]
  <2>1. HistoryOK' /\ CountsOK' /\ remote' = remote /\ SaveRun(x) /\ Ends
    BY <1>10 DEF Complete, TypeOK, HistoryOK, CountsOK
  <2>2. source \in Nat  BY HeadType DEF TypeOK, HistoryOK
  <2>3. x \in SyncRun  BY <1>1, <2>2, RunType, RunWith
  <2>4. x.base = Run.base /\ x.remote = Run.remote  BY <1>1, RunType DEF SyncRun
  <2> HIDE DEF x
  <2>5. RunsOK'  BY <1>1, <2>1, <2>3, <2>4, RunType, SavedRunOK
  <2>6. OpOK'  BY <2>1, <2>5, EndsType DEF RunsOK
  <2>7. QED  BY <2>1, <2>5, <2>6 DEF TypeOK
<1>11. QED  BY <1>6, <1>7, <1>8, <1>9, <1>10

LEMMA OthersType ==
  ASSUME TypeOK,
         (\E f \in Files : UserEdits(f) \/ OthersPush(f)) \/ ApplyRefused \/ StepFails \/ Crash
  PROVE  TypeOK'
<1> USE GithubSyncAssumption
<1>1. ASSUME NEW f \in Files, UserEdits(f) PROVE TypeOK'
  <2> DEFINE t == [Workspace EXCEPT ![f] = @ \cup {edits.local + 1}]
  <2>1. edits.local \in 0 .. MaxLocal /\ used["local"] < MaxLocal /\ edits.local = used["local"]
    BY <1>1 DEF UserEdits, Uses, TypeOK, CountsOK
  <2>2. edits.local + 1 \in Ids /\ edits.local + 1 \in 0 .. MaxLocal  BY <2>1 DEF Ids
  <2>3. t \in Trees  BY <2>2, HeadType DEF Trees, Ids
  <2>4. trees' = Append(trees, t) /\ remote' = remote /\ source' = source
        /\ runs' = runs /\ op' = op
    BY <1>1 DEF UserEdits
  <2> HIDE DEF t
  <2>5. HistoryOK'
    <3>1. trees \in Seq(Trees)  BY DEF TypeOK, HistoryOK
    <3>2. trees' \in Seq(Trees) /\ trees' # <<>>  BY <2>3, <2>4, <3>1
    <3>3. QED  BY <2>4, <3>2 DEF TypeOK, HistoryOK
  <2>6. CountsOK'
    <3>1. edits' = [edits EXCEPT !.local = @ + 1] /\ used' = [used EXCEPT !["local"] = @ + 1]
      BY <1>1 DEF UserEdits, Uses
    <3>2. QED  BY <2>1, <2>2, <3>1 DEF TypeOK, CountsOK
  <2>7. RunsOK' /\ OpOK'  BY <2>4 DEF TypeOK, RunsOK, OpOK
  <2>8. QED  BY <2>5, <2>6, <2>7 DEF TypeOK
<1>2. ASSUME NEW f \in Files, OthersPush(f) PROVE TypeOK'
  <2> DEFINE t == [remote[RemoteHead].tree EXCEPT ![f] = @ \cup {MaxLocal + edits.remote + 1}]
             c == [tree |-> t, parent |-> RemoteHead, by |-> 0]
  <2>1. edits.remote \in 0 .. MaxRemote /\ used["remote"] < MaxRemote
        /\ edits.remote = used["remote"]
    BY <1>2 DEF OthersPush, Uses, TypeOK, CountsOK
  <2>2. MaxLocal + edits.remote + 1 \in Ids /\ edits.remote + 1 \in 0 .. MaxRemote
    BY <2>1 DEF Ids
  <2>3. t \in Trees  BY <2>2, HeadType DEF Trees, Ids
  <2> HIDE DEF t
  <2>4. c \in Commit  BY <2>3, HeadType DEF Commit
  <2>5. remote' = Append(remote, c) /\ trees' = trees /\ source' = source
        /\ runs' = runs /\ op' = op
    BY <1>2 DEF OthersPush, t
  <2> HIDE DEF c
  <2>6. HistoryOK' /\ RunsOK'
    BY <2>4, <2>5, AppendCommit DEF TypeOK, HistoryOK, RunsOK
  <2>7. CountsOK'
    <3>1. edits' = [edits EXCEPT !.remote = @ + 1] /\ used' = [used EXCEPT !["remote"] = @ + 1]
      BY <1>2 DEF OthersPush, Uses
    <3>2. QED  BY <2>1, <2>2, <3>1 DEF TypeOK, CountsOK
  <2>8. OpOK'
    <3>1. op.run # 0 => remote'[Run.remote] = remote[Run.remote]
      BY <2>4, <2>5, RunType, AppendCommit
    <3>2. \A i \in DOMAIN remote : i \in DOMAIN remote' /\ remote'[i] = remote[i]
      BY <2>4, <2>5, AppendCommit
    <3>3. QED  BY <2>5, <3>1, <3>2 DEF TypeOK, OpOK
  <2>9. QED  BY <2>6, <2>7, <2>8 DEF TypeOK
<1>3. ASSUME ApplyRefused \/ StepFails \/ Crash PROVE TypeOK'
  <2>1. HistoryOK' /\ RunsOK' /\ Ends /\ runs' = runs
    BY <1>3 DEF ApplyRefused, StepFails, Crash, Interrupted, TypeOK, HistoryOK, RunsOK
  <2>2. CountsOK'  BY <1>3 DEF ApplyRefused, StepFails, Crash, Interrupted, Uses, TypeOK, CountsOK
  <2>3. OpOK'  BY <2>1, EndsType DEF RunsOK
  <2>4. QED  BY <2>1, <2>2, <2>3 DEF TypeOK
<1>4. QED  BY <1>1, <1>2, <1>3

\* An application that stops leaves a tree, made of files of two trees.
LEMMA TornType ==
  ASSUME TypeOK, op.run # 0, NEW t \in TornTrees(Workspace, Run.clone)
  PROVE  /\ t \in Trees
         /\ \A f \in Files : t[f] \in {{}, Workspace[f], Run.clone[f]}
<1>1. Workspace \in Trees /\ Run.clone \in Trees  BY HeadType, RunType DEF SyncRun
<1>2. \/ \E R \in SUBSET Files : t = Removing(Workspace, R)
      \/ \E C \in SUBSET Files : t = Copying(Run.clone, C)
  BY DEF TornTrees
<1>3. \A w \in Trees, S \in SUBSET Files : Removing(w, S) \in Trees /\ Copying(w, S) \in Trees
  BY DEF Removing, Copying, Trees
<1>4. t \in Trees  BY <1>1, <1>2, <1>3
<1>5. \A f \in Files : t[f] \in {{}, Workspace[f], Run.clone[f]}
  BY <1>2 DEF Removing, Copying
<1>6. QED  BY <1>4, <1>5

\* What such a stop changes.
LEMMA Stopped ==
  ASSUME TypeOK, ApplyStops
  PROVE  /\ op.run # 0 /\ op.phase = "apply" /\ Ends
         /\ remote' = remote /\ source' = source /\ runs' = runs /\ edits' = edits
         /\ trees' \in Seq(Trees) /\ trees' # <<>> /\ Workspace' \in Trees
         /\ \A f \in Files :
              (Workspace')[f] \in {Workspace[f], Run.clone[f]} \/ Workspace[f] \subseteq lost'
<1>1. op.run # 0  BY DEF ApplyStops, TypeOK, OpOK
<1>2. PICK t \in TornTrees(Workspace, Run.clone) :
        /\ trees' = [trees EXCEPT ![Version] = t]
        /\ lost' = lost \cup UNION {Workspace[f] : f \in {g \in Files : t[g] = {}}}
  BY DEF ApplyStops
<1>3. t \in Trees /\ \A f \in Files : t[f] \in {{}, Workspace[f], Run.clone[f]}
  BY <1>1, TornType
<1>4. trees \in Seq(Trees) /\ Version \in DOMAIN trees  BY HeadType DEF TypeOK, HistoryOK
<1>5. /\ trees' \in Seq(Trees) /\ trees' # <<>> /\ Len(trees') = Len(trees)
      /\ trees'[Len(trees')] = t
  BY <1>2, <1>3, <1>4
<1>6. \A f \in Files : t[f] = {} => Workspace[f] \subseteq lost'  BY <1>2
<1>7. QED  BY <1>1, <1>3, <1>5, <1>6 DEF ApplyStops

LEMMA StopsType == ASSUME TypeOK, ApplyStops PROVE TypeOK'
<1> USE GithubSyncAssumption
<1>1. HistoryOK'  BY Stopped DEF TypeOK, HistoryOK
<1>2. RunsOK'  BY Stopped DEF TypeOK, RunsOK
<1>3. OpOK'  BY <1>2, Stopped, EndsType DEF RunsOK
<1>4. edits' = edits  BY Stopped
<1>5. \E b \in {"failures", "crashes"} : used' = [used EXCEPT ![b] = @ + 1]
  BY DEF ApplyStops, Uses
<1>6. CountsOK'  BY <1>4, <1>5 DEF TypeOK, CountsOK
<1>7. QED  BY <1>1, <1>2, <1>3, <1>6 DEF TypeOK

LEMMA StepType == ASSUME TypeOK, [Next]_vars PROVE TypeOK'
<1>1. CASE UNCHANGED vars
  <2>1. HistoryOK' /\ RunsOK'  BY <1>1 DEF vars, TypeOK, HistoryOK, RunsOK
  <2>2. OpOK' /\ CountsOK'  BY <1>1 DEF vars, TypeOK, OpOK, CountsOK
  <2>3. QED  BY <2>1, <2>2 DEF TypeOK
<1>2. CASE Next
  BY <1>2, StartType, MergeType, ResolveType, ChooseType, ApplyType, StopsType, PublishType,
     OthersType
     DEF Next
<1>3. QED  BY <1>1, <1>2

\* Stored runs, the branch, the workspace and the operation in progress keep their
\* types, and a run always finds the commit it pushed (GithubSyncService).
THEOREM TypeCorrect == Spec => []TypeOK
<1>1. Init => TypeOK  BY InitType
<1>2. TypeOK /\ [Next]_vars => TypeOK'  BY StepType
<1>3. QED  BY <1>1, <1>2, PTL DEF Spec

-----------------------------------------------------------------------------
\* At most one run is open: starting discards the open ones before there is a new
\* one, and an operation about a run begins when no other is open.

Cloning    == {"clone", "copy", "merge"}
Applying   == {"before", "apply", "unchanged", "ready"}
Publishing == {"observe", "push", "source"}

\* The status that the run of an operation has while the operation is under way.
StatusFits ==
  /\ op.phase \in Cloning => Run.status = "failed"
  /\ op.phase = "choose" => Run.status = "conflicts"
  /\ op.phase \in Applying => Run.status \in {"failed", "conflicts"}
  /\ op.phase \in Publishing => Run.status = "ready-to-compile"

OpenRuns == {r \in DOMAIN runs : runs[r].status \in Open}

OpenInv ==
  /\ op.phase = "create" => OpenRuns = {}
  /\ \A r, s \in OpenRuns : r = s
  /\ op.run # 0 => OpenRuns \subseteq {op.run}

\* A step that only saves the run of the operation opens no other run.
LEMMA SavedOpen ==
  ASSUME TypeOK, OpenInv, op.run # 0, NEW x \in SyncRun, SaveRun(x)
  PROVE  OpenRuns' \subseteq {op.run} /\ runs'[op.run] = x
<1>1. \A r \in DOMAIN runs : r # op.run => runs[r].status \notin Open
  BY DEF OpenInv, OpenRuns
<1>2. \A r \in DOMAIN runs' : r # op.run => runs'[r].status \notin Open
  BY <1>1, SaveRunType
<1>3. QED  BY <1>2, SaveRunType DEF OpenRuns

\* Such a step, when the operation ends or goes on with a run that fits.
LEMMA SavedFits ==
  ASSUME TypeOK, OpenInv, op.run # 0, NEW x \in SyncRun, SaveRun(x),
         \/ Ends
         \/ /\ op'.run = op.run /\ op'.phase \in Phases \ {"create"}
            /\ op'.phase \in Cloning => x.status = "failed"
            /\ op'.phase = "choose" => x.status = "conflicts"
            /\ op'.phase \in Applying => x.status \in {"failed", "conflicts"}
            /\ op'.phase \in Publishing => x.status = "ready-to-compile"
  PROVE  OpenInv' /\ StatusFits'
<1>1. OpenRuns' \subseteq {op.run} /\ runs'[op.run] = x  BY SavedOpen
<1>2. CASE Ends
  BY <1>1, <1>2 DEF Ends, NoOp, OpenInv, StatusFits, Cloning, Applying, Publishing
<1>3. CASE ~Ends
  BY <1>1, <1>3 DEF OpenInv, StatusFits
<1>4. QED  BY <1>2, <1>3

\* A step that leaves the runs alone.
LEMMA SameRuns ==
  ASSUME TypeOK, OpenInv, StatusFits, runs' = runs,
         \/ Ends
         \/ /\ op'.run = op.run /\ op'.phase \in Phases \ {"create"}
            /\ \/ op'.phase = op.phase \/ op'.phase \in {"complete", "idle", "discard"}
               \/ {op.phase, op'.phase} \subseteq Applying
               \/ {op.phase, op'.phase} \subseteq Publishing
  PROVE  OpenInv' /\ StatusFits'
<1>1. OpenRuns' = OpenRuns  BY DEF OpenRuns
<1>2. CASE Ends
  BY <1>1, <1>2 DEF Ends, NoOp, OpenInv, StatusFits, Cloning, Applying, Publishing
<1>3. CASE ~Ends
  <2>1. OpenInv'  BY <1>1, <1>3 DEF OpenInv
  <2>2. runs'[op'.run] = runs[op.run]  BY <1>3
  <2>3. StatusFits'  BY <1>3, <2>2 DEF StatusFits, Cloning, Applying, Publishing
  <2>4. QED  BY <2>1, <2>3
<1>4. QED  BY <1>2, <1>3

LEMMA OpenStart ==
  ASSUME TypeOK, OpenInv, StatusFits,
         StartSync \/ Discard \/ CreateRun \/ Clone \/ CopyFile
  PROVE  OpenInv' /\ StatusFits'
<1>1. CASE StartSync
  <2>1. runs' = runs /\ op'.phase = "discard" /\ op'.run = 0  BY <1>1 DEF StartSync, NoOp
  <2>2. QED  BY <2>1 DEF OpenInv, OpenRuns, StatusFits, Cloning, Applying, Publishing
<1>2. CASE Discard
  <2>1. runs \in Seq(SyncRun)  BY DEF TypeOK, RunsOK
  <2>2. \A r \in DOMAIN runs : runs'[r].status \notin Open
    <3>1. ASSUME NEW r \in DOMAIN runs PROVE runs'[r].status \notin Open
      <4>1. runs[r] \in SyncRun  BY <2>1
      <4>2. [runs[r] EXCEPT !.status = "failed"].status = "failed"  BY <4>1 DEF SyncRun
      <4>3. "failed" \notin Open  BY DEF Open
      <4>4. runs'[r] = IF runs[r].status \in Open THEN [runs[r] EXCEPT !.status = "failed"] ELSE runs[r]
        BY <1>2, <2>1 DEF Discard, DiscardOpenRuns
      <4>5. QED  BY <4>2, <4>3, <4>4
    <3>2. QED  BY <3>1
  <2>3. DOMAIN runs' = DOMAIN runs  BY <1>2 DEF Discard, DiscardOpenRuns
  <2>4. op'.phase = "create" /\ op'.run = op.run  BY <1>2 DEF Discard, Goes, TypeOK, OpOK
  <2>5. OpenRuns' = {}  BY <2>2, <2>3 DEF OpenRuns
  <2>6. QED  BY <2>4, <2>5 DEF OpenInv, StatusFits, Cloning, Applying, Publishing
<1>3. CASE CreateRun
  <2> DEFINE x == [status |-> "failed", base |-> source, remote |-> source, synced |-> 0,
                   local |-> remote[source].tree, clone |-> remote[source].tree,
                   conflicts |-> {}, staged |-> {}, version |-> 0, compiled |-> FALSE]
  <2>1. runs' = Append(runs, x) /\ x.status = "failed"  BY <1>3 DEF CreateRun
  <2> HIDE DEF x
  <2>2. runs \in Seq(SyncRun)  BY DEF TypeOK, RunsOK
  <2>3. /\ runs'[Len(runs) + 1] = x /\ DOMAIN runs' = DOMAIN runs \cup {Len(runs) + 1}
        /\ \A r \in DOMAIN runs : runs'[r] = runs[r]
    BY <2>1, <2>2
  <2>4. OpenRuns = {}  BY <1>3 DEF CreateRun, OpenInv
  <2>5. OpenRuns' = {}  BY <2>1, <2>3, <2>4 DEF OpenRuns, Open
  <2>6. op'.phase = "clone" /\ op'.run = Len(runs) + 1
    BY <1>3 DEF CreateRun, TypeOK, OpOK
  <2>7. QED  BY <2>1, <2>3, <2>5, <2>6 DEF OpenInv, StatusFits, Cloning, Applying, Publishing
<1>4. CASE Clone
  <2> DEFINE x == [Run EXCEPT !.remote = RemoteHead]
  <2>1. op.run # 0 /\ op.phase = "clone"  BY <1>4 DEF Clone, TypeOK, OpOK
  <2>2. x \in SyncRun /\ x.status = Run.status  BY <2>1, RunType, HeadType DEF SyncRun
  <2>3. SaveRun(x) /\ op'.phase = "copy" /\ op'.run = op.run
    BY <1>4 DEF Clone, TypeOK, OpOK
  <2>4. x.status = "failed"  BY <2>1, <2>2 DEF StatusFits, Cloning
  <2> HIDE DEF x
  <2>5. QED  BY <2>1, <2>2, <2>3, <2>4, SavedFits DEF Phases, Cloning, Applying, Publishing
<1>5. CASE CopyFile
  <2>1. op.run # 0 /\ op.phase = "copy"  BY <1>5 DEF CopyFile, TypeOK, OpOK
  <2>2. PICK f \in op.left :
          /\ SaveRun([Run EXCEPT !.local[f] = Workspace[f]])
          /\ op' = [op EXCEPT !.left = @ \ {f}, !.phase = IF op.left = {f} THEN "merge" ELSE @]
    BY <1>5 DEF CopyFile
  <2> DEFINE x == [Run EXCEPT !.local[f] = Workspace[f]]
  <2>3. f \in Files  BY DEF TypeOK, OpOK
  <2>4. [Run.local EXCEPT ![f] = Workspace[f]] \in Trees
    BY <2>1, <2>3, RunType, HeadType DEF SyncRun, Trees
  <2>5. x \in SyncRun /\ x.status = Run.status  BY <2>1, <2>4, RunType DEF SyncRun
  <2>6. SaveRun(x) /\ op'.phase \in {"copy", "merge"} /\ op'.run = op.run
    BY <2>1, <2>2 DEF TypeOK, OpOK
  <2>7. x.status = "failed"  BY <2>1, <2>5 DEF StatusFits, Cloning
  <2> HIDE DEF x
  <2>8. QED  BY <2>1, <2>5, <2>6, <2>7, SavedFits DEF Phases, Cloning, Applying, Publishing
<1>6. QED  BY <1>1, <1>2, <1>3, <1>4, <1>5

\* A compilation changes nothing that the operations look at.
LEMMA CompileKeeps ==
  ASSUME TypeOK, NEW r \in DOMAIN runs, CompileSucceeds(r)
  PROVE  /\ DOMAIN runs' = DOMAIN runs
         /\ \A q \in DOMAIN runs :
              /\ runs'[q].status = runs[q].status /\ runs'[q].version = runs[q].version
              /\ runs'[q].clone = runs[q].clone /\ runs'[q].synced = runs[q].synced
              /\ runs'[q].remote = runs[q].remote
<1>1. runs \in Seq(SyncRun) /\ runs[r] \in SyncRun  BY DEF TypeOK, RunsOK
<1> DEFINE x == [runs[r] EXCEPT !.compiled = TRUE]
<1>2. runs' = [runs EXCEPT ![r] = x]  BY DEF CompileSucceeds
<1>3. /\ x.status = runs[r].status /\ x.version = runs[r].version /\ x.clone = runs[r].clone
      /\ x.remote = runs[r].remote /\ x.synced = runs[r].synced
  BY <1>1, RunKeeps
<1> HIDE DEF x
<1>4. QED  BY <1>1, <1>2, <1>3

LEMMA OpenResolve ==
  ASSUME TypeOK, OpenInv, StatusFits, NEW r \in DOMAIN runs,
         Resolve(r) \/ Finalize(r) \/ CompileSucceeds(r)
  PROVE  OpenInv' /\ StatusFits'
<1>1. CASE Resolve(r)
  <2>1. /\ runs' = runs /\ runs[r].status = "conflicts" /\ op'.phase = "choose" /\ op'.run = r
    BY <1>1 DEF Resolve, NoOp
  <2>2. r \in OpenRuns /\ OpenRuns' = OpenRuns  BY <2>1 DEF OpenRuns, Open
  <2>3. QED  BY <2>1, <2>2 DEF OpenInv, StatusFits, Cloning, Applying, Publishing
<1>2. CASE Finalize(r)
  <2>1. /\ runs' = runs /\ runs[r].status = "ready-to-compile"
        /\ op'.phase = "observe" /\ op'.run = r
    BY <1>2 DEF Finalize, Publishable, NoOp
  <2>2. r \in OpenRuns /\ OpenRuns' = OpenRuns  BY <2>1 DEF OpenRuns, Open
  <2>3. QED  BY <2>1, <2>2 DEF OpenInv, StatusFits, Cloning, Applying, Publishing
<1>3. CASE CompileSucceeds(r)
  <2>1. op' = op  BY <1>3 DEF CompileSucceeds
  <2>2. OpenRuns' = OpenRuns  BY <1>3, CompileKeeps DEF OpenRuns
  <2>3. op.run # 0 => Run.status = (runs[op.run].status)'
    BY <1>3, <2>1, RunType, CompileKeeps
  <2>4. op.phase \in Cloning \cup Applying \cup Publishing \cup {"choose"} => op.run # 0
    BY DEF TypeOK, OpOK, Cloning, Applying, Publishing
  <2>5. OpenInv'  BY <2>1, <2>2 DEF OpenInv
  <2>6. StatusFits'  BY <2>1, <2>3, <2>4 DEF StatusFits
  <2>7. QED  BY <2>5, <2>6
<1>4. QED  BY <1>1, <1>2, <1>3

LEMMA OpenApply ==
  ASSUME TypeOK, OpenInv, StatusFits,
         Resolved \/ ReadVersion \/ ApplyGithubSyncTree \/ SkipsCompile \/ Ready
  PROVE  OpenInv' /\ StatusFits'
<1>1. op.run # 0
  BY DEF Resolved, ReadVersion, ApplyGithubSyncTree, SkipsCompile, Ready, TypeOK, OpOK
<1>2. CASE Resolved
  <2> DEFINE x == [Run EXCEPT !.conflicts = {}]
  <2>1. x \in SyncRun /\ x.status = Run.status  BY <1>1, RunType, RunWith, RunKeeps
  <2>2. SaveRun(x) /\ op'.phase = "before" /\ op'.run = op.run /\ op.phase = "choose"
    BY <1>2 DEF Resolved, Goes, TypeOK, OpOK
  <2> HIDE DEF x
  <2>3. x.status = "conflicts"  BY <2>1, <2>2 DEF StatusFits
  <2>4. QED  BY <1>1, <2>1, <2>2, <2>3, SavedFits DEF Phases, Cloning, Applying, Publishing
<1>3. CASE ReadVersion
  <2>1. runs' = runs /\ op'.run = op.run /\ op.phase = "before" /\ op'.phase = "apply"
    BY <1>3 DEF ReadVersion, TypeOK, OpOK
  <2>2. QED  BY <2>1, SameRuns DEF Phases, Applying
<1>4. CASE ApplyGithubSyncTree
  <2> DEFINE x == [Run EXCEPT !.version = Len(trees')]
  <2>1. trees \in Seq(Trees) /\ Run.clone \in Trees
    BY <1>1, RunType DEF TypeOK, HistoryOK, SyncRun
  <2>2. trees' = IF Workspace = Run.clone THEN trees ELSE Append(trees, Run.clone)
    BY <1>4 DEF ApplyGithubSyncTree
  <2>3. Len(trees') \in Nat  BY <2>1, <2>2
  <2>4. x \in SyncRun /\ x.status = Run.status  BY <1>1, <2>3, RunType, RunWith, RunKeeps
  <2>5. SaveRun(x) /\ op'.phase \in {"unchanged", "ready"} /\ op'.run = op.run /\ op.phase = "apply"
    BY <1>4 DEF ApplyGithubSyncTree, Goes, TypeOK, OpOK
  <2> HIDE DEF x
  <2>6. x.status \in {"failed", "conflicts"}  BY <2>4, <2>5 DEF StatusFits, Applying
  <2>7. QED  BY <1>1, <2>4, <2>5, <2>6, SavedFits DEF Phases, Cloning, Applying, Publishing
<1>5. CASE SkipsCompile
  <2>1. runs' = runs /\ op'.run = op.run /\ op'.phase = "complete"
    BY <1>5 DEF SkipsCompile, Goes, TypeOK, OpOK
  <2>2. QED  BY <2>1, SameRuns DEF Phases
<1>6. CASE Ready
  <2> DEFINE x == [Run EXCEPT !.status = "ready-to-compile"]
  <2>1. x \in SyncRun  BY <1>1, RunType, RunWith DEF Statuses, Open
  <2>2. SaveRun(x) /\ Ends  BY <1>6 DEF Ready
  <2> HIDE DEF x
  <2>3. QED  BY <1>1, <2>1, <2>2, SavedFits
<1>7. QED  BY <1>2, <1>3, <1>4, <1>5, <1>6

LEMMA OpenPublish ==
  ASSUME TypeOK, OpenInv, StatusFits,
         ObserveRemote \/ Push \/ PushFails \/ UpdateSource \/ Complete
  PROVE  OpenInv' /\ StatusFits'
<1>1. op.run # 0
  BY DEF ObserveRemote, Push, PushFails, UpdateSource, Complete, TypeOK, OpOK
<1>2. ASSUME NEW st \in Statuses, SaveRun([Run EXCEPT !.status = st]), Ends
      PROVE  OpenInv' /\ StatusFits'
  <2> DEFINE x == [Run EXCEPT !.status = st]
  <2>1. x \in SyncRun  BY <1>1, RunType, RunWith
  <2> HIDE DEF x
  <2>2. QED  BY <1>1, <1>2, <2>1, SavedFits DEF x
<1>3. "remote-changed" \in Statuses /\ "failed" \in Statuses  BY DEF Statuses, Open
<1>4. CASE ObserveRemote
  <2>1. \/ SaveRun([Run EXCEPT !.status = "remote-changed"]) /\ Ends
        \/ /\ runs' = runs /\ op'.run = op.run /\ op.phase = "observe"
           /\ op'.phase \in {"source", "push"}
    BY <1>4 DEF ObserveRemote, RemoteChanged, Goes, TypeOK, OpOK
  <2>2. CASE SaveRun([Run EXCEPT !.status = "remote-changed"]) /\ Ends
    BY <1>2, <1>3, <2>2
  <2>3. CASE /\ runs' = runs /\ op'.run = op.run /\ op.phase = "observe"
             /\ op'.phase \in {"source", "push"}
    BY <2>3, SameRuns DEF Phases, Publishing
  <2>4. QED  BY <2>1, <2>2, <2>3
<1>5. CASE Push
  <2>1. \/ SaveRun([Run EXCEPT !.status = "remote-changed"]) /\ Ends
        \/ runs' = runs /\ op'.run = op.run /\ op.phase = "push" /\ op'.phase = "source"
    BY <1>5 DEF Push, RemoteChanged, Goes, TypeOK, OpOK
  <2>2. CASE SaveRun([Run EXCEPT !.status = "remote-changed"]) /\ Ends
    BY <1>2, <1>3, <2>2
  <2>3. CASE runs' = runs /\ op'.run = op.run /\ op.phase = "push" /\ op'.phase = "source"
    BY <2>3, SameRuns DEF Phases, Publishing
  <2>4. QED  BY <2>1, <2>2, <2>3
<1>6. CASE PushFails
  BY <1>2, <1>3, <1>6 DEF PushFails
<1>7. CASE UpdateSource
  <2>1. runs' = runs /\ op'.run = op.run /\ op'.phase = "complete"
    BY <1>7 DEF UpdateSource, Goes, TypeOK, OpOK
  <2>2. QED  BY <2>1, SameRuns DEF Phases
<1>8. CASE Complete
  <2> DEFINE x == [Run EXCEPT !.status = "completed", !.synced = source]
  <2>1. source \in Nat  BY HeadType DEF TypeOK, HistoryOK
  <2>2. x \in SyncRun  BY <1>1, <2>1, RunType, RunWith
  <2>3. SaveRun(x) /\ Ends  BY <1>8 DEF Complete
  <2> HIDE DEF x
  <2>4. QED  BY <1>1, <2>2, <2>3, SavedFits
<1>9. QED  BY <1>4, <1>5, <1>6, <1>7, <1>8

LEMMA OpenStep ==
  ASSUME TypeOK, OpenInv, StatusFits, [Next]_vars
  PROVE  OpenInv' /\ StatusFits'
<1>1. CASE Merge
  <2>1. PICK x \in SyncRun :
          /\ SaveRun(x)
          /\ \/ x.status = Run.status /\ Goes("before")
             \/ x.status = "conflicts" /\ Ends
    BY <1>1, MergeSaves
  <2>2. op.run # 0 /\ op.phase = "merge"  BY <1>1, MergeSaves
  <2>3. Run.status = "failed"  BY <2>2 DEF StatusFits, Cloning
  <2>4. Goes("before") => op'.phase = "before" /\ op'.run = op.run  BY DEF Goes, TypeOK, OpOK
  <2>5. QED  BY <2>1, <2>2, <2>3, <2>4, SavedFits DEF Phases, Cloning, Applying, Publishing
<1>2. ASSUME NEW f \in Files, NEW c \in {"fastwrite", "github", "edited"}, Choose(f, c)
      PROVE  OpenInv' /\ StatusFits'
  <2>1. PICK x \in SyncRun : SaveRun(x) /\ x.status = Run.status
    BY <1>2, ChooseSaves
  <2>2. op.run # 0 /\ op.phase = "choose" /\ op'.run = op.run /\ op'.phase = "choose"
    BY <1>2, ChooseSaves
  <2>3. x.status = "conflicts"  BY <2>1, <2>2 DEF StatusFits
  <2>4. QED  BY <2>1, <2>2, <2>3, SavedFits DEF Phases, Cloning, Applying, Publishing
<1>3. ASSUME (\E f \in Files : UserEdits(f) \/ OthersPush(f)) \/ UNCHANGED vars
      PROVE  OpenInv' /\ StatusFits'
  <2>1. runs' = runs /\ op' = op  BY <1>3 DEF UserEdits, OthersPush, vars
  <2>2. QED  BY <2>1 DEF OpenInv, OpenRuns, StatusFits
<1>4. CASE ApplyStops \/ ApplyRefused \/ StepFails \/ Crash
  BY <1>4, SameRuns DEF ApplyStops, ApplyRefused, StepFails, Crash, Interrupted
<1>5. QED  BY <1>1, <1>2, <1>3, <1>4, OpenStart, OpenResolve, OpenApply, OpenPublish DEF Next

LEMMA OpenInit == ASSUME Init PROVE OpenInv /\ StatusFits
<1>1. runs = <<>> /\ op.phase = "idle" /\ op.run = 0  BY DEF Init, NoOp
<1>2. QED  BY <1>1 DEF OpenInv, OpenRuns, StatusFits, Cloning, Applying, Publishing

\* However operations fail, are interrupted or begin anew, at most one run of a
\* paper waits for its user (discardOpenRuns).
THEOREM AtMostOneOpenRun == Spec => []OneOpenRun
<1>1. Init => TypeOK /\ OpenInv /\ StatusFits  BY InitType, OpenInit
<1>2. TypeOK /\ OpenInv /\ StatusFits /\ [Next]_vars => (TypeOK /\ OpenInv /\ StatusFits)'
  BY StepType, OpenStep
<1>3. OpenInv => OneOpenRun
  <2> SUFFICES ASSUME OpenInv PROVE Cardinality(OpenRuns) <= 1  BY DEF OneOpenRun, OpenRuns
  <2>1. CASE OpenRuns = {}  BY <2>1, FS_EmptySet
  <2>2. CASE OpenRuns # {}
    <3>1. PICK r : r \in OpenRuns  BY <2>2
    <3>2. OpenRuns = {r}  BY <3>1 DEF OpenInv
    <3>3. QED  BY <3>2, FS_Singleton
  <2>3. QED  BY <2>1, <2>2
<1>4. QED  BY <1>1, <1>2, <1>3, PTL DEF Spec

-----------------------------------------------------------------------------
\* What a run recorded is true.  Commits are only ever added, and so are versions,
\* except that an application that stops changes the tree of the last one; but then
\* no run waits for its publication.

Working == Cloning \cup Applying \cup {"choose"}

Stands(x) == x.version \in DOMAIN trees /\ trees[x.version] = x.clone

\* About the runs: what they pushed is their clone, and what may be published stands
\* in the workspace's history.
RunsAreTrue ==
  /\ \A c \in DOMAIN remote : remote[c].by # 0 =>
       /\ remote[c].by \in DOMAIN runs /\ runs[remote[c].by].status # "conflicts"
       /\ remote[c].tree = runs[remote[c].by].clone
  /\ \A r \in DOMAIN runs : runs[r].status = "ready-to-compile" => Stands(runs[r])

\* About the operation: while its run takes shape nothing of it is pushed; what it
\* has applied stands in the history; what it will complete is in sync.
OpIsTrue ==
  /\ op.phase \in Working => \A c \in DOMAIN remote : remote[c].by # op.run
  /\ op.phase \in {"unchanged", "ready"} => Stands(Run)
  /\ op.phase = "unchanged" => Run.clone = remote[Run.remote].tree
  /\ op.phase = "complete" => Run.version \in DOMAIN trees /\ trees[Run.version] = remote[source].tree

BranchGrows == \A c \in DOMAIN remote : c \in DOMAIN remote' /\ remote'[c] = remote[c]
Grows ==
  /\ \A v \in DOMAIN trees : v \in DOMAIN trees' /\ trees'[v] = trees[v]
  /\ BranchGrows

LEMMA HistoryGrows ==
  ASSUME TypeOK, [Next]_vars
  PROVE  BranchGrows /\ (Grows \/ ApplyStops)
<1>1. trees \in Seq(Trees) /\ remote \in Seq(Commit)  BY DEF TypeOK, HistoryOK
<1>2. \A t : trees' = Append(trees, t) =>
        \A v \in DOMAIN trees : v \in DOMAIN trees' /\ trees'[v] = trees[v]
  BY <1>1
<1>3. \A c : remote' = Append(remote, c) =>
        \A i \in DOMAIN remote : i \in DOMAIN remote' /\ remote'[i] = remote[i]
  BY <1>1
<1>4. trees' = trees \/ (\E t : trees' = Append(trees, t)) \/ ApplyStops
  BY DEF Next, vars, StartSync, Discard, CreateRun, Clone, CopyFile, Merge, Resolve, Finalize,
         CompileSucceeds, Choose, Resolved, ReadVersion, ApplyGithubSyncTree, SkipsCompile, Ready,
         ObserveRemote, Push, PushFails, UpdateSource, Complete, UserEdits, OthersPush,
         ApplyRefused, StepFails, Crash, Interrupted
<1>5. remote' = remote \/ \E c : remote' = Append(remote, c)
  BY DEF Next, vars, StartSync, Discard, CreateRun, Clone, CopyFile, Merge, Resolve, Finalize,
         CompileSucceeds, Choose, Resolved, ReadVersion, ApplyGithubSyncTree, SkipsCompile, Ready,
         ApplyStops,
         ObserveRemote, Push, Pushes, PushFails, UpdateSource, Complete, UserEdits, OthersPush,
         ApplyRefused, StepFails, Crash, Interrupted
<1>6. BranchGrows  BY <1>3, <1>5 DEF BranchGrows
<1>7. QED  BY <1>2, <1>4, <1>6 DEF Grows

\* A commit of nobody's, or none, is added and the runs keep what matters of them.
LEMMA KeptRuns ==
  ASSUME TypeOK, RunsAreTrue, Grows, DOMAIN runs \subseteq DOMAIN runs',
         \A q \in DOMAIN runs :
           /\ runs'[q].version = runs[q].version /\ runs'[q].clone = runs[q].clone
           /\ runs'[q].status \in {runs[q].status, "failed"},
         \A q \in DOMAIN runs' : q \in DOMAIN runs \/ runs'[q].status = "failed",
         \A c \in DOMAIN remote' : c \in DOMAIN remote \/ remote'[c].by = 0
  PROVE  RunsAreTrue'
<1>1. ASSUME NEW c \in DOMAIN remote', remote'[c].by # 0
      PROVE  /\ remote'[c].by \in DOMAIN runs' /\ runs'[remote'[c].by].status # "conflicts"
             /\ remote'[c].tree = runs'[remote'[c].by].clone
  BY <1>1 DEF RunsAreTrue, Grows, BranchGrows
<1>2. ASSUME NEW r \in DOMAIN runs', runs'[r].status = "ready-to-compile"
      PROVE  Stands(runs[r])'
  <2>1. r \in DOMAIN runs /\ runs[r].status = "ready-to-compile"  BY <1>2
  <2>2. QED  BY <2>1 DEF RunsAreTrue, Stands, Grows, BranchGrows
<1>3. QED  BY <1>1, <1>2 DEF RunsAreTrue

\* The run of the operation is saved.
LEMMA SavedRuns ==
  ASSUME TypeOK, RunsAreTrue, Grows, op.run # 0, NEW x \in SyncRun, SaveRun(x), remote' = remote,
         \/ \A c \in DOMAIN remote : remote[c].by # op.run
         \/ x.clone = Run.clone /\ x.status # "conflicts",
         x.status = "ready-to-compile" => x.version \in DOMAIN trees' /\ trees'[x.version] = x.clone
  PROVE  RunsAreTrue'
<1>1. /\ DOMAIN runs' = DOMAIN runs /\ runs'[op.run] = x /\ op.run \in DOMAIN runs
      /\ \A r \in DOMAIN runs : r # op.run => runs'[r] = runs[r]
  BY SaveRunType
<1>2. ASSUME NEW c \in DOMAIN remote', remote'[c].by # 0
      PROVE  /\ remote'[c].by \in DOMAIN runs' /\ runs'[remote'[c].by].status # "conflicts"
             /\ remote'[c].tree = runs'[remote'[c].by].clone
  <2>1. c \in DOMAIN remote /\ remote'[c] = remote[c]  OBVIOUS
  <2>2. CASE remote[c].by # op.run
    BY <1>1, <1>2, <2>1, <2>2 DEF RunsAreTrue
  <2>3. CASE remote[c].by = op.run
    BY <1>1, <1>2, <2>1, <2>3 DEF RunsAreTrue
  <2>4. QED  BY <2>2, <2>3
<1>3. ASSUME NEW r \in DOMAIN runs', runs'[r].status = "ready-to-compile"
      PROVE  Stands(runs[r])'
  <2>1. CASE r = op.run  BY <1>1, <1>3, <2>1 DEF Stands
  <2>2. CASE r # op.run  BY <1>1, <1>3, <2>2 DEF RunsAreTrue, Stands, Grows, BranchGrows
  <2>3. QED  BY <2>1, <2>2
<1>4. QED  BY <1>2, <1>3 DEF RunsAreTrue

LEMMA EndsTrue == ASSUME Ends PROVE OpIsTrue'
  BY DEF Ends, NoOp, OpIsTrue, Working, Cloning, Applying

\* The clone of the operation's run is pushed, and the run is kept or fails.
LEMMA PushedRuns ==
  ASSUME TypeOK, RunsAreTrue, Grows, op.run # 0, trees' = trees,
         remote' = Append(remote, [tree |-> Run.clone, parent |-> Run.remote, by |-> op.run]),
         \/ runs' = runs /\ Run.status # "conflicts"
         \/ SaveRun([Run EXCEPT !.status = "failed"])
  PROVE  RunsAreTrue'
<1> DEFINE c == [tree |-> Run.clone, parent |-> Run.remote, by |-> op.run]
           x == [Run EXCEPT !.status = "failed"]
<1>1. c \in Commit /\ c.by = op.run /\ c.tree = Run.clone  BY PushedCommit
<1>2. remote' = Append(remote, c)  OBVIOUS
<1>3. x \in SyncRun /\ x.status = "failed" /\ x.version = Run.version /\ x.clone = Run.clone
  BY RunType, RunWith, RunKeeps DEF Statuses, Open
<1>4. \/ runs' = runs /\ Run.status # "conflicts"
      \/ SaveRun(x)
  OBVIOUS
<1> HIDE DEF c, x
<1>5. /\ DOMAIN runs' = DOMAIN runs /\ op.run \in DOMAIN runs
      /\ \A r \in DOMAIN runs : r # op.run => runs'[r] = runs[r]
      /\ runs'[op.run].clone = Run.clone /\ runs'[op.run].status # "conflicts"
      /\ runs'[op.run] = Run \/ runs'[op.run].status = "failed"
  BY <1>3, <1>4, RunType, SaveRunType
<1>6. ASSUME NEW i \in DOMAIN remote', remote'[i].by # 0
      PROVE  /\ remote'[i].by \in DOMAIN runs' /\ runs'[remote'[i].by].status # "conflicts"
             /\ remote'[i].tree = runs'[remote'[i].by].clone
  <2>1. CASE i \in DOMAIN remote
    <3>1. remote'[i] = remote[i]  BY <2>1 DEF Grows, BranchGrows
    <3>2. CASE remote[i].by # op.run  BY <1>5, <1>6, <2>1, <3>1, <3>2 DEF RunsAreTrue
    <3>3. CASE remote[i].by = op.run  BY <1>5, <1>6, <2>1, <3>1, <3>3 DEF RunsAreTrue
    <3>4. QED  BY <3>2, <3>3
  <2>2. CASE i \notin DOMAIN remote
    <3>1. remote'[i] = c  BY <1>1, <1>2, <2>2, AppendCommit
    <3>2. QED  BY <1>1, <1>5, <3>1
  <2>3. QED  BY <2>1, <2>2
<1>7. ASSUME NEW r \in DOMAIN runs', runs'[r].status = "ready-to-compile"
      PROVE  Stands(runs[r])'
  <2>1. r \in DOMAIN runs /\ runs'[r] = runs[r]  BY <1>5, <1>7
  <2>2. QED  BY <1>7, <2>1 DEF RunsAreTrue, Stands, Grows, BranchGrows
<1>8. QED  BY <1>6, <1>7 DEF RunsAreTrue

Truth == RunsAreTrue /\ OpIsTrue

LEMMA TrueStart ==
  ASSUME TypeOK, StatusFits, RunsAreTrue, OpIsTrue, Grows,
         StartSync \/ Discard \/ CreateRun \/ Clone \/ CopyFile
  PROVE  Truth'
<1>1. CASE StartSync
  <2>1. runs' = runs /\ remote' = remote /\ op'.phase = "discard"
    BY <1>1 DEF StartSync, NoOp
  <2>2. RunsAreTrue'  BY <2>1, KeptRuns
  <2>3. OpIsTrue'  BY <2>1 DEF OpIsTrue, Working, Cloning, Applying
  <2>4. QED  BY <2>2, <2>3 DEF Truth
<1>2. CASE Discard
  <2>1. runs \in Seq(SyncRun) /\ remote' = remote  BY <1>2 DEF Discard, TypeOK, RunsOK
  <2>2. DOMAIN runs' = DOMAIN runs  BY <1>2 DEF Discard, DiscardOpenRuns
  <2>3. ASSUME NEW r \in DOMAIN runs
        PROVE  /\ runs'[r].version = runs[r].version /\ runs'[r].clone = runs[r].clone
               /\ runs'[r].status \in {runs[r].status, "failed"}
    <3>1. runs[r] \in SyncRun  BY <2>1
    <3>2. runs'[r] \in {runs[r], [runs[r] EXCEPT !.status = "failed"]}
      BY <1>2 DEF Discard, DiscardOpenRuns
    <3>3. QED  BY <3>1, <3>2 DEF SyncRun
  <2>4. RunsAreTrue'  BY <2>1, <2>2, <2>3, KeptRuns
  <2>5. op'.phase = "create"  BY <1>2 DEF Discard, Goes, TypeOK, OpOK
  <2>6. OpIsTrue'  BY <2>5 DEF OpIsTrue, Working, Cloning, Applying
  <2>7. QED  BY <2>4, <2>6 DEF Truth
<1>3. CASE CreateRun
  <2> DEFINE x == [status |-> "failed", base |-> source, remote |-> source, synced |-> 0,
                   local |-> remote[source].tree, clone |-> remote[source].tree,
                   conflicts |-> {}, staged |-> {}, version |-> 0, compiled |-> FALSE]
  <2>1. runs' = Append(runs, x) /\ x.status = "failed" /\ remote' = remote
    BY <1>3 DEF CreateRun
  <2> HIDE DEF x
  <2>2. runs \in Seq(SyncRun)  BY DEF TypeOK, RunsOK
  <2>3. /\ runs'[Len(runs) + 1] = x /\ DOMAIN runs' = DOMAIN runs \cup {Len(runs) + 1}
        /\ \A r \in DOMAIN runs : runs'[r] = runs[r]
        /\ Len(runs) + 1 \notin DOMAIN runs /\ Len(runs) + 1 # 0
    BY <2>1, <2>2
  <2>4. RunsAreTrue'  BY <2>1, <2>3, KeptRuns
  <2>5. op'.phase = "clone" /\ op'.run = Len(runs) + 1
    BY <1>3 DEF CreateRun, TypeOK, OpOK
  <2>6. \A c \in DOMAIN remote' : remote'[c].by # Len(runs) + 1
    BY <2>1, <2>3 DEF RunsAreTrue
  <2>7. OpIsTrue'  BY <2>5, <2>6 DEF OpIsTrue
  <2>8. QED  BY <2>4, <2>7 DEF Truth
<1>4. CASE Clone
  <2> DEFINE x == [Run EXCEPT !.remote = RemoteHead]
  <2>1. op.run # 0 /\ op.phase = "clone"  BY <1>4 DEF Clone, TypeOK, OpOK
  <2>2. x \in SyncRun /\ x.status = Run.status  BY <2>1, RunType, HeadType DEF SyncRun
  <2>3. SaveRun(x) /\ op'.phase = "copy" /\ op'.run = op.run /\ remote' = remote
    BY <1>4 DEF Clone, TypeOK, OpOK
  <2>4. x.status = "failed"  BY <2>1, <2>2 DEF StatusFits, Cloning
  <2>5. \A c \in DOMAIN remote : remote[c].by # op.run
    BY <2>1 DEF OpIsTrue, Working, Cloning
  <2> HIDE DEF x
  <2>6. RunsAreTrue'  BY <2>1, <2>2, <2>3, <2>4, <2>5, SavedRuns
  <2>7. OpIsTrue'  BY <2>3, <2>5 DEF OpIsTrue
  <2>8. QED  BY <2>6, <2>7 DEF Truth
<1>5. CASE CopyFile
  <2>1. op.run # 0 /\ op.phase = "copy" /\ remote' = remote
    BY <1>5 DEF CopyFile, TypeOK, OpOK
  <2>2. PICK f \in op.left :
          /\ SaveRun([Run EXCEPT !.local[f] = Workspace[f]])
          /\ op' = [op EXCEPT !.left = @ \ {f}, !.phase = IF op.left = {f} THEN "merge" ELSE @]
    BY <1>5 DEF CopyFile
  <2> DEFINE x == [Run EXCEPT !.local[f] = Workspace[f]]
  <2>3. f \in Files  BY DEF TypeOK, OpOK
  <2>4. [Run.local EXCEPT ![f] = Workspace[f]] \in Trees
    BY <2>1, <2>3, RunType, HeadType DEF SyncRun, Trees
  <2>5. x \in SyncRun /\ x.status = Run.status  BY <2>1, <2>4, RunType DEF SyncRun
  <2>6. SaveRun(x) /\ op'.phase \in {"copy", "merge"} /\ op'.run = op.run
    BY <2>1, <2>2 DEF TypeOK, OpOK
  <2>7. x.status = "failed"  BY <2>1, <2>5 DEF StatusFits, Cloning
  <2>8. \A c \in DOMAIN remote : remote[c].by # op.run
    BY <2>1 DEF OpIsTrue, Working, Cloning
  <2> HIDE DEF x
  <2>9. RunsAreTrue'  BY <2>1, <2>5, <2>6, <2>7, <2>8, SavedRuns
  <2>10. OpIsTrue'  BY <2>1, <2>6, <2>8 DEF OpIsTrue
  <2>11. QED  BY <2>9, <2>10 DEF Truth
<1>6. QED  BY <1>1, <1>2, <1>3, <1>4, <1>5

LEMMA TrueChoose ==
  ASSUME TypeOK, StatusFits, RunsAreTrue, OpIsTrue, Grows,
         \/ Merge \/ Resolved
         \/ \E f \in Files, c \in {"fastwrite", "github", "edited"} : Choose(f, c)
  PROVE  Truth'
<1> SUFFICES ASSUME NEW x \in SyncRun, SaveRun(x), x.status \in {"failed", "conflicts"},
                    \/ Ends
                    \/ op'.run = op.run /\ op'.phase \in {"before", "choose"}
             PROVE  Truth'
  <2>1. CASE Merge
    <3>1. op.phase = "merge" /\ Run.status = "failed"
      BY <2>1, MergeSaves DEF StatusFits, Cloning
    <3>2. Goes("before") => op'.phase = "before" /\ op'.run = op.run
      BY DEF Goes, TypeOK, OpOK
    <3>3. QED  BY <2>1, <3>1, <3>2, MergeSaves
  <2>2. CASE Resolved
    <3>1. op.run # 0 /\ op.phase = "choose"  BY <2>2 DEF Resolved, TypeOK, OpOK
    <3>2. [Run EXCEPT !.conflicts = {}] \in SyncRun
          /\ [Run EXCEPT !.conflicts = {}].status = Run.status
      BY <3>1, RunType, RunWith, RunKeeps
    <3>3. SaveRun([Run EXCEPT !.conflicts = {}]) /\ op'.phase = "before" /\ op'.run = op.run
      BY <2>2 DEF Resolved, Goes, TypeOK, OpOK
    <3>4. Run.status = "conflicts"  BY <3>1 DEF StatusFits
    <3>5. QED  BY <3>2, <3>3, <3>4
  <2>3. ASSUME NEW f \in Files, NEW c \in {"fastwrite", "github", "edited"}, Choose(f, c)
        PROVE  Truth'
    <3>1. op.phase = "choose" /\ op'.run = op.run /\ op'.phase = "choose"  BY <2>3, ChooseSaves
    <3>2. Run.status = "conflicts"  BY <3>1 DEF StatusFits
    <3>3. PICK x \in SyncRun : SaveRun(x) /\ x.status = Run.status  BY <2>3, ChooseSaves
    <3>4. QED  BY <3>1, <3>2, <3>3
  <2>4. QED  BY <2>1, <2>2, <2>3
<1>1. op.run # 0 /\ op.phase \in Working /\ remote' = remote
  BY DEF Merge, Resolved, Choose, TypeOK, OpOK, Working, Cloning
<1>2. \A c \in DOMAIN remote : remote[c].by # op.run  BY <1>1 DEF OpIsTrue
<1>3. RunsAreTrue'  BY <1>1, <1>2, SavedRuns
<1>4. CASE Ends  BY <1>3, <1>4, EndsTrue DEF Truth
<1>5. CASE op'.run = op.run /\ op'.phase \in {"before", "choose"}
  <2>1. OpIsTrue'  BY <1>1, <1>2, <1>5 DEF OpIsTrue
  <2>2. QED  BY <1>3, <2>1 DEF Truth
<1>6. QED  BY <1>4, <1>5

LEMMA TrueResolve ==
  ASSUME TypeOK, RunsAreTrue, OpIsTrue, Grows, NEW r \in DOMAIN runs,
         Resolve(r) \/ Finalize(r) \/ CompileSucceeds(r)
  PROVE  Truth'
<1>1. CASE Resolve(r)
  <2>1. /\ runs' = runs /\ remote' = remote /\ runs[r].status = "conflicts"
        /\ op'.phase = "choose" /\ op'.run = r
    BY <1>1 DEF Resolve, NoOp
  <2>2. RunsAreTrue'  BY <2>1, KeptRuns
  <2>3. r # 0  BY DEF TypeOK, RunsOK
  <2>4. \A c \in DOMAIN remote : remote[c].by # r  BY <2>1, <2>3 DEF RunsAreTrue
  <2>5. OpIsTrue'  BY <2>1, <2>4 DEF OpIsTrue
  <2>6. QED  BY <2>2, <2>5 DEF Truth
<1>2. CASE Finalize(r)
  <2>1. runs' = runs /\ remote' = remote /\ op'.phase = "observe"
    BY <1>2 DEF Finalize, NoOp
  <2>2. RunsAreTrue'  BY <2>1, KeptRuns
  <2>3. OpIsTrue'  BY <2>1 DEF OpIsTrue, Working, Cloning, Applying
  <2>4. QED  BY <2>2, <2>3 DEF Truth
<1>3. CASE CompileSucceeds(r)
  <2>1. op' = op /\ remote' = remote /\ trees' = trees /\ source' = source
    BY <1>3 DEF CompileSucceeds
  <2>2. RunsAreTrue'  BY <1>3, <2>1, CompileKeeps, KeptRuns
  <2>3. op.phase \in {"unchanged", "ready", "complete"} =>
          /\ (runs[op.run].version)' = Run.version /\ (runs[op.run].clone)' = Run.clone
          /\ (runs[op.run].remote)' = Run.remote
    <3>1. op.phase \in {"unchanged", "ready", "complete"} => op.run # 0  BY DEF TypeOK, OpOK
    <3>2. op.run # 0 => op.run \in DOMAIN runs  BY RunType
    <3>3. QED  BY <1>3, <2>1, <3>1, <3>2, CompileKeeps
  <2>4. OpIsTrue'  BY <2>1, <2>3 DEF OpIsTrue, Stands
  <2>5. QED  BY <2>2, <2>4 DEF Truth
<1>4. QED  BY <1>1, <1>2, <1>3

LEMMA TrueApply ==
  ASSUME TypeOK, StatusFits, RunsAreTrue, OpIsTrue, Grows,
         ReadVersion \/ ApplyGithubSyncTree \/ SkipsCompile \/ Ready
  PROVE  Truth'
<1>1. op.run # 0 /\ op.phase \in Working /\ remote' = remote
  BY DEF ReadVersion, ApplyGithubSyncTree, SkipsCompile, Ready, TypeOK, OpOK, Working, Applying
<1>2. \A c \in DOMAIN remote : remote[c].by # op.run  BY <1>1 DEF OpIsTrue
<1>3. CASE ReadVersion
  <2>1. runs' = runs /\ op'.run = op.run /\ op'.phase = "apply"
    BY <1>3 DEF ReadVersion, TypeOK, OpOK
  <2>2. RunsAreTrue'  BY <1>1, <2>1, KeptRuns
  <2>3. OpIsTrue'  BY <1>1, <1>2, <2>1 DEF OpIsTrue
  <2>4. QED  BY <2>2, <2>3 DEF Truth
<1>4. CASE ApplyGithubSyncTree
  <2> DEFINE x == [Run EXCEPT !.version = Len(trees')]
  <2>1. trees \in Seq(Trees) /\ trees # <<>> /\ Run.clone \in Trees
    BY <1>1, RunType DEF TypeOK, HistoryOK, SyncRun
  <2>2. trees' = IF Workspace = Run.clone THEN trees ELSE Append(trees, Run.clone)
    BY <1>4 DEF ApplyGithubSyncTree
  <2>3. /\ Len(trees') \in Nat /\ Len(trees') \in DOMAIN trees' /\ trees'[Len(trees')] = Run.clone
    BY <2>1, <2>2
  <2>4. /\ x \in SyncRun /\ x.status = Run.status /\ x.version = Len(trees')
        /\ x.clone = Run.clone /\ x.remote = Run.remote
    BY <1>1, <2>3, RunType, RunWith, RunKeeps
  <2>5. /\ SaveRun(x) /\ op'.phase \in {"unchanged", "ready"} /\ op'.run = op.run
        /\ op.phase = "apply"
        /\ op'.phase = "unchanged" => Run.clone = remote[Run.remote].tree
    BY <1>4 DEF ApplyGithubSyncTree, Goes, TypeOK, OpOK
  <2> HIDE DEF x
  <2>6. x.status \in {"failed", "conflicts"}  BY <2>4, <2>5 DEF StatusFits, Applying
  <2>7. RunsAreTrue'  BY <1>1, <1>2, <2>4, <2>5, <2>6, SavedRuns
  <2>8. runs'[op.run] = x  BY <1>1, <2>4, <2>5, SaveRunType
  <2>9. OpIsTrue'  BY <1>1, <1>2, <2>3, <2>4, <2>5, <2>8 DEF OpIsTrue, Stands
  <2>10. QED  BY <2>7, <2>9 DEF Truth
<1>5. CASE SkipsCompile
  <2>1. /\ runs' = runs /\ trees' = trees /\ op'.run = op.run /\ op'.phase = "complete"
        /\ source' = Run.remote /\ op.phase = "unchanged"
    BY <1>5 DEF SkipsCompile, Goes, TypeOK, OpOK
  <2>2. RunsAreTrue'  BY <1>1, <2>1, KeptRuns
  <2>3. Stands(Run) /\ Run.clone = remote[Run.remote].tree  BY <2>1 DEF OpIsTrue
  <2>4. OpIsTrue'  BY <1>1, <2>1, <2>3 DEF OpIsTrue, Stands, Working, Cloning, Applying
  <2>5. QED  BY <2>2, <2>4 DEF Truth
<1>6. CASE Ready
  <2> DEFINE x == [Run EXCEPT !.status = "ready-to-compile"]
  <2>1. /\ x \in SyncRun /\ x.status = "ready-to-compile" /\ x.version = Run.version
        /\ x.clone = Run.clone
    BY <1>1, RunType, RunWith, RunKeeps DEF Statuses, Open
  <2>2. SaveRun(x) /\ Ends /\ trees' = trees /\ op.phase = "ready"  BY <1>6 DEF Ready
  <2> HIDE DEF x
  <2>3. Stands(Run)  BY <2>2 DEF OpIsTrue
  <2>4. x.version \in DOMAIN trees' /\ trees'[x.version] = x.clone
    BY <2>1, <2>2, <2>3 DEF Stands
  <2>5. RunsAreTrue'  BY <1>1, <1>2, <2>1, <2>2, <2>4, SavedRuns
  <2>6. QED  BY <2>2, <2>5, EndsTrue DEF Truth
<1>7. QED  BY <1>3, <1>4, <1>5, <1>6

LEMMA TruePublish ==
  ASSUME TypeOK, StatusFits, RunsAreTrue, OpIsTrue, Grows,
         ObserveRemote \/ Push \/ PushFails \/ UpdateSource \/ Complete
  PROVE  Truth'
<1>1. op.run # 0 /\ trees' = trees
  BY DEF ObserveRemote, Push, PushFails, UpdateSource, Complete, TypeOK, OpOK
<1>2. ASSUME NEW st \in {"remote-changed", "failed"}, SaveRun([Run EXCEPT !.status = st]),
             Ends, remote' = remote
      PROVE  Truth'
  <2> DEFINE x == [Run EXCEPT !.status = st]
  <2>1. x \in SyncRun /\ x.status = st /\ x.clone = Run.clone
    BY <1>1, RunType, RunWith, RunKeeps DEF Statuses, Open
  <2>2. SaveRun(x)  BY <1>2
  <2> HIDE DEF x
  <2>3. RunsAreTrue'  BY <1>1, <1>2, <2>1, <2>2, SavedRuns
  <2>4. QED  BY <1>2, <2>3, EndsTrue DEF Truth
<1>3. CASE ObserveRemote
  <2>1. remote' = remote  BY <1>3 DEF ObserveRemote
  <2>2. CASE RemoteHead # Run.remote
    BY <1>2, <1>3, <2>1, <2>2 DEF ObserveRemote, RemoteChanged
  <2>3. CASE RemoteHead = Run.remote
    <3>1. runs' = runs /\ op'.phase \in {"source", "push"}
      BY <1>3, <2>3 DEF ObserveRemote, Goes, TypeOK, OpOK
    <3>2. RunsAreTrue'  BY <2>1, <3>1, KeptRuns
    <3>3. OpIsTrue'  BY <3>1 DEF OpIsTrue, Working, Cloning, Applying
    <3>4. QED  BY <3>2, <3>3 DEF Truth
  <2>4. QED  BY <2>2, <2>3
<1>4. CASE Push
  <2>1. CASE FastForward
    <3>1. /\ remote' = Append(remote, [tree |-> Run.clone, parent |-> Run.remote, by |-> op.run])
          /\ runs' = runs /\ op'.phase = "source" /\ op.phase = "push"
      BY <1>4, <2>1 DEF Push, Pushes, Goes, TypeOK, OpOK
    <3>2. Run.status # "conflicts"  BY <3>1 DEF StatusFits, Publishing
    <3>3. RunsAreTrue'  BY <1>1, <3>1, <3>2, PushedRuns
    <3>4. OpIsTrue'  BY <3>1 DEF OpIsTrue, Working, Cloning, Applying
    <3>5. QED  BY <3>3, <3>4 DEF Truth
  <2>2. CASE ~FastForward
    BY <1>2, <1>4, <2>2 DEF Push, RemoteChanged
  <2>3. QED  BY <2>1, <2>2
<1>5. CASE PushFails
  <2>1. SaveRun([Run EXCEPT !.status = "failed"]) /\ Ends  BY <1>5 DEF PushFails
  <2>2. CASE remote' = remote
    BY <1>2, <2>1, <2>2
  <2>3. CASE Pushes
    BY <1>1, <2>1, <2>3, PushedRuns, EndsTrue DEF Pushes, Truth
  <2>4. QED  BY <1>5, <2>2, <2>3 DEF PushFails
<1>6. CASE UpdateSource
  <2>1. /\ runs' = runs /\ remote' = remote /\ op'.run = op.run /\ op'.phase = "complete"
        /\ op.phase = "source"
        /\ source' = IF Run.clone = remote[Run.remote].tree THEN Run.remote
                     ELSE CHOOSE c \in DOMAIN remote : remote[c].by = op.run
    BY <1>6 DEF UpdateSource, Goes, TypeOK, OpOK
  <2>2. Run.status = "ready-to-compile" /\ op.run \in DOMAIN runs
    BY <1>1, <2>1, RunType DEF StatusFits, Publishing
  <2>3. Stands(Run)  BY <2>2 DEF RunsAreTrue
  <2>4. remote[source'].tree = Run.clone
    <3>1. CASE Run.clone = remote[Run.remote].tree  BY <2>1, <3>1
    <3>2. CASE Run.clone # remote[Run.remote].tree
      <4>1. \E c \in DOMAIN remote : remote[c].by = op.run
        BY <2>1, <3>2 DEF TypeOK, OpOK
      <4>2. source' \in DOMAIN remote /\ remote[source'].by = op.run  BY <2>1, <3>2, <4>1
      <4>3. QED  BY <1>1, <4>2 DEF RunsAreTrue
    <3>3. QED  BY <3>1, <3>2
  <2>5. RunsAreTrue'  BY <2>1, KeptRuns
  <2>6. OpIsTrue'  BY <1>1, <2>1, <2>3, <2>4 DEF OpIsTrue, Stands, Working, Cloning, Applying
  <2>7. QED  BY <2>5, <2>6 DEF Truth
<1>7. CASE Complete
  <2> DEFINE x == [Run EXCEPT !.status = "completed", !.synced = source]
  <2>1. source \in Nat  BY HeadType DEF TypeOK, HistoryOK
  <2>2. x \in SyncRun /\ x.status = "completed" /\ x.clone = Run.clone
    BY <1>1, <2>1, RunType, RunWith, RunKeeps
  <2>3. SaveRun(x) /\ Ends /\ remote' = remote  BY <1>7 DEF Complete
  <2> HIDE DEF x
  <2>4. RunsAreTrue'  BY <1>1, <2>2, <2>3, SavedRuns
  <2>5. QED  BY <2>3, <2>4, EndsTrue DEF Truth
<1>8. QED  BY <1>3, <1>4, <1>5, <1>6, <1>7

LEMMA TrueOthers ==
  ASSUME TypeOK, RunsAreTrue, OpIsTrue, Grows,
         \/ \E f \in Files : UserEdits(f) \/ OthersPush(f)
         \/ ApplyRefused \/ StepFails \/ Crash \/ UNCHANGED vars
  PROVE  Truth'
<1>1. runs' = runs
  BY DEF UserEdits, OthersPush, ApplyRefused, StepFails, Crash, Interrupted, vars
<1>2. \A c \in DOMAIN remote' : c \in DOMAIN remote \/ remote'[c].by = 0
  <2>1. CASE remote' = remote  BY <2>1
  <2>2. ASSUME NEW f \in Files, OthersPush(f)
        PROVE  \A c \in DOMAIN remote' : c \in DOMAIN remote \/ remote'[c].by = 0
    <3> DEFINE t == [remote[RemoteHead].tree EXCEPT ![f] = @ \cup {MaxLocal + edits.remote + 1}]
               new == [tree |-> t, parent |-> RemoteHead, by |-> 0]
    <3>1. remote' = Append(remote, new) /\ new.by = 0  BY <2>2 DEF OthersPush
    <3> HIDE DEF new
    <3>2. remote \in Seq(Commit)  BY DEF TypeOK, HistoryOK
    <3>3. QED  BY <3>1, <3>2
  <2>3. QED  BY <2>1, <2>2 DEF UserEdits, ApplyRefused, StepFails, Crash, Interrupted, vars
<1>3. RunsAreTrue'  BY <1>1, <1>2, KeptRuns
<1>4. CASE Ends  BY <1>3, <1>4, EndsTrue DEF Truth
<1>5. CASE op' = op /\ source' = source
  <2>1. op.phase \in Working => op.run # 0
    BY DEF Working, Cloning, Applying, TypeOK, OpOK
  <2>2. op.phase \in Working => \A c \in DOMAIN remote' : remote'[c].by # op.run
    BY <1>2, <2>1 DEF OpIsTrue, Grows, BranchGrows
  <2>3. op.phase = "unchanged" => Run.remote \in DOMAIN remote
    BY RunType DEF TypeOK, OpOK
  <2>4. source \in DOMAIN remote  BY DEF TypeOK, HistoryOK
  <2>5. OpIsTrue'  BY <1>1, <1>5, <2>2, <2>3, <2>4 DEF OpIsTrue, Stands, Grows, BranchGrows
  <2>6. QED  BY <1>3, <2>5 DEF Truth
<1>6. QED  BY <1>4, <1>5 DEF UserEdits, OthersPush, ApplyRefused, StepFails, Crash, Interrupted, vars

\* When an application stops its run is the only one that may be open, and it is
\* not ready.
LEMMA TrueStops ==
  ASSUME TypeOK, OpenInv, StatusFits, RunsAreTrue, ApplyStops
  PROVE  Truth'
<1>1. /\ op.run # 0 /\ op.phase = "apply" /\ Ends /\ remote' = remote /\ runs' = runs
  BY Stopped
<1>2. Run.status # "ready-to-compile"  BY <1>1 DEF StatusFits, Applying
<1>3. \A r \in DOMAIN runs : runs[r].status # "ready-to-compile"
  BY <1>1, <1>2 DEF OpenInv, OpenRuns, Open
<1>4. RunsAreTrue'  BY <1>1, <1>3 DEF RunsAreTrue
<1>5. QED  BY <1>1, <1>4, EndsTrue DEF Truth

LEMMA TrueStep ==
  ASSUME TypeOK, OpenInv, StatusFits, Truth, [Next]_vars
  PROVE  Truth'
<1>1. RunsAreTrue /\ OpIsTrue  BY DEF Truth
<1>2. CASE Grows
  BY <1>1, <1>2, TrueStart, TrueChoose, TrueResolve, TrueApply, TrueStops, TruePublish, TrueOthers
     DEF Next
<1>3. CASE ApplyStops  BY <1>1, <1>3, TrueStops
<1>4. QED  BY <1>2, <1>3, HistoryGrows

LEMMA TrueInit == ASSUME Init PROVE Truth
<1>1. runs = <<>> /\ op.phase = "idle" /\ \A c \in DOMAIN remote : remote[c].by = 0
  BY DEF Init, NoOp
<1>2. QED  BY <1>1 DEF Truth, RunsAreTrue, OpIsTrue, Working, Cloning, Applying

\* A run completes in no other step than Complete.
LEMMA OnlyComplete ==
  ASSUME TypeOK, [Next]_vars, NEW r \in DOMAIN runs,
         runs[r].status # "completed", runs'[r].status = "completed"
  PROVE  Complete /\ r = op.run
<1>1. runs \in Seq(SyncRun) /\ runs[r] \in SyncRun  BY DEF TypeOK, RunsOK
<1>2. runs' # runs  OBVIOUS
<1>3. ASSUME op.run # 0, NEW x \in SyncRun, SaveRun(x), x.status = "completed" => Run.status = "completed"
      PROVE  FALSE
  BY <1>3, SaveRunType
<1>4. ASSUME Clone \/ CopyFile PROVE FALSE
  <2>1. op.run # 0 /\ Run \in SyncRun  BY <1>4, RunType DEF Clone, CopyFile, TypeOK, OpOK
  <2>2. runs'[r].status = runs[r].status
    <3>1. op.run \in DOMAIN runs  BY <2>1, RunType
    <3>2. CASE Clone  BY <1>1, <2>1, <3>1, <3>2 DEF Clone, SaveRun, SyncRun
    <3>3. CASE CopyFile  BY <1>1, <2>1, <3>1, <3>3 DEF CopyFile, SaveRun, SyncRun
    <3>4. QED  BY <1>4, <3>2, <3>3
  <2>3. QED  BY <2>2
<1>5. ASSUME Discard \/ CreateRun PROVE FALSE
  <2>1. CASE Discard
    <3>1. runs'[r] \in {runs[r], [runs[r] EXCEPT !.status = "failed"]}
      BY <2>1 DEF Discard, DiscardOpenRuns
    <3>2. QED  BY <1>1, <3>1 DEF SyncRun
  <2>2. CASE CreateRun
    <3>1. \E x : runs' = Append(runs, x)  BY <2>2 DEF CreateRun
    <3>2. runs'[r] = runs[r]  BY <1>1, <3>1
    <3>3. QED  BY <3>2
  <2>3. QED  BY <1>5, <2>1, <2>2
<1>6. ~Merge
  <2>1. SUFFICES ASSUME Merge PROVE FALSE  OBVIOUS
  <2>2. QED  BY <1>3, <2>1, MergeSaves
<1>7. ASSUME NEW f \in Files, NEW c \in {"fastwrite", "github", "edited"}, Choose(f, c)
      PROVE  FALSE
  BY <1>3, <1>7, ChooseSaves
<1>8. ASSUME NEW q \in DOMAIN runs, CompileSucceeds(q) PROVE FALSE
  BY <1>8, CompileKeeps
<1>9. ASSUME NEW x \in SyncRun, op.run # 0, SaveRun(x), Run.status = x.status \/ x.status # "completed"
      PROVE  FALSE
  BY <1>3, <1>9
<1>10. ~Resolved
  <2>1. SUFFICES ASSUME Resolved PROVE FALSE  OBVIOUS
  <2>2. op.run # 0 /\ Run \in SyncRun  BY <2>1, RunType DEF Resolved, TypeOK, OpOK
  <2>3. [Run EXCEPT !.conflicts = {}] \in SyncRun /\ [Run EXCEPT !.conflicts = {}].status = Run.status
    BY <2>2, RunWith, RunKeeps
  <2>4. QED  BY <1>9, <2>1, <2>2, <2>3 DEF Resolved
<1>11. ~ApplyGithubSyncTree
  <2>1. SUFFICES ASSUME ApplyGithubSyncTree PROVE FALSE  OBVIOUS
  <2> DEFINE x == [Run EXCEPT !.version = Len(trees')]
  <2>2. op.run # 0 /\ Run \in SyncRun  BY <2>1, RunType DEF ApplyGithubSyncTree, TypeOK, OpOK
  <2>3. Len(trees') \in Nat
    <3>1. trees \in Seq(Trees)  BY DEF TypeOK, HistoryOK
    <3>2. QED  BY <2>1, <3>1 DEF ApplyGithubSyncTree
  <2>4. x \in SyncRun /\ x.status = Run.status  BY <2>2, <2>3, RunWith, RunKeeps
  <2>5. SaveRun(x)  BY <2>1 DEF ApplyGithubSyncTree
  <2> HIDE DEF x
  <2>6. QED  BY <1>9, <2>2, <2>4, <2>5
<1>12. ASSUME NEW st \in {"ready-to-compile", "remote-changed", "failed"}, op.run # 0,
              SaveRun([Run EXCEPT !.status = st])
       PROVE  FALSE
  <2>1. Run \in SyncRun /\ st \in Statuses  BY <1>12, RunType DEF Statuses, Open
  <2>2. [Run EXCEPT !.status = st] \in SyncRun /\ [Run EXCEPT !.status = st].status = st
    BY <2>1, RunWith, RunKeeps
  <2>3. QED  BY <1>9, <1>12, <2>2
<1>13. ~(Ready \/ ObserveRemote \/ Push \/ PushFails)
  <2>1. SUFFICES ASSUME Ready \/ ObserveRemote \/ Push \/ PushFails PROVE FALSE  OBVIOUS
  <2>2. op.run # 0  BY <2>1 DEF Ready, ObserveRemote, Push, PushFails, TypeOK, OpOK
  <2>3. runs' = runs \/ \E st \in {"ready-to-compile", "remote-changed", "failed"} :
                          SaveRun([Run EXCEPT !.status = st])
    BY <2>1 DEF Ready, ObserveRemote, Push, PushFails, RemoteChanged
  <2>4. QED  BY <1>2, <1>12, <2>2, <2>3
<1>14. Complete
  BY <1>2, <1>4, <1>5, <1>6, <1>7, <1>8, <1>10, <1>11, <1>13
     DEF Next, vars, StartSync, Resolve, Finalize, ReadVersion, ApplyRefused, ApplyStops,
         SkipsCompile, UpdateSource, UserEdits, OthersPush, StepFails, Crash, Interrupted
<1>15. r = op.run
  <2>1. op.run # 0 /\ op.run \in DOMAIN runs  BY <1>14, RunType DEF Complete, TypeOK, OpOK
  <2>2. \A q \in DOMAIN runs : q # op.run => runs'[q] = runs[q]
    BY <1>1, <1>14, <2>1 DEF Complete, SaveRun
  <2>3. QED  BY <2>2
<1>16. QED  BY <1>14, <1>15

\* When a run completes, the commit it records has the tree that stood last under its
\* version: whatever users and others changed, and whatever application was stopped
\* before, the next merge starts from a base that both sides had (prepareMergedRun,
\* finalize).
THEOREM CompletedRunsAreInSync == Spec => CompletedIsInSync
<1> DEFINE IInv == TypeOK /\ OpenInv /\ StatusFits /\ Truth
<1>1. Init => IInv  BY InitType, OpenInit, TrueInit
<1>2. IInv /\ [Next]_vars => IInv'  BY StepType, OpenStep, TrueStep
<1>3. IInv /\ [Next]_vars => CompletesInSync
  <2>1. SUFFICES ASSUME IInv, [Next]_vars, NEW r \in DOMAIN runs,
                        runs[r].status # "completed", runs'[r].status = "completed"
                 PROVE  trees'[runs'[r].version] = remote'[runs'[r].synced].tree
    BY DEF CompletesInSync
  <2>2. Complete /\ r = op.run  BY <2>1, OnlyComplete
  <2> DEFINE x == [Run EXCEPT !.status = "completed", !.synced = source]
  <2>3. op.run # 0 /\ op.phase = "complete" /\ trees' = trees /\ remote' = remote /\ SaveRun(x)
    BY <2>1, <2>2 DEF Complete, TypeOK, OpOK
  <2>4. source \in Nat  BY <2>1, HeadType DEF TypeOK, HistoryOK
  <2>5. x \in SyncRun /\ x.version = Run.version /\ x.synced = source
    BY <2>1, <2>3, <2>4, RunType, RunWith, RunKeeps
  <2> HIDE DEF x
  <2>6. runs'[r] = x  BY <2>1, <2>2, <2>3, <2>5, SaveRunType
  <2>7. trees[Run.version] = remote[source].tree  BY <2>1, <2>3 DEF Truth, OpIsTrue
  <2>8. QED  BY <2>3, <2>5, <2>6, <2>7
<1>4. QED  BY <1>1, <1>2, <1>3, PTL DEF Spec, CompletedIsInSync

-----------------------------------------------------------------------------
(* What a merge and a push keep, file by file: along the branch edits only    *)
(* disappear when a conflict choice gives them up; the paper carries what its *)
(* source commit carries, so the side of the paper in a merge carries the     *)
(* base; and so does the side of the branch.                                  *)

\* What the users' conflict choices gave up, and what repeated choices and stopped
\* applications deleted.
Gone == dropped \cup lost

\* Edits of both sides are in the clone, for the files whose conflict is decided.
Kept(x, commits, gone) ==
  \A f \in Files \ (x.conflicts \ x.staged) :
    x.local[f] \cup commits[x.remote].tree[f] \subseteq x.clone[f] \cup gone

BranchKeeps ==
  \A c, d \in DOMAIN remote :
    c <= d => \A f \in Files : remote[c].tree[f] \subseteq remote[d].tree[f] \cup Gone

PaperHasSource ==
  \A f \in Files : remote[source].tree[f] \subseteq Workspace[f] \cup Gone

\* A run that has merged, and is not to be merged from an older source.
Merges(x, commits, gone, from) ==
  /\ x.version # 0 => x.conflicts = {}
  /\ x.version # 0 \/ x.status = "conflicts" => Kept(x, commits, gone)
  /\ x.status = "conflicts" => from <= x.remote

RunsMerge == \A r \in DOMAIN runs : Merges(runs[r], remote, Gone, source)

\* The run of the operation: before its merge it has the base on its side of the
\* paper; while conflicts are chosen the open ones are still to come; then it keeps
\* both sides, and what is published is in the paper.
OpMerges ==
  /\ op.phase \in Cloning =>
       /\ Run.conflicts = {} /\ Run.staged = {} /\ Run.version = 0 /\ Run.base = source
       /\ \A f \in Files : remote[source].tree[f] \subseteq Run.local[f] \cup Gone
  /\ op.phase \in {"copy", "merge"} \cup Applying => source <= Run.remote
  /\ op.phase = "choose" => Run.conflicts \ Run.staged \subseteq op.left
  /\ op.phase \in Applying => Run.conflicts = {} /\ Kept(Run, remote, Gone)
  /\ op.phase \in Publishing \cup {"unchanged"} =>
       \A f \in Files : Run.clone[f] \subseteq Workspace[f] \cup Gone

KeepInv == BranchKeeps /\ PaperHasSource /\ RunsMerge /\ OpMerges

-----------------------------------------------------------------------------
\* What steps keep.

LEMMA GoneGrows == ASSUME [Next]_vars PROVE Gone \subseteq Gone'
  BY DEF Gone, Next, vars, StartSync, Discard, CreateRun, Clone, CopyFile, Merge, Resolve, Finalize,
         CompileSucceeds, Choose, Resolved, ReadVersion, ApplyGithubSyncTree, SkipsCompile, Ready,
         ObserveRemote, Push, Pushes, PushFails, UpdateSource, Complete, UserEdits, OthersPush,
         ApplyStops, ApplyRefused, StepFails, Crash, Interrupted

\* A run in publication keeps both sides, and the head is its side of the branch.
LEMMA PushKeeps ==
  ASSUME TypeOK, StatusFits, RunsAreTrue, RunsMerge, op.phase = "push", FastForward
  PROVE  \A f \in Files : remote[RemoteHead].tree[f] \subseteq Run.clone[f] \cup Gone
<1>1. op.run # 0  BY DEF TypeOK, OpOK
<1>2. Run.status = "ready-to-compile" /\ op.run \in DOMAIN runs
  BY <1>1, RunType DEF StatusFits, Publishing
<1>3. Run.version \in DOMAIN trees  BY <1>2 DEF RunsAreTrue, Stands
<1>4. Run.version # 0  BY <1>3, HeadType
<1>5. Run.conflicts = {} /\ Kept(Run, remote, Gone)  BY <1>2, <1>4 DEF RunsMerge, Merges
<1>6. QED  BY <1>5 DEF Kept, FastForward

\* Others add to a file of the head.
LEMMA OthersAdd ==
  ASSUME TypeOK, NEW g \in Files, OthersPush(g)
  PROVE  \E n \in Commit : /\ remote' = Append(remote, n)
                           /\ \A f \in Files : remote[RemoteHead].tree[f] \subseteq n.tree[f]
                           /\ MaxLocal + edits.remote + 1 \in n.tree[g]
<1> USE GithubSyncAssumption
<1> DEFINE new == MaxLocal + edits.remote + 1
           t == [remote[RemoteHead].tree EXCEPT ![g] = @ \cup {new}]
           n == [tree |-> t, parent |-> RemoteHead, by |-> 0]
<1>1. new \in Ids
  <2>1. edits.remote \in Nat /\ edits.remote < MaxRemote
    BY DEF OthersPush, Uses, TypeOK, CountsOK
  <2>2. QED  BY <2>1 DEF Ids
<1>2. remote[RemoteHead].tree \in Trees /\ RemoteHead \in Nat  BY HeadType
<1>3. remote' = Append(remote, n)  BY DEF OthersPush
<1> HIDE DEF new
<1>4. t \in Trees /\ new \in t[g] /\ \A f \in Files : remote[RemoteHead].tree[f] \subseteq t[f]
  BY <1>1, <1>2 DEF Trees, Ids
<1>5. n \in Commit  BY <1>2, <1>4 DEF Commit
<1>6. QED  BY <1>3, <1>4, <1>5 DEF new

\* What may become of the branch: nothing, or a commit that keeps what the head has.
LEMMA RemoteMoves ==
  ASSUME TypeOK, StatusFits, RunsAreTrue, RunsMerge, [Next]_vars
  PROVE  \/ remote' = remote
         \/ \E n \in Commit : /\ remote' = Append(remote, n)
                              /\ \A f \in Files : remote[RemoteHead].tree[f] \subseteq n.tree[f] \cup Gone
<1>1. ASSUME Pushes, FastForward, op.phase = "push"
      PROVE  \E n \in Commit :
               /\ remote' = Append(remote, n)
               /\ \A f \in Files : remote[RemoteHead].tree[f] \subseteq n.tree[f] \cup Gone
  <2>1. op.run # 0  BY <1>1 DEF TypeOK, OpOK
  <2>2. [tree |-> Run.clone, parent |-> Run.remote, by |-> op.run] \in Commit  BY <2>1, PushedCommit
  <2>3. QED  BY <1>1, <2>2, PushKeeps DEF Pushes
<1>2. CASE Push \/ PushFails  BY <1>1, <1>2 DEF Push, PushFails
<1>3. CASE \E f \in Files : OthersPush(f)  BY <1>3, OthersAdd
<1>4. QED
  BY <1>2, <1>3
     DEF Next, vars, StartSync, Discard, CreateRun, Clone, CopyFile, Merge, Resolve, Finalize,
         CompileSucceeds, Choose, Resolved, ReadVersion, ApplyGithubSyncTree, SkipsCompile, Ready,
         ObserveRemote, UpdateSource, Complete, UserEdits, ApplyStops, ApplyRefused, StepFails,
         Crash, Interrupted

LEMMA BranchStep ==
  ASSUME TypeOK, StatusFits, RunsAreTrue, RunsMerge, BranchKeeps, [Next]_vars
  PROVE  BranchKeeps'
<1>1. Gone \subseteq Gone'  BY GoneGrows
<1>2. CASE remote' = remote  BY <1>1, <1>2 DEF BranchKeeps
<1>3. ASSUME NEW n \in Commit, remote' = Append(remote, n),
             \A f \in Files : remote[RemoteHead].tree[f] \subseteq n.tree[f] \cup Gone
      PROVE  BranchKeeps'
  <2>1. SUFFICES ASSUME NEW c \in DOMAIN remote', NEW d \in DOMAIN remote', c <= d, NEW f \in Files
                 PROVE  remote'[c].tree[f] \subseteq remote'[d].tree[f] \cup Gone'
    BY DEF BranchKeeps
  <2>2. /\ DOMAIN remote' = DOMAIN remote \cup {Len(remote) + 1} /\ remote'[Len(remote) + 1] = n
        /\ \A i \in DOMAIN remote : remote'[i] = remote[i]
    BY <1>3, AppendCommit
  <2>3. Len(remote) \in Nat /\ DOMAIN remote = 1 .. Len(remote) /\ Len(remote) \in DOMAIN remote
    BY HeadType
  <2>4. CASE d \in DOMAIN remote
    <3>1. c \in DOMAIN remote  BY <2>1, <2>2, <2>3, <2>4
    <3>2. QED  BY <1>1, <2>1, <2>2, <2>4, <3>1 DEF BranchKeeps
  <2>5. CASE d = Len(remote) + 1 /\ c \in DOMAIN remote
    <3>1. remote[c].tree[f] \subseteq remote[Len(remote)].tree[f] \cup Gone
      BY <2>3, <2>5 DEF BranchKeeps
    <3>2. QED  BY <1>1, <1>3, <2>2, <2>5, <3>1
  <2>6. QED  BY <2>2, <2>4, <2>5
<1>4. QED  BY <1>2, <1>3, RemoteMoves

\* The head keeps what others pushed, for every later head keeps what it has.
LEMMA RemoteStep ==
  ASSUME TypeOK, BranchKeeps', BranchGrows, Gone \subseteq Gone', TypeOK', RemoteEditsKept, [Next]_vars
  PROVE  RemoteEditsKept'
<1> USE GithubSyncAssumption
<1>1. edits.remote \in Nat /\ edits'.remote \in Nat  BY DEF TypeOK, CountsOK
<1>2. \A f \in Files : remote[RemoteHead].tree[f] \subseteq remote'[Len(remote')].tree[f] \cup Gone'
  <2>1. /\ Len(remote) \in DOMAIN remote' /\ remote'[Len(remote)] = remote[RemoteHead]
        /\ Len(remote') \in DOMAIN remote' /\ Len(remote) <= Len(remote')
    <3>1. Len(remote) \in DOMAIN remote /\ Len(remote) \in Nat  BY HeadType
    <3>2. Len(remote') \in Nat /\ DOMAIN remote' = 1 .. Len(remote') /\ Len(remote') \in DOMAIN remote'
      BY DEF TypeOK, HistoryOK
    <3>3. QED  BY <3>1, <3>2 DEF BranchGrows
  <2>2. QED  BY <2>1 DEF BranchKeeps
<1>3. ASSUME NEW n \in 1 .. edits.remote
      PROVE  MaxLocal + n \in Carries(remote'[Len(remote')].tree) \cup Gone'
  <2>1. MaxLocal + n \in Carries(remote[RemoteHead].tree) \cup Gone
    BY DEF RemoteEditsKept, Gone
  <2>2. QED  BY <1>2, <2>1 DEF Carries
<1>4. CASE edits' = edits
  BY <1>3, <1>4 DEF RemoteEditsKept, Gone
<1>5. ASSUME NEW f \in Files, UserEdits(f) PROVE RemoteEditsKept'
  <2>1. edits'.remote = edits.remote  BY <1>5 DEF UserEdits, TypeOK, CountsOK
  <2>2. QED  BY <1>3, <2>1 DEF RemoteEditsKept, Gone
<1>6. ASSUME NEW f \in Files, OthersPush(f) PROVE RemoteEditsKept'
  <2>1. edits'.remote = edits.remote + 1  BY <1>6 DEF OthersPush, TypeOK, CountsOK
  <2>2. PICK c \in Commit : /\ remote' = Append(remote, c)
                            /\ MaxLocal + edits.remote + 1 \in c.tree[f]
    BY <1>6, OthersAdd
  <2>3. remote'[Len(remote')] = c  BY <2>2 DEF TypeOK, HistoryOK
  <2>4. MaxLocal + (edits.remote + 1) \in Carries(remote'[Len(remote')].tree)
    BY <1>1, <2>2, <2>3 DEF Carries
  <2>5. \A n \in 1 .. edits'.remote : n \in 1 .. edits.remote \/ n = edits.remote + 1
    BY <1>1, <2>1
  <2>6. QED  BY <1>3, <2>4, <2>5 DEF RemoteEditsKept, Gone
<1>7. QED
  BY <1>4, <1>5, <1>6
     DEF Next, vars, StartSync, Discard, CreateRun, Clone, CopyFile, Merge, Resolve, Finalize,
         CompileSucceeds, Choose, Resolved, ReadVersion, ApplyGithubSyncTree, SkipsCompile, Ready,
         ObserveRemote, Push, PushFails, UpdateSource, Complete, ApplyStops, ApplyRefused,
         StepFails, Crash, Interrupted

-----------------------------------------------------------------------------
\* The paper carries what its source carries: it only changes by users, who add,
\* and by a merge with a later commit; and a source is recorded when the paper has
\* the tree of its commit.

\* Users add to a file of the paper.
LEMMA UsersAdd ==
  ASSUME TypeOK, NEW f \in Files, UserEdits(f)
  PROVE  \A g \in Files : Workspace[g] \subseteq (Workspace')[g]
<1> DEFINE t == [Workspace EXCEPT ![f] = @ \cup {edits.local + 1}]
<1>1. trees' = Append(trees, t) /\ trees \in Seq(Trees) /\ Workspace \in Trees
  BY HeadType DEF UserEdits, TypeOK, HistoryOK
<1>2. \A g \in Files : Workspace[g] \subseteq t[g]  BY <1>1 DEF Trees
<1> HIDE DEF t
<1>3. trees'[Len(trees')] = t  BY <1>1
<1>4. QED  BY <1>2, <1>3

\* What the paper becomes.
LEMMA PaperMoves ==
  ASSUME TypeOK, [Next]_vars
  PROVE  \/ trees' = trees
         \/ \A f \in Files : Workspace[f] \subseteq (Workspace')[f]
         \/ ApplyGithubSyncTree \/ ApplyStops
  BY UsersAdd
     DEF Next, vars, StartSync, Discard, CreateRun, Clone, CopyFile, Merge, Resolve, Finalize,
         CompileSucceeds, Choose, Resolved, ReadVersion, SkipsCompile, Ready, OthersPush,
         ObserveRemote, Push, Pushes, PushFails, UpdateSource, Complete, ApplyRefused, StepFails,
         Crash, Interrupted

LEMMA Applied ==
  ASSUME TypeOK, ApplyGithubSyncTree
  PROVE  /\ op.run # 0 /\ Workspace' = Run.clone /\ op.phase = "apply"
         /\ op'.run = op.run /\ op'.phase \in {"unchanged", "ready"}
         /\ SaveRun([Run EXCEPT !.version = Len(trees')]) /\ Len(trees') \in Nat
<1>1. op.run # 0  BY DEF ApplyGithubSyncTree, TypeOK, OpOK
<1>2. trees \in Seq(Trees) /\ trees # <<>> /\ Run.clone \in Trees
  BY <1>1, RunType DEF TypeOK, HistoryOK, SyncRun
<1>3. trees' = IF Workspace = Run.clone THEN trees ELSE Append(trees, Run.clone)
  BY DEF ApplyGithubSyncTree
<1>4. trees'[Len(trees')] = Run.clone /\ Len(trees') \in Nat  BY <1>2, <1>3
<1>5. QED  BY <1>1, <1>4 DEF ApplyGithubSyncTree, Goes, TypeOK, OpOK

\* The commit that UpdateSource records has the tree of the run's clone.
LEMMA SourceIsClone ==
  ASSUME TypeOK, RunsAreTrue, OpIsTrue, SkipsCompile \/ UpdateSource
  PROVE  /\ op.run # 0 /\ remote' = remote /\ trees' = trees /\ runs' = runs
         /\ op'.phase = "complete" /\ op'.run = op.run
         /\ remote[source'].tree = Run.clone
<1>1. op.run # 0  BY DEF SkipsCompile, UpdateSource, TypeOK, OpOK
<1>2. /\ remote' = remote /\ trees' = trees /\ runs' = runs
      /\ op'.phase = "complete" /\ op'.run = op.run
  BY DEF SkipsCompile, UpdateSource, Goes, TypeOK, OpOK
<1>3. CASE SkipsCompile
  BY <1>1, <1>2, <1>3 DEF SkipsCompile, OpIsTrue
<1>4. CASE UpdateSource
  <2>1. /\ op.phase = "source"
        /\ source' = IF Run.clone = remote[Run.remote].tree THEN Run.remote
                     ELSE CHOOSE c \in DOMAIN remote : remote[c].by = op.run
    BY <1>4 DEF UpdateSource
  <2>2. CASE Run.clone = remote[Run.remote].tree  BY <1>1, <1>2, <2>1, <2>2
  <2>3. CASE Run.clone # remote[Run.remote].tree
    <3>1. \E c \in DOMAIN remote : remote[c].by = op.run  BY <2>1, <2>3 DEF TypeOK, OpOK
    <3>2. source' \in DOMAIN remote /\ remote[source'].by = op.run  BY <2>1, <2>3, <3>1
    <3>3. QED  BY <1>1, <1>2, <3>2 DEF RunsAreTrue
  <2>4. QED  BY <2>2, <2>3
<1>5. QED  BY <1>3, <1>4

LEMMA SourceMoves ==
  ASSUME [Next]_vars
  PROVE  source' = source \/ SkipsCompile \/ UpdateSource
  BY DEF Next, vars, StartSync, Discard, CreateRun, Clone, CopyFile, Merge, Resolve, Finalize,
         CompileSucceeds, Choose, Resolved, ReadVersion, ApplyGithubSyncTree, Ready, OthersPush,
         ObserveRemote, Push, PushFails, Complete, UserEdits, ApplyStops, ApplyRefused, StepFails,
         Crash, Interrupted

LEMMA SourceStep ==
  ASSUME TypeOK, StatusFits, RunsAreTrue, OpIsTrue, BranchGrows, KeepInv, [Next]_vars
  PROVE  PaperHasSource'
<1>1. Gone \subseteq Gone'  BY GoneGrows
<1>2. CASE source' = source
  <2>1. source \in DOMAIN remote /\ remote'[source] = remote[source]
    BY DEF TypeOK, HistoryOK, BranchGrows
  <2>2. CASE trees' = trees
    BY <1>1, <1>2, <2>1, <2>2 DEF KeepInv, PaperHasSource
  <2>3. CASE \A f \in Files : Workspace[f] \subseteq (Workspace')[f]
    BY <1>1, <1>2, <2>1, <2>3 DEF KeepInv, PaperHasSource
  <2>4. CASE ApplyGithubSyncTree
    <3>1. op.run # 0 /\ Workspace' = Run.clone /\ op.phase = "apply"  BY <2>4, Applied
    <3>2. Run.conflicts = {} /\ Kept(Run, remote, Gone) /\ source <= Run.remote
      BY <3>1 DEF KeepInv, OpMerges, Applying
    <3>3. \A f \in Files : remote[Run.remote].tree[f] \subseteq Run.clone[f] \cup Gone
      BY <3>2 DEF Kept
    <3>4. \A f \in Files : remote[source].tree[f] \subseteq remote[Run.remote].tree[f] \cup Gone
      BY <2>1, <3>1, <3>2, RunType DEF KeepInv, BranchKeeps
    <3>5. QED  BY <1>1, <1>2, <2>1, <3>1, <3>3, <3>4 DEF PaperHasSource
  <2>5. CASE ApplyStops
    <3>1. /\ op.run # 0 /\ op.phase = "apply" /\ remote' = remote
          /\ \A f \in Files :
               (Workspace')[f] \in {Workspace[f], Run.clone[f]} \/ Workspace[f] \subseteq lost'
      BY <2>5, Stopped
    <3>2. Run.conflicts = {} /\ Kept(Run, remote, Gone) /\ source <= Run.remote
      BY <3>1 DEF KeepInv, OpMerges, Applying
    <3>3. \A f \in Files : remote[Run.remote].tree[f] \subseteq Run.clone[f] \cup Gone
      BY <3>2 DEF Kept
    <3>4. \A f \in Files : remote[source].tree[f] \subseteq remote[Run.remote].tree[f] \cup Gone
      BY <2>1, <3>1, <3>2, RunType DEF KeepInv, BranchKeeps
    <3>5. \A f \in Files : remote[source].tree[f] \subseteq Workspace[f] \cup Gone
      BY DEF KeepInv, PaperHasSource
    <3>6. lost' \subseteq Gone'  BY DEF Gone
    <3>7. \A f \in Files : remote[source].tree[f] \subseteq (Workspace')[f] \cup Gone'
      BY <1>1, <3>1, <3>3, <3>4, <3>5, <3>6
    <3>8. QED  BY <1>2, <3>1, <3>7 DEF PaperHasSource
  <2>6. QED  BY <2>2, <2>3, <2>4, <2>5, PaperMoves
<1>3. CASE SkipsCompile \/ UpdateSource
  <2>1. /\ op.run # 0 /\ remote' = remote /\ trees' = trees
        /\ remote[source'].tree = Run.clone
    BY <1>3, SourceIsClone
  <2>2. op.phase \in Publishing \cup {"unchanged"}
    BY <1>3 DEF SkipsCompile, UpdateSource, Publishing
  <2>3. \A f \in Files : Run.clone[f] \subseteq Workspace[f] \cup Gone
    BY <2>2 DEF KeepInv, OpMerges
  <2>4. QED  BY <1>1, <2>1, <2>3 DEF PaperHasSource
<1>4. QED  BY <1>2, <1>3, SourceMoves

-----------------------------------------------------------------------------
\* The runs keep both sides of their merges.

\* Of two runs: the second has what the first merged.
SameSides(x, y) ==
  /\ y.version = x.version /\ y.conflicts = x.conflicts /\ y.staged = x.staged
  /\ y.local = x.local /\ y.remote = x.remote /\ y.clone = x.clone

LEMMA SidesKept ==
  ASSUME TypeOK, BranchGrows, Gone \subseteq Gone', NEW r \in DOMAIN runs, NEW y,
         SameSides(runs[r], y), Kept(runs[r], remote, Gone)
  PROVE  Kept(y, remote', Gone')
<1>1. runs[r].remote \in DOMAIN remote  BY DEF TypeOK, RunsOK
<1>2. remote'[runs[r].remote] = remote[runs[r].remote]  BY <1>1 DEF BranchGrows
<1>3. QED  BY <1>2 DEF Kept, SameSides

LEMMA SameMerges ==
  ASSUME TypeOK, RunsMerge, BranchGrows, Gone \subseteq Gone', NEW r \in DOMAIN runs, NEW y,
         SameSides(runs[r], y),
         y.status = "conflicts" => runs[r].status = "conflicts" /\ source' <= y.remote
  PROVE  Merges(y, remote', Gone', source')
<1>1. Merges(runs[r], remote, Gone, source)  BY DEF RunsMerge
<1>2. y.version # 0 => y.conflicts = {}  BY <1>1 DEF Merges, SameSides
<1>3. y.version # 0 \/ y.status = "conflicts" => Kept(y, remote', Gone')
  BY <1>1, SidesKept DEF Merges, SameSides
<1>4. QED  BY <1>2, <1>3 DEF Merges

LEMMA KeptMerges ==
  ASSUME TypeOK, RunsMerge, BranchGrows, Gone \subseteq Gone', runs' = runs, source' = source
  PROVE  RunsMerge'
<1>1. ASSUME NEW r \in DOMAIN runs PROVE Merges(runs[r], remote', Gone', source')
  <2>1. SameSides(runs[r], runs[r])  BY DEF SameSides
  <2>2. runs[r].status = "conflicts" => source' <= runs[r].remote  BY DEF RunsMerge, Merges
  <2>3. QED  BY <2>1, <2>2, SameMerges
<1>2. QED  BY <1>1 DEF RunsMerge

LEMMA SavedMerges ==
  ASSUME TypeOK, RunsMerge, BranchGrows, Gone \subseteq Gone', source' = source, op.run # 0,
         NEW x \in SyncRun, SaveRun(x), Merges(x, remote', Gone', source)
  PROVE  RunsMerge'
<1>1. /\ DOMAIN runs' = DOMAIN runs /\ runs'[op.run] = x
      /\ \A r \in DOMAIN runs : r # op.run => runs'[r] = runs[r]
  BY SaveRunType
<1>2. ASSUME NEW r \in DOMAIN runs' PROVE Merges(runs'[r], remote', Gone', source')
  <2>1. CASE r = op.run  BY <1>1, <2>1
  <2>2. CASE r # op.run
    <3>1. r \in DOMAIN runs /\ runs'[r] = runs[r]  BY <1>1, <2>2
    <3>2. SameSides(runs[r], runs[r])  BY DEF SameSides
    <3>3. runs[r].status = "conflicts" => source' <= runs[r].remote
      BY <3>1 DEF RunsMerge, Merges
    <3>4. QED  BY <3>1, <3>2, <3>3, SameMerges
  <2>3. QED  BY <2>1, <2>2
<1>3. QED  BY <1>2 DEF RunsMerge

LEMMA EndsMerges == ASSUME Ends PROVE OpMerges'
  BY DEF Ends, NoOp, OpMerges, Cloning, Applying, Publishing

\* Saving one field leaves the others.
LEMMA Fields ==
  ASSUME NEW x \in SyncRun
  PROVE  /\ \A st \in Statuses : SameSides(x, [x EXCEPT !.status = st])
         /\ \A n \in Nat : SameSides(x, [x EXCEPT !.status = "completed", !.synced = n])
         /\ SameSides(x, [x EXCEPT !.compiled = TRUE])
         /\ \A n \in Nat : LET y == [x EXCEPT !.remote = n] IN
              /\ y \in SyncRun /\ y.status = x.status /\ y.remote = n /\ y.version = x.version
              /\ y.conflicts = x.conflicts /\ y.staged = x.staged /\ y.base = x.base
              /\ y.local = x.local
         /\ \A n \in Nat : LET y == [x EXCEPT !.version = n] IN
              /\ y.conflicts = x.conflicts /\ y.staged = x.staged /\ y.local = x.local
         /\ LET y == [x EXCEPT !.conflicts = {}] IN
              /\ y.conflicts = {} /\ y.staged = x.staged /\ y.local = x.local /\ y.remote = x.remote
  BY DEF SyncRun, SameSides

LEMMA MergeStart ==
  ASSUME TypeOK, StatusFits, BranchGrows, KeepInv, Gone \subseteq Gone', PaperHasSource',
         StartSync \/ Discard \/ CreateRun \/ Clone
  PROVE  RunsMerge' /\ OpMerges'
<1>0. source' = source /\ remote' = remote /\ RunsMerge /\ source \in DOMAIN remote
  BY DEF StartSync, Discard, CreateRun, Clone, KeepInv, TypeOK, HistoryOK
<1>1. CASE StartSync
  <2>1. runs' = runs /\ op'.phase = "discard"  BY <1>1 DEF StartSync, NoOp
  <2>2. QED  BY <1>0, <2>1, KeptMerges DEF OpMerges, Cloning, Applying, Publishing
<1>2. CASE Discard
  <2>1. runs \in Seq(SyncRun) /\ DOMAIN runs' = DOMAIN runs
    BY <1>2 DEF Discard, DiscardOpenRuns, TypeOK, RunsOK
  <2>2. ASSUME NEW r \in DOMAIN runs PROVE Merges(runs'[r], remote', Gone', source')
    <3>1. runs[r] \in SyncRun /\ "failed" \in Statuses  BY <2>1 DEF Statuses
    <3>2. \/ runs'[r] = runs[r]
          \/ runs'[r] = [runs[r] EXCEPT !.status = "failed"]
      BY <1>2 DEF Discard, DiscardOpenRuns
    <3>3. SameSides(runs[r], runs[r])  BY DEF SameSides
    <3>4. SameSides(runs[r], runs'[r])  BY <3>1, <3>2, <3>3 DEF SyncRun, SameSides
    <3>5. runs'[r].status = "conflicts" => runs[r].status = "conflicts"
      BY <3>1, <3>2, RunKeeps
    <3>6. runs[r].status = "conflicts" => source' <= runs'[r].remote
      BY <1>0, <3>4 DEF RunsMerge, Merges, SameSides
    <3>7. QED  BY <1>0, <3>4, <3>5, <3>6, SameMerges
  <2>3. op'.phase = "create"  BY <1>2 DEF Discard, Goes, TypeOK, OpOK
  <2>4. QED  BY <2>1, <2>2, <2>3 DEF RunsMerge, OpMerges, Cloning, Applying, Publishing
<1>3. CASE CreateRun
  <2> DEFINE x == [status |-> "failed", base |-> source, remote |-> source, synced |-> 0,
                   local |-> remote[source].tree, clone |-> remote[source].tree,
                   conflicts |-> {}, staged |-> {}, version |-> 0, compiled |-> FALSE]
  <2>1. /\ runs' = Append(runs, x) /\ x.status = "failed" /\ x.version = 0
        /\ x.conflicts = {} /\ x.staged = {} /\ x.base = source /\ x.local = remote[source].tree
    BY <1>3 DEF CreateRun
  <2> HIDE DEF x
  <2>2. runs \in Seq(SyncRun)  BY DEF TypeOK, RunsOK
  <2>3. /\ runs'[Len(runs) + 1] = x /\ DOMAIN runs' = DOMAIN runs \cup {Len(runs) + 1}
        /\ \A r \in DOMAIN runs : runs'[r] = runs[r]
    BY <2>1, <2>2
  <2>4. ASSUME NEW r \in DOMAIN runs PROVE Merges(runs[r], remote', Gone', source')
    <3>1. SameSides(runs[r], runs[r])  BY DEF SameSides
    <3>2. runs[r].status = "conflicts" => source' <= runs[r].remote  BY <1>0 DEF RunsMerge, Merges
    <3>3. QED  BY <1>0, <3>1, <3>2, SameMerges
  <2>5. Merges(x, remote', Gone', source')  BY <2>1 DEF Merges
  <2>6. RunsMerge'  BY <2>3, <2>4, <2>5 DEF RunsMerge
  <2>7. op'.phase = "clone" /\ op'.run = Len(runs) + 1
    BY <1>3 DEF CreateRun, TypeOK, OpOK
  <2>8. OpMerges'
    BY <1>0, <2>1, <2>3, <2>7 DEF OpMerges, Cloning, Applying, Publishing
  <2>9. QED  BY <2>6, <2>8
<1>4. CASE Clone
  <2> DEFINE x == [Run EXCEPT !.remote = RemoteHead]
  <2>1. op.run # 0 /\ op.phase = "clone"  BY <1>4 DEF Clone, TypeOK, OpOK
  <2>2. Run.status = "failed" /\ Run.version = 0 /\ Run.conflicts = {} /\ Run.staged = {}
    BY <2>1 DEF StatusFits, KeepInv, OpMerges, Cloning
  <2>3. /\ Run.base = source
        /\ \A f \in Files : remote[source].tree[f] \subseteq Run.local[f] \cup Gone
    BY <2>1 DEF KeepInv, OpMerges, Cloning
  <2>4. /\ x \in SyncRun /\ x.status = Run.status /\ x.remote = RemoteHead
        /\ x.version = Run.version /\ x.conflicts = Run.conflicts /\ x.staged = Run.staged
        /\ x.base = Run.base /\ x.local = Run.local
    BY <2>1, RunType, HeadType, Fields
  <2>5. SaveRun(x) /\ op'.phase = "copy" /\ op'.run = op.run
    BY <1>4 DEF Clone, TypeOK, OpOK
  <2> HIDE DEF x
  <2>6. Merges(x, remote', Gone', source)  BY <2>2, <2>4 DEF Merges
  <2>7. RunsMerge'  BY <1>0, <2>1, <2>4, <2>5, <2>6, SavedMerges
  <2>8. runs'[op.run] = x  BY <2>1, <2>4, <2>5, SaveRunType
  <2>9. source <= RemoteHead  BY <1>0, HeadType
  <2>10. OpMerges'
    BY <1>0, <2>2, <2>3, <2>4, <2>5, <2>8, <2>9 DEF OpMerges, Cloning, Applying, Publishing
  <2>11. QED  BY <2>7, <2>10
<1>5. QED  BY <1>1, <1>2, <1>3, <1>4

LEMMA MergeCopy ==
  ASSUME TypeOK, StatusFits, BranchGrows, KeepInv, Gone \subseteq Gone', CopyFile
  PROVE  RunsMerge' /\ OpMerges'
<1>1. op.run # 0 /\ op.phase = "copy" /\ source' = source /\ remote' = remote
  BY DEF CopyFile, TypeOK, OpOK
<1>2. PICK f \in op.left : /\ SaveRun([Run EXCEPT !.local[f] = Workspace[f]])
                           /\ op'.phase \in {"copy", "merge"} /\ op'.run = op.run
  BY DEF CopyFile, TypeOK, OpOK
<1> DEFINE x == [Run EXCEPT !.local[f] = Workspace[f]]
<1>3. f \in Files  BY DEF TypeOK, OpOK
<1>4. /\ Run.status = "failed" /\ Run.version = 0 /\ Run.conflicts = {} /\ Run.staged = {}
      /\ Run.base = source /\ source <= Run.remote
      /\ \A g \in Files : remote[source].tree[g] \subseteq Run.local[g] \cup Gone
  BY <1>1 DEF StatusFits, KeepInv, OpMerges, Cloning
<1>5. /\ x \in SyncRun /\ x.status = Run.status /\ x.version = Run.version /\ x.base = Run.base
      /\ x.conflicts = Run.conflicts /\ x.staged = Run.staged /\ x.remote = Run.remote
      /\ x.local[f] = Workspace[f] /\ \A g \in Files : g # f => x.local[g] = Run.local[g]
  <2>1. Run \in SyncRun /\ Workspace[f] \in SUBSET Ids
    BY <1>1, <1>3, RunType, HeadType DEF Trees, Ids
  <2>2. [Run.local EXCEPT ![f] = Workspace[f]] \in Trees  BY <1>3, <2>1 DEF SyncRun, Trees, Ids
  <2>3. QED  BY <1>3, <2>1, <2>2 DEF SyncRun, Trees
<1>6. SaveRun(x)  BY <1>2
<1> HIDE DEF x
<1>7. Merges(x, remote', Gone', source)  BY <1>4, <1>5 DEF Merges
<1>8. RunsMerge'  BY <1>1, <1>5, <1>6, <1>7, SavedMerges DEF KeepInv
<1>9. runs'[op.run] = x  BY <1>1, <1>5, <1>6, SaveRunType
<1>10. \A g \in Files : remote[source].tree[g] \subseteq x.local[g] \cup Gone'
  BY <1>4, <1>5 DEF KeepInv, PaperHasSource
<1>11. OpMerges'
  BY <1>1, <1>2, <1>4, <1>5, <1>9, <1>10 DEF OpMerges, Cloning, Applying, Publishing
<1>12. QED  BY <1>8, <1>11

\* Of a file without a conflict the merge keeps both sides, when both have the base.
LEMMA MergedKeeps ==
  ASSUME NEW b, NEW l, NEW r, NEW gone,
         b \subseteq l \cup gone, b \subseteq r \cup gone, ~Conflicting(b, l, r)
  PROVE  l \cup r \subseteq Merged(b, l, r) \cup gone
  BY DEF Merged, Conflicting

LEMMA MergeMerge ==
  ASSUME TypeOK, StatusFits, BranchGrows, KeepInv, Gone \subseteq Gone', Merge
  PROVE  RunsMerge' /\ OpMerges'
<1> DEFINE base == remote[Run.base].tree
           incoming == remote[Run.remote].tree
           C == {f \in Files : Conflicting(base[f], Run.local[f], incoming[f])}
           clone == [f \in Files |-> Merged(base[f], Run.local[f], incoming[f])]
           clean == [Run EXCEPT !.clone = clone]
           marked == [Run EXCEPT !.clone = clone, !.conflicts = C, !.status = "conflicts"]
<1>1. op.run # 0 /\ op.phase = "merge" /\ source' = source /\ remote' = remote
  BY DEF Merge, TypeOK, OpOK
<1>2. /\ Run.status = "failed" /\ Run.version = 0 /\ Run.conflicts = {} /\ Run.staged = {}
      /\ Run.base = source /\ source <= Run.remote
      /\ \A f \in Files : remote[source].tree[f] \subseteq Run.local[f] \cup Gone
  BY <1>1 DEF StatusFits, KeepInv, OpMerges, Cloning
<1>3. clone \in Trees /\ C \in SUBSET Files /\ Run \in SyncRun  BY <1>1, MergedTree, RunType
<1>4. \A f \in Files \ C : Run.local[f] \cup incoming[f] \subseteq clone[f] \cup Gone
  <2>1. source \in DOMAIN remote /\ Run.remote \in DOMAIN remote
    BY <1>1, RunType DEF TypeOK, HistoryOK
  <2>2. \A f \in Files : base[f] \subseteq incoming[f] \cup Gone /\ base[f] \subseteq Run.local[f] \cup Gone
    BY <1>2, <2>1 DEF KeepInv, BranchKeeps
  <2> HIDE DEF base, incoming
  <2>3. QED  BY <2>2, MergedKeeps
<1>5. \/ C = {} /\ SaveRun(clean) /\ op'.phase = "before" /\ op'.run = op.run
      \/ SaveRun(marked) /\ Ends
  BY DEF Merge, Goes, TypeOK, OpOK
<1>6. CASE C = {} /\ SaveRun(clean) /\ op'.phase = "before" /\ op'.run = op.run
  <2>1. /\ clean \in SyncRun /\ clean.status = "failed" /\ clean.version = 0 /\ clean.clone = clone
        /\ clean.conflicts = {} /\ clean.local = Run.local /\ clean.remote = Run.remote
    BY <1>2, <1>3 DEF SyncRun
  <2>2. SaveRun(clean)  BY <1>6
  <2>3. \A f \in Files : Run.local[f] \cup remote[Run.remote].tree[f] \subseteq clone[f] \cup Gone
    BY <1>4, <1>6
  <2> HIDE DEF clean, clone, C, base, incoming
  <2>4. Kept(clean, remote', Gone')  BY <1>1, <2>1, <2>3 DEF Kept
  <2>5. Merges(clean, remote', Gone', source)  BY <2>1 DEF Merges
  <2>6. RunsMerge'  BY <1>1, <2>1, <2>2, <2>5, SavedMerges DEF KeepInv
  <2>7. runs'[op.run] = clean  BY <1>1, <2>1, <2>2, SaveRunType
  <2>8. OpMerges'
    BY <1>1, <1>2, <1>6, <2>1, <2>4, <2>7 DEF OpMerges, Cloning, Applying, Publishing
  <2>9. QED  BY <2>6, <2>8
<1>7. CASE SaveRun(marked) /\ Ends
  <2>1. /\ marked \in SyncRun /\ marked.version = 0 /\ marked.clone = clone
        /\ marked.conflicts = C /\ marked.staged = {}
        /\ marked.local = Run.local /\ marked.remote = Run.remote
    BY <1>2, <1>3 DEF SyncRun, Statuses, Open
  <2>2. SaveRun(marked)  BY <1>7
  <2>3. \A f \in Files \ C :
          Run.local[f] \cup remote[Run.remote].tree[f] \subseteq clone[f] \cup Gone
    BY <1>4
  <2> HIDE DEF marked, clone, C, base, incoming
  <2>4. Kept(marked, remote', Gone')  BY <1>1, <2>1, <2>3 DEF Kept
  <2>5. Merges(marked, remote', Gone', source)  BY <1>2, <2>1, <2>4 DEF Merges
  <2>6. RunsMerge'  BY <1>1, <2>1, <2>2, <2>5, SavedMerges DEF KeepInv
  <2>7. QED  BY <1>7, <2>6, EndsMerges
<1>8. QED  BY <1>5, <1>6, <1>7

LEMMA MergeResolve ==
  ASSUME TypeOK, StatusFits, RunsAreTrue, BranchGrows, KeepInv, Gone \subseteq Gone', NEW r \in DOMAIN runs,
         Resolve(r) \/ Finalize(r) \/ CompileSucceeds(r)
  PROVE  RunsMerge' /\ OpMerges'
<1>0. /\ source' = source /\ remote' = remote /\ trees' = trees
      /\ RunsMerge /\ OpMerges
  BY DEF Resolve, Finalize, CompileSucceeds, KeepInv
<1>1. CASE Resolve(r)
  <2>1. runs' = runs /\ op'.phase = "choose" /\ op'.run = r /\ op'.left = runs[r].conflicts
    BY <1>1 DEF Resolve, NoOp
  <2>2. RunsMerge'  BY <1>0, <2>1, KeptMerges
  <2>3. OpMerges'  BY <2>1 DEF OpMerges, Cloning, Applying, Publishing
  <2>4. QED  BY <2>2, <2>3
<1>2. CASE Finalize(r)
  <2>1. runs' = runs /\ op'.phase = "observe" /\ op'.run = r  BY <1>2 DEF Finalize, NoOp
  <2>2. RunsMerge'  BY <1>0, <2>1, KeptMerges
  <2>3. runs[r].clone = Workspace
    BY <1>2 DEF Finalize, Publishable, RunsAreTrue, Stands
  <2>4. OpMerges'  BY <1>0, <2>1, <2>3 DEF OpMerges, Cloning, Applying, Publishing
  <2>5. QED  BY <2>2, <2>4
<1>3. CASE CompileSucceeds(r)
  <2> DEFINE x == [runs[r] EXCEPT !.compiled = TRUE]
  <2>1. runs \in Seq(SyncRun) /\ runs[r] \in SyncRun  BY DEF TypeOK, RunsOK
  <2>2. runs' = [runs EXCEPT ![r] = x] /\ op' = op  BY <1>3 DEF CompileSucceeds
  <2>3. SameSides(runs[r], x) /\ x.status = runs[r].status /\ x.base = runs[r].base
    BY <2>1 DEF SyncRun, SameSides
  <2> HIDE DEF x
  <2>4. /\ DOMAIN runs' = DOMAIN runs
        /\ \A q \in DOMAIN runs : /\ SameSides(runs[q], runs'[q])
                                  /\ runs'[q].status = runs[q].status
                                  /\ runs'[q].base = runs[q].base
    <3>1. \A q \in DOMAIN runs : runs'[q] = runs[q] \/ (q = r /\ runs'[q] = x)
      BY <2>1, <2>2
    <3>2. \A q \in DOMAIN runs : SameSides(runs[q], runs[q])  BY DEF SameSides
    <3>3. QED  BY <2>1, <2>2, <2>3, <3>1, <3>2
  <2>5. RunsMerge'
    <3>1. ASSUME NEW q \in DOMAIN runs PROVE Merges(runs'[q], remote', Gone', source')
      <4>1. runs[q].status = "conflicts" => source <= runs[q].remote
        BY <1>0 DEF RunsMerge, Merges
      <4>2. SameSides(runs[q], runs'[q]) /\ runs'[q].status = runs[q].status
            /\ runs'[q].remote = runs[q].remote
        BY <2>4 DEF SameSides
      <4>3. QED  BY <1>0, <4>1, <4>2, SameMerges
    <3>2. QED  BY <2>4, <3>1 DEF RunsMerge
  <2>6. op.run = 0 => op.phase \in {"idle", "discard", "create"}  BY DEF TypeOK, OpOK
  <2>7. CASE op.run = 0
    <3>1. op'.phase \in {"idle", "discard", "create"}  BY <2>2, <2>6, <2>7
    <3>2. OpMerges'  BY <3>1 DEF OpMerges, Cloning, Applying, Publishing
    <3>3. QED  BY <2>5, <3>2
  <2>8. CASE op.run # 0
    <3>1. op.run \in DOMAIN runs  BY <2>8, RunType
    <3>2. SameSides(Run, runs'[op.run]) /\ runs'[op.run].base = Run.base
      BY <2>4, <3>1
    <3>3. Kept(Run, remote, Gone) => Kept(runs'[op.run], remote', Gone')
      BY <3>1, <3>2, SidesKept
    <3>4. OpMerges'
      BY <1>0, <2>2, <3>2, <3>3 DEF OpMerges, SameSides
    <3>5. QED  BY <2>5, <3>4
  <2>9. QED  BY <2>5, <2>7, <2>8
<1>4. QED  BY <1>1, <1>2, <1>3

LEMMA MergeChoose ==
  ASSUME TypeOK, StatusFits, BranchGrows, KeepInv, Gone \subseteq Gone',
         NEW f \in Files, NEW c \in {"fastwrite", "github", "edited"}, Choose(f, c)
  PROVE  RunsMerge' /\ OpMerges'
<1> DEFINE t == [Run.clone EXCEPT ![f] = ChosenSide(f, c)]
           x == [Run EXCEPT !.clone[f] = ChosenSide(f, c), !.staged = @ \cup {f}]
<1>1. /\ op.run # 0 /\ op.phase = "choose" /\ op.run \in DOMAIN runs
      /\ source' = source /\ remote' = remote
  BY RunType DEF Choose, TypeOK, OpOK
<1>2. /\ SaveRun(x) /\ op'.phase = "choose" /\ op'.run = op.run /\ op'.left = op.left \ {f}
  BY <1>1 DEF Choose, TypeOK, OpOK
<1>3. Sides(f) \subseteq ChosenSide(f, c) \cup Gone'
  BY DEF Choose, ChosenSide, Gone
<1>4. /\ Run.status = "conflicts" /\ Kept(Run, remote, Gone) /\ source <= Run.remote
      /\ Run.version # 0 => Run.conflicts = {}
      /\ Run.conflicts \ Run.staged \subseteq op.left
  BY <1>1 DEF StatusFits, KeepInv, RunsMerge, Merges, OpMerges
<1>5. t \in Trees /\ Run \in SyncRun  BY <1>1, ChosenTree, RunType
<1>6. /\ x \in SyncRun /\ x.version = Run.version /\ x.status = Run.status
      /\ x.local = Run.local /\ x.remote = Run.remote /\ x.conflicts = Run.conflicts
      /\ x.staged = Run.staged \cup {f} /\ x.clone = t
  BY <1>5 DEF SyncRun
<1>7. t[f] = ChosenSide(f, c) /\ \A g \in Files : g # f => t[g] = Run.clone[g]
  BY <1>5 DEF SyncRun, Trees
<1>8. Sides(f) = Run.local[f] \cup remote[Run.remote].tree[f]  BY DEF Sides
<1>9. SaveRun(x)  BY <1>2
<1> HIDE DEF x, t
<1>10. Kept(x, remote', Gone')
  <2>1. SUFFICES ASSUME NEW g \in Files \ (x.conflicts \ x.staged)
                 PROVE  x.local[g] \cup remote'[x.remote].tree[g] \subseteq x.clone[g] \cup Gone'
    BY DEF Kept
  <2>2. CASE g = f  BY <1>1, <1>3, <1>6, <1>7, <1>8, <2>2
  <2>3. CASE g # f
    <3>1. g \in Files \ (Run.conflicts \ Run.staged)  BY <1>6, <2>1, <2>3
    <3>2. Run.local[g] \cup remote[Run.remote].tree[g] \subseteq Run.clone[g] \cup Gone
      BY <1>4, <3>1 DEF Kept
    <3>3. QED  BY <1>1, <1>6, <1>7, <2>3, <3>2
  <2>4. QED  BY <2>2, <2>3
<1>11. Merges(x, remote', Gone', source)  BY <1>4, <1>6, <1>10 DEF Merges
<1>12. RunsMerge'  BY <1>1, <1>6, <1>9, <1>11, SavedMerges DEF KeepInv
<1>13. runs'[op.run] = x  BY <1>1, <1>6, <1>9, SaveRunType
<1>14. OpMerges'
  BY <1>2, <1>4, <1>6, <1>13 DEF OpMerges, Cloning, Applying, Publishing
<1>15. QED  BY <1>12, <1>14

LEMMA MergeResolved ==
  ASSUME TypeOK, StatusFits, BranchGrows, KeepInv, Gone \subseteq Gone', Resolved
  PROVE  RunsMerge' /\ OpMerges'
<1> DEFINE x == [Run EXCEPT !.conflicts = {}]
<1>1. /\ op.run # 0 /\ op.phase = "choose" /\ op.run \in DOMAIN runs /\ op.left = {}
      /\ source' = source /\ remote' = remote
      /\ SaveRun(x) /\ op'.phase = "before" /\ op'.run = op.run
  BY RunType DEF Resolved, Goes, TypeOK, OpOK
<1>2. /\ Run.status = "conflicts" /\ Kept(Run, remote, Gone) /\ source <= Run.remote
      /\ Run.conflicts \ Run.staged = {}
  BY <1>1 DEF StatusFits, KeepInv, RunsMerge, Merges, OpMerges
<1>3. /\ x \in SyncRun /\ x.version = Run.version /\ x.status = Run.status
      /\ x.local = Run.local /\ x.remote = Run.remote /\ x.conflicts = {} /\ x.clone = Run.clone
  BY <1>1, RunType DEF SyncRun
<1>4. SaveRun(x)  BY <1>1
<1> HIDE DEF x
<1>5. Kept(x, remote', Gone')
  <2>1. \A f \in Files :
          Run.local[f] \cup remote[Run.remote].tree[f] \subseteq Run.clone[f] \cup Gone
    BY <1>2 DEF Kept
  <2>2. QED  BY <1>1, <1>3, <2>1 DEF Kept
<1>6. Merges(x, remote', Gone', source)  BY <1>2, <1>3, <1>5 DEF Merges
<1>7. RunsMerge'  BY <1>1, <1>3, <1>4, <1>6, SavedMerges DEF KeepInv
<1>8. runs'[op.run] = x  BY <1>1, <1>3, <1>4, SaveRunType
<1>9. OpMerges'
  BY <1>1, <1>2, <1>3, <1>5, <1>8 DEF OpMerges, Cloning, Applying, Publishing
<1>10. QED  BY <1>7, <1>9

\* A source that is recorded is not younger than what an undecided run merged.
LEMMA SourceMerges ==
  ASSUME TypeOK, OpenInv, RunsMerge, BranchGrows, Gone \subseteq Gone', runs' = runs, op.run # 0,
         Run.status = "conflicts" => source' <= Run.remote
  PROVE  RunsMerge'
<1>1. ASSUME NEW r \in DOMAIN runs PROVE Merges(runs[r], remote', Gone', source')
  <2>1. SameSides(runs[r], runs[r])  BY DEF SameSides
  <2>2. runs[r].status = "conflicts" => r = op.run  BY DEF OpenInv, OpenRuns, Open
  <2>3. QED  BY <2>1, <2>2, SameMerges
<1>2. QED  BY <1>1 DEF RunsMerge

LEMMA MergeApply ==
  ASSUME TypeOK, StatusFits, OpenInv, RunsAreTrue, OpIsTrue, BranchGrows, KeepInv, Gone \subseteq Gone',
         ReadVersion \/ ApplyGithubSyncTree \/ SkipsCompile \/ Ready
  PROVE  RunsMerge' /\ OpMerges'
<1>1. op.run # 0 /\ op.phase \in Applying /\ op.run \in DOMAIN runs /\ remote' = remote
  BY RunType DEF ReadVersion, ApplyGithubSyncTree, SkipsCompile, Ready, TypeOK, OpOK, Applying
<1>2. /\ Run.conflicts = {} /\ Kept(Run, remote, Gone) /\ source <= Run.remote /\ RunsMerge
      /\ Run \in SyncRun
  BY <1>1, RunType DEF KeepInv, OpMerges
<1>3. CASE ReadVersion
  <2>1. runs' = runs /\ source' = source /\ op'.phase = "apply" /\ op'.run = op.run
    BY <1>3 DEF ReadVersion, TypeOK, OpOK
  <2>2. RunsMerge'  BY <1>2, <2>1, KeptMerges
  <2>3. SameSides(Run, Run)  BY DEF SameSides
  <2>4. Kept(Run, remote', Gone')  BY <1>1, <1>2, <2>3, SidesKept
  <2>5. OpMerges'  BY <1>2, <2>1, <2>4 DEF OpMerges, Cloning, Applying, Publishing
  <2>6. QED  BY <2>2, <2>5
<1>4. CASE ApplyGithubSyncTree
  <2> DEFINE x == [Run EXCEPT !.version = Len(trees')]
  <2>1. /\ Workspace' = Run.clone /\ op'.run = op.run /\ op'.phase \in {"unchanged", "ready"}
        /\ SaveRun(x) /\ Len(trees') \in Nat /\ source' = source
    BY <1>4, Applied DEF ApplyGithubSyncTree
  <2>2. /\ x \in SyncRun /\ x.status = Run.status /\ x.clone = Run.clone /\ x.remote = Run.remote
        /\ x.conflicts = Run.conflicts /\ x.staged = Run.staged /\ x.local = Run.local
    BY <1>2, <2>1 DEF SyncRun
  <2>3. SaveRun(x)  BY <2>1
  <2> HIDE DEF x
  <2>4. Kept(x, remote', Gone')  BY <1>1, <1>2, <2>2 DEF Kept
  <2>5. Merges(x, remote', Gone', source)  BY <1>2, <2>2, <2>4 DEF Merges
  <2>6. RunsMerge'  BY <1>1, <1>2, <2>1, <2>2, <2>3, <2>5, SavedMerges
  <2>7. runs'[op.run] = x  BY <1>1, <2>2, <2>3, SaveRunType
  <2>8. OpMerges'
    BY <1>2, <2>1, <2>2, <2>4, <2>7 DEF OpMerges, Cloning, Applying, Publishing
  <2>9. QED  BY <2>6, <2>8
<1>5. CASE SkipsCompile
  <2>1. /\ runs' = runs /\ op'.phase = "complete" /\ source' = Run.remote
    BY <1>5 DEF SkipsCompile, Goes, TypeOK, OpOK
  <2>2. Run.remote \in Nat  BY <1>2 DEF SyncRun
  <2>3. RunsMerge'  BY <1>1, <1>2, <2>1, <2>2, SourceMerges
  <2>4. OpMerges'  BY <2>1 DEF OpMerges, Cloning, Applying, Publishing
  <2>5. QED  BY <2>3, <2>4
<1>6. CASE Ready
  <2> DEFINE x == [Run EXCEPT !.status = "ready-to-compile"]
  <2>1. SaveRun(x) /\ Ends /\ source' = source  BY <1>6 DEF Ready
  <2>2. "ready-to-compile" \in Statuses  BY DEF Statuses, Open
  <2>3. x \in SyncRun /\ x.status = "ready-to-compile" /\ SameSides(Run, x)
    BY <1>2, <2>2 DEF SyncRun, SameSides
  <2> HIDE DEF x
  <2>4. Merges(x, remote', Gone', source')  BY <1>1, <1>2, <2>3, SameMerges
  <2>5. RunsMerge'  BY <1>1, <1>2, <2>1, <2>3, <2>4, SavedMerges
  <2>6. QED  BY <2>1, <2>5, EndsMerges
<1>7. QED  BY <1>3, <1>4, <1>5, <1>6

LEMMA MergePublish ==
  ASSUME TypeOK, StatusFits, OpenInv, RunsAreTrue, OpIsTrue, BranchGrows, KeepInv, Gone \subseteq Gone',
         ObserveRemote \/ Push \/ PushFails \/ UpdateSource \/ Complete
  PROVE  RunsMerge' /\ OpMerges'
<1>1. op.run # 0 /\ op.run \in DOMAIN runs /\ RunsMerge /\ Run \in SyncRun /\ trees' = trees
  BY RunType DEF ObserveRemote, Push, PushFails, UpdateSource, Complete, TypeOK, OpOK, KeepInv
<1>2. ASSUME NEW x \in SyncRun, SameSides(Run, x), x.status # "conflicts", SaveRun(x), Ends,
             source' = source
      PROVE  RunsMerge' /\ OpMerges'
  <2>1. Merges(x, remote', Gone', source')  BY <1>1, <1>2, SameMerges
  <2>2. QED  BY <1>1, <1>2, <2>1, SavedMerges, EndsMerges
<1>3. ASSUME NEW st \in {"remote-changed", "failed"}, SaveRun([Run EXCEPT !.status = st]), Ends,
             source' = source
      PROVE  RunsMerge' /\ OpMerges'
  <2> DEFINE x == [Run EXCEPT !.status = st]
  <2>1. st \in Statuses  BY <1>3 DEF Statuses
  <2>2. x \in SyncRun /\ SameSides(Run, x) /\ x.status # "conflicts"
    BY <1>1, <1>3, <2>1 DEF SyncRun, SameSides
  <2>3. SaveRun(x)  BY <1>3
  <2> HIDE DEF x
  <2>4. QED  BY <1>2, <1>3, <2>2, <2>3
<1>4. ASSUME op.phase \in Publishing, runs' = runs, source' = source,
             op'.phase \in {"push", "source"}, op'.run = op.run
      PROVE  RunsMerge' /\ OpMerges'
  <2>1. \A f \in Files : Run.clone[f] \subseteq Workspace[f] \cup Gone
    BY <1>4 DEF KeepInv, OpMerges
  <2>2. OpMerges'  BY <1>1, <1>4, <2>1 DEF OpMerges, Cloning, Applying, Publishing
  <2>3. QED  BY <1>1, <1>4, <2>2, KeptMerges
<1>5. CASE ObserveRemote
  <2>1. CASE RemoteHead # Run.remote
    BY <1>3, <1>5, <2>1 DEF ObserveRemote, RemoteChanged
  <2>2. CASE RemoteHead = Run.remote
    <3>1. /\ op.phase \in Publishing /\ runs' = runs /\ source' = source
          /\ op'.phase \in {"push", "source"} /\ op'.run = op.run
      BY <1>5, <2>2 DEF ObserveRemote, Goes, TypeOK, OpOK, Publishing
    <3>2. QED  BY <1>4, <3>1
  <2>3. QED  BY <2>1, <2>2
<1>6. CASE Push
  <2>1. CASE FastForward
    <3>1. /\ op.phase \in Publishing /\ runs' = runs /\ source' = source
          /\ op'.phase \in {"push", "source"} /\ op'.run = op.run
      BY <1>6, <2>1 DEF Push, Goes, TypeOK, OpOK, Publishing
    <3>2. QED  BY <1>4, <3>1
  <2>2. CASE ~FastForward
    BY <1>3, <1>6, <2>2 DEF Push, RemoteChanged
  <2>3. QED  BY <2>1, <2>2
<1>7. CASE PushFails
  BY <1>3, <1>7 DEF PushFails
<1>8. CASE UpdateSource
  <2>1. runs' = runs /\ op'.phase = "complete" /\ op.phase = "source"
    BY <1>8, SourceIsClone DEF UpdateSource
  <2>2. Run.status # "conflicts"  BY <2>1 DEF StatusFits, Publishing
  <2>3. RunsMerge'  BY <1>1, <2>1, <2>2, SourceMerges
  <2>4. OpMerges'  BY <2>1 DEF OpMerges, Cloning, Applying, Publishing
  <2>5. QED  BY <2>3, <2>4
<1>9. CASE Complete
  <2> DEFINE x == [Run EXCEPT !.status = "completed", !.synced = source]
  <2>1. SaveRun(x) /\ Ends /\ source' = source  BY <1>9 DEF Complete
  <2>2. source \in Nat /\ "completed" \in Statuses
    BY HeadType DEF TypeOK, HistoryOK, Statuses
  <2>3. x \in SyncRun /\ SameSides(Run, x) /\ x.status # "conflicts"
    BY <1>1, <2>2 DEF SyncRun, SameSides
  <2> HIDE DEF x
  <2>4. QED  BY <1>2, <2>1, <2>3
<1>10. QED  BY <1>5, <1>6, <1>7, <1>8, <1>9

LEMMA MergeOthers ==
  ASSUME TypeOK, BranchGrows, KeepInv, Gone \subseteq Gone',
         \/ \E f \in Files : UserEdits(f) \/ OthersPush(f)
         \/ ApplyStops \/ ApplyRefused \/ StepFails \/ Crash \/ UNCHANGED vars
  PROVE  RunsMerge' /\ OpMerges'
<1>1. runs' = runs /\ source' = source /\ RunsMerge /\ source \in DOMAIN remote
  BY DEF UserEdits, OthersPush, ApplyStops, ApplyRefused, StepFails, Crash, Interrupted, vars,
         KeepInv, TypeOK, HistoryOK
<1>2. RunsMerge'  BY <1>1, KeptMerges
<1>3. CASE Ends  BY <1>2, <1>3, EndsMerges
<1>4. CASE op' = op /\ \A f \in Files : Workspace[f] \subseteq (Workspace')[f]
  <2>1. CASE op.run = 0
    <3>1. op'.phase \in {"idle", "discard", "create"}  BY <1>4, <2>1 DEF TypeOK, OpOK
    <3>2. OpMerges'  BY <3>1 DEF OpMerges, Cloning, Applying, Publishing
    <3>3. QED  BY <1>2, <3>2
  <2>2. CASE op.run # 0
    <3>1. op.run \in DOMAIN runs /\ SameSides(Run, Run)  BY <2>2, RunType DEF SameSides
    <3>2. Kept(Run, remote, Gone) => Kept(Run, remote', Gone')  BY <3>1, SidesKept
    <3>3. remote'[source] = remote[source]  BY <1>1 DEF BranchGrows
    <3>4. OpMerges  BY DEF KeepInv
    <3>5. OpMerges'  BY <1>1, <1>4, <3>2, <3>3, <3>4 DEF OpMerges
    <3>6. QED  BY <1>2, <3>5
  <2>3. QED  BY <2>1, <2>2
<1>5. CASE \E f \in Files : UserEdits(f)
  <2>1. op' = op  BY <1>5 DEF UserEdits
  <2>2. QED  BY <1>4, <1>5, <2>1, UsersAdd
<1>6. QED
  BY <1>3, <1>4, <1>5 DEF OthersPush, ApplyStops, ApplyRefused, StepFails, Crash, Interrupted, vars

-----------------------------------------------------------------------------
LEMMA KeepInit == ASSUME Init PROVE KeepInv /\ RemoteEditsKept
<1> USE DEF Init
<1>1. BranchKeeps /\ PaperHasSource  BY DEF BranchKeeps, PaperHasSource
<1>2. RunsMerge /\ OpMerges
  BY DEF RunsMerge, OpMerges, NoOp, Cloning, Applying, Publishing
<1>3. RemoteEditsKept  BY DEF RemoteEditsKept
<1>4. QED  BY <1>1, <1>2, <1>3 DEF KeepInv

MergeInv == TypeOK /\ OpenInv /\ StatusFits /\ Truth /\ KeepInv

LEMMA MergeInvStep == ASSUME MergeInv, [Next]_vars PROVE MergeInv' /\ BranchGrows
<1>1. TypeOK /\ OpenInv /\ StatusFits /\ Truth /\ RunsAreTrue /\ OpIsTrue /\ KeepInv
  BY DEF MergeInv, Truth
<1>2. TypeOK' /\ OpenInv' /\ StatusFits' /\ Truth'  BY <1>1, StepType, OpenStep, TrueStep
<1>3. BranchGrows /\ Gone \subseteq Gone'  BY <1>1, HistoryGrows, GoneGrows
<1>4. BranchKeeps'  BY <1>1, BranchStep DEF KeepInv
<1>5. PaperHasSource'  BY <1>1, <1>3, SourceStep
<1>6. RunsMerge' /\ OpMerges'
  BY <1>1, <1>3, <1>5, MergeStart, MergeCopy, MergeMerge, MergeResolve, MergeChoose,
     MergeResolved, MergeApply, MergePublish, MergeOthers DEF Next
<1>7. QED  BY <1>2, <1>3, <1>4, <1>5, <1>6 DEF MergeInv, KeepInv

LEMMA MergeInvInit == ASSUME Init PROVE MergeInv /\ RemoteEditsKept
  BY InitType, OpenInit, TrueInit, KeepInit DEF MergeInv

\* Whatever fails or is interrupted, and whoever edits or pushes meanwhile, the head
\* of the branch keeps every edit others pushed to it, but for those that a conflict
\* choice gave up, those that a repeated choice deleted, and those in a file that a
\* stopped application had removed (merge, push without force).
THEOREM BranchKeepsRemoteEdits == Spec => []RemoteEditsKept
<1> DEFINE IInv == MergeInv /\ RemoteEditsKept
<1>1. Init => IInv  BY MergeInvInit
<1>2. IInv /\ [Next]_vars => IInv'
  <2>1. SUFFICES ASSUME IInv, [Next]_vars PROVE IInv'
    OBVIOUS
  <2>2. MergeInv' /\ BranchGrows  BY <2>1, MergeInvStep
  <2>3. RemoteEditsKept'
    BY <2>1, <2>2, GoneGrows, RemoteStep DEF MergeInv, KeepInv
  <2>4. QED  BY <2>2, <2>3
<1>3. IInv => RemoteEditsKept  OBVIOUS
<1>4. QED  BY <1>1, <1>2, <1>3, PTL DEF Spec

\* A merge that reached the workspace carries every edit of both of its sides, but for
\* what a choice gave up or a repeated choice or a stopped application deleted: git only
\* compares with the base, and both sides carry the base but for what was so deleted
\* (startNow, resolveNow, prepareMergedRun).
THEOREM MergesKeepBothSides == Spec => []MergeKeepsBothSides
<1>1. Init => MergeInv  BY MergeInvInit
<1>2. MergeInv /\ [Next]_vars => MergeInv'  BY MergeInvStep
<1>3. MergeInv => MergeKeepsBothSides
  <2>1. SUFFICES ASSUME MergeInv, NEW r \in DOMAIN runs, runs[r].version # 0
                 PROVE  Carries(runs[r].local) \cup Carries(remote[runs[r].remote].tree)
                          \subseteq Carries(runs[r].clone) \cup dropped \cup lost
    BY DEF MergeKeepsBothSides
  <2>2. runs[r].conflicts = {} /\ Kept(runs[r], remote, Gone)
    BY <2>1 DEF MergeInv, KeepInv, RunsMerge, Merges
  <2>3. \A f \in Files : runs[r].local[f] \cup remote[runs[r].remote].tree[f]
                           \subseteq runs[r].clone[f] \cup Gone
    BY <2>2 DEF Kept
  <2>4. QED  BY <2>3 DEF Carries, Gone
<1>4. QED  BY <1>1, <1>2, <1>3, PTL DEF Spec
=============================================================================
