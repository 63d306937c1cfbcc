------------------------------ MODULE Workspace ------------------------------
(***************************************************************************)
(* WorkspaceService (apps/server/src/workspace/workspace-service.ts): the  *)
(* source files of one project, the version of every file and the version  *)
(* of the project.                                                         *)
(*                                                                         *)
(* Every operation holds the project's queue.  It changes files first and  *)
(* records their versions in the database second; when the database write  *)
(* fails, or the server dies in between, the files stay changed and the    *)
(* versions do not.                                                        *)
(***************************************************************************)
EXTENDS Integers, FiniteSets

CONSTANTS Paths, Contents, Clients,
          FirstMain,       \* the main document of the imported project
          NoFile, NoView, NoClient,
          MayFail,         \* may a disk or database write fail, or the server die?
          MaxFailures,     \* bound: how often
          MaxVersion       \* bound: no change starts beyond this project version

ASSUME WorkspaceAssumption ==
  /\ IsFiniteSet(Paths) /\ FirstMain \in Paths
  /\ NoFile \notin Contents /\ NoClient \notin Clients
  /\ MayFail \in BOOLEAN /\ MaxFailures \in Nat /\ MaxVersion \in Nat

VARIABLES disk,      \* the working tree
          entry,     \* the database's file versions, 0 where it has none
          main,      \* the main document
          version,   \* the project version
          busy,      \* the operation that holds the project queue
          opened,    \* what each client last opened or saved
          copy,      \* the snapshot last taken, for a compilation or comparison
          born,      \* history: how often each path came into being
          torn,      \* history: paths whose file an operation that failed may have
                     \* changed, until the version clients see for it moves
          failures

vars == <<disk, entry, main, version, busy, opened, copy, born, torn, failures>>
history == <<opened, copy, failures>>

Tree == [Paths -> Contents \cup {NoFile}]
Idle == [op |-> "idle"]
Free == busy = Idle

Exists(p)    == disk[p] # NoFile
VersionOf(p) == IF entry[p] = 0 THEN 1 ELSE entry[p]

\* An operation that will record the entries e and the main document m.
Operation(op, touched, e, m) ==
  [op |-> op, touched |-> touched, was |-> disk, entry |-> e, main |-> m,
   client |-> NoClient, tree |-> disk, todo |-> {}]

\* Its files change while it holds the queue.
Writes(q, d) ==
  /\ disk' = d
  /\ born' = [p \in Paths |-> IF q.was[p] = NoFile /\ d[p] # NoFile
                              THEN born[p] + 1 ELSE born[p]]
  /\ busy' = q
  /\ UNCHANGED <<entry, main, version, torn, history>>

Starts == Free /\ version < MaxVersion

-----------------------------------------------------------------------------
\* saveTextFile: the version the client opened must be the current one.
SaveTextFile(c, content) ==
  /\ Starts /\ opened[c] # NoView
  /\ LET p == opened[c].path IN
       /\ Exists(p) /\ opened[c].version = VersionOf(p)
       /\ Writes([Operation("save", {p}, [entry EXCEPT ![p] = VersionOf(p) + 1], main)
                    EXCEPT !.client = c],
                 [disk EXCEPT ![p] = content])

CreateFile(p, content) ==
  /\ Starts /\ ~Exists(p)
  /\ Writes(Operation("create", {p}, [entry EXCEPT ![p] = 1], main),
            [disk EXCEPT ![p] = content])

\* addFile, which no caller asks to overwrite: a stale entry is counted on.
AddFile(p, content) ==
  /\ Starts /\ ~Exists(p)
  /\ Writes(Operation("add", {p}, [entry EXCEPT ![p] = @ + 1], main),
            [disk EXCEPT ![p] = content])

\* renamePath: the entry, if there is one, moves along.
RenamePath(p, q) ==
  /\ Starts /\ Exists(p) /\ ~Exists(q)
  /\ Writes(Operation("rename", {p, q},
                      IF entry[p] = 0 THEN entry
                      ELSE [entry EXCEPT ![q] = entry[p], ![p] = 0],
                      IF main = p THEN q ELSE main),
            [disk EXCEPT ![q] = disk[p], ![p] = NoFile])

DeletePath(p) ==
  /\ Starts /\ Exists(p) /\ p # main
  /\ Writes(Operation("delete", {p}, [entry EXCEPT ![p] = 0], main),
            [disk EXCEPT ![p] = NoFile])

\* discardPaths: Git puts the paths back to what its index holds, whatever that
\* is, and every path that is still there counts as changed.
DiscardPathsMutant(S, d) ==    \* only removed paths are recorded
  /\ Starts /\ S # {} /\ \A p \in Paths \ S : d[p] = disk[p]
  /\ Writes(Operation("discard", S,
                      [p \in Paths |-> IF d[p] # NoFile THEN entry[p] ELSE 0], main), d)
DiscardPaths(S, d) ==
  /\ Starts /\ S # {} /\ \A p \in Paths \ S : d[p] = disk[p]
  /\ Writes(Operation("discard", S,
                      [p \in Paths |-> IF p \notin S THEN entry[p]
                                       ELSE IF d[p] # NoFile THEN entry[p] + 1 ELSE 0],
                      main), d)

\* applyGithubSyncTree: remove the whole tree, copy the synchronised one, and
\* record only if some file differs from what was there before.
ApplyGithubSyncTree(d) ==
  /\ Starts /\ d[main] # NoFile
  /\ Writes([Operation("removed", Paths,
                       [p \in Paths |-> CASE d[p] = NoFile -> 0
                                          [] d[p] # NoFile /\ entry[p] = 0 -> 1
                                          [] d[p] # NoFile /\ entry[p] # 0 ->
                                               IF d[p] # disk[p] THEN entry[p] + 1
                                               ELSE entry[p]], main)
               EXCEPT !.tree = d],
            [p \in Paths |-> NoFile])

SyncCopiesMutant ==    \* a removed file is not seen as a change
  /\ busy.op = "removed"
  /\ LET changed == {p \in Paths : busy.tree[p] \notin {busy.was[p], NoFile}} IN
       busy' = IF changed = {} THEN Idle
               ELSE [busy EXCEPT !.op = "sync", !.touched = changed]
  /\ disk' = busy.tree
  /\ UNCHANGED <<entry, main, version, born, torn, history>>
SyncCopies ==
  /\ busy.op = "removed"
  /\ LET changed == {p \in Paths : busy.tree[p] # busy.was[p]} IN
       /\ busy' = IF changed = {} THEN Idle
                  ELSE [busy EXCEPT !.op = "sync", !.touched = changed]
       /\ born' = [p \in Paths |-> IF p \in changed /\ busy.was[p] = NoFile
                                   THEN born[p] + 1 ELSE born[p]]
  /\ disk' = busy.tree
  /\ UNCHANGED <<entry, main, version, torn, history>>

\* restoreHistoryFiles holds the queue for a series of saves and creations.
RestoreHistoryFiles(S, d) ==
  /\ Starts /\ S # {} /\ \A p \in Paths : IF p \in S THEN d[p] # NoFile ELSE d[p] = disk[p]
  /\ busy' = [Operation("restore", {}, entry, main) EXCEPT !.tree = d, !.todo = S]
  /\ UNCHANGED <<disk, entry, main, version, born, torn, history>>

RestoreFile(p) ==
  /\ busy.op = "restore" /\ busy.touched = {} /\ p \in busy.todo
  /\ Writes([Operation("restore", {p},
                       [entry EXCEPT ![p] = IF Exists(p) THEN VersionOf(p) + 1 ELSE 1], main)
               EXCEPT !.tree = busy.tree, !.todo = busy.todo \ {p}],
            [disk EXCEPT ![p] = busy.tree[p]])

\* The second half of an operation: the database records entries and versions.
\* A save answers with the new version; a restoration may have files left.
RecordedVersionMutant == version    \* the project version stays
RecordedVersion == version + 1

Recorded == busy.op \notin {"idle", "removed"} /\ busy.touched # {}

\* A file that is renamed takes its state along.
Spoiled == IF busy.op = "rename" /\ torn \cap busy.touched # {}
           THEN torn \cup busy.touched ELSE torn

Records ==
  /\ Recorded
  /\ entry' = busy.entry /\ main' = busy.main /\ version' = RecordedVersion
  /\ torn' = {p \in Spoiled : p \in busy.touched => VersionOf(p)' = VersionOf(p)}
  /\ opened' = IF busy.client = NoClient THEN opened
               ELSE LET p == opened[busy.client].path IN
                    [opened EXCEPT ![busy.client] =
                       [path |-> p, content |-> disk[p], version |-> entry'[p],
                        born |-> born[p]]]
  /\ busy' = IF busy.todo = {} THEN Idle
             ELSE [busy EXCEPT !.touched = {}, !.was = disk]
  /\ UNCHANGED <<disk, copy, born, failures>>

\* A failure, or the death of the server, releases the queue.  A tree that was
\* being copied is left as far as it got.
Fails ==
  /\ MayFail /\ busy # Idle /\ failures < MaxFailures
  /\ IF busy.op = "removed"
     THEN \E K \in SUBSET Paths :
            disk' = [p \in Paths |-> IF p \in K THEN busy.tree[p] ELSE NoFile]
     ELSE disk' = disk
  /\ born' = [p \in Paths |-> IF busy.op = "removed" /\ busy.was[p] = NoFile
                                   /\ disk'[p] # NoFile
                              THEN born[p] + 1 ELSE born[p]]
  /\ busy' = Idle /\ torn' = torn \cup busy.touched /\ failures' = failures + 1
  /\ UNCHANGED <<entry, main, version, opened, copy>>

\* updateProject: one database mutation; the main document has to exist.
UpdateProject(m) ==
  /\ Starts /\ (m = main \/ Exists(m))
  /\ main' = m /\ version' = RecordedVersion
  /\ UNCHANGED <<disk, entry, busy, born, torn, history>>

\* readTextFile and copySnapshot wait for the queue too.
ReadTextFile(c, p) ==
  /\ Free /\ Exists(p)
  /\ opened' = [opened EXCEPT ![c] = [path |-> p, content |-> disk[p],
                                      version |-> VersionOf(p), born |-> born[p]]]
  /\ UNCHANGED <<disk, entry, main, version, busy, copy, born, torn, failures>>

CopySnapshot ==
  /\ Free
  /\ copy' = [tree |-> disk, main |-> main, version |-> version]
  /\ UNCHANGED <<disk, entry, main, version, busy, opened, born, torn, failures>>

-----------------------------------------------------------------------------
\* registerProject: an imported project with its main document.
Init ==
  /\ disk \in Tree /\ disk[FirstMain] # NoFile
  /\ entry = [p \in Paths |-> IF Exists(p) THEN 1 ELSE 0]
  /\ main = FirstMain /\ version = 1 /\ busy = Idle
  /\ opened = [c \in Clients |-> NoView]
  /\ copy = [tree |-> disk, main |-> main, version |-> version]
  /\ born = [p \in Paths |-> 0] /\ torn = {} /\ failures = 0

ClientStep(c) ==
  \/ \E p \in Paths : ReadTextFile(c, p)
  \/ \E content \in Contents : SaveTextFile(c, content)

TreeStep ==
  \/ \E p \in Paths, content \in Contents : CreateFile(p, content) \/ AddFile(p, content)
  \/ \E p, q \in Paths : RenamePath(p, q)
  \/ \E p \in Paths : DeletePath(p) \/ RestoreFile(p) \/ UpdateProject(p)
  \/ \E S \in SUBSET Paths, d \in Tree : DiscardPaths(S, d) \/ RestoreHistoryFiles(S, d)
  \/ \E d \in Tree : ApplyGithubSyncTree(d)
  \/ SyncCopies \/ CopySnapshot

Next == (\E c \in Clients : ClientStep(c)) \/ TreeStep \/ Records \/ Fails

Spec == Init /\ [][Next]_vars

-----------------------------------------------------------------------------
ViewType == [path: Paths, content: Contents, version: Nat, born: Nat]

Holding ==
  [op: {"save", "create", "add", "rename", "delete", "discard", "removed", "sync", "restore"},
   touched: SUBSET Paths, was: Tree, entry: [Paths -> Nat], main: Paths,
   client: Clients \cup {NoClient}, tree: Tree, todo: SUBSET Paths]

\* Every variable has its type.
TypeOK ==
  /\ disk \in Tree
  /\ entry \in [Paths -> Nat]
  /\ main \in Paths
  /\ version \in Nat
  /\ busy \in Holding \cup {Idle}
  /\ opened \in [Clients -> ViewType \cup {NoView}]
  /\ copy \in [tree: Tree, main: Paths, version: Nat]
  /\ born \in [Paths -> Nat]
  /\ torn \in SUBSET Paths
  /\ failures \in 0..MaxFailures

\* A project version identifies its source: whoever compares the version of a
\* snapshot with the current one and finds them equal looks at the same files
\* and the same main document, up to the files a failed operation spoiled
\* (copySnapshot, workspace-service.ts:839-845; docs/DESIGN.md:111).
SnapshotIdentity ==
  Free /\ copy.version = version =>
    /\ copy.main = main
    /\ \A p \in Paths \ torn : copy.tree[p] = disk[p]

\* A save replaces exactly what its client had opened, as long as the path was
\* not emptied and filled anew in between and no failed operation spoiled it:
\* nobody else's text is lost (saveTextFile, workspace-service.ts:203-233).
NoLostUpdate ==
  [][\A c \in Clients :
       /\ Free /\ busy'.op = "save" /\ busy'.client = c
       /\ opened[c].born = born[opened[c].path] /\ opened[c].path \notin torn
       => disk[opened[c].path] = opened[c].content]_vars

\* The two halves of an operation are one change of the versioned project.
Files == IF Free THEN disk ELSE busy.was
Promise == INSTANCE VersionedProject WITH files <- Files, dirty <- torn
KeepsPromise == Promise!Spec
=============================================================================
