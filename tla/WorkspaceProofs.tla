--------------------------- MODULE WorkspaceProofs --------------------------
(* What holds of Workspace for every set of paths, contents and clients: its  *)
(* two-step operations implement VersionedProject, a project version          *)
(* identifies the files it was given to, and a save loses no other's text.    *)
EXTENDS Workspace, TLAPS

-----------------------------------------------------------------------------
(* Types.                                                                     *)

Operations ==
  {"save", "create", "add", "rename", "delete", "discard", "removed", "sync", "restore"}

LEMMA OperationType ==
  ASSUME TypeOK, NEW op \in Operations, NEW touched \in SUBSET Paths,
         NEW e \in [Paths -> Nat], NEW m \in Paths
  PROVE  LET q == Operation(op, touched, e, m) IN
         /\ q \in Holding
         /\ \A c \in Clients : [q EXCEPT !.client = c] \in Holding
         /\ \A d \in Tree : /\ [q EXCEPT !.tree = d] \in Holding
                            /\ \A S \in SUBSET Paths : [q EXCEPT !.tree = d, !.todo = S] \in Holding
  BY DEF TypeOK, Operation, Holding, Operations

LEMMA WritesType ==
  ASSUME TypeOK, NEW q \in Holding, NEW d \in Tree, Writes(q, d)
  PROVE  TypeOK'
<1>1. born' \in [Paths -> Nat]  BY DEF Writes, TypeOK
<1>2. QED  BY <1>1 DEF Writes, TypeOK, history

\* A save that is under way has its client's open file before it.
SaveIsOpen ==
  busy # Idle /\ busy.client # NoClient =>
    /\ busy.op = "save" /\ busy.todo = {} /\ opened[busy.client] # NoView
    /\ Exists(opened[busy.client].path)

LEMMA HoldingIsBusy == ASSUME NEW q \in Holding PROVE q # Idle
  BY DEF Holding, Idle

LEMMA InitType == ASSUME Init PROVE TypeOK
<1>1. failures \in 0..MaxFailures  BY WorkspaceAssumption DEF Init, WorkspaceAssumption
<1>2. main \in Paths /\ disk \in Tree /\ version \in Nat
  BY WorkspaceAssumption DEF Init, WorkspaceAssumption
<1>3. copy \in [tree: Tree, main: Paths, version: Nat]  BY <1>2 DEF Init
<1>4. QED  BY <1>1, <1>2, <1>3 DEF Init, TypeOK

LEMMA SaveOpens ==
  ASSUME TypeOK, SaveIsOpen, [Next]_vars
  PROVE  SaveIsOpen'
<1> USE HoldingIsBusy DEF SaveIsOpen
<1>1. ASSUME NEW q, NEW d, Writes(q, d), q.client = NoClient PROVE SaveIsOpen'
  BY <1>1 DEF Writes
<1>2. ASSUME NEW c \in Clients, NEW content \in Contents, SaveTextFile(c, content)
      PROVE  SaveIsOpen'
  <2> DEFINE p == opened[c].path
  <2>1. p \in Paths
    <3>1. opened[c] \in ViewType  BY <1>2 DEF SaveTextFile, TypeOK
    <3>2. QED  BY <3>1 DEF ViewType
  <2>2. /\ opened' = opened /\ opened[c] # NoView
        /\ disk' = [disk EXCEPT ![p] = content]
        /\ busy'.op = "save" /\ busy'.client = c /\ busy'.todo = {}
    BY <1>2 DEF SaveTextFile, Writes, Operation, history
  <2>3. disk'[p] # NoFile  BY <2>1, <2>2, WorkspaceAssumption DEF TypeOK, Tree, WorkspaceAssumption
  <2>4. QED  BY <2>2, <2>3 DEF Exists
<1>3. ASSUME NEW p \in Paths, NEW content \in Contents,
             CreateFile(p, content) \/ AddFile(p, content)
      PROVE  SaveIsOpen'
  BY <1>1, <1>3 DEF CreateFile, AddFile, Operation
<1>4. ASSUME NEW p \in Paths, NEW q \in Paths, RenamePath(p, q) PROVE SaveIsOpen'
  BY <1>1, <1>4 DEF RenamePath, Operation
<1>5. ASSUME NEW p \in Paths, DeletePath(p) PROVE SaveIsOpen'
  BY <1>1, <1>5 DEF DeletePath, Operation
<1>6. ASSUME NEW S \in SUBSET Paths, NEW d \in Tree, DiscardPaths(S, d) PROVE SaveIsOpen'
  BY <1>1, <1>6 DEF DiscardPaths, Operation
<1>7. ASSUME NEW d \in Tree, ApplyGithubSyncTree(d) PROVE SaveIsOpen'
  <2>1. busy'.client = NoClient  BY <1>7 DEF ApplyGithubSyncTree, Writes, Operation
  <2>2. QED  BY <2>1
<1>8. CASE SyncCopies
  <2>1. busy # Idle /\ busy \in Holding /\ busy.client = NoClient
    BY <1>8 DEF SyncCopies, Idle, TypeOK
  <2>2. busy' = Idle \/ busy'.client = NoClient
    BY <1>8, <2>1 DEF SyncCopies, Holding
  <2>3. QED  BY <2>2
<1>9. ASSUME NEW S \in SUBSET Paths, NEW d \in Tree, RestoreHistoryFiles(S, d)
      PROVE  SaveIsOpen'
  <2>1. busy'.client = NoClient  BY <1>9 DEF RestoreHistoryFiles, Operation
  <2>2. QED  BY <2>1
<1>10. ASSUME NEW p \in Paths, RestoreFile(p) PROVE SaveIsOpen'
  <2>1. busy'.client = NoClient  BY <1>10 DEF RestoreFile, Writes, Operation
  <2>2. QED  BY <2>1
<1>11. CASE Records
  <2>1. busy # Idle /\ busy \in Holding  BY <1>11 DEF Records, Recorded, Idle, TypeOK
  <2>2. CASE busy.todo = {}  BY <1>11, <2>2 DEF Records
  <2>3. CASE busy.todo # {}
    <3>1. busy.client = NoClient  BY <2>1, <2>3
    <3>2. busy'.client = NoClient  BY <1>11, <2>1, <2>3, <3>1 DEF Records, Holding
    <3>3. QED  BY <3>2
  <2>4. QED  BY <2>2, <2>3
<1>12. CASE Fails  BY <1>12 DEF Fails
<1>13. ASSUME NEW m \in Paths, UpdateProject(m) PROVE SaveIsOpen'
  BY <1>13 DEF UpdateProject, Starts, Free
<1>14. ASSUME NEW c \in Clients, NEW p \in Paths, ReadTextFile(c, p) PROVE SaveIsOpen'
  BY <1>14 DEF ReadTextFile, Free
<1>15. CASE CopySnapshot  BY <1>15 DEF CopySnapshot, Free
<1>16. CASE UNCHANGED vars  BY <1>16 DEF vars, Exists
<1>17. QED
  BY <1>2, <1>3, <1>4, <1>5, <1>6, <1>7, <1>8, <1>9, <1>10, <1>11, <1>12, <1>13, <1>14, <1>15,
     <1>16 DEF Next, ClientStep, TreeStep

\* Files, entries, versions and what the clients opened keep their types.
THEOREM TypeCorrect == Spec => []TypeOK
<1>1. Init => TypeOK  BY InitType
<1>2. ASSUME TypeOK, SaveIsOpen, [Next]_vars PROVE TypeOK'
  <2> USE <1>2
  <2>1. \A p \in Paths : VersionOf(p) \in Nat  BY DEF VersionOf, TypeOK
  <2>2. ASSUME NEW p \in Paths, NEW n \in Nat, NEW x \in Contents
        PROVE  /\ [entry EXCEPT ![p] = n] \in [Paths -> Nat]
               /\ [disk EXCEPT ![p] = x] \in Tree /\ [disk EXCEPT ![p] = NoFile] \in Tree
    BY DEF TypeOK, Tree
  <2>3. ASSUME NEW c \in Clients, NEW content \in Contents, SaveTextFile(c, content) PROVE TypeOK'
    <3> DEFINE p == opened[c].path
               e == [entry EXCEPT ![p] = VersionOf(p) + 1]
    <3>1. p \in Paths
      <4>1. opened[c] \in ViewType  BY <2>3 DEF SaveTextFile, TypeOK
      <4>2. QED  BY <4>1 DEF ViewType
    <3>2. e \in [Paths -> Nat] /\ [disk EXCEPT ![p] = content] \in Tree
      <4>1. VersionOf(p) + 1 \in Nat  BY <2>1, <3>1
      <4> HIDE DEF p
      <4>2. QED  BY <3>1, <4>1, <2>2
    <3>3. Writes([Operation("save", {p}, e, main) EXCEPT !.client = c], [disk EXCEPT ![p] = content])
      BY <2>3 DEF SaveTextFile
    <3>4. "save" \in Operations /\ {p} \in SUBSET Paths /\ main \in Paths
      BY <3>1 DEF Operations, TypeOK
    <3>5. [Operation("save", {p}, e, main) EXCEPT !.client = c] \in Holding
      <4> HIDE DEF e, p
      <4>1. QED  BY <3>2, <3>4, OperationType
    <3> HIDE DEF e, p
    <3>6. QED  BY <3>2, <3>3, <3>5, WritesType
  <2>4. ASSUME NEW p \in Paths, NEW content \in Contents,
               CreateFile(p, content) \/ AddFile(p, content)
        PROVE  TypeOK'
    <3>1. PICK op \in Operations, n \in Nat :
            Writes(Operation(op, {p}, [entry EXCEPT ![p] = n], main), [disk EXCEPT ![p] = content])
      <4>1. entry[p] + 1 \in Nat  BY DEF TypeOK
      <4>2. CASE CreateFile(p, content)  BY <4>2 DEF CreateFile, Operations
      <4>3. CASE AddFile(p, content)  BY <4>1, <4>3 DEF AddFile, Operations
      <4>4. QED  BY <2>4, <4>2, <4>3
    <3>2. Operation(op, {p}, [entry EXCEPT ![p] = n], main) \in Holding
      BY <2>2, OperationType DEF TypeOK
    <3>3. [disk EXCEPT ![p] = content] \in Tree  BY <2>2
    <3>4. QED  BY <3>1, <3>2, <3>3, WritesType
  <2>5. ASSUME NEW p \in Paths, NEW q \in Paths, RenamePath(p, q) PROVE TypeOK'
    <3> DEFINE e == IF entry[p] = 0 THEN entry ELSE [entry EXCEPT ![q] = entry[p], ![p] = 0]
               m == IF main = p THEN q ELSE main
               d == [disk EXCEPT ![q] = disk[p], ![p] = NoFile]
    <3>1. Writes(Operation("rename", {p, q}, e, m), d)  BY <2>5 DEF RenamePath
    <3>2. e \in [Paths -> Nat] /\ m \in Paths  BY DEF TypeOK
    <3>3. d \in Tree  BY DEF TypeOK, Tree
    <3>4. "rename" \in Operations /\ {p, q} \in SUBSET Paths  BY DEF Operations
    <3> HIDE DEF e, m, d
    <3>5. Operation("rename", {p, q}, e, m) \in Holding  BY <3>2, <3>4, OperationType
    <3>6. QED  BY <3>1, <3>3, <3>5, WritesType
  <2>6. ASSUME NEW p \in Paths, DeletePath(p) PROVE TypeOK'
    <3> DEFINE e == [entry EXCEPT ![p] = 0]
               d == [disk EXCEPT ![p] = NoFile]
    <3>1. Writes(Operation("delete", {p}, e, main), d)  BY <2>6 DEF DeletePath
    <3>2. e \in [Paths -> Nat] /\ d \in Tree  BY DEF TypeOK, Tree
    <3>3. "delete" \in Operations /\ main \in Paths /\ {p} \in SUBSET Paths
      BY DEF Operations, TypeOK
    <3> HIDE DEF e, d
    <3>4. Operation("delete", {p}, e, main) \in Holding  BY <3>2, <3>3, OperationType
    <3>5. QED  BY <3>1, <3>2, <3>4, WritesType
  <2>7. ASSUME NEW S \in SUBSET Paths, NEW d \in Tree, DiscardPaths(S, d) PROVE TypeOK'
    <3> DEFINE e == [p \in Paths |-> IF p \notin S THEN entry[p]
                                     ELSE IF d[p] # NoFile THEN entry[p] + 1 ELSE 0]
    <3>1. Writes(Operation("discard", S, e, main), d)  BY <2>7 DEF DiscardPaths
    <3>2. e \in [Paths -> Nat]  BY DEF TypeOK
    <3>3. "discard" \in Operations /\ main \in Paths  BY DEF Operations, TypeOK
    <3> HIDE DEF e
    <3>4. Operation("discard", S, e, main) \in Holding  BY <3>2, <3>3, OperationType
    <3>5. QED  BY <3>1, <3>4, WritesType
  <2>8. ASSUME NEW d \in Tree, ApplyGithubSyncTree(d) PROVE TypeOK'
    <3>1. PICK e \in [Paths -> Nat] :
            Writes([Operation("removed", Paths, e, main) EXCEPT !.tree = d],
                   [p \in Paths |-> NoFile])
      <4> DEFINE e == [p \in Paths |-> CASE d[p] = NoFile -> 0
                                         [] d[p] # NoFile /\ entry[p] = 0 -> 1
                                         [] d[p] # NoFile /\ entry[p] # 0 ->
                                              IF d[p] # disk[p] THEN entry[p] + 1
                                              ELSE entry[p]]
      <4>1. e \in [Paths -> Nat]  BY DEF TypeOK
      <4>2. Writes([Operation("removed", Paths, e, main) EXCEPT !.tree = d],
                   [p \in Paths |-> NoFile])
        BY <2>8 DEF ApplyGithubSyncTree
      <4> HIDE DEF e
      <4>3. QED  BY <4>1, <4>2
    <3>2. [Operation("removed", Paths, e, main) EXCEPT !.tree = d] \in Holding
      <4>1. "removed" \in Operations /\ main \in Paths  BY DEF Operations, TypeOK
      <4>2. QED  BY <4>1, OperationType
    <3>3. [p \in Paths |-> NoFile] \in Tree  BY DEF Tree
    <3>4. QED  BY <3>1, <3>2, <3>3, WritesType
  <2>9. ASSUME SyncCopies PROVE TypeOK'
    <3>1. busy \in Holding /\ busy.op = "removed"  BY <2>9 DEF SyncCopies, TypeOK, Idle
    <3> DEFINE changed == {p \in Paths : busy.tree[p] # busy.was[p]}
    <3>2. busy' \in Holding \cup {Idle}
      <4>1. busy' = IF changed = {} THEN Idle ELSE [busy EXCEPT !.op = "sync", !.touched = changed]
        BY <2>9 DEF SyncCopies
      <4>2. changed \in SUBSET Paths  OBVIOUS
      <4> HIDE DEF changed
      <4>3. QED  BY <3>1, <4>1, <4>2 DEF Holding
    <3>3. born' \in [Paths -> Nat]  BY <2>9 DEF SyncCopies, TypeOK
    <3>4. disk' \in Tree  BY <2>9, <3>1 DEF SyncCopies, Holding
    <3>5. QED  BY <2>9, <3>2, <3>3, <3>4 DEF SyncCopies, TypeOK, history
  <2>10. ASSUME NEW S \in SUBSET Paths, NEW d \in Tree, RestoreHistoryFiles(S, d) PROVE TypeOK'
    <3>1. busy' = [Operation("restore", {}, entry, main) EXCEPT !.tree = d, !.todo = S]
      BY <2>10 DEF RestoreHistoryFiles
    <3>2. "restore" \in Operations /\ {} \in SUBSET Paths /\ main \in Paths /\ entry \in [Paths -> Nat]
      BY DEF Operations, TypeOK
    <3>3. busy' \in Holding  BY <3>1, <3>2, OperationType
    <3>4. QED  BY <2>10, <3>3 DEF RestoreHistoryFiles, TypeOK, history
  <2>11. ASSUME NEW p \in Paths, RestoreFile(p) PROVE TypeOK'
    <3> DEFINE n == IF Exists(p) THEN VersionOf(p) + 1 ELSE 1
               e == [entry EXCEPT ![p] = n]
               S == busy.todo \ {p}
               d == [disk EXCEPT ![p] = busy.tree[p]]
               t == busy.tree
    <3>1. busy \in Holding  BY <2>11 DEF RestoreFile, TypeOK, Idle
    <3>2. e \in [Paths -> Nat]
      <4>1. n \in Nat  BY <2>1
      <4> HIDE DEF n
      <4>2. QED  BY <4>1 DEF TypeOK
    <3>3. S \in SUBSET Paths /\ t \in Tree /\ d \in Tree  BY <3>1 DEF Holding, TypeOK, Tree
    <3>4. Writes([Operation("restore", {p}, e, main) EXCEPT !.tree = t, !.todo = S], d)
      BY <2>11 DEF RestoreFile
    <3>5. "restore" \in Operations /\ {p} \in SUBSET Paths /\ main \in Paths
      BY DEF Operations, TypeOK
    <3> HIDE DEF e, S, d, t
    <3>6. [Operation("restore", {p}, e, main) EXCEPT !.tree = t, !.todo = S] \in Holding
      BY <3>2, <3>3, <3>5, OperationType
    <3>7. QED  BY <3>3, <3>4, <3>6, WritesType
  <2>12. ASSUME Records PROVE TypeOK'
    <3>1. busy \in Holding  BY <2>12 DEF Records, Recorded, TypeOK, Idle
    <3>2. entry' \in [Paths -> Nat] /\ main' \in Paths /\ version' \in Nat
      BY <2>12, <3>1 DEF Records, RecordedVersion, Holding, TypeOK
    <3>3. torn' \in SUBSET Paths
      <4>1. Spoiled \in SUBSET Paths  BY <3>1 DEF Spoiled, Holding, TypeOK
      <4>2. QED  BY <2>12, <4>1 DEF Records
    <3>4. busy' \in Holding \cup {Idle}
      <4>1. busy' = Idle \/ busy' = [busy EXCEPT !.touched = {}, !.was = disk]
        BY <2>12 DEF Records
      <4>2. QED  BY <3>1, <4>1 DEF Holding, TypeOK
    <3>5. opened' \in [Clients -> ViewType \cup {NoView}]
      <4>1. CASE busy.client = NoClient  BY <2>12, <4>1 DEF Records, TypeOK
      <4>2. CASE busy.client # NoClient
        <5> DEFINE p == opened[busy.client].path
        <5>1. opened' = [opened EXCEPT ![busy.client] =
                [path |-> p, content |-> disk[p], version |-> entry'[p], born |-> born[p]]]
          BY <2>12, <4>2 DEF Records
        <5>2. busy.client \in Clients /\ busy # Idle
          BY <3>1, <4>2, HoldingIsBusy DEF Holding
        <5>3. opened[busy.client] \in ViewType /\ disk[p] # NoFile
          BY <4>2, <5>2 DEF SaveIsOpen, Exists, TypeOK
        <5>4. p \in Paths /\ disk[p] \in Contents  BY <5>3 DEF ViewType, TypeOK, Tree
        <5>5. [path |-> p, content |-> disk[p], version |-> entry'[p], born |-> born[p]] \in ViewType
          BY <3>2, <5>4 DEF ViewType, TypeOK
        <5>6. QED  BY <5>1, <5>5 DEF TypeOK
      <4>3. QED  BY <4>1, <4>2
    <3>6. QED  BY <2>12, <3>2, <3>3, <3>4, <3>5 DEF Records, TypeOK
  <2>13. ASSUME Fails PROVE TypeOK'
    <3>1. busy \in Holding  BY <2>13 DEF Fails, TypeOK
    <3>2. disk' \in Tree
      <4>1. CASE busy.op = "removed"
        <5>1. PICK K \in SUBSET Paths :
                disk' = [p \in Paths |-> IF p \in K THEN busy.tree[p] ELSE NoFile]
          BY <2>13, <4>1 DEF Fails
        <5>2. busy.tree \in Tree  BY <3>1 DEF Holding
        <5>3. QED  BY <5>1, <5>2 DEF Tree
      <4>2. CASE busy.op # "removed"  BY <2>13, <4>2 DEF Fails, TypeOK
      <4>3. QED  BY <4>1, <4>2
    <3>3. born' \in [Paths -> Nat]  BY <2>13 DEF Fails, TypeOK
    <3>4. torn' \in SUBSET Paths  BY <2>13, <3>1 DEF Fails, TypeOK, Holding
    <3>5. failures' \in 0..MaxFailures
      BY <2>13, WorkspaceAssumption DEF Fails, TypeOK, WorkspaceAssumption
    <3>6. QED  BY <2>13, <3>2, <3>3, <3>4, <3>5 DEF Fails, TypeOK
  <2>14. ASSUME NEW m \in Paths, UpdateProject(m) PROVE TypeOK'
    BY <2>14 DEF UpdateProject, RecordedVersion, TypeOK, history
  <2>15. ASSUME NEW c \in Clients, NEW p \in Paths, ReadTextFile(c, p) PROVE TypeOK'
    <3> DEFINE v == [path |-> p, content |-> disk[p], version |-> VersionOf(p), born |-> born[p]]
    <3>1. disk[p] \in Contents  BY <2>15 DEF ReadTextFile, Exists, TypeOK, Tree
    <3>2. v \in ViewType  BY <2>1, <3>1 DEF ViewType, TypeOK
    <3>3. opened' = [opened EXCEPT ![c] = v]  BY <2>15 DEF ReadTextFile
    <3> HIDE DEF v
    <3>4. opened' \in [Clients -> ViewType \cup {NoView}]  BY <3>2, <3>3 DEF TypeOK
    <3>5. QED  BY <2>15, <3>4 DEF ReadTextFile, TypeOK
  <2>16. CASE CopySnapshot  BY <2>16 DEF CopySnapshot, TypeOK
  <2>17. CASE UNCHANGED vars  BY <2>17 DEF vars, TypeOK
  <2>18. QED
    BY <2>3, <2>4, <2>5, <2>6, <2>7, <2>8, <2>9, <2>10, <2>11, <2>12, <2>13, <2>14, <2>15, <2>16,
       <2>17 DEF Next, ClientStep, TreeStep
<1>3. Init => SaveIsOpen  BY DEF Init, SaveIsOpen
<1>4. Spec => [](TypeOK /\ SaveIsOpen)  BY <1>1, <1>2, <1>3, SaveOpens, PTL DEF Spec
<1>5. QED  BY <1>4, PTL

-----------------------------------------------------------------------------
(* The refinement.  While an operation holds the queue, the abstract files    *)
(* are those it found; it may have changed only the paths it touches, and a   *)
(* renaming has changed both of them.                                         *)

Held ==
  busy # Idle =>
    /\ \A p \in Paths \ busy.touched : disk[p] = busy.was[p]
    /\ busy.op = "rename" => \A p \in busy.touched : disk[p] # busy.was[p]
    /\ busy.op = "removed" => busy.touched = Paths

\* An operation that starts leaves the abstract files alone and is held.
LEMMA StartHeld ==
  ASSUME TypeOK, NEW q, NEW d, Writes(q, d), q # Idle, q.was = disk,
         \A p \in Paths \ q.touched : d[p] = disk[p],
         q.op = "rename" => \A p \in q.touched : d[p] # disk[p],
         q.op = "removed" => q.touched = Paths
  PROVE  Held' /\ Files' = disk
  BY DEF Writes, Held, Files, Free

\* What the project promises of every step: the files change with the version,
\* or a failure spoils them, or nothing is seen of the step.
PromisedStep == Promise!Change \/ Promise!Spoil \/ UNCHANGED Promise!vars

LEMMA HeldStep ==
  ASSUME TypeOK, Held, [Next]_vars
  PROVE  Held' /\ PromisedStep
<1> USE DEF PromisedStep
<1>1. ASSUME NEW q, NEW d, Free, Writes(q, d), q # Idle, q.was = disk,
             \A p \in Paths \ q.touched : d[p] = disk[p],
             q.op = "rename" => \A p \in q.touched : d[p] # disk[p],
         q.op = "removed" => q.touched = Paths
      PROVE  Held' /\ PromisedStep
  <2>1. Held' /\ Files' = disk  BY <1>1, StartHeld
  <2>2. Files = disk  BY <1>1 DEF Files
  <2>3. UNCHANGED <<main, version, torn>>  BY <1>1 DEF Writes
  <2>4. QED  BY <2>1, <2>2, <2>3 DEF Promise!vars
<1>2. ASSUME NEW c \in Clients, NEW content \in Contents, SaveTextFile(c, content)
      PROVE  Held' /\ PromisedStep
  <2> DEFINE p == opened[c].path
             q == [Operation("save", {p}, [entry EXCEPT ![p] = VersionOf(p) + 1], main)
                     EXCEPT !.client = c]
             d == [disk EXCEPT ![p] = content]
  <2>1. Free /\ Writes(q, d)  BY <1>2 DEF SaveTextFile, Starts
  <2>2. q # Idle /\ q.was = disk /\ q.op = "save" /\ q.touched = {p}  BY DEF Operation, Idle
  <2>3. \A x \in Paths \ {p} : d[x] = disk[x]  BY DEF TypeOK, Tree
  <2> HIDE DEF q, d, p
  <2>4. QED  BY <1>1, <2>1, <2>2, <2>3
<1>3. ASSUME NEW p \in Paths, NEW content \in Contents,
             CreateFile(p, content) \/ AddFile(p, content)
      PROVE  Held' /\ PromisedStep
  <2> DEFINE d == [disk EXCEPT ![p] = content]
  <2>1. PICK op, e : op \in {"create", "add"} /\
                       Free /\ Writes(Operation(op, {p}, e, main), d)
    BY <1>3 DEF CreateFile, AddFile, Starts
  <2> DEFINE q == Operation(op, {p}, e, main)
  <2>2. q # Idle /\ q.was = disk /\ q.op \notin {"rename", "removed"} /\ q.touched = {p}
    BY <2>1 DEF Operation, Idle
  <2>3. \A x \in Paths \ {p} : d[x] = disk[x]  BY DEF TypeOK, Tree
  <2>4. Free /\ Writes(q, d)  BY <2>1
  <2> HIDE DEF q, d
  <2>5. QED  BY <1>1, <2>2, <2>3, <2>4
<1>4. ASSUME NEW p \in Paths, NEW r \in Paths, RenamePath(p, r) PROVE Held' /\ PromisedStep
  <2> DEFINE e == IF entry[p] = 0 THEN entry ELSE [entry EXCEPT ![r] = entry[p], ![p] = 0]
             m == IF main = p THEN r ELSE main
             q == Operation("rename", {p, r}, e, m)
             d == [disk EXCEPT ![r] = disk[p], ![p] = NoFile]
  <2>1. Free /\ Exists(p) /\ ~Exists(r) /\ Writes(q, d)  BY <1>4 DEF RenamePath, Starts
  <2>2. q # Idle /\ q.was = disk /\ q.op = "rename" /\ q.touched = {p, r}  BY DEF Operation, Idle
  <2>3. \A x \in Paths \ {p, r} : d[x] = disk[x]  BY DEF TypeOK, Tree
  <2>4. d[p] # disk[p] /\ d[r] # disk[r]  BY <2>1 DEF Exists, TypeOK, Tree
  <2> HIDE DEF q, d
  <2>5. QED  BY <1>1, <2>1, <2>2, <2>3, <2>4
<1>5. ASSUME NEW p \in Paths, DeletePath(p) PROVE Held' /\ PromisedStep
  <2> DEFINE q == Operation("delete", {p}, [entry EXCEPT ![p] = 0], main)
             d == [disk EXCEPT ![p] = NoFile]
  <2>1. Free /\ Writes(q, d)  BY <1>5 DEF DeletePath, Starts
  <2>2. q # Idle /\ q.was = disk /\ q.op \notin {"rename", "removed"} /\ q.touched = {p}  BY DEF Operation, Idle
  <2>3. \A x \in Paths \ {p} : d[x] = disk[x]  BY DEF TypeOK, Tree
  <2> HIDE DEF q, d
  <2>4. QED  BY <1>1, <2>1, <2>2, <2>3
<1>6. ASSUME NEW S \in SUBSET Paths, NEW d \in Tree, DiscardPaths(S, d)
      PROVE  Held' /\ PromisedStep
  <2>1. PICK e : Free /\ Writes(Operation("discard", S, e, main), d)
    BY <1>6 DEF DiscardPaths, Starts
  <2> DEFINE q == Operation("discard", S, e, main)
  <2>2. q # Idle /\ q.was = disk /\ q.op \notin {"rename", "removed"} /\ q.touched = S
    BY DEF Operation, Idle
  <2>3. \A x \in Paths \ S : d[x] = disk[x]  BY <1>6 DEF DiscardPaths
  <2>4. Free /\ Writes(q, d)  BY <2>1
  <2> HIDE DEF q
  <2>5. QED  BY <1>1, <2>2, <2>3, <2>4
<1>7. ASSUME NEW t \in Tree, ApplyGithubSyncTree(t) PROVE Held' /\ PromisedStep
  <2> DEFINE d == [p \in Paths |-> NoFile]
  <2>1. PICK e : Free /\ Writes([Operation("removed", Paths, e, main) EXCEPT !.tree = t], d)
    BY <1>7 DEF ApplyGithubSyncTree, Starts
  <2> DEFINE q == [Operation("removed", Paths, e, main) EXCEPT !.tree = t]
  <2>2. q # Idle /\ q.was = disk /\ q.op # "rename" /\ q.touched = Paths
    BY DEF Operation, Idle
  <2>3. \A x \in Paths \ Paths : d[x] = disk[x]  OBVIOUS
  <2>4. Free /\ Writes(q, d)  BY <2>1
  <2> HIDE DEF q, d
  <2>5. QED  BY <1>1, <2>2, <2>3, <2>4
<1>8. CASE SyncCopies
  <2> DEFINE changed == {p \in Paths : busy.tree[p] # busy.was[p]}
  <2>1. busy # Idle /\ busy \in Holding /\ busy.tree \in Tree /\ busy.was \in Tree
    BY <1>8 DEF SyncCopies, Idle, TypeOK, Holding
  <2>2. /\ busy' = IF changed = {} THEN Idle ELSE [busy EXCEPT !.op = "sync", !.touched = changed]
        /\ disk' = busy.tree /\ UNCHANGED <<main, version, torn>>
    BY <1>8 DEF SyncCopies
  <2>3. Files = busy.was  BY <2>1 DEF Files, Free
  <2>4. CASE changed = {}
    <3>1. busy.tree = busy.was  BY <2>1, <2>4 DEF Tree
    <3>2. busy' = Idle  BY <2>2, <2>4
    <3>3. Held' /\ Files' = busy.was  BY <2>2, <3>1, <3>2 DEF Held, Files, Free
    <3>4. QED  BY <2>2, <2>3, <3>3 DEF Promise!vars
  <2>5. CASE changed # {}
    <3>1. /\ busy'.op = "sync" /\ busy'.touched = changed /\ busy'.was = busy.was
          /\ busy' # Idle
      BY <2>1, <2>2, <2>5 DEF Holding, Idle
    <3>2. Files' = busy.was  BY <3>1 DEF Files, Free
    <3>3. \A p \in Paths \ changed : disk'[p] = busy.was[p]  BY <2>2
    <3> HIDE DEF changed
    <3>4. Held'  BY <3>1, <3>3 DEF Held
    <3>5. QED  BY <2>2, <2>3, <3>2, <3>4 DEF Promise!vars
  <2>6. QED  BY <2>4, <2>5
<1>9. ASSUME NEW S \in SUBSET Paths, NEW d \in Tree, RestoreHistoryFiles(S, d)
      PROVE  Held' /\ PromisedStep
  <2>1. /\ Free /\ busy'.was = disk /\ busy'.op = "restore" /\ busy' # Idle
        /\ UNCHANGED <<disk, main, version, torn>>
    BY <1>9 DEF RestoreHistoryFiles, Operation, Starts, Idle
  <2>2. Held' /\ Files' = disk  BY <2>1 DEF Held, Files, Free
  <2>3. Files = disk  BY <2>1 DEF Files
  <2>4. QED  BY <2>1, <2>2, <2>3 DEF Promise!vars
<1>10. ASSUME NEW p \in Paths, RestoreFile(p) PROVE Held' /\ PromisedStep
  <2>1. busy # Idle /\ busy \in Holding /\ busy.touched = {}
    BY <1>10 DEF RestoreFile, Idle, TypeOK
  <2>2. busy.was = disk
    <3>1. busy.was \in Tree /\ disk \in Tree  BY <2>1 DEF Holding, TypeOK
    <3>2. \A x \in Paths : disk[x] = busy.was[x]  BY <2>1 DEF Held
    <3>3. QED  BY <3>1, <3>2 DEF Tree
  <2>3. Files = disk  BY <2>1, <2>2 DEF Files, Free
  <2> DEFINE d == [disk EXCEPT ![p] = busy.tree[p]]
  <2>4. PICK e :
          Writes([Operation("restore", {p}, e, main)
                    EXCEPT !.tree = busy.tree, !.todo = busy.todo \ {p}], d)
    BY <1>10 DEF RestoreFile
  <2> DEFINE q == [Operation("restore", {p}, e, main)
                     EXCEPT !.tree = busy.tree, !.todo = busy.todo \ {p}]
  <2>5. q # Idle /\ q.was = disk /\ q.op \notin {"rename", "removed"} /\ q.touched = {p}  BY DEF Operation, Idle
  <2>6. \A x \in Paths \ {p} : d[x] = disk[x]  BY DEF TypeOK, Tree
  <2>7. Writes(q, d)  BY <2>4
  <2> HIDE DEF q, d
  <2>8. Held' /\ Files' = disk  BY <2>5, <2>6, <2>7, StartHeld
  <2>9. UNCHANGED <<main, version, torn>>  BY <2>7 DEF Writes
  <2>10. QED  BY <2>3, <2>8, <2>9 DEF Promise!vars
<1>11. CASE Records
  <2>1. busy # Idle /\ busy \in Holding  BY <1>11 DEF Records, Recorded, Idle, TypeOK
  <2>2. Files = busy.was  BY <2>1 DEF Files, Free
  <2>3. /\ disk' = disk /\ version' = version + 1 /\ torn' \subseteq Spoiled
        /\ \/ busy' = Idle
           \/ busy' = [busy EXCEPT !.touched = {}, !.was = disk]
    BY <1>11 DEF Records, RecordedVersion
  <2>4. Held' /\ Files' = disk
    <3>1. CASE busy' = Idle  BY <2>3, <3>1 DEF Held, Files, Free
    <3>2. CASE busy' = [busy EXCEPT !.touched = {}, !.was = disk]
      <4>1. busy'.was = disk /\ busy'.touched = {}  BY <2>1, <3>2 DEF Holding
      <4>2. busy'.op = busy.op /\ busy.op \notin {"idle", "removed"}
        BY <1>11, <2>1, <3>2 DEF Holding, Records, Recorded
      <4>3. busy' # Idle  BY <4>2 DEF Idle
      <4>4. QED  BY <2>3, <4>1, <4>2, <4>3 DEF Held, Files, Free
    <3>3. QED  BY <2>3, <3>1, <3>2
  <2> DEFINE C == {p \in Paths : Files'[p] # Files[p]}
  <2>5. torn' \subseteq torn \cup (IF torn \cap C = {} THEN {} ELSE C)
    <3>1. CASE Spoiled = torn  BY <2>3, <3>1
    <3>2. CASE busy.op = "rename" /\ torn \cap busy.touched # {}
      <4>1. C = busy.touched
        <5>1. C = {p \in Paths : disk[p] # busy.was[p]}  BY <2>2, <2>4
        <5>2. busy.touched \subseteq Paths  BY <2>1 DEF Holding
        <5> HIDE DEF C
        <5>3. QED  BY <2>1, <3>2, <5>1, <5>2 DEF Held
      <4>2. Spoiled = torn \cup busy.touched  BY <3>2 DEF Spoiled
      <4> HIDE DEF C
      <4>3. QED  BY <2>3, <3>2, <4>1, <4>2
    <3>3. QED  BY <3>1, <3>2 DEF Spoiled
  <2>6. Promise!Change  BY <2>3, <2>5 DEF Promise!Change, Promise!Changed
  <2>7. QED  BY <2>4, <2>6
<1>12. CASE Fails
  <2>1. busy # Idle /\ busy \in Holding  BY <1>12 DEF Fails, TypeOK
  <2>2. Files = busy.was  BY <2>1 DEF Files, Free
  <2>3. /\ busy' = Idle /\ torn' = torn \cup busy.touched /\ UNCHANGED <<main, version>>
        /\ busy.op # "removed" => disk' = disk
    BY <1>12 DEF Fails
  <2>4. Held' /\ Files' = disk'  BY <2>3 DEF Held, Files, Free
  <2>5. \A p \in Paths \ busy.touched : disk'[p] = busy.was[p]
    <3>1. CASE busy.op # "removed"  BY <2>1, <2>3, <3>1 DEF Held
    <3>2. CASE busy.op = "removed"  BY <2>1, <3>2 DEF Held
    <3>3. QED  BY <3>1, <3>2
  <2>6. Promise!Changed \subseteq busy.touched  BY <2>2, <2>4, <2>5 DEF Promise!Changed
  <2>7. busy.touched \in SUBSET Paths  BY <2>1 DEF Holding
  <2>8. Promise!Spoil  BY <2>3, <2>6, <2>7 DEF Promise!Spoil
  <2>9. QED  BY <2>4, <2>8
<1>13. ASSUME NEW m \in Paths, UpdateProject(m) PROVE Held' /\ PromisedStep
  <2>1. /\ Free /\ busy' = busy /\ disk' = disk /\ torn' = torn /\ version' = version + 1
    BY <1>13 DEF UpdateProject, Starts, RecordedVersion
  <2>2. Held'  BY <2>1 DEF Held, Free
  <2>3. Promise!Change  BY <2>1 DEF Promise!Change
  <2>4. QED  BY <2>2, <2>3
<1>14. ASSUME UNCHANGED <<disk, busy, main, version, torn>> PROVE Held' /\ PromisedStep
  BY <1>14 DEF Held, Files, Free, Promise!vars
<1>15. ASSUME NEW c \in Clients, NEW p \in Paths, ReadTextFile(c, p) PROVE Held' /\ PromisedStep
  BY <1>14, <1>15 DEF ReadTextFile
<1>16. CASE CopySnapshot  BY <1>14, <1>16 DEF CopySnapshot
<1>17. CASE UNCHANGED vars  BY <1>14, <1>17 DEF vars
<1>18. QED
  BY <1>2, <1>3, <1>4, <1>5, <1>6, <1>7, <1>8, <1>9, <1>10, <1>11, <1>12, <1>13, <1>15, <1>16,
     <1>17 DEF Next, ClientStep, TreeStep

\* Every behaviour of the workspace is one of the versioned project: the two
\* halves of an operation are seen as one change of files and version, and an
\* operation that fails spoils no more than the files it touched.
THEOREM WorkspaceKeepsPromise == Spec => KeepsPromise
<1>1. Init => Held /\ Promise!Init  BY DEF Init, Held, Promise!Init
<1>2. TypeOK /\ Held /\ [Next]_vars => Held' /\ [Promise!Next]_(Promise!vars)
  BY HeldStep DEF PromisedStep, Promise!Next
<1>3. Spec => []TypeOK  BY TypeCorrect
<1>4. QED  BY <1>1, <1>2, <1>3, PTL DEF Spec, KeepsPromise, Promise!Spec

-----------------------------------------------------------------------------
(* Versions identify files.                                                   *)

CopyInv ==
  /\ copy.version \leq version
  /\ copy.version = version =>
       /\ copy.main = main
       /\ \A p \in Paths \ torn : copy.tree[p] = Files[p]

LEMMA CopyStep ==
  ASSUME TypeOK, Held, CopyInv, [Next]_vars
  PROVE  CopyInv'
<1>1. copy.version \in Nat /\ version \in Nat  BY DEF TypeOK
<1>2. CASE CopySnapshot
  <2>1. /\ copy' = [tree |-> disk, main |-> main, version |-> version]
        /\ UNCHANGED <<disk, main, version, busy, torn>> /\ Free
    BY <1>2 DEF CopySnapshot
  <2>2. Files' = disk  BY <2>1 DEF Files, Free
  <2>3. QED  BY <1>1, <2>1, <2>2 DEF CopyInv
<1>3. ASSUME copy' = copy PROVE CopyInv'
  <2>1. PromisedStep  BY HeldStep
  <2>2. CASE Promise!Change
    <3>1. version' = version + 1  BY <2>2 DEF Promise!Change
    <3>2. QED  BY <1>1, <1>3, <3>1 DEF CopyInv
  <2>3. CASE Promise!Spoil
    <3>1. PICK S \in SUBSET Paths : Promise!Changed \subseteq S /\ torn' = torn \cup S
      BY <2>3 DEF Promise!Spoil
    <3>2. UNCHANGED <<version, main>>  BY <2>3 DEF Promise!Spoil
    <3>3. \A p \in Paths \ S : Files'[p] = Files[p]  BY <3>1 DEF Promise!Changed
    <3>4. QED  BY <1>3, <3>1, <3>2, <3>3 DEF CopyInv
  <2>4. CASE UNCHANGED Promise!vars
    BY <1>3, <2>4 DEF CopyInv, Promise!vars
  <2>5. QED  BY <2>1, <2>2, <2>3, <2>4 DEF PromisedStep
<1>4. CopySnapshot \/ copy' = copy
  BY DEF Next, ClientStep, TreeStep, SaveTextFile, CreateFile, AddFile, RenamePath, DeletePath,
         DiscardPaths, ApplyGithubSyncTree, SyncCopies, RestoreHistoryFiles, RestoreFile, Records,
         Fails, UpdateProject, ReadTextFile, Writes, history, vars
<1>5. QED  BY <1>2, <1>3, <1>4

\* Whoever finds the version of a snapshot to be the current one looks at the
\* same main document and the same files, but for those a failure spoiled.
THEOREM VersionsIdentifyFiles == Spec => []SnapshotIdentity
<1>1. Init => TypeOK /\ Held /\ CopyInv
  <2>1. Init => Held  BY DEF Init, Held
  <2>2. ASSUME Init PROVE CopyInv
    <3>1. version = 1 /\ copy = [tree |-> disk, main |-> main, version |-> version] /\ Files = disk
      BY <2>2 DEF Init, Files, Free
    <3>2. QED  BY <3>1 DEF CopyInv
  <2>3. QED  BY <2>1, <2>2, InitType
<1>2. TypeOK /\ Held /\ CopyInv /\ [Next]_vars => Held' /\ CopyInv'
  BY HeldStep, CopyStep
<1>3. TypeOK /\ CopyInv => SnapshotIdentity  BY DEF CopyInv, SnapshotIdentity, Files
<1>4. Spec => []TypeOK  BY TypeCorrect
<1>5. QED  BY <1>1, <1>2, <1>3, <1>4, PTL DEF Spec

-----------------------------------------------------------------------------
(* No update is lost.  A client's view of a path that has not come into being *)
(* anew since is never ahead of the path's version, and where the two are     *)
(* equal the client has the text, unless an operation that failed, or that    *)
(* may still fail, has touched it.                                            *)

\* The tree that the views are compared with; a tree that is being replaced
\* holds nothing for a moment.
Base == IF busy.op = "removed" THEN busy.was ELSE disk

\* What a failure has spoiled, or would now spoil.
Unsure == IF busy.op \in {"idle", "removed"} THEN torn ELSE torn \cup busy.touched

ViewOK(v, f, b, n, unsure) ==
  /\ v.born \leq b
  /\ v.born = b /\ f # NoFile =>
       /\ v.version \leq n
       /\ v.version = n /\ ~unsure => v.content = f

ViewsOK ==
  \A c \in Clients : opened[c] # NoView =>
    LET p == opened[c].path IN
      ViewOK(opened[c], Base[p], born[p], VersionOf(p), p \in Unsure)

\* A file without an entry is one that a failure left behind.
EntriesOK == \A p \in Paths : Base[p] # NoFile /\ p \notin Unsure => entry[p] # 0

SeenVersion(e, p) == IF e[p] = 0 THEN 1 ELSE e[p]

\* The entries e that an operation of kind op will record for the files d: a file
\* that it touched, and that was there, gets a later version, unless a failure
\* had left it without an entry.
Advances(op, touched, e, was, d) ==
  \A p \in Paths : d[p] # NoFile =>
    /\ p \notin touched => SeenVersion(e, p) = VersionOf(p) /\ (e[p] = 0 => entry[p] = 0)
    /\ p \in touched =>
         /\ was[p] # NoFile =>
              /\ VersionOf(p) \leq SeenVersion(e, p)
              /\ VersionOf(p) = SeenVersion(e, p) => p \in torn
         /\ e[p] = 0 => /\ entry[p] = 0
                        /\ p \in torn \/ (op = "rename" /\ torn \cap touched # {})

PendingOK ==
  busy.op \notin {"idle", "removed"} =>
    /\ Advances(busy.op, busy.touched, busy.entry, busy.was, disk)
    /\ \A c \in Clients : opened[c] # NoView =>
         LET p == opened[c].path IN
           disk[p] # NoFile /\ busy.was[p] = NoFile => opened[c].born < born[p]

ReplacedOK ==
  busy.op = "removed" =>
    Advances("sync", {p \in Paths : busy.tree[p] # busy.was[p]}, busy.entry,
             busy.was, busy.tree)

Recalled == ViewsOK /\ EntriesOK /\ PendingOK /\ ReplacedOK

LEMMA BeginsRight ==
  ASSUME TypeOK, Recalled, NEW q \in Holding, NEW d \in Tree, Writes(q, d),
         q.was = disk, q.op # "removed", Free \/ (busy.op = "restore" /\ busy.touched = {}),
         \A p \in Paths \ q.touched : d[p] = disk[p],
         Advances(q.op, q.touched, q.entry, disk, d)
  PROVE  Recalled'
<1>1. Base = disk /\ Unsure = torn  BY DEF Base, Unsure, Free, Idle
<1>2. /\ busy' = q /\ disk' = d /\ UNCHANGED <<entry, torn, opened>>
      /\ \A p \in Paths : born'[p] = IF disk[p] = NoFile /\ d[p] # NoFile
                                     THEN born[p] + 1 ELSE born[p]
  BY DEF Writes, history
<1>3. q.op # "idle"  BY DEF Holding
<1>4. Base' = d /\ Unsure' = torn \cup q.touched  BY <1>2, <1>3 DEF Base, Unsure
<1>5. ViewsOK'
  <2> SUFFICES ASSUME NEW c \in Clients, opened[c] # NoView
               PROVE  ViewOK(opened[c], d[opened[c].path], born'[opened[c].path],
                             VersionOf(opened[c].path), opened[c].path \in torn \cup q.touched)
    BY <1>2, <1>4 DEF ViewsOK, VersionOf
  <2>1. opened[c] \in ViewType  BY DEF TypeOK
  <2>2. PICK p \in Paths : p = opened[c].path  BY <2>1 DEF ViewType
  <2>3. ViewOK(opened[c], disk[p], born[p], VersionOf(p), p \in torn)
    BY <1>1, <2>2 DEF Recalled, ViewsOK
  <2>4. opened[c].born \in Nat /\ born[p] \in Nat  BY <2>1 DEF ViewType, TypeOK
  <2>5. CASE disk[p] = NoFile /\ d[p] # NoFile
    BY <1>2, <2>2, <2>3, <2>4, <2>5 DEF ViewOK
  <2>6. CASE ~(disk[p] = NoFile /\ d[p] # NoFile)
    <3>1. born'[p] = born[p]  BY <1>2, <2>6
    <3>2. p \notin q.touched => d[p] = disk[p]  OBVIOUS
    <3>3. QED  BY <2>2, <2>3, <2>6, <3>1, <3>2 DEF ViewOK
  <2>7. QED  BY <2>5, <2>6
<1>6. EntriesOK'
  <2>1. \A p \in Paths : disk[p] # NoFile /\ p \notin torn => entry[p] # 0
    BY <1>1 DEF Recalled, EntriesOK
  <2>2. QED  BY <1>2, <1>4, <2>1 DEF EntriesOK
<1>7. PendingOK'
  <2>1. Advances(busy.op, busy.touched, busy.entry, busy.was, disk)'
    BY <1>2 DEF Advances, VersionOf, SeenVersion
  <2>2. ASSUME NEW c \in Clients, opened[c] # NoView, NEW p \in Paths, p = opened[c].path,
               d[p] # NoFile, disk[p] = NoFile
        PROVE  opened[c].born < born'[p]
    <3>1. opened[c].born \leq born[p]
      BY <2>2 DEF Recalled, ViewsOK, ViewOK
    <3>2. opened[c].born \in Nat /\ born[p] \in Nat  BY <2>2 DEF ViewType, TypeOK
    <3>3. QED  BY <1>2, <2>2, <3>1, <3>2
  <2>3. \A c \in Clients : opened[c] # NoView => opened[c].path \in Paths
    BY DEF TypeOK, ViewType
  <2>4. QED  BY <1>2, <2>1, <2>2, <2>3 DEF PendingOK
<1>8. ReplacedOK'  BY <1>2 DEF ReplacedOK
<1>9. QED  BY <1>5, <1>6, <1>7, <1>8 DEF Recalled

\* Where nothing that the views are compared with moves, they stay right.
LEMMA ViewsStay ==
  ASSUME TypeOK, Recalled, UNCHANGED <<opened, entry, torn>>,
         Base' = Base, Unsure' = Unsure, \A p \in Paths : born'[p] = born[p]
  PROVE  ViewsOK' /\ EntriesOK'
<1>1. \A c \in Clients : opened[c] # NoView => opened[c].path \in Paths
  BY DEF TypeOK, ViewType
<1>2. ViewsOK'
  BY <1>1 DEF Recalled, ViewsOK, VersionOf
<1>3. EntriesOK'  BY DEF Recalled, EntriesOK
<1>4. QED  BY <1>2, <1>3

LEMMA RecalledStep ==
  ASSUME TypeOK, TypeOK', Held, Recalled, [Next]_vars
  PROVE  Recalled'
<1>1. \A p \in Paths : entry[p] \in Nat /\ VersionOf(p) \in Nat /\ VersionOf(p) # 0
  BY DEF VersionOf, TypeOK
<1>2. ASSUME Free PROVE Base = disk /\ Unsure = torn
  BY <1>2 DEF Base, Unsure, Free, Idle
<1>3. ASSUME Free, NEW p \in Paths, disk[p] # NoFile, entry[p] = 0 PROVE p \in torn
  BY <1>2, <1>3 DEF Recalled, EntriesOK
<1>4. ASSUME NEW c \in Clients, NEW content \in Contents, SaveTextFile(c, content)
      PROVE  Recalled'
  <2>1. PICK p \in Paths : p = opened[c].path
    <3>1. opened[c] \in ViewType  BY <1>4 DEF SaveTextFile, TypeOK
    <3>2. QED  BY <3>1 DEF ViewType
  <2> DEFINE e == [entry EXCEPT ![p] = VersionOf(p) + 1]
             q == [Operation("save", {p}, e, main) EXCEPT !.client = c]
             d == [disk EXCEPT ![p] = content]
  <2>2. Free /\ Writes(q, d)  BY <1>4, <2>1 DEF SaveTextFile, Starts
  <2>3. q = busy' /\ d = disk'  BY <2>2 DEF Writes
  <2>4. q.was = disk /\ q.op = "save" /\ q.touched = {p} /\ q.entry = e  BY DEF Operation
  <2>5. q \in Holding /\ d \in Tree
    BY <2>3, <2>4 DEF TypeOK, Idle
  <2>6. \A x \in Paths \ {p} : d[x] = disk[x] /\ e[x] = entry[x]  BY DEF TypeOK, Tree
  <2>7. e[p] = VersionOf(p) + 1  BY DEF TypeOK
  <2>8. Advances("save", {p}, e, disk, d)
    <3> HIDE DEF e, d, q
    <3>1. QED  BY <1>1, <2>6, <2>7 DEF Advances, SeenVersion, VersionOf
  <2> HIDE DEF e, d, q
  <2>9. QED  BY <2>2, <2>4, <2>5, <2>6, <2>8, BeginsRight
<1>5. ASSUME NEW p \in Paths, NEW content \in Contents,
             CreateFile(p, content) \/ AddFile(p, content)
      PROVE  Recalled'
  <2> DEFINE d == [disk EXCEPT ![p] = content]
  <2>1. PICK op \in {"create", "add"}, n \in Nat :
          /\ Free /\ disk[p] = NoFile /\ n # 0
          /\ Writes(Operation(op, {p}, [entry EXCEPT ![p] = n], main), d)
    <3>1. entry[p] + 1 \in Nat /\ entry[p] + 1 # 0  BY <1>1
    <3>2. CASE CreateFile(p, content)
      <4>1. PICK n \in Nat : n = 1 /\ n # 0  OBVIOUS
      <4>2. /\ Free /\ disk[p] = NoFile
            /\ Writes(Operation("create", {p}, [entry EXCEPT ![p] = n], main), d)
        BY <3>2, <4>1 DEF CreateFile, Starts, Exists
      <4> HIDE DEF d
      <4>3. QED  BY <4>1, <4>2
    <3>3. CASE AddFile(p, content)
      <4>1. PICK n \in Nat : n = entry[p] + 1 /\ n # 0  BY <3>1
      <4>2. /\ Free /\ disk[p] = NoFile
            /\ Writes(Operation("add", {p}, [entry EXCEPT ![p] = n], main), d)
        BY <3>3, <4>1 DEF AddFile, Starts, Exists
      <4> HIDE DEF d
      <4>3. QED  BY <4>1, <4>2
    <3>4. QED  BY <1>5, <3>2, <3>3
  <2> DEFINE e == [entry EXCEPT ![p] = n]
             q == Operation(op, {p}, e, main)
  <2>2. q.was = disk /\ q.op = op /\ q.touched = {p} /\ q.entry = e  BY DEF Operation
  <2>3. q = busy' /\ d = disk'  BY <2>1 DEF Writes
  <2>4. q \in Holding /\ d \in Tree
    <3> HIDE DEF q, d
    <3>1. QED  BY <2>2, <2>3 DEF TypeOK, Idle
  <2>5. \A x \in Paths \ {p} : d[x] = disk[x] /\ e[x] = entry[x]  BY DEF TypeOK, Tree
  <2>6. e[p] = n  BY DEF TypeOK
  <2>7. Writes(q, d)  BY <2>1
  <2> HIDE DEF e, d, q
  <2>8. Advances(op, {p}, e, disk, d)
    BY <1>1, <2>1, <2>5, <2>6 DEF Advances, SeenVersion, VersionOf
  <2>9. QED  BY <2>1, <2>2, <2>4, <2>5, <2>7, <2>8, BeginsRight
<1>6. ASSUME NEW p \in Paths, NEW r \in Paths, RenamePath(p, r) PROVE Recalled'
  <2> DEFINE e == IF entry[p] = 0 THEN entry ELSE [entry EXCEPT ![r] = entry[p], ![p] = 0]
             m == IF main = p THEN r ELSE main
             q == Operation("rename", {p, r}, e, m)
             d == [disk EXCEPT ![r] = disk[p], ![p] = NoFile]
  <2>1. Free /\ disk[p] # NoFile /\ disk[r] = NoFile /\ Writes(q, d) /\ p # r
    BY <1>6 DEF RenamePath, Starts, Exists
  <2>2. q.was = disk /\ q.op = "rename" /\ q.touched = {p, r} /\ q.entry = e  BY DEF Operation
  <2>3. q = busy' /\ d = disk'  BY <2>1 DEF Writes
  <2>4. q \in Holding /\ d \in Tree
    <3> HIDE DEF q, d
    <3>1. QED  BY <2>2, <2>3 DEF TypeOK, Idle
  <2>5. \A x \in Paths \ {p, r} : d[x] = disk[x] /\ e[x] = entry[x]  BY DEF TypeOK, Tree
  <2>6. d[p] = NoFile  BY <2>1 DEF TypeOK, Tree
  <2>7. e[r] = IF entry[p] = 0 THEN entry[r] ELSE entry[p]  BY <2>1 DEF TypeOK
  <2>8. entry[p] = 0 => p \in torn  BY <1>3, <2>1
  <2> HIDE DEF e, d, q
  <2>9. Advances("rename", {p, r}, e, disk, d)
    <3>1. ASSUME NEW x \in Paths, d[x] # NoFile, x \notin {p, r}
          PROVE  SeenVersion(e, x) = VersionOf(x) /\ (e[x] = 0 => entry[x] = 0)
      BY <2>5, <3>1 DEF SeenVersion, VersionOf
    <3>2. e[r] = 0 => entry[r] = 0 /\ torn \cap {p, r} # {}  BY <2>7, <2>8
    <3>3. QED  BY <2>1, <2>6, <3>1, <3>2 DEF Advances
  <2>10. QED  BY <2>1, <2>2, <2>4, <2>5, <2>9, BeginsRight
<1>7. ASSUME NEW p \in Paths, DeletePath(p) PROVE Recalled'
  <2> DEFINE e == [entry EXCEPT ![p] = 0]
             q == Operation("delete", {p}, e, main)
             d == [disk EXCEPT ![p] = NoFile]
  <2>1. Free /\ Writes(q, d)  BY <1>7 DEF DeletePath, Starts
  <2>2. q.was = disk /\ q.op = "delete" /\ q.touched = {p} /\ q.entry = e  BY DEF Operation
  <2>3. q = busy' /\ d = disk'  BY <2>1 DEF Writes
  <2>4. q \in Holding /\ d \in Tree
    <3> HIDE DEF q, d
    <3>1. QED  BY <2>2, <2>3 DEF TypeOK, Idle
  <2>5. \A x \in Paths \ {p} : d[x] = disk[x] /\ e[x] = entry[x]  BY DEF TypeOK, Tree
  <2>6. d[p] = NoFile  BY DEF TypeOK, Tree
  <2> HIDE DEF e, d, q
  <2>7. Advances("delete", {p}, e, disk, d)
    BY <2>5, <2>6 DEF Advances, SeenVersion, VersionOf
  <2>8. QED  BY <2>1, <2>2, <2>4, <2>5, <2>7, BeginsRight
<1>8. ASSUME NEW S \in SUBSET Paths, NEW d \in Tree, DiscardPaths(S, d) PROVE Recalled'
  <2> DEFINE e == [p \in Paths |-> IF p \notin S THEN entry[p]
                                   ELSE IF d[p] # NoFile THEN entry[p] + 1 ELSE 0]
             q == Operation("discard", S, e, main)
  <2>1. Free /\ Writes(q, d)  BY <1>8 DEF DiscardPaths, Starts
  <2>2. q.was = disk /\ q.op = "discard" /\ q.touched = S /\ q.entry = e  BY DEF Operation
  <2>3. q = busy' /\ d = disk'  BY <2>1 DEF Writes
  <2>4. q \in Holding
    <3> HIDE DEF q
    <3>1. QED  BY <2>2, <2>3 DEF TypeOK, Idle
  <2>5. \A x \in Paths \ S : d[x] = disk[x]  BY <1>8 DEF DiscardPaths
  <2>6. \A x \in Paths : /\ x \notin S => e[x] = entry[x]
                         /\ x \in S /\ d[x] # NoFile => e[x] = entry[x] + 1
    OBVIOUS
  <2>7. \A x \in Paths : disk[x] # NoFile /\ entry[x] = 0 => x \in torn  BY <1>3, <2>1
  <2> HIDE DEF e, q
  <2>8. Advances("discard", S, e, disk, d)
    <3> SUFFICES ASSUME NEW x \in Paths, d[x] # NoFile
                 PROVE  /\ x \notin S => SeenVersion(e, x) = VersionOf(x) /\ (e[x] = 0 => entry[x] = 0)
                        /\ x \in S =>
                             /\ disk[x] # NoFile =>
                                  /\ VersionOf(x) \leq SeenVersion(e, x)
                                  /\ VersionOf(x) = SeenVersion(e, x) => x \in torn
                             /\ e[x] # 0
      BY DEF Advances
    <3>1. CASE x \notin S  BY <2>6, <3>1 DEF SeenVersion, VersionOf
    <3>2. CASE x \in S
      <4>1. e[x] = entry[x] + 1 /\ entry[x] \in Nat  BY <1>1, <2>6, <3>2
      <4>2. SeenVersion(e, x) = entry[x] + 1  BY <4>1 DEF SeenVersion
      <4>3. QED  BY <2>7, <3>2, <4>1, <4>2 DEF VersionOf
    <3>3. QED  BY <3>1, <3>2
  <2>9. QED  BY <2>1, <2>2, <2>4, <2>5, <2>8, BeginsRight
<1>9. ASSUME NEW t \in Tree, ApplyGithubSyncTree(t) PROVE Recalled'
  <2> DEFINE e == [p \in Paths |-> CASE t[p] = NoFile -> 0
                                     [] t[p] # NoFile /\ entry[p] = 0 -> 1
                                     [] t[p] # NoFile /\ entry[p] # 0 ->
                                          IF t[p] # disk[p] THEN entry[p] + 1 ELSE entry[p]]
             q == [Operation("removed", Paths, e, main) EXCEPT !.tree = t]
             d == [p \in Paths |-> NoFile]
  <2>1. Free /\ Writes(q, d)  BY <1>9 DEF ApplyGithubSyncTree, Starts
  <2>2. q.was = disk /\ q.op = "removed" /\ q.tree = t /\ q.entry = e  BY DEF Operation
  <2>3. /\ busy' = q /\ UNCHANGED <<entry, torn, opened>>
        /\ \A p \in Paths : born'[p] = born[p]
    <3>1. \A p \in Paths : d[p] = NoFile  OBVIOUS
    <3>2. QED  BY <2>1, <2>2, <3>1 DEF Writes, history
  <2>4. \A x \in Paths : t[x] # NoFile =>
          e[x] = IF entry[x] = 0 THEN 1 ELSE IF t[x] # disk[x] THEN entry[x] + 1 ELSE entry[x]
    OBVIOUS
  <2> HIDE DEF e, q, d
  <2>5. Base' = Base /\ Unsure' = Unsure
    BY <1>2, <2>1, <2>2, <2>3 DEF Base, Unsure
  <2>6. ViewsOK' /\ EntriesOK'  BY <2>3, <2>5, ViewsStay
  <2>7. \A x \in Paths : disk[x] # NoFile /\ entry[x] = 0 => x \in torn  BY <1>3, <2>1
  <2> DEFINE S == {p \in Paths : t[p] # disk[p]}
  <2>8. Advances("sync", S, e, disk, t)
    <3> SUFFICES ASSUME NEW x \in Paths, t[x] # NoFile
                 PROVE  /\ x \notin S => SeenVersion(e, x) = VersionOf(x)
                        /\ x \in S /\ disk[x] # NoFile =>
                             /\ VersionOf(x) \leq SeenVersion(e, x)
                             /\ VersionOf(x) = SeenVersion(e, x) => x \in torn
                        /\ e[x] # 0
      BY DEF Advances
    <3>1. e[x] # 0 /\ entry[x] \in Nat  BY <1>1, <2>4
    <3>2. SeenVersion(e, x) = e[x]  BY <3>1 DEF SeenVersion
    <3>3. QED  BY <2>4, <2>7, <3>1, <3>2 DEF VersionOf
  <2>9. ReplacedOK'
    <3>1. {p \in Paths : busy'.tree[p] # busy'.was[p]} = S  BY <2>2, <2>3
    <3>2. QED  BY <2>2, <2>3, <2>8, <3>1 DEF ReplacedOK, Advances, VersionOf, SeenVersion
  <2>10. PendingOK'  BY <2>2, <2>3 DEF PendingOK
  <2>11. QED  BY <2>6, <2>9, <2>10 DEF Recalled
<1>10. CASE SyncCopies
  <2> DEFINE changed == {p \in Paths : busy.tree[p] # busy.was[p]}
  <2>1. busy # Idle /\ busy \in Holding /\ busy.tree \in Tree /\ busy.was \in Tree
        /\ busy.op = "removed"
    <3>1. busy.op = "removed"  BY <1>10 DEF SyncCopies
    <3>2. busy # Idle /\ busy \in Holding  BY <3>1 DEF Idle, TypeOK
    <3>3. QED  BY <3>1, <3>2 DEF Holding
  <2>2. /\ busy' = IF changed = {} THEN Idle ELSE [busy EXCEPT !.op = "sync", !.touched = changed]
        /\ \A p \in Paths : born'[p] = IF p \in changed /\ busy.was[p] = NoFile
                                       THEN born[p] + 1 ELSE born[p]
        /\ disk' = busy.tree /\ UNCHANGED <<entry, torn, opened>>
    BY <1>10 DEF SyncCopies, history
  <2>3. Base = busy.was /\ Unsure = torn  BY <2>1 DEF Base, Unsure
  <2>4. CASE changed = {}
    <3>1. busy.tree = busy.was  BY <2>1, <2>4 DEF Tree
    <3>2. busy' = Idle /\ \A p \in Paths : born'[p] = born[p]  BY <2>2, <2>4
    <3>3. Base' = Base /\ Unsure' = Unsure
      BY <2>2, <2>3, <3>1, <3>2 DEF Base, Unsure, Idle
    <3>4. ViewsOK' /\ EntriesOK'  BY <2>2, <3>2, <3>3, ViewsStay
    <3>5. QED  BY <3>2, <3>4 DEF Recalled, PendingOK, ReplacedOK, Idle
  <2>5. CASE changed # {}
    <3>1. /\ busy'.op = "sync" /\ busy'.touched = changed /\ busy'.was = busy.was
          /\ busy'.entry = busy.entry
      BY <2>1, <2>2, <2>5 DEF Holding
    <3>2. Base' = busy.tree /\ Unsure' = torn \cup changed
      BY <2>2, <3>1 DEF Base, Unsure
    <3>3. \A p \in Paths \ changed : busy.tree[p] = busy.was[p]  OBVIOUS
    <3>4. Advances("sync", changed, busy.entry, busy.was, busy.tree)
      BY <2>1 DEF Recalled, ReplacedOK
    <3> HIDE DEF changed
    <3>5. ASSUME NEW c \in Clients, opened[c] # NoView, NEW p \in Paths, p = opened[c].path
          PROVE  /\ ViewOK(opened[c], busy.tree[p], born'[p], VersionOf(p), p \in torn \cup changed)
                 /\ busy.was[p] = NoFile /\ busy.tree[p] # NoFile => opened[c].born < born'[p]
      <4>1. ViewOK(opened[c], busy.was[p], born[p], VersionOf(p), p \in torn)
        BY <2>3, <3>5 DEF Recalled, ViewsOK
      <4>2. opened[c].born \in Nat /\ born[p] \in Nat  BY <3>5 DEF ViewType, TypeOK
      <4>3. p \in changed <=> busy.tree[p] # busy.was[p]  BY DEF changed
      <4>4. CASE p \in changed /\ busy.was[p] = NoFile
        BY <2>2, <4>1, <4>2, <4>4 DEF ViewOK
      <4>5. CASE ~(p \in changed /\ busy.was[p] = NoFile)
        <5>1. born'[p] = born[p]  BY <2>2, <4>5
        <5>2. QED  BY <4>1, <4>3, <4>5, <5>1 DEF ViewOK
      <4>6. QED  BY <4>4, <4>5
    <3>6. \A c \in Clients : opened[c] # NoView => opened[c].path \in Paths
      BY DEF TypeOK, ViewType
    <3>7. ViewsOK'
      BY <2>2, <3>2, <3>5, <3>6 DEF ViewsOK, VersionOf
    <3>8. EntriesOK'
      <4>1. \A p \in Paths : busy.was[p] # NoFile /\ p \notin torn => entry[p] # 0
        BY <2>3 DEF Recalled, EntriesOK
      <4>2. QED  BY <2>2, <3>2, <3>3, <4>1 DEF EntriesOK
    <3>9. Advances(busy.op, busy.touched, busy.entry, busy.was, disk)'
      BY <2>2, <3>1, <3>4 DEF Advances, VersionOf, SeenVersion
    <3>10. PendingOK'  BY <2>2, <3>1, <3>5, <3>6, <3>9 DEF PendingOK
    <3>11. ReplacedOK'  BY <3>1 DEF ReplacedOK
    <3>12. QED  BY <3>7, <3>8, <3>10, <3>11 DEF Recalled
  <2>6. QED  BY <2>4, <2>5
<1>11. ASSUME NEW S \in SUBSET Paths, NEW d \in Tree, RestoreHistoryFiles(S, d)
       PROVE  Recalled'
  <2>1. /\ Free /\ busy'.was = disk /\ busy'.op = "restore" /\ busy'.touched = {}
        /\ busy'.entry = entry /\ UNCHANGED <<disk, entry, opened, born, torn>>
    BY <1>11 DEF RestoreHistoryFiles, Operation, Starts, history
  <2>2. Base' = Base /\ Unsure' = Unsure  BY <1>2, <2>1 DEF Base, Unsure
  <2>3. ViewsOK' /\ EntriesOK'  BY <2>1, <2>2, ViewsStay
  <2>4. Advances(busy.op, busy.touched, busy.entry, busy.was, disk)'
    BY <2>1 DEF Advances, VersionOf, SeenVersion
  <2>5. PendingOK' /\ ReplacedOK'  BY <2>1, <2>4 DEF PendingOK, ReplacedOK
  <2>6. QED  BY <2>3, <2>5 DEF Recalled
<1>12. ASSUME NEW p \in Paths, RestoreFile(p) PROVE Recalled'
  <2> DEFINE n == IF Exists(p) THEN VersionOf(p) + 1 ELSE 1
             e == [entry EXCEPT ![p] = n]
             d == [disk EXCEPT ![p] = busy.tree[p]]
             q == [Operation("restore", {p}, e, main)
                     EXCEPT !.tree = busy.tree, !.todo = busy.todo \ {p}]
  <2>1. busy.op = "restore" /\ busy.touched = {} /\ Writes(q, d)  BY <1>12 DEF RestoreFile
  <2>2. q.was = disk /\ q.op = "restore" /\ q.touched = {p} /\ q.entry = e  BY DEF Operation
  <2>3. q = busy' /\ d = disk'  BY <2>1 DEF Writes
  <2>4. q \in Holding /\ d \in Tree
    <3> HIDE DEF q, d
    <3>1. QED  BY <2>2, <2>3 DEF TypeOK, Idle
  <2>5. \A x \in Paths \ {p} : d[x] = disk[x] /\ e[x] = entry[x]  BY DEF TypeOK, Tree
  <2>6. e[p] = n  BY DEF TypeOK
  <2>7. n # 0 /\ (disk[p] # NoFile => n = VersionOf(p) + 1)  BY <1>1 DEF Exists
  <2> HIDE DEF n, e, d, q
  <2>8. Advances("restore", {p}, e, disk, d)
    BY <1>1, <2>5, <2>6, <2>7 DEF Advances, SeenVersion, VersionOf
  <2>9. QED  BY <2>1, <2>2, <2>4, <2>5, <2>8, BeginsRight
<1>13. CASE Records
  <2>1. busy # Idle /\ busy \in Holding /\ busy.op \notin {"idle", "removed"}
    BY <1>13 DEF Records, Recorded, Idle, TypeOK
  <2>2. /\ entry' = busy.entry /\ UNCHANGED <<disk, born>>
        /\ torn' = {p \in Spoiled : p \in busy.touched => VersionOf(p)' = VersionOf(p)}
        /\ \/ busy' = Idle
           \/ busy' = [busy EXCEPT !.touched = {}, !.was = disk]
    BY <1>13 DEF Records
  <2>3. Base = disk /\ Unsure = torn \cup busy.touched  BY <2>1 DEF Base, Unsure
  <2>4. busy' = Idle \/ /\ busy'.touched = {} /\ busy'.was = disk /\ busy'.op = busy.op
                        /\ busy'.entry = busy.entry
    BY <2>1, <2>2 DEF Holding
  <2>5. Base' = disk /\ Unsure' = torn'
    BY <2>1, <2>2, <2>4 DEF Base, Unsure, Idle
  <2>6. \A p \in Paths : VersionOf(p)' = SeenVersion(busy.entry, p)
    BY <2>2 DEF VersionOf, SeenVersion
  <2>7. Advances(busy.op, busy.touched, busy.entry, busy.was, disk)
    BY <2>1 DEF Recalled, PendingOK
  <2>8. torn \subseteq Spoiled /\ (busy.op = "rename" /\ torn \cap busy.touched # {}
                                   => busy.touched \subseteq Spoiled)
        /\ Spoiled \subseteq torn \cup busy.touched
    BY DEF Spoiled
  <2>9. \A p \in Paths : SeenVersion(busy.entry, p) \in Nat  BY <2>1 DEF SeenVersion, Holding
  <2>10. ASSUME NEW c \in Clients, opened'[c] # NoView, NEW p \in Paths, p = opened'[c].path
         PROVE  ViewOK(opened'[c], disk[p], born[p], VersionOf(p)', p \in torn')
    <3>1. CASE busy.client = c
      <4>1. opened' = [opened EXCEPT ![c] = [path |-> opened[c].path, content |-> disk[opened[c].path],
                         version |-> entry'[opened[c].path], born |-> born[opened[c].path]]]
        BY <1>13, <2>10, <3>1, WorkspaceAssumption DEF Records, WorkspaceAssumption
      <4>2. opened'[c] = [path |-> opened[c].path, content |-> disk[opened[c].path],
                         version |-> entry'[opened[c].path], born |-> born[opened[c].path]]
        BY <4>1 DEF TypeOK
      <4>3. /\ opened'[c].content = disk[p] /\ opened'[c].version = entry'[p]
            /\ opened'[c].born = born[p]
        BY <2>10, <4>2
      <4>4. entry'[p] \in Nat /\ born[p] \in Nat  BY DEF TypeOK
      <4>5. QED  BY <4>3, <4>4 DEF ViewOK, VersionOf
    <3>2. CASE busy.client # c
      <4>1. opened'[c] = opened[c]  BY <1>13, <3>2 DEF Records, TypeOK
      <4>2. ViewOK(opened[c], disk[p], born[p], VersionOf(p), p \in torn \cup busy.touched)
        BY <2>3, <2>10, <4>1 DEF Recalled, ViewsOK
      <4>3. disk[p] # NoFile /\ busy.was[p] = NoFile => opened[c].born < born[p]
        BY <2>1, <2>10, <4>1 DEF Recalled, PendingOK
      <4>4. /\ opened[c].born \in Nat /\ born[p] \in Nat /\ opened[c].version \in Nat
            /\ VersionOf(p) \in Nat /\ SeenVersion(busy.entry, p) \in Nat
        BY <1>1, <2>9, <2>10, <4>1 DEF ViewType, TypeOK
      <4>5. CASE disk[p] = NoFile  BY <4>1, <4>2, <4>5 DEF ViewOK
      <4>6. CASE disk[p] # NoFile /\ p \notin busy.touched
        <5>1. VersionOf(p)' = VersionOf(p)  BY <2>6, <2>7, <4>6 DEF Advances
        <5>2. p \in torn' <=> p \in torn  BY <2>2, <2>8, <4>6
        <5>3. QED  BY <4>1, <4>2, <4>6, <5>1, <5>2 DEF ViewOK
      <4>7. CASE disk[p] # NoFile /\ p \in busy.touched
        <5>1. CASE busy.was[p] = NoFile
          BY <4>1, <4>2, <4>3, <4>4, <4>7, <5>1 DEF ViewOK
        <5>2. CASE busy.was[p] # NoFile
          <6>1. /\ VersionOf(p) \leq VersionOf(p)'
                /\ VersionOf(p) = VersionOf(p)' => p \in torn
            BY <2>6, <2>7, <4>7, <5>2 DEF Advances
          <6>2. VersionOf(p) = VersionOf(p)' => p \in torn'
            BY <2>2, <2>8, <6>1
          <6>3. VersionOf(p)' \in Nat  BY <2>6, <4>4
          <6>4. QED  BY <4>1, <4>2, <4>4, <6>1, <6>2, <6>3 DEF ViewOK
        <5>3. QED  BY <5>1, <5>2
      <4>8. QED  BY <4>5, <4>6, <4>7
    <3>3. QED  BY <3>1, <3>2
  <2>11. ViewsOK'
    <3>1. \A c \in Clients : opened'[c] # NoView => opened'[c].path \in Paths
      BY DEF TypeOK, ViewType
    <3>2. QED  BY <2>2, <2>5, <2>10, <3>1 DEF ViewsOK
  <2>12. EntriesOK'
    <3> SUFFICES ASSUME NEW p \in Paths, disk[p] # NoFile, busy.entry[p] = 0
                 PROVE  p \in torn'
      BY <2>2, <2>5 DEF EntriesOK
    <3>1. entry[p] = 0  BY <2>7 DEF Advances
    <3>2. VersionOf(p)' = VersionOf(p)  BY <2>2, <3>1 DEF VersionOf
    <3>3. CASE p \in busy.touched
      <4>1. p \in torn \/ (busy.op = "rename" /\ torn \cap busy.touched # {})
        BY <2>7, <3>3 DEF Advances
      <4>2. QED  BY <2>2, <2>8, <3>2, <3>3, <4>1
    <3>4. CASE p \notin busy.touched
      <4>1. p \in torn  BY <2>3, <3>1, <3>4 DEF Recalled, EntriesOK
      <4>2. QED  BY <2>2, <2>8, <3>2, <4>1
    <3>5. QED  BY <3>3, <3>4
  <2>13. PendingOK' /\ ReplacedOK'
    <3>1. CASE busy' = Idle  BY <3>1 DEF PendingOK, ReplacedOK, Idle
    <3>2. CASE /\ busy'.touched = {} /\ busy'.was = disk /\ busy'.op = busy.op
               /\ busy'.entry = busy.entry
      <4>1. Advances(busy.op, busy.touched, busy.entry, busy.was, disk)'
        BY <2>2, <3>2 DEF Advances, VersionOf, SeenVersion
      <4>2. QED  BY <2>1, <2>2, <3>2, <4>1 DEF PendingOK, ReplacedOK
    <3>3. QED  BY <2>4, <3>1, <3>2
  <2>14. QED  BY <2>11, <2>12, <2>13 DEF Recalled
<1>14. CASE Fails
  <2>1. busy # Idle /\ busy \in Holding /\ busy' = Idle /\ busy.op # "idle"
    BY <1>14 DEF Fails, TypeOK, Holding
  <2>2. /\ torn' = torn \cup busy.touched /\ UNCHANGED <<entry, opened>>
        /\ busy.op # "removed" => disk' = disk
        /\ \A p \in Paths : born'[p] = IF busy.op = "removed" /\ busy.was[p] = NoFile
                                            /\ disk'[p] # NoFile
                                       THEN born[p] + 1 ELSE born[p]
    BY <1>14 DEF Fails
  <2>3. Base' = disk' /\ Unsure' = torn'  BY <2>1 DEF Base, Unsure, Idle
  <2>4. PendingOK' /\ ReplacedOK'  BY <2>1 DEF PendingOK, ReplacedOK, Idle
  <2>5. CASE busy.op # "removed"
    <3>1. Base = disk /\ Unsure = torn \cup busy.touched  BY <2>1, <2>5 DEF Base, Unsure
    <3>2. \A c \in Clients : opened[c] # NoView => opened[c].path \in Paths
      BY DEF TypeOK, ViewType
    <3>3. \A p \in Paths : born'[p] = born[p]  BY <2>2, <2>5
    <3>4. Base' = Base /\ Unsure' = Unsure  BY <2>2, <2>3, <2>5, <3>1
    <3>5. ViewsOK'  BY <2>2, <3>2, <3>3, <3>4 DEF Recalled, ViewsOK, VersionOf
    <3>6. EntriesOK'  BY <2>2, <3>4 DEF Recalled, EntriesOK
    <3>7. QED  BY <2>4, <3>5, <3>6 DEF Recalled
  <2>6. CASE busy.op = "removed"
    <3>1. torn' = torn \cup Paths  BY <2>1, <2>2, <2>6 DEF Held
    <3>2. EntriesOK'  BY <2>3, <3>1 DEF EntriesOK
    <3>3. ASSUME NEW c \in Clients, opened[c] # NoView, NEW p \in Paths, p = opened[c].path
          PROVE  ViewOK(opened[c], disk'[p], born'[p], VersionOf(p), TRUE)
      <4>1. ViewOK(opened[c], busy.was[p], born[p], VersionOf(p), p \in Unsure)
        BY <2>6, <3>3 DEF Recalled, ViewsOK, Base
      <4>2. opened[c].born \in Nat /\ born[p] \in Nat  BY <3>3 DEF ViewType, TypeOK
      <4>3. CASE busy.was[p] = NoFile /\ disk'[p] # NoFile
        BY <2>2, <2>6, <4>1, <4>2, <4>3 DEF ViewOK
      <4>4. CASE ~(busy.was[p] = NoFile /\ disk'[p] # NoFile)
        <5>1. born'[p] = born[p]  BY <2>2, <4>4
        <5>2. QED  BY <4>1, <4>4, <5>1 DEF ViewOK
      <4>5. QED  BY <4>3, <4>4
    <3>4. ViewsOK'
      <4>1. \A c \in Clients : opened[c] # NoView => opened[c].path \in Paths
        BY DEF TypeOK, ViewType
      <4>2. QED  BY <2>2, <2>3, <3>1, <3>3, <4>1 DEF ViewsOK, VersionOf, ViewOK
    <3>5. QED  BY <2>4, <3>2, <3>4 DEF Recalled
  <2>7. QED  BY <2>5, <2>6
<1>15. ASSUME NEW c \in Clients, NEW p \in Paths, ReadTextFile(c, p) PROVE Recalled'
  <2> DEFINE v == [path |-> p, content |-> disk[p], version |-> VersionOf(p), born |-> born[p]]
  <2>1. /\ Free /\ opened' = [opened EXCEPT ![c] = v]
        /\ UNCHANGED <<disk, entry, busy, born, torn>>
    BY <1>15 DEF ReadTextFile
  <2>2. Base' = disk /\ Unsure' = torn  BY <2>1, <1>2 DEF Base, Unsure
  <2>3. \A x \in Clients : opened'[x] = IF x = c THEN v ELSE opened[x]  BY <2>1 DEF TypeOK
  <2>4. ViewOK(v, disk[p], born[p], VersionOf(p), p \in torn)
    BY <1>1 DEF ViewOK, TypeOK
  <2>5. v.path = p  OBVIOUS
  <2> HIDE DEF v
  <2>6. \A x \in Clients : opened[x] # NoView =>
          /\ opened[x].path \in Paths
          /\ LET y == opened[x].path IN ViewOK(opened[x], disk[y], born[y], VersionOf(y), y \in torn)
    BY <1>2, <2>1 DEF Recalled, ViewsOK, TypeOK, ViewType
  <2>7. ViewsOK'
    BY <2>1, <2>2, <2>3, <2>4, <2>5, <2>6 DEF ViewsOK, VersionOf
  <2>8. EntriesOK'  BY <1>2, <2>1, <2>2 DEF Recalled, EntriesOK
  <2>9. PendingOK' /\ ReplacedOK'  BY <2>1 DEF PendingOK, ReplacedOK, Free, Idle
  <2>10. QED  BY <2>7, <2>8, <2>9 DEF Recalled
<1>16. ASSUME UNCHANGED <<disk, entry, busy, opened, born, torn>> PROVE Recalled'
  <2>1. Base' = Base /\ Unsure' = Unsure  BY <1>16 DEF Base, Unsure
  <2>2. ViewsOK' /\ EntriesOK'  BY <1>16, <2>1, ViewsStay
  <2>3. PendingOK' /\ ReplacedOK'
    BY <1>16 DEF Recalled, PendingOK, ReplacedOK, Advances, VersionOf, SeenVersion
  <2>4. QED  BY <2>2, <2>3 DEF Recalled
<1>17. ASSUME NEW m \in Paths, UpdateProject(m) PROVE Recalled'
  BY <1>16, <1>17 DEF UpdateProject, history
<1>18. CASE CopySnapshot  BY <1>16, <1>18 DEF CopySnapshot
<1>19. CASE UNCHANGED vars  BY <1>16, <1>19 DEF vars
<1>20. QED
  BY <1>4, <1>5, <1>6, <1>7, <1>8, <1>9, <1>10, <1>11, <1>12, <1>13, <1>14, <1>15, <1>17, <1>18,
     <1>19 DEF Next, ClientStep, TreeStep

\* A save replaces exactly what its client had opened, as long as the path was not
\* emptied and filled anew in between and no failed operation spoiled it.
THEOREM SavesLoseNoUpdate == Spec => NoLostUpdate
<1> DEFINE Saving(c) == Free /\ busy'.op = "save" /\ busy'.client = c
           Step == \A c \in Clients :
                     /\ Saving(c)
                     /\ opened[c].born = born[opened[c].path] /\ opened[c].path \notin torn
                     => disk[opened[c].path] = opened[c].content
<1>1. Init => Held /\ Recalled
  <2> SUFFICES ASSUME Init PROVE Held /\ Recalled  OBVIOUS
  <2>1. busy = Idle /\ torn = {} /\ \A c \in Clients : opened[c] = NoView  BY DEF Init
  <2>2. Base = disk /\ Unsure = {}  BY <2>1 DEF Base, Unsure, Idle
  <2>3. \A p \in Paths : disk[p] # NoFile => entry[p] = 1  BY DEF Init, Exists
  <2>4. QED
    BY <2>1, <2>2, <2>3
    DEF Held, Recalled, ViewsOK, EntriesOK, PendingOK, ReplacedOK, Idle
<1>2. TypeOK /\ TypeOK' /\ Held /\ Recalled /\ [Next]_vars => Held' /\ Recalled'
  BY HeldStep, RecalledStep
<1>3. ASSUME TypeOK, Recalled, [Next]_vars PROVE [Step]_vars
  <2> SUFFICES ASSUME Next, NEW c \in Clients, Saving(c),
                      opened[c].born = born[opened[c].path], opened[c].path \notin torn
               PROVE  disk[opened[c].path] = opened[c].content
    BY <1>3
  <2>1. busy.op = "idle"  BY DEF Free, Idle
  <2>2. PICK content \in Contents : SaveTextFile(c, content)
    <3>1. ASSUME NEW x \in Clients, NEW content \in Contents, SaveTextFile(x, content)
          PROVE  x = c
      BY <3>1 DEF SaveTextFile, Writes, Operation
    <3>2. ASSUME NEW p \in Paths, NEW content \in Contents,
                 CreateFile(p, content) \/ AddFile(p, content)
          PROVE  FALSE
      BY <3>2 DEF CreateFile, AddFile, Writes, Operation
    <3>3. ASSUME NEW p \in Paths, NEW q \in Paths, RenamePath(p, q) PROVE FALSE
      BY <3>3 DEF RenamePath, Writes, Operation
    <3>4. ASSUME NEW p \in Paths, DeletePath(p) \/ RestoreFile(p) \/ UpdateProject(p) PROVE FALSE
      BY <2>1, <3>4 DEF DeletePath, RestoreFile, UpdateProject, Writes, Operation
    <3>5. ASSUME NEW S \in SUBSET Paths, NEW d \in Tree,
                 DiscardPaths(S, d) \/ RestoreHistoryFiles(S, d)
          PROVE  FALSE
      <4>1. CASE DiscardPaths(S, d)
        <5>1. PICK e : Writes(Operation("discard", S, e, main), d)
          BY <4>1 DEF DiscardPaths
        <5>2. QED  BY <5>1 DEF Writes, Operation
      <4>2. CASE RestoreHistoryFiles(S, d)  BY <4>2 DEF RestoreHistoryFiles, Operation
      <4>3. QED  BY <3>5, <4>1, <4>2
    <3>6. ASSUME NEW d \in Tree, ApplyGithubSyncTree(d) PROVE FALSE
      BY <3>6 DEF ApplyGithubSyncTree, Writes, Operation
    <3>7. ~SyncCopies /\ ~Records /\ ~Fails
      BY <2>1 DEF SyncCopies, Records, Recorded, Fails, Free
    <3>8. ~CopySnapshot /\ \A x \in Clients, p \in Paths : ~ReadTextFile(x, p)
      BY <2>1 DEF CopySnapshot, ReadTextFile
    <3>9. QED
      BY <3>1, <3>2, <3>3, <3>4, <3>5, <3>6, <3>7, <3>8 DEF Next, ClientStep, TreeStep
  <2>3. /\ opened[c] # NoView /\ disk[opened[c].path] # NoFile
        /\ opened[c].version = VersionOf(opened[c].path)
    BY <2>2 DEF SaveTextFile, Exists
  <2>4. Base = disk /\ Unsure = torn  BY <2>1 DEF Base, Unsure
  <2>5. PICK p : p = opened[c].path  OBVIOUS
  <2>6. ViewOK(opened[c], disk[p], born[p], VersionOf(p), p \in torn)
    BY <1>3, <2>3, <2>4, <2>5 DEF Recalled, ViewsOK
  <2>7. QED  BY <2>3, <2>5, <2>6 DEF ViewOK
<1>4. Spec => []TypeOK  BY TypeCorrect
<1>5. QED  BY <1>1, <1>2, <1>3, <1>4, PTL DEF Spec, NoLostUpdate
=============================================================================
