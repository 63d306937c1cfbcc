------------------------ MODULE ChangeSetReviewProofs ------------------------
(***************************************************************************)
(* Theorems about the review of a ChangeSet.  All of them are proved for   *)
(* any number of requests in flight but the last: that recorded versions   *)
(* are reviewed holds for one request at a time, since every request       *)
(* judges the files by its own copy of the ChangeSet.                      *)
(*                                                                         *)
(* The proof goes through the fields: what every action does to its        *)
(* request is stated once (StartStep to RecordStep, AfterDecideFields,     *)
(* ...), and each invariant is then a statement about one request, one     *)
(* file and its version: CopyOK (EditInv), RequestOK and SightOK           *)
(* (OverInv), Kept and PlanOK (RecInv).                                    *)
(***************************************************************************)
EXTENDS ChangeSetReview, TLAPS, FiniteSetTheorems, WellFoundedInduction, SequenceTheorems

-----------------------------------------------------------------------------
(* Types.                                                                     *)

Contents  == File \cup {NoFile}
Sights    == [version: Nat, content: Contents]
Steps     == [action: {"skip", "seen", "save", "create", "delete"},
              version: Nat, content: Contents, copy: Sights \cup {Unseen}]
Decisions == [Hunks -> {"pending", "accepted", "rejected"}]
Proposals == [Hunks -> Texts]
Seen      == [Paths -> Sights \cup {Unseen}]
Plans     == [Paths -> Steps]

ChangeSet ==
  [explicit: BOOLEAN,
   status: {"proposed", "partially-accepted", "accepted", "rejected",
            "rolled-back", "conflict"},
   hunk: Decisions, after: Proposals, expected: [Paths -> Nat],
   overridden: BOOLEAN, plan: {"waiting-approval", "accepted", "cancelled"},
   resolution: {"planned", "in-revision", "reopened", "rolled-back"},
   issue: {"planned", "open"}, raced: BOOLEAN]

Request ==
  [phase: {"prepare", "apply", "revert", "check", "finish", "record"},
   op: {"decide", "editHunk", "editFile", "conflict", "finish", "rollback"},
   from: ChangeSet, hunk: Decisions, after: Proposals,
   todo: SUBSET (Paths \cup Hunks), plan: Plans, clash: Seen,
   confirm: Seen, override: BOOLEAN, complete: BOOLEAN]

TypeOK ==
  /\ disk \in [Paths -> Contents] /\ version \in [Paths -> Nat]
  /\ userEdits \in Nat /\ cs \in ChangeSet /\ shown \in Seen
  /\ req \in [Requests -> Request \cup {Rest}]
  /\ mutations \in Seq(Requests)

\* What a request is doing in each of its phases.
ShapeOK(q) ==
  /\ q.phase = "prepare" => q.op = "decide" /\ q.todo # {}
  /\ q.phase = "revert" => q.op = "rollback" /\ q.todo # {}
  /\ q.phase = "apply" => q.op \in {"decide", "rollback"}
  /\ q.phase = "check" => q.op = "editFile"
  /\ q.op # "editHunk" => q.todo \subseteq Paths

Active(r) == ~Free(r)

\* A mutation is queued once, for a request that waits for it.
QueueOK ==
  /\ \A m, n \in DOMAIN mutations : mutations[m] = mutations[n] => m = n
  /\ \A n \in DOMAIN mutations : req[mutations[n]].phase = "record"

Shapes == QueueOK /\ \A r \in Requests : Active(r) => ShapeOK(req[r])

-----------------------------------------------------------------------------
(* The order of the files.                                                    *)

LEMMA Minimal ==
  ASSUME NEW S \in SUBSET Nat, S # {}
  PROVE  Min(S) \in S /\ \A y \in S : Min(S) =< y
<1> DEFINE R == {m \in Nat \X Nat : m[1] < m[2]}
<1>1. IsWellFoundedOn(R, Nat)  BY NatLessThanWellFounded DEF OpToRel
<1>2. PICK x \in S : \A y \in S : ~(<<y, x>> \in R)
  <2> HIDE DEF R
  <2> QED  BY <1>1, WFMin
<1>3. ASSUME NEW y \in S  PROVE x =< y
  <2>1. <<y, x>> \in Nat \X Nat /\ <<y, x>>[1] = y /\ <<y, x>>[2] = x  OBVIOUS
  <2>2. ~(y < x)  BY <1>2, <2>1
  <2>3. x \in Nat /\ y \in Nat  OBVIOUS
  <2>4. QED  BY <2>2, <2>3
<1>4. QED  BY <1>3 DEF Min

LEMMA Maximal ==
  ASSUME NEW N \in Nat, NEW S \in SUBSET (1..N), S # {}
  PROVE  Max(S) \in S
<1> DEFINE T == {m \in 1..N : (N + 1) - m \in S}
<1>1. T \in SUBSET Nat /\ T # {}
  <2>1. PICK x \in S : TRUE  OBVIOUS
  <2>2. x \in 1..N  BY <2>1
  <2>3. (N + 1) - x \in 1..N /\ (N + 1) - ((N + 1) - x) = x  BY <2>2
  <2>4. (N + 1) - x \in T  BY <2>3
  <2>5. \A m \in 1..N : m \in Nat  OBVIOUS
  <2>6. T \subseteq 1..N  OBVIOUS
  <2> HIDE DEF T
  <2>7. QED  BY <2>4, <2>5, <2>6
<1>2. PICK t \in T : t = Min(T)  BY <1>1, Minimal
<1>3. \A y \in T : t =< y  BY <1>1, <1>2, Minimal
<1>4. ASSUME NEW s \in S  PROVE (N + 1) - t >= s
  <2>1. s \in 1..N /\ (N + 1) - s \in 1..N /\ (N + 1) - ((N + 1) - s) = s
    OBVIOUS
  <2>2. (N + 1) - s \in T  BY <2>1
  <2>3. t =< (N + 1) - s /\ t \in 1..N  BY <1>3, <2>2
  <2>4. QED  BY <2>1, <2>3
<1>5. (N + 1) - t \in S  OBVIOUS
<1>6. QED  BY <1>4, <1>5 DEF Max

\* The next file is one of the files still to visit.
LEMMA NextFileTodo ==
  ASSUME NEW q, q.todo \subseteq Paths, q.todo # {}
  PROVE  NextFile(q) \in q.todo /\ NextFile(q) \in Paths
<1> DEFINE S == Places(q.todo)
<1>1. PICK N \in Nat : DOMAIN Order = 1..N
  BY ChangeSetReviewAssumption DEF ChangeSetReviewAssumption
<1>2. S \in SUBSET (1..N) /\ \A n \in S : Order[n] \in q.todo
  BY <1>1 DEF Places
<1>3. S # {}
  <2>1. PICK p \in q.todo : p \in Paths  OBVIOUS
  <2>2. PICK n \in DOMAIN Order : Order[n] = p  BY <2>1 DEF Paths, ToSet
  <2>3. n \in S  BY <2>1, <2>2 DEF Places
  <2>4. QED  BY <2>3
<1> HIDE DEF S
<1>4. S \in SUBSET Nat  BY <1>2
<1>5. Min(S) \in S /\ Max(S) \in S  BY <1>1, <1>2, <1>3, <1>4, Minimal, Maximal
<1>6. QED  BY <1>2, <1>5 DEF NextFile, S

-----------------------------------------------------------------------------
(* Files and steps.                                                           *)

LEMMA Disjoint ==
  /\ NoFile \notin File /\ Unseen \notin Sights
  /\ \A r \in Request : r # Rest /\ r.phase # "rest"
  /\ Rest.phase = "rest"
<1>1. NoFile \notin File /\ Unseen \notin Sights
  BY ChangeSetReviewAssumption DEF ChangeSetReviewAssumption, Sights, Contents
<1>2. ASSUME NEW r \in Request  PROVE r # Rest /\ r.phase # "rest"
  BY DEF Request, Rest
<1>3. QED  BY <1>1, <1>2 DEF Rest

LEMMA TextNumbers ==
  /\ Original \in 0..Rewritten /\ Rewritten \in 0..Rewritten /\ 1 \in Texts
  /\ \A t \in Texts : t \in 0..Rewritten
  BY ChangeSetReviewAssumption
  DEF ChangeSetReviewAssumption, Original, Rewritten, Texts

LEMMA ReviewedType ==
  ASSUME NEW p, NEW hunk \in Decisions, NEW after \in Proposals
  PROVE  /\ Reviewed(p, hunk, after) \in Contents
         /\ Reviewed(p, hunk, after) # NoFile
              => Reviewed(p, hunk, after) \in File /\ Reviewed(p, hunk, after).own = 0
         /\ p \notin Creates => Reviewed(p, hunk, after) # NoFile
<1> DEFINE t == [h \in Hunks |-> IF PathOf[h] = p /\ hunk[h] = "accepted"
                                 THEN after[h] ELSE Original]
           f == [text |-> t, own |-> 0]
<1>1. t \in [Hunks -> 0..Rewritten]  BY TextNumbers DEF Proposals
<1>2. f \in File /\ f.own = 0 /\ f # NoFile
  <2>1. f \in File /\ f.own = 0
    <3> HIDE DEF t
    <3> QED  BY <1>1 DEF File
  <2>2. QED  BY <2>1, Disjoint
<1>3. Reviewed(p, hunk, after) = f \/ (Reviewed(p, hunk, after) = NoFile /\ p \in Creates)
  BY DEF Reviewed
<1> HIDE DEF f
<1>4. QED  BY <1>2, <1>3, Disjoint DEF Contents

LEMMA SightType ==
  ASSUME TypeOK, NEW p \in Paths
  PROVE  /\ Sight(p) \in Sights /\ Sight(p) # Unseen /\ Sight(p).content = disk[p]
         /\ disk[p] # NoFile => Sight(p).version = version[p]
         /\ disk[p] = NoFile => Sight(p).version = 0
<1>1. disk[p] \in Contents /\ version[p] \in Nat  BY DEF TypeOK
<1>2. (IF disk[p] = NoFile THEN 0 ELSE version[p]) \in Nat  BY <1>1
<1>3. QED  BY <1>1, <1>2, Disjoint DEF Sight, Sights

-----------------------------------------------------------------------------
(* What updates of a request change.                                          *)

\* q2 works on the same copy, for the same purpose.
SameCopy(q2, q) ==
  /\ q2.op = q.op /\ q2.from = q.from /\ q2.hunk = q.hunk /\ q2.after = q.after
  /\ q2.confirm = q.confirm /\ q2.override = q.override /\ q2.complete = q.complete

Looked(q, p)       == [q EXCEPT !.todo = @ \ {p}]
Planned(q, p, s)   == [Looked(q, p) EXCEPT !.plan[p] = s]
Clashed(q, p, s)   == [Looked(q, p) EXCEPT !.clash[p] = s]
Turned(q, files)   == [q EXCEPT !.phase = "apply", !.todo = files]
Wrote(q, p, v)     == [q EXCEPT !.todo = @ \ {p}, !.plan[p].version = v]
Queued(q)          == [q EXCEPT !.phase = "record"]

LEMMA LookedFields ==
  ASSUME NEW q \in Request, NEW p
  PROVE  /\ Looked(q, p) \in Request /\ SameCopy(Looked(q, p), q)
         /\ Looked(q, p).phase = q.phase /\ Looked(q, p).todo = q.todo \ {p}
         /\ Looked(q, p).plan = q.plan /\ Looked(q, p).clash = q.clash
  BY DEF Request, Looked, SameCopy

LEMMA PlannedFields ==
  ASSUME NEW q \in Request, NEW p \in Paths, NEW s \in Steps
  PROVE  /\ Planned(q, p, s) \in Request /\ SameCopy(Planned(q, p, s), q)
         /\ Planned(q, p, s).phase = q.phase /\ Planned(q, p, s).todo = q.todo \ {p}
         /\ Planned(q, p, s).plan = [q.plan EXCEPT ![p] = s]
         /\ Planned(q, p, s).clash = q.clash
<1> DEFINE l == Looked(q, p)
<1>1. l \in Request /\ SameCopy(l, q) /\ l.phase = q.phase /\ l.todo = q.todo \ {p}
      /\ l.plan = q.plan /\ l.clash = q.clash
  BY LookedFields
<1>2. Planned(q, p, s) = [l EXCEPT !.plan = [l.plan EXCEPT ![p] = s]]
  BY DEF Planned
<1>3. [l.plan EXCEPT ![p] = s] \in Plans  BY <1>1 DEF Request, Plans
<1> HIDE DEF l
<1>4. QED  BY <1>1, <1>2, <1>3 DEF Request, SameCopy

LEMMA ClashedFields ==
  ASSUME NEW q \in Request, NEW p \in Paths, NEW s \in Sights
  PROVE  /\ Clashed(q, p, s) \in Request /\ SameCopy(Clashed(q, p, s), q)
         /\ Clashed(q, p, s).phase = q.phase /\ Clashed(q, p, s).todo = q.todo \ {p}
         /\ Clashed(q, p, s).clash = [q.clash EXCEPT ![p] = s]
         /\ Clashed(q, p, s).plan = q.plan
<1> DEFINE l == Looked(q, p)
<1>1. l \in Request /\ SameCopy(l, q) /\ l.phase = q.phase /\ l.todo = q.todo \ {p}
      /\ l.plan = q.plan /\ l.clash = q.clash
  BY LookedFields
<1>2. Clashed(q, p, s) = [l EXCEPT !.clash = [l.clash EXCEPT ![p] = s]]
  BY DEF Clashed
<1>3. [l.clash EXCEPT ![p] = s] \in Seen  BY <1>1 DEF Request, Seen
<1> HIDE DEF l
<1>4. QED  BY <1>1, <1>2, <1>3 DEF Request, SameCopy

LEMMA TurnedFields ==
  ASSUME NEW q \in Request, NEW files \in SUBSET Paths
  PROVE  /\ Turned(q, files) \in Request /\ SameCopy(Turned(q, files), q)
         /\ Turned(q, files).phase = "apply" /\ Turned(q, files).todo = files
         /\ Turned(q, files).plan = q.plan /\ Turned(q, files).clash = q.clash
  BY DEF Request, Turned, SameCopy

LEMMA WroteFields ==
  ASSUME NEW q \in Request, NEW p \in Paths, NEW v \in Nat
  PROVE  /\ Wrote(q, p, v) \in Request /\ SameCopy(Wrote(q, p, v), q)
         /\ Wrote(q, p, v).phase = q.phase /\ Wrote(q, p, v).todo = q.todo \ {p}
         /\ Wrote(q, p, v).plan = [q.plan EXCEPT ![p] = [q.plan[p] EXCEPT !.version = v]]
         /\ Wrote(q, p, v).clash = q.clash
<1> DEFINE s == [q.plan[p] EXCEPT !.version = v]
           l == [q.plan EXCEPT ![p] = s]
<1>1. q.plan \in Plans /\ q.plan[p] \in Steps  BY DEF Request, Plans
<1>2. /\ s \in Steps /\ s.action = q.plan[p].action /\ s.content = q.plan[p].content
      /\ s.version = v
  BY <1>1 DEF Steps
<1> HIDE DEF s
<1>3. l \in Plans  BY <1>1, <1>2 DEF Plans
<1>4. Wrote(q, p, v) = [q EXCEPT !.todo = q.todo \ {p}, !.plan = l]
  BY DEF Wrote, s
<1> HIDE DEF l
<1>5. /\ Wrote(q, p, v) \in Request /\ SameCopy(Wrote(q, p, v), q)
      /\ Wrote(q, p, v).phase = q.phase /\ Wrote(q, p, v).todo = q.todo \ {p}
      /\ Wrote(q, p, v).plan = l /\ Wrote(q, p, v).clash = q.clash
  BY <1>3, <1>4 DEF Request, SameCopy
<1>6. QED  BY <1>5 DEF s, l

LEMMA WroteShape ==
  ASSUME NEW q \in Request, NEW p \in Paths, NEW v \in Nat
  PROVE  /\ Wrote(q, p, v) \in Request /\ SameCopy(Wrote(q, p, v), q)
         /\ Wrote(q, p, v).phase = q.phase /\ Wrote(q, p, v).todo = q.todo \ {p}
         /\ Wrote(q, p, v).clash = q.clash
  BY WroteFields

LEMMA WrotePlan ==
  ASSUME NEW q \in Request, NEW p \in Paths, NEW v \in Nat, NEW x \in Paths
  PROVE  /\ Wrote(q, p, v).plan[x].action = q.plan[x].action
         /\ Wrote(q, p, v).plan[x].content = q.plan[x].content
         /\ x = p => Wrote(q, p, v).plan[x].version = v
         /\ x # p => Wrote(q, p, v).plan[x] = q.plan[x]
<1> DEFINE s == [q.plan[p] EXCEPT !.version = v]
<1>1. q.plan \in Plans /\ q.plan[p] \in Steps  BY DEF Request, Plans
<1>2. s.action = q.plan[p].action /\ s.content = q.plan[p].content /\ s.version = v
  BY <1>1 DEF Steps
<1>3. Wrote(q, p, v).plan = [q.plan EXCEPT ![p] = s]  BY WroteFields
<1> HIDE DEF s
<1>4. QED  BY <1>1, <1>2, <1>3 DEF Plans

LEMMA QueuedFields ==
  ASSUME NEW q \in Request
  PROVE  /\ Queued(q) \in Request /\ SameCopy(Queued(q), q)
         /\ Queued(q).phase = "record" /\ Queued(q).todo = q.todo
         /\ Queued(q).plan = q.plan /\ Queued(q).clash = q.clash
  BY DEF Request, Queued, SameCopy

\* A request starts with nothing planned, seen or confirmed.
LEMMA BeginFields ==
  ASSUME TypeOK,
         NEW op \in {"decide", "editHunk", "editFile", "conflict", "finish", "rollback"},
         NEW phase \in {"prepare", "apply", "revert", "check", "finish", "record"}
  PROVE  /\ Begin(op, phase) \in Request
         /\ Begin(op, phase).op = op /\ Begin(op, phase).phase = phase
         /\ Begin(op, phase).from = cs /\ Begin(op, phase).hunk = cs.hunk
         /\ Begin(op, phase).after = cs.after /\ Begin(op, phase).todo = {}
         /\ Begin(op, phase).plan = [p \in Paths |-> Skip]
         /\ Begin(op, phase).clash = [p \in Paths |-> Unseen]
         /\ Begin(op, phase).confirm = [p \in Paths |-> Unseen]
         /\ Begin(op, phase).override = FALSE /\ Begin(op, phase).complete = FALSE
<1>1. cs \in ChangeSet /\ cs.hunk \in Decisions /\ cs.after \in Proposals
  BY DEF TypeOK, ChangeSet
<1>2. Skip \in Steps  BY DEF Skip, Steps, Contents
<1>3. [p \in Paths |-> Skip] \in Plans /\ [p \in Paths |-> Unseen] \in Seen
  BY <1>2 DEF Plans, Seen
<1>4. QED  BY <1>1, <1>3 DEF Begin, Request

-----------------------------------------------------------------------------
(* What each action does to its request.                                      *)

Ops    == {"decide", "editHunk", "editFile", "conflict", "finish", "rollback"}

\* A request that starts carries the stored ChangeSet and has planned nothing.
Starts(q) ==
  /\ q \in Request /\ q.from = cs
  /\ \A p \in Paths : /\ q.plan[p] = Skip /\ q.clash[p] = Unseen
                      /\ q.confirm[p] \in {shown[p], Unseen}

LEMMA ActiveRequest ==
  ASSUME TypeOK, NEW r \in Requests, req[r].phase # "rest"
  PROVE  req[r] \in Request
  BY Disjoint DEF TypeOK

\* The decisions a request brings.
Decided(A, R) ==
  [h \in Hunks |-> CASE h \in A -> "accepted" [] h \in R -> "rejected"
                      [] OTHER -> cs.hunk[h]]

\* The files they are about.
FilesOf(A, R) == {PathOf[h] : h \in A \cup R}

\* Request q starts to decide.
Decides(q, A, R, override) ==
  /\ Starts(q) /\ q.phase = "prepare" /\ q.op = "decide" /\ q.override = override
  /\ q.hunk = Decided(A, R) /\ q.todo = FilesOf(A, R)
  /\ q.todo # {} /\ q.todo \subseteq Paths

DecideStarts(r, A, R, override) ==
  \E q \in Request : req' = [req EXCEPT ![r] = q] /\ Decides(q, A, R, override)

LEMMA DecideStep ==
  ASSUME TypeOK, NEW r \in Requests, NEW A \in SUBSET Hunks, NEW R \in SUBSET Hunks,
         NEW override \in BOOLEAN, NEW confirm \in BOOLEAN, NEW complete \in BOOLEAN,
         Decide(r, A, R, override, confirm, complete)
  PROVE  DecideStarts(r, A, R, override)
<1> DEFINE hunk == [h \in Hunks |-> CASE h \in A -> "accepted" [] h \in R -> "rejected"
                                      [] OTHER -> cs.hunk[h]]
           todo == {PathOf[h] : h \in A \cup R}
           b == Begin("decide", "prepare")
           conf == IF confirm THEN [p \in Paths |-> IF p \in todo THEN shown[p] ELSE Unseen]
                   ELSE b.confirm
           q == [b EXCEPT !.hunk = hunk, !.todo = todo, !.override = override,
                          !.confirm = conf, !.complete = complete]
<1>1. req' = [req EXCEPT ![r] = q] /\ A \cup R # {}
  BY DEF Decide, Becomes
<1>2. todo \subseteq Paths /\ todo # {}
  BY <1>1, ChangeSetReviewAssumption DEF ChangeSetReviewAssumption
<1>3. hunk \in Decisions
  <2>1. cs.hunk \in Decisions  BY DEF TypeOK, ChangeSet
  <2>2. \A h \in Hunks : cs.hunk[h] \in {"pending", "accepted", "rejected"}
    BY <2>1 DEF Decisions
  <2>3. QED  BY <2>2 DEF Decisions
<1>4. /\ b \in Request /\ b.op = "decide" /\ b.phase = "prepare" /\ b.from = cs
      /\ b.plan = [p \in Paths |-> Skip] /\ b.clash = [p \in Paths |-> Unseen]
      /\ b.confirm = [p \in Paths |-> Unseen]
  BY BeginFields
<1>5. shown \in Seen /\ b.confirm \in Seen  BY <1>4 DEF TypeOK, Seen
<1>6. conf \in Seen /\ \A p \in Paths : conf[p] \in {shown[p], Unseen}
  <2> HIDE DEF b, todo
  <2>1. CASE confirm = TRUE  BY <1>5, <2>1 DEF Seen
  <2>2. CASE confirm = FALSE  BY <1>4, <1>5, <2>2
  <2>3. QED  BY <2>1, <2>2
<1> HIDE DEF b, hunk, conf, todo
<1>7. /\ q \in Request /\ q.phase = "prepare" /\ q.op = "decide" /\ q.override = override
      /\ q.hunk = hunk /\ q.todo = todo /\ q.from = cs /\ q.plan = b.plan
      /\ q.clash = b.clash /\ q.confirm = conf
  BY <1>2, <1>3, <1>4, <1>6 DEF Request
<1> HIDE DEF q
<1>8. Starts(q)  BY <1>4, <1>6, <1>7 DEF Starts
<1>9. hunk = Decided(A, R) /\ todo = FilesOf(A, R)  BY DEF hunk, todo, Decided, FilesOf
<1>10. Decides(q, A, R, override)  BY <1>2, <1>7, <1>8, <1>9 DEF Decides
<1>11. QED  BY <1>1, <1>7, <1>10 DEF DecideStarts

LEMMA EditHunkStep ==
  ASSUME TypeOK, NEW r \in Requests, NEW h \in Hunks, NEW text \in Texts,
         EditHunk(r, h, text)
  PROVE  \E q \in Request :
           /\ req' = [req EXCEPT ![r] = q] /\ Starts(q)
           /\ q.phase = "record" /\ q.op = "editHunk" /\ q.todo = {h}
<1> DEFINE b == Begin("editHunk", "record")
           q == [b EXCEPT !.after[h] = text, !.todo = {h}]
<1>1. /\ b \in Request /\ b.op = "editHunk" /\ b.phase = "record" /\ b.from = cs
      /\ b.plan = [p \in Paths |-> Skip] /\ b.clash = [p \in Paths |-> Unseen]
      /\ b.confirm = [p \in Paths |-> Unseen]
  BY BeginFields
<1>2. req' = [req EXCEPT ![r] = [q EXCEPT !.phase = "record"]]
  BY DEF EditHunk, Queues, Becomes
<1> HIDE DEF b
<1>3. [b.after EXCEPT ![h] = text] \in Proposals  BY <1>1 DEF Request, Proposals
<1>4. q = [b EXCEPT !.after = [b.after EXCEPT ![h] = text], !.todo = {h}]  OBVIOUS
<1>5. /\ q \in Request /\ q.phase = "record" /\ q.op = "editHunk" /\ q.todo = {h}
      /\ q.from = cs /\ q.plan = b.plan /\ q.clash = b.clash /\ q.confirm = b.confirm
  BY <1>1, <1>3, <1>4 DEF Request
<1> HIDE DEF q
<1>6. Queued(q) \in Request /\ Queued(q).phase = "record" /\ SameCopy(Queued(q), q)
      /\ Queued(q).todo = q.todo /\ Queued(q).plan = q.plan /\ Queued(q).clash = q.clash
  BY <1>5, QueuedFields
<1>7. req' = [req EXCEPT ![r] = Queued(q)]  BY <1>2 DEF Queued
<1>8. Starts(Queued(q))  BY <1>1, <1>5, <1>6 DEF Starts, SameCopy
<1>9. QED  BY <1>5, <1>6, <1>7, <1>8 DEF SameCopy

LEMMA EditFileStep ==
  ASSUME TypeOK, NEW r \in Requests, NEW p \in Paths, NEW text \in Texts,
         EditFile(r, p, text)
  PROVE  \E q \in Request :
           /\ req' = [req EXCEPT ![r] = q] /\ Starts(q)
           /\ q.phase = "check" /\ q.op = "editFile" /\ q.todo = {p}
<1> DEFINE b == Begin("editFile", "check")
           a == [h \in Hunks |-> IF PathOf[h] = p THEN text ELSE b.after[h]]
           q == [b EXCEPT !.after = a, !.todo = {p}]
<1>1. /\ b \in Request /\ b.op = "editFile" /\ b.phase = "check" /\ b.from = cs
      /\ b.plan = [x \in Paths |-> Skip] /\ b.clash = [x \in Paths |-> Unseen]
      /\ b.confirm = [x \in Paths |-> Unseen] /\ b.after \in Proposals
  BY BeginFields DEF Request
<1>2. req' = [req EXCEPT ![r] = q]  BY DEF EditFile, Becomes
<1> HIDE DEF b
<1>3. a \in Proposals  BY <1>1 DEF Proposals
<1> HIDE DEF a
<1>4. /\ q \in Request /\ q.phase = "check" /\ q.op = "editFile" /\ q.todo = {p}
      /\ q.from = cs /\ q.plan = b.plan /\ q.clash = b.clash /\ q.confirm = b.confirm
  BY <1>1, <1>3 DEF Request
<1> HIDE DEF q
<1>5. Starts(q)  BY <1>1, <1>4 DEF Starts
<1>6. QED  BY <1>2, <1>4, <1>5

LEMMA RollbackStep ==
  ASSUME TypeOK, NEW r \in Requests, NEW confirm \in BOOLEAN, Rollback(r, confirm)
  PROVE  \E q \in Request :
           /\ req' = [req EXCEPT ![r] = q] /\ Starts(q)
           /\ q.phase = "revert" /\ q.op = "rollback"
           /\ q.todo # {} /\ q.todo \subseteq Paths
<1> DEFINE b == Begin("rollback", "revert")
           todo == {PathOf[h] : h \in {i \in Hunks : cs.hunk[i] = "accepted"}}
           conf == IF confirm THEN shown ELSE b.confirm
           q == [b EXCEPT !.confirm = conf, !.todo = todo]
<1>1. /\ b \in Request /\ b.op = "rollback" /\ b.phase = "revert" /\ b.from = cs
      /\ b.plan = [x \in Paths |-> Skip] /\ b.clash = [x \in Paths |-> Unseen]
      /\ b.confirm = [x \in Paths |-> Unseen] /\ b.confirm \in Seen
  BY BeginFields DEF Request
<1>2. req' = [req EXCEPT ![r] = q] /\ Some(cs.hunk, "accepted")
  BY DEF Rollback, Becomes
<1>3. todo # {} /\ todo \subseteq Paths
  BY <1>2, ChangeSetReviewAssumption DEF ChangeSetReviewAssumption, Some
<1> HIDE DEF b, todo
<1>4. conf \in Seen /\ \A p \in Paths : conf[p] \in {shown[p], Unseen}
  <2>1. CASE confirm = TRUE  BY <2>1 DEF TypeOK
  <2>2. CASE confirm = FALSE  BY <1>1, <2>2
  <2>3. QED  BY <2>1, <2>2
<1> HIDE DEF conf
<1>5. /\ q \in Request /\ q.phase = "revert" /\ q.op = "rollback" /\ q.todo = todo
      /\ q.from = cs /\ q.plan = b.plan /\ q.clash = b.clash /\ q.confirm = conf
  BY <1>1, <1>3, <1>4 DEF Request
<1> HIDE DEF q
<1>6. Starts(q)  BY <1>1, <1>4, <1>5 DEF Starts
<1>7. QED  BY <1>2, <1>3, <1>5, <1>6

LEMMA SomeDecision ==
  ASSUME TypeOK, NEW r, DecideSome(r) \/ AcceptAll(r) \/ RejectAll(r)
  PROVE  \E A, R \in SUBSET Hunks, override, confirm, complete \in BOOLEAN :
           Decide(r, A, R, override, confirm, complete)
<1>1. cs.explicit \in BOOLEAN  BY DEF TypeOK, ChangeSet
<1>2. Pending \in SUBSET Hunks /\ {} \in SUBSET Hunks  BY DEF Pending
<1>3. DecideSome(r) => \E A, R \in SUBSET Hunks, override, confirm \in BOOLEAN :
                         Decide(r, A, R, override, confirm, FALSE)
  BY ChangeSetReviewAssumption DEF ChangeSetReviewAssumption, DecideSome
<1>4. AcceptAll(r) => Decide(r, Pending, {}, FALSE, FALSE, cs.explicit)
  BY DEF AcceptAll
<1>5. RejectAll(r) => Decide(r, {}, Pending, FALSE, FALSE, cs.explicit)
  BY DEF RejectAll
<1>6. FALSE \in BOOLEAN  OBVIOUS
<1>7. QED  BY <1>1, <1>2, <1>3, <1>4, <1>5, <1>6, Zenon

\* Every action that starts a request.
Started(r) ==
  /\ Free(r) /\ UNCHANGED <<disk, version, userEdits, cs, shown>>
  /\ \E q \in Request :
       /\ req' = [req EXCEPT ![r] = q] /\ Starts(q) /\ ShapeOK(q)
       /\ q.phase # "finish" /\ q.phase # "apply"
       /\ IF q.phase = "record" THEN mutations' = Append(mutations, r)
          ELSE UNCHANGED mutations

LEMMA StartStep ==
  ASSUME TypeOK, NEW r \in Requests,
         \/ DecideSome(r) \/ AcceptAll(r) \/ RejectAll(r)
         \/ \E h \in Hunks, text \in Texts : EditHunk(r, h, text)
         \/ \E p \in Paths, text \in Texts : EditFile(r, p, text)
         \/ \E confirm \in Confirms : Rollback(r, confirm)
  PROVE  Started(r)
<1>1. ASSUME NEW A \in SUBSET Hunks, NEW R \in SUBSET Hunks,
             NEW override \in BOOLEAN, NEW confirm \in BOOLEAN, NEW complete \in BOOLEAN,
             Decide(r, A, R, override, confirm, complete)
      PROVE  Started(r)
  <2>1. Free(r) /\ UNCHANGED <<disk, version, userEdits, cs, shown, mutations>>
    BY <1>1 DEF Decide
  <2>2. PICK q \in Request : req' = [req EXCEPT ![r] = q] /\ Decides(q, A, R, override)
    <3>1. DecideStarts(r, A, R, override)  BY <1>1, DecideStep
    <3>2. QED  BY <3>1 DEF DecideStarts
  <2>3. ShapeOK(q)  BY <2>2 DEF ShapeOK, Decides
  <2>4. QED  BY <2>1, <2>2, <2>3 DEF Started, Decides
<1>2. DecideSome(r) \/ AcceptAll(r) \/ RejectAll(r)
      => \E A, R \in SUBSET Hunks, override, confirm, complete \in BOOLEAN :
           Decide(r, A, R, override, confirm, complete)
  BY SomeDecision
<1>3. ASSUME NEW h \in Hunks, NEW text \in Texts, EditHunk(r, h, text)
      PROVE  Started(r)
  <2>1. PICK q \in Request : /\ req' = [req EXCEPT ![r] = q] /\ Starts(q)
                             /\ q.phase = "record" /\ q.op = "editHunk"
    BY <1>3, EditHunkStep
  <2>2. ShapeOK(q)  BY <2>1 DEF ShapeOK
  <2>3. QED  BY <1>3, <2>1, <2>2 DEF EditHunk, Queues, Started
<1>4. ASSUME NEW p \in Paths, NEW text \in Texts, EditFile(r, p, text)
      PROVE  Started(r)
  <2>1. PICK q \in Request : /\ req' = [req EXCEPT ![r] = q] /\ Starts(q)
                             /\ q.phase = "check" /\ q.op = "editFile" /\ q.todo = {p}
    BY <1>4, EditFileStep
  <2>2. ShapeOK(q)  BY <2>1 DEF ShapeOK
  <2>3. QED  BY <1>4, <2>1, <2>2 DEF EditFile, Started
<1>5. ASSUME NEW confirm \in Confirms, Rollback(r, confirm)
      PROVE  Started(r)
  <2>0. confirm \in BOOLEAN
    BY ChangeSetReviewAssumption DEF ChangeSetReviewAssumption
  <2>1. PICK q \in Request : /\ req' = [req EXCEPT ![r] = q] /\ Starts(q)
                             /\ q.phase = "revert" /\ q.op = "rollback"
                             /\ q.todo # {} /\ q.todo \subseteq Paths
    BY <1>5, <2>0, RollbackStep
  <2>2. ShapeOK(q)  BY <2>1 DEF ShapeOK
  <2>3. QED  BY <1>5, <2>1, <2>2 DEF Rollback, Started
<1>6. QED  BY <1>1, <1>2, <1>3, <1>4, <1>5

-----------------------------------------------------------------------------
(* The steps of a request under way.                                          *)

\* Request q looked at file p: nothing to do, a plan, or a clash.
Looks(q, p, j, unchanged, safe, step) ==
  \/ unchanged /\ j = Looked(q, p)
  \/ ~unchanged /\ safe /\ j = Planned(q, p, step)
  \/ ~unchanged /\ ~safe /\ j = Clashed(q, p, Sight(p))

\* It goes on with the next file, with the writes, or ends with a conflict.
Continues(r, j, files) ==
  \/ j.todo # {} /\ req' = [req EXCEPT ![r] = j] /\ UNCHANGED shown
  \/ /\ j.todo = {} /\ \A p \in Paths : j.clash[p] = Unseen
     /\ req' = [req EXCEPT ![r] = Turned(j, files)] /\ UNCHANGED shown
  \/ /\ req' = [req EXCEPT ![r] = Rest]
     /\ shown' = [p \in Paths |-> IF j.clash[p] # Unseen THEN j.clash[p] ELSE shown[p]]

LEMMA JudgedLooks ==
  ASSUME NEW q, NEW p, NEW unchanged \in BOOLEAN, NEW safe \in BOOLEAN, NEW step
  PROVE  Looks(q, p, Judged(q, p, unchanged, safe, step), unchanged, safe, step)
<1>1. CASE unchanged = TRUE
  BY <1>1 DEF Judged, Looks, Looked
<1>2. CASE unchanged = FALSE /\ safe = TRUE
  BY <1>2 DEF Judged, Looks, Looked, Planned
<1>3. CASE unchanged = FALSE /\ safe = FALSE
  BY <1>3 DEF Judged, Looks, Looked, Clashed
<1>4. QED  BY <1>1, <1>2, <1>3

LEMMA LooksFields ==
  ASSUME TypeOK, NEW q \in Request, NEW p \in Paths, NEW unchanged \in BOOLEAN,
         NEW safe \in BOOLEAN, NEW step \in Steps, NEW j,
         Looks(q, p, j, unchanged, safe, step)
  PROVE  /\ j \in Request /\ SameCopy(j, q) /\ j.phase = q.phase /\ j.todo = q.todo \ {p}
         /\ \A x \in Paths : x # p => j.plan[x] = q.plan[x] /\ j.clash[x] = q.clash[x]
         /\ j.plan[p] = IF ~unchanged /\ safe THEN step ELSE q.plan[p]
         /\ j.clash[p] = IF ~unchanged /\ ~safe THEN Sight(p) ELSE q.clash[p]
<1>1. q.plan \in Plans /\ q.clash \in Seen  BY DEF Request
<1>2. CASE unchanged = TRUE /\ j = Looked(q, p)
  BY <1>2, LookedFields
<1>3. CASE unchanged = FALSE /\ safe = TRUE /\ j = Planned(q, p, step)
  <2>1. /\ j \in Request /\ SameCopy(j, q) /\ j.phase = q.phase /\ j.todo = q.todo \ {p}
        /\ j.plan = [q.plan EXCEPT ![p] = step] /\ j.clash = q.clash
    BY <1>3, PlannedFields
  <2>2. QED  BY <1>1, <1>3, <2>1 DEF Plans
<1>4. CASE unchanged = FALSE /\ safe = FALSE /\ j = Clashed(q, p, Sight(p))
  <2>1. /\ j \in Request /\ SameCopy(j, q) /\ j.phase = q.phase /\ j.todo = q.todo \ {p}
        /\ j.clash = [q.clash EXCEPT ![p] = Sight(p)] /\ j.plan = q.plan
    BY <1>4, ClashedFields, SightType
  <2>2. QED  BY <1>1, <1>4, <2>1 DEF Seen
<1>5. QED  BY <1>2, <1>3, <1>4 DEF Looks

LEMMA ProceedsContinues ==
  ASSUME NEW r, NEW j, NEW files, Proceeds(r, j, files)
  PROVE  Continues(r, j, files)
<1>1. CASE j.todo # {}
  BY <1>1 DEF Proceeds, Continues, Becomes
<1>2. CASE j.todo = {} /\ \E p \in Paths : j.clash[p] # Unseen
  BY <1>2 DEF Proceeds, Continues, Becomes, Ends
<1>3. CASE j.todo = {} /\ \A p \in Paths : j.clash[p] = Unseen
  BY <1>3 DEF Proceeds, Continues, Becomes, Turned
<1>4. QED  BY <1>1, <1>2, <1>3

LEMMA StepForType ==
  ASSUME TypeOK, NEW q \in Request, NEW p \in Paths
  PROVE  /\ StepFor(q, p) \in Steps /\ Result(q, p) \in Contents /\ Before(q, p) \in Contents
         /\ StepFor(q, p).content = Result(q, p)
         /\ StepFor(q, p).version = Sight(p).version
         /\ StepFor(q, p).action = "seen" => disk[p] = Result(q, p)
         /\ StepFor(q, p).action = "delete" => Result(q, p) = NoFile /\ disk[p] # NoFile
         /\ StepFor(q, p).action = "create" => Result(q, p) # NoFile /\ disk[p] = NoFile
         /\ StepFor(q, p).action = "save" => Result(q, p) # NoFile /\ disk[p] # NoFile
         /\ StepFor(q, p).action # "skip"
<1> DEFINE a == IF disk[p] = Result(q, p) THEN "seen"
                ELSE CASE Result(q, p) = NoFile -> "delete"
                       [] disk[p] = NoFile -> "create" [] OTHER -> "save"
<1>1. /\ a \in {"skip", "seen", "save", "create", "delete"} /\ a # "skip"
      /\ a = "seen" => disk[p] = Result(q, p)
      /\ a = "delete" => Result(q, p) = NoFile /\ disk[p] # NoFile
      /\ a = "create" => Result(q, p) # NoFile /\ disk[p] = NoFile
      /\ a = "save" => Result(q, p) # NoFile /\ disk[p] # NoFile
  <2>1. CASE disk[p] = Result(q, p)  BY <2>1
  <2>2. CASE disk[p] # Result(q, p) /\ Result(q, p) = NoFile  BY <2>2
  <2>3. CASE disk[p] # Result(q, p) /\ Result(q, p) # NoFile /\ disk[p] = NoFile  BY <2>3
  <2>4. CASE disk[p] # Result(q, p) /\ Result(q, p) # NoFile /\ disk[p] # NoFile  BY <2>4
  <2>5. QED  BY <2>1, <2>2, <2>3, <2>4
<1>2. Result(q, p) \in Contents /\ Before(q, p) \in Contents
  BY ReviewedType DEF Result, Before, Request, ChangeSet
<1>3. Sight(p).version \in Nat  BY SightType DEF Sights
<1>4. StepFor(q, p) = [action |-> a, version |-> Sight(p).version,
                       content |-> Result(q, p), copy |-> Unseen]
  BY DEF StepFor
<1> HIDE DEF a
<1>5. QED  BY <1>1, <1>2, <1>3, <1>4 DEF Steps

\* The files whose decisions a request changes.
Touched(q) == {PathOf[h] : h \in {i \in Hunks : q.hunk[i] # q.from.hunk[i]}}
AcceptedIn(c) == {PathOf[h] : h \in {i \in Hunks : c.hunk[i] = "accepted"}}

LEMMA FileSets ==
  ASSUME NEW q  PROVE Touched(q) \in SUBSET Paths /\ AcceptedIn(q.from) \in SUBSET Paths
  BY ChangeSetReviewAssumption DEF ChangeSetReviewAssumption, Touched, AcceptedIn

LEMMA PrepareStep ==
  ASSUME TypeOK, NEW r \in Requests, ShapeOK(req[r]), Prepare(r)
  PROVE  /\ UNCHANGED <<disk, version, userEdits, cs, mutations>>
         /\ req[r] \in Request /\ req[r].phase = "prepare" /\ req[r].op = "decide"
         /\ \E p \in req[r].todo, j \in Request :
              /\ p \in Paths
              /\ Looks(req[r], p, j, Before(req[r], p) = Result(req[r], p),
                       Matches(req[r], p) \/ Confirmed(req[r], p), StepFor(req[r], p))
              /\ Continues(r, j, Touched(req[r]))
<1> DEFINE q == req[r]
           p == NextFile(q)
           unchanged == Before(q, p) = Result(q, p)
           safe == Matches(q, p) \/ Confirmed(q, p)
           j == Judged(q, p, unchanged, safe, StepFor(q, p))
<1>1. q.phase = "prepare" /\ UNCHANGED <<disk, version, userEdits, cs, mutations>>
      /\ Proceeds(r, j, Touched(q))
  BY DEF Prepare, Touched
<1>2. q \in Request /\ q.op = "decide" /\ q.todo # {} /\ q.todo \subseteq Paths
  BY <1>1, ActiveRequest DEF ShapeOK
<1>3. p \in q.todo /\ p \in Paths  BY <1>2, NextFileTodo
<1> HIDE DEF p
<1>4. StepFor(q, p) \in Steps  BY <1>2, <1>3, StepForType
<1>5. unchanged \in BOOLEAN /\ safe \in BOOLEAN
  BY DEF Matches, Confirmed
<1> HIDE DEF unchanged, safe
<1>6. Looks(q, p, j, unchanged, safe, StepFor(q, p))
  BY <1>5, JudgedLooks
<1> HIDE DEF j
<1>7. j \in Request  BY <1>2, <1>3, <1>4, <1>5, <1>6, LooksFields
<1>8. Continues(r, j, Touched(q))  BY <1>1, ProceedsContinues
<1>9. QED  BY <1>1, <1>2, <1>3, <1>6, <1>7, <1>8 DEF unchanged, safe

\* A step by which request q may take file p back: it keeps users' edits, or it
\* notes the content it was made from, or the reviewer confirmed it.
BackStep(p, content, copy) ==
  [action |-> IF p \in Creates THEN "delete" ELSE "save",
   version |-> version[p], content |-> content, copy |-> copy]

BackOK(q, p, safe, s) ==
  /\ s \in Steps /\ s.version = version[p] /\ s.content \in File
  /\ s.action = IF p \in Creates THEN "delete" ELSE "save"
  /\ safe => s.content.own = disk[p].own \/ s.copy = Sight(p) \/ Confirmed(q, p)

\* Request r plans such a step for one of its files, or clashes with it.
Reverts(r) ==
  \E p \in req[r].todo, j \in Request, safe \in BOOLEAN, s \in Steps :
    /\ p \in Paths /\ disk[p] # NoFile /\ BackOK(req[r], p, safe, s)
    /\ Looks(req[r], p, j, FALSE, safe, s)
    /\ Continues(r, j, AcceptedIn(req[r].from))

LEMMA UndoneType ==
  ASSUME NEW q, NEW c \in File, NEW mine, NEW astray, NEW hit, NEW own \in Nat
  PROVE  /\ Undone(q, c, mine, astray, hit, own) \in File
         /\ Undone(q, c, mine, astray, hit, own).own = own
<1> DEFINE t == [h \in Hunks |->
                   CASE h \in mine \ astray ->
                          IF c.text[h] = q.from.after[h] THEN Original ELSE Rewritten
                     [] h \in hit /\ h \notin mine \ astray -> Rewritten
                     [] OTHER -> c.text[h]]
<1>1. c.text \in [Hunks -> 0..Rewritten]  BY DEF File
<1>2. t \in [Hunks -> 0..Rewritten]
  <2>1. ASSUME NEW h \in Hunks  PROVE t[h] \in 0..Rewritten
    <3>1. c.text[h] \in 0..Rewritten  BY <1>1
    <3>2. CASE h \in mine \ astray  BY <3>2, TextNumbers
    <3>3. CASE h \in hit /\ h \notin mine \ astray  BY <3>3, TextNumbers
    <3>4. CASE h \notin hit /\ h \notin mine \ astray  BY <3>1, <3>4
    <3>5. QED  BY <3>2, <3>3, <3>4
  <2>2. QED  BY <2>1
<1>3. Undone(q, c, mine, astray, hit, own) = [text |-> t, own |-> own]  BY DEF Undone
<1> HIDE DEF t
<1>4. QED  BY <1>2, <1>3 DEF File

LEMMA BackType ==
  ASSUME TypeOK, NEW q, NEW p \in Paths, NEW content \in File,
         NEW copy \in Sights \cup {Unseen}, NEW safe \in BOOLEAN,
         safe => content.own = disk[p].own \/ copy = Sight(p) \/ Confirmed(q, p)
  PROVE  BackOK(q, p, safe, BackStep(p, content, copy))
<1>1. version[p] \in Nat  BY DEF TypeOK
<1>2. BackStep(p, content, copy) \in Steps  BY <1>1 DEF BackStep, Steps, Contents
<1>3. QED  BY <1>2 DEF BackOK, BackStep

\* Such a step is what Reverts says.
LEMMA RevertsWith ==
  ASSUME TypeOK, NEW r \in Requests, req[r] \in Request, NEW p \in req[r].todo,
         p \in Paths, disk[p] # NoFile, NEW safe \in BOOLEAN, NEW s,
         BackOK(req[r], p, safe, s),
         Proceeds(r, Judged(req[r], p, FALSE, safe, s), AcceptedIn(req[r].from))
  PROVE  Reverts(r)
<1> DEFINE no == FALSE
           j == Judged(req[r], p, no, safe, s)
<1>1. s \in Steps  BY DEF BackOK
<1>2. no \in BOOLEAN /\ no = FALSE  OBVIOUS
<1>3. Proceeds(r, j, AcceptedIn(req[r].from))  OBVIOUS
<1> HIDE DEF no
<1>4. Looks(req[r], p, j, no, safe, s)  BY <1>2, JudgedLooks
<1> HIDE DEF j
<1>5. j \in Request  BY <1>1, <1>2, <1>4, LooksFields
<1>6. Continues(r, j, AcceptedIn(req[r].from))  BY <1>3, ProceedsContinues
<1>7. QED  BY <1>1, <1>2, <1>4, <1>5, <1>6 DEF Reverts

LEMMA RevertStep ==
  ASSUME TypeOK, NEW r \in Requests, ShapeOK(req[r]), Revert(r)
  PROVE  /\ UNCHANGED <<disk, version, userEdits, cs, mutations>>
         /\ req[r] \in Request /\ req[r].phase = "revert" /\ req[r].op = "rollback"
         /\ (req' = [req EXCEPT ![r] = Rest] /\ UNCHANGED shown) \/ Reverts(r)
<1> DEFINE q == req[r]
           p == NextFile(q)
           mine == {h \in HunksOf(p) : q.from.hunk[h] = "accepted"}
           undone(astray, hit, own) == Undone(q, disk[p], mine, astray, hit, own)
           copy(own) == IF own = disk[p].own THEN Unseen ELSE Sight(p)
           given(text, own) == [text |-> [h \in Hunks |-> IF h \in HunksOf(p) THEN text[h]
                                                           ELSE disk[p].text[h]],
                                own |-> own]
           owns == {0, disk[p].own}
<1>1. q.phase = "revert" /\ UNCHANGED <<disk, version, userEdits, cs, mutations>>
  BY DEF Revert
<1>2. q \in Request /\ q.op = "rollback" /\ q.todo # {} /\ q.todo \subseteq Paths
  BY <1>1, ActiveRequest DEF ShapeOK
<1>3. p \in q.todo /\ p \in Paths  BY <1>2, NextFileTodo
<1>4. \/ disk[p] = NoFile /\ Ends(r) /\ UNCHANGED shown
      \/ /\ disk[p] # NoFile
         /\ \E astray, hit, own :
              /\ own \in owns
              /\ Proceeds(r, Judged(q, p, FALSE, TRUE,
                                    BackStep(p, undone(astray, hit, own), copy(own))),
                          AcceptedIn(q.from))
      \/ /\ disk[p] # NoFile
         /\ \E text \in [HunksOf(p) -> 0..Rewritten], own \in owns :
              Proceeds(r, Judged(q, p, FALSE, Confirmed(q, p),
                                 BackStep(p, given(text, own), Unseen)),
                       AcceptedIn(q.from))
  BY DEF Revert, AcceptedIn, BackStep
<1>5. CASE disk[p] = NoFile /\ Ends(r) /\ UNCHANGED shown
  BY <1>1, <1>2, <1>5 DEF Ends, Becomes
<1>6. ASSUME disk[p] # NoFile
      PROVE  disk[p] \in File /\ Sight(p) \in Sights /\ \A own \in owns : own \in Nat
  <2>1. disk[p] \in File  BY <1>3, <1>6 DEF TypeOK, Contents
  <2>2. disk[p].own \in Nat  BY <2>1 DEF File
  <2>3. QED  BY <1>3, <2>1, <2>2, SightType
<1> HIDE DEF p, owns
<1>7. ASSUME disk[p] # NoFile, NEW astray, NEW hit, NEW own \in owns,
             Proceeds(r, Judged(q, p, FALSE, TRUE,
                                BackStep(p, undone(astray, hit, own), copy(own))),
                      AcceptedIn(q.from))
      PROVE  Reverts(r)
  <2> DEFINE content == undone(astray, hit, own)
             note == copy(own)
             safe == TRUE
  <2>1. content \in File /\ content.own = own  BY <1>6, <1>7, UndoneType
  <2>2. note \in Sights \cup {Unseen} /\ (own # disk[p].own => note = Sight(p))
    BY <1>6, <1>7
  <2>3. safe \in BOOLEAN /\ safe = TRUE  OBVIOUS
  <2>4. Proceeds(r, Judged(q, p, FALSE, safe, BackStep(p, content, note)),
                 AcceptedIn(q.from))
    BY <1>7
  <2> HIDE DEF content, note, safe
  <2>5. BackOK(q, p, safe, BackStep(p, content, note))
    BY <1>3, <2>1, <2>2, <2>3, BackType
  <2>6. QED  BY <1>2, <1>3, <1>7, <2>3, <2>4, <2>5, RevertsWith
<1>8. ASSUME disk[p] # NoFile, NEW text \in [HunksOf(p) -> 0..Rewritten], NEW own \in owns,
             Proceeds(r, Judged(q, p, FALSE, Confirmed(q, p),
                                BackStep(p, given(text, own), Unseen)),
                      AcceptedIn(q.from))
      PROVE  Reverts(r)
  <2> DEFINE content == given(text, own)
             safe == Confirmed(q, p)
  <2>1. content \in File
    <3> DEFINE t == [h \in Hunks |-> IF h \in HunksOf(p) THEN text[h] ELSE disk[p].text[h]]
    <3>1. t \in [Hunks -> 0..Rewritten]  BY <1>6, <1>8 DEF File
    <3>2. content = [text |-> t, own |-> own]  OBVIOUS
    <3> HIDE DEF t
    <3>3. QED  BY <1>6, <1>8, <3>1, <3>2 DEF File
  <2>2. safe \in BOOLEAN  BY DEF Confirmed
  <2>3. Proceeds(r, Judged(q, p, FALSE, safe, BackStep(p, content, Unseen)),
                 AcceptedIn(q.from))
    BY <1>8
  <2>4. safe => Confirmed(q, p)  OBVIOUS
  <2> HIDE DEF content, safe
  <2>5. BackOK(q, p, safe, BackStep(p, content, Unseen))
    BY <1>3, <2>1, <2>2, <2>4, BackType
  <2>6. QED  BY <1>2, <1>3, <1>8, <2>2, <2>3, <2>5, RevertsWith
<1>9. QED  BY <1>1, <1>2, <1>4, <1>5, <1>7, <1>8

\* It keeps the copy of the request and its other plans.
RevertsTo(r, p, j, safe, s) ==
  /\ disk[p] # NoFile /\ BackOK(req[r], p, safe, s) /\ SameCopy(j, req[r])
  /\ j.phase = req[r].phase /\ j.todo = req[r].todo \ {p}
  /\ \A x \in Paths : x # p => j.plan[x] = req[r].plan[x] /\ j.clash[x] = req[r].clash[x]
  /\ j.plan[p] = IF safe THEN s ELSE req[r].plan[p]
  /\ j.clash[p] = IF ~safe THEN Sight(p) ELSE req[r].clash[p]
  /\ Continues(r, j, AcceptedIn(req[r].from))

LEMMA RevertsFields ==
  ASSUME TypeOK, NEW r \in Requests, req[r] \in Request, Reverts(r)
  PROVE  \E p \in Paths, j \in Request, safe \in BOOLEAN, s \in Steps :
           p \in req[r].todo /\ RevertsTo(r, p, j, safe, s)
<1>1. PICK p \in req[r].todo, j \in Request, safe \in BOOLEAN, s \in Steps :
        /\ p \in Paths /\ disk[p] # NoFile /\ BackOK(req[r], p, safe, s)
        /\ Looks(req[r], p, j, FALSE, safe, s)
        /\ Continues(r, j, AcceptedIn(req[r].from))
  BY DEF Reverts
<1> DEFINE no == FALSE
<1>2. no \in BOOLEAN /\ no = FALSE /\ Looks(req[r], p, j, no, safe, s)  BY <1>1
<1> HIDE DEF no
<1>3. /\ SameCopy(j, req[r]) /\ j.phase = req[r].phase /\ j.todo = req[r].todo \ {p}
      /\ \A x \in Paths : x # p => j.plan[x] = req[r].plan[x] /\ j.clash[x] = req[r].clash[x]
      /\ j.plan[p] = IF ~no /\ safe THEN s ELSE req[r].plan[p]
      /\ j.clash[p] = IF ~no /\ ~safe THEN Sight(p) ELSE req[r].clash[p]
  BY <1>1, <1>2, LooksFields
<1>4. RevertsTo(r, p, j, safe, s)  BY <1>1, <1>2, <1>3 DEF RevertsTo
<1>5. QED  BY <1>1, <1>4

LEMMA RevertsCopy ==
  ASSUME TypeOK, NEW r \in Requests, req[r] \in Request, Reverts(r)
  PROVE  \E p \in Paths, j \in Request :
           /\ SameCopy(j, req[r]) /\ j.phase = req[r].phase /\ j.todo = req[r].todo \ {p}
           /\ Continues(r, j, AcceptedIn(req[r].from))
  BY RevertsFields DEF RevertsTo

-----------------------------------------------------------------------------
(* Writing, recording and ending.                                             *)

\* Request r writes file p.
Writes(r, p, content, v) ==
  /\ disk' = [disk EXCEPT ![p] = content]
  /\ version' = [version EXCEPT ![p] = IF content = NoFile THEN 1 ELSE v]
  /\ req' = [req EXCEPT ![r] = Wrote(req[r], p, v)]

LEMMA ApplyStep ==
  ASSUME TypeOK, NEW r \in Requests, ShapeOK(req[r]), Apply(r)
  PROVE  /\ UNCHANGED <<userEdits, cs, shown, mutations>>
         /\ req[r] \in Request /\ req[r].phase = "apply"
         /\ req[r].op \in {"decide", "rollback"}
         /\ \E p \in req[r].todo :
              /\ p \in Paths
              /\ \/ req' = [req EXCEPT ![r] = Rest] /\ UNCHANGED <<disk, version>>
                 \/ /\ req[r].plan[p].action = "save" /\ disk[p] # NoFile
                    /\ version[p] = req[r].plan[p].version
                    /\ Writes(r, p, req[r].plan[p].content, req[r].plan[p].version + 1)
                 \/ /\ req[r].plan[p].action = "create" /\ disk[p] = NoFile
                    /\ Writes(r, p, req[r].plan[p].content, 1)
                 \/ /\ req[r].plan[p].action = "delete" /\ disk[p] # NoFile
                    /\ Writes(r, p, NoFile, 0)
                 \/ /\ req[r].plan[p].action \in {"skip", "seen"}
                    /\ req' = [req EXCEPT ![r] = Looked(req[r], p)]
                    /\ UNCHANGED <<disk, version>>
<1> DEFINE q == req[r]
           p == NextFile(q)
           step == q.plan[p]
<1>1. /\ q.phase = "apply" /\ q.todo # {} /\ UNCHANGED <<userEdits, cs, shown, mutations>>
  BY DEF Apply
<1>2. q \in Request /\ q.op \in {"decide", "rollback"} /\ q.todo \subseteq Paths
  BY <1>1, ActiveRequest DEF ShapeOK
<1>3. p \in q.todo /\ p \in Paths  BY <1>1, <1>2, NextFileTodo
<1> DEFINE allowed == CASE step.action = "save" -> disk[p] # NoFile /\ version[p] = step.version
                        [] step.action = "create" -> disk[p] = NoFile
                        [] step.action = "delete" -> disk[p] # NoFile
                        [] OTHER -> TRUE
<1>4. \/ ~allowed /\ Ends(r) /\ UNCHANGED <<disk, version>>
      \/ allowed /\ step.action = "save" /\ Applies(r, p, step.content, step.version + 1)
      \/ allowed /\ step.action = "create" /\ Applies(r, p, step.content, 1)
      \/ allowed /\ step.action = "delete" /\ Applies(r, p, NoFile, 0)
      \/ /\ step.action \in {"skip", "seen"}
         /\ Becomes(r, [q EXCEPT !.todo = @ \ {p}])
         /\ UNCHANGED <<disk, version>>
  BY DEF Apply
<1> HIDE DEF p
<1>5. \A content, v : Applies(r, p, content, v) => Writes(r, p, content, v)
  BY DEF Applies, Writes, Becomes, Wrote
<1>6. Becomes(r, [q EXCEPT !.todo = @ \ {p}]) => req' = [req EXCEPT ![r] = Looked(q, p)]
  BY DEF Becomes, Looked
<1>7. /\ allowed /\ step.action = "save" => disk[p] # NoFile /\ version[p] = step.version
      /\ allowed /\ step.action = "create" => disk[p] = NoFile
      /\ allowed /\ step.action = "delete" => disk[p] # NoFile
  OBVIOUS
<1> HIDE DEF allowed
<1>8. Ends(r) => req' = [req EXCEPT ![r] = Rest]  BY DEF Ends, Becomes
<1>9. QED  BY <1>1, <1>2, <1>3, <1>4, <1>5, <1>6, <1>7, <1>8

LEMMA AppliedStep ==
  ASSUME TypeOK, NEW r \in Requests, ShapeOK(req[r]), Applied(r)
  PROVE  /\ UNCHANGED <<disk, version, userEdits, cs, shown>>
         /\ req[r] \in Request /\ req[r].phase = "apply" /\ req[r].todo = {}
         /\ req[r].op \in {"decide", "rollback"}
         /\ req' = [req EXCEPT ![r] = Queued(req[r])]
         /\ mutations' = Append(mutations, r)
<1>1. req[r].phase = "apply"  BY DEF Applied
<1>2. req[r] \in Request  BY <1>1, ActiveRequest
<1>3. QED  BY <1>1, <1>2 DEF Applied, Queues, Queued, Becomes, ShapeOK

\* The edit turns out to conflict with the file.
Conflicted(q) == [q EXCEPT !.op = "conflict"]

LEMMA ConflictedFields ==
  ASSUME NEW q \in Request
  PROVE  /\ Conflicted(q) \in Request /\ Conflicted(q).op = "conflict"
         /\ Conflicted(q).from = q.from /\ Conflicted(q).todo = q.todo
         /\ Conflicted(q).plan = q.plan /\ Conflicted(q).clash = q.clash
         /\ Conflicted(q).confirm = q.confirm /\ Conflicted(q).phase = q.phase
  BY DEF Request, Conflicted

LEMMA CheckFileStep ==
  ASSUME TypeOK, NEW r \in Requests, ShapeOK(req[r]), CheckFile(r)
  PROVE  /\ UNCHANGED <<disk, version, userEdits, cs, shown>>
         /\ req[r] \in Request /\ req[r].phase = "check" /\ req[r].op = "editFile"
         /\ \/ req' = [req EXCEPT ![r] = Rest] /\ UNCHANGED mutations
            \/ /\ \E q \in {req[r], Conflicted(req[r])} : req' = [req EXCEPT ![r] = Queued(q)]
               /\ mutations' = Append(mutations, r)
<1>1. req[r].phase = "check" /\ UNCHANGED <<disk, version, userEdits, cs, shown>>
  BY DEF CheckFile
<1>2. req[r] \in Request /\ req[r].op = "editFile"  BY <1>1, ActiveRequest DEF ShapeOK
<1>3. \A q : Queues(r, q) => /\ req' = [req EXCEPT ![r] = Queued(q)]
                             /\ mutations' = Append(mutations, r)
  BY DEF Queues, Queued, Becomes
<1>4. Ends(r) => req' = [req EXCEPT ![r] = Rest]  BY DEF Ends, Becomes
<1>5. PICK p \in req[r].todo :
        LET none == [h \in Hunks |-> "pending"] IN
        IF p \notin Creates /\ disk[p] = NoFile
        THEN Ends(r) /\ UNCHANGED mutations
        ELSE Queues(r, IF /\ disk[p] = Reviewed(p, none, req[r].after)
                          /\ p \in Creates \/ version[p] = Base
                       THEN req[r] ELSE Conflicted(req[r]))
  BY DEF CheckFile, Conflicted
<1>6. \/ Ends(r) /\ UNCHANGED mutations
      \/ Queues(r, req[r])
      \/ Queues(r, Conflicted(req[r]))
  BY <1>5
<1>7. QED  BY <1>1, <1>2, <1>3, <1>4, <1>6

LEMMA FinishStep ==
  ASSUME TypeOK, NEW r \in Requests, Finish(r)
  PROVE  /\ UNCHANGED <<disk, version, userEdits, cs, shown>>
         /\ cs.explicit /\ (Free(r) \/ req[r].phase = "finish")
         /\ \/ /\ req' = [req EXCEPT ![r] = Rest] /\ UNCHANGED mutations
               /\ req[r].phase = "finish"
            \/ /\ Finishable(cs) /\ mutations' = Append(mutations, r)
               /\ \E q \in Request :
                    /\ req' = [req EXCEPT ![r] = q] /\ Starts(q)
                    /\ q.phase = "record" /\ q.op = "finish" /\ q.todo = {}
<1> DEFINE b == Begin("finish", "record")
<1>1. /\ b \in Request /\ b.op = "finish" /\ b.phase = "record" /\ b.from = cs
      /\ b.plan = [p \in Paths |-> Skip] /\ b.clash = [p \in Paths |-> Unseen]
      /\ b.confirm = [p \in Paths |-> Unseen] /\ b.todo = {}
  BY BeginFields
<1> HIDE DEF b
<1>2. /\ Queued(b) \in Request /\ Queued(b).phase = "record" /\ SameCopy(Queued(b), b)
      /\ Queued(b).todo = b.todo /\ Queued(b).plan = b.plan /\ Queued(b).clash = b.clash
  BY <1>1, QueuedFields
<1>3. Starts(Queued(b)) /\ Queued(b).op = "finish" /\ Queued(b).todo = {}
  BY <1>1, <1>2 DEF Starts, SameCopy
<1>4. Queues(r, b) => /\ req' = [req EXCEPT ![r] = Queued(b)]
                      /\ mutations' = Append(mutations, r)
  BY DEF Queues, Queued, Becomes
<1>5. Ends(r) => req' = [req EXCEPT ![r] = Rest]  BY DEF Ends, Becomes
<1>6. /\ UNCHANGED <<disk, version, userEdits, cs, shown>>
      /\ cs.explicit /\ (Free(r) \/ req[r].phase = "finish")
      /\ \/ Finishable(cs) /\ Queues(r, b)
         \/ req[r].phase = "finish" /\ Ends(r) /\ UNCHANGED mutations
  <2>1. CASE Finishable(cs)  BY <2>1 DEF Finish, b
  <2>2. CASE ~Finishable(cs)  BY <2>2 DEF Finish, b
  <2>3. QED  BY <2>1, <2>2
<1>7. QED  BY <1>2, <1>3, <1>4, <1>5, <1>6

LEMMA FailStep ==
  ASSUME TypeOK, NEW r \in Requests, Fails(r)
  PROVE  /\ UNCHANGED <<disk, version, userEdits, cs, shown, mutations>>
         /\ req[r].phase \in {"prepare", "apply", "revert", "check", "finish"}
         /\ req' = [req EXCEPT ![r] = Rest]
  BY DEF Fails, Ends, Becomes

-----------------------------------------------------------------------------
(* The database mutations.                                                    *)

\* The ChangeSet that the mutation of request q stores.
Recorded(q) ==
  CASE q.op = "decide" -> AfterDecide(q)
    [] q.op = "editHunk" -> AfterEditHunk(q)
    [] q.op = "editFile" -> AfterEditFile(q)
    [] q.op = "conflict" -> [cs EXCEPT !.status = "conflict"]
    [] q.op = "finish" -> AfterFinish(q)
    [] q.op = "rollback" -> AfterRollback

\* Afterwards accept and reject go on to finish the review.
Finishing(q) == [q EXCEPT !.phase = "finish"]

LEMMA FinishingFields ==
  ASSUME NEW q \in Request
  PROVE  /\ Finishing(q) \in Request /\ SameCopy(Finishing(q), q)
         /\ Finishing(q).phase = "finish" /\ Finishing(q).todo = q.todo
         /\ Finishing(q).plan = q.plan /\ Finishing(q).clash = q.clash
  BY DEF Request, Finishing, SameCopy

LEMMA QueueHead ==
  ASSUME TypeOK, QueueOK, mutations # <<>>
  PROVE  /\ Head(mutations) \in Requests /\ req[Head(mutations)].phase = "record"
         /\ req[Head(mutations)] \in Request
<1>1. 1 \in DOMAIN mutations /\ Head(mutations) = mutations[1] /\ mutations[1] \in Requests
  BY DEF TypeOK
<1>2. req[mutations[1]].phase = "record"  BY <1>1 DEF QueueOK
<1>3. QED  BY <1>1, <1>2, ActiveRequest

LEMMA RecordStep ==
  ASSUME TypeOK, QueueOK, Record
  PROVE  \E r \in Requests :
           /\ r = Head(mutations) /\ mutations # <<>> /\ mutations' = Tail(mutations)
           /\ UNCHANGED <<disk, version, userEdits, shown>>
           /\ req[r] \in Request /\ req[r].phase = "record" /\ cs' = Recorded(req[r])
           /\ \/ req' = [req EXCEPT ![r] = Rest]
              \/ req' = [req EXCEPT ![r] = Finishing(req[r])]
<1> DEFINE r == Head(mutations)
<1>1. mutations # <<>> /\ mutations' = Tail(mutations)
      /\ UNCHANGED <<disk, version, userEdits, shown>>
  BY DEF Record
<1>2. r \in Requests /\ req[r].phase = "record" /\ req[r] \in Request
  BY <1>1, QueueHead
<1>3. cs' = Recorded(req[r])  BY DEF Record, Recorded
<1>4. \/ req' = [req EXCEPT ![r] = Rest]
      \/ req' = [req EXCEPT ![r] = Finishing(req[r])]
  BY DEF Record, Becomes, Finishing
<1>5. QED  BY <1>1, <1>2, <1>3, <1>4

LEMMA MutationFailStep ==
  ASSUME TypeOK, QueueOK, MutationFails
  PROVE  \E r \in Requests :
           /\ r = Head(mutations) /\ mutations # <<>> /\ mutations' = Tail(mutations)
           /\ UNCHANGED <<disk, version, userEdits, cs, shown>>
           /\ req[r] \in Request /\ req[r].phase = "record"
           /\ req' = [req EXCEPT ![r] = Rest]
<1>1. QED  BY QueueHead DEF MutationFails, Ends, Becomes

-----------------------------------------------------------------------------
LEMMA AfterDecideFields ==
  ASSUME TypeOK, NEW q \in Request
  PROVE  /\ AfterDecide(q) \in ChangeSet
         /\ AfterDecide(q).explicit = cs.explicit
         /\ AfterDecide(q).hunk = q.hunk /\ AfterDecide(q).after = q.from.after
         /\ \A p \in Paths : AfterDecide(q).expected[p] =
              IF q.plan[p].action = "skip" THEN cs.expected[p]
              ELSE IF q.plan[p].version = 0 THEN Base ELSE q.plan[p].version
         /\ AfterDecide(q).overridden = (cs.overridden \/ q.override)
         /\ AfterDecide(q).raced = cs.raced
         /\ AfterDecide(q).status \in {"proposed", "partially-accepted", "accepted", "rejected"}
         /\ AfterDecide(q).status \in {"accepted", "rejected"}
              => ~Some(q.hunk, "pending") /\ ~cs.explicit
         /\ AfterDecide(q).status = "accepted" <=>
              Some(q.hunk, "accepted") /\ ~Some(q.hunk, "pending") /\ ~cs.explicit
         /\ AfterDecide(q).status = "accepted" =>
              AfterDecide(q).plan = "accepted" /\ AfterDecide(q).resolution = "in-revision"
         /\ AfterDecide(q).status = "rejected" =>
              /\ AfterDecide(q).plan = "cancelled" /\ AfterDecide(q).resolution = "reopened"
              /\ AfterDecide(q).issue = "open"
<1> DEFINE pending == Some(q.hunk, "pending")
           accepted == Some(q.hunk, "accepted")
           open == pending \/ cs.explicit
           decided == \E h \in Hunks : q.hunk[h] # "pending"
           expected == [p \in Paths |-> IF q.plan[p].action = "skip" THEN cs.expected[p]
                                        ELSE IF q.plan[p].version = 0 THEN Base
                                        ELSE q.plan[p].version]
           overridden == cs.overridden \/ q.override
           status == CASE cs.explicit -> IF decided THEN "partially-accepted" ELSE "proposed"
                       [] ~cs.explicit /\ pending -> "partially-accepted"
                       [] ~open -> IF accepted THEN "accepted" ELSE "rejected"
           plan == CASE open -> "waiting-approval"
                     [] OTHER -> IF accepted THEN "accepted" ELSE "cancelled"
           resolution == IF accepted \/ pending THEN "in-revision" ELSE "reopened"
           issue == IF ~open /\ ~accepted THEN "open" ELSE cs.issue
<1>1. AfterDecide(q) =
        [cs EXCEPT !.hunk = q.hunk, !.after = q.from.after, !.expected = expected,
                   !.overridden = overridden, !.status = status, !.plan = plan,
                   !.resolution = resolution, !.issue = issue]
  BY DEF AfterDecide, Issue
<1>2. /\ cs \in ChangeSet /\ q.hunk \in Decisions /\ q.from.after \in Proposals
      /\ q.plan \in Plans /\ cs.expected \in [Paths -> Nat]
      /\ cs.explicit \in BOOLEAN /\ cs.overridden \in BOOLEAN /\ q.override \in BOOLEAN
      /\ cs.issue \in {"planned", "open"}
  BY DEF TypeOK, ChangeSet, Request
<1>3. expected \in [Paths -> Nat]
  <2>1. \A p \in Paths : q.plan[p].version \in Nat  BY <1>2 DEF Plans, Steps
  <2>2. QED  BY <1>2, <2>1 DEF Base
<1>4. /\ status \in {"proposed", "partially-accepted", "accepted", "rejected"}
      /\ status \in {"accepted", "rejected"} => ~pending /\ ~cs.explicit
      /\ status = "accepted" <=> accepted /\ ~pending /\ ~cs.explicit
      /\ status = "accepted" => plan = "accepted" /\ resolution = "in-revision"
      /\ status = "rejected" => plan = "cancelled" /\ resolution = "reopened" /\ issue = "open"
      /\ plan \in {"waiting-approval", "accepted", "cancelled"}
      /\ resolution \in {"in-revision", "reopened"} /\ issue \in {"planned", "open"}
  <2> HIDE DEF decided, accepted, pending
  <2>1. CASE cs.explicit  BY <1>2, <2>1
  <2>2. CASE ~cs.explicit /\ pending  BY <1>2, <2>2
  <2>3. CASE ~cs.explicit /\ ~pending  BY <1>2, <2>3
  <2>4. QED  BY <2>1, <2>2, <2>3
<1>5. overridden \in BOOLEAN  BY <1>2
<1> HIDE DEF expected, status, plan, resolution, issue, overridden
<1>6. /\ AfterDecide(q) \in ChangeSet
      /\ AfterDecide(q).explicit = cs.explicit
      /\ AfterDecide(q).hunk = q.hunk /\ AfterDecide(q).after = q.from.after
      /\ AfterDecide(q).expected = expected /\ AfterDecide(q).overridden = overridden
      /\ AfterDecide(q).raced = cs.raced
      /\ AfterDecide(q).status = status /\ AfterDecide(q).plan = plan
      /\ AfterDecide(q).resolution = resolution /\ AfterDecide(q).issue = issue
  BY <1>1, <1>2, <1>3, <1>4, <1>5 DEF ChangeSet
<1>7. \A p \in Paths : expected[p] =
              IF q.plan[p].action = "skip" THEN cs.expected[p]
              ELSE IF q.plan[p].version = 0 THEN Base ELSE q.plan[p].version
  BY DEF expected
<1>8. QED  BY <1>4, <1>6, <1>7 DEF overridden

LEMMA AfterEditHunkFields ==
  ASSUME TypeOK, NEW q \in Request
  PROVE  /\ AfterEditHunk(q) \in ChangeSet
         /\ AfterEditHunk(q).raced = (cs.raced \/ Overtaken(q))
         /\ AfterEditHunk(q).hunk = cs.hunk /\ AfterEditHunk(q).status = cs.status
         /\ AfterEditHunk(q).expected = cs.expected
         /\ AfterEditHunk(q).overridden = cs.overridden
         /\ AfterEditHunk(q).explicit = cs.explicit
         /\ AfterEditHunk(q).plan = cs.plan /\ AfterEditHunk(q).issue = cs.issue
         /\ AfterEditHunk(q).resolution = cs.resolution
         /\ \A h \in Hunks : h \notin q.todo => AfterEditHunk(q).after[h] = cs.after[h]
<1> DEFINE a == [h \in Hunks |-> IF h \in q.todo THEN q.after[h] ELSE cs.after[h]]
<1>1. cs \in ChangeSet /\ cs.after \in Proposals /\ q.after \in Proposals
  BY DEF TypeOK, ChangeSet, Request
<1>2. a \in Proposals /\ \A h \in Hunks : h \notin q.todo => a[h] = cs.after[h]
  BY <1>1 DEF Proposals
<1> DEFINE raced == cs.raced \/ Overtaken(q)
<1>3. AfterEditHunk(q) = [cs EXCEPT !.after = a, !.raced = raced]  BY DEF AfterEditHunk
<1>4. raced \in BOOLEAN  BY <1>1 DEF ChangeSet
<1> HIDE DEF a, raced
<1>5. /\ AfterEditHunk(q) \in ChangeSet /\ AfterEditHunk(q).after = a
      /\ AfterEditHunk(q).raced = raced
      /\ AfterEditHunk(q).hunk = cs.hunk /\ AfterEditHunk(q).status = cs.status
      /\ AfterEditHunk(q).expected = cs.expected
      /\ AfterEditHunk(q).overridden = cs.overridden
      /\ AfterEditHunk(q).explicit = cs.explicit
      /\ AfterEditHunk(q).plan = cs.plan /\ AfterEditHunk(q).issue = cs.issue
      /\ AfterEditHunk(q).resolution = cs.resolution
  BY <1>1, <1>2, <1>3, <1>4 DEF ChangeSet
<1>6. QED  BY <1>2, <1>5 DEF raced

LEMMA AfterEditFileFields ==
  ASSUME TypeOK, NEW q \in Request
  PROVE  /\ AfterEditFile(q) \in ChangeSet
         /\ AfterEditFile(q).status = cs.status /\ AfterEditFile(q).expected = cs.expected
         /\ AfterEditFile(q).overridden = cs.overridden
         /\ AfterEditFile(q).raced = (cs.raced \/ Overtaken(q))
         /\ AfterEditFile(q).explicit = cs.explicit
         /\ AfterEditFile(q).plan = cs.plan /\ AfterEditFile(q).issue = cs.issue
         /\ AfterEditFile(q).resolution = cs.resolution
         /\ \A h \in Hunks : PathOf[h] \notin q.todo =>
              /\ AfterEditFile(q).after[h] = cs.after[h]
              /\ AfterEditFile(q).hunk[h] = cs.hunk[h]
         /\ \A h \in Hunks : PathOf[h] \in q.todo => AfterEditFile(q).hunk[h] = "pending"
<1> DEFINE mine == {h \in Hunks : PathOf[h] \in q.todo}
           a == [h \in Hunks |-> IF h \in mine THEN q.after[h] ELSE cs.after[h]]
           d == [h \in Hunks |-> IF h \in mine THEN "pending" ELSE cs.hunk[h]]
<1>1. cs \in ChangeSet /\ cs.after \in Proposals /\ q.after \in Proposals
      /\ cs.hunk \in Decisions
  BY DEF TypeOK, ChangeSet, Request
<1>2. /\ a \in Proposals /\ d \in Decisions
      /\ \A h \in Hunks : PathOf[h] \notin q.todo => a[h] = cs.after[h] /\ d[h] = cs.hunk[h]
      /\ \A h \in Hunks : PathOf[h] \in q.todo => d[h] = "pending"
  BY <1>1 DEF Proposals, Decisions
<1> DEFINE raced == cs.raced \/ Overtaken(q)
<1>3. AfterEditFile(q) = [cs EXCEPT !.after = a, !.hunk = d, !.raced = raced]
  BY DEF AfterEditFile
<1>6. raced \in BOOLEAN  BY <1>1 DEF ChangeSet
<1> HIDE DEF a, d, mine, raced
<1> DEFINE c == AfterEditFile(q)
<1> HIDE DEF c
<1>4. /\ c \in ChangeSet /\ c.after = a /\ c.hunk = d /\ c.raced = raced
      /\ c.status = cs.status /\ c.expected = cs.expected /\ c.overridden = cs.overridden
      /\ c.explicit = cs.explicit /\ c.plan = cs.plan /\ c.issue = cs.issue
      /\ c.resolution = cs.resolution
  BY <1>1, <1>2, <1>3, <1>6 DEF ChangeSet, c
<1>5. QED  BY <1>2, <1>4 DEF c, raced

\* A finish, a rollback and a conflict change the status and the linked records.
Closed(c, status) ==
  /\ c \in ChangeSet /\ c.status = status
  /\ c.hunk = cs.hunk /\ c.after = cs.after /\ c.expected = cs.expected
  /\ c.overridden = cs.overridden /\ c.explicit = cs.explicit

LEMMA AfterFinishFields ==
  ASSUME TypeOK, NEW q \in Request
  PROVE  /\ Some(q.from.hunk, "accepted") =>
              /\ Closed(AfterFinish(q), "accepted")
              /\ AfterFinish(q).plan = "accepted" /\ AfterFinish(q).resolution = "in-revision"
         /\ ~Some(q.from.hunk, "accepted") =>
              /\ Closed(AfterFinish(q), "rejected")
              /\ AfterFinish(q).plan = "cancelled" /\ AfterFinish(q).resolution = "reopened"
              /\ AfterFinish(q).issue = "open"
         /\ AfterFinish(q).raced = (cs.raced \/ Overtaken(q))
<1> DEFINE raced == cs.raced \/ Overtaken(q)
<1>1. cs \in ChangeSet /\ raced \in BOOLEAN  BY DEF TypeOK, ChangeSet
<1>2. CASE Some(q.from.hunk, "accepted")
  <2>1. AfterFinish(q) = [cs EXCEPT !.status = "accepted", !.plan = "accepted",
                                    !.resolution = "in-revision", !.raced = raced]
    BY <1>2 DEF AfterFinish
  <2> DEFINE c == AfterFinish(q)
  <2> HIDE DEF c, raced
  <2>2. Closed(c, "accepted") /\ c.plan = "accepted" /\ c.resolution = "in-revision"
        /\ c.raced = raced
    BY <1>1, <2>1 DEF ChangeSet, Closed, c
  <2>3. QED  BY <1>2, <2>2 DEF c, raced
<1>3. CASE ~Some(q.from.hunk, "accepted")
  <2>1. AfterFinish(q) = [cs EXCEPT !.status = "rejected", !.plan = "cancelled",
                                    !.resolution = "reopened", !.issue = "open",
                                    !.raced = raced]
    BY <1>3 DEF AfterFinish
  <2> DEFINE c == AfterFinish(q)
  <2> HIDE DEF c, raced
  <2>2. /\ Closed(c, "rejected") /\ c.plan = "cancelled" /\ c.resolution = "reopened"
        /\ c.issue = "open" /\ c.raced = raced
    BY <1>1, <2>1 DEF ChangeSet, Closed, c
  <2>3. QED  BY <1>3, <2>2 DEF c, raced
<1>4. QED  BY <1>2, <1>3

LEMMA AfterRollbackFields ==
  ASSUME TypeOK
  PROVE  /\ Closed(AfterRollback, "rolled-back")
         /\ AfterRollback.plan = "cancelled" /\ AfterRollback.resolution = "rolled-back"
         /\ AfterRollback.issue = "open" /\ AfterRollback.raced = cs.raced
  BY DEF TypeOK, AfterRollback, ChangeSet, Closed

LEMMA ConflictFields ==
  ASSUME TypeOK
  PROVE  /\ Closed([cs EXCEPT !.status = "conflict"], "conflict")
         /\ [cs EXCEPT !.status = "conflict"].raced = cs.raced
  BY DEF TypeOK, ChangeSet, Closed

LEMMA RecordedCases ==
  ASSUME NEW q \in Request
  PROVE  /\ q.op = "decide" => Recorded(q) = AfterDecide(q)
         /\ q.op = "editHunk" => Recorded(q) = AfterEditHunk(q)
         /\ q.op = "editFile" => Recorded(q) = AfterEditFile(q)
         /\ q.op = "conflict" => Recorded(q) = [cs EXCEPT !.status = "conflict"]
         /\ q.op = "finish" => Recorded(q) = AfterFinish(q)
         /\ q.op = "rollback" => Recorded(q) = AfterRollback
         /\ q.op \in Ops
  BY DEF Recorded, Request, Ops

LEMMA RecordedType ==
  ASSUME TypeOK, NEW q \in Request  PROVE Recorded(q) \in ChangeSet
  BY RecordedCases, AfterDecideFields, AfterEditHunkFields, AfterEditFileFields,
     AfterFinishFields, AfterRollbackFields, ConflictFields DEF Closed, Ops

-----------------------------------------------------------------------------
(* Type correctness.                                                          *)

LEMMA UserFields ==
  ASSUME TypeOK, NEW p \in Paths, UserStep(p)
  PROVE  /\ UNCHANGED <<cs, shown, req, mutations>>
         /\ disk' \in [Paths -> Contents] /\ version' \in [Paths -> Nat] /\ userEdits' \in Nat
         /\ \A x \in Paths : x # p => disk'[x] = disk[x] /\ version'[x] = version[x]
         /\ \/ /\ disk[p] # NoFile /\ disk'[p] \in File /\ version'[p] = version[p] + 1
            \/ /\ UsersRestructure /\ version'[p] = 1
               /\ (disk[p] = NoFile) # (disk'[p] = NoFile)
<1>1. disk \in [Paths -> Contents] /\ version \in [Paths -> Nat] /\ userEdits \in Nat
  BY DEF TypeOK
<1>2. CASE UserSaves(p)
  <2>1. PICK K \in SUBSET HunksOf(p) :
          disk' = [disk EXCEPT ![p] =
                     [text |-> [h \in Hunks |-> IF h \in K THEN Rewritten ELSE @.text[h]],
                      own  |-> userEdits + 1]]
    BY <1>2 DEF UserSaves
  <2> DEFINE t == [h \in Hunks |-> IF h \in K THEN Rewritten ELSE disk[p].text[h]]
             f == [text |-> t, own |-> userEdits + 1]
  <2>2. disk[p] \in File /\ disk[p] # NoFile  BY <1>1, <1>2 DEF UserSaves, Contents
  <2>3. t \in [Hunks -> 0..Rewritten]  BY <2>2, TextNumbers DEF File
  <2>4. disk' = [disk EXCEPT ![p] = f]  BY <2>1
  <2> HIDE DEF t
  <2>5. f \in File  BY <1>1, <2>3 DEF File
  <2> HIDE DEF f
  <2>6. /\ UNCHANGED <<cs, shown, req, mutations>>
        /\ version' = [version EXCEPT ![p] = version[p] + 1] /\ userEdits' = userEdits + 1
    BY <1>2 DEF UserSaves
  <2>7. QED  BY <1>1, <2>2, <2>4, <2>5, <2>6 DEF Contents
<1>3. CASE UserDeletes(p)
  <2>1. /\ UNCHANGED <<userEdits, cs, shown, req, mutations>> /\ UsersRestructure
        /\ disk[p] # NoFile /\ disk' = [disk EXCEPT ![p] = NoFile]
        /\ version' = [version EXCEPT ![p] = 1]
    BY <1>3 DEF UserDeletes
  <2>2. QED  BY <1>1, <2>1 DEF Contents
<1>4. CASE UserCreates(p)
  <2> DEFINE t == [h \in Hunks |-> Original]
             f == [text |-> t, own |-> userEdits + 1]
  <2>1. /\ UNCHANGED <<cs, shown, req, mutations>> /\ UsersRestructure
        /\ disk[p] = NoFile /\ disk' = [disk EXCEPT ![p] = f]
        /\ version' = [version EXCEPT ![p] = 1] /\ userEdits' = userEdits + 1
    BY <1>4 DEF UserCreates
  <2>2. t \in [Hunks -> 0..Rewritten]  BY TextNumbers
  <2> HIDE DEF t
  <2>3. f \in File  BY <1>1, <2>2 DEF File
  <2> HIDE DEF f
  <2>4. QED  BY <1>1, <2>1, <2>3, Disjoint DEF Contents
<1>5. QED  BY <1>2, <1>3, <1>4 DEF UserStep

\* A step of request r gives it a next state of the right shape and queues its
\* mutation when it waits for it.
Moved(r) ==
  \E q \in Request \cup {Rest} :
    /\ req' = [req EXCEPT ![r] = q]
    /\ q # Rest => ShapeOK(q)
    /\ req[r].phase # "record"
    /\ \/ UNCHANGED mutations
       \/ mutations' = Append(mutations, r) /\ q.phase = "record"

LEMMA ContinuesMoves ==
  ASSUME TypeOK, NEW r \in Requests, req[r] \in Request, ShapeOK(req[r]),
         req[r].phase \in {"prepare", "revert"}, req[r].op \in {"decide", "rollback"},
         NEW p, NEW j \in Request, SameCopy(j, req[r]), j.phase = req[r].phase,
         j.todo = req[r].todo \ {p}, NEW files \in SUBSET Paths, Continues(r, j, files),
         UNCHANGED mutations
  PROVE  Moved(r) /\ shown' \in Seen
<1>1. j.op = req[r].op /\ j.clash \in Seen /\ shown \in Seen
  BY DEF SameCopy, Request, TypeOK
<1>2. CASE j.todo # {} /\ req' = [req EXCEPT ![r] = j] /\ UNCHANGED shown
  <2>1. ShapeOK(j)  BY <1>1, <1>2 DEF ShapeOK
  <2>2. QED  BY <1>1, <1>2, <2>1 DEF Moved
<1>3. CASE req' = [req EXCEPT ![r] = Turned(j, files)] /\ UNCHANGED shown
  <2>1. /\ Turned(j, files) \in Request /\ SameCopy(Turned(j, files), j)
        /\ Turned(j, files).phase = "apply" /\ Turned(j, files).todo = files
    BY TurnedFields
  <2>2. ShapeOK(Turned(j, files))  BY <1>1, <2>1 DEF ShapeOK, SameCopy
  <2>3. QED  BY <1>1, <1>3, <2>1, <2>2 DEF Moved
<1>4. CASE /\ req' = [req EXCEPT ![r] = Rest]
           /\ shown' = [x \in Paths |-> IF j.clash[x] # Unseen THEN j.clash[x] ELSE shown[x]]
  <2>1. shown' \in Seen  BY <1>1, <1>4 DEF Seen
  <2>2. QED  BY <1>4, <2>1 DEF Moved
<1>5. QED  BY <1>2, <1>3, <1>4 DEF Continues

LEMMA EndMoves ==
  ASSUME NEW r \in Requests, req' = [req EXCEPT ![r] = Rest], req[r].phase # "record",
         UNCHANGED mutations
  PROVE  Moved(r)
<1>1. Rest \in Request \cup {Rest}  OBVIOUS
<1>2. QED  BY <1>1 DEF Moved

LEMMA QueueMoves ==
  ASSUME NEW r \in Requests, NEW q \in Request, ShapeOK(q), q.phase = "record",
         req' = [req EXCEPT ![r] = q], req[r].phase # "record",
         mutations' = Append(mutations, r)
  PROVE  Moved(r)
  BY DEF Moved

LEMMA WriteTypes ==
  ASSUME TypeOK, NEW r \in Requests, req[r] \in Request, ShapeOK(req[r]),
         req[r].phase = "apply", NEW p \in Paths, NEW content \in Contents, NEW v \in Nat,
         Writes(r, p, content, v), UNCHANGED mutations
  PROVE  /\ Moved(r) /\ disk' \in [Paths -> Contents] /\ version' \in [Paths -> Nat]
<1>1. disk \in [Paths -> Contents] /\ version \in [Paths -> Nat]  BY DEF TypeOK
<1>2. disk' = [disk EXCEPT ![p] = content] /\ disk' \in [Paths -> Contents]
  BY <1>1 DEF Writes
<1>3. (IF content = NoFile THEN 1 ELSE v) \in Nat  OBVIOUS
<1>4. version' \in [Paths -> Nat]  BY <1>1, <1>3 DEF Writes
<1>5. /\ Wrote(req[r], p, v) \in Request /\ SameCopy(Wrote(req[r], p, v), req[r])
      /\ Wrote(req[r], p, v).phase = "apply"
      /\ Wrote(req[r], p, v).todo = req[r].todo \ {p}
  BY WroteShape
<1>6. ShapeOK(Wrote(req[r], p, v))  BY <1>5 DEF ShapeOK, SameCopy
<1>7. req' = [req EXCEPT ![r] = Wrote(req[r], p, v)]  BY DEF Writes
<1>8. Moved(r)
  <2> DEFINE q == Wrote(req[r], p, v)
  <2>1. q \in Request /\ ShapeOK(q) /\ req' = [req EXCEPT ![r] = q]  BY <1>5, <1>6, <1>7
  <2> HIDE DEF q
  <2>2. QED  BY <2>1 DEF Moved
<1>9. QED  BY <1>2, <1>4, <1>8

\* Files and versions stay typed, and the ChangeSet is left to the mutations.
Typed ==
  /\ disk' \in [Paths -> Contents] /\ version' \in [Paths -> Nat]
  /\ shown' \in Seen /\ UNCHANGED <<userEdits, cs>>

LEMMA RequestMoves ==
  ASSUME TypeOK, Shapes, NEW r \in Requests, RequestStep(r)
  PROVE  Moved(r) /\ Typed
<1>1. req[r].phase # "rest" => ShapeOK(req[r]) /\ req[r] \in Request
  BY ActiveRequest DEF Shapes, Active, Free
<1>2. /\ disk \in [Paths -> Contents] /\ version \in [Paths -> Nat] /\ shown \in Seen
  BY DEF TypeOK
<1>3. ASSUME Started(r)  PROVE Moved(r) /\ Typed
  <2>1. req[r].phase = "rest" /\ UNCHANGED <<disk, version, userEdits, cs, shown>>
    BY <1>3 DEF Started, Free
  <2>2. PICK q \in Request :
          /\ req' = [req EXCEPT ![r] = q] /\ ShapeOK(q)
          /\ IF q.phase = "record" THEN mutations' = Append(mutations, r)
             ELSE UNCHANGED mutations
    BY <1>3 DEF Started
  <2>3. Moved(r)  BY <2>1, <2>2 DEF Moved
  <2>4. QED  BY <1>2, <2>1, <2>3 DEF Typed
<1>4. CASE Prepare(r)
  <2>1. req[r].phase = "prepare"  BY <1>4 DEF Prepare
  <2>2. /\ UNCHANGED <<disk, version, userEdits, cs, mutations>>
        /\ req[r] \in Request /\ req[r].op = "decide"
        /\ \E p \in req[r].todo, j \in Request :
             /\ p \in Paths
             /\ Looks(req[r], p, j, Before(req[r], p) = Result(req[r], p),
                      Matches(req[r], p) \/ Confirmed(req[r], p), StepFor(req[r], p))
             /\ Continues(r, j, Touched(req[r]))
    BY <1>1, <1>4, <2>1, PrepareStep
  <2>3. PICK p \in Paths, j \in Request :
             /\ Looks(req[r], p, j, Before(req[r], p) = Result(req[r], p),
                      Matches(req[r], p) \/ Confirmed(req[r], p), StepFor(req[r], p))
             /\ Continues(r, j, Touched(req[r]))
    BY <2>2
  <2> DEFINE unchanged == Before(req[r], p) = Result(req[r], p)
             safe == Matches(req[r], p) \/ Confirmed(req[r], p)
  <2>4. StepFor(req[r], p) \in Steps  BY <2>2, StepForType
  <2>5. unchanged \in BOOLEAN /\ safe \in BOOLEAN  BY DEF Matches, Confirmed
  <2>6. Looks(req[r], p, j, unchanged, safe, StepFor(req[r], p))  BY <2>3
  <2> HIDE DEF unchanged, safe
  <2>7. SameCopy(j, req[r]) /\ j.phase = req[r].phase /\ j.todo = req[r].todo \ {p}
    BY <2>2, <2>4, <2>5, <2>6, LooksFields
  <2>8. Touched(req[r]) \in SUBSET Paths  BY FileSets
  <2>9. Moved(r) /\ shown' \in Seen
    BY <1>1, <2>1, <2>2, <2>3, <2>7, <2>8, ContinuesMoves
  <2>10. QED  BY <1>2, <2>2, <2>9 DEF Typed
<1>5. CASE Revert(r)
  <2>1. req[r].phase = "revert"  BY <1>5 DEF Revert
  <2>2. /\ UNCHANGED <<disk, version, userEdits, cs, mutations>>
        /\ req[r] \in Request /\ req[r].op = "rollback"
        /\ (req' = [req EXCEPT ![r] = Rest] /\ UNCHANGED shown) \/ Reverts(r)
    BY <1>1, <1>5, <2>1, RevertStep
  <2>3. CASE req' = [req EXCEPT ![r] = Rest] /\ UNCHANGED shown
    BY <1>2, <2>1, <2>2, <2>3, EndMoves DEF Typed
  <2>4. CASE Reverts(r)
    <3>1. PICK p \in Paths, j \in Request :
            /\ SameCopy(j, req[r]) /\ j.phase = req[r].phase /\ j.todo = req[r].todo \ {p}
            /\ Continues(r, j, AcceptedIn(req[r].from))
      BY <2>2, <2>4, RevertsCopy
    <3>2. AcceptedIn(req[r].from) \in SUBSET Paths  BY FileSets
    <3>3. Moved(r) /\ shown' \in Seen
      BY <1>1, <2>1, <2>2, <3>1, <3>2, ContinuesMoves
    <3>4. QED  BY <1>2, <2>2, <3>3 DEF Typed
  <2>5. QED  BY <2>2, <2>3, <2>4
<1>6. CASE Apply(r)
  <2>1. req[r].phase = "apply"  BY <1>6 DEF Apply
  <2>2. /\ UNCHANGED <<userEdits, cs, shown, mutations>>
        /\ req[r] \in Request /\ ShapeOK(req[r])
        /\ \E p \in req[r].todo :
             /\ p \in Paths
             /\ \/ req' = [req EXCEPT ![r] = Rest] /\ UNCHANGED <<disk, version>>
                \/ Writes(r, p, req[r].plan[p].content, req[r].plan[p].version + 1)
                \/ Writes(r, p, req[r].plan[p].content, 1)
                \/ Writes(r, p, NoFile, 0)
                \/ /\ req' = [req EXCEPT ![r] = Looked(req[r], p)]
                   /\ UNCHANGED <<disk, version>>
    <3>1. ShapeOK(req[r])  BY <1>1, <2>1
    <3>2. QED  BY <1>6, <3>1, ApplyStep
  <2>3. PICK p \in Paths :
             \/ req' = [req EXCEPT ![r] = Rest] /\ UNCHANGED <<disk, version>>
             \/ Writes(r, p, req[r].plan[p].content, req[r].plan[p].version + 1)
             \/ Writes(r, p, req[r].plan[p].content, 1)
             \/ Writes(r, p, NoFile, 0)
             \/ /\ req' = [req EXCEPT ![r] = Looked(req[r], p)]
                /\ UNCHANGED <<disk, version>>
    BY <2>2
  <2>4. /\ req[r].plan[p].content \in Contents /\ req[r].plan[p].version + 1 \in Nat
        /\ 0 \in Nat /\ 1 \in Nat /\ NoFile \in Contents
    BY <2>2 DEF Request, Plans, Steps, Contents
  <2>5. ASSUME NEW content \in Contents, NEW v \in Nat, Writes(r, p, content, v)
        PROVE  Moved(r) /\ Typed
    BY <1>2, <2>1, <2>2, <2>5, WriteTypes DEF Typed
  <2>6. CASE req' = [req EXCEPT ![r] = Rest] /\ UNCHANGED <<disk, version>>
    BY <1>2, <2>1, <2>2, <2>6, EndMoves DEF Typed
  <2>7. CASE req' = [req EXCEPT ![r] = Looked(req[r], p)] /\ UNCHANGED <<disk, version>>
    <3> DEFINE q == Looked(req[r], p)
    <3>1. q \in Request /\ SameCopy(q, req[r]) /\ q.phase = "apply"
          /\ q.todo = req[r].todo \ {p}
      BY <2>1, <2>2, LookedFields
    <3>2. req' = [req EXCEPT ![r] = q]  BY <2>7
    <3> HIDE DEF q
    <3>3. ShapeOK(q)  BY <2>1, <2>2, <3>1 DEF ShapeOK, SameCopy
    <3>4. Moved(r)  BY <2>1, <2>2, <3>1, <3>2, <3>3 DEF Moved
    <3>5. QED  BY <1>2, <2>2, <2>7, <3>4 DEF Typed
  <2>8. QED  BY <2>3, <2>4, <2>5, <2>6, <2>7
<1>7. CASE Applied(r)
  <2>1. req[r].phase = "apply"  BY <1>7 DEF Applied
  <2>2. /\ UNCHANGED <<disk, version, userEdits, cs, shown>>
        /\ req[r] \in Request /\ ShapeOK(req[r])
        /\ req' = [req EXCEPT ![r] = Queued(req[r])]
        /\ mutations' = Append(mutations, r)
    BY <1>1, <1>7, <2>1, AppliedStep
  <2> DEFINE q == Queued(req[r])
  <2>3. q \in Request /\ SameCopy(q, req[r]) /\ q.phase = "record" /\ q.todo = req[r].todo
    BY <2>2, QueuedFields
  <2>4. req' = [req EXCEPT ![r] = q]  BY <2>2
  <2> HIDE DEF q
  <2>5. ShapeOK(q)  BY <2>2, <2>3 DEF ShapeOK, SameCopy
  <2>6. Moved(r)  BY <2>1, <2>2, <2>3, <2>4, <2>5, QueueMoves
  <2>7. QED  BY <1>2, <2>2, <2>6 DEF Typed
<1>8. CASE CheckFile(r)
  <2>1. req[r].phase = "check"  BY <1>8 DEF CheckFile
  <2>2. /\ UNCHANGED <<disk, version, userEdits, cs, shown>>
        /\ req[r] \in Request /\ ShapeOK(req[r]) /\ req[r].op = "editFile"
        /\ \/ req' = [req EXCEPT ![r] = Rest] /\ UNCHANGED mutations
           \/ /\ \E q \in {req[r], Conflicted(req[r])} : req' = [req EXCEPT ![r] = Queued(q)]
              /\ mutations' = Append(mutations, r)
    BY <1>1, <1>8, <2>1, CheckFileStep
  <2>3. CASE req' = [req EXCEPT ![r] = Rest] /\ UNCHANGED mutations
    BY <1>2, <2>1, <2>2, <2>3, EndMoves DEF Typed
  <2>4. ASSUME NEW c \in {req[r], Conflicted(req[r])}, req' = [req EXCEPT ![r] = Queued(c)],
               mutations' = Append(mutations, r)
        PROVE  Moved(r) /\ Typed
    <3>1. c \in Request /\ c.op # "editHunk" /\ c.todo = req[r].todo
      BY <2>2, ConflictedFields
    <3> DEFINE q == Queued(c)
    <3>2. q \in Request /\ SameCopy(q, c) /\ q.phase = "record" /\ q.todo = req[r].todo
      BY <3>1, QueuedFields
    <3>3. req' = [req EXCEPT ![r] = q]  BY <2>4
    <3> HIDE DEF q
    <3>4. ShapeOK(q)  BY <2>2, <3>1, <3>2 DEF ShapeOK, SameCopy
    <3>5. Moved(r)  BY <2>1, <2>4, <3>2, <3>3, <3>4, QueueMoves
    <3>6. QED  BY <1>2, <2>2, <3>5 DEF Typed
  <2>5. QED  BY <2>2, <2>3, <2>4
<1>9. CASE Finish(r)
  <2>1. /\ UNCHANGED <<disk, version, userEdits, cs, shown>>
        /\ req[r].phase \in {"rest", "finish"}
        /\ \/ req' = [req EXCEPT ![r] = Rest] /\ UNCHANGED mutations
           \/ /\ mutations' = Append(mutations, r)
              /\ \E q \in Request : /\ req' = [req EXCEPT ![r] = q]
                                    /\ q.phase = "record" /\ q.op = "finish" /\ q.todo = {}
    BY <1>9, FinishStep DEF Free
  <2>2. CASE req' = [req EXCEPT ![r] = Rest] /\ UNCHANGED mutations
    BY <1>2, <2>1, <2>2, EndMoves DEF Typed
  <2>3. ASSUME NEW q \in Request, req' = [req EXCEPT ![r] = q],
               q.phase = "record", q.op = "finish", q.todo = {}, mutations' = Append(mutations, r)
        PROVE  Moved(r) /\ Typed
    <3>1. ShapeOK(q)  BY <2>3 DEF ShapeOK
    <3>2. Moved(r)  BY <2>1, <2>3, <3>1, QueueMoves
    <3>3. QED  BY <1>2, <2>1, <3>2 DEF Typed
  <2>4. QED  BY <2>1, <2>2, <2>3
<1>10. CASE Fails(r)
  BY <1>2, <1>10, FailStep, EndMoves DEF Typed
<1>11. QED
  BY <1>3, <1>4, <1>5, <1>6, <1>7, <1>8, <1>9, <1>10, StartStep DEF RequestStep

LEMMA MovedShapes ==
  ASSUME TypeOK, Shapes, NEW r \in Requests, Moved(r)
  PROVE  /\ req' \in [Requests -> Request \cup {Rest}] /\ mutations' \in Seq(Requests)
         /\ Shapes'
<1>1. PICK q \in Request \cup {Rest} :
        /\ req' = [req EXCEPT ![r] = q]
        /\ q # Rest => ShapeOK(q)
        /\ req[r].phase # "record"
        /\ \/ UNCHANGED mutations
           \/ mutations' = Append(mutations, r) /\ q.phase = "record"
  BY DEF Moved
<1>2. req \in [Requests -> Request \cup {Rest}] /\ mutations \in Seq(Requests)
  BY DEF TypeOK
<1>3. /\ req' \in [Requests -> Request \cup {Rest}] /\ req'[r] = q
      /\ \A s \in Requests : s # r => req'[s] = req[s]
  BY <1>1, <1>2
<1>4. mutations' \in Seq(Requests)
  <2>1. CASE UNCHANGED mutations  BY <1>2, <2>1
  <2>2. CASE mutations' = Append(mutations, r)  BY <1>2, <2>2
  <2>3. QED  BY <1>1, <2>1, <2>2
<1>5. \A n \in DOMAIN mutations : mutations[n] \in Requests /\ mutations[n] # r
  BY <1>1, <1>2 DEF Shapes, QueueOK
<1>6. QueueOK'
  <2>1. CASE UNCHANGED mutations
    BY <1>3, <1>5, <2>1 DEF Shapes, QueueOK
  <2>2. CASE mutations' = Append(mutations, r) /\ q.phase = "record"
    <3>1. DOMAIN mutations' = DOMAIN mutations \cup {Len(mutations) + 1}
      <4>1. DOMAIN mutations' = 1..(Len(mutations) + 1) /\ DOMAIN mutations = 1..Len(mutations)
            /\ Len(mutations) \in Nat
        BY <1>2, <2>2
      <4>2. QED  BY <4>1
    <3>2. /\ \A n \in DOMAIN mutations : mutations'[n] = mutations[n]
          /\ mutations'[Len(mutations) + 1] = r
      BY <1>2, <2>2
    <3>3. ASSUME NEW m \in DOMAIN mutations', NEW n \in DOMAIN mutations',
                 mutations'[m] = mutations'[n]
          PROVE  m = n
      BY <1>5, <3>1, <3>2, <3>3 DEF Shapes, QueueOK
    <3>4. ASSUME NEW n \in DOMAIN mutations'  PROVE req'[mutations'[n]].phase = "record"
      BY <1>3, <1>5, <2>2, <3>1, <3>2 DEF Shapes, QueueOK
    <3>5. QED  BY <3>3, <3>4 DEF QueueOK
  <2>3. QED  BY <1>1, <2>1, <2>2
<1>7. ASSUME NEW s \in Requests, req'[s].phase # "rest"  PROVE ShapeOK(req'[s])
  <2>1. CASE s = r
    <3>1. q # Rest  BY <1>3, <1>7, <2>1, Disjoint
    <3>2. QED  BY <1>1, <1>3, <2>1, <3>1
  <2>2. CASE s # r
    BY <1>3, <1>7, <2>2 DEF Shapes, Active, Free
  <2>3. QED  BY <2>1, <2>2
<1>8. QED  BY <1>3, <1>4, <1>6, <1>7 DEF Shapes, Active, Free

\* The head of the queue leaves it and is no longer recorded.
LEMMA HeadShapes ==
  ASSUME TypeOK, Shapes, mutations # <<>>, mutations' = Tail(mutations),
         NEW r \in Requests, r = Head(mutations),
         NEW q \in Request \cup {Rest}, q # Rest => ShapeOK(q), req' = [req EXCEPT ![r] = q]
  PROVE  /\ req' \in [Requests -> Request \cup {Rest}] /\ mutations' \in Seq(Requests)
         /\ Shapes'
<1>1. req \in [Requests -> Request \cup {Rest}] /\ mutations \in Seq(Requests)
  BY DEF TypeOK
<1>2. /\ req' \in [Requests -> Request \cup {Rest}] /\ req'[r] = q
      /\ \A s \in Requests : s # r => req'[s] = req[s]
  BY <1>1
<1>3. mutations' \in Seq(Requests)  BY <1>1
<1>4. /\ \A n \in DOMAIN mutations' : n + 1 \in DOMAIN mutations /\ mutations'[n] = mutations[n + 1]
                                      /\ n \in Nat \ {0}
      /\ 1 \in DOMAIN mutations /\ mutations[1] = r
  BY <1>1
<1>5. ASSUME NEW m \in DOMAIN mutations', NEW n \in DOMAIN mutations',
             mutations'[m] = mutations'[n]
      PROVE  m = n
  <2>1. m + 1 = n + 1  BY <1>4, <1>5 DEF Shapes, QueueOK
  <2>2. QED  BY <1>4, <2>1
<1>6. ASSUME NEW n \in DOMAIN mutations'  PROVE req'[mutations'[n]].phase = "record"
  <2>1. n + 1 \in DOMAIN mutations /\ mutations'[n] = mutations[n + 1] /\ n + 1 # 1
    BY <1>4
  <2>2. mutations[n + 1] # r  BY <1>4, <2>1 DEF Shapes, QueueOK
  <2>3. mutations[n + 1] \in Requests  BY <1>1, <2>1
  <2>4. QED  BY <1>2, <2>1, <2>2, <2>3 DEF Shapes, QueueOK
<1>7. ASSUME NEW s \in Requests, req'[s].phase # "rest"  PROVE ShapeOK(req'[s])
  <2>1. CASE s = r
    <3>1. q # Rest  BY <1>2, <1>7, <2>1, Disjoint
    <3>2. QED  BY <1>2, <2>1, <3>1
  <2>2. CASE s # r
    BY <1>2, <1>7, <2>2 DEF Shapes, Active, Free
  <2>3. QED  BY <2>1, <2>2
<1>8. QED  BY <1>2, <1>3, <1>5, <1>6, <1>7 DEF Shapes, QueueOK, Active, Free

-----------------------------------------------------------------------------
LEMMA InitTypes ==
  ASSUME Init
  PROVE  /\ TypeOK /\ Shapes /\ cs.status = "proposed" /\ shown = [p \in Paths |-> Unseen]
         /\ cs.hunk = [h \in Hunks |-> "pending"] /\ cs.expected = [p \in Paths |-> Base]
         /\ version = [p \in Paths |-> 1] /\ req = [r \in Requests |-> Rest]
         /\ disk = [p \in Paths |-> Reviewed(p, cs.hunk, cs.after)]
<1> DEFINE hunk == [h \in Hunks |-> "pending"]
           after == [h \in Hunks |-> 1]
           expected == [p \in Paths |-> Base]
<1>1. PICK explicit \in Modes : cs =
          [explicit |-> explicit, status |-> "proposed", hunk |-> hunk,
           after |-> after, expected |-> expected,
           overridden |-> FALSE, plan |-> "waiting-approval",
           resolution |-> "planned", issue |-> "planned", raced |-> FALSE]
  BY DEF Init
<1>2. /\ disk = [p \in Paths |-> Reviewed(p, hunk, after)]
      /\ version = [p \in Paths |-> 1] /\ userEdits = 0
      /\ shown = [p \in Paths |-> Unseen]
      /\ req = [r \in Requests |-> Rest] /\ mutations = <<>>
  BY DEF Init
<1>3. explicit \in BOOLEAN  BY ChangeSetReviewAssumption DEF ChangeSetReviewAssumption
<1>4. hunk \in Decisions /\ after \in Proposals /\ expected \in [Paths -> Nat]
  BY TextNumbers DEF Decisions, Proposals, Base
<1> HIDE DEF hunk, after, expected
<1>5. cs \in ChangeSet /\ cs.hunk = hunk /\ cs.after = after /\ cs.expected = expected
      /\ cs.status = "proposed" /\ cs.raced = FALSE
  BY <1>1, <1>3, <1>4 DEF ChangeSet
<1>6. disk \in [Paths -> Contents]  BY <1>2, <1>4, ReviewedType
<1>7. TypeOK  BY <1>2, <1>5, <1>6 DEF TypeOK, Seen
<1>8. \A r \in Requests : req[r].phase = "rest"  BY <1>2, Disjoint
<1>9. Shapes
  <2>1. DOMAIN mutations = {}  BY <1>2
  <2>2. QED  BY <1>8, <2>1 DEF Shapes, QueueOK, Active, Free
<1>10. QED  BY <1>2, <1>5, <1>7, <1>9 DEF hunk, expected

LEMMA NextTypes ==
  ASSUME TypeOK, Shapes, [Next]_vars
  PROVE  TypeOK' /\ Shapes'
<1>1. ASSUME NEW p \in Paths, UserStep(p)  PROVE TypeOK' /\ Shapes'
  <2>1. /\ UNCHANGED <<cs, shown, req, mutations>>
        /\ disk' \in [Paths -> Contents] /\ version' \in [Paths -> Nat] /\ userEdits' \in Nat
    BY <1>1, UserFields
  <2>2. TypeOK'  BY <2>1 DEF TypeOK
  <2>3. Shapes'  BY <2>1 DEF Shapes, QueueOK, Active, Free
  <2>4. QED  BY <2>2, <2>3
<1>2. ASSUME NEW r \in Requests, RequestStep(r)  PROVE TypeOK' /\ Shapes'
  <2>1. Moved(r) /\ Typed  BY <1>2, RequestMoves
  <2>2. /\ req' \in [Requests -> Request \cup {Rest}] /\ mutations' \in Seq(Requests)
        /\ Shapes'
    BY <2>1, MovedShapes
  <2>3. TypeOK'  BY <2>1, <2>2 DEF TypeOK, Typed
  <2>4. QED  BY <2>2, <2>3
<1>3. CASE Record
  <2>1. QueueOK  BY DEF Shapes
  <2>2. PICK r \in Requests :
           /\ r = Head(mutations) /\ mutations # <<>> /\ mutations' = Tail(mutations)
           /\ UNCHANGED <<disk, version, userEdits, shown>>
           /\ req[r] \in Request /\ req[r].phase = "record" /\ cs' = Recorded(req[r])
           /\ \/ req' = [req EXCEPT ![r] = Rest]
              \/ req' = [req EXCEPT ![r] = Finishing(req[r])]
    BY <1>3, <2>1, RecordStep
  <2>3. cs' \in ChangeSet  BY <2>2, RecordedType
  <2>4. ShapeOK(req[r])  BY <2>2 DEF Shapes, Active, Free
  <2>5. ASSUME NEW q \in Request \cup {Rest}, q # Rest => ShapeOK(q),
               req' = [req EXCEPT ![r] = q]
        PROVE  TypeOK' /\ Shapes'
    <3>1. /\ req' \in [Requests -> Request \cup {Rest}] /\ mutations' \in Seq(Requests)
          /\ Shapes'
      BY <2>2, <2>5, HeadShapes
    <3>2. TypeOK'  BY <2>2, <2>3, <3>1 DEF TypeOK
    <3>3. QED  BY <3>1, <3>2
  <2>6. CASE req' = [req EXCEPT ![r] = Rest]  BY <2>5, <2>6
  <2>7. CASE req' = [req EXCEPT ![r] = Finishing(req[r])]
    <3> DEFINE q == Finishing(req[r])
    <3>1. q \in Request /\ SameCopy(q, req[r]) /\ q.phase = "finish" /\ q.todo = req[r].todo
      BY <2>2, FinishingFields
    <3>2. req' = [req EXCEPT ![r] = q]  BY <2>7
    <3> HIDE DEF q
    <3>3. ShapeOK(q)  BY <2>4, <3>1 DEF ShapeOK, SameCopy
    <3>4. QED  BY <2>5, <3>1, <3>2, <3>3
  <2>8. QED  BY <2>2, <2>6, <2>7
<1>4. CASE MutationFails
  <2>1. QueueOK  BY DEF Shapes
  <2>2. PICK r \in Requests :
           /\ r = Head(mutations) /\ mutations # <<>> /\ mutations' = Tail(mutations)
           /\ UNCHANGED <<disk, version, userEdits, cs, shown>>
           /\ req' = [req EXCEPT ![r] = Rest]
    BY <1>4, <2>1, MutationFailStep
  <2>3. Rest \in Request \cup {Rest}  OBVIOUS
  <2>4. /\ req' \in [Requests -> Request \cup {Rest}] /\ mutations' \in Seq(Requests)
        /\ Shapes'
    BY <2>2, <2>3, HeadShapes
  <2>5. TypeOK'  BY <2>2, <2>4 DEF TypeOK
  <2>6. QED  BY <2>4, <2>5
<1>5. CASE UNCHANGED vars
  <2>1. UNCHANGED <<disk, version, userEdits, cs, shown, req, mutations>>
    BY <1>5 DEF vars
  <2>2. TypeOK'  BY <2>1 DEF TypeOK
  <2>3. Shapes'  BY <2>1 DEF Shapes, QueueOK, Active, Free
  <2>4. QED  BY <2>2, <2>3
<1>6. QED  BY <1>1, <1>2, <1>3, <1>4, <1>5 DEF Next

\* Every variable keeps its type, a request is always at a place its operation
\* has, and the mutation queue holds each waiting request at most once.
THEOREM TypeCorrect == Spec => [](TypeOK /\ Shapes)
<1>1. Init => TypeOK /\ Shapes  BY InitTypes
<1>2. (TypeOK /\ Shapes) /\ [Next]_vars => (TypeOK /\ Shapes)'  BY NextTypes
<1>3. QED  BY <1>1, <1>2, PTL DEF Spec

-----------------------------------------------------------------------------
(* The linked records.                                                        *)

\* Only a database mutation changes the ChangeSet.
LEMMA OnlyMutations ==
  ASSUME TypeOK, Shapes, [Next]_vars, cs' # cs
  PROVE  /\ \E r \in Requests :
              /\ r = Head(mutations) /\ mutations # <<>> /\ mutations' = Tail(mutations)
              /\ UNCHANGED <<disk, version, userEdits, shown>>
              /\ req[r] \in Request /\ req[r].phase = "record" /\ cs' = Recorded(req[r])
              /\ \/ req' = [req EXCEPT ![r] = Rest]
                 \/ req' = [req EXCEPT ![r] = Finishing(req[r])]
<1>1. ASSUME NEW p \in Paths, UserStep(p)  PROVE cs' = cs
  BY <1>1, UserFields
<1>2. ASSUME NEW r \in Requests, RequestStep(r)  PROVE cs' = cs
  BY <1>2, RequestMoves DEF Typed
<1>3. MutationFails => cs' = cs  BY DEF MutationFails
<1>4. (UNCHANGED vars) => cs' = cs  BY DEF vars
<1>5. Record  BY <1>1, <1>2, <1>3, <1>4 DEF Next
<1>6. QED  BY <1>5, RecordStep DEF Shapes

\* However many requests are in flight, the issue plan, the resolution and the
\* review issue end as their ChangeSet ends.
THEOREM LinkedRecordsFollow == Spec => []LinksFollow
<1>1. Init => LinksFollow  BY InitTypes DEF LinksFollow
<1>2. ASSUME TypeOK, Shapes, LinksFollow, [Next]_vars  PROVE LinksFollow'
  <2>1. CASE cs' = cs  BY <1>2, <2>1 DEF LinksFollow
  <2>2. CASE cs' # cs
    <3>1. PICK q \in Request : cs' = Recorded(q)  BY <1>2, <2>2, OnlyMutations
    <3>2. q.op \in Ops  BY RecordedCases
    <3>3. CASE q.op = "decide"
      BY <1>2, <3>1, <3>3, RecordedCases, AfterDecideFields DEF LinksFollow
    <3>4. CASE q.op = "editHunk"
      BY <1>2, <3>1, <3>4, RecordedCases, AfterEditHunkFields DEF LinksFollow
    <3>5. CASE q.op = "editFile"
      BY <1>2, <3>1, <3>5, RecordedCases, AfterEditFileFields DEF LinksFollow
    <3>6. CASE q.op = "conflict"
      BY <1>2, <3>1, <3>6, RecordedCases, ConflictFields DEF LinksFollow, Closed
    <3>7. CASE q.op = "finish"
      BY <1>2, <3>1, <3>7, RecordedCases, AfterFinishFields DEF LinksFollow, Closed
    <3>8. CASE q.op = "rollback"
      BY <1>2, <3>1, <3>8, RecordedCases, AfterRollbackFields DEF LinksFollow, Closed
    <3>9. QED  BY <3>2, <3>3, <3>4, <3>5, <3>6, <3>7, <3>8 DEF Ops
  <2>3. QED  BY <2>1, <2>2
<1>3. QED  BY <1>1, <1>2, TypeCorrect, PTL DEF Spec

-----------------------------------------------------------------------------
(* The copies of the requests.                                                *)

\* Every accepted text with a blocking finding was overridden.
Justified(hunk, after, c) ==
  c.overridden \/ \A h \in Hunks : hunk[h] = "accepted" => after[h] \notin Blocking

\* What a request checked when it started holds of its copy, whatever other
\* requests have recorded since; an override or a race that the copy has seen stays
\* in the stored ChangeSet c.
CopyOK(q, c) ==
  q.phase # "finish" =>
  /\ (q.from.overridden => c.overridden) /\ (q.from.raced => c.raced)
  /\ q.op = "decide" =>
       /\ q.from.status \in Reviewing
       /\ \A h \in Hunks : q.from.hunk[h] # "pending" => q.hunk[h] # "pending"
       /\ q.from.raced \/ q.override \/ Justified(q.hunk, q.from.after, q.from)
  /\ q.op = "editHunk" =>
       /\ q.from.status \in Reviewing
       /\ \A h \in Hunks : h \in q.todo => q.from.hunk[h] # "accepted"
  /\ q.op \in {"editFile", "conflict"} =>
       /\ q.from.status \in Reviewing
       /\ \A h \in Hunks : PathOf[h] \in q.todo => q.from.hunk[h] = "pending"
  /\ q.op = "finish" => Finishable(q.from)
  /\ q.op = "rollback" => q.from.status = "accepted"

CopiesOK == \A r \in Requests : Active(r) => CopyOK(req[r], cs)
EditInv  == /\ CopiesOK /\ AcceptedIsJustified
            /\ cs.raced \/ Justified(cs.hunk, cs.after, cs)

\* A step of request r leaves it a good copy: the stored one or the one it had.
CopyMoves(r) ==
  \E q \in Request \cup {Rest} :
    /\ req' = [req EXCEPT ![r] = q]
    /\ q # Rest =>
         /\ CopyOK(q, cs)
         /\ \/ q.from = cs
            \/ req[r] \in Request /\ req[r].phase # "finish" /\ q.from = req[r].from

LEMMA CopyKept ==
  ASSUME NEW q \in Request, NEW q2 \in Request, NEW c, CopyOK(q, c), q.phase # "finish", SameCopy(q2, q),
         q2.todo = q.todo \/ q.op \in {"decide", "rollback"}
  PROVE  CopyOK(q2, c)
<1>1. CASE q2.todo = q.todo  BY <1>1 DEF CopyOK, SameCopy
<1>2. CASE q.op \in {"decide", "rollback"}  BY <1>2 DEF CopyOK, SameCopy
<1>3. QED  BY <1>1, <1>2

LEMMA RestCopy ==
  ASSUME NEW r, req' = [req EXCEPT ![r] = Rest]  PROVE CopyMoves(r)
<1>1. Rest \in Request \cup {Rest}  OBVIOUS
<1>2. QED  BY <1>1 DEF CopyMoves

LEMMA StartCopy ==
  ASSUME NEW r, NEW q \in Request, req' = [req EXCEPT ![r] = q], q.from = cs, CopyOK(q, cs)
  PROVE  CopyMoves(r)
  BY DEF CopyMoves

LEMMA SameCopyMoves ==
  ASSUME NEW r, req[r] \in Request, CopyOK(req[r], cs), req[r].phase # "finish",
         NEW q \in Request, req' = [req EXCEPT ![r] = q], SameCopy(q, req[r]),
         q.todo = req[r].todo \/ req[r].op \in {"decide", "rollback"}
  PROVE  CopyMoves(r)
<1>1. CopyOK(q, cs)  BY CopyKept
<1>2. q.from = req[r].from  BY DEF SameCopy
<1>3. QED  BY <1>1, <1>2 DEF CopyMoves

LEMMA DecideCopy ==
  ASSUME TypeOK, EditInv, NEW r \in Requests, NEW A \in SUBSET Hunks, NEW R \in SUBSET Hunks,
         NEW override \in BOOLEAN, NEW confirm \in BOOLEAN, NEW complete \in BOOLEAN,
         Decide(r, A, R, override, confirm, complete)
  PROVE  CopyMoves(r)
<1>1. PICK q \in Request : req' = [req EXCEPT ![r] = q] /\ Decides(q, A, R, override)
  <2>1. DecideStarts(r, A, R, override)  BY DecideStep
  <2>2. QED  BY <2>1 DEF DecideStarts
<1>2. /\ cs.status \in Reviewing /\ \A h \in A, i \in R : PathOf[h] # PathOf[i]
      /\ override \/ \A h \in A : cs.after[h] \notin Blocking
  BY DEF Decide, Acceptable
<1>3. ASSUME NEW h \in Hunks
      PROVE  /\ cs.hunk[h] # "pending" => q.hunk[h] # "pending"
             /\ q.hunk[h] = "accepted" => h \in A \/ cs.hunk[h] = "accepted"
  <2>1. ~(h \in A /\ h \in R)  BY <1>2
  <2>2. CASE h \in A /\ h \notin R  BY <1>1, <2>2 DEF Decided, Decides
  <2>3. CASE h \notin A /\ h \in R  BY <1>1, <2>3 DEF Decided, Decides
  <2>4. CASE h \notin A /\ h \notin R  BY <1>1, <2>4 DEF Decided, Decides
  <2>5. QED  BY <2>1, <2>2, <2>3, <2>4
<1>4. cs.raced \/ q.override \/ Justified(q.hunk, cs.after, cs)
  BY <1>1, <1>2, <1>3 DEF EditInv, Justified, Decides
<1>5. q.from = cs /\ q.op = "decide"  BY <1>1 DEF Starts, Decides
<1>6. CopyOK(q, cs)  BY <1>2, <1>3, <1>4, <1>5 DEF CopyOK
<1>7. QED  BY <1>1, <1>5, <1>6, StartCopy

LEMMA ContinuesCopy ==
  ASSUME NEW r, CopyOK(req[r], cs), req[r].phase # "finish",
         req[r].op \in {"decide", "rollback"}, req[r] \in Request,
         NEW j \in Request, SameCopy(j, req[r]),
         NEW files \in SUBSET Paths, Continues(r, j, files)
  PROVE  CopyMoves(r)
<1>1. CASE req' = [req EXCEPT ![r] = j]
  BY <1>1, SameCopyMoves
<1>2. CASE req' = [req EXCEPT ![r] = Turned(j, files)]
  <2> DEFINE t == Turned(j, files)
  <2>1. t \in Request /\ SameCopy(t, req[r])  BY TurnedFields DEF SameCopy
  <2>2. req' = [req EXCEPT ![r] = t]  BY <1>2
  <2> HIDE DEF t
  <2>3. QED  BY <2>1, <2>2, SameCopyMoves
<1>3. CASE req' = [req EXCEPT ![r] = Rest]  BY <1>3, RestCopy
<1>4. QED  BY <1>1, <1>2, <1>3 DEF Continues

\* While a request works, its copy stays good.
LEMMA CopiesKept ==
  ASSUME TypeOK, Shapes, EditInv, NEW r \in Requests, RequestStep(r)
  PROVE  CopyMoves(r)
<1>2. req[r].phase # "rest" =>
        ShapeOK(req[r]) /\ req[r] \in Request /\ CopyOK(req[r], cs)
  BY ActiveRequest DEF Shapes, EditInv, CopiesOK, Active, Free
<1>3. ASSUME NEW A \in SUBSET Hunks, NEW R \in SUBSET Hunks,
             NEW override \in BOOLEAN, NEW confirm \in BOOLEAN, NEW complete \in BOOLEAN,
             Decide(r, A, R, override, confirm, complete)
      PROVE  CopyMoves(r)
  BY <1>3, DecideCopy
<1>4. CASE DecideSome(r) \/ AcceptAll(r) \/ RejectAll(r)
  <2>1. \E A, R \in SUBSET Hunks, override, confirm, complete \in BOOLEAN :
           Decide(r, A, R, override, confirm, complete)
    BY <1>4, SomeDecision
  <2>2. QED  BY <1>3, <2>1
<1>5. ASSUME NEW h \in Hunks, NEW text \in Texts, EditHunk(r, h, text)
      PROVE  CopyMoves(r)
  <2>1. PICK q \in Request : /\ req' = [req EXCEPT ![r] = q] /\ Starts(q)
                             /\ q.phase = "record" /\ q.op = "editHunk" /\ q.todo = {h}
    BY <1>5, EditHunkStep
  <2>2. cs.status \in Reviewing /\ cs.hunk[h] # "accepted"
    BY <1>5 DEF EditHunk, Editable, Reviewing
  <2>3. CopyOK(q, cs)  BY <2>1, <2>2 DEF CopyOK, Starts
  <2>4. QED  BY <2>1, <2>3, StartCopy DEF Starts
<1>6. ASSUME NEW p \in Paths, NEW text \in Texts, EditFile(r, p, text)
      PROVE  CopyMoves(r)
  <2>1. PICK q \in Request : /\ req' = [req EXCEPT ![r] = q] /\ Starts(q)
                             /\ q.phase = "check" /\ q.op = "editFile" /\ q.todo = {p}
    BY <1>6, EditFileStep
  <2>2. cs.status \in Reviewing /\ \A h \in Hunks : PathOf[h] = p => cs.hunk[h] = "pending"
    BY <1>6 DEF EditFile, Editable, Reviewing, HunksOf
  <2>3. CopyOK(q, cs)  BY <2>1, <2>2 DEF CopyOK, Starts
  <2>4. QED  BY <2>1, <2>3, StartCopy DEF Starts
<1>7. ASSUME NEW confirm \in Confirms, Rollback(r, confirm)
      PROVE  CopyMoves(r)
  <2>1. PICK q \in Request : /\ req' = [req EXCEPT ![r] = q] /\ Starts(q)
                             /\ q.phase = "revert" /\ q.op = "rollback"
    BY <1>7, RollbackStep, ChangeSetReviewAssumption DEF ChangeSetReviewAssumption
  <2>2. cs.status = "accepted"  BY <1>7 DEF Rollback
  <2>3. CopyOK(q, cs)  BY <2>1, <2>2 DEF CopyOK, Starts
  <2>4. QED  BY <2>1, <2>3, StartCopy DEF Starts
<1>8. CASE Prepare(r)
  <2>1. req[r].phase = "prepare"  BY <1>8 DEF Prepare
  <2>2. /\ req[r] \in Request /\ req[r].op = "decide"
        /\ \E p \in req[r].todo, j \in Request :
             /\ p \in Paths
             /\ Looks(req[r], p, j, Before(req[r], p) = Result(req[r], p),
                      Matches(req[r], p) \/ Confirmed(req[r], p), StepFor(req[r], p))
             /\ Continues(r, j, Touched(req[r]))
    BY <1>2, <1>8, <2>1, PrepareStep
  <2>3. PICK p \in Paths, j \in Request :
             /\ Looks(req[r], p, j, Before(req[r], p) = Result(req[r], p),
                      Matches(req[r], p) \/ Confirmed(req[r], p), StepFor(req[r], p))
             /\ Continues(r, j, Touched(req[r]))
    BY <2>2
  <2> DEFINE unchanged == Before(req[r], p) = Result(req[r], p)
             safe == Matches(req[r], p) \/ Confirmed(req[r], p)
  <2>4. StepFor(req[r], p) \in Steps  BY <2>2, StepForType
  <2>5. unchanged \in BOOLEAN /\ safe \in BOOLEAN  BY DEF Matches, Confirmed
  <2>6. Looks(req[r], p, j, unchanged, safe, StepFor(req[r], p))  BY <2>3
  <2> HIDE DEF unchanged, safe
  <2>7. SameCopy(j, req[r])  BY <2>2, <2>4, <2>5, <2>6, LooksFields
  <2>8. Touched(req[r]) \in SUBSET Paths  BY FileSets
  <2>9. QED  BY <1>2, <2>1, <2>2, <2>3, <2>7, <2>8, ContinuesCopy
<1>9. CASE Revert(r)
  <2>1. req[r].phase = "revert"  BY <1>9 DEF Revert
  <2>2. /\ req[r] \in Request /\ req[r].op = "rollback"
        /\ req' = [req EXCEPT ![r] = Rest] \/ Reverts(r)
    BY <1>2, <1>9, <2>1, RevertStep
  <2>3. CASE req' = [req EXCEPT ![r] = Rest]  BY <2>3, RestCopy
  <2>4. CASE Reverts(r)
    <3>1. PICK p \in Paths, j \in Request :
            SameCopy(j, req[r]) /\ Continues(r, j, AcceptedIn(req[r].from))
      BY <2>2, <2>4, RevertsCopy
    <3>2. AcceptedIn(req[r].from) \in SUBSET Paths  BY FileSets
    <3>3. QED  BY <1>2, <2>1, <2>2, <3>1, <3>2, ContinuesCopy
  <2>5. QED  BY <2>2, <2>3, <2>4
<1>10. CASE Apply(r)
  <2>1. req[r].phase = "apply"  BY <1>10 DEF Apply
  <2>2. /\ req[r] \in Request /\ req[r].op \in {"decide", "rollback"}
        /\ \E p \in Paths :
             \/ req' = [req EXCEPT ![r] = Rest]
             \/ \E v \in Nat : req' = [req EXCEPT ![r] = Wrote(req[r], p, v)]
             \/ req' = [req EXCEPT ![r] = Looked(req[r], p)]
    <3>1. ShapeOK(req[r])  BY <1>2, <2>1
    <3>2. /\ req[r] \in Request /\ req[r].op \in {"decide", "rollback"}
          /\ \E p \in req[r].todo :
               /\ p \in Paths
               /\ \/ req' = [req EXCEPT ![r] = Rest]
                  \/ Writes(r, p, req[r].plan[p].content, req[r].plan[p].version + 1)
                  \/ Writes(r, p, req[r].plan[p].content, 1)
                  \/ Writes(r, p, NoFile, 0)
                  \/ req' = [req EXCEPT ![r] = Looked(req[r], p)]
      BY <1>10, <3>1, ApplyStep
    <3>3. PICK p \in Paths :
            \/ req' = [req EXCEPT ![r] = Rest]
            \/ Writes(r, p, req[r].plan[p].content, req[r].plan[p].version + 1)
            \/ Writes(r, p, req[r].plan[p].content, 1)
            \/ Writes(r, p, NoFile, 0)
            \/ req' = [req EXCEPT ![r] = Looked(req[r], p)]
      BY <3>2
    <3>4. \A content, v : Writes(r, p, content, v) => req' = [req EXCEPT ![r] = Wrote(req[r], p, v)]
      BY DEF Writes
    <3>5. 0 \in Nat /\ 1 \in Nat /\ req[r].plan[p].version + 1 \in Nat
      BY <3>2 DEF Request, Plans, Steps
    <3>6. \/ req' = [req EXCEPT ![r] = Rest]
          \/ \E v \in Nat : req' = [req EXCEPT ![r] = Wrote(req[r], p, v)]
          \/ req' = [req EXCEPT ![r] = Looked(req[r], p)]
      BY <3>3, <3>4, <3>5, Zenon
    <3>7. QED  BY <3>2, <3>6
  <2>3. PICK p \in Paths :
             \/ req' = [req EXCEPT ![r] = Rest]
             \/ \E v \in Nat : req' = [req EXCEPT ![r] = Wrote(req[r], p, v)]
             \/ req' = [req EXCEPT ![r] = Looked(req[r], p)]
    BY <2>2
  <2>4. CASE req' = [req EXCEPT ![r] = Rest]  BY <2>4, RestCopy
  <2>5. ASSUME NEW q \in Request, req' = [req EXCEPT ![r] = q], SameCopy(q, req[r])
        PROVE  CopyMoves(r)
    BY <1>2, <2>1, <2>2, <2>5, SameCopyMoves
  <2>6. ASSUME NEW v \in Nat, req' = [req EXCEPT ![r] = Wrote(req[r], p, v)]
        PROVE  CopyMoves(r)
    <3>1. Wrote(req[r], p, v) \in Request /\ SameCopy(Wrote(req[r], p, v), req[r])
      BY <2>2, WroteShape
    <3>2. QED  BY <2>5, <2>6, <3>1
  <2>7. CASE req' = [req EXCEPT ![r] = Looked(req[r], p)]
    BY <2>2, <2>5, <2>7, LookedFields
  <2>8. QED  BY <2>3, <2>4, <2>6, <2>7
<1>11. CASE Applied(r)
  <2>1. req[r].phase = "apply"  BY <1>11 DEF Applied
  <2>2. /\ req[r] \in Request /\ req[r].op \in {"decide", "rollback"}
        /\ req' = [req EXCEPT ![r] = Queued(req[r])]
    BY <1>2, <1>11, <2>1, AppliedStep
  <2>3. Queued(req[r]) \in Request /\ SameCopy(Queued(req[r]), req[r])
    BY <2>2, QueuedFields
  <2>4. QED  BY <1>2, <2>1, <2>2, <2>3, SameCopyMoves
<1>12. CASE CheckFile(r)
  <2>1. req[r].phase = "check"  BY <1>12 DEF CheckFile
  <2>2. /\ req[r] \in Request /\ req[r].op = "editFile"
        /\ \/ req' = [req EXCEPT ![r] = Rest]
           \/ \E q \in {req[r], Conflicted(req[r])} : req' = [req EXCEPT ![r] = Queued(q)]
    BY <1>2, <1>12, <2>1, CheckFileStep
  <2>3. CASE req' = [req EXCEPT ![r] = Rest]  BY <2>3, RestCopy
  <2>4. ASSUME NEW c \in {req[r], Conflicted(req[r])}, req' = [req EXCEPT ![r] = Queued(c)]
        PROVE  CopyMoves(r)
    <3>1. /\ c \in Request /\ c.op \in {"editFile", "conflict"} /\ c.todo = req[r].todo
          /\ c.from = req[r].from /\ c.phase = req[r].phase
      BY <2>2, ConflictedFields
    <3>2. CopyOK(c, cs)  BY <1>2, <2>1, <2>2, <3>1 DEF CopyOK
    <3>3. Queued(c) \in Request /\ SameCopy(Queued(c), c) /\ Queued(c).todo = c.todo
      BY <3>1, QueuedFields
    <3>4. CopyOK(Queued(c), cs)  BY <2>1, <3>1, <3>2, <3>3, CopyKept
    <3>5. Queued(c).from = req[r].from  BY <3>1, <3>3 DEF SameCopy
    <3>6. QED  BY <2>1, <2>2, <2>4, <3>3, <3>4, <3>5 DEF CopyMoves
  <2>5. QED  BY <2>2, <2>3, <2>4
<1>13. CASE Finish(r)
  <2>1. \/ req' = [req EXCEPT ![r] = Rest]
        \/ /\ Finishable(cs)
           /\ \E q \in Request : /\ req' = [req EXCEPT ![r] = q] /\ Starts(q)
                                 /\ q.phase = "record" /\ q.op = "finish"
    BY <1>13, FinishStep
  <2>2. CASE req' = [req EXCEPT ![r] = Rest]  BY <2>2, RestCopy
  <2>3. ASSUME Finishable(cs), NEW q \in Request, req' = [req EXCEPT ![r] = q], Starts(q),
               q.phase = "record", q.op = "finish"
        PROVE  CopyMoves(r)
    <3>1. CopyOK(q, cs)  BY <2>3 DEF CopyOK, Starts
    <3>2. QED  BY <2>3, <3>1, StartCopy DEF Starts
  <2>4. QED  BY <2>1, <2>2, <2>3
<1>14. CASE Fails(r)
  BY <1>14, FailStep, RestCopy
<1>15. QED
  BY <1>4, <1>5, <1>6, <1>7, <1>8, <1>9, <1>10, <1>11, <1>12, <1>13, <1>14
  DEF RequestStep

-----------------------------------------------------------------------------
(* What the mutations make of the decisions.                                  *)

LEMMA RecordGrows ==
  ASSUME TypeOK, NEW q \in Request, cs' = Recorded(q)
  PROVE  (cs.overridden => cs'.overridden) /\ (cs.raced => cs'.raced)
<1>1. CASE q.op = "decide"  BY <1>1, RecordedCases, AfterDecideFields
<1>2. CASE q.op = "editHunk"  BY <1>2, RecordedCases, AfterEditHunkFields
<1>3. CASE q.op = "editFile"  BY <1>3, RecordedCases, AfterEditFileFields
<1>4. CASE q.op = "conflict"  BY <1>4, RecordedCases, ConflictFields DEF Closed
<1>5. CASE q.op = "finish"  BY <1>5, RecordedCases, AfterFinishFields DEF Closed
<1>6. CASE q.op = "rollback"  BY <1>6, RecordedCases, AfterRollbackFields DEF Closed
<1>7. QED  BY <1>1, <1>2, <1>3, <1>4, <1>5, <1>6, RecordedCases DEF Ops

\* The steps that FinishedIsFinal and EditsKeepDecisions allow, where the request
\* that is recorded works on the given copy.
FinalStep(copy) ==
  /\ cs.status \in {"accepted", "rejected", "rolled-back"}
  /\ <<cs'.status, cs'.hunk, cs'.after>> # <<cs.status, cs.hunk, cs.after>>
  => \/ /\ cs.status = "accepted" /\ cs'.status = "rolled-back"
        /\ cs'.hunk = cs.hunk /\ cs'.after = cs.after
     \/ copy.status # cs.status

KeepStep(copy) ==
  \A h \in Hunks :
    /\ cs.hunk[h] = "accepted"
    /\ cs'.after[h] # cs.after[h] \/ cs'.hunk[h] = "pending"
    => <<copy.hunk[h], copy.after[h]>> # <<cs.hunk[h], cs.after[h]>>

\* What a mutation stores, given a good copy.
LEMMA GoodRecord ==
  ASSUME TypeOK, EditInv, NEW q \in Request, CopyOK(q, cs), q.phase = "record",
         cs' = Recorded(q)
  PROVE  /\ (cs.raced \/ Justified(cs.hunk, cs.after, cs))' /\ AcceptedIsJustified'
         /\ FinalStep(q.from) /\ KeepStep(q.from)
<1>1. /\ cs.raced \/ Justified(cs.hunk, cs.after, cs)
      /\ AcceptedIsJustified
      /\ (q.from.overridden => cs.overridden) /\ (q.from.raced => cs.raced)
  BY DEF CopyOK, EditInv
<1>2. cs \in ChangeSet /\ q.op \in Ops /\ q.from \in ChangeSet
  BY RecordedCases DEF TypeOK, Request
<1>3. CASE q.op = "decide"
  <2>1. /\ q.from.status \in Reviewing
        /\ \A h \in Hunks : q.from.hunk[h] # "pending" => q.hunk[h] # "pending"
        /\ q.from.raced \/ q.override \/ Justified(q.hunk, q.from.after, q.from)
    BY <1>3 DEF CopyOK
  <2>2. cs' = AfterDecide(q)  BY <1>3, RecordedCases
  <2>3. /\ cs'.hunk = q.hunk /\ cs'.after = q.from.after /\ cs'.raced = cs.raced
        /\ cs'.overridden = (cs.overridden \/ q.override)
        /\ cs'.status = "accepted" => Some(q.hunk, "accepted") /\ ~Some(q.hunk, "pending")
    BY <2>2, AfterDecideFields
  <2>4. cs'.raced \/ Justified(cs'.hunk, cs'.after, cs')  BY <1>1, <2>1, <2>3 DEF Justified
  <2>5. AcceptedIsJustified'  BY <2>3, <2>4 DEF AcceptedIsJustified, Justified
  <2>6. FinalStep(q.from)  BY <2>1 DEF FinalStep, Reviewing
  <2>7. KeepStep(q.from)
    <3> SUFFICES ASSUME NEW h \in Hunks, cs.hunk[h] = "accepted",
                        q.from.hunk[h] = cs.hunk[h], q.from.after[h] = cs.after[h]
                 PROVE  cs'.after[h] = cs.after[h] /\ cs'.hunk[h] # "pending"
      BY DEF KeepStep
    <3>1. QED  BY <2>1, <2>3
  <2>8. QED  BY <2>4, <2>5, <2>6, <2>7
<1>4. CASE q.op = "editHunk"
  <2>1. /\ q.from.status \in Reviewing
        /\ \A h \in Hunks : h \in q.todo => q.from.hunk[h] # "accepted"
    BY <1>4 DEF CopyOK
  <2>2. cs' = AfterEditHunk(q)  BY <1>4, RecordedCases
  <2>3. /\ cs'.hunk = cs.hunk /\ cs'.status = cs.status /\ cs'.overridden = cs.overridden
        /\ cs'.raced = (cs.raced \/ Overtaken(q))
        /\ \A h \in Hunks : h \notin q.todo => cs'.after[h] = cs.after[h]
    BY <2>2, AfterEditHunkFields
  <2>4. cs'.raced \/ \A h \in Hunks : h \in q.todo => cs.hunk[h] # "accepted"
    BY <1>4, <2>1, <2>3 DEF Overtaken
  <2>5. cs'.raced \/ Justified(cs'.hunk, cs'.after, cs')  BY <1>1, <2>3, <2>4 DEF Justified
  <2>6. AcceptedIsJustified'
    BY <1>1, <2>3, <2>5 DEF AcceptedIsJustified, Justified, Some
  <2>7. FinalStep(q.from)  BY <2>1 DEF FinalStep, Reviewing
  <2>8. KeepStep(q.from)
    <3> SUFFICES ASSUME NEW h \in Hunks, cs.hunk[h] = "accepted",
                        q.from.hunk[h] = cs.hunk[h]
                 PROVE  cs'.after[h] = cs.after[h] /\ cs'.hunk[h] # "pending"
      BY DEF KeepStep
    <3>1. QED  BY <2>1, <2>3
  <2>9. QED  BY <2>5, <2>6, <2>7, <2>8
<1>5. CASE q.op \in {"editFile", "conflict"}
  <2>1. /\ q.from.status \in Reviewing
        /\ \A h \in Hunks : PathOf[h] \in q.todo => q.from.hunk[h] = "pending"
    BY <1>5 DEF CopyOK
  <2>2. FinalStep(q.from)  BY <2>1 DEF FinalStep, Reviewing
  <2>3. CASE q.op = "editFile"
    <3>1. cs' = AfterEditFile(q)  BY <2>3, RecordedCases
    <3>2. /\ cs'.status = cs.status /\ cs'.overridden = cs.overridden
          /\ cs'.raced = (cs.raced \/ Overtaken(q))
          /\ \A h \in Hunks : PathOf[h] \notin q.todo =>
               cs'.after[h] = cs.after[h] /\ cs'.hunk[h] = cs.hunk[h]
          /\ \A h \in Hunks : PathOf[h] \in q.todo => cs'.hunk[h] = "pending"
      BY <3>1, AfterEditFileFields
    <3>3. cs'.raced \/ \A h \in Hunks : PathOf[h] \in q.todo => cs.hunk[h] = "pending"
      BY <2>1, <2>3, <3>2 DEF Overtaken
    <3>4. cs'.raced \/ Justified(cs'.hunk, cs'.after, cs')  BY <1>1, <3>2 DEF Justified
    <3>5. AcceptedIsJustified'
      <4> SUFFICES ASSUME cs'.status = "accepted", ~cs'.raced
                   PROVE  /\ Some(cs'.hunk, "accepted") /\ ~Some(cs'.hunk, "pending")
                          /\ Justified(cs'.hunk, cs'.after, cs')
        BY DEF AcceptedIsJustified, Justified
      <4>1. \A h \in Hunks : cs'.hunk[h] = cs.hunk[h]  BY <3>2, <3>3
      <4>2. Some(cs.hunk, "accepted") /\ ~Some(cs.hunk, "pending")
        BY <1>1, <3>2 DEF AcceptedIsJustified
      <4>3. QED  BY <3>4, <4>1, <4>2 DEF Some
    <3>6. KeepStep(q.from)
      <4> SUFFICES ASSUME NEW h \in Hunks, cs.hunk[h] = "accepted",
                          q.from.hunk[h] = cs.hunk[h]
                   PROVE  cs'.after[h] = cs.after[h] /\ cs'.hunk[h] # "pending"
        BY DEF KeepStep
      <4>1. QED  BY <2>1, <3>2
    <3>7. QED  BY <2>2, <3>4, <3>5, <3>6
  <2>4. CASE q.op = "conflict"
    <3>1. Closed(cs', "conflict") /\ cs'.raced = cs.raced
      BY <2>4, RecordedCases, ConflictFields
    <3>2. cs'.raced \/ Justified(cs'.hunk, cs'.after, cs')
      BY <1>1, <3>1 DEF Justified, Closed
    <3>3. AcceptedIsJustified'  BY <3>1 DEF AcceptedIsJustified, Closed
    <3>4. KeepStep(q.from)  BY <3>1 DEF KeepStep, Closed
    <3>5. QED  BY <2>2, <3>2, <3>3, <3>4
  <2>5. QED  BY <1>5, <2>3, <2>4
<1>6. CASE q.op = "finish"
  <2>1. Finishable(q.from)  BY <1>6 DEF CopyOK
  <2>2. cs' = AfterFinish(q)  BY <1>6, RecordedCases
  <2>3. /\ cs'.raced = (cs.raced \/ Overtaken(q))
        /\ \/ Closed(cs', "accepted") /\ Some(q.from.hunk, "accepted")
           \/ Closed(cs', "rejected")
    BY <2>2, AfterFinishFields
  <2>4. cs'.raced \/ \A h \in Hunks : /\ q.from.hunk[h] = cs.hunk[h]
                                      /\ q.from.after[h] = cs.after[h]
    BY <1>6, <2>3 DEF Overtaken
  <2>5. cs'.raced \/ Justified(cs'.hunk, cs'.after, cs')
    BY <1>1, <2>3 DEF Justified, Closed
  <2>6. AcceptedIsJustified'
    <3> SUFFICES ASSUME cs'.status = "accepted", ~cs'.raced
                 PROVE  /\ Some(cs'.hunk, "accepted") /\ ~Some(cs'.hunk, "pending")
                        /\ Justified(cs'.hunk, cs'.after, cs')
      BY DEF AcceptedIsJustified, Justified
    <3>1. Some(q.from.hunk, "accepted") /\ ~Some(q.from.hunk, "pending")
      BY <2>1, <2>3 DEF Closed, Finishable
    <3>2. cs'.hunk = cs.hunk  BY <2>3 DEF Closed
    <3>3. QED  BY <2>4, <2>5, <3>1, <3>2 DEF Some
  <2>7. FinalStep(q.from)  BY <2>1 DEF FinalStep, Finishable, Reviewing
  <2>8. KeepStep(q.from)  BY <2>3 DEF KeepStep, Closed
  <2>9. QED  BY <2>5, <2>6, <2>7, <2>8
<1>7. CASE q.op = "rollback"
  <2>1. q.from.status = "accepted"  BY <1>7 DEF CopyOK
  <2>2. Closed(cs', "rolled-back") /\ cs'.raced = cs.raced
    BY <1>7, RecordedCases, AfterRollbackFields
  <2>3. cs'.raced \/ Justified(cs'.hunk, cs'.after, cs')
    BY <1>1, <2>2 DEF Justified, Closed
  <2>4. AcceptedIsJustified'  BY <2>2 DEF AcceptedIsJustified, Closed
  <2>5. FinalStep(q.from)  BY <2>1, <2>2 DEF FinalStep, Closed
  <2>6. KeepStep(q.from)  BY <2>2 DEF KeepStep, Closed
  <2>7. QED  BY <2>3, <2>4, <2>5, <2>6
<1>8. QED  BY <1>2, <1>3, <1>4, <1>5, <1>6, <1>7 DEF Ops

LEMMA JoinCopies ==
  ASSUME TypeOK, CopiesOK, NEW r \in Requests, CopyMoves(r), cs' = cs
  PROVE  CopiesOK'
<1>1. PICK q \in Request \cup {Rest} :
        req' = [req EXCEPT ![r] = q] /\ (q # Rest => CopyOK(q, cs))
  BY DEF CopyMoves
<1>2. req'[r] = q /\ \A s \in Requests : s # r => req'[s] = req[s]
  BY <1>1 DEF TypeOK
<1>3. QED  BY <1>1, <1>2, Disjoint DEF CopiesOK, Active, Free

LEMMA EditStep ==
  ASSUME TypeOK, Shapes, EditInv, [Next]_vars
  PROVE  EditInv' /\ FinalStep(Copy) /\ KeepStep(Copy)
<1>1. ASSUME cs' = cs, CopiesOK'  PROVE EditInv' /\ FinalStep(Copy) /\ KeepStep(Copy)
  <2>1. FinalStep(Copy)  BY <1>1 DEF FinalStep
  <2>2. cs.hunk \in Decisions  BY DEF TypeOK, ChangeSet
  <2>3. KeepStep(Copy)  BY <1>1 DEF KeepStep
  <2>4. QED  BY <1>1, <2>1, <2>3 DEF EditInv, AcceptedIsJustified
<1>2. CopiesOK  BY DEF EditInv
<1>3. ASSUME NEW p \in Paths, UserStep(p)  PROVE cs' = cs /\ CopiesOK'
  <2>1. cs' = cs /\ req' = req  BY <1>3, UserFields
  <2>2. QED  BY <1>2, <2>1 DEF CopiesOK, Active, Free
<1>4. ASSUME NEW r \in Requests, RequestStep(r)  PROVE cs' = cs /\ CopiesOK'
  <2>1. cs' = cs  BY <1>4, RequestMoves DEF Typed
  <2>2. QED  BY <1>2, <1>4, <2>1, CopiesKept, JoinCopies
<1>5. CASE MutationFails
  <2>1. PICK r \in Requests : req' = [req EXCEPT ![r] = Rest] /\ cs' = cs
    BY <1>5, MutationFailStep DEF Shapes
  <2>2. CopiesOK'  BY <1>2, <2>1, RestCopy, JoinCopies
  <2>3. QED  BY <1>1, <2>1, <2>2
<1>6. CASE Record
  <2>1. PICK r \in Requests :
           /\ r = Head(mutations)
           /\ req[r] \in Request /\ req[r].phase = "record" /\ cs' = Recorded(req[r])
           /\ \/ req' = [req EXCEPT ![r] = Rest]
              \/ req' = [req EXCEPT ![r] = Finishing(req[r])]
    BY <1>6, RecordStep DEF Shapes
  <2>2. CopyOK(req[r], cs)  BY <1>2, <2>1 DEF CopiesOK, Active, Free
  <2>3. /\ (cs.raced \/ Justified(cs.hunk, cs.after, cs))' /\ AcceptedIsJustified'
        /\ FinalStep(req[r].from) /\ KeepStep(req[r].from)
    BY <2>1, <2>2, GoodRecord
  <2>4. CopiesOK'
    <3>1. (cs.overridden => cs'.overridden) /\ (cs.raced => cs'.raced)
      BY <2>1, RecordGrows
    <3>2. \A s \in Requests : s # r => req'[s] = req[s]  BY <2>1 DEF TypeOK
    <3>3. ASSUME NEW s \in Requests, s # r, req[s].phase # "rest"
          PROVE  CopyOK(req[s], cs')
      BY <1>2, <3>1, <3>3 DEF CopiesOK, CopyOK, Active, Free
    <3>4. req'[r].phase \in {"rest", "finish"}
      <4>1. Finishing(req[r]).phase = "finish"  BY <2>1, FinishingFields
      <4>2. QED  BY <2>1, <4>1, Disjoint DEF TypeOK
    <3>5. req'[r].phase = "finish" => CopyOK(req'[r], cs')  BY DEF CopyOK
    <3>6. QED  BY <3>2, <3>3, <3>4, <3>5 DEF CopiesOK, Active, Free
  <2>5. Copy = req[r].from  BY <2>1 DEF Copy
  <2>6. QED  BY <2>3, <2>4, <2>5 DEF EditInv
<1>7. CASE UNCHANGED vars
  <2>1. cs' = cs /\ req' = req  BY <1>7 DEF vars
  <2>2. CopiesOK'  BY <1>2, <2>1 DEF CopiesOK, Active, Free
  <2>3. QED  BY <1>1, <2>1, <2>2
<1>8. QED  BY <1>1, <1>3, <1>4, <1>5, <1>6, <1>7 DEF Next

LEMMA InitEdit == Init => EditInv
<1> SUFFICES ASSUME Init PROVE EditInv  OBVIOUS
<1>1. /\ req = [r \in Requests |-> Rest] /\ cs.hunk = [h \in Hunks |-> "pending"]
      /\ cs.status = "proposed"
  BY InitTypes
<1>2. CopiesOK  BY <1>1, Disjoint DEF CopiesOK, Active, Free
<1>3. QED  BY <1>1, <1>2 DEF EditInv, Justified, AcceptedIsJustified

LEMMA EditInvariant == Spec => [](TypeOK /\ Shapes /\ EditInv)
<1>1. (TypeOK /\ Shapes) /\ EditInv /\ [Next]_vars => EditInv'
  BY EditStep
<1>2. QED  BY <1>1, InitEdit, TypeCorrect, PTL DEF Spec

\* However the decisions of several requests interleave, an accepted ChangeSet has
\* an accepted hunk and none pending, and its blocking findings were overridden,
\* unless an edit or a finish was recorded that its decisions had overtaken.
THEOREM AcceptedJustified == Spec => []AcceptedIsJustified
<1>1. EditInv => AcceptedIsJustified  BY DEF EditInv
<1>2. QED  BY <1>1, EditInvariant, PTL

\* Whatever requests are in flight, a finished review is only ever rolled back,
\* once, except by a request that copied the ChangeSet before it had its status.
THEOREM FinishedStaysFinal == Spec => FinishedIsFinal
<1>1. TypeOK /\ Shapes /\ EditInv /\ [Next]_vars => [FinalStep(Copy)]_vars
  BY EditStep
<1>2. QED  BY <1>1, EditInvariant, PTL DEF Spec, FinishedIsFinal, FinalStep

\* Whatever requests are in flight, the text of an accepted hunk and its decision
\* stay, except for a request that copied the hunk when it was not accepted yet or
\* had another text.
THEOREM EditsKeepAccepted == Spec => EditsKeepDecisions
<1>1. TypeOK /\ Shapes /\ EditInv /\ [Next]_vars => [KeepStep(Copy)]_vars
  BY EditStep
<1>2. QED  BY <1>1, EditInvariant, PTL DEF Spec, EditsKeepDecisions, KeepStep

-----------------------------------------------------------------------------
(* What requests overwrite in the files that the change replaces, when users   *)
(* only save.                                                                 *)

OnlySaves == ~UsersRestructure
Replaced  == Paths \ Creates
USE DEF Replaced

\* What somebody saw of a file that has content d and version v.
SightOK(s, d, v) ==
  s # Unseen => s.version =< v /\ (s.version = v => s.content = d)

\* Request q may still write file p.
Doing(q, p) == \/ q.phase \in {"prepare", "revert"}
               \/ q.phase = "apply" /\ p \in q.todo

\* If the file is still at the version that q is going to replace, then it has no
\* user edit, q confirmed exactly what it holds or made its plan from it, or q keeps
\* the edit.
WriteOK(q, p, d, v) ==
  q.plan[p].action = "save" /\ Doing(q, p) =>
    /\ q.plan[p].version =< v
    /\ q.plan[p].version = v =>
         /\ q.op = "decide" => d.own = 0 \/ q.confirm[p] = [version |-> v, content |-> d]
         /\ q.op = "rollback" =>
              \/ q.plan[p].content.own = d.own
              \/ [version |-> v, content |-> d] \in {q.confirm[p], q.plan[p].copy}

RequestOK(q, p, d, v) ==
  /\ SightOK(q.clash[p], d, v) /\ SightOK(q.confirm[p], d, v) /\ WriteOK(q, p, d, v)
  /\ q.plan[p].action \notin {"create", "delete"}
  /\ q.plan[p].action = "save" => q.plan[p].content # NoFile

OverInv ==
  /\ \A p \in Replaced : disk[p] # NoFile /\ SightOK(shown[p], disk[p], version[p])
  /\ \A r \in Requests, p \in Replaced :
       Active(r) => RequestOK(req[r], p, disk[p], version[p])

LEMMA NewerSight ==
  ASSUME NEW s \in Sights \cup {Unseen}, NEW d, NEW v \in Nat, SightOK(s, d, v), NEW d2
  PROVE  SightOK(s, d2, v + 1)
<1>1. s # Unseen => s.version \in Nat  BY DEF Sights
<1>2. QED  BY <1>1 DEF SightOK

LEMMA NewerRequest ==
  ASSUME NEW q \in Request, NEW p \in Replaced, NEW d, NEW v \in Nat, RequestOK(q, p, d, v),
         NEW d2
  PROVE  RequestOK(q, p, d2, v + 1)
<1>1. /\ q.clash[p] \in Sights \cup {Unseen} /\ q.confirm[p] \in Sights \cup {Unseen}
      /\ q.plan[p].version \in Nat
  BY DEF Request, Seen, Plans, Steps
<1>2. SightOK(q.clash[p], d2, v + 1) /\ SightOK(q.confirm[p], d2, v + 1)
  BY <1>1, NewerSight DEF RequestOK
<1>3. WriteOK(q, p, d2, v + 1)  BY <1>1 DEF RequestOK, WriteOK
<1>4. QED  BY <1>2, <1>3 DEF RequestOK

\* A request that plans no more than before is as good as before.
LEMMA SamePlan ==
  ASSUME NEW q, NEW q2, NEW p, NEW d, NEW v, RequestOK(q, p, d, v),
         q2.plan[p] = q.plan[p], q2.clash[p] = q.clash[p], q2.confirm[p] = q.confirm[p],
         \/ q2.phase \in {"check", "record", "finish"}
         \/ q2.op = q.op /\ (Doing(q2, p) => Doing(q, p))
  PROVE  RequestOK(q2, p, d, v)
<1>1. CASE q2.phase \in {"check", "record", "finish"}
  BY <1>1 DEF RequestOK, WriteOK, Doing
<1>2. CASE q2.op = q.op /\ (Doing(q2, p) => Doing(q, p))
  BY <1>2 DEF RequestOK, WriteOK
<1>3. QED  BY <1>1, <1>2

LEMMA StartedOK ==
  ASSUME TypeOK, OverInv, NEW q \in Request, Starts(q), NEW p \in Replaced
  PROVE  RequestOK(q, p, disk[p], version[p])
<1>1. q.plan[p] = Skip /\ q.clash[p] = Unseen /\ q.confirm[p] \in {shown[p], Unseen}
  BY DEF Starts
<1>2. Skip.action = "skip"  BY DEF Skip
<1>3. QED  BY <1>1, <1>2 DEF RequestOK, WriteOK, SightOK, OverInv

LEMMA SightsOK ==
  ASSUME TypeOK, OverInv, NEW p \in Replaced
  PROVE  /\ disk[p] \in File /\ version[p] \in Nat
         /\ Sight(p) = [version |-> version[p], content |-> disk[p]]
         /\ SightOK(Sight(p), disk[p], version[p])
<1>1. disk[p] \in Contents /\ version[p] \in Nat /\ disk[p] # NoFile  BY DEF TypeOK, OverInv
<1>2. Sight(p) = [version |-> version[p], content |-> disk[p]]  BY <1>1 DEF Sight
<1>3. QED  BY <1>1, <1>2 DEF Contents, SightOK

\* A confirmation that the code accepts is of what the file holds.
LEMMA ConfirmedSight ==
  ASSUME TypeOK, OverInv, NEW q \in Request, NEW p \in Replaced, Confirmed(q, p),
         SightOK(q.confirm[p], disk[p], version[p])
  PROVE  q.confirm[p] = [version |-> version[p], content |-> disk[p]]
<1>1. q.confirm[p] \in Sights /\ q.confirm[p].version = Sight(p).version
      /\ q.confirm[p] # Unseen
  BY DEF Confirmed, Request, Seen
<1>2. Sight(p).version = version[p]  BY SightsOK
<1>3. q.confirm[p].version = version[p] /\ q.confirm[p].content = disk[p]
  BY <1>1, <1>2, SightsOK DEF SightOK
<1>4. QED  BY <1>1, <1>3 DEF Sights

LEMMA PlannedDecision ==
  ASSUME OnlySaves, TypeOK, OverInv, NEW q \in Request, q.op = "decide", NEW p \in Replaced,
         RequestOK(q, p, disk[p], version[p]), Matches(q, p) \/ Confirmed(q, p),
         NEW j \in Request, SameCopy(j, q), j.plan[p] = StepFor(q, p),
         j.clash[p] = q.clash[p]
  PROVE  RequestOK(j, p, disk[p], version[p])
<1> DEFINE s == StepFor(q, p)
<1>1. p \notin Creates  OBVIOUS
<1>2. /\ q.hunk \in Decisions /\ q.from.hunk \in Decisions /\ q.from.after \in Proposals
  BY DEF Request, ChangeSet
<1>3. /\ Result(q, p) # NoFile
      /\ Before(q, p) # NoFile => Before(q, p).own = 0
  BY <1>1, <1>2, ReviewedType DEF Result, Before
<1>4. s.action # "create" /\ s.action # "delete" /\ s.content # NoFile
      /\ s.version = version[p]
  BY <1>3, StepForType, SightsOK, SightType, Disjoint
<1>5. disk[p].own = 0 \/ q.confirm[p] = [version |-> version[p], content |-> disk[p]]
  <2>1. CASE Matches(q, p)  BY <1>3, <2>1, SightsOK, Disjoint DEF Matches
  <2>2. CASE Confirmed(q, p)  BY <2>2, ConfirmedSight DEF RequestOK
  <2>3. QED  BY <2>1, <2>2
<1> HIDE DEF s
<1>6. j.plan[p] = s /\ j.confirm = q.confirm /\ j.op = "decide"  BY DEF s, SameCopy
<1>7. WriteOK(j, p, disk[p], version[p])
  BY <1>4, <1>5, <1>6, SightsOK DEF WriteOK
<1>8. QED  BY <1>4, <1>6, <1>7 DEF RequestOK

LEMMA PlannedRollback ==
  ASSUME TypeOK, OverInv, NEW q \in Request, q.op = "rollback", NEW p \in Replaced,
         RequestOK(q, p, disk[p], version[p]), NEW s, BackOK(q, p, TRUE, s),
         NEW j \in Request, SameCopy(j, q), j.plan[p] = s, j.clash[p] = q.clash[p]
  PROVE  RequestOK(j, p, disk[p], version[p])
<1>1. /\ s.action = "save" /\ s.content # NoFile /\ s.version = version[p]
      /\ s.content.own = disk[p].own \/ s.copy = Sight(p) \/ Confirmed(q, p)
  BY Disjoint DEF BackOK
<1>2. s.copy = Sight(p) => s.copy = [version |-> version[p], content |-> disk[p]]
  BY SightsOK
<1>3. Confirmed(q, p) => q.confirm[p] = [version |-> version[p], content |-> disk[p]]
  BY ConfirmedSight DEF RequestOK
<1>4. j.confirm = q.confirm /\ j.op = "rollback"  BY DEF SameCopy
<1>5. WriteOK(j, p, disk[p], version[p])
  BY <1>1, <1>2, <1>3, <1>4, SightsOK DEF WriteOK
<1>6. QED  BY <1>1, <1>4, <1>5 DEF RequestOK

LEMMA ClashedOK ==
  ASSUME TypeOK, OverInv, NEW q \in Request, NEW p \in Replaced,
         RequestOK(q, p, disk[p], version[p]), NEW j \in Request, SameCopy(j, q),
         j.phase = q.phase, j.todo \subseteq q.todo, j.plan[p] = q.plan[p],
         j.clash[p] = Sight(p)
  PROVE  RequestOK(j, p, disk[p], version[p])
<1>1. j.confirm = q.confirm /\ j.op = q.op /\ (Doing(j, p) => Doing(q, p))
  BY DEF SameCopy, Doing
<1>2. QED  BY <1>1, SightsOK DEF RequestOK, WriteOK

-----------------------------------------------------------------------------
\* The files that the change replaces stay as they are.
StillReplaced == \A p \in Replaced : disk'[p] = disk[p] /\ version'[p] = version[p]

\* A step of request r that leaves these files alone.
Quiet(r) ==
  /\ StillReplaced
  /\ \A p \in Replaced : SightOK(shown'[p], disk[p], version[p])
  /\ \E q \in Request \cup {Rest} :
       /\ req' = [req EXCEPT ![r] = q]
       /\ q # Rest => \A p \in Replaced : RequestOK(q, p, disk[p], version[p])

\* A step of request r that saves file p at the version it planned to replace.
Saved(r, p) ==
  /\ req[r] \in Request /\ req[r].op \in {"decide", "rollback"} /\ req[r].phase = "apply"
  /\ p \in req[r].todo /\ req[r].plan[p].action = "save"
  /\ version[p] = req[r].plan[p].version
  /\ disk' = [disk EXCEPT ![p] = req[r].plan[p].content]
  /\ version' = [version EXCEPT ![p] = version[p] + 1]
  /\ req' = [req EXCEPT ![r] = Wrote(req[r], p, version[p] + 1)]
  /\ UNCHANGED shown

LEMMA QuietRest ==
  ASSUME OverInv, NEW r \in Requests, UNCHANGED <<disk, version, shown>>,
         req' = [req EXCEPT ![r] = Rest]
  PROVE  Quiet(r)
<1>1. Rest \in Request \cup {Rest}  OBVIOUS
<1>2. QED  BY <1>1 DEF Quiet, OverInv, StillReplaced

LEMMA QuietRequest ==
  ASSUME OverInv, NEW r \in Requests, StillReplaced, UNCHANGED shown,
         NEW q \in Request, req' = [req EXCEPT ![r] = q],
         \A p \in Replaced : RequestOK(q, p, disk[p], version[p])
  PROVE  Quiet(r)
<1>1. q \in Request \cup {Rest}  OBVIOUS
<1>2. \A p \in Replaced : SightOK(shown'[p], disk[p], version[p])  BY DEF OverInv
<1>3. QED  BY <1>1, <1>2 DEF Quiet

LEMMA ContinuesQuiet ==
  ASSUME TypeOK, OverInv, NEW r \in Requests, req[r] \in Request,
         req[r].phase \in {"prepare", "revert"},
         NEW j \in Request, SameCopy(j, req[r]), j.phase = req[r].phase,
         \A p \in Replaced : RequestOK(j, p, disk[p], version[p]),
         NEW files \in SUBSET Paths, Continues(r, j, files), StillReplaced
  PROVE  Quiet(r)
<1>1. CASE req' = [req EXCEPT ![r] = j] /\ UNCHANGED shown
  BY <1>1, QuietRequest
<1>2. CASE req' = [req EXCEPT ![r] = Turned(j, files)] /\ UNCHANGED shown
  <2> DEFINE t == Turned(j, files)
  <2>1. t \in Request /\ SameCopy(t, j) /\ t.plan = j.plan /\ t.clash = j.clash
    BY TurnedFields
  <2>2. req' = [req EXCEPT ![r] = t]  BY <1>2
  <2> HIDE DEF t
  <2>3. ASSUME NEW p \in Replaced  PROVE RequestOK(t, p, disk[p], version[p])
    <3>1. t.confirm = j.confirm /\ t.op = j.op /\ Doing(j, p)  BY <2>1 DEF SameCopy, Doing
    <3>2. QED  BY <2>1, <3>1, SamePlan
  <2>4. QED  BY <1>2, <2>1, <2>2, <2>3, QuietRequest
<1>3. CASE /\ req' = [req EXCEPT ![r] = Rest]
           /\ shown' = [p \in Paths |-> IF j.clash[p] # Unseen THEN j.clash[p] ELSE shown[p]]
  <2>1. ASSUME NEW p \in Replaced  PROVE SightOK(shown'[p], disk[p], version[p])
    BY <1>3 DEF OverInv, RequestOK
  <2>2. Rest \in Request \cup {Rest}  OBVIOUS
  <2>3. QED  BY <1>3, <2>1, <2>2 DEF Quiet
<1>4. QED  BY <1>1, <1>2, <1>3 DEF Continues

LEMMA QuietOrSaved ==
  ASSUME OnlySaves, TypeOK, Shapes, OverInv, NEW r \in Requests, RequestStep(r)
  PROVE  Quiet(r) \/ \E p \in Replaced : Saved(r, p)
<1>1. req[r].phase # "rest" =>
        /\ ShapeOK(req[r]) /\ req[r] \in Request
        /\ \A p \in Replaced : RequestOK(req[r], p, disk[p], version[p])
  BY ActiveRequest DEF Shapes, OverInv, Active, Free
<1>0. UNCHANGED <<disk, version>> => StillReplaced  BY DEF StillReplaced
<1>2. ASSUME Started(r)  PROVE Quiet(r)
  <2>1. PICK q \in Request : req' = [req EXCEPT ![r] = q] /\ Starts(q)
    BY <1>2 DEF Started
  <2>2. UNCHANGED <<disk, version, shown>>  BY <1>2 DEF Started
  <2>3. QED  BY <1>0, <2>1, <2>2, StartedOK, QuietRequest
<1>3. CASE Prepare(r)
  <2>1. req[r].phase = "prepare"  BY <1>3 DEF Prepare
  <2>2. /\ UNCHANGED <<disk, version>> /\ req[r] \in Request /\ req[r].op = "decide"
        /\ \E p \in req[r].todo, j \in Request :
             /\ p \in Paths
             /\ Looks(req[r], p, j, Before(req[r], p) = Result(req[r], p),
                      Matches(req[r], p) \/ Confirmed(req[r], p), StepFor(req[r], p))
             /\ Continues(r, j, Touched(req[r]))
    BY <1>1, <1>3, <2>1, PrepareStep
  <2>3. PICK p \in Paths, j \in Request :
             /\ Looks(req[r], p, j, Before(req[r], p) = Result(req[r], p),
                      Matches(req[r], p) \/ Confirmed(req[r], p), StepFor(req[r], p))
             /\ Continues(r, j, Touched(req[r]))
    BY <2>2
  <2> DEFINE unchanged == Before(req[r], p) = Result(req[r], p)
             safe == Matches(req[r], p) \/ Confirmed(req[r], p)
  <2>4. StepFor(req[r], p) \in Steps  BY <2>2, StepForType
  <2>5. unchanged \in BOOLEAN /\ safe \in BOOLEAN  BY DEF Matches, Confirmed
  <2>6. Looks(req[r], p, j, unchanged, safe, StepFor(req[r], p))  BY <2>3
  <2>7. safe <=> (Matches(req[r], p) \/ Confirmed(req[r], p))  OBVIOUS
  <2> HIDE DEF unchanged, safe
  <2>8. /\ SameCopy(j, req[r]) /\ j.phase = req[r].phase /\ j.todo = req[r].todo \ {p}
        /\ \A x \in Paths : x # p => j.plan[x] = req[r].plan[x] /\ j.clash[x] = req[r].clash[x]
        /\ j.plan[p] = IF ~unchanged /\ safe THEN StepFor(req[r], p) ELSE req[r].plan[p]
        /\ j.clash[p] = IF ~unchanged /\ ~safe THEN Sight(p) ELSE req[r].clash[p]
    BY <2>2, <2>4, <2>5, <2>6, LooksFields
  <2>9. ASSUME NEW x \in Replaced  PROVE RequestOK(j, x, disk[x], version[x])
    <3>1. /\ RequestOK(req[r], x, disk[x], version[x])
          /\ j.confirm = req[r].confirm /\ j.op = req[r].op
          /\ Doing(j, x) => Doing(req[r], x)
      BY <1>1, <2>1, <2>8 DEF SameCopy, Doing
    <3>2. CASE j.plan[x] = req[r].plan[x] /\ j.clash[x] = req[r].clash[x]
      BY <3>1, <3>2, SamePlan
    <3>3. CASE x = p /\ safe /\ j.plan[p] = StepFor(req[r], p) /\ j.clash[p] = req[r].clash[p]
      BY <2>2, <2>7, <2>8, <3>1, <3>3, PlannedDecision
    <3>4. CASE x = p /\ j.clash[p] = Sight(p) /\ j.plan[p] = req[r].plan[p]
      BY <2>2, <2>8, <3>1, <3>4, ClashedOK
    <3>5. QED  BY <2>8, <3>2, <3>3, <3>4
  <2>10. Touched(req[r]) \in SUBSET Paths  BY FileSets
  <2>11. QED  BY <1>0, <2>1, <2>2, <2>3, <2>8, <2>9, <2>10, ContinuesQuiet
<1>4. CASE Revert(r)
  <2>1. req[r].phase = "revert"  BY <1>4 DEF Revert
  <2>2. /\ UNCHANGED <<disk, version>> /\ req[r] \in Request /\ req[r].op = "rollback"
        /\ (req' = [req EXCEPT ![r] = Rest] /\ UNCHANGED shown) \/ Reverts(r)
    BY <1>1, <1>4, <2>1, RevertStep
  <2>3. CASE req' = [req EXCEPT ![r] = Rest] /\ UNCHANGED shown
    BY <2>2, <2>3, QuietRest
  <2>4. CASE Reverts(r)
    <3>1. PICK p \in Paths, j \in Request, safe \in BOOLEAN, s \in Steps :
            RevertsTo(r, p, j, safe, s)
      BY <2>2, <2>4, RevertsFields
    <3>2. /\ BackOK(req[r], p, safe, s) /\ SameCopy(j, req[r])
          /\ j.phase = req[r].phase /\ j.todo = req[r].todo \ {p}
          /\ \A x \in Paths : x # p =>
               j.plan[x] = req[r].plan[x] /\ j.clash[x] = req[r].clash[x]
          /\ j.plan[p] = IF safe THEN s ELSE req[r].plan[p]
          /\ j.clash[p] = IF ~safe THEN Sight(p) ELSE req[r].clash[p]
          /\ Continues(r, j, AcceptedIn(req[r].from))
      BY <3>1 DEF RevertsTo
    <3>3. ASSUME NEW x \in Replaced  PROVE RequestOK(j, x, disk[x], version[x])
      <4>1. /\ RequestOK(req[r], x, disk[x], version[x])
            /\ j.confirm = req[r].confirm /\ j.op = req[r].op
            /\ Doing(j, x) => Doing(req[r], x)
        BY <1>1, <2>1, <3>2 DEF SameCopy, Doing
      <4>2. CASE j.plan[x] = req[r].plan[x] /\ j.clash[x] = req[r].clash[x]
        BY <4>1, <4>2, SamePlan
      <4>3. CASE x = p /\ safe = TRUE
        <5>1. BackOK(req[r], x, TRUE, s) /\ j.plan[x] = s /\ j.clash[x] = req[r].clash[x]
          BY <3>2, <4>3
        <5>2. QED  BY <2>2, <3>2, <4>1, <5>1, PlannedRollback
      <4>4. CASE x = p /\ safe = FALSE
        BY <2>2, <3>2, <4>1, <4>4, ClashedOK
      <4>5. QED  BY <3>1, <3>2, <4>2, <4>3, <4>4
    <3>4. AcceptedIn(req[r].from) \in SUBSET Paths  BY FileSets
    <3>5. QED  BY <1>0, <2>1, <2>2, <3>2, <3>3, <3>4, ContinuesQuiet
  <2>5. QED  BY <2>2, <2>3, <2>4
<1>5. CASE Apply(r)
  <2>1. req[r].phase = "apply"  BY <1>5 DEF Apply
  <2> DEFINE Tries(p) ==
               \/ req' = [req EXCEPT ![r] = Rest] /\ UNCHANGED <<disk, version>>
               \/ /\ req[r].plan[p].action = "save"
                  /\ version[p] = req[r].plan[p].version
                  /\ Writes(r, p, req[r].plan[p].content, req[r].plan[p].version + 1)
               \/ /\ req[r].plan[p].action = "create"
                  /\ Writes(r, p, req[r].plan[p].content, 1)
               \/ req[r].plan[p].action = "delete" /\ Writes(r, p, NoFile, 0)
               \/ /\ req' = [req EXCEPT ![r] = Looked(req[r], p)]
                  /\ UNCHANGED <<disk, version>>
  <2>2. /\ UNCHANGED shown /\ req[r] \in Request /\ req[r].op \in {"decide", "rollback"}
        /\ \E p \in req[r].todo : p \in Paths /\ Tries(p)
    <3>1. ShapeOK(req[r])  BY <1>1, <2>1
    <3>2. QED  BY <1>5, <3>1, ApplyStep
  <2>3. PICK p \in req[r].todo : p \in Paths /\ Tries(p)  BY <2>2
  <2>4. p \in Replaced => RequestOK(req[r], p, disk[p], version[p])  BY <1>1, <2>1, <2>3
  <2>5. CASE req' = [req EXCEPT ![r] = Rest] /\ UNCHANGED <<disk, version>>
    BY <2>2, <2>5, QuietRest
  <2>6. CASE /\ p \in Replaced /\ req[r].plan[p].action = "save"
             /\ version[p] = req[r].plan[p].version
             /\ Writes(r, p, req[r].plan[p].content, req[r].plan[p].version + 1)
    <3>1. req[r].plan[p].content # NoFile  BY <2>4, <2>6 DEF RequestOK
    <3>2. Saved(r, p)  BY <2>1, <2>2, <2>3, <2>6, <3>1 DEF Saved, Writes
    <3>3. QED  BY <2>6, <3>2
  <2>7. CASE req' = [req EXCEPT ![r] = Looked(req[r], p)] /\ UNCHANGED <<disk, version>>
    <3> DEFINE l == Looked(req[r], p)
    <3>1. /\ l \in Request /\ SameCopy(l, req[r]) /\ l.phase = req[r].phase
          /\ l.todo = req[r].todo \ {p} /\ l.plan = req[r].plan /\ l.clash = req[r].clash
      BY <2>2, LookedFields
    <3>2. req' = [req EXCEPT ![r] = l]  BY <2>7
    <3> HIDE DEF l
    <3>3. ASSUME NEW x \in Replaced  PROVE RequestOK(l, x, disk[x], version[x])
      <4>1. /\ RequestOK(req[r], x, disk[x], version[x])
            /\ l.confirm = req[r].confirm /\ l.op = req[r].op
            /\ Doing(l, x) => Doing(req[r], x)
        BY <1>1, <2>1, <3>1 DEF SameCopy, Doing
      <4>2. QED  BY <3>1, <4>1, SamePlan
    <3>4. QED  BY <1>0, <2>2, <2>7, <3>1, <3>2, <3>3, QuietRequest
  <2>8. ASSUME p \notin Replaced, NEW content, NEW v \in Nat, Writes(r, p, content, v)
        PROVE  Quiet(r)
    <3> DEFINE w == Wrote(req[r], p, v)
    <3>1. /\ w \in Request /\ SameCopy(w, req[r]) /\ w.phase = req[r].phase
          /\ w.todo = req[r].todo \ {p} /\ w.clash = req[r].clash
      BY <2>2, <2>3, <2>8, WroteShape
    <3>2. \A x \in Paths : x # p => w.plan[x] = req[r].plan[x]
      BY <2>2, <2>3, <2>8, WrotePlan
    <3>3. req' = [req EXCEPT ![r] = w]  BY <2>8 DEF Writes
    <3> HIDE DEF w
    <3>4. ASSUME NEW x \in Replaced  PROVE RequestOK(w, x, disk[x], version[x])
      <4>1. /\ RequestOK(req[r], x, disk[x], version[x])
            /\ w.confirm = req[r].confirm /\ w.op = req[r].op
            /\ Doing(w, x) => Doing(req[r], x)
        BY <1>1, <2>1, <3>1 DEF SameCopy, Doing
      <4>2. w.plan[x] = req[r].plan[x]  BY <2>8, <3>2
      <4>3. QED  BY <3>1, <4>1, <4>2, SamePlan
    <3>5. StillReplaced  BY <2>8 DEF Writes, StillReplaced, TypeOK
    <3>6. QED  BY <2>2, <3>1, <3>3, <3>4, <3>5, QuietRequest
  <2>9. req[r].plan[p].version + 1 \in Nat /\ 1 \in Nat /\ 0 \in Nat
    BY <2>2, <2>3 DEF Request, Plans, Steps
  <2>10. CASE p \in Replaced
    <3>1. req[r].plan[p].action \notin {"create", "delete"}
      BY <2>4, <2>10 DEF RequestOK
    <3>2. QED  BY <2>3, <2>5, <2>6, <2>7, <2>10, <3>1
  <2>11. CASE p \notin Replaced
    BY <2>3, <2>5, <2>7, <2>8, <2>9, <2>11
  <2>12. QED  BY <2>10, <2>11
<1>6. CASE Applied(r)
  <2>1. req[r].phase = "apply"  BY <1>6 DEF Applied
  <2>2. /\ UNCHANGED <<disk, version, shown>> /\ req[r] \in Request
        /\ req' = [req EXCEPT ![r] = Queued(req[r])]
    BY <1>1, <1>6, <2>1, AppliedStep
  <2> DEFINE q == Queued(req[r])
  <2>3. /\ q \in Request /\ SameCopy(q, req[r]) /\ q.phase = "record"
        /\ q.plan = req[r].plan /\ q.clash = req[r].clash
    BY <2>2, QueuedFields
  <2>4. req' = [req EXCEPT ![r] = q]  BY <2>2
  <2> HIDE DEF q
  <2>5. ASSUME NEW x \in Replaced  PROVE RequestOK(q, x, disk[x], version[x])
    BY <1>1, <2>1, <2>3, SamePlan DEF SameCopy
  <2>6. QED  BY <1>0, <2>2, <2>3, <2>4, <2>5, QuietRequest
<1>7. CASE CheckFile(r)
  <2>1. req[r].phase = "check"  BY <1>7 DEF CheckFile
  <2>2. /\ UNCHANGED <<disk, version, shown>> /\ req[r] \in Request
        /\ \/ req' = [req EXCEPT ![r] = Rest]
           \/ \E q \in {req[r], Conflicted(req[r])} : req' = [req EXCEPT ![r] = Queued(q)]
    BY <1>1, <1>7, <2>1, CheckFileStep
  <2>3. CASE req' = [req EXCEPT ![r] = Rest]  BY <2>2, <2>3, QuietRest
  <2>4. ASSUME NEW c \in {req[r], Conflicted(req[r])}, req' = [req EXCEPT ![r] = Queued(c)]
        PROVE  Quiet(r)
    <3>1. /\ c \in Request /\ c.plan = req[r].plan /\ c.clash = req[r].clash
          /\ c.confirm = req[r].confirm
      BY <2>2, ConflictedFields
    <3> DEFINE q == Queued(c)
    <3>2. /\ q \in Request /\ SameCopy(q, c) /\ q.phase = "record"
          /\ q.plan = c.plan /\ q.clash = c.clash
      BY <3>1, QueuedFields
    <3>3. req' = [req EXCEPT ![r] = q]  BY <2>4
    <3> HIDE DEF q
    <3>4. ASSUME NEW x \in Replaced  PROVE RequestOK(q, x, disk[x], version[x])
      BY <1>1, <2>1, <3>1, <3>2, SamePlan DEF SameCopy
    <3>5. QED  BY <1>0, <2>2, <3>2, <3>3, <3>4, QuietRequest
  <2>5. QED  BY <2>2, <2>3, <2>4
<1>8. CASE Finish(r)
  <2>1. /\ UNCHANGED <<disk, version, shown>>
        /\ \/ req' = [req EXCEPT ![r] = Rest]
           \/ \E q \in Request : req' = [req EXCEPT ![r] = q] /\ Starts(q)
    BY <1>8, FinishStep
  <2>2. CASE req' = [req EXCEPT ![r] = Rest]  BY <2>1, <2>2, QuietRest
  <2>3. ASSUME NEW q \in Request, req' = [req EXCEPT ![r] = q], Starts(q)
        PROVE  Quiet(r)
    BY <1>0, <2>1, <2>3, StartedOK, QuietRequest
  <2>4. QED  BY <2>1, <2>2, <2>3
<1>9. CASE Fails(r)
  BY <1>9, FailStep, QuietRest
<1>10. QED
  BY <1>2, <1>3, <1>4, <1>5, <1>6, <1>7, <1>8, <1>9, StartStep DEF RequestStep

-----------------------------------------------------------------------------
\* Every such file keeps its content and version, or gets the next version.
FilesMove ==
  \A p \in Replaced :
    \/ disk'[p] = disk[p] /\ version'[p] = version[p]
    \/ disk'[p] # NoFile /\ version'[p] = version[p] + 1

\* What others saw or planned stays good when files move on.
LEMMA OthersOK ==
  ASSUME TypeOK, OverInv, FilesMove
  PROVE  /\ \A p \in Replaced : disk'[p] # NoFile
         /\ \A p \in Replaced : SightOK(shown[p], disk'[p], version'[p])
         /\ \A r \in Requests, p \in Replaced :
              Active(r) => RequestOK(req[r], p, disk'[p], version'[p])
<1>1. ASSUME NEW p \in Replaced
      PROVE  disk'[p] # NoFile /\ SightOK(shown[p], disk'[p], version'[p])
  <2>1. shown[p] \in Sights \cup {Unseen} /\ version[p] \in Nat
    BY DEF TypeOK, Seen
  <2>2. disk[p] # NoFile /\ SightOK(shown[p], disk[p], version[p])  BY DEF OverInv
  <2>3. CASE disk'[p] = disk[p] /\ version'[p] = version[p]  BY <2>2, <2>3
  <2>4. CASE disk'[p] # NoFile /\ version'[p] = version[p] + 1
    <3>1. SightOK(shown[p], disk'[p], version[p] + 1)  BY <2>1, <2>2, NewerSight
    <3>2. QED  BY <2>4, <3>1
  <2>5. QED  BY <2>3, <2>4 DEF FilesMove
<1>2. ASSUME NEW r \in Requests, NEW p \in Replaced, Active(r)
      PROVE  RequestOK(req[r], p, disk'[p], version'[p])
  <2>1. req[r] \in Request /\ version[p] \in Nat
    BY <1>2, ActiveRequest DEF Active, Free, TypeOK
  <2>2. RequestOK(req[r], p, disk[p], version[p])  BY <1>2 DEF OverInv
  <2>3. CASE disk'[p] = disk[p] /\ version'[p] = version[p]  BY <2>2, <2>3
  <2>4. CASE disk'[p] # NoFile /\ version'[p] = version[p] + 1
    <3>1. RequestOK(req[r], p, disk'[p], version[p] + 1)  BY <2>1, <2>2, NewerRequest
    <3>2. QED  BY <2>4, <3>1
  <2>5. QED  BY <2>3, <2>4 DEF FilesMove
<1>3. QED  BY <1>1, <1>2

LEMMA SavedMoves ==
  ASSUME OnlySaves, TypeOK, OverInv, NEW r \in Requests, NEW p \in Replaced, Saved(r, p)
  PROVE  /\ FilesMove
         /\ \A x \in Replaced : RequestOK(Wrote(req[r], p, version[p] + 1), x, disk'[x], version'[x])
<1>1. /\ req[r] \in Request /\ req[r].op \in {"decide", "rollback"} /\ req[r].phase = "apply"
      /\ p \in req[r].todo /\ req[r].plan[p].action = "save"
      /\ disk' = [disk EXCEPT ![p] = req[r].plan[p].content]
      /\ version' = [version EXCEPT ![p] = version[p] + 1]
  BY DEF Saved
<1>2. disk \in [Paths -> Contents] /\ version \in [Paths -> Nat]  BY DEF TypeOK
<1>3. Active(r)  BY <1>1 DEF Active, Free
<1>4. req[r].plan[p].content # NoFile  BY <1>1, <1>3 DEF OverInv, RequestOK
<1>5. FilesMove  BY <1>1, <1>2, <1>4 DEF FilesMove
<1> DEFINE q == req[r]
           v == version[p] + 1
           w == Wrote(q, p, v)
<1>6. v \in Nat  BY <1>2
<1>7. \A x \in Replaced : RequestOK(q, x, disk'[x], version'[x])  BY <1>3, <1>5, OthersOK
<1> HIDE DEF v
<1>8. w \in Request /\ SameCopy(w, q) /\ w.phase = q.phase /\ w.todo = q.todo \ {p}
      /\ w.clash = q.clash
  BY <1>1, <1>6, WroteShape
<1>9. /\ \A x \in Paths : x # p => w.plan[x] = q.plan[x]
      /\ w.plan[p].action = q.plan[p].action /\ w.plan[p].content = q.plan[p].content
  BY <1>1, <1>6, WrotePlan
<1> HIDE DEF w
<1>10. ASSUME NEW x \in Replaced  PROVE RequestOK(w, x, disk'[x], version'[x])
  <2>1. RequestOK(q, x, disk'[x], version'[x])  BY <1>7
  <2>2. CASE x # p
    <3>1. w.op = q.op /\ w.confirm = q.confirm /\ (Doing(w, x) => Doing(q, x))
      BY <1>8 DEF SameCopy, Doing
    <3>2. QED  BY <1>8, <1>9, <2>1, <2>2, <3>1, SamePlan
  <2>3. CASE x = p
    <3>1. ~Doing(w, p) /\ w.confirm = q.confirm  BY <1>1, <1>8 DEF Doing, SameCopy
    <3>2. QED  BY <1>8, <1>9, <2>1, <2>3, <3>1 DEF RequestOK, WriteOK
  <2>4. QED  BY <2>2, <2>3
<1>11. QED  BY <1>5, <1>10 DEF v, w

\* The new state of one request is as good as the others.
LEMMA JoinRequests ==
  ASSUME TypeOK, OverInv, FilesMove, NEW r \in Requests, NEW q \in Request \cup {Rest},
         req' = [req EXCEPT ![r] = q],
         q # Rest => \A p \in Replaced : RequestOK(q, p, disk'[p], version'[p]),
         \A p \in Replaced : SightOK(shown'[p], disk'[p], version'[p])
  PROVE  OverInv'
<1>1. req'[r] = q /\ \A s \in Requests : s # r => req'[s] = req[s]  BY DEF TypeOK
<1>2. ASSUME NEW s \in Requests, NEW p \in Replaced, req'[s].phase # "rest"
      PROVE  RequestOK(req'[s], p, disk'[p], version'[p])
  <2>1. CASE s = r  BY <1>1, <1>2, <2>1, Disjoint
  <2>2. CASE s # r
    <3>1. Active(s) /\ req'[s] = req[s]  BY <1>1, <1>2, <2>2 DEF Active, Free
    <3>2. QED  BY <3>1, OthersOK
  <2>3. QED  BY <2>1, <2>2
<1>3. \A p \in Replaced : disk'[p] # NoFile  BY OthersOK
<1>4. QED  BY <1>2, <1>3 DEF OverInv, Active, Free

LEMMA OverStep ==
  ASSUME OnlySaves, TypeOK, Shapes, OverInv, [Next]_vars
  PROVE  OverInv'
<1>1. /\ (UNCHANGED <<disk, version>>) => FilesMove
      /\ StillReplaced => FilesMove
  BY DEF FilesMove, StillReplaced
<1>2. ASSUME NEW p \in Paths, UserStep(p)  PROVE OverInv'
  <2>1. /\ UNCHANGED <<shown, req>>
        /\ \A x \in Paths : x # p => disk'[x] = disk[x] /\ version'[x] = version[x]
        /\ disk'[p] \in File /\ version'[p] = version[p] + 1
    BY <1>2, UserFields DEF OnlySaves
  <2>2. FilesMove  BY <2>1, Disjoint DEF FilesMove
  <2>3. QED  BY <2>1, <2>2, OthersOK DEF OverInv, Active, Free
<1>3. ASSUME NEW r \in Requests, RequestStep(r)  PROVE OverInv'
  <2>1. CASE Quiet(r)
    <3>1. PICK q \in Request \cup {Rest} :
            /\ req' = [req EXCEPT ![r] = q]
            /\ q # Rest => \A p \in Replaced : RequestOK(q, p, disk[p], version[p])
      BY <2>1 DEF Quiet
    <3>2. /\ StillReplaced
          /\ \A p \in Replaced : SightOK(shown'[p], disk[p], version[p])
      BY <2>1 DEF Quiet
    <3>3. QED  BY <1>1, <3>1, <3>2, JoinRequests DEF StillReplaced
  <2>2. ASSUME NEW p \in Replaced, Saved(r, p)  PROVE OverInv'
    <3>1. /\ FilesMove
          /\ \A x \in Replaced : RequestOK(Wrote(req[r], p, version[p] + 1), x, disk'[x], version'[x])
      BY <2>2, SavedMoves
    <3> DEFINE w == Wrote(req[r], p, version[p] + 1)
    <3>2. w \in Request
      <4>1. version[p] + 1 \in Nat /\ req[r] \in Request  BY <2>2 DEF TypeOK, Saved
      <4>2. QED  BY <4>1, WroteShape
    <3>3. req' = [req EXCEPT ![r] = w] /\ shown' = shown  BY <2>2 DEF Saved
    <3>4. \A x \in Replaced : RequestOK(w, x, disk'[x], version'[x])  BY <3>1
    <3> HIDE DEF w
    <3>5. w \in Request \cup {Rest}  BY <3>2
    <3>6. QED  BY <3>1, <3>3, <3>4, <3>5, OthersOK, JoinRequests
  <2>3. QED  BY <1>3, <2>1, <2>2, QuietOrSaved
<1>4. CASE MutationFails
  <2>1. PICK r \in Requests : UNCHANGED <<disk, version, shown>> /\ req' = [req EXCEPT ![r] = Rest]
    BY <1>4, MutationFailStep DEF Shapes
  <2>2. Rest \in Request \cup {Rest}  OBVIOUS
  <2>3. QED  BY <1>1, <2>1, <2>2, JoinRequests DEF OverInv
<1>5. CASE Record
  <2>1. PICK r \in Requests :
           /\ UNCHANGED <<disk, version, shown>>
           /\ req[r] \in Request /\ req[r].phase = "record"
           /\ \/ req' = [req EXCEPT ![r] = Rest]
              \/ req' = [req EXCEPT ![r] = Finishing(req[r])]
    BY <1>5, RecordStep DEF Shapes
  <2>2. CASE req' = [req EXCEPT ![r] = Rest]
    <3>1. Rest \in Request \cup {Rest}  OBVIOUS
    <3>2. QED  BY <1>1, <2>1, <2>2, <3>1, JoinRequests DEF OverInv
  <2>3. CASE req' = [req EXCEPT ![r] = Finishing(req[r])]
    <3> DEFINE q == Finishing(req[r])
    <3>1. /\ q \in Request /\ SameCopy(q, req[r]) /\ q.phase = "finish"
          /\ q.plan = req[r].plan /\ q.clash = req[r].clash
      BY <2>1, FinishingFields
    <3>2. req' = [req EXCEPT ![r] = q]  BY <2>3
    <3> HIDE DEF q
    <3>3. ASSUME NEW p \in Replaced  PROVE RequestOK(q, p, disk'[p], version'[p])
      <4>1. RequestOK(req[r], p, disk[p], version[p])  BY <2>1 DEF OverInv, Active, Free
      <4>2. RequestOK(q, p, disk[p], version[p])  BY <3>1, <4>1, SamePlan DEF SameCopy
      <4>3. QED  BY <2>1, <4>2
    <3>4. q \in Request \cup {Rest}  BY <3>1
    <3>5. QED  BY <1>1, <2>1, <3>2, <3>3, <3>4, JoinRequests DEF OverInv
  <2>4. QED  BY <2>1, <2>2, <2>3
<1>6. CASE UNCHANGED vars
  BY <1>6 DEF vars, OverInv, Active, Free
<1>7. QED  BY <1>2, <1>3, <1>4, <1>5, <1>6 DEF Next

LEMMA InitOver == Init => OverInv
<1> SUFFICES ASSUME Init PROVE OverInv  OBVIOUS
<1>1. /\ TypeOK /\ shown = [p \in Paths |-> Unseen] /\ req = [r \in Requests |-> Rest]
      /\ disk = [p \in Paths |-> Reviewed(p, cs.hunk, cs.after)]
  BY InitTypes
<1>2. cs.hunk \in Decisions /\ cs.after \in Proposals  BY <1>1 DEF TypeOK, ChangeSet
<1>3. ASSUME NEW p \in Replaced  PROVE disk[p] # NoFile /\ SightOK(shown[p], disk[p], version[p])
  BY <1>1, <1>2, ReviewedType DEF SightOK
<1>4. \A r \in Requests : ~Active(r)  BY <1>1, Disjoint DEF Active, Free
<1>5. QED  BY <1>3, <1>4 DEF OverInv

LEMMA OverInvariant == ASSUME OnlySaves PROVE Spec => [](TypeOK /\ Shapes /\ OverInv)
<1>1. (TypeOK /\ Shapes) /\ OverInv /\ [Next]_vars => OverInv'
  BY OverStep
<1>2. QED  BY <1>1, InitOver, TypeCorrect, PTL DEF Spec

\* Only the save of a file by a request takes a user's edit out of it.
LEMMA Losses ==
  ASSUME OnlySaves, TypeOK, Shapes, OverInv, [Next]_vars,
         NEW r \in Requests, NEW p \in Replaced, LosesUserEdit(r, p)
  PROVE  /\ Saved(r, p) /\ disk[p].own # 0 /\ ~(disk'[p].own = disk[p].own)
         /\ WriteOK(req[r], p, disk[p], version[p]) /\ Doing(req[r], p)
<1>1. /\ req'[r] # req[r] /\ disk[p].own # 0
      /\ disk'[p] = NoFile \/ disk'[p].own < disk[p].own
  BY DEF LosesUserEdit
<1>2. disk[p] \in File /\ disk[p].own \in Nat /\ disk[p] # NoFile
  BY SightsOK, Disjoint DEF File
<1>3. disk'[p] # disk[p]  BY <1>1, <1>2
<1>4. \A x \in Paths : ~UserStep(x)  BY <1>1, UserFields
<1>5. ~Record /\ ~MutationFails /\ ~UNCHANGED vars
  BY <1>3 DEF Record, MutationFails, vars
<1>6. PICK s \in Requests : RequestStep(s)  BY <1>4, <1>5 DEF Next
<1>7. PICK x \in Replaced : Saved(s, x)  BY <1>3, <1>6, QuietOrSaved
  DEF Quiet, StillReplaced
<1>8. s = r  BY <1>1, <1>7 DEF Saved, TypeOK
<1>9. x = p  BY <1>1, <1>2, <1>7 DEF Saved, TypeOK
<1>10. /\ disk' = [disk EXCEPT ![p] = req[r].plan[p].content] /\ Active(r)
       /\ req[r].plan[p].action = "save" /\ Doing(req[r], p)
  BY <1>7, <1>8, <1>9 DEF Saved, Active, Free, Doing
<1>11. WriteOK(req[r], p, disk[p], version[p]) /\ req[r].plan[p].content # NoFile
  BY <1>10 DEF OverInv, RequestOK
<1>12. disk'[p] # NoFile  BY <1>10, <1>11 DEF TypeOK
<1>13. QED  BY <1>1, <1>2, <1>7, <1>8, <1>9, <1>10, <1>11, <1>12

\* However many requests are in flight: when users only save, a decision takes a
\* user's edit out of a file that the change replaces only if the reviewer confirmed
\* exactly the content and the version that it overwrites.
THEOREM OverwritesWereShown == ASSUME ~UsersRestructure PROVE Spec => OverwriteWasShown
<1>1. ASSUME TypeOK, Shapes, OverInv, [Next]_vars
      PROVE  \A r \in Requests, p \in Paths \ Creates :
               Performs(r, "decide") /\ LosesUserEdit(r, p) => req[r].confirm[p] = Sight(p)
  <2> SUFFICES ASSUME NEW r \in Requests, NEW p \in Replaced, Performs(r, "decide"),
                      LosesUserEdit(r, p)
               PROVE  req[r].confirm[p] = Sight(p)
    OBVIOUS
  <2>1. /\ Saved(r, p) /\ disk[p].own # 0
        /\ WriteOK(req[r], p, disk[p], version[p]) /\ Doing(req[r], p)
    BY <1>1, Losses DEF OnlySaves
  <2>2. req[r].confirm[p] = [version |-> version[p], content |-> disk[p]]
    BY <2>1 DEF Performs, WriteOK, Saved
  <2>3. QED  BY <1>1, <2>2, SightsOK
<1>2. TypeOK /\ Shapes /\ OverInv /\ [Next]_vars =>
        [\A r \in Requests, p \in Paths \ Creates :
           Performs(r, "decide") /\ LosesUserEdit(r, p) => req[r].confirm[p] = Sight(p)]_vars
  BY <1>1
<1>3. OnlySaves  BY DEF OnlySaves
<1>4. QED  BY <1>2, <1>3, OverInvariant, PTL DEF Spec, OverwriteWasShown

\* However many requests are in flight: when users only save, a rollback takes a
\* user's edit out of a file that the change replaces only by the content that the
\* reviewer gave for exactly what the file holds, or because it found another
\* occurrence of an accepted text in exactly that content.
THEOREM RollbackKeepsEdits == ASSUME ~UsersRestructure PROVE Spec => RollbackKeepsUserEdits
<1>1. ASSUME TypeOK, Shapes, OverInv, [Next]_vars
      PROVE  \A r \in Requests, p \in Paths \ Creates :
               Performs(r, "rollback") /\ LosesUserEdit(r, p) =>
                 Sight(p) \in {req[r].confirm[p], req[r].plan[p].copy}
  <2> SUFFICES ASSUME NEW r \in Requests, NEW p \in Replaced, Performs(r, "rollback"),
                      LosesUserEdit(r, p)
               PROVE  Sight(p) \in {req[r].confirm[p], req[r].plan[p].copy}
    OBVIOUS
  <2>1. /\ Saved(r, p) /\ ~(disk'[p].own = disk[p].own)
        /\ WriteOK(req[r], p, disk[p], version[p]) /\ Doing(req[r], p)
    BY <1>1, Losses DEF OnlySaves
  <2>2. disk'[p] = req[r].plan[p].content  BY <1>1, <2>1 DEF Saved, TypeOK
  <2>3. [version |-> version[p], content |-> disk[p]]
          \in {req[r].confirm[p], req[r].plan[p].copy}
    BY <2>1, <2>2 DEF Performs, WriteOK, Saved
  <2>4. QED  BY <1>1, <2>3, SightsOK
<1>2. TypeOK /\ Shapes /\ OverInv /\ [Next]_vars =>
        [\A r \in Requests, p \in Paths \ Creates :
           Performs(r, "rollback") /\ LosesUserEdit(r, p) =>
             Sight(p) \in {req[r].confirm[p], req[r].plan[p].copy}]_vars
  BY <1>1
<1>3. OnlySaves  BY DEF OnlySaves
<1>4. QED  BY <1>2, <1>3, OverInvariant, PTL DEF Spec, RollbackKeepsUserEdits

HIDE DEF Replaced

-----------------------------------------------------------------------------
(* Recorded versions, with one request at a time and users who only save.     *)

\* No two requests are in flight together.
OneRequest == \A r, s \in Requests : r = s

\* Then the copy of a request is the stored ChangeSet until it is recorded.
Fresh == \A r \in Requests : Active(r) /\ req[r].phase # "finish" => req[r].from = cs

LEMMA FreshStep ==
  ASSUME OneRequest, TypeOK, Shapes, EditInv, Fresh, [Next]_vars
  PROVE  Fresh'
<1>1. ASSUME UNCHANGED <<cs, req>>  PROVE Fresh'
  BY <1>1 DEF Fresh, Active, Free
<1>2. ASSUME NEW r \in Requests, req'[r].phase \in {"rest", "finish"}  PROVE Fresh'
  <2>1. \A s \in Requests : s = r  BY DEF OneRequest
  <2>2. QED  BY <1>2, <2>1 DEF Fresh, Active, Free
<1>3. ASSUME NEW r \in Requests, RequestStep(r)  PROVE Fresh'
  <2>1. PICK q \in Request \cup {Rest} :
          /\ req' = [req EXCEPT ![r] = q]
          /\ q # Rest =>
               \/ q.from = cs
               \/ req[r] \in Request /\ req[r].phase # "finish" /\ q.from = req[r].from
    BY <1>3, CopiesKept DEF CopyMoves
  <2>2. req[r] \in Request /\ req[r].phase # "finish" => req[r].from = cs
    BY Disjoint DEF Fresh, Active, Free
  <2>3. cs' = cs  BY <1>3, RequestMoves DEF Typed
  <2>4. req'[r] = q /\ \A s \in Requests : s = r  BY <2>1 DEF TypeOK, OneRequest
  <2>5. q = Rest => q.phase = "rest"  BY Disjoint
  <2>6. QED  BY <2>1, <2>2, <2>3, <2>4, <2>5 DEF Fresh, Active, Free
<1>4. CASE MutationFails
  <2>1. PICK r \in Requests : req' = [req EXCEPT ![r] = Rest]
    BY <1>4, MutationFailStep DEF Shapes
  <2>2. req'[r].phase = "rest"  BY <2>1, Disjoint DEF TypeOK
  <2>3. QED  BY <1>2, <2>2
<1>5. CASE Record
  <2>1. PICK r \in Requests :
          /\ req[r] \in Request
          /\ \/ req' = [req EXCEPT ![r] = Rest]
             \/ req' = [req EXCEPT ![r] = Finishing(req[r])]
    BY <1>5, RecordStep DEF Shapes
  <2>2. Finishing(req[r]).phase = "finish"  BY <2>1, FinishingFields
  <2>3. req'[r].phase \in {"rest", "finish"}  BY <2>1, <2>2, Disjoint DEF TypeOK
  <2>4. QED  BY <1>2, <2>3
<1>6. ASSUME NEW p \in Paths, UserStep(p)  PROVE Fresh'
  BY <1>1, <1>6, UserFields
<1>7. CASE UNCHANGED vars  BY <1>1, <1>7 DEF vars
<1>8. QED  BY <1>3, <1>4, <1>5, <1>6, <1>7 DEF Next

LEMMA FreshInvariant ==
  ASSUME OneRequest PROVE Spec => [](TypeOK /\ Shapes /\ EditInv /\ Fresh)
<1>1. Init => Fresh
  <2> SUFFICES ASSUME Init PROVE Fresh  OBVIOUS
  <2>1. req = [r \in Requests |-> Rest]  BY InitTypes
  <2>2. QED  BY <2>1, Disjoint DEF Fresh, Active, Free
<1>2. (TypeOK /\ Shapes /\ EditInv) /\ Fresh /\ [Next]_vars => Fresh'
  BY FreshStep
<1>3. QED  BY <1>1, <1>2, EditInvariant, PTL DEF Spec

\* A file that is recorded at its version holds what was accepted of it.
Kept(c, p, d, v) ==
  c.status \in Reviewing \cup {"accepted"} /\ d # NoFile /\ Reviewed(p, c.hunk, c.after) # NoFile
  => c.expected[p] =< v /\ (v = c.expected[p] => d = Reviewed(p, c.hunk, c.after))

\* Request q has not come to file p yet.
Awaiting(q, p) == q.phase = "prepare" \/ (q.phase = "apply" /\ p \in q.todo)

\* The version in the plan is that of a file with the decided content.
Settled(q, p) ==
  q.plan[p].action = "seen" \/ (q.plan[p].action # "skip" /\ ~Awaiting(q, p))

DecisionOK(q, p, d, v) ==
  /\ q.plan[p].action = "skip" =>
       \/ Before(q, p) = Result(q, p)
       \/ q.phase = "prepare" /\ (p \in q.todo \/ q.clash[p] # Unseen)
  /\ q.plan[p].action # "skip" => Before(q, p) # Result(q, p)
  /\ q.plan[p].action \in {"save", "create"} => q.plan[p].content = Result(q, p)
  /\ q.plan[p].action = "delete" => Result(q, p) = NoFile
  /\ Settled(q, p) /\ Result(q, p) # NoFile =>
       /\ q.plan[p].version >= 1
       /\ d # NoFile => q.plan[p].version =< v /\ (v = q.plan[p].version => d = Result(q, p))

PlanOK(q, p, d, v) ==
  /\ q.plan[p].action = "delete" => p \in Creates
  /\ q.plan[p].action \in {"save", "create"} => q.plan[p].content # NoFile
  /\ q.op = "rollback" => q.plan[p].action # "create"
  /\ q.op = "decide" /\ q.phase # "finish" => DecisionOK(q, p, d, v)

FilesOK == \A p \in Paths :
             (disk[p] # NoFile => version[p] >= 1) /\ (p \notin Creates => disk[p] # NoFile)
KeptOK  == \A p \in Paths : Kept(cs, p, disk[p], version[p])
PlansOK == \A r \in Requests, p \in Paths :
             Active(r) => PlanOK(req[r], p, disk[p], version[p])
RecInv  == FilesOK /\ KeptOK /\ PlansOK

-----------------------------------------------------------------------------
LEMMA ReviewedSame ==
  ASSUME NEW p, NEW hunk \in Decisions, NEW after \in Proposals,
         NEW hunk2 \in Decisions, NEW after2 \in Proposals,
         \A h \in Hunks : PathOf[h] = p =>
           /\ hunk[h] = "accepted" <=> hunk2[h] = "accepted"
           /\ hunk[h] = "accepted" => after[h] = after2[h]
  PROVE  Reviewed(p, hunk, after) = Reviewed(p, hunk2, after2)
<1>1. [h \in Hunks |-> IF PathOf[h] = p /\ hunk[h] = "accepted" THEN after[h] ELSE Original]
      = [h \in Hunks |-> IF PathOf[h] = p /\ hunk2[h] = "accepted" THEN after2[h] ELSE Original]
  <2>1. ASSUME NEW h \in Hunks
        PROVE  (IF PathOf[h] = p /\ hunk[h] = "accepted" THEN after[h] ELSE Original)
               = (IF PathOf[h] = p /\ hunk2[h] = "accepted" THEN after2[h] ELSE Original)
    <3>1. CASE PathOf[h] = p /\ hunk[h] = "accepted"  BY <3>1
    <3>2. CASE ~(PathOf[h] = p /\ hunk[h] = "accepted")  BY <3>2
    <3>3. QED  BY <3>1, <3>2
  <2>2. QED  BY <2>1
<1>2. (\A h \in HunksOf(p) : hunk[h] # "accepted")
      <=> (\A h \in HunksOf(p) : hunk2[h] # "accepted")
  BY DEF HunksOf
<1>3. QED  BY <1>1, <1>2 DEF Reviewed

LEMMA RequestTypes ==
  ASSUME NEW q \in Request, NEW p \in Paths
  PROVE  /\ q.hunk \in Decisions /\ q.from.hunk \in Decisions /\ q.from.after \in Proposals
         /\ Before(q, p) \in Contents /\ Result(q, p) \in Contents
         /\ p \notin Creates => Before(q, p) # NoFile /\ Result(q, p) # NoFile
<1>1. q.hunk \in Decisions /\ q.from.hunk \in Decisions /\ q.from.after \in Proposals
  BY DEF Request, ChangeSet
<1>2. QED  BY <1>1, ReviewedType DEF Before, Result

\* A file none of whose decisions change keeps its content.
LEMMA Untouched ==
  ASSUME NEW q \in Request, NEW p \in Paths, p \notin Touched(q)
  PROVE  Before(q, p) = Result(q, p)
<1>1. \A h \in Hunks : PathOf[h] = p => q.hunk[h] = q.from.hunk[h]  BY DEF Touched
<1>2. QED  BY <1>1, RequestTypes, ReviewedSame DEF Before, Result

\* The one hunk of a created file is accepted before and after, or not at all.
LEMMA CreatedOnce ==
  ASSUME NEW q \in Request, NEW p \in Paths, p \in Creates,
         Before(q, p) # NoFile, Result(q, p) # NoFile
  PROVE  Before(q, p) = Result(q, p)
<1>1. PICK h \in HunksOf(p) : q.from.hunk[h] = "accepted"  BY DEF Before, Reviewed
<1>2. PICK i \in HunksOf(p) : q.hunk[i] = "accepted"  BY DEF Result, Reviewed
<1>3. \A g, k \in Hunks : PathOf[g] = p /\ PathOf[k] = p => g = k
  BY ChangeSetReviewAssumption DEF ChangeSetReviewAssumption
<1>4. \A g \in Hunks : PathOf[g] = p => g = h /\ g = i
  BY <1>1, <1>2, <1>3 DEF HunksOf
<1>5. QED  BY <1>1, <1>2, <1>4, RequestTypes, ReviewedSame DEF Before, Result

LEMMA KeptNewer ==
  ASSUME NEW c \in ChangeSet, NEW p \in Paths, NEW d, NEW v \in Nat, d # NoFile,
         Kept(c, p, d, v), NEW d2
  PROVE  Kept(c, p, d2, v + 1)
<1>1. c.expected[p] \in Nat  BY DEF ChangeSet
<1>2. QED  BY <1>1 DEF Kept

LEMMA PlanNewer ==
  ASSUME NEW q \in Request, NEW p \in Paths, NEW d, NEW v \in Nat, d # NoFile,
         PlanOK(q, p, d, v), NEW d2
  PROVE  PlanOK(q, p, d2, v + 1)
<1>1. q.plan[p].version \in Nat  BY DEF Request, Plans, Steps
<1>2. DecisionOK(q, p, d, v) => DecisionOK(q, p, d2, v + 1)  BY <1>1 DEF DecisionOK
<1>3. QED  BY <1>2 DEF PlanOK

\* A request that did not go further in its plan for a file.
LEMMA PlanKept ==
  ASSUME NEW q, NEW q2, NEW p, NEW d, NEW v, PlanOK(q, p, d, v), SameCopy(q2, q),
         q2.plan[p] = q.plan[p],
         q2.phase = "finish" \/ q.op # "decide" \/
           /\ q.phase # "finish"
           /\ Settled(q2, p) => Settled(q, p)
           /\ q.phase = "prepare" /\ (p \in q.todo \/ q.clash[p] # Unseen) =>
                q2.phase = "prepare" /\ (p \in q2.todo \/ q2.clash[p] # Unseen)
  PROVE  PlanOK(q2, p, d, v)
<1>1. Before(q2, p) = Before(q, p) /\ Result(q2, p) = Result(q, p) /\ q2.op = q.op
  BY DEF SameCopy, Before, Result
<1>2. CASE q2.phase = "finish" \/ q.op # "decide"
  BY <1>1, <1>2 DEF PlanOK
<1>3. CASE /\ q.phase # "finish"
           /\ Settled(q2, p) => Settled(q, p)
           /\ q.phase = "prepare" /\ (p \in q.todo \/ q.clash[p] # Unseen) =>
                q2.phase = "prepare" /\ (p \in q2.todo \/ q2.clash[p] # Unseen)
  <2>1. DecisionOK(q, p, d, v) => DecisionOK(q2, p, d, v)
    BY <1>1, <1>3 DEF DecisionOK
  <2>2. QED  BY <1>1, <1>3, <2>1 DEF PlanOK
<1>4. QED  BY <1>2, <1>3

-----------------------------------------------------------------------------
LEMMA StartedPlan ==
  ASSUME NEW q \in Request, Starts(q), q.op # "decide", NEW p \in Paths, NEW d, NEW v
  PROVE  PlanOK(q, p, d, v)
  BY DEF Starts, PlanOK, Skip

LEMMA DecidedPlan ==
  ASSUME TypeOK, NEW A \in SUBSET Hunks, NEW R \in SUBSET Hunks, NEW override,
         NEW q \in Request, Decides(q, A, R, override), NEW p \in Paths, NEW d, NEW v
  PROVE  PlanOK(q, p, d, v)
<1>1. q.plan[p] = Skip /\ Skip.action = "skip" /\ q.from = cs
  BY DEF Starts, Skip, Decides
<1>2. CASE p \in q.todo
  BY <1>1, <1>2 DEF PlanOK, DecisionOK, Settled, Decides
<1>3. CASE p \notin q.todo
  <2>1. \A h \in Hunks : PathOf[h] = p => q.hunk[h] = q.from.hunk[h]
    BY <1>1, <1>3 DEF Decided, FilesOf, Decides
  <2>2. p \notin Touched(q)  BY <2>1 DEF Touched
  <2>3. Before(q, p) = Result(q, p)  BY <2>2, Untouched
  <2>4. QED  BY <1>1, <2>3 DEF PlanOK, DecisionOK, Settled
<1>4. QED  BY <1>2, <1>3

\* What the visit of file p makes of the plan for it.
LEMMA PreparedPlan ==
  ASSUME TypeOK, FilesOK, NEW q \in Request, q.op = "decide", q.phase = "prepare",
         NEW p \in Paths, PlanOK(q, p, disk[p], version[p]),
         Before(q, p) # Result(q, p),
         NEW j \in Request, SameCopy(j, q), j.phase = q.phase, j.plan[p] = StepFor(q, p)
  PROVE  PlanOK(j, p, disk[p], version[p])
<1> DEFINE s == StepFor(q, p)
<1>1. /\ s.content = Result(q, p) /\ s.version = Sight(p).version
      /\ s.action = "seen" => disk[p] = Result(q, p)
      /\ s.action = "delete" => Result(q, p) = NoFile
      /\ s.action \in {"save", "create"} => Result(q, p) # NoFile
      /\ s.action # "skip"
  BY StepForType
<1>2. disk[p] # NoFile => s.version = version[p] /\ version[p] >= 1
  BY <1>1, SightType DEF FilesOK
<1> HIDE DEF s
<1>3. Before(j, p) = Before(q, p) /\ Result(j, p) = Result(q, p) /\ j.op = "decide"
  BY DEF SameCopy, Before, Result
<1>4. j.plan[p] = s /\ version[p] \in Nat  BY DEF s, TypeOK
<1>5. DecisionOK(j, p, disk[p], version[p])
  <2>1. Settled(j, p) => s.action = "seen"  BY <1>4 DEF Settled, Awaiting
  <2>2. QED  BY <1>1, <1>2, <1>3, <1>4, <2>1 DEF DecisionOK
<1>6. s.action = "delete" => p \in Creates  BY <1>1, RequestTypes
<1>7. QED  BY <1>1, <1>3, <1>4, <1>5, <1>6 DEF PlanOK

LEMMA RevertedPlan ==
  ASSUME NEW q, q.op = "rollback", NEW p, NEW safe, NEW s, BackOK(q, p, safe, s),
         NEW j, SameCopy(j, q), j.plan[p] = s, NEW d, NEW v
  PROVE  PlanOK(j, p, d, v)
<1>1. s.content # NoFile /\ s.action = IF p \in Creates THEN "delete" ELSE "save"
  BY Disjoint DEF BackOK
<1>2. j.op = "rollback"  BY DEF SameCopy
<1>3. QED  BY <1>1, <1>2 DEF PlanOK

\* From the last visited file to the first write.
LEMMA TurnedPlan ==
  ASSUME NEW j \in Request, NEW p \in Paths, NEW d, NEW v, PlanOK(j, p, d, v),
         j.phase \in {"prepare", "revert"}, j.todo = {}, j.clash[p] = Unseen,
         NEW files \in SUBSET Paths, j.op = "decide" => files = Touched(j)
  PROVE  PlanOK(Turned(j, files), p, d, v)
<1> DEFINE t == Turned(j, files)
<1>1. /\ t \in Request /\ SameCopy(t, j) /\ t.plan = j.plan /\ t.phase = "apply"
      /\ t.todo = files
  BY TurnedFields
<1> HIDE DEF t
<1>2. CASE j.op = "decide"
  <2>1. DecisionOK(j, p, d, v)  BY <1>2 DEF PlanOK
  <2>2. Settled(t, p) => Settled(j, p)
    <3>1. CASE p \in files  BY <1>1, <3>1 DEF Settled, Awaiting
    <3>2. CASE p \notin files
      <4>1. Before(j, p) = Result(j, p)  BY <1>2, <3>2, Untouched
      <4>2. QED  BY <1>1, <2>1, <4>1 DEF DecisionOK, Settled
    <3>3. QED  BY <3>1, <3>2
  <2>3. j.phase # "finish" /\ ~(p \in j.todo \/ j.clash[p] # Unseen)  OBVIOUS
  <2>4. t.plan[p] = j.plan[p]  BY <1>1
  <2>5. PlanOK(t, p, d, v)  BY <1>1, <2>2, <2>3, <2>4, PlanKept
  <2>6. QED  BY <2>5 DEF t
<1>3. CASE j.op # "decide"
  <2>1. t.plan[p] = j.plan[p]  BY <1>1
  <2>2. PlanOK(t, p, d, v)  BY <1>1, <1>3, <2>1, PlanKept
  <2>3. QED  BY <2>2 DEF t
<1>4. QED  BY <1>2, <1>3

-----------------------------------------------------------------------------
\* A step of request r that leaves the files and the ChangeSet alone.
Replans(r) ==
  /\ UNCHANGED <<disk, version, cs>>
  /\ \E q \in Request \cup {Rest} :
       /\ req' = [req EXCEPT ![r] = q]
       /\ q # Rest => \A p \in Paths : PlanOK(q, p, disk[p], version[p])

\* A write of request r to file p.
Written(r, p) ==
  /\ req[r] \in Request /\ req[r].phase = "apply" /\ p \in req[r].todo /\ UNCHANGED cs
  /\ \/ /\ req[r].plan[p].action = "save" /\ disk[p] # NoFile
        /\ version[p] = req[r].plan[p].version
        /\ Writes(r, p, req[r].plan[p].content, req[r].plan[p].version + 1)
     \/ /\ req[r].plan[p].action = "create" /\ disk[p] = NoFile
        /\ Writes(r, p, req[r].plan[p].content, 1)
     \/ /\ req[r].plan[p].action = "delete" /\ disk[p] # NoFile
        /\ Writes(r, p, NoFile, 0)

LEMMA PlansRest ==
  ASSUME NEW r \in Requests, UNCHANGED <<disk, version, cs>>, req' = [req EXCEPT ![r] = Rest]
  PROVE  Replans(r)
<1>1. Rest \in Request \cup {Rest}  OBVIOUS
<1>2. QED  BY <1>1 DEF Replans

LEMMA PlansRequest ==
  ASSUME NEW r \in Requests, UNCHANGED <<disk, version, cs>>,
         NEW q \in Request, req' = [req EXCEPT ![r] = q],
         \A p \in Paths : PlanOK(q, p, disk[p], version[p])
  PROVE  Replans(r)
<1>1. q \in Request \cup {Rest}  OBVIOUS
<1>2. QED  BY <1>1 DEF Replans

LEMMA ContinuesPlans ==
  ASSUME NEW r \in Requests, UNCHANGED <<disk, version, cs>>, NEW j \in Request,
         j.phase \in {"prepare", "revert"}, NEW files \in SUBSET Paths,
         j.op = "decide" => files = Touched(j),
         \A p \in Paths : PlanOK(j, p, disk[p], version[p]), Continues(r, j, files)
  PROVE  Replans(r)
<1>1. CASE req' = [req EXCEPT ![r] = j]  BY <1>1, PlansRequest
<1>2. CASE /\ j.todo = {} /\ \A p \in Paths : j.clash[p] = Unseen
           /\ req' = [req EXCEPT ![r] = Turned(j, files)]
  <2> DEFINE t == Turned(j, files)
  <2>1. t \in Request  BY TurnedFields
  <2>2. \A p \in Paths : PlanOK(t, p, disk[p], version[p])  BY <1>2, TurnedPlan
  <2>3. req' = [req EXCEPT ![r] = t]  BY <1>2
  <2> HIDE DEF t
  <2>4. QED  BY <2>1, <2>2, <2>3, PlansRequest
<1>3. CASE req' = [req EXCEPT ![r] = Rest]  BY <1>3, PlansRest
<1>4. QED  BY <1>1, <1>2, <1>3 DEF Continues

LEMMA DecidePlans ==
  ASSUME TypeOK, NEW r \in Requests, NEW A \in SUBSET Hunks, NEW R \in SUBSET Hunks,
         NEW override \in BOOLEAN, NEW confirm \in BOOLEAN, NEW complete \in BOOLEAN,
         Decide(r, A, R, override, confirm, complete)
  PROVE  \E q \in Request :
           /\ req' = [req EXCEPT ![r] = q]
           /\ \A p \in Paths : PlanOK(q, p, disk[p], version[p])
<1>1. PICK q \in Request : req' = [req EXCEPT ![r] = q] /\ Decides(q, A, R, override)
  <2>1. DecideStarts(r, A, R, override)  BY DecideStep
  <2>2. QED  BY <2>1 DEF DecideStarts
<1>2. \A p \in Paths : PlanOK(q, p, disk[p], version[p])  BY <1>1, DecidedPlan
<1>3. QED  BY <1>1, <1>2

LEMMA PlansOrWritten ==
  ASSUME TypeOK, Shapes, RecInv, NEW r \in Requests, RequestStep(r)
  PROVE  Replans(r) \/ \E p \in Paths : Written(r, p)
<1>1. req[r].phase # "rest" =>
        /\ ShapeOK(req[r]) /\ req[r] \in Request
        /\ \A p \in Paths : PlanOK(req[r], p, disk[p], version[p])
  BY ActiveRequest DEF Shapes, RecInv, PlansOK, Active, Free
<1>2. UNCHANGED cs  BY RequestMoves DEF Typed
<1>3. CASE DecideSome(r) \/ AcceptAll(r) \/ RejectAll(r)
  <2>1. ASSUME NEW A \in SUBSET Hunks, NEW R \in SUBSET Hunks,
               NEW override \in BOOLEAN, NEW confirm \in BOOLEAN, NEW complete \in BOOLEAN,
               Decide(r, A, R, override, confirm, complete)
        PROVE  Replans(r)
    <3>1. UNCHANGED <<disk, version>>  BY <2>1 DEF Decide
    <3>2. PICK q \in Request :
           /\ req' = [req EXCEPT ![r] = q]
           /\ \A p \in Paths : PlanOK(q, p, disk[p], version[p])
      BY <2>1, DecidePlans
    <3>3. QED  BY <1>2, <3>1, <3>2, PlansRequest
  <2>2. \E A, R \in SUBSET Hunks, override, confirm, complete \in BOOLEAN :
           Decide(r, A, R, override, confirm, complete)
    BY <1>3, SomeDecision
  <2>3. QED  BY <2>1, <2>2
<1>4. ASSUME UNCHANGED <<disk, version>>, NEW q \in Request, Starts(q),
             req' = [req EXCEPT ![r] = q], q.op # "decide"
      PROVE  Replans(r)
  BY <1>2, <1>4, StartedPlan, PlansRequest
<1>5. ASSUME NEW h \in Hunks, NEW text \in Texts, EditHunk(r, h, text)
      PROVE  Replans(r)
  <2>1. UNCHANGED <<disk, version>>  BY <1>5 DEF EditHunk
  <2>2. QED  BY <1>4, <1>5, <2>1, EditHunkStep
<1>6. ASSUME NEW p \in Paths, NEW text \in Texts, EditFile(r, p, text)
      PROVE  Replans(r)
  <2>1. UNCHANGED <<disk, version>>  BY <1>6 DEF EditFile
  <2>2. QED  BY <1>4, <1>6, <2>1, EditFileStep
<1>7. ASSUME NEW confirm \in Confirms, Rollback(r, confirm)
      PROVE  Replans(r)
  <2>1. UNCHANGED <<disk, version>>  BY <1>7 DEF Rollback
  <2>2. confirm \in BOOLEAN
    BY ChangeSetReviewAssumption DEF ChangeSetReviewAssumption
  <2>3. QED  BY <1>4, <1>7, <2>1, <2>2, RollbackStep
<1>8. CASE Prepare(r)
  <2>1. req[r].phase = "prepare"  BY <1>8 DEF Prepare
  <2>2. /\ UNCHANGED <<disk, version>> /\ req[r] \in Request /\ req[r].op = "decide"
        /\ \E p \in req[r].todo, j \in Request :
             /\ p \in Paths
             /\ Looks(req[r], p, j, Before(req[r], p) = Result(req[r], p),
                      Matches(req[r], p) \/ Confirmed(req[r], p), StepFor(req[r], p))
             /\ Continues(r, j, Touched(req[r]))
    BY <1>1, <1>8, <2>1, PrepareStep
  <2>3. PICK p \in Paths, j \in Request :
             /\ Looks(req[r], p, j, Before(req[r], p) = Result(req[r], p),
                      Matches(req[r], p) \/ Confirmed(req[r], p), StepFor(req[r], p))
             /\ Continues(r, j, Touched(req[r]))
    BY <2>2
  <2> DEFINE unchanged == Before(req[r], p) = Result(req[r], p)
             safe == Matches(req[r], p) \/ Confirmed(req[r], p)
  <2>4. StepFor(req[r], p) \in Steps  BY <2>2, StepForType
  <2>5. unchanged \in BOOLEAN /\ safe \in BOOLEAN  BY DEF Matches, Confirmed
  <2>6. Looks(req[r], p, j, unchanged, safe, StepFor(req[r], p))  BY <2>3
  <2>7. unchanged <=> (Before(req[r], p) = Result(req[r], p))  OBVIOUS
  <2> HIDE DEF unchanged, safe
  <2>8. /\ SameCopy(j, req[r]) /\ j.phase = req[r].phase /\ j.todo = req[r].todo \ {p}
        /\ \A x \in Paths : x # p => j.plan[x] = req[r].plan[x] /\ j.clash[x] = req[r].clash[x]
        /\ j.plan[p] = IF ~unchanged /\ safe THEN StepFor(req[r], p) ELSE req[r].plan[p]
        /\ j.clash[p] = IF ~unchanged /\ ~safe THEN Sight(p) ELSE req[r].clash[p]
    BY <2>2, <2>4, <2>5, <2>6, LooksFields
  <2>9. ASSUME NEW x \in Paths  PROVE PlanOK(j, x, disk[x], version[x])
    <3>1. PlanOK(req[r], x, disk[x], version[x])  BY <1>1, <2>1
    <3>2. CASE x # p
      <4>1. /\ req[r].phase # "finish" /\ j.plan[x] = req[r].plan[x]
            /\ Settled(j, x) => Settled(req[r], x)
            /\ req[r].phase = "prepare" /\ (x \in req[r].todo \/ req[r].clash[x] # Unseen) =>
                 j.phase = "prepare" /\ (x \in j.todo \/ j.clash[x] # Unseen)
        BY <2>1, <2>8, <3>2 DEF Settled, Awaiting
      <4>2. QED  BY <2>8, <3>1, <4>1, PlanKept
    <3>3. CASE x = p /\ unchanged
      <4>1. j.plan[p] = req[r].plan[p]  BY <2>8, <3>3
      <4>2. Before(j, p) = Result(j, p) /\ j.op = req[r].op
        BY <2>7, <2>8, <3>3 DEF SameCopy, Before, Result
      <4>3. j.plan[p].action = "skip"
        BY <2>1, <2>2, <2>7, <3>1, <3>3, <4>1 DEF PlanOK, DecisionOK
      <4>4. QED  BY <2>2, <3>3, <4>2, <4>3 DEF PlanOK, DecisionOK, Settled
    <3>4. CASE x = p /\ ~unchanged /\ safe
      <4>1. j.plan[p] = StepFor(req[r], p)  BY <2>8, <3>4
      <4>2. QED  BY <2>1, <2>2, <2>7, <2>8, <3>1, <3>4, <4>1, PreparedPlan DEF RecInv
    <3>5. CASE x = p /\ ~unchanged /\ ~safe
      <4>1. j.plan[p] = req[r].plan[p] /\ j.clash[p] # Unseen  BY <2>8, <3>5, SightType
      <4>2. Settled(j, p) => Settled(req[r], p)  BY <2>1, <2>8, <4>1 DEF Settled, Awaiting
      <4>3. QED  BY <2>1, <2>8, <3>1, <3>5, <4>1, <4>2, PlanKept
    <3>6. QED  BY <3>2, <3>3, <3>4, <3>5
  <2>10. Touched(req[r]) \in SUBSET Paths  BY FileSets
  <2>11. Touched(j) = Touched(req[r])  BY <2>8 DEF Touched, SameCopy
  <2>12. QED  BY <1>2, <2>1, <2>2, <2>3, <2>8, <2>9, <2>10, <2>11, ContinuesPlans
<1>9. CASE Revert(r)
  <2>1. req[r].phase = "revert"  BY <1>9 DEF Revert
  <2>2. /\ UNCHANGED <<disk, version>> /\ req[r] \in Request /\ req[r].op = "rollback"
        /\ req' = [req EXCEPT ![r] = Rest] \/ Reverts(r)
    BY <1>1, <1>9, <2>1, RevertStep
  <2>3. CASE req' = [req EXCEPT ![r] = Rest]  BY <1>2, <2>2, <2>3, PlansRest
  <2>4. CASE Reverts(r)
    <3>1. PICK p \in Paths, j \in Request, safe \in BOOLEAN, s \in Steps :
            RevertsTo(r, p, j, safe, s)
      BY <2>2, <2>4, RevertsFields
    <3>2. /\ BackOK(req[r], p, safe, s) /\ SameCopy(j, req[r]) /\ j.phase = req[r].phase
          /\ \A x \in Paths : x # p => j.plan[x] = req[r].plan[x]
          /\ j.plan[p] = IF safe THEN s ELSE req[r].plan[p]
          /\ Continues(r, j, AcceptedIn(req[r].from))
      BY <3>1 DEF RevertsTo
    <3>3. ASSUME NEW x \in Paths  PROVE PlanOK(j, x, disk[x], version[x])
      <4>1. PlanOK(req[r], x, disk[x], version[x]) /\ req[r].op # "decide"  BY <1>1, <2>1, <2>2
      <4>2. CASE j.plan[x] = req[r].plan[x]  BY <3>2, <4>1, <4>2, PlanKept
      <4>3. CASE x = p /\ j.plan[p] = s  BY <2>2, <3>2, <4>3, RevertedPlan
      <4>4. QED  BY <3>2, <4>2, <4>3
    <3>4. AcceptedIn(req[r].from) \in SUBSET Paths  BY FileSets
    <3>5. j.op # "decide"  BY <2>2, <3>2 DEF SameCopy
    <3>6. QED  BY <1>2, <2>1, <2>2, <3>2, <3>3, <3>4, <3>5, ContinuesPlans
  <2>5. QED  BY <2>2, <2>3, <2>4
<1>10. CASE Apply(r)
  <2>1. req[r].phase = "apply"  BY <1>10 DEF Apply
  <2>2. /\ req[r] \in Request /\ req[r].op \in {"decide", "rollback"}
        /\ \E p \in req[r].todo :
              /\ p \in Paths
              /\ \/ req' = [req EXCEPT ![r] = Rest] /\ UNCHANGED <<disk, version>>
                 \/ /\ req[r].plan[p].action = "save" /\ disk[p] # NoFile
                    /\ version[p] = req[r].plan[p].version
                    /\ Writes(r, p, req[r].plan[p].content, req[r].plan[p].version + 1)
                 \/ /\ req[r].plan[p].action = "create" /\ disk[p] = NoFile
                    /\ Writes(r, p, req[r].plan[p].content, 1)
                 \/ /\ req[r].plan[p].action = "delete" /\ disk[p] # NoFile
                    /\ Writes(r, p, NoFile, 0)
                 \/ /\ req[r].plan[p].action \in {"skip", "seen"}
                    /\ req' = [req EXCEPT ![r] = Looked(req[r], p)]
                    /\ UNCHANGED <<disk, version>>
    <3>1. ShapeOK(req[r])  BY <1>1, <2>1
    <3>2. QED  BY <1>10, <3>1, ApplyStep
  <2>3. PICK p \in Paths :
           \/ req' = [req EXCEPT ![r] = Rest] /\ UNCHANGED <<disk, version>>
           \/ Written(r, p)
           \/ /\ req[r].plan[p].action \in {"skip", "seen"}
              /\ req' = [req EXCEPT ![r] = Looked(req[r], p)]
              /\ UNCHANGED <<disk, version>>
    BY <1>2, <2>1, <2>2 DEF Written
  <2>4. CASE req' = [req EXCEPT ![r] = Rest] /\ UNCHANGED <<disk, version>>
    BY <1>2, <2>4, PlansRest
  <2>5. CASE /\ req[r].plan[p].action \in {"skip", "seen"}
             /\ req' = [req EXCEPT ![r] = Looked(req[r], p)]
             /\ UNCHANGED <<disk, version>>
    <3> DEFINE l == Looked(req[r], p)
    <3>1. /\ l \in Request /\ SameCopy(l, req[r]) /\ l.phase = req[r].phase
          /\ l.todo = req[r].todo \ {p} /\ l.plan = req[r].plan
      BY <2>2, LookedFields
    <3>2. req' = [req EXCEPT ![r] = l]  BY <2>5
    <3> HIDE DEF l
    <3>3. ASSUME NEW x \in Paths  PROVE PlanOK(l, x, disk[x], version[x])
      <4>1. PlanOK(req[r], x, disk[x], version[x])  BY <1>1, <2>1
      <4>2. Settled(l, x) => Settled(req[r], x)
        BY <2>1, <2>5, <3>1 DEF Settled, Awaiting
      <4>3. l.plan[x] = req[r].plan[x] /\ req[r].phase # "finish" /\ req[r].phase # "prepare"
        BY <2>1, <3>1
      <4>4. QED  BY <3>1, <4>1, <4>2, <4>3, PlanKept
    <3>4. QED  BY <1>2, <2>5, <3>1, <3>2, <3>3, PlansRequest
  <2>6. QED  BY <2>3, <2>4, <2>5
<1>11. CASE Applied(r)
  <2>1. req[r].phase = "apply"  BY <1>11 DEF Applied
  <2>2. /\ UNCHANGED <<disk, version>> /\ req[r] \in Request /\ req[r].todo = {}
        /\ req' = [req EXCEPT ![r] = Queued(req[r])]
    BY <1>1, <1>11, <2>1, AppliedStep
  <2> DEFINE q == Queued(req[r])
  <2>3. /\ q \in Request /\ SameCopy(q, req[r]) /\ q.phase = "record"
        /\ q.plan = req[r].plan
    BY <2>2, QueuedFields
  <2>4. req' = [req EXCEPT ![r] = q]  BY <2>2
  <2> HIDE DEF q
  <2>5. ASSUME NEW x \in Paths  PROVE PlanOK(q, x, disk[x], version[x])
    <3>1. PlanOK(req[r], x, disk[x], version[x])  BY <1>1, <2>1
    <3>2. Settled(q, x) => Settled(req[r], x)
      BY <2>1, <2>2, <2>3 DEF Settled, Awaiting
    <3>3. q.plan[x] = req[r].plan[x] /\ req[r].phase # "finish" /\ req[r].phase # "prepare"
      BY <2>1, <2>3
    <3>4. QED  BY <2>3, <3>1, <3>2, <3>3, PlanKept
  <2>6. QED  BY <1>2, <2>2, <2>3, <2>4, <2>5, PlansRequest
<1>12. CASE CheckFile(r)
  <2>1. req[r].phase = "check"  BY <1>12 DEF CheckFile
  <2>2. /\ UNCHANGED <<disk, version>> /\ req[r] \in Request /\ req[r].op = "editFile"
        /\ \/ req' = [req EXCEPT ![r] = Rest]
           \/ \E q \in {req[r], Conflicted(req[r])} : req' = [req EXCEPT ![r] = Queued(q)]
    BY <1>1, <1>12, <2>1, CheckFileStep
  <2>3. CASE req' = [req EXCEPT ![r] = Rest]  BY <1>2, <2>2, <2>3, PlansRest
  <2>4. ASSUME NEW c \in {req[r], Conflicted(req[r])}, req' = [req EXCEPT ![r] = Queued(c)]
        PROVE  Replans(r)
    <3>1. c \in Request /\ c.plan = req[r].plan /\ c.op \in {"editFile", "conflict"}
      BY <2>2, ConflictedFields
    <3> DEFINE q == Queued(c)
    <3>2. q \in Request /\ SameCopy(q, c) /\ q.plan = c.plan
      BY <3>1, QueuedFields
    <3>3. req' = [req EXCEPT ![r] = q]  BY <2>4
    <3> HIDE DEF q
    <3>4. ASSUME NEW x \in Paths  PROVE PlanOK(q, x, disk[x], version[x])
      <4>1. PlanOK(req[r], x, disk[x], version[x])  BY <1>1, <2>1
      <4>2. q.plan[x] = req[r].plan[x] /\ q.op \in {"editFile", "conflict"}
        BY <3>1, <3>2 DEF SameCopy
      <4>3. QED  BY <4>1, <4>2 DEF PlanOK
    <3>5. QED  BY <1>2, <2>2, <3>2, <3>3, <3>4, PlansRequest
  <2>5. QED  BY <2>2, <2>3, <2>4
<1>13. CASE Finish(r)
  <2>1. /\ UNCHANGED <<disk, version>>
        /\ \/ req' = [req EXCEPT ![r] = Rest]
           \/ \E q \in Request : /\ req' = [req EXCEPT ![r] = q] /\ Starts(q)
                                 /\ q.op = "finish"
    BY <1>13, FinishStep
  <2>2. CASE req' = [req EXCEPT ![r] = Rest]  BY <1>2, <2>1, <2>2, PlansRest
  <2>3. ASSUME NEW q \in Request, req' = [req EXCEPT ![r] = q], Starts(q), q.op = "finish"
        PROVE  Replans(r)
    BY <1>4, <2>1, <2>3
  <2>4. QED  BY <2>1, <2>2, <2>3
<1>14. CASE Fails(r)
  BY <1>2, <1>14, FailStep, PlansRest
<1>15. QED
  BY <1>3, <1>5, <1>6, <1>7, <1>8, <1>9, <1>10, <1>11, <1>12, <1>13, <1>14
  DEF RequestStep

-----------------------------------------------------------------------------
LEMMA OnlyPlan ==
  ASSUME OneRequest, TypeOK, NEW r \in Requests, NEW q \in Request \cup {Rest},
         req' = [req EXCEPT ![r] = q],
         q # Rest => \A p \in Paths : PlanOK(q, p, disk'[p], version'[p])
  PROVE  PlansOK'
<1>1. req'[r] = q  BY DEF TypeOK
<1>2. \A s \in Requests : s = r  BY DEF OneRequest
<1>3. q = Rest => req'[r].phase = "rest"  BY <1>1, Disjoint
<1>4. QED  BY <1>1, <1>2, <1>3 DEF PlansOK, Active, Free

\* What has to be said of a written file.
LEMMA WrittenFile ==
  ASSUME OneRequest, TypeOK, RecInv, NEW r \in Requests, req[r] \in Request,
         req[r].phase = "apply", UNCHANGED cs,
         NEW p \in Paths, NEW content \in Contents, NEW v \in Nat, NEW n \in Nat,
         disk' = [disk EXCEPT ![p] = content], version' = [version EXCEPT ![p] = n],
         req' = [req EXCEPT ![r] = Wrote(req[r], p, v)],
         content # NoFile => n >= 1, p \notin Creates => content # NoFile,
         Kept(cs, p, content, n), PlanOK(Wrote(req[r], p, v), p, content, n)
  PROVE  RecInv'
<1> DEFINE q == req[r]
           w == Wrote(q, p, v)
<1>1. disk \in [Paths -> Contents] /\ version \in [Paths -> Nat]  BY DEF TypeOK
<1>2. /\ disk'[p] = content /\ version'[p] = n
      /\ \A x \in Paths : x # p => disk'[x] = disk[x] /\ version'[x] = version[x]
  BY <1>1
<1>3. FilesOK'  BY <1>2 DEF RecInv, FilesOK
<1>4. KeptOK'
  <2>1. ASSUME NEW x \in Paths  PROVE Kept(cs', x, disk'[x], version'[x])
    <3>1. Kept(cs, x, disk[x], version[x])  BY DEF RecInv, KeptOK
    <3>2. CASE x = p  BY <1>2, <3>2
    <3>3. CASE x # p  BY <1>2, <3>1, <3>3
    <3>4. QED  BY <3>2, <3>3
  <2>2. QED  BY <2>1 DEF KeptOK
<1>5. w \in Request /\ SameCopy(w, q) /\ w.phase = q.phase /\ w.todo = q.todo \ {p}
  BY WroteShape
<1>6. \A x \in Paths : x # p => w.plan[x] = q.plan[x]  BY WrotePlan
<1>7. req' = [req EXCEPT ![r] = w] /\ PlanOK(w, p, content, n)  OBVIOUS
<1> HIDE DEF w
<1>8. ASSUME NEW x \in Paths  PROVE PlanOK(w, x, disk'[x], version'[x])
  <2>1. CASE x = p  BY <1>2, <1>7, <2>1
  <2>2. CASE x # p
    <3>1. PlanOK(q, x, disk[x], version[x])
      BY Disjoint DEF RecInv, PlansOK, Active, Free
    <3>2. Settled(w, x) => Settled(q, x)
      BY <1>5, <1>6, <2>2 DEF Settled, Awaiting
    <3>3. w.plan[x] = q.plan[x] /\ q.phase # "finish" /\ q.phase # "prepare"
      BY <1>6, <2>2
    <3>4. PlanOK(w, x, disk[x], version[x])  BY <1>5, <3>1, <3>2, <3>3, PlanKept
    <3>5. QED  BY <1>2, <2>2, <3>4
  <2>3. QED  BY <2>1, <2>2
<1>9. PlansOK'  BY <1>5, <1>7, <1>8, OnlyPlan
<1>10. QED  BY <1>3, <1>4, <1>9 DEF RecInv

LEMMA WrittenRec ==
  ASSUME OneRequest, TypeOK, Shapes, EditInv, Fresh, RecInv,
         NEW r \in Requests, NEW p \in Paths, Written(r, p)
  PROVE  RecInv'
<1> DEFINE q == req[r]
           step == q.plan[p]
<1>1. q \in Request /\ q.phase = "apply" /\ p \in q.todo /\ UNCHANGED cs  BY DEF Written
<1>2. Active(r)  BY <1>1 DEF Active, Free
<1>3. PlanOK(q, p, disk[p], version[p]) /\ Kept(cs, p, disk[p], version[p])
  BY <1>2 DEF RecInv, PlansOK, KeptOK
<1>4. q.from = cs /\ q.op \in {"decide", "rollback"} /\ cs \in ChangeSet
  BY <1>1, <1>2 DEF Fresh, Shapes, ShapeOK, TypeOK
<1>5. /\ version[p] \in Nat /\ step.version \in Nat /\ step.content \in Contents
      /\ 0 \in Nat /\ 1 \in Nat /\ NoFile \in Contents
  BY <1>1 DEF TypeOK, Request, Plans, Steps, Contents
<1>6. ASSUME NEW v \in Nat
      PROVE  /\ Wrote(q, p, v) \in Request /\ SameCopy(Wrote(q, p, v), q)
             /\ Wrote(q, p, v).phase = "apply" /\ Wrote(q, p, v).todo = q.todo \ {p}
             /\ Wrote(q, p, v).plan[p].action = step.action
             /\ Wrote(q, p, v).plan[p].content = step.content
             /\ Wrote(q, p, v).plan[p].version = v
  BY <1>1, WroteShape, WrotePlan
<1>7. ASSUME NEW w, SameCopy(w, q)
      PROVE  Before(w, p) = Before(q, p) /\ Result(w, p) = Result(q, p) /\ w.op = q.op
  BY <1>7 DEF SameCopy, Before, Result
<1>8. CASE step.action = "save" /\ disk[p] # NoFile /\ version[p] = step.version
           /\ Writes(r, p, step.content, step.version + 1)
  <2> DEFINE v == version[p] + 1
             w == Wrote(q, p, v)
  <2>1. v \in Nat /\ v >= 1 /\ step.version + 1 = v  BY <1>5, <1>8
  <2>2. step.content # NoFile  BY <1>3, <1>8 DEF PlanOK
  <2>3. /\ disk' = [disk EXCEPT ![p] = step.content]
        /\ version' = [version EXCEPT ![p] = v] /\ req' = [req EXCEPT ![r] = w]
    BY <1>8, <2>1, <2>2 DEF Writes
  <2>4. Kept(cs, p, step.content, v)  BY <1>3, <1>4, <1>5, <1>8, KeptNewer
  <2> HIDE DEF v
  <2>5. /\ w.plan[p].action = "save" /\ w.plan[p].content = step.content
        /\ w.plan[p].version = v /\ SameCopy(w, q) /\ w.phase = "apply"
    BY <1>6, <1>8, <2>1
  <2>6. PlanOK(w, p, step.content, v)
    <3> HIDE DEF w, step
    <3>1. q.op = "decide" => DecisionOK(w, p, step.content, v)
      BY <1>1, <1>3, <1>7, <1>8, <2>1, <2>5 DEF PlanOK, DecisionOK, step
    <3>2. QED  BY <1>7, <2>2, <2>5, <3>1 DEF PlanOK
  <2>7. p \notin Creates => step.content # NoFile  BY <2>2
  <2> HIDE DEF w, step
  <2>8. QED  BY <1>1, <1>5, <2>1, <2>2, <2>3, <2>4, <2>6, <2>7, WrittenFile DEF w
<1>9. CASE step.action = "create" /\ disk[p] = NoFile /\ Writes(r, p, step.content, 1)
  <2> DEFINE w == Wrote(q, p, 1)
  <2>1. step.content # NoFile /\ q.op = "decide" /\ p \in Creates
    BY <1>3, <1>4, <1>9 DEF PlanOK, RecInv, FilesOK
  <2>2. /\ disk' = [disk EXCEPT ![p] = step.content]
        /\ version' = [version EXCEPT ![p] = 1] /\ req' = [req EXCEPT ![r] = w]
    BY <1>9, <2>1 DEF Writes
  <2>3. step.content = Result(q, p) /\ Before(q, p) # Result(q, p)
    BY <1>1, <1>3, <1>9, <2>1 DEF PlanOK, DecisionOK
  <2>4. Before(q, p) = NoFile  BY <1>1, <2>1, <2>3, CreatedOnce
  <2>5. Kept(cs, p, step.content, 1)  BY <1>4, <2>4 DEF Kept, Before
  <2>6. /\ w.plan[p].action = "create" /\ w.plan[p].content = step.content
        /\ w.plan[p].version = 1 /\ SameCopy(w, q) /\ w.phase = "apply"
    BY <1>5, <1>6, <1>9
  <2>7. PlanOK(w, p, step.content, 1)
    <3> HIDE DEF w, step
    <3>1. DecisionOK(w, p, step.content, 1)  BY <1>7, <2>3, <2>6 DEF DecisionOK
    <3>2. QED  BY <1>7, <2>1, <2>6, <3>1 DEF PlanOK
  <2>8. 1 >= 1 /\ step.content \in Contents /\ 1 \in Nat  BY <1>5
  <2> HIDE DEF step
  <2>9. QED  BY <1>1, <2>1, <2>2, <2>5, <2>7, <2>8, WrittenFile
<1>10. CASE step.action = "delete" /\ disk[p] # NoFile /\ Writes(r, p, NoFile, 0)
  <2> DEFINE w == Wrote(q, p, 0)
  <2>1. p \in Creates  BY <1>3, <1>10 DEF PlanOK
  <2>2. /\ disk' = [disk EXCEPT ![p] = NoFile]
        /\ version' = [version EXCEPT ![p] = 1] /\ req' = [req EXCEPT ![r] = w]
    BY <1>10 DEF Writes
  <2>3. Kept(cs, p, NoFile, 1)  BY DEF Kept
  <2>4. /\ w.plan[p].action = "delete" /\ w.plan[p].content = step.content
        /\ SameCopy(w, q) /\ w.phase = "apply"
    BY <1>5, <1>6, <1>10
  <2>5. PlanOK(w, p, NoFile, 1)
    <3> HIDE DEF w, step
    <3>1. q.op = "decide" => Result(q, p) = NoFile /\ Before(q, p) # Result(q, p)
      BY <1>1, <1>3, <1>10 DEF PlanOK, DecisionOK, step
    <3>2. q.op = "decide" => DecisionOK(w, p, NoFile, 1)
      BY <1>7, <2>4, <3>1 DEF DecisionOK
    <3>3. QED  BY <1>7, <2>1, <2>4, <3>2 DEF PlanOK
  <2>6. QED  BY <1>1, <1>5, <2>1, <2>2, <2>3, <2>5, WrittenFile
<1>11. QED  BY <1>8, <1>9, <1>10 DEF Written

\* A mutation records what its request wrote.
LEMMA RecordKept ==
  ASSUME TypeOK, NEW q \in Request, CopyOK(q, cs), q.from = cs, q.phase = "record",
         cs' = Recorded(q), NEW p \in Paths, NEW d, NEW v \in Nat, Kept(cs, p, d, v), PlanOK(q, p, d, v)
  PROVE  Kept(cs', p, d, v)
<1>1. q.from = cs /\ cs \in ChangeSet /\ q.op \in Ops  BY RecordedCases DEF TypeOK
<1>2. cs' \in ChangeSet  BY RecordedType
<1>3. /\ cs.hunk \in Decisions /\ cs.after \in Proposals
      /\ cs'.hunk \in Decisions /\ cs'.after \in Proposals
  BY <1>1, <1>2 DEF ChangeSet
<1>4. CASE q.op = "decide"
  <2>1. cs.status \in Reviewing /\ DecisionOK(q, p, d, v)
    BY <1>1, <1>4 DEF CopyOK, PlanOK
  <2>2. /\ cs'.hunk = q.hunk /\ cs'.after = cs.after
        /\ cs'.expected[p] = IF q.plan[p].action = "skip" THEN cs.expected[p]
                             ELSE IF q.plan[p].version = 0 THEN Base ELSE q.plan[p].version
    BY <1>1, <1>4, RecordedCases, AfterDecideFields
  <2>3. /\ Reviewed(p, cs'.hunk, cs'.after) = Result(q, p)
        /\ Reviewed(p, cs.hunk, cs.after) = Before(q, p)
    BY <1>1, <2>2 DEF Result, Before
  <2>4. CASE q.plan[p].action = "skip"
    <3>1. Before(q, p) = Result(q, p)  BY <2>1, <2>4 DEF DecisionOK
    <3>2. cs'.expected[p] = cs.expected[p]  BY <2>2, <2>4
    <3>3. QED  BY <2>1, <2>3, <3>1, <3>2 DEF Kept
  <2>5. CASE q.plan[p].action # "skip"
    <3>1. Settled(q, p)  BY <2>5 DEF Settled, Awaiting
    <3>2. Result(q, p) # NoFile =>
            /\ q.plan[p].version >= 1
            /\ d # NoFile => q.plan[p].version =< v /\ (v = q.plan[p].version => d = Result(q, p))
      BY <2>1, <3>1 DEF DecisionOK
    <3>3. Result(q, p) # NoFile => cs'.expected[p] = q.plan[p].version
      <4>1. q.plan[p].version >= 1 => q.plan[p].version # 0  OBVIOUS
      <4>2. QED  BY <2>2, <2>5, <3>2, <4>1
    <3>4. QED  BY <2>3, <3>2, <3>3 DEF Kept
  <2>6. QED  BY <2>4, <2>5
<1>5. CASE q.op = "editHunk"
  <2>1. \A h \in Hunks : h \in q.todo => cs.hunk[h] # "accepted"
    BY <1>1, <1>5 DEF CopyOK
  <2>2. /\ cs'.hunk = cs.hunk /\ cs'.status = cs.status /\ cs'.expected = cs.expected
        /\ \A h \in Hunks : h \notin q.todo => cs'.after[h] = cs.after[h]
    BY <1>5, RecordedCases, AfterEditHunkFields
  <2>3. Reviewed(p, cs'.hunk, cs'.after) = Reviewed(p, cs.hunk, cs.after)
    BY <1>3, <2>1, <2>2, ReviewedSame
  <2>4. QED  BY <2>2, <2>3 DEF Kept
<1>6. CASE q.op = "editFile"
  <2>1. \A h \in Hunks : PathOf[h] \in q.todo => cs.hunk[h] = "pending"
    BY <1>1, <1>6 DEF CopyOK
  <2>2. /\ cs'.status = cs.status /\ cs'.expected = cs.expected
        /\ \A h \in Hunks : PathOf[h] \notin q.todo =>
             cs'.after[h] = cs.after[h] /\ cs'.hunk[h] = cs.hunk[h]
        /\ \A h \in Hunks : PathOf[h] \in q.todo => cs'.hunk[h] = "pending"
    BY <1>6, RecordedCases, AfterEditFileFields
  <2>3. \A h \in Hunks : /\ cs'.hunk[h] = "accepted" <=> cs.hunk[h] = "accepted"
                         /\ cs'.hunk[h] = "accepted" => cs'.after[h] = cs.after[h]
    BY <2>1, <2>2
  <2>4. Reviewed(p, cs'.hunk, cs'.after) = Reviewed(p, cs.hunk, cs.after)
    BY <1>3, <2>3, ReviewedSame
  <2>5. QED  BY <2>2, <2>4 DEF Kept
<1>7. CASE q.op = "conflict"
  <2>1. cs'.status = "conflict"  BY <1>7, RecordedCases, ConflictFields DEF Closed
  <2>2. QED  BY <2>1 DEF Kept, Reviewing
<1>8. CASE q.op = "finish"
  <2>1. cs.status \in Reviewing  BY <1>1, <1>8 DEF CopyOK, Finishable
  <2>2. cs' = AfterFinish(q)  BY <1>8, RecordedCases
  <2>3. /\ cs'.hunk = cs.hunk /\ cs'.after = cs.after /\ cs'.expected = cs.expected
    BY <2>2, AfterFinishFields DEF Closed
  <2>4. QED  BY <2>1, <2>3 DEF Kept
<1>9. CASE q.op = "rollback"
  <2>1. cs'.status = "rolled-back"  BY <1>9, RecordedCases, AfterRollbackFields DEF Closed
  <2>2. QED  BY <2>1 DEF Kept, Reviewing
<1>10. QED  BY <1>1, <1>4, <1>5, <1>6, <1>7, <1>8, <1>9 DEF Ops

LEMMA RecordRec ==
  ASSUME OneRequest, TypeOK, Shapes, EditInv, Fresh, RecInv, Record
  PROVE  RecInv'
<1>1. PICK r \in Requests :
        /\ UNCHANGED <<disk, version>> /\ req[r] \in Request /\ req[r].phase = "record"
        /\ cs' = Recorded(req[r])
        /\ \/ req' = [req EXCEPT ![r] = Rest]
           \/ req' = [req EXCEPT ![r] = Finishing(req[r])]
  BY RecordStep DEF Shapes
<1>2. Active(r)  BY <1>1 DEF Active, Free
<1>3. CopyOK(req[r], cs) /\ req[r].from = cs
  BY <1>1, <1>2 DEF EditInv, CopiesOK, Fresh
<1>4. \A p \in Paths : /\ PlanOK(req[r], p, disk[p], version[p])
                       /\ Kept(cs, p, disk[p], version[p]) /\ version[p] \in Nat
  BY <1>2 DEF RecInv, PlansOK, KeptOK, TypeOK
<1>5. \A p \in Paths : Kept(cs', p, disk[p], version[p])
  BY <1>1, <1>3, <1>4, RecordKept
<1>6. KeptOK'  BY <1>1, <1>5 DEF KeptOK
<1>7. FilesOK'  BY <1>1 DEF RecInv, FilesOK
<1>8. PlansOK'
  <2>1. CASE req' = [req EXCEPT ![r] = Rest]  BY <2>1, OnlyPlan
  <2>2. CASE req' = [req EXCEPT ![r] = Finishing(req[r])]
    <3> DEFINE q == Finishing(req[r])
    <3>1. q \in Request /\ SameCopy(q, req[r]) /\ q.phase = "finish" /\ q.plan = req[r].plan
      BY <1>1, FinishingFields
    <3>2. req' = [req EXCEPT ![r] = q]  BY <2>2
    <3> HIDE DEF q
    <3>3. \A p \in Paths : PlanOK(q, p, disk[p], version[p])
      BY <1>4, <3>1, PlanKept
    <3>4. QED  BY <1>1, <3>1, <3>2, <3>3, OnlyPlan
  <2>3. QED  BY <1>1, <2>1, <2>2
<1>9. QED  BY <1>6, <1>7, <1>8 DEF RecInv

LEMMA SavedRec ==
  ASSUME ~UsersRestructure, TypeOK, RecInv, NEW p \in Paths, UserStep(p)
  PROVE  RecInv'
<1>1. /\ UNCHANGED <<cs, req>>
      /\ \A x \in Paths : x # p => disk'[x] = disk[x] /\ version'[x] = version[x]
      /\ disk[p] # NoFile /\ disk'[p] \in File /\ version'[p] = version[p] + 1
  BY UserFields
<1>2. disk'[p] # NoFile /\ version[p] \in Nat /\ cs \in ChangeSet
  BY <1>1, Disjoint DEF TypeOK
<1>3. FilesOK'
  <2>1. version[p] + 1 >= 1  BY <1>2
  <2>2. QED  BY <1>1, <1>2, <2>1 DEF RecInv, FilesOK
<1>4. KeptOK'
  <2>1. ASSUME NEW x \in Paths  PROVE Kept(cs', x, disk'[x], version'[x])
    <3>1. Kept(cs, x, disk[x], version[x])  BY DEF RecInv, KeptOK
    <3>2. CASE x = p
      <4>1. Kept(cs, p, disk'[p], version[p] + 1)  BY <1>1, <1>2, <3>1, <3>2, KeptNewer
      <4>2. QED  BY <1>1, <3>2, <4>1
    <3>3. CASE x # p  BY <1>1, <3>1, <3>3
    <3>4. QED  BY <3>2, <3>3
  <2>2. QED  BY <2>1 DEF KeptOK
<1>5. PlansOK'
  <2>1. ASSUME NEW r \in Requests, NEW x \in Paths, Active(r)
        PROVE  PlanOK(req[r], x, disk'[x], version'[x])
    <3>1. PlanOK(req[r], x, disk[x], version[x])  BY <2>1 DEF RecInv, PlansOK
    <3>2. req[r] \in Request  BY <2>1, ActiveRequest DEF Active, Free
    <3>3. CASE x = p
      <4>1. PlanOK(req[r], p, disk'[p], version[p] + 1)
        BY <1>1, <1>2, <3>1, <3>2, <3>3, PlanNewer
      <4>2. QED  BY <1>1, <3>3, <4>1
    <3>4. CASE x # p  BY <1>1, <3>1, <3>4
    <3>5. QED  BY <3>3, <3>4
  <2>2. QED  BY <1>1, <2>1 DEF PlansOK, Active, Free
<1>6. QED  BY <1>3, <1>4, <1>5 DEF RecInv

LEMMA RecStep ==
  ASSUME OneRequest, ~UsersRestructure, TypeOK, Shapes, EditInv, Fresh, RecInv, [Next]_vars
  PROVE  RecInv'
<1>1. ASSUME UNCHANGED <<disk, version, cs>>  PROVE FilesOK' /\ KeptOK'
  BY <1>1 DEF RecInv, FilesOK, KeptOK
<1>2. ASSUME NEW r \in Requests, RequestStep(r)  PROVE RecInv'
  <2>1. CASE Replans(r)
    <3>1. PICK q \in Request \cup {Rest} :
            /\ req' = [req EXCEPT ![r] = q]
            /\ q # Rest => \A p \in Paths : PlanOK(q, p, disk[p], version[p])
      BY <2>1 DEF Replans
    <3>2. UNCHANGED <<disk, version, cs>>  BY <2>1 DEF Replans
    <3>3. PlansOK'  BY <3>1, <3>2, OnlyPlan
    <3>4. QED  BY <1>1, <3>2, <3>3 DEF RecInv
  <2>2. CASE \E p \in Paths : Written(r, p)  BY <2>2, WrittenRec
  <2>3. QED  BY <1>2, <2>1, <2>2, PlansOrWritten
<1>3. CASE MutationFails
  <2>1. \E r \in Requests : req' = [req EXCEPT ![r] = Rest] /\ UNCHANGED <<disk, version, cs>>
    BY <1>3, MutationFailStep DEF Shapes
  <2>2. PlansOK'  BY <2>1, OnlyPlan
  <2>3. QED  BY <1>1, <2>1, <2>2 DEF RecInv
<1>4. CASE UNCHANGED vars
  <2>1. UNCHANGED <<disk, version, cs, req>>  BY <1>4 DEF vars
  <2>2. PlansOK'  BY <2>1 DEF RecInv, PlansOK, Active, Free
  <2>3. QED  BY <1>1, <2>1, <2>2 DEF RecInv
<1>5. QED  BY <1>2, <1>3, <1>4, RecordRec, SavedRec DEF Next

LEMMA InitRec == Init => RecInv
<1> SUFFICES ASSUME Init PROVE RecInv  OBVIOUS
<1>1. /\ TypeOK /\ cs.expected = [p \in Paths |-> Base]
      /\ version = [p \in Paths |-> 1] /\ req = [r \in Requests |-> Rest]
      /\ disk = [p \in Paths |-> Reviewed(p, cs.hunk, cs.after)]
  BY InitTypes
<1>2. cs.hunk \in Decisions /\ cs.after \in Proposals  BY <1>1 DEF TypeOK, ChangeSet
<1>3. FilesOK  BY <1>1, <1>2, ReviewedType DEF FilesOK
<1>4. KeptOK  BY <1>1 DEF KeptOK, Kept, Base
<1>5. PlansOK  BY <1>1, Disjoint DEF PlansOK, Active, Free
<1>6. QED  BY <1>3, <1>4, <1>5 DEF RecInv

\* With one request at a time and users who only save, a file at the version that
\* the ChangeSet recorded for it holds exactly its accepted hunks.
THEOREM RecordedIsReviewed ==
  ASSUME OneRequest, ~UsersRestructure PROVE Spec => []RecordedVersionIsReviewed
<1>1. RecInv => RecordedVersionIsReviewed
  BY DEF RecInv, KeptOK, Kept, RecordedVersionIsReviewed
<1>2. TypeOK /\ Shapes /\ EditInv /\ Fresh /\ RecInv /\ [Next]_vars => RecInv'
  BY RecStep
<1>3. QED  BY <1>1, <1>2, InitRec, FreshInvariant, PTL DEF Spec

=============================================================================
