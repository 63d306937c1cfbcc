-------------------------- MODULE ChangeSetReview --------------------------
(***************************************************************************)
(* The review of one ChangeSet (apps/server/src/agent/revise-service.ts):  *)
(* decide, accept, reject, editProposal, finishReview and rollback, run by *)
(* the request handlers of a single-threaded server while users save the   *)
(* same files.                                                             *)
(*                                                                         *)
(* A handler copies the ChangeSet once and gives up control at every call  *)
(* of the workspace.  Each workspace call is atomic (the project queue     *)
(* serialises them) and the final database mutations run in the order they *)
(* were issued, but nothing holds the project between two calls.           *)
(***************************************************************************)
EXTENDS Integers, FiniteSets, SequencesExt

CONSTANTS Order,           \* the changed files, in the ChangeSet's order
          Hunks,           \* the hunks of all changes
          PathOf,          \* PathOf[h]: the file hunk h belongs to
          Creates,         \* the files whose change is a create
          MaxText,         \* bound: proposed texts of a hunk are 1..MaxText
          Blocking,        \* texts with a blocking evidence finding
          Deletions,       \* texts that are empty: their hunk deletes its place
          Modes,           \* approvalMode: TRUE stands for "explicit-finish"
          Confirms,        \* what reviewers may answer to a conflict: TRUE confirms
          Requests,        \* request handlers that may be in flight together
          MaxUserEdits,    \* bound: edits by users
          MaxVersion,      \* bound: no decision or rollback starts beyond it
          UsersRestructure,\* may users delete and create the files?
          MayFail,         \* may a checkpoint or a database write fail?
          NoFile, Unseen

Paths == ToSet(Order)

\* A file is abstracted to the text at the place of every hunk and to the last
\* user edit it carries.
Original  == 0                \* hunk.before
Texts     == 1..MaxText       \* what hunk.after may be
Rewritten == MaxText + 1      \* a user rewrote the place
Base      == 1                \* baseVersion
File      == [text: [Hunks -> 0..Rewritten], own: Nat]

\* A created file has an empty base, so buildTextHunks makes one hunk of it.
ASSUME ChangeSetReviewAssumption ==
  /\ Order \in Seq(Paths) /\ IsInjective(Order)
  /\ IsFiniteSet(Hunks) /\ PathOf \in [Hunks -> Paths] /\ Creates \subseteq Paths
  /\ \A h, i \in Hunks : PathOf[h] = PathOf[i] /\ PathOf[h] \in Creates => h = i
  /\ MaxText \in Nat \ {0} /\ Blocking \subseteq 1..MaxText /\ Deletions \subseteq 1..MaxText
  /\ Modes \subseteq BOOLEAN /\ Confirms \subseteq BOOLEAN /\ UsersRestructure \in BOOLEAN /\ MayFail \in BOOLEAN
  /\ MaxUserEdits \in Nat /\ MaxVersion \in Nat
  /\ NoFile \notin File
  /\ Unseen \notin [version: Nat, content: File \cup {NoFile}]

VARIABLES disk,       \* the files of the workspace
          version,    \* their version counters
          userEdits,  \* how many edits users have made
          cs,         \* the stored ChangeSet and the records linked to it; its field
                      \* raced is a history of the model (see Overtaken)
          shown,      \* what the last conflict response showed the reviewer
          req,        \* the requests in flight
          mutations   \* requests whose database mutation is queued

vars == <<disk, version, userEdits, cs, shown, req, mutations>>

-----------------------------------------------------------------------------
HunksOf(p) == {h \in Hunks : PathOf[h] = p}

\* materializeChange: the base with the accepted hunks; nothing accepted of a
\* created file means that the file is absent.
Reviewed(p, hunk, after) ==
  IF p \in Creates /\ \A h \in HunksOf(p) : hunk[h] # "accepted" THEN NoFile
  ELSE [text |-> [h \in Hunks |-> IF PathOf[h] = p /\ hunk[h] = "accepted"
                                  THEN after[h] ELSE Original],
        own |-> 0]

\* What a request is going to do with a file: leave it ("skip"), note its version
\* ("seen"), or change it ("save", "create", "delete").  A version is 0 where
\* clients see null.  The copy is a history of the model (see Revert).
Skip  == [action |-> "skip", version |-> 0, content |-> NoFile, copy |-> Unseen]
Sight(p) == [version |-> IF disk[p] = NoFile THEN 0 ELSE version[p],
             content |-> disk[p]]

ReviewingMutant == {"proposed", "partially-accepted", "accepted"}
Reviewing == {"proposed", "partially-accepted"}
Some(hunk, d)  == \E h \in Hunks : hunk[h] = d
Editable(c)    == \/ c.status = "proposed"
                  \/ c.explicit /\ c.status = "partially-accepted"

Rest == [phase |-> "rest"]
\* A request with its copy of the ChangeSet.
Begin(op, phase) ==
  [phase |-> phase, op |-> op, from |-> cs, hunk |-> cs.hunk, after |-> cs.after,
   todo |-> {}, plan |-> [p \in Paths |-> Skip], clash |-> [p \in Paths |-> Unseen],
   confirm |-> [p \in Paths |-> Unseen], override |-> FALSE, complete |-> FALSE]

\* The file that a request visits next: the changes are visited in their order,
\* and a rollback undoes them in the opposite one.
Places(files) == {n \in DOMAIN Order : Order[n] \in files}
NextFile(q) == IF q.op = "rollback" /\ q.phase = "apply"
               THEN Order[Max(Places(q.todo))] ELSE Order[Min(Places(q.todo))]

WithinBound == \A p \in Paths : version[p] <= MaxVersion
Free(r)     == req[r].phase = "rest"
Becomes(r, q) == req' = [req EXCEPT ![r] = q]
Ends(r)     == Becomes(r, Rest)
\* The last thing a request does is to queue its database mutation.
Queues(r, q) == /\ Becomes(r, [q EXCEPT !.phase = "record"])
                /\ mutations' = Append(mutations, r)

-----------------------------------------------------------------------------
\* Users: a save bumps the version; it may rewrite the place of some hunks.
UserSaves(p) ==
  /\ userEdits < MaxUserEdits /\ disk[p] # NoFile
  /\ \E K \in SUBSET HunksOf(p) :
       disk' = [disk EXCEPT ![p] =
                  [text |-> [h \in Hunks |-> IF h \in K THEN Rewritten ELSE @.text[h]],
                   own  |-> userEdits + 1]]
  /\ version' = [version EXCEPT ![p] = @ + 1]
  /\ userEdits' = userEdits + 1
  /\ UNCHANGED <<cs, shown, req, mutations>>

UserDeletes(p) ==
  /\ UsersRestructure /\ disk[p] # NoFile
  /\ disk' = [disk EXCEPT ![p] = NoFile]
  /\ version' = [version EXCEPT ![p] = 1]
  /\ UNCHANGED <<userEdits, cs, shown, req, mutations>>

\* createFile starts every file at version 1, a deleted one included.
UserCreates(p) ==
  /\ UsersRestructure /\ userEdits < MaxUserEdits /\ disk[p] = NoFile
  /\ disk' = [disk EXCEPT ![p] = [text |-> [h \in Hunks |-> Original],
                                  own |-> userEdits + 1]]
  /\ version' = [version EXCEPT ![p] = 1]
  /\ userEdits' = userEdits + 1
  /\ UNCHANGED <<cs, shown, req, mutations>>

-----------------------------------------------------------------------------
\* A text with a blocking finding is accepted only with an override.
AcceptableMutant(A, override) == TRUE    \* left to the end of the review
Acceptable(A, override) == override \/ \A h \in A : cs.after[h] \notin Blocking

\* decide, up to its first await: accept A, reject R, confirm what was shown.
Decide(r, A, R, override, confirm, complete) ==
  LET hunk == [h \in Hunks |-> CASE h \in A -> "accepted" [] h \in R -> "rejected"
                                 [] OTHER -> cs.hunk[h]]
      todo == {PathOf[h] : h \in A \cup R}
  IN
  /\ Free(r) /\ cs.status \in Reviewing /\ WithinBound
  /\ A \cup R # {} /\ \A h \in A, i \in R : PathOf[h] # PathOf[i]
  /\ \A h \in A \cup R : /\ cs.hunk[h] # hunk[h]
                         /\ cs.explicit \/ cs.hunk[h] = "pending"
  /\ Acceptable(A, override)
  /\ Becomes(r, [Begin("decide", "prepare") EXCEPT
                   !.hunk = hunk, !.todo = todo, !.override = override,
                   !.confirm = IF confirm
                               THEN [p \in Paths |-> IF p \in todo
                                                     THEN shown[p] ELSE Unseen]
                               ELSE @,
                   !.complete = complete])
  /\ UNCHANGED <<disk, version, userEdits, cs, shown, mutations>>

Pending == {h \in Hunks : cs.hunk[h] = "pending"}

DecideSome(r) ==
  \E A, R \in SUBSET Hunks, override \in BOOLEAN, confirm \in Confirms :
    Decide(r, A, R, override, confirm, FALSE)
\* accept and reject decide all pending hunks, then finish an explicit review.
AcceptAll(r) == Decide(r, Pending, {}, FALSE, FALSE, cs.explicit)
RejectAll(r) == Decide(r, {}, Pending, FALSE, FALSE, cs.explicit)

\* prepareWorkspaceMutation, judged by the request's copy of the ChangeSet.
Before(q, p)   == Reviewed(p, q.from.hunk, q.from.after)
ResultMutant(q, p) ==    \* the whole proposal, whatever was accepted
  Reviewed(p, [h \in Hunks |-> "accepted"], q.from.after)
Result(q, p)   == Reviewed(p, q.hunk, q.from.after)
Matches(q, p)  == /\ disk[p] = Before(q, p)
                  /\ disk[p] # NoFile => version[p] = q.from.expected[p]
ConfirmedMutant(q, p) == q.confirm[p] # Unseen    \* the version is not compared
Confirmed(q, p) == q.confirm[p] # Unseen /\ q.confirm[p].version = Sight(p).version

StepFor(q, p) ==
  [action  |-> IF disk[p] = Result(q, p) THEN "seen"
               ELSE CASE Result(q, p) = NoFile -> "delete"
                      [] disk[p] = NoFile -> "create" [] OTHER -> "save",
   version |-> Sight(p).version, content |-> Result(q, p), copy |-> Unseen]

\* What a request knows after it looked at file p: a plan for it or a clash.
Judged(q, p, unchanged, safe, step) ==
  LET looked == [q EXCEPT !.todo = @ \ {p}] IN
  CASE unchanged -> looked
    [] ~unchanged /\ safe -> [looked EXCEPT !.plan[p] = step]
    [] OTHER -> [looked EXCEPT !.clash[p] = Sight(p)]

\* After the last file a clash ends the request with a conflict response;
\* otherwise it goes on to write the given files.
Proceeds(r, q, files) ==
  IF q.todo # {} THEN Becomes(r, q) /\ UNCHANGED shown
  ELSE IF \E p \in Paths : q.clash[p] # Unseen
  THEN /\ Ends(r)
       /\ shown' = [p \in Paths |-> IF q.clash[p] # Unseen THEN q.clash[p] ELSE shown[p]]
  ELSE Becomes(r, [q EXCEPT !.phase = "apply", !.todo = files]) /\ UNCHANGED shown

Prepare(r) ==
  /\ req[r].phase = "prepare"
  /\ LET q == req[r]
         p == NextFile(q)
         touched == {PathOf[h] : h \in {i \in Hunks : q.hunk[i] # q.from.hunk[i]}}
     IN Proceeds(r, Judged(q, p, Before(q, p) = Result(q, p),
                           Matches(q, p) \/ Confirmed(q, p), StepFor(q, p)), touched)
  /\ UNCHANGED <<disk, version, userEdits, cs, mutations>>

\* One workspace call of the write loop: createFile, saveTextFile (which alone
\* compares versions) or deletePath.  A refused call ends the request.
Applies(r, p, content, v) ==
  /\ disk' = [disk EXCEPT ![p] = content]
  /\ version' = [version EXCEPT ![p] = IF content = NoFile THEN 1 ELSE v]
  /\ Becomes(r, [req[r] EXCEPT !.todo = @ \ {p}, !.plan[p].version = v])

Apply(r) ==
  /\ req[r].phase = "apply" /\ req[r].todo # {}
  /\ LET p == NextFile(req[r])
         step == req[r].plan[p]
         allowed == CASE step.action = "save" -> disk[p] # NoFile /\ version[p] = step.version
                      [] step.action = "create" -> disk[p] = NoFile
                      [] step.action = "delete" -> disk[p] # NoFile
                      [] OTHER -> TRUE
     IN \/ ~allowed /\ Ends(r) /\ UNCHANGED <<disk, version>>
        \/ allowed /\ step.action = "save" /\ Applies(r, p, step.content, step.version + 1)
        \/ allowed /\ step.action = "create" /\ Applies(r, p, step.content, 1)
        \/ allowed /\ step.action = "delete" /\ Applies(r, p, NoFile, 0)
        \/ /\ step.action \in {"skip", "seen"}
           /\ Becomes(r, [req[r] EXCEPT !.todo = @ \ {p}])
           /\ UNCHANGED <<disk, version>>
  /\ UNCHANGED <<userEdits, cs, shown, mutations>>

Applied(r) ==
  /\ req[r].phase = "apply" /\ req[r].todo = {}
  /\ Queues(r, req[r])
  /\ UNCHANGED <<disk, version, userEdits, cs, shown>>

-----------------------------------------------------------------------------
\* editProposal of one hunk: checked at once, carried out by the mutation.
EditHunkMutant(r, h, text) ==    \* accepted hunks can be edited
  /\ Free(r) /\ Editable(cs) /\ cs.after[h] # text
  /\ Queues(r, [Begin("editHunk", "record") EXCEPT !.after[h] = text, !.todo = {h}])
  /\ UNCHANGED <<disk, version, userEdits, cs, shown>>
EditHunk(r, h, text) ==
  /\ Free(r) /\ Editable(cs)
  /\ cs.hunk[h] # "accepted" /\ cs.after[h] # text
  /\ Queues(r, [Begin("editHunk", "record") EXCEPT !.after[h] = text, !.todo = {h}])
  /\ UNCHANGED <<disk, version, userEdits, cs, shown>>

\* editProposal of a whole file: its hunks are still pending; the file is read.
EditFile(r, p, text) ==
  /\ Free(r) /\ Editable(cs)
  /\ \A h \in HunksOf(p) : cs.hunk[h] = "pending"
  /\ Becomes(r, [Begin("editFile", "check") EXCEPT
                   !.after = [h \in Hunks |-> IF PathOf[h] = p THEN text ELSE @[h]],
                   !.todo = {p}])
  /\ UNCHANGED <<disk, version, userEdits, cs, shown, mutations>>

CheckFile(r) ==
  /\ req[r].phase = "check"
  /\ \E p \in req[r].todo :
       LET none == [h \in Hunks |-> "pending"] IN
       IF p \notin Creates /\ disk[p] = NoFile
       THEN Ends(r) /\ UNCHANGED mutations
       ELSE Queues(r, IF /\ disk[p] = Reviewed(p, none, req[r].after)
                         /\ p \in Creates \/ version[p] = Base
                      THEN req[r] ELSE [req[r] EXCEPT !.op = "conflict"])
  /\ UNCHANGED <<disk, version, userEdits, cs, shown>>

\* finishReview, by its own route or at the end of accept and reject.  A review
\* that is already finished is returned as it is.
Finishable(c) ==
  /\ c.status \in Reviewing /\ ~Some(c.hunk, "pending")
  /\ c.overridden \/ \A h \in Hunks : c.hunk[h] = "accepted" => c.after[h] \notin Blocking

Finish(r) ==
  /\ cs.explicit /\ (Free(r) \/ req[r].phase = "finish")
  /\ IF Finishable(cs) THEN Queues(r, Begin("finish", "record"))
     ELSE req[r].phase = "finish" /\ Ends(r) /\ UNCHANGED mutations
  /\ UNCHANGED <<disk, version, userEdits, cs, shown>>

\* rollback reads every file with an accepted hunk, replaces the occurrence of the
\* accepted text that is nearest to the hunk's offset (nearestOccurrence) by the
\* original one and deletes created files.
Rollback(r, confirm) ==
  /\ Free(r) /\ cs.status = "accepted" /\ Some(cs.hunk, "accepted") /\ WithinBound
  /\ Becomes(r, [Begin("rollback", "revert") EXCEPT
                   !.confirm = IF confirm THEN shown ELSE @,
                   !.todo = {PathOf[h] : h \in {i \in Hunks : cs.hunk[i] = "accepted"}}])
  /\ UNCHANGED <<disk, version, userEdits, cs, shown, mutations>>

\* The accepted text of hunk h is not empty, and so it is looked for.
Sought(q, h) == PathOf[h] \in Creates \/ q.from.after[h] \notin Deletions

\* The content c of a file after the rollback of its accepted hunks.  A deletion
\* gets its text back at the offset it had, whatever stands there now.  Where the
\* nearest occurrence of the text of a hunk astray is not the hunk's place, the
\* place keeps what it has and the places hit are changed instead.
UndoneMutant(q, c, mine, astray, hit, own) ==    \* the base content comes back
  [text |-> [h \in Hunks |-> Original], own |-> 0]
Undone(q, c, mine, astray, hit, own) ==
  [text |-> [h \in Hunks |-> CASE h \in mine \ astray ->
                                   IF c.text[h] = q.from.after[h] THEN Original ELSE Rewritten
                              [] h \in hit /\ h \notin mine \ astray -> Rewritten
                              [] OTHER -> c.text[h]],
   own |-> own]

\* A text that occurs nowhere is a conflict, unless the reviewer gave the content
\* to write, any content, for the version of the file.  Another occurrence may be
\* part of what users wrote: then the plan notes in which content it was replaced.
Revert(r) ==
  /\ req[r].phase = "revert"
  /\ LET q    == req[r]
         p    == NextFile(q)
         mine == {h \in HunksOf(p) : q.from.hunk[h] = "accepted"}
         gone == {h \in mine : Sought(q, h) /\ disk[p].text[h] # q.from.after[h]}
         back(content, copy) == [action |-> IF p \in Creates THEN "delete" ELSE "save",
                                 version |-> version[p], content |-> content, copy |-> copy]
         files == {PathOf[h] : h \in {i \in Hunks : q.from.hunk[i] = "accepted"}}
     IN \/ disk[p] = NoFile /\ Ends(r) /\ UNCHANGED shown
        \/ /\ disk[p] # NoFile
           /\ \E astray \in SUBSET mine, hit \in SUBSET HunksOf(p), own \in {0, disk[p].own} :
                /\ gone \subseteq astray
                /\ astray = {} => hit = {} /\ own = disk[p].own
                /\ Proceeds(r, Judged(q, p, FALSE, TRUE,
                                back(Undone(q, disk[p], mine, astray, hit, own),
                                     IF own = disk[p].own THEN Unseen ELSE Sight(p))),
                            files)
        \/ /\ disk[p] # NoFile /\ gone # {}
           /\ \E text \in [HunksOf(p) -> 0..Rewritten], own \in {0, disk[p].own} :
                Proceeds(r, Judged(q, p, FALSE, Confirmed(q, p),
                                back([text |-> [h \in Hunks |-> IF h \in HunksOf(p) THEN text[h]
                                                                ELSE disk[p].text[h]],
                                      own |-> own], Unseen)),
                            files)
  /\ UNCHANGED <<disk, version, userEdits, cs, mutations>>

-----------------------------------------------------------------------------
\* The database mutations: what they make of the ChangeSet and of the plan, the
\* issue resolution and the review issue linked to it.
Issue(settled, accepted) == IF settled /\ ~accepted THEN "open" ELSE cs.issue

AfterDecide(q) ==
  LET pending == Some(q.hunk, "pending")
      accepted == Some(q.hunk, "accepted")
      open == pending \/ cs.explicit
  IN [cs EXCEPT
        !.hunk = q.hunk, !.after = q.from.after,
        !.expected = [p \in Paths |-> IF q.plan[p].action = "skip" THEN @[p]
                                      ELSE IF q.plan[p].version = 0 THEN Base
                                      ELSE q.plan[p].version],
        !.overridden = @ \/ q.override,
        !.status = CASE cs.explicit ->
                          IF \E h \in Hunks : q.hunk[h] # "pending"
                          THEN "partially-accepted" ELSE "proposed"
                     [] ~cs.explicit /\ pending -> "partially-accepted"
                     [] ~open -> IF accepted THEN "accepted" ELSE "rejected",
        !.plan = CASE open -> "waiting-approval"
                   [] OTHER -> IF accepted THEN "accepted" ELSE "cancelled",
        !.resolution = IF accepted \/ pending THEN "in-revision" ELSE "reopened",
        !.issue = Issue(~open, accepted)]

\* An edit or a finish is overtaken when decisions or texts that it relied on when
\* it was checked have changed since: it is recorded all the same.  (A decision
\* brings the decisions and texts of its own copy with it.)
Overtaken(q) ==
  \E h \in Hunks :
    \/ q.op = "finish" /\ <<cs.hunk[h], cs.after[h]>> # <<q.from.hunk[h], q.from.after[h]>>
    \/ q.op = "editHunk" /\ h \in q.todo /\ cs.hunk[h] # q.from.hunk[h]
    \/ q.op = "editFile" /\ PathOf[h] \in q.todo /\ cs.hunk[h] # q.from.hunk[h]

AfterFinishMutant(q) ==    \* a rejected ChangeSet leaves the issue as it is
  IF Some(q.from.hunk, "accepted")
  THEN [cs EXCEPT !.status = "accepted", !.plan = "accepted", !.resolution = "in-revision"]
  ELSE [cs EXCEPT !.status = "rejected", !.plan = "cancelled", !.resolution = "reopened"]
AfterFinish(q) ==
  IF Some(q.from.hunk, "accepted")
  THEN [cs EXCEPT !.status = "accepted", !.plan = "accepted",
                  !.resolution = "in-revision", !.raced = @ \/ Overtaken(q)]
  ELSE [cs EXCEPT !.status = "rejected", !.plan = "cancelled", !.resolution = "reopened",
                  !.issue = "open", !.raced = @ \/ Overtaken(q)]

AfterRollback ==
  [cs EXCEPT !.status = "rolled-back", !.plan = "cancelled",
             !.resolution = "rolled-back", !.issue = "open"]

AfterEditHunk(q) ==
  [cs EXCEPT !.after = [h \in Hunks |-> IF h \in q.todo THEN q.after[h] ELSE @[h]],
             !.raced = @ \/ Overtaken(q)]

\* The hunks of an edited file are built anew and pending.
AfterEditFile(q) ==
  LET mine == {h \in Hunks : PathOf[h] \in q.todo} IN
  [cs EXCEPT !.after = [h \in Hunks |-> IF h \in mine THEN q.after[h] ELSE @[h]],
             !.hunk  = [h \in Hunks |-> IF h \in mine THEN "pending" ELSE @[h]],
             !.raced = @ \/ Overtaken(q)]

Record ==
  /\ mutations # <<>>
  /\ LET r == Head(mutations)
         q == req[r]
     IN /\ cs' = CASE q.op = "decide" -> AfterDecide(q)
                   [] q.op = "editHunk" -> AfterEditHunk(q)
                   [] q.op = "editFile" -> AfterEditFile(q)
                   [] q.op = "conflict" -> [cs EXCEPT !.status = "conflict"]
                   [] q.op = "finish" -> AfterFinish(q)
                   [] q.op = "rollback" -> AfterRollback
        /\ Becomes(r, IF q.complete THEN [q EXCEPT !.phase = "finish"] ELSE Rest)
  /\ mutations' = Tail(mutations)
  /\ UNCHANGED <<disk, version, userEdits, shown>>

\* A Git checkpoint or the mutation fails, or the server dies and takes the
\* request with it: files already written stay written.
Fails(r) ==
  /\ MayFail /\ req[r].phase \in {"prepare", "apply", "revert", "check", "finish"}
  /\ Ends(r)
  /\ UNCHANGED <<disk, version, userEdits, cs, shown, mutations>>

MutationFails ==
  /\ MayFail /\ mutations # <<>>
  /\ Ends(Head(mutations)) /\ mutations' = Tail(mutations)
  /\ UNCHANGED <<disk, version, userEdits, cs, shown>>

-----------------------------------------------------------------------------
Init ==
  /\ disk = [p \in Paths |-> Reviewed(p, [h \in Hunks |-> "pending"],
                                         [h \in Hunks |-> 1])]
  /\ version = [p \in Paths |-> 1]
  /\ userEdits = 0
  /\ \E explicit \in Modes : cs =
          [explicit |-> explicit, status |-> "proposed", hunk |-> [h \in Hunks |-> "pending"],
           after |-> [h \in Hunks |-> 1], expected |-> [p \in Paths |-> Base],
           overridden |-> FALSE, plan |-> "waiting-approval",
           resolution |-> "planned", issue |-> "planned", raced |-> FALSE]
  /\ shown = [p \in Paths |-> Unseen]
  /\ req = [r \in Requests |-> Rest]
  /\ mutations = <<>>

UserStep(p) == UserSaves(p) \/ UserDeletes(p) \/ UserCreates(p)

RequestStep(r) ==
  \/ DecideSome(r) \/ AcceptAll(r) \/ RejectAll(r) \/ Prepare(r) \/ Apply(r) \/ Applied(r)
  \/ \E h \in Hunks, text \in Texts : EditHunk(r, h, text)
  \/ \E p \in Paths, text \in Texts : EditFile(r, p, text)
  \/ CheckFile(r) \/ Finish(r) \/ \E confirm \in Confirms : Rollback(r, confirm)
  \/ Revert(r) \/ Fails(r)

Next ==
  \/ \E p \in Paths : UserStep(p)
  \/ \E r \in Requests : RequestStep(r)
  \/ Record \/ MutationFails

Spec == Init /\ [][Next]_vars

-----------------------------------------------------------------------------
\* While a review is under way or accepted, a file at the version the ChangeSet
\* recorded for it holds exactly the accepted hunks: decisions and files agree,
\* whatever was refused, retried, or saved by users in between
\* (decide's final mutation, revise-service.ts:337-347).
RecordedVersionIsReviewed ==
  \A p \in Paths :
    LET reviewed == Reviewed(p, cs.hunk, cs.after) IN
    /\ cs.status \in Reviewing \cup {"accepted"}
    /\ disk[p] # NoFile /\ reviewed # NoFile /\ version[p] = cs.expected[p]
    => disk[p] = reviewed

\* A step of request r takes a user's edit out of file p.
LosesUserEdit(r, p) ==
  /\ req'[r] # req[r] /\ disk[p] # NoFile /\ disk[p].own # 0
  /\ disk'[p] = NoFile \/ disk'[p].own < disk[p].own

Performs(r, op) == ~Free(r) /\ req[r].op = op

\* A decision never overwrites a user's edit of an existing file unless the
\* reviewer confirmed it after a conflict response that showed that very content at
\* that very version (DESIGN.md:63-64): confirmations come from nowhere else.
\* Excepted are the files that the change creates: a decision that takes one back
\* deletes it without a look at its version (revise-service.ts:330), and the file
\* that is created again starts over with the versions of the first.
OverwriteWasShown ==
  [][\A r \in Requests, p \in Paths \ Creates :
       Performs(r, "decide") /\ LosesUserEdit(r, p) => req[r].confirm[p] = Sight(p)]_vars

\* A rollback keeps what users wrote after the change was accepted (DESIGN.md:67),
\* also what they save while it runs: it takes an edit out of a file only by the
\* content that the reviewer gave for that very content, or because another
\* occurrence of an accepted text, in that very content, was part of the edit
\* (nearestOccurrence, revise-service.ts:452).  Excepted are the files that the
\* change created: they are deleted with all that users wrote (468).
RollbackKeepsUserEdits ==
  [][\A r \in Requests, p \in Paths \ Creates :
       Performs(r, "rollback") /\ LosesUserEdit(r, p) =>
         Sight(p) \in {req[r].confirm[p], req[r].plan[p].copy}]_vars

\* The copy of the ChangeSet that the request recorded next works on.
Copy == req[Head(mutations)].from

\* A finished review is final: it can only be rolled back, once, and its decisions
\* and texts stay.  The exception is a request that copied the ChangeSet before it
\* got its status, and that is recorded afterwards: a decision reopens the review
\* (revise-service.ts:350 writes the status of the copy), an edit changes it.
FinishedIsFinal ==
  [][/\ cs.status \in {"accepted", "rejected", "rolled-back"}
     /\ <<cs'.status, cs'.hunk, cs'.after>> # <<cs.status, cs.hunk, cs.after>>
     => \/ /\ cs.status = "accepted" /\ cs'.status = "rolled-back"
           /\ cs'.hunk = cs.hunk /\ cs'.after = cs.after
        \/ Copy.status # cs.status]_vars

\* An accepted ChangeSet has an accepted hunk and none pending, and an accepted
\* text with a blocking finding was overridden by a reviewer, however decisions of
\* several requests interleave.  The exception is an edit or a finish recorded
\* after the decisions it relied on had changed: it can bring a blocking text into
\* an accepted hunk (revise-service.ts:217) or accept undecided ones (417).
AcceptedIsJustified ==
  cs.status = "accepted" /\ ~cs.raced =>
    /\ Some(cs.hunk, "accepted") /\ ~Some(cs.hunk, "pending")
    /\ cs.overridden \/ \A h \in Hunks : cs.hunk[h] = "accepted" => cs.after[h] \notin Blocking

\* The records linked to a ChangeSet end as it ends: an accepted one leaves the
\* resolution in revision, a rejected or rolled-back one reopens the issue.
LinksFollow ==
  /\ cs.status = "accepted" => cs.plan = "accepted" /\ cs.resolution = "in-revision"
  /\ cs.status = "rejected" =>
       cs.plan = "cancelled" /\ cs.resolution = "reopened" /\ cs.issue = "open"
  /\ cs.status = "rolled-back" =>
       cs.plan = "cancelled" /\ cs.resolution = "rolled-back" /\ cs.issue = "open"

\* Editing a proposal never changes an accepted hunk and never takes a decision
\* back (DESIGN.md:61, DEV.md:56): the text of an accepted hunk stays what was
\* accepted.  The exception is a request whose copy of the hunk is not the stored
\* one: the hunk was accepted or edited after the copy was taken, and the edit
\* (revise-service.ts:217) or the decision (337) is recorded all the same.
EditsKeepDecisions ==
  [][\A h \in Hunks :
       /\ cs.hunk[h] = "accepted"
       /\ cs'.after[h] # cs.after[h] \/ cs'.hunk[h] = "pending"
       => <<Copy.hunk[h], Copy.after[h]>> # <<cs.hunk[h], cs.after[h]>>]_vars

=============================================================================
