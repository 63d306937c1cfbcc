--------------------------- MODULE JobQueueProofs ---------------------------
(* What holds of JobQueue for every value of its constants.                   *)
EXTENDS JobQueue, TLAPS, FiniteSetTheorems, FunctionTheorems, SequenceTheorems

-----------------------------------------------------------------------------
(* Types.                                                                     *)

LEMMA AbsentRecords == Fresh \in Record /\ Gone \in Record
  BY DEF Record, Fresh, Gone, Absent

LEMMA RecordOps ==
  ASSUME NEW r \in Record, NEW j \in Jobs
  PROVE  /\ Running(r) \in Record /\ Failed(j, r) \in Record
         /\ Unleased(r) \in Record /\ Cancelled(r) \in Record
<1>1. r = [status |-> r.status, attempts |-> r.attempts, dead |-> r.dead,
           worker |-> r.worker, live |-> r.live]
  BY DEF Record
<1>2. Running(r) \in Record
  <2>1. r.attempts \in Nat /\ r.attempts + 1 \in Nat  BY DEF Record
  <2>2. "running" \in Active  BY DEF Active
  <2>3. QED  BY <2>1, <2>2 DEF Record, Running
<1>3. Failed(j, r) \in Record
  <2>1. CASE r.attempts >= MaxAttempts[j]
    <3>1. Failed(j, r) = [r EXCEPT !.dead = TRUE, !.status = "failed"]
      BY <2>1 DEF Failed
    <3>2. QED  BY <3>1 DEF Record, Terminal
  <2>2. CASE ~(r.attempts >= MaxAttempts[j])
    <3>1. r.attempts \in Nat /\ MaxAttempts[j] \in 1..5
      BY JobQueueAssumption DEF JobQueueAssumption, Record
    <3>2. (r.attempts >= MaxAttempts[j]) = FALSE  BY <2>2, <3>1
    <3>3. Failed(j, r) = [r EXCEPT !.dead = FALSE, !.status = "queued"]
      BY <3>2 DEF Failed
    <3>4. QED  BY <3>3 DEF Record, Active
  <2>3. QED  BY <2>1, <2>2
<1>4. Unleased(r) \in Record  BY DEF Record, Unleased
<1>5. Cancelled(r) \in Record  BY <1>4 DEF Record, Cancelled, Terminal
<1>6. QED  BY <1>2, <1>3, <1>4, <1>5

LEMMA SaveType ==
  ASSUME NEW j \in Jobs, NEW r \in Record
  PROVE  Save(j, r) \in Write /\ AwaitedSave(j, r) \in Write
  BY DEF Write, Save, AwaitedSave

LEMMA RequestType ==
  /\ \A j \in Jobs : Request("remove", j) \in Write /\ Request("retry", j) \in Write
  /\ Request("deleteProject", NoJob) \in Write
  BY DEF Write, Request

LEMMA OrderSeq ==
  ASSUME NEW S \in SUBSET Jobs, NEW order \in SetToSeqs(S)
  PROVE  order \in Seq(Jobs)
<1>1. Cardinality(S) \in Nat
  BY FS_Subset, FS_CardinalityType, JobQueueAssumption DEF JobQueueAssumption
<1>2. order \in [1..Cardinality(S) -> Jobs]  BY DEF SetToSeqs
<1>3. QED  BY <1>1, <1>2

LEMMA SavesSeq ==
  ASSUME NEW S \in SUBSET Jobs, NEW order \in SetToSeqs(S),
         NEW recs \in [Jobs -> Record]
  PROVE  /\ SavesOf(order, recs) \in Seq(Write)
         /\ [n \in DOMAIN order |-> AwaitedSave(order[n], recs[order[n]])]
              \in Seq(Write)
<1>1. order \in Seq(Jobs)  BY OrderSeq
<1>2. PICK k \in Nat : DOMAIN order = 1..k /\ \A n \in 1..k : order[n] \in Jobs
  BY <1>1
<1>3. \A n \in 1..k : /\ Save(order[n], recs[order[n]]) \in Write
                      /\ AwaitedSave(order[n], recs[order[n]]) \in Write
  BY <1>2, SaveType
<1>4. SavesOf(order, recs) \in [1..k -> Write]  BY <1>2, <1>3 DEF SavesOf
<1>5. [n \in DOMAIN order |-> AwaitedSave(order[n], recs[order[n]])]
        \in [1..k -> Write]
  BY <1>2, <1>3
<1>6. QED  BY <1>4, <1>5

LEMMA LoopStepType ==
  ASSUME TypeOK, NEW j \in Jobs, NEW rest \in Seq(Write),
         \/ AttemptFails(j, rest) \/ LoopFails(j, rest)
         \/ LoopResumes(j, rest) \/ LoopRejected(j, rest)
  PROVE  /\ job' \in [Jobs -> Record] /\ loop' \in [Jobs -> LoopStates]
         /\ writes' \in Seq(Write)
<1>1. job \in [Jobs -> Record] /\ loop \in [Jobs -> LoopStates]  BY DEF TypeOK
<1>2. job[j] \in Record  BY <1>1
<1>3. /\ Running(job[j]) \in Record /\ Failed(j, job[j]) \in Record
      /\ [job[j] EXCEPT !.status = "failed"] \in Record
  BY <1>2, RecordOps DEF Record, Terminal
<1>4. /\ AwaitedSave(j, Running(job[j])) \in Write
      /\ AwaitedSave(j, Failed(j, job[j])) \in Write
  BY <1>3, SaveType
<1>5. ASSUME AttemptFails(j, rest)
      PROVE  /\ job' \in [Jobs -> Record] /\ loop' \in [Jobs -> LoopStates]
             /\ writes' \in Seq(Write)
  <2>1. CASE aborted[j]
    BY <1>1, <1>5, <2>1 DEF AttemptFails, LoopEnds, LoopStates
  <2>2. CASE ~aborted[j]
    <3>1. /\ job' = [job EXCEPT ![j] = Failed(j, job[j])]
          /\ writes' = Append(rest, AwaitedSave(j, job'[j]))
          /\ loop' = [loop EXCEPT ![j] = "retrying"]
      BY <1>5, <2>2 DEF AttemptFails
    <3>2. job'[j] = Failed(j, job[j]) /\ job' \in [Jobs -> Record]
      BY <1>1, <1>3, <3>1
    <3>3. writes' \in Seq(Write)  BY <1>4, <3>1, <3>2
    <3>4. loop' \in [Jobs -> LoopStates]  BY <1>1, <3>1 DEF LoopStates
    <3>5. QED  BY <3>2, <3>3, <3>4
  <2>3. QED  BY <2>1, <2>2
<1>6. ASSUME LoopFails(j, rest)
      PROVE  /\ job' \in [Jobs -> Record] /\ loop' \in [Jobs -> LoopStates]
             /\ writes' \in Seq(Write)
  BY <1>1, <1>3, <1>6 DEF LoopFails, LoopEnds, LoopStates
<1>7. CASE LoopResumes(j, rest)
  <2>1. CASE loop' = [loop EXCEPT ![j] = "idle"] /\ writes' = rest /\ UNCHANGED job
    BY <1>1, <2>1 DEF LoopStates
  <2>2. CASE /\ loop' = [loop EXCEPT ![j] = "handling"] /\ writes' = rest
             /\ UNCHANGED job
    BY <1>1, <2>2 DEF LoopStates
  <2>3. CASE /\ job' = [job EXCEPT ![j] = Running(@)]
             /\ writes' = Append(rest, AwaitedSave(j, job'[j]))
             /\ loop' = [loop EXCEPT ![j] = "starting"]
    <3>1. job'[j] = Running(job[j])  BY <1>1, <2>3
    <3>2. AwaitedSave(j, job'[j]) \in Write  BY <1>4, <3>1
    <3>3. writes' \in Seq(Write)  BY <2>3, <3>2
    <3>4. job' \in [Jobs -> Record]  BY <1>1, <1>3, <2>3
    <3>5. loop' \in [Jobs -> LoopStates]  BY <1>1, <2>3 DEF LoopStates
    <3>6. QED  BY <3>3, <3>4, <3>5
  <2>4. QED  BY <1>7, <2>1, <2>2, <2>3 DEF LoopResumes, LoopEnds
<1>8. QED  BY <1>5, <1>6, <1>7 DEF LoopRejected

LEMMA StoredAfterType ==
  ASSUME TypeOK, NEW w \in Write
  PROVE  StoredAfter(w) \in [Jobs -> Record]
<1>1. stored \in [Jobs -> Record]  BY DEF TypeOK
<1>2. CASE w.op = "save"
  BY <1>1, <1>2 DEF StoredAfter, Write
<1>3. CASE w.op = "remove"
  BY <1>1, <1>3, AbsentRecords DEF StoredAfter, Write
<1>4. CASE w.op = "retry"
  <2>1. [stored[w.job] EXCEPT !.status = "queued", !.dead = FALSE, !.attempts = 0]
          \in Record
    BY <1>1, <1>4 DEF Record, Active, Write
  <2>2. QED  BY <1>1, <1>4, <2>1 DEF StoredAfter, Write
<1>5. CASE w.op = "deleteProject"
  BY <1>1, <1>5, AbsentRecords DEF StoredAfter
<1>6. QED  BY <1>2, <1>3, <1>4, <1>5 DEF Write

LEMMA InitType == Init => TypeOK
<1>1. 0 \in 0..MaxRestarts  BY JobQueueAssumption DEF JobQueueAssumption
<1>2. <<>> \in Seq(Write)  OBVIOUS
<1>3. QED  BY <1>1, <1>2, AbsentRecords DEF Init, TypeOK, LoopStates

LEMMA JobStepType ==
  ASSUME TypeOK, NEW j \in Jobs, JobStep(j)
  PROVE  TypeOK'
<1>1. /\ job \in [Jobs -> Record] /\ loop \in [Jobs -> LoopStates]
      /\ aborted \in [Jobs -> BOOLEAN] /\ stored \in [Jobs -> Record]
      /\ writes \in Seq(Write) /\ job[j] \in Record /\ stored[j] \in Record
  BY DEF TypeOK
<1>2. CASE Enqueue(j)
  <2> DEFINE new == [Fresh EXCEPT !.status = "queued"]
  <2>1. new \in Record  BY DEF Fresh, Record, Active
  <2>2. Running(new) \in Record  BY <2>1, RecordOps
  <2>3. /\ <<Save(j, new), AwaitedSave(j, Running(new))>> \in Seq(Write)
        /\ Save(j, new) \in Write
    BY <2>1, <2>2, SaveType
  <2>4. CASE j \in Autostart
    <3>1. /\ job' = [job EXCEPT ![j] = Running(new)]
          /\ writes' = writes \o <<Save(j, new), AwaitedSave(j, Running(new))>>
          /\ loop' = [loop EXCEPT ![j] = "starting"]
          /\ aborted' = [aborted EXCEPT ![j] = FALSE]
      BY <1>2, <2>4 DEF Enqueue
    <3>2. writes' \in Seq(Write)  BY <1>1, <2>3, <3>1
    <3>3. job' \in [Jobs -> Record]  BY <1>1, <2>2, <3>1
    <3>4. loop' \in [Jobs -> LoopStates] /\ aborted' \in [Jobs -> BOOLEAN]
      BY <1>1, <3>1 DEF LoopStates
    <3>5. UNCHANGED <<stored, projectGone, restarts>>  BY <1>2 DEF Enqueue
    <3>6. QED  BY <3>2, <3>3, <3>4, <3>5 DEF TypeOK
  <2>5. CASE j \notin Autostart
    <3>1. /\ job' = [job EXCEPT ![j] = new]
          /\ writes' = Append(writes, Save(j, new))
          /\ UNCHANGED <<loop, aborted, stored, projectGone, restarts>>
      BY <1>2, <2>5 DEF Enqueue
    <3>2. writes' \in Seq(Write) /\ job' \in [Jobs -> Record]
      BY <1>1, <2>1, <2>3, <3>1
    <3>3. QED  BY <3>1, <3>2 DEF TypeOK
  <2>6. QED  BY <2>4, <2>5
<1>3. CASE Start(j)
  <2>1. Running(job[j]) \in Record  BY <1>1, RecordOps
  <2>2. job'[j] = Running(job[j])  BY <1>1, <1>3 DEF Start
  <2>3. AwaitedSave(j, job'[j]) \in Write  BY <2>1, <2>2, SaveType
  <2>4. QED  BY <1>1, <1>3, <2>1, <2>3 DEF Start, TypeOK, LoopStates
<1>4. CASE HandlerReturns(j)
  <2>1. /\ job' \in [Jobs -> Record] /\ loop' \in [Jobs -> LoopStates]
        /\ writes' \in Seq(Write)
    <3>1. CASE AttemptFails(j, writes)  BY <1>1, <3>1, LoopStepType
    <3>2. CASE LoopEnds(j) /\ UNCHANGED <<job, writes>>
      BY <1>1, <3>2 DEF LoopEnds, LoopStates
    <3>3. CASE /\ job' = [job EXCEPT ![j].status = "completed"]
               /\ writes' = Append(writes, AwaitedSave(j, job'[j]))
               /\ loop' = [loop EXCEPT ![j] = "finishing"]
      <4>1. [job[j] EXCEPT !.status = "completed"] \in Record
        BY <1>1 DEF Record, Terminal
      <4>2. job' \in [Jobs -> Record] /\ job'[j] \in Record
        BY <1>1, <3>3, <4>1
      <4>3. QED  BY <1>1, <3>3, <4>2, SaveType DEF LoopStates
    <3>4. QED  BY <1>4, <3>1, <3>2, <3>3 DEF HandlerReturns
  <2>2. QED  BY <1>4, <2>1 DEF HandlerReturns, TypeOK
<1>5. CASE UpdateProgress(j)
  BY <1>1, <1>5, SaveType DEF UpdateProgress, TypeOK
<1>6. CASE Cancel(j)
  <2>1. Cancelled(job[j]) \in Record  BY <1>1, RecordOps
  <2>2. job'[j] = Cancelled(job[j])  BY <1>1, <1>6 DEF Cancel
  <2>3. Save(j, job'[j]) \in Write  BY <2>1, <2>2, SaveType
  <2>4. aborted' \in [Jobs -> BOOLEAN]  BY <1>1, <1>6 DEF Cancel
  <2>5. QED  BY <1>1, <1>6, <2>1, <2>3, <2>4 DEF Cancel, TypeOK
<1>7. CASE Prune(j)
  BY <1>1, <1>7, RequestType, AbsentRecords DEF Prune, TypeOK
<1>8. CASE LeaseExpires(j)
  <2>1. \A r \in Record : [r EXCEPT !.live = FALSE] \in Record  BY DEF Record
  <2>2. \A w \in Write : [w EXCEPT !.rec.live = FALSE] \in Write
    BY <2>1 DEF Write, Gone, Fresh
  <2>3. writes' \in Seq(Write)  BY <1>1, <1>8, <2>2 DEF LeaseExpires
  <2>4. QED  BY <1>1, <1>8, <2>1, <2>3 DEF LeaseExpires, TypeOK
<1>9. CASE AdminRetry(j)
  BY <1>1, <1>9, RequestType DEF AdminRetry, TypeOK
<1>10. QED
  BY <1>2, <1>3, <1>4, <1>5, <1>6, <1>7, <1>8, <1>9 DEF JobStep
LEMMA RestStepType ==
  ASSUME TypeOK, [Next]_vars, ~ \E j \in Jobs : JobStep(j)
  PROVE  TypeOK'
<1>1. /\ job \in [Jobs -> Record] /\ loop \in [Jobs -> LoopStates]
      /\ aborted \in [Jobs -> BOOLEAN] /\ stored \in [Jobs -> Record]
      /\ writes \in Seq(Write) /\ projectGone \in BOOLEAN
      /\ \A j \in Jobs : job[j] \in Record /\ stored[j] \in Record
  BY DEF TypeOK
<1>2. writes # <<>> => Head(writes) \in Write /\ Tail(writes) \in Seq(Write)
  BY <1>1
<1>3. \A w \in Write : w.awaited => w.job \in Jobs  BY DEF Write
<1>4. ASSUME NEW w \in Workers, NEW j \in Jobs, Claim(w, j)  PROVE TypeOK'
  <2> DEFINE claimed == [Running(job[j]) EXCEPT !.worker = w, !.live = TRUE]
  <2>1. claimed \in Record
    <3>1. Running(job[j]) \in Record  BY <1>1, RecordOps
    <3>2. \A r \in Record : [r EXCEPT !.worker = w, !.live = TRUE] \in Record
      BY DEF Record
    <3>3. QED  BY <3>1, <3>2
  <2>2. job' = [job EXCEPT ![j] = claimed]  BY <1>4 DEF Claim
  <2>3. job' \in [Jobs -> Record] /\ job'[j] \in Record  BY <1>1, <2>1, <2>2
  <2>4. writes' \in Seq(Write)  BY <1>1, <1>4, <2>3, SaveType DEF Claim
  <2>5. QED  BY <1>4, <2>3, <2>4 DEF Claim, TypeOK
<1>5. ASSUME NEW w \in Workers, NEW j \in Jobs, FinishClaim(w, j)  PROVE TypeOK'
  <2>1. /\ Failed(j, Unleased(job[j])) \in Record
        /\ [Unleased(job[j]) EXCEPT !.status = "completed"] \in Record
    <3>1. Unleased(job[j]) \in Record  BY <1>1, RecordOps
    <3>2. \A r \in Record : [r EXCEPT !.status = "completed"] \in Record
      BY DEF Record, Terminal
    <3>3. QED  BY <3>1, <3>2, RecordOps
  <2>2. job' \in [Jobs -> Record]  BY <1>1, <1>5, <2>1 DEF FinishClaim
  <2>3. Save(j, job'[j]) \in Write  BY <2>2, SaveType
  <2>4. writes' \in Seq(Write)  BY <1>1, <1>5, <2>3 DEF FinishClaim
  <2>5. QED  BY <1>5, <2>2, <2>4 DEF FinishClaim, TypeOK
<1>6. CASE WriteRuns
  <2>1. stored' \in [Jobs -> Record]
    BY <1>2, <1>6, StoredAfterType DEF WriteRuns
  <2>2. projectGone' \in BOOLEAN  BY <1>6 DEF WriteRuns
  <2>3. /\ job' \in [Jobs -> Record] /\ loop' \in [Jobs -> LoopStates]
        /\ writes' \in Seq(Write)
    <3>1. CASE Head(writes).awaited
      <4>1. LoopResumes(Head(writes).job, Tail(writes))
        BY <1>6, <3>1 DEF WriteRuns
      <4>2. QED  BY <1>2, <1>3, <1>6, <3>1, <4>1, LoopStepType DEF WriteRuns
    <3>2. CASE ~Head(writes).awaited
      BY <1>1, <1>2, <1>6, <3>2 DEF WriteRuns
    <3>3. QED  BY <3>1, <3>2
  <2>4. QED  BY <1>1, <1>6, <2>1, <2>2, <2>3 DEF WriteRuns, TypeOK
<1>7. CASE WriteRejected
  <2>1. /\ job' \in [Jobs -> Record] /\ loop' \in [Jobs -> LoopStates]
        /\ writes' \in Seq(Write)
    <3>1. CASE Head(writes).awaited
      <4>1. LoopRejected(Head(writes).job, Tail(writes))
        BY <1>7, <3>1 DEF WriteRejected
      <4>2. QED  BY <1>2, <1>3, <1>7, <3>1, <4>1, LoopStepType DEF WriteRejected
    <3>2. CASE ~Head(writes).awaited
      BY <1>1, <1>2, <1>7, <3>2 DEF WriteRejected
    <3>3. QED  BY <3>1, <3>2
  <2>2. QED  BY <1>1, <1>7, <2>1 DEF WriteRejected, TypeOK
<1>8. CASE RequeueExpiredLeases
  <2> DEFINE expired == {j \in Jobs : /\ job[j].status = "running"
                                      /\ job[j].worker # NoWorker /\ ~job[j].live}
  <2>1. \A j \in Jobs : Failed(j, Unleased(job[j])) \in Record
    BY <1>1, RecordOps
  <2>2. job' = [j \in Jobs |-> IF j \in expired THEN Failed(j, Unleased(job[j]))
                               ELSE job[j]]
    BY <1>8 DEF RequeueExpiredLeases
  <2>3. job' \in [Jobs -> Record]
    <3> HIDE DEF expired
    <3> QED  BY <1>1, <2>1, <2>2
  <2>4. PICK order \in SetToSeqs(expired) : writes' = writes \o SavesOf(order, job')
    BY <1>8 DEF RequeueExpiredLeases
  <2>5. SavesOf(order, job') \in Seq(Write)  BY <2>3, SavesSeq
  <2>6. writes' \in Seq(Write)  BY <1>1, <2>4, <2>5
  <2>7. QED  BY <1>8, <2>3, <2>6 DEF RequeueExpiredLeases, TypeOK
<1>9. CASE DeleteProject
  <2> DEFINE hit == {j \in ReferenceJobs : job[j].status \in Active}
  <2>1. \A j \in Jobs : Cancelled(job[j]) \in Record  BY <1>1, RecordOps
  <2>2. job' = [j \in Jobs |-> IF j \in hit THEN Cancelled(job[j]) ELSE job[j]]
    BY <1>9 DEF DeleteProject
  <2>3. job' \in [Jobs -> Record]
    <3> HIDE DEF hit
    <3> QED  BY <1>1, <2>1, <2>2
  <2>4. PICK order \in SetToSeqs(hit) :
          writes' = Append(writes \o SavesOf(order, job'),
                           Request("deleteProject", NoJob))
    BY <1>9 DEF DeleteProject
  <2>5. hit \subseteq Jobs  BY JobQueueAssumption DEF JobQueueAssumption
  <2>6. SavesOf(order, job') \in Seq(Write)  BY <2>3, <2>5, SavesSeq
  <2>7. writes' \in Seq(Write)  BY <1>1, <2>4, <2>6, RequestType
  <2>8. aborted' \in [Jobs -> BOOLEAN]  BY <1>1, <1>9 DEF DeleteProject
  <2>9. QED  BY <1>9, <2>3, <2>7, <2>8 DEF DeleteProject, TypeOK
<1>10. CASE Restart
  <2>1. \A j \in Jobs : Restored(j) \in Record
    BY <1>1 DEF Restored, Record, Active
  <2>2. \A j \in Jobs : Running(Restored(j)) \in Record  BY <2>1, RecordOps
  <2>3. job' \in [Jobs -> Record]  BY <1>10, <2>1, <2>2 DEF Restart
  <2>4. Relaunched \subseteq Jobs
    BY JobQueueAssumption DEF Relaunched, JobQueueAssumption
  <2>5. PICK order \in SetToSeqs(Relaunched) :
          writes' = [n \in DOMAIN order |-> AwaitedSave(order[n], job'[order[n]])]
    BY <1>10 DEF Restart
  <2>6. writes' \in Seq(Write)  BY <2>3, <2>4, <2>5, SavesSeq
  <2>7. loop' \in [Jobs -> LoopStates] /\ aborted' \in [Jobs -> BOOLEAN]
    BY <1>10 DEF Restart, LoopStates
  <2>8. restarts' \in 0..MaxRestarts
    BY <1>10, JobQueueAssumption DEF Restart, TypeOK, JobQueueAssumption
  <2>9. QED  BY <1>10, <2>3, <2>6, <2>7, <2>8, <1>1 DEF Restart, TypeOK
<1>11. CASE UNCHANGED vars  BY <1>11 DEF vars, TypeOK
<1>12. QED
  BY <1>4, <1>5, <1>6, <1>7, <1>8, <1>9, <1>10, <1>11 DEF Next

\* Every variable of JobQueue keeps its type.
THEOREM TypeCorrect == Spec => []TypeOK
<1>1. TypeOK /\ [Next]_vars => TypeOK'  BY JobStepType, RestStepType
<1>2. QED  BY InitType, <1>1, PTL DEF Spec
-----------------------------------------------------------------------------
(* Cancellation and ownership.                                                *)

\* What ties a loop to its record: its signal is aborted exactly when the job
\* was cancelled, it saves completed jobs when finishing, and a job that runs
\* while the loop still saves a failed attempt was claimed by a worker.
LoopInv ==
  \A j \in Jobs :
    /\ loop[j] # "idle" => (aborted[j] <=> job[j].status = "cancelled")
    /\ loop[j] = "finishing" => job[j].status = "completed"
    /\ loop[j] = "retrying" /\ job[j].status = "running"
         => job[j].worker # NoWorker

OwnerInv == LoopInv /\ RunningHasOwner

\* The part of OwnerInv about one job, and what it must never do.
OwnerInvOf(j) ==
  /\ loop[j] # "idle" => (aborted[j] <=> job[j].status = "cancelled")
  /\ loop[j] = "finishing" => job[j].status = "completed"
  /\ loop[j] = "retrying" /\ job[j].status = "running"
       => job[j].worker # NoWorker
  /\ job[j].status = "running" => loop[j] # "idle" \/ job[j].worker # NoWorker

StaysCancelled(j) ==
  job[j].status = "cancelled" => job'[j].status \in {"cancelled", "gone"}

LEMMA OwnerInvByJob == OwnerInv <=> \A j \in Jobs : OwnerInvOf(j)
  BY DEF OwnerInv, OwnerInvOf, LoopInv, RunningHasOwner

\* A step of job j leaves every other job alone.
LEMMA OneJobMoves ==
  ASSUME TypeOK, OwnerInv, NEW j \in Jobs, OwnerInvOf(j)', StaysCancelled(j),
         \A i \in Jobs \ {j} : /\ job'[i] = job[i] /\ loop'[i] = loop[i]
                               /\ aborted'[i] = aborted[i]
  PROVE  OwnerInv' /\ \A i \in Jobs : StaysCancelled(i)
  BY OwnerInvByJob DEF OwnerInv, LoopInv, RunningHasOwner, OwnerInvOf, StaysCancelled
LEMMA LoopStepOwner ==
  ASSUME TypeOK, OwnerInv, NEW j \in Jobs, NEW rest, UNCHANGED aborted,
         \/ loop[j] \in {"handling", "finishing"} /\ AttemptFails(j, rest)
         \/ LoopResumes(j, rest)
         \/ LoopRejected(j, rest)
  PROVE  OwnerInv' /\ \A i \in Jobs : StaysCancelled(i)
<1>1. /\ job \in [Jobs -> Record] /\ loop \in [Jobs -> LoopStates]
      /\ aborted \in [Jobs -> BOOLEAN] /\ job[j] \in Record
  BY DEF TypeOK
<1>2. OwnerInvOf(j)  BY OwnerInvByJob
<1>3. CASE loop[j] \in {"handling", "finishing"} /\ AttemptFails(j, rest)
  <2>1. CASE aborted[j]
    <3>1. loop' = [loop EXCEPT ![j] = "idle"] /\ UNCHANGED job
      BY <1>3, <2>1 DEF AttemptFails, LoopEnds
    <3>2. OwnerInvOf(j)' /\ StaysCancelled(j)
      BY <1>1, <1>2, <1>3, <2>1, <3>1 DEF OwnerInvOf, StaysCancelled
    <3>3. QED  BY <1>1, <3>1, <3>2, OneJobMoves
  <2>2. CASE ~aborted[j]
    <3>1. /\ loop' = [loop EXCEPT ![j] = "retrying"]
          /\ job' = [job EXCEPT ![j] = Failed(j, job[j])]
      BY <1>3, <2>2 DEF AttemptFails
    <3>2. job'[j].status \in {"failed", "queued"}
      BY <1>1, <3>1 DEF Failed, Record
    <3>3. OwnerInvOf(j)' /\ StaysCancelled(j)
      BY <1>1, <1>2, <1>3, <2>2, <3>1, <3>2 DEF OwnerInvOf, StaysCancelled
    <3>4. QED  BY <1>1, <3>1, <3>3, OneJobMoves
  <2>3. QED  BY <2>1, <2>2
<1>4. CASE loop[j] \in {"starting", "retrying"} /\ LoopFails(j, rest)
  <2>1. /\ loop' = [loop EXCEPT ![j] = "idle"]
        /\ job' = IF aborted[j] THEN job ELSE [job EXCEPT ![j].status = "failed"]
    BY <1>4 DEF LoopFails, LoopEnds
  <2>2. OwnerInvOf(j)' /\ StaysCancelled(j)
    BY <1>1, <1>2, <1>4, <2>1 DEF OwnerInvOf, StaysCancelled, Record
  <2>3. QED  BY <1>1, <2>1, <2>2, OneJobMoves
<1>5. CASE LoopResumes(j, rest)
  <2>1. CASE loop[j] = "starting"
    <3>1. /\ loop' = [loop EXCEPT ![j] = IF aborted[j] THEN "idle" ELSE "handling"]
          /\ UNCHANGED job
      BY <1>5, <2>1 DEF LoopResumes
    <3>2. OwnerInvOf(j)' /\ StaysCancelled(j)
      BY <1>1, <1>2, <2>1, <3>1 DEF OwnerInvOf, StaysCancelled
    <3>3. QED  BY <1>1, <3>1, <3>2, OneJobMoves
  <2>2. CASE loop[j] = "finishing"
    <3>1. loop' = [loop EXCEPT ![j] = "idle"] /\ UNCHANGED job
      BY <1>5, <2>2 DEF LoopResumes, LoopEnds
    <3>2. OwnerInvOf(j)' /\ StaysCancelled(j)
      BY <1>1, <1>2, <2>2, <3>1 DEF OwnerInvOf, StaysCancelled
    <3>3. QED  BY <1>1, <3>1, <3>2, OneJobMoves
  <2>3. CASE loop[j] = "retrying" /\ MayRun(j, job[j]) /\ ~aborted[j]
    <3>1. /\ loop' = [loop EXCEPT ![j] = "starting"]
          /\ job' = [job EXCEPT ![j] = Running(job[j])]
      BY <1>5, <2>3 DEF LoopResumes
    <3>2. job'[j].status = "running"  BY <1>1, <3>1 DEF Running, Record
    <3>3. OwnerInvOf(j)' /\ StaysCancelled(j)
      BY <1>1, <1>2, <2>3, <3>1, <3>2 DEF OwnerInvOf, StaysCancelled
    <3>4. QED  BY <1>1, <3>1, <3>3, OneJobMoves
  <2>4. CASE loop[j] = "retrying" /\ ~(MayRun(j, job[j]) /\ ~aborted[j])
    <3>1. loop' = [loop EXCEPT ![j] = "idle"] /\ UNCHANGED job
      BY <1>5, <2>4 DEF LoopResumes, LoopEnds
    <3>2. OwnerInvOf(j)' /\ StaysCancelled(j)
      BY <1>1, <1>2, <2>4, <3>1 DEF OwnerInvOf, StaysCancelled
    <3>3. QED  BY <1>1, <3>1, <3>2, OneJobMoves
  <2>5. QED  BY <1>5, <2>1, <2>2, <2>3, <2>4 DEF LoopResumes
<1>6. QED  BY <1>3, <1>4, <1>5 DEF LoopRejected

LEMMA JobStepOwner ==
  ASSUME TypeOK, OwnerInv, NEW j \in Jobs, JobStep(j)
  PROVE  OwnerInv' /\ \A i \in Jobs : StaysCancelled(i)
<1>1. /\ job \in [Jobs -> Record] /\ loop \in [Jobs -> LoopStates]
      /\ aborted \in [Jobs -> BOOLEAN] /\ job[j] \in Record
  BY DEF TypeOK
<1>2. OwnerInvOf(j)  BY OwnerInvByJob
<1>3. CASE Enqueue(j)
  <2> DEFINE new == [Fresh EXCEPT !.status = "queued"]
  <2>1. new.status = "queued" /\ Running(new).status = "running"
    BY DEF Fresh, Running
  <2>2. CASE j \in Autostart
    <3>1. /\ job' = [job EXCEPT ![j] = Running(new)]
          /\ loop' = [loop EXCEPT ![j] = "starting"]
          /\ aborted' = [aborted EXCEPT ![j] = FALSE]
      BY <1>3, <2>2 DEF Enqueue
    <3>2. OwnerInvOf(j)' /\ StaysCancelled(j)
      BY <1>1, <1>3, <2>1, <3>1 DEF Enqueue, OwnerInvOf, StaysCancelled
    <3>3. QED  BY <1>1, <3>1, <3>2, OneJobMoves
  <2>3. CASE j \notin Autostart
    <3>1. job' = [job EXCEPT ![j] = new] /\ UNCHANGED <<loop, aborted>>
      BY <1>3, <2>3 DEF Enqueue
    <3>2. OwnerInvOf(j)' /\ StaysCancelled(j)
      BY <1>1, <1>2, <1>3, <2>1, <3>1 DEF Enqueue, OwnerInvOf, StaysCancelled
    <3>3. QED  BY <1>1, <3>1, <3>2, OneJobMoves
  <2>4. QED  BY <2>2, <2>3
<1>4. CASE Start(j)
  <2>1. job'[j].status = "running"  BY <1>1, <1>4 DEF Start, Running, Record
  <2>2. OwnerInvOf(j)' /\ StaysCancelled(j)
    BY <1>1, <1>4, <2>1 DEF Start, OwnerInvOf, StaysCancelled
  <2>3. QED  BY <1>1, <1>4, <2>2, OneJobMoves DEF Start
<1>5. CASE HandlerReturns(j)
  <2>1. CASE AttemptFails(j, writes)
    BY <1>5, <2>1, LoopStepOwner DEF HandlerReturns
  <2>2. CASE aborted[j] /\ LoopEnds(j) /\ UNCHANGED <<job, writes>>
    <3>1. OwnerInvOf(j)' /\ StaysCancelled(j)
      BY <1>1, <1>2, <1>5, <2>2 DEF HandlerReturns, LoopEnds, OwnerInvOf, StaysCancelled
    <3>2. QED  BY <1>1, <1>5, <2>2, <3>1, OneJobMoves DEF HandlerReturns, LoopEnds
  <2>3. CASE /\ ~aborted[j]
             /\ job' = [job EXCEPT ![j].status = "completed"]
             /\ loop' = [loop EXCEPT ![j] = "finishing"]
    <3>1. job'[j].status = "completed"  BY <1>1, <2>3 DEF Record
    <3>2. OwnerInvOf(j)' /\ StaysCancelled(j)
      BY <1>1, <1>2, <1>5, <2>3, <3>1 DEF HandlerReturns, OwnerInvOf, StaysCancelled
    <3>3. QED  BY <1>1, <1>5, <2>3, <3>2, OneJobMoves DEF HandlerReturns
  <2>4. QED  BY <1>5, <2>1, <2>2, <2>3 DEF HandlerReturns
<1>6. CASE UpdateProgress(j) \/ AdminRetry(j)
  BY <1>6 DEF UpdateProgress, AdminRetry, OwnerInv, LoopInv, RunningHasOwner,
              StaysCancelled
<1>7. CASE Cancel(j)
  <2>1. job'[j].status = "cancelled"
    BY <1>1, <1>7 DEF Cancel, Cancelled, Unleased, Record
  <2>2. OwnerInvOf(j)' /\ StaysCancelled(j)
    BY <1>1, <1>2, <1>7, <2>1 DEF Cancel, OwnerInvOf, StaysCancelled, Active
  <2>3. QED  BY <1>1, <1>7, <2>2, OneJobMoves DEF Cancel
<1>8. CASE Prune(j)
  <2>1. job'[j].status = "gone"  BY <1>1, <1>8 DEF Prune, Gone, Fresh
  <2>2. OwnerInvOf(j)' /\ StaysCancelled(j)
    BY <1>1, <1>8, <2>1 DEF Prune, OwnerInvOf, StaysCancelled
  <2>3. QED  BY <1>1, <1>8, <2>2, OneJobMoves DEF Prune
<1>9. CASE LeaseExpires(j)
  <2>1. job'[j].status = job[j].status /\ job'[j].worker = job[j].worker
    BY <1>1, <1>9 DEF LeaseExpires, Record
  <2>2. OwnerInvOf(j)' /\ StaysCancelled(j)
    BY <1>1, <1>2, <1>9, <2>1 DEF LeaseExpires, OwnerInvOf, StaysCancelled
  <2>3. QED  BY <1>1, <1>9, <2>2, OneJobMoves DEF LeaseExpires
<1>10. QED
  BY <1>3, <1>4, <1>5, <1>6, <1>7, <1>8, <1>9 DEF JobStep
LEMMA NextOwner ==
  ASSUME TypeOK, OwnerInv, [Next]_vars
  PROVE  OwnerInv' /\ (restarts' = restarts => \A i \in Jobs : StaysCancelled(i))
<1>1. /\ job \in [Jobs -> Record] /\ loop \in [Jobs -> LoopStates]
      /\ aborted \in [Jobs -> BOOLEAN] /\ stored \in [Jobs -> Record]
      /\ writes \in Seq(Write) /\ \A j \in Jobs : job[j] \in Record
  BY DEF TypeOK
<1>2. \A j \in Jobs : OwnerInvOf(j)  BY OwnerInvByJob
<1>3. writes # <<>> => Head(writes) \in Write  BY <1>1
<1>4. \A w \in Write : w.awaited => w.job \in Jobs  BY DEF Write
<1>5. ASSUME NEW j \in Jobs, JobStep(j)
      PROVE  OwnerInv' /\ \A i \in Jobs : StaysCancelled(i)
  BY <1>5, JobStepOwner
<1>6. ASSUME NEW w \in Workers, NEW j \in Jobs, Claim(w, j)
      PROVE  OwnerInv' /\ \A i \in Jobs : StaysCancelled(i)
  <2>1. job'[j].status = "running" /\ job'[j].worker = w
    BY <1>1, <1>6 DEF Claim, Running, Record
  <2>2. w # NoWorker  BY JobQueueAssumption DEF JobQueueAssumption
  <2>3. OwnerInvOf(j)' /\ StaysCancelled(j)
    BY <1>1, <1>2, <1>6, <2>1, <2>2 DEF Claim, OwnerInvOf, StaysCancelled
  <2>4. QED  BY <1>1, <1>6, <2>3, OneJobMoves DEF Claim
<1>7. ASSUME NEW w \in Workers, NEW j \in Jobs, FinishClaim(w, j)
      PROVE  OwnerInv' /\ \A i \in Jobs : StaysCancelled(i)
  <2>1. job'[j].status \in {"failed", "queued", "completed"}
    <3>1. Unleased(job[j]) \in Record  BY <1>1, RecordOps
    <3>2. \A r \in Record : Failed(j, r).status \in {"failed", "queued"}
      BY DEF Failed, Record
    <3>3. \A r \in Record : [r EXCEPT !.status = "completed"].status = "completed"
      BY DEF Record
    <3>4. QED  BY <1>1, <1>7, <3>1, <3>2, <3>3 DEF FinishClaim
  <2>2. OwnerInvOf(j)' /\ StaysCancelled(j)
    BY <1>1, <1>2, <1>7, <2>1 DEF FinishClaim, OwnerInvOf, StaysCancelled
  <2>3. /\ \A i \in Jobs \ {j} : job'[i] = job[i]
        /\ UNCHANGED <<loop, aborted>>
    BY <1>1, <1>7 DEF FinishClaim
  <2>4. QED  BY <2>2, <2>3, OneJobMoves
<1>8. CASE WriteRuns
  <2>1. CASE Head(writes).awaited
    BY <1>3, <1>4, <1>8, <2>1, LoopStepOwner DEF WriteRuns
  <2>2. CASE ~Head(writes).awaited
    BY <1>8, <2>2 DEF WriteRuns, OwnerInv, LoopInv, RunningHasOwner, StaysCancelled
  <2>3. QED  BY <2>1, <2>2
<1>9. CASE WriteRejected
  <2>1. CASE Head(writes).awaited
    BY <1>3, <1>4, <1>9, <2>1, LoopStepOwner DEF WriteRejected
  <2>2. CASE ~Head(writes).awaited
    BY <1>9, <2>2 DEF WriteRejected, OwnerInv, LoopInv, RunningHasOwner, StaysCancelled
  <2>3. QED  BY <2>1, <2>2
<1>10. CASE RequeueExpiredLeases
  <2>1. SUFFICES ASSUME NEW j \in Jobs  PROVE OwnerInvOf(j)' /\ StaysCancelled(j)
    BY OwnerInvByJob DEF OwnerInv, LoopInv, RunningHasOwner, OwnerInvOf
  <2>2. UNCHANGED <<loop, aborted>>  BY <1>10 DEF RequeueExpiredLeases
  <2>3. CASE job'[j] = job[j]
    BY <1>2, <2>2, <2>3 DEF OwnerInvOf, StaysCancelled
  <2>4. CASE job[j].status = "running" /\ job'[j] = Failed(j, Unleased(job[j]))
    <3>1. job'[j].status \in {"failed", "queued"}
      BY <1>1, <2>4 DEF Failed, Unleased, Record
    <3>2. QED  BY <1>2, <2>2, <2>4, <3>1 DEF OwnerInvOf, StaysCancelled
  <2>5. QED  BY <1>10, <2>3, <2>4 DEF RequeueExpiredLeases
<1>11. CASE DeleteProject
  <2>1. SUFFICES ASSUME NEW j \in Jobs  PROVE OwnerInvOf(j)' /\ StaysCancelled(j)
    BY OwnerInvByJob DEF OwnerInv, LoopInv, RunningHasOwner, OwnerInvOf
  <2>2. UNCHANGED loop  BY <1>11 DEF DeleteProject
  <2>3. CASE j \in ReferenceJobs /\ job[j].status \in Active
    <3>1. job'[j] = Cancelled(job[j])  BY <1>11, <2>3 DEF DeleteProject
    <3>2. job'[j].status = "cancelled"
      BY <1>1, <3>1 DEF Cancelled, Unleased, Record
    <3>3. aborted'[j] <=> (aborted[j] \/ loop[j] # "idle")
      BY <1>11, <2>3 DEF DeleteProject
    <3>4. QED
      BY <1>2, <2>2, <2>3, <3>2, <3>3 DEF OwnerInvOf, StaysCancelled, Active
  <2>4. CASE ~(j \in ReferenceJobs /\ job[j].status \in Active)
    <3>1. job'[j] = job[j]  BY <1>11, <2>4 DEF DeleteProject
    <3>2. aborted'[j] <=> aborted[j]  BY <1>11, <2>4 DEF DeleteProject
    <3>3. QED  BY <1>2, <2>2, <3>1, <3>2 DEF OwnerInvOf, StaysCancelled
  <2>5. QED  BY <2>3, <2>4
<1>12. CASE Restart
  <2>1. restarts' # restarts  BY <1>12 DEF Restart, TypeOK
  <2>2. SUFFICES ASSUME NEW j \in Jobs  PROVE OwnerInvOf(j)'
    BY <2>1, OwnerInvByJob DEF OwnerInv, LoopInv, RunningHasOwner, OwnerInvOf
  <2>3. Restored(j).status # "running"  BY <1>1 DEF Restored, Record
  <2>4. CASE j \in Relaunched
    <3>1. job'[j] = Running(Restored(j)) /\ loop'[j] = "starting" /\ ~aborted'[j]
      BY <1>12, <2>4 DEF Restart
    <3>2. Restored(j) \in Record  BY <1>1 DEF Restored, Record, Active
    <3>3. job'[j].status = "running"  BY <3>1, <3>2 DEF Running, Record
    <3>4. QED  BY <3>1, <3>3 DEF OwnerInvOf
  <2>5. CASE j \notin Relaunched
    <3>1. job'[j] = Restored(j) /\ loop'[j] = "idle"  BY <1>12, <2>5 DEF Restart
    <3>2. QED  BY <2>3, <3>1 DEF OwnerInvOf
  <2>6. QED  BY <2>4, <2>5
<1>13. CASE UNCHANGED vars
  BY <1>13 DEF vars, OwnerInv, LoopInv, RunningHasOwner, StaysCancelled
<1>14. QED
  BY <1>5, <1>6, <1>7, <1>8, <1>9, <1>10, <1>11, <1>12, <1>13 DEF Next

LEMMA OwnerInvariant == Spec => []OwnerInv
<1>1. Init => OwnerInv
  BY DEF Init, OwnerInv, LoopInv, RunningHasOwner, Fresh
<1>2. TypeOK /\ OwnerInv /\ [Next]_vars => OwnerInv'  BY NextOwner
<1>3. QED  BY <1>1, <1>2, TypeCorrect, PTL DEF Spec

\* Whatever loops, workers, cancellations, rejected saves and restarts do, a
\* running job has a loop or a lease holder.
THEOREM RunningJobsAreOwned == Spec => []RunningHasOwner
<1>1. OwnerInv => RunningHasOwner  BY DEF OwnerInv
<1>2. QED  BY <1>1, OwnerInvariant, PTL

\* No actor revives a cancelled job within one life of the server.
THEOREM CancellationIsFinal == Spec => CancelledIsFinal
<1> DEFINE Final == restarts' = restarts =>
                      \A j \in Jobs : job[j].status = "cancelled" =>
                                        job'[j].status \in {"cancelled", "gone"}
<1>1. TypeOK /\ OwnerInv /\ [Next]_vars => [Final]_vars
  BY NextOwner DEF StaysCancelled
<1>2. QED
  BY <1>1, TypeCorrect, OwnerInvariant, PTL DEF Spec, CancelledIsFinal
-----------------------------------------------------------------------------
(* The retry budget.  Claim ignores it, so the bound is a theorem about the   *)
(* documented deployment, which has no workers.                               *)

\* The records of job j that are within its budget; a mutation that carries
\* such a record.  A trailing copy must be within it too: a restart loads it.
Budget(j)   == {r \in Record : r.attempts <= MaxAttempts[j]}
BudgetWrite == {w \in Write : w.op = "save" => w.rec \in Budget(w.job)}

BudgetInv == /\ \A j \in Jobs : job[j] \in Budget(j) /\ stored[j] \in Budget(j)
             /\ writes \in Seq(BudgetWrite)

LEMMA BudgetOps ==
  ASSUME NEW j \in Jobs, NEW r \in Budget(j)
  PROVE  /\ MayRun(j, r) => Running(r) \in Budget(j)
         /\ Failed(j, r) \in Budget(j) /\ Cancelled(r) \in Budget(j)
         /\ Unleased(r) \in Budget(j)
         /\ \A s \in Active \cup Terminal : [r EXCEPT !.status = s] \in Budget(j)
         /\ [r EXCEPT !.live = FALSE] \in Budget(j)
         /\ [r EXCEPT !.status = "queued", !.dead = FALSE, !.attempts = 0] \in Budget(j)
         /\ Fresh \in Budget(j) /\ Gone \in Budget(j)
         /\ [Fresh EXCEPT !.status = "queued"] \in Budget(j)
         /\ Running([Fresh EXCEPT !.status = "queued"]) \in Budget(j)
<1>1. r \in Record /\ r.attempts \in Nat /\ r.attempts <= MaxAttempts[j]
  BY DEF Budget, Record
<1>2. MaxAttempts[j] \in 1..5  BY JobQueueAssumption DEF JobQueueAssumption
<1>3. MayRun(j, r) => Running(r) \in Budget(j)
  <2>1. Running(r) \in Record /\ Running(r).attempts = r.attempts + 1
    BY <1>1, RecordOps DEF Running, Record
  <2>2. QED  BY <1>1, <1>2, <2>1 DEF Budget, MayRun
<1>4. Failed(j, r) \in Budget(j)
  <2>1. Failed(j, r) \in Record /\ Failed(j, r).attempts = r.attempts
    BY <1>1, RecordOps DEF Failed, Record
  <2>2. QED  BY <1>1, <2>1 DEF Budget
<1>5. Unleased(r) \in Budget(j) /\ Cancelled(r) \in Budget(j)
  <2>1. /\ Unleased(r) \in Record /\ Unleased(r).attempts = r.attempts
        /\ Cancelled(r) \in Record /\ Cancelled(r).attempts = r.attempts
    BY <1>1, RecordOps DEF Unleased, Cancelled, Record
  <2>2. QED  BY <1>1, <2>1 DEF Budget
<1>6. \A s \in Active \cup Terminal : [r EXCEPT !.status = s] \in Budget(j)
  BY <1>1 DEF Budget, Record
<1>7. [r EXCEPT !.live = FALSE] \in Budget(j)  BY <1>1 DEF Budget, Record
<1>8. [r EXCEPT !.status = "queued", !.dead = FALSE, !.attempts = 0] \in Budget(j)
  <2> DEFINE again == [r EXCEPT !.status = "queued", !.dead = FALSE, !.attempts = 0]
  <2>1. again \in Record /\ again.attempts = 0  BY <1>1 DEF Record, Active
  <2> HIDE DEF again
  <2>2. again \in Budget(j)  BY <1>2, <2>1 DEF Budget
  <2>3. QED  BY <2>2 DEF again
<1>9. Fresh \in Budget(j) /\ Gone \in Budget(j)
  BY <1>2, AbsentRecords DEF Budget, Fresh, Gone
<1> DEFINE new == [Fresh EXCEPT !.status = "queued"]
<1>10. new \in Record /\ new.attempts = 0  BY DEF Fresh, Record, Active
<1> HIDE DEF new
<1>11. Running(new) \in Record /\ Running(new).attempts = 0 + 1
  <2>1. Running(new) \in Record
    BY <1>10, RecordOps
  <2>2. Running(new).attempts = new.attempts + 1
    BY <1>10 DEF Running, Record
  <2>3. QED  BY <1>10, <2>1, <2>2
<1>12. new \in Budget(j) /\ Running(new) \in Budget(j)
  BY <1>2, <1>10, <1>11 DEF Budget
<1>13. QED  BY <1>3, <1>4, <1>5, <1>6, <1>7, <1>8, <1>9, <1>12 DEF new

LEMMA BudgetSave ==
  ASSUME NEW j \in Jobs, NEW r \in Budget(j)
  PROVE  Save(j, r) \in BudgetWrite /\ AwaitedSave(j, r) \in BudgetWrite
<1>1. r \in Record  BY DEF Budget
<1>2. QED  BY <1>1, SaveType DEF BudgetWrite, Save, AwaitedSave

LEMMA BudgetRequest ==
  /\ \A j \in Jobs : /\ Request("remove", j) \in BudgetWrite
                     /\ Request("retry", j) \in BudgetWrite
  /\ Request("deleteProject", NoJob) \in BudgetWrite
  BY RequestType DEF BudgetWrite, Request

LEMMA BudgetSavesSeq ==
  ASSUME NEW S \in SUBSET Jobs, NEW order \in SetToSeqs(S), NEW recs,
         \A j \in Jobs : recs[j] \in Budget(j)
  PROVE  /\ SavesOf(order, recs) \in Seq(BudgetWrite)
         /\ [n \in DOMAIN order |-> AwaitedSave(order[n], recs[order[n]])]
              \in Seq(BudgetWrite)
<1>1. order \in Seq(Jobs)  BY OrderSeq
<1>2. PICK k \in Nat : DOMAIN order = 1..k /\ \A n \in 1..k : order[n] \in Jobs
  BY <1>1
<1>3. \A n \in 1..k : /\ Save(order[n], recs[order[n]]) \in BudgetWrite
                      /\ AwaitedSave(order[n], recs[order[n]]) \in BudgetWrite
  BY <1>2, BudgetSave
<1>4. SavesOf(order, recs) \in [1..k -> BudgetWrite]  BY <1>2, <1>3 DEF SavesOf
<1>5. [n \in DOMAIN order |-> AwaitedSave(order[n], recs[order[n]])]
        \in [1..k -> BudgetWrite]
  BY <1>2, <1>3
<1>6. QED  BY <1>4, <1>5

LEMMA LoopStepBudget ==
  ASSUME TypeOK, BudgetInv, NEW j \in Jobs, NEW rest \in Seq(BudgetWrite),
         \/ AttemptFails(j, rest) \/ LoopResumes(j, rest) \/ LoopRejected(j, rest)
  PROVE  /\ \A i \in Jobs : job'[i] \in Budget(i)
         /\ writes' \in Seq(BudgetWrite)
<1>1. job \in [Jobs -> Record] /\ \A i \in Jobs : job[i] \in Budget(i)
  BY DEF TypeOK, BudgetInv
<1>2. CASE UNCHANGED job /\ writes' = rest  BY <1>1, <1>2
<1>3. CASE job' = [job EXCEPT ![j].status = "failed"] /\ writes' = rest
  <2>1. [job[j] EXCEPT !.status = "failed"] \in Budget(j)
    BY <1>1, BudgetOps DEF Terminal
  <2>2. QED  BY <1>1, <1>3, <2>1
<1>4. ASSUME NEW r \in Budget(j), job' = [job EXCEPT ![j] = r],
             writes' = Append(rest, AwaitedSave(j, job'[j]))
      PROVE  /\ \A i \in Jobs : job'[i] \in Budget(i)
             /\ writes' \in Seq(BudgetWrite)
  <2>1. job'[j] = r  BY <1>1, <1>4
  <2>2. AwaitedSave(j, job'[j]) \in BudgetWrite  BY <2>1, BudgetSave
  <2>3. QED  BY <1>1, <1>4, <2>2
<1>5. Failed(j, job[j]) \in Budget(j) /\ (MayRun(j, job[j]) => Running(job[j]) \in Budget(j))
  BY <1>1, BudgetOps
<1>6. ASSUME AttemptFails(j, rest)
      PROVE  \/ UNCHANGED job /\ writes' = rest
             \/ /\ job' = [job EXCEPT ![j] = Failed(j, job[j])]
                /\ writes' = Append(rest, AwaitedSave(j, job'[j]))
  BY <1>6 DEF AttemptFails
<1>7. ASSUME LoopResumes(j, rest)
      PROVE  \/ UNCHANGED job /\ writes' = rest
             \/ /\ MayRun(j, job[j])
                /\ job' = [job EXCEPT ![j] = Running(job[j])]
                /\ writes' = Append(rest, AwaitedSave(j, job'[j]))
  BY <1>7 DEF LoopResumes
<1>8. ASSUME LoopFails(j, rest)
      PROVE  \/ UNCHANGED job /\ writes' = rest
             \/ job' = [job EXCEPT ![j].status = "failed"] /\ writes' = rest
  BY <1>8 DEF LoopFails
<1>9. QED  BY <1>2, <1>3, <1>4, <1>5, <1>6, <1>7, <1>8 DEF LoopRejected

\* Storing a mutation, or dropping it, keeps everything within the budget.
LEMMA BudgetStored ==
  ASSUME TypeOK, BudgetInv, NEW w \in BudgetWrite
  PROVE  \A j \in Jobs : StoredAfter(w)[j] \in Budget(j)
<1>1. stored \in [Jobs -> Record] /\ \A j \in Jobs : stored[j] \in Budget(j)
  BY DEF TypeOK, BudgetInv
<1>2. w \in Write  BY DEF BudgetWrite
<1>3. CASE w.op = "save"
  <2>1. w.job \in Jobs /\ w.rec \in Budget(w.job)
    BY <1>2, <1>3 DEF BudgetWrite, Write
  <2>2. QED  BY <1>1, <1>3, <2>1 DEF StoredAfter
<1>4. CASE w.op = "remove"
  <2>1. w.job \in Jobs  BY <1>2, <1>4 DEF Write
  <2>2. StoredAfter(w) = [stored EXCEPT ![w.job] = Gone]
    BY <1>4 DEF StoredAfter
  <2>3. \A j \in Jobs : Gone \in Budget(j)  BY <1>1, BudgetOps
  <2>4. QED  BY <1>1, <2>1, <2>2, <2>3
<1>5. CASE w.op = "retry"
  <2>1. w.job \in Jobs  BY <1>2, <1>5 DEF Write
  <2>2. [stored[w.job] EXCEPT !.status = "queued", !.dead = FALSE, !.attempts = 0]
          \in Budget(w.job)
    BY <1>1, <2>1, BudgetOps
  <2>3. QED  BY <1>1, <1>5, <2>1, <2>2 DEF StoredAfter
<1>6. CASE w.op = "deleteProject"
  <2>1. \A j \in Jobs : Gone \in Budget(j)  BY <1>1, BudgetOps
  <2>2. QED  BY <1>1, <1>6, <2>1 DEF StoredAfter
<1>7. QED  BY <1>2, <1>3, <1>4, <1>5, <1>6 DEF Write

LEMMA BudgetJobStep ==
  ASSUME TypeOK, BudgetInv, NEW j \in Jobs, JobStep(j)
  PROVE  BudgetInv'
<1>1. /\ job \in [Jobs -> Record] /\ stored \in [Jobs -> Record]
      /\ \A i \in Jobs : job[i] \in Budget(i) /\ stored[i] \in Budget(i)
      /\ writes \in Seq(BudgetWrite)
  BY DEF TypeOK, BudgetInv
<1>2. ASSUME NEW r \in Budget(j), NEW new \in Seq(BudgetWrite),
             job' = [job EXCEPT ![j] = r], writes' = new, UNCHANGED stored
      PROVE  BudgetInv'
  BY <1>1, <1>2 DEF BudgetInv
<1>3. CASE Enqueue(j)
  <2> DEFINE r == [Fresh EXCEPT !.status = "queued"]
  <2>1. r \in Budget(j) /\ Running(r) \in Budget(j)  BY <1>1, BudgetOps
  <2>2. \/ /\ job' = [job EXCEPT ![j] = Running(r)]
           /\ writes' = writes \o <<Save(j, r), AwaitedSave(j, Running(r))>>
        \/ /\ job' = [job EXCEPT ![j] = r]
           /\ writes' = Append(writes, Save(j, r))
    BY <1>3 DEF Enqueue
  <2>3. UNCHANGED stored  BY <1>3 DEF Enqueue
  <2> HIDE DEF r
  <2>4. Save(j, r) \in BudgetWrite /\ AwaitedSave(j, Running(r)) \in BudgetWrite
    BY <2>1, BudgetSave
  <2>5. /\ writes \o <<Save(j, r), AwaitedSave(j, Running(r))>> \in Seq(BudgetWrite)
        /\ Append(writes, Save(j, r)) \in Seq(BudgetWrite)
    BY <1>1, <2>4
  <2>6. QED  BY <1>2, <2>1, <2>2, <2>3, <2>5
<1>4. ASSUME NEW r \in Budget(j), job' = [job EXCEPT ![j] = r], UNCHANGED stored,
             \/ writes' = Append(writes, Save(j, job'[j]))
             \/ writes' = Append(writes, AwaitedSave(j, job'[j]))
      PROVE  BudgetInv'
  <2>1. job'[j] = r  BY <1>1, <1>4
  <2>2. Save(j, r) \in BudgetWrite /\ AwaitedSave(j, r) \in BudgetWrite  BY <1>4, BudgetSave
  <2>3. CASE writes' = Append(writes, Save(j, r))
    <3>1. Append(writes, Save(j, r)) \in Seq(BudgetWrite)  BY <1>1, <2>2
    <3>2. QED  BY <1>2, <1>4, <2>3, <3>1
  <2>4. CASE writes' = Append(writes, AwaitedSave(j, r))
    <3>1. Append(writes, AwaitedSave(j, r)) \in Seq(BudgetWrite)  BY <1>1, <2>2
    <3>2. QED  BY <1>2, <1>4, <2>4, <3>1
  <2>5. QED  BY <1>4, <2>1, <2>3, <2>4
<1>5. CASE Start(j)
  <2>1. Running(job[j]) \in Budget(j)  BY <1>1, <1>5, BudgetOps DEF Start
  <2>2. QED  BY <1>4, <1>5, <2>1 DEF Start
<1>6. CASE HandlerReturns(j)
  <2>1. UNCHANGED stored  BY <1>6 DEF HandlerReturns
  <2>2. CASE AttemptFails(j, writes)
    BY <1>1, <2>1, <2>2, LoopStepBudget DEF BudgetInv
  <2>3. CASE UNCHANGED <<job, writes>>
    BY <1>1, <2>1, <2>3 DEF BudgetInv
  <2>4. CASE /\ job' = [job EXCEPT ![j].status = "completed"]
             /\ writes' = Append(writes, AwaitedSave(j, job'[j]))
    <3>1. [job[j] EXCEPT !.status = "completed"] \in Budget(j)
      BY <1>1, BudgetOps DEF Terminal
    <3>2. QED  BY <1>4, <2>1, <2>4, <3>1
  <2>5. QED  BY <1>6, <2>2, <2>3, <2>4 DEF HandlerReturns
<1>7. CASE UpdateProgress(j)
  <2>1. Save(j, job[j]) \in BudgetWrite  BY <1>1, BudgetSave
  <2>2. QED  BY <1>1, <1>7, <2>1 DEF UpdateProgress, BudgetInv
<1>8. CASE Cancel(j)
  <2>1. Cancelled(job[j]) \in Budget(j)  BY <1>1, BudgetOps
  <2>2. QED  BY <1>4, <1>8, <2>1 DEF Cancel
<1>9. CASE Prune(j)
  <2>1. Gone \in Budget(j)  BY <1>1, BudgetOps
  <2>2. Append(writes, Request("remove", j)) \in Seq(BudgetWrite)
    BY <1>1, BudgetRequest
  <2>3. QED  BY <1>2, <1>9, <2>1, <2>2 DEF Prune
<1>10. CASE LeaseExpires(j)
  <2>1. /\ [job[j] EXCEPT !.live = FALSE] \in Budget(j)
        /\ [stored[j] EXCEPT !.live = FALSE] \in Budget(j)
    BY <1>1, BudgetOps
  <2>2. \A i \in Jobs : job'[i] \in Budget(i) /\ stored'[i] \in Budget(i)
    BY <1>1, <1>10, <2>1 DEF LeaseExpires
  <2>3. ASSUME NEW n \in DOMAIN writes
        PROVE  (IF writes[n].job = j THEN [writes[n] EXCEPT !.rec.live = FALSE]
                ELSE writes[n]) \in BudgetWrite
    <3>1. writes[n] \in BudgetWrite  BY <1>1
    <3> DEFINE w == writes[n]
    <3>2. w \in BudgetWrite  BY <3>1
    <3> HIDE DEF w
    <3>3. w \in Write  BY <3>2 DEF BudgetWrite
    <3>4. ASSUME w.job = j PROVE [w EXCEPT !.rec.live = FALSE] \in BudgetWrite
      <4>1. w.op # "deleteProject"
        BY <3>3, <3>4, JobQueueAssumption DEF JobQueueAssumption, Write
      <4>2. CASE w.op = "save"
        <5>1. w.rec \in Budget(j)  BY <3>2, <3>4, <4>2 DEF BudgetWrite
        <5>2. [w.rec EXCEPT !.live = FALSE] \in Budget(j)  BY <5>1, BudgetOps
        <5>3. /\ [w EXCEPT !.rec.live = FALSE] \in Write
              /\ [w EXCEPT !.rec.live = FALSE].rec = [w.rec EXCEPT !.live = FALSE]
              /\ [w EXCEPT !.rec.live = FALSE].job = j
          BY <3>3, <3>4, <4>2, <5>2 DEF Write, Budget
        <5>4. QED  BY <5>2, <5>3 DEF BudgetWrite
      <4>3. CASE w.op \in {"remove", "retry"}
        <5>1. w.rec = Gone /\ Gone.live = FALSE
          BY <3>3, <4>3 DEF Write, Gone, Fresh
        <5>2. [w EXCEPT !.rec.live = FALSE] = w
          BY <3>3, <4>3, <5>1 DEF Write, Gone, Fresh
        <5>3. QED  BY <3>2, <5>2
      <4>4. QED  BY <3>3, <4>1, <4>2, <4>3 DEF Write
    <3>5. QED  BY <3>2, <3>4 DEF w
  <2>4. writes' \in Seq(BudgetWrite)
    <3>1. PICK k \in Nat : DOMAIN writes = 1..k  BY <1>1
    <3>2. writes' \in [1..k -> BudgetWrite]
      BY <1>10, <2>3, <3>1 DEF LeaseExpires
    <3>3. QED  BY <3>1, <3>2
  <2>5. QED  BY <2>2, <2>4 DEF BudgetInv
<1>11. CASE AdminRetry(j)
  <2>1. writes' = Append(writes, Request("retry", j)) /\ UNCHANGED <<job, stored>>
    BY <1>11 DEF AdminRetry
  <2>2. QED  BY <1>1, <2>1, BudgetRequest DEF BudgetInv
<1>12. QED
  BY <1>3, <1>5, <1>6, <1>7, <1>8, <1>9, <1>10, <1>11 DEF JobStep

LEMMA BudgetStep ==
  ASSUME Workers = {}, TypeOK, BudgetInv, [Next]_vars
  PROVE  BudgetInv'
<1>1. /\ job \in [Jobs -> Record] /\ stored \in [Jobs -> Record]
      /\ \A i \in Jobs : job[i] \in Budget(i) /\ stored[i] \in Budget(i)
      /\ writes \in Seq(BudgetWrite)
  BY DEF TypeOK, BudgetInv
<1>2. writes # <<>> => Head(writes) \in BudgetWrite /\ Tail(writes) \in Seq(BudgetWrite)
  BY <1>1
<1>3. CASE \E j \in Jobs : JobStep(j)  BY <1>3, BudgetJobStep
<1>4. CASE WriteRuns
  <2> DEFINE w == Head(writes)
  <2>1. w \in BudgetWrite /\ Tail(writes) \in Seq(BudgetWrite)
    BY <1>2, <1>4 DEF WriteRuns
  <2>2. stored' = StoredAfter(w)  BY <1>4 DEF WriteRuns
  <2>3. \A i \in Jobs : stored'[i] \in Budget(i)  BY <2>1, <2>2, BudgetStored
  <2>4. w.awaited => w.job \in Jobs  BY <2>1 DEF BudgetWrite, Write
  <2>5. CASE w.awaited
    <3>1. LoopResumes(w.job, Tail(writes))  BY <1>4, <2>5 DEF WriteRuns
    <3>2. (\A i \in Jobs : job'[i] \in Budget(i)) /\ writes' \in Seq(BudgetWrite)
      BY <2>1, <2>4, <2>5, <3>1, LoopStepBudget
    <3>3. QED  BY <2>3, <3>2 DEF BudgetInv
  <2>6. CASE ~w.awaited
    BY <1>1, <1>4, <2>1, <2>3, <2>6 DEF WriteRuns, BudgetInv
  <2>7. QED  BY <2>5, <2>6
<1>5. CASE WriteRejected
  <2> DEFINE w == Head(writes)
  <2>1. w \in BudgetWrite /\ Tail(writes) \in Seq(BudgetWrite)
    BY <1>2, <1>5 DEF WriteRejected
  <2>2. UNCHANGED stored  BY <1>5 DEF WriteRejected
  <2>3. w.awaited => w.job \in Jobs  BY <2>1 DEF BudgetWrite, Write
  <2>4. CASE w.awaited
    <3>1. LoopRejected(w.job, Tail(writes))  BY <1>5, <2>4 DEF WriteRejected
    <3>2. (\A i \in Jobs : job'[i] \in Budget(i)) /\ writes' \in Seq(BudgetWrite)
      BY <2>1, <2>3, <2>4, <3>1, LoopStepBudget
    <3>3. QED  BY <1>1, <2>2, <3>2 DEF BudgetInv
  <2>5. CASE ~w.awaited
    BY <1>1, <1>5, <2>1, <2>2, <2>5 DEF WriteRejected, BudgetInv
  <2>6. QED  BY <2>4, <2>5
<1>6. CASE RequeueExpiredLeases
  <2> DEFINE expired == {j \in Jobs : /\ job[j].status = "running"
                                      /\ job[j].worker # NoWorker /\ ~job[j].live}
  <2>1. UNCHANGED stored /\ \A j \in Jobs : \/ job'[j] = job[j]
                                           \/ job'[j] = Failed(j, Unleased(job[j]))
    BY <1>6 DEF RequeueExpiredLeases
  <2>2. \A j \in Jobs : job'[j] \in Budget(j)
    <3>1. TAKE j \in Jobs
    <3>2. Unleased(job[j]) \in Budget(j)  BY <1>1, BudgetOps
    <3>3. Failed(j, Unleased(job[j])) \in Budget(j)  BY <3>2, BudgetOps
    <3>4. QED  BY <1>1, <2>1, <3>3
  <2>3. PICK order \in SetToSeqs(expired) : writes' = writes \o SavesOf(order, job')
    BY <1>6 DEF RequeueExpiredLeases
  <2>4. SavesOf(order, job') \in Seq(BudgetWrite)
    <3>1. expired \in SUBSET Jobs  OBVIOUS
    <3> HIDE DEF expired
    <3>2. QED  BY <2>2, <2>3, <3>1, BudgetSavesSeq
  <2>5. QED  BY <1>1, <2>1, <2>2, <2>3, <2>4 DEF BudgetInv
<1>7. CASE DeleteProject
  <2> DEFINE hit == {j \in ReferenceJobs : job[j].status \in Active}
  <2>1. hit \in SUBSET Jobs  BY JobQueueAssumption DEF JobQueueAssumption
  <2>2. UNCHANGED stored /\ \A j \in Jobs : \/ job'[j] = job[j]
                                           \/ job'[j] = Cancelled(job[j])
    BY <1>7 DEF DeleteProject
  <2>3. \A j \in Jobs : job'[j] \in Budget(j)  BY <1>1, <2>2, BudgetOps
  <2>4. PICK order \in SetToSeqs(hit) :
          writes' = Append(writes \o SavesOf(order, job'), Request("deleteProject", NoJob))
    BY <1>7 DEF DeleteProject
  <2> HIDE DEF hit
  <2>5. SavesOf(order, job') \in Seq(BudgetWrite)
    BY <2>1, <2>3, <2>4, BudgetSavesSeq
  <2>6. writes' \in Seq(BudgetWrite)  BY <1>1, <2>4, <2>5, BudgetRequest
  <2>7. QED  BY <1>1, <2>2, <2>3, <2>6 DEF BudgetInv
<1>8. CASE Restart
  <2>1. UNCHANGED stored  BY <1>8 DEF Restart
  <2>2. \A j \in Jobs : Restored(j) \in Budget(j)
    BY <1>1, BudgetOps DEF Restored, Active
  <2>3. \A j \in Relaunched : Running(Restored(j)) \in Budget(j)
    <3>1. Relaunched \subseteq Jobs
      BY JobQueueAssumption DEF JobQueueAssumption, Relaunched
    <3>2. QED  BY <2>2, <3>1, BudgetOps DEF Relaunched
  <2>4. \A j \in Jobs : job'[j] \in Budget(j)  BY <1>8, <2>2, <2>3 DEF Restart
  <2>5. PICK order \in SetToSeqs(Relaunched) :
          writes' = [n \in DOMAIN order |-> AwaitedSave(order[n], job'[order[n]])]
    BY <1>8 DEF Restart
  <2>6. Relaunched \in SUBSET Jobs
    BY JobQueueAssumption DEF JobQueueAssumption, Relaunched
  <2>7. writes' \in Seq(BudgetWrite)  BY <2>4, <2>5, <2>6, BudgetSavesSeq
  <2>8. QED  BY <1>1, <2>1, <2>4, <2>7 DEF BudgetInv
<1>9. CASE UNCHANGED vars  BY <1>9 DEF vars, BudgetInv
<1>10. QED  BY <1>3, <1>4, <1>5, <1>6, <1>7, <1>8, <1>9 DEF Next

\* In the documented deployment, which has no external workers, no job starts
\* more attempts than maxAttempts allows, even across restarts that load a
\* trailing store and after an administrator reset a stored dead letter.
THEOREM AttemptsWithinBudget ==
  ASSUME Workers = {} PROVE Spec => []AttemptsBounded
<1>1. Init => BudgetInv
  <2>1. \A j \in Jobs : Fresh \in Budget(j)
    <3>1. TAKE j \in Jobs
    <3>2. MaxAttempts[j] \in 1..5  BY JobQueueAssumption DEF JobQueueAssumption
    <3>3. QED  BY <3>2, AbsentRecords DEF Budget, Fresh
  <2>2. QED  BY <2>1 DEF Init, BudgetInv
<1>2. TypeOK /\ BudgetInv /\ [Next]_vars => BudgetInv'  BY BudgetStep
<1>3. BudgetInv => AttemptsBounded  BY DEF BudgetInv, Budget, AttemptsBounded
<1>4. QED  BY <1>1, <1>2, <1>3, TypeCorrect, PTL DEF Spec

-----------------------------------------------------------------------------
(* The reference jobs of a deleted project.                                   *)

\* Running one mutation keeps them away: a late save is dropped.
LEMMA DeletedStored ==
  ASSUME TypeOK, DeletedReferenceJobsStayDeleted, NEW w \in Write,
         NEW j \in ReferenceJobs, projectGone \/ w.op = "deleteProject"
  PROVE  StoredAfter(w)[j].status \in Absent
<1>1. /\ stored \in [Jobs -> Record] /\ j \in Jobs /\ j \in ProjectJobs
      /\ projectGone => stored[j].status \in Absent
      /\ Gone.status \in Absent
  BY JobQueueAssumption
  DEF TypeOK, JobQueueAssumption, DeletedReferenceJobsStayDeleted, Gone, Fresh, Absent
<1>2. CASE w.op = "save"
  <2>1. CASE w.job = j
    BY <1>1, <1>2, <2>1 DEF StoredAfter, Dropped
  <2>2. CASE w.job # j
    BY <1>1, <1>2, <2>2 DEF StoredAfter
  <2>3. QED  BY <2>1, <2>2
<1>3. CASE w.op = "remove"
  BY <1>1, <1>3 DEF StoredAfter
<1>4. CASE w.op = "retry"
  BY <1>1, <1>4 DEF StoredAfter
<1>5. CASE w.op = "deleteProject"
  BY <1>1, <1>5 DEF StoredAfter
<1>6. QED  BY <1>2, <1>3, <1>4, <1>5 DEF Write

LEMMA DeletedStep ==
  ASSUME TypeOK, DeletedReferenceJobsStayDeleted, [Next]_vars
  PROVE  DeletedReferenceJobsStayDeleted'
<1>1. /\ stored \in [Jobs -> Record] /\ ReferenceJobs \subseteq Jobs
      /\ writes \in Seq(Write)
  BY JobQueueAssumption DEF TypeOK, JobQueueAssumption
<1>2. CASE UNCHANGED <<stored, projectGone>>
  BY <1>2 DEF DeletedReferenceJobsStayDeleted
<1>3. CASE WriteRuns
  <2>1. /\ Head(writes) \in Write /\ stored' = StoredAfter(Head(writes))
        /\ projectGone' = (projectGone \/ Head(writes).op = "deleteProject")
    BY <1>1, <1>3 DEF WriteRuns
  <2>2. QED  BY <2>1, DeletedStored DEF DeletedReferenceJobsStayDeleted
<1>4. ASSUME NEW i \in Jobs, LeaseExpires(i)
      PROVE  DeletedReferenceJobsStayDeleted'
  <2>1. ASSUME NEW j \in ReferenceJobs  PROVE stored'[j].status = stored[j].status
    <3>1. stored' = [stored EXCEPT ![i].live = FALSE]  BY <1>4 DEF LeaseExpires
    <3>2. stored[j] \in Record /\ stored[i] \in Record  BY <1>1
    <3>3. \A r \in Record : [r EXCEPT !.live = FALSE].status = r.status  BY DEF Record
    <3>4. QED  BY <1>1, <3>1, <3>2, <3>3
  <2>2. UNCHANGED projectGone  BY <1>4 DEF LeaseExpires
  <2>3. QED  BY <2>1, <2>2 DEF DeletedReferenceJobsStayDeleted
<1>5. ASSUME NEW j \in Jobs, JobStep(j), ~LeaseExpires(j)
      PROVE  UNCHANGED <<stored, projectGone>>
  BY <1>5 DEF JobStep, Enqueue, Start, HandlerReturns, UpdateProgress, Cancel,
              Prune, AdminRetry
<1>6. ASSUME NEW w \in Workers, NEW j \in Jobs, Claim(w, j) \/ FinishClaim(w, j)
      PROVE  UNCHANGED <<stored, projectGone>>
  BY <1>6 DEF Claim, FinishClaim
<1>7. ASSUME \/ WriteRejected \/ RequeueExpiredLeases \/ DeleteProject \/ Restart
             \/ UNCHANGED vars
      PROVE  UNCHANGED <<stored, projectGone>>
  BY <1>7 DEF WriteRejected, RequeueExpiredLeases, DeleteProject, Restart, vars
<1>8. QED  BY <1>2, <1>3, <1>4, <1>5, <1>6, <1>7 DEF Next

\* Once a project is deleted the database never again holds one of its
\* reference jobs, whatever loops, workers, rejected saves, an administrator's
\* retries or restarts do: the late saves are dropped (app.ts:355).
THEOREM DeletedReferenceJobs == Spec => []DeletedReferenceJobsStayDeleted
<1>1. Init => DeletedReferenceJobsStayDeleted
  BY DEF Init, DeletedReferenceJobsStayDeleted
<1>2. TypeOK /\ DeletedReferenceJobsStayDeleted /\ [Next]_vars
        => DeletedReferenceJobsStayDeleted'
  BY DeletedStep
<1>3. QED  BY <1>1, <1>2, TypeCorrect, PTL DEF Spec

-----------------------------------------------------------------------------
(* What the store trails by: every job's memory is accounted for by the       *)
(* outstanding mutations or by the database.                                  *)

\* The last mutation of job j in ws brings record r to the database.
LastWriteIs(ws, j, r) ==
  \E n \in DOMAIN ws : /\ ws[n].job = j /\ ws[n].op \in {"save", "remove"}
                       /\ ws[n].rec = r
                       /\ \A m \in DOMAIN ws : m > n => ws[m].job # j
NoWrite(ws, j) == \A n \in DOMAIN ws : ws[n].job # j
DeletionIn(ws) == \E n \in DOMAIN ws : ws[n].op = "deleteProject"

Accounted(j) ==
  \/ j \in ProjectJobs /\ (projectGone \/ DeletionIn(writes))
  \/ LastWriteIs(writes, j, job[j])
  \/ NoWrite(writes, j) /\ (stored[j] = job[j] \/ Restored(j) = job[j])

AccountInv == /\ \A n \in DOMAIN writes : writes[n].op # "retry"
              /\ \A j \in Jobs : Accounted(j)

\* Adding mutations at the end.
LEMMA ConcatWrites ==
  ASSUME NEW ws \in Seq(Write), NEW t \in Seq(Write), NEW j, NEW r
  PROVE  /\ NoWrite(ws, j) /\ NoWrite(t, j) => NoWrite(ws \o t, j)
         /\ LastWriteIs(ws, j, r) /\ NoWrite(t, j) => LastWriteIs(ws \o t, j, r)
         /\ LastWriteIs(t, j, r) => LastWriteIs(ws \o t, j, r)
         /\ DeletionIn(ws) \/ DeletionIn(t) => DeletionIn(ws \o t)
         /\ (\A n \in DOMAIN ws : ws[n].op # "retry")
              /\ (\A n \in DOMAIN t : t[n].op # "retry")
              => \A n \in DOMAIN (ws \o t) : (ws \o t)[n].op # "retry"
<1> DEFINE a == Len(ws)
           b == Len(t)
           c == ws \o t
<1>1. /\ a \in Nat /\ b \in Nat /\ DOMAIN ws = 1..a /\ DOMAIN t = 1..b
      /\ DOMAIN c = 1..(a + b)
      /\ \A n \in 1..a : c[n] = ws[n] /\ n \in 1..(a + b)
      /\ \A n \in 1..b : c[a + n] = t[n] /\ a + n \in 1..(a + b)
      /\ \A n \in 1..(a + b) : n > a => n - a \in 1..b /\ c[n] = t[n - a]
  <2>1. a \in Nat /\ b \in Nat /\ DOMAIN ws = 1..a /\ DOMAIN t = 1..b
    OBVIOUS
  <2>2. Len(c) = a + b /\ c \in Seq(Write)  OBVIOUS
  <2>3. DOMAIN c = 1..(a + b)  BY <2>2
  <2>4. \A n \in 1..(a + b) : c[n] = IF n <= a THEN ws[n] ELSE t[n - a]
    OBVIOUS
  <2> HIDE DEF a, b, c
  <2>5. \A n \in 1..a : c[n] = ws[n] /\ n \in 1..(a + b)  BY <2>1, <2>4
  <2>6. \A n \in 1..(a + b) : n > a => n - a \in 1..b /\ c[n] = t[n - a]
    BY <2>1, <2>4
  <2>7. ASSUME NEW n \in 1..b  PROVE c[a + n] = t[n] /\ a + n \in 1..(a + b)
    <3>1. a + n \in 1..(a + b) /\ a + n > a /\ (a + n) - a = n  BY <2>1
    <3>2. QED  BY <2>6, <3>1
  <2>8. QED  BY <2>1, <2>3, <2>5, <2>6, <2>7
<1> HIDE DEF a, b, c
<1>2. NoWrite(ws, j) /\ NoWrite(t, j) => NoWrite(c, j)
  BY <1>1 DEF NoWrite
<1>3. ASSUME LastWriteIs(ws, j, r), NoWrite(t, j)  PROVE LastWriteIs(c, j, r)
  <2>1. PICK n \in 1..a : /\ ws[n].job = j /\ ws[n].op \in {"save", "remove"}
                          /\ ws[n].rec = r
                          /\ \A m \in 1..a : m > n => ws[m].job # j
    BY <1>1, <1>3 DEF LastWriteIs
  <2>2. ASSUME NEW m \in 1..(a + b), m > n  PROVE c[m].job # j
    <3>1. CASE m > a
      BY <1>1, <1>3, <3>1 DEF NoWrite
    <3>2. CASE m <= a
      <4>1. m \in 1..a  BY <1>1, <3>2
      <4>2. QED  BY <1>1, <2>1, <2>2, <4>1
    <3>3. QED  BY <1>1, <3>1, <3>2
  <2>3. n \in DOMAIN c /\ c[n] = ws[n]  BY <1>1
  <2>4. QED  BY <1>1, <2>1, <2>2, <2>3 DEF LastWriteIs
<1>4. ASSUME LastWriteIs(t, j, r)  PROVE LastWriteIs(c, j, r)
  <2>1. PICK n \in 1..b : /\ t[n].job = j /\ t[n].op \in {"save", "remove"}
                          /\ t[n].rec = r
                          /\ \A m \in 1..b : m > n => t[m].job # j
    BY <1>1, <1>4 DEF LastWriteIs
  <2>2. \A m \in 1..(a + b) : m > a + n => c[m].job # j
    BY <1>1, <2>1
  <2>3. a + n \in DOMAIN c /\ c[a + n] = t[n]  BY <1>1
  <2>4. QED  BY <1>1, <2>1, <2>2, <2>3 DEF LastWriteIs
<1>5. DeletionIn(ws) \/ DeletionIn(t) => DeletionIn(c)
  <2>1. \A n \in 1..a : n \in 1..(a + b)  BY <1>1
  <2>2. QED  BY <1>1, <2>1 DEF DeletionIn
<1>6. (\A n \in DOMAIN ws : ws[n].op # "retry")
        /\ (\A n \in DOMAIN t : t[n].op # "retry")
        => \A n \in DOMAIN c : c[n].op # "retry"
  <2>1. \A n \in 1..(a + b) : n > a \/ n \in 1..a  BY <1>1
  <2>2. QED  BY <1>1, <2>1
<1>7. QED  BY <1>2, <1>3, <1>4, <1>5, <1>6 DEF c

\* One mutation added.
LEMMA AppendWrite ==
  ASSUME NEW ws \in Seq(Write), NEW w \in Write, NEW j, NEW r
  PROVE  /\ w.job # j => /\ NoWrite(ws, j) => NoWrite(Append(ws, w), j)
                         /\ LastWriteIs(ws, j, r) => LastWriteIs(Append(ws, w), j, r)
         /\ w.job = j /\ w.op \in {"save", "remove"}
              => LastWriteIs(Append(ws, w), j, w.rec)
         /\ DeletionIn(ws) \/ w.op = "deleteProject" => DeletionIn(Append(ws, w))
         /\ (\A n \in DOMAIN ws : ws[n].op # "retry") /\ w.op # "retry"
              => \A n \in DOMAIN Append(ws, w) : Append(ws, w)[n].op # "retry"
<1>1. /\ <<w>> \in Seq(Write) /\ Append(ws, w) = ws \o <<w>>
      /\ DOMAIN <<w>> = {1} /\ <<w>>[1] = w
  <2>1. Append(ws, w) = ws \o <<w>>  BY AppendIsConcat
  <2>2. QED  BY <2>1
<1>2. /\ w.job # j => NoWrite(<<w>>, j)
      /\ w.job = j /\ w.op \in {"save", "remove"} => LastWriteIs(<<w>>, j, w.rec)
      /\ w.op = "deleteProject" => DeletionIn(<<w>>)
      /\ w.op # "retry" => \A n \in DOMAIN <<w>> : <<w>>[n].op # "retry"
  BY <1>1 DEF NoWrite, LastWriteIs, DeletionIn
<1>3. QED  BY <1>1, <1>2, ConcatWrites

\* The oldest mutation taken away.
LEMMA TailWrite ==
  ASSUME NEW ws \in Seq(Write), ws # <<>>, NEW j, NEW r
  PROVE  /\ NoWrite(ws, j) => Head(ws).job # j /\ NoWrite(Tail(ws), j)
         /\ LastWriteIs(ws, j, r)
              => \/ LastWriteIs(Tail(ws), j, r)
                 \/ /\ NoWrite(Tail(ws), j) /\ Head(ws).job = j
                    /\ Head(ws).op \in {"save", "remove"} /\ Head(ws).rec = r
         /\ DeletionIn(ws) => DeletionIn(Tail(ws)) \/ Head(ws).op = "deleteProject"
         /\ (\A n \in DOMAIN ws : ws[n].op # "retry")
              => /\ Head(ws).op # "retry"
                 /\ \A n \in DOMAIN Tail(ws) : Tail(ws)[n].op # "retry"
<1> DEFINE a == Len(ws)
           t == Tail(ws)
<1>1. /\ a \in Nat /\ a >= 1 /\ DOMAIN ws = 1..a /\ DOMAIN t = 1..(a - 1)
      /\ Head(ws) = ws[1] /\ \A n \in 1..(a - 1) : t[n] = ws[n + 1]
  OBVIOUS
<1> HIDE DEF a, t
<1>2. /\ 1 \in 1..a /\ \A n \in 1..(a - 1) : n + 1 \in 1..a
      /\ \A n \in 1..a : n # 1 => n - 1 \in 1..(a - 1) /\ t[n - 1] = ws[n]
  BY <1>1
<1>3. NoWrite(ws, j) => Head(ws).job # j /\ NoWrite(t, j)
  BY <1>1, <1>2 DEF NoWrite
<1>4. ASSUME LastWriteIs(ws, j, r)
      PROVE  \/ LastWriteIs(t, j, r)
             \/ /\ NoWrite(t, j) /\ Head(ws).job = j
                /\ Head(ws).op \in {"save", "remove"} /\ Head(ws).rec = r
  <2>1. PICK n \in 1..a : /\ ws[n].job = j /\ ws[n].op \in {"save", "remove"}
                          /\ ws[n].rec = r
                          /\ \A m \in 1..a : m > n => ws[m].job # j
    BY <1>1, <1>4 DEF LastWriteIs
  <2>2. CASE n = 1
    <3>1. \A m \in 1..(a - 1) : m + 1 > 1  BY <1>1
    <3>2. NoWrite(t, j)  BY <1>1, <1>2, <2>1, <2>2, <3>1 DEF NoWrite
    <3>3. QED  BY <1>1, <2>1, <2>2, <3>2
  <2>3. CASE n # 1
    <3>1. n - 1 \in DOMAIN t /\ t[n - 1] = ws[n]  BY <1>1, <1>2, <2>3
    <3>2. \A m \in DOMAIN t : m > n - 1 => t[m].job # j
      <4>1. \A m \in DOMAIN t : m > n - 1 => m + 1 > n  BY <1>1
      <4>2. QED  BY <1>1, <1>2, <2>1, <4>1
    <3>3. QED  BY <2>1, <3>1, <3>2 DEF LastWriteIs
  <2>4. QED  BY <2>2, <2>3
<1>5. DeletionIn(ws) => DeletionIn(t) \/ Head(ws).op = "deleteProject"
  BY <1>1, <1>2 DEF DeletionIn
<1>6. (\A n \in DOMAIN ws : ws[n].op # "retry")
        => Head(ws).op # "retry" /\ \A n \in DOMAIN t : t[n].op # "retry"
  BY <1>1, <1>2
<1>7. QED  BY <1>3, <1>4, <1>5, <1>6 DEF t

\* A sweep visits every job of its set exactly once.
LEMMA OrderOnto ==
  ASSUME NEW S \in SUBSET Jobs, NEW order \in SetToSeqs(S), NEW j \in S
  PROVE  \E n \in DOMAIN order :
           order[n] = j /\ \A m \in DOMAIN order : m # n => order[m] # j
<1> DEFINE D == 1..Cardinality(S)
<1>1. IsFiniteSet(S) /\ Cardinality(S) \in Nat
  BY FS_Subset, FS_CardinalityType, JobQueueAssumption DEF JobQueueAssumption
<1>2. order \in [D -> S] /\ \A m, n \in D : m # n => order[m] # order[n]
  BY DEF SetToSeqs
<1>3. Cardinality(D) = Cardinality(S)  BY <1>1, FS_Interval
<1>4. order \in Injection(D, S)  BY <1>2 DEF Injection, IsInjective
<1>5. order \in Surjection(D, S)  BY <1>1, <1>3, <1>4, FS_Injection
<1>6. QED  BY <1>2, <1>5 DEF Surjection

\* A step that only adds mutations: job j is left alone, or its last mutation
\* brings its new record.
LEMMA AccountedAdds ==
  ASSUME TypeOK, NEW j \in Jobs, Accounted(j), NEW t \in Seq(Write),
         writes' = writes \o t, stored'[j] = stored[j], UNCHANGED projectGone,
         \/ NoWrite(t, j) /\ job'[j] = job[j]
         \/ LastWriteIs(t, j, job'[j])
  PROVE  Accounted(j)'
<1>1. writes \in Seq(Write)  BY DEF TypeOK
<1>2. CASE j \in ProjectJobs /\ (projectGone \/ DeletionIn(writes))
  BY <1>1, <1>2, ConcatWrites DEF Accounted
<1>3. CASE LastWriteIs(t, j, job'[j])
  <2>1. LastWriteIs(writes', j, job'[j])  BY <1>1, <1>3, ConcatWrites
  <2>2. QED  BY <2>1 DEF Accounted
<1>4. CASE NoWrite(t, j) /\ job'[j] = job[j] /\ LastWriteIs(writes, j, job[j])
  <2>1. LastWriteIs(writes', j, job'[j])  BY <1>1, <1>4, ConcatWrites
  <2>2. QED  BY <2>1 DEF Accounted
<1>5. CASE /\ NoWrite(t, j) /\ job'[j] = job[j] /\ NoWrite(writes, j)
           /\ stored[j] = job[j] \/ Restored(j) = job[j]
  <2>1. NoWrite(writes', j)  BY <1>1, <1>5, ConcatWrites
  <2>2. Restored(j)' = Restored(j)  BY DEF Restored
  <2>3. QED  BY <1>5, <2>1, <2>2 DEF Accounted
<1>6. QED  BY <1>2, <1>3, <1>4, <1>5 DEF Accounted

\* A step of job j that adds one mutation of it.
LEMMA AccountedAppends ==
  ASSUME TypeOK, AccountInv, NEW j \in Jobs, NEW w \in Write,
         w.job = j, w.op \in {"save", "remove"}, w.rec = job'[j],
         job' = [job EXCEPT ![j] = w.rec], writes' = Append(writes, w),
         UNCHANGED <<stored, projectGone>>
  PROVE  AccountInv'
<1>1. writes \in Seq(Write) /\ job \in [Jobs -> Record]  BY DEF TypeOK
<1>2. \A n \in DOMAIN writes' : writes'[n].op # "retry"
  BY <1>1, AppendWrite DEF AccountInv
<1>3. ASSUME NEW i \in Jobs  PROVE Accounted(i)'
  <2>1. <<w>> \in Seq(Write) /\ writes' = writes \o <<w>>
    BY <1>1, AppendIsConcat
  <2>2. DOMAIN <<w>> = {1} /\ <<w>>[1] = w  OBVIOUS
  <2>3. \/ NoWrite(<<w>>, i) /\ job'[i] = job[i]
        \/ LastWriteIs(<<w>>, i, job'[i])
    BY <1>1, <2>2 DEF NoWrite, LastWriteIs
  <2>4. QED  BY <1>3, <2>1, <2>3, AccountedAdds DEF AccountInv
<1>4. QED  BY <1>2, <1>3 DEF AccountInv

LEMMA LiveOps ==
  ASSUME NEW r \in Record
  PROVE  /\ [r EXCEPT !.live = FALSE] \in Record
         /\ [r EXCEPT !.live = FALSE].status = r.status
         /\ [[r EXCEPT !.live = FALSE] EXCEPT !.status = "queued"]
              = [[r EXCEPT !.status = "queued"] EXCEPT !.live = FALSE]
  BY DEF Record

\* A lease that expires expires in every copy.
LEMMA AccountedExpires ==
  ASSUME TypeOK, AccountInv, NEW j \in Jobs, LeaseExpires(j)
  PROVE  AccountInv'
<1>1. /\ writes \in Seq(Write) /\ job \in [Jobs -> Record]
      /\ stored \in [Jobs -> Record] /\ job[j] \in Record /\ stored[j] \in Record
  BY DEF TypeOK
<1>2. PICK k \in Nat : DOMAIN writes = 1..k /\ \A n \in 1..k : writes[n] \in Write
  BY <1>1
<1> DEFINE aged == [n \in 1..k |-> IF writes[n].job = j
                                   THEN [writes[n] EXCEPT !.rec.live = FALSE]
                                   ELSE writes[n]]
<1>3. /\ writes' = aged /\ DOMAIN aged = 1..k
      /\ job' = [job EXCEPT ![j].live = FALSE]
      /\ stored' = [stored EXCEPT ![j].live = FALSE]
      /\ UNCHANGED projectGone
  BY <1>2 DEF LeaseExpires
<1>4. ASSUME NEW n \in 1..k
      PROVE  /\ aged[n].job = writes[n].job /\ aged[n].op = writes[n].op
             /\ aged[n].rec = IF writes[n].job = j
                              THEN [writes[n].rec EXCEPT !.live = FALSE]
                              ELSE writes[n].rec
  <2> DEFINE w == writes[n]
  <2>1. w \in Write  BY <1>2
  <2>2. aged[n] = IF w.job = j THEN [w EXCEPT !.rec.live = FALSE] ELSE w
    OBVIOUS
  <2> HIDE DEF w, aged
  <2>3. /\ [w EXCEPT !.rec.live = FALSE].job = w.job
        /\ [w EXCEPT !.rec.live = FALSE].op = w.op
        /\ [w EXCEPT !.rec.live = FALSE].rec = [w.rec EXCEPT !.live = FALSE]
    BY <2>1 DEF Write
  <2>4. QED  BY <2>2, <2>3 DEF w
<1> HIDE DEF aged
<1>5. \A i \in Jobs : /\ NoWrite(writes, i) => NoWrite(aged, i)
                      /\ DeletionIn(writes) => DeletionIn(aged)
  BY <1>2, <1>3, <1>4 DEF NoWrite, DeletionIn
<1>6. \A n \in DOMAIN writes' : writes'[n].op # "retry"
  BY <1>2, <1>3, <1>4 DEF AccountInv
<1>7. job'[j] = [job[j] EXCEPT !.live = FALSE]
      /\ stored'[j] = [stored[j] EXCEPT !.live = FALSE]
  BY <1>1, <1>3
<1>8. ASSUME NEW i \in Jobs, i # j  PROVE job'[i] = job[i] /\ stored'[i] = stored[i]
  BY <1>1, <1>3, <1>8
<1>9. ASSUME NEW i \in Jobs, LastWriteIs(writes, i, job[i])
      PROVE  LastWriteIs(aged, i, job'[i])
  <2>1. PICK n \in 1..k : /\ writes[n].job = i /\ writes[n].op \in {"save", "remove"}
                          /\ writes[n].rec = job[i]
                          /\ \A m \in 1..k : m > n => writes[m].job # i
    BY <1>2, <1>9 DEF LastWriteIs
  <2>2. aged[n].rec = job'[i]
    <3>1. aged[n].rec = IF i = j THEN [job[i] EXCEPT !.live = FALSE] ELSE job[i]
      BY <1>4, <2>1
    <3>2. QED  BY <1>7, <1>8, <3>1
  <2>3. QED  BY <1>3, <1>4, <2>1, <2>2 DEF LastWriteIs
<1>10. ASSUME NEW i \in Jobs, stored[i] = job[i] \/ Restored(i) = job[i]
       PROVE  stored'[i] = job'[i] \/ Restored(i)' = job'[i]
  <2>1. CASE i # j  BY <1>8, <1>10, <2>1 DEF Restored
  <2>2. CASE i = j /\ stored[i] = job[i]  BY <1>7, <2>2
  <2>3. CASE i = j /\ Restored(i) = job[i]
    <3> DEFINE s == stored[j]
               b == [s EXCEPT !.live = FALSE]
    <3>1. s \in Record /\ stored'[j] = b  BY <1>1, <1>7
    <3>2. Restored(j) = IF s.status = "running" THEN [s EXCEPT !.status = "queued"] ELSE s
      BY DEF Restored
    <3>3. Restored(j)' = IF b.status = "running" THEN [b EXCEPT !.status = "queued"] ELSE b
      BY <3>1 DEF Restored
    <3>4. /\ b.status = s.status
          /\ [b EXCEPT !.status = "queued"]
               = [[s EXCEPT !.status = "queued"] EXCEPT !.live = FALSE]
      BY <3>1, LiveOps
    <3>5. job'[j] = [Restored(j) EXCEPT !.live = FALSE]  BY <1>7, <2>3
    <3> HIDE DEF s, b
    <3>6. CASE s.status = "running"
      BY <2>3, <3>2, <3>3, <3>4, <3>5, <3>6
    <3>7. CASE s.status # "running"
      <4>1. Restored(j)' = b /\ Restored(j) = s  BY <3>2, <3>3, <3>4, <3>7
      <4>2. QED  BY <2>3, <3>5, <4>1 DEF b
    <3>8. QED  BY <3>6, <3>7
  <2>4. QED  BY <1>10, <2>1, <2>2, <2>3
<1>11. ASSUME NEW i \in Jobs  PROVE Accounted(i)'
  <2>1. Accounted(i)  BY DEF AccountInv
  <2>2. CASE i \in ProjectJobs /\ (projectGone \/ DeletionIn(writes))
    BY <1>3, <1>5, <2>2 DEF Accounted
  <2>3. CASE LastWriteIs(writes, i, job[i])
    BY <1>3, <1>9, <2>3 DEF Accounted
  <2>4. CASE NoWrite(writes, i) /\ (stored[i] = job[i] \/ Restored(i) = job[i])
    BY <1>3, <1>5, <1>10, <2>4 DEF Accounted
  <2>5. QED  BY <2>1, <2>2, <2>3, <2>4 DEF Accounted
<1>12. QED  BY <1>6, <1>11 DEF AccountInv

LEMMA AccountedJobStep ==
  ASSUME ~AdminRetries, TypeOK, AccountInv, NEW j \in Jobs, JobStep(j)
  PROVE  AccountInv'
<1>1. /\ job \in [Jobs -> Record] /\ writes \in Seq(Write) /\ job[j] \in Record
  BY DEF TypeOK
<1>2. ASSUME NEW r \in Record, job' = [job EXCEPT ![j] = r],
             \/ writes' = Append(writes, Save(j, r))
             \/ writes' = Append(writes, AwaitedSave(j, r)),
             UNCHANGED <<stored, projectGone>>
      PROVE  AccountInv'
  <2>1. job'[j] = r  BY <1>1, <1>2
  <2>2. ASSUME NEW w \in Write, w \in {Save(j, r), AwaitedSave(j, r)},
               writes' = Append(writes, w)
        PROVE  AccountInv'
    <3>1. w.job = j /\ w.op = "save" /\ w.rec = r
      BY <2>2 DEF Save, AwaitedSave
    <3>2. QED  BY <1>2, <2>1, <2>2, <3>1, AccountedAppends
  <2>3. QED  BY <1>2, <2>2, SaveType
<1>3. CASE Enqueue(j)
  <2> DEFINE new == [Fresh EXCEPT !.status = "queued"]
             two == <<Save(j, new), AwaitedSave(j, Running(new))>>
  <2>1. new \in Record  BY DEF Fresh, Record, Active
  <2>2. Running(new) \in Record  BY <2>1, RecordOps
  <2>3. UNCHANGED <<stored, projectGone>>  BY <1>3 DEF Enqueue
  <2>4. CASE /\ job' = [job EXCEPT ![j] = new]
             /\ writes' = Append(writes, Save(j, new))
    BY <1>2, <2>1, <2>3, <2>4
  <2>5. CASE /\ job' = [job EXCEPT ![j] = Running(new)]
             /\ writes' = writes \o two
    <3>1. two \in Seq(Write)  BY <2>1, <2>2, SaveType
    <3>2. /\ DOMAIN two = {1, 2}
          /\ two[1].job = j /\ two[2].job = j /\ two[2].op = "save"
          /\ two[1].op = "save" /\ two[2].rec = Running(new)
      BY DEF Save, AwaitedSave
    <3>3. job'[j] = Running(new) /\ \A i \in Jobs : i # j => job'[i] = job[i]
      BY <1>1, <2>5
    <3> HIDE DEF two, new
    <3>4. \A n \in DOMAIN two : two[n].op # "retry"  BY <3>2
    <3>5. \A n \in DOMAIN writes' : writes'[n].op # "retry"
      BY <1>1, <2>5, <3>1, <3>4, ConcatWrites DEF AccountInv
    <3>6. ASSUME NEW i \in Jobs  PROVE Accounted(i)'
      <4>1. i # j => NoWrite(two, i)  BY <3>2 DEF NoWrite
      <4>2. LastWriteIs(two, j, job'[j])  BY <3>2, <3>3 DEF LastWriteIs
      <4>3. QED  BY <2>3, <2>5, <3>1, <3>3, <4>1, <4>2, AccountedAdds DEF AccountInv
    <3>7. QED  BY <3>5, <3>6 DEF AccountInv
  <2>6. QED  BY <1>3, <2>4, <2>5 DEF Enqueue
<1>4. CASE Start(j)
  <2>1. Running(job[j]) \in Record  BY <1>1, RecordOps
  <2>2. job'[j] = Running(job[j])  BY <1>1, <1>4 DEF Start
  <2>3. QED  BY <1>2, <1>4, <2>1, <2>2 DEF Start
<1>5. CASE UNCHANGED <<job, writes, stored, projectGone>>
  <2>1. ASSUME NEW i \in Jobs  PROVE Accounted(i)' = Accounted(i)
    BY <1>5 DEF Accounted, Restored
  <2>2. QED  BY <1>5, <2>1 DEF AccountInv
<1>6. CASE HandlerReturns(j)
  <2>1. UNCHANGED <<stored, projectGone>>  BY <1>6 DEF HandlerReturns
  <2>2. CASE aborted[j]
    BY <1>5, <1>6, <2>1, <2>2 DEF HandlerReturns, AttemptFails
  <2>3. ASSUME NEW r \in {Failed(j, job[j]), [job[j] EXCEPT !.status = "completed"]},
               job' = [job EXCEPT ![j] = r],
               writes' = Append(writes, AwaitedSave(j, job'[j]))
        PROVE  AccountInv'
    <3>1. r \in Record  BY <1>1, <2>3, RecordOps DEF Record, Terminal
    <3>2. job'[j] = r  BY <1>1, <2>3
    <3>3. QED  BY <1>2, <2>1, <2>3, <3>1, <3>2
  <2>4. CASE ~aborted[j]
    BY <1>6, <2>3, <2>4 DEF HandlerReturns, AttemptFails
  <2>5. QED  BY <2>2, <2>4
<1>7. CASE UpdateProgress(j)
  <2>1. job' = [job EXCEPT ![j] = job[j]]  BY <1>1, <1>7 DEF UpdateProgress
  <2>2. QED  BY <1>1, <1>2, <1>7, <2>1 DEF UpdateProgress
<1>8. CASE Cancel(j)
  <2>1. Cancelled(job[j]) \in Record  BY <1>1, RecordOps
  <2>2. job'[j] = Cancelled(job[j])  BY <1>1, <1>8 DEF Cancel
  <2>3. QED  BY <1>2, <1>8, <2>1, <2>2 DEF Cancel
<1>9. CASE Prune(j)
  <2>1. Request("remove", j) \in Write  BY RequestType
  <2>2. /\ Request("remove", j).job = j /\ Request("remove", j).op = "remove"
        /\ Request("remove", j).rec = Gone
    BY DEF Request
  <2>3. job' = [job EXCEPT ![j] = Gone] /\ job'[j] = Gone
    BY <1>1, <1>9 DEF Prune
  <2>4. writes' = Append(writes, Request("remove", j)) /\ UNCHANGED <<stored, projectGone>>
    BY <1>9 DEF Prune
  <2>5. QED  BY <2>1, <2>2, <2>3, <2>4, AccountedAppends
<1>10. CASE LeaseExpires(j)  BY <1>10, AccountedExpires
<1>11. ~AdminRetry(j)  BY DEF AdminRetry
<1>12. QED
  BY <1>3, <1>4, <1>6, <1>7, <1>8, <1>9, <1>10, <1>11 DEF JobStep

\* Running the oldest mutation w leaves every job accounted for, as long as
\* the memory of the queue does not change.
LEMMA AccountedAfter ==
  ASSUME TypeOK, AccountInv, writes # <<>>, NEW j \in Jobs,
         stored' = StoredAfter(Head(writes)),
         projectGone' = (projectGone \/ Head(writes).op = "deleteProject")
  PROVE  \/ j \in ProjectJobs /\ (projectGone' \/ DeletionIn(Tail(writes)))
         \/ LastWriteIs(Tail(writes), j, job[j])
         \/ /\ NoWrite(Tail(writes), j)
            /\ stored'[j] = job[j] \/ Restored(j)' = job[j]
<1> DEFINE w == Head(writes)
<1>1. /\ writes \in Seq(Write) /\ w \in Write /\ stored \in [Jobs -> Record]
      /\ job \in [Jobs -> Record] /\ Accounted(j) /\ projectGone \in BOOLEAN
  BY DEF TypeOK, AccountInv
<1>2. stored' = StoredAfter(w) /\ projectGone' = (projectGone \/ w.op = "deleteProject")
  OBVIOUS
<1>3. w.op # "retry"  BY <1>1, TailWrite DEF AccountInv
<1>4. CASE j \in ProjectJobs /\ (projectGone \/ DeletionIn(writes))
  BY <1>1, <1>2, <1>4, TailWrite
<1>5. CASE LastWriteIs(writes, j, job[j]) /\ LastWriteIs(Tail(writes), j, job[j])
  BY <1>5
<1>6. CASE /\ NoWrite(Tail(writes), j) /\ w.job = j
           /\ w.op \in {"save", "remove"} /\ w.rec = job[j]
  <2>1. CASE w.op = "save" /\ Dropped(w)
    <3>1. j \in ProjectJobs /\ projectGone
      BY <1>6, <2>1, JobQueueAssumption DEF Dropped, JobQueueAssumption
    <3>2. QED  BY <1>2, <3>1
  <2>2. CASE w.op = "save" /\ ~Dropped(w)
    <3>1. stored' = [stored EXCEPT ![j] = job[j]]
      BY <1>2, <1>6, <2>2 DEF StoredAfter
    <3>2. QED  BY <1>1, <1>6, <3>1
  <2>3. CASE w.op = "remove"
    <3>1. stored' = [stored EXCEPT ![j] = Gone] /\ job[j] = Gone
      BY <1>1, <1>2, <1>6, <2>3 DEF StoredAfter, Write
    <3>2. QED  BY <1>1, <1>6, <3>1
  <2>4. QED  BY <1>6, <2>1, <2>2, <2>3
<1>7. CASE /\ NoWrite(writes, j)
           /\ stored[j] = job[j] \/ Restored(j) = job[j]
  <2>1. NoWrite(Tail(writes), j) /\ w.job # j  BY <1>1, <1>7, TailWrite
  <2>2. CASE w.op = "deleteProject" /\ j \in ProjectJobs
    BY <1>2, <2>2
  <2>3. CASE ~(w.op = "deleteProject" /\ j \in ProjectJobs)
    <3>1. stored'[j] = stored[j]
      <4>1. CASE w.op = "save"
        BY <1>1, <1>2, <2>1, <4>1 DEF StoredAfter
      <4>2. CASE w.op = "remove"
        BY <1>1, <1>2, <2>1, <4>2 DEF StoredAfter
      <4>3. CASE w.op = "deleteProject" /\ j \notin ProjectJobs
        BY <1>1, <1>2, <2>1, <4>3 DEF StoredAfter
      <4>4. QED  BY <1>1, <1>3, <2>3, <4>1, <4>2, <4>3 DEF Write
    <3>2. Restored(j)' = Restored(j)  BY <3>1 DEF Restored
    <3>3. QED  BY <1>7, <2>1, <3>1, <3>2
  <2>4. QED  BY <2>2, <2>3
<1>8. QED  BY <1>1, <1>4, <1>5, <1>6, <1>7, TailWrite DEF Accounted

LEMMA AccountedWriteRuns ==
  ASSUME TypeOK, AccountInv, WriteRuns
  PROVE  AccountInv'
<1> DEFINE w == Head(writes)
           rest == Tail(writes)
<1>1. /\ writes # <<>> /\ stored' = StoredAfter(w)
      /\ projectGone' = (projectGone \/ w.op = "deleteProject")
  BY DEF WriteRuns
<1>2. /\ w \in Write /\ rest \in Seq(Write) /\ job \in [Jobs -> Record]
      /\ writes \in Seq(Write)
  BY <1>1 DEF TypeOK
<1>3. \A n \in DOMAIN rest : rest[n].op # "retry"
  BY <1>1, <1>2, TailWrite DEF AccountInv
<1>4. ASSUME UNCHANGED job, writes' = rest  PROVE AccountInv'
  <2>1. ASSUME NEW i \in Jobs  PROVE Accounted(i)'
    BY <1>1, <1>4, AccountedAfter DEF Accounted
  <2>2. QED  BY <1>3, <1>4, <2>1 DEF AccountInv
<1>5. ASSUME NEW j \in Jobs, job' = [job EXCEPT ![j] = Running(@)],
             writes' = Append(rest, AwaitedSave(j, job'[j]))
      PROVE  AccountInv'
  <2> DEFINE s == AwaitedSave(j, job'[j])
  <2>1. Running(job[j]) \in Record /\ job'[j] = Running(job[j])
    BY <1>2, <1>5, RecordOps
  <2>2. s \in Write /\ s.job = j /\ s.op = "save" /\ s.rec = job'[j]
    BY <2>1, SaveType DEF AwaitedSave
  <2>3. writes' = Append(rest, s)  BY <1>5
  <2> HIDE DEF s, rest, w
  <2>4. \A n \in DOMAIN writes' : writes'[n].op # "retry"
    BY <1>2, <1>3, <2>2, <2>3, AppendWrite
  <2>5. ASSUME NEW i \in Jobs  PROVE Accounted(i)'
    <3>1. CASE i = j
      <4>1. LastWriteIs(writes', j, job'[j])  BY <1>2, <2>2, <2>3, AppendWrite
      <4>2. QED  BY <3>1, <4>1 DEF Accounted
    <3>2. CASE i # j
      <4>1. job'[i] = job[i]  BY <1>2, <1>5, <3>2
      <4>2. s.job # i  BY <2>2, <3>2
      <4>3. \/ i \in ProjectJobs /\ (projectGone' \/ DeletionIn(rest))
            \/ LastWriteIs(rest, i, job[i])
            \/ /\ NoWrite(rest, i)
               /\ stored'[i] = job[i] \/ Restored(i)' = job[i]
        BY <1>1, AccountedAfter DEF w, rest
      <4>4. /\ NoWrite(rest, i) => NoWrite(writes', i)
            /\ LastWriteIs(rest, i, job[i]) => LastWriteIs(writes', i, job[i])
            /\ DeletionIn(rest) => DeletionIn(writes')
        BY <1>2, <2>2, <2>3, <4>2, AppendWrite
      <4>5. QED  BY <4>1, <4>3, <4>4 DEF Accounted
    <3>3. QED  BY <3>1, <3>2
  <2>6. QED  BY <2>4, <2>5 DEF AccountInv
<1>6. CASE w.awaited
  <2>1. w.job \in Jobs  BY <1>2, <1>6 DEF Write
  <2>2. LoopResumes(w.job, rest)  BY <1>6 DEF WriteRuns
  <2>3. \/ UNCHANGED job /\ writes' = rest
        \/ /\ job' = [job EXCEPT ![w.job] = Running(@)]
           /\ writes' = Append(rest, AwaitedSave(w.job, job'[w.job]))
    BY <2>2 DEF LoopResumes
  <2> HIDE DEF w, rest
  <2>4. QED  BY <1>4, <1>5, <2>1, <2>3
<1>7. CASE ~w.awaited
  <2>1. writes' = rest /\ UNCHANGED job  BY <1>7 DEF WriteRuns
  <2>2. QED  BY <1>4, <2>1
<1>8. QED  BY <1>6, <1>7

\* The saves of one sweep, in whatever order.
LEMMA SweepWrites ==
  ASSUME NEW S \in SUBSET Jobs, NEW order \in SetToSeqs(S),
         NEW recs \in [Jobs -> Record], NEW t \in Seq(Write),
         DOMAIN t = DOMAIN order,
         \A n \in DOMAIN order : /\ t[n].job = order[n] /\ t[n].op = "save"
                                 /\ t[n].rec = recs[order[n]]
  PROVE  /\ \A j \in Jobs \ S : NoWrite(t, j)
         /\ \A j \in S : LastWriteIs(t, j, recs[j])
         /\ \A n \in DOMAIN t : t[n].op # "retry"
<1>1. \A n \in DOMAIN order : order[n] \in S  BY DEF SetToSeqs
<1>2. \A j \in Jobs \ S : NoWrite(t, j)  BY <1>1 DEF NoWrite
<1>3. ASSUME NEW j \in S  PROVE LastWriteIs(t, j, recs[j])
  <2>1. PICK n \in DOMAIN order :
          order[n] = j /\ \A m \in DOMAIN order : m # n => order[m] # j
    BY OrderOnto
  <2>2. PICK k \in Nat : DOMAIN t = 1..k  OBVIOUS
  <2>3. \A m \in 1..k : m > n => m # n  BY <2>1, <2>2
  <2>4. QED  BY <2>1, <2>2, <2>3 DEF LastWriteIs
<1>4. QED  BY <1>2, <1>3

LEMMA AccountedRequeue ==
  ASSUME TypeOK, AccountInv, RequeueExpiredLeases
  PROVE  AccountInv'
<1> DEFINE expired == {j \in Jobs : /\ job[j].status = "running"
                                    /\ job[j].worker # NoWorker /\ ~job[j].live}
<1>1. /\ writes \in Seq(Write) /\ job \in [Jobs -> Record]
      /\ expired \in SUBSET Jobs
  BY DEF TypeOK
<1>2. /\ job' = [j \in Jobs |-> IF j \in expired THEN Failed(j, Unleased(job[j]))
                                ELSE job[j]]
      /\ UNCHANGED <<stored, projectGone>>
  BY DEF RequeueExpiredLeases
<1>3. PICK order \in SetToSeqs(expired) : writes' = writes \o SavesOf(order, job')
  BY DEF RequeueExpiredLeases
<1> DEFINE t == SavesOf(order, job')
<1> HIDE DEF expired
<1>4. \A j \in Jobs : Failed(j, Unleased(job[j])) \in Record
  BY <1>1, RecordOps
<1>5. job' \in [Jobs -> Record]  BY <1>1, <1>2, <1>4
<1>6. t \in Seq(Write)  BY <1>1, <1>5, SavesSeq
<1>7. /\ DOMAIN t = DOMAIN order
      /\ \A n \in DOMAIN order : /\ t[n].job = order[n] /\ t[n].op = "save"
                                 /\ t[n].rec = job'[order[n]]
  BY DEF SavesOf, Save
<1> HIDE DEF t
<1>8. /\ \A j \in Jobs \ expired : NoWrite(t, j)
      /\ \A j \in expired : LastWriteIs(t, j, job'[j])
      /\ \A n \in DOMAIN t : t[n].op # "retry"
  BY <1>1, <1>5, <1>6, <1>7, SweepWrites
<1>9. writes' = writes \o t  BY <1>3 DEF t
<1>10. \A n \in DOMAIN writes' : writes'[n].op # "retry"
  BY <1>1, <1>6, <1>8, <1>9, ConcatWrites DEF AccountInv
<1>11. ASSUME NEW j \in Jobs  PROVE Accounted(j)'
  <2>1. \/ NoWrite(t, j) /\ job'[j] = job[j]
        \/ LastWriteIs(t, j, job'[j])
    BY <1>2, <1>8
  <2>2. QED  BY <1>2, <1>6, <1>9, <2>1, AccountedAdds DEF AccountInv
<1>12. QED  BY <1>10, <1>11 DEF AccountInv

LEMMA AccountedDelete ==
  ASSUME TypeOK, AccountInv, DeleteProject
  PROVE  AccountInv'
<1> DEFINE hit == {j \in ReferenceJobs : job[j].status \in Active}
<1>1. /\ writes \in Seq(Write) /\ job \in [Jobs -> Record]
      /\ hit \in SUBSET Jobs /\ hit \subseteq ProjectJobs
  BY JobQueueAssumption DEF TypeOK, JobQueueAssumption
<1>2. /\ job' = [j \in Jobs |-> IF j \in hit THEN Cancelled(job[j]) ELSE job[j]]
      /\ UNCHANGED <<stored, projectGone>>
  BY DEF DeleteProject
<1>3. PICK order \in SetToSeqs(hit) :
        writes' = Append(writes \o SavesOf(order, job'),
                         Request("deleteProject", NoJob))
  BY DEF DeleteProject
<1> DEFINE t == SavesOf(order, job')
           d == Request("deleteProject", NoJob)
<1> HIDE DEF hit
<1>4. \A j \in Jobs : Cancelled(job[j]) \in Record  BY <1>1, RecordOps
<1>5. job' \in [Jobs -> Record]  BY <1>1, <1>2, <1>4
<1>6. t \in Seq(Write)  BY <1>1, <1>5, SavesSeq
<1>7. /\ DOMAIN t = DOMAIN order
      /\ \A n \in DOMAIN order : /\ t[n].job = order[n] /\ t[n].op = "save"
                                 /\ t[n].rec = job'[order[n]]
  BY DEF SavesOf, Save
<1>8. d \in Write /\ d.op = "deleteProject" /\ \A j \in Jobs : d.job # j
  BY RequestType, JobQueueAssumption DEF Request, JobQueueAssumption
<1> HIDE DEF t, d
<1>9. /\ \A j \in Jobs \ hit : NoWrite(t, j)
      /\ \A n \in DOMAIN t : t[n].op # "retry"
  BY <1>1, <1>5, <1>6, <1>7, SweepWrites
<1>10. t \o <<d>> \in Seq(Write) /\ writes' = writes \o (t \o <<d>>)
  <2>1. writes' = Append(writes \o t, d)  BY <1>3 DEF t, d
  <2>2. writes \o t \in Seq(Write)  BY <1>1, <1>6
  <2>3. Append(writes \o t, d) = (writes \o t) \o <<d>>
    BY <1>8, <2>2, AppendIsConcat
  <2>4. <<d>> \in Seq(Write)  BY <1>8
  <2>5. (writes \o t) \o <<d>> = writes \o (t \o <<d>>)
    BY <1>1, <1>6, <2>4, ConcatAssociative
  <2>6. QED  BY <1>6, <2>1, <2>3, <2>4, <2>5
<1>11. t \o <<d>> = Append(t, d)  BY <1>6, <1>8, AppendIsConcat
<1>12. /\ DeletionIn(Append(t, d))
       /\ \A j \in Jobs \ hit : NoWrite(Append(t, d), j)
       /\ \A n \in DOMAIN Append(t, d) : Append(t, d)[n].op # "retry"
  BY <1>6, <1>8, <1>9, AppendWrite
<1>13. /\ DeletionIn(writes')
       /\ \A n \in DOMAIN writes' : writes'[n].op # "retry"
  BY <1>1, <1>10, <1>11, <1>12, ConcatWrites DEF AccountInv
<1>14. ASSUME NEW j \in Jobs  PROVE Accounted(j)'
  <2>1. CASE j \in hit  BY <1>1, <1>13, <2>1 DEF Accounted
  <2>2. CASE j \notin hit
    <3>1. job'[j] = job[j] /\ NoWrite(t \o <<d>>, j)
      BY <1>2, <1>11, <1>12, <2>2
    <3>2. QED  BY <1>2, <1>10, <3>1, AccountedAdds DEF AccountInv
  <2>3. QED  BY <2>1, <2>2
<1>15. QED  BY <1>13, <1>14 DEF AccountInv

\* A restart accounts for every job anew: with a save when it launches it
\* again, else because its memory is what the database held.
LEMMA AccountedRestart ==
  ASSUME TypeOK, Restart
  PROVE  AccountInv'
<1> DEFINE r == Relaunched
<1>1. /\ r \in SUBSET Jobs /\ \A j \in Jobs : stored[j] \in Record
  BY JobQueueAssumption DEF TypeOK, JobQueueAssumption, Relaunched
<1>2. /\ job' = [j \in Jobs |-> IF j \in r THEN Running(Restored(j)) ELSE Restored(j)]
      /\ UNCHANGED <<stored, projectGone>>
  BY DEF Restart
<1>3. PICK order \in SetToSeqs(r) :
        writes' = [n \in DOMAIN order |-> AwaitedSave(order[n], job'[order[n]])]
  BY DEF Restart
<1> HIDE DEF r
<1>4. \A j \in Jobs : Restored(j) \in Record
  BY <1>1 DEF Restored, Record, Active
<1>5. \A j \in Jobs : Running(Restored(j)) \in Record  BY <1>4, RecordOps
<1>6. job' \in [Jobs -> Record]  BY <1>2, <1>4, <1>5
<1>7. writes' \in Seq(Write)  BY <1>1, <1>3, <1>6, SavesSeq
<1>8. /\ DOMAIN writes' = DOMAIN order
      /\ \A n \in DOMAIN order : /\ writes'[n].job = order[n]
                                 /\ writes'[n].op = "save"
                                 /\ writes'[n].rec = job'[order[n]]
  BY <1>3 DEF AwaitedSave
<1>9. /\ \A j \in Jobs \ r : NoWrite(writes', j)
      /\ \A j \in r : LastWriteIs(writes', j, job'[j])
      /\ \A n \in DOMAIN writes' : writes'[n].op # "retry"
  BY <1>1, <1>6, <1>7, <1>8, SweepWrites
<1>10. ASSUME NEW j \in Jobs  PROVE Accounted(j)'
  <2>1. Restored(j)' = Restored(j)  BY <1>2 DEF Restored
  <2>2. QED  BY <1>2, <1>9, <2>1 DEF Accounted
<1>11. QED  BY <1>9, <1>10 DEF AccountInv

LEMMA AccountedStep ==
  ASSUME ~StoreMayFail, ~AdminRetries, TypeOK, AccountInv, [Next]_vars
  PROVE  AccountInv'
<1>1. job \in [Jobs -> Record]  BY DEF TypeOK
<1>2. ASSUME NEW w \in Workers, NEW j \in Jobs, Claim(w, j) \/ FinishClaim(w, j)
      PROVE  AccountInv'
  <2>1. job[j] \in Record /\ Unleased(job[j]) \in Record  BY <1>1, RecordOps
  <2>2. /\ [Running(job[j]) EXCEPT !.worker = w, !.live = TRUE] \in Record
        /\ Failed(j, Unleased(job[j])) \in Record
        /\ [Unleased(job[j]) EXCEPT !.status = "completed"] \in Record
    <3>1. Running(job[j]) \in Record  BY <2>1, RecordOps
    <3>2. \A r \in Record : /\ [r EXCEPT !.worker = w, !.live = TRUE] \in Record
                            /\ [r EXCEPT !.status = "completed"] \in Record
      BY DEF Record, Terminal
    <3>3. QED  BY <2>1, <3>1, <3>2, RecordOps
  <2>3. PICK r \in Record : /\ job' = [job EXCEPT ![j] = r]
                            /\ writes' = Append(writes, Save(j, job'[j]))
                            /\ UNCHANGED <<stored, projectGone>>
    BY <1>2, <2>2 DEF Claim, FinishClaim
  <2>4. job'[j] = r  BY <1>1, <2>3
  <2> DEFINE s == Save(j, r)
  <2>5. /\ s \in Write /\ s.job = j /\ s.op = "save" /\ s.rec = r
        /\ writes' = Append(writes, s)
    BY <2>3, <2>4, SaveType DEF Save
  <2> HIDE DEF s
  <2>6. QED  BY <2>3, <2>4, <2>5, AccountedAppends
<1>3. CASE UNCHANGED vars
  <2>1. ASSUME NEW i \in Jobs  PROVE Accounted(i)' = Accounted(i)
    BY <1>3 DEF vars, Accounted, Restored
  <2>2. QED  BY <1>3, <2>1 DEF vars, AccountInv
<1>4. ~WriteRejected  BY DEF WriteRejected
<1>5. QED
  BY <1>2, <1>3, <1>4, AccountedJobStep, AccountedWriteRuns, AccountedRequeue,
     AccountedDelete, AccountedRestart DEF Next

\* While no save is rejected and no administrator retries dead letters, which
\* bypasses the queue's memory, every change of a job reaches the database:
\* with no mutation outstanding the two agree, whatever loops, workers, sweeps,
\* cancellations, prunes and restarts did before.
THEOREM QueueDurableWhenDrained ==
  ASSUME ~StoreMayFail, ~AdminRetries
  PROVE  Spec => []DurableWhenDrained
<1>1. Init => AccountInv
  BY DEF Init, AccountInv, Accounted, NoWrite
<1>2. TypeOK /\ AccountInv /\ [Next]_vars => AccountInv'  BY AccountedStep
<1>3. AccountInv => DurableWhenDrained
  <2> SUFFICES ASSUME AccountInv, writes = <<>>, NEW j \in Jobs
               PROVE  \/ Restored(j) = job[j]
                      \/ stored[j] = job[j]
                      \/ projectGone /\ j \in ProjectJobs
    BY DEF DurableWhenDrained
  <2>1. ~DeletionIn(writes) /\ ~LastWriteIs(writes, j, job[j])
    BY DEF DeletionIn, LastWriteIs
  <2>2. QED  BY <2>1 DEF AccountInv, Accounted
<1>4. QED  BY <1>1, <1>2, <1>3, TypeCorrect, PTL DEF Spec
=============================================================================
