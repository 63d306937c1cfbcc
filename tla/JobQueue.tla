------------------------------ MODULE JobQueue ------------------------------
(***************************************************************************)
(* InProcessJobQueue (apps/server/src/jobs/job-queue.ts) together with the *)
(* job store app.ts gives it, which saves job records through the          *)
(* database's first-in first-out mutation queue.                           *)
(*                                                                         *)
(* Two kinds of actor run a job.  launch starts an in-process loop that    *)
(* awaits a save, runs the handler, awaits another save and retries;       *)
(* claim hands the job to a named worker under a lease.  Every other save  *)
(* is fired and forgotten, so the store trails the memory of the queue and *)
(* a crash forgets what it had not yet received.                           *)
(***************************************************************************)
EXTENDS Integers, FiniteSets, SequencesExt

CONSTANTS Jobs,           \* the jobs ever created (ids are random UUIDs)
          Kinds,          \* the job kinds
          Kind,           \* Kind[j]: what job j was enqueued as
          MaxAttempts,    \* MaxAttempts[j]: its clamped retry budget
          TotalLimit,     \* quota over all active jobs
          KindLimit,      \* KindLimit[k]: quota of kind k
          Autostart,      \* jobs that enqueue launches at once
          Resumed,        \* jobs of the kinds that a restart launches again
          ProjectJobs,    \* jobs of the project that may be deleted
          ReferenceJobs,  \* jobs of the reference.* kinds
          Workers,        \* claimers; {} in the documented deployment
          NoWorker, NoJob,
          StoreMayFail,   \* may a save reject?
          AdminRetries,   \* does an administrator retry dead letters?
          MaxRestarts,    \* bound: restarts of the server
          MaxWrites       \* bound: saves outstanding when a client adds one

ASSUME JobQueueAssumption ==
  /\ IsFiniteSet(Jobs) /\ NoJob \notin Jobs /\ NoWorker \notin Workers
  /\ Kind \in [Jobs -> Kinds]
  /\ MaxAttempts \in [Jobs -> 1..5]
  /\ TotalLimit \in Nat \ {0} /\ KindLimit \in [Kinds -> Nat \ {0}]
  /\ Autostart \subseteq Jobs /\ Resumed \subseteq Jobs
  /\ ReferenceJobs \subseteq ProjectJobs /\ ProjectJobs \subseteq Jobs
  /\ StoreMayFail \in BOOLEAN /\ AdminRetries \in BOOLEAN
  /\ MaxRestarts \in Nat /\ MaxWrites \in Nat

VARIABLES job,          \* the queue's records, in memory
          loop,         \* where job j's in-process loop is waiting
          aborted,      \* the abort signal of job j's controller
          stored,       \* the records in the database
          writes,       \* the database mutations not yet run, oldest first
          projectGone,  \* has the project been deleted from the database?
          restarts      \* how often the server came back

vars == <<job, loop, aborted, stored, writes, projectGone, restarts>>

Active   == {"queued", "running"}
Terminal == {"completed", "failed", "cancelled"}
Absent   == {"fresh", "gone"}     \* not created yet; pruned or deleted
LoopStates == {"idle", "starting", "handling", "finishing", "retrying"}

Record == [status: Active \cup Terminal \cup Absent, attempts: Nat,
           dead: BOOLEAN, worker: Workers \cup {NoWorker}, live: BOOLEAN]

Fresh == [status |-> "fresh", attempts |-> 0, dead |-> FALSE,
          worker |-> NoWorker, live |-> FALSE]
Gone  == [Fresh EXCEPT !.status = "gone"]

\* A mutation of the database: a save or removal by the job store, an
\* administrator's retry, the deletion of the project.  Only saves are awaited.
Write ==
  [op: {"save"}, job: Jobs, rec: Record, awaited: BOOLEAN]
  \cup [op: {"remove", "retry"}, job: Jobs, rec: {Gone}, awaited: {FALSE}]
  \cup [op: {"deleteProject"}, job: {NoJob}, rec: {Gone}, awaited: {FALSE}]

Save(j, r)        == [op |-> "save", job |-> j, rec |-> r, awaited |-> FALSE]
AwaitedSave(j, r) == [op |-> "save", job |-> j, rec |-> r, awaited |-> TRUE]
Request(o, j)     == [op |-> o, job |-> j, rec |-> Gone, awaited |-> FALSE]

\* One synchronous sweep saves the jobs it visits, in whatever order.
SavesOf(order, recs) == [n \in DOMAIN order |-> Save(order[n], recs[order[n]])]

Unleased(r) == [r EXCEPT !.worker = NoWorker, !.live = FALSE]

-----------------------------------------------------------------------------
\* One turn of the loop's head: it runs while the budget lasts.
Running(r)     == [r EXCEPT !.status = "running", !.attempts = @ + 1]
MayRunTooOften(j, r) == r.attempts <= MaxAttempts[j]        \* mutant
MayRunTooRarely(j, r) == r.attempts + 1 < MaxAttempts[j]    \* mutant
MayRun(j, r)   == r.attempts < MaxAttempts[j]

\* A failed attempt is queued again until the budget is spent.
Failed(j, r) ==
  [r EXCEPT !.dead   = r.attempts >= MaxAttempts[j],
            !.status = IF r.attempts >= MaxAttempts[j] THEN "failed" ELSE "queued"]

ActiveJobs == {j \in Jobs : job[j].status \in Active}

WithinQuota(j) ==
  /\ Cardinality(ActiveJobs) < TotalLimit
  /\ Cardinality({i \in ActiveJobs : Kind[i] = Kind[j]}) < KindLimit[Kind[j]]

\* enqueue: refuse above a quota, register, save, and usually launch at once.
Enqueue(j) ==
  LET new == [Fresh EXCEPT !.status = "queued"] IN
  /\ job[j].status = "fresh"
  /\ j \in ProjectJobs => ~projectGone
  /\ WithinQuota(j)
  /\ IF j \in Autostart
     THEN /\ job' = [job EXCEPT ![j] = Running(new)]
          /\ writes' = writes \o <<Save(j, new), AwaitedSave(j, Running(new))>>
          /\ loop' = [loop EXCEPT ![j] = "starting"]
          /\ aborted' = [aborted EXCEPT ![j] = FALSE]
     ELSE /\ job' = [job EXCEPT ![j] = new]
          /\ writes' = Append(writes, Save(j, new))
          /\ UNCHANGED <<loop, aborted>>
  /\ UNCHANGED <<stored, projectGone, restarts>>

\* start: launch a queued job that has no loop; without budget left the loop
\* ends before its first turn and nothing changes.
Start(j) ==
  /\ job[j].status = "queued" /\ loop[j] = "idle"
  /\ MayRun(j, job[j])
  /\ job' = [job EXCEPT ![j] = Running(@)]
  /\ writes' = Append(writes, AwaitedSave(j, job'[j]))
  /\ loop' = [loop EXCEPT ![j] = "starting"]
  /\ aborted' = [aborted EXCEPT ![j] = FALSE]
  /\ UNCHANGED <<stored, projectGone, restarts>>

LoopEnds(j) == loop' = [loop EXCEPT ![j] = "idle"]

\* The catch of an attempt: nothing after an abort, else fail or queue again.
AttemptFails(j, rest) ==
  IF aborted[j]
  THEN /\ LoopEnds(j) /\ writes' = rest /\ UNCHANGED job
  ELSE /\ job' = [job EXCEPT ![j] = Failed(j, @)]
       /\ writes' = Append(rest, AwaitedSave(j, job'[j]))
       /\ loop' = [loop EXCEPT ![j] = "retrying"]

\* The outer catch: a rejected save ends the loop with a failed job.
LoopFailsMutant(j, rest) ==    \* even after an abort
  LoopEnds(j) /\ writes' = rest /\ job' = [job EXCEPT ![j].status = "failed"]
LoopFails(j, rest) ==
  /\ LoopEnds(j) /\ writes' = rest
  /\ job' = IF aborted[j] THEN job ELSE [job EXCEPT ![j].status = "failed"]

\* The handler settles.  A late result of an aborted job is dropped.
HandlerReturns(j) ==
  /\ loop[j] = "handling"
  /\ \/ AttemptFails(j, writes)
     \/ /\ aborted[j]
        /\ LoopEnds(j) /\ UNCHANGED <<job, writes>>
     \/ /\ ~aborted[j]
        /\ job' = [job EXCEPT ![j].status = "completed"]
        /\ writes' = Append(writes, AwaitedSave(j, job'[j]))
        /\ loop' = [loop EXCEPT ![j] = "finishing"]
  /\ UNCHANGED <<aborted, stored, projectGone, restarts>>

\* The loop resumes after its save was stored ...
LoopResumes(j, rest) ==
  \/ /\ loop[j] = "starting"
     /\ loop' = [loop EXCEPT ![j] = IF aborted[j] THEN "idle" ELSE "handling"]
     /\ writes' = rest /\ UNCHANGED job
  \/ /\ loop[j] = "finishing"
     /\ LoopEnds(j) /\ writes' = rest /\ UNCHANGED job
  \/ /\ loop[j] = "retrying"
     /\ IF MayRun(j, job[j]) /\ ~aborted[j]
        THEN /\ job' = [job EXCEPT ![j] = Running(@)]
             /\ writes' = Append(rest, AwaitedSave(j, job'[j]))
             /\ loop' = [loop EXCEPT ![j] = "starting"]
        ELSE LoopEnds(j) /\ writes' = rest /\ UNCHANGED job

\* ... or rejected: the save of a completed job is inside the try.
LoopRejected(j, rest) ==
  \/ loop[j] = "finishing" /\ AttemptFails(j, rest)
  \/ loop[j] \in {"starting", "retrying"} /\ LoopFails(j, rest)

\* Saves of the reference jobs of a project that is gone are dropped.
DroppedMutant(w) == FALSE
Dropped(w) == w.job \in ReferenceJobs /\ projectGone

\* The oldest mutation runs: what it makes of the stored records.
StoredAfter(w) ==
  CASE w.op = "save" ->
         IF Dropped(w) THEN stored
         ELSE [stored EXCEPT ![w.job] = w.rec]
    [] w.op = "remove" -> [stored EXCEPT ![w.job] = Gone]
    [] w.op = "retry" ->
         IF stored[w.job].status \in Absent THEN stored
         ELSE [stored EXCEPT ![w.job].status = "queued",
                             ![w.job].dead = FALSE, ![w.job].attempts = 0]
    [] w.op = "deleteProject" ->
         [j \in Jobs |-> IF j \in ProjectJobs /\ stored[j].status \notin Absent
                         THEN Gone ELSE stored[j]]

WriteRuns ==
  /\ writes # <<>>
  /\ LET w == Head(writes) IN
       /\ stored' = StoredAfter(w)
       /\ projectGone' = (projectGone \/ w.op = "deleteProject")
       /\ IF w.awaited THEN LoopResumes(w.job, Tail(writes))
          ELSE writes' = Tail(writes) /\ UNCHANGED <<job, loop>>
  /\ UNCHANGED <<aborted, restarts>>

WriteRejected ==
  /\ StoreMayFail /\ writes # <<>>
  /\ LET w == Head(writes) IN
       IF w.awaited THEN LoopRejected(w.job, Tail(writes))
       ELSE writes' = Tail(writes) /\ UNCHANGED <<job, loop>>
  /\ UNCHANGED <<aborted, stored, projectGone, restarts>>

\* updateProgress: a save of an active job (the progress itself is abstracted).
UpdateProgress(j) ==
  /\ job[j].status \in Active /\ Len(writes) < MaxWrites
  /\ writes' = Append(writes, Save(j, job[j]))
  /\ UNCHANGED <<job, loop, aborted, stored, projectGone, restarts>>

Cancelled(r) == [Unleased(r) EXCEPT !.status = "cancelled"]

\* cancel: take the lease away and abort the loop, without waiting for it.
CancelMutant(j) ==    \* nothing is saved
  /\ job[j].status \in Active
  /\ job' = [job EXCEPT ![j] = Cancelled(@)]
  /\ aborted' = [aborted EXCEPT ![j] = @ \/ loop[j] # "idle"]
  /\ UNCHANGED <<loop, stored, writes, projectGone, restarts>>
Cancel(j) ==
  /\ job[j].status \in Active
  /\ job' = [job EXCEPT ![j] = Cancelled(@)]
  /\ aborted' = [aborted EXCEPT ![j] = @ \/ loop[j] # "idle"]
  /\ writes' = Append(writes, Save(j, job'[j]))
  /\ UNCHANGED <<loop, stored, projectGone, restarts>>

\* prune: forget an old terminal job, but never one whose loop still runs.
Prune(j) ==
  /\ job[j].status \in Terminal /\ loop[j] = "idle"
  /\ job' = [job EXCEPT ![j] = Gone]
  /\ writes' = Append(writes, Request("remove", j))
  /\ UNCHANGED <<loop, aborted, stored, projectGone, restarts>>

\* claim: a worker takes a queued job that no live lease protects.  Neither the
\* in-process loop nor the retry budget is consulted.
Claim(w, j) ==
  /\ job[j].status = "queued" /\ ~job[j].live
  /\ job' = [job EXCEPT ![j] = [Running(@) EXCEPT !.worker = w, !.live = TRUE]]
  /\ writes' = Append(writes, Save(j, job'[j]))
  /\ UNCHANGED <<loop, aborted, stored, projectGone, restarts>>

\* The clock passes a lease's expiresAt, in memory and in every saved copy.
LeaseExpires(j) ==
  /\ job[j].live
  /\ job' = [job EXCEPT ![j].live = FALSE]
  /\ stored' = [stored EXCEPT ![j].live = FALSE]
  /\ writes' = [n \in DOMAIN writes |->
                  IF writes[n].job = j THEN [writes[n] EXCEPT !.rec.live = FALSE]
                  ELSE writes[n]]
  /\ UNCHANGED <<loop, aborted, projectGone, restarts>>

\* requeueExpiredLeases: one synchronous sweep over the running jobs.
RequeueExpiredLeases ==
  LET expired == {j \in Jobs : /\ job[j].status = "running"
                               /\ job[j].worker # NoWorker /\ ~job[j].live} IN
  /\ expired # {}
  /\ job' = [j \in Jobs |-> IF j \in expired THEN Failed(j, Unleased(job[j]))
                            ELSE job[j]]
  /\ \E order \in SetToSeqs(expired) : writes' = writes \o SavesOf(order, job')
  /\ UNCHANGED <<loop, aborted, stored, projectGone, restarts>>

\* finishClaim: only the lease's worker, even after its lease expired unswept.
FinishClaim(w, j) ==
  /\ job[j].status = "running" /\ job[j].worker = w
  /\ \/ job' = [job EXCEPT ![j] = Failed(j, Unleased(@))]
     \/ job' = [job EXCEPT ![j] = [Unleased(@) EXCEPT !.status = "completed"]]
  /\ writes' = Append(writes, Save(j, job'[j]))
  /\ UNCHANGED <<loop, aborted, stored, projectGone, restarts>>

\* POST /api/admin/jobs/:jobId/retry: judged by the queue's memory, carried out
\* in the database alone.
AdminRetry(j) ==
  /\ AdminRetries /\ job[j].dead /\ Len(writes) < MaxWrites
  /\ writes' = Append(writes, Request("retry", j))
  /\ UNCHANGED <<job, loop, aborted, stored, projectGone, restarts>>

\* DELETE /api/projects/:projectId: cancel the reference jobs, then let the
\* database drop the project and its jobs.
DeleteProject ==
  LET hit == {j \in ReferenceJobs : job[j].status \in Active} IN
  /\ ~projectGone
  /\ \A n \in DOMAIN writes : writes[n].op # "deleteProject"
  /\ job' = [j \in Jobs |-> IF j \in hit THEN Cancelled(job[j]) ELSE job[j]]
  /\ aborted' = [j \in Jobs |-> aborted[j] \/ (j \in hit /\ loop[j] # "idle")]
  /\ \E order \in SetToSeqs(hit) :
       writes' = Append(writes \o SavesOf(order, job'),
                        Request("deleteProject", NoJob))
  /\ UNCHANGED <<loop, stored, projectGone, restarts>>

\* The server dies and comes back: loops and unsaved mutations are lost, saved
\* running jobs are queued, and the resumed kinds are launched before anyone
\* is served, as far as their budget allows.
RestoredMutant(j) == stored[j]    \* running jobs stay running
Restored(j)   == IF stored[j].status = "running"
                 THEN [stored[j] EXCEPT !.status = "queued"] ELSE stored[j]
Relaunched    == {j \in Resumed : /\ Restored(j).status = "queued"
                                  /\ MayRun(j, Restored(j))}
Restart ==
  /\ restarts < MaxRestarts
  /\ restarts' = restarts + 1
  /\ job' = [j \in Jobs |-> IF j \in Relaunched THEN Running(Restored(j))
                            ELSE Restored(j)]
  /\ loop' = [j \in Jobs |-> IF j \in Relaunched THEN "starting" ELSE "idle"]
  /\ aborted' = [j \in Jobs |-> FALSE]
  /\ \E order \in SetToSeqs(Relaunched) :
       writes' = [n \in DOMAIN order |-> AwaitedSave(order[n], job'[order[n]])]
  /\ UNCHANGED <<stored, projectGone>>

-----------------------------------------------------------------------------
Init ==
  /\ job = [j \in Jobs |-> Fresh]
  /\ loop = [j \in Jobs |-> "idle"]
  /\ aborted = [j \in Jobs |-> FALSE]
  /\ stored = [j \in Jobs |-> Fresh]
  /\ writes = <<>>
  /\ projectGone = FALSE
  /\ restarts = 0

JobStep(j) ==
  \/ Enqueue(j) \/ Start(j) \/ HandlerReturns(j) \/ UpdateProgress(j)
  \/ Cancel(j) \/ Prune(j) \/ LeaseExpires(j) \/ AdminRetry(j)

Next ==
  \/ \E j \in Jobs : JobStep(j)
  \/ \E w \in Workers, j \in Jobs : Claim(w, j) \/ FinishClaim(w, j)
  \/ WriteRuns \/ WriteRejected
  \/ RequeueExpiredLeases \/ DeleteProject \/ Restart

Spec == Init /\ [][Next]_vars

\* The event loop runs the database queue; handlers settle because compiler,
\* parser and provider calls carry timeouts; a caller that enqueued a job with
\* start: false starts it.  Users, workers, clocks and crashes owe nothing.
Fairness ==
  /\ WF_vars(WriteRuns)
  /\ \A j \in Jobs : WF_vars(HandlerReturns(j)) /\ WF_vars(Start(j))

FairSpec == Spec /\ Fairness

-----------------------------------------------------------------------------
\* Every variable has its type.
TypeOK ==
  /\ job \in [Jobs -> Record]
  /\ loop \in [Jobs -> LoopStates]
  /\ aborted \in [Jobs -> BOOLEAN]
  /\ stored \in [Jobs -> Record]
  /\ writes \in Seq(Write)
  /\ projectGone \in BOOLEAN
  /\ restarts \in 0..MaxRestarts

\* A job never starts more attempts than maxAttempts allows, whatever mix of
\* retries, cancellations, rejected saves and restarts it goes through
\* (launch's while condition, job-queue.ts:57).
AttemptsBounded ==
  \A j \in Jobs : job[j].attempts <= MaxAttempts[j]

\* A running job has somebody who will finish it: its own loop, or the holder
\* of a lease that the sweep can take back.  A running job without either would
\* hold its quota for ever.
RunningHasOwner ==
  \A j \in Jobs : job[j].status = "running" =>
                    loop[j] # "idle" \/ job[j].worker # NoWorker

\* When no mutation is outstanding the database holds what the memory of the
\* queue holds, up to the re-queueing a restart does without saving it and the
\* reference jobs of a deleted project: no change of a job skips its save.
DurableWhenDrained ==
  writes = <<>> =>
    \A j \in Jobs : \/ Restored(j) = job[j]
                    \/ stored[j] = job[j]
                    \/ projectGone /\ j \in ProjectJobs

\* The database never holds a reference job of a deleted project: late saves of
\* its loops do not bring it back (jobStore.save, app.ts:355).
DeletedReferenceJobsStayDeleted ==
  projectGone => \A j \in ReferenceJobs : stored[j].status \in Absent

\* Within one life of the server a cancelled job is never revived, by a late
\* handler, a rejected save, a claim or an expired lease.
CancelledIsFinal ==
  [][restarts' = restarts =>
       \A j \in Jobs : job[j].status = "cancelled" =>
                         job'[j].status \in {"cancelled", "gone"}]_vars

\* Every job that was queued before a crash eventually stops being active, so
\* the quota it holds is given back (job-queue.ts:53-79).
ActiveJobsSettle ==
  \A j \in Jobs : (restarts = 0 /\ job[j].status \in Active)
                     ~> (restarts > 0 \/ job[j].status \notin Active)

=============================================================================
