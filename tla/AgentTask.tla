------------------------------ MODULE AgentTask ------------------------------
(***************************************************************************)
(* AgentTaskService (apps/server/src/agent/agent-task-service.ts) and the  *)
(* routes that finish what it starts.  A plan is proposed for some review  *)
(* issues; confirming it generates its files and proposes a ChangeSet; the *)
(* review of the ChangeSet, a compilation and a targeted re-review settle  *)
(* the resolution of the issues.                                           *)
(*                                                                         *)
(* A request checks a snapshot, calls a provider that takes minutes, and   *)
(* then queues database mutations; each mutation is atomic and they run in *)
(* the order they were queued.  Most of them do not check again.           *)
(***************************************************************************)
EXTENDS Integers, FiniteSets, Sequences

CONSTANTS Plans, Issues, Files,
          IssuesOf,     \* the issues a plan is for; none needs no resolution
          Affected,     \* the files a plan rewrites
          Handlers,     \* requests that may be in flight together
          MaxCalls, MaxSaves, MaxCompiles, MaxCrashes, MaxSets    \* bounds

ASSUME AgentTaskAssumption ==
  /\ IssuesOf \in [Plans -> SUBSET Issues] /\ Affected \in [Plans -> SUBSET Files \ {{}}]
  /\ {MaxCalls, MaxSaves, MaxCompiles, MaxCrashes, MaxSets} \subseteq Nat

VARIABLES plan,       \* agentTaskPlans: status and ChangeSet of every plan
          run,        \* status of the run of every plan
          resolution, \* issueResolutions: at most one per plan
          issue,      \* status of the review issues
          sets,       \* changeSets: their plan and status
          version,    \* file versions; a save also bumps the project's
          project,    \* the project version
          compiles,   \* compileRecords
          req,        \* requests in flight
          queue,      \* the database's queue of their mutations
          used       \* how much of every bound is used

store == <<plan, run, resolution, issue, sets, compiles>>
vars  == <<store, version, project, req, queue, used>>

NoCompile == [version |-> 0, success |-> FALSE]
Idle == [phase |-> "idle"]

Becomes(h, q) == req' = [req EXCEPT ![h] = q]
Queues(h, q)  == Becomes(h, q) /\ queue' = Append(queue, h)
Uses(b, max)  == used[b] < max /\ used' = [used EXCEPT ![b] = @ + 1]
Call(h)       == req[h] = Idle /\ Uses("calls", MaxCalls)

\* A request: its plan or ChangeSet, what it saw, and what it has to write.
Request(phase, p) ==
  [phase |-> phase, plan |-> p, set |-> 0, seen |-> version, left |-> Affected[p],
   accepted |-> FALSE, version |-> project, compile |-> NoCompile]

-----------------------------------------------------------------------------
\* plan: the run is stored, the provider is asked.
Plan(h, p) ==
  /\ req[h] = Idle /\ run[p] = "none" /\ \A g \in Handlers : req[g] # Idle => req[g].plan # p
  /\ Queues(h, Request("start", p))
  /\ UNCHANGED <<store, version, project, used>>

PlannerAnswers(h) ==
  /\ req[h].phase = "planning"
  /\ \E next \in {"propose plan", "fail"} : Queues(h, [req[h] EXCEPT !.phase = next])
  /\ UNCHANGED <<store, version, project, used>>

\* confirm: the plan must be proposed; its files are read; it starts generating.
Confirmable(p) == plan[p].status = "proposed"

Confirm(h, p) ==
  /\ Call(h) /\ Confirmable(p)
  /\ Becomes(h, Request("reading", p))
  /\ UNCHANGED <<store, version, project, queue>>

ReadDocuments(h) ==
  /\ req[h].phase = "reading"
  /\ Queues(h, [req[h] EXCEPT !.phase = "generate", !.seen = version])
  /\ UNCHANGED <<store, version, project, used>>

FileGenerated(h) ==
  /\ req[h].phase = "generating" /\ req[h].left # {}
  /\ \E f \in req[h].left : Becomes(h, [req[h] EXCEPT !.left = @ \ {f}])
  /\ UNCHANGED <<store, version, project, queue, used>>

\* The provider fails, times out, answers badly, or the client goes away.
GenerationFails(h) ==
  /\ req[h].phase = "generating"
  /\ Queues(h, [req[h] EXCEPT !.phase = "fail"])
  /\ UNCHANGED <<store, version, project, used>>

\* The files are read again: a changed one makes the request fail.
Unchanged(q) == \A f \in Affected[q.plan] : version[f] = q.seen[f]
ReadAgain(h) ==
  /\ req[h].phase = "generating" /\ req[h].left = {} /\ Len(sets) < MaxSets
  /\ Queues(h, [req[h] EXCEPT !.phase = IF Unchanged(req[h]) THEN "propose" ELSE "fail"])
  /\ UNCHANGED <<store, version, project, used>>

Cancel(h, p) ==
  /\ Call(h) /\ plan[p].status = "proposed"
  /\ Queues(h, Request("cancel", p))
  /\ UNCHANGED <<store, version, project>>

\* rereview: the current version must have been compiled.
Current == {c \in compiles : c.version = project /\ c.success}
RereviewableMutant(p) == resolution[p].status \in {"needs-review", "reopened"}
Rereviewable(p) == resolution[p].status \in {"needs-review", "reopened"} /\ Current # {}

Rereview(h, p) ==
  /\ Call(h) /\ Rereviewable(p)
  /\ Becomes(h, [Request("rereviewing", p) EXCEPT
                   !.compile = IF Current = {} THEN NoCompile ELSE CHOOSE c \in Current : TRUE])
  /\ UNCHANGED <<store, version, project, queue>>

ReviewerAnswers(h) ==
  /\ req[h].phase = "rereviewing"
  /\ \E ok \in BOOLEAN : Queues(h, [req[h] EXCEPT !.phase = "assess", !.accepted = ok])
  /\ UNCHANGED <<store, version, project, used>>

ReviewerFails(h) ==
  /\ req[h].phase = "rereviewing" /\ Becomes(h, Idle)
  /\ UNCHANGED <<store, version, project, queue, used>>

Reopen(h, p) ==
  /\ Call(h) /\ resolution[p].status = "resolved"
  /\ Queues(h, Request("reopen", p))
  /\ UNCHANGED <<store, version, project>>

\* finishReview and rollback of a ChangeSet (the whole review is another module).
FinishReview(h, c, accepted) ==
  /\ Call(h) /\ sets[c].status = "proposed"
  /\ Queues(h, [Request("finish", sets[c].plan) EXCEPT !.set = c, !.accepted = accepted])
  /\ UNCHANGED <<store, version, project>>

Rollback(h, c) ==
  /\ Call(h) /\ sets[c].status = "accepted"
  /\ Queues(h, [Request("rollback", sets[c].plan) EXCEPT !.set = c])
  /\ UNCHANGED <<store, version, project>>

\* POST compile-results: the browser reports what it compiled.
CompileResult(h, v, ok) ==
  /\ req[h] = Idle /\ Uses("compiles", MaxCompiles)
  /\ \E p \in Plans :
       Queues(h, [Request("compile", p) EXCEPT !.compile = [version |-> v, success |-> ok]])
  /\ UNCHANGED <<store, version, project>>

UserSaves(f) ==
  /\ Uses("saves", MaxSaves)
  /\ version' = [version EXCEPT ![f] = @ + 1] /\ project' = project + 1
  /\ UNCHANGED <<store, req, queue>>

-----------------------------------------------------------------------------
\* The mutations.  Those of a ChangeSet look for what is linked to it.
LinkedPlans(c)       == {p \in Plans : plan[p].set = c}
LinkedResolutions(c) == {p \in Plans : resolution[p].status # "none" /\ resolution[p].set = c}
IssueBecomes(P, s) == [i \in Issues |-> IF \E p \in P : i \in IssuesOf[p] THEN s ELSE issue[i]]
Resolution(p)      == {p} \ {o \in Plans : resolution[o].status = "none"}
ResolutionBecomes(P, s) ==
  [p \in Plans |-> IF p \in P THEN [resolution[p] EXCEPT !.status = s] ELSE resolution[p]]

Start(q) ==
  /\ run' = [run EXCEPT ![q.plan] = "running"]
  /\ UNCHANGED <<plan, resolution, issue, sets, compiles>>

ProposePlan(q) ==
  LET p == q.plan IN
    /\ plan' = [plan EXCEPT ![p].status = "proposed"]
    /\ run' = [run EXCEPT ![p] = "waiting-approval"]
    /\ resolution' = [resolution EXCEPT ![p].status = IF IssuesOf[p] = {} THEN "none" ELSE "planned"]
    /\ issue' = IssueBecomes({p}, "planned")
    /\ UNCHANGED <<sets, compiles>>

Generate(q) ==
  LET p == q.plan IN
    /\ plan' = [plan EXCEPT ![p].status = "generating"]
    /\ run' = [run EXCEPT ![p] = "running"]
    /\ resolution' = ResolutionBecomes(Resolution(p), "in-revision")
    /\ issue' = IssueBecomes({p}, "in_revision")
    /\ UNCHANGED <<sets, compiles>>

Propose(q) ==
  LET p == q.plan
      c == Len(sets) + 1 IN
    /\ sets' = Append(sets, [plan |-> p, status |-> "proposed"])
    /\ plan' = [plan EXCEPT ![p] = [status |-> "waiting-approval", set |-> c]]
    /\ run' = [run EXCEPT ![p] = "waiting-approval"]
    /\ resolution' = [o \in Plans |-> IF o \in Resolution(p) THEN [resolution[o] EXCEPT !.set = c]
                                      ELSE resolution[o]]
    /\ UNCHANGED <<issue, compiles>>

FailMutant(q) ==    \* the run only
  /\ run' = [run EXCEPT ![q.plan] = "failed"]
  /\ UNCHANGED <<plan, resolution, issue, sets, compiles>>
Fail(q) ==
  LET P == {p \in {q.plan} : plan[p].status = "generating"} IN
    /\ \E s \in {"failed", "cancelled"} : run' = [run EXCEPT ![q.plan] = s]
    /\ plan' = [p \in Plans |-> IF p \in P THEN [plan[p] EXCEPT !.status = "proposed"] ELSE plan[p]]
    /\ resolution' = ResolutionBecomes(UNION {Resolution(p) : p \in P}, "planned")
    /\ issue' = IssueBecomes(UNION {Resolution(p) : p \in P}, "planned")
    /\ UNCHANGED <<sets, compiles>>

CancelPlan(q) ==
  LET p == q.plan IN
    /\ plan' = [plan EXCEPT ![p].status = "cancelled"]
    /\ run' = [run EXCEPT ![p] = "cancelled"]
    /\ resolution' = ResolutionBecomes(Resolution(p), "reopened")
    /\ issue' = IssueBecomes(Resolution(p), "open")
    /\ UNCHANGED <<sets, compiles>>

Assess(q) ==
  LET p == q.plan IN
    /\ resolution' = [resolution EXCEPT ![p] =
         [@ EXCEPT !.status = IF q.accepted THEN "resolved" ELSE "reopened", !.compile = q.compile]]
    /\ issue' = IssueBecomes({p}, IF q.accepted THEN "resolved" ELSE "open")
    /\ UNCHANGED <<plan, run, sets, compiles>>

ReopenResolution(q) ==
  /\ resolution' = ResolutionBecomes({q.plan}, "reopened")
  /\ issue' = IssueBecomes({q.plan}, "open")
  /\ UNCHANGED <<plan, run, sets, compiles>>

FinishMutant(q) ==    \* the run's plan instead of the ChangeSet's
  LET P == {q.plan} IN
    /\ sets' = [sets EXCEPT ![q.set].status = IF q.accepted THEN "accepted" ELSE "rejected"]
    /\ run' = [run EXCEPT ![q.plan] = "completed"]
    /\ plan' = [p \in Plans |-> IF p \notin P THEN plan[p]
                ELSE [plan[p] EXCEPT !.status = IF q.accepted THEN "accepted" ELSE "cancelled"]]
    /\ UNCHANGED <<resolution, issue, compiles>>
Finish(q) ==
  LET P == LinkedPlans(q.set)
      R == LinkedResolutions(q.set) IN
    /\ sets' = [sets EXCEPT ![q.set].status = IF q.accepted THEN "accepted" ELSE "rejected"]
    /\ run' = [run EXCEPT ![q.plan] = "completed"]
    /\ plan' = [p \in Plans |-> IF p \notin P THEN plan[p]
                ELSE [plan[p] EXCEPT !.status = IF q.accepted THEN "accepted" ELSE "cancelled"]]
    /\ resolution' = [p \in Plans |-> IF p \notin R THEN resolution[p]
         ELSE [resolution[p] EXCEPT !.status = IF q.accepted THEN "in-revision" ELSE "reopened",
                                    !.accepted = IF q.accepted THEN q.version ELSE 0]]
    /\ issue' = IF q.accepted THEN issue ELSE IssueBecomes(R, "open")
    /\ UNCHANGED compiles

UndoSet(q) ==
  LET P == LinkedPlans(q.set)
      R == LinkedResolutions(q.set) IN
    /\ sets' = [sets EXCEPT ![q.set].status = "rolled-back"]
    /\ plan' = [p \in Plans |-> IF p \in P THEN [plan[p] EXCEPT !.status = "cancelled"] ELSE plan[p]]
    /\ resolution' = ResolutionBecomes(R, "rolled-back")
    /\ issue' = IssueBecomes(R, "open")
    /\ UNCHANGED <<run, compiles>>

RecordCompile(q) ==
  LET R == {p \in Plans : /\ resolution[p].accepted = q.compile.version
                          /\ resolution[p].status \in {"in-revision", "needs-review"}} IN
    /\ compiles' = compiles \cup {q.compile}
    /\ resolution' = [p \in Plans |-> IF p \notin R THEN resolution[p]
         ELSE [resolution[p] EXCEPT !.compile = q.compile,
                 !.status = IF q.compile.success THEN "needs-review" ELSE "in-revision"]]
    /\ issue' = IssueBecomes(R, "in_revision")
    /\ UNCHANGED <<plan, run, sets>>

\* The first queued mutation runs; its request ends or goes on to the provider.
Write ==
  /\ queue # <<>> /\ queue' = Tail(queue)
  /\ LET h == Head(queue)
         q == req[h] IN
       /\ CASE q.phase = "start"        -> Start(q)
            [] q.phase = "propose plan" -> ProposePlan(q)
            [] q.phase = "generate"     -> Generate(q)
            [] q.phase = "propose"      -> Propose(q)
            [] q.phase = "fail"         -> Fail(q)
            [] q.phase = "cancel"       -> CancelPlan(q)
            [] q.phase = "assess"       -> Assess(q)
            [] q.phase = "reopen"       -> ReopenResolution(q)
            [] q.phase = "finish"       -> Finish(q)
            [] q.phase = "rollback"     -> UndoSet(q)
            [] q.phase = "compile"      -> RecordCompile(q)
       /\ Becomes(h, CASE q.phase = "start" -> [q EXCEPT !.phase = "planning"]
                       [] q.phase = "generate" -> [q EXCEPT !.phase = "generating"]
                       [] OTHER -> Idle)
  /\ UNCHANGED <<version, project, used>>

\* The server dies: requests and queued mutations are lost, and nothing resumes.
Crash ==
  /\ Uses("crashes", MaxCrashes)
  /\ req' = [h \in Handlers |-> Idle] /\ queue' = <<>>
  /\ UNCHANGED <<store, version, project>>

-----------------------------------------------------------------------------
Init ==
  /\ plan = [p \in Plans |-> [status |-> "none", set |-> 0]]
  /\ run = [p \in Plans |-> "none"]
  /\ resolution = [p \in Plans |-> [status |-> "none", set |-> 0, accepted |-> 0,
                                    compile |-> NoCompile]]
  /\ issue = [i \in Issues |-> "open"]
  /\ sets = <<>> /\ compiles = {}
  /\ version = [f \in Files |-> 1] /\ project = 1
  /\ req = [h \in Handlers |-> Idle] /\ queue = <<>>
  /\ used = [b \in {"calls", "saves", "compiles", "crashes"} |-> 0]

Proceeds(h) ==
  \/ PlannerAnswers(h) \/ ReadDocuments(h) \/ FileGenerated(h) \/ GenerationFails(h)
  \/ ReadAgain(h) \/ ReviewerAnswers(h) \/ ReviewerFails(h)

Calls(h) ==
  \/ \E p \in Plans : Plan(h, p) \/ Confirm(h, p) \/ Cancel(h, p) \/ Rereview(h, p) \/ Reopen(h, p)
  \/ \E c \in DOMAIN sets : Rollback(h, c) \/ \E a \in BOOLEAN : FinishReview(h, c, a)
  \/ \E v \in 1..project, ok \in BOOLEAN : CompileResult(h, v, ok)

Next ==
  \/ \E h \in Handlers : Calls(h) \/ Proceeds(h)
  \/ \E f \in Files : UserSaves(f)
  \/ Write \/ Crash

Spec == Init /\ [][Next]_vars

\* Providers answer or time out, queued mutations run; users owe nothing.
FairSpec == Spec /\ WF_vars(Write) /\ \A h \in Handlers : WF_vars(Proceeds(h))

-----------------------------------------------------------------------------
\* However confirmations, cancellations, reviews and rollbacks interleave, a plan
\* that waits for approval points to a ChangeSet that can be approved, and an
\* accepted plan to the accepted one (confirm, finishReview, rollback, fail).
PlanFollowsItsChangeSet ==
  \A p \in Plans :
    /\ plan[p].status = "waiting-approval" => plan[p].set # 0 /\ sets[plan[p].set].status = "proposed"
    /\ plan[p].status = "accepted" => plan[p].set # 0 /\ sets[plan[p].set].status = "accepted"

\* A resolution waits for re-review only after the accepted version compiled, and
\* is resolved only on a successful compilation (compile-results, rereview).
ReviewedAfterCompile ==
  \A p \in Plans :
    /\ resolution[p].status = "needs-review" =>
         resolution[p].compile.success /\ resolution[p].compile.version = resolution[p].accepted
    /\ resolution[p].status = "resolved" =>
         resolution[p].compile.success /\ resolution[p].compile \in compiles

\* While the server is up, a plan that generates ends up with a ChangeSet or is
\* proposed again, whoever confirms it twice and whichever call of a provider or of
\* the workspace fails (confirm, fail).  Not meant is a database that rejects the
\* mutation of fail itself (agent-task-service.ts:310): like a crash, that leaves
\* the plan generating.
GenerationEnds ==
  \A p \in Plans :
    plan[p].status = "generating" ~> plan[p].status # "generating" \/ used["crashes"] > 0

=============================================================================
