--------------------------- MODULE AgentTaskProofs ---------------------------
(***************************************************************************)
(* Proofs about AgentTask, for every number of plans and of requests in    *)
(* flight: a plan agrees with its ChangeSet, and what was compiled comes   *)
(* before what was reviewed again.  A mutation does not check again what   *)
(* its request saw, so the invariant also says what queued requests carry. *)
(***************************************************************************)
EXTENDS AgentTask, TLAPS

WritePhases == {"start", "propose plan", "generate", "propose", "fail", "cancel", "assess",
                "reopen", "finish", "rollback", "compile"}
WaitPhases  == {"planning", "reading", "generating", "rereviewing"}

Compilation == [version: Nat, success: BOOLEAN]
Requests == [phase: WritePhases \cup WaitPhases, plan: Plans, set: Nat, seen: [Files -> Nat],
             left: SUBSET Files, accepted: BOOLEAN, version: Nat, compile: Compilation]
PlanStatuses == {"none", "proposed", "generating", "waiting-approval", "accepted", "cancelled"}
PlanRecord   == [status: PlanStatuses, set: Nat]
ResolutionStatuses ==
  {"none", "planned", "in-revision", "needs-review", "resolved", "reopened", "rolled-back"}
ResolutionRecord ==
  [status: ResolutionStatuses, set: Nat, accepted: Nat, compile: Compilation]
SetRecord == [plan: Plans, status: {"proposed", "accepted", "rejected", "rolled-back"}]

StoreOK ==
  /\ plan \in [Plans -> PlanRecord] /\ \A p \in Plans : plan[p].set \in 0 .. Len(sets)
  /\ resolution \in [Plans -> ResolutionRecord]
  /\ sets \in Seq(SetRecord) /\ compiles \subseteq Compilation

TypeOK ==
  /\ StoreOK
  /\ version \in [Files -> Nat] /\ project \in Nat
  /\ req \in [Handlers -> Requests \cup {Idle}] /\ queue \in Seq(Handlers)

\* What is queued is a mutation, and no request has two.
QueueOK ==
  /\ \A i \in DOMAIN queue : req[queue[i]].phase \in WritePhases
  /\ \A i, j \in DOMAIN queue : queue[i] = queue[j] => i = j

\* A request about a ChangeSet names one; a re-review was asked for a compiled version.
Carried(x) ==
  /\ x.phase \in {"finish", "rollback"} => x.set \in DOMAIN sets
  /\ x.phase \in {"rereviewing", "assess"} => x.compile.success /\ x.compile \in compiles

RequestsOK == \A h \in Handlers : Carried(req[h])

TaskInv ==
  TypeOK /\ QueueOK /\ RequestsOK /\ PlanFollowsItsChangeSet /\ ReviewedAfterCompile

-----------------------------------------------------------------------------
\* Requests.

LEMMA RequestType ==
  ASSUME TypeOK, NEW phase \in WritePhases \cup WaitPhases, NEW p \in Plans
  PROVE  /\ Request(phase, p) \in Requests /\ Request(phase, p).phase = phase
         /\ Request(phase, p).compile = NoCompile
<1> USE AgentTaskAssumption
<1>1. Affected[p] \in SUBSET Files /\ NoCompile \in Compilation  BY DEF NoCompile, Compilation
<1>2. QED  BY <1>1 DEF Request, Requests, TypeOK

\* Going on to another phase keeps what a request carries.
LEMMA RequestGoes ==
  ASSUME NEW q \in Requests, NEW phase \in WritePhases \cup WaitPhases
  PROVE  LET x == [q EXCEPT !.phase = phase] IN
           /\ x \in Requests /\ x.phase = phase /\ x.set = q.set /\ x.compile = q.compile
  BY DEF Requests

\* A step of one request, which may queue its mutation.
LEMMA HandlerStep ==
  ASSUME TaskInv, NEW h \in Handlers, NEW x \in Requests \cup {Idle},
         req[h].phase \notin WritePhases, Carried(x), req' = [req EXCEPT ![h] = x],
         \/ queue' = queue
         \/ queue' = Append(queue, h) /\ x.phase \in WritePhases,
         UNCHANGED <<store, version, project>>
  PROVE  TaskInv'
<1>1. TypeOK /\ QueueOK /\ RequestsOK /\ PlanFollowsItsChangeSet /\ ReviewedAfterCompile
  BY DEF TaskInv
<1>2. req \in [Handlers -> Requests \cup {Idle}] /\ queue \in Seq(Handlers)  BY <1>1 DEF TypeOK
<1>3. /\ plan' = plan /\ resolution' = resolution /\ sets' = sets /\ compiles' = compiles
      /\ version' = version /\ project' = project
  BY DEF store
<1>4. req'[h] = x /\ \A g \in Handlers \ {h} : req'[g] = req[g]  BY <1>2
<1>5. TypeOK'
  <2>1. StoreOK' /\ version' \in [Files -> Nat] /\ project' \in Nat
    BY <1>1, <1>3 DEF TypeOK, StoreOK
  <2>2. req' \in [Handlers -> Requests \cup {Idle}]  BY <1>2
  <2>3. queue' \in Seq(Handlers)  BY <1>2
  <2>4. QED  BY <2>1, <2>2, <2>3 DEF TypeOK
<1>6. RequestsOK'  BY <1>1, <1>3, <1>4 DEF RequestsOK, Carried
<1>7. \A i \in DOMAIN queue : queue[i] \in Handlers /\ queue[i] # h  BY <1>1, <1>2 DEF QueueOK
<1>8. QueueOK'
  <2>1. CASE queue' = queue  BY <1>1, <1>4, <1>7, <2>1 DEF QueueOK
  <2>2. CASE queue' = Append(queue, h) /\ x.phase \in WritePhases
    <3>1. \A i \in DOMAIN queue' : \/ i \in DOMAIN queue /\ queue'[i] = queue[i]
                                   \/ i = Len(queue) + 1 /\ queue'[i] = h
      BY <1>2, <2>2
    <3>2. \A i \in DOMAIN queue' : req'[queue'[i]].phase \in WritePhases
      BY <1>1, <1>4, <1>7, <2>2, <3>1 DEF QueueOK
    <3>3. \A i, j \in DOMAIN queue' : queue'[i] = queue'[j] => i = j
      BY <1>1, <1>7, <3>1 DEF QueueOK
    <3>4. QED  BY <3>2, <3>3 DEF QueueOK
  <2>3. QED  BY <2>1, <2>2
<1>9. PlanFollowsItsChangeSet' /\ ReviewedAfterCompile'
  BY <1>1, <1>3 DEF PlanFollowsItsChangeSet, ReviewedAfterCompile
<1>10. QED  BY <1>5, <1>6, <1>8, <1>9 DEF TaskInv

\* A request that is answered, waits for a provider, or reads.
LEMMA ProceedsStep ==
  ASSUME TaskInv, NEW h \in Handlers, Proceeds(h)
  PROVE  TaskInv'
<1>1. TypeOK /\ RequestsOK /\ Carried(req[h])  BY DEF TaskInv, RequestsOK
<1>2. req[h] \in Requests \cup {Idle}  BY <1>1 DEF TypeOK
<1>3. req[h].phase \in WaitPhases /\ UNCHANGED <<store, version, project>>
  BY DEF Proceeds, PlannerAnswers, ReadDocuments, FileGenerated, GenerationFails, ReadAgain,
         ReviewerAnswers, ReviewerFails, WaitPhases
<1>4. req[h] \in Requests /\ req[h].phase \notin WritePhases
  <2>1. Idle.phase = "idle"  BY DEF Idle
  <2>2. QED  BY <1>2, <1>3, <2>1 DEF WaitPhases, WritePhases
<1>5. ASSUME NEW x \in Requests, Carried(x), Queues(h, x), x.phase \in WritePhases PROVE TaskInv'
  BY <1>3, <1>4, <1>5, HandlerStep DEF Queues, Becomes
<1>6. ASSUME NEW next \in {"propose plan", "fail", "propose"}, Queues(h, [req[h] EXCEPT !.phase = next])
      PROVE  TaskInv'
  <2> DEFINE x == [req[h] EXCEPT !.phase = next]
  <2>1. next \in WritePhases  BY DEF WritePhases
  <2>2. x \in Requests /\ x.phase = next  BY <1>4, <2>1, RequestGoes
  <2>3. Carried(x)  BY <2>2 DEF Carried
  <2> HIDE DEF x
  <2>4. QED  BY <1>5, <1>6, <2>1, <2>2, <2>3 DEF x
<1>7. CASE PlannerAnswers(h)  BY <1>6, <1>7 DEF PlannerAnswers
<1>8. CASE GenerationFails(h)  BY <1>6, <1>8 DEF GenerationFails
<1>9. CASE ReadAgain(h)
  <2>1. Queues(h, [req[h] EXCEPT !.phase = IF Unchanged(req[h]) THEN "propose" ELSE "fail"])
    BY <1>9 DEF ReadAgain
  <2>2. QED  BY <1>6, <2>1
<1>10. CASE ReadDocuments(h)
  <2> DEFINE x == [req[h] EXCEPT !.phase = "generate", !.seen = version]
  <2>1. x \in Requests /\ x.phase = "generate" /\ "generate" \in WritePhases
    BY <1>1, <1>4 DEF Requests, WritePhases, TypeOK
  <2>2. Carried(x) /\ Queues(h, x)  BY <1>10, <2>1 DEF Carried, ReadDocuments
  <2> HIDE DEF x
  <2>3. QED  BY <1>5, <2>1, <2>2
<1>11. CASE FileGenerated(h)
  <2>1. PICK f \in req[h].left : Becomes(h, [req[h] EXCEPT !.left = @ \ {f}])
    BY <1>11 DEF FileGenerated
  <2> DEFINE x == [req[h] EXCEPT !.left = @ \ {f}]
  <2>2. x \in Requests /\ x.phase = "generating"  BY <1>4, <1>11 DEF Requests, FileGenerated
  <2>3. Carried(x)  BY <2>2 DEF Carried
  <2>4. req' = [req EXCEPT ![h] = x] /\ queue' = queue  BY <1>11, <2>1 DEF Becomes, FileGenerated
  <2> HIDE DEF x
  <2>5. QED  BY <1>3, <1>4, <2>2, <2>3, <2>4, HandlerStep
<1>12. CASE ReviewerAnswers(h)
  <2>1. PICK ok \in BOOLEAN : Queues(h, [req[h] EXCEPT !.phase = "assess", !.accepted = ok])
    BY <1>12 DEF ReviewerAnswers
  <2> DEFINE x == [req[h] EXCEPT !.phase = "assess", !.accepted = ok]
  <2>2. /\ x \in Requests /\ x.phase = "assess" /\ x.compile = req[h].compile
        /\ "assess" \in WritePhases
    BY <1>4 DEF Requests, WritePhases
  <2>3. Carried(x)  BY <1>1, <1>12, <2>2 DEF Carried, ReviewerAnswers
  <2>4. Queues(h, x)  BY <2>1
  <2> HIDE DEF x
  <2>5. QED  BY <1>5, <2>2, <2>3, <2>4
<1>13. CASE ReviewerFails(h)
  <2>1. req' = [req EXCEPT ![h] = Idle] /\ queue' = queue  BY <1>13 DEF ReviewerFails, Becomes
  <2>2. Carried(Idle)  BY DEF Carried, Idle
  <2>3. QED  BY <1>3, <1>4, <2>1, <2>2, HandlerStep
<1>14. QED  BY <1>7, <1>8, <1>9, <1>10, <1>11, <1>12, <1>13 DEF Proceeds

\* A new request.
LEMMA CallsStep ==
  ASSUME TaskInv, NEW h \in Handlers, Calls(h)
  PROVE  TaskInv'
<1>1. TypeOK /\ StoreOK  BY DEF TaskInv, TypeOK
<1>2. req[h] = Idle /\ req[h].phase \notin WritePhases /\ UNCHANGED <<store, version, project>>
  <2>1. req[h] = Idle /\ UNCHANGED <<store, version, project>>
    BY DEF Calls, Plan, Confirm, Cancel, Rereview, Reopen, Rollback, FinishReview, CompileResult, Call
  <2>2. Idle.phase \notin WritePhases  BY DEF Idle, WritePhases
  <2>3. QED  BY <2>1, <2>2
<1>12. \A c \in DOMAIN sets : sets[c].plan \in Plans /\ c \in Nat
  <2>1. sets \in Seq(SetRecord)  BY <1>1 DEF StoreOK
  <2>2. \A c \in DOMAIN sets : sets[c] \in SetRecord /\ c \in Nat  BY <2>1
  <2>3. QED  BY <2>2 DEF SetRecord
<1>3. ASSUME NEW x \in Requests, Carried(x),
             \/ Queues(h, x) /\ x.phase \in WritePhases
             \/ Becomes(h, x) /\ queue' = queue
      PROVE  TaskInv'
  BY <1>2, <1>3, HandlerStep DEF Queues, Becomes
<1>4. ASSUME NEW p \in Plans, NEW phase \in {"start", "cancel", "reopen"}, Queues(h, Request(phase, p))
      PROVE  TaskInv'
  <2>1. phase \in WritePhases  BY DEF WritePhases
  <2>2. Request(phase, p) \in Requests /\ Request(phase, p).phase = phase  BY <1>1, <2>1, RequestType
  <2>3. Carried(Request(phase, p))  BY <2>2 DEF Carried
  <2>4. QED  BY <1>3, <1>4, <2>1, <2>2, <2>3
<1>5. ASSUME NEW p \in Plans, Plan(h, p) \/ Cancel(h, p) \/ Reopen(h, p) PROVE TaskInv'
  BY <1>4, <1>5 DEF Plan, Cancel, Reopen
<1>6. ASSUME NEW p \in Plans, Confirm(h, p) PROVE TaskInv'
  <2>1. "reading" \in WaitPhases  BY DEF WaitPhases
  <2>2. Request("reading", p) \in Requests /\ Request("reading", p).phase = "reading"
    BY <1>1, <2>1, RequestType
  <2>3. Carried(Request("reading", p))  BY <2>2 DEF Carried
  <2>4. Becomes(h, Request("reading", p)) /\ queue' = queue  BY <1>6 DEF Confirm
  <2>5. QED  BY <1>3, <2>2, <2>3, <2>4
<1>7. ASSUME NEW p \in Plans, Rereview(h, p) PROVE TaskInv'
  <2> DEFINE c == CHOOSE c \in Current : TRUE
             r == Request("rereviewing", p)
             x == [r EXCEPT !.compile = c]
  <2>1. Current # {}  BY <1>7 DEF Rereview, Rereviewable
  <2>2. c \in compiles /\ c.success /\ c \in Compilation  BY <1>1, <2>1 DEF Current, StoreOK
  <2>3. "rereviewing" \in WaitPhases  BY DEF WaitPhases
  <2>4. r \in Requests /\ r.phase = "rereviewing"  BY <1>1, <2>3, RequestType
  <2>5. Becomes(h, x) /\ queue' = queue  BY <1>7, <2>1 DEF Rereview
  <2> HIDE DEF c, r
  <2>6. x \in Requests /\ x.phase = "rereviewing" /\ x.compile = c  BY <2>2, <2>4 DEF Requests
  <2>7. Carried(x)  BY <2>2, <2>6 DEF Carried
  <2> HIDE DEF x
  <2>8. QED  BY <1>3, <2>5, <2>6, <2>7
<1>8. ASSUME NEW c \in DOMAIN sets, NEW a \in BOOLEAN, FinishReview(h, c, a) PROVE TaskInv'
  <2> DEFINE r == Request("finish", sets[c].plan)
             x == [r EXCEPT !.set = c, !.accepted = a]
  <2>1. "finish" \in WritePhases  BY DEF WritePhases
  <2>2. sets[c].plan \in Plans /\ c \in Nat  BY <1>12
  <2>3. r \in Requests /\ r.phase = "finish"  BY <1>1, <2>1, <2>2, RequestType
  <2>4. Queues(h, x)  BY <1>8 DEF FinishReview
  <2> HIDE DEF r
  <2>5. x \in Requests /\ x.phase = "finish" /\ x.set = c  BY <2>2, <2>3 DEF Requests
  <2>6. Carried(x)  BY <2>5 DEF Carried
  <2> HIDE DEF x
  <2>7. QED  BY <1>3, <2>1, <2>4, <2>5, <2>6
<1>9. ASSUME NEW c \in DOMAIN sets, Rollback(h, c) PROVE TaskInv'
  <2> DEFINE r == Request("rollback", sets[c].plan)
             x == [r EXCEPT !.set = c]
  <2>1. "rollback" \in WritePhases  BY DEF WritePhases
  <2>2. sets[c].plan \in Plans /\ c \in Nat  BY <1>12
  <2>3. r \in Requests /\ r.phase = "rollback"  BY <1>1, <2>1, <2>2, RequestType
  <2>4. Queues(h, x)  BY <1>9 DEF Rollback
  <2> HIDE DEF r
  <2>5. x \in Requests /\ x.phase = "rollback" /\ x.set = c  BY <2>2, <2>3 DEF Requests
  <2>6. Carried(x)  BY <2>5 DEF Carried
  <2> HIDE DEF x
  <2>7. QED  BY <1>3, <2>1, <2>4, <2>5, <2>6
<1>10. ASSUME NEW v \in 1 .. project, NEW ok \in BOOLEAN, CompileResult(h, v, ok) PROVE TaskInv'
  <2>1. PICK p \in Plans :
          Queues(h, [Request("compile", p) EXCEPT !.compile = [version |-> v, success |-> ok]])
    BY <1>10 DEF CompileResult
  <2> DEFINE r == Request("compile", p)
             x == [r EXCEPT !.compile = [version |-> v, success |-> ok]]
  <2>2. "compile" \in WritePhases  BY DEF WritePhases
  <2>3. r \in Requests /\ r.phase = "compile"  BY <1>1, <2>2, RequestType
  <2>4. Queues(h, x)  BY <2>1
  <2>5. [version |-> v, success |-> ok] \in Compilation  BY DEF Compilation
  <2> HIDE DEF r
  <2>6. x \in Requests /\ x.phase = "compile"  BY <2>3, <2>5 DEF Requests
  <2>7. Carried(x)  BY <2>6 DEF Carried
  <2> HIDE DEF x
  <2>8. QED  BY <1>3, <2>2, <2>4, <2>6, <2>7
<1>11. QED  BY <1>5, <1>6, <1>7, <1>8, <1>9, <1>10 DEF Calls

-----------------------------------------------------------------------------
\* What a mutation must leave: the stored types, nothing of a ChangeSet or of a
\* compilation lost, and the two properties.
Written ==
  /\ StoreOK' /\ DOMAIN sets \subseteq DOMAIN sets' /\ compiles \subseteq compiles'
  /\ PlanFollowsItsChangeSet' /\ ReviewedAfterCompile'

\* The plans follow their ChangeSets when those that wait or are accepted still do.
LEMMA PlansKept ==
  ASSUME PlanFollowsItsChangeSet,
         \A p \in Plans :
           \/ plan'[p].status \notin {"waiting-approval", "accepted"}
           \/ /\ plan'[p].status = plan[p].status /\ plan'[p].set = plan[p].set
              /\ plan[p].set # 0 => sets'[plan[p].set].status = sets[plan[p].set].status
  PROVE  PlanFollowsItsChangeSet'
  BY DEF PlanFollowsItsChangeSet

LEMMA ResolutionsKept ==
  ASSUME ReviewedAfterCompile, compiles \subseteq compiles',
         \A p \in Plans :
           \/ resolution'[p].status \notin {"needs-review", "resolved"}
           \/ /\ resolution'[p].status = resolution[p].status
              /\ resolution'[p].compile = resolution[p].compile
              /\ resolution'[p].accepted = resolution[p].accepted
  PROVE  ReviewedAfterCompile'
  BY DEF ReviewedAfterCompile

\* A change of status keeps the types and the rest.
LEMMA PlanStatus ==
  ASSUME NEW r \in PlanRecord,
         NEW st \in PlanStatuses
  PROVE  /\ [r EXCEPT !.status = st] \in PlanRecord /\ [r EXCEPT !.status = st].status = st
         /\ [r EXCEPT !.status = st].set = r.set
  BY DEF PlanRecord, PlanStatuses

LEMMA ResolutionStatus ==
  ASSUME NEW r \in ResolutionRecord,
         NEW st \in ResolutionStatuses
  PROVE  [r EXCEPT !.status = st] \in ResolutionRecord /\ [r EXCEPT !.status = st].status = st
  BY DEF ResolutionRecord, ResolutionStatuses

LEMMA Becoming ==
  ASSUME StoreOK, NEW P, NEW st \in {"none", "planned", "in-revision", "reopened", "rolled-back"},
         resolution' = ResolutionBecomes(P, st)
  PROVE  /\ resolution' \in [Plans -> ResolutionRecord]
         /\ \A p \in Plans : resolution'[p] = resolution[p] \/ resolution'[p].status = st
<1>1. \A p \in Plans : resolution[p] \in ResolutionRecord  BY DEF StoreOK
<1>2. ASSUME NEW p \in Plans
      PROVE  /\ [resolution[p] EXCEPT !.status = st] \in ResolutionRecord
             /\ [resolution[p] EXCEPT !.status = st].status = st
  <2>1. st \in ResolutionStatuses  BY DEF ResolutionStatuses
  <2>2. QED  BY <1>1, <2>1, ResolutionStatus, Zenon
<1>3. QED  BY <1>1, <1>2 DEF ResolutionBecomes

\* One plan takes another status, its resolution too.
LEMMA PlanBecomes ==
  ASSUME StoreOK, NEW p \in Plans, NEW st \in {"proposed", "generating", "cancelled"},
         plan' = [plan EXCEPT ![p].status = st], sets' = sets
  PROVE  /\ plan' \in [Plans -> PlanRecord]
         /\ \A o \in Plans : plan'[o].set = plan[o].set
         /\ \A o \in Plans : plan'[o] = plan[o] \/ plan'[o].status = st
<1> DEFINE x == [plan[p] EXCEPT !.status = st]
<1>1. plan \in [Plans -> PlanRecord]  BY DEF StoreOK
<1>2. x \in PlanRecord /\ x.status = st /\ x.set = plan[p].set
  <2>1. plan[p] \in PlanRecord /\ st \in PlanStatuses  BY <1>1 DEF PlanStatuses
  <2>2. QED  BY <2>1, PlanStatus, Zenon
<1>3. plan' = [plan EXCEPT ![p] = x]  BY <1>1
<1> HIDE DEF x
<1>4. QED  BY <1>1, <1>2, <1>3

LEMMA SimpleWrites ==
  ASSUME StoreOK, PlanFollowsItsChangeSet, ReviewedAfterCompile, NEW q \in Requests,
         \/ Start(q) \/ ProposePlan(q) \/ Generate(q) \/ Fail(q) \/ CancelPlan(q)
         \/ ReopenResolution(q)
  PROVE  Written
<1>1. sets' = sets /\ compiles' = compiles /\ q.plan \in Plans
  BY DEF Start, ProposePlan, Generate, Fail, CancelPlan, ReopenResolution, Requests
<1>2. ASSUME plan' \in [Plans -> PlanRecord], \A p \in Plans : plan'[p].set = plan[p].set,
             \A p \in Plans : \/ plan'[p] = plan[p]
                              \/ plan'[p].status \in {"proposed", "generating", "cancelled"},
             resolution' \in [Plans -> ResolutionRecord],
             \A p \in Plans : \/ resolution'[p] = resolution[p]
                              \/ resolution'[p].status \in {"none", "planned", "in-revision", "reopened"}
      PROVE  Written
  <2>1. StoreOK'  BY <1>1, <1>2 DEF StoreOK
  <2>2. PlanFollowsItsChangeSet'  BY <1>1, <1>2, PlansKept
  <2>3. ReviewedAfterCompile'  BY <1>1, <1>2, ResolutionsKept
  <2>4. QED  BY <1>1, <2>1, <2>2, <2>3 DEF Written
<1>3. plan \in [Plans -> PlanRecord] /\ resolution \in [Plans -> ResolutionRecord]  BY DEF StoreOK
<1>4. CASE Start(q)
  BY <1>2, <1>3, <1>4 DEF Start
<1>5. CASE ProposePlan(q)
  <2> DEFINE st == IF IssuesOf[q.plan] = {} THEN "none" ELSE "planned"
             x == [resolution[q.plan] EXCEPT !.status = st]
  <2>1. st \in {"none", "planned"}  OBVIOUS
  <2>2. resolution[q.plan] \in ResolutionRecord  BY <1>1, <1>3
  <2>7. x \in ResolutionRecord /\ x.status = st
    <3>1. st \in ResolutionStatuses  BY <2>1 DEF ResolutionStatuses
    <3>2. QED  BY <2>2, <3>1, ResolutionStatus, Zenon
  <2>3. resolution' = [resolution EXCEPT ![q.plan] = x]  BY <1>1, <1>3, <1>5 DEF ProposePlan
  <2> HIDE DEF x, st
  <2>4. /\ resolution' \in [Plans -> ResolutionRecord]
        /\ \A p \in Plans : resolution'[p] = resolution[p] \/ resolution'[p].status = st
    BY <1>1, <1>3, <2>7, <2>3
  <2>5. plan' = [plan EXCEPT ![q.plan].status = "proposed"]  BY <1>5 DEF ProposePlan
  <2>6. QED  BY <1>1, <1>2, <2>1, <2>4, <2>5, PlanBecomes
<1>6. CASE Generate(q)
  <2>1. plan' = [plan EXCEPT ![q.plan].status = "generating"]  BY <1>6 DEF Generate
  <2>2. resolution' = ResolutionBecomes(Resolution(q.plan), "in-revision")  BY <1>6 DEF Generate
  <2>3. QED  BY <1>1, <1>2, <2>1, <2>2, PlanBecomes, Becoming
<1>7. CASE Fail(q)
  <2> DEFINE P == {p \in {q.plan} : plan[p].status = "generating"}
  <2>1. /\ plan' = [p \in Plans |-> IF p \in P THEN [plan[p] EXCEPT !.status = "proposed"] ELSE plan[p]]
        /\ resolution' = ResolutionBecomes(UNION {Resolution(p) : p \in P}, "planned")
    BY <1>7 DEF Fail
  <2> HIDE DEF P
  <2>2. /\ plan' \in [Plans -> PlanRecord] /\ \A p \in Plans : plan'[p].set = plan[p].set
        /\ \A p \in Plans : plan'[p] = plan[p] \/ plan'[p].status = "proposed"
    <3>1. ASSUME NEW p \in Plans
          PROVE  /\ [plan[p] EXCEPT !.status = "proposed"] \in PlanRecord
                 /\ [plan[p] EXCEPT !.status = "proposed"].status = "proposed"
                 /\ [plan[p] EXCEPT !.status = "proposed"].set = plan[p].set
      <4>1. plan[p] \in PlanRecord /\ "proposed" \in PlanStatuses  BY <1>3 DEF PlanStatuses
      <4>2. QED  BY <4>1, PlanStatus, Zenon
    <3>2. QED  BY <1>3, <2>1, <3>1
  <2>3. QED  BY <1>2, <2>1, <2>2, Becoming
<1>8. CASE CancelPlan(q)
  <2>1. plan' = [plan EXCEPT ![q.plan].status = "cancelled"]  BY <1>8 DEF CancelPlan
  <2>2. resolution' = ResolutionBecomes(Resolution(q.plan), "reopened")  BY <1>8 DEF CancelPlan
  <2>3. QED  BY <1>1, <1>2, <2>1, <2>2, PlanBecomes, Becoming
<1>9. CASE ReopenResolution(q)
  <2>1. plan' = plan /\ resolution' = ResolutionBecomes({q.plan}, "reopened")
    BY <1>9 DEF ReopenResolution
  <2>2. QED  BY <1>2, <1>3, <2>1, Becoming
<1>10. QED  BY <1>4, <1>5, <1>6, <1>7, <1>8, <1>9

\* The new ChangeSet is proposed, and its plan waits for it.
LEMMA ProposeWrites ==
  ASSUME StoreOK, PlanFollowsItsChangeSet, ReviewedAfterCompile, NEW q \in Requests, Propose(q)
  PROVE  Written
<1> DEFINE c == Len(sets) + 1
           s == [plan |-> q.plan, status |-> "proposed"]
<1>1. /\ plan \in [Plans -> PlanRecord] /\ resolution \in [Plans -> ResolutionRecord]
      /\ sets \in Seq(SetRecord) /\ Len(sets) \in Nat /\ DOMAIN sets = 1 .. Len(sets)
      /\ \A p \in Plans : plan[p].set \in 0 .. Len(sets)
      /\ q.plan \in Plans
  BY DEF StoreOK, Requests
<1>2. s \in SetRecord /\ s.status = "proposed"  BY <1>1 DEF SetRecord
<1>3. sets' = Append(sets, s) /\ compiles' = compiles  BY DEF Propose
<1> HIDE DEF s
<1>4. /\ sets' \in Seq(SetRecord) /\ Len(sets') = Len(sets) + 1 /\ sets'[c] = s
      /\ \A i \in 1 .. Len(sets) : sets'[i] = sets[i]
      /\ DOMAIN sets \subseteq DOMAIN sets'
  BY <1>1, <1>2, <1>3
<1>5. plan' = [plan EXCEPT ![q.plan] = [status |-> "waiting-approval", set |-> c]]
  BY DEF Propose
<1>6. [status |-> "waiting-approval", set |-> c] \in PlanRecord
  BY <1>1 DEF PlanRecord, PlanStatuses
<1>7. /\ plan' \in [Plans -> PlanRecord]
      /\ plan'[q.plan].status = "waiting-approval" /\ plan'[q.plan].set = c
      /\ \A p \in Plans \ {q.plan} : plan'[p] = plan[p]
  BY <1>1, <1>5, <1>6
<1>8. \A p \in Plans : [resolution[p] EXCEPT !.set = c] \in ResolutionRecord
                       /\ [resolution[p] EXCEPT !.set = c].status = resolution[p].status
                       /\ [resolution[p] EXCEPT !.set = c].compile = resolution[p].compile
                       /\ [resolution[p] EXCEPT !.set = c].accepted = resolution[p].accepted
  <2>1. ASSUME NEW r \in ResolutionRecord
        PROVE  /\ [r EXCEPT !.set = c] \in ResolutionRecord
               /\ [r EXCEPT !.set = c].status = r.status /\ [r EXCEPT !.set = c].compile = r.compile
               /\ [r EXCEPT !.set = c].accepted = r.accepted
    <3>1. c \in Nat  BY <1>1
    <3> HIDE DEF c
    <3>2. QED  BY <3>1 DEF ResolutionRecord
  <2>2. ASSUME NEW p \in Plans PROVE resolution[p] \in ResolutionRecord  BY <1>1
  <2> HIDE DEF c
  <2>3. QED  BY <2>1, <2>2
<1>9. resolution' = [o \in Plans |-> IF o \in Resolution(q.plan) THEN [resolution[o] EXCEPT !.set = c]
                                     ELSE resolution[o]]
  BY DEF Propose
<1>10. /\ resolution' \in [Plans -> ResolutionRecord]
       /\ \A p \in Plans : /\ resolution'[p].status = resolution[p].status
                           /\ resolution'[p].compile = resolution[p].compile
                           /\ resolution'[p].accepted = resolution[p].accepted
  BY <1>1, <1>8, <1>9
<1> HIDE DEF c
<1>11. StoreOK'
  <2>1. \A p \in Plans : plan'[p].set \in 0 .. Len(sets')  BY <1>1, <1>4, <1>7 DEF c
  <2>2. QED  BY <1>3, <1>4, <1>7, <1>10, <2>1 DEF StoreOK
<1>12. PlanFollowsItsChangeSet'
  <2>1. \A p \in Plans : plan[p].set # 0 => sets'[plan[p].set] = sets[plan[p].set]  BY <1>1, <1>4
  <2>2. c # 0  BY <1>1 DEF c
  <2>3. QED  BY <1>2, <1>4, <1>7, <2>1, <2>2 DEF PlanFollowsItsChangeSet
<1>13. ReviewedAfterCompile'  BY <1>3, <1>10, ResolutionsKept
<1>14. QED  BY <1>3, <1>4, <1>11, <1>12, <1>13 DEF Written

\* A resolution is settled on the compilation its re-review was asked for.
LEMMA AssessWrites ==
  ASSUME StoreOK, PlanFollowsItsChangeSet, ReviewedAfterCompile, NEW q \in Requests,
         q.compile.success, q.compile \in compiles, Assess(q)
  PROVE  Written
<1> DEFINE st == IF q.accepted THEN "resolved" ELSE "reopened"
           x == [resolution[q.plan] EXCEPT !.status = st, !.compile = q.compile]
<1>1. /\ resolution \in [Plans -> ResolutionRecord] /\ q.plan \in Plans
      /\ q.compile \in Compilation
  BY DEF StoreOK, Requests
<1>2. st \in {"resolved", "reopened"}  OBVIOUS
<1>3. resolution' = [resolution EXCEPT ![q.plan] = x] /\ plan' = plan /\ sets' = sets
      /\ compiles' = compiles
  BY <1>1 DEF Assess
<1> HIDE DEF st
<1>4. x \in ResolutionRecord /\ x.status = st /\ x.compile = q.compile
  <2>1. resolution[q.plan] \in ResolutionRecord /\ st \in ResolutionStatuses
    BY <1>1, <1>2 DEF ResolutionStatuses
  <2>2. QED  BY <1>1, <2>1 DEF ResolutionRecord
<1> HIDE DEF x
<1>5. /\ resolution' \in [Plans -> ResolutionRecord] /\ resolution'[q.plan] = x
      /\ \A p \in Plans \ {q.plan} : resolution'[p] = resolution[p]
  BY <1>1, <1>3, <1>4
<1>6. StoreOK'  BY <1>3, <1>5 DEF StoreOK
<1>7. PlanFollowsItsChangeSet'  BY <1>3 DEF PlanFollowsItsChangeSet
<1>8. ReviewedAfterCompile'  BY <1>2, <1>3, <1>4, <1>5 DEF ReviewedAfterCompile
<1>9. QED  BY <1>3, <1>6, <1>7, <1>8 DEF Written

\* A ChangeSet takes another status.
LEMMA SetBecomes ==
  ASSUME StoreOK, NEW c \in DOMAIN sets, NEW st \in {"accepted", "rejected", "rolled-back"},
         sets' = [sets EXCEPT ![c].status = st]
  PROVE  /\ sets' \in Seq(SetRecord) /\ DOMAIN sets' = DOMAIN sets /\ Len(sets') = Len(sets)
         /\ sets'[c].status = st
         /\ \A i \in DOMAIN sets \ {c} : sets'[i] = sets[i]
<1> DEFINE x == [sets[c] EXCEPT !.status = st]
<1>1. sets \in Seq(SetRecord) /\ sets[c] \in SetRecord  BY DEF StoreOK
<1>2. x \in SetRecord /\ x.status = st  BY <1>1 DEF SetRecord
<1>3. sets' = [sets EXCEPT ![c] = x]  BY <1>1
<1> HIDE DEF x
<1>4. QED  BY <1>1, <1>2, <1>3

\* The plans linked to a ChangeSet take another status with it, and the others have
\* another ChangeSet.
LEMMA LinkedPlansFollow ==
  ASSUME StoreOK, PlanFollowsItsChangeSet, NEW c \in DOMAIN sets,
         NEW st \in {"accepted", "rejected", "rolled-back"},
         sets' = [sets EXCEPT ![c].status = st],
         NEW ps \in {"accepted", "cancelled"}, ps = "accepted" => st = "accepted",
         plan' = [p \in Plans |-> IF p \in LinkedPlans(c) THEN [plan[p] EXCEPT !.status = ps]
                                  ELSE plan[p]]
  PROVE  /\ plan' \in [Plans -> PlanRecord] /\ \A p \in Plans : plan'[p].set = plan[p].set
         /\ PlanFollowsItsChangeSet'
<1>1. /\ plan \in [Plans -> PlanRecord] /\ sets \in Seq(SetRecord) /\ Len(sets) \in Nat
      /\ DOMAIN sets = 1 .. Len(sets) /\ \A p \in Plans : plan[p].set \in 0 .. Len(sets)
  BY DEF StoreOK
<1>2. ASSUME NEW p \in Plans
      PROVE  /\ [plan[p] EXCEPT !.status = ps] \in PlanRecord
             /\ [plan[p] EXCEPT !.status = ps].status = ps
             /\ [plan[p] EXCEPT !.status = ps].set = plan[p].set
  <2>1. plan[p] \in PlanRecord /\ ps \in PlanStatuses  BY <1>1 DEF PlanStatuses
  <2>2. QED  BY <2>1, PlanStatus, Zenon
<1>3. plan' \in [Plans -> PlanRecord] /\ \A p \in Plans : plan'[p].set = plan[p].set
  BY <1>1, <1>2
<1>4. sets'[c].status = st /\ \A i \in DOMAIN sets \ {c} : sets'[i] = sets[i]  BY SetBecomes
<1>5. ASSUME NEW p \in Plans, plan[p].set = c
      PROVE  plan'[p].status = ps /\ plan'[p].set = c /\ c # 0
  BY <1>1, <1>2, <1>5 DEF LinkedPlans
<1>6. ASSUME NEW p \in Plans, plan[p].set # c
      PROVE  plan'[p] = plan[p] /\ (plan[p].set # 0 => sets'[plan[p].set] = sets[plan[p].set])
  BY <1>1, <1>4, <1>6 DEF LinkedPlans
<1>7. PlanFollowsItsChangeSet'
  <2>1. ASSUME NEW p \in Plans
        PROVE  /\ plan'[p].status = "waiting-approval" =>
                    plan'[p].set # 0 /\ sets'[plan'[p].set].status = "proposed"
               /\ plan'[p].status = "accepted" =>
                    plan'[p].set # 0 /\ sets'[plan'[p].set].status = "accepted"
    <3>1. CASE plan[p].set = c
      <4>1. plan'[p].status = ps /\ plan'[p].set = c /\ c # 0  BY <1>5, <3>1
      <4>2. sets'[plan'[p].set].status = st  BY <1>4, <4>1
      <4>3. QED  BY <4>1, <4>2
    <3>2. CASE plan[p].set # c
      <4>1. plan'[p] = plan[p] /\ (plan[p].set # 0 => sets'[plan[p].set] = sets[plan[p].set])
        BY <1>6, <3>2
      <4>2. QED  BY <4>1 DEF PlanFollowsItsChangeSet
    <3>3. QED  BY <3>1, <3>2
  <2>2. QED  BY <2>1 DEF PlanFollowsItsChangeSet
<1>8. QED  BY <1>3, <1>7

LEMMA FinishWrites ==
  ASSUME StoreOK, PlanFollowsItsChangeSet, ReviewedAfterCompile, NEW q \in Requests,
         q.set \in DOMAIN sets, Finish(q)
  PROVE  Written
<1> DEFINE st == IF q.accepted THEN "accepted" ELSE "rejected"
           ps == IF q.accepted THEN "accepted" ELSE "cancelled"
           rs == IF q.accepted THEN "in-revision" ELSE "reopened"
           v  == IF q.accepted THEN q.version ELSE 0
<1>1. sets' = [sets EXCEPT ![q.set].status = st] /\ compiles' = compiles  BY DEF Finish
<1>2. plan' = [p \in Plans |-> IF p \in LinkedPlans(q.set) THEN [plan[p] EXCEPT !.status = ps]
                               ELSE plan[p]]
  BY DEF Finish
<1>3. resolution' = [p \in Plans |-> IF p \notin LinkedResolutions(q.set) THEN resolution[p]
                       ELSE [resolution[p] EXCEPT !.status = rs, !.accepted = v]]
  BY DEF Finish
<1>4. /\ st \in {"accepted", "rejected"} /\ ps \in {"accepted", "cancelled"}
      /\ ps = "accepted" => st = "accepted"
      /\ rs \in {"in-revision", "reopened"} /\ v \in Nat
  BY DEF Requests
<1> HIDE DEF st, ps, rs, v
<1>5. /\ plan' \in [Plans -> PlanRecord] /\ \A p \in Plans : plan'[p].set = plan[p].set
      /\ PlanFollowsItsChangeSet'
  BY <1>1, <1>2, <1>4, LinkedPlansFollow
<1>6. /\ sets' \in Seq(SetRecord) /\ DOMAIN sets' = DOMAIN sets /\ Len(sets') = Len(sets)
  BY <1>1, <1>4, SetBecomes
<1>7. ASSUME NEW p \in Plans
      PROVE  /\ resolution[p] \in ResolutionRecord
             /\ [resolution[p] EXCEPT !.status = rs, !.accepted = v] \in ResolutionRecord
             /\ [resolution[p] EXCEPT !.status = rs, !.accepted = v].status = rs
  <2>1. resolution[p] \in ResolutionRecord  BY DEF StoreOK
  <2>2. rs \in ResolutionStatuses  BY <1>4 DEF ResolutionStatuses
  <2>3. QED  BY <1>4, <2>1, <2>2 DEF ResolutionRecord
<1>8. /\ resolution' \in [Plans -> ResolutionRecord]
      /\ \A p \in Plans : resolution'[p] = resolution[p] \/ resolution'[p].status = rs
  BY <1>3, <1>7
<1>9. StoreOK'  BY <1>1, <1>5, <1>6, <1>8 DEF StoreOK
<1>10. ReviewedAfterCompile'  BY <1>1, <1>4, <1>8, ResolutionsKept
<1>11. QED  BY <1>1, <1>5, <1>6, <1>9, <1>10 DEF Written

LEMMA UndoSetWrites ==
  ASSUME StoreOK, PlanFollowsItsChangeSet, ReviewedAfterCompile, NEW q \in Requests,
         q.set \in DOMAIN sets, UndoSet(q)
  PROVE  Written
<1>1. sets' = [sets EXCEPT ![q.set].status = "rolled-back"] /\ compiles' = compiles
  BY DEF UndoSet
<1>2. plan' = [p \in Plans |-> IF p \in LinkedPlans(q.set) THEN [plan[p] EXCEPT !.status = "cancelled"]
                               ELSE plan[p]]
  BY DEF UndoSet
<1>3. /\ plan' \in [Plans -> PlanRecord] /\ \A p \in Plans : plan'[p].set = plan[p].set
      /\ PlanFollowsItsChangeSet'
  BY <1>1, <1>2, LinkedPlansFollow
<1>4. /\ sets' \in Seq(SetRecord) /\ DOMAIN sets' = DOMAIN sets /\ Len(sets') = Len(sets)
  BY <1>1, SetBecomes
<1>5. resolution' = ResolutionBecomes(LinkedResolutions(q.set), "rolled-back")  BY DEF UndoSet
<1>6. /\ resolution' \in [Plans -> ResolutionRecord]
      /\ \A p \in Plans : resolution'[p] = resolution[p] \/ resolution'[p].status = "rolled-back"
  BY <1>5, Becoming
<1>7. StoreOK'  BY <1>1, <1>3, <1>4, <1>6 DEF StoreOK
<1>8. ReviewedAfterCompile'  BY <1>1, <1>6, ResolutionsKept
<1>9. QED  BY <1>1, <1>3, <1>4, <1>7, <1>8 DEF Written

\* Only a successful compilation of the accepted version asks for a re-review.
LEMMA RecordCompileWrites ==
  ASSUME StoreOK, PlanFollowsItsChangeSet, ReviewedAfterCompile, NEW q \in Requests,
         RecordCompile(q)
  PROVE  Written
<1> DEFINE st == IF q.compile.success THEN "needs-review" ELSE "in-revision"
           R == {p \in Plans : /\ resolution[p].accepted = q.compile.version
                               /\ resolution[p].status \in {"in-revision", "needs-review"}}
<1>1. /\ resolution \in [Plans -> ResolutionRecord] /\ q.compile \in Compilation
  BY DEF StoreOK, Requests
<1>2. /\ compiles' = compiles \cup {q.compile} /\ plan' = plan /\ sets' = sets
      /\ resolution' = [p \in Plans |-> IF p \notin R THEN resolution[p]
           ELSE [resolution[p] EXCEPT !.compile = q.compile, !.status = st]]
  BY DEF RecordCompile
<1>3. st \in {"needs-review", "in-revision"} /\ (st = "needs-review" => q.compile.success)
  OBVIOUS
<1>4. \A p \in R : resolution[p].accepted = q.compile.version  OBVIOUS
<1> HIDE DEF st, R
<1>5. ASSUME NEW p \in Plans
      PROVE  LET x == [resolution[p] EXCEPT !.compile = q.compile, !.status = st] IN
               /\ x \in ResolutionRecord /\ x.status = st /\ x.compile = q.compile
               /\ x.accepted = resolution[p].accepted
  <2>1. resolution[p] \in ResolutionRecord  BY <1>1
  <2>2. st \in ResolutionStatuses  BY <1>3 DEF ResolutionStatuses
  <2>3. QED  BY <1>1, <2>1, <2>2 DEF ResolutionRecord
<1>6. ASSUME NEW p \in Plans
      PROVE  /\ resolution'[p] \in ResolutionRecord
             /\ \/ resolution'[p] = resolution[p]
                \/ /\ p \in R /\ resolution'[p].status = st /\ resolution'[p].compile = q.compile
                   /\ resolution'[p].accepted = resolution[p].accepted
  BY <1>1, <1>2, <1>5
<1>7. StoreOK'
  <2>1. resolution' \in [Plans -> ResolutionRecord]  BY <1>2, <1>6
  <2>2. compiles' \subseteq Compilation  BY <1>1, <1>2 DEF StoreOK
  <2>3. QED  BY <1>2, <2>1, <2>2 DEF StoreOK
<1>8. PlanFollowsItsChangeSet'  BY <1>2 DEF PlanFollowsItsChangeSet
<1>9. ReviewedAfterCompile'
  <2>1. ASSUME NEW p \in Plans
        PROVE  /\ resolution'[p].status = "needs-review" =>
                    /\ resolution'[p].compile.success
                    /\ resolution'[p].compile.version = resolution'[p].accepted
               /\ resolution'[p].status = "resolved" =>
                    resolution'[p].compile.success /\ resolution'[p].compile \in compiles'
    <3>1. CASE resolution'[p] = resolution[p]
      <4>1. /\ resolution[p].status = "needs-review" =>
                 resolution[p].compile.success /\ resolution[p].compile.version = resolution[p].accepted
            /\ resolution[p].status = "resolved" =>
                 resolution[p].compile.success /\ resolution[p].compile \in compiles
        BY DEF ReviewedAfterCompile
      <4>2. compiles \subseteq compiles'  BY <1>2
      <4>3. QED  BY <3>1, <4>1, <4>2
    <3>2. CASE /\ p \in R /\ resolution'[p].status = st /\ resolution'[p].compile = q.compile
               /\ resolution'[p].accepted = resolution[p].accepted
      <4>1. resolution'[p].accepted = q.compile.version  BY <1>4, <3>2
      <4>2. QED  BY <1>3, <3>2, <4>1
    <3>3. QED  BY <1>6, <3>1, <3>2
  <2>2. QED  BY <2>1 DEF ReviewedAfterCompile
<1>10. QED  BY <1>2, <1>7, <1>8, <1>9 DEF Written

-----------------------------------------------------------------------------
\* The first queued mutation runs.

LEMMA MutationWrites ==
  ASSUME TaskInv, Write
  PROVE  Written /\ UNCHANGED <<version, project>>
<1> DEFINE q == req[Head(queue)]
<1>1. StoreOK /\ PlanFollowsItsChangeSet /\ ReviewedAfterCompile  BY DEF TaskInv, TypeOK
<1>2. Head(queue) \in Handlers /\ q \in Requests /\ q.phase \in WritePhases /\ Carried(q)
  <2>1. /\ queue \in Seq(Handlers) /\ queue # <<>> /\ req \in [Handlers -> Requests \cup {Idle}]
        /\ QueueOK /\ RequestsOK
    BY DEF TaskInv, TypeOK, Write
  <2>2. Head(queue) = queue[1] /\ 1 \in DOMAIN queue /\ Head(queue) \in Handlers  BY <2>1
  <2>3. q.phase \in WritePhases  BY <2>1, <2>2 DEF QueueOK
  <2>4. Idle.phase \notin WritePhases  BY DEF Idle, WritePhases
  <2>5. q \in Requests /\ Carried(q)  BY <2>1, <2>2, <2>3, <2>4 DEF RequestsOK
  <2>6. QED  BY <2>2, <2>3, <2>5
<1>3. CASE q.phase = "start"  BY <1>1, <1>2, <1>3, SimpleWrites DEF Write
<1>4. CASE q.phase = "propose plan"  BY <1>1, <1>2, <1>4, SimpleWrites DEF Write
<1>5. CASE q.phase = "generate"  BY <1>1, <1>2, <1>5, SimpleWrites DEF Write
<1>6. CASE q.phase = "propose"  BY <1>1, <1>2, <1>6, ProposeWrites DEF Write
<1>7. CASE q.phase = "fail"  BY <1>1, <1>2, <1>7, SimpleWrites DEF Write
<1>8. CASE q.phase = "cancel"  BY <1>1, <1>2, <1>8, SimpleWrites DEF Write
<1>9. CASE q.phase = "assess"
  <2>1. q.compile.success /\ q.compile \in compiles  BY <1>2, <1>9 DEF Carried
  <2>2. Assess(q)  BY <1>9 DEF Write
  <2>3. QED  BY <1>1, <1>2, <2>1, <2>2, AssessWrites DEF Write
<1>10. CASE q.phase = "reopen"  BY <1>1, <1>2, <1>10, SimpleWrites DEF Write
<1>11. CASE q.phase = "finish"
  <2>1. q.set \in DOMAIN sets  BY <1>2, <1>11 DEF Carried
  <2>2. Finish(q)  BY <1>11 DEF Write
  <2>3. QED  BY <1>1, <1>2, <2>1, <2>2, FinishWrites DEF Write
<1>12. CASE q.phase = "rollback"
  <2>1. q.set \in DOMAIN sets  BY <1>2, <1>12 DEF Carried
  <2>2. UndoSet(q)  BY <1>12 DEF Write
  <2>3. QED  BY <1>1, <1>2, <2>1, <2>2, UndoSetWrites DEF Write
<1>13. CASE q.phase = "compile"  BY <1>1, <1>2, <1>13, RecordCompileWrites DEF Write
<1>14. QED
  BY <1>2, <1>3, <1>4, <1>5, <1>6, <1>7, <1>8, <1>9, <1>10, <1>11, <1>12, <1>13 DEF WritePhases

\* Its request ends or goes on, and the others carry what they carried.
LEMMA WriteStep ==
  ASSUME TaskInv, Write
  PROVE  TaskInv'
<1> DEFINE h == Head(queue)
           q == req[h]
           x == CASE q.phase = "start" -> [q EXCEPT !.phase = "planning"]
                  [] q.phase = "generate" -> [q EXCEPT !.phase = "generating"]
                  [] OTHER -> Idle
<1>1. Written /\ version' = version /\ project' = project  BY MutationWrites
<1>2. /\ TypeOK /\ StoreOK /\ QueueOK /\ RequestsOK
      /\ queue \in Seq(Handlers) /\ queue # <<>> /\ req \in [Handlers -> Requests \cup {Idle}]
  BY DEF TaskInv, TypeOK, Write
<1>3. queue' = Tail(queue) /\ req' = [req EXCEPT ![h] = x]  BY DEF Write, Becomes
<1>4. /\ h = queue[1] /\ h \in Handlers /\ 1 \in DOMAIN queue /\ Len(queue) \in Nat \ {0}
      /\ DOMAIN queue = 1 .. Len(queue) /\ queue' \in Seq(Handlers)
      /\ DOMAIN queue' = 1 .. Len(queue) - 1
      /\ \A i \in DOMAIN queue' : queue'[i] = queue[i + 1] /\ queue[i + 1] \in Handlers
  BY <1>2, <1>3
<1>5. q.phase \in WritePhases  BY <1>2, <1>4 DEF QueueOK
<1>6. Idle.phase = "idle" /\ "idle" \notin WritePhases  BY DEF Idle, WritePhases
<1>7. q \in Requests  BY <1>2, <1>4, <1>5, <1>6
<1>8. x \in Requests \cup {Idle} /\ x.phase \in {"planning", "generating", "idle"}
  <2>1. ASSUME NEW next \in {"planning", "generating"}
        PROVE  [q EXCEPT !.phase = next] \in Requests /\ [q EXCEPT !.phase = next].phase = next
    <3>1. next \in WritePhases \cup WaitPhases  BY DEF WaitPhases
    <3> HIDE DEF q
    <3>2. QED  BY <1>7, <3>1, RequestGoes
  <2>2. CASE q.phase = "start"  BY <2>1, <2>2
  <2>3. CASE q.phase = "generate"  BY <2>1, <2>3
  <2>4. CASE q.phase \notin {"start", "generate"}
    <3>1. x = Idle  BY <2>4
    <3>2. QED  BY <1>6, <3>1
  <2>5. QED  BY <2>2, <2>3, <2>4
<1> HIDE DEF x, q
<1>9. req'[h] = x /\ \A g \in Handlers \ {h} : req'[g] = req[g]  BY <1>2, <1>3, <1>4
<1>10. TypeOK'
  <2>1. req' \in [Handlers -> Requests \cup {Idle}]  BY <1>2, <1>3, <1>8
  <2>2. QED  BY <1>1, <1>2, <1>4, <2>1 DEF TypeOK, Written
<1>11. QueueOK'
  <2>1. ASSUME NEW i \in DOMAIN queue' PROVE i + 1 \in DOMAIN queue /\ queue[i + 1] # h
    BY <1>2, <1>4 DEF QueueOK
  <2>2. ASSUME NEW i \in DOMAIN queue' PROVE req'[queue'[i]].phase \in WritePhases
    BY <1>2, <1>4, <1>9, <2>1 DEF QueueOK
  <2>3. ASSUME NEW i \in DOMAIN queue', NEW j \in DOMAIN queue', queue'[i] = queue'[j] PROVE i = j
    BY <1>2, <1>4, <2>1, <2>3 DEF QueueOK
  <2>4. QED  BY <2>2, <2>3 DEF QueueOK
<1>12. RequestsOK'
  <2>1. DOMAIN sets \subseteq DOMAIN sets' /\ compiles \subseteq compiles'  BY <1>1 DEF Written
  <2>2. ASSUME NEW g \in Handlers
        PROVE  /\ req'[g].phase \in {"finish", "rollback"} => req'[g].set \in DOMAIN sets'
               /\ req'[g].phase \in {"rereviewing", "assess"} =>
                    req'[g].compile.success /\ req'[g].compile \in compiles'
    <3>1. CASE g = h  BY <1>8, <1>9, <3>1 DEF Carried
    <3>2. CASE g # h
      <4>1. req'[g] = req[g] /\ Carried(req[g])  BY <1>2, <1>9, <3>2 DEF RequestsOK
      <4>2. QED  BY <2>1, <4>1 DEF Carried
    <3>3. QED  BY <3>1, <3>2
  <2>3. QED  BY <2>2 DEF RequestsOK, Carried
<1>13. QED  BY <1>1, <1>10, <1>11, <1>12 DEF TaskInv, Written

-----------------------------------------------------------------------------
LEMMA SaveStep ==
  ASSUME TaskInv, NEW f \in Files, UserSaves(f)
  PROVE  TaskInv'
<1>1. TypeOK /\ QueueOK /\ RequestsOK /\ PlanFollowsItsChangeSet /\ ReviewedAfterCompile
  BY DEF TaskInv
<1>2. /\ version' = [version EXCEPT ![f] = @ + 1] /\ project' = project + 1
      /\ UNCHANGED <<store, req, queue>>
  BY DEF UserSaves
<1>3. /\ plan' = plan /\ resolution' = resolution /\ sets' = sets /\ compiles' = compiles
      /\ req' = req /\ queue' = queue
  BY <1>2 DEF store
<1>4. TypeOK'  BY <1>1, <1>2, <1>3 DEF TypeOK, StoreOK
<1>5. QueueOK' /\ RequestsOK'  BY <1>1, <1>3 DEF QueueOK, RequestsOK, Carried
<1>6. PlanFollowsItsChangeSet' /\ ReviewedAfterCompile'
  BY <1>1, <1>3 DEF PlanFollowsItsChangeSet, ReviewedAfterCompile
<1>7. QED  BY <1>4, <1>5, <1>6 DEF TaskInv

LEMMA CrashStep ==
  ASSUME TaskInv, Crash
  PROVE  TaskInv'
<1>1. TypeOK /\ PlanFollowsItsChangeSet /\ ReviewedAfterCompile  BY DEF TaskInv
<1>2. /\ req' = [h \in Handlers |-> Idle] /\ queue' = <<>> /\ version' = version
      /\ project' = project /\ plan' = plan /\ resolution' = resolution /\ sets' = sets
      /\ compiles' = compiles
  BY DEF Crash, store
<1>3. TypeOK'  BY <1>1, <1>2 DEF TypeOK, StoreOK
<1>4. QueueOK'  BY <1>2 DEF QueueOK
<1>5. RequestsOK'  BY <1>2 DEF RequestsOK, Carried, Idle
<1>6. PlanFollowsItsChangeSet' /\ ReviewedAfterCompile'
  BY <1>1, <1>2 DEF PlanFollowsItsChangeSet, ReviewedAfterCompile
<1>7. QED  BY <1>3, <1>4, <1>5, <1>6 DEF TaskInv

LEMMA TaskInvInitially == Init => TaskInv
<1> SUFFICES ASSUME Init PROVE TaskInv
  OBVIOUS
<1>1. NoCompile \in Compilation  BY DEF NoCompile, Compilation
<1>2. TypeOK
  <2>1. StoreOK
    BY <1>1 DEF Init, StoreOK, PlanRecord, PlanStatuses, ResolutionRecord, ResolutionStatuses
  <2>2. QED  BY <2>1 DEF Init, TypeOK
<1>3. QueueOK /\ RequestsOK  BY DEF Init, QueueOK, RequestsOK, Carried, Idle
<1>4. PlanFollowsItsChangeSet /\ ReviewedAfterCompile
  BY DEF Init, PlanFollowsItsChangeSet, ReviewedAfterCompile
<1>5. QED  BY <1>2, <1>3, <1>4 DEF TaskInv

LEMMA TaskInvAlways == Spec => []TaskInv
<1>1. Init => TaskInv  BY TaskInvInitially
<1>2. TaskInv /\ [Next]_vars => TaskInv'
  <2> SUFFICES ASSUME TaskInv, [Next]_vars PROVE TaskInv'
    OBVIOUS
  <2>1. ASSUME NEW h \in Handlers, Calls(h) PROVE TaskInv'  BY <2>1, CallsStep
  <2>2. ASSUME NEW h \in Handlers, Proceeds(h) PROVE TaskInv'  BY <2>2, ProceedsStep
  <2>3. ASSUME NEW f \in Files, UserSaves(f) PROVE TaskInv'  BY <2>3, SaveStep
  <2>4. CASE Write  BY <2>4, WriteStep
  <2>5. CASE Crash  BY <2>5, CrashStep
  <2>6. CASE UNCHANGED vars
    BY <2>6 DEF vars, store, TaskInv, TypeOK, StoreOK, QueueOK, RequestsOK, Carried,
                PlanFollowsItsChangeSet, ReviewedAfterCompile
  <2>7. QED  BY <2>1, <2>2, <2>3, <2>4, <2>5, <2>6 DEF Next
<1>3. QED  BY <1>1, <1>2, PTL DEF Spec

\* However confirmations, cancellations, reviews, rollbacks and crashes interleave, a
\* plan waiting for approval has a proposed ChangeSet and an accepted plan the accepted
\* one (confirm, finishReview, rollback, fail).
THEOREM PlansFollowChangeSets == Spec => []PlanFollowsItsChangeSet
<1>1. TaskInv => PlanFollowsItsChangeSet  BY DEF TaskInv
<1>2. QED  BY <1>1, TaskInvAlways, PTL

\* A resolution waits for its re-review only after the accepted version compiled, and
\* is resolved only on a recorded successful compilation (compile-results, rereview).
THEOREM ReviewsFollowCompiles == Spec => []ReviewedAfterCompile
<1>1. TaskInv => ReviewedAfterCompile  BY DEF TaskInv
<1>2. QED  BY <1>1, TaskInvAlways, PTL
=============================================================================
