-------------------------- MODULE ReferencePapers --------------------------
(***************************************************************************)
(* ReferencePaperService (server/references/service.ts): one uploaded      *)
(* paper, parsed in the background from the entry file a user chose.       *)
(* Parsing again cancels the old job and raises the parse revision; only   *)
(* that revision keeps late results out and tells users of the parsed text *)
(* (selections in the project's settings) that it changed.                 *)
(*                                                                         *)
(* One action per mutation of the database or per stretch between two      *)
(* awaits.  The job queue is taken as what it does to these jobs: a        *)
(* cancelled job's signal aborts, one interrupted by a crash never runs    *)
(* again, a queued one is launched by initialize().                        *)
(***************************************************************************)
EXTENDS Naturals, FiniteSets

CONSTANTS Callers, Entries,
          None,
          MaxJobs, MaxRevision, MaxSettings, MaxCrashes   \* bounds

VARIABLES
  paper,     \* the stored record; its text is named by the entry it was parsed from
  files,     \* parsed-<revision>.json in the paper's directory: revision -> entry
  settings,  \* the project's reference settings, with one selection or None
  job,       \* the reference.parse jobs of the paper
  call,      \* the requests under way
  crashes

vars == <<paper, files, settings, job, call, crashes>>

Idle == [at |-> "idle"]
NoJob == [status |-> "none", revision |-> 0, started |-> FALSE, at |-> "idle",
          entry |-> None, recorded |-> FALSE]
Jobs == 1..MaxJobs
Present == paper.status \notin {"none", "removed"}
Cancelled(j) == IF j.status \in {"queued", "running"} THEN [j EXCEPT !.status = "cancelled"] ELSE j

Init ==
  /\ paper = [status |-> "none", revision |-> 1, entry |-> None, job |-> 0, text |-> None]
  /\ files = [r \in 1..MaxRevision |-> None]
  /\ settings = [revision |-> 0, selection |-> None]
  /\ job = [j \in Jobs |-> NoJob]
  /\ call = [c \in Callers |-> Idle]
  /\ crashes = 0

Goes(c, to) == call' = [call EXCEPT ![c] = to]
Ends(c) == Goes(c, Idle)

-----------------------------------------------------------------------------
\* upload: the new record; with one candidate parsing starts at once, with several
\* the user has to choose.
Upload(c) ==
  /\ call[c] = Idle /\ paper.status = "none"
  /\ \/ \E e \in Entries :
          /\ paper' = [paper EXCEPT !.status = "parsing", !.entry = e]
          /\ Goes(c, [at |-> "starting", entry |-> None])
     \/ /\ paper' = [paper EXCEPT !.status = "needs-input"]
        /\ Ends(c)
  /\ UNCHANGED <<files, settings, job, crashes>>

\* startParse, up to its first await: the paper's known job is cancelled.
StartParse(c) ==
  /\ call[c] = Idle /\ Present
  /\ \E e \in Entries \cup {None} :
       /\ e # None \/ paper.entry # None
       /\ Goes(c, [at |-> "starting", entry |-> e])
  /\ job' = [j \in Jobs |-> IF j = paper.job THEN Cancelled(job[j]) ELSE job[j]]
  /\ UNCHANGED <<paper, files, settings, crashes>>

\* A paper that was parsed, or is about to be by a job it knows of, gets a new revision.
Outdates == paper.job # 0 \/ paper.text # None \/ paper.status = "failed"

\* Its first mutation; a paper removed meanwhile makes it throw.
Marks(c) ==
  /\ call[c].at = "starting"
  /\ IF ~Present THEN Ends(c) /\ UNCHANGED <<paper, settings>>
     ELSE /\ Outdates => paper.revision < MaxRevision
          /\ paper' = [paper EXCEPT
               !.entry = IF call[c].entry # None THEN call[c].entry ELSE @,
               !.revision = IF Outdates THEN @ + 1 ELSE @,
               !.status = "parsing"]
          /\ settings' = IF settings.selection # None
                         THEN [settings EXCEPT !.selection = None, !.revision = @ + 1]
                         ELSE settings
          /\ Goes(c, [at |-> "enqueueing"])
  /\ UNCHANGED <<files, job, crashes>>

\* The job is for the revision the paper has now.  A full queue marks it failed.
Enqueues(c) ==
  /\ call[c].at = "enqueueing"
  /\ \/ /\ Present
        /\ \E j \in Jobs :
             /\ job[j] = NoJob /\ \A i \in 1..(j - 1) : job[i] # NoJob
             /\ job' = [job EXCEPT ![j] = [NoJob EXCEPT !.status = "queued",
                                                        !.revision = paper.revision]]
             /\ Goes(c, [at |-> "recording", job |-> j])
     \/ /\ Present
        /\ Goes(c, [at |-> "failing", revision |-> paper.revision])
        /\ UNCHANGED job
     \/ ~Present /\ Ends(c) /\ UNCHANGED job
  /\ UNCHANGED <<paper, files, settings, crashes>>

\* markFailed: nothing, unless the paper still has the revision that failed.
MarkFailed(revision) ==
  paper' = IF Present /\ paper.revision = revision
           THEN [paper EXCEPT !.status = "failed"] ELSE paper

CallFails(c) ==
  /\ call[c].at = "failing"
  /\ MarkFailed(call[c].revision)
  /\ Ends(c)
  /\ UNCHANGED <<files, settings, job, crashes>>

\* The second mutation stores the job's id; then the job is started, unless it was
\* cancelled in between.
Records(c) ==
  /\ call[c].at = "recording"
  /\ LET j == call[c].job IN
       /\ paper' = IF Present THEN [paper EXCEPT !.job = j] ELSE paper
       /\ job' = [job EXCEPT ![j].started = TRUE, ![j].recorded = TRUE]
  /\ Ends(c)
  /\ UNCHANGED <<files, settings, crashes>>

-----------------------------------------------------------------------------
\* parse, from its start to the first await: what it will parse is fixed.
JobBegins(j) ==
  /\ job[j].status = "queued" /\ job[j].started /\ job[j].at = "idle"
  /\ job' = [job EXCEPT ![j].status = "running",
                        ![j].entry = paper.entry,
                        ![j].at = IF Present /\ paper.revision = job[j].revision
                                  THEN "reading" ELSE "failing"]
  /\ UNCHANGED <<paper, files, settings, call, crashes>>

\* The text is extracted and written to a temporary file; the checks before the rename.
Current(j) ==
  /\ job[j].status # "cancelled"
  /\ Present /\ paper.revision = job[j].revision

Extracts(j) ==
  /\ job[j].at = "reading"
  /\ \E ok \in {Current(j), FALSE} :
       job' = [job EXCEPT ![j].at = IF ok THEN "renaming" ELSE "failing"]
  /\ UNCHANGED <<paper, files, settings, call, crashes>>

\* The rename fails when the paper's directory is gone.
Renames(j) ==
  /\ job[j].at = "renaming"
  /\ IF paper.status = "removed" /\ \A c \in Callers : call[c].at # "cleaning"
     THEN job' = [job EXCEPT ![j].at = "failing"] /\ UNCHANGED files
     ELSE /\ job' = [job EXCEPT ![j].at = "storing"]
          /\ files' = [files EXCEPT ![job[j].revision] = job[j].entry]
  /\ UNCHANGED <<paper, settings, call, crashes>>

\* MUTANT: the last mutation finds the paper by its id alone
StoresMutant(j) ==
  /\ job[j].at = "storing"
  /\ IF job[j].status # "cancelled" /\ Present
     THEN /\ paper' = [paper EXCEPT !.status = "ready", !.text = job[j].entry]
          /\ job' = [job EXCEPT ![j].at = "idle", ![j].entry = None,
                               ![j].status = "completed"]
     ELSE job' = [job EXCEPT ![j].at = "failing"] /\ UNCHANGED paper
  /\ UNCHANGED <<files, settings, call, crashes>>

Stores(j) ==
  /\ job[j].at = "storing"
  /\ IF Current(j)
     THEN /\ paper' = [paper EXCEPT !.status = "ready", !.text = job[j].entry]
          /\ job' = [job EXCEPT ![j].at = "idle", ![j].entry = None,
                               ![j].status = "completed"]
     ELSE job' = [job EXCEPT ![j].at = "failing"] /\ UNCHANGED paper
  /\ UNCHANGED <<files, settings, call, crashes>>

JobFails(j) ==
  /\ job[j].at = "failing"
  /\ MarkFailed(job[j].revision)
  /\ job' = [job EXCEPT ![j].at = "idle", ![j].entry = None,
                        ![j].status = IF @ = "cancelled" THEN @ ELSE "failed"]
  /\ UNCHANGED <<files, settings, call, crashes>>

-----------------------------------------------------------------------------
\* saveSettings validates the selection against the paper, then stores it if the
\* settings are still those the user edited.
Chooses(c) ==
  /\ call[c] = Idle /\ paper.status = "ready"
  /\ Goes(c, [at |-> "selecting", revision |-> settings.revision,
              selection |-> [revision |-> paper.revision, text |-> paper.text]])
  /\ UNCHANGED <<paper, files, settings, job, crashes>>

SavesSettings(c) ==
  /\ call[c].at = "selecting" /\ settings.revision < MaxSettings
  /\ settings' = IF settings.revision = call[c].revision
                 THEN [revision |-> settings.revision + 1, selection |-> call[c].selection]
                 ELSE settings
  /\ Ends(c)
  /\ UNCHANGED <<paper, files, job, crashes>>

\* remove: the mutation, then the jobs are cancelled and the directory deleted.
Remove(c) ==
  /\ call[c] = Idle /\ Present
  /\ paper' = [paper EXCEPT !.status = "removed"]
  /\ settings' = IF settings.revision = 0 THEN settings
                 ELSE [settings EXCEPT !.selection = None, !.revision = @ + 1]
  /\ Goes(c, [at |-> "cleaning"])
  /\ UNCHANGED <<files, job, crashes>>

Cleans(c) ==
  /\ call[c].at = "cleaning"
  /\ job' = [j \in Jobs |-> Cancelled(job[j])]
  /\ files' = [r \in 1..MaxRevision |-> None]
  /\ Ends(c)
  /\ UNCHANGED <<paper, settings, crashes>>

\* A crash and the restart: initialize launches the queued jobs; a running one is
\* queued again with its only attempt counted, and never runs (see JobQueue).
Restarted(j) ==
  IF j.status = "queued" THEN [j EXCEPT !.started = TRUE, !.at = "idle"]
  ELSE [j EXCEPT !.status = IF @ = "running" THEN "stuck" ELSE @, !.at = "idle", !.entry = None]

Crash ==
  /\ crashes < MaxCrashes /\ crashes' = crashes + 1
  /\ call' = [c \in Callers |-> Idle]
  /\ job' = [j \in Jobs |-> Restarted(job[j])]
  /\ UNCHANGED <<paper, files, settings>>

Next ==
  \/ \E c \in Callers :
       \/ Upload(c) \/ StartParse(c) \/ Marks(c) \/ Enqueues(c) \/ CallFails(c) \/ Records(c)
       \/ Chooses(c) \/ SavesSettings(c) \/ Remove(c) \/ Cleans(c)
  \/ \E j \in Jobs : JobBegins(j) \/ Extracts(j) \/ Renames(j) \/ Stores(j) \/ JobFails(j)
  \/ Crash

Spec == Init /\ [][Next]_vars

-----------------------------------------------------------------------------
\* A job that a crash cut off from its paper: queued, launched again by the restart,
\* and unknown to the paper, whose next parse then neither cancels nor outdates it.
Forgotten ==
  \E j \in Jobs : job[j].started /\ ~job[j].recorded /\ job[j].revision = paper.revision

\* A paper that is ready shows the text of the entry it names, and the file of its
\* revision holds that text.
ReadyIsCurrent ==
  paper.status = "ready" /\ ~Forgotten =>
    paper.text = paper.entry /\ files[paper.revision] = paper.text

\* A selection that still passes validation speaks of the text it was made from.
SelectionsKeepTheirText ==
  LET s == settings.selection IN
  paper.status = "ready" /\ ~Forgotten /\ s # None /\ s.revision = paper.revision =>
    s.text = paper.text

\* Both: what a user sees as ready is what the entry says and selections meant.
PapersAgree == ReadyIsCurrent /\ SelectionsKeepTheirText
=============================================================================
