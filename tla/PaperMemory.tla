---------------------------- MODULE PaperMemory ----------------------------
(***************************************************************************)
(* MemoryService (server/agent/memory-service.ts): versions of what the    *)
(* agents know of a paper, extracted by a provider and reviewed by users,  *)
(* and the file memory.md that mirrors the latest one beside the users'    *)
(* own instructions.                                                       *)
(*                                                                         *)
(* A memory is one entry (the overview; sections and facts follow the same *)
(* rules): its text, whether a user vouched for it (kept: locked or edited *)
(* by hand), and a regenerated candidate for a kept text.  Every operation *)
(* works on a copy of the latest memory, stores a new version and mirrors  *)
(* it; between these steps other requests run.                             *)
(***************************************************************************)
EXTENDS Naturals, Sequences, FiniteSets, SequencesExt

CONSTANTS Callers, Texts, Instructions,
          None,
          MaxMemories, MaxFileVersion   \* bounds

VARIABLES
  memories,  \* paperMemories of the project, in the order they were stored
  file,      \* memory.md: version (0 while it does not exist), instructions, context
  call,      \* the requests under way
  by         \* history: the kind of request that stored each memory

vars == <<memories, file, call, by>>

Idle == [at |-> "idle"]
NoFile == [version |-> 0, instructions |-> None, context |-> None]

Init ==
  /\ memories = <<>> /\ by = <<>>
  /\ file = NoFile
  /\ call = [c \in Callers |-> Idle]

\* latestStored: sorted by falling version; of equal versions the one stored first.
Newest(ms) ==
  CHOOSE i \in DOMAIN ms :
    \A k \in DOMAIN ms : ms[k].version < ms[i].version \/ (ms[k].version = ms[i].version /\ i <= k)

\* MUTANT: of equal versions the one stored last
LatestMutant(ms) ==
  ms[CHOOSE i \in DOMAIN ms :
       \A k \in DOMAIN ms : ms[k].version < ms[i].version \/ (ms[k].version = ms[i].version /\ k <= i)]

Latest(ms) == ms[Newest(ms)]
LatestVersion == IF memories = <<>> THEN 0 ELSE Latest(memories).version
Second(ms) == Latest(RemoveAt(ms, Newest(ms)))

Goes(c, to) == call' = [call EXCEPT ![c] = to]
Saving(kind, memory) == [at |-> "saving", kind |-> kind, memory |-> memory]
\* saveVersion: the number is taken before the mutation is queued.
Version(memory) == [memory EXCEPT !.version = LatestVersion + 1]
Room == Len(memories) + Cardinality({c \in Callers : call[c].at = "saving"}) < MaxMemories

-----------------------------------------------------------------------------
\* extract: after the provider's calls it reconciles what it got with the memory that
\* is the latest by then.
Extract(c) ==
  /\ call[c] = Idle
  /\ Goes(c, [at |-> "extracting"])
  /\ UNCHANGED <<memories, file, by>>

Reconciled(text) ==
  IF memories # <<>> /\ Latest(memories).kept
  THEN LET m == Latest(memories) IN
       [m EXCEPT !.candidate = IF m.text = text THEN None ELSE text]
  ELSE [version |-> 0, text |-> text, kept |-> FALSE, candidate |-> None]

Extracted(c) ==
  /\ call[c].at = "extracting" /\ Room
  /\ \E t \in Texts : Goes(c, Saving("extract", Version(Reconciled(t))))
  /\ UNCHANGED <<memories, file, by>>

\* updateOverview, updateSection, updateItem: the copy is taken before the text is
\* polished, the version after it.  A summary's candidate goes with the old text.
Update(c) ==
  /\ call[c] = Idle /\ memories # <<>>
  /\ Goes(c, [at |-> "polishing", memory |-> Latest(memories)])
  /\ UNCHANGED <<memories, file, by>>

Polished(c) ==
  /\ call[c].at = "polishing" /\ Room
  /\ \E t \in Texts :
       Goes(c, Saving("update", Version([call[c].memory EXCEPT
                                !.text = t, !.kept = TRUE, !.candidate = None])))
  /\ UNCHANGED <<memories, file, by>>

\* accept...Candidate
Accept(c) ==
  /\ call[c] = Idle /\ memories # <<>> /\ Latest(memories).candidate # None /\ Room
  /\ LET m == Latest(memories) IN
       Goes(c, Saving("accept", Version([m EXCEPT !.text = m.candidate, !.kept = TRUE,
                                                  !.candidate = None])))
  /\ UNCHANGED <<memories, file, by>>

\* applyReviewed: everything that is proposed is accepted in one action.
ApplyReviewed(c) ==
  /\ call[c] = Idle /\ memories # <<>> /\ Room
  /\ LET m == Latest(memories) IN
       Goes(c, Saving("apply", Version([m EXCEPT
         !.text = IF m.candidate # None THEN m.candidate ELSE @, !.kept = TRUE,
         !.candidate = None])))
  /\ UNCHANGED <<memories, file, by>>

Rollback(c) ==
  /\ call[c] = Idle /\ Len(memories) >= 2 /\ Room
  /\ Goes(c, Saving("rollback", Version(Second(memories))))
  /\ UNCHANGED <<memories, file, by>>

\* A provider or the polishing fails, or the request is aborted.
ProviderFails(c) ==
  /\ call[c].at \in {"extracting", "polishing"}
  /\ Goes(c, Idle)
  /\ UNCHANGED <<memories, file, by>>

-----------------------------------------------------------------------------
\* The mutation appends the memory ...
Stored(c) ==
  /\ call[c].at = "saving"
  /\ memories' = Append(memories, call[c].memory)
  /\ by' = Append(by, call[c].kind)
  /\ Goes(c, [at |-> "mirroring", kind |-> call[c].kind, memory |-> call[c].memory])
  /\ UNCHANGED file

\* ... and syncFile mirrors it: a candidate shows what is proposed, a reviewed memory
\* only what is kept; the instructions are copied from the file it read.
Context(kind, m) ==
  IF kind = "extract" THEN IF m.candidate # None THEN m.candidate ELSE m.text
  ELSE IF m.kept THEN m.text ELSE None

ReadsFile(c) ==
  /\ call[c].at = "mirroring"
  /\ Goes(c, [at |-> "writing",
              seen |-> [file EXCEPT !.context = Context(call[c].kind, call[c].memory)]])
  /\ UNCHANGED <<memories, file, by>>

UnchangedSince(seen) == file.version = seen.version

\* createFile refuses a file that exists, saveTextFile one that changed: the request
\* then ends with a conflict, its memory stored and not mirrored.
WritesFile(c) ==
  /\ call[c].at = "writing" /\ file.version < MaxFileVersion
  /\ file' = IF UnchangedSince(call[c].seen)
             THEN [call[c].seen EXCEPT !.version = file.version + 1] ELSE file
  /\ Goes(c, Idle)
  /\ UNCHANGED <<memories, by>>

\* Users write their instructions into memory.md, or create it.
UserWrites ==
  /\ file.version < MaxFileVersion
  /\ \E i \in Instructions :
       /\ i # file.instructions
       /\ file' = [file EXCEPT !.version = @ + 1, !.instructions = i]
  /\ UNCHANGED <<memories, call, by>>

\* A crash forgets the requests; what they stored stays.
Crash ==
  /\ \E c \in Callers : call[c] # Idle
  /\ call' = [c \in Callers |-> Idle]
  /\ UNCHANGED <<memories, file, by>>

Next ==
  \/ \E c \in Callers :
       \/ Extract(c) \/ Extracted(c) \/ Update(c) \/ Polished(c) \/ Accept(c)
       \/ ApplyReviewed(c) \/ Rollback(c) \/ ProviderFails(c)
       \/ Stored(c) \/ ReadsFile(c) \/ WritesFile(c)
  \/ UserWrites \/ Crash

Spec == Init /\ [][Next]_vars

-----------------------------------------------------------------------------
\* No extraction, however long it ran and whatever was saved meanwhile, changes a
\* text that users vouched for; and no mirroring undoes the users' instructions.
UsersWordsStay ==
  [][ /\ memories # <<>> /\ memories' # memories /\ Last(by') = "extract"
           /\ Latest(memories).kept
           => Latest(memories').kept /\ Latest(memories').text = Latest(memories).text
      /\ file'.instructions # file.instructions => call' = call /\ memories' = memories ]_vars
=============================================================================
