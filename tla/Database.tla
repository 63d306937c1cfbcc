------------------------------ MODULE Database ------------------------------
(***************************************************************************)
(* JsonDatabase (apps/server/src/storage/database.ts): the whole state in  *)
(* memory, mutations one after the other, and a flush of the whole state   *)
(* to one file after each of them.  With a PostgreSQL cutover the state is *)
(* committed there first and the file is a cache of it; but a server that  *)
(* cannot reach PostgreSQL when it starts runs on the file alone, unless   *)
(* FASTWRITE_POSTGRES_REQUIRED forbids it.                                 *)
(*                                                                         *)
(* A state of the database is the sequence of mutations it contains.       *)
(* Several processes may open one data directory; the write lock and the   *)
(* comparison with the file keep them from undoing each other.             *)
(***************************************************************************)
EXTENDS Naturals, Sequences, FiniteSets, SequencesExt

CONSTANTS Processes, Mutations,
          Modes,          \* subset of {"file", "cutover"}
          NoFile,         \* the file, or the row of PostgreSQL, does not exist
          MaxFailures     \* bound: failing calls and crashes together

ASSUME DatabaseAssumption ==
  /\ IsFiniteSet(Processes) /\ IsFiniteSet(Mutations) /\ Processes \cap Mutations = {}
  /\ Modes \subseteq {"file", "cutover"} /\ Modes # {}
  /\ NoFile \notin Seq(Mutations) /\ MaxFailures \in Nat

VARIABLES mode,       \* whether PostgreSQL is to be the primary
          file,       \* database.json
          lock,       \* does database.json.write.lock exist?
          primary,    \* the row of PostgreSQL
          life,       \* of each process: down, booting, seeding, up
          attached,   \* has the process PostgreSQL as its primary (primaryPersistence)?
          mem,        \* this.state
          persisted,  \* persistedContents: what the process last saw in the file
          queue,      \* the mutation queue
          now,        \* the operation at the head of it, and where it stands
          acked, refused,
          strayed,    \* acknowledged by a server on the file alone, beside a row
          failures

vars == <<mode, file, lock, primary, life, attached, mem, persisted, queue, now,
          acked, refused, strayed, failures>>
answers == <<acked, refused, strayed>>
world == <<file, lock, primary>>

Idle == [phase |-> "idle"]
States == Seq(Mutations)
Stored(f) == IF f = NoFile THEN <<>> ELSE f

\* A flush that begins: it will write s; m is the mutation it belongs to, or the
\* process that boots; before is the state to return to when it fails.
Flush(m, s, before) == [phase |-> "lock", m |-> m, state |-> s, before |-> before, ok |-> TRUE]

Submitted == {m \in Mutations : m \in acked \cup refused
                 \/ \E p \in Processes : \/ m \in Range(queue[p])
                                         \/ now[p] # Idle /\ now[p].m = m}

-----------------------------------------------------------------------------
\* initialize: read the file; when there is none, flush the empty state.  In a
\* cutover the server then connects to PostgreSQL and replaceState puts the state
\* of its row into the file; the two flushes of a first start count as one.  When
\* the connection fails and is not required, the server goes on without a primary
\* (configuredPostgresRepository).  lockDataDirectory lets only one server open the
\* directory; the others are tools and tests, which use no PostgreSQL.
Start(p) ==
  /\ life[p] = "down" /\ (mode = "cutover" => \A q \in Processes : life[q] = "down")
  /\ persisted' = [persisted EXCEPT ![p] = file]
  /\ \E connects \in {c \in BOOLEAN : c => mode = "cutover"} :
       LET replaces == connects /\ primary # NoFile
           boots == file = NoFile \/ replaces
           s == IF replaces THEN primary ELSE Stored(file) IN
         /\ attached' = [attached EXCEPT ![p] = connects]
         /\ mem' = [mem EXCEPT ![p] = s]
         /\ now' = [now EXCEPT ![p] = IF boots THEN Flush(p, s, s) ELSE Idle]
         /\ life' = [life EXCEPT ![p] = IF boots THEN "booting"
                                        ELSE IF connects THEN "seeding" ELSE "up"]
  /\ UNCHANGED <<mode, world, queue, answers, failures>>

\* persistToPostgres at the end of a start: memory becomes the row.  Where there is
\* a row already it is what memory came from, and writing it changes nothing.
Seed(p) ==
  /\ life[p] = "seeding"
  /\ primary' = mem[p]
  /\ life' = [life EXCEPT ![p] = "up"]
  /\ UNCHANGED <<mode, file, lock, attached, mem, persisted, queue, now, answers, failures>>

Submit(p, m) ==
  /\ life[p] = "up" /\ m \notin Submitted
  /\ \A q \in Processes : m \notin Range(mem[q])    \* a mutation is used once
  /\ m \notin Range(Stored(file)) \cup Range(Stored(primary))
  /\ queue' = [queue EXCEPT ![p] = Append(@, m)]
  /\ UNCHANGED <<mode, world, life, attached, mem, persisted, now, answers, failures>>

\* applyMutation: a primary commits first; the flush serialises
\* the state when it is called, and readers see it from then on.
Begin(p) ==
  /\ life[p] = "up" /\ now[p] = Idle /\ queue[p] # <<>>
  /\ LET m == Head(queue[p])
         next == Append(mem[p], m) IN
       IF attached[p]
       THEN /\ now' = [now EXCEPT ![p] = [Flush(m, next, mem[p]) EXCEPT !.phase = "primary"]]
            /\ UNCHANGED mem
       ELSE /\ now' = [now EXCEPT ![p] = Flush(m, next, mem[p])]
            /\ mem' = [mem EXCEPT ![p] = next]
  /\ queue' = [queue EXCEPT ![p] = Tail(@)]
  /\ UNCHANGED <<mode, world, life, attached, persisted, answers, failures>>

\* The guard, the mutation itself or enforceCapacity throws.
Throws(p) ==
  /\ life[p] = "up" /\ now[p] = Idle /\ queue[p] # <<>>
  /\ refused' = refused \cup {Head(queue[p])}
  /\ queue' = [queue EXCEPT ![p] = Tail(@)]
  /\ UNCHANGED <<mode, world, life, attached, mem, persisted, now, acked, strayed, failures>>

PrimaryCommits(p) ==
  /\ now[p].phase = "primary"
  /\ primary' = now[p].state
  /\ now' = [now EXCEPT ![p].phase = "committed"]
  /\ UNCHANGED <<mode, file, lock, life, attached, mem, persisted, queue, answers, failures>>

PrimaryReplies(p) ==
  /\ now[p].phase = "committed"
  /\ mem' = [mem EXCEPT ![p] = now[p].state]
  \* nothing is put back once the primary has committed
  /\ now' = [now EXCEPT ![p].phase = "lock", ![p].before = now[p].state]
  /\ UNCHANGED <<mode, world, life, attached, persisted, queue, answers, failures>>

-----------------------------------------------------------------------------
\* flush.  The lock file is created only if there is none.
TakeLockMutant(p) ==    \* creates or opens it
  /\ now[p].phase = "lock"
  /\ lock' = TRUE
  /\ now' = [now EXCEPT ![p].phase = "compare"]
  /\ UNCHANGED <<mode, file, primary, life, attached, mem, persisted, queue, answers, failures>>
TakeLock(p) ==
  /\ now[p].phase = "lock" /\ ~lock
  /\ lock' = TRUE
  /\ now' = [now EXCEPT ![p].phase = "compare"]
  /\ UNCHANGED <<mode, file, primary, life, attached, mem, persisted, queue, answers, failures>>

CompareMutant(p) ==    \* writes whatever the file holds
  /\ now[p].phase = "compare"
  /\ now' = [now EXCEPT ![p].phase = "rename"]
  /\ UNCHANGED <<mode, world, life, attached, mem, persisted, queue, answers, failures>>
Compare(p) ==
  /\ now[p].phase = "compare"
  /\ now' = [now EXCEPT ![p] = IF file = persisted[p] THEN [@ EXCEPT !.phase = "rename"]
                               ELSE [@ EXCEPT !.phase = "unlock", !.ok = FALSE]]
  /\ UNCHANGED <<mode, world, life, attached, mem, persisted, queue, answers, failures>>

Rename(p) ==
  /\ now[p].phase = "rename"
  /\ file' = now[p].state
  /\ persisted' = [persisted EXCEPT ![p] = now[p].state]
  /\ now' = [now EXCEPT ![p].phase = "unlock"]
  /\ UNCHANGED <<mode, lock, primary, life, attached, mem, queue, answers, failures>>

\* The operation ends: a mutation is answered, a process that boots is up, or has
\* the row to write first, or, if its flush failed, is down again.
Answers(p, m, ok) ==
  /\ acked' = IF m \in Mutations /\ ok THEN acked \cup {m} ELSE acked
  /\ refused' = IF m \in Mutations /\ ~ok THEN refused \cup {m} ELSE refused
  /\ strayed' = IF m \in Mutations /\ ok /\ mode = "cutover" /\ ~attached[p] /\ primary # NoFile
                THEN strayed \cup {m} ELSE strayed
SettlesMutant(p, ok) ==    \* memory is not put back
  /\ now' = [now EXCEPT ![p] = Idle]
  /\ UNCHANGED <<mem, life>>
  /\ Answers(p, now[p].m, ok)
Settles(p, ok) ==
  LET q == IF life[p] # "booting" THEN life[p]
           ELSE IF ~ok THEN "down"
           ELSE IF attached[p] /\ primary = NoFile THEN "seeding" ELSE "up" IN
    /\ now' = [now EXCEPT ![p] = Idle]
    /\ mem' = [mem EXCEPT ![p] = IF ok THEN @ ELSE now[p].before]
    /\ life' = [life EXCEPT ![p] = q]
    /\ Answers(p, now[p].m, ok)

Unlock(p) ==
  /\ now[p].phase = "unlock"
  /\ lock' = FALSE
  /\ Settles(p, now[p].ok)
  /\ UNCHANGED <<mode, file, primary, attached, persisted, queue, failures>>

\* "Database writer already active"
LockedMutant(p) ==    \* waits until the lock is free
  /\ now[p].phase = "lock" /\ lock
  /\ UNCHANGED vars
Locked(p) ==
  /\ now[p].phase = "lock" /\ lock
  /\ Settles(p, FALSE)
  /\ UNCHANGED <<mode, world, attached, persisted, queue, failures>>

-----------------------------------------------------------------------------
MayFail == failures < MaxFailures /\ failures' = failures + 1

\* A call fails: the commit, before or after PostgreSQL made it; the creation of
\* the lock file; the temporary file or its rename; the removal of the lock file.
CommitFails(p) ==
  /\ now[p].phase \in {"primary", "committed"} /\ MayFail
  /\ Settles(p, FALSE)
  /\ UNCHANGED <<mode, world, attached, persisted, queue>>

\* The first write of the row fails: the error is logged and the server is up.
SeedFails(p) ==
  /\ life[p] = "seeding" /\ MayFail
  /\ life' = [life EXCEPT ![p] = "up"]
  /\ UNCHANGED <<mode, world, attached, mem, persisted, queue, now, answers>>

FlushFails(p) ==
  /\ MayFail
  /\ \/ /\ now[p].phase \in {"lock", "unlock"}
        /\ Settles(p, FALSE)
     \/ /\ now[p].phase \in {"compare", "rename"}
        /\ now' = [now EXCEPT ![p].phase = "unlock", ![p].ok = FALSE]
        /\ UNCHANGED <<mem, life, answers>>
  /\ UNCHANGED <<mode, world, attached, persisted, queue>>

\* The process ends, whether it is killed or told to stop.
Crash(p) ==
  /\ life[p] # "down" /\ MayFail
  /\ life' = [life EXCEPT ![p] = "down"]
  /\ now' = [now EXCEPT ![p] = Idle]
  /\ queue' = [queue EXCEPT ![p] = <<>>]
  /\ mem' = [mem EXCEPT ![p] = <<>>]
  /\ persisted' = [persisted EXCEPT ![p] = NoFile]
  /\ attached' = [attached EXCEPT ![p] = FALSE]
  /\ UNCHANGED <<mode, world, answers>>

\* An operator removes the lock file a process left behind, with all stopped.
RemoveLock ==
  /\ lock /\ \A p \in Processes : life[p] = "down"
  /\ lock' = FALSE
  /\ UNCHANGED <<mode, file, primary, life, attached, mem, persisted, queue, now, answers, failures>>

-----------------------------------------------------------------------------
Init ==
  /\ mode \in Modes /\ file = NoFile /\ lock = FALSE /\ primary = NoFile
  /\ life = [p \in Processes |-> "down"] /\ attached = [p \in Processes |-> FALSE]
  /\ mem = [p \in Processes |-> <<>>]
  /\ persisted = [p \in Processes |-> NoFile]
  /\ queue = [p \in Processes |-> <<>>]
  /\ now = [p \in Processes |-> Idle]
  /\ acked = {} /\ refused = {} /\ strayed = {} /\ failures = 0

Step(p) == \/ Seed(p) \/ Begin(p) \/ PrimaryCommits(p) \/ PrimaryReplies(p)
           \/ TakeLock(p) \/ Compare(p) \/ Rename(p) \/ Unlock(p) \/ Locked(p)

Next ==
  \/ \E p \in Processes : \/ Start(p) \/ Step(p) \/ Throws(p)
                          \/ CommitFails(p) \/ SeedFails(p) \/ FlushFails(p)
                          \/ Crash(p)
                          \/ \E m \in Mutations : Submit(p, m)
  \/ RemoveLock

Spec == Init /\ [][Next]_vars

\* File and database calls return; processes are not owed a start.
Fairness == \A p \in Processes : WF_vars(Step(p))
FairSpec == Spec /\ Fairness

-----------------------------------------------------------------------------
Operation(p) ==
  [phase: {"primary", "committed", "lock", "compare", "rename", "unlock"},
   m: Mutations \cup {p}, state: States, before: States, ok: BOOLEAN]

\* Types; a process that is down does nothing (server.ts holds the data
\* directory until the process exits, writers included).
TypeOK ==
  /\ mode \in Modes /\ file \in States \cup {NoFile} /\ lock \in BOOLEAN
  /\ primary \in States \cup {NoFile}
  /\ life \in [Processes -> {"down", "booting", "seeding", "up"}]
  /\ attached \in [Processes -> BOOLEAN]
  /\ mem \in [Processes -> States] /\ persisted \in [Processes -> States \cup {NoFile}]
  /\ queue \in [Processes -> States]
  /\ DOMAIN now = Processes /\ \A p \in Processes : now[p] \in Operation(p) \cup {Idle}
  /\ acked \subseteq Mutations /\ refused \subseteq Mutations /\ strayed \subseteq acked
  /\ failures \in 0 .. MaxFailures
  /\ \A p \in Processes : /\ life[p] \in {"down", "seeding"} => now[p] = Idle
                          /\ attached[p] => mode = "cutover"
                          /\ life[p] # "up" => queue[p] = <<>>

\* Of the processes that opened a data directory at most one is between the lock
\* and its removal, and only that one can be about to rename (flush).
Writing(p) == now[p].phase \in {"compare", "rename", "unlock"}
OneWriter ==
  /\ \A p, q \in Processes : Writing(p) /\ Writing(q) => p = q
  /\ \A p \in Processes : Writing(p) => lock
  /\ \A p \in Processes : now[p].phase = "rename" => file = persisted[p]

\* Between two mutations a process without a primary that can still write has in
\* memory what the file holds, unless another process has written since: a failed
\* mutation is taken back whole, and a failed flush leaves no half (applyMutation,
\* flush).
MemoryIsStore ==
  \A p \in Processes :
    life[p] = "up" /\ now[p] = Idle /\ ~lock /\ file = persisted[p] /\ ~attached[p]
      => mem[p] = file

\* The store, which in a cutover is the row as soon as there is one, keeps its
\* promises whatever fails, whoever else writes and whether or not a server finds
\* PostgreSQL when it starts.  One promise is not the store's: what a server on the
\* file alone acknowledges while there is a row (strayed) is in the file only, and
\* the next start that reaches PostgreSQL puts the row in its place (app.ts:268).
Store == INSTANCE SerialStore WITH
           store <- Stored(IF mode = "cutover" /\ primary # NoFile THEN primary ELSE file),
           acked <- acked \ strayed
KeepsPromises == Store!Spec

\* A failing call does not poison the queue: unless its process ends, every
\* mutation is answered (mutationQueue, writeQueue).
EveryMutationAnswered ==
  \A p \in Processes, m \in Mutations :
    m \in Range(queue[p]) ~> (m \in acked \cup refused \/ life[p] = "down")
=============================================================================
