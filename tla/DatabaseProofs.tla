--------------------------- MODULE DatabaseProofs ---------------------------
(* What holds of Database for every set of processes and mutations: one       *)
(* writer at a time, memory that follows the store, and SerialStore.          *)
EXTENDS Database, SequenceTheorems, TLAPS

-----------------------------------------------------------------------------
(* Types.                                                                     *)

LEMMA Operating ==
  ASSUME TypeOK, NEW p \in Processes, now[p].phase # "idle"
  PROVE  /\ now[p] \in Operation(p) /\ now[p] # Idle
         /\ life[p] \notin {"down", "seeding"}
  BY DEF TypeOK, Idle

LEMMA FlushType ==
  ASSUME NEW p \in Processes, NEW m \in Mutations \cup {p}, NEW s \in States, NEW b \in States
  PROVE  /\ Flush(m, s, b) \in Operation(p)
         /\ [Flush(m, s, b) EXCEPT !.phase = "primary"] \in Operation(p)
  BY DEF Flush, Operation

LEMMA StoredType == ASSUME NEW f \in States \cup {NoFile} PROVE Stored(f) \in States
  BY DEF Stored, States

\* Only the operation of one process changes.
LEMMA NowType ==
  ASSUME TypeOK, NEW p \in Processes, NEW o \in Operation(p) \cup {Idle},
         now' = [now EXCEPT ![p] = o],
         life'[p] \in {"down", "seeding"} => o = Idle,
         \A q \in Processes : q # p => life'[q] = life[q]
  PROVE  /\ DOMAIN now' = Processes
         /\ \A q \in Processes : now'[q] \in Operation(q) \cup {Idle}
         /\ \A q \in Processes : life'[q] \in {"down", "seeding"} => now'[q] = Idle
  BY DEF TypeOK

LEMMA SettlesType ==
  ASSUME TypeOK, NEW p \in Processes, NEW ok \in BOOLEAN, now[p].phase # "idle",
         Settles(p, ok), UNCHANGED queue
  PROVE  /\ DOMAIN now' = Processes
         /\ \A q \in Processes : now'[q] \in Operation(q) \cup {Idle}
         /\ mem' \in [Processes -> States]
         /\ life' \in [Processes -> {"down", "booting", "seeding", "up"}]
         /\ acked' \subseteq Mutations /\ refused' \subseteq Mutations
         /\ strayed' \subseteq acked'
         /\ \A q \in Processes : /\ life'[q] \in {"down", "seeding"} => now'[q] = Idle
                                 /\ life'[q] # "up" => queue'[q] = <<>>
<1>1. now[p] \in Operation(p) /\ life[p] \in {"booting", "up"}
  BY Operating DEF TypeOK
<1> DEFINE m == now[p].m
           q0 == IF life[p] # "booting" THEN life[p]
                 ELSE IF ~ok THEN "down"
                 ELSE IF attached[p] /\ primary = NoFile THEN "seeding" ELSE "up"
<1>2. /\ now' = [now EXCEPT ![p] = Idle]
      /\ mem' = [mem EXCEPT ![p] = IF ok THEN @ ELSE now[p].before]
      /\ life' = [life EXCEPT ![p] = q0]
      /\ acked' = IF m \in Mutations /\ ok THEN acked \cup {m} ELSE acked
      /\ refused' = IF m \in Mutations /\ ~ok THEN refused \cup {m} ELSE refused
      /\ strayed' = strayed \/ (m \in Mutations /\ ok /\ strayed' = strayed \cup {m})
  <2>1. UNCHANGED queue /\ Settles(p, ok)  OBVIOUS
  <2>2. Answers(p, m, ok) /\ now' = [now EXCEPT ![p] = Idle]
        /\ mem' = [mem EXCEPT ![p] = IF ok THEN @ ELSE now[p].before]
        /\ life' = [life EXCEPT ![p] = q0]
    BY <2>1 DEF Settles
  <2> HIDE DEF m, q0
  <2>3. /\ acked' = IF m \in Mutations /\ ok THEN acked \cup {m} ELSE acked
        /\ refused' = IF m \in Mutations /\ ~ok THEN refused \cup {m} ELSE refused
    BY <2>2 DEF Answers
  <2>4. strayed' = strayed \/ (m \in Mutations /\ ok /\ strayed' = strayed \cup {m})
    <3> DEFINE stray == mode = "cutover" /\ ~attached[p] /\ primary # NoFile
    <3>1. strayed' = IF m \in Mutations /\ ok /\ stray THEN strayed \cup {m} ELSE strayed
      BY <2>2 DEF Answers
    <3> HIDE DEF stray
    <3>2. QED  BY <3>1
  <2>5. QED  BY <2>2, <2>3, <2>4
<1>3. q0 \in {"down", "booting", "seeding", "up"} /\ (q0 # "up" => life[p] = "booting")  BY <1>1
<1>4. life' \in [Processes -> {"down", "booting", "seeding", "up"}]  BY <1>2, <1>3 DEF TypeOK
<1>5. now[p].before \in States  BY <1>1 DEF Operation
<1>6. mem' \in [Processes -> States]  BY <1>2, <1>5 DEF TypeOK
<1>7. acked' \subseteq Mutations /\ refused' \subseteq Mutations /\ strayed' \subseteq acked'
  <2> HIDE DEF m
  <2>1. QED  BY <1>2 DEF TypeOK
<1>8. \A q \in Processes : q # p => life'[q] = life[q]  BY <1>2 DEF TypeOK
<1>9. /\ DOMAIN now' = Processes
      /\ \A q \in Processes : now'[q] \in Operation(q) \cup {Idle}
      /\ \A q \in Processes : life'[q] \in {"down", "seeding"} => now'[q] = Idle
  <2> HIDE DEF q0
  <2>1. Idle \in Operation(p) \cup {Idle}  OBVIOUS
  <2>2. QED  BY <1>2, <1>8, <2>1, NowType
<1>10. \A q \in Processes : life'[q] # "up" => queue'[q] = <<>>
  BY <1>1, <1>2, <1>3, <1>8 DEF TypeOK
<1>11. QED  BY <1>4, <1>6, <1>7, <1>9, <1>10

\* What a start brings into memory, and whether it flushes.
LEMMA StartsAs ==
  ASSUME TypeOK, NEW p \in Processes, Start(p)
  PROVE  \E s \in States, boots \in BOOLEAN, connects \in BOOLEAN :
           /\ connects => mode = "cutover"
           /\ attached' = [attached EXCEPT ![p] = connects]
           /\ mem' = [mem EXCEPT ![p] = s]
           /\ now' = [now EXCEPT ![p] = IF boots THEN Flush(p, s, s) ELSE Idle]
           /\ life' = [life EXCEPT ![p] = IF boots THEN "booting"
                                          ELSE IF connects THEN "seeding" ELSE "up"]
           /\ ~connects => s = Stored(file) /\ (~boots => s = file) /\ (boots => file = NoFile)
           /\ connects => IF primary # NoFile THEN s = primary /\ boots
                          ELSE s = Stored(file) /\ (boots <=> file = NoFile)
<1>1. PICK connects \in BOOLEAN :
        LET replaces == connects /\ primary # NoFile
            boots == file = NoFile \/ replaces
            s == IF replaces THEN primary ELSE Stored(file) IN
          /\ connects => mode = "cutover"
          /\ attached' = [attached EXCEPT ![p] = connects]
          /\ mem' = [mem EXCEPT ![p] = s]
          /\ now' = [now EXCEPT ![p] = IF boots THEN Flush(p, s, s) ELSE Idle]
          /\ life' = [life EXCEPT ![p] = IF boots THEN "booting"
                                         ELSE IF connects THEN "seeding" ELSE "up"]
  BY DEF Start
<1> DEFINE boots == file = NoFile \/ (connects /\ primary # NoFile)
           s == IF connects /\ primary # NoFile THEN primary ELSE Stored(file)
<1>2. s \in States  BY StoredType DEF TypeOK
<1>3. boots \in BOOLEAN  OBVIOUS
<1>4. ~connects => s = Stored(file) /\ (~boots => s = file) /\ (boots => file = NoFile)
  BY DEF Stored
<1>5. connects => IF primary # NoFile THEN s = primary /\ boots
                  ELSE s = Stored(file) /\ (boots <=> file = NoFile)
  OBVIOUS
<1>6. /\ connects => mode = "cutover"
      /\ attached' = [attached EXCEPT ![p] = connects]
      /\ mem' = [mem EXCEPT ![p] = s]
      /\ now' = [now EXCEPT ![p] = IF boots THEN Flush(p, s, s) ELSE Idle]
      /\ life' = [life EXCEPT ![p] = IF boots THEN "booting"
                                     ELSE IF connects THEN "seeding" ELSE "up"]
  BY <1>1
<1> HIDE DEF s, boots
<1>7. QED  BY <1>2, <1>3, <1>4, <1>5, <1>6

\* Memory, the store's file, the primary, the processes' queues and the operation
\* under way keep their types.
THEOREM TypeCorrect == Spec => []TypeOK
<1>1. ASSUME Init PROVE TypeOK
  <2>1. failures \in 0 .. MaxFailures
    BY <1>1, DatabaseAssumption DEF Init, DatabaseAssumption
  <2>2. <<>> \in States  BY DEF States
  <2>3. DOMAIN now = Processes /\ \A p \in Processes : now[p] = Idle  BY <1>1 DEF Init
  <2>4. QED  BY <1>1, <2>1, <2>2, <2>3 DEF Init, TypeOK
<1>2. ASSUME TypeOK, [Next]_vars PROVE TypeOK'
  <2> USE <1>2
  <2>1. ASSUME NEW p \in Processes, Start(p) PROVE TypeOK'
    <3>1. /\ life[p] = "down" /\ queue[p] = <<>>
          /\ persisted' = [persisted EXCEPT ![p] = file]
          /\ UNCHANGED <<mode, file, lock, primary, queue, acked, refused, strayed, failures>>
      BY <2>1 DEF Start, TypeOK, world, answers
    <3>2. PICK s \in States, boots \in BOOLEAN, connects \in BOOLEAN :
            /\ connects => mode = "cutover"
            /\ attached' = [attached EXCEPT ![p] = connects]
            /\ mem' = [mem EXCEPT ![p] = s]
            /\ now' = [now EXCEPT ![p] = IF boots THEN Flush(p, s, s) ELSE Idle]
            /\ life' = [life EXCEPT ![p] = IF boots THEN "booting"
                                           ELSE IF connects THEN "seeding" ELSE "up"]
      BY <2>1, StartsAs
    <3>3. (IF boots THEN Flush(p, s, s) ELSE Idle) \in Operation(p) \cup {Idle}
      BY FlushType
    <3>4. /\ life' \in [Processes -> {"down", "booting", "seeding", "up"}] /\ life'[p] # "down"
          /\ life'[p] = "seeding" => ~boots
          /\ \A q \in Processes : q # p => life'[q] = life[q]
      BY <3>2 DEF TypeOK
    <3>5. /\ DOMAIN now' = Processes
          /\ \A q \in Processes : now'[q] \in Operation(q) \cup {Idle}
          /\ \A q \in Processes : life'[q] \in {"down", "seeding"} => now'[q] = Idle
      BY <3>2, <3>3, <3>4, NowType
    <3>6. \A q \in Processes : life'[q] # "up" => queue'[q] = <<>>
      BY <3>1, <3>4 DEF TypeOK
    <3>7. mem' \in [Processes -> States] /\ persisted' \in [Processes -> States \cup {NoFile}]
      BY <3>1, <3>2 DEF TypeOK
    <3>8. /\ attached' \in [Processes -> BOOLEAN]
          /\ \A q \in Processes : attached'[q] => mode = "cutover"
      BY <3>2 DEF TypeOK
    <3>9. QED  BY <3>1, <3>4, <3>5, <3>6, <3>7, <3>8 DEF TypeOK
  <2>2. ASSUME NEW p \in Processes, NEW m \in Mutations, Submit(p, m) PROVE TypeOK'
    <3>1. /\ life[p] = "up" /\ queue' = [queue EXCEPT ![p] = Append(@, m)]
          /\ UNCHANGED <<mode, file, lock, primary, life, attached, mem, persisted, now, acked, refused, strayed, failures>>
      BY <2>2 DEF Submit, world, answers
    <3>2. Append(queue[p], m) \in States  BY DEF TypeOK, States
    <3>3. queue' \in [Processes -> States]  BY <3>1, <3>2 DEF TypeOK
    <3>4. \A q \in Processes : life'[q] # "up" => queue'[q] = <<>>  BY <3>1 DEF TypeOK
    <3>5. QED  BY <3>1, <3>3, <3>4 DEF TypeOK
  <2>3. ASSUME NEW p \in Processes, Begin(p) PROVE TypeOK'
    <3> DEFINE m == Head(queue[p])
               next == Append(mem[p], m)
    <3>1. /\ life[p] = "up" /\ queue[p] # <<>> /\ queue' = [queue EXCEPT ![p] = Tail(@)]
          /\ UNCHANGED <<mode, file, lock, primary, life, attached, persisted, acked, refused, strayed, failures>>
      BY <2>3 DEF Begin, world, answers
    <3>2. m \in Mutations /\ next \in States /\ Tail(queue[p]) \in States /\ mem[p] \in States
      BY <3>1 DEF TypeOK, States
    <3>3. PICK o \in Operation(p) : now' = [now EXCEPT ![p] = o]
      <4>1. \/ now' = [now EXCEPT ![p] = [Flush(m, next, mem[p]) EXCEPT !.phase = "primary"]]
            \/ now' = [now EXCEPT ![p] = Flush(m, next, mem[p])]
        BY <2>3 DEF Begin
      <4>2. m \in Mutations \cup {p}  BY <3>2
      <4> HIDE DEF m, next
      <4>3. QED  BY <4>1, <4>2, <3>2, FlushType
    <3>4. mem' = mem \/ mem' = [mem EXCEPT ![p] = next]  BY <2>3 DEF Begin
    <3>5. mem' \in [Processes -> States] /\ queue' \in [Processes -> States]
      BY <3>1, <3>2, <3>4 DEF TypeOK
    <3>6. /\ DOMAIN now' = Processes
          /\ \A q \in Processes : now'[q] \in Operation(q) \cup {Idle}
          /\ \A q \in Processes : life'[q] \in {"down", "seeding"} => now'[q] = Idle
      BY <3>1, <3>3, NowType
    <3>7. \A q \in Processes : life'[q] # "up" => queue'[q] = <<>>  BY <3>1 DEF TypeOK
    <3>8. QED  BY <3>1, <3>5, <3>6, <3>7 DEF TypeOK
  <2>4. ASSUME NEW p \in Processes, Throws(p) PROVE TypeOK'
    <3>1. /\ life[p] = "up" /\ queue[p] # <<>> /\ queue' = [queue EXCEPT ![p] = Tail(@)]
          /\ refused' = refused \cup {Head(queue[p])}
          /\ UNCHANGED <<mode, file, lock, primary, life, attached, mem, persisted, now, acked, strayed, failures>>
      BY <2>4 DEF Throws, world
    <3>2. Head(queue[p]) \in Mutations /\ Tail(queue[p]) \in States
      BY <3>1 DEF TypeOK, States
    <3>3. queue' \in [Processes -> States]  BY <3>1, <3>2 DEF TypeOK
    <3>4. \A q \in Processes : life'[q] # "up" => queue'[q] = <<>>  BY <3>1 DEF TypeOK
    <3>5. QED  BY <3>1, <3>2, <3>3, <3>4 DEF TypeOK
  \* the steps of an operation that stay in it
  <2>5. ASSUME NEW p \in Processes,
               PrimaryCommits(p) \/ PrimaryReplies(p) \/ TakeLock(p) \/ Compare(p) \/ Rename(p)
        PROVE  TypeOK'
    <3>1. now[p] \in Operation(p) /\ life[p] \notin {"down", "seeding"}
      <4>1. now[p].phase # "idle"
        BY <2>5 DEF PrimaryCommits, PrimaryReplies, TakeLock, Compare, Rename
      <4>2. QED  BY <4>1, Operating
    <3>2. PICK o \in Operation(p) : now' = [now EXCEPT ![p] = o]
      <4> DEFINE At(ph) == [now[p] EXCEPT !.phase = ph]
      <4>1. \A ph \in {"committed", "lock", "compare", "rename", "unlock"} :
              /\ At(ph) \in Operation(p)
              /\ [At(ph) EXCEPT !.ok = FALSE] \in Operation(p)
              /\ [At(ph) EXCEPT !.before = now[p].state] \in Operation(p)
        BY <3>1 DEF Operation
      <4>2. \/ now' = [now EXCEPT ![p] = At("committed")]
            \/ now' = [now EXCEPT ![p] = [At("lock") EXCEPT !.before = now[p].state]]
            \/ now' = [now EXCEPT ![p] = At("compare")]
            \/ now' = [now EXCEPT ![p] = At("rename")]
            \/ now' = [now EXCEPT ![p] = [At("unlock") EXCEPT !.ok = FALSE]]
            \/ now' = [now EXCEPT ![p] = At("unlock")]
        BY <2>5, <3>1 DEF PrimaryCommits, PrimaryReplies, TakeLock, Compare, Rename, Operation, TypeOK
      <4>3. QED  BY <4>1, <4>2
    <3>3. /\ UNCHANGED <<mode, life, attached, queue, acked, refused, strayed, failures>>
          /\ now[p].state \in States
      BY <2>5, <3>1 DEF PrimaryCommits, PrimaryReplies, TakeLock, Compare, Rename, Operation, world, answers
    <3>4. /\ file' \in States \cup {NoFile} /\ lock' \in BOOLEAN /\ primary' \in States \cup {NoFile}
          /\ mem' \in [Processes -> States] /\ persisted' \in [Processes -> States \cup {NoFile}]
      BY <2>5, <3>3 DEF PrimaryCommits, PrimaryReplies, TakeLock, Compare, Rename, TypeOK, world
    <3>5. /\ DOMAIN now' = Processes
          /\ \A q \in Processes : now'[q] \in Operation(q) \cup {Idle}
          /\ \A q \in Processes : life'[q] \in {"down", "seeding"} => now'[q] = Idle
      BY <3>1, <3>2, <3>3, NowType
    <3>6. QED  BY <3>3, <3>4, <3>5 DEF TypeOK
  \* the steps that end one
  <2>6. ASSUME NEW p \in Processes, Unlock(p) \/ Locked(p) \/ CommitFails(p) PROVE TypeOK'
    <3>1. PICK ok \in BOOLEAN : now[p].phase # "idle" /\ Settles(p, ok)
      <4>1. CASE Unlock(p)
        <5>1. now[p].phase = "unlock" /\ Settles(p, now[p].ok)  BY <4>1 DEF Unlock
        <5>2. now[p].ok \in BOOLEAN  BY <5>1, Operating DEF Operation
        <5>3. QED  BY <5>1, <5>2
      <4>2. CASE Locked(p)  BY <4>2 DEF Locked
      <4>3. CASE CommitFails(p)  BY <4>3 DEF CommitFails
      <4>4. QED  BY <2>6, <4>1, <4>2, <4>3
    <3>2. /\ UNCHANGED <<mode, file, primary, attached, persisted, queue>> /\ lock' \in BOOLEAN
          /\ failures' \in 0 .. MaxFailures
      <4>1. CASE Unlock(p)  BY <4>1 DEF Unlock, TypeOK
      <4>2. CASE Locked(p)  BY <4>2 DEF Locked, world, TypeOK
      <4>3. CASE CommitFails(p)
        BY <4>3, DatabaseAssumption DEF CommitFails, MayFail, world, TypeOK, DatabaseAssumption
      <4>4. QED  BY <2>6, <4>1, <4>2, <4>3
    <3>3. QED  BY <3>1, <3>2, SettlesType DEF TypeOK
  <2>61. ASSUME NEW p \in Processes, Seed(p) \/ SeedFails(p) PROVE TypeOK'
    <3>1. /\ life[p] = "seeding" /\ life' = [life EXCEPT ![p] = "up"]
          /\ UNCHANGED <<mode, file, lock, attached, mem, persisted, queue, now, acked, refused, strayed>>
      BY <2>61 DEF Seed, SeedFails, world, answers
    <3>2. primary' \in States \cup {NoFile} /\ failures' \in 0 .. MaxFailures
      <4>1. CASE Seed(p)  BY <4>1 DEF Seed, TypeOK
      <4>2. CASE SeedFails(p)
        BY <4>2, DatabaseAssumption DEF SeedFails, MayFail, world, TypeOK, DatabaseAssumption
      <4>3. QED  BY <2>61, <4>1, <4>2
    <3>3. /\ life' \in [Processes -> {"down", "booting", "seeding", "up"}] /\ life'[p] = "up"
          /\ \A q \in Processes : q # p => life'[q] = life[q]
      BY <3>1 DEF TypeOK
    <3>4. QED  BY <3>1, <3>2, <3>3 DEF TypeOK
  <2>7. ASSUME NEW p \in Processes, FlushFails(p) PROVE TypeOK'
    <3>1. /\ UNCHANGED <<mode, file, lock, primary, attached, persisted, queue>> /\ failures' \in 0 .. MaxFailures
      BY <2>7, DatabaseAssumption DEF FlushFails, MayFail, world, TypeOK, DatabaseAssumption
    <3>2. CASE now[p].phase \in {"lock", "unlock"} /\ Settles(p, FALSE)
      BY <3>1, <3>2, SettlesType DEF TypeOK
    <3>3. CASE /\ now[p].phase \in {"compare", "rename"}
               /\ now' = [now EXCEPT ![p].phase = "unlock", ![p].ok = FALSE]
               /\ UNCHANGED <<mem, life, answers>>
      <4>1. now[p] \in Operation(p) /\ life[p] \notin {"down", "seeding"}  BY <3>3, Operating
      <4>2. PICK o \in Operation(p) : now' = [now EXCEPT ![p] = o]
        BY <3>3, <4>1 DEF Operation
      <4>3. /\ DOMAIN now' = Processes
            /\ \A q \in Processes : now'[q] \in Operation(q) \cup {Idle}
            /\ \A q \in Processes : life'[q] \in {"down", "seeding"} => now'[q] = Idle
        BY <3>3, <4>1, <4>2, NowType
      <4>4. QED  BY <3>1, <3>3, <4>3 DEF TypeOK, answers
    <3>4. QED  BY <2>7, <3>2, <3>3 DEF FlushFails
  <2>8. ASSUME NEW p \in Processes, Crash(p) PROVE TypeOK'
    <3>1. /\ life' = [life EXCEPT ![p] = "down"] /\ now' = [now EXCEPT ![p] = Idle]
          /\ queue' = [queue EXCEPT ![p] = <<>>] /\ mem' = [mem EXCEPT ![p] = <<>>]
          /\ persisted' = [persisted EXCEPT ![p] = NoFile]
          /\ attached' = [attached EXCEPT ![p] = FALSE]
          /\ UNCHANGED <<mode, file, lock, primary, acked, refused, strayed>>
          /\ failures' \in 0 .. MaxFailures
      BY <2>8, DatabaseAssumption DEF Crash, MayFail, world, answers, TypeOK, DatabaseAssumption
    <3>2. <<>> \in States  BY DEF States
    <3>3. \A q \in Processes : q # p => /\ life'[q] = life[q] /\ now'[q] = now[q]
                                        /\ queue'[q] = queue[q]
      BY <3>1 DEF TypeOK
    <3>4. QED  BY <3>1, <3>2, <3>3 DEF TypeOK
  <2>9. CASE RemoveLock  BY <2>9 DEF RemoveLock, TypeOK, answers
  <2>10. CASE UNCHANGED vars  BY <2>10 DEF vars, TypeOK
  <2>11. QED
    BY <2>1, <2>2, <2>3, <2>4, <2>5, <2>6, <2>61, <2>7, <2>8, <2>9, <2>10 DEF Next, Step
<1>3. QED  BY <1>1, <1>2, PTL DEF Spec

-----------------------------------------------------------------------------
(* The lock.                                                                  *)

\* An operation that does not write afterwards leaves the others alone.
LEMMA OthersWrite ==
  ASSUME TypeOK, OneWriter, NEW p \in Processes, NEW o, now' = [now EXCEPT ![p] = o],
         o.phase \notin {"compare", "rename", "unlock"},
         UNCHANGED file, lock' = lock,
         \A q \in Processes : q # p => persisted'[q] = persisted[q]
  PROVE  OneWriter'
  BY DEF TypeOK, OneWriter, Writing

\* However mutations, failures, crashes and backend switches interleave, at most one
\* process is between taking the lock of the file and giving it back (withFileLock).
THEOREM AtMostOneWriter == Spec => []OneWriter
<1>1. ASSUME Init PROVE OneWriter
  BY <1>1 DEF Init, OneWriter, Writing, Idle
<1>2. ASSUME TypeOK, OneWriter, [Next]_vars PROVE OneWriter'
  <2> USE <1>2
  <2>1. ASSUME NEW p \in Processes, Start(p) PROVE OneWriter'
    <3>1. PICK o : now' = [now EXCEPT ![p] = o] /\ o.phase \in {"lock", "idle"}
      <4>1. PICK s \in States, boots \in BOOLEAN, connects \in BOOLEAN :
              now' = [now EXCEPT ![p] = IF boots THEN Flush(p, s, s) ELSE Idle]
        BY <2>1, StartsAs
      <4>2. Flush(p, s, s).phase = "lock" /\ Idle.phase = "idle"  BY DEF Flush, Idle
      <4>3. CASE boots  BY <4>1, <4>2, <4>3
      <4>4. CASE ~boots  BY <4>1, <4>2, <4>4
      <4>5. QED  BY <4>3, <4>4
    <3>2. /\ UNCHANGED <<file, lock>>
          /\ \A q \in Processes : q # p => persisted'[q] = persisted[q]
      BY <2>1 DEF Start, world, TypeOK
    <3>3. QED  BY <3>1, <3>2, OthersWrite
  <2>2. ASSUME NEW p \in Processes, Begin(p) PROVE OneWriter'
    <3>1. PICK o : now' = [now EXCEPT ![p] = o] /\ o.phase \in {"lock", "primary"}
      BY <2>2 DEF Begin, Flush
    <3>2. QED  BY <2>2, <3>1, OthersWrite DEF Begin, world
  <2>3. ASSUME NEW p \in Processes, PrimaryCommits(p) \/ PrimaryReplies(p) PROVE OneWriter'
    <3>1. now[p] \in Operation(p)
      BY <2>3, Operating DEF PrimaryCommits, PrimaryReplies
    <3>2. PICK o : now' = [now EXCEPT ![p] = o] /\ o.phase \in {"committed", "lock"}
      <4> DEFINE At(ph) == [now[p] EXCEPT !.phase = ph]
      <4>1. \/ now' = [now EXCEPT ![p] = At("committed")]
            \/ now' = [now EXCEPT ![p] = [At("lock") EXCEPT !.before = now[p].state]]
        BY <2>3 DEF PrimaryCommits, PrimaryReplies, TypeOK
      <4>2. /\ At("committed").phase = "committed"
            /\ [At("lock") EXCEPT !.before = now[p].state].phase = "lock"
        BY <3>1 DEF Operation
      <4>3. QED  BY <4>1, <4>2
    <3>3. QED  BY <2>3, <3>2, OthersWrite DEF PrimaryCommits, PrimaryReplies, world
  <2>4. ASSUME NEW p \in Processes, TakeLock(p) PROVE OneWriter'
    <3>1. \A q \in Processes : ~Writing(q)  BY <2>4 DEF TakeLock, OneWriter
    <3>2. \A q \in Processes : q # p => now'[q] = now[q]  BY <2>4 DEF TakeLock, TypeOK
    <3>3. now'[p].phase = "compare"
      BY <2>4, Operating DEF TakeLock, Operation, TypeOK
    <3>4. QED  BY <2>4, <3>1, <3>2, <3>3 DEF TakeLock, OneWriter, Writing
  <2>5. ASSUME NEW p \in Processes, Compare(p) \/ Rename(p) PROVE OneWriter'
    <3>1. Writing(p) /\ \A q \in Processes : q # p => ~Writing(q) /\ now'[q] = now[q]
      BY <2>5 DEF Compare, Rename, OneWriter, Writing, TypeOK
    <3>2. lock' = lock /\ lock  BY <2>5, <3>1 DEF Compare, Rename, world, OneWriter
    <3>3. now'[p].phase = "rename" => file' = persisted'[p]
      <4>1. now[p] \in Operation(p)  BY <3>1, Operating DEF Writing
      <4>2. CASE Compare(p)
        <5>1. CASE file = persisted[p]
          BY <4>2, <5>1 DEF Compare, world
        <5>2. CASE file # persisted[p]
          BY <4>1, <4>2, <5>2 DEF Compare, Operation, TypeOK
        <5>3. QED  BY <5>1, <5>2
      <4>3. CASE Rename(p)
        BY <4>1, <4>3 DEF Rename, Operation, TypeOK
      <4>4. QED  BY <2>5, <4>2, <4>3
    <3>4. QED  BY <3>1, <3>2, <3>3 DEF OneWriter, Writing
  <2>6. ASSUME NEW p \in Processes, Unlock(p) PROVE OneWriter'
    <3>1. \A q \in Processes : q # p => ~Writing(q)  BY <2>6 DEF Unlock, OneWriter, Writing
    <3>2. now' = [now EXCEPT ![p] = Idle]  BY <2>6 DEF Unlock, Settles
    <3>3. \A q \in Processes : ~Writing(q)'
      BY <3>1, <3>2 DEF TypeOK, Writing, Idle
    <3>4. QED  BY <3>3 DEF OneWriter, Writing
  <2>7. ASSUME NEW p \in Processes, Locked(p) \/ CommitFails(p) \/ Crash(p) PROVE OneWriter'
    <3>1. now' = [now EXCEPT ![p] = Idle] /\ Idle.phase = "idle"
      BY <2>7 DEF Locked, CommitFails, Crash, Settles, Idle
    <3>2. /\ UNCHANGED <<file, lock>>
          /\ \A q \in Processes : q # p => persisted'[q] = persisted[q]
      BY <2>7 DEF Locked, CommitFails, Crash, world, TypeOK
    <3>3. QED  BY <3>1, <3>2, OthersWrite
  <2>8. ASSUME NEW p \in Processes, FlushFails(p) PROVE OneWriter'
    <3>1. UNCHANGED <<file, lock, persisted>>  BY <2>8 DEF FlushFails, world
    <3>2. CASE Settles(p, FALSE)
      BY <3>1, <3>2, OthersWrite DEF Settles, Idle
    <3>3. CASE /\ now[p].phase \in {"compare", "rename"}
               /\ now' = [now EXCEPT ![p].phase = "unlock", ![p].ok = FALSE]
      <4>1. now'[p].phase = "unlock" /\ \A q \in Processes : q # p => now'[q] = now[q]
        BY <3>3, Operating DEF Operation, TypeOK
      <4>2. QED  BY <3>1, <3>3, <4>1 DEF OneWriter, Writing
    <3>4. QED  BY <2>8, <3>2, <3>3 DEF FlushFails
  <2>9. ASSUME RemoveLock PROVE OneWriter'
    <3>1. \A q \in Processes : ~Writing(q)'
      BY <2>9 DEF RemoveLock, TypeOK, Writing, Idle
    <3>2. QED  BY <3>1 DEF OneWriter, Writing
  <2>10. CASE UNCHANGED now /\ UNCHANGED <<file, lock, persisted>>
    BY <2>10 DEF OneWriter, Writing
  <2>11. QED
    BY <2>1, <2>2, <2>3, <2>4, <2>5, <2>6, <2>7, <2>8, <2>9, <2>10
       DEF Next, Step, Seed, SeedFails, Submit, Throws, vars, world
<1>3. QED  BY <1>1, <1>2, TypeCorrect, PTL DEF Spec

-----------------------------------------------------------------------------
(* Memory and file.  A process that is up without PostgreSQL knows at every   *)
(* point of a flush what it will have in memory when the flush ends, and that *)
(* this is what it last saw in the file; unless a lock file that nobody will  *)
(* remove blocks all of them.                                                 *)

Stuck == lock /\ \A q \in Processes : ~Writing(q)

Agrees(p) ==
  /\ life[p] # "seeding"
  /\ now[p].phase \notin {"primary", "committed"}
  /\ life[p] = "up" /\ now[p] = Idle => mem[p] = persisted[p]
  /\ now[p].phase \in {"lock", "compare", "rename"} =>
       now[p].ok /\ mem[p] = now[p].state /\ (life[p] = "up" => now[p].before = persisted[p])
  /\ now[p].phase = "unlock" =>
       IF now[p].ok THEN mem[p] = persisted[p]
       ELSE life[p] = "up" => now[p].before = persisted[p]

Remembers == Stuck \/ \A p \in Processes : attached[p] \/ Agrees(p)

LEMMA StaysStuck ==
  ASSUME TypeOK, Stuck, [Next]_vars
  PROVE  Stuck' \/ RemoveLock
<1> USE DEF Stuck
<1>1. ASSUME NEW p \in Processes, NEW o, now' = [now EXCEPT ![p] = o], lock' = lock,
             o.phase \notin {"compare", "rename", "unlock"}
      PROVE  Stuck'
  BY <1>1 DEF TypeOK, Writing
<1>2. ASSUME NEW p \in Processes, Start(p) PROVE Stuck'
  <2>1. PICK s \in States, boots \in BOOLEAN, connects \in BOOLEAN :
          now' = [now EXCEPT ![p] = IF boots THEN Flush(p, s, s) ELSE Idle]
    BY <1>2, StartsAs
  <2>2. Flush(p, s, s).phase = "lock" /\ Idle.phase = "idle"  BY DEF Flush, Idle
  <2>3. lock' = lock  BY <1>2 DEF Start, world
  <2>4. CASE boots  BY <2>1, <2>2, <2>3, <2>4, <1>1
  <2>5. CASE ~boots  BY <2>1, <2>2, <2>3, <2>5, <1>1
  <2>6. QED  BY <2>4, <2>5
<1>3. ASSUME NEW p \in Processes, Begin(p) PROVE Stuck'
  <2>1. PICK o : now' = [now EXCEPT ![p] = o] /\ o.phase \in {"lock", "primary"}
    BY <1>3 DEF Begin, Flush
  <2>2. QED  BY <1>3, <2>1, <1>1 DEF Begin, world
<1>4. ASSUME NEW p \in Processes, PrimaryCommits(p) \/ PrimaryReplies(p) PROVE Stuck'
  <2>1. now[p] \in Operation(p)  BY <1>4, Operating DEF PrimaryCommits, PrimaryReplies
  <2> DEFINE At(ph) == [now[p] EXCEPT !.phase = ph]
  <2>2. \/ now' = [now EXCEPT ![p] = At("committed")]
        \/ now' = [now EXCEPT ![p] = [At("lock") EXCEPT !.before = now[p].state]]
    BY <1>4 DEF PrimaryCommits, PrimaryReplies, TypeOK
  <2>3. /\ At("committed").phase = "committed"
        /\ [At("lock") EXCEPT !.before = now[p].state].phase = "lock"
    BY <2>1 DEF Operation
  <2>4. lock' = lock  BY <1>4 DEF PrimaryCommits, PrimaryReplies, world
  <2>5. QED  BY <2>2, <2>3, <2>4, <1>1
<1>5. ASSUME NEW p \in Processes,
             TakeLock(p) \/ Compare(p) \/ Rename(p) \/ Unlock(p)
      PROVE  FALSE
  BY <1>5 DEF TakeLock, Compare, Rename, Unlock, Writing
<1>6. ASSUME NEW p \in Processes, Locked(p) \/ CommitFails(p) \/ Crash(p) \/ FlushFails(p)
      PROVE  Stuck'
  <2>1. now' = [now EXCEPT ![p] = Idle] /\ lock' = lock /\ Idle.phase = "idle"
    BY <1>6 DEF Locked, CommitFails, Crash, FlushFails, Settles, world, Writing, Idle
  <2>2. QED  BY <2>1, <1>1
<1>7. CASE UNCHANGED <<now, lock>>  BY <1>7 DEF Writing
<1>8. QED
  BY <1>2, <1>3, <1>4, <1>5, <1>6, <1>7
     DEF Next, Step, Seed, SeedFails, Submit, Throws, vars, world

LEMMA OthersAgree ==
  ASSUME TypeOK, \A q \in Processes : attached[q] \/ Agrees(q), NEW p \in Processes,
         attached'[p] \/ Agrees(p)',
         \A q \in Processes : q # p => /\ now'[q] = now[q] /\ life'[q] = life[q]
                                       /\ mem'[q] = mem[q] /\ persisted'[q] = persisted[q]
                                       /\ attached'[q] = attached[q]
  PROVE  \A q \in Processes : attached'[q] \/ Agrees(q)'
  BY DEF Agrees

\* An operation that ends leaves what it promised, unless the lock file stays.
LEMMA SettlesAgrees ==
  ASSUME TypeOK, NEW p \in Processes, Agrees(p), NEW ok \in BOOLEAN,
         \/ now[p].phase = "unlock" /\ ok = now[p].ok
         \/ now[p].phase = "lock" /\ ~ok,
         ~attached[p], Settles(p, ok), UNCHANGED persisted
  PROVE  Agrees(p)'
<1>1. now[p] \in Operation(p) /\ life[p] \in {"booting", "up"}
  BY Operating DEF TypeOK
<1>2. /\ now'[p] = Idle /\ Idle.phase = "idle"
      /\ mem'[p] = (IF ok THEN mem[p] ELSE now[p].before)
      /\ life'[p] = "up" => (life[p] = "up" \/ ok)
      /\ life'[p] # "seeding"
  BY <1>1 DEF Settles, TypeOK, Idle
<1>3. CASE ok
  <2>1. now[p].phase = "unlock" /\ now[p].ok  BY <1>3
  <2>2. mem[p] = persisted[p]  BY <2>1 DEF Agrees
  <2>3. QED  BY <1>2, <1>3, <2>2 DEF Agrees
<1>4. CASE ~ok
  <2>1. life[p] = "up" => now[p].before = persisted[p]  BY <1>4 DEF Agrees
  <2>2. QED  BY <1>2, <1>4, <2>1 DEF Agrees
<1>5. QED  BY <1>3, <1>4

LEMMA Remembering ==
  ASSUME TypeOK, TypeOK', OneWriter, Remembers, [Next]_vars
  PROVE  Remembers'
<1>2. ASSUME RemoveLock PROVE \A p \in Processes : Agrees(p)'
  BY <1>2 DEF RemoveLock, TypeOK, Agrees, Idle
<1>3. CASE Stuck  BY <1>2, <1>3, StaysStuck DEF Remembers
<1>4. ASSUME \A p \in Processes : attached[p] \/ Agrees(p)
      PROVE  Stuck' \/ \A p \in Processes : attached'[p] \/ Agrees(p)'
  <2> USE <1>4
  <2>1. ASSUME NEW p \in Processes, attached'[p] \/ Agrees(p)',
               \/ Start(p) \/ Step(p) \/ FlushFails(p) \/ Crash(p)
               \/ CommitFails(p) \/ SeedFails(p)
        PROVE  \A q \in Processes : attached'[q] \/ Agrees(q)'
    <3>1. \A q \in Processes : q # p => now'[q] = now[q] /\ life'[q] = life[q]
      BY <2>1 DEF Start, Step, Seed, Begin, PrimaryCommits, PrimaryReplies, TakeLock, Compare, Rename,
                  Unlock, Locked, FlushFails, CommitFails, SeedFails, Crash, Settles, TypeOK
    <3>2. \A q \in Processes : q # p =>
            /\ mem'[q] = mem[q] /\ persisted'[q] = persisted[q] /\ attached'[q] = attached[q]
      <4>1. CASE Start(p)
        <5>1. PICK s \in States, connects \in BOOLEAN :
                mem' = [mem EXCEPT ![p] = s] /\ attached' = [attached EXCEPT ![p] = connects]
          BY <4>1, StartsAs
        <5>2. persisted' = [persisted EXCEPT ![p] = file]  BY <4>1 DEF Start
        <5>3. QED  BY <5>1, <5>2 DEF TypeOK
      <4>2. CASE ~Start(p)
        BY <2>1, <4>2 DEF Step, Seed, Begin, PrimaryCommits, PrimaryReplies, TakeLock, Compare,
                          Rename, Unlock, Locked, FlushFails, CommitFails, SeedFails, Crash, Settles,
                          TypeOK, world, answers
      <4>3. QED  BY <4>1, <4>2
    <3>3. QED  BY <2>1, <3>1, <3>2, OthersAgree
  <2>2. ASSUME NEW p \in Processes, Start(p) PROVE attached'[p] \/ Agrees(p)'
    <3>1. PICK s \in States, boots \in BOOLEAN, connects \in BOOLEAN :
            /\ attached' = [attached EXCEPT ![p] = connects]
            /\ mem' = [mem EXCEPT ![p] = s]
            /\ now' = [now EXCEPT ![p] = IF boots THEN Flush(p, s, s) ELSE Idle]
            /\ life' = [life EXCEPT ![p] = IF boots THEN "booting"
                                           ELSE IF connects THEN "seeding" ELSE "up"]
            /\ ~connects /\ ~boots => s = file
      BY <2>2, StartsAs
    <3>2. persisted'[p] = file /\ mem'[p] = s  BY <2>2, <3>1 DEF Start, TypeOK
    <3>3. CASE connects  BY <3>1, <3>3 DEF TypeOK
    <3>4. CASE ~connects /\ boots
      <4>1. life'[p] = "booting" /\ now'[p] = Flush(p, s, s)  BY <3>1, <3>4 DEF TypeOK
      <4>2. QED  BY <3>2, <4>1 DEF Agrees, Flush, Idle
    <3>5. CASE ~connects /\ ~boots
      <4>1. now'[p] = Idle /\ s = file /\ life'[p] = "up"  BY <3>1, <3>5 DEF TypeOK
      <4>2. QED  BY <3>2, <4>1 DEF Agrees, Idle
    <3>6. QED  BY <3>3, <3>4, <3>5
  \* a process with PostgreSQL keeps it
  <2>21. ASSUME NEW p \in Processes, attached[p],
                Step(p) \/ FlushFails(p) \/ CommitFails(p) \/ SeedFails(p)
         PROVE  attached'[p]
    BY <2>21 DEF Step, Seed, Begin, PrimaryCommits, PrimaryReplies, TakeLock, Compare, Rename,
                 Unlock, Locked, FlushFails, CommitFails, SeedFails
  <2>3. ASSUME NEW p \in Processes, ~attached[p], Agrees(p), Begin(p) PROVE Agrees(p)'
    <3> USE <2>3
    <3> DEFINE m == Head(queue[p])
               next == Append(mem[p], m)
    <3>1. now' = [now EXCEPT ![p] = Flush(m, next, mem[p])] /\ mem' = [mem EXCEPT ![p] = next]
      BY <2>3 DEF Begin
    <3>2. life'[p] = "up" /\ persisted'[p] = persisted[p] /\ mem[p] = persisted[p]
      BY <2>3 DEF Begin, Agrees
    <3> HIDE DEF m, next
    <3>3. now'[p] = Flush(m, next, mem[p]) /\ mem'[p] = next  BY <3>1 DEF TypeOK
    <3>4. QED  BY <3>2, <3>3 DEF Agrees, Flush, Idle
  <2>4. ASSUME NEW p \in Processes, ~attached[p], Agrees(p), TakeLock(p) PROVE Agrees(p)'
    <3> USE <2>4
    <3>1. now[p] \in Operation(p)  BY <2>4, Operating DEF TakeLock
    <3>2. now'[p] = [now[p] EXCEPT !.phase = "compare"]  BY <2>4 DEF TakeLock, TypeOK
    <3>3. UNCHANGED <<mem, life, attached, persisted>>  BY <2>4 DEF TakeLock
    <3>4. now[p].phase = "lock"  BY <2>4 DEF TakeLock
    <3>5. QED  BY <3>1, <3>2, <3>3, <3>4 DEF Agrees, Operation, Idle
  <2>5. ASSUME NEW p \in Processes, ~attached[p], Agrees(p), Compare(p) PROVE Agrees(p)'
    <3> USE <2>5
    <3>1. now[p] \in Operation(p) /\ now[p].phase = "compare"  BY <2>5, Operating DEF Compare
    <3>2. \/ now'[p] = [now[p] EXCEPT !.phase = "rename"]
          \/ now'[p] = [now[p] EXCEPT !.phase = "unlock", !.ok = FALSE]
      BY <2>5 DEF Compare, TypeOK
    <3>3. UNCHANGED <<mem, life, attached, persisted>>  BY <2>5 DEF Compare
    <3>4. /\ now'[p].state = now[p].state /\ now'[p].before = now[p].before
          /\ \/ now'[p].phase = "rename" /\ now'[p].ok = now[p].ok
             \/ now'[p].phase = "unlock" /\ now'[p].ok = FALSE
      BY <3>1, <3>2 DEF Operation
    <3>5. QED  BY <3>1, <3>3, <3>4 DEF Agrees, Idle
  <2>6. ASSUME NEW p \in Processes, ~attached[p], Agrees(p), Rename(p) PROVE Agrees(p)'
    <3> USE <2>6
    <3>1. now[p] \in Operation(p) /\ now[p].phase = "rename"  BY <2>6, Operating DEF Rename
    <3>2. now'[p] = [now[p] EXCEPT !.phase = "unlock"] /\ persisted'[p] = now[p].state
      BY <2>6 DEF Rename, TypeOK
    <3>3. UNCHANGED <<mem, life>>  BY <2>6 DEF Rename
    <3>4. QED  BY <3>1, <3>2, <3>3 DEF Agrees, Operation, Idle
  <2>7. ASSUME NEW p \in Processes, ~attached[p], Agrees(p), Unlock(p) \/ Locked(p) PROVE Agrees(p)'
    <3> USE <2>7
    <3>1. CASE Unlock(p)
      <4>1. now[p] \in Operation(p)  BY <3>1, Operating DEF Unlock
      <4>2. now[p].ok \in BOOLEAN  BY <4>1 DEF Operation
      <4>3. QED  BY <3>1, <4>2, SettlesAgrees DEF Unlock
    <3>2. CASE Locked(p)  BY <3>2, SettlesAgrees DEF Locked
    <3>3. QED  BY <2>7, <3>1, <3>2
  <2>8. ASSUME NEW p \in Processes, ~attached[p], Agrees(p), FlushFails(p) PROVE Stuck' \/ Agrees(p)'
    <3> USE <2>8
    <3>1. UNCHANGED <<lock, attached, persisted>>  BY <2>8 DEF FlushFails, world
    <3>2. CASE now[p].phase = "lock" /\ Settles(p, FALSE)
      BY <3>1, <3>2, SettlesAgrees
    <3>3. CASE now[p].phase = "unlock" /\ Settles(p, FALSE)
      <4>1. lock' /\ \A q \in Processes : q # p => ~Writing(q)
        BY <3>1, <3>3 DEF OneWriter, Writing
      <4>2. now' = [now EXCEPT ![p] = Idle] /\ Idle.phase = "idle"  BY <3>3 DEF Settles, Idle
      <4>3. \A q \in Processes : ~Writing(q)'  BY <4>1, <4>2 DEF Writing, TypeOK
      <4>4. QED  BY <4>1, <4>3 DEF Stuck, Writing
    <3>4. CASE /\ now[p].phase \in {"compare", "rename"}
               /\ now' = [now EXCEPT ![p].phase = "unlock", ![p].ok = FALSE]
               /\ UNCHANGED <<mem, life, answers>>
      <4>1. now[p] \in Operation(p)  BY <3>4, Operating
      <4>2. now'[p] = [now[p] EXCEPT !.phase = "unlock", !.ok = FALSE]  BY <3>4 DEF TypeOK
      <4>3. /\ now'[p].before = now[p].before
            /\ now'[p].phase = "unlock" /\ now'[p].ok = FALSE
        BY <4>1, <4>2 DEF Operation
      <4>4. (life[p] = "up" => now[p].before = persisted[p]) /\ Agrees(p)
        BY <3>4 DEF Agrees
      <4>5. UNCHANGED <<life, attached, persisted>>  BY <3>1, <3>4
      <4>6. QED  BY <4>3, <4>4, <4>5 DEF Agrees, Idle
    <3>5. QED  BY <2>8, <3>2, <3>3, <3>4 DEF FlushFails
  <2>9. ASSUME NEW p \in Processes, Crash(p) PROVE Agrees(p)'
    BY <2>9 DEF Crash, TypeOK, Agrees, Idle
  <2>10. ASSUME NEW p \in Processes, ~attached[p], Agrees(p),
                \/ PrimaryCommits(p) \/ PrimaryReplies(p) \/ CommitFails(p)
                \/ Seed(p) \/ SeedFails(p)
         PROVE  FALSE
    BY <2>10 DEF PrimaryCommits, PrimaryReplies, CommitFails, Seed, SeedFails, Agrees
  <2>11. CASE UNCHANGED <<now, life, attached, mem, persisted>>  BY <2>11 DEF Agrees
  <2>12. ASSUME NEW p \in Processes,
                Step(p) \/ FlushFails(p) \/ CommitFails(p) \/ SeedFails(p)
         PROVE  Stuck' \/ attached'[p] \/ Agrees(p)'
    BY <2>12, <2>21, <2>3, <2>4, <2>5, <2>6, <2>7, <2>8, <2>10 DEF Step
  <2>13. QED
    BY <1>2, <2>1, <2>2, <2>9, <2>11, <2>12 DEF Next, Submit, Throws, vars
<1>5. QED  BY <1>3, <1>4 DEF Remembers

\* In particular: between two mutations memory is what the file holds, if the file
\* is still the one the process saw (MemoryIsStore in Database).
THEOREM MemoryFollowsStore == Spec => []MemoryIsStore
<1>1. ASSUME Init PROVE Remembers
  BY <1>1 DEF Init, Remembers, Agrees, Idle
<1>2. ASSUME TypeOK, Remembers PROVE MemoryIsStore
  BY <1>2 DEF MemoryIsStore, Remembers, Stuck, Agrees
<1>3. QED
  BY <1>1, <1>2, Remembering, TypeCorrect, AtMostOneWriter, PTL DEF Spec

-----------------------------------------------------------------------------
(* The refinement of SerialStore.  What the store holds is never far from the *)
(* memory of whoever can write it: a rename puts one mutation on top of the   *)
(* file it was compared with, and a commit to PostgreSQL puts one on top of   *)
(* a beginning of the row that holds all that was acknowledged.               *)

LEMMA AppendFacts ==
  ASSUME NEW S, NEW s \in Seq(S), NEW m \in S
  PROVE  LET t == Append(s, m) IN
         /\ t \in Seq(S) /\ t # <<>> /\ Last(t) = m /\ Len(t) = Len(s) + 1
         /\ \A i \in 1 .. Len(s) : t[i] = s[i]
         /\ Range(t) = Range(s) \cup {m}
         /\ IsInjective(s) /\ m \notin Range(s) => IsInjective(t)
<1> DEFINE t == Append(s, m)
<1>1. /\ t \in Seq(S) /\ t # <<>> /\ Len(t) = Len(s) + 1 /\ t[Len(s) + 1] = m
      /\ \A i \in 1 .. Len(s) : t[i] = s[i]
      /\ DOMAIN t = 1 .. Len(s) + 1 /\ DOMAIN s = 1 .. Len(s) /\ Len(s) \in Nat
  OBVIOUS
<1> HIDE DEF t
<1>2. Last(t) = m  BY <1>1 DEF Last
<1>3. \A i \in 1 .. Len(s) + 1 : i \in 1 .. Len(s) \/ i = Len(s) + 1  BY <1>1
<1>4. Range(t) = Range(s) \cup {m}
  <2>1. Range(t) \subseteq Range(s) \cup {m}  BY <1>1, <1>3 DEF Range
  <2>2. Range(s) \subseteq Range(t)  BY <1>1 DEF Range
  <2>3. m \in Range(t)  BY <1>1 DEF Range
  <2>4. QED  BY <2>1, <2>2, <2>3
<1>5. IsInjective(s) /\ m \notin Range(s) => IsInjective(t)
  BY <1>1, <1>3 DEF IsInjective, Range
<1>6. QED  BY <1>1, <1>2, <1>4, <1>5 DEF t

LEMMA TailFacts ==
  ASSUME NEW S, NEW s \in Seq(S), s # <<>>
  PROVE  /\ Head(s) \in S /\ Tail(s) \in Seq(S)
         /\ Range(s) = Range(Tail(s)) \cup {Head(s)}
         /\ IsInjective(s) => IsInjective(Tail(s)) /\ Head(s) \notin Range(Tail(s))
<1> DEFINE t == Tail(s)
<1>1. /\ Head(s) \in S /\ t \in Seq(S) /\ Len(s) \in Nat \ {0} /\ Len(t) = Len(s) - 1
      /\ \A i \in 1 .. Len(t) : t[i] = s[i + 1]
      /\ Head(s) = s[1] /\ DOMAIN t = 1 .. Len(t) /\ DOMAIN s = 1 .. Len(s)
  OBVIOUS
<1> HIDE DEF t
<1>2. Range(s) = Range(t) \cup {Head(s)}
  <2>1. ASSUME NEW i \in DOMAIN s PROVE s[i] \in Range(t) \cup {Head(s)}
    <3>1. CASE i = 1  BY <1>1, <3>1
    <3>2. CASE i # 1
      <4>1. i - 1 \in 1 .. Len(t) /\ s[i] = t[i - 1]  BY <1>1, <2>1, <3>2
      <4>2. QED  BY <1>1, <4>1 DEF Range
    <3>3. QED  BY <3>1, <3>2
  <2>2. ASSUME NEW i \in DOMAIN t PROVE t[i] \in Range(s)
    BY <1>1, <2>2 DEF Range
  <2>3. Head(s) \in Range(s)  BY <1>1 DEF Range
  <2>4. QED  BY <2>1, <2>2, <2>3 DEF Range
<1>3. IsInjective(s) => IsInjective(t)
  <2> SUFFICES ASSUME IsInjective(s), NEW i \in DOMAIN t, NEW j \in DOMAIN t, t[i] = t[j]
               PROVE  i = j
    BY DEF IsInjective
  <2>1. s[i + 1] = s[j + 1] /\ i + 1 \in DOMAIN s /\ j + 1 \in DOMAIN s  BY <1>1
  <2>2. i + 1 = j + 1  BY <2>1 DEF IsInjective
  <2>3. QED  BY <1>1, <2>2
<1>4. IsInjective(s) => Head(s) \notin Range(t)
  <2> SUFFICES ASSUME IsInjective(s), NEW i \in DOMAIN t, t[i] = Head(s) PROVE FALSE
    BY DEF Range
  <2>1. s[i + 1] = s[1] /\ i + 1 \in DOMAIN s /\ 1 \in DOMAIN s  BY <1>1
  <2>2. i + 1 = 1  BY <2>1 DEF IsInjective
  <2>3. QED  BY <1>1, <2>2
<1>5. QED  BY <1>1, <1>2, <1>3, <1>4 DEF t

LEMMA FirstPart ==
  ASSUME NEW S, NEW s \in Seq(S), NEW t \in Seq(S), Len(s) \leq Len(t),
         \A i \in 1 .. Len(s) : s[i] = t[i]
  PROVE  SubSeq(t, 1, Len(s)) = s
<1>1. /\ SubSeq(t, 1, Len(s)) \in Seq(S) /\ Len(SubSeq(t, 1, Len(s))) = Len(s)
      /\ \A i \in 1 .. Len(s) : SubSeq(t, 1, Len(s))[i] = t[i]
  OBVIOUS
<1>2. QED  BY <1>1, SeqEqual

TheStore == Stored(IF mode = "cutover" /\ primary # NoFile THEN primary ELSE file)

\* What the store has to keep.
Standing == acked \ strayed

\* The mutations that wait for an answer of a process.
Pending(p) == {m \in Mutations : m \in Range(queue[p]) \/ (now[p] # Idle /\ now[p].m = m)}

\* Everything that was acknowledged and has to be kept is in s, which is the beginning of t.
Kept(s, t) ==
  /\ Len(s) \leq Len(t) /\ \A i \in 1 .. Len(s) : s[i] = t[i]
  /\ \A i \in Len(s) + 1 .. Len(t) : t[i] \notin Standing

\* An operation of a process without PostgreSQL.
Flushing(p) ==
  LET o == now[p] IN
    /\ o.phase \notin {"primary", "committed"}
    /\ mem[p] = o.state
    /\ o.m \in Mutations => o.state = Append(o.before, o.m)
    /\ o.m \notin Mutations /\ o.phase # "unlock" => o.state = <<>> /\ persisted[p] = NoFile
    /\ o.phase = "unlock" /\ o.ok => file = o.state

\* An operation of a process with it: until the primary has answered, memory is
\* as it was before, and afterwards it is what the store holds.
Committing(p) ==
  LET o == now[p] IN
    IF o.phase \in {"primary", "committed"}
    THEN /\ o.m \in Mutations /\ o.state = Append(mem[p], o.m) /\ o.before = mem[p]
         /\ o.phase = "committed" => primary = o.state
    ELSE o.state = mem[p] /\ o.before = mem[p] /\ mem[p] = TheStore

Working(p) ==
  now[p] # Idle =>
    LET o == now[p] IN
      /\ IF life[p] = "booting" THEN o.m = p ELSE o.m \in Mutations
      /\ o.m \notin Range(queue[p])
      /\ IsInjective(o.state) /\ IsInjective(o.before)
      /\ Range(o.state) \subseteq Range(mem[p]) \cup {o.m}
      /\ Range(o.before) \subseteq Range(mem[p])
      /\ o.m \in Mutations => o.state # <<>> /\ Last(o.state) = o.m
      /\ IF attached[p] THEN Committing(p) ELSE Flushing(p)

Tidy(p) ==
  /\ IsInjective(queue[p]) /\ IsInjective(mem[p])
  /\ Range(queue[p]) \cap Range(mem[p]) = {}
  /\ attached[p] /\ life[p] # "down" => Kept(mem[p], TheStore)
  /\ life[p] = "seeding" => attached[p] /\ primary = NoFile /\ mem[p] = Stored(file)

\* A mutation waits in one place, and it has no answer yet.
Separate ==
  /\ \A p \in Processes : Pending(p) \cap (acked \cup refused) = {}
  /\ \A p, q \in Processes : p # q => Pending(p) \cap Pending(q) = {}

\* Of a server that may use PostgreSQL only one process is up.
Shared ==
  /\ IsInjective(Stored(file)) /\ IsInjective(Stored(primary))
  /\ mode = "cutover" =>
       \A p, q \in Processes : life[p] # "down" /\ life[q] # "down" => p = q

Serial == Separate /\ Shared /\ \A p \in Processes : Tidy(p) /\ Working(p)

Promised == Store!Next \/ UNCHANGED Store!vars

LEMMA StoreType == ASSUME TypeOK PROVE TheStore \in Seq(Mutations)
  BY StoredType DEF TheStore, TypeOK, States

LEMMA EmptyFacts == IsInjective(<<>>) /\ Range(<<>>) = {} /\ <<>> \in States /\ Len(<<>>) = 0
<1>1. DOMAIN <<>> = {} /\ <<>> \in States /\ Len(<<>>) = 0
  BY DEF States
<1>2. QED  BY <1>1 DEF IsInjective, Range

\* The others are as they were when one process takes a step.
LEMMA OthersSerial ==
  ASSUME TypeOK, OneWriter, Serial, NEW p \in Processes, mode' = mode,
         \A q \in Processes : q # p =>
           /\ now'[q] = now[q] /\ life'[q] = life[q] /\ mem'[q] = mem[q]
           /\ queue'[q] = queue[q] /\ persisted'[q] = persisted[q] /\ attached'[q] = attached[q],
         mode = "cutover" => \A q \in Processes : q # p => life[q] = "down",
         file' = file \/ now[p].phase = "rename",
         Tidy(p)', Working(p)'
  PROVE  \A q \in Processes : Tidy(q)' /\ Working(q)'
<1> SUFFICES ASSUME NEW q \in Processes, q # p PROVE Tidy(q)' /\ Working(q)'
  OBVIOUS
<1>1. Tidy(q) /\ Working(q)  BY DEF Serial
<1>2. /\ now'[q] = now[q] /\ life'[q] = life[q] /\ mem'[q] = mem[q]
      /\ queue'[q] = queue[q] /\ persisted'[q] = persisted[q] /\ attached'[q] = attached[q]
  OBVIOUS
<1>3. attached[q] => life[q] = "down" /\ now[q] = Idle  BY DEF TypeOK
<1>31. life[q] # "seeding"  BY <1>1, <1>3 DEF Tidy
<1>4. now[q].phase = "unlock" => file' = file
  BY DEF OneWriter, Writing
<1>5. Tidy(q)'  BY <1>1, <1>2, <1>3, <1>31 DEF Tidy
<1>6. Working(q)'
  BY <1>1, <1>2, <1>3, <1>4 DEF Working, Flushing
<1>7. QED  BY <1>5, <1>6

\* Answers are given to mutations of the process that takes the step.
LEMMA StaysSeparate ==
  ASSUME Separate, NEW p \in Processes,
         \A q \in Processes : q # p => now'[q] = now[q] /\ queue'[q] = queue[q],
         Pending(p)' \subseteq Pending(p),
         acked' \cup refused' \subseteq acked \cup refused \cup (Pending(p) \ Pending(p)')
  PROVE  Separate'
<1>1. \A q \in Processes : q # p => Pending(q)' = Pending(q)  BY DEF Pending
<1> DEFINE A == acked \cup refused
           B == acked' \cup refused'
           P(q) == Pending(q)
           Q(q) == Pending(q)'
<1>2. \A q \in Processes : P(q) \cap A = {}  BY DEF Separate
<1>3. \A q, r \in Processes : q # r => P(q) \cap P(r) = {}  BY DEF Separate
<1>4. Q(p) \subseteq P(p) /\ \A q \in Processes : q # p => Q(q) = P(q)  BY <1>1
<1>5. B \subseteq A \cup (P(p) \ Q(p))  OBVIOUS
<1> HIDE DEF A, B, P, Q
<1>6. \A q \in Processes : Q(q) \cap B = {}  BY <1>2, <1>3, <1>4, <1>5
<1>7. \A q, r \in Processes : q # r => Q(q) \cap Q(r) = {}  BY <1>3, <1>4
<1>8. QED  BY <1>6, <1>7 DEF Separate, B, Q

\* Nobody else is up when a process may use PostgreSQL.
LEMMA Alone ==
  ASSUME Serial, NEW p \in Processes, life[p] # "down"
  PROVE  mode = "cutover" => \A q \in Processes : q # p => life[q] = "down"
  BY DEF Serial, Shared

LEMMA KeptWhole == ASSUME NEW s \in States PROVE Kept(s, s)
  BY DEF Kept, States

\* What the steps of a process have in common.
LEMMA OwnStep ==
  ASSUME TypeOK, OneWriter, Serial, NEW p \in Processes, mode' = mode,
         \A q \in Processes : q # p =>
           /\ now'[q] = now[q] /\ life'[q] = life[q] /\ mem'[q] = mem[q]
           /\ queue'[q] = queue[q] /\ persisted'[q] = persisted[q] /\ attached'[q] = attached[q],
         mode = "cutover" => \A q \in Processes : q # p => life[q] = "down",
         file' = file \/ now[p].phase = "rename",
         Tidy(p)', Working(p)',
         IsInjective(Stored(file)'), IsInjective(Stored(primary)'),
         Pending(p)' \subseteq Pending(p),
         acked' \cup refused' \subseteq acked \cup refused \cup (Pending(p) \ Pending(p)')
  PROVE  Serial'
<1>1. \A q \in Processes : Tidy(q)' /\ Working(q)'  BY OthersSerial
<1>2. Separate'  BY StaysSeparate DEF Serial
<1>3. Shared'  BY DEF Shared
<1>4. QED  BY <1>1, <1>2, <1>3 DEF Serial

LEMMA WriteStep ==
  ASSUME TypeOK, TypeOK', IsInjective(TheStore'), UNCHANGED <<acked, refused, strayed>>,
         NEW s \in States, NEW m \in Mutations, Kept(s, TheStore), TheStore' = Append(s, m),
         m \notin acked \cup refused
  PROVE  Promised
<1> DEFINE t == TheStore
<1>1. t \in Seq(Mutations) /\ s \in Seq(Mutations)  BY StoreType DEF States
<1>2. Len(s) \in 0 .. Len(t) /\ Len(s) \in Nat /\ Len(t) \in Nat  BY <1>1 DEF Kept
<1>3. SubSeq(t, 1, Len(s)) = s  BY <1>1, FirstPart DEF Kept
<1>4. \A i \in Len(s) + 1 .. Len(t) : t[i] \notin Standing  BY DEF Kept
<1>5. Store!Write(m)
  BY <1>2, <1>3, <1>4
  DEF t, TheStore, Standing, Store!Write, Store!Promised, Store!Answered, IsInjective, Store!IsInjective
<1>6. QED  BY <1>5 DEF Promised, Store!Next

\* The operation of a process ends, with an answer if it was a mutation.
LEMMA Settling ==
  ASSUME TypeOK, TypeOK', OneWriter, Serial, NEW p \in Processes, NEW ok \in BOOLEAN,
         now[p].phase # "idle", Settles(p, ok), UNCHANGED <<mode, file, primary, attached, persisted, queue>>,
         ok => now[p].phase = "unlock" /\ now[p].ok
  PROVE  Serial' /\ Promised
<1> DEFINE o == now[p]
           m == o.m
<1>1. o \in Operation(p) /\ o # Idle /\ life[p] # "down" /\ life[p] \in {"up", "booting"}
  BY Operating DEF TypeOK
<1>2. Working(p) /\ Tidy(p)  BY DEF Serial
<1>3. /\ now'[p] = Idle /\ mem'[p] = (IF ok THEN mem[p] ELSE o.before)
      /\ life'[p] \in {"up", "down", "seeding"}
      /\ \A q \in Processes : q # p => now'[q] = now[q] /\ life'[q] = life[q] /\ mem'[q] = mem[q]
  BY <1>1 DEF Settles, TypeOK
<1> DEFINE stray == mode = "cutover" /\ ~attached[p] /\ primary # NoFile
<1>4. /\ m \in Mutations /\ ok => acked' = acked \cup {m} /\ refused' = refused
      /\ m \in Mutations /\ ~ok => acked' = acked /\ refused' = refused \cup {m}
      /\ m \notin Mutations => acked' = acked /\ refused' = refused
      /\ m \in Mutations /\ ok /\ stray => strayed' = strayed \cup {m}
      /\ ~(m \in Mutations /\ ok /\ stray) => strayed' = strayed
  BY DEF Settles, Answers
<1>5. Pending(p) = Pending(p)' \cup ({m} \cap Mutations) /\ m \notin Pending(p)'
  <2>1. Pending(p) = {x \in Mutations : x \in Range(queue[p]) \/ m = x}  BY <1>1 DEF Pending
  <2>2. Pending(p)' = {x \in Mutations : x \in Range(queue[p])}  BY <1>3 DEF Pending
  <2>3. m \notin Range(queue[p])  BY <1>1, <1>2 DEF Working
  <2> HIDE DEF m
  <2>4. QED  BY <2>1, <2>2, <2>3
<1>6. acked' \cup refused' \subseteq acked \cup refused \cup (Pending(p) \ Pending(p)')
  <2>1. m \in Mutations => m \in Pending(p) \ Pending(p)'  BY <1>5
  <2> HIDE DEF m
  <2>2. QED  BY <1>4, <2>1
<1>7. Working(p)'  BY <1>3 DEF Working
<1>8. Tidy(p)'
  <2>1. IsInjective(mem'[p]) /\ Range(queue'[p]) \cap Range(mem'[p]) = {}
    BY <1>1, <1>2, <1>3 DEF Working, Tidy
  <2>2. ASSUME attached[p] PROVE Kept(mem[p], TheStore)' /\ mem'[p] = mem[p]
    <3>1. Kept(mem[p], TheStore) /\ Committing(p)
      BY <1>1, <1>2, <2>2 DEF Tidy, Working
    <3>2. mem'[p] = mem[p]
      BY <1>3, <3>1 DEF Committing
    <3>3. CASE ok
      <4>1. mem[p] = TheStore  BY <3>1, <3>3 DEF Committing
      <4>2. mem[p] \in Seq(Mutations)  BY DEF TypeOK, States
      <4>3. Len(mem[p]) \in Nat  BY <4>2
      <4> DEFINE s == mem[p]
      <4>4. \A i \in Len(s) + 1 .. Len(s) : FALSE  BY <4>3
      <4>5. TheStore' = s /\ mem'[p] = s  BY <3>2, <4>1 DEF TheStore
      <4> HIDE DEF s
      <4>6. Len(s) \leq Len(s)  BY <4>3 DEF s
      <4>7. QED  BY <3>2, <4>4, <4>5, <4>6 DEF Kept
    <3>4. CASE ~ok
      <4>1. Standing' = Standing  BY <1>4, <3>4 DEF Standing
      <4>2. TheStore' = TheStore  BY DEF TheStore
      <4>3. QED  BY <3>1, <3>2, <4>1, <4>2 DEF Kept
    <3>5. QED  BY <3>3, <3>4
  <2>3. ASSUME life'[p] = "seeding"
        PROVE  attached[p] /\ primary = NoFile /\ mem'[p] = Stored(file)
    <3>1. ok /\ life[p] = "booting" /\ attached[p] /\ primary = NoFile
      BY <1>1, <2>3 DEF Settles, TypeOK
    <3>2. mem[p] = TheStore  BY <1>1, <1>2, <3>1 DEF Working, Committing
    <3>3. QED  BY <1>3, <3>1, <3>2 DEF TheStore
  <2>4. QED  BY <1>1, <1>2, <2>1, <2>2, <2>3 DEF Tidy
<1>9. Serial'
  <2>1. /\ IsInjective(Stored(file)') /\ IsInjective(Stored(primary)')
    BY DEF Serial, Shared
  <2>2. Pending(p)' \subseteq Pending(p)  BY <1>5
  <2>3. QED  BY <1>1, <1>3, <1>6, <1>7, <1>8, <2>1, <2>2, Alone, OwnStep
<1>10. Promised
  <2>1. UNCHANGED TheStore  BY DEF TheStore
  <2>2. CASE m \notin Mutations
    BY <1>4, <2>1, <2>2 DEF Promised, Store!vars, TheStore
  <2>3. CASE m \in Mutations
    <3>1. m \notin acked \cup refused
      <4>1. m \in Pending(p)  BY <1>5, <2>3
      <4>2. QED  BY <4>1 DEF Serial, Separate
    <3>2. CASE ~ok
      <4>1. strayed' = strayed /\ acked' = acked /\ refused' = refused \cup {m}
        BY <1>4, <2>3, <3>2
      <4>2. Store!Refuse(m)  BY <2>1, <2>3, <3>1, <4>1 DEF Store!Refuse, Store!Answered, TheStore
      <4>3. QED  BY <2>3, <4>2 DEF Promised, Store!Next
    <3>3. CASE ok /\ stray
      <4>1. acked' \ strayed' = acked \ strayed
        BY <1>4, <2>3, <3>1, <3>3
      <4>2. refused' = refused  BY <1>4, <2>3, <3>3
      <4>3. QED  BY <2>1, <4>1, <4>2 DEF Promised, Store!vars, TheStore
    <3>4. CASE ok /\ ~stray
      <4>1. o.state # <<>> /\ Last(o.state) = m  BY <1>1, <1>2, <2>3 DEF Working
      <4>2. TheStore = o.state
        <5>1. CASE attached[p]
          BY <1>1, <1>2, <3>4, <5>1 DEF Working, Committing
        <5>2. CASE ~attached[p]
          <6>1. file = o.state  BY <1>1, <1>2, <3>4, <5>2 DEF Working, Flushing
          <6>2. o.state \in States /\ NoFile \notin States
            BY <1>1, DatabaseAssumption DEF Operation, DatabaseAssumption, States
          <6>3. QED  BY <3>4, <5>2, <6>1, <6>2 DEF TheStore, Stored
        <5>3. QED  BY <5>1, <5>2
      <4>3. acked' \ strayed' = (acked \ strayed) \cup {m}
        <5>1. strayed' = strayed /\ acked' = acked \cup {m}  BY <1>4, <2>3, <3>4
        <5>2. m \notin strayed  BY <3>1 DEF TypeOK
        <5>3. QED  BY <5>1, <5>2
      <4>4. refused' = refused  BY <1>4, <2>3, <3>4
      <4> HIDE DEF o
      <4>5. Store!Acknowledge(m)
        BY <2>1, <2>3, <3>1, <4>1, <4>2, <4>3, <4>4
        DEF Store!Acknowledge, Store!Answered, Store!Last, Last, TheStore
      <4>6. QED  BY <2>3, <4>5 DEF Promised, Store!Next
    <3>5. QED  BY <3>2, <3>3, <3>4
  <2>4. QED  BY <2>2, <2>3
<1>11. QED  BY <1>9, <1>10

LEMMA Starting ==
  ASSUME TypeOK, TypeOK', OneWriter, Serial, NEW p \in Processes, Start(p)
  PROVE  Serial' /\ Promised
<1>1. PICK s \in States, boots \in BOOLEAN, connects \in BOOLEAN :
        /\ connects => mode = "cutover"
        /\ attached' = [attached EXCEPT ![p] = connects]
        /\ mem' = [mem EXCEPT ![p] = s]
        /\ now' = [now EXCEPT ![p] = IF boots THEN Flush(p, s, s) ELSE Idle]
        /\ life' = [life EXCEPT ![p] = IF boots THEN "booting"
                                       ELSE IF connects THEN "seeding" ELSE "up"]
        /\ ~connects => s = Stored(file) /\ (~boots => s = file) /\ (boots => file = NoFile)
        /\ connects => IF primary # NoFile THEN s = primary /\ boots
                       ELSE s = Stored(file) /\ (boots <=> file = NoFile)
  BY StartsAs
<1>2. /\ life[p] = "down" /\ now[p] = Idle /\ queue[p] = <<>>
      /\ mode = "cutover" => \A q \in Processes : life[q] = "down"
      /\ UNCHANGED <<mode, file, lock, primary, queue, acked, refused, strayed>>
      /\ persisted' = [persisted EXCEPT ![p] = file]
  BY DEF Start, TypeOK, world, answers
<1>3. /\ attached'[p] = connects /\ mem'[p] = s /\ persisted'[p] = file
      /\ now'[p] = IF boots THEN Flush(p, s, s) ELSE Idle
      /\ life'[p] = IF boots THEN "booting" ELSE IF connects THEN "seeding" ELSE "up"
      /\ \A q \in Processes : q # p =>
           /\ now'[q] = now[q] /\ life'[q] = life[q] /\ mem'[q] = mem[q]
           /\ queue'[q] = queue[q] /\ persisted'[q] = persisted[q] /\ attached'[q] = attached[q]
  BY <1>1, <1>2 DEF TypeOK
<1>4. IsInjective(s)
  <2>1. primary # NoFile => Stored(primary) = primary  BY DEF Stored
  <2>2. QED  BY <1>1, <2>1 DEF Serial, Shared
<1>5. connects => s = TheStore  BY <1>1 DEF TheStore, Stored
<1>6. ~connects /\ boots => s = <<>> /\ file = NoFile  BY <1>1 DEF Stored
<1>7. p \notin Mutations  BY DatabaseAssumption DEF DatabaseAssumption
<1>8. UNCHANGED <<TheStore, Standing>>  BY <1>2 DEF TheStore, Standing
<1>9. Tidy(p)'
  <2>1. ASSUME connects PROVE Kept(mem[p], TheStore)'
    <3>1. Kept(s, s)  BY KeptWhole
    <3>2. Kept(s, TheStore)'  BY <1>5, <1>8, <2>1, <3>1 DEF Kept
    <3>3. QED  BY <1>3, <3>2 DEF Kept
  <2>2. life'[p] = "seeding" => connects /\ primary = NoFile /\ s = Stored(file)
    BY <1>1, <1>3
  <2>3. QED  BY <1>2, <1>3, <1>4, <2>1, <2>2, EmptyFacts DEF Tidy
<1>10. Working(p)'
  <2> SUFFICES ASSUME now'[p] # Idle PROVE Working(p)'
    BY DEF Working
  <2>1. boots /\ now'[p] = Flush(p, s, s) /\ life'[p] = "booting"  BY <1>3
  <2>2. /\ now'[p].phase = "lock" /\ now'[p].m = p /\ now'[p].state = s /\ now'[p].before = s
    BY <2>1 DEF Flush
  <2>3. connects => Committing(p)'
    BY <1>3, <1>5, <1>8, <2>2 DEF Committing
  <2>4. ~connects => Flushing(p)'
    BY <1>3, <1>6, <1>7, <2>1, <2>2 DEF Flushing
  <2>5. Range(queue'[p]) = {}  BY <1>2, EmptyFacts
  <2>6. QED  BY <1>3, <1>4, <1>7, <2>1, <2>2, <2>3, <2>4, <2>5 DEF Working
<1>11. Pending(p)' \subseteq Pending(p)
  <2>1. now'[p] = Idle \/ now'[p].m = p  BY <1>3 DEF Flush
  <2>2. QED  BY <1>2, <1>7, <2>1 DEF Pending
<1>12. IsInjective(Stored(file)') /\ IsInjective(Stored(primary)')
  BY <1>2 DEF Serial, Shared
<1>13. Serial'  BY <1>2, <1>3, <1>9, <1>10, <1>11, <1>12, OwnStep
<1>14. Promised  BY <1>2 DEF Promised, Store!vars
<1>15. QED  BY <1>13, <1>14

\* The row is what memory and file hold: for the store nothing changes.
LEMMA Seeding ==
  ASSUME TypeOK, TypeOK', OneWriter, Serial, NEW p \in Processes, Seed(p) \/ SeedFails(p)
  PROVE  Serial' /\ Promised
<1>1. /\ life[p] = "seeding" /\ life' = [life EXCEPT ![p] = "up"]
      /\ primary' = mem[p] \/ primary' = primary
      /\ UNCHANGED <<mode, file, lock, attached, mem, persisted, queue, now, acked, refused, strayed>>
  BY DEF Seed, SeedFails, world, answers
<1>2. Tidy(p) /\ Working(p)  BY DEF Serial
<1>3. /\ attached[p] /\ mode = "cutover" /\ primary = NoFile /\ mem[p] = Stored(file)
      /\ now[p] = Idle /\ life'[p] = "up"
      /\ \A q \in Processes : q # p => life'[q] = life[q]
  BY <1>1, <1>2 DEF Tidy, TypeOK
<1>4. mem[p] \in States /\ mem[p] # NoFile
  BY DatabaseAssumption DEF TypeOK, DatabaseAssumption, States
<1>5. TheStore' = TheStore /\ TheStore = mem[p]
  BY <1>1, <1>3, <1>4 DEF TheStore, Stored
<1>6. Standing' = Standing  BY <1>1 DEF Standing
<1>7. Tidy(p)'
  <2>1. Kept(mem[p], TheStore)'
    BY <1>1, <1>2, <1>3, <1>5, <1>6 DEF Tidy, Kept
  <2>2. QED  BY <1>1, <1>2, <1>3, <2>1 DEF Tidy
<1>8. Working(p)'  BY <1>1, <1>3 DEF Working
<1>9. Pending(p)' \subseteq Pending(p)  BY <1>1 DEF Pending
<1>10. IsInjective(Stored(file)') /\ IsInjective(Stored(primary)')
  BY <1>1, <1>2, <1>4 DEF Serial, Shared, Stored, Tidy
<1>11. Serial'
  <2>1. mode = "cutover" => \A q \in Processes : q # p => life[q] = "down"  BY <1>1, Alone
  <2>2. QED  BY <1>1, <1>3, <1>7, <1>8, <1>9, <1>10, <2>1, OwnStep
<1>12. Promised  BY <1>1, <1>5 DEF Promised, Store!vars, TheStore
<1>13. QED  BY <1>11, <1>12

LEMMA Submitting ==
  ASSUME TypeOK, TypeOK', OneWriter, Serial, NEW p \in Processes, NEW m \in Mutations,
         Submit(p, m)
  PROVE  Serial' /\ Promised
<1>1. /\ life[p] = "up" /\ m \notin Submitted /\ m \notin Range(mem[p])
      /\ queue' = [queue EXCEPT ![p] = Append(queue[p], m)]
      /\ UNCHANGED <<mode, file, lock, primary, life, attached, mem, persisted, now, acked, refused, strayed>>
  BY DEF Submit, world, answers
<1>2. queue'[p] = Append(queue[p], m) /\ \A q \in Processes : q # p => queue'[q] = queue[q]
  BY <1>1 DEF TypeOK
<1>3. queue[p] \in Seq(Mutations)  BY DEF TypeOK, States
<1>4. m \notin acked \cup refused /\ \A q \in Processes : m \notin Pending(q)
  BY <1>1 DEF Submitted, Pending
<1>5. m \notin Range(queue[p]) /\ (now[p] # Idle => now[p].m # m)
  BY <1>4 DEF Pending
<1>6. /\ Range(queue'[p]) = Range(queue[p]) \cup {m}
      /\ IsInjective(queue[p]) => IsInjective(queue'[p])
  BY <1>2, <1>3, <1>5, AppendFacts
<1>7. Tidy(p) /\ Working(p)  BY DEF Serial
<1>8. Tidy(p)'  BY <1>1, <1>6, <1>7 DEF Tidy, Kept, TheStore, Standing
<1>9. Working(p)'
  BY <1>1, <1>5, <1>6, <1>7 DEF Working, Committing, Flushing, TheStore
<1>10. \A q \in Processes : Tidy(q)' /\ Working(q)'
  <2>1. mode = "cutover" => \A q \in Processes : q # p => life[q] = "down"
    BY <1>1, Alone
  <2>2. QED  BY <1>1, <1>2, <1>8, <1>9, <2>1, OthersSerial
<1>11. Separate'
  <2>1. Pending(p)' = Pending(p) \cup {m}  BY <1>1, <1>6 DEF Pending
  <2>2. \A q \in Processes : q # p => Pending(q)' = Pending(q)  BY <1>1, <1>2 DEF Pending
  <2> DEFINE P(q) == Pending(q)
             Q(q) == Pending(q)'
  <2>3. /\ \A q \in Processes : P(q) \cap (acked \cup refused) = {}
        /\ \A q, r \in Processes : q # r => P(q) \cap P(r) = {}
    BY DEF Serial, Separate
  <2>4. /\ Q(p) = P(p) \cup {m} /\ \A q \in Processes : q # p => Q(q) = P(q)
        /\ \A q \in Processes : m \notin P(q)
    BY <1>4, <2>1, <2>2
  <2> HIDE DEF P, Q
  <2>5. \A q \in Processes : Q(q) \cap (acked \cup refused) = {}  BY <1>4, <2>3, <2>4
  <2>6. \A q, r \in Processes : q # r => Q(q) \cap Q(r) = {}  BY <2>3, <2>4
  <2>7. QED  BY <1>1, <2>5, <2>6 DEF Separate, Q
<1>12. Shared'  BY <1>1 DEF Serial, Shared
<1>13. Promised  BY <1>1 DEF Promised, Store!vars
<1>14. QED  BY <1>10, <1>11, <1>12, <1>13 DEF Serial

LEMMA Beginning ==
  ASSUME TypeOK, TypeOK', OneWriter, Serial, NEW p \in Processes, Begin(p)
  PROVE  Serial' /\ Promised
<1> DEFINE m == Head(queue[p])
           next == Append(mem[p], m)
<1>1. /\ life[p] = "up" /\ now[p] = Idle /\ queue[p] # <<>>
      /\ queue' = [queue EXCEPT ![p] = Tail(queue[p])]
      /\ UNCHANGED <<mode, file, lock, primary, life, attached, persisted, acked, refused, strayed>>
      /\ IF attached[p]
         THEN /\ now' = [now EXCEPT ![p] = [Flush(m, next, mem[p]) EXCEPT !.phase = "primary"]]
              /\ UNCHANGED mem
         ELSE /\ now' = [now EXCEPT ![p] = Flush(m, next, mem[p])]
              /\ mem' = [mem EXCEPT ![p] = next]
  BY DEF Begin, world, answers
<1>2. Tidy(p)  BY DEF Serial
<1>3. queue[p] \in Seq(Mutations) /\ mem[p] \in Seq(Mutations)  BY DEF TypeOK, States
<1>4. /\ m \in Mutations /\ Range(queue[p]) = Range(Tail(queue[p])) \cup {m}
      /\ IsInjective(Tail(queue[p])) /\ m \notin Range(Tail(queue[p]))
  BY <1>1, <1>2, <1>3, TailFacts DEF Tidy
<1>5. m \notin Range(mem[p])  BY <1>2, <1>4 DEF Tidy
<1> HIDE DEF m
<1>6. /\ next \in States /\ next # <<>> /\ Last(next) = m
      /\ Range(next) = Range(mem[p]) \cup {m} /\ IsInjective(next)
  <2>1. IsInjective(mem[p])  BY <1>2 DEF Tidy
  <2>2. QED  BY <1>3, <1>4, <1>5, <2>1, AppendFacts DEF States
<1>7. next = Append(mem[p], m)  OBVIOUS
<1> HIDE DEF next
<1>8. \A q \in Processes : q # p =>
        /\ now'[q] = now[q] /\ life'[q] = life[q] /\ mem'[q] = mem[q]
        /\ queue'[q] = queue[q] /\ persisted'[q] = persisted[q] /\ attached'[q] = attached[q]
  BY <1>1 DEF TypeOK
<1>9. /\ now'[p].m = m /\ now'[p].state = next /\ now'[p].before = mem[p] /\ now'[p] # Idle
      /\ queue'[p] = Tail(queue[p])
      /\ attached[p] => now'[p].phase = "primary" /\ mem'[p] = mem[p]
      /\ ~attached[p] => now'[p].phase = "lock" /\ mem'[p] = next
  BY <1>1 DEF TypeOK, Flush, Idle
<1>10. Tidy(p)'
  <2>1. Range(queue'[p]) \cap Range(mem'[p]) = {}
    BY <1>2, <1>4, <1>6, <1>9 DEF Tidy
  <2>2. IsInjective(queue'[p]) /\ IsInjective(mem'[p])
    BY <1>2, <1>4, <1>6, <1>9 DEF Tidy
  <2>3. attached[p] => Kept(mem[p], TheStore)'
    BY <1>1, <1>2, <1>9 DEF Tidy, Kept, TheStore, Standing
  <2>4. QED  BY <1>1, <2>1, <2>2, <2>3 DEF Tidy
<1>11. Working(p)'
  <2>1. attached[p] => Committing(p)'
    BY <1>1, <1>4, <1>7, <1>9 DEF Committing
  <2>2. ~attached[p] => Flushing(p)'
    BY <1>1, <1>4, <1>7, <1>9 DEF Flushing
  <2>3. IsInjective(mem[p])  BY <1>2 DEF Tidy
  <2>4. Range(mem[p]) \subseteq Range(mem'[p])  BY <1>6, <1>9
  <2>5. Range(next) \subseteq Range(mem'[p]) \cup {m}  BY <1>6, <1>9
  <2>6. QED  BY <1>1, <1>4, <1>6, <1>9, <2>1, <2>2, <2>3, <2>4, <2>5 DEF Working
<1>12. Pending(p)' \subseteq Pending(p)
  <2>1. Pending(p)' = {x \in Mutations : x \in Range(Tail(queue[p])) \/ m = x}
    BY <1>9 DEF Pending
  <2>2. QED  BY <1>4, <2>1 DEF Pending
<1>13. /\ IsInjective(Stored(file)') /\ IsInjective(Stored(primary)')
  BY <1>1 DEF Serial, Shared
<1>14. Serial'
  <2>1. mode = "cutover" => \A q \in Processes : q # p => life[q] = "down"  BY <1>1, Alone
  <2>2. QED  BY <1>1, <1>8, <1>10, <1>11, <1>12, <1>13, <2>1, OwnStep
<1>15. Promised  BY <1>1 DEF Promised, Store!vars
<1>16. QED  BY <1>14, <1>15

LEMMA Throwing ==
  ASSUME TypeOK, TypeOK', OneWriter, Serial, NEW p \in Processes, Throws(p)
  PROVE  Serial' /\ Promised
<1> DEFINE m == Head(queue[p])
<1>1. /\ life[p] = "up" /\ now[p] = Idle /\ queue[p] # <<>> /\ refused' = refused \cup {m}
      /\ queue' = [queue EXCEPT ![p] = Tail(queue[p])]
      /\ UNCHANGED <<mode, file, lock, primary, life, attached, mem, persisted, now, acked, strayed>>
  BY DEF Throws, world
<1>2. Tidy(p)  BY DEF Serial
<1>3. queue[p] \in Seq(Mutations)  BY DEF TypeOK, States
<1>4. /\ m \in Mutations /\ Range(queue[p]) = Range(Tail(queue[p])) \cup {m}
      /\ IsInjective(Tail(queue[p])) /\ m \notin Range(Tail(queue[p]))
  BY <1>1, <1>2, <1>3, TailFacts DEF Tidy
<1> HIDE DEF m
<1>5. queue'[p] = Tail(queue[p]) /\ \A q \in Processes : q # p => queue'[q] = queue[q]
  BY <1>1 DEF TypeOK
<1>6. Tidy(p)'  BY <1>1, <1>2, <1>4, <1>5 DEF Tidy, Kept, TheStore, Standing
<1>7. Working(p)'  BY <1>1 DEF Working
<1>8. Pending(p) = Range(queue[p]) \cap Mutations /\ Pending(p)' = Range(queue'[p]) \cap Mutations
  BY <1>1 DEF Pending
<1>9. Pending(p)' \subseteq Pending(p) /\ m \in Pending(p) \ Pending(p)'
  BY <1>4, <1>5, <1>8
<1>10. acked' \cup refused' \subseteq acked \cup refused \cup (Pending(p) \ Pending(p)')
  BY <1>1, <1>9
<1>11. /\ IsInjective(Stored(file)') /\ IsInjective(Stored(primary)')
  BY <1>1 DEF Serial, Shared
<1>12. Serial'
  <2>1. mode = "cutover" => \A q \in Processes : q # p => life[q] = "down"  BY <1>1, Alone
  <2>2. Pending(p)' \subseteq Pending(p)  BY <1>9
  <2>3. QED  BY <1>1, <1>5, <1>6, <1>7, <1>10, <1>11, <2>1, <2>2, OwnStep
<1>13. m \notin acked \cup refused  BY <1>9 DEF Serial, Separate
<1>14. Store!Refuse(m)  BY <1>1, <1>13 DEF Store!Refuse, Store!Answered
<1>15. Promised  BY <1>4, <1>14 DEF Promised, Store!Next
<1>16. QED  BY <1>12, <1>15

LEMMA CommittingStep ==
  ASSUME TypeOK, TypeOK', OneWriter, Serial, NEW p \in Processes, PrimaryCommits(p)
  PROVE  Serial' /\ Promised
<1> DEFINE o == now[p]
           m == o.m
           s == mem[p]
<1>1. /\ o.phase = "primary" /\ primary' = o.state
      /\ now' = [now EXCEPT ![p] = [o EXCEPT !.phase = "committed"]]
      /\ UNCHANGED <<mode, file, lock, life, attached, mem, persisted, queue, acked, refused, strayed>>
  BY DEF PrimaryCommits, TypeOK, answers
<1>2. o \in Operation(p) /\ o # Idle /\ life[p] # "down"  BY <1>1, Operating
<1>3. Working(p) /\ Tidy(p)  BY DEF Serial
<1>4. attached[p] /\ mode = "cutover" /\ Committing(p)
  BY <1>1, <1>2, <1>3 DEF Working, Flushing, TypeOK
<1>5. m \in Mutations /\ o.state = Append(s, m) /\ o.before = s  BY <1>1, <1>4 DEF Committing
<1>6. Kept(s, TheStore)  BY <1>2, <1>3, <1>4 DEF Tidy
<1>7. s \in Seq(Mutations) /\ o.state \in States /\ IsInjective(o.state)
  BY <1>2, <1>3 DEF TypeOK, States, Working, Operation
<1>8. m \notin acked \cup refused
  <2>1. m \in Pending(p)  BY <1>2, <1>5 DEF Pending
  <2>2. QED  BY <2>1 DEF Serial, Separate
<1>9. Stored(primary)' = o.state /\ TheStore' = o.state
  <2>1. o.state # NoFile
    BY <1>7, DatabaseAssumption DEF DatabaseAssumption, States
  <2>2. QED  BY <1>1, <1>4, <2>1 DEF Stored, TheStore
<1>10. /\ now'[p].phase = "committed" /\ now'[p].m = m /\ now'[p].state = o.state
       /\ now'[p].before = o.before /\ now'[p] # Idle
       /\ \A q \in Processes : q # p => now'[q] = now[q]
  BY <1>1, <1>2 DEF TypeOK, Operation, Idle
<1> HIDE DEF m, s
<1>11. Kept(s, o.state)
  <2>1. /\ Len(o.state) = Len(s) + 1 /\ Last(o.state) = m
        /\ \A i \in 1 .. Len(s) : o.state[i] = s[i]
    BY <1>5, <1>7, AppendFacts
  <2>2. Len(s) \in Nat  BY <1>7
  <2>3. \A i \in Len(s) + 1 .. Len(o.state) : o.state[i] = m
    BY <2>1, <2>2 DEF Last
  <2>4. m \notin Standing  BY <1>8 DEF Standing
  <2> HIDE DEF o
  <2>5. QED  BY <2>1, <2>2, <2>3, <2>4 DEF Kept
<1>12. Tidy(p)'
  <2>1. Kept(mem[p], TheStore)'
    <3>1. mem'[p] = s /\ Standing' = Standing  BY <1>1 DEF s, Standing
    <3>2. QED  BY <1>9, <1>11, <3>1 DEF Kept
  <2>2. life[p] # "seeding"  BY <1>2 DEF TypeOK
  <2>3. QED  BY <1>1, <1>3, <2>1, <2>2 DEF Tidy
<1>13. Working(p)'
  <2>1. Committing(p)'  BY <1>1, <1>5, <1>10 DEF Committing, s
  <2>2. QED  BY <1>1, <1>2, <1>3, <1>4, <1>10, <2>1 DEF Working, m
<1>14. Pending(p)' \subseteq Pending(p)  BY <1>1, <1>2, <1>10 DEF Pending, m
<1>15. /\ IsInjective(Stored(file)') /\ IsInjective(Stored(primary)')
       /\ primary' # NoFile
  <2>1. primary' # NoFile
    BY <1>1, <1>7, DatabaseAssumption DEF DatabaseAssumption, States
  <2>2. QED  BY <1>1, <1>7, <1>9, <2>1 DEF Serial, Shared
<1>16. Serial'
  <2>1. mode = "cutover" => \A q \in Processes : q # p => life[q] = "down"  BY <1>2, Alone
  <2>2. QED  BY <1>1, <1>10, <1>12, <1>13, <1>14, <1>15, <2>1, OwnStep
<1>17. Promised
  <2>2. s \in States /\ m \in Mutations /\ Kept(s, TheStore) /\ TheStore' = Append(s, m)
    BY <1>5, <1>6, <1>7, <1>9 DEF States
  <2>3. IsInjective(TheStore')  BY <1>9, <1>15
  <2> HIDE DEF o
  <2>4. QED  BY <1>1, <1>8, <2>2, <2>3, WriteStep
<1>18. QED  BY <1>16, <1>17

LEMMA ReplyingStep ==
  ASSUME TypeOK, TypeOK', OneWriter, Serial, NEW p \in Processes, PrimaryReplies(p)
  PROVE  Serial' /\ Promised
<1> DEFINE o == now[p]
<1>1. /\ o.phase = "committed" /\ mem' = [mem EXCEPT ![p] = o.state]
      /\ UNCHANGED <<mode, file, lock, primary, life, attached, persisted, queue, acked, refused, strayed>>
  BY DEF PrimaryReplies, answers, world
<1>2. o \in Operation(p) /\ o # Idle /\ life[p] # "down"  BY <1>1, Operating
<1>3. Working(p) /\ Tidy(p)  BY DEF Serial
<1>4. attached[p] /\ mode = "cutover" /\ Committing(p)
  BY <1>1, <1>2, <1>3 DEF Working, Flushing, TypeOK
<1>5. o.m \in Mutations /\ primary = o.state /\ o.state \in States /\ IsInjective(o.state)
  BY <1>1, <1>2, <1>3, <1>4 DEF Committing, Working, Operation
<1>6. TheStore = o.state /\ TheStore' = o.state
  BY <1>1, <1>4, <1>5, DatabaseAssumption DEF Stored, TheStore, DatabaseAssumption, States
<1>7. /\ now'[p].phase = "lock" /\ now'[p].m = o.m /\ now'[p].state = o.state
      /\ now'[p].before = o.state /\ now'[p] # Idle
      /\ \A q \in Processes : q # p => now'[q] = now[q] /\ mem'[q] = mem[q]
      /\ mem'[p] = o.state
  <2>1. now'[p] = [[o EXCEPT !.phase = "lock"] EXCEPT !.before = o.state]
    BY DEF PrimaryReplies, TypeOK
  <2>2. \A q \in Processes : q # p => now'[q] = now[q] /\ mem'[q] = mem[q]
    BY DEF PrimaryReplies, TypeOK
  <2>3. mem'[p] = o.state  BY <1>1 DEF TypeOK
  <2>4. QED  BY <1>2, <2>1, <2>2, <2>3 DEF Operation, Idle
<1>8. Tidy(p)'
  <2>1. Range(queue[p]) \cap Range(o.state) = {}
    BY <1>2, <1>3 DEF Working, Tidy
  <2>2. Kept(o.state, o.state)  BY <1>5, KeptWhole
  <2>3. Kept(mem[p], TheStore)'  BY <1>1, <1>6, <1>7, <2>2 DEF Kept, Standing
  <2>4. life[p] # "seeding"  BY <1>2 DEF TypeOK
  <2>5. QED  BY <1>1, <1>3, <1>5, <1>7, <2>1, <2>3, <2>4 DEF Tidy
<1>9. Working(p)'
  <2>1. Committing(p)'  BY <1>1, <1>6, <1>7 DEF Committing
  <2>2. QED  BY <1>1, <1>2, <1>3, <1>4, <1>5, <1>7, <2>1 DEF Working
<1>10. Pending(p)' \subseteq Pending(p)  BY <1>1, <1>2, <1>7 DEF Pending
<1>11. /\ IsInjective(Stored(file)') /\ IsInjective(Stored(primary)')
  BY <1>1 DEF Serial, Shared
<1>12. Serial'
  <2>1. mode = "cutover" => \A q \in Processes : q # p => life[q] = "down"  BY <1>2, Alone
  <2>2. QED  BY <1>1, <1>7, <1>8, <1>9, <1>10, <1>11, <2>1, OwnStep
<1>13. Promised  BY <1>1 DEF Promised, Store!vars
<1>14. QED  BY <1>12, <1>13

\* A step inside a flush that touches neither memory nor store.
LEMMA FlushStep ==
  ASSUME TypeOK, TypeOK', OneWriter, Serial, NEW p \in Processes,
         TakeLock(p) \/ Compare(p) \/
           (/\ now[p].phase \in {"compare", "rename"}
            /\ now' = [now EXCEPT ![p].phase = "unlock", ![p].ok = FALSE]
            /\ UNCHANGED <<mode, file, primary, life, attached, mem, persisted, queue, acked, refused, strayed>>)
  PROVE  Serial' /\ Promised
<1> DEFINE o == now[p]
           w == now'[p]
<1>1. /\ o.phase \in {"lock", "compare", "rename"}
      /\ UNCHANGED <<mode, file, primary, life, attached, mem, persisted, queue, acked, refused, strayed>>
      /\ \A q \in Processes : q # p => now'[q] = now[q]
  BY DEF TakeLock, Compare, answers, world, TypeOK
<1>2. o \in Operation(p) /\ o # Idle /\ life[p] # "down"  BY <1>1, Operating
<1>3. /\ w.m = o.m /\ w.state = o.state /\ w.before = o.before /\ w # Idle
      /\ w.phase \in {"compare", "rename", "unlock"} /\ (w.phase = "unlock" => ~w.ok)
  <2>1. \/ w = [o EXCEPT !.phase = "compare"]
        \/ w = [o EXCEPT !.phase = "rename"]
        \/ w = [o EXCEPT !.phase = "unlock", !.ok = FALSE]
    BY DEF TakeLock, Compare, TypeOK
  <2>2. QED  BY <1>2, <2>1 DEF Operation, Idle
<1>4. Working(p) /\ Tidy(p)  BY DEF Serial
<1> HIDE DEF o, w
<1>5. Tidy(p)'  BY <1>1, <1>4 DEF Tidy, Kept, TheStore, Standing
<1>6. Working(p)'
  <2>1. attached[p] => Committing(p)'
    BY <1>1, <1>2, <1>3, <1>4 DEF Working, Committing, TheStore, o, w
  <2>2. ~attached[p] => Flushing(p)'
    BY <1>1, <1>2, <1>3, <1>4 DEF Working, Flushing, o, w
  <2>3. QED  BY <1>1, <1>2, <1>3, <1>4, <2>1, <2>2 DEF Working, o, w
<1>7. Pending(p)' \subseteq Pending(p)  BY <1>1, <1>2, <1>3 DEF Pending, o, w
<1>8. /\ IsInjective(Stored(file)') /\ IsInjective(Stored(primary)')
  BY <1>1 DEF Serial, Shared
<1>9. Serial'
  <2>1. mode = "cutover" => \A q \in Processes : q # p => life[q] = "down"  BY <1>2, Alone
  <2>2. QED  BY <1>1, <1>5, <1>6, <1>7, <1>8, <2>1, OwnStep
<1>10. Promised  BY <1>1 DEF Promised, Store!vars
<1>11. QED  BY <1>9, <1>10

LEMMA RenamingStep ==
  ASSUME TypeOK, TypeOK', OneWriter, Remembers, Serial, NEW p \in Processes, Rename(p)
  PROVE  Serial' /\ Promised
<1> DEFINE o == now[p]
           w == now'[p]
           m == o.m
           b == o.before
<1>1. /\ o.phase = "rename" /\ file' = o.state /\ persisted'[p] = o.state
      /\ now' = [now EXCEPT ![p] = [o EXCEPT !.phase = "unlock"]]
      /\ UNCHANGED <<mode, lock, primary, life, attached, mem, queue, acked, refused, strayed>>
      /\ \A q \in Processes : q # p => now'[q] = now[q] /\ persisted'[q] = persisted[q]
  BY DEF Rename, answers, TypeOK
<1>2. o \in Operation(p) /\ o # Idle /\ life[p] \in {"up", "booting"}
  BY <1>1, Operating DEF TypeOK
<1>3. /\ w.m = m /\ w.state = o.state /\ w.before = b /\ w # Idle /\ w.phase = "unlock"
  <2>1. w = [o EXCEPT !.phase = "unlock"]  BY <1>1 DEF TypeOK
  <2>2. QED  BY <1>2, <2>1 DEF Operation, Idle
<1>4. Working(p) /\ Tidy(p)  BY DEF Serial
<1>5. /\ o.state \in States /\ b \in States /\ o.state # NoFile /\ IsInjective(o.state)
      /\ Stored(o.state) = o.state
  <2>1. o.state \in States /\ b \in States  BY <1>2 DEF Operation
  <2>2. o.state # NoFile  BY <2>1, DatabaseAssumption DEF DatabaseAssumption, States
  <2>3. QED  BY <1>2, <1>4, <2>1, <2>2 DEF Stored, Working
<1>6. Stored(file)' = o.state  BY <1>1, <1>5
<1>7. file = persisted[p]  BY <1>1 DEF OneWriter
<1> HIDE DEF o, w, m, b
<1>70. attached[p] => TheStore' = TheStore /\ mem[p] = TheStore /\ o.state = TheStore
  <2> SUFFICES ASSUME attached[p] PROVE TheStore' = TheStore /\ mem[p] = TheStore /\ o.state = TheStore
    OBVIOUS
  <2>1. mem[p] = TheStore /\ o.state = mem[p]
    BY <1>1, <1>2, <1>4 DEF Working, Committing, o
  <2>2. TheStore' = TheStore  BY <1>1, <1>5, <1>6, <2>1 DEF TheStore
  <2>3. QED  BY <2>1, <2>2
<1>8. Tidy(p)'
  <2>1. life[p] # "seeding"  BY <1>2
  <2>2. attached[p] => Kept(mem[p], TheStore)'
    BY <1>1, <1>2, <1>4, <1>70 DEF Tidy, Kept, Standing
  <2>3. QED  BY <1>1, <1>4, <2>1, <2>2 DEF Tidy
<1>9. Working(p)'
  <2>1. attached[p] => Committing(p)'
    BY <1>1, <1>2, <1>3, <1>4, <1>70 DEF Working, Committing, o, w, m, b
  <2>2. ~attached[p] => Flushing(p)'
    BY <1>1, <1>2, <1>3, <1>4 DEF Working, Flushing, o, w, m, b
  <2>3. QED  BY <1>1, <1>2, <1>3, <1>4, <2>1, <2>2 DEF Working, o, w, m, b
<1>10. Pending(p)' \subseteq Pending(p)  BY <1>1, <1>2, <1>3 DEF Pending, o, w, m
<1>12. /\ IsInjective(Stored(file)') /\ IsInjective(Stored(primary)')
  BY <1>1, <1>5, <1>6 DEF Serial, Shared, Stored
<1>13. Serial'
  <2>1. life[p] # "down"  BY <1>2
  <2>2. mode = "cutover" => \A q \in Processes : q # p => life[q] = "down"  BY <2>1, Alone
  <2>3. now[p].phase = "rename"  BY <1>1 DEF o
  <2>4. QED  BY <1>1, <1>8, <1>9, <1>10, <1>12, <2>2, <2>3, OwnStep
<1>14. CASE attached[p] \/ (mode = "cutover" /\ primary # NoFile)
  <2>1. TheStore' = TheStore  BY <1>1, <1>14, <1>70 DEF TheStore
  <2>2. QED  BY <1>1, <1>13, <2>1 DEF Promised, Store!vars, TheStore
<1>15. CASE ~attached[p] /\ ~(mode = "cutover" /\ primary # NoFile)
  <2>1. Flushing(p)  BY <1>2, <1>4, <1>15 DEF Working, o
  <2>2. TheStore = Stored(file) /\ TheStore' = o.state  BY <1>1, <1>6, <1>15 DEF TheStore
  <2>3. CASE m \notin Mutations
    <3>1. o.state = <<>> /\ file = NoFile  BY <1>1, <1>7, <2>1, <2>3 DEF Flushing, o, m
    <3>2. TheStore' = TheStore  BY <2>2, <3>1 DEF Stored
    <3>3. QED  BY <1>1, <1>13, <3>2 DEF Promised, Store!vars, TheStore
  <2>4. CASE m \in Mutations
    <3>1. life[p] = "up"
      <4>1. p \notin Mutations  BY DatabaseAssumption DEF DatabaseAssumption
      <4>2. QED  BY <1>2, <1>4, <2>4, <4>1 DEF Working, o, m
    <3>2. b = file
      <4>1. ~Stuck  BY <1>1 DEF Stuck, Writing, o
      <4>2. Agrees(p)  BY <1>15, <4>1 DEF Remembers
      <4>3. QED  BY <1>1, <1>7, <3>1, <4>2 DEF Agrees, o, b
    <3>3. TheStore = b
      BY <1>5, <2>2, <3>2, DatabaseAssumption DEF Stored, DatabaseAssumption, States
    <3>4. o.state = Append(b, m)  BY <2>1, <2>4 DEF Flushing, o, m, b
    <3>5. Kept(b, TheStore)  BY <1>5, <3>3, KeptWhole
    <3>6. m \notin acked \cup refused
      <4>1. m \in Pending(p)  BY <1>2, <2>4 DEF Pending, o, m
      <4>2. QED  BY <4>1 DEF Serial, Separate
    <3>7. IsInjective(TheStore') /\ TheStore' = Append(b, m)  BY <1>5, <2>2, <3>4
    <3>8. Promised  BY <1>1, <1>5, <2>4, <3>5, <3>6, <3>7, WriteStep
    <3>9. QED  BY <1>13, <3>8
  <2>5. QED  BY <2>3, <2>4
<1>16. QED  BY <1>14, <1>15

LEMMA CrashingStep ==
  ASSUME TypeOK, TypeOK', OneWriter, Serial, NEW p \in Processes, Crash(p)
  PROVE  Serial' /\ Promised
<1>1. /\ life[p] # "down" /\ life'[p] = "down" /\ now'[p] = Idle /\ queue'[p] = <<>>
      /\ mem'[p] = <<>>
      /\ UNCHANGED <<mode, file, lock, primary, acked, refused, strayed>>
      /\ \A q \in Processes : q # p =>
           /\ now'[q] = now[q] /\ life'[q] = life[q] /\ mem'[q] = mem[q]
           /\ queue'[q] = queue[q] /\ persisted'[q] = persisted[q] /\ attached'[q] = attached[q]
  BY DEF Crash, TypeOK, world, answers
<1>2. Tidy(p)'  BY <1>1, EmptyFacts DEF Tidy
<1>3. Working(p)'  BY <1>1 DEF Working
<1>4. Pending(p)' = {}  BY <1>1, EmptyFacts DEF Pending
<1>5. /\ IsInjective(Stored(file)') /\ IsInjective(Stored(primary)')
  BY <1>1 DEF Serial, Shared
<1>6. Serial'
  <2>1. mode = "cutover" => \A q \in Processes : q # p => life[q] = "down"  BY <1>1, Alone
  <2>2. QED  BY <1>1, <1>2, <1>3, <1>4, <1>5, <2>1, OwnStep
<1>7. Promised  BY <1>1 DEF Promised, Store!vars
<1>8. QED  BY <1>6, <1>7

LEMMA SerialStep ==
  ASSUME TypeOK, TypeOK', OneWriter, Remembers, Serial, [Next]_vars
  PROVE  Serial' /\ Promised
<1>1. ASSUME NEW p \in Processes, Unlock(p) PROVE Serial' /\ Promised
  <2>1. /\ now[p].phase = "unlock" /\ Settles(p, now[p].ok)
        /\ UNCHANGED <<mode, file, primary, attached, persisted, queue>>
    BY <1>1 DEF Unlock
  <2>2. now[p].ok \in BOOLEAN  BY <2>1, Operating DEF Operation
  <2>3. QED  BY <2>1, <2>2, Settling
<1>2. ASSUME NEW p \in Processes,
             \/ Locked(p) \/ CommitFails(p)
             \/ FlushFails(p) /\ now[p].phase \in {"lock", "unlock"}
      PROVE  Serial' /\ Promised
  <2>1. /\ now[p].phase # "idle" /\ Settles(p, FALSE)
        /\ UNCHANGED <<mode, file, primary, attached, persisted, queue>>
    BY <1>2 DEF Locked, CommitFails, FlushFails, world
  <2>2. QED  BY <2>1, Settling
<1>3. ASSUME NEW p \in Processes, FlushFails(p), now[p].phase \notin {"lock", "unlock"}
      PROVE  Serial' /\ Promised
  <2>1. /\ now[p].phase \in {"compare", "rename"}
        /\ now' = [now EXCEPT ![p].phase = "unlock", ![p].ok = FALSE]
        /\ UNCHANGED <<mode, file, primary, life, attached, mem, persisted, queue, acked, refused, strayed>>
    BY <1>3 DEF FlushFails, world, answers
  <2>2. QED  BY <2>1, FlushStep
<1>4. CASE RemoveLock \/ UNCHANGED vars
  <2>1. UNCHANGED <<mode, file, primary, life, attached, mem, persisted, queue, now, acked, refused, strayed>>
    <3>1. CASE RemoveLock  BY <3>1 DEF RemoveLock, answers
    <3>2. CASE UNCHANGED vars  BY <3>2 DEF vars
    <3>3. QED  BY <1>4, <3>1, <3>2
  <2>2. Separate'  BY <2>1 DEF Serial, Separate, Pending
  <2>3. Shared'  BY <2>1 DEF Serial, Shared
  <2>4. ASSUME NEW p \in Processes PROVE Tidy(p)' /\ Working(p)'
    <3>1. Tidy(p) /\ Working(p)  BY DEF Serial
    <3>2. UNCHANGED <<TheStore, Standing>>  BY <2>1 DEF TheStore, Standing
    <3>3. Tidy(p)'  BY <2>1, <3>1, <3>2 DEF Tidy, Kept
    <3>4. Working(p)'  BY <2>1, <3>1, <3>2 DEF Working, Committing, Flushing
    <3>5. QED  BY <3>3, <3>4
  <2>5. Promised  BY <2>1 DEF Promised, Store!vars
  <2>6. QED  BY <2>2, <2>3, <2>4, <2>5 DEF Serial
<1>5. QED
  BY <1>1, <1>2, <1>3, <1>4, Starting, Seeding, Submitting, Beginning, Throwing, CommittingStep,
     ReplyingStep, FlushStep, RenamingStep, CrashingStep
  DEF Next, Step

\* Whatever fails, whoever else writes and whether or not a server finds PostgreSQL
\* when it starts, what the store holds (the row, or the file while there is none)
\* only ever grows by one mutation on top of all that was acknowledged, and every
\* answer tells what became of its mutation (applyMutation, flush).  Only what a
\* server on the file alone acknowledges beside a row (strayed) is not promised: the
\* next start that reaches PostgreSQL drops it (app.ts:268).
THEOREM DatabaseKeepsPromises == Spec => KeepsPromises
<1>1. ASSUME Init PROVE Serial /\ Store!Init
  <2>1. /\ file = NoFile /\ primary = NoFile /\ acked = {} /\ refused = {} /\ strayed = {}
        /\ \A p \in Processes : /\ life[p] = "down" /\ mem[p] = <<>> /\ queue[p] = <<>>
                                /\ now[p] = Idle
    BY <1>1 DEF Init
  <2>2. Stored(file) = <<>> /\ Stored(primary) = <<>>  BY <2>1 DEF Stored
  <2>3. \A p \in Processes : Tidy(p) /\ Working(p) /\ Pending(p) = {}
    BY <2>1, EmptyFacts DEF Tidy, Working, Pending
  <2>4. Separate /\ Shared  BY <2>1, <2>2, <2>3, EmptyFacts DEF Separate, Shared
  <2>5. Store!Init  BY <2>1, <2>2 DEF Store!Init
  <2>6. QED  BY <2>3, <2>4, <2>5 DEF Serial
<1>2. ASSUME Init PROVE Remembers
  BY <1>2 DEF Init, Remembers, Agrees, Idle
<1>3. TypeOK /\ TypeOK' /\ OneWriter /\ Remembers /\ Serial /\ [Next]_vars
        => Remembers' /\ Serial' /\ [Store!Next]_(Store!vars)
  BY Remembering, SerialStep DEF Promised
<1>4. Spec => [](TypeOK /\ OneWriter)  BY TypeCorrect, AtMostOneWriter, PTL
<1>5. QED
  BY <1>1, <1>2, <1>3, <1>4, PTL DEF Spec, KeepsPromises, Store!Spec
=============================================================================
