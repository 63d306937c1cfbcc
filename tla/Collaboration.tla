---------------------------- MODULE Collaboration ----------------------------
(***************************************************************************)
(* CollaborationService (apps/server/src/collaboration/) and the part of   *)
(* the browser's CollaborationProvider that decides what counts as saved.  *)
(*                                                                         *)
(* A text file maps to an active document.  Updates of a document are      *)
(* appended to a log under increasing sequence numbers, now and then       *)
(* compacted to a snapshot, and its text is flushed to the file.  Most     *)
(* operations hold the project's lock; opening a document does not, and    *)
(* neither do users who save, rename or delete the file directly.          *)
(*                                                                         *)
(* A CRDT document is the set of insertions it has seen and the set of     *)
(* those that were deleted; a text is the set of pieces that remain.  An   *)
(* insertion depends on its document: in another one it stays pending.     *)
(***************************************************************************)
EXTENDS Integers, FiniteSets, Sequences, FiniteSetsExt

CONSTANTS Clients, Flusher,      \* who issues requests; Flusher is the server's timer
          Paths, FirstPath,      \* the project starts with one text file
          Edits, DirectTexts,    \* pieces typed by collaborators, and saved directly
          NoFile,
          CompactAfter,          \* updates after which a log is compacted
          MaxDocs, MaxCalls,     \* bounds: documents; requests of clients
          MaxDirect, MaxCrashes  \* bounds: direct changes of files; crashes

NoOne == "no one"

ASSUME CollaborationAssumption ==
  /\ Flusher \notin Clients /\ NoOne \notin Clients \cup {Flusher} /\ FirstPath \in Paths
  /\ Edits \cap DirectTexts = {} /\ \A t \in SUBSET (Edits \cup DirectTexts) : t # NoFile
  /\ CompactAfter \in Nat \ {0}
  /\ {MaxDocs, MaxCalls, MaxDirect, MaxCrashes} \subseteq Nat

VARIABLES file,       \* text, version and life of every path
          docs,       \* collaborationDocuments, in their order
          log,        \* snapshots and updates of every document
          holder,     \* the request that holds the project's lock
          req,        \* the request of every client and of the timer
          client,     \* the provider: its document, edits, and which are saved
          timer,      \* is a flush scheduled?
          route,      \* a rename or deletion between its two services; history: the
                      \* documents that are to follow, the lives of both files then
          calls, direct, crashes,
          stray,      \* history: documents whose path moved without them
          written     \* history: pieces that some file has held

vars == <<file, docs, log, holder, req, client, timer, route, calls, direct,
          crashes, stray, written>>
counters == <<calls, direct, crashes>>

Requesters == Clients \cup {Flusher}
NoMove == [from |-> NoFile, to |-> NoFile, docs |-> {}, lives |-> <<>>]
Insertion(text, doc, at) == [text |-> text, doc |-> doc, at |-> at]
Text(doc, ops, gone) == UNION {o.text : o \in {i \in ops \ gone : i.doc = doc}}

Idle == [phase |-> "idle"]
Request(kind, path, doc, update) ==
  [kind |-> kind, phase |-> "enter", path |-> path, doc |-> doc, update |-> update,
   base |-> 0, seq |-> 0, ops |-> {}, gone |-> {}, file |-> NoFile,
   list |-> {}, todo |-> {}]

\* The first active document of a path, 0 if there is none.
Active(p) == {d \in DOMAIN docs : docs[d].path = p /\ docs[d].status = "active"}
Found(p)  == IF Active(p) = {} THEN 0 ELSE Min(Active(p))

\* What is stored of a document.
Sequences(l)    == {r.seq : r \in l.snapshots \cup l.updates}
NextSequenceMutant(l) == 1 + Cardinality(l.updates)    \* forgets the snapshots
NextSequence(l) == Max({0} \cup Sequences(l)) + 1
Latest(l)       == CHOOSE s \in l.snapshots : \A t \in l.snapshots : t.seq <= s.seq
Restored(l) ==
  LET parts == {Latest(l)} \cup {u \in l.updates : u.seq > Latest(l).seq} IN
    [ops |-> UNION {x.ops : x \in parts}, gone |-> UNION {x.gone : x \in parts}]

-----------------------------------------------------------------------------
\* Clients.  The provider of a file opens its document, sends edits over the
\* socket (one by one, or all it has when it connects again) and persists its
\* whole state by a request of which it has at most one.
Call(c, q) ==
  /\ req[c] = Idle /\ calls < MaxCalls /\ calls' = calls + 1
  /\ req' = [req EXCEPT ![c] = q]
  /\ UNCHANGED <<file, docs, log, holder, client, timer, route, direct, crashes, stray, written>>

Open(c, p) ==
  /\ client[c].edits = client[c].saved
  /\ Call(c, [Request("open", p, 0, {}) EXCEPT !.phase = "document"])

Edit(c, e) ==
  /\ client[c].doc # 0 /\ \A d \in Clients : \A o \in client[d].edits : o.text # {e}
  /\ client' = [client EXCEPT ![c].edits = @ \cup {Insertion({e}, client[c].doc, 0)}]
  /\ UNCHANGED <<file, docs, log, holder, req, timer, route, counters, stray, written>>

Own(c) == {o \in client[c].edits : o.doc = client[c].doc}

SendLive(c) ==
  \E u \in {Own(c)} \cup {{o} : o \in Own(c)} :
    u # {} /\ Call(c, Request("live", client[c].path, 0, u))

Persist(c) ==
  /\ Own(c) \ client[c].saved # {}
  /\ Call(c, Request("persist", client[c].path, client[c].doc, Own(c)))

\* The older update by HTTP names the file version it was made for.
Apply(c) ==
  \E o \in Own(c) \ client[c].saved :
    Call(c, [Request("apply", client[c].path, 0, {o}) EXCEPT !.base = client[c].base])

TimerFires ==
  /\ timer /\ req[Flusher] = Idle
  /\ timer' = FALSE
  /\ req' = [req EXCEPT ![Flusher] = Request("flush", FirstPath, 0, {})]
  /\ UNCHANGED <<file, docs, log, holder, client, route, counters, stray, written>>

DiscardPaths(c, p) ==
  /\ req[c] = Idle /\ direct < MaxDirect /\ direct' = direct + 1
  /\ req' = [req EXCEPT ![c] = Request("discard", p, 0, {})]
  /\ UNCHANGED <<file, docs, log, holder, client, timer, route, calls, crashes, stray, written>>

-----------------------------------------------------------------------------
\* serialized: one operation of a project at a time.
MayEnter(r) == holder = NoOne

Enter(r) ==
  /\ req[r].phase = "enter" /\ MayEnter(r)
  /\ holder' = r
  /\ req' = [req EXCEPT ![r] =
       LET S == IF @.kind = "discard" THEN Active(@.path)
                ELSE {d \in DOMAIN docs : docs[d].status = "active"} IN
         IF @.kind \in {"flush", "discard"}
         THEN [@ EXCEPT !.phase = "next", !.list = S, !.todo = S]
         ELSE [@ EXCEPT !.phase = "document"]]
  /\ UNCHANGED <<file, docs, log, client, timer, route, counters, stray, written>>

Leaves(r) == /\ holder' = (IF holder = r THEN NoOne ELSE holder)
             /\ req' = [req EXCEPT ![r] = Idle]

Refuse(r) == Leaves(r) /\ UNCHANGED <<file, docs, log, client, timer, route, counters, stray, written>>

\* document: read the file, then look for its document, else create one from
\* what was read.
ReadFile(r) ==
  /\ req[r].phase = "document"
  /\ LET p == req[r].path IN
       IF file[p].text = NoFile THEN Refuse(r)
       ELSE /\ req' = [req EXCEPT ![r] =
                 IF Found(p) # 0 THEN [@ EXCEPT !.phase = "found"]
                 ELSE [@ EXCEPT !.phase = "create", !.file = file[p]]]
            /\ UNCHANGED <<file, docs, log, holder, client, timer, route, counters, stray, written>>

CreateDocumentMutant(r) ==    \* without looking for a concurrent one
  /\ req[r].phase = "create" /\ Len(docs) < MaxDocs
  /\ LET q == req[r]
         d == Len(docs) + 1 IN
       /\ docs' = Append(docs, [path |-> q.path, status |-> "active", version |-> q.file.version])
       /\ log' = Append(log, [snapshots |-> {[seq |-> 0, ops |-> {Insertion(q.file.text, d, 0)},
                                              gone |-> {}]}, updates |-> {}])
       /\ stray' = IF q.path = route.to \/ file[q.path].life # q.file.life
                   THEN stray \cup {d} ELSE stray
  /\ req' = [req EXCEPT ![r].phase = "found"]
  /\ UNCHANGED <<file, holder, client, timer, route, counters, written>>
CreateDocument(r) ==
  /\ req[r].phase = "create" /\ (Found(req[r].path) = 0 => Len(docs) < MaxDocs)
  /\ LET q == req[r]
         d == Len(docs) + 1 IN
       IF Found(q.path) # 0 THEN UNCHANGED <<docs, log, stray>>
       ELSE /\ docs' = Append(docs, [path |-> q.path, status |-> "active",
                                     version |-> q.file.version])
            /\ log' = Append(log, [snapshots |-> {[seq |-> 0, gone |-> {},
                                                   ops |-> {Insertion(q.file.text, d, 0)}]},
                                   updates |-> {}])
            /\ stray' = IF q.path = route.to \/ file[q.path].life # q.file.life
                        THEN stray \cup {d} ELSE stray
  /\ req' = [req EXCEPT ![r].phase = "found"]
  /\ UNCHANGED <<file, holder, client, timer, route, counters, written>>

NoMoreDocuments(r) ==    \* the bound
  req[r].phase = "create" /\ Len(docs) = MaxDocs /\ Found(req[r].path) = 0 /\ Refuse(r)

\* open answers; an update is merged in memory and gets its sequence number.
Answer(r) ==
  LET d == Found(req[r].path) IN
    /\ req[r].phase = "found" /\ req[r].kind = "open" /\ d # 0
    /\ client' = [client EXCEPT ![r] = [@ EXCEPT !.doc = d, !.path = req[r].path,
                                                 !.base = docs[d].version]]
    /\ Leaves(r)
    /\ UNCHANGED <<file, docs, log, timer, route, counters, stray, written>>

\* The document disappeared between its creation and the answer.
Vanished(r) == req[r].phase = "found" /\ Found(req[r].path) = 0 /\ Refuse(r)

Acceptable(q, d) == /\ q.kind = "persist" => q.doc = d
                    /\ q.kind = "apply" => q.base = docs[d].version

Merge(r) ==
  LET q == req[r]
      d == Found(q.path) IN
    /\ q.phase = "found" /\ q.kind # "open" /\ d # 0
    /\ IF Acceptable(q, d)
       THEN /\ req' = [req EXCEPT ![r] =
                 [@ EXCEPT !.phase = "push", !.doc = d, !.seq = NextSequence(log[d]),
                           !.ops = Restored(log[d]).ops \cup q.update,
                           !.gone = Restored(log[d]).gone]]
            /\ UNCHANGED <<file, docs, log, holder, client, timer, route, counters, stray, written>>
       ELSE Refuse(r)

PushUpdate(r) ==
  LET q == req[r] IN
    /\ q.phase = "push"
    /\ log' = [log EXCEPT ![q.doc].updates =
                 @ \cup {[seq |-> q.seq, ops |-> q.update, gone |-> {}]}]
    /\ req' = [req EXCEPT ![r].phase = "pushed"]
    /\ UNCHANGED <<file, docs, holder, client, timer, route, counters, stray, written>>

\* compact: a snapshot of the document in memory replaces its updates.
Compacted(d, ops, gone) ==
  log' = [log EXCEPT ![d] =
            [snapshots |-> @.snapshots \cup {[seq |-> NextSequence(@), ops |-> ops, gone |-> gone]},
             updates |-> {}]]

\* A live update is flushed when the socket has been idle for a while.
SchedulesMutant(q) == FALSE
Schedules(q) == q.kind = "live"

AfterPush(r) ==
  LET q == req[r] IN
    /\ q.phase = "pushed"
    /\ IF Cardinality(log[q.doc].updates) >= CompactAfter THEN Compacted(q.doc, q.ops, q.gone)
       ELSE UNCHANGED log
    /\ IF q.kind = "live" THEN Leaves(r) /\ timer' = (timer \/ Schedules(q))
       ELSE req' = [req EXCEPT ![r].phase = "compare"] /\ UNCHANGED <<holder, timer>>
    /\ UNCHANGED <<file, docs, client, route, counters, stray, written>>

-----------------------------------------------------------------------------
\* flushProject and discardPaths flush their documents one by one and stop at
\* the first that fails.
NextDocument(r) ==
  LET q == req[r] IN
    /\ q.phase = "next"
    /\ IF q.todo = {}
       THEN IF q.kind = "flush" THEN Leaves(r)
            ELSE req' = [req EXCEPT ![r].phase = "git"] /\ UNCHANGED holder
       ELSE LET d == Min(q.todo) IN
              /\ req' = [req EXCEPT ![r] =
                   [@ EXCEPT !.phase = "compare", !.doc = d, !.path = docs[d].path,
                             !.todo = q.todo \ {d}, !.ops = Restored(log[d]).ops,
                             !.gone = Restored(log[d]).gone]]
              /\ UNCHANGED holder
    /\ UNCHANGED <<file, docs, log, client, timer, route, counters, stray, written>>

\* flush ends: a persisted state counts as saved as far as it was captured.
SavedByMutant(c, q) == client[c].edits
SavedBy(c, q) == client[c].saved \cup q.update

Flushed(r, c) ==
  IF req[r].kind \in {"flush", "discard"}
  THEN /\ req' = [req EXCEPT ![r].phase = "next"]
       /\ UNCHANGED <<holder, client>>
  ELSE /\ client' = IF req[r].kind = "persist"
                    THEN [client EXCEPT ![c].saved = SavedBy(c, req[r])] ELSE client
       /\ Leaves(r)

CompareFile(r) ==
  LET q == req[r] IN
    /\ q.phase = "compare"
    /\ IF file[q.path].text = NoFile THEN Refuse(r)
       ELSE IF file[q.path].text = Text(q.doc, q.ops, q.gone)
       THEN /\ Flushed(r, r)
            /\ UNCHANGED <<file, docs, log, timer, route, counters, stray, written>>
       ELSE /\ req' = [req EXCEPT ![r].phase = "save"]
            /\ UNCHANGED <<file, docs, log, holder, client, timer, route, counters, stray, written>>

\* saveTextFile with the version the document knows.
MaySaveMutant(q) == TRUE
MaySave(q) == docs[q.doc].version = file[q.path].version

SaveFile(r) ==
  LET q == req[r] IN
    /\ q.phase = "save"
    /\ IF file[q.path].text = NoFile \/ ~MaySave(q) THEN Refuse(r)
       ELSE LET t == Text(q.doc, q.ops, q.gone) IN
              /\ file' = [file EXCEPT ![q.path].text = t, ![q.path].version = @ + 1]
              /\ written' = written \cup t
              /\ req' = [req EXCEPT ![r] = [@ EXCEPT !.phase = "version", !.file = file'[q.path]]]
              /\ UNCHANGED <<docs, log, holder, client, timer, route, counters, stray>>

SetVersion(r) ==
  LET q == req[r] IN
    /\ q.phase = "version"
    /\ docs' = [docs EXCEPT ![q.doc].version = q.file.version]
    /\ Flushed(r, r)
    /\ UNCHANGED <<file, log, timer, route, counters, stray, written>>

\* discardPaths: Git puts the file back, or removes it.
GitDiscards(r, t) ==
  LET q == req[r] IN
    /\ q.phase = "git"
    /\ file' = [file EXCEPT ![q.path] =
         [text |-> t, version |-> IF t = NoFile THEN 0 ELSE @.version + 1,
          life |-> IF (t = NoFile) # (@.text = NoFile) THEN @.life + 1 ELSE @.life]]
    /\ written' = IF t = NoFile THEN written ELSE written \cup t
    /\ stray' = IF t = NoFile THEN stray \cup Active(q.path) ELSE stray
    /\ req' = [req EXCEPT ![r].phase = "reload", ![r].todo = q.list]
    /\ UNCHANGED <<docs, log, holder, client, timer, route, counters>>

\* Its documents are archived, or their text is replaced by the file's.
Reload(r) ==
  LET q == req[r]
      d == Min(q.todo)
      y == Restored(log[d]) IN
    /\ q.phase = "reload"
    /\ IF q.todo = {} THEN Leaves(r) /\ UNCHANGED <<docs, log>>
       ELSE IF file[q.path].text = NoFile
       THEN /\ docs' = [docs EXCEPT ![d].status = "archived"]
            /\ req' = [req EXCEPT ![r].todo = @ \ {d}]
            /\ UNCHANGED <<log, holder>>
       ELSE /\ Compacted(d, y.ops \cup {Insertion(file[q.path].text, d, NextSequence(log[d]))},
                         y.gone \cup y.ops)
            /\ req' = [req EXCEPT ![r] = [@ EXCEPT !.phase = "reloaded", !.doc = d,
                                                   !.file = file[q.path]]]
            /\ UNCHANGED <<docs, holder>>
    /\ UNCHANGED <<file, client, timer, route, counters, stray, written>>

Reloaded(r) ==
  LET q == req[r] IN
    /\ q.phase = "reloaded"
    /\ docs' = [docs EXCEPT ![q.doc].version = q.file.version]
    /\ req' = [req EXCEPT ![r] = [@ EXCEPT !.phase = "reload", !.todo = q.todo \ {q.doc}]]
    /\ UNCHANGED <<file, log, holder, client, timer, route, counters, stray, written>>

-----------------------------------------------------------------------------
\* Everybody else: ChangeSets, REST saves, restorations and synchronisation.
Directly == direct < MaxDirect /\ direct' = direct + 1

SaveDirectly(p, x) ==
  /\ Directly /\ file[p].text # NoFile
  /\ file' = [file EXCEPT ![p].text = {x}, ![p].version = @ + 1]
  /\ written' = written \cup {x}
  /\ UNCHANGED <<docs, log, holder, req, client, timer, route, calls, crashes, stray>>

CreateDirectly(p, x) ==
  /\ Directly /\ file[p].text = NoFile
  /\ file' = [file EXCEPT ![p] = [text |-> {x}, version |-> 1, life |-> @.life + 1]]
  /\ written' = written \cup {x}
  /\ UNCHANGED <<docs, log, holder, req, client, timer, route, calls, crashes, stray>>

\* The routes that rename and delete: first the workspace, then the documents.
RenameFile(p, q) ==
  /\ Directly /\ route = NoMove /\ file[p].text # NoFile /\ file[q].text = NoFile
  /\ file' = [file EXCEPT ![q] = [file[p] EXCEPT !.life = file[q].life + 1],
                          ![p] = [text |-> NoFile, version |-> 0, life |-> @.life + 1]]
  /\ route' = [from |-> p, to |-> q, docs |-> Active(p) \ stray,
               lives |-> <<file'[p].life, file'[q].life>>]
  /\ stray' = stray \cup Active(p) \cup Active(q)
  /\ UNCHANGED <<docs, log, holder, req, client, timer, calls, crashes, written>>

DeleteFile(p) ==
  /\ Directly /\ route = NoMove /\ file[p].text # NoFile
  /\ file' = [file EXCEPT ![p] = [text |-> NoFile, version |-> 0, life |-> @.life + 1]]
  /\ route' = [NoMove EXCEPT !.from = p, !.to = p]
  /\ stray' = stray \cup Active(p)
  /\ UNCHANGED <<docs, log, holder, req, client, timer, calls, crashes, written>>

\* renamePath and archivePath of the collaboration service.  A document is no
\* stray any more if it waited alone and followed the file it belongs to.
MoveDocuments ==
  /\ route # NoMove /\ holder = NoOne
  /\ LET p == route.from
         q == route.to
         moved == [d \in DOMAIN docs |->
                     IF d \notin Active(p) THEN docs[d]
                     ELSE IF p = q THEN [docs[d] EXCEPT !.status = "archived"]
                     ELSE [docs[d] EXCEPT !.path = q]] IN
       /\ docs' = moved
       /\ stray' = (stray \cup Active(p)) \
            (IF Cardinality(Active(p) \cup Active(q)) <= 1
                  /\ route.lives = <<file[p].life, file[q].life>>
             THEN route.docs ELSE {})
  /\ route' = NoMove
  /\ UNCHANGED <<file, log, holder, req, client, timer, counters, written>>

\* The server dies: requests, lock and timer are gone; the browsers keep their
\* edits (IndexedDB).
Crash ==
  /\ crashes < MaxCrashes /\ crashes' = crashes + 1
  /\ req' = [r \in Requesters |-> Idle] /\ holder' = NoOne
  /\ timer' = FALSE /\ route' = NoMove
  /\ UNCHANGED <<file, docs, log, client, calls, direct, stray, written>>

-----------------------------------------------------------------------------
Init ==
  /\ file = [p \in Paths |-> IF p = FirstPath THEN [text |-> {}, version |-> 1, life |-> 1]
                             ELSE [text |-> NoFile, version |-> 0, life |-> 0]]
  /\ docs = <<>> /\ log = <<>>
  /\ holder = NoOne /\ req = [r \in Requesters |-> Idle]
  /\ client = [c \in Clients |-> [doc |-> 0, path |-> FirstPath, base |-> 0,
                                  edits |-> {}, saved |-> {}]]
  /\ timer = FALSE /\ route = NoMove
  /\ calls = 0 /\ direct = 0 /\ crashes = 0
  /\ stray = {} /\ written = {}

Proceeds(r) ==
  \/ Enter(r) \/ ReadFile(r) \/ CreateDocument(r) \/ NoMoreDocuments(r) \/ Answer(r) \/ Vanished(r)
  \/ Merge(r) \/ PushUpdate(r) \/ AfterPush(r) \/ NextDocument(r)
  \/ CompareFile(r) \/ SaveFile(r) \/ SetVersion(r)
  \/ \E t \in {NoFile} \cup {{x} : x \in DirectTexts} : GitDiscards(r, t)
  \/ Reload(r) \/ Reloaded(r)

Users ==
  \/ \E c \in Clients : \/ SendLive(c) \/ Persist(c) \/ Apply(c)
                        \/ \E p \in Paths : Open(c, p) \/ DiscardPaths(c, p)
                        \/ \E e \in Edits : Edit(c, e)
  \/ \E p \in Paths, x \in DirectTexts : SaveDirectly(p, x) \/ CreateDirectly(p, x)
  \/ \E p, q \in Paths : RenameFile(p, q)
  \/ \E p \in Paths : DeleteFile(p)

Next == Users \/ TimerFires \/ MoveDocuments \/ Crash \/ \E r \in Requesters : Proceeds(r)

Spec == Init /\ [][Next]_vars

\* Requests in progress go on, timers fire; users owe nothing.
Fairness == /\ WF_vars(TimerFires) /\ WF_vars(MoveDocuments)
            /\ \A r \in Requesters : WF_vars(Proceeds(r))
FairSpec == Spec /\ Fairness

-----------------------------------------------------------------------------
\* Sequence numbers of a document are never used twice, and a restored document
\* skips none of its stored updates (nextSequence, compact, restore).
NothingSkipped ==
  \A d \in DOMAIN log :
    /\ \A x, y \in log[d].snapshots \cup log[d].updates : x.seq = y.seq => x = y
    /\ \A u \in log[d].updates : u.seq > Latest(log[d]).seq

\* What a browser counts as saved survives in the log of its document and has
\* reached the file, whatever was typed, compacted or restarted in between
\* (persistSnapshot; localRevision and persistedRevision of the provider).
SavedEditsStay ==
  \A c \in Clients : \A o \in client[c].saved :
    o \in Restored(log[o.doc]).ops /\ o.text \subseteq written

\* Two opens of a file never leave it with two documents (document).  Documents
\* caught in a rename or a deletion of their file are the exception.
OneDocumentPerFile == \A p \in Paths : Cardinality(Active(p) \ stray) <= 1

\* A flush never replaces text the document has not seen: what others saved
\* directly stays, even while the document is behind (flush, saveTextFile).
KeepsDirectText ==
  [][\A r \in Requesters :
       req[r].phase = "save" /\ req'[r].phase = "version" /\ req[r].doc \notin stray
         => file[req[r].path].text \subseteq UNION {o.text : o \in req[r].ops}]_vars

\* While collaborators are alone, what they type live reaches the file
\* (scheduleLiveFlush).
LiveTextIsSaved ==
  \A e \in Edits :
    (\E d \in DOMAIN docs : Insertion({e}, d, 0) \in Restored(log[d]).ops)
      ~> (e \in written \/ direct > 0 \/ crashes > 0)
=============================================================================
