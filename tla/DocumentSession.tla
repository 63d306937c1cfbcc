-------------------------- MODULE DocumentSession --------------------------
(***************************************************************************)
(* The browser's DocumentSession (apps/web/src/lib/editor) over the REST   *)
(* route that saves a file: several windows edit one file, each with its   *)
(* own buffer; one save of a window is on the way at a time; requests and  *)
(* answers are delayed or lost, and a request whose sender has given up    *)
(* may still reach the server.                                             *)
(***************************************************************************)
EXTENDS Integers, Sequences, FiniteSets, SequencesExt

CONSTANTS Sessions, Texts,
          MaxRevision, MaxVersion, MaxLost   \* bounds: edits, versions, lost messages

VARIABLES
  server,     \* the text of every version of the file
  view,       \* one DocumentSession per window
  requests, replies,
  compared,   \* the comparison a window shows after a conflict, or NotComparing
  reached,    \* history: the newest revision of each window the server accepted
  flushed,    \* history: the newest revision a resolved flush() stood for
  lost

vars == <<server, view, requests, replies, compared, reached, flushed, lost>>

NotComparing == [version |-> 0, revision |-> 0]
NewView(version) ==
  [content |-> server[version], base |-> server[version], version |-> version,
   local |-> 0, acked |-> 0, error |-> FALSE, timer |-> FALSE, running |-> FALSE,
   waiters |-> {}]

Init ==
  /\ server = <<CHOOSE t \in Texts : TRUE>>
  /\ view = [s \in Sessions |-> NewView(1)]
  /\ requests = {} /\ replies = {}
  /\ compared = [s \in Sessions |-> NotComparing]
  /\ reached = [s \in Sessions |-> 0] /\ flushed = [s \in Sessions |-> 0]
  /\ lost = 0

Dirty(v) == v.local # v.acked

-----------------------------------------------------------------------------
\* One turn of drain's loop: the snapshot of the buffer leaves for the server.
\* A request also notes, for the properties, which text its author had seen.
Request(s, v) == [from |-> s, awaited |-> TRUE, content |-> v.content,
                  base |-> v.version, revision |-> v.local, seen |-> v.base]

Continue(s, v) ==
  /\ view' = [view EXCEPT ![s] = [v EXCEPT !.running = TRUE]]
  /\ requests' = requests \cup {Request(s, v)}

\* drain: nothing to do while another drain runs or the buffer is clean.
Drain(s, v) ==
  IF v.running \/ ~Dirty(v)
  THEN view' = [view EXCEPT ![s] = v] /\ UNCHANGED requests
  ELSE Continue(s, [v EXCEPT !.error = FALSE])

Edit(s, t) ==
  /\ t # view[s].content /\ view[s].local < MaxRevision[s]
  /\ view' = [view EXCEPT ![s].content = t, ![s].local = @ + 1,
                          ![s].error = FALSE, ![s].timer = TRUE]
  /\ UNCHANGED <<server, requests, replies, compared, reached, flushed, lost>>

TimerFires(s) ==
  /\ view[s].timer
  /\ Drain(s, [view[s] EXCEPT !.timer = FALSE])
  /\ UNCHANGED <<server, replies, compared, reached, flushed, lost>>

Flush(s) ==
  LET v == [view[s] EXCEPT !.timer = FALSE] IN
  /\ Drain(s, IF Dirty(v) THEN [v EXCEPT !.waiters = @ \cup {v.local}] ELSE v)
  /\ flushed' = IF Dirty(v) THEN flushed ELSE [flushed EXCEPT ![s] = v.local]
  /\ UNCHANGED <<server, replies, compared, reached, lost>>

\* receive: a document read from the server some time ago arrives.
Receive(s, version) ==
  LET v == view[s] IN
  /\ version > v.version
  /\ view' = [view EXCEPT ![s] =
       IF Dirty(v) \/ v.running THEN [v EXCEPT !.error = TRUE]
       ELSE [v EXCEPT !.content = server[version],
                      !.base = server[version], !.version = version]]
  /\ UNCHANGED <<server, requests, replies, compared, reached, flushed, lost>>

\* The user looks at the local and the server's text side by side ...
Compare(s) ==
  /\ view[s].error
  /\ compared' = [compared EXCEPT ![s] = [version |-> Len(server), revision |-> view[s].local]]
  /\ UNCHANGED <<server, view, requests, replies, reached, flushed, lost>>

\* MUTANT: the conflict is rebased on the newest version instead of the compared one
ResolvedMutant(v, t, c) ==
  [v EXCEPT !.content = t, !.base = server[c.version], !.version = Len(server),
            !.local = @ + 1, !.error = FALSE, !.timer = FALSE]

\* ... and replaces both by t: DocumentRegistry.resolve, resolveConflict and the
\* flush after it.  Neither the buffer nor a save may have moved meanwhile.
Resolved(v, t, c) ==
  [v EXCEPT !.content = t, !.base = server[c.version], !.version = c.version,
            !.local = @ + 1, !.error = FALSE, !.timer = FALSE]

Resolve(s, t) ==
  LET v == view[s]
      r == Resolved(v, t, compared[s]) IN
  /\ compared[s] # NotComparing /\ ~v.running /\ v.local < MaxRevision[s]
  /\ v.local = compared[s].revision /\ v.version <= compared[s].version
  /\ Drain(s, [r EXCEPT !.waiters = @ \cup {r.local}])
  /\ compared' = [compared EXCEPT ![s] = NotComparing]
  /\ UNCHANGED <<server, replies, reached, flushed, lost>>

-----------------------------------------------------------------------------
\* The route saves when the request is based on the current version.  Its answer
\* goes to the drain that asked, if that one still waits.
ServerSaves(r) ==
  LET accepts == r.base = Len(server) IN
  /\ r \in requests /\ Len(server) < MaxVersion
  /\ requests' = requests \ {r}
  /\ server' = IF accepts THEN Append(server, r.content) ELSE server
  /\ reached' = IF accepts /\ r.revision > reached[r.from]
                THEN [reached EXCEPT ![r.from] = r.revision] ELSE reached
  /\ replies' = IF r.awaited
                THEN replies \cup {[to |-> r.from, revision |-> r.revision, content |-> r.content,
                                    version |-> IF accepts THEN Len(server) + 1 ELSE 0]}
                ELSE replies
  /\ UNCHANGED <<view, compared, flushed, lost>>

\* The rest of the loop's turn: the revision that was sent is acknowledged, flushes
\* that waited for it resolve, and the loop goes on while there is newer text.
Acknowledged(v, m) ==
  [v EXCEPT !.version = m.version, !.base = m.content, !.acked = m.revision,
            !.waiters = {w \in @ : w > m.revision}]

Acknowledge(s) ==
  \E m \in replies :
    /\ m.to = s /\ m.version > 0
    /\ LET v == Acknowledged(view[s], m)
           done == view[s].waiters \ v.waiters IN
         /\ IF Dirty(v) THEN Continue(s, v)
            ELSE view' = [view EXCEPT ![s] = [v EXCEPT !.running = FALSE]] /\ UNCHANGED requests
         /\ \E n \in done \cup {flushed[s]} :
              /\ \A k \in done \cup {flushed[s]} : k <= n
              /\ flushed' = [flushed EXCEPT ![s] = n]
    /\ replies' = replies \ {m}
    /\ UNCHANGED <<server, compared, reached, lost>>

\* MUTANT: the failing save forgets that it ran, and nobody is told
StoppedMutant(v) == [v EXCEPT !.timer = FALSE, !.running = FALSE, !.waiters = {}]

\* A conflict or a failing network ends the loop: no automatic retry, the buffer
\* stays, every waiting flush rejects.
Stopped(v) == [v EXCEPT !.error = TRUE, !.timer = FALSE, !.running = FALSE, !.waiters = {}]

Stop(s) ==
  /\ view' = [view EXCEPT ![s] = Stopped(@)]
  /\ replies' = {m \in replies : m.to # s}
  /\ requests' = {IF r.from = s THEN [r EXCEPT !.awaited = FALSE] ELSE r : r \in requests}
  /\ UNCHANGED <<server, compared, reached, flushed>>
Refused(s) ==
  /\ \E m \in replies : m.to = s /\ m.version = 0
  /\ Stop(s) /\ UNCHANGED lost
NetworkFails(s) ==
  /\ view[s].running /\ lost < MaxLost
  /\ lost' = lost + 1 /\ Stop(s)
RequestLost(r) ==
  /\ r \in requests /\ ~r.awaited
  /\ requests' = requests \ {r}
  /\ UNCHANGED <<server, view, replies, compared, reached, flushed, lost>>

\* Beyond the bound of versions the server answers nothing; the network then fails.
OutOfVersions(s) ==
  /\ Len(server) = MaxVersion /\ \E r \in requests : r.from = s
  /\ view[s].running /\ Stop(s) /\ UNCHANGED lost

Next ==
  \/ \E s \in Sessions :
       \/ \E t \in Texts : Edit(s, t) \/ Resolve(s, t)
       \/ \E version \in 1..Len(server) : Receive(s, version)
       \/ TimerFires(s) \/ Flush(s) \/ Compare(s)
       \/ Acknowledge(s) \/ Refused(s) \/ NetworkFails(s) \/ OutOfVersions(s)
  \/ \E r \in requests : ServerSaves(r) \/ RequestLost(r)

Spec == Init /\ [][Next]_vars

\* Timers fire, the server answers what reaches it, answers arrive.
Fairness ==
  \A s \in Sessions :
    /\ WF_vars(TimerFires(s)) /\ WF_vars(Acknowledge(s)) /\ WF_vars(Refused(s))
    /\ WF_vars(OutOfVersions(s))
    /\ WF_vars(\E r \in requests : r.from = s /\ ServerSaves(r))

-----------------------------------------------------------------------------
\* A window never claims more than the server has: its base is the text of the
\* version it names, a clean buffer is that text, an acknowledged revision and one
\* whose flush resolved were accepted, and who waits has a save that runs.
\* Whatever is delayed, lost or delivered late, a save that the server would
\* accept replaces a text its author has seen.
Truthful ==
  \A s \in Sessions :
    LET v == view[s] IN
    /\ v.version <= Len(server) /\ v.base = server[v.version]
    /\ ~Dirty(v) => v.content = v.base
    /\ v.acked <= reached[s] /\ flushed[s] <= reached[s]
    /\ v.waiters # {} => v.running
    /\ \A r \in requests : r.base = Len(server) => r.seen = Last(server)

\* Text a user typed is saved, unless the user is told that it is not.
TypedTextIsSaved ==
  \A s \in Sessions :
    Dirty(view[s]) ~> (~Dirty(view[s]) \/ view[s].error)
=============================================================================
