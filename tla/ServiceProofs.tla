---------------------------- MODULE ServiceProofs ----------------------------
(***************************************************************************)
(* Proofs about the components of Services, each for every value of its    *)
(* own constants.  They share no variable, so that a step of the whole is  *)
(* for each of them one of its own steps or none (OneMoves), and what one  *)
(* keeps to is an invariant of the whole.                                  *)
(***************************************************************************)
EXTENDS Services, SequenceTheorems, FiniteSetTheorems, WellFoundedInduction, TLAPS

LEMMA OneMoves ==
  ASSUME [Next]_vars
  PROVE  /\ [Papers!Next]_(Papers!vars) /\ [Memory!Next]_(Memory!vars)
         /\ [Drafts!Next]_(Drafts!vars) /\ [Windows!Next]_(Windows!vars)
         /\ [Mail!Next]_(Mail!vars) /\ [Hunks!Next]_(Hunks!vars)
  BY DEF Next, vars, papers, paperMemory, review, drafts, windows, mails,
         Papers!vars, Memory!vars, Drafts!vars, Windows!vars, Mail!vars, Hunks!vars

-----------------------------------------------------------------------------
(* Windows on one file.                                                       *)

WindowView ==
  [content: Texts, base: Texts, version: Nat, local: Nat, acked: Nat, error: BOOLEAN,
   timer: BOOLEAN, running: BOOLEAN, waiters: SUBSET Nat]
SaveRequest ==
  [from: Sessions, awaited: BOOLEAN, content: Texts, base: Nat, revision: Nat, seen: Texts]
SaveReply == [to: Sessions, revision: Nat, content: Texts, version: Nat]

WindowsTypeOK ==
  /\ server \in Seq(Texts)
  /\ view \in [Sessions -> WindowView]
  /\ requests \subseteq SaveRequest /\ replies \subseteq SaveReply
  /\ compared \in [Sessions -> [version: Nat, revision: Nat]]
  /\ reached \in [Sessions -> Nat] /\ flushed \in [Sessions -> Nat]

\* A view v of window s, which stands on a version the server has; a clean one shows
\* that version.
Grounded(s, v) ==
  /\ v.version \in 1 .. Len(server) /\ v.base = server[v.version]
  /\ v.acked <= v.local /\ v.acked <= reached[s]
  /\ ~Windows!Dirty(v) => v.content = v.base
  /\ \A w \in v.waiters : w <= v.local

ViewsOK ==
  \A s \in Sessions :
    /\ Grounded(s, view[s]) /\ flushed[s] <= reached[s]
    /\ view[s].waiters # {} => view[s].running
    /\ compared[s] = Windows!NotComparing \/ compared[s].version \in 1 .. Len(server)

\* What a window asked for, and still waits for, is its text at that revision.
Sent(v, m) ==
  /\ v.running /\ m.revision <= v.local
  /\ m.revision = v.local => m.content = v.content

RequestsOK ==
  \A r \in requests :
    /\ r.base \in 1 .. Len(server) /\ r.seen = server[r.base]
    /\ r.awaited => Sent(view[r.from], r)

RepliesOK ==
  \A m \in replies :
    /\ Sent(view[m.to], m)
    /\ m.version > 0 => /\ m.version <= Len(server) /\ server[m.version] = m.content
                        /\ m.revision <= reached[m.to]

\* One save of a window is on the way at a time.
OneTurn ==
  /\ \A r, q \in requests : r.awaited /\ q.awaited /\ r.from = q.from => r = q
  /\ \A m, n \in replies : m.to = n.to => m = n
  /\ \A r \in requests, m \in replies : r.awaited => r.from # m.to

Honest == ViewsOK /\ RequestsOK /\ RepliesOK /\ OneTurn

-----------------------------------------------------------------------------
\* Flushes that resolve and comparisons that are shown tell the truth.
Beside ==
  /\ flushed' \in [Sessions -> Nat] /\ compared' \in [Sessions -> [version: Nat, revision: Nat]]
  /\ \A s \in Sessions :
       /\ flushed'[s] <= reached'[s]
       /\ compared'[s] = Windows!NotComparing \/ compared'[s].version \in 1 .. Len(server')

LEMMA WindowStaysBeside ==
  ASSUME WindowsTypeOK, ViewsOK, UNCHANGED <<server, compared, reached, flushed>>
  PROVE  Beside
  BY DEF Beside, WindowsTypeOK, ViewsOK

\* Later text of the same buffer.
Follows(v, u) == u.local > v.local \/ (u.local = v.local /\ u.content = v.content)

\* A window's buffer changes, and nothing leaves for the server.
LEMMA WindowViewing ==
  ASSUME WindowsTypeOK, Honest, NEW s \in Sessions,
         NEW v \in WindowView, view' = [view EXCEPT ![s] = v],
         UNCHANGED <<server, requests, replies, reached>>, Beside,
         Grounded(s, v), v.running = view[s].running, v.waiters # {} => v.running,
         v.running => Follows(view[s], v)
  PROVE  WindowsTypeOK' /\ Honest'
<1>1. /\ view' \in [Sessions -> WindowView] /\ view'[s] = v
      /\ \A t \in Sessions : t # s => view'[t] = view[t]
      /\ view[s] \in WindowView
  BY DEF WindowsTypeOK
<1>2. WindowsTypeOK'  BY <1>1 DEF WindowsTypeOK, Beside
<1>3. ViewsOK'
  <2> SUFFICES ASSUME NEW t \in Sessions
               PROVE  /\ Grounded(t, view[t])' /\ (view'[t].waiters # {} => view'[t].running)
    BY DEF ViewsOK, Beside
  <2>1. CASE t = s  BY <1>1, <2>1 DEF Grounded
  <2>2. CASE t # s  BY <1>1, <2>2 DEF Grounded, Honest, ViewsOK
  <2>3. QED  BY <2>1, <2>2
<1>4. ASSUME NEW t \in Sessions, NEW m, m.revision \in Nat, Sent(view[t], m)
      PROVE  Sent(view'[t], m)
  <2>1. CASE t = s
    <3>1. v.local \in Nat /\ view[s].local \in Nat  BY <1>1 DEF WindowView
    <3>2. QED  BY <1>1, <1>4, <2>1, <3>1 DEF Sent, Follows
  <2>2. CASE t # s  BY <1>1, <1>4, <2>2
  <2>3. QED  BY <2>1, <2>2
<1>5. RequestsOK'
  <2> SUFFICES ASSUME NEW r \in requests
               PROVE  /\ r.base \in 1 .. Len(server) /\ r.seen = server[r.base]
                      /\ r.awaited => Sent(view'[r.from], r)
    BY DEF RequestsOK
  <2>1. r.from \in Sessions /\ r.revision \in Nat  BY DEF WindowsTypeOK, SaveRequest
  <2>2. QED  BY <1>4, <2>1 DEF Honest, RequestsOK
<1>6. RepliesOK'
  <2> SUFFICES ASSUME NEW m \in replies
               PROVE  /\ Sent(view'[m.to], m)
                      /\ m.version > 0 => /\ m.version <= Len(server)
                                          /\ server[m.version] = m.content
                                          /\ m.revision <= reached[m.to]
    BY DEF RepliesOK
  <2>1. m.to \in Sessions /\ m.revision \in Nat  BY DEF WindowsTypeOK, SaveReply
  <2>2. QED  BY <1>4, <2>1 DEF Honest, RepliesOK
<1>7. OneTurn'  BY DEF Honest, OneTurn
<1>8. QED  BY <1>2, <1>3, <1>5, <1>6, <1>7 DEF Honest

\* The snapshot of a buffer leaves, and nothing else of that window is on the way.
LEMMA WindowSending ==
  ASSUME WindowsTypeOK, Honest, NEW s \in Sessions,
         NEW v \in WindowView, Windows!Continue(s, v), Grounded(s, v),
         UNCHANGED <<server, reached>>, Beside,
         replies' \subseteq replies, \A m \in replies' : m.to # s,
         \A r \in requests : r.awaited => r.from # s
  PROVE  WindowsTypeOK' /\ Honest'
<1> DEFINE u == [v EXCEPT !.running = TRUE]
           q == Windows!Request(s, v)
<1>1. /\ u \in WindowView /\ u.running /\ u.content = v.content /\ u.local = v.local
      /\ u.version = v.version /\ u.base = v.base /\ u.acked = v.acked /\ u.waiters = v.waiters
  BY DEF WindowView
<1>2. /\ q \in SaveRequest /\ q.from = s /\ q.awaited /\ q.content = v.content
      /\ q.base = v.version /\ q.revision = v.local /\ q.seen = v.base
  BY DEF Windows!Request, SaveRequest, WindowView
<1>3. view' = [view EXCEPT ![s] = u] /\ requests' = requests \cup {q}  BY DEF Windows!Continue
<1> HIDE DEF u, q
<1>4. /\ view' \in [Sessions -> WindowView] /\ view'[s] = u
      /\ \A t \in Sessions : t # s => view'[t] = view[t]
  BY <1>1, <1>3 DEF WindowsTypeOK
<1>5. WindowsTypeOK'  BY <1>2, <1>3, <1>4 DEF WindowsTypeOK, Beside
<1>6. Grounded(s, u)  BY <1>1 DEF Grounded, Windows!Dirty
<1>7. ViewsOK'
  <2> SUFFICES ASSUME NEW t \in Sessions
               PROVE  /\ Grounded(t, view[t])' /\ (view'[t].waiters # {} => view'[t].running)
    BY DEF ViewsOK, Beside
  <2>1. CASE t = s  BY <1>1, <1>4, <1>6, <2>1 DEF Grounded
  <2>2. CASE t # s  BY <1>4, <2>2 DEF Grounded, Honest, ViewsOK
  <2>3. QED  BY <2>1, <2>2
<1>8. RequestsOK'
  <2> SUFFICES ASSUME NEW r \in requests'
               PROVE  /\ r.base \in 1 .. Len(server) /\ r.seen = server[r.base]
                      /\ r.awaited => Sent(view'[r.from], r)
    BY DEF RequestsOK
  <2>1. CASE r = q
    <3>1. v.local \in Nat  BY DEF WindowView
    <3>2. QED  BY <1>1, <1>2, <1>4, <2>1, <3>1 DEF Grounded, Sent
  <2>2. CASE r \in requests
    <3>1. r.from \in Sessions /\ (r.awaited => r.from # s)  BY <2>2 DEF WindowsTypeOK, SaveRequest
    <3>2. QED  BY <1>4, <2>2, <3>1 DEF Honest, RequestsOK
  <2>3. QED  BY <1>3, <2>1, <2>2
<1>9. RepliesOK'
  <2> SUFFICES ASSUME NEW m \in replies'
               PROVE  /\ Sent(view'[m.to], m)
                      /\ m.version > 0 => /\ m.version <= Len(server)
                                          /\ server[m.version] = m.content
                                          /\ m.revision <= reached[m.to]
    BY DEF RepliesOK
  <2>1. m \in replies /\ m.to \in Sessions /\ m.to # s  BY DEF WindowsTypeOK, SaveReply
  <2>2. QED  BY <1>4, <2>1 DEF Honest, RepliesOK
<1>10. OneTurn'
  BY <1>2, <1>3 DEF Honest, OneTurn
<1>11. QED  BY <1>5, <1>7, <1>8, <1>9, <1>10 DEF Honest

LEMMA WindowResting ==
  ASSUME WindowsTypeOK, Honest, NEW s \in Sessions, ~view[s].running
  PROVE  (\A m \in replies : m.to # s) /\ \A r \in requests : r.awaited => r.from # s
  BY DEF Honest, RequestsOK, RepliesOK, Sent

LEMMA WindowDraining ==
  ASSUME WindowsTypeOK, Honest, NEW s \in Sessions,
         NEW v \in WindowView, Windows!Drain(s, v), Grounded(s, v),
         UNCHANGED <<server, replies, reached>>, Beside,
         v.running = view[s].running, v.waiters # {} => v.running \/ Windows!Dirty(v),
         v.running => Follows(view[s], v)
  PROVE  WindowsTypeOK' /\ Honest'
<1>1. CASE v.running \/ ~Windows!Dirty(v)
  BY <1>1, WindowViewing DEF Windows!Drain
<1>2. CASE ~(v.running \/ ~Windows!Dirty(v))
  <2> DEFINE u == [v EXCEPT !.error = FALSE]
  <2>1. /\ u \in WindowView /\ u.content = v.content /\ u.local = v.local
        /\ u.version = v.version /\ u.base = v.base /\ u.acked = v.acked
        /\ u.waiters = v.waiters
    BY DEF WindowView
  <2>2. Windows!Continue(s, u)  BY <1>2 DEF Windows!Drain
  <2> HIDE DEF u
  <2>3. Grounded(s, u)  BY <2>1 DEF Grounded, Windows!Dirty
  <2>4. QED  BY <1>2, <2>1, <2>2, <2>3, WindowResting, WindowSending
<1>3. QED  BY <1>1, <1>2

-----------------------------------------------------------------------------
LEMMA WindowEditing ==
  ASSUME WindowsTypeOK, Honest, NEW s \in Sessions, NEW t \in Texts, Windows!Edit(s, t)
  PROVE  WindowsTypeOK' /\ Honest'
<1> DEFINE o == view[s]
           v == [o EXCEPT !.content = t, !.local = o.local + 1, !.error = FALSE, !.timer = TRUE]
<1>1. o \in WindowView /\ view' = [view EXCEPT ![s] = v] /\ UNCHANGED <<server, requests, replies, reached>>
  BY DEF Windows!Edit, WindowsTypeOK
<1>2. /\ v \in WindowView /\ v.local = o.local + 1 /\ v.version = o.version /\ v.base = o.base
      /\ v.acked = o.acked /\ v.waiters = o.waiters /\ v.running = o.running
  <2>1. o.local + 1 \in Nat  BY <1>1 DEF WindowView
  <2>2. QED  BY <1>1, <2>1 DEF WindowView
<1>3. Beside  BY WindowStaysBeside DEF Honest, Windows!Edit
<1>4. Grounded(s, o) /\ (o.waiters # {} => o.running)  BY DEF Honest, ViewsOK
<1>5. o.local \in Nat /\ o.acked \in Nat /\ o.waiters \subseteq Nat /\ v.local > o.local
  BY <1>1, <1>2 DEF WindowView
<1> HIDE DEF v
<1>6. Grounded(s, v)  BY <1>2, <1>4, <1>5 DEF Grounded, Windows!Dirty
<1>7. QED  BY <1>1, <1>2, <1>3, <1>4, <1>5, <1>6, WindowViewing DEF Follows

LEMMA WindowFiring ==
  ASSUME WindowsTypeOK, Honest, NEW s \in Sessions, Windows!TimerFires(s)
  PROVE  WindowsTypeOK' /\ Honest'
<1> DEFINE o == view[s]
           v == [o EXCEPT !.timer = FALSE]
<1>1. o \in WindowView /\ Windows!Drain(s, v) /\ UNCHANGED <<server, replies, reached>>
  BY DEF Windows!TimerFires, WindowsTypeOK
<1>2. /\ v \in WindowView /\ v.local = o.local /\ v.version = o.version /\ v.base = o.base
      /\ v.acked = o.acked /\ v.waiters = o.waiters /\ v.running = o.running
      /\ v.content = o.content
  BY <1>1 DEF WindowView
<1>3. Beside  BY WindowStaysBeside DEF Honest, Windows!TimerFires
<1>4. Grounded(s, o) /\ (o.waiters # {} => o.running)  BY DEF Honest, ViewsOK
<1> HIDE DEF v
<1>5. Grounded(s, v)  BY <1>2, <1>4 DEF Grounded, Windows!Dirty
<1>6. QED  BY <1>1, <1>2, <1>3, <1>4, <1>5, WindowDraining DEF Follows

LEMMA WindowFlushing ==
  ASSUME WindowsTypeOK, Honest, NEW s \in Sessions, Windows!Flush(s)
  PROVE  WindowsTypeOK' /\ Honest'
<1> DEFINE o == view[s]
           v == [o EXCEPT !.timer = FALSE]
           u == IF Windows!Dirty(v) THEN [v EXCEPT !.waiters = v.waiters \cup {v.local}] ELSE v
<1>1. /\ o \in WindowView /\ Windows!Drain(s, u) /\ UNCHANGED <<server, replies, reached, compared>>
      /\ flushed' = IF Windows!Dirty(v) THEN flushed ELSE [flushed EXCEPT ![s] = v.local]
  BY DEF Windows!Flush, WindowsTypeOK
<1>2. /\ v \in WindowView /\ v.local = o.local /\ v.version = o.version /\ v.base = o.base
      /\ v.acked = o.acked /\ v.waiters = o.waiters /\ v.running = o.running
      /\ v.content = o.content
  BY <1>1 DEF WindowView
<1> HIDE DEF v
<1>3. /\ u \in WindowView /\ u.local = o.local /\ u.version = o.version /\ u.base = o.base
      /\ u.acked = o.acked /\ u.running = o.running /\ u.content = o.content
      /\ u.waiters \subseteq o.waiters \cup {o.local}
      /\ u.waiters = o.waiters \/ Windows!Dirty(v)
  BY <1>2 DEF WindowView
<1>4. Windows!Dirty(u) <=> Windows!Dirty(v)  BY <1>2, <1>3 DEF Windows!Dirty
<1> HIDE DEF u
<1>5. Grounded(s, o) /\ (o.waiters # {} => o.running) /\ ViewsOK  BY DEF Honest, ViewsOK
<1>6. o.local \in Nat /\ o.acked \in Nat  BY <1>1 DEF WindowView
<1>7. Grounded(s, u)  BY <1>3, <1>5, <1>6 DEF Grounded, Windows!Dirty
<1>8. Beside
  <2>1. CASE Windows!Dirty(v)  BY <1>1, <1>5, <2>1, WindowStaysBeside
  <2>2. CASE ~Windows!Dirty(v)
    <3>1. o.local <= reached[s]  BY <1>2, <1>5, <2>2 DEF Grounded, Windows!Dirty
    <3>2. QED  BY <1>1, <1>2, <1>5, <1>6, <2>2, <3>1 DEF Beside, WindowsTypeOK, ViewsOK
  <2>3. QED  BY <2>1, <2>2
<1>9. u.waiters # {} => u.running \/ Windows!Dirty(u)  BY <1>3, <1>4, <1>5
<1>10. QED  BY <1>1, <1>3, <1>7, <1>8, <1>9, WindowDraining DEF Follows

LEMMA WindowReceiving ==
  ASSUME WindowsTypeOK, Honest, NEW s \in Sessions,
         NEW n \in 1 .. Len(server), Windows!Receive(s, n)
  PROVE  WindowsTypeOK' /\ Honest'
<1> DEFINE o == view[s]
<1>1. o \in WindowView /\ UNCHANGED <<server, requests, replies, reached>>
  BY DEF Windows!Receive, WindowsTypeOK
<1>2. Grounded(s, o) /\ (o.waiters # {} => o.running)  BY DEF Honest, ViewsOK
<1>3. Beside  BY WindowStaysBeside DEF Honest, Windows!Receive
<1>4. CASE Windows!Dirty(o) \/ o.running
  <2> DEFINE v == [o EXCEPT !.error = TRUE]
  <2>1. view' = [view EXCEPT ![s] = v]  BY <1>4 DEF Windows!Receive
  <2>2. /\ v \in WindowView /\ v.local = o.local /\ v.version = o.version /\ v.base = o.base
        /\ v.acked = o.acked /\ v.waiters = o.waiters /\ v.running = o.running
        /\ v.content = o.content
    BY <1>1 DEF WindowView
  <2> HIDE DEF v
  <2>3. Grounded(s, v)  BY <1>2, <2>2 DEF Grounded, Windows!Dirty
  <2>4. QED  BY <1>1, <1>2, <1>3, <2>1, <2>2, <2>3, WindowViewing DEF Follows
<1>5. CASE ~(Windows!Dirty(o) \/ o.running)
  <2> DEFINE v == [o EXCEPT !.content = server[n], !.base = server[n], !.version = n]
  <2>1. view' = [view EXCEPT ![s] = v]  BY <1>5 DEF Windows!Receive
  <2>2. server[n] \in Texts /\ n \in Nat  BY DEF WindowsTypeOK
  <2>3. /\ v \in WindowView /\ v.local = o.local /\ v.version = n /\ v.base = server[n]
        /\ v.acked = o.acked /\ v.waiters = o.waiters /\ v.running = o.running
        /\ v.content = server[n]
    BY <1>1, <2>2 DEF WindowView
  <2> HIDE DEF v
  <2>4. Grounded(s, v)  BY <1>2, <2>3 DEF Grounded, Windows!Dirty
  <2>5. QED  BY <1>1, <1>2, <1>3, <1>5, <2>1, <2>3, <2>4, WindowViewing
<1>6. QED  BY <1>4, <1>5

LEMMA WindowComparing ==
  ASSUME WindowsTypeOK, Honest, NEW s \in Sessions, Windows!Compare(s)
  PROVE  WindowsTypeOK' /\ Honest'
<1>1. Len(server) \in Nat /\ view[s].local \in Nat /\ Len(server) >= 1
  BY DEF WindowsTypeOK, WindowView, Honest, ViewsOK, Grounded
<1>2. WindowsTypeOK'  BY <1>1 DEF Windows!Compare, WindowsTypeOK
<1>3. ViewsOK'  BY <1>1 DEF Windows!Compare, Honest, ViewsOK, WindowsTypeOK, Grounded
<1>4. (RequestsOK /\ RepliesOK /\ OneTurn)'
  BY DEF Windows!Compare, Honest, RequestsOK, RepliesOK, OneTurn
<1>5. QED  BY <1>2, <1>3, <1>4 DEF Honest

LEMMA WindowResolving ==
  ASSUME WindowsTypeOK, Honest, NEW s \in Sessions, NEW t \in Texts, Windows!Resolve(s, t)
  PROVE  WindowsTypeOK' /\ Honest'
<1> DEFINE o == view[s]
           c == compared[s]
           r == Windows!Resolved(o, t, c)
           u == [r EXCEPT !.waiters = r.waiters \cup {r.local}]
<1>1. /\ o \in WindowView /\ Windows!Drain(s, u) /\ ~o.running /\ UNCHANGED <<server, replies, reached, flushed>>
      /\ c # Windows!NotComparing /\ compared' = [compared EXCEPT ![s] = Windows!NotComparing]
  BY DEF Windows!Resolve, WindowsTypeOK
<1>2. c.version \in 1 .. Len(server) /\ c.version \in Nat /\ server[c.version] \in Texts
  BY <1>1 DEF Honest, ViewsOK, WindowsTypeOK
<1>3. /\ r \in WindowView /\ r.local = o.local + 1 /\ r.version = c.version
      /\ r.base = server[c.version] /\ r.acked = o.acked /\ r.running = o.running
      /\ r.waiters = o.waiters
  <2>1. o.local + 1 \in Nat  BY <1>1 DEF WindowView
  <2>2. r = [o EXCEPT !.content = t, !.base = server[c.version], !.version = c.version,
                      !.local = o.local + 1, !.error = FALSE, !.timer = FALSE]
    BY DEF Windows!Resolved
  <2> HIDE DEF r
  <2>3. QED  BY <1>1, <1>2, <2>1, <2>2 DEF WindowView
<1> HIDE DEF r
<1>4. /\ u \in WindowView /\ u.local = o.local + 1 /\ u.version = c.version
      /\ u.base = server[c.version] /\ u.acked = o.acked /\ u.running = o.running
      /\ u.waiters = o.waiters \cup {o.local + 1}
  BY <1>3 DEF WindowView
<1> HIDE DEF u
<1>5. Grounded(s, o) /\ ViewsOK  BY DEF Honest, ViewsOK
<1>6. o.local \in Nat /\ o.acked \in Nat /\ o.waiters \subseteq Nat /\ reached[s] \in Nat
  BY <1>1 DEF WindowView, WindowsTypeOK
<1>7. Windows!Dirty(u)  BY <1>4, <1>5, <1>6 DEF Windows!Dirty, Grounded
<1>8. Grounded(s, u)  BY <1>2, <1>4, <1>5, <1>6, <1>7 DEF Grounded
<1>9. Beside  BY <1>1, <1>5 DEF Beside, WindowsTypeOK, ViewsOK, Windows!NotComparing
<1>10. QED  BY <1>1, <1>4, <1>7, <1>8, <1>9, WindowDraining

-----------------------------------------------------------------------------
\* An accepted save makes a version that nothing on its way speaks of yet.
LEMMA WindowSaving ==
  ASSUME WindowsTypeOK, Honest, NEW r \in requests, Windows!ServerSaves(r)
  PROVE  WindowsTypeOK' /\ Honest'
<1> DEFINE ok == r.base = Len(server)
           n == Len(server)
           m == [to |-> r.from, revision |-> r.revision, content |-> r.content,
                 version |-> IF ok THEN Len(server) + 1 ELSE 0]
<1>1. /\ r \in SaveRequest /\ r.from \in Sessions /\ r.revision \in Nat /\ r.content \in Texts
      /\ n \in Nat /\ server \in Seq(Texts)
  BY DEF WindowsTypeOK, SaveRequest
<1>2. /\ requests' = requests \ {r} /\ UNCHANGED <<view, compared, flushed>>
      /\ server' = IF ok THEN Append(server, r.content) ELSE server
      /\ reached' = IF ok /\ r.revision > reached[r.from]
                    THEN [reached EXCEPT ![r.from] = r.revision] ELSE reached
      /\ replies' = IF r.awaited THEN replies \cup {m} ELSE replies
  BY DEF Windows!ServerSaves
<1>3. /\ m \in SaveReply /\ m.to = r.from /\ m.revision = r.revision /\ m.content = r.content
      /\ m.version = IF ok THEN n + 1 ELSE 0
  BY <1>1 DEF SaveReply
<1> HIDE DEF m
<1>4. /\ server' \in Seq(Texts) /\ Len(server') \in Nat /\ n <= Len(server')
      /\ \A i \in 1 .. n : i \in 1 .. Len(server') /\ server'[i] = server[i]
      /\ ok => Len(server') = n + 1 /\ server'[n + 1] = r.content
  BY <1>1, <1>2
<1>5. /\ reached' \in [Sessions -> Nat] /\ \A s \in Sessions : reached[s] <= reached'[s]
      /\ ok => r.revision <= reached'[r.from]
  BY <1>1, <1>2 DEF WindowsTypeOK
<1> HIDE DEF ok, n
<1>6. WindowsTypeOK'  BY <1>2, <1>3, <1>4, <1>5 DEF WindowsTypeOK
<1>7. ViewsOK'
  <2> SUFFICES ASSUME NEW s \in Sessions
               PROVE  /\ Grounded(s, view[s])' /\ flushed[s] <= reached'[s]
                      /\ view[s].waiters # {} => view[s].running
                      /\ compared[s] = Windows!NotComparing \/ compared[s].version \in 1 .. Len(server')
    BY <1>2 DEF ViewsOK
  <2>1. /\ view[s] \in WindowView /\ reached[s] \in Nat /\ reached'[s] \in Nat /\ flushed[s] \in Nat
        /\ reached[s] <= reached'[s]
    BY <1>5 DEF WindowsTypeOK
  <2>2. /\ Grounded(s, view[s]) /\ flushed[s] <= reached[s]
        /\ view[s].waiters # {} => view[s].running
        /\ compared[s] = Windows!NotComparing \/ compared[s].version \in 1 .. n
    BY DEF Honest, ViewsOK, n
  <2>3. Grounded(s, view[s])'
    <3>1. view[s].acked \in Nat /\ view[s].version \in 1 .. n
      BY <2>1, <2>2 DEF WindowView, Grounded, n
    <3>2. QED  BY <1>2, <1>4, <2>1, <2>2, <3>1 DEF Grounded
  <2>4. flushed[s] <= reached'[s]  BY <2>1, <2>2
  <2>5. QED  BY <1>4, <2>2, <2>3, <2>4
<1>8. RequestsOK'
  <2> SUFFICES ASSUME NEW q \in requests
               PROVE  /\ q.base \in 1 .. Len(server') /\ q.seen = server'[q.base]
                      /\ q.awaited => Sent(view[q.from], q)
    BY <1>2 DEF RequestsOK
  <2>1. /\ q.base \in 1 .. n /\ q.seen = server[q.base]
        /\ q.awaited => Sent(view[q.from], q)
    BY DEF Honest, RequestsOK, n
  <2>2. QED  BY <1>4, <2>1
<1>9. RepliesOK'
  <2> SUFFICES ASSUME NEW a \in replies'
               PROVE  /\ Sent(view[a.to], a)
                      /\ a.version > 0 => /\ a.version <= Len(server')
                                          /\ server'[a.version] = a.content
                                          /\ a.revision <= reached'[a.to]
    BY <1>2 DEF RepliesOK
  <2>1. CASE a \in replies
    <3>1. a.to \in Sessions /\ a.version \in Nat /\ a.revision \in Nat
      BY <2>1 DEF WindowsTypeOK, SaveReply
    <3>2. /\ Sent(view[a.to], a)
          /\ a.version > 0 => /\ a.version <= n /\ server[a.version] = a.content
                              /\ a.revision <= reached[a.to]
      BY <2>1 DEF Honest, RepliesOK, n
    <3>3. reached[a.to] \in Nat /\ reached'[a.to] \in Nat /\ reached[a.to] <= reached'[a.to]
      BY <1>5, <3>1 DEF WindowsTypeOK
    <3>4. a.version > 0 => a.version \in 1 .. n  BY <1>1, <3>1, <3>2
    <3>5. QED  BY <1>1, <1>4, <3>1, <3>2, <3>3, <3>4
  <2>2. CASE a = m /\ r.awaited
    <3>1. Sent(view[r.from], r)  BY <2>2 DEF Honest, RequestsOK
    <3>2. QED  BY <1>1, <1>3, <1>4, <1>5, <2>2, <3>1 DEF Sent
  <2>3. QED  BY <1>2, <2>1, <2>2
<1>10. OneTurn'  BY <1>2, <1>3 DEF Honest, OneTurn
<1>11. QED  BY <1>6, <1>7, <1>8, <1>9, <1>10 DEF Honest

\* The answer that a window waited for has come; nothing else of it is on the way.
LEMMA WindowAcknowledging ==
  ASSUME WindowsTypeOK, Honest, NEW s \in Sessions, Windows!Acknowledge(s)
  PROVE  WindowsTypeOK' /\ Honest'
<1>1. PICK m \in replies :
        /\ m.to = s /\ m.version > 0
        /\ LET v == Windows!Acknowledged(view[s], m)
               done == view[s].waiters \ v.waiters IN
             /\ IF Windows!Dirty(v) THEN Windows!Continue(s, v)
                ELSE view' = [view EXCEPT ![s] = [v EXCEPT !.running = FALSE]] /\ UNCHANGED requests
             /\ \E n \in done \cup {flushed[s]} :
                  /\ \A k \in done \cup {flushed[s]} : k <= n
                  /\ flushed' = [flushed EXCEPT ![s] = n]
        /\ replies' = replies \ {m}
        /\ UNCHANGED <<server, compared, reached>>
  BY DEF Windows!Acknowledge
<1> DEFINE o == view[s]
           v == Windows!Acknowledged(o, m)
           u == [v EXCEPT !.running = FALSE]
<1>2. /\ o \in WindowView /\ m \in SaveReply /\ m.version \in Nat /\ m.revision \in Nat /\ m.content \in Texts
      /\ o.local \in Nat /\ o.waiters \subseteq Nat /\ o.acked \in Nat
      /\ reached[s] \in Nat /\ flushed[s] \in Nat /\ Len(server) \in Nat
  BY DEF WindowsTypeOK, WindowView, SaveReply
<1>3. v = [o EXCEPT !.version = m.version, !.base = m.content, !.acked = m.revision,
                    !.waiters = {w \in o.waiters : w > m.revision}]
  BY DEF Windows!Acknowledged
<1> HIDE DEF v
<1>4. /\ v \in WindowView /\ v.local = o.local /\ v.content = o.content /\ v.running = o.running
      /\ v.version = m.version /\ v.base = m.content /\ v.acked = m.revision
      /\ v.waiters = {w \in o.waiters : w > m.revision}
  BY <1>2, <1>3 DEF WindowView
<1>5. /\ Sent(o, m) /\ m.version <= Len(server) /\ server[m.version] = m.content
      /\ m.revision <= reached[s]
  BY <1>1 DEF Honest, RepliesOK
<1>6. Grounded(s, o) /\ flushed[s] <= reached[s] /\ ViewsOK  BY DEF Honest, ViewsOK
<1>7. Grounded(s, v)  BY <1>1, <1>2, <1>4, <1>5, <1>6 DEF Grounded, Sent, Windows!Dirty
<1>8. Beside
  <2>1. \A k \in (o.waiters \ v.waiters) \cup {flushed[s]} : k \in Nat /\ k <= reached[s]
    BY <1>2, <1>4, <1>5, <1>6
  <2>2. PICK n \in (o.waiters \ v.waiters) \cup {flushed[s]} : flushed' = [flushed EXCEPT ![s] = n]
    BY <1>1 DEF v
  <2>3. n \in Nat /\ n <= reached[s]  BY <2>1
  <2>4. QED  BY <1>1, <1>6, <2>2, <2>3 DEF Beside, WindowsTypeOK, ViewsOK
<1>9. (\A a \in replies \ {m} : a.to # s) /\ \A r \in requests : r.awaited => r.from # s
  BY <1>1 DEF Honest, OneTurn
<1>10. CASE Windows!Dirty(v)
  <2>1. Windows!Continue(s, v)  BY <1>1, <1>10 DEF v
  <2>2. QED  BY <1>1, <1>4, <1>7, <1>8, <1>9, <2>1, WindowSending
<1>11. CASE ~Windows!Dirty(v)
  <2>1. view' = [view EXCEPT ![s] = u] /\ requests' = requests  BY <1>1, <1>11 DEF v
  <2>2. /\ u \in WindowView /\ u.local = o.local /\ u.content = o.content /\ ~u.running
        /\ u.version = m.version /\ u.base = m.content /\ u.acked = m.revision
        /\ u.waiters = v.waiters
    BY <1>4 DEF WindowView
  <2> HIDE DEF u
  <2>3. Grounded(s, u)  BY <1>4, <1>7, <2>2 DEF Grounded, Windows!Dirty
  <2>4. u.waiters = {}  BY <1>2, <1>4, <1>6, <1>11, <2>2 DEF Windows!Dirty, Grounded
  <2>5. /\ view' \in [Sessions -> WindowView] /\ view'[s] = u
        /\ \A t \in Sessions : t # s => view'[t] = view[t]
    BY <2>1, <2>2 DEF WindowsTypeOK
  <2>6. WindowsTypeOK'  BY <1>1, <1>8, <2>1, <2>5 DEF WindowsTypeOK, Beside
  <2>7. ViewsOK'
    <3> SUFFICES ASSUME NEW t \in Sessions
                 PROVE  /\ Grounded(t, view[t])' /\ (view'[t].waiters # {} => view'[t].running)
      BY <1>8 DEF ViewsOK, Beside
    <3>1. CASE t = s  BY <1>1, <2>3, <2>4, <2>5, <3>1 DEF Grounded
    <3>2. CASE t # s  BY <1>1, <2>5, <3>2 DEF Grounded, Honest, ViewsOK
    <3>3. QED  BY <3>1, <3>2
  <2>8. RequestsOK'
    <3>1. \A r \in requests : r.awaited => view'[r.from] = view[r.from]
      BY <1>9, <2>5 DEF WindowsTypeOK, SaveRequest
    <3>2. QED  BY <1>1, <2>1, <3>1 DEF Honest, RequestsOK
  <2>9. RepliesOK'
    <3>1. \A a \in replies \ {m} : view'[a.to] = view[a.to]
      BY <1>9, <2>5 DEF WindowsTypeOK, SaveReply
    <3>2. QED  BY <1>1, <3>1 DEF Honest, RepliesOK
  <2>10. OneTurn'  BY <1>1, <2>1 DEF Honest, OneTurn
  <2>11. QED  BY <2>6, <2>7, <2>8, <2>9, <2>10 DEF Honest
<1>12. QED  BY <1>10, <1>11

LEMMA WindowStopping ==
  ASSUME WindowsTypeOK, Honest, NEW s \in Sessions, Windows!Stop(s)
  PROVE  WindowsTypeOK' /\ Honest'
<1> DEFINE o == view[s]
           u == Windows!Stopped(o)
           Late(r) == [r EXCEPT !.awaited = FALSE]
<1>1. /\ view' = [view EXCEPT ![s] = u] /\ replies' = {m \in replies : m.to # s}
      /\ requests' = {IF r.from = s THEN Late(r) ELSE r : r \in requests}
      /\ UNCHANGED <<server, compared, reached, flushed>> /\ o \in WindowView
  BY DEF Windows!Stop, WindowsTypeOK
<1>2. /\ u \in WindowView /\ u.local = o.local /\ u.content = o.content /\ ~u.running
      /\ u.version = o.version /\ u.base = o.base /\ u.acked = o.acked /\ u.waiters = {}
  BY <1>1 DEF WindowView, Windows!Stopped
<1> HIDE DEF u
<1>3. /\ view' \in [Sessions -> WindowView] /\ view'[s] = u
      /\ \A t \in Sessions : t # s => view'[t] = view[t]
  BY <1>1, <1>2 DEF WindowsTypeOK
<1>4. ASSUME NEW q \in requests'
      PROVE  /\ q \in SaveRequest
             /\ \/ q \in requests /\ q.from # s
                \/ ~q.awaited /\ \E r \in requests : q.base = r.base /\ q.seen = r.seen
  <2>1. PICK r \in requests : q = IF r.from = s THEN Late(r) ELSE r  BY <1>1
  <2>2. r \in SaveRequest  BY DEF WindowsTypeOK
  <2>3. CASE r.from = s
    <3>1. q = Late(r)  BY <2>1, <2>3
    <3>2. q \in SaveRequest /\ ~q.awaited /\ q.base = r.base /\ q.seen = r.seen
      BY <2>2, <3>1 DEF SaveRequest
    <3>3. QED  BY <3>2
  <2>4. CASE r.from # s  BY <2>1, <2>2, <2>4
  <2>5. QED  BY <2>3, <2>4
<1>5. WindowsTypeOK'  BY <1>1, <1>3, <1>4 DEF WindowsTypeOK
<1>6. ViewsOK'
  <2> SUFFICES ASSUME NEW t \in Sessions
               PROVE  /\ Grounded(t, view[t])' /\ (view'[t].waiters # {} => view'[t].running)
    BY <1>1 DEF ViewsOK, Honest
  <2>1. Grounded(t, view[t])  BY DEF Honest, ViewsOK
  <2>2. CASE t = s  BY <1>1, <1>2, <1>3, <2>1, <2>2 DEF Grounded, Windows!Dirty
  <2>3. CASE t # s  BY <1>1, <1>3, <2>3 DEF Grounded, Honest, ViewsOK
  <2>4. QED  BY <2>2, <2>3
<1>7. RequestsOK'
  <2> SUFFICES ASSUME NEW q \in requests'
               PROVE  /\ q.base \in 1 .. Len(server) /\ q.seen = server[q.base]
                      /\ q.awaited => Sent(view'[q.from], q)
    BY <1>1 DEF RequestsOK
  <2>1. q.from \in Sessions  BY <1>4 DEF SaveRequest
  <2>2. QED  BY <1>3, <1>4, <2>1 DEF Honest, RequestsOK
<1>8. RepliesOK'
  <2>1. \A m \in replies' : m \in replies /\ view'[m.to] = view[m.to]
    BY <1>1, <1>3 DEF WindowsTypeOK, SaveReply
  <2>2. QED  BY <1>1, <2>1 DEF Honest, RepliesOK
<1>9. OneTurn'
  <2>1. \A q \in requests' : q.awaited => q \in requests  BY <1>4
  <2>2. QED  BY <1>1, <2>1 DEF Honest, OneTurn
<1>10. QED  BY <1>5, <1>6, <1>7, <1>8, <1>9 DEF Honest

LEMMA WindowLosing ==
  ASSUME WindowsTypeOK, Honest, NEW r \in requests, Windows!RequestLost(r)
  PROVE  WindowsTypeOK' /\ Honest'
<1>1. requests' \subseteq requests /\ UNCHANGED <<server, view, replies, compared, reached, flushed>>
  BY DEF Windows!RequestLost
<1>2. WindowsTypeOK'  BY <1>1 DEF WindowsTypeOK
<1>3. ViewsOK'  BY <1>1 DEF Honest, ViewsOK, Grounded
<1>4. (RequestsOK /\ RepliesOK /\ OneTurn)'
  BY <1>1 DEF Honest, RequestsOK, RepliesOK, OneTurn
<1>5. QED  BY <1>2, <1>3, <1>4 DEF Honest

LEMMA WindowSessionStep ==
  ASSUME WindowsTypeOK, Honest, [Windows!Next]_(Windows!vars)
  PROVE  WindowsTypeOK' /\ Honest'
<1>1. CASE UNCHANGED Windows!vars
  <2>1. WindowsTypeOK'  BY <1>1 DEF Windows!vars, WindowsTypeOK
  <2>2. ViewsOK'  BY <1>1 DEF Windows!vars, Honest, ViewsOK, Grounded
  <2>3. (RequestsOK /\ RepliesOK /\ OneTurn)'
    BY <1>1 DEF Windows!vars, Honest, RequestsOK, RepliesOK, OneTurn
  <2>4. QED  BY <2>1, <2>2, <2>3 DEF Honest
<1>2. ASSUME NEW s \in Sessions,
             Windows!Refused(s) \/ Windows!NetworkFails(s) \/ Windows!OutOfVersions(s)
      PROVE  WindowsTypeOK' /\ Honest'
  BY <1>2, WindowStopping DEF Windows!Refused, Windows!NetworkFails, Windows!OutOfVersions
<1>3. CASE Windows!Next
  BY <1>2, <1>3, WindowEditing, WindowResolving, WindowReceiving, WindowFiring, WindowFlushing,
     WindowComparing, WindowAcknowledging,
     WindowSaving, WindowLosing
  DEF Windows!Next
<1>4. QED  BY <1>1, <1>3

\* A window never claims more than the server has: what it shows as the server's
\* text is that, what it shows as saved was accepted, and no save that the server
\* accepts replaces a text its author has not seen (drain, receive, resolve).
THEOREM WindowsAreTruthful == Spec => []Truthful
<1>1. Init => WindowsTypeOK /\ Honest
  <2> SUFFICES ASSUME Windows!Init PROVE WindowsTypeOK /\ Honest  BY DEF Init
  <2> DEFINE t == CHOOSE x \in Texts : TRUE
  <2>1. t \in Texts  BY WindowsAssumption
  <2>2. server = <<t>>  BY DEF Windows!Init
  <2> HIDE DEF t
  <2>3. server \in Seq(Texts) /\ Len(server) = 1 /\ server[1] = t  BY <2>1, <2>2
  <2>4. Windows!NewView(1) \in WindowView  BY <2>1, <2>3 DEF Windows!NewView, WindowView
  <2>5. \A s \in Sessions : view[s] = Windows!NewView(1)  BY DEF Windows!Init
  <2>6. WindowsTypeOK  BY <2>3, <2>4 DEF Windows!Init, WindowsTypeOK, Windows!NotComparing
  <2>7. ViewsOK
    <3>1. ASSUME NEW s \in Sessions
          PROVE  /\ view[s].version = 1 /\ view[s].base = t /\ view[s].content = t
                 /\ view[s].acked = 0 /\ view[s].local = 0 /\ view[s].waiters = {}
                 /\ reached[s] = 0 /\ flushed[s] = 0 /\ compared[s] = Windows!NotComparing
      BY <2>3, <2>5 DEF Windows!Init, Windows!NewView
    <3>2. QED  BY <2>3, <3>1 DEF ViewsOK, Grounded, Windows!Dirty
  <2>8. RequestsOK /\ RepliesOK /\ OneTurn  BY DEF Windows!Init, RequestsOK, RepliesOK, OneTurn
  <2>9. QED  BY <2>6, <2>7, <2>8 DEF Honest
<1>2. WindowsTypeOK /\ Honest /\ [Next]_vars => WindowsTypeOK' /\ Honest'
  BY WindowSessionStep, OneMoves
<1>3. WindowsTypeOK /\ Honest => Truthful
  <2> SUFFICES ASSUME WindowsTypeOK, Honest, NEW s \in Sessions
               PROVE  LET v == view[s] IN
                      /\ v.version <= Len(server) /\ v.base = server[v.version]
                      /\ ~Windows!Dirty(v) => v.content = v.base
                      /\ v.acked <= reached[s] /\ flushed[s] <= reached[s]
                      /\ v.waiters # {} => v.running
                      /\ \A r \in requests : r.base = Len(server) => r.seen = Windows!Last(server)
    BY DEF Truthful, Windows!Truthful
  <2>1. \A r \in requests : r.base = Len(server) => r.seen = Windows!Last(server)
    BY DEF Honest, RequestsOK, Windows!Last
  <2>2. QED  BY <2>1 DEF Honest, ViewsOK, Grounded
<1>4. QED  BY <1>1, <1>2, <1>3, PTL DEF Spec
-----------------------------------------------------------------------------
(* The drafts of a page.                                                      *)

Words == DraftTexts \cup {FirstText, ""}
Draft == [content: Words, base: Nat]
OpenedPage ==
  [phase: {"load", "archive", "ready", "failed"}, content: Words, version: Nat, written: Nat,
   local: Nat, acked: Nat, error: BOOLEAN, found: Draft, writes: Seq(Draft)]
DraftRequest == [awaited: BOOLEAN, content: Words, base: Nat, revision: Nat, written: Nat]

DraftsTypeOK ==
  /\ saved \in Seq(Words) /\ active \in Draft /\ recoveries \subseteq Draft
  /\ page \in OpenedPage \cup {Drafts!Closed} /\ request \in DraftRequest

\* What the page has, of a text that its user knows and against the version it shows.
PageOK ==
  Drafts!Open =>
    /\ page.written = page.version /\ page.version >= 1 /\ page.content \in seen
    /\ \A i \in 1 .. Len(page.writes) :
         page.writes[i] = Drafts!NoDraft \/ page.writes[i].content \in seen
    /\ Drafts!Dirty(page) =>
         IF page.writes # <<>> THEN page.writes[Len(page.writes)].content = page.content
         ELSE page.phase = "ready" /\ active.content = page.content
    /\ page.phase = "archive" => page.found = active
    /\ page.phase = "ready" /\ active # Drafts!NoDraft => active.content \in seen \/ active \in recoveries

AwaitedIsOpen == request.awaited => Drafts!Open

DraftInv == DraftsTypeOK /\ PageOK /\ Drafts!WrittenAgainstBase /\ AwaitedIsOpen

-----------------------------------------------------------------------------
LEMMA DraftListenedFacts ==
  ASSUME NEW p \in OpenedPage
  PROVE  LET q == Drafts!Listened(p) IN
         /\ q \in OpenedPage /\ q.content = p.content /\ q.version = p.version
         /\ q.written = p.written /\ q.phase = p.phase /\ q.found = p.found
         /\ q.local = p.local /\ q.acked = p.acked
         /\ q.writes # <<>>
         /\ Drafts!Dirty(p) => q.writes[Len(q.writes)].content = p.content
         /\ \A i \in 1 .. Len(q.writes) :
              \/ i \in 1 .. Len(p.writes) /\ q.writes[i] = p.writes[i]
              \/ q.writes[i] = Drafts!NoDraft \/ q.writes[i].content = p.content
<1> DEFINE w == IF Drafts!Dirty(p) THEN [content |-> p.content, base |-> p.version] ELSE Drafts!NoDraft
           n == IF p.writes # <<>> /\ Drafts!Last(p.writes) = w THEN p.writes ELSE Append(p.writes, w)
           q == [p EXCEPT !.writes = n]
<1>1. p.content \in Words /\ p.version \in Nat /\ p.writes \in Seq(Draft)  BY DEF OpenedPage
<1>2. w \in Draft /\ (Drafts!Dirty(p) => w.content = p.content) /\ (~Drafts!Dirty(p) => w = Drafts!NoDraft)
  BY <1>1 DEF Draft, Drafts!NoDraft, Words
<1> HIDE DEF w
<1>3. /\ n \in Seq(Draft) /\ n # <<>> /\ n[Len(n)] = w
      /\ \A i \in 1 .. Len(n) : (i \in 1 .. Len(p.writes) /\ n[i] = p.writes[i]) \/ n[i] = w
  <2>1. CASE p.writes # <<>> /\ Drafts!Last(p.writes) = w
    BY <1>1, <1>2, <2>1 DEF Drafts!Last
  <2>2. CASE ~(p.writes # <<>> /\ Drafts!Last(p.writes) = w)
    <3>1. n = Append(p.writes, w)  BY <2>2
    <3>2. QED  BY <1>1, <1>2, <3>1
  <2>3. QED  BY <2>1, <2>2
<1>4. Drafts!Listened(p) = q  BY DEF Drafts!Listened, w
<1> HIDE DEF n
<1>5. /\ q \in OpenedPage /\ q.content = p.content /\ q.version = p.version
      /\ q.written = p.written /\ q.phase = p.phase /\ q.found = p.found
      /\ q.local = p.local /\ q.acked = p.acked /\ q.writes = n
  BY <1>3 DEF OpenedPage
<1> HIDE DEF q
<1>6. QED  BY <1>2, <1>3, <1>4, <1>5

\* A page that shows p, whose state was just told to the listener.
LEMMA DraftListening ==
  ASSUME DraftsTypeOK, PageOK, Drafts!Open, NEW p \in OpenedPage, page' = Drafts!Listened(p),
         seen \cup {p.content} \subseteq seen', UNCHANGED active, recoveries \subseteq recoveries',
         p.written = p.version, p.version >= 1, p.phase = page.phase, p.writes = page.writes,
         p.found = page.found
  PROVE  page' \in OpenedPage /\ PageOK'
<1>1. /\ page' \in OpenedPage /\ page'.content = p.content /\ page'.version = p.version
      /\ page'.written = p.written /\ page'.phase = p.phase /\ page'.found = p.found
      /\ page'.writes # <<>> /\ page'.local = p.local /\ page'.acked = p.acked
      /\ Drafts!Dirty(p) => page'.writes[Len(page'.writes)].content = p.content
      /\ \A i \in 1 .. Len(page'.writes) :
           \/ i \in 1 .. Len(p.writes) /\ page'.writes[i] = p.writes[i]
           \/ page'.writes[i] = Drafts!NoDraft \/ page'.writes[i].content = p.content
  BY DraftListenedFacts
<1>2. \A i \in 1 .. Len(page'.writes) :
        page'.writes[i] = Drafts!NoDraft \/ page'.writes[i].content \in seen'
  BY <1>1 DEF PageOK
<1>3. QED  BY <1>1, <1>2 DEF PageOK, Drafts!Open, Drafts!Dirty

LEMMA DraftRecovering ==
  ASSUME DraftsTypeOK, PageOK, Drafts!Open,
         NEW p \in OpenedPage, p.found = active, page' = Drafts!Recovered(p),
         p.content = page.content, p.version = page.version, p.written = page.written,
         p.local = page.local, p.acked = page.acked, p.writes = page.writes,
         seen' = seen \cup {page'.content}, UNCHANGED active, recoveries \subseteq recoveries',
         active \in recoveries'
  PROVE  page' \in OpenedPage /\ PageOK'
<1>1. CASE ~(Drafts!TakesUp(p) /\ p.found.content # p.content)
  <2>1. page' = [p EXCEPT !.phase = "ready"]  BY <1>1 DEF Drafts!Recovered
  <2>2. /\ page' \in OpenedPage /\ page'.content = p.content /\ page'.version = p.version
        /\ page'.written = p.written /\ page'.phase = "ready" /\ page'.local = p.local
        /\ page'.acked = p.acked /\ page'.writes = p.writes
    BY <2>1 DEF OpenedPage
  <2>3. QED  BY <2>2 DEF PageOK, Drafts!Open, Drafts!Dirty
<1>2. CASE Drafts!TakesUp(p) /\ p.found.content # p.content
  <2> DEFINE q == [p EXCEPT !.phase = "ready", !.content = p.found.content,
                            !.local = p.local + 1, !.error = FALSE, !.written = p.found.base]
  <2>1. page' = Drafts!Listened(q)  BY <1>2 DEF Drafts!Recovered
  <2>2. /\ p.local + 1 \in Nat /\ p.found.content \in Words /\ p.found.base \in Nat
        /\ p.found.base = p.version
    BY <1>2 DEF OpenedPage, Draft, Drafts!TakesUp
  <2>3. /\ q \in OpenedPage /\ q.content = p.found.content /\ q.written = q.version
        /\ q.version = p.version /\ q.phase = "ready" /\ q.writes = p.writes
    BY <2>2 DEF OpenedPage
  <2> HIDE DEF q
  <2>4. /\ page' \in OpenedPage /\ page'.content = q.content /\ page'.version = q.version
        /\ page'.written = q.written /\ page'.phase = q.phase
        /\ page'.writes # <<>> /\ page'.local = q.local /\ page'.acked = q.acked
        /\ Drafts!Dirty(q) => page'.writes[Len(page'.writes)].content = q.content
        /\ \A i \in 1 .. Len(page'.writes) :
             \/ i \in 1 .. Len(q.writes) /\ page'.writes[i] = q.writes[i]
             \/ page'.writes[i] = Drafts!NoDraft \/ page'.writes[i].content = q.content
    BY <2>1, <2>3, DraftListenedFacts
  <2>5. \A i \in 1 .. Len(page'.writes) :
          page'.writes[i] = Drafts!NoDraft \/ page'.writes[i].content \in seen'
    BY <2>3, <2>4 DEF PageOK
  <2>6. QED  BY <2>3, <2>4, <2>5 DEF PageOK, Drafts!Open, Drafts!Dirty
<1>3. QED  BY <1>1, <1>2

LEMMA DraftOpenType == ASSUME DraftsTypeOK PROVE Drafts!Open <=> page \in OpenedPage
  BY DEF DraftsTypeOK, OpenedPage, Drafts!Open, Drafts!Closed

LEMMA DraftOneElement == ASSUME NEW S, NEW x \in S PROVE <<x>> \in Seq(S)
  OBVIOUS

LEMMA DraftPageIsOpen == ASSUME NEW p \in OpenedPage PROVE p.phase # "closed"
  BY DEF OpenedPage

\* Every step, the writes of drafts apart, leaves the stored draft alone.
LEMMA DraftOpening ==
  ASSUME DraftInv, NEW version \in 1 .. Len(saved), Drafts!OpenPage(version)
  PROVE  DraftInv' /\ UNCHANGED active
<1>1. /\ saved[version] \in Words /\ version \in Nat /\ version >= 1
      /\ Drafts!NoDraft \in Draft /\ <<>> \in Seq(Draft) /\ Len(<<>>) = 0
  <2>1. saved \in Seq(Words)  BY DEF DraftInv, DraftsTypeOK
  <2>2. Drafts!NoDraft \in Draft  BY DEF Drafts!NoDraft, Draft, Words
  <2>3. QED  BY <2>1, <2>2, EmptySeq
<1>2. /\ page' = [phase |-> "load", content |-> saved[version], version |-> version,
                  written |-> version, local |-> 0, acked |-> 0, error |-> FALSE,
                  found |-> Drafts!NoDraft, writes |-> <<>>]
      /\ seen' = {saved[version]} /\ UNCHANGED <<saved, active, recoveries, request>>
  BY DEF Drafts!OpenPage
<1>3. page' \in OpenedPage  BY <1>1, <1>2 DEF OpenedPage
<1>4. DraftsTypeOK'  BY <1>2, <1>3 DEF DraftInv, DraftsTypeOK
<1>5. PageOK'  BY <1>1, <1>2 DEF PageOK, Drafts!Open, Drafts!Dirty
<1>6. QED  BY <1>2, <1>4, <1>5 DEF DraftInv, Drafts!WrittenAgainstBase, AwaitedIsOpen, Drafts!Open

LEMMA DraftReading ==
  ASSUME DraftInv, Drafts!ReadDrafts
  PROVE  DraftInv' /\ UNCHANGED active
<1> DEFINE p == [page EXCEPT !.found = active]
<1>1. /\ Drafts!Open /\ page \in OpenedPage /\ page.phase = "load" /\ active \in Draft
      /\ seen' = seen \cup {page'.content} /\ UNCHANGED <<saved, active, recoveries, request>>
  BY DraftOpenType DEF Drafts!ReadDrafts, DraftInv, DraftsTypeOK, Drafts!Shows, Drafts!Open
<1>2. /\ p \in OpenedPage /\ p.found = active /\ p.phase = "load" /\ p.content = page.content
      /\ p.version = page.version /\ p.written = page.written /\ p.local = page.local
      /\ p.acked = page.acked /\ p.writes = page.writes
  BY <1>1 DEF OpenedPage
<1> HIDE DEF p
<1>3. page' \in OpenedPage /\ PageOK'
  <2>1. CASE active = Drafts!NoDraft \/ active.content = page.content
    <3>1. page' = [page EXCEPT !.phase = "ready"]  BY <2>1 DEF Drafts!ReadDrafts, Drafts!Shows
    <3>2. /\ page' \in OpenedPage /\ page'.content = page.content /\ page'.version = page.version
          /\ page'.written = page.written /\ page'.phase = "ready" /\ page'.local = page.local
          /\ page'.acked = page.acked /\ page'.writes = page.writes
      BY <1>1, <3>1 DEF OpenedPage
    <3>3. QED  BY <1>1, <2>1, <3>2 DEF DraftInv, PageOK, Drafts!Open, Drafts!Dirty
  <2>2. CASE active # Drafts!NoDraft /\ active.content # page.content /\ active \in recoveries
    <3>1. page' = Drafts!Recovered(p)  BY <2>2 DEF Drafts!ReadDrafts, Drafts!Shows, p
    <3>2. QED  BY <1>1, <1>2, <2>2, <3>1, DraftRecovering DEF DraftInv
  <2>3. CASE active # Drafts!NoDraft /\ active.content # page.content /\ active \notin recoveries
    <3>1. page' = [p EXCEPT !.phase = "archive"]  BY <2>3 DEF Drafts!ReadDrafts, Drafts!Shows, p
    <3>2. /\ page' \in OpenedPage /\ page'.content = page.content /\ page'.version = page.version
          /\ page'.written = page.written /\ page'.phase = "archive" /\ page'.local = page.local
          /\ page'.acked = page.acked /\ page'.writes = page.writes /\ page'.found = active
      BY <1>2, <3>1 DEF OpenedPage
    <3>3. QED  BY <1>1, <2>3, <3>2 DEF DraftInv, PageOK, Drafts!Open, Drafts!Dirty
  <2>4. QED  BY <2>1, <2>2, <2>3
<1>4. QED
  BY <1>1, <1>3, DraftPageIsOpen
     DEF DraftInv, DraftsTypeOK, Drafts!WrittenAgainstBase, AwaitedIsOpen, Drafts!Open

LEMMA DraftArchiving ==
  ASSUME DraftInv, Drafts!ArchiveDraft
  PROVE  DraftInv' /\ UNCHANGED active
<1>1. /\ Drafts!Open /\ page \in OpenedPage /\ page.found = active /\ active \in Draft
      /\ page' = Drafts!Recovered(page) /\ seen' = seen \cup {page'.content}
      /\ recoveries' = recoveries \cup {page.found} /\ UNCHANGED <<saved, active, request>>
  BY DraftOpenType
     DEF Drafts!ArchiveDraft, DraftInv, DraftsTypeOK, Drafts!Shows, Drafts!Open, PageOK
<1>2. page' \in OpenedPage /\ PageOK'  BY <1>1, DraftRecovering DEF DraftInv
<1>3. QED
  BY <1>1, <1>2, DraftPageIsOpen
     DEF DraftInv, DraftsTypeOK, Drafts!WrittenAgainstBase, AwaitedIsOpen, Drafts!Open

LEMMA DraftFailing ==
  ASSUME DraftInv, Drafts!DraftsFail
  PROVE  DraftInv' /\ UNCHANGED active
<1>1. /\ Drafts!Open /\ page \in OpenedPage /\ page' = [page EXCEPT !.phase = "failed"]
      /\ page.phase \in {"load", "archive"}
      /\ UNCHANGED <<saved, active, recoveries, request, seen>>
  BY DraftOpenType DEF Drafts!DraftsFail, DraftInv, DraftsTypeOK, Drafts!Open
<1>2. /\ page' \in OpenedPage /\ page'.content = page.content /\ page'.version = page.version
      /\ page'.written = page.written /\ page'.phase = "failed" /\ page'.local = page.local
      /\ page'.acked = page.acked /\ page'.writes = page.writes
  BY <1>1 DEF OpenedPage
<1>3. PageOK'  BY <1>1, <1>2 DEF DraftInv, PageOK, Drafts!Open, Drafts!Dirty
<1>4. QED
  BY <1>1, <1>2, <1>3
     DEF DraftInv, DraftsTypeOK, Drafts!WrittenAgainstBase, AwaitedIsOpen, Drafts!Open

\* Only here a stored draft is replaced or removed.
LEMMA DraftCommitting ==
  ASSUME DraftInv, Drafts!CommitWrite
  PROVE  DraftInv' /\ (active # Drafts!NoDraft => active.content \in seen \/ active \in recoveries)
<1> DEFINE ws == page.writes
           n == Len(ws)
<1>1. /\ Drafts!Open /\ page \in OpenedPage /\ ws # <<>> /\ active' = Head(ws) /\ page.phase = "ready"
      /\ page' = [page EXCEPT !.writes = Tail(ws)]
      /\ UNCHANGED <<saved, recoveries, request, seen>>
  BY DraftOpenType DEF Drafts!CommitWrite, Drafts!MayWrite, DraftInv
<1>2. ws \in Seq(Draft) /\ n \in Nat /\ n >= 1  BY <1>1 DEF OpenedPage
<1>3. /\ Head(ws) = ws[1] /\ ws[1] \in Draft /\ Tail(ws) \in Seq(Draft)
      /\ Len(Tail(ws)) = n - 1
      /\ \A i \in 1 .. n - 1 : i + 1 \in 1 .. n /\ Tail(ws)[i] = ws[i + 1]
      /\ Tail(ws) = <<>> <=> n = 1
  <2>1. /\ Tail(ws) \in Seq(Draft) /\ Len(Tail(ws)) = n - 1
        /\ \A i \in 1 .. Len(Tail(ws)) : Tail(ws)[i] = ws[i + 1]
    BY <1>1, <1>2, HeadTailProperties
  <2>2. Head(ws) = ws[1] /\ ws[1] \in Draft  BY <1>1, <1>2
  <2>3. Tail(ws) = <<>> <=> n = 1
    <3>1. Len(Tail(ws)) = 0 <=> n = 1  BY <1>2, <2>1
    <3>2. Tail(ws) = <<>> <=> Len(Tail(ws)) = 0  BY <2>1, EmptySeq
    <3>3. QED  BY <3>1, <3>2
  <2> HIDE DEF n
  <2>4. QED  BY <1>2, <2>1, <2>2, <2>3
<1>4. /\ page' \in OpenedPage /\ page'.content = page.content /\ page'.version = page.version
      /\ page'.written = page.written /\ page'.phase = "ready" /\ page'.local = page.local
      /\ page'.acked = page.acked /\ page'.writes = Tail(ws)
  BY <1>1, <1>3 DEF OpenedPage
<1> HIDE DEF n
<1>5. PageOK'
  <2>1. /\ page.written = page.version /\ page.version >= 1 /\ page.content \in seen
        /\ \A i \in 1 .. n : ws[i] = Drafts!NoDraft \/ ws[i].content \in seen
        /\ Drafts!Dirty(page) => ws[n].content = page.content
    BY <1>1 DEF DraftInv, PageOK, n
  <2>2. \A i \in 1 .. Len(page'.writes) :
          page'.writes[i] = Drafts!NoDraft \/ page'.writes[i].content \in seen'
    BY <1>1, <1>3, <1>4, <2>1
  <2>3. active' = Drafts!NoDraft \/ active'.content \in seen'  BY <1>1, <1>2, <1>3, <2>1
  <2>4. Drafts!Dirty(page)' => IF page'.writes # <<>>
                               THEN page'.writes[Len(page'.writes)].content = page'.content
                               ELSE page'.phase = "ready" /\ active'.content = page'.content
    <3> SUFFICES ASSUME Drafts!Dirty(page)'
                 PROVE  IF Tail(ws) # <<>> THEN Tail(ws)[n - 1].content = page.content
                        ELSE ws[1].content = page.content
      BY <1>1, <1>3, <1>4
    <3>1. ws[n].content = page.content  BY <1>4, <2>1 DEF Drafts!Dirty
    <3>2. CASE n = 1  BY <1>3, <3>1, <3>2
    <3>3. CASE n # 1
      <4>1. n - 1 \in 1 .. n - 1 /\ (n - 1) + 1 = n  BY <1>2, <3>3
      <4>2. QED  BY <1>3, <3>1, <3>3, <4>1
    <3>4. QED  BY <3>2, <3>3
  <2>5. QED  BY <1>1, <1>4, <2>1, <2>2, <2>3, <2>4 DEF PageOK
<1>6. DraftsTypeOK'  BY <1>1, <1>3, <1>4 DEF DraftInv, DraftsTypeOK
<1>7. active # Drafts!NoDraft => active.content \in seen \/ active \in recoveries
  BY <1>1 DEF DraftInv, PageOK
<1>8. QED
  BY <1>1, <1>5, <1>6, <1>7 DEF DraftInv, Drafts!WrittenAgainstBase, AwaitedIsOpen, Drafts!Open

LEMMA DraftEditing ==
  ASSUME DraftInv, NEW text \in DraftTexts, Drafts!Edit(text)
  PROVE  DraftInv' /\ UNCHANGED active
<1> DEFINE p == [page EXCEPT !.content = text, !.local = page.local + 1, !.error = FALSE]
<1>1. /\ Drafts!Open /\ page \in OpenedPage /\ page' = Drafts!Listened(p) /\ seen' = seen \cup {page'.content}
      /\ UNCHANGED <<saved, active, recoveries, request>>
  BY DraftOpenType DEF Drafts!Edit, Drafts!Shows, DraftInv
<1>2. page.local + 1 \in Nat /\ text \in Words
  <2>1. page.local \in Nat  BY <1>1 DEF OpenedPage
  <2>2. page.local + 1 \in Nat  BY <2>1
  <2>3. text \in Words  BY DEF Words
  <2>4. QED  BY <2>2, <2>3
<1>3. /\ p \in OpenedPage /\ p.content = text /\ p.written = page.written /\ p.version = page.version
      /\ p.phase = page.phase /\ p.writes = page.writes /\ p.found = page.found
  BY <1>1, <1>2 DEF OpenedPage
<1> HIDE DEF p
<1>4. page'.content = p.content  BY <1>1, <1>3, DraftListenedFacts
<1>5. page.written = page.version /\ page.version >= 1  BY <1>1 DEF DraftInv, PageOK
<1>6. page' \in OpenedPage /\ PageOK'  BY <1>1, <1>3, <1>4, <1>5, DraftListening DEF DraftInv
<1>7. QED
  BY <1>1, <1>6, DraftPageIsOpen
     DEF DraftInv, DraftsTypeOK, Drafts!WrittenAgainstBase, AwaitedIsOpen, Drafts!Open

LEMMA DraftSending ==
  ASSUME DraftInv, Drafts!Send
  PROVE  DraftInv' /\ UNCHANGED active
<1> DEFINE p == [page EXCEPT !.error = FALSE]
<1>1. /\ Drafts!Open /\ page \in OpenedPage /\ page' = Drafts!Listened(p)
      /\ request' = [awaited |-> TRUE, content |-> page.content, base |-> page.version,
                     revision |-> page.local, written |-> page.written]
      /\ UNCHANGED <<saved, active, recoveries, seen>>
  BY DraftOpenType DEF Drafts!Send, DraftInv
<1>2. /\ p \in OpenedPage /\ p.content = page.content /\ p.written = page.written
      /\ p.version = page.version /\ p.phase = page.phase /\ p.writes = page.writes
      /\ p.found = page.found
  BY <1>1 DEF OpenedPage
<1> HIDE DEF p
<1>3. page.written = page.version /\ page.version >= 1 /\ page.content \in seen
  BY <1>1 DEF DraftInv, PageOK
<1>4. page' \in OpenedPage /\ PageOK'  BY <1>1, <1>2, <1>3, DraftListening DEF DraftInv
<1>5. request' \in DraftRequest  BY <1>1 DEF OpenedPage, DraftRequest
<1>6. QED
  BY <1>1, <1>3, <1>4, <1>5, DraftPageIsOpen
     DEF DraftInv, DraftsTypeOK, Drafts!WrittenAgainstBase, AwaitedIsOpen, Drafts!Open

\* A save has been answered, or not: its page, if it still waits, shows the outcome.
LEMMA DraftAnswering ==
  ASSUME DraftInv, UNCHANGED <<active, recoveries, seen>>, request' = Drafts!NoRequest,
         saved' \in Seq(Words),
         \/ UNCHANGED page
         \/ Drafts!Open /\ page' = Drafts!Listened([page EXCEPT !.error = TRUE])
         \/ Drafts!Open /\ \E n, r \in Nat :
              n >= 1 /\ page' = Drafts!Listened([page EXCEPT !.version = n, !.written = n, !.acked = r])
  PROVE  DraftInv'
<1>1. Drafts!NoRequest \in DraftRequest  BY DEF Drafts!NoRequest, DraftRequest, Words
<1>2. page' \in OpenedPage \cup {Drafts!Closed} /\ PageOK'
  <2>1. CASE UNCHANGED page  BY <2>1 DEF DraftInv, DraftsTypeOK, PageOK, Drafts!Open
  <2>2. CASE Drafts!Open /\ page' = Drafts!Listened([page EXCEPT !.error = TRUE])
    <3> DEFINE p == [page EXCEPT !.error = TRUE]
    <3>1. /\ p \in OpenedPage /\ p.content = page.content /\ p.written = page.written
          /\ p.version = page.version /\ p.phase = page.phase /\ p.writes = page.writes
          /\ p.found = page.found /\ page' = Drafts!Listened(p)
      BY <2>2, DraftOpenType DEF DraftInv, OpenedPage
    <3> HIDE DEF p
    <3>2. page.written = page.version /\ page.version >= 1 /\ page.content \in seen
      BY <2>2 DEF DraftInv, PageOK
    <3>3. QED  BY <2>2, <3>1, <3>2, DraftListening DEF DraftInv
  <2>3. ASSUME Drafts!Open, NEW n \in Nat, NEW r \in Nat, n >= 1,
               page' = Drafts!Listened([page EXCEPT !.version = n, !.written = n, !.acked = r])
        PROVE  page' \in OpenedPage /\ PageOK'
    <3> DEFINE p == [page EXCEPT !.version = n, !.written = n, !.acked = r]
    <3>1. /\ p \in OpenedPage /\ p.content = page.content /\ p.written = n
          /\ p.version = n /\ p.phase = page.phase /\ p.writes = page.writes
          /\ p.found = page.found /\ page' = Drafts!Listened(p)
      BY <2>3, DraftOpenType DEF DraftInv, OpenedPage
    <3> HIDE DEF p
    <3>2. page.content \in seen  BY <2>3 DEF DraftInv, PageOK
    <3>3. n >= 1  BY <2>3
    <3>4. page' \in OpenedPage /\ PageOK'  BY <2>3, <3>1, <3>2, <3>3, DraftListening DEF DraftInv
    <3>5. QED  BY <3>4
  <2>4. QED  BY <2>1, <2>2, <2>3
<1>3. QED
  BY <1>1, <1>2
     DEF DraftInv, DraftsTypeOK, Drafts!WrittenAgainstBase, Drafts!NoRequest, AwaitedIsOpen

LEMMA DraftSaveAnswered ==
  ASSUME DraftInv, NEW heard \in BOOLEAN, Drafts!Saves(heard)
  PROVE  DraftInv' /\ UNCHANGED active
<1> DEFINE n == Len(saved) + 1
<1>1. /\ saved \in Seq(Words) /\ request.content \in Words /\ request.revision \in Nat
      /\ page \in OpenedPage \cup {Drafts!Closed} /\ request \in DraftRequest
  BY DEF DraftInv, DraftsTypeOK, DraftRequest
<1>2. saved' \in Seq(Words) /\ n \in Nat /\ n >= 1  BY <1>1 DEF Drafts!Saves
<1>3. /\ UNCHANGED <<active, recoveries, seen>> /\ request' = Drafts!NoRequest
      /\ page' = IF heard
                 THEN Drafts!Listened([page EXCEPT !.version = n, !.written = n,
                                                   !.acked = request.revision])
                 ELSE IF request.awaited THEN Drafts!Listened([page EXCEPT !.error = TRUE]) ELSE page
      /\ heard => request.awaited
  BY DEF Drafts!Saves
<1>4. request.awaited => Drafts!Open  BY DEF DraftInv, AwaitedIsOpen
<1> HIDE DEF n
<1>5. QED  BY <1>1, <1>2, <1>3, <1>4, DraftAnswering

LEMMA DraftSettling ==
  ASSUME DraftInv, Drafts!SaveFails
  PROVE  DraftInv' /\ UNCHANGED active
<1>1. request.awaited => Drafts!Open  BY DEF DraftInv, AwaitedIsOpen
<1>2. saved' \in Seq(Words)  BY DEF Drafts!SaveFails, DraftInv, DraftsTypeOK
<1>3. QED  BY <1>1, <1>2, DraftAnswering DEF Drafts!SaveFails

LEMMA DraftSharing ==
  ASSUME DraftInv, NEW text \in DraftTexts, Drafts!OtherSaves(text)
  PROVE  DraftInv' /\ UNCHANGED active
<1>1. /\ saved' = Append(saved, text)
      /\ UNCHANGED <<active, recoveries, page, request, seen>>
  BY DEF Drafts!OtherSaves
<1>2. text \in Words  BY DEF Words
<1>3. saved' \in Seq(Words)  BY <1>1, <1>2 DEF DraftInv, DraftsTypeOK
<1>4. QED
  BY <1>1, <1>3
     DEF DraftInv, DraftsTypeOK, PageOK, Drafts!WrittenAgainstBase, Drafts!Open, Drafts!Dirty,
         AwaitedIsOpen

LEMMA DraftReceiving ==
  ASSUME DraftInv, NEW version \in 1 .. Len(saved), Drafts!Receive(version)
  PROVE  DraftInv' /\ UNCHANGED active
<1> DEFINE p == IF Drafts!Dirty(page) \/ request.awaited THEN [page EXCEPT !.error = TRUE]
                ELSE [page EXCEPT !.content = saved[version], !.version = version,
                                  !.written = version]
<1>1. /\ Drafts!Open /\ page \in OpenedPage /\ page' = Drafts!Listened(p) /\ seen' = seen \cup {page'.content}
      /\ UNCHANGED <<saved, active, recoveries, request>>
  BY DraftOpenType DEF Drafts!Receive, Drafts!Shows, DraftInv
<1>2. saved[version] \in Words /\ version \in Nat /\ version >= 1
  BY DEF DraftInv, DraftsTypeOK
<1>3. page.written = page.version /\ page.version >= 1  BY <1>1 DEF DraftInv, PageOK
<1>4. /\ p \in OpenedPage /\ p.written = p.version /\ p.version >= 1
      /\ p.phase = page.phase /\ p.writes = page.writes /\ p.found = page.found
  <2>1. CASE Drafts!Dirty(page) \/ request.awaited
    <3>1. p = [page EXCEPT !.error = TRUE]  BY <2>1
    <3>2. QED  BY <1>1, <1>3, <3>1 DEF OpenedPage
  <2>2. CASE ~(Drafts!Dirty(page) \/ request.awaited)
    <3>1. p = [page EXCEPT !.content = saved[version], !.version = version,
                           !.written = version]
      BY <2>2
    <3>2. QED  BY <1>1, <1>2, <3>1 DEF OpenedPage
  <2>3. QED  BY <2>1, <2>2
<1> HIDE DEF p
<1>5. page'.content = p.content  BY <1>1, <1>4, DraftListenedFacts
<1>6. page' \in OpenedPage /\ PageOK'  BY <1>1, <1>4, <1>5, DraftListening DEF DraftInv
<1>7. QED
  BY <1>1, <1>6, DraftPageIsOpen
     DEF DraftInv, DraftsTypeOK, Drafts!WrittenAgainstBase, AwaitedIsOpen, Drafts!Open

LEMMA DraftResolving ==
  ASSUME DraftInv, NEW text \in DraftTexts,
         NEW version \in 1 .. Len(saved), Drafts!Resolve(text, version)
  PROVE  DraftInv' /\ UNCHANGED active
<1> DEFINE p == [page EXCEPT !.content = text, !.version = version, !.written = version,
                             !.local = page.local + 1, !.error = FALSE]
           d == [content |-> page.content, base |-> page.version]
<1>1. /\ Drafts!Open /\ page \in OpenedPage /\ page' = Drafts!Listened(p) /\ seen' = seen \cup {page'.content}
      /\ recoveries' = recoveries \cup {d} /\ UNCHANGED <<saved, active, request>>
  BY DraftOpenType DEF Drafts!Resolve, Drafts!Shows, DraftInv, Drafts!Open, Drafts!Closed
<1>2. version \in Nat /\ version >= 1  OBVIOUS
<1>3. text \in Words /\ d \in Draft  BY <1>1 DEF Words, OpenedPage, Draft
<1>4. page.local \in Nat  BY <1>1 DEF OpenedPage
<1>5. page.local + 1 \in Nat  BY <1>4
<1>6. /\ p \in OpenedPage /\ p.written = p.version /\ p.version = version
      /\ p.phase = page.phase /\ p.writes = page.writes /\ p.found = page.found
  BY <1>1, <1>2, <1>3, <1>5 DEF OpenedPage
<1> HIDE DEF p, d
<1>7. page'.content = p.content  BY <1>1, <1>6, DraftListenedFacts
<1>8. page' \in OpenedPage /\ PageOK'  BY <1>1, <1>2, <1>6, <1>7, DraftListening DEF DraftInv
<1>9. QED
  BY <1>1, <1>3, <1>8, DraftPageIsOpen
     DEF DraftInv, DraftsTypeOK, Drafts!WrittenAgainstBase, AwaitedIsOpen, Drafts!Open

LEMMA DraftForgetting ==
  ASSUME DraftInv, NEW draft \in recoveries, Drafts!ForgetRecovery(draft)
  PROVE  DraftInv' /\ UNCHANGED active
<1>1. /\ recoveries' = recoveries \ {draft} /\ seen' = seen \cup {draft.content}
      /\ UNCHANGED <<saved, active, page, request>>
  BY DEF Drafts!ForgetRecovery
<1>2. DraftsTypeOK'  BY <1>1 DEF DraftInv, DraftsTypeOK
<1>3. PageOK'
  <2> SUFFICES ASSUME Drafts!Open PROVE PageOK'  BY <1>1 DEF PageOK, Drafts!Open
  <2>1. PageOK  BY DEF DraftInv
  <2>2. active \in recoveries => active \in recoveries' \/ active.content \in seen'  BY <1>1
  <2>3. QED  BY <1>1, <2>1, <2>2 DEF PageOK, Drafts!Open, Drafts!Dirty
<1>4. QED  BY <1>1, <1>2, <1>3 DEF DraftInv, Drafts!WrittenAgainstBase, AwaitedIsOpen, Drafts!Open

LEMMA DraftLeaving ==
  ASSUME DraftInv, Drafts!Leave
  PROVE  DraftInv' /\ UNCHANGED active
<1>1. /\ page' = Drafts!Closed /\ UNCHANGED <<saved, active, recoveries>>
      /\ request' = IF request = Drafts!NoRequest THEN request ELSE [request EXCEPT !.awaited = FALSE]
  BY DEF Drafts!Leave
<1>2. request' \in DraftRequest /\ ~request'.awaited /\ request'.written = request'.base
  <2>1. request \in DraftRequest /\ request.written = request.base
    BY DEF DraftInv, DraftsTypeOK, Drafts!WrittenAgainstBase
  <2>2. CASE request = Drafts!NoRequest  BY <1>1, <2>1, <2>2 DEF Drafts!NoRequest
  <2>3. CASE request # Drafts!NoRequest
    <3>1. request' = [request EXCEPT !.awaited = FALSE]  BY <1>1, <2>3
    <3>2. QED  BY <2>1, <3>1 DEF DraftRequest
  <2>4. QED  BY <2>2, <2>3
<1>3. PageOK'  BY <1>1 DEF PageOK, Drafts!Open, Drafts!Closed
<1>4. QED  BY <1>1, <1>2, <1>3 DEF DraftInv, DraftsTypeOK, Drafts!WrittenAgainstBase, AwaitedIsOpen

LEMMA DraftStep ==
  ASSUME DraftInv, [Drafts!Next]_(Drafts!vars)
  PROVE  /\ DraftInv'
         /\ active' # active /\ active # Drafts!NoDraft
              => active.content \in seen \/ active \in recoveries
<1> SUFFICES /\ DraftInv'
             /\ \/ UNCHANGED active
                \/ active # Drafts!NoDraft
                     => active.content \in seen \/ active \in recoveries
  OBVIOUS
<1>1. CASE UNCHANGED Drafts!vars
  BY <1>1
     DEF Drafts!vars, DraftInv, DraftsTypeOK, PageOK, Drafts!Open, Drafts!Dirty,
         Drafts!WrittenAgainstBase, AwaitedIsOpen
<1>2. CASE Drafts!Next
  BY <1>2, DraftOpening, DraftReceiving, DraftReading, DraftArchiving, DraftFailing,
     DraftCommitting, DraftSending, DraftSettling, DraftLeaving, DraftSaveAnswered,
     DraftEditing, DraftSharing, DraftResolving, DraftForgetting
  DEF Drafts!Next
<1>3. QED  BY <1>1, <1>2

\* Typed text survives the page: a stored draft is replaced or removed only after it
\* is archived or its user has seen or dropped it; once the writes have settled the
\* draft is what is not saved; and a save never replaces a version other than the one
\* its text was written against (recoverDrafts, resolve, drain).
THEOREM DraftsAreKept == Spec => DraftsKeepText
<1>1. Init => DraftInv
  <2> SUFFICES ASSUME Drafts!Init PROVE DraftInv  BY DEF Init
  <2>1. FirstText \in Words /\ "" \in Words  BY DEF Words
  <2>2. saved \in Seq(Words)
    <3>1. saved = <<FirstText>>  BY DEF Drafts!Init
    <3>2. QED  BY <2>1, <3>1, DraftOneElement
  <2>3. active \in Draft /\ request \in DraftRequest
    BY <2>1 DEF Drafts!Init, Drafts!NoDraft, Drafts!NoRequest, Draft, DraftRequest
  <2>4. DraftsTypeOK  BY <2>2, <2>3 DEF Drafts!Init, DraftsTypeOK
  <2>5. PageOK  BY DEF Drafts!Init, PageOK, Drafts!Open, Drafts!Closed
  <2>6. QED
    BY <2>4, <2>5
       DEF Drafts!Init, DraftInv, Drafts!WrittenAgainstBase, AwaitedIsOpen, Drafts!NoRequest
<1>2. DraftInv /\ [Next]_vars
        => /\ DraftInv'
           /\ active' # active /\ active # Drafts!NoDraft
                => active.content \in seen \/ active \in recoveries
  BY DraftStep, OneMoves
<1>3. DraftInv => Drafts!DraftIsCurrent /\ Drafts!WrittenAgainstBase
  <2> SUFFICES ASSUME DraftInv PROVE Drafts!DraftIsCurrent  BY DEF DraftInv
  <2>1. PageOK  BY DEF DraftInv
  <2>2. QED  BY <2>1 DEF PageOK, Drafts!DraftIsCurrent
<1>4. QED  BY <1>1, <1>2, <1>3, PTL
  DEF Spec, DraftsKeepText, Drafts!DraftsKeepText, Drafts!ArchivedFirst
-----------------------------------------------------------------------------
(* A reference paper.                                                         *)

Statuses == {"none", "needs-input", "parsing", "ready", "failed", "removed"}
AtWork  == {"reading", "renaming", "storing"}
Names    == Entries \cup {None}
Revisions == 1 .. MaxRevision

Paper == [status: Statuses, revision: Revisions, entry: Names, job: Nat, text: Names]
Selection == [revision: Nat, text: Names]
Job ==
  [status: {"none", "queued", "running", "completed", "failed", "cancelled", "stuck"},
   revision: 0 .. MaxRevision, started: BOOLEAN, at: {"idle", "failing"} \cup AtWork,
   entry: Names, recorded: BOOLEAN]
Calls ==
  [at: {"idle", "enqueueing", "cleaning"}] \cup [at: {"starting"}, entry: Names]
    \cup [at: {"recording"}, job: Papers!Jobs] \cup [at: {"failing"}, revision: Nat]
    \cup [at: {"selecting"}, revision: Nat, selection: Selection]

PapersTypeOK ==
  /\ paper \in Paper
  /\ files \in [Revisions -> Names]
  /\ settings \in [revision: Nat, selection: Selection \cup {None}]
  /\ job \in [Papers!Jobs -> Job]
  /\ calls \in [Callers -> Calls]

\* A job knows a revision the paper has or had, and works only after its start.
JobsOK ==
  \A j \in Papers!Jobs :
    /\ job[j].revision <= paper.revision
    /\ job[j].at # "idle" => job[j].started
    /\ job[j].started => job[j].status # "none"
    /\ job[j].started /\ job[j].recorded /\ Papers!Present => paper.job # 0
    /\ job[j].recorded => job[j].started
    /\ paper.status = "none" => job[j] = Papers!NoJob

\* A request that has a job to record is the only one, and the job waits for it.
CallsOK ==
  /\ \A c \in Callers :
       /\ calls[c].at = "recording" =>
            LET j == job[calls[c].job] IN ~j.started /\ j.status # "none"
       /\ calls[c].at = "cleaning" => paper.status = "removed"
       /\ calls[c].at = "selecting" => calls[c].selection.revision <= paper.revision
       /\ paper.status = "none" => calls[c] = Papers!Idle
  /\ \A c, d \in Callers :
       calls[c].at = "recording" /\ calls[d].at = "recording" /\ calls[c].job = calls[d].job => c = d
  /\ settings.selection # None => settings.selection.revision <= paper.revision
  /\ paper.status = "none" => settings.selection = None

\* A text chosen at this revision is that of the paper's entry, which is then fixed.
Chosen(sel) == sel.revision = paper.revision => sel.text = paper.entry /\ paper.job # 0

\* The same of a job that works on this revision.
OnCourse(j) ==
  job[j].at \in AtWork /\ job[j].revision = paper.revision =>
    /\ job[j].entry = paper.entry /\ paper.job # 0
    /\ job[j].at = "storing" => files[paper.revision] = paper.entry

Agreed ==
  Papers!Present /\ ~Papers!Forgotten =>
    /\ paper.status = "ready" =>
         paper.text = paper.entry /\ files[paper.revision] = paper.entry /\ paper.job # 0
    /\ \A j \in Papers!Jobs : OnCourse(j)
    /\ settings.selection # None => Chosen(settings.selection)
    /\ \A c \in Callers : calls[c].at = "selecting" => Chosen(calls[c].selection)

PaperInv == JobsOK /\ CallsOK /\ Agreed

-----------------------------------------------------------------------------
\* A job that was started moves on, for the revision it was made for.
LEMMA PaperJobMoves ==
  ASSUME PapersTypeOK, PaperInv, NEW j \in Papers!Jobs, NEW k \in Job, job' = [job EXCEPT ![j] = k],
         job[j].started, k.revision = job[j].revision, k.started,
         k.recorded = job[j].recorded, k.status # "none",
         paper' \in Paper, paper'.revision = paper.revision, paper'.entry = paper.entry,
         paper'.job = paper.job, paper.status # "none" => paper'.status # "none",
         paper'.status = "removed" <=> paper.status = "removed",
         files' \in [Revisions -> Names], UNCHANGED <<settings, calls>>,
         Papers!Present /\ ~Papers!Forgotten =>
           /\ k.at \in AtWork /\ k.revision = paper.revision =>
                k.entry = paper.entry /\ (k.at = "storing" => files'[paper.revision] = paper.entry)
           /\ files[paper.revision] = paper.entry => files'[paper.revision] = paper.entry
           /\ paper'.status = "ready" =>
                \/ paper.status = "ready" /\ paper'.text = paper.text
                \/ /\ k.revision = paper.revision /\ paper'.text = paper.entry
                   /\ files'[paper.revision] = paper.entry
  PROVE  PapersTypeOK' /\ PaperInv'
<1>1. /\ job' \in [Papers!Jobs -> Job] /\ job'[j] = k
      /\ \A i \in Papers!Jobs : i # j => job'[i] = job[i]
  BY DEF PapersTypeOK
<1>2. PapersTypeOK'  BY <1>1 DEF PapersTypeOK
<1>3. paper.status # "none" /\ paper'.status # "none" /\ (Papers!Present' <=> Papers!Present)
  <2>1. paper.status # "none"  BY DEF PaperInv, JobsOK, Papers!NoJob
  <2>2. QED  BY <2>1 DEF Papers!Present
<1>4. JobsOK'  BY <1>1, <1>3 DEF PaperInv, JobsOK
<1>5. CallsOK'
  <2>1. \A i \in Papers!Jobs : ~job[i].started => job'[i] = job[i]  BY <1>1
  <2>2. ASSUME NEW c \in Callers, calls[c].at = "recording"
        PROVE  LET i == job'[calls[c].job] IN ~i.started /\ i.status # "none"
    <3>1. calls[c].job \in Papers!Jobs  BY <2>2 DEF PapersTypeOK, Calls
    <3>2. QED  BY <2>1, <2>2, <3>1 DEF PaperInv, CallsOK
  <2>3. QED  BY <1>3, <2>2 DEF PaperInv, CallsOK
<1>6. Papers!Forgotten' <=> Papers!Forgotten
  <2>1. \A i \in Papers!Jobs : /\ job'[i].started = job[i].started
                               /\ job'[i].recorded = job[i].recorded
                               /\ job'[i].revision = job[i].revision
    BY <1>1 DEF PapersTypeOK, Job
  <2>2. QED  BY <2>1 DEF Papers!Forgotten
<1>7. Agreed'
  <2> SUFFICES ASSUME Papers!Present, ~Papers!Forgotten PROVE Agreed'  BY <1>3, <1>6 DEF Agreed
  <2>1. k.revision = paper.revision => paper.job # 0
    BY DEF PaperInv, JobsOK, Papers!Forgotten, PapersTypeOK, Job
  <2>2. \A i \in Papers!Jobs : OnCourse(i)  BY DEF PaperInv, Agreed
  <2>3. \A i \in Papers!Jobs : OnCourse(i)'
    <3>1. OnCourse(j)'  BY <1>1, <2>1 DEF OnCourse
    <3>2. \A i \in Papers!Jobs : i # j => OnCourse(i)'  BY <1>1, <2>2 DEF OnCourse
    <3>3. QED  BY <3>1, <3>2
  <2>4. paper'.status = "ready" =>
          paper'.text = paper.entry /\ files'[paper.revision] = paper.entry /\ paper.job # 0
    BY <2>1 DEF PaperInv, Agreed
  <2>5. /\ settings.selection # None => Chosen(settings.selection)'
        /\ \A c \in Callers : calls[c].at = "selecting" => Chosen(calls[c].selection)'
    BY DEF PaperInv, Agreed, Chosen
  <2>6. QED  BY <2>3, <2>4, <2>5 DEF Agreed
<1>8. QED  BY <1>2, <1>4, <1>5, <1>7 DEF PaperInv

\* But for its status, a job is as it was.
Like(x, y) ==
  /\ x.revision = y.revision /\ x.started = y.started /\ x.at = y.at
  /\ x.entry = y.entry /\ x.recorded = y.recorded
  /\ (x.status = "none" <=> y.status = "none") /\ (y = Papers!NoJob => x = Papers!NoJob)

\* A request moves on without a job to record.
LEMMA PaperCallMoves ==
  ASSUME PapersTypeOK, PaperInv, NEW c \in Callers,
         NEW k \in Calls, calls' = [calls EXCEPT ![c] = k],
         job' \in [Papers!Jobs -> Job], \A j \in Papers!Jobs : Like(job'[j], job[j]),
         paper' \in Paper, paper'.revision = paper.revision, paper'.entry = paper.entry,
         paper'.job = paper.job, paper'.text = paper.text,
         paper'.status = "ready" => paper.status = "ready", Papers!Present' => Papers!Present,
         paper.status = "removed" => paper'.status = "removed", paper.status # "none",
         paper'.status # "none",
         files' \in [Revisions -> Names], Papers!Present' => UNCHANGED files,
         settings' \in [revision: Nat, selection: Selection \cup {None}],
         settings'.selection # None =>
           \/ settings'.selection = settings.selection
           \/ calls[c].at = "selecting" /\ settings'.selection = calls[c].selection,
         k.at # "recording", k.at = "cleaning" => paper'.status = "removed",
         k.at = "selecting" => /\ k.selection.revision <= paper.revision
                               /\ Papers!Present /\ ~Papers!Forgotten => Chosen(k.selection)
  PROVE  PapersTypeOK' /\ PaperInv'
<1>1. /\ calls' \in [Callers -> Calls] /\ calls'[c] = k
      /\ \A d \in Callers : d # c => calls'[d] = calls[d]
  BY DEF PapersTypeOK
<1>2. PapersTypeOK'  BY <1>1 DEF PapersTypeOK
<1>3. JobsOK'  BY DEF PaperInv, JobsOK, Like
<1>4. CallsOK'
  <2>1. ASSUME NEW d \in Callers, calls'[d].at = "recording"
        PROVE  /\ calls[d].at = "recording" /\ calls'[d].job = calls[d].job
               /\ LET i == job'[calls'[d].job] IN ~i.started /\ i.status # "none"
    <3>1. d # c /\ calls'[d] = calls[d]  BY <1>1, <2>1
    <3>2. calls[d].job \in Papers!Jobs  BY <2>1, <3>1 DEF PapersTypeOK, Calls
    <3>3. QED  BY <2>1, <3>1, <3>2 DEF PaperInv, CallsOK, Like
  <2>2. ASSUME NEW d \in Callers
        PROVE  /\ calls'[d].at = "cleaning" => paper'.status = "removed"
               /\ calls'[d].at = "selecting" => calls'[d].selection.revision <= paper.revision
    BY <1>1 DEF PaperInv, CallsOK
  <2>3. settings'.selection # None => settings'.selection.revision <= paper.revision
    BY DEF PaperInv, CallsOK
  <2>4. QED  BY <2>1, <2>2, <2>3 DEF PaperInv, CallsOK
<1>5. Papers!Forgotten' <=> Papers!Forgotten  BY DEF Papers!Forgotten, Like
<1>6. Agreed'
  <2> SUFFICES ASSUME Papers!Present', Papers!Present, ~Papers!Forgotten PROVE Agreed'
    BY <1>5 DEF Agreed
  <2>1. \A i \in Papers!Jobs : OnCourse(i)'
    BY DEF PaperInv, Agreed, OnCourse, Like
  <2>2. settings'.selection # None => Chosen(settings'.selection)
    BY DEF PaperInv, Agreed
  <2>3. \A d \in Callers : calls'[d].at = "selecting" => Chosen(calls'[d].selection)
    BY <1>1 DEF PaperInv, Agreed
  <2>4. QED  BY <2>1, <2>2, <2>3 DEF PaperInv, Agreed, Chosen
<1>7. QED  BY <1>2, <1>3, <1>4, <1>6 DEF PaperInv

-----------------------------------------------------------------------------
LEMMA PaperSameJobs ==
  ASSUME PapersTypeOK
  PROVE  /\ job \in [Papers!Jobs -> Job] /\ \A j \in Papers!Jobs : Like(job[j], job[j])
         /\ paper \in Paper /\ files \in [Revisions -> Names]
         /\ settings \in [revision: Nat, selection: Selection \cup {None}]
         /\ Papers!Idle \in Calls /\ Papers!Idle.at = "idle"
  BY DEF PapersTypeOK, Like, Papers!Idle, Calls

LEMMA PaperCancelledFacts ==
  ASSUME NEW x \in Job
  PROVE  Papers!Cancelled(x) \in Job /\ Like(Papers!Cancelled(x), x)
<1>1. CASE x.status \in {"queued", "running"}
  <2>1. Papers!Cancelled(x) = [x EXCEPT !.status = "cancelled"]  BY <1>1 DEF Papers!Cancelled
  <2>2. x # Papers!NoJob  BY <1>1 DEF Papers!NoJob
  <2>3. QED  BY <1>1, <2>1, <2>2 DEF Job, Like
<1>2. CASE x.status \notin {"queued", "running"}
  BY <1>2 DEF Papers!Cancelled, Like
<1>3. QED  BY <1>1, <1>2

LEMMA PaperUploading ==
  ASSUME PapersTypeOK, PaperInv, NEW c \in Callers, Papers!Upload(c)
  PROVE  PapersTypeOK' /\ PaperInv'
<1>1. /\ paper.status = "none" /\ UNCHANGED <<files, settings, job>>
      /\ paper'.revision = paper.revision /\ paper'.job = paper.job /\ paper' \in Paper
      /\ paper'.status \in {"parsing", "needs-input"}
  BY DEF Papers!Upload, PapersTypeOK, Paper, Statuses, Names
<1>2. PICK k \in Calls : calls' = [calls EXCEPT ![c] = k] /\ k.at \in {"idle", "starting"}
  <2>1. [at |-> "starting", entry |-> None] \in Calls  BY DEF Calls, Names
  <2>2. QED  BY <2>1, PaperSameJobs DEF Papers!Upload, Papers!Goes, Papers!Ends
<1>3. /\ calls' \in [Callers -> Calls] /\ calls'[c] = k
      /\ \A d \in Callers : d # c => calls'[d] = calls[d]
  BY <1>2 DEF PapersTypeOK
<1>4. PapersTypeOK'  BY <1>1, <1>3 DEF PapersTypeOK
<1>5. /\ \A j \in Papers!Jobs : job[j] = Papers!NoJob
      /\ \A d \in Callers : d # c => calls[d] = Papers!Idle
      /\ settings.selection = None
  BY <1>1 DEF PaperInv, JobsOK, CallsOK
<1>6. JobsOK'
  BY <1>1, <1>5 DEF PaperInv, JobsOK, Papers!NoJob
<1>7. \A d \in Callers : calls'[d].at \in {"idle", "starting"}  BY <1>2, <1>3, <1>5 DEF Papers!Idle
<1>8. CallsOK'  BY <1>1, <1>5, <1>7 DEF CallsOK
<1>9. Agreed'  BY <1>1, <1>5, <1>7 DEF Agreed, OnCourse, Papers!NoJob, AtWork
<1>10. QED  BY <1>4, <1>6, <1>8, <1>9 DEF PaperInv

LEMMA PaperRestarting ==
  ASSUME PapersTypeOK, PaperInv, NEW c \in Callers, Papers!StartParse(c)
  PROVE  PapersTypeOK' /\ PaperInv'
<1>1. PICK e \in Names : calls' = [calls EXCEPT ![c] = [at |-> "starting", entry |-> e]]
  BY DEF Papers!StartParse, Papers!Goes, Names
<1>2. [at |-> "starting", entry |-> e] \in Calls  BY DEF Calls
<1>3. /\ UNCHANGED <<paper, files, settings>> /\ paper.status # "none"
      /\ job' = [j \in Papers!Jobs |-> IF j = paper.job THEN Papers!Cancelled(job[j]) ELSE job[j]]
  BY DEF Papers!StartParse, Papers!Present
<1>4. \A j \in Papers!Jobs : job[j] \in Job  BY DEF PapersTypeOK
<1>5. job' \in [Papers!Jobs -> Job] /\ \A j \in Papers!Jobs : Like(job'[j], job[j])
  BY <1>3, <1>4, PaperCancelledFacts DEF Like
<1>6. PICK k \in Calls : k = [at |-> "starting", entry |-> e]  BY <1>2
<1>7. calls' = [calls EXCEPT ![c] = k] /\ k.at = "starting"  BY <1>1, <1>6
<1>8. Papers!Present' => Papers!Present  BY <1>3 DEF Papers!Present
<1>9. QED  BY <1>3, <1>5, <1>7, <1>8, PaperSameJobs, PaperCallMoves

\* The paper is outdated, or nothing works on its revision yet.
LEMMA PaperMarking ==
  ASSUME PapersTypeOK, PaperInv, NEW c \in Callers, Papers!Marks(c)
  PROVE  PapersTypeOK' /\ PaperInv'
<1>1. CASE ~Papers!Present
  <2>1. paper.status # "none"  BY DEF Papers!Marks, PaperInv, CallsOK, Papers!Idle
  <2>2. /\ calls' = [calls EXCEPT ![c] = Papers!Idle] /\ UNCHANGED <<paper, settings, files, job>>
    BY <1>1 DEF Papers!Marks, Papers!Ends, Papers!Goes
  <2>3. Papers!Present' => Papers!Present  BY <2>2 DEF Papers!Present
  <2>4. QED  BY <2>1, <2>2, <2>3, PaperSameJobs, PaperCallMoves
<1>2. CASE Papers!Present
  <2>1. /\ UNCHANGED <<files, job>> /\ calls' = [calls EXCEPT ![c] = [at |-> "enqueueing"]]
        /\ Papers!Outdates => paper.revision < MaxRevision
        /\ paper' = [paper EXCEPT
             !.entry = IF calls[c].entry # None THEN calls[c].entry ELSE paper.entry,
             !.revision = IF Papers!Outdates THEN paper.revision + 1 ELSE paper.revision,
             !.status = "parsing"]
        /\ settings' = IF settings.selection # None
                       THEN [settings EXCEPT !.selection = None, !.revision = settings.revision + 1]
                       ELSE settings
        /\ calls[c].at = "starting"
    BY <1>2 DEF Papers!Marks, Papers!Goes
  <2>2. calls[c].entry \in Names  BY <2>1 DEF PapersTypeOK, Calls
  <2>3. /\ paper \in Paper /\ paper.revision \in Nat /\ paper.revision >= 1
        /\ paper.revision <= MaxRevision
    BY DEF PapersTypeOK, Paper, Revisions
  <2>4. /\ paper' \in Paper /\ paper'.status = "parsing" /\ paper'.job = paper.job
        /\ paper'.revision = IF Papers!Outdates THEN paper.revision + 1 ELSE paper.revision
    <3>1. (IF Papers!Outdates THEN paper.revision + 1 ELSE paper.revision) \in Revisions
      BY <2>1, <2>3, PapersAssumption DEF Revisions
    <3>2. (IF calls[c].entry # None THEN calls[c].entry ELSE paper.entry) \in Names
      BY <2>2, <2>3 DEF Paper
    <3>3. QED  BY <2>1, <2>3, <3>1, <3>2 DEF Paper, Statuses
  <2>5. settings' \in [revision: Nat, selection: Selection \cup {None}] /\ settings'.selection = None
    <3>1. settings \in [revision: Nat, selection: Selection \cup {None}]  BY DEF PapersTypeOK
    <3>2. settings.revision + 1 \in Nat  BY <3>1
    <3>3. QED  BY <2>1, <3>1, <3>2
  <2>6. /\ calls' \in [Callers -> Calls] /\ calls'[c].at = "enqueueing"
        /\ \A d \in Callers : d # c => calls'[d] = calls[d]
    <3>1. [at |-> "enqueueing"] \in Calls  BY DEF Calls
    <3>2. QED  BY <2>1, <3>1 DEF PapersTypeOK
  <2>7. PapersTypeOK'  BY <2>1, <2>4, <2>5, <2>6 DEF PapersTypeOK
  <2>8. Papers!Present' /\ paper.status \notin {"none", "removed"}  BY <1>2, <2>4 DEF Papers!Present
  <2>9. \A j \in Papers!Jobs : job[j].revision \in Nat /\ job[j].revision <= paper.revision
    BY DEF PapersTypeOK, Job, PaperInv, JobsOK
  <2>10. JobsOK'
    BY <1>2, <2>1, <2>3, <2>4, <2>8, <2>9 DEF PaperInv, JobsOK
  <2>11. CallsOK'
    <3>1. \A d \in Callers : calls'[d].at \in {"recording", "cleaning", "selecting"} =>
            calls'[d] = calls[d]
      BY <2>6
    <3>2. \A d \in Callers : calls'[d].at = "selecting" =>
            calls'[d].selection.revision \in Nat /\ calls'[d].selection.revision <= paper.revision
      BY <3>1 DEF PaperInv, CallsOK, PapersTypeOK, Calls, Selection
    <3>3. \A d \in Callers : calls'[d].at # "cleaning"
      BY <2>8, <3>1 DEF PaperInv, CallsOK
    <3>4. \A d \in Callers : calls'[d].at = "selecting" =>
            calls'[d].selection.revision <= paper'.revision
      BY <2>3, <2>4, <3>2
    <3>5. QED
      BY <2>1, <2>4, <2>5, <3>1, <3>3, <3>4 DEF PaperInv, CallsOK
  <2>12. Agreed'
    <3>1. CASE Papers!Outdates
      <4>1. paper'.revision = paper.revision + 1  BY <2>4, <3>1
      <4>2. \A j \in Papers!Jobs : OnCourse(j)'  BY <2>1, <2>3, <2>9, <4>1 DEF OnCourse
      <4>3. \A d \in Callers : calls'[d].at = "selecting" =>
              calls'[d].selection.revision # paper'.revision
        <5>1. \A d \in Callers : calls'[d].at = "selecting" =>
                calls[d].at = "selecting" /\ calls'[d] = calls[d]
          BY <2>6
        <5>2. \A d \in Callers : calls[d].at = "selecting" =>
                /\ calls[d].selection.revision \in Nat
                /\ calls[d].selection.revision <= paper.revision
          BY DEF PaperInv, CallsOK, PapersTypeOK, Calls, Selection
        <5>3. QED  BY <2>3, <4>1, <5>1, <5>2
      <4>4. QED  BY <2>4, <2>5, <4>2, <4>3 DEF Agreed, Chosen
    <3>2. CASE ~Papers!Outdates
      <4>1. paper'.revision = paper.revision /\ paper.job = 0  BY <2>4, <3>2 DEF Papers!Outdates
      <4>2. Papers!Forgotten' <=> Papers!Forgotten  BY <2>1, <4>1 DEF Papers!Forgotten
      <4>3. SUFFICES ASSUME ~Papers!Forgotten PROVE Agreed'  BY <4>2 DEF Agreed
      <4>4. \A j \in Papers!Jobs : OnCourse(j)'
        BY <1>2, <2>1, <4>1, <4>3 DEF PaperInv, Agreed, OnCourse
      <4>5. \A d \in Callers : calls'[d].at = "selecting" =>
              calls'[d].selection.revision # paper'.revision
        BY <1>2, <2>6, <4>1, <4>3 DEF PaperInv, Agreed, Chosen
      <4>6. QED  BY <2>4, <2>5, <4>4, <4>5 DEF Agreed, Chosen
    <3>3. QED  BY <3>1, <3>2
  <2>13. QED  BY <2>7, <2>10, <2>11, <2>12 DEF PaperInv
<1>3. QED  BY <1>1, <1>2

LEMMA PaperMarkFailedFacts ==
  ASSUME PapersTypeOK, NEW n, Papers!MarkFailed(n)
  PROVE  /\ paper' \in Paper /\ paper'.revision = paper.revision /\ paper'.entry = paper.entry
         /\ paper'.job = paper.job /\ paper'.text = paper.text
         /\ paper'.status = paper.status \/ (Papers!Present /\ paper'.status = "failed")
         /\ Papers!Present' <=> Papers!Present
         /\ paper'.status = "removed" <=> paper.status = "removed"
         /\ paper.status # "none" => paper'.status # "none"
  BY DEF Papers!MarkFailed, PapersTypeOK, Paper, Statuses, Papers!Present

LEMMA PaperEnqueueing ==
  ASSUME PapersTypeOK, PaperInv, NEW c \in Callers, Papers!Enqueues(c)
  PROVE  PapersTypeOK' /\ PaperInv'
<1>1. calls[c].at = "enqueueing" /\ UNCHANGED <<paper, files, settings>>  BY DEF Papers!Enqueues
<1>2. paper.status # "none"  BY <1>1 DEF PaperInv, CallsOK, Papers!Idle
<1>3. ASSUME UNCHANGED job, NEW k \in Calls, calls' = [calls EXCEPT ![c] = k],
             k.at \in {"failing", "idle"}
      PROVE  PapersTypeOK' /\ PaperInv'
  <2>1. Papers!Present' => Papers!Present  BY <1>1 DEF Papers!Present
  <2>2. QED  BY <1>1, <1>2, <1>3, <2>1, PaperSameJobs, PaperCallMoves
<1>4. ASSUME NEW j \in Papers!Jobs, job[j] = Papers!NoJob, Papers!Present,
             job' = [job EXCEPT ![j] = [Papers!NoJob EXCEPT !.status = "queued",
                                                            !.revision = paper.revision]],
             calls' = [calls EXCEPT ![c] = [at |-> "recording", job |-> j]]
      PROVE  PapersTypeOK' /\ PaperInv'
  <2> DEFINE x == [Papers!NoJob EXCEPT !.status = "queued", !.revision = paper.revision]
             k == [at |-> "recording", job |-> j]
  <2>1. /\ x \in Job /\ x.revision = paper.revision /\ ~x.started /\ ~x.recorded
        /\ x.at = "idle" /\ x.status = "queued"
    <3>1. paper.revision \in 0 .. MaxRevision  BY DEF PapersTypeOK, Paper, Revisions
    <3>2. Papers!NoJob \in Job  BY <1>4 DEF PapersTypeOK
    <3>3. ~Papers!NoJob.started /\ ~Papers!NoJob.recorded /\ Papers!NoJob.at = "idle"
      BY DEF Papers!NoJob
    <3>4. QED  BY <3>1, <3>2, <3>3 DEF Job
  <2>2. k \in Calls /\ k.at = "recording" /\ k.job = j  BY DEF Calls
  <2> HIDE DEF x, k
  <2>3. /\ job' \in [Papers!Jobs -> Job] /\ job'[j] = x /\ \A i \in Papers!Jobs : i # j => job'[i] = job[i]
        /\ calls' \in [Callers -> Calls] /\ calls'[c] = k
        /\ \A d \in Callers : d # c => calls'[d] = calls[d]
    BY <1>4, <2>1, <2>2 DEF PapersTypeOK, x, k
  <2>4. PapersTypeOK'  BY <1>1, <2>3 DEF PapersTypeOK
  <2>5. paper.revision \in Nat  BY DEF PapersTypeOK, Paper, Revisions
  <2>6. JobsOK'  BY <1>1, <1>2, <2>1, <2>3, <2>5 DEF PaperInv, JobsOK, Papers!Present
  <2>7. \A d \in Callers : d # c /\ calls[d].at = "recording" => calls[d].job # j /\ calls[d].job \in Papers!Jobs
    BY <1>4 DEF PaperInv, CallsOK, Papers!NoJob, PapersTypeOK, Calls
  <2>8. CallsOK'
    <3>1. ASSUME NEW d \in Callers, calls'[d].at = "recording"
          PROVE  LET i == job'[calls'[d].job] IN ~i.started /\ i.status # "none"
      <4>1. CASE d = c  BY <2>1, <2>2, <2>3, <4>1
      <4>2. CASE d # c  BY <2>3, <2>7, <3>1, <4>2 DEF PaperInv, CallsOK
      <4>3. QED  BY <4>1, <4>2
    <3>2. \A d, e \in Callers :
            calls'[d].at = "recording" /\ calls'[e].at = "recording" /\ calls'[d].job = calls'[e].job
              => d = e
      BY <2>2, <2>3, <2>7 DEF PaperInv, CallsOK
    <3>3. QED  BY <1>1, <1>2, <2>2, <2>3, <3>1, <3>2 DEF PaperInv, CallsOK
  <2>9. Papers!Forgotten' <=> Papers!Forgotten
    BY <1>1, <1>4, <2>1, <2>3 DEF Papers!Forgotten, Papers!NoJob
  <2>10. Agreed'
    <3> SUFFICES ASSUME Papers!Present, ~Papers!Forgotten PROVE Agreed'
      BY <1>1, <2>9 DEF Agreed, Papers!Present
    <3>1. \A i \in Papers!Jobs : OnCourse(i)'
      BY <1>1, <2>1, <2>3 DEF PaperInv, Agreed, OnCourse, AtWork
    <3>2. QED  BY <1>1, <2>2, <2>3, <3>1 DEF PaperInv, Agreed, Chosen
  <2>11. QED  BY <2>4, <2>6, <2>8, <2>10 DEF PaperInv
<1>5. paper.revision \in Nat  BY DEF PapersTypeOK, Paper, Revisions
<1>6. CASE /\ Papers!Present /\ Papers!Goes(c, [at |-> "failing", revision |-> paper.revision])
           /\ UNCHANGED job
  <2>1. PICK k \in Calls : k = [at |-> "failing", revision |-> paper.revision]
    BY <1>5 DEF Calls
  <2>2. k.at = "failing"  BY <2>1
  <2>3. QED  BY <1>3, <1>6, <2>1, <2>2 DEF Papers!Goes
<1>7. CASE ~Papers!Present /\ Papers!Ends(c) /\ UNCHANGED job
  BY <1>3, <1>7, PaperSameJobs DEF Papers!Ends, Papers!Goes
<1>8. QED  BY <1>4, <1>6, <1>7 DEF Papers!Enqueues, Papers!Goes

LEMMA PaperFailing ==
  ASSUME PapersTypeOK, PaperInv, NEW c \in Callers, Papers!CallFails(c)
  PROVE  PapersTypeOK' /\ PaperInv'
<1>1. /\ calls[c].at = "failing" /\ UNCHANGED <<files, settings, job>>
      /\ Papers!MarkFailed(calls[c].revision) /\ calls' = [calls EXCEPT ![c] = Papers!Idle]
  BY DEF Papers!CallFails, Papers!Ends, Papers!Goes
<1>2. paper.status # "none"  BY <1>1 DEF PaperInv, CallsOK, Papers!Idle
<1>3. QED  BY <1>1, <1>2, PaperSameJobs, PaperMarkFailedFacts, PaperCallMoves

LEMMA PaperRecording ==
  ASSUME PapersTypeOK, PaperInv, NEW c \in Callers, Papers!Records(c)
  PROVE  PapersTypeOK' /\ PaperInv'
<1>1. calls[c].at = "recording" /\ UNCHANGED <<files, settings>>  BY DEF Papers!Records
<1>2. PICK j \in Papers!Jobs : j = calls[c].job  BY <1>1 DEF PapersTypeOK, Calls
<1>3. j \in Nat /\ j # 0  BY DEF Papers!Jobs
<1> DEFINE x == [job[j] EXCEPT !.started = TRUE, !.recorded = TRUE]
<1>4. /\ paper' = IF Papers!Present THEN [paper EXCEPT !.job = j] ELSE paper
      /\ job' = [job EXCEPT ![j] = x] /\ calls' = [calls EXCEPT ![c] = Papers!Idle]
  BY <1>2 DEF Papers!Records, Papers!Ends, Papers!Goes, PapersTypeOK
<1>5. /\ job[j] \in Job /\ ~job[j].started /\ job[j].status # "none"
      /\ paper.status # "none"
  BY <1>1, <1>2 DEF PapersTypeOK, PaperInv, CallsOK, Papers!Idle
<1>6. /\ x \in Job /\ x.started /\ x.recorded /\ x.revision = job[j].revision
      /\ x.at = job[j].at /\ x.status = job[j].status /\ x.entry = job[j].entry
  BY <1>5 DEF Job
<1> HIDE DEF x
<1>7. /\ job' \in [Papers!Jobs -> Job] /\ job'[j] = x /\ \A i \in Papers!Jobs : i # j => job'[i] = job[i]
      /\ calls' \in [Callers -> Calls] /\ calls'[c].at = "idle"
      /\ \A d \in Callers : d # c => calls'[d] = calls[d]
  BY <1>4, <1>6, PaperSameJobs DEF PapersTypeOK
<1>8. /\ paper' \in Paper /\ paper'.status = paper.status /\ paper'.revision = paper.revision
      /\ paper'.entry = paper.entry /\ paper'.text = paper.text
      /\ paper'.job = IF Papers!Present THEN j ELSE paper.job
  BY <1>3, <1>4 DEF PapersTypeOK, Paper
<1>9. PapersTypeOK' /\ (Papers!Present' <=> Papers!Present)
  BY <1>1, <1>7, <1>8 DEF PapersTypeOK, Papers!Present
<1>10. JobsOK'
  BY <1>3, <1>5, <1>6, <1>7, <1>8, <1>9 DEF PaperInv, JobsOK
<1>11. \A d \in Callers : calls'[d].at # "idle" => d # c /\ calls'[d] = calls[d]  BY <1>7
<1>12. CallsOK'
  <2>1. ASSUME NEW d \in Callers, calls'[d].at = "recording"
        PROVE  LET i == job'[calls'[d].job] IN ~i.started /\ i.status # "none"
    <3>1. d # c /\ calls'[d] = calls[d]  BY <1>11, <2>1
    <3>2. calls[d].job # j /\ calls[d].job \in Papers!Jobs
      BY <1>1, <1>2, <2>1, <3>1 DEF PaperInv, CallsOK, PapersTypeOK, Calls
    <3>3. QED  BY <1>7, <2>1, <3>1, <3>2 DEF PaperInv, CallsOK
  <2>2. QED  BY <1>1, <1>5, <1>8, <1>11, <2>1 DEF PaperInv, CallsOK
<1>13. Papers!Forgotten' <=> Papers!Forgotten
  BY <1>5, <1>6, <1>7, <1>8 DEF Papers!Forgotten
<1>14. Agreed'
  <2> SUFFICES ASSUME Papers!Present, ~Papers!Forgotten PROVE Agreed'  BY <1>9, <1>13 DEF Agreed
  <2>1. \A i \in Papers!Jobs : OnCourse(i)'
    BY <1>1, <1>3, <1>6, <1>7, <1>8 DEF PaperInv, Agreed, OnCourse
  <2>2. QED  BY <1>1, <1>3, <1>8, <1>11, <2>1 DEF PaperInv, Agreed, Chosen
<1>15. QED  BY <1>9, <1>10, <1>12, <1>14 DEF PaperInv

LEMMA PaperChoosing ==
  ASSUME PapersTypeOK, PaperInv, NEW c \in Callers, Papers!Chooses(c) \/ Papers!SavesSettings(c)
  PROVE  PapersTypeOK' /\ PaperInv'
<1>1. CASE Papers!Chooses(c)
  <2> DEFINE q == [revision |-> paper.revision, text |-> paper.text]
             k == [at |-> "selecting", revision |-> settings.revision, selection |-> q]
  <2>1. /\ paper.status = "ready" /\ UNCHANGED <<paper, files, settings, job>>
        /\ calls' = [calls EXCEPT ![c] = k]
    BY <1>1 DEF Papers!Chooses, Papers!Goes
  <2>2. paper.revision \in Nat /\ paper.text \in Names /\ settings.revision \in Nat
    BY DEF PapersTypeOK, Paper, Revisions
  <2>3. q \in Selection /\ q.revision = paper.revision /\ q.text = paper.text
    BY <2>2 DEF Selection
  <2> HIDE DEF q
  <2>4. k \in Calls /\ k.at = "selecting" /\ k.selection = q  BY <2>2, <2>3 DEF Calls
  <2> HIDE DEF k
  <2>5. Papers!Present  BY <2>1 DEF Papers!Present
  <2>6. ~Papers!Forgotten => Chosen(k.selection)
    BY <2>1, <2>3, <2>4, <2>5 DEF PaperInv, Agreed, Chosen
  <2>7. k.selection.revision <= paper.revision  BY <2>2, <2>3, <2>4
  <2>8. Papers!Present' /\ paper.status # "none" /\ paper'.status # "none"
    BY <2>1, <2>5 DEF Papers!Present
  <2>9. QED  BY <2>1, <2>4, <2>5, <2>6, <2>7, <2>8, PaperSameJobs, PaperCallMoves
<1>2. CASE Papers!SavesSettings(c)
  <2>1. /\ calls[c].at = "selecting" /\ UNCHANGED <<paper, files, job>>
        /\ calls' = [calls EXCEPT ![c] = Papers!Idle]
        /\ settings' = IF settings.revision = calls[c].revision
                       THEN [revision |-> settings.revision + 1, selection |-> calls[c].selection]
                       ELSE settings
    BY <1>2 DEF Papers!SavesSettings, Papers!Ends, Papers!Goes
  <2>2. calls[c].selection \in Selection /\ settings.revision \in Nat
    BY <2>1 DEF PapersTypeOK, Calls
  <2>3. settings.revision + 1 \in Nat  BY <2>2
  <2>4. /\ settings' \in [revision: Nat, selection: Selection \cup {None}]
        /\ settings'.selection = settings.selection \/ settings'.selection = calls[c].selection
    BY <2>1, <2>2, <2>3, PaperSameJobs
  <2>5. paper.status # "none"  BY <2>1 DEF PaperInv, CallsOK, Papers!Idle
  <2>6. Papers!Present' => Papers!Present  BY <2>1 DEF Papers!Present
  <2>7. QED  BY <2>1, <2>4, <2>5, <2>6, PaperSameJobs, PaperCallMoves
<1>3. QED  BY <1>1, <1>2

LEMMA PaperRemoving ==
  ASSUME PapersTypeOK, PaperInv, NEW c \in Callers, Papers!Remove(c) \/ Papers!Cleans(c)
  PROVE  PapersTypeOK' /\ PaperInv'
<1>1. CASE Papers!Remove(c)
  <2>1. PICK k \in Calls : k = [at |-> "cleaning"]  BY DEF Calls
  <2>2. /\ UNCHANGED <<files, job>> /\ paper.status # "none" /\ k.at = "cleaning"
        /\ calls' = [calls EXCEPT ![c] = k] /\ paper' = [paper EXCEPT !.status = "removed"]
        /\ settings' = IF settings.revision = 0 THEN settings
                       ELSE [settings EXCEPT !.selection = None, !.revision = settings.revision + 1]
    BY <1>1, <2>1 DEF Papers!Remove, Papers!Goes, Papers!Present
  <2>3. /\ paper' \in Paper /\ paper'.status = "removed" /\ paper'.revision = paper.revision
        /\ paper'.entry = paper.entry /\ paper'.job = paper.job /\ paper'.text = paper.text
    BY <2>2 DEF PapersTypeOK, Paper, Statuses
  <2>4. /\ settings' \in [revision: Nat, selection: Selection \cup {None}]
        /\ settings'.selection \in {settings.selection, None}
    <3>1. settings \in [revision: Nat, selection: Selection \cup {None}]  BY DEF PapersTypeOK
    <3>2. settings.revision + 1 \in Nat  BY <3>1
    <3>3. QED  BY <2>2, <3>1, <3>2
  <2>5. ~Papers!Present'  BY <2>3 DEF Papers!Present
  <2>6. QED  BY <2>2, <2>3, <2>4, <2>5, PaperSameJobs, PaperCallMoves
<1>2. CASE Papers!Cleans(c)
  <2>1. /\ calls[c].at = "cleaning" /\ UNCHANGED <<paper, settings>>
        /\ calls' = [calls EXCEPT ![c] = Papers!Idle]
        /\ job' = [j \in Papers!Jobs |-> Papers!Cancelled(job[j])]
        /\ files' = [r \in 1..MaxRevision |-> None]
    BY <1>2 DEF Papers!Cleans, Papers!Ends, Papers!Goes
  <2>2. paper.status = "removed"  BY <2>1 DEF PaperInv, CallsOK
  <2>3. files' \in [Revisions -> Names]  BY <2>1 DEF Revisions, Names
  <2>4. \A j \in Papers!Jobs : job[j] \in Job  BY DEF PapersTypeOK
  <2>5. job' \in [Papers!Jobs -> Job] /\ \A j \in Papers!Jobs : Like(job'[j], job[j])
    BY <2>1, <2>4, PaperCancelledFacts
  <2>6. ~Papers!Present'  BY <2>1, <2>2 DEF Papers!Present
  <2>7. QED  BY <2>1, <2>2, <2>3, <2>5, <2>6, PaperSameJobs, PaperCallMoves
<1>3. QED  BY <1>1, <1>2

-----------------------------------------------------------------------------
\* A job that works moves from one await to the next.
LEMMA PaperProgressing ==
  ASSUME PapersTypeOK, PaperInv,
         NEW j \in Papers!Jobs, Papers!JobBegins(j) \/ Papers!Extracts(j) \/ Papers!JobFails(j)
  PROVE  PapersTypeOK' /\ PaperInv'
<1>1. job[j] \in Job /\ paper \in Paper /\ files \in [Revisions -> Names]  BY DEF PapersTypeOK
<1>2. CASE Papers!JobBegins(j)
  <2> DEFINE at == IF Papers!Present /\ paper.revision = job[j].revision THEN "reading" ELSE "failing"
             k == [job[j] EXCEPT !.status = "running", !.entry = paper.entry, !.at = at]
  <2>1. /\ job[j].started /\ UNCHANGED <<paper, files, settings, calls>>
        /\ job' = [job EXCEPT ![j] = k]
    BY <1>1, <1>2 DEF Papers!JobBegins
  <2>2. paper.entry \in Names /\ at \in {"reading", "failing"}  BY <1>1 DEF Paper
  <2> HIDE DEF at
  <2>3. /\ k \in Job /\ k.revision = job[j].revision /\ k.started = job[j].started
        /\ k.recorded = job[j].recorded /\ k.status = "running" /\ k.entry = paper.entry
        /\ k.at # "storing"
    BY <1>1, <2>2 DEF Job, AtWork
  <2> HIDE DEF k
  <2>4. QED  BY <1>1, <2>1, <2>3, PaperJobMoves
<1>3. CASE Papers!Extracts(j)
  <2>1. PICK at \in {"renaming", "failing"} : job' = [job EXCEPT ![j].at = at]
    BY <1>3 DEF Papers!Extracts
  <2> DEFINE k == [job[j] EXCEPT !.at = at]
  <2>2. /\ job[j].at = "reading" /\ UNCHANGED <<paper, files, settings, calls>>
        /\ job' = [job EXCEPT ![j] = k]
    BY <1>1, <1>3, <2>1 DEF Papers!Extracts
  <2>3. /\ k \in Job /\ k.revision = job[j].revision /\ k.started = job[j].started
        /\ k.recorded = job[j].recorded /\ k.status = job[j].status /\ k.entry = job[j].entry
        /\ k.at = at
    BY <1>1 DEF Job, AtWork
  <2> HIDE DEF k
  <2>4. job[j].started /\ k.status # "none"  BY <2>2, <2>3 DEF PaperInv, JobsOK
  <2>5. Papers!Present /\ ~Papers!Forgotten /\ k.revision = paper.revision => k.entry = paper.entry
    BY <2>2, <2>3 DEF PaperInv, Agreed, OnCourse, AtWork
  <2>6. QED  BY <1>1, <2>2, <2>3, <2>4, <2>5, PaperJobMoves
<1>4. CASE Papers!JobFails(j)
  <2> DEFINE st == IF job[j].status = "cancelled" THEN job[j].status ELSE "failed"
             k == [job[j] EXCEPT !.at = "idle", !.entry = None, !.status = st]
  <2>1. /\ job[j].at = "failing" /\ Papers!MarkFailed(job[j].revision)
        /\ UNCHANGED <<files, settings, calls>> /\ job' = [job EXCEPT ![j] = k]
    BY <1>1, <1>4 DEF Papers!JobFails
  <2>2. st \in {"cancelled", "failed"}  OBVIOUS
  <2> HIDE DEF st
  <2>3. /\ k \in Job /\ k.revision = job[j].revision /\ k.started = job[j].started
        /\ k.recorded = job[j].recorded /\ k.status # "none" /\ k.at = "idle"
    BY <1>1, <2>2 DEF Job, Names
  <2> HIDE DEF k
  <2>4. job[j].started  BY <2>1 DEF PaperInv, JobsOK
  <2>5. k.at \notin AtWork  BY <2>3 DEF AtWork
  <2>6. paper'.status = "ready" => paper.status = "ready" /\ paper'.text = paper.text
    BY <2>1, PaperMarkFailedFacts
  <2>7. QED  BY <1>1, <2>1, <2>3, <2>4, <2>5, <2>6, PaperMarkFailedFacts, PaperJobMoves
<1>5. QED  BY <1>2, <1>3, <1>4

LEMMA PaperWriting ==
  ASSUME PapersTypeOK, PaperInv, NEW j \in Papers!Jobs, Papers!Renames(j)
  PROVE  PapersTypeOK' /\ PaperInv'
<1>1. job[j] \in Job /\ paper \in Paper /\ files \in [Revisions -> Names]  BY DEF PapersTypeOK
<1>2. job[j].at = "renaming" /\ UNCHANGED <<paper, settings, calls>>  BY DEF Papers!Renames
<1>3. job[j].started /\ job[j].status # "none" /\ job[j].entry \in Names
  BY <1>1, <1>2 DEF PaperInv, JobsOK, Job
<1>4. CASE UNCHANGED files /\ job' = [job EXCEPT ![j].at = "failing"]
  <2> DEFINE k == [job[j] EXCEPT !.at = "failing"]
  <2>1. job' = [job EXCEPT ![j] = k]  BY <1>1, <1>4
  <2>2. /\ k \in Job /\ k.revision = job[j].revision /\ k.started = job[j].started
        /\ k.recorded = job[j].recorded /\ k.status = job[j].status /\ k.at = "failing"
    BY <1>1 DEF Job, AtWork
  <2> HIDE DEF k
  <2>3. k.at \notin AtWork  BY <2>2 DEF AtWork
  <2>4. QED  BY <1>1, <1>2, <1>3, <1>4, <2>1, <2>2, <2>3, PaperJobMoves
<1>5. CASE /\ files' = [files EXCEPT ![job[j].revision] = job[j].entry]
           /\ job' = [job EXCEPT ![j].at = "storing"]
  <2> DEFINE k == [job[j] EXCEPT !.at = "storing"]
  <2>1. job' = [job EXCEPT ![j] = k]  BY <1>1, <1>5
  <2>2. /\ k \in Job /\ k.revision = job[j].revision /\ k.started = job[j].started
        /\ k.recorded = job[j].recorded /\ k.status = job[j].status /\ k.entry = job[j].entry
        /\ k.at = "storing"
    BY <1>1 DEF Job, AtWork
  <2> HIDE DEF k
  <2>3. files' \in [Revisions -> Names]  BY <1>1, <1>3, <1>5
  <2>4. Papers!Present /\ ~Papers!Forgotten /\ job[j].revision = paper.revision => job[j].entry = paper.entry
    BY <1>2 DEF PaperInv, Agreed, OnCourse, AtWork
  <2>5. paper.revision \in Revisions  BY <1>1 DEF Paper
  <2>6. Papers!Present /\ ~Papers!Forgotten =>
          /\ job[j].revision = paper.revision => files'[paper.revision] = paper.entry
          /\ files[paper.revision] = paper.entry => files'[paper.revision] = paper.entry
    BY <1>1, <1>5, <2>4, <2>5
  <2>7. QED  BY <1>1, <1>2, <1>3, <2>1, <2>2, <2>3, <2>4, <2>6, PaperJobMoves
<1>6. QED  BY <1>4, <1>5 DEF Papers!Renames

LEMMA PaperStoring ==
  ASSUME PapersTypeOK, PaperInv, NEW j \in Papers!Jobs, Papers!Stores(j)
  PROVE  PapersTypeOK' /\ PaperInv'
<1>1. job[j] \in Job /\ paper \in Paper /\ files \in [Revisions -> Names]  BY DEF PapersTypeOK
<1>2. job[j].at = "storing" /\ UNCHANGED <<files, settings, calls>>  BY DEF Papers!Stores
<1>3. job[j].started /\ job[j].status # "none" /\ job[j].entry \in Names
  BY <1>1, <1>2 DEF PaperInv, JobsOK, Job
<1>4. CASE Papers!Current(j)
  <2> DEFINE k == [job[j] EXCEPT !.at = "idle", !.entry = None, !.status = "completed"]
  <2>1. /\ paper' = [paper EXCEPT !.status = "ready", !.text = job[j].entry]
        /\ job' = [job EXCEPT ![j] = k] /\ Papers!Present /\ paper.revision = job[j].revision
    BY <1>1, <1>4 DEF Papers!Stores, Papers!Current
  <2>2. /\ k \in Job /\ k.revision = job[j].revision /\ k.started = job[j].started
        /\ k.recorded = job[j].recorded /\ k.status # "none" /\ k.at = "idle"
    BY <1>1 DEF Job, Names
  <2> HIDE DEF k
  <2>3. k.at \notin AtWork  BY <2>2 DEF AtWork
  <2>4. /\ paper' \in Paper /\ paper'.status = "ready" /\ paper'.text = job[j].entry
        /\ paper'.revision = paper.revision /\ paper'.entry = paper.entry
        /\ paper'.job = paper.job
    BY <1>1, <1>3, <2>1 DEF Paper, Statuses
  <2>5. ~Papers!Forgotten => job[j].entry = paper.entry /\ files[paper.revision] = paper.entry
    BY <1>2, <2>1 DEF PaperInv, Agreed, OnCourse, AtWork
  <2>6. paper.status # "removed"  BY <2>1 DEF Papers!Present
  <2>7. QED  BY <1>1, <1>2, <1>3, <2>1, <2>2, <2>3, <2>4, <2>5, <2>6, PaperJobMoves
<1>5. CASE ~Papers!Current(j)
  <2> DEFINE k == [job[j] EXCEPT !.at = "failing"]
  <2>1. job' = [job EXCEPT ![j] = k] /\ UNCHANGED paper  BY <1>1, <1>5 DEF Papers!Stores
  <2>2. /\ k \in Job /\ k.revision = job[j].revision /\ k.started = job[j].started
        /\ k.recorded = job[j].recorded /\ k.status = job[j].status /\ k.at = "failing"
    BY <1>1 DEF Job, AtWork
  <2> HIDE DEF k
  <2>3. k.at \notin AtWork  BY <2>2 DEF AtWork
  <2>4. QED  BY <1>1, <1>2, <1>3, <2>1, <2>2, <2>3, PaperJobMoves
<1>6. QED  BY <1>4, <1>5

\* A restart launches what was queued; a job whose request died is then forgotten.
LEMMA PaperCrashing ==
  ASSUME PapersTypeOK, PaperInv, Papers!Crash
  PROVE  PapersTypeOK' /\ PaperInv'
<1>1. /\ UNCHANGED <<paper, files, settings>> /\ calls' = [c \in Callers |-> Papers!Idle]
      /\ job' = [j \in Papers!Jobs |-> Papers!Restarted(job[j])]
  BY DEF Papers!Crash
<1>2. ASSUME NEW j \in Papers!Jobs
      PROVE  /\ job'[j] \in Job /\ job'[j].revision = job[j].revision /\ job'[j].at = "idle"
             /\ job'[j].recorded = job[j].recorded
             /\ job'[j].started = job[j].started \/ (job'[j].started /\ job[j].status = "queued")
             /\ (job'[j].status = "none" <=> job[j].status = "none")
             /\ (job[j] = Papers!NoJob => job'[j] = Papers!NoJob)
  <2>1. job[j] \in Job /\ job'[j] = Papers!Restarted(job[j])  BY <1>1 DEF PapersTypeOK
  <2>2. CASE job[j].status = "queued"
    <3>1. job'[j] = [job[j] EXCEPT !.started = TRUE, !.at = "idle"]
      BY <2>1, <2>2 DEF Papers!Restarted
    <3>2. job[j] # Papers!NoJob  BY <2>2 DEF Papers!NoJob
    <3>3. QED  BY <2>1, <2>2, <3>1, <3>2 DEF Job
  <2>3. CASE job[j].status # "queued"
    <3> DEFINE st == IF job[j].status = "running" THEN "stuck" ELSE job[j].status
    <3>1. job'[j] = [job[j] EXCEPT !.status = st, !.at = "idle", !.entry = None]
      BY <2>1, <2>3 DEF Papers!Restarted
    <3>2. /\ st \in {"none", "queued", "completed", "failed", "cancelled", "stuck"}
          /\ st = "none" <=> job[j].status = "none"
      BY <2>1 DEF Job
    <3>3. job[j] = Papers!NoJob => st = "none"  BY DEF Papers!NoJob
    <3> HIDE DEF st
    <3>4. /\ job'[j] \in Job /\ job'[j].revision = job[j].revision /\ job'[j].at = "idle"
          /\ job'[j].recorded = job[j].recorded /\ job'[j].started = job[j].started
          /\ job'[j].status = st
      BY <2>1, <3>1, <3>2 DEF Job, Names
    <3>5. ASSUME job[j] = Papers!NoJob PROVE job'[j] = Papers!NoJob
      <4>1. job'[j] = [Papers!NoJob EXCEPT !.status = "none", !.at = "idle", !.entry = None]
        BY <3>1, <3>3, <3>5
      <4>2. QED  BY <4>1 DEF Papers!NoJob
    <3>6. QED  BY <3>2, <3>4, <3>5
  <2>4. QED  BY <2>2, <2>3
<1>3. PapersTypeOK'  BY <1>1, <1>2, PaperSameJobs DEF PapersTypeOK
<1>4. JobsOK'
  <2> SUFFICES ASSUME NEW j \in Papers!Jobs
               PROVE  /\ job'[j].revision <= paper.revision /\ job'[j].at = "idle"
                      /\ (job'[j].started => job'[j].status # "none")
                      /\ (job'[j].started /\ job'[j].recorded /\ Papers!Present => paper.job # 0)
                      /\ (job'[j].recorded => job'[j].started)
                      /\ (paper.status = "none" => job'[j] = Papers!NoJob)
    BY <1>1 DEF JobsOK, Papers!Present
  <2>1. job[j].recorded => job[j].started  BY DEF PaperInv, JobsOK
  <2>2. QED  BY <1>2, <2>1 DEF PaperInv, JobsOK
<1>5. \A c \in Callers : calls'[c] = Papers!Idle /\ calls'[c].at = "idle"  BY <1>1 DEF Papers!Idle
<1>6. CallsOK'  BY <1>1, <1>5 DEF PaperInv, CallsOK
<1>7. ~Papers!Forgotten' => ~Papers!Forgotten
  <2>1. \A j \in Papers!Jobs : job[j].started => job'[j].started  BY <1>2
  <2>2. QED  BY <1>1, <1>2, <2>1 DEF Papers!Forgotten
<1>8. Agreed'
  <2>1. \A j \in Papers!Jobs : OnCourse(j)'  BY <1>2 DEF OnCourse, AtWork
  <2>2. QED  BY <1>1, <1>5, <1>7, <2>1 DEF PaperInv, Agreed, Chosen, Papers!Present
<1>9. QED  BY <1>3, <1>4, <1>6, <1>8 DEF PaperInv

LEMMA PaperStep ==
  ASSUME PapersTypeOK, PaperInv, [Papers!Next]_(Papers!vars)
  PROVE  PapersTypeOK' /\ PaperInv'
<1>1. CASE UNCHANGED Papers!vars
  BY <1>1
     DEF Papers!vars, PapersTypeOK, PaperInv, JobsOK, CallsOK, Agreed, OnCourse, Chosen,
         Papers!Present, Papers!Forgotten
<1>2. CASE Papers!Next
  BY <1>2, PaperUploading, PaperRestarting, PaperMarking, PaperEnqueueing, PaperFailing,
     PaperRecording, PaperChoosing, PaperRemoving,
     PaperProgressing, PaperWriting, PaperStoring, PaperCrashing
  DEF Papers!Next
<1>3. QED  BY <1>1, <1>2

\* What users see as ready is the text of the entry they chose, and their selections
\* speak of it, however often the paper is parsed anew, removed or interrupted, unless
\* a crash has cut a queued job off from its paper (startParse, parse, saveSettings).
THEOREM ReadyPapersAgree == Spec => []PapersAgree
<1>1. Init => PapersTypeOK /\ PaperInv
  <2> SUFFICES ASSUME Papers!Init PROVE PapersTypeOK /\ PaperInv  BY DEF Init
  <2>1. Papers!NoJob \in Job /\ Papers!NoJob.at = "idle" /\ Papers!NoJob.revision = 0
        /\ ~Papers!NoJob.started /\ ~Papers!NoJob.recorded
    BY PapersAssumption DEF Papers!NoJob, Job, Names
  <2>2. paper \in Paper /\ paper.status = "none" /\ paper.revision = 1
    BY PapersAssumption DEF Papers!Init, Paper, Statuses, Names, Revisions
  <2>3. \A j \in Papers!Jobs : job[j] = Papers!NoJob  BY DEF Papers!Init
  <2>4. \A c \in Callers : calls[c] = Papers!Idle /\ calls[c].at = "idle"
    BY DEF Papers!Init, Papers!Idle
  <2>5. files \in [Revisions -> Names]  BY DEF Papers!Init, Revisions, Names
  <2>6. Papers!Idle \in Calls  BY DEF Papers!Idle, Calls
  <2>7. PapersTypeOK  BY <2>1, <2>2, <2>5, <2>6 DEF Papers!Init, PapersTypeOK
  <2>8. JobsOK  BY <2>1, <2>2, <2>3 DEF JobsOK
  <2>9. CallsOK  BY <2>4 DEF Papers!Init, CallsOK
  <2>10. Agreed  BY <2>2 DEF Agreed, Papers!Present
  <2>11. QED  BY <2>7, <2>8, <2>9, <2>10 DEF PaperInv
<1>2. PapersTypeOK /\ PaperInv /\ [Next]_vars => PapersTypeOK' /\ PaperInv'
  BY PaperStep, OneMoves
<1>3. PaperInv => PapersAgree
  BY DEF PaperInv, Agreed, Chosen, PapersAgree, Papers!PapersAgree, Papers!ReadyIsCurrent,
         Papers!SelectionsKeepTheirText, Papers!Present
<1>4. QED  BY <1>1, <1>2, <1>3, PTL DEF Spec
-----------------------------------------------------------------------------
(* Mail.                                                                      *)

WorkStates == {"idle", "choosing", "claiming", "claimed", "sending", "sent", "failed"}

Deliverable ==
  [status: {"pending", "sent", "failed"}, attempts: Nat, due: BOOLEAN,
   lease: {"none", "live", "expired"}]
Working ==
  [at: WorkStates, todo: SUBSET Deliveries, item: Deliveries, stale: BOOLEAN]

MailTypeOK ==
  /\ mail \in [Deliveries -> Deliverable]
  /\ work \in [Dispatchers -> Working]
  /\ accepted \in [Deliveries -> Nat] /\ troubles \in Nat

\* A pending delivery has attempts left, and a live lease keeps it from being due;
\* only who has claimed can have overrun its lease.
ClaimInv ==
  /\ \A d \in Deliveries : Mail!Pending(d) =>
       mail[d].attempts < Budget /\ (mail[d].lease = "live" => ~mail[d].due)
  /\ \A w \in Dispatchers : work[w].at \in {"idle", "choosing", "claiming"} => ~work[w].stale

\* Who has claimed d, and whose attempt is still to be sent or to be recorded.
Sender(w, d) == work[w].item = d /\ work[w].at \in {"claimed", "sending", "failed"}
Senders(d)   == {w \in Dispatchers : Sender(w, d)}

\* Nobody works on d under a lease: it may be claimed, now or later.
Free(d) == Mail!Pending(d) /\ (mail[d].lease # "live" \/ Mail!Holders(d) = {})
One(b)  == IF b THEN 1 ELSE 0

Counted == \A d \in Deliveries :
  accepted[d] + Cardinality(Senders(d)) + One(Free(d)) <= 1 + troubles

-----------------------------------------------------------------------------
LEMMA MailTypeInit == ASSUME Mail!Init PROVE MailTypeOK /\ ClaimInv
<1>1. (CHOOSE d \in Deliveries : TRUE) \in Deliveries  BY MailAssumption
<1>2. Mail!Fresh \in Deliverable  BY DEF Mail!Fresh, Deliverable
<1>3. Mail!Resting \in Working  BY <1>1 DEF Mail!Resting, Working, WorkStates
<1>4. MailTypeOK  BY <1>2, <1>3 DEF Mail!Init, MailTypeOK
<1>5. ClaimInv  BY MailAssumption DEF Mail!Init, ClaimInv, Mail!Fresh, Mail!Resting, Mail!Pending
<1>6. QED  BY <1>4, <1>5

\* A dispatcher that moves leaves the others where they are.
LEMMA MailWorkType ==
  ASSUME MailTypeOK, NEW w \in Dispatchers, NEW at \in WorkStates, NEW d \in Deliveries
  PROVE  /\ Mail!Goes(w, at) =>
              /\ work' \in [Dispatchers -> Working] /\ \A v \in Dispatchers \ {w} : work'[v] = work[v]
              /\ work'[w].at = at /\ work'[w].item = work[w].item /\ work'[w].stale = work[w].stale
         /\ Mail!Turns(w) =>
              /\ work' \in [Dispatchers -> Working] /\ \A v \in Dispatchers \ {w} : work'[v] = work[v]
              /\ work'[w].at = "choosing" /\ work'[w].item = work[w].item /\ ~work'[w].stale
<1>1. work \in [Dispatchers -> Working] /\ work[w] \in Working  BY DEF MailTypeOK
<1>2. /\ [work[w] EXCEPT !.at = at] \in Working
      /\ [work[w] EXCEPT !.at = "choosing", !.stale = FALSE] \in Working
  BY <1>1 DEF Working, WorkStates
<1>3. QED  BY <1>1, <1>2 DEF Mail!Goes, Mail!Turns, Working

\* A delivery after a success and after a failure.
LEMMA MailType ==
  ASSUME NEW m \in Deliverable, m.status = "pending" => m.attempts < Budget
  PROVE  /\ [m EXCEPT !.attempts = @ + 1, !.status = "sent", !.lease = "none"] \in Deliverable
         /\ Mail!AfterFailure(m) \in Deliverable /\ Mail!AfterFailure(m).lease = "none"
         /\ Mail!AfterFailure(m).status = "pending" => Mail!AfterFailure(m).attempts < Budget
<1> DEFINE n == m.attempts + 1
           st == IF n >= Budget THEN "failed" ELSE "pending"
<1>1. n \in Nat /\ Budget \in Nat  BY MailAssumption DEF Deliverable
<1>2. st \in {"failed", "pending"} /\ (st = "pending" => n < Budget)  BY <1>1
<1>3. Mail!AfterFailure(m) = [m EXCEPT !.attempts = n, !.due = FALSE, !.lease = "none", !.status = st]
  BY DEF Mail!AfterFailure
<1>4. [m EXCEPT !.attempts = n, !.status = "sent", !.lease = "none"] \in Deliverable
  BY <1>1 DEF Deliverable
<1> HIDE DEF st
<1>5. /\ Mail!AfterFailure(m) \in Deliverable /\ Mail!AfterFailure(m).lease = "none"
      /\ Mail!AfterFailure(m).status = st /\ Mail!AfterFailure(m).attempts = n
  BY <1>1, <1>2, <1>3 DEF Deliverable
<1>6. QED  BY <1>2, <1>4, <1>5

LEMMA MailDispatcherType ==
  ASSUME MailTypeOK, ClaimInv, NEW w \in Dispatchers,
         \/ Mail!Dispatch(w) \/ Mail!Chooses(w) \/ Mail!Claim(w) \/ Mail!Deliver(w) \/ Mail!Sends(w)
         \/ Mail!RecordsSent(w) \/ Mail!RecordsFailure(w) \/ Mail!MutationFails(w)
  PROVE  MailTypeOK' /\ ClaimInv' /\ \A v \in Dispatchers \ {w} : work'[v] = work[v]
<1> DEFINE d == work[w].item
<1>0. /\ work \in [Dispatchers -> Working] /\ work[w] \in Working /\ d \in Deliveries
      /\ mail \in [Deliveries -> Deliverable] /\ mail[d] \in Deliverable
      /\ accepted \in [Deliveries -> Nat] /\ troubles \in Nat
  BY DEF MailTypeOK, Working
<1>20. mail[d].status = "pending" => mail[d].attempts < Budget  BY <1>0 DEF ClaimInv, Mail!Pending
\* It suffices to look at the dispatcher itself and at the delivery it works on.
<1>1. ASSUME NEW x \in Working, work' = [work EXCEPT ![w] = x],
             x.at \in {"idle", "choosing", "claiming"} => ~x.stale,
             NEW m \in Deliverable, mail' = [mail EXCEPT ![d] = m],
             m.status = "pending" => m.attempts < Budget /\ (m.lease = "live" => ~m.due),
             accepted' \in [Deliveries -> Nat], troubles' \in Nat
      PROVE  MailTypeOK' /\ ClaimInv' /\ \A v \in Dispatchers \ {w} : work'[v] = work[v]
  <2>1. MailTypeOK'  BY <1>0, <1>1 DEF MailTypeOK
  <2>2. ClaimInv'
    <3>1. \A e \in Deliveries : mail'[e] = IF e = d THEN m ELSE mail[e]  BY <1>0, <1>1
    <3>2. \A v \in Dispatchers : work'[v] = IF v = w THEN x ELSE work[v]  BY <1>0, <1>1
    <3>3. QED  BY <1>1, <3>1, <3>2 DEF ClaimInv, Mail!Pending
  <2>3. QED  BY <1>0, <1>1, <2>1, <2>2
<1>2. mail' = mail => /\ mail' = [mail EXCEPT ![d] = mail[d]]
                      /\ mail[d].status = "pending" =>
                           mail[d].attempts < Budget /\ (mail[d].lease = "live" => ~mail[d].due)
  BY <1>0 DEF ClaimInv, Mail!Pending
<1>3. \A at \in WorkStates : /\ [work[w] EXCEPT !.at = at] \in Working
                             /\ [work[w] EXCEPT !.at = at].at = at
                             /\ [work[w] EXCEPT !.at = at].stale = work[w].stale
  BY <1>0 DEF Working
<1>4. [work[w] EXCEPT !.at = "choosing", !.stale = FALSE] \in Working
      /\ ~[work[w] EXCEPT !.at = "choosing", !.stale = FALSE].stale
  BY <1>0 DEF Working, WorkStates
<1>5. ASSUME NEW at \in WorkStates, Mail!Goes(w, at), mail' = mail,
             at \in {"idle", "choosing", "claiming"} => ~work[w].stale,
             accepted' \in [Deliveries -> Nat], troubles' \in Nat
      PROVE  MailTypeOK' /\ ClaimInv' /\ \A v \in Dispatchers \ {w} : work'[v] = work[v]
  <2> DEFINE x == [work[w] EXCEPT !.at = at]
  <2>1. x \in Working /\ work' = [work EXCEPT ![w] = x]
        /\ (x.at \in {"idle", "choosing", "claiming"} => ~x.stale)
    BY <1>3, <1>5 DEF Mail!Goes
  <2> HIDE DEF x, d
  <2>2. QED  BY <1>0, <1>1, <1>2, <1>5, <2>1
<1>6. ASSUME Mail!Turns(w), NEW m \in Deliverable, mail' = [mail EXCEPT ![d] = m],
             m.status = "pending" => m.attempts < Budget /\ (m.lease = "live" => ~m.due),
             accepted' = accepted, troubles' = troubles
      PROVE  MailTypeOK' /\ ClaimInv' /\ \A v \in Dispatchers \ {w} : work'[v] = work[v]
  <2> DEFINE x == [work[w] EXCEPT !.at = "choosing", !.stale = FALSE]
  <2>1. x \in Working /\ work' = [work EXCEPT ![w] = x] /\ ~x.stale
    BY <1>0, <1>4, <1>6 DEF Mail!Turns, Working
  <2> HIDE DEF x, d
  <2>2. QED  BY <1>0, <1>1, <1>6, <2>1
<1>7. CASE Mail!Dispatch(w)
  <2> DEFINE x == [work[w] EXCEPT !.at = "choosing", !.todo = Mail!Listed(w)]
  <2>1. Mail!Listed(w) \in SUBSET Deliveries  BY DEF Mail!Listed
  <2>2. x \in Working /\ x.at = "choosing" /\ x.stale = work[w].stale
    BY <1>0, <2>1 DEF Working, WorkStates
  <2>3. work' = [work EXCEPT ![w] = x] /\ ~work[w].stale
    BY <1>0, <1>7 DEF Mail!Dispatch, ClaimInv
  <2>4. mail' = mail /\ accepted' = accepted /\ troubles' = troubles  BY <1>7 DEF Mail!Dispatch
  <2> HIDE DEF x, d
  <2>5. QED  BY <1>0, <1>1, <1>2, <2>2, <2>3, <2>4
<1>8. CASE Mail!Chooses(w)
  <2>1. mail' = mail /\ accepted' = accepted /\ troubles' = troubles /\ ~work[w].stale
    BY <1>8 DEF Mail!Chooses, ClaimInv
  <2>2. CASE work[w].todo = {}
    <3>1. Mail!Goes(w, "idle") /\ "idle" \in WorkStates  BY <1>8, <2>2 DEF Mail!Chooses, WorkStates
    <3>2. QED  BY <1>0, <1>5, <2>1, <3>1
  <2>3. ASSUME NEW e \in work[w].todo,
               work' = [work EXCEPT ![w].at = "claiming", ![w].item = e, ![w].todo = @ \ {e}]
        PROVE  MailTypeOK' /\ ClaimInv' /\ \A v \in Dispatchers \ {w} : work'[v] = work[v]
    <3> DEFINE x == [work[w] EXCEPT !.at = "claiming", !.item = e, !.todo = @ \ {e}]
    <3>1. x \in Working /\ x.stale = work[w].stale  BY <1>0 DEF Working, WorkStates
    <3>2. work' = [work EXCEPT ![w] = x]  BY <1>0, <2>3
    <3> HIDE DEF x, d
    <3>3. QED  BY <1>0, <1>1, <1>2, <2>1, <3>1, <3>2
  <2>4. QED  BY <1>8, <2>2, <2>3 DEF Mail!Chooses
<1>9. CASE Mail!Claim(w)
  <2>1. accepted' = accepted /\ troubles' = troubles  BY <1>9 DEF Mail!Claim
  <2>2. CASE Mail!Claimable(d)
    <3> DEFINE m == [mail[d] EXCEPT !.due = FALSE, !.lease = "live"]
               x == [work[w] EXCEPT !.at = "claimed"]
    <3>1. /\ m \in Deliverable /\ ~m.due /\ m.status = mail[d].status
          /\ m.attempts = mail[d].attempts /\ mail' = [mail EXCEPT ![d] = m]
      BY <1>0, <1>9, <2>2 DEF Mail!Claim, Deliverable
    <3>2. x \in Working /\ x.at = "claimed" /\ work' = [work EXCEPT ![w] = x]
      BY <1>3, <1>9, <2>2 DEF Mail!Claim, Mail!Goes, WorkStates
    <3> HIDE DEF x, m, d
    <3>3. QED  BY <1>0, <1>1, <1>20, <2>1, <3>1, <3>2
  <2>3. CASE ~Mail!Claimable(d)
    <3>1. Mail!Turns(w) /\ mail' = mail  BY <1>9, <2>3 DEF Mail!Claim
    <3> HIDE DEF d
    <3>2. QED  BY <1>0, <1>2, <1>6, <2>1, <3>1
  <2>4. QED  BY <2>2, <2>3
<1>10. CASE Mail!Deliver(w)
  <2>1. mail' = mail /\ accepted' = accepted /\ troubles' = troubles
        /\ (Mail!Goes(w, "sending") \/ Mail!Turns(w)) /\ "sending" \in WorkStates
    BY <1>10 DEF Mail!Deliver, WorkStates
  <2> HIDE DEF d
  <2>2. QED  BY <1>0, <1>2, <1>5, <1>6, <2>1
<1>11. CASE Mail!Sends(w)
  <2>1. /\ mail' = mail /\ (Mail!Goes(w, "sent") \/ Mail!Goes(w, "failed"))
        /\ accepted' \in [Deliveries -> Nat] /\ troubles' \in Nat
    BY <1>0, <1>11 DEF Mail!Sends, Mail!Trouble
  <2>2. "sent" \in WorkStates /\ "failed" \in WorkStates  BY DEF WorkStates
  <2> HIDE DEF d
  <2>3. QED  BY <1>5, <2>1, <2>2
<1>12. CASE Mail!RecordsSent(w)
  <2> DEFINE m == [mail[d] EXCEPT !.attempts = @ + 1, !.status = "sent", !.lease = "none"]
  <2>1. m \in Deliverable /\ m.status = "sent"  BY <1>0, <1>20, MailType DEF Deliverable
  <2>2. /\ Mail!Turns(w) /\ accepted' = accepted /\ troubles' = troubles
        /\ mail' = [mail EXCEPT ![d] = m] \/ mail' = mail
    BY <1>0, <1>12 DEF Mail!RecordsSent
  <2> HIDE DEF m, d
  <2>3. QED  BY <1>0, <1>2, <1>6, <2>1, <2>2
<1>13. CASE Mail!RecordsFailure(w)
  <2> DEFINE m == Mail!AfterFailure(mail[d])
  <2>1. m \in Deliverable /\ (m.status = "pending" => m.attempts < Budget) /\ m.lease = "none"
    BY <1>0, <1>20, MailType
  <2>2. /\ Mail!Turns(w) /\ accepted' = accepted /\ troubles' = troubles
        /\ mail' = [mail EXCEPT ![d] = m] \/ mail' = mail
    BY <1>0, <1>13 DEF Mail!RecordsFailure
  <2> HIDE DEF m, d
  <2>3. QED  BY <1>0, <1>2, <1>6, <2>1, <2>2
<1>14. CASE Mail!MutationFails(w)
  <2>1. mail' = mail /\ accepted' \in [Deliveries -> Nat] /\ troubles' \in Nat
    BY <1>0, <1>14 DEF Mail!MutationFails, Mail!Trouble
  <2>2. CASE Mail!Goes(w, "failed")
    <3>1. "failed" \in WorkStates  BY DEF WorkStates
    <3>2. QED  BY <1>5, <2>1, <2>2, <3>1
  <2>3. CASE work' = [work EXCEPT ![w] = Mail!Resting]
    <3>1. Mail!Resting \in Working /\ ~Mail!Resting.stale
      BY MailAssumption DEF Mail!Resting, Working, WorkStates
    <3> HIDE DEF d
    <3>2. mail[d] \in Deliverable  BY <1>0
    <3>3. QED  BY <1>1, <1>2, <2>1, <2>3, <3>1, <3>2
  <2>4. QED  BY <1>14, <2>2, <2>3 DEF Mail!MutationFails
<1>15. QED
  BY <1>7, <1>8, <1>9, <1>10, <1>11, <1>12, <1>13, <1>14

LEMMA MailOthersType ==
  ASSUME MailTypeOK, ClaimInv,
         \/ \E d \in Deliveries : Mail!Webhook(d) \/ Mail!Elapses(d)
         \/ Mail!Recover \/ Mail!Crash
  PROVE  MailTypeOK' /\ ClaimInv'
<1>1. /\ work \in [Dispatchers -> Working] /\ mail \in [Deliveries -> Deliverable]
      /\ accepted \in [Deliveries -> Nat] /\ troubles \in Nat
  BY DEF MailTypeOK
<1>2. ASSUME NEW d \in Deliveries, NEW m \in Deliverable, mail' = [mail EXCEPT ![d] = m],
             m.status = "pending" => m.attempts < Budget /\ (m.lease = "live" => ~m.due),
             work' \in [Dispatchers -> Working],
             \A w \in Dispatchers : work'[w].at = work[w].at /\ (work'[w].stale => work[w].stale \/
                                      work[w].at \notin {"idle", "choosing", "claiming"}),
             accepted' = accepted, troubles' \in Nat
      PROVE  MailTypeOK' /\ ClaimInv'
  <2>1. MailTypeOK'  BY <1>1, <1>2 DEF MailTypeOK
  <2>2. \A e \in Deliveries : mail'[e] = IF e = d THEN m ELSE mail[e]  BY <1>1, <1>2
  <2>3. ClaimInv'  BY <1>2, <2>2 DEF ClaimInv, Mail!Pending
  <2>4. QED  BY <2>1, <2>3
<1>3. ASSUME NEW d \in Deliveries, Mail!Webhook(d) PROVE MailTypeOK' /\ ClaimInv'
  <2>1. PICK st \in {"sent", "failed"} :
          mail' = [mail EXCEPT ![d].status = st, ![d].due = @ \/ st = "failed"]
    BY <1>3 DEF Mail!Webhook
  <2> DEFINE m == [mail[d] EXCEPT !.status = st, !.due = @ \/ st = "failed"]
  <2>2. mail' = [mail EXCEPT ![d] = m]  BY <1>1, <2>1
  <2>3. m \in Deliverable /\ m.status # "pending"
    <3>1. mail[d] \in Deliverable  BY <1>1
    <3>2. QED  BY <3>1 DEF Deliverable
  <2> HIDE DEF m
  <2>4. work' = work /\ accepted' = accepted /\ troubles' = troubles  BY <1>3 DEF Mail!Webhook
  <2>5. QED  BY <1>1, <1>2, <2>2, <2>3, <2>4
<1>4. ASSUME NEW d \in Deliveries, Mail!Elapses(d) PROVE MailTypeOK' /\ ClaimInv'
  <2> DEFINE m == [mail[d] EXCEPT !.due = TRUE, !.lease = IF @ = "live" THEN "expired" ELSE @]
  <2>1. mail' = [mail EXCEPT ![d] = m] /\ accepted' = accepted
    BY <1>1, <1>4 DEF Mail!Elapses
  <2>2. /\ m \in Deliverable /\ m.lease # "live" /\ m.status = mail[d].status
        /\ m.attempts = mail[d].attempts
    <3>1. mail[d] \in Deliverable  BY <1>1
    <3>2. QED  BY <3>1 DEF Deliverable
  <2>3. m.status = "pending" => m.attempts < Budget  BY <2>2 DEF ClaimInv, Mail!Pending
  <2> HIDE DEF m
  <2>4. CASE work' = work /\ troubles' = troubles
    BY <1>1, <1>2, <2>1, <2>2, <2>3, <2>4
  <2>5. CASE /\ troubles' = troubles + 1
             /\ work' = [w \in Dispatchers |->
                           IF w \in Mail!Holders(d) THEN [work[w] EXCEPT !.stale = TRUE] ELSE work[w]]
    <3>1. \A w \in Dispatchers :
            /\ [work[w] EXCEPT !.stale = TRUE] \in Working
            /\ [work[w] EXCEPT !.stale = TRUE].at = work[w].at
      BY <1>1 DEF Working
    <3>2. work' \in [Dispatchers -> Working]  BY <1>1, <2>5, <3>1
    <3>3. \A w \in Mail!Holders(d) : work[w].at \notin {"idle", "choosing", "claiming"}
      BY DEF Mail!Holders
    <3>4. \A w \in Dispatchers : work'[w].at = work[w].at /\ (work'[w].stale => work[w].stale \/
                                      work[w].at \notin {"idle", "choosing", "claiming"})
      BY <2>5, <3>1, <3>3
    <3>5. troubles' \in Nat  BY <1>1, <2>5
    <3>6. QED  BY <1>2, <2>1, <2>2, <2>3, <3>2, <3>4, <3>5
  <2>6. QED  BY <1>4, <2>4, <2>5 DEF Mail!Elapses, Mail!Trouble
<1>5. CASE Mail!Recover
  <2>1. \A d \in Deliveries :
          /\ [mail[d] EXCEPT !.lease = "none", !.due = TRUE] \in Deliverable
          /\ [mail[d] EXCEPT !.lease = "none", !.due = TRUE].status = mail[d].status
          /\ [mail[d] EXCEPT !.lease = "none", !.due = TRUE].attempts = mail[d].attempts
          /\ [mail[d] EXCEPT !.lease = "none", !.due = TRUE].lease = "none"
    BY <1>1 DEF Deliverable
  <2>2. MailTypeOK'  BY <1>1, <1>5, <2>1 DEF Mail!Recover, MailTypeOK
  <2>3. ClaimInv'  BY <1>5, <2>1 DEF Mail!Recover, ClaimInv, Mail!Pending
  <2>4. QED  BY <2>2, <2>3
<1>6. CASE Mail!Crash
  <2>1. Mail!Resting \in Working /\ ~Mail!Resting.stale
    BY MailAssumption DEF Mail!Resting, Working, WorkStates
  <2>2. MailTypeOK'  BY <1>1, <1>6, <2>1 DEF Mail!Crash, Mail!Trouble, MailTypeOK
  <2>3. ClaimInv'  BY <1>6, <2>1 DEF Mail!Crash, ClaimInv, Mail!Pending
  <2>4. QED  BY <2>2, <2>3
<1>7. QED  BY <1>3, <1>4, <1>5, <1>6

-----------------------------------------------------------------------------
\* Counting.

LEMMA MailSendersFinite ==
  ASSUME NEW d
  PROVE  IsFiniteSet(Senders(d)) /\ Cardinality(Senders(d)) \in Nat
<1>1. Senders(d) \subseteq Dispatchers  BY DEF Senders
<1>2. QED  BY <1>1, FS_Subset, FS_CardinalityType, MailAssumption

\* A dispatcher that moves enters or leaves the senders of d alone.
LEMMA MailSendersMove ==
  ASSUME NEW w \in Dispatchers, NEW d,
         \A v \in Dispatchers \ {w} : work'[v] = work[v]
  PROVE  /\ Cardinality(Senders(d)') \in Nat
         /\ Cardinality(Senders(d)') + One(Sender(w, d))
              = Cardinality(Senders(d)) + One(Sender(w, d)')
<1>1. IsFiniteSet(Senders(d)) /\ Cardinality(Senders(d)) \in Nat  BY MailSendersFinite
<1>2. Senders(d)' = IF Sender(w, d)' THEN Senders(d) \cup {w} ELSE Senders(d) \ {w}
  BY DEF Senders, Sender
<1>3. w \in Senders(d) <=> Sender(w, d)  BY DEF Senders
<1>4. CASE Sender(w, d)' /\ ~Sender(w, d)
  BY <1>1, <1>2, <1>3, <1>4, FS_AddElement DEF One
<1>5. CASE ~Sender(w, d)' /\ Sender(w, d)
  <2>1. Senders(d)' = Senders(d) \ {w} /\ w \in Senders(d)  BY <1>2, <1>3, <1>5
  <2>2. Cardinality(Senders(d) \ {w}) = Cardinality(Senders(d)) - 1
    BY <1>1, <2>1, FS_RemoveElement
  <2>3. Cardinality(Senders(d)) # 0  BY <1>1, <2>1, FS_EmptySet
  <2>4. QED  BY <1>1, <1>5, <2>1, <2>2, <2>3 DEF One
<1>6. CASE Sender(w, d)' /\ Sender(w, d)
  <2>1. Senders(d)' = Senders(d)  BY <1>2, <1>3, <1>6
  <2>2. QED  BY <1>1, <1>6, <2>1 DEF One
<1>7. CASE ~Sender(w, d)' /\ ~Sender(w, d)
  <2>1. Senders(d)' = Senders(d)  BY <1>2, <1>3, <1>7
  <2>2. QED  BY <1>1, <1>7, <2>1 DEF One
<1>8. QED  BY <1>4, <1>5, <1>6, <1>7

\* A delivery that is left alone does not become free while its holders stay.
LEMMA MailFreeStays ==
  ASSUME NEW w \in Dispatchers, NEW d \in Deliveries,
         \A v \in Dispatchers \ {w} : work'[v] = work[v],
         mail'[d] = mail[d], w \in Mail!Holders(d) => w \in Mail!Holders(d)'
  PROVE  Free(d)' => Free(d)
<1>1. Mail!Holders(d) \subseteq Mail!Holders(d)'
  <2>1. ASSUME NEW v \in Mail!Holders(d), v # w PROVE v \in Mail!Holders(d)'
    BY <2>1 DEF Mail!Holders
  <2>2. QED  BY <2>1
<1>2. QED  BY <1>1 DEF Free, Mail!Pending

LEMMA MailDispatcherCounts ==
  ASSUME MailTypeOK, ClaimInv, Counted, NEW w \in Dispatchers,
         \/ Mail!Dispatch(w) \/ Mail!Chooses(w) \/ Mail!Claim(w) \/ Mail!Deliver(w) \/ Mail!Sends(w)
         \/ Mail!RecordsSent(w) \/ Mail!RecordsFailure(w) \/ Mail!MutationFails(w)
  PROVE  Counted'
<1> SUFFICES ASSUME NEW d \in Deliveries
             PROVE  accepted'[d] + Cardinality(Senders(d)') + One(Free(d)') <= 1 + troubles'
  BY DEF Counted
<1> DEFINE i == work[w].item
<1>0. /\ \A v \in Dispatchers \ {w} : work'[v] = work[v]
      /\ work[w] \in Working /\ i \in Deliveries /\ mail \in [Deliveries -> Deliverable]
      /\ accepted \in [Deliveries -> Nat] /\ accepted[d] \in Nat /\ troubles \in Nat
      /\ work \in [Dispatchers -> Working]
  BY MailDispatcherType DEF MailTypeOK, Working
<1>1. accepted[d] + Cardinality(Senders(d)) + One(Free(d)) <= 1 + troubles  BY DEF Counted
<1>2. /\ Cardinality(Senders(d)) \in Nat /\ Cardinality(Senders(d)') \in Nat
      /\ Cardinality(Senders(d)') + One(Sender(w, d)) = Cardinality(Senders(d)) + One(Sender(w, d)')
  BY <1>0, MailSendersFinite, MailSendersMove
\* A step that leaves the delivery alone: no new sender, or a new fault.
<1>3. ASSUME mail'[d] = mail[d], w \in Mail!Holders(d) => w \in Mail!Holders(d)',
             accepted'[d] = accepted[d],
             \/ troubles' = troubles /\ (Sender(w, d)' => Sender(w, d))
             \/ troubles' = troubles + 1
      PROVE  accepted'[d] + Cardinality(Senders(d)') + One(Free(d)') <= 1 + troubles'
  <2>1. Free(d)' => Free(d)  BY <1>0, <1>3, MailFreeStays
  <2>2. QED  BY <1>0, <1>1, <1>2, <1>3, <2>1 DEF One
\* A delivery that a sender leaves, or that is a fault's, may become free.
<1>4. ASSUME accepted'[d] = accepted[d],
             \/ troubles' = troubles /\ Sender(w, d) /\ ~Sender(w, d)'
             \/ troubles' = troubles + 1 /\ (Sender(w, d)' => Sender(w, d))
      PROVE  accepted'[d] + Cardinality(Senders(d)') + One(Free(d)') <= 1 + troubles'
  BY <1>0, <1>1, <1>2, <1>4 DEF One
\* A delivery that is not free afterwards.
<1>5. ASSUME accepted'[d] = accepted[d], troubles' = troubles, ~Free(d)',
             (Sender(w, d)' => Sender(w, d)) \/ Free(d)
      PROVE  accepted'[d] + Cardinality(Senders(d)') + One(Free(d)') <= 1 + troubles'
  BY <1>0, <1>1, <1>2, <1>5 DEF One
<1>6. CASE work[w].at \in {"idle", "choosing", "claiming"} /\ ~Mail!Claim(w)
  <2>1. work'[w].at \in {"idle", "choosing", "claiming"} /\ mail' = mail /\ accepted' = accepted
        /\ (troubles' = troubles \/ troubles' = troubles + 1)
    <3>1. CASE Mail!Dispatch(w)  BY <1>0, <3>1 DEF Mail!Dispatch, Working
    <3>2. CASE Mail!Chooses(w)
      <4>1. mail' = mail /\ accepted' = accepted /\ troubles' = troubles  BY <3>2 DEF Mail!Chooses
      <4>2. CASE Mail!Goes(w, "idle")  BY <1>0, <4>1, <4>2 DEF Mail!Goes, Working
      <4>3. ASSUME NEW e \in work[w].todo,
                   work' = [work EXCEPT ![w].at = "claiming", ![w].item = e, ![w].todo = @ \ {e}]
            PROVE  work'[w].at = "claiming"
        BY <1>0, <4>3 DEF Working
      <4>4. QED  BY <3>2, <4>1, <4>2, <4>3 DEF Mail!Chooses
    <3>3. CASE Mail!MutationFails(w)
      <4>1. work[w].at = "claiming" /\ work' = [work EXCEPT ![w] = Mail!Resting]
        BY <1>6, <3>3 DEF Mail!MutationFails
      <4>2. work'[w].at = "idle"  BY <1>0, <4>1 DEF Mail!Resting
      <4>3. QED  BY <3>3, <4>2 DEF Mail!MutationFails, Mail!Trouble
    <3>4. QED
      BY <1>6, <3>1, <3>2, <3>3 DEF Mail!Deliver, Mail!Sends, Mail!RecordsSent, Mail!RecordsFailure
  <2>2. ~Sender(w, d)' /\ w \notin Mail!Holders(d)  BY <1>6, <2>1 DEF Sender, Mail!Holders
  <2>3. QED  BY <1>3, <2>1, <2>2
<1>7. CASE Mail!Claim(w)
  <2>1. accepted' = accepted /\ troubles' = troubles /\ work[w].at = "claiming"
    BY <1>7 DEF Mail!Claim
  <2>2. ~Sender(w, d) /\ w \notin Mail!Holders(d) /\ ~work[w].stale
    BY <2>1 DEF Sender, Mail!Holders, ClaimInv
  <2>3. CASE Mail!Claimable(i) /\ d = i
    <3>1. mail'[d].lease = "live"  BY <1>0, <1>7, <2>3 DEF Mail!Claim, Deliverable
    <3>2. work'[w].at = "claimed" /\ work'[w].item = i /\ work'[w].stale = work[w].stale
      BY <1>0, <1>7, <2>3 DEF Mail!Claim, Mail!Goes, Working
    <3>3. w \in Mail!Holders(d)'  BY <2>2, <2>3, <3>2 DEF Mail!Holders
    <3>4. ~Free(d)'  BY <3>1, <3>3 DEF Free
    <3>5. Free(d)  BY <2>3 DEF Free, Mail!Claimable, ClaimInv
    <3>6. QED  BY <1>5, <2>1, <3>4, <3>5
  <2>4. CASE Mail!Claimable(i) /\ d # i
    <3>1. mail'[d] = mail[d]  BY <1>0, <1>7, <2>4 DEF Mail!Claim
    <3>2. work'[w].item = i  BY <1>0, <1>7, <2>4 DEF Mail!Claim, Mail!Goes, Working
    <3>3. ~Sender(w, d)'  BY <2>4, <3>2 DEF Sender
    <3>4. QED  BY <1>3, <2>1, <2>2, <3>1, <3>3
  <2>5. CASE ~Mail!Claimable(i)
    <3>1. mail' = mail /\ work'[w].at = "choosing"
      BY <1>0, <1>7, <2>5 DEF Mail!Claim, Mail!Turns, Working
    <3>2. ~Sender(w, d)'  BY <3>1 DEF Sender
    <3>3. QED  BY <1>3, <2>1, <2>2, <3>1, <3>2
  <2>6. QED  BY <2>3, <2>4, <2>5
<1>8. CASE Mail!Deliver(w)
  <2>1. accepted' = accepted /\ troubles' = troubles /\ work[w].at = "claimed" /\ mail' = mail
        /\ work'[w].item = i
    BY <1>0, <1>8 DEF Mail!Deliver, Mail!Goes, Mail!Turns, Working
  <2>2. CASE Mail!Goes(w, "sending")
    <3>1. work'[w].at = "sending" /\ work'[w].stale = work[w].stale
      BY <1>0, <2>2 DEF Mail!Goes, Working
    <3>2. (Sender(w, d)' => Sender(w, d)) /\ (w \in Mail!Holders(d) => w \in Mail!Holders(d)')
      BY <2>1, <3>1 DEF Sender, Mail!Holders
    <3>3. QED  BY <1>3, <2>1, <3>2
  <2>3. CASE Mail!Turns(w) /\ ~(Mail!Pending(i) /\ mail[i].attempts < Budget)
    <3>1. work'[w].at = "choosing"  BY <1>0, <2>3 DEF Mail!Turns, Working
    <3>2. ~Sender(w, d)'  BY <3>1 DEF Sender
    <3>3. ~Mail!Pending(i)  BY <1>0, <2>3 DEF ClaimInv
    <3>4. CASE d = i
      <4>1. ~Free(d)'  BY <2>1, <3>3, <3>4 DEF Free, Mail!Pending
      <4>2. QED  BY <1>5, <2>1, <3>2, <4>1
    <3>5. CASE d # i
      <4>1. w \notin Mail!Holders(d)  BY <3>5 DEF Mail!Holders
      <4>2. QED  BY <1>3, <2>1, <3>2, <4>1
    <3>6. QED  BY <3>4, <3>5
  <2>4. QED  BY <1>8, <2>2, <2>3 DEF Mail!Deliver
<1>9. CASE Mail!Sends(w)
  <2>1. mail' = mail /\ work[w].at = "sending" /\ work'[w].item = i
        /\ work'[w].stale = work[w].stale /\ work'[w].at \in {"sent", "failed"}
    BY <1>0, <1>9 DEF Mail!Sends, Mail!Goes, Working
  <2>2. w \in Mail!Holders(d) => w \in Mail!Holders(d)'  BY <2>1 DEF Mail!Holders
  <2>3. Free(d)' => Free(d)  BY <1>0, <2>1, <2>2, MailFreeStays
  <2>4. Sender(w, d) <=> d = i  BY <2>1 DEF Sender
  <2>5. Sender(w, d)' <=> d = i /\ work'[w].at = "failed"  BY <2>1 DEF Sender
  <2>6. \/ accepted' = [accepted EXCEPT ![i] = @ + 1] /\ work'[w].at = "sent" /\ troubles' = troubles
        \/ accepted' = [accepted EXCEPT ![i] = @ + 1] /\ troubles' = troubles + 1
        \/ accepted' = accepted /\ troubles' = troubles
    BY <1>0, <1>9 DEF Mail!Sends, Mail!Goes, Mail!Trouble, Working
  <2>7. \/ accepted'[d] = accepted[d] + One(d = i) /\ work'[w].at = "sent" /\ troubles' = troubles
        \/ accepted'[d] = accepted[d] + One(d = i) /\ troubles' = troubles + 1
        \/ accepted'[d] = accepted[d] /\ troubles' = troubles
    BY <1>0, <2>6 DEF One
  <2> HIDE DEF i
  <2>8. QED  BY <1>0, <1>1, <1>2, <2>1, <2>3, <2>4, <2>5, <2>7 DEF One
<1>10. CASE Mail!RecordsSent(w)
  <2>1. accepted' = accepted /\ troubles' = troubles /\ work[w].at = "sent"
        /\ work'[w].at = "choosing"
    BY <1>0, <1>10 DEF Mail!RecordsSent, Mail!Turns, Working
  <2>2. ~Sender(w, d)'  BY <2>1 DEF Sender
  <2>3. CASE d = i
    <3>1. mail'[d].status # "pending"
      BY <1>0, <1>10, <2>3 DEF Mail!RecordsSent, Mail!Pending, Deliverable
    <3>2. ~Free(d)'  BY <3>1 DEF Free, Mail!Pending
    <3>3. QED  BY <1>5, <2>1, <2>2, <3>2
  <2>4. CASE d # i
    <3>1. mail'[d] = mail[d] /\ w \notin Mail!Holders(d)
      BY <1>0, <1>10, <2>4 DEF Mail!RecordsSent, Mail!Holders
    <3>2. QED  BY <1>3, <2>1, <2>2, <3>1
  <2>5. QED  BY <2>3, <2>4
<1>11. CASE Mail!RecordsFailure(w)
  <2>1. accepted' = accepted /\ troubles' = troubles /\ work[w].at = "failed"
        /\ work'[w].at = "choosing"
    BY <1>0, <1>11 DEF Mail!RecordsFailure, Mail!Turns, Working
  <2>2. ~Sender(w, d)'  BY <2>1 DEF Sender
  <2>3. CASE d = i
    <3>1. Sender(w, d)  BY <2>1, <2>3 DEF Sender
    <3>2. QED  BY <1>4, <2>1, <2>2, <3>1
  <2>4. CASE d # i
    <3>1. mail'[d] = mail[d] /\ w \notin Mail!Holders(d)
      BY <1>0, <1>11, <2>4 DEF Mail!RecordsFailure, Mail!Holders
    <3>2. QED  BY <1>3, <2>1, <2>2, <3>1
  <2>5. QED  BY <2>3, <2>4
<1>12. CASE Mail!MutationFails(w) /\ work[w].at # "claiming"
  <2>1. mail' = mail /\ accepted' = accepted /\ troubles' = troubles + 1
    BY <1>12 DEF Mail!MutationFails, Mail!Trouble
  <2>2. CASE work[w].at = "sent"
    <3>1. work'[w].at = "failed" /\ work'[w].item = i /\ work'[w].stale = work[w].stale
      BY <1>0, <1>12, <2>2 DEF Mail!MutationFails, Mail!Goes, Working
    <3>2. w \in Mail!Holders(d) => w \in Mail!Holders(d)'  BY <2>2, <3>1 DEF Mail!Holders
    <3>3. QED  BY <1>3, <2>1, <3>2
  <2>3. CASE work[w].at # "sent"
    <3>1. work'[w].at = "idle"  BY <1>0, <1>12, <2>3 DEF Mail!MutationFails, Mail!Resting
    <3>2. ~Sender(w, d)'  BY <3>1 DEF Sender
    <3>3. QED  BY <1>4, <2>1, <3>2
  <2>4. QED  BY <2>2, <2>3
<1>13. QED
  BY <1>6, <1>7, <1>8, <1>9, <1>10, <1>11, <1>12
     DEF Mail!Dispatch, Mail!Chooses, Mail!MutationFails

LEMMA MailOthersCount ==
  ASSUME MailTypeOK, ClaimInv, Counted,
         \/ \E d \in Deliveries : Mail!Webhook(d) \/ Mail!Elapses(d)
         \/ Mail!Recover \/ Mail!Crash
  PROVE  Counted'
<1> SUFFICES ASSUME NEW d \in Deliveries
             PROVE  accepted'[d] + Cardinality(Senders(d)') + One(Free(d)') <= 1 + troubles'
  BY DEF Counted
<1>0. /\ mail \in [Deliveries -> Deliverable] /\ work \in [Dispatchers -> Working]
      /\ accepted[d] \in Nat /\ troubles \in Nat /\ Cardinality(Senders(d)) \in Nat
      /\ accepted[d] + Cardinality(Senders(d)) + One(Free(d)) <= 1 + troubles
  BY MailSendersFinite DEF MailTypeOK, Counted
<1>1. ASSUME accepted' = accepted, Senders(d)' = Senders(d),
             \/ troubles' = troubles /\ (Free(d)' => Free(d))
             \/ troubles' = troubles + 1
      PROVE  accepted'[d] + Cardinality(Senders(d)') + One(Free(d)') <= 1 + troubles'
  BY <1>0, <1>1 DEF One
<1>2. ASSUME NEW e \in Deliveries, Mail!Webhook(e)
      PROVE  accepted'[d] + Cardinality(Senders(d)') + One(Free(d)') <= 1 + troubles'
  <2>1. work' = work /\ accepted' = accepted /\ troubles' = troubles  BY <1>2 DEF Mail!Webhook
  <2>2. Senders(d)' = Senders(d) /\ Mail!Holders(d)' = Mail!Holders(d)
    BY <2>1 DEF Senders, Sender, Mail!Holders
  <2>3. mail'[d] = mail[d] \/ mail'[d].status # "pending"
    BY <1>0, <1>2 DEF Mail!Webhook, Deliverable
  <2>4. Free(d)' => Free(d)  BY <2>2, <2>3 DEF Free, Mail!Pending
  <2>5. QED  BY <1>1, <2>1, <2>2, <2>4
<1>3. ASSUME NEW e \in Deliveries, Mail!Elapses(e)
      PROVE  accepted'[d] + Cardinality(Senders(d)') + One(Free(d)') <= 1 + troubles'
  <2>1. accepted' = accepted /\ (d # e => mail'[d] = mail[d]) /\ Mail!Pending(e)
    BY <1>0, <1>3 DEF Mail!Elapses
  <2>2. CASE work' = work /\ troubles' = troubles /\ (mail[e].lease # "live" \/ Mail!Holders(e) = {})
    <3>1. Senders(d)' = Senders(d) /\ Mail!Holders(d)' = Mail!Holders(d)
      BY <2>2 DEF Senders, Sender, Mail!Holders
    <3>2. Free(d)' => Free(d)  BY <2>1, <2>2, <3>1 DEF Free, Mail!Pending
    <3>3. QED  BY <1>1, <2>1, <2>2, <3>1, <3>2
  <2>3. CASE /\ troubles' = troubles + 1
             /\ work' = [w \in Dispatchers |->
                           IF w \in Mail!Holders(e) THEN [work[w] EXCEPT !.stale = TRUE] ELSE work[w]]
    <3>1. \A w \in Dispatchers : work'[w].item = work[w].item /\ work'[w].at = work[w].at
      BY <1>0, <2>3 DEF Working
    <3>2. Senders(d)' = Senders(d)  BY <3>1 DEF Senders, Sender
    <3>3. QED  BY <1>1, <2>1, <2>3, <3>2
  <2>4. QED  BY <1>3, <2>2, <2>3 DEF Mail!Elapses, Mail!Trouble
<1>4. CASE Mail!Recover
  <2>1. work' = work /\ accepted' = accepted /\ troubles' = troubles  BY <1>4 DEF Mail!Recover
  <2>2. Senders(d)' = Senders(d) /\ Mail!Holders(d)' = Mail!Holders(d)
    BY <2>1 DEF Senders, Sender, Mail!Holders
  <2>3. mail'[d] = mail[d] \/ (Mail!Pending(d) /\ mail[d].lease = "expired")
    <3>1. CASE Mail!Pending(d) /\ mail[d].lease = "expired"  BY <3>1
    <3>2. CASE ~(Mail!Pending(d) /\ mail[d].lease = "expired")  BY <1>4, <3>2 DEF Mail!Recover
    <3>3. QED  BY <3>1, <3>2
  <2>4. Free(d)' => Free(d)  BY <2>2, <2>3 DEF Free, Mail!Pending
  <2>5. QED  BY <1>1, <2>1, <2>2, <2>4
<1>5. CASE Mail!Crash
  <2>1. accepted' = accepted /\ troubles' = troubles + 1
        /\ \A w \in Dispatchers : work'[w].at = "idle"
    BY <1>5 DEF Mail!Crash, Mail!Trouble, Mail!Resting
  <2>2. Senders(d)' = {}  BY <2>1 DEF Senders, Sender
  <2>3. Cardinality(Senders(d)') = 0  BY <2>2, FS_EmptySet
  <2>4. QED  BY <1>0, <2>1, <2>3 DEF One
<1>6. QED  BY <1>2, <1>3, <1>4, <1>5

-----------------------------------------------------------------------------
LEMMA MailCountInit == ASSUME Mail!Init PROVE Counted
<1>1. ASSUME NEW d \in Deliveries PROVE Senders(d) = {}
  BY DEF Mail!Init, Senders, Sender, Mail!Resting
<1>2. ASSUME NEW d \in Deliveries PROVE accepted[d] = 0 /\ troubles = 0  BY DEF Mail!Init
<1>3. QED  BY <1>1, <1>2, FS_EmptySet DEF Counted, One

LEMMA MailStep ==
  ASSUME MailTypeOK /\ ClaimInv /\ Counted, [Mail!Next]_(Mail!vars)
  PROVE  (MailTypeOK /\ ClaimInv /\ Counted)'
<1>1. CASE UNCHANGED Mail!vars
  <2>1. MailTypeOK'  BY <1>1 DEF Mail!vars, MailTypeOK
  <2>2. ClaimInv'  BY <1>1 DEF Mail!vars, ClaimInv, Mail!Pending
  <2>3. Counted'  BY <1>1 DEF Mail!vars, Counted, Senders, Sender, Free, Mail!Pending, Mail!Holders
  <2>4. QED  BY <2>1, <2>2, <2>3
<1>2. CASE Mail!Next
  BY <1>2, MailDispatcherType, MailDispatcherCounts, MailOthersType, MailOthersCount DEF Mail!Next
<1>3. QED  BY <1>1, <1>2

\* However many dispatchers and workers send, fail, overrun their leases and die, a
\* recipient gets a mail once, and each further copy is explained by a crash, a
\* rejected mutation, a lost answer or a send that outlived its lease (claim, deliver).
THEOREM MailsAreDeliveredOnce == Spec => []DeliveredOnce
<1> DEFINE IInv == MailTypeOK /\ ClaimInv /\ Counted
<1>1. Init => IInv  BY MailTypeInit, MailCountInit DEF Init
<1>2. IInv /\ [Next]_vars => IInv'  BY MailStep, OneMoves
<1>3. IInv => DeliveredOnce
  <2>1. SUFFICES ASSUME IInv, NEW d \in Deliveries PROVE accepted[d] <= 1 + troubles
    BY DEF DeliveredOnce, Mail!DeliveredOnce
  <2>2. /\ accepted[d] \in Nat /\ troubles \in Nat /\ Cardinality(Senders(d)) \in Nat
        /\ accepted[d] + Cardinality(Senders(d)) + One(Free(d)) <= 1 + troubles
    BY <2>1, MailSendersFinite DEF MailTypeOK, Counted
  <2>3. QED  BY <2>2 DEF One
<1>4. QED  BY <1>1, <1>2, <1>3, PTL DEF Spec

-----------------------------------------------------------------------------
(* A paper's memory.                                                         *)

Known  == MemoryTexts \cup {None}
Kinds  == {"extract", "update", "accept", "apply", "rollback"}
Recall == [version: Nat, text: Known, kept: BOOLEAN, candidate: Known]
Mirror == [version: Nat, instructions: Instructions \cup {None}, context: Known]
Asks   ==
  [at: {"idle", "extracting"}] \cup [at: {"polishing"}, memory: Recall]
    \cup [at: {"saving", "mirroring"}, kind: Kinds, memory: Recall]
    \cup [at: {"writing"}, seen: Mirror]

MemoryTypeOK ==
  /\ memories \in Seq(Recall) /\ by \in Seq(Kinds)
  /\ file \in Mirror /\ asks \in [Callers -> Asks]

\* Among any memories one is the newest: i, of those in S.
Tops(ms, S, i) ==
  /\ i \in S
  /\ \A k \in S : ms[k].version < ms[i].version \/ (ms[k].version = ms[i].version /\ i <= k)
Ordered(ms) == \A S \in SUBSET DOMAIN ms : S # {} => \E i \in S : Tops(ms, S, i)

\* An extraction that is being stored is outdated, or keeps what users vouched for.
Respects(m) ==
  /\ m.version <= Memory!LatestVersion + 1
  /\ m.version = Memory!LatestVersion + 1 /\ memories # <<>> /\ Memory!Latest(memories).kept
       => m.kept /\ m.text = Memory!Latest(memories).text

\* What is about to be written is outdated, or has the users' instructions.
Copies(copy) ==
  /\ copy.version <= file.version
  /\ copy.version = file.version => copy.instructions = file.instructions

\* What a request is about to store or to write.
Asked(c) ==
  /\ asks[c].at = "saving" =>
       /\ asks[c].memory.version >= 1
       /\ asks[c].kind = "extract" => Respects(asks[c].memory)
  /\ asks[c].at = "writing" => Copies(asks[c].seen)

MemoryInv == MemoryTypeOK /\ Ordered(memories) /\ \A c \in Callers : Asked(c)

-----------------------------------------------------------------------------
LEMMA NewestTops ==
  ASSUME NEW ms \in Seq(Recall), Ordered(ms), ms # <<>>
  PROVE  /\ Tops(ms, DOMAIN ms, Memory!Newest(ms)) /\ Memory!Newest(ms) \in 1 .. Len(ms)
         /\ Memory!Latest(ms) = ms[Memory!Newest(ms)] /\ Memory!Latest(ms) \in Recall
<1>1. DOMAIN ms # {} /\ DOMAIN ms = 1 .. Len(ms)  OBVIOUS
<1>2. PICK i \in DOMAIN ms : Tops(ms, DOMAIN ms, i)  BY <1>1 DEF Ordered
<1>3. Tops(ms, DOMAIN ms, Memory!Newest(ms))  BY <1>2 DEF Memory!Newest, Tops
<1>4. Memory!Newest(ms) \in 1 .. Len(ms)  BY <1>1, <1>3 DEF Tops
<1>5. QED  BY <1>3, <1>4 DEF Memory!Latest

\* Only one is.
LEMMA OneTop ==
  ASSUME NEW ms \in Seq(Recall), NEW i \in 1 .. Len(ms), Tops(ms, DOMAIN ms, i)
  PROVE  Memory!Newest(ms) = i
<1>1. DOMAIN ms = 1 .. Len(ms) /\ \A k \in 1 .. Len(ms) : ms[k].version \in Nat
  <2>1. \A k \in 1 .. Len(ms) : ms[k] \in Recall  OBVIOUS
  <2>2. QED  BY <2>1 DEF Recall
<1>2. Tops(ms, DOMAIN ms, Memory!Newest(ms))  BY DEF Memory!Newest, Tops
<1> DEFINE j == Memory!Newest(ms)
<1>3. j \in 1 .. Len(ms)  BY <1>1, <1>2 DEF Tops
<1> HIDE DEF j
<1>4. Tops(ms, DOMAIN ms, j)  BY <1>2 DEF j
<1>5. i <= j /\ j <= i  BY <1>1, <1>3, <1>4 DEF Tops
<1>6. i = j  BY <1>3, <1>5
<1>7. QED  BY <1>6 DEF j

\* A memory that is stored becomes the latest only when its version is higher.
LEMMA StoringOrders ==
  ASSUME NEW ms \in Seq(Recall), Ordered(ms), NEW m \in Recall
  PROVE  LET ns == Append(ms, m) IN
         /\ ns \in Seq(Recall) /\ ns # <<>> /\ Ordered(ns)
         /\ ms = <<>> => Memory!Latest(ns) = m
         /\ ms # <<>> => Memory!Latest(ns) =
              IF m.version > Memory!Latest(ms).version THEN m ELSE Memory!Latest(ms)
<1> DEFINE ns == Append(ms, m)
           n == Len(ms)
           l == Memory!Newest(ms)
<1>1. /\ n \in Nat /\ ns \in Seq(Recall) /\ Len(ns) = n + 1 /\ ns # <<>> /\ ns[n + 1] = m
      /\ \A k \in 1 .. n : ns[k] = ms[k]
      /\ DOMAIN ns = 1 .. (n + 1) /\ DOMAIN ms = 1 .. n
  OBVIOUS
<1>2. m.version \in Nat /\ \A k \in 1 .. n : ms[k].version \in Nat
  <2>1. \A k \in 1 .. n : ms[k] \in Recall  OBVIOUS
  <2>2. QED  BY <2>1 DEF Recall
<1> HIDE DEF ns, n
<1>3. Ordered(ns)
  <2> SUFFICES ASSUME NEW S \in SUBSET (1 .. (n + 1)), S # {} PROVE \E i \in S : Tops(ns, S, i)
    BY <1>1 DEF Ordered
  <2> DEFINE T == S \ {n + 1}
  <2>1. T \subseteq 1 .. n  BY <1>1
  <2>2. CASE T = {}
    <3>1. S = {n + 1}  BY <2>2
    <3>2. Tops(ns, S, n + 1)  BY <1>1, <1>2, <3>1 DEF Tops
    <3>3. QED  BY <3>1, <3>2
  <2>3. CASE T # {}
    <3>1. PICK i \in T : Tops(ms, T, i)  BY <1>1, <2>1, <2>3 DEF Ordered
    <3>2. /\ i \in 1 .. n /\ ns[i] = ms[i] /\ ms[i].version \in Nat /\ i \in S
          /\ \A k \in T : k \in 1 .. n /\ ns[k] = ms[k] /\ ms[k].version \in Nat
      BY <1>1, <1>2, <2>1
    <3> HIDE DEF T
    <3>3. Tops(ns, T, i)  BY <3>1, <3>2 DEF Tops
    <3>4. CASE n + 1 \in S /\ m.version > ms[i].version
      <4>1. S = T \cup {n + 1}  BY <3>4 DEF T
      <4>2. Tops(ns, S, n + 1)  BY <1>1, <1>2, <3>2, <3>3, <3>4, <4>1 DEF Tops
      <4>3. QED  BY <3>4, <4>2
    <3>5. CASE ~(n + 1 \in S /\ m.version > ms[i].version)
      <4>1. \A k \in S : k \in T \/ (k = n + 1 /\ n + 1 \in S)  BY DEF T
      <4>2. Tops(ns, S, i)  BY <1>1, <1>2, <3>2, <3>3, <3>5, <4>1 DEF Tops
      <4>3. QED  BY <3>2, <4>2
    <3>6. QED  BY <3>4, <3>5
  <2>4. QED  BY <2>2, <2>3
<1>4. ASSUME ms = <<>> PROVE Memory!Latest(ns) = m
  <2>1. n = 0  BY <1>4 DEF n
  <2>2. Memory!Newest(ns) \in 1 .. 1  BY <1>1, <1>3, <2>1, NewestTops
  <2>3. Memory!Newest(ns) = n + 1  BY <2>1, <2>2
  <2>4. QED  BY <1>1, <2>3 DEF Memory!Latest
<1>5. ASSUME ms # <<>>
      PROVE  Memory!Latest(ns) = IF m.version > Memory!Latest(ms).version THEN m ELSE Memory!Latest(ms)
  <2>1. /\ l \in 1 .. n /\ Memory!Latest(ms) = ms[l] /\ ns[l] = ms[l]
        /\ \A k \in 1 .. n : ms[k].version < ms[l].version \/ (ms[k].version = ms[l].version /\ l <= k)
    BY <1>1, <1>5, NewestTops DEF Tops, n
  <2> HIDE DEF l
  <2>2. CASE m.version > ms[l].version
    <3>1. Tops(ns, DOMAIN ns, n + 1)
      <4>1. ASSUME NEW k \in 1 .. (n + 1), k # n + 1
            PROVE  ns[k].version < ns[n + 1].version
        <5>1. k \in 1 .. n  BY <1>1, <4>1
        <5>2. QED  BY <1>1, <1>2, <2>1, <2>2, <5>1
      <4>2. QED  BY <1>1, <1>2, <4>1 DEF Tops
    <3>2. Memory!Newest(ns) = n + 1  BY <1>1, <3>1, OneTop
    <3>3. QED  BY <1>1, <2>1, <2>2, <3>2 DEF Memory!Latest
  <2>3. CASE ~(m.version > ms[l].version)
    <3>1. Tops(ns, DOMAIN ns, l)
      <4>1. ASSUME NEW k \in 1 .. (n + 1)
            PROVE  ns[k].version < ns[l].version \/ (ns[k].version = ns[l].version /\ l <= k)
        <5>1. CASE k = n + 1  BY <1>1, <1>2, <2>1, <2>3, <5>1
        <5>2. CASE k # n + 1
          <6>1. k \in 1 .. n  BY <1>1, <4>1, <5>2
          <6>2. QED  BY <1>1, <2>1, <6>1
        <5>3. QED  BY <5>1, <5>2
      <4>2. QED  BY <1>1, <2>1, <4>1 DEF Tops
    <3>2. Memory!Newest(ns) = l  BY <1>1, <2>1, <3>1, OneTop
    <3>3. QED  BY <1>1, <2>1, <2>3, <3>2 DEF Memory!Latest
  <2>4. QED  BY <2>2, <2>3
<1>6. QED  BY <1>1, <1>3, <1>4, <1>5 DEF ns

LEMMA SecondType ==
  ASSUME NEW ms \in Seq(Recall), Ordered(ms), Len(ms) >= 2
  PROVE  Memory!Second(ms) \in Recall
<1> DEFINE i == Memory!Newest(ms)
           n == Len(ms)
           rs == Memory!RemoveAt(ms, i)
           At(k) == IF k < i THEN k ELSE k + 1
<1>1. i \in 1 .. n /\ n \in Nat /\ n >= 2  BY NewestTops
<1> HIDE DEF i
<1>2. /\ rs \in Seq(Recall) /\ Len(rs) = n - 1
      /\ \A k \in 1 .. (n - 1) : rs[k] = ms[At(k)]
  <2> DEFINE a == SubSeq(ms, 1, i - 1)
             b == SubSeq(ms, i + 1, n)
  <2>1. /\ a \in Seq(Recall) /\ Len(a) = i - 1 /\ \A k \in 1 .. (i - 1) : a[k] = ms[k]
        /\ b \in Seq(Recall) /\ Len(b) = n - i /\ \A k \in 1 .. (n - i) : b[k] = ms[i + k]
    BY <1>1
  <2>2. rs = a \o b  BY DEF Memory!RemoveAt
  <2> HIDE DEF a, b, rs, n
  <2>3. /\ a \o b \in Seq(Recall) /\ Len(a \o b) = n - 1
        /\ \A k \in 1 .. (n - 1) : (a \o b)[k] = IF k <= i - 1 THEN a[k] ELSE b[k - (i - 1)]
    BY <1>1, <2>1
  <2>4. ASSUME NEW k \in 1 .. (n - 1) PROVE rs[k] = ms[At(k)]
    <3>1. CASE k < i  BY <1>1, <2>1, <2>2, <2>3, <3>1
    <3>2. CASE ~(k < i)
      <4>1. k - (i - 1) \in 1 .. (n - i) /\ i + (k - (i - 1)) = k + 1  BY <1>1, <3>2
      <4>2. QED  BY <1>1, <2>1, <2>2, <2>3, <3>2, <4>1
    <3>3. QED  BY <3>1, <3>2
  <2>5. QED  BY <2>2, <2>3, <2>4
<1> HIDE DEF rs
<1> DEFINE S == (1 .. n) \ {i}
<1>3. PICK j \in S : Tops(ms, S, j)
  <2>1. IF i = 1 THEN 2 \in S ELSE 1 \in S  BY <1>1
  <2>2. S \in SUBSET DOMAIN ms /\ S # {}  BY <2>1
  <2> HIDE DEF S
  <2>3. QED  BY <2>2 DEF Ordered
<1> DEFINE p == IF j < i THEN j ELSE j - 1
<1>4. p \in 1 .. (n - 1) /\ At(p) = j  BY <1>1
<1>5. ASSUME NEW k \in 1 .. (n - 1)
      PROVE  At(k) \in S /\ (j <= At(k) => p <= k)
  BY <1>1
<1> HIDE DEF n, S, p
<1>6. DOMAIN rs = 1 .. (n - 1)  BY <1>1, <1>2
<1>7. Tops(rs, DOMAIN rs, p)
  <2>1. ASSUME NEW k \in 1 .. (n - 1)
        PROVE  rs[k].version < rs[p].version \/ (rs[k].version = rs[p].version /\ p <= k)
    <3>1. rs[k] = ms[At(k)] /\ rs[p] = ms[j]  BY <1>2, <1>4
    <3>2. At(k) \in S /\ (j <= At(k) => p <= k)  BY <1>5
    <3> HIDE DEF At
    <3>3. QED  BY <1>3, <3>1, <3>2 DEF Tops
  <2>2. QED  BY <1>4, <1>6, <2>1 DEF Tops
<1>8. Memory!Newest(rs) = p  BY <1>2, <1>4, <1>7, OneTop
<1>9. Memory!Latest(rs) \in Recall  BY <1>2, <1>4, <1>8 DEF Memory!Latest
<1>10. QED  BY <1>9 DEF Memory!Second, rs, i

-----------------------------------------------------------------------------
\* The latest memory, and what an extraction makes of it.
LEMMA LatestType ==
  ASSUME MemoryInv
  PROVE  /\ Memory!LatestVersion \in Nat
         /\ memories # <<>> =>
              /\ Memory!Latest(memories) \in Recall
              /\ Memory!LatestVersion = Memory!Latest(memories).version
<1>1. memories # <<>> => Memory!Latest(memories) \in Recall
  BY NewestTops DEF MemoryInv, MemoryTypeOK
<1>2. QED  BY <1>1 DEF Memory!LatestVersion, Recall

LEMMA VersionType ==
  ASSUME MemoryInv, NEW m \in Recall
  PROVE  /\ Memory!Version(m) \in Recall /\ Memory!Version(m).version = Memory!LatestVersion + 1
         /\ Memory!Version(m).text = m.text /\ Memory!Version(m).kept = m.kept
         /\ Memory!Version(m).version >= 1
<1>1. Memory!LatestVersion + 1 \in Nat /\ Memory!LatestVersion + 1 >= 1  BY LatestType
<1>2. Memory!Version(m) = [m EXCEPT !.version = Memory!LatestVersion + 1]  BY DEF Memory!Version
<1>3. QED  BY <1>1, <1>2 DEF Recall

\* A request that goes on as it was has what it had.
LEMMA StillAsked ==
  ASSUME MemoryInv, NEW d \in Callers, asks'[d] = asks[d],
         \A x \in Recall : Respects(x) => Respects(x)',
         \A x \in Mirror : Copies(x) => Copies(x)'
  PROVE  Asked(d)'
<1>1. asks[d] \in Asks /\ Asked(d)  BY DEF MemoryInv, MemoryTypeOK
<1>2. ASSUME asks[d].at = "saving"
      PROVE  /\ asks'[d].memory.version >= 1
             /\ asks'[d].kind = "extract" => Respects(asks[d].memory)'
  <2>1. asks[d].memory \in Recall  BY <1>1, <1>2 DEF Asks
  <2>2. PICK x \in Recall : x = asks[d].memory  BY <2>1
  <2>3. asks[d].kind = "extract" => Respects(x)'  BY <1>1, <1>2, <2>2 DEF Asked
  <2>4. Respects(x)' => Respects(asks[d].memory)'  BY <2>2 DEF Respects
  <2>5. QED  BY <1>1, <1>2, <2>3, <2>4 DEF Asked
<1>3. ASSUME asks[d].at = "writing" PROVE Copies(asks[d].seen)'
  <2>1. asks[d].seen \in Mirror  BY <1>1, <1>3 DEF Asks
  <2>2. PICK x \in Mirror : x = asks[d].seen  BY <2>1
  <2>3. Copies(x)'  BY <1>1, <1>3, <2>2 DEF Asked
  <2>4. QED  BY <2>2, <2>3 DEF Copies
<1>4. QED  BY <1>2, <1>3 DEF Asked

\* A request goes on, and neither the memories nor the file change.
LEMMA Asking ==
  ASSUME MemoryInv, NEW c \in Callers, NEW a \in Asks, Memory!Goes(c, a),
         UNCHANGED <<memories, file, by>>,
         a.at = "saving" =>
           a.memory.version >= 1 /\ (a.kind = "extract" => Respects(a.memory)),
         a.at = "writing" => Copies(a.seen)
  PROVE  MemoryInv'
<1>1. /\ asks' \in [Callers -> Asks] /\ asks'[c] = a
      /\ \A d \in Callers : d # c => asks'[d] = asks[d]
  BY DEF Memory!Goes, MemoryInv, MemoryTypeOK
<1>2. MemoryTypeOK' /\ Ordered(memories)'  BY <1>1 DEF MemoryInv, MemoryTypeOK, Ordered, Tops
<1>3. /\ \A x \in Recall : Respects(x) => Respects(x)'
      /\ \A x \in Mirror : Copies(x) => Copies(x)'
  BY DEF Respects, Copies, Memory!LatestVersion, Memory!Latest, Memory!Newest
<1>4. Asked(c)'
  <2>1. a.at = "saving" => (a.kind = "extract" => Respects(asks[c].memory)')
    BY <1>1 DEF Respects, Memory!LatestVersion, Memory!Latest, Memory!Newest
  <2>2. a.at = "writing" => Copies(asks[c].seen)'  BY <1>1 DEF Copies
  <2>3. QED  BY <1>1, <2>1, <2>2 DEF Asked
<1>5. \A d \in Callers : Asked(d)'  BY <1>1, <1>3, <1>4, StillAsked
<1>6. QED  BY <1>2, <1>5 DEF MemoryInv

LEMMA SavingType ==
  ASSUME NEW k \in Kinds, NEW m \in Recall
  PROVE  /\ Memory!Saving(k, m) \in Asks /\ Memory!Saving(k, m).at = "saving"
         /\ Memory!Saving(k, m).kind = k /\ Memory!Saving(k, m).memory = m
  BY DEF Memory!Saving, Asks

\* Whatever is saved next has the version after the latest.
LEMMA ToSave ==
  ASSUME MemoryInv, NEW c \in Callers, NEW k \in Kinds, NEW m \in Recall,
         Memory!Goes(c, Memory!Saving(k, Memory!Version(m))), UNCHANGED <<memories, file, by>>,
         k = "extract" => Respects(Memory!Version(m))
  PROVE  MemoryInv'
<1> DEFINE v == Memory!Version(m)
           a == Memory!Saving(k, v)
<1>1. v \in Recall /\ v.version >= 1  BY VersionType
<1> HIDE DEF v
<1>2. a \in Asks /\ a.at = "saving" /\ a.kind = k /\ a.memory = v  BY <1>1, SavingType
<1>3. Memory!Goes(c, a)  BY DEF v
<1>4. k = "extract" => Respects(v)  BY DEF v
<1> HIDE DEF a
<1>5. QED  BY <1>1, <1>2, <1>3, <1>4, Asking

LEMMA ExtractionRespects ==
  ASSUME MemoryInv, NEW t \in MemoryTexts
  PROVE  /\ Memory!Reconciled(t) \in Recall
         /\ Respects(Memory!Version(Memory!Reconciled(t)))
<1>1. CASE memories # <<>> /\ Memory!Latest(memories).kept
  <2> DEFINE m == Memory!Latest(memories)
             x == IF m.text = t THEN None ELSE t
  <2>1. m \in Recall  BY <1>1, LatestType
  <2>2. Memory!Reconciled(t) = [m EXCEPT !.candidate = x]  BY <1>1 DEF Memory!Reconciled
  <2>3. x \in Known  BY DEF Known
  <2> HIDE DEF m, x
  <2>4. /\ Memory!Reconciled(t) \in Recall /\ Memory!Reconciled(t).text = m.text
        /\ Memory!Reconciled(t).kept = m.kept
    BY <2>1, <2>2, <2>3 DEF Recall
  <2>5. m.kept /\ Memory!Latest(memories) = m  BY <1>1 DEF m
  <2> DEFINE v == Memory!Version(Memory!Reconciled(t))
  <2>6. v.version = Memory!LatestVersion + 1 /\ v.text = m.text /\ v.kept = m.kept
    BY <2>4, VersionType
  <2>7. Memory!LatestVersion + 1 \in Nat  BY LatestType
  <2> HIDE DEF v
  <2>8. Respects(v)  BY <2>5, <2>6, <2>7 DEF Respects
  <2>9. QED  BY <2>4, <2>8 DEF v
<1>2. CASE ~(memories # <<>> /\ Memory!Latest(memories).kept)
  <2>1. Memory!Reconciled(t) = [version |-> 0, text |-> t, kept |-> FALSE, candidate |-> None]
    BY <1>2 DEF Memory!Reconciled
  <2>2. Memory!Reconciled(t) \in Recall  BY <2>1 DEF Recall, Known
  <2>3. Memory!Version(Memory!Reconciled(t)).version = Memory!LatestVersion + 1
    BY <2>2, VersionType
  <2>4. QED  BY <1>2, <2>2, <2>3, LatestType DEF Respects
<1>3. QED  BY <1>1, <1>2

LEMMA Requesting ==
  ASSUME MemoryInv, NEW c \in Callers,
         \/ Memory!Extract(c) \/ Memory!Extracted(c) \/ Memory!Update(c) \/ Memory!Polished(c)
         \/ Memory!Accept(c) \/ Memory!ApplyReviewed(c) \/ Memory!Rollback(c)
         \/ Memory!ProviderFails(c) \/ Memory!ReadsFile(c)
  PROVE  MemoryInv' /\ UNCHANGED <<memories, file>>
<1>0. asks[c] \in Asks /\ memories \in Seq(Recall) /\ Ordered(memories) /\ file \in Mirror
  BY DEF MemoryInv, MemoryTypeOK
<1>1. CASE Memory!Extract(c) \/ Memory!ProviderFails(c)
  <2>1. PICK a \in Asks : Memory!Goes(c, a) /\ a.at \in {"idle", "extracting"}
    <3>1. /\ [at |-> "extracting"] \in Asks
          /\ Memory!Idle \in Asks /\ Memory!Idle.at = "idle"
      BY DEF Asks, Memory!Idle
    <3>2. QED  BY <1>1, <3>1 DEF Memory!Extract, Memory!ProviderFails
  <2>2. QED  BY <1>1, <2>1, Asking DEF Memory!Extract, Memory!ProviderFails
<1>2. CASE Memory!Extracted(c)
  <2>1. PICK t \in MemoryTexts :
          Memory!Goes(c, Memory!Saving("extract", Memory!Version(Memory!Reconciled(t))))
    BY <1>2 DEF Memory!Extracted
  <2>2. UNCHANGED <<memories, file, by>>  BY <1>2 DEF Memory!Extracted
  <2>3. "extract" \in Kinds  BY DEF Kinds
  <2>4. QED  BY <2>1, <2>2, <2>3, ExtractionRespects, ToSave
<1>3. CASE Memory!Update(c)
  <2>1. /\ memories # <<>> /\ UNCHANGED <<memories, file, by>>
        /\ Memory!Goes(c, [at |-> "polishing", memory |-> Memory!Latest(memories)])
    BY <1>3 DEF Memory!Update
  <2>2. [at |-> "polishing", memory |-> Memory!Latest(memories)] \in Asks
    BY <2>1, LatestType DEF Asks
  <2>3. PICK a \in Asks : a = [at |-> "polishing", memory |-> Memory!Latest(memories)]  BY <2>2
  <2>4. QED  BY <2>1, <2>3, Asking
<1>4. CASE Memory!Polished(c)
  <2>1. asks[c].memory \in Recall /\ UNCHANGED <<memories, file, by>>
    BY <1>0, <1>4 DEF Memory!Polished, Asks
  <2>2. PICK t \in MemoryTexts :
          Memory!Goes(c, Memory!Saving("update", Memory!Version(
            [asks[c].memory EXCEPT !.text = t, !.kept = TRUE, !.candidate = None])))
    BY <1>4 DEF Memory!Polished
  <2>3. [asks[c].memory EXCEPT !.text = t, !.kept = TRUE, !.candidate = None] \in Recall
    BY <2>1 DEF Recall, Known
  <2>4. "update" \in Kinds /\ "update" # "extract"  BY DEF Kinds
  <2>5. QED  BY <2>1, <2>2, <2>3, <2>4, ToSave
<1>5. CASE Memory!Accept(c)
  <2> DEFINE m == Memory!Latest(memories)
  <2>1. /\ memories # <<>> /\ m.candidate # None /\ UNCHANGED <<memories, file, by>>
        /\ Memory!Goes(c, Memory!Saving("accept", Memory!Version(
             [m EXCEPT !.text = m.candidate, !.kept = TRUE, !.candidate = None])))
    BY <1>5 DEF Memory!Accept
  <2>2. m \in Recall  BY <2>1, LatestType
  <2>3. [m EXCEPT !.text = m.candidate, !.kept = TRUE, !.candidate = None] \in Recall
    BY <2>2 DEF Recall, Known
  <2>4. "accept" \in Kinds /\ "accept" # "extract"  BY DEF Kinds
  <2>5. QED  BY <2>1, <2>3, <2>4, ToSave
<1>6. CASE Memory!ApplyReviewed(c)
  <2> DEFINE m == Memory!Latest(memories)
             x == IF m.candidate # None THEN m.candidate ELSE m.text
  <2>1. /\ memories # <<>> /\ UNCHANGED <<memories, file, by>>
        /\ Memory!Goes(c, Memory!Saving("apply", Memory!Version(
             [m EXCEPT !.text = x, !.kept = TRUE, !.candidate = None])))
    BY <1>6 DEF Memory!ApplyReviewed
  <2>2. m \in Recall  BY <2>1, LatestType
  <2>3. x \in Known  BY <2>2 DEF Recall
  <2> HIDE DEF x
  <2>4. [m EXCEPT !.text = x, !.kept = TRUE, !.candidate = None] \in Recall
    BY <2>2, <2>3 DEF Recall, Known
  <2>5. "apply" \in Kinds /\ "apply" # "extract"  BY DEF Kinds
  <2>6. QED  BY <2>1, <2>4, <2>5, ToSave
<1>7. CASE Memory!Rollback(c)
  <2>1. /\ Len(memories) >= 2 /\ UNCHANGED <<memories, file, by>>
        /\ Memory!Goes(c, Memory!Saving("rollback", Memory!Version(Memory!Second(memories))))
    BY <1>7 DEF Memory!Rollback
  <2>2. Memory!Second(memories) \in Recall  BY <1>0, <2>1, SecondType
  <2>3. "rollback" \in Kinds /\ "rollback" # "extract"  BY DEF Kinds
  <2>4. QED  BY <2>1, <2>2, <2>3, ToSave
<1>8. CASE Memory!ReadsFile(c)
  <2> DEFINE x == Memory!Context(asks[c].kind, asks[c].memory)
             f == [file EXCEPT !.context = x]
  <2>1. asks[c].memory \in Recall /\ UNCHANGED <<memories, file, by>>
        /\ Memory!Goes(c, [at |-> "writing", seen |-> f])
    BY <1>0, <1>8 DEF Memory!ReadsFile, Asks
  <2>2. x \in Known  BY <2>1 DEF Memory!Context, Recall, Known
  <2> HIDE DEF x
  <2>3. f \in Mirror /\ f.version = file.version /\ f.instructions = file.instructions
    BY <1>0, <2>2 DEF Mirror
  <2> HIDE DEF f
  <2>4. [at |-> "writing", seen |-> f] \in Asks  BY <2>3 DEF Asks
  <2>5. PICK a \in Asks : a = [at |-> "writing", seen |-> f]  BY <2>4
  <2>6. a.at = "writing" /\ a.seen = f  BY <2>5
  <2>7. file.version \in Nat  BY <1>0 DEF Mirror
  <2>8. Copies(f)  BY <2>3, <2>7 DEF Copies
  <2>9. QED  BY <2>1, <2>5, <2>6, <2>8, Asking
<1>9. QED  BY <1>1, <1>2, <1>3, <1>4, <1>5, <1>6, <1>7, <1>8

\* What is stored becomes the latest memory only with a higher version, and an
\* extraction that has one keeps what users vouched for.
LEMMA StoringRespects ==
  ASSUME MemoryInv, NEW c \in Callers, Memory!Stored(c)
  PROVE  /\ MemoryInv' /\ UNCHANGED file
         /\ Memory!Last(by') = "extract" /\ memories # <<>> /\ Memory!Latest(memories).kept
              => /\ Memory!Latest(memories)'.kept
                 /\ Memory!Latest(memories)'.text = Memory!Latest(memories).text
<1> DEFINE m == asks[c].memory
           k == asks[c].kind
           a == [at |-> "mirroring", kind |-> k, memory |-> m]
           L == Memory!Latest(memories)
           n == Memory!LatestVersion
<1>1. /\ asks[c].at = "saving" /\ memories' = Append(memories, m) /\ by' = Append(by, k)
      /\ file' = file /\ asks' = [asks EXCEPT ![c] = a]
  BY DEF Memory!Stored, Memory!Goes
<1>2. /\ m \in Recall /\ k \in Kinds /\ m.version \in Nat /\ m.version >= 1
      /\ k = "extract" => Respects(m)
  <2>1. asks[c] \in Asks  BY DEF MemoryInv, MemoryTypeOK
  <2>2. m \in Recall /\ k \in Kinds  BY <1>1, <2>1 DEF Asks
  <2>3. QED  BY <1>1, <2>2 DEF MemoryInv, Recall, Asked
<1>3. /\ memories' \in Seq(Recall) /\ memories' # <<>> /\ Ordered(memories)'
      /\ memories = <<>> => Memory!Latest(memories)' = m
      /\ memories # <<>> => Memory!Latest(memories)' = IF m.version > L.version THEN m ELSE L
  <2> DEFINE ns == Append(memories, m)
  <2>1. memories \in Seq(Recall) /\ Ordered(memories)  BY DEF MemoryInv, MemoryTypeOK
  <2>2. /\ ns \in Seq(Recall) /\ ns # <<>> /\ Ordered(ns)
        /\ memories = <<>> => Memory!Latest(ns) = m
        /\ memories # <<>> => Memory!Latest(ns) =
             IF m.version > Memory!Latest(memories).version THEN m ELSE Memory!Latest(memories)
    BY <1>2, <2>1, StoringOrders
  <2>3. memories' = ns  BY <1>1
  <2> HIDE DEF ns, m
  <2>4. Ordered(memories)'  BY <2>2, <2>3 DEF Ordered, Tops
  <2>5. Memory!Latest(memories)' = Memory!Latest(ns)
    BY <2>3 DEF Memory!Latest, Memory!Newest
  <2>6. QED  BY <2>2, <2>3, <2>4, <2>5
<1>4. n \in Nat /\ (memories # <<>> => L \in Recall /\ n = L.version)  BY LatestType
<1>5. memories = <<>> => n = 0  BY DEF Memory!LatestVersion
<1>6. Memory!LatestVersion' = Memory!Latest(memories)'.version
  BY <1>3 DEF Memory!LatestVersion
<1> HIDE DEF m, k, L, n
<1>7. \/ Memory!LatestVersion' = m.version /\ m.version >= n + 1
      \/ /\ memories # <<>> /\ Memory!LatestVersion' = n /\ Memory!Latest(memories)' = L
         /\ m.version <= n
  <2>1. CASE memories = <<>>  BY <1>2, <1>3, <1>5, <1>6, <2>1
  <2>2. CASE memories # <<>>  BY <1>2, <1>3, <1>4, <1>6, <2>2
  <2>3. QED  BY <2>1, <2>2
<1>8. a \in Asks /\ a.at = "mirroring"  BY <1>2 DEF Asks
<1> HIDE DEF a
<1>9. /\ asks' \in [Callers -> Asks] /\ asks'[c] = a
      /\ \A d \in Callers : d # c => asks'[d] = asks[d]
  BY <1>1, <1>8 DEF MemoryInv, MemoryTypeOK
<1>10. by' \in Seq(Kinds) /\ Memory!Last(by') = k
  BY <1>1, <1>2 DEF MemoryInv, MemoryTypeOK, Memory!Last
<1>11. ASSUME NEW x, x.version \in Nat, Respects(x) PROVE Respects(x)'
  <2>1. x.version <= n + 1  BY <1>11 DEF Respects, n
  <2>2. CASE Memory!LatestVersion' = m.version /\ m.version >= n + 1
    <3>1. x.version <= Memory!LatestVersion'  BY <1>2, <1>4, <1>11, <2>1, <2>2
    <3>2. Memory!LatestVersion' \in Nat  BY <1>2, <2>2
    <3> DEFINE nn == Memory!LatestVersion'
    <3>3. x.version <= nn + 1 /\ x.version # nn + 1
      <4> HIDE DEF nn
      <4>1. nn \in Nat /\ x.version <= nn  BY <3>1, <3>2 DEF nn
      <4>2. QED  BY <1>11, <4>1
    <3>4. QED  BY <3>3 DEF Respects
  <2>3. CASE /\ memories # <<>> /\ Memory!LatestVersion' = n /\ Memory!Latest(memories)' = L
    BY <1>11, <2>3 DEF Respects, L, n
  <2>4. QED  BY <1>7, <2>2, <2>3
<1>12. ASSUME NEW d \in Callers PROVE Asked(d)'
  <2>1. CASE d = c
    <3>1. asks'[d].at = "mirroring"  BY <1>8, <1>9, <2>1
    <3>2. QED  BY <3>1 DEF Asked
  <2>2. CASE d # c
    <3>1. \A x \in Recall : Respects(x) => Respects(x)'  BY <1>11 DEF Recall
    <3>2. \A x \in Mirror : Copies(x) => Copies(x)'  BY <1>1 DEF Copies
    <3>3. QED  BY <1>9, <2>2, <3>1, <3>2, StillAsked
  <2>3. QED  BY <2>1, <2>2
<1>13. MemoryInv'
  <2>1. MemoryTypeOK'  BY <1>1, <1>3, <1>9, <1>10 DEF MemoryInv, MemoryTypeOK
  <2>2. QED  BY <1>3, <1>12, <2>1 DEF MemoryInv
<1>14. ASSUME k = "extract", memories # <<>>, L.kept
       PROVE  Memory!Latest(memories)'.kept /\ Memory!Latest(memories)'.text = L.text
  <2>1. m.version <= n + 1 /\ (m.version = n + 1 => m.kept /\ m.text = L.text)
    BY <1>2, <1>14 DEF Respects, L, n
  <2>2. CASE m.version > n
    <3>1. m.version = n + 1  BY <1>2, <1>4, <2>1, <2>2
    <3>2. Memory!Latest(memories)' = m  BY <1>3, <1>4, <1>14, <2>2
    <3>3. QED  BY <2>1, <3>1, <3>2
  <2>3. CASE ~(m.version > n)
    <3>1. Memory!Latest(memories)' = L  BY <1>3, <1>4, <1>14, <2>3
    <3>2. QED  BY <1>14, <3>1
  <2>4. QED  BY <2>2, <2>3
<1>15. QED  BY <1>1, <1>10, <1>13, <1>14 DEF L

\* The file moves on: what others have read is outdated by then.
LEMMA FileMoves ==
  ASSUME MemoryInv, file' \in Mirror, file'.version = file.version + 1,
         UNCHANGED <<memories, by>>, asks' \in [Callers -> Asks],
         \A d \in Callers : asks'[d] = asks[d] \/ asks'[d] = Memory!Idle
  PROVE  MemoryInv'
<1>1. MemoryTypeOK' /\ Ordered(memories)'
  BY DEF MemoryInv, MemoryTypeOK, Ordered, Tops
<1>2. file.version \in Nat  BY DEF MemoryInv, MemoryTypeOK, Mirror
<1>3. \A x \in Recall : Respects(x) => Respects(x)'
  BY DEF Respects, Memory!LatestVersion, Memory!Latest, Memory!Newest
<1>4. \A x \in Mirror : Copies(x) => Copies(x)'
  <2> SUFFICES ASSUME NEW x \in Mirror, Copies(x) PROVE Copies(x)'  OBVIOUS
  <2>1. x.version \in Nat  BY DEF Mirror
  <2>2. QED  BY <1>2, <2>1 DEF Copies
<1>5. ASSUME NEW d \in Callers, asks'[d] = Memory!Idle PROVE Asked(d)'
  BY <1>5 DEF Asked, Memory!Idle
<1>6. \A d \in Callers : Asked(d)'  BY <1>3, <1>4, <1>5, StillAsked
<1>7. QED  BY <1>1, <1>6 DEF MemoryInv

LEMMA WritingCopies ==
  ASSUME MemoryInv, NEW c \in Callers, Memory!WritesFile(c)
  PROVE  MemoryInv' /\ UNCHANGED memories /\ file'.instructions = file.instructions
<1> DEFINE f == asks[c].seen
<1>1. /\ asks[c].at = "writing" /\ UNCHANGED <<memories, by>>
      /\ Memory!Goes(c, Memory!Idle)
      /\ file' = IF file.version = f.version THEN [f EXCEPT !.version = file.version + 1] ELSE file
  BY DEF Memory!WritesFile, Memory!UnchangedSince
<1>2. asks[c] \in Asks /\ file \in Mirror  BY DEF MemoryInv, MemoryTypeOK
<1>3. f \in Mirror /\ Copies(f)  BY <1>1, <1>2 DEF Asks, MemoryInv, Asked
<1>4. Memory!Idle \in Asks /\ Memory!Idle.at = "idle"  BY DEF Asks, Memory!Idle
<1> HIDE DEF f
<1>5. CASE file.version = f.version
  <2>1. file.version + 1 \in Nat  BY <1>2 DEF Mirror
  <2>2. file' = [f EXCEPT !.version = file.version + 1]  BY <1>1, <1>5
  <2>3. /\ file' \in Mirror /\ file'.version = file.version + 1
        /\ file'.instructions = f.instructions
    BY <1>3, <2>1, <2>2 DEF Mirror
  <2>4. /\ asks' \in [Callers -> Asks]
        /\ \A d \in Callers : asks'[d] = asks[d] \/ asks'[d] = Memory!Idle
    BY <1>1, <1>4 DEF Memory!Goes, MemoryInv, MemoryTypeOK
  <2>5. f.instructions = file.instructions  BY <1>3, <1>5 DEF Copies
  <2>6. QED  BY <1>1, <2>3, <2>4, <2>5, FileMoves
<1>6. CASE file.version # f.version
  <2>1. UNCHANGED file  BY <1>1, <1>6
  <2>2. QED  BY <1>1, <1>4, <2>1, Asking
<1>7. QED  BY <1>5, <1>6

LEMMA MemoryStep ==
  ASSUME MemoryInv, [Memory!Next]_(Memory!vars)
  PROVE  /\ MemoryInv'
         /\ memories # <<>> /\ memories' # memories /\ Memory!Last(by') = "extract"
              /\ Memory!Latest(memories).kept
              => /\ Memory!Latest(memories)'.kept
                 /\ Memory!Latest(memories)'.text = Memory!Latest(memories).text
         /\ file'.instructions # file.instructions => asks' = asks /\ memories' = memories
<1>1. CASE UNCHANGED Memory!vars
  <2>1. UNCHANGED <<memories, file, asks, by>>  BY <1>1 DEF Memory!vars
  <2>2. MemoryInv'
    BY <2>1 DEF MemoryInv, MemoryTypeOK, Ordered, Tops, Asked, Respects, Copies,
                Memory!LatestVersion, Memory!Latest, Memory!Newest
  <2>3. QED  BY <2>1, <2>2
<1>2. CASE Memory!UserWrites
  <2>1. file \in Mirror /\ UNCHANGED <<memories, asks, by>>
    BY <1>2 DEF Memory!UserWrites, MemoryInv, MemoryTypeOK
  <2>2. PICK i \in Instructions : file' = [file EXCEPT !.version = file.version + 1, !.instructions = i]
    BY <1>2 DEF Memory!UserWrites
  <2>3. file.version + 1 \in Nat  BY <2>1 DEF Mirror
  <2>4. file' \in Mirror /\ file'.version = file.version + 1  BY <2>1, <2>2, <2>3 DEF Mirror
  <2>5. MemoryInv'  BY <2>1, <2>4, FileMoves DEF MemoryInv, MemoryTypeOK
  <2>6. QED  BY <2>1, <2>5
<1>3. CASE Memory!Crash
  <2>1. UNCHANGED <<memories, file, by>> /\ asks' = [c \in Callers |-> Memory!Idle]
    BY <1>3 DEF Memory!Crash
  <2>2. Memory!Idle \in Asks /\ Memory!Idle.at = "idle"  BY DEF Memory!Idle, Asks
  <2>3. \A c \in Callers : asks'[c].at = "idle"  BY <2>1, <2>2
  <2>4. MemoryTypeOK' /\ Ordered(memories)'
    BY <2>1, <2>2 DEF MemoryInv, MemoryTypeOK, Ordered, Tops
  <2>5. QED  BY <2>1, <2>3, <2>4 DEF MemoryInv, Asked
<1>4. ASSUME NEW c \in Callers,
             \/ Memory!Extract(c) \/ Memory!Extracted(c) \/ Memory!Update(c)
             \/ Memory!Polished(c) \/ Memory!Accept(c) \/ Memory!ApplyReviewed(c)
             \/ Memory!Rollback(c) \/ Memory!ProviderFails(c) \/ Memory!Stored(c)
             \/ Memory!ReadsFile(c) \/ Memory!WritesFile(c)
      PROVE  /\ MemoryInv'
             /\ memories' # memories => Memory!Stored(c)
             /\ file'.instructions = file.instructions
  BY <1>4, Requesting, StoringRespects, WritingCopies
<1>5. CASE \E c \in Callers :
             \/ Memory!Extract(c) \/ Memory!Extracted(c) \/ Memory!Update(c)
             \/ Memory!Polished(c) \/ Memory!Accept(c) \/ Memory!ApplyReviewed(c)
             \/ Memory!Rollback(c) \/ Memory!ProviderFails(c) \/ Memory!Stored(c)
             \/ Memory!ReadsFile(c) \/ Memory!WritesFile(c)
  BY <1>4, <1>5, StoringRespects
<1>6. QED  BY <1>1, <1>2, <1>3, <1>5 DEF Memory!Next

\* Whatever runs at the same time, an extraction leaves what users vouched for as it
\* is, and what is mirrored beside their instructions leaves these (saveVersion,
\* latestStored, syncFile).
THEOREM VouchedWordsStay == Spec => UsersWordsStay
<1>1. Init => MemoryInv
  <2> SUFFICES ASSUME Memory!Init PROVE MemoryInv  BY DEF Init
  <2>1. Memory!Idle \in Asks /\ Memory!Idle.at = "idle"  BY DEF Memory!Idle, Asks
  <2>2. memories = <<>> /\ memories \in Seq(Recall) /\ by \in Seq(Kinds)  BY DEF Memory!Init
  <2>3. file \in Mirror  BY DEF Memory!Init, Memory!NoFile, Mirror, Known
  <2>4. asks \in [Callers -> Asks] /\ \A c \in Callers : asks[c].at = "idle"
    BY <2>1 DEF Memory!Init
  <2>5. Ordered(memories)  BY <2>2 DEF Ordered
  <2>6. QED  BY <2>2, <2>3, <2>4, <2>5 DEF MemoryInv, MemoryTypeOK, Asked
<1>2. MemoryInv /\ [Next]_vars
        => /\ MemoryInv'
           /\ [ /\ memories # <<>> /\ memories' # memories /\ Memory!Last(by') = "extract"
                     /\ Memory!Latest(memories).kept
                     => /\ Memory!Latest(memories').kept
                        /\ Memory!Latest(memories').text = Memory!Latest(memories).text
                /\ file'.instructions # file.instructions
                     => asks' = asks /\ memories' = memories ]_(Memory!vars)
  <2> SUFFICES ASSUME MemoryInv, [Next]_vars
               PROVE  /\ MemoryInv'
                      /\ memories # <<>> /\ memories' # memories
                           /\ Memory!Last(by') = "extract" /\ Memory!Latest(memories).kept
                           => /\ Memory!Latest(memories').kept
                              /\ Memory!Latest(memories').text = Memory!Latest(memories).text
                      /\ file'.instructions # file.instructions
                           => asks' = asks /\ memories' = memories
    OBVIOUS
  <2>1. Memory!Latest(memories') = Memory!Latest(memories)'
    BY DEF Memory!Latest, Memory!Newest
  <2>2. QED  BY <2>1, MemoryStep, OneMoves
<1>3. QED  BY <1>1, <1>2, PTL DEF Spec, UsersWordsStay, Memory!UsersWordsStay

-----------------------------------------------------------------------------
(* The hunks of a proposed change.                                           *)

\* Induction over numbers, for a set instead of a predicate.
LEMMA Least ==
  ASSUME NEW S \in SUBSET Nat, S # {}
  PROVE  \E m \in S : \A k \in S : m <= k
<1>1. IsWellFoundedOn(OpToRel(<, Nat), Nat)  BY NatLessThanWellFounded
<1>2. PICK m \in S : \A k \in S : <<k, m>> \notin OpToRel(<, Nat)  BY <1>1, WFMin
<1>3. \A k \in S : ~ (k < m)  BY <1>2 DEF OpToRel
<1>4. QED  BY <1>3

LEMMA Induct ==
  ASSUME NEW S, 0 \in S, \A n \in Nat : n \in S => n + 1 \in S
  PROVE  \A n \in Nat : n \in S
<1> DEFINE T == Nat \ S
<1> SUFFICES ASSUME T # {} PROVE FALSE  OBVIOUS
<1>1. PICK m \in T : \A k \in T : m <= k  BY Least
<1>2. m # 0 /\ m - 1 \in Nat /\ m - 1 \notin T  BY <1>1
<1>3. QED  BY <1>2

\* A function that begins with x0 and whose value at k comes from the one at p[k].
Recurs(f, X, x0, N, p, G) ==
  /\ f \in [0..N -> X] /\ f[0] = x0
  /\ \A k \in 1..N : f[k] = G[k][f[p[k]]]

\* There is one, when p leads down.
LEMMA Recursion ==
  ASSUME NEW X, NEW x0 \in X, NEW N \in Nat,
         NEW p \in [1..N -> Nat], \A k \in 1..N : p[k] < k,
         NEW G \in [1..N -> [X -> X]]
  PROVE  \E f : Recurs(f, X, x0, N, p, G)
<1> DEFINE S == {n \in Nat : n <= N => \E f : Recurs(f, X, x0, n, p, G)}
<1>1. 0 \in S
  <2> DEFINE f == [i \in 0..0 |-> x0]
  <2>1. Recurs(f, X, x0, 0, p, G)  BY DEF Recurs
  <2>2. QED  BY <2>1
<1>2. ASSUME NEW n \in Nat, n \in S PROVE n + 1 \in S
  <2> SUFFICES ASSUME n + 1 <= N PROVE \E f : Recurs(f, X, x0, n + 1, p, G)
    OBVIOUS
  <2>1. PICK f : Recurs(f, X, x0, n, p, G)  BY <1>2
  <2> DEFINE m == n + 1
             g == [i \in 0..m |-> IF i = m THEN G[m][f[p[m]]] ELSE f[i]]
  <2>2. m \in 1..N /\ p[m] \in 0..n /\ f \in [0..n -> X]  BY <2>1 DEF Recurs
  <2>3. G[m] \in [X -> X] /\ G[m][f[p[m]]] \in X  BY <2>2
  <2>4. g \in [0..m -> X] /\ g[m] = G[m][f[p[m]]]  BY <2>2, <2>3
  <2>5. \A i \in 0..n : g[i] = f[i]  OBVIOUS
  <2>6. ASSUME NEW k \in 1..m PROVE g[k] = G[k][g[p[k]]]
    <3>1. CASE k = m  BY <2>2, <2>4, <2>5, <3>1
    <3>2. CASE k # m
      <4>1. k \in 1..n /\ k \in 0..n /\ p[k] \in 0..n  BY <2>2, <3>2
      <4> HIDE DEF g
      <4>2. QED  BY <2>1, <2>5, <4>1 DEF Recurs
    <3>3. QED  BY <3>1, <3>2
  <2>7. g[0] = x0  BY <2>1, <2>5 DEF Recurs
  <2> HIDE DEF g
  <2>8. Recurs(g, X, x0, m, p, G)  BY <2>4, <2>6, <2>7 DEF Recurs
  <2>9. QED  BY <2>8
<1>3. N \in S
  <2> HIDE DEF S
  <2>1. QED  BY <1>1, <1>2, Induct
<1>4. QED  BY <1>3

\* One value after the other.
Stepwise(f, X, x0, N, G) ==
  /\ f \in [0..N -> X] /\ f[0] = x0
  /\ \A k \in 1..N : f[k] = G[k][f[k - 1]]

LEMMA StepwiseRecursion ==
  ASSUME NEW X, NEW x0 \in X, NEW N \in Nat, NEW G \in [1..N -> [X -> X]]
  PROVE  \E f : Stepwise(f, X, x0, N, G)
<1> DEFINE p == [k \in 1..N |-> k - 1]
<1>1. p \in [1..N -> Nat] /\ \A k \in 1..N : p[k] < k /\ p[k] = k - 1  OBVIOUS
<1> HIDE DEF p
<1>2. PICK f : Recurs(f, X, x0, N, p, G)  BY <1>1, Recursion
<1>3. Stepwise(f, X, x0, N, G)  BY <1>1, <1>2 DEF Recurs, Stepwise
<1>4. QED  BY <1>3

\* What such a function computes stays in X.
LEMMA StepwiseType ==
  ASSUME NEW X, NEW N \in Nat, NEW h, h[0] \in X,
         \A k \in 1..N : h[k - 1] \in X => h[k] \in X
  PROVE  \A k \in 0..N : h[k] \in X
<1> DEFINE S == {n \in Nat : n <= N => h[n] \in X}
<1>1. 0 \in S  OBVIOUS
<1>2. ASSUME NEW n \in Nat, n \in S PROVE n + 1 \in S
  <2>1. n + 1 <= N => h[n] \in X /\ n + 1 \in 1..N /\ (n + 1) - 1 = n  BY <1>2
  <2>2. QED  BY <2>1
<1>3. \A n \in Nat : n \in S
  <2> HIDE DEF S
  <2>1. QED  BY <1>1, <1>2, Induct
<1>4. QED  BY <1>3

-----------------------------------------------------------------------------
\* The texts, the hunks, and the places of a line in both texts.
Lines  == UNION {{t[i] : i \in DOMAIN t} : t \in Befores \cup Afters}
Text   == Seq(Lines)
Places == Nat \X Nat

LEMMA PairsSteps ==
  ASSUME NEW b \in Text, NEW a \in Text
  PROVE  LET f == Hunks!PairsOfFirst(b, a)
             common == Hunks!UniqueLines(b) \cap Hunks!UniqueLines(a)
             at(k) == <<k, CHOOSE j \in DOMAIN a : a[j] = b[k]>>
         IN
         /\ f \in [0..Len(b) -> Seq(Places)] /\ f[0] = <<>>
         /\ \A k \in 1..Len(b) : f[k] = IF b[k] \in common THEN Append(f[k - 1], at(k)) ELSE f[k - 1]
<1> DEFINE N == Len(b)
           X == Seq(Places)
           common == Hunks!UniqueLines(b) \cap Hunks!UniqueLines(a)
           at(k) == <<k, CHOOSE j \in DOMAIN a : a[j] = b[k]>>
           step(k, x) == IF b[k] \in common THEN Append(x, at(k)) ELSE x
           G == [k \in 1..N |-> [x \in X |-> step(k, x)]]
           Is(f) == f = [k \in 0..N |-> IF k = 0 THEN <<>> ELSE step(k, f[k - 1])]
<1>1. N \in Nat /\ <<>> \in X  BY DEF Text
<1>2. ASSUME NEW k \in 1..N, NEW x \in X PROVE step(k, x) \in X
  <2>1. CASE b[k] \in common
    <3>1. \E j \in DOMAIN a : a[j] = b[k]
      BY <2>1 DEF Hunks!UniqueLines, Hunks!ToSet
    <3>2. (CHOOSE j \in DOMAIN a : a[j] = b[k]) \in DOMAIN a  BY <3>1
    <3>3. at(k) \in Places
      <4> DEFINE j == CHOOSE j \in DOMAIN a : a[j] = b[k]
      <4>1. j \in DOMAIN a  BY <3>2
      <4> HIDE DEF j
      <4>2. k \in Nat /\ j \in Nat  BY <4>1, <1>1 DEF Text
      <4>3. <<k, j>> \in Places  BY <4>2 DEF Places
      <4>4. QED  BY <4>3 DEF j
    <3> HIDE DEF at
    <3>4. Append(x, at(k)) \in X  BY <3>3
    <3>5. step(k, x) = Append(x, at(k))  BY <2>1
    <3>6. QED  BY <3>4, <3>5
  <2>2. CASE b[k] \notin common  BY <2>2
  <2>3. QED  BY <2>1, <2>2
<1> HIDE DEF X, step
<1>3. G \in [1..N -> [X -> X]]  BY <1>2
<1>4. PICK f : Stepwise(f, X, <<>>, N, G)
  <2> HIDE DEF N, G
  <2>1. QED  BY <1>1, <1>3, StepwiseRecursion
<1>5. ASSUME NEW k \in 1..N PROVE f[k] = step(k, f[k - 1])
  <2>1. f[k - 1] \in X /\ f[k] = G[k][f[k - 1]]  BY <1>4 DEF Stepwise
  <2>2. QED  BY <2>1
<1>6. Is(f)
  <2>1. f = [k \in 0..N |-> f[k]] /\ f[0] = <<>>  BY <1>4 DEF Stepwise
  <2>2. ASSUME NEW k \in 0..N PROVE f[k] = IF k = 0 THEN <<>> ELSE step(k, f[k - 1])
    <3>1. CASE k = 0  BY <2>1, <3>1
    <3>2. CASE k # 0  BY <1>5, <3>2
    <3>3. QED  BY <3>1, <3>2
  <2> HIDE DEF N
  <2>3. QED  BY <2>1, <2>2
<1>7. Hunks!PairsOfFirst(b, a) = CHOOSE g : Is(g)  BY DEF Hunks!PairsOfFirst, step
<1> DEFINE h == Hunks!PairsOfFirst(b, a)
<1>8. Is(h)
  <2> HIDE DEF Is
  <2>1. QED  BY <1>6, <1>7
<1> HIDE DEF h
<1>9. QED
  <2>1. h = [k \in 0..N |-> h[k]] /\ h[0] = <<>> /\ \A k \in 1..N : h[k] = step(k, h[k - 1])
    BY <1>1, <1>8
  <2>2. \A k \in 0..N : h[k] \in X  BY <1>1, <1>2, <2>1, StepwiseType
  <2>3. h \in [0..N -> X]  BY <2>1, <2>2
  <2>4. QED  BY <2>1, <2>3 DEF h, X, step

\* Lines paired in the order of the first n of the text before.
Matched(ps, b, a, n) ==
  /\ ps \in Seq(Places)
  /\ \A k \in 1..Len(ps) : /\ ps[k][1] \in 1..n /\ ps[k][2] \in 1..Len(a)
                           /\ b[ps[k][1]] = a[ps[k][2]]
  /\ \A i, j \in 1..Len(ps) : i < j => ps[i][1] < ps[j][1]

LEMMA PairsMatch ==
  ASSUME NEW b \in Text, NEW a \in Text
  PROVE  Matched(Hunks!Pairs(b, a), b, a, Len(b))
<1> DEFINE N == Len(b)
           f == Hunks!PairsOfFirst(b, a)
           common == Hunks!UniqueLines(b) \cap Hunks!UniqueLines(a)
           j(k) == CHOOSE i \in DOMAIN a : a[i] = b[k]
           S == {n \in Nat : n <= N => Matched(f[n], b, a, n)}
<1>1. N \in Nat  BY DEF Text
<1>2. /\ f \in [0..N -> Seq(Places)] /\ f[0] = <<>>
      /\ \A k \in 1..N : f[k] = IF b[k] \in common THEN Append(f[k - 1], <<k, j(k)>>) ELSE f[k - 1]
  BY PairsSteps
<1>3. ASSUME NEW k \in 1..N, b[k] \in common PROVE j(k) \in 1..Len(a) /\ a[j(k)] = b[k]
  <2>1. \E i \in DOMAIN a : a[i] = b[k]  BY <1>3 DEF Hunks!UniqueLines, Hunks!ToSet
  <2>2. QED  BY <2>1 DEF Text
<1> HIDE DEF f, common, j
<1>4. 0 \in S
  <2>1. f[0] = <<>> /\ <<>> \in Seq(Places) /\ Len(<<>>) = 0  BY <1>2
  <2>2. Matched(f[0], b, a, 0)  BY <2>1 DEF Matched
  <2>3. QED  BY <2>2
<1>5. ASSUME NEW n \in Nat, n \in S PROVE n + 1 \in S
  <2> SUFFICES ASSUME n + 1 <= N PROVE Matched(f[n + 1], b, a, n + 1)  OBVIOUS
  <2> DEFINE k == n + 1
             x == f[n]
  <2>1. k \in 1..N /\ k - 1 = n /\ Matched(x, b, a, n)  BY <1>1, <1>5
  <2>2. f[k] = IF b[k] \in common THEN Append(x, <<k, j(k)>>) ELSE x  BY <1>2, <2>1
  <2> HIDE DEF x
  <2>3. CASE b[k] \in common
    <3> DEFINE y == Append(x, <<k, j(k)>>)
    <3>1. j(k) \in 1..Len(a) /\ a[j(k)] = b[k] /\ Len(a) \in Nat  BY <1>3, <2>1, <2>3 DEF Text
    <3>2. <<k, j(k)>> \in Places  BY <3>1 DEF Places
    <3>3. /\ x \in Seq(Places) /\ y \in Seq(Places) /\ Len(y) = Len(x) + 1
          /\ Len(x) \in Nat /\ y[Len(x) + 1] = <<k, j(k)>>
          /\ \A i \in 1..Len(x) : y[i] = x[i]
      BY <2>1, <3>2 DEF Matched
    <3> HIDE DEF y
    <3>4. ASSUME NEW i \in 1..Len(y)
          PROVE  y[i][1] \in 1..k /\ y[i][2] \in 1..Len(a) /\ b[y[i][1]] = a[y[i][2]]
      <4>1. CASE i = Len(x) + 1  BY <3>1, <3>3, <4>1, <2>1
      <4>2. CASE i \in 1..Len(x)  BY <3>3, <2>1, <4>2 DEF Matched
      <4>3. QED  BY <3>3, <4>1, <4>2
    <3>5. ASSUME NEW i \in 1..Len(y), NEW m \in 1..Len(y), i < m
          PROVE  y[i][1] < y[m][1]
      <4>1. CASE m = Len(x) + 1
        <5>1. i \in 1..Len(x) /\ y[i] = x[i] /\ x[i][1] \in 1..n  BY <2>1, <3>3, <3>5, <4>1 DEF Matched
        <5>2. y[m][1] = k  BY <3>3, <4>1
        <5>3. QED  BY <5>1, <5>2
      <4>2. CASE m \in 1..Len(x)
        <5>1. i \in 1..Len(x)  BY <3>5, <4>2, <3>3
        <5>2. QED  BY <5>1, <4>2, <2>1, <3>3, <3>5 DEF Matched
      <4>3. QED  BY <3>3, <4>1, <4>2
    <3>6. Matched(y, b, a, k)  BY <3>3, <3>4, <3>5 DEF Matched
    <3>7. QED  BY <3>6, <2>2, <2>3 DEF y
  <2>4. CASE b[k] \notin common  BY <2>1, <2>2, <2>4 DEF Matched
  <2>5. QED  BY <2>3, <2>4
<1>6. N \in S
  <2> HIDE DEF S, N
  <2>1. QED  BY <1>1, <1>4, <1>5, Induct
<1>7. QED  BY <1>1, <1>6 DEF Hunks!Pairs, f

\* What patience sorting knows after the first k pairs: the runs end with s.tails,
\* and r[j] is the length of the run that pair j ended.
Sorted(ps, s, k, r) ==
  /\ s = [tails |-> s.tails, previous |-> s.previous]
  /\ s.tails \in Seq(1..k) /\ s.previous \in Seq(0..k) /\ Len(s.previous) = k
  /\ r \in [1..k -> 1..Len(s.tails)]
  /\ \A n \in 1..Len(s.tails) : r[s.tails[n]] = n
  /\ \A n, m \in 1..Len(s.tails) : n < m => ps[s.tails[n]][2] < ps[s.tails[m]][2]
  /\ \A j \in 1..k : ps[s.tails[r[j]]][2] <= ps[j][2]
  /\ \A j \in 1..k : r[j] = 1 => s.previous[j] = 0
  /\ \A j \in 1..k : r[j] # 1 =>
       /\ s.previous[j] \in 1..(j - 1) /\ r[s.previous[j]] = r[j] - 1
       /\ ps[s.previous[j]][2] < ps[j][2]
  /\ \A i, j \in 1..k : i < j /\ ps[i][2] < ps[j][2] => r[i] < r[j]

\* How many runs end below a value, when their ends increase.
LEMMA RunsBelow ==
  ASSUME NEW L \in Nat, NEW g \in [1..L -> Nat], NEW v \in Nat,
         \A n, m \in 1..L : n < m => g[n] < g[m]
  PROVE  LET c == Cardinality({n \in 1..L : g[n] < v}) IN
         c \in 0..L /\ {n \in 1..L : g[n] < v} = 1..c
<1> DEFINE D == {n \in 1..L : g[n] < v}
           U == {n \in Nat : n \in 1..(L + 1) /\ n \notin D}
<1>1. U \in SUBSET Nat /\ L + 1 \in U  OBVIOUS
<1>2. PICK m \in U : \A n \in U : m <= n
  <2> HIDE DEF U
  <2>1. QED  BY <1>1, Least
<1>3. m \in 1..(L + 1) /\ m \notin D  BY <1>2
<1>4. \A n \in 1..L : n < m => n \in D  BY <1>2, <1>3
<1>5. \A n \in 1..L : n >= m => n \notin D
  <2> SUFFICES ASSUME NEW n \in 1..L, n >= m, n \in D PROVE FALSE  OBVIOUS
  <2>1. g[n] < v /\ m \in 1..L /\ ~ (g[m] < v)  BY <1>3
  <2>2. n # m /\ m < n  BY <2>1, <1>3
  <2>3. g[m] < g[n]  BY <2>1, <2>2
  <2>4. g[m] \in Nat /\ g[n] \in Nat  BY <2>1
  <2>5. QED  BY <2>1, <2>3, <2>4
<1>6. D = 1..(m - 1)  BY <1>3, <1>4, <1>5
<1> HIDE DEF D, U
<1> DEFINE c == m - 1
<1>7. c \in 0..L /\ D = 1..c  BY <1>3, <1>6
<1> HIDE DEF c
<1>8. Cardinality(1..c) = c
  <2>1. Cardinality(1..c) = IF 1 > c THEN 0 ELSE c - 1 + 1  BY <1>7, FS_Interval
  <2>2. QED  BY <1>7, <2>1
<1>9. Cardinality(D) \in 0..L /\ D = 1..Cardinality(D)  BY <1>7, <1>8
<1>10. QED  BY <1>9 DEF D

LEMMA HunksCardinality ==
  ASSUME NEW S PROVE Hunks!Cardinality(S) = Cardinality(S)
  BY DEF Hunks!Cardinality, Cardinality

LEMMA PileTyped ==
  ASSUME NEW ps \in Seq(Places), NEW s \in [tails : Seq(Nat), previous : Seq(Nat)], NEW k \in Nat
  PROVE  Hunks!Place(ps, s, k) \in [tails : Seq(Nat), previous : Seq(Nat)]
<1> DEFINE D == {n \in DOMAIN s.tails : ps[s.tails[n]][2] < ps[k][2]}
           c == Cardinality(D)
           L == Len(s.tails)
           low == 1 + c
<1>1. L \in Nat /\ DOMAIN s.tails = 1..L /\ s.tails \in Seq(Nat) /\ s.previous \in Seq(Nat)
  OBVIOUS
<1>2. c \in Nat /\ c <= L
  <2>1. D \in SUBSET (1..L)  BY <1>1
  <2>2. IsFiniteSet(1..L) /\ Cardinality(1..L) = L
    <3>1. IsFiniteSet(1..L) /\ Cardinality(1..L) = IF 1 > L THEN 0 ELSE L - 1 + 1
      <4> HIDE DEF L
      <4>1. 1 \in Int /\ L \in Int  BY <1>1
      <4>2. QED  BY <4>1, FS_Interval
    <3>2. QED  BY <1>1, <3>1
  <2> HIDE DEF D, L
  <2>3. IsFiniteSet(D) /\ Cardinality(D) <= L  BY <2>1, <2>2, FS_Subset
  <2>4. Cardinality(D) \in Nat  BY <2>3, FS_CardinalityType
  <2>5. QED  BY <2>3, <2>4
<1> HIDE DEF c, D
<1>3. (IF low > L THEN Append(s.tails, k) ELSE [s.tails EXCEPT ![low] = k]) \in Seq(Nat)
  BY <1>1, <1>2
<1>4. (IF low = 1 THEN 0 ELSE s.tails[low - 1]) \in Nat
  <2>1. CASE c = 0  BY <2>1
  <2>2. CASE c # 0
    <3>1. low - 1 \in 1..L  BY <1>1, <1>2, <2>2
    <3>2. s.tails[low - 1] \in Nat  BY <3>1, <1>1
    <3>3. QED  BY <3>2
  <2>3. QED  BY <2>1, <2>2
<1>5. Append(s.previous, IF low = 1 THEN 0 ELSE s.tails[low - 1]) \in Seq(Nat)
  <2> DEFINE q == IF low = 1 THEN 0 ELSE s.tails[low - 1]
  <2>1. q \in Nat  BY <1>4
  <2> HIDE DEF q
  <2>2. Append(s.previous, q) \in Seq(Nat)  BY <1>1, <2>1
  <2>3. QED  BY <2>2 DEF q
<1>6. Hunks!Place(ps, s, k) =
        [tails |-> IF low > L THEN Append(s.tails, k) ELSE [s.tails EXCEPT ![low] = k],
         previous |-> Append(s.previous, IF low = 1 THEN 0 ELSE s.tails[low - 1])]
  <2>1. Hunks!Cardinality(D) = c  BY HunksCardinality DEF c
  <2>2. QED  BY <2>1 DEF Hunks!Place, D
<1> HIDE DEF low, L
<1>7. QED  BY <1>3, <1>5, <1>6

LEMMA PilesSteps ==
  ASSUME NEW ps \in Seq(Places)
  PROVE  LET f == Hunks!PilesOfFirst(ps)
             X == [tails : Seq(Nat), previous : Seq(Nat)] IN
         /\ f \in [0..Len(ps) -> X] /\ f[0] = [tails |-> <<>>, previous |-> <<>>]
         /\ \A k \in 1..Len(ps) : f[k] = Hunks!Place(ps, f[k - 1], k)
<1> DEFINE N == Len(ps)
           X == [tails : Seq(Nat), previous : Seq(Nat)]
           x0 == [tails |-> <<>>, previous |-> <<>>]
           step(k, x) == Hunks!Place(ps, x, k)
           G == [k \in 1..N |-> [x \in X |-> step(k, x)]]
           Is(f) == f = [k \in 0..N |-> IF k = 0 THEN x0 ELSE step(k, f[k - 1])]
<1>1. N \in Nat /\ x0 \in X  OBVIOUS
<1>2. ASSUME NEW k \in 1..N, NEW x \in X PROVE step(k, x) \in X
  BY PileTyped
<1> HIDE DEF X, step, x0
<1>3. G \in [1..N -> [X -> X]]  BY <1>2
<1>4. PICK f : Stepwise(f, X, x0, N, G)
  <2> HIDE DEF N, G
  <2>1. QED  BY <1>1, <1>3, StepwiseRecursion
<1>5. ASSUME NEW k \in 1..N PROVE f[k] = step(k, f[k - 1])
  <2>1. f[k - 1] \in X /\ f[k] = G[k][f[k - 1]]  BY <1>4, SMTT(30) DEF Stepwise
  <2>2. QED  BY <2>1
<1>6. Is(f)
  <2>1. f = [k \in 0..N |-> f[k]] /\ f[0] = x0  BY <1>4 DEF Stepwise
  <2>2. ASSUME NEW k \in 0..N PROVE f[k] = IF k = 0 THEN x0 ELSE step(k, f[k - 1])
    <3>1. CASE k = 0  BY <2>1, <3>1
    <3>2. CASE k # 0  BY <1>5, <3>2
    <3>3. QED  BY <3>1, <3>2
  <2> HIDE DEF N
  <2>3. QED  BY <2>1, <2>2
<1>7. Hunks!PilesOfFirst(ps) = CHOOSE g : Is(g)  BY DEF Hunks!PilesOfFirst, step, x0
<1> DEFINE h == Hunks!PilesOfFirst(ps)
<1>8. Is(h)
  <2> HIDE DEF Is
  <2>1. QED  BY <1>6, <1>7
<1> HIDE DEF h
<1>9. QED
  <2>1. h = [k \in 0..N |-> h[k]] /\ h[0] = x0 /\ \A k \in 1..N : h[k] = step(k, h[k - 1])
    BY <1>1, <1>8
  <2>2. \A k \in 0..N : h[k] \in X  BY <1>1, <1>2, <2>1, StepwiseType
  <2>3. h \in [0..N -> X]  BY <2>1, <2>2
  <2>4. QED  BY <2>1, <2>3 DEF h, X, x0, step

LEMMA PlaceSorts ==
  ASSUME NEW ps \in Seq(Places), NEW k \in Nat, k < Len(ps), NEW s, NEW r, Sorted(ps, s, k, r)
  PROVE  \E r2 : Sorted(ps, Hunks!Place(ps, s, k + 1), k + 1, r2)
<1> DEFINE K == k + 1
           v(j) == ps[j][2]
           T == s.tails
           L == Len(T)
           P == s.previous
           c == Cardinality({n \in 1..L : v(T[n]) < v(K)})
           low == c + 1
           T2 == IF low > L THEN Append(T, K) ELSE [T EXCEPT ![low] = K]
           q == IF low = 1 THEN 0 ELSE T[low - 1]
           P2 == Append(P, q)
           M == IF low > L THEN L + 1 ELSE L
           r2 == [j \in 1..K |-> IF j = K THEN low ELSE r[j]]
           s2 == [tails |-> T2, previous |-> P2]
<1>1. /\ K \in 1..Len(ps) /\ 1..k \subseteq 1..K /\ K \notin 1..k /\ 1..K = 1..k \cup {K}
      /\ \A j \in 1..Len(ps) : v(j) \in Nat
  <2>1. \A j \in 1..Len(ps) : ps[j] \in Places  OBVIOUS
  <2>2. QED  BY <2>1 DEF Places
<1>2. /\ T \in Seq(1..k) /\ L \in Nat /\ DOMAIN T = 1..L /\ P \in Seq(0..k) /\ Len(P) = k
      /\ \A n \in 1..L : T[n] \in 1..k
      /\ r \in [1..k -> 1..L]
      /\ \A n \in 1..L : r[T[n]] = n
      /\ \A n, m \in 1..L : n < m => v(T[n]) < v(T[m])
      /\ \A j \in 1..k : v(T[r[j]]) <= v(j)
  BY DEF Sorted
<1> HIDE DEF v, T, P, L
<1>3. c \in 0..L /\ {n \in 1..L : v(T[n]) < v(K)} = 1..c
  <2> DEFINE g == [n \in 1..L |-> v(T[n])]
         w == v(K)
  <2>1. \A n \in 1..L : T[n] \in 1..Len(ps)  BY <1>1, <1>2
  <2>2. \A n \in 1..L : v(T[n]) \in Nat  BY <1>1, <2>1
  <2>3. g \in [1..L -> Nat] /\ w \in Nat  BY <1>1, <2>2
  <2>4. \A n, m \in 1..L : n < m => g[n] < g[m]  BY <1>2
  <2>5. {n \in 1..L : g[n] < w} = {n \in 1..L : v(T[n]) < v(K)}  OBVIOUS
  <2> HIDE DEF g, w, K
  <2> DEFINE d == Cardinality({n \in 1..L : g[n] < w})
  <2>6. d \in 0..L /\ {n \in 1..L : g[n] < w} = 1..d
    BY <1>2, <2>3, <2>4, RunsBelow, ZenonT(30)
  <2>7. c = d  BY <2>5
  <2> HIDE DEF d, c
  <2>8. QED  BY <2>5, <2>6, <2>7
<1>4. Hunks!Place(ps, s, K) = s2
  <2>1. Hunks!Cardinality({n \in 1..L : v(T[n]) < v(K)}) = c  BY HunksCardinality
  <2>2. {n \in DOMAIN s.tails : ps[s.tails[n]][2] < ps[K][2]} = {n \in 1..L : v(T[n]) < v(K)}
    BY <1>2 DEF v, T
  <2>3. low = 1 + c  BY <1>3
  <2> HIDE DEF c
  <2>4. Hunks!Cardinality({n \in DOMAIN s.tails : ps[s.tails[n]][2] < ps[K][2]}) = c
    BY <2>1, <2>2
  <2> HIDE DEF low
  <2>5. QED  BY <2>3, <2>4 DEF Hunks!Place, T, L, P
<1> HIDE DEF c
<1>5. /\ T2 \in Seq(1..K) /\ Len(T2) = M /\ low \in 1..M /\ T2[low] = K
      /\ M \in Nat /\ L <= M /\ M <= L + 1
      /\ \A n \in 1..M : n # low => n \in 1..L /\ T2[n] = T[n]
  <2>1. T \in Seq(1..K) /\ K \in 1..K  BY <1>1, <1>2
  <2>2. CASE low > L
    <3>1. T2 = Append(T, K) /\ low = L + 1 /\ M = L + 1  BY <1>2, <1>3, <2>2
    <3> HIDE DEF T2, M, low
    <3>2. Append(T, K) \in Seq(1..K) /\ Len(Append(T, K)) = L + 1 /\ Append(T, K)[L + 1] = K
          /\ \A n \in 1..L : Append(T, K)[n] = T[n]
      BY <1>2, <2>1 DEF L
    <3>3. QED  BY <3>1, <3>2, <1>2
  <2>3. CASE ~ (low > L)
    <3>1. T2 = [T EXCEPT ![low] = K] /\ low \in 1..L /\ M = L  BY <1>2, <1>3, <2>3
    <3> HIDE DEF T2, low, M
    <3>2. [T EXCEPT ![low] = K] \in Seq(1..K)
      <4>1. low \in 1..Len(T)  BY <3>1 DEF L
      <4> HIDE DEF K
      <4>2. QED  BY <2>1, <4>1, ExceptSeq
    <3>3. DOMAIN [T EXCEPT ![low] = K] = 1..L  BY <2>1, <1>2
    <3>4. Len([T EXCEPT ![low] = K]) = L  BY <3>2, <3>3, <1>2
    <3>5. /\ [T EXCEPT ![low] = K][low] = K
          /\ \A n \in 1..L : n # low => [T EXCEPT ![low] = K][n] = T[n]
      BY <2>1, <3>1, <1>2
    <3>6. T2 \in Seq(1..K) /\ Len(T2) = M /\ T2[low] = K
      BY <3>1, <3>2, <3>4, <3>5
    <3>7. \A n \in 1..M : n # low => n \in 1..L /\ T2[n] = T[n]  BY <3>1, <3>5
    <3>8. M \in Nat /\ L <= M /\ M <= L + 1 /\ low \in 1..M  BY <3>1, <1>2
    <3>9. QED  BY <3>6, <3>7, <3>8
  <2>4. QED  BY <2>2, <2>3
<1> HIDE DEF T2, M, q, P2
<1>6. q \in 0..k /\ (low # 1 => q = T[c] /\ c \in 1..L /\ q \in 1..k /\ v(q) < v(K))
  <2>1. CASE c = 0  BY <2>1, <1>2 DEF q
  <2>2. CASE c # 0
    <3>1. c \in 1..c /\ c \in 1..L  BY <1>3, <2>2
    <3>2. low # 1 /\ low - 1 = c  BY <3>1, <1>3
    <3>3. q = T[c]  BY <3>2 DEF q
    <3>4. v(T[c]) < v(K)  BY <1>3, <3>1
    <3>5. T[c] \in 1..k  BY <1>2, <3>1
    <3>6. QED  BY <3>1, <3>3, <3>4, <3>5
  <2>3. QED  BY <2>1, <2>2
<1>7. /\ P2 \in Seq(0..K) /\ Len(P2) = K /\ P2[K] = q
      /\ \A j \in 1..k : P2[j] = P[j]
  <2>1. P \in Seq(0..K) /\ q \in 0..K  BY <1>2, <1>6
  <2>2. QED  BY <1>2, <2>1 DEF P2
<1>8. /\ r2 \in [1..K -> 1..M] /\ r2[K] = low
      /\ \A j \in 1..k : r2[j] = r[j] /\ r[j] \in 1..L
  <2>1. \A j \in 1..k : r[j] \in 1..L /\ r[j] \in 1..M /\ j # K /\ j \in 1..K
    <3> SUFFICES ASSUME NEW j \in 1..k PROVE r[j] \in 1..L /\ r[j] \in 1..M /\ j # K /\ j \in 1..K
      OBVIOUS
    <3>1. r[j] \in 1..L  BY <1>2
    <3>2. j # K /\ j \in 1..K  BY <1>1
    <3>3. r[j] \in 1..M  BY <3>1, <1>2, <1>5
    <3>4. QED  BY <3>1, <3>2, <3>3
  <2>2. K \in 1..K /\ low \in 1..M  BY <1>1, <1>5
  <2>3. \A j \in 1..K : j # K => j \in 1..k  BY <1>1
  <2> HIDE DEF K, low
  <2>4. QED  BY <2>1, <2>2, <2>3
<1> HIDE DEF r2
<1>9. \A n \in 1..M : r2[T2[n]] = n
  <2> SUFFICES ASSUME NEW n \in 1..M PROVE r2[T2[n]] = n  OBVIOUS
  <2>1. CASE n = low  BY <1>5, <1>8, <2>1
  <2>2. CASE n # low
    <3>1. n \in 1..L /\ T2[n] = T[n]  BY <1>5, <2>2
    <3>2. QED  BY <1>2, <1>8, <3>1
  <2>3. QED  BY <2>1, <2>2
<1>10. \A n \in 1..L : (v(T[n]) < v(K) <=> n <= c) /\ v(T[n]) \in Nat /\ v(K) \in Nat
  <2>1. \A n \in 1..L : T[n] \in 1..Len(ps)  BY <1>1, <1>2
  <2>2. c \in Nat /\ \A n \in 1..L : v(T[n]) < v(K) <=> n <= c  BY <1>1, <1>3
  <2>3. QED  BY <1>1, <2>1, <2>2
<1>11. \A n, m \in 1..M : n < m => v(T2[n]) < v(T2[m])
  <2> SUFFICES ASSUME NEW n \in 1..M, NEW m \in 1..M, n < m PROVE v(T2[n]) < v(T2[m])
    OBVIOUS
  <2>1. CASE n = low
    <3>1. m # low /\ m \in 1..L /\ n \in 1..L /\ T2[m] = T[m] /\ T2[n] = K
      <4>1. n # m  OBVIOUS
      <4>2. m # low  BY <2>1, <4>1
      <4>3. m \in 1..L /\ T2[m] = T[m]  BY <1>5, <4>2
      <4>4. T2[n] = K  BY <1>5, <2>1
      <4>5. L \in Nat  BY <1>2
      <4>6. n \in 1..L  BY <4>3, <4>5
      <4>7. QED  BY <4>2, <4>3, <4>4, <4>6
    <3>2. ~ (v(T[n]) < v(K)) /\ v(T[n]) < v(T[m])  BY <1>2, <1>3, <1>10, <2>1, <3>1
    <3>3. QED  BY <1>10, <3>1, <3>2
  <2>2. CASE m = low
    <3>1. n # low /\ n \in 1..L /\ T2[n] = T[n] /\ T2[m] = K /\ n <= c
      BY <1>5, <1>3, <2>2
    <3>2. QED  BY <1>10, <3>1
  <2>3. CASE n # low /\ m # low  BY <1>2, <1>5, <2>3
  <2>4. QED  BY <2>1, <2>2, <2>3
<1>12. \A j \in 1..K : v(T2[r2[j]]) <= v(j)
  <2> SUFFICES ASSUME NEW j \in 1..K PROVE v(T2[r2[j]]) <= v(j)  OBVIOUS
  <2>1. CASE j = K
    <3>1. T2[r2[j]] = K /\ v(K) \in Nat  BY <1>1, <1>5, <1>8, <2>1
    <3>2. QED  BY <2>1, <3>1
  <2>2. CASE j # K
    <3>1. j \in 1..k /\ r2[j] = r[j] /\ r[j] \in 1..L /\ v(T[r[j]]) <= v(j) /\ v(j) \in Nat
      BY <1>1, <1>2, <1>8, <2>2
    <3>2. CASE r[j] = low
      <4>1. T2[r2[j]] = K /\ ~ (v(T[r[j]]) < v(K))  BY <1>5, <1>3, <1>10, <3>1, <3>2
      <4>2. QED  BY <1>10, <3>1, <4>1
    <3>3. CASE r[j] # low
      <4>1. r[j] \in 1..M  BY <1>2, <1>5, <3>1
      <4>2. T2[r[j]] = T[r[j]]  BY <1>5, <3>3, <4>1
      <4>3. QED  BY <3>1, <4>2
    <3>4. QED  BY <3>2, <3>3
  <2>3. QED  BY <2>1, <2>2
<1>13. \A j \in 1..K : r2[j] = 1 => P2[j] = 0
  <2> SUFFICES ASSUME NEW j \in 1..K, r2[j] = 1 PROVE P2[j] = 0  OBVIOUS
  <2>1. CASE j = K  BY <1>7, <1>8, <2>1 DEF q
  <2>2. CASE j # K
    <3>1. j \in 1..k /\ r[j] = 1  BY <1>1, <1>8, <2>2
    <3>2. QED  BY <1>7, <3>1 DEF Sorted, P
  <2>3. QED  BY <2>1, <2>2
<1>14. \A j \in 1..K : r2[j] # 1 =>
         P2[j] \in 1..(j - 1) /\ r2[P2[j]] = r2[j] - 1 /\ v(P2[j]) < v(j)
  <2> SUFFICES ASSUME NEW j \in 1..K, r2[j] # 1
               PROVE  P2[j] \in 1..(j - 1) /\ r2[P2[j]] = r2[j] - 1 /\ v(P2[j]) < v(j)
    OBVIOUS
  <2>1. CASE j = K
    <3>1. q = T[c] /\ c \in 1..L /\ q \in 1..k /\ v(q) < v(K) /\ P2[j] = q /\ r2[j] = low
      BY <1>6, <1>7, <1>8, <2>1
    <3>2. r2[q] = r[q] /\ r[q] = c  BY <1>2, <1>8, <3>1
    <3>3. low - 1 = c /\ K - 1 = k  BY <1>3
    <3>4. QED  BY <2>1, <3>1, <3>2, <3>3
  <2>2. CASE j # K
    <3>1. j \in 1..k /\ r2[j] = r[j] /\ r[j] # 1 /\ P2[j] = P[j]  BY <1>1, <1>7, <1>8, <2>2
    <3>2. P[j] \in 1..(j - 1) /\ r[P[j]] = r[j] - 1 /\ v(P[j]) < v(j)
      BY <3>1 DEF Sorted, P, v
    <3>3. P[j] \in 1..k  BY <3>1, <3>2
    <3>4. r2[P[j]] = r[P[j]]  BY <1>8, <3>3
    <3>5. QED  BY <3>1, <3>2, <3>4
  <2>3. QED  BY <2>1, <2>2
<1>15. \A i, j \in 1..K : i < j /\ v(i) < v(j) => r2[i] < r2[j]
  <2> SUFFICES ASSUME NEW i \in 1..K, NEW j \in 1..K, i < j, v(i) < v(j)
               PROVE  r2[i] < r2[j]
    OBVIOUS
  <2>1. i \in 1..k /\ r2[i] = r[i] /\ r[i] \in 1..L  BY <1>1, <1>8
  <2>2. CASE j = K
    <3>1. v(T[r[i]]) <= v(i)  BY <1>2, <2>1
    <3>5. i \in 1..Len(ps) /\ v(i) \in Nat  BY <1>1, <2>1
    <3>6. v(T[r[i]]) \in Nat /\ v(K) \in Nat  BY <1>10, <2>1
    <3>2. v(T[r[i]]) < v(K)  BY <2>2, <3>1, <3>5, <3>6
    <3>3. r[i] <= c  BY <1>10, <2>1, <3>2
    <3>4. QED  BY <1>3, <1>8, <2>1, <2>2, <3>3
  <2>3. CASE j # K
    <3>1. j \in 1..k /\ r2[j] = r[j]  BY <1>1, <1>8, <2>3
    <3>2. QED  BY <2>1, <3>1 DEF Sorted, v
  <2>4. QED  BY <2>2, <2>3
<1>16. s2 = [tails |-> s2.tails, previous |-> s2.previous] /\ s2.tails = T2 /\ s2.previous = P2
  OBVIOUS
<1> HIDE DEF s2
<1>17. Sorted(ps, s2, K, r2)
  BY <1>5, <1>7, <1>8, <1>9, <1>11, <1>12, <1>13, <1>14, <1>15, <1>16 DEF Sorted, v
<1>18. QED  BY <1>4, <1>17

LEMMA PilesSorted ==
  ASSUME NEW ps \in Seq(Places)
  PROVE  \E r : Sorted(ps, Hunks!Piles(ps), Len(ps), r)
<1> DEFINE N == Len(ps)
           f == Hunks!PilesOfFirst(ps)
           S == {n \in Nat : n <= N => \E r : Sorted(ps, f[n], n, r)}
<1>1. /\ N \in Nat /\ f[0] = [tails |-> <<>>, previous |-> <<>>]
      /\ \A k \in 1..N : f[k] = Hunks!Place(ps, f[k - 1], k)
  BY PilesSteps
<1> HIDE DEF f
<1>2. 0 \in S
  <2> DEFINE s == [tails |-> <<>>, previous |-> <<>>]
             r == [j \in 1..0 |-> 0]
  <2>1. /\ s = [tails |-> s.tails, previous |-> s.previous] /\ 1..0 = {}
        /\ s.tails \in Seq(1..0) /\ Len(s.tails) = 0
        /\ s.previous \in Seq(0..0) /\ Len(s.previous) = 0
    OBVIOUS
  <2>2. r \in [1..0 -> 1..Len(s.tails)]  BY <2>1
  <2> HIDE DEF s, r
  <2>3. Sorted(ps, s, 0, r)  BY <2>1, <2>2 DEF Sorted
  <2>4. f[0] = s  BY <1>1 DEF s
  <2>5. QED  BY <2>3, <2>4
<1>3. ASSUME NEW n \in Nat, n \in S PROVE n + 1 \in S
  <2> SUFFICES ASSUME n + 1 <= N PROVE \E r : Sorted(ps, f[n + 1], n + 1, r)  OBVIOUS
  <2>1. n < N /\ n <= N /\ n + 1 \in 1..N /\ (n + 1) - 1 = n  BY <1>1
  <2>2. PICK r : Sorted(ps, f[n], n, r)  BY <1>3, <2>1
  <2>3. f[n + 1] = Hunks!Place(ps, f[n], n + 1)  BY <1>1, <2>1
  <2>4. \E r2 : Sorted(ps, Hunks!Place(ps, f[n], n + 1), n + 1, r2)
    BY <2>1, <2>2, PlaceSorts
  <2>5. QED  BY <2>3, <2>4
<1>4. N \in S
  <2> HIDE DEF S, N
  <2>1. QED  BY <1>1, <1>2, <1>3, Induct
<1>5. QED  BY <1>1, <1>4 DEF Hunks!Piles, f

\* Pairs whose lines follow each other in both texts.
Rising(x) ==
  \A n, m \in 1..Len(x) : n < m => x[n][1] < x[m][1] /\ x[n][2] < x[m][2]

\* A run of length r[k] that ends with pair k.
RunTo(ps, r, k, x) ==
  /\ x \in Seq(Places) /\ Len(x) = r[k] /\ Len(x) # 0 /\ x[Len(x)] = ps[k]
  /\ \A n \in 1..Len(x) : \E j \in 1..Len(ps) : x[n] = ps[j]
  /\ Rising(x)

LEMMA RunsSteps ==
  ASSUME NEW ps \in Seq(Places),
         NEW p, p = Hunks!Piles(ps).previous, p \in [1..Len(ps) -> Nat],
         \A k \in 1..Len(ps) : p[k] < k
  PROVE  LET f == Hunks!Runs(ps) IN
         /\ f \in [0..Len(ps) -> Seq(Places)] /\ f[0] = <<>>
         /\ \A k \in 1..Len(ps) : f[k] = Append(f[p[k]], ps[k])
<1> DEFINE N == Len(ps)
           X == Seq(Places)
           G == [k \in 1..N |-> [x \in X |-> Append(x, ps[k])]]
           Is(f) == f = [k \in 0..N |-> IF k = 0 THEN <<>> ELSE Append(f[p[k]], ps[k])]
<1>1. N \in Nat /\ <<>> \in X  OBVIOUS
<1>2. ASSUME NEW k \in 1..N, NEW x \in X PROVE Append(x, ps[k]) \in X
  <2>1. ps[k] \in Places  OBVIOUS
  <2>2. QED  BY <2>1
<1> HIDE DEF X
<1>3. G \in [1..N -> [X -> X]]  BY <1>2
<1>4. PICK f : Recurs(f, X, <<>>, N, p, G)
  <2>1. p \in [1..N -> Nat] /\ \A k \in 1..N : p[k] < k  OBVIOUS
  <2> HIDE DEF N, G
  <2>2. QED  BY <1>1, <1>3, <2>1, Recursion
<1>5. \A k \in 1..N : p[k] \in 0..(k - 1) /\ p[k] \in 0..N
  <2> SUFFICES ASSUME NEW k \in 1..N PROVE p[k] \in 0..(k - 1) /\ p[k] \in 0..N  OBVIOUS
  <2>1. p[k] \in Nat /\ p[k] < k  OBVIOUS
  <2>2. QED  BY <1>1, <2>1
<1>6. ASSUME NEW k \in 1..N PROVE f[k] = Append(f[p[k]], ps[k])
  <2>1. f[p[k]] \in X /\ f[k] = G[k][f[p[k]]]  BY <1>4, <1>5 DEF Recurs
  <2>2. QED  BY <2>1
<1>7. Is(f)
  <2>1. f = [k \in 0..N |-> f[k]] /\ f[0] = <<>>  BY <1>4 DEF Recurs
  <2>2. ASSUME NEW k \in 0..N
        PROVE  f[k] = IF k = 0 THEN <<>> ELSE Append(f[p[k]], ps[k])
    <3>1. CASE k = 0  BY <2>1, <3>1
    <3>2. CASE k # 0  BY <1>6, <3>2
    <3>3. QED  BY <3>1, <3>2
  <2> HIDE DEF N
  <2>3. QED  BY <2>1, <2>2
<1>8. Hunks!Runs(ps) = CHOOSE g : Is(g)  BY DEF Hunks!Runs
<1> DEFINE h == Hunks!Runs(ps)
<1>9. Is(h)
  <2> HIDE DEF Is
  <2>1. QED  BY <1>7, <1>8
<1> HIDE DEF h
<1>10. h = [k \in 0..N |-> h[k]] /\ h[0] = <<>> /\ \A k \in 1..N : h[k] = Append(h[p[k]], ps[k])
  <2> DEFINE e(k) == IF k = 0 THEN <<>> ELSE Append(h[p[k]], ps[k])
  <2>1. h = [k \in 0..N |-> e(k)]  BY <1>9
  <2>2. e(0) = <<>> /\ \A k \in 1..N : e(k) = Append(h[p[k]], ps[k])  BY <1>1
  <2> HIDE DEF e, N
  <2>3. 0 \in 0..N /\ \A k \in 1..N : k \in 0..N  BY <1>1
  <2>4. \A k \in 0..N : h[k] = e(k)  BY <2>1
  <2>5. h = [k \in 0..N |-> h[k]]  BY <2>1
  <2>6. h[0] = <<>>  BY <2>2, <2>3, <2>4
  <2>7. QED  BY <2>2, <2>3, <2>4, <2>5, <2>6
<1>11. \A k \in 0..N : h[k] \in X
  <2> DEFINE S == {n \in Nat : \A k \in 0..N : k <= n => h[k] \in X}
  <2>1. 0 \in S  BY <1>1, <1>10
  <2>2. ASSUME NEW n \in Nat, n \in S PROVE n + 1 \in S
    <3> SUFFICES ASSUME NEW k \in 0..N, k <= n + 1 PROVE h[k] \in X  OBVIOUS
    <3>1. CASE k = 0  BY <1>1, <1>10, <3>1
    <3>2. CASE k # 0
      <4>1. k \in 1..N /\ p[k] \in 0..N /\ p[k] <= n  BY <1>5, <3>2
      <4>2. h[p[k]] \in X  BY <2>2, <4>1
      <4>3. QED  BY <1>2, <1>10, <4>1, <4>2
    <3>3. QED  BY <3>1, <3>2
  <2>3. \A n \in Nat : n \in S
    <3> HIDE DEF S
    <3>1. QED  BY <2>1, <2>2, Induct
  <2>4. \A n \in Nat : \A k \in 0..N : k <= n => h[k] \in X  BY <2>3
  <2>5. N \in Nat /\ \A k \in 0..N : k <= N  BY <1>1
  <2> HIDE DEF S, N
  <2>6. QED  BY <2>4, <2>5
<1>12. h \in [0..N -> X]  BY <1>10, <1>11
<1>13. QED  BY <1>10, <1>12 DEF h, X

LEMMA RunExtends ==
  ASSUME NEW ps \in Seq(Places), NEW r, NEW q \in 1..Len(ps), NEW k \in 1..Len(ps),
         NEW x, RunTo(ps, r, q, x), r[q] = r[k] - 1, r[k] \in Nat,
         ps[q][1] < ps[k][1], ps[q][2] < ps[k][2]
  PROVE  RunTo(ps, r, k, Append(x, ps[k]))
<1> DEFINE y == Append(x, ps[k])
           L == Len(x)
<1>1. ps[k] \in Places /\ ps[q] \in Places  OBVIOUS
<1>2. /\ x \in Seq(Places) /\ L = r[q] /\ L # 0 /\ x[L] = ps[q]
      /\ \A n \in 1..L : \E j \in 1..Len(ps) : x[n] = ps[j]
      /\ \A n, m \in 1..L : n < m => x[n][1] < x[m][1] /\ x[n][2] < x[m][2]
  BY DEF RunTo, Rising
<1>3. /\ y \in Seq(Places) /\ Len(y) = L + 1 /\ L \in Nat /\ y[L + 1] = ps[k]
      /\ \A n \in 1..L : y[n] = x[n]
  BY <1>1, <1>2
<1> HIDE DEF y, L
<1>4. \A n \in 1..L : x[n] \in Places /\ x[n][1] < ps[k][1] /\ x[n][2] < ps[k][2]
  <2> SUFFICES ASSUME NEW n \in 1..L
               PROVE  x[n] \in Places /\ x[n][1] < ps[k][1] /\ x[n][2] < ps[k][2]
    OBVIOUS
  <2>1. x[n] \in Places  BY <1>2 DEF L
  <2>2. CASE n = L  BY <1>2, <2>1, <2>2
  <2>3. CASE n # L
    <3>4. L \in Nat  BY <1>3
    <3>1. L \in 1..L /\ n < L  BY <2>3, <3>4
    <3>2. x[n][1] < ps[q][1] /\ x[n][2] < ps[q][2]  BY <1>2, <3>1
    <3>3. QED  BY <1>1, <2>1, <3>2, SMTT(30) DEF Places
  <2>4. QED  BY <2>2, <2>3
<1>5. Rising(y)
  <2> SUFFICES ASSUME NEW n \in 1..Len(y), NEW m \in 1..Len(y), n < m
               PROVE  y[n][1] < y[m][1] /\ y[n][2] < y[m][2]
    BY DEF Rising
  <2>1. n \in 1..L  BY <1>3
  <2>2. CASE m = L + 1  BY <1>3, <1>4, <2>1, <2>2
  <2>3. CASE m # L + 1
    <3>1. m \in 1..L  BY <1>3, <2>3
    <3>2. QED  BY <1>2, <1>3, <2>1, <3>1
  <2>4. QED  BY <2>2, <2>3
<1>6. \A n \in 1..Len(y) : \E j \in 1..Len(ps) : y[n] = ps[j]
  <2> SUFFICES ASSUME NEW n \in 1..Len(y) PROVE \E j \in 1..Len(ps) : y[n] = ps[j]  OBVIOUS
  <2>1. CASE n = L + 1  BY <1>3, <2>1
  <2>2. CASE n # L + 1
    <3>1. n \in 1..L  BY <1>3, <2>2
    <3>2. QED  BY <1>2, <1>3, <3>1
  <2>3. QED  BY <2>1, <2>2
<1>7. Len(y) = r[k] /\ Len(y) # 0  BY <1>2, <1>3
<1>8. QED  BY <1>3, <1>5, <1>6, <1>7 DEF RunTo, y

LEMMA RunsRise ==
  ASSUME NEW ps \in Seq(Places), \A i, j \in 1..Len(ps) : i < j => ps[i][1] < ps[j][1],
         NEW r, Sorted(ps, Hunks!Piles(ps), Len(ps), r), NEW k \in 1..Len(ps)
  PROVE  RunTo(ps, r, k, Hunks!Runs(ps)[k])
<1> DEFINE N == Len(ps)
           p == Hunks!Piles(ps).previous
           f == Hunks!Runs(ps)
           S == {n \in Nat : \A m \in 1..N : m <= n => RunTo(ps, r, m, f[m])}
<1>1. N \in Nat  OBVIOUS
<1>2. \A m \in 1..N : /\ r[m] \in Nat /\ r[m] # 0
                      /\ r[m] = 1 => p[m] = 0
                      /\ r[m] # 1 => /\ p[m] \in 1..(m - 1) /\ r[p[m]] = r[m] - 1
                                     /\ ps[p[m]][2] < ps[m][2]
  <2>1. r \in [1..N -> 1..Len(Hunks!Piles(ps).tails)]  BY DEF Sorted
  <2>2. \A m \in 1..N : r[m] \in Nat /\ r[m] # 0  BY <2>1
  <2>3. QED  BY <2>2 DEF Sorted
<1>3. p \in [1..N -> Nat] /\ \A m \in 1..N : p[m] < m
  <2>1. p \in Seq(0..N) /\ Len(p) = N  BY DEF Sorted
  <2>2. \A m \in 1..N : p[m] \in Nat /\ p[m] < m  BY <1>2
  <2> HIDE DEF p
  <2>3. DOMAIN p = 1..N /\ p = [m \in 1..N |-> p[m]]  BY <2>1
  <2>4. QED  BY <2>2, <2>3
<1>4. f[0] = <<>> /\ \A m \in 1..N : f[m] = Append(f[p[m]], ps[m])
  <2> DEFINE g == Hunks!Piles(ps).previous
  <2>1. g \in [1..N -> Nat] /\ g = Hunks!Piles(ps).previous /\ \A m \in 1..N : g[m] < m  BY <1>3
  <2> HIDE DEF g
  <2>2. Hunks!Runs(ps)[0] = <<>> /\ \A m \in 1..N : Hunks!Runs(ps)[m] = Append(Hunks!Runs(ps)[g[m]], ps[m])
    BY <2>1, RunsSteps
  <2>3. QED  BY <2>2 DEF g
<1> HIDE DEF f, p
<1>5. 0 \in S  OBVIOUS
<1>6. ASSUME NEW n \in Nat, n \in S PROVE n + 1 \in S
  <2> SUFFICES ASSUME NEW m \in 1..N, m <= n + 1 PROVE RunTo(ps, r, m, f[m])  OBVIOUS
  <2>1. CASE r[m] = 1
    <3>1. f[m] = Append(<<>>, ps[m])  BY <1>2, <1>4, <2>1
    <3>2. ps[m] \in Places  OBVIOUS
    <3>3. /\ f[m] \in Seq(Places) /\ Len(f[m]) = 1 /\ f[m][1] = ps[m]
      BY <3>1, <3>2
    <3>4. Rising(f[m])  BY <3>3 DEF Rising
    <3>5. QED  BY <2>1, <3>3, <3>4 DEF RunTo
  <2>2. CASE r[m] # 1
    <3> DEFINE q == p[m]
    <3>1. q \in 1..(m - 1) /\ r[q] = r[m] - 1 /\ ps[q][2] < ps[m][2] /\ r[m] \in Nat
      BY <1>2, <2>2
    <3>2. q \in 1..N /\ q <= n /\ q < m  BY <3>1
    <3>3. ps[q][1] < ps[m][1]  BY <3>2
    <3>4. RunTo(ps, r, q, f[q])  BY <1>6, <3>2
    <3>5. f[m] = Append(f[q], ps[m])  BY <1>4
    <3> HIDE DEF q
    <3>6. RunTo(ps, r, m, Append(f[q], ps[m]))  BY <3>1, <3>2, <3>3, <3>4, RunExtends
    <3>7. QED  BY <3>5, <3>6
  <2>3. QED  BY <2>1, <2>2
<1>7. \A n \in Nat : n \in S
  <2> HIDE DEF S
  <2>1. QED  BY <1>5, <1>6, Induct
<1>8. QED  BY <1>1, <1>7 DEF f

\* The anchors are pairs in the order of both texts, and no such run is longer.
LEMMA AnchorsRise ==
  ASSUME NEW ps, NEW b, NEW a, Matched(ps, b, a, Len(b))
  PROVE  LET x == Hunks!LongestIncreasingAnchors(ps) IN
         /\ Matched(x, b, a, Len(b)) /\ Rising(x)
         /\ \A T \in SUBSET (1..Len(ps)) :
              (\A i, j \in T : i < j => ps[i][2] < ps[j][2]) => Cardinality(T) <= Len(x)
<1> DEFINE N == Len(ps)
           x == Hunks!LongestIncreasingAnchors(ps)
<1>1. ps \in Seq(Places) /\ N \in Nat /\ \A i, j \in 1..N : i < j => ps[i][1] < ps[j][1]
  BY SMTT(30) DEF Matched
<1>2. CASE N = 0
  <2>1. x = <<>>  BY <1>1, <1>2 DEF Hunks!LongestIncreasingAnchors
  <2>2. Matched(<<>>, b, a, Len(b)) /\ Rising(<<>>)  BY DEF Matched, Rising
  <2>3. \A T \in SUBSET (1..N) : T = {}  BY <1>2
  <2>4. Cardinality({}) = 0  BY FS_EmptySet
  <2>5. Len(x) = 0 /\ \A T \in SUBSET (1..N) : Cardinality(T) <= 0
    <3>1. Len(x) = 0  BY <2>1
    <3>2. ASSUME NEW T \in SUBSET (1..N) PROVE Cardinality(T) <= 0
      <4>1. T = {}  BY <2>3
      <4>2. QED  BY <2>4, <4>1
    <3>3. QED  BY <3>1, <3>2
  <2>6. Matched(x, b, a, Len(b)) /\ Rising(x)  BY <2>1, <2>2
  <2> HIDE DEF x
  <2>7. QED  BY <2>5, <2>6 DEF x
<1>3. CASE N # 0
  <2>1. PICK r : Sorted(ps, Hunks!Piles(ps), N, r)  BY <1>1, PilesSorted
  <2> DEFINE t == Hunks!Piles(ps).tails
             L == Len(t)
             e == t[L]
  <2>2. /\ t \in Seq(1..N) /\ L \in Nat /\ r \in [1..N -> 1..L]
        /\ \A n \in 1..L : t[n] \in 1..N /\ r[t[n]] = n
        /\ \A i, j \in 1..N : i < j /\ ps[i][2] < ps[j][2] => r[i] < r[j]
    BY <2>1 DEF Sorted
  <2>3. L \in 1..L /\ e \in 1..N /\ r[e] = L
    <3>1. 1 \in 1..N /\ r[1] \in 1..L  BY <1>1, <1>3, <2>2
    <3>2. L \in 1..L  BY <2>2, <3>1
    <3>3. QED  BY <2>2, <3>2
  <2>4. x = Hunks!Runs(ps)[e]  BY <1>1, <1>3 DEF Hunks!LongestIncreasingAnchors, Hunks!Last
  <2> HIDE DEF t, L, e, x
  <2>5. RunTo(ps, r, e, x)
    <3>1. RunTo(ps, r, e, Hunks!Runs(ps)[e])  BY <1>1, <2>1, <2>3, RunsRise
    <3>2. QED  BY <2>4, <3>1
  <2>6. Matched(x, b, a, Len(b)) /\ Rising(x)
    <3>1. Rising(x) /\ x \in Seq(Places) /\ \A n \in 1..Len(x) : \E j \in 1..N : x[n] = ps[j]
      BY <2>5 DEF RunTo
    <3>2. \A n \in 1..Len(x) : /\ x[n][1] \in 1..Len(b) /\ x[n][2] \in 1..Len(a)
                               /\ b[x[n][1]] = a[x[n][2]]
      BY <3>1 DEF Matched
    <3>3. QED  BY <3>1, <3>2 DEF Matched, Rising
  <2>7. ASSUME NEW T \in SUBSET (1..N), \A i, j \in T : i < j => ps[i][2] < ps[j][2]
        PROVE  Cardinality(T) <= L
    <3> DEFINE g == [i \in T |-> r[i]]
    <3>1. g \in [T -> 1..L]  BY <2>2
    <3>2. \A i, j \in T : g[i] = g[j] => i = j
      <4> SUFFICES ASSUME NEW i \in T, NEW j \in T, g[i] = g[j], i # j PROVE FALSE  OBVIOUS
      <4>1. i \in 1..N /\ j \in 1..N /\ r[i] = r[j] /\ r[i] \in Nat /\ r[j] \in Nat  BY <2>2
      <4>2. i < j \/ j < i  BY <4>1
      <4>3. r[i] < r[j] \/ r[j] < r[i]  BY <2>2, <2>7, <4>1, <4>2
      <4>4. QED  BY <4>1, <4>3
    <3>3. g \in Injection(T, 1..L)  BY <3>1, <3>2 DEF Injection, IsInjective
    <3>4. IsFiniteSet(1..L) /\ Cardinality(1..L) = L
      <4>1. 1 \in Int /\ L \in Int /\ L >= 1  BY <2>2, <2>3
      <4>2. IsFiniteSet(1..L) /\ Cardinality(1..L) = IF 1 > L THEN 0 ELSE L - 1 + 1
        BY <4>1, FS_Interval
      <4>3. QED  BY <4>1, <4>2
    <3> HIDE DEF g
    <3>5. QED  BY <3>3, <3>4, FS_Injection
  <2>8. Len(x) = L  BY <2>3, <2>5 DEF RunTo
  <2>9. QED  BY <2>6, <2>7, <2>8 DEF x
<1>4. QED  BY <1>2, <1>3

-----------------------------------------------------------------------------
\* Parts of texts.
LEMMA Part ==
  ASSUME NEW S, NEW t \in Seq(S), NEW i \in 0..Len(t), NEW j \in i..Len(t)
  PROVE  /\ SubSeq(t, i + 1, j) \in Seq(S) /\ Len(SubSeq(t, i + 1, j)) = j - i
         /\ \A n \in 1..(j - i) : SubSeq(t, i + 1, j)[n] = t[i + n]
<1>1. i \in Nat /\ j \in Nat /\ i <= j /\ j <= Len(t) /\ Len(t) \in Nat  OBVIOUS
<1> DEFINE m == i + 1
<1>2. m \in Int /\ j \in Int /\ \A n \in m..j : t[n] \in S  BY <1>1
<1> HIDE DEF m
<1>3. /\ SubSeq(t, m, j) \in Seq(S)
      /\ Len(SubSeq(t, m, j)) = IF m <= j THEN j - m + 1 ELSE 0
      /\ \A n \in 1..(j - m + 1) : SubSeq(t, m, j)[n] = t[m + n - 1]
  BY <1>2, SubSeqProperties
<1>4. j - m + 1 = j - i /\ (IF m <= j THEN j - m + 1 ELSE 0) = j - i  BY <1>1 DEF m
<1>5. \A n \in 1..(j - i) : m + n - 1 = i + n  BY <1>1 DEF m
<1>6. QED  BY <1>3, <1>4, <1>5 DEF m

LEMMA PartsJoin ==
  ASSUME NEW S, NEW t \in Seq(S), NEW i \in 0..Len(t), NEW j \in i..Len(t), NEW k \in j..Len(t)
  PROVE  SubSeq(t, i + 1, j) \o SubSeq(t, j + 1, k) = SubSeq(t, i + 1, k)
<1> DEFINE m == i + 1
<1>1. m \in 1..(Len(t) + 1) /\ j \in (m - 1)..Len(t)  OBVIOUS
<1> HIDE DEF m
<1>2. SubSeq(t, m, j) \o SubSeq(t, j + 1, k) = SubSeq(t, m, k)  BY <1>1, ConcatAdjacentSubSeq
<1>3. QED  BY <1>2 DEF m

\* After i lines of the one and j of the other, n lines are alike.
Alike(b, a, i, j, n) == \A m \in 1..n : b[i + m] = a[j + m]

LEMMA PartsEqual ==
  ASSUME NEW S, NEW t \in Seq(S), NEW u \in Seq(S), NEW i \in Nat, NEW j \in Nat, NEW n \in Nat,
         i + n <= Len(t), j + n <= Len(u), Alike(t, u, i, j, n)
  PROVE  SubSeq(t, i + 1, i + n) = SubSeq(u, j + 1, j + n)
<1> DEFINE x == SubSeq(t, i + 1, i + n)
           y == SubSeq(u, j + 1, j + n)
           k == i + n
           l == j + n
<1>1. i \in 0..Len(t) /\ k \in i..Len(t) /\ k - i = n /\ j \in 0..Len(u) /\ l \in j..Len(u) /\ l - j = n
  OBVIOUS
<1>2. x \in Seq(S) /\ Len(x) = n /\ \A m \in 1..n : x[m] = t[i + m]
  <2> HIDE DEF k
  <2>1. SubSeq(t, i + 1, k) \in Seq(S) /\ Len(SubSeq(t, i + 1, k)) = k - i
        /\ \A m \in 1..(k - i) : SubSeq(t, i + 1, k)[m] = t[i + m]
    BY <1>1, Part
  <2>2. QED  BY <1>1, <2>1 DEF k
<1>3. y \in Seq(S) /\ Len(y) = n /\ \A m \in 1..n : y[m] = u[j + m]
  <2> HIDE DEF l
  <2>1. SubSeq(u, j + 1, l) \in Seq(S) /\ Len(SubSeq(u, j + 1, l)) = l - j
        /\ \A m \in 1..(l - j) : SubSeq(u, j + 1, l)[m] = u[j + m]
    BY <1>1, Part
  <2>2. QED  BY <1>1, <2>1 DEF l
<1> HIDE DEF x, y
<1>4. Len(x) = Len(y) /\ \A m \in 1..Len(x) : x[m] = y[m]  BY <1>2, <1>3 DEF Alike
<1>5. x = y  BY <1>2, <1>3, <1>4, SeqEqual
<1>6. QED  BY <1>5 DEF x, y

Continued(S, t, f, z, e) ==
  /\ SubSeq(t, 1, f) \o z \in Seq(S) /\ Len(SubSeq(t, 1, f) \o z) = f + Len(z)
  /\ \A n \in 1..f : (SubSeq(t, 1, f) \o z)[n] = t[n]
  /\ SubSeq(SubSeq(t, 1, f) \o z, e + 1, f + Len(z)) = SubSeq(t, e + 1, f) \o z

LEMMA PartAfter ==
  ASSUME NEW S, NEW t \in Seq(S), NEW f \in 0..Len(t), NEW z \in Seq(S), NEW e \in 0..f
  PROVE  Continued(S, t, f, z, e)
<1> DEFINE x == SubSeq(t, 1, f)
           w == x \o z
           y == SubSeq(t, e + 1, f)
           L == f + Len(z)
<1>1. f \in Nat /\ e \in Nat /\ e <= f /\ f <= Len(t) /\ Len(z) \in Nat /\ Len(t) \in Nat
  OBVIOUS
<1>2. x \in Seq(S) /\ Len(x) = f /\ \A n \in 1..f : x[n] = t[n]
  <2>1. 0 \in 0..Len(t) /\ f \in 0..Len(t)  OBVIOUS
  <2>2. /\ SubSeq(t, 0 + 1, f) \in Seq(S) /\ Len(SubSeq(t, 0 + 1, f)) = f - 0
        /\ \A n \in 1..(f - 0) : SubSeq(t, 0 + 1, f)[n] = t[0 + n]
    BY <2>1, Part
  <2>3. 0 + 1 = 1 /\ f - 0 = f /\ \A n \in 1..f : 0 + n = n  BY <1>1
  <2>4. QED  BY <2>2, <2>3
<1>3. y \in Seq(S) /\ Len(y) = f - e /\ \A n \in 1..(f - e) : y[n] = t[e + n]
  <2>1. e \in 0..Len(t) /\ f \in e..Len(t)  BY <1>1
  <2>2. QED  BY <2>1, Part
<1> HIDE DEF x, y
<1>4. w \in Seq(S) /\ Len(w) = L
      /\ \A n \in 1..L : w[n] = IF n <= f THEN x[n] ELSE z[n - f]
  BY <1>2, ConcatProperties
<1>5. y \o z \in Seq(S) /\ Len(y \o z) = (f - e) + Len(z)
      /\ \A n \in 1..((f - e) + Len(z)) : (y \o z)[n] = IF n <= f - e THEN y[n] ELSE z[n - (f - e)]
  <2>1. y \o z \in Seq(S) /\ Len(y \o z) = Len(y) + Len(z)
        /\ \A n \in 1..(Len(y) + Len(z)) : (y \o z)[n] = IF n <= Len(y) THEN y[n] ELSE z[n - Len(y)]
    BY <1>3, ConcatProperties
  <2>2. QED  BY <1>3, <2>1
<1> HIDE DEF w
<1>6. \A n \in 1..f : w[n] = t[n]  BY <1>1, <1>2, <1>4
<1>7. /\ SubSeq(w, e + 1, L) \in Seq(S) /\ Len(SubSeq(w, e + 1, L)) = L - e
      /\ \A n \in 1..(L - e) : SubSeq(w, e + 1, L)[n] = w[e + n]
  <2>1. e \in 0..Len(w) /\ L \in e..Len(w)  BY <1>1, <1>4
  <2> HIDE DEF L
  <2>2. QED  BY <1>4, <2>1, Part
<1> DEFINE p == SubSeq(w, e + 1, L)
           q == y \o z
<1>8. Len(p) = Len(q)  BY <1>1, <1>5, <1>7
<1>9. ASSUME NEW n \in 1..Len(p) PROVE p[n] = q[n]
  <2>1. n \in Nat /\ n >= 1 /\ n <= L - e /\ L - e = (f - e) + Len(z) /\ L \in Nat
    BY <1>1, <1>7, <1>9
  <2>2. p[n] = w[e + n] /\ e + n \in 1..L  BY <1>1, <1>7, <2>1
  <2>3. CASE n <= f - e
    <3>1. e + n \in 1..f /\ n \in 1..(f - e) /\ n \in 1..((f - e) + Len(z))  BY <1>1, <2>1, <2>3
    <3>2. w[e + n] = t[e + n] /\ q[n] = y[n] /\ y[n] = t[e + n]  BY <1>3, <1>5, <1>6, <2>3, <3>1
    <3>3. QED  BY <2>2, <3>2
  <2>4. CASE ~ (n <= f - e)
    <3>1. ~ (e + n <= f) /\ n \in 1..((f - e) + Len(z)) /\ (e + n) - f = n - (f - e)
      BY <1>1, <2>1, <2>4
    <3>2. w[e + n] = z[(e + n) - f]  BY <1>4, <2>2, <3>1
    <3>3. q[n] = z[n - (f - e)]  BY <1>5, <2>4, <3>1
    <3>4. QED  BY <2>2, <3>1, <3>2, <3>3
  <2>5. QED  BY <2>3, <2>4
<1> HIDE DEF p, q
<1>10. p = q  BY <1>5, <1>7, <1>8, <1>9, SeqEqual DEF p, q
<1>11. QED  BY <1>4, <1>6, <1>10 DEF p, q, w, x, y, Continued

-----------------------------------------------------------------------------
\* The anchors with the ends of the texts.
Anchored(an, b, a) ==
  /\ an \in Seq(Places) /\ Len(an) >= 2
  /\ an[1] = <<0, 0>> /\ an[Len(an)] = <<Len(b) + 1, Len(a) + 1>>
  /\ Rising(an)
  /\ \A k \in 2..(Len(an) - 1) : b[an[k][1]] = a[an[k][2]]

LEMMA AnchorsAnchored ==
  ASSUME NEW b \in Text, NEW a \in Text
  PROVE  Anchored(Hunks!Anchors(b, a), b, a)
<1> DEFINE x == Hunks!LongestIncreasingAnchors(Hunks!Pairs(b, a))
           first == <<0, 0>>
           last == <<Len(b) + 1, Len(a) + 1>>
           L == Len(x)
           an == <<first>> \o x \o <<last>>
<1>1. Matched(x, b, a, Len(b)) /\ Rising(x)
  <2> DEFINE ps == Hunks!Pairs(b, a)
  <2>1. Matched(ps, b, a, Len(b))  BY PairsMatch
  <2> HIDE DEF ps
  <2>2. LET y == Hunks!LongestIncreasingAnchors(ps) IN Matched(y, b, a, Len(b)) /\ Rising(y)
    BY <2>1, AnchorsRise
  <2>3. QED  BY <2>2 DEF ps
<1>2. Hunks!Anchors(b, a) = an  BY DEF Hunks!Anchors
<1>3. Len(a) \in Nat /\ Len(b) \in Nat  BY DEF Text
<1> HIDE DEF x
<1>4. x \in Seq(Places) /\ L \in Nat
      /\ \A k \in 1..L : /\ x[k] \in Places /\ x[k][1] \in 1..Len(b) /\ x[k][2] \in 1..Len(a)
                         /\ b[x[k][1]] = a[x[k][2]]
      /\ \A n, m \in 1..L : n < m => x[n][1] < x[m][1] /\ x[n][2] < x[m][2]
  BY <1>1 DEF Matched, Rising
<1>5. first \in Places /\ last \in Places  BY <1>3 DEF Places
<1>6. /\ an \in Seq(Places) /\ Len(an) = L + 2 /\ an[1] = first /\ an[L + 2] = last
      /\ \A k \in 1..L : an[k + 1] = x[k]
  <2> HIDE DEF first, last
  <2> DEFINE y == <<first>> \o x
  <2>1. <<first>> \in Seq(Places) /\ Len(<<first>>) = 1 /\ <<first>>[1] = first  BY <1>5
  <2>2. <<last>> \in Seq(Places) /\ Len(<<last>>) = 1 /\ <<last>>[1] = last  BY <1>5
  <2>3. /\ y \in Seq(Places) /\ Len(y) = 1 + L
        /\ \A i \in 1..(1 + L) : y[i] = IF i <= 1 THEN <<first>>[i] ELSE x[i - 1]
    <3> DEFINE z == <<first>>
    <3>1. z \in Seq(Places) /\ Len(z) = 1  BY <2>1
    <3> HIDE DEF z
    <3>2. /\ z \o x \in Seq(Places) /\ Len(z \o x) = Len(z) + Len(x)
          /\ \A i \in 1..(Len(z) + Len(x)) : (z \o x)[i] = IF i <= Len(z) THEN z[i] ELSE x[i - Len(z)]
      BY <1>4, <3>1, ConcatProperties
    <3>3. QED  BY <3>1, <3>2 DEF z
  <2> HIDE DEF y
  <2>4. /\ y \o <<last>> \in Seq(Places) /\ Len(y \o <<last>>) = Len(y) + 1
        /\ \A i \in 1..(Len(y) + 1) : (y \o <<last>>)[i] = IF i <= Len(y) THEN y[i] ELSE <<last>>[i - Len(y)]
    <3> DEFINE z == <<last>>
    <3>1. z \in Seq(Places) /\ Len(z) = 1  BY <2>2
    <3> HIDE DEF z
    <3>2. /\ y \o z \in Seq(Places) /\ Len(y \o z) = Len(y) + Len(z)
          /\ \A i \in 1..(Len(y) + Len(z)) : (y \o z)[i] = IF i <= Len(y) THEN y[i] ELSE z[i - Len(y)]
      BY <2>3, <3>1, ConcatProperties
    <3>3. QED  BY <3>1, <3>2 DEF z
  <2>5. an = y \o <<last>>  BY DEF y
  <2> HIDE DEF an
  <2>6. an \in Seq(Places) /\ Len(an) = L + 2  BY <1>4, <2>3, <2>4, <2>5
  <2>7. an[1] = first  
    <3>1. 1 \in 1..(1 + L) /\ 1 \in 1..(Len(y) + 1) /\ 1 <= Len(y)  BY <1>4, <2>3
    <3>2. y[1] = first  BY <2>1, <2>3, <3>1
    <3>3. QED  BY <2>4, <2>5, <3>1, <3>2
  <2>8. an[L + 2] = last
    <3>1. L + 2 \in 1..(Len(y) + 1) /\ ~ (L + 2 <= Len(y)) /\ (L + 2) - Len(y) = 1  BY <1>4, <2>3
    <3>2. QED  BY <2>2, <2>4, <2>5, <3>1
  <2>9. ASSUME NEW k \in 1..L PROVE an[k + 1] = x[k]
    <3>1. k + 1 \in 1..(1 + L) /\ ~ (k + 1 <= 1) /\ (k + 1) - 1 = k /\ k + 1 <= Len(y)
          /\ k + 1 \in 1..(Len(y) + 1)
      BY <1>4, <2>3
    <3>2. QED  BY <2>3, <2>4, <2>5, <3>1
  <2>10. QED  BY <2>6, <2>7, <2>8, <2>9
<1> HIDE DEF an
<1>7. \A k \in 2..(L + 1) : k - 1 \in 1..L /\ an[k] = x[k - 1]
  <2> SUFFICES ASSUME NEW k \in 2..(L + 1) PROVE k - 1 \in 1..L /\ an[k] = x[k - 1]  OBVIOUS
  <2>1. k - 1 \in 1..L /\ (k - 1) + 1 = k  BY <1>4
  <2>2. QED  BY <1>6, <2>1
<1>8. first[1] = 0 /\ first[2] = 0 /\ last[1] = Len(b) + 1 /\ last[2] = Len(a) + 1  OBVIOUS
<1> HIDE DEF first, last
<1>9. Rising(an)
  <2> SUFFICES ASSUME NEW n \in 1..Len(an), NEW m \in 1..Len(an), n < m
               PROVE  an[n][1] < an[m][1] /\ an[n][2] < an[m][2]
    BY DEF Rising
  <2>1. n \in Nat /\ m \in Nat /\ n >= 1 /\ m <= L + 2 /\ L \in Nat  BY <1>4, <1>6
  <2>2. CASE n = 1 /\ m = L + 2  BY <1>3, <1>6, <1>8, <2>2
  <2>3. CASE n = 1 /\ m # L + 2
    <3>1. m \in 2..(L + 1)  BY <2>1, <2>3
    <3>2. m - 1 \in 1..L /\ an[m] = x[m - 1]  BY <1>7, <3>1
    <3>3. x[m - 1][1] \in 1..Len(b) /\ x[m - 1][2] \in 1..Len(a)  BY <1>4, <3>2
    <3> HIDE DEF first, last, an
    <3>4. an[n] = first /\ an[m] = x[m - 1]  BY <1>6, <2>3, <3>2
    <3>5. QED  BY <1>3, <1>8, <3>3, <3>4, SMTT(30)
  <2>4. CASE n # 1 /\ m = L + 2
    <3>1. n \in 2..(L + 1)  BY <2>1, <2>4
    <3>2. n - 1 \in 1..L /\ an[n] = x[n - 1]  BY <1>7, <3>1
    <3>3. x[n - 1][1] \in 1..Len(b) /\ x[n - 1][2] \in 1..Len(a)  BY <1>4, <3>2
    <3> HIDE DEF first, last, an
    <3>4. an[n] = x[n - 1] /\ an[m] = last  BY <1>6, <2>4, <3>2
    <3>5. QED  BY <1>3, <1>8, <3>3, <3>4, SMTT(30)
  <2>5. CASE n # 1 /\ m # L + 2
    <3>1. n \in 2..(L + 1) /\ m \in 2..(L + 1)  BY <2>1, <2>5
    <3>2. n - 1 \in 1..L /\ m - 1 \in 1..L /\ n - 1 < m - 1  BY <2>1, <3>1
    <3>3. an[n] = x[n - 1] /\ an[m] = x[m - 1]  BY <1>7, <3>1
    <3>4. QED  BY <1>4, <3>2, <3>3
  <2>6. QED  BY <2>2, <2>3, <2>4, <2>5
<1>10. \A k \in 2..(Len(an) - 1) : b[an[k][1]] = a[an[k][2]]
  <2> SUFFICES ASSUME NEW k \in 2..(Len(an) - 1) PROVE b[an[k][1]] = a[an[k][2]]  OBVIOUS
  <2>1. k \in 2..(L + 1)  BY <1>4, <1>6
  <2>2. k - 1 \in 1..L /\ an[k] = x[k - 1]  BY <1>7, <2>1
  <2>3. QED  BY <1>4, <2>2
<1>11. Len(an) >= 2  BY <1>4, <1>6
<1>12. QED  BY <1>2, <1>6, <1>9, <1>10, <1>11 DEF Anchored, first, last

-----------------------------------------------------------------------------
\* Hunks cut two texts: what lies between them is alike.
Hunk == [from : Nat, to : Nat, before : Text, after : Text,
         status : {"pending", "accepted", "rejected"}]

\* Where hunk k - 1 ends in the text before, and where hunk k begins in the text after,
\* when v[k] is where it ends there.
EndOf(hs, k) == IF k = 0 THEN 0 ELSE hs[k].to
StartOf(hs, v, k) == v[k - 1] + (hs[k].from - EndOf(hs, k - 1))

CutAt(hs, v, b, a, k) ==
  /\ EndOf(hs, k - 1) <= hs[k].from /\ hs[k].from <= hs[k].to
  /\ StartOf(hs, v, k) <= v[k]
  /\ hs[k].before = SubSeq(b, hs[k].from + 1, hs[k].to)
  /\ hs[k].after = SubSeq(a, StartOf(hs, v, k) + 1, v[k])
  /\ Alike(b, a, EndOf(hs, k - 1), v[k - 1], hs[k].from - EndOf(hs, k - 1))

\* The first i lines of the one and the first j lines of the other are cut.
Cut(hs, v, b, a, i, j) ==
  /\ hs \in Seq(Hunk) /\ v \in [0..Len(hs) -> Nat] /\ v[0] = 0
  /\ i \in 0..Len(b) /\ j \in 0..Len(a)
  /\ \A k \in 1..Len(hs) : hs[k].to <= i /\ v[k] <= j /\ CutAt(hs, v, b, a, k)
  /\ EndOf(hs, Len(hs)) <= i /\ v[Len(hs)] <= j
  /\ i - EndOf(hs, Len(hs)) = j - v[Len(hs)]
  /\ Alike(b, a, EndOf(hs, Len(hs)), v[Len(hs)], i - EndOf(hs, Len(hs)))

LEMMA EndIsNat ==
  ASSUME NEW hs \in Seq(Hunk), NEW k \in 0..Len(hs) PROVE EndOf(hs, k) \in Nat
<1>1. CASE k = 0  BY <1>1 DEF EndOf
<1>2. CASE k # 0
  <2>1. k \in 1..Len(hs)  BY <1>2
  <2>2. hs[k] \in Hunk  BY <2>1
  <2>3. QED  BY <1>2, <2>2 DEF EndOf, Hunk
<1>3. QED  BY <1>1, <1>2

LEMMA CutNothing ==
  ASSUME NEW b \in Text, NEW a \in Text
  PROVE  Cut(<<>>, [k \in 0..0 |-> 0], b, a, 0, 0)
<1> DEFINE v == [k \in 0..0 |-> 0]
<1>1. v \in [0..0 -> Nat] /\ v[0] = 0  OBVIOUS
<1>2. Len(a) \in Nat /\ Len(b) \in Nat /\ <<>> \in Seq(Hunk) /\ Len(<<>>) = 0  BY DEF Text
<1>3. EndOf(<<>>, 0) = 0  BY DEF EndOf
<1>4. Alike(b, a, 0, 0, 0)  BY DEF Alike
<1> HIDE DEF v
<1>5. Cut(<<>>, v, b, a, 0, 0)  BY <1>1, <1>2, <1>3, <1>4 DEF Cut
<1>6. QED  BY <1>5 DEF v

\* A line that is alike.
LEMMA CutLine ==
  ASSUME NEW b \in Text, NEW a \in Text, NEW hs, NEW v, NEW i, NEW j, Cut(hs, v, b, a, i, j),
         i < Len(b), j < Len(a), b[i + 1] = a[j + 1]
  PROVE  Cut(hs, v, b, a, i + 1, j + 1)
<1> DEFINE L == Len(hs)
           e == EndOf(hs, L)
           l == v[L]
<1>1. hs \in Seq(Hunk) /\ v \in [0..L -> Nat] /\ i \in Nat /\ j \in Nat /\ L \in Nat
  BY DEF Cut, Text
<1>2. Len(b) \in Nat /\ Len(a) \in Nat  BY DEF Text
<1>3. e \in Nat /\ l \in Nat  BY <1>1, EndIsNat
<1>4. e <= i /\ l <= j /\ i - e = j - l /\ Alike(b, a, e, l, i - e)  BY DEF Cut
<1> HIDE DEF e, l, L
<1>5. Alike(b, a, e, l, (i + 1) - e)
  <2> SUFFICES ASSUME NEW m \in 1..((i + 1) - e) PROVE b[e + m] = a[l + m]  BY DEF Alike
  <2>1. CASE m = (i + 1) - e
    <3>1. e + m = i + 1 /\ l + m = j + 1  BY <1>1, <1>3, <1>4, <2>1
    <3>2. QED  BY <3>1
  <2>2. CASE m # (i + 1) - e
    <3>1. m \in 1..(i - e)  BY <1>1, <1>3, <2>2
    <3>2. QED  BY <1>4, <3>1 DEF Alike
  <2>3. QED  BY <2>1, <2>2
<1>6. i + 1 \in 0..Len(b) /\ j + 1 \in 0..Len(a)  BY <1>1, <1>2
<1>7. e <= i + 1 /\ l <= j + 1 /\ (i + 1) - e = (j + 1) - l  BY <1>1, <1>3, <1>4
<1>8. \A k \in 1..L : hs[k].to <= i + 1 /\ v[k] <= j + 1 /\ CutAt(hs, v, b, a, k)
  <2> SUFFICES ASSUME NEW k \in 1..L
               PROVE  hs[k].to <= i + 1 /\ v[k] <= j + 1 /\ CutAt(hs, v, b, a, k)
    OBVIOUS
  <2>1. hs[k].to <= i /\ v[k] <= j /\ CutAt(hs, v, b, a, k)  BY DEF Cut, L
  <2>2. hs[k] \in Hunk /\ v[k] \in Nat  BY <1>1 DEF L
  <2>3. hs[k].to \in Nat  BY <2>2 DEF Hunk
  <2>4. QED  BY <1>1, <2>1, <2>2, <2>3, SMTT(30)
<1>9. v[0] = 0  BY DEF Cut
<1>10. QED  BY <1>1, <1>5, <1>6, <1>7, <1>8, <1>9 DEF Cut, e, l, L

\* A gap, and the hunk that holds it.
LEMMA CutGap ==
  ASSUME NEW b \in Text, NEW a \in Text, NEW hs, NEW v, NEW i, NEW j, Cut(hs, v, b, a, i, j),
         NEW i2 \in i..Len(b), NEW j2 \in j..Len(a), NEW h \in Hunk,
         h.from = i, h.to = i2,
         h.before = SubSeq(b, i + 1, i2), h.after = SubSeq(a, j + 1, j2)
  PROVE  \E w : Cut(Append(hs, h), w, b, a, i2, j2)
<1> DEFINE L == Len(hs)
           K == L + 1
           e == EndOf(hs, L)
           l == v[L]
           g == Append(hs, h)
           w == [k \in 0..K |-> IF k = K THEN j2 ELSE v[k]]
<1>1. hs \in Seq(Hunk) /\ v \in [0..L -> Nat] /\ i \in Nat /\ j \in Nat /\ L \in Nat /\ v[0] = 0
  BY DEF Cut, Text
<1>2. Len(b) \in Nat /\ Len(a) \in Nat  BY DEF Text
<1>3. e \in Nat /\ l \in Nat  BY <1>1, EndIsNat
<1>4. e <= i /\ l <= j /\ i - e = j - l /\ Alike(b, a, e, l, i - e)  BY DEF Cut
<1>5. i2 \in Nat /\ i <= i2 /\ i2 <= Len(b) /\ j2 \in Nat /\ j <= j2 /\ j2 <= Len(a)
  BY <1>1, <1>2
<1>6. g \in Seq(Hunk) /\ Len(g) = K /\ g[K] = h /\ \A k \in 1..L : g[k] = hs[k]
  BY <1>1
<1>7. /\ w \in [0..K -> Nat] /\ w[K] = j2 /\ w[0] = 0
      /\ \A k \in 0..L : w[k] = v[k]
  <2>1. \A k \in 0..K : k # K => k \in 0..L  BY <1>1
  <2>2. K \in 0..K /\ 0 \in 0..K /\ 0 # K /\ \A k \in 0..L : k \in 0..K /\ k # K  BY <1>1
  <2>3. 0 \in 0..L  BY <1>1
  <2> HIDE DEF K
  <2>4. QED  BY <1>1, <1>5, <2>1, <2>2, <2>3
<1> HIDE DEF g, w
<1>8. \A k \in 0..L : EndOf(g, k) = EndOf(hs, k)
  <2> SUFFICES ASSUME NEW k \in 0..L PROVE EndOf(g, k) = EndOf(hs, k)  OBVIOUS
  <2>1. CASE k = 0  BY <2>1 DEF EndOf
  <2>2. CASE k # 0
    <3>1. k \in 1..L  BY <2>2
    <3>2. QED  BY <1>6, <2>2, <3>1 DEF EndOf
  <2>3. QED  BY <2>1, <2>2
<1>9. EndOf(g, K) = i2  BY <1>1, <1>6 DEF EndOf
<1>10. ASSUME NEW k \in 1..K PROVE g[k].to <= i2 /\ w[k] <= j2 /\ CutAt(g, w, b, a, k)
  <2>1. CASE k = K
    <3>1. k - 1 = L /\ L \in 0..L  BY <1>1, <2>1
    <3>2. EndOf(g, k - 1) = e /\ w[k - 1] = l  BY <1>7, <1>8, <3>1
    <3>3. g[k] = h /\ w[k] = j2  BY <1>6, <1>7, <2>1
    <3> HIDE DEF e, l, L, K
    <3>4. StartOf(g, w, k) = j
      <4>1. StartOf(g, w, k) = l + (i - e)  BY <3>2, <3>3 DEF StartOf
      <4>2. l + (i - e) = j  BY <1>1, <1>3, <1>4
      <4>3. QED  BY <4>1, <4>2
    <3>5. CutAt(g, w, b, a, k)  BY <1>4, <1>5, <3>2, <3>3, <3>4 DEF CutAt
    <3>6. QED  BY <1>5, <3>3, <3>5
  <2>2. CASE k # K
    <3>1. k \in 1..L /\ k - 1 \in 0..L /\ k \in 0..L  BY <1>1, <2>2
    <3>2. hs[k].to <= i /\ v[k] <= j /\ CutAt(hs, v, b, a, k)  BY <3>1 DEF Cut
    <3>3. g[k] = hs[k] /\ w[k] = v[k] /\ w[k - 1] = v[k - 1] /\ EndOf(g, k - 1) = EndOf(hs, k - 1)
      BY <1>6, <1>7, <1>8, <3>1
    <3>4. StartOf(g, w, k) = StartOf(hs, v, k)  BY <3>3 DEF StartOf
    <3>5. CutAt(g, w, b, a, k)  BY <3>2, <3>3, <3>4 DEF CutAt
    <3>6. hs[k] \in Hunk /\ v[k] \in Nat  BY <1>1, <3>1
    <3>7. hs[k].to \in Nat  BY <3>6 DEF Hunk
    <3>8. g[k].to <= i2 /\ w[k] <= j2  BY <1>1, <1>5, <3>2, <3>3, <3>6, <3>7
    <3>9. QED  BY <3>5, <3>8
  <2>3. QED  BY <2>1, <2>2
<1>11. Alike(b, a, i2, j2, i2 - i2)
  <2>1. 1..(i2 - i2) = {}  BY <1>5
  <2>2. QED  BY <2>1 DEF Alike
<1>12. i2 \in 0..Len(b) /\ j2 \in 0..Len(a) /\ i2 - i2 = j2 - j2 /\ i2 <= i2 /\ j2 <= j2
  BY <1>2, <1>5
<1> HIDE DEF e, l, K
<1>13. Cut(g, w, b, a, i2, j2)  BY <1>6, <1>7, <1>9, <1>10, <1>11, <1>12 DEF Cut
<1>14. QED  BY <1>13 DEF g

LEMMA GapIsHunk ==
  ASSUME NEW b \in Text, NEW a \in Text, NEW x \in Places, NEW y \in Places,
         x[1] < y[1], x[2] < y[2], y[1] <= Len(b) + 1, y[2] <= Len(a) + 1
  PROVE  /\ Hunks!Gap(b, a, x, y) \in Hunk
         /\ y[1] - 1 \in x[1]..Len(b) /\ y[2] - 1 \in x[2]..Len(a)
<1> DEFINE i == x[1]
           j == x[2]
           i2 == y[1] - 1
           j2 == y[2] - 1
           h == [from |-> i, to |-> i2, before |-> SubSeq(b, i + 1, i2),
                 after |-> SubSeq(a, j + 1, j2), status |-> "pending"]
<1>1. x[1] \in Nat /\ x[2] \in Nat /\ y[1] \in Nat /\ y[2] \in Nat  BY DEF Places
<1>2. Len(a) \in Nat /\ Len(b) \in Nat  BY DEF Text
<1>3. i \in Nat /\ j \in Nat /\ i2 \in Nat /\ j2 \in Nat /\ i <= i2 /\ j <= j2
      /\ i2 <= Len(b) /\ j2 <= Len(a)
  BY <1>1, <1>2
<1>4. Hunks!Gap(b, a, x, y) = h  BY DEF Hunks!Gap
<1> HIDE DEF i, j, i2, j2
<1>5. SubSeq(b, i + 1, i2) \in Text
  <2>1. i \in 0..Len(b) /\ i2 \in i..Len(b)  BY <1>2, <1>3
  <2>2. QED  BY <2>1, Part DEF Text
<1>6. SubSeq(a, j + 1, j2) \in Text
  <2>1. j \in 0..Len(a) /\ j2 \in j..Len(a)  BY <1>2, <1>3
  <2>2. QED  BY <2>1, Part DEF Text
<1>7. h \in Hunk  BY <1>3, <1>5, <1>6 DEF Hunk
<1>8. i2 \in i..Len(b) /\ j2 \in j..Len(a)  BY <1>2, <1>3
<1>9. QED  BY <1>4, <1>7, <1>8 DEF i, j, i2, j2

\* Anchors one after the other.
LEMMA AnchoredSteps ==
  ASSUME NEW b \in Text, NEW a \in Text, NEW an, Anchored(an, b, a), NEW k \in 1..(Len(an) - 1)
  PROVE  /\ an[k] \in Places /\ an[k + 1] \in Places
         /\ an[k][1] < an[k + 1][1] /\ an[k][2] < an[k + 1][2]
         /\ an[k + 1][1] <= Len(b) + 1 /\ an[k + 1][2] <= Len(a) + 1
<1> DEFINE L == Len(an)
<1>1. an \in Seq(Places) /\ L \in Nat /\ L >= 2 /\ an[L] = <<Len(b) + 1, Len(a) + 1>>
      /\ \A n, m \in 1..L : n < m => an[n][1] < an[m][1] /\ an[n][2] < an[m][2]
  BY DEF Anchored, Rising
<1>2. k \in 1..L /\ k + 1 \in 1..L /\ k < k + 1 /\ L \in 1..L /\ k + 1 \in Nat  BY <1>1
<1>3. an[k] \in Places /\ an[k + 1] \in Places  BY <1>1, <1>2
<1>4. an[k][1] < an[k + 1][1] /\ an[k][2] < an[k + 1][2]  BY <1>1, <1>2
<1>5. an[k + 1][1] \in Nat /\ an[k + 1][2] \in Nat  BY <1>3 DEF Places
<1>6. Len(b) \in Nat /\ Len(a) \in Nat  BY DEF Text
<1>7. an[k + 1][1] <= Len(b) + 1 /\ an[k + 1][2] <= Len(a) + 1
  <2>1. CASE k + 1 = L  BY <1>1, <1>6, <2>1
  <2>2. CASE k + 1 # L
    <3>1. k + 1 < L  BY <1>1, <1>2, <2>2
    <3>2. an[k + 1][1] < an[L][1] /\ an[k + 1][2] < an[L][2]  BY <1>1, <1>2, <3>1
    <3>3. QED  BY <1>1, <1>5, <1>6, <3>2
  <2>3. QED  BY <2>1, <2>2
<1>8. QED  BY <1>3, <1>4, <1>7

LEMMA GapsSteps ==
  ASSUME NEW b \in Text, NEW a \in Text, NEW an, Anchored(an, b, a)
  PROVE  LET f == Hunks!GapsOfFirst(b, a, an)
             gap(k) == Hunks!Gap(b, a, an[k], an[k + 1])
             empty(k) == gap(k).before = <<>> /\ gap(k).after = <<>>
             N == Len(an) - 1 IN
         /\ f \in [0..N -> Seq(Hunk)] /\ f[0] = <<>>
         /\ \A k \in 1..N : f[k] = IF empty(k) THEN f[k - 1] ELSE Append(f[k - 1], gap(k))
<1> DEFINE N == Len(an) - 1
           X == Seq(Hunk)
           gap(k) == Hunks!Gap(b, a, an[k], an[k + 1])
           empty(k) == gap(k).before = <<>> /\ gap(k).after = <<>>
           step(k, x) == IF empty(k) THEN x ELSE Append(x, gap(k))
           G == [k \in 1..N |-> [x \in X |-> step(k, x)]]
           Is(f) == f = [k \in 0..N |-> IF k = 0 THEN <<>> ELSE step(k, f[k - 1])]
<1>1. N \in Nat /\ <<>> \in X  BY DEF Anchored
<1>2. ASSUME NEW k \in 1..N, NEW x \in X PROVE step(k, x) \in X
  <2>1. gap(k) \in Hunk
    <3>1. /\ an[k] \in Places /\ an[k + 1] \in Places
          /\ an[k][1] < an[k + 1][1] /\ an[k][2] < an[k + 1][2]
          /\ an[k + 1][1] <= Len(b) + 1 /\ an[k + 1][2] <= Len(a) + 1
      BY AnchoredSteps
    <3>2. QED  BY <3>1, GapIsHunk
  <2> HIDE DEF gap
  <2>2. Append(x, gap(k)) \in X  BY <2>1
  <2>3. QED  BY <2>2
<1> HIDE DEF X, step
<1>3. G \in [1..N -> [X -> X]]  BY <1>2
<1>4. PICK f : Stepwise(f, X, <<>>, N, G)
  <2> HIDE DEF N, G
  <2>1. QED  BY <1>1, <1>3, StepwiseRecursion
<1>5. ASSUME NEW k \in 1..N PROVE f[k] = step(k, f[k - 1])
  <2>1. f[k - 1] \in X /\ f[k] = G[k][f[k - 1]]
    <3>1. k - 1 \in 0..N  BY <1>1
    <3>2. QED  BY <1>4, <3>1 DEF Stepwise
  <2>2. QED  BY <2>1
<1>6. Is(f)
  <2>1. f = [k \in 0..N |-> f[k]] /\ f[0] = <<>>  BY <1>4 DEF Stepwise
  <2>2. ASSUME NEW k \in 0..N PROVE f[k] = IF k = 0 THEN <<>> ELSE step(k, f[k - 1])
    <3>1. CASE k = 0  BY <2>1, <3>1
    <3>2. CASE k # 0  BY <1>5, <3>2
    <3>3. QED  BY <3>1, <3>2
  <2> HIDE DEF N
  <2>3. QED  BY <2>1, <2>2
<1>7. Hunks!GapsOfFirst(b, a, an) = CHOOSE g : Is(g)  BY DEF Hunks!GapsOfFirst, step
<1> DEFINE h == Hunks!GapsOfFirst(b, a, an)
<1>8. Is(h)
  <2> HIDE DEF Is
  <2>1. QED  BY <1>6, <1>7
<1> HIDE DEF h
<1>9. QED
  <2>1. h = [k \in 0..N |-> h[k]] /\ h[0] = <<>> /\ \A k \in 1..N : h[k] = step(k, h[k - 1])
    <3> HIDE DEF N
    <3>1. QED  BY <1>1, <1>8
  <2>2. \A k \in 0..N : h[k] \in X
    <3> HIDE DEF N
    <3>1. QED  BY <1>1, <1>2, <2>1, StepwiseType
  <2>3. h \in [0..N -> X]  BY <2>1, <2>2
  <2>4. QED  BY <2>1, <2>3 DEF h, X, step

LEMMA GapStep ==
  ASSUME NEW b \in Text, NEW a \in Text, NEW an, Anchored(an, b, a), NEW k \in 1..(Len(an) - 1),
         NEW v, Cut(Hunks!GapsOfFirst(b, a, an)[k - 1], v, b, a, an[k][1], an[k][2])
  PROVE  \E w : Cut(Hunks!GapsOfFirst(b, a, an)[k], w, b, a, an[k + 1][1] - 1, an[k + 1][2] - 1)
<1> DEFINE f == Hunks!GapsOfFirst(b, a, an)
           h == Hunks!Gap(b, a, an[k], an[k + 1])
           x == an[k]
           y == an[k + 1]
           i2 == y[1] - 1
           j2 == y[2] - 1
<1>1. f[k] = IF h.before = <<>> /\ h.after = <<>> THEN f[k - 1] ELSE Append(f[k - 1], h)
  BY GapsSteps
<1>2. h = [from |-> x[1], to |-> i2, before |-> SubSeq(b, x[1] + 1, i2),
           after |-> SubSeq(a, x[2] + 1, j2), status |-> "pending"]
  BY DEF Hunks!Gap
<1>3. h \in Hunk /\ i2 \in x[1]..Len(b) /\ j2 \in x[2]..Len(a) /\ x \in Places
  <2>1. /\ x \in Places /\ y \in Places /\ x[1] < y[1] /\ x[2] < y[2]
        /\ y[1] <= Len(b) + 1 /\ y[2] <= Len(a) + 1
    BY AnchoredSteps
  <2> HIDE DEF x, y
  <2>2. Hunks!Gap(b, a, x, y) \in Hunk /\ y[1] - 1 \in x[1]..Len(b) /\ y[2] - 1 \in x[2]..Len(a)
    BY <2>1, GapIsHunk
  <2>3. QED  BY <2>1, <2>2 DEF x, y
<1> DEFINE i == x[1]
           j == x[2]
           hs == f[k - 1]
<1>4. Cut(hs, v, b, a, i, j)  OBVIOUS
<1>5. /\ h.from = i /\ h.to = i2
      /\ h.before = SubSeq(b, i + 1, i2) /\ h.after = SubSeq(a, j + 1, j2)
  <2> HIDE DEF h, i2, j2, x
  <2>1. QED  BY <1>2
<1>6. i \in Nat /\ j \in Nat /\ Len(b) \in Nat /\ Len(a) \in Nat  BY <1>3 DEF Places, Text
<1>7. h \in Hunk /\ i2 \in i..Len(b) /\ j2 \in j..Len(a)  BY <1>3
<1> SUFFICES \E w : Cut(f[k], w, b, a, i2, j2)  OBVIOUS
<1> HIDE DEF f, h, x, y, i, j, i2, j2, hs
<1>8. CASE h.before = <<>> /\ h.after = <<>>
  <2>1. i2 - i = 0 /\ j2 - j = 0
    <3>1. i \in 0..Len(b) /\ i2 \in i..Len(b) /\ j \in 0..Len(a) /\ j2 \in j..Len(a)
      BY <1>6, <1>7
    <3>2. Len(SubSeq(b, i + 1, i2)) = i2 - i /\ Len(SubSeq(a, j + 1, j2)) = j2 - j
      BY <3>1, Part DEF Text
    <3>3. h.before = SubSeq(b, i + 1, i2) /\ h.after = SubSeq(a, j + 1, j2)  BY <1>5
    <3>4. Len(h.before) = i2 - i /\ Len(h.after) = j2 - j  BY <3>2, <3>3
    <3>5. Len(h.before) = 0 /\ Len(h.after) = 0  BY <1>8
    <3>6. QED  BY <3>4, <3>5
  <2>2. i2 = i /\ j2 = j  BY <1>6, <1>7, <2>1
  <2>3. f[k] = hs  BY <1>1, <1>8 DEF hs
  <2>4. QED  BY <1>4, <2>2, <2>3
<1>9. CASE ~ (h.before = <<>> /\ h.after = <<>>)
  <2>1. f[k] = Append(hs, h)  BY <1>1, <1>9 DEF hs
  <2>2. \E w : Cut(Append(hs, h), w, b, a, i2, j2)  BY <1>4, <1>5, <1>7, CutGap
  <2>3. QED  BY <2>1, <2>2
<1>10. QED  BY <1>8, <1>9

LEMMA GapsCut ==
  ASSUME NEW b \in Text, NEW a \in Text, NEW an, Anchored(an, b, a)
  PROVE  \E v : Cut(Hunks!GapsOfFirst(b, a, an)[Len(an) - 1], v, b, a, Len(b), Len(a))
<1> DEFINE f == Hunks!GapsOfFirst(b, a, an)
           N == Len(an) - 1
           S == {n \in Nat : n + 1 <= N => \E v : Cut(f[n], v, b, a, an[n + 1][1], an[n + 1][2])}
<1>1. N \in Nat /\ N >= 1 /\ Len(an) = N + 1 /\ an[1] = <<0, 0>>
      /\ an[N + 1] = <<Len(b) + 1, Len(a) + 1>>
      /\ \A k \in 2..N : b[an[k][1]] = a[an[k][2]]
  BY DEF Anchored
<1>2. f[0] = <<>>  BY GapsSteps
<1>3. ASSUME NEW k \in 1..N, NEW v, Cut(f[k - 1], v, b, a, an[k][1], an[k][2])
      PROVE  \E w : Cut(f[k], w, b, a, an[k + 1][1] - 1, an[k + 1][2] - 1)
  BY <1>3, GapStep
<1> HIDE DEF f
<1>4. 0 \in S
  <2> DEFINE v == [k \in 0..0 |-> 0]
  <2>1. Cut(<<>>, v, b, a, 0, 0)  BY CutNothing
  <2> HIDE DEF v
  <2>2. an[0 + 1][1] = 0 /\ an[0 + 1][2] = 0  BY <1>1
  <2>3. Cut(f[0], v, b, a, an[0 + 1][1], an[0 + 1][2])  BY <1>2, <2>1, <2>2
  <2>4. QED  BY <2>3
<1>5. ASSUME NEW n \in Nat, n \in S PROVE n + 1 \in S
  <2> DEFINE k == n + 1
             m == k + 1
  <2> SUFFICES ASSUME m <= N PROVE \E v : Cut(f[k], v, b, a, an[m][1], an[m][2])
    OBVIOUS
  <2>1. k \in 1..N /\ m \in 2..N /\ k - 1 = n /\ m \in 1..N  BY <1>1
  <2>2. PICK v : Cut(f[n], v, b, a, an[k][1], an[k][2])  BY <1>1, <1>5, <2>1
  <2>3. PICK w : Cut(f[k], w, b, a, an[m][1] - 1, an[m][2] - 1)
    <3> HIDE DEF k, N
    <3>1. Cut(f[k - 1], v, b, a, an[k][1], an[k][2])  BY <2>1, <2>2
    <3>2. QED  BY <1>3, <2>1, <3>1
  <2> DEFINE i == an[m][1] - 1
             j == an[m][2] - 1
  <2>4. i \in Nat /\ j \in Nat /\ i + 1 = an[m][1] /\ j + 1 = an[m][2] /\ i < Len(b) /\ j < Len(a)
    <3>1. /\ an[k][1] < an[k + 1][1] /\ an[k][2] < an[k + 1][2] /\ an[k] \in Places /\ an[k + 1] \in Places
      <4>1. k \in 1..(Len(an) - 1)  BY <2>1
      <4> HIDE DEF k
      <4>2. QED  BY <4>1, AnchoredSteps
    <3>2. /\ an[m][1] < an[m + 1][1] /\ an[m][2] < an[m + 1][2] /\ an[m + 1] \in Places
          /\ an[m + 1][1] <= Len(b) + 1 /\ an[m + 1][2] <= Len(a) + 1
      <4>1. m \in 1..(Len(an) - 1)  BY <2>1
      <4> HIDE DEF m
      <4>2. QED  BY <4>1, AnchoredSteps
    <3> HIDE DEF k
    <3>3. an[k][1] \in Nat /\ an[k][2] \in Nat /\ an[m][1] \in Nat /\ an[m][2] \in Nat
          /\ an[m + 1][1] \in Nat /\ an[m + 1][2] \in Nat
      BY <3>1, <3>2 DEF Places
    <3>4. Len(b) \in Nat /\ Len(a) \in Nat  BY DEF Text
    <3> HIDE DEF m
    <3>5. an[k][1] < an[m][1] /\ an[k][2] < an[m][2]  BY <3>1 DEF m
    <3>6. an[m][1] >= 1 /\ an[m][2] >= 1  BY <3>3, <3>5
    <3>7. an[m][1] <= Len(b) /\ an[m][2] <= Len(a)  BY <3>2, <3>3, <3>4
    <3>8. QED  BY <3>3, <3>4, <3>6, <3>7, SMTT(30)
  <2>5. b[i + 1] = a[j + 1]  BY <1>1, <2>1, <2>4, SMTT(30)
  <2> HIDE DEF k, m
  <2>6. Cut(f[k], w, b, a, i, j)  BY <2>3
  <2> HIDE DEF i, j
  <2>7. Cut(f[k], w, b, a, i + 1, j + 1)  BY <2>4, <2>5, <2>6, CutLine
  <2>8. QED  BY <2>4, <2>7
<1>6. N - 1 \in S
  <2> HIDE DEF S
  <2>1. N - 1 \in Nat  BY <1>1
  <2>2. QED  BY <1>4, <1>5, <2>1, Induct
<1>7. PICK v : Cut(f[N - 1], v, b, a, an[N][1], an[N][2])
  <2>1. (N - 1) + 1 = N  BY <1>1
  <2> HIDE DEF N
  <2>2. QED  BY <1>6, <2>1
<1>8. PICK w : Cut(f[N], w, b, a, an[N + 1][1] - 1, an[N + 1][2] - 1)
  <2>1. N \in 1..N  BY <1>1
  <2> HIDE DEF N
  <2>2. QED  BY <1>3, <1>7, <2>1
<1>9. an[N + 1][1] - 1 = Len(b) /\ an[N + 1][2] - 1 = Len(a)
  <2>1. Len(b) \in Nat /\ Len(a) \in Nat  BY DEF Text
  <2>2. QED  BY <1>1, <2>1
<1>10. QED  BY <1>8, <1>9 DEF f

\* Lines that are all alike, and texts that share none.
LEMMA HunksCut ==
  ASSUME NEW b \in Text, NEW a \in Text
  PROVE  \E v : Cut(Hunks!BuildTextHunks(b, a), v, b, a, Len(b), Len(a))
<1> DEFINE an == Hunks!Anchors(b, a)
           gs == Hunks!GapsOfFirst(b, a, an)[Len(an) - 1]
           h == [from |-> 0, to |-> Len(b), before |-> b, after |-> a, status |-> "pending"]
           v0 == [k \in 0..0 |-> 0]
<1>1. Hunks!BuildTextHunks(b, a) = IF b = a THEN <<>> ELSE IF gs # <<>> THEN gs ELSE <<h>>
  BY DEF Hunks!BuildTextHunks
<1>2. Cut(<<>>, v0, b, a, 0, 0)  BY CutNothing
<1>3. Len(b) \in Nat /\ Len(a) \in Nat  BY DEF Text
<1>4. CASE b = a
  <2>1. v0 \in [0..Len(<<>>) -> Nat] /\ v0[0] = 0 /\ Len(<<>>) = 0 /\ <<>> \in Seq(Hunk)
    OBVIOUS
  <2>2. EndOf(<<>>, 0) = 0  BY DEF EndOf
  <2> HIDE DEF v0
  <2>3. Alike(b, a, 0, 0, Len(b) - 0)  BY <1>4 DEF Alike
  <2>4. Cut(<<>>, v0, b, a, Len(b), Len(a))  BY <1>3, <1>4, <2>1, <2>2, <2>3 DEF Cut
  <2>5. QED  BY <1>1, <1>4, <2>4
<1>5. CASE b # a /\ gs # <<>>
  <2>1. Anchored(an, b, a)  BY AnchorsAnchored
  <2>2. \E v : Cut(gs, v, b, a, Len(b), Len(a))
    <3> HIDE DEF an
    <3>1. QED  BY <2>1, GapsCut
  <2> HIDE DEF gs
  <2>3. QED  BY <1>1, <1>5, <2>2
<1>6. CASE b # a /\ gs = <<>>
  <2>1. h \in Hunk /\ h.from = 0 /\ h.to = Len(b) /\ h.before = b /\ h.after = a
    BY <1>3 DEF Hunk
  <2>2. SubSeq(b, 0 + 1, Len(b)) = b /\ SubSeq(a, 0 + 1, Len(a)) = a
    <3>1. SubSeq(b, 1, Len(b)) = b /\ SubSeq(a, 1, Len(a)) = a  BY SubSeqFull DEF Text
    <3>2. QED  BY <3>1
  <2>3. Len(b) \in 0..Len(b) /\ Len(a) \in 0..Len(a)  BY <1>3
  <2> HIDE DEF h, v0
  <2>4. \E w : Cut(Append(<<>>, h), w, b, a, Len(b), Len(a))
    BY <1>2, <2>1, <2>2, <2>3, CutGap
  <2>5. Append(<<>>, h) = <<h>>  OBVIOUS
  <2> HIDE DEF gs
  <2>6. QED  BY <1>1, <1>6, <2>4, <2>5
<1>7. QED  BY <1>4, <1>5, <1>6

-----------------------------------------------------------------------------
\* Putting the decisions back into the text before.
Putting == [valid : BOOLEAN, text : Text, cursor : Nat]

LEMMA PutTyped ==
  ASSUME NEW b \in Text, NEW s \in Putting, NEW h \in Hunk, h.from <= Len(b)
  PROVE  Hunks!Put(b, s, h) \in Putting
<1> DEFINE c == s.cursor + 1
           x == SubSeq(b, c, h.from)
           z == IF h.status = "accepted" THEN h.after ELSE h.before
           ok == /\ s.valid /\ h.from >= s.cursor /\ h.to >= h.from
                 /\ SubSeq(b, h.from + 1, h.to) = h.before
<1>1. s.text \in Text /\ s.cursor \in Nat /\ h.from \in Nat /\ h.to \in Nat /\ z \in Text
  BY DEF Putting, Hunk
<1>2. Len(b) \in Nat /\ \A i \in 1..Len(b) : b[i] \in Lines  BY DEF Text
<1>3. c \in Int /\ h.from \in Int /\ \A i \in c..h.from : b[i] \in Lines
  <2>1. \A i \in c..h.from : i \in 1..Len(b)  BY <1>1, <1>2
  <2>2. QED  BY <1>1, <1>2, <2>1
<1>4. Hunks!Put(b, s, h) = [valid |-> ok, text |-> s.text \o x \o z, cursor |-> h.to]
  BY DEF Hunks!Put
<1> HIDE DEF c, x, z
<1>5. x \in Text
  <2> DEFINE f == h.from
  <2>1. f \in Int /\ \A i \in c..f : b[i] \in Lines  BY <1>3
  <2> HIDE DEF f
  <2>2. SubSeq(b, c, f) \in Seq(Lines)  BY <1>3, <2>1, SubSeqProperties
  <2>3. QED  BY <2>2 DEF x, f, Text
<1>6. s.text \o x \o z \in Text  BY <1>1, <1>5 DEF Text
<1>7. ok \in BOOLEAN  BY Zenon
<1> HIDE DEF ok
<1>8. QED  BY <1>1, <1>4, <1>6, <1>7 DEF Putting

LEMMA PutSteps ==
  ASSUME NEW b \in Text, NEW hs \in Seq(Hunk), \A k \in 1..Len(hs) : hs[k].from <= Len(b)
  PROVE  LET f == Hunks!PutFirst(b, hs) IN
         /\ f \in [0..Len(hs) -> Putting] /\ f[0] = [valid |-> TRUE, text |-> <<>>, cursor |-> 0]
         /\ \A k \in 1..Len(hs) : f[k] = Hunks!Put(b, f[k - 1], hs[k])
<1> DEFINE N == Len(hs)
           X == Putting
           x0 == [valid |-> TRUE, text |-> <<>>, cursor |-> 0]
           step(k, x) == Hunks!Put(b, x, hs[k])
           G == [k \in 1..N |-> [x \in X |-> step(k, x)]]
           Is(f) == f = [k \in 0..N |-> IF k = 0 THEN x0 ELSE step(k, f[k - 1])]
<1>1. N \in Nat /\ x0 \in X  BY DEF Putting, Text
<1>2. ASSUME NEW k \in 1..N, NEW x \in X PROVE step(k, x) \in X
  <2>1. hs[k] \in Hunk /\ hs[k].from <= Len(b)  OBVIOUS
  <2>2. QED  BY <2>1, PutTyped
<1> HIDE DEF X, step, x0
<1>3. G \in [1..N -> [X -> X]]  BY <1>2
<1>4. PICK f : Stepwise(f, X, x0, N, G)
  <2> HIDE DEF N, G
  <2>1. QED  BY <1>1, <1>3, StepwiseRecursion
<1>5. ASSUME NEW k \in 1..N PROVE f[k] = step(k, f[k - 1])
  <2>1. f[k - 1] \in X /\ f[k] = G[k][f[k - 1]]  BY <1>4, SMTT(30) DEF Stepwise
  <2>2. QED  BY <2>1
<1>6. Is(f)
  <2>1. f = [k \in 0..N |-> f[k]] /\ f[0] = x0  BY <1>4 DEF Stepwise
  <2>2. ASSUME NEW k \in 0..N PROVE f[k] = IF k = 0 THEN x0 ELSE step(k, f[k - 1])
    <3>1. CASE k = 0  BY <2>1, <3>1
    <3>2. CASE k # 0  BY <1>5, <3>2
    <3>3. QED  BY <3>1, <3>2
  <2> HIDE DEF N
  <2>3. QED  BY <2>1, <2>2
<1>7. Hunks!PutFirst(b, hs) = CHOOSE g : Is(g)  BY DEF Hunks!PutFirst, step, x0
<1> DEFINE h == Hunks!PutFirst(b, hs)
<1>8. Is(h)
  <2> HIDE DEF Is
  <2>1. QED  BY <1>6, <1>7
<1> HIDE DEF h
<1>9. QED
  <2>1. h = [k \in 0..N |-> h[k]] /\ h[0] = x0 /\ \A k \in 1..N : h[k] = step(k, h[k - 1])
    BY <1>1, <1>8
  <2>2. \A k \in 0..N : h[k] \in X  BY <1>1, <1>2, <2>1, StepwiseType
  <2>3. h \in [0..N -> X]  BY <2>1, <2>2
  <2>4. QED  BY <2>1, <2>3 DEF h, X, x0, step

\* What Cut says of each hunk.
Fits(b, hs, k) ==
  LET e == EndOf(hs, k - 1) IN
  /\ hs[k] \in Hunk /\ e \in Nat /\ hs[k].from \in Nat /\ hs[k].to \in Nat
  /\ e <= hs[k].from /\ hs[k].from <= hs[k].to /\ hs[k].to <= Len(b)
  /\ EndOf(hs, k) = hs[k].to /\ Len(b) \in Nat
  /\ hs[k].before = SubSeq(b, hs[k].from + 1, hs[k].to)
  /\ hs[k].before \in Text /\ hs[k].after \in Text

LEMMA CutFacts ==
  ASSUME NEW b \in Text, NEW a \in Text, NEW hs, NEW v, Cut(hs, v, b, a, Len(b), Len(a))
  PROVE  \A k \in 1..Len(hs) : Fits(b, hs, k)
<1> SUFFICES ASSUME NEW k \in 1..Len(hs) PROVE Fits(b, hs, k)  OBVIOUS
<1>1. hs \in Seq(Hunk) /\ hs[k].to <= Len(b) /\ CutAt(hs, v, b, a, k)  BY DEF Cut
<1>2. hs[k] \in Hunk /\ k # 0  BY <1>1
<1>3. k - 1 \in 0..Len(hs)  BY <1>1
<1>4. EndOf(hs, k - 1) \in Nat  BY <1>1, <1>3, EndIsNat
<1>5. EndOf(hs, k) = hs[k].to  BY <1>2 DEF EndOf
<1>6. Len(b) \in Nat  BY DEF Text
<1>7. /\ hs[k].from \in Nat /\ hs[k].to \in Nat /\ hs[k].before \in Text /\ hs[k].after \in Text
  BY <1>2 DEF Hunk
<1>8. QED  BY <1>1, <1>2, <1>4, <1>5, <1>6, <1>7 DEF CutAt, Fits

AllAccepted(hs, n) == \A i \in 1..n : hs[i].status = "accepted"

\* What is put after the first k hunks.
PutsWell(b, hs, a, v, k) ==
  LET s == Hunks!PutFirst(b, hs)[k] IN
  /\ s \in Putting /\ s.valid = TRUE /\ s.cursor = EndOf(hs, k)
  /\ (AllAccepted(hs, k) => s.text = SubSeq(a, 1, v[k]))

LEMMA PutsAreValid ==
  ASSUME NEW b \in Text, NEW a \in Text, NEW hs, NEW v, Cut(hs, v, b, a, Len(b), Len(a)),
         NEW k \in 0..Len(hs)
  PROVE  PutsWell(b, hs, a, v, k)
<1> DEFINE N == Len(hs)
           f == Hunks!PutFirst(b, hs)
           All(n) == AllAccepted(hs, n)
           OK(n) == /\ f[n].valid = TRUE /\ f[n].cursor = EndOf(hs, n)
                    /\ (All(n) => f[n].text = SubSeq(a, 1, v[n]))
           S == {n \in Nat : n <= N => OK(n)}
<1>1. hs \in Seq(Hunk) /\ N \in Nat /\ v \in [0..N -> Nat] /\ v[0] = 0  BY DEF Cut
<1>2. \A n \in 1..N : hs[n].from <= Len(b)
  <2> SUFFICES ASSUME NEW n \in 1..N PROVE hs[n].from <= Len(b)  OBVIOUS
  <2>1. hs[n].from \in Nat /\ hs[n].to \in Nat /\ hs[n].from <= hs[n].to /\ hs[n].to <= Len(b)
        /\ Len(b) \in Nat
    <3>1. Fits(b, hs, n)  BY CutFacts
    <3>2. QED  BY <3>1 DEF Fits
  <2>2. QED  BY <2>1
<1>3. /\ f \in [0..N -> Putting] /\ f[0] = [valid |-> TRUE, text |-> <<>>, cursor |-> 0]
      /\ \A n \in 1..N : f[n] = Hunks!Put(b, f[n - 1], hs[n])
  BY <1>1, <1>2, PutSteps
<1> HIDE DEF f
<1>4. 0 \in S
  <2>1. SubSeq(a, 1, v[0]) = <<>>  BY <1>1
  <2>2. EndOf(hs, 0) = 0  BY DEF EndOf
  <2>3. f[0].valid = TRUE /\ f[0].cursor = 0 /\ f[0].text = <<>>  BY <1>3
  <2>4. OK(0)
    <3> HIDE DEF All
    <3>1. QED  BY <2>1, <2>2, <2>3
  <2> HIDE DEF OK
  <2>5. QED  BY <2>4
<1>5. ASSUME NEW n \in Nat, n \in S PROVE n + 1 \in S
  <2> HIDE DEF OK
  <2> SUFFICES ASSUME n + 1 <= N PROVE OK(n + 1)  OBVIOUS
  <2> USE DEF OK
  <2> DEFINE m == n + 1
             h == hs[m]
             s == f[n]
             e == EndOf(hs, n)
             z == IF h.status = "accepted" THEN h.after ELSE h.before
  <2>1. m \in 1..N /\ m - 1 = n /\ n \in 0..N /\ m \in 0..N  BY <1>1
  <2>2. s \in Putting /\ s.valid = TRUE /\ s.cursor = e /\ (All(n) => s.text = SubSeq(a, 1, v[n]))
    BY <1>3, <1>5, <2>1
  <2>3. f[m] = Hunks!Put(b, s, h)  BY <1>3, <2>1
  <2>4. /\ h \in Hunk /\ e \in Nat /\ h.from \in Nat /\ h.to \in Nat
        /\ e <= h.from /\ h.from <= h.to /\ h.to <= Len(b)
        /\ EndOf(hs, m) = h.to /\ Len(b) \in Nat
        /\ h.before = SubSeq(b, h.from + 1, h.to)
    <3>1. LET d == EndOf(hs, m - 1) IN
          /\ hs[m] \in Hunk /\ d \in Nat /\ hs[m].from \in Nat /\ hs[m].to \in Nat
          /\ d <= hs[m].from /\ hs[m].from <= hs[m].to /\ hs[m].to <= Len(b)
          /\ EndOf(hs, m) = hs[m].to /\ Len(b) \in Nat
          /\ hs[m].before = SubSeq(b, hs[m].from + 1, hs[m].to)
      <4> HIDE DEF m
      <4>1. Fits(b, hs, m)  BY <2>1, CutFacts
      <4>2. QED  BY <4>1 DEF Fits
    <3>2. QED  BY <2>1, <3>1
  <2> HIDE DEF s, h, e, m
  <2>5. /\ Hunks!Put(b, s, h).valid = (/\ s.valid /\ h.from >= s.cursor /\ h.to >= h.from
                                       /\ SubSeq(b, h.from + 1, h.to) = h.before)
        /\ Hunks!Put(b, s, h).text = s.text \o SubSeq(b, s.cursor + 1, h.from) \o z
        /\ Hunks!Put(b, s, h).cursor = h.to
    BY Zenon DEF Hunks!Put
  <2>6. f[m].valid = TRUE
    <3>1. h.from >= s.cursor /\ h.to >= h.from /\ SubSeq(b, h.from + 1, h.to) = h.before
      BY <2>2, <2>4
    <3>2. QED  BY <2>2, <2>3, <2>5, <3>1
  <2>7. f[m].cursor = EndOf(hs, m)  BY <2>3, <2>4, <2>5
  <2>8. ASSUME All(m) PROVE f[m].text = SubSeq(a, 1, v[m])
    <3> DEFINE st == StartOf(hs, v, m)
               l == v[n]
    <3>1. All(n) /\ h.status = "accepted"
      <4>1. h.status = "accepted"  BY <2>1, <2>8 DEF h, AllAccepted
      <4>2. \A i \in 1..n : i \in 1..m  BY <2>1 DEF m
      <4>3. QED  BY <2>8, <4>1, <4>2 DEF AllAccepted
    <3>2. s.text = SubSeq(a, 1, l) /\ z = h.after  BY <2>2, <3>1
    <3>3. /\ h.after = SubSeq(a, st + 1, v[m]) /\ st <= v[m] /\ v[m] <= Len(a)
          /\ st = l + (h.from - e) /\ Alike(b, a, e, l, h.from - e)
      <4>1. CutAt(hs, v, b, a, m) /\ v[m] <= Len(a)  BY <2>1 DEF Cut
      <4>2. QED  BY <2>1, <4>1 DEF CutAt, h, e, StartOf
    <3>4. l \in Nat /\ v[m] \in Nat /\ Len(a) \in Nat  BY <1>1, <2>1, SMTT(30) DEF Text
    <3> HIDE DEF st, l, z
    <3> DEFINE d == h.from - e
    <3>5. d \in Nat /\ e + d = h.from /\ l + d = st /\ st \in Nat /\ l <= st /\ st <= Len(a)
          /\ h.from <= Len(b)
      <4>1. d \in Nat /\ e + d = h.from /\ h.from <= Len(b)  BY <2>4
      <4> HIDE DEF d
      <4>2. st = l + d  BY <3>3 DEF d
      <4>3. QED  BY <3>3, <3>4, <4>1, <4>2
    <3> HIDE DEF d
    <3>6. SubSeq(b, e + 1, e + d) = SubSeq(a, l + 1, l + d)
      <4>1. Alike(b, a, e, l, d)  BY <3>3 DEF d
      <4>2. e + d <= Len(b) /\ l + d <= Len(a)  BY <3>5
      <4>3. /\ b \in Seq(Lines) /\ a \in Seq(Lines) /\ e \in Nat /\ l \in Nat /\ d \in Nat
        BY <2>4, <3>4, <3>5 DEF Text
      <4>4. QED  BY <4>1, <4>2, <4>3, PartsEqual
    <3>7. f[m].text = SubSeq(a, 1, l) \o SubSeq(a, l + 1, st) \o SubSeq(a, st + 1, v[m])
      BY <2>2, <2>3, <2>5, <3>2, <3>3, <3>5, <3>6
    <3>8. SubSeq(a, 1, l) \o SubSeq(a, l + 1, st) = SubSeq(a, 1, st)
      <4>1. 0 \in 0..Len(a) /\ l \in 0..Len(a) /\ st \in l..Len(a)  BY <3>4, <3>5
      <4>2. SubSeq(a, 0 + 1, l) \o SubSeq(a, l + 1, st) = SubSeq(a, 0 + 1, st)
        BY <4>1, PartsJoin DEF Text
      <4>3. 0 + 1 = 1  OBVIOUS
      <4>4. QED  BY <4>2, <4>3
    <3>9. SubSeq(a, 1, st) \o SubSeq(a, st + 1, v[m]) = SubSeq(a, 1, v[m])
      <4> DEFINE w == v[m]
      <4>1. 0 \in 0..Len(a) /\ st \in 0..Len(a) /\ w \in st..Len(a)  BY <3>3, <3>4, <3>5
      <4> HIDE DEF w
      <4>2. SubSeq(a, 0 + 1, st) \o SubSeq(a, st + 1, w) = SubSeq(a, 0 + 1, w)
        BY <4>1, PartsJoin DEF Text
      <4>3. 0 + 1 = 1  OBVIOUS
      <4>4. QED  BY <4>2, <4>3 DEF w
    <3>10. QED  BY <3>7, <3>8, <3>9
  <2>9. OK(m)
    <3> HIDE DEF All
    <3>1. QED  BY <2>6, <2>7, <2>8
  <2> HIDE DEF OK
  <2>10. QED  BY <2>9 DEF m
<1>6. \A n \in Nat : n \in S
  <2> HIDE DEF S
  <2>1. QED  BY <1>4, <1>5, Induct
<1>7. k \in Nat /\ k <= N  BY <1>1
<1>8. OK(k)  BY <1>6, <1>7
<1>9. f[k] \in Putting  BY <1>3
<1>10. QED  BY <1>8, <1>9 DEF f, PutsWell

\* Replacing the last hunk that is left, with e lines before the gap it holds.
LEMMA ReplaceFits ==
  ASSUME NEW b \in Text, NEW x \in Text, NEW h \in Hunk, NEW e \in Nat,
         e <= h.from, h.from <= h.to, h.to <= Len(x), h.to <= Len(b),
         Alike(x, b, 0, 0, h.to), h.before = SubSeq(b, h.from + 1, h.to)
  PROVE  LET y == Hunks!Replace(x, h)
             z == IF h.status = "accepted" THEN h.after ELSE h.before IN
         /\ y \in Text /\ e <= Len(y) /\ Alike(y, b, 0, 0, e)
         /\ SubSeq(y, e + 1, Len(y))
              = (SubSeq(b, e + 1, h.from) \o z) \o SubSeq(x, h.to + 1, Len(x))
<1> DEFINE f == h.from
           t == h.to
           L == Len(x)
           y == Hunks!Replace(x, h)
           z == IF h.status = "accepted" THEN h.after ELSE h.before
           r == SubSeq(x, t + 1, L)
           p == SubSeq(b, e + 1, f)
<1>1. f \in Nat /\ t \in Nat /\ h.before \in Text /\ h.after \in Text  BY DEF Hunk
<1>2. L \in Nat /\ Len(b) \in Nat /\ x \in Seq(Lines) /\ b \in Seq(Lines)  BY DEF Text
<1>3. e <= f /\ f <= t /\ t <= L /\ t <= Len(b) /\ h.before = SubSeq(b, f + 1, t)  OBVIOUS
<1>4. \A i \in 1..t : x[i] = b[i]
  <2>1. \A i \in 1..t : x[0 + i] = b[0 + i]  BY DEF Alike
  <2>2. \A i \in 1..t : 0 + i = i  BY <1>1
  <2> HIDE DEF t
  <2>3. QED  BY <2>1, <2>2
<1> HIDE DEF f, t, L
<1>5. r \in Seq(Lines)
  <2>1. t \in 0..Len(x) /\ L \in t..Len(x)  BY <1>1, <1>2, <1>3 DEF L
  <2>2. QED  BY <1>2, <2>1, Part
<1>6. p = SubSeq(x, e + 1, f)
  <2> DEFINE d == f - e
  <2>1. d \in Nat /\ e + d = f /\ e + d <= Len(x) /\ e + d <= Len(b)  BY <1>1, <1>2, <1>3 DEF L
  <2>2. Alike(b, x, e, e, d)
    <3> SUFFICES ASSUME NEW m \in 1..d PROVE b[e + m] = x[e + m]  BY DEF Alike
    <3>1. e + m \in 1..t  BY <1>1, <1>3, <2>1
    <3>2. QED  BY <1>4, <3>1
  <2> HIDE DEF d
  <2>3. SubSeq(b, e + 1, e + d) = SubSeq(x, e + 1, e + d)  BY <1>2, <2>1, <2>2, PartsEqual
  <2>4. QED  BY <2>1, <2>3
<1>7. CASE h.status = "accepted"
  <2> DEFINE w == h.after \o r
             q == SubSeq(x, 1, f)
  <2>1. w \in Seq(Lines) /\ Len(w) \in Nat  BY <1>1, <1>5 DEF Text
  <2>2. y = (q \o h.after) \o r  BY <1>7 DEF Hunks!Replace, f, t, L
  <2>3. q \in Seq(Lines) /\ h.after \in Seq(Lines) /\ p \in Seq(Lines)
    <3>1. 0 \in 0..Len(x) /\ f \in 0..Len(x) /\ e \in 0..Len(x) /\ f \in e..Len(x)
      BY <1>1, <1>2, <1>3 DEF L
    <3>2. SubSeq(x, 0 + 1, f) \in Seq(Lines) /\ SubSeq(x, e + 1, f) \in Seq(Lines)
      BY <1>2, <3>1, Part
    <3>3. 0 + 1 = 1  OBVIOUS
    <3>4. QED  BY <1>1, <1>6, <3>2, <3>3 DEF Text
  <2> HIDE DEF q, r, p, y
  <2>4. (q \o h.after) \o r = q \o w /\ (p \o h.after) \o r = p \o w
    <3> DEFINE n == h.after
    <3>1. n \in Seq(Lines) /\ w = n \o r  BY <2>3
    <3> HIDE DEF n, w
    <3>2. (q \o n) \o r = q \o (n \o r)
      BY <1>5, <2>3, <3>1, ConcatAssociative, SMTT(60)
    <3>3. (p \o n) \o r = p \o (n \o r)
      BY <1>5, <2>3, <3>1, ConcatAssociative, SMTT(60)
    <3>4. QED  BY <3>1, <3>2, <3>3 DEF n
  <2> HIDE DEF w
  <2>5. y = q \o w  BY <2>2, <2>4
  <2>6. /\ q \o w \in Seq(Lines) /\ Len(q \o w) = f + Len(w)
        /\ \A n \in 1..f : (q \o w)[n] = x[n]
        /\ SubSeq(q \o w, e + 1, f + Len(w)) = SubSeq(x, e + 1, f) \o w
    <3>1. f \in 0..Len(x) /\ e \in 0..f  BY <1>1, <1>2, <1>3 DEF L
    <3>2. /\ SubSeq(x, 1, f) \o w \in Seq(Lines) /\ Len(SubSeq(x, 1, f) \o w) = f + Len(w)
          /\ \A n \in 1..f : (SubSeq(x, 1, f) \o w)[n] = x[n]
          /\ SubSeq(SubSeq(x, 1, f) \o w, e + 1, f + Len(w)) = SubSeq(x, e + 1, f) \o w
      <4>1. x \in Seq(Lines) /\ w \in Seq(Lines)  BY <1>2, <2>1
      <4>2. Continued(Lines, x, f, w, e)  BY <3>1, <4>1, PartAfter
      <4>3. QED  BY <4>2 DEF Continued
    <3>3. QED  BY <3>2 DEF q
  <2>7. y \in Text /\ e <= Len(y)  BY <1>1, <1>3, <2>1, <2>5, <2>6 DEF Text
  <2>8. Alike(y, b, 0, 0, e)
    <3> SUFFICES ASSUME NEW m \in 1..e PROVE y[0 + m] = b[0 + m]  BY DEF Alike
    <3>1. 0 + m = m /\ m \in 1..f /\ m \in 1..t  BY <1>1, <1>3
    <3>2. QED  BY <1>4, <2>5, <2>6, <3>1
  <2>9. SubSeq(y, e + 1, Len(y)) = (p \o h.after) \o r  BY <1>6, <2>4, <2>5, <2>6
  <2>10. z = h.after  BY <1>7
  <2>11. QED  BY <2>7, <2>8, <2>9, <2>10 DEF y, p, r, f, t, L
<1>8. CASE h.status # "accepted"
  <2>1. y = x /\ z = h.before  BY <1>8 DEF Hunks!Replace
  <2>2. Alike(x, b, 0, 0, e)
    <3> SUFFICES ASSUME NEW m \in 1..e PROVE x[0 + m] = b[0 + m]  BY DEF Alike
    <3>1. 0 + m = m /\ m \in 1..t  BY <1>1, <1>3
    <3>2. QED  BY <1>4, <3>1
  <2>3. h.before = SubSeq(x, f + 1, t)
    <3> DEFINE d == t - f
    <3>1. d \in Nat /\ f + d = t /\ f + d <= Len(x) /\ f + d <= Len(b)  BY <1>1, <1>2, <1>3 DEF L
    <3>2. Alike(b, x, f, f, d)
      <4> SUFFICES ASSUME NEW m \in 1..d PROVE b[f + m] = x[f + m]  BY DEF Alike
      <4>1. f + m \in 1..t  BY <1>1, <3>1
      <4>2. QED  BY <1>4, <4>1
    <3> HIDE DEF d
    <3>3. SubSeq(b, f + 1, f + d) = SubSeq(x, f + 1, f + d)  BY <1>1, <1>2, <3>1, <3>2, PartsEqual
    <3>4. QED  BY <1>3, <3>1, <3>3
  <2>4. SubSeq(x, e + 1, f) \o SubSeq(x, f + 1, t) = SubSeq(x, e + 1, t)
    <3>1. e \in 0..Len(x) /\ f \in e..Len(x) /\ t \in f..Len(x)  BY <1>1, <1>2, <1>3 DEF L
    <3>2. QED  BY <1>2, <3>1, PartsJoin
  <2>5. SubSeq(x, e + 1, t) \o SubSeq(x, t + 1, L) = SubSeq(x, e + 1, L)
    <3>1. e \in 0..Len(x) /\ t \in e..Len(x) /\ L \in t..Len(x)  BY <1>1, <1>2, <1>3 DEF L
    <3>2. QED  BY <1>2, <3>1, PartsJoin
  <2>6. e <= L  BY <1>1, <1>2, <1>3
  <2> HIDE DEF p, r, y, z
  <2>7. (p \o z) \o r = SubSeq(x, e + 1, L)
    BY <1>6, <2>1, <2>3, <2>4, <2>5 DEF r
  <2>8. QED  BY <2>1, <2>2, <2>6, <2>7 DEF y, z, p, r, f, t, L
<1>9. QED  BY <1>7, <1>8

\* What replacing the last k hunks has left to do.
Rest(b, hs, g, k) ==
  LET e == EndOf(hs, Len(hs) - k) IN
  /\ g[k] \in Text /\ e <= Len(g[k]) /\ Alike(g[k], b, 0, 0, e)
  /\ Hunks!MaterializeTextHunks(b, hs).text =
       Hunks!PutFirst(b, hs)[Len(hs) - k].text \o SubSeq(g[k], e + 1, Len(g[k]))

LEMMA RestShrinks ==
  ASSUME NEW b \in Text, NEW a \in Text, NEW hs, NEW v, Cut(hs, v, b, a, Len(b), Len(a)),
         NEW g, NEW k \in Nat, k + 1 <= Len(hs), Rest(b, hs, g, k)
  PROVE  LET y == Hunks!Replace(g[k], hs[Len(hs) + 1 - (k + 1)]) IN
         y \in Text /\ (g[k + 1] = y => Rest(b, hs, g, k + 1))
<1> DEFINE N == Len(hs)
           j == N - k
           h == hs[j]
           x == g[k]
           e == EndOf(hs, j - 1)
           y == Hunks!Replace(x, h)
           z == IF h.status = "accepted" THEN h.after ELSE h.before
           P == Hunks!PutFirst(b, hs)
           T == P[j - 1].text
           s == SubSeq(b, e + 1, h.from)
           r == SubSeq(x, h.to + 1, Len(x))
           total == Hunks!MaterializeTextHunks(b, hs).text
<1>1. hs \in Seq(Hunk) /\ N \in Nat  BY DEF Cut
<1>2. j \in 1..N /\ j - 1 \in 0..N /\ N + 1 - (k + 1) = j /\ N - (k + 1) = j - 1 /\ j \in 0..N
  BY <1>1
<1>3. /\ h \in Hunk /\ e \in Nat /\ h.from \in Nat /\ h.to \in Nat
      /\ e <= h.from /\ h.from <= h.to /\ h.to <= Len(b)
      /\ EndOf(hs, j) = h.to /\ Len(b) \in Nat
      /\ h.before = SubSeq(b, h.from + 1, h.to)
      /\ h.before \in Text /\ h.after \in Text
  <2> HIDE DEF j
  <2>1. LET d == EndOf(hs, j - 1) IN
         /\ hs[j] \in Hunk /\ d \in Nat /\ hs[j].from \in Nat /\ hs[j].to \in Nat
         /\ d <= hs[j].from /\ hs[j].from <= hs[j].to /\ hs[j].to <= Len(b)
         /\ EndOf(hs, j) = hs[j].to /\ Len(b) \in Nat
         /\ hs[j].before = SubSeq(b, hs[j].from + 1, hs[j].to)
         /\ hs[j].before \in Text /\ hs[j].after \in Text
    <3>1. Fits(b, hs, j)  BY <1>2, CutFacts
    <3>2. QED  BY <3>1 DEF Fits
  <2>2. QED  BY <2>1
<1>4. /\ x \in Text /\ h.to <= Len(x) /\ Alike(x, b, 0, 0, h.to)
      /\ total = P[j].text \o r
  <2> HIDE DEF total
  <2>1. LET d == EndOf(hs, Len(hs) - k) IN
        /\ x \in Text /\ d <= Len(x) /\ Alike(x, b, 0, 0, d)
        /\ total = P[j].text \o SubSeq(x, d + 1, Len(x))
    BY DEF Rest, total
  <2>2. Len(hs) - k = j  OBVIOUS
  <2> HIDE DEF j, h, x, P
  <2>3. QED  BY <1>3, <2>1, <2>2
<1>5. P[j].text = (T \o s) \o z /\ T \in Text
  <2>1. \A n \in 1..N : hs[n].from <= Len(b)
    <3> SUFFICES ASSUME NEW n \in 1..N PROVE hs[n].from <= Len(b)  OBVIOUS
    <3>1. hs[n].from \in Nat /\ hs[n].to \in Nat /\ hs[n].from <= hs[n].to /\ hs[n].to <= Len(b)
          /\ Len(b) \in Nat
      <4>1. Fits(b, hs, n)  BY CutFacts
      <4>2. QED  BY <4>1 DEF Fits
    <3>2. QED  BY <3>1
  <2>2. P[j] = Hunks!Put(b, P[j - 1], h)
    <3>1. \A n \in 1..N : Hunks!PutFirst(b, hs)[n] = Hunks!Put(b, Hunks!PutFirst(b, hs)[n - 1], hs[n])
      BY <1>1, <2>1, PutSteps
    <3> HIDE DEF j
    <3>2. QED  BY <1>2, <3>1
  <2>3. P[j - 1] \in Putting /\ P[j - 1].cursor = e
    <3> DEFINE i == j - 1
    <3>1. i \in 0..Len(hs)  BY <1>2
    <3> HIDE DEF i
    <3>2. PutsWell(b, hs, a, v, i)  BY <3>1, PutsAreValid
    <3>3. QED  BY <3>2 DEF i, PutsWell
  <2> HIDE DEF P, h, e
  <2>4. Hunks!Put(b, P[j - 1], h).text
          = (P[j - 1].text \o SubSeq(b, P[j - 1].cursor + 1, h.from)) \o z
    BY DEF Hunks!Put
  <2>5. QED  BY <2>2, <2>3, <2>4 DEF Putting
<1>6. z \in Text  BY <1>3
<1> HIDE DEF h, x, e, P, j, total
<1>7. /\ y \in Text /\ e <= Len(y) /\ Alike(y, b, 0, 0, e)
      /\ SubSeq(y, e + 1, Len(y)) = (s \o z) \o r
  <2>1. LET w == Hunks!Replace(x, h)
            u == IF h.status = "accepted" THEN h.after ELSE h.before IN
         /\ w \in Text /\ e <= Len(w) /\ Alike(w, b, 0, 0, e)
         /\ SubSeq(w, e + 1, Len(w))
              = (SubSeq(b, e + 1, h.from) \o u) \o SubSeq(x, h.to + 1, Len(x))
    BY <1>3, <1>4, ReplaceFits, ZenonT(30)
  <2>2. QED  BY <2>1
<1>8. s \in Text /\ r \in Text
  <2>1. s \in Text
    <3> DEFINE f == h.from
    <3>1. e \in 0..Len(b) /\ f \in e..Len(b) /\ b \in Seq(Lines)  BY <1>3 DEF Text
    <3> HIDE DEF f
    <3>2. SubSeq(b, e + 1, f) \in Seq(Lines)  BY <3>1, Part
    <3>3. QED  BY <3>2 DEF f, Text
  <2>2. r \in Text
    <3> DEFINE f == h.to
               L == Len(x)
    <3>1. f \in 0..Len(x) /\ L \in f..Len(x) /\ x \in Seq(Lines)  BY <1>3, <1>4 DEF Text
    <3> HIDE DEF f, L
    <3>2. SubSeq(x, f + 1, L) \in Seq(Lines)  BY <3>1, Part
    <3>3. QED  BY <3>2 DEF f, L, Text
  <2>3. QED  BY <2>1, <2>2
<1> HIDE DEF y, z, T, s, r
<1>9. total = T \o SubSeq(y, e + 1, Len(y))
  <2>1. T \in Seq(Lines) /\ s \in Seq(Lines) /\ z \in Seq(Lines) /\ r \in Seq(Lines)
    BY <1>5, <1>6, <1>8 DEF Text
  <2>2. (T \o s) \o z = T \o (s \o z)  BY <2>1, ConcatAssociative, SMTT(60)
  <2> DEFINE q == s \o z
  <2>3. q \in Seq(Lines)  BY <2>1
  <2> HIDE DEF q
  <2>4. (T \o q) \o r = T \o (q \o r)  
    <3>1. T \in Seq(Lines) /\ q \in Seq(Lines) /\ r \in Seq(Lines)  BY <2>1, <2>3
    <3>2. QED  BY <3>1, ConcatAssociative, SMTT(60)
  <2>5. QED  BY <1>4, <1>5, <1>7, <2>2, <2>4 DEF q
<1>10. y = Hunks!Replace(g[k], hs[Len(hs) + 1 - (k + 1)])  BY <1>2 DEF y, x, h
<1>11. ASSUME g[k + 1] = y PROVE Rest(b, hs, g, k + 1)
  <2>1. total = P[j - 1].text \o SubSeq(y, e + 1, Len(y))  BY <1>9 DEF T
  <2>2. Len(hs) - (k + 1) = j - 1  BY <1>2
  <2>3. EndOf(hs, Len(hs) - (k + 1)) = e /\ Hunks!PutFirst(b, hs)[Len(hs) - (k + 1)] = P[j - 1]
    BY <2>2 DEF e, P
  <2> DEFINE d == EndOf(hs, Len(hs) - (k + 1))
             p == Hunks!PutFirst(b, hs)[Len(hs) - (k + 1)]
             t == g[k + 1]
  <2>4. /\ t \in Text /\ d <= Len(t) /\ Alike(t, b, 0, 0, d)
        /\ Hunks!MaterializeTextHunks(b, hs).text = p.text \o SubSeq(t, d + 1, Len(t))
    <3> HIDE DEF d, p, t
    <3>1. d = e /\ p = P[j - 1] /\ t = y  BY <2>3, <1>11 DEF d, p, t
    <3>2. QED  BY <1>7, <2>1, <3>1 DEF total
  <2>5. QED  BY <2>4 DEF Rest
<1>12. QED  BY <1>7, <1>10, <1>11

LEMMA RestAlways ==
  ASSUME NEW b \in Text, NEW a \in Text, NEW hs, NEW v, Cut(hs, v, b, a, Len(b), Len(a)),
         NEW g, g[0] = b,
         \A k \in 1..Len(hs) : Hunks!Replace(g[k - 1], hs[Len(hs) + 1 - k]) \in Text
                                 => g[k] = Hunks!Replace(g[k - 1], hs[Len(hs) + 1 - k])
  PROVE  \A k \in 0..Len(hs) : Rest(b, hs, g, k)
<1> DEFINE N == Len(hs)
           S == {n \in Nat : n <= N => Rest(b, hs, g, n)}
           P == Hunks!PutFirst(b, hs)
<1>1. hs \in Seq(Hunk) /\ N \in Nat /\ EndOf(hs, N) <= Len(b)  BY DEF Cut
<1>2. 0 \in S
  <2> DEFINE e == EndOf(hs, N)
             i == N
  <2>1. e \in Nat /\ e <= Len(b) /\ Len(b) \in Nat
    <3>1. N \in 0..Len(hs)  BY <1>1
    <3> HIDE DEF N
    <3>2. QED  BY <1>1, <3>1, EndIsNat DEF Text
  <2>2. P[N].cursor = e
    <3>1. i \in 0..Len(hs)  BY <1>1
    <3> HIDE DEF i
    <3>2. PutsWell(b, hs, a, v, i)  BY <3>1, PutsAreValid
    <3>3. QED  BY <3>2 DEF i, PutsWell
  <2>3. Hunks!MaterializeTextHunks(b, hs).text = P[N].text \o SubSeq(b, e + 1, Len(b))
    BY <2>2 DEF Hunks!MaterializeTextHunks
  <2>4. Alike(b, b, 0, 0, e)  BY DEF Alike
  <2>5. Len(hs) - 0 = N  BY <1>1
  <2>6. EndOf(hs, Len(hs) - 0) = e /\ Hunks!PutFirst(b, hs)[Len(hs) - 0] = P[N]  BY <2>5
  <2> HIDE DEF e, P, N
  <2>7. Rest(b, hs, g, 0)  BY <2>1, <2>3, <2>4, <2>6 DEF Rest
  <2>8. QED  BY <2>7
<1>3. ASSUME NEW n \in Nat, n \in S PROVE n + 1 \in S
  <2> DEFINE k == n + 1
             y == Hunks!Replace(g[n], hs[Len(hs) + 1 - k])
  <2> SUFFICES ASSUME k <= N PROVE Rest(b, hs, g, k)  OBVIOUS
  <2>1. Rest(b, hs, g, n) /\ k <= Len(hs) /\ k \in 1..Len(hs) /\ k - 1 = n  BY <1>1, <1>3
  <2>2. y \in Text /\ (g[n + 1] = y => Rest(b, hs, g, n + 1))
    <3>1. LET w == Hunks!Replace(g[n], hs[Len(hs) + 1 - (n + 1)]) IN
          w \in Text /\ (g[n + 1] = w => Rest(b, hs, g, n + 1))
      BY <2>1, RestShrinks
    <3>2. QED  BY <3>1
  <2> HIDE DEF k
  <2>3. Hunks!Replace(g[k - 1], hs[Len(hs) + 1 - k]) = y  BY <2>1
  <2>4. g[k] = y  BY <2>1, <2>2, <2>3
  <2> HIDE DEF y
  <2>5. QED  BY <2>2, <2>4 DEF k
<1>4. \A n \in Nat : n \in S
  <2> HIDE DEF S
  <2>1. QED  BY <1>2, <1>3, Induct
<1>5. QED  BY <1>1, <1>4

LEMMA ReplacedSteps ==
  ASSUME NEW b \in Text, NEW a \in Text, NEW hs, NEW v, Cut(hs, v, b, a, Len(b), Len(a))
  PROVE  LET g == Hunks!ReplacedLast(b, hs) IN
         /\ g[0] = b
         /\ \A k \in 1..Len(hs) : g[k] = Hunks!Replace(g[k - 1], hs[Len(hs) + 1 - k])
<1> DEFINE N == Len(hs)
           step(k, x) == Hunks!Replace(x, hs[N + 1 - k])
           G == [k \in 1..N |-> [x \in Text |-> IF step(k, x) \in Text THEN step(k, x) ELSE b]]
           Is(f) == f = [k \in 0..N |-> IF k = 0 THEN b ELSE step(k, f[k - 1])]
<1>1. N \in Nat  BY DEF Cut
<1>2. \A k \in 1..N : k - 1 \in 0..N /\ k \in 0..N /\ k # 0  BY <1>1
<1> HIDE DEF step
<1>3. G \in [1..N -> [Text -> Text]]  OBVIOUS
<1>4. PICK f : Stepwise(f, Text, b, N, G)
  <2> HIDE DEF N, G
  <2>1. QED  BY <1>1, <1>3, StepwiseRecursion
<1>5. f \in [0..N -> Text] /\ f[0] = b
      /\ \A k \in 1..N : f[k] = IF step(k, f[k - 1]) \in Text THEN step(k, f[k - 1]) ELSE b
  <2>1. f \in [0..N -> Text] /\ f[0] = b  BY <1>4 DEF Stepwise
  <2>2. ASSUME NEW k \in 1..N
        PROVE  f[k] = IF step(k, f[k - 1]) \in Text THEN step(k, f[k - 1]) ELSE b
    <3>1. f[k - 1] \in Text /\ f[k] = G[k][f[k - 1]]  BY <1>2, <1>4, <2>1 DEF Stepwise
    <3>2. QED  BY <3>1
  <2>3. QED  BY <2>1, <2>2
<1>6. \A k \in 0..N : Rest(b, hs, f, k)
  <2>1. \A k \in 1..Len(hs) : Hunks!Replace(f[k - 1], hs[Len(hs) + 1 - k]) \in Text
                                => f[k] = Hunks!Replace(f[k - 1], hs[Len(hs) + 1 - k])
    BY <1>5 DEF step
  <2>2. QED  BY <1>5, <2>1, RestAlways
<1>7. ASSUME NEW k \in 1..N PROVE f[k] = step(k, f[k - 1])
  <2> DEFINE n == k - 1
  <2>1. n \in Nat /\ n + 1 = k /\ n \in 0..N /\ n + 1 <= Len(hs)  BY <1>1
  <2>2. Rest(b, hs, f, n)  BY <1>6, <2>1
  <2> HIDE DEF n
  <2>3. LET y == Hunks!Replace(f[n], hs[Len(hs) + 1 - (n + 1)]) IN y \in Text
    BY <2>1, <2>2, RestShrinks
  <2>4. step(k, f[k - 1]) \in Text  BY <2>1, <2>3 DEF step, n
  <2>5. QED  BY <1>5, <2>4
<1>8. Is(f)
  <2>1. f = [k \in 0..N |-> f[k]]  BY <1>5
  <2>2. ASSUME NEW k \in 0..N PROVE f[k] = IF k = 0 THEN b ELSE step(k, f[k - 1])
    <3>1. CASE k = 0  BY <1>5, <3>1
    <3>2. CASE k # 0
      <4>1. k \in 1..N  BY <3>2
      <4>2. QED  BY <1>7, <3>2, <4>1
    <3>3. QED  BY <3>1, <3>2
  <2> HIDE DEF N
  <2>3. QED  BY <2>1, <2>2
<1>9. Hunks!ReplacedLast(b, hs) = CHOOSE g : Is(g)  BY DEF Hunks!ReplacedLast, step
<1> DEFINE h == Hunks!ReplacedLast(b, hs)
<1>10. Is(h)
  <2> HIDE DEF Is
  <2>1. QED  BY <1>8, <1>9
<1> HIDE DEF h
<1>11. h[0] = b /\ \A k \in 1..N : h[k] = step(k, h[k - 1])  BY <1>1, <1>2, <1>10
<1>12. QED  BY <1>11 DEF h, step

LEMMA CutsRebuild ==
  ASSUME NEW b \in Text, NEW a \in Text, NEW hs, NEW v, Cut(hs, v, b, a, Len(b), Len(a))
  PROVE  LET m == Hunks!MaterializeTextHunks(b, hs) IN
         /\ m.valid /\ m.text = Hunks!Replaced(b, hs)
         /\ (\A i \in DOMAIN hs : hs[i].status = "accepted") => m.text = a
<1> DEFINE N == Len(hs)
           m == Hunks!MaterializeTextHunks(b, hs)
           P == Hunks!PutFirst(b, hs)
           g == Hunks!ReplacedLast(b, hs)
           e == EndOf(hs, N)
<1>1. hs \in Seq(Hunk) /\ N \in Nat /\ DOMAIN hs = 1..N  BY DEF Cut
<1>2. PutsWell(b, hs, a, v, N) /\ PutsWell(b, hs, a, v, 0)
  <2>1. N \in 0..Len(hs) /\ 0 \in 0..Len(hs)  BY <1>1
  <2> HIDE DEF N
  <2>2. QED  BY <2>1, PutsAreValid
<1>3. /\ m.valid = P[N].valid
      /\ m.text = P[N].text \o SubSeq(b, P[N].cursor + 1, Len(b))
  BY DEF Hunks!MaterializeTextHunks
<1>4. m.valid
  <2> HIDE DEF m, P, N
  <2>1. P[N].valid = TRUE  BY <1>2 DEF PutsWell, P
  <2>2. QED  BY <1>3, <2>1
<1>5. m.text = Hunks!Replaced(b, hs)
  <2>1. g[0] = b /\ \A k \in 1..Len(hs) : g[k] = Hunks!Replace(g[k - 1], hs[Len(hs) + 1 - k])
    BY ReplacedSteps
  <2> HIDE DEF g
  <2>2. \A k \in 0..Len(hs) : Rest(b, hs, g, k)  BY <2>1, RestAlways
  <2>3. Rest(b, hs, g, N)  BY <1>1, <2>2
  <2> DEFINE d == EndOf(hs, Len(hs) - N)
             p == Hunks!PutFirst(b, hs)[Len(hs) - N]
             t == g[N]
  <2>4. t \in Text /\ m.text = p.text \o SubSeq(t, d + 1, Len(t))
    <3> HIDE DEF N
    <3>1. QED  BY <2>3 DEF Rest
  <2>5. Len(hs) - N = 0  BY <1>1
  <2>6. d = 0 /\ p = P[0]  BY <2>5 DEF EndOf
  <2>7. P[0].text = <<>>
    <3>1. \A n \in 1..N : hs[n].from <= Len(b)
      <4> SUFFICES ASSUME NEW n \in 1..N PROVE hs[n].from <= Len(b)  OBVIOUS
      <4>1. hs[n].from \in Nat /\ hs[n].to \in Nat /\ hs[n].from <= hs[n].to
            /\ hs[n].to <= Len(b) /\ Len(b) \in Nat
        <5>1. Fits(b, hs, n)  BY CutFacts
        <5>2. QED  BY <5>1 DEF Fits
      <4>2. QED  BY <4>1
    <3>2. Hunks!PutFirst(b, hs)[0] = [valid |-> TRUE, text |-> <<>>, cursor |-> 0]
      BY <1>1, <3>1, PutSteps
    <3>3. QED  BY <3>2
  <2> HIDE DEF d, p, t, P, m
  <2>8. m.text = <<>> \o SubSeq(t, 1, Len(t))
    <3>1. 0 + 1 = 1  OBVIOUS
    <3>2. QED  BY <2>4, <2>6, <2>7, <3>1
  <2>9. SubSeq(t, 1, Len(t)) = t /\ <<>> \o t = t
    <3>1. t \in Seq(Lines)  BY <2>4 DEF Text
    <3>2. QED  BY <3>1, SubSeqFull, ConcatEmptySeq
  <2>10. QED  BY <2>8, <2>9 DEF t, g, Hunks!Replaced
<1>6. ASSUME \A i \in DOMAIN hs : hs[i].status = "accepted" PROVE m.text = a
  <2> DEFINE l == v[N]
             s == P[N]
  <2>1. AllAccepted(hs, N)  BY <1>1, <1>6 DEF AllAccepted
  <2>2. s.text = SubSeq(a, 1, l) /\ s.cursor = e
    <3> HIDE DEF N
    <3>1. QED  BY <1>2, <2>1 DEF PutsWell
  <2>3. m.text = SubSeq(a, 1, l) \o SubSeq(b, e + 1, Len(b))
    <3> HIDE DEF m, e, l
    <3>1. s.text = SubSeq(a, 1, l) /\ s.cursor = e  BY <2>2
    <3>2. m.text = s.text \o SubSeq(b, s.cursor + 1, Len(b))  BY <1>3
    <3> HIDE DEF s
    <3>3. QED  BY <3>1, <3>2
  <2>4. /\ e \in Nat /\ l \in Nat /\ Len(b) \in Nat /\ Len(a) \in Nat
        /\ e <= Len(b) /\ l <= Len(a) /\ Len(b) - e = Len(a) - l
        /\ Alike(b, a, e, l, Len(b) - e)
    <3>1. N \in 0..Len(hs)  BY <1>1
    <3>2. e \in Nat
      <4> HIDE DEF N
      <4>1. QED  BY <1>1, <3>1, EndIsNat
    <3>3. v \in [0..N -> Nat]  BY DEF Cut
    <3>4. QED  BY <3>1, <3>2, <3>3 DEF Cut, Text
  <2> DEFINE d == Len(b) - e
  <2>5. d \in Nat /\ e + d = Len(b) /\ l + d = Len(a) /\ Alike(b, a, e, l, d)
        /\ e + d <= Len(b) /\ l + d <= Len(a)
    BY <2>4
  <2>6. b \in Seq(Lines) /\ a \in Seq(Lines)  BY DEF Text
  <2> HIDE DEF d, e, l, m
  <2>7. SubSeq(b, e + 1, e + d) = SubSeq(a, l + 1, l + d)  BY <2>4, <2>5, <2>6, PartsEqual
  <2>8. SubSeq(a, 0 + 1, l) \o SubSeq(a, l + 1, Len(a)) = SubSeq(a, 0 + 1, Len(a))
    <3> DEFINE k == Len(a)
    <3>1. 0 \in 0..Len(a) /\ l \in 0..Len(a) /\ k \in l..Len(a)  BY <2>4
    <3> HIDE DEF k
    <3>2. SubSeq(a, 0 + 1, l) \o SubSeq(a, l + 1, k) = SubSeq(a, 0 + 1, k)
      BY <2>6, <3>1, PartsJoin
    <3>3. QED  BY <3>2 DEF k
  <2>9. SubSeq(a, 1, Len(a)) = a  BY <2>6, SubSeqFull
  <2>10. 0 + 1 = 1  OBVIOUS
  <2>11. QED  BY <2>3, <2>5, <2>7, <2>8, <2>9, <2>10
<1> HIDE DEF m
<1>7. QED  BY <1>4, <1>5, <1>6 DEF m

-----------------------------------------------------------------------------
\* A decision leaves the cut as it is.
LEMMA CutDecided ==
  ASSUME NEW hs, NEW v, NEW b, NEW a, NEW n, NEW m, Cut(hs, v, b, a, n, m),
         NEW i \in DOMAIN hs, NEW st \in {"accepted", "rejected"}
  PROVE  Cut([hs EXCEPT ![i].status = st], v, b, a, n, m)
<1> DEFINE g == [hs EXCEPT ![i].status = st]
           N == Len(hs)
           h == [hs[i] EXCEPT !.status = st]
<1>1. hs \in Seq(Hunk) /\ N \in Nat /\ DOMAIN hs = 1..N  BY DEF Cut
<1>2. hs[i] \in Hunk /\ i \in 1..Len(hs)  BY <1>1
<1>3. h \in Hunk /\ h.from = hs[i].from /\ h.to = hs[i].to /\ h.before = hs[i].before
      /\ h.after = hs[i].after
  BY <1>2 DEF Hunk
<1>4. g = [hs EXCEPT ![i] = h]  OBVIOUS
<1> HIDE DEF h, g
<1>5. g \in Seq(Hunk) /\ Len(g) = N
      /\ \A j \in 1..N : g[j] = IF j = i THEN h ELSE hs[j]
  BY <1>1, <1>2, <1>3, <1>4, ExceptSeq
<1>6. \A k \in 1..N : g[k].from = hs[k].from /\ g[k].to = hs[k].to /\ g[k].before = hs[k].before
                      /\ g[k].after = hs[k].after
  BY <1>3, <1>5
<1>7. \A k \in 0..N : EndOf(g, k) = EndOf(hs, k)
  <2> SUFFICES ASSUME NEW k \in 0..N PROVE EndOf(g, k) = EndOf(hs, k)  OBVIOUS
  <2>1. CASE k = 0  BY <2>1 DEF EndOf
  <2>2. CASE k # 0
    <3>1. k \in 1..N  BY <2>2
    <3>2. QED  BY <1>6, <2>2, <3>1 DEF EndOf
  <2>3. QED  BY <2>1, <2>2
<1>8. ASSUME NEW k \in 1..N PROVE g[k].to <= n /\ v[k] <= m /\ CutAt(g, v, b, a, k)
  <2>1. hs[k].to <= n /\ v[k] <= m /\ CutAt(hs, v, b, a, k)  BY DEF Cut
  <2>2. k - 1 \in 0..N  BY <1>1
  <2>3. EndOf(g, k - 1) = EndOf(hs, k - 1)  BY <1>7, <2>2
  <2>4. StartOf(g, v, k) = StartOf(hs, v, k)  BY <1>6, <2>3 DEF StartOf
  <2>5. CutAt(g, v, b, a, k)  BY <1>6, <2>1, <2>3, <2>4 DEF CutAt
  <2>6. QED  BY <1>6, <2>1, <2>5
<1>9. N \in 0..N  BY <1>1
<1>10. EndOf(g, Len(g)) = EndOf(hs, N)  BY <1>5, <1>7, <1>9
<1>11. Cut(g, v, b, a, n, m)
  <2>1. /\ v \in [0..N -> Nat] /\ v[0] = 0 /\ n \in 0..Len(b) /\ m \in 0..Len(a)
        /\ EndOf(hs, N) <= n /\ v[N] <= m
        /\ n - EndOf(hs, N) = m - v[N]
        /\ Alike(b, a, EndOf(hs, N), v[N], n - EndOf(hs, N))
    BY DEF Cut
  <2> HIDE DEF N
  <2>2. QED  BY <1>5, <1>8, <1>10, <2>1 DEF Cut
<1>12. QED  BY <1>11 DEF g

LEMMA TextsAreTexts == Befores \cup Afters \subseteq Text
<1> SUFFICES ASSUME NEW t \in Befores \cup Afters PROVE t \in Text  OBVIOUS
<1> DEFINE R == {t[i] : i \in DOMAIN t}
<1>1. t \in Seq(R)  BY TextsAssumption
<1>2. R \subseteq Lines  BY DEF Lines
<1> HIDE DEF R
<1>3. t \in Seq(Lines)  BY <1>1, <1>2, SeqMonotonic
<1>4. QED  BY <1>3 DEF Text

\* The hunks cut the two texts.
HunksCutTexts ==
  /\ before \in Text /\ after \in Text
  /\ \E v : Cut(hunks, v, before, after, Len(before), Len(after))

LEMMA HunksStart == ASSUME Init PROVE HunksCutTexts
<1>1. CASE subject = "hunks"
  <2>1. before \in Befores /\ after \in Afters /\ hunks = Hunks!BuildTextHunks(before, after)
    BY <1>1 DEF Init, Hunks!Init
  <2>2. before \in Text /\ after \in Text  BY <2>1, TextsAreTexts
  <2>3. \E v : Cut(Hunks!BuildTextHunks(before, after), v, before, after, Len(before), Len(after))
    BY <2>2, HunksCut
  <2>4. QED  BY <2>1, <2>2, <2>3 DEF HunksCutTexts
<1>2. CASE subject # "hunks"
  <2>1. before = <<>> /\ after = <<>> /\ hunks = <<>>  BY <1>2 DEF Init
  <2>2. <<>> \in Text /\ Len(<<>>) = 0  BY DEF Text
  <2> DEFINE v == [k \in 0..0 |-> 0]
  <2>3. Cut(<<>>, v, <<>>, <<>>, 0, 0)  BY <2>2, CutNothing
  <2> HIDE DEF v
  <2>4. \E w : Cut(hunks, w, before, after, Len(before), Len(after))  BY <2>1, <2>2, <2>3
  <2>5. QED  BY <2>1, <2>2, <2>4 DEF HunksCutTexts
<1>3. QED  BY <1>1, <1>2

LEMMA HunksStep == ASSUME HunksCutTexts, [Hunks!Next]_(Hunks!vars) PROVE HunksCutTexts'
<1>1. CASE UNCHANGED Hunks!vars  BY <1>1 DEF Hunks!vars, HunksCutTexts
<1>2. ASSUME NEW i \in DOMAIN hunks, NEW status \in {"accepted", "rejected"},
             Hunks!Decide(i, status)
      PROVE  HunksCutTexts'
  <2>1. PICK v : Cut(hunks, v, before, after, Len(before), Len(after))  BY DEF HunksCutTexts
  <2>2. Cut([hunks EXCEPT ![i].status = status], v, before, after, Len(before), Len(after))
    BY <2>1, CutDecided
  <2>3. before' = before /\ after' = after /\ hunks' = [hunks EXCEPT ![i].status = status]
    BY <1>2 DEF Hunks!Decide
  <2>4. \E w : Cut(hunks', w, before', after', Len(before'), Len(after'))  BY <2>2, <2>3
  <2>5. QED  BY <2>3, <2>4 DEF HunksCutTexts
<1>3. QED  BY <1>1, <1>2 DEF Hunks!Next

LEMMA HunksHold == ASSUME HunksCutTexts PROVE HunksRebuildTexts
<1>1. PICK v : Cut(hunks, v, before, after, Len(before), Len(after))  BY DEF HunksCutTexts
<1>2. before \in Text /\ after \in Text  BY DEF HunksCutTexts
<1> DEFINE m == Hunks!MaterializeTextHunks(before, hunks)
           ps == Hunks!Pairs(before, after)
           x == Hunks!LongestIncreasingAnchors(ps)
<1>3. /\ m.valid /\ m.text = Hunks!Replaced(before, hunks)
      /\ (\A i \in DOMAIN hunks : hunks[i].status = "accepted") => m.text = after
  BY <1>1, <1>2, CutsRebuild
<1>4. Hunks!AnchorsAreLongest
  <2>1. Matched(ps, before, after, Len(before))  BY <1>2, PairsMatch
  <2> HIDE DEF ps
  <2>2. \A T \in SUBSET (1..Len(ps)) :
          (\A i, j \in T : i < j => ps[i][2] < ps[j][2]) => Cardinality(T) <= Len(x)
    BY <2>1, AnchorsRise
  <2> HIDE DEF x
  <2>3. DOMAIN ps = 1..Len(ps)  BY <2>1 DEF Matched
  <2>4. ASSUME NEW S \in SUBSET DOMAIN ps, \A i, j \in S : i < j => ps[i][2] < ps[j][2]
        PROVE  Hunks!Cardinality(S) <= Len(x)
    <3>1. Hunks!Cardinality(S) = Cardinality(S)  BY HunksCardinality
    <3>2. Cardinality(S) <= Len(x)  BY <2>2, <2>3, <2>4
    <3>3. QED  BY <3>1, <3>2
  <2>5. QED  BY <2>4 DEF Hunks!AnchorsAreLongest, ps, x
<1> HIDE DEF m
<1>5. QED  BY <1>3, <1>4 DEF HunksRebuildTexts, Hunks!HunksRebuildTexts, m

\* However texts of any length differ and whatever is decided about their hunks, in
\* whatever order: materialising succeeds and replaces exactly what was accepted, all of
\* it makes the text after, and no cut along lines that are unique is finer
\* (buildTextHunks, materializeTextHunks).
THEOREM HunksAreRebuilt == Spec => []HunksRebuildTexts
<1>1. Init => HunksCutTexts  BY HunksStart
<1>2. HunksCutTexts /\ [Next]_vars => HunksCutTexts'  BY HunksStep, OneMoves
<1>3. HunksCutTexts => HunksRebuildTexts  BY HunksHold
<1>4. QED  BY <1>1, <1>2, <1>3, PTL DEF Spec
=============================================================================
