------------------------ MODULE CollaborationProofs ------------------------
(***************************************************************************)
(* Theorems about Collaboration, for any number of clients, paths, pieces  *)
(* of text, documents, requests, direct changes and crashes: no update is  *)
(* numbered twice or skipped (NumberedOnce), what a browser counts as      *)
(* saved is stored and was written (SavedMeansSaved), a file has one       *)
(* document (OneDocument), and a flush replaces no text its document has   *)
(* not seen (DirectTextKept).                                              *)
(*                                                                         *)
(* Inv says what every request in progress relies on.  A request that      *)
(* holds the lock finds the log of its document as it left it, so what it  *)
(* captured is what the log restores to (PushOK, FlushOK), and what was    *)
(* deleted from a document had been in a file before (DeletedOK).          *)
(* RouteOK and AloneOK say who shares a file; Knowing says which version   *)
(* of its file a document knows and that it holds the text of this one,    *)
(* also while the file moves to another path.                              *)
(***************************************************************************)
EXTENDS Collaboration, TLAPS, FiniteSetTheorems, WellFoundedInduction, SequenceTheorems

-----------------------------------------------------------------------------
(* Types.                                                                     *)

Ops     == [text : SUBSET (Edits \cup DirectTexts), doc : Nat, at : Nat]
Entry   == [seq : Nat, ops : SUBSET Ops, gone : SUBSET Ops]
Log     == [snapshots : SUBSET Entry, updates : SUBSET Entry]
Texts   == SUBSET (Edits \cup DirectTexts)
File    == [text : Texts \cup {NoFile}, version : Nat, life : Nat]
Doc     == [path : Paths, status : {"active", "archived"}, version : Nat]
Provider == [doc : Nat, path : Paths, base : Nat, edits : SUBSET Ops, saved : SUBSET Ops]
Updates == {"live", "persist", "apply"}
Flushing == {"pushed", "compare", "save", "version"}
Held    == {"document", "create", "found", "push", "next", "git", "reload", "reloaded"} \cup Flushing

Requests ==
  [kind : Updates \cup {"open", "flush", "discard"}, phase : {"enter"} \cup Held,
   path : Paths, doc : Nat, update : SUBSET Ops, base : Nat, seq : Nat,
   ops : SUBSET Ops, gone : SUBSET Ops, file : File \cup {NoFile},
   list : SUBSET Nat, todo : SUBSET Nat]

TypeOK ==
  /\ file \in [Paths -> File] /\ docs \in Seq(Doc)
  /\ log \in Seq(Log) /\ Len(log) = Len(docs)
  /\ req \in [Requesters -> Requests \cup {Idle}]
  /\ client \in [Clients -> Provider]
  /\ written \in SUBSET (Edits \cup DirectTexts)

-----------------------------------------------------------------------------
(* The invariant, part by part.                                               *)

\* An operation of the service holds the lock from its first step to its last.
Holds(q) == q.phase \in Held /\ q.kind # "open"
LockOK   == \A r \in Requesters : req[r] # Idle /\ Holds(req[r]) => holder = r

\* A log restores to the latest snapshot and all the updates.
LogOK(l) ==
  /\ l.snapshots # {} /\ \E n \in Nat : Sequences(l) \subseteq 0..n
  /\ \A x, y \in l.snapshots \cup l.updates : x.seq = y.seq => x = y
  /\ \A u \in l.updates, t \in l.snapshots : u.seq > t.seq
LogsOK == \A d \in DOMAIN log : LogOK(log[d])

\* The text of a document has been in a file.
InFile(d, L, W) == Text(d, Restored(L[d]).ops, Restored(L[d]).gone) \subseteq W

ShapeOK(q, n) ==
  /\ q.phase \in {"push", "reloaded"} \cup Flushing => q.doc \in 1..n
  /\ q.phase \in {"document", "create", "found", "push", "pushed"} => q.kind \in {"open"} \cup Updates
  /\ q.phase \in {"push", "pushed"} => q.kind # "open"
  /\ q.phase \in {"next", "git", "reload", "reloaded"} => q.kind \in {"flush", "discard"}
  /\ q.kind = "open" => q.phase \in {"document", "create", "found"}
  /\ q.kind = "persist" => \A o \in q.update : o.doc = q.doc
  /\ q.phase = "create" => q.file \in File /\ q.file.text # NoFile
  /\ q.phase \in {"version", "reloaded"} => q.file \in File
  /\ q.list \subseteq 1..n /\ q.todo \subseteq q.list
  /\ q.kind \in {"open"} \cup Updates => q.list = {}
  /\ q.kind \in {"flush", "discard"} => q.update = {}

PushOK(q, L) ==
  q.phase = "push" =>
    /\ \A n \in Sequences(L[q.doc]) : n < q.seq
    /\ q.ops = Restored(L[q.doc]).ops \cup q.update
    /\ q.gone = Restored(L[q.doc]).gone

FlushOK(q, L, W) ==
  /\ q.phase \in Flushing =>
       /\ q.ops = Restored(L[q.doc]).ops /\ q.gone = Restored(L[q.doc]).gone
       /\ q.update \subseteq q.ops
  /\ q.phase = "version" => InFile(q.doc, L, W)

DiscardOK(q, L, W) ==
  /\ q.phase \in {"next", "compare", "save", "version"} =>
       \A d \in q.list \ q.todo : InFile(d, L, W) \/ (d = q.doc /\ q.phase # "next")
  /\ q.phase = "git" => \A d \in q.list : InFile(d, L, W)
  /\ q.phase \in {"reload", "reloaded"} => \A d \in q.todo : InFile(d, L, W)

RequestOK(q, n, L, W) ==
  ShapeOK(q, n) /\ PushOK(q, L) /\ FlushOK(q, L, W) /\ DiscardOK(q, L, W)
RequestsOK == \A r \in Requesters : req[r] # Idle => RequestOK(req[r], Len(docs), log, written)

\* What a file holds, and what was deleted from a document, some file has held.
GoneOK(d, l, W) == \A o \in Restored(l).gone : o.doc = d => o.text \subseteq W
FilesOK   == \A p \in Paths : file[p].text # NoFile => file[p].text \subseteq written
DeletedOK == \A d \in DOMAIN log : GoneOK(d, log[d], written)

SavedOK ==
  \A c \in Clients : \A o \in client[c].saved :
    o.doc \in DOMAIN log /\ o \in Restored(log[o.doc]).ops /\ o.text \subseteq written

\* While a file is between its two services, the documents of both its paths are
\* strays; those that are to follow it wait at the old one.
RouteOK ==
  route # NoMove =>
    /\ Active(route.to) \subseteq stray /\ route.docs \subseteq stray
    /\ route.from = route.to => route.docs = {}
    /\ \A d \in route.docs : d \in DOMAIN docs /\ docs[d].path = route.from
AloneOK == \A p \in Paths : \A d, e \in Active(p) \ stray : d = e

-----------------------------------------------------------------------------
(* Logs.                                                                      *)

LEMMA Minimal ==
  ASSUME NEW S \in SUBSET Nat, S # {}
  PROVE  Min(S) \in S /\ \A y \in S : Min(S) =< y
<1> DEFINE R == {m \in Nat \X Nat : m[1] < m[2]}
<1>1. IsWellFoundedOn(R, Nat)  BY NatLessThanWellFounded DEF OpToRel
<1>2. PICK x \in S : \A y \in S : ~(<<y, x>> \in R)
  <2> HIDE DEF R
  <2> QED  BY <1>1, WFMin
<1>3. ASSUME NEW y \in S  PROVE x =< y
  <2>1. <<y, x>> \in Nat \X Nat /\ <<y, x>>[1] = y /\ <<y, x>>[2] = x  OBVIOUS
  <2>2. ~(y < x)  BY <1>2, <2>1
  <2>3. x \in Nat /\ y \in Nat  OBVIOUS
  <2>4. QED  BY <2>2, <2>3
<1>4. QED  BY <1>3 DEF Min

LEMMA Maximal ==
  ASSUME NEW n \in Nat, NEW S \in SUBSET (0..n), S # {}
  PROVE  Max(S) \in S /\ \A y \in S : y =< Max(S)
<1> DEFINE T == {m \in 0..n : n - m \in S}
<1>1. T \in SUBSET Nat /\ T # {}
  <2>1. PICK x \in S : TRUE  OBVIOUS
  <2>2. x \in 0..n  BY <2>1
  <2>3. n - x \in 0..n /\ n - (n - x) = x  BY <2>2
  <2>4. n - x \in T  BY <2>1, <2>3
  <2>5. T \subseteq 0..n  OBVIOUS
  <2>6. \A m \in 0..n : m \in Nat  OBVIOUS
  <2> HIDE DEF T
  <2>7. QED  BY <2>4, <2>5, <2>6
<1>2. PICK t \in T : \A y \in T : t =< y  BY <1>1, Minimal
<1>3. ASSUME NEW s \in S  PROVE n - t >= s
  <2>1. s \in 0..n /\ n - s \in 0..n /\ n - (n - s) = s  OBVIOUS
  <2>2. n - s \in T  BY <2>1
  <2>3. t =< n - s /\ t \in 0..n  BY <1>2, <2>2
  <2>4. QED  BY <2>1, <2>3
<1>4. n - t \in S  OBVIOUS
<1>5. QED  BY <1>3, <1>4 DEF Max

LEMMA NextExceeds ==
  ASSUME NEW l \in Log, LogOK(l)
  PROVE  NextSequence(l) \in Nat /\ \A n \in Sequences(l) : n < NextSequence(l)
<1> DEFINE S == {0} \cup Sequences(l)
<1>1. PICK n \in Nat : Sequences(l) \subseteq 0..n  BY DEF LogOK
<1>2. S \subseteq 0..n /\ 0 \in S /\ Sequences(l) \subseteq S  BY <1>1
<1>3. \A m \in 0..n : m \in Nat  OBVIOUS
<1> HIDE DEF S
<1>4. Max(S) \in S /\ \A y \in S : y =< Max(S)  BY <1>2, Maximal
<1>5. NextSequence(l) = Max(S) + 1  BY DEF NextSequence, S
<1>6. Max(S) \in Nat /\ \A y \in S : y \in Nat  BY <1>2, <1>3, <1>4
<1>7. \A m \in Sequences(l) : m \in Nat /\ m =< Max(S)  BY <1>2, <1>4, <1>6
<1> DEFINE max == Max(S)
<1> HIDE DEF max
<1>8. \A m \in Sequences(l) : m < max + 1  BY <1>6, <1>7 DEF max
<1>9. QED  BY <1>5, <1>6, <1>8 DEF max

LEMMA LatestSnapshot ==
  ASSUME NEW l \in Log, LogOK(l)
  PROVE  Latest(l) \in l.snapshots /\ \A t \in l.snapshots : t.seq <= Latest(l).seq
<1> DEFINE S == {t.seq : t \in l.snapshots}
<1>1. PICK n \in Nat : Sequences(l) \subseteq 0..n  BY DEF LogOK
<1>2. S \subseteq 0..n /\ S # {}  BY <1>1 DEF LogOK, Sequences
<1>3. PICK s \in l.snapshots : \A t \in l.snapshots : t.seq <= s.seq
  <2> HIDE DEF S
  <2>1. Max(S) \in S /\ \A y \in S : y =< Max(S)  BY <1>2, Maximal
  <2>2. PICK s \in l.snapshots : s.seq = Max(S)  BY <2>1 DEF S
  <2>3. QED  BY <2>1, <2>2 DEF S
<1>4. QED  BY <1>3 DEF Latest

\* What is restored: the latest snapshot, and every update.
LEMMA RestoredParts ==
  ASSUME NEW l \in Log, LogOK(l)
  PROVE  /\ \A o : o \in Restored(l).ops
                  <=> o \in Latest(l).ops \/ \E u \in l.updates : o \in u.ops
         /\ \A o : o \in Restored(l).gone
                  <=> o \in Latest(l).gone \/ \E u \in l.updates : o \in u.gone
         /\ Restored(l).ops \in SUBSET Ops /\ Restored(l).gone \in SUBSET Ops
<1> DEFINE s == Latest(l)
<1>1. s \in l.snapshots  BY LatestSnapshot
<1>2. {u \in l.updates : u.seq > s.seq} = l.updates  BY <1>1 DEF LogOK
<1> HIDE DEF s
<1>3. Restored(l) = [ops  |-> UNION {x.ops : x \in {s} \cup l.updates},
                     gone |-> UNION {x.gone : x \in {s} \cup l.updates}]
  BY <1>2 DEF Restored, s
<1>4. \A x \in {s} \cup l.updates : x.ops \in SUBSET Ops /\ x.gone \in SUBSET Ops
  BY <1>1 DEF Log, Entry
<1>5. /\ Restored(l).ops  = UNION {x.ops : x \in {s} \cup l.updates}
      /\ Restored(l).gone = UNION {x.gone : x \in {s} \cup l.updates}
  BY <1>3
<1>6. /\ \A o : o \in Restored(l).ops <=> o \in s.ops \/ \E u \in l.updates : o \in u.ops
      /\ \A o : o \in Restored(l).gone <=> o \in s.gone \/ \E u \in l.updates : o \in u.gone
  BY <1>5
<1>7. QED  BY <1>4, <1>6 DEF s

Pushed(l, n, u) == [l EXCEPT !.updates = @ \cup {[seq |-> n, ops |-> u, gone |-> {}]}]
Compact(l, ops, gone) ==
  [snapshots |-> l.snapshots \cup {[seq |-> NextSequence(l), ops |-> ops, gone |-> gone]},
   updates |-> {}]
Fresh(t, d) ==
  [snapshots |-> {[seq |-> 0, gone |-> {}, ops |-> {Insertion(t, d, 0)}]}, updates |-> {}]

LEMMA PushedLog ==
  ASSUME NEW l \in Log, LogOK(l), NEW n \in Nat, NEW u \in SUBSET Ops,
         \A m \in Sequences(l) : m < n
  PROVE  /\ Pushed(l, n, u) \in Log /\ LogOK(Pushed(l, n, u))
         /\ Restored(Pushed(l, n, u)).ops = Restored(l).ops \cup u
         /\ Restored(Pushed(l, n, u)).gone = Restored(l).gone
<1> DEFINE x == [seq |-> n, ops |-> u, gone |-> {}]
           k == Pushed(l, n, u)
<1>1. x \in Entry /\ x.seq = n /\ x.ops = u /\ x.gone = {}  BY DEF Entry
<1> HIDE DEF x
<1>2. k.snapshots = l.snapshots /\ k.updates = l.updates \cup {x} /\ k \in Log
  BY <1>1 DEF Pushed, x, Log
<1> HIDE DEF k
<1>3. \A e \in l.snapshots \cup l.updates : e.seq \in Nat /\ e.seq < n
  BY DEF Sequences, Log, Entry
<1>4. Sequences(k) \subseteq 0..n
  <2>1. \A e \in k.snapshots \cup k.updates : e.seq \in 0..n  BY <1>1, <1>2, <1>3
  <2>2. QED  BY <2>1 DEF Sequences
<1>5. \A a, b \in k.snapshots \cup k.updates : a.seq = b.seq => a = b
  BY <1>1, <1>2, <1>3 DEF LogOK
<1>6. \A a \in k.updates, t \in k.snapshots : a.seq > t.seq
  BY <1>1, <1>2, <1>3 DEF LogOK
<1>7. LogOK(k)  BY <1>2, <1>4, <1>5, <1>6 DEF LogOK
<1>8. Latest(k) = Latest(l)  BY <1>2 DEF Latest
<1>9. Restored(k).ops = Restored(l).ops \cup u /\ Restored(k).gone = Restored(l).gone
  <2>1. /\ \A o : o \in Restored(k).ops
                  <=> o \in Latest(k).ops \/ \E e \in k.updates : o \in e.ops
        /\ \A o : o \in Restored(k).gone
                  <=> o \in Latest(k).gone \/ \E e \in k.updates : o \in e.gone
        /\ Restored(k).gone \in SUBSET Ops
    BY <1>2, <1>7, RestoredParts
  <2>2. /\ \A o : o \in Restored(l).ops
                  <=> o \in Latest(l).ops \/ \E e \in l.updates : o \in e.ops
        /\ \A o : o \in Restored(l).gone
                  <=> o \in Latest(l).gone \/ \E e \in l.updates : o \in e.gone
        /\ Restored(l).gone \in SUBSET Ops
    BY RestoredParts
  <2>3. \A o : o \in Restored(k).ops <=> o \in Restored(l).ops \/ o \in u
    BY <1>1, <1>2, <1>8, <2>1, <2>2
  <2>4. \A o : o \in Restored(k).gone <=> o \in Restored(l).gone
    BY <1>1, <1>2, <1>8, <2>1, <2>2
  <2>5. Restored(k).gone = Restored(l).gone  BY <2>1, <2>2, <2>4
  <2>6. QED  BY <2>3, <2>5
<1>10. QED  BY <1>2, <1>7, <1>9 DEF k

LEMMA CompactLog ==
  ASSUME NEW l \in Log, LogOK(l), NEW ops \in SUBSET Ops, NEW gone \in SUBSET Ops
  PROVE  /\ Compact(l, ops, gone) \in Log /\ LogOK(Compact(l, ops, gone))
         /\ Restored(Compact(l, ops, gone)).ops = ops
         /\ Restored(Compact(l, ops, gone)).gone = gone
<1> DEFINE n == NextSequence(l)
           x == [seq |-> n, ops |-> ops, gone |-> gone]
           k == Compact(l, ops, gone)
<1>1. n \in Nat /\ \A m \in Sequences(l) : m < n  BY NextExceeds
<1> HIDE DEF n
<1>2. x \in Entry /\ x.seq = n /\ x.ops = ops /\ x.gone = gone  BY <1>1 DEF Entry
<1> HIDE DEF x
<1>3. k.snapshots = l.snapshots \cup {x} /\ k.updates = {} /\ k \in Log
  BY <1>2 DEF Compact, x, n, Log
<1> HIDE DEF k
<1>4. \A e \in l.snapshots : e.seq \in Nat /\ e.seq < n
  BY <1>1 DEF Sequences, Log, Entry
<1>5. Sequences(k) \subseteq 0..n
  <2>1. \A e \in k.snapshots \cup k.updates : e.seq \in 0..n  BY <1>1, <1>2, <1>3, <1>4
  <2>2. QED  BY <2>1 DEF Sequences
<1>6. \A a, b \in k.snapshots \cup k.updates : a.seq = b.seq => a = b
  BY <1>1, <1>2, <1>3, <1>4 DEF LogOK
<1>7. LogOK(k)  BY <1>1, <1>3, <1>5, <1>6 DEF LogOK
<1>8. Latest(k) = x
  <2>1. Latest(k) \in k.snapshots /\ \A t \in k.snapshots : t.seq <= Latest(k).seq
    BY <1>3, <1>7, LatestSnapshot
  <2>2. QED  BY <1>1, <1>2, <1>3, <1>4, <2>1
<1>9. Restored(k).ops = ops /\ Restored(k).gone = gone
  <2>1. /\ \A o : o \in Restored(k).ops
                  <=> o \in Latest(k).ops \/ \E e \in k.updates : o \in e.ops
        /\ \A o : o \in Restored(k).gone
                  <=> o \in Latest(k).gone \/ \E e \in k.updates : o \in e.gone
        /\ Restored(k).ops \in SUBSET Ops /\ Restored(k).gone \in SUBSET Ops
    BY <1>3, <1>7, RestoredParts
  <2>2. QED  BY <1>2, <1>3, <1>8, <2>1
<1>10. QED  BY <1>3, <1>7, <1>9 DEF k

LEMMA FreshLog ==
  ASSUME NEW t \in Texts, NEW d \in Nat
  PROVE  /\ Fresh(t, d) \in Log /\ LogOK(Fresh(t, d))
         /\ Restored(Fresh(t, d)).gone = {}
<1> DEFINE x == [seq |-> 0, gone |-> {}, ops |-> {Insertion(t, d, 0)}]
           k == Fresh(t, d)
<1>1. Insertion(t, d, 0) \in Ops  BY DEF Insertion, Ops, Texts
<1>2. x \in Entry /\ x.seq = 0 /\ x.gone = {}  BY <1>1 DEF Entry
<1> HIDE DEF x
<1>3. k.snapshots = {x} /\ k.updates = {} /\ k \in Log  BY <1>2 DEF Fresh, x, Log
<1> HIDE DEF k
<1>4. Sequences(k) \subseteq 0..0  BY <1>2, <1>3 DEF Sequences
<1>5. LogOK(k)  BY <1>2, <1>3, <1>4 DEF LogOK
<1>6. Restored(k).gone = {}
  <2>1. Latest(k) = x  BY <1>3, <1>5, LatestSnapshot
  <2>2. QED  BY <1>2, <1>3, <1>5, <2>1, RestoredParts
<1>7. QED  BY <1>3, <1>5, <1>6 DEF k

-----------------------------------------------------------------------------
(* What updates of a request change.                                          *)

At(q, f)         == [q EXCEPT !.phase = f]
Creating(q, f)   == [q EXCEPT !.phase = "create", !.file = f]
Listed(q, S)     == [q EXCEPT !.phase = "next", !.list = S, !.todo = S]
Merged(q, d, n, o, g) ==
  [q EXCEPT !.phase = "push", !.doc = d, !.seq = n, !.ops = o, !.gone = g]
Visiting(q, d, p, o, g) ==
  [q EXCEPT !.phase = "compare", !.doc = d, !.path = p, !.todo = @ \ {d}, !.ops = o, !.gone = g]
Written(q, f)    == [q EXCEPT !.phase = "version", !.file = f]
Restarted(q)     == [q EXCEPT !.phase = "reload", !.todo = q.list]
Dropped(q, d)    == [q EXCEPT !.todo = @ \ {d}]
Replaced(q, d, f) == [q EXCEPT !.phase = "reloaded", !.doc = d, !.file = f]
Replayed(q)      == [q EXCEPT !.phase = "reload", !.todo = @ \ {q.doc}]

Busy(q) == q \in Requests /\ q # Idle
SameWork(w, q) == w.kind = q.kind /\ w.update = q.update /\ w.path = q.path
SameText(w, q) == w.ops = q.ops /\ w.gone = q.gone /\ w.doc = q.doc
SameList(w, q) == w.list = q.list /\ w.todo = q.todo

LEMMA NotIdle == \A q \in Requests : Busy(q) /\ q.phase # "idle"
  BY DEF Busy, Requests, Idle, Held, Flushing

LEMMA AtFields ==
  ASSUME NEW q \in Requests, NEW f \in {"enter"} \cup Held
  PROVE  /\ Busy(At(q, f)) /\ At(q, f).phase = f /\ SameWork(At(q, f), q)
         /\ SameText(At(q, f), q) /\ SameList(At(q, f), q) /\ At(q, f).file = q.file
         /\ At(q, f).seq = q.seq
<1>1. At(q, f) \in Requests  BY DEF Requests, At
<1>2. QED  BY <1>1, NotIdle DEF Requests, At, SameWork, SameText, SameList

LEMMA CreatingFields ==
  ASSUME NEW q \in Requests, NEW f \in File
  PROVE  /\ Busy(Creating(q, f)) /\ Creating(q, f).phase = "create"
         /\ SameWork(Creating(q, f), q) /\ SameText(Creating(q, f), q)
         /\ SameList(Creating(q, f), q) /\ Creating(q, f).file = f
<1>1. Creating(q, f) \in Requests  BY DEF Requests, Creating, Held
<1>2. QED  BY <1>1, NotIdle DEF Requests, Creating, SameWork, SameText, SameList

LEMMA ListedFields ==
  ASSUME NEW q \in Requests, NEW S \in SUBSET Nat
  PROVE  /\ Busy(Listed(q, S)) /\ Listed(q, S).phase = "next" /\ SameWork(Listed(q, S), q)
         /\ Listed(q, S).list = S /\ Listed(q, S).todo = S
<1>1. Listed(q, S) \in Requests  BY DEF Requests, Listed, Held
<1>2. QED  BY <1>1, NotIdle DEF Requests, Listed, SameWork

LEMMA MergedFields ==
  ASSUME NEW q \in Requests, NEW d \in Nat, NEW n \in Nat,
         NEW o \in SUBSET Ops, NEW g \in SUBSET Ops
  PROVE  LET w == Merged(q, d, n, o, g) IN
         /\ Busy(w) /\ w.phase = "push" /\ SameWork(w, q) /\ SameList(w, q)
         /\ w.doc = d /\ w.seq = n /\ w.ops = o /\ w.gone = g
<1>1. Merged(q, d, n, o, g) \in Requests  BY DEF Requests, Merged, Held
<1>2. QED  BY <1>1, NotIdle DEF Requests, Merged, SameWork, SameList

\* w compares the document d of the file p, whose content is o and g.
Compares(w, q, d, p, o, g) ==
  /\ Busy(w) /\ w.phase = "compare" /\ w.kind = q.kind /\ w.update = q.update /\ w.path = p
  /\ w.list = q.list /\ w.todo = q.todo \ {d}
  /\ w.doc = d /\ w.ops = o /\ w.gone = g

LEMMA VisitingFields ==
  ASSUME NEW q \in Requests, NEW d \in Nat, NEW p \in Paths,
         NEW o \in SUBSET Ops, NEW g \in SUBSET Ops
  PROVE  Compares(Visiting(q, d, p, o, g), q, d, p, o, g)
<1>1. Visiting(q, d, p, o, g) \in Requests
  BY DEF Requests, Visiting, Held, Flushing
<1>2. QED  BY <1>1, NotIdle DEF Requests, Visiting, Compares

LEMMA WrittenFields ==
  ASSUME NEW q \in Requests, NEW f \in File
  PROVE  LET w == Written(q, f) IN
         /\ Busy(w) /\ w.phase = "version" /\ SameWork(w, q) /\ SameText(w, q)
         /\ SameList(w, q) /\ w.file = f
<1>1. Written(q, f) \in Requests  BY DEF Requests, Written, Held, Flushing
<1>2. QED  BY <1>1, NotIdle DEF Requests, Written, SameWork, SameText, SameList

LEMMA RestartedFields ==
  ASSUME NEW q \in Requests
  PROVE  LET w == Restarted(q) IN
         /\ Busy(w) /\ w.phase = "reload" /\ SameWork(w, q)
         /\ w.list = q.list /\ w.todo = q.list
<1>1. Restarted(q) \in Requests  BY DEF Requests, Restarted, Held
<1>2. QED  BY <1>1, NotIdle DEF Requests, Restarted, SameWork

LEMMA DroppedFields ==
  ASSUME NEW q \in Requests, NEW d
  PROVE  LET w == Dropped(q, d) IN
         /\ Busy(w) /\ w.phase = q.phase /\ SameWork(w, q)
         /\ w.list = q.list /\ w.todo = q.todo \ {d}
<1>1. Dropped(q, d) \in Requests  BY DEF Requests, Dropped
<1>2. QED  BY <1>1, NotIdle DEF Requests, Dropped, SameWork

LEMMA ReplacedFields ==
  ASSUME NEW q \in Requests, NEW d \in Nat, NEW f \in File
  PROVE  LET w == Replaced(q, d, f) IN
         /\ Busy(w) /\ w.phase = "reloaded" /\ SameWork(w, q) /\ SameList(w, q)
         /\ w.doc = d /\ w.file = f
<1>1. Replaced(q, d, f) \in Requests  BY DEF Requests, Replaced, Held
<1>2. QED  BY <1>1, NotIdle DEF Requests, Replaced, SameWork, SameList

LEMMA ReplayedFields ==
  ASSUME NEW q \in Requests
  PROVE  LET w == Replayed(q) IN
         /\ Busy(w) /\ w.phase = "reload" /\ SameWork(w, q)
         /\ w.list = q.list /\ w.todo = q.todo \ {q.doc}
<1>1. Replayed(q) \in Requests  BY DEF Requests, Replayed, Held
<1>2. QED  BY <1>1, NotIdle DEF Requests, Replayed, SameWork

\* A new request of a client or the timer holds nothing and passes.
LEMMA NewRequest ==
  ASSUME NEW k \in Updates \cup {"open", "flush", "discard"}, NEW p \in Paths,
         NEW d \in Nat, NEW u \in SUBSET Ops, NEW b \in Nat,
         k = "persist" => \A o \in u : o.doc = d,
         k \in {"flush", "discard"} => u = {}
  PROVE  /\ LET w == [Request(k, p, d, u) EXCEPT !.base = b] IN
              k # "open" => Busy(w) /\ ~Holds(w)
                              /\ \A n \in Nat : \A L, W : RequestOK(w, n, L, W)
         /\ LET w == Request(k, p, d, u) IN
              k # "open" => Busy(w) /\ ~Holds(w)
                              /\ \A n \in Nat : \A L, W : RequestOK(w, n, L, W)
         /\ LET w == [Request(k, p, d, u) EXCEPT !.phase = "document"] IN
              k = "open" => Busy(w) /\ ~Holds(w)
                              /\ \A n \in Nat : \A L, W : RequestOK(w, n, L, W)
<1> DEFINE a == Request(k, p, d, u)
<1>1. a \in Requests /\ a.phase = "enter" /\ a.kind = k /\ a.update = u /\ a.doc = d
      /\ a.list = {} /\ a.todo = {}
  BY DEF Request, Requests
<1> HIDE DEF a
<1>2. At(a, "document") \in Requests  BY <1>1, AtFields DEF Busy, Held
<1>3. [a EXCEPT !.base = b] \in Requests  BY <1>1 DEF Requests
<1>4. ASSUME NEW w \in Requests, w.phase = "enter", w.kind = k, k # "open", w.update = u,
             w.doc = d, w.list = {}, w.todo = {}
      PROVE  Busy(w) /\ ~Holds(w) /\ \A n \in Nat : \A L, W : RequestOK(w, n, L, W)
  BY <1>4, NotIdle
  DEF Holds, Held, RequestOK, ShapeOK, PushOK, FlushOK, DiscardOK, Flushing
<1>5. ASSUME NEW w \in Requests, w.phase = "document", w.kind = k, k = "open", w.update = u,
             w.doc = d, w.list = {}, w.todo = {}
      PROVE  Busy(w) /\ ~Holds(w) /\ \A n \in Nat : \A L, W : RequestOK(w, n, L, W)
  BY <1>5, NotIdle
  DEF Holds, Held, RequestOK, ShapeOK, PushOK, FlushOK, DiscardOK, Flushing
<1>6. /\ [a EXCEPT !.base = b].phase = "enter" /\ [a EXCEPT !.base = b].kind = k
      /\ [a EXCEPT !.base = b].update = u /\ [a EXCEPT !.base = b].doc = d
      /\ [a EXCEPT !.base = b].list = {} /\ [a EXCEPT !.base = b].todo = {}
  BY <1>1 DEF Requests
<1>7. /\ At(a, "document").phase = "document" /\ At(a, "document").kind = k
      /\ At(a, "document").update = u /\ At(a, "document").doc = d
      /\ At(a, "document").list = {} /\ At(a, "document").todo = {}
  BY <1>1, AtFields DEF Held, SameWork, SameText, SameList
<1>8. k # "open" => /\ Busy([a EXCEPT !.base = b]) /\ ~Holds([a EXCEPT !.base = b])
                    /\ \A n \in Nat : \A L, W : RequestOK([a EXCEPT !.base = b], n, L, W)
  <2> DEFINE w == [a EXCEPT !.base = b]
  <2> HIDE DEF w
  <2> QED  BY <1>3, <1>4, <1>6 DEF w
<1>9. k # "open" => Busy(a) /\ ~Holds(a) /\ \A n \in Nat : \A L, W : RequestOK(a, n, L, W)
  BY <1>1, <1>4
<1>10. k = "open" => /\ Busy(At(a, "document")) /\ ~Holds(At(a, "document"))
                     /\ \A n \in Nat : \A L, W : RequestOK(At(a, "document"), n, L, W)
  BY <1>2, <1>5, <1>7
<1>11. QED  BY <1>8, <1>9, <1>10 DEF a, At

-----------------------------------------------------------------------------
(* The inductive invariant, in two halves: the requests and the data.         *)

ReqOK  == /\ req \in [Requesters -> Requests \cup {Idle}]
          /\ LockOK /\ RequestsOK
DataOK == /\ file \in [Paths -> File] /\ docs \in Seq(Doc)
          /\ log \in Seq(Log) /\ Len(log) = Len(docs)
          /\ client \in [Clients -> Provider]
          /\ written \in SUBSET (Edits \cup DirectTexts)
          /\ LogsOK /\ FilesOK /\ DeletedOK /\ SavedOK
Inv == ReqOK /\ DataOK

Data == <<file, docs, log, client, written>>

\* A request at work: what the invariant says of it.
LEMMA AtWork ==
  ASSUME Inv, NEW r \in Requesters, req[r].phase \in {"enter"} \cup Held
  PROVE  /\ Busy(req[r]) /\ RequestOK(req[r], Len(docs), log, written)
         /\ Holds(req[r]) => holder = r
<1>1. req[r] \in Requests \cup {Idle}  BY DEF Inv, ReqOK
<1>2. Idle.phase = "idle" /\ "idle" \notin {"enter"} \cup Held  BY DEF Idle, Held, Flushing
<1>3. Busy(req[r])  BY <1>1, <1>2, NotIdle
<1>4. QED  BY <1>3 DEF Busy, Inv, ReqOK, LockOK, RequestsOK

LEMMA RequestKept ==
  ASSUME NEW q, NEW n \in Nat, NEW n2 \in Nat, NEW L, NEW L2, NEW W, NEW W2,
         RequestOK(q, n, L, W), n <= n2, W \subseteq W2,
         (\A d \in 1..n : L2[d] = L[d]) \/ ~Holds(q)
  PROVE  RequestOK(q, n2, L2, W2)
<1>1. ShapeOK(q, n2)
  <2>1. 1..n \subseteq 1..n2  OBVIOUS
  <2>2. ShapeOK(q, n)  BY DEF RequestOK
  <2>3. QED  BY <2>1, <2>2 DEF ShapeOK
<1>2. CASE ~Holds(q)
  BY <1>1, <1>2 DEF RequestOK, ShapeOK, PushOK, FlushOK, DiscardOK, Holds, Held, Flushing
<1>3. CASE \A d \in 1..n : L2[d] = L[d]
  <2>1. q.list \subseteq 1..n /\ q.todo \subseteq q.list
        /\ (q.phase \in {"push", "reloaded"} \cup Flushing => q.doc \in 1..n)
    BY DEF RequestOK, ShapeOK
  <2>2. \A d \in 1..n : InFile(d, L, W) => InFile(d, L2, W2)  BY <1>3 DEF InFile
  <2>3. PushOK(q, L2)  BY <1>3, <2>1 DEF RequestOK, PushOK
  <2>4. FlushOK(q, L2, W2)
    <3>1. q.phase \in Flushing => L2[q.doc] = L[q.doc] /\ q.doc \in 1..n  BY <1>3, <2>1
    <3>2. q.phase = "version" => q.phase \in Flushing  BY DEF Flushing
    <3>3. QED  BY <2>2, <3>1, <3>2 DEF RequestOK, FlushOK
  <2>5. DiscardOK(q, L2, W2)  BY <2>1, <2>2 DEF RequestOK, DiscardOK
  <2>6. QED  BY <1>1, <2>3, <2>4, <2>5 DEF RequestOK
<1>4. QED  BY <1>2, <1>3

\* One request changes; the others keep what is said of them.
LEMMA RequestSteps ==
  ASSUME ReqOK, NEW r \in Requesters, Len(docs) \in Nat, Len(docs') \in Nat,
         req' = [req EXCEPT ![r] = req'[r]], req'[r] = Idle \/ Busy(req'[r]),
         req'[r] # Idle => RequestOK(req'[r], Len(docs'), log', written'),
         req'[r] # Idle /\ Holds(req'[r]) => holder' = r,
         \A s \in Requesters \ {r} : holder = s => holder' = s,
         Len(docs) <= Len(docs'), written \subseteq written',
         (\A d \in 1..Len(docs) : log'[d] = log[d]) \/ holder = r
  PROVE  ReqOK'
<1>1. req \in [Requesters -> Requests \cup {Idle}]  BY DEF ReqOK
<1>2. \A s \in Requesters : req'[s] = IF s = r THEN req'[r] ELSE req[s]  BY <1>1
<1>3. req' \in [Requesters -> Requests \cup {Idle}]  BY <1>1 DEF Busy
<1>4. ASSUME NEW s \in Requesters, s # r, req[s] # Idle
      PROVE  RequestOK(req[s], Len(docs'), log', written')
  <2>1. RequestOK(req[s], Len(docs), log, written)  BY <1>4 DEF ReqOK, RequestsOK
  <2>2. holder = r => ~Holds(req[s])  BY <1>4 DEF ReqOK, LockOK
  <2>3. QED  BY <2>1, <2>2, RequestKept
<1>5. RequestsOK'  BY <1>2, <1>4 DEF RequestsOK
<1>6. LockOK'
  <2>1. ASSUME NEW s \in Requesters, req'[s] # Idle, Holds(req'[s])  PROVE holder' = s
    BY <1>2, <2>1 DEF ReqOK, LockOK
  <2>2. QED  BY <2>1 DEF LockOK
<1>7. QED  BY <1>3, <1>5, <1>6 DEF ReqOK

\* A request leaves.
LEMMA LeavesStep ==
  ASSUME ReqOK, NEW r \in Requesters, Leaves(r), Len(docs) \in Nat, Len(docs') = Len(docs),
         written \subseteq written',
         (\A d \in 1..Len(docs) : log'[d] = log[d]) \/ holder = r
  PROVE  ReqOK'
<1>1. req'[r] = Idle  BY DEF ReqOK, Leaves
<1>2. req' = [req EXCEPT ![r] = req'[r]]  BY <1>1 DEF Leaves
<1>3. \A s \in Requesters \ {r} : holder = s => holder' = s  BY DEF Leaves
<1>4. Len(docs') \in Nat /\ Len(docs) <= Len(docs')  OBVIOUS
<1>5. QED  BY <1>1, <1>2, <1>3, <1>4, RequestSteps

LEMMA LenDocs == ASSUME DataOK PROVE /\ Len(docs) \in Nat /\ DOMAIN docs = 1..Len(docs)
                                     /\ Len(log) \in Nat /\ DOMAIN log = 1..Len(docs)
                                     /\ Len(log) = Len(docs)
  BY DEF DataOK

LEMMA DataStill == ASSUME DataOK, UNCHANGED Data PROVE DataOK'
  BY DEF DataOK, Data, LogsOK, FilesOK, DeletedOK, SavedOK

LEMMA RefuseStep == ASSUME Inv, NEW r \in Requesters, Refuse(r) PROVE Inv'
<1>1. Leaves(r) /\ UNCHANGED Data  BY DEF Refuse, Data
<1>2. Len(docs) \in Nat /\ Len(docs') = Len(docs) /\ written' = written /\ log' = log
  BY <1>1, LenDocs DEF Inv, Data
<1>3. ReqOK'  BY <1>1, <1>2, LeavesStep DEF Inv
<1>4. QED  BY <1>1, <1>3, DataStill DEF Inv

\* Another log takes the place of one, under a request that holds the lock.
LEMMA LogStep ==
  ASSUME DataOK, NEW d \in DOMAIN log, NEW m \in Log, LogOK(m), GoneOK(d, m, written),
         Restored(log[d]).ops \subseteq Restored(m).ops,
         log' = [log EXCEPT ![d] = m], UNCHANGED <<file, docs, client, written>>
  PROVE  DataOK'
<1>1. log' \in Seq(Log) /\ Len(log') = Len(log) /\ DOMAIN log' = DOMAIN log
      /\ \A e \in DOMAIN log : log'[e] = IF e = d THEN m ELSE log[e]
  BY DEF DataOK
<1>2. LogsOK'  BY <1>1 DEF DataOK, LogsOK
<1>3. DeletedOK'  BY <1>1 DEF DataOK, DeletedOK
<1>4. SavedOK'
  <2>1. ASSUME NEW c \in Clients, NEW o \in client[c].saved
        PROVE  o.doc \in DOMAIN log' /\ o \in Restored(log'[o.doc]).ops /\ o.text \subseteq written'
    BY <1>1, <2>1 DEF DataOK, SavedOK
  <2>2. QED  BY <2>1 DEF SavedOK
<1>5. QED  BY <1>1, <1>2, <1>3, <1>4 DEF DataOK, FilesOK

-----------------------------------------------------------------------------
(* Every action keeps the invariant.                                          *)

LEMMA CallStep ==
  ASSUME Inv, NEW c \in Requesters, req[c] = Idle, NEW w, Busy(w), ~Holds(w),
         \A n \in Nat : \A L, W : RequestOK(w, n, L, W),
         req' = [req EXCEPT ![c] = w], holder' = holder, UNCHANGED Data
  PROVE  Inv'
<1>1. Len(docs) \in Nat /\ Len(docs') = Len(docs) /\ written' = written /\ log' = log
  BY LenDocs DEF Inv, Data
<1>2. req'[c] = w  BY DEF Inv, ReqOK
<1>3. Busy(req'[c]) /\ ~Holds(req'[c]) /\ RequestOK(req'[c], Len(docs'), log', written')
  BY <1>1, <1>2
<1>4. req' = [req EXCEPT ![c] = req'[c]]  BY <1>2
<1>5. /\ Len(docs') \in Nat /\ Len(docs) <= Len(docs') /\ written \subseteq written'
      /\ \A d \in 1..Len(docs) : log'[d] = log[d]
      /\ \A s \in Requesters \ {c} : holder = s => holder' = s
  BY <1>1
<1>6. ReqOK'  BY <1>1, <1>3, <1>4, <1>5, RequestSteps DEF Inv
<1>7. QED  BY <1>6, DataStill DEF Inv

LEMMA OwnEdits ==
  ASSUME DataOK, NEW c \in Clients
  PROVE  /\ Own(c) \in SUBSET Ops /\ \A o \in Own(c) : o.doc = client[c].doc
         /\ client[c].doc \in Nat /\ client[c].path \in Paths /\ client[c].base \in Nat
  BY DEF DataOK, Own, Provider

LEMMA CallerSteps ==
  ASSUME Inv, NEW c \in Clients,
         \/ \E p \in Paths : Open(c, p) \/ DiscardPaths(c, p)
         \/ SendLive(c) \/ Persist(c) \/ Apply(c)
  PROVE  Inv'
<1>0. c \in Requesters  BY DEF Requesters
<1>1. ASSUME NEW p \in Paths, Open(c, p)  PROVE Inv'
  <2> DEFINE w == [Request("open", p, 0, {}) EXCEPT !.phase = "document"]
  <2>1. Busy(w) /\ ~Holds(w) /\ \A n \in Nat : \A L, W : RequestOK(w, n, L, W)
    BY NewRequest DEF Updates
  <2>2. req[c] = Idle /\ req' = [req EXCEPT ![c] = w] /\ holder' = holder /\ UNCHANGED Data
    BY <1>1 DEF Open, Call, Data
  <2> HIDE DEF w
  <2>3. QED  BY <1>0, <2>1, <2>2, CallStep
<1>2. ASSUME NEW p \in Paths, DiscardPaths(c, p)  PROVE Inv'
  <2> DEFINE w == Request("discard", p, 0, {})
  <2>1. Busy(w) /\ ~Holds(w) /\ \A n \in Nat : \A L, W : RequestOK(w, n, L, W)
    BY NewRequest DEF Updates
  <2>2. req[c] = Idle /\ req' = [req EXCEPT ![c] = w] /\ holder' = holder /\ UNCHANGED Data
    BY <1>2 DEF DiscardPaths, Data
  <2> HIDE DEF w
  <2>3. QED  BY <1>0, <2>1, <2>2, CallStep
<1>3. CASE SendLive(c)
  <2>1. PICK u \in SUBSET Own(c) : Call(c, Request("live", client[c].path, 0, u))
    BY <1>3 DEF SendLive
  <2> DEFINE w == Request("live", client[c].path, 0, u)
  <2>2. u \in SUBSET Ops  BY OwnEdits DEF Inv
  <2>3. Busy(w) /\ ~Holds(w) /\ \A n \in Nat : \A L, W : RequestOK(w, n, L, W)
    BY <2>2, OwnEdits, NewRequest DEF Updates, Inv
  <2>4. req[c] = Idle /\ req' = [req EXCEPT ![c] = w] /\ holder' = holder /\ UNCHANGED Data
    BY <2>1 DEF Call, Data
  <2> HIDE DEF w
  <2>5. QED  BY <1>0, <2>3, <2>4, CallStep
<1>4. CASE Persist(c)
  <2> DEFINE w == Request("persist", client[c].path, client[c].doc, Own(c))
  <2>1. Busy(w) /\ ~Holds(w) /\ \A n \in Nat : \A L, W : RequestOK(w, n, L, W)
    BY OwnEdits, NewRequest DEF Updates, Inv
  <2>2. req[c] = Idle /\ req' = [req EXCEPT ![c] = w] /\ holder' = holder /\ UNCHANGED Data
    BY <1>4 DEF Persist, Call, Data
  <2> HIDE DEF w
  <2>3. QED  BY <1>0, <2>1, <2>2, CallStep
<1>5. CASE Apply(c)
  <2>1. PICK o \in Own(c) :
          Call(c, [Request("apply", client[c].path, 0, {o}) EXCEPT !.base = client[c].base])
    BY <1>5 DEF Apply
  <2> DEFINE w == [Request("apply", client[c].path, 0, {o}) EXCEPT !.base = client[c].base]
  <2>2. {o} \in SUBSET Ops  BY OwnEdits DEF Inv
  <2>3. Busy(w) /\ ~Holds(w) /\ \A n \in Nat : \A L, W : RequestOK(w, n, L, W)
    BY <2>2, OwnEdits, NewRequest DEF Updates, Inv
  <2>4. req[c] = Idle /\ req' = [req EXCEPT ![c] = w] /\ holder' = holder /\ UNCHANGED Data
    BY <2>1 DEF Call, Data
  <2> HIDE DEF w
  <2>5. QED  BY <1>0, <2>3, <2>4, CallStep
<1>6. QED  BY <1>1, <1>2, <1>3, <1>4, <1>5

LEMMA TimerStep == ASSUME Inv, TimerFires PROVE Inv'
<1> DEFINE w == Request("flush", FirstPath, 0, {})
<1>1. Busy(w) /\ ~Holds(w) /\ \A n \in Nat : \A L, W : RequestOK(w, n, L, W)
  BY NewRequest, CollaborationAssumption DEF Updates, CollaborationAssumption
<1>2. Flusher \in Requesters /\ req[Flusher] = Idle /\ req' = [req EXCEPT ![Flusher] = w]
      /\ holder' = holder /\ UNCHANGED Data
  BY DEF TimerFires, Data, Requesters
<1> HIDE DEF w
<1>3. QED  BY <1>1, <1>2, CallStep

\* A request goes on under the lock it holds, or (open) without any.
LEMMA GoesOn ==
  ASSUME Inv, NEW r \in Requesters, req[r].phase \in Held, NEW w, Busy(w),
         w.kind = req[r].kind, req' = [req EXCEPT ![r] = w], holder' = holder,
         UNCHANGED <<docs, written>>, log' = log \/ req[r].kind # "open",
         RequestOK(w, Len(docs), log', written)
  PROVE  ReqOK'
<1>1. Len(docs) \in Nat /\ Len(docs') = Len(docs) /\ written' = written
  BY LenDocs DEF Inv
<1>2. req'[r] = w /\ req' = [req EXCEPT ![r] = req'[r]]  BY DEF Inv, ReqOK
<1>3. Holds(req[r]) => holder = r  BY AtWork
<1>4. Holds(w) => Holds(req[r])  BY DEF Holds
<1>5. log' = log \/ holder = r  BY <1>3 DEF Holds
<1>6. RequestOK(req'[r], Len(docs'), log', written')  BY <1>1, <1>2
<1>7. req'[r] # Idle /\ Holds(req'[r]) => holder' = r  BY <1>2, <1>3, <1>4
<1>8. (\A d \in 1..Len(docs) : log'[d] = log[d]) \/ holder = r  BY <1>5
<1>9. /\ Len(docs') \in Nat /\ Len(docs) <= Len(docs') /\ written \subseteq written'
      /\ \A s \in Requesters \ {r} : holder = s => holder' = s
  BY <1>1
<1>10. QED  BY <1>1, <1>2, <1>6, <1>7, <1>8, <1>9, RequestSteps DEF Inv

LEMMA EnterStep == ASSUME Inv, NEW r \in Requesters, Enter(r) PROVE Inv'
<1> DEFINE q == req[r]
           S == IF q.kind = "discard" THEN Active(q.path)
                ELSE {d \in DOMAIN docs : docs[d].status = "active"}
           w == IF q.kind \in {"flush", "discard"} THEN Listed(q, S) ELSE At(q, "document")
<1>1. Busy(q) /\ q \in Requests /\ RequestOK(q, Len(docs), log, written)
  BY AtWork DEF Enter, Busy
<1>2. S \subseteq 1..Len(docs) /\ 1..Len(docs) \subseteq Nat /\ Len(docs) \in Nat
  BY LenDocs DEF Active, Inv
<1>3. UNCHANGED Data /\ holder = NoOne /\ holder' = r /\ q.phase = "enter"
  BY DEF Enter, MayEnter, Data
<1>4. req' = [req EXCEPT ![r] = w]  BY DEF Enter, Listed, At
<1> HIDE DEF S
<1>5. Busy(w) /\ RequestOK(w, Len(docs), log, written)
  <2>1. CASE q.kind \in {"flush", "discard"}
    <3>1. /\ Busy(w) /\ w.phase = "next" /\ SameWork(w, q) /\ w.list = S /\ w.todo = S
      BY <1>1, <1>2, <2>1, ListedFields
    <3>2. ShapeOK(w, Len(docs))
      BY <1>1, <1>2, <2>1, <3>1 DEF RequestOK, ShapeOK, SameWork, Flushing, Updates
    <3>3. PushOK(w, log) /\ FlushOK(w, log, written) /\ DiscardOK(w, log, written)
      BY <3>1 DEF PushOK, FlushOK, DiscardOK, Flushing
    <3>4. QED  BY <3>1, <3>2, <3>3 DEF RequestOK
  <2>2. CASE q.kind \notin {"flush", "discard"}
    <3>1. /\ Busy(w) /\ w.phase = "document" /\ SameWork(w, q) /\ SameList(w, q) /\ w.doc = q.doc
      BY <1>1, <2>2, AtFields DEF Held, SameText
    <3>2. q.kind \in Updates
      BY <1>1, <1>3, <2>2 DEF Requests, RequestOK, ShapeOK, Updates
    <3>3. ShapeOK(w, Len(docs))
      BY <1>1, <1>3, <2>2, <3>1, <3>2
      DEF RequestOK, ShapeOK, SameWork, SameList, Flushing, Updates
    <3>4. PushOK(w, log) /\ FlushOK(w, log, written) /\ DiscardOK(w, log, written)
      BY <3>1 DEF PushOK, FlushOK, DiscardOK, Flushing
    <3>5. QED  BY <3>1, <3>3, <3>4 DEF RequestOK
  <2>3. QED  BY <2>1, <2>2
<1> HIDE DEF w
<1>6. req'[r] = w /\ req' = [req EXCEPT ![r] = req'[r]]  BY <1>4 DEF Inv, ReqOK
<1>7. \A s \in Requesters : holder # s
  BY <1>3, CollaborationAssumption DEF CollaborationAssumption, Requesters
<1>8. Len(docs') = Len(docs) /\ log' = log /\ written' = written  BY <1>3 DEF Data
<1>9. ReqOK'  BY <1>2, <1>3, <1>5, <1>6, <1>7, <1>8, RequestSteps DEF Inv
<1>10. QED  BY <1>3, <1>9, DataStill DEF Inv

LEMMA ReadFileStep == ASSUME Inv, NEW r \in Requesters, ReadFile(r) PROVE Inv'
<1> DEFINE q == req[r]
           w == IF Found(q.path) # 0 THEN At(q, "found") ELSE Creating(q, file[q.path])
<1>1. Busy(q) /\ q \in Requests /\ RequestOK(q, Len(docs), log, written) /\ q.phase = "document"
  BY AtWork DEF ReadFile, Busy, Held
<1>2. CASE Refuse(r)  BY <1>2, RefuseStep
<1>3. CASE ~Refuse(r)
  <2>1. /\ file[q.path].text # NoFile /\ UNCHANGED Data /\ holder' = holder
        /\ req' = [req EXCEPT ![r] = w]
    BY <1>3 DEF ReadFile, Data, At, Creating
  <2>2. file[q.path] \in File  BY <1>1 DEF Inv, DataOK, Requests
  <2>3. Busy(w) /\ w.kind = q.kind /\ RequestOK(w, Len(docs), log, written)
    <3>1. /\ Busy(w) /\ SameWork(w, q) /\ SameList(w, q) /\ w.doc = q.doc
          /\ w.phase = "found" \/ (w.phase = "create" /\ w.file = file[q.path])
      BY <1>1, <2>2, AtFields, CreatingFields DEF Held, SameText
    <3> HIDE DEF w
    <3>2. ShapeOK(w, Len(docs))
      BY <1>1, <2>1, <2>2, <3>1
      DEF RequestOK, ShapeOK, SameWork, SameList, Flushing, Updates
    <3>3. PushOK(w, log) /\ FlushOK(w, log, written) /\ DiscardOK(w, log, written)
      BY <3>1 DEF PushOK, FlushOK, DiscardOK, Flushing
    <3>4. QED  BY <3>1, <3>2, <3>3 DEF RequestOK, SameWork
  <2> HIDE DEF w
  <2>4. log' = log /\ UNCHANGED <<docs, written>> /\ q.phase \in Held
    BY <1>1, <2>1 DEF Data, Held
  <2>5. ReqOK'
    <3>1. RequestOK(w, Len(docs), log', written)  BY <2>3, <2>4
    <3>2. QED  BY <2>1, <2>3, <2>4, <3>1, GoesOn
  <2>6. QED  BY <2>1, <2>5, DataStill DEF Inv
<1>4. QED  BY <1>2, <1>3

LEMMA FoundActive ==
  ASSUME DataOK, NEW p
  PROVE  /\ Active(p) \subseteq 1..Len(docs) /\ Active(p) \in SUBSET Nat
         /\ Found(p) # 0 => Found(p) \in Active(p)
         /\ Found(p) = 0 => Active(p) = {}
<1>1. Active(p) \subseteq 1..Len(docs)  BY LenDocs DEF Active
<1>2. Active(p) \in SUBSET Nat  BY <1>1, LenDocs
<1>3. Active(p) # {} => Found(p) = Min(Active(p)) /\ Min(Active(p)) \in Active(p)
  BY <1>2, Minimal DEF Found
<1>4. Active(p) = {} => Found(p) = 0  BY DEF Found
<1>5. 0 \notin Active(p)  BY <1>1
<1>6. QED  BY <1>1, <1>2, <1>3, <1>4, <1>5

\* A new document and its log: the others keep theirs.
LEMMA DocumentAdded ==
  ASSUME DataOK, NEW x \in Doc, NEW m \in Log, LogOK(m), Restored(m).gone = {},
         docs' = Append(docs, x), log' = Append(log, m), UNCHANGED <<file, client, written>>
  PROVE  /\ DataOK' /\ Len(docs') = Len(docs) + 1
         /\ \A d \in 1..Len(docs) : log'[d] = log[d]
<1>1. docs' \in Seq(Doc) /\ log' \in Seq(Log) /\ Len(docs') = Len(docs) + 1
      /\ Len(log') = Len(log) + 1 /\ Len(log) = Len(docs) /\ Len(docs) \in Nat
  BY DEF DataOK
<1>2. DOMAIN log' = 1..(Len(log) + 1) /\ DOMAIN log = 1..Len(log)
  BY DEF DataOK
<1>3. \A d \in DOMAIN log' : log'[d] = IF d = Len(log) + 1 THEN m ELSE log[d]
  BY DEF DataOK
<1>4. \A d \in DOMAIN log : d \in DOMAIN log' /\ log'[d] = log[d]
  BY <1>1, <1>2, <1>3
<1>5. \A d \in DOMAIN log' : d \in DOMAIN log \/ log'[d] = m
  BY <1>1, <1>2, <1>3
<1>6. LogsOK'  BY <1>4, <1>5 DEF DataOK, LogsOK
<1>7. DeletedOK'
  <2>1. ASSUME NEW d \in DOMAIN log'  PROVE GoneOK(d, log'[d], written')
    BY <1>4, <1>5 DEF DataOK, DeletedOK, GoneOK
  <2>2. QED  BY <2>1 DEF DeletedOK
<1>8. SavedOK'
  <2>1. ASSUME NEW c \in Clients, NEW o \in client[c].saved
        PROVE  o.doc \in DOMAIN log' /\ o \in Restored(log'[o.doc]).ops /\ o.text \subseteq written'
    BY <1>4 DEF DataOK, SavedOK
  <2>2. QED  BY <2>1 DEF SavedOK
<1>9. QED  BY <1>1, <1>2, <1>4, <1>6, <1>7, <1>8 DEF DataOK, FilesOK

LEMMA CreateDocumentStep == ASSUME Inv, NEW r \in Requesters, CreateDocument(r) PROVE Inv'
<1> DEFINE q == req[r]
           w == At(q, "found")
           n == Len(docs)
           x == [path |-> q.path, status |-> "active", version |-> q.file.version]
           m == Fresh(q.file.text, n + 1)
<1>1. /\ Busy(q) /\ q \in Requests /\ RequestOK(q, n, log, written) /\ q.phase = "create"
      /\ Holds(q) => holder = r
  BY AtWork DEF CreateDocument, Busy, Held
<1>2. q.file \in File /\ q.file.text \in Texts /\ n \in Nat
  BY <1>1, LenDocs DEF RequestOK, ShapeOK, File, Inv
<1>3. /\ Busy(w) /\ w.phase = "found" /\ SameWork(w, q) /\ SameList(w, q) /\ w.doc = q.doc
  BY <1>1, AtFields DEF Held, SameText
<1>4. UNCHANGED <<file, holder, client, written>> /\ req' = [req EXCEPT ![r] = w]
  BY DEF CreateDocument, At
<1>5. \/ UNCHANGED <<docs, log>>
      \/ docs' = Append(docs, x) /\ log' = Append(log, m)
  BY DEF CreateDocument, Fresh
<1>6. x \in Doc /\ m \in Log /\ LogOK(m) /\ Restored(m).gone = {}
  BY <1>1, <1>2, FreshLog DEF Doc, File, Requests
<1> HIDE DEF x, m
<1>7. /\ DataOK' /\ Len(docs') \in Nat /\ n <= Len(docs')
      /\ \A d \in 1..n : log'[d] = log[d]
  <2>1. CASE UNCHANGED <<docs, log>>
    BY <1>2, <1>4, <2>1, DataStill DEF Inv, Data
  <2>2. CASE docs' = Append(docs, x) /\ log' = Append(log, m)
    <3>1. /\ DataOK' /\ Len(docs') = n + 1 /\ \A d \in 1..n : log'[d] = log[d]
      BY <1>4, <1>6, <2>2, DocumentAdded DEF Inv
    <3>2. QED  BY <1>2, <3>1
  <2>3. QED  BY <1>5, <2>1, <2>2
<1> HIDE DEF w
<1>8. RequestOK(w, n, log, written)
  <2>1. ShapeOK(w, n)
    BY <1>1, <1>3 DEF RequestOK, ShapeOK, SameWork, SameList, Flushing, Updates
  <2>2. PushOK(w, log) /\ FlushOK(w, log, written) /\ DiscardOK(w, log, written)
    BY <1>3 DEF PushOK, FlushOK, DiscardOK, Flushing
  <2>3. QED  BY <2>1, <2>2 DEF RequestOK
<1>9. RequestOK(w, Len(docs'), log', written')
  <2>1. written \subseteq written'  BY <1>4
  <2>2. QED  BY <1>2, <1>7, <1>8, <2>1, RequestKept
<1>10. req'[r] = w /\ req' = [req EXCEPT ![r] = req'[r]]  BY <1>4 DEF Inv, ReqOK
<1>11. Holds(w) => holder = r  BY <1>1, <1>3 DEF Holds, Held, SameWork
<1>12. written \subseteq written' /\ \A s \in Requesters \ {r} : holder = s => holder' = s
  BY <1>4
<1>13. ReqOK'
  <2>1. req'[r] = Idle \/ Busy(req'[r])  BY <1>3, <1>10
  <2>2. req'[r] # Idle => RequestOK(req'[r], Len(docs'), log', written')  BY <1>9, <1>10
  <2>3. req'[r] # Idle /\ Holds(req'[r]) => holder' = r  BY <1>4, <1>10, <1>11
  <2>4. Len(docs) \in Nat /\ Len(docs) <= Len(docs') /\ Len(docs') \in Nat
        /\ \A d \in 1..Len(docs) : log'[d] = log[d]
    BY <1>2, <1>7
  <2>5. QED  BY <1>10, <1>12, <2>1, <2>2, <2>3, <2>4, RequestSteps DEF Inv
<1>14. QED  BY <1>7, <1>13 DEF Inv

\* A client learns something, or counts more as saved.
LEMMA ClientStep ==
  ASSUME DataOK, client' \in [Clients -> Provider], UNCHANGED <<file, docs, log, written>>,
         \A c \in Clients : \A o \in client'[c].saved :
           o \in client[c].saved \/ (/\ o.doc \in DOMAIN log /\ o \in Restored(log[o.doc]).ops
                                     /\ o.text \subseteq written)
  PROVE  DataOK'
<1>1. SavedOK'
  <2>1. ASSUME NEW c \in Clients, NEW o \in client'[c].saved
        PROVE  o.doc \in DOMAIN log' /\ o \in Restored(log'[o.doc]).ops /\ o.text \subseteq written'
    BY DEF DataOK, SavedOK
  <2>2. QED  BY <2>1 DEF SavedOK
<1>2. QED  BY <1>1 DEF DataOK, LogsOK, FilesOK, DeletedOK

LEMMA AnswerStep == ASSUME Inv, NEW r \in Requesters, Answer(r) PROVE Inv'
<1> DEFINE d == Found(req[r].path)
           k == [client[r] EXCEPT !.doc = d, !.path = req[r].path, !.base = docs[d].version]
<1>1. Busy(req[r]) /\ req[r].path \in Paths  BY AtWork DEF Answer, Busy, Held, Requests
<1>2. d \in 1..Len(docs) /\ d \in Nat /\ d \in DOMAIN docs
  BY FoundActive, LenDocs DEF Answer, Inv
<1>3. client' = [client EXCEPT ![r] = k] /\ Leaves(r) /\ UNCHANGED <<file, docs, log, written>>
  BY DEF Answer
<1> HIDE DEF d
<1>4. docs[d].version \in Nat
  <2>1. docs \in Seq(Doc)  BY DEF Inv, DataOK
  <2>2. docs[d] \in Doc  BY <1>2, <2>1
  <2>3. QED  BY <2>2 DEF Doc
<1>5. r \in Clients => k \in Provider /\ k.saved = client[r].saved
  BY <1>1, <1>2, <1>4 DEF Inv, DataOK, Provider
<1> HIDE DEF k
<1>6. client' \in [Clients -> Provider] /\ \A c \in Clients : client'[c].saved = client[c].saved
  BY <1>3, <1>5 DEF Inv, DataOK
<1>7. DataOK'  BY <1>3, <1>6, ClientStep DEF Inv
<1>8. ReqOK'
  <2>1. Len(docs) \in Nat /\ Len(docs') = Len(docs) /\ written' = written /\ log' = log
    BY <1>3, LenDocs DEF Inv
  <2>2. QED  BY <1>3, <2>1, LeavesStep DEF Inv
<1>9. QED  BY <1>7, <1>8 DEF Inv

LEMMA EditStep == ASSUME Inv, NEW c \in Clients, NEW e \in Edits, Edit(c, e) PROVE Inv'
<1> DEFINE k == [client[c] EXCEPT !.edits = @ \cup {Insertion({e}, client[c].doc, 0)}]
<1>1. client' = [client EXCEPT ![c] = k] /\ UNCHANGED <<file, docs, log, holder, req, written>>
  BY DEF Edit
<1>2. Insertion({e}, client[c].doc, 0) \in Ops
  BY DEF Insertion, Ops, Inv, DataOK, Provider
<1>3. k \in Provider /\ k.saved = client[c].saved
  BY <1>2 DEF Inv, DataOK, Provider
<1> HIDE DEF k
<1>4. client' \in [Clients -> Provider] /\ \A d \in Clients : client'[d].saved = client[d].saved
  BY <1>1, <1>3 DEF Inv, DataOK
<1>5. DataOK'  BY <1>1, <1>4, ClientStep DEF Inv
<1>6. QED  BY <1>1, <1>5 DEF Inv, ReqOK, LockOK, RequestsOK

LEMMA MergeStep == ASSUME Inv, NEW r \in Requesters, Merge(r) PROVE Inv'
<1> DEFINE q == req[r]
           d == Found(q.path)
           l == log[d]
           w == Merged(q, d, NextSequence(l), Restored(l).ops \cup q.update, Restored(l).gone)
<1>1. /\ Busy(q) /\ q \in Requests /\ RequestOK(q, Len(docs), log, written)
      /\ q.phase = "found" /\ q.kind # "open" /\ d # 0
  BY AtWork DEF Merge, Busy, Held
<1>2. CASE Refuse(r)  BY <1>2, RefuseStep
<1>3. CASE ~Refuse(r)
  <2>1. /\ Acceptable(q, d) /\ req' = [req EXCEPT ![r] = w]
        /\ UNCHANGED Data /\ holder' = holder
    BY <1>3 DEF Merge, Data, Merged
  <2>2. d \in 1..Len(docs) /\ d \in Nat  BY <1>1, FoundActive DEF Inv
  <2> HIDE DEF d
  <2>3. l \in Log /\ LogOK(l)  BY <2>2, LenDocs DEF Inv, DataOK, LogsOK
  <2>4. NextSequence(l) \in Nat /\ \A n \in Sequences(l) : n < NextSequence(l)
    BY <2>3, NextExceeds
  <2>5. Restored(l).ops \in SUBSET Ops /\ Restored(l).gone \in SUBSET Ops
        /\ q.update \in SUBSET Ops
    BY <1>1, <2>3, RestoredParts DEF Requests
  <2>6. /\ Busy(w) /\ w.phase = "push" /\ SameWork(w, q) /\ SameList(w, q)
        /\ w.doc = d /\ w.seq = NextSequence(l)
        /\ w.ops = Restored(l).ops \cup q.update /\ w.gone = Restored(l).gone
    <3> DEFINE n == NextSequence(l)  o == Restored(l).ops \cup q.update  g == Restored(l).gone
    <3>1. n \in Nat /\ o \in SUBSET Ops /\ g \in SUBSET Ops  BY <2>4, <2>5
    <3>2. w = Merged(q, d, n, o, g)  OBVIOUS
    <3> HIDE DEF n, o, g, w
    <3>3. /\ Busy(w) /\ w.phase = "push" /\ SameWork(w, q) /\ SameList(w, q)
          /\ w.doc = d /\ w.seq = n /\ w.ops = o /\ w.gone = g
      BY <1>1, <2>2, <3>1, <3>2, MergedFields
    <3>4. QED  BY <3>3 DEF n, o, g
  <2> HIDE DEF w
  <2>7. RequestOK(w, Len(docs), log, written)
    <3>1. ShapeOK(w, Len(docs))
      <4>1. q.kind = "persist" => q.doc = d  BY <2>1 DEF Acceptable
      <4>2. q.kind \in Updates  BY <1>1 DEF RequestOK, ShapeOK
      <4>3. QED
        BY <1>1, <2>2, <2>6, <4>1, <4>2
        DEF RequestOK, ShapeOK, SameWork, SameList, Flushing, Updates
    <3>2. PushOK(w, log)  BY <2>4, <2>6 DEF PushOK, SameWork
    <3>3. FlushOK(w, log, written) /\ DiscardOK(w, log, written)
      BY <2>6 DEF FlushOK, DiscardOK, Flushing
    <3>4. QED  BY <3>1, <3>2, <3>3 DEF RequestOK
  <2>8. log' = log /\ UNCHANGED <<docs, written>> /\ q.phase \in Held /\ w.kind = q.kind
    BY <1>1, <2>1, <2>6 DEF Data, Held, SameWork
  <2>9. RequestOK(w, Len(docs), log', written)  BY <2>7, <2>8
  <2>10. ReqOK'  BY <2>1, <2>6, <2>8, <2>9, GoesOn
  <2>11. QED  BY <2>1, <2>10, DataStill DEF Inv
<1>4. QED  BY <1>2, <1>3

LEMMA PushUpdateStep == ASSUME Inv, NEW r \in Requesters, PushUpdate(r) PROVE Inv'
<1> DEFINE q == req[r]
           d == q.doc
           l == log[d]
           m == Pushed(l, q.seq, q.update)
           w == At(q, "pushed")
<1>1. /\ Busy(q) /\ q \in Requests /\ RequestOK(q, Len(docs), log, written)
      /\ q.phase = "push" /\ q.phase \in Held
  BY AtWork DEF PushUpdate, Busy, Held
<1>2. /\ log' = [log EXCEPT ![d] = m] /\ req' = [req EXCEPT ![r] = w]
      /\ UNCHANGED <<file, docs, client, written, holder>>
  BY DEF PushUpdate, Pushed, At
<1>3. d \in 1..Len(docs) /\ d \in DOMAIN log /\ q.kind # "open"
  BY <1>1, LenDocs DEF RequestOK, ShapeOK, Inv
<1>4. l \in Log /\ LogOK(l) /\ GoneOK(d, l, written)
  BY <1>3 DEF Inv, DataOK, LogsOK, DeletedOK
<1>5. q.seq \in Nat /\ q.update \in SUBSET Ops /\ \A n \in Sequences(l) : n < q.seq
  BY <1>1 DEF Requests, RequestOK, PushOK
<1>6. /\ m \in Log /\ LogOK(m) /\ Restored(m).ops = Restored(l).ops \cup q.update
      /\ Restored(m).gone = Restored(l).gone
  BY <1>4, <1>5, PushedLog
<1> HIDE DEF m
<1>7. DataOK'
  <2>1. GoneOK(d, m, written)  BY <1>4, <1>6 DEF GoneOK
  <2>2. Restored(l).ops \subseteq Restored(m).ops  BY <1>6
  <2>3. QED  BY <1>2, <1>3, <1>6, <2>1, <2>2, LogStep DEF Inv
<1>8. /\ Busy(w) /\ w.phase = "pushed" /\ SameWork(w, q)
      /\ SameText(w, q) /\ SameList(w, q)
  BY <1>1, AtFields DEF Held, Flushing
<1> HIDE DEF w
<1>9. log'[d] = m  BY <1>2, <1>3
<1>10. RequestOK(w, Len(docs), log', written)
  <2>1. ShapeOK(w, Len(docs))
    BY <1>1, <1>3, <1>8
    DEF RequestOK, ShapeOK, SameWork, SameList, SameText, Flushing, Updates
  <2>2. FlushOK(w, log', written)
    BY <1>1, <1>6, <1>8, <1>9 DEF FlushOK, RequestOK, PushOK, SameWork, SameText, Flushing
  <2>3. PushOK(w, log') /\ DiscardOK(w, log', written)
    BY <1>8 DEF PushOK, DiscardOK
  <2>4. QED  BY <2>1, <2>2, <2>3 DEF RequestOK
<1>11. w.kind = q.kind  BY <1>8 DEF SameWork
<1>12. ReqOK'  BY <1>1, <1>2, <1>3, <1>8, <1>10, <1>11, GoesOn
<1>13. QED  BY <1>7, <1>12 DEF Inv

\* Texts: what remains, and with what was deleted, all that was inserted.
LEMMA TextType ==
  ASSUME NEW O \in SUBSET Ops, NEW G, NEW d
  PROVE  Text(d, O, G) \in Texts
<1>1. \A o \in O : o.text \in SUBSET (Edits \cup DirectTexts)  BY DEF Ops
<1>2. QED  BY <1>1 DEF Text, Texts

LEMMA TextParts ==
  ASSUME NEW O, NEW G, NEW d, NEW W
  PROVE  Text(d, O, G) \subseteq W <=> \A o \in O : o.doc = d /\ o \notin G => o.text \subseteq W
  BY DEF Text

LEMMA InsertedWritten ==
  ASSUME NEW d, NEW L, NEW W, InFile(d, L, W), GoneOK(d, L[d], W),
         NEW o \in Restored(L[d]).ops, o.doc = d
  PROVE  o.text \subseteq W
  BY TextParts DEF InFile, GoneOK

LEMMA AfterPushStep == ASSUME Inv, NEW r \in Requesters, AfterPush(r) PROVE Inv'
<1> DEFINE q == req[r]
           d == q.doc
           l == log[d]
           m == IF Cardinality(l.updates) >= CompactAfter THEN Compact(l, q.ops, q.gone) ELSE l
           w == At(q, "compare")
<1>1. /\ Busy(q) /\ q \in Requests /\ RequestOK(q, Len(docs), log, written)
      /\ q.phase = "pushed" /\ q.phase \in Held /\ (Holds(q) => holder = r)
  BY AtWork DEF AfterPush, Busy, Held, Flushing
<1>2. d \in 1..Len(docs) /\ d \in DOMAIN log /\ q.kind # "open" /\ Len(docs) \in Nat
  BY <1>1, LenDocs DEF RequestOK, ShapeOK, Flushing, Inv
<1>3. log' = [log EXCEPT ![d] = m] /\ UNCHANGED <<file, docs, client, written>>
  <2>1. log \in Seq(Log)  BY DEF Inv, DataOK
  <2>2. log = [log EXCEPT ![d] = l]  BY <1>2, <2>1
  <2>3. QED  BY <2>2 DEF AfterPush, Compacted, Compact
<1>4. l \in Log /\ LogOK(l) /\ GoneOK(d, l, written)
  BY <1>2 DEF Inv, DataOK, LogsOK, DeletedOK
<1>5. /\ q.ops \in SUBSET Ops /\ q.gone \in SUBSET Ops
      /\ q.ops = Restored(l).ops /\ q.gone = Restored(l).gone /\ q.update \subseteq q.ops
  BY <1>1 DEF Requests, RequestOK, FlushOK, Flushing
<1>6. m \in Log /\ LogOK(m) /\ Restored(m).ops = q.ops /\ Restored(m).gone = q.gone
  BY <1>4, <1>5, CompactLog
<1> HIDE DEF m
<1>7. DataOK'
  <2>1. GoneOK(d, m, written)  BY <1>4, <1>5, <1>6 DEF GoneOK
  <2>2. Restored(l).ops \subseteq Restored(m).ops  BY <1>5, <1>6
  <2>3. QED  BY <1>2, <1>3, <1>6, <2>1, <2>2, LogStep DEF Inv
<1>8. CASE q.kind = "live"
  <2>1. Leaves(r)  BY <1>8 DEF AfterPush
  <2>2. holder = r /\ Len(docs') = Len(docs) /\ written \subseteq written'
    BY <1>1, <1>2, <1>3 DEF Holds
  <2>3. ReqOK'  BY <1>2, <2>1, <2>2, LeavesStep DEF Inv
  <2>4. QED  BY <1>7, <2>3 DEF Inv
<1>9. CASE q.kind # "live"
  <2>1. req' = [req EXCEPT ![r] = w] /\ holder' = holder
    BY <1>9 DEF AfterPush, At
  <2>2. /\ Busy(w) /\ w.phase = "compare" /\ SameWork(w, q)
        /\ SameText(w, q) /\ SameList(w, q)
    BY <1>1, AtFields DEF Held, Flushing
  <2> HIDE DEF w
  <2>3. log'[d] = m  BY <1>2, <1>3 DEF Inv, DataOK
  <2>4. RequestOK(w, Len(docs), log', written)
    <3>1. ShapeOK(w, Len(docs))
      BY <1>1, <1>2, <2>2
      DEF RequestOK, ShapeOK, SameWork, SameList, SameText, Flushing, Updates
    <3>2. FlushOK(w, log', written)
      BY <1>5, <1>6, <2>2, <2>3 DEF FlushOK, SameWork, SameText
    <3>3. PushOK(w, log')  BY <2>2 DEF PushOK
    <3>4. w.list = {}  BY <1>1, <2>2 DEF RequestOK, ShapeOK, SameList
    <3>5. DiscardOK(w, log', written)  BY <2>2, <3>4 DEF DiscardOK
    <3>6. QED  BY <3>1, <3>2, <3>3, <3>5 DEF RequestOK
  <2>5. w.kind = q.kind  BY <2>2 DEF SameWork
  <2>6. ReqOK'  BY <1>1, <1>2, <1>3, <2>1, <2>2, <2>4, <2>5, GoesOn
  <2>7. QED  BY <1>7, <2>6 DEF Inv
<1>10. QED  BY <1>8, <1>9

LEMMA NextDocumentStep == ASSUME Inv, NEW r \in Requesters, NextDocument(r) PROVE Inv'
<1> DEFINE q == req[r]
           n == Len(docs)
           d == Min(q.todo)
           l == log[d]
           g == At(q, "git")
           w == Visiting(q, d, docs[d].path, Restored(l).ops, Restored(l).gone)
<1>1. /\ Busy(q) /\ q \in Requests /\ RequestOK(q, n, log, written)
      /\ q.phase = "next" /\ q.phase \in Held
  BY AtWork DEF NextDocument, Busy, Held
<1>2. /\ q.kind \in {"flush", "discard"} /\ q.list \subseteq 1..n /\ q.todo \subseteq q.list
      /\ q.todo \in SUBSET Nat /\ q.update = {} /\ n \in Nat
      /\ \A e \in q.list \ q.todo : InFile(e, log, written)
  BY <1>1, LenDocs DEF Requests, RequestOK, ShapeOK, DiscardOK, Inv
<1>3. UNCHANGED Data /\ DataOK'
  <2>1. UNCHANGED Data  BY DEF NextDocument, Data
  <2>2. QED  BY <2>1, DataStill DEF Inv
<1>4. log' = log /\ UNCHANGED <<docs, written>>  BY <1>3 DEF Data
<1>5. CASE q.todo = {} /\ q.kind = "flush"
  <2>1. Leaves(r)  BY <1>5 DEF NextDocument
  <2>2. Len(docs') = Len(docs) /\ written \subseteq written'  BY <1>4
  <2>3. QED  BY <1>2, <1>3, <1>4, <2>1, <2>2, LeavesStep DEF Inv
<1>6. CASE q.todo = {} /\ q.kind # "flush"
  <2>1. req' = [req EXCEPT ![r] = g] /\ holder' = holder  BY <1>6 DEF NextDocument, At
  <2>2. Busy(g) /\ g.phase = "git" /\ SameWork(g, q) /\ SameText(g, q) /\ SameList(g, q)
    BY <1>1, AtFields DEF Held
  <2> HIDE DEF g
  <2>3. ShapeOK(g, n)
    BY <1>1, <2>2 DEF RequestOK, ShapeOK, SameWork, SameList, SameText, Flushing, Updates
  <2>4. PushOK(g, log) /\ FlushOK(g, log, written)  BY <2>2 DEF PushOK, FlushOK, Flushing
  <2>5. DiscardOK(g, log, written)  BY <1>2, <1>6, <2>2 DEF DiscardOK, SameList
  <2>6. RequestOK(g, n, log', written)  BY <1>4, <2>3, <2>4, <2>5 DEF RequestOK
  <2>7. g.kind = q.kind  BY <2>2 DEF SameWork
  <2>8. ReqOK'  BY <1>1, <1>4, <2>1, <2>2, <2>6, <2>7, GoesOn
  <2>9. QED  BY <1>3, <2>8 DEF Inv
<1>7. CASE q.todo # {}
  <2>1. req' = [req EXCEPT ![r] = w] /\ holder' = holder  BY <1>7 DEF NextDocument, Visiting
  <2>2. d \in q.todo  BY <1>2, <1>7, Minimal
  <2>3. d \in 1..n /\ d \in DOMAIN docs /\ d \in DOMAIN log  BY <1>2, <2>2, LenDocs DEF Inv
  <2> HIDE DEF d
  <2>4. docs[d] \in Doc /\ l \in Log /\ LogOK(l)
    BY <2>3 DEF Inv, DataOK, LogsOK
  <2>5. docs[d].path \in Paths /\ d \in Nat  BY <1>2, <2>2, <2>4 DEF Doc
  <2>6. Restored(l).ops \in SUBSET Ops /\ Restored(l).gone \in SUBSET Ops
    BY <2>4, RestoredParts
  <2>7. /\ Busy(w) /\ w.phase = "compare" /\ w.kind = q.kind /\ w.update = q.update
        /\ w.list = q.list /\ w.todo = q.todo \ {d}
        /\ w.doc = d /\ w.ops = Restored(l).ops /\ w.gone = Restored(l).gone
    <3> DEFINE p == docs[d].path    o == Restored(l).ops    e == Restored(l).gone
    <3> HIDE DEF p, o, e
    <3>1. p \in Paths /\ d \in Nat /\ o \in SUBSET Ops /\ e \in SUBSET Ops
      BY <2>5, <2>6 DEF p, o, e
    <3>2. w = Visiting(q, d, p, o, e)  BY DEF p, o, e
    <3> HIDE DEF w
    <3>3. Compares(w, q, d, p, o, e)  BY <1>1, <3>1, <3>2, VisitingFields
    <3>4. QED  BY <3>3 DEF o, e, Compares
  <2> HIDE DEF w
  <2>8. ShapeOK(w, n)
    BY <1>1, <1>2, <2>3, <2>7 DEF RequestOK, ShapeOK, Flushing, Updates
  <2>9. FlushOK(w, log, written)  BY <1>2, <2>7 DEF FlushOK
  <2>10. PushOK(w, log) /\ DiscardOK(w, log, written)
    BY <1>2, <2>7 DEF PushOK, DiscardOK
  <2>11. RequestOK(w, n, log', written)  BY <1>4, <2>8, <2>9, <2>10 DEF RequestOK
  <2>12. w.kind = q.kind  BY <2>7
  <2>13. ReqOK'  BY <1>1, <1>4, <2>1, <2>7, <2>11, <2>12, GoesOn
  <2>14. QED  BY <1>3, <2>13 DEF Inv
<1>8. QED  BY <1>5, <1>6, <1>7

LEMMA FileStep ==
  ASSUME DataOK, file' \in [Paths -> File], docs' \in Seq(Doc), Len(docs') = Len(docs),
         written' \in SUBSET (Edits \cup DirectTexts), written \subseteq written', FilesOK',
         UNCHANGED <<log, client>>
  PROVE  DataOK'
<1>1. DeletedOK'
  <2>1. ASSUME NEW d \in DOMAIN log, NEW o \in Restored(log[d]).gone, o.doc = d
        PROVE  o.text \subseteq written'
    BY <2>1 DEF DataOK, DeletedOK, GoneOK
  <2>2. QED  BY <2>1 DEF DeletedOK, GoneOK
<1>2. SavedOK'
  <2>1. ASSUME NEW c \in Clients, NEW o \in client[c].saved
        PROVE  o.doc \in DOMAIN log /\ o \in Restored(log[o.doc]).ops /\ o.text \subseteq written'
    BY DEF DataOK, SavedOK
  <2>2. QED  BY <2>1 DEF SavedOK
<1>3. QED  BY <1>1, <1>2 DEF DataOK, LogsOK

\* A flush ends.
LEMMA FlushedStep ==
  ASSUME Inv, NEW r \in Requesters, req[r].phase \in {"compare", "version"}, Flushed(r, r),
         docs' \in Seq(Doc), Len(docs') = Len(docs), UNCHANGED <<file, log, written>>,
         InFile(req[r].doc, log, written)
  PROVE  Inv'
<1> DEFINE q == req[r]
           n == Len(docs)
           w == At(q, "next")
<1>1. /\ Busy(q) /\ q \in Requests /\ RequestOK(q, n, log, written) /\ q.phase \in Held
      /\ (Holds(q) => holder = r)
  BY AtWork DEF Busy, Held, Flushing
<1>2. q.doc \in 1..n /\ n \in Nat  BY <1>1, LenDocs DEF RequestOK, ShapeOK, Flushing, Inv
<1>3. FilesOK'  BY DEF Inv, DataOK, FilesOK
<1>4. CASE q.kind \in {"flush", "discard"}
  <2>1. req' = [req EXCEPT ![r] = w] /\ UNCHANGED <<holder, client>>
    BY <1>4 DEF Flushed, At
  <2>2. DataOK'  BY <1>3, <2>1, FileStep DEF Inv, DataOK
  <2>3. Busy(w) /\ w.phase = "next" /\ SameWork(w, q) /\ SameText(w, q) /\ SameList(w, q)
    BY <1>1, AtFields DEF Held
  <2> HIDE DEF w
  <2>4. ShapeOK(w, n)
    BY <1>1, <1>4, <2>3 DEF RequestOK, ShapeOK, SameWork, SameList, SameText, Flushing, Updates
  <2>5. PushOK(w, log) /\ FlushOK(w, log, written)  BY <2>3 DEF PushOK, FlushOK, Flushing
  <2>6. DiscardOK(w, log, written)
    BY <1>1, <2>3 DEF RequestOK, DiscardOK, SameList
  <2>7. RequestOK(w, n, log, written)  BY <2>4, <2>5, <2>6 DEF RequestOK
  <2>8. req'[r] = w /\ req' = [req EXCEPT ![r] = req'[r]]  BY <2>1 DEF Inv, ReqOK
  <2>9. Holds(w) => holder = r  BY <1>1, <2>3 DEF Holds, SameWork
  <2>10. ReqOK'
    <3>1. RequestOK(req'[r], Len(docs'), log', written')  BY <2>7, <2>8
    <3>2. req'[r] = Idle \/ Busy(req'[r])  BY <2>3, <2>8
    <3>3. req'[r] # Idle /\ Holds(req'[r]) => holder' = r  BY <2>1, <2>8, <2>9
    <3>4. /\ Len(docs') \in Nat /\ Len(docs) <= Len(docs') /\ written \subseteq written'
          /\ \A d \in 1..Len(docs) : log'[d] = log[d]
          /\ \A s \in Requesters \ {r} : holder = s => holder' = s
      BY <1>2, <2>1
    <3>5. QED  BY <1>2, <2>8, <3>1, <3>2, <3>3, <3>4, RequestSteps DEF Inv
  <2>11. QED  BY <2>2, <2>10 DEF Inv
<1>5. CASE q.kind \notin {"flush", "discard"}
  <2>1. /\ Leaves(r)
        /\ client' = IF q.kind = "persist"
                     THEN [client EXCEPT ![r].saved = SavedBy(r, q)] ELSE client
    BY <1>5 DEF Flushed
  <2>2. ReqOK'
    <3>1. written \subseteq written' /\ \A d \in 1..Len(docs) : log'[d] = log[d]  OBVIOUS
    <3>2. QED  BY <1>2, <2>1, <3>1, LeavesStep DEF Inv
  <2>3. client' \in [Clients -> Provider]
    <3>1. \A c \in Clients : client[c] \in Provider  BY DEF Inv, DataOK
    <3>2. r \in Clients => [client[r] EXCEPT !.saved = SavedBy(r, q)] \in Provider
      BY <1>1, <3>1 DEF SavedBy, Requests, Provider
    <3>3. QED  BY <2>1, <3>2 DEF Inv, DataOK
  <2>4. ASSUME NEW c \in Clients, NEW o \in client'[c].saved
        PROVE  o \in client[c].saved \/ (q.kind = "persist" /\ o \in q.update)
    <3>1. client[c] \in Provider  BY DEF Inv, DataOK
    <3>2. QED  BY <2>1, <3>1 DEF SavedBy, Inv, DataOK, Provider
  <2>5. ASSUME q.kind = "persist", NEW o \in q.update
        PROVE  o.doc \in DOMAIN log /\ o \in Restored(log[o.doc]).ops /\ o.text \subseteq written
    <3>1. o.doc = q.doc  BY <1>1, <2>5 DEF RequestOK, ShapeOK
    <3>2. o \in Restored(log[q.doc]).ops
      BY <1>1 DEF RequestOK, FlushOK, Flushing
    <3>3. q.doc \in DOMAIN log  BY <1>2, LenDocs DEF Inv
    <3>4. GoneOK(q.doc, log[q.doc], written)  BY <3>3 DEF Inv, DataOK, DeletedOK
    <3>5. o.text \subseteq written  BY <3>1, <3>2, <3>4, InsertedWritten
    <3>6. QED  BY <3>1, <3>2, <3>3, <3>5
  <2>6. SavedOK'
    <3>1. ASSUME NEW c \in Clients, NEW o \in client'[c].saved
          PROVE  o.doc \in DOMAIN log /\ o \in Restored(log[o.doc]).ops /\ o.text \subseteq written
      BY <2>4, <2>5 DEF Inv, DataOK, SavedOK
    <3>2. QED  BY <3>1 DEF SavedOK
  <2>7. DataOK'
    BY <1>3, <2>3, <2>6 DEF Inv, DataOK, LogsOK, DeletedOK
  <2>8. QED  BY <2>2, <2>7 DEF Inv
<1>6. QED  BY <1>4, <1>5

LEMMA CompareFileStep == ASSUME Inv, NEW r \in Requesters, CompareFile(r) PROVE Inv'
<1> DEFINE q == req[r]
           w == At(q, "save")
           t == Text(q.doc, q.ops, q.gone)
<1>1. /\ Busy(q) /\ q \in Requests /\ RequestOK(q, Len(docs), log, written)
      /\ q.phase = "compare" /\ q.phase \in Held /\ q.path \in Paths
  BY AtWork DEF CompareFile, Busy, Held, Flushing, Requests
<1>2. CASE Refuse(r)  BY <1>2, RefuseStep
<1>3. CASE /\ file[q.path].text # NoFile /\ file[q.path].text = t
           /\ Flushed(r, r) /\ UNCHANGED <<file, docs, log, written>>
  <2>1. t \subseteq written  BY <1>1, <1>3 DEF Inv, DataOK, FilesOK
  <2>2. InFile(q.doc, log, written)
    BY <1>1, <2>1 DEF InFile, RequestOK, FlushOK, Flushing
  <2>3. docs' \in Seq(Doc) /\ Len(docs') = Len(docs)  BY <1>3 DEF Inv, DataOK
  <2>4. QED  BY <1>1, <1>3, <2>2, <2>3, FlushedStep
<1>4. CASE req' = [req EXCEPT ![r] = w] /\ UNCHANGED <<file, docs, log, holder, client, written>>
  <2>1. Busy(w) /\ w.phase = "save" /\ SameWork(w, q) /\ SameText(w, q) /\ SameList(w, q)
    BY <1>1, AtFields DEF Held, Flushing
  <2> HIDE DEF w
  <2>2. ShapeOK(w, Len(docs))
    BY <1>1, <2>1 DEF RequestOK, ShapeOK, SameWork, SameList, SameText, Flushing, Updates
  <2>3. FlushOK(w, log, written)
    BY <1>1, <2>1 DEF RequestOK, FlushOK, SameWork, SameText, Flushing
  <2>4. PushOK(w, log)  BY <2>1 DEF PushOK
  <2>5. DiscardOK(w, log, written)
    BY <1>1, <2>1 DEF RequestOK, DiscardOK, SameList, SameText
  <2>6. RequestOK(w, Len(docs), log', written)
    BY <1>4, <2>2, <2>3, <2>4, <2>5 DEF RequestOK
  <2>7. w.kind = q.kind  BY <2>1 DEF SameWork
  <2>8. ReqOK'  BY <1>1, <1>4, <2>1, <2>6, <2>7, GoesOn
  <2>9. QED  BY <1>4, <2>8, DataStill DEF Inv, Data
<1>5. QED
  <2>1. CASE file[q.path].text = NoFile  BY <1>2, <2>1 DEF CompareFile
  <2>2. CASE file[q.path].text # NoFile /\ file[q.path].text = t
    BY <1>3, <2>2 DEF CompareFile
  <2>3. CASE file[q.path].text # NoFile /\ file[q.path].text # t
    BY <1>4, <2>3 DEF CompareFile, At
  <2>4. QED  BY <2>1, <2>2, <2>3

\* A request goes on, and files or documents may have changed with it.
LEMMA WritesOn ==
  ASSUME Inv, NEW r \in Requesters, req[r].phase \in Held, NEW w, Busy(w),
         w.kind = req[r].kind, req' = [req EXCEPT ![r] = w], holder' = holder,
         Len(docs') = Len(docs), written \subseteq written', log' = log,
         RequestOK(w, Len(docs), log, written')
  PROVE  ReqOK'
<1>1. Len(docs) \in Nat  BY LenDocs DEF Inv
<1>2. req'[r] = w /\ req' = [req EXCEPT ![r] = req'[r]]  BY DEF Inv, ReqOK
<1>3. Holds(req[r]) => holder = r  BY AtWork
<1>4. Holds(w) => Holds(req[r])  BY DEF Holds
<1>5. RequestOK(req'[r], Len(docs'), log', written')  BY <1>2
<1>6. req'[r] # Idle /\ Holds(req'[r]) => holder' = r  BY <1>2, <1>3, <1>4
<1>7. /\ Len(docs') \in Nat /\ Len(docs) <= Len(docs')
      /\ \A d \in 1..Len(docs) : log'[d] = log[d]
      /\ \A s \in Requesters \ {r} : holder = s => holder' = s
  BY <1>1
<1>8. QED  BY <1>1, <1>2, <1>5, <1>6, <1>7, RequestSteps DEF Inv

LEMMA FileUpdate ==
  ASSUME NEW g \in File, NEW t \in Texts
  PROVE  LET f == [g EXCEPT !.text = t, !.version = @ + 1] IN f \in File /\ f.text = t
<1> DEFINE e == [g EXCEPT !.text = t]
           f == [g EXCEPT !.text = t, !.version = @ + 1]
<1>1. e \in File /\ e.text = t /\ e.version = g.version /\ g.version \in Nat  BY DEF File
<1>2. f = [e EXCEPT !.version = g.version + 1]  BY <1>1
<1> HIDE DEF e, f
<1>3. f \in File /\ f.text = t  BY <1>1, <1>2 DEF File
<1>4. QED  BY <1>3 DEF f

LEMMA SaveFileStep == ASSUME Inv, NEW r \in Requesters, SaveFile(r) PROVE Inv'
<1> DEFINE q == req[r]
           p == q.path
           t == Text(q.doc, q.ops, q.gone)
           f == [file[p] EXCEPT !.text = t, !.version = @ + 1]
           w == Written(q, f)
<1>1. /\ Busy(q) /\ q \in Requests /\ RequestOK(q, Len(docs), log, written)
      /\ q.phase = "save" /\ q.phase \in Held /\ p \in Paths /\ q.ops \in SUBSET Ops
  BY AtWork DEF SaveFile, Busy, Held, Flushing, Requests
<1>2. CASE Refuse(r)  BY <1>2, RefuseStep
<1>3. CASE ~Refuse(r)
  <2>1. t \in Texts  BY <1>1, TextType
  <2>2. file[p] \in File  BY <1>1 DEF Inv, DataOK
  <2>3. /\ file' = [file EXCEPT ![p].text = t, ![p].version = @ + 1]
        /\ written' = written \cup t
        /\ req' = [req EXCEPT ![r] = Written(q, file'[p])]
        /\ UNCHANGED <<docs, log, holder, client>>
    BY <1>3 DEF SaveFile, Written
  <2> HIDE DEF t
  <2>4. file' = [file EXCEPT ![p] = f] /\ f \in File /\ file'[p] = f /\ f.text = t
    <3>1. file \in [Paths -> File]  BY DEF Inv, DataOK
    <3>2. file' = [file EXCEPT ![p] = f]
      <4>1. file[p].version = [file[p] EXCEPT !.text = t].version  BY <2>2 DEF File
      <4> QED  BY <1>1, <2>3, <3>1, <4>1
    <3>3. f \in File /\ f.text = t  BY <2>1, <2>2, FileUpdate
    <3> HIDE DEF f
    <3>4. QED  BY <1>1, <3>1, <3>2, <3>3
  <2> HIDE DEF f
  <2>5. written' \in SUBSET (Edits \cup DirectTexts) /\ written \subseteq written'
        /\ t \subseteq written'
    BY <2>1, <2>3 DEF Inv, DataOK, Texts
  <2>6. file' \in [Paths -> File]  BY <1>1, <2>4 DEF Inv, DataOK
  <2>7. FilesOK'
    <3>1. ASSUME NEW x \in Paths, file'[x].text # NoFile  PROVE file'[x].text \subseteq written'
      BY <1>1, <2>4, <2>5, <3>1 DEF Inv, DataOK, FilesOK
    <3>2. QED  BY <3>1 DEF FilesOK
  <2>8. DataOK'
    <3>1. docs' \in Seq(Doc) /\ Len(docs') = Len(docs)  BY <2>3 DEF Inv, DataOK
    <3>2. QED  BY <2>3, <2>5, <2>6, <2>7, <3>1, FileStep DEF Inv
  <2>9. /\ Busy(w) /\ w.phase = "version" /\ SameWork(w, q) /\ SameText(w, q)
        /\ SameList(w, q) /\ w.file = f
    BY <1>1, <2>4, WrittenFields
  <2>10. req' = [req EXCEPT ![r] = w]  BY <2>3, <2>4
  <2> HIDE DEF w
  <2>11. ShapeOK(w, Len(docs))
    BY <1>1, <2>4, <2>9
    DEF RequestOK, ShapeOK, SameWork, SameList, SameText, Flushing, Updates
  <2>12. InFile(q.doc, log, written')
    BY <1>1, <2>5 DEF InFile, RequestOK, FlushOK, Flushing, t
  <2>13. FlushOK(w, log, written')
    BY <1>1, <2>9, <2>12 DEF RequestOK, FlushOK, SameWork, SameText, Flushing
  <2>14. PushOK(w, log)  BY <2>9 DEF PushOK
  <2>15. DiscardOK(w, log, written')
    <3>1. \A d \in q.list \ q.todo : InFile(d, log, written) \/ d = q.doc
      BY <1>1 DEF RequestOK, DiscardOK
    <3>2. QED  BY <2>5, <2>9, <3>1 DEF DiscardOK, InFile, SameList, SameText
  <2>16. RequestOK(w, Len(docs), log, written')
    BY <2>11, <2>13, <2>14, <2>15 DEF RequestOK
  <2>17. w.kind = q.kind  BY <2>9 DEF SameWork
  <2>18. ReqOK'  BY <1>1, <2>3, <2>5, <2>9, <2>10, <2>16, <2>17, WritesOn
  <2>19. QED  BY <2>8, <2>18 DEF Inv
<1>4. QED  BY <1>2, <1>3

\* The version a document knows.
LEMMA VersionSet ==
  ASSUME DataOK, NEW d \in 1..Len(docs), NEW v \in Nat,
         docs' = [docs EXCEPT ![d].version = v]
  PROVE  docs' \in Seq(Doc) /\ Len(docs') = Len(docs)
<1> DEFINE x == [docs[d] EXCEPT !.version = v]
<1>1. docs \in Seq(Doc)  BY DEF DataOK
<1>2. docs[d] \in Doc  BY <1>1
<1>3. x \in Doc  BY <1>2 DEF Doc
<1>4. docs' = [docs EXCEPT ![d] = x]  OBVIOUS
<1> HIDE DEF x
<1>5. QED  BY <1>1, <1>3, <1>4

LEMMA SetVersionStep == ASSUME Inv, NEW r \in Requesters, SetVersion(r) PROVE Inv'
<1> DEFINE q == req[r]
<1>1. /\ q \in Requests /\ RequestOK(q, Len(docs), log, written) /\ q.phase = "version"
  BY AtWork DEF SetVersion, Busy, Held, Flushing
<1>2. q.doc \in 1..Len(docs) /\ q.file \in File /\ InFile(q.doc, log, written)
  BY <1>1 DEF RequestOK, ShapeOK, FlushOK, Flushing
<1>3. /\ docs' = [docs EXCEPT ![q.doc].version = q.file.version]
      /\ Flushed(r, r) /\ UNCHANGED <<file, log, written>>
  BY DEF SetVersion
<1>4. q.file.version \in Nat  BY <1>2 DEF File
<1>5. docs' \in Seq(Doc) /\ Len(docs') = Len(docs)  BY <1>2, <1>3, <1>4, VersionSet DEF Inv
<1>6. QED  BY <1>1, <1>2, <1>3, <1>5, FlushedStep

LEMMA GitDiscardsStep ==
  ASSUME Inv, NEW r \in Requesters, NEW t \in {NoFile} \cup {{x} : x \in DirectTexts},
         GitDiscards(r, t)
  PROVE  Inv'
<1> DEFINE q == req[r]
           p == q.path
           f == [text |-> t, version |-> IF t = NoFile THEN 0 ELSE file[p].version + 1,
                 life |-> IF (t = NoFile) # (file[p].text = NoFile) THEN file[p].life + 1
                          ELSE file[p].life]
           w == Restarted(q)
<1>1. /\ Busy(q) /\ q \in Requests /\ RequestOK(q, Len(docs), log, written)
      /\ q.phase = "git" /\ q.phase \in Held /\ p \in Paths
  BY AtWork DEF GitDiscards, Busy, Held, Requests
<1>2. /\ file' = [file EXCEPT ![p] = f]
      /\ written' = IF t = NoFile THEN written ELSE written \cup t
      /\ req' = [req EXCEPT ![r] = w] /\ UNCHANGED <<docs, log, holder, client>>
  BY DEF GitDiscards, Restarted
<1>3. t # NoFile => t \in Texts  BY DEF Texts
<1>4. file[p] \in File  BY <1>1 DEF Inv, DataOK
<1>5. f \in File /\ f.text = t  BY <1>3, <1>4 DEF File
<1> HIDE DEF f
<1>6. written' \in SUBSET (Edits \cup DirectTexts) /\ written \subseteq written'
      /\ (t # NoFile => t \subseteq written')
  BY <1>2, <1>3 DEF Inv, DataOK, Texts
<1>7. FilesOK'
  <2>1. ASSUME NEW x \in Paths, file'[x].text # NoFile  PROVE file'[x].text \subseteq written'
    BY <1>1, <1>2, <1>5, <1>6, <2>1 DEF Inv, DataOK, FilesOK
  <2>2. QED  BY <2>1 DEF FilesOK
<1>8. DataOK'
  <2>1. file' \in [Paths -> File] /\ docs' \in Seq(Doc) /\ Len(docs') = Len(docs)
    BY <1>1, <1>2, <1>5 DEF Inv, DataOK
  <2>2. QED  BY <1>2, <1>6, <1>7, <2>1, FileStep DEF Inv
<1>9. Busy(w) /\ w.phase = "reload" /\ SameWork(w, q) /\ w.list = q.list /\ w.todo = q.list
  BY <1>1, RestartedFields
<1> HIDE DEF w
<1>10. RequestOK(w, Len(docs), log, written')
  <2>1. ShapeOK(w, Len(docs))
    BY <1>1, <1>9 DEF RequestOK, ShapeOK, SameWork, Flushing, Updates
  <2>2. PushOK(w, log) /\ FlushOK(w, log, written')  BY <1>9 DEF PushOK, FlushOK, Flushing
  <2>3. \A d \in q.list : InFile(d, log, written)  BY <1>1 DEF RequestOK, DiscardOK
  <2>4. DiscardOK(w, log, written')  BY <1>6, <1>9, <2>3 DEF DiscardOK, InFile
  <2>5. QED  BY <2>1, <2>2, <2>4 DEF RequestOK
<1>11. w.kind = q.kind  BY <1>9 DEF SameWork
<1>12. Len(docs') = Len(docs)  BY <1>2
<1>13. ReqOK'  BY <1>1, <1>2, <1>6, <1>9, <1>10, <1>11, <1>12, WritesOn
<1>14. QED  BY <1>8, <1>13 DEF Inv

LEMMA ReloadStep == ASSUME Inv, NEW r \in Requesters, Reload(r) PROVE Inv'
<1> DEFINE q == req[r]
           n == Len(docs)
           d == Min(q.todo)
           l == log[d]
           y == Restored(l)
           t == file[q.path].text
           o == Insertion(t, d, NextSequence(l))
<1>1. /\ Busy(q) /\ q \in Requests /\ RequestOK(q, n, log, written)
      /\ q.phase = "reload" /\ q.phase \in Held /\ q.path \in Paths
  BY AtWork DEF Reload, Busy, Held, Requests
<1>2. /\ q.kind \in {"flush", "discard"} /\ q.list \subseteq 1..n /\ q.todo \subseteq q.list
      /\ q.todo \in SUBSET Nat /\ n \in Nat /\ \A e \in q.todo : InFile(e, log, written)
  BY <1>1, LenDocs DEF Requests, RequestOK, ShapeOK, DiscardOK, Inv
<1>3. UNCHANGED <<file, client, written>>  BY DEF Reload
<1>4. CASE q.todo = {}
  <2>1. Leaves(r) /\ UNCHANGED <<docs, log>>  BY <1>4 DEF Reload
  <2>2. DataOK'  BY <1>3, <2>1, DataStill DEF Inv, Data
  <2>3. Len(docs') = Len(docs) /\ written \subseteq written'
        /\ \A e \in 1..Len(docs) : log'[e] = log[e]
    BY <1>3, <2>1
  <2>4. ReqOK'  BY <1>2, <2>1, <2>3, LeavesStep DEF Inv
  <2>5. QED  BY <2>2, <2>4 DEF Inv
<1>5. ASSUME q.todo # {}
      PROVE  d \in q.todo /\ d \in 1..n /\ d \in DOMAIN log /\ l \in Log /\ LogOK(l)
             /\ GoneOK(d, l, written) /\ d \in Nat
  <2>1. d \in q.todo /\ d \in 1..n /\ d \in DOMAIN log /\ d \in Nat
    BY <1>2, <1>5, Minimal, LenDocs DEF Inv
  <2> HIDE DEF d
  <2>2. QED  BY <2>1 DEF Inv, DataOK, LogsOK, DeletedOK
<1>6. CASE q.todo # {} /\ t = NoFile
  <2> DEFINE w == Dropped(q, d)
             x == [docs[d] EXCEPT !.status = "archived"]
  <2>1. /\ docs' = [docs EXCEPT ![d] = x] /\ req' = [req EXCEPT ![r] = w]
        /\ UNCHANGED <<log, holder>>
    BY <1>6 DEF Reload, Dropped
  <2>2. d \in 1..n  BY <1>5, <1>6
  <2> HIDE DEF d
  <2>3. docs \in Seq(Doc)  BY DEF Inv, DataOK
  <2>4. docs[d] \in Doc  BY <2>2, <2>3
  <2>5. x \in Doc  BY <2>4 DEF Doc
  <2> HIDE DEF x
  <2>6. docs' \in Seq(Doc) /\ Len(docs') = Len(docs)  BY <2>1, <2>2, <2>3, <2>5
  <2>7. DataOK'
    <3>1. /\ file' \in [Paths -> File] /\ written' \in SUBSET (Edits \cup DirectTexts)
          /\ written \subseteq written' /\ FilesOK'
      BY <1>3 DEF Inv, DataOK, FilesOK
    <3>2. QED  BY <1>3, <2>1, <2>6, <3>1, FileStep DEF Inv
  <2>8. Busy(w) /\ w.phase = "reload" /\ SameWork(w, q) /\ w.list = q.list /\ w.todo = q.todo \ {d}
    BY <1>1, DroppedFields
  <2> HIDE DEF w
  <2>9. RequestOK(w, n, log, written')
    <3>1. ShapeOK(w, n)
      BY <1>1, <2>8 DEF RequestOK, ShapeOK, SameWork, Flushing, Updates
    <3>2. PushOK(w, log) /\ FlushOK(w, log, written')  BY <2>8 DEF PushOK, FlushOK, Flushing
    <3>3. DiscardOK(w, log, written')  BY <1>2, <1>3, <2>8 DEF DiscardOK
    <3>4. QED  BY <3>1, <3>2, <3>3 DEF RequestOK
  <2>10. w.kind = q.kind /\ written \subseteq written'  BY <1>3, <2>8 DEF SameWork
  <2>11. ReqOK'  BY <1>1, <2>1, <2>6, <2>8, <2>9, <2>10, WritesOn
  <2>12. QED  BY <2>7, <2>11 DEF Inv
<1>7. CASE q.todo # {} /\ t # NoFile
  <2> DEFINE w == Replaced(q, d, file[q.path])
             m == Compact(l, y.ops \cup {o}, y.gone \cup y.ops)
  <2>1. /\ log' = [log EXCEPT ![d] = m] /\ req' = [req EXCEPT ![r] = w]
        /\ UNCHANGED <<docs, holder>>
    BY <1>7 DEF Reload, Compacted, Compact, Replaced
  <2>2. /\ d \in q.todo /\ d \in 1..n /\ d \in DOMAIN log /\ l \in Log /\ LogOK(l)
        /\ GoneOK(d, l, written) /\ d \in Nat
    BY <1>5, <1>7
  <2> HIDE DEF d
  <2>3. file[q.path] \in File /\ t \in Texts /\ t \subseteq written
    BY <1>1, <1>7 DEF Inv, DataOK, FilesOK, File
  <2>4. y.ops \in SUBSET Ops /\ y.gone \in SUBSET Ops  BY <2>2, RestoredParts
  <2>5. o \in Ops /\ o.doc = d /\ o.text = t
    BY <2>2, <2>3, NextExceeds DEF Insertion, Ops, Texts
  <2> HIDE DEF o
  <2>6. /\ m \in Log /\ LogOK(m) /\ Restored(m).ops = y.ops \cup {o}
        /\ Restored(m).gone = y.gone \cup y.ops
    <3> DEFINE a == y.ops \cup {o}    b == y.gone \cup y.ops
    <3>1. a \in SUBSET Ops /\ b \in SUBSET Ops  BY <2>4, <2>5
    <3> HIDE DEF a, b
    <3>2. QED  BY <2>2, <3>1, CompactLog DEF a, b
  <2> HIDE DEF m
  <2>7. \A i \in y.ops : i.doc = d => i.text \subseteq written
    BY <1>2, <2>2, InsertedWritten
  <2>8. GoneOK(d, m, written)  BY <2>2, <2>6, <2>7 DEF GoneOK
  <2>9. DataOK'
    <3>1. Restored(l).ops \subseteq Restored(m).ops  BY <2>6
    <3>2. QED  BY <1>3, <2>1, <2>2, <2>6, <2>8, <3>1, LogStep DEF Inv
  <2>10. \A e \in DOMAIN log : log'[e] = IF e = d THEN m ELSE log[e]
    BY <2>1 DEF Inv, DataOK
  <2>11. \A e \in q.todo : InFile(e, log', written)
    <3>1. ASSUME NEW e \in q.todo, e # d  PROVE InFile(e, log', written)
      <4>1. e \in DOMAIN log  BY <1>2, LenDocs DEF Inv
      <4>2. QED  BY <1>2, <2>10, <3>1, <4>1 DEF InFile
    <3>2. InFile(d, log', written)
      <4>1. \A i \in Restored(m).ops : i \notin Restored(m).gone => i = o  BY <2>6
      <4>2. \A i \in Restored(m).ops : i.doc = d /\ i \notin Restored(m).gone => i.text \subseteq written
        BY <2>3, <2>5, <4>1
      <4>3. Text(d, Restored(m).ops, Restored(m).gone) \subseteq written  BY <4>2, TextParts
      <4>4. QED  BY <2>2, <2>10, <4>3 DEF InFile
    <3>3. QED  BY <3>1, <3>2
  <2>12. /\ Busy(w) /\ w.phase = "reloaded" /\ SameWork(w, q) /\ SameList(w, q)
         /\ w.doc = d /\ w.file = file[q.path]
    BY <1>1, <2>2, <2>3, ReplacedFields
  <2> HIDE DEF w
  <2>13. RequestOK(w, n, log', written)
    <3>1. ShapeOK(w, n)
      BY <1>1, <2>2, <2>3, <2>12 DEF RequestOK, ShapeOK, SameWork, SameList, Flushing, Updates
    <3>2. PushOK(w, log') /\ FlushOK(w, log', written)  BY <2>12 DEF PushOK, FlushOK, Flushing
    <3>3. DiscardOK(w, log', written)  BY <2>11, <2>12 DEF DiscardOK, SameList
    <3>4. QED  BY <3>1, <3>2, <3>3 DEF RequestOK
  <2>14. w.kind = q.kind /\ q.kind # "open"  BY <1>2, <2>12 DEF SameWork
  <2>15. ReqOK'  BY <1>1, <1>3, <2>1, <2>12, <2>13, <2>14, GoesOn
  <2>16. QED  BY <2>9, <2>15 DEF Inv
<1>8. QED  BY <1>4, <1>6, <1>7

LEMMA ReloadedStep == ASSUME Inv, NEW r \in Requesters, Reloaded(r) PROVE Inv'
<1> DEFINE q == req[r]
           n == Len(docs)
           w == Replayed(q)
<1>1. /\ Busy(q) /\ q \in Requests /\ RequestOK(q, n, log, written)
      /\ q.phase = "reloaded" /\ q.phase \in Held
  BY AtWork DEF Reloaded, Busy, Held
<1>2. q.doc \in 1..n /\ q.file \in File  BY <1>1 DEF RequestOK, ShapeOK
<1>3. /\ docs' = [docs EXCEPT ![q.doc].version = q.file.version]
      /\ req' = [req EXCEPT ![r] = w] /\ UNCHANGED <<file, log, holder, client, written>>
  BY DEF Reloaded, Replayed
<1>4. q.file.version \in Nat  BY <1>2 DEF File
<1>5. docs' \in Seq(Doc) /\ Len(docs') = Len(docs)  BY <1>2, <1>3, <1>4, VersionSet DEF Inv
<1>6. DataOK'
  <2>1. /\ file' \in [Paths -> File] /\ written' \in SUBSET (Edits \cup DirectTexts)
        /\ written \subseteq written' /\ FilesOK'
    BY <1>3 DEF Inv, DataOK, FilesOK
  <2>2. QED  BY <1>3, <1>5, <2>1, FileStep DEF Inv
<1>7. /\ Busy(w) /\ w.phase = "reload" /\ SameWork(w, q) /\ w.list = q.list
      /\ w.todo = q.todo \ {q.doc}
  BY <1>1, ReplayedFields
<1> HIDE DEF w
<1>8. RequestOK(w, n, log, written')
  <2>1. ShapeOK(w, n)
    BY <1>1, <1>7 DEF RequestOK, ShapeOK, SameWork, Flushing, Updates
  <2>2. PushOK(w, log) /\ FlushOK(w, log, written')  BY <1>7 DEF PushOK, FlushOK, Flushing
  <2>3. DiscardOK(w, log, written')  BY <1>1, <1>3, <1>7 DEF RequestOK, DiscardOK
  <2>4. QED  BY <2>1, <2>2, <2>3 DEF RequestOK
<1>9. w.kind = q.kind /\ written \subseteq written'  BY <1>3, <1>7 DEF SameWork
<1>10. ReqOK'  BY <1>1, <1>3, <1>5, <1>7, <1>8, <1>9, WritesOn
<1>11. QED  BY <1>6, <1>10 DEF Inv

\* Files and documents change under the requests, which keep what is said of them.
LEMMA Outside ==
  ASSUME Inv, file' \in [Paths -> File], docs' \in Seq(Doc), Len(docs') = Len(docs),
         written' \in SUBSET (Edits \cup DirectTexts), written \subseteq written', FilesOK',
         UNCHANGED <<log, holder, req, client>>
  PROVE  Inv'
<1>1. DataOK'  BY FileStep DEF Inv
<1>2. Len(docs) \in Nat /\ \A d \in 1..Len(docs) : log'[d] = log[d]  BY LenDocs DEF Inv
<1>3. ASSUME NEW r \in Requesters, req[r] # Idle
      PROVE  RequestOK(req[r], Len(docs'), log', written')
  <2>1. RequestOK(req[r], Len(docs), log, written)  BY <1>3 DEF Inv, ReqOK, RequestsOK
  <2>2. Len(docs') \in Nat /\ Len(docs) <= Len(docs')  BY <1>2
  <2>3. QED  BY <1>2, <2>1, <2>2, RequestKept
<1>4. ReqOK'  BY <1>3 DEF Inv, ReqOK, RequestsOK, LockOK
<1>5. QED  BY <1>1, <1>4 DEF Inv

\* A file is written: its text counts as written from then on.
LEMMA WriteStep ==
  ASSUME Inv, NEW p \in Paths, NEW f \in File, file' = [file EXCEPT ![p] = f],
         NEW T \in Texts, f.text = T \/ f.text = NoFile,
         written' = written \cup T, docs' = docs, UNCHANGED <<log, holder, req, client>>
  PROVE  Inv'
<1>1. file' \in [Paths -> File] /\ docs' \in Seq(Doc) /\ Len(docs') = Len(docs)
  BY DEF Inv, DataOK
<1>2. written' \in SUBSET (Edits \cup DirectTexts) /\ written \subseteq written'
  BY DEF Inv, DataOK, Texts
<1>3. ASSUME NEW x \in Paths, file'[x].text # NoFile  PROVE file'[x].text \subseteq written'
  BY <1>3 DEF Inv, DataOK, FilesOK
<1>4. FilesOK'  BY <1>3 DEF FilesOK
<1>5. QED  BY <1>1, <1>2, <1>4, Outside

LEMMA DirectSteps ==
  ASSUME Inv, NEW p \in Paths, NEW x \in DirectTexts, SaveDirectly(p, x) \/ CreateDirectly(p, x)
  PROVE  Inv'
<1>1. {x} \in Texts  BY DEF Texts
<1>2. file \in [Paths -> File] /\ file[p] \in File  BY DEF Inv, DataOK
<1>3. UNCHANGED <<docs, log, holder, req, client>> /\ written' = written \cup {x}
  BY DEF SaveDirectly, CreateDirectly
<1>4. CASE SaveDirectly(p, x)
  <2> DEFINE f == [file[p] EXCEPT !.text = {x}, !.version = @ + 1]
  <2>1. f \in File /\ f.text = {x}  BY <1>1, <1>2, FileUpdate
  <2>2. file' = [file EXCEPT ![p] = f]
    <3>1. file[p].version = [file[p] EXCEPT !.text = {x}].version  BY <1>2 DEF File
    <3>2. QED  BY <1>2, <1>4, <3>1 DEF SaveDirectly
  <2> HIDE DEF f
  <2>3. QED  BY <1>1, <1>3, <2>1, <2>2, WriteStep
<1>5. CASE CreateDirectly(p, x)
  <2> DEFINE f == [text |-> {x}, version |-> 1, life |-> file[p].life + 1]
  <2>1. f \in File /\ f.text = {x}  BY <1>1, <1>2 DEF File
  <2>2. file' = [file EXCEPT ![p] = f]  BY <1>2, <1>5 DEF CreateDirectly
  <2> HIDE DEF f
  <2>3. QED  BY <1>1, <1>3, <2>1, <2>2, WriteStep
<1>6. QED  BY <1>4, <1>5

LEMMA DeleteFileStep == ASSUME Inv, NEW p \in Paths, DeleteFile(p) PROVE Inv'
<1> DEFINE f == [text |-> NoFile, version |-> 0, life |-> file[p].life + 1]
<1>1. file \in [Paths -> File] /\ file[p] \in File  BY DEF Inv, DataOK
<1>2. f \in File /\ f.text = NoFile  BY <1>1 DEF File
<1>3. /\ file' = [file EXCEPT ![p] = f]
      /\ UNCHANGED <<docs, log, holder, req, client>> /\ written' = written \cup {}
  BY <1>1 DEF DeleteFile
<1> HIDE DEF f
<1>4. {} \in Texts  BY DEF Texts
<1>5. QED  BY <1>2, <1>3, <1>4, WriteStep

LEMMA RenameFileStep ==
  ASSUME Inv, NEW p \in Paths, NEW q \in Paths, RenameFile(p, q) PROVE Inv'
<1> DEFINE f == [file[p] EXCEPT !.life = file[q].life + 1]
           g == [text |-> NoFile, version |-> 0, life |-> file[p].life + 1]
<1>1. file \in [Paths -> File] /\ file[p] \in File /\ file[q] \in File  BY DEF Inv, DataOK
<1>2. f \in File /\ g \in File /\ f.text = file[p].text /\ g.text = NoFile  BY <1>1 DEF File
<1>3. p # q /\ file[p].text # NoFile  BY DEF RenameFile
<1>4. /\ file' = [[file EXCEPT ![q] = f] EXCEPT ![p] = g]
      /\ UNCHANGED <<docs, log, holder, req, client, written>>
  <2>1. [file EXCEPT ![q] = f][p] = file[p]  BY <1>1, <1>3
  <2>2. QED  BY <1>1, <2>1 DEF RenameFile
<1> HIDE DEF f, g
<1>5. file' \in [Paths -> File] /\ docs' \in Seq(Doc) /\ Len(docs') = Len(docs)
  BY <1>1, <1>2, <1>4 DEF Inv, DataOK
<1>6. ASSUME NEW x \in Paths, file'[x].text # NoFile  PROVE file'[x].text \subseteq written'
  BY <1>1, <1>2, <1>3, <1>4, <1>6 DEF Inv, DataOK, FilesOK
<1>7. FilesOK'  BY <1>6 DEF FilesOK
<1>8. written' \in SUBSET (Edits \cup DirectTexts) /\ written \subseteq written'
  BY <1>4 DEF Inv, DataOK
<1>9. QED  BY <1>4, <1>5, <1>7, <1>8, Outside

\* The documents after a move: the same ones, at a path or archived.
Moved(d, p, q) ==
  IF d \notin Active(p) THEN docs[d]
  ELSE IF p = q THEN [docs[d] EXCEPT !.status = "archived"]
  ELSE [docs[d] EXCEPT !.path = q]

LEMMA MovedType ==
  ASSUME docs \in Seq(Doc), MoveDocuments, route.to \in Paths
  PROVE  /\ docs' \in Seq(Doc) /\ Len(docs') = Len(docs) /\ DOMAIN docs' = DOMAIN docs
         /\ \A d \in DOMAIN docs : docs'[d] = Moved(d, route.from, route.to)
<1> DEFINE m == [d \in DOMAIN docs |-> Moved(d, route.from, route.to)]
<1>1. docs' = m  BY DEF MoveDocuments, Moved
<1>2. ASSUME NEW d \in DOMAIN docs  PROVE Moved(d, route.from, route.to) \in Doc
  <2>1. docs[d] \in Doc  OBVIOUS
  <2>2. [docs[d] EXCEPT !.status = "archived"] \in Doc  BY <2>1 DEF Doc
  <2>3. [docs[d] EXCEPT !.path = route.to] \in Doc  BY <2>1 DEF Doc
  <2>4. QED  BY <2>1, <2>2, <2>3 DEF Moved
<1>3. Len(docs) \in Nat /\ DOMAIN docs = 1..Len(docs)  OBVIOUS
<1>4. m \in [1..Len(docs) -> Doc]  BY <1>2, <1>3
<1>5. m \in Seq(Doc) /\ Len(m) = Len(docs)
  <2> HIDE DEF m
  <2> QED  BY <1>3, <1>4
<1>6. QED  BY <1>1, <1>3, <1>5

RouteType == route # NoMove => route.from \in Paths /\ route.to \in Paths

LEMMA MoveDocumentsStep == ASSUME Inv, RouteType, MoveDocuments PROVE Inv'
<1>1. route.to \in Paths  BY DEF RouteType, MoveDocuments
<1>2. docs' \in Seq(Doc) /\ Len(docs') = Len(docs)  BY <1>1, MovedType DEF Inv, DataOK
<1>3. UNCHANGED <<file, log, holder, req, client, written>>  BY DEF MoveDocuments
<1>4. /\ file' \in [Paths -> File] /\ written' \in SUBSET (Edits \cup DirectTexts)
      /\ written \subseteq written' /\ FilesOK'
  BY <1>3 DEF Inv, DataOK, FilesOK
<1>5. QED  BY <1>2, <1>3, <1>4, Outside

LEMMA CrashStep == ASSUME Inv, Crash PROVE Inv'
<1>1. DataOK'  BY DataStill DEF Inv, Crash, Data
<1>2. ReqOK'
  <2>1. \A r \in Requesters : req'[r] = Idle  BY DEF Crash
  <2>2. QED  BY <2>1 DEF Crash, ReqOK, LockOK, RequestsOK
<1>3. QED  BY <1>1, <1>2 DEF Inv

LEMMA ProceedsStep == ASSUME Inv, NEW r \in Requesters, Proceeds(r) PROVE Inv'
<1>1. CASE NoMoreDocuments(r)  BY <1>1, RefuseStep DEF NoMoreDocuments
<1>2. CASE Vanished(r)  BY <1>2, RefuseStep DEF Vanished
<1>3. CASE \E t \in {NoFile} \cup {{x} : x \in DirectTexts} : GitDiscards(r, t)
  BY <1>3, GitDiscardsStep
<1>4. QED
  BY <1>1, <1>2, <1>3, EnterStep, ReadFileStep, CreateDocumentStep, AnswerStep, MergeStep,
     PushUpdateStep, AfterPushStep, NextDocumentStep, CompareFileStep, SaveFileStep,
     SetVersionStep, ReloadStep, ReloadedStep
  DEF Proceeds

LEMMA RouteTypeKept == ASSUME RouteType, [Next]_vars PROVE RouteType'
<1>1. CASE \E p, q \in Paths : RenameFile(p, q)  BY <1>1 DEF RouteType, RenameFile
<1>2. CASE \E p \in Paths : DeleteFile(p)  BY <1>2 DEF RouteType, DeleteFile
<1>3. CASE MoveDocuments \/ Crash  BY <1>3 DEF RouteType, MoveDocuments, Crash
<1>4. CASE route' = route  BY <1>4 DEF RouteType
<1>5. ASSUME NEW r \in Requesters, Proceeds(r)  PROVE route' = route
  BY <1>5
  DEF Proceeds, Enter, ReadFile, CreateDocument, NoMoreDocuments, Answer, Vanished, Merge,
      PushUpdate, AfterPush, NextDocument, CompareFile, SaveFile, SetVersion, GitDiscards,
      Reload, Reloaded, Refuse
<1>6. QED
  BY <1>1, <1>2, <1>3, <1>4, <1>5
  DEF Next, Users, vars, SendLive, Persist, Apply, Open, Call, DiscardPaths, Edit,
      SaveDirectly, CreateDirectly, TimerFires

LEMMA InvInit == Init => Inv /\ RouteType
<1> SUFFICES ASSUME Init PROVE Inv /\ RouteType  OBVIOUS
<1>1. file \in [Paths -> File]  BY CollaborationAssumption DEF Init, File, Texts
<1>2. docs \in Seq(Doc) /\ log \in Seq(Log) /\ Len(log) = Len(docs) /\ DOMAIN log = {}
  BY DEF Init
<1>3. client \in [Clients -> Provider]
  BY CollaborationAssumption DEF Init, Provider, CollaborationAssumption
<1>4. LogsOK /\ FilesOK /\ DeletedOK /\ SavedOK
  BY <1>2 DEF Init, LogsOK, FilesOK, DeletedOK, SavedOK
<1>5. ReqOK  BY DEF Init, ReqOK, LockOK, RequestsOK
<1>6. RouteType  BY DEF Init, RouteType
<1>7. QED  BY <1>1, <1>2, <1>3, <1>4, <1>5, <1>6 DEF Inv, DataOK, Init

LEMMA InvNext == ASSUME Inv, RouteType, [Next]_vars PROVE Inv'
<1>1. CASE \E c \in Clients : \/ \E p \in Paths : Open(c, p) \/ DiscardPaths(c, p)
                              \/ SendLive(c) \/ Persist(c) \/ Apply(c)
  BY <1>1, CallerSteps
<1>2. CASE \E c \in Clients, e \in Edits : Edit(c, e)  BY <1>2, EditStep
<1>3. CASE \E p \in Paths, x \in DirectTexts : SaveDirectly(p, x) \/ CreateDirectly(p, x)
  BY <1>3, DirectSteps
<1>4. CASE \E p, q \in Paths : RenameFile(p, q)  BY <1>4, RenameFileStep
<1>5. CASE \E p \in Paths : DeleteFile(p)  BY <1>5, DeleteFileStep
<1>6. CASE \E r \in Requesters : Proceeds(r)  BY <1>6, ProceedsStep
<1>7. CASE UNCHANGED vars
  BY <1>7 DEF vars, Inv, ReqOK, LockOK, RequestsOK, DataOK, LogsOK, FilesOK, DeletedOK, SavedOK
<1>8. QED
  BY <1>1, <1>2, <1>3, <1>4, <1>5, <1>6, <1>7, TimerStep, MoveDocumentsStep, CrashStep
  DEF Next, Users

\* The invariant of the service.
THEOREM Invariant == Spec => [](Inv /\ RouteType)
<1>1. Init => Inv /\ RouteType  BY InvInit
<1>2. Inv /\ RouteType /\ [Next]_vars => (Inv /\ RouteType)'  BY InvNext, RouteTypeKept
<1>3. QED  BY <1>1, <1>2, PTL DEF Spec

-----------------------------------------------------------------------------
\* Sequence numbers of a document are never used twice, and a restored document
\* skips none of its stored updates, for any number of clients, documents and
\* crashes (nextSequence, compact, restore).
THEOREM NumberedOnce == Spec => []NothingSkipped
<1>1. ASSUME Inv  PROVE NothingSkipped
  <2>1. ASSUME NEW d \in DOMAIN log
        PROVE  /\ \A x, y \in log[d].snapshots \cup log[d].updates : x.seq = y.seq => x = y
               /\ \A u \in log[d].updates : u.seq > Latest(log[d]).seq
    <3>1. log[d] \in Log /\ LogOK(log[d])  BY <1>1 DEF Inv, DataOK, LogsOK
    <3>2. Latest(log[d]) \in log[d].snapshots  BY <3>1, LatestSnapshot
    <3>3. QED  BY <3>1, <3>2 DEF LogOK
  <2>2. QED  BY <2>1 DEF NothingSkipped
<1>2. Inv => NothingSkipped  BY <1>1
<1>3. QED  BY <1>2, Invariant, PTL

\* What a browser counts as saved is in the log of its document and has reached
\* a file (persistSnapshot; localRevision and persistedRevision of the provider).
THEOREM SavedMeansSaved == Spec => []SavedEditsStay
<1>1. Inv => SavedEditsStay  BY DEF Inv, DataOK, SavedOK, SavedEditsStay
<1>2. QED  BY <1>1, Invariant, PTL

-----------------------------------------------------------------------------
(* One document per file.                                                     *)

Alone == docs \in Seq(Doc) /\ RouteType /\ RouteOK /\ AloneOK

\* Every document keeps its path.
SamePlaces == \A d \in DOMAIN docs : d \in DOMAIN docs' /\ docs'[d].path = docs[d].path

\* Documents only leave their files, or are noted as strays.
LEMMA FewerActive ==
  ASSUME Alone, SamePlaces, \A p \in Paths : Active(p)' \subseteq Active(p), stray \subseteq stray',
         route' = route \/ route' = NoMove
  PROVE  RouteOK' /\ AloneOK'
<1>1. RouteOK'
  <2>1. CASE route' # NoMove
    <3>1. route' = route /\ route # NoMove /\ route.to \in Paths  BY <2>1 DEF Alone, RouteType
    <3>2. Active(route.to)' \subseteq stray'  BY <3>1 DEF Alone, RouteOK
    <3>3. QED  BY <3>1, <3>2 DEF Alone, RouteOK, SamePlaces
  <2>2. QED  BY <2>1 DEF RouteOK
<1>2. AloneOK'
  <2>1. ASSUME NEW p \in Paths, NEW d \in Active(p)' \ stray', NEW e \in Active(p)' \ stray'
        PROVE  d = e
    BY DEF Alone, AloneOK
  <2>2. QED  BY <2>1 DEF AloneOK
<1>3. QED  BY <1>1, <1>2

LEMMA VersionActive ==
  ASSUME docs \in Seq(Doc), NEW d, NEW v, docs' = [docs EXCEPT ![d].version = v]
  PROVE  SamePlaces /\ \A p \in Paths : Active(p)' \subseteq Active(p)
<1>1. DOMAIN docs' = DOMAIN docs  OBVIOUS
<1>2. ASSUME NEW e \in DOMAIN docs  PROVE docs'[e].path = docs[e].path /\ docs'[e].status = docs[e].status
  <2>1. docs[e] \in Doc  OBVIOUS
  <2>2. docs'[e] = docs[e] \/ docs'[e] = [docs[e] EXCEPT !.version = v]  OBVIOUS
  <2>3. QED  BY <2>1, <2>2 DEF Doc
<1>3. QED  BY <1>1, <1>2 DEF Active, SamePlaces

LEMMA ArchivedActive ==
  ASSUME docs \in Seq(Doc), NEW d, docs' = [docs EXCEPT ![d].status = "archived"]
  PROVE  SamePlaces /\ \A p \in Paths : Active(p)' \subseteq Active(p)
<1>1. DOMAIN docs' = DOMAIN docs  OBVIOUS
<1>2. ASSUME NEW e \in DOMAIN docs
      PROVE  docs'[e].path = docs[e].path /\ (docs'[e] = docs[e] \/ docs'[e].status = "archived")
  <2>1. docs[e] \in Doc  OBVIOUS
  <2>2. docs'[e] = docs[e] \/ docs'[e] = [docs[e] EXCEPT !.status = "archived"]  OBVIOUS
  <2>3. QED  BY <2>1, <2>2 DEF Doc
<1>3. QED  BY <1>1, <1>2 DEF Active, SamePlaces

LEMMA SameActive ==
  ASSUME docs' = docs PROVE SamePlaces /\ \A p \in Paths : Active(p)' \subseteq Active(p)
  BY DEF Active, SamePlaces

\* A new document has its file to itself, unless it is a stray.
LEMMA CreateAlone ==
  ASSUME Alone, DataOK, NEW r, CreateDocument(r), req[r].path \in Paths
  PROVE  RouteOK' /\ AloneOK'
<1> DEFINE q == req[r]
           n == Len(docs) + 1
           x == [path |-> q.path, status |-> "active", version |-> q.file.version]
<1>1. CASE UNCHANGED <<docs, stray, route>>
  <2>1. SamePlaces /\ \A p \in Paths : Active(p)' \subseteq Active(p)  BY <1>1, SameActive
  <2>2. QED  BY <1>1, <2>1, FewerActive
<1>2. CASE /\ Found(q.path) = 0 /\ docs' = Append(docs, x) /\ route' = route
           /\ stray' = IF q.path = route.to \/ file[q.path].life # q.file.life
                       THEN stray \cup {n} ELSE stray
  <2>1. Active(q.path) = {}  BY <1>2, FoundActive
  <2>2. Len(docs) \in Nat /\ DOMAIN docs = 1..Len(docs)  BY DEF Alone
  <2>3. /\ DOMAIN docs' = 1..n
        /\ \A d \in DOMAIN docs' : docs'[d] = IF d = n THEN x ELSE docs[d]
    BY <1>2, <2>2 DEF Alone
  <2>4. x.path = q.path  OBVIOUS
  <2> HIDE DEF x
  <2>5. \A p \in Paths : \A d \in Active(p)' : d \in Active(p) \/ (d = n /\ p = q.path)
    BY <2>2, <2>3, <2>4 DEF Active
  <2>6. \A p \in Paths : \A d \in Active(p)' \ stray' : d \in Active(p) \ stray \/ (d = n /\ p = q.path)
    BY <1>2, <2>5
  <2>7. AloneOK'
    <3>1. ASSUME NEW p \in Paths, NEW d \in Active(p)' \ stray', NEW e \in Active(p)' \ stray'
          PROVE  d = e
      BY <2>1, <2>6 DEF Alone, AloneOK
    <3>2. QED  BY <3>1 DEF AloneOK
  <2>8. RouteOK'
    <3>1. ASSUME route # NoMove, NEW d \in Active(route.to)'  PROVE d \in stray'
      <4>1. d \in Active(route.to) \/ (d = n /\ route.to = q.path)
        <5>1. route.to \in Paths  BY <3>1 DEF Alone, RouteType
        <5>2. QED  BY <1>2, <2>5, <3>1, <5>1
      <4>2. QED  BY <1>2, <3>1, <4>1 DEF Alone, RouteOK
    <3>2. route' = route /\ stray \subseteq stray'  BY <1>2
    <3>3. CASE route # NoMove
      <4>1. Active(route.to)' \subseteq stray'  BY <3>1, <3>3
      <4>2. \A d \in route.docs : d \in DOMAIN docs' /\ docs'[d].path = route.from
        BY <2>2, <2>3, <3>3 DEF Alone, RouteOK
      <4>3. route.docs \subseteq stray' /\ (route.from = route.to => route.docs = {})
        BY <3>2, <3>3 DEF Alone, RouteOK
      <4>4. QED  BY <3>2, <4>1, <4>2, <4>3 DEF RouteOK
    <3>4. QED  BY <3>2, <3>3 DEF RouteOK
  <2>9. QED  BY <2>7, <2>8
<1>3. QED  BY <1>1, <1>2 DEF CreateDocument

LEMMA FiniteRange ==
  ASSUME NEW n \in Int, NEW S, S \subseteq 1..n
  PROVE  IsFiniteSet(S) /\ Cardinality(S) \in Nat
<1>1. IsFiniteSet(1..n)  BY FS_Interval
<1>2. S \in SUBSET (1..n)  OBVIOUS
<1>3. QED  BY <1>1, <1>2, FS_Subset, FS_CardinalityType

\* Documents that follow their file meet only strays.
LEMMA MoveAlone == ASSUME Alone, MoveDocuments PROVE RouteOK' /\ AloneOK'
<1> DEFINE p == route.from
           q == route.to
           F == IF Cardinality(Active(p) \cup Active(q)) <= 1
                     /\ route.lives = <<file[p].life, file[q].life>>
                THEN route.docs ELSE {}
<1>1. /\ route # NoMove /\ route' = NoMove /\ p \in Paths /\ q \in Paths
      /\ stray' = (stray \cup Active(p)) \ F
      /\ Cardinality(Active(p) \cup Active(q)) <= 1 \/ F = {}
      /\ p = q => F = {}
      /\ \A d \in F : d \in DOMAIN docs /\ docs[d].path = p
  BY DEF MoveDocuments, Alone, RouteType, RouteOK
<1>2. /\ DOMAIN docs' = DOMAIN docs /\ docs \in Seq(Doc)
      /\ \A d \in DOMAIN docs : docs'[d] = Moved(d, p, q)
  BY <1>1, MovedType DEF Alone
<1> HIDE DEF p, q, F
<1>3. ASSUME NEW d \in DOMAIN docs
      PROVE  /\ d \notin Active(p) => docs'[d] = docs[d]
             /\ d \in Active(p) /\ p = q => docs'[d].status = "archived"
             /\ d \in Active(p) /\ p # q => docs'[d].path = q
  <2>1. docs[d] \in Doc  BY <1>2
  <2>2. QED  BY <1>2, <2>1 DEF Moved, Doc
<1>4. CASE p = q
  <2>1. \A x \in Paths : Active(x)' \subseteq Active(x)  BY <1>2, <1>3, <1>4 DEF Active
  <2>2. ASSUME NEW x \in Paths, NEW d \in Active(x)' \ stray', NEW e \in Active(x)' \ stray'
        PROVE  d = e
    BY <1>1, <1>4, <2>1 DEF Alone, AloneOK
  <2>3. AloneOK'  BY <2>2 DEF AloneOK
  <2>4. QED  BY <1>1, <2>3 DEF RouteOK
<1>5. CASE p # q
  <2>1. ASSUME NEW x \in Paths, NEW d \in Active(x)'
        PROVE  (d \in Active(x) /\ d \notin Active(p)) \/ (x = q /\ d \in Active(p))
    BY <1>2, <1>3, <1>5 DEF Active
  <2>2. ASSUME NEW x \in Paths, NEW d \in Active(x)' \ stray', NEW e \in Active(x)' \ stray'
        PROVE  d = e
    <3>1. CASE x # q
      <4>1. d \in Active(x) \ Active(p) /\ e \in Active(x) \ Active(p)
        BY <2>1, <2>2, <3>1
      <4>2. \A i \in F : i \in Active(x) => i \in Active(p)  BY <1>1 DEF Active
      <4>3. d \in Active(x) \ stray /\ e \in Active(x) \ stray  BY <1>1, <2>2, <4>1, <4>2
      <4>4. QED  BY <4>3 DEF Alone, AloneOK
    <3>2. CASE x = q /\ Cardinality(Active(p) \cup Active(q)) > 1
      <4>1. Active(q) \subseteq stray  BY <1>1 DEF Alone, RouteOK, q
      <4>2. F = {}
        <5> DEFINE S == Active(p) \cup Active(q)
        <5>1. S \subseteq DOMAIN docs /\ DOMAIN docs = 1..Len(docs) /\ Len(docs) \in Int
          BY <1>2 DEF Active
        <5> HIDE DEF S
        <5>2. Cardinality(S) \in Nat  BY <5>1, FiniteRange
        <5>3. QED  BY <1>1, <3>2, <5>2 DEF S
      <4>3. stray \subseteq stray' /\ Active(p) \subseteq stray'  BY <1>1, <4>2
      <4>4. QED  BY <2>1, <2>2, <3>2, <4>1, <4>3
    <3>3. CASE x = q /\ ~(Cardinality(Active(p) \cup Active(q)) > 1)
      <4> DEFINE S == Active(p) \cup Active(q)
      <4>1. d \in S /\ e \in S  BY <2>1, <2>2, <3>3
      <4>2. S \subseteq DOMAIN docs /\ DOMAIN docs = 1..Len(docs) /\ Len(docs) \in Nat
        BY <1>2 DEF Active
      <4> HIDE DEF S
      <4>3. IsFiniteSet(S)  BY <4>2, FiniteRange
      <4>4. Cardinality(S) \in Nat /\ ~(Cardinality(S) > 1)
        BY <3>3, <4>3, FS_CardinalityType DEF S
      <4>5. Cardinality(S) = 0 \/ Cardinality(S) = 1  BY <4>4
      <4>6. Cardinality(S) # 0  BY <4>1, <4>3, FS_EmptySet
      <4>7. \E y : S = {y}  BY <4>3, <4>5, <4>6, FS_Singleton
      <4>8. QED  BY <4>1, <4>7
    <3>4. QED  BY <3>1, <3>2, <3>3
  <2>3. AloneOK'  BY <2>2 DEF AloneOK
  <2>4. QED  BY <1>1, <2>3 DEF RouteOK
<1>6. QED  BY <1>4, <1>5

LEMMA ProceedsAlone ==
  ASSUME Alone, Inv, NEW r \in Requesters, Proceeds(r) PROVE RouteOK' /\ AloneOK'
<1>1. CASE CreateDocument(r)
  <2>1. req[r].path \in Paths  BY <1>1, AtWork DEF CreateDocument, Busy, Held, Requests
  <2>2. QED  BY <1>1, <2>1, CreateAlone DEF Inv
<1>2. CASE SetVersion(r)
  <2>1. SamePlaces /\ \A p \in Paths : Active(p)' \subseteq Active(p)
    BY <1>2, VersionActive DEF SetVersion, Alone
  <2>2. QED  BY <1>2, <2>1, FewerActive DEF SetVersion
<1>3. CASE Reloaded(r)
  <2>1. SamePlaces /\ \A p \in Paths : Active(p)' \subseteq Active(p)
    BY <1>3, VersionActive DEF Reloaded, Alone
  <2>2. QED  BY <1>3, <2>1, FewerActive DEF Reloaded
<1>4. CASE Reload(r)
  <2>1. docs' = docs \/ docs' = [docs EXCEPT ![Min(req[r].todo)].status = "archived"]
    BY <1>4 DEF Reload
  <2>2. SamePlaces /\ \A p \in Paths : Active(p)' \subseteq Active(p)
    BY <2>1, SameActive, ArchivedActive DEF Alone
  <2>3. UNCHANGED <<stray, route>>  BY <1>4 DEF Reload
  <2>4. QED  BY <2>2, <2>3, FewerActive
<1>5. CASE \E t \in {NoFile} \cup {{x} : x \in DirectTexts} : GitDiscards(r, t)
  <2>1. docs' = docs /\ stray \subseteq stray' /\ route' = route  BY <1>5 DEF GitDiscards
  <2>2. QED  BY <2>1, SameActive, FewerActive
<1>6. CASE \/ Enter(r) \/ ReadFile(r) \/ NoMoreDocuments(r) \/ Answer(r) \/ Vanished(r)
           \/ Merge(r) \/ PushUpdate(r) \/ AfterPush(r) \/ NextDocument(r)
           \/ CompareFile(r) \/ SaveFile(r)
  <2>1. UNCHANGED <<docs, stray, route>>
    BY <1>6
    DEF Enter, ReadFile, NoMoreDocuments, Answer, Vanished, Merge, PushUpdate, AfterPush,
        NextDocument, CompareFile, SaveFile, Refuse
  <2>2. QED  BY <2>1, SameActive, FewerActive
<1>7. QED  BY <1>1, <1>2, <1>3, <1>4, <1>5, <1>6 DEF Proceeds

LEMMA AloneNext ==
  ASSUME RouteOK, AloneOK, Inv, RouteType, [Next]_vars PROVE RouteOK' /\ AloneOK'
<1>0. Alone  BY DEF Alone, Inv, DataOK
<1>1. CASE \E r \in Requesters : Proceeds(r)  BY <1>0, <1>1, ProceedsAlone
<1>2. CASE MoveDocuments  BY <1>0, <1>2, MoveAlone
<1>3. CASE \/ TimerFires \/ Crash \/ UNCHANGED vars
           \/ \E c \in Clients : \/ SendLive(c) \/ Persist(c) \/ Apply(c)
                                 \/ \E p \in Paths : Open(c, p) \/ DiscardPaths(c, p)
                                 \/ \E e \in Edits : Edit(c, e)
           \/ \E p \in Paths, x \in DirectTexts : SaveDirectly(p, x) \/ CreateDirectly(p, x)
  <2>1. docs' = docs /\ stray' = stray /\ (route' = route \/ route' = NoMove)
    BY <1>3
    DEF TimerFires, Crash, vars, SendLive, Persist, Apply, Open, Call, DiscardPaths, Edit,
        SaveDirectly, CreateDirectly
  <2>2. QED  BY <1>0, <2>1, SameActive, FewerActive
<1>4. CASE (\E p, q \in Paths : RenameFile(p, q)) \/ \E p \in Paths : DeleteFile(p)
  <2>1. /\ docs' = docs /\ stray \subseteq stray' /\ Active(route'.to) \subseteq stray'
        /\ route'.docs \subseteq Active(route'.from) /\ route'.docs \subseteq stray'
        /\ route'.from = route'.to => route'.docs = {}
    <3>1. CASE \E p \in Paths : DeleteFile(p)
      <4>1. PICK p \in Paths : DeleteFile(p)  BY <3>1
      <4>2. route'.from = p /\ route'.to = p /\ route'.docs = {}
        BY <4>1 DEF DeleteFile, NoMove
      <4>3. QED  BY <4>1, <4>2 DEF DeleteFile
    <3>2. CASE \E p, q \in Paths : RenameFile(p, q)
      <4>1. PICK p \in Paths, q \in Paths : RenameFile(p, q)  BY <3>2
      <4>2. p # q  BY <4>1 DEF RenameFile
      <4>3. route'.from = p /\ route'.to = q /\ route'.docs = Active(p) \ stray
        BY <4>1 DEF RenameFile
      <4>4. QED  BY <4>1, <4>2, <4>3 DEF RenameFile
    <3>3. QED  BY <1>4, <3>1, <3>2
  <2>2. RouteOK'  BY <2>1 DEF RouteOK, Active
  <2>3. AloneOK'
    <3>1. ASSUME NEW p \in Paths, NEW d \in Active(p)' \ stray', NEW e \in Active(p)' \ stray'
          PROVE  d = e
      BY <2>1, SameActive DEF AloneOK
    <3>2. QED  BY <3>1 DEF AloneOK
  <2>4. QED  BY <2>2, <2>3
<1>5. QED  BY <1>1, <1>2, <1>3, <1>4 DEF Next, Users

\* Concurrent opens of a file leave it with at most one document, whatever is
\* renamed, deleted, discarded or restarted meanwhile; documents caught in a rename
\* or a deletion of their file are the exception (document, renamePath, archivePath).
THEOREM OneDocument == Spec => []OneDocumentPerFile
<1>1. Init => RouteOK /\ AloneOK
  <2>1. ASSUME Init  PROVE route = NoMove /\ \A p \in Paths : Active(p) = {}
    BY <2>1 DEF Init, Active
  <2>2. QED  BY <2>1 DEF RouteOK, AloneOK
<1>2. (RouteOK /\ AloneOK) /\ (Inv /\ RouteType) /\ [Next]_vars => (RouteOK /\ AloneOK)'
  BY AloneNext
<1>3. ASSUME AloneOK  PROVE OneDocumentPerFile
  <2>1. ASSUME NEW p \in Paths  PROVE Cardinality(Active(p) \ stray) <= 1
    <3> DEFINE S == Active(p) \ stray
    <3>1. \A d, e \in S : d = e  BY <1>3 DEF AloneOK
    <3> HIDE DEF S
    <3>2. CASE S = {}  BY <3>2, FS_EmptySet DEF S
    <3>3. CASE S # {}
      <4>1. PICK d : S = {d}  BY <3>1, <3>3
      <4>2. QED  BY <4>1, FS_Singleton DEF S
    <3>4. QED  BY <3>2, <3>3
  <2>2. QED  BY <2>1 DEF OneDocumentPerFile
<1>4. AloneOK => OneDocumentPerFile  BY <1>3
<1>5. QED  BY <1>1, <1>2, <1>4, Invariant, PTL DEF Spec

-----------------------------------------------------------------------------
(* Where a request is: its document is the one of its file.                   *)

Placed(q, D) ==
  /\ q.phase \in {"push", "reloaded"} \cup Flushing => D[q.doc].path = q.path
  /\ q.phase \in {"push"} \cup Flushing => D[q.doc].status = "active"
  /\ q.phase \in {"git", "reload", "reloaded"} => q.kind = "discard"
  /\ q.kind = "discard" /\ q.phase \in Held => \A d \in q.list : D[d].path = q.path
  /\ q.phase \in {"next"} \cup Flushing => \A d \in q.todo : D[d].status = "active"
PlacedOK == \A r \in Requesters : req[r] # Idle => Placed(req[r], docs)

LEMMA PlacedKept ==
  ASSUME NEW q, NEW D, NEW D2, NEW n, Placed(q, D), ShapeOK(q, n),
         (\A d \in 1..n : D2[d].path = D[d].path /\ D2[d].status = D[d].status) \/ ~Holds(q)
  PROVE  Placed(q, D2)
<1>1. CASE ~Holds(q)
  BY <1>1 DEF Placed, Holds, ShapeOK, Held, Flushing
<1>2. CASE \A d \in 1..n : D2[d].path = D[d].path /\ D2[d].status = D[d].status
  <2>1. /\ q.phase \in {"push", "reloaded"} \cup Flushing => q.doc \in 1..n
        /\ q.list \subseteq 1..n /\ q.todo \subseteq 1..n
    BY DEF ShapeOK
  <2>2. q.phase \in {"push", "reloaded"} \cup Flushing =>
          D2[q.doc].path = D[q.doc].path /\ D2[q.doc].status = D[q.doc].status
    BY <1>2, <2>1
  <2>3. \A d \in q.list : D2[d].path = D[d].path  BY <1>2, <2>1
  <2>4. \A d \in q.todo : D2[d].status = D[d].status  BY <1>2, <2>1
  <2>5. QED  BY <2>2, <2>3, <2>4 DEF Placed
<1>3. QED  BY <1>1, <1>2

SameDocs == \A d \in 1..Len(docs) : docs'[d].path = docs[d].path /\ docs'[d].status = docs[d].status

LEMMA PlacedSteps ==
  ASSUME ReqOK, PlacedOK, NEW r \in Requesters, \A s \in Requesters \ {r} : req'[s] = req[s],
         SameDocs \/ holder = r, req'[r] # Idle => Placed(req'[r], docs')
  PROVE  PlacedOK'
<1>1. ASSUME NEW s \in Requesters, s # r, req[s] # Idle  PROVE Placed(req[s], docs')
  <2>1. ShapeOK(req[s], Len(docs)) /\ Placed(req[s], docs)
    BY <1>1 DEF ReqOK, RequestsOK, RequestOK, PlacedOK
  <2>2. holder = r => ~Holds(req[s])  BY <1>1 DEF ReqOK, LockOK
  <2>3. QED  BY <2>1, <2>2, PlacedKept DEF SameDocs
<1>2. ASSUME NEW s \in Requesters, req'[s] # Idle  PROVE Placed(req'[s], docs')
  BY <1>1, <1>2
<1>3. QED  BY <1>2 DEF PlacedOK

LEMMA PlacedStill == ASSUME PlacedOK, UNCHANGED <<req, docs>> PROVE PlacedOK'
  BY DEF PlacedOK

LEMMA PlacedLeaves ==
  ASSUME ReqOK, PlacedOK, NEW r \in Requesters, Leaves(r), SameDocs PROVE PlacedOK'
<1>1. req'[r] = Idle /\ \A s \in Requesters \ {r} : req'[s] = req[s]  BY DEF ReqOK, Leaves
<1>2. QED  BY <1>1, PlacedSteps

\* A request that took w, while the documents stay where they are.
LEMMA PlacedGoes ==
  ASSUME ReqOK, PlacedOK, NEW r \in Requesters, NEW w, req' = [req EXCEPT ![r] = w],
         SameDocs, Placed(w, docs')
  PROVE  PlacedOK'
<1>1. req'[r] = w /\ \A s \in Requesters \ {r} : req'[s] = req[s]  BY DEF ReqOK
<1>2. QED  BY <1>1, PlacedSteps

LEMMA DocsSame == ASSUME docs' = docs PROVE SameDocs
  BY DEF SameDocs

LEMMA VersionSame ==
  ASSUME DataOK, NEW d, NEW v, docs' = [docs EXCEPT ![d].version = v] PROVE SameDocs
<1>1. docs \in Seq(Doc) /\ DOMAIN docs = 1..Len(docs)  BY DEF DataOK
<1>2. ASSUME NEW e \in DOMAIN docs
      PROVE  docs'[e].path = docs[e].path /\ docs'[e].status = docs[e].status
  <2>1. docs[e] \in Doc  BY <1>1
  <2>2. docs'[e] = docs[e] \/ docs'[e] = [docs[e] EXCEPT !.version = v]  OBVIOUS
  <2>3. QED  BY <2>1, <2>2 DEF Doc
<1>3. QED  BY <1>1, <1>2 DEF SameDocs

\* Requests of a client or the timer, before they enter.
Fresher(w) == w.phase = "enter" \/ (w.phase = "document" /\ w.kind = "open")

LEMMA FresherPlaced == ASSUME NEW w, Fresher(w) PROVE \A D : Placed(w, D)
  BY DEF Fresher, Placed, Held, Flushing

LEMMA RequestFresher ==
  ASSUME NEW k, NEW p, NEW d, NEW u, NEW b
  PROVE  /\ Fresher(Request(k, p, d, u)) /\ Fresher([Request(k, p, d, u) EXCEPT !.base = b])
         /\ k = "open" => Fresher([Request(k, p, d, u) EXCEPT !.phase = "document"])
  BY DEF Fresher, Request

LEMMA CallPlaced ==
  ASSUME ReqOK, PlacedOK, NEW c \in Requesters,
         \E w : Fresher(w) /\ req' = [req EXCEPT ![c] = w], docs' = docs
  PROVE  PlacedOK'
<1>1. PICK w : Fresher(w) /\ req' = [req EXCEPT ![c] = w]  OBVIOUS
<1>2. SameDocs /\ Placed(w, docs')  BY <1>1, FresherPlaced, DocsSame
<1>3. QED  BY <1>1, <1>2, PlacedGoes

LEMMA CallersFresh ==
  ASSUME NEW c \in Clients,
         \/ \E p \in Paths : Open(c, p) \/ DiscardPaths(c, p)
         \/ SendLive(c) \/ Persist(c) \/ Apply(c)
  PROVE  c \in Requesters /\ (\E w : Fresher(w) /\ req' = [req EXCEPT ![c] = w]) /\ docs' = docs
<1>1. c \in Requesters  BY DEF Requesters
<1>2. CASE \E p \in Paths : Open(c, p) \/ DiscardPaths(c, p)
  BY <1>1, <1>2, RequestFresher DEF Open, DiscardPaths, Call
<1>3. CASE SendLive(c)  BY <1>1, <1>3, RequestFresher DEF SendLive, Call
<1>4. CASE Persist(c)  BY <1>1, <1>4, RequestFresher DEF Persist, Call
<1>5. CASE Apply(c)  BY <1>1, <1>5, RequestFresher DEF Apply, Call
<1>6. QED  BY <1>2, <1>3, <1>4, <1>5

\* Each step of a request.
LEMMA EnterPlaced == ASSUME Inv, PlacedOK, NEW r \in Requesters, Enter(r) PROVE PlacedOK'
<1> DEFINE q == req[r]
           S == IF q.kind = "discard" THEN Active(q.path)
                ELSE {d \in DOMAIN docs : docs[d].status = "active"}
           w == IF q.kind \in {"flush", "discard"} THEN Listed(q, S) ELSE At(q, "document")
<1>1. q \in Requests  BY AtWork DEF Enter, Busy
<1>2. S \in SUBSET Nat /\ (\A d \in S : docs[d].status = "active")
      /\ (q.kind = "discard" => \A d \in S : docs[d].path = q.path)
  BY LenDocs DEF Active, Inv
<1>3. docs' = docs /\ req' = [req EXCEPT ![r] = w]  BY DEF Enter, Listed, At
<1> HIDE DEF S
<1>4. Placed(w, docs')
  <2>1. CASE q.kind \in {"flush", "discard"}
    <3>1. w.phase = "next" /\ w.kind = q.kind /\ w.path = q.path /\ w.list = S /\ w.todo = S
      BY <1>1, <1>2, <2>1, ListedFields DEF SameWork
    <3> HIDE DEF w
    <3>2. QED  BY <1>2, <1>3, <3>1 DEF Placed, Flushing
  <2>2. CASE q.kind \notin {"flush", "discard"}
    <3>1. w.phase = "document" /\ w.kind = q.kind
      BY <1>1, <2>2, AtFields DEF SameWork, Held
    <3> HIDE DEF w
    <3>2. QED  BY <2>2, <3>1 DEF Placed, Flushing
  <2>3. QED  BY <2>1, <2>2
<1> HIDE DEF w
<1>5. QED  BY <1>3, <1>4, DocsSame, PlacedGoes DEF Inv

LEMMA ReadFilePlaced == ASSUME Inv, PlacedOK, NEW r \in Requesters, ReadFile(r) PROVE PlacedOK'
<1> DEFINE q == req[r]
           w == IF Found(q.path) # 0 THEN At(q, "found") ELSE Creating(q, file[q.path])
<1>1. q \in Requests /\ RequestOK(q, Len(docs), log, written) /\ q.phase = "document"
  BY AtWork DEF ReadFile, Busy, Held
<1>2. docs' = docs /\ (Leaves(r) \/ req' = [req EXCEPT ![r] = w])
  BY DEF ReadFile, Refuse, At, Creating
<1>3. w.kind # "discard" /\ w.phase \in {"found", "create"}
  <2>1. q.kind # "discard" /\ file[q.path] \in File
    BY <1>1 DEF RequestOK, ShapeOK, Updates, Inv, DataOK, Requests
  <2>2. QED  BY <1>1, <2>1, AtFields, CreatingFields DEF SameWork, Held
<1> HIDE DEF w
<1>4. Placed(w, docs')  BY <1>3 DEF Placed, Flushing
<1>5. QED  BY <1>2, <1>4, DocsSame, PlacedGoes, PlacedLeaves DEF Inv

LEMMA CreatePlaced == ASSUME Inv, PlacedOK, NEW r \in Requesters, CreateDocument(r) PROVE PlacedOK'
<1> DEFINE q == req[r]
           w == At(q, "found")
<1>1. q \in Requests /\ RequestOK(q, Len(docs), log, written) /\ q.phase = "create"
  BY AtWork DEF CreateDocument, Busy, Held
<1>2. req' = [req EXCEPT ![r] = w] /\ (docs' = docs \/ \E x : docs' = Append(docs, x))
  BY DEF CreateDocument, At
<1>3. w.kind # "discard" /\ w.phase = "found"
  BY <1>1, AtFields DEF SameWork, Held, RequestOK, ShapeOK, Updates
<1> HIDE DEF w
<1>4. Placed(w, docs')  BY <1>3 DEF Placed, Flushing
<1>5. SameDocs  BY <1>2 DEF SameDocs, Inv, DataOK
<1>6. QED  BY <1>2, <1>4, <1>5, PlacedGoes DEF Inv

LEMMA MergePlaced == ASSUME Inv, PlacedOK, NEW r \in Requesters, Merge(r) PROVE PlacedOK'
<1> DEFINE q == req[r]
           d == Found(q.path)
           l == log[d]
           w == Merged(q, d, NextSequence(l), Restored(l).ops \cup q.update, Restored(l).gone)
<1>1. q \in Requests /\ RequestOK(q, Len(docs), log, written) /\ q.phase = "found" /\ d # 0
      /\ q.kind # "open"
  BY AtWork DEF Merge, Busy, Held
<1>2. docs' = docs /\ (Leaves(r) \/ req' = [req EXCEPT ![r] = w])
  BY DEF Merge, Refuse, Merged
<1>3. d \in Active(q.path) /\ d \in 1..Len(docs) /\ d \in Nat  BY <1>1, FoundActive DEF Inv
<1> HIDE DEF d
<1>4. l \in Log /\ LogOK(l)  BY <1>3, LenDocs DEF Inv, DataOK, LogsOK
<1>5. /\ NextSequence(l) \in Nat /\ Restored(l).ops \cup q.update \in SUBSET Ops
      /\ Restored(l).gone \in SUBSET Ops
  BY <1>1, <1>4, NextExceeds, RestoredParts DEF Requests
<1>6. w.phase = "push" /\ SameWork(w, q) /\ w.doc = d /\ w.todo = q.todo
  <2> DEFINE n == NextSequence(l)  o == Restored(l).ops \cup q.update  g == Restored(l).gone
  <2>1. n \in Nat /\ o \in SUBSET Ops /\ g \in SUBSET Ops  BY <1>5
  <2>2. w = Merged(q, d, n, o, g)  OBVIOUS
  <2> HIDE DEF n, o, g, w
  <2>3. QED  BY <1>1, <1>3, <2>1, <2>2, MergedFields DEF SameList
<1> HIDE DEF w
<1>7. Placed(w, docs')
  <2>1. q.kind # "discard"  BY <1>1 DEF RequestOK, ShapeOK, Updates
  <2>2. docs'[w.doc].path = w.path /\ docs'[w.doc].status = "active" /\ w.kind = q.kind
    BY <1>2, <1>3, <1>6 DEF Active, SameWork
  <2>3. QED  BY <1>6, <2>1, <2>2 DEF Placed, Flushing
<1>8. QED  BY <1>2, <1>7, DocsSame, PlacedGoes, PlacedLeaves DEF Inv

\* Steps that go on with the same document of the same file.
LEMMA SamePlaced ==
  ASSUME NEW q \in Requests, NEW f \in Flushing \cup {"next", "git"}, NEW D, NEW n,
         Placed(q, D), ShapeOK(q, n), q.phase \in Flushing \cup {"push", "next"},
         f \in Flushing => q.phase \in Flushing \cup {"push"},
         f = "git" => q.kind = "discard"
  PROVE  Placed(At(q, f), D)
<1> DEFINE w == At(q, f)
<1>1. /\ w.phase = f /\ w.kind = q.kind /\ w.path = q.path /\ w.doc = q.doc
      /\ w.list = q.list /\ w.todo = q.todo
  BY AtFields DEF SameWork, SameText, SameList, Held, Flushing
<1>2. q.phase = "push" => q.todo = {}  BY DEF ShapeOK, Updates
<1>3. q.phase \in Held  BY DEF Held
<1> HIDE DEF w
<1>4. Placed(w, D)
  <2>1. w.phase \in {"push", "reloaded"} \cup Flushing => D[w.doc].path = w.path
    BY <1>1 DEF Placed, Flushing
  <2>2. w.phase \in {"push"} \cup Flushing => D[w.doc].status = "active"
    BY <1>1 DEF Placed, Flushing
  <2>3. w.phase \in {"git", "reload", "reloaded"} => w.kind = "discard"
    BY <1>1 DEF Placed, Flushing
  <2>4. w.kind = "discard" => \A d \in w.list : D[d].path = w.path
    BY <1>1, <1>3 DEF Placed
  <2>5. \A d \in q.todo : D[d].status = "active"  BY <1>2 DEF Placed
  <2>6. QED  BY <1>1, <2>1, <2>2, <2>3, <2>4, <2>5 DEF Placed
<1>5. QED  BY <1>4 DEF w

LEMMA PushPlaced ==
  ASSUME Inv, PlacedOK, NEW r \in Requesters, PushUpdate(r) \/ AfterPush(r) PROVE PlacedOK'
<1> DEFINE q == req[r]
<1>1. q \in Requests /\ q # Idle /\ RequestOK(q, Len(docs), log, written)
      /\ q.phase \in {"push", "pushed"}
  BY AtWork DEF PushUpdate, AfterPush, Busy, Held, Flushing
<1>2. docs' = docs /\ \/ Leaves(r)
                      \/ \E f \in {"pushed", "compare"} : req' = [req EXCEPT ![r] = At(q, f)]
  BY DEF PushUpdate, AfterPush, At
<1>3. Placed(q, docs) /\ ShapeOK(q, Len(docs))  BY <1>1 DEF PlacedOK, RequestOK
<1>4. \A f \in {"pushed", "compare"} : Placed(At(q, f), docs')
  BY <1>1, <1>2, <1>3, SamePlaced DEF Flushing
<1>5. QED  BY <1>2, <1>4, DocsSame, PlacedGoes, PlacedLeaves DEF Inv

LEMMA NextDocumentPlaced ==
  ASSUME Inv, PlacedOK, NEW r \in Requesters, NextDocument(r) PROVE PlacedOK'
<1> DEFINE q == req[r]
           n == Len(docs)
           d == Min(q.todo)
           l == log[d]
           w == Visiting(q, d, docs[d].path, Restored(l).ops, Restored(l).gone)
<1>1. /\ q \in Requests /\ q # Idle /\ RequestOK(q, n, log, written)
      /\ q.phase = "next" /\ q.phase \in Held
  BY AtWork DEF NextDocument, Busy, Held
<1>2. Placed(q, docs) /\ ShapeOK(q, n)  BY <1>1 DEF PlacedOK, RequestOK
<1>3. /\ q.kind \in {"flush", "discard"} /\ q.list \subseteq 1..n /\ q.todo \subseteq q.list
      /\ q.todo \in SUBSET Nat /\ n \in Nat
  BY <1>1, <1>2, LenDocs DEF Requests, ShapeOK, Inv
<1>4. docs' = docs  BY DEF NextDocument
<1>5. CASE Leaves(r)  BY <1>4, <1>5, DocsSame, PlacedLeaves DEF Inv
<1>6. CASE q.kind = "discard" /\ req' = [req EXCEPT ![r] = At(q, "git")]
  <2>1. Placed(At(q, "git"), docs')  BY <1>1, <1>2, <1>4, <1>6, SamePlaced DEF Flushing
  <2>2. QED  BY <1>4, <1>6, <2>1, DocsSame, PlacedGoes DEF Inv
<1>7. CASE q.todo # {} /\ req' = [req EXCEPT ![r] = w]
  <2>1. d \in q.todo  BY <1>3, <1>7, Minimal
  <2>2. d \in 1..n /\ d \in DOMAIN docs /\ d \in DOMAIN log  BY <1>3, <2>1, LenDocs DEF Inv
  <2>3. req' = [req EXCEPT ![r] = w]  BY <1>7
  <2> HIDE DEF d
  <2>4. docs[d] \in Doc /\ l \in Log /\ LogOK(l)  BY <2>2 DEF Inv, DataOK, LogsOK
  <2>5. docs[d].path \in Paths /\ d \in Nat  BY <1>3, <2>1, <2>4 DEF Doc
  <2>6. Restored(l).ops \in SUBSET Ops /\ Restored(l).gone \in SUBSET Ops
    BY <2>4, RestoredParts
  <2>7. /\ w.phase = "compare" /\ w.kind = q.kind /\ w.path = docs[d].path
        /\ w.list = q.list /\ w.todo = q.todo \ {d} /\ w.doc = d
    <3> DEFINE p == docs[d].path    o == Restored(l).ops    e == Restored(l).gone
    <3> HIDE DEF p, o, e
    <3>1. p \in Paths /\ d \in Nat /\ o \in SUBSET Ops /\ e \in SUBSET Ops
      BY <2>5, <2>6 DEF p, o, e
    <3>2. w = Visiting(q, d, p, o, e)  BY DEF p, o, e
    <3> HIDE DEF w
    <3>3. Compares(w, q, d, p, o, e)  BY <1>1, <3>1, <3>2, VisitingFields
    <3>4. QED  BY <3>3 DEF p, Compares
  <2> HIDE DEF w
  <2>8. docs[d].status = "active" /\ \A e \in q.todo : docs[e].status = "active"
    BY <1>1, <1>2, <2>1 DEF Placed
  <2>9. q.kind = "discard" => docs[d].path = q.path /\ \A e \in q.list : docs[e].path = q.path
    BY <1>1, <1>2, <1>3, <2>1 DEF Placed
  <2>10. Placed(w, docs')  BY <1>4, <2>7, <2>8, <2>9 DEF Placed
  <2>11. QED  BY <1>4, <2>3, <2>10, DocsSame, PlacedGoes DEF Inv
<1>8. QED  BY <1>3, <1>5, <1>6, <1>7 DEF NextDocument, At, Visiting

LEMMA FlushPlaced ==
  ASSUME Inv, PlacedOK, NEW r \in Requesters, CompareFile(r) \/ SaveFile(r) \/ SetVersion(r)
  PROVE  PlacedOK'
<1> DEFINE q == req[r]
<1>1. /\ q \in Requests /\ q # Idle /\ RequestOK(q, Len(docs), log, written)
      /\ q.phase \in Flushing /\ q.path \in Paths
  BY AtWork DEF CompareFile, SaveFile, SetVersion, Busy, Held, Flushing, Requests
<1>2. Placed(q, docs) /\ ShapeOK(q, Len(docs))  BY <1>1 DEF PlacedOK, RequestOK
<1>3. SameDocs
  <2>1. CASE SetVersion(r)  BY <2>1, VersionSame DEF SetVersion, Inv
  <2>2. CASE CompareFile(r) \/ SaveFile(r)
    BY <2>2, DocsSame DEF CompareFile, SaveFile, Refuse
  <2>3. QED  BY <2>1, <2>2
<1>4. /\ Placed(q, docs')
      /\ \A f \in {"next", "save"} : Placed(At(q, f), docs')
  <2>1. Placed(q, docs')  BY <1>2, <1>3, PlacedKept DEF SameDocs
  <2>2. QED  BY <1>1, <1>2, <2>1, SamePlaced DEF Flushing
<1>5. CASE Leaves(r)  BY <1>3, <1>5, PlacedLeaves DEF Inv
<1>6. CASE \E f \in {"next", "save"} : req' = [req EXCEPT ![r] = At(q, f)]
  BY <1>3, <1>4, <1>6, PlacedGoes DEF Inv
<1>7. CASE SaveFile(r) /\ ~Leaves(r)
  <2> DEFINE w == Written(q, file'[q.path])
  <2>1. req' = [req EXCEPT ![r] = w]  BY <1>7 DEF SaveFile, Refuse, Written
  <2>2. file'[q.path] \in File
    <3>1. Inv'  BY <1>7, SaveFileStep
    <3>2. QED  BY <1>1, <3>1 DEF Inv, DataOK
  <2>3. /\ w.phase = "version" /\ w.kind = q.kind /\ w.path = q.path /\ w.doc = q.doc
        /\ w.list = q.list /\ w.todo = q.todo
    BY <1>1, <2>2, WrittenFields DEF SameWork, SameText, SameList
  <2> HIDE DEF w
  <2>4. q.phase = "save"  BY <1>7 DEF SaveFile
  <2>5. Placed(w, docs')  BY <1>4, <2>3, <2>4 DEF Placed, Flushing, Held
  <2>6. QED  BY <1>3, <2>1, <2>5, PlacedGoes DEF Inv
<1>8. QED
  <2>1. CASE CompareFile(r)
    BY <1>5, <1>6, <2>1 DEF CompareFile, Refuse, Flushed, At
  <2>2. CASE SetVersion(r)  BY <1>5, <1>6, <2>2 DEF SetVersion, Flushed, At
  <2>3. CASE SaveFile(r)  BY <1>5, <1>7, <2>3
  <2>4. QED  BY <2>1, <2>2, <2>3

LEMMA DiscardPlaced ==
  ASSUME Inv, PlacedOK, NEW r \in Requesters,
         \/ \E t \in {NoFile} \cup {{x} : x \in DirectTexts} : GitDiscards(r, t)
         \/ Reload(r) \/ Reloaded(r)
  PROVE  PlacedOK'
<1> DEFINE q == req[r]
           n == Len(docs)
<1>1. /\ q \in Requests /\ q # Idle /\ RequestOK(q, n, log, written)
      /\ q.phase \in {"git", "reload", "reloaded"} /\ q.path \in Paths
      /\ q.kind = "discard" /\ holder = r
  <2>1. req[r].phase \in {"git", "reload", "reloaded"}  BY DEF GitDiscards, Reload, Reloaded
  <2>2. Busy(q) /\ RequestOK(q, n, log, written) /\ (Holds(q) => holder = r)
    BY <2>1, AtWork DEF Held
  <2>3. Placed(q, docs)  BY <2>2 DEF Busy, PlacedOK
  <2>4. QED  BY <2>1, <2>2, <2>3 DEF Placed, Busy, Requests, Holds, Held
<1>2. Placed(q, docs) /\ ShapeOK(q, n)  BY <1>1 DEF PlacedOK, RequestOK
<1>3. /\ \A d \in q.list : docs[d].path = q.path
      /\ q.list \subseteq 1..n /\ q.todo \subseteq q.list /\ q.todo \in SUBSET Nat
  BY <1>1, <1>2 DEF Placed, ShapeOK, Held, Requests
<1>4. \A d \in q.list : docs'[d].path = q.path
  <2>1. CASE docs' = docs  BY <1>3, <2>1
  <2>2. CASE Reloaded(r)
    <3>1. SameDocs  BY <2>2, VersionSame DEF Reloaded, Inv
    <3>2. QED  BY <1>3, <3>1 DEF SameDocs
  <2>3. CASE \E d : docs' = [docs EXCEPT ![d].status = "archived"]
    <3>1. SamePlaces  BY <2>3, ArchivedActive DEF Inv, DataOK
    <3>2. QED  BY <1>3, <3>1, LenDocs DEF SamePlaces, Inv
  <2>4. QED  BY <2>1, <2>2, <2>3 DEF GitDiscards, Reload
<1>5. ASSUME NEW w, w.phase = "reload", w.kind = q.kind, w.path = q.path, w.list = q.list
      PROVE  Placed(w, docs')
  BY <1>1, <1>4, <1>5 DEF Placed, Flushing
<1>6. ASSUME NEW w, req' = [req EXCEPT ![r] = w], Placed(w, docs')  PROVE PlacedOK'
  <2>1. req'[r] = w /\ \A s \in Requesters \ {r} : req'[s] = req[s]
    BY <1>6 DEF Inv, ReqOK
  <2>2. QED  BY <1>1, <1>6, <2>1, PlacedSteps DEF Inv
<1>7. CASE \E t \in {NoFile} \cup {{x} : x \in DirectTexts} : GitDiscards(r, t)
  <2>1. req' = [req EXCEPT ![r] = Restarted(q)]  BY <1>7 DEF GitDiscards, Restarted
  <2>2. Placed(Restarted(q), docs')  BY <1>1, <1>5, RestartedFields DEF SameWork
  <2>3. QED  BY <1>6, <2>1, <2>2
<1>8. CASE Reloaded(r)
  <2>1. req' = [req EXCEPT ![r] = Replayed(q)]  BY <1>8 DEF Reloaded, Replayed
  <2>2. Placed(Replayed(q), docs')  BY <1>1, <1>5, ReplayedFields DEF SameWork
  <2>3. QED  BY <1>6, <2>1, <2>2
<1>9. CASE Reload(r)
  <2> DEFINE d == Min(q.todo)
  <2>1. CASE Leaves(r) /\ docs' = docs  BY <2>1, DocsSame, PlacedLeaves DEF Inv
  <2>2. CASE req' = [req EXCEPT ![r] = Dropped(q, d)]
    <3>1. q.phase = "reload"  BY <1>9 DEF Reload
    <3> DEFINE w == Dropped(q, d)
    <3>2. w.phase = "reload" /\ w.kind = q.kind /\ w.path = q.path /\ w.list = q.list
      BY <1>1, <3>1, DroppedFields DEF SameWork
    <3> HIDE DEF w
    <3>3. Placed(w, docs')  BY <1>5, <3>2
    <3>4. QED  BY <1>6, <2>2, <3>3 DEF w
  <2>3. CASE q.todo # {} /\ docs' = docs /\ req' = [req EXCEPT ![r] = Replaced(q, d, file[q.path])]
    <3> DEFINE w == Replaced(q, d, file[q.path])
    <3>1. d \in q.todo /\ d \in Nat  BY <1>3, <2>3, Minimal
    <3>2. file[q.path] \in File  BY <1>1 DEF Inv, DataOK
    <3> HIDE DEF d
    <3>3. /\ w.phase = "reloaded" /\ w.kind = q.kind /\ w.path = q.path /\ w.doc = d
          /\ w.list = q.list
      BY <1>1, <3>1, <3>2, ReplacedFields DEF SameWork, SameList
    <3> HIDE DEF w
    <3>4. d \in q.list  BY <1>3, <3>1
    <3>5. Placed(w, docs')  BY <1>1, <1>4, <3>3, <3>4 DEF Placed, Flushing
    <3>6. QED  BY <1>6, <2>3, <3>5 DEF w
  <2>4. QED  BY <1>9, <2>1, <2>2, <2>3 DEF Reload, Dropped, Replaced
<1>10. QED  BY <1>7, <1>8, <1>9

LEMMA ProceedsPlaced == ASSUME Inv, PlacedOK, NEW r \in Requesters, Proceeds(r) PROVE PlacedOK'
<1>1. CASE NoMoreDocuments(r) \/ Vanished(r) \/ Answer(r)
  <2>1. Leaves(r) /\ docs' = docs  BY <1>1 DEF NoMoreDocuments, Vanished, Answer, Refuse
  <2>2. QED  BY <2>1, DocsSame, PlacedLeaves DEF Inv
<1>2. QED
  BY <1>1, EnterPlaced, ReadFilePlaced, CreatePlaced, MergePlaced, PushPlaced,
     NextDocumentPlaced, FlushPlaced, DiscardPlaced
  DEF Proceeds

LEMMA PlacedNext == ASSUME Inv, PlacedOK, [Next]_vars PROVE PlacedOK'
<1>1. CASE \E c \in Clients : \/ \E p \in Paths : Open(c, p) \/ DiscardPaths(c, p)
                              \/ SendLive(c) \/ Persist(c) \/ Apply(c)
  BY <1>1, CallersFresh, CallPlaced DEF Inv
<1>2. CASE TimerFires
  <2>1. Flusher \in Requesters /\ docs' = docs
        /\ \E w : Fresher(w) /\ req' = [req EXCEPT ![Flusher] = w]
    BY <1>2, RequestFresher DEF TimerFires, Requesters
  <2>2. QED  BY <2>1, CallPlaced DEF Inv
<1>3. CASE \/ \E c \in Clients, e \in Edits : Edit(c, e)
           \/ \E p \in Paths, x \in DirectTexts : SaveDirectly(p, x) \/ CreateDirectly(p, x)
           \/ (\E p, q \in Paths : RenameFile(p, q)) \/ \E p \in Paths : DeleteFile(p)
           \/ UNCHANGED vars
  <2>1. UNCHANGED <<req, docs>>
    BY <1>3 DEF Edit, SaveDirectly, CreateDirectly, RenameFile, DeleteFile, vars
  <2>2. QED  BY <2>1, PlacedStill
<1>4. CASE MoveDocuments
  <2>1. ASSUME NEW r \in Requesters, req[r] # Idle  PROVE Placed(req[r], docs')
    <3>1. holder # r
      BY <1>4, CollaborationAssumption DEF CollaborationAssumption, MoveDocuments, Requesters
    <3>2. ~Holds(req[r])  BY <2>1, <3>1 DEF Inv, ReqOK, LockOK
    <3>3. ShapeOK(req[r], Len(docs)) /\ Placed(req[r], docs)
      BY <2>1 DEF Inv, ReqOK, RequestsOK, RequestOK, PlacedOK
    <3>4. QED  BY <3>2, <3>3, PlacedKept
  <2>2. QED  BY <1>4, <2>1 DEF PlacedOK, MoveDocuments
<1>5. CASE Crash
  BY <1>5 DEF Crash, PlacedOK
<1>6. CASE \E r \in Requesters : Proceeds(r)  BY <1>6, ProceedsPlaced
<1>7. QED  BY <1>1, <1>2, <1>3, <1>4, <1>5, <1>6 DEF Next, Users

-----------------------------------------------------------------------------
(* What a document knows of its file.                                         *)

Words(O) == UNION {o.text : o \in O}
Seen(f, v, O) == /\ f.text # NoFile /\ v <= f.version
                 /\ v = f.version => f.text \subseteq Words(O)

\* A document follows its file to another path while neither file is replaced.
Still       == route.lives = <<file[route.from].life, file[route.to].life>>
Followed(d) == route # NoMove /\ Still /\ d \in route.docs
Belongs(d, p) ==
  /\ docs[d].status = "active"
  /\ \/ d \notin stray /\ docs[d].path = p
     \/ Followed(d) /\ p = route.to
Knows(d, v) == \A p \in Paths : Belongs(d, p) => Seen(file[p], v, Restored(log[d]).ops)

DocsKnow == \A d \in DOMAIN docs : Knows(d, docs[d].version)
RequestsKnow ==
  \A r \in Requesters :
    req[r].phase \in {"version", "reloaded"} => Knows(req[r].doc, req[r].file.version)

\* What was read before a document is created may be old, never wrong.
Old(g, f) == /\ g.life <= f.life
             /\ g.life = f.life => /\ f.text # NoFile /\ g.version <= f.version
                                   /\ g.version = f.version => g.text = f.text
ReadOK  == \A r \in Requesters : req[r].phase = "create" => Old(req[r].file, file[req[r].path])
LivesOK ==
  route # NoMove /\ route.docs # {} =>
    \E a, b \in Nat :
      /\ route.lives = <<a, b>> /\ a <= file[route.from].life /\ b <= file[route.to].life
      /\ a = file[route.from].life => file[route.from].text = NoFile

Moves(f, g) ==
  \/ g = f \/ g.life > f.life
  \/ /\ g.life = f.life
     /\ \/ f.text # NoFile /\ g.text # NoFile /\ g.version > f.version
        \/ f.text = NoFile /\ g.text = NoFile

LEMMA MovesOnce ==
  ASSUME file \in [Paths -> File], NEW p \in Paths, NEW f, file' = [file EXCEPT ![p] = f],
         Moves(file[p], f)
  PROVE  \A x \in Paths : Moves(file[x], file'[x])
  BY DEF Moves

\* A rename empties one path and fills another.
LEMMA RenamedFiles ==
  ASSUME file \in [Paths -> File], NEW p \in Paths, NEW q \in Paths, RenameFile(p, q)
  PROVE  /\ p # q /\ file[p].text # NoFile
         /\ \A x \in Paths \ {p, q} : file'[x] = file[x]
         /\ file'[q] = [file[p] EXCEPT !.life = file[q].life + 1]
         /\ file'[p] = [text |-> NoFile, version |-> 0, life |-> file[p].life + 1]
<1> DEFINE f == [file[p] EXCEPT !.life = file[q].life + 1]
           g == [text |-> NoFile, version |-> 0, life |-> file[p].life + 1]
<1>1. p # q /\ file[p].text # NoFile  BY DEF RenameFile
<1>2. file' = [[file EXCEPT ![q] = f] EXCEPT ![p] = g]
  <2>1. [file EXCEPT ![q] = f][p] = file[p]  BY <1>1
  <2>2. QED  BY <2>1 DEF RenameFile
<1> HIDE DEF f, g
<1>3. file'[q] = f /\ file'[p] = g /\ \A x \in Paths \ {p, q} : file'[x] = file[x]
  BY <1>1, <1>2
<1>4. QED  BY <1>1, <1>3 DEF f, g

LEMMA SavedFile ==
  ASSUME Inv, NEW r \in Requesters, SaveFile(r), ~Refuse(r)
  PROVE  LET q == req[r]  p == q.path  t == Text(q.doc, q.ops, q.gone) IN
         /\ p \in Paths /\ t \in Texts /\ t # NoFile /\ file[p].text # NoFile /\ MaySave(q)
         /\ q \in Requests
         /\ file' = [file EXCEPT ![p] = file'[p]] /\ file'[p] \in File
         /\ file'[p].text = t /\ file'[p].version = file[p].version + 1
         /\ file'[p].life = file[p].life
         /\ req' = [req EXCEPT ![r] = Written(q, file'[p])]
<1> DEFINE q == req[r]
           p == q.path
           t == Text(q.doc, q.ops, q.gone)
           f == [[file[p] EXCEPT !.text = t] EXCEPT !.version = file[p].version + 1]
<1>1. q \in Requests /\ p \in Paths /\ q.ops \in SUBSET Ops /\ file[p] \in File
  BY AtWork DEF SaveFile, Busy, Held, Flushing, Requests, Inv, DataOK
<1>2. t \in Texts  BY <1>1, TextType
<1>3. t # NoFile  BY <1>2, CollaborationAssumption DEF CollaborationAssumption, Texts
<1>4. /\ file[p].text # NoFile /\ MaySave(q)
      /\ file' = [file EXCEPT ![p].text = t, ![p].version = @ + 1]
      /\ req' = [req EXCEPT ![r] = Written(q, file'[p])]
  BY DEF SaveFile, Written
<1> HIDE DEF t
<1>5. file' = [file EXCEPT ![p] = f]
  <2> DEFINE h == [file[p] EXCEPT !.text = t, !.version = @ + 1]
  <2>1. file[p].version = [file[p] EXCEPT !.text = t].version  BY <1>1 DEF File
  <2>2. f = h  BY <2>1
  <2>3. file \in [Paths -> File]  BY DEF Inv, DataOK
  <2>4. file' = [file EXCEPT ![p] = h]
    <3>1. file' = [file EXCEPT ![p].text = t, ![p].version = @ + 1]  BY <1>4
    <3>2. p \in Paths  BY <1>1
    <3> HIDE DEF p
    <3>3. QED  BY <2>1, <2>3, <3>1, <3>2
  <2> HIDE DEF f, h
  <2>5. QED  BY <2>2, <2>4
<1>6. f.text = t /\ f.version = file[p].version + 1 /\ f.life = file[p].life /\ f \in File
  <2> DEFINE h == [file[p] EXCEPT !.text = t]
  <2>1. h \in File /\ h.text = t /\ h.life = file[p].life /\ file[p].version \in Nat
    BY <1>1, <1>2 DEF File
  <2>2. f = [h EXCEPT !.version = file[p].version + 1]  OBVIOUS
  <2> HIDE DEF h, f
  <2>3. QED  BY <2>1, <2>2 DEF File
<1> HIDE DEF f
<1>7. file'[p] = f  BY <1>1, <1>5 DEF Inv, DataOK
<1>8. QED  BY <1>1, <1>2, <1>3, <1>4, <1>5, <1>6, <1>7 DEF t

LEMMA FilesMove == ASSUME Inv, [Next]_vars PROVE \A p \in Paths : Moves(file[p], file'[p])
<1>0. file \in [Paths -> File] /\ \A p \in Paths : file[p] \in File  BY DEF Inv, DataOK
<1>1. CASE file' = file  BY <1>1 DEF Moves
<1>2. CASE \E p \in Paths, x \in DirectTexts : SaveDirectly(p, x) \/ CreateDirectly(p, x)
  <2>1. PICK p \in Paths, x \in DirectTexts : SaveDirectly(p, x) \/ CreateDirectly(p, x)
    BY <1>2
  <2>2. {x} \in Texts /\ {x} # NoFile
    BY CollaborationAssumption DEF CollaborationAssumption, Texts
  <2>3. CASE CreateDirectly(p, x)
    <3> DEFINE f == [text |-> {x}, version |-> 1, life |-> file[p].life + 1]
    <3>1. file' = [file EXCEPT ![p] = f]  BY <1>0, <2>3 DEF CreateDirectly
    <3>2. Moves(file[p], f)  BY <1>0 DEF Moves, File
    <3> HIDE DEF f
    <3>3. QED  BY <1>0, <3>1, <3>2, MovesOnce
  <2>4. CASE SaveDirectly(p, x)
    <3> DEFINE f == [[file[p] EXCEPT !.text = {x}] EXCEPT !.version = file[p].version + 1]
    <3>1. file[p].version = [file[p] EXCEPT !.text = {x}].version  BY <1>0 DEF File
    <3>2. file' = [file EXCEPT ![p] = f] /\ file[p].text # NoFile
      BY <1>0, <2>4, <3>1 DEF SaveDirectly
    <3>3. f.text = {x} /\ f.version = file[p].version + 1 /\ f.life = file[p].life
          /\ file[p].version \in Nat
      BY <1>0, <2>2 DEF File
    <3> HIDE DEF f
    <3>4. Moves(file[p], f)  BY <2>2, <3>2, <3>3 DEF Moves
    <3>5. QED  BY <1>0, <3>2, <3>4, MovesOnce
  <2>5. QED  BY <2>1, <2>3, <2>4
<1>3. CASE \E p, q \in Paths : RenameFile(p, q)
  <2>1. PICK p \in Paths, q \in Paths : RenameFile(p, q)  BY <1>3
  <2>2. /\ \A x \in Paths \ {p, q} : file'[x] = file[x]
        /\ file'[q] = [file[p] EXCEPT !.life = file[q].life + 1]
        /\ file'[p] = [text |-> NoFile, version |-> 0, life |-> file[p].life + 1]
    BY <1>0, <2>1, RenamedFiles
  <2>3. file'[q].life > file[q].life /\ file'[p].life > file[p].life  BY <1>0, <2>2 DEF File
  <2>4. QED  BY <2>2, <2>3 DEF Moves
<1>4. CASE \E p \in Paths : DeleteFile(p)
  <2>1. PICK p \in Paths : DeleteFile(p)  BY <1>4
  <2> DEFINE f == [text |-> NoFile, version |-> 0, life |-> file[p].life + 1]
  <2>2. file' = [file EXCEPT ![p] = f]  BY <1>0, <2>1 DEF DeleteFile
  <2>3. Moves(file[p], f)  BY <1>0 DEF Moves, File
  <2> HIDE DEF f
  <2>4. QED  BY <1>0, <2>2, <2>3, MovesOnce
<1>5. ASSUME NEW r \in Requesters, SaveFile(r)  PROVE \A p \in Paths : Moves(file[p], file'[p])
  <2>1. CASE Refuse(r)  BY <1>1, <2>1 DEF Refuse
  <2>2. CASE ~Refuse(r)
    <3>1. PICK p \in Paths : /\ file' = [file EXCEPT ![p] = file'[p]] /\ file[p].text # NoFile
                             /\ file'[p].text # NoFile /\ file'[p].life = file[p].life
                             /\ file'[p].version = file[p].version + 1
      BY <1>5, <2>2, SavedFile
    <3>2. Moves(file[p], file'[p])  BY <1>0, <3>1 DEF Moves, File
    <3>3. QED  BY <1>0, <3>1, <3>2, MovesOnce
  <2>3. QED  BY <2>1, <2>2
<1>6. ASSUME NEW r \in Requesters, NEW t \in {NoFile} \cup {{x} : x \in DirectTexts},
             GitDiscards(r, t)
      PROVE  \A p \in Paths : Moves(file[p], file'[p])
  <2> DEFINE p == req[r].path
             f == [text |-> t, version |-> IF t = NoFile THEN 0 ELSE file[p].version + 1,
                   life |-> IF (t = NoFile) # (file[p].text = NoFile)
                            THEN file[p].life + 1 ELSE file[p].life]
  <2>1. p \in Paths  BY <1>6, AtWork DEF GitDiscards, Busy, Held, Requests
  <2>2. file' = [file EXCEPT ![p] = f]  BY <1>6 DEF GitDiscards
  <2>3. Moves(file[p], f)  BY <1>0, <2>1 DEF Moves, File
  <2> HIDE DEF f, p
  <2>4. QED  BY <1>0, <2>1, <2>2, <2>3, MovesOnce
<1>7. ASSUME NEW r \in Requesters, Proceeds(r)  PROVE \A p \in Paths : Moves(file[p], file'[p])
  <2>1. CASE file' = file  BY <1>1, <2>1
  <2>2. QED
    BY <1>5, <1>6, <1>7, <2>1
    DEF Proceeds, Enter, ReadFile, CreateDocument, NoMoreDocuments, Answer, Vanished, Merge,
        PushUpdate, AfterPush, NextDocument, CompareFile, SetVersion, Reload, Reloaded, Refuse
<1>8. QED
  BY <1>1, <1>2, <1>3, <1>4, <1>7
  DEF Next, Users, vars, SendLive, Persist, Apply, Open, Call, DiscardPaths, Edit,
      TimerFires, MoveDocuments, Crash

\* What a log restores to only grows.
LogsGrow == \A d \in 1..Len(docs) : Restored(log[d]).ops \subseteq Restored(log'[d]).ops

LEMMA OneLogGrows ==
  ASSUME DataOK, NEW d \in 1..Len(docs), NEW m, log' = [log EXCEPT ![d] = m],
         Restored(log[d]).ops \subseteq Restored(m).ops
  PROVE  LogsGrow
<1>1. \A e \in 1..Len(docs) : log'[e] = IF e = d THEN m ELSE log[e]  BY LenDocs DEF DataOK
<1>2. QED  BY <1>1 DEF LogsGrow

LEMMA ReloadedLog ==
  ASSUME Inv, NEW r \in Requesters, Reload(r), req[r].todo # {},
         file[req[r].path].text # NoFile
  PROVE  LET q == req[r]
             d == Min(q.todo)
             m == Restored(log'[d]).ops IN
         /\ d \in q.todo /\ d \in 1..Len(docs)
         /\ Restored(log[d]).ops \subseteq m /\ LogsGrow
         /\ file[q.path].text \subseteq Words(m)
         /\ q \in Requests /\ q.path \in Paths /\ file' = file /\ docs' = docs
         /\ req' = [req EXCEPT ![r] = Replaced(q, d, file[q.path])]
<1> DEFINE q == req[r]
           d == Min(q.todo)
           l == log[d]
           y == Restored(l)
           t == file[q.path].text
           o == Insertion(t, d, NextSequence(l))
           m == Compact(l, y.ops \cup {o}, y.gone \cup y.ops)
<1>1. /\ q \in Requests /\ RequestOK(q, Len(docs), log, written)
      /\ q.path \in Paths /\ q.todo \in SUBSET Nat
  BY AtWork DEF Reload, Busy, Held, Requests
<1>2. d \in q.todo /\ d \in 1..Len(docs) /\ d \in DOMAIN log /\ d \in Nat
  <2>1. d \in q.todo  BY <1>1, Minimal
  <2> HIDE DEF d
  <2>2. QED  BY <1>1, <2>1, LenDocs DEF RequestOK, ShapeOK, Inv
<1>3. /\ log' = [log EXCEPT ![d] = m] /\ UNCHANGED <<file, docs>>
      /\ req' = [req EXCEPT ![r] = Replaced(q, d, file[q.path])]
  <2>1. log \in Seq(Log) /\ file' = file  BY DEF Inv, DataOK, Reload
  <2>2. QED  BY <2>1 DEF Reload, Compacted, Compact, Replaced
<1> HIDE DEF d
<1>4. l \in Log /\ LogOK(l) /\ file[q.path] \in File
  BY <1>1, <1>2 DEF Inv, DataOK, LogsOK
<1>5. y.ops \in SUBSET Ops /\ y.gone \in SUBSET Ops /\ NextSequence(l) \in Nat
  BY <1>4, RestoredParts, NextExceeds
<1>6. o \in Ops /\ o.text = t
  BY <1>2, <1>4, <1>5 DEF Insertion, Ops, File, Texts
<1>7. Restored(m).ops = y.ops \cup {o}
  <2> DEFINE a == y.ops \cup {o}  g == y.gone \cup y.ops
  <2>1. a \in SUBSET Ops /\ g \in SUBSET Ops  BY <1>5, <1>6
  <2> HIDE DEF a, g, y
  <2>2. Restored(Compact(l, a, g)).ops = a  BY <1>4, <2>1, CompactLog
  <2>3. QED  BY <2>2 DEF a, g, y
<1> HIDE DEF m, y
<1>8. log'[d] = m  BY <1>2, <1>3 DEF Inv, DataOK
<1>9. LogsGrow  BY <1>2, <1>3, <1>7, OneLogGrows DEF Inv, y
<1> HIDE DEF o
<1>10. t \subseteq Words(Restored(m).ops)  BY <1>6, <1>7 DEF Words
<1>11. QED  BY <1>1, <1>2, <1>3, <1>7, <1>8, <1>9, <1>10 DEF d, y

LEMMA LogsGrowing == ASSUME Inv, [Next]_vars PROVE LogsGrow
<1>1. CASE log' = log  BY <1>1 DEF LogsGrow
<1>2. ASSUME NEW r \in Requesters, PushUpdate(r)  PROVE LogsGrow
  <2> DEFINE q == req[r]
             m == Pushed(log[q.doc], q.seq, q.update)
  <2>1. /\ q \in Requests /\ RequestOK(q, Len(docs), log, written) /\ q.phase = "push"
    BY <1>2, AtWork DEF PushUpdate, Busy, Held
  <2>2. /\ q.doc \in 1..Len(docs) /\ q.seq \in Nat /\ q.update \in SUBSET Ops
        /\ \A n \in Sequences(log[q.doc]) : n < q.seq
    BY <2>1 DEF RequestOK, ShapeOK, PushOK, Requests
  <2>3. log[q.doc] \in Log /\ LogOK(log[q.doc])  BY <2>2, LenDocs DEF Inv, DataOK, LogsOK
  <2>4. log' = [log EXCEPT ![q.doc] = m]
    BY <1>2, <2>2, LenDocs DEF PushUpdate, Pushed, Inv, DataOK
  <2>5. Restored(log[q.doc]).ops \subseteq Restored(m).ops  BY <2>2, <2>3, PushedLog
  <2> HIDE DEF m
  <2>6. QED  BY <2>2, <2>4, <2>5, OneLogGrows DEF Inv
<1>3. ASSUME NEW r \in Requesters, AfterPush(r), log' # log  PROVE LogsGrow
  <2> DEFINE q == req[r]
             m == Compact(log[q.doc], q.ops, q.gone)
  <2>1. /\ q \in Requests /\ RequestOK(q, Len(docs), log, written) /\ q.phase = "pushed"
    BY <1>3, AtWork DEF AfterPush, Busy, Held, Flushing
  <2>2. /\ q.doc \in 1..Len(docs) /\ q.ops \in SUBSET Ops /\ q.gone \in SUBSET Ops
        /\ q.ops = Restored(log[q.doc]).ops
    BY <2>1 DEF RequestOK, ShapeOK, FlushOK, Requests, Flushing
  <2>3. log[q.doc] \in Log /\ LogOK(log[q.doc])  BY <2>2, LenDocs DEF Inv, DataOK, LogsOK
  <2>4. log' = [log EXCEPT ![q.doc] = m]
    BY <1>3, <2>2, LenDocs DEF AfterPush, Compacted, Compact, Inv, DataOK
  <2>5. Restored(m).ops = q.ops  BY <2>2, <2>3, CompactLog
  <2> HIDE DEF m
  <2>6. QED  BY <2>2, <2>4, <2>5, OneLogGrows DEF Inv
<1>4. ASSUME NEW r \in Requesters, Reload(r), log' # log  PROVE LogsGrow
  <2>1. req[r].todo # {} /\ file[req[r].path].text # NoFile  BY <1>4 DEF Reload
  <2>2. QED  BY <1>4, <2>1, ReloadedLog
<1>5. ASSUME NEW r \in Requesters, CreateDocument(r), log' # log  PROVE LogsGrow
  <2>1. \E x : log' = Append(log, x)  BY <1>5 DEF CreateDocument
  <2>2. \A d \in 1..Len(docs) : log'[d] = log[d]  BY <2>1, LenDocs DEF Inv, DataOK
  <2>3. QED  BY <2>2 DEF LogsGrow
<1>6. ASSUME NEW r \in Requesters, Proceeds(r), log' # log  PROVE LogsGrow
  BY <1>2, <1>3, <1>4, <1>5, <1>6
  DEF Proceeds, Enter, ReadFile, NoMoreDocuments, Answer, Vanished, Merge, NextDocument,
      CompareFile, SaveFile, SetVersion, GitDiscards, Reloaded, Refuse
<1>7. QED
  BY <1>1, <1>6
  DEF Next, Users, vars, SendLive, Persist, Apply, Open, Call, DiscardPaths, Edit,
      SaveDirectly, CreateDirectly, RenameFile, DeleteFile, TimerFires, MoveDocuments, Crash

\* What a document knows it goes on knowing.
Carries == \A d \in 1..Len(docs), v \in Nat : Knows(d, v) => Knows(d, v)'

LEMMA StillBefore ==
  ASSUME Inv, Inv', RouteType, LivesOK, \A p \in Paths : Moves(file[p], file'[p]),
         route' = route, route # NoMove, route.docs # {}, Still'
  PROVE  /\ Still /\ file[route.from].text = NoFile
         /\ file'[route.to].life = file[route.to].life
<1> DEFINE p == route.from
           q == route.to
<1>1. p \in Paths /\ q \in Paths  BY DEF RouteType
<1>2. /\ file[p].life \in Nat /\ file[q].life \in Nat
      /\ file'[p].life \in Nat /\ file'[q].life \in Nat
  BY <1>1 DEF Inv, DataOK, File
<1>3. file[p].life <= file'[p].life /\ file[q].life <= file'[q].life
  <2>1. Moves(file[p], file'[p]) /\ Moves(file[q], file'[q])  BY <1>1
  <2>2. QED  BY <1>2, <2>1 DEF Moves
<1>4. PICK a \in Nat, b \in Nat :
        /\ route.lives = <<a, b>> /\ a <= file[p].life /\ b <= file[q].life
        /\ a = file[p].life => file[p].text = NoFile
  BY DEF LivesOK
<1>5. a = file'[p].life /\ b = file'[q].life  BY <1>4 DEF Still
<1>6. a = file[p].life /\ b = file[q].life  BY <1>2, <1>3, <1>4, <1>5
<1>7. QED  BY <1>4, <1>5, <1>6 DEF Still

LEMMA OrdinaryCarries ==
  ASSUME Inv, Inv', RouteType, LivesOK, \A p \in Paths : Moves(file[p], file'[p]), LogsGrow,
         route' = route \/ route' = NoMove, stray \subseteq stray',
         \A d \in 1..Len(docs) : /\ docs'[d].path = docs[d].path
                                 /\ docs'[d].status = "active" => docs[d].status = "active",
         \A p \in Paths : \/ file'[p].life = file[p].life \/ file[p].text = NoFile
                          \/ Active(p) \subseteq stray'
  PROVE  Carries
<1>1. ASSUME NEW d \in 1..Len(docs), NEW v \in Nat, Knows(d, v),
             NEW p \in Paths, Belongs(d, p)'
      PROVE  Seen(file[p], v, Restored(log[d]).ops)'
  <2>1. docs[d].status = "active" /\ d \in DOMAIN docs  BY <1>1, LenDocs DEF Belongs, Inv
  <2>2. Belongs(d, p) /\ (file'[p].life = file[p].life \/ file[p].text = NoFile)
    <3>1. CASE d \notin stray' /\ docs'[d].path = p
      <4>1. d \notin stray /\ docs[d].path = p  BY <1>1, <3>1
      <4>2. d \in Active(p)  BY <2>1, <4>1 DEF Active
      <4>3. QED  BY <2>1, <3>1, <4>1, <4>2 DEF Belongs
    <3>2. CASE Followed(d)' /\ p = route'.to
      <4>1. route' = route /\ route # NoMove /\ d \in route.docs /\ Still'
        BY <3>2 DEF Followed
      <4>2. Still /\ file'[p].life = file[p].life  BY <3>2, <4>1, StillBefore
      <4>3. QED  BY <2>1, <3>2, <4>1, <4>2 DEF Belongs, Followed
    <3>3. QED  BY <1>1, <3>1, <3>2 DEF Belongs
  <2>3. Seen(file[p], v, Restored(log[d]).ops)  BY <1>1, <2>2 DEF Knows
  <2>4. /\ file[p].text # NoFile /\ v <= file[p].version
        /\ v = file[p].version => file[p].text \subseteq Words(Restored(log[d]).ops)
    BY <2>3 DEF Seen
  <2>5. file[p] \in File /\ file'[p] \in File  BY DEF Inv, DataOK
  <2>6. CASE file'[p] = file[p]
    <3>1. Words(Restored(log[d]).ops) \subseteq Words(Restored(log'[d]).ops)
      BY DEF LogsGrow, Words
    <3>2. QED  BY <2>4, <2>6, <3>1 DEF Seen
  <2>7. CASE file'[p].text # NoFile /\ file'[p].version > file[p].version
    BY <2>4, <2>5, <2>7 DEF Seen, File
  <2>8. QED
    <3>1. file'[p].life = file[p].life /\ file[p].life \in Nat  BY <2>2, <2>4, <2>5 DEF File
    <3>2. Moves(file[p], file'[p])  OBVIOUS
    <3>3. QED  BY <2>4, <2>6, <2>7, <3>1, <3>2 DEF Moves
<1>2. ASSUME NEW d \in 1..Len(docs), NEW v \in Nat, Knows(d, v)  PROVE Knows(d, v)'
  BY <1>1, <1>2 DEF Knows
<1>3. QED  BY <1>2 DEF Carries

\* The documents of a renamed file know what they knew, at the new path.
LEMMA RenameCarries ==
  ASSUME Inv, RouteOK, NEW p \in Paths, NEW q \in Paths, RenameFile(p, q)
  PROVE  Carries
<1>0. file \in [Paths -> File] /\ file[p] \in File  BY DEF Inv, DataOK
<1>1. /\ p # q /\ \A x \in Paths \ {p, q} : file'[x] = file[x]
      /\ file'[q] = [file[p] EXCEPT !.life = file[q].life + 1]
  BY <1>0, RenamedFiles
<1>2. /\ docs' = docs /\ log' = log /\ stray' = stray \cup Active(p) \cup Active(q)
      /\ route'.docs = Active(p) \ stray /\ route'.to = q
  BY DEF RenameFile
<1>3. file'[q].text = file[p].text /\ file'[q].version = file[p].version  BY <1>0, <1>1 DEF File
<1>4. ASSUME NEW d \in 1..Len(docs), NEW v \in Nat, Knows(d, v),
             NEW x \in Paths, Belongs(d, x)'
      PROVE  Seen(file[x], v, Restored(log[d]).ops)'
  <2>1. d \in DOMAIN docs /\ docs[d].status = "active"  BY <1>2, <1>4, LenDocs DEF Belongs, Inv
  <2>2. CASE d \notin stray' /\ docs'[d].path = x
    <3>1. d \notin stray /\ docs[d].path = x /\ x # p /\ x # q
      BY <1>2, <2>1, <2>2 DEF Active
    <3>2. Seen(file[x], v, Restored(log[d]).ops)  BY <1>4, <2>1, <3>1 DEF Knows, Belongs
    <3>3. QED  BY <1>1, <1>2, <3>1, <3>2
  <2>3. CASE Followed(d)' /\ x = route'.to
    <3>1. d \in Active(p) \ stray /\ x = q  BY <1>2, <2>3 DEF Followed
    <3>2. Seen(file[p], v, Restored(log[d]).ops)
      BY <1>4, <2>1, <3>1 DEF Knows, Belongs, Active
    <3>3. QED  BY <1>2, <1>3, <3>1, <3>2 DEF Seen
  <2>4. QED  BY <1>4, <2>2, <2>3 DEF Belongs
<1>5. ASSUME NEW d \in 1..Len(docs), NEW v \in Nat, Knows(d, v)  PROVE Knows(d, v)'
  BY <1>4, <1>5 DEF Knows
<1>6. QED  BY <1>5 DEF Carries

LEMMA DeleteCarries ==
  ASSUME Inv, NEW p \in Paths, DeleteFile(p)
  PROVE  Carries
<1>1. /\ docs' = docs /\ log' = log /\ stray' = stray \cup Active(p)
      /\ route'.docs = {} /\ \A x \in Paths \ {p} : file'[x] = file[x]
  BY DEF DeleteFile, NoMove, Inv, DataOK
<1>2. ASSUME NEW d \in 1..Len(docs), NEW v \in Nat, Knows(d, v),
             NEW x \in Paths, Belongs(d, x)'
      PROVE  Seen(file[x], v, Restored(log[d]).ops)'
  <2>1. d \in DOMAIN docs /\ docs[d].status = "active"  BY <1>1, <1>2, LenDocs DEF Belongs, Inv
  <2>2. d \notin stray' /\ docs'[d].path = x  BY <1>1, <1>2 DEF Belongs, Followed
  <2>3. d \notin stray /\ docs[d].path = x /\ x # p  BY <1>1, <2>1, <2>2 DEF Active
  <2>4. Seen(file[x], v, Restored(log[d]).ops)  BY <1>2, <2>1, <2>3 DEF Knows, Belongs
  <2>5. QED  BY <1>1, <2>3, <2>4
<1>3. ASSUME NEW d \in 1..Len(docs), NEW v \in Nat, Knows(d, v)  PROVE Knows(d, v)'
  BY <1>2, <1>3 DEF Knows
<1>4. QED  BY <1>3 DEF Carries

\* Documents that caught up with their file are no strays any more.
LEMMA MoveCarries ==
  ASSUME Inv, RouteType, RouteOK, MoveDocuments
  PROVE  Carries
<1> DEFINE p == route.from
           q == route.to
<1>1. /\ file' = file /\ log' = log /\ route' = NoMove /\ route # NoMove
      /\ \A d \in stray \cup Active(p) : d \in stray' \/ (Still /\ d \in route.docs)
  <2>1. \/ stray' = stray \cup Active(p)
        \/ Still /\ stray' = (stray \cup Active(p)) \ route.docs
    BY DEF MoveDocuments, Still
  <2>2. QED  BY <2>1 DEF MoveDocuments
<1>2. \A d \in DOMAIN docs : docs'[d] = Moved(d, p, q)
  BY MovedType DEF RouteType, MoveDocuments, Inv, DataOK
<1>3. ASSUME NEW d \in 1..Len(docs), NEW v \in Nat, Knows(d, v),
             NEW x \in Paths, Belongs(d, x)'
      PROVE  Seen(file[x], v, Restored(log[d]).ops)'
  <2>1. d \in DOMAIN docs /\ docs[d] \in Doc  BY LenDocs DEF Inv, DataOK
  <2>2. d \notin stray' /\ docs'[d].path = x /\ docs'[d].status = "active"
    BY <1>1, <1>3 DEF Belongs, Followed
  <2>3. Belongs(d, x)
    <3>1. CASE d \notin stray \cup Active(p)
      <4>1. docs'[d] = docs[d]  BY <1>2, <2>1, <3>1 DEF Moved
      <4>2. QED  BY <2>2, <3>1, <4>1 DEF Belongs
    <3>2. CASE d \in stray \cup Active(p)
      <4>1. Still /\ d \in route.docs  BY <1>1, <2>2, <3>2
      <4>2. docs[d].path = p /\ p # q  BY <1>1, <4>1 DEF RouteOK
      <4>3. docs[d].status = "active"  BY <1>2, <2>1, <2>2, <4>2 DEF Moved, Doc
      <4>4. d \in Active(p)  BY <2>1, <4>2, <4>3 DEF Active
      <4>5. docs'[d].path = q  BY <1>2, <2>1, <4>2, <4>4 DEF Moved, Doc
      <4>6. QED  BY <1>1, <2>2, <4>1, <4>3, <4>5 DEF Belongs, Followed
    <3>3. QED  BY <3>1, <3>2
  <2>4. Seen(file[x], v, Restored(log[d]).ops)  BY <1>3, <2>3 DEF Knows
  <2>5. QED  BY <1>1, <2>4
<1>4. ASSUME NEW d \in 1..Len(docs), NEW v \in Nat, Knows(d, v)  PROVE Knows(d, v)'
  BY <1>3, <1>4 DEF Knows
<1>5. QED  BY <1>4 DEF Carries

LEMMA CarriesNext ==
  ASSUME Inv, Inv', RouteType, RouteOK, LivesOK, [Next]_vars
  PROVE  Carries
<1>0. LogsGrow /\ \A p \in Paths : Moves(file[p], file'[p])  BY LogsGrowing, FilesMove
<1> DEFINE Ways ==
      /\ route' = route \/ route' = NoMove
      /\ stray \subseteq stray'
      /\ \A d \in 1..Len(docs) : /\ docs'[d].path = docs[d].path
                                 /\ docs'[d].status = "active" => docs[d].status = "active"
      /\ \A p \in Paths : \/ file'[p].life = file[p].life \/ file[p].text = NoFile
                          \/ Active(p) \subseteq stray'
<1>1. Ways => Carries  BY <1>0, OrdinaryCarries
<1>2. CASE \E p, q \in Paths : RenameFile(p, q)  BY <1>2, RenameCarries
<1>3. CASE \E p \in Paths : DeleteFile(p)  BY <1>3, DeleteCarries
<1>4. CASE MoveDocuments  BY <1>4, MoveCarries
<1>5. CASE UNCHANGED <<file, docs, stray>> /\ (route' = route \/ route' = NoMove)
  BY <1>1, <1>5
<1>6. CASE \E p \in Paths, x \in DirectTexts : SaveDirectly(p, x) \/ CreateDirectly(p, x)
  <2>1. PICK p \in Paths, x \in DirectTexts : SaveDirectly(p, x) \/ CreateDirectly(p, x)
    BY <1>6
  <2>2. UNCHANGED <<docs, stray, route>>  BY <2>1 DEF SaveDirectly, CreateDirectly
  <2>3. file \in [Paths -> File]  BY DEF Inv, DataOK
  <2>4. ASSUME NEW y \in Paths  PROVE file'[y].life = file[y].life \/ file[y].text = NoFile
    <3>1. CASE y # p  BY <2>1, <2>3, <3>1 DEF SaveDirectly, CreateDirectly
    <3>2. CASE y = p /\ CreateDirectly(p, x)  BY <3>2 DEF CreateDirectly
    <3>3. CASE y = p /\ SaveDirectly(p, x)
      BY <2>3, <3>3 DEF SaveDirectly, File
    <3>4. QED  BY <2>1, <3>1, <3>2, <3>3
  <2>5. QED  BY <1>1, <2>2, <2>4
<1>7. ASSUME NEW r \in Requesters, Proceeds(r)  PROVE Carries
  <2>1. CASE SaveFile(r) /\ ~Refuse(r)
    <3>1. PICK p \in Paths : file' = [file EXCEPT ![p] = file'[p]] /\ file'[p].life = file[p].life
      BY <2>1, SavedFile
    <3>2. \A x \in Paths : file'[x].life = file[x].life  BY <3>1 DEF Inv, DataOK
    <3>3. UNCHANGED <<docs, stray, route>>  BY <2>1 DEF SaveFile
    <3>4. QED  BY <1>1, <3>2, <3>3
  <2>2. CASE CreateDocument(r)
    <3>1. docs' = docs \/ \E x : docs' = Append(docs, x)  BY <2>2 DEF CreateDocument
    <3>2. \A d \in 1..Len(docs) : docs'[d] = docs[d]  BY <3>1 DEF Inv, DataOK
    <3>3. file' = file /\ stray \subseteq stray' /\ route' = route  BY <2>2 DEF CreateDocument
    <3>4. QED  BY <1>1, <3>2, <3>3
  <2>3. CASE SetVersion(r) \/ Reloaded(r)
    <3>1. \E d, v : docs' = [docs EXCEPT ![d].version = v]  BY <2>3 DEF SetVersion, Reloaded
    <3>2. SameDocs  BY <3>1, VersionSame DEF Inv
    <3>3. UNCHANGED <<file, stray, route>>  BY <2>3 DEF SetVersion, Reloaded
    <3>4. QED  BY <1>1, <3>2, <3>3 DEF SameDocs
  <2>4. CASE Reload(r)
    <3>1. \A d \in 1..Len(docs) : /\ docs'[d].path = docs[d].path
                                  /\ docs'[d].status = "active" => docs[d].status = "active"
      <4>1. docs' = docs \/ \E e : docs' = [docs EXCEPT ![e].status = "archived"]
        BY <2>4 DEF Reload
      <4>2. docs \in Seq(Doc) /\ DOMAIN docs = 1..Len(docs)  BY DEF Inv, DataOK
      <4>3. ASSUME NEW e, docs' = [docs EXCEPT ![e].status = "archived"], NEW d \in 1..Len(docs)
            PROVE  /\ docs'[d].path = docs[d].path
                   /\ docs'[d].status = "active" => docs[d].status = "active"
        BY <4>2, <4>3 DEF Doc
      <4>4. QED  BY <4>1, <4>3
    <3>2. UNCHANGED <<file, stray, route>>  BY <2>4 DEF Reload
    <3>3. QED  BY <1>1, <3>1, <3>2
  <2>5. ASSUME NEW t \in {NoFile} \cup {{x} : x \in DirectTexts}, GitDiscards(r, t)
        PROVE  Carries
    <3>1. req[r].path \in Paths /\ file \in [Paths -> File]
      BY <2>5, AtWork DEF GitDiscards, Busy, Held, Requests, Inv, DataOK
    <3>2. ASSUME NEW p \in Paths
          PROVE  \/ file'[p].life = file[p].life \/ file[p].text = NoFile
                 \/ Active(p) \subseteq stray'
      <4>1. CASE p # req[r].path  BY <2>5, <3>1, <4>1 DEF GitDiscards
      <4>2. CASE p = req[r].path /\ t = NoFile  BY <2>5, <4>2 DEF GitDiscards
      <4>3. CASE p = req[r].path /\ t # NoFile  BY <2>5, <3>1, <4>3 DEF GitDiscards
      <4>4. QED  BY <4>1, <4>2, <4>3
    <3>3. docs' = docs /\ stray \subseteq stray' /\ route' = route  BY <2>5 DEF GitDiscards
    <3>4. QED  BY <1>1, <3>2, <3>3
  <2>6. CASE UNCHANGED <<file, docs, stray, route>>  BY <1>5, <2>6
  <2>7. QED
    BY <1>7, <2>1, <2>2, <2>3, <2>4, <2>5, <2>6
    DEF Proceeds, Enter, ReadFile, NoMoreDocuments, Answer, Vanished, Merge, PushUpdate,
        AfterPush, NextDocument, CompareFile, SaveFile, Refuse
<1>8. QED
  BY <1>2, <1>3, <1>4, <1>5, <1>6, <1>7
  DEF Next, Users, vars, SendLive, Persist, Apply, Open, Call, DiscardPaths, Edit,
      TimerFires, Crash

\* Where the phases that hold a read or a written file come from.
Hold == {"create", "version", "reloaded"}
LEMMA NewPhases ==
  ASSUME Inv, [Next]_vars, NEW s \in Requesters
  PROVE  \/ req'[s] = req[s] \/ req'[s].phase \notin Hold
         \/ SaveFile(s) /\ ~Refuse(s)
         \/ Reload(s) /\ req[s].todo # {} /\ file[req[s].path].text # NoFile
         \/ ReadFile(s) /\ req[s] \in Requests /\ req'[s] = Creating(req[s], file[req[s].path])
<1>0. req \in [Requesters -> Requests \cup {Idle}]  BY DEF Inv, ReqOK
<1>1. ASSUME NEW r \in Requesters, NEW w, req' = [req EXCEPT ![r] = w], w.phase \notin Hold
      PROVE  req'[s] = req[s] \/ req'[s].phase \notin Hold
  BY <1>0, <1>1
<1>2. Idle.phase \notin Hold /\ \A w : Fresher(w) => w.phase \notin Hold
  BY DEF Idle, Hold, Fresher
<1>3. CASE \E c \in Clients : \/ \E p \in Paths : Open(c, p) \/ DiscardPaths(c, p)
                              \/ SendLive(c) \/ Persist(c) \/ Apply(c)
  BY <1>1, <1>2, <1>3, CallersFresh
<1>4. CASE TimerFires
  <2>1. Flusher \in Requesters /\ \E w : Fresher(w) /\ req' = [req EXCEPT ![Flusher] = w]
    BY <1>4, RequestFresher DEF TimerFires, Requesters
  <2>2. QED  BY <1>1, <1>2, <2>1
<1>5. CASE Crash  BY <1>2, <1>5 DEF Crash
<1>6. CASE req' = req  BY <1>6
<1>7. ASSUME NEW r \in Requesters, Leaves(r)
      PROVE  req'[s] = req[s] \/ req'[s].phase \notin Hold
  BY <1>1, <1>2, <1>7 DEF Leaves
<1>8. ASSUME NEW r \in Requesters, NEW f \in ({"enter"} \cup Held) \ Hold, req[r] \in Requests,
             req' = [req EXCEPT ![r] = At(req[r], f)]
      PROVE  req'[s] = req[s] \/ req'[s].phase \notin Hold
  BY <1>1, <1>8, AtFields
<1>9. ASSUME NEW r \in Requesters, Proceeds(r)
      PROVE  \/ req'[s] = req[s] \/ req'[s].phase \notin Hold
             \/ SaveFile(s) /\ ~Refuse(s)
             \/ Reload(s) /\ req[s].todo # {} /\ file[req[s].path].text # NoFile
             \/ ReadFile(s) /\ req[s] \in Requests
                  /\ req'[s] = Creating(req[s], file[req[s].path])
  <2> DEFINE q == req[r]
  <2>1. q \in Requests
    <3>1. q.phase \in {"enter"} \cup Held
      BY <1>9
      DEF Proceeds, Enter, ReadFile, CreateDocument, NoMoreDocuments, Answer, Vanished, Merge,
          PushUpdate, AfterPush, NextDocument, CompareFile, SaveFile, SetVersion, GitDiscards,
          Reload, Reloaded, Held, Flushing
    <3>2. QED  BY <3>1, AtWork DEF Busy
  <2>2. CASE r # s  BY <1>0, <1>9, <2>2
        DEF Proceeds, Enter, ReadFile, CreateDocument, NoMoreDocuments, Answer, Vanished, Merge,
          PushUpdate, AfterPush, NextDocument, CompareFile, SaveFile, SetVersion, GitDiscards,
          Reload, Reloaded, Flushed, Refuse, Leaves
  <2>3. CASE r = s /\ ReadFile(r)
    <3>1. CASE req' = [req EXCEPT ![r] = At(q, "found")]
      BY <1>8, <2>1, <3>1 DEF Held, Hold
    <3>2. CASE req' = [req EXCEPT ![r] = Creating(q, file[q.path])]
      BY <1>0, <2>1, <2>3, <3>2
    <3>3. CASE Leaves(r)  BY <1>7, <3>3
    <3>4. QED  BY <2>3, <3>1, <3>2, <3>3 DEF ReadFile, At, Creating, Refuse
  <2>4. CASE SaveFile(r)
    BY <1>7, <2>2, <2>4 DEF Refuse
  <2>5. CASE Reload(r)
    <3>1. CASE req' = [req EXCEPT ![r] = Dropped(q, Min(q.todo))]
      <4>1. q.phase \notin Hold  BY <2>5 DEF Reload, Hold
      <4>2. QED  BY <1>1, <2>1, <3>1, <4>1, DroppedFields
    <3>2. QED  BY <1>7, <2>2, <2>5, <3>1 DEF Reload, Dropped
  <2>6. CASE \E f \in ({"enter"} \cup Held) \ Hold : req' = [req EXCEPT ![r] = At(q, f)]
    BY <1>8, <2>1, <2>6
  <2>7. CASE Enter(r)
    <3>1. CASE \E S : req' = [req EXCEPT ![r] = Listed(q, S)]
      <4>1. PICK S : req' = [req EXCEPT ![r] = Listed(q, S)]  BY <3>1
      <4>2. Listed(q, S).phase = "next"  BY <2>1 DEF Listed, Requests
      <4>3. QED  BY <1>1, <4>1, <4>2 DEF Hold
    <3>2. QED  BY <2>6, <2>7, <3>1 DEF Enter, Listed, At, Held, Hold
  <2>8. CASE Merge(r)
    <3>1. CASE \E d, n, o, g : req' = [req EXCEPT ![r] = Merged(q, d, n, o, g)]
      <4>1. PICK d, n, o, g : req' = [req EXCEPT ![r] = Merged(q, d, n, o, g)]  BY <3>1
      <4>2. Merged(q, d, n, o, g).phase = "push"  BY <2>1 DEF Merged, Requests
      <4>3. QED  BY <1>1, <4>1, <4>2 DEF Hold
    <3>2. \/ Leaves(r)
          \/ req' = [req EXCEPT ![r] =
               Merged(q, Found(q.path), NextSequence(log[Found(q.path)]),
                      Restored(log[Found(q.path)]).ops \cup q.update,
                      Restored(log[Found(q.path)]).gone)]
      BY <2>8 DEF Merge, Merged, Refuse
    <3>3. QED  BY <1>7, <3>1, <3>2
  <2>9. CASE NextDocument(r)
    <3>1. CASE \E d, p, o, g : req' = [req EXCEPT ![r] = Visiting(q, d, p, o, g)]
      <4>1. PICK d, p, o, g : req' = [req EXCEPT ![r] = Visiting(q, d, p, o, g)]  BY <3>1
      <4>2. Visiting(q, d, p, o, g).phase = "compare"  BY <2>1 DEF Visiting, Requests
      <4>3. QED  BY <1>1, <4>1, <4>2 DEF Hold
    <3>2. \/ Leaves(r) \/ req' = [req EXCEPT ![r] = At(q, "git")]
          \/ req' = [req EXCEPT ![r] =
               Visiting(q, Min(q.todo), docs[Min(q.todo)].path, Restored(log[Min(q.todo)]).ops,
                        Restored(log[Min(q.todo)]).gone)]
      BY <2>9 DEF NextDocument, Visiting, At
    <3>3. QED  BY <1>7, <2>6, <3>1, <3>2 DEF Held, Hold
  <2>10. CASE \E t \in {NoFile} \cup {{x} : x \in DirectTexts} : GitDiscards(r, t)
    <3>1. req' = [req EXCEPT ![r] = Restarted(q)]  BY <2>10 DEF GitDiscards, Restarted
    <3>2. QED  BY <1>1, <2>1, <3>1, RestartedFields DEF Hold
  <2>11. CASE Reloaded(r)
    <3>1. req' = [req EXCEPT ![r] = Replayed(q)]  BY <2>11 DEF Reloaded, Replayed
    <3>2. QED  BY <1>1, <2>1, <3>1, ReplayedFields DEF Hold
  <2>12. CASE \/ CreateDocument(r) \/ NoMoreDocuments(r) \/ Answer(r) \/ Vanished(r)
              \/ PushUpdate(r) \/ AfterPush(r) \/ CompareFile(r) \/ SetVersion(r)
    <3>1. \/ Leaves(r)
          \/ \E f \in {"found", "pushed", "compare", "next", "save"} :
               req' = [req EXCEPT ![r] = At(q, f)]
      BY <2>12
      DEF CreateDocument, NoMoreDocuments, Answer, Vanished, PushUpdate, AfterPush,
          CompareFile, SetVersion, Flushed, Refuse, At
    <3>2. QED  BY <1>7, <2>6, <3>1 DEF Held, Flushing, Hold
  <2>13. QED
    BY <1>9, <2>2, <2>3, <2>4, <2>5, <2>7, <2>8, <2>9, <2>10, <2>11, <2>12 DEF Proceeds
<1>10. QED
  BY <1>3, <1>4, <1>5, <1>6, <1>9
  DEF Next, Users, vars, Edit, SaveDirectly, CreateDirectly, RenameFile, DeleteFile,
      MoveDocuments

LEMMA LivesNext ==
  ASSUME Inv, Inv', RouteType, LivesOK, [Next]_vars
  PROVE  LivesOK'
<1>1. CASE route' = route
  <2>1. ASSUME route # NoMove, route.docs # {}  PROVE LivesOK'
    <3> DEFINE p == route.from
               q == route.to
    <3>1. p \in Paths /\ q \in Paths  BY <2>1 DEF RouteType
    <3>2. /\ file[p].life \in Nat /\ file[q].life \in Nat
          /\ file'[p].life \in Nat /\ file'[q].life \in Nat
      BY <3>1 DEF Inv, DataOK, File
    <3>3. Moves(file[p], file'[p]) /\ Moves(file[q], file'[q])  BY <3>1, FilesMove
    <3>4. file[p].life <= file'[p].life /\ file[q].life <= file'[q].life
      BY <3>2, <3>3 DEF Moves
    <3>5. PICK a \in Nat, b \in Nat :
            /\ route.lives = <<a, b>> /\ a <= file[p].life /\ b <= file[q].life
            /\ a = file[p].life => file[p].text = NoFile
      BY <2>1 DEF LivesOK
    <3>6. a <= file'[p].life /\ b <= file'[q].life  BY <3>2, <3>4, <3>5
    <3>7. a = file'[p].life => file'[p].text = NoFile
      BY <3>2, <3>3, <3>4, <3>5 DEF Moves
    <3>8. QED  BY <1>1, <3>5, <3>6, <3>7 DEF LivesOK
  <2>2. QED  BY <1>1, <2>1 DEF LivesOK
<1>2. CASE route' = NoMove  BY <1>2 DEF LivesOK
<1>3. ASSUME NEW p \in Paths, NEW q \in Paths, RenameFile(p, q)  PROVE LivesOK'
  <2>1. file \in [Paths -> File] /\ file[p] \in File /\ file[q] \in File  BY DEF Inv, DataOK
  <2>2. file'[p] = [text |-> NoFile, version |-> 0, life |-> file[p].life + 1]
    BY <1>3, <2>1, RenamedFiles
  <2>3. route'.lives = <<file'[p].life, file'[q].life>> /\ route'.from = p /\ route'.to = q
    BY <1>3 DEF RenameFile
  <2>4. file'[p].life \in Nat /\ file'[q].life \in Nat /\ file'[p].text = NoFile
    BY <2>2 DEF Inv, DataOK, File
  <2>5. \E a, b \in Nat :
          /\ route'.lives = <<a, b>> /\ a <= file'[p].life /\ b <= file'[q].life
          /\ a = file'[p].life => file'[p].text = NoFile
    BY <2>3, <2>4
  <2>6. QED  BY <2>3, <2>5 DEF LivesOK
<1>4. ASSUME NEW p \in Paths, DeleteFile(p)  PROVE LivesOK'
  BY <1>4 DEF DeleteFile, NoMove, LivesOK
<1>5. ASSUME NEW r \in Requesters, Proceeds(r)  PROVE route' = route
  BY <1>5
  DEF Proceeds, Enter, ReadFile, CreateDocument, NoMoreDocuments, Answer, Vanished, Merge,
      PushUpdate, AfterPush, NextDocument, CompareFile, SaveFile, SetVersion, GitDiscards,
      Reload, Reloaded, Refuse
<1>6. QED
  BY <1>1, <1>2, <1>3, <1>4, <1>5
  DEF Next, Users, vars, SendLive, Persist, Apply, Open, Call, DiscardPaths, Edit,
      SaveDirectly, CreateDirectly, TimerFires, MoveDocuments, Crash

LEMMA ReadNext ==
  ASSUME Inv, Inv', ReadOK, [Next]_vars
  PROVE  ReadOK'
<1>1. ASSUME NEW s \in Requesters, req'[s].phase = "create"
      PROVE  Old(req'[s].file, file'[req'[s].path])
  <2> DEFINE q == req'[s]
             p == q.path
  <2>1. q \in Requests /\ q.file \in File /\ q.file.text # NoFile /\ p \in Paths
    <3>1. q \in Requests \cup {Idle} /\ q # Idle /\ RequestOK(q, Len(docs'), log', written')
      BY <1>1 DEF Inv, ReqOK, RequestsOK, Idle
    <3>2. QED  BY <1>1, <3>1 DEF RequestOK, ShapeOK, Requests
  <2>2. file[p] \in File /\ file'[p] \in File /\ Moves(file[p], file'[p])
    BY <2>1, FilesMove DEF Inv, DataOK
  <2>3. CASE req'[s] = req[s]
    <3>1. Old(q.file, file[p])  BY <1>1, <2>3 DEF ReadOK
    <3> DEFINE g == q.file    f == file[p]    h == file'[p]
    <3>2. g \in File /\ f \in File /\ h \in File  BY <2>1, <2>2
    <3> HIDE DEF g, f, h
    <3>3. Old(g, f) /\ Moves(f, h)  BY <2>2, <3>1 DEF g, f, h
    <3>4. Old(g, h)  BY <3>2, <3>3 DEF Old, Moves, File
    <3>5. QED  BY <3>4 DEF g, h
  <2>4. CASE /\ ReadFile(s) /\ req[s] \in Requests
             /\ req'[s] = Creating(req[s], file[req[s].path])
    <3>1. q.file = file[req[s].path] /\ p = req[s].path
      BY <2>4 DEF Creating, Requests
    <3>2. file' = file  BY <2>4 DEF ReadFile, Refuse
    <3>3. q.file = file'[p]  BY <3>1, <3>2
    <3>4. QED  BY <2>1, <3>3 DEF Old, File
  <2>5. CASE SaveFile(s) /\ ~Refuse(s)
    <3>1. req[s] \in Requests /\ req[s].path \in Paths /\ file'[req[s].path] \in File
          /\ req' = [req EXCEPT ![s] = Written(req[s], file'[req[s].path])]
      BY <2>5, SavedFile
    <3>2. Written(req[s], file'[req[s].path]).phase = "version"  BY <3>1, WrittenFields
    <3>3. QED  BY <1>1, <3>1, <3>2 DEF Inv, ReqOK
  <2>6. CASE Reload(s) /\ req[s].todo # {} /\ file[req[s].path].text # NoFile
    <3>1. /\ req[s] \in Requests
          /\ req' = [req EXCEPT ![s] = Replaced(req[s], Min(req[s].todo), file[req[s].path])]
      BY <2>6, ReloadedLog
    <3>2. Replaced(req[s], Min(req[s].todo), file[req[s].path]).phase = "reloaded"
      BY <3>1 DEF Replaced, Requests
    <3>3. QED  BY <1>1, <3>1, <3>2 DEF Inv, ReqOK
  <2>7. QED  BY <1>1, <2>3, <2>4, <2>5, <2>6, NewPhases DEF Hold
<1>2. QED  BY <1>1 DEF ReadOK

\* A document whose operations hold the text of its file knows this version.
LEMMA KnowsNow ==
  ASSUME Inv', RouteOK', LivesOK', NEW d, NEW p \in Paths, NEW v, docs'[d].path = p,
         file'[p].text # NoFile, v = file'[p].version,
         file'[p].text \subseteq Words(Restored(log'[d]).ops)
  PROVE  Knows(d, v)'
<1>1. ASSUME NEW x \in Paths, Belongs(d, x)'  PROVE x = p
  <2>1. CASE d \notin stray' /\ docs'[d].path = x  BY <2>1
  <2>2. CASE Followed(d)'
    <3>1. route' # NoMove /\ d \in route'.docs /\ Still'  BY <2>2 DEF Followed
    <3>2. docs'[d].path = route'.from  BY <3>1 DEF RouteOK
    <3>3. file'[route'.from].text = NoFile
      <4>1. PICK a \in Nat, b \in Nat :
              /\ route'.lives = <<a, b>>
              /\ a = file'[route'.from].life => file'[route'.from].text = NoFile
        BY <3>1 DEF LivesOK
      <4>2. a = file'[route'.from].life  BY <3>1, <4>1 DEF Still
      <4>3. QED  BY <4>1, <4>2
    <3>4. QED  BY <3>2, <3>3
  <2>3. QED  BY <1>1, <2>1, <2>2 DEF Belongs
<1>2. v \in Nat  BY DEF Inv, DataOK, File
<1>3. Seen(file[p], v, Restored(log[d]).ops)'  BY <1>2 DEF Seen
<1>4. QED  BY <1>1, <1>3 DEF Knows

Knowing == PlacedOK /\ LivesOK /\ ReadOK /\ DocsKnow /\ RequestsKnow

\* A new document knows the version that was read for it, unless its file was
\* replaced meanwhile.
LEMMA CreatedKnows ==
  ASSUME Inv, RouteOK, ReadOK, NEW r \in Requesters, CreateDocument(r), docs' # docs,
         NEW d \in Nat, d = Len(docs) + 1
  PROVE  /\ Len(docs') = d /\ \A e \in 1..Len(docs) : docs'[e] = docs[e]
         /\ Knows(d, docs[d].version)'
<1> DEFINE q == req[r]
           g == q.file
           f == file[q.path]
           m == Fresh(g.text, d)
<1>1. /\ q \in Requests /\ q.phase = "create" /\ q.path \in Paths
      /\ g \in File /\ g.text # NoFile /\ g.text \in Texts
  <2>1. q \in Requests /\ q.phase = "create" /\ RequestOK(q, Len(docs), log, written)
    BY AtWork DEF CreateDocument, Busy, Held
  <2>2. QED  BY <2>1 DEF RequestOK, ShapeOK, Requests, File
<1>2. /\ docs' = Append(docs, [path |-> q.path, status |-> "active", version |-> g.version])
      /\ log' = Append(log, m) /\ file' = file /\ route' = route
      /\ q.path = route.to \/ f.life # g.life => d \in stray'
  BY DEF CreateDocument, Fresh
<1>3. Old(g, f) /\ f \in File  BY <1>1 DEF ReadOK, Inv, DataOK
<1>4. docs \in Seq(Doc) /\ log \in Seq(Log) /\ Len(log) = Len(docs) /\ d \in Nat
      /\ Len(docs) \in Nat
  BY DEF Inv, DataOK
<1>5. /\ Len(docs') = d /\ \A e \in 1..Len(docs) : docs'[e] = docs[e]
      /\ docs'[d] = [path |-> q.path, status |-> "active", version |-> g.version]
  BY <1>2, <1>4
<1>6. log'[d] = m
  <2> HIDE DEF m
  <2> QED  BY <1>2, <1>4
<1>7. g.text \subseteq Words(Restored(log'[d]).ops)
  <2> DEFINE o == Insertion(g.text, d, 0)
             e == [seq |-> 0, gone |-> {}, ops |-> {o}]
  <2>1. m \in Log /\ LogOK(m)  BY <1>1, <1>4, FreshLog
  <2>2. m.snapshots = {e} /\ e.ops = {o} /\ o.text = g.text  BY DEF Fresh, Insertion
  <2> HIDE DEF m, e, o
  <2>3. Latest(m) = e  BY <2>1, <2>2, LatestSnapshot
  <2>4. o \in Restored(m).ops  BY <2>1, <2>2, <2>3, RestoredParts
  <2>5. QED  BY <1>6, <2>2, <2>4 DEF Words
<1>8. ASSUME NEW x \in Paths, Belongs(d, x)'
      PROVE  Seen(file[x], docs[d].version, Restored(log[d]).ops)'
  <2>1. ~Followed(d)'
    <3>1. route.docs \subseteq DOMAIN docs \/ route = NoMove  BY DEF RouteOK
    <3>2. d \notin DOMAIN docs  BY <1>4
    <3>3. QED  BY <1>2, <3>1, <3>2 DEF Followed
  <2>2. d \notin stray' /\ x = q.path  BY <1>5, <1>8, <2>1 DEF Belongs
  <2>3. f.life = g.life  BY <1>2, <2>2
  <2>4. /\ f.text # NoFile /\ g.version <= f.version
        /\ g.version = f.version => g.text = f.text
    BY <1>3, <2>3 DEF Old
  <2>5. file'[x] = f /\ docs'[d].version = g.version  BY <1>2, <1>5, <2>2
  <2>6. QED  BY <1>7, <2>4, <2>5 DEF Seen
<1>9. Knows(d, docs[d].version)'  BY <1>8 DEF Knows
<1>10. QED  BY <1>5, <1>9

LEMMA DocsKnowNext ==
  ASSUME Inv, Inv', RouteType, RouteOK, Knowing, [Next]_vars
  PROVE  DocsKnow'
<1>0. Carries  BY CarriesNext DEF Knowing
<1>1. docs \in Seq(Doc) /\ DOMAIN docs = 1..Len(docs) /\ DOMAIN docs' = 1..Len(docs')
      /\ Len(docs) \in Nat
  BY DEF Inv, DataOK
<1>2. ASSUME Len(docs') = Len(docs), NEW d \in DOMAIN docs',
             docs'[d].version = docs[d].version
      PROVE  Knows(d, docs[d].version)'
  <2>0. d \in DOMAIN docs /\ d \in 1..Len(docs) /\ docs[d] \in Doc  BY <1>1, <1>2
  <2>1. docs[d].version \in Nat  BY <2>0 DEF Doc
  <2>2. PICK v \in Nat : v = docs[d].version  BY <2>1
  <2>3. Knows(d, v)  BY <2>0, <2>2 DEF Knowing, DocsKnow
  <2>4. Knows(d, v)'  BY <1>0, <2>0, <2>3 DEF Carries
  <2>5. docs'[d].version = v  BY <1>2, <2>2
  <2>6. QED  BY <2>4, <2>5 DEF Knows
<1>3. CASE /\ Len(docs') = Len(docs)
           /\ \A d \in DOMAIN docs' : docs'[d].version = docs[d].version
  BY <1>2, <1>3 DEF DocsKnow
<1>4. CASE MoveDocuments
  <2>1. /\ Len(docs') = Len(docs)
        /\ \A d \in DOMAIN docs : docs'[d] = Moved(d, route.from, route.to)
    BY <1>4, MovedType DEF RouteType, MoveDocuments, Inv, DataOK
  <2>2. \A d \in DOMAIN docs : docs'[d].version = docs[d].version
    <3>1. \A d \in DOMAIN docs : docs[d] \in Doc  BY <1>1
    <3>2. QED  BY <2>1, <3>1 DEF Moved, Doc
  <2>3. QED  BY <1>1, <1>3, <2>1, <2>2
<1>5. ASSUME NEW r \in Requesters, CreateDocument(r), docs' # docs
      PROVE  DocsKnow'
  <2>0. PICK n \in Nat : n = Len(docs) + 1  BY <1>1
  <2>1. /\ Len(docs') = n /\ \A e \in 1..Len(docs) : docs'[e] = docs[e]
        /\ Knows(n, docs[n].version)'
    BY <1>5, <2>0, CreatedKnows DEF Knowing
  <2>2. ASSUME NEW d \in 1..Len(docs)  PROVE Knows(d, docs[d].version)'
    <3>0. docs[d] \in Doc  BY <1>1, <2>2
    <3>1. docs[d].version \in Nat  BY <3>0 DEF Doc
    <3>2. PICK v \in Nat : v = docs[d].version  BY <3>1
    <3>3. docs'[d].version = v /\ Knows(d, v)
      BY <1>1, <2>1, <2>2, <3>2 DEF Knowing, DocsKnow
    <3>4. Knows(d, v)'  BY <1>0, <2>2, <3>3 DEF Carries
    <3>5. QED  BY <3>3, <3>4 DEF Knows
  <2>3. ASSUME NEW d \in DOMAIN docs'  PROVE Knows(d, docs[d].version)'
    <3>1. d \in 1..Len(docs) \/ d = n  BY <1>1, <2>0, <2>1, <2>3
    <3>2. QED  BY <2>1, <2>2, <3>1
  <2>4. QED  BY <2>3 DEF DocsKnow
<1>6. ASSUME NEW r \in Requesters, SetVersion(r) \/ Reloaded(r)
      PROVE  DocsKnow'
  <2> DEFINE q == req[r]
  <2>1. q \in Requests /\ q.doc \in 1..Len(docs) /\ q.file.version \in Nat /\ q.phase \in {"version", "reloaded"}
    <3>1. q \in Requests /\ RequestOK(q, Len(docs), log, written)
          /\ q.phase \in {"version", "reloaded"}
      BY <1>6, AtWork DEF SetVersion, Reloaded, Busy, Held, Flushing
    <3>2. QED  BY <3>1 DEF RequestOK, ShapeOK, Flushing, File
  <2>2. PICK e \in 1..Len(docs), v \in Nat : e = q.doc /\ v = q.file.version  BY <2>1
  <2>3. docs' = [docs EXCEPT ![e].version = v]  BY <1>6, <2>2 DEF SetVersion, Reloaded
  <2>4. Knows(e, v)'
    <3>1. Knows(e, v)  BY <2>1, <2>2 DEF Knowing, RequestsKnow
    <3>2. QED  BY <1>0, <3>1 DEF Carries
  <2>5. Len(docs') = Len(docs)  BY <1>1, <2>3
  <2>6. ASSUME NEW d \in DOMAIN docs'  PROVE Knows(d, docs[d].version)'
    <3>1. CASE d # e
      <4>1. docs'[d] = docs[d]  BY <1>1, <2>3, <2>5, <3>1
      <4>2. QED  BY <1>2, <2>5, <4>1
    <3>2. CASE d = e
      <4>1. docs'[d].version = v  BY <1>1, <2>3, <3>2 DEF Doc
      <4>2. QED  BY <2>4, <3>2, <4>1 DEF Knows
    <3>3. QED  BY <3>1, <3>2
  <2>7. QED  BY <2>6 DEF DocsKnow
<1>7. ASSUME NEW r \in Requesters, Reload(r)  PROVE DocsKnow'
  <2>1. docs' = docs \/ docs' = [docs EXCEPT ![Min(req[r].todo)].status = "archived"]
    BY <1>7 DEF Reload
  <2>2. Len(docs') = Len(docs)
    <3>1. \A e, x : Len([docs EXCEPT ![e] = x]) = Len(docs)  BY <1>1
    <3>2. QED  BY <2>1, <3>1
  <2>3. ASSUME NEW d \in DOMAIN docs'  PROVE docs'[d].version = docs[d].version
    <3>1. docs[d] \in Doc /\ d \in DOMAIN docs  BY <1>1, <2>2
    <3>2. CASE docs' = docs  BY <3>2
    <3>3. CASE docs' = [docs EXCEPT ![Min(req[r].todo)].status = "archived"]
      <4>1. docs'[d] = docs[d] \/ docs'[d] = [docs[d] EXCEPT !.status = "archived"]
        BY <1>1, <3>1, <3>3
      <4>2. QED  BY <3>1, <4>1 DEF Doc
    <3>4. QED  BY <2>1, <3>2, <3>3
  <2>4. QED  BY <1>3, <2>2, <2>3
<1>8. CASE docs' = docs  BY <1>3, <1>8
<1>9. ASSUME NEW r \in Requesters, Proceeds(r)  PROVE DocsKnow'
  BY <1>5, <1>6, <1>7, <1>8, <1>9
  DEF Proceeds, Enter, ReadFile, NoMoreDocuments, Answer, Vanished, Merge, PushUpdate,
      AfterPush, NextDocument, CompareFile, SaveFile, GitDiscards, Refuse
<1>10. QED
  BY <1>4, <1>8, <1>9
  DEF Next, Users, vars, SendLive, Persist, Apply, Open, Call, DiscardPaths, Edit,
      SaveDirectly, CreateDirectly, RenameFile, DeleteFile, TimerFires, Crash

LEMMA RequestsKnowNext ==
  ASSUME Inv, Inv', RouteType, RouteOK, RouteOK', LivesOK', Knowing, [Next]_vars
  PROVE  RequestsKnow'
<1>0. Carries  BY CarriesNext DEF Knowing
<1>1. ASSUME NEW s \in Requesters, req'[s].phase \in {"version", "reloaded"}
      PROVE  Knows(req[s].doc, req[s].file.version)'
  <2> DEFINE w == req'[s]
             q == req[s]
  <2>1. CASE w = q
    <3>1. q \in Requests /\ RequestOK(q, Len(docs), log, written)
      BY <1>1, <2>1, AtWork DEF Busy, Held, Flushing
    <3>2. q.doc \in 1..Len(docs) /\ q.file.version \in Nat
      BY <1>1, <2>1, <3>1 DEF RequestOK, ShapeOK, Flushing, File
    <3>3. PICK d \in 1..Len(docs), v \in Nat : d = q.doc /\ v = q.file.version  BY <3>2
    <3>4. Knows(d, v)  BY <1>1, <2>1, <3>3 DEF Knowing, RequestsKnow
    <3>5. Knows(d, v)'  BY <1>0, <3>4 DEF Carries
    <3>6. w.doc = d /\ w.file.version = v  BY <2>1, <3>3
    <3>7. QED  BY <3>5, <3>6
  <2>2. CASE SaveFile(s) /\ ~Refuse(s)
    <3> DEFINE p == q.path    t == Text(q.doc, q.ops, q.gone)
    <3>1. /\ p \in Paths /\ t # NoFile /\ q \in Requests /\ file'[p] \in File
          /\ file'[p].text = t /\ req' = [req EXCEPT ![s] = Written(q, file'[p])]
      BY <2>2, SavedFile
    <3>2. /\ q # Idle /\ RequestOK(q, Len(docs), log, written) /\ q.phase = "save"
          /\ docs' = docs /\ log' = log
      BY <2>2, AtWork DEF SaveFile, Busy, Held, Flushing
    <3>3. w = Written(q, file'[p])  BY <3>1 DEF Inv, ReqOK
    <3>4. w.doc = q.doc /\ w.file = file'[p]
      <4> DEFINE f == file'[p]
      <4>1. f \in File /\ w = Written(q, f)  BY <3>1, <3>3
      <4> HIDE DEF f, w
      <4>2. w.doc = q.doc /\ w.file = f  BY <3>1, <4>1, WrittenFields DEF SameText
      <4>3. QED  BY <4>2 DEF f
    <3>5. docs'[q.doc].path = p  BY <3>2 DEF Knowing, PlacedOK, Placed, Flushing
    <3>6. t \subseteq Words(Restored(log'[q.doc]).ops)
      <4>1. q.ops = Restored(log[q.doc]).ops  BY <3>2 DEF RequestOK, FlushOK, Flushing
      <4>2. t \subseteq Words(q.ops)  BY DEF Text, Words
      <4>3. QED  BY <3>2, <4>1, <4>2
    <3> HIDE DEF t
    <3>7. PICK d, v, x : x \in Paths /\ d = q.doc /\ v = file'[p].version /\ x = p  BY <3>1
    <3>8. w.doc = d /\ w.file.version = v  BY <3>4, <3>7
    <3>9. docs'[d].path = p /\ file'[p].text # NoFile /\ v = file'[p].version
          /\ file'[p].text \subseteq Words(Restored(log'[d]).ops)
      BY <3>1, <3>5, <3>6, <3>7
    <3>10. Knows(d, v)'
      <4>1. docs'[d].path = x /\ file'[x].text # NoFile /\ v = file'[x].version
            /\ file'[x].text \subseteq Words(Restored(log'[d]).ops)
        BY <3>7, <3>9
      <4>2. QED  BY <3>7, <4>1, KnowsNow
    <3>11. QED  BY <3>8, <3>10
  <2>3. CASE Reload(s) /\ q.todo # {} /\ file[q.path].text # NoFile
    <3>1. /\ q \in Requests /\ q.path \in Paths /\ Min(q.todo) \in q.todo
          /\ Min(q.todo) \in 1..Len(docs) /\ file' = file /\ docs' = docs
          /\ file[q.path].text \subseteq Words(Restored(log'[Min(q.todo)]).ops)
          /\ req' = [req EXCEPT ![s] = Replaced(q, Min(q.todo), file[q.path])]
      BY <2>3, ReloadedLog
    <3>2. /\ q # Idle /\ RequestOK(q, Len(docs), log, written) /\ q.phase = "reload"
      BY <2>3, AtWork DEF Reload, Busy, Held
    <3>3. PICK d \in 1..Len(docs), p \in Paths, f \in File :
            d = Min(q.todo) /\ p = q.path /\ f = file[p]
      BY <3>1 DEF Inv, DataOK
    <3>4. f \in File /\ d \in Nat  BY <3>3, LenDocs DEF Inv, DataOK
    <3>5. docs'[d].path = p
      <4>1. d \in q.list /\ Placed(q, docs)
        BY <3>1, <3>2, <3>3 DEF RequestOK, ShapeOK, Knowing, PlacedOK
      <4>2. QED  BY <3>1, <3>2, <3>3, <4>1 DEF Placed, Held
    <3>6. w = Replaced(q, d, f)  BY <3>1, <3>3 DEF Inv, ReqOK
    <3>7. w.doc = d /\ w.file = f
      <4> HIDE DEF w
      <4>1. QED  BY <3>1, <3>4, <3>6, ReplacedFields
    <3>8. /\ file'[p] = f /\ f.text # NoFile
          /\ f.text \subseteq Words(Restored(log'[d]).ops)
      BY <2>3, <3>1, <3>3
    <3>9. PICK v : v = f.version  OBVIOUS
    <3>10. Knows(d, v)'  BY <3>5, <3>8, <3>9, KnowsNow
    <3>11. w.file.version = v  BY <3>7, <3>9
    <3>12. QED  BY <3>7, <3>10, <3>11
  <2>4. CASE ReadFile(s) /\ q \in Requests /\ w = Creating(q, file[q.path])
    <3>1. w.phase = "create"  BY <2>4 DEF Creating, Requests
    <3>2. QED  BY <1>1, <3>1
  <2>5. QED  BY <1>1, <2>1, <2>2, <2>3, <2>4, NewPhases DEF Hold
<1>2. QED  BY <1>1 DEF RequestsKnow

\* Only SaveFile writes a text that a flush compared.
LEMMA SavesOnly ==
  ASSUME Inv, [Next]_vars, NEW r \in Requesters, req[r].phase = "save", req'[r].phase = "version"
  PROVE  SaveFile(r) /\ ~Refuse(r)
<1>1. req'[r] # req[r] /\ req'[r].phase \in Hold  BY DEF Hold
<1>2. ~Reload(r) /\ ~ReadFile(r)  BY DEF Reload, ReadFile
<1>3. QED  BY <1>1, <1>2, NewPhases

\* A flush never replaces text its document has not seen, whoever saves, renames,
\* deletes, discards or restarts meanwhile (flush, saveTextFile).
THEOREM DirectTextKept == Spec => KeepsDirectText
<1> DEFINE Kept == \A r \in Requesters :
             req[r].phase = "save" /\ req'[r].phase = "version" /\ req[r].doc \notin stray
               => file[req[r].path].text \subseteq UNION {o.text : o \in req[r].ops}
           I == (Inv /\ RouteType) /\ RouteOK /\ AloneOK /\ Knowing
<1>1. Init => RouteOK /\ AloneOK /\ Knowing
  <2>1. ASSUME Init  PROVE RouteOK /\ AloneOK /\ Knowing
    <3>1. /\ route = NoMove /\ DOMAIN docs = {}
          /\ \A r \in Requesters : req[r] = Idle
          /\ \A p \in Paths : Active(p) = {}
      BY <2>1 DEF Init, Active
    <3>2. RouteOK /\ AloneOK /\ LivesOK
      <4>1. AloneOK  BY <3>1 DEF AloneOK
      <4>2. RouteOK  BY <3>1 DEF RouteOK
      <4>3. LivesOK  BY <3>1 DEF LivesOK
      <4>4. QED  BY <4>1, <4>2, <4>3
    <3>3. PlacedOK /\ ReadOK /\ RequestsKnow  BY <3>1 DEF PlacedOK, ReadOK, RequestsKnow, Idle
    <3>4. DocsKnow  BY <3>1 DEF DocsKnow
    <3>5. QED  BY <3>2, <3>3, <3>4 DEF Knowing
  <2>2. QED  BY <2>1
<1>2. (RouteOK /\ AloneOK /\ Knowing) /\ (Inv /\ RouteType) /\ (Inv /\ RouteType)' /\ [Next]_vars
        => (RouteOK /\ AloneOK /\ Knowing)'
  <2>1. ASSUME RouteOK, AloneOK, Knowing, Inv, RouteType, Inv', [Next]_vars
        PROVE  (RouteOK /\ AloneOK /\ Knowing)'
    <3>1. RouteOK' /\ AloneOK'  BY <2>1, AloneNext
    <3>2. PlacedOK'  BY <2>1, PlacedNext DEF Knowing
    <3>3. LivesOK'  BY <2>1, LivesNext DEF Knowing
    <3>4. ReadOK'  BY <2>1, ReadNext DEF Knowing
    <3>5. DocsKnow'  BY <2>1, DocsKnowNext
    <3>6. RequestsKnow'  BY <2>1, <3>1, <3>3, RequestsKnowNext
    <3>7. QED  BY <3>1, <3>2, <3>3, <3>4, <3>5, <3>6 DEF Knowing
  <2>2. QED  BY <2>1
<1>3. (RouteOK /\ AloneOK /\ Knowing) /\ (Inv /\ RouteType) /\ [Next]_vars => [Kept]_vars
  <2>1. ASSUME Knowing, Inv, [Next]_vars, NEW r \in Requesters,
               req[r].phase = "save", req'[r].phase = "version", req[r].doc \notin stray
        PROVE  file[req[r].path].text \subseteq UNION {o.text : o \in req[r].ops}
    <3> DEFINE q == req[r]    d == q.doc    p == q.path
    <3>1. p \in Paths /\ docs[d].version = file[p].version
      BY <2>1, SavesOnly, SavedFile DEF MaySave
    <3>2. q # Idle /\ RequestOK(q, Len(docs), log, written)
      BY <2>1, AtWork DEF Busy, Held, Flushing
    <3>3. d \in DOMAIN docs /\ q.ops = Restored(log[d]).ops
      BY <2>1, <3>2, LenDocs DEF RequestOK, ShapeOK, FlushOK, Flushing, Inv
    <3>4. docs[d].path = p /\ docs[d].status = "active"
      BY <2>1, <3>2 DEF Knowing, PlacedOK, Placed, Flushing
    <3>5. Seen(file[p], docs[d].version, Restored(log[d]).ops)
      BY <2>1, <3>1, <3>3, <3>4 DEF Knowing, DocsKnow, Knows, Belongs
    <3>6. QED  BY <3>1, <3>3, <3>5 DEF Seen, Words
  <2>2. QED  BY <2>1
<1>4. KeepsDirectText <=> [][Kept]_vars  BY DEF KeepsDirectText
<1> HIDE DEF Kept
<1>5. QED  BY <1>1, <1>2, <1>3, <1>4, Invariant, PTL DEF Spec
=============================================================================
