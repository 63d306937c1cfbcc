----------------------------- MODULE TextHunks -----------------------------
(***************************************************************************)
(* The hunks of one proposed change (packages/shared/src/text-hunks.ts):   *)
(* buildTextHunks cuts the difference of two texts at the lines that occur *)
(* once in both and keep their order, materializeTextHunks puts a decision *)
(* about every hunk back into the text before.                             *)
(*                                                                         *)
(* A text is the sequence of its lines, a position the number of lines     *)
(* before it.  What a loop of the code has after each turn is a function   *)
(* of the number of turns.                                                 *)
(***************************************************************************)
EXTENDS Integers, FiniteSets, SequencesExt

CONSTANTS Befores, Afters     \* the texts before and after

VARIABLES before, after, hunks

vars == <<before, after, hunks>>

\* The lines that occur exactly once.
UniqueLines(t) == {l \in ToSet(t) : Cardinality({i \in DOMAIN t : t[i] = l}) = 1}

\* Where the lines unique in both texts stand, in the order of the first.
PairsOfFirst(b, a) ==
  LET common == UniqueLines(b) \cap UniqueLines(a)
      pairs[i \in 0..Len(b)] ==
        IF i = 0 THEN <<>>
        ELSE IF b[i] \in common
        THEN Append(pairs[i - 1], <<i, CHOOSE j \in DOMAIN a : a[j] = b[i]>>)
        ELSE pairs[i - 1]
  IN  pairs
Pairs(b, a) == PairsOfFirst(b, a)[Len(b)]

\* Patience sorting: tails[n] is the pair that ends the increasing run of length
\* n whose end is least, previous[k] the pair before k in the run k ended.
Place(pairs, s, k) ==
  LET low == 1 + Cardinality({n \in DOMAIN s.tails : pairs[s.tails[n]][2] < pairs[k][2]})
  IN  [tails    |-> IF low > Len(s.tails) THEN Append(s.tails, k)
                    ELSE [s.tails EXCEPT ![low] = k],
       previous |-> Append(s.previous, IF low = 1 THEN 0 ELSE s.tails[low - 1])]

PilesOfFirst(pairs) ==
  LET piles[k \in 0..Len(pairs)] ==
        IF k = 0 THEN [tails |-> <<>>, previous |-> <<>>] ELSE Place(pairs, piles[k - 1], k)
  IN  piles
Piles(pairs) == PilesOfFirst(pairs)[Len(pairs)]

\* MUTANT: the tails themselves instead of the run that leads to the last one
LongestIncreasingAnchorsMutant(pairs) ==
  LET tails == Piles(pairs).tails IN [n \in DOMAIN tails |-> pairs[tails[n]]]

\* The runs that end with each pair.
Runs(pairs) ==
  LET previous == Piles(pairs).previous
      run[k \in 0..Len(pairs)] ==
        IF k = 0 THEN <<>> ELSE Append(run[previous[k]], pairs[k])
  IN  run
LongestIncreasingAnchors(pairs) ==
  IF pairs = <<>> THEN <<>> ELSE Runs(pairs)[Last(Piles(pairs).tails)]

\* One hunk for every gap between two anchors; the whole text if there is none.
Anchors(b, a) ==
  <<<<0, 0>>>> \o LongestIncreasingAnchors(Pairs(b, a)) \o <<<<Len(b) + 1, Len(a) + 1>>>>

Gap(b, a, from, to) ==
  [from   |-> from[1], to |-> to[1] - 1,
   before |-> SubSeq(b, from[1] + 1, to[1] - 1),
   after  |-> SubSeq(a, from[2] + 1, to[2] - 1),
   status |-> "pending"]

GapsOfFirst(b, a, anchors) ==
  LET gaps[k \in 0..(Len(anchors) - 1)] ==
        IF k = 0 THEN <<>>
        ELSE LET h == Gap(b, a, anchors[k], anchors[k + 1]) IN
             IF h.before = <<>> /\ h.after = <<>> THEN gaps[k - 1] ELSE Append(gaps[k - 1], h)
  IN  gaps

BuildTextHunks(b, a) ==
  LET anchors == Anchors(b, a)
      gaps == GapsOfFirst(b, a, anchors)[Len(anchors) - 1]
  IN  IF b = a THEN <<>>
      ELSE IF gaps # <<>> THEN gaps
      ELSE <<[from |-> 0, to |-> Len(b), before |-> b, after |-> a, status |-> "pending"]>>

\* A range that overlaps the one before it or does not hold the hunk's text is an
\* error.  Hunks are stored in the order of their ranges.
Put(b, s, h) ==
  [valid  |-> /\ s.valid /\ h.from >= s.cursor /\ h.to >= h.from
              /\ SubSeq(b, h.from + 1, h.to) = h.before,
   text   |-> s.text \o SubSeq(b, s.cursor + 1, h.from)
              \o (IF h.status = "accepted" THEN h.after ELSE h.before),
   cursor |-> h.to]

PutFirst(b, hs) ==
  LET put[k \in 0..Len(hs)] ==
        IF k = 0 THEN [valid |-> TRUE, text |-> <<>>, cursor |-> 0] ELSE Put(b, put[k - 1], hs[k])
  IN  put

MaterializeTextHunks(b, hs) ==
  LET s == PutFirst(b, hs)[Len(hs)]
  IN  [valid |-> s.valid, text |-> s.text \o SubSeq(b, s.cursor + 1, Len(b))]

-----------------------------------------------------------------------------
\* Somebody decides about a hunk, or decides otherwise.
Decide(i, status) ==
  /\ hunks[i].status # status
  /\ hunks' = [hunks EXCEPT ![i].status = status]
  /\ UNCHANGED <<before, after>>

Init ==
  /\ before \in Befores /\ after \in Afters
  /\ hunks = BuildTextHunks(before, after)

Next == \E i \in DOMAIN hunks, status \in {"accepted", "rejected"} : Decide(i, status)

Spec == Init /\ [][Next]_vars

-----------------------------------------------------------------------------
\* What the accepted hunks mean: each one replaces its range in the text before,
\* independently of the others, so the last may be done first.
Replace(t, h) ==
  IF h.status # "accepted" THEN t
  ELSE SubSeq(t, 1, h.from) \o h.after \o SubSeq(t, h.to + 1, Len(t))

ReplacedLast(b, hs) ==
  LET done[k \in 0..Len(hs)] ==
        IF k = 0 THEN b ELSE Replace(done[k - 1], hs[Len(hs) + 1 - k])
  IN  done
Replaced(b, hs) == ReplacedLast(b, hs)[Len(hs)]

\* No run of lines that keeps its order is longer than the anchors.
AnchorsAreLongest ==
  LET pairs == Pairs(before, after)
      longest == Len(LongestIncreasingAnchors(pairs)) IN
  \A S \in SUBSET DOMAIN pairs :
    (\A i, j \in S : i < j => pairs[i][2] < pairs[j][2]) => Cardinality(S) <= longest

\* Whatever is decided, in whatever order, materialising succeeds and yields the
\* text before with exactly the accepted hunks replaced; with all of them it is
\* the text after.  The cut is as fine as lines that are unique allow.
HunksRebuildTexts ==
  LET m == MaterializeTextHunks(before, hunks) IN
  /\ m.valid /\ m.text = Replaced(before, hunks)
  /\ (\A i \in DOMAIN hunks : hunks[i].status = "accepted") => m.text = after
  /\ AnchorsAreLongest
=============================================================================
