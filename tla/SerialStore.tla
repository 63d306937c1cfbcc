----------------------------- MODULE SerialStore -----------------------------
(***************************************************************************)
(* What a mutation of the database promises its caller: mutations take     *)
(* effect one after the other, one that was acknowledged has taken effect  *)
(* on top of everything acknowledged before it and is never lost, and one  *)
(* that was refused does not take effect later.  A refusal does not say    *)
(* that the mutation has not taken effect already, and a crash may leave   *)
(* a mutation without an answer.                                           *)
(***************************************************************************)
EXTENDS Naturals, Sequences, SequencesExt

CONSTANT Mutations

VARIABLES store,     \* the mutations that have taken effect, in order
          acked, refused

vars == <<store, acked, refused>>

Answered == acked \cup refused

\* Everything that was promised is among the first n mutations of the store.
Promised(n) == \A i \in n + 1 .. Len(store) : store[i] \notin acked

\* A mutation takes effect, on top of everything that was promised; others that
\* had taken effect may be dropped.
Write(m) ==
  /\ m \notin Answered
  /\ \E n \in 0 .. Len(store) :
       Promised(n) /\ store' = Append(SubSeq(store, 1, n), m)
  /\ IsInjective(store')
  /\ UNCHANGED <<acked, refused>>

Acknowledge(m) ==
  /\ m \notin Answered /\ store # <<>> /\ Last(store) = m
  /\ acked' = acked \cup {m}
  /\ UNCHANGED <<store, refused>>

Refuse(m) ==
  /\ m \notin Answered
  /\ refused' = refused \cup {m}
  /\ UNCHANGED <<store, acked>>

Init == store = <<>> /\ acked = {} /\ refused = {}
Next == \E m \in Mutations : Write(m) \/ Acknowledge(m) \/ Refuse(m)
Spec == Init /\ [][Next]_vars
=============================================================================
