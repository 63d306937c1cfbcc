----------------------------- MODULE MCServices -----------------------------
(* Small instances of the six components, for TLC.                           *)
EXTENDS Services, SequencesExt

\* Texts of up to four lines; the text before up to the names of its lines.
Names  == <<"a", "b", "c", "d">>
SmallAfters == SeqOf(ToSet(Names), 4)
Order(l)  == CHOOSE n \in DOMAIN Names : Names[n] = l
SmallBefores == {t \in SmallAfters : \A i \in DOMAIN t, n \in 1..3 :
                   n < Order(t[i]) => \E j \in 1..(i - 1) : t[j] = Names[n]}
EditsOf == [s1 |-> 2, s2 |-> 1]
=============================================================================
