------------------------- MODULE MCChangeSetReview -------------------------
(* A ChangeSet over one or two files: each has one hunk.                             *)
EXTENDS ChangeSetReview
CONSTANTS intro, appendix, i1, a1

TwoFiles == <<intro, appendix>>
OneFile  == <<intro>>
MCPathOf == [h \in Hunks |-> IF h = a1 THEN appendix ELSE intro]

\* The requests are alike: no property names one of them.
RequestSymmetry == Permutations(Requests)
=============================================================================
