--------------------------- MODULE MCCollaboration ---------------------------
(* Two browsers edit one file: together, through its collaboration document   *)
(* (with room in the project for another file), or each in a window of its    *)
(* own, through the sessions that save it.  A behaviour is of one kind.       *)
EXTENDS Collaboration

VARIABLES together, server, view, requests, replies, compared, reached, flushed, lost

Session == INSTANCE DocumentSession WITH
  Sessions <- {"s1", "s2"}, Texts <- {"a", "b"},
  MaxRevision <- [s1 |-> 2, s2 |-> 1], MaxVersion <- 4, MaxLost <- 1

session == <<server, view, requests, replies, compared, reached, flushed, lost>>

EditingInit == Init /\ Session!Init /\ together \in BOOLEAN

EditingNext ==
  /\ UNCHANGED together
  /\ \/ together /\ Next /\ UNCHANGED session
     \/ ~together /\ Session!Next /\ UNCHANGED vars

EditingSpec ==
  EditingInit /\ [][EditingNext]_<<together, vars, session>> /\ Fairness /\ Session!Fairness

\* Text a user typed is saved, or the user is told that it is not.
TypedTextIsSaved == Session!TypedTextIsSaved
=============================================================================
