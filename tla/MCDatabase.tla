----------------------------- MODULE MCDatabase -----------------------------
(* Two processes on one data directory, or one of them with PostgreSQL; and a *)
(* queue kept in the database: one mail, which the process that queued it and *)
(* two workers may send.  A behaviour is of one of the two.                   *)
EXTENDS Database

VARIABLES subject, mail, work, accepted, troubles

Mail == INSTANCE MailDelivery WITH
  Deliveries <- {"d1"}, Dispatchers <- {"inline", "w1", "w2"}, Inline <- "inline",
  Budget <- 2, MaxTroubles <- 2

mails == <<mail, work, accepted, troubles>>

StoreInit ==
  /\ subject \in {"store", "mail"} /\ Init
  /\ IF subject = "mail" THEN Mail!Init
     ELSE mail = [d1 |-> [Mail!Fresh EXCEPT !.status = "sent"]]   \* nothing to do
          /\ work = [w \in {"inline", "w1", "w2"} |-> Mail!Resting]
          /\ accepted = [d1 |-> 0] /\ troubles = 0

StoreNext ==
  /\ UNCHANGED subject
  /\ \/ subject = "store" /\ Next /\ UNCHANGED mails
     \/ subject = "mail" /\ Mail!Next /\ UNCHANGED vars

StoreSpec ==
  StoreInit /\ [][StoreNext]_<<subject, vars, mails>> /\ Fairness /\ Mail!Fairness

\* However often sending fails, no delivery stays pending for ever.
EveryMailSettles == Mail!EveryMailSettles
=============================================================================
