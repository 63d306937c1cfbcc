---------------------------- MODULE MailDelivery ----------------------------
(***************************************************************************)
(* MailDeliveryService (server/notifications/mail-delivery-service.ts):    *)
(* deliveries are claimed in the database, sent, and recorded; a timer and *)
(* every request call dispatchPending, a standalone worker may call        *)
(* dispatchWorker, the provider reports back through a webhook.            *)
(*                                                                         *)
(* Time is abstract: due says that nextAttemptAt has passed or is not set. *)
(* A claim sets nextAttemptAt and the lease to the same ten minutes, so    *)
(* both pass together (Elapses).                                           *)
(***************************************************************************)
EXTENDS Naturals, FiniteSets

CONSTANTS Deliveries, Dispatchers,
          Inline,        \* the dispatcher that is dispatchPending
          Budget,        \* attempts of a delivery: five
          MaxTroubles    \* bound: crashes, rejected mutations, overrun leases, lost answers

VARIABLES
  mail,      \* the stored deliveries
  work,      \* each dispatcher: what its snapshot listed, and where it is
  accepted,  \* history: how often the mail server took each delivery
  troubles   \* history: what may explain that it took one twice

vars == <<mail, work, accepted, troubles>>

Resting == [at |-> "idle", todo |-> {}, item |-> CHOOSE d \in Deliveries : TRUE, stale |-> FALSE]
Fresh == [status |-> "pending", attempts |-> 0, due |-> TRUE, lease |-> "none"]

Init ==
  /\ mail = [d \in Deliveries |-> Fresh]
  /\ work = [w \in Dispatchers |-> Resting]
  /\ accepted = [d \in Deliveries |-> 0]
  /\ troubles = 0

Pending(d) == mail[d].status = "pending"
Goes(w, at) == work' = [work EXCEPT ![w].at = at]
Turns(w) == work' = [work EXCEPT ![w].at = "choosing", ![w].stale = FALSE]
Trouble == troubles < MaxTroubles /\ troubles' = troubles + 1

-----------------------------------------------------------------------------
\* dispatchPending and dispatchWorker list what looks free; the flag dispatching
\* keeps dispatchPending from running twice.  Only the former asks whether it is due.
Listed(w) ==
  {d \in Deliveries : /\ Pending(d) /\ mail[d].lease # "live"
                      /\ w = Inline => mail[d].due /\ mail[d].attempts < Budget}

Dispatch(w) ==
  /\ work[w].at = "idle" /\ Listed(w) # {}
  /\ work' = [work EXCEPT ![w].at = "choosing", ![w].todo = Listed(w)]
  /\ UNCHANGED <<mail, accepted, troubles>>

Chooses(w) ==
  /\ work[w].at = "choosing"
  /\ IF work[w].todo = {} THEN Goes(w, "idle")
     ELSE \E d \in work[w].todo :
            work' = [work EXCEPT ![w].at = "claiming", ![w].item = d, ![w].todo = @ \ {d}]
  /\ UNCHANGED <<mail, accepted, troubles>>

\* MUTANT: the claim trusts the snapshot's view of the time
ClaimableMutant(d) == Pending(d) /\ mail[d].attempts < Budget

Claimable(d) == Pending(d) /\ mail[d].attempts < Budget /\ mail[d].due

\* claim's mutation; deliver then looks at the delivery again.
Claim(w) ==
  /\ work[w].at = "claiming"
  /\ LET d == work[w].item IN
       IF Claimable(d)
       THEN /\ mail' = [mail EXCEPT ![d].due = FALSE, ![d].lease = "live"]
            /\ Goes(w, "claimed")
       ELSE Turns(w) /\ UNCHANGED mail
  /\ UNCHANGED <<accepted, troubles>>

Deliver(w) ==
  /\ work[w].at = "claimed"
  /\ LET d == work[w].item IN
       IF Pending(d) /\ mail[d].attempts < Budget THEN Goes(w, "sending") ELSE Turns(w)
  /\ UNCHANGED <<mail, accepted, troubles>>

\* send: taken and confirmed, refused, or taken with the answer lost.
Sends(w) ==
  /\ work[w].at = "sending"
  /\ \/ /\ accepted' = [accepted EXCEPT ![work[w].item] = @ + 1]
        /\ \/ Goes(w, "sent") /\ UNCHANGED troubles
           \/ Goes(w, "failed") /\ Trouble
     \/ Goes(w, "failed") /\ UNCHANGED <<accepted, troubles>>
  /\ UNCHANGED mail

RecordsSent(w) ==
  /\ work[w].at = "sent"
  /\ LET d == work[w].item IN
       mail' = IF Pending(d)
               THEN [mail EXCEPT ![d].attempts = @ + 1, ![d].status = "sent", ![d].lease = "none"]
               ELSE mail
  /\ Turns(w)
  /\ UNCHANGED <<accepted, troubles>>

\* MUTANT: a failing mail is retried for ever
AfterFailureMutant(m) == [m EXCEPT !.due = FALSE, !.lease = "none"]

\* The retry is due after one to sixteen minutes; the last failure is final.
AfterFailure(m) ==
  LET attempts == m.attempts + 1 IN
  [m EXCEPT !.attempts = attempts, !.due = FALSE, !.lease = "none",
            !.status = IF attempts >= Budget THEN "failed" ELSE "pending"]

RecordsFailure(w) ==
  /\ work[w].at = "failed"
  /\ LET d == work[w].item IN
       mail' = IF Pending(d) THEN [mail EXCEPT ![d] = AfterFailure(@)] ELSE mail
  /\ Turns(w)
  /\ UNCHANGED <<accepted, troubles>>

\* A rejected mutation: of a claim or a failure it ends the dispatch, of a sent mail
\* it is caught and recorded as a failure.
MutationFails(w) ==
  /\ work[w].at \in {"claiming", "sent", "failed"}
  /\ Trouble
  /\ IF work[w].at = "sent" THEN Goes(w, "failed")
     ELSE work' = [work EXCEPT ![w] = Resting]
  /\ UNCHANGED <<mail, accepted>>

-----------------------------------------------------------------------------
\* handleWebhook sets the status whatever it is.
Webhook(d) ==
  /\ accepted[d] > 0
  /\ \E s \in {"sent", "failed"} :
       mail' = [mail EXCEPT ![d].status = s, ![d].due = @ \/ s = "failed"]
  /\ UNCHANGED <<work, accepted, troubles>>

Holders(d) == {w \in Dispatchers : work[w].item = d /\ ~work[w].stale
                                   /\ work[w].at \in {"claimed", "sending", "sent", "failed"}}

\* nextAttemptAt passes and with it a live lease; who still sends under it has overrun
\* its ten minutes.  A failure that a late sender recorded has cleared the lease.
Elapses(d) ==
  /\ ~mail[d].due /\ Pending(d)
  /\ mail' = [mail EXCEPT ![d].due = TRUE, ![d].lease = IF @ = "live" THEN "expired" ELSE @]
  /\ IF mail[d].lease # "live" \/ Holders(d) = {} THEN UNCHANGED <<work, troubles>>
     ELSE /\ Trouble
          /\ work' = [w \in Dispatchers |->
                        IF w \in Holders(d) THEN [work[w] EXCEPT !.stale = TRUE] ELSE work[w]]
  /\ UNCHANGED accepted

\* recoverExpiredLeases
Recover ==
  /\ mail' = [d \in Deliveries |->
                IF Pending(d) /\ mail[d].lease = "expired"
                THEN [mail[d] EXCEPT !.lease = "none", !.due = TRUE] ELSE mail[d]]
  /\ UNCHANGED <<work, accepted, troubles>>

Crash ==
  /\ Trouble
  /\ work' = [w \in Dispatchers |-> Resting]
  /\ UNCHANGED <<mail, accepted>>

Next ==
  \/ \E w \in Dispatchers :
       \/ Dispatch(w) \/ Chooses(w) \/ Claim(w) \/ Deliver(w) \/ Sends(w)
       \/ RecordsSent(w) \/ RecordsFailure(w) \/ MutationFails(w)
  \/ \E d \in Deliveries : Webhook(d) \/ Elapses(d)
  \/ Recover \/ Crash

Spec == Init /\ [][Next]_vars

\* The server's timer dispatches every fifteen seconds, a dispatch runs to its end,
\* and time passes.  A worker that is not running owes nothing.
Fairness ==
  /\ \A d \in Deliveries : WF_vars(Elapses(d))
  /\ WF_vars(Dispatch(Inline))
  /\ \A w \in Dispatchers :
       /\ WF_vars(Chooses(w)) /\ WF_vars(Claim(w)) /\ WF_vars(Deliver(w))
       /\ WF_vars(Sends(w)) /\ WF_vars(RecordsSent(w)) /\ WF_vars(RecordsFailure(w))

-----------------------------------------------------------------------------
\* A recipient gets a mail once, and each further copy is explained by a crash, a
\* rejected mutation, a lost answer or a send that outlived its lease.
DeliveredOnce == \A d \in Deliveries : accepted[d] <= 1 + troubles

\* However often sending fails, no delivery stays pending for ever.
EveryMailSettles == \A d \in Deliveries : Pending(d) ~> ~Pending(d)
=============================================================================
