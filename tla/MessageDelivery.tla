---------------------------- MODULE MessageDelivery ----------------------------
(******************************************************************************)
(* The durable outbox of messages and the worker that announces them          *)
(* (message-outbox.repository.ts, workers/message-delivery.ts).               *)
(*                                                                            *)
(* One action per call to the database, and one for each continuation that    *)
(* looks at the fence guard.  The heartbeat before the first claim shares the *)
(* ways in which that claim can fail.                                         *)
(******************************************************************************)
EXTENDS FencedLease

CONSTANTS MaxAttempts, BatchSize

ASSUME DeliveryAssumption == MaxAttempts \in Nat \ {0} /\ BatchSize \in Nat \ {0}

VARIABLES
  out,        \* the outbox
  announced   \* how often each event was notified

deliveryVars == <<leaseVars, out, announced>>

\* claim: the fence an event was claimed under.  due: available_at has passed;
\* stale: the claim is older than the worker's staleClaimMs.
NotSent == [status |-> "none", attempts |-> 0, claim |-> 0, due |-> FALSE, stale |-> FALSE]
Event == [status : {"none", "pending", "processing", "delivered", "dead"},
          attempts : Nat, claim : Nat, due : BOOLEAN, stale : BOOLEAN]

DeliveryInit ==
  /\ LeaseInit
  /\ out = [e \in Events |-> NotSent]
  /\ announced = [e \in Events |-> 0]

\* enqueue, in the transaction that stores the message.
Enqueue(e) ==
  /\ out[e].status = "none"
  /\ out' = [out EXCEPT ![e].status = "pending", ![e].due = TRUE]
  /\ UNCHANGED <<leaseVars, announced>>

\* The delay of a rescheduled event is over; a claim grows old.
Due(e) ==
  /\ out[e].status = "pending" /\ ~out[e].due
  /\ out' = [out EXCEPT ![e].due = TRUE] /\ UNCHANGED <<leaseVars, announced>>
Stale(e) ==
  /\ out[e].status = "processing" /\ ~out[e].stale
  /\ out' = [out EXCEPT ![e].stale = TRUE] /\ UNCHANGED <<leaseVars, announced>>

-----------------------------------------------------------------------------
(* The worker (processLease). *)

\* Faulty: a claim that went stale is not taken up again.
Claimable_Pending == {e \in Events : out[e].status = "pending" /\ out[e].due}
Claimable ==
  {e \in Events : \/ out[e].status = "pending" /\ out[e].due
                  \/ out[e].status = "processing" /\ out[e].stale}

\* claimBatch: nothing without the lease.
Claim(w) ==
  LET f == worker[w].fence IN
  /\ worker[w].pc = "claim"
  /\ \E o \in Outcomes, batch \in SUBSET Claimable :
       /\ Suffers(o)
       /\ Cardinality(batch) <= BatchSize
       /\ batch = Claimable \/ Cardinality(batch) = BatchSize \/ ~Holds(w)
       /\ batch = {} \/ Holds(w)
       /\ out' = IF o = "failed" THEN out
                 ELSE [e \in Events |->
                         IF e \in batch
                         THEN [status |-> "processing", attempts |-> out[e].attempts + 1,
                               claim |-> f, due |-> FALSE, stale |-> FALSE]
                         ELSE out[e]]
       /\ worker' = IF o = "done" THEN [worker EXCEPT ![w].pc = "next", ![w].batch = batch]
                    ELSE [worker EXCEPT ![w].pc = "release"]
  /\ UNCHANGED <<row, announced>>

\* The next event of the batch, or the next batch after a pause.
NextEvent(w) ==
  /\ worker[w].pc = "next"
  /\ \/ /\ ~worker[w].owned
        /\ Goes(w, "release")
     \/ /\ worker[w].owned /\ worker[w].batch = {}
        /\ Goes(w, "claim")
     \/ /\ worker[w].owned
        /\ \E e \in worker[w].batch :
             worker' = [worker EXCEPT ![w].pc = "dispatch", ![w].ev = e, ![w].batch = @ \ {e}]
  /\ UNCHANGED <<row, faults, out, announced>>

\* publishPostgres.
Dispatch(w) ==
  LET e == worker[w].ev IN
  /\ worker[w].pc = "dispatch"
  /\ \E o \in Outcomes :
       /\ Suffers(o)
       /\ announced' = [announced EXCEPT ![e] = IF o = "failed" THEN @ ELSE @ + 1]
       /\ worker' = [worker EXCEPT ![w].pc = "sent", ![w].ok = o = "done"]
  /\ UNCHANGED <<row, out>>

\* Faulty: an event whose dispatch failed is marked as well.
AfterDispatch_Marks(w) ==
  /\ worker[w].pc = "sent"
  /\ Goes(w, IF worker[w].owned THEN "mark" ELSE "release")
  /\ UNCHANGED <<row, faults, out, announced>>
AfterDispatch(w) ==
  /\ worker[w].pc = "sent"
  /\ Goes(w, IF ~worker[w].owned THEN "release"
             ELSE IF worker[w].ok THEN "mark" ELSE "reschedule")
  /\ UNCHANGED <<row, faults, out, announced>>

\* Faulty claimedUnderLease: the status of the event is not looked at, and the
\* claim it had is taken for granted.
ClaimedUnderLease_AnyStatus(w, e) == Holds(w)
ClaimedUnderLease(w, e) ==
  out[e].status = "processing" /\ out[e].claim = worker[w].fence /\ Holds(w)

\* markDelivered.
Mark(w) ==
  LET e == worker[w].ev IN
  /\ worker[w].pc = "mark"
  /\ \E o \in Outcomes :
       /\ Suffers(o)
       /\ out' = IF o # "failed" /\ ClaimedUnderLease(w, e)
                 THEN [out EXCEPT ![e].status = "delivered", ![e].claim = 0, ![e].stale = FALSE]
                 ELSE out
       /\ worker' = [worker EXCEPT ![w].pc = "marked",
                                   ![w].ok = o = "done" /\ ClaimedUnderLease(w, e)]
  /\ UNCHANGED <<row, announced>>

\* The mark was made; or it failed, and the catch block looks at the guard.
AfterMark(w) ==
  /\ worker[w].pc = "marked"
  /\ Goes(w, IF worker[w].ok THEN "next"
             ELSE IF worker[w].owned THEN "reschedule" ELSE "release")
  /\ UNCHANGED <<row, faults, out, announced>>

AttemptsLeft(e) == out[e].attempts < MaxAttempts

\* Faulty: a status the table does not know.
StatusAfter_Failed(e) == IF AttemptsLeft(e) THEN "pending" ELSE "failed"
StatusAfter(e) == IF AttemptsLeft(e) THEN "pending" ELSE "dead"

\* reschedule: when that fails too, the lease is given up.
Reschedule(w) ==
  LET e == worker[w].ev IN
  /\ worker[w].pc = "reschedule"
  /\ \E o \in Outcomes :
       /\ Suffers(o)
       /\ out' = IF o # "failed" /\ ClaimedUnderLease(w, e)
                 THEN [out EXCEPT ![e].status = StatusAfter(e),
                                  ![e].claim = 0, ![e].stale = FALSE]
                 ELSE out
       /\ Goes(w, IF o = "done" /\ ClaimedUnderLease(w, e) THEN "next" ELSE "release")
  /\ UNCHANGED <<row, announced>>

WorkStep(w) ==
  \/ Claim(w) \/ NextEvent(w) \/ Dispatch(w) \/ AfterDispatch(w)
  \/ Mark(w) \/ AfterMark(w) \/ Reschedule(w)

DeliveryNext ==
  \/ LeaseNext /\ UNCHANGED <<out, announced>>
  \/ \E w \in Workers : WorkStep(w)
  \/ \E e \in Events : Enqueue(e) \/ Due(e) \/ Stale(e)

\* The database answers, processes run and are started again, time passes.
DeliveryFairness ==
  /\ \A w \in Workers :
       /\ WF_deliveryVars(Runtime(w) /\ UNCHANGED <<out, announced>>)
       /\ WF_deliveryVars(WorkStep(w))
       /\ WF_deliveryVars(RenewalFails(w) /\ UNCHANGED <<faults, out, announced>>)
  /\ WF_deliveryVars(LeaseExpires /\ UNCHANGED <<faults, out, announced>>)
  /\ \A e \in Events : WF_deliveryVars(Due(e)) /\ WF_deliveryVars(Stale(e))

DeliverySpec == DeliveryInit /\ [][DeliveryNext]_deliveryVars /\ DeliveryFairness

-----------------------------------------------------------------------------
(* Properties. *)

DeliveryTypeOK ==
  /\ row \in [owner : Workers \cup {NoWorker}, fence : Nat, live : BOOLEAN]
  /\ worker \in [Workers -> Worker]
  /\ faults \in 0..MaxFaults
  /\ out \in [Events -> Event]
  /\ announced \in [Events -> Nat]

Settled(e) == out[e].status \in {"delivered", "dead"}

\* An event counts as delivered only after it was notified, by whichever worker
\* marks it, and however many of them had it in hand.
DeliveredWasAnnounced ==
  \A e \in Events : out[e].status = "delivered" => announced[e] > 0

\* Only an event that used its attempts is given up.
DeadIsSpent == \A e \in Events : out[e].status = "dead" => out[e].attempts >= MaxAttempts

\* A delivered or dead event stays so: neither a worker that did not get the
\* answer to its mark, nor one that lost the lease, queues it again.
SettledForGood ==
  [][\A e \in Events : Settled(e) => out'[e].status = out[e].status]_deliveryVars

\* A queued event is delivered or given up in the end, across crashes, lost
\* answers and leases that change hands, unless the workers are all told to stop.
EventsSettle ==
  \A e \in Events :
    (out[e].status \in {"pending", "processing"}) ~>
      (Settled(e) \/ \A w \in Workers : worker[w].stop # "no")
=============================================================================
