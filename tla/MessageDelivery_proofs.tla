------------------------- MODULE MessageDelivery_proofs -------------------------
(****************************************************************************)
(* What holds of message delivery for any number of workers, events, faults *)
(* and attempts.                                                            *)
(****************************************************************************)
EXTENDS MessageDelivery, TLAPS

-----------------------------------------------------------------------------
(* Types. *)

LEMMA TypeInit == DeliveryInit => DeliveryTypeOK
BY LeaseAssumption
DEF DeliveryInit, LeaseInit, DeliveryTypeOK, Asleep, Worker, NotSent, Event, OutPcs, WorkPcs

\* The end of a round is a state of a worker.
LEMMA RestsType ==
  ASSUME DeliveryTypeOK, NEW w \in Workers
  PROVE  /\ Rests(w) \in Worker
         /\ [Rests(w) EXCEPT !.pc = IF @ = "asleep" THEN "dead" ELSE @] \in Worker
         /\ Rests(w).pc \in {"asleep", "stopped"}
         /\ [Rests(w) EXCEPT !.pc = IF @ = "asleep" THEN "dead" ELSE @].pc \in {"dead", "stopped"}
BY LeaseAssumption DEF DeliveryTypeOK, Rests, Asleep, Worker, OutPcs, WorkPcs

LEMMA LeaseTypes ==
  ASSUME DeliveryTypeOK, LeaseNext, UNCHANGED <<out, announced>>
  PROVE  DeliveryTypeOK'
<1> USE LeaseAssumption
<1> DEFINE Row == [owner : Workers \cup {NoWorker}, fence : Nat, live : BOOLEAN]
<1>0. row \in Row /\ worker \in [Workers -> Worker] /\ faults \in 0..MaxFaults
  BY DEF DeliveryTypeOK
<1>f. Fault => faults' \in 0..MaxFaults
  BY <1>0 DEF Fault
<1> SUFFICES row' \in Row /\ worker' \in [Workers -> Worker] /\ faults' \in 0..MaxFaults
  BY DEF DeliveryTypeOK
<1>1. CASE LeaseExpires
  BY <1>0, <1>1, <1>f DEF LeaseExpires
<1>2. ASSUME NEW w \in Workers, LeaseStep(w)
      PROVE  row' \in Row /\ worker' \in [Workers -> Worker] /\ faults' \in 0..MaxFaults
  <2>r. /\ Rests(w) \in Worker
        /\ [Rests(w) EXCEPT !.pc = IF @ = "asleep" THEN "dead" ELSE @] \in Worker
    BY RestsType
  <2>1. CASE Wake(w)
    BY <1>0, <2>1 DEF Wake, Goes, Worker, OutPcs
  <2>2. CASE Acquire(w)
    <3>1. PICK o \in Outcomes : Suffers(o)
      BY <2>2 DEF Acquire
    <3>2. faults' \in 0..MaxFaults
      BY <1>0, <1>f, <3>1 DEF Suffers
    <3>3. row.fence + 1 \in Nat
      BY <1>0
    <3>4. row' \in Row
      BY <1>0, <2>2, <3>3 DEF Acquire
    <3>5. \/ worker' = [worker EXCEPT ![w] = Rests(w)]
          \/ worker' = [worker EXCEPT ![w].pc = "acquired", ![w].fence = row.fence + 1]
      BY <2>2 DEF Acquire
    <3>6. [worker[w] EXCEPT !.pc = "acquired", !.fence = row.fence + 1] \in Worker
      BY <1>0, <3>3 DEF Worker, OutPcs
    <3>7. worker' \in [Workers -> Worker]
      BY <1>0, <2>r, <3>5, <3>6
    <3> QED BY <3>2, <3>4, <3>7
  <2>3. CASE HoldLease(w)
    <3>1. [worker[w] EXCEPT !.pc = "claim", !.owned = TRUE] \in Worker
      BY <1>0 DEF Worker, WorkPcs
    <3> QED BY <1>0, <2>3, <3>1 DEF HoldLease
  <2>4. CASE RenewalFails(w)
    BY <1>0, <1>f, <2>4 DEF RenewalFails, Worker
  <2>5. CASE Release(w)
    <3>1. faults' \in 0..MaxFaults
      BY <1>0, <1>f, <2>5 DEF Release, Suffers
    <3>2. row' \in Row
      BY <1>0, <2>5 DEF Release
    <3>3. worker' \in [Workers -> Worker]
      BY <1>0, <2>5, <2>r DEF Release
    <3> QED BY <3>1, <3>2, <3>3
  <2>6. CASE Stop(w)
    <3>1. \A st \in {"heard", "missed"} :
            [worker[w] EXCEPT !.stop = st, !.owned = FALSE] \in Worker
      BY <1>0 DEF Worker
    <3> QED BY <1>0, <2>6, <3>1 DEF Stop
  <2>7. CASE Stops(w) \/ Restart(w)
    <3>1. \A pc \in OutPcs : [worker[w] EXCEPT !.pc = pc] \in Worker
      BY <1>0 DEF Worker
    <3> QED BY <1>0, <2>7, <3>1 DEF Stops, Restart, Goes, OutPcs
  <2>8. CASE Crash(w)
    <3>1. worker' \in [Workers -> Worker]
      BY <1>0, <2>8, <2>r DEF Crash
    <3>2. row' \in Row /\ faults' \in 0..MaxFaults
      BY <1>0, <1>f, <2>8 DEF Crash
    <3> QED BY <3>1, <3>2
  <2> QED BY <1>2, <2>1, <2>2, <2>3, <2>4, <2>5, <2>6, <2>7, <2>8 DEF LeaseStep, Runtime
<1> QED BY <1>1, <1>2 DEF LeaseNext

\* What a status change of one event leaves behind; NoEvent is not in the table.
Settles(e, s) == [out EXCEPT ![e].status = s, ![e].claim = 0, ![e].stale = FALSE]

LEMMA SettlesType ==
  ASSUME out \in [Events -> Event], NEW e, NEW s \in {"pending", "delivered", "dead"}
  PROVE  Settles(e, s) \in [Events -> Event]
<1>1. CASE e \in Events
  <2>1. [out[e] EXCEPT !.status = s, !.claim = 0, !.stale = FALSE] \in Event
    BY <1>1 DEF Event
  <2>2. Settles(e, s) = [out EXCEPT ![e] = [out[e] EXCEPT !.status = s, !.claim = 0, !.stale = FALSE]]
    BY <1>1 DEF Settles
  <2> QED BY <1>1, <2>1, <2>2
<1>2. CASE e \notin Events
  BY <1>2 DEF Settles
<1> QED BY <1>1, <1>2

\* A step of the work leaves the worker at work, and changes neither its fence nor
\* another worker.
LEMMA WorkShape ==
  ASSUME DeliveryTypeOK, NEW w \in Workers, WorkStep(w)
  PROVE  /\ worker' \in [Workers -> Worker]
         /\ worker[w].pc \in WorkPcs /\ worker'[w].pc \in WorkPcs
         /\ worker'[w].fence = worker[w].fence
         /\ \A x \in Workers : x # w => worker'[x] = worker[x]
<1>0. worker \in [Workers -> Worker]
  BY DEF DeliveryTypeOK
<1> DEFINE Shape(r) == r \in Worker /\ r.pc \in WorkPcs /\ r.fence = worker[w].fence
<1>1. SUFFICES \E r : Shape(r) /\ worker' = [worker EXCEPT ![w] = r]
  <2>1. worker[w].pc \in WorkPcs
    BY DEF WorkStep, Claim, NextEvent, Dispatch, AfterDispatch, Mark, AfterMark, Reschedule, WorkPcs
  <2> QED BY <1>0, <2>1
<1>2. ASSUME NEW pc \in WorkPcs, worker' = [worker EXCEPT ![w].pc = pc]
      PROVE  \E r : Shape(r) /\ worker' = [worker EXCEPT ![w] = r]
  <2> DEFINE r == [worker[w] EXCEPT !.pc = pc]
  <2>1. Shape(r) BY <1>0 DEF Worker
  <2>2. worker' = [worker EXCEPT ![w] = r] BY <1>0, <1>2
  <2> HIDE DEF r, Shape
  <2> QED BY <2>1, <2>2
<1>3. CASE Claim(w)
  <2>1. PICK batch \in SUBSET Events :
          \/ worker' = [worker EXCEPT ![w].pc = "next", ![w].batch = batch]
          \/ worker' = [worker EXCEPT ![w].pc = "release"]
    BY <1>3 DEF Claim, Claimable
  <2> DEFINE r == [worker[w] EXCEPT !.pc = "next", !.batch = batch]
  <2>2. Shape(r) BY <1>0 DEF Worker, WorkPcs
  <2>3. CASE worker' = [worker EXCEPT ![w].pc = "next", ![w].batch = batch]
    <3>1. worker' = [worker EXCEPT ![w] = r] BY <1>0, <2>3
    <3> HIDE DEF r, Shape
    <3> QED BY <2>2, <3>1
  <2>4. "release" \in WorkPcs BY DEF WorkPcs
  <2> HIDE DEF Shape
  <2> QED BY <1>2, <2>1, <2>3, <2>4
<1>4. CASE NextEvent(w)
  <2>1. \/ worker' = [worker EXCEPT ![w].pc = "release"]
        \/ worker' = [worker EXCEPT ![w].pc = "claim"]
        \/ \E e \in worker[w].batch :
             worker' = [worker EXCEPT ![w].pc = "dispatch", ![w].ev = e, ![w].batch = @ \ {e}]
    BY <1>4 DEF NextEvent, Goes
  <2>2. ASSUME NEW e \in worker[w].batch,
               worker' = [worker EXCEPT ![w].pc = "dispatch", ![w].ev = e, ![w].batch = @ \ {e}]
        PROVE  \E r : Shape(r) /\ worker' = [worker EXCEPT ![w] = r]
    <3> DEFINE r == [worker[w] EXCEPT !.pc = "dispatch", !.ev = e, !.batch = @ \ {e}]
    <3>1. worker[w].batch \subseteq Events BY <1>0 DEF Worker
    <3>2. Shape(r) BY <1>0, <3>1 DEF Worker, WorkPcs
    <3>3. worker' = [worker EXCEPT ![w] = r] BY <1>0, <2>2
    <3> HIDE DEF r, Shape
    <3> QED BY <3>2, <3>3
  <2>3. {"release", "claim"} \subseteq WorkPcs BY DEF WorkPcs
  <2> HIDE DEF Shape
  <2> QED BY <1>2, <2>1, <2>2, <2>3
<1>5. CASE Dispatch(w) \/ Mark(w)
  <2>1. PICK pc \in {"sent", "marked"}, ok \in BOOLEAN :
          worker' = [worker EXCEPT ![w].pc = pc, ![w].ok = ok]
    BY <1>5 DEF Dispatch, Mark
  <2> DEFINE r == [worker[w] EXCEPT !.pc = pc, !.ok = ok]
  <2>2. Shape(r) BY <1>0 DEF Worker, WorkPcs
  <2>3. worker' = [worker EXCEPT ![w] = r] BY <1>0, <2>1
  <2> HIDE DEF r, Shape
  <2> QED BY <2>2, <2>3
<1>6. CASE AfterDispatch(w) \/ AfterMark(w) \/ Reschedule(w)
  <2>1. \E pc \in WorkPcs : worker' = [worker EXCEPT ![w].pc = pc]
    BY <1>6 DEF AfterDispatch, AfterMark, Reschedule, Goes, WorkPcs
  <2> HIDE DEF Shape
  <2> QED BY <1>2, <2>1
<1> HIDE DEF Shape
<1> QED BY <1>3, <1>4, <1>5, <1>6 DEF WorkStep

LEMMA WorkTypes ==
  ASSUME DeliveryTypeOK, NEW w \in Workers, WorkStep(w)
  PROVE  DeliveryTypeOK'
<1>0. /\ worker \in [Workers -> Worker] /\ faults \in 0..MaxFaults
      /\ out \in [Events -> Event] /\ announced \in [Events -> Nat]
  BY DEF DeliveryTypeOK
<1>1. row' = row
  BY DEF WorkStep, Claim, NextEvent, Dispatch, AfterDispatch, Mark, AfterMark, Reschedule
<1>2. faults' \in 0..MaxFaults
  <2>1. \/ \E o \in Outcomes : Suffers(o)
        \/ UNCHANGED faults
    BY DEF WorkStep, Claim, NextEvent, Dispatch, AfterDispatch, Mark, AfterMark, Reschedule
  <2> QED BY <1>0, <2>1, LeaseAssumption DEF Suffers, Fault
<1>3. announced' \in [Events -> Nat]
  <2>1. CASE Dispatch(w)
    <3>1. \/ announced' = [announced EXCEPT ![worker[w].ev] = @ + 1]
          \/ announced' = [announced EXCEPT ![worker[w].ev] = @]
      BY <2>1 DEF Dispatch
    <3> QED BY <1>0, <3>1
  <2>2. CASE ~Dispatch(w)
    BY <1>0, <2>2 DEF WorkStep, Claim, NextEvent, AfterDispatch, Mark, AfterMark, Reschedule
  <2> QED BY <2>1, <2>2
<1>4. out' \in [Events -> Event]
  <2>1. CASE Claim(w)
    <3>1. worker[w].fence \in Nat
      BY <1>0 DEF Worker
    <3>2. \A e \in Events :
            [status |-> "processing", attempts |-> out[e].attempts + 1,
             claim |-> worker[w].fence, due |-> FALSE, stale |-> FALSE] \in Event
      BY <1>0, <3>1 DEF Event
    <3> QED BY <1>0, <2>1, <3>2 DEF Claim
  <2>2. CASE Mark(w)
    <3>1. out' = out \/ out' = Settles(worker[w].ev, "delivered")
      BY <2>2 DEF Mark, Settles
    <3> QED BY <1>0, <3>1, SettlesType
  <2>3. CASE Reschedule(w)
    <3>1. out' = out \/ out' = Settles(worker[w].ev, StatusAfter(worker[w].ev))
      BY <2>3 DEF Reschedule, Settles
    <3>2. StatusAfter(worker[w].ev) \in {"pending", "dead"}
      BY DEF StatusAfter
    <3> QED BY <1>0, <3>1, <3>2, SettlesType
  <2>4. CASE NextEvent(w) \/ Dispatch(w) \/ AfterDispatch(w) \/ AfterMark(w)
    BY <1>0, <2>4 DEF NextEvent, Dispatch, AfterDispatch, AfterMark
  <2> QED BY <2>1, <2>2, <2>3, <2>4 DEF WorkStep
<1>5. worker' \in [Workers -> Worker]
  BY WorkShape
<1> QED BY <1>1, <1>2, <1>3, <1>4, <1>5 DEF DeliveryTypeOK

LEMMA EventTypes ==
  ASSUME DeliveryTypeOK, NEW e \in Events, Enqueue(e) \/ Due(e) \/ Stale(e)
  PROVE  DeliveryTypeOK'
<1>1. out' \in [Events -> Event]
  <2>1. /\ [out[e] EXCEPT !.status = "pending", !.due = TRUE] \in Event
        /\ [out[e] EXCEPT !.due = TRUE] \in Event
        /\ [out[e] EXCEPT !.stale = TRUE] \in Event
    BY DEF DeliveryTypeOK, Event
  <2> QED BY <2>1 DEF DeliveryTypeOK, Enqueue, Due, Stale
<1>2. UNCHANGED <<leaseVars, announced>>
  BY DEF Enqueue, Due, Stale
<1> QED BY <1>1, <1>2 DEF leaseVars, DeliveryTypeOK

LEMMA TypeStep == DeliveryTypeOK /\ [DeliveryNext]_deliveryVars => DeliveryTypeOK'
<1> SUFFICES ASSUME DeliveryTypeOK, [DeliveryNext]_deliveryVars PROVE DeliveryTypeOK'
  OBVIOUS
<1>1. CASE UNCHANGED deliveryVars
  BY <1>1 DEF deliveryVars, leaseVars, DeliveryTypeOK
<1> QED BY <1>1, LeaseTypes, WorkTypes, EventTypes DEF DeliveryNext

\* Lease, workers and outbox keep to the records of the code, for any number of
\* workers, events, faults and attempts.
THEOREM DeliveryTypes == DeliverySpec => []DeliveryTypeOK
BY TypeInit, TypeStep, PTL DEF DeliverySpec

-----------------------------------------------------------------------------
(* What a step does to the outbox. *)

\* An event changes hands only while it is unsettled; it is settled by the worker
\* that marks it, or by one that finds its attempts used.
LEMMA OutboxStep ==
  ASSUME DeliveryTypeOK, [DeliveryNext]_deliveryVars, NEW e \in Events
  PROVE  /\ Settled(e) => out'[e] = out[e]
         /\ out'[e].status = "delivered" /\ ~Settled(e) =>
              \E w \in Workers : worker[w].pc = "mark" /\ worker[w].ev = e
         /\ out'[e].status = "dead" /\ ~Settled(e) =>
              ~AttemptsLeft(e) /\ out'[e].attempts = out[e].attempts
<1>0. out \in [Events -> Event]
  BY DEF DeliveryTypeOK
<1> DEFINE Goal == /\ Settled(e) => out'[e] = out[e]
                   /\ out'[e].status = "delivered" /\ ~Settled(e) =>
                        \E w \in Workers : worker[w].pc = "mark" /\ worker[w].ev = e
                   /\ out'[e].status = "dead" /\ ~Settled(e) =>
                        ~AttemptsLeft(e) /\ out'[e].attempts = out[e].attempts
<1> SUFFICES Goal
  OBVIOUS
<1>1. CASE out'[e] = out[e]
  BY <1>1 DEF Settled
<1>2. ASSUME NEW w \in Workers, Claim(w) PROVE Goal
  <2>1. CASE e \in Claimable
    <3>1. out'[e] = out[e] \/ out'[e].status = "processing"
      BY <1>0, <1>2 DEF Claim
    <3>2. ~Settled(e)
      BY <2>1 DEF Claimable, Settled
    <3> QED BY <3>1, <3>2 DEF Settled
  <2>2. CASE e \notin Claimable
    BY <1>0, <1>1, <1>2, <2>2 DEF Claim
  <2> QED BY <2>1, <2>2
<1>3. ASSUME NEW w \in Workers, Mark(w) PROVE Goal
  <2>1. CASE e = worker[w].ev /\ ClaimedUnderLease(w, e) /\ out' = Settles(e, "delivered")
    <3>1. out'[e] = [out[e] EXCEPT !.status = "delivered", !.claim = 0, !.stale = FALSE]
      BY <1>0, <2>1 DEF Settles
    <3>2. out'[e].status = "delivered"
      BY <1>0, <3>1 DEF Event
    <3>3. worker[w].pc = "mark" /\ worker[w].ev = e /\ ~Settled(e)
      BY <1>3, <2>1 DEF Mark, ClaimedUnderLease, Settled
    <3> QED BY <3>2, <3>3
  <2>2. CASE e # worker[w].ev \/ ~ClaimedUnderLease(w, e) \/ out' = out
    BY <1>0, <1>1, <1>3, <2>2 DEF Mark
  <2> QED BY <1>3, <2>1, <2>2 DEF Mark, Settles
<1>4. ASSUME NEW w \in Workers, Reschedule(w) PROVE Goal
  <2>1. CASE e = worker[w].ev /\ ClaimedUnderLease(w, e) /\ out' = Settles(e, StatusAfter(e))
    <3>1. out'[e] = [out[e] EXCEPT !.status = StatusAfter(e), !.claim = 0, !.stale = FALSE]
      BY <1>0, <2>1 DEF Settles
    <3>2. out'[e].status = StatusAfter(e) /\ out'[e].attempts = out[e].attempts
      BY <1>0, <3>1 DEF Event
    <3>3. ~Settled(e)
      BY <2>1 DEF ClaimedUnderLease, Settled
    <3> QED BY <3>2, <3>3 DEF StatusAfter
  <2>2. CASE e # worker[w].ev \/ ~ClaimedUnderLease(w, e) \/ out' = out
    BY <1>0, <1>1, <1>4, <2>2 DEF Reschedule
  <2> QED BY <1>4, <2>1, <2>2 DEF Reschedule, Settles
<1>5. ASSUME NEW x \in Events, Enqueue(x) \/ Due(x) \/ Stale(x) PROVE Goal
  <2>1. CASE x = e
    <3>1. ~Settled(e)
      BY <1>5, <2>1 DEF Enqueue, Due, Stale, Settled
    <3>2. out'[e].status \in {"pending", "processing"}
      BY <1>0, <1>5, <2>1 DEF Enqueue, Due, Stale, Event
    <3> QED BY <3>1, <3>2
  <2>2. CASE x # e
    BY <1>0, <1>1, <1>5, <2>2 DEF Enqueue, Due, Stale
  <2> QED BY <2>1, <2>2
<1>6. ASSUME NEW w \in Workers, NextEvent(w) \/ Dispatch(w) \/ AfterDispatch(w) \/ AfterMark(w) PROVE Goal
  BY <1>1, <1>6 DEF NextEvent, Dispatch, AfterDispatch, AfterMark
<1>7. CASE UNCHANGED out
  BY <1>1, <1>7
<1> QED BY <1>2, <1>3, <1>4, <1>5, <1>6, <1>7 DEF DeliveryNext, WorkStep, deliveryVars

\* A settled event stays as it is, whoever holds the lease.
THEOREM Settlement == DeliverySpec => SettledForGood
<1>1. DeliveryTypeOK /\ [DeliveryNext]_deliveryVars =>
        [\A e \in Events : Settled(e) => out'[e].status = out[e].status]_deliveryVars
  BY OutboxStep
<1> QED BY <1>1, DeliveryTypes, PTL DEF DeliverySpec, SettledForGood

\* An event is given up only when its attempts are used.
THEOREM Dead == DeliverySpec => []DeadIsSpent
<1>1. DeliveryInit => DeadIsSpent
  BY DEF DeliveryInit, DeadIsSpent, NotSent
<1>2. DeliveryTypeOK /\ DeadIsSpent /\ [DeliveryNext]_deliveryVars => DeadIsSpent'
  <2> SUFFICES ASSUME DeliveryTypeOK, DeadIsSpent, [DeliveryNext]_deliveryVars,
                      NEW e \in Events, out'[e].status = "dead"
               PROVE  out'[e].attempts >= MaxAttempts
    BY DEF DeadIsSpent
  <2>1. out[e].attempts \in Nat
    BY DEF DeliveryTypeOK, Event
  <2>2. CASE Settled(e)
    BY <2>2, OutboxStep DEF DeadIsSpent
  <2>3. CASE ~Settled(e)
    BY <2>1, <2>3, OutboxStep, DeliveryAssumption DEF AttemptsLeft
  <2> QED BY <2>2, <2>3
<1> QED BY <1>1, <1>2, DeliveryTypes, PTL DEF DeliverySpec

-----------------------------------------------------------------------------
(* Fences. *)

\* A worker that took the lease and did not give it up: its fence is of the past,
\* or that of the lease, and nobody else's.
Fenced(w) == InLease(w) \/ worker[w].pc = "acquired"
FInv ==
  \A w \in Workers : Fenced(w) =>
     /\ worker[w].fence <= row.fence
     /\ \A x \in Workers : x # w /\ Fenced(x) => worker[x].fence # worker[w].fence

\* Steps that take no lease keep the fences apart.
LEMMA FencesKept ==
  ASSUME DeliveryTypeOK, FInv, row'.fence = row.fence,
         \A w \in Workers : Fenced(w)' => Fenced(w) /\ worker'[w].fence = worker[w].fence
  PROVE  FInv'
BY DEF FInv

LEMMA FencesStep == DeliveryTypeOK /\ FInv /\ [DeliveryNext]_deliveryVars => FInv'
<1> SUFFICES ASSUME DeliveryTypeOK, FInv, [DeliveryNext]_deliveryVars PROVE FInv'
  OBVIOUS
<1> DEFINE Kept == /\ row'.fence = row.fence
                   /\ \A w \in Workers :
                        Fenced(w)' => Fenced(w) /\ worker'[w].fence = worker[w].fence
<1>0. row \in [owner : Workers \cup {NoWorker}, fence : Nat, live : BOOLEAN]
      /\ worker \in [Workers -> Worker]
  BY DEF DeliveryTypeOK
<1>1. ASSUME Kept PROVE FInv'
  BY <1>1, FencesKept
<1>2. CASE UNCHANGED <<row, worker>>
  BY <1>1, <1>2 DEF Fenced, InLease
<1>3. CASE LeaseExpires
  BY <1>0, <1>1, <1>3 DEF LeaseExpires, Fenced, InLease
<1>4. ASSUME NEW w \in Workers, WorkStep(w) PROVE FInv'
  <2>1. row' = row
    BY <1>4 DEF WorkStep, Claim, NextEvent, Dispatch, AfterDispatch, Mark, AfterMark, Reschedule
  <2>2. /\ worker[w].pc \in WorkPcs /\ worker'[w].fence = worker[w].fence
        /\ \A x \in Workers : x # w => worker'[x] = worker[x]
    BY <1>4, WorkShape
  <2> QED BY <1>1, <2>1, <2>2 DEF Fenced, InLease
<1>5. ASSUME NEW w \in Workers, LeaseStep(w), ~Acquire(w) PROVE FInv'
  <2>1. row'.fence = row.fence
    BY <1>0, <1>5 DEF LeaseStep, Runtime, Wake, HoldLease, Release, Stops, Restart, RenewalFails,
       Stop, Crash
  <2>2. \A x \in Workers : x # w => worker'[x] = worker[x]
    BY <1>0, <1>5 DEF LeaseStep, Runtime, Wake, HoldLease, Release, Stops, Restart, RenewalFails,
       Stop, Crash, Goes
  <2>3. Fenced(w)' => Fenced(w) /\ worker'[w].fence = worker[w].fence
    <3>1. CASE Release(w) \/ Crash(w)
      <4>1. worker'[w].pc \in {"asleep", "stopped", "dead"}
        BY <1>0, <3>1, RestsType DEF Release, Crash
      <4> QED BY <4>1 DEF Fenced, InLease, WorkPcs
    <3>2. CASE Wake(w) \/ Stops(w) \/ Restart(w)
      BY <1>0, <3>2 DEF Wake, Stops, Restart, Goes, Fenced, InLease, WorkPcs, Worker
    <3>3. CASE HoldLease(w)
      BY <1>0, <3>3 DEF HoldLease, Fenced, InLease, WorkPcs, Worker
    <3>4. CASE RenewalFails(w)
      BY <1>0, <3>4 DEF RenewalFails, Fenced, InLease, Worker
    <3>5. CASE Stop(w)
      BY <1>0, <3>5 DEF Stop, Fenced, InLease, Worker
    <3> QED BY <1>5, <3>1, <3>2, <3>3, <3>4, <3>5 DEF LeaseStep, Runtime
  <2> QED BY <1>1, <2>1, <2>2, <2>3 DEF Fenced, InLease
<1>6. ASSUME NEW w \in Workers, Acquire(w) PROVE FInv'
  <2>1. \A x \in Workers : x # w => worker'[x] = worker[x]
    BY <1>0, <1>6 DEF Acquire
  <2>2. row'.fence \in {row.fence, row.fence + 1}
    BY <1>0, <1>6 DEF Acquire
  <2>3. CASE worker' = [worker EXCEPT ![w] = Rests(w)]
    <3>1. ~Fenced(w)'
      BY <1>0, <2>3, RestsType DEF Fenced, InLease, WorkPcs
    <3> QED BY <1>0, <2>1, <2>2, <3>1 DEF FInv, Fenced, InLease, Worker
  <2>4. CASE worker' # [worker EXCEPT ![w] = Rests(w)]
    <3>1. /\ row'.fence = row.fence + 1
          /\ worker' = [worker EXCEPT ![w].pc = "acquired", ![w].fence = row.fence + 1]
      BY <1>0, <1>6, <2>4 DEF Acquire
    <3>2. worker'[w].fence = row.fence + 1
      BY <1>0, <3>1 DEF Worker
    <3>3. \A x \in Workers : worker[x].fence \in Nat
      BY <1>0 DEF Worker
    <3> QED BY <1>0, <2>1, <3>1, <3>2, <3>3 DEF FInv, Fenced, InLease
  <2> QED BY <2>3, <2>4
<1> QED BY <1>2, <1>3, <1>4, <1>5, <1>6 DEF DeliveryNext, LeaseNext, deliveryVars, leaseVars,
       Enqueue, Due, Stale

\* No two workers ever work under one fence.
THEOREM Fences == DeliverySpec => []FencesDiffer
<1>1. DeliveryInit => FInv
  BY DEF DeliveryInit, LeaseInit, Asleep, FInv, Fenced, InLease, WorkPcs
<1>2. FInv => FencesDiffer
  BY DEF FInv, FencesDiffer, Fenced
<1> QED BY <1>1, <1>2, FencesStep, DeliveryTypes, PTL DEF DeliverySpec

-----------------------------------------------------------------------------
(* Marks and announcements. *)

\* The event in a worker's hands is one of the table; if its dispatch succeeded it
\* was announced.
InHand(w) == worker[w].pc \in {"dispatch", "sent", "mark"}
Sent(w) == (worker[w].pc = "sent" /\ worker[w].ok) \/ worker[w].pc = "mark"
HandInv(w) == /\ InHand(w) => worker[w].ev \in Events
              /\ Sent(w) => announced[worker[w].ev] > 0
AInv == \A w \in Workers : HandInv(w)

\* Announcements are never taken back.
LEMMA AnnouncedGrows ==
  ASSUME DeliveryTypeOK, [DeliveryNext]_deliveryVars, NEW e \in Events, announced[e] > 0
  PROVE  announced'[e] > 0
<1>0. announced \in [Events -> Nat]
  BY DEF DeliveryTypeOK
<1>1. ASSUME NEW w \in Workers, Dispatch(w) PROVE announced'[e] > 0
  <2>1. \/ announced' = [announced EXCEPT ![worker[w].ev] = @ + 1]
        \/ announced' = [announced EXCEPT ![worker[w].ev] = @]
    BY <1>1 DEF Dispatch
  <2> QED BY <1>0, <2>1
<1>2. CASE announced' = announced
  BY <1>2
<1> QED BY <1>1, <1>2 DEF DeliveryNext, WorkStep, Claim, NextEvent, AfterDispatch, Mark, AfterMark,
       Reschedule, Enqueue, Due, Stale, deliveryVars

\* A worker that keeps its event in hand, or lets go of it.
LEMMA HandKept ==
  ASSUME DeliveryTypeOK, [DeliveryNext]_deliveryVars, NEW w \in Workers, HandInv(w),
         InHand(w)' => /\ worker'[w].pc = worker[w].pc /\ worker'[w].ev = worker[w].ev
                       /\ worker'[w].ok = worker[w].ok
  PROVE  HandInv(w)'
<1>1. CASE ~InHand(w)'
  BY <1>1 DEF HandInv, InHand, Sent
<1>2. CASE InHand(w)'
  <2>1. InHand(w) /\ worker'[w].ev = worker[w].ev /\ (Sent(w)' => Sent(w))
    BY <1>2 DEF InHand, Sent
  <2>2. worker[w].ev \in Events
    BY <2>1 DEF HandInv
  <2> QED BY <2>1, <2>2, AnnouncedGrows DEF HandInv
<1> QED BY <1>1, <1>2

LEMMA HandStep == DeliveryTypeOK /\ AInv /\ [DeliveryNext]_deliveryVars => AInv'
<1> SUFFICES ASSUME DeliveryTypeOK, AInv, [DeliveryNext]_deliveryVars, NEW x \in Workers
             PROVE  HandInv(x)'
  BY DEF AInv
<1>0. /\ HandInv(x) /\ worker \in [Workers -> Worker] /\ announced \in [Events -> Nat]
  BY DEF AInv, DeliveryTypeOK
<1> DEFINE Kept == InHand(x)' => /\ worker'[x].pc = worker[x].pc /\ worker'[x].ev = worker[x].ev
                                 /\ worker'[x].ok = worker[x].ok
<1>1. ASSUME Kept PROVE HandInv(x)'
  BY <1>0, <1>1, HandKept
<1>2. CASE worker' = worker
  BY <1>1, <1>2
<1>3. ASSUME NEW w \in Workers, LeaseStep(w) PROVE HandInv(x)'
  <2>1. CASE x # w
    BY <1>0, <1>1, <1>3, <2>1 DEF LeaseStep, Runtime, Wake, Acquire, HoldLease, Release, Stops,
       Restart, RenewalFails, Stop, Crash, Goes
  <2>2. CASE x = w /\ (Release(w) \/ Crash(w))
    <3>1. worker'[x].pc \in {"asleep", "stopped", "dead"}
      BY <1>0, <2>2, RestsType DEF Release, Crash
    <3> QED BY <1>1, <3>1 DEF InHand
  <2>3. CASE x = w /\ Acquire(w)
    <3>1. \/ worker' = [worker EXCEPT ![w] = Rests(w)]
          \/ worker' = [worker EXCEPT ![w].pc = "acquired", ![w].fence = row.fence + 1]
      BY <2>3 DEF Acquire
    <3>2. worker'[x].pc \in {"asleep", "stopped", "acquired"}
      BY <1>0, <2>3, <3>1, RestsType DEF Worker
    <3> QED BY <1>1, <3>2 DEF InHand
  <2>4. CASE x = w /\ (Wake(w) \/ Stops(w) \/ Restart(w))
    BY <1>0, <1>1, <2>4 DEF Wake, Stops, Restart, Goes, InHand, Worker
  <2>5. CASE x = w /\ HoldLease(w)
    BY <1>0, <1>1, <2>5 DEF HoldLease, InHand, Worker
  <2>6. CASE x = w /\ RenewalFails(w)
    BY <1>0, <1>1, <2>6 DEF RenewalFails, Worker
  <2>7. CASE x = w /\ Stop(w)
    BY <1>0, <1>1, <2>7 DEF Stop, Worker
  <2> QED BY <1>3, <2>1, <2>2, <2>3, <2>4, <2>5, <2>6, <2>7 DEF LeaseStep, Runtime
<1>4. ASSUME NEW w \in Workers, WorkStep(w) PROVE HandInv(x)'
  <2>1. CASE x # w
    BY <1>1, <1>4, <2>1, WorkShape
  <2>2. CASE x = w /\ Claim(w)
    <3>1. \/ \E batch : worker' = [worker EXCEPT ![w].pc = "next", ![w].batch = batch]
          \/ worker' = [worker EXCEPT ![w].pc = "release"]
      BY <2>2 DEF Claim
    <3>2. worker'[x].pc \in {"next", "release"}
      BY <1>0, <2>2, <3>1 DEF Worker
    <3> QED BY <1>1, <3>2 DEF InHand
  <2>3. CASE x = w /\ NextEvent(w)
    <3>1. \/ worker' = [worker EXCEPT ![w].pc = "release"]
          \/ worker' = [worker EXCEPT ![w].pc = "claim"]
          \/ \E e \in worker[w].batch :
               worker' = [worker EXCEPT ![w].pc = "dispatch", ![w].ev = e, ![w].batch = @ \ {e}]
      BY <2>3 DEF NextEvent, Goes
    <3>2. worker[w].batch \subseteq Events
      BY <1>0 DEF Worker
    <3>3. \/ worker'[x].pc \in {"release", "claim"}
          \/ worker'[x].pc = "dispatch" /\ worker'[x].ev \in Events
      <4>1. CASE worker' = [worker EXCEPT ![w].pc = "release"]
                  \/ worker' = [worker EXCEPT ![w].pc = "claim"]
        BY <1>0, <2>3, <4>1 DEF Worker
      <4>2. ASSUME NEW e \in worker[w].batch,
                   worker' = [worker EXCEPT ![w].pc = "dispatch", ![w].ev = e, ![w].batch = @ \ {e}]
            PROVE  worker'[x].pc = "dispatch" /\ worker'[x].ev \in Events
        BY <1>0, <2>3, <3>2, <4>2 DEF Worker
      <4> QED BY <3>1, <4>1, <4>2
    <3> QED BY <3>3 DEF HandInv, InHand, Sent
  <2>4. CASE x = w /\ Dispatch(w)
    <3>1. worker[x].ev \in Events
      BY <1>0, <2>4 DEF Dispatch, HandInv, InHand
    <3>2. PICK ok \in BOOLEAN : /\ worker' = [worker EXCEPT ![w].pc = "sent", ![w].ok = ok]
                                /\ ok => announced' = [announced EXCEPT ![worker[w].ev] = @ + 1]
      BY <2>4 DEF Dispatch
    <3>3. worker'[x].pc = "sent" /\ worker'[x].ev = worker[x].ev /\ worker'[x].ok = ok
      BY <1>0, <2>4, <3>2 DEF Worker
    <3>4. ok => announced'[worker[x].ev] > 0
      BY <1>0, <2>4, <3>1, <3>2
    <3> QED BY <3>1, <3>3, <3>4 DEF HandInv, InHand, Sent
  <2>5. CASE x = w /\ AfterDispatch(w)
    <3>1. /\ worker[x].pc = "sent" /\ announced' = announced
          /\ \/ worker' = [worker EXCEPT ![w].pc = "mark"] /\ worker[w].ok
             \/ worker' = [worker EXCEPT ![w].pc = "release"]
             \/ worker' = [worker EXCEPT ![w].pc = "reschedule"]
      BY <2>5 DEF AfterDispatch, Goes
    <3>2. \/ worker'[x].pc = "mark" /\ worker'[x].ev = worker[x].ev /\ worker[x].ok
          \/ worker'[x].pc \in {"release", "reschedule"}
      BY <1>0, <2>5, <3>1 DEF Worker
    <3> QED BY <1>0, <3>1, <3>2 DEF HandInv, InHand, Sent
  <2>6. CASE x = w /\ (Mark(w) \/ AfterMark(w) \/ Reschedule(w))
    <3>1. \/ \E ok : worker' = [worker EXCEPT ![w].pc = "marked", ![w].ok = ok]
          \/ \E pc \in {"next", "reschedule", "release"} : worker' = [worker EXCEPT ![w].pc = pc]
      BY <2>6 DEF Mark, AfterMark, Reschedule, Goes
    <3>2. worker'[x].pc \in {"marked", "next", "reschedule", "release"}
      BY <1>0, <2>6, <3>1 DEF Worker
    <3> QED BY <1>1, <3>2 DEF InHand
  <2> QED BY <1>4, <2>1, <2>2, <2>3, <2>4, <2>5, <2>6 DEF WorkStep
<1> QED BY <1>2, <1>3, <1>4 DEF DeliveryNext, LeaseNext, LeaseExpires, deliveryVars, leaseVars,
       Enqueue, Due, Stale

\* An event is marked delivered only after it was announced.
THEOREM Announced == DeliverySpec => []DeliveredWasAnnounced
<1>1. DeliveryInit => AInv /\ DeliveredWasAnnounced
  BY DEF DeliveryInit, LeaseInit, Asleep, NotSent, AInv, HandInv, InHand, Sent, DeliveredWasAnnounced
<1>2. DeliveryTypeOK /\ AInv /\ DeliveredWasAnnounced /\ [DeliveryNext]_deliveryVars
        => DeliveredWasAnnounced'
  <2> SUFFICES ASSUME DeliveryTypeOK, AInv, DeliveredWasAnnounced, [DeliveryNext]_deliveryVars,
                      NEW e \in Events, out'[e].status = "delivered"
               PROVE  announced'[e] > 0
    BY DEF DeliveredWasAnnounced
  <2>1. CASE Settled(e)
    BY <2>1, OutboxStep, AnnouncedGrows DEF DeliveredWasAnnounced
  <2>2. CASE ~Settled(e)
    <3>1. PICK w \in Workers : worker[w].pc = "mark" /\ worker[w].ev = e
      BY <2>2, OutboxStep
    <3> QED BY <3>1, AnnouncedGrows DEF AInv, HandInv, Sent
  <2> QED BY <2>1, <2>2
<1> QED BY <1>1, <1>2, HandStep, DeliveryTypes, PTL DEF DeliverySpec
=============================================================================
