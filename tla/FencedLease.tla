------------------------------ MODULE FencedLease ------------------------------
(*****************************************************************************)
(* The lease that lets one worker process at a time deliver messages         *)
(* (platform/lease-runtime.ts over acquireLease, renewLease and releaseLease *)
(* of message-outbox.repository.ts).                                         *)
(*                                                                           *)
(* Taking the lease moves its fence.  A worker learns from a renewal that it *)
(* has lost the lease, some time after it has; until then it works on.       *)
(* Time is not modelled: the lease of a worker that renews may expire at any *)
(* moment at the cost of a fault, any other expires by itself.               *)
(*****************************************************************************)
EXTENDS Integers, FiniteSets

CONSTANTS
  Workers, Events,
  NoWorker,         \* owner of a lease nobody has, or a process that is gone
  NoEvent,
  MaxFaults         \* bound: calls that fail, leases that expire early, crashes, breaks

ASSUME LeaseAssumption == NoWorker \notin Workers /\ NoEvent \notin Events /\ MaxFaults \in Nat

VARIABLES
  row,      \* the row of the lease: owner, fence, not expired
  worker,   \* the worker processes
  faults    \* faults so far

leaseVars == <<row, worker, faults>>

\* Before the lease, in it, and after the end of the process.
OutPcs == {"asleep", "acquire", "acquired", "dead", "stopped"}
WorkPcs == {"claim", "next", "dispatch", "sent", "mark", "marked", "reschedule", "release"}

\* owned: isOwned of the fence guard.  stop: whether the process was told to
\* stop, and the lease runtime passed it on.  batch, ev, ok: the claimed events to
\* come, the one in hand, and whether the last call for it succeeded.
Asleep == [pc |-> "asleep", fence |-> 0, owned |-> FALSE, stop |-> "no",
           batch |-> {}, ev |-> NoEvent, ok |-> FALSE]
Worker == [pc : OutPcs \cup WorkPcs, fence : Nat, owned : BOOLEAN,
           stop : {"no", "heard", "missed"}, batch : SUBSET Events,
           ev : Events \cup {NoEvent}, ok : BOOLEAN]

LeaseInit ==
  /\ row = [owner |-> NoWorker, fence |-> 0, live |-> FALSE]
  /\ worker = [w \in Workers |-> Asleep]
  /\ faults = 0

Fault == faults < MaxFaults /\ faults' = faults + 1

\* A statement is executed and answered, executed without an answer, or neither.
Outcomes == {"done", "unanswered", "failed"}
Suffers(o) == IF o = "done" THEN UNCHANGED faults ELSE Fault

\* The lease row is that of w, at its fence, and has not expired.
Holds(w) == row.owner = w /\ row.fence = worker[w].fence /\ row.live
InLease(w) == worker[w].pc \in WorkPcs
Goes(w, pc) == worker' = [worker EXCEPT ![w].pc = pc]

\* The end of a round: the loop sleeps before the next, unless it was told to stop.
Rests(w) == [Asleep EXCEPT !.pc = IF worker[w].stop = "no" THEN "asleep" ELSE "stopped",
                           !.stop = worker[w].stop]

Wake(w) ==
  /\ worker[w].pc = "asleep" /\ worker[w].stop = "no"
  /\ Goes(w, "acquire") /\ UNCHANGED <<row, faults>>

\* Faulty: a takeover leaves the fence as it was.
Acquire_SameFence(w) ==
  /\ worker[w].pc = "acquire"
  /\ IF ~row.live \/ row.owner = w
     THEN /\ row' = [owner |-> w, fence |-> 1, live |-> TRUE]
          /\ worker' = [worker EXCEPT ![w].pc = "acquired", ![w].fence = 1]
     ELSE worker' = [worker EXCEPT ![w] = Rests(w)] /\ UNCHANGED row
  /\ UNCHANGED faults

\* acquireLease: taken when free or expired, or by its owner once more.
Acquire(w) ==
  LET free == ~row.live \/ row.owner = w
      taken == [owner |-> w, fence |-> row.fence + 1, live |-> TRUE]
  IN /\ worker[w].pc = "acquire"
     /\ \E o \in Outcomes :
          /\ Suffers(o)
          /\ row' = IF free /\ o # "failed" THEN taken ELSE row
          /\ worker' = IF free /\ o = "done"
                       THEN [worker EXCEPT ![w].pc = "acquired", ![w].fence = row.fence + 1]
                       ELSE [worker EXCEPT ![w] = Rests(w)]

\* holdLease: the answer has come.  A stop that was requested meanwhile has
\* aborted the signal before forwardStop listens to it.
HoldLease(w) ==
  /\ worker[w].pc = "acquired"
  /\ worker' = [worker EXCEPT ![w].pc = "claim", ![w].owned = TRUE]
  /\ UNCHANGED <<row, faults>>

\* A renewal finds the lease gone, or fails; one that succeeds changes nothing
\* here.  The work is aborted.
RenewalFails(w) ==
  /\ InLease(w) /\ worker[w].pc # "release" /\ worker[w].owned
  /\ \/ ~Holds(w) /\ UNCHANGED faults
     \/ Fault
  /\ worker' = [worker EXCEPT ![w].owned = FALSE]
  /\ UNCHANGED row

\* The end of holdLease, and of the round.
Release(w) ==
  /\ worker[w].pc = "release"
  /\ \E o \in Outcomes :
       /\ Suffers(o)
       /\ row' = IF o # "failed" /\ row.owner = w /\ row.fence = worker[w].fence
                 THEN [row EXCEPT !.live = FALSE] ELSE row
  /\ worker' = [worker EXCEPT ![w] = Rests(w)]

\* Nobody renews the lease any more, or its worker is late to.
Renews(w) == Holds(w) /\ (worker[w].owned \/ worker[w].pc = "acquired")
LeaseExpires ==
  /\ row.live
  /\ \/ (\A w \in Workers : ~Renews(w)) /\ UNCHANGED faults
     \/ Fault
  /\ row' = [row EXCEPT !.live = FALSE]
  /\ UNCHANGED worker

\* Faulty: the work in hand is not aborted.
Stop_WorksOn(w) ==
  /\ worker[w].stop = "no" /\ worker[w].pc \notin {"dead", "stopped"}
  /\ worker' = [worker EXCEPT ![w].stop = "heard"]
  /\ UNCHANGED <<row, faults>>

\* stop: the signal is aborted and an active guard marked lost.  It is missed
\* while the call that takes the lease is under way.
Stop(w) ==
  LET under == worker[w].pc \in {"acquire", "acquired"} IN
  /\ worker[w].stop = "no" /\ worker[w].pc \notin {"dead", "stopped"}
  /\ worker' = [worker EXCEPT ![w].stop = IF under THEN "missed" ELSE "heard",
                              ![w].owned = FALSE]
  /\ UNCHANGED <<row, faults>>

\* A stopped process leaves its sleep.
Stops(w) ==
  /\ worker[w].pc = "asleep" /\ worker[w].stop # "no"
  /\ Goes(w, "stopped") /\ UNCHANGED <<row, faults>>

Crash(w) ==
  /\ worker[w].pc \notin {"dead", "stopped"}
  /\ Fault
  /\ worker' = [worker EXCEPT ![w] = [Rests(w) EXCEPT !.pc = IF @ = "asleep" THEN "dead" ELSE @]]
  /\ row' = IF row.owner = w THEN [row EXCEPT !.owner = NoWorker] ELSE row

\* The container starts again; the new process draws an owner id of its own.
Restart(w) ==
  /\ worker[w].pc = "dead"
  /\ Goes(w, "asleep") /\ UNCHANGED <<row, faults>>

Runtime(w) == Wake(w) \/ Acquire(w) \/ HoldLease(w) \/ Release(w) \/ Stops(w) \/ Restart(w)
LeaseStep(w) == Runtime(w) \/ RenewalFails(w) \/ Stop(w) \/ Crash(w)
LeaseNext == LeaseExpires \/ \E w \in Workers : LeaseStep(w)

-----------------------------------------------------------------------------
(* Properties. *)

\* No two workers ever work under the same fence, one that has not noticed the
\* loss of its lease included: the fence tells whose claim a claim is.
FencesDiffer ==
  \A w, x \in Workers : w # x /\ InLease(w) /\ InLease(x) => worker[w].fence # worker[x].fence

\* A process whose runtime heard that it is to stop comes to an end, whatever it
\* was doing with the lease.
StopEnds == \A w \in Workers : (worker[w].stop = "heard") ~> (worker[w].pc = "stopped")
=============================================================================
