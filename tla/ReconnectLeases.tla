---------------------------- MODULE ReconnectLeases ----------------------------
(****************************************************************************)
(* Reconnect leases (realtime/reconnect-leases.ts).  A voice peer whose     *)
(* socket drops keeps its seat for a short lease; a replacement join claims *)
(* the lease, otherwise it expires and the peer is finalized.  Leaving,     *)
(* moderation, deletion and membership loss end a lease terminally.         *)
(*                                                                          *)
(* The synchronous parts are operators on one record, which the handlers of *)
(* VoiceRuntime combine into one step per stretch of code between awaits.   *)
(* The finalizer is a process of its own: a record whose `fin' is "run"     *)
(* awaits the call named by its `stage'.                                    *)
(****************************************************************************)
EXTENDS VoiceState

\* currentLeasePeer: the roster still holds the transport of the lease.
LeaseKey(n) == joins[TransportOf(n)]
currentLeasePeer(st, n) == st[LeaseKey(n)].t = TransportOf(n)
isCurrent(n) == leaseOf[LeaseKey(n)] = n

-----------------------------------------------------------------------------
(* runLeaseFinalizer. *)

KindOf(o) == op[o].kind
IsEviction(o) == KindOf(o) \in {"kick", "ban", "putban"}

\* Where a callback starts: an eviction awaits its prerequisite (even when it
\* has none), the others their revocation.
FirstStage(o) == IF IsEviction(o) THEN "prereq" ELSE "revoke"

\* The loop over finalizeCallbacks.  A deletion's callback does nothing for a
\* seat that is already released; when none is left the finalizer settles.
Advance(r) ==
  LET left == {i \in r.idx..Len(r.cbs) :
                 ~(KindOf(r.cbs[i]) = "delete" /\ r.owned)}
  IN IF left = {}
     THEN [r EXCEPT !.stage = "settle"]
     ELSE LET i == CHOOSE i \in left : \A j \in left : i <= j
          IN [r EXCEPT !.cb = r.cbs[i], !.idx = i + 1,
                       !.stage = FirstStage(r.cbs[i])]

\* The end of one callback: `released' says the seat is released by now.
Returned(r, released, failure) ==
  Advance([r EXCEPT !.owned = @ \/ released,
                    !.fail = IF @ = "no" THEN failure ELSE @])

\* The start: the owner's seat is ended by the first terminal callback or by
\* the default finalizer, and the remaining callbacks follow.
Begin(st, n, r) ==
  LET r0 == [r EXCEPT !.fin = "run", !.idx = 1, !.owned = FALSE, !.fail = "no"]
  IN IF ~currentLeasePeer(st, n) THEN Advance(r0)
     ELSE IF r.reason # "" /\ r.cbs # <<>>
     THEN [r0 EXCEPT !.cb = Head(r.cbs), !.cbs = Tail(r.cbs),
                     !.stage = FirstStage(Head(r.cbs))]
     ELSE [r0 EXCEPT !.cb = NoOp, !.stage = "revoke"]

\* runLeaseFinalizer: a promise that exists is returned, whatever its state.
Started(st, n, r) == IF r.fin = "none" THEN Begin(st, n, r) ELSE r

Result(r) == IF r.fail = "no" THEN "ok" ELSE "err"

\* The record once its finalizer settled; NoLease when it leaves the map (or
\* had left it before, and nothing can reach it any more).
Settled(st, n, r) ==
  LET done == [r EXCEPT !.fin = Result(r), !.cb = NoOp, !.stage = "",
                        !.idx = 1, !.owned = FALSE, !.fail = "no"]
  IN IF ~isCurrent(n) THEN NoLease
     ELSE IF r.fail = "rollback" /\ ~r.owned
     THEN IF r.disc /\ ~r.due /\ currentLeasePeer(st, n)
          THEN [NoLease EXCEPT !.state = "pending", !.disc = TRUE, !.taken = r.taken]
          ELSE NoLease
     ELSE IF r.fail # "no" /\ ~r.owned
     THEN [done EXCEPT !.state = IF r.reason # "" THEN "terminal-finalizer-failed"
                                                  ELSE "finalizer-failed"]
     ELSE IF r.reason # "" THEN [done EXCEPT !.state = "terminal"]
     ELSE NoLease

\* What a step that left record n as r makes of the records, of the map and of
\* those who wait for the finalizer: a settled one is disposed of here.
Finish(st, n, r) == IF r.stage = "settle" THEN Settled(st, n, r) ELSE r
LeasePut(le, st, n, r) == [le EXCEPT ![n] = Finish(st, n, r)]
MapPut(map, st, n, r) ==
  IF map[LeaseKey(n)] = n /\ Finish(st, n, r) = NoLease
  THEN [map EXCEPT ![LeaseKey(n)] = 0] ELSE map
\* Faulty TaskPut: nobody hears that the finalizer settled.
TaskPut_Unheard(tk, n, r) == tk
TaskPut(tk, n, r) ==
  IF r.stage # "settle" THEN tk
  ELSE [s \in Sockets |-> IF tk[s].wait = n
                          THEN [tk[s] EXCEPT !.wait = 0, !.got = Result(r)]
                          ELSE tk[s]]
OpPut(ops, n, r) ==
  IF r.stage # "settle" THEN ops
  ELSE [o \in Ops |-> IF n \in ops[o].wait
                      THEN [ops[o] EXCEPT !.wait = @ \ {n},
                                          !.err = @ \/ Result(r) = "err"]
                      ELSE ops[o]]

-----------------------------------------------------------------------------
(* Opening, claiming and ending leases. *)

\* createReconnectLease for each taken seat among ks: the record of its
\* transport, or a new one that takes the place of an older transport's.  A
\* record out of the map is gone unless its finalizer or its claimer runs.
createReconnectLease(st, ks) ==
  [n \in LeaseId |->
     IF \E k \in ks : st[k].t = n /\ leaseOf[k] # n
     THEN [NoLease EXCEPT !.state = "pending"]
     ELSE IF /\ \E k \in ks : leaseOf[k] = n /\ st[k].t \notin {0, n}
             /\ lease[n].state # "claimed" /\ lease[n].fin # "run"
     THEN NoLease ELSE lease[n]]
MapOpened(st, ks) ==
  [k \in Keys |-> IF k \in ks /\ st[k].t # 0 THEN st[k].t ELSE leaseOf[k]]

\* recordsForPeer: the record a request to end the seat of k acts on.
RecordFor(st, k) ==
  IF st[k].t # 0 THEN st[k].t
  ELSE IF leaseOf[k] # 0 /\ lease[leaseOf[k]].state # "terminal"
  THEN leaseOf[k] ELSE 0

\* terminalClaimRecord, with the callbacks of the request (none or one).
terminalClaimRecord(r, reason, cbs) ==
  LET adopting == r.state \in FailedStates
  IN [r EXCEPT
        !.reason = IF @ = "" THEN reason ELSE @,
        !.atSeq = IF @ = 0 THEN Len(joins) ELSE @,
        !.cbs = @ \o cbs,
        !.fin = IF adopting THEN "none" ELSE @,
        !.state = IF @ = "finalizing-expiry" THEN @ ELSE "terminal-finalizing"]

\* A terminal claim of the seats ks, every record before the first await.
RecordsOf(st, ks) == {RecordFor(st, k) : k \in ks} \ {0}
TerminalLeases(st, ks, reason, cbs) ==
  LET le == createReconnectLease(st, ks)
  IN [n \in LeaseId |->
        IF n \in RecordsOf(st, ks)
        THEN Started(st, n, terminalClaimRecord(le[n], reason, cbs))
        ELSE le[n]]

\* terminateLease: the end of a lease whose claiming join was refused.
terminateLease(st, n, r) ==
  Started(st, n, terminalClaimRecord(r, "join-rejected", <<>>))

\* Faulty restoreClaimedLease: too late, it does nothing; or it marks the record
\* and starts no finalizer; or it puts the record in a state nothing else knows.
restoreClaimedLease_GivesUp(st, n, r) ==
  IF r.state = "claimed" /\ isCurrent(n) /\ ~r.due /\ currentLeasePeer(st, n)
  THEN [r EXCEPT !.state = "pending"] ELSE r
restoreClaimedLease_NotStarted(st, n, r) ==
  IF r.state # "claimed" THEN r
  ELSE IF isCurrent(n) /\ ~r.due /\ currentLeasePeer(st, n)
  THEN [r EXCEPT !.state = "pending"] ELSE [r EXCEPT !.state = "finalizing-expiry"]
restoreClaimedLease_Unknown(st, n, r) ==
  IF r.state # "claimed" THEN r ELSE [r EXCEPT !.state = "restored"]

\* restoreClaimedLease: back to pending, or finalized if that is too late.
restoreClaimedLease(st, n, r) ==
  IF r.state # "claimed" THEN r
  ELSE IF isCurrent(n) /\ ~r.due /\ currentLeasePeer(st, n)
  THEN [r EXCEPT !.state = "pending"]
  ELSE Started(st, n, [r EXCEPT !.state = "finalizing-expiry"])

\* retryFailedLeaseFinalizer of a record in a failed state.
retryFailedLeaseFinalizer(st, n, r) ==
  Begin(st, n, [r EXCEPT !.state = IF r.reason # "" THEN "terminal-finalizing"
                                                    ELSE "finalizing-expiry"])

-----------------------------------------------------------------------------
(* The finalizer and the timers, one step per awaited call. *)

\* Those who wait for something that is there resume before anything else can
\* happen: promise reactions run before the next event is taken.
PrereqDone(o) == KindOf(o) # "ban" \/ op[o].pre # "none"
Prompt ==
  \/ \E s \in Sockets : task[s].pc \in WaitPcs /\ task[s].wait = 0
  \/ \E o \in Ops : op[o].pc = "wait" /\ op[o].wait = {}
  \/ \E n \in LeaseId : lease[n].stage = "prereq" /\ PrereqDone(lease[n].cb)

\* The record n becomes r over roster st and sockets so.
FinalizerStep(n, r, st, so) ==
  /\ seats' = st /\ sock' = so
  /\ lease' = LeasePut(lease, st, n, r)
  /\ leaseOf' = MapPut(leaseOf, st, n, r)
  /\ task' = TaskPut(task, n, r)
  /\ UNCHANGED <<joins, auth, live, banned>>

\* evictPeer once its credentials are dealt with: the sockets of the peer are
\* detached and its seat closed, unless something released it before.
Evicted(n, r) ==
  FinalizerStep(n, [r EXCEPT !.stage = "identity"],
                IF r.owned THEN seats
                ELSE closePeer(seats, LeaseKey(n), TransportOf(n)),
                detachVoicePeer(sock, {LeaseKey(n)}))

\* finalize of peer-eviction.ts, the prerequisite being there: a ban that was
\* not written rolls the lease back; only a kick still has to revoke.
PrerequisiteDone(n) ==
  LET r == lease[n]  o == r.cb  rolledBack == Returned(r, FALSE, "rollback")
  IN /\ r.stage = "prereq" /\ PrereqDone(o)
     /\ \/ /\ op[o].pre = "failed"
           /\ FinalizerStep(n, rolledBack, seats, sock)
           /\ op' = OpPut(op, n, rolledBack)
        \/ /\ op[o].pre # "failed" /\ KindOf(o) = "kick" /\ ~r.owned
           /\ FinalizerStep(n, [r EXCEPT !.stage = "revoke"], seats, sock)
           /\ UNCHANGED op
        \/ /\ op[o].pre # "failed" /\ (KindOf(o) # "kick" \/ r.owned)
           /\ Evicted(n, r)
           /\ UNCHANGED op
     /\ UNCHANGED <<identity, faults>>

Noted(r, ok) ==
  [r EXCEPT !.fail = IF @ = "no" /\ ~ok THEN "plain" ELSE @]

\* The gate credentials of the peer are revoked, or the call failed.  The
\* default finalizer and a lost membership give up on a failure and keep the
\* seat; an eviction and a deletion go on and close it.  The callbacks of one
\* lost membership share one revocation.
CredentialsRevoked(n) ==
  LET r == lease[n]  c == r.cb
      kept == Returned(r, FALSE, "plain")
      closed == IF r.owned THEN seats
                ELSE closePeer(seats, LeaseKey(n), TransportOf(n))
      shared == c \in Ops /\ KindOf(c) = "member"
  IN /\ ~Prompt /\ r.stage = "revoke"
     /\ \E ok \in BOOLEAN :
          /\ IF shared /\ op[c].rev # "none"
             THEN ok = (op[c].rev = "ok") /\ UNCHANGED faults
             ELSE Answer(ok)
          /\ LET ops == IF shared
                        THEN [op EXCEPT ![c].rev = IF ok THEN "ok" ELSE "failed"]
                        ELSE op
                 next == IF (c = NoOp \/ shared) /\ ~ok THEN kept
                         ELSE IF shared /\ r.owned THEN Returned(r, FALSE, "no")
                         ELSE [Noted(r, ok) EXCEPT !.stage = "participant"]
             IN \/ /\ c \in Ops /\ KindOf(c) = "kick"
                   /\ Evicted(n, Noted(r, ok))
                   /\ UNCHANGED op
                \/ /\ c \in Ops => KindOf(c) # "kick"
                   /\ FinalizerStep(n, next, IF next = kept THEN seats ELSE closed,
                                    sock)
                   /\ op' = OpPut(ops, n, next)
     /\ UNCHANGED identity

\* invalidatePeerIdentity of an eviction.
IdentityInvalidated(n) ==
  LET r == lease[n]  k == LeaseKey(n)
  IN /\ ~Prompt /\ r.stage = "identity"
     /\ \E ok \in BOOLEAN :
          LET next == IF r.owned
                      THEN Returned(r, TRUE, IF ok THEN "no" ELSE "plain")
                      ELSE [Noted(r, ok) EXCEPT !.stage = "participant"]
          IN /\ Answer(ok)
             /\ identity' = [identity EXCEPT
                               ![k] = IF ok /\ @ = "held" THEN "invalidated" ELSE @]
             /\ FinalizerStep(n, next, seats, sock)
             /\ op' = OpPut(op, n, next)

\* removeLiveKitParticipant: past it the seat is released even if it failed,
\* except to the callback of a lost membership.
ParticipantRemoved(n) ==
  LET r == lease[n]
      member == r.cb \in Ops /\ KindOf(r.cb) = "member"
  IN /\ ~Prompt /\ r.stage = "participant"
     /\ \E ok \in BOOLEAN :
          LET next == Returned(r, ok \/ ~member, IF ok THEN "no" ELSE "plain")
          IN /\ Answer(ok)
             /\ FinalizerStep(n, next, seats, sock)
             /\ op' = OpPut(op, n, next)
     /\ UNCHANGED identity

\* scheduleLeaseExpiry: the timer of a pending lease; its deadline is over.
LeaseExpires(n) ==
  LET r == Started(seats, n, [lease[n] EXCEPT !.state = "finalizing-expiry",
                                              !.due = TRUE])
  IN /\ ~Prompt /\ lease[n].state = "pending"
     /\ FinalizerStep(n, r, seats, sock)
     /\ op' = OpPut(op, n, r)
     /\ UNCHANGED <<identity, faults>>

\* The deadline of a lease whose timer is cancelled goes by.
DeadlinePasses(n) ==
  /\ ~Prompt
  /\ lease[n].state \in {"claimed", "terminal-finalizing"}
  /\ lease[n].disc /\ ~lease[n].due
  /\ lease' = [lease EXCEPT ![n].due = TRUE]
  /\ UNCHANGED <<seats, sock, task, joins, auth, leaseOf, op, live, banned,
                 identity, faults>>

\* The retention timer of a terminal lease.
TerminalForgotten(n) ==
  /\ ~Prompt /\ lease[n].state = "terminal"
  /\ lease' = [lease EXCEPT ![n] = NoLease]
  /\ leaseOf' = [leaseOf EXCEPT ![LeaseKey(n)] = 0]
  /\ UNCHANGED <<seats, sock, task, joins, auth, op, live, banned, identity, faults>>

Finalizer(n) ==
  \/ PrerequisiteDone(n) \/ CredentialsRevoked(n) \/ IdentityInvalidated(n)
  \/ ParticipantRemoved(n)
=============================================================================
