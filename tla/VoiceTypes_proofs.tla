--------------------------- MODULE VoiceTypes_proofs ---------------------------
(****************************************************************************)
(* The type invariant of VoiceRuntime, for every value of its constants.    *)
(*                                                                          *)
(* TypeOK is not inductive as it stands.  A ban is written for the account  *)
(* behind op[o].key, so a callback may only be that of a request already    *)
(* made; a join that waits for a lease in a finalizing state takes over the *)
(* answer of its finalizer, so there has to be one; and a command resumes   *)
(* for the seat of its join, so that join has to be known.                  *)
(****************************************************************************)
EXTENDS VoiceRuntime, SequenceTheorems, WellFoundedInduction, TLAPS

\* Requests that have been made, and the lease records that may be around.
Asked == {o \in Ops : op[o].key \in Keys}
Record(os) == {r \in LeaseOver(os) : r.state \in FinalizingStates => r.fin # "none"}


\* Commands and sockets that are about one of the first j joins.
KnownTask(j) == {t \in Task : t.pc # "idle" => t.n \in 1..j}
KnownSocket(j) == {x \in Socket : x.voice \in 0..j}
KnownRequest == {q \in Request : q.pc # "idle" => q.key \in Keys}

RosterInv == /\ seats \in [Keys -> Seat]
             /\ sock \in [Sockets -> KnownSocket(Len(joins))]
LeaseInv == /\ lease \in [LeaseId -> Record(Asked)]
            /\ leaseOf \in [Keys -> 0..MaxJoins]
            /\ op \in [Ops -> KnownRequest]
            /\ task \in [Sockets -> KnownTask(Len(joins))]
JoinsInv == joins \in Seq(Keys) /\ Len(joins) \in 0..MaxJoins
AuthInv == auth \in [Keys -> 0..MaxJoins]
StoreInv == /\ live \subseteq Rooms
            /\ banned \subseteq Rooms \X Users
            /\ identity \in [Keys -> {"free", "held", "invalidated"}]
            /\ faults \in 0..MaxFaults

TInv == RosterInv /\ LeaseInv /\ JoinsInv /\ AuthInv /\ StoreInv

-----------------------------------------------------------------------------
(* Lease records. *)

\* A nonempty set of naturals has a least element: the next callback to run is well defined.
LEMMA LeastExists ==
  ASSUME NEW S, S \subseteq Nat, S # {}
  PROVE  \E i \in S : \A j \in S : i <= j
<1> DEFINE R == {ss \in Nat \X Nat : ss[1] < ss[2]}
<1>1. IsWellFoundedOn(R, Nat)
  BY NatLessThanWellFounded DEF OpToRel
<1>2. PICK x \in S : \A y \in S : ~ (<<y, x>> \in R)
  <2> HIDE DEF R
  <2> QED BY <1>1, WFMin
<1>3. ASSUME NEW y \in S PROVE x <= y
  <2>1. x \in Nat /\ y \in Nat
    OBVIOUS
  <2>2. ~(y < x)
    BY <1>2, <2>1
  <2> QED BY <2>1, <2>2
<1> QED BY <1>3

\* The absent record is a record, whoever the callbacks may be of.
LEMMA NoLeaseType == ASSUME NEW os PROVE NoLease \in Record(os)
<1>1. <<>> \in Seq(os)
  BY EmptySeq
<1>2. 1 \in Nat \ {0} /\ 0 \in 0..MaxJoins /\ "" \in Reasons /\ "" \in Stages
  BY ConstantsAssumption DEF Reasons, Stages
<1>3. NoLease \in LeaseOver(os)
  BY <1>1, <1>2 DEF NoLease, LeaseOver, LeaseStates
<1> QED BY <1>3 DEF NoLease, Record, FinalizingStates

\* A record stays one when more requests have been made.
LEMMA RecordMonotonic ==
  ASSUME NEW os, NEW more, os \subseteq more
  PROVE  Record(os) \subseteq Record(more)
<1>1. Seq(os) \subseteq Seq(more)
  BY SeqMonotonic
<1> QED BY <1>1 DEF Record, LeaseOver

\* Where the loop over the callbacks goes on.
LEMMA AdvanceType ==
  ASSUME NEW os, NEW r \in LeaseOver(os)
  PROVE  /\ Advance(r) \in LeaseOver(os)
         /\ Advance(r).fin = r.fin /\ Advance(r).state = r.state
<1> DEFINE left == {i \in r.idx..Len(r.cbs) : ~(KindOf(r.cbs[i]) = "delete" /\ r.owned)}
           next == CHOOSE i \in left : \A j \in left : i <= j
<1>1. r.idx \in Nat \ {0} /\ r.cbs \in Seq(os) /\ Len(r.cbs) \in Nat
  BY LenProperties DEF LeaseOver
<1>2. CASE left = {}
  BY <1>2 DEF Advance, LeaseOver, Stages
<1>3. CASE left # {}
  <2>1. left \subseteq Nat
    BY <1>1
  <2>2. \E i \in left : \A j \in left : i <= j
    BY <1>3, <2>1, LeastExists
  <2>3. next \in left
    BY <2>2
  <2>4. next \in Nat /\ next \in 1..Len(r.cbs)
    BY <1>1, <2>3
  <2>5. r.cbs[next] \in os
    BY <1>1, <2>4, ElementOfSeq
  <2>6. FirstStage(r.cbs[next]) \in Stages /\ next + 1 \in Nat \ {0}
    BY <2>4 DEF FirstStage, Stages
  <2>7. Advance(r) = [r EXCEPT !.cb = r.cbs[next], !.idx = next + 1,
                               !.stage = FirstStage(r.cbs[next])]
    BY <1>3 DEF Advance
  <2> HIDE DEF left, next
  <2> QED BY <2>5, <2>6, <2>7 DEF LeaseOver
<1> QED BY <1>2, <1>3

\* The end of one callback leaves a record with the same promise and state.
LEMMA ReturnedType ==
  ASSUME NEW os, NEW r \in LeaseOver(os), NEW released \in BOOLEAN,
         NEW failure \in {"no", "plain", "rollback"}
  PROVE  /\ Returned(r, released, failure) \in LeaseOver(os)
         /\ Returned(r, released, failure).fin = r.fin
         /\ Returned(r, released, failure).state = r.state
<1> DEFINE q == [r EXCEPT !.owned = @ \/ released,
                          !.fail = IF @ = "no" THEN failure ELSE @]
<1>1. q \in LeaseOver(os) /\ q.fin = r.fin /\ q.state = r.state
  BY DEF LeaseOver
<1> HIDE DEF q
<1>2. Returned(r, released, failure) = Advance(q)
  BY DEF Returned, q
<1> QED BY <1>1, <1>2, AdvanceType

\* The finalizer starts once and then there is one.
LEMMA BeginType ==
  ASSUME NEW os, NEW r \in LeaseOver(os), NEW st, NEW n
  PROVE  /\ Begin(st, n, r) \in LeaseOver(os)
         /\ Begin(st, n, r).fin = "run" /\ Begin(st, n, r).state = r.state
<1> DEFINE r0 == [r EXCEPT !.fin = "run", !.idx = 1, !.owned = FALSE, !.fail = "no"]
<1>0. 1 \in Nat \ {0}
  OBVIOUS
<1>1. r0 \in LeaseOver(os) /\ r0.fin = "run" /\ r0.state = r.state
  BY <1>0 DEF LeaseOver
<1>2. Advance(r0) \in LeaseOver(os) /\ Advance(r0).fin = "run" /\ Advance(r0).state = r.state
  <2> HIDE DEF r0
  <2> QED BY <1>1, AdvanceType
<1>3. CASE r.cbs # <<>>
  <2>1. Head(r.cbs) \in os /\ Tail(r.cbs) \in Seq(os)
    BY <1>3, HeadTailProperties DEF LeaseOver
  <2>2. FirstStage(Head(r.cbs)) \in Stages /\ "revoke" \in Stages
    BY DEF FirstStage, Stages
  <2> DEFINE a == [r0 EXCEPT !.cb = Head(r.cbs), !.cbs = Tail(r.cbs),
                             !.stage = FirstStage(Head(r.cbs))]
             b == [r0 EXCEPT !.cb = NoOp, !.stage = "revoke"]
  <2>3. a \in LeaseOver(os) /\ a.fin = "run" /\ a.state = r.state
    BY <1>1, <2>1, <2>2 DEF LeaseOver
  <2>4. b \in LeaseOver(os) /\ b.fin = "run" /\ b.state = r.state
    BY <1>1, <2>2 DEF LeaseOver
  <2>5. Begin(st, n, r) \in {Advance(r0), a, b}
    BY DEF Begin
  <2> QED BY <1>2, <2>3, <2>4, <2>5
<1>4. CASE r.cbs = <<>>
  <2> DEFINE b == [r0 EXCEPT !.cb = NoOp, !.stage = "revoke"]
  <2>1. b \in LeaseOver(os) /\ b.fin = "run" /\ b.state = r.state
    BY <1>1 DEF LeaseOver, Stages
  <2>2. Begin(st, n, r) \in {Advance(r0), b}
    BY <1>4 DEF Begin
  <2> QED BY <1>2, <2>1, <2>2
<1> QED BY <1>3, <1>4

\* A record whose finalizer was asked to start has a promise, running or settled.
LEMMA StartedType ==
  ASSUME NEW os, NEW r \in LeaseOver(os), NEW st, NEW n
  PROVE  /\ Started(st, n, r) \in LeaseOver(os)
         /\ Started(st, n, r).fin \in {"run", "ok", "err"}
         /\ Started(st, n, r) \in Record(os)
<1>1. CASE r.fin = "none"
  BY <1>1, BeginType DEF Started, Record
<1>2. CASE r.fin # "none"
  BY <1>2 DEF Started, Record, LeaseOver
<1> QED BY <1>1, <1>2

\* Settling a finalizer leaves a record or none.
LEMMA SettledType ==
  ASSUME NEW os, NEW r \in LeaseOver(os), NEW st, NEW n
  PROVE  Settled(st, n, r) \in Record(os)
<1>1. NoLease \in Record(os)
  BY NoLeaseType
<1> DEFINE back == [NoLease EXCEPT !.state = "pending", !.disc = TRUE, !.taken = r.taken]
           done == [r EXCEPT !.fin = Result(r), !.cb = NoOp, !.stage = "",
                             !.idx = 1, !.owned = FALSE, !.fail = "no"]
<1>2. back \in Record(os)
  <2>1. NoLease \in LeaseOver(os) /\ r.taken \in BOOLEAN
    BY <1>1 DEF Record, LeaseOver
  <2> QED BY <2>1 DEF Record, LeaseOver, LeaseStates, FinalizingStates, NoLease
<1>3. ASSUME NEW state \in {"terminal-finalizer-failed", "finalizer-failed", "terminal"}
      PROVE  [done EXCEPT !.state = state] \in Record(os)
  <2>1. /\ 1 \in Nat \ {0} /\ "" \in Stages /\ Result(r) \in {"ok", "err"}
        /\ state \in LeaseStates \ FinalizingStates
    BY <1>3 DEF Stages, Result, LeaseStates, FinalizingStates
  <2>2. done \in LeaseOver(os)
    BY <2>1 DEF LeaseOver
  <2>3. /\ [done EXCEPT !.state = state] \in LeaseOver(os)
        /\ [done EXCEPT !.state = state].state = state
    <3> HIDE DEF done
    <3> QED BY <2>1, <2>2 DEF LeaseOver
  <2> QED BY <2>1, <2>3 DEF Record
<1> QED BY <1>1, <1>2, <1>3 DEF Settled

\* So does any step of one, settled or not.
LEMMA FinishType ==
  ASSUME NEW os, NEW r \in Record(os), NEW st, NEW n
  PROVE  Finish(st, n, r) \in Record(os)
<1>1. r \in LeaseOver(os)
  BY DEF Record
<1> QED BY <1>1, SettledType DEF Finish

\* The synchronous transitions of one record.
LEMMA ClaimedType ==
  ASSUME NEW os, NEW r \in LeaseOver(os), NEW reason \in Reasons, NEW cbs \in Seq(os),
         Len(joins) \in 0..MaxJoins
  PROVE  terminalClaimRecord(r, reason, cbs) \in LeaseOver(os)
<1>1. r.cbs \o cbs \in Seq(os)
  BY ConcatProperties DEF LeaseOver
<1>2. "terminal-finalizing" \in LeaseStates
  BY DEF LeaseStates
<1> QED BY <1>1, <1>2 DEF terminalClaimRecord, LeaseOver

\* Ending the lease of a refused join starts a finalizer or finds its promise.
LEMMA TerminateType ==
  ASSUME NEW os, NEW r \in LeaseOver(os), NEW st, NEW n, Len(joins) \in 0..MaxJoins
  PROVE  terminateLease(st, n, r) \in Record(os)
<1>1. <<>> \in Seq(os) /\ "join-rejected" \in Reasons
  BY EmptySeq DEF Reasons
<1>2. terminalClaimRecord(r, "join-rejected", <<>>) \in LeaseOver(os)
  BY <1>1, ClaimedType
<1> QED BY <1>2, StartedType DEF terminateLease

\* A claim given back leaves a pending record or one with a finalizer.
LEMMA RestoreType ==
  ASSUME NEW os, NEW r \in Record(os), NEW st, NEW n
  PROVE  restoreClaimedLease(st, n, r) \in Record(os)
<1>1. /\ [r EXCEPT !.state = "pending"] \in Record(os)
      /\ [r EXCEPT !.state = "finalizing-expiry"] \in LeaseOver(os)
  BY DEF Record, LeaseOver, LeaseStates, FinalizingStates
<1>2. Started(st, n, [r EXCEPT !.state = "finalizing-expiry"]) \in Record(os)
  BY <1>1, StartedType
<1> QED BY <1>1, <1>2 DEF restoreClaimedLease

\* Retrying a failed finalizer leaves one that runs.
LEMMA RetryType ==
  ASSUME NEW os, NEW r \in LeaseOver(os), NEW st, NEW n
  PROVE  /\ retryFailedLeaseFinalizer(st, n, r) \in Record(os)
         /\ retryFailedLeaseFinalizer(st, n, r).fin = "run"
<1> DEFINE q == [r EXCEPT !.state = IF r.reason # "" THEN "terminal-finalizing"
                                                     ELSE "finalizing-expiry"]
<1>1. q \in LeaseOver(os)
  BY DEF LeaseOver, LeaseStates
<1>2. Begin(st, n, q) \in LeaseOver(os) /\ Begin(st, n, q).fin = "run"
  <2> HIDE DEF q
  <2> QED BY <1>1, BeginType
<1> QED BY <1>2 DEF retryFailedLeaseFinalizer, Record

-----------------------------------------------------------------------------
(* Tables of records. *)

\* The table of records stays one when a record is put back.
LEMMA LeasePutType ==
  ASSUME NEW os, NEW le \in [LeaseId -> Record(os)], NEW r \in Record(os), NEW st, NEW n
  PROVE  LeasePut(le, st, n, r) \in [LeaseId -> Record(os)]
BY FinishType DEF LeasePut

\* The map names records of joins when a settled record leaves it.
LEMMA MapPutType ==
  ASSUME NEW map \in [Keys -> 0..MaxJoins], NEW st, NEW n, NEW r
  PROVE  MapPut(map, st, n, r) \in [Keys -> 0..MaxJoins]
<1>1. 0 \in 0..MaxJoins
  BY ConstantsAssumption
<1>2. \A k : [map EXCEPT ![k] = 0] \in [Keys -> 0..MaxJoins]
  BY <1>1
<1>3. MapPut(map, st, n, r) = map \/ \E k : MapPut(map, st, n, r) = [map EXCEPT ![k] = 0]
  BY DEF MapPut
<1> QED BY <1>2, <1>3

\* Commands that waited for the finalizer stay commands of joins made.
LEMMA TaskPutType ==
  ASSUME NEW j, NEW tk \in [Sockets -> KnownTask(j)], NEW n, NEW r
  PROVE  TaskPut(tk, n, r) \in [Sockets -> KnownTask(j)]
<1>1. 0 \in 0..MaxJoins /\ Result(r) \in {"", "ok", "err"}
  BY ConstantsAssumption DEF Result
<1>2. ASSUME NEW s \in Sockets
      PROVE  [tk[s] EXCEPT !.wait = 0, !.got = Result(r)] \in KnownTask(j)
  <2>1. tk[s] \in Task
    BY DEF KnownTask
  <2>2. /\ [tk[s] EXCEPT !.wait = 0, !.got = Result(r)] \in Task
        /\ [tk[s] EXCEPT !.wait = 0, !.got = Result(r)].pc = tk[s].pc
        /\ [tk[s] EXCEPT !.wait = 0, !.got = Result(r)].n = tk[s].n
    BY <1>1, <2>1 DEF Task
  <2> QED BY <2>2 DEF KnownTask
<1> QED BY <1>2 DEF TaskPut

\* Requests keep their target.
SameKeys(ops) == \A o \in Ops : ops[o].key = op[o].key

\* Requests that waited for it stay requests, about the same seats.
LEMMA OpPutType ==
  ASSUME NEW ops \in [Ops -> KnownRequest], NEW n, NEW r
  PROVE  /\ OpPut(ops, n, r) \in [Ops -> KnownRequest]
         /\ SameKeys(ops) => SameKeys(OpPut(ops, n, r))
<1>1. ASSUME NEW o \in Ops
      PROVE  LET q == [ops[o] EXCEPT !.wait = @ \ {n}, !.err = @ \/ Result(r) = "err"]
             IN q \in KnownRequest /\ q.key = ops[o].key
  <2> DEFINE q == [ops[o] EXCEPT !.wait = @ \ {n}, !.err = @ \/ Result(r) = "err"]
  <2>1. ops[o] \in Request
    BY DEF KnownRequest
  <2>2. q \in Request /\ q.key = ops[o].key /\ q.pc = ops[o].pc
    BY <2>1 DEF Request
  <2> QED BY <2>2 DEF KnownRequest
<1> QED BY <1>1 DEF OpPut, SameKeys

\* What is typed stays so as more requests are made.
LEMMA AskedGrows ==
  ASSUME NEW le \in [LeaseId -> Record(Asked)],
         \A o \in Ops : op[o].key \in Keys => op'[o].key \in Keys
  PROVE  le \in [LeaseId -> Record(Asked')]
<1>1. Asked \subseteq Asked'
  BY DEF Asked
<1>2. Record(Asked) \subseteq Record(Asked')
  BY <1>1, RecordMonotonic
<1> QED BY <1>2

\* A record is put back where it was, whatever it has become.
LEMMA PutKeeps ==
  ASSUME LeaseInv, NEW st, NEW n, NEW r \in Record(Asked),
         NEW tk \in [Sockets -> KnownTask(Len(joins'))],
         NEW ops \in [Ops -> KnownRequest], SameKeys(ops),
         lease' = LeasePut(lease, st, n, r), leaseOf' = MapPut(leaseOf, st, n, r),
         task' = TaskPut(tk, n, r), op' = OpPut(ops, n, r)
  PROVE  LeaseInv'
<1>1. op' \in [Ops -> KnownRequest] /\ SameKeys(op')
  BY OpPutType
<1>2. lease' \in [LeaseId -> Record(Asked)]
  BY LeasePutType DEF LeaseInv
<1>3. lease' \in [LeaseId -> Record(Asked')]
  BY <1>1, <1>2, AskedGrows DEF SameKeys
<1>4. leaseOf' \in [Keys -> 0..MaxJoins]
  BY MapPutType DEF LeaseInv
<1>5. task' \in [Sockets -> KnownTask(Len(joins'))]
  BY TaskPutType
<1> QED BY <1>1, <1>3, <1>4, <1>5 DEF LeaseInv, KnownRequest

\* Opening leases for some seats leaves a table of records.
LEMMA CreateType ==
  ASSUME NEW os, NEW st, NEW ks, lease \in [LeaseId -> Record(os)]
  PROVE  createReconnectLease(st, ks) \in [LeaseId -> Record(os)]
<1>1. NoLease \in Record(os)
  BY NoLeaseType
<1>2. [NoLease EXCEPT !.state = "pending"] \in Record(os)
  BY <1>1 DEF Record, LeaseOver, LeaseStates, FinalizingStates
<1> QED BY <1>1, <1>2 DEF createReconnectLease

\* The map names the transports of the seats that leases are opened for.
LEMMA MapOpenedType ==
  ASSUME NEW st \in [Keys -> Seat], NEW ks, leaseOf \in [Keys -> 0..MaxJoins]
  PROVE  MapOpened(st, ks) \in [Keys -> 0..MaxJoins]
BY DEF MapOpened, Seat

\* The records a request acts on are among those there are.
LEMMA RecordsOfType ==
  ASSUME NEW st \in [Keys -> Seat], NEW ks \in SUBSET Keys,
         leaseOf \in [Keys -> 0..MaxJoins]
  PROVE  RecordsOf(st, ks) \subseteq LeaseId
<1>1. \A k \in ks : RecordFor(st, k) \in 0..MaxJoins
  BY ConstantsAssumption DEF RecordFor, Seat
<1>2. \A i \in 0..MaxJoins : i # 0 => i \in LeaseId
  BY ConstantsAssumption DEF LeaseId
<1> QED BY <1>1, <1>2 DEF RecordsOf

\* After a terminal claim each record acted on has a promise.
LEMMA TerminalType ==
  ASSUME NEW os, NEW st, NEW ks, NEW reason \in Reasons, NEW cbs \in Seq(os),
         lease \in [LeaseId -> Record(os)], Len(joins) \in 0..MaxJoins
  PROVE  LET le == TerminalLeases(st, ks, reason, cbs)
         IN /\ le \in [LeaseId -> Record(os)]
            /\ \A n \in RecordsOf(st, ks) \cap LeaseId : le[n].fin \in {"run", "ok", "err"}
<1> DEFINE le == createReconnectLease(st, ks)
<1>1. le \in [LeaseId -> Record(os)]
  BY CreateType
<1>2. ASSUME NEW n \in LeaseId
      PROVE  LET q == Started(st, n, terminalClaimRecord(le[n], reason, cbs))
             IN q \in Record(os) /\ q.fin \in {"run", "ok", "err"}
  <2>1. le[n] \in LeaseOver(os)
    BY <1>1 DEF Record
  <2>2. terminalClaimRecord(le[n], reason, cbs) \in LeaseOver(os)
    BY <2>1, ClaimedType
  <2> QED BY <2>2, StartedType
<1> HIDE DEF le
<1>3. TerminalLeases(st, ks, reason, cbs) =
        [n \in LeaseId |-> IF n \in RecordsOf(st, ks)
                           THEN Started(st, n, terminalClaimRecord(le[n], reason, cbs))
                           ELSE le[n]]
  BY DEF TerminalLeases, le
<1> QED BY <1>1, <1>2, <1>3

-----------------------------------------------------------------------------
(* The roster, the finalizer and the timers. *)

\* Telling a room leaves a roster, without those the news does not reach.
LEMMA PublishType ==
  ASSUME NEW st \in [Keys -> Seat], NEW r, NEW except
  PROVE  publish(st, r, except) \in [Keys -> Seat]
<1>1. Vacant \in Seat
  BY ConstantsAssumption DEF Vacant, Seat
<1> QED BY <1>1 DEF publish

\* Closing a seat leaves a roster.
LEMMA CloseType ==
  ASSUME NEW st \in [Keys -> Seat], NEW k, NEW t
  PROVE  closePeer(st, k, t) \in [Keys -> Seat]
<1>1. Vacant \in Seat
  BY ConstantsAssumption DEF Vacant, Seat
<1>2. [st EXCEPT ![k] = Vacant] \in [Keys -> Seat]
  BY <1>1
<1> QED BY <1>2, PublishType DEF closePeer

\* Detaching sockets from seats leaves sockets that hold known seats.
LEMMA DetachType ==
  ASSUME NEW j \in Nat, NEW so \in [Sockets -> KnownSocket(j)], NEW ks
  PROVE  detachVoicePeer(so, ks) \in [Sockets -> KnownSocket(j)]
<1>1. ASSUME NEW s \in Sockets PROVE [so[s] EXCEPT !.voice = 0] \in KnownSocket(j)
  <2>1. so[s] \in Socket /\ 0 \in 0..MaxJoins /\ 0 \in 0..j
    BY ConstantsAssumption DEF KnownSocket
  <2> QED BY <2>1 DEF KnownSocket, Socket
<1> QED BY <1>1 DEF detachVoicePeer

\* The failures so far stay within their bound.
LEMMA AnswerType ==
  ASSUME StoreInv, NEW ok, Answer(ok)
  PROVE  faults' \in 0..MaxFaults
BY ConstantsAssumption DEF Answer, CanFail, StoreInv

\* A finalizer moves on within the same record.
LEMMA StageType ==
  ASSUME NEW os, NEW r \in Record(os), NEW ok \in BOOLEAN, NEW stage \in Stages
  PROVE  /\ [r EXCEPT !.stage = stage] \in Record(os)
         /\ Noted(r, ok) \in Record(os)
         /\ [Noted(r, ok) EXCEPT !.stage = stage] \in Record(os)
<1>1. Noted(r, ok) \in Record(os)
  BY DEF Noted, Record, LeaseOver
<1>2. \A q \in Record(os) : [q EXCEPT !.stage = stage] \in Record(os)
  BY DEF Record, LeaseOver
<1> QED BY <1>1, <1>2

\* The end of one callback leaves a record that has what its state asks for.
LEMMA ReturnedRecord ==
  ASSUME NEW os, NEW r \in Record(os), NEW released \in BOOLEAN,
         NEW failure \in {"no", "plain", "rollback"}
  PROVE  Returned(r, released, failure) \in Record(os)
BY ReturnedType DEF Record

\* A step of a finalizer keeps the roster, the leases and the joins typed.
LEMMA FinalizerType ==
  ASSUME TInv, NEW n, NEW r \in Record(Asked), NEW st \in [Keys -> Seat],
         NEW so \in [Sockets -> KnownSocket(Len(joins))],
         NEW ops \in [Ops -> KnownRequest], SameKeys(ops),
         FinalizerStep(n, r, st, so), op' = OpPut(ops, n, r)
  PROVE  /\ RosterInv' /\ LeaseInv' /\ JoinsInv' /\ AuthInv'
         /\ live' = live /\ banned' = banned
<1>1. joins' = joins /\ auth' = auth /\ live' = live /\ banned' = banned
  BY DEF FinalizerStep
<1>2. RosterInv'
  BY <1>1 DEF FinalizerStep, RosterInv
<1>3. task \in [Sockets -> KnownTask(Len(joins'))]
  BY <1>1 DEF TInv, LeaseInv
<1>4. LeaseInv'
  BY <1>3, PutKeeps DEF FinalizerStep, TInv
<1> QED BY <1>1, <1>2, <1>4 DEF TInv, JoinsInv, AuthInv

\* So does one that settles nothing, with no word to the requests.
LEMMA StillRunningType ==
  ASSUME TInv, NEW n, NEW r \in Record(Asked), r.stage # "settle",
         NEW st \in [Keys -> Seat], NEW so \in [Sockets -> KnownSocket(Len(joins))],
         FinalizerStep(n, r, st, so), UNCHANGED op
  PROVE  /\ RosterInv' /\ LeaseInv' /\ JoinsInv' /\ AuthInv'
         /\ live' = live /\ banned' = banned
<1>1. op' = OpPut(op, n, r) /\ SameKeys(op) /\ op \in [Ops -> KnownRequest]
  BY DEF OpPut, SameKeys, TInv, LeaseInv
<1> QED BY <1>1, FinalizerType

\* Closing the seat in an eviction keeps everything typed.
LEMMA EvictedType ==
  ASSUME TInv, NEW n, NEW r \in Record(Asked), Evicted(n, r), UNCHANGED op
  PROVE  /\ RosterInv' /\ LeaseInv' /\ JoinsInv' /\ AuthInv'
         /\ live' = live /\ banned' = banned
<1> DEFINE q == [r EXCEPT !.stage = "identity"]
           st == IF r.owned THEN seats ELSE closePeer(seats, LeaseKey(n), TransportOf(n))
           so == detachVoicePeer(sock, {LeaseKey(n)})
<1>1. q \in Record(Asked)
  BY StageType DEF Stages
<1>2. q.stage # "settle"
  BY DEF Record, LeaseOver
<1>3. st \in [Keys -> Seat]
  BY CloseType DEF TInv, RosterInv
<1>4. so \in [Sockets -> KnownSocket(Len(joins))]
  BY DetachType DEF TInv, RosterInv, JoinsInv
<1>5. FinalizerStep(n, q, st, so)
  BY DEF Evicted
<1> HIDE DEF q, st, so
<1> QED BY <1>1, <1>2, <1>3, <1>4, <1>5, StillRunningType

\* The answer to the ban write, or its absence, keeps the invariant.
LEMMA PrerequisiteType ==
  ASSUME TInv, NEW n \in LeaseId, PrerequisiteDone(n)
  PROVE  TInv'
<1> DEFINE r == lease[n]
<1>1. /\ r \in Record(Asked) /\ seats \in [Keys -> Seat]
      /\ sock \in [Sockets -> KnownSocket(Len(joins))]
      /\ op \in [Ops -> KnownRequest] /\ SameKeys(op)
  BY DEF TInv, LeaseInv, RosterInv, SameKeys
<1> HIDE DEF r
<1>2. Returned(r, FALSE, "rollback") \in Record(Asked)
  BY <1>1, ReturnedRecord
<1>3. [r EXCEPT !.stage = "revoke"] \in Record(Asked) /\ [r EXCEPT !.stage = "revoke"].stage # "settle"
  <2>1. [r EXCEPT !.stage = "revoke"] \in Record(Asked)
    BY <1>1, StageType DEF Stages
  <2>2. [r EXCEPT !.stage = "revoke"].stage # "settle"
    BY <1>1 DEF Record, LeaseOver
  <2> QED BY <2>1, <2>2
<1>4. RosterInv' /\ LeaseInv' /\ JoinsInv' /\ AuthInv' /\ live' = live /\ banned' = banned
  <2>1. CASE /\ FinalizerStep(n, Returned(r, FALSE, "rollback"), seats, sock)
             /\ op' = OpPut(op, n, Returned(r, FALSE, "rollback"))
    BY <1>1, <1>2, <2>1, FinalizerType
  <2>2. CASE FinalizerStep(n, [r EXCEPT !.stage = "revoke"], seats, sock) /\ UNCHANGED op
    BY <1>1, <1>3, <2>2, StillRunningType
  <2>3. CASE Evicted(n, r) /\ UNCHANGED op
    BY <1>1, <2>3, EvictedType
  <2> QED BY <2>1, <2>2, <2>3 DEF PrerequisiteDone, r
<1>5. identity' = identity /\ faults' = faults
  BY DEF PrerequisiteDone
<1> QED BY <1>4, <1>5 DEF TInv, StoreInv

\* The answer to a revocation keeps the invariant.
LEMMA RevokedType ==
  ASSUME TInv, NEW n \in LeaseId, CredentialsRevoked(n)
  PROVE  TInv'
<1> DEFINE r == lease[n]
           c == r.cb
           kept == Returned(r, FALSE, "plain")
           closed == IF r.owned THEN seats
                     ELSE closePeer(seats, LeaseKey(n), TransportOf(n))
           shared == c \in Ops /\ KindOf(c) = "member"
<1>1. /\ r \in Record(Asked) /\ seats \in [Keys -> Seat]
      /\ sock \in [Sockets -> KnownSocket(Len(joins))]
      /\ op \in [Ops -> KnownRequest] /\ SameKeys(op)
  BY DEF TInv, LeaseInv, RosterInv, SameKeys
<1>2. PICK ok \in BOOLEAN :
        /\ IF shared /\ op[c].rev # "none"
           THEN ok = (op[c].rev = "ok") /\ UNCHANGED faults ELSE Answer(ok)
        /\ LET ops == IF shared
                      THEN [op EXCEPT ![c].rev = IF ok THEN "ok" ELSE "failed"]
                      ELSE op
               next == IF (c = NoOp \/ shared) /\ ~ok THEN kept
                       ELSE IF shared /\ r.owned THEN Returned(r, FALSE, "no")
                       ELSE [Noted(r, ok) EXCEPT !.stage = "participant"]
           IN \/ Evicted(n, Noted(r, ok)) /\ UNCHANGED op
              \/ /\ FinalizerStep(n, next, IF next = kept THEN seats ELSE closed, sock)
                 /\ op' = OpPut(ops, n, next)
  BY DEF CredentialsRevoked
<1> DEFINE ops == IF shared
                  THEN [op EXCEPT ![c].rev = IF ok THEN "ok" ELSE "failed"]
                  ELSE op
           next == IF (c = NoOp \/ shared) /\ ~ok THEN kept
                   ELSE IF shared /\ r.owned THEN Returned(r, FALSE, "no")
                   ELSE [Noted(r, ok) EXCEPT !.stage = "participant"]
           st == IF next = kept THEN seats ELSE closed
<1>3. /\ kept \in Record(Asked) /\ Returned(r, FALSE, "no") \in Record(Asked)
      /\ Noted(r, ok) \in Record(Asked)
      /\ [Noted(r, ok) EXCEPT !.stage = "participant"] \in Record(Asked)
  <2> HIDE DEF r
  <2> QED BY <1>1, ReturnedRecord, StageType DEF Stages
<1>4. next \in Record(Asked)
  BY <1>3
<1>5. st \in [Keys -> Seat]
  BY <1>1, CloseType
<1>6. ops \in [Ops -> KnownRequest] /\ SameKeys(ops)
  <2>1. ASSUME NEW o \in Ops, NEW rev \in Outcome
        PROVE  [op[o] EXCEPT !.rev = rev] \in KnownRequest /\ [op[o] EXCEPT !.rev = rev].key = op[o].key
    BY <1>1 DEF KnownRequest, Request
  <2>2. (IF ok THEN "ok" ELSE "failed") \in Outcome
    BY DEF Outcome
  <2> HIDE DEF r
  <2> QED BY <1>1, <2>1, <2>2 DEF SameKeys
<1>7. RosterInv' /\ LeaseInv' /\ JoinsInv' /\ AuthInv' /\ live' = live /\ banned' = banned
  <2> HIDE DEF next, st, ops
  <2>1. CASE Evicted(n, Noted(r, ok)) /\ UNCHANGED op
    BY <1>3, <2>1, EvictedType
  <2>2. CASE FinalizerStep(n, next, st, sock) /\ op' = OpPut(ops, n, next)
    BY <1>1, <1>4, <1>5, <1>6, <2>2, FinalizerType
  <2> QED BY <1>2, <2>1, <2>2 DEF next, st, ops
<1>8. identity' = identity /\ faults' \in 0..MaxFaults
  BY <1>2, AnswerType DEF CredentialsRevoked, TInv, StoreInv
<1> QED BY <1>7, <1>8 DEF TInv, StoreInv

\* The answer to the invalidation of an identity keeps the invariant.
LEMMA InvalidatedType ==
  ASSUME TInv, NEW n \in LeaseId, IdentityInvalidated(n)
  PROVE  TInv'
<1> DEFINE r == lease[n]
<1>1. /\ r \in Record(Asked) /\ seats \in [Keys -> Seat]
      /\ sock \in [Sockets -> KnownSocket(Len(joins))]
      /\ op \in [Ops -> KnownRequest] /\ SameKeys(op)
  BY DEF TInv, LeaseInv, RosterInv, SameKeys
<1>2. PICK ok \in BOOLEAN :
        LET next == IF r.owned
                    THEN Returned(r, TRUE, IF ok THEN "no" ELSE "plain")
                    ELSE [Noted(r, ok) EXCEPT !.stage = "participant"]
        IN /\ Answer(ok)
           /\ identity' = [identity EXCEPT
                  ![LeaseKey(n)] = IF ok /\ @ = "held" THEN "invalidated" ELSE @]
           /\ FinalizerStep(n, next, seats, sock)
           /\ op' = OpPut(op, n, next)
  BY DEF IdentityInvalidated
<1> HIDE DEF r
<1> DEFINE next == IF r.owned
                   THEN Returned(r, TRUE, IF ok THEN "no" ELSE "plain")
                   ELSE [Noted(r, ok) EXCEPT !.stage = "participant"]
<1>3. next \in Record(Asked)
  BY <1>1, ReturnedRecord, StageType DEF Stages
<1>4. RosterInv' /\ LeaseInv' /\ JoinsInv' /\ AuthInv' /\ live' = live /\ banned' = banned
  <2>1. FinalizerStep(n, next, seats, sock) /\ op' = OpPut(op, n, next)
    BY <1>2
  <2> HIDE DEF next
  <2> QED BY <1>1, <1>3, <2>1, FinalizerType
<1>5. faults' \in 0..MaxFaults
  BY <1>2, AnswerType DEF TInv
<1>6. identity' \in [Keys -> {"free", "held", "invalidated"}]
  BY <1>2 DEF TInv, StoreInv
<1> QED BY <1>4, <1>5, <1>6 DEF TInv, StoreInv

\* The answer of the SFU to a removal keeps the invariant.
LEMMA RemovedType ==
  ASSUME TInv, NEW n \in LeaseId, ParticipantRemoved(n)
  PROVE  TInv'
<1> DEFINE r == lease[n]
           member == r.cb \in Ops /\ KindOf(r.cb) = "member"
<1>1. /\ r \in Record(Asked) /\ seats \in [Keys -> Seat]
      /\ sock \in [Sockets -> KnownSocket(Len(joins))]
      /\ op \in [Ops -> KnownRequest] /\ SameKeys(op)
  BY DEF TInv, LeaseInv, RosterInv, SameKeys
<1>2. PICK ok \in BOOLEAN :
        LET next == Returned(r, ok \/ ~member, IF ok THEN "no" ELSE "plain")
        IN Answer(ok) /\ FinalizerStep(n, next, seats, sock) /\ op' = OpPut(op, n, next)
  BY DEF ParticipantRemoved
<1> HIDE DEF r
<1> DEFINE next == Returned(r, ok \/ ~member, IF ok THEN "no" ELSE "plain")
<1>3. next \in Record(Asked)
  BY <1>1, ReturnedRecord
<1>4. RosterInv' /\ LeaseInv' /\ JoinsInv' /\ AuthInv' /\ live' = live /\ banned' = banned
  <2>1. FinalizerStep(n, next, seats, sock) /\ op' = OpPut(op, n, next)
    BY <1>2
  <2> HIDE DEF next
  <2> QED BY <1>1, <1>3, <2>1, FinalizerType
<1>5. faults' \in 0..MaxFaults /\ identity' = identity
  BY <1>2, AnswerType DEF TInv, ParticipantRemoved
<1> QED BY <1>4, <1>5 DEF TInv, StoreInv

\* Expiry, a deadline and the end of retention keep the invariant.
LEMMA TimerType ==
  ASSUME TInv, NEW n \in LeaseId, Timer(n)
  PROVE  TInv'
<1>1. CASE LeaseExpires(n)
  <2> DEFINE late == [lease[n] EXCEPT !.state = "finalizing-expiry", !.due = TRUE]
             r == Started(seats, n, late)
  <2>1. late \in LeaseOver(Asked)
    <3>1. lease[n] \in LeaseOver(Asked) /\ "finalizing-expiry" \in LeaseStates
      BY DEF TInv, LeaseInv, Record, LeaseStates
    <3> QED BY <3>1 DEF LeaseOver
  <2>2. r \in Record(Asked)
    <3> HIDE DEF late
    <3> QED BY <2>1, StartedType
  <2>3. FinalizerStep(n, r, seats, sock) /\ op' = OpPut(op, n, r)
    BY <1>1 DEF LeaseExpires
  <2>4. /\ seats \in [Keys -> Seat] /\ sock \in [Sockets -> KnownSocket(Len(joins))]
        /\ op \in [Ops -> KnownRequest] /\ SameKeys(op)
    BY DEF TInv, LeaseInv, RosterInv, SameKeys
  <2>5. RosterInv' /\ LeaseInv' /\ JoinsInv' /\ AuthInv' /\ live' = live /\ banned' = banned
    <3> HIDE DEF r
    <3> QED BY <2>2, <2>3, <2>4, FinalizerType
  <2>6. identity' = identity /\ faults' = faults
    BY <1>1 DEF LeaseExpires
  <2> QED BY <2>5, <2>6 DEF TInv, StoreInv
<1>2. CASE DeadlinePasses(n) \/ TerminalForgotten(n)
  <2>1. NoLease \in Record(Asked)
    BY NoLeaseType
  <2>2. \A r \in Record(Asked) : [r EXCEPT !.due = TRUE] \in Record(Asked)
    BY DEF Record, LeaseOver
  <2>3. /\ op' = op /\ Asked' = Asked /\ task' = task /\ joins' = joins
        /\ seats' = seats /\ sock' = sock /\ auth' = auth /\ live' = live
        /\ banned' = banned /\ identity' = identity /\ faults' = faults
    BY <1>2 DEF DeadlinePasses, TerminalForgotten, Asked
  <2>4. lease \in [LeaseId -> Record(Asked)]
    BY DEF TInv, LeaseInv
  <2>5. lease' \in [LeaseId -> Record(Asked)]
    BY <1>2, <2>1, <2>2, <2>4 DEF DeadlinePasses, TerminalForgotten
  <2>6. leaseOf' \in [Keys -> 0..MaxJoins]
    BY <1>2, ConstantsAssumption DEF DeadlinePasses, TerminalForgotten, TInv, LeaseInv
  <2>7. lease' \in [LeaseId -> Record(Asked')]
    BY <2>3, <2>5
  <2> QED BY <2>3, <2>6, <2>7
      DEF TInv, LeaseInv, RosterInv, JoinsInv, AuthInv, StoreInv, KnownRequest
<1> QED BY <1>1, <1>2 DEF Timer

-----------------------------------------------------------------------------
(* Commands. *)

\* A command of a socket, and the others where they were.
LEMMA IdleKnown == ASSUME NEW j PROVE Idle \in KnownTask(j)
<1>1. 0 \in 0..MaxJoins /\ 0 \in 0..2 * MaxJoins
  BY ConstantsAssumption
<1> QED BY <1>1 DEF Idle, KnownTask, Task

\* Commands and sockets of earlier joins are those of later ones too.
LEMMA TaskMonotonic ==
  ASSUME NEW j \in Nat, NEW m \in Nat, j <= m
  PROVE  /\ KnownTask(j) \subseteq KnownTask(m)
         /\ KnownSocket(j) \subseteq KnownSocket(m)
BY DEF KnownTask, KnownSocket

\* The finally block of a join keeps the leases typed, given a typed record.
LEMMA JoinEndsType ==
  ASSUME TInv, NEW s \in Sockets, NEW given, NEW au \in [Keys -> 0..MaxJoins],
         HoldsClaim(s) => given \in Record(Asked),
         JoinEnds(s, given, au), joins' = joins
  PROVE  LeaseInv' /\ JoinsInv' /\ AuthInv'
<1> DEFINE tk == [task EXCEPT ![s] = Idle]
           c == task[s].claim
<1>1. /\ tk \in [Sockets -> KnownTask(Len(joins'))]
      /\ op \in [Ops -> KnownRequest] /\ SameKeys(op)
  BY IdleKnown DEF TInv, LeaseInv, SameKeys
<1>2. ASSUME HoldsClaim(s) PROVE LeaseInv'
  <2>1. /\ lease' = LeasePut(lease, seats, c, given)
        /\ leaseOf' = MapPut(leaseOf, seats, c, given)
        /\ op' = OpPut(op, c, given)
        /\ task' = TaskPut(tk, c, given)
    BY <1>2 DEF JoinEnds
  <2> HIDE DEF tk, c
  <2> QED BY <1>1, <1>2, <2>1, PutKeeps DEF TInv
<1>3. ASSUME ~HoldsClaim(s) PROVE LeaseInv'
  <2>1. lease' = lease /\ leaseOf' = leaseOf /\ op' = op /\ task' = tk
    BY <1>3 DEF JoinEnds
  <2>2. Asked' = Asked
    BY <2>1 DEF Asked
  <2> HIDE DEF tk
  <2> QED BY <1>1, <2>1, <2>2 DEF TInv, LeaseInv, KnownRequest
<1>4. LeaseInv'
  BY <1>2, <1>3
<1>5. JoinsInv'
  BY DEF TInv, JoinsInv
<1>6. AuthInv'
  <2>1. 0 \in 0..MaxJoins
    BY ConstantsAssumption
  <2>2. auth' = au \/ \E k : auth' = [au EXCEPT ![k] = 0]
    BY DEF JoinEnds
  <2> QED BY <2>1, <2>2 DEF AuthInv
<1> QED BY <1>4, <1>5, <1>6

\* A record that a join holds has the type of one.
LEMMA ClaimedRecord ==
  ASSUME TInv, NEW s \in Sockets, HoldsClaim(s)
  PROVE  lease[task[s].claim] \in Record(Asked)
<1>1. task[s].claim \in 0..2 * MaxJoins /\ task[s].claim # 0
  BY DEF TInv, LeaseInv, KnownTask, Task, HoldsClaim
<1>2. task[s].claim \in LeaseId
  BY <1>1, ConstantsAssumption DEF LeaseId
<1> QED BY <1>2 DEF TInv, LeaseInv

\* A join that gives its claim back keeps the leases typed.
LEMMA GivesUpType ==
  ASSUME TInv, NEW s \in Sockets, NEW au \in [Keys -> 0..MaxJoins],
         GivesUp(s, au), joins' = joins
  PROVE  LeaseInv' /\ JoinsInv' /\ AuthInv'
<1> DEFINE c == task[s].claim
           given == restoreClaimedLease(seats, c, lease[c])
<1>1. HoldsClaim(s) => given \in Record(Asked)
  BY ClaimedRecord, RestoreType
<1>2. JoinEnds(s, given, au)
  BY DEF GivesUp
<1> HIDE DEF given
<1> QED BY <1>1, <1>2, JoinEndsType

\* A join that is refused for good keeps the leases typed.
LEMMA RejectedType ==
  ASSUME TInv, NEW s \in Sockets, Rejected(s), joins' = joins
  PROVE  LeaseInv' /\ JoinsInv' /\ AuthInv'
<1> DEFINE c == task[s].claim
           given == terminateLease(seats, c, lease[c])
<1>1. HoldsClaim(s) => given \in Record(Asked)
  <2>1. HoldsClaim(s) => lease[c] \in LeaseOver(Asked)
    BY ClaimedRecord DEF Record
  <2> QED BY <2>1, TerminateType DEF TInv, JoinsInv
<1>2. JoinEnds(s, given, auth) /\ auth \in [Keys -> 0..MaxJoins]
  BY DEF Rejected, TInv, AuthInv
<1> HIDE DEF given
<1> QED BY <1>1, <1>2, JoinEndsType

\* A join that goes on to its next await keeps the commands typed.
LEMMA ProceedsType ==
  ASSUME TInv, NEW s \in Sockets, NEW pc \in LatePcs, task[s].pc # "idle",
         Proceeds(s, pc), joins' = joins
  PROVE  LeaseInv' /\ JoinsInv' /\ AuthInv'
<1>1. task[s] \in KnownTask(Len(joins)) /\ task \in [Sockets -> KnownTask(Len(joins))]
  BY DEF TInv, LeaseInv
<1>2. [task[s] EXCEPT !.pc = pc] \in KnownTask(Len(joins))
  BY <1>1 DEF KnownTask, Task
<1>3. task' \in [Sockets -> KnownTask(Len(joins))]
  BY <1>1, <1>2 DEF Proceeds
<1>4. UNCHANGED <<lease, leaseOf, op, auth>> /\ Asked' = Asked
  BY DEF Proceeds, Asked
<1> QED BY <1>3, <1>4 DEF TInv, LeaseInv, JoinsInv, AuthInv, KnownRequest

\* A command waits, or has its answer at once.
LEMMA WaitingType ==
  ASSUME NEW j, NEW t \in KnownTask(j), NEW l \in 0..MaxJoins,
         NEW fin \in {"run", "ok", "err"}
  PROVE  [t EXCEPT !.wait = IF fin = "run" THEN l ELSE 0,
                   !.got = IF fin = "run" THEN "" ELSE fin] \in KnownTask(j)
<1>1. (IF fin = "run" THEN l ELSE 0) \in 0..MaxJoins
  BY ConstantsAssumption
<1>2. (IF fin = "run" THEN "" ELSE fin) \in {"", "ok", "err"}
  OBVIOUS
<1> QED BY <1>1, <1>2 DEF KnownTask, Task

-----------------------------------------------------------------------------
(* Claiming a lease. *)

\* A registered join is a command about the join it is.
LEMMA RegisterType ==
  ASSUME TInv, NEW s \in Sockets, NEW n \in 1..Len(joins'), n <= MaxJoins,
         NEW c \in 0..2 * MaxJoins, NEW le \in [LeaseId -> Record(Asked)],
         NEW map \in [Keys -> 0..MaxJoins],
         task \in [Sockets -> KnownTask(Len(joins'))],
         Register(s, n, c, le, map)
  PROVE  LeaseInv'
<1>1. n \in 0..MaxJoins
  BY ConstantsAssumption
<1>2. [task[s] EXCEPT !.pc = "room", !.n = n, !.claim = c] \in KnownTask(Len(joins'))
  BY <1>1 DEF KnownTask, Task, LatePcs
<1>3. task' \in [Sockets -> KnownTask(Len(joins'))]
  BY <1>2 DEF Register
<1>4. lease' = le /\ leaseOf' = map /\ op' = op /\ Asked' = Asked
  BY DEF Register, Asked
<1> QED BY <1>3, <1>4 DEF TInv, LeaseInv, KnownRequest

\* A join refused before it is registered leaves an idle socket.
LEMMA RefusedType ==
  ASSUME TInv, NEW s \in Sockets, task \in [Sockets -> KnownTask(Len(joins'))],
         Refused(s)
  PROVE  LeaseInv'
<1>1. task' \in [Sockets -> KnownTask(Len(joins'))]
  BY IdleKnown DEF Refused
<1>2. lease' = lease /\ leaseOf' = leaseOf /\ op' = op /\ Asked' = Asked
  BY DEF Refused, Asked
<1> QED BY <1>1, <1>2 DEF TInv, LeaseInv, KnownRequest

\* A join that waits does so for a finalizer that has a promise.
LEMMA WaitsForType ==
  ASSUME TInv, NEW s \in Sockets, NEW n \in 1..Len(joins'), n <= MaxJoins,
         NEW pc \in EarlyPcs, NEW l \in 0..MaxJoins, NEW r \in Record(Asked),
         r.fin # "none",
         task \in [Sockets -> KnownTask(Len(joins'))],
         WaitsFor(s, n, pc, l, r)
  PROVE  LeaseInv'
<1> DEFINE t == [Idle EXCEPT !.pc = pc, !.n = n]
           waiting == [Idle EXCEPT !.pc = pc, !.n = n,
                                   !.wait = IF r.fin = "run" THEN l ELSE 0,
                                   !.got = IF r.fin = "run" THEN "" ELSE r.fin]
           tk == [task EXCEPT ![s] = waiting]
<1>1. r.fin \in {"run", "ok", "err"}
  BY DEF Record, LeaseOver
<1>2. waiting \in KnownTask(Len(joins'))
  <2>1. 0 \in 0..MaxJoins /\ 0 \in 0..2 * MaxJoins /\ n \in 0..MaxJoins
    BY ConstantsAssumption
  <2>2. t \in KnownTask(Len(joins'))
    BY <2>1 DEF KnownTask, Task, Idle, EarlyPcs
  <2>3. [t EXCEPT !.wait = IF r.fin = "run" THEN l ELSE 0,
                  !.got = IF r.fin = "run" THEN "" ELSE r.fin] \in KnownTask(Len(joins'))
    <3> HIDE DEF t
    <3> QED BY <1>1, <2>2, WaitingType
  <2>4. waiting = [t EXCEPT !.wait = IF r.fin = "run" THEN l ELSE 0,
                            !.got = IF r.fin = "run" THEN "" ELSE r.fin]
    BY DEF Idle
  <2> QED BY <2>3, <2>4
<1>3. tk \in [Sockets -> KnownTask(Len(joins'))]
  <2> HIDE DEF waiting
  <2> QED BY <1>2
<1>4. op \in [Ops -> KnownRequest] /\ SameKeys(op)
  BY DEF TInv, LeaseInv, SameKeys
<1>5. /\ lease' = LeasePut(lease, seats, l, r) /\ leaseOf' = MapPut(leaseOf, seats, l, r)
      /\ op' = OpPut(op, l, r) /\ task' = TaskPut(tk, l, r)
  BY DEF WaitsFor
<1> HIDE DEF tk
<1> QED BY <1>3, <1>4, <1>5, PutKeeps DEF TInv

\* Whatever the answer to a claim, the leases and commands stay typed.
LEMMA ClaimType ==
  ASSUME TInv, NEW s \in Sockets, NEW n \in 1..Len(joins'), n <= MaxJoins,
         NEW k \in Keys, NEW attempt,
         task \in [Sockets -> KnownTask(Len(joins'))],
         Claim(s, n, k, attempt)
  PROVE  LeaseInv'
<1> DEFINE l == leaseOf[k]
           r == IF l = 0 THEN NoLease ELSE lease[l]
<1>1. l \in 0..MaxJoins /\ 0 \in 0..2 * MaxJoins
  BY ConstantsAssumption DEF TInv, LeaseInv
<1>2. l # 0 => l \in LeaseId
  BY <1>1, ConstantsAssumption DEF LeaseId
<1>3. r \in Record(Asked) /\ NoLease \in Record(Asked)
  BY <1>2, NoLeaseType DEF TInv, LeaseInv
<1>4. lease \in [LeaseId -> Record(Asked)] /\ leaseOf \in [Keys -> 0..MaxJoins]
  BY DEF TInv, LeaseInv
<1>5. l = 0 => r.state = "none" /\ r = NoLease
  BY DEF NoLease
<1>6. CASE Register(s, n, 0, IF l = 0 THEN lease ELSE [lease EXCEPT ![l] = NoLease],
                    [leaseOf EXCEPT ![k] = 0])
  <2>1. (IF l = 0 THEN lease ELSE [lease EXCEPT ![l] = NoLease]) \in [LeaseId -> Record(Asked)]
    BY <1>3, <1>4
  <2>2. [leaseOf EXCEPT ![k] = 0] \in [Keys -> 0..MaxJoins]
    BY <1>4, ConstantsAssumption
  <2> QED BY <1>1, <1>6, <2>1, <2>2, RegisterType
<1>7. CASE /\ r.state = "pending"
           /\ LET le == [lease EXCEPT ![l].state = "claimed", ![l].taken = TRUE]
              IN IF attempt = "waited"
                 THEN lease' = le /\ task' = [task EXCEPT ![s] = Idle] /\ UNCHANGED <<leaseOf, op>>
                 ELSE Register(s, n, l, le, leaseOf)
  <2> DEFINE le == [lease EXCEPT ![l].state = "claimed", ![l].taken = TRUE]
  <2>1. l \in LeaseId /\ l \in 0..2 * MaxJoins
    BY <1>1, <1>2, <1>5, <1>7, ConstantsAssumption
  <2>2. [lease[l] EXCEPT !.state = "claimed", !.taken = TRUE] \in Record(Asked)
    <3>1. lease[l] \in LeaseOver(Asked)
      BY <1>4, <2>1 DEF Record
    <3>2. "claimed" \in LeaseStates \ FinalizingStates
      BY DEF LeaseStates, FinalizingStates
    <3>3. /\ [lease[l] EXCEPT !.state = "claimed", !.taken = TRUE] \in LeaseOver(Asked)
          /\ [lease[l] EXCEPT !.state = "claimed", !.taken = TRUE].state = "claimed"
      BY <3>1, <3>2 DEF LeaseOver
    <3> QED BY <3>2, <3>3 DEF Record
  <2>3. le = [lease EXCEPT ![l] = [lease[l] EXCEPT !.state = "claimed", !.taken = TRUE]]
    BY <1>4, <2>1
  <2>4. le \in [LeaseId -> Record(Asked)]
    <3> HIDE DEF le
    <3> QED BY <1>4, <2>2, <2>3
  <2>5. CASE attempt = "waited"
    <3>1. lease' = le /\ task' = [task EXCEPT ![s] = Idle] /\ UNCHANGED <<leaseOf, op>>
      BY <1>7, <2>5
    <3>2. Asked' = Asked
      BY <3>1 DEF Asked
    <3>3. task' \in [Sockets -> KnownTask(Len(joins'))]
      BY <3>1, IdleKnown
    <3> HIDE DEF le
    <3> QED BY <2>4, <3>1, <3>2, <3>3 DEF TInv, LeaseInv, KnownRequest
  <2>6. CASE attempt # "waited"
    <3>1. Register(s, n, l, le, leaseOf)
      BY <1>7, <2>6
    <3> HIDE DEF le
    <3> QED BY <1>4, <2>1, <2>4, <3>1, RegisterType
  <2> QED BY <2>5, <2>6
<1>8. CASE r.state \in FinalizingStates /\ WaitsFor(s, n, "finalizing", l, r)
  <2>1. r.fin # "none"
    BY <1>3, <1>8 DEF Record
  <2>2. "finalizing" \in EarlyPcs
    BY DEF EarlyPcs
  <2> HIDE DEF r, l
  <2> QED BY <1>1, <1>3, <1>8, <2>1, <2>2, WaitsForType
<1>9. CASE /\ r.state \in FailedStates
           /\ WaitsFor(s, n, "retrying", l, retryFailedLeaseFinalizer(seats, l, r))
  <2> DEFINE q == retryFailedLeaseFinalizer(seats, l, r)
  <2>1. q \in Record(Asked) /\ q.fin = "run"
    <3>1. r \in LeaseOver(Asked)
      BY <1>3 DEF Record
    <3> HIDE DEF r
    <3> QED BY <3>1, RetryType
  <2>2. "retrying" \in EarlyPcs
    BY DEF EarlyPcs
  <2> HIDE DEF q
  <2> QED BY <1>1, <1>9, <2>1, <2>2, WaitsForType DEF q
<1>10. CASE Register(s, n, 0, lease, leaseOf)
  BY <1>1, <1>4, <1>10, RegisterType
<1>11. CASE Refused(s)
  BY <1>11, RefusedType
<1> HIDE DEF r, l
<1> QED BY <1>6, <1>7, <1>8, <1>9, <1>10, <1>11 DEF Claim, r, l

\* A new join keeps the invariant.
LEMMA RequestType ==
  ASSUME TInv, NEW s \in Sockets, NEW k \in Keys, JoinRequest(s, k)
  PROVE  TInv'
<1> DEFINE n == Len(joins) + 1
<1>1. /\ joins \in Seq(Keys) /\ Len(joins) \in Nat /\ n <= MaxJoins
      /\ joins' = Append(joins, k) /\ Claim(s, n, k, "first")
  BY DEF TInv, JoinsInv, JoinRequest
<1>2. joins' \in Seq(Keys) /\ Len(joins') = n
  BY <1>1, AppendProperties
<1>3. n \in 1..Len(joins') /\ Len(joins) <= Len(joins') /\ Len(joins') \in 0..MaxJoins
  BY <1>1, <1>2, ConstantsAssumption
<1>4. /\ KnownTask(Len(joins)) \subseteq KnownTask(Len(joins'))
      /\ KnownSocket(Len(joins)) \subseteq KnownSocket(Len(joins'))
  BY <1>1, <1>2, <1>3, TaskMonotonic
<1>5. task \in [Sockets -> KnownTask(Len(joins'))]
  BY <1>4 DEF TInv, LeaseInv
<1>6. LeaseInv'
  BY <1>1, <1>3, <1>5, ClaimType
<1>7. UNCHANGED <<seats, sock, auth, live, banned, identity, faults>>
  BY DEF JoinRequest
<1>8. RosterInv'
  BY <1>4, <1>7 DEF TInv, RosterInv
<1> QED BY <1>2, <1>3, <1>6, <1>7, <1>8 DEF TInv, JoinsInv, AuthInv, StoreInv

\* The seat a command is about.
LEMMA KeyOfType ==
  ASSUME TInv, NEW s \in Sockets, task[s].pc # "idle"
  PROVE  KeyOf(s) \in Keys /\ task[s].n \in 1..Len(joins) /\ task[s].n \in 1..MaxJoins
<1>1. task[s].n \in 1..Len(joins) /\ joins \in Seq(Keys) /\ Len(joins) \in 0..MaxJoins
  BY DEF TInv, LeaseInv, JoinsInv, KnownTask
<1>2. joins[task[s].n] \in Keys
  BY <1>1, ElementOfSeq
<1> QED BY <1>1, <1>2, ConstantsAssumption DEF KeyOf

\* So does one that goes on after waiting for a finalizer.
LEMMA ResumesType ==
  ASSUME TInv, NEW s \in Sockets, JoinResumes(s)
  PROVE  TInv'
<1>1. UNCHANGED <<seats, sock, joins, auth, live, banned, identity, faults>>
  BY DEF JoinResumes
<1>2. task \in [Sockets -> KnownTask(Len(joins'))]
  BY <1>1 DEF TInv, LeaseInv
<1>3. LeaseInv'
  <2>1. CASE Refused(s)
    BY <1>2, <2>1, RefusedType
  <2>2. ASSUME NEW attempt, Claim(s, task[s].n, KeyOf(s), attempt) PROVE LeaseInv'
    <3>1. task[s].pc # "idle"
      BY DEF JoinResumes, EarlyPcs
    <3>2. KeyOf(s) \in Keys /\ task[s].n \in 1..Len(joins') /\ task[s].n <= MaxJoins
      BY <1>1, <3>1, KeyOfType, ConstantsAssumption
    <3> QED BY <1>2, <2>2, <3>2, ClaimType
  <2> QED BY <2>1, <2>2 DEF JoinResumes
<1> QED BY <1>1, <1>3 DEF TInv, RosterInv, JoinsInv, AuthInv, StoreInv

-----------------------------------------------------------------------------
(* Leaving, and taking a seat. *)

\* Leaving a seat, or the lease left behind, keeps the leases typed.
LEMMA LeaveType ==
  ASSUME TInv, NEW s \in Sockets, NEW k \in Keys, NEW waiting \in KnownTask(Len(joins)),
         Leave(s, k, waiting), joins' = joins
  PROVE  LeaseInv'
<1> DEFINE v == sock[s].voice
           l == leaseOf[k]
           le == TerminalLeases(seats, {k}, "left", <<>>)
           claimed == terminalClaimRecord(lease[l], "left", <<>>)
           r == Started(seats, l, claimed)
<1>1. /\ lease \in [LeaseId -> Record(Asked)] /\ Len(joins) \in 0..MaxJoins
      /\ op \in [Ops -> KnownRequest] /\ SameKeys(op) /\ l \in 0..MaxJoins
      /\ task \in [Sockets -> KnownTask(Len(joins))] /\ seats \in [Keys -> Seat]
      /\ leaseOf \in [Keys -> 0..MaxJoins]
  BY DEF TInv, LeaseInv, JoinsInv, RosterInv, SameKeys
<1>2. <<>> \in Seq(Asked) /\ "left" \in Reasons
  BY EmptySeq DEF Reasons
<1>3. CASE OwnsSeat(s, k)
  <2>1. lease' = le /\ leaseOf' = MapOpened(seats, {k}) /\ UNCHANGED op
        /\ task' = [task EXCEPT ![s] = Awaiting(waiting, v, le[v])]
    BY <1>3 DEF Leave
  <2>2. v \in 0..MaxJoins /\ v # 0 /\ seats[k].t = v
    BY <1>3 DEF OwnsSeat, TInv, RosterInv, KnownSocket, Socket
  <2>3. v \in RecordsOf(seats, {k}) \cap LeaseId
    <3>1. v \in RecordsOf(seats, {k})
      BY <2>2 DEF RecordsOf, RecordFor
    <3>2. v \in LeaseId
      BY <2>2, ConstantsAssumption DEF LeaseId
    <3> QED BY <3>1, <3>2
  <2>4. le \in [LeaseId -> Record(Asked)] /\ le[v].fin \in {"run", "ok", "err"}
    BY <1>1, <1>2, <2>3, TerminalType
  <2>5. Awaiting(waiting, v, le[v]) \in KnownTask(Len(joins))
    BY <2>2, <2>4, WaitingType DEF Awaiting
  <2>6. MapOpened(seats, {k}) \in [Keys -> 0..MaxJoins] /\ Asked' = Asked
    BY <1>1, <2>1, MapOpenedType DEF Asked
  <2> HIDE DEF le, v
  <2> QED BY <1>1, <2>1, <2>4, <2>5, <2>6 DEF LeaseInv, KnownRequest
<1>4. CASE ~OwnsSeat(s, k)
  <2>1. /\ Replayed(k)
        /\ lease' = LeasePut(lease, seats, l, r) /\ leaseOf' = MapPut(leaseOf, seats, l, r)
        /\ task' = TaskPut([task EXCEPT ![s] = Awaiting(waiting, l, r)], l, r)
        /\ op' = OpPut(op, l, r)
    BY <1>4 DEF Leave
  <2>2. l \in LeaseId
    BY <1>1, <2>1, ConstantsAssumption DEF Replayed, LeaseId
  <2>3. claimed \in LeaseOver(Asked)
    <3>1. lease[l] \in LeaseOver(Asked)
      BY <1>1, <2>2 DEF Record
    <3> QED BY <1>1, <1>2, <3>1, ClaimedType
  <2>4. r \in Record(Asked) /\ r.fin \in {"run", "ok", "err"}
    <3> HIDE DEF claimed
    <3> QED BY <2>3, StartedType
  <2> HIDE DEF r
  <2>5. [task EXCEPT ![s] = Awaiting(waiting, l, r)] \in [Sockets -> KnownTask(Len(joins'))]
    <3>1. Awaiting(waiting, l, r) \in KnownTask(Len(joins))
      BY <1>1, <2>4, WaitingType DEF Awaiting
    <3> QED BY <1>1, <3>1
  <2> QED BY <1>1, <2>1, <2>4, <2>5, PutKeeps DEF TInv
<1> QED BY <1>3, <1>4

\* A socket that has left its seat holds none, the others what they held.
LEMMA LeftByType ==
  ASSUME TInv, NEW s, NEW k
  PROVE  LeftBy(s, k) \in [Sockets -> KnownSocket(Len(joins))]
<1>1. \A x \in KnownSocket(Len(joins)) : [x EXCEPT !.voice = 0] \in KnownSocket(Len(joins))
  BY ConstantsAssumption DEF KnownSocket, Socket, TInv, JoinsInv
<1>2. sock \in [Sockets -> KnownSocket(Len(joins))]
  BY DEF TInv, RosterInv
<1> QED BY <1>1, <1>2 DEF LeftBy

\* Taking a seat, or being superseded just before, keeps everything typed.
LEMMA TakeSeatType ==
  ASSUME TInv, NEW s \in Sockets, task[s].pc # "idle",
         NEW so \in [Sockets -> KnownSocket(Len(joins))],
         NEW au \in [Keys -> 0..MaxJoins], TakeSeat(s, so, au), joins' = joins
  PROVE  RosterInv' /\ LeaseInv' /\ JoinsInv' /\ AuthInv'
<1> DEFINE n == task[s].n
           k == KeyOf(s)
           c == task[s].claim
           others == {x \in Sockets \ {s} : c # 0 /\ task[x].claim = c}
           previous == seats[k].t # 0
           seated == [seats EXCEPT ![k] = [t |-> n, conn |-> s]]
<1>1. /\ k \in Keys /\ n \in 1..Len(joins) /\ n \in 1..MaxJoins
  BY KeyOfType
<1>2. /\ seats \in [Keys -> Seat] /\ lease \in [LeaseId -> Record(Asked)]
      /\ leaseOf \in [Keys -> 0..MaxJoins] /\ op \in [Ops -> KnownRequest]
      /\ task \in [Sockets -> KnownTask(Len(joins))] /\ Len(joins) \in 0..MaxJoins
  BY DEF TInv, RosterInv, LeaseInv, JoinsInv
<1>3. CASE GivesUp(s, au) /\ sock' = so /\ UNCHANGED seats
  BY <1>2, <1>3, GivesUpType DEF RosterInv
<1>4. CASE /\ seats' = IF previous THEN seated ELSE publish(seated, k[1], k)
           /\ sock' = [so EXCEPT ![s].voice = n]
           /\ auth' = au
           /\ task' = [x \in Sockets |->
                        IF x = s THEN [Idle EXCEPT !.pc = "occupancy", !.n = n]
                        ELSE IF x \in others THEN [task[x] EXCEPT !.claim = n + MaxJoins]
                        ELSE task[x]]
           /\ IF c = 0 THEN UNCHANGED <<lease, leaseOf>>
              ELSE /\ lease' = [lease EXCEPT
                                 ![c] = NoLease,
                                 ![n + MaxJoins] = IF others = {} THEN @ ELSE lease[c]]
                   /\ leaseOf' = [leaseOf EXCEPT ![k] = 0]
           /\ UNCHANGED op
  <2>1. seats' \in [Keys -> Seat]
    <3>1. [t |-> n, conn |-> s] \in Seat
      BY <1>1, ConstantsAssumption DEF Seat
    <3>2. seated \in [Keys -> Seat]
      BY <1>2, <3>1
    <3> HIDE DEF seated, k
    <3> QED BY <1>4, <3>2, PublishType
  <2>2. sock' \in [Sockets -> KnownSocket(Len(joins))]
    <3>1. n \in 0..MaxJoins /\ n \in 0..Len(joins)
      BY <1>1, <1>2, ConstantsAssumption
    <3> HIDE DEF n
    <3>2. \A x \in KnownSocket(Len(joins)) : [x EXCEPT !.voice = n] \in KnownSocket(Len(joins))
      BY <3>1 DEF KnownSocket, Socket
    <3> QED BY <1>4, <3>2
  <2>3. task' \in [Sockets -> KnownTask(Len(joins))]
    <3>1. [Idle EXCEPT !.pc = "occupancy", !.n = n] \in KnownTask(Len(joins))
      <4>1. 0 \in 0..MaxJoins /\ 0 \in 0..2 * MaxJoins /\ n \in 0..MaxJoins
        BY <1>1, ConstantsAssumption
      <4> QED BY <1>1, <4>1 DEF Idle, KnownTask, Task, LatePcs
    <3>2. n + MaxJoins \in 0..2 * MaxJoins
      BY <1>1, ConstantsAssumption
    <3>3. ASSUME NEW x \in Sockets
          PROVE  [task[x] EXCEPT !.claim = n + MaxJoins] \in KnownTask(Len(joins))
      <4>1. task[x] \in KnownTask(Len(joins))
        BY <1>2
      <4> HIDE DEF n
      <4> QED BY <3>2, <4>1 DEF KnownTask, Task
    <3> HIDE DEF n, others
    <3> QED BY <1>2, <1>4, <3>1, <3>3
  <2>4. leaseOf' \in [Keys -> 0..MaxJoins]
    <3>1. 0 \in 0..MaxJoins
      BY ConstantsAssumption
    <3>2. leaseOf' = leaseOf \/ leaseOf' = [leaseOf EXCEPT ![k] = 0]
      BY <1>4
    <3> HIDE DEF k
    <3> QED BY <1>2, <3>1, <3>2
  <2>5. lease' \in [LeaseId -> Record(Asked)]
    <3>1. c = 0 \/ c \in LeaseId
      <4>1. c \in 0..2 * MaxJoins
        BY <1>2 DEF KnownTask, Task
      <4> QED BY <4>1, ConstantsAssumption DEF LeaseId
    <3>2. NoLease \in Record(Asked)
      BY NoLeaseType
    <3> HIDE DEF others, c, n, k
    <3> QED BY <1>2, <1>4, <3>1, <3>2
  <2>6. Asked' = Asked /\ auth' = au /\ op' = op
    BY <1>4 DEF Asked
  <2> QED BY <1>2, <2>1, <2>2, <2>3, <2>4, <2>5, <2>6
      DEF RosterInv, LeaseInv, AuthInv, JoinsInv, TInv, KnownRequest
<1> QED BY <1>3, <1>4 DEF TakeSeat

\* Giving back the seat of this join.
LEMMA ReleaseType ==
  ASSUME TInv, NEW s, ReleaseSeat(s), joins' = joins
  PROVE  RosterInv'
<1>1. seats' \in [Keys -> Seat]
  BY CloseType DEF ReleaseSeat, TInv, RosterInv
<1>2. \A x \in KnownSocket(Len(joins)) : [x EXCEPT !.voice = 0] \in KnownSocket(Len(joins))
  BY ConstantsAssumption DEF KnownSocket, Socket, TInv, JoinsInv
<1>3. sock' \in [Sockets -> KnownSocket(Len(joins))]
  <2>1. sock \in [Sockets -> KnownSocket(Len(joins))]
    BY DEF TInv, RosterInv
  <2> QED BY <1>2, <2>1 DEF ReleaseSeat
<1> QED BY <1>1, <1>3 DEF RosterInv

\* A join superseded with its seat taken keeps everything typed.
LEMMA SupersededType ==
  ASSUME TInv, NEW s \in Sockets, SupersededSeat(s), joins' = joins
  PROVE  RosterInv' /\ LeaseInv' /\ JoinsInv' /\ AuthInv'
<1>1. RosterInv'
  BY ReleaseType DEF SupersededSeat, TInv, RosterInv
<1>2. GivesUp(s, auth) /\ auth \in [Keys -> 0..MaxJoins]
  BY DEF SupersededSeat, TInv, AuthInv
<1> QED BY <1>1, <1>2, GivesUpType

\* The lookups of a join: it gives up, is refused or goes on.
LEMMA LookupType ==
  ASSUME TInv, NEW s \in Sockets, GetRoom(s) \/ FindRoomBan(s) \/ GetOrCreatePeerIdentity(s)
  PROVE  TInv'
<1>1. /\ UNCHANGED <<seats, sock, joins, live, banned>> /\ task[s].pc # "idle"
      /\ auth \in [Keys -> 0..MaxJoins]
  BY DEF GetRoom, FindRoomBan, GetOrCreatePeerIdentity, JoinAt, TInv, AuthInv
<1>2. LeaseInv' /\ JoinsInv' /\ AuthInv'
  <2>1. CASE GivesUp(s, auth)
    BY <1>1, <2>1, GivesUpType
  <2>2. CASE Rejected(s)
    BY <1>1, <2>2, RejectedType
  <2>3. ASSUME NEW pc \in LatePcs, Proceeds(s, pc) PROVE LeaseInv' /\ JoinsInv' /\ AuthInv'
    BY <1>1, <2>3, ProceedsType
  <2>4. {"ban", "identity", "mute"} \subseteq LatePcs
    BY DEF LatePcs
  <2> QED BY <2>1, <2>2, <2>3, <2>4 DEF GetRoom, FindRoomBan, GetOrCreatePeerIdentity
<1>3. faults' \in 0..MaxFaults
  BY AnswerType DEF GetRoom, FindRoomBan, GetOrCreatePeerIdentity, TInv
<1>4. identity' \in [Keys -> {"free", "held", "invalidated"}]
  <2>1. identity \in [Keys -> {"free", "held", "invalidated"}]
    BY DEF TInv, StoreInv
  <2>2. identity' = identity \/ \E ok \in BOOLEAN :
          identity' = [identity EXCEPT ![KeyOf(s)] = IF ok /\ @ = "free" THEN "held" ELSE @]
    BY DEF GetRoom, FindRoomBan, GetOrCreatePeerIdentity
  <2> QED BY <2>1, <2>2
<1> QED BY <1>1, <1>2, <1>3, <1>4 DEF TInv, RosterInv, StoreInv

\* Loading the mute, authorizing the join and what follows keep the invariant.
LEMMA MuteType ==
  ASSUME TInv, NEW s \in Sockets, LoadServerMute(s)
  PROVE  TInv'
<1> DEFINE n == task[s].n
           k == KeyOf(s)
           v == sock[s].voice
           elsewhere == v # 0 /\ joins[v] # k
           au == [auth EXCEPT ![k] = n]
<1>1. task[s].pc = "mute" /\ UNCHANGED <<joins, live, banned, identity>>
  BY DEF LoadServerMute, JoinAt
<1>2. task[s].pc # "idle" /\ n \in 1..MaxJoins
  BY <1>1, KeyOfType
<1>3. auth \in [Keys -> 0..MaxJoins] /\ au \in [Keys -> 0..MaxJoins]
  <2>1. n \in 0..MaxJoins
    BY <1>2, ConstantsAssumption
  <2> HIDE DEF n, k
  <2> QED BY <2>1 DEF TInv, AuthInv
<1>4. faults' \in 0..MaxFaults
  BY AnswerType DEF LoadServerMute, TInv
<1>5. RosterInv' /\ LeaseInv' /\ JoinsInv' /\ AuthInv'
  <2>1. CASE Rejected(s) /\ UNCHANGED <<seats, sock>>
    BY <1>1, <2>1, RejectedType DEF TInv, RosterInv
  <2>2. CASE GivesUp(s, auth) /\ UNCHANGED <<seats, sock>>
    BY <1>1, <1>3, <2>2, GivesUpType DEF TInv, RosterInv
  <2>3. CASE /\ elsewhere /\ Leave(s, joins[v], [task[s] EXCEPT !.pc = "leaveOther"])
             /\ auth' = au /\ UNCHANGED <<seats, sock>>
    <3>1. v \in 1..Len(joins) /\ joins \in Seq(Keys)
      BY <2>3 DEF TInv, RosterInv, JoinsInv, KnownSocket
    <3>2. joins[v] \in Keys
      BY <3>1, ElementOfSeq
    <3>3. [task[s] EXCEPT !.pc = "leaveOther"] \in KnownTask(Len(joins))
      <4>1. task[s] \in KnownTask(Len(joins)) /\ "leaveOther" \in LatePcs
        BY DEF TInv, LeaseInv, LatePcs
      <4> QED BY <1>2, <4>1 DEF KnownTask, Task
    <3>4. LeaseInv'
      BY <1>1, <2>3, <3>2, <3>3, LeaveType
    <3> QED BY <1>1, <1>3, <2>3, <3>4 DEF TInv, RosterInv, JoinsInv, AuthInv
  <2>4. CASE TakeSeat(s, IF elsewhere THEN LeftBy(s, joins[v]) ELSE sock, au)
    <3>1. (IF elsewhere THEN LeftBy(s, joins[v]) ELSE sock) \in [Sockets -> KnownSocket(Len(joins))]
      BY LeftByType DEF TInv, RosterInv
    <3> QED BY <1>1, <1>2, <1>3, <2>4, <3>1, TakeSeatType
  <2> QED BY <2>1, <2>2, <2>3, <2>4 DEF LoadServerMute
<1> QED BY <1>1, <1>4, <1>5 DEF TInv, StoreInv

\* The seat taken after another was left keeps the invariant.
LEMMA LeftOtherType ==
  ASSUME TInv, NEW s \in Sockets, LeftOther(s)
  PROVE  TInv'
<1>1. task[s].pc = "leaveOther" /\ UNCHANGED <<joins, live, banned, identity, faults>>
  BY DEF LeftOther
<1>2. auth \in [Keys -> 0..MaxJoins]
  BY DEF TInv, AuthInv
<1>3. RosterInv' /\ LeaseInv' /\ JoinsInv' /\ AuthInv'
  <2>1. CASE GivesUp(s, auth) /\ UNCHANGED <<seats, sock>>
    BY <1>1, <1>2, <2>1, GivesUpType DEF TInv, RosterInv
  <2>2. CASE TakeSeat(s, [sock EXCEPT ![s].voice = 0], auth)
    <3>1. \A x \in KnownSocket(Len(joins)) : [x EXCEPT !.voice = 0] \in KnownSocket(Len(joins))
      BY ConstantsAssumption DEF KnownSocket, Socket, TInv, JoinsInv
    <3>2. sock \in [Sockets -> KnownSocket(Len(joins))]
      BY DEF TInv, RosterInv
    <3>3. [sock EXCEPT ![s].voice = 0] \in [Sockets -> KnownSocket(Len(joins))]
      BY <3>1, <3>2
    <3> QED BY <1>1, <1>2, <2>2, <3>3, TakeSeatType
  <2> QED BY <2>1, <2>2 DEF LeftOther
<1> QED BY <1>1, <1>3 DEF TInv, StoreInv

\* The awaits of a join that has its seat.
LEMMA SeatedType ==
  ASSUME TInv, NEW s \in Sockets, OccupancyQueued(s) \/ FindLateBan(s) \/ BuildRoomSnapshot(s)
  PROVE  TInv'
<1>1. /\ UNCHANGED <<joins, live, banned, identity>> /\ task[s].pc # "idle"
      /\ auth \in [Keys -> 0..MaxJoins] /\ RosterInv
  BY DEF OccupancyQueued, FindLateBan, BuildRoomSnapshot, JoinAt, TInv, AuthInv
<1>2. faults' \in 0..MaxFaults
  <2>1. faults' = faults \/ \E ok \in BOOLEAN : Answer(ok)
    BY DEF OccupancyQueued, FindLateBan, BuildRoomSnapshot
  <2> QED BY <2>1, AnswerType DEF TInv, StoreInv
<1>3. RosterInv' /\ LeaseInv' /\ JoinsInv' /\ AuthInv'
  <2>1. CASE SupersededSeat(s)
    BY <1>1, <2>1, SupersededType
  <2>2. CASE ReleaseSeat(s) /\ GivesUp(s, auth)
    BY <1>1, <2>2, ReleaseType, GivesUpType
  <2>3. CASE GivesUp(s, auth) /\ UNCHANGED <<seats, sock>>
    BY <1>1, <2>3, GivesUpType DEF RosterInv
  <2>4. ASSUME NEW pc \in LatePcs, Proceeds(s, pc), UNCHANGED <<seats, sock>>
        PROVE  RosterInv' /\ LeaseInv' /\ JoinsInv' /\ AuthInv'
    BY <1>1, <2>4, ProceedsType DEF RosterInv
  <2>5. {"lateBan", "snapshot"} \subseteq LatePcs
    BY DEF LatePcs
  <2> QED BY <2>1, <2>2, <2>3, <2>4, <2>5 DEF OccupancyQueued, FindLateBan, BuildRoomSnapshot
<1> QED BY <1>1, <1>2, <1>3 DEF TInv, StoreInv

\* Every await of a join keeps the invariant.
LEMMA JoinStepType ==
  ASSUME TInv, NEW s \in Sockets, JoinStep(s)
  PROVE  TInv'
BY ResumesType, LookupType, MuteType, LeftOtherType, SeatedType DEF JoinStep

-----------------------------------------------------------------------------
(* Clients. *)

\* A leave command keeps the invariant.
LEMMA LeaveRequestType ==
  ASSUME TInv, NEW s \in Sockets, NEW n \in JoinId, LeaveRequest(s, n)
  PROVE  TInv'
<1>1. /\ UNCHANGED <<seats, joins, auth, live, banned, identity, faults>>
      /\ n \in 1..Len(joins) /\ joins \in Seq(Keys) /\ Len(joins) \in 0..MaxJoins
  BY ConstantsAssumption DEF LeaveRequest, JoinId, TInv, JoinsInv
<1>2. joins[n] \in Keys
  BY <1>1, ElementOfSeq
<1>3. CASE Leave(s, joins[n], [Idle EXCEPT !.pc = "leave", !.n = n]) /\ UNCHANGED sock
  <2>1. [Idle EXCEPT !.pc = "leave", !.n = n] \in KnownTask(Len(joins))
    <3>1. 0 \in 0..MaxJoins /\ 0 \in 0..2 * MaxJoins /\ n \in 0..MaxJoins
      BY <1>1, ConstantsAssumption
    <3> QED BY <1>1, <3>1 DEF Idle, KnownTask, Task
  <2>2. LeaseInv'
    BY <1>1, <1>2, <1>3, <2>1, LeaveType
  <2> QED BY <1>1, <1>3, <2>2 DEF TInv, RosterInv, JoinsInv, AuthInv, StoreInv
<1>4. CASE sock' = LeftBy(s, joins[n]) /\ UNCHANGED <<task, lease, leaseOf, op>>
  <2>1. sock' \in [Sockets -> KnownSocket(Len(joins))] /\ Asked' = Asked
    BY <1>4, LeftByType DEF Asked
  <2> QED BY <1>1, <1>4, <2>1
      DEF TInv, RosterInv, LeaseInv, JoinsInv, AuthInv, StoreInv, KnownRequest
<1> QED BY <1>3, <1>4 DEF LeaveRequest

\* So does the end of one.
LEMMA LeaveResumesType ==
  ASSUME TInv, NEW s \in Sockets, LeaveResumes(s)
  PROVE  TInv'
<1>1. UNCHANGED <<seats, joins, auth, lease, leaseOf, op, live, banned, identity, faults>>
      /\ Asked' = Asked
  BY DEF LeaveResumes, Asked
<1>2. sock' \in [Sockets -> KnownSocket(Len(joins))]
  <2>1. sock \in [Sockets -> KnownSocket(Len(joins))]
    BY DEF TInv, RosterInv
  <2>2. LeftBy(s, KeyOf(s)) \in [Sockets -> KnownSocket(Len(joins))]
    BY LeftByType
  <2>3. sock' = LeftBy(s, KeyOf(s)) \/ sock' = sock
    BY DEF LeaveResumes
  <2> QED BY <2>1, <2>2, <2>3
<1>3. task' \in [Sockets -> KnownTask(Len(joins))]
  BY IdleKnown DEF LeaveResumes, TInv, LeaseInv
<1> QED BY <1>1, <1>2, <1>3
    DEF TInv, RosterInv, LeaseInv, JoinsInv, AuthInv, StoreInv, KnownRequest

\* A socket that dies or closes keeps the invariant.
LEMMA SocketType ==
  ASSUME TInv, NEW s \in Sockets, SocketDies(s) \/ SocketCloses(s)
  PROVE  TInv'
<1>1. /\ UNCHANGED <<task, joins, auth, op, live, banned, identity, faults>>
      /\ Asked' = Asked
  BY DEF SocketDies, SocketCloses, Asked
<1>2. /\ seats \in [Keys -> Seat] /\ sock \in [Sockets -> KnownSocket(Len(joins))]
      /\ lease \in [LeaseId -> Record(Asked)] /\ leaseOf \in [Keys -> 0..MaxJoins]
  BY DEF TInv, RosterInv, LeaseInv
<1>3. sock' \in [Sockets -> KnownSocket(Len(joins))]
  <2>1. \A x \in KnownSocket(Len(joins)) : [x EXCEPT !.open = "dead"] \in KnownSocket(Len(joins))
    BY DEF KnownSocket, Socket
  <2>2. [open |-> "closed", voice |-> 0] \in KnownSocket(Len(joins))
    BY ConstantsAssumption DEF KnownSocket, Socket, TInv, JoinsInv
  <2>3. \/ sock' = [sock EXCEPT ![s] = [sock[s] EXCEPT !.open = "dead"]]
        \/ sock' = [sock EXCEPT ![s] = [open |-> "closed", voice |-> 0]]
    BY <1>2 DEF SocketDies, SocketCloses
  <2> QED BY <1>2, <2>1, <2>2, <2>3
<1>4. CASE UNCHANGED <<seats, lease, leaseOf>>
  BY <1>1, <1>3, <1>4
     DEF TInv, RosterInv, LeaseInv, JoinsInv, AuthInv, StoreInv, KnownRequest
<1>5. ASSUME NEW k, NEW v,
             seats' = [seats EXCEPT ![k].conn = NoSocket],
             lease' = [createReconnectLease(seats, {k}) EXCEPT ![v].disc = TRUE],
             leaseOf' = MapOpened(seats, {k})
      PROVE  TInv'
  <2>1. seats' \in [Keys -> Seat]
    BY <1>2, <1>5 DEF Seat
  <2>2. lease' \in [LeaseId -> Record(Asked)]
    <3>1. createReconnectLease(seats, {k}) \in [LeaseId -> Record(Asked)]
      BY <1>2, CreateType
    <3>2. \A r \in Record(Asked) : [r EXCEPT !.disc = TRUE] \in Record(Asked)
      BY DEF Record, LeaseOver
    <3> QED BY <1>5, <3>1, <3>2
  <2>3. leaseOf' \in [Keys -> 0..MaxJoins]
    BY <1>2, <1>5, MapOpenedType
  <2> QED BY <1>1, <1>3, <2>1, <2>2, <2>3
      DEF TInv, RosterInv, LeaseInv, JoinsInv, AuthInv, StoreInv, KnownRequest
<1>6. UNCHANGED <<seats, lease, leaseOf>> \/
      \E k, v : /\ seats' = [seats EXCEPT ![k].conn = NoSocket]
                /\ lease' = [createReconnectLease(seats, {k}) EXCEPT ![v].disc = TRUE]
                /\ leaseOf' = MapOpened(seats, {k})
  BY DEF SocketDies, SocketCloses
<1> QED BY <1>4, <1>5, <1>6

\* Whatever a client does keeps the invariant.
LEMMA ClientType ==
  ASSUME TInv, NEW s \in Sockets, Client(s)
  PROVE  TInv'
BY RequestType, LeaveRequestType, SocketType DEF Client

-----------------------------------------------------------------------------
(* Requests that end seats. *)

\* A request that is made about a seat is known from then on.
LEMMA RequestPut ==
  ASSUME TInv, NEW o \in Ops, NEW q \in KnownRequest, q.key \in Keys,
         op' = [op EXCEPT ![o] = q]
  PROVE  /\ op' \in [Ops -> KnownRequest] /\ o \in Asked' /\ Asked \subseteq Asked'
<1>1. op \in [Ops -> KnownRequest]
  BY DEF TInv, LeaseInv
<1> QED BY <1>1 DEF Asked

\* A request that has been made goes on; nothing else changes with the requests.
LEMMA RequestOnly ==
  ASSUME TInv, NEW o \in Ops, NEW q \in KnownRequest, q.key \in Keys,
         op' = [op EXCEPT ![o] = q], UNCHANGED <<lease, leaseOf, task, joins>>
  PROVE  LeaseInv'
<1>1. op' \in [Ops -> KnownRequest] /\ Asked \subseteq Asked'
  BY RequestPut
<1>2. lease' \in [LeaseId -> Record(Asked')]
  BY <1>1, RecordMonotonic DEF TInv, LeaseInv
<1> QED BY <1>1, <1>2 DEF TInv, LeaseInv, KnownRequest

\* A terminal claim for a request that is made in the same step is typed.
LEMMA TerminalPut ==
  ASSUME TInv, NEW o \in Ops, NEW q \in KnownRequest, q.key \in Keys,
         op' = [op EXCEPT ![o] = q], UNCHANGED <<task, joins>>,
         NEW st \in [Keys -> Seat], NEW ks \in SUBSET Keys,
         NEW reason \in Reasons, lease' = TerminalLeases(st, ks, reason, <<o>>),
         leaseOf' = MapOpened(st, ks)
  PROVE  LeaseInv'
<1>1. /\ op' \in [Ops -> KnownRequest] /\ o \in Asked' /\ Asked \subseteq Asked'
  BY RequestPut
<1>2. lease \in [LeaseId -> Record(Asked')]
  BY <1>1, RecordMonotonic DEF TInv, LeaseInv
<1>3. <<o>> \in Seq(Asked')
  BY <1>1
<1>4. Len(joins) \in 0..MaxJoins
  BY DEF TInv, JoinsInv
<1>5. lease' \in [LeaseId -> Record(Asked')]
  <2> HIDE DEF Asked
  <2> QED BY <1>2, <1>3, <1>4, TerminalType
<1>6. leaseOf' \in [Keys -> 0..MaxJoins]
  BY MapOpenedType DEF TInv, LeaseInv
<1> QED BY <1>1, <1>5, <1>6 DEF TInv, LeaseInv, KnownRequest

\* Claiming seats for a request keeps leases and requests typed.
LEMMA ClaimSeatsType ==
  ASSUME TInv, NEW o \in Ops, NEW request \in Request, request.key \in Keys,
         NEW ks \in SUBSET Keys, UNCHANGED <<task, joins>>,
         ClaimSeats(o, request, ks)
  PROVE  LeaseInv'
<1> DEFINE le == TerminalLeases(seats, ks, KindOf(o), <<o>>)
           ns == RecordsOf(seats, ks)
           wait == {n \in ns : le[n].fin = "run"}
           err == \E n \in ns : le[n].fin = "err"
           q == [request EXCEPT !.pc = "wait", !.wait = wait, !.err = err]
<1>1. /\ lease' = le /\ leaseOf' = MapOpened(seats, ks) /\ op' = [op EXCEPT ![o] = q]
  BY DEF ClaimSeats
<1>2. seats \in [Keys -> Seat] /\ leaseOf \in [Keys -> 0..MaxJoins]
  BY DEF TInv, RosterInv, LeaseInv
<1>3. wait \in SUBSET LeaseId /\ err \in BOOLEAN
  BY <1>2, RecordsOfType
<1>4. q \in KnownRequest /\ q.key \in Keys
  <2> HIDE DEF wait, err
  <2> QED BY <1>3 DEF KnownRequest, Request
<1>5. KindOf(o) \in Reasons
  BY DEF TInv, LeaseInv, KnownRequest, Request, KindOf, Reasons
<1> HIDE DEF q
<1> QED BY <1>1, <1>2, <1>4, <1>5, TerminalPut

\* The seats an account holds are seats.
LEMMA OccupantsType == ASSUME NEW k PROVE Occupants(k) \in SUBSET Keys
BY DEF Occupants, Occupied

\* A request that is not idle is about a seat.
LEMMA RequestKey ==
  ASSUME TInv, NEW o \in Ops
  PROVE  /\ op[o] \in Request /\ op[o] \in KnownRequest
         /\ op[o].pc # "idle" => op[o].key \in Keys
BY DEF TInv, LeaseInv, KnownRequest

\* Making a request of any kind keeps the invariant.
LEMMA ModerationType ==
  ASSUME TInv, NEW o \in Ops, Moderation(o)
  PROVE  TInv'
<1>1. PICK k \in Keys : \/ Kick(o, k) \/ Ban(o, k) \/ PutBan(o, k) \/ DeleteRoom(o, k)
                        \/ DisconnectAccountFromRoom(o, k)
  BY DEF Moderation
<1>2. op[o] \in Request
  BY RequestKey
<1>3. /\ [op[o] EXCEPT !.key = k] \in Request /\ [op[o] EXCEPT !.key = k].key \in Keys
  BY <1>2 DEF Request
<1>4. UNCHANGED <<seats, sock, task, joins, auth, identity, faults>>
  BY <1>1 DEF Kick, Ban, PutBan, DeleteRoom, DisconnectAccountFromRoom
<1>5. LeaseInv'
  <2>1. CASE Kick(o, k)
    <3>1. ClaimSeats(o, [op[o] EXCEPT !.key = k], {k})
      BY <2>1 DEF Kick
    <3> QED BY <1>3, <1>4, <3>1, ClaimSeatsType
  <2>2. CASE Ban(o, k)
    <3>1. ClaimSeats(o, [op[o] EXCEPT !.key = k], Occupants(k))
      BY <2>2 DEF Ban
    <3> QED BY <1>3, <1>4, <3>1, OccupantsType, ClaimSeatsType
  <2>3. CASE DisconnectAccountFromRoom(o, k)
    <3> DEFINE held == {j \in Keys : leaseOf[j] # 0 /\ SameUser(j, k)} \cup Occupants(k)
               q == [op[o] EXCEPT !.key = k, !.todo = Occupants(k)]
    <3>1. ClaimSeats(o, q, held)
      BY <2>3 DEF DisconnectAccountFromRoom
    <3>2. q \in Request /\ q.key \in Keys
      BY <1>2, OccupantsType DEF Request
    <3>3. held \in SUBSET Keys
      BY OccupantsType
    <3> HIDE DEF q, held
    <3> QED BY <1>4, <3>1, <3>2, <3>3, ClaimSeatsType
  <2>4. CASE PutBan(o, k) \/ DeleteRoom(o, k)
    <3>1. PICK pc \in {"roster", "teardown"} :
            op' = [op EXCEPT ![o] = [op[o] EXCEPT !.pc = pc, !.key = k]]
      BY <2>4 DEF PutBan, DeleteRoom
    <3>2. LET q == [op[o] EXCEPT !.pc = pc, !.key = k] IN q \in KnownRequest /\ q.key \in Keys
      BY <1>2 DEF Request, KnownRequest
    <3>3. UNCHANGED <<lease, leaseOf, task, joins>>
      BY <2>4 DEF PutBan, DeleteRoom
    <3> QED BY <3>1, <3>2, <3>3, RequestOnly
  <2> QED BY <1>1, <2>1, <2>2, <2>3, <2>4
<1>6. live' \subseteq Rooms
  BY <1>1 DEF Kick, Ban, PutBan, DeleteRoom, DisconnectAccountFromRoom, TInv, StoreInv
<1>7. banned' \subseteq Rooms \X Users
  <2>1. <<k[1], UserOf[k[2]]>> \in Rooms \X Users
    BY ConstantsAssumption DEF Keys
  <2> QED BY <1>1, <2>1
      DEF Kick, Ban, PutBan, DeleteRoom, DisconnectAccountFromRoom, TInv, StoreInv
<1> QED BY <1>4, <1>5, <1>6, <1>7 DEF TInv, RosterInv, JoinsInv, AuthInv, StoreInv

\* The request o, which has been made, in another state.
LEMMA RequestPc ==
  ASSUME TInv, NEW o \in Ops, op[o].key \in Keys,
         NEW pc \in {"wait", "done"}, NEW todo \in SUBSET Keys
  PROVE  LET q == [op[o] EXCEPT !.pc = pc, !.todo = todo]
         IN q \in KnownRequest /\ q.key \in Keys
BY RequestKey DEF KnownRequest, Request

\* Disconnecting the next match of a ban keeps leases and requests typed.
LEMMA DisconnectType ==
  ASSUME TInv, NEW o \in Ops, op[o].key \in Keys, NEW todo \in SUBSET Keys,
         Disconnect(o, todo), UNCHANGED <<task, joins>>
  PROVE  LeaseInv'
<1>1. CASE todo = {}
  <2>1. op' = [op EXCEPT ![o] = [op[o] EXCEPT !.pc = "done", !.todo = {}]]
    BY <1>1 DEF Disconnect, TInv, LeaseInv
  <2>2. UNCHANGED <<lease, leaseOf>>
    BY <1>1 DEF Disconnect
  <2> QED BY <2>1, <2>2, RequestPc, RequestOnly
<1>2. CASE todo # {}
  <2>1. PICK k \in todo : ClaimSeats(o, [op[o] EXCEPT !.todo = todo \ {k}], {k})
    BY <1>2 DEF Disconnect
  <2>2. LET q == [op[o] EXCEPT !.todo = todo \ {k}] IN q \in Request /\ q.key \in Keys
    BY RequestKey DEF Request
  <2> QED BY <2>1, <2>2, ClaimSeatsType
<1> QED BY <1>1, <1>2

\* Writing a ban keeps the invariant: it is about a known account.
LEMMA PersistBanType ==
  ASSUME TInv, NEW o \in Ops, PersistBan(o)
  PROVE  TInv'
<1>1. UNCHANGED <<seats, sock, task, joins, auth, lease, leaseOf, live, identity>>
  BY DEF PersistBan
<1>2. op[o].key \in Keys
  <2>1. PICK n \in LeaseId : lease[n].cb = o
    BY DEF PersistBan
  <2>2. lease[n].cb \in Asked \cup {NoOp}
    BY DEF TInv, LeaseInv, Record, LeaseOver
  <2> QED BY <2>1, <2>2, ConstantsAssumption DEF Asked
<1>3. PICK ok \in BOOLEAN :
        /\ Answer(ok)
        /\ banned' = IF ok THEN banned \cup {<<op[o].key[1], UserOf[op[o].key[2]]>>} ELSE banned
        /\ op' = [op EXCEPT ![o].pre = IF ok THEN "ok" ELSE "failed"]
  BY DEF PersistBan
<1>4. LeaseInv'
  <2> DEFINE pre == IF ok THEN "ok" ELSE "failed"
             q == [op[o] EXCEPT !.pre = pre]
  <2>1. q \in KnownRequest /\ q.key \in Keys
    <3>1. pre \in Outcome
      BY DEF Outcome
    <3> HIDE DEF pre
    <3> QED BY <1>2, <3>1, RequestKey DEF Request, KnownRequest
  <2>2. op' = [op EXCEPT ![o] = q]
    BY <1>3 DEF TInv, LeaseInv
  <2> HIDE DEF q
  <2> QED BY <1>1, <2>1, <2>2, RequestOnly
<1>5. banned' \subseteq Rooms \X Users
  <2>1. <<op[o].key[1], UserOf[op[o].key[2]]>> \in Rooms \X Users
    BY <1>2, ConstantsAssumption DEF Keys
  <2> QED BY <1>3, <2>1 DEF TInv, StoreInv
<1>6. faults' \in 0..MaxFaults
  BY <1>3, AnswerType DEF TInv
<1> QED BY <1>1, <1>4, <1>5, <1>6 DEF TInv, RosterInv, JoinsInv, AuthInv, StoreInv

\* Reading the roster after a ban keeps the invariant.
LEMMA AfterBanType ==
  ASSUME TInv, NEW o \in Ops, AfterBanCommitted(o)
  PROVE  TInv'
<1>1. UNCHANGED <<seats, sock, task, joins, auth, live, banned, identity, faults>>
  BY DEF AfterBanCommitted
<1>2. op[o].key \in Keys
  BY RequestKey DEF AfterBanCommitted
<1>3. LeaseInv'
  <2>1. CASE Disconnect(o, Occupants(op[o].key))
    BY <1>1, <1>2, <2>1, OccupantsType, DisconnectType
  <2>2. CASE op' = [op EXCEPT ![o].pc = "done"] /\ UNCHANGED <<lease, leaseOf>>
    <3>1. op' = [op EXCEPT ![o] = [op[o] EXCEPT !.pc = "done"]]
      BY <2>2 DEF TInv, LeaseInv
    <3>2. LET q == [op[o] EXCEPT !.pc = "done"] IN q \in KnownRequest /\ q.key \in Keys
      BY <1>2, RequestKey DEF Request, KnownRequest
    <3> QED BY <1>1, <2>2, <3>1, <3>2, RequestOnly
  <2> QED BY <2>1, <2>2 DEF AfterBanCommitted
<1> QED BY <1>1, <1>3 DEF TInv, RosterInv, JoinsInv, AuthInv, StoreInv

\* Tearing a deleted room down keeps the invariant.
LEMMA DeletionType ==
  ASSUME TInv, NEW o \in Ops, FinishRoomDeletion(o)
  PROVE  TInv'
<1> DEFINE r == op[o].key[1]
           st == publish(seats, r, NoKey)
           ks == {k \in Keys : k[1] = r}
           le == TerminalLeases(st, ks, "delete", <<o>>)
           wait == {n \in RecordsOf(st, ks) : le[n].fin = "run"}
           q == [op[o] EXCEPT !.pc = "wait", !.wait = wait]
<1>1. /\ UNCHANGED <<sock, task, joins, auth, live, banned, identity, faults>>
      /\ seats' = st /\ lease' = le /\ leaseOf' = MapOpened(st, ks)
      /\ op' = [op EXCEPT ![o].pc = "wait", ![o].wait = wait]
  BY DEF FinishRoomDeletion
<1>2. op[o].key \in Keys /\ op[o] \in Request /\ op \in [Ops -> KnownRequest]
  BY RequestKey DEF FinishRoomDeletion, TInv, LeaseInv
<1>3. st \in [Keys -> Seat] /\ leaseOf \in [Keys -> 0..MaxJoins] /\ ks \in SUBSET Keys
  BY PublishType DEF TInv, RosterInv, LeaseInv
<1>4. wait \in SUBSET LeaseId
  BY <1>3, RecordsOfType
<1>5. q \in KnownRequest /\ q.key \in Keys
  <2> HIDE DEF wait
  <2> QED BY <1>2, <1>4 DEF Request, KnownRequest
<1>6. op' = [op EXCEPT ![o] = q]
  <2> HIDE DEF wait
  <2> QED BY <1>1, <1>2
<1>7. "delete" \in Reasons
  BY DEF Reasons, AllKinds
<1> HIDE DEF q, st, ks
<1>8. LeaseInv'
  BY <1>1, <1>3, <1>5, <1>6, <1>7, TerminalPut
<1> QED BY <1>1, <1>3, <1>8 DEF TInv, RosterInv, JoinsInv, AuthInv, StoreInv

\* A request whose finalizers answered keeps the invariant.
LEMMA RequestResumesType ==
  ASSUME TInv, NEW o \in Ops, RequestResumes(o)
  PROVE  TInv'
<1>1. UNCHANGED <<seats, task, joins, auth, live, banned, identity, faults>>
  BY DEF RequestResumes
<1>2. op[o].key \in Keys /\ op[o].todo \in SUBSET Keys
  BY RequestKey DEF RequestResumes, Request
<1> DEFINE done == [op EXCEPT ![o].pc = "done", ![o].todo = {}]
<1>3. sock' \in [Sockets -> KnownSocket(Len(joins))]
  BY DetachType DEF RequestResumes, TInv, RosterInv, JoinsInv
<1>4. LeaseInv'
  <2>1. CASE op' = done /\ UNCHANGED <<lease, leaseOf>>
    <3>1. op' = [op EXCEPT ![o] = [op[o] EXCEPT !.pc = "done", !.todo = {}]]
      BY <2>1 DEF TInv, LeaseInv
    <3> QED BY <1>1, <1>2, <2>1, <3>1, RequestPc, RequestOnly
  <2>2. CASE Disconnect(o, op[o].todo)
    BY <1>1, <1>2, <2>2, DisconnectType
  <2> QED BY <2>1, <2>2 DEF RequestResumes
<1> QED BY <1>1, <1>3, <1>4 DEF TInv, RosterInv, JoinsInv, AuthInv, StoreInv

\* Any other event of a room keeps the invariant.
LEMMA PublishEventType ==
  ASSUME TInv, NEW r \in Rooms, PublishRoomEvent(r)
  PROVE  TInv'
<1>1. /\ UNCHANGED <<sock, task, joins, auth, lease, leaseOf, op, live, banned, identity, faults>>
      /\ seats' \in [Keys -> Seat] /\ Asked' = Asked
  BY PublishType DEF PublishRoomEvent, TInv, RosterInv, Asked
<1> QED BY <1>1 DEF TInv, RosterInv, LeaseInv, JoinsInv, AuthInv, StoreInv, KnownRequest

-----------------------------------------------------------------------------
(* The specification. *)

\* The invariant holds at first ...
LEMMA TypesInit == Init => TInv
<1> SUFFICES ASSUME Init PROVE TInv
  OBVIOUS
<1>0. 0 \in 0..MaxJoins /\ 0 \in 0..MaxFaults /\ 0 \in 0..0
  BY ConstantsAssumption
<1>1. joins = <<>> /\ Len(joins) = 0
  BY EmptySeq DEF Init
<1>2. JoinsInv /\ AuthInv
  BY <1>0, <1>1, EmptySeq DEF Init, JoinsInv, AuthInv
<1>3. RosterInv
  <2>1. Vacant \in Seat
    BY <1>0 DEF Vacant, Seat
  <2>2. [open |-> "open", voice |-> 0] \in KnownSocket(0)
    BY <1>0 DEF KnownSocket, Socket
  <2> QED BY <1>1, <2>1, <2>2 DEF Init, RosterInv
<1>4. LeaseInv
  <2>1. NoLease \in Record(Asked)
    BY NoLeaseType
  <2>2. ASSUME NEW kind \in Kinds PROVE NewRequest(kind) \in KnownRequest
    <3>1. kind \in AllKinds
      BY ConstantsAssumption
    <3>2. NewRequest(kind) \in Request
      BY <3>1 DEF NewRequest, Request, Outcome
    <3> QED BY <3>2 DEF KnownRequest, NewRequest
  <2>3. op \in [Ops -> KnownRequest]
    BY <2>2 DEF Init
  <2>4. task \in [Sockets -> KnownTask(Len(joins))]
    BY IdleKnown DEF Init
  <2>5. lease \in [LeaseId -> Record(Asked)] /\ leaseOf \in [Keys -> 0..MaxJoins]
    BY <1>0, <2>1 DEF Init
  <2> QED BY <2>3, <2>4, <2>5 DEF LeaseInv
<1>5. StoreInv
  BY <1>0 DEF Init, StoreInv
<1> QED BY <1>2, <1>3, <1>4, <1>5 DEF TInv

\* ... every step keeps it ...
LEMMA TypesStep == TInv /\ [Next]_vars => TInv'
<1> SUFFICES ASSUME TInv, [Next]_vars PROVE TInv'
  OBVIOUS
<1>1. ASSUME NEW s \in Sockets, Client(s) \/ JoinStep(s) \/ LeaveResumes(s) PROVE TInv'
  BY <1>1, ClientType, JoinStepType, LeaveResumesType
<1>2. ASSUME NEW n \in LeaseId, Finalizer(n) \/ Timer(n) PROVE TInv'
  BY <1>2, PrerequisiteType, RevokedType, InvalidatedType, RemovedType, TimerType
     DEF Finalizer
<1>3. ASSUME NEW o \in Ops, Moderation(o) \/ RequestStep(o) PROVE TInv'
  BY <1>3, ModerationType, PersistBanType, AfterBanType, DeletionType, RequestResumesType
     DEF RequestStep
<1>4. ASSUME NEW r \in Rooms, PublishRoomEvent(r) PROVE TInv'
  BY <1>4, PublishEventType
<1>5. CASE UNCHANGED vars
  <2>1. Asked' = Asked
    BY <1>5 DEF vars, Asked
  <2> QED BY <1>5, <2>1
      DEF vars, TInv, RosterInv, LeaseInv, JoinsInv, AuthInv, StoreInv, KnownRequest
<1> QED BY <1>1, <1>2, <1>3, <1>4, <1>5 DEF Next

\* ... and it is at least TypeOK.
LEMMA TypesEnough == TInv => TypeOK
<1> SUFFICES ASSUME TInv PROVE TypeOK
  OBVIOUS
<1>1. seats \in [Keys -> Seat] /\ sock \in [Sockets -> Socket]
  BY DEF TInv, RosterInv, KnownSocket
<1>2. task \in [Sockets -> Task] /\ op \in [Ops -> Request] /\ leaseOf \in [Keys -> 0..MaxJoins]
  BY DEF TInv, LeaseInv, KnownTask, KnownRequest
<1>3. lease \in [LeaseId -> Lease]
  <2>1. Record(Asked) \subseteq Record(Ops)
    BY RecordMonotonic DEF Asked
  <2>2. Record(Ops) \subseteq Lease
    BY DEF Record, Lease
  <2> QED BY <2>1, <2>2 DEF TInv, LeaseInv
<1>4. joins \in Seq(Keys) /\ Len(joins) <= MaxJoins /\ auth \in [Keys -> 0..MaxJoins]
  BY ConstantsAssumption DEF TInv, JoinsInv, AuthInv
<1>5. StoreInv
  BY DEF TInv
<1> QED BY <1>1, <1>2, <1>3, <1>4, <1>5 DEF TypeOK, StoreInv

\* Every state the runtime can reach keeps to the records of the code: no handler
\* reads a lease of a seat that was never asked for, waits for a finalizer that
\* was never started, or writes a ban for nobody (whatever the rooms, the peers,
\* the sockets, the requests and the bounds).
THEOREM TypesKept == Spec => []TypeOK
<1>1. Init => TInv
  BY TypesInit
<1>2. TInv /\ [Next]_vars => TInv'
  BY TypesStep
<1>3. TInv => TypeOK
  BY TypesEnough
<1> QED BY <1>1, <1>2, <1>3, PTL DEF Spec
=============================================================================
