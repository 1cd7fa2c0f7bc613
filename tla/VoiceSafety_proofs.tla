-------------------------- MODULE VoiceSafety_proofs --------------------------
(*******************************************************************************)
(* What no step of the voice runtime does, for every value of its constants.   *)
(*                                                                             *)
(* No room and no server ever seats more than its limit, and the runtime       *)
(* implements SeatLedger.  A cardinality says something only of a finite set,  *)
(* so the invariant of the limits adds that finitely many seats are taken.  A  *)
(* step either takes seats away, or fills one that TakeSeat found empty and    *)
(* within the limits in that step.                                             *)
(*                                                                             *)
(* Of the ledger's steps, one that is neither a join request nor the taking of *)
(* a seat only takes away: joins that were seeking a seat go on or give up     *)
(* (Quiet), and seats are emptied or lose their socket (Faded).  When a join   *)
(* takes its seat, that it is served only once rests on join numbers being     *)
(* unique among commands.                                                      *)
(*                                                                             *)
(* An older join never takes the seat of a newer one, and a join is not let    *)
(* through to a session that was ended before it came.  Both are about a join  *)
(* that was delayed - in a lookup, or in a wait for the finalizer of a lease - *)
(* and rest on what the rest of the runtime did in the meantime: the           *)
(* authorization of a seat is not forgotten while a join for it looks things   *)
(* up, and a lease whose finalizer is being retried goes on saying why the     *)
(* session ended until the join that waits for it has read it.                 *)
(*******************************************************************************)
EXTENDS VoiceTypes_proofs, FiniteSetTheorems

-----------------------------------------------------------------------------
(* Counting seats. *)

\* The seats as a table; that nobody sits outside of it is all the limits need.
SeatTable == seats = [k \in Keys |-> seats[k]]

\* Counting is meaningful only over a finite set, whatever the constants are.
CInv == SeatTable /\ IsFiniteSet(Occupied(seats)) /\ CapacityKept

\* One element more is at most one more to count.
LEMMA AddOne ==
  ASSUME NEW S, IsFiniteSet(S), NEW x
  PROVE  /\ IsFiniteSet(S \cup {x})
         /\ Cardinality(S) \in Nat
         /\ Cardinality(S \cup {x}) \in Nat
         /\ Cardinality(S \cup {x}) <= Cardinality(S) + 1
<1>1. /\ IsFiniteSet(S \cup {x})
      /\ Cardinality(S \cup {x}) = IF x \in S THEN Cardinality(S) ELSE Cardinality(S) + 1
  BY FS_AddElement
<1>2. Cardinality(S) \in Nat
  BY FS_CardinalityType
<1> QED BY <1>1, <1>2

\* Where fewer sit than did, the limits go on being kept.
LEMMA Fewer ==
  ASSUME CInv, SeatTable', Occupied(seats') \subseteq Occupied(seats)
  PROVE  CInv'
<1>1. IsFiniteSet(Occupied(seats'))
      /\ Cardinality(Occupied(seats')) <= Cardinality(Occupied(seats))
  BY FS_Subset DEF CInv
<1>2. ASSUME NEW r \in Rooms
      PROVE  Cardinality(InRoom(seats', r)) <= MaxRoomPeers
  <2>1. /\ InRoom(seats', r) \subseteq InRoom(seats, r)
        /\ InRoom(seats, r) \subseteq Occupied(seats)
    BY DEF InRoom
  <2>2. IsFiniteSet(InRoom(seats, r))
    BY <2>1, FS_Subset DEF CInv
  <2>3. /\ Cardinality(InRoom(seats', r)) <= Cardinality(InRoom(seats, r))
        /\ Cardinality(InRoom(seats', r)) \in Nat
        /\ Cardinality(InRoom(seats, r)) \in Nat
    BY <2>1, <2>2, FS_Subset, FS_CardinalityType
  <2>4. Cardinality(InRoom(seats, r)) <= MaxRoomPeers
    BY DEF CInv, CapacityKept
  <2> QED BY <2>3, <2>4, ConstantsAssumption
<1>3. Cardinality(Occupied(seats)) <= MaxVoicePeers
  BY DEF CInv, CapacityKept
<1>4. /\ Cardinality(Occupied(seats')) \in Nat
      /\ Cardinality(Occupied(seats)) \in Nat
  BY <1>1, FS_CardinalityType DEF CInv
<1>5. Cardinality(Occupied(seats')) <= MaxVoicePeers
  BY <1>1, <1>3, <1>4, ConstantsAssumption
<1> QED BY <1>1, <1>2, <1>5 DEF CInv, CapacityKept

IsTable(st) == st = [k \in Keys |-> st[k]]

\* Telling a room something, and closing a seat, empties seats and fills none.
LEMMA PublishShrinks ==
  ASSUME NEW st, IsTable(st), NEW r, NEW except
  PROVE  /\ IsTable(publish(st, r, except))
         /\ Occupied(publish(st, r, except)) \subseteq Occupied(st)
  BY DEF IsTable, publish, Occupied, Vacant

\* Closing a seat fills none.
LEMMA CloseShrinks ==
  ASSUME NEW st, IsTable(st), NEW k, NEW t
  PROVE  /\ IsTable(closePeer(st, k, t))
         /\ Occupied(closePeer(st, k, t)) \subseteq Occupied(st)
<1> DEFINE vacated == [st EXCEPT ![k] = Vacant]
<1>1. IsTable(vacated) /\ Occupied(vacated) \subseteq Occupied(st)
  BY DEF IsTable, Occupied, Vacant
<1>2. /\ IsTable(publish(vacated, k[1], k))
      /\ Occupied(publish(vacated, k[1], k)) \subseteq Occupied(vacated)
  BY <1>1, PublishShrinks
<1> QED BY <1>1, <1>2 DEF closePeer

\* A step of the finalizer that leaves the roster as it was or closes a seat.
LEMMA FinalizerShrinks ==
  ASSUME CInv, NEW n, NEW r, NEW st, NEW so, FinalizerStep(n, r, st, so),
         IsTable(st), Occupied(st) \subseteq Occupied(seats)
  PROVE  CInv'
<1>1. seats' = st
  BY DEF FinalizerStep
<1> QED BY <1>1, Fewer DEF SeatTable, IsTable

\* Filling a seat that was empty, the limits allowing it, keeps the limits.
LEMMA OneMore ==
  ASSUME CInv, NEW k \in Keys, ~Full(k), SeatTable',
         Occupied(seats') \subseteq Occupied(seats) \cup {k}
  PROVE  CInv'
<1>1. /\ IsFiniteSet(Occupied(seats) \cup {k})
      /\ Cardinality(Occupied(seats) \cup {k}) <= Cardinality(Occupied(seats)) + 1
      /\ Cardinality(Occupied(seats)) \in Nat
      /\ Cardinality(Occupied(seats) \cup {k}) \in Nat
  BY AddOne DEF CInv
<1>2. /\ IsFiniteSet(Occupied(seats'))
      /\ Cardinality(Occupied(seats')) <= Cardinality(Occupied(seats) \cup {k})
      /\ Cardinality(Occupied(seats')) \in Nat
  BY <1>1, FS_Subset, FS_CardinalityType
<1>3. Cardinality(Occupied(seats)) < MaxVoicePeers
  BY <1>1, ConstantsAssumption DEF Full
<1>4. Cardinality(Occupied(seats')) <= MaxVoicePeers
  BY <1>1, <1>2, <1>3, ConstantsAssumption
<1>5. ASSUME NEW r \in Rooms
      PROVE  Cardinality(InRoom(seats', r)) <= MaxRoomPeers
  <2>1. InRoom(seats, r) \subseteq Occupied(seats)
    BY DEF InRoom
  <2>2. IsFiniteSet(InRoom(seats, r)) /\ Cardinality(InRoom(seats, r)) \in Nat
    BY <2>1, FS_Subset, FS_CardinalityType DEF CInv
  <2>3. Cardinality(InRoom(seats, r)) <= MaxRoomPeers
    BY DEF CInv, CapacityKept
  <2>4. CASE r = k[1]
    <3>1. InRoom(seats', r) \subseteq InRoom(seats, r) \cup {k}
      BY DEF InRoom
    <3>2. /\ IsFiniteSet(InRoom(seats, r) \cup {k})
          /\ Cardinality(InRoom(seats, r) \cup {k}) <= Cardinality(InRoom(seats, r)) + 1
          /\ Cardinality(InRoom(seats, r) \cup {k}) \in Nat
      BY <2>2, AddOne
    <3>3. /\ Cardinality(InRoom(seats', r)) <= Cardinality(InRoom(seats, r) \cup {k})
          /\ Cardinality(InRoom(seats', r)) \in Nat
      BY <3>1, <3>2, FS_Subset, FS_CardinalityType
    <3>4. Cardinality(InRoom(seats, r)) < MaxRoomPeers
      BY <2>2, <2>4, ConstantsAssumption DEF Full
    <3> QED BY <2>2, <3>2, <3>3, <3>4, ConstantsAssumption
  <2>5. CASE r # k[1]
    <3>1. InRoom(seats', r) \subseteq InRoom(seats, r)
      BY <2>5 DEF InRoom
    <3>2. /\ Cardinality(InRoom(seats', r)) <= Cardinality(InRoom(seats, r))
          /\ Cardinality(InRoom(seats', r)) \in Nat
      BY <2>2, <3>1, FS_Subset, FS_CardinalityType
    <3> QED BY <2>2, <2>3, <3>2, ConstantsAssumption
  <2> QED BY <2>4, <2>5
<1> QED BY <1>2, <1>4, <1>5 DEF CInv, CapacityKept

\* A join takes its seat within the limits.
LEMMA TakeSeatKeeps ==
  ASSUME CInv, NEW s, NEW so, NEW au, TakeSeat(s, so, au)
  PROVE  CInv'
<1> DEFINE k == KeyOf(s)
           n == task[s].n
           seated == [seats EXCEPT ![k] = [t |-> n, conn |-> s]]
<1>1. CASE seats' = seats
  BY <1>1, Fewer DEF CInv, SeatTable
<1>2. CASE seats[k].t # 0 /\ k \in Keys /\ seats' = seated
  <2>1. SeatTable' /\ Occupied(seats') \subseteq Occupied(seats)
    BY <1>2 DEF CInv, SeatTable, Occupied
  <2> QED BY <2>1, Fewer
<1>3. CASE ~Full(k) /\ k \in Keys /\ seats' = publish(seated, k[1], k)
  <2>1. IsTable(seated) /\ Occupied(seated) \subseteq Occupied(seats) \cup {k}
    BY <1>3 DEF CInv, SeatTable, IsTable, Occupied
  <2>2. IsTable(seats') /\ Occupied(seats') \subseteq Occupied(seated)
    BY <1>3, <2>1, PublishShrinks
  <2> QED BY <1>3, <2>1, <2>2, OneMore DEF SeatTable, IsTable
<1>4. CASE k \notin Keys /\ seats' \in {seated, publish(seated, k[1], k)}
  <2>1. IsTable(seated) /\ Occupied(seated) \subseteq Occupied(seats)
    BY <1>4 DEF CInv, SeatTable, IsTable, Occupied
  <2>2. IsTable(seats') /\ Occupied(seats') \subseteq Occupied(seated)
    BY <1>4, <2>1, PublishShrinks
  <2> QED BY <2>1, <2>2, Fewer DEF SeatTable, IsTable
<1> QED BY <1>1, <1>2, <1>3, <1>4 DEF TakeSeat, KeyOf

\* Giving back the seat of a join keeps the limits.
LEMMA ReleaseKeeps ==
  ASSUME CInv, NEW s, ReleaseSeat(s) \/ SupersededSeat(s)
  PROVE  CInv'
<1>1. seats' \in {seats, closePeer(seats, KeyOf(s), task[s].n)}
  BY DEF ReleaseSeat, SupersededSeat
<1>2. IsTable(seats)
  BY DEF CInv, SeatTable, IsTable
<1>3. IsTable(seats') /\ Occupied(seats') \subseteq Occupied(seats)
  BY <1>1, <1>2, CloseShrinks
<1> QED BY <1>3, Fewer DEF SeatTable, IsTable

\* At first nobody sits anywhere.
LEMMA CInvInit == Init => CInv
<1> SUFFICES ASSUME Init PROVE CInv
  OBVIOUS
<1>1. SeatTable /\ Occupied(seats) = {}
  BY DEF Init, SeatTable, Occupied, Vacant
<1>2. IsFiniteSet({}) /\ Cardinality({}) = 0
  BY FS_EmptySet
<1>3. \A r \in Rooms : InRoom(seats, r) = {}
  BY <1>1 DEF InRoom
<1> QED BY <1>1, <1>2, <1>3, ConstantsAssumption DEF CInv, CapacityKept

\* Every await of a join keeps the limits.
LEMMA CInvJoin ==
  ASSUME CInv, NEW s \in Sockets, JoinStep(s)
  PROVE  CInv'
<1>0. seats' = seats => CInv'
  BY Fewer DEF CInv, SeatTable
<1>1. CASE JoinResumes(s)
  BY <1>0, <1>1 DEF JoinResumes
<1>2. CASE GetRoom(s) \/ FindRoomBan(s) \/ GetOrCreatePeerIdentity(s)
  BY <1>0, <1>2 DEF GetRoom, FindRoomBan, GetOrCreatePeerIdentity
<1>3. CASE LoadServerMute(s)
  <2>1. seats' = seats \/ \E so, au : TakeSeat(s, so, au)
    BY <1>3 DEF LoadServerMute
  <2> QED BY <1>0, <2>1, TakeSeatKeeps
<1>4. CASE LeftOther(s)
  <2>1. seats' = seats \/ \E so, au : TakeSeat(s, so, au)
    BY <1>4 DEF LeftOther
  <2> QED BY <1>0, <2>1, TakeSeatKeeps
<1>5. CASE OccupancyQueued(s) \/ FindLateBan(s) \/ BuildRoomSnapshot(s)
  <2>1. seats' = seats \/ ReleaseSeat(s) \/ SupersededSeat(s)
    BY <1>5 DEF OccupancyQueued, FindLateBan, BuildRoomSnapshot
  <2> QED BY <1>0, <2>1, ReleaseKeeps
<1> QED BY <1>1, <1>2, <1>3, <1>4, <1>5 DEF JoinStep

\* So does whatever a client does,
LEMMA CInvClient ==
  ASSUME CInv, seats \in [Keys -> Seat], NEW s \in Sockets,
         Client(s) \/ LeaveResumes(s)
  PROVE  CInv'
<1>0. seats' = seats => CInv'
  BY Fewer DEF CInv, SeatTable
<1>1. CASE \E k \in Keys : JoinRequest(s, k)
  BY <1>0, <1>1 DEF JoinRequest
<1>2. CASE \E n \in JoinId : LeaveRequest(s, n)
  BY <1>0, <1>2 DEF LeaveRequest
<1>3. CASE SocketDies(s) \/ LeaveResumes(s)
  BY <1>0, <1>3 DEF SocketDies, LeaveResumes
<1>4. CASE SocketCloses(s)
  <2>1. CASE seats' = seats
    BY <1>0, <2>1
  <2>2. CASE \E k : seats' = [seats EXCEPT ![k].conn = NoSocket]
    <3>1. PICK k : seats' = [seats EXCEPT ![k].conn = NoSocket]
      BY <2>2
    <3>2. IsTable(seats)
      BY DEF CInv, SeatTable, IsTable
    <3>3. IsTable(seats')
      BY <3>1, <3>2 DEF IsTable
    <3>4. \A j \in Keys : seats'[j].t # 0 => seats[j].t # 0
      <4> SUFFICES ASSUME NEW j \in Keys, seats'[j].t # 0 PROVE seats[j].t # 0
        OBVIOUS
      <4>1. CASE j = k
        BY <3>1, <3>2, <4>1 DEF IsTable, Seat
      <4>2. CASE j # k
        BY <3>1, <3>2, <4>2 DEF IsTable
      <4> QED BY <4>1, <4>2
    <3> QED BY <3>3, <3>4, Fewer DEF SeatTable, IsTable, Occupied
  <2>3. \/ seats' = seats
        \/ \E k : seats' = [seats EXCEPT ![k].conn = NoSocket]
    BY <1>4 DEF SocketCloses
  <2> QED BY <2>1, <2>2, <2>3
<1> QED BY <1>1, <1>2, <1>3, <1>4 DEF Client

\* every step of a finalizer and every timer,
LEMMA CInvLease ==
  ASSUME CInv, NEW n \in LeaseId, Finalizer(n) \/ Timer(n)
  PROVE  CInv'
<1>0. seats' = seats => CInv'
  BY Fewer DEF CInv, SeatTable
<1>1. IsTable(seats)
  BY DEF CInv, SeatTable, IsTable
<1>2. /\ IsTable(closePeer(seats, LeaseKey(n), TransportOf(n)))
      /\ Occupied(closePeer(seats, LeaseKey(n), TransportOf(n))) \subseteq Occupied(seats)
  BY <1>1, CloseShrinks
<1>3. ASSUME NEW r, Evicted(n, r) PROVE CInv'
  BY <1>1, <1>2, <1>3, FinalizerShrinks DEF Evicted
<1>4. CASE PrerequisiteDone(n)
  <2>1. seats' = seats \/ \E r : Evicted(n, r)
    BY <1>4 DEF PrerequisiteDone, FinalizerStep
  <2> QED BY <1>0, <1>3, <2>1
<1>5. CASE CredentialsRevoked(n)
  <2>1. \/ \E r : Evicted(n, r)
        \/ seats' = seats
        \/ seats' = closePeer(seats, LeaseKey(n), TransportOf(n))
    BY <1>5 DEF CredentialsRevoked, FinalizerStep
  <2>2. CASE seats' = closePeer(seats, LeaseKey(n), TransportOf(n))
    BY <1>2, <2>2, Fewer DEF SeatTable, IsTable
  <2> QED BY <1>0, <1>3, <2>1, <2>2
<1>6. CASE IdentityInvalidated(n) \/ ParticipantRemoved(n)
  BY <1>0, <1>6 DEF IdentityInvalidated, ParticipantRemoved, FinalizerStep
<1>7. CASE Timer(n)
  BY <1>0, <1>7 DEF Timer, LeaseExpires, DeadlinePasses, TerminalForgotten, FinalizerStep
<1> QED BY <1>4, <1>5, <1>6, <1>7 DEF Finalizer

\* every step of moderation, deletion and membership loss,
LEMMA CInvRequest ==
  ASSUME CInv, NEW o \in Ops, Moderation(o) \/ RequestStep(o)
  PROVE  CInv'
<1>0. seats' = seats => CInv'
  BY Fewer DEF CInv, SeatTable
<1>1. CASE Moderation(o)
  BY <1>0, <1>1 DEF Moderation, Kick, Ban, PutBan, DeleteRoom, DisconnectAccountFromRoom
<1>2. CASE PersistBan(o) \/ AfterBanCommitted(o) \/ RequestResumes(o)
  BY <1>0, <1>2 DEF PersistBan, AfterBanCommitted, RequestResumes
<1>3. CASE FinishRoomDeletion(o)
  <2>1. \E r : seats' = publish(seats, r, NoKey)
    BY <1>3 DEF FinishRoomDeletion
  <2>2. IsTable(seats') /\ Occupied(seats') \subseteq Occupied(seats)
    BY <2>1, PublishShrinks DEF CInv, SeatTable, IsTable
  <2> QED BY <2>2, Fewer DEF SeatTable, IsTable
<1> QED BY <1>1, <1>2, <1>3 DEF RequestStep

\* and every other event of a room.
LEMMA CInvPublish ==
  ASSUME CInv, NEW r \in Rooms, PublishRoomEvent(r)
  PROVE  CInv'
<1>1. seats' = publish(seats, r, NoKey)
  BY DEF PublishRoomEvent
<1>2. IsTable(seats') /\ Occupied(seats') \subseteq Occupied(seats)
  BY <1>1, PublishShrinks DEF CInv, SeatTable, IsTable
<1> QED BY <1>2, Fewer DEF SeatTable, IsTable

\* Every step keeps the limits, over a roster that has its type.
LEMMA CInvStep == CInv /\ seats \in [Keys -> Seat] /\ [Next]_vars => CInv'
<1> SUFFICES ASSUME CInv, seats \in [Keys -> Seat], [Next]_vars PROVE CInv'
  OBVIOUS
<1>1. CASE UNCHANGED vars
  BY <1>1, Fewer DEF vars, CInv, SeatTable
<1>2. ASSUME NEW s \in Sockets, Client(s) \/ JoinStep(s) \/ LeaveResumes(s) PROVE CInv'
  BY <1>2, CInvJoin, CInvClient
<1>3. ASSUME NEW n \in LeaseId, Finalizer(n) \/ Timer(n) PROVE CInv'
  BY <1>3, CInvLease
<1>4. ASSUME NEW o \in Ops, Moderation(o) \/ RequestStep(o) PROVE CInv'
  BY <1>4, CInvRequest
<1>5. ASSUME NEW r \in Rooms, PublishRoomEvent(r) PROVE CInv'
  BY <1>5, CInvPublish
<1> QED BY <1>1, <1>2, <1>3, <1>4, <1>5 DEF Next

\* However many rooms, peers, sockets and requests there are, and however their
\* joins, moves, leases and failures interleave, no room and no server ever seats
\* more than its limit (the check and the taking of the seat in joinVoiceRoom).
THEOREM Capacity == Spec => []CapacityKept
<1>1. Init => TInv /\ CInv
  BY TypesInit, CInvInit
<1>2. TInv /\ CInv /\ [Next]_vars => (TInv /\ CInv)'
  <2>1. TInv => seats \in [Keys -> Seat]
    BY DEF TInv, RosterInv
  <2>2. TInv /\ [Next]_vars => TInv'
    BY TypesStep
  <2>3. CInv /\ seats \in [Keys -> Seat] /\ [Next]_vars => CInv'
    BY CInvStep
  <2> QED BY <2>1, <2>2, <2>3
<1>3. CInv => CapacityKept
  BY DEF CInv
<1> QED BY <1>1, <1>2, <1>3, PTL DEF Spec

-----------------------------------------------------------------------------
(* One command for each join. *)

\* No two commands seek a seat for the same join.
OneCommandEach == \A s, x \in Seeking : task[s].n = task[x].n => s = x

LInv == TInv /\ CInv /\ OneCommandEach

-----------------------------------------------------------------------------
(* Steps that only take away. *)

\* A seat as it was, without its socket, or empty.
FadesTo(old, new) ==
  \E lost, ended \in SUBSET Keys :
    new = [k \in Keys |-> IF k \in ended THEN Vacant
                          ELSE IF k \in lost THEN [old[k] EXCEPT !.conn = NoSocket]
                          ELSE old[k]]

\* Whoever seeks a seat did so before, for the same join.
QuietAt(x) == task'[x].pc \in SeekingPcs =>
                task[x].pc \in SeekingPcs /\ task'[x].n = task[x].n
Quiet == \A x \in Sockets : QuietAt(x)

\* Commands that are where they were, for the same joins.
SameAt(x) == task'[x].pc = task[x].pc /\ task'[x].n = task[x].n
Others(s) == \A x \in Sockets \ {s} : SameAt(x)

\* A roster fades into itself.
LEMMA FadesSame ==
  ASSUME NEW old, IsTable(old)
  PROVE  FadesTo(old, old)
<1>1. old = [k \in Keys |-> IF k \in {} THEN Vacant
                            ELSE IF k \in {} THEN [old[k] EXCEPT !.conn = NoSocket]
                            ELSE old[k]]
  BY DEF IsTable
<1>2. {} \in SUBSET Keys
  OBVIOUS
<1> QED BY <1>1, <1>2 DEF FadesTo

\* Telling a room empties the seats of those it does not reach.
LEMMA PublishFades ==
  ASSUME NEW st, IsTable(st), NEW r, NEW except
  PROVE  \E ended \in SUBSET Keys :
           publish(st, r, except) = [k \in Keys |-> IF k \in ended THEN Vacant ELSE st[k]]
<1> DEFINE lost == {k \in Keys : /\ k[1] = r
                                 /\ st[k].conn \in Sockets
                                 /\ sock[st[k].conn].open # "open"}
<1>1. CASE lost \subseteq {except}
  <2>1. publish(st, r, except) = [k \in Keys |-> IF k \in {} THEN Vacant ELSE st[k]]
    BY <1>1 DEF publish, IsTable
  <2>2. {} \in SUBSET Keys
    OBVIOUS
  <2> QED BY <2>1, <2>2
<1>2. CASE ~(lost \subseteq {except})
  <2>1. publish(st, r, except) = [k \in Keys |-> IF k \in lost THEN Vacant ELSE st[k]]
    BY <1>2 DEF publish
  <2>2. lost \in SUBSET Keys
    OBVIOUS
  <2> QED BY <2>1, <2>2
<1> QED BY <1>1, <1>2

\* Emptying some seats is fading.
LEMMA EmptiedFades ==
  ASSUME NEW old, NEW ended \in SUBSET Keys,
         NEW new, new = [k \in Keys |-> IF k \in ended THEN Vacant ELSE old[k]]
  PROVE  FadesTo(old, new)
<1>1. {} \in SUBSET Keys
  OBVIOUS
<1>2. new = [k \in Keys |-> IF k \in ended THEN Vacant
                            ELSE IF k \in {} THEN [old[k] EXCEPT !.conn = NoSocket]
                            ELSE old[k]]
  OBVIOUS
<1> QED BY <1>1, <1>2 DEF FadesTo

\* So is telling a room ...
LEMMA ToldFades ==
  ASSUME NEW st, IsTable(st), NEW r, NEW except
  PROVE  FadesTo(st, publish(st, r, except))
<1>1. PICK ended \in SUBSET Keys :
        publish(st, r, except) = [k \in Keys |-> IF k \in ended THEN Vacant ELSE st[k]]
  BY PublishFades
<1> QED BY <1>1, EmptiedFades

\* ... and closing a seat.
LEMMA CloseFades ==
  ASSUME NEW st, IsTable(st), NEW k, NEW t
  PROVE  FadesTo(st, closePeer(st, k, t))
<1> DEFINE vacated == [st EXCEPT ![k] = Vacant]
<1>1. IsTable(vacated)
  BY DEF IsTable
<1>2. PICK ended \in SUBSET Keys :
        publish(vacated, k[1], k) = [j \in Keys |-> IF j \in ended THEN Vacant ELSE vacated[j]]
  <2> HIDE DEF vacated
  <2> QED BY <1>1, PublishFades
<1>3. CASE st[k].t # t
  BY <1>3, FadesSame DEF closePeer
<1>4. CASE st[k].t = t
  <2> DEFINE gone == {j \in Keys : j \in ended \/ j = k}
  <2>1. closePeer(st, k, t) = [j \in Keys |-> IF j \in gone THEN Vacant ELSE st[j]]
    BY <1>2, <1>4 DEF closePeer, IsTable
  <2>2. gone \in SUBSET Keys
    OBVIOUS
  <2> QED BY <2>1, <2>2, EmptiedFades
<1> QED BY <1>3, <1>4

\* A step that only takes away is one of the ledger.
LEMMA FadeStep ==
  ASSUME LInv, Quiet, joins' = joins, FadesTo(seats, seats')
  PROVE  Ledger!Fade /\ OneCommandEach'
<1>1. Unserved' \in SUBSET Unserved
  BY DEF Quiet, QuietAt, Unserved, Seeking
<1>2. OneCommandEach'
  BY DEF Quiet, QuietAt, OneCommandEach, Seeking, LInv
<1>3. Ledger!Fade
  BY <1>1 DEF Ledger!Fade, FadesTo, Ledger!Keys, Ledger!Empty, Keys, Vacant
<1> QED BY <1>2, <1>3

-----------------------------------------------------------------------------
(* What steps do to the commands. *)

\* A command is a record of these fields, whatever it waits for.
IsCommand(t) ==
  t \in [pc : {t.pc}, n : {t.n}, claim : {t.claim}, wait : {t.wait}, got : {t.got}]
Commands == task = [x \in Sockets |-> task[x]] /\ \A x \in Sockets : IsCommand(task[x])

\* The commands there are have these fields.
LEMMA CommandsKnown == ASSUME TInv PROVE Commands
<1>1. \A t \in Task : IsCommand(t)
  BY DEF Task, IsCommand
<1> QED BY <1>1 DEF TInv, LeaseInv, KnownTask, Commands

\* Hearing from a finalizer leaves every command where it is.
LEMMA PutKeepsTasks ==
  ASSUME NEW tk, NEW n, NEW r, NEW x \in Sockets, IsCommand(tk[x])
  PROVE  TaskPut(tk, n, r)[x].pc = tk[x].pc /\ TaskPut(tk, n, r)[x].n = tk[x].n
<1>1. /\ [tk[x] EXCEPT !.wait = 0, !.got = Result(r)].pc = tk[x].pc
      /\ [tk[x] EXCEPT !.wait = 0, !.got = Result(r)].n = tk[x].n
  BY DEF IsCommand
<1> QED BY <1>1 DEF TaskPut

\* The commands as they were but for one that is told or has its answer.
LEMMA PutQuiet ==
  ASSUME Commands, NEW s \in Sockets, NEW t, IsCommand(t), NEW n, NEW r,
         task' \in {[task EXCEPT ![s] = t], TaskPut([task EXCEPT ![s] = t], n, r)}
  PROVE  /\ task'[s].pc = t.pc /\ task'[s].n = t.n
         /\ Others(s)
<1> DEFINE tk == [task EXCEPT ![s] = t]
<1>1. /\ \A x \in Sockets : IsCommand(tk[x])
      /\ tk[s] = t /\ \A x \in Sockets \ {s} : tk[x] = task[x]
  BY DEF Commands
<1>2. \A x \in Sockets : task'[x].pc = tk[x].pc /\ task'[x].n = tk[x].n
  <2> HIDE DEF tk
  <2>1. task' \in {tk, TaskPut(tk, n, r)}
    BY DEF tk
  <2> QED BY <1>1, <2>1, PutKeepsTasks
<1> HIDE DEF tk
<1> QED BY <1>1, <1>2 DEF Others, SameAt

\* A step of a finalizer disturbs no join.
LEMMA FinalizerQuiet ==
  ASSUME TInv, NEW n, NEW r, NEW st, NEW so, FinalizerStep(n, r, st, so)
  PROVE  Quiet /\ joins' = joins
BY CommandsKnown, PutKeepsTasks DEF FinalizerStep, Quiet, QuietAt, Commands

\* The end of a join disturbs no other.
LEMMA JoinEndsQuiet ==
  ASSUME TInv, NEW s \in Sockets, NEW given, NEW au, JoinEnds(s, given, au)
  PROVE  Quiet
<1>1. Commands /\ IsCommand(Idle) /\ Idle.pc = "idle"
  BY CommandsKnown DEF Idle, IsCommand
<1>2. task' \in {[task EXCEPT ![s] = Idle],
                 TaskPut([task EXCEPT ![s] = Idle], task[s].claim, given)}
  BY DEF JoinEnds
<1>3. task'[s].pc = "idle" /\ Others(s)
  BY <1>1, <1>2, PutQuiet
<1>4. QuietAt(s)
  BY <1>3 DEF QuietAt, SeekingPcs, EarlyPcs
<1> QED BY <1>3, <1>4 DEF Quiet, QuietAt, Others, SameAt

\* A join that gives up, is rejected, or goes on disturbs no other.
LEMMA GoesOnQuiet ==
  ASSUME TInv, NEW s \in Sockets, NEW au, NEW pc \in LatePcs,
         GivesUp(s, au) \/ Rejected(s) \/ Proceeds(s, pc),
         pc \in SeekingPcs => task[s].pc \in SeekingPcs
  PROVE  Quiet
<1>1. CASE GivesUp(s, au) \/ Rejected(s)
  BY <1>1, JoinEndsQuiet DEF GivesUp, Rejected
<1>2. CASE Proceeds(s, pc)
  <2>1. task \in [Sockets -> KnownTask(Len(joins))] /\ task[s] \in Task
    BY DEF TInv, LeaseInv, KnownTask
  <2>2. task' = [task EXCEPT ![s].pc = pc]
    BY <1>2 DEF Proceeds
  <2>3. task'[s].pc = pc /\ task'[s].n = task[s].n
    BY <2>1, <2>2 DEF Task
  <2> QED BY <2>1, <2>2, <2>3 DEF Quiet, QuietAt
<1> QED BY <1>1, <1>2

\* Leaving a seat, as a command or on the way to another, disturbs no join.
LEMMA LeaveQuiet ==
  ASSUME TInv, NEW s \in Sockets, NEW k, NEW waiting, IsCommand(waiting),
         Leave(s, k, waiting)
  PROVE  /\ task'[s].pc = waiting.pc /\ task'[s].n = waiting.n
         /\ Others(s)
<1>1. PICK l, r, m, q : task' \in {[task EXCEPT ![s] = Awaiting(waiting, l, r)],
                            TaskPut([task EXCEPT ![s] = Awaiting(waiting, l, r)], m, q)}
  BY DEF Leave
<1> DEFINE t == Awaiting(waiting, l, r)
<1>2. IsCommand(t) /\ t.pc = waiting.pc /\ t.n = waiting.n
  BY DEF Awaiting, IsCommand
<1>3. task' \in {[task EXCEPT ![s] = t], TaskPut([task EXCEPT ![s] = t], m, q)}
  BY <1>1
<1> HIDE DEF t
<1> QED BY <1>2, <1>3, CommandsKnown, PutQuiet

\* What a claim makes of the socket that asked: a command for the same join.
LEMMA ClaimQuiet ==
  ASSUME TInv, NEW s \in Sockets, NEW n, NEW k, NEW attempt, Claim(s, n, k, attempt)
  PROVE  /\ task'[s].pc \in SeekingPcs => task'[s].n = n
         /\ Others(s)
<1>1. Commands
  BY CommandsKnown
<1>2. ASSUME Refused(s) \/ task' = [task EXCEPT ![s] = Idle]
      PROVE  /\ task'[s].pc \in SeekingPcs => task'[s].n = n
             /\ Others(s)
  <2>1. task' = [task EXCEPT ![s] = Idle]
    BY <1>2 DEF Refused
  <2>2. Idle.pc \notin SeekingPcs
    BY DEF Idle, SeekingPcs, EarlyPcs
  <2> QED BY <1>1, <2>1, <2>2 DEF Commands, Others, SameAt
<1>3. ASSUME NEW c, NEW le, NEW map, Register(s, n, c, le, map)
      PROVE  /\ task'[s].pc \in SeekingPcs => task'[s].n = n
             /\ Others(s)
  <2>1. [task[s] EXCEPT !.pc = "room", !.n = n, !.claim = c].n = n
    BY <1>1 DEF Commands, IsCommand
  <2> QED BY <1>1, <1>3, <2>1 DEF Register, Commands, Others, SameAt
<1>4. ASSUME NEW pc, NEW l, NEW r, WaitsFor(s, n, pc, l, r)
      PROVE  /\ task'[s].pc \in SeekingPcs => task'[s].n = n
             /\ Others(s)
  <2> DEFINE t == [Idle EXCEPT !.pc = pc, !.n = n,
                               !.wait = IF r.fin = "run" THEN l ELSE 0,
                               !.got = IF r.fin = "run" THEN "" ELSE r.fin]
  <2>1. IsCommand(t) /\ t.n = n
    BY DEF Idle, IsCommand
  <2>2. task' \in {[task EXCEPT ![s] = t], TaskPut([task EXCEPT ![s] = t], l, r)}
    BY <1>4 DEF WaitsFor
  <2> HIDE DEF t
  <2>3. task'[s].n = t.n /\ Others(s)
    BY <1>1, <2>1, <2>2, PutQuiet
  <2> QED BY <2>1, <2>3
<1> QED BY <1>2, <1>3, <1>4 DEF Claim

-----------------------------------------------------------------------------
(* Every step is one of the ledger. *)

StepKept == Ledger!Next /\ OneCommandEach'

\* Fading is a step of the ledger.
LEMMA FadeKept ==
  ASSUME LInv, Quiet, joins' = joins, FadesTo(seats, seats')
  PROVE  StepKept
BY FadeStep DEF StepKept, Ledger!Next

\* The roster is a table, and fades into itself.
LEMMA SeatsFade == ASSUME LInv PROVE IsTable(seats) /\ FadesTo(seats, seats)
BY FadesSame DEF LInv, CInv, SeatTable, IsTable

\* Whatever leaves roster, commands and joins alone.
LEMMA NothingKept ==
  ASSUME LInv, UNCHANGED <<seats, task, joins>>
  PROVE  StepKept
BY SeatsFade, FadeKept DEF Quiet, QuietAt

\* Steps of a finalizer and timers take away at most the seat of their lease.
LEMMA LeaseKept ==
  ASSUME LInv, NEW n \in LeaseId, Finalizer(n) \/ Timer(n)
  PROVE  StepKept
<1> DEFINE closed == closePeer(seats, LeaseKey(n), TransportOf(n))
<1>1. TInv /\ FadesTo(seats, seats) /\ FadesTo(seats, closed)
  BY SeatsFade, CloseFades DEF LInv
<1> HIDE DEF closed
<1>2. ASSUME NEW r, NEW st, NEW so, FinalizerStep(n, r, st, so), st \in {seats, closed}
      PROVE  StepKept
  <2>1. seats' \in {seats, closed}
    BY <1>2 DEF FinalizerStep
  <2> QED BY <1>1, <1>2, <2>1, FinalizerQuiet, FadeKept
<1>3. ASSUME NEW r, Evicted(n, r) PROVE StepKept
  BY <1>2, <1>3 DEF Evicted, closed
<1>4. CASE PrerequisiteDone(n)
  BY <1>2, <1>3, <1>4 DEF PrerequisiteDone
<1>5. CASE CredentialsRevoked(n)
  <2>1. \/ \E r : Evicted(n, r)
        \/ \E r, st : FinalizerStep(n, r, st, sock) /\ st \in {seats, closed}
    BY <1>5 DEF CredentialsRevoked, closed
  <2> QED BY <1>2, <1>3, <2>1
<1>6. CASE IdentityInvalidated(n) \/ ParticipantRemoved(n)
  BY <1>2, <1>6 DEF IdentityInvalidated, ParticipantRemoved
<1>7. CASE LeaseExpires(n)
  BY <1>2, <1>7 DEF LeaseExpires
<1>8. CASE DeadlinePasses(n) \/ TerminalForgotten(n)
  BY <1>8, NothingKept DEF DeadlinePasses, TerminalForgotten
<1> QED BY <1>4, <1>5, <1>6, <1>7, <1>8 DEF Finalizer, Timer

\* Requests take seats away only where they tell a room of its deletion.
LEMMA RequestKept ==
  ASSUME LInv, NEW o \in Ops, Moderation(o) \/ RequestStep(o)
  PROVE  StepKept
<1>1. CASE Moderation(o)
  BY <1>1, NothingKept DEF Moderation, Kick, Ban, PutBan, DeleteRoom, DisconnectAccountFromRoom
<1>2. CASE PersistBan(o) \/ AfterBanCommitted(o) \/ RequestResumes(o)
  BY <1>2, NothingKept DEF PersistBan, AfterBanCommitted, RequestResumes
<1>3. CASE FinishRoomDeletion(o)
  <2>1. (\E r : seats' = publish(seats, r, NoKey)) /\ UNCHANGED <<task, joins>>
    BY <1>3 DEF FinishRoomDeletion
  <2>2. FadesTo(seats, seats')
    BY <2>1, SeatsFade, ToldFades
  <2> QED BY <2>1, <2>2, FadeKept DEF Quiet, QuietAt
<1> QED BY <1>1, <1>2, <1>3 DEF RequestStep

\* Any other event of a room.
LEMMA EventKept ==
  ASSUME LInv, NEW r \in Rooms, PublishRoomEvent(r)
  PROVE  StepKept
<1>1. seats' = publish(seats, r, NoKey) /\ UNCHANGED <<task, joins>>
  BY DEF PublishRoomEvent
<1>2. FadesTo(seats, seats')
  BY <1>1, SeatsFade, ToldFades
<1> QED BY <1>1, <1>2, FadeKept DEF Quiet, QuietAt

\* Leaving, and a socket that dies or closes.
LEMMA LeavingKept ==
  ASSUME LInv, NEW s \in Sockets,
         \/ \E n \in JoinId : LeaveRequest(s, n)
         \/ LeaveResumes(s) \/ SocketDies(s) \/ SocketCloses(s)
  PROVE  StepKept
<1>0. TInv /\ FadesTo(seats, seats) /\ IsTable(seats)
  BY SeatsFade DEF LInv
<1>1. ASSUME NEW n \in JoinId, LeaveRequest(s, n) PROVE StepKept
  <2> DEFINE t == [Idle EXCEPT !.pc = "leave", !.n = n]
  <2>1. IsCommand(t) /\ t.pc = "leave"
    BY DEF Idle, IsCommand
  <2>2. \/ Leave(s, joins[n], t)
        \/ task' = task
    BY <1>1 DEF LeaveRequest
  <2> HIDE DEF t
  <2>3. Quiet
    <3>1. CASE Leave(s, joins[n], t)
      <4>1. task'[s].pc = "leave" /\ Others(s)
        BY <1>0, <2>1, <3>1, LeaveQuiet
      <4>2. QuietAt(s)
        BY <4>1 DEF QuietAt, SeekingPcs, EarlyPcs
      <4> QED BY <4>1, <4>2 DEF Quiet, QuietAt, Others, SameAt
    <3>2. CASE task' = task
      BY <3>2 DEF Quiet, QuietAt
    <3> QED BY <2>2, <3>1, <3>2
  <2>4. seats' = seats /\ joins' = joins
    BY <1>1 DEF LeaveRequest
  <2> QED BY <1>0, <2>3, <2>4, FadeKept
<1>2. CASE LeaveResumes(s)
  <2>1. task' = [task EXCEPT ![s] = Idle] /\ seats' = seats /\ joins' = joins
    BY <1>2 DEF LeaveResumes
  <2>2. Idle.pc \notin SeekingPcs
    BY DEF Idle, SeekingPcs, EarlyPcs
  <2>3. Quiet
    BY <1>0, <2>1, <2>2, CommandsKnown DEF Commands, Quiet, QuietAt
  <2> QED BY <1>0, <2>1, <2>3, FadeKept
<1>3. CASE SocketDies(s)
  BY <1>3, NothingKept DEF SocketDies
<1>4. CASE SocketCloses(s)
  <2>1. /\ UNCHANGED <<task, joins>>
        /\ \/ seats' = seats
           \/ \E k : seats' = [seats EXCEPT ![k].conn = NoSocket]
    BY <1>4 DEF SocketCloses
  <2>2. ASSUME NEW k, seats' = [seats EXCEPT ![k].conn = NoSocket]
        PROVE  FadesTo(seats, seats')
    <3> DEFINE lost == {j \in Keys : j = k}
    <3>1. seats' = [j \in Keys |-> IF j \in {} THEN Vacant
                                   ELSE IF j \in lost THEN [seats[j] EXCEPT !.conn = NoSocket]
                                   ELSE seats[j]]
      BY <1>0, <2>2 DEF IsTable
    <3>2. {} \in SUBSET Keys /\ lost \in SUBSET Keys
      OBVIOUS
    <3> HIDE DEF lost
    <3> QED BY <3>1, <3>2 DEF FadesTo
  <2>3. FadesTo(seats, seats') /\ task' = task /\ joins' = joins
    BY <1>0, <2>1, <2>2
  <2> QED BY <2>3, FadeKept DEF Quiet, QuietAt
<1> QED BY <1>1, <1>2, <1>3, <1>4

\* A new join is asked for, and seeks its seat or is turned away.
LEMMA RequestAsks ==
  ASSUME LInv, NEW s \in Sockets, NEW k \in Keys, JoinRequest(s, k)
  PROVE  StepKept
<1> DEFINE n == Len(joins) + 1
<1>1. /\ TInv /\ Claim(s, n, k, "first") /\ seats' = seats
      /\ joins' = Append(joins, k) /\ task[s] = Idle
  BY DEF LInv, JoinRequest
<1>2. n \in Nat /\ \A x \in Seeking : task[x].n # n
  <2>1. Len(joins) \in Nat /\ task \in [Sockets -> KnownTask(Len(joins))]
    BY <1>1, ConstantsAssumption DEF TInv, LeaseInv, JoinsInv
  <2>2. ASSUME NEW x \in Seeking PROVE task[x].n \in 1..Len(joins)
    BY <2>1 DEF Seeking, SeekingPcs, EarlyPcs, KnownTask
  <2> QED BY <2>1, <2>2
<1> HIDE DEF n
<1>3. /\ task'[s].pc \in SeekingPcs => task'[s].n = n
      /\ Others(s)
  BY <1>1, ClaimQuiet
<1>4. s \notin Seeking
  <2>1. Idle.pc \notin SeekingPcs
    BY DEF Idle, SeekingPcs, EarlyPcs
  <2> QED BY <1>1, <2>1 DEF Seeking
<1>5. OneCommandEach'
  BY <1>2, <1>3, <1>4 DEF OneCommandEach, Seeking, Others, SameAt, LInv
<1>6. Seeking' = IF task'[s].pc \in SeekingPcs THEN Seeking \cup {s} ELSE Seeking
  BY <1>3, <1>4 DEF Seeking, Others, SameAt
<1>7. \A x \in Seeking : x \in Sockets \ {s} /\ task'[x].n = task[x].n
  BY <1>3, <1>4 DEF Seeking, Others, SameAt
<1>8. Unserved' \in {Unserved, Unserved \cup {n}}
  <2>1. CASE task'[s].pc \in SeekingPcs
    <3>1. Unserved' = {task'[x].n : x \in Seeking \cup {s}}
      BY <1>6, <2>1 DEF Unserved
    <3> QED BY <1>3, <1>7, <2>1, <3>1 DEF Unserved
  <2>2. CASE task'[s].pc \notin SeekingPcs
    BY <1>6, <1>7, <2>2 DEF Unserved
  <2> QED BY <2>1, <2>2
<1>9. Ledger!Ask
  BY <1>1, <1>8 DEF Ledger!Ask, Ledger!Keys, Keys, n
<1> QED BY <1>5, <1>9 DEF StepKept, Ledger!Next

\* A full table of seats, one of which is replaced or empty.
SeatedAs(old, k, c, n, ended) ==
  [j \in Keys |-> IF j = k THEN [t |-> n, conn |-> c]
                  ELSE IF j \in ended THEN Vacant ELSE old[j]]

\* Within the limits of the runtime there is room in the ledger.
LEMMA RoomLeft ==
  ASSUME CInv, NEW k, ~Full(k)
  PROVE  Ledger!RoomFor(k)
<1>1. /\ InRoom(seats, k[1]) \subseteq Occupied(seats)
      /\ IsFiniteSet(Occupied(seats))
  BY DEF InRoom, CInv
<1>2. Cardinality(InRoom(seats, k[1])) \in Nat /\ Cardinality(Occupied(seats)) \in Nat
  BY <1>1, FS_Subset, FS_CardinalityType
<1>3. /\ Cardinality(InRoom(seats, k[1])) < MaxRoomPeers
      /\ Cardinality(Occupied(seats)) < MaxVoicePeers
  BY <1>2, ConstantsAssumption DEF Full
<1>4. Ledger!Taken = Occupied(seats) /\ {j \in Ledger!Taken : j[1] = k[1]} = InRoom(seats, k[1])
  BY DEF Ledger!Taken, Ledger!Keys, Keys, Occupied, InRoom
<1>5. \A S : Ledger!Cardinality(S) = Cardinality(S)
  BY DEF Ledger!Cardinality, Cardinality
<1> QED BY <1>3, <1>4, <1>5 DEF Ledger!RoomFor

\* A join that takes its seat is served, and no other is.
LEMMA Served ==
  ASSUME LInv, NEW s \in Seeking, task'[s].pc \notin SeekingPcs, Others(s),
         joins' = joins, KeyOf(s) \in Keys,
         seats[KeyOf(s)].t # 0 \/ ~Full(KeyOf(s)),
         NEW ended \in SUBSET (Keys \ {KeyOf(s)}),
         seats' = SeatedAs(seats, KeyOf(s), s, task[s].n, ended)
  PROVE  StepKept
<1> DEFINE n == task[s].n
           k == KeyOf(s)
<1>1. s \in Sockets /\ n \in Unserved /\ k = joins[n]
  BY DEF Seeking, Unserved, KeyOf
<1>2. Seeking' = Seeking \ {s} /\ \A x \in Seeking \ {s} : task'[x].n = task[x].n
  BY DEF Seeking, Others, SameAt
<1>3. Unserved' = Unserved \ {n}
  <2>1. \A x \in Seeking \ {s} : task[x].n # n
    BY DEF LInv, OneCommandEach
  <2>2. Unserved' = {task[x].n : x \in Seeking \ {s}}
    BY <1>2 DEF Unserved
  <2> QED BY <2>1, <2>2 DEF Unserved
<1>4. OneCommandEach'
  BY <1>2 DEF LInv, OneCommandEach
<1>5. seats[k].t # 0 \/ Ledger!RoomFor(k)
  BY RoomLeft DEF LInv
<1>6. Ledger!Serve(n, s)
  BY <1>1, <1>3, <1>5 DEF Ledger!Serve, SeatedAs, Ledger!Keys, Keys, Ledger!Empty, Vacant
<1> QED BY <1>1, <1>4, <1>6 DEF StepKept, Ledger!Next

\* Taking a seat serves the join, unless it gives up, or its own socket took no
\* writes when the room was told.
LEMMA TakesKept ==
  ASSUME LInv, NEW s \in Seeking, NEW so, NEW au, TakeSeat(s, so, au), joins' = joins
  PROVE  StepKept
<1> DEFINE n == task[s].n
           k == KeyOf(s)
           seated == [seats EXCEPT ![k] = [t |-> n, conn |-> s]]
<1>1. /\ TInv /\ CInv /\ s \in Sockets /\ task[s].pc \in SeekingPcs
      /\ IsTable(seats) /\ FadesTo(seats, seats)
  BY SeatsFade DEF LInv, Seeking
<1>2. CASE GivesUp(s, au) /\ UNCHANGED seats
  BY <1>1, <1>2, JoinEndsQuiet, FadeKept DEF GivesUp
<1>3. CASE /\ seats[k].t = 0 => ~Full(k)
           /\ seats' = IF seats[k].t # 0 THEN seated ELSE publish(seated, k[1], k)
           /\ \E others : task' = [x \in Sockets |->
                        IF x = s THEN [Idle EXCEPT !.pc = "occupancy", !.n = n]
                        ELSE IF x \in others THEN [task[x] EXCEPT !.claim = n + MaxJoins]
                        ELSE task[x]]
  <2>1. k \in Keys
    BY <1>1, KeyOfType DEF TInv, LeaseInv, JoinsInv, SeekingPcs, EarlyPcs
  <2>2. task'[s].pc \notin SeekingPcs /\ Others(s)
    <3>1. task'[s] = [Idle EXCEPT !.pc = "occupancy", !.n = n]
      BY <1>1, <1>3
    <3>2. task'[s].pc \notin SeekingPcs
      BY <3>1 DEF Idle, SeekingPcs, EarlyPcs
    <3>3. \A x \in Sockets : /\ [task[x] EXCEPT !.claim = n + MaxJoins].pc = task[x].pc
                             /\ [task[x] EXCEPT !.claim = n + MaxJoins].n = task[x].n
      BY <1>1, CommandsKnown DEF Commands, IsCommand
    <3>4. \A x \in Sockets \ {s} :
            task'[x] \in {task[x], [task[x] EXCEPT !.claim = n + MaxJoins]}
      BY <1>3
    <3> QED BY <3>2, <3>3, <3>4 DEF Others, SameAt
  <2>3. IsTable(seated) /\ seated = SeatedAs(seats, k, s, n, {})
    BY <1>1, <2>1 DEF IsTable, SeatedAs
  <2>4. CASE seats' = seated
    <3>1. {} \in SUBSET (Keys \ {k})
      OBVIOUS
    <3> QED BY <1>3, <2>1, <2>2, <2>3, <2>4, <3>1, Served
  <2>5. CASE seats[k].t = 0 /\ seats' = publish(seated, k[1], k)
    <3>1. PICK ended \in SUBSET Keys :
            publish(seated, k[1], k) = [j \in Keys |-> IF j \in ended THEN Vacant ELSE seated[j]]
      <4> HIDE DEF seated
      <4> QED BY <2>3, PublishFades
    <3>2. CASE k \notin ended
      <4>1. ended \in SUBSET (Keys \ {k})
        BY <3>2
      <4>2. seats' = SeatedAs(seats, k, s, n, ended)
        BY <2>3, <2>5, <3>1, <3>2 DEF SeatedAs
      <4> QED BY <1>3, <2>1, <2>2, <2>5, <4>1, <4>2, Served
    <3>3. CASE k \in ended
      <4>1. seats' = [j \in Keys |-> IF j \in ended THEN Vacant ELSE seats[j]]
        BY <2>3, <2>5, <3>1, <3>3 DEF SeatedAs
      <4>2. FadesTo(seats, seats')
        BY <4>1, EmptiedFades
      <4>3. Quiet
        BY <2>2 DEF Quiet, QuietAt, Others, SameAt
      <4> QED BY <4>2, <4>3, FadeKept
    <3> QED BY <3>2, <3>3
  <2> QED BY <1>3, <2>4, <2>5
<1> QED BY <1>2, <1>3 DEF TakeSeat

\* A join past its seat takes away at most that one and those of dead sockets.
LEMMA SeatReleases ==
  ASSUME LInv, NEW s \in Sockets, ReleaseSeat(s) \/ SupersededSeat(s) \/ seats' = seats
  PROVE  FadesTo(seats, seats')
<1>1. seats' \in {seats, closePeer(seats, KeyOf(s), task[s].n)}
  BY DEF ReleaseSeat, SupersededSeat
<1> QED BY <1>1, SeatsFade, CloseFades

\* The finalizer a join waited for has answered: it goes on or is turned away.
LEMMA ResumesKept ==
  ASSUME LInv, NEW s \in Sockets, JoinResumes(s)
  PROVE  StepKept
<1>1. /\ task[s].pc \in SeekingPcs /\ TInv /\ seats' = seats /\ joins' = joins
      /\ Refused(s) \/ \E attempt : Claim(s, task[s].n, KeyOf(s), attempt)
  BY DEF JoinResumes, SeekingPcs, LInv
<1>2. CASE Refused(s)
  <2>1. task' = [task EXCEPT ![s] = Idle] /\ Idle.pc \notin SeekingPcs
    BY <1>2 DEF Refused, Idle, SeekingPcs, EarlyPcs
  <2>2. Quiet
    BY <1>1, <2>1, CommandsKnown DEF Commands, Quiet, QuietAt
  <2> QED BY <1>1, <2>2, SeatsFade, FadeKept
<1>3. ASSUME NEW attempt, Claim(s, task[s].n, KeyOf(s), attempt) PROVE StepKept
  <2>1. /\ task'[s].pc \in SeekingPcs => task'[s].n = task[s].n
        /\ Others(s)
    BY <1>1, <1>3, ClaimQuiet
  <2>2. Quiet
    BY <1>1, <2>1 DEF Quiet, QuietAt, Others, SameAt
  <2> QED BY <1>1, <2>2, SeatsFade, FadeKept
<1> QED BY <1>1, <1>2, <1>3

\* The lookups before the seat is authorized.
LEMMA LookupKept ==
  ASSUME LInv, NEW s \in Sockets,
         GetRoom(s) \/ FindRoomBan(s) \/ GetOrCreatePeerIdentity(s)
  PROVE  StepKept
<1>1. /\ task[s].pc \in SeekingPcs /\ seats' = seats /\ joins' = joins
      /\ \E pc \in LatePcs : GivesUp(s, auth) \/ Rejected(s) \/ Proceeds(s, pc)
  BY DEF GetRoom, FindRoomBan, GetOrCreatePeerIdentity, JoinAt, SeekingPcs, LatePcs
<1>2. Quiet
  BY <1>1, GoesOnQuiet DEF LInv
<1> QED BY <1>1, <1>2, SeatsFade, FadeKept

\* The mute lookup, the authorization and the seat.
LEMMA SeatingKept ==
  ASSUME LInv, NEW s \in Sockets, LoadServerMute(s) \/ LeftOther(s)
  PROVE  StepKept
<1> DEFINE waiting == [task[s] EXCEPT !.pc = "leaveOther"]
<1>1. /\ TInv /\ task[s].pc \in SeekingPcs /\ s \in Seeking /\ joins' = joins
      /\ "mute" \in LatePcs /\ FadesTo(seats, seats)
  BY SeatsFade DEF LInv, LoadServerMute, LeftOther, JoinAt, SeekingPcs, Seeking, LatePcs
<1>2. CASE (\E au : GivesUp(s, au) \/ Rejected(s)) /\ UNCHANGED seats
  <2>1. Quiet
    BY <1>1, <1>2, GoesOnQuiet
  <2> QED BY <1>1, <1>2, <2>1, FadeKept
<1>3. CASE (\E k : Leave(s, k, waiting)) /\ UNCHANGED seats
  <2>1. IsCommand(waiting) /\ waiting.n = task[s].n
    BY <1>1, CommandsKnown DEF Commands, IsCommand
  <2> HIDE DEF waiting
  <2>2. task'[s].n = task[s].n /\ Others(s)
    BY <1>1, <1>3, <2>1, LeaveQuiet
  <2>3. Quiet
    BY <1>1, <2>2 DEF Quiet, QuietAt, Others, SameAt
  <2> QED BY <1>1, <1>3, <2>3, FadeKept
<1>4. CASE \E so, au : TakeSeat(s, so, au)
  BY <1>1, <1>4, TakesKept
<1> HIDE DEF waiting
<1>5. CASE LoadServerMute(s)
  <2>1. \/ Rejected(s) /\ UNCHANGED seats
        \/ GivesUp(s, auth) /\ UNCHANGED seats
        \/ (\E k : Leave(s, k, waiting)) /\ UNCHANGED seats
        \/ \E so, au : TakeSeat(s, so, au)
    BY <1>5 DEF LoadServerMute, waiting
  <2> QED BY <1>2, <1>3, <1>4, <2>1
<1>6. CASE LeftOther(s)
  <2>1. \/ GivesUp(s, auth) /\ UNCHANGED seats
        \/ \E so, au : TakeSeat(s, so, au)
    BY <1>6 DEF LeftOther
  <2> QED BY <1>2, <1>4, <2>1
<1> QED BY <1>5, <1>6

\* What follows the seat: it is kept, given back or already another's.
LEMMA SeatedKept ==
  ASSUME LInv, NEW s \in Sockets,
         OccupancyQueued(s) \/ FindLateBan(s) \/ BuildRoomSnapshot(s)
  PROVE  StepKept
<1>1. /\ \E pc \in {"lateBan", "snapshot"} : GivesUp(s, auth) \/ Proceeds(s, pc)
      /\ ReleaseSeat(s) \/ SupersededSeat(s) \/ seats' = seats
      /\ joins' = joins
  BY DEF OccupancyQueued, FindLateBan, BuildRoomSnapshot, SupersededSeat
<1>2. \A pc \in {"lateBan", "snapshot"} : pc \in LatePcs /\ pc \notin SeekingPcs
  BY DEF LatePcs, SeekingPcs, EarlyPcs
<1>3. Quiet
  BY <1>1, <1>2, GoesOnQuiet DEF LInv
<1> QED BY <1>1, <1>3, SeatReleases, FadeKept

-----------------------------------------------------------------------------
(* The runtime implements the ledger. *)

\* Every step of the runtime is one of the ledger, or changes nothing in it.
LEMMA StepsKept ==
  LInv /\ [Next]_vars => [Ledger!Next]_(Ledger!ledger) /\ OneCommandEach'
<1> SUFFICES ASSUME LInv, [Next]_vars PROVE StepKept
  BY DEF StepKept
<1>1. CASE UNCHANGED vars
  BY <1>1, NothingKept DEF vars
<1>2. ASSUME NEW s \in Sockets, Client(s) \/ JoinStep(s) \/ LeaveResumes(s) PROVE StepKept
  <2>1. CASE \E k \in Keys : JoinRequest(s, k)
    BY <2>1, RequestAsks
  <2>2. CASE Client(s) \/ LeaveResumes(s)
    BY <2>1, <2>2, LeavingKept DEF Client
  <2>3. CASE JoinStep(s)
    BY <2>3, ResumesKept, LookupKept, SeatingKept, SeatedKept DEF JoinStep
  <2> QED BY <1>2, <2>2, <2>3
<1>3. ASSUME NEW n \in LeaseId, Finalizer(n) \/ Timer(n) PROVE StepKept
  BY <1>3, LeaseKept
<1>4. ASSUME NEW o \in Ops, Moderation(o) \/ RequestStep(o) PROVE StepKept
  BY <1>4, RequestKept
<1>5. ASSUME NEW r \in Rooms, PublishRoomEvent(r) PROVE StepKept
  BY <1>5, EventKept
<1> QED BY <1>1, <1>2, <1>3, <1>4, <1>5 DEF Next

\* At first no join is asked for, and nobody sits anywhere.
LEMMA StartsKept == Init => Ledger!Init /\ OneCommandEach
<1> SUFFICES ASSUME Init PROVE Ledger!Init /\ OneCommandEach
  OBVIOUS
<1>1. Seeking = {} /\ joins = <<>> /\ seats = [k \in Keys |-> Vacant]
  BY DEF Init, Seeking, SeekingPcs, EarlyPcs, Idle
<1>2. Unserved = {}
  BY <1>1 DEF Unserved
<1> QED BY <1>1, <1>2 DEF OneCommandEach, Ledger!Init, Ledger!Keys, Keys, Ledger!Empty, Vacant

\* The voice runtime implements the ledger of seats: whatever joins, leases,
\* closing sockets and moderation do to each other, a join is served at most once,
\* with the seat it asked for and within the limits (joinVoiceRoom), and a seat
\* that was emptied or lost its socket is filled by another join only.
THEOREM Implements == Spec => KeepsLedger
<1>1. Init => Ledger!Init /\ LInv
  BY TypesInit, CInvInit, StartsKept DEF LInv
<1>2. LInv /\ [Next]_vars => [Ledger!Next]_(Ledger!ledger) /\ LInv'
  <2>1. LInv => TInv /\ CInv /\ seats \in [Keys -> Seat]
    BY DEF LInv, TInv, RosterInv
  <2> QED BY <2>1, StepsKept, TypesStep, CInvStep DEF LInv
<1> QED BY <1>1, <1>2, PTL DEF Spec, KeepsLedger, Ledger!Spec

-----------------------------------------------------------------------------
(* Joins that were delayed. *)

\* A record whose finalizer has settled, and that is not retried.
Spent(r) == r.fin \in {"ok", "err"} /\ r.stage = "" /\ r.state \notin FailedStates

\* A record that says of no session that it ended, or will let nobody retry.
Harmless(r) == r.reason = "" \/ Spent(r)

\* A command is where it was, or has just heard from the finalizer it awaits.
ToldAs(old, new) ==
  /\ new.pc = old.pc /\ new.n = old.n
  /\ \/ new.wait = old.wait /\ new.got = old.got
     \/ /\ old.wait \in LeaseId /\ new.wait = 0
        /\ \/ new.got = "err"
           \/ new.got = "ok" /\ Harmless(lease'[old.wait])
Told(S) == \A x \in S : ToldAs(task[x], task'[x])

\* Why and when a lease was ended: as its state says, or not at all.
Sound(r) ==
  /\ r.state \in {"none", "pending", "claimed", "finalizer-failed"} => r.reason = ""
  /\ r.reason = "" => r.atSeq = 0
Records == \A n \in LeaseId : Sound(lease[n])

\* A record that keeps out none of the joins so far.
Open(r) == r.reason \in {"", "left"} \/ r.atSeq >= Len(joins)

\* What becomes of a record in a step: it keeps out the joins it kept out
\* before, for good if it did so for good, or none of those there are.
Carried(old, new) ==
  \/ Open(new)
  \/ new.reason = old.reason /\ new.atSeq = old.atSeq /\ (Spent(old) => Spent(new))
RecordStep(old, new) == Sound(new) /\ Carried(old, new)

\* So for every record, and no record that keeps out a join comes into the map.
TablesKept ==
  /\ \A n \in LeaseId : RecordStep(lease[n], lease'[n])
  /\ \A k \in Keys : leaseOf'[k] \in {0, leaseOf[k]} \/ Open(lease'[leaseOf'[k]])

-----------------------------------------------------------------------------
(* Records. *)

\* The loop over the callbacks, its start and the end of one callback change
\* neither the cause nor the state.
SameCause(old, new) ==
  new.reason = old.reason /\ new.atSeq = old.atSeq /\ new.state = old.state

\* The loop goes on within the same record.
LEMMA AdvanceSame ==
  ASSUME NEW os, NEW r \in LeaseOver(os)
  PROVE  SameCause(r, Advance(r))
<1> DEFINE left == {i \in r.idx..Len(r.cbs) : ~(KindOf(r.cbs[i]) = "delete" /\ r.owned)}
           next == CHOOSE i \in left : \A j \in left : i <= j
<1>1. Advance(r) \in {[r EXCEPT !.stage = "settle"],
                      [r EXCEPT !.cb = r.cbs[next], !.idx = next + 1,
                                !.stage = FirstStage(r.cbs[next])]}
  BY DEF Advance
<1> HIDE DEF left, next
<1> QED BY <1>1 DEF LeaseOver, SameCause

\* The end of one callback.
LEMMA ReturnedSame ==
  ASSUME NEW os, NEW r \in LeaseOver(os), NEW released \in BOOLEAN,
         NEW failure \in {"no", "plain", "rollback"}
  PROVE  SameCause(r, Returned(r, released, failure))
<1> DEFINE q == [r EXCEPT !.owned = @ \/ released,
                          !.fail = IF @ = "no" THEN failure ELSE @]
<1>1. q \in LeaseOver(os) /\ SameCause(r, q)
  BY DEF LeaseOver, SameCause
<1> HIDE DEF q
<1>2. Returned(r, released, failure) = Advance(q)
  BY DEF Returned, q
<1> QED BY <1>1, <1>2, AdvanceSame DEF SameCause

\* The start of a finalizer, when there is none yet.
LEMMA StartedSame ==
  ASSUME NEW os, NEW r \in LeaseOver(os), NEW st, NEW n
  PROVE  SameCause(r, Begin(st, n, r)) /\ SameCause(r, Started(st, n, r))
<1> DEFINE r0 == [r EXCEPT !.fin = "run", !.idx = 1, !.owned = FALSE, !.fail = "no"]
           a == [r0 EXCEPT !.cb = Head(r.cbs), !.cbs = Tail(r.cbs),
                           !.stage = FirstStage(Head(r.cbs))]
           b == [r0 EXCEPT !.cb = NoOp, !.stage = "revoke"]
<1>1. r0 \in LeaseOver(os) /\ SameCause(r, r0)
  <2>1. 1 \in Nat \ {0}
    OBVIOUS
  <2> QED BY <2>1 DEF LeaseOver, SameCause
<1>2. SameCause(r0, Advance(r0)) /\ SameCause(r0, a) /\ SameCause(r0, b)
  <2> HIDE DEF r0
  <2>1. SameCause(r0, Advance(r0))
    BY <1>1, AdvanceSame
  <2>2. SameCause(r0, a) /\ SameCause(r0, b)
    BY <1>1 DEF LeaseOver, SameCause
  <2> QED BY <2>1, <2>2
<1>3. Begin(st, n, r) \in {Advance(r0), a, b}
  BY DEF Begin
<1> HIDE DEF r0, a, b
<1>4. SameCause(r, Begin(st, n, r))
  BY <1>1, <1>2, <1>3 DEF SameCause
<1> QED BY <1>4 DEF Started, SameCause

\* A record is carried over when a step leaves it as it is, or two in a row do.
LEMMA RecordSteps ==
  ASSUME NEW a, NEW b, NEW c
  PROVE  /\ Sound(a) => RecordStep(a, a)
         /\ RecordStep(a, b) /\ RecordStep(b, c) => RecordStep(a, c)
BY DEF RecordStep, Carried, Open

\* No lease, and a fresh one, keep nobody out.
LEMMA FreshOpen ==
  /\ Sound(NoLease) /\ Open(NoLease)
  /\ \A taken, disc : LET r == [NoLease EXCEPT !.state = "pending", !.disc = disc,
                                               !.taken = taken]
                      IN Sound(r) /\ Open(r)
  /\ Sound([NoLease EXCEPT !.state = "pending"]) /\ Open([NoLease EXCEPT !.state = "pending"])
BY DEF NoLease, Sound, Open

\* A finalizer that settles without a failure leaves nothing to retry.
LEMMA SettledHarmless ==
  ASSUME NEW os, NEW r \in LeaseOver(os), NEW st, NEW n, r.fail = "no"
  PROVE  Harmless(Settled(st, n, r))
<1> DEFINE done == [r EXCEPT !.fin = Result(r), !.cb = NoOp, !.stage = "",
                             !.idx = 1, !.owned = FALSE, !.fail = "no"]
<1>1. Settled(st, n, r) \in {NoLease, [done EXCEPT !.state = "terminal"]}
  BY DEF Settled
<1>2. [done EXCEPT !.state = "terminal"].fin = "ok" /\ [done EXCEPT !.state = "terminal"].stage = ""
      /\ [done EXCEPT !.state = "terminal"].state = "terminal"
  BY DEF LeaseOver, Result
<1> DEFINE ended == [done EXCEPT !.state = "terminal"]
<1>3. Settled(st, n, r) \in {NoLease, ended} /\ NoLease.reason = ""
  BY <1>1 DEF NoLease
<1>4. ended.fin = "ok" /\ ended.stage = "" /\ ended.state = "terminal"
  BY <1>2
<1> HIDE DEF done, ended
<1> QED BY <1>3, <1>4 DEF Harmless, Spent, FailedStates

\* Disposing of a settled record carries it over.
LEMMA FinishStep ==
  ASSUME NEW os, NEW r \in LeaseOver(os), NEW old, RecordStep(old, r), NEW st, NEW n
  PROVE  RecordStep(old, Finish(st, n, r))
<1>1. CASE r.stage # "settle"
  BY <1>1 DEF Finish
<1>2. CASE r.stage = "settle"
  <2> DEFINE done == [r EXCEPT !.fin = Result(r), !.cb = NoOp, !.stage = "",
                               !.idx = 1, !.owned = FALSE, !.fail = "no"]
             back == [NoLease EXCEPT !.state = "pending", !.disc = TRUE, !.taken = r.taken]
  <2>1. RecordStep(old, NoLease) /\ RecordStep(old, back)
    BY FreshOpen DEF RecordStep, Carried
  <2>2. ~Spent(r)
    BY <1>2 DEF Spent
  <2>3. done.reason = r.reason /\ done.atSeq = r.atSeq
    BY DEF LeaseOver
  <2>4. done \in [state : {r.state}, disc : BOOLEAN, due : BOOLEAN, taken : BOOLEAN,
                  reason : {r.reason}, atSeq : {r.atSeq}, cbs : Seq(os), idx : Nat \ {0},
                  fin : {"ok", "err"}, cb : os \cup {NoOp}, stage : Stages,
                  owned : BOOLEAN, fail : {"no"}]
    <3>1. 1 \in Nat \ {0}
      OBVIOUS
    <3> QED BY <3>1 DEF LeaseOver, Stages, Result
  <2>5. ASSUME NEW state, state = "finalizer-failed" => r.reason = "",
               state \notin {"none", "pending", "claimed"}
        PROVE  RecordStep(old, [done EXCEPT !.state = state])
    <3> DEFINE new == [done EXCEPT !.state = state]
    <3>1. new.reason = r.reason /\ new.atSeq = r.atSeq /\ new.state = state
      <4> HIDE DEF done
      <4> QED BY <2>4
    <3> HIDE DEF new
    <3>2. Sound(new)
      BY <2>5, <3>1 DEF Sound, RecordStep
    <3>3. Carried(old, new)
      BY <2>2, <3>1 DEF Carried, RecordStep, Open
    <3> QED BY <3>2, <3>3 DEF RecordStep, new
  <2>6. Settled(st, n, r) \in {NoLease, back} \/
        \E state : /\ Settled(st, n, r) = [done EXCEPT !.state = state]
                   /\ state = "finalizer-failed" => r.reason = ""
                   /\ state \notin {"none", "pending", "claimed"}
    <3> HIDE DEF done, back
    <3>1. Settled(st, n, r) \in {NoLease, back} \/
          Settled(st, n, r) \in {[done EXCEPT !.state = "terminal"],
             [done EXCEPT !.state = IF r.reason # "" THEN "terminal-finalizer-failed"
                                                     ELSE "finalizer-failed"]}
      BY DEF Settled, done, back
    <3> QED BY <3>1
  <2> HIDE DEF done, back
  <2> QED BY <1>2, <2>1, <2>5, <2>6 DEF Finish
<1> QED BY <1>1, <1>2

\* A count of joins is as late as itself.
LEMMA CountReflexive == \A j \in 0..MaxJoins : j >= j
BY ConstantsAssumption

\* Ending a lease terminally keeps out the joins so far only if it did before.
LEMMA TerminalStep ==
  ASSUME NEW os, NEW r \in LeaseOver(os), Sound(r), NEW reason \in Reasons, reason # "",
         NEW cbs \in Seq(os), NEW st, NEW n, Len(joins) \in 0..MaxJoins
  PROVE  RecordStep(r, Started(st, n, terminalClaimRecord(r, reason, cbs)))
<1> DEFINE c == terminalClaimRecord(r, reason, cbs)
<1>1. c \in LeaseOver(os)
  BY ClaimedType
<1>2. /\ c.reason = IF r.reason = "" THEN reason ELSE r.reason
      /\ c.atSeq = IF r.atSeq = 0 THEN Len(joins) ELSE r.atSeq
      /\ c.fin = IF r.state \in FailedStates THEN "none" ELSE r.fin
      /\ c.state \in {"finalizing-expiry", "terminal-finalizing"} /\ c.stage = r.stage
  BY DEF terminalClaimRecord, LeaseOver
<1>3. SameCause(c, Started(st, n, c)) /\ (Spent(r) => Started(st, n, c) = c /\ Spent(c))
  <2> HIDE DEF c
  <2>1. SameCause(c, Started(st, n, c))
    BY <1>1, StartedSame
  <2>2. Spent(r) => Started(st, n, c) = c /\ Spent(c)
    BY <1>2 DEF Started, Spent, FailedStates
  <2> QED BY <2>1, <2>2
<1> HIDE DEF c
<1>4. Sound(Started(st, n, c))
  BY <1>2, <1>3 DEF Sound, SameCause
<1>5. Carried(r, Started(st, n, c))
  <2>1. CASE r.atSeq = 0
    <3>1. Started(st, n, c).atSeq = Len(joins)
      BY <1>2, <1>3, <2>1 DEF SameCause
    <3> QED BY <3>1, CountReflexive DEF Carried, Open
  <2>2. CASE r.atSeq # 0
    BY <1>2, <1>3, <2>2 DEF Carried, Sound, SameCause
  <2> QED BY <2>1, <2>2
<1> QED BY <1>4, <1>5 DEF RecordStep, c

\* Giving a claim back: what was claimed says of no session that it ended.
LEMMA RestoreStep ==
  ASSUME NEW os, NEW r \in LeaseOver(os), Sound(r), NEW st, NEW n
  PROVE  RecordStep(r, restoreClaimedLease(st, n, r))
<1> DEFINE p == [r EXCEPT !.state = "pending"]
           q == [r EXCEPT !.state = "finalizing-expiry"]
<1>1. /\ p.reason = r.reason /\ p.atSeq = r.atSeq
      /\ q.reason = r.reason /\ q.atSeq = r.atSeq /\ q.state = "finalizing-expiry"
      /\ q \in LeaseOver(os)
  BY DEF LeaseOver, LeaseStates
<1>2. SameCause(q, Started(st, n, q))
  <2> HIDE DEF q
  <2> QED BY <1>1, StartedSame
<1>3. restoreClaimedLease(st, n, r) \in
        IF r.state # "claimed" THEN {r} ELSE {p, Started(st, n, q)}
  BY DEF restoreClaimedLease
<1> HIDE DEF p, q
<1>4. CASE r.state # "claimed"
  BY <1>3, <1>4, RecordSteps
<1>5. CASE r.state = "claimed"
  <2>1. r.reason = "" /\ r.atSeq = 0
    BY <1>5 DEF Sound
  <2>2. ASSUME NEW new, new.reason = "", new.atSeq = 0 PROVE RecordStep(r, new)
    BY <2>2 DEF RecordStep, Sound, Carried, Open
  <2> QED BY <1>1, <1>2, <1>3, <1>5, <2>1, <2>2 DEF SameCause
<1> QED BY <1>4, <1>5

\* Retrying a failed finalizer, and the expiry of a pending lease.
LEMMA RetryStep ==
  ASSUME NEW os, NEW r \in LeaseOver(os), Sound(r), NEW st, NEW n, r.state \in FailedStates
  PROVE  RecordStep(r, retryFailedLeaseFinalizer(st, n, r))
<1> DEFINE q == [r EXCEPT !.state = IF r.reason # "" THEN "terminal-finalizing"
                                                     ELSE "finalizing-expiry"]
<1>1. /\ q \in LeaseOver(os) /\ q.reason = r.reason /\ q.atSeq = r.atSeq
      /\ q.state \in {"terminal-finalizing", "finalizing-expiry"}
  BY DEF LeaseOver, LeaseStates
<1>2. SameCause(q, Begin(st, n, q)) /\ retryFailedLeaseFinalizer(st, n, r) = Begin(st, n, q)
  <2>1. retryFailedLeaseFinalizer(st, n, r) = Begin(st, n, q)
    BY DEF retryFailedLeaseFinalizer
  <2> HIDE DEF q
  <2> QED BY <1>1, <2>1, StartedSame
<1> HIDE DEF q
<1>3. ~Spent(r)
  BY DEF Spent
<1> QED BY <1>1, <1>2, <1>3 DEF RecordStep, Carried, Sound, SameCause

\* A pending lease expires.
LEMMA ExpiryStep ==
  ASSUME NEW os, NEW r \in LeaseOver(os), Sound(r), NEW st, NEW n, r.state = "pending"
  PROVE  LET new == Started(st, n, [r EXCEPT !.state = "finalizing-expiry", !.due = TRUE])
         IN new \in LeaseOver(os) /\ RecordStep(r, new)
<1> DEFINE q == [r EXCEPT !.state = "finalizing-expiry", !.due = TRUE]
<1>1. q \in LeaseOver(os) /\ q.reason = r.reason /\ q.atSeq = r.atSeq
  BY DEF LeaseOver, LeaseStates
<1>2. SameCause(q, Started(st, n, q)) /\ Started(st, n, q) \in LeaseOver(os)
  <2> HIDE DEF q
  <2> QED BY <1>1, StartedSame, StartedType
<1>3. r.reason = "" /\ r.atSeq = 0
  BY DEF Sound
<1> HIDE DEF q
<1> QED BY <1>1, <1>2, <1>3 DEF RecordStep, Carried, Open, Sound, SameCause, q

\* A pending lease is claimed.
LEMMA ClaimStep ==
  ASSUME NEW os, NEW r \in LeaseOver(os), Sound(r), r.state = "pending"
  PROVE  RecordStep(r, [r EXCEPT !.state = "claimed", !.taken = TRUE])
<1> DEFINE q == [r EXCEPT !.state = "claimed", !.taken = TRUE]
<1>1. q.reason = r.reason /\ q.atSeq = r.atSeq
  BY DEF LeaseOver
<1>2. r.reason = "" /\ r.atSeq = 0
  BY DEF Sound
<1> HIDE DEF q
<1> QED BY <1>1, <1>2 DEF RecordStep, Carried, Open, Sound, q

\* A step of a finalizer that runs keeps cause and state.
LEMMA RunningStep ==
  ASSUME NEW r, Sound(r), NEW new, SameCause(r, new), r.stage # ""
  PROVE  RecordStep(r, new)
BY DEF RecordStep, Carried, Sound, SameCause, Spent

-----------------------------------------------------------------------------
(* Tables of records. *)

\* The records there are, whatever request their callbacks are of.
LEMMA RecordTypes ==
  ASSUME TInv
  PROVE  /\ lease \in [LeaseId -> LeaseOver(Ops)] /\ leaseOf \in [Keys -> 0..MaxJoins]
         /\ Len(joins) \in 0..MaxJoins /\ Record(Asked) \subseteq LeaseOver(Ops)
         /\ \A i \in 0..MaxJoins : i # 0 => i \in LeaseId
<1>1. Asked \subseteq Ops
  BY DEF Asked
<1>2. Record(Asked) \subseteq Record(Ops)
  BY <1>1, RecordMonotonic
<1>3. Record(Asked) \subseteq LeaseOver(Ops)
  BY <1>2 DEF Record
<1>4. \A i \in 0..MaxJoins : i # 0 => i \in LeaseId
  BY ConstantsAssumption DEF LeaseId
<1> QED BY <1>3, <1>4 DEF TInv, LeaseInv, JoinsInv

\* A record is put back.
LEMMA PutTables ==
  ASSUME TInv, Records, NEW n \in LeaseId, NEW r \in LeaseOver(Ops), RecordStep(lease[n], r),
         NEW st, lease' = LeasePut(lease, st, n, r), leaseOf' = MapPut(leaseOf, st, n, r)
  PROVE  TablesKept
<1>1. lease' = [lease EXCEPT ![n] = Finish(st, n, r)] /\ lease \in [LeaseId -> LeaseOver(Ops)]
  BY RecordTypes DEF LeasePut
<1>2. RecordStep(lease[n], Finish(st, n, r))
  BY FinishStep
<1>3. \A m \in LeaseId : RecordStep(lease[m], lease'[m])
  BY <1>1, <1>2, RecordSteps DEF Records
<1>4. \A k \in Keys : leaseOf'[k] \in {0, leaseOf[k]}
  BY RecordTypes DEF MapPut
<1> QED BY <1>3, <1>4 DEF TablesKept

\* The records and the map as they were.
LEMMA SameTables ==
  ASSUME Records, UNCHANGED <<lease, leaseOf>>
  PROVE  TablesKept
BY RecordSteps DEF Records, TablesKept

\* Leases are opened for the seats ks.
LEMMA OpenedTables ==
  ASSUME TInv, Records, NEW st \in [Keys -> Seat], NEW ks,
         NEW le, le = createReconnectLease(st, ks),
         \A n \in LeaseId : RecordStep(le[n], lease'[n]), leaseOf' = MapOpened(st, ks)
  PROVE  TablesKept
<1>1. \A n \in LeaseId : RecordStep(lease[n], le[n])
  BY FreshOpen, RecordSteps DEF createReconnectLease, Records, RecordStep, Carried
<1>2. \A n \in LeaseId : RecordStep(lease[n], lease'[n])
  BY <1>1, RecordSteps
<1>3. ASSUME NEW k \in Keys, leaseOf'[k] \notin {0, leaseOf[k]} PROVE Open(lease'[leaseOf'[k]])
  <2> DEFINE v == st[k].t
  <2>1. leaseOf'[k] = v /\ k \in ks /\ leaseOf[k] # v /\ v # 0 /\ v \in 0..MaxJoins
    BY <1>3 DEF MapOpened, Seat
  <2>2. v \in LeaseId
    BY <2>1, RecordTypes
  <2>3. le[v] = [NoLease EXCEPT !.state = "pending"]
    BY <2>1, <2>2 DEF createReconnectLease
  <2>4. Open(le[v]) /\ RecordStep(le[v], lease'[v])
    BY <2>2, <2>3, FreshOpen
  <2>5. Open(lease'[v])
    BY <2>4 DEF RecordStep, Carried, Open
  <2> QED BY <2>1, <2>5
<1> QED BY <1>2, <1>3 DEF TablesKept

\* The seats ks are claimed terminally.
LEMMA TerminalTables ==
  ASSUME TInv, Records, NEW st \in [Keys -> Seat], NEW ks, NEW reason \in Reasons, reason # "",
         NEW cbs \in Seq(Ops),
         lease' = TerminalLeases(st, ks, reason, cbs), leaseOf' = MapOpened(st, ks)
  PROVE  TablesKept
<1> DEFINE le == createReconnectLease(st, ks)
<1>1. le \in [LeaseId -> Record(Ops)]
  <2>1. Record(Asked) \subseteq Record(Ops)
    <3>1. Asked \subseteq Ops
      BY DEF Asked
    <3> QED BY <3>1, RecordMonotonic
  <2>2. lease \in [LeaseId -> Record(Ops)]
    BY <2>1 DEF TInv, LeaseInv
  <2> QED BY <2>2, CreateType
<1>2. lease' = [n \in LeaseId |->
                  IF n \in RecordsOf(st, ks)
                  THEN Started(st, n, terminalClaimRecord(le[n], reason, cbs)) ELSE le[n]]
  BY DEF TerminalLeases
<1>3. \A n \in LeaseId : Sound(le[n])
  BY FreshOpen DEF createReconnectLease, Records
<1> DEFINE table == le
<1>4. table = createReconnectLease(st, ks) /\ table = le
  OBVIOUS
<1> HIDE DEF table
<1> HIDE DEF le
<1>5. \A n \in LeaseId : RecordStep(table[n], lease'[n])
  <2>1. Len(joins) \in 0..MaxJoins
    BY RecordTypes
  <2>2. ASSUME NEW n \in LeaseId
        PROVE  RecordStep(le[n], Started(st, n, terminalClaimRecord(le[n], reason, cbs)))
    <3>1. le[n] \in LeaseOver(Ops) /\ Sound(le[n])
      BY <1>1, <1>3 DEF Record
    <3> QED BY <2>1, <3>1, TerminalStep
  <2> QED BY <1>2, <1>3, <1>4, <2>2, RecordSteps
<1> QED BY <1>4, <1>5, OpenedTables

-----------------------------------------------------------------------------
(* What the steps of the runtime do to commands and records. *)

\* A command that nobody told anything.
LEMMA ToldSame == ASSUME NEW t PROVE ToldAs(t, t)
BY DEF ToldAs

\* Who waits for a finalizer hears how it settled, and of a success only when
\* nothing is left to retry.
LEMMA PutTold ==
  ASSUME NEW tk, NEW n \in LeaseId, NEW r \in LeaseOver(Ops), NEW st, TInv,
         NEW x \in Sockets, IsCommand(tk[x]),
         lease' = LeasePut(lease, st, n, r), task' = TaskPut(tk, n, r)
  PROVE  ToldAs(tk[x], task'[x])
<1>1. CASE r.stage # "settle" \/ tk[x].wait # n
  BY <1>1, ToldSame DEF TaskPut
<1>2. CASE r.stage = "settle" /\ tk[x].wait = n
  <2> DEFINE new == [tk[x] EXCEPT !.wait = 0, !.got = Result(r)]
  <2>1. task'[x] = new
    BY <1>2 DEF TaskPut
  <2>2. /\ new.pc = tk[x].pc /\ new.n = tk[x].n /\ new.wait = 0
        /\ new.got = IF r.fail = "no" THEN "ok" ELSE "err"
    BY DEF IsCommand, Result
  <2>3. lease'[n] = Settled(st, n, r)
    BY <1>2, RecordTypes DEF LeasePut, Finish
  <2>4. r.fail = "no" => Harmless(lease'[n])
    BY <2>3, SettledHarmless
  <2> HIDE DEF new
  <2> QED BY <1>2, <2>1, <2>2, <2>4 DEF ToldAs
<1> QED BY <1>1, <1>2

\* The command t of s and all others are where they were or have heard.
LEMMA PutOthersTold ==
  ASSUME TInv, NEW s \in Sockets, NEW t, IsCommand(t), NEW n \in LeaseId,
         NEW r \in LeaseOver(Ops), NEW st,
         lease' = LeasePut(lease, st, n, r), task' = TaskPut([task EXCEPT ![s] = t], n, r)
  PROVE  ToldAs(t, task'[s]) /\ Told(Sockets \ {s})
<1> DEFINE tk == [task EXCEPT ![s] = t]
<1>1. /\ \A x \in Sockets : IsCommand(tk[x])
      /\ tk[s] = t /\ \A x \in Sockets \ {s} : tk[x] = task[x]
  BY CommandsKnown DEF Commands
<1>2. task' = TaskPut(tk, n, r)
  OBVIOUS
<1> HIDE DEF tk
<1>3. \A x \in Sockets : ToldAs(tk[x], task'[x])
  BY <1>1, <1>2, PutTold
<1> QED BY <1>1, <1>3 DEF Told

\* Setting the command of s tells nobody else anything.
LEMMA SetTold ==
  ASSUME TInv, NEW s \in Sockets, NEW t, task' = [task EXCEPT ![s] = t]
  PROVE  task'[s] = t /\ Told(Sockets \ {s})
BY CommandsKnown, ToldSame DEF Commands, Told

\* A step of a finalizer, given a step of its record.
LEMMA FinalizerTables ==
  ASSUME TInv, Records, NEW n \in LeaseId, NEW r \in LeaseOver(Ops), RecordStep(lease[n], r),
         NEW st, NEW so, FinalizerStep(n, r, st, so)
  PROVE  TablesKept /\ Told(Sockets)
<1>1. TablesKept
  BY PutTables DEF FinalizerStep
<1>2. Told(Sockets)
  BY PutTold, CommandsKnown DEF FinalizerStep, Told, Commands
<1> QED BY <1>1, <1>2

\* The lease a join holds, and what it is given back as.
LEMMA JoinEndsTables ==
  ASSUME TInv, Records, NEW s \in Sockets, NEW given, NEW au, JoinEnds(s, given, au),
         HoldsClaim(s) => given \in LeaseOver(Ops) /\ RecordStep(lease[task[s].claim], given)
  PROVE  /\ TablesKept /\ Told(Sockets \ {s}) /\ task'[s].pc = "idle"
         /\ auth' \in {au, [au EXCEPT ![KeyOf(s)] = 0]}
         /\ Registered(task, KeyOf(s)) # {s} => auth' = au
<1>1. IsCommand(Idle) /\ Idle.pc = "idle"
  BY DEF Idle, IsCommand
<1>2. CASE ~HoldsClaim(s)
  <2>1. task' = [task EXCEPT ![s] = Idle] /\ UNCHANGED <<lease, leaseOf>>
    BY <1>2 DEF JoinEnds
  <2> QED BY <1>1, <2>1, SameTables, SetTold DEF JoinEnds
<1>3. CASE HoldsClaim(s)
  <2> DEFINE c == task[s].claim
  <2>1. c \in LeaseId
    <3>1. c \in 0..2 * MaxJoins /\ c # 0
      BY <1>3 DEF TInv, LeaseInv, KnownTask, Task, HoldsClaim
    <3> QED BY <3>1, ConstantsAssumption DEF LeaseId
  <2>2. /\ lease' = LeasePut(lease, seats, c, given)
        /\ leaseOf' = MapPut(leaseOf, seats, c, given)
        /\ task' = TaskPut([task EXCEPT ![s] = Idle], c, given)
        /\ given \in LeaseOver(Ops) /\ RecordStep(lease[c], given)
    BY <1>3 DEF JoinEnds
  <2> HIDE DEF c
  <2>3. TablesKept
    BY <2>1, <2>2, PutTables
  <2>4. ToldAs(Idle, task'[s]) /\ Told(Sockets \ {s})
    BY <1>1, <2>1, <2>2, PutOthersTold
  <2> QED BY <1>1, <2>3, <2>4 DEF ToldAs, JoinEnds
<1> QED BY <1>2, <1>3

\* A join that gives up or is rejected for good.
LEMMA EndsTables ==
  ASSUME TInv, Records, NEW s \in Sockets, NEW au,
         GivesUp(s, au) \/ (Rejected(s) /\ au = auth)
  PROVE  /\ TablesKept /\ Told(Sockets \ {s}) /\ task'[s].pc = "idle"
         /\ auth' \in {au, [au EXCEPT ![KeyOf(s)] = 0]}
         /\ Registered(task, KeyOf(s)) # {s} => auth' = au
<1> DEFINE c == task[s].claim
           back == restoreClaimedLease(seats, c, lease[c])
           over == terminateLease(seats, c, lease[c])
<1>1. JoinEnds(s, back, au) \/ JoinEnds(s, over, au)
  BY DEF GivesUp, Rejected
<1>2. ASSUME HoldsClaim(s)
      PROVE  /\ back \in LeaseOver(Ops) /\ RecordStep(lease[c], back)
             /\ over \in LeaseOver(Ops) /\ RecordStep(lease[c], over)
  <2>1. c \in LeaseId
    <3>1. c \in 0..2 * MaxJoins /\ c # 0
      BY <1>2 DEF TInv, LeaseInv, KnownTask, Task, HoldsClaim
    <3> QED BY <3>1, ConstantsAssumption DEF LeaseId
  <2>2. lease[c] \in LeaseOver(Ops) /\ lease[c] \in Record(Asked) /\ Sound(lease[c])
    BY <2>1, RecordTypes DEF Records, TInv, LeaseInv
  <2>3. lease[c] \in LeaseOver(Asked) /\ Len(joins) \in 0..MaxJoins
    BY <2>2, RecordTypes DEF Record
  <2>4. back \in LeaseOver(Ops) /\ over \in LeaseOver(Ops)
    BY <2>2, <2>3, RestoreType, TerminateType, RecordTypes
  <2>5. RecordStep(lease[c], back)
    BY <2>2, RestoreStep
  <2>6. <<>> \in Seq(Ops) /\ "join-rejected" \in Reasons /\ "join-rejected" # ""
    BY EmptySeq DEF Reasons
  <2>7. RecordStep(lease[c], over)
    BY <2>2, <2>3, <2>6, TerminalStep DEF terminateLease
  <2> QED BY <2>4, <2>5, <2>7
<1> HIDE DEF back, over
<1> QED BY <1>1, <1>2, JoinEndsTables

\* A command that waits for a finalizer, or has its answer.
AnsweredAs(t) == t.wait = 0 => t.got # ""

\* A command that has heard has its answer.
LEMMA ToldAnswered ==
  ASSUME NEW old, NEW new, ToldAs(old, new), AnsweredAs(old)
  PROVE  AnsweredAs(new)
BY DEF ToldAs, AnsweredAs

\* What a command that leaves a seat waits for.
LEMMA AwaitingAs ==
  ASSUME NEW waiting, IsCommand(waiting), NEW l, l # 0, NEW r, r.fin \in {"run", "ok", "err"}
  PROVE  LET t == Awaiting(waiting, l, r)
         IN IsCommand(t) /\ t.pc = waiting.pc /\ t.n = waiting.n /\ AnsweredAs(t)
BY DEF Awaiting, IsCommand, AnsweredAs

\* Leaving a seat, as a command or on the way to another.
LEMMA LeaveTables ==
  ASSUME TInv, Records, NEW s \in Sockets, NEW k \in Keys, NEW waiting, IsCommand(waiting),
         Leave(s, k, waiting)
  PROVE  /\ TablesKept /\ Told(Sockets \ {s})
         /\ task'[s].pc = waiting.pc /\ task'[s].n = waiting.n /\ AnsweredAs(task'[s])
<1> DEFINE v == sock[s].voice
           l == leaseOf[k]
           le == TerminalLeases(seats, {k}, "left", <<>>)
           claimed == terminalClaimRecord(lease[l], "left", <<>>)
           r == Started(seats, l, claimed)
<1>1. /\ <<>> \in Seq(Ops) /\ <<>> \in Seq(Asked) /\ "left" \in Reasons /\ "left" # ""
      /\ seats \in [Keys -> Seat] /\ lease \in [LeaseId -> Record(Asked)]
      /\ leaseOf \in [Keys -> 0..MaxJoins] /\ Len(joins) \in 0..MaxJoins
  BY EmptySeq DEF Reasons, TInv, RosterInv, LeaseInv, JoinsInv
<1>2. CASE OwnsSeat(s, k)
  <2>1. /\ lease' = le /\ leaseOf' = MapOpened(seats, {k})
        /\ task' = [task EXCEPT ![s] = Awaiting(waiting, v, le[v])]
    BY <1>2 DEF Leave
  <2>2. v # 0 /\ v \in RecordsOf(seats, {k}) \cap LeaseId
    <3>1. v # 0 /\ seats[k].t = v /\ v \in 0..MaxJoins
      BY <1>2 DEF OwnsSeat, TInv, RosterInv, KnownSocket, Socket
    <3>2. v \in LeaseId
      BY <3>1, RecordTypes
    <3> QED BY <3>1, <3>2 DEF RecordsOf, RecordFor
  <2>3. le[v].fin \in {"run", "ok", "err"}
    BY <1>1, <2>2, TerminalType
  <2>4. TablesKept
    BY <1>1, <2>1, TerminalTables
  <2> HIDE DEF le, v
  <2>5. task'[s] = Awaiting(waiting, v, le[v]) /\ Told(Sockets \ {s})
    BY <2>1, SetTold
  <2> QED BY <2>2, <2>3, <2>4, <2>5, AwaitingAs
<1>3. CASE ~OwnsSeat(s, k)
  <2>1. /\ lease' = LeasePut(lease, seats, l, r) /\ leaseOf' = MapPut(leaseOf, seats, l, r)
        /\ task' = TaskPut([task EXCEPT ![s] = Awaiting(waiting, l, r)], l, r)
        /\ Replayed(k)
    BY <1>3 DEF Leave
  <2>2. l \in LeaseId /\ l # 0
    BY <1>1, <2>1, RecordTypes DEF Replayed
  <2>3. lease[l] \in LeaseOver(Ops) /\ Sound(lease[l])
    BY <2>2, RecordTypes DEF Records
  <2>4. claimed \in LeaseOver(Ops)
    BY <1>1, <2>3, ClaimedType
  <2>5. r \in LeaseOver(Ops) /\ r.fin \in {"run", "ok", "err"}
    <3> HIDE DEF claimed
    <3> QED BY <2>4, StartedType
  <2>6. RecordStep(lease[l], r)
    BY <1>1, <2>3, TerminalStep
  <2> HIDE DEF r, l
  <2> DEFINE t == Awaiting(waiting, l, r)
  <2>7. IsCommand(t) /\ t.pc = waiting.pc /\ t.n = waiting.n /\ AnsweredAs(t)
    BY <2>2, <2>5, AwaitingAs
  <2>8. TablesKept
    BY <2>1, <2>2, <2>5, <2>6, PutTables
  <2>9. task' = TaskPut([task EXCEPT ![s] = t], l, r)
    BY <2>1
  <2> HIDE DEF t
  <2>10. ToldAs(t, task'[s]) /\ Told(Sockets \ {s})
    BY <2>1, <2>2, <2>5, <2>7, <2>9, PutOthersTold
  <2>11. AnsweredAs(task'[s])
    BY <2>7, <2>10, ToldAnswered
  <2> QED BY <2>7, <2>8, <2>10, <2>11 DEF ToldAs
<1> QED BY <1>2, <1>3

\* A join that retries waits for the finalizer of the record l, or has heard
\* that it failed or left nothing to retry.
HeardOf(t, l) ==
  \/ t.wait = l
  \/ t.wait = 0 /\ (t.got = "err" \/ Harmless(lease'[l]))

\* What a claim makes of the command that asks.
ClaimedAs(t, n, k, attempt) ==
  /\ t.pc \in {"idle", "room", "retrying", "finalizing"}
  /\ t.pc # "idle" => t.n = n
  /\ t.pc \in EarlyPcs => AnsweredAs(t)
  /\ t.pc = "retrying" => attempt = "first" /\ HeardOf(t, leaseOf[k])
  /\ t.pc = "room" => \/ leaseOf[k] = 0
                      \/ lease[leaseOf[k]].reason \in {"", "left"}
                      \/ attempt = "retried" /\ lease[leaseOf[k]].state \in FailedStates

\* A join that waits for the finalizer of l.
LEMMA WaitsTables ==
  ASSUME TInv, Records, NEW s \in Sockets, NEW n, NEW pc, NEW l \in LeaseId,
         NEW r \in LeaseOver(Ops), r.fin # "none", RecordStep(lease[l], r),
         WaitsFor(s, n, pc, l, r)
  PROVE  /\ TablesKept /\ Told(Sockets \ {s})
         /\ task'[s].pc = pc /\ task'[s].n = n /\ AnsweredAs(task'[s])
         /\ r.fin = "run" => HeardOf(task'[s], l)
<1> DEFINE t == [Idle EXCEPT !.pc = pc, !.n = n,
                             !.wait = IF r.fin = "run" THEN l ELSE 0,
                             !.got = IF r.fin = "run" THEN "" ELSE r.fin]
<1>1. IsCommand(t) /\ t.pc = pc /\ t.n = n /\ AnsweredAs(t) /\ (r.fin = "run" => t.wait = l)
  <2>1. l # 0 /\ r.fin \in {"run", "ok", "err"}
    BY ConstantsAssumption DEF LeaseOver, LeaseId
  <2> QED BY <2>1 DEF Idle, IsCommand, AnsweredAs
<1>2. /\ lease' = LeasePut(lease, seats, l, r) /\ leaseOf' = MapPut(leaseOf, seats, l, r)
      /\ task' = TaskPut([task EXCEPT ![s] = t], l, r)
  BY DEF WaitsFor
<1> HIDE DEF t
<1>3. TablesKept
  BY <1>2, PutTables
<1>4. ToldAs(t, task'[s]) /\ Told(Sockets \ {s})
  BY <1>1, <1>2, PutOthersTold
<1>5. AnsweredAs(task'[s])
  BY <1>1, <1>4, ToldAnswered
<1> QED BY <1>1, <1>3, <1>4, <1>5 DEF ToldAs, HeardOf

\* Registering a join: its command is in its first lookup, the others as before.
LEMMA RegisterTables ==
  ASSUME TInv, NEW s \in Sockets, NEW n, NEW c, NEW le, NEW map, Register(s, n, c, le, map)
  PROVE  /\ Told(Sockets \ {s}) /\ lease' = le /\ leaseOf' = map
         /\ task'[s].pc = "room" /\ task'[s].n = n /\ task'[s].got = task[s].got
<1> DEFINE t == [task[s] EXCEPT !.pc = "room", !.n = n, !.claim = c]
<1>1. t.pc = "room" /\ t.n = n /\ t.got = task[s].got
  BY CommandsKnown DEF Commands, IsCommand
<1>2. task' = [task EXCEPT ![s] = t] /\ lease' = le /\ leaseOf' = map
  BY DEF Register
<1> HIDE DEF t
<1> QED BY <1>1, <1>2, SetTold

\* Records that are deleted or claimed, and a seat that leaves the map.
LEMMA EntryTables ==
  ASSUME TInv, Records, NEW l, NEW r, l \in LeaseId => RecordStep(lease[l], r),
         lease' = [lease EXCEPT ![l] = r],
         NEW k, leaseOf' = leaseOf \/ leaseOf' = [leaseOf EXCEPT ![k] = 0]
  PROVE  TablesKept
<1>1. \A n \in LeaseId : RecordStep(lease[n], lease'[n])
  BY RecordTypes, RecordSteps DEF Records
<1>2. \A j \in Keys : leaseOf'[j] \in {0, leaseOf[j]}
  BY RecordTypes
<1> QED BY <1>1, <1>2 DEF TablesKept

\* Whatever the answer to a claim.
LEMMA ClaimTables ==
  ASSUME TInv, Records, NEW s \in Sockets, NEW n, NEW k \in Keys, NEW attempt,
         Claim(s, n, k, attempt)
  PROVE  /\ TablesKept /\ Told(Sockets \ {s}) /\ ClaimedAs(task'[s], n, k, attempt)
         /\ task'[s].pc = "room" => task'[s].got = task[s].got
<1> DEFINE l == leaseOf[k]
           r == IF l = 0 THEN NoLease ELSE lease[l]
<1>1. /\ l \in 0..MaxJoins /\ (l # 0 => l \in LeaseId) /\ (l = 0 => r.state = "none")
      /\ lease \in [LeaseId -> LeaseOver(Ops)]
  BY RecordTypes DEF NoLease
<1>2. l # 0 => r = lease[l] /\ r \in LeaseOver(Ops) /\ r \in Record(Asked) /\ Sound(r)
  BY <1>1 DEF Records, TInv, LeaseInv
<1>3. Idle.pc = "idle"
  BY DEF Idle
<1>4. \A t : t.pc = "idle" => ClaimedAs(t, n, k, attempt)
  BY DEF ClaimedAs, EarlyPcs
<1>5. \A t : /\ t.pc = "room" /\ t.n = n
             /\ \/ l = 0
                \/ lease[l].reason \in {"", "left"}
                \/ attempt = "retried" /\ lease[l].state \in FailedStates
             => ClaimedAs(t, n, k, attempt)
  BY DEF ClaimedAs, EarlyPcs
<1>6. CASE /\ l = 0 \/ PermitsNewJoin(r, n)
           /\ Register(s, n, 0, IF l = 0 THEN lease ELSE [lease EXCEPT ![l] = NoLease],
                       [leaseOf EXCEPT ![k] = 0])
  <2>1. /\ Told(Sockets \ {s})
        /\ task'[s].pc = "room" /\ task'[s].n = n /\ task'[s].got = task[s].got
        /\ lease' = IF l = 0 THEN lease ELSE [lease EXCEPT ![l] = NoLease]
        /\ leaseOf' = [leaseOf EXCEPT ![k] = 0]
    <3> HIDE DEF l, r
    <3> QED BY <1>6, RegisterTables
  <2>2. l # 0 => lease[l].reason = "left"
    BY <1>6 DEF PermitsNewJoin
  <2>3. TablesKept
    <3>1. CASE l = 0
      BY <2>1, <3>1, RecordTypes, RecordSteps DEF Records, TablesKept
    <3>2. CASE l # 0
      <4>1. RecordStep(lease[l], NoLease)
        BY FreshOpen DEF RecordStep, Carried
      <4>2. lease' = [lease EXCEPT ![l] = NoLease] /\ leaseOf' = [leaseOf EXCEPT ![k] = 0]
        BY <2>1, <3>2
      <4> HIDE DEF l, r
      <4> QED BY <4>1, <4>2, EntryTables
    <3> QED BY <3>1, <3>2
  <2> QED BY <1>5, <2>1, <2>2, <2>3
<1>7. CASE /\ r.state = "pending"
           /\ LET le == [lease EXCEPT ![l].state = "claimed", ![l].taken = TRUE]
              IN IF attempt = "waited"
                 THEN lease' = le /\ task' = [task EXCEPT ![s] = Idle] /\ UNCHANGED <<leaseOf, op>>
                 ELSE Register(s, n, l, le, leaseOf)
  <2> DEFINE le == [lease EXCEPT ![l].state = "claimed", ![l].taken = TRUE]
             q == [lease[l] EXCEPT !.state = "claimed", !.taken = TRUE]
  <2>1. l \in LeaseId /\ l # 0 /\ lease[l].reason = ""
    BY <1>1, <1>2, <1>7 DEF Sound
  <2>2. le = [lease EXCEPT ![l] = q]
    BY <1>1, <2>1
  <2>3. RecordStep(lease[l], q)
    BY <1>2, <1>7, <2>1, ClaimStep
  <2> HIDE DEF le, q
  <2>4. lease' = le /\ leaseOf' = leaseOf => TablesKept
    BY <2>2, <2>3, EntryTables
  <2>5. CASE attempt = "waited"
    <3>1. lease' = le /\ task' = [task EXCEPT ![s] = Idle] /\ leaseOf' = leaseOf
      BY <1>7, <2>5 DEF le
    <3> QED BY <1>3, <1>4, <2>4, <3>1, SetTold
  <2>6. CASE attempt # "waited"
    <3>1. Register(s, n, l, le, leaseOf)
      BY <1>7, <2>6 DEF le
    <3>2. /\ Told(Sockets \ {s}) /\ lease' = le /\ leaseOf' = leaseOf
          /\ task'[s].pc = "room" /\ task'[s].n = n /\ task'[s].got = task[s].got
      <4> HIDE DEF l
      <4> QED BY <3>1, RegisterTables
    <3> QED BY <1>5, <2>1, <2>4, <3>2
  <2> QED BY <2>5, <2>6
<1>8. CASE r.state \in FinalizingStates /\ WaitsFor(s, n, "finalizing", l, r)
  <2>1. l \in LeaseId /\ r \in LeaseOver(Ops) /\ r.fin # "none" /\ RecordStep(lease[l], r)
    BY <1>1, <1>2, <1>8, RecordSteps DEF Record, FinalizingStates
  <2> HIDE DEF l, r
  <2>2. /\ TablesKept /\ Told(Sockets \ {s})
        /\ task'[s].pc = "finalizing" /\ task'[s].n = n /\ AnsweredAs(task'[s])
    BY <1>8, <2>1, WaitsTables
  <2> QED BY <2>2 DEF ClaimedAs
<1>9. CASE /\ r.state \in FailedStates /\ attempt = "first"
           /\ WaitsFor(s, n, "retrying", l, retryFailedLeaseFinalizer(seats, l, r))
  <2> DEFINE q == retryFailedLeaseFinalizer(seats, l, r)
  <2>1. l \in LeaseId /\ r = lease[l]
    BY <1>1, <1>2, <1>9 DEF FailedStates
  <2>2. q \in LeaseOver(Ops) /\ q.fin = "run" /\ RecordStep(lease[l], q)
    <3>1. r \in LeaseOver(Ops) /\ Sound(r)
      BY <1>1, <1>2, <2>1, ConstantsAssumption DEF LeaseId
    <3> HIDE DEF l, r
    <3> QED BY <1>9, <2>1, <3>1, RetryType, RetryStep DEF Record
  <2>3. /\ TablesKept /\ Told(Sockets \ {s})
        /\ task'[s].pc = "retrying" /\ task'[s].n = n /\ AnsweredAs(task'[s])
        /\ HeardOf(task'[s], l)
    <3>1. WaitsFor(s, n, "retrying", l, q)
      BY <1>9
    <3> HIDE DEF l, q
    <3> QED BY <2>1, <2>2, <3>1, WaitsTables
  <2> QED BY <1>9, <2>3 DEF ClaimedAs
<1>10. CASE /\ r.state \in FailedStates \cup {"claimed"} /\ attempt = "retried"
            /\ Register(s, n, 0, lease, leaseOf)
  <2>1. /\ Told(Sockets \ {s}) /\ lease' = lease /\ leaseOf' = leaseOf
        /\ task'[s].pc = "room" /\ task'[s].n = n /\ task'[s].got = task[s].got
    BY <1>10, RegisterTables
  <2>2. l # 0 => lease[l].reason = "" \/ lease[l].state \in FailedStates
    BY <1>2, <1>10 DEF Sound
  <2> QED BY <1>5, <1>10, <2>1, <2>2, SameTables
<1>11. CASE Refused(s)
  BY <1>3, <1>4, <1>11, SetTold, SameTables DEF Refused
<1> HIDE DEF r, l
<1> QED BY <1>6, <1>7, <1>8, <1>9, <1>10, <1>11 DEF Claim, r, l

-----------------------------------------------------------------------------
(* The invariant. *)

\* A join that looks things up before it is authorized.
LookupPcs == {"room", "ban", "identity", "mute"}

\* A seat is that of a join that was asked for.
SeatsKnown == \A k \in Keys : seats[k].t \in 0..Len(joins)

\* While a join looks things up, the authorization of its seat is not forgotten:
\* if a newer one has taken it in the meantime, it is authorized for that one.
AuthorizedAt(s) ==
  LET k == KeyOf(s)
  IN task[s].pc \in LookupPcs /\ task[s].got = "" /\ seats[k].t > task[s].n
       => auth[k] >= seats[k].t

\* Whoever waits for a finalizer no more has its answer.
AnsweredAt(s) == task[s].pc \in EarlyPcs \cup {"leaveOther"} => AnsweredAs(task[s])

\* A join that retries a finalizer while the map has a record that keeps it out
\* waits for that record, or has heard, and it is not there to be retried again.
TurnedAt(s) ==
  LET l == leaseOf[KeyOf(s)]  r == lease[l]
  IN task[s].pc = "retrying" /\ l # 0 /\ r.reason \notin {"", "left"} /\ task[s].n > r.atSeq
       => \/ task[s].wait = l
          \/ task[s].wait = 0 /\ (task[s].got = "err" \/ Spent(r))

DelayedAt(s) == AuthorizedAt(s) /\ AnsweredAt(s) /\ TurnedAt(s)

SInv == LInv /\ Records /\ SeatsKnown /\ \A s \in Sockets : DelayedAt(s)

\* The seats of the joins of S that look things up, and their authorizations,
\* after a step.
GateKept(S) ==
  \A x \in S : task[x].pc \in LookupPcs =>
    LET k == KeyOf(x)
    IN \/ seats'[k].t \in {0, seats[k].t} /\ auth'[k] >= auth[k]
       \/ auth'[k] >= seats'[k].t

\* The join x is not let through in this step.
NotLetThrough(x) == task'[x].pc = "room" => task[x].pc = "room"

\* Joins asked for remain the ones they are.
JoinsKept == joins' = joins \/ \E k \in Keys : joins' = Append(joins, k)

\* The seat of a command does not change when more joins are asked for.
LEMMA KeyKept ==
  ASSUME TInv, JoinsKept, NEW x \in Sockets, task[x].pc # "idle", task'[x].n = task[x].n
  PROVE  KeyOf(x)' = KeyOf(x) /\ KeyOf(x) \in Keys /\ task[x].n \in 1..Len(joins)
<1>1. KeyOf(x) \in Keys /\ task[x].n \in 1..Len(joins) /\ joins \in Seq(Keys)
  BY KeyOfType DEF TInv, JoinsInv
<1>2. joins'[task[x].n] = joins[task[x].n]
  <2>1. ASSUME NEW k \in Keys, joins' = Append(joins, k) PROVE joins'[task[x].n] = joins[task[x].n]
    BY <1>1, <2>1, AppendProperties
  <2> QED BY <2>1 DEF JoinsKept
<1> QED BY <1>1, <1>2 DEF KeyOf

\* A count of joins that one of them is beyond is not that of all of them.
LEMMA EarlierCount ==
  \A j, a \in 0..MaxJoins : \A n \in 1..j : n > a => ~(a >= j)
BY ConstantsAssumption

\* A record that keeps out one of the joins so far is not open.
LEMMA KeepsOut ==
  ASSUME TInv, TInv', NEW l \in LeaseId, NEW n, n \in 1..Len(joins),
         lease'[l].reason \notin {"", "left"}, n > lease'[l].atSeq
  PROVE  ~Open(lease'[l])
<1>1. lease'[l].atSeq \in 0..MaxJoins
  <2>1. lease' \in [LeaseId -> Record(Asked')]
    BY DEF TInv, LeaseInv
  <2>2. lease'[l] \in LeaseOver(Asked')
    BY <2>1 DEF Record
  <2> QED BY <2>2 DEF LeaseOver
<1>2. Len(joins) \in 0..MaxJoins
  BY RecordTypes
<1>3. ~(lease'[l].atSeq >= Len(joins))
  BY <1>1, <1>2, EarlierCount
<1> QED BY <1>3 DEF Open

\* Records are numbered from 1.
LEMMA NoRecordZero == 0 \notin LeaseId
BY ConstantsAssumption DEF LeaseId

\* A join that waited for a record that keeps it out still does, or has heard.
LEMMA StillTurned ==
  ASSUME TInv, TInv', TablesKept, NEW x \in Sockets, ToldAs(task[x], task'[x]), TurnedAt(x),
         JoinsKept
  PROVE  TurnedAt(x)'
<1> DEFINE k == KeyOf(x)
           l == leaseOf'[k]
           new == lease'[l]
           n == task[x].n
<1> SUFFICES ASSUME task'[x].pc = "retrying", leaseOf'[KeyOf(x)'] # 0,
                    lease'[leaseOf'[KeyOf(x)']].reason \notin {"", "left"},
                    task'[x].n > lease'[leaseOf'[KeyOf(x)']].atSeq
             PROVE  \/ task'[x].wait = leaseOf'[KeyOf(x)']
                    \/ /\ task'[x].wait = 0
                       /\ task'[x].got = "err" \/ Spent(lease'[leaseOf'[KeyOf(x)']])
  BY DEF TurnedAt
<1>1. task[x].pc = "retrying" /\ task'[x].n = n
  BY DEF ToldAs
<1>2. KeyOf(x)' = k /\ k \in Keys /\ n \in 1..Len(joins)
  BY <1>1, KeyKept
<1>3. l # 0 /\ new.reason \notin {"", "left"} /\ n > new.atSeq
  BY <1>1, <1>2
<1>4. l \in LeaseId
  <2>1. leaseOf' \in [Keys -> 0..MaxJoins]
    BY DEF TInv, LeaseInv
  <2> QED BY <1>2, <1>3, <2>1, RecordTypes
<1>5. ~Open(new)
  BY <1>2, <1>3, <1>4, KeepsOut
<1>6. leaseOf[k] = l /\ RecordStep(lease[l], new)
  BY <1>2, <1>3, <1>4, <1>5 DEF TablesKept
<1>7. /\ lease[l].reason = new.reason /\ lease[l].atSeq = new.atSeq
      /\ Spent(lease[l]) => Spent(new)
  BY <1>5, <1>6 DEF RecordStep, Carried
<1>8. \/ task[x].wait = l
      \/ task[x].wait = 0 /\ (task[x].got = "err" \/ Spent(lease[l]))
  BY <1>1, <1>3, <1>6, <1>7 DEF TurnedAt
<1> HIDE DEF k, n
<1>9. \/ task'[x].wait = l
      \/ task'[x].wait = 0 /\ (task'[x].got = "err" \/ Spent(new))
  <2>1. l # 0 /\ 0 \notin LeaseId
    BY <1>3, NoRecordZero
  <2>2. Harmless(new) => Spent(new)
    BY <1>3 DEF Harmless
  <2> HIDE DEF l, new
  <2> QED BY <1>7, <1>8, <2>1, <2>2 DEF ToldAs, l, new
<1> QED BY <1>2, <1>9 DEF k, n

\* The seat of a join that looks things up, and its authorization, over a step.
LEMMA GateOrder ==
  \A n, t, t1, a, a1 \in 0..MaxJoins :
    /\ t > n => a >= t
    /\ (t1 \in {0, t} /\ a1 >= a) \/ a1 >= t1
    /\ t1 > n
    => a1 >= t1
BY ConstantsAssumption

\* The joins of S are delayed as they were, and none is let through.
DelayedKept(S) == \A x \in S : DelayedAt(x)' /\ NotLetThrough(x)

\* So it is after a step that tells them no more than finalizers do.
LEMMA WaitersKept ==
  ASSUME SInv, TInv', TablesKept, JoinsKept, NEW S \in SUBSET Sockets, Told(S), GateKept(S)
  PROVE  DelayedKept(S)
<1> SUFFICES ASSUME NEW x \in S PROVE DelayedAt(x)' /\ NotLetThrough(x)
  BY DEF DelayedKept
<1>1. x \in Sockets /\ ToldAs(task[x], task'[x]) /\ DelayedAt(x) /\ TInv
  BY DEF Told, SInv, LInv
<1>2. task'[x].pc = task[x].pc /\ task'[x].n = task[x].n
  BY <1>1 DEF ToldAs
<1>3. TurnedAt(x)'
  BY <1>1, StillTurned DEF DelayedAt
<1>4. AnsweredAt(x)'
  BY <1>1, <1>2, ToldAnswered DEF DelayedAt, AnsweredAt
<1>5. AuthorizedAt(x)'
  <2>1. SUFFICES ASSUME task'[x].pc \in LookupPcs, task'[x].got = "",
                        seats'[KeyOf(x)'].t > task'[x].n
                 PROVE  auth'[KeyOf(x)'] >= seats'[KeyOf(x)'].t
    BY DEF AuthorizedAt
  <2> DEFINE k == KeyOf(x)
  <2>2. task[x].pc \in LookupPcs /\ task[x].pc # "idle" /\ task[x].got = ""
    BY <1>1, <1>2, <2>1 DEF ToldAs, LookupPcs
  <2>3. KeyOf(x)' = k /\ k \in Keys /\ task[x].n \in 0..MaxJoins
    <3>1. task[x] \in Task
      BY <1>1 DEF TInv, LeaseInv, KnownTask
    <3> QED BY <1>1, <1>2, <2>2, <3>1, KeyKept DEF Task
  <2>4. /\ seats[k].t \in 0..MaxJoins /\ seats'[k].t \in 0..MaxJoins
        /\ auth[k] \in 0..MaxJoins /\ auth'[k] \in 0..MaxJoins
    BY <1>1, <2>3 DEF TInv, RosterInv, AuthInv, Seat
  <2>5. seats[k].t > task[x].n => auth[k] >= seats[k].t
    BY <1>1, <2>2 DEF DelayedAt, AuthorizedAt
  <2>6. (seats'[k].t \in {0, seats[k].t} /\ auth'[k] >= auth[k]) \/ auth'[k] >= seats'[k].t
    BY <2>2 DEF GateKept
  <2>7. seats'[k].t > task[x].n
    BY <1>2, <2>1, <2>3
  <2>8. auth'[k] >= seats'[k].t
    <3> HIDE DEF k
    <3> QED BY <2>3, <2>4, <2>5, <2>6, <2>7, GateOrder
  <2> QED BY <2>3, <2>8
<1> QED BY <1>2, <1>3, <1>4, <1>5 DEF DelayedAt, NotLetThrough

-----------------------------------------------------------------------------
(* What every step has to keep, and never does. *)

\* The body of LatestJoinWins and, for one socket, of EndedSessionStaysOut.
WinsStep ==
  \A k \in Keys, s \in Sockets :
    /\ Takes(k) /\ task[s].pc \in {"mute", "leaveOther"}
    /\ task[s].n = seats'[k].t /\ task[s].got = ""
    => seats'[k].t > seats[k].t
StaysOutAt(s) ==
  task[s].pc # "room" /\ task'[s].pc = "room" =>
    LET k == joins'[task'[s].n]  r == lease[leaseOf[k]]
    IN leaseOf[k] # 0 /\ r.reason \notin {"", "left"} => task'[s].n <= r.atSeq

StepSafe ==
  /\ Records' /\ SeatsKnown' /\ WinsStep
  /\ \A s \in Sockets : DelayedAt(s)' /\ StaysOutAt(s)

\* The authorizations of the seats that joins of S look things up for only grow.
AuthKept(S) ==
  \A x \in S : task[x].pc \in LookupPcs => auth'[KeyOf(x)] >= auth[KeyOf(x)]

\* Numbers of joins compare as they should.
LEMMA JoinOrder ==
  \A i, j \in 0..MaxJoins : /\ i >= i /\ 0 \in 0..i
                            /\ ~(i > j) => i <= j
                            /\ i > j \/ j > i \/ i = j
                            /\ i >= j => ~(j > i)
BY ConstantsAssumption

\* Joins asked for are not forgotten.
LEMMA MoreJoins ==
  ASSUME TInv, JoinsKept
  PROVE  \A i \in 0..Len(joins) : i \in 0..Len(joins')
<1>1. joins \in Seq(Keys) /\ Len(joins) \in Nat
  BY RecordTypes, ConstantsAssumption DEF TInv, JoinsInv
<1>2. ASSUME NEW k \in Keys, joins' = Append(joins, k) PROVE Len(joins') = Len(joins) + 1
  BY <1>1, <1>2, AppendProperties
<1>3. Len(joins') \in {Len(joins), Len(joins) + 1}
  BY <1>2 DEF JoinsKept
<1> QED BY <1>1, <1>3

\* What fades is nobody's new seat.
LEMMA FadesApart ==
  ASSUME NEW old, NEW new, FadesTo(old, new), old \in [Keys -> Seat], NEW k \in Keys
  PROVE  new[k].t \in {0, old[k].t}
<1> DEFINE lone == [old[k] EXCEPT !.conn = NoSocket]
<1>1. lone.t = old[k].t /\ Vacant.t = 0
  BY DEF Seat, Vacant
<1>2. new[k] \in {Vacant, lone, old[k]}
  BY DEF FadesTo
<1> HIDE DEF lone
<1> QED BY <1>1, <1>2

\* Steps that take no seat: the commands of S apart, others heard at most.
LEMMA FadingSafe ==
  ASSUME SInv, TInv', TablesKept, JoinsKept, FadesTo(seats, seats'),
         NEW S \in SUBSET Sockets, Told(Sockets \ S), AuthKept(Sockets \ S),
         \A s \in S : DelayedAt(s)' /\ StaysOutAt(s)
  PROVE  StepSafe
<1>1. TInv /\ seats \in [Keys -> Seat]
  BY DEF SInv, LInv, TInv, RosterInv
<1>2. \A k \in Keys : seats'[k].t \in {0, seats[k].t}
  BY <1>1, FadesApart
<1>3. Records'
  BY DEF TablesKept, RecordStep, Records
<1>4. SeatsKnown'
  <2>1. \A k \in Keys : seats[k].t \in 0..Len(joins) /\ 0 \in 0..Len(joins)
    BY <1>1, RecordTypes, JoinOrder DEF SInv, SeatsKnown
  <2>2. \A k \in Keys : seats'[k].t \in 0..Len(joins)
    BY <1>2, <2>1
  <2> QED BY <1>1, <2>2, MoreJoins DEF SeatsKnown
<1>5. WinsStep
  BY <1>2 DEF WinsStep, Takes
<1>6. GateKept(Sockets \ S)
  <2>1. ASSUME NEW x \in Sockets \ S, task[x].pc \in LookupPcs
        PROVE  /\ seats'[KeyOf(x)].t \in {0, seats[KeyOf(x)].t}
               /\ auth'[KeyOf(x)] >= auth[KeyOf(x)]
    <3>1. KeyOf(x) \in Keys
      BY <1>1, <2>1, KeyOfType DEF LookupPcs
    <3> QED BY <1>2, <2>1, <3>1 DEF AuthKept
  <2> QED BY <2>1 DEF GateKept
<1>7. DelayedKept(Sockets \ S)
  BY <1>6, WaitersKept
<1>8. \A s \in Sockets : DelayedAt(s)' /\ StaysOutAt(s)
  BY <1>7 DEF DelayedKept, NotLetThrough, StaysOutAt
<1> QED BY <1>3, <1>4, <1>5, <1>8 DEF StepSafe

\* The authorizations of all seats as they were.
LEMMA AuthSame ==
  ASSUME TInv, auth' = auth, NEW S \in SUBSET Sockets
  PROVE  AuthKept(S)
<1>1. ASSUME NEW x \in S, task[x].pc \in LookupPcs PROVE auth[KeyOf(x)] >= auth[KeyOf(x)]
  <2>1. KeyOf(x) \in Keys
    BY <1>1, KeyOfType DEF LookupPcs
  <2>2. auth[KeyOf(x)] \in 0..MaxJoins
    BY <2>1 DEF TInv, AuthInv
  <2> QED BY <2>2, JoinOrder
<1> QED BY <1>1 DEF AuthKept

\* A step that leaves commands alone.
LEMMA BystanderSafe ==
  ASSUME SInv, TInv', TablesKept, FadesTo(seats, seats'), Told(Sockets),
         auth' = auth, joins' = joins
  PROVE  StepSafe
<1>1. TInv /\ JoinsKept /\ {} \in SUBSET Sockets /\ Sockets \ {} = Sockets
      /\ Sockets \in SUBSET Sockets
  BY DEF SInv, LInv, JoinsKept
<1>2. AuthKept(Sockets)
  BY <1>1, AuthSame
<1> QED BY <1>1, <1>2, FadingSafe

\* A step of one command, which is not let through.
LEMMA CommandSafe ==
  ASSUME SInv, TInv', TablesKept, FadesTo(seats, seats'), NEW s \in Sockets,
         Told(Sockets \ {s}), AuthKept(Sockets \ {s}), joins' = joins,
         DelayedAt(s)', task'[s].pc # "room"
  PROVE  StepSafe
<1>1. JoinsKept /\ {s} \in SUBSET Sockets /\ StaysOutAt(s)
  BY DEF JoinsKept, StaysOutAt
<1> QED BY <1>1, FadingSafe

-----------------------------------------------------------------------------
(* Finalizers and timers. *)

\* A step of a finalizer that runs keeps why and when its lease was ended.
LEMMA RunningSafe ==
  ASSUME SInv, TInv', NEW n \in LeaseId, NEW r \in LeaseOver(Ops), SameCause(lease[n], r),
         lease[n].stage # "", NEW st, FadesTo(seats, st), NEW so, FinalizerStep(n, r, st, so)
  PROVE  StepSafe
<1>1. TInv /\ Records
  BY DEF SInv, LInv
<1>2. RecordStep(lease[n], r)
  BY <1>1, RunningStep DEF Records
<1>3. TablesKept /\ Told(Sockets)
  BY <1>1, <1>2, FinalizerTables
<1>4. seats' = st /\ auth' = auth /\ joins' = joins
  BY DEF FinalizerStep
<1> QED BY <1>3, <1>4, BystanderSafe

\* The records that a step of a finalizer may make of r.
LEMMA RunningRecords ==
  ASSUME NEW os, NEW r \in LeaseOver(os), NEW ok \in BOOLEAN, NEW stage \in Stages
  PROVE  /\ [r EXCEPT !.stage = stage] \in LeaseOver(os)
         /\ SameCause(r, [r EXCEPT !.stage = stage])
         /\ Noted(r, ok) \in LeaseOver(os) /\ SameCause(r, Noted(r, ok))
         /\ [Noted(r, ok) EXCEPT !.stage = stage] \in LeaseOver(os)
         /\ SameCause(r, [Noted(r, ok) EXCEPT !.stage = stage])
<1>1. \A q \in LeaseOver(os) : /\ [q EXCEPT !.stage = stage] \in LeaseOver(os)
                               /\ SameCause(q, [q EXCEPT !.stage = stage])
  BY DEF LeaseOver, SameCause
<1>2. Noted(r, ok) \in LeaseOver(os) /\ SameCause(r, Noted(r, ok))
  <2> DEFINE fail == IF r.fail = "no" /\ ~ok THEN "plain" ELSE r.fail
  <2>1. Noted(r, ok) = [r EXCEPT !.fail = fail] /\ fail \in {"no", "plain", "rollback"}
    BY DEF Noted, LeaseOver
  <2> HIDE DEF fail
  <2> QED BY <2>1 DEF LeaseOver, SameCause
<1> DEFINE q == Noted(r, ok)
<1>3. /\ [q EXCEPT !.stage = stage] \in LeaseOver(os)
      /\ SameCause(q, [q EXCEPT !.stage = stage])
  <2> HIDE DEF q
  <2>1. q \in LeaseOver(os)
    BY <1>2 DEF q
  <2> QED BY <1>1, <2>1
<1> QED BY <1>1, <1>2, <1>3 DEF SameCause

\* Every step of a finalizer.
LEMMA FinalizerSafe ==
  ASSUME SInv, TInv', NEW n \in LeaseId, Finalizer(n)
  PROVE  StepSafe
<1> DEFINE closed == closePeer(seats, LeaseKey(n), TransportOf(n))
           r == lease[n]
<1>1. r \in LeaseOver(Ops) /\ FadesTo(seats, seats) /\ FadesTo(seats, closed)
      /\ "identity" \in Stages /\ "revoke" \in Stages /\ "participant" \in Stages
      /\ TRUE \in BOOLEAN /\ FALSE \in BOOLEAN
      /\ \A f \in {"no", "plain", "rollback"} : f \in {"no", "plain", "rollback"}
  BY RecordTypes, SeatsFade, CloseFades DEF SInv, LInv, Stages
<1>2. ASSUME NEW q, q \in LeaseOver(Ops), SameCause(r, q), NEW st, st \in {seats, closed},
             NEW so, FinalizerStep(n, q, st, so), r.stage # ""
      PROVE  StepSafe
  <2> HIDE DEF closed
  <2> QED BY <1>1, <1>2, RunningSafe
<1>3. \A released \in BOOLEAN, failure \in {"no", "plain", "rollback"} :
        /\ Returned(r, released, failure) \in LeaseOver(Ops)
        /\ SameCause(r, Returned(r, released, failure))
  BY <1>1, ReturnedType, ReturnedSame
<1>4. \A ok \in BOOLEAN, stage \in Stages :
         /\ [r EXCEPT !.stage = stage] \in LeaseOver(Ops)
         /\ SameCause(r, [r EXCEPT !.stage = stage])
         /\ Noted(r, ok) \in LeaseOver(Ops) /\ SameCause(r, Noted(r, ok))
         /\ [Noted(r, ok) EXCEPT !.stage = stage] \in LeaseOver(Ops)
         /\ SameCause(r, [Noted(r, ok) EXCEPT !.stage = stage])
  BY <1>1, RunningRecords
<1>5. ASSUME NEW q, q \in LeaseOver(Ops), SameCause(r, q), r.stage # "", Evicted(n, q)
      PROVE  StepSafe
  <2> DEFINE p == [q EXCEPT !.stage = "identity"]
  <2>1. p \in LeaseOver(Ops) /\ SameCause(q, p)
    BY <1>1, <1>5, RunningRecords
  <2>2. \E st \in {seats, closed} : \E so : FinalizerStep(n, p, st, so)
    BY <1>5 DEF Evicted
  <2> HIDE DEF p, closed
  <2>3. SameCause(r, p)
    BY <1>5, <2>1 DEF SameCause
  <2> QED BY <1>2, <1>5, <2>1, <2>2, <2>3
<1> HIDE DEF closed, r
<1>6. CASE PrerequisiteDone(n)
  <2>1. /\ r.stage # ""
        /\ \/ FinalizerStep(n, Returned(r, FALSE, "rollback"), seats, sock)
           \/ FinalizerStep(n, [r EXCEPT !.stage = "revoke"], seats, sock)
           \/ Evicted(n, r)
    BY <1>6 DEF PrerequisiteDone, r
  <2>2. SameCause(r, r)
    BY DEF SameCause
  <2> QED BY <1>1, <1>2, <1>3, <1>4, <1>5, <2>1, <2>2
<1>7. CASE CredentialsRevoked(n)
  <2>1. PICK ok \in BOOLEAN :
          \/ Evicted(n, Noted(r, ok))
          \/ \E next \in {Returned(r, FALSE, "plain"), Returned(r, FALSE, "no"),
                          [Noted(r, ok) EXCEPT !.stage = "participant"]} :
               \E st \in {seats, closed} : FinalizerStep(n, next, st, sock)
    BY <1>7 DEF CredentialsRevoked, r, closed
  <2>2. r.stage # ""
    BY <1>7 DEF CredentialsRevoked, r
  <2>3. CASE Evicted(n, Noted(r, ok))
    BY <1>1, <1>4, <1>5, <2>2, <2>3
  <2>4. ASSUME NEW next \in {Returned(r, FALSE, "plain"), Returned(r, FALSE, "no"),
                             [Noted(r, ok) EXCEPT !.stage = "participant"]},
               NEW st \in {seats, closed}, FinalizerStep(n, next, st, sock)
        PROVE  StepSafe
    <3>1. next \in LeaseOver(Ops) /\ SameCause(r, next)
      BY <1>1, <1>3, <1>4
    <3> QED BY <1>2, <2>2, <2>4, <3>1
  <2> QED BY <2>1, <2>3, <2>4
<1>8. CASE IdentityInvalidated(n)
  <2>1. PICK ok \in BOOLEAN :
          \E next \in {Returned(r, TRUE, "no"), Returned(r, TRUE, "plain"),
                       [Noted(r, ok) EXCEPT !.stage = "participant"]} :
            FinalizerStep(n, next, seats, sock)
    BY <1>8 DEF IdentityInvalidated, r
  <2>2. r.stage # ""
    BY <1>8 DEF IdentityInvalidated, r
  <2> QED BY <1>1, <1>2, <1>3, <1>4, <2>1, <2>2
<1>9. CASE ParticipantRemoved(n)
  <2> DEFINE member == lease[n].cb \in Ops /\ KindOf(lease[n].cb) = "member"
  <2>1. PICK ok \in BOOLEAN :
          FinalizerStep(n, Returned(r, ok \/ ~member, IF ok THEN "no" ELSE "plain"), seats, sock)
    BY <1>9 DEF ParticipantRemoved, r
  <2>2. r.stage # ""
    BY <1>9 DEF ParticipantRemoved, r
  <2> DEFINE released == ok \/ ~member
             failure == IF ok THEN "no" ELSE "plain"
  <2>3. released \in BOOLEAN /\ failure \in {"no", "plain", "rollback"}
    OBVIOUS
  <2>4. FinalizerStep(n, Returned(r, released, failure), seats, sock)
    BY <2>1
  <2> HIDE DEF released, failure
  <2> QED BY <1>2, <1>3, <2>2, <2>3, <2>4
<1> QED BY <1>6, <1>7, <1>8, <1>9 DEF Finalizer

\* A timer: a pending lease expires, a deadline goes by, an ended lease is
\* forgotten.
LEMMA TimerSafe ==
  ASSUME SInv, TInv', NEW n \in LeaseId, Timer(n)
  PROVE  StepSafe
<1> DEFINE r == lease[n]
<1>1. /\ TInv /\ Records /\ FadesTo(seats, seats) /\ lease \in [LeaseId -> LeaseOver(Ops)]
      /\ Sockets \in SUBSET Sockets
  BY RecordTypes, SeatsFade DEF SInv, LInv
<1>2. r \in LeaseOver(Ops) /\ Sound(r)
  BY <1>1 DEF Records
<1>3. CASE LeaseExpires(n)
  <2> DEFINE new == Started(seats, n, [r EXCEPT !.state = "finalizing-expiry", !.due = TRUE])
  <2>1. r.state = "pending" /\ FinalizerStep(n, new, seats, sock)
    BY <1>3 DEF LeaseExpires
  <2>2. new \in LeaseOver(Ops) /\ RecordStep(r, new)
    BY <1>2, <2>1, ExpiryStep
  <2> HIDE DEF new
  <2>3. TablesKept /\ Told(Sockets)
    BY <1>1, <2>1, <2>2, FinalizerTables
  <2>4. seats' = seats /\ auth' = auth /\ joins' = joins
    BY <2>1 DEF FinalizerStep
  <2> QED BY <1>1, <2>3, <2>4, BystanderSafe
<1>4. ASSUME UNCHANGED task PROVE Told(Sockets)
  BY <1>4, ToldSame DEF Told
<1>5. CASE DeadlinePasses(n)
  <2> DEFINE new == [r EXCEPT !.due = TRUE]
  <2>1. lease' = [lease EXCEPT ![n] = new] /\ UNCHANGED <<seats, task, joins, auth, leaseOf>>
    BY <1>1, <1>5 DEF DeadlinePasses
  <2>2. new.reason = r.reason /\ new.atSeq = r.atSeq /\ new.state = r.state
        /\ new.fin = r.fin /\ new.stage = r.stage
    BY <1>2 DEF LeaseOver
  <2> HIDE DEF new
  <2>3. RecordStep(r, new)
    BY <1>2, <2>2 DEF RecordStep, Sound, Carried, Spent
  <2>4. TablesKept
    BY <1>1, <2>1, <2>3, EntryTables
  <2> QED BY <1>1, <1>4, <2>1, <2>4, BystanderSafe
<1>6. CASE TerminalForgotten(n)
  <2>1. /\ lease' = [lease EXCEPT ![n] = NoLease] /\ leaseOf' = [leaseOf EXCEPT ![LeaseKey(n)] = 0]
        /\ UNCHANGED <<seats, task, joins, auth>>
    BY <1>6 DEF TerminalForgotten
  <2>2. RecordStep(r, NoLease)
    BY FreshOpen DEF RecordStep, Carried
  <2>3. TablesKept
    BY <1>1, <2>1, <2>2, EntryTables
  <2> QED BY <1>1, <1>4, <2>1, <2>3, BystanderSafe
<1> QED BY <1>3, <1>5, <1>6 DEF Timer

-----------------------------------------------------------------------------
(* Requests that end seats. *)

\* Claiming seats for a request.
LEMMA ClaimSeatsTables ==
  ASSUME TInv, Records, NEW o \in Ops, NEW request, NEW ks, ClaimSeats(o, request, ks)
  PROVE  TablesKept
<1>1. seats \in [Keys -> Seat] /\ <<o>> \in Seq(Ops)
  BY DEF TInv, RosterInv
<1>2. KindOf(o) \in AllKinds /\ KindOf(o) \in Reasons /\ KindOf(o) # ""
  <2>1. op[o] \in Request
    BY RequestKey
  <2> QED BY <2>1 DEF KindOf, Request, Reasons, AllKinds
<1>3. lease' = TerminalLeases(seats, ks, KindOf(o), <<o>>) /\ leaseOf' = MapOpened(seats, ks)
  BY DEF ClaimSeats
<1> QED BY <1>1, <1>2, <1>3, TerminalTables

\* Disconnecting the next match of a ban.
LEMMA DisconnectTables ==
  ASSUME TInv, Records, NEW o \in Ops, NEW todo, Disconnect(o, todo)
  PROVE  TablesKept
<1>1. CASE todo = {}
  <2>1. UNCHANGED <<lease, leaseOf>>
    BY <1>1 DEF Disconnect
  <2> QED BY <2>1, SameTables
<1>2. CASE todo # {}
  <2>1. PICK k \in todo : ClaimSeats(o, [op[o] EXCEPT !.todo = todo \ {k}], {k})
    BY <1>2 DEF Disconnect
  <2> QED BY <2>1, ClaimSeatsTables
<1> QED BY <1>1, <1>2

\* Every step of a request.
LEMMA RequestSafe ==
  ASSUME SInv, TInv', NEW o \in Ops, Moderation(o) \/ RequestStep(o)
  PROVE  StepSafe
<1>1. TInv /\ Records /\ FadesTo(seats, seats) /\ IsTable(seats) /\ seats \in [Keys -> Seat]
  BY SeatsFade DEF SInv, LInv, TInv, RosterInv
<1>2. ASSUME TablesKept, FadesTo(seats, seats'), UNCHANGED <<task, joins, auth>>
      PROVE  StepSafe
  <2>1. Told(Sockets)
    BY <1>2, ToldSame DEF Told
  <2> QED BY <1>2, <2>1, BystanderSafe
<1>3. ASSUME NEW request, NEW ks, ClaimSeats(o, request, ks), UNCHANGED <<seats, task, joins, auth>>
      PROVE  StepSafe
  <2>1. TablesKept
    BY <1>1, <1>3, ClaimSeatsTables
  <2> QED BY <1>1, <1>2, <1>3, <2>1
<1>4. ASSUME UNCHANGED <<lease, leaseOf, seats, task, joins, auth>> PROVE StepSafe
  <2>1. TablesKept
    BY <1>1, <1>4, SameTables
  <2> QED BY <1>1, <1>2, <1>4, <2>1
<1>5. ASSUME NEW todo, Disconnect(o, todo), UNCHANGED <<seats, task, joins, auth>>
      PROVE  StepSafe
  <2>1. TablesKept
    BY <1>1, <1>5, DisconnectTables
  <2> QED BY <1>1, <1>2, <1>5, <2>1
<1>6. CASE Moderation(o)
  BY <1>3, <1>4, <1>6
  DEF Moderation, Kick, Ban, PutBan, DeleteRoom, DisconnectAccountFromRoom
<1>7. CASE PersistBan(o)
  BY <1>4, <1>7 DEF PersistBan
<1>8. CASE AfterBanCommitted(o)
  BY <1>4, <1>5, <1>8 DEF AfterBanCommitted
<1>9. CASE RequestResumes(o)
  BY <1>4, <1>5, <1>9 DEF RequestResumes
<1>10. CASE FinishRoomDeletion(o)
  <2> DEFINE st == publish(seats, op[o].key[1], NoKey)
             ks == {k \in Keys : k[1] = op[o].key[1]}
  <2>1. /\ lease' = TerminalLeases(st, ks, "delete", <<o>>) /\ leaseOf' = MapOpened(st, ks)
        /\ seats' = st /\ UNCHANGED <<task, joins, auth>>
    BY <1>10 DEF FinishRoomDeletion
  <2>2. st \in [Keys -> Seat] /\ FadesTo(seats, st)
    BY <1>1, PublishType, ToldFades
  <2>3. "delete" \in Reasons /\ "delete" # "" /\ <<o>> \in Seq(Ops)
    BY DEF Reasons, AllKinds
  <2> HIDE DEF st, ks
  <2>4. TablesKept
    BY <1>1, <2>1, <2>2, <2>3, TerminalTables
  <2> QED BY <1>2, <2>1, <2>2, <2>4
<1> QED BY <1>6, <1>7, <1>8, <1>9, <1>10 DEF RequestStep

\* Any other event of a room.
LEMMA EventSafe ==
  ASSUME SInv, TInv', NEW r \in Rooms, PublishRoomEvent(r)
  PROVE  StepSafe
<1>1. Records /\ UNCHANGED <<lease, leaseOf, task, joins, auth>>
      /\ seats' = publish(seats, r, NoKey)
  BY DEF SInv, PublishRoomEvent
<1>2. TablesKept /\ Told(Sockets)
  BY <1>1, SameTables, ToldSame DEF Told
<1>3. FadesTo(seats, seats')
  BY <1>1, SeatsFade, ToldFades DEF SInv
<1> QED BY <1>1, <1>2, <1>3, BystanderSafe

-----------------------------------------------------------------------------
(* Commands. *)

\* Authorizations that forget none a join of S looks things up under.
NoLess(au, S) ==
  /\ au \in [Keys -> 0..MaxJoins]
  /\ \A x \in S : task[x].pc \in LookupPcs => au[KeyOf(x)] >= auth[KeyOf(x)]

\* The authorization of the other joins' seats when the join on s ends: that of
\* its own seat is forgotten with the last of the joins for it.
LEMMA EndsAuth ==
  ASSUME TInv, NEW s \in Sockets, NEW au,
         auth' \in {au, [au EXCEPT ![KeyOf(s)] = 0]},
         Registered(task, KeyOf(s)) # {s} => auth' = au,
         NoLess(au, Sockets \ {s})
  PROVE  AuthKept(Sockets \ {s})
<1>1. ASSUME NEW x \in Sockets \ {s}, task[x].pc \in LookupPcs
      PROVE  auth'[KeyOf(x)] = au[KeyOf(x)]
  <2>1. CASE KeyOf(x) = KeyOf(s)
    <3>1. x \in Registered(task, KeyOf(s))
      BY <1>1, <2>1 DEF Registered, KeyOf, LookupPcs, LatePcs
    <3> QED BY <1>1, <3>1
  <2>2. CASE KeyOf(x) # KeyOf(s)
    <3>1. KeyOf(x) \in Keys
      BY <1>1, KeyOfType DEF LookupPcs
    <3> QED BY <2>2, <3>1 DEF NoLess
  <2> QED BY <2>1, <2>2
<1> QED BY <1>1 DEF AuthKept, NoLess

\* A command that is not about to take a seat delays nothing.
LEMMA NotDelayed ==
  ASSUME NEW s, task'[s].pc \notin LookupPcs \cup EarlyPcs \cup {"leaveOther"}
  PROVE  DelayedAt(s)' /\ task'[s].pc # "room"
BY DEF DelayedAt, AuthorizedAt, AnsweredAt, TurnedAt, LookupPcs, EarlyPcs

\* A join that gives up or is rejected for good.
LEMMA EndsSafe ==
  ASSUME SInv, TInv', NEW s \in Sockets, joins' = joins, FadesTo(seats, seats'),
         NEW au, NoLess(au, Sockets \ {s}),
         GivesUp(s, au) \/ (Rejected(s) /\ au = auth)
  PROVE  StepSafe
<1>1. TInv /\ Records
  BY DEF SInv, LInv
<1>2. /\ TablesKept /\ Told(Sockets \ {s}) /\ task'[s].pc = "idle"
      /\ auth' \in {au, [au EXCEPT ![KeyOf(s)] = 0]}
      /\ Registered(task, KeyOf(s)) # {s} => auth' = au
  BY <1>1, EndsTables
<1>3. AuthKept(Sockets \ {s})
  BY <1>1, <1>2, EndsAuth
<1>4. DelayedAt(s)' /\ task'[s].pc # "room"
  BY <1>2, NotDelayed DEF LookupPcs, EarlyPcs
<1> QED BY <1>2, <1>3, <1>4, CommandSafe

\* The authorizations as they are.
LEMMA AuthNow ==
  ASSUME TInv
  PROVE  \A S \in SUBSET Sockets : NoLess(auth, S)
<1>1. auth \in [Keys -> 0..MaxJoins]
  BY DEF TInv, AuthInv
<1>2. ASSUME NEW x \in Sockets, task[x].pc \in LookupPcs
      PROVE  auth[KeyOf(x)] >= auth[KeyOf(x)]
  <2>1. auth[KeyOf(x)] \in 0..MaxJoins
    BY <1>1, <1>2, KeyOfType DEF LookupPcs
  <2> QED BY <2>1, JoinOrder
<1> QED BY <1>1, <1>2 DEF NoLess

\* ... with the authorizations there are.
LEMMA EndsHere ==
  ASSUME SInv, TInv', NEW s \in Sockets, joins' = joins, FadesTo(seats, seats'),
         GivesUp(s, auth) \/ Rejected(s)
  PROVE  StepSafe
<1>1. TInv /\ Sockets \ {s} \in SUBSET Sockets
  BY DEF SInv, LInv
<1> QED BY <1>1, AuthNow, EndsSafe

\* A join that goes on to its next await, from one where it stood as authorized
\* as it stands in that.
LEMMA ProceedsSafe ==
  ASSUME SInv, TInv', NEW s \in Sockets, joins' = joins, UNCHANGED seats,
         NEW pc, Proceeds(s, pc), task[s].pc # "idle",
         \/ task[s].pc \in LookupPcs /\ pc \in LookupPcs \ {"room"}
         \/ pc \in {"lateBan", "snapshot"}
  PROVE  StepSafe
<1>1. TInv /\ Records /\ FadesTo(seats, seats) /\ DelayedAt(s)
      /\ Sockets \ {s} \in SUBSET Sockets
  BY SeatsFade DEF SInv, LInv
<1> DEFINE t == [task[s] EXCEPT !.pc = pc]
<1>2. t.pc = pc /\ t.n = task[s].n /\ t.got = task[s].got
  BY <1>1, CommandsKnown DEF Commands, IsCommand
<1>3. task' = [task EXCEPT ![s] = t] /\ UNCHANGED <<lease, leaseOf, auth>>
  BY <1>1, CommandsKnown DEF Proceeds, Commands
<1> HIDE DEF t
<1>4. TablesKept /\ task'[s] = t /\ Told(Sockets \ {s}) /\ AuthKept(Sockets \ {s})
  BY <1>1, <1>3, SameTables, SetTold, AuthSame
<1>5. KeyOf(s)' = KeyOf(s)
  BY <1>2, <1>4 DEF KeyOf
<1>6. DelayedAt(s)'
  BY <1>1, <1>2, <1>3, <1>4, <1>5
  DEF DelayedAt, AuthorizedAt, AnsweredAt, TurnedAt, LookupPcs, EarlyPcs
<1>7. task'[s].pc # "room" /\ FadesTo(seats, seats')
  BY <1>1, <1>2, <1>4
<1> QED BY <1>4, <1>6, <1>7, CommandSafe

\* The lookups of a join before its seat is authorized.
LEMMA LookupSafe ==
  ASSUME SInv, TInv', NEW s \in Sockets,
         GetRoom(s) \/ FindRoomBan(s) \/ GetOrCreatePeerIdentity(s)
  PROVE  StepSafe
<1>1. /\ task[s].pc \in LookupPcs /\ task[s].pc # "idle"
      /\ UNCHANGED <<seats, joins>> /\ FadesTo(seats, seats)
      /\ GivesUp(s, auth) \/ Rejected(s) \/ \E pc \in LookupPcs \ {"room"} : Proceeds(s, pc)
  BY SeatsFade DEF SInv, GetRoom, FindRoomBan, GetOrCreatePeerIdentity, JoinAt, LookupPcs
<1>2. CASE GivesUp(s, auth) \/ Rejected(s)
  BY <1>1, <1>2, EndsHere
<1>3. CASE \E pc \in LookupPcs \ {"room"} : Proceeds(s, pc)
  BY <1>1, <1>3, ProceedsSafe
<1> QED BY <1>1, <1>2, <1>3

\* What follows the seat.
LEMMA SeatedSafe ==
  ASSUME SInv, TInv', NEW s \in Sockets,
         OccupancyQueued(s) \/ FindLateBan(s) \/ BuildRoomSnapshot(s)
  PROVE  StepSafe
<1>1. /\ task[s].pc # "idle" /\ joins' = joins
      /\ \/ GivesUp(s, auth)
         \/ (\E pc \in {"lateBan", "snapshot"} : Proceeds(s, pc)) /\ UNCHANGED seats
      /\ ReleaseSeat(s) \/ SupersededSeat(s) \/ seats' = seats
  BY DEF OccupancyQueued, FindLateBan, BuildRoomSnapshot, SupersededSeat, JoinAt
<1>2. FadesTo(seats, seats')
  BY <1>1, SeatReleases DEF SInv
<1>3. CASE GivesUp(s, auth)
  BY <1>1, <1>2, <1>3, EndsHere
<1>4. CASE (\E pc \in {"lateBan", "snapshot"} : Proceeds(s, pc)) /\ UNCHANGED seats
  BY <1>1, <1>4, ProceedsSafe
<1> QED BY <1>1, <1>3, <1>4

\* A lease completed by the join that takes the seat: what was claimed keeps
\* nobody out.
LEMMA CompletedTables ==
  ASSUME TInv, Records, NEW c \in LeaseId, Open(lease[c]), NEW m, NEW r \in {lease[c], NoLease},
         NEW k, leaseOf' = [leaseOf EXCEPT ![k] = 0],
         \/ lease' = [lease EXCEPT ![c] = NoLease]
         \/ lease' = [lease EXCEPT ![c] = NoLease, ![m] = r]
  PROVE  TablesKept
<1>1. \A n \in LeaseId : lease'[n] \in {lease[n], NoLease, lease[c]}
  BY RecordTypes
<1>2. \A n \in LeaseId : RecordStep(lease[n], lease'[n])
  <2>1. \A n \in LeaseId : /\ RecordStep(lease[n], NoLease) /\ RecordStep(lease[n], lease[c])
                           /\ RecordStep(lease[n], lease[n])
    BY FreshOpen, RecordSteps DEF Records, RecordStep, Carried
  <2> QED BY <1>1, <2>1
<1>3. \A j \in Keys : leaseOf'[j] \in {0, leaseOf[j]}
  BY RecordTypes
<1> QED BY <1>2, <1>3 DEF TablesKept

\* The lease of a join that may take its seat, if it has claimed one.
LEMMA ClaimedOpen ==
  ASSUME TInv, Records, NEW s \in Sockets, ~Superseded(s), task[s].claim # 0
  PROVE  task[s].claim \in LeaseId /\ Open(lease[task[s].claim])
<1>1. task[s].claim \in LeaseId
  <2>1. task[s].claim \in 0..2 * MaxJoins
    BY DEF TInv, LeaseInv, KnownTask, Task
  <2> QED BY <2>1, ConstantsAssumption DEF LeaseId
<1>2. lease[task[s].claim].state = "claimed"
  BY DEF Superseded, claimedSessionWasTerminated
<1> QED BY <1>1, <1>2 DEF Records, Sound, Open

\* What taking the seat does: to the seats, ...
SeatTaken(s, au) ==
  LET k == KeyOf(s)
  IN /\ au[k] = task[s].n /\ auth' = au
     /\ seats'[k].t \in {task[s].n, 0}
     /\ \A j \in Keys \ {k} : seats'[j].t \in {0, seats[j].t}

\* ... and all the rest.
LEMMA TakeSeatTables ==
  ASSUME SInv, NEW s \in Sockets, task[s].pc # "idle", NEW so, NEW au, TakeSeat(s, so, au)
  PROVE  \/ GivesUp(s, au) /\ UNCHANGED seats
         \/ /\ TablesKept /\ Told(Sockets \ {s}) /\ task'[s].pc = "occupancy"
            /\ SeatTaken(s, au)
<1> DEFINE n == task[s].n
           k == KeyOf(s)
           c == task[s].claim
           others == {x \in Sockets \ {s} : c # 0 /\ task[x].claim = c}
           seated == [seats EXCEPT ![k] = [t |-> n, conn |-> s]]
<1>1. TInv /\ Records /\ IsTable(seats) /\ k \in Keys
  BY SeatsFade, KeyOfType DEF SInv, LInv
<1>2. SUFFICES ASSUME ~(GivesUp(s, au) /\ UNCHANGED seats)
               PROVE  TablesKept /\ Told(Sockets \ {s}) /\ task'[s].pc = "occupancy"
                      /\ SeatTaken(s, au)
  OBVIOUS
<1>3. /\ ~Superseded(s) /\ au[k] = n
      /\ seats' = IF seats[k].t # 0 THEN seated ELSE publish(seated, k[1], k)
      /\ auth' = au
      /\ task' = [x \in Sockets |->
                    IF x = s THEN [Idle EXCEPT !.pc = "occupancy", !.n = n]
                    ELSE IF x \in others THEN [task[x] EXCEPT !.claim = n + MaxJoins]
                    ELSE task[x]]
      /\ IF c = 0 THEN UNCHANGED <<lease, leaseOf>>
         ELSE /\ lease' = [lease EXCEPT
                             ![c] = NoLease,
                             ![n + MaxJoins] = IF others = {} THEN @ ELSE lease[c]]
              /\ leaseOf' = [leaseOf EXCEPT ![k] = 0]
  BY <1>2 DEF TakeSeat
<1>4. TablesKept
  <2>1. CASE c = 0
    BY <1>1, <1>3, <2>1, SameTables
  <2>2. CASE c # 0
    <3>1. c \in LeaseId /\ Open(lease[c])
      BY <1>1, <1>3, <2>2, ClaimedOpen
    <3> DEFINE cleared == [lease EXCEPT ![c] = NoLease]
               m == n + MaxJoins
    <3>2. lease' = [cleared EXCEPT ![m] = IF others = {} THEN @ ELSE lease[c]]
      BY <1>3, <2>2
    <3>3. cleared \in [LeaseId -> LeaseOver(Ops)]
      <4>1. NoLease \in LeaseOver(Ops)
        BY NoLeaseType DEF Record
      <4> QED BY <1>1, <4>1, RecordTypes
    <3>4. lease' \in {cleared, [cleared EXCEPT ![m] = lease[c]]}
      <4> HIDE DEF m, c, others, cleared
      <4> QED BY <3>2, <3>3
    <3>5. [cleared EXCEPT ![m] = lease[c]] = [lease EXCEPT ![c] = NoLease, ![m] = lease[c]]
      OBVIOUS
    <3>6. leaseOf' = [leaseOf EXCEPT ![k] = 0]
      BY <1>3, <2>2
    <3> HIDE DEF m, c, others
    <3> QED BY <1>1, <3>1, <3>4, <3>5, <3>6, CompletedTables
  <2> QED BY <2>1, <2>2
<1>5. task'[s].pc = "occupancy"
  BY <1>3 DEF Idle
<1>6. Told(Sockets \ {s})
  <2>1. ASSUME NEW x \in Sockets \ {s} PROVE ToldAs(task[x], task'[x])
    <3> DEFINE t == [task[x] EXCEPT !.claim = n + MaxJoins]
    <3>1. t.pc = task[x].pc /\ t.n = task[x].n /\ t.wait = task[x].wait /\ t.got = task[x].got
      BY <1>1, CommandsKnown DEF Commands, IsCommand
    <3>2. task'[x] \in {task[x], t}
      BY <1>3
    <3> HIDE DEF t
    <3> QED BY <3>1, <3>2 DEF ToldAs
  <2> QED BY <2>1 DEF Told
<1>7. SeatTaken(s, au)
  <2>1. /\ IsTable(seated) /\ seated[k].t = n
        /\ \A j \in Keys \ {k} : seated[j].t = seats[j].t
    BY <1>1 DEF IsTable
  <2>2. PICK ended \in SUBSET Keys :
          publish(seated, k[1], k) = [j \in Keys |-> IF j \in ended THEN Vacant ELSE seated[j]]
    <3> HIDE DEF seated
    <3> QED BY <2>1, PublishFades
  <2>3. Vacant.t = 0
    BY DEF Vacant
  <2> HIDE DEF seated
  <2>4. \A j \in Keys : seats'[j].t \in {seated[j].t, 0}
    BY <1>3, <2>2, <2>3
  <2> QED BY <1>1, <1>3, <2>1, <2>4 DEF SeatTaken
<1> QED BY <1>4, <1>5, <1>6, <1>7

\* A join that did not wait is no older than the one that has its seat.
NotOlder(s) == task[s].got = "" => task[s].n >= seats[KeyOf(s)].t

\* Join numbers start from 1.
LEMMA JoinNumbers ==
  /\ \A j \in 0..MaxJoins : \A i \in 1..j : i \in 0..j
  /\ \A i \in 0..MaxJoins : i >= i /\ i >= 0
BY ConstantsAssumption

\* A seat is taken by a join newer than the one that had it.
LEMMA TakesSafe ==
  ASSUME SInv, TInv', NEW s \in Sockets, task[s].pc \in {"mute", "leaveOther"},
         joins' = joins, NEW so, NEW au, TakeSeat(s, so, au),
         NoLess(au, Sockets \ {s}), NotOlder(s)
  PROVE  StepSafe
<1> DEFINE k == KeyOf(s)
           n == task[s].n
<1>1. /\ TInv /\ k \in Keys /\ n \in 1..Len(joins) /\ n \in 0..MaxJoins
      /\ FadesTo(seats, seats) /\ JoinsKept
      /\ Sockets \ {s} \in SUBSET Sockets
  <2>1. TInv
    BY DEF SInv, LInv
  <2>2. task[s] \in Task
    BY <2>1 DEF TInv, LeaseInv, KnownTask
  <2> QED BY <2>1, <2>2, SeatsFade, KeyOfType DEF SInv, JoinsKept, Task
<1>2. CASE GivesUp(s, au) /\ UNCHANGED seats
  <2>1. FadesTo(seats, seats')
    BY <1>1, <1>2
  <2>2. GivesUp(s, au)
    BY <1>2
  <2> HIDE DEF k, n
  <2> QED BY <2>1, <2>2, EndsSafe
<1>3. CASE /\ TablesKept /\ Told(Sockets \ {s}) /\ task'[s].pc = "occupancy"
           /\ SeatTaken(s, au)
  <2>1. /\ seats'[k].t \in {n, 0} /\ auth'[k] = n /\ auth' = au
        /\ \A j \in Keys \ {k} : seats'[j].t \in {0, seats[j].t}
    BY <1>3 DEF SeatTaken
  <2>2. Records'
    BY <1>3 DEF TablesKept, RecordStep, Records
  <2>3. SeatsKnown'
    <3>1. n \in 0..Len(joins) /\ 0 \in 0..Len(joins)
      <4> HIDE DEF n
      <4> QED BY <1>1, JoinNumbers, RecordTypes, JoinOrder
    <3> QED BY <2>1, <3>1 DEF SeatsKnown, SInv
  <2>4. GateKept(Sockets \ {s})
    <3>1. ASSUME NEW x \in Sockets \ {s}, task[x].pc \in LookupPcs
          PROVE  LET j == KeyOf(x)
                 IN \/ seats'[j].t \in {0, seats[j].t} /\ auth'[j] >= auth[j]
                    \/ auth'[j] >= seats'[j].t
      <4>1. KeyOf(x) \in Keys
        BY <1>1, <3>1, KeyOfType DEF LookupPcs
      <4>2. n >= n /\ n >= 0
        <5> HIDE DEF n
        <5> QED BY <1>1, JoinNumbers
      <4>3. au[KeyOf(x)] >= auth[KeyOf(x)]
        BY <3>1 DEF NoLess
      <4>4. CASE KeyOf(x) = k
        BY <2>1, <4>2, <4>4
      <4>5. CASE KeyOf(x) # k
        BY <2>1, <4>1, <4>3, <4>5
      <4> QED BY <4>4, <4>5
    <3> QED BY <3>1 DEF GateKept
  <2>5. DelayedKept(Sockets \ {s})
    BY <1>1, <1>3, <2>4, WaitersKept
  <2>6. DelayedAt(s)' /\ StaysOutAt(s)
    BY <1>3, NotDelayed DEF LookupPcs, EarlyPcs, StaysOutAt
  <2>7. WinsStep
    <3>1. SUFFICES ASSUME NEW j \in Keys, NEW x \in Sockets, Takes(j),
                          task[x].pc \in {"mute", "leaveOther"},
                          task[x].n = seats'[j].t, task[x].got = ""
                   PROVE  seats'[j].t > seats[j].t
      BY DEF WinsStep
    <3>2. j = k /\ seats'[j].t = n /\ n # seats[k].t
      BY <2>1, <3>1 DEF Takes
    <3>3. x = s
      BY <3>1, <3>2 DEF SInv, LInv, OneCommandEach, Seeking, SeekingPcs
    <3>4. n >= seats[k].t
      BY <3>1, <3>3 DEF NotOlder
    <3>5. seats[k].t \in 0..MaxJoins
      BY <1>1 DEF TInv, RosterInv, Seat
    <3> HIDE DEF n, k
    <3> QED BY <1>1, <3>2, <3>4, <3>5, JoinOrder
  <2>8. \A x \in Sockets : DelayedAt(x)' /\ StaysOutAt(x)
    BY <2>5, <2>6 DEF DelayedKept, NotLetThrough, StaysOutAt
  <2> QED BY <2>2, <2>3, <2>7, <2>8 DEF StepSafe
<1> QED BY <1>1, <1>2, <1>3, TakeSeatTables

\* The mute lookup, the authorization and the seat.
LEMMA MuteSafe ==
  ASSUME SInv, TInv', NEW s \in Sockets, LoadServerMute(s)
  PROVE  StepSafe
<1> DEFINE k == KeyOf(s)
           n == task[s].n
           v == sock[s].voice
           waiting == [task[s] EXCEPT !.pc = "leaveOther"]
           au == [auth EXCEPT ![k] = n]
<1>1. /\ TInv /\ Records /\ DelayedAt(s) /\ task[s].pc = "mute" /\ joins' = joins
      /\ k \in Keys /\ n \in 0..MaxJoins /\ FadesTo(seats, seats)
      /\ auth \in [Keys -> 0..MaxJoins] /\ seats[k].t \in 0..MaxJoins
  <2>1. TInv /\ task[s].pc = "mute"
    BY DEF SInv, LInv, LoadServerMute, JoinAt
  <2>2. task[s] \in Task
    BY <2>1 DEF TInv, LeaseInv, KnownTask
  <2>3. k \in Keys
    BY <2>1, KeyOfType
  <2> QED BY <2>1, <2>2, <2>3, SeatsFade
          DEF SInv, LoadServerMute, Task, TInv, AuthInv, RosterInv, Seat
<1>2. ASSUME GivesUp(s, auth) \/ Rejected(s), UNCHANGED seats PROVE StepSafe
  <2>1. FadesTo(seats, seats')
    BY <1>1, <1>2
  <2> HIDE DEF k, n, v, waiting, au
  <2> QED BY <1>1, <1>2, <2>1, EndsHere
<1>3. ASSUME n >= auth[k] PROVE NoLess(au, Sockets \ {s}) /\ NotOlder(s)
  <2>1. au \in [Keys -> 0..MaxJoins] /\ au[k] = n /\ \A j \in Keys \ {k} : au[j] = auth[j]
    BY <1>1
  <2> HIDE DEF au
  <2>2. ASSUME NEW x \in Sockets \ {s}, task[x].pc \in LookupPcs
        PROVE  au[KeyOf(x)] >= auth[KeyOf(x)]
    <3>1. KeyOf(x) \in Keys
      BY <1>1, <2>2, KeyOfType DEF LookupPcs
    <3>2. auth[KeyOf(x)] >= auth[KeyOf(x)]
      BY <1>1, <3>1, JoinOrder
    <3> QED BY <1>3, <2>1, <3>1, <3>2
  <2>3. NotOlder(s)
    <3>1. seats[k].t > n /\ task[s].got = "" => auth[k] >= seats[k].t
      BY <1>1 DEF DelayedAt, AuthorizedAt, LookupPcs
    <3>2. \A i, a, t \in 0..MaxJoins : i >= a /\ (t > i => a >= t) => i >= t
      BY ConstantsAssumption
    <3>3. auth[k] \in 0..MaxJoins
      BY <1>1
    <3> HIDE DEF k, n
    <3>4. task[s].got = "" => n >= seats[k].t
      BY <1>1, <1>3, <3>1, <3>2, <3>3
    <3> QED BY <3>4 DEF NotOlder, n, k
  <2> QED BY <2>1, <2>2, <2>3 DEF NoLess
<1>4. ASSUME n >= auth[k], NEW so, TakeSeat(s, so, au) PROVE StepSafe
  <2>1. NoLess(au, Sockets \ {s}) /\ NotOlder(s)
    BY <1>3, <1>4
  <2> HIDE DEF k, n, v, waiting, au
  <2> QED BY <1>1, <1>4, <2>1, TakesSafe
<1>5. ASSUME n >= auth[k], v # 0, Leave(s, joins[v], waiting), auth' = au, UNCHANGED seats
      PROVE  StepSafe
  <2>1. IsCommand(waiting) /\ waiting.pc = "leaveOther"
    BY <1>1, CommandsKnown DEF Commands, IsCommand
  <2>2. joins[v] \in Keys
    <3>1. v \in 0..Len(joins) /\ joins \in Seq(Keys)
      BY <1>1 DEF TInv, RosterInv, KnownSocket, JoinsInv
    <3> QED BY <1>5, <3>1
  <2> HIDE DEF waiting, v
  <2>3. /\ TablesKept /\ Told(Sockets \ {s})
        /\ task'[s].pc = "leaveOther" /\ AnsweredAs(task'[s])
    BY <1>1, <1>5, <2>1, <2>2, LeaveTables
  <2>4. AuthKept(Sockets \ {s})
    <3>1. NoLess(au, Sockets \ {s})
      BY <1>3, <1>5
    <3> QED BY <1>5, <3>1 DEF AuthKept, NoLess
  <2>5. DelayedAt(s)' /\ task'[s].pc # "room" /\ FadesTo(seats, seats')
    BY <1>1, <1>5, <2>3 DEF DelayedAt, AuthorizedAt, AnsweredAt, TurnedAt, LookupPcs, EarlyPcs
  <2> QED BY <1>1, <2>3, <2>4, <2>5, CommandSafe
<1>6. \/ (GivesUp(s, auth) \/ Rejected(s)) /\ UNCHANGED seats
      \/ n >= auth[k] /\ v # 0 /\ Leave(s, joins[v], waiting) /\ auth' = au /\ UNCHANGED seats
      \/ n >= auth[k] /\ \E so : TakeSeat(s, so, au)
  BY DEF LoadServerMute
<1> HIDE DEF k, n, v, waiting, au
<1> QED BY <1>2, <1>4, <1>5, <1>6

\* The seat that is taken once another was left: the join had to wait for that.
LEMMA LeftOtherSafe ==
  ASSUME SInv, TInv', NEW s \in Sockets, LeftOther(s)
  PROVE  StepSafe
<1>1. /\ TInv /\ task[s].pc = "leaveOther" /\ joins' = joins /\ FadesTo(seats, seats)
      /\ task[s].got # "" /\ Sockets \ {s} \in SUBSET Sockets
  <2>1. TInv /\ AnsweredAt(s) /\ task[s].pc = "leaveOther" /\ task[s].wait = 0
    BY DEF SInv, LInv, DelayedAt, LeftOther
  <2> QED BY <2>1, SeatsFade DEF SInv, LeftOther, AnsweredAt, AnsweredAs
<1>2. CASE GivesUp(s, auth) /\ UNCHANGED seats
  <2>1. FadesTo(seats, seats')
    BY <1>1, <1>2
  <2> QED BY <1>1, <1>2, <2>1, EndsHere
<1>3. CASE \E so : TakeSeat(s, so, auth)
  <2>1. NoLess(auth, Sockets \ {s}) /\ NotOlder(s)
    BY <1>1, AuthNow DEF NotOlder
  <2> QED BY <1>1, <1>3, <2>1, TakesSafe
<1> QED BY <1>2, <1>3 DEF LeftOther

\* Leaving, and a socket that dies or closes.
LEMMA LeavingSafe ==
  ASSUME SInv, TInv', NEW s \in Sockets,
         \/ \E n \in JoinId : LeaveRequest(s, n)
         \/ LeaveResumes(s) \/ SocketDies(s) \/ SocketCloses(s)
  PROVE  StepSafe
<1>1. TInv /\ Records /\ FadesTo(seats, seats) /\ Sockets \ {s} \in SUBSET Sockets
  BY SeatsFade DEF SInv, LInv
<1>2. ASSUME UNCHANGED <<lease, leaseOf, task, auth, joins, seats>> PROVE StepSafe
  <2>1. TablesKept /\ Told(Sockets)
    BY <1>1, <1>2, SameTables, ToldSame DEF Told
  <2> QED BY <1>1, <1>2, <2>1, BystanderSafe
<1>3. ASSUME NEW n \in JoinId, LeaveRequest(s, n) PROVE StepSafe
  <2> DEFINE t == [Idle EXCEPT !.pc = "leave", !.n = n]
  <2>1. IsCommand(t) /\ t.pc = "leave"
    BY DEF Idle, IsCommand
  <2>2. joins[n] \in Keys /\ UNCHANGED <<seats, joins, auth>>
    <3>1. n <= Len(joins) /\ joins \in Seq(Keys) /\ UNCHANGED <<seats, joins, auth>>
      BY <1>1, <1>3 DEF LeaveRequest, TInv, JoinsInv
    <3> QED BY <3>1, ConstantsAssumption DEF JoinId
  <2>3. Leave(s, joins[n], t) \/ UNCHANGED <<task, lease, leaseOf>>
    BY <1>3 DEF LeaveRequest
  <2> HIDE DEF t
  <2>4. CASE Leave(s, joins[n], t)
    <3>1. TablesKept /\ Told(Sockets \ {s}) /\ task'[s].pc = "leave"
      BY <1>1, <2>1, <2>2, <2>4, LeaveTables
    <3>2. AuthKept(Sockets \ {s}) /\ DelayedAt(s)' /\ task'[s].pc # "room"
          /\ FadesTo(seats, seats')
      BY <1>1, <2>2, <3>1, AuthSame, NotDelayed DEF LookupPcs, EarlyPcs
    <3> QED BY <2>2, <3>1, <3>2, CommandSafe
  <2> QED BY <1>2, <2>2, <2>3, <2>4
<1>4. CASE LeaveResumes(s)
  <2>1. task' = [task EXCEPT ![s] = Idle] /\ UNCHANGED <<seats, joins, auth, lease, leaseOf>>
    BY <1>4 DEF LeaveResumes
  <2>2. TablesKept /\ task'[s] = Idle /\ Told(Sockets \ {s}) /\ AuthKept(Sockets \ {s})
    BY <1>1, <2>1, SameTables, SetTold, AuthSame
  <2>3. task'[s].pc = "idle"
    <3>1. Idle.pc = "idle"
      BY DEF Idle
    <3> QED BY <2>2, <3>1
  <2>4. DelayedAt(s)' /\ task'[s].pc # "room"
    BY <2>3, NotDelayed DEF LookupPcs, EarlyPcs
  <2>5. FadesTo(seats, seats')
    BY <1>1, <2>1
  <2> QED BY <2>1, <2>2, <2>4, <2>5, CommandSafe
<1>5. CASE SocketDies(s)
  BY <1>2, <1>5 DEF SocketDies
<1>6. CASE SocketCloses(s)
  <2> DEFINE v == sock[s].voice
             k == joins[v]
             le == createReconnectLease(seats, {k})
             q == [le[v] EXCEPT !.disc = TRUE]
  <2>1. UNCHANGED <<task, joins, auth>>
    BY <1>6 DEF SocketCloses
  <2>2. CASE UNCHANGED <<seats, lease, leaseOf>>
    BY <1>2, <2>1, <2>2
  <2>3. CASE /\ seats' = [seats EXCEPT ![k].conn = NoSocket]
             /\ lease' = [le EXCEPT ![v].disc = TRUE]
             /\ leaseOf' = MapOpened(seats, {k})
    <3>1. FadesTo(seats, seats')
      <4> DEFINE lost == {j \in Keys : j = k}
      <4>1. seats' = [j \in Keys |-> IF j \in {} THEN Vacant
                                     ELSE IF j \in lost THEN [seats[j] EXCEPT !.conn = NoSocket]
                                     ELSE seats[j]]
        <5>1. IsTable(seats)
          BY SeatsFade DEF SInv
        <5> QED BY <2>3, <5>1 DEF IsTable
      <4>2. {} \in SUBSET Keys /\ lost \in SUBSET Keys
        OBVIOUS
      <4> HIDE DEF lost
      <4> QED BY <4>1, <4>2 DEF FadesTo
    <3>2. le \in [LeaseId -> LeaseOver(Ops)] /\ \A m \in LeaseId : Sound(le[m])
      <4>1. lease \in [LeaseId -> Record(Asked)]
        BY <1>1 DEF TInv, LeaseInv
      <4>2. le \in [LeaseId -> Record(Asked)] /\ Record(Asked) \subseteq LeaseOver(Ops)
        BY <1>1, <4>1, CreateType, RecordTypes
      <4>3. \A m \in LeaseId : Sound(le[m])
        BY <1>1, FreshOpen DEF createReconnectLease, Records
      <4> HIDE DEF le
      <4> QED BY <4>2, <4>3
    <3>3. \A r \in LeaseOver(Ops) : Sound(r) => RecordStep(r, [r EXCEPT !.disc = TRUE])
      <4>1. \A r \in LeaseOver(Ops) :
              LET p == [r EXCEPT !.disc = TRUE]
              IN p.reason = r.reason /\ p.atSeq = r.atSeq /\ p.state = r.state
                 /\ p.fin = r.fin /\ p.stage = r.stage
        BY DEF LeaseOver
      <4> QED BY <4>1 DEF RecordStep, Sound, Carried, Spent
    <3> DEFINE table == le
    <3>4. table = createReconnectLease(seats, {k}) /\ table = le
      OBVIOUS
    <3> HIDE DEF table
    <3> HIDE DEF le
    <3>5. \A m \in LeaseId : RecordStep(table[m], lease'[m])
      <4>1. ASSUME NEW m \in LeaseId PROVE RecordStep(le[m], lease'[m])
        <5>1. lease'[m] \in {le[m], [le[m] EXCEPT !.disc = TRUE]}
          BY <2>3, <3>2
        <5> QED BY <3>2, <3>3, <5>1, RecordSteps
      <4> QED BY <3>4, <4>1
    <3>6. seats \in [Keys -> Seat] /\ leaseOf' = MapOpened(seats, {k})
      BY <1>1, <2>3 DEF TInv, RosterInv
    <3>7. TablesKept
      <4> HIDE DEF k
      <4> QED BY <1>1, <3>4, <3>5, <3>6, OpenedTables
    <3>8. Told(Sockets)
      BY <2>1, ToldSame DEF Told
    <3> QED BY <2>1, <3>1, <3>7, <3>8, BystanderSafe
  <2> QED BY <1>6, <2>2, <2>3 DEF SocketCloses
<1> QED BY <1>3, <1>4, <1>5, <1>6

\* A claim takes at most its own seat out of the map.
LEMMA ClaimMap ==
  ASSUME TInv, NEW s, NEW n, NEW k \in Keys, NEW attempt, Claim(s, n, k, attempt)
  PROVE  leaseOf'[k] \in {0, leaseOf[k]}
<1>1. leaseOf \in [Keys -> 0..MaxJoins]
  BY DEF TInv, LeaseInv
<1>2. \/ leaseOf' \in {leaseOf, [leaseOf EXCEPT ![k] = 0]}
      \/ \E l, r : leaseOf' = MapPut(leaseOf, seats, l, r)
  BY DEF Claim, Register, Refused, WaitsFor
<1> QED BY <1>1, <1>2 DEF MapPut

\* What becomes of the command that claims a lease, once it is known whether it
\* may have been let through.
LEMMA ClaimDelayed ==
  ASSUME SInv, NEW s \in Sockets, NEW n, NEW k \in Keys, NEW attempt, Claim(s, n, k, attempt),
         joins'[n] = k,
         task[s].got = "" => attempt = "first" /\ ~(seats'[k].t > n)
  PROVE  DelayedAt(s)'
<1>1. TInv /\ Records
  BY DEF SInv, LInv
<1>2. /\ ClaimedAs(task'[s], n, k, attempt)
      /\ task'[s].pc = "room" => task'[s].got = task[s].got
      /\ leaseOf'[k] \in {0, leaseOf[k]}
  BY <1>1, ClaimTables, ClaimMap
<1>3. task'[s].pc # "idle" => KeyOf(s)' = k /\ task'[s].n = n
  BY <1>2 DEF KeyOf, ClaimedAs
<1>4. AuthorizedAt(s)'
  BY <1>2, <1>3 DEF AuthorizedAt, LookupPcs, ClaimedAs
<1>5. AnsweredAt(s)'
  BY <1>2 DEF AnsweredAt, ClaimedAs
<1>6. TurnedAt(s)'
  <2>1. SUFFICES ASSUME task'[s].pc = "retrying", leaseOf'[KeyOf(s)'] # 0,
                        lease'[leaseOf'[KeyOf(s)']].reason \notin {"", "left"}
                 PROVE  \/ task'[s].wait = leaseOf'[KeyOf(s)']
                        \/ /\ task'[s].wait = 0
                           /\ task'[s].got = "err" \/ Spent(lease'[leaseOf'[KeyOf(s)']])
    BY DEF TurnedAt
  <2>2. KeyOf(s)' = k /\ leaseOf'[k] = leaseOf[k]
    BY <1>2, <1>3, <2>1
  <2>3. HeardOf(task'[s], leaseOf[k])
    BY <1>2, <2>1 DEF ClaimedAs
  <2> QED BY <2>1, <2>2, <2>3 DEF HeardOf, Harmless
<1> QED BY <1>4, <1>5, <1>6 DEF DelayedAt

\* A join is asked for.  It is newer than all that have seats, and not let through
\* to a session that was ended.
LEMMA AskedSafe ==
  ASSUME SInv, TInv', NEW s \in Sockets, NEW k \in Keys, JoinRequest(s, k)
  PROVE  StepSafe
<1> DEFINE n == Len(joins) + 1
<1>1. /\ TInv /\ Records /\ Claim(s, n, k, "first") /\ task[s] = Idle
      /\ joins' = Append(joins, k) /\ UNCHANGED <<seats, auth>> /\ FadesTo(seats, seats)
      /\ {s} \in SUBSET Sockets /\ Sockets \ {s} \in SUBSET Sockets
  BY SeatsFade DEF SInv, LInv, JoinRequest
<1>2. joins'[n] = k /\ JoinsKept
  <2>1. joins \in Seq(Keys)
    BY <1>1 DEF TInv, JoinsInv
  <2> QED BY <1>1, <2>1, AppendProperties DEF JoinsKept
<1>3. task[s].got = "" /\ task[s].pc = "idle"
  <2>1. Idle.got = "" /\ Idle.pc = "idle"
    BY DEF Idle
  <2> QED BY <1>1, <2>1
<1>4. ~(seats'[k].t > n)
  <2>1. \A j \in 0..MaxJoins : \A i \in 0..j : ~(i > j + 1)
    BY ConstantsAssumption
  <2>2. seats'[k].t \in 0..Len(joins) /\ Len(joins) \in 0..MaxJoins
    BY <1>1, RecordTypes DEF SInv, SeatsKnown
  <2> QED BY <2>1, <2>2
<1> HIDE DEF n
<1>5. /\ TablesKept /\ Told(Sockets \ {s}) /\ ClaimedAs(task'[s], n, k, "first")
      /\ DelayedAt(s)'
  BY <1>1, <1>2, <1>4, ClaimTables, ClaimDelayed
<1>6. StaysOutAt(s)
  BY <1>2, <1>5 DEF StaysOutAt, ClaimedAs
<1>7. AuthKept(Sockets \ {s}) /\ FadesTo(seats, seats')
  BY <1>1, AuthSame
<1> QED BY <1>1, <1>2, <1>5, <1>6, <1>7, FadingSafe

\* The finalizer a join waited for has answered.
LEMMA ResumesSafe ==
  ASSUME SInv, TInv', NEW s \in Sockets, JoinResumes(s)
  PROVE  StepSafe
<1> DEFINE k == KeyOf(s)
           n == task[s].n
           l == leaseOf[k]
           attempt == IF task[s].pc = "retrying" THEN "retried" ELSE "waited"
<1>1. /\ TInv /\ Records /\ DelayedAt(s) /\ UNCHANGED <<seats, joins, auth>>
      /\ FadesTo(seats, seats) /\ JoinsKept /\ task[s].wait = 0 /\ task[s].pc \in EarlyPcs
      /\ {s} \in SUBSET Sockets /\ Sockets \ {s} \in SUBSET Sockets
      /\ task[s].pc \notin {"idle", "room"}
  BY SeatsFade DEF SInv, LInv, JoinResumes, JoinsKept, EarlyPcs
<1>2. k \in Keys /\ joins'[n] = k /\ n \in 0..MaxJoins /\ task[s].got # ""
  <2>1. task[s] \in Task
    BY <1>1 DEF TInv, LeaseInv, KnownTask
  <2> QED BY <1>1, <2>1, KeyOfType DEF KeyOf, DelayedAt, AnsweredAt, AnsweredAs, Task
<1>3. AuthKept(Sockets \ {s}) /\ FadesTo(seats, seats')
  BY <1>1, AuthSame
<1>4. CASE Refused(s)
  <2>1. task' = [task EXCEPT ![s] = Idle] /\ UNCHANGED <<lease, leaseOf>> /\ Idle.pc = "idle"
    BY <1>4 DEF Refused, Idle
  <2>2. TablesKept /\ task'[s].pc = "idle" /\ Told(Sockets \ {s})
    BY <1>1, <2>1, SameTables, SetTold
  <2>3. DelayedAt(s)' /\ task'[s].pc # "room"
    BY <2>2, NotDelayed DEF LookupPcs, EarlyPcs
  <2> QED BY <1>1, <1>3, <2>2, <2>3, CommandSafe
<1>5. CASE task[s].got # "err" /\ Claim(s, n, k, attempt)
  <2> HIDE DEF k, n, attempt
  <2>1. /\ TablesKept /\ Told(Sockets \ {s}) /\ ClaimedAs(task'[s], n, k, attempt)
        /\ DelayedAt(s)'
    BY <1>1, <1>2, <1>5, ClaimTables, ClaimDelayed
  <2>2. StaysOutAt(s)
    <3>1. SUFFICES ASSUME task'[s].pc = "room", l # 0, lease[l].reason \notin {"", "left"}
                   PROVE  n <= lease[l].atSeq
      BY <1>2, <2>1 DEF StaysOutAt, ClaimedAs, l
    <3>2. task[s].pc = "retrying" /\ lease[l].state \in FailedStates
      BY <2>1, <3>1 DEF ClaimedAs, attempt, l
    <3>3. ~(n > lease[l].atSeq)
      <4>1. task[s].wait # l /\ ~Spent(lease[l])
        BY <1>1, <3>1, <3>2 DEF Spent
      <4> QED BY <1>1, <1>5, <3>1, <3>2, <4>1 DEF DelayedAt, TurnedAt, k, n, l
    <3>4. lease[l].atSeq \in 0..MaxJoins
      <4>1. l \in LeaseId
        BY <1>1, <1>2, <3>1, RecordTypes DEF l
      <4>2. lease[l] \in LeaseOver(Ops)
        BY <1>1, <4>1, RecordTypes
      <4> QED BY <4>2 DEF LeaseOver
    <3> HIDE DEF l
    <3> QED BY <1>2, <3>3, <3>4, JoinOrder
  <2> QED BY <1>1, <1>3, <2>1, <2>2, FadingSafe
<1> QED BY <1>4, <1>5 DEF JoinResumes

-----------------------------------------------------------------------------
(* The specification. *)

\* Whatever the step.
LEMMA StepsSafe == SInv /\ TInv' /\ [Next]_vars => StepSafe
<1> SUFFICES ASSUME SInv, TInv', [Next]_vars PROVE StepSafe
  OBVIOUS
<1>1. CASE UNCHANGED vars
  <2>1. UNCHANGED <<lease, leaseOf, task, auth, joins, seats>>
    BY <1>1 DEF vars
  <2>2. TablesKept /\ Told(Sockets) /\ FadesTo(seats, seats')
    BY <2>1, SameTables, ToldSame, SeatsFade DEF Told, SInv
  <2> QED BY <2>1, <2>2, BystanderSafe
<1>2. ASSUME NEW s \in Sockets, Client(s) \/ JoinStep(s) \/ LeaveResumes(s) PROVE StepSafe
  <2>1. CASE \E k \in Keys : JoinRequest(s, k)
    BY <2>1, AskedSafe
  <2>2. CASE Client(s) \/ LeaveResumes(s)
    BY <2>1, <2>2, LeavingSafe DEF Client
  <2>3. CASE JoinStep(s)
    BY <2>3, ResumesSafe, LookupSafe, MuteSafe, LeftOtherSafe, SeatedSafe DEF JoinStep
  <2> QED BY <1>2, <2>2, <2>3
<1>3. ASSUME NEW n \in LeaseId, Finalizer(n) \/ Timer(n) PROVE StepSafe
  BY <1>3, FinalizerSafe, TimerSafe
<1>4. ASSUME NEW o \in Ops, Moderation(o) \/ RequestStep(o) PROVE StepSafe
  BY <1>4, RequestSafe
<1>5. ASSUME NEW r \in Rooms, PublishRoomEvent(r) PROVE StepSafe
  BY <1>5, EventSafe
<1> QED BY <1>1, <1>2, <1>3, <1>4, <1>5 DEF Next

\* At first nobody waits for anything.
LEMMA SafeInit == Init => SInv
<1> SUFFICES ASSUME Init PROVE SInv
  OBVIOUS
<1>1. LInv
  BY TypesInit, CInvInit, StartsKept DEF LInv
<1>2. Records
  BY FreshOpen DEF Init, Records
<1>3. SeatsKnown
  <2>1. Vacant.t = 0 /\ Len(joins) \in 0..MaxJoins
    BY <1>1, RecordTypes DEF LInv, Vacant
  <2>2. 0 \in 0..Len(joins)
    BY <2>1, JoinOrder
  <2> QED BY <2>1, <2>2 DEF Init, SeatsKnown
<1>4. \A s \in Sockets : DelayedAt(s)
  <2>1. \A s \in Sockets : task[s].pc = "idle"
    BY DEF Init, Idle
  <2> QED BY <2>1 DEF DelayedAt, AuthorizedAt, AnsweredAt, TurnedAt, LookupPcs, EarlyPcs
<1> QED BY <1>1, <1>2, <1>3, <1>4 DEF SInv

\* Every step keeps the invariant, and does neither of the two things.
LEMMA SafeStep == SInv /\ [Next]_vars => SInv' /\ StepSafe
<1> SUFFICES ASSUME SInv, [Next]_vars PROVE SInv' /\ StepSafe
  OBVIOUS
<1>1. LInv'
  BY StepsKept, TypesStep, CInvStep DEF SInv, LInv, TInv, RosterInv
<1>2. StepSafe
  BY <1>1, StepsSafe DEF LInv
<1> QED BY <1>1, <1>2 DEF SInv, StepSafe

\* The join that takes a seat is newer than the one that had it, unless it had to
\* wait for the finalizer of a lease first: a join that is delayed in a lookup
\* finds that a newer one for its seat was authorized in the meantime
\* (latestAuthorized in voice-join.ts), and what was authorized is not forgotten
\* while it looks things up.
THEOREM LatestWins == Spec => LatestJoinWins
<1>1. SInv /\ [Next]_vars => SInv' /\ WinsStep
  BY SafeStep DEF StepSafe
<1> QED BY <1>1, SafeInit, PTL DEF Spec, LatestJoinWins, WinsStep

\* A join is not let through to a session that was ended before it came, as long
\* as the lease of its seat says so: neither at once, nor after it retried the
\* finalizer that had failed (claimReconnectLease and joinVoiceRoom).
THEOREM StaysOut == Spec => EndedSessionStaysOut
<1>1. SInv /\ [Next]_vars => SInv' /\ \A s \in Sockets : StaysOutAt(s)
  BY SafeStep DEF StepSafe
<1> QED BY <1>1, SafeInit, PTL DEF Spec, EndedSessionStaysOut, StaysOutAt
=============================================================================
