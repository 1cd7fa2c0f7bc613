------------------------------- MODULE VoiceJoin -------------------------------
(*****************************************************************************)
(* Taking and leaving a voice seat (realtime/voice-join.ts, leaveVoiceRoom   *)
(* and cleanupConnection of realtime/room-runtime.ts).                       *)
(*                                                                           *)
(* A socket runs its stateful commands one after another (the inbound queue  *)
(* of ws-handler.ts), so `task[s]' is the one in flight; between two of its  *)
(* awaits a join runs without interruption.  Closing a socket is not queued. *)
(*****************************************************************************)
EXTENDS ReconnectLeases

KeyOf(s) == joins[task[s].n]

\* Joins registered for a seat (voiceJoinStates counts them).
Registered(tk, k) == {s \in Sockets : tk[s].pc \in LatePcs /\ joins[tk[s].n] = k}

\* Faulty claimedSessionWasTerminated: a lease that is still there is still claimed.
claimedSessionWasTerminated_InMap(s) ==
  LET c == task[s].claim IN c # 0 /\ ~isCurrent(c)

\* claimedSessionWasTerminated: the lease this join had claimed is taken away.
claimedSessionWasTerminated(s) ==
  LET c == task[s].claim IN c # 0 /\ ~(isCurrent(c) /\ lease[c].state = "claimed")

\* isCurrentConnectionVoiceJoin: only a close takes the intent away, since the
\* other commands of the socket wait for this one.
isCurrentConnectionVoiceJoin(s) == sock[s].open # "closed"

\* The join on s still refers to the lease it claimed: not if that was deleted,
\* even if the same transport has a new one.
HoldsClaim(s) == task[s].claim # 0 /\ lease[task[s].claim].taken

\* Faulty finally block: an uncompleted claim is kept; or the authorizations of
\* the seat are forgotten although other joins for it are in flight.
JoinEnds_KeepsClaim(s, given, au) ==
  /\ task' = [task EXCEPT ![s] = Idle]
  /\ auth' = IF Registered(task, KeyOf(s)) = {s} THEN [au EXCEPT ![KeyOf(s)] = 0] ELSE au
  /\ UNCHANGED <<lease, leaseOf, op>>
JoinEnds_Forgets(s, given, au) ==
  LET c == task[s].claim
  IN /\ IF ~HoldsClaim(s)
        THEN UNCHANGED <<lease, leaseOf, op>> /\ task' = [task EXCEPT ![s] = Idle]
        ELSE /\ lease' = LeasePut(lease, seats, c, given)
             /\ leaseOf' = MapPut(leaseOf, seats, c, given)
             /\ op' = OpPut(op, c, given)
             /\ task' = TaskPut([task EXCEPT ![s] = Idle], c, given)
     /\ auth' = [au EXCEPT ![KeyOf(s)] = 0]

\* The finally block: the lease claimed by the join on s, when it was not
\* completed, becomes `given'; the join is no longer registered in au.
JoinEnds(s, given, au) ==
  LET c == task[s].claim  k == KeyOf(s)
  IN /\ IF ~HoldsClaim(s)
        THEN UNCHANGED <<lease, leaseOf, op>> /\ task' = [task EXCEPT ![s] = Idle]
        ELSE /\ lease' = LeasePut(lease, seats, c, given)
             /\ leaseOf' = MapPut(leaseOf, seats, c, given)
             /\ op' = OpPut(op, c, given)
             /\ task' = TaskPut([task EXCEPT ![s] = Idle], c, given)
     /\ auth' = IF Registered(task, k) = {s} THEN [au EXCEPT ![k] = 0] ELSE au

\* A failed, superseded or crowded-out join gives the claim back ...
GivesUp(s, au) ==
  LET c == task[s].claim IN JoinEnds(s, restoreClaimedLease(seats, c, lease[c]), au)
\* ... and one that is refused for good ends the lease.
Rejected(s) ==
  LET c == task[s].claim IN JoinEnds(s, terminateLease(seats, c, lease[c]), auth)

Superseded(s) == claimedSessionWasTerminated(s) \/ ~isCurrentConnectionVoiceJoin(s)

-----------------------------------------------------------------------------
(* Claiming the lease and registering the join. *)

\* `got' goes on saying whether the join had to wait first.
Register(s, n, c, le, map) ==
  /\ task' = [task EXCEPT ![s] = [@ EXCEPT !.pc = "room", !.n = n, !.claim = c]]
  /\ lease' = le /\ leaseOf' = map
  /\ UNCHANGED op

Refused(s) == task' = [task EXCEPT ![s] = Idle] /\ UNCHANGED <<lease, leaseOf, op>>

\* The join waits for the finalizer of l, whose record has become r.
WaitsFor(s, n, pc, l, r) ==
  LET waiting == [Idle EXCEPT !.pc = pc, !.n = n,
                              !.wait = IF r.fin = "run" THEN l ELSE 0,
                              !.got = IF r.fin = "run" THEN "" ELSE r.fin]
  IN /\ lease' = LeasePut(lease, seats, l, r)
     /\ leaseOf' = MapPut(leaseOf, seats, l, r)
     /\ op' = OpPut(op, l, r)
     /\ task' = TaskPut([task EXCEPT ![s] = waiting], l, r)

\* A terminal lease lets a join through that came after the session had left.
PermitsNewJoin_AnyReason(r, n) == r.state = "terminal" /\ n > r.atSeq \* faulty
PermitsNewJoin(r, n) == r.state = "terminal" /\ r.reason = "left" /\ n > r.atSeq

\* claimReconnectLease and what joinVoiceRoom does of its answer, the first
\* time, after retrying a failed finalizer and after waiting for one.
Claim(s, n, k, attempt) ==
  LET l == leaseOf[k]  r == IF l = 0 THEN NoLease ELSE lease[l]
      none == l = 0 \/ PermitsNewJoin(r, n)
  IN \/ /\ none
        /\ Register(s, n, 0, IF l = 0 THEN lease ELSE [lease EXCEPT ![l] = NoLease],
                    [leaseOf EXCEPT ![k] = 0])
     \/ /\ ~none /\ r.state = "pending"
        /\ LET le == [lease EXCEPT ![l].state = "claimed", ![l].taken = TRUE]
           IN IF attempt = "waited"
              THEN lease' = le /\ task' = [task EXCEPT ![s] = Idle] /\ UNCHANGED <<leaseOf, op>>
              ELSE Register(s, n, l, le, leaseOf)
     \/ /\ ~none /\ r.state \in FinalizingStates
        /\ IF attempt = "waited" THEN Refused(s) ELSE WaitsFor(s, n, "finalizing", l, r)
     \/ /\ ~none /\ r.state \in FailedStates /\ attempt = "first"
        /\ WaitsFor(s, n, "retrying", l, retryFailedLeaseFinalizer(seats, l, r))
     \/ /\ ~none /\ r.state \in FailedStates \cup {"claimed"} /\ attempt = "retried"
        /\ Register(s, n, 0, lease, leaseOf)
     \/ /\ ~none
        /\ \/ r.state = "terminal"
           \/ r.state = "claimed" /\ attempt # "retried"
           \/ r.state \in FailedStates /\ attempt = "waited"
        /\ Refused(s)

\* The session of k runs over the open socket s.
Represents(s, k) ==
  /\ sock[s].open # "closed"
  /\ \/ sock[s].voice # 0 /\ joins[sock[s].voice] = k
     \/ task[s].n # 0 /\ KeyOf(s) = k

\* joinVoiceRoom up to its first await.
JoinRequest(s, k) ==
  LET n == Len(joins) + 1
  IN /\ ~Prompt /\ n <= MaxJoins
     /\ task[s] = Idle /\ sock[s].open # "closed"
     /\ Overlap \/ \A s0 \in Sockets : ~Represents(s0, k)
     /\ joins' = Append(joins, k)
     /\ Claim(s, n, k, "first")
     /\ UNCHANGED <<seats, sock, auth, live, banned, identity, faults>>

\* The finalizer the join waited for has answered.
JoinResumes(s) ==
  /\ task[s].pc \in EarlyPcs /\ task[s].wait = 0
  /\ IF task[s].got = "err" THEN Refused(s)
     ELSE Claim(s, task[s].n, KeyOf(s),
                IF task[s].pc = "retrying" THEN "retried" ELSE "waited")
  /\ UNCHANGED <<seats, sock, joins, auth, live, banned, identity, faults>>

-----------------------------------------------------------------------------
(* Leaving (leaveVoiceRoom).  Of a live seat the leaver owns, or of the lease *)
(* a dropped socket of the same session left behind.                          *)

\* The command `waiting' of s waits for what the record l became, r.
Awaiting(waiting, l, r) ==
  [waiting EXCEPT !.wait = IF r.fin = "run" THEN l ELSE 0,
                  !.got = IF r.fin = "run" THEN "" ELSE r.fin]

OwnsSeat(s, k) ==
  LET v == sock[s].voice IN v # 0 /\ joins[v] = k /\ seats[k].t = v
Replayed(k) ==
  LET l == leaseOf[k]
  IN l # 0 /\ lease[l].disc /\ lease[l].state \in {"pending"} \cup FailedStates

Leave(s, k, waiting) ==
  LET v == sock[s].voice  l == leaseOf[k]
      le == TerminalLeases(seats, {k}, "left", <<>>)
      r == Started(seats, l, terminalClaimRecord(lease[l], "left", <<>>))
  IN \/ /\ OwnsSeat(s, k)
        /\ lease' = le /\ leaseOf' = MapOpened(seats, {k})
        /\ task' = [task EXCEPT ![s] = Awaiting(waiting, v, le[v])]
        /\ UNCHANGED op
     \/ /\ ~OwnsSeat(s, k) /\ Replayed(k)
        /\ lease' = LeasePut(lease, seats, l, r)
        /\ leaseOf' = MapPut(leaseOf, seats, l, r)
        /\ task' = TaskPut([task EXCEPT ![s] = Awaiting(waiting, l, r)], l, r)
        /\ op' = OpPut(op, l, r)

\* The seat k is not the voice of socket s any more.
LeftBy(s, k) ==
  IF sock[s].voice # 0 /\ joins[sock[s].voice] = k
  THEN [sock EXCEPT ![s].voice = 0] ELSE sock

\* room.leave for the seat that join n asked for.
LeaveRequest(s, n) ==
  LET k == joins[n] IN
  /\ ~Prompt
  /\ task[s] = Idle /\ sock[s].open # "closed"
  /\ n <= Len(joins) /\ \A m \in n + 1..Len(joins) : joins[m] # k
  /\ \/ /\ Leave(s, k, [Idle EXCEPT !.pc = "leave", !.n = n])
        /\ UNCHANGED sock
     \/ /\ ~OwnsSeat(s, k) /\ ~Replayed(k)
        /\ sock' = LeftBy(s, k)
        /\ UNCHANGED <<task, lease, leaseOf, op>>
  /\ UNCHANGED <<seats, joins, auth, live, banned, identity, faults>>

LeaveResumes(s) ==
  /\ task[s].pc = "leave" /\ task[s].wait = 0
  /\ sock' = IF task[s].got = "ok" THEN LeftBy(s, KeyOf(s)) ELSE sock
  /\ task' = [task EXCEPT ![s] = Idle]
  /\ UNCHANGED <<seats, joins, auth, lease, leaseOf, op, live, banned, identity, faults>>

-----------------------------------------------------------------------------
(* The body of joinVoiceRoom, one step per await. *)

JoinAt(s, pc) == ~Prompt /\ task[s].pc = pc
Proceeds(s, pc) ==
  /\ task' = [task EXCEPT ![s].pc = pc]
  /\ UNCHANGED <<lease, leaseOf, op, auth>>

GetRoom(s) ==
  /\ JoinAt(s, "room")
  /\ \E ok \in BOOLEAN :
       /\ Answer(ok)
       /\ IF ~ok \/ Superseded(s) THEN GivesUp(s, auth)
          ELSE IF KeyOf(s)[1] \notin live THEN Rejected(s)
          ELSE Proceeds(s, "ban")
  /\ UNCHANGED <<seats, sock, joins, live, banned, identity>>

IsBanned(k) == <<k[1], UserOf[k[2]]>> \in banned

FindRoomBan(s) ==
  /\ JoinAt(s, "ban")
  /\ \E ok \in BOOLEAN :
       /\ Answer(ok)
       /\ IF ~ok \/ Superseded(s) THEN GivesUp(s, auth)
          ELSE IF IsBanned(KeyOf(s)) THEN Rejected(s)
          ELSE Proceeds(s, "identity")
  /\ UNCHANGED <<seats, sock, joins, live, banned, identity>>

\* getOrCreatePeerIdentity: an invalidated identity matches no token.
GetOrCreatePeerIdentity(s) ==
  LET k == KeyOf(s) IN
  /\ JoinAt(s, "identity")
  /\ \E ok \in BOOLEAN :
       /\ Answer(ok)
       /\ identity' = [identity EXCEPT
                         ![k] = IF ok /\ @ = "free" THEN "held" ELSE @]
       /\ IF ~ok \/ Superseded(s) THEN GivesUp(s, auth)
          ELSE IF identity[k] = "invalidated" THEN Rejected(s)
          ELSE Proceeds(s, "mute")
  /\ UNCHANGED <<seats, sock, joins, live, banned>>

\* The limits of the room and of the server, counted as the seat is taken.
Full_OneMore(k) == \* faulty
  \/ Cardinality(InRoom(seats, k[1])) > MaxRoomPeers
  \/ Cardinality(Occupied(seats)) > MaxVoicePeers
Full(k) ==
  \/ Cardinality(InRoom(seats, k[1])) >= MaxRoomPeers
  \/ Cardinality(Occupied(seats)) >= MaxVoicePeers

\* The seat is taken, unless the join is superseded or there is no room; so
\* and au are the sockets and the authorizations by now.  completeClaimedLease
\* gives the lease the new transport before it drops it, which a second join
\* holding the same lease will see.
TakeSeat(s, so, au) ==
  LET n == task[s].n  k == KeyOf(s)  c == task[s].claim
      others == {x \in Sockets \ {s} : c # 0 /\ task[x].claim = c}
      previous == seats[k].t # 0
      seated == [seats EXCEPT ![k] = [t |-> n, conn |-> s]]
  IN IF Superseded(s) \/ au[k] # n \/ (~previous /\ Full(k))
     THEN GivesUp(s, au) /\ sock' = so /\ UNCHANGED seats
     ELSE /\ seats' = IF previous THEN seated ELSE publish(seated, k[1], k)
          /\ sock' = [so EXCEPT ![s].voice = n]
          /\ auth' = au
          /\ task' = [x \in Sockets |->
                        IF x = s THEN [Idle EXCEPT !.pc = "occupancy", !.n = n]
                        ELSE IF x \in others THEN [task[x] EXCEPT !.claim = n + MaxJoins]
                        ELSE task[x]]
          /\ IF c = 0 THEN UNCHANGED <<lease, leaseOf>>
             ELSE /\ lease' = [lease EXCEPT
                                 ![c] = NoLease,
                                 ![n + MaxJoins] = IF others = {} THEN @ ELSE lease[c]]
                  /\ leaseOf' = [leaseOf EXCEPT ![k] = 0]
          /\ UNCHANGED op

\* loadServerMute, then authorizeVoiceJoin; a seat this socket holds elsewhere
\* is left first.
LoadServerMute(s) ==
  LET n == task[s].n  k == KeyOf(s)  v == sock[s].voice
      elsewhere == v # 0 /\ joins[v] # k
      au == [auth EXCEPT ![k] = n]
  IN /\ JoinAt(s, "mute")
     /\ \E ok \in BOOLEAN :
          /\ Answer(ok)
          /\ \/ /\ ~ok /\ Rejected(s) /\ UNCHANGED <<seats, sock>>
             \/ /\ ok /\ n < auth[k] /\ GivesUp(s, auth) /\ UNCHANGED <<seats, sock>>
             \/ /\ ok /\ n >= auth[k] /\ elsewhere
                /\ Leave(s, joins[v], [task[s] EXCEPT !.pc = "leaveOther"])
                /\ auth' = au /\ UNCHANGED <<seats, sock>>
             \/ /\ ok /\ n >= auth[k]
                /\ elsewhere => ~OwnsSeat(s, joins[v]) /\ ~Replayed(joins[v])
                /\ TakeSeat(s, IF elsewhere THEN LeftBy(s, joins[v]) ELSE sock, au)
     /\ UNCHANGED <<joins, live, banned, identity>>

LeftOther(s) ==
  /\ task[s].pc = "leaveOther" /\ task[s].wait = 0
  /\ IF task[s].got = "err" THEN GivesUp(s, auth) /\ UNCHANGED <<seats, sock>>
     ELSE TakeSeat(s, [sock EXCEPT ![s].voice = 0], auth)
  /\ UNCHANGED <<joins, live, banned, identity, faults>>

\* releaseSeat: gives back the seat this join took.
ReleaseSeat(s) ==
  /\ seats' = closePeer(seats, KeyOf(s), task[s].n)
  /\ sock' = IF sock[s].voice = task[s].n THEN [sock EXCEPT ![s].voice = 0] ELSE sock

\* Still the socket's join and still its seat; supersededVoiceJoin otherwise
\* releases the seat if the socket still holds it.
StillSeated(s) == isCurrentConnectionVoiceJoin(s) /\ seats[KeyOf(s)].t = task[s].n
SupersededSeat(s) ==
  /\ IF sock[s].voice = task[s].n THEN ReleaseSeat(s) ELSE UNCHANGED <<seats, sock>>
  /\ GivesUp(s, auth)

\* Faulty: the seat is written again after the await, whoever has it by then.
OccupancyQueued_Rewrites(s) ==
  /\ JoinAt(s, "occupancy")
  /\ Proceeds(s, "lateBan")
  /\ seats' = [seats EXCEPT ![KeyOf(s)] = [t |-> task[s].n, conn |-> s]]
  /\ UNCHANGED <<sock, joins, live, banned, identity, faults>>

\* queueRoomOccupancyTransition; its failure is only logged.
OccupancyQueued(s) ==
  /\ JoinAt(s, "occupancy")
  /\ IF StillSeated(s) THEN Proceeds(s, "lateBan") /\ UNCHANGED <<seats, sock>>
     ELSE SupersededSeat(s)
  /\ UNCHANGED <<joins, live, banned, identity, faults>>

\* Faulty: the bans are looked up but not acted upon.
FindLateBan_Ignored(s) ==
  /\ JoinAt(s, "lateBan")
  /\ Proceeds(s, "snapshot")
  /\ UNCHANGED <<seats, sock, joins, live, banned, identity, faults>>

\* The second ban check, with the seat taken.
FindLateBan(s) ==
  /\ JoinAt(s, "lateBan")
  /\ \E ok \in BOOLEAN :
       /\ Answer(ok)
       /\ IF ~ok \/ IsBanned(KeyOf(s)) THEN ReleaseSeat(s) /\ GivesUp(s, auth)
          ELSE Proceeds(s, "snapshot") /\ UNCHANGED <<seats, sock>>
  /\ UNCHANGED <<joins, live, banned, identity>>

\* buildRoomSnapshot; when it fails the command fails and the seat stays.
BuildRoomSnapshot(s) ==
  /\ JoinAt(s, "snapshot")
  /\ \E ok \in BOOLEAN :
       /\ Answer(ok)
       /\ IF ok /\ ~StillSeated(s) THEN SupersededSeat(s)
          ELSE GivesUp(s, auth) /\ UNCHANGED <<seats, sock>>
  /\ UNCHANGED <<joins, live, banned, identity>>

-----------------------------------------------------------------------------
(* Sockets. *)

\* A socket stops taking writes before its close event is handled.
SocketDies(s) ==
  /\ ~Prompt /\ sock[s].open = "open"
  /\ sock' = [sock EXCEPT ![s].open = "dead"]
  /\ UNCHANGED <<seats, task, joins, auth, lease, leaseOf, op, live, banned,
                 identity, faults>>

\* Faulty: the socket forgets its seat before a lease is opened for it.
SocketCloses_Forgets(s) ==
  /\ ~Prompt /\ sock[s].open # "closed"
  /\ sock' = [sock EXCEPT ![s] = [open |-> "closed", voice |-> 0]]
  /\ UNCHANGED <<seats, lease, leaseOf, task, joins, auth, op, live, banned, identity, faults>>

\* removeConnection and cleanupConnection: the seat of the socket is kept for
\* a lease, under the same transport id but without a socket.
SocketCloses(s) ==
  LET v == sock[s].voice  k == joins[v]
      le == createReconnectLease(seats, {k})
  IN /\ ~Prompt /\ sock[s].open # "closed"
     /\ sock' = [sock EXCEPT ![s] = [open |-> "closed", voice |-> 0]]
     /\ IF v # 0 /\ seats[k].t = v
        THEN /\ seats' = [seats EXCEPT ![k].conn = NoSocket]
             /\ lease' = [le EXCEPT ![v].disc = TRUE]
             /\ leaseOf' = MapOpened(seats, {k})
        ELSE UNCHANGED <<seats, lease, leaseOf>>
     /\ UNCHANGED <<task, joins, auth, op, live, banned, identity, faults>>

JoinStep(s) ==
  \/ JoinResumes(s) \/ GetRoom(s) \/ FindRoomBan(s)
  \/ GetOrCreatePeerIdentity(s) \/ LoadServerMute(s) \/ LeftOther(s)
  \/ OccupancyQueued(s) \/ FindLateBan(s) \/ BuildRoomSnapshot(s)
=============================================================================
