----------------------------- MODULE VoiceRuntime -----------------------------
(*****************************************************************************)
(* The voice runtime: joins, leaves and leases together with the requests    *)
(* that end seats - kick and ban of a participant (peer-moderation.service), *)
(* a ban from the room's ban list (moderation.service), deleting a room      *)
(* (room-lifecycle) and losing a membership (disconnectAccountFromRoom).     *)
(*****************************************************************************)
EXTENDS VoiceJoin

-----------------------------------------------------------------------------
(* Requests that end seats. *)

Occupants(k) == {j \in Occupied(seats) : SameUser(j, k)}

\* finalizeReconnectPeers, cancelRoom, cancelAccount: the seats ks are claimed
\* for request o, whose callback joins each record; then all are awaited.
ClaimSeats(o, request, ks) ==
  LET le == TerminalLeases(seats, ks, KindOf(o), <<o>>)
      ns == RecordsOf(seats, ks)
  IN /\ lease' = le /\ leaseOf' = MapOpened(seats, ks)
     /\ op' = [op EXCEPT ![o] =
                 [request EXCEPT !.pc = "wait",
                                 !.wait = {n \in ns : le[n].fin = "run"},
                                 !.err = \E n \in ns : le[n].fin = "err"]]

Starts(o, kinds) == ~Prompt /\ op[o].pc = "idle" /\ KindOf(o) \in kinds

\* kick: of a peer in the roster.
Kick(o, k) ==
  /\ Starts(o, {"kick"}) /\ seats[k].t # 0
  /\ ClaimSeats(o, [op[o] EXCEPT !.key = k], {k})
  /\ UNCHANGED <<seats, sock, task, joins, auth, live, banned, identity, faults>>

\* ban of a participant: the matching peers are read first, and the ban is
\* written by the first of their finalizers to get there.
Ban(o, k) ==
  /\ Starts(o, {"ban"}) /\ seats[k].t # 0
  /\ ClaimSeats(o, [op[o] EXCEPT !.key = k], Occupants(k))
  /\ UNCHANGED <<seats, sock, task, joins, auth, live, banned, identity, faults>>

\* createRoomBan: written, or refused (the limit on bans, a failed write).
PersistBan(o) ==
  /\ ~Prompt /\ KindOf(o) = "ban" /\ op[o].pre = "none"
  /\ \E n \in LeaseId : lease[n].stage = "prereq" /\ lease[n].cb = o
  /\ \E ok \in BOOLEAN :
       /\ Answer(ok)
       /\ banned' = IF ok THEN banned \cup {<<op[o].key[1], UserOf[op[o].key[2]]>>}
                    ELSE banned
       /\ op' = [op EXCEPT ![o].pre = IF ok THEN "ok" ELSE "failed"]
  /\ UNCHANGED <<seats, sock, task, joins, auth, lease, leaseOf, live, identity>>

\* putBan: the ban of the account behind k is committed ...
PutBan(o, k) ==
  /\ Starts(o, {"putban"})
  /\ banned' = banned \cup {<<k[1], UserOf[k[2]]>>}
  /\ op' = [op EXCEPT ![o] = [op[o] EXCEPT !.pc = "roster", !.key = k]]
  /\ UNCHANGED <<seats, sock, task, joins, auth, lease, leaseOf, live, identity, faults>>

\* ... then the roster is read and its first match disconnected ...
Disconnect(o, todo) ==
  IF todo = {} THEN /\ op' = [op EXCEPT ![o].pc = "done", ![o].todo = {}]
                    /\ UNCHANGED <<lease, leaseOf>>
  ELSE \E k \in todo : ClaimSeats(o, [op[o] EXCEPT !.todo = todo \ {k}], {k})

AfterBanCommitted(o) ==
  /\ ~Prompt /\ op[o].pc = "roster"
  /\ \/ /\ op[o].key[1] \in live
        /\ Disconnect(o, Occupants(op[o].key))
     \/ /\ op[o].key[1] \notin live
        /\ op' = [op EXCEPT ![o].pc = "done"] /\ UNCHANGED <<lease, leaseOf>>
  /\ UNCHANGED <<seats, sock, task, joins, auth, live, banned, identity, faults>>

\* deleteRoom: the room is soft-deleted ...
DeleteRoom(o, k) ==
  /\ Starts(o, {"delete"}) /\ k[1] \in live
  /\ live' = live \ {k[1]}
  /\ op' = [op EXCEPT ![o] = [op[o] EXCEPT !.pc = "teardown", !.key = k]]
  /\ UNCHANGED <<seats, sock, task, joins, auth, lease, leaseOf, banned, identity, faults>>

\* ... and finishRoomDeletion tells the room and ends every seat and lease.
FinishRoomDeletion(o) ==
  LET r == op[o].key[1]  st == publish(seats, r, NoKey)
      ks == {k \in Keys : k[1] = r}
      le == TerminalLeases(st, ks, "delete", <<o>>)
  IN /\ ~Prompt /\ op[o].pc = "teardown"
     /\ seats' = st
     /\ lease' = le /\ leaseOf' = MapOpened(st, ks)
     /\ op' = [op EXCEPT ![o].pc = "wait",
                         ![o].wait = {n \in RecordsOf(st, ks) : le[n].fin = "run"}]
     /\ UNCHANGED <<sock, task, joins, auth, live, banned, identity, faults>>

\* disconnectAccountFromRoom: the seats and leases of one account in a room.
DisconnectAccountFromRoom(o, k) ==
  LET held == {j \in Keys : leaseOf[j] # 0 /\ SameUser(j, k)} \cup Occupants(k)
  IN /\ Starts(o, {"member"})
     /\ ClaimSeats(o, [op[o] EXCEPT !.key = k, !.todo = Occupants(k)], held)
     /\ UNCHANGED <<seats, sock, task, joins, auth, live, banned, identity, faults>>

\* The finalizers have all answered.  The next match of a ban is disconnected
\* unless one failed; an account is detached from the seats it had at first.
RequestResumes(o) ==
  LET done == [op EXCEPT ![o].pc = "done", ![o].todo = {}] IN
  /\ op[o].pc = "wait" /\ op[o].wait = {}
  /\ \/ /\ KindOf(o) \in {"putban", "member"} => op[o].err
        /\ op' = done /\ UNCHANGED <<sock, lease, leaseOf>>
     \/ /\ KindOf(o) = "putban" /\ ~op[o].err
        /\ Disconnect(o, op[o].todo) /\ UNCHANGED sock
     \/ /\ KindOf(o) = "member" /\ ~op[o].err
        /\ op' = done
        /\ sock' = detachVoicePeer(sock, op[o].todo) /\ UNCHANGED <<lease, leaseOf>>
  /\ UNCHANGED <<seats, task, joins, auth, live, banned, identity, faults>>

\* Any other event of a room: chat, profiles, peer updates.
PublishRoomEvent(r) ==
  /\ ~Prompt
  /\ seats' = publish(seats, r, NoKey)
  /\ UNCHANGED <<sock, task, joins, auth, lease, leaseOf, op, live, banned, identity, faults>>

-----------------------------------------------------------------------------
Client(s) ==
  \/ \E k \in Keys : JoinRequest(s, k)
  \/ \E n \in JoinId : LeaveRequest(s, n)
  \/ SocketDies(s) \/ SocketCloses(s)

Moderation(o) ==
  \/ \E k \in Keys : \/ Kick(o, k) \/ Ban(o, k) \/ PutBan(o, k) \/ DeleteRoom(o, k)
                     \/ DisconnectAccountFromRoom(o, k)
RequestStep(o) ==
  PersistBan(o) \/ AfterBanCommitted(o) \/ FinishRoomDeletion(o) \/ RequestResumes(o)

Timer(n) == LeaseExpires(n) \/ DeadlinePasses(n) \/ TerminalForgotten(n)

Next ==
  \/ \E s \in Sockets : Client(s) \/ JoinStep(s) \/ LeaveResumes(s)
  \/ \E n \in LeaseId : Finalizer(n) \/ Timer(n)
  \/ \E o \in Ops : Moderation(o) \/ RequestStep(o)
  \/ \E r \in Rooms : PublishRoomEvent(r)

\* Calls to the database and the SFU answer, timers fire, promise reactions
\* run; what clients and moderators do is up to them.
Fairness ==
  /\ \A s \in Sockets : WF_vars(JoinStep(s)) /\ WF_vars(LeaveResumes(s))
  /\ \A n \in LeaseId : WF_vars(Finalizer(n)) /\ WF_vars(LeaseExpires(n))
  /\ \A o \in Ops : WF_vars(RequestStep(o))

Spec == Init /\ [][Next]_vars
FairSpec == Spec /\ Fairness

-----------------------------------------------------------------------------
(* Properties. *)

\* Every variable keeps to the values the code's records can hold.
TypeOK ==
  /\ seats \in [Keys -> Seat]
  /\ sock \in [Sockets -> Socket]
  /\ task \in [Sockets -> Task]
  /\ joins \in Seq(Keys) /\ Len(joins) <= MaxJoins
  /\ auth \in [Keys -> 0..MaxJoins]
  /\ lease \in [LeaseId -> Lease]
  /\ leaseOf \in [Keys -> 0..MaxJoins]
  /\ op \in [Ops -> Request]
  /\ live \subseteq Rooms
  /\ banned \subseteq Rooms \X Users
  /\ identity \in [Keys -> {"free", "held", "invalidated"}]
  /\ faults \in 0..MaxFaults

\* The live socket of a seat holds it, so that closing the socket opens a lease.
Held(k) ==
  LET c == seats[k].conn
  IN c \in Sockets /\ sock[c].open # "closed" /\ sock[c].voice = seats[k].t

\* A lease that still can end the seat is in the map for it.
Leased(k) ==
  LET t == seats[k].t
  IN leaseOf[k] = t /\ lease[t].state \notin {"none", "terminal"}

\* No seat is out of everyone's reach: either its socket is open and knows of
\* it, or a lease for its transport is in the map and not yet spent.  A seat that
\* is neither stays in the roster, and counts against the limits, until
\* somebody rejoins it or removes it by hand.
EverySeatCanEnd == \A k \in Occupied(seats) : Held(k) \/ Leased(k)

\* A claimed lease, whose expiry timer is cancelled, is claimed by a join that is
\* still running: completing it or giving it back is up to that join alone.
ClaimHasOwner ==
  \A k \in Keys : LET l == leaseOf[k] IN
    l # 0 /\ lease[l].state = "claimed" => \E s \in Sockets : task[s].claim = l

\* A lease shown as finalizing has a finalizer that runs.  Joins wait for it, and
\* with no timer left nothing else takes the record out of the map.
FinalizingRuns ==
  \A k \in Keys : LET l == leaseOf[k] IN
    l # 0 /\ lease[l].state \in FinalizingStates => lease[l].fin = "run"

\* Neither a room nor the server ever seats more than its limit, however joins,
\* moves between rooms and leases interleave with the check.
CapacityKept ==
  /\ Cardinality(Occupied(seats)) <= MaxVoicePeers
  /\ \A r \in Rooms : Cardinality(InRoom(seats, r)) <= MaxRoomPeers

\* Once a kick or a ban of a participant is through, that one has no seat any more and
\* takes none: whichever of request, seat, lease, a join on its way and its second look
\* at the bans came first.  A ban that was refused evicts nobody.
EvictionIsEffective ==
  \A o \in Ops : /\ KindOf(o) = "kick" \/ (KindOf(o) = "ban" /\ op[o].pre = "ok")
                 /\ op[o].pc = "done" /\ ~op[o].err
                 => seats[op[o].key].t = 0

\* The second look at the bans of the join that took seat j is still to come.
LookPcs == {"occupancy", "lateBan"}
LooksAgain(j) ==
  LET s == seats[j].conn IN task[s].pc \in LookPcs /\ task[s].n = seats[j].t

\* Nobody of the account behind k sits there over a socket but to be looked at again.
Cleared(k) == \A j \in Occupants(k) : seats[j].conn # NoSocket => LooksAgain(j)

\* A ban from the list that got through its evictions has found every peer of the
\* account: whoever took a seat too late for its roster finds the ban itself
\* (voice-join.ts: "a ban committed later finds the peer").
BanFindsTheSeated ==
  \A o \in Ops : /\ KindOf(o) = "putban" /\ op[o].pc = "done" /\ ~op[o].err
                 /\ op[o].key[1] \in live
                 => Cleared(op[o].key)

\* The same of the ban of a participant, which the comment does not tell from the
\* other.  It does not hold: that one reads the roster before it writes the ban.
ParticipantBanFindsTheSeated ==
  \A o \in Ops : /\ KindOf(o) = "ban" /\ op[o].pre = "ok"
                 /\ op[o].pc = "done" /\ ~op[o].err
                 => Cleared(op[o].key)

\* Once the deletion of a room is through, nobody sits in it whose join is over
\* (room-lifecycle.ts: "so a delayed replacement join cannot resurrect the room").
\* It does not hold: a join past its lookup of the room takes a seat in it.
DeletedRoomIsEmpty ==
  \A o \in Ops : KindOf(o) = "delete" /\ op[o].pc = "done" =>
    \A k \in Keys : k[1] = op[o].key[1] /\ Registered(task, k) = {} => seats[k].t = 0

-----------------------------------------------------------------------------
(* What a step may never do. *)

Takes(k) == seats'[k].t \notin {0, seats[k].t}

\* The join that takes a seat is newer than the one that had it: an older join
\* delayed in a lookup never replaces a newer one.  (One that waited for a lease
\* finalizer before it was registered may; one that waited to leave another seat
\* cannot be told from it here.)
LatestJoinWins ==
  [][\A k \in Keys, s \in Sockets :
       /\ Takes(k) /\ task[s].pc \in {"mute", "leaveOther"}
       /\ task[s].n = seats'[k].t /\ task[s].got = ""
       => seats'[k].t > seats[k].t]_vars

\* A join that came after its session was ended by moderation, deletion,
\* membership loss or a refused join is not let through as long as the lease
\* says so: not at first, nor after retrying or waiting for a finalizer.
EndedSessionStaysOut ==
  [][\A s \in Sockets : task[s].pc # "room" /\ task'[s].pc = "room" =>
       LET k == joins'[task'[s].n]  r == lease[leaseOf[k]]
       IN leaseOf[k] # 0 /\ r.reason \notin {"", "left"} => task'[s].n <= r.atSeq]_vars

\* A seat is emptied by the finalizer of the lease opened for it, by the join
\* that took it, or because its socket takes no writes; never by what belongs to
\* a seat it replaced or was replaced by.
SeatEndedByItsOwn ==
  [][\A k \in Keys : LET t == seats[k].t  c == seats[k].conn IN
       t # 0 /\ seats'[k].t = 0 =>
         \/ c \in Sockets /\ sock[c].open # "open"
         \/ lease[t].fin = "run"
         \/ \E s \in Sockets : task[s].pc \in LatePcs /\ task[s].n = t]_vars

-----------------------------------------------------------------------------
(* What the runtime is for. *)

\* The joins that have not got their seat yet.
SeekingPcs == EarlyPcs \cup {"room", "ban", "identity", "mute", "leaveOther"}
Seeking == {s \in Sockets : task[s].pc \in SeekingPcs}
Unserved == {task[s].n : s \in Seeking}

Ledger == INSTANCE SeatLedger WITH asked <- joins, waiting <- Unserved

\* The runtime keeps the ledger of seats: every join is served once at most, with
\* its own seat and within the limits, and no seat that faded comes back by itself.
KeepsLedger == Ledger!Spec

-----------------------------------------------------------------------------
(* What must happen in the end. *)

\* Every join and leave command comes to an end, finalizers it waits for included:
\* the inbound queue of its socket goes on.
CommandsComplete == \A s \in Sockets : (task[s] # Idle) ~> (task[s] = Idle)

\* The seat taken by join t outlived its socket.
Stranded(k, t) ==
  LET c == seats[k].conn
  IN seats[k].t = t /\ (c = NoSocket \/ (c \in Sockets /\ sock[c].open = "closed"))

\* A seat without a socket is rejoined or ended, it does not stay behind.
StrandedSeatsEnd == \A k \in Keys, t \in JoinId : Stranded(k, t) ~> (seats[k].t # t)
=============================================================================
