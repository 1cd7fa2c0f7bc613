------------------------------ MODULE VoiceState ------------------------------
(***************************************************************************)
(* The state one API process keeps about voice: the roster of seats, the   *)
(* sockets, the join and leave commands in flight on them, the reconnect   *)
(* leases and the moderation requests that end seats, together with the    *)
(* few durable facts (rooms, bans, peer identities) a join reads.          *)
(*                                                                         *)
(* Join requests are numbered in arrival order.  A transport id, drawn at  *)
(* random in the code, is named here by the number of the join that drew   *)
(* it, and a lease by the transport it was opened for: `joins' then says   *)
(* which seat a transport or a lease is about.                             *)
(***************************************************************************)
EXTENDS Integers, Sequences, FiniteSets

CONSTANTS
  Rooms, Peers,     \* a seat is a room and a peer id
  Users, UserOf,    \* the account (or guest address) behind each peer id
  Sockets,          \* realtime sockets, each connected once
  NoSocket,         \* the transport of a seat whose socket is gone
  Ops, Kinds,       \* requests that end seats, and what they may be
  NoOp,             \* stands for the default finalizer among callbacks
  MaxJoins,         \* bound: join requests
  MaxFaults,        \* bound: calls to the database or the SFU that fail or refuse
  MaxRoomPeers, MaxVoicePeers,
  Overlap           \* may a client come back before its old socket is closed?

AllKinds == {"kick", "ban", "putban", "delete", "member"}

ASSUME ConstantsAssumption ==
  /\ UserOf \in [Peers -> Users]
  /\ Kinds \subseteq AllKinds
  /\ NoSocket \notin Sockets
  /\ NoOp \notin Ops
  /\ Overlap \in BOOLEAN
  /\ MaxJoins \in Nat /\ MaxFaults \in Nat
  /\ MaxRoomPeers \in Nat \ {0} /\ MaxVoicePeers \in Nat \ {0}

Keys == Rooms \X Peers
JoinId == 1..MaxJoins
\* Lease records: of the transports, and of a lease whose transport became that
\* of the join that completed it while another join still held it too.
LeaseId == 1..2 * MaxJoins
TransportOf(l) == IF l > MaxJoins THEN l - MaxJoins ELSE l
SameUser(j, k) == j[1] = k[1] /\ UserOf[j[2]] = UserOf[k[2]]

VARIABLES
  seats,     \* the roster: who sits where, and over which socket
  sock,      \* each socket: open, dead (writes fail) or closed; its activeVoice
  task,      \* the command in flight on each socket
  joins,     \* the seat each join request asked for, in order of arrival
  auth,      \* latestAuthorized of each seat while joins for it are in flight
  lease,     \* lease records, by transport
  leaseOf,   \* the reconnectLeases map: the record of each seat, or 0
  op,        \* the moderation requests
  live,      \* rooms not (soft-)deleted
  banned,    \* durable bans
  identity,  \* durable peer identities
  faults     \* failed calls so far

vars == <<seats, sock, task, joins, auth, lease, leaseOf, op, live, banned,
          identity, faults>>

-----------------------------------------------------------------------------
(* Records. *)

Vacant == [t |-> 0, conn |-> NoSocket]
Seat == [t : 0..MaxJoins, conn : Sockets \cup {NoSocket}]

Socket == [open : {"open", "dead", "closed"}, voice : 0..MaxJoins]

\* Awaits of a join before it is registered, after it, and of a leave.
EarlyPcs == {"retrying", "finalizing"}
LatePcs == {"room", "ban", "identity", "mute", "leaveOther", "occupancy",
            "lateBan", "snapshot"}
\* Awaits of a lease finalizer rather than of the database.
WaitPcs == EarlyPcs \cup {"leaveOther", "leave"}

Idle == [pc |-> "idle", n |-> 0, claim |-> 0, wait |-> 0, got |-> ""]
Task == [pc : {"idle", "leave"} \cup EarlyPcs \cup LatePcs, n : 0..MaxJoins,
         claim : 0..2 * MaxJoins, wait : 0..MaxJoins, got : {"", "ok", "err"}]

LeaseStates == {"none", "pending", "claimed", "finalizing-expiry",
                "terminal-finalizing", "finalizer-failed",
                "terminal-finalizer-failed", "terminal"}
FailedStates == {"finalizer-failed", "terminal-finalizer-failed"}
FinalizingStates == {"finalizing-expiry", "terminal-finalizing"}
Reasons == {"", "left", "join-rejected"} \cup AllKinds
Stages == {"", "prereq", "revoke", "identity", "participant", "settle"}

\* due: the deadline passed; taken: a join claimed it at some time; cbs, idx:
\* finalizeCallbacks and the next one to run; fin: the finalizer promise; cb,
\* stage: the callback running and the call it awaits; owned, fail:
\* ownershipFinalized and failure.
LeaseOver(os) == \* a lease whose callbacks are of the requests os
  [state : LeaseStates, disc : BOOLEAN, due : BOOLEAN, taken : BOOLEAN,
   reason : Reasons, atSeq : 0..MaxJoins, cbs : Seq(os), idx : Nat \ {0},
   fin : {"none", "run", "ok", "err"}, cb : os \cup {NoOp}, stage : Stages,
   owned : BOOLEAN, fail : {"no", "plain", "rollback"}]
Lease == LeaseOver(Ops)
NoLease == [state |-> "none", disc |-> FALSE, due |-> FALSE, taken |-> FALSE,
            reason |-> "", atSeq |-> 0, cbs |-> <<>>, idx |-> 1,
            fin |-> "none", cb |-> NoOp, stage |-> "", owned |-> FALSE,
            fail |-> "no"]

\* kind: what it is; pre: the ban write the callbacks wait for; rev: the
\* revocation they share.
Outcome == {"none", "ok", "failed"}
NoKey == <<>>
Request == [kind : AllKinds, pc : {"idle", "roster", "teardown", "wait", "done"},
            key : Keys \cup {NoKey}, wait : SUBSET LeaseId, err : BOOLEAN,
            todo : SUBSET Keys, pre : Outcome, rev : Outcome]
NewRequest(kind) ==
  [kind |-> kind, pc |-> "idle", key |-> NoKey, wait |-> {}, err |-> FALSE,
   todo |-> {}, pre |-> "none", rev |-> "none"]

Init ==
  /\ seats = [k \in Keys |-> Vacant]
  /\ sock = [s \in Sockets |-> [open |-> "open", voice |-> 0]]
  /\ task = [s \in Sockets |-> Idle]
  /\ joins = <<>>
  /\ auth = [k \in Keys |-> 0]
  /\ lease = [n \in LeaseId |-> NoLease]
  /\ leaseOf = [k \in Keys |-> 0]
  /\ \E kinds \in [Ops -> Kinds] : op = [o \in Ops |-> NewRequest(kinds[o])]
  /\ live = Rooms
  /\ banned = {}
  /\ identity = [k \in Keys |-> "free"]
  /\ faults = 0

-----------------------------------------------------------------------------
(* The roster (realtime/room-presence.ts). *)

\* publish: an event to everyone in the room but `except'.  A peer whose socket
\* no longer takes writes leaves as lost, and so does whoever the news of that
\* fails to reach; a seat without a socket counts as reached.
publish(st, r, except) ==
  LET lost == {k \in Keys : /\ k[1] = r
                            /\ st[k].conn \in Sockets
                            /\ sock[st[k].conn].open # "open"}
  IN IF lost \subseteq {except} THEN st
     ELSE [k \in Keys |-> IF k \in lost THEN Vacant ELSE st[k]]

\* Faulty closePeer: closes the seat whoever holds it now.
closePeer_AnyTransport(st, k, t) == publish([st EXCEPT ![k] = Vacant], k[1], k)

\* closePeer: only the transport that owns the seat can close it.
closePeer(st, k, t) ==
  IF st[k].t # t THEN st
  ELSE publish([st EXCEPT ![k] = Vacant], k[1], k)

Occupied(st) == {k \in Keys : st[k].t # 0}
InRoom(st, r) == {k \in Occupied(st) : k[1] = r}

\* detachVoicePeer: every socket still holding the seat stops holding it.
detachVoicePeer(so, ks) ==
  [s \in Sockets |->
     IF so[s].voice # 0 /\ joins[so[s].voice] \in ks
     THEN [so[s] EXCEPT !.voice = 0] ELSE so[s]]

CanFail == faults < MaxFaults
\* Accounts for the outcome of a call: failures come from the budget.
Answer(ok) == IF ok THEN UNCHANGED faults ELSE CanFail /\ faults' = faults + 1
=============================================================================
