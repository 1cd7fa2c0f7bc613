# VoiceRoom: TLA+ models of its voice runtime, admission, deliveries and recovery

VoiceRoom is a chat and voice server: an API process (`src/apps/api`), workers
for delivery and media that run beside it, a LiveKit SFU that carries the audio,
PostgreSQL, and a web client (`src/apps/web`).  This directory models the parts of
it in which processes, requests and timers meet: *who sits in which voice room*, who
may enter the media server, the way of a stored message to the sockets that show it,
the life of an uploaded image, and how a client brings its call back.  It checks them
with TLC on small instances and proves theorems about them with TLAPS.

Paths below are relative to `src/apps/api/src/` unless they say otherwise.

## 1. Inventory

### Components of the voice core

| Component | State | Operations | Hard behaviour | What makes it correct |
|---|---|---|---|---|
| roster (`realtime/room-presence.ts`) | rooms and their peers, each with a transport id and a socket | `publish`, `closePeer`, the queue of occupancy writes, pruning | telling a room that one peer left finds more sockets dead and closes more seats, within the same call; writes to the database are queued | a seat is closed only by its own transport; counts never pass the limits; the durable occupancy follows the roster |
| reconnect leases (`realtime/reconnect-leases.ts`) | one record per (room, peer, session): state, deadline, timer, terminal reason, callbacks, promise of its finalizer | create, claim, complete, restore, terminate, expire, finalize with callbacks, retry a failed finalizer | every transition is synchronous, but finalizers await the database and the SFU while other requests change the record they were started for | a seat without a socket is rejoined or ended; only one join holds a lease; a finalizing record has a finalizer |
| joins (`realtime/voice-join.ts`) | `latestAuthorized` per seat, the join generation of a socket | `joinVoiceRoom`: claim, room, ban, identity, mute, authorization, leave elsewhere, seat, occupancy, second ban check, snapshot | eight awaits; older joins, bans, deletions and closing sockets come in between | the newest join wins; no seat beyond the limits; a banned peer does not stay; a failed join gives back or ends what it claimed |
| runtime (`realtime/room-runtime.ts`) | - | `leaveVoiceRoom`, `cleanupConnection`, `disconnectAccountFromRoom`, the default finalizer, a peer's own updates | leave and close race with joins of the same client over another socket | a seat is ended by what belongs to it |
| sockets (`realtime/registry.ts`, `ws-handler.ts`) | sockets with their `activeVoice` and inbound queue | commands in order, close out of order, `detachVoicePeer` | one command at a time *per socket*, no order between sockets; a queue stands still behind a command that waits | every command ends |
| moderation (`domains/rooms/peer-eviction.ts`, `peer-moderation.service.ts`, `domains/moderation/`) | requests in flight, durable bans | kick, ban of a participant, ban from the list, server mute | the ban is written before, or by, the finalizers it shares with expiry and leave; any of four external calls may fail | an eviction is effective whatever it overlaps with |
| room deletion (`domains/rooms/room-lifecycle.ts`, `rooms.service.ts`) | durable rooms | soft delete, then teardown | a join that read the room before its deletion | a deleted room is empty |
| peer identities (`domains/rooms/peer-identity.repository.ts`) | durable identities | get or create, invalidate | invalidated between the leases' calls | an ended session does not come back |

### Message delivery

| Component | State | Operations | Hard behaviour | What makes it correct |
|---|---|---|---|---|
| worker lease (`platform/lease-runtime.ts`, the lease table of `message-outbox.repository.ts`) | owner, fence and expiry of the lease; the fence guard of each process | acquire, renew, lose, release, stop | the lease expires under a worker that does not know it yet; an answer is lost; a stop arrives while the lease is being taken | no two workers under one fence; a stopped worker ends |
| outbox and worker (`message-outbox.repository.ts`, `workers/message-delivery.ts`) | events: status, attempts, the fence of their claim | enqueue, claim a batch, dispatch, mark, reschedule | a crash or a takeover between any two of these; claims that go stale under a slow worker | announced before marked; settled once and for all; given up only when the attempts are used; settled in the end |
| relay (`message-delivery-relay.ts`, `platform/db/listen.ts`) | the LISTEN connection, `lostAt` | listen, lose, retry, replay, dispatch | the connection is lost again during a replay; it is broken before that is noticed; a worker is between announcing and marking | what was delivered while it was down is replayed |

### Admission, media, client

| Component | State | Operations | Hard behaviour | What makes it correct |
|---|---|---|---|---|
| admission and gate credentials (`domains/admission/`, `persistSuccessfulAdmission`, mutes and bans of `domains/moderation/`) | the epoch of a principal, its credentials, the rows of its mute and its bans | `admit` (mute lookup, issue, re-check, ban lookup, persist), clean up, mute, unmute, ban, unban, evict, end a session | the epoch is read in a transaction of its own; a mute, a ban or an eviction lands between any two calls; only some failures have a cleanup | no credential of a banned account verifies; a mute is not outlived by a microphone |
| media (`domains/media/`, `workers/media-processing.ts`, `media-maintenance.ts`, `media-reconciliation.ts`) | the row of an attachment, its files, its job with claim, fence and attempts | create, upload, retry, bind, delete, remove; claim, transform, complete, fail; clean up; reconcile | only running jobs of a batch are renewed; giving up takes two steps; files and rows change apart from each other, by four processes | one holder of a claim; attempts bounded; deleted and bound stay so; nothing is processed for ever; files go with their row |
| call recovery of the web client (`features/room/client/recovery/`, `entities/room/room-realtime.ts`, `services/livekit-service.ts`) | phase, recovery epoch, effect generation, timers; the rejoin under way; the socket and its queue; the LiveKit room and the attempts to replace it | 11 handlers, 3 timers, the attempt's own steps | handlers of three sources in any order, attempts and timers that outlive the recovery that started them | one attempt may commit; healthy is healthy; an asked replacement ends; the call comes back |

### Components around them

| Component | State | Interactions | Why it is not modelled |
|---|---|---|---|
| notification delivery (`domains/notifications/`, `workers/notification-delivery.ts`) | queued pushes with claims, a fenced lease of its own, preferences | claim, push, settle, reschedule | its lease runtime and the shape of its outbox are modelled with message delivery; what differs are preferences and endpoints |
| rings (`domains/rings/`) | rings and invitations | ring, answer, cancel, expire | one guarded statement each; the invitation is answered in a second one that nothing waits for |
| durable occupancy (`room-presence.ts:66-160`) | a queue of writes per room | follows the roster | nothing reads it back while the server runs |
| outbox of the web client (`shared/chat/outbox.ts`) | unsent messages | resend | the server's idempotency key makes a resend harmless |
| membership, accounts, staff, chat history, reports, link previews | database rows | single transactions | their concurrency is that of the database; what reaches seats or credentials goes through the operations above |

`PROJECT.json` lists every component with its sources and status, and under
`hazards` the places of the code that are hard to test, each with the property
that would catch it or the reason why none does.

## 2. How the model corresponds to the code

The five parts share no state, and neither do their modules.  Within each, one module extends the one before; `SeatLedger` says what the
voice runtime is for:

| Module | Models | Contents |
|---|---|---|
| `VoiceState` | roster, sockets, in-flight commands, durable facts | constants with their assumption, the records, `Init`, `publish`, `closePeer`, `detachVoicePeer`, failing calls |
| `ReconnectLeases` | `reconnect-leases.ts`, `peer-eviction.ts`, the default finalizer | the synchronous transitions as operators on one record, the finalizer as a process, the timers |
| `VoiceJoin` | `voice-join.ts`, leaving, sockets that close | one action per await of `joinVoiceRoom` and of `leaveVoiceRoom` |
| `VoiceRuntime` | moderation, deletion, loss of membership; everything composed | the requests, `Next`, fairness, all properties |
| `SeatLedger` | what the runtime promises, abstractly | joins asked for, joins still waiting, seats; `Ask`, `Serve`, `Fade` |
| `FencedLease` | `lease-runtime.ts`, the lease statements of the repository | the lease, the life of the worker processes |
| `MessageDelivery` | `message-outbox.repository.ts`, `workers/message-delivery.ts` | the outbox and the work done under the lease; `DeliverySpec` |
| `DeliveryRelay` | `message-delivery-relay.ts`, `listen.ts` | one listening replica next to the delivery; `Spec` |
| `Admission` | `domains/admission/`, `room-ban.repository.ts`, `setServerMute` | the credentials of one account in one room, its admissions, what revokes them |
| `MediaJobs` | `domains/media/`, the three media workers | one image: row, files and job, everybody who works on them |
| `ClientRecovery` | `realtime-recovery.ts`, `room-realtime.ts`, `livekit-service.ts`, `api/realtime.ts` of the web client | one call of one client; handlers as operators from a state to the next |
| `MCVoiceRuntime`, `MCMessageDelivery`, `MCAdmission`, `MCMediaJobs` | - | the small instances for TLC |
| `VoiceTypes_proofs`, `VoiceSafety_proofs`, `VoiceSeats_proofs`, `VoiceEvictions_proofs`, `MessageDelivery_proofs`, `Admission_proofs`, `MediaJobs_proofs`, `ClientRecovery_proofs` | - | theorems |

**The abstract specification.**  `SeatLedger` knows no sockets that swallow writes, no
leases, finalizers or requests.  A join request is asked (`Ask`); it is served at
most once, with the seat it asked for and nothing else, on top of whoever sits there
or within the limits (`Serve`); apart from that joins are dropped and seats lose
their socket or are emptied, for whatever reason (`Fade`).  `VoiceRuntime` implements it
under the mapping `Ledger`: the joins asked are `joins`, those waiting are the
joins of the commands that have not reached their seat (`Unserved`), the seats are
the roster.  What it rules out: a join that comes back to a seat it lost, a seat for
somebody else than asked, a socket that returns to a seat after it closed, a limit
exceeded.  The reasons for which a seat may be emptied are not part of it:
`SeatEndedByItsOwn` is about those.

**Atomicity of the voice runtime.**  The API is one Node.js process.  Between two `await`s nothing
else runs, so one action is the whole stretch of code from one await to the next,
with everything it calls: the seat taken, the event published (and the seats it
closes), the lease completed, the `finally` block when it is reached.  Calls to
the database and to the SFU are where other actions interleave; each may fail as
long as `MaxFaults` allows.

**Micro-tasks.**  Some awaits need no outside event: the continuation of a join
that waits for a finalizer that has settled, of a callback with nothing to do.
Those run before the next socket event or timer, so every action that begins
from outside asks that none is pending (`Prompt`).

**Names.**  Joins are numbered in arrival order (`joinRequestSequence`).  The
transport id a join draws at random is the number of the join, which keeps it
unique.  A lease record is named by the transport it was opened for.
`completeClaimedLease` moves a record to the transport of the join that
completes it before dropping it from the map; that matters only when a second
join holds the same record, and such a record is `n + MaxJoins`.

**Variables.**  `seats` is the roster; `sock` the sockets and their `activeVoice`;
`task` the command running on each socket, with the await it is in (`pc`), the
lease it claims and the finalizer it waits for; `joins` the seat asked for by each
join; `auth` the `latestAuthorized` of a seat; `lease` and `leaseOf` the records
and the map `reconnectLeases`; `op` the requests that end seats; `live`, `banned`
and `identity` what is durable.

**Deadlines.**  Time is not modelled.  A pending lease may expire at any moment
(`LeaseExpires`), the deadline of a claimed or finalizing one may pass at any moment
(`DeadlinePasses`), a spent terminal record may be forgotten at any moment
(`TerminalForgotten`).

### What the voice model leaves out

- Session tokens that do not match: one session per (room, peer).  Reserved
  peer ids and requests that are refused before any state is read.
- Resolving the account of a socket before a join, an await that reads nothing
  modelled here.  The two reads of the final snapshot are one step.
- `closed` sockets found while an event is sent to all sockets of a *user*
  (`registry.ts:273-291`) are closed there synchronously; here they are closed by
  `SocketCloses`, a step of its own.
- The additional revocation of credentials in `disconnectAccountFromRoom` when no
  seat matches: it changes no state of the model.
- The limit on bans, replayed and lifted bans, the flag of the server mute in the
  roster, the durable occupancy, the pruning of empty rooms.  Credentials, and the
  mutes and bans that revoke them, are in `Admission`.

### Message delivery

**Atomicity.**  Worker and API are different processes, which meet in the database
only.  One action is one statement, or one continuation that looks at the fence
guard before the next statement.  A statement is executed and answered, executed
without its answer arriving, or not executed (`Outcomes`); the last two, an early
expiry of the lease, a crash, a broken connection and a failed relay count as faults.
The guard's `isOwned` is `worker[w].owned`; between the loss of the lease and the
renewal that notices it (`RenewalFails`) the worker works on.

**Time.**  That `available_at` has passed is `due`, that a claim is older than
`staleClaimMs` is `stale`; either may come true at any moment.  A lease that a worker
renews expires only by a fault, any other at any moment.  `lostAt` is modelled by what it
selects: `late` is the set of events delivered since, and a replay query under way is
the set of those delivered since the `lostAt` it was asked with.

**Left out:** heartbeats and `ready`, back-off delays, the order within a batch
(`UPDATE ... RETURNING` promises none), rows locked by another claim, the key that
makes `enqueue` idempotent (here each event is stored once), the limit of 500 on a
replay, the content of messages, further replicas, the shutdown of the relay and the
first LISTEN at start-up.  An owner id is drawn per process: the lease of a
process that died belongs to `NoWorker`.

**A stop that is missed.**  `stop` aborts the runtime's signal and marks an active
guard lost (`lease-runtime.ts:258-262`).  While the call that takes the lease is
under way there is no guard yet, and `holdLease` starts to listen to the signal when it
has been aborted already, so the worker goes on working until it loses its lease.
The model keeps this (`stop = "missed"`), and `StopEnds` speaks of the others.

### Admission

One account, one room.  `epoch` is the account's row in
`livekit_gate_principal_epochs`, `cred` the credentials it was ever issued, `mute` and
`banned` its rows in `room_server_mutes` and `room_bans`, `adm` the `admit` call of each
device with the await it is in, `muting` the mute requests between their row and their
revocation.  One action is one call to the database, with the continuation that decides
what to call next; `again` is the second issue of one admission.  A credential stands
for the media token handed over with it: the gate forwards nobody whose credential does not verify,
so what the token grants is what the credential vouches for.  `mute.cut` records that
the mute has made its revocation.  The expiry of a credential is left out because it
only takes one away, which `EndSession` does too.  Left out: guests, the binding of a token to its credential,
the signer, several rooms or accounts (their rows are apart).

### Media

`att`, `files` and `job` are the row, the files and the last job of one image; `worker` a
processing worker between two of its calls; `upload`, `retrying` and `removing` the
requests of the owner, `maintaining` and `reconciling` the two periodic passes.  A claimed batch is modelled by what it does
to one job: `queued`, waiting unrenewed for its turn.  A lease that somebody still works under runs out only
by a fault (`LeaseExpires`), any other at any moment.  The processed image and its preview are one file; an hour or a
day may pass between any two steps, so that what is abandoned may be listed at any time.  The rows of finished jobs,
deleted after an hour, are as good as there.  An upload holds the attachment's lock, a session lock: the statements under it are
not one transaction.  Left out: quotas, pressure, avatars, who may see what, temporary files.

### Client recovery

JavaScript runs one callback at a time, and the handlers of the controller call each other
synchronously.  Each is an operator from the state `w` of the client to the next, so an action is an
event together with everything it sets off.  The one thing that awaits is the attempt to replace the LiveKit
room: `runs` is the set of attempts still running, each with the epoch and the generation it began in, until it
commits (`Commit`), reports (`Finish`), finds itself outdated or fails.  The application's epoch never differs
between the controller and the socket, because the controller is told in the call that changes it; what is left of
it is whether the socket is up.  `retry`, `cool` and `spare` hold the epoch in which a timer was armed; `spare` are cooldown timers
whose handle was overwritten by `enterCooldown`, which nobody can cancel any more.  Delays are not modelled, except that a cooldown (10 s or more)
outlasts the tries of a rejoin (7 s): `CooldownOver` waits until none is under way.  `faults.kinds` remembers which kinds of
disturbance there were, for the properties that set one apart; among them are `"late"`, a room that falls between the commit of an
attempt and its report, and `"due"`, a room that LiveKit reconnects by itself while its replacement is due.
Left out: leaving, the media published, previews, phases before a call and after it.

## 3. Properties and runs

Each property stands in the module it is about, with the behaviour it is about.

| Run | Instance | Properties | States |
|---|---|---|---|
| `voice_takeover` | one peer, three sockets, three joins at once, one failing call | `TypeOK`, `EverySeatCanEnd`, `LatestJoinWins`, `SeatEndedByItsOwn` | 1 million |
| `voice_moderation` | one peer, three sockets one after the other, three joins, one request of any of the five kinds | `ClaimHasOwner`, `FinalizingRuns`, `EvictionIsEffective`, `BanFindsTheSeated`, `EndedSessionStaysOut` | 0.5 million |
| `voice_limits` | two peers, two rooms, limits of one, two sockets, two joins, one failing call | `CapacityKept`, `KeepsLedger` | 0.3 million |
| `voice_liveness` | one peer, two sockets, two joins, one request of any kind | `CommandsComplete`, `StrandedSeatsEnd` | 75 thousand |
| `delivery` | two workers, two events, batches of two, two attempts, two faults | `DeliveryTypeOK`, `FencesDiffer`, `DeliveredWasAnnounced`, `SettledForGood` | 5 million |
| `relay` | one worker, one event, two attempts, three faults | `StopEnds`, `EventsSettle`, `LateIsReplayed` | 90 thousand |
| `admission` | two devices, one moderator, three credentials, two revocations, one failing call | `TypeOK`, `BannedHoldsNothing`, `MuteCutsMicrophone`, `FewStrays` | 5 million |
| `media` | two workers, two jobs of two attempts, one fault | `MediaTypeOK`, `OneHolder`, `AttemptsBounded`, `DeletedIsFinal`, `BoundIsKept`, `LossHasCause` | 5 million |
| `media_liveness` | one worker, one retry's job, two attempts, one fault | `ProcessingEnds`, `DeletedFilesGo`, `LossIsNoticed` | 130 thousand |
| `recovery` | two attempts, two tries, four faults of twelve kinds | `RecoveryTypeOK`, `HealthyIsSettled`, `SingleFlight`, `CallStands`, `AbandonedIsOver`, `AskIsAnswered`, `RoomReturns` | 0.6 million |
| `orphan_in_use` | one worker, no fault | `OrphansAreOrphans`, violated | |
| `cooldown_stuck` | a drop of the room and a change of network | `CooldownRecovers`, violated | |

**Why the bounds are enough for what they are for.**  A takeover needs a seat, a
join that replaces it and a third that overlaps both: three joins on three
sockets.  Moderation needs the session that is evicted, the reconnect that
overlaps the eviction, and the one after it.  One peer is enough for the race of a ban with a join that is
on its way to the seat; several are the subject of the theorems `BansFindTheSeated` and `EvictionsStand`.  The limits bite at one seat per room and
server when two peers compete and a peer moves.  One failing call distinguishes
every partial failure of a finalizer or join; two failures at once are not explored.

In `delivery` the second fault is what a takeover does not need: a worker that has lost its
lease unawares *and* a lost answer, a crash or a failed dispatch of either worker.
Two events let a worker go on with its batch after one event of it failed.
`relay` has one worker, whose crash and restart under a new owner id is a takeover,
and three faults: a connection lost again during its replay, while the delivery
suffers one fault of its own.

In `admission` two devices let a credential of the one survive a revocation meant for the
other, and three credentials let one device be issued a second one, in the same admission
or in a later one.  Two revocations are a mute and a ban, or either and an eviction; one failing call is every
partial failure of one admission.  In `media` two jobs are the upload's and a retry's, two workers a takeover, and
the fault is the lost lease, the lost answer or the crash that the takeover needs.  In `recovery` two attempts and two
tries are the least with a first one, a last one and nothing after it; four faults let a disturbance hit the
recovery of a disturbed recovery.  The code's numbers are five and three.

**Overlap.**  `Overlap = TRUE` lets a client connect and join over a second
socket while its first is still open; `FALSE` makes it wait until the old one is
closed, as the reconnecting web client does when it notices the loss itself.
`voice_moderation` and `voice_liveness` use `FALSE`.  Where a client overlaps itself *and* is
evicted, the code's guarantees are weaker and the model shows it:

- `detachVoicePeer` (`registry.ts:345-356`) detaches every socket of the peer,
  the one of a replacement that has been seated meanwhile included;
  `EverySeatCanEnd` fails then.
- A takeover in flight when its predecessor is kicked or its room deleted takes
  its seat; only joins that hold a lease look at its fate.

`LatestJoinWins` is stated for joins about to take their seat that did not wait for a
finalizer.  One that did may be overtaken, with four joins, because the
authorization is given up when no registered join is left.

**Fairness** (`voice_liveness`).  Weak fairness of every join, leave and request
continuation, of every finalizer step and of the expiry of each lease: the
database and the SFU answer (successfully or not), the event loop runs, timers
fire.  Clients and moderators promise nothing, so joins, leaves, closes and requests
are not fair, nor is `TerminalForgotten`.  The run has no failing calls: a failed
revocation leaves a record whose finalizer failed, and nothing but a new join or
a request retries it.  Liveness is checked without symmetry.

In `relay` weak fairness holds of the database's answers, of every continuation, of the
renewal that notices a lost lease, of expiry and of claims growing old, and of the
relay's own steps: its retry timer tries for ever, so it is connected again in the end.
Nobody has to enqueue, to stop a worker or to suffer a fault.  `EventsSettle` gives up
when the only worker was told to stop.

`media_liveness`: weak fairness of the requests under way, of each worker's next step, of each
pass, of the time that lets a retry come due and of a lease nobody renews that runs out.  The workers loop, and are started again when they crash; the passes are
timers of a process of their own.  Owners promise nothing.  `recovery` and `cooldown_stuck`: a server
that is up answers, the socket reconnects, the network comes back, the browser's timers fire, an attempt goes on to its end, and
LiveKit comes to an end of its own reconnecting.  Faults are not fair; each is bounded by `MaxFaults`.

`RoomReturns` and `LossIsNoticed` say where they stop.  `RoomReturns` sets apart what the code gives up on or cannot know (a final
refusal, a refused rejoin that reaches no handler, a loss between commit and report) and the recovery that fails
over an attempt of its own, which is finding 2.  `CooldownRecovers` is the same without that last exception.

**Deadlock** is not checked: once the bounds on joins, requests and jobs are used up and
everyone has left, nothing needs to happen.

Each passing property has a mutant in `PROJECT.json`: a plausible slip in
one modelled function (written next to it, marked faulty) that must break it.

## 4. Findings

Two runs show a disagreement between the code and what its tests and comments say of it:

1. **Orphans that are in use** (`domains/media/media-reconciliation.service.ts:36-62`).  The storage
   keys are read before the files are listed, and a file without a key is removed without
   looking again.  A worker that has stored its files and commits them in between
   leaves a ready image whose files are gone.  The next pass finds that out and marks it unavailable
   (`LossIsNoticed`).
2. **A recovery waits for ever** (`realtime-recovery.ts:565-580`).  `tryRearm` moves the epoch and
   leaves `inFlight` set.  With an attempt running when the recovery failed, `finishAttempt` returns before it
   clears the flag, and `maybeAttempt` does nothing any more until the socket falls, or LiveKit by
   itself.

Six more were found in the voice runtime and the relay.  They have no run of their own; the property fails in the
instance given, which differs from the runs above only in its constants:

| Where | What | Shown by |
|---|---|---|
| `voice-join.ts:231-237` | A join that waited for a finalizer claims the lease again and treats every answer but `none` as a failure.  When a third socket has taken the seat and left a lease of its own meanwhile, or a refused ban has rolled the first back, the answer is `claimed` and nobody gives it back: its timer is cancelled, the seat stays. | `ClaimHasOwner`: three sockets and joins, overlapping, no request |
| `reconnect-leases.ts:304-308` | `terminateLease` does not look at the state.  When a kick has finalized the lease and the join that held it is then refused, the spent record becomes `terminal-finalizing` with a settled promise. | `FinalizingRuns`: two sockets, a kick, one failing call |
| `voice-join.ts:248` | A join without a claim, past its room lookup, is not stopped by the deletion of the room. | `DeletedRoomIsEmpty`: two sockets and joins, a deletion |
| `reconnect-leases.ts:256-279` | After a rolled back ban a second join claims the record the first still holds.  When one completes it and the other gives it up, the second's finalizer ends the seat of the first. | `SeatEndedByItsOwn`: three sockets and joins, overlapping, a ban, one failing call |
| `peer-moderation.service.ts:128` | The second look of a join at the bans relies on a roster that is read after the ban is committed (`voice-join.ts:451-453`).  That is so of a ban from the list (`BanFindsTheSeated`); the ban of a participant reads the matching peers first and has their first finalizer write it.  Another peer of the account that takes its seat and has its second look in between stays. | `ParticipantBanFindsTheSeated`: two peers of one account, two sockets that do not overlap, two joins, a ban of a participant |
| `message-delivery-relay.ts:137` | The replay lists delivered events once, when the connection is back.  An event the worker announced while it was down and marks only after that query is relayed by nobody. | `NothingMissed`: one worker, one event, one fault, `LateDetection = FALSE` |

One more is in the web client, and needs more disturbances than the run has:

| Where | What | Shown by |
|---|---|---|
| `realtime-recovery.ts:318-333` | `livekitReconciled` calls a replacement that is due off by moving the effect generation and clearing `inFlight`, and leaves the epoch alone, which is all that an attempt asks after before it commits (`livekit-service.ts:170`).  When the room drops again, `livekitDisconnected` moves the epoch only for an optional replacement (line 345), so a second attempt starts in the epoch of the first and either may take the room over.  `realtime-recovery.test.ts:125` promises a single flight. | `NeverTwoAttempts`: two attempts, one try, five faults of the kinds `drop`, `late`, `socket` and `due` |

`SingleFlight` is `NeverTwoAttempts` as long as LiveKit brings back no room whose replacement is due.

Smaller observations: the stop that is missed (section 2); a ban refused after the deadline of
the lease deletes the lease while the seat stays (`reconnect-leases.ts:129-140`);
a failed disconnect stops the loop over the matches of a ban
(`moderation.module.ts:69-71`); the credential that replaces one outdated by a mute is not checked against the
mute again (`admission.service.ts:287-290`); no worker claims the cleanup jobs that deleting a message
queues (`attachment-revocation.service.ts`), the hourly cleanup does their work; a refused rejoin answers with an
error, and errors reach no handler of the room (`room-realtime.ts:108-110`), so that the cases for
`room_full` or `room_banned` in `voice-events.ts:79-97` are never reached by it.

## 5. Proofs

TLAPS proves the theorems below for every value of the constants that each module's
assumptions allow: any number of rooms, peers, sockets, joins and requests, any limits
(`ConstantsAssumption`); any number of workers, events and attempts (`LeaseAssumption`,
`DeliveryAssumption`); any number of devices, moderators and credentials (`AdmissionAssumption`); any
number of workers, jobs and attempts (`MediaAssumption`); any number of attempts and tries and any kinds of
faults (`RecoveryAssumption`); and any number of faults in all of them.

**`TypesKept`: `Spec => []TypeOK`** (`VoiceTypes_proofs`).  `TypeOK` is not
inductive.  `TInv` adds what the code relies on when it indexes one table with
the contents of another:

- a command that is not idle is about one of the joins made so far, and so is
  the seat a socket holds (`KnownTask`, `KnownSocket`);
- a request that has begun has a seat it is about, and the callbacks of a lease
  are those of requests that have begun (`KnownRequest`, `Asked`): the ban is
  written for that seat's account;
- a record in a finalizing state has a finalizer, running or settled (`Record`):
  a join that waits for it takes over its answer.

Lemmas type each operator of the lease module, then each action; `TypesInit`,
`TypesStep` and `TypesEnough` are the three facts the theorem combines.

**`Capacity`: `Spec => []CapacityKept`** (`VoiceSafety_proofs`).  `CInv` adds that
finitely many seats are taken, without which a cardinality says nothing.  Every
action either takes seats away (`Fewer`) or fills one seat in `TakeSeat`, where it
was counted in the same step (`OneMore`); that the check and the seat are one
step is exactly what the theorem rests on, and `TypesKept` supplies the type of
`seats`.

**`Implements`: `Spec => KeepsLedger`** (`VoiceSafety_proofs`), the refinement of
`SeatLedger`.  `LInv` adds to the two invariants above that no two commands
seek a seat for the same join (`OneCommandEach`); without it a join that is served
might still be waiting as another command, and be served twice.  Two facts about
steps carry the proof.  A step is `Quiet` when whoever seeks a seat after it sought it
before, for the same join; the roster *fades* (`FadesTo`) when seats are emptied or
lose their socket.  Every action but a join request and the taking of a seat is quiet
and fades the roster (`FadeStep`).  A join request (`RequestAsks`) takes a number no
command has.  The taking of a seat (`TakesKept`) is `Serve`, except when the news of
it finds the joiner's own socket dead and the seat is emptied in the same step,
which is `Fade`.

**`LatestWins`: `Spec => LatestJoinWins`** and **`StaysOut`: `Spec => EndedSessionStaysOut`** (`VoiceSafety_proofs`).
`SInv` adds to `LInv` what a delayed join relies on.  A join that looks things up has authorized itself, or will, and the
authorization of its seat is not forgotten while it is registered (`voiceJoinStates` counts it).  For the second, what a lease says of
the end of its session is carried over from step to step (`Carried`): it keeps out the joins it kept out before, or it is
open to all there are, and no record that keeps somebody out comes into the map anew.  A join that waited reads the record again, so
the answer it waits for must come from a record that still says so: one that is retried does (`Sound`, `Spent`), and one that
left the map told whoever waited (`Told`).

**`EndedByItsOwn`: `Spec /\ []NoBanRefused => SeatEndedByItsOwn`** (`VoiceSeats_proofs`).  The hypothesis excludes one
event, that the database refuses a ban the finalizers wait for; any number of rooms, joins, kicks, deletions, bans that are
kept, overlaps and other failures remain.  Without it the property fails (section 4): the rollback makes a claimed
record pending again, a second join claims it, and when one of the two completes it the other can still end
its seat.  `Base` adds to `LInv` who may still refer to a lease:

- a seat is that of a join that was served with it (`SeatInv`), and the map has at a seat only a lease of that seat (`MapInv`);
- a record is that of a join that was served, and one that says its session has ended is that of a transport without
  a seat (`RecordAt`);
- a command's claim is on the lease of its own seat and no other command's, and the lease is in use unless its
  transport is gone (`ClaimAt`).

Joins that are served stay served, and a transport that lost its seat never has one again (`Grown`), so a
lease that is gone from the map is harmless for good.  For each action one lemma (`...Seats`) gives three facts: the
tables still agree (`TablesFine`), so do the commands (`ClaimsFine`), and a seat that
was emptied was emptied by its own (`OwnStep`); the action property is the last of them.

**`FinalizersRun`: `Spec /\ [](NoBanRefused /\ NoneSpent) => []FinalizingRuns`** and **`ClaimsHaveOwners`:
`Spec /\ [](NoBanRefused /\ NoneWaited) => []ClaimHasOwner`** (`VoiceSeats_proofs`) come from the same steps.
`RecordFine` says of every record what a step may do to its finalizer and to its claim: a finalizer that runs goes on,
settles into a state that is not finalizing, or the record is spent and given back (`Spends`); a record is claimed by a
join that runs after the step (`Claimant`), or by one that waited for another lease of the seat (`Orphaned`).
`ClaimsHeld` adds that a join lets go of its claim only with the record.  The invariants are then `RunsInv` and
`OwnersInv`, the two properties said of every record, in the map or not.  Each hypothesis excludes one cause that
section 4 or the hazards name, and nothing else: a lease finalized by one join while another, past its claim, finds its
mute flag refused and terminates the record as if it were still there (`NoneSpent`, `reconnect-leases.ts:304`), and a
join that waited for a finalizer, finds another pending lease at the seat, claims it and answers with an error
(`NoneWaited`, `voice-join.ts:231`).  Without them both properties fail, as the hazards say.

**`SeatsCanEnd`: `Spec /\ [](NoBanRefused /\ NoneReplaced) => []EverySeatCanEnd`** (`VoiceSeats_proofs`).  `NoneReplaced`
excludes the other cause section 4 names: a kick, a ban or the end of a membership that is about to detach the sockets of
a peer finds its seat gone or its own, not one taken anew (`registry.ts:345-356` asks for the peer and not for the
transport).  `EverySeatCanEnd` is not inductive: a socket lets its seat go when a leave has been answered, in the
moved-between-rooms case from within the join of another seat.  `InReach` adds what that rests on, that the seat a command is about to
leave has its lease already (`Departs`).  `LeasesStay` says that the lease of a seat stays in the map as long as
the seat does, and follows from `Base`.  `ReachStep` is then the promise of one step, shown by one lemma per
action (`...Reach`): a seat is as it was, or has a lease, or was taken just now by a join that is still running over an open socket; and a socket
keeps its seat or leaves it to a lease.

**`BansFindTheSeated`: `Spec /\ [](NoBanRefused /\ NoneReplaced) => []BanFindsTheSeated`** (`VoiceSeats_proofs`), for any
number of peers of an account, under the same two hypotheses.  The code's argument is at `voice-join.ts:451-453`: the roster is read after
the ban is committed, and a join looks at the bans once more after it has its seat.  `BanAt` says it of every request that has
read its roster: the ban is in the table, and whoever sits in the room as a peer of the account is among the peers
still to be evicted (`Due`), or sits there by a join that is yet to look again (`LooksAgain`).  `Aboard` adds that such a
join holds its seat by its own socket, `Patient` that a request waiting for a finalizer or a lease goes on waiting for it
unless that failed or the seat is gone.  `CommandReach` carries from a step what becomes of a join that was yet to look:
it still is, it has looked and found the ban, or its seat is empty.  The eviction of a peer itself ends its seat by
`DisconnectFinds`, which is where `NoneReplaced` is needed: only a lease that is that of the seat ends it.

**`EvictionsStand`: `Spec /\ ~Overlap /\ [](NoBanRefused /\ MembersGone) => []EvictionIsEffective`**
(`VoiceEvictions_proofs`): a kick or a participant ban that answers without an error has ended the seat of its peer for good, for
any number of peers, requests and failing calls.  `~Overlap` is what the property needs (section 3); `MembersGone` is the half
of `NoneReplaced` about memberships, the other half follows here (`NoneAnew`).  The request waits for a finalizer,
so the invariant says what the finalizer owes it: a record that runs for a reason has the request's callback before it, is in it, or has failed
(`Owes`), and `AwaitsInv` that a finalizer awaits one of its calls.  `Moves` says what a step may do to a record, `Finalizes` what
its finalizer's own step does: go on owing, tell whoever waits that it failed (`Heeded`), or invalidate the identity
(`Invalidates`).  At that moment the seat is empty and becomes `Shut`: its identity is invalidated, its lease held by
nobody, and a join that is past its look at the identity has claimed a lease it can complete no more.  `ShutStays` is the
second half of the argument, and that the seat *is* shut then needs the joins on their way, `SeatsInv`:

- a seat has one lease record, its own, and it is in the map (`OneLease`);
- a join still to take its seat is the only one, and its client sits there over no open socket (`AllClear`);
- one that got through without a lease finds neither a seat nor a lease (`AllAlone`), so no such join is on its way to a seat that
  is being evicted; for one that retried a failed finalizer this rests on what it heard of it (`RetryInv`);
- whoever has a seat has an identity (`Ident`).

`EvictAt` is then what is said of a request: it waits for a finalizer that owes it (`Awaited`), or the seat is shut.

**Message delivery** (`MessageDelivery_proofs`, about `DeliverySpec`).
`DeliveryTypes` is inductive as it stands.  From it `OutboxStep` says what a step may do
to one event: a settled one is left alone, a delivered one is made by the worker that
is about to mark it, a dead one by a worker that found its attempts used.
`Settlement` (`SettledForGood`) and `Dead` (`DeadIsSpent`, stated by the theorem only) follow at once.
`Announced` (`DeliveredWasAnnounced`) needs what a worker has in its hands, `AInv`: the
event is one of the table, and one about to be marked was announced.  `Fences`
(`FencesDiffer`) needs `FInv`: a worker between taking and releasing the lease has a fence
no larger than that of the row, so the next one is new to everybody.

**Admission** (`Admission_proofs`).  `AdmissionTypes` is inductive as it stands; one lemma types what a step does
to `adm`, one what a revocation does to `cred`.  `BannedStayOut` (`BannedHoldsNothing`) is inductive given the types:
a ban revokes and moves the epoch in one transaction, `RevokeAll` says that nothing that verified before verifies after, and
while the ban stands a new credential is not handed over (`Persist` looks again).  `MutesHold`
(`MuteCutsMicrophone`) is not: `MuteInv` adds that a cut mute has its row (`CutHasRow`), that a credential in
anybody's hands was stored (`HandedIsStored`), that an admission about to look at the mute again knows whether
its credential has the microphone (`RecheckKnows`), and that a credential with the microphone that verifies under a cut mute is neither
handed over nor in the hands of an admission past that look (`NoMicrophonePasses`).
`StraysAreFew` (`FewStrays`) counts: up to the moment a credential is issued a request holds none, or one that is
revoked (`EarlyHands`), and a step adds at most one stray and only with a failing call (`StrayStep`).

**Media** (`MediaJobs_proofs`).  `MediaTypes`, `DeletionIsFinal` and `BoundStays` (`BoundIsKept`) follow step by step.
`LossesHaveCause` (`LossHasCause`) takes `DeletedFirst`: who goes on to remove files has deleted the row, and deletion is final.  `ClaimsAreApart`
(`OneHolder`) and `AttemptsAreBounded` (`AttemptsBounded`) share `ClaimInv`: no worker has a fence beyond that of the row
(`Fenced`), who holds the claim of a live job is its owner (`HolderOwns`), a worker that is giving up no longer holds anything
(`GivenUp`), and a job that may be claimed again has an attempt left, or one for each lost lease (`AttemptLeft`).  The
last is where `fail` and `claimBatch` meet: only `fail` compares attempts with their maximum.

**Recovery** (`ClientRecovery_proofs`).  Handlers are operators, so there is one lemma for each (`...Fits`: from a good
state it leads to a good one, does not take the room down and commits nothing), and the lemma of an action
(`...Keeps`) cites those of the handlers it calls.  `Good` adds to the types and to `HealthyIsSettled`: only the last attempt bears the
current effect generation, and it is in flight while it does (`Aged`); a room that is there needs no replacement; a
recovery whose replacement is optional has not failed; only a socket that opened brings snapshots.  `RecoveryInv` adds the room:
while no connection fell between commit and report it stands whenever the controller counts on it, or an attempt has just
committed (`Held`).  `RecoveryTypes`, `HealthySettles` and `CallsStand` follow from it.
`OneAttempt` (`SingleFlight`) and `AbandonedEnds` (`AbandonedIsOver`) take one invariant more, as long as LiveKit brings back no room whose
replacement is due: an attempt of the current epoch that is not over is the one in flight, with the current generation, and
its replacement is needed (`Lone`); a room that is yet to be reconciled has at most an optional replacement due (`Covered`).
Whatever calls a replacement off or starts another moves the epoch, and an attempt of an old epoch commits nothing.

Every safety property that a run checks is stated by a theorem.  `SeatEndedByItsOwn`, `EverySeatCanEnd`, `FinalizingRuns`,
`ClaimHasOwner`, `BanFindsTheSeated` and `EvictionIsEffective` are checked in instances without what their theorems exclude.

**Only model-checked:** liveness is out of the prover's reach: `CommandsComplete`,
`StrandedSeatsEnd`, `StopEnds`, `EventsSettle`, `LateIsReplayed`, `ProcessingEnds`, `DeletedFilesGo`, `LossIsNoticed`,
`AskIsAnswered`, `RoomReturns`.  The composition of the delivery with the relay is model-checked only.

## 6. Not modelled, and what could come next

Not modelled are single-transaction services, rendering, storage and configuration, where nothing interleaves
in the program itself, and most of the repository's lines are of that kind: the administration, the user
interfaces, the schema, shared contracts, the emoji table.  `PROJECT.json` names each part with its reason.

What would add most, in this order:

1. **Evictions that fail half way**: what a kick or ban that answered with an error leaves behind, the seats of
   the account's other peers included, and which later request or join ends it.
2. **The durable occupancy**: the queue of writes with retries, pruning of rooms while
   joins refer to them; it becomes what the roster says once the queue is empty.
3. **Notification delivery** over `FencedLease`: a worker that is disabled and keeps its lease, a `settle` that does not look at
   the status; and one abstract specification of delivery that both workers implement.
