---------------------------- MODULE ClientRecovery ----------------------------
(*********************************************************************************)
(* How the web client brings a call back: the recovery controller                *)
(* (features/room/client/recovery/realtime-recovery.ts), the rejoin it asks      *)
(* for on the application's socket (entities/room/room-realtime.ts) and the      *)
(* LiveKit room it replaces (services/livekit-service.ts).                       *)
(*                                                                               *)
(* One browser call is one action: handlers call each other, so a handler is an  *)
(* operator from the client's state w, of the controller and its connections, to *)
(* the next.  Only the replacement attempt awaits: it runs beside the rest.      *)
(* A handler is told the socket's epoch in the call that changes it, so the two  *)
(* never differ; the model keeps whether the socket is up.  Delays are not       *)
(* modelled, but a cooldown outlasts the tries of a rejoin (10 s, 1+2+4 s).      *)
(*********************************************************************************)
EXTENDS Integers

CONSTANTS
  MaxAttempts,    \* maxAttempts
  MaxTries,       \* the times a rejoin is sent (3)
  Faults,         \* which faults happen
  MaxFaults       \* bound: how many of them

FaultKinds == {"socket", "livekit", "drop", "offline", "stall", "attempt", "answer",
               "rejoin", "reconcile", "refusal", "late", "due"}

ASSUME RecoveryAssumption ==
  /\ MaxAttempts \in Nat \ {0} /\ MaxTries \in Nat \ {0} /\ MaxFaults \in Nat
  /\ Faults \subseteq FaultKinds

VARIABLES client, faults

vars == <<client, faults>>

Phases == {"waiting-app-snapshot", "waiting-livekit", "recovering", "healthy", "failed"}

\* A replacement attempt.  done: its room has taken over.  base: the room it replaces is
\* still the client's.
Run == [epoch : Nat, gen : Nat, done : BOOLEAN, base : BOOLEAN]

\* retry, cool and spare hold the epoch a pending timer was armed in; 0: no timer.
\* spare: cooldown timers whose handle was overwritten, which nothing can cancel.
\* tries, asked: of the rejoin under way, and whether its last request awaits an answer.
\* key: the recovery epoch last asked for (lastActiveResyncKey).  joins, queued: other
\* rejoins on the socket, and waiting for the next one.
Client ==
  [phase : Phases, epoch : Nat, gen : Nat, up : BOOLEAN, seen : BOOLEAN, online : BOOLEAN,
   snap : BOOLEAN, livekit : BOOLEAN, need : BOOLEAN, optional : BOOLEAN, abandoned : BOOLEAN,
   attempts : 0..MaxAttempts, inFlight : BOOLEAN, retry : Nat, cool : Nat, spare : SUBSET Nat,
   coolDone : BOOLEAN, rearm : BOOLEAN, rearmAsk : BOOLEAN, rearmSnap : BOOLEAN,
   tries : 0..MaxTries, asked : BOOLEAN, key : Nat, joins : Nat, queued : Nat,
   room : {"connecting", "up", "reconnecting", "reconciling", "down"}, runs : SUBSET Run]

\* startRoomRecovery, joinVoiceRoom: a call begins on a socket that is up, that was up
\* before, or that never opened.
Init ==
  /\ \E up, seen \in BOOLEAN :
       /\ up => seen
       /\ client = [phase |-> "waiting-app-snapshot", epoch |-> 1, gen |-> 1, up |-> up,
            seen |-> seen, online |-> TRUE, snap |-> FALSE, livekit |-> FALSE, need |-> FALSE,
            optional |-> FALSE, abandoned |-> FALSE, attempts |-> 0, inFlight |-> FALSE,
            retry |-> 0, cool |-> 0, spare |-> {}, coolDone |-> FALSE, rearm |-> FALSE,
            rearmAsk |-> FALSE, rearmSnap |-> FALSE, tries |-> 0, asked |-> FALSE, key |-> 0,
            joins |-> IF up THEN 1 ELSE 0, queued |-> IF up THEN 0 ELSE 1,
            room |-> "connecting", runs |-> {}]
  /\ faults = [n |-> 0, kinds |-> {}]

Calm(w) == client' = w /\ UNCHANGED faults
Fault(kind, w) ==
  /\ kind \in Faults /\ faults.n < MaxFaults
  /\ faults' = [n |-> faults.n + 1, kinds |-> faults.kinds \cup {kind}]
  /\ client' = w

\* "late": it happens between the commit of an attempt and its report.
Unless(kind) == IF \E run \in client.runs : run.done THEN "late" ELSE kind

-----------------------------------------------------------------------------
(* The rejoin (room-realtime.ts)                                              *)

\* What is still asked for loses its request's name: its answer is only a snapshot.
Forget(w) ==
  [w EXCEPT !.joins = @ + (IF w.asked THEN 1 ELSE 0), !.asked = FALSE]

ClearActiveResync(w) == [Forget(w) EXCEPT !.tries = 0]

SendActiveResyncAttempt(w) ==
  LET v == [Forget(w) EXCEPT !.tries = @ + 1]
  IN  IF w.up THEN [v EXCEPT !.asked = TRUE] ELSE [v EXCEPT !.queued = @ + 1]

(* The controller (realtime-recovery.ts)                                      *)

SetPhase(w, phase) == [w EXCEPT !.phase = phase]

BeginRecovery(w) ==
  LET v == IF w.phase = "healthy"
           THEN [w EXCEPT !.epoch = @ + 1, !.gen = @ + 1, !.attempts = 0]
           ELSE w
  IN  IF w.phase = "failed" THEN v ELSE SetPhase(v, "recovering")

CompleteHealthy(w) ==
  [w EXCEPT !.retry = 0, !.cool = 0, !.gen = @ + 1, !.inFlight = FALSE,
            !.optional = FALSE, !.attempts = 0, !.phase = "healthy"]

\* Faulty: an attempt under way stays current.
KeepStandingConnection_SameEpoch(w) ==
  LET v == [w EXCEPT !.retry = 0, !.gen = @ + 1, !.inFlight = FALSE,
                     !.optional = FALSE, !.abandoned = TRUE, !.need = FALSE,
                     !.livekit = TRUE, !.attempts = 0]
  IN  IF w.up THEN CompleteHealthy([v EXCEPT !.snap = TRUE])
      ELSE SetPhase(v, "waiting-app-snapshot")

KeepStandingConnection(w) ==
  LET v == [w EXCEPT !.retry = 0, !.gen = @ + 1, !.epoch = @ + 1, !.inFlight = FALSE,
                     !.optional = FALSE, !.abandoned = TRUE, !.need = FALSE,
                     !.livekit = TRUE, !.attempts = 0]
  IN  IF w.up THEN CompleteHealthy([v EXCEPT !.snap = TRUE])
      ELSE SetPhase(v, "waiting-app-snapshot")

Fail(w) ==
  IF w.optional THEN KeepStandingConnection(w)
  ELSE [w EXCEPT !.retry = 0, !.phase = "failed"]

EnterCooldown(w) ==
  IF w.optional THEN Fail(w)
  ELSE [Fail(w) EXCEPT !.coolDone = FALSE, !.rearm = FALSE, !.rearmAsk = FALSE,
                       !.rearmSnap = FALSE, !.spare = @ \cup ({w.cool} \ {0}),
                       !.cool = w.epoch]

AppSnapshotRequestFailed(w, retryable) ==
  IF w.phase = "healthy" \/ w.abandoned THEN [w EXCEPT !.abandoned = FALSE]
  ELSE IF retryable THEN EnterCooldown(w) ELSE Fail(w)

\* requestActiveVoiceResync refuses a recovery epoch it has been asked for before.
RequestSnapshot(w) ==
  LET v == [w EXCEPT !.abandoned = FALSE]
  IN  IF ~w.up THEN w
      ELSE IF w.key = w.epoch THEN AppSnapshotRequestFailed(v, TRUE)
      ELSE SendActiveResyncAttempt([ClearActiveResync(v) EXCEPT !.key = w.epoch])

\* Faulty: one attempt too many.
MaybeAttempt_OneMore(w) ==
  IF w.phase = "failed" \/ ~w.snap \/ ~w.need \/ w.inFlight \/ w.retry # 0 THEN w
  ELSE IF w.attempts > MaxAttempts THEN EnterCooldown(w)
  ELSE [w EXCEPT !.gen = @ + 1, !.attempts = @ + 1, !.inFlight = TRUE,
                 !.phase = "waiting-livekit",
                 !.room = IF @ = "reconciling" THEN "up" ELSE @,
                 !.runs = @ \cup {[epoch |-> w.epoch, gen |-> w.gen + 1,
                                     done |-> FALSE, base |-> TRUE]}]

\* attemptFreshLiveKitReplacement begins by giving up on a reconciliation under way.
MaybeAttempt(w) ==
  IF w.phase = "failed" \/ ~w.snap \/ ~w.need \/ w.inFlight \/ w.retry # 0 THEN w
  ELSE IF w.attempts >= MaxAttempts THEN EnterCooldown(w)
  ELSE [w EXCEPT !.gen = @ + 1, !.attempts = @ + 1, !.inFlight = TRUE,
                 !.phase = "waiting-livekit",
                 !.room = IF @ = "reconciling" THEN "up" ELSE @,
                 !.runs = @ \cup {[epoch |-> w.epoch, gen |-> w.gen + 1,
                                     done |-> FALSE, base |-> TRUE]}]

TryRearm(w) ==
  LET v == [w EXCEPT !.gen = @ + 1, !.epoch = @ + 1, !.attempts = 0,
                     !.snap = w.rearmSnap, !.coolDone = FALSE, !.rearm = FALSE,
                     !.rearmAsk = FALSE, !.rearmSnap = FALSE,
                     !.phase = "waiting-app-snapshot"]
  IN  IF w.phase # "failed" \/ ~w.coolDone \/ ~w.rearm THEN w
      ELSE IF v.snap THEN MaybeAttempt(v)
      ELSE IF w.rearmAsk THEN RequestSnapshot(v)
      ELSE v

MarkMeaningfulRearm(w, ask) ==
  TryRearm([w EXCEPT !.rearm = TRUE, !.rearmAsk = @ \/ ask])

IsCurrent(w, epoch) == epoch = w.epoch

FinishAttempt(w, run, outcome) ==
  LET v == [w EXCEPT !.inFlight = FALSE]
      ok == [v EXCEPT !.livekit = TRUE, !.need = FALSE]
  IN  IF ~IsCurrent(w, run.epoch) \/ run.gen # w.gen THEN w
      ELSE CASE outcome = "ok" ->
                  IF w.snap THEN CompleteHealthy(ok) ELSE SetPhase(ok, "waiting-app-snapshot")
             [] outcome = "terminal" -> Fail(v)
             [] outcome = "retryable" ->
                  IF w.attempts >= MaxAttempts THEN EnterCooldown(v)
                  ELSE [v EXCEPT !.retry = w.epoch]

\* Faulty: the recovery goes on in its old epoch.
AppWsLost_SameEpoch(w) ==
  LET v == [w EXCEPT !.up = FALSE, !.snap = FALSE]
      k == IF v.optional THEN KeepStandingConnection(v) ELSE v
      l == IF k.phase = "healthy" THEN k
           ELSE [k EXCEPT !.retry = 0, !.gen = @ + 1, !.inFlight = FALSE]
  IN  IF w.phase = "failed" THEN v
      ELSE SetPhase(BeginRecovery(l), "waiting-app-snapshot")

AppWsLost(w) ==
  LET v == [w EXCEPT !.up = FALSE, !.snap = FALSE]
      k == IF v.optional THEN KeepStandingConnection(v) ELSE v
      l == IF k.phase = "healthy" THEN k
           ELSE [k EXCEPT !.retry = 0, !.gen = @ + 1, !.inFlight = FALSE, !.epoch = @ + 1]
  IN  IF w.phase = "failed" THEN v
      ELSE SetPhase(BeginRecovery(l), "waiting-app-snapshot")

AppWsRestored(w) ==
  LET v == [w EXCEPT !.up = TRUE, !.snap = FALSE, !.seen = TRUE]
  IN  IF ~w.seen THEN v
      ELSE IF w.phase = "failed" THEN MarkMeaningfulRearm(v, FALSE)
      ELSE SetPhase(BeginRecovery(v), "waiting-app-snapshot")

\* Faulty: a snapshot without the local peer is only rejected.
AppSnapshotApplied_Rejects(w, mine) ==
  LET v == [w EXCEPT !.snap = TRUE]
  IN  IF ~mine THEN w
      ELSE IF w.phase = "failed"
           THEN TryRearm([v EXCEPT !.rearmSnap = @ \/ w.rearm])
      ELSE IF w.livekit THEN CompleteHealthy(v)
      ELSE IF w.need THEN MaybeAttempt(v)
      ELSE SetPhase(v, "waiting-livekit")

\* mine: the snapshot of the call has the local peer.
AppSnapshotApplied(w, mine) ==
  LET v == [w EXCEPT !.snap = TRUE]
  IN  IF ~mine THEN IF w.optional THEN KeepStandingConnection(w) ELSE w
      ELSE IF w.phase = "failed"
           THEN TryRearm([v EXCEPT !.rearmSnap = @ \/ w.rearm])
      ELSE IF w.livekit THEN CompleteHealthy(v)
      ELSE IF w.need THEN MaybeAttempt(v)
      ELSE SetPhase(v, "waiting-livekit")

LivekitReconnecting(w) ==
  SetPhase(BeginRecovery([w EXCEPT !.livekit = FALSE]), "waiting-livekit")

\* Faulty: the replacement stays due.
LivekitReconciled_StillNeeded(w) ==
  LET v == [w EXCEPT !.gen = @ + 1, !.retry = 0, !.inFlight = FALSE,
                     !.livekit = TRUE]
  IN  IF w.optional THEN KeepStandingConnection(w)
      ELSE IF w.snap THEN CompleteHealthy(v) ELSE v

LivekitReconciled(w) ==
  LET v == [w EXCEPT !.gen = @ + 1, !.retry = 0, !.inFlight = FALSE,
                     !.livekit = TRUE, !.need = FALSE]
  IN  IF w.optional THEN KeepStandingConnection(w)
      ELSE IF w.snap THEN CompleteHealthy(v) ELSE v

\* Faulty: a replacement under way stays optional.
LivekitDisconnected_StaysOptional(w) ==
  LET v == [w EXCEPT !.livekit = FALSE, !.need = TRUE]
      e == [v EXCEPT !.epoch = IF w.optional THEN @ + 1 ELSE @, !.snap = FALSE]
  IN  IF w.need /\ ~w.livekit THEN v
      ELSE RequestSnapshot(SetPhase(BeginRecovery(e), "waiting-app-snapshot"))

LivekitDisconnected(w) ==
  LET v == [w EXCEPT !.optional = FALSE, !.livekit = FALSE, !.need = TRUE]
      e == [v EXCEPT !.epoch = IF w.optional THEN @ + 1 ELSE @, !.snap = FALSE]
  IN  IF w.need /\ ~w.livekit THEN v
      ELSE RequestSnapshot(SetPhase(BeginRecovery(e), "waiting-app-snapshot"))

RequestLiveKitReplacement(w) ==
  LET v == [w EXCEPT !.optional = TRUE, !.livekit = FALSE, !.need = TRUE, !.snap = FALSE]
  IN  RequestSnapshot(SetPhase(BeginRecovery(v), "waiting-app-snapshot"))

NetworkOnline(w) ==
  LET v == [w EXCEPT !.online = TRUE]
  IN  IF w.phase = "failed" THEN MarkMeaningfulRearm(v, TRUE)
      ELSE IF w.phase = "recovering" /\ ~w.need /\ w.livekit /\ w.snap
           THEN CompleteHealthy(v)
      ELSE IF w.need
           THEN RequestSnapshot(SetPhase([v EXCEPT !.snap = FALSE], "waiting-app-snapshot"))
      ELSE v

-----------------------------------------------------------------------------
(* The application's socket                                                   *)

SocketLost ==
  /\ client.up
  /\ Fault(Unless("socket"), AppWsLost([client EXCEPT !.asked = FALSE, !.joins = 0]))

\* What was queued goes out; on every socket but the first the call is joined anew first.
SocketOpens ==
  LET w == [client EXCEPT !.joins = client.queued, !.queued = 0]
  IN  /\ ~client.up
      /\ Calm(AppWsRestored(
           IF client.seen THEN [ClearActiveResync(w) EXCEPT !.key = 0, !.joins = @ + 1] ELSE w))

\* The socket brings the snapshot of a rejoin nobody waits for by name.
JoinAnswered ==
  /\ client.joins > 0
  /\ Calm(AppSnapshotApplied([client EXCEPT !.joins = @ - 1], TRUE))

\* It is refused, which nobody hears, or answered without the local peer.
JoinFails ==
  /\ client.joins > 0
  /\ \E w \in {client, AppSnapshotApplied(client, FALSE)} :
       Fault("rejoin", [w EXCEPT !.joins = @ - 1])

ResyncAnswered ==
  /\ client.asked
  /\ Calm(AppSnapshotApplied([client EXCEPT !.asked = FALSE, !.tries = 0], TRUE))

Give(w, retryable) == AppSnapshotRequestFailed(ClearActiveResync(w), retryable)

\* The answer is an error, to try again at once, to fail on, or final, or a snapshot
\* without the local peer.
ResyncRefused ==
  LET w == [client EXCEPT !.asked = FALSE]
  IN  /\ client.asked
      /\ \/ client.tries < MaxTries /\ Fault("answer", SendActiveResyncAttempt(w))
         \/ Fault("answer", Give(w, TRUE))
         \/ Fault("refusal", Give(w, FALSE))
         \/ Fault("rejoin", AppSnapshotApplied([w EXCEPT !.tries = 0], FALSE))

\* No answer in time, for which a server that is connected must be slow.
ResyncTimesOut ==
  LET w == IF client.tries < MaxTries THEN SendActiveResyncAttempt(client) ELSE Give(client, TRUE)
  IN  /\ client.tries > 0
      /\ IF client.asked THEN Fault("answer", w) ELSE Calm(w)

(* The LiveKit room                                                           *)

\* The end of connectLiveKitRoom in joinRoom.
RoomJoined ==
  /\ client.room = "connecting"
  /\ Calm(LivekitReconciled([client EXCEPT !.room = "up"]))

\* "due": of a room whose replacement is due all the same, because the controller has
\* not heard, or never will, that this room is the replacement.
RoomReconnecting ==
  /\ client.room \in {"up", "reconciling"}
  /\ Fault(IF client.need /\ ~client.optional THEN "due" ELSE "livekit",
           LivekitReconnecting([client EXCEPT !.room = "reconnecting"]))

RoomReconnected ==
  /\ client.room = "reconnecting"
  /\ Calm([client EXCEPT !.room = "reconciling"])

RoomReconciled ==
  /\ client.room = "reconciling"
  /\ Calm(LivekitReconciled([client EXCEPT !.room = "up"]))

\* recoverLiveKitRoom throws: it is logged.
ReconcileFails ==
  /\ client.room = "reconciling"
  /\ Fault("reconcile", [client EXCEPT !.room = "up"])

RoomDropped ==
  /\ client.room \in {"up", "reconnecting", "reconciling"}
  /\ Fault(Unless("drop"), LivekitDisconnected([client EXCEPT !.room = "down"]))

(* A replacement attempt (attemptFreshLiveKitReplacement)                      *)

\* The candidate becomes the room while the epoch and the room are those it began with.
Commit(run) ==
  /\ run \in client.runs /\ ~run.done /\ run.base /\ IsCurrent(client, run.epoch)
  /\ Calm([client EXCEPT !.room = "up",
             !.runs = {[r EXCEPT !.base = FALSE] : r \in @ \ {run}}
                          \cup {[run EXCEPT !.done = TRUE]}])

Ended(run) == [client EXCEPT !.runs = @ \ {run}]

\* The old room is disconnected.
Finish(run) ==
  /\ run \in client.runs /\ run.done
  /\ Calm(FinishAttempt(Ended(run), run, "ok"))

\* It may no longer commit.
Outdated(run) ==
  /\ run \in client.runs /\ ~run.done /\ ~(run.base /\ IsCurrent(client, run.epoch))
  /\ Calm(FinishAttempt(Ended(run), run, "retryable"))

AttemptFails(run) ==
  /\ run \in client.runs /\ ~run.done
  /\ \/ Fault("attempt", FinishAttempt(Ended(run), run, "retryable"))
     \/ Fault("refusal", FinishAttempt(Ended(run), run, "terminal"))

(* Timers, the network, the microphone watch                                   *)

RetryDue ==
  LET w == [client EXCEPT !.retry = 0]
  IN  /\ client.retry # 0
      /\ Calm(IF IsCurrent(w, client.retry) THEN MaybeAttempt(w) ELSE w)

\* Faulty: nothing is asked for when the cooldown is over.
CooldownOver_NoProbe ==
  /\ client.tries = 0
  /\ \E epoch \in ({client.cool} \ {0}) \cup client.spare, handled \in BOOLEAN :
       LET w == IF handled THEN [client EXCEPT !.cool = 0]
                ELSE [client EXCEPT !.spare = (@ \ {epoch}) \cup ({client.cool} \ {0}), !.cool = 0]
       IN  /\ IF handled THEN epoch = client.cool ELSE epoch \in client.spare
           /\ Calm(IF ~IsCurrent(w, epoch) THEN w ELSE TryRearm([w EXCEPT !.coolDone = TRUE]))

CooldownOver ==
  /\ client.tries = 0
  /\ \E epoch \in ({client.cool} \ {0}) \cup client.spare, handled \in BOOLEAN :
       LET w == IF handled THEN [client EXCEPT !.cool = 0]
                ELSE [client EXCEPT !.spare = (@ \ {epoch}) \cup ({client.cool} \ {0}), !.cool = 0]
           v == [w EXCEPT !.coolDone = TRUE]
       IN  /\ IF handled THEN epoch = client.cool ELSE epoch \in client.spare
           /\ Calm(IF ~IsCurrent(w, epoch) THEN w
                   ELSE IF client.online /\ client.up /\ client.need THEN MarkMeaningfulRearm(v, TRUE)
                   ELSE TryRearm(v))

GoOffline ==
  /\ client.online
  /\ Fault("offline", BeginRecovery([client EXCEPT !.online = FALSE]))

GoOnline ==
  /\ ~client.online
  /\ Calm(NetworkOnline(client))

MicrophoneStalls ==
  /\ client.phase = "healthy"
  /\ Fault("stall", RequestLiveKitReplacement(client))

AttemptGoesOn == \E run \in client.runs : Commit(run) \/ Finish(run) \/ Outdated(run)
AttemptBreaks == \E run \in client.runs : AttemptFails(run)

Next ==
  \/ SocketLost \/ SocketOpens \/ JoinAnswered \/ JoinFails
  \/ ResyncAnswered \/ ResyncRefused \/ ResyncTimesOut
  \/ RoomJoined \/ RoomReconnecting \/ RoomReconnected \/ RoomReconciled \/ ReconcileFails
  \/ RoomDropped \/ AttemptGoesOn \/ AttemptBreaks
  \/ RetryDue \/ CooldownOver \/ GoOffline \/ GoOnline \/ MicrophoneStalls

Spec == Init /\ [][Next]_vars

\* A server that is up answers, the browser's timers fire, the network comes back.
Fairness ==
  /\ WF_vars(SocketOpens) /\ WF_vars(JoinAnswered) /\ WF_vars(ResyncAnswered)
  /\ WF_vars(ResyncTimesOut) /\ WF_vars(RoomJoined) /\ WF_vars(RoomReconnected)
  /\ WF_vars(RoomReconciled) /\ WF_vars(AttemptGoesOn) /\ WF_vars(RetryDue)
  /\ WF_vars(CooldownOver) /\ WF_vars(GoOnline)

FairSpec == Spec /\ Fairness

-----------------------------------------------------------------------------
\* Every variable has its type: no recovery makes more attempts than maxAttempts,
\* and no rejoin is sent more often than MaxTries.
RecoveryTypeOK ==
  /\ client \in Client
  /\ faults \in [n : 0..MaxFaults, kinds : SUBSET FaultKinds]

\* A call reported healthy waits for nothing: both authorities are ready, no attempt is
\* in flight and no timer that could be cancelled is left to disturb it.
HealthyIsSettled ==
  client.phase = "healthy" =>
    /\ client.snap /\ client.livekit /\ ~client.need /\ ~client.optional /\ ~client.inFlight
    /\ client.retry = 0 /\ client.cool = 0

\* Could still take the room over.
Threatens(run) == ~run.done /\ run.base /\ IsCurrent(client, run.epoch)

\* Replacement is single-flight: of the attempts that still run, however many outlived
\* their recovery, one at most may commit its room, ...
NeverTwoAttempts == \A a, b \in client.runs : Threatens(a) /\ Threatens(b) => a = b

\* ... as long as LiveKit reconnects no room by itself whose replacement is due.  The
\* reconciliation then calls the replacement off and leaves its attempt in its epoch.
SingleFlight == "due" \notin faults.kinds => NeverTwoAttempts

\* What the controller believes of the room is so, unless the room fell between the commit
\* of an attempt and its report: a healthy call has a LiveKit room, and so has the call
\* whose replacement is only asked for, which falls back to it and never fails.
CallStands ==
  /\ (client.phase = "healthy" \/ client.optional) /\ "late" \notin faults.kinds
       => client.room \in {"up", "reconnecting", "reconciling"}
  /\ client.optional => client.phase # "failed"

\* An asked replacement that gives way to the standing connection leaves no attempt
\* behind that may still take over.
AbandonedIsOver ==
  [][client.optional /\ ~client'.optional /\ ~client'.need =>
       \A run \in client'.runs : run.done \/ run.epoch # client'.epoch]_vars

\* Whoever asks for a replacement gets an answer (requestLiveKitReplacement resolves).
AskIsAnswered == client.optional ~> ~client.optional

\* Recovery does not fail while an attempt of its own still runs.
FailsAlone == client.phase = "failed" => ~client.inFlight

\* The call comes back: once the faults end the LiveKit room stands, unless the server
\* refused the client for good, an answer to a rejoin was lost, a connection fell in the
\* moment between the commit of an attempt and its report, or recovery failed over an
\* attempt still running.
RoomReturns ==
  [](FailsAlone /\ faults.kinds \cap {"late", "rejoin", "refusal"} = {})
    => <>[](client.room = "up")

\* The last exception is no intention of the code: after a cooldown recovery goes on by
\* itself, and the room comes back without it too.
CooldownRecovers ==
  [](faults.kinds \cap {"late", "rejoin", "refusal"} = {}) => <>[](client.room = "up")
=============================================================================
