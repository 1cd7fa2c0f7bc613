------------------------ MODULE ClientRecovery_proofs ------------------------
(*****************************************************************************)
(* What holds of the client's recovery for any number of attempts, tries and *)
(* faults: its types, what healthy means, and that the room it counts on is  *)
(* there.  Handlers are operators from the client's state to the next, so    *)
(* there is one lemma for each handler and the steps only cite them.         *)
(*****************************************************************************)
EXTENDS ClientRecovery, TLAPS

Fields ==
  {"phase", "epoch", "gen", "up", "seen", "online", "snap", "livekit", "need", "optional",
   "abandoned", "attempts", "inFlight", "retry", "cool", "spare", "coolDone", "rearm",
   "rearmAsk", "rearmSnap", "tries", "asked", "key", "joins", "queued", "room", "runs"}

\* Membership of Client, taken apart: the fields, and the type of each.
Rec(w) == w = [x \in Fields |-> w[x]]

Typed(w) ==
  /\ w.phase \in Phases /\ w.epoch \in Nat /\ w.gen \in Nat /\ w.up \in BOOLEAN
  /\ w.seen \in BOOLEAN /\ w.online \in BOOLEAN /\ w.snap \in BOOLEAN /\ w.livekit \in BOOLEAN
  /\ w.need \in BOOLEAN /\ w.optional \in BOOLEAN /\ w.abandoned \in BOOLEAN
  /\ w.attempts \in 0..MaxAttempts /\ w.inFlight \in BOOLEAN /\ w.retry \in Nat
  /\ w.cool \in Nat /\ w.spare \in SUBSET Nat /\ w.coolDone \in BOOLEAN /\ w.rearm \in BOOLEAN
  /\ w.rearmAsk \in BOOLEAN /\ w.rearmSnap \in BOOLEAN /\ w.tries \in 0..MaxTries
  /\ w.asked \in BOOLEAN /\ w.key \in Nat /\ w.joins \in Nat /\ w.queued \in Nat
  /\ w.room \in {"connecting", "up", "reconnecting", "reconciling", "down"}
  /\ w.runs \in SUBSET Run

LEMMA ClientIsTyped ==
  ASSUME NEW w
  PROVE  w \in Client <=> Rec(w) /\ Typed(w)
BY SMTT(20) DEF Client, Rec, Typed, Fields

-----------------------------------------------------------------------------
(* The inductive invariant                                                    *)

Standing == {"up", "reconnecting", "reconciling"}

Settled(w) ==
  w.phase = "healthy" =>
    /\ w.snap /\ w.livekit /\ ~w.need /\ ~w.optional /\ ~w.inFlight
    /\ w.retry = 0 /\ w.cool = 0

\* Only the last attempt bears the current generation, and it is in flight while it does.
Aged(w) ==
  /\ \A run \in w.runs : run.gen <= w.gen /\ (run.gen = w.gen => w.inFlight)
  /\ \A a, b \in w.runs : a.gen = b.gen => a = b

\* What holds within a handler too: a room that is there needs no replacement, a call that
\* may fall back on its room has not failed, and only a socket that opened brings snapshots.
Loose(w) ==
  /\ Rec(w) /\ Typed(w) /\ Aged(w)
  /\ ~(w.livekit /\ w.need)
  /\ w.optional => w.phase # "failed"
  /\ w.up \/ w.snap \/ w.rearmSnap \/ w.joins > 0 \/ w.asked => w.seen

Good(w) == Loose(w) /\ Settled(w)

\* The room the controller counts on is there.
Stands(w) == w.livekit \/ w.optional => w.room \in Standing

\* A handler neither takes the room down nor lets an attempt commit.
Follows(w, r) ==
  /\ w.room \in Standing => r.room \in Standing
  /\ \A run \in r.runs : run.done => run \in w.runs

\* No attempt begins, and one that is in flight no longer has a generation of the past.
Ages(w, r) ==
  /\ r.runs = w.runs
  /\ r.gen = w.gen + 1 \/ (r.gen = w.gen /\ r.inFlight = w.inFlight)

LEMMA AgesOnward ==
  ASSUME NEW w, NEW r, Typed(w), Aged(w), Ages(w, r)
  PROVE  Aged(r)
BY DEF Typed, Aged, Ages, Run

Fits(w, r) == Good(r) /\ (Stands(w) => Stands(r)) /\ Follows(w, r)

LEMMA FitsOnward ==
  ASSUME NEW w, NEW v, NEW r, Stands(w) => Stands(v), Follows(w, v), Fits(v, r)
  PROVE  Fits(w, r)
BY DEF Fits, Follows

LEMMA SelfFits ==
  ASSUME NEW w, Good(w)
  PROVE  Fits(w, w)
BY DEF Fits, Follows

-----------------------------------------------------------------------------
(* The handlers                                                               *)

LEMMA CompleteHealthyFits ==
  ASSUME NEW w, Loose(w), w.snap, w.livekit
  PROVE  Fits(w, CompleteHealthy(w))
<1> DEFINE r == CompleteHealthy(w)
<1>1. Rec(r)
  BY Zenon DEF Loose, CompleteHealthy, Rec
<1>2. Typed(r)
  BY RecoveryAssumption DEF Loose, CompleteHealthy, Rec, Typed, Phases, Fields
<1>3. /\ ~(r.livekit /\ r.need) /\ ~r.optional /\ Settled(r) /\ (Stands(w) => Stands(r))
      /\ r.up \/ r.snap \/ r.rearmSnap \/ r.joins > 0 \/ r.asked => r.seen
      /\ Follows(w, r)
  BY DEF Loose, CompleteHealthy, Rec, Typed, Fields, Settled, Stands, Follows
<1>4. Ages(w, r)
  <2>1. r.runs = w.runs
    BY DEF Loose, CompleteHealthy, Rec, Fields
  <2>2. r.gen = w.gen + 1
    BY DEF Loose, CompleteHealthy, Rec, Fields
  <2> HIDE DEF r
  <2> QED BY <2>1, <2>2 DEF Ages
<1> QED BY <1>1, <1>2, <1>3, <1>4, AgesOnward DEF Fits, Good, Loose

LEMMA KeepStandingFits ==
  ASSUME NEW w, Loose(w), w.optional
  PROVE  Fits(w, KeepStandingConnection(w))
<1> DEFINE v == [w EXCEPT !.retry = 0, !.gen = @ + 1, !.epoch = @ + 1, !.inFlight = FALSE,
                     !.optional = FALSE, !.abandoned = TRUE, !.need = FALSE,
                     !.livekit = TRUE, !.attempts = 0]
           a == [v EXCEPT !.snap = TRUE]
           b == SetPhase(v, "waiting-app-snapshot")
<1>1. Rec(v)
  BY Zenon DEF Loose, Rec
<1>2. Typed(v)
  BY RecoveryAssumption DEF Loose, Rec, Typed, Phases, Fields
<1>3. /\ ~(v.livekit /\ v.need) /\ ~v.optional /\ v.livekit /\ v.up = w.up
      /\ v.up \/ v.snap \/ v.rearmSnap \/ v.joins > 0 \/ v.asked => v.seen
      /\ Follows(w, v)
      /\ Stands(w) => Stands(v)
  BY DEF Loose, Rec, Typed, Fields, Stands, Follows
<1>3a. Ages(w, v)
  <2>1. v.runs = w.runs
    BY DEF Loose, Rec, Fields
  <2>2. v.gen = w.gen + 1
    BY DEF Loose, Rec, Fields
  <2> HIDE DEF v
  <2> QED BY <2>1, <2>2 DEF Ages
<1> HIDE DEF v
<1>4. Rec(a) /\ Rec(b)
  BY <1>1, Zenon DEF Rec, SetPhase
<1>5. Typed(a) /\ Typed(b)
  BY <1>1, <1>2 DEF Rec, Typed, Phases, Fields, SetPhase
<1>6. /\ Stands(v) => Stands(a) /\ Stands(b)
      /\ Follows(v, a) /\ Follows(v, b)
      /\ Ages(v, a) /\ Ages(v, b)
      /\ v.up => ~(a.livekit /\ a.need) /\ ~a.optional /\ a.seen /\ a.snap /\ a.livekit
      /\ ~(b.livekit /\ b.need) /\ ~b.optional /\ b.phase # "healthy"
      /\ b.up \/ b.snap \/ b.rearmSnap \/ b.joins > 0 \/ b.asked => b.seen
  BY <1>1, <1>2, <1>3 DEF Rec, Typed, Fields, Stands, Follows, Ages, SetPhase
<1>7. Aged(a) /\ Aged(b)
  BY <1>2, <1>3a, <1>6, AgesOnward DEF Loose
<1>8. (v.up => Loose(a)) /\ Loose(b) /\ Settled(b)
  BY <1>4, <1>5, <1>6, <1>7 DEF Loose, Settled
<1>9. Follows(w, a) /\ Follows(w, b) /\ (Stands(w) => Stands(a) /\ Stands(b))
  BY <1>3, <1>6 DEF Follows
<1>10. Fits(w, b)
  BY <1>8, <1>9 DEF Fits, Good
<1>11. v.up => Fits(w, CompleteHealthy(a))
  BY <1>6, <1>8, <1>9, CompleteHealthyFits, FitsOnward
<1> QED BY <1>3, <1>10, <1>11 DEF KeepStandingConnection, v

LEMMA FailFits ==
  ASSUME NEW w, Loose(w)
  PROVE  Fits(w, Fail(w))
<1>1. CASE w.optional
  BY <1>1, KeepStandingFits DEF Fail
<1>2. CASE ~w.optional
  <2> DEFINE r == [w EXCEPT !.retry = 0, !.phase = "failed"]
  <2>1. Rec(r)
    BY Zenon DEF Loose, Rec
  <2>2. Typed(r)
    BY DEF Loose, Rec, Typed, Phases, Fields
  <2>3. /\ ~(r.livekit /\ r.need) /\ ~r.optional /\ Settled(r)
        /\ r.up \/ r.snap \/ r.rearmSnap \/ r.joins > 0 \/ r.asked => r.seen
        /\ Follows(w, r)
        /\ Ages(w, r)
        /\ Stands(w) => Stands(r)
    BY <1>2 DEF Loose, Rec, Typed, Fields, Settled, Stands, Follows, Ages
  <2> QED BY <1>2, <2>1, <2>2, <2>3, AgesOnward DEF Fits, Good, Loose, Fail
<1> QED BY <1>1, <1>2

LEMMA EnterCooldownFits ==
  ASSUME NEW w, Loose(w)
  PROVE  Fits(w, EnterCooldown(w))
<1>1. CASE w.optional
  BY <1>1, FailFits DEF EnterCooldown
<1>2. CASE ~w.optional
  <2> DEFINE f == [w EXCEPT !.retry = 0, !.phase = "failed"]
             r == [f EXCEPT !.coolDone = FALSE, !.rearm = FALSE, !.rearmAsk = FALSE,
                            !.rearmSnap = FALSE, !.spare = @ \cup ({w.cool} \ {0}),
                            !.cool = w.epoch]
  <2>1. Rec(r)
    BY Zenon DEF Loose, Rec
  <2>2. Typed(r)
    BY DEF Loose, Rec, Typed, Phases, Fields
  <2>3. /\ ~(r.livekit /\ r.need) /\ ~r.optional /\ Settled(r)
        /\ r.up \/ r.snap \/ r.rearmSnap \/ r.joins > 0 \/ r.asked => r.seen
        /\ Follows(w, r)
        /\ Ages(w, r)
        /\ Stands(w) => Stands(r)
    BY <1>2 DEF Loose, Rec, Typed, Fields, Settled, Stands, Follows, Ages
  <2> QED BY <1>2, <2>1, <2>2, <2>3, AgesOnward DEF Fits, Good, Loose, Fail, EnterCooldown
<1> QED BY <1>1, <1>2

LEMMA AppSnapshotRequestFailedFits ==
  ASSUME NEW w, Good(w), NEW retryable \in BOOLEAN
  PROVE  Fits(w, AppSnapshotRequestFailed(w, retryable))
<1> DEFINE r == [w EXCEPT !.abandoned = FALSE]
<1>1. Rec(r)
  BY Zenon DEF Good, Loose, Rec
<1>2. Typed(r)
  BY DEF Good, Loose, Rec, Typed, Phases, Fields
<1>3. /\ ~(r.livekit /\ r.need) /\ Settled(r)
      /\ r.optional => r.phase # "failed"
      /\ r.up \/ r.snap \/ r.rearmSnap \/ r.joins > 0 \/ r.asked => r.seen
      /\ Follows(w, r)
      /\ Ages(w, r)
      /\ Stands(w) => Stands(r)
  BY DEF Good, Loose, Rec, Typed, Fields, Settled, Stands, Follows, Ages
<1>4. Fits(w, r)
  BY <1>1, <1>2, <1>3, AgesOnward DEF Fits, Good, Loose
<1> QED BY <1>4, EnterCooldownFits, FailFits DEF AppSnapshotRequestFailed, Good

\* An answer that loses its request's name, on a socket that is up.
LEMMA ForgetFits ==
  ASSUME NEW w, Good(w)
  PROVE  /\ Fits(w, Forget(w)) /\ Fits(w, ClearActiveResync(w))
         /\ Forget(w).tries = w.tries /\ Forget(w).up = w.up
         /\ ClearActiveResync(w).tries = 0 /\ ClearActiveResync(w).up = w.up
<1> DEFINE f == Forget(w)
           c == ClearActiveResync(w)
<1>1. Rec(f) /\ Rec(c)
  BY Zenon DEF Good, Loose, Rec, Forget, ClearActiveResync
<1>2. Typed(f) /\ Typed(c)
  BY RecoveryAssumption
  DEF Good, Loose, Rec, Typed, Phases, Fields, Forget, ClearActiveResync
<1>3. /\ ~(f.livekit /\ f.need) /\ Settled(f)
      /\ f.optional => f.phase # "failed"
      /\ f.up \/ f.snap \/ f.rearmSnap \/ f.joins > 0 \/ f.asked => f.seen
      /\ Follows(w, f)
      /\ Ages(w, f)
      /\ Stands(w) => Stands(f)
      /\ f.tries = w.tries /\ f.up = w.up
  BY DEF Good, Loose, Rec, Typed, Fields, Settled, Stands, Follows, Ages, Forget
<1>4. /\ ~(c.livekit /\ c.need) /\ Settled(c)
      /\ c.optional => c.phase # "failed"
      /\ c.up \/ c.snap \/ c.rearmSnap \/ c.joins > 0 \/ c.asked => c.seen
      /\ Follows(w, c)
      /\ Ages(w, c)
      /\ Stands(w) => Stands(c)
      /\ c.tries = 0 /\ c.up = w.up
  BY DEF Good, Loose, Rec, Typed, Fields, Settled, Stands, Follows, Ages, Forget, ClearActiveResync
<1> HIDE DEF f, c
<1> QED BY <1>1, <1>2, <1>3, <1>4, AgesOnward DEF Fits, Good, Loose, f, c

LEMMA SendAttemptFits ==
  ASSUME NEW w, Good(w), w.tries < MaxTries
  PROVE  Fits(w, SendActiveResyncAttempt(w))
<1> DEFINE f == Forget(w)
           v == [f EXCEPT !.tries = @ + 1]
           a == [v EXCEPT !.asked = TRUE]
           b == [v EXCEPT !.queued = @ + 1]
<1>1. Fits(w, f) /\ f.tries = w.tries /\ f.up = w.up
  BY ForgetFits
<1>2. Good(f)
  BY <1>1 DEF Fits
<1> HIDE DEF f
<1>3. Rec(a) /\ Rec(b)
  BY <1>2, Zenon DEF Good, Loose, Rec
<1>4. Typed(a) /\ Typed(b)
  BY <1>1, <1>2, RecoveryAssumption DEF Good, Loose, Rec, Typed, Phases, Fields
<1>5. f.up => Fits(f, a)
  <2>1. /\ ~(a.livekit /\ a.need) /\ Settled(a)
        /\ a.optional => a.phase # "failed"
        /\ f.up /\ (a.up \/ a.snap \/ a.rearmSnap \/ a.joins > 0 \/ a.asked) => a.seen
        /\ Follows(f, a)
        /\ Ages(f, a)
        /\ Stands(f) => Stands(a)
    BY <1>2 DEF Good, Loose, Rec, Typed, Fields, Settled, Stands, Follows, Ages
  <2> QED BY <1>2, <1>3, <1>4, <2>1, AgesOnward DEF Fits, Good, Loose
<1>6. Fits(f, b)
  <2>1. /\ ~(b.livekit /\ b.need) /\ Settled(b)
        /\ b.optional => b.phase # "failed"
        /\ b.up \/ b.snap \/ b.rearmSnap \/ b.joins > 0 \/ b.asked => b.seen
        /\ Follows(f, b)
        /\ Ages(f, b)
        /\ Stands(f) => Stands(b)
    BY <1>2 DEF Good, Loose, Rec, Typed, Fields, Settled, Stands, Follows, Ages
  <2> QED BY <1>2, <1>3, <1>4, <2>1, AgesOnward DEF Fits, Good, Loose
<1>7. Fits(w, b) /\ (f.up => Fits(w, a))
  BY <1>1, <1>5, <1>6, FitsOnward DEF Fits
<1>8. SendActiveResyncAttempt(w) = IF w.up THEN a ELSE b
  BY DEF SendActiveResyncAttempt, f
<1> QED BY <1>1, <1>7, <1>8

LEMMA RequestSnapshotFits ==
  ASSUME NEW w, Good(w)
  PROVE  Fits(w, RequestSnapshot(w))
<1> DEFINE v == [w EXCEPT !.abandoned = FALSE]
           c == ClearActiveResync(v)
           k == [c EXCEPT !.key = w.epoch]
<1>1. Fits(w, v)
  <2>1. Rec(v)
    BY Zenon DEF Good, Loose, Rec
  <2>2. Typed(v)
    BY DEF Good, Loose, Rec, Typed, Phases, Fields
  <2>3. /\ ~(v.livekit /\ v.need) /\ Settled(v)
        /\ v.optional => v.phase # "failed"
        /\ v.up \/ v.snap \/ v.rearmSnap \/ v.joins > 0 \/ v.asked => v.seen
        /\ Follows(w, v)
        /\ Ages(w, v)
        /\ Stands(w) => Stands(v)
    BY DEF Good, Loose, Rec, Typed, Fields, Settled, Stands, Follows, Ages
  <2> QED BY <2>1, <2>2, <2>3, AgesOnward DEF Fits, Good, Loose
<1> HIDE DEF v
<1>2. Fits(v, c) /\ c.tries = 0
  BY <1>1, ForgetFits DEF Fits
<1>3. Good(c)
  BY <1>2 DEF Fits
<1>4. w.epoch \in Nat
  BY DEF Good, Loose, Typed
<1> HIDE DEF c
<1>5. Fits(c, k) /\ k.tries = 0
  <2>1. Rec(k)
    BY <1>3, Zenon DEF Good, Loose, Rec
  <2>2. Typed(k)
    BY <1>3, <1>4 DEF Good, Loose, Rec, Typed, Phases, Fields
  <2>3. /\ ~(k.livekit /\ k.need) /\ Settled(k)
        /\ k.optional => k.phase # "failed"
        /\ k.up \/ k.snap \/ k.rearmSnap \/ k.joins > 0 \/ k.asked => k.seen
        /\ Follows(c, k)
        /\ Ages(c, k)
        /\ Stands(c) => Stands(k)
        /\ k.tries = c.tries
    BY <1>3 DEF Good, Loose, Rec, Typed, Fields, Settled, Stands, Follows, Ages
  <2> QED BY <1>2, <2>1, <2>2, <2>3, AgesOnward DEF Fits, Good, Loose
<1> HIDE DEF k
<1>6. Fits(k, SendActiveResyncAttempt(k))
  BY <1>5, SendAttemptFits, RecoveryAssumption DEF Fits
<1>7. Fits(w, SendActiveResyncAttempt(k))
  BY <1>1, <1>2, <1>5, <1>6, FitsOnward DEF Fits
<1>8. Fits(w, AppSnapshotRequestFailed(v, TRUE))
  BY <1>1, AppSnapshotRequestFailedFits, FitsOnward DEF Fits
<1>9. RequestSnapshot(w) = IF ~w.up THEN w
                           ELSE IF w.key = w.epoch THEN AppSnapshotRequestFailed(v, TRUE)
                           ELSE SendActiveResyncAttempt(k)
  BY DEF RequestSnapshot, v, c, k
<1> QED BY <1>7, <1>8, <1>9, SelfFits

LEMMA MaybeAttemptFits ==
  ASSUME NEW w, Good(w)
  PROVE  Fits(w, MaybeAttempt(w))
<1> DEFINE run == [epoch |-> w.epoch, gen |-> w.gen + 1, done |-> FALSE, base |-> TRUE]
           r == [w EXCEPT !.gen = @ + 1, !.attempts = @ + 1, !.inFlight = TRUE,
                          !.phase = "waiting-livekit",
                          !.room = IF @ = "reconciling" THEN "up" ELSE @,
                          !.runs = @ \cup {run}]
<1>1. ASSUME w.attempts < MaxAttempts
      PROVE  Fits(w, r)
  <2>1. Rec(r)
    BY Zenon DEF Good, Loose, Rec
  <2>2. run \in Run /\ ~run.done
    BY DEF Good, Loose, Typed, Run
  <2> HIDE DEF run
  <2>3. Typed(r)
    BY <1>1, <2>2, RecoveryAssumption DEF Good, Loose, Rec, Typed, Phases, Fields
  <2>4. /\ ~(r.livekit /\ r.need) /\ Settled(r)
        /\ r.optional => r.phase # "failed"
        /\ r.up \/ r.snap \/ r.rearmSnap \/ r.joins > 0 \/ r.asked => r.seen
    BY DEF Good, Loose, Rec, Typed, Fields, Settled
  <2>5. /\ Follows(w, r)
        /\ Stands(w) => Stands(r)
    BY <2>2 DEF Good, Loose, Rec, Typed, Fields, Stands, Standing, Follows
  <2>6. r.gen = w.gen + 1 /\ r.inFlight /\ r.runs = w.runs \cup {run}
    BY DEF Good, Loose, Rec, Typed, Fields
  <2>7. run.gen = w.gen + 1
    BY DEF run
  <2> HIDE DEF r
  <2>8. Aged(r)
    BY <2>6, <2>7 DEF Good, Loose, Typed, Aged, Run
  <2> QED BY <2>1, <2>3, <2>4, <2>5, <2>8 DEF Fits, Good, Loose
<1>2. w.attempts >= MaxAttempts \/ w.attempts < MaxAttempts
  BY RecoveryAssumption DEF Good, Loose, Typed
<1>3. Fits(w, EnterCooldown(w))
  BY EnterCooldownFits DEF Good
<1> HIDE DEF r
<1>4. CASE w.attempts >= MaxAttempts
  BY <1>3, <1>4, SelfFits DEF MaybeAttempt
<1>5. CASE ~(w.attempts >= MaxAttempts)
  BY <1>1, <1>2, <1>5, SelfFits DEF MaybeAttempt, r
<1> QED BY <1>4, <1>5

LEMMA TryRearmFits ==
  ASSUME NEW w, Good(w)
  PROVE  Fits(w, TryRearm(w))
<1> DEFINE v == [w EXCEPT !.gen = @ + 1, !.epoch = @ + 1, !.attempts = 0,
                     !.snap = w.rearmSnap, !.coolDone = FALSE, !.rearm = FALSE,
                     !.rearmAsk = FALSE, !.rearmSnap = FALSE,
                     !.phase = "waiting-app-snapshot"]
<1>1. CASE w.phase = "failed"
  <2>1. Rec(v)
    BY Zenon DEF Good, Loose, Rec
  <2>2. Typed(v)
    BY RecoveryAssumption DEF Good, Loose, Rec, Typed, Phases, Fields
  <2>3. /\ ~(v.livekit /\ v.need) /\ Settled(v)
        /\ v.optional => v.phase # "failed"
        /\ v.up \/ v.snap \/ v.rearmSnap \/ v.joins > 0 \/ v.asked => v.seen
        /\ Follows(w, v)
        /\ Ages(w, v)
        /\ Stands(w) => Stands(v)
    BY DEF Good, Loose, Rec, Typed, Fields, Settled, Stands, Follows, Ages
  <2>4. Fits(w, v)
    BY <2>1, <2>2, <2>3, AgesOnward DEF Fits, Good, Loose
  <2>5. Good(v)
    BY <2>4 DEF Fits
  <2> HIDE DEF v
  <2>6. Fits(w, MaybeAttempt(v)) /\ Fits(w, RequestSnapshot(v))
    BY <2>4, <2>5, MaybeAttemptFits, RequestSnapshotFits, FitsOnward DEF Fits
  <2> QED BY <2>4, <2>6, SelfFits DEF TryRearm, v
<1>2. CASE w.phase # "failed"
  BY <1>2, SelfFits DEF TryRearm
<1> QED BY <1>1, <1>2

LEMMA MarkMeaningfulRearmFits ==
  ASSUME NEW w, Good(w), NEW ask \in BOOLEAN
  PROVE  Fits(w, MarkMeaningfulRearm(w, ask))
<1> DEFINE v == [w EXCEPT !.rearm = TRUE, !.rearmAsk = @ \/ ask]
<1>1. Rec(v)
  BY Zenon DEF Good, Loose, Rec
<1>2. Typed(v)
  BY DEF Good, Loose, Rec, Typed, Phases, Fields
<1>3. /\ ~(v.livekit /\ v.need) /\ Settled(v)
      /\ v.optional => v.phase # "failed"
      /\ v.up \/ v.snap \/ v.rearmSnap \/ v.joins > 0 \/ v.asked => v.seen
      /\ Follows(w, v)
      /\ Ages(w, v)
      /\ Stands(w) => Stands(v)
  BY DEF Good, Loose, Rec, Typed, Fields, Settled, Stands, Follows, Ages
<1>4. Fits(w, v)
  BY <1>1, <1>2, <1>3, AgesOnward DEF Fits, Good, Loose
<1> HIDE DEF v
<1>5. Fits(w, TryRearm(v))
  BY <1>4, TryRearmFits, FitsOnward DEF Fits
<1> QED BY <1>5 DEF MarkMeaningfulRearm, v

LEMMA BeginRecoveryFits ==
  ASSUME NEW w, Loose(w)
  PROVE  /\ Fits(w, BeginRecovery(w))
         /\ \A phase \in {"waiting-app-snapshot", "waiting-livekit"} :
              Fits(w, SetPhase(BeginRecovery(w), phase))
<1> DEFINE v == IF w.phase = "healthy"
                THEN [w EXCEPT !.epoch = @ + 1, !.gen = @ + 1, !.attempts = 0]
                ELSE w
<1>1. Rec(v)
  <2>1. Rec([w EXCEPT !.epoch = @ + 1, !.gen = @ + 1, !.attempts = 0])
    BY Zenon DEF Loose, Rec
  <2> QED BY <2>1 DEF Loose
<1>2. Typed(v)
  BY RecoveryAssumption DEF Loose, Rec, Typed, Phases, Fields
<1>3. /\ ~(v.livekit /\ v.need)
      /\ v.optional => v.phase # "failed"
      /\ v.up \/ v.snap \/ v.rearmSnap \/ v.joins > 0 \/ v.asked => v.seen
      /\ Follows(w, v)
      /\ Ages(w, v)
      /\ Stands(w) => Stands(v)
      /\ v.phase = w.phase
  BY DEF Loose, Rec, Typed, Fields, Stands, Follows, Ages
<1> HIDE DEF v
<1>4. ASSUME NEW phase \in Phases, phase # "failed", phase # "healthy"
      PROVE  Fits(v, SetPhase(v, phase)) /\ Fits(v, SetPhase(SetPhase(v, "recovering"), phase))
  <2> DEFINE a == SetPhase(v, phase)
             b == SetPhase(SetPhase(v, "recovering"), phase)
  <2>1. Rec(a) /\ Rec(b)
    BY <1>1, Zenon DEF Rec, SetPhase
  <2>2. Typed(a) /\ Typed(b)
    BY <1>1, <1>2, <1>4 DEF Rec, Typed, Fields, SetPhase
  <2>3. /\ ~(a.livekit /\ a.need) /\ Settled(a)
        /\ a.optional => a.phase # "failed"
        /\ a.up \/ a.snap \/ a.rearmSnap \/ a.joins > 0 \/ a.asked => a.seen
        /\ Follows(v, a)
        /\ Ages(v, a)
        /\ Stands(v) => Stands(a)
    BY <1>1, <1>2, <1>3, <1>4 DEF Rec, Typed, Fields, Settled, Stands, Follows, Ages, SetPhase
  <2>4. /\ ~(b.livekit /\ b.need) /\ Settled(b)
        /\ b.optional => b.phase # "failed"
        /\ b.up \/ b.snap \/ b.rearmSnap \/ b.joins > 0 \/ b.asked => b.seen
        /\ Follows(v, b)
        /\ Ages(v, b)
        /\ Stands(v) => Stands(b)
    BY <1>1, <1>2, <1>3, <1>4 DEF Rec, Typed, Fields, Settled, Stands, Follows, Ages, SetPhase
  <2>5. Aged(a) /\ Aged(b)
    BY <1>2, <1>3, <2>3, <2>4, AgesOnward DEF Loose
  <2> QED BY <2>1, <2>2, <2>3, <2>4, <2>5 DEF Fits, Good, Loose
<1>5. "recovering" \in Phases /\ "waiting-app-snapshot" \in Phases /\ "waiting-livekit" \in Phases
  BY DEF Phases
<1>6. ASSUME NEW phase \in {"waiting-app-snapshot", "waiting-livekit"}
      PROVE  Fits(w, SetPhase(v, phase)) /\ Fits(w, SetPhase(SetPhase(v, "recovering"), phase))
  BY <1>3, <1>4, <1>5, <1>6, FitsOnward
<1>7. Fits(w, SetPhase(v, "recovering"))
  BY <1>3, <1>4, <1>5, FitsOnward
<1>8. w.phase = "failed" => Fits(w, v)
  BY <1>1, <1>2, <1>3, AgesOnward DEF Fits, Good, Loose, Settled
<1>9. BeginRecovery(w) = IF w.phase = "failed" THEN v ELSE SetPhase(v, "recovering")
  BY DEF BeginRecovery, v
<1> QED BY <1>6, <1>7, <1>8, <1>9

LEMMA FinishAttemptFits ==
  ASSUME NEW w, Good(w), NEW run,
         run.gen = w.gen => w.inFlight /\ \A other \in w.runs : other.gen # run.gen,
         NEW outcome \in {"ok", "terminal", "retryable"}
  PROVE  /\ Good(FinishAttempt(w, run, outcome))
         /\ Follows(w, FinishAttempt(w, run, outcome))
         /\ (outcome = "ok" => w.room \in Standing)
              => (Stands(w) => Stands(FinishAttempt(w, run, outcome)))
<1> DEFINE v == [w EXCEPT !.inFlight = FALSE]
           ok == [v EXCEPT !.livekit = TRUE, !.need = FALSE]
           due == [v EXCEPT !.retry = w.epoch]
           waits == SetPhase(ok, "waiting-app-snapshot")
<1>1. Rec(v) /\ Rec(ok) /\ Rec(due) /\ Rec(waits)
  BY Zenon DEF Good, Loose, Rec, SetPhase
<1>2. Typed(v) /\ Typed(ok) /\ Typed(due) /\ Typed(waits)
  BY DEF Good, Loose, Rec, Typed, Phases, Fields, SetPhase
<1> DEFINE Alone == \A other \in w.runs : other.gen # w.gen
<1>3. Alone => Aged(v) /\ Aged(ok) /\ Aged(due) /\ Aged(waits)
  <2>1. \A r \in {v, ok, due, waits} : r.runs = w.runs /\ r.gen = w.gen
    BY DEF Good, Loose, Rec, Typed, Fields, SetPhase
  <2> QED BY <2>1 DEF Good, Loose, Aged
<1>4. Alone => Fits(w, v)
  <2>1. /\ ~(v.livekit /\ v.need) /\ Settled(v)
        /\ v.optional => v.phase # "failed"
        /\ v.up \/ v.snap \/ v.rearmSnap \/ v.joins > 0 \/ v.asked => v.seen
        /\ Follows(w, v)
        /\ Stands(w) => Stands(v)
    BY DEF Good, Loose, Rec, Typed, Fields, Settled, Stands, Follows
  <2> QED BY <1>1, <1>2, <1>3, <2>1 DEF Fits, Good, Loose
<1>5. /\ Alone => Loose(ok)
      /\ ok.livekit /\ ok.snap = w.snap
      /\ Follows(w, ok)
      /\ w.room \in Standing => Stands(ok)
  <2>1. /\ ~(ok.livekit /\ ok.need) /\ ok.livekit /\ ok.snap = w.snap
        /\ ok.optional => ok.phase # "failed"
        /\ ok.up \/ ok.snap \/ ok.rearmSnap \/ ok.joins > 0 \/ ok.asked => ok.seen
        /\ Follows(w, ok)
        /\ w.room \in Standing => Stands(ok)
    BY DEF Good, Loose, Rec, Typed, Fields, Stands, Follows
  <2> QED BY <1>1, <1>2, <1>3, <2>1 DEF Loose
<1>6. /\ Alone => Good(waits)
      /\ Follows(w, waits)
      /\ w.room \in Standing => Stands(waits)
  <2>1. /\ ~(waits.livekit /\ waits.need) /\ Settled(waits)
        /\ waits.optional => waits.phase # "failed"
        /\ waits.up \/ waits.snap \/ waits.rearmSnap \/ waits.joins > 0 \/ waits.asked
             => waits.seen
        /\ Follows(w, waits)
        /\ w.room \in Standing => Stands(waits)
    BY DEF Good, Loose, Rec, Typed, Fields, Settled, Stands, Follows, SetPhase
  <2> QED BY <1>1, <1>2, <1>3, <2>1 DEF Fits, Good, Loose
<1>7. Alone /\ w.phase # "healthy" => Fits(w, due)
  <2>1. /\ ~(due.livekit /\ due.need) /\ (w.phase # "healthy" => Settled(due))
        /\ due.optional => due.phase # "failed"
        /\ due.up \/ due.snap \/ due.rearmSnap \/ due.joins > 0 \/ due.asked => due.seen
        /\ Follows(w, due)
        /\ Stands(w) => Stands(due)
    BY DEF Good, Loose, Rec, Typed, Fields, Settled, Stands, Follows
  <2> QED BY <1>1, <1>2, <1>3, <2>1 DEF Fits, Good, Loose
<1> HIDE DEF v, ok, due, waits
<1>8. Alone => Fits(w, Fail(v)) /\ Fits(w, EnterCooldown(v))
  BY <1>4, FailFits, EnterCooldownFits, FitsOnward DEF Fits, Good
<1>9. Alone /\ w.snap => /\ Good(CompleteHealthy(ok))
                         /\ Follows(w, CompleteHealthy(ok))
                         /\ w.room \in Standing => Stands(CompleteHealthy(ok))
  BY <1>5, CompleteHealthyFits DEF Fits, Follows
<1>10. FinishAttempt(w, run, outcome) =
        IF ~IsCurrent(w, run.epoch) \/ run.gen # w.gen THEN w
        ELSE CASE outcome = "ok" -> IF w.snap THEN CompleteHealthy(ok) ELSE waits
               [] outcome = "terminal" -> Fail(v)
               [] outcome = "retryable" ->
                    IF w.attempts >= MaxAttempts THEN EnterCooldown(v) ELSE due
  BY DEF FinishAttempt, v, ok, due, waits
<1>11. run.gen = w.gen => Alone /\ w.phase # "healthy"
  BY DEF Good, Settled
<1>12. CASE ~IsCurrent(w, run.epoch) \/ run.gen # w.gen
  BY <1>10, <1>12, SelfFits DEF Fits
<1>13. CASE IsCurrent(w, run.epoch) /\ run.gen = w.gen /\ outcome = "ok"
  BY <1>6, <1>9, <1>10, <1>11, <1>13
<1>14. CASE IsCurrent(w, run.epoch) /\ run.gen = w.gen /\ outcome # "ok"
  BY <1>7, <1>8, <1>10, <1>11, <1>14 DEF Fits
<1> QED BY <1>12, <1>13, <1>14

LEMMA AppWsLostFits ==
  ASSUME NEW w, Good(w)
  PROVE  Fits(w, AppWsLost(w))
<1> DEFINE v == [w EXCEPT !.up = FALSE, !.snap = FALSE]
           k == IF v.optional THEN KeepStandingConnection(v) ELSE v
           l == IF k.phase = "healthy" THEN k
                ELSE [k EXCEPT !.retry = 0, !.gen = @ + 1, !.inFlight = FALSE, !.epoch = @ + 1]
<1>1. Rec(v)
  BY Zenon DEF Good, Loose, Rec
<1>2. Typed(v)
  BY DEF Good, Loose, Rec, Typed, Phases, Fields
<1>3. /\ ~(v.livekit /\ v.need)
      /\ v.optional => v.phase # "failed"
      /\ v.up \/ v.snap \/ v.rearmSnap \/ v.joins > 0 \/ v.asked => v.seen
      /\ Follows(w, v) /\ (Stands(w) => Stands(v))
      /\ v.phase = w.phase
  BY DEF Good, Loose, Rec, Typed, Fields, Stands, Follows
<1>4. Ages(w, v)
  BY DEF Good, Loose, Rec, Fields, Ages
<1> HIDE DEF v
<1>5. Loose(v)
  BY <1>1, <1>2, <1>3, <1>4, AgesOnward DEF Good, Loose
<1>6. Loose(k) /\ Follows(v, k) /\ (Stands(v) => Stands(k))
  BY <1>5, KeepStandingFits DEF Fits, Good, Follows
<1> HIDE DEF k
<1>7. Loose(l) /\ Follows(k, l) /\ (Stands(k) => Stands(l))
  <2> DEFINE s == [k EXCEPT !.retry = 0, !.gen = @ + 1, !.inFlight = FALSE, !.epoch = @ + 1]
  <2>1. Rec(s)
    BY <1>6, Zenon DEF Loose, Rec
  <2>2. Typed(s)
    BY <1>6 DEF Loose, Rec, Typed, Phases, Fields
  <2>3. /\ ~(s.livekit /\ s.need)
        /\ s.optional => s.phase # "failed"
        /\ s.up \/ s.snap \/ s.rearmSnap \/ s.joins > 0 \/ s.asked => s.seen
        /\ Follows(k, s) /\ (Stands(k) => Stands(s))
    BY <1>6 DEF Loose, Rec, Typed, Fields, Stands, Follows
  <2>4. Ages(k, s)
    BY <1>6 DEF Loose, Rec, Fields, Ages
  <2> HIDE DEF s
  <2>5. Loose(s)
    BY <1>6, <2>1, <2>2, <2>3, <2>4, AgesOnward DEF Loose
  <2> QED BY <1>6, <2>3, <2>5 DEF Follows, s
<1> HIDE DEF l
<1>8. Fits(l, SetPhase(BeginRecovery(l), "waiting-app-snapshot"))
  BY <1>7, BeginRecoveryFits
<1>9. Follows(w, l) /\ (Stands(w) => Stands(l))
  BY <1>3, <1>6, <1>7 DEF Follows
<1>10. Fits(w, SetPhase(BeginRecovery(l), "waiting-app-snapshot"))
  BY <1>8, <1>9, FitsOnward
<1>11. w.phase = "failed" => Fits(w, v)
  BY <1>3, <1>5 DEF Fits, Good, Settled
<1>12. AppWsLost(w) = IF w.phase = "failed" THEN v
                      ELSE SetPhase(BeginRecovery(l), "waiting-app-snapshot")
  BY DEF AppWsLost, v, k, l
<1> QED BY <1>10, <1>11, <1>12

LEMMA AppWsRestoredFits ==
  ASSUME NEW w, Good(w)
  PROVE  Fits(w, AppWsRestored(w))
<1> DEFINE v == [w EXCEPT !.up = TRUE, !.snap = FALSE, !.seen = TRUE]
<1>1. Rec(v)
  BY Zenon DEF Good, Loose, Rec
<1>2. Typed(v)
  BY DEF Good, Loose, Rec, Typed, Phases, Fields
<1>3. /\ ~(v.livekit /\ v.need) /\ v.seen
      /\ v.optional => v.phase # "failed"
      /\ Follows(w, v) /\ (Stands(w) => Stands(v))
      /\ v.phase = w.phase
      /\ ~w.seen => w.phase # "healthy"
  BY DEF Good, Loose, Rec, Typed, Fields, Stands, Follows, Settled
<1>4. Ages(w, v)
  BY DEF Good, Loose, Rec, Fields, Ages
<1> HIDE DEF v
<1>5. Loose(v)
  BY <1>1, <1>2, <1>3, <1>4, AgesOnward DEF Good, Loose
<1>6. w.phase # "healthy" => Good(v) /\ Fits(w, v)
  BY <1>3, <1>5 DEF Fits, Good, Settled
<1>7. w.phase = "failed" => Fits(w, MarkMeaningfulRearm(v, FALSE))
  BY <1>3, <1>6, MarkMeaningfulRearmFits, FitsOnward
<1>8. Fits(w, SetPhase(BeginRecovery(v), "waiting-app-snapshot"))
  BY <1>3, <1>5, BeginRecoveryFits, FitsOnward
<1> QED BY <1>3, <1>6, <1>7, <1>8 DEF AppWsRestored, v

LEMMA AppSnapshotAppliedFits ==
  ASSUME NEW w, Good(w), w.seen, NEW mine \in BOOLEAN
  PROVE  Fits(w, AppSnapshotApplied(w, mine))
<1> DEFINE v == [w EXCEPT !.snap = TRUE]
           f == [v EXCEPT !.rearmSnap = @ \/ w.rearm]
           l == SetPhase(v, "waiting-livekit")
<1>1. Rec(v) /\ Rec(f) /\ Rec(l)
  BY Zenon DEF Good, Loose, Rec, SetPhase
<1>2. Typed(v) /\ Typed(f) /\ Typed(l)
  BY DEF Good, Loose, Rec, Typed, Phases, Fields, SetPhase
<1>3. /\ ~(v.livekit /\ v.need) /\ v.seen /\ Settled(v)
      /\ v.optional => v.phase # "failed"
      /\ Follows(w, v) /\ (Stands(w) => Stands(v))
      /\ v.livekit = w.livekit /\ v.snap
  BY DEF Good, Loose, Rec, Typed, Fields, Stands, Follows, Settled
<1>4. /\ ~(f.livekit /\ f.need) /\ f.seen /\ Settled(f)
      /\ f.optional => f.phase # "failed"
      /\ Follows(w, f) /\ (Stands(w) => Stands(f))
  BY DEF Good, Loose, Rec, Typed, Fields, Stands, Follows, Settled
<1>5. /\ ~(l.livekit /\ l.need) /\ l.seen /\ Settled(l)
      /\ l.optional => l.phase # "failed"
      /\ Follows(w, l) /\ (Stands(w) => Stands(l))
  BY DEF Good, Loose, Rec, Typed, Fields, Stands, Follows, Settled, SetPhase
<1>6. Ages(w, v) /\ Ages(w, f) /\ Ages(w, l)
  BY DEF Good, Loose, Rec, Fields, Ages, SetPhase
<1> HIDE DEF v, f, l
<1>7. Aged(v) /\ Aged(f) /\ Aged(l)
  BY <1>6, AgesOnward DEF Good, Loose
<1>8. Fits(w, v) /\ Fits(w, f) /\ Fits(w, l)
  BY <1>1, <1>2, <1>3, <1>4, <1>5, <1>7 DEF Fits, Good, Loose
<1>9. Fits(w, TryRearm(f)) /\ Fits(w, MaybeAttempt(v))
  BY <1>8, TryRearmFits, MaybeAttemptFits, FitsOnward DEF Fits
<1>10. w.livekit => Fits(w, CompleteHealthy(v))
  BY <1>3, <1>8, CompleteHealthyFits, FitsOnward DEF Fits, Good
<1>11. w.optional => Fits(w, KeepStandingConnection(w))
  BY KeepStandingFits DEF Good
<1>12. AppSnapshotApplied(w, mine) =
         IF ~mine THEN IF w.optional THEN KeepStandingConnection(w) ELSE w
         ELSE IF w.phase = "failed" THEN TryRearm(f)
         ELSE IF w.livekit THEN CompleteHealthy(v)
         ELSE IF w.need THEN MaybeAttempt(v)
         ELSE l
  BY DEF AppSnapshotApplied, v, f, l
<1> QED BY <1>8, <1>9, <1>10, <1>11, <1>12, SelfFits

LEMMA LivekitReconnectingFits ==
  ASSUME NEW w, Good(w)
  PROVE  Fits(w, LivekitReconnecting(w))
<1> DEFINE v == [w EXCEPT !.livekit = FALSE]
<1>1. Rec(v)
  BY Zenon DEF Good, Loose, Rec
<1>2. Typed(v)
  BY DEF Good, Loose, Rec, Typed, Phases, Fields
<1>3. /\ ~v.livekit
      /\ v.optional => v.phase # "failed"
      /\ v.up \/ v.snap \/ v.rearmSnap \/ v.joins > 0 \/ v.asked => v.seen
      /\ Follows(w, v) /\ (Stands(w) => Stands(v))
  BY DEF Good, Loose, Rec, Typed, Fields, Stands, Follows
<1>4. Ages(w, v)
  BY DEF Good, Loose, Rec, Fields, Ages
<1> HIDE DEF v
<1>5. Loose(v)
  BY <1>1, <1>2, <1>3, <1>4, AgesOnward DEF Good, Loose
<1>6. Fits(v, SetPhase(BeginRecovery(v), "waiting-livekit"))
  BY <1>5, BeginRecoveryFits
<1> QED BY <1>3, <1>6, FitsOnward DEF LivekitReconnecting, v

\* It is called when the room is there.
LEMMA LivekitReconciledFits ==
  ASSUME NEW w, Good(w), w.room \in Standing
  PROVE  Fits(w, LivekitReconciled(w))
<1> DEFINE v == [w EXCEPT !.gen = @ + 1, !.retry = 0, !.inFlight = FALSE,
                     !.livekit = TRUE, !.need = FALSE]
<1>1. Rec(v)
  BY Zenon DEF Good, Loose, Rec
<1>2. Typed(v)
  BY DEF Good, Loose, Rec, Typed, Phases, Fields
<1>3. /\ ~v.need /\ v.livekit /\ v.snap = w.snap /\ Settled(v)
      /\ v.optional => v.phase # "failed"
      /\ v.up \/ v.snap \/ v.rearmSnap \/ v.joins > 0 \/ v.asked => v.seen
      /\ Follows(w, v) /\ Stands(v)
  BY DEF Good, Loose, Rec, Typed, Fields, Stands, Follows, Settled
<1>4. Ages(w, v)
  BY DEF Good, Loose, Rec, Fields, Ages
<1> HIDE DEF v
<1>5. Fits(w, v)
  BY <1>1, <1>2, <1>3, <1>4, AgesOnward DEF Good, Loose, Fits
<1>6. w.snap => Fits(w, CompleteHealthy(v))
  BY <1>3, <1>5, CompleteHealthyFits, FitsOnward DEF Fits, Good
<1> QED BY <1>5, <1>6, KeepStandingFits DEF LivekitReconciled, v, Good

\* The room may be gone: nothing counts on it from here on.
LEMMA LivekitDisconnectedFits ==
  ASSUME NEW w, Good(w)
  PROVE  /\ Good(LivekitDisconnected(w)) /\ Stands(LivekitDisconnected(w))
         /\ Follows(w, LivekitDisconnected(w))
<1> DEFINE v == [w EXCEPT !.optional = FALSE, !.livekit = FALSE, !.need = TRUE]
           e == [v EXCEPT !.epoch = IF w.optional THEN @ + 1 ELSE @, !.snap = FALSE]
           b == SetPhase(BeginRecovery(e), "waiting-app-snapshot")
<1>1. Rec(v) /\ Rec(e)
  BY Zenon DEF Good, Loose, Rec
<1>2. Typed(v) /\ Typed(e)
  BY DEF Good, Loose, Rec, Typed, Phases, Fields
<1>3. /\ ~v.livekit /\ ~v.optional /\ (w.need => Settled(v))
      /\ v.up \/ v.snap \/ v.rearmSnap \/ v.joins > 0 \/ v.asked => v.seen
      /\ Follows(w, v) /\ Stands(v)
  BY DEF Good, Loose, Rec, Typed, Fields, Stands, Follows, Settled
<1>4. /\ ~e.livekit /\ ~e.optional
      /\ e.up \/ e.snap \/ e.rearmSnap \/ e.joins > 0 \/ e.asked => e.seen
      /\ Follows(w, e) /\ Stands(e)
  BY DEF Good, Loose, Rec, Typed, Fields, Stands, Follows
<1>5. Ages(w, v) /\ Ages(w, e)
  BY DEF Good, Loose, Rec, Fields, Ages
<1> HIDE DEF v, e
<1>6. Aged(v) /\ Aged(e)
  BY <1>5, AgesOnward DEF Good, Loose
<1>7. Loose(v) /\ Loose(e)
  BY <1>1, <1>2, <1>3, <1>4, <1>6 DEF Loose
<1>8. Fits(e, b)
  BY <1>7, BeginRecoveryFits
<1> HIDE DEF b
<1>9. Fits(e, RequestSnapshot(b))
  BY <1>8, RequestSnapshotFits, FitsOnward DEF Fits
<1>10. LivekitDisconnected(w) = IF w.need /\ ~w.livekit THEN v ELSE RequestSnapshot(b)
  BY DEF LivekitDisconnected, v, e, b
<1> QED BY <1>3, <1>4, <1>7, <1>9, <1>10 DEF Fits, Good, Follows

LEMMA RequestLiveKitReplacementFits ==
  ASSUME NEW w, Good(w), w.phase = "healthy"
  PROVE  Fits(w, RequestLiveKitReplacement(w))
<1> DEFINE v == [w EXCEPT !.optional = TRUE, !.livekit = FALSE, !.need = TRUE, !.snap = FALSE]
           b == SetPhase(BeginRecovery(v), "waiting-app-snapshot")
<1>1. Rec(v)
  BY Zenon DEF Good, Loose, Rec
<1>2. Typed(v)
  BY DEF Good, Loose, Rec, Typed, Phases, Fields
<1>3. /\ ~v.livekit /\ v.phase # "failed"
      /\ v.up \/ v.snap \/ v.rearmSnap \/ v.joins > 0 \/ v.asked => v.seen
      /\ Follows(w, v) /\ (Stands(w) => Stands(v))
  BY DEF Good, Loose, Rec, Typed, Fields, Stands, Follows, Settled
<1>4. Ages(w, v)
  BY DEF Good, Loose, Rec, Fields, Ages
<1> HIDE DEF v
<1>5. Loose(v)
  BY <1>1, <1>2, <1>3, <1>4, AgesOnward DEF Good, Loose
<1>6. Fits(v, b)
  BY <1>5, BeginRecoveryFits
<1> HIDE DEF b
<1>7. Fits(w, RequestSnapshot(b))
  BY <1>3, <1>6, RequestSnapshotFits, FitsOnward DEF Fits
<1> QED BY <1>7 DEF RequestLiveKitReplacement, v, b

LEMMA NetworkOnlineFits ==
  ASSUME NEW w, Good(w)
  PROVE  Fits(w, NetworkOnline(w))
<1> DEFINE v == [w EXCEPT !.online = TRUE]
           s == SetPhase([v EXCEPT !.snap = FALSE], "waiting-app-snapshot")
<1>1. Rec(v) /\ Rec(s)
  BY Zenon DEF Good, Loose, Rec, SetPhase
<1>2. Typed(v) /\ Typed(s)
  BY DEF Good, Loose, Rec, Typed, Phases, Fields, SetPhase
<1>3. /\ ~(v.livekit /\ v.need) /\ Settled(v)
      /\ v.optional => v.phase # "failed"
      /\ v.up \/ v.snap \/ v.rearmSnap \/ v.joins > 0 \/ v.asked => v.seen
      /\ Follows(w, v) /\ (Stands(w) => Stands(v))
      /\ v.snap = w.snap /\ v.livekit = w.livekit
  BY DEF Good, Loose, Rec, Typed, Fields, Stands, Follows, Settled
<1>4. /\ ~(s.livekit /\ s.need) /\ Settled(s)
      /\ s.optional => s.phase # "failed"
      /\ s.up \/ s.snap \/ s.rearmSnap \/ s.joins > 0 \/ s.asked => s.seen
      /\ Follows(w, s) /\ (Stands(w) => Stands(s))
  BY DEF Good, Loose, Rec, Typed, Fields, Stands, Follows, Settled, SetPhase
<1>5. Ages(w, v) /\ Ages(w, s)
  BY DEF Good, Loose, Rec, Fields, Ages, SetPhase
<1> HIDE DEF v, s
<1>6. Aged(v) /\ Aged(s)
  BY <1>5, AgesOnward DEF Good, Loose
<1>7. Fits(w, v) /\ Fits(w, s)
  BY <1>1, <1>2, <1>3, <1>4, <1>6 DEF Fits, Good, Loose
<1>8. Fits(w, MarkMeaningfulRearm(v, TRUE)) /\ Fits(w, RequestSnapshot(s))
  BY <1>7, MarkMeaningfulRearmFits, RequestSnapshotFits, FitsOnward DEF Fits
<1>9. w.livekit /\ w.snap => Fits(w, CompleteHealthy(v))
  BY <1>3, <1>7, CompleteHealthyFits, FitsOnward DEF Fits, Good
<1>10. NetworkOnline(w) =
         IF w.phase = "failed" THEN MarkMeaningfulRearm(v, TRUE)
         ELSE IF w.phase = "recovering" /\ ~w.need /\ w.livekit /\ w.snap THEN CompleteHealthy(v)
         ELSE IF w.need THEN RequestSnapshot(s)
         ELSE v
  BY DEF NetworkOnline, v, s
<1> QED BY <1>7, <1>8, <1>9, <1>10

-----------------------------------------------------------------------------
(* The steps                                                                  *)

\* The room is there while the controller counts on it or an attempt has just committed.
Held(w) == Stands(w) /\ ((\E run \in w.runs : run.done) => w.room \in Standing)

FaultsOK == faults \in [n : 0..MaxFaults, kinds : SUBSET FaultKinds]

RecoveryInv ==
  /\ Good(client) /\ FaultsOK
  /\ "late" \notin faults.kinds => Held(client)

LEMMA FitsHeld ==
  ASSUME NEW w, NEW r, Fits(w, r)
  PROVE  Good(r) /\ (Held(w) => Held(r))
BY DEF Fits, Follows, Held

LEMMA CalmKeeps ==
  ASSUME NEW w, RecoveryInv, Good(w), Held(client) => Held(w), Calm(w)
  PROVE  RecoveryInv'
<1>1. client' = w /\ faults' = faults
  BY DEF Calm
<1>2. Good(client)' /\ (Held(client)' <=> Held(w))
  BY <1>1 DEF Good, Held
<1> QED BY <1>1, <1>2 DEF RecoveryInv, FaultsOK

LEMMA FaultKeeps ==
  ASSUME NEW w, NEW kind, RecoveryInv, Good(w), kind # "late" /\ Held(client) => Held(w),
         Fault(kind, w)
  PROVE  RecoveryInv'
<1>1. client' = w /\ FaultsOK' /\ faults'.kinds = faults.kinds \cup {kind}
  BY RecoveryAssumption DEF Fault, RecoveryInv, FaultsOK
<1>2. Good(client)' /\ (Held(client)' <=> Held(w))
  BY <1>1 DEF Good, Held
<1> QED BY <1>1, <1>2 DEF RecoveryInv

\* Requests on the socket come and go without disturbing anything else.
Message(w, r) ==
  /\ Rec(r) /\ Typed(r)
  /\ r.phase = w.phase /\ r.gen = w.gen /\ r.up = w.up /\ r.seen = w.seen
  /\ r.snap = w.snap /\ r.livekit = w.livekit /\ r.need = w.need /\ r.room = w.room
  /\ r.optional = w.optional /\ r.inFlight = w.inFlight /\ r.retry = w.retry
  /\ r.cool = w.cool /\ r.rearmSnap = w.rearmSnap /\ r.runs = w.runs
  /\ r.joins > 0 \/ r.asked => w.seen

LEMMA MessageFits ==
  ASSUME NEW w, Good(w), NEW r, Message(w, r)
  PROVE  Fits(w, r)
<1>1. Aged(r)
  BY AgesOnward DEF Message, Ages, Good, Loose
<1> QED BY <1>1 DEF Message, Fits, Good, Loose, Settled, Stands, Follows

LEMMA SocketLostKeeps ==
  ASSUME RecoveryInv, SocketLost
  PROVE  RecoveryInv'
<1> DEFINE w == [client EXCEPT !.asked = FALSE, !.joins = 0]
<1>1. Good(client)
  BY DEF RecoveryInv
<1>2. Rec(w)
  BY <1>1, Zenon DEF Good, Loose, Rec
<1>3. Message(client, w)
  BY <1>1, <1>2 DEF Good, Loose, Rec, Typed, Phases, Fields, Message
<1> HIDE DEF w
<1>4. Fits(client, AppWsLost(w))
  BY <1>1, <1>3, MessageFits, AppWsLostFits, FitsOnward DEF Fits
<1>5. Fault(Unless("socket"), AppWsLost(w))
  BY DEF SocketLost, w
<1> QED BY <1>4, <1>5, FitsHeld, FaultKeeps

LEMMA SocketOpensKeeps ==
  ASSUME RecoveryInv, SocketOpens
  PROVE  RecoveryInv'
<1> DEFINE w == [client EXCEPT !.joins = client.queued, !.queued = 0]
           c == ClearActiveResync(w)
           j == [c EXCEPT !.key = 0, !.joins = @ + 1]
           r == [w EXCEPT !.up = TRUE, !.snap = FALSE, !.seen = TRUE]
<1>1. Good(client)
  BY DEF RecoveryInv
<1>2. Rec(w)
  BY <1>1, Zenon DEF Good, Loose, Rec
<1>3. Typed(w)
  BY <1>1 DEF Good, Loose, Rec, Typed, Phases, Fields
<1>4. CASE client.seen
  <2>1. Message(client, w) /\ w.seen
    BY <1>1, <1>2, <1>3, <1>4 DEF Good, Loose, Rec, Typed, Fields, Message
  <2> HIDE DEF w
  <2>2. Fits(client, w)
    BY <1>1, <2>1, MessageFits
  <2>3. Fits(client, c) /\ Good(c)
    BY <2>2, ForgetFits, FitsOnward DEF Fits
  <2>4. c.seen
    BY <1>2, <1>3, <2>1 DEF Rec, Typed, Fields, ClearActiveResync, Forget
  <2> HIDE DEF c
  <2>5. Rec(j)
    BY <2>3, Zenon DEF Good, Loose, Rec
  <2>6. Message(c, j)
    BY <2>3, <2>4, <2>5 DEF Good, Loose, Rec, Typed, Phases, Fields, Message
  <2> HIDE DEF j
  <2>7. Fits(client, AppWsRestored(j))
    BY <2>3, <2>6, MessageFits, AppWsRestoredFits, FitsOnward DEF Fits
  <2>8. Calm(AppWsRestored(j))
    BY <1>4 DEF SocketOpens, w, c, j
  <2> QED BY <2>7, <2>8, FitsHeld, CalmKeeps
<1>5. CASE ~client.seen
  <2>1. Rec(r)
    BY <1>2, Zenon DEF Rec
  <2>2. Typed(r)
    BY <1>1 DEF Good, Loose, Rec, Typed, Phases, Fields
  <2>3. /\ ~(r.livekit /\ r.need) /\ r.seen /\ Settled(r)
        /\ r.optional => r.phase # "failed"
        /\ Follows(client, r) /\ (Stands(client) => Stands(r))
        /\ ~w.seen
    BY <1>1, <1>5 DEF Good, Loose, Rec, Typed, Fields, Stands, Follows, Settled
  <2>4. Ages(client, r)
    BY <1>1 DEF Good, Loose, Rec, Fields, Ages
  <2> HIDE DEF r
  <2>5. Fits(client, r)
    BY <1>1, <2>1, <2>2, <2>3, <2>4, AgesOnward DEF Fits, Good, Loose
  <2>6. Calm(r)
    <3>1. Calm(AppWsRestored(w))
      BY <1>5 DEF SocketOpens, w
    <3> HIDE DEF w
    <3> QED BY <2>3, <3>1 DEF AppWsRestored, r
  <2> QED BY <2>5, <2>6, FitsHeld, CalmKeeps
<1> QED BY <1>1, <1>4, <1>5 DEF Good, Loose, Typed

LEMMA JoinAnsweredKeeps ==
  ASSUME RecoveryInv, JoinAnswered
  PROVE  RecoveryInv'
<1> DEFINE w == [client EXCEPT !.joins = @ - 1]
<1>1. Good(client) /\ client.joins > 0
  BY DEF RecoveryInv, JoinAnswered
<1>2. Rec(w)
  BY <1>1, Zenon DEF Good, Loose, Rec
<1>3. Message(client, w) /\ w.seen
  BY <1>1, <1>2 DEF Good, Loose, Rec, Typed, Phases, Fields, Message
<1> HIDE DEF w
<1>4. Fits(client, AppSnapshotApplied(w, TRUE))
  BY <1>1, <1>3, MessageFits, AppSnapshotAppliedFits, FitsOnward DEF Fits
<1>5. Calm(AppSnapshotApplied(w, TRUE))
  BY DEF JoinAnswered, w
<1> QED BY <1>4, <1>5, FitsHeld, CalmKeeps

LEMMA KeepStandingJoins ==
  ASSUME NEW w, Rec(w)
  PROVE  KeepStandingConnection(w).joins = w.joins
BY DEF KeepStandingConnection, CompleteHealthy, SetPhase, Rec, Fields

LEMMA JoinFailsKeeps ==
  ASSUME RecoveryInv, JoinFails
  PROVE  RecoveryInv'
<1>1. Good(client) /\ client.joins > 0 /\ client.seen
  BY DEF RecoveryInv, JoinFails, Good, Loose
<1>2. PICK w \in {client, AppSnapshotApplied(client, FALSE)} :
        Fault("rejoin", [w EXCEPT !.joins = @ - 1])
  BY DEF JoinFails
<1>3. Fits(client, w)
  BY <1>1, SelfFits, AppSnapshotAppliedFits
<1>4. w.joins = client.joins
  BY <1>1, KeepStandingJoins DEF AppSnapshotApplied, Good, Loose
<1> DEFINE r == [w EXCEPT !.joins = @ - 1]
<1>5. Rec(r)
  BY <1>3, Zenon DEF Fits, Good, Loose, Rec
<1>6. Message(w, r)
  BY <1>1, <1>3, <1>4, <1>5 DEF Fits, Good, Loose, Rec, Typed, Phases, Fields, Message
<1>7. Fits(client, r)
  BY <1>3, <1>6, MessageFits, FitsOnward DEF Fits
<1> HIDE DEF r
<1>8. Fault("rejoin", r)
  BY <1>2 DEF r
<1> QED BY <1>7, <1>8, FitsHeld, FaultKeeps

LEMMA ResyncAnsweredKeeps ==
  ASSUME RecoveryInv, ResyncAnswered
  PROVE  RecoveryInv'
<1> DEFINE w == [client EXCEPT !.asked = FALSE, !.tries = 0]
<1>1. Good(client) /\ client.asked
  BY DEF RecoveryInv, ResyncAnswered
<1>2. Rec(w)
  BY <1>1, Zenon DEF Good, Loose, Rec
<1>3. Message(client, w) /\ w.seen
  BY <1>1, <1>2, RecoveryAssumption DEF Good, Loose, Rec, Typed, Phases, Fields, Message
<1> HIDE DEF w
<1>4. Fits(client, AppSnapshotApplied(w, TRUE))
  BY <1>1, <1>3, MessageFits, AppSnapshotAppliedFits, FitsOnward DEF Fits
<1>5. Calm(AppSnapshotApplied(w, TRUE))
  BY DEF ResyncAnswered, w
<1> QED BY <1>4, <1>5, FitsHeld, CalmKeeps

LEMMA GiveFits ==
  ASSUME NEW w, Good(w), NEW retryable \in BOOLEAN
  PROVE  Fits(w, Give(w, retryable))
<1>1. Fits(w, ClearActiveResync(w))
  BY ForgetFits
<1> QED BY <1>1, AppSnapshotRequestFailedFits, FitsOnward DEF Fits, Give

LEMMA ResyncRefusedKeeps ==
  ASSUME RecoveryInv, ResyncRefused
  PROVE  RecoveryInv'
<1> DEFINE w == [client EXCEPT !.asked = FALSE]
           z == [w EXCEPT !.tries = 0]
<1>1. Good(client) /\ client.asked
  BY DEF RecoveryInv, ResyncRefused
<1>2. Rec(w) /\ Rec(z)
  BY <1>1, Zenon DEF Good, Loose, Rec
<1>3. Message(client, w) /\ Message(client, z) /\ z.seen /\ w.tries = client.tries
  BY <1>1, <1>2, RecoveryAssumption DEF Good, Loose, Rec, Typed, Phases, Fields, Message
<1> HIDE DEF w, z
<1>4. Fits(client, w) /\ Fits(client, z)
  BY <1>1, <1>3, MessageFits
<1>5. Fits(client, AppSnapshotApplied(z, FALSE))
  BY <1>3, <1>4, AppSnapshotAppliedFits, FitsOnward DEF Fits
<1>6. Fits(client, Give(w, TRUE)) /\ Fits(client, Give(w, FALSE))
  BY <1>4, GiveFits, FitsOnward DEF Fits
<1>7. client.tries < MaxTries => Fits(client, SendActiveResyncAttempt(w))
  BY <1>3, <1>4, SendAttemptFits, FitsOnward DEF Fits
<1>8. \/ client.tries < MaxTries /\ Fault("answer", SendActiveResyncAttempt(w))
      \/ Fault("answer", Give(w, TRUE))
      \/ Fault("refusal", Give(w, FALSE))
      \/ Fault("rejoin", AppSnapshotApplied(z, FALSE))
  BY DEF ResyncRefused, w, z
<1> QED BY <1>5, <1>6, <1>7, <1>8, FitsHeld, FaultKeeps

LEMMA ResyncTimesOutKeeps ==
  ASSUME RecoveryInv, ResyncTimesOut
  PROVE  RecoveryInv'
<1> DEFINE w == IF client.tries < MaxTries THEN SendActiveResyncAttempt(client)
                ELSE Give(client, TRUE)
<1>1. Fits(client, w)
  BY SendAttemptFits, GiveFits DEF RecoveryInv
<1>2. Fault("answer", w) \/ Calm(w)
  BY DEF ResyncTimesOut
<1> HIDE DEF w
<1> QED BY <1>1, <1>2, FitsHeld, FaultKeeps, CalmKeeps

\* The room goes from one of its states to another.
LEMMA RoomFits ==
  ASSUME NEW w, Good(w),
         NEW room \in {"connecting", "up", "reconnecting", "reconciling", "down"}
  PROVE  /\ Good([w EXCEPT !.room = room])
         /\ [w EXCEPT !.room = room].runs = w.runs
         /\ room \in Standing => /\ [w EXCEPT !.room = room].room \in Standing
                                 /\ Fits(w, [w EXCEPT !.room = room])
<1> DEFINE r == [w EXCEPT !.room = room]
<1>1. Rec(r)
  BY Zenon DEF Good, Loose, Rec
<1>2. Typed(r)
  BY DEF Good, Loose, Rec, Typed, Phases, Fields
<1>3. /\ ~(r.livekit /\ r.need) /\ Settled(r)
      /\ r.optional => r.phase # "failed"
      /\ r.up \/ r.snap \/ r.rearmSnap \/ r.joins > 0 \/ r.asked => r.seen
      /\ r.runs = w.runs /\ r.room = room
  BY DEF Good, Loose, Rec, Typed, Fields, Settled
<1>4. Ages(w, r)
  BY DEF Good, Loose, Rec, Fields, Ages
<1> HIDE DEF r
<1>5. Good(r)
  BY <1>1, <1>2, <1>3, <1>4, AgesOnward DEF Good, Loose
<1>6. room \in Standing => Fits(w, r)
  BY <1>3, <1>5 DEF Fits, Follows, Stands
<1> QED BY <1>3, <1>5, <1>6 DEF r

LEMMA RoomKeeps ==
  ASSUME RecoveryInv,
         RoomJoined \/ RoomReconnecting \/ RoomReconnected \/ RoomReconciled \/ ReconcileFails
  PROVE  RecoveryInv'
<1> DEFINE up == [client EXCEPT !.room = "up"]
           re == [client EXCEPT !.room = "reconnecting"]
           ing == [client EXCEPT !.room = "reconciling"]
<1>1. Fits(client, up) /\ up.room \in Standing /\ Fits(client, re) /\ Fits(client, ing)
  BY RoomFits DEF RecoveryInv, Standing
<1>2. \/ Calm(LivekitReconciled(up)) \/ \E kind : Fault(kind, LivekitReconnecting(re))
      \/ Calm(ing) \/ Fault("reconcile", up)
  BY DEF RoomJoined, RoomReconnecting, RoomReconnected, RoomReconciled, ReconcileFails
<1> HIDE DEF up, re, ing
<1>3. Fits(client, LivekitReconciled(up)) /\ Fits(client, LivekitReconnecting(re))
  BY <1>1, LivekitReconciledFits, LivekitReconnectingFits, FitsOnward DEF Fits
<1> QED BY <1>1, <1>2, <1>3, FitsHeld, CalmKeeps, FaultKeeps

LEMMA RoomDroppedKeeps ==
  ASSUME RecoveryInv, RoomDropped
  PROVE  RecoveryInv'
<1> DEFINE w == [client EXCEPT !.room = "down"]
           r == LivekitDisconnected(w)
<1>1. Good(w) /\ w.runs = client.runs
  BY RoomFits DEF RecoveryInv
<1>2. Fault(Unless("drop"), r)
  BY DEF RoomDropped
<1> HIDE DEF w
<1>3. Good(r) /\ Stands(r) /\ Follows(w, r)
  BY <1>1, LivekitDisconnectedFits
<1> HIDE DEF r
<1>4. Unless("drop") # "late" => Held(r)
  BY <1>1, <1>3 DEF Unless, Held, Follows
<1> QED BY <1>2, <1>3, <1>4, FaultKeeps

\* A commit gives one attempt the room and takes their base from the others; generations
\* stay what they were.
LEMMA CommitKeeps ==
  ASSUME RecoveryInv, NEW run, Commit(run)
  PROVE  RecoveryInv'
<1> DEFINE others == {[r EXCEPT !.base = FALSE] : r \in client.runs \ {run}}
           runs == others \cup {[run EXCEPT !.done = TRUE]}
           w == [client EXCEPT !.room = "up", !.runs = runs]
<1>1. Good(client) /\ run \in client.runs /\ client.runs \subseteq Run
  BY DEF RecoveryInv, Commit, Good, Loose, Typed
<1>2. \A a \in runs : /\ a \in Run
                      /\ \E r \in client.runs : r.gen = a.gen
                      /\ a # [run EXCEPT !.done = TRUE] =>
                           \E r \in client.runs \ {run} : a = [r EXCEPT !.base = FALSE]
  BY <1>1 DEF Run
<1>3. \A r \in Run : [r EXCEPT !.base = FALSE].gen = r.gen /\ [r EXCEPT !.done = TRUE].gen = r.gen
  BY DEF Run
<1>4. \A a, b \in runs : a.gen = b.gen => a = b
  <2> SUFFICES ASSUME NEW a \in runs, NEW b \in runs, a.gen = b.gen
               PROVE  a = b
    OBVIOUS
  <2>1. \A r, s \in client.runs : r.gen = s.gen => r = s
    BY <1>1 DEF Good, Loose, Aged
  <2> HIDE DEF runs
  <2>2. CASE a = [run EXCEPT !.done = TRUE] /\ b # a
    <3>1. PICK s \in client.runs \ {run} : b = [s EXCEPT !.base = FALSE]
      BY <1>2, <2>2
    <3>2. s.gen = run.gen
      BY <1>1, <1>3, <2>2, <3>1
    <3> QED BY <1>1, <2>1, <3>1, <3>2
  <2>3. CASE b = [run EXCEPT !.done = TRUE] /\ b # a
    <3>1. PICK s \in client.runs \ {run} : a = [s EXCEPT !.base = FALSE]
      BY <1>2, <2>3
    <3>2. s.gen = run.gen
      BY <1>1, <1>3, <2>3, <3>1
    <3> QED BY <1>1, <2>1, <3>1, <3>2
  <2>4. CASE a # [run EXCEPT !.done = TRUE] /\ b # [run EXCEPT !.done = TRUE]
    <3>1. PICK r \in client.runs \ {run} : a = [r EXCEPT !.base = FALSE]
      BY <1>2, <2>4
    <3>2. PICK s \in client.runs \ {run} : b = [s EXCEPT !.base = FALSE]
      BY <1>2, <2>4
    <3> QED BY <1>1, <1>3, <2>1, <3>1, <3>2
  <2> QED BY <2>2, <2>3, <2>4
<1>5. runs \in SUBSET Run
  BY <1>2
<1> HIDE DEF runs
<1>6. Rec(w)
  BY <1>1, Zenon DEF Good, Loose, Rec
<1>7. Typed(w)
  BY <1>1, <1>5 DEF Good, Loose, Rec, Typed, Phases, Fields
<1>8. /\ ~(w.livekit /\ w.need) /\ Settled(w)
      /\ w.optional => w.phase # "failed"
      /\ w.up \/ w.snap \/ w.rearmSnap \/ w.joins > 0 \/ w.asked => w.seen
      /\ w.runs = runs /\ w.gen = client.gen /\ w.inFlight = client.inFlight /\ w.room = "up"
  BY <1>1 DEF Good, Loose, Rec, Typed, Fields, Settled
<1>9. Calm(w)
  BY DEF Commit, runs
<1> HIDE DEF w
<1>10. Aged(w)
  BY <1>1, <1>2, <1>4, <1>8 DEF Good, Loose, Aged
<1>11. Good(w) /\ Held(w)
  BY <1>6, <1>7, <1>8, <1>10 DEF Good, Loose, Held, Stands, Standing
<1> QED BY <1>9, <1>11, CalmKeeps

LEMMA EndedFits ==
  ASSUME NEW run, Good(client), run \in client.runs
  PROVE  /\ Good(Ended(run)) /\ Ended(run).room = client.room
         /\ Ended(run).runs = client.runs \ {run}
         /\ Stands(client) => Stands(Ended(run))
         /\ run.gen = Ended(run).gen =>
              Ended(run).inFlight /\ \A other \in Ended(run).runs : other.gen # run.gen
<1> DEFINE w == Ended(run)
<1>1. Rec(w)
  BY Zenon DEF Good, Loose, Rec, Ended
<1>2. Typed(w)
  BY DEF Good, Loose, Rec, Typed, Phases, Fields, Ended
<1>3. /\ ~(w.livekit /\ w.need) /\ Settled(w)
      /\ w.optional => w.phase # "failed"
      /\ w.up \/ w.snap \/ w.rearmSnap \/ w.joins > 0 \/ w.asked => w.seen
      /\ Stands(client) => Stands(w)
  BY DEF Good, Loose, Rec, Typed, Fields, Settled, Stands, Ended
<1>4. /\ w.runs = client.runs \ {run}
      /\ w.gen = client.gen /\ w.inFlight = client.inFlight /\ w.room = client.room
  BY DEF Good, Loose, Rec, Fields, Ended
<1> HIDE DEF w
<1>5. Aged(w)
  BY <1>4 DEF Good, Loose, Aged
<1>6. run.gen = w.gen => w.inFlight /\ \A other \in w.runs : other.gen # run.gen
  BY <1>4 DEF Good, Loose, Aged
<1>7. Good(w)
  BY <1>1, <1>2, <1>3, <1>5 DEF Good, Loose
<1> QED BY <1>3, <1>4, <1>6, <1>7 DEF w

\* An attempt reports: that it took over, that it may not, or that it failed.
LEMMA ReportKeeps ==
  ASSUME RecoveryInv, NEW run, NEW outcome \in {"ok", "terminal", "retryable"}, NEW kind,
         run \in client.runs, outcome = "ok" => run.done,
         \/ Calm(FinishAttempt(Ended(run), run, outcome))
         \/ Fault(kind, FinishAttempt(Ended(run), run, outcome))
  PROVE  RecoveryInv'
<1> DEFINE w == Ended(run)
           r == FinishAttempt(w, run, outcome)
<1>1. /\ Good(w) /\ w.room = client.room /\ w.runs = client.runs \ {run}
      /\ Stands(client) => Stands(w)
      /\ run.gen = w.gen => w.inFlight /\ \A other \in w.runs : other.gen # run.gen
  BY EndedFits DEF RecoveryInv
<1>2. Calm(r) \/ Fault(kind, r)
  OBVIOUS
<1> HIDE DEF w
<1>3. /\ Good(r) /\ Follows(w, r)
      /\ (outcome = "ok" => w.room \in Standing) => (Stands(w) => Stands(r))
  BY <1>1, FinishAttemptFits
<1> HIDE DEF r
<1>4. Held(client) => Held(r)
  BY <1>1, <1>3 DEF Held, Follows
<1> QED BY <1>2, <1>3, <1>4, CalmKeeps, FaultKeeps

LEMMA AttemptKeeps ==
  ASSUME RecoveryInv, AttemptGoesOn \/ AttemptBreaks
  PROVE  RecoveryInv'
<1>1. CASE \E run \in client.runs : Commit(run)
  BY <1>1, CommitKeeps
<1>2. CASE \E run \in client.runs : Finish(run)
  BY <1>2, ReportKeeps DEF Finish
<1>3. CASE \E run \in client.runs : Outdated(run)
  BY <1>3, ReportKeeps DEF Outdated
<1>4. CASE \E run \in client.runs : AttemptFails(run)
  BY <1>4, ReportKeeps DEF AttemptFails
<1> QED BY <1>1, <1>2, <1>3, <1>4 DEF AttemptGoesOn, AttemptBreaks

LEMMA RetryDueKeeps ==
  ASSUME RecoveryInv, RetryDue
  PROVE  RecoveryInv'
<1> DEFINE w == [client EXCEPT !.retry = 0]
<1>1. Good(client)
  BY DEF RecoveryInv
<1>2. Rec(w)
  BY <1>1, Zenon DEF Good, Loose, Rec
<1>3. Typed(w)
  BY <1>1 DEF Good, Loose, Rec, Typed, Phases, Fields
<1>4. /\ ~(w.livekit /\ w.need) /\ Settled(w)
      /\ w.optional => w.phase # "failed"
      /\ w.up \/ w.snap \/ w.rearmSnap \/ w.joins > 0 \/ w.asked => w.seen
      /\ Follows(client, w) /\ (Stands(client) => Stands(w))
  BY <1>1 DEF Good, Loose, Rec, Typed, Fields, Settled, Stands, Follows
<1>5. Ages(client, w)
  BY <1>1 DEF Good, Loose, Rec, Fields, Ages
<1>6. Calm(w) \/ Calm(MaybeAttempt(w))
  BY DEF RetryDue
<1> HIDE DEF w
<1>7. Fits(client, w)
  BY <1>1, <1>2, <1>3, <1>4, <1>5, AgesOnward DEF Fits, Good, Loose
<1>8. Fits(client, MaybeAttempt(w))
  BY <1>7, MaybeAttemptFits, FitsOnward DEF Fits
<1> QED BY <1>6, <1>7, <1>8, FitsHeld, CalmKeeps

LEMMA CooldownOverKeeps ==
  ASSUME RecoveryInv, CooldownOver
  PROVE  RecoveryInv'
<1>1. Good(client)
  BY DEF RecoveryInv
<1>2. PICK epoch \in ({client.cool} \ {0}) \cup client.spare, handled \in BOOLEAN :
        LET w == IF handled THEN [client EXCEPT !.cool = 0]
                 ELSE [client EXCEPT !.spare = (@ \ {epoch}) \cup ({client.cool} \ {0}),
                                     !.cool = 0]
            v == [w EXCEPT !.coolDone = TRUE]
        IN  Calm(IF ~IsCurrent(w, epoch) THEN w
                 ELSE IF client.online /\ client.up /\ client.need
                 THEN MarkMeaningfulRearm(v, TRUE)
                 ELSE TryRearm(v))
  BY DEF CooldownOver
<1> DEFINE a == [client EXCEPT !.cool = 0]
           b == [client EXCEPT !.spare = (@ \ {epoch}) \cup ({client.cool} \ {0}), !.cool = 0]
           w == IF handled THEN a ELSE b
           v == [w EXCEPT !.coolDone = TRUE]
<1>3. Rec(a) /\ Rec(b)
  BY <1>1, Zenon DEF Good, Loose, Rec
<1>4. Typed(a) /\ Typed(b)
  BY <1>1 DEF Good, Loose, Rec, Typed, Phases, Fields
<1>5. /\ ~(a.livekit /\ a.need) /\ Settled(a)
      /\ a.optional => a.phase # "failed"
      /\ a.up \/ a.snap \/ a.rearmSnap \/ a.joins > 0 \/ a.asked => a.seen
      /\ Follows(client, a) /\ (Stands(client) => Stands(a))
  BY <1>1 DEF Good, Loose, Rec, Typed, Fields, Settled, Stands, Follows
<1>6. /\ ~(b.livekit /\ b.need) /\ Settled(b)
      /\ b.optional => b.phase # "failed"
      /\ b.up \/ b.snap \/ b.rearmSnap \/ b.joins > 0 \/ b.asked => b.seen
      /\ Follows(client, b) /\ (Stands(client) => Stands(b))
  BY <1>1 DEF Good, Loose, Rec, Typed, Fields, Settled, Stands, Follows
<1>7. Ages(client, a) /\ Ages(client, b)
  BY <1>1 DEF Good, Loose, Rec, Fields, Ages
<1> HIDE DEF a, b
<1>8. Fits(client, w)
  BY <1>1, <1>3, <1>4, <1>5, <1>6, <1>7, AgesOnward DEF Fits, Good, Loose
<1>9. Calm(w) \/ Calm(MarkMeaningfulRearm(v, TRUE)) \/ Calm(TryRearm(v))
  BY <1>2 DEF a, b
<1> HIDE DEF w
<1>10. Fits(w, v)
  <2>1. Good(w)
    BY <1>8 DEF Fits
  <2>2. Rec(v)
    BY <2>1, Zenon DEF Good, Loose, Rec
  <2>3. Typed(v)
    BY <2>1 DEF Good, Loose, Rec, Typed, Phases, Fields
  <2>4. /\ ~(v.livekit /\ v.need) /\ Settled(v)
        /\ v.optional => v.phase # "failed"
        /\ v.up \/ v.snap \/ v.rearmSnap \/ v.joins > 0 \/ v.asked => v.seen
        /\ Follows(w, v) /\ (Stands(w) => Stands(v))
    BY <2>1 DEF Good, Loose, Rec, Typed, Fields, Settled, Stands, Follows
  <2>5. Ages(w, v)
    BY <2>1 DEF Good, Loose, Rec, Fields, Ages
  <2> HIDE DEF v
  <2> QED BY <2>1, <2>2, <2>3, <2>4, <2>5, AgesOnward DEF Fits, Good, Loose
<1> HIDE DEF v
<1>11. Fits(client, MarkMeaningfulRearm(v, TRUE)) /\ Fits(client, TryRearm(v))
  BY <1>8, <1>10, MarkMeaningfulRearmFits, TryRearmFits, FitsOnward DEF Fits
<1> QED BY <1>8, <1>9, <1>11, FitsHeld, CalmKeeps

LEMMA BrowserKeeps ==
  ASSUME RecoveryInv, GoOffline \/ GoOnline \/ MicrophoneStalls
  PROVE  RecoveryInv'
<1> DEFINE w == [client EXCEPT !.online = FALSE]
<1>1. Good(client)
  BY DEF RecoveryInv
<1>2. Rec(w)
  BY <1>1, Zenon DEF Good, Loose, Rec
<1>3. Typed(w)
  BY <1>1 DEF Good, Loose, Rec, Typed, Phases, Fields
<1>4. /\ ~(w.livekit /\ w.need)
      /\ w.optional => w.phase # "failed"
      /\ w.up \/ w.snap \/ w.rearmSnap \/ w.joins > 0 \/ w.asked => w.seen
      /\ Follows(client, w) /\ (Stands(client) => Stands(w))
  BY <1>1 DEF Good, Loose, Rec, Typed, Fields, Stands, Follows
<1>5. Ages(client, w)
  BY <1>1 DEF Good, Loose, Rec, Fields, Ages
<1>6. \/ Fault("offline", BeginRecovery(w))
      \/ Calm(NetworkOnline(client))
      \/ client.phase = "healthy" /\ Fault("stall", RequestLiveKitReplacement(client))
  BY DEF GoOffline, GoOnline, MicrophoneStalls
<1> HIDE DEF w
<1>7. Loose(w)
  BY <1>1, <1>2, <1>3, <1>4, <1>5, AgesOnward DEF Good, Loose
<1>8. Fits(client, BeginRecovery(w))
  BY <1>4, <1>7, BeginRecoveryFits, FitsOnward
<1>9. Fits(client, NetworkOnline(client))
  BY <1>1, NetworkOnlineFits
<1>10. client.phase = "healthy" => Fits(client, RequestLiveKitReplacement(client))
  BY <1>1, RequestLiveKitReplacementFits
<1> QED BY <1>6, <1>8, <1>9, <1>10, FitsHeld, CalmKeeps, FaultKeeps

LEMMA InitRecovers == Init => RecoveryInv
<1> SUFFICES ASSUME Init PROVE RecoveryInv
  OBVIOUS
<1>1. PICK up \in BOOLEAN, seen \in BOOLEAN :
        /\ up => seen
        /\ client = [phase |-> "waiting-app-snapshot", epoch |-> 1, gen |-> 1, up |-> up,
             seen |-> seen, online |-> TRUE, snap |-> FALSE, livekit |-> FALSE, need |-> FALSE,
             optional |-> FALSE, abandoned |-> FALSE, attempts |-> 0, inFlight |-> FALSE,
             retry |-> 0, cool |-> 0, spare |-> {}, coolDone |-> FALSE, rearm |-> FALSE,
             rearmAsk |-> FALSE, rearmSnap |-> FALSE, tries |-> 0, asked |-> FALSE, key |-> 0,
             joins |-> IF up THEN 1 ELSE 0, queued |-> IF up THEN 0 ELSE 1,
             room |-> "connecting", runs |-> {}]
  BY DEF Init
<1>2. client \in Client
  BY <1>1, RecoveryAssumption DEF Client, Phases
<1>3. Rec(client) /\ Typed(client)
  BY <1>2, ClientIsTyped
<1>4. /\ ~(client.livekit /\ client.need) /\ Settled(client) /\ Aged(client)
      /\ client.optional => client.phase # "failed"
      /\ client.up \/ client.snap \/ client.rearmSnap \/ client.joins > 0 \/ client.asked
           => client.seen
      /\ Held(client)
  BY <1>1 DEF Settled, Aged, Held, Stands
<1>5. FaultsOK
  BY RecoveryAssumption DEF Init, FaultsOK
<1> QED BY <1>3, <1>4, <1>5 DEF RecoveryInv, Good, Loose

LEMMA NextRecovers == RecoveryInv /\ [Next]_vars => RecoveryInv'
<1> SUFFICES ASSUME RecoveryInv, [Next]_vars PROVE RecoveryInv'
  OBVIOUS
<1>1. CASE UNCHANGED vars
  BY <1>1 DEF vars, RecoveryInv, FaultsOK, Held, Good
<1>2. CASE Next
  BY <1>2, SocketLostKeeps, SocketOpensKeeps, JoinAnsweredKeeps, JoinFailsKeeps,
     ResyncAnsweredKeeps, ResyncRefusedKeeps, ResyncTimesOutKeeps, RoomKeeps, RoomDroppedKeeps,
     AttemptKeeps, RetryDueKeeps, CooldownOverKeeps, BrowserKeeps DEF Next
<1> QED BY <1>1, <1>2

\* The client keeps to its records: never more attempts than maxAttempts in a recovery.
THEOREM RecoveryTypes == Spec => []RecoveryTypeOK
<1>1. RecoveryInv => RecoveryTypeOK
  BY ClientIsTyped DEF RecoveryInv, Good, Loose, FaultsOK, RecoveryTypeOK
<1> QED BY <1>1, InitRecovers, NextRecovers, PTL DEF Spec

\* A call reported healthy waits for nothing, whatever was lost or asked for before.
THEOREM HealthySettles == Spec => []HealthyIsSettled
<1>1. RecoveryInv => HealthyIsSettled
  BY DEF RecoveryInv, Good, Settled, HealthyIsSettled
<1> QED BY <1>1, InitRecovers, NextRecovers, PTL DEF Spec

\* A healthy call, and one that only asked for a replacement, has its LiveKit room, unless
\* a connection fell between the commit of an attempt and its report.
THEOREM CallsStand == Spec => []CallStands
<1>1. RecoveryInv => CallStands
  BY DEF RecoveryInv, Good, Loose, Settled, Held, Stands, Standing, CallStands
<1> QED BY <1>1, InitRecovers, NextRecovers, PTL DEF Spec

-----------------------------------------------------------------------------
(* One attempt at a time.  An attempt of the current epoch that has not taken   *)
(* over is the one the controller waits for, and its recovery needs it: what    *)
(* calls a replacement off, or starts another, does so in a later epoch.        *)

Live(w, run) == ~run.done /\ run.epoch = w.epoch

Dated(w) == \A run \in w.runs : run.epoch <= w.epoch

Lone(w) == \A run \in w.runs : Live(w, run) => w.inFlight /\ run.gen = w.gen /\ w.need

\* A room that will be reconciled is one whose replacement is optional, if it is due.
Unsettled == {"connecting", "reconnecting", "reconciling"}
Covered(w) == w.room \in Unsettled /\ w.need => w.optional

\* As much of the types as this takes.
Shape(w) ==
  /\ Rec(w) /\ w.epoch \in Nat /\ w.gen \in Nat /\ \A run \in w.runs : run.epoch \in Nat
  /\ w.need \in BOOLEAN /\ w.livekit \in BOOLEAN /\ w.optional \in BOOLEAN
  /\ w.inFlight \in BOOLEAN /\ ~(w.livekit /\ w.need)

\* What a handler keeps; a replacement becomes optional only in an epoch of its own.
Onward(w, r) ==
  /\ Shape(r)
  /\ Dated(w) => /\ Dated(r)
                 /\ Lone(w) => Lone(r)
                 /\ r.optional /\ ~w.optional => Lone(r)
  /\ Covered(w) => Covered(r)

LEMMA OnwardOnward ==
  ASSUME NEW w, NEW v, NEW r, Onward(w, v), Onward(v, r)
  PROVE  Onward(w, r)
BY DEF Onward

LEMMA SelfOnward ==
  ASSUME NEW w, Shape(w)
  PROVE  Onward(w, w)
BY DEF Onward

\* Nothing of it changes.
Alike(w, r) ==
  /\ Rec(r) /\ r.runs = w.runs /\ r.epoch = w.epoch /\ r.gen = w.gen /\ r.inFlight = w.inFlight
  /\ r.need = w.need /\ r.livekit = w.livekit /\ r.optional = w.optional /\ r.room = w.room

LEMMA AlikeOnward ==
  ASSUME NEW w, NEW r, Shape(w), Alike(w, r)
  PROVE  Onward(w, r)
BY DEF Shape, Alike, Onward, Dated, Lone, Live, Covered

\* A new epoch begins: what still runs belongs to an older one.
Later(w, r) == r.runs = w.runs /\ r.epoch = w.epoch + 1

LEMMA LaterOnward ==
  ASSUME NEW w, NEW r, Shape(w), Shape(r), Later(w, r), Covered(w) => Covered(r)
  PROVE  Onward(w, r)
<1>1. \A run \in w.runs : run.epoch \in Nat
  BY DEF Shape
<1>2. w.epoch \in Nat
  BY DEF Shape
<1>3. ASSUME Dated(w) PROVE Dated(r) /\ Lone(r)
  BY <1>1, <1>2, <1>3 DEF Dated, Lone, Live, Later
<1> QED BY <1>3 DEF Onward

\* The replacement is called off when nothing runs that could still take over.
LEMMA QuietOnward ==
  ASSUME NEW w, NEW r, Shape(w), Shape(r), r.runs = w.runs, r.epoch = w.epoch,
         \/ ~w.need
         \/ \A run \in w.runs : run.gen # w.gen,
         r.optional => w.optional, Covered(w) => Covered(r)
  PROVE  Onward(w, r)
<1>1. Dated(w) => Dated(r)
  BY DEF Dated
<1>2. Lone(w) => Lone(r)
  BY DEF Lone, Live
<1> QED BY <1>1, <1>2 DEF Onward

LEMMA CompleteHealthyOnward ==
  ASSUME NEW w, Shape(w), ~w.need
  PROVE  Onward(w, CompleteHealthy(w))
<1> DEFINE r == CompleteHealthy(w)
<1>1. Rec(r)
  BY Zenon DEF Shape, CompleteHealthy, Rec
<1>2. /\ r.runs = w.runs /\ r.epoch = w.epoch /\ r.gen = w.gen + 1 /\ r.inFlight = FALSE
      /\ r.need = w.need /\ r.livekit = w.livekit /\ r.optional = FALSE
  BY DEF Shape, CompleteHealthy, Rec, Fields
<1> HIDE DEF r
<1>3. r.gen \in Nat
  BY <1>2 DEF Shape
<1>4. Shape(r)
  BY <1>1, <1>2, <1>3, Zenon DEF Shape
<1>5. Covered(r)
  BY <1>2 DEF Covered
<1> QED BY <1>2, <1>4, <1>5, QuietOnward DEF r

LEMMA KeepStandingOnward ==
  ASSUME NEW w, Shape(w)
  PROVE  Onward(w, KeepStandingConnection(w))
<1> DEFINE v == [w EXCEPT !.retry = 0, !.gen = @ + 1, !.epoch = @ + 1, !.inFlight = FALSE,
                     !.optional = FALSE, !.abandoned = TRUE, !.need = FALSE,
                     !.livekit = TRUE, !.attempts = 0]
           a == [v EXCEPT !.snap = TRUE]
           b == SetPhase(v, "waiting-app-snapshot")
<1>1. Rec(v)
  BY Zenon DEF Shape, Rec
<1>2. /\ v.runs = w.runs /\ v.epoch = w.epoch + 1 /\ v.gen = w.gen + 1 /\ v.inFlight = FALSE
      /\ v.need = FALSE /\ v.livekit = TRUE /\ v.optional = FALSE
  BY DEF Shape, Rec, Fields
<1> HIDE DEF v
<1>a. v.gen \in Nat /\ v.epoch \in Nat
  BY <1>2 DEF Shape
<1>b. FALSE \in BOOLEAN /\ TRUE \in BOOLEAN
  OBVIOUS
<1>3. Shape(v) /\ Covered(v)
  BY <1>1, <1>2, <1>a, <1>b, Zenon DEF Shape, Covered
<1>4. Onward(w, v)
  BY <1>2, <1>3, LaterOnward DEF Later
<1>5. Rec(a) /\ Rec(b)
  BY <1>1, Zenon DEF Rec, SetPhase
<1>6. Alike(v, a) /\ Alike(v, b)
  BY <1>1, <1>5 DEF Rec, Fields, Alike, SetPhase
<1> HIDE DEF a, b
<1>7. Onward(v, a) /\ Onward(v, b) /\ ~a.need
  BY <1>2, <1>3, <1>6, AlikeOnward DEF Alike
<1>8. Onward(v, CompleteHealthy(a))
  BY <1>7, CompleteHealthyOnward, OnwardOnward DEF Onward
<1>9. Onward(w, CompleteHealthy(a)) /\ Onward(w, b)
  BY <1>4, <1>7, <1>8, OnwardOnward
<1> QED BY <1>9 DEF KeepStandingConnection, v, a, b

\* A handler that changes nothing of it: what it takes is only that its state is a record.
LEMMA ForgetOnward ==
  ASSUME NEW w, Shape(w)
  PROVE  /\ Onward(w, Forget(w)) /\ Onward(w, ClearActiveResync(w))
         /\ Onward(w, SendActiveResyncAttempt(w))
<1> DEFINE v == [Forget(w) EXCEPT !.tries = @ + 1]
           a == [v EXCEPT !.asked = TRUE]
           b == [v EXCEPT !.queued = @ + 1]
<1>1. Rec(Forget(w)) /\ Rec(ClearActiveResync(w)) /\ Rec(a) /\ Rec(b)
  BY Zenon DEF Shape, Rec, Forget, ClearActiveResync
<1>2. Alike(w, Forget(w)) /\ Alike(w, ClearActiveResync(w))
  BY <1>1 DEF Shape, Rec, Fields, Alike, Forget, ClearActiveResync
<1>3. Alike(w, a) /\ Alike(w, b)
  BY <1>1 DEF Shape, Rec, Fields, Alike, Forget
<1> HIDE DEF a, b
<1>4. Onward(w, a) /\ Onward(w, b)
  BY <1>3, AlikeOnward
<1> QED BY <1>2, <1>4, AlikeOnward DEF SendActiveResyncAttempt, a, b

LEMMA FailOnward ==
  ASSUME NEW w, Shape(w)
  PROVE  Onward(w, Fail(w))
<1> DEFINE a == [w EXCEPT !.retry = 0, !.phase = "failed"]
<1>1. Rec(a)
  BY Zenon DEF Shape, Rec
<1>2. Alike(w, a)
  BY <1>1 DEF Shape, Rec, Fields, Alike
<1> HIDE DEF a
<1> QED BY <1>2, AlikeOnward, KeepStandingOnward DEF Fail, a

LEMMA EnterCooldownOnward ==
  ASSUME NEW w, Shape(w)
  PROVE  Onward(w, EnterCooldown(w))
<1> DEFINE f == Fail(w)
           a == [f EXCEPT !.coolDone = FALSE, !.rearm = FALSE, !.rearmAsk = FALSE,
                          !.rearmSnap = FALSE, !.spare = @ \cup ({w.cool} \ {0}),
                          !.cool = w.epoch]
<1>1. Onward(w, f) /\ Shape(f)
  BY FailOnward DEF Onward
<1> HIDE DEF f
<1>2. Rec(a)
  BY <1>1, Zenon DEF Shape, Rec
<1>3. Alike(f, a)
  BY <1>1, <1>2 DEF Shape, Rec, Fields, Alike
<1> HIDE DEF a
<1>4. Onward(w, a)
  BY <1>1, <1>3, AlikeOnward, OnwardOnward
<1> QED BY <1>1, <1>4 DEF EnterCooldown, a, f

LEMMA AppSnapshotRequestFailedOnward ==
  ASSUME NEW w, Shape(w), NEW retryable
  PROVE  Onward(w, AppSnapshotRequestFailed(w, retryable))
<1> DEFINE a == [w EXCEPT !.abandoned = FALSE]
<1>1. Rec(a)
  BY Zenon DEF Shape, Rec
<1>2. Alike(w, a)
  BY <1>1 DEF Shape, Rec, Fields, Alike
<1> HIDE DEF a
<1> QED BY <1>2, AlikeOnward, FailOnward, EnterCooldownOnward DEF AppSnapshotRequestFailed, a

LEMMA RequestSnapshotOnward ==
  ASSUME NEW w, Shape(w)
  PROVE  Onward(w, RequestSnapshot(w))
<1> DEFINE v == [w EXCEPT !.abandoned = FALSE]
           c == ClearActiveResync(v)
           k == [c EXCEPT !.key = w.epoch]
<1>1. Rec(v)
  BY Zenon DEF Shape, Rec
<1>2. Alike(w, v)
  BY <1>1 DEF Shape, Rec, Fields, Alike
<1> HIDE DEF v
<1>3. Onward(w, v) /\ Shape(v)
  BY <1>2, AlikeOnward DEF Onward
<1>4. Onward(w, c) /\ Shape(c)
  BY <1>3, ForgetOnward, OnwardOnward DEF Onward
<1> HIDE DEF c
<1>5. Rec(k)
  BY <1>4, Zenon DEF Shape, Rec
<1>6. Alike(c, k)
  BY <1>4, <1>5 DEF Shape, Rec, Fields, Alike
<1> HIDE DEF k
<1>7. Onward(w, k) /\ Shape(k)
  BY <1>4, <1>6, AlikeOnward, OnwardOnward DEF Onward
<1>8. Onward(w, SendActiveResyncAttempt(k))
  BY <1>7, ForgetOnward, OnwardOnward
<1>9. Onward(w, AppSnapshotRequestFailed(v, TRUE))
  BY <1>3, AppSnapshotRequestFailedOnward, OnwardOnward
<1> QED BY <1>8, <1>9, SelfOnward DEF RequestSnapshot, v, c, k

\* An attempt begins when none of its recovery is in flight.
LEMMA MaybeAttemptOnward ==
  ASSUME NEW w, Shape(w)
  PROVE  Onward(w, MaybeAttempt(w))
<1> DEFINE new == [epoch |-> w.epoch, gen |-> w.gen + 1, done |-> FALSE, base |-> TRUE]
           r == [w EXCEPT !.gen = @ + 1, !.attempts = @ + 1, !.inFlight = TRUE,
                          !.phase = "waiting-livekit",
                          !.room = IF @ = "reconciling" THEN "up" ELSE @,
                          !.runs = @ \cup {new}]
<1>1. Rec(r)
  BY Zenon DEF Shape, Rec
<1>2. new.epoch = w.epoch /\ new.gen = w.gen + 1
  OBVIOUS
<1> HIDE DEF new
<1>3. /\ r.runs = w.runs \cup {new} /\ r.epoch = w.epoch /\ r.gen = w.gen + 1
      /\ r.inFlight = TRUE /\ r.need = w.need /\ r.livekit = w.livekit
      /\ r.optional = w.optional
      /\ r.room = IF w.room = "reconciling" THEN "up" ELSE w.room
  BY DEF Shape, Rec, Fields
<1> HIDE DEF r
<1>4. r.gen \in Nat /\ w.epoch \in Nat
  BY <1>3 DEF Shape
<1>5. Shape(r)
  BY <1>1, <1>2, <1>3, <1>4 DEF Shape
<1>6. Dated(w) => Dated(r)
  BY <1>2, <1>3, <1>4 DEF Dated
<1>7. Lone(w) /\ ~w.inFlight /\ w.need => Lone(r)
  BY <1>2, <1>3 DEF Lone, Live
<1>8. Covered(w) => Covered(r)
  BY <1>3 DEF Covered, Unsettled
<1>9. ~w.inFlight /\ w.need => Onward(w, r)
  BY <1>3, <1>5, <1>6, <1>7, <1>8 DEF Onward
<1> QED BY <1>9, SelfOnward, EnterCooldownOnward DEF MaybeAttempt, r, new

LEMMA TryRearmOnward ==
  ASSUME NEW w, Shape(w)
  PROVE  Onward(w, TryRearm(w))
<1> DEFINE v == [w EXCEPT !.gen = @ + 1, !.epoch = @ + 1, !.attempts = 0,
                     !.snap = w.rearmSnap, !.coolDone = FALSE, !.rearm = FALSE,
                     !.rearmAsk = FALSE, !.rearmSnap = FALSE,
                     !.phase = "waiting-app-snapshot"]
<1>1. Rec(v)
  BY Zenon DEF Shape, Rec
<1>2. /\ v.runs = w.runs /\ v.epoch = w.epoch + 1 /\ v.gen = w.gen + 1
      /\ v.inFlight = w.inFlight /\ v.need = w.need /\ v.livekit = w.livekit
      /\ v.optional = w.optional /\ v.room = w.room
  BY DEF Shape, Rec, Fields
<1> HIDE DEF v
<1>3. v.gen \in Nat /\ v.epoch \in Nat
  BY <1>2 DEF Shape
<1>4. Shape(v) /\ (Covered(w) => Covered(v))
  BY <1>1, <1>2, <1>3, Zenon DEF Shape, Covered
<1>5. Onward(w, v)
  BY <1>2, <1>4, LaterOnward DEF Later
<1>6. Onward(w, MaybeAttempt(v)) /\ Onward(w, RequestSnapshot(v))
  BY <1>4, <1>5, MaybeAttemptOnward, RequestSnapshotOnward, OnwardOnward
<1> QED BY <1>5, <1>6, SelfOnward DEF TryRearm, v

LEMMA MarkMeaningfulRearmOnward ==
  ASSUME NEW w, Shape(w), NEW ask
  PROVE  Onward(w, MarkMeaningfulRearm(w, ask))
<1> DEFINE v == [w EXCEPT !.rearm = TRUE, !.rearmAsk = @ \/ ask]
<1>1. Rec(v)
  BY Zenon DEF Shape, Rec
<1>2. Alike(w, v)
  BY <1>1 DEF Shape, Rec, Fields, Alike
<1> HIDE DEF v
<1>3. Onward(w, v) /\ Shape(v)
  BY <1>2, AlikeOnward DEF Onward
<1>4. Onward(w, TryRearm(v))
  BY <1>3, TryRearmOnward, OnwardOnward
<1> QED BY <1>4 DEF MarkMeaningfulRearm, v

\* A recovery of a healthy call begins in an epoch of its own.
LEMMA BeginRecoveryOnward ==
  ASSUME NEW w, Shape(w), NEW phase
  PROVE  /\ Onward(w, BeginRecovery(w)) /\ Onward(w, SetPhase(BeginRecovery(w), phase))
         /\ w.phase = "healthy" => /\ Later(w, BeginRecovery(w))
                                   /\ Later(w, SetPhase(BeginRecovery(w), phase))
<1> DEFINE h == [w EXCEPT !.epoch = @ + 1, !.gen = @ + 1, !.attempts = 0]
           v == IF w.phase = "healthy" THEN h ELSE w
           b == BeginRecovery(w)
<1>1. Rec(h)
  BY Zenon DEF Shape, Rec
<1>2. /\ h.runs = w.runs /\ h.epoch = w.epoch + 1 /\ h.gen = w.gen + 1
      /\ h.inFlight = w.inFlight /\ h.need = w.need /\ h.livekit = w.livekit
      /\ h.optional = w.optional /\ h.room = w.room
  BY DEF Shape, Rec, Fields
<1> HIDE DEF h
<1>3. h.gen \in Nat /\ h.epoch \in Nat
  BY <1>2 DEF Shape
<1>4. Shape(h) /\ (Covered(w) => Covered(h))
  BY <1>1, <1>2, <1>3, Zenon DEF Shape, Covered
<1>5. Onward(w, h)
  BY <1>2, <1>4, LaterOnward DEF Later
<1>6. Onward(w, v) /\ (w.phase = "healthy" => Later(w, v)) /\ Shape(v)
  BY <1>2, <1>4, <1>5, SelfOnward DEF Later
<1> HIDE DEF v
<1>7. ASSUME NEW u, Shape(u), NEW p
      PROVE  Alike(u, SetPhase(u, p))
  <2>1. Rec(SetPhase(u, p))
    BY <1>7, Zenon DEF Shape, Rec, SetPhase
  <2> QED BY <1>7, <2>1 DEF Shape, Rec, Fields, Alike, SetPhase
<1>8. b = v \/ b = SetPhase(v, "recovering")
  BY DEF BeginRecovery, b, v, h
<1> HIDE DEF b
<1>9. (b = v \/ Alike(v, b)) /\ Onward(v, b) /\ Shape(b)
  BY <1>6, <1>7, <1>8, AlikeOnward, SelfOnward DEF Onward
<1>10. Alike(b, SetPhase(b, phase)) /\ Onward(b, SetPhase(b, phase))
  BY <1>7, <1>9, AlikeOnward
<1>11. Onward(w, b) /\ Onward(w, SetPhase(b, phase))
  BY <1>6, <1>9, <1>10, OnwardOnward
<1>12. w.phase = "healthy" => Later(w, b) /\ Later(w, SetPhase(b, phase))
  BY <1>6, <1>9, <1>10 DEF Alike, Later
<1> QED BY <1>11, <1>12 DEF b

\* Only the attempt in flight is heard, and with it nothing is left that could take over.
LEMMA FinishAttemptOnward ==
  ASSUME NEW w, Shape(w), NEW run,
         run.gen = w.gen => \A other \in w.runs : other.gen # run.gen,
         NEW outcome \in {"ok", "terminal", "retryable"}
  PROVE  Onward(w, FinishAttempt(w, run, outcome))
<1> DEFINE v == [w EXCEPT !.inFlight = FALSE]
           ok == [v EXCEPT !.livekit = TRUE, !.need = FALSE]
           due == [v EXCEPT !.retry = w.epoch]
           waits == SetPhase(ok, "waiting-app-snapshot")
<1>1. Rec(v) /\ Rec(ok) /\ Rec(due) /\ Rec(waits)
  BY Zenon DEF Shape, Rec, SetPhase
<1>2. /\ v.runs = w.runs /\ v.epoch = w.epoch /\ v.gen = w.gen /\ v.inFlight = FALSE
      /\ v.need = w.need /\ v.livekit = w.livekit /\ v.optional = w.optional
      /\ v.room = w.room
  BY DEF Shape, Rec, Fields
<1>3. /\ ok.runs = w.runs /\ ok.epoch = w.epoch /\ ok.gen = w.gen /\ ok.inFlight = FALSE
      /\ ok.need = FALSE /\ ok.livekit = TRUE /\ ok.optional = w.optional
  BY DEF Shape, Rec, Fields
<1> HIDE DEF v, ok
<1>4. Alike(v, due) /\ Alike(ok, waits)
  BY <1>1 DEF Rec, Fields, Alike, SetPhase
<1> HIDE DEF due, waits
<1>5. FALSE \in BOOLEAN /\ TRUE \in BOOLEAN
  OBVIOUS
<1>6. Shape(v) /\ (Covered(w) => Covered(v))
  BY <1>1, <1>2, <1>5, Zenon DEF Shape, Covered
<1>7. Shape(ok) /\ Covered(ok) /\ ~ok.need
  BY <1>1, <1>3, <1>5, Zenon DEF Shape, Covered
<1>8. run.gen = w.gen => Onward(w, v) /\ Onward(w, ok)
  BY <1>2, <1>3, <1>6, <1>7, QuietOnward
<1>9. run.gen = w.gen => Onward(w, due) /\ Onward(w, waits)
  BY <1>4, <1>6, <1>7, <1>8, AlikeOnward, OnwardOnward
<1>10. run.gen = w.gen => /\ Onward(w, Fail(v)) /\ Onward(w, EnterCooldown(v))
                          /\ Onward(w, CompleteHealthy(ok))
  BY <1>6, <1>7, <1>8, FailOnward, EnterCooldownOnward, CompleteHealthyOnward, OnwardOnward
<1>11. FinishAttempt(w, run, outcome) =
        IF ~IsCurrent(w, run.epoch) \/ run.gen # w.gen THEN w
        ELSE CASE outcome = "ok" -> IF w.snap THEN CompleteHealthy(ok) ELSE waits
               [] outcome = "terminal" -> Fail(v)
               [] outcome = "retryable" ->
                    IF w.attempts >= MaxAttempts THEN EnterCooldown(v) ELSE due
  BY DEF FinishAttempt, v, ok, due, waits
<1>12. CASE ~IsCurrent(w, run.epoch) \/ run.gen # w.gen
  BY <1>11, <1>12, SelfOnward
<1>13. CASE IsCurrent(w, run.epoch) /\ run.gen = w.gen
  BY <1>9, <1>10, <1>11, <1>13
<1> QED BY <1>12, <1>13

LEMMA AppWsLostOnward ==
  ASSUME NEW w, Shape(w)
  PROVE  Onward(w, AppWsLost(w))
<1> DEFINE v == [w EXCEPT !.up = FALSE, !.snap = FALSE]
           k == IF v.optional THEN KeepStandingConnection(v) ELSE v
           s == [k EXCEPT !.retry = 0, !.gen = @ + 1, !.inFlight = FALSE, !.epoch = @ + 1]
           l == IF k.phase = "healthy" THEN k ELSE s
<1>1. Rec(v)
  BY Zenon DEF Shape, Rec
<1>2. Alike(w, v)
  BY <1>1 DEF Shape, Rec, Fields, Alike
<1> HIDE DEF v
<1>3. Onward(w, v) /\ Shape(v)
  BY <1>2, AlikeOnward DEF Onward
<1>4. Onward(w, k) /\ Shape(k)
  BY <1>3, KeepStandingOnward, OnwardOnward DEF Onward
<1> HIDE DEF k
<1>5. Rec(s)
  BY <1>4, Zenon DEF Shape, Rec
<1>6. /\ s.runs = k.runs /\ s.epoch = k.epoch + 1 /\ s.gen = k.gen + 1 /\ s.inFlight = FALSE
      /\ s.need = k.need /\ s.livekit = k.livekit /\ s.optional = k.optional
      /\ s.room = k.room
  BY <1>4 DEF Shape, Rec, Fields
<1> HIDE DEF s
<1>7. s.gen \in Nat /\ s.epoch \in Nat /\ FALSE \in BOOLEAN
  BY <1>4, <1>6 DEF Shape
<1>8. Shape(s) /\ (Covered(k) => Covered(s))
  BY <1>4, <1>5, <1>6, <1>7, Zenon DEF Shape, Covered
<1>9. Onward(k, s)
  BY <1>4, <1>6, <1>8, LaterOnward DEF Later
<1>10. Onward(w, l) /\ Shape(l)
  BY <1>4, <1>8, <1>9, OnwardOnward
<1> HIDE DEF l
<1>11. Onward(w, SetPhase(BeginRecovery(l), "waiting-app-snapshot"))
  BY <1>10, BeginRecoveryOnward, OnwardOnward
<1> QED BY <1>3, <1>11 DEF AppWsLost, v, k, s, l

LEMMA AppWsRestoredOnward ==
  ASSUME NEW w, Shape(w)
  PROVE  Onward(w, AppWsRestored(w))
<1> DEFINE v == [w EXCEPT !.up = TRUE, !.snap = FALSE, !.seen = TRUE]
<1>1. Rec(v)
  BY Zenon DEF Shape, Rec
<1>2. Alike(w, v)
  BY <1>1 DEF Shape, Rec, Fields, Alike
<1> HIDE DEF v
<1>3. Onward(w, v) /\ Shape(v)
  BY <1>2, AlikeOnward DEF Onward
<1>4. /\ Onward(w, MarkMeaningfulRearm(v, FALSE))
      /\ Onward(w, SetPhase(BeginRecovery(v), "waiting-app-snapshot"))
  BY <1>3, MarkMeaningfulRearmOnward, BeginRecoveryOnward, OnwardOnward
<1> QED BY <1>3, <1>4 DEF AppWsRestored, v

LEMMA AppSnapshotAppliedOnward ==
  ASSUME NEW w, Shape(w), NEW mine
  PROVE  Onward(w, AppSnapshotApplied(w, mine))
<1> DEFINE v == [w EXCEPT !.snap = TRUE]
           f == [v EXCEPT !.rearmSnap = @ \/ w.rearm]
           l == SetPhase(v, "waiting-livekit")
<1>1. Rec(v) /\ Rec(f) /\ Rec(l)
  BY Zenon DEF Shape, Rec, SetPhase
<1>2. Alike(w, v) /\ Alike(w, f) /\ Alike(w, l)
  BY <1>1 DEF Shape, Rec, Fields, Alike, SetPhase
<1> HIDE DEF v, f, l
<1>3. Onward(w, v) /\ Onward(w, f) /\ Onward(w, l) /\ Shape(v) /\ Shape(f)
  BY <1>2, AlikeOnward DEF Onward
<1>4. w.livekit => ~v.need
  BY <1>2 DEF Shape, Alike
<1>5. w.livekit => Onward(w, CompleteHealthy(v))
  BY <1>3, <1>4, CompleteHealthyOnward, OnwardOnward
<1>6. Onward(w, TryRearm(f)) /\ Onward(w, MaybeAttempt(v))
  BY <1>3, TryRearmOnward, MaybeAttemptOnward, OnwardOnward
<1>7. Onward(w, KeepStandingConnection(w)) /\ Onward(w, w)
  BY KeepStandingOnward, SelfOnward
<1>8. AppSnapshotApplied(w, mine) =
         IF ~mine THEN IF w.optional THEN KeepStandingConnection(w) ELSE w
         ELSE IF w.phase = "failed" THEN TryRearm(f)
         ELSE IF w.livekit THEN CompleteHealthy(v)
         ELSE IF w.need THEN MaybeAttempt(v)
         ELSE l
  BY DEF AppSnapshotApplied, v, f, l
<1> QED BY <1>3, <1>5, <1>6, <1>7, <1>8

LEMMA LivekitReconnectingOnward ==
  ASSUME NEW w, Shape(w)
  PROVE  Onward(w, LivekitReconnecting(w))
<1> DEFINE v == [w EXCEPT !.livekit = FALSE]
<1>1. Rec(v)
  BY Zenon DEF Shape, Rec
<1>2. /\ v.runs = w.runs /\ v.epoch = w.epoch /\ v.gen = w.gen /\ v.inFlight = w.inFlight
      /\ v.need = w.need /\ v.livekit = FALSE /\ v.optional = w.optional /\ v.room = w.room
  BY DEF Shape, Rec, Fields
<1> HIDE DEF v
<1>3. FALSE \in BOOLEAN
  OBVIOUS
<1>4. Shape(v)
  BY <1>1, <1>2, <1>3, Zenon DEF Shape
<1>5. Onward(w, v)
  BY <1>2, <1>4 DEF Onward, Dated, Lone, Live, Covered
<1>6. Onward(w, SetPhase(BeginRecovery(v), "waiting-livekit"))
  BY <1>4, <1>5, BeginRecoveryOnward, OnwardOnward
<1> QED BY <1>6 DEF LivekitReconnecting, v

\* A reconciliation may call off, in its epoch, a replacement that is due and under way:
\* it is onward only where none is due.
LEMMA LivekitReconciledOnward ==
  ASSUME NEW w, Shape(w)
  PROVE  /\ (w.need => w.optional) => Onward(w, LivekitReconciled(w))
         /\ ~w.optional /\ Dated(w) => /\ Dated(LivekitReconciled(w))
                                       /\ ~LivekitReconciled(w).optional
<1> DEFINE v == [w EXCEPT !.gen = @ + 1, !.retry = 0, !.inFlight = FALSE,
                     !.livekit = TRUE, !.need = FALSE]
           r == LivekitReconciled(w)
<1>1. Rec(v)
  BY Zenon DEF Shape, Rec
<1>2. /\ v.runs = w.runs /\ v.epoch = w.epoch /\ v.gen = w.gen + 1 /\ v.inFlight = FALSE
      /\ v.need = FALSE /\ v.livekit = TRUE /\ v.optional = w.optional
  BY DEF Shape, Rec, Fields
<1>3. r = IF w.optional THEN KeepStandingConnection(w)
          ELSE IF w.snap THEN CompleteHealthy(v) ELSE v
  BY DEF LivekitReconciled
<1> HIDE DEF v, r
<1>4. v.gen \in Nat /\ FALSE \in BOOLEAN /\ TRUE \in BOOLEAN
  BY <1>2 DEF Shape
<1>5. Shape(v) /\ Covered(v) /\ ~v.need
  BY <1>1, <1>2, <1>4, Zenon DEF Shape, Covered
<1>6. Onward(v, CompleteHealthy(v)) /\ Dated(v) = Dated(w)
  BY <1>2, <1>5, CompleteHealthyOnward DEF Dated
<1>7. CompleteHealthy(v).optional = FALSE
  BY <1>1 DEF CompleteHealthy, Rec, Fields
<1>8. ~w.optional /\ Dated(w) => Dated(r) /\ ~r.optional
  BY <1>2, <1>3, <1>6, <1>7 DEF Onward
<1>9. ~w.need => Onward(w, v)
  BY <1>2, <1>5, QuietOnward
<1>10. ~w.need => Onward(w, CompleteHealthy(v))
  BY <1>6, <1>9, OnwardOnward
<1>11. (w.need => w.optional) => Onward(w, r)
  BY <1>3, <1>9, <1>10, KeepStandingOnward
<1> QED BY <1>8, <1>11 DEF r

LEMMA LivekitDisconnectedOnward ==
  ASSUME NEW w, Shape(w), w.room \notin Unsettled
  PROVE  Onward(w, LivekitDisconnected(w))
<1> DEFINE v == [w EXCEPT !.optional = FALSE, !.livekit = FALSE, !.need = TRUE]
           e == [v EXCEPT !.epoch = IF w.optional THEN @ + 1 ELSE @, !.snap = FALSE]
           b == SetPhase(BeginRecovery(e), "waiting-app-snapshot")
<1>1. Rec(v) /\ Rec(e)
  BY Zenon DEF Shape, Rec
<1>2. /\ v.runs = w.runs /\ v.epoch = w.epoch /\ v.gen = w.gen /\ v.inFlight = w.inFlight
      /\ v.need = TRUE /\ v.livekit = FALSE /\ v.optional = FALSE /\ v.room = w.room
  BY DEF Shape, Rec, Fields
<1>3. /\ e.runs = w.runs /\ e.gen = w.gen /\ e.inFlight = w.inFlight
      /\ e.epoch = IF w.optional THEN w.epoch + 1 ELSE w.epoch
      /\ e.need = TRUE /\ e.livekit = FALSE /\ e.optional = FALSE /\ e.room = w.room
  BY DEF Shape, Rec, Fields
<1> HIDE DEF v, e
<1>4. e.epoch \in Nat /\ FALSE \in BOOLEAN /\ TRUE \in BOOLEAN
  BY <1>3 DEF Shape
<1>5. Shape(v) /\ Covered(v) /\ Shape(e) /\ Covered(e)
  BY <1>1, <1>2, <1>3, <1>4, Zenon DEF Shape, Covered
<1>6. w.need => Onward(w, v)
  BY <1>2, <1>5 DEF Onward, Dated, Lone, Live
<1>7. w.optional => Onward(w, e)
  BY <1>3, <1>5, LaterOnward DEF Later
<1>8. ~w.optional => Onward(w, e)
  BY <1>3, <1>5 DEF Onward, Dated, Lone, Live
<1>9. Onward(w, b) /\ Shape(b)
  BY <1>5, <1>7, <1>8, BeginRecoveryOnward, OnwardOnward DEF Onward
<1> HIDE DEF b
<1>10. Onward(w, RequestSnapshot(b))
  BY <1>9, RequestSnapshotOnward, OnwardOnward
<1> QED BY <1>6, <1>10 DEF LivekitDisconnected, v, e, b

LEMMA RequestLiveKitReplacementOnward ==
  ASSUME NEW w, Shape(w), w.phase = "healthy"
  PROVE  Onward(w, RequestLiveKitReplacement(w))
<1> DEFINE v == [w EXCEPT !.optional = TRUE, !.livekit = FALSE, !.need = TRUE, !.snap = FALSE]
           b == SetPhase(BeginRecovery(v), "waiting-app-snapshot")
<1>1. Rec(v)
  BY Zenon DEF Shape, Rec
<1>2. /\ v.runs = w.runs /\ v.epoch = w.epoch /\ v.gen = w.gen /\ v.inFlight = w.inFlight
      /\ v.need = TRUE /\ v.livekit = FALSE /\ v.optional = TRUE /\ v.phase = "healthy"
  BY DEF Shape, Rec, Fields
<1> HIDE DEF v
<1>3. FALSE \in BOOLEAN /\ TRUE \in BOOLEAN
  OBVIOUS
<1>4. Shape(v) /\ Covered(v)
  BY <1>1, <1>2, <1>3, Zenon DEF Shape, Covered
<1>5. Later(v, b) /\ Shape(b) /\ Covered(b)
  BY <1>2, <1>4, BeginRecoveryOnward DEF Onward
<1> HIDE DEF b
<1>6. Onward(w, b)
  BY <1>2, <1>5, LaterOnward DEF Later
<1>7. Onward(w, RequestSnapshot(b))
  BY <1>5, <1>6, RequestSnapshotOnward, OnwardOnward
<1> QED BY <1>7 DEF RequestLiveKitReplacement, v, b

LEMMA NetworkOnlineOnward ==
  ASSUME NEW w, Shape(w)
  PROVE  Onward(w, NetworkOnline(w))
<1> DEFINE v == [w EXCEPT !.online = TRUE]
           s == SetPhase([v EXCEPT !.snap = FALSE], "waiting-app-snapshot")
<1>1. Rec(v) /\ Rec(s)
  BY Zenon DEF Shape, Rec, SetPhase
<1>2. Alike(w, v) /\ Alike(w, s)
  BY <1>1 DEF Shape, Rec, Fields, Alike, SetPhase
<1> HIDE DEF v, s
<1>3. Onward(w, v) /\ Onward(w, s) /\ Shape(v) /\ Shape(s) /\ v.need = w.need
  BY <1>2, AlikeOnward DEF Onward, Alike
<1>4. /\ Onward(w, MarkMeaningfulRearm(v, TRUE)) /\ Onward(w, RequestSnapshot(s))
      /\ ~w.need => Onward(w, CompleteHealthy(v))
  BY <1>3, MarkMeaningfulRearmOnward, RequestSnapshotOnward, CompleteHealthyOnward,
     OnwardOnward
<1>5. NetworkOnline(w) =
         IF w.phase = "failed" THEN MarkMeaningfulRearm(v, TRUE)
         ELSE IF w.phase = "recovering" /\ ~w.need /\ w.livekit /\ w.snap THEN CompleteHealthy(v)
         ELSE IF w.need THEN RequestSnapshot(s)
         ELSE v
  BY DEF NetworkOnline, v, s
<1> QED BY <1>3, <1>4, <1>5

\* The steps.  While the replacement is optional or LiveKit has reconnected no room whose
\* replacement is due, the attempt in flight is alone.
LoneInv ==
  /\ Dated(client)
  /\ client.optional \/ "due" \notin faults.kinds => Lone(client)
  /\ "due" \notin faults.kinds => Covered(client)

Proceeds == LoneInv' /\ (client.optional => Lone(client)')

LEMMA OnwardProceeds ==
  ASSUME LoneInv, NEW w, NEW kind, Onward(client, w), Calm(w) \/ Fault(kind, w)
  PROVE  Proceeds
<1>1. client' = w /\ ("due" \notin faults'.kinds => "due" \notin faults.kinds)
  BY DEF Calm, Fault
<1>2. /\ Dated(client)' <=> Dated(w)
      /\ Lone(client)' <=> Lone(w)
      /\ Covered(client)' <=> Covered(w)
  BY <1>1 DEF Dated, Lone, Live, Covered
<1> QED BY <1>1, <1>2 DEF LoneInv, Proceeds, Onward

\* The room goes from one of its states to another.
LEMMA RoomOnward ==
  ASSUME NEW w, Shape(w), NEW room
  PROVE  /\ Shape([w EXCEPT !.room = room])
         /\ room \notin Unsettled \/ (w.need => w.optional)
              => Onward(w, [w EXCEPT !.room = room])
         /\ [w EXCEPT !.room = room].need = w.need
         /\ [w EXCEPT !.room = room].optional = w.optional
         /\ [w EXCEPT !.room = room].room = room
         /\ Dated(w) => Dated([w EXCEPT !.room = room])
<1> DEFINE r == [w EXCEPT !.room = room]
<1>1. Rec(r)
  BY Zenon DEF Shape, Rec
<1>2. /\ r.runs = w.runs /\ r.epoch = w.epoch /\ r.gen = w.gen /\ r.inFlight = w.inFlight
      /\ r.need = w.need /\ r.livekit = w.livekit /\ r.optional = w.optional /\ r.room = room
  BY DEF Shape, Rec, Fields
<1> HIDE DEF r
<1>3. Shape(r)
  BY <1>1, <1>2, Zenon DEF Shape
<1>4. (Dated(w) => Dated(r)) /\ (Lone(w) => Lone(r))
  BY <1>2 DEF Dated, Lone, Live
<1>5. room \notin Unsettled \/ (w.need => w.optional) => Onward(w, r)
  BY <1>2, <1>3, <1>4 DEF Onward, Covered
<1> QED BY <1>2, <1>3, <1>4, <1>5 DEF r

\* LiveKit's own reconnection and reconciliation.
LEMMA RoomProceeds ==
  ASSUME RecoveryInv, LoneInv,
         RoomJoined \/ RoomReconnecting \/ RoomReconnected \/ RoomReconciled \/ ReconcileFails
         \/ RoomDropped
  PROVE  Proceeds
<1> DEFINE up == [client EXCEPT !.room = "up"]
           re == [client EXCEPT !.room = "reconnecting"]
           ing == [client EXCEPT !.room = "reconciling"]
           down == [client EXCEPT !.room = "down"]
           due == client.need /\ ~client.optional
<1>1. Shape(client)
  BY DEF RecoveryInv, Good, Loose, Typed, Shape, Run
<1>2. /\ Onward(client, up) /\ Onward(client, down) /\ down.room \notin Unsettled
      /\ Shape(up) /\ Shape(re) /\ Shape(ing) /\ Shape(down)
      /\ ~due => Onward(client, re) /\ Onward(client, ing)
      /\ up.need = client.need /\ up.optional = client.optional
      /\ re.optional = client.optional /\ ing.optional = client.optional
      /\ Dated(up) /\ Dated(re) /\ Dated(ing)
  BY <1>1, RoomOnward DEF Unsettled, LoneInv
<1> HIDE DEF up, re, ing, down
<1>3. CASE RoomReconnecting
  <2> DEFINE r == LivekitReconnecting(re)
  <2>1. Fault(IF due THEN "due" ELSE "livekit", r)
    BY <1>3 DEF RoomReconnecting, re
  <2>2. Onward(re, r)
    BY <1>2, LivekitReconnectingOnward
  <2> HIDE DEF r
  <2>3. CASE ~due
    <3>1. Onward(client, r)
      BY <1>2, <2>2, <2>3, OnwardOnward
    <3> QED BY <2>1, <3>1, OnwardProceeds
  <2>4. CASE due
    <3>1. client' = r /\ "due" \in faults'.kinds
      BY <2>1, <2>4 DEF Fault
    <3>2. Dated(r) /\ (r.optional => Lone(r))
      BY <1>2, <2>2, <2>4 DEF Onward
    <3>3. (Dated(client)' <=> Dated(r)) /\ (Lone(client)' <=> Lone(r))
      BY <3>1 DEF Dated, Lone, Live
    <3> QED BY <2>4, <3>1, <3>2, <3>3 DEF Proceeds, LoneInv
  <2> QED BY <2>3, <2>4
<1>4. CASE RoomReconciled \/ RoomJoined
  <2> DEFINE r == LivekitReconciled(up)
  <2>1. Calm(r) /\ client.room \in Unsettled
    BY <1>4 DEF RoomReconciled, RoomJoined, up, Unsettled
  <2>2. /\ ~due => Onward(up, r)
        /\ due => Dated(r) /\ ~r.optional
    BY <1>2, LivekitReconciledOnward
  <2> HIDE DEF r
  <2>3. CASE ~due
    <3>1. Onward(client, r)
      BY <1>2, <2>2, <2>3, OnwardOnward
    <3> QED BY <2>1, <3>1, OnwardProceeds
  <2>4. CASE due
    <3>1. client' = r /\ "due" \in faults'.kinds
      BY <2>1, <2>4 DEF Calm, LoneInv, Covered
    <3>2. (Dated(client)' <=> Dated(r)) /\ client'.optional = r.optional
      BY <3>1 DEF Dated
    <3> QED BY <2>2, <2>4, <3>1, <3>2 DEF Proceeds, LoneInv
  <2> QED BY <2>3, <2>4
<1>5. CASE RoomReconnected
  <2>1. Calm(ing) /\ client.room \in Unsettled
    BY <1>5 DEF RoomReconnected, ing, Unsettled
  <2>2. CASE ~due
    BY <1>2, <2>1, <2>2, OnwardProceeds
  <2>3. CASE due
    <3>1. client' = ing /\ "due" \in faults'.kinds
      BY <2>1, <2>3 DEF Calm, LoneInv, Covered
    <3>2. (Dated(client)' <=> Dated(ing)) /\ client'.optional = ing.optional
      BY <3>1 DEF Dated
    <3> QED BY <1>2, <2>3, <3>1, <3>2 DEF Proceeds, LoneInv
  <2> QED BY <2>2, <2>3
<1>6. CASE ReconcileFails
  <2>1. Fault("reconcile", up)
    BY <1>6 DEF ReconcileFails, up
  <2> QED BY <1>2, <2>1, OnwardProceeds
<1>7. CASE RoomDropped
  <2> DEFINE r == LivekitDisconnected(down)
  <2>1. Fault(Unless("drop"), r)
    BY <1>7 DEF RoomDropped, down
  <2>2. Onward(client, r)
    BY <1>2, LivekitDisconnectedOnward, OnwardOnward
  <2> HIDE DEF r
  <2> QED BY <2>1, <2>2, OnwardProceeds
<1> QED BY <1>3, <1>4, <1>5, <1>6, <1>7

\* The socket, its rejoins and their answers.
LEMMA SocketProceeds ==
  ASSUME RecoveryInv, LoneInv,
         SocketLost \/ SocketOpens \/ JoinAnswered \/ JoinFails \/ ResyncAnswered
  PROVE  Proceeds
<1> DEFINE l == [client EXCEPT !.asked = FALSE, !.joins = 0]
           o == [client EXCEPT !.joins = client.queued, !.queued = 0]
           c == ClearActiveResync(o)
           j == [c EXCEPT !.key = 0, !.joins = @ + 1]
           n == [client EXCEPT !.joins = @ - 1]
           a == [client EXCEPT !.asked = FALSE, !.tries = 0]
           f == AppSnapshotApplied(client, FALSE)
           g == [f EXCEPT !.joins = @ - 1]
<1>1. Shape(client)
  BY DEF RecoveryInv, Good, Loose, Typed, Shape, Run
<1>2. Rec(l) /\ Rec(o) /\ Rec(n) /\ Rec(a)
  BY <1>1, Zenon DEF Shape, Rec
<1>3. Alike(client, l) /\ Alike(client, o) /\ Alike(client, n) /\ Alike(client, a)
  BY <1>1, <1>2 DEF Shape, Rec, Fields, Alike
<1> HIDE DEF l, o, n, a
<1>4. /\ Onward(client, l) /\ Onward(client, o) /\ Onward(client, n) /\ Onward(client, a)
      /\ Shape(l) /\ Shape(o) /\ Shape(n) /\ Shape(a)
  BY <1>1, <1>3, AlikeOnward DEF Onward
<1>5. Onward(client, c) /\ Shape(c)
  BY <1>4, ForgetOnward, OnwardOnward DEF Onward
<1>6. Onward(client, f) /\ Shape(f)
  BY <1>1, AppSnapshotAppliedOnward DEF Onward
<1> HIDE DEF c, f
<1>7. Rec(j) /\ Rec(g)
  BY <1>5, <1>6, Zenon DEF Shape, Rec
<1>8. Alike(c, j) /\ Alike(f, g)
  BY <1>5, <1>6, <1>7 DEF Shape, Rec, Fields, Alike
<1> HIDE DEF j, g
<1>9. Onward(client, j) /\ Shape(j) /\ Onward(client, g)
  BY <1>5, <1>6, <1>8, AlikeOnward, OnwardOnward DEF Onward
<1>10. /\ Onward(client, AppWsLost(l))
       /\ Onward(client, AppWsRestored(o)) /\ Onward(client, AppWsRestored(j))
       /\ Onward(client, AppSnapshotApplied(n, TRUE))
       /\ Onward(client, AppSnapshotApplied(a, TRUE))
  BY <1>4, <1>9, AppWsLostOnward, AppWsRestoredOnward, AppSnapshotAppliedOnward, OnwardOnward
<1>11. \/ Fault(Unless("socket"), AppWsLost(l))
       \/ Calm(AppWsRestored(o)) \/ Calm(AppWsRestored(j))
       \/ Calm(AppSnapshotApplied(n, TRUE)) \/ Calm(AppSnapshotApplied(a, TRUE))
       \/ Fault("rejoin", n) \/ Fault("rejoin", g)
  BY DEF SocketLost, SocketOpens, JoinAnswered, JoinFails, ResyncAnswered, l, o, c, j, n, a, f, g
<1> QED BY <1>4, <1>9, <1>10, <1>11, OnwardProceeds

\* A request that is refused or that nobody answers in time.
LEMMA ResyncProceeds ==
  ASSUME RecoveryInv, LoneInv, ResyncRefused \/ ResyncTimesOut
  PROVE  Proceeds
<1> DEFINE w == [client EXCEPT !.asked = FALSE]
           z == [w EXCEPT !.tries = 0]
<1>1. Shape(client)
  BY DEF RecoveryInv, Good, Loose, Typed, Shape, Run
<1>2. Rec(w) /\ Rec(z)
  BY <1>1, Zenon DEF Shape, Rec
<1>3. Alike(client, w) /\ Alike(client, z)
  BY <1>1, <1>2 DEF Shape, Rec, Fields, Alike
<1> HIDE DEF w, z
<1>4. Onward(client, w) /\ Onward(client, z) /\ Shape(w) /\ Shape(z)
  BY <1>1, <1>3, AlikeOnward DEF Onward
<1>5. ASSUME NEW u, Shape(u), NEW retryable
      PROVE  Onward(u, Give(u, retryable))
  <2>1. Onward(u, ClearActiveResync(u)) /\ Shape(ClearActiveResync(u))
    BY <1>5, ForgetOnward DEF Onward
  <2> QED BY <2>1, AppSnapshotRequestFailedOnward, OnwardOnward DEF Give
<1>6. /\ Onward(client, SendActiveResyncAttempt(w)) /\ Onward(client, Give(w, TRUE))
      /\ Onward(client, Give(w, FALSE)) /\ Onward(client, AppSnapshotApplied(z, FALSE))
      /\ Onward(client, SendActiveResyncAttempt(client)) /\ Onward(client, Give(client, TRUE))
  BY <1>1, <1>4, <1>5, ForgetOnward, AppSnapshotAppliedOnward, OnwardOnward
<1>7. \/ Fault("answer", SendActiveResyncAttempt(w))
      \/ Fault("answer", Give(w, TRUE))
      \/ Fault("refusal", Give(w, FALSE))
      \/ Fault("rejoin", AppSnapshotApplied(z, FALSE))
      \/ Fault("answer", SendActiveResyncAttempt(client))
      \/ Fault("answer", Give(client, TRUE))
      \/ Calm(SendActiveResyncAttempt(client))
      \/ Calm(Give(client, TRUE))
  BY DEF ResyncRefused, ResyncTimesOut, w, z
<1> QED BY <1>6, <1>7, OnwardProceeds

\* A commit takes the base from the others, and its own attempt is done.
LEMMA CommitProceeds ==
  ASSUME RecoveryInv, LoneInv, NEW run, Commit(run)
  PROVE  Proceeds
<1> DEFINE runs == {[r EXCEPT !.base = FALSE] : r \in client.runs \ {run}}
                     \cup {[run EXCEPT !.done = TRUE]}
           w == [client EXCEPT !.room = "up", !.runs = runs]
<1>1. Shape(client) /\ client.runs \subseteq Run /\ run \in client.runs
  BY DEF RecoveryInv, Good, Loose, Typed, Shape, Run, Commit
<1>2. \A r \in Run :
        /\ [r EXCEPT !.base = FALSE].epoch = r.epoch /\ [r EXCEPT !.base = FALSE].gen = r.gen
        /\ [r EXCEPT !.base = FALSE].done = r.done
        /\ [r EXCEPT !.done = TRUE].epoch = r.epoch /\ [r EXCEPT !.done = TRUE].done
  BY DEF Run
<1>3. \A a \in runs : \E r \in client.runs :
        a.epoch = r.epoch /\ (~a.done => a.gen = r.gen /\ ~r.done)
  BY <1>1, <1>2
<1>4. Rec(w)
  BY <1>1, Zenon DEF Shape, Rec
<1>5. Calm(w)
  BY DEF Commit
<1> HIDE DEF runs
<1>6. /\ w.runs = runs /\ w.epoch = client.epoch /\ w.gen = client.gen /\ w.room = "up"
      /\ w.inFlight = client.inFlight /\ w.need = client.need
      /\ w.livekit = client.livekit /\ w.optional = client.optional
  BY <1>1 DEF Shape, Rec, Fields
<1> HIDE DEF w
<1>7. Shape(w) /\ Covered(w)
  BY <1>1, <1>3, <1>4, <1>6 DEF Shape, Covered, Unsettled
<1>8. (Dated(client) => Dated(w)) /\ (Lone(client) => Lone(w))
  BY <1>3, <1>6 DEF Dated, Lone, Live
<1>9. Onward(client, w)
  BY <1>6, <1>7, <1>8 DEF Onward
<1> QED BY <1>5, <1>9, OnwardProceeds

\* An attempt reports: that it took over, that it may not, or that it failed.
LEMMA ReportProceeds ==
  ASSUME RecoveryInv, LoneInv, NEW run, run \in client.runs,
         Finish(run) \/ Outdated(run) \/ AttemptFails(run)
  PROVE  Proceeds
<1> DEFINE w == Ended(run)
<1>1. Shape(client)
  BY DEF RecoveryInv, Good, Loose, Typed, Shape, Run
<1>2. run.gen = w.gen => \A other \in w.runs : other.gen # run.gen
  BY EndedFits DEF RecoveryInv
<1>3. Rec(w)
  BY <1>1, Zenon DEF Shape, Rec, Ended
<1>4. /\ w.runs = client.runs \ {run} /\ w.epoch = client.epoch /\ w.gen = client.gen
      /\ w.room = client.room /\ w.inFlight = client.inFlight /\ w.need = client.need
      /\ w.livekit = client.livekit /\ w.optional = client.optional
  BY <1>1 DEF Shape, Rec, Fields, Ended
<1>5. \/ Calm(FinishAttempt(w, run, "ok")) \/ Calm(FinishAttempt(w, run, "retryable"))
      \/ Fault("attempt", FinishAttempt(w, run, "retryable"))
      \/ Fault("refusal", FinishAttempt(w, run, "terminal"))
  BY DEF Finish, Outdated, AttemptFails
<1> HIDE DEF w
<1>6. Shape(w) /\ Onward(client, w)
  BY <1>1, <1>3, <1>4 DEF Shape, Onward, Dated, Lone, Live, Covered
<1>7. \A outcome \in {"ok", "terminal", "retryable"} :
        Onward(client, FinishAttempt(w, run, outcome))
  BY <1>2, <1>6, FinishAttemptOnward, OnwardOnward
<1> QED BY <1>5, <1>7, OnwardProceeds

LEMMA TimerProceeds ==
  ASSUME RecoveryInv, LoneInv, RetryDue \/ CooldownOver
  PROVE  Proceeds
<1>1. Shape(client)
  BY DEF RecoveryInv, Good, Loose, Typed, Shape, Run
<1>2. CASE RetryDue
  <2> DEFINE w == [client EXCEPT !.retry = 0]
  <2>1. Rec(w)
    BY <1>1, Zenon DEF Shape, Rec
  <2>2. Alike(client, w)
    BY <1>1, <2>1 DEF Shape, Rec, Fields, Alike
  <2>3. Calm(w) \/ Calm(MaybeAttempt(w))
    BY <1>2 DEF RetryDue
  <2> HIDE DEF w
  <2>4. Onward(client, w) /\ Onward(client, MaybeAttempt(w))
    BY <1>1, <2>2, AlikeOnward, MaybeAttemptOnward, OnwardOnward DEF Onward
  <2> QED BY <2>3, <2>4, OnwardProceeds
<1>3. CASE CooldownOver
  <2>1. PICK epoch \in ({client.cool} \ {0}) \cup client.spare, handled \in BOOLEAN :
          LET w == IF handled THEN [client EXCEPT !.cool = 0]
                   ELSE [client EXCEPT !.spare = (@ \ {epoch}) \cup ({client.cool} \ {0}),
                                       !.cool = 0]
              v == [w EXCEPT !.coolDone = TRUE]
          IN  Calm(IF ~IsCurrent(w, epoch) THEN w
                   ELSE IF client.online /\ client.up /\ client.need
                   THEN MarkMeaningfulRearm(v, TRUE)
                   ELSE TryRearm(v))
    BY <1>3 DEF CooldownOver
  <2> DEFINE a == [client EXCEPT !.cool = 0]
             b == [client EXCEPT !.spare = (@ \ {epoch}) \cup ({client.cool} \ {0}),
                                 !.cool = 0]
             w == IF handled THEN a ELSE b
             v == [w EXCEPT !.coolDone = TRUE]
  <2>2. Rec(a) /\ Rec(b)
    BY <1>1, Zenon DEF Shape, Rec
  <2>3. Alike(client, a) /\ Alike(client, b)
    BY <1>1, <2>2 DEF Shape, Rec, Fields, Alike
  <2>4. Calm(w) \/ Calm(MarkMeaningfulRearm(v, TRUE)) \/ Calm(TryRearm(v))
    BY <2>1
  <2> HIDE DEF a, b
  <2>5. Onward(client, w) /\ Shape(w)
    BY <1>1, <2>3, AlikeOnward DEF Onward
  <2> HIDE DEF w
  <2>6. Rec(v)
    BY <2>5, Zenon DEF Shape, Rec
  <2>7. Alike(w, v)
    BY <2>5, <2>6 DEF Shape, Rec, Fields, Alike
  <2> HIDE DEF v
  <2>8. Onward(client, v) /\ Shape(v)
    BY <2>5, <2>7, AlikeOnward, OnwardOnward DEF Onward
  <2>9. Onward(client, MarkMeaningfulRearm(v, TRUE)) /\ Onward(client, TryRearm(v))
    BY <2>8, MarkMeaningfulRearmOnward, TryRearmOnward, OnwardOnward
  <2> QED BY <2>4, <2>5, <2>9, OnwardProceeds
<1> QED BY <1>2, <1>3

LEMMA BrowserProceeds ==
  ASSUME RecoveryInv, LoneInv, GoOffline \/ GoOnline \/ MicrophoneStalls
  PROVE  Proceeds
<1> DEFINE w == [client EXCEPT !.online = FALSE]
<1>1. Shape(client)
  BY DEF RecoveryInv, Good, Loose, Typed, Shape, Run
<1>2. Rec(w)
  BY <1>1, Zenon DEF Shape, Rec
<1>3. Alike(client, w)
  BY <1>1, <1>2 DEF Shape, Rec, Fields, Alike
<1>4. \/ Fault("offline", BeginRecovery(w))
      \/ Calm(NetworkOnline(client))
      \/ client.phase = "healthy" /\ Fault("stall", RequestLiveKitReplacement(client))
  BY DEF GoOffline, GoOnline, MicrophoneStalls
<1> HIDE DEF w
<1>5. Onward(client, BeginRecovery(w))
  BY <1>1, <1>3, AlikeOnward, BeginRecoveryOnward, OnwardOnward DEF Onward
<1>6. /\ Onward(client, NetworkOnline(client))
      /\ client.phase = "healthy" => Onward(client, RequestLiveKitReplacement(client))
  BY <1>1, NetworkOnlineOnward, RequestLiveKitReplacementOnward
<1> QED BY <1>4, <1>5, <1>6, OnwardProceeds

LEMMA InitLone == Init => LoneInv
BY DEF Init, LoneInv, Dated, Lone, Covered

LEMMA NextProceeds == RecoveryInv /\ LoneInv /\ [Next]_vars => Proceeds
<1> SUFFICES ASSUME RecoveryInv, LoneInv, [Next]_vars PROVE Proceeds
  OBVIOUS
<1>1. CASE UNCHANGED vars
  BY <1>1 DEF vars, LoneInv, Proceeds, Dated, Lone, Live, Covered
<1>2. CASE Next
  BY <1>2, SocketProceeds, ResyncProceeds, RoomProceeds, CommitProceeds, ReportProceeds,
     TimerProceeds, BrowserProceeds DEF Next, AttemptGoesOn, AttemptBreaks
<1> QED BY <1>1, <1>2

LEMMA LoneHolds == Spec => [](RecoveryInv /\ LoneInv)
<1>1. RecoveryInv /\ LoneInv /\ [Next]_vars => (RecoveryInv /\ LoneInv)'
  BY NextRecovers, NextProceeds DEF Proceeds
<1> QED BY <1>1, InitRecovers, InitLone, PTL DEF Spec

\* Replacement is single-flight, however many recoveries an attempt outlives, as long as
\* LiveKit reconnects no room by itself whose replacement is due.
THEOREM OneAttempt == Spec => []SingleFlight
<1>1. RecoveryInv /\ LoneInv => SingleFlight
  BY DEF RecoveryInv, Good, Loose, Aged, LoneInv, Lone, Live, SingleFlight, NeverTwoAttempts,
         Threatens, IsCurrent
<1> QED BY <1>1, LoneHolds, PTL

\* A replacement that gives way to the standing connection leaves no attempt behind that
\* may still take the room over, whatever else was reconnected, lost or asked for.
THEOREM AbandonedEnds == Spec => AbandonedIsOver
<1>1. /\ RecoveryInv /\ LoneInv /\ [Next]_vars =>
           [client.optional /\ ~client'.optional /\ ~client'.need =>
              \A run \in client'.runs : run.done \/ run.epoch # client'.epoch]_vars
  BY NextProceeds DEF Proceeds, Lone, Live
<1> QED BY <1>1, LoneHolds, PTL DEF Spec, AbandonedIsOver
=============================================================================
