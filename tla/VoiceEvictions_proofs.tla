------------------------ MODULE VoiceEvictions_proofs ------------------------
(*******************************************************************************)
(* A kick, or a ban of a participant, that got through has ended the seat it   *)
(* was about, and that peer takes no seat again.                               *)
(*                                                                             *)
(* The request waits for the finalizer of the seat's lease, which owes it a    *)
(* callback; the callback invalidates the identity of the peer.  From then on  *)
(* the seat is shut.  Later joins find the identity invalidated; one that      *)
(* looked before has claimed a lease that it cannot complete any more, for one *)
(* that got through without a lease found neither a seat nor a lease there     *)
(* (Alone), and what was evicted had both.                                     *)
(*                                                                             *)
(* That rests on there being one lease record for each seat, and one join at a *)
(* time that is still to take it, which holds as long as clients close a       *)
(* socket before they come back over the next (~Overlap).  A finalizer goes on *)
(* owing its callbacks through every retry, or whoever waits hears it failed.  *)
(*******************************************************************************)
EXTENDS VoiceSeats_proofs

-----------------------------------------------------------------------------
(* Finalizers that owe a request its callback. *)

\* The calls that a finalizer awaits, and one that runs: it awaits one of them.
AwaitStages == {"prereq", "revoke", "identity", "participant"}
HeldStates == {"pending", "claimed"}
Awaits(r) == r.stage \in AwaitStages /\ r.idx <= Len(r.cbs) + 1
AwaitsInv == \A n \in LeaseId : lease[n].fin = "run" => Awaits(lease[n])

\* Kicks and bans of a participant, whose callbacks invalidate the peer's identity.
Evictions == {o \in Ops : KindOf(o) \in {"kick", "ban"}}

\* The callback of request o is still to run, or to invalidate the identity.
Remains(r, o) == \E i \in r.idx..Len(r.cbs) : r.cbs[i] = o
Calls(r, o) ==
  \/ r.cb = o /\ r.stage \in {"prereq", "identity"}
  \/ r.cb = o /\ r.stage = "revoke" /\ KindOf(o) = "kick"
  \/ Remains(r, o)

\* A finalizer that runs that callback in the end, or has failed already.
Owed(r, o) == r.fail # "no" \/ (r.stage # "settle" /\ Calls(r, o))
Owes(r, o) == r.fin = "run" /\ r.reason # "" /\ Owed(r, o)

\* A finalizer goes on where it was, whatever callbacks were added to it.
GoesOn(r, q) ==
  /\ q.fin = "run" /\ q.stage = r.stage /\ q.cb = r.cb /\ q.idx = r.idx /\ q.fail = r.fail
  /\ r.reason # "" => q.reason # ""
  /\ Len(r.cbs) <= Len(q.cbs) /\ \A i \in 1..Len(r.cbs) : q.cbs[i] = r.cbs[i]

\* One that has just begun may be at its end, but not have failed.
Begun(q) == (q.stage = "settle" \/ Awaits(q)) /\ q.idx <= Len(q.cbs) + 1 /\ q.fail = "no"

\* What a step makes of a record but for the finalizer's own: nothing fails, and what is
\* pending or claimed was so, or is opened by a closing socket.
Reworks(r, q) ==
  /\ q.fin = "run" => r.fin = "run" \/ Begun(q)
  /\ r.fin = "run" => GoesOn(r, q)
  /\ q.state \in FailedStates => r.state \in FailedStates
  /\ q.state \in HeldStates => r.state \in HeldStates \/ (r.state = "none" /\ ~Prompt)
Moves(n) ==
  /\ Reworks(lease[n], lease'[n])
  /\ lease'[n].fin = "run" => lease[n].fin = "run" \/ Awaits(lease'[n])
AllMoves == \A n \in LeaseId : Moves(n)

\* The loop over the callbacks leaves none out but those of deletions.
LEMMA AdvanceOwes ==
  ASSUME NEW r \in LeaseOver(Ops), r.idx <= Len(r.cbs) + 1
  PROVE  LET a == Advance(r)
         IN /\ a.stage = "settle" \/ Awaits(a)
            /\ a.idx <= Len(a.cbs) + 1 /\ a.fail = r.fail /\ a.reason = r.reason
            /\ a.stage = "settle" /\ ~r.owned => r.idx = Len(r.cbs) + 1
            /\ \A o \in Evictions : r.fail # "no" \/ Remains(r, o) => Owed(a, o)
<1> DEFINE left == {i \in r.idx..Len(r.cbs) : ~(KindOf(r.cbs[i]) = "delete" /\ r.owned)}
           next == CHOOSE i \in left : \A j \in left : i <= j
           a == Advance(r)
<1>1. r.idx \in Nat \ {0} /\ r.cbs \in Seq(Ops) /\ Len(r.cbs) \in Nat
  BY LenProperties DEF LeaseOver
<1>2. \A o \in Evictions : Remains(r, o) => \E i \in left : r.cbs[i] = o
  BY DEF Remains, Evictions
<1>3. CASE left = {}
  <2>1. a = [r EXCEPT !.stage = "settle"]
    BY <1>3 DEF Advance
  <2>2. /\ a.stage = "settle" /\ a.idx = r.idx /\ a.cbs = r.cbs
        /\ a.fail = r.fail /\ a.reason = r.reason
    <3> HIDE DEF a
    <3> QED BY <2>1 DEF LeaseOver
  <2>3. ~r.owned => r.idx = Len(r.cbs) + 1
    BY <1>1, <1>3
  <2> HIDE DEF a, left
  <2> QED BY <1>2, <1>3, <2>2, <2>3 DEF a, Owed
<1>4. CASE left # {}
  <2>1. left \subseteq Nat
    BY <1>1
  <2>2. \E i \in left : \A j \in left : i <= j
    BY <1>4, <2>1, LeastExists
  <2>3. next \in left /\ \A j \in left : next <= j
    BY <2>2
  <2>4. next \in r.idx..Len(r.cbs) /\ next \in Nat
    BY <1>1, <2>3
  <2>5. a = [r EXCEPT !.cb = r.cbs[next], !.idx = next + 1, !.stage = FirstStage(r.cbs[next])]
    BY <1>4 DEF Advance
  <2> HIDE DEF next, a
  <2>6. /\ a.stage = FirstStage(r.cbs[next]) /\ a.idx = next + 1 /\ a.cbs = r.cbs
        /\ a.fail = r.fail /\ a.reason = r.reason /\ a.cb = r.cbs[next]
    BY <2>5 DEF LeaseOver
  <2>7. a.stage \in {"prereq", "revoke"}
    BY <2>6 DEF FirstStage
  <2>8. ASSUME NEW o \in Evictions, Remains(r, o) PROVE Calls(a, o)
    <3>1. PICK i \in left : r.cbs[i] = o
      BY <1>2, <2>8
    <3>2. CASE i = next
      <4>1. a.stage = "prereq"
        BY <2>6, <3>1, <3>2 DEF FirstStage, IsEviction, Evictions
      <4> QED BY <2>6, <3>1, <3>2, <4>1 DEF Calls
    <3>3. CASE i # next
      <4>1. i \in next + 1..Len(r.cbs)
        BY <1>1, <2>3, <2>4, <3>3
      <4> QED BY <2>6, <3>1, <4>1 DEF Calls, Remains
    <3> QED BY <3>2, <3>3
  <2>9. a.idx <= Len(a.cbs) + 1 /\ a.stage # "settle"
    BY <1>1, <2>4, <2>6, <2>7
  <2> HIDE DEF left
  <2> QED BY <2>6, <2>7, <2>8, <2>9 DEF a, Owed, Awaits, AwaitStages
<1> QED BY <1>3, <1>4

\* Neither does the end of a callback.
LEMMA ReturnedOwes ==
  ASSUME NEW r \in LeaseOver(Ops), r.idx <= Len(r.cbs) + 1, NEW released \in BOOLEAN,
         NEW failure \in {"no", "plain", "rollback"}
  PROVE  LET q == Returned(r, released, failure)
         IN /\ q.stage = "settle" \/ Awaits(q)
            /\ q.idx <= Len(q.cbs) + 1 /\ q.reason = r.reason
            /\ \A o \in Evictions : r.fail # "no" \/ failure # "no" \/ Remains(r, o)
                                   => Owed(q, o)
<1> DEFINE p == [r EXCEPT !.owned = @ \/ released,
                          !.fail = IF @ = "no" THEN failure ELSE @]
<1>1. /\ p \in LeaseOver(Ops) /\ p.idx = r.idx /\ p.cbs = r.cbs /\ p.reason = r.reason
      /\ r.fail # "no" \/ failure # "no" => p.fail # "no"
  BY DEF LeaseOver
<1> HIDE DEF p
<1>2. Returned(r, released, failure) = Advance(p)
  BY DEF Returned, p
<1>3. \A o \in Evictions : r.fail # "no" \/ failure # "no" \/ Remains(r, o)
                           => p.fail # "no" \/ Remains(p, o)
  BY <1>1 DEF Remains
<1> QED BY <1>1, <1>2, <1>3, AdvanceOwes

\* The first element of a sequence.
LEMMA HeadFirst ==
  ASSUME NEW S, NEW q \in Seq(S), q # <<>>
  PROVE  Head(q) = q[1]
OBVIOUS

\* A finalizer that begins runs the callbacks there are: of an eviction, too, when there
\* is a reason to end the lease.
LEMMA BeginOwes ==
  ASSUME NEW r \in LeaseOver(Ops), NEW st, NEW n
  PROVE  LET b == Begin(st, n, r)
         IN /\ b.fin = "run" /\ Begun(b) /\ b.reason = r.reason
            /\ b.stage = "settle" => ~currentLeasePeer(st, n) /\ r.cbs = <<>>
            /\ r.reason # "" => \A o \in Evictions :
                 (\E i \in 1..Len(r.cbs) : r.cbs[i] = o) => Owed(b, o)
<1> DEFINE r0 == [r EXCEPT !.fin = "run", !.idx = 1, !.owned = FALSE, !.fail = "no"]
           b == Begin(st, n, r)
<1>0. 1 \in Nat \ {0}
  OBVIOUS
<1>1. r.cbs \in Seq(Ops) /\ Len(r.cbs) \in Nat /\ b.fin = "run"
  BY BeginType, LenProperties DEF LeaseOver
<1>2. /\ r0 \in LeaseOver(Ops) /\ r0.idx = 1 /\ r0.cbs = r.cbs /\ ~r0.owned /\ r0.fail = "no"
      /\ r0.reason = r.reason
  BY <1>0 DEF LeaseOver
<1>. HIDE DEF r0
<1>b. r0.idx <= Len(r0.cbs) + 1
  BY <1>1, <1>2
<1>3. CASE ~currentLeasePeer(st, n)
  <2>1. b = Advance(r0)
    BY <1>3 DEF Begin, r0
  <2> HIDE DEF b
  <2>2. b.stage = "settle" => r.cbs = <<>>
    <3>1. b.stage = "settle" => 1 = Len(r.cbs) + 1
      BY <1>2, <1>b, <2>1, AdvanceOwes
    <3>2. 1 = Len(r.cbs) + 1 => Len(r.cbs) = 0
      BY <1>1
    <3> QED BY <1>1, <3>1, <3>2, EmptySeq
  <2>3. \A o \in Evictions : (\E i \in 1..Len(r.cbs) : r.cbs[i] = o) => Owed(b, o)
    <3>1. \A o \in Evictions : (\E i \in 1..Len(r.cbs) : r.cbs[i] = o) => Remains(r0, o)
      BY <1>2 DEF Remains
    <3> QED BY <1>2, <1>b, <2>1, <3>1, AdvanceOwes
  <2>4. /\ b.stage = "settle" \/ Awaits(b)
        /\ b.idx <= Len(b.cbs) + 1 /\ b.fail = r0.fail /\ b.reason = r0.reason
    BY <1>2, <1>b, <2>1, AdvanceOwes
  <2> QED BY <1>1, <1>2, <1>3, <2>2, <2>3, <2>4 DEF Begun, b
<1>4. CASE currentLeasePeer(st, n) /\ r.reason # "" /\ r.cbs # <<>>
  <2>a. /\ Tail(r.cbs) \in Seq(Ops) /\ Head(r.cbs) \in Ops
        /\ Len(Tail(r.cbs)) = Len(r.cbs) - 1
        /\ \A i \in 1..Len(Tail(r.cbs)) : Tail(r.cbs)[i] = r.cbs[i + 1]
    BY <1>1, <1>4, HeadTailProperties
  <2>b. Head(r.cbs) = r.cbs[1]
    BY <1>1, <1>4, HeadFirst
  <2>1. /\ Head(r.cbs) = r.cbs[1] /\ Tail(r.cbs) \in Seq(Ops) /\ Head(r.cbs) \in Ops
        /\ Len(Tail(r.cbs)) = Len(r.cbs) - 1
        /\ \A i \in 1..Len(Tail(r.cbs)) : Tail(r.cbs)[i] = r.cbs[i + 1]
    BY <2>a, <2>b
  <2>2. b = [r0 EXCEPT !.cb = Head(r.cbs), !.cbs = Tail(r.cbs), !.stage = FirstStage(Head(r.cbs))]
    BY <1>4 DEF Begin, r0
  <2> HIDE DEF b
  <2>3. /\ b.cb = r.cbs[1] /\ b.cbs = Tail(r.cbs) /\ b.stage = FirstStage(r.cbs[1])
        /\ b.idx = 1 /\ b.fail = "no" /\ b.reason = r.reason
    BY <1>2, <2>1, <2>2 DEF LeaseOver
  <2>4. b.stage \in {"prereq", "revoke"}
    BY <2>3 DEF FirstStage
  <2>5. ASSUME NEW o \in Evictions, NEW i \in 1..Len(r.cbs), r.cbs[i] = o PROVE Calls(b, o)
    <3>1. CASE i = 1
      <4>1. b.stage = "prereq"
        BY <2>3, <2>5, <3>1 DEF FirstStage, IsEviction, Evictions
      <4> QED BY <2>3, <2>5, <3>1, <4>1 DEF Calls
    <3>2. CASE i # 1
      <4> DEFINE j == i - 1
      <4>1. j \in 1..Len(Tail(r.cbs)) /\ j + 1 = i
        BY <1>1, <2>1, <3>2
      <4> HIDE DEF j
      <4>2. Tail(r.cbs)[j] = o
        BY <2>1, <2>5, <4>1
      <4> QED BY <2>3, <4>1, <4>2 DEF Calls, Remains
    <3> QED BY <3>1, <3>2
  <2>6. 1 <= Len(Tail(r.cbs)) + 1
    BY <2>1, <1>1, LenProperties
  <2> QED BY <1>1, <1>4, <2>3, <2>4, <2>5, <2>6 DEF b, Owed, Begun, Awaits, AwaitStages
<1>5. CASE currentLeasePeer(st, n) /\ ~(r.reason # "" /\ r.cbs # <<>>)
  <2>1. b = [r0 EXCEPT !.cb = NoOp, !.stage = "revoke"]
    BY <1>5 DEF Begin, r0
  <2> HIDE DEF b
  <2>2. b.stage = "revoke" /\ b.idx = 1 /\ b.cbs = r.cbs /\ b.fail = "no" /\ b.reason = r.reason
    BY <1>2, <2>1 DEF LeaseOver
  <2>3. r.reason # "" => Len(r.cbs) = 0
    BY <1>5, EmptySeq
  <2>4. 1 <= Len(r.cbs) + 1 /\ (Len(r.cbs) = 0 => 1..Len(r.cbs) = {})
    BY <1>1
  <2> QED BY <1>1, <2>2, <2>3, <2>4 DEF b, Begun, Awaits, AwaitStages
<1> QED BY <1>3, <1>4, <1>5

\* What a finalizer that is asked to start is, unless there was one.
StartedAs(r, gone, b) ==
  /\ b \in LeaseOver(Ops) /\ b.state = r.state /\ b.reason = r.reason
  /\ r.fin # "none" => b = r
  /\ r.fin = "none" =>
       /\ b.fin = "run" /\ Begun(b)
       /\ b.stage = "settle" => gone /\ r.cbs = <<>>
       /\ r.reason # "" => \A o \in Evictions :
            (\E i \in 1..Len(r.cbs) : r.cbs[i] = o) => Owed(b, o)

\* runLeaseFinalizer owes every callback of a lease that was ended for a reason.
LEMMA StartedBegins ==
  ASSUME NEW r \in LeaseOver(Ops), NEW st, NEW n
  PROVE  StartedAs(r, ~currentLeasePeer(st, n), Started(st, n, r))
<1>1. CASE r.fin = "none"
  <2>1. Started(st, n, r) = Begin(st, n, r)
    BY <1>1 DEF Started
  <2> DEFINE b == Begin(st, n, r)
  <2>2. b \in LeaseOver(Ops) /\ b.state = r.state
    BY BeginType
  <2>3. /\ b.fin = "run" /\ Begun(b) /\ b.reason = r.reason
        /\ b.stage = "settle" => ~currentLeasePeer(st, n) /\ r.cbs = <<>>
        /\ r.reason # "" => \A o \in Evictions :
             (\E i \in 1..Len(r.cbs) : r.cbs[i] = o) => Owed(b, o)
    BY BeginOwes
  <2> HIDE DEF b
  <2>4. Started(st, n, r) = b
    BY <2>1 DEF b
  <2> QED BY <1>1, <2>2, <2>3, <2>4 DEF StartedAs
<1>2. CASE r.fin # "none"
  BY <1>2 DEF Started, StartedAs
<1> QED BY <1>1, <1>2

\* Callbacks are added behind those that remain, so that they remain, too.
Added(p, q, u) ==
  /\ Len(p) <= Len(u) /\ \A i \in 1..Len(p) : u[i] = p[i]
  /\ u = <<>> => q = <<>>
  /\ \A o \in Evictions : q = <<o>> => \E j \in 1..Len(u) : u[j] = o
  /\ \A i \in Nat \ {0} : i <= Len(p) + 1 =>
       /\ i <= Len(u) + 1
       /\ \A o \in Evictions : q = <<o>> => \E j \in i..Len(u) : u[j] = o

\* Callbacks are appended behind those there are.
LEMMA AddedBehind ==
  ASSUME NEW p \in Seq(Ops), NEW q \in Seq(Ops), NEW u, u = p \o q
  PROVE  Added(p, q, u)
<1>1. Len(u) = Len(p) + Len(q) /\ \A i \in 1..Len(p) : u[i] = p[i]
  BY ConcatProperties
<1>2. Len(p) \in Nat /\ Len(q) \in Nat
  BY LenProperties
<1>3. u = <<>> => q = <<>>
  BY ConcatSimplifications
<1>4. ASSUME NEW i \in Nat \ {0}, i <= Len(p) + 1, NEW o \in Evictions, q = <<o>>
      PROVE  \E j \in i..Len(u) : u[j] = o
  <2>1. o \in Ops
    BY DEF Evictions
  <2>2. Len(u) = Len(p) + 1 /\ u[Len(p) + 1] = o
    BY <1>4, <2>1, ConcatProperties
  <2> QED BY <1>2, <1>4, <2>2
<1>5. 1 \in Nat \ {0} /\ 1 <= Len(p) + 1
  BY <1>2
<1> QED BY <1>1, <1>2, <1>3, <1>4, <1>5 DEF Added

\* Ending a lease terminally: its finalizer goes on, or begins, with the callbacks of
\* the request, too.
EndedAs(r, cbs, gone, b) ==
  /\ b \in LeaseOver(Ops) /\ Reworks(r, b) /\ b.state \notin FailedStates \cup HeldStates
  /\ b.fin = "run" => Awaits(b) \/ (gone /\ cbs = <<>>)
  /\ b.fin = "run" => \A o \in Evictions : cbs = <<o>> => Owes(b, o)

\* terminalClaim, with its finalizer started or run again.
LEMMA TerminalReworks ==
  ASSUME NEW r \in LeaseOver(Ops), Tame(r),
         r.fin = "run" => Awaits(r), NEW reason \in Reasons, reason # "", NEW cbs \in Seq(Ops),
         NEW st, NEW n, Len(joins) \in 0..MaxJoins
  PROVE  EndedAs(r, cbs, ~currentLeasePeer(st, n),
                 Started(st, n, terminalClaimRecord(r, reason, cbs)))
<1> DEFINE p == terminalClaimRecord(r, reason, cbs)
           b == Started(st, n, p)
           gone == ~currentLeasePeer(st, n)
<1>1. p \in LeaseOver(Ops)
  BY ClaimedType
<1>2. p.cbs = r.cbs \o cbs
  BY DEF terminalClaimRecord, LeaseOver
<1>3. /\ p.reason # "" /\ p.idx = r.idx /\ p.cb = r.cb
      /\ p.stage = r.stage /\ p.fail = r.fail /\ p.state \in FinalizingStates
      /\ p.fin = IF r.state \in FailedStates THEN "none" ELSE r.fin
  BY DEF terminalClaimRecord, LeaseOver, FinalizingStates
<1> HIDE DEF p
<1>4. r.cbs \in Seq(Ops) /\ r.idx \in Nat \ {0}
  BY DEF LeaseOver
<1>5. Added(r.cbs, cbs, p.cbs)
  BY <1>2, <1>4, AddedBehind, Zenon
<1>6. StartedAs(p, gone, b)
  BY <1>1, StartedBegins, Zenon
<1> HIDE DEF b, gone
<1>7. r.fin = "run" => r.state \in FinalizingStates /\ p.fin = "run"
  BY <1>3 DEF Tame, FinalizingStates, FailedStates
<1>8. b.state \notin FailedStates \cup HeldStates
  BY <1>3, <1>6 DEF FinalizingStates, FailedStates, HeldStates, StartedAs
<1>9. CASE r.fin = "run"
  <2>1. b = p
    BY <1>6, <1>7, <1>9 DEF StartedAs
  <2>2. GoesOn(r, b)
    BY <1>3, <1>5, <1>7, <1>9, <2>1 DEF GoesOn, Added
  <2>3. r.idx <= Len(r.cbs) + 1 /\ r.stage \in AwaitStages
    BY <1>9 DEF Awaits
  <2>4. Awaits(b)
    BY <1>3, <1>4, <1>5, <2>1, <2>3 DEF Awaits, Added
  <2>5. ASSUME NEW o \in Evictions, cbs = <<o>> PROVE Owes(b, o)
    <3>1. Remains(b, o)
      BY <1>3, <1>4, <1>5, <2>1, <2>3, <2>5 DEF Remains, Added
    <3> QED BY <1>3, <1>7, <1>9, <2>1, <2>3, <3>1 DEF Owes, Owed, Calls, AwaitStages
  <2>6. Reworks(r, b)
    BY <1>8, <1>9, <2>2 DEF Reworks
  <2> QED BY <1>1, <1>8, <2>1, <2>4, <2>5, <2>6 DEF EndedAs, b, p, gone
<1>10. CASE r.fin # "run" /\ p.fin # "none"
  <2>1. b = p /\ b.fin # "run"
    BY <1>3, <1>6, <1>10 DEF StartedAs
  <2>2. Reworks(r, b)
    BY <1>8, <1>10, <2>1 DEF Reworks
  <2> QED BY <1>1, <1>8, <2>1, <2>2 DEF EndedAs, b, p, gone
<1>11. CASE r.fin # "run" /\ p.fin = "none"
  <2>1. /\ Begun(b) /\ b.fin = "run" /\ b.reason # "" /\ b \in LeaseOver(Ops)
        /\ b.stage = "settle" => gone /\ p.cbs = <<>>
    BY <1>3, <1>6, <1>11 DEF StartedAs
  <2>2. Reworks(r, b)
    BY <1>8, <1>11, <2>1 DEF Reworks
  <2>3. p.cbs = <<>> => cbs = <<>>
    BY <1>5 DEF Added
  <2>4. ASSUME NEW o \in Evictions, cbs = <<o>> PROVE Owes(b, o)
    <3>1. \E j \in 1..Len(p.cbs) : p.cbs[j] = o
      BY <1>5, <2>4 DEF Added
    <3> QED BY <1>3, <1>6, <1>11, <2>1, <3>1 DEF Owes, StartedAs
  <2>5. Awaits(b) \/ (gone /\ cbs = <<>>)
    BY <2>1, <2>3 DEF Begun
  <2> QED BY <1>8, <2>1, <2>2, <2>4, <2>5 DEF EndedAs, b, p, gone
<1> QED BY <1>9, <1>10, <1>11

\* Changes that leave the finalizer alone, and what is claimed.
LEMMA AlikeReworks ==
  ASSUME NEW r \in LeaseOver(Ops), NEW b,
         b.fin = r.fin, b.stage = r.stage, b.cb = r.cb, b.cbs = r.cbs, b.idx = r.idx,
         b.fail = r.fail, b.reason = r.reason,
         b.state = r.state \/ (r.state = "pending" /\ b.state = "claimed")
  PROVE  Reworks(r, b)
<1>1. Len(r.cbs) \in Nat
  BY LenProperties DEF LeaseOver
<1>2. Len(r.cbs) <= Len(b.cbs)
  BY <1>1
<1>3. GoesOn(r, b) \/ r.fin # "run"
  BY <1>2 DEF GoesOn
<1> QED BY <1>3 DEF Reworks, HeldStates, FailedStates

\* A record that stays as it is.
LEMMA SameReworks == ASSUME NEW r \in LeaseOver(Ops) PROVE Reworks(r, r)
BY AlikeReworks, Zenon

\* One whose finalizer begins.
LEMMA BegunReworks ==
  ASSUME NEW r \in LeaseOver(Ops), r.fin = "none", NEW gone, NEW b, StartedAs(r, gone, b),
         r.state \in FinalizingStates, NEW old, old.fin # "run"
  PROVE  b \in LeaseOver(Ops) /\ Reworks(old, b)
BY DEF StartedAs, Reworks, FinalizingStates, FailedStates, HeldStates

\* A claim is given back.
LEMMA RestoreReworks ==
  ASSUME NEW r \in LeaseOver(Ops), Tame(r), NEW st, NEW n
  PROVE  LET b == restoreClaimedLease(st, n, r) IN b \in LeaseOver(Ops) /\ Reworks(r, b)
<1> DEFINE p == [r EXCEPT !.state = "finalizing-expiry"]
           q == [r EXCEPT !.state = "pending"]
           b == restoreClaimedLease(st, n, r)
           gone == ~currentLeasePeer(st, n)
<1>1. p \in LeaseOver(Ops) /\ p.fin = r.fin /\ p.state \in FinalizingStates
  BY DEF LeaseOver, LeaseStates, FinalizingStates
<1>2. q \in LeaseOver(Ops) /\ q.fin = r.fin /\ q.state = "pending"
  BY DEF LeaseOver, LeaseStates
<1>3. r.state = "claimed" => r.fin = "none"
  BY DEF Tame
<1>4. b = r \/ (r.state = "claimed" /\ b \in {q, Started(st, n, p)})
  BY DEF restoreClaimedLease
<1> HIDE DEF p, q
<1>5. StartedAs(p, gone, Started(st, n, p))
  BY <1>1, StartedBegins, Zenon
<1> HIDE DEF b, gone
<1>6. CASE b = r
  BY <1>6, SameReworks DEF b
<1>7. CASE r.state = "claimed" /\ b = q
  BY <1>2, <1>3, <1>7 DEF b, Reworks, HeldStates, FailedStates
<1>8. CASE r.state = "claimed" /\ b = Started(st, n, p)
  <2>1. StartedAs(p, gone, b) /\ r.fin # "run" /\ p.fin = "none"
    BY <1>1, <1>3, <1>5, <1>8
  <2>2. b \in LeaseOver(Ops) /\ Reworks(r, b)
    BY <1>1, <2>1, BegunReworks, Zenon
  <2> QED BY <2>2 DEF b
<1> QED BY <1>4, <1>6, <1>7, <1>8

\* A finalizer that failed is tried again.
LEMMA RetryReworks ==
  ASSUME NEW r \in LeaseOver(Ops), r.fin # "run", NEW st, NEW n
  PROVE  LET b == retryFailedLeaseFinalizer(st, n, r) IN b \in LeaseOver(Ops) /\ Reworks(r, b)
<1> DEFINE p == [r EXCEPT !.state = IF r.reason # "" THEN "terminal-finalizing"
                                                     ELSE "finalizing-expiry"]
           b == Begin(st, n, p)
<1>1. p \in LeaseOver(Ops) /\ p.state \in FinalizingStates
  BY DEF LeaseOver, LeaseStates, FinalizingStates
<1> HIDE DEF p
<1>2. b \in LeaseOver(Ops) /\ b.state = p.state
  BY <1>1, BeginType
<1>3. Begun(b)
  BY <1>1, BeginOwes
<1> HIDE DEF b
<1>4. Reworks(r, b)
  BY <1>1, <1>2, <1>3 DEF Reworks, FinalizingStates, FailedStates, HeldStates
<1> QED BY <1>2, <1>4 DEF b, p, retryFailedLeaseFinalizer

\* A pending lease expires.
LEMMA ExpiryReworks ==
  ASSUME NEW r \in LeaseOver(Ops), r.fin = "none", NEW st, NEW n
  PROVE  LET b == Started(st, n, [r EXCEPT !.state = "finalizing-expiry", !.due = TRUE])
         IN b \in LeaseOver(Ops) /\ Reworks(r, b)
<1> DEFINE p == [r EXCEPT !.state = "finalizing-expiry", !.due = TRUE]
           gone == ~currentLeasePeer(st, n)
<1>1. p \in LeaseOver(Ops) /\ p.fin = "none" /\ p.state \in FinalizingStates
  BY DEF LeaseOver, LeaseStates, FinalizingStates
<1> HIDE DEF p
<1>2. StartedAs(p, gone, Started(st, n, p))
  BY <1>1, StartedBegins, Zenon
<1> HIDE DEF gone
<1>3. Started(st, n, p) \in LeaseOver(Ops) /\ Reworks(r, Started(st, n, p))
  BY <1>1, <1>2, BegunReworks, Zenon
<1> QED BY <1>3 DEF p

\* A lease is claimed, a deadline goes by, a socket is gone.
LEMMA FlagsRework ==
  ASSUME NEW r \in LeaseOver(Ops), NEW b,
         \/ r.state = "pending" /\ b = [r EXCEPT !.state = "claimed", !.taken = TRUE]
         \/ b = [r EXCEPT !.due = TRUE]
         \/ b = [r EXCEPT !.disc = TRUE]
  PROVE  b \in LeaseOver(Ops) /\ Reworks(r, b)
<1>1. /\ b \in LeaseOver(Ops)
      /\ b.fin = r.fin /\ b.stage = r.stage /\ b.cb = r.cb /\ b.cbs = r.cbs /\ b.idx = r.idx
      /\ b.fail = r.fail /\ b.reason = r.reason
      /\ b.state = r.state \/ (r.state = "pending" /\ b.state = "claimed")
  BY DEF LeaseOver, LeaseStates
<1> QED BY <1>1, AlikeReworks, Zenon

\* No record.
LEMMA GoneReworks == ASSUME NEW r, r.fin # "run" PROVE Reworks(r, NoLease)
BY DEF Reworks, NoLease, FailedStates, HeldStates

-----------------------------------------------------------------------------
(* Tables of records, but for the steps of finalizers. *)

\* One record changes.
LEMMA OneMoves ==
  ASSUME LInv, NEW n \in LeaseId, Moves(n), \A m \in LeaseId \ {n} : lease'[m] = lease[m]
  PROVE  AllMoves
<1>1. ASSUME NEW m \in LeaseId, lease'[m] = lease[m] PROVE Moves(m)
  <2>1. lease[m] \in LeaseOver(Ops)
    BY RecordTypes DEF LInv
  <2> QED BY <1>1, <2>1, SameReworks DEF Moves
<1> QED BY <1>1 DEF AllMoves

\* Nothing changes.
LEMMA NoneMoves == ASSUME LInv, UNCHANGED lease PROVE AllMoves
<1>1. ASSUME NEW m \in LeaseId PROVE Moves(m)
  <2>1. lease[m] \in LeaseOver(Ops)
    BY RecordTypes DEF LInv
  <2> QED BY <2>1, SameReworks DEF Moves
<1> QED BY <1>1 DEF AllMoves

\* What becomes of a finalizer that settled without failing.
LEMMA SettledWell ==
  ASSUME NEW r \in LeaseOver(Ops), r.stage = "settle", r.fail = "no", NEW st, NEW n
  PROVE  LET f == Finish(st, n, r) IN f.fin # "run" /\ f.state \in {"none", "terminal"}
<1> DEFINE done == [r EXCEPT !.fin = Result(r), !.cb = NoOp, !.stage = "",
                             !.idx = 1, !.owned = FALSE, !.fail = "no"]
           over == [done EXCEPT !.state = "terminal"]
<1>1. Finish(st, n, r) \in {NoLease, over}
  BY DEF Finish, Settled
<1>2. over.state = "terminal" /\ over.fin = "ok" /\ NoLease.fin = "none" /\ NoLease.state = "none"
  <2>1. done \in [state : {done.state}, disc : {done.disc}, due : {done.due},
                  taken : {done.taken}, reason : {done.reason}, atSeq : {done.atSeq},
                  cbs : {done.cbs}, idx : {done.idx}, fin : {done.fin}, cb : {done.cb},
                  stage : {done.stage}, owned : {done.owned}, fail : {done.fail}]
    BY DEF LeaseOver
  <2>2. done.fin = "ok"
    BY DEF Result, LeaseOver
  <2> HIDE DEF done
  <2> QED BY <2>1, <2>2 DEF NoLease
<1> HIDE DEF over
<1> QED BY <1>1, <1>2

\* Whoever waits for a finalizer is told that it failed, or finds the record spent.
Tells(n, r) ==
  r.stage = "settle" => r.fail # "no" \/ lease'[n].state \in {"none", "terminal"}

\* A record is put back.
LEMMA PutMoves ==
  ASSUME LInv, AwaitsInv, NEW n \in LeaseId, NEW q \in LeaseOver(Ops), Tame(q),
         Reworks(lease[n], q), NEW st, lease' = LeasePut(lease, st, n, q)
  PROVE  AllMoves /\ Tells(n, q)
<1>1. lease \in [LeaseId -> LeaseOver(Ops)]
  BY RecordTypes DEF LInv
<1>2. lease'[n] = Finish(st, n, q) /\ \A m \in LeaseId \ {n} : lease'[m] = lease[m]
  BY <1>1 DEF LeasePut
<1>3. CASE q.stage # "settle"
  <2>1. lease'[n] = q
    BY <1>2, <1>3 DEF Finish
  <2>2. q.fin = "run" => lease[n].fin = "run" \/ Awaits(q)
    BY <1>3 DEF Reworks, Begun
  <2> QED BY <1>2, <1>3, <2>1, <2>2, OneMoves DEF Moves, Tells
<1>4. CASE q.stage = "settle"
  <2>1. q.fin = "run"
    BY <1>4 DEF Tame
  <2>2. lease[n].fin # "run"
    BY <1>4 DEF Reworks, GoesOn, AwaitsInv, Awaits, AwaitStages
  <2>3. q.fail = "no"
    BY <2>1, <2>2 DEF Reworks, Begun
  <2>4. lease'[n].fin # "run" /\ lease'[n].state \in {"none", "terminal"}
    BY <1>2, <1>4, <2>3, SettledWell
  <2>5. Moves(n)
    BY <2>2, <2>4 DEF Moves, Reworks, FailedStates, HeldStates
  <2> QED BY <1>2, <2>4, <2>5, OneMoves DEF Tells
<1> QED BY <1>3, <1>4

\* Leases are opened.
LEMMA OpenedMoves ==
  ASSUME LInv, Base, NEW st, NEW ks, OpensFor(st, ks), NEW n \in LeaseId
  PROVE  LET r == createReconnectLease(st, ks)[n]
         IN /\ r = lease[n] \/ (lease[n].fin # "run" /\ r.fin = "none")
            /\ \/ r = lease[n] \/ r = NoLease
               \/ /\ r = [NoLease EXCEPT !.state = "pending"]
                  /\ lease[n].state = "none" /\ n \in RecordsOf(st, ks)
<1> DEFINE p == [NoLease EXCEPT !.state = "pending"]
           r == createReconnectLease(st, ks)[n]
<1>1. \/ Fresh(st, ks, n) /\ r = p /\ lease[n].state = "none"
      \/ Dropped(st, ks, n) /\ r = NoLease
      \/ r = lease[n]
  BY OpenedAs
<1>2. NoLease.fin = "none" /\ p.fin = "none"
  BY DEF NoLease
<1> HIDE DEF p, r
<1>3. lease[n].state = "none" => lease[n].fin # "run"
  BY <1>2 DEF Base, RecordAt
<1>4. Fresh(st, ks, n) => n \in RecordsOf(st, ks)
  <2> SUFFICES ASSUME NEW k \in ks, st[k].t = n PROVE n \in RecordsOf(st, ks)
    BY DEF Fresh
  <2>1. n # 0
    BY OpensAt
  <2>2. RecordFor(st, k) = n
    BY <2>1 DEF RecordFor
  <2> QED BY <2>1, <2>2 DEF RecordsOf
<1> QED BY <1>1, <1>2, <1>3, <1>4 DEF Dropped, p, r

\* Seats are claimed terminally, each with a callback or each with its peer still there.
LEMMA EndedMoves ==
  ASSUME LInv, Base, AwaitsInv, NEW st, NEW ks, OpensFor(st, ks), NEW reason \in Reasons,
         reason # "", NEW cbs \in Seq(Ops),
         cbs # <<>> \/ \A n \in RecordsOf(st, ks) : currentLeasePeer(st, n),
         lease' = TerminalLeases(st, ks, reason, cbs)
  PROVE  /\ AllMoves
         /\ \A n \in RecordsOf(st, ks) \cap LeaseId : lease'[n].fin = "run" =>
              \A o \in Evictions : cbs = <<o>> => Owes(lease'[n], o)
<1> DEFINE le == createReconnectLease(st, ks)
<1>1. lease \in [LeaseId -> LeaseOver(Ops)] /\ Len(joins) \in 0..MaxJoins
  BY RecordTypes DEF LInv
<1>2. ASSUME NEW n \in LeaseId, n \in RecordsOf(st, ks)
      PROVE  /\ Moves(n)
             /\ lease'[n].fin = "run" =>
                  \A o \in Evictions : cbs = <<o>> => Owes(lease'[n], o)
  <2> DEFINE r == le[n]
             b == Started(st, n, terminalClaimRecord(r, reason, cbs))
             gone == ~currentLeasePeer(st, n)
  <2>1. lease'[n] = b
    BY <1>2 DEF TerminalLeases
  <2>2. r.state \notin {"none", "terminal"} /\ Tame(r)
    BY <1>2, OpenedThere
  <2>3. /\ r = lease[n] \/ (lease[n].fin # "run" /\ r.fin = "none")
        /\ r = lease[n] \/ r = NoLease \/ r = [NoLease EXCEPT !.state = "pending"]
    BY OpenedMoves
  <2> HIDE DEF r
  <2>4. r \in LeaseOver(Ops)
    <3>1. NoLease \in LeaseOver(Ops) /\ [NoLease EXCEPT !.state = "pending"] \in LeaseOver(Ops)
      BY NoLeaseType DEF Record, LeaseOver, LeaseStates
    <3> QED BY <1>1, <2>3, <3>1
  <2>5. r.fin = "run" => Awaits(r)
    BY <2>3 DEF AwaitsInv
  <2>6. EndedAs(r, cbs, gone, b)
    BY <1>1, <2>2, <2>4, <2>5, TerminalReworks, Zenon
  <2>7. gone => cbs # <<>>
    BY <1>2
  <2> HIDE DEF b, gone
  <2>8. b.fin = "run" => Awaits(b)
    BY <2>6, <2>7 DEF EndedAs
  <2>9. Reworks(lease[n], b)
    BY <2>3, <2>6 DEF EndedAs, Reworks
  <2> QED BY <2>1, <2>6, <2>8, <2>9 DEF EndedAs, Moves
<1>3. ASSUME NEW n \in LeaseId, n \notin RecordsOf(st, ks) PROVE Moves(n)
  <2>1. lease'[n] = le[n]
    BY <1>3 DEF TerminalLeases
  <2>2. lease'[n] = lease[n] \/ (lease[n].fin # "run" /\ lease'[n] = NoLease)
    <3>1. /\ le[n] = lease[n] \/ (lease[n].fin # "run" /\ le[n].fin = "none")
          /\ le[n] = lease[n] \/ le[n] = NoLease
      BY <1>3, OpenedMoves
    <3> HIDE DEF le
    <3> QED BY <2>1, <3>1
  <2>3. Reworks(lease[n], lease'[n])
    BY <1>1, <2>2, SameReworks, GoneReworks
  <2>4. NoLease.fin = "none"
    BY DEF NoLease
  <2> QED BY <2>2, <2>3, <2>4 DEF Moves
<1> QED BY <1>2, <1>3 DEF AllMoves

\* A join that gives up, or is rejected for good.
LEMMA EndsMoves ==
  ASSUME LInv, Base, Grown, AwaitsInv, NEW s \in Sockets, NEW au, GivesUp(s, au) \/ Rejected(s)
  PROVE  /\ AllMoves
         /\ \/ task' = [task EXCEPT ![s] = Idle]
            \/ \E n \in LeaseId : \E r : /\ task' = TaskPut([task EXCEPT ![s] = Idle], n, r)
                                         /\ Tells(n, r) /\ lease[n].state # "none"
<1> DEFINE c == task[s].claim
           back == restoreClaimedLease(seats, c, lease[c])
           over == terminateLease(seats, c, lease[c])
<1>1. PICK r \in {back, over} :
        IF ~HoldsClaim(s) THEN lease' = lease /\ task' = [task EXCEPT ![s] = Idle]
        ELSE /\ lease' = LeasePut(lease, seats, c, r)
             /\ task' = TaskPut([task EXCEPT ![s] = Idle], c, r)
  BY DEF GivesUp, Rejected, JoinEnds
<1>2. CASE ~HoldsClaim(s)
  BY <1>1, <1>2, NoneMoves
<1>3. CASE HoldsClaim(s)
  <2>1. c \in LeaseId /\ lease[c].state # "none"
    BY <1>3, HeldThere
  <2> HIDE DEF c
  <2>2. lease[c] \in LeaseOver(Ops) /\ Tame(lease[c])
    BY <2>1, RecordThere
  <2>3. Tame(back) /\ back \in LeaseOver(Ops) /\ Reworks(lease[c], back)
    BY <2>2, RestoreTame, RestoreReworks DEF TameStep
  <2>4. Tame(over) /\ over \in LeaseOver(Ops) /\ Reworks(lease[c], over)
    <3>1. /\ "join-rejected" \in Reasons /\ "join-rejected" # "" /\ <<>> \in Seq(Ops)
          /\ Len(joins) \in 0..MaxJoins
      BY EmptySeq, RecordTypes DEF Reasons, LInv
    <3>2. lease[c].fin = "run" => Awaits(lease[c])
      BY <2>1 DEF AwaitsInv
    <3>3. EndedAs(lease[c], <<>>, ~currentLeasePeer(seats, c), over)
      BY <2>2, <3>1, <3>2, TerminalReworks, Zenon DEF terminateLease
    <3>4. Tame(over)
      BY <2>1, <2>2, <3>1, TerminalTame DEF TameStep, terminateLease
    <3> HIDE DEF over
    <3> QED BY <3>3, <3>4 DEF EndedAs
  <2> HIDE DEF back, over
  <2>5. r \in LeaseOver(Ops) /\ Tame(r) /\ Reworks(lease[c], r)
    BY <2>3, <2>4
  <2>6. lease' = LeasePut(lease, seats, c, r) /\ task' = TaskPut([task EXCEPT ![s] = Idle], c, r)
    BY <1>1, <1>3
  <2>7. AllMoves /\ Tells(c, r)
    BY <2>1, <2>5, <2>6, PutMoves
  <2> QED BY <2>1, <2>6, <2>7
<1> QED BY <1>2, <1>3

\* A seat is left by its owner, or by a session whose socket is gone.
LEMMA LeaveMoves ==
  ASSUME LInv, Base, AwaitsInv, NEW s \in Sockets, NEW k \in Keys, UNCHANGED <<seats, joins>>,
         NEW waiting, Leave(s, k, waiting)
  PROVE  /\ AllMoves
         /\ \E i, b : LET t == Awaiting(waiting, i, b) IN
              \/ task' = [task EXCEPT ![s] = t]
              \/ \E n \in LeaseId : \E r : /\ task' = TaskPut([task EXCEPT ![s] = t], n, r)
                                           /\ Tells(n, r) /\ lease[n].state # "none"
<1> DEFINE v == sock[s].voice
           l == leaseOf[k]
           le == TerminalLeases(seats, {k}, "left", <<>>)
           p == terminalClaimRecord(lease[l], "left", <<>>)
           r == Started(seats, l, p)
<1>1. /\ <<>> \in Seq(Ops) /\ "left" \in Reasons /\ "left" # "" /\ OpensFor(seats, {k})
      /\ Len(joins) \in 0..MaxJoins /\ TInv /\ leaseOf \in [Keys -> 0..MaxJoins]
      /\ \A i \in 0..MaxJoins : i # 0 => i \in LeaseId
  <2>1. {k} \in SUBSET Keys
    OBVIOUS
  <2> QED BY <2>1, EmptySeq, OpensHere, RecordTypes DEF Reasons, LInv
<1>2. CASE OwnsSeat(s, k)
  <2>1. lease' = le /\ task' = [task EXCEPT ![s] = Awaiting(waiting, v, le[v])]
    BY <1>2 DEF Leave
  <2>2. RecordsOf(seats, {k}) = {v} /\ seats[k].t = v
    BY <1>2 DEF OwnsSeat, RecordsOf, RecordFor
  <2>3. currentLeasePeer(seats, v)
    <3>1. Past(v) /\ joins[v] = k
      BY <1>2, <2>2 DEF OwnsSeat, Base, SeatInv
    <3>2. TransportOf(v) = v /\ LeaseKey(v) = joins[v]
      BY <1>1, <3>1, OwnLease
    <3> QED BY <2>2, <3>1, <3>2 DEF currentLeasePeer
  <2> HIDE DEF v
  <2>4. AllMoves
    BY <1>1, <2>1, <2>2, <2>3, EndedMoves
  <2> HIDE DEF le
  <2> QED BY <2>1, <2>4
<1>3. CASE ~OwnsSeat(s, k)
  <2>1. /\ lease' = LeasePut(lease, seats, l, r)
        /\ task' = TaskPut([task EXCEPT ![s] = Awaiting(waiting, l, r)], l, r)
        /\ Replayed(k)
    BY <1>3 DEF Leave
  <2>2. l \in LeaseId /\ lease[l].state # "none"
    BY <1>1, <2>1 DEF Replayed, FailedStates
  <2> HIDE DEF l
  <2>3. lease[l] \in LeaseOver(Ops) /\ Tame(lease[l])
    <3>1. lease[l] \in LeaseOver(Ops)
      BY <2>2, RecordTypes DEF LInv
    <3> QED BY <2>2, <3>1 DEF Base, RecordAt
  <2>4. lease[l].fin = "run" => Awaits(lease[l])
    BY <2>2 DEF AwaitsInv
  <2>5. EndedAs(lease[l], <<>>, ~currentLeasePeer(seats, l), r)
    BY <1>1, <2>3, <2>4, TerminalReworks, Zenon
  <2>6. Tame(r)
    BY <1>1, <2>2, <2>3, TerminalTame DEF TameStep
  <2> HIDE DEF r
  <2>7. AllMoves /\ Tells(l, r)
    BY <2>1, <2>2, <2>5, <2>6, PutMoves DEF EndedAs
  <2> QED BY <2>1, <2>2, <2>7
<1> QED BY <1>2, <1>3

-----------------------------------------------------------------------------
(* What a step does to commands. *)

\* The awaits of a join before it has its seat; those once its identity is known.
ComingPcs == EarlyPcs \cup HoldingPcs
SeatingPcs == {"mute", "leaveOther"}

\* The command of s is set to t, and others may hear from a finalizer.
Becomes(s, t) ==
  \/ task' = [task EXCEPT ![s] = t]
  \/ \E n \in LeaseId : \E r : /\ task' = TaskPut([task EXCEPT ![s] = t], n, r)
                               /\ Tells(n, r) /\ lease[n].state # "none"

\* A join is asked for by a client with no other session, for a seat without a lease.
Arrives(x, k) ==
  /\ UNCHANGED <<seats, sock>> /\ \A y \in Sockets : ~Represents(y, k)
  /\ \A y \in Sockets \ {x} : task'[y].pc = task[y].pc /\ task'[y].n = task[y].n
Unleased(k) == leaseOf[k] = 0 \/ lease[leaseOf[k]].state = "terminal"

\* A join is let through without a lease: there is none, or its finalizer was retried.
LetThrough(x, k) ==
  /\ UNCHANGED seats /\ task[x].pc \notin HoldingPcs
  /\ \/ leaseOf'[k] = 0 /\ Unleased(k)
     \/ /\ task[x].pc = "retrying" /\ task[x].wait = 0 /\ task[x].got # "err" /\ KeyOf(x) = k
        /\ leaseOf[k] # 0 /\ lease[leaseOf[k]].state \in FailedStates \cup {"claimed"}

\* A join waits for the finalizer it has retried, or hears of it.
Retries(x, t) ==
  \/ t = task[x]
  \/ t.wait # 0 /\ Past(t.wait) /\ joins[t.wait] = joins'[t.n]
  \/ t.wait = 0 /\ t.got = "err"
  \/ /\ t.wait = 0
     /\ \E v \in LeaseId : /\ lease[v].state # "none" /\ joins[v] = joins'[t.n]
                           /\ lease'[v].state \in {"none", "terminal"}

\* What the command of x may become: where its join comes from, with which claim, and
\* with an identity.
MayBe(x, t) ==
  /\ t.pc \in ComingPcs =>
       (task[x].pc \in ComingPcs /\ t.n = task[x].n) \/ Arrives(x, joins'[t.n])
  /\ t.pc \in HoldingPcs /\ t.claim = 0 =>
       \/ task[x].pc \in HoldingPcs /\ task[x].claim = 0 /\ t.n = task[x].n
       \/ LetThrough(x, joins'[t.n])
  /\ t.pc \in SeatingPcs =>
       /\ task[x].pc \in HoldingPcs /\ t.n = task[x].n
       /\ \/ task[x].pc \in SeatingPcs
          \/ identity[joins[t.n]] # "invalidated" /\ identity'[joins[t.n]] # "free"
  /\ t.pc = "retrying" => Retries(x, t)
CommandMoves == \A x \in Sockets : MayBe(x, task'[x])

\* A join that retried a finalizer waits for one of its seat, or was told that it failed
\* or finds no lease that has failed.
RetryAt(x) ==
  task[x].pc = "retrying" =>
    \/ task[x].wait # 0 /\ Past(task[x].wait) /\ joins[task[x].wait] = KeyOf(x)
    \/ /\ task[x].wait = 0
       /\ \/ task[x].got = "err" \/ leaseOf[KeyOf(x)] = 0
          \/ lease[leaseOf[KeyOf(x)]].state \in FinalizingStates \cup {"terminal"}
RetryInv == \A x \in Sockets : RetryAt(x)

\* A command that hears from a finalizer.
LEMMA HeardMay ==
  ASSUME LInv, RetryInv, JoinsKept, NEW x \in Sockets, NEW t, IsCommand(t), MayBe(x, t),
         NEW n \in LeaseId, NEW r, Tells(n, r), r.stage = "settle", lease[n].state # "none",
         t.wait = n
  PROVE  MayBe(x, [t EXCEPT !.wait = 0, !.got = Result(r)])
<1> DEFINE q == [t EXCEPT !.wait = 0, !.got = Result(r)]
<1>1. q.pc = t.pc /\ q.n = t.n /\ q.claim = t.claim /\ q.wait = 0 /\ q.got = Result(r)
  BY DEF IsCommand
<1> HIDE DEF q
<1>2. n # 0
  BY ConstantsAssumption DEF LeaseId
<1>3. ASSUME t.pc = "retrying" PROVE joins[n] = joins'[t.n]
  <2>1. Retries(x, t)
    BY <1>3 DEF MayBe
  <2>2. CASE t = task[x]
    <3>1. task[x].pc = "retrying" /\ joins[n] = KeyOf(x)
      BY <1>2, <1>3, <2>2 DEF RetryInv, RetryAt
    <3>2. KeyOf(x) \in Keys /\ task[x].n \in 1..Len(joins) /\ joins \in Seq(Keys)
      BY <3>1, KeyOfType DEF LInv, TInv, JoinsInv
    <3>3. joins'[task[x].n] = joins[task[x].n]
      BY <3>2, AppendProperties DEF JoinsKept
    <3> QED BY <2>2, <3>1, <3>3 DEF KeyOf
  <2>3. CASE t # task[x]
    BY <1>2, <2>1, <2>3 DEF Retries
  <2> QED BY <2>2, <2>3
<1>4. q.got = "err" \/ lease'[n].state \in {"none", "terminal"}
  BY <1>1 DEF Tells, Result
<1>5. q.pc = "retrying" => Retries(x, q)
  BY <1>1, <1>3, <1>4 DEF Retries
<1>6. MayBe(x, q)
  BY <1>1, <1>5 DEF MayBe
<1> QED BY <1>6 DEF q

\* One that stays as it is.
LEMMA SameMay == ASSUME NEW x \in Sockets PROVE MayBe(x, task[x])
BY DEF MayBe, Retries, SeatingPcs, HoldingPcs

\* One command goes on, and others hear from a finalizer at most.
LEMMA OneMay ==
  ASSUME LInv, RetryInv, JoinsKept, NEW s \in Sockets, NEW t, IsCommand(t), MayBe(s, t),
         Becomes(s, t)
  PROVE  CommandMoves
<1> DEFINE tk == [task EXCEPT ![s] = t]
<1>1. /\ \A x \in Sockets : IsCommand(tk[x])
      /\ tk[s] = t /\ \A x \in Sockets \ {s} : tk[x] = task[x]
  BY CommandsKnown DEF Commands, LInv
<1>2. \/ task' = tk
      \/ \E n \in LeaseId : \E r :
           task' = TaskPut(tk, n, r) /\ Tells(n, r) /\ lease[n].state # "none"
  BY DEF Becomes
<1> HIDE DEF tk
<1>3. \A x \in Sockets : MayBe(x, tk[x])
  BY <1>1, SameMay
<1>4. ASSUME NEW n \in LeaseId, NEW r, task' = TaskPut(tk, n, r), Tells(n, r),
             lease[n].state # "none", NEW x \in Sockets
      PROVE  MayBe(x, task'[x])
  <2>1. CASE r.stage = "settle" /\ tk[x].wait = n
    <3> DEFINE u == tk[x]
    <3>1. task'[x] = [u EXCEPT !.wait = 0, !.got = Result(r)]
      BY <1>4, <2>1 DEF TaskPut
    <3>2. IsCommand(u) /\ MayBe(x, u) /\ u.wait = n
      BY <1>1, <1>3, <2>1
    <3> HIDE DEF u
    <3>3. MayBe(x, [u EXCEPT !.wait = 0, !.got = Result(r)])
      BY <1>4, <2>1, <3>2, HeardMay, Zenon
    <3> QED BY <3>1, <3>3
  <2>2. CASE ~(r.stage = "settle" /\ tk[x].wait = n)
    <3>1. task'[x] = tk[x]
      BY <1>4, <2>2 DEF TaskPut
    <3> QED BY <1>3, <3>1
  <2> QED BY <2>1, <2>2
<1>5. ASSUME task' = tk PROVE CommandMoves
  BY <1>3, <1>5 DEF CommandMoves
<1> QED BY <1>2, <1>4, <1>5 DEF CommandMoves

\* None goes on.
LEMMA NoneMay ==
  ASSUME LInv, RetryInv, JoinsKept,
         \/ task' = task
         \/ \E n \in LeaseId : \E r : /\ task' = TaskPut(task, n, r)
                                      /\ Tells(n, r) /\ lease[n].state # "none"
  PROVE  CommandMoves
<1>1. ASSUME NEW s \in Sockets PROVE MayBe(s, task'[s])
  <2>1. IsCommand(task[s]) /\ [task EXCEPT ![s] = task[s]] = task
    BY CommandsKnown DEF Commands, LInv
  <2>2. Becomes(s, task[s])
    BY <2>1 DEF Becomes
  <2> QED BY <2>1, <2>2, SameMay, OneMay DEF CommandMoves
<1> QED BY <1>1 DEF CommandMoves

\* Who hears from a finalizer whose record was put back is told what became of it.
LEMMA PutTells ==
  ASSUME NEW n \in LeaseId, NEW r \in LeaseOver(Ops), NEW st,
         lease \in [LeaseId -> LeaseOver(Ops)], lease' = LeasePut(lease, st, n, r)
  PROVE  Tells(n, r)
<1>1. lease'[n] = Finish(st, n, r)
  BY DEF LeasePut
<1> QED BY <1>1, SettledWell DEF Tells

-----------------------------------------------------------------------------
(* Steps of commands. *)

\* A join that comes to its end, or waits for what it does not retry.
LEMMA QuietMay ==
  ASSUME NEW x, NEW t, t.pc \notin ComingPcs \/
           (t.pc = "finalizing" /\ ((task[x].pc \in ComingPcs /\ t.n = task[x].n)
                                    \/ Arrives(x, joins'[t.n])))
  PROVE  MayBe(x, t)
<1>1. /\ "retrying" \in ComingPcs /\ HoldingPcs \subseteq ComingPcs
      /\ SeatingPcs \subseteq HoldingPcs /\ "finalizing" \notin HoldingPcs
  BY DEF ComingPcs, EarlyPcs, HoldingPcs, SeatingPcs
<1> QED BY <1>1 DEF MayBe

\* Those whose command is not set stay where they are.
LEMMA BecomesOne ==
  ASSUME LInv, NEW s \in Sockets, NEW t, IsCommand(t), Becomes(s, t)
  PROVE  \A y \in Sockets \ {s} : task'[y].pc = task[y].pc /\ task'[y].n = task[y].n
<1> DEFINE tk == [task EXCEPT ![s] = t]
<1>1. /\ \A x \in Sockets : IsCommand(tk[x])
      /\ \A x \in Sockets \ {s} : tk[x] = task[x]
  BY CommandsKnown DEF Commands, LInv
<1>2. task' = tk \/ \E n, r : task' = TaskPut(tk, n, r)
  BY DEF Becomes
<1> HIDE DEF tk
<1>3. \A x \in Sockets : task'[x].pc = tk[x].pc /\ task'[x].n = tk[x].n
  BY <1>1, <1>2, PutKeepsTasks
<1> QED BY <1>1, <1>3

\* The lease of a seat is asked for, by a join that comes there first or that waited.
LEMMA ClaimMoves ==
  ASSUME LInv, Base, Grown, AwaitsInv, NEW s \in Sockets, NEW n, NEW k \in Keys, NEW attempt,
         Refused(s) \/ Claim(s, n, k, attempt), joins'[n] = k, UNCHANGED <<seats, sock>>,
         task[s].pc \notin HoldingPcs,
         attempt = "retried" => /\ task[s].pc = "retrying" /\ task[s].wait = 0
                                /\ task[s].got # "err" /\ KeyOf(s) = k,
         (task[s].pc \in ComingPcs /\ task[s].n = n) \/ \A y \in Sockets : ~Represents(y, k)
  PROVE  AllMoves /\ \E t : IsCommand(t) /\ MayBe(s, t) /\ Becomes(s, t)
<1> DEFINE l == leaseOf[k]
           r == IF l = 0 THEN NoLease ELSE lease[l]
           none == l = 0 \/ PermitsNewJoin(r, n)
           room(c) == [task[s] EXCEPT !.pc = "room", !.n = n, !.claim = c]
           le == [lease EXCEPT ![l].state = "claimed", ![l].taken = TRUE]
           waits(pc, q) == [Idle EXCEPT !.pc = pc, !.n = n,
                                        !.wait = IF q.fin = "run" THEN l ELSE 0,
                                        !.got = IF q.fin = "run" THEN "" ELSE q.fin]
<1>1. /\ TInv /\ leaseOf \in [Keys -> 0..MaxJoins] /\ lease \in [LeaseId -> LeaseOver(Ops)]
      /\ l = 0 => r.state = "none"
      /\ l # 0 => l \in LeaseId /\ r = lease[l] /\ joins[l] = k /\ r.state # "none"
  BY RecordTypes DEF LInv, Base, MapInv, NoLease
<1>2. IsCommand(Idle) /\ Idle.pc = "idle" /\ "idle" \notin ComingPcs /\ "leave" \notin ComingPcs
  BY DEF IsCommand, Idle, ComingPcs, EarlyPcs, HoldingPcs
<1>3. MayBe(s, Idle)
  BY <1>2, QuietMay
<1>4. ASSUME NEW c
      PROVE  LET t == room(c) IN IsCommand(t) /\ t.pc = "room" /\ t.n = n /\ t.claim = c
  <2>1. IsCommand(task[s])
    BY CommandsKnown DEF Commands, LInv
  <2> QED BY <2>1 DEF IsCommand
<1>5. ASSUME NEW pc, NEW q
      PROVE  LET t == waits(pc, q)
             IN /\ IsCommand(t) /\ t.pc = pc /\ t.n = n
                /\ t.wait = IF q.fin = "run" THEN l ELSE 0
  BY DEF IsCommand, Idle
<1> HIDE DEF room, waits
\* Where it comes from.
<1>6. ASSUME NEW t, t.n = n, IsCommand(t), Becomes(s, t)
      PROVE  (task[s].pc \in ComingPcs /\ t.n = task[s].n) \/ Arrives(s, joins'[t.n])
  BY <1>6, BecomesOne DEF Arrives
<1>7. ASSUME NEW c, task' = [task EXCEPT ![s] = room(c)],
             c # 0 \/ LetThrough(s, k)
      PROVE  \E t : IsCommand(t) /\ MayBe(s, t) /\ Becomes(s, t)
  <2>1. /\ IsCommand(room(c)) /\ room(c).pc = "room" /\ room(c).n = n /\ room(c).claim = c
        /\ Becomes(s, room(c))
    BY <1>4, <1>7 DEF Becomes
  <2>2. (task[s].pc \in ComingPcs /\ room(c).n = task[s].n) \/ Arrives(s, joins'[room(c).n])
    BY <1>6, <2>1
  <2>3. "room" \notin SeatingPcs
    BY DEF SeatingPcs
  <2>4. MayBe(s, room(c))
    BY <1>7, <2>1, <2>2, <2>3 DEF MayBe
  <2> QED BY <2>1, <2>4
<1>8. CASE Refused(s)
  <2>1. task' = [task EXCEPT ![s] = Idle] /\ UNCHANGED lease
    BY <1>8 DEF Refused
  <2> QED BY <1>2, <1>3, <2>1, NoneMoves DEF Becomes
<1>9. CASE /\ Register(s, n, 0, lease, leaseOf) /\ attempt = "retried" /\ l # 0
           /\ r.state \in FailedStates \cup {"claimed"}
  <2>1. task' = [task EXCEPT ![s] = room(0)] /\ UNCHANGED lease
    BY <1>9 DEF Register, room
  <2>2. LetThrough(s, k)
    BY <1>1, <1>9 DEF LetThrough
  <2> QED BY <1>7, <2>1, <2>2, NoneMoves
<1>10. CASE /\ none
            /\ Register(s, n, 0, IF l = 0 THEN lease ELSE [lease EXCEPT ![l] = NoLease],
                        [leaseOf EXCEPT ![k] = 0])
  <2>1. /\ task' = [task EXCEPT ![s] = room(0)]
        /\ lease' = IF l = 0 THEN lease ELSE [lease EXCEPT ![l] = NoLease]
        /\ leaseOf' = [leaseOf EXCEPT ![k] = 0]
    BY <1>10 DEF Register, room
  <2>2. l # 0 => lease[l].state = "terminal"
    BY <1>1, <1>10 DEF PermitsNewJoin
  <2>3. LetThrough(s, k)
    BY <1>1, <2>1, <2>2 DEF LetThrough, Unleased
  <2>4. AllMoves
    <3>1. CASE l = 0
      BY <2>1, <3>1, NoneMoves
    <3>2. CASE l # 0
      <4>1. lease'[l] = NoLease /\ \A m \in LeaseId \ {l} : lease'[m] = lease[m]
        BY <1>1, <2>1, <3>2
      <4>2. Tame(lease[l])
        <5> HIDE DEF l
        <5> QED BY <1>1, <2>2, <3>2, RecordThere
      <4>3. lease[l].fin # "run"
        BY <2>2, <3>2, <4>2 DEF Tame, FinalizingStates
      <4>4. Reworks(lease[l], NoLease)
        BY <4>3, GoneReworks
      <4>5. NoLease.fin # "run"
        BY DEF NoLease
      <4>6. Moves(l)
        BY <4>1, <4>4, <4>5 DEF Moves
      <4> HIDE DEF l
      <4> QED BY <1>1, <3>2, <4>1, <4>6, OneMoves
    <3> QED BY <3>1, <3>2
  <2> QED BY <1>7, <2>1, <2>3, <2>4
<1>11. ASSUME l # 0, r.state = "pending", lease' = le
       PROVE  AllMoves
  <2> DEFINE q == [lease[l] EXCEPT !.state = "claimed", !.taken = TRUE]
  <2>1. lease'[l] = q /\ \A m \in LeaseId \ {l} : lease'[m] = lease[m]
    BY <1>1, <1>11
  <2> HIDE DEF l
  <2>2. lease[l] \in LeaseOver(Ops) /\ Tame(lease[l]) /\ lease[l].state = "pending"
    BY <1>1, <1>11, RecordThere
  <2>3. Reworks(lease[l], q)
    BY <2>2, FlagsRework
  <2>4. q.fin = lease[l].fin
    BY <2>2 DEF LeaseOver
  <2>5. lease[l].fin # "run"
    BY <2>2 DEF Tame
  <2> HIDE DEF q
  <2>6. Moves(l)
    BY <2>1, <2>3, <2>4, <2>5 DEF Moves
  <2> QED BY <1>1, <1>11, <2>1, <2>6, OneMoves
<1>12. CASE /\ ~none /\ r.state = "pending"
            /\ IF attempt = "waited"
               THEN lease' = le /\ task' = [task EXCEPT ![s] = Idle] /\ UNCHANGED <<leaseOf, op>>
               ELSE Register(s, n, l, le, leaseOf)
  <2>1. AllMoves
    BY <1>11, <1>12 DEF Register
  <2>2. CASE task' = [task EXCEPT ![s] = Idle]
    BY <1>2, <1>3, <2>1, <2>2 DEF Becomes
  <2>3. CASE Register(s, n, l, le, leaseOf)
    <3>1. task' = [task EXCEPT ![s] = room(l)] /\ l # 0
      BY <1>12, <2>3 DEF Register, room
    <3> QED BY <1>7, <2>1, <3>1
  <2> QED BY <1>12, <2>1, <2>2, <2>3
<1>13. ASSUME NEW pc, NEW q \in LeaseOver(Ops), WaitsFor(s, n, pc, l, q), l # 0, Tame(q),
              Reworks(lease[l], q), pc = "finalizing" \/ (pc = "retrying" /\ q.fin = "run")
       PROVE  AllMoves /\ \E t : IsCommand(t) /\ MayBe(s, t) /\ Becomes(s, t)
  <2> DEFINE t == waits(pc, q)
  <2>1. lease' = LeasePut(lease, seats, l, q) /\ task' = TaskPut([task EXCEPT ![s] = t], l, q)
    BY <1>13 DEF WaitsFor, waits
  <2>2. IsCommand(t) /\ t.pc = pc /\ t.n = n /\ t.wait = IF q.fin = "run" THEN l ELSE 0
    BY <1>5
  <2> HIDE DEF t
  <2>3. l \in LeaseId /\ lease[l].state # "none" /\ joins[l] = k
    BY <1>1, <1>13
  <2> HIDE DEF l
  <2>4. AllMoves /\ Tells(l, q)
    BY <1>13, <2>1, <2>3, PutMoves
  <2>5. Becomes(s, t)
    BY <2>1, <2>3, <2>4 DEF Becomes
  <2>6. (task[s].pc \in ComingPcs /\ t.n = task[s].n) \/ Arrives(s, joins'[t.n])
    BY <1>6, <2>2, <2>5
  <2>7. CASE pc = "finalizing"
    BY <2>2, <2>4, <2>5, <2>6, <2>7, QuietMay
  <2>8. CASE pc = "retrying" /\ q.fin = "run"
    <3>1. Past(l)
      BY <2>3, RecordThere
    <3>2. Retries(s, t)
      BY <1>13, <2>2, <2>3, <2>8, <3>1 DEF Retries
    <3>3. "retrying" \notin HoldingPcs /\ "retrying" \notin SeatingPcs
      BY DEF HoldingPcs, SeatingPcs
    <3>4. MayBe(s, t)
      BY <2>2, <2>6, <2>8, <3>2, <3>3 DEF MayBe
    <3> QED BY <2>2, <2>4, <2>5, <3>4
  <2> QED BY <1>13, <2>7, <2>8
<1>14. l # 0 => r \in LeaseOver(Ops) /\ Tame(r)
  <2>1. l # 0 => l \in LeaseId /\ r = lease[l] /\ lease[l].state # "none"
    BY <1>1
  <2> HIDE DEF l, r
  <2> QED BY <2>1, RecordThere
<1>15. CASE r.state \in FinalizingStates /\ WaitsFor(s, n, "finalizing", l, r)
  <2>1. l # 0
    BY <1>1, <1>15 DEF FinalizingStates
  <2>2. Reworks(lease[l], r)
    BY <1>1, <1>14, <2>1, SameReworks
  <2> HIDE DEF l, r
  <2> QED BY <1>13, <1>14, <1>15, <2>1, <2>2
<1>16. CASE /\ r.state \in FailedStates
            /\ WaitsFor(s, n, "retrying", l, retryFailedLeaseFinalizer(seats, l, r))
  <2> DEFINE b == retryFailedLeaseFinalizer(seats, l, r)
  <2>1. l # 0 /\ r = lease[l]
    BY <1>1, <1>16 DEF FailedStates
  <2> HIDE DEF l, r
  <2>2. r.fin # "run"
    BY <1>14, <1>16, <2>1 DEF Tame, FailedStates, FinalizingStates
  <2>3. b \in LeaseOver(Ops) /\ Reworks(r, b)
    BY <1>14, <2>1, <2>2, RetryReworks
  <2>4. Tame(b) /\ b.fin = "run"
    BY <1>14, <2>1, RetryTame DEF TameStep
  <2> HIDE DEF b
  <2>5. WaitsFor(s, n, "retrying", l, b)
    BY <1>16 DEF b
  <2> QED BY <1>13, <2>1, <2>3, <2>4, <2>5
<1> HIDE DEF le
<1>17. l = 0 => none
  OBVIOUS
<1> HIDE DEF l, r, none
<1>18. \/ /\ none
          /\ Register(s, n, 0, IF l = 0 THEN lease ELSE [lease EXCEPT ![l] = NoLease],
                      [leaseOf EXCEPT ![k] = 0])
       \/ /\ ~none /\ r.state = "pending"
          /\ IF attempt = "waited"
             THEN lease' = le /\ task' = [task EXCEPT ![s] = Idle] /\ UNCHANGED <<leaseOf, op>>
             ELSE Register(s, n, l, le, leaseOf)
       \/ r.state \in FinalizingStates /\ WaitsFor(s, n, "finalizing", l, r)
       \/ /\ r.state \in FailedStates
          /\ WaitsFor(s, n, "retrying", l, retryFailedLeaseFinalizer(seats, l, r))
       \/ /\ Register(s, n, 0, lease, leaseOf) /\ attempt = "retried" /\ ~none
          /\ r.state \in FailedStates \cup {"claimed"}
       \/ Refused(s)
  BY DEF Claim, l, r, none, le
<1> QED BY <1>8, <1>9, <1>10, <1>12, <1>15, <1>16, <1>17, <1>18

-----------------------------------------------------------------------------
(* What a step does to seats and sockets. *)

\* The join of y takes its seat, and with it the lease that it held.
Taker(y) ==
  /\ task[y].pc \in SeatingPcs /\ ~Superseded(y) /\ task'[y].pc = "occupancy"
  /\ \/ leaseOf'[KeyOf(y)] = 0
     \/ task[y].claim = 0 /\ leaseOf'[KeyOf(y)] = leaseOf[KeyOf(y)]
SeatMoves ==
  \A k \in Keys : \/ seats'[k].t \in {0, seats[k].t}
                  \/ \E y \in Sockets : Taker(y) /\ KeyOf(y) = k /\ seats'[k].t = task[y].n
SocketMoves ==
  \A x \in Sockets : /\ sock'[x].open # "closed" => sock[x].open # "closed"
                     /\ \/ sock'[x].voice \in {0, sock[x].voice}
                        \/ Taker(x) /\ sock'[x].voice = task[x].n
Travels == SeatMoves /\ SocketMoves /\ CommandMoves

\* What steps start from.
Ready == LInv /\ Base /\ Grown /\ JoinsKept /\ AwaitsInv /\ RetryInv

\* Seats that fade at most.
LEMMA FadingMoves ==
  ASSUME LInv, \/ seats' = seats
               \/ \E r, except : seats' = publish(seats, r, except)
               \/ \E j, t : seats' = closePeer(seats, j, t)
  PROVE  SeatMoves
<1>1. ASSUME NEW k \in Keys PROVE seats'[k].t \in {0, seats[k].t}
  BY FadingReach
<1> QED BY <1>1 DEF SeatMoves

\* Sockets as they are, or without a seat.
LEMMA SameSockets == ASSUME sock' = sock PROVE SocketMoves
BY DEF SocketMoves

\* A socket that leaves its seat.
LEMMA LeftSockets ==
  ASSUME LInv, NEW s \in Sockets, sock' = [sock EXCEPT ![s].voice = 0]
  PROVE  SocketMoves
<1>1. sock \in [Sockets -> KnownSocket(Len(joins))]
  BY DEF LInv, TInv, RosterInv
<1>2. \A x \in Sockets : sock[x] \in Socket
  BY <1>1 DEF KnownSocket
<1>3. /\ sock'[s].voice = 0 /\ sock'[s].open = sock[s].open
      /\ \A x \in Sockets \ {s} : sock'[x] = sock[x]
  BY <1>1, <1>2 DEF Socket
<1> QED BY <1>3 DEF SocketMoves

\* detachVoicePeer closes no socket and seats none.
LEMMA DetachedSockets ==
  ASSUME LInv, NEW ks, sock' = detachVoicePeer(sock, ks)
  PROVE  SocketMoves
<1>1. sock \in [Sockets -> KnownSocket(Len(joins))]
  BY DEF LInv, TInv, RosterInv
<1>2. \A x \in Sockets : sock[x] \in Socket
  BY <1>1 DEF KnownSocket
<1>3. ASSUME NEW x \in Sockets
      PROVE  sock'[x].voice \in {0, sock[x].voice} /\ sock'[x].open = sock[x].open
  BY <1>2 DEF detachVoicePeer, Socket
<1> QED BY <1>3 DEF SocketMoves

\* A join that gives up, or is rejected.
LEMMA EndsMay ==
  ASSUME Ready, NEW s \in Sockets, NEW au, GivesUp(s, au) \/ Rejected(s)
  PROVE  AllMoves /\ CommandMoves
<1>1. LInv /\ Base /\ Grown /\ JoinsKept /\ AwaitsInv /\ RetryInv
  BY DEF Ready
<1>2. AllMoves /\ Becomes(s, Idle)
  BY <1>1, EndsMoves DEF Becomes
<1>3. IsCommand(Idle) /\ Idle.pc \notin ComingPcs
  BY DEF IsCommand, Idle, ComingPcs, EarlyPcs, HoldingPcs
<1>4. MayBe(s, Idle)
  BY <1>3, QuietMay
<1> QED BY <1>1, <1>2, <1>3, <1>4, OneMay

\* A join that goes on to its next await.
LEMMA ProceedsMay ==
  ASSUME Ready, NEW s \in Sockets, NEW pc, Proceeds(s, pc),
         \/ pc \notin ComingPcs
         \/ pc = "ban" /\ task[s].pc = "room"
         \/ pc = "identity" /\ task[s].pc = "ban"
         \/ /\ pc = "mute" /\ task[s].pc = "identity"
            /\ identity[KeyOf(s)] # "invalidated" /\ identity'[KeyOf(s)] # "free"
  PROVE  AllMoves /\ CommandMoves
<1> DEFINE t == [task[s] EXCEPT !.pc = pc]
<1>1. LInv /\ Base /\ Grown /\ JoinsKept /\ AwaitsInv /\ RetryInv
  BY DEF Ready
<1>2. task' = [task EXCEPT ![s] = t] /\ UNCHANGED lease
  BY DEF Proceeds
<1>3. IsCommand(t) /\ t.pc = pc /\ t.n = task[s].n /\ t.claim = task[s].claim
  BY <1>1, CommandsKnown DEF Commands, IsCommand, LInv
<1> HIDE DEF t
<1>4. MayBe(s, t)
  BY <1>3 DEF MayBe, ComingPcs, HoldingPcs, SeatingPcs, EarlyPcs, KeyOf
<1>5. AllMoves
  BY <1>1, <1>2, NoneMoves
<1> QED BY <1>1, <1>2, <1>3, <1>4, <1>5, OneMay DEF Becomes

\* The lookups of a join.
LEMMA LookupMoves ==
  ASSUME Ready, NEW s \in Sockets, GetRoom(s) \/ FindRoomBan(s) \/ GetOrCreatePeerIdentity(s)
  PROVE  AllMoves /\ Travels
<1>1. LInv /\ UNCHANGED <<seats, sock>>
  BY DEF Ready, GetRoom, FindRoomBan, GetOrCreatePeerIdentity
<1>2. ASSUME NEW ok \in BOOLEAN, GetOrCreatePeerIdentity(s), Proceeds(s, "mute"), ok,
             identity' = [identity EXCEPT
                            ![KeyOf(s)] = IF ok /\ @ = "free" THEN "held" ELSE @]
      PROVE  identity'[KeyOf(s)] # "free"
  <2>1. task[s].pc # "idle"
    BY <1>2 DEF GetOrCreatePeerIdentity, JoinAt
  <2>2. KeyOf(s) \in Keys /\ identity \in [Keys -> {"free", "held", "invalidated"}]
    BY <1>1, <2>1, KeyOfType DEF LInv, TInv, StoreInv
  <2> QED BY <1>2, <2>2
<1>3. \/ GivesUp(s, auth) \/ Rejected(s)
      \/ task[s].pc = "room" /\ Proceeds(s, "ban")
      \/ task[s].pc = "ban" /\ Proceeds(s, "identity")
      \/ /\ task[s].pc = "identity" /\ Proceeds(s, "mute")
         /\ identity[KeyOf(s)] # "invalidated" /\ identity'[KeyOf(s)] # "free"
  <2>1. CASE GetRoom(s)
    BY <2>1 DEF GetRoom, JoinAt
  <2>2. CASE FindRoomBan(s)
    BY <2>2 DEF FindRoomBan, JoinAt
  <2>3. CASE GetOrCreatePeerIdentity(s)
    <3>1. PICK ok \in BOOLEAN :
            /\ task[s].pc = "identity"
            /\ identity' = [identity EXCEPT
                              ![KeyOf(s)] = IF ok /\ @ = "free" THEN "held" ELSE @]
            /\ \/ GivesUp(s, auth) \/ Rejected(s)
               \/ ok /\ identity[KeyOf(s)] # "invalidated" /\ Proceeds(s, "mute")
      BY <2>3 DEF GetOrCreatePeerIdentity, JoinAt
    <3> QED BY <1>2, <2>3, <3>1
  <2> QED BY <2>1, <2>2, <2>3
<1>4. AllMoves /\ CommandMoves
  BY <1>3, EndsMay, ProceedsMay
<1> QED BY <1>1, <1>4, FadingMoves, SameSockets DEF Travels

\* What follows the seat.
LEMMA SeatedMoves ==
  ASSUME Ready, NEW s \in Sockets, OccupancyQueued(s) \/ FindLateBan(s) \/ BuildRoomSnapshot(s)
  PROVE  AllMoves /\ Travels
<1>1. LInv
  BY DEF Ready
<1>2. /\ UNCHANGED <<seats, sock>> \/ ReleaseSeat(s)
      /\ \/ GivesUp(s, auth) \/ Proceeds(s, "lateBan") \/ Proceeds(s, "snapshot")
  BY DEF OccupancyQueued, FindLateBan, BuildRoomSnapshot, SupersededSeat
<1>3. "lateBan" \notin ComingPcs /\ "snapshot" \notin ComingPcs
  BY DEF ComingPcs, EarlyPcs, HoldingPcs
<1>4. AllMoves /\ CommandMoves
  BY <1>2, <1>3, EndsMay, ProceedsMay
<1>5. CASE UNCHANGED <<seats, sock>>
  BY <1>1, <1>4, <1>5, FadingMoves, SameSockets DEF Travels
<1>6. CASE ReleaseSeat(s)
  <2>1. /\ \E j, t : seats' = closePeer(seats, j, t)
        /\ sock' = sock \/ sock' = [sock EXCEPT ![s].voice = 0]
    BY <1>6 DEF ReleaseSeat
  <2> QED BY <1>1, <1>4, <2>1, FadingMoves, SameSockets, LeftSockets DEF Travels
<1> QED BY <1>2, <1>5, <1>6

\* A join is asked for, and one goes on that had to wait.
LEMMA ComesMoves ==
  ASSUME Ready, ~Overlap, NEW s \in Sockets, (\E k \in Keys : JoinRequest(s, k)) \/ JoinResumes(s)
  PROVE  AllMoves /\ Travels
<1>1. LInv /\ Base /\ Grown /\ JoinsKept /\ AwaitsInv /\ RetryInv
  BY DEF Ready
<1>2. UNCHANGED <<seats, sock>>
  BY DEF JoinRequest, JoinResumes
<1>3. ASSUME NEW n, NEW k \in Keys, NEW attempt, joins'[n] = k,
             Refused(s) \/ Claim(s, n, k, attempt), task[s].pc \notin HoldingPcs,
             attempt = "retried" => /\ task[s].pc = "retrying" /\ task[s].wait = 0
                                    /\ task[s].got # "err" /\ KeyOf(s) = k,
             (task[s].pc \in ComingPcs /\ task[s].n = n) \/ \A y \in Sockets : ~Represents(y, k)
      PROVE  AllMoves /\ CommandMoves
  <2>1. AllMoves /\ \E t : IsCommand(t) /\ MayBe(s, t) /\ Becomes(s, t)
    BY <1>1, <1>2, <1>3, ClaimMoves
  <2> QED BY <1>1, <2>1, OneMay
<1>4. ASSUME NEW k \in Keys, JoinRequest(s, k) PROVE AllMoves /\ CommandMoves
  <2> DEFINE n == Len(joins) + 1
  <2>1. /\ Claim(s, n, k, "first") /\ joins' = Append(joins, k) /\ task[s] = Idle
        /\ \A y \in Sockets : ~Represents(y, k)
    BY <1>4 DEF JoinRequest
  <2>2. joins'[n] = k
    <3>1. joins \in Seq(Keys)
      BY <1>1 DEF LInv, TInv, JoinsInv
    <3> QED BY <2>1, <3>1, AppendProperties
  <2> HIDE DEF n
  <2>3. task[s].pc \notin HoldingPcs
    <3>1. Idle.pc = "idle" /\ "idle" \notin HoldingPcs
      BY DEF Idle, HoldingPcs
    <3> QED BY <2>1, <3>1
  <2>4. "first" # "retried"
    OBVIOUS
  <2> QED BY <1>3, <2>1, <2>2, <2>3, <2>4, Zenon
<1>5. ASSUME JoinResumes(s) PROVE AllMoves /\ CommandMoves
  <2> DEFINE again == IF task[s].pc = "retrying" THEN "retried" ELSE "waited"
  <2>1. /\ joins' = joins /\ task[s].pc \in EarlyPcs /\ task[s].wait = 0
        /\ Refused(s) \/ (task[s].got # "err" /\ Claim(s, task[s].n, KeyOf(s), again))
    BY <1>5 DEF JoinResumes
  <2>2. task[s].pc \notin HoldingPcs /\ task[s].pc \in ComingPcs /\ task[s].pc # "idle"
    BY <2>1 DEF HoldingPcs, EarlyPcs, ComingPcs
  <2>3. KeyOf(s) \in Keys /\ joins'[task[s].n] = KeyOf(s)
    BY <1>1, <2>1, <2>2, KeyOfType DEF LInv, KeyOf
  <2>4. again = "retried" => task[s].pc = "retrying"
    OBVIOUS
  <2> HIDE DEF again
  <2>5. "waited" # "retried"
    OBVIOUS
  <2>6. CASE Refused(s)
    BY <1>3, <2>2, <2>3, <2>5, <2>6, Zenon
  <2>7. CASE task[s].got # "err" /\ Claim(s, task[s].n, KeyOf(s), again)
    BY <1>3, <2>1, <2>2, <2>3, <2>4, <2>7, Zenon
  <2> QED BY <2>1, <2>6, <2>7
<1>6. AllMoves /\ CommandMoves
  BY <1>4, <1>5
<1> QED BY <1>1, <1>2, <1>6, FadingMoves, SameSockets DEF Travels

\* A seat is taken, with the lease that was held for it.
LEMMA TakesMoves ==
  ASSUME Ready, NEW s \in Sockets, task[s].pc \in SeatingPcs, joins' = joins,
         NEW so \in {sock, [sock EXCEPT ![s].voice = 0]}, NEW au, TakeSeat(s, so, au)
  PROVE  AllMoves /\ Travels
<1> DEFINE n == task[s].n
           k == KeyOf(s)
           c == task[s].claim
           m == n + MaxJoins
           others == {x \in Sockets \ {s} : c # 0 /\ task[x].claim = c}
           seated == [seats EXCEPT ![k] = [t |-> n, conn |-> s]]
           t == [Idle EXCEPT !.pc = "occupancy", !.n = n]
<1>1. LInv /\ Base /\ Grown /\ JoinsKept /\ AwaitsInv /\ RetryInv
  BY DEF Ready
<1>2. /\ TInv /\ Commands /\ k \in Keys /\ IsTable(seats)
      /\ sock \in [Sockets -> KnownSocket(Len(joins))] /\ lease \in [LeaseId -> LeaseOver(Ops)]
      /\ leaseOf \in [Keys -> 0..MaxJoins]
  <2>1. task[s].pc # "idle"
    BY DEF SeatingPcs
  <2> QED BY <1>1, <2>1, KeyOfType, CommandsKnown, RecordTypes, SeatsFade DEF LInv, TInv, RosterInv
<1>3. so = sock \/ so = [sock EXCEPT ![s].voice = 0]
  OBVIOUS
<1>4. CASE GivesUp(s, au) /\ sock' = so /\ UNCHANGED seats
  <2>1. AllMoves /\ CommandMoves
    BY <1>4, EndsMay
  <2> QED BY <1>1, <1>3, <1>4, <2>1, FadingMoves, SameSockets, LeftSockets DEF Travels
<1>5. CASE ~(GivesUp(s, au) /\ sock' = so /\ UNCHANGED seats)
  <2>1. /\ ~Superseded(s)
        /\ seats' = IF seats[k].t # 0 THEN seated ELSE publish(seated, k[1], k)
        /\ sock' = [so EXCEPT ![s].voice = n]
        /\ task' = [x \in Sockets |->
                      IF x = s THEN t
                      ELSE IF x \in others THEN [task[x] EXCEPT !.claim = n + MaxJoins]
                      ELSE task[x]]
        /\ IF c = 0 THEN UNCHANGED <<lease, leaseOf>>
           ELSE /\ lease' = [lease EXCEPT ![c] = NoLease,
                                          ![m] = IF others = {} THEN @ ELSE lease[c]]
                /\ leaseOf' = [leaseOf EXCEPT ![k] = 0]
    BY <1>5 DEF TakeSeat
  <2>2. others = {}
    BY <1>1 DEF Base, ClaimAt
  <2>3. task' = [task EXCEPT ![s] = t]
    <3> HIDE DEF t, others
    <3> QED BY <1>2, <2>1, <2>2 DEF Commands
  <2>4. task'[s].pc = "occupancy" /\ IsCommand(t) /\ t.pc = "occupancy"
    <3>1. IsCommand(t) /\ t.pc = "occupancy"
      BY DEF IsCommand, Idle
    <3>2. task'[s] = t
      <4> HIDE DEF t
      <4> QED BY <1>2, <2>3 DEF Commands
    <3> HIDE DEF t
    <3> QED BY <3>1, <3>2
  <2>5. Taker(s)
    <3>1. c # 0 => leaseOf'[k] = 0
      <4> HIDE DEF c, k
      <4> QED BY <1>2, <2>1
    <3>2. c = 0 => leaseOf'[k] = leaseOf[k]
      BY <2>1
    <3> QED BY <2>1, <2>4, <3>1, <3>2 DEF Taker
  <2>6. SeatMoves
    <3>1. /\ IsTable(seated) /\ seated[k].t = n /\ Vacant.t = 0
          /\ \A j \in Keys \ {k} : seated[j] = seats[j]
      BY <1>2 DEF IsTable, Vacant
    <3> HIDE DEF seated, k, n
    <3>2. \A j \in Keys : publish(seated, k[1], k)[j] \in {seated[j], Vacant}
      BY <3>1 DEF publish
    <3>3. ASSUME NEW j \in Keys
          PROVE  seats'[j].t \in {0, seats[j].t} \/ (j = k /\ seats'[j].t = n)
      <4>1. seats'[j] \in {seated[j], Vacant}
        BY <2>1, <3>2
      <4> QED BY <3>1, <4>1
    <3> QED BY <2>5, <3>3 DEF SeatMoves, k, n
  <2>7. SocketMoves
    <3>1. \A x \in Sockets : sock[x] \in Socket
      BY <1>2 DEF KnownSocket
    <3>2. /\ so[s].open = sock[s].open /\ so \in [Sockets -> Socket]
          /\ \A x \in Sockets \ {s} : so[x] = sock[x]
      <4>1. sock \in [Sockets -> Socket] /\ 0 \in 0..MaxJoins
        BY <1>2, <3>1, ConstantsAssumption
      <4>2. CASE so = sock
        BY <4>1, <4>2
      <4>3. CASE so = [sock EXCEPT ![s].voice = 0]
        BY <4>1, <4>3 DEF Socket
      <4> QED BY <1>3, <4>2, <4>3
    <3> HIDE DEF n
    <3>3. /\ sock'[s].voice = n /\ sock'[s].open = so[s].open
          /\ \A x \in Sockets \ {s} : sock'[x] = so[x]
      BY <2>1, <3>2 DEF Socket
    <3>4. sock'[s].open = sock[s].open /\ \A x \in Sockets \ {s} : sock'[x] = sock[x]
      BY <3>2, <3>3
    <3>5. Taker(s) /\ sock'[s].voice = task[s].n
      BY <2>5, <3>3 DEF n
    <3> HIDE DEF k, c, m, others, seated, t
    <3>6. ASSUME NEW x \in Sockets
          PROVE  /\ sock'[x].open # "closed" => sock[x].open # "closed"
                 /\ \/ sock'[x].voice \in {0, sock[x].voice}
                    \/ Taker(x) /\ sock'[x].voice = task[x].n
      <4>1. CASE x = s BY <3>4, <3>5, <4>1
      <4>2. CASE x # s BY <3>4, <4>2
      <4> QED BY <4>1, <4>2
    <3> QED BY <3>6 DEF SocketMoves
  <2>8. CommandMoves
    <3>1. "occupancy" \notin ComingPcs
      BY DEF ComingPcs, EarlyPcs, HoldingPcs
    <3> HIDE DEF t
    <3>2. MayBe(s, t)
      BY <2>4, <3>1, QuietMay
    <3>3. Becomes(s, t)
      BY <2>3 DEF Becomes
    <3> QED BY <1>1, <2>4, <3>2, <3>3, OneMay
  <2>9. AllMoves
    <3>1. CASE c = 0
      BY <1>1, <2>1, <3>1, NoneMoves
    <3>2. CASE c # 0
      <4>1. Past(c) /\ joins[c] = k /\ lease[c].state = "claimed"
        BY <1>1, <2>1, <3>2 DEF Base, ClaimAt, Superseded, claimedSessionWasTerminated
      <4>2. c \in LeaseId
        <5> HIDE DEF c
        <5> QED BY <1>2, <4>1, PastNumbers
      <4> DEFINE cleared == [lease EXCEPT ![c] = NoLease]
      <4>3. cleared \in [LeaseId -> LeaseOver(Ops)] /\ cleared[c] = NoLease
            /\ \A i \in LeaseId \ {c} : cleared[i] = lease[i]
        <5>1. NoLease \in LeaseOver(Ops)
          BY NoLeaseType DEF Record
        <5> QED BY <1>2, <4>2, <5>1
      <4>4. lease' = [cleared EXCEPT ![m] = IF others = {} THEN @ ELSE lease[c]]
        BY <2>1, <3>2
      <4> HIDE DEF cleared, others, c, m, k, n
      <4>5. lease' = cleared
        BY <2>2, <4>3, <4>4
      <4>6. lease[c].fin # "run"
        BY <1>1, <4>1, <4>2, RecordThere DEF Tame
      <4>7. Reworks(lease[c], NoLease) /\ NoLease.fin = "none"
        BY <4>6, GoneReworks DEF NoLease
      <4>8. Moves(c)
        BY <4>3, <4>5, <4>7 DEF Moves
      <4> QED BY <1>1, <4>2, <4>3, <4>5, <4>8, OneMoves
    <3> QED BY <3>1, <3>2
  <2> QED BY <2>6, <2>7, <2>8, <2>9 DEF Travels
<1> QED BY <1>4, <1>5

\* A command that waits to leave a seat.
LEMMA LeaveMay ==
  ASSUME Ready, NEW s \in Sockets, NEW k \in Keys, UNCHANGED <<seats, joins>>,
         NEW waiting, IsCommand(waiting), Leave(s, k, waiting),
         \/ waiting.pc = "leave"
         \/ /\ waiting.pc = "leaveOther" /\ task[s].pc = "mute"
            /\ waiting.n = task[s].n /\ waiting.claim = task[s].claim
  PROVE  AllMoves /\ CommandMoves
<1>1. LInv /\ Base /\ Grown /\ JoinsKept /\ AwaitsInv /\ RetryInv
  BY DEF Ready
<1>2. PICK i, b : Becomes(s, Awaiting(waiting, i, b))
  BY <1>1, LeaveMoves DEF Becomes
<1> DEFINE t == Awaiting(waiting, i, b)
<1>3. IsCommand(t) /\ t.pc = waiting.pc /\ t.n = waiting.n /\ t.claim = waiting.claim
  BY DEF Awaiting, IsCommand
<1> HIDE DEF t
<1>4. MayBe(s, t)
  <2>1. CASE waiting.pc = "leave"
    <3>1. t.pc \notin ComingPcs
      BY <1>3, <2>1 DEF ComingPcs, EarlyPcs, HoldingPcs
    <3> QED BY <3>1, QuietMay
  <2>2. CASE waiting.pc # "leave"
    BY <1>3, <2>2 DEF MayBe, ComingPcs, HoldingPcs, SeatingPcs
  <2> QED BY <2>1, <2>2
<1>5. AllMoves
  BY <1>1, LeaveMoves
<1> QED BY <1>1, <1>2, <1>3, <1>4, <1>5, OneMay DEF t

\* The mute of the peer is known.
LEMMA MuteMoves ==
  ASSUME Ready, NEW s \in Sockets, LoadServerMute(s)
  PROVE  AllMoves /\ Travels
<1> DEFINE k == KeyOf(s)
           v == sock[s].voice
           elsewhere == v # 0 /\ joins[v] # k
           au == [auth EXCEPT ![k] = task[s].n]
           waiting == [task[s] EXCEPT !.pc = "leaveOther"]
           so == IF elsewhere THEN LeftBy(s, joins[v]) ELSE sock
<1>1. LInv
  BY DEF Ready
<1>2. /\ task[s].pc = "mute" /\ UNCHANGED joins
      /\ \/ (Rejected(s) \/ GivesUp(s, auth)) /\ UNCHANGED <<seats, sock>>
         \/ elsewhere /\ Leave(s, joins[v], waiting) /\ UNCHANGED <<seats, sock>>
         \/ TakeSeat(s, so, au)
  BY DEF LoadServerMute, JoinAt
<1>3. CASE (Rejected(s) \/ GivesUp(s, auth)) /\ UNCHANGED <<seats, sock>>
  <2>1. AllMoves /\ CommandMoves
    BY <1>3, EndsMay
  <2> QED BY <1>1, <1>3, <2>1, FadingMoves, SameSockets DEF Travels
<1>4. CASE elsewhere /\ Leave(s, joins[v], waiting) /\ UNCHANGED <<seats, sock>>
  <2>1. Commands
    BY <1>1, CommandsKnown DEF LInv
  <2>2. /\ IsCommand(waiting) /\ waiting.pc = "leaveOther" /\ waiting.n = task[s].n
        /\ waiting.claim = task[s].claim
    BY <2>1 DEF Commands, IsCommand
  <2>3. joins[v] \in Keys
    BY <1>1, <1>4, VoiceOfKeys DEF LInv
  <2> HIDE DEF waiting
  <2>4. AllMoves /\ CommandMoves
    BY <1>2, <1>4, <2>2, <2>3, LeaveMay
  <2> QED BY <1>1, <1>4, <2>4, FadingMoves, SameSockets DEF Travels
<1>5. CASE TakeSeat(s, so, au)
  <2>1. so \in {sock, [sock EXCEPT ![s].voice = 0]} /\ task[s].pc \in SeatingPcs
    BY <1>2 DEF LeftBy, SeatingPcs
  <2> HIDE DEF so, au
  <2> QED BY <1>2, <1>5, <2>1, TakesMoves
<1> QED BY <1>2, <1>3, <1>4, <1>5

\* The other seat has been left.
LEMMA LeftOtherMoves ==
  ASSUME Ready, NEW s \in Sockets, LeftOther(s)
  PROVE  AllMoves /\ Travels
<1> DEFINE so == [sock EXCEPT ![s].voice = 0]
<1>1. /\ LInv /\ task[s].pc \in SeatingPcs /\ joins' = joins
      /\ (GivesUp(s, auth) /\ UNCHANGED <<seats, sock>>) \/ TakeSeat(s, so, auth)
  BY DEF Ready, LeftOther, SeatingPcs
<1>2. CASE GivesUp(s, auth) /\ UNCHANGED <<seats, sock>>
  <2>1. AllMoves /\ CommandMoves
    BY <1>2, EndsMay
  <2> QED BY <1>1, <1>2, <2>1, FadingMoves, SameSockets DEF Travels
<1>3. so \in {sock, [sock EXCEPT ![s].voice = 0]}
  OBVIOUS
<1> HIDE DEF so
<1> QED BY <1>1, <1>2, <1>3, TakesMoves

\* A socket that asks to leave, or has left, its seat.
LEMMA LeavingMoves ==
  ASSUME Ready, NEW s \in Sockets, (\E n \in JoinId : LeaveRequest(s, n)) \/ LeaveResumes(s)
  PROVE  AllMoves /\ Travels
<1>1. LInv /\ Base /\ Grown /\ JoinsKept /\ AwaitsInv /\ RetryInv
  BY DEF Ready
<1>2. ASSUME NEW k, sock' \in {sock, LeftBy(s, k)} PROVE SocketMoves
  <2>1. sock' = sock \/ sock' = [sock EXCEPT ![s].voice = 0]
    BY <1>2 DEF LeftBy
  <2> QED BY <1>1, <2>1, SameSockets, LeftSockets
<1>3. ASSUME NEW n \in JoinId, LeaveRequest(s, n) PROVE AllMoves /\ Travels
  <2> DEFINE k == joins[n]
             waiting == [Idle EXCEPT !.pc = "leave", !.n = n]
  <2>1. /\ UNCHANGED <<seats, joins>> /\ n <= Len(joins)
        /\ \/ Leave(s, k, waiting) /\ UNCHANGED sock
           \/ sock' = LeftBy(s, k) /\ UNCHANGED <<task, lease>>
    BY <1>3 DEF LeaveRequest
  <2>2. k \in Keys
    <3>1. Len(joins) \in Nat /\ joins \in Seq(Keys)
      BY <1>1 DEF LInv, TInv, JoinsInv
    <3>2. n \in 1..Len(joins)
      <4> HIDE DEF k
      <4> QED BY <2>1, <3>1, ConstantsAssumption DEF JoinId
    <3> QED BY <3>1, <3>2, ElementOfSeq
  <2>3. CASE Leave(s, k, waiting) /\ UNCHANGED sock
    <3>1. IsCommand(waiting) /\ waiting.pc = "leave"
      BY DEF IsCommand, Idle
    <3> HIDE DEF waiting, k
    <3>2. AllMoves /\ CommandMoves
      BY <2>1, <2>2, <2>3, <3>1, LeaveMay
    <3> QED BY <1>1, <2>1, <2>3, <3>2, FadingMoves, SameSockets DEF Travels
  <2>4. CASE sock' = LeftBy(s, k) /\ UNCHANGED <<task, lease>>
    <3> HIDE DEF k
    <3>1. SocketMoves
      BY <1>2, <2>4
    <3>2. AllMoves /\ CommandMoves
      BY <1>1, <2>4, NoneMoves, NoneMay
    <3> QED BY <1>1, <2>1, <3>1, <3>2, FadingMoves DEF Travels
  <2> QED BY <2>1, <2>3, <2>4
<1>4. CASE LeaveResumes(s)
  <2>1. /\ sock' \in {sock, LeftBy(s, KeyOf(s))}
        /\ task' = [task EXCEPT ![s] = Idle] /\ UNCHANGED <<seats, lease>>
    BY <1>4 DEF LeaveResumes
  <2>2. IsCommand(Idle) /\ Idle.pc \notin ComingPcs
    BY DEF IsCommand, Idle, ComingPcs, EarlyPcs, HoldingPcs
  <2>3. MayBe(s, Idle)
    BY <2>2, QuietMay
  <2>4. AllMoves /\ CommandMoves
    BY <1>1, <2>1, <2>2, <2>3, NoneMoves, OneMay DEF Becomes
  <2> QED BY <1>1, <1>2, <2>1, <2>4, FadingMoves DEF Travels
<1> QED BY <1>3, <1>4

\* A socket that stops taking writes, or closes and leaves its seat to a lease.
LEMMA ClosingMoves ==
  ASSUME Ready, NEW s \in Sockets, SocketDies(s) \/ SocketCloses(s)
  PROVE  AllMoves /\ Travels
<1>1. LInv /\ Base /\ Grown /\ JoinsKept /\ AwaitsInv /\ RetryInv
  BY DEF Ready
<1>2. CommandMoves
  <2>1. task' = task
    BY DEF SocketDies, SocketCloses
  <2> QED BY <1>1, <2>1, NoneMay
<1>3. /\ sock \in [Sockets -> KnownSocket(Len(joins))] /\ \A x \in Sockets : sock[x] \in Socket
      /\ seats \in [Keys -> Seat]
  BY <1>1 DEF LInv, TInv, RosterInv, KnownSocket
<1>4. CASE SocketDies(s)
  <2>1. /\ UNCHANGED <<seats, lease>> /\ sock[s].open = "open"
        /\ sock' = [sock EXCEPT ![s].open = "dead"]
    BY <1>4 DEF SocketDies
  <2>2. \A x \in Sockets : /\ sock'[x].voice = sock[x].voice
                           /\ sock'[x].open # "closed" => sock[x].open # "closed"
    BY <1>3, <2>1 DEF Socket
  <2>3. SocketMoves
    BY <2>2 DEF SocketMoves
  <2> QED BY <1>1, <1>2, <2>1, <2>3, FadingMoves, NoneMoves DEF Travels
<1>5. CASE SocketCloses(s)
  <2> DEFINE v == sock[s].voice
             k == joins[v]
             le == createReconnectLease(seats, {k})
  <2>1. /\ ~Prompt /\ sock' = [sock EXCEPT ![s] = [open |-> "closed", voice |-> 0]]
        /\ \/ v # 0 /\ seats[k].t = v /\ seats' = [seats EXCEPT ![k].conn = NoSocket]
              /\ lease' = [le EXCEPT ![v].disc = TRUE] /\ joins' = joins
           \/ UNCHANGED <<seats, lease>>
    BY <1>5 DEF SocketCloses
  <2>2. /\ sock'[s].voice = 0 /\ sock'[s].open = "closed"
        /\ \A x \in Sockets \ {s} : sock'[x] = sock[x]
    BY <1>3, <2>1
  <2>3. SocketMoves
    BY <2>2 DEF SocketMoves
  <2>4. CASE UNCHANGED <<seats, lease>>
    BY <1>1, <1>2, <2>3, <2>4, FadingMoves, NoneMoves DEF Travels
  <2>5. CASE /\ v # 0 /\ seats[k].t = v /\ seats' = [seats EXCEPT ![k].conn = NoSocket]
             /\ lease' = [le EXCEPT ![v].disc = TRUE] /\ joins' = joins
    <3>1. k \in Keys
      BY <1>1, <2>5, VoiceOfKeys DEF LInv
    <3>2. /\ \A j \in Keys : seats'[j].t = seats[j].t
          /\ v \in 1..MaxJoins
      <4> HIDE DEF v, k, le
      <4>1. seats[k].t \in 0..MaxJoins
        BY <1>3, <3>1 DEF Seat
      <4> QED BY <1>3, <2>5, <4>1, ConstantsAssumption DEF Seat
    <3>3. SeatMoves
      BY <3>2 DEF SeatMoves
    <3>4. OpensFor(seats, {k})
      <4>1. {k} \in SUBSET Keys
        BY <3>1
      <4> HIDE DEF k
      <4> QED BY <1>3, <2>5, <3>2, <4>1 DEF OpensFor
    <3>5. v \in LeaseId /\ RecordsOf(seats, {k}) = {v}
      <4>1. \A i \in 1..MaxJoins : i \in LeaseId
        BY ConstantsAssumption DEF LeaseId
      <4> QED BY <2>5, <3>2, <4>1 DEF RecordsOf, RecordFor
    <3>6. \A n \in LeaseId :
            /\ le[n] = lease[n] \/ (lease[n].fin # "run" /\ le[n].fin = "none")
            /\ \/ le[n] = lease[n] \/ le[n] = NoLease
               \/ /\ le[n] = [NoLease EXCEPT !.state = "pending"]
                  /\ lease[n].state = "none" /\ n \in RecordsOf(seats, {k})
      <4> HIDE DEF k
      <4> QED BY <1>1, <3>4, OpenedMoves
    <3>7. le[v].state \notin {"none", "terminal"} /\ Tame(le[v])
      <4> HIDE DEF k, v
      <4>1. v \in RecordsOf(seats, {k})
        BY <3>5
      <4> QED BY <1>1, <3>4, <3>5, <4>1, OpenedThere
    <3>8. lease'[v] = [le[v] EXCEPT !.disc = TRUE] /\ \A n \in LeaseId \ {v} : lease'[n] = le[n]
      <4>1. le = [n \in LeaseId |-> le[n]]
        BY DEF createReconnectLease
      <4> HIDE DEF le, v, k
      <4> QED BY <2>5, <3>5, <4>1
    <3> HIDE DEF le, v, k
    <3>9. lease \in [LeaseId -> LeaseOver(Ops)] /\ NoLease.fin = "none" /\ NoLease.state = "none"
      BY <1>1, RecordTypes DEF LInv, NoLease
    <3>10. ASSUME NEW n \in LeaseId \ {v} PROVE Moves(n)
      <4>1. lease'[n] = lease[n] \/ (lease[n].fin # "run" /\ lease'[n] = NoLease)
        BY <3>5, <3>6, <3>8, <3>10
      <4>2. Reworks(lease[n], lease'[n])
        BY <3>9, <4>1, SameReworks, GoneReworks
      <4> QED BY <3>9, <4>1, <4>2 DEF Moves
    <3>11. Moves(v)
      <4>1. CASE le[v] = lease[v]
        <5>1. lease'[v] = [lease[v] EXCEPT !.disc = TRUE] /\ lease[v] \in LeaseOver(Ops)
          BY <3>5, <3>8, <3>9, <4>1
        <5>2. lease'[v].fin = lease[v].fin
          BY <5>1 DEF LeaseOver
        <5>3. Reworks(lease[v], lease'[v])
          BY <5>1, FlagsRework
        <5> QED BY <5>2, <5>3 DEF Moves
      <4>2. CASE le[v] # lease[v]
        <5>1. /\ le[v] = [NoLease EXCEPT !.state = "pending"] /\ lease[v].state = "none"
              /\ lease[v].fin # "run"
          BY <3>5, <3>6, <3>7, <3>9, <4>2
        <5>2. /\ [NoLease EXCEPT !.state = "pending"] \in LeaseOver(Ops)
              /\ [NoLease EXCEPT !.state = "pending"].fin = "none"
              /\ [NoLease EXCEPT !.state = "pending"].state = "pending"
          BY NoLeaseType DEF Record, LeaseOver, LeaseStates, NoLease
        <5>a. le[v] \in LeaseOver(Ops) /\ le[v].fin = "none" /\ le[v].state = "pending"
          BY <5>1, <5>2
        <5>5. lease'[v].fin = "none" /\ lease'[v].state = "pending"
          BY <3>8, <5>a DEF LeaseOver
        <5>3. Reworks(lease[v], lease'[v])
          BY <2>1, <5>1, <5>5 DEF Reworks, FailedStates
        <5> QED BY <5>3, <5>5 DEF Moves
      <4> QED BY <4>1, <4>2
    <3>12. AllMoves
      BY <3>10, <3>11 DEF AllMoves
    <3> QED BY <1>2, <2>3, <3>3, <3>12 DEF Travels
  <2> QED BY <2>1, <2>4, <2>5
<1> QED BY <1>4, <1>5

-----------------------------------------------------------------------------
(* Timers, requests and events. *)

\* Timers of leases.
LEMMA TimerMoves ==
  ASSUME Ready, NEW n \in LeaseId, Timer(n)
  PROVE  AllMoves /\ Travels
<1>1. LInv /\ Base /\ Grown /\ JoinsKept /\ AwaitsInv /\ RetryInv
  BY DEF Ready
<1>2. UNCHANGED <<seats, sock>>
  BY DEF Timer, LeaseExpires, DeadlinePasses, TerminalForgotten, FinalizerStep
<1>3. SeatMoves /\ SocketMoves
  BY <1>1, <1>2, FadingMoves, SameSockets
<1>4. lease \in [LeaseId -> LeaseOver(Ops)]
  BY <1>1, RecordTypes DEF LInv
<1>5. CASE LeaseExpires(n)
  <2> DEFINE q == Started(seats, n, [lease[n] EXCEPT !.state = "finalizing-expiry",
                                                     !.due = TRUE])
  <2>1. /\ lease[n].state = "pending" /\ lease' = LeasePut(lease, seats, n, q)
        /\ task' = TaskPut(task, n, q)
    BY <1>5 DEF LeaseExpires, FinalizerStep
  <2>2. lease[n] \in LeaseOver(Ops) /\ Tame(lease[n])
    BY <1>1, <2>1, RecordThere
  <2>3. TameStep(lease[n], q, ~currentLeasePeer(seats, n))
    BY <2>1, <2>2, ExpiryTame
  <2>4. q \in LeaseOver(Ops) /\ Reworks(lease[n], q)
    <3>1. lease[n].fin = "none"
      BY <2>1, <2>2 DEF Tame
    <3> QED BY <2>2, <3>1, ExpiryReworks
  <2> HIDE DEF q
  <2>5. AllMoves /\ Tells(n, q)
    BY <1>1, <2>1, <2>3, <2>4, PutMoves DEF TameStep
  <2>6. CommandMoves
    BY <1>1, <2>1, <2>5, NoneMay
  <2> QED BY <1>3, <2>5, <2>6 DEF Travels
<1>6. CASE DeadlinePasses(n)
  <2>1. lease' = [lease EXCEPT ![n].due = TRUE] /\ task' = task
    BY <1>6 DEF DeadlinePasses
  <2>2. lease'[n] = [lease[n] EXCEPT !.due = TRUE] /\ \A m \in LeaseId \ {n} : lease'[m] = lease[m]
    BY <1>4, <2>1
  <2>3. lease'[n].fin = lease[n].fin
    BY <1>4, <2>2 DEF LeaseOver
  <2>4. Reworks(lease[n], lease'[n])
    BY <1>4, <2>2, FlagsRework
  <2>5. Moves(n)
    BY <2>3, <2>4 DEF Moves
  <2> QED BY <1>1, <1>3, <2>1, <2>2, <2>5, OneMoves, NoneMay DEF Travels
<1>7. CASE TerminalForgotten(n)
  <2>1. /\ lease[n].state = "terminal" /\ lease' = [lease EXCEPT ![n] = NoLease]
        /\ task' = task
    BY <1>7 DEF TerminalForgotten
  <2>2. lease[n].fin # "run"
    BY <1>1, <2>1, RecordThere DEF Tame, FinalizingStates
  <2>3. lease'[n] = NoLease /\ \A m \in LeaseId \ {n} : lease'[m] = lease[m]
    BY <1>4, <2>1
  <2>a. NoLease.fin = "none"
    BY DEF NoLease
  <2>4. Reworks(lease[n], lease'[n]) /\ lease'[n].fin = "none"
    BY <2>2, <2>3, <2>a, GoneReworks
  <2>5. Moves(n)
    BY <2>4 DEF Moves
  <2> QED BY <1>1, <1>3, <2>1, <2>3, <2>5, OneMoves, NoneMay DEF Travels
<1> QED BY <1>5, <1>6, <1>7 DEF Timer

\* Seats claimed by a request: their finalizers owe it its callback.
LEMMA ClaimSeatsMoves ==
  ASSUME Ready, NEW o \in Ops, NEW request, NEW ks \in SUBSET Keys, ClaimSeats(o, request, ks),
         UNCHANGED <<seats, joins>>
  PROVE  /\ AllMoves
         /\ \A n \in RecordsOf(seats, ks) \cap LeaseId :
              lease'[n].fin = "run" /\ o \in Evictions => Owes(lease'[n], o)
<1> DEFINE q == <<o>>
<1>1. LInv /\ Base /\ AwaitsInv
  BY DEF Ready
<1>2. q \in Seq(Ops) /\ q # <<>> /\ OpensFor(seats, ks)
  BY <1>1, OpensHere
<1>3. KindOf(o) \in Reasons /\ KindOf(o) # ""
  <2>1. op[o] \in Request
    BY <1>1, RequestKey DEF LInv
  <2> QED BY <2>1 DEF KindOf, Request, Reasons, AllKinds
<1>4. lease' = TerminalLeases(seats, ks, KindOf(o), q)
  BY DEF ClaimSeats
<1>5. q = <<o>>
  OBVIOUS
<1> HIDE DEF q
<1>6. /\ AllMoves
      /\ \A n \in RecordsOf(seats, ks) \cap LeaseId : lease'[n].fin = "run" =>
           \A b \in Evictions : q = <<b>> => Owes(lease'[n], b)
  BY <1>1, <1>2, <1>3, <1>4, EndedMoves
<1> QED BY <1>5, <1>6

\* Requests claim seats, tell the room, and detach sockets.
LEMMA AskMoves ==
  ASSUME Ready, NEW o \in Ops, Moderation(o) \/ RequestStep(o)
  PROVE  AllMoves /\ Travels
<1>1. LInv /\ Base /\ Grown /\ JoinsKept /\ AwaitsInv /\ RetryInv
  BY DEF Ready
<1>2. /\ task' = task
      /\ seats' = seats \/ \E r, except : seats' = publish(seats, r, except)
      /\ sock' = sock \/ sock' = detachVoicePeer(sock, op[o].todo)
  BY DEF Moderation, RequestStep, Kick, Ban, PutBan, DeleteRoom, DisconnectAccountFromRoom,
         PersistBan, AfterBanCommitted, FinishRoomDeletion, RequestResumes
<1>3. Travels
  BY <1>1, <1>2, FadingMoves, SameSockets, DetachedSockets, NoneMay DEF Travels
<1>4. ASSUME NEW request, NEW ks \in SUBSET Keys, ClaimSeats(o, request, ks),
             UNCHANGED <<seats, joins>>
      PROVE  AllMoves
  BY <1>4, ClaimSeatsMoves
<1>5. ASSUME NEW todo \in SUBSET Keys, Disconnect(o, todo), UNCHANGED <<seats, joins>>
      PROVE  AllMoves
  <2>1. CASE todo = {}
    BY <1>1, <1>5, <2>1, NoneMoves DEF Disconnect
  <2>2. CASE todo # {}
    <3>1. PICK k \in todo : ClaimSeats(o, [op[o] EXCEPT !.todo = todo \ {k}], {k})
      BY <1>5, <2>2 DEF Disconnect
    <3>2. {k} \in SUBSET Keys
      BY <1>5
    <3> QED BY <1>4, <1>5, <3>1, <3>2
  <2> QED BY <2>1, <2>2
<1>6. \A k : Occupants(k) \in SUBSET Keys
  BY DEF Occupants, Occupied
<1>7. ASSUME NEW k \in Keys, Kick(o, k) PROVE AllMoves
  <2>1. {k} \in SUBSET Keys
    OBVIOUS
  <2> QED BY <1>4, <1>7, <2>1 DEF Kick
<1>8. ASSUME NEW k \in Keys, Ban(o, k) PROVE AllMoves
  BY <1>4, <1>6, <1>8 DEF Ban
<1>9. ASSUME NEW k \in Keys, PutBan(o, k) \/ DeleteRoom(o, k) PROVE AllMoves
  BY <1>1, <1>9, NoneMoves DEF PutBan, DeleteRoom
<1>10. ASSUME NEW k \in Keys, DisconnectAccountFromRoom(o, k) PROVE AllMoves
  <2> DEFINE held == {j \in Keys : leaseOf[j] # 0 /\ SameUser(j, k)} \cup Occupants(k)
  <2>1. held \in SUBSET Keys
    BY <1>6
  <2>2. ClaimSeats(o, [op[o] EXCEPT !.key = k, !.todo = Occupants(k)], held)
        /\ UNCHANGED <<seats, joins>>
    BY <1>10 DEF DisconnectAccountFromRoom
  <2> HIDE DEF held
  <2> QED BY <1>4, <2>1, <2>2
<1>11. ASSUME PersistBan(o) PROVE AllMoves
  BY <1>1, <1>11, NoneMoves DEF PersistBan
<1>12. ASSUME AfterBanCommitted(o) PROVE AllMoves
  <2>1. UNCHANGED <<seats, joins>>
    BY <1>12 DEF AfterBanCommitted
  <2>2. Disconnect(o, Occupants(op[o].key)) \/ UNCHANGED lease
    BY <1>12 DEF AfterBanCommitted
  <2> QED BY <1>1, <1>5, <1>6, <2>1, <2>2, NoneMoves
<1>13. ASSUME RequestResumes(o) PROVE AllMoves
  <2>1. UNCHANGED <<seats, joins>>
    BY <1>13 DEF RequestResumes
  <2>2. Disconnect(o, op[o].todo) \/ UNCHANGED lease
    BY <1>13 DEF RequestResumes
  <2>3. op[o].todo \in SUBSET Keys
    <3>1. op[o] \in Request
      BY <1>1, RequestKey DEF LInv
    <3> QED BY <3>1 DEF Request
  <2> QED BY <1>1, <1>5, <2>1, <2>2, <2>3, NoneMoves
<1>14. ASSUME FinishRoomDeletion(o) PROVE AllMoves
  <2> DEFINE st == publish(seats, op[o].key[1], NoKey)
             ks == {k \in Keys : k[1] = op[o].key[1]}
             q == <<o>>
  <2>1. lease' = TerminalLeases(st, ks, "delete", q) /\ seats' = st /\ UNCHANGED joins
    BY <1>14 DEF FinishRoomDeletion
  <2>2. /\ seats \in [Keys -> Seat] /\ IsTable(seats) /\ "delete" \in Reasons /\ "delete" # ""
        /\ q \in Seq(Ops) /\ q # <<>> /\ ks \in SUBSET Keys
    BY <1>1, SeatsFade DEF LInv, TInv, RosterInv, Reasons, AllKinds
  <2>3. st \in [Keys -> Seat] /\ FadesTo(seats, st)
    BY <1>1, <2>2, PublishType, ToldFades DEF LInv
  <2> HIDE DEF st, ks, q
  <2>4. \A k \in Keys : st[k].t \in {0, seats[k].t}
    BY <2>2, <2>3, FadesApart
  <2>5. OpensFor(st, ks)
    BY <2>1, <2>2, <2>3, <2>4 DEF OpensFor
  <2> QED BY <1>1, <2>1, <2>2, <2>5, EndedMoves
<1>15. AllMoves
  BY <1>7, <1>8, <1>9, <1>10, <1>11, <1>12, <1>13, <1>14 DEF Moderation, RequestStep
<1> QED BY <1>3, <1>15

\* Other events of a room.
LEMMA EventMoves ==
  ASSUME Ready, NEW r \in Rooms, PublishRoomEvent(r)
  PROVE  AllMoves /\ Travels
<1>1. /\ LInv /\ RetryInv /\ JoinsKept
      /\ UNCHANGED <<lease, sock, task>> /\ seats' = publish(seats, r, NoKey)
  BY DEF Ready, PublishRoomEvent
<1> QED BY <1>1, FadingMoves, SameSockets, NoneMay, NoneMoves DEF Travels

-----------------------------------------------------------------------------
(* Steps of finalizers. *)

\* What a finalizer makes of its record: it settles, or awaits a call.
Onward(r, q) == Runs(q) /\ q.reason = r.reason /\ (q.stage = "settle" \/ Awaits(q))

\* The identity of the peer is invalidated, if there is one.
Invalidates(n) ==
  /\ lease[n].stage = "identity"
  /\ identity[LeaseKey(n)] # "free" => identity'[LeaseKey(n)] = "invalidated"

\* A step of a finalizer: what it owes it goes on to owe, unless it tells of a failure
\* or it has just invalidated the identity.
Heeded(n) == \A b \in Ops : n \in op[b].wait => op'[b].err
Finalizes(n) ==
  /\ \A m \in LeaseId \ {n} : lease'[m] = lease[m]
  /\ lease[n].fin = "run"
  /\ lease'[n].fin = "run" => Awaits(lease'[n])
  /\ lease'[n].state \notin HeldStates
  /\ lease'[n].state \in FailedStates => ~Prompt
  /\ \A o \in Evictions : Owes(lease[n], o) =>
       Owes(lease'[n], o) \/ Heeded(n) \/ Invalidates(n)

\* The record once its finalizer has gone on.
LEMMA OwesPut ==
  ASSUME LInv, NEW n \in LeaseId, lease[n].fin = "run", NEW q, Onward(lease[n], q), NEW st,
         lease' = LeasePut(lease, st, n, q),
         q.stage = "settle" => ~Prompt /\ \E ops : AsWaiting(ops) /\ op' = OpPut(ops, n, q),
         \A o \in Evictions : Owes(lease[n], o) => Owed(q, o) \/ Invalidates(n)
  PROVE  Finalizes(n)
<1>1. lease \in [LeaseId -> LeaseOver(Ops)] /\ q \in LeaseOver(Ops) /\ q.fin = "run"
  BY RecordTypes DEF LInv, Onward, Runs
<1>2. lease'[n] = Finish(st, n, q) /\ \A m \in LeaseId \ {n} : lease'[m] = lease[m]
  BY <1>1 DEF LeasePut
<1>3. CASE q.stage # "settle"
  <2>1. lease'[n] = q
    BY <1>2, <1>3 DEF Finish
  <2>2. q.state \notin HeldStates \cup FailedStates
    BY DEF Onward, Runs, FinalizingStates, HeldStates, FailedStates
  <2>3. ASSUME NEW o \in Evictions, Owes(lease[n], o), Owed(q, o) PROVE Owes(q, o)
    BY <1>1, <2>3 DEF Owes, Onward
  <2> QED BY <1>1, <1>2, <1>3, <2>1, <2>2, <2>3 DEF Finalizes, Onward
<1>4. CASE q.stage = "settle"
  <2> DEFINE done == [q EXCEPT !.fin = Result(q), !.cb = NoOp, !.stage = "",
                               !.idx = 1, !.owned = FALSE, !.fail = "no"]
  <2>1. \/ lease'[n] = NoLease
        \/ \E state \in FailedStates \cup {"terminal"} : lease'[n] = [done EXCEPT !.state = state]
    <3>1. q.fail # "rollback"
      BY DEF Onward, Runs
    <3>2. Settled(st, n, q) \in {NoLease, [done EXCEPT !.state = "terminal"],
                                 [done EXCEPT !.state = "terminal-finalizer-failed"],
                                 [done EXCEPT !.state = "finalizer-failed"]}
      BY <3>1 DEF Settled
    <3>3. lease'[n] = Settled(st, n, q)
      BY <1>2, <1>4 DEF Finish
    <3> HIDE DEF done
    <3> QED BY <3>2, <3>3 DEF FailedStates
  <2>2. ASSUME NEW state
        PROVE  [done EXCEPT !.state = state].fin = Result(q)
               /\ [done EXCEPT !.state = state].state = state
    <3>1. done \in [state : {done.state}, disc : {done.disc}, due : {done.due},
                    taken : {done.taken}, reason : {done.reason}, atSeq : {done.atSeq},
                    cbs : {done.cbs}, idx : {done.idx}, fin : {done.fin}, cb : {done.cb},
                    stage : {done.stage}, owned : {done.owned}, fail : {done.fail}]
      BY <1>1 DEF LeaseOver
    <3>2. done.fin = Result(q)
      BY <1>1 DEF LeaseOver
    <3> HIDE DEF done
    <3> QED BY <3>1, <3>2
  <2>3. Result(q) \in {"ok", "err"} /\ (q.fail # "no" => Result(q) = "err")
    BY DEF Result
  <2>4. NoLease.fin = "none" /\ NoLease.state = "none"
    BY DEF NoLease
  <2>5. lease'[n].fin # "run" /\ lease'[n].state \notin HeldStates
    <3> HIDE DEF done
    <3> QED BY <2>1, <2>2, <2>3, <2>4 DEF HeldStates, FailedStates
  <2>6. ASSUME NEW o \in Evictions, Owed(q, o) PROVE Heeded(n)
    <3>1. Result(q) = "err"
      BY <1>4, <2>3, <2>6 DEF Owed
    <3>2. PICK ops : AsWaiting(ops) /\ op' = OpPut(ops, n, q)
      BY <1>4
    <3>3. ASSUME NEW b \in Ops, n \in op[b].wait PROVE op'[b].err
      <4> DEFINE a == [ops[b] EXCEPT !.wait = @ \ {n}, !.err = @ \/ Result(q) = "err"]
      <4>1. n \in ops[b].wait /\ ops[b] \in Request
        BY <3>2, <3>3 DEF AsWaiting
      <4>2. op'[b] = a
        BY <1>4, <3>2, <4>1 DEF OpPut
      <4>3. a.err = (ops[b].err \/ Result(q) = "err")
        BY <4>1 DEF Request
      <4> HIDE DEF a
      <4> QED BY <3>1, <4>2, <4>3
    <3> QED BY <3>3 DEF Heeded
  <2> QED BY <1>2, <1>4, <2>5, <2>6 DEF Finalizes
<1> QED BY <1>3, <1>4

\* The record between two calls of one callback: q, or w when the outcome is noted.
Staged(r, ok, stage, q, w) ==
  /\ Onward(r, q) /\ Onward(r, w) /\ q.stage = stage /\ w.stage = stage
  /\ q.cb = r.cb /\ w.cb = r.cb /\ q.fail = r.fail
  /\ w.fail = IF r.fail = "no" /\ ~ok THEN "plain" ELSE r.fail
  /\ \A o : Remains(r, o) => Remains(q, o) /\ Remains(w, o)

\* Going on from one call of a callback to the next owes what it owed.
LEMMA StageOwes ==
  ASSUME NEW r, Runs(r), Awaits(r), NEW ok \in BOOLEAN,
         NEW stage \in {"revoke", "identity", "participant"}
  PROVE  Staged(r, ok, stage, [r EXCEPT !.stage = stage], [Noted(r, ok) EXCEPT !.stage = stage])
<1> DEFINE q == [r EXCEPT !.stage = stage]
           fail == IF r.fail = "no" /\ ~ok THEN "plain" ELSE r.fail
           w == [[r EXCEPT !.fail = fail] EXCEPT !.stage = stage]
<1>1. Runs(q) /\ Runs([Noted(r, ok) EXCEPT !.stage = stage])
  BY RunningTame
<1>2. [Noted(r, ok) EXCEPT !.stage = stage] = w
  BY DEF Noted, Runs, LeaseOver
<1>3. r \in LeaseOver(Ops)
  BY DEF Runs
<1>4. /\ q.stage = stage /\ q.cb = r.cb /\ q.fail = r.fail /\ q.idx = r.idx /\ q.cbs = r.cbs
      /\ q.reason = r.reason
  BY <1>3 DEF LeaseOver
<1>5. /\ w.stage = stage /\ w.cb = r.cb /\ w.fail = fail /\ w.idx = r.idx /\ w.cbs = r.cbs
      /\ w.reason = r.reason
  <2> HIDE DEF fail
  <2> QED BY <1>3 DEF LeaseOver
<1> HIDE DEF q, w
<1>6. Awaits(q) /\ Awaits(w)
  BY <1>4, <1>5 DEF Awaits, AwaitStages
<1>7. Staged(r, ok, stage, q, w)
  BY <1>1, <1>2, <1>4, <1>5, <1>6 DEF Onward, Remains, Staged
<1>8. q = [r EXCEPT !.stage = stage] /\ w = [Noted(r, ok) EXCEPT !.stage = stage]
  BY <1>2 DEF q
<1> QED BY <1>7, <1>8, Zenon

\* What a finalizer does next: how its record goes on, and that of the roster and the
\* sockets only the seat of its lease is touched.
Goes(n, q, st, so) ==
  /\ FinalizerStep(n, q, st, so) /\ q \in LeaseOver(Ops)
  /\ st \in {seats, closePeer(seats, LeaseKey(n), TransportOf(n))}
  /\ so \in {sock, detachVoicePeer(sock, {LeaseKey(n)})}
  /\ Onward(lease[n], q)
  /\ q.stage = "settle" => ~Prompt /\ \E ops : AsWaiting(ops) /\ op' = OpPut(ops, n, q)
  /\ \A o \in Evictions : Owes(lease[n], o) => Owed(q, o) \/ Invalidates(n)
Going(n) == \E q, st, so : Goes(n, q, st, so)

\* A finalizer that awaits a call runs.
LEMMA StageRuns ==
  ASSUME Ready, NEW n \in LeaseId, lease[n].stage # ""
  PROVE  /\ Runs(lease[n]) /\ Awaits(lease[n]) /\ Tame(lease[n])
         /\ lease[n] \in LeaseOver(Ops) /\ lease[n].state # "none" /\ n # 0
<1>1. /\ LInv /\ Base /\ AwaitsInv /\ RecordAt(n) /\ n # 0
      /\ lease[n] \in LeaseOver(Ops)
  BY RecordTypes, NoRecordZero DEF Ready, LInv, Base
<1>2. lease[n].state # "none"
  <2>1. NoLease.stage = ""
    BY DEF NoLease
  <2> QED BY <1>1, <2>1 DEF RecordAt
<1>3. Tame(lease[n])
  BY <1>1, <1>2 DEF RecordAt
<1>4. lease[n].fin = "run"
  BY <1>3 DEF Tame
<1> QED BY <1>1, <1>2, <1>3, <1>4 DEF Runs, Tame, AwaitsInv

\* A callback that has ended, with the calls that remain.
LEMMA ReturnedGoes ==
  ASSUME NEW r, Runs(r), Awaits(r), NEW released \in BOOLEAN, NEW failure \in {"no", "plain"}
  PROVE  LET q == Returned(r, released, failure)
         IN /\ q \in LeaseOver(Ops) /\ Onward(r, q)
            /\ \A o \in Evictions : r.fail # "no" \/ failure # "no" \/ Remains(r, o)
                                    => Owed(q, o)
<1>1. r \in LeaseOver(Ops) /\ r.idx <= Len(r.cbs) + 1
  BY DEF Runs, Awaits
<1>2. failure \in {"no", "plain", "rollback"}
  OBVIOUS
<1> DEFINE q == Returned(r, released, failure)
<1>3. Runs(q)
  BY ReturnedRuns
<1>4. /\ q.stage = "settle" \/ Awaits(q)
      /\ q.reason = r.reason
      /\ \A o \in Evictions : r.fail # "no" \/ failure # "no" \/ Remains(r, o) => Owed(q, o)
  BY <1>1, <1>2, ReturnedOwes
<1> HIDE DEF q
<1>5. q \in LeaseOver(Ops) /\ Onward(r, q)
  BY <1>3, <1>4 DEF Onward, Runs
<1> QED BY <1>4, <1>5 DEF q

\* The prerequisite is done.
LEMMA PrereqGoes ==
  ASSUME Ready, NoBanRefused, NEW n \in LeaseId, PrerequisiteDone(n)
  PROVE  Going(n)
<1> DEFINE r == lease[n]
           o == r.cb
           q(stage) == [r EXCEPT !.stage = stage]
           closed == IF r.owned THEN seats ELSE closePeer(seats, LeaseKey(n), TransportOf(n))
           apart == detachVoicePeer(sock, {LeaseKey(n)})
<1>1. r.stage = "prereq"
  BY DEF PrerequisiteDone
<1>2. Runs(r) /\ Awaits(r) /\ Tame(r)
  BY <1>1, StageRuns
<1>3. o \in Ops /\ op[o].pre # "failed"
  BY <1>1, <1>2 DEF Tame, NoBanRefused
<1>4. \/ KindOf(o) = "kick" /\ FinalizerStep(n, q("revoke"), seats, sock)
      \/ FinalizerStep(n, q("identity"), closed, apart)
  BY <1>3 DEF PrerequisiteDone, Evicted
<1>5. ASSUME NEW stage \in {"revoke", "identity"}
      PROVE  /\ Onward(r, q(stage)) /\ q(stage).stage = stage /\ q(stage).cb = r.cb
             /\ q(stage).fail = r.fail /\ q(stage) \in LeaseOver(Ops)
             /\ \A b : Remains(r, b) => Remains(q(stage), b)
  <2>1. stage \in {"revoke", "identity", "participant"}
    OBVIOUS
  <2>2. Staged(r, TRUE, stage, q(stage), [Noted(r, TRUE) EXCEPT !.stage = stage])
    <3> HIDE DEF r
    <3> QED BY <1>2, <2>1, StageOwes
  <2> HIDE DEF q
  <2> QED BY <2>2 DEF Staged, Onward, Runs
<1> HIDE DEF q, closed, apart
<1>6. closed \in {seats, closePeer(seats, LeaseKey(n), TransportOf(n))}
  BY DEF closed
<1>7. CASE KindOf(o) = "kick" /\ FinalizerStep(n, q("revoke"), seats, sock)
  <2>1. ASSUME NEW b \in Evictions, Owes(r, b) PROVE Owed(q("revoke"), b)
    BY <1>1, <1>5, <1>7, <2>1 DEF Owes, Owed, Calls
  <2>2. Goes(n, q("revoke"), seats, sock)
    BY <1>5, <1>7, <2>1 DEF Goes
  <2> QED BY <2>2 DEF Going
<1>8. CASE FinalizerStep(n, q("identity"), closed, apart)
  <2>1. ASSUME NEW b \in Evictions, Owes(r, b) PROVE Owed(q("identity"), b)
    BY <1>1, <1>5, <2>1 DEF Owes, Owed, Calls
  <2>2. Goes(n, q("identity"), closed, apart)
    BY <1>5, <1>6, <1>8, <2>1 DEF Goes, apart
  <2> QED BY <2>2 DEF Going
<1> QED BY <1>4, <1>7, <1>8

\* The credentials are revoked, or are not.
LEMMA RevokeGoes ==
  ASSUME Ready, NEW n \in LeaseId, CredentialsRevoked(n)
  PROVE  Going(n)
<1> DEFINE r == lease[n]
           c == r.cb
           shared == c \in Ops /\ KindOf(c) = "member"
           closed == IF r.owned THEN seats ELSE closePeer(seats, LeaseKey(n), TransportOf(n))
           apart == detachVoicePeer(sock, {LeaseKey(n)})
           w(ok, stage) == [Noted(r, ok) EXCEPT !.stage = stage]
           kept == Returned(r, FALSE, "plain")
           next(ok) == IF (c = NoOp \/ shared) /\ ~ok THEN kept
                       ELSE IF shared /\ r.owned THEN Returned(r, FALSE, "no")
                       ELSE w(ok, "participant")
           ops(ok) == IF shared THEN [op EXCEPT ![c].rev = IF ok THEN "ok" ELSE "failed"]
                      ELSE op
<1>1. r.stage = "revoke" /\ ~Prompt
  BY DEF CredentialsRevoked
<1>2. Runs(r) /\ Awaits(r) /\ r.fin = "run"
  BY <1>1, StageRuns DEF Runs
<1>3. PICK ok \in BOOLEAN :
        \/ c \in Ops /\ KindOf(c) = "kick" /\ FinalizerStep(n, w(ok, "identity"), closed, apart)
        \/ /\ c \in Ops => KindOf(c) # "kick"
           /\ FinalizerStep(n, next(ok), IF next(ok) = kept THEN seats ELSE closed, sock)
           /\ op' = OpPut(ops(ok), n, next(ok))
  <2>1. PICK ok \in BOOLEAN :
          \/ c \in Ops /\ KindOf(c) = "kick" /\ Evicted(n, Noted(r, ok))
          \/ /\ c \in Ops => KindOf(c) # "kick"
             /\ FinalizerStep(n, next(ok), IF next(ok) = kept THEN seats ELSE closed, sock)
             /\ op' = OpPut(ops(ok), n, next(ok))
    BY DEF CredentialsRevoked
  <2>2. Noted(r, ok).owned = r.owned
    <3> HIDE DEF r
    <3> QED BY <1>2, RunningTame
  <2>3. Evicted(n, Noted(r, ok)) => FinalizerStep(n, w(ok, "identity"), closed, apart)
    BY <2>2 DEF Evicted
  <2> QED BY <2>1, <2>3
<1>4. ASSUME NEW stage \in {"identity", "participant"}
      PROVE  /\ Onward(r, w(ok, stage)) /\ w(ok, stage).stage = stage /\ w(ok, stage).cb = r.cb
             /\ r.fail # "no" => w(ok, stage).fail # "no"
             /\ w(ok, stage) \in LeaseOver(Ops)
             /\ \A b : Remains(r, b) => Remains(w(ok, stage), b)
  <2>1. stage \in {"revoke", "identity", "participant"}
    OBVIOUS
  <2>2. Staged(r, ok, stage, [r EXCEPT !.stage = stage], w(ok, stage))
    <3> HIDE DEF r
    <3> QED BY <1>2, <2>1, StageOwes
  <2> HIDE DEF w
  <2> QED BY <2>2 DEF Staged, Onward, Runs
<1>5. closed \in {seats, closePeer(seats, LeaseKey(n), TransportOf(n))}
  OBVIOUS
<1> HIDE DEF closed, w
<1>6. CASE c \in Ops /\ KindOf(c) = "kick" /\ FinalizerStep(n, w(ok, "identity"), closed, apart)
  <2> HIDE DEF apart
  <2>1. ASSUME NEW b \in Evictions, Owes(r, b) PROVE Owed(w(ok, "identity"), b)
    BY <1>1, <1>4, <2>1 DEF Owes, Owed, Calls
  <2>2. Goes(n, w(ok, "identity"), closed, apart)
    BY <1>4, <1>5, <1>6, <2>1 DEF Goes, apart
  <2> QED BY <2>2 DEF Going
<1>7. CASE /\ c \in Ops => KindOf(c) # "kick"
           /\ FinalizerStep(n, next(ok), IF next(ok) = kept THEN seats ELSE closed, sock)
           /\ op' = OpPut(ops(ok), n, next(ok))
  <2>1. ASSUME NEW b \in Evictions, Owes(r, b) PROVE r.fail # "no" \/ Remains(r, b)
    BY <1>1, <1>7, <2>1 DEF Owes, Owed, Calls, Evictions
  <2>2. ASSUME NEW failure \in {"no", "plain"}
        PROVE  LET q == Returned(r, FALSE, failure)
               IN /\ q \in LeaseOver(Ops) /\ Onward(r, q)
                  /\ \A b \in Evictions : Owes(r, b) => Owed(q, b)
    <3> HIDE DEF r
    <3>1. FALSE \in BOOLEAN
      OBVIOUS
    <3> QED BY <1>2, <2>1, <2>2, <3>1, ReturnedGoes
  <2>3. /\ next(ok) \in LeaseOver(Ops) /\ Onward(r, next(ok))
        /\ \A b \in Evictions : Owes(r, b) => Owed(next(ok), b)
    <3>1. \A b \in Evictions : Owes(r, b) => Owed(w(ok, "participant"), b)
      BY <1>4, <2>1 DEF Owed, Calls
    <3>2. next(ok) \in {Returned(r, FALSE, "plain"), Returned(r, FALSE, "no"), w(ok, "participant")}
      OBVIOUS
    <3> HIDE DEF r, next
    <3> QED BY <1>4, <2>2, <3>1, <3>2
  <2>4. AsWaiting(ops(ok))
    <3>0. LInv
      BY DEF Ready
    <3>1. CASE shared
      <4>1. op \in [Ops -> KnownRequest]
        BY <3>0 DEF LInv, TInv, LeaseInv
      <4>2. ops(ok) = [op EXCEPT ![c] = [op[c] EXCEPT !.rev = IF ok THEN "ok" ELSE "failed"]]
        BY <3>1, <4>1
      <4> DEFINE q == [op[c] EXCEPT !.rev = IF ok THEN "ok" ELSE "failed"]
      <4>3. /\ q \in Request /\ q.kind = op[c].kind /\ q.pc = op[c].pc /\ q.key = op[c].key
            /\ q.todo = op[c].todo /\ q.err = op[c].err /\ q.wait = op[c].wait
        BY <3>0, <3>1, RequestKey DEF LInv, Request, Outcome
      <4> HIDE DEF q
      <4>4. \A b \in Ops : ops(ok)[b] = IF b = c THEN q ELSE op[b]
        BY <4>1, <4>2 DEF q
      <4>5. AsWaiting(op)
        BY <3>0, WaitingAsIs
      <4> HIDE DEF ops, c
      <4> QED BY <4>3, <4>4, <4>5 DEF AsWaiting
    <3>2. CASE ~shared
      BY <3>0, <3>2, WaitingAsIs
    <3> QED BY <3>1, <3>2
  <2> DEFINE st == IF next(ok) = kept THEN seats ELSE closed
  <2>5. FinalizerStep(n, next(ok), st, sock)
    BY <1>7
  <2>6. st \in {seats, closePeer(seats, LeaseKey(n), TransportOf(n))}
    BY <1>5
  <2>7. op' = OpPut(ops(ok), n, next(ok))
    BY <1>7
  <2> HIDE DEF next, ops, st
  <2>8. Goes(n, next(ok), st, sock)
    BY <1>1, <2>3, <2>4, <2>5, <2>6, <2>7 DEF Goes
  <2> QED BY <2>8 DEF Going
<1> QED BY <1>3, <1>6, <1>7

\* The identity is invalidated, or is not, and the participant is removed.
LEMMA LastCallsGo ==
  ASSUME Ready, NEW n \in LeaseId, IdentityInvalidated(n) \/ ParticipantRemoved(n)
  PROVE  Going(n)
<1> DEFINE r == lease[n]
           k == LeaseKey(n)
<1>1. r.stage \in {"identity", "participant"} /\ ~Prompt /\ LInv
  BY DEF IdentityInvalidated, ParticipantRemoved, Ready
<1>2. Runs(r) /\ Awaits(r) /\ r.fin = "run" /\ Past(n)
  <2>1. Runs(r) /\ Awaits(r) /\ r.state # "none"
    BY <1>1, StageRuns
  <2> QED BY <2>1, RecordThere DEF Runs, Ready
<1>3. AsWaiting(op)
  BY <1>1, WaitingAsIs
<1>4. ASSUME NEW q, FinalizerStep(n, q, seats, sock), op' = OpPut(op, n, q),
             q \in LeaseOver(Ops), Onward(r, q),
             \A o \in Evictions : Owes(r, o) => Owed(q, o) \/ Invalidates(n)
      PROVE  Going(n)
  <2> HIDE DEF k
  <2>1. Goes(n, q, seats, sock)
    BY <1>1, <1>3, <1>4 DEF Goes
  <2> QED BY <2>1 DEF Going
<1>5. ASSUME NEW released \in BOOLEAN, NEW failure \in {"no", "plain"}
      PROVE  LET q == Returned(r, released, failure)
             IN /\ q \in LeaseOver(Ops) /\ Onward(r, q)
                /\ \A o \in Evictions : r.fail # "no" \/ failure # "no" \/ Remains(r, o)
                                        => Owed(q, o)
  <2> HIDE DEF r
  <2> QED BY <1>2, ReturnedGoes
<1>6. CASE IdentityInvalidated(n)
  <2> DEFINE w(ok) == [Noted(r, ok) EXCEPT !.stage = "participant"]
             failure(ok) == IF ok THEN "no" ELSE "plain"
             next(ok) == IF r.owned THEN Returned(r, TRUE, failure(ok)) ELSE w(ok)
  <2>1. PICK ok \in BOOLEAN :
          /\ identity' = [identity EXCEPT ![k] = IF ok /\ @ = "held" THEN "invalidated" ELSE @]
          /\ FinalizerStep(n, next(ok), seats, sock) /\ op' = OpPut(op, n, next(ok))
    BY <1>6 DEF IdentityInvalidated
  <2>2. r.stage = "identity"
    BY <1>6 DEF IdentityInvalidated
  <2>3. ok => Invalidates(n)
    <3>1. identity \in [Keys -> {"free", "held", "invalidated"}]
      BY <1>1 DEF LInv, TInv, StoreInv
    <3>2. k \in Keys
      BY <1>1, <1>2, OwnLease DEF LInv
    <3> HIDE DEF next, w
    <3> QED BY <2>1, <2>2, <3>1, <3>2 DEF Invalidates
  <2>4. /\ Onward(r, w(ok)) /\ w(ok) \in LeaseOver(Ops) /\ w(ok).stage = "participant"
        /\ w(ok).fail = IF r.fail = "no" /\ ~ok THEN "plain" ELSE r.fail
        /\ \A o : Remains(r, o) => Remains(w(ok), o)
    <3>1. "participant" \in {"revoke", "identity", "participant"}
      OBVIOUS
    <3>2. Staged(r, ok, "participant", [r EXCEPT !.stage = "participant"], w(ok))
      <4> HIDE DEF r, next
      <4> QED BY <1>2, <3>1, StageOwes
    <3> HIDE DEF w, next
    <3> QED BY <3>2 DEF Staged, Onward, Runs
  <2>5. failure(ok) \in {"no", "plain"} /\ (~ok => failure(ok) # "no") /\ TRUE \in BOOLEAN
    OBVIOUS
  <2> HIDE DEF w, failure
  <2>6. ASSUME NEW o \in Evictions, Owes(r, o) PROVE r.fail # "no" \/ Remains(r, o) \/ r.cb = o
    BY <2>2, <2>6 DEF Owes, Owed, Calls
  <2>7. \A o \in Evictions : Owes(r, o) => Owed(w(ok), o) \/ Invalidates(n)
    BY <2>3, <2>4, <2>6 DEF Owed, Calls
  <2> DEFINE back == Returned(r, TRUE, failure(ok))
  <2>8. /\ back \in LeaseOver(Ops) /\ Onward(r, back)
        /\ \A o \in Evictions : Owes(r, o) => Owed(back, o) \/ Invalidates(n)
    <3> HIDE DEF r
    <3> QED BY <1>5, <2>3, <2>5, <2>6
  <2>9. /\ next(ok) \in LeaseOver(Ops) /\ Onward(r, next(ok))
        /\ \A o \in Evictions : Owes(r, o) => Owed(next(ok), o) \/ Invalidates(n)
    <3>1. next(ok) \in {back, w(ok)}
      OBVIOUS
    <3> HIDE DEF back, r, next
    <3> QED BY <2>4, <2>7, <2>8, <3>1
  <2> HIDE DEF next, r, k
  <2> QED BY <1>4, <2>1, <2>9
<1>7. CASE ParticipantRemoved(n)
  <2> DEFINE member == r.cb \in Ops /\ KindOf(r.cb) = "member"
             released(ok) == ok \/ ~member
             failure(ok) == IF ok THEN "no" ELSE "plain"
             next(ok) == Returned(r, released(ok), failure(ok))
  <2>1. PICK ok \in BOOLEAN :
          FinalizerStep(n, next(ok), seats, sock) /\ op' = OpPut(op, n, next(ok))
    BY <1>7 DEF ParticipantRemoved
  <2>2. r.stage = "participant"
    BY <1>7 DEF ParticipantRemoved
  <2>3. failure(ok) \in {"no", "plain"} /\ released(ok) \in BOOLEAN
    OBVIOUS
  <2>4. \A o \in Evictions : Owes(r, o) => r.fail # "no" \/ Remains(r, o)
    BY <2>2 DEF Owes, Owed, Calls
  <2> HIDE DEF released, failure
  <2>5. /\ next(ok) \in LeaseOver(Ops) /\ Onward(r, next(ok))
        /\ \A o \in Evictions : Owes(r, o) => Owed(next(ok), o) \/ Invalidates(n)
    <3> HIDE DEF r
    <3> QED BY <1>5, <2>3, <2>4
  <2> HIDE DEF next, r, k
  <2> QED BY <1>4, <2>1, <2>5
<1> QED BY <1>6, <1>7

\* A step of a finalizer.
LEMMA FinalizerMoves ==
  ASSUME Ready, NoBanRefused, NEW n \in LeaseId, Finalizer(n)
  PROVE  Finalizes(n) /\ Travels
<1>1. Going(n)
  BY PrereqGoes, RevokeGoes, LastCallsGo DEF Finalizer
<1>2. PICK q, st, so : Goes(n, q, st, so)
  BY <1>1 DEF Going
<1>3. lease[n].stage # ""
  BY DEF Finalizer, PrerequisiteDone, CredentialsRevoked, IdentityInvalidated,
         ParticipantRemoved
<1>4. /\ Runs(lease[n]) /\ lease[n].state # "none" /\ lease[n].fin = "run"
      /\ LInv /\ JoinsKept /\ RetryInv /\ lease \in [LeaseId -> LeaseOver(Ops)]
  BY <1>3, StageRuns, RecordTypes DEF Ready, Runs, LInv
<1>5. /\ seats' = st /\ sock' = so /\ lease' = LeasePut(lease, st, n, q)
      /\ task' = TaskPut(task, n, q)
  BY <1>2 DEF Goes, FinalizerStep
<1>6. Finalizes(n)
  BY <1>2, <1>4, <1>5, OwesPut DEF Goes
<1>7. SeatMoves
  BY <1>2, <1>4, <1>5, FadingMoves DEF Goes
<1>8. SocketMoves
  BY <1>2, <1>4, <1>5, SameSockets, DetachedSockets DEF Goes
<1>9. q \in LeaseOver(Ops)
  BY <1>2 DEF Goes
<1>10. CommandMoves
  BY <1>4, <1>5, <1>9, PutTells, NoneMay
<1> QED BY <1>6, <1>7, <1>8, <1>10 DEF Travels

-----------------------------------------------------------------------------
(* Every step. *)

\* Identities are not given up, and what is invalidated stays so.
IdsStay ==
  \A k \in Keys : /\ identity[k] # "free" => identity'[k] # "free"
                  /\ identity[k] = "invalidated" => identity'[k] = "invalidated"

\* Only a join's lookup and the eviction of its peer write an identity.
LEMMA IdMoves == ASSUME LInv, [Next]_vars PROVE IdsStay
<1>1. identity \in [Keys -> {"free", "held", "invalidated"}]
  BY DEF LInv, TInv, StoreInv
<1>2. ASSUME UNCHANGED identity PROVE IdsStay
  BY <1>2 DEF IdsStay
<1>3. CASE UNCHANGED vars
  BY <1>2, <1>3 DEF vars
<1>4. ASSUME NEW s \in Sockets, Client(s) \/ JoinStep(s) \/ LeaveResumes(s) PROVE IdsStay
  <2>1. CASE GetOrCreatePeerIdentity(s)
    <3> DEFINE k == KeyOf(s)
    <3>1. PICK ok \in BOOLEAN :
            identity' = [identity EXCEPT ![k] = IF ok /\ @ = "free" THEN "held" ELSE @]
      BY <2>1 DEF GetOrCreatePeerIdentity
    <3> HIDE DEF k
    <3> QED BY <1>1, <3>1 DEF IdsStay
  <2>2. CASE ~GetOrCreatePeerIdentity(s)
    <3>1. UNCHANGED identity
      BY <1>4, <2>2 DEF Client, JoinStep, JoinRequest, LeaveRequest, SocketDies, SocketCloses,
                  LeaveResumes, JoinResumes, GetRoom, FindRoomBan,
                  LoadServerMute, LeftOther, OccupancyQueued, FindLateBan, BuildRoomSnapshot
    <3> QED BY <1>2, <3>1
  <2> QED BY <2>1, <2>2
<1>5. ASSUME NEW n \in LeaseId, Finalizer(n) \/ Timer(n) PROVE IdsStay
  <2>1. CASE IdentityInvalidated(n)
    <3> DEFINE k == LeaseKey(n)
    <3>1. PICK ok \in BOOLEAN :
            identity' = [identity EXCEPT ![k] = IF ok /\ @ = "held" THEN "invalidated" ELSE @]
      BY <2>1 DEF IdentityInvalidated
    <3> HIDE DEF k
    <3> QED BY <1>1, <3>1 DEF IdsStay
  <2>2. CASE PrerequisiteDone(n)
    BY <1>2, <2>2 DEF PrerequisiteDone
  <2>3. CASE CredentialsRevoked(n)
    BY <1>2, <2>3 DEF CredentialsRevoked
  <2>4. CASE ParticipantRemoved(n) \/ Timer(n)
    BY <1>2, <2>4 DEF ParticipantRemoved, Timer, LeaseExpires, DeadlinePasses,
                      TerminalForgotten
  <2> QED BY <1>5, <2>1, <2>2, <2>3, <2>4 DEF Finalizer
<1>6. ASSUME NEW o \in Ops, Moderation(o) \/ RequestStep(o) PROVE IdsStay
  BY <1>2, <1>6 DEF Moderation, RequestStep, Kick, Ban, PutBan, DeleteRoom,
              DisconnectAccountFromRoom, PersistBan, AfterBanCommitted, FinishRoomDeletion,
              RequestResumes
<1>7. ASSUME NEW r \in Rooms, PublishRoomEvent(r) PROVE IdsStay
  BY <1>2, <1>7 DEF PublishRoomEvent
<1> QED BY <1>3, <1>4, <1>5, <1>6, <1>7 DEF Next

\* What a step does to records: none is a finalizer's own, or one is.
RecordMoves == AllMoves \/ \E n \in LeaseId : Finalizes(n)

\* Every step does one of these, and moves seats, sockets and commands as they may.
LEMMA StepsMove ==
  ASSUME Ready, ~Overlap, NoBanRefused, [Next]_vars
  PROVE  Travels /\ RecordMoves
<1>1. CASE UNCHANGED vars
  <2>1. /\ UNCHANGED lease /\ seats' = seats /\ sock' = sock /\ task' = task
        /\ LInv /\ JoinsKept /\ RetryInv
    BY <1>1 DEF vars, Ready
  <2> QED BY <2>1, NoneMoves, NoneMay, FadingMoves, SameSockets DEF Travels, RecordMoves
<1>2. ASSUME NEW s \in Sockets, Client(s) \/ JoinStep(s) \/ LeaveResumes(s)
      PROVE  AllMoves /\ Travels
  <2>1. CASE Client(s) \/ LeaveResumes(s)
    BY <2>1, ComesMoves, LeavingMoves, ClosingMoves DEF Client
  <2>2. CASE JoinStep(s)
    BY <2>2, ComesMoves, LookupMoves, MuteMoves, LeftOtherMoves, SeatedMoves DEF JoinStep
  <2> QED BY <1>2, <2>1, <2>2
<1>3. ASSUME NEW n \in LeaseId, Finalizer(n) \/ Timer(n) PROVE Travels /\ RecordMoves
  BY <1>3, FinalizerMoves, TimerMoves DEF RecordMoves
<1>4. ASSUME NEW o \in Ops, Moderation(o) \/ RequestStep(o) PROVE AllMoves /\ Travels
  BY <1>4, AskMoves
<1>5. ASSUME NEW r \in Rooms, PublishRoomEvent(r) PROVE AllMoves /\ Travels
  BY <1>5, EventMoves
<1> QED BY <1>1, <1>2, <1>3, <1>4, <1>5 DEF Next, RecordMoves

-----------------------------------------------------------------------------
(* The invariant of evictions. *)

Opn(x) == sock[x].open # "closed"
Sits(x, k) == sock[x].voice # 0 /\ joins[sock[x].voice] = k

\* A seat has one lease record: it is the one in the map, and the seat's own.
OneLease ==
  /\ \A n \in LeaseId : lease[n].state # "none" => leaseOf[joins[n]] = n
  /\ \A k \in Keys : leaseOf[k] # 0 => seats[k].t \in {0, leaseOf[k]}

\* A join that is still to take its seat is the only one for it, of a client that sits
\* there over no open socket.
Clear(s, x) ==
  Opn(s) /\ Opn(x) /\ task[s].pc \in ComingPcs =>
    ~Sits(x, KeyOf(s)) /\ (task[x].pc \in ComingPcs /\ KeyOf(x) = KeyOf(s) => x = s)
AllClear == \A s, x \in Sockets : Clear(s, x)

\* One that got through without a lease finds neither a seat nor a lease.
Alone(s) ==
  Opn(s) /\ task[s].pc \in HoldingPcs /\ task[s].claim = 0 =>
    seats[KeyOf(s)].t = 0 /\ leaseOf[KeyOf(s)] = 0
AllAlone == \A s \in Sockets : Alone(s)

\* Whoever has a seat, or is about to take it, has an identity.
Ident ==
  /\ \A k \in Keys : seats[k].t # 0 => identity[k] # "free"
  /\ \A s \in Sockets : task[s].pc \in SeatingPcs => identity[KeyOf(s)] # "free"

\* A seat is empty and stays so: the identity of its peer is invalidated, and of the joins
\* that know it from before none has a lease to come back with.
Shut(k) ==
  /\ seats[k].t = 0 /\ identity[k] = "invalidated"
  /\ leaseOf[k] # 0 => lease[leaseOf[k]].state \notin HeldStates
  /\ \A s \in Sockets : Opn(s) /\ task[s].pc \in SeatingPcs /\ KeyOf(s) = k => task[s].claim # 0

\* An eviction waits for a finalizer that owes it its callback, until the seat is shut.
Awaited(o) ==
  op[o].pc = "wait" /\ \E n \in op[o].wait : LeaseKey(n) = op[o].key /\ Owes(lease[n], o)
EvictAt(o) ==
  o \in Evictions =>
    /\ op[o].pc \notin {"roster", "teardown"}
    /\ op[o].pc \in {"wait", "done"} => op[o].key \in Keys /\ identity[op[o].key] # "free"
    /\ op[o].pc \in {"wait", "done"} /\ ~op[o].err => Shut(op[o].key) \/ Awaited(o)
EvictInv == \A o \in Ops : EvictAt(o)

SeatsInv == OneLease /\ AllClear /\ AllAlone /\ Ident /\ EverySeatCanEnd

\* What is known of a step by now.
Stepped ==
  /\ Ready /\ LInv' /\ Base' /\ TablesFine /\ IdsStay /\ Travels /\ RecordMoves
  /\ SeatsInv

\* Numbers of joins keep the seats that were asked for.
LEMMA JoinsSame ==
  ASSUME LInv, JoinsKept, NEW i \in 1..Len(joins)
  PROVE  joins'[i] = joins[i]
<1>1. joins \in Seq(Keys) /\ Len(joins) \in Nat
  BY DEF LInv, TInv, JoinsInv
<1>2. ASSUME NEW k \in Keys, joins' = Append(joins, k) PROVE joins'[i] = joins[i]
  <2>1. i \in 1..Len(joins) /\ i # Len(joins) + 1
    BY <1>1
  <2> QED BY <1>1, <1>2, <2>1, AppendProperties
<1> QED BY <1>2 DEF JoinsKept

\* A command on its way keeps its seat.
LEMMA SameKey ==
  ASSUME Ready, NEW x \in Sockets, task[x].pc \in ComingPcs, task'[x].n = task[x].n
  PROVE  joins'[task'[x].n] = KeyOf(x) /\ KeyOf(x) \in Keys /\ task[x].n # 0
         /\ joins[task'[x].n] = KeyOf(x)
<1>1. LInv /\ JoinsKept /\ TInv
  BY DEF Ready, LInv
<1>2. task[x].pc # "idle"
  BY DEF ComingPcs, EarlyPcs, HoldingPcs
<1>3. KeyOf(x)' = KeyOf(x) /\ KeyOf(x) \in Keys /\ task[x].n \in 1..Len(joins)
  BY <1>1, <1>2, KeyKept
<1>4. task[x].n # 0
  BY <1>3
<1> QED BY <1>3, <1>4 DEF KeyOf

\* Who represents a session.
LEMMA NotThere ==
  ASSUME Ready, NEW x \in Sockets, NEW k, ~Represents(x, k), Opn(x)
  PROVE  ~Sits(x, k) /\ (task[x].pc \in ComingPcs => KeyOf(x) # k)
<1>1. task[x].pc \in ComingPcs => task[x].n # 0
  <2>1. task[x].pc \in ComingPcs => task[x].pc # "idle"
    BY DEF ComingPcs, EarlyPcs, HoldingPcs
  <2>2. TInv
    BY DEF Ready, LInv
  <2>3. task[x].pc \in ComingPcs => task[x].n \in 1..Len(joins)
    BY <2>1, <2>2, KeyOfType
  <2> QED BY <2>3
<1> QED BY <1>1 DEF Represents, Opn, Sits

\* A join that takes its seat is on an open socket, and was on its way there.
LEMMA TakerThere ==
  ASSUME NEW y \in Sockets, Taker(y)
  PROVE  /\ Opn(y) /\ task[y].pc \in SeatingPcs /\ task[y].pc \in HoldingPcs
         /\ task[y].pc \in ComingPcs /\ task'[y].pc \notin ComingPcs
<1>1. "occupancy" \notin ComingPcs /\ SeatingPcs \subseteq HoldingPcs
      /\ HoldingPcs \subseteq ComingPcs
  BY DEF ComingPcs, EarlyPcs, HoldingPcs, SeatingPcs
<1> QED BY <1>1 DEF Taker, Superseded, isCurrentConnectionVoiceJoin, Opn

\* And one with a lease holds the lease of its seat.
LEMMA TakerHolds ==
  ASSUME LInv, Base, NEW y \in Sockets, Taker(y), task[y].claim # 0
  PROVE  LET c == task[y].claim
         IN /\ leaseOf[KeyOf(y)] = c /\ lease[c].state = "claimed" /\ c \in LeaseId
<1> DEFINE c == task[y].claim
<1>1. TInv /\ ClaimAt(y)
  BY DEF LInv, Base
<1>2. Past(c) /\ joins[c] = KeyOf(y)
  BY <1>1 DEF ClaimAt
<1>3. isCurrent(c) /\ lease[c].state = "claimed"
  BY DEF Taker, Superseded, claimedSessionWasTerminated
<1> HIDE DEF c
<1>4. LeaseKey(c) = joins[c] /\ c \in LeaseId
  BY <1>1, <1>2, OwnLease, PastNumbers
<1>5. leaseOf[KeyOf(y)] = c
  BY <1>2, <1>3, <1>4 DEF isCurrent
<1> QED BY <1>3, <1>4, <1>5 DEF c

\* Where a join that is on its way comes from.
LEMMA CameFrom ==
  ASSUME Ready, CommandMoves, NEW s \in Sockets, task'[s].pc \in ComingPcs,
         NEW k, k = joins'[task'[s].n]
  PROVE  \/ task[s].pc \in ComingPcs /\ task'[s].n = task[s].n /\ KeyOf(s) = k
         \/ Arrives(s, k)
<1>1. MayBe(s, task'[s])
  BY DEF CommandMoves
<1>2. (task[s].pc \in ComingPcs /\ task'[s].n = task[s].n) \/ Arrives(s, k)
  BY <1>1 DEF MayBe
<1> QED BY <1>2, SameKey

\* Who sits somewhere did so before, or has just taken the seat.
LEMMA SatThere ==
  ASSUME Ready, SocketMoves, NEW x \in Sockets, Opn(x)', NEW k, Sits(x, k)'
  PROVE  Opn(x) /\ (Sits(x, k) \/ (Taker(x) /\ KeyOf(x) = k))
<1>1. LInv /\ JoinsKept
  BY DEF Ready
<1>2. Opn(x) /\ (sock'[x].voice = sock[x].voice \/ (Taker(x) /\ sock'[x].voice = task[x].n))
  BY DEF SocketMoves, Opn, Sits
<1>3. CASE sock'[x].voice = sock[x].voice
  <2> DEFINE v == sock[x].voice
  <2>1. Len(joins) \in Nat /\ v \in 0..Len(joins)
    BY <1>1 DEF LInv, TInv, JoinsInv, RosterInv, KnownSocket
  <2>2. v # 0 /\ joins'[v] = k
    BY <1>3 DEF Sits
  <2> HIDE DEF v
  <2>3. v \in 1..Len(joins)
    BY <2>1, <2>2
  <2>4. joins[v] = k
    BY <1>1, <2>2, <2>3, JoinsSame
  <2> QED BY <1>2, <2>2, <2>4 DEF Sits, v
<1>4. CASE Taker(x) /\ sock'[x].voice = task[x].n
  <2>1. task[x].pc # "idle" /\ TInv
    BY <1>1, <1>4 DEF Taker, SeatingPcs, LInv
  <2>2. task[x].n \in 1..Len(joins)
    BY <2>1, KeyOfType
  <2>3. joins'[task[x].n] = KeyOf(x)
    BY <1>1, <2>2, JoinsSame DEF KeyOf
  <2> QED BY <1>2, <1>4, <2>3 DEF Sits
<1> QED BY <1>2, <1>3, <1>4

-----------------------------------------------------------------------------
(* Seats, leases and joins after a step. *)

\* The entry of a seat is kept or cleared, or becomes that of the seat itself.
LEMMA EntryMoves ==
  ASSUME Ready, Base', TablesFine, OneLease, NEW k \in Keys
  PROVE  LET l == leaseOf[k]  m == leaseOf'[k]
         IN \/ m = l /\ (l # 0 => lease'[l].state # "none")
            \/ m = 0 /\ (l # 0 => lease'[l].state = "none")
            \/ l = 0 /\ m # 0 /\ seats[k].t = m /\ lease[m].state = "none" /\ m \in LeaseId
<1> DEFINE l == leaseOf[k]
           m == leaseOf'[k]
<1>1. EntryFine(k) /\ TInv /\ LInv /\ Base /\ Grown
  BY DEF TablesFine, Ready, LInv
<1>2. CASE /\ m \notin {0, l} /\ Past(m) /\ joins[m] = k /\ lease'[m].state # "none"
           /\ l # 0 => lease'[l].state # "terminal" /\ GoneBy(l)
  <2> HIDE DEF m
  <2>1. m \in LeaseId
    BY <1>1, <1>2, PastNumbers
  <2>2. lease[m].state = "none"
    BY <1>2, <2>1 DEF OneLease
  <2>3. ~Gone(m)
    BY <1>2, <2>1, <2>2 DEF TablesFine, RecordFine
  <2>4. seats[k].t = m
    BY <1>2, <2>3 DEF Gone
  <2>5. l = 0
    BY <1>2, <2>4 DEF OneLease
  <2> QED BY <1>2, <2>1, <2>2, <2>4, <2>5 DEF m
<1> QED BY <1>1, <1>2 DEF EntryFine

\* A record is there for the seat it was opened for.
LEMMA RecordKey ==
  ASSUME Ready, NEW n \in LeaseId, lease[n].state # "none"
  PROVE  /\ Past(n) /\ joins[n] \in Keys /\ joins'[n] = joins[n] /\ n # 0
         /\ LeaseKey(n) = joins[n] /\ LeaseKey(n)' = joins[n]
<1>1. Past(n) /\ TransportOf(n) = n /\ LeaseKey(n) = joins[n] /\ joins[n] \in Keys
  BY RecordThere DEF Ready
<1>2. joins'[n] = joins[n]
  BY <1>1 DEF Ready, Grown
<1>3. n # 0
  BY <1>1, NoRecordZero
<1> QED BY <1>1, <1>2, <1>3 DEF LeaseKey

\* A command is about a seat after the step, too.
LEMMA KeyThere ==
  ASSUME LInv', NEW x \in Sockets, task'[x].pc # "idle"
  PROVE  joins'[task'[x].n] \in Keys
<1> DEFINE i == task'[x].n
<1>1. i \in 1..Len(joins') /\ joins' \in Seq(Keys)
  BY DEF LInv, TInv, LeaseInv, JoinsInv, KnownTask
<1> HIDE DEF i
<1>2. joins'[i] \in Keys
  BY <1>1, ElementOfSeq
<1> QED BY <1>2 DEF i

\* One record for each seat.
LEMMA OneLeaseStep == ASSUME Stepped PROVE OneLease'
<1>1. /\ Ready /\ Base' /\ TablesFine /\ OneLease /\ AllAlone /\ SeatMoves
      /\ LInv /\ Grown /\ TInv
  BY DEF Stepped, SeatsInv, Travels, Ready, LInv
<1>2. ASSUME NEW n \in LeaseId, lease'[n].state # "none" PROVE leaseOf'[joins'[n]] = n
  <2>1. CASE lease[n].state = "none"
    <3>1. leaseOf'[joins[n]] = n /\ Past(n)
      BY <1>1, <1>2, <2>1 DEF TablesFine, RecordFine
    <3> QED BY <1>1, <3>1 DEF Grown
  <2>2. CASE lease[n].state # "none"
    <3>1. joins'[n] = joins[n] /\ joins[n] \in Keys /\ n # 0
      BY <1>1, <2>2, RecordKey
    <3>2. leaseOf[joins[n]] = n
      BY <1>1, <2>2 DEF OneLease
    <3>3. leaseOf'[joins[n]] = n
      BY <1>1, <1>2, <3>1, <3>2, EntryMoves
    <3> QED BY <3>1, <3>3
  <2> QED BY <2>1, <2>2
<1>3. ASSUME NEW k \in Keys, leaseOf'[k] # 0 PROVE seats'[k].t \in {0, leaseOf'[k]}
  <2>1. CASE seats'[k].t \in {0, seats[k].t}
    <3> SUFFICES ASSUME seats'[k].t # 0 PROVE seats'[k].t = leaseOf'[k]
      OBVIOUS
    <3>1. seats[k].t \in {0, leaseOf[k]} \/ leaseOf[k] = 0
      BY <1>1 DEF OneLease
    <3>2. CASE leaseOf[k] = 0
      BY <1>1, <1>3, <2>1, <3>2, EntryMoves
    <3>3. CASE leaseOf[k] # 0
      <4>1. seats'[k].t = leaseOf[k]
        BY <2>1, <3>1, <3>3
      <4> QED BY <1>1, <1>3, <3>3, <4>1, EntryMoves
    <3> QED BY <3>2, <3>3
  <2>2. ASSUME NEW y \in Sockets, Taker(y), KeyOf(y) = k PROVE FALSE
    <3>1. task[y].claim = 0 /\ leaseOf[k] # 0
      BY <1>3, <2>2 DEF Taker
    <3>2. leaseOf[k] = 0
      BY <1>1, <2>2, <3>1, TakerThere DEF AllAlone, Alone
    <3> QED BY <3>1, <3>2
  <2> QED BY <1>1, <2>1, <2>2 DEF SeatMoves
<1> QED BY <1>2, <1>3 DEF OneLease

\* Joins that are still to take their seats.
LEMMA ClearStep == ASSUME Stepped PROVE AllClear'
<1>1. Ready /\ AllClear /\ SocketMoves /\ CommandMoves
  BY DEF Stepped, SeatsInv, Travels
<1> SUFFICES ASSUME NEW s \in Sockets, NEW x \in Sockets, Opn(s)', Opn(x)',
                    task'[s].pc \in ComingPcs, NEW k, k = joins'[task'[s].n]
             PROVE  /\ ~Sits(x, k)'
                    /\ task'[x].pc \in ComingPcs /\ joins'[task'[x].n] = k => x = s
  BY DEF AllClear, Clear, KeyOf
<1>2. Opn(s) /\ Opn(x)
  BY <1>1 DEF SocketMoves, Opn
<1>3. CASE task[s].pc \in ComingPcs /\ task'[s].n = task[s].n /\ KeyOf(s) = k
  <2>1. Clear(s, x)
    BY <1>1 DEF AllClear
  <2>2. ~Sits(x, k) /\ (task[x].pc \in ComingPcs /\ KeyOf(x) = k => x = s)
    BY <1>2, <1>3, <2>1 DEF Clear
  <2>3. ~Sits(x, k)'
    <3> SUFFICES ASSUME Sits(x, k)' PROVE FALSE
      OBVIOUS
    <3>1. Taker(x) /\ KeyOf(x) = k
      BY <1>1, <2>2, SatThere
    <3> QED BY <2>2, <3>1, TakerThere
  <2>4. ASSUME task'[x].pc \in ComingPcs, joins'[task'[x].n] = k PROVE x = s
    <3>1. CASE Arrives(x, k)
      <4>1. ~Represents(s, k)
        BY <3>1 DEF Arrives
      <4> QED BY <1>1, <1>2, <1>3, <4>1, NotThere
    <3> QED BY <1>1, <2>2, <2>4, <3>1, CameFrom
  <2> QED BY <2>3, <2>4
<1>4. CASE Arrives(s, k)
  <2>1. ~Represents(x, k) /\ sock' = sock
    BY <1>4 DEF Arrives
  <2>2. ~Sits(x, k) /\ (task[x].pc \in ComingPcs => KeyOf(x) # k)
    BY <1>1, <1>2, <2>1, NotThere
  <2>3. ASSUME Sits(x, k)' PROVE FALSE
    <3>1. Taker(x) /\ KeyOf(x) = k
      BY <1>1, <2>2, <2>3, SatThere
    <3> QED BY <2>2, <3>1, TakerThere
  <2>4. ASSUME x # s, task'[x].pc \in ComingPcs, joins'[task'[x].n] = k PROVE FALSE
    <3>1. task'[x].pc = task[x].pc /\ task'[x].n = task[x].n
      BY <1>4, <2>4 DEF Arrives
    <3>2. KeyOf(x) = k
      BY <1>1, <2>4, <3>1, SameKey
    <3> QED BY <2>2, <2>4, <3>1, <3>2
  <2> QED BY <2>3, <2>4
<1> QED BY <1>1, <1>3, <1>4, CameFrom

\* What a join without a lease finds.
LEMMA AloneStep == ASSUME Stepped PROVE AllAlone'
<1>1. /\ Ready /\ Base' /\ TablesFine /\ OneLease /\ AllClear /\ AllAlone /\ EverySeatCanEnd
      /\ SocketMoves /\ CommandMoves /\ SeatMoves /\ RetryInv /\ LInv /\ LInv' /\ Base
  BY DEF Stepped, SeatsInv, Travels, Ready
<1> SUFFICES ASSUME NEW s \in Sockets, Opn(s)', task'[s].pc \in HoldingPcs,
                    task'[s].claim = 0, NEW k, k = joins'[task'[s].n]
             PROVE  seats'[k].t = 0 /\ leaseOf'[k] = 0
  BY DEF AllAlone, Alone, KeyOf
<1>2. Opn(s)
  BY <1>1 DEF SocketMoves, Opn
<1>3. HoldingPcs \subseteq ComingPcs
  BY DEF ComingPcs
<1>4. MayBe(s, task'[s])
  BY <1>1 DEF CommandMoves
<1>5. CASE task[s].pc \in HoldingPcs /\ task[s].claim = 0 /\ task'[s].n = task[s].n
  <2>1. KeyOf(s) = k /\ k \in Keys
    BY <1>1, <1>3, <1>5, SameKey
  <2>2. seats[k].t = 0 /\ leaseOf[k] = 0
    BY <1>1, <1>2, <1>5, <2>1 DEF AllAlone, Alone
  <2>3. seats'[k].t = 0
    <3>1. ASSUME NEW y \in Sockets, Taker(y), KeyOf(y) = k PROVE FALSE
      <4>1. Opn(y) /\ task[y].pc \in ComingPcs /\ task'[y].pc \notin ComingPcs
        BY <3>1, TakerThere
      <4>2. y = s
        BY <1>1, <1>2, <1>3, <1>5, <2>1, <3>1, <4>1 DEF AllClear, Clear
      <4> QED BY <1>3, <4>1, <4>2
    <3> QED BY <1>1, <2>1, <2>2, <3>1 DEF SeatMoves
  <2>4. leaseOf'[k] = 0
    BY <1>1, <2>1, <2>2, EntryMoves
  <2> QED BY <2>3, <2>4
<1>6. CASE LetThrough(s, k)
  <2>1. seats' = seats
    BY <1>6 DEF LetThrough
  <2>2. leaseOf'[k] = 0 /\ Unleased(k)
    <3>1. ASSUME task[s].pc = "retrying", task[s].wait = 0, task[s].got # "err", KeyOf(s) = k,
                 leaseOf[k] # 0, lease[leaseOf[k]].state \in FailedStates \cup {"claimed"}
          PROVE  FALSE
      <4>1. lease[leaseOf[k]].state \in FinalizingStates \cup {"terminal"}
        BY <1>1, <3>1 DEF RetryInv, RetryAt
      <4> QED BY <3>1, <4>1 DEF FinalizingStates, FailedStates
    <3> QED BY <1>6, <3>1 DEF LetThrough
  <2>3. ASSUME NEW c \in Sockets, Opn(c), Sits(c, k) PROVE FALSE
    <3>1. CASE KeyOf(s) = k /\ task[s].pc \in ComingPcs
      BY <1>1, <1>2, <2>3, <3>1 DEF AllClear, Clear
    <3>2. CASE Arrives(s, k)
      <4>1. ~Represents(c, k)
        BY <3>2 DEF Arrives
      <4> QED BY <1>1, <2>3, <4>1, NotThere
    <3> QED BY <1>1, <1>3, <3>1, <3>2, CameFrom
  <2>4. k \in Keys => seats[k].t = 0
    <3> SUFFICES ASSUME k \in Keys, seats[k].t # 0 PROVE FALSE
      OBVIOUS
    <3>1. Held(k) \/ Leased(k)
      BY <1>1 DEF EverySeatCanEnd, Occupied
    <3>2. CASE Held(k)
      <4> DEFINE c == seats[k].conn
      <4>1. c \in Sockets /\ sock[c].open # "closed" /\ sock[c].voice = seats[k].t
        BY <3>2 DEF Held
      <4>2. joins[seats[k].t] = k
        BY <1>1 DEF Base, SeatInv
      <4> HIDE DEF c
      <4>3. Sits(c, k) /\ Opn(c)
        BY <4>1, <4>2 DEF Sits, Opn
      <4> QED BY <2>3, <4>1, <4>3
    <3>3. CASE Leased(k)
      BY <2>2, <3>3 DEF Leased, Unleased
    <3> QED BY <3>1, <3>2, <3>3
  <2>5. k \in Keys
    <3>1. task'[s].pc # "idle"
      BY DEF HoldingPcs
    <3> QED BY <1>1, <3>1, KeyThere
  <2> QED BY <2>1, <2>2, <2>4, <2>5
<1> QED BY <1>4, <1>5, <1>6 DEF MayBe

\* Identities of those who have a seat.
LEMMA IdentStep == ASSUME Stepped PROVE Ident'
<1>1. Ready /\ IdsStay /\ Ident /\ SeatMoves /\ CommandMoves
  BY DEF Stepped, SeatsInv, Travels
<1>2. ASSUME NEW k \in Keys, seats'[k].t # 0 PROVE identity'[k] # "free"
  <2>1. CASE seats'[k].t \in {0, seats[k].t}
    BY <1>1, <1>2, <2>1 DEF Ident, IdsStay
  <2>2. ASSUME NEW y \in Sockets, Taker(y), KeyOf(y) = k PROVE identity'[k] # "free"
    BY <1>1, <2>2, TakerThere DEF Ident, IdsStay
  <2> QED BY <1>1, <2>1, <2>2 DEF SeatMoves
<1>3. ASSUME NEW s \in Sockets, task'[s].pc \in SeatingPcs
      PROVE  identity'[joins'[task'[s].n]] # "free"
  <2>1. MayBe(s, task'[s])
    BY <1>1 DEF CommandMoves
  <2>2. /\ task[s].pc \in HoldingPcs /\ task'[s].n = task[s].n
        /\ task[s].pc \in SeatingPcs \/ identity'[joins[task'[s].n]] # "free"
    BY <1>3, <2>1 DEF MayBe
  <2>3. /\ joins'[task'[s].n] = KeyOf(s) /\ KeyOf(s) \in Keys /\ joins[task'[s].n] = KeyOf(s)
    BY <1>1, <2>2, SameKey DEF ComingPcs
  <2>4. CASE task[s].pc \in SeatingPcs
    BY <1>1, <2>3, <2>4 DEF Ident, IdsStay
  <2> QED BY <2>2, <2>3, <2>4
<1> QED BY <1>2, <1>3 DEF Ident, KeyOf

\* A finalizer that goes on awaits what it awaited.
LEMMA GoesOnAwaits ==
  ASSUME NEW r \in LeaseOver(Ops), NEW q \in LeaseOver(Ops), GoesOn(r, q), Awaits(r)
  PROVE  Awaits(q)
<1>1. Len(r.cbs) \in Nat /\ Len(q.cbs) \in Nat /\ r.idx \in Nat
  BY LenProperties DEF LeaseOver
<1>2. q.idx = r.idx /\ Len(r.cbs) <= Len(q.cbs) /\ r.idx <= Len(r.cbs) + 1 /\ q.stage = r.stage
      /\ r.stage \in AwaitStages
  BY DEF GoesOn, Awaits
<1>3. r.idx <= Len(q.cbs) + 1
  BY <1>1, <1>2
<1> QED BY <1>2, <1>3 DEF Awaits

\* And it owes what it owed.
LEMMA GoesOnOwes ==
  ASSUME NEW r \in LeaseOver(Ops), NEW q \in LeaseOver(Ops), GoesOn(r, q), NEW o, Owes(r, o)
  PROVE  Owes(q, o)
<1>1. Len(r.cbs) \in Nat /\ Len(q.cbs) \in Nat /\ r.idx \in Nat \ {0}
  BY LenProperties DEF LeaseOver
<1>2. /\ q.fin = "run" /\ q.stage = r.stage /\ q.cb = r.cb /\ q.idx = r.idx /\ q.fail = r.fail
      /\ q.reason # "" /\ Len(r.cbs) <= Len(q.cbs) /\ \A i \in 1..Len(r.cbs) : q.cbs[i] = r.cbs[i]
  BY DEF GoesOn, Owes
<1>3. Remains(r, o) => Remains(q, o)
  <2> SUFFICES ASSUME NEW i \in r.idx..Len(r.cbs), r.cbs[i] = o PROVE Remains(q, o)
    BY DEF Remains
  <2> DEFINE x == r.idx
             l == Len(r.cbs)
             h == Len(q.cbs)
  <2>1. x \in Nat \ {0} /\ l \in Nat /\ h \in Nat /\ l <= h /\ i \in x..l /\ q.idx = x
    BY <1>1, <1>2
  <2> HIDE DEF x, l, h
  <2>2. i \in 1..l /\ i \in q.idx..h
    BY <2>1
  <2>3. q.cbs[i] = o
    BY <1>2, <2>2 DEF l
  <2> QED BY <2>2, <2>3 DEF Remains, h
<1> QED BY <1>2, <1>3 DEF Owes, Owed, Calls

\* Records are records after a step, too.
LEMMA RecordsAfter ==
  ASSUME LInv, LInv'
  PROVE  lease \in [LeaseId -> LeaseOver(Ops)] /\ lease' \in [LeaseId -> LeaseOver(Ops)]
<1>1. lease \in [LeaseId -> LeaseOver(Ops)]
  BY RecordTypes DEF LInv
<1>2. Asked' \subseteq Ops
  BY DEF Asked
<1>3. Record(Asked') \subseteq Record(Ops)
  BY <1>2, RecordMonotonic
<1>4. Record(Ops) \subseteq LeaseOver(Ops)
  BY DEF Record
<1>5. lease' \in [LeaseId -> Record(Asked')]
  BY DEF LInv, TInv, LeaseInv
<1> QED BY <1>1, <1>3, <1>4, <1>5

\* What finalizers await.
LEMMA AwaitsStep == ASSUME Stepped PROVE AwaitsInv'
<1>1. /\ RecordMoves /\ AwaitsInv
      /\ lease \in [LeaseId -> LeaseOver(Ops)] /\ lease' \in [LeaseId -> LeaseOver(Ops)]
  BY RecordsAfter DEF Stepped, Ready
<1> SUFFICES ASSUME NEW n \in LeaseId, lease'[n].fin = "run" PROVE Awaits(lease'[n])
  BY DEF AwaitsInv
<1>2. CASE AllMoves
  <2>1. Moves(n)
    BY <1>2 DEF AllMoves
  <2>2. CASE lease[n].fin = "run"
    <3>1. GoesOn(lease[n], lease'[n]) /\ Awaits(lease[n])
      BY <1>1, <2>1, <2>2 DEF Moves, Reworks, AwaitsInv
    <3> QED BY <1>1, <3>1, GoesOnAwaits
  <2> QED BY <2>1, <2>2 DEF Moves
<1>3. ASSUME NEW m \in LeaseId, Finalizes(m) PROVE Awaits(lease'[n])
  BY <1>1, <1>3 DEF Finalizes, AwaitsInv
<1> QED BY <1>1, <1>2, <1>3 DEF RecordMoves

\* Right before the next event nothing fails, and nothing is opened.
LEMMA PromptMoves ==
  ASSUME RecordMoves, Prompt, NEW n \in LeaseId,
         lease'[n].state \in FailedStates \cup HeldStates
  PROVE  lease[n].state \in FailedStates \cup HeldStates
<1>1. CASE AllMoves
  BY <1>1 DEF AllMoves, Moves, Reworks
<1>2. ASSUME NEW m \in LeaseId, Finalizes(m)
      PROVE  lease[n].state \in FailedStates \cup HeldStates
  BY <1>2 DEF Finalizes
<1> QED BY <1>1, <1>2 DEF RecordMoves

\* Joins that have retried a finalizer.
LEMMA RetriesStep == ASSUME Stepped PROVE RetryInv'
<1>1. /\ Ready /\ LInv' /\ Base' /\ TablesFine /\ OneLease /\ RecordMoves /\ CommandMoves
      /\ RetryInv /\ JoinsKept /\ Grown
  <2>1. Ready /\ LInv' /\ Base' /\ TablesFine /\ OneLease /\ RecordMoves /\ CommandMoves
    BY DEF Stepped, SeatsInv, Travels
  <2> QED BY <2>1 DEF Ready
<1> SUFFICES ASSUME NEW x \in Sockets, task'[x].pc = "retrying",
                    NEW k, k = joins'[task'[x].n], NEW w, w = task'[x].wait
             PROVE  \/ w # 0 /\ PastBy(w) /\ joins'[w] = k
                    \/ /\ w = 0
                       /\ \/ task'[x].got = "err" \/ leaseOf'[k] = 0
                          \/ lease'[leaseOf'[k]].state \in FinalizingStates \cup {"terminal"}
  <2>1. ASSUME NEW x \in Sockets, task'[x].pc = "retrying",
               LET k == joins'[task'[x].n]  w == task'[x].wait
               IN \/ w # 0 /\ PastBy(w) /\ joins'[w] = k
                  \/ /\ w = 0
                     /\ \/ task'[x].got = "err" \/ leaseOf'[k] = 0
                        \/ lease'[leaseOf'[k]].state \in FinalizingStates \cup {"terminal"}
        PROVE  RetryAt(x)'
    BY <2>1 DEF RetryAt, KeyOf, Past, PastBy
  <2>2. (\A x \in Sockets : RetryAt(x)') => RetryInv'
    BY DEF RetryInv
  <2>3. ASSUME NEW x \in Sockets, task'[x].pc # "retrying" PROVE RetryAt(x)'
    BY <2>3 DEF RetryAt
  <2> QED BY <2>1, <2>2, <2>3
<1>2. k \in Keys
  <2>1. task'[x].pc # "idle"
    OBVIOUS
  <2> QED BY <1>1, <2>1, KeyThere
<1>3. MayBe(x, task'[x])
  BY <1>1 DEF CommandMoves
<1>4. Retries(x, task'[x])
  BY <1>3 DEF MayBe
<1>5. CASE task'[x] = task[x]
  <2>1. task[x].pc \in ComingPcs /\ task'[x].n = task[x].n
    BY <1>5 DEF ComingPcs, EarlyPcs
  <2>2. KeyOf(x) = k
    BY <1>1, <2>1, SameKey
  <2>3. RetryAt(x) /\ task[x].pc = "retrying" /\ task[x].wait = w
    BY <1>1, <1>5 DEF RetryInv
  <2>4. CASE w # 0
    BY <1>1, <2>2, <2>3, <2>4 DEF RetryAt, Grown
  <2>5. CASE w = 0 /\ task[x].got # "err"
    <3>1. Prompt
      BY <2>3, <2>5 DEF Prompt, WaitPcs, EarlyPcs
    <3>2. \/ leaseOf[k] = 0
          \/ lease[leaseOf[k]].state \in FinalizingStates \cup {"terminal"}
      BY <2>2, <2>3, <2>5 DEF RetryAt
    <3> SUFFICES ASSUME NEW m, m = leaseOf'[k], m # 0,
                        lease'[m].state \notin FinalizingStates \cup {"terminal"}
                 PROVE  FALSE
      BY <2>5
    <3>3. m \in LeaseId /\ joins'[m] = k /\ lease'[m].state # "none"
      <4>1. leaseOf' \in [Keys -> 0..MaxJoins] /\ joins'[m] = k /\ lease'[m].state # "none"
        BY <1>1, <1>2 DEF LInv, TInv, LeaseInv, Base, MapInv
      <4>2. m \in 0..MaxJoins
        BY <1>2, <4>1
      <4>3. TInv
        BY <1>1 DEF Ready, LInv
      <4> QED BY <4>1, <4>2, <4>3, RecordTypes
    <3>4. lease' \in [LeaseId -> LeaseOver(Ops)]
      BY <1>1, RecordsAfter DEF Ready
    <3>5. lease'[m].state \in FailedStates \cup HeldStates
      <4>1. lease'[m].state \in LeaseStates
        BY <3>3, <3>4 DEF LeaseOver
      <4> QED BY <3>3, <4>1 DEF LeaseStates, FinalizingStates, FailedStates, HeldStates
    <3>6. lease[m].state \in FailedStates \cup HeldStates
      BY <1>1, <3>1, <3>3, <3>5, PromptMoves
    <3>7. lease[m].state # "none"
      BY <3>6 DEF FailedStates, HeldStates
    <3>8. leaseOf[joins[m]] = m /\ joins'[m] = joins[m]
      BY <1>1, <3>3, <3>7, RecordKey DEF OneLease
    <3>9. leaseOf[k] = m
      BY <3>3, <3>8
    <3> QED BY <3>2, <3>6, <3>9 DEF FailedStates, HeldStates, FinalizingStates
  <2> QED BY <1>5, <2>4, <2>5
<1>6. CASE w # 0 /\ Past(w) /\ joins[w] = k
  BY <1>1, <1>6 DEF Grown
<1>7. CASE w = 0 /\ task'[x].got = "err"
  BY <1>7
<1>8. ASSUME w = 0, NEW v \in LeaseId, lease[v].state # "none", joins[v] = k,
             lease'[v].state \in {"none", "terminal"}
      PROVE  leaseOf'[k] = 0 \/ lease'[leaseOf'[k]].state = "terminal"
  <2>1. leaseOf[k] = v /\ v # 0
    BY <1>1, <1>8, NoRecordZero DEF OneLease
  <2>2. leaseOf'[k] = 0 \/ (leaseOf'[k] = v /\ lease'[v].state # "none")
    BY <1>1, <1>2, <2>1, EntryMoves
  <2> QED BY <1>8, <2>2
<1> QED BY <1>4, <1>5, <1>6, <1>7, <1>8 DEF Retries

\* A lease that is neither pending nor claimed does not become so.
LEMMA NotHeldAgain ==
  ASSUME RecordMoves, NEW n \in LeaseId, lease[n].state # "none",
         lease[n].state \notin HeldStates
  PROVE  lease'[n].state \notin HeldStates
<1>1. CASE AllMoves
  BY <1>1 DEF AllMoves, Moves, Reworks
<1>2. ASSUME NEW m \in LeaseId, Finalizes(m) PROVE lease'[n].state \notin HeldStates
  BY <1>2 DEF Finalizes
<1> QED BY <1>1, <1>2 DEF RecordMoves

\* A seat that is empty stays so if whoever may take it has a lease, and its own is none.
LEMMA StaysEmpty ==
  ASSUME Stepped, NEW k \in Keys, seats[k].t = 0,
         leaseOf[k] # 0 => lease[leaseOf[k]].state # "claimed",
         \A s \in Sockets : /\ Opn(s) /\ task[s].pc \in SeatingPcs /\ KeyOf(s) = k
                            => task[s].claim # 0
  PROVE  seats'[k].t = 0
<1>1. SeatMoves /\ LInv /\ Base
  BY DEF Stepped, Travels, Ready
<1>2. ASSUME NEW y \in Sockets, Taker(y), KeyOf(y) = k PROVE FALSE
  <2>1. task[y].claim # 0
    BY <1>2, TakerThere
  <2>2. leaseOf[k] = task[y].claim /\ lease[leaseOf[k]].state = "claimed"
    BY <1>1, <1>2, <2>1, TakerHolds
  <2> QED BY <2>1, <2>2
<1> QED BY <1>1, <1>2 DEF SeatMoves

\* Joins that will take the seat come with a lease.
LEMMA ComeWithLease ==
  ASSUME Stepped, NEW k \in Keys,
         \A s \in Sockets : /\ Opn(s) /\ task[s].pc \in SeatingPcs /\ KeyOf(s) = k
                            => task[s].claim # 0,
         identity[k] = "invalidated" \/ leaseOf[k] # 0,
         NEW s \in Sockets, Opn(s)', task'[s].pc \in SeatingPcs, joins'[task'[s].n] = k
  PROVE  task'[s].claim # 0
<1> SUFFICES ASSUME task'[s].claim = 0 PROVE FALSE
  OBVIOUS
<1>1. Ready /\ SocketMoves /\ CommandMoves /\ AllAlone
  BY DEF Stepped, Travels, SeatsInv
<1>2. Opn(s) /\ MayBe(s, task'[s]) /\ SeatingPcs \subseteq HoldingPcs
  BY <1>1 DEF SocketMoves, CommandMoves, Opn, SeatingPcs, HoldingPcs
<1>3. task[s].pc \in HoldingPcs /\ task'[s].n = task[s].n
  BY <1>2 DEF MayBe
<1>4. KeyOf(s) = k /\ joins[task'[s].n] = k
  BY <1>1, <1>3, SameKey DEF ComingPcs
<1>5. task[s].claim = 0
  BY <1>2, <1>3 DEF MayBe, LetThrough
<1>6. leaseOf[k] = 0
  BY <1>1, <1>2, <1>3, <1>4, <1>5 DEF AllAlone, Alone
<1>7. task[s].pc \in SeatingPcs
  BY <1>2, <1>4, <1>6 DEF MayBe
<1> QED BY <1>2, <1>4, <1>5, <1>7

\* A seat that is shut stays so.
LEMMA ShutStays == ASSUME Stepped, NEW k \in Keys, Shut(k) PROVE Shut(k)'
<1>1. /\ Ready /\ LInv /\ Base /\ Base' /\ TablesFine /\ OneLease /\ IdsStay /\ RecordMoves
  BY DEF Stepped, SeatsInv, Ready
<1>2. seats'[k].t = 0
  BY StaysEmpty DEF Shut, HeldStates
<1>3. identity'[k] = "invalidated"
  BY <1>1 DEF Shut, IdsStay
<1>4. ASSUME leaseOf'[k] # 0 PROVE lease'[leaseOf'[k]].state \notin HeldStates
  <2> DEFINE l == leaseOf[k]
  <2>1. leaseOf'[k] = l
    BY <1>1, <1>4, EntryMoves DEF Shut
  <2>2. l # 0 /\ lease[l].state # "none" /\ l \in 0..MaxJoins /\ TInv
    BY <1>1, <1>4, <2>1, RecordTypes DEF Base, MapInv, LInv
  <2>3. lease[l].state \notin HeldStates
    BY <2>2 DEF Shut
  <2> HIDE DEF l
  <2>4. l \in LeaseId
    BY <2>2, RecordTypes
  <2> QED BY <1>1, <2>1, <2>2, <2>3, <2>4, NotHeldAgain
<1>5. ASSUME NEW s \in Sockets, Opn(s)', task'[s].pc \in SeatingPcs, joins'[task'[s].n] = k
      PROVE  task'[s].claim # 0
  BY <1>5, ComeWithLease DEF Shut
<1> QED BY <1>2, <1>3, <1>4, <1>5 DEF Shut, KeyOf

\* The finalizer of an eviction shuts the seat when it invalidates the identity.
LEMMA ShutsSeat ==
  ASSUME Stepped, NEW n \in LeaseId, Finalizes(n), Invalidates(n), NEW k, k = LeaseKey(n),
         identity[k] # "free"
  PROVE  Shut(k)'
<1>1. /\ Ready /\ LInv /\ TInv /\ Base /\ Base' /\ TablesFine /\ OneLease /\ AllAlone
      /\ RecordMoves
  BY DEF Stepped, SeatsInv, Ready, LInv
<1>2. lease[n].fin = "run" /\ lease[n].stage = "identity" /\ lease[n].state # "none"
  <2>1. lease[n].fin = "run" /\ lease[n].stage = "identity"
    BY DEF Finalizes, Invalidates
  <2>2. NoLease.fin # "run"
    BY DEF NoLease
  <2> QED BY <1>1, <2>1, <2>2 DEF Base, RecordAt
<1>3. k = joins[n] /\ k \in Keys /\ n # 0 /\ Past(n) /\ Tame(lease[n]) /\ Gone(n)
  <2>1. k = joins[n] /\ k \in Keys /\ n # 0 /\ Past(n)
    BY <1>1, <1>2, RecordKey
  <2>2. SaysGone(lease[n])
    BY <1>2 DEF SaysGone
  <2> QED BY <1>1, <1>2, <2>1, <2>2 DEF Base, RecordAt
<1>4. leaseOf[k] = n /\ seats[k].t = 0
  BY <1>1, <1>2, <1>3 DEF OneLease, Gone
<1>5. lease[n].state # "claimed"
  BY <1>2, <1>3 DEF Tame
<1>6. ASSUME NEW s \in Sockets, Opn(s), task[s].pc \in SeatingPcs, KeyOf(s) = k
      PROVE  task[s].claim # 0
  <2>1. task[s].pc \in HoldingPcs
    BY <1>6 DEF SeatingPcs, HoldingPcs
  <2> QED BY <1>1, <1>3, <1>4, <1>6, <2>1 DEF AllAlone, Alone
<1>7. seats'[k].t = 0
  BY <1>3, <1>4, <1>5, <1>6, StaysEmpty
<1>8. identity'[k] = "invalidated"
  BY DEF Invalidates
<1>9. leaseOf'[k] # 0 => lease'[leaseOf'[k]].state \notin HeldStates
  <2>1. leaseOf'[k] \in {0, n}
    BY <1>1, <1>3, <1>4, EntryMoves
  <2> QED BY <2>1 DEF Finalizes
<1>10. ASSUME NEW s \in Sockets, Opn(s)', task'[s].pc \in SeatingPcs, joins'[task'[s].n] = k
       PROVE  task'[s].claim # 0
  BY <1>3, <1>4, <1>6, <1>10, ComeWithLease
<1> QED BY <1>7, <1>8, <1>9, <1>10 DEF Shut, KeyOf

-----------------------------------------------------------------------------
(* Evictions. *)

\* What is owed to a request does not depend on what else becomes of it.
LEMMA OwesSame ==
  ASSUME NEW o, op'[o].kind = op[o].kind, NEW n, Owes(lease'[n], o)
  PROVE  Owes(lease[n], o)'
BY DEF Owes, Owed, Calls, Remains, KindOf

\* A finalizer that owes a callback owes it after a step, unless who waits for it hears that
\* it failed or the seat is shut.
LEMMA OwedOn ==
  ASSUME Stepped, NEW o \in Evictions, NEW n \in LeaseId, Owes(lease[n], o),
         identity[LeaseKey(n)] # "free"
  PROVE  Owes(lease'[n], o) \/ Heeded(n) \/ Shut(LeaseKey(n))'
<1>1. /\ RecordMoves /\ lease \in [LeaseId -> LeaseOver(Ops)]
      /\ lease' \in [LeaseId -> LeaseOver(Ops)]
  BY RecordsAfter DEF Stepped, Ready
<1>2. lease[n].fin = "run"
  BY DEF Owes
<1>3. CASE AllMoves
  <2>1. GoesOn(lease[n], lease'[n])
    BY <1>2, <1>3 DEF AllMoves, Moves, Reworks
  <2> QED BY <1>1, <2>1, GoesOnOwes
<1>4. ASSUME NEW m \in LeaseId, Finalizes(m)
      PROVE  Owes(lease'[n], o) \/ Heeded(n) \/ Shut(LeaseKey(n))'
  <2>1. CASE m # n
    BY <1>4, <2>1 DEF Finalizes
  <2>2. CASE m = n
    <3>1. Owes(lease'[n], o) \/ Heeded(n) \/ Invalidates(n)
      BY <1>4, <2>2 DEF Finalizes
    <3>2. CASE Invalidates(n)
      <4>1. ASSUME NEW k, k = LeaseKey(n) PROVE Shut(k)'
        BY <1>4, <2>2, <3>2, <4>1, ShutsSeat
      <4>2. LeaseKey(n)' = LeaseKey(n)
        <5>1. lease[n].state # "none"
          <6>1. NoLease.fin # "run"
            BY DEF NoLease
          <6> QED BY <1>2, <6>1 DEF Stepped, Ready, Base, RecordAt
        <5> QED BY <5>1, RecordKey DEF Stepped
      <4>3. Shut(LeaseKey(n))' <=> \E k : k = LeaseKey(n) /\ Shut(k)'
        BY <4>2 DEF Shut
      <4> QED BY <4>1, <4>3
    <3> QED BY <3>1, <3>2
  <2> QED BY <2>1, <2>2
<1> QED BY <1>1, <1>3, <1>4 DEF RecordMoves

\* A request that goes on waiting still waits for what it is owed, until the seat is shut.
LEMMA PatientEvicts ==
  ASSUME Stepped, NEW o \in Ops, EvictAt(o), Patient(o)
  PROVE  EvictAt(o)'
<1> DEFINE k == op[o].key
<1>1. /\ Ready /\ LInv /\ IdsStay /\ op[o] \in Request
      /\ op'[o].kind = op[o].kind /\ op'[o].pc = op[o].pc /\ op'[o].key = k
      /\ (op[o].err => op'[o].err)
      /\ \A n \in op[o].wait : n \in op'[o].wait \/ op'[o].err \/ Answered(n)
  BY RequestKey DEF Stepped, Ready, LInv, Patient
<1>2. (o \in Evictions)' <=> o \in Evictions
  BY <1>1 DEF Evictions, KindOf
<1> SUFFICES ASSUME o \in Evictions PROVE EvictAt(o)'
  BY <1>2 DEF EvictAt
<1>3. op'[o].pc \in {"wait", "done"} => k \in Keys /\ identity'[k] # "free"
  BY <1>1 DEF EvictAt, IdsStay
<1>4. ASSUME op'[o].pc \in {"wait", "done"}, ~op'[o].err
      PROVE  Shut(op[o].key)' \/ Awaited(o)'
  <2>1. k \in Keys /\ identity[k] # "free" /\ ~op[o].err /\ (Shut(k) \/ Awaited(o))
    BY <1>1, <1>4 DEF EvictAt
  <2>2. ASSUME NEW i, i = k PROVE Shut(i) => Shut(i)'
    BY <2>1, <2>2, ShutStays
  <2>3. Shut(op[o].key)' <=> \E i : i = k /\ Shut(i)'
    BY <1>1 DEF Shut
  <2>4. CASE Shut(k)
    BY <2>2, <2>3, <2>4
  <2>5. ASSUME Awaited(o) PROVE Shut(op[o].key)' \/ Awaited(o)'
    <3>1. PICK n \in op[o].wait : LeaseKey(n) = k /\ Owes(lease[n], o)
      BY <2>5 DEF Awaited
    <3>2. op[o].pc = "wait" /\ n \in LeaseId
      BY <1>1, <2>5 DEF Awaited, Request
    <3>3. Owes(lease'[n], o) \/ Heeded(n) \/ Shut(LeaseKey(n))'
      BY <2>1, <3>1, <3>2, OwedOn
    <3>4. ~Heeded(n)
      BY <1>4, <3>1 DEF Heeded
    <3>5. lease[n].state # "none"
      <4>1. lease[n].fin = "run" /\ NoLease.fin # "run"
        BY <3>1 DEF Owes, NoLease
      <4> QED BY <1>1, <3>2, <4>1 DEF Ready, Base, RecordAt
    <3>6. LeaseKey(n)' = k
      BY <1>1, <3>1, <3>2, <3>5, RecordKey
    <3>7. CASE Shut(LeaseKey(n))'
      <4>1. Shut(op[o].key)' <=> Shut(LeaseKey(n))'
        BY <1>1, <3>6 DEF Shut
      <4> QED BY <3>7, <4>1
    <3>8. CASE Owes(lease'[n], o)
      <4>1. n \in op'[o].wait
        BY <1>1, <1>4, <3>1, <3>8 DEF Owes, Answered
      <4>2. Owes(lease[n], o)'
        BY <1>1, <3>8, OwesSame
      <4> QED BY <1>1, <3>2, <3>6, <4>1, <4>2 DEF Awaited
    <3> QED BY <3>3, <3>4, <3>7, <3>8
  <2> QED BY <2>1, <2>4, <2>5
<1>5. op'[o].pc \notin {"roster", "teardown"}
  BY <1>1 DEF EvictAt
<1> QED BY <1>1, <1>3, <1>4, <1>5 DEF EvictAt

\* A request that begins to evict is owed its callback by the lease of the seat.
LEMMA ClaimEvicts ==
  ASSUME Stepped, NEW o \in Ops, NEW k \in Keys, seats[k].t # 0, NEW ks \in SUBSET Keys,
         k \in ks, ClaimSeats(o, [op[o] EXCEPT !.key = k], ks),
         UNCHANGED <<seats, joins, identity>>, o \in Evictions
  PROVE  EvictAt(o)'
<1>0. PICK t : t = seats[k].t
  OBVIOUS
<1> DEFINE le == TerminalLeases(seats, ks, KindOf(o), <<o>>)
           ns == RecordsOf(seats, ks)
           q == [[op[o] EXCEPT !.key = k] EXCEPT !.pc = "wait",
                   !.wait = {n \in ns : le[n].fin = "run"},
                   !.err = \E n \in ns : le[n].fin = "err"]
<1>1. op \in [Ops -> KnownRequest] /\ op[o] \in Request
      /\ Ready /\ LInv /\ TInv /\ Base /\ Base' /\ TablesFine /\ Ident
  BY RequestKey DEF Stepped, SeatsInv, Ready, LInv, TInv, LeaseInv
<1>2. op' = [op EXCEPT ![o] = q] /\ lease' = le
  BY DEF ClaimSeats
<1>3. /\ q.pc = "wait" /\ q.key = k /\ q.kind = op[o].kind
      /\ q.wait = {n \in ns : le[n].fin = "run"}
      /\ q.err = \E n \in ns : le[n].fin = "err"
  <2> HIDE DEF le, ns
  <2> QED BY <1>1 DEF Request
<1>4. op'[o] = q
  <2> HIDE DEF q
  <2> QED BY <1>1, <1>2
<1>5. KindOf(o) \in Reasons
  BY <1>1 DEF KindOf, Request, Reasons
<1>6. t \in ns /\ lease'[t].fin \in {"run", "err"}
  <2> HIDE DEF q
  <2> QED BY <1>0, <1>1, <1>2, <1>5, ClaimedFirst
<1>7. Past(t) /\ joins[t] = k /\ t \in LeaseId
  BY <1>0, <1>1, PastNumbers DEF Base, SeatInv
<1>8. LeaseKey(t) = k
  BY <1>1, <1>7, OwnLease
<1>9. lease'[t].fin = "run" => Owes(lease'[t], o)
  <2> DEFINE p == [op[o] EXCEPT !.key = k]
  <2>1. ClaimSeats(o, p, ks)
    OBVIOUS
  <2> HIDE DEF p, le, q
  <2> QED BY <1>1, <1>6, <1>7, <2>1, ClaimSeatsMoves DEF ns
<1> HIDE DEF q, le, ns
<1>10. /\ op'[o].pc = "wait" /\ op'[o].key = k /\ op'[o].kind = op[o].kind
       /\ op'[o].wait = {n \in ns : lease'[n].fin = "run"}
       /\ op'[o].err = \E n \in ns : lease'[n].fin = "err"
  BY <1>2, <1>3, <1>4
<1>11. identity'[k] # "free"
  BY <1>1 DEF Ident
<1>12. ASSUME ~op'[o].err PROVE Awaited(o)'
  <2>1. lease'[t].fin = "run" /\ t \in op'[o].wait
    BY <1>6, <1>10, <1>12
  <2>2. Owes(lease[t], o)'
    BY <1>9, <1>10, <2>1 DEF Owes, Owed, Calls, Remains, KindOf
  <2>3. LeaseKey(t)' = k
    BY <1>8 DEF LeaseKey
  <2> QED BY <1>10, <2>1, <2>2, <2>3 DEF Awaited
<1> QED BY <1>10, <1>11, <1>12 DEF EvictAt

\* Requests: the others go on, and an eviction is owed what it waits for.
LEMMA RequestEvicts ==
  ASSUME Stepped, EvictInv, NEW o \in Ops, Moderation(o) \/ RequestStep(o), NEW b \in Ops
  PROVE  EvictAt(b)'
<1>1. op \in [Ops -> KnownRequest] /\ op[o] \in Request /\ LInv
  BY RequestKey DEF Stepped, Ready, LInv, TInv, LeaseInv
<1>2. (\A j \in Ops \ {o} : op'[j] = op[j]) /\ op'[o].kind = op[o].kind
  BY <1>1, RequestMoves
<1>3. Patient(b) => EvictAt(b)'
  BY PatientEvicts DEF EvictInv
<1>4. CASE b # o
  <2>1. Patient(b)
    BY <1>2, <1>4 DEF Patient
  <2> QED BY <1>3, <2>1
<1>5. CASE b = o /\ o \notin Evictions
  <2>1. ~(o \in Evictions)'
    BY <1>2, <1>5 DEF Evictions, KindOf
  <2> QED BY <1>5, <2>1 DEF EvictAt
<1>6. CASE b = o /\ o \in Evictions
  <2>1. EvictAt(o) /\ op[o].pc \notin {"roster", "teardown"} /\ KindOf(o) \in {"kick", "ban"}
    BY <1>6 DEF EvictInv, EvictAt, Evictions
  <2>2. (\E k \in Keys : Kick(o, k) \/ Ban(o, k)) \/ PersistBan(o) \/ RequestResumes(o)
    BY <2>1 DEF Moderation, RequestStep, PutBan, DeleteRoom, Starts,
                DisconnectAccountFromRoom, AfterBanCommitted, FinishRoomDeletion
  <2>3. ASSUME NEW k \in Keys, Kick(o, k) \/ Ban(o, k) PROVE EvictAt(o)'
    <3>1. PICK ks \in {{k}, Occupants(k)} : ClaimSeats(o, [op[o] EXCEPT !.key = k], ks)
      BY <2>3 DEF Kick, Ban
    <3>2. seats[k].t # 0 /\ UNCHANGED <<seats, joins, identity>>
      BY <2>3 DEF Kick, Ban
    <3>3. k \in ks /\ ks \in SUBSET Keys
      BY <3>1, <3>2, OccupantsType DEF Occupants, Occupied, SameUser
    <3> QED BY <1>6, <3>1, <3>2, <3>3, ClaimEvicts
  <2>4. ASSUME PersistBan(o) PROVE EvictAt(o)'
    <3>1. PICK pre : op' = [op EXCEPT ![o].pre = pre]
      BY <2>4 DEF PersistBan
    <3>2. Patient(o)
      BY <1>1, <3>1 DEF Request, Patient
    <3> QED BY <1>3, <1>6, <3>2
  <2>5. ASSUME RequestResumes(o) PROVE EvictAt(o)'
    <3>1. /\ op[o].pc = "wait" /\ op[o].wait = {} /\ UNCHANGED identity
          /\ op' = [op EXCEPT ![o].pc = "done", ![o].todo = {}]
      BY <2>1, <2>5 DEF RequestResumes
    <3>2. op'[o].pc = "done" /\ op'[o].key = op[o].key /\ op'[o].err = op[o].err
      BY <1>1, <3>1 DEF Request
    <3>3. op[o].key \in Keys /\ identity[op[o].key] # "free"
      BY <1>6, <2>1, <3>1 DEF EvictAt
    <3>4. ASSUME ~op[o].err PROVE Shut(op[o].key)'
      <4>1. Shut(op[o].key)
        BY <1>6, <2>1, <3>1, <3>4 DEF EvictAt, Awaited
      <4>2. ASSUME NEW k, k = op[o].key PROVE Shut(k)'
        BY <3>3, <4>1, <4>2, ShutStays
      <4>3. Shut(op[o].key)' <=> \E k : k = op[o].key /\ Shut(k)'
        BY <3>2 DEF Shut
      <4> QED BY <4>2, <4>3
    <3> QED BY <3>1, <3>2, <3>3, <3>4 DEF EvictAt
  <2> QED BY <1>6, <2>2, <2>3, <2>4, <2>5
<1> QED BY <1>4, <1>5, <1>6

\* Every step keeps what is said of evictions.
LEMMA EvictsStep ==
  ASSUME Stepped, EvictInv, [Next]_vars
  PROVE  EvictInv'
<1>1. LInv /\ Base /\ Grown /\ TablesFine
  BY DEF Stepped, Ready
<1>2. AllPatient => \A o \in Ops : EvictAt(o)'
  BY PatientEvicts DEF AllPatient, EvictInv
<1>3. UNCHANGED op => AllPatient
  BY <1>1, WaitingAsIs, QuietPatient
<1>4. UNCHANGED vars => AllPatient
  BY <1>3 DEF vars
<1>5. ASSUME NEW s \in Sockets, Client(s) \/ JoinStep(s) \/ LeaveResumes(s) PROVE AllPatient
  BY <1>1, <1>5, CommandPatient
<1>6. ASSUME NEW n \in LeaseId, Finalizer(n) \/ Timer(n) PROVE AllPatient
  <2>1. DeadlinePasses(n) \/ TerminalForgotten(n) => UNCHANGED op
    BY DEF DeadlinePasses, TerminalForgotten
  <2> QED BY <1>1, <1>3, <1>6, <2>1, FinalizerPatient DEF Timer
<1>7. ASSUME NEW o \in Ops, Moderation(o) \/ RequestStep(o) PROVE \A b \in Ops : EvictAt(b)'
  BY <1>7, RequestEvicts
<1>8. ASSUME NEW r \in Rooms, PublishRoomEvent(r) PROVE AllPatient
  BY <1>3, <1>8 DEF PublishRoomEvent
<1>9. \A o \in Ops : EvictAt(o)'
  BY <1>2, <1>4, <1>5, <1>6, <1>7, <1>8 DEF Next
<1> QED BY <1>9 DEF EvictInv

-----------------------------------------------------------------------------
(* The theorem about evictions. *)

\* No lost membership is about to detach the sockets of a seat that was taken anew since
\* its request began: detachVoicePeer asks for the peer, not for the transport.
MembersGone ==
  \A o \in Ops : KindOf(o) = "member" /\ op[o].pc = "wait" /\ op[o].wait = {} /\ ~op[o].err
                 => \A k \in op[o].todo : seats[k].t = 0

\* With one lease for each seat no other eviction is about to, either.
LEMMA NoneAnew ==
  ASSUME LInv, Base, OneLease, MembersGone
  PROVE  NoneReplaced
<1>1. ASSUME NEW n \in LeaseId, Evicting(n)
      PROVE  seats[LeaseKey(n)].t \in {0, TransportOf(n)}
  <2>1. lease[n].state # "none"
    <3>1. lease[n].stage # "" /\ NoLease.stage = ""
      BY <1>1 DEF Evicting, NoLease
    <3> QED BY <3>1 DEF Base, RecordAt
  <2>2. TransportOf(n) = n /\ LeaseKey(n) = joins[n] /\ joins[n] \in Keys /\ n # 0
    <3>1. Past(n) /\ TInv
      BY <2>1 DEF Base, RecordAt, LInv
    <3> QED BY <3>1, OwnLease, NoRecordZero
  <2>3. leaseOf[joins[n]] = n
    BY <2>1 DEF OneLease
  <2> QED BY <2>2, <2>3 DEF OneLease
<1> QED BY <1>1 DEF NoneReplaced, MembersGone

\* What the theorem rests on.
EndInv ==
  /\ InReach /\ OneLease /\ AllClear /\ AllAlone /\ Ident
  /\ AwaitsInv /\ RetryInv /\ EvictInv

\* To begin with.
LEMMA EndInit == Init => EndInv
<1> SUFFICES ASSUME Init PROVE EndInv
  OBVIOUS
<1>1. /\ Vacant.t = 0 /\ Idle.pc = "idle"
      /\ NoLease.state = "none" /\ NoLease.fin = "none"
  BY DEF Vacant, Idle, NoLease
<1>2. /\ \A k \in Keys : seats[k] = Vacant /\ leaseOf[k] = 0
      /\ \A s \in Sockets : task[s].pc = "idle" /\ sock[s].voice = 0
      /\ \A n \in LeaseId : lease[n].state = "none" /\ lease[n].fin = "none"
  BY <1>1 DEF Init
<1>3. \A o \in Ops : op[o].pc = "idle"
  BY DEF Init, NewRequest
<1>4. InReach
  BY <1>1, <1>2 DEF InReach, EverySeatCanEnd, Occupied, Departs, LeavePcs
<1>5. OneLease /\ AwaitsInv
  BY <1>1, <1>2 DEF OneLease, AwaitsInv
<1>6. AllClear /\ AllAlone /\ Ident /\ RetryInv
  BY <1>1, <1>2 DEF AllClear, Clear, AllAlone, Alone, Ident, RetryInv, RetryAt, ComingPcs,
                    EarlyPcs, HoldingPcs, SeatingPcs
<1>7. EvictInv
  BY <1>3 DEF EvictInv, EvictAt
<1> QED BY <1>4, <1>5, <1>6, <1>7 DEF EndInv

\* Every step keeps it, as long as no ban is refused.
LEMMA EndStep ==
  ASSUME LInv, Base, EndInv, ~Overlap, NoBanRefused, MembersGone, [Next]_vars
  PROVE  LInv' /\ Base' /\ EndInv'
<1>1. LInv' /\ Base' /\ TablesFine
  BY BaseNext DEF SeatStep
<1>2. Grown
  BY StepGrows DEF Base
<1>3. JoinsKept
  BY LedgerSteps DEF JoinsKept
<1>4. LeasesStay
  BY <1>1, <1>2, LeaseStays
<1>5. NoneReplaced
  BY NoneAnew DEF EndInv
<1>6. ReachStep
  BY <1>4, <1>5, StepsReach DEF EndInv
<1>7. InReach'
  BY <1>1, <1>3, <1>4, <1>6, ReachKept DEF EndInv
<1>8. Ready
  BY <1>2, <1>3 DEF Ready, EndInv
<1>9. Stepped
  <2>1. Travels /\ RecordMoves
    BY <1>8, StepsMove
  <2>2. IdsStay
    BY IdMoves
  <2>3. SeatsInv
    BY DEF EndInv, InReach, SeatsInv
  <2> QED BY <1>1, <1>8, <2>1, <2>2, <2>3 DEF Stepped
<1>10. OneLease' /\ AllClear' /\ AllAlone' /\ Ident' /\ AwaitsInv' /\ RetryInv'
  BY <1>9, OneLeaseStep, ClearStep, AloneStep, IdentStep, AwaitsStep, RetriesStep
<1>11. EvictInv'
  BY <1>9, EvictsStep DEF EndInv
<1> QED BY <1>1, <1>7, <1>10, <1>11 DEF EndInv

\* For clients that come back only once their old socket is closed, and as long as no ban
\* is refused and no lost membership is about to detach the sockets of a seat taken anew:
\* a kick or a participant ban that got through has ended the seat of its peer for good.
THEOREM EvictionsStand ==
  Spec /\ ~Overlap /\ [](NoBanRefused /\ MembersGone) => []EvictionIsEffective
<1> SUFFICES ASSUME ~Overlap
             PROVE  Spec /\ [](NoBanRefused /\ MembersGone) => []EvictionIsEffective
  OBVIOUS
<1>1. Init => EndInv
  BY EndInit
<1>2. LInv /\ Base /\ EndInv /\ NoBanRefused /\ MembersGone /\ [Next]_vars
      => (LInv /\ Base /\ EndInv)'
  BY EndStep
<1>3. EndInv => EvictionIsEffective
  <2> SUFFICES ASSUME EndInv, NEW o \in Ops, KindOf(o) \in {"kick", "ban"},
                      op[o].pc = "done", ~op[o].err
               PROVE  seats[op[o].key].t = 0
    BY DEF EvictionIsEffective
  <2>1. EvictAt(o) /\ o \in Evictions
    BY DEF EndInv, EvictInv, Evictions
  <2>2. Shut(op[o].key)
    BY <2>1 DEF EvictAt, Awaited
  <2> QED BY <2>2 DEF Shut
<1> QED BY <1>1, <1>2, <1>3, BaseInit, PTL DEF Spec
===============================================================================
