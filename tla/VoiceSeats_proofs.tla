-------------------------- MODULE VoiceSeats_proofs --------------------------
(*******************************************************************************)
(* Who may empty a seat: as long as no ban is refused, nobody but the          *)
(* finalizer of the lease opened for it, the join that took it, or the news    *)
(* that its socket is gone.                                                    *)
(*                                                                             *)
(* What belongs to a seat that was replaced must not touch the one that        *)
(* replaced it.  That rests on leases having one claimer, since the one whose  *)
(* join completes it takes the lease away from all others, and so on a lease   *)
(* being gone for good once it left the map: whoever still refers to it refers *)
(* to a transport that has no seat.                                            *)
(*                                                                             *)
(* From the same invariant follows what leases promise to joins, and that no   *)
(* seat stays behind in the roster, out of everyone's reach; and that a ban    *)
(* from the list finds whoever sits there, or is found by him.                 *)
(*******************************************************************************)
EXTENDS VoiceSafety_proofs

\* No ban the finalizers waited for was refused.
NoBanRefused == \A o \in Ops : op[o].pre # "failed"

\* A join that was served, or given up; its transport has no seat any more.
Past(n) == n \in 1..Len(joins) /\ n \notin Unserved
Gone(n) == seats[joins[n]].t # n

\* A seat is that of a join that was served with it.
SeatInv == \A k \in Keys : seats[k].t # 0 => Past(seats[k].t) /\ joins[seats[k].t] = k

\* So after a step.
PastBy(n) == n \in 1..Len(joins') /\ n \notin Unserved'
GoneBy(n) == seats'[joins'[n]].t # n

\* A step undoes neither.
Grown == \A n : Past(n) => PastBy(n) /\ joins'[n] = joins[n] /\ (Gone(n) => GoneBy(n))

\* Facts about numbers of joins.
LEMMA PastNumbers ==
  ASSUME TInv, NEW n, Past(n)
  PROVE  n \in JoinId /\ n \in LeaseId /\ n # 0 /\ joins[n] \in Keys /\ n \in 1..Len(joins)
<1>1. n \in 1..Len(joins) /\ Len(joins) \in 0..MaxJoins /\ joins \in Seq(Keys)
  BY DEF Past, TInv, JoinsInv
<1>2. \A j \in 0..MaxJoins : \A i \in 1..j : i \in 1..MaxJoins /\ i \in 1..2 * MaxJoins /\ i # 0
  BY ConstantsAssumption
<1>3. joins[n] \in Keys
  BY <1>1, ElementOfSeq
<1> QED BY <1>1, <1>2, <1>3 DEF JoinId, LeaseId

\* Joins that are waiting were asked for.
LEMMA UnservedAsked ==
  ASSUME TInv
  PROVE  Unserved \subseteq 1..Len(joins)
<1>1. ASSUME NEW s \in Seeking PROVE task[s].n \in 1..Len(joins)
  BY KeyOfType DEF Seeking, SeekingPcs, EarlyPcs
<1> QED BY <1>1 DEF Unserved

\* The ledger of seats: what it is the runtime does to joins and seats.
LEMMA LedgerSteps ==
  ASSUME LInv, [Next]_vars
  PROVE  \/ \E k \in Keys : /\ joins' = Append(joins, k)
                            /\ Unserved' \subseteq Unserved \cup {Len(joins) + 1}
                            /\ seats' = seats
         \/ /\ joins' = joins /\ Unserved' \subseteq Unserved
            /\ \A k \in Keys : seats'[k].t \in {0, seats[k].t}
         \/ \E n \in Unserved :
              /\ joins' = joins /\ Unserved' = Unserved \ {n}
              /\ seats'[joins[n]].t = n
              /\ \A k \in Keys \ {joins[n]} : seats'[k].t \in {0, seats[k].t}
<1>1. seats \in [Keys -> Seat] /\ TInv
  BY DEF LInv, TInv, RosterInv
<1>2. [Ledger!Next]_(Ledger!ledger)
  BY StepsKept
<1>3. Keys = Ledger!Keys /\ Ledger!Empty = Vacant /\ Vacant.t = 0
  BY DEF Keys, Ledger!Keys, Ledger!Empty, Vacant
<1>4. CASE Ledger!Ask
  BY <1>3, <1>4 DEF Ledger!Ask
<1>5. CASE Ledger!Fade
  <2>1. FadesTo(seats, seats') /\ joins' = joins /\ Unserved' \subseteq Unserved
    <3>1. joins' = joins /\ Unserved' \subseteq Unserved
      BY <1>5 DEF Ledger!Fade
    <3>2. PICK lost, ended \in SUBSET Ledger!Keys :
            seats' = [k \in Ledger!Keys |-> IF k \in ended THEN Ledger!Empty
                                ELSE IF k \in lost THEN [seats[k] EXCEPT !.conn = NoSocket]
                                ELSE seats[k]]
      BY <1>5 DEF Ledger!Fade
    <3>3. seats' = [k \in Keys |-> IF k \in ended THEN Vacant
                                ELSE IF k \in lost THEN [seats[k] EXCEPT !.conn = NoSocket]
                                ELSE seats[k]]
      BY <1>3, <3>2
    <3>4. FadesTo(seats, seats')
      BY <1>3, <3>3 DEF FadesTo
    <3> QED BY <3>1, <3>4
  <2> QED BY <1>1, <2>1, FadesApart
<1>6. ASSUME NEW n \in Unserved, NEW c \in Sockets, Ledger!Serve(n, c)
      PROVE  /\ joins' = joins /\ Unserved' = Unserved \ {n}
             /\ seats'[joins[n]].t = n
             /\ \A k \in Keys \ {joins[n]} : seats'[k].t \in {0, seats[k].t}
  <2>1. joins[n] \in Keys
    <3>1. n \in 1..Len(joins) /\ joins \in Seq(Keys)
      BY <1>1, UnservedAsked DEF TInv, JoinsInv
    <3> QED BY <3>1, ElementOfSeq
  <2>2. PICK ended \in SUBSET (Keys \ {joins[n]}) :
          seats' = [j \in Keys |-> IF j = joins[n] THEN [t |-> n, conn |-> c]
                                   ELSE IF j \in ended THEN Vacant ELSE seats[j]]
    BY <1>3, <1>6 DEF Ledger!Serve
  <2>3. seats'[joins[n]] = [t |-> n, conn |-> c]
    BY <2>1, <2>2
  <2>4. \A k \in Keys \ {joins[n]} : seats'[k] \in {Vacant, seats[k]}
    BY <2>2
  <2> QED BY <1>3, <1>6, <2>3, <2>4 DEF Ledger!Serve
<1>7. CASE UNCHANGED Ledger!ledger
  BY <1>7 DEF Ledger!ledger
<1> QED BY <1>2, <1>4, <1>5, <1>6, <1>7 DEF Ledger!Next

\* A join beyond all others is none of them.
LEMMA NextNumber ==
  \A j \in 0..MaxJoins : \A i \in 1..j : i # j + 1 /\ i \in 1..j + 1
BY ConstantsAssumption

\* What was served stays so, and what is gone stays away.
LEMMA StepGrows ==
  ASSUME LInv, SeatInv, [Next]_vars
  PROVE  Grown /\ SeatInv'
<1>1. TInv /\ joins \in Seq(Keys) /\ Len(joins) \in 0..MaxJoins /\ Len(joins) \in Nat
  BY RecordTypes, ConstantsAssumption DEF LInv, TInv, JoinsInv
<1>2. ASSUME NEW k \in Keys, joins' = Append(joins, k), seats' = seats,
             Unserved' \subseteq Unserved \cup {Len(joins) + 1}
      PROVE  Grown /\ SeatInv'
  <2>1. /\ Len(joins') = Len(joins) + 1
        /\ \A i \in 1..Len(joins) : joins'[i] = joins[i]
    BY <1>1, <1>2, AppendProperties
  <2>2. \A n : Past(n) => PastBy(n) /\ joins'[n] = joins[n]
    BY <1>1, <1>2, <2>1, NextNumber DEF Past, PastBy
  <2> QED BY <1>2, <2>2 DEF Grown, SeatInv, Gone, GoneBy, Past, PastBy
<1>3. ASSUME joins' = joins, Unserved' \subseteq Unserved,
             \A k \in Keys : seats'[k].t \in {0, seats[k].t}
      PROVE  Grown /\ SeatInv'
  <2>1. \A n : Past(n) => PastBy(n) /\ joins'[n] = joins[n]
    BY <1>3 DEF Past, PastBy
  <2>2. \A n : Past(n) => joins[n] \in Keys /\ n # 0
    BY <1>1, PastNumbers
  <2> QED BY <1>3, <2>1, <2>2 DEF Grown, SeatInv, Gone, GoneBy, Past, PastBy
<1>4. ASSUME NEW n \in Unserved, joins' = joins, Unserved' = Unserved \ {n},
             seats'[joins[n]].t = n,
             \A k \in Keys \ {joins[n]} : seats'[k].t \in {0, seats[k].t}
      PROVE  Grown /\ SeatInv'
  <2>1. \A m : Past(m) => PastBy(m) /\ joins'[m] = joins[m] /\ m # n
    BY <1>4 DEF Past, PastBy
  <2>2. \A m : Past(m) => joins[m] \in Keys /\ m # 0
    BY <1>1, PastNumbers
  <2>3. PastBy(n) /\ joins'[n] = joins[n]
    BY <1>1, <1>4, UnservedAsked DEF Past, PastBy
  <2>4. Grown
    BY <1>4, <2>1, <2>2 DEF Grown, Gone, GoneBy
  <2>5. SeatInv'
    <3>1. ASSUME NEW k \in Keys, NEW v, v = seats'[k].t, v # 0
          PROVE  PastBy(v) /\ joins'[v] = k
      <4>1. CASE k = joins[n]
        BY <1>4, <2>3, <3>1, <4>1
      <4>2. CASE k # joins[n]
        <5>1. v = seats[k].t
          BY <1>4, <3>1, <4>2
        <5> QED BY <2>1, <3>1, <5>1 DEF SeatInv
      <4> QED BY <4>1, <4>2
    <3> QED BY <3>1 DEF SeatInv, Past, PastBy
  <2> QED BY <2>4, <2>5
<1> QED BY <1>2, <1>3, <1>4, LedgerSteps

-----------------------------------------------------------------------------
(* The invariant. *)

\* A record that says that its seat is ended, or that nobody sits there for it.
SaysGone(r) ==
  \/ r.state = "terminal" \/ r.owned \/ r.fin = "ok"
  \/ r.stage \in {"participant", "identity"}
  \/ r.stage = "settle" /\ r.fail = "no"

\* A finalizer runs under a finalizing state and from its start to its end; it
\* waits for the ban of a request only, and rolls nothing back.
Tame(r) ==
  /\ r.state \in {"pending", "claimed"} => r.fin = "none" /\ r.stage = ""
  /\ r.stage # "" => r.fin = "run"
  /\ r.fin = "run" => r.state \in FinalizingStates
  /\ r.fail # "rollback"
  /\ r.stage = "prereq" => r.cb \in Ops
  /\ r.state = "claimed" => r.taken

\* A record is of a transport that had its seat, and is right about its end.
RecordAt(n) ==
  IF lease[n].state = "none" THEN lease[n] = NoLease
  ELSE Past(n) /\ Tame(lease[n]) /\ (SaysGone(lease[n]) => Gone(n))

\* The awaits of a join during which it may hold a lease.
HoldingPcs == {"room", "ban", "identity", "mute", "leaveOther"}

\* The lease a join has claimed is no other's, and either in use or gone.
ClaimAt(s) ==
  LET c == task[s].claim
  IN c # 0 => /\ Past(c) /\ joins[c] = KeyOf(s) /\ task[s].pc \in HoldingPcs
              /\ lease[c].state # "pending"
              /\ lease[c].state = "none" => Gone(c)
              /\ \A x \in Sockets : task[x].claim = c => x = s

\* A record that can still end its seat is in the map, and so is one whose
\* retention timer runs; the map has the record of a seat, and it is one.
MapInv ==
  /\ \A n \in LeaseId : lease[n].state # "none" /\ ~Gone(n) => leaseOf[joins[n]] = n
  /\ \A n \in LeaseId : lease[n].state = "terminal" => leaseOf[joins[n]] = n
  /\ \A k \in Keys : leaseOf[k] # 0 =>
       joins[leaseOf[k]] = k /\ lease[leaseOf[k]].state # "none"

Base ==
  /\ SeatInv /\ MapInv
  /\ \A n \in LeaseId : RecordAt(n)
  /\ \A s \in Sockets : ClaimAt(s)

-----------------------------------------------------------------------------
(* What a step does to records, to the map and to claims. *)

\* A join gave up the lease n.
Yielded(n) == \E s \in Sockets : task[s].claim = n /\ task'[s].claim = 0

\* Under a finalizing state a finalizer runs.
RunsOn(r) == r.state \in FinalizingStates => r.fin = "run"

\* A join that asks for its mute flag holds the lease n, which is spent already.
Spends(n) ==
  lease[n].state = "terminal" /\ \E s \in Sockets : task[s].pc = "mute" /\ task[s].claim = n

\* A lease that a join claims; or that one claimed that had waited for another
\* lease of its seat, and that it does not hold.
Claimant(n) == \E s \in Sockets : task'[s].claim = n
Waited(s) == task[s].pc = "finalizing" /\ task[s].wait = 0 /\ task[s].got # "err"
Orphaned(n) ==
  lease[n].state = "pending" /\ \E s \in Sockets : Waited(s) /\ leaseOf[KeyOf(s)] = n

\* A record leaves when its seat is gone, is opened for a seat that is there, and
\* becomes pending again only when given back.
RecordFine(n) ==
  IF lease'[n].state = "none"
  THEN lease'[n] = NoLease /\ (lease[n].state # "none" => GoneBy(n))
  ELSE /\ PastBy(n) /\ Tame(lease'[n]) /\ (SaysGone(lease'[n]) => GoneBy(n))
       /\ lease[n].state = "none" => leaseOf'[joins[n]] = n /\ Past(n) /\ ~Gone(n)
       /\ lease'[n].state = "terminal" => leaseOf[joins[n]] = n
       /\ lease'[n].state = "pending" => lease[n].state \in {"none", "pending"} \/ Yielded(n)
       /\ RunsOn(lease[n]) => RunsOn(lease'[n]) \/ Spends(n)
       /\ lease'[n].state = "claimed" => lease[n].state = "claimed" \/ Claimant(n) \/ Orphaned(n)

\* The entry of a seat is kept, cleared or replaced, with the record.
EntryFine(k) ==
  LET l == leaseOf[k]  m == leaseOf'[k]
  IN \/ m = l /\ (l # 0 => lease'[l].state # "none")
     \/ m = 0 /\ (l # 0 => lease'[l].state = "none")
     \/ /\ m \notin {0, l} /\ Past(m) /\ joins[m] = k /\ lease'[m].state # "none"
        /\ l # 0 => lease'[l].state # "terminal" /\ GoneBy(l)

\* Who holds a lease of the joins of S does so until that is not claimed any more.
ClaimsHeld(S) ==
  \A x \in S : task[x].claim # 0 =>
    task'[x].claim = task[x].claim \/ lease'[task[x].claim].state # "claimed"

\* The joins of S hold no lease they did not hold before.
ClaimsKept(S) ==
  \A x \in S : task'[x].claim # 0 =>
    /\ task'[x].claim = task[x].claim /\ task'[x].n = task[x].n
    /\ task'[x].pc \in HoldingPcs

\* The join on s claims a pending lease.
ClaimMade(s) ==
  LET c == task'[s].claim
  IN /\ c # 0 /\ Past(c) /\ joins'[task'[s].n] = joins[c] /\ task'[s].pc \in HoldingPcs
     /\ lease[c].state = "pending" /\ lease'[c].state = "claimed"
     /\ ClaimsKept(Sockets \ {s})

TablesFine == (\A n \in LeaseId : RecordFine(n)) /\ (\A k \in Keys : EntryFine(k))
ClaimsFine ==
  ClaimsHeld(Sockets) /\ (ClaimsKept(Sockets) \/ \E s \in Sockets : ClaimMade(s))

\* The map after such a step.
LEMMA MapStep ==
  ASSUME LInv, Base, Grown, TablesFine
  PROVE  MapInv'
<1>1. /\ TInv /\ MapInv /\ leaseOf \in [Keys -> 0..MaxJoins] /\ (\A n \in LeaseId : RecordAt(n))
      /\ \A i \in 0..MaxJoins : i # 0 => i \in LeaseId
  BY RecordTypes DEF LInv, Base
<1>2. ASSUME NEW n \in LeaseId, lease'[n].state # "none", ~GoneBy(n)
      PROVE  leaseOf'[joins'[n]] = n
  <2>1. CASE lease[n].state = "none"
    BY <1>2, <2>1 DEF TablesFine, RecordFine, Grown
  <2>2. CASE lease[n].state # "none"
    <3>1. Past(n) /\ joins'[n] = joins[n] /\ ~Gone(n) /\ leaseOf[joins[n]] = n /\ n # 0
          /\ joins[n] \in Keys
      BY <1>1, <1>2, <2>2, PastNumbers DEF RecordAt, Grown, MapInv
    <3>2. EntryFine(joins[n])
      BY <3>1 DEF TablesFine
    <3> QED BY <1>2, <3>1, <3>2 DEF EntryFine
  <2> QED BY <2>1, <2>2
<1>3. ASSUME NEW n \in LeaseId, lease'[n].state = "terminal" PROVE leaseOf'[joins'[n]] = n
  <2>1. leaseOf[joins[n]] = n
    BY <1>3 DEF TablesFine, RecordFine
  <2>2. CASE lease[n].state = "none"
    BY <1>3, <2>2 DEF TablesFine, RecordFine, Grown
  <2>3. CASE lease[n].state # "none"
    <3>1. Past(n) /\ joins'[n] = joins[n] /\ n # 0 /\ joins[n] \in Keys
      BY <1>1, <2>3, PastNumbers DEF RecordAt, Grown
    <3>2. EntryFine(joins[n])
      BY <3>1 DEF TablesFine
    <3> QED BY <1>3, <2>1, <3>1, <3>2 DEF EntryFine
  <2> QED BY <2>2, <2>3
<1>4. ASSUME NEW k \in Keys, NEW m, m = leaseOf'[k], m # 0
      PROVE  joins'[m] = k /\ lease'[m].state # "none"
  <2>1. EntryFine(k)
    BY DEF TablesFine
  <2>2. CASE m = leaseOf[k]
    <3>1. m \in LeaseId /\ joins[m] = k /\ lease[m].state # "none"
      BY <1>1, <1>4, <2>2 DEF MapInv
    <3>2. Past(m)
      BY <1>1, <3>1 DEF RecordAt
    <3> QED BY <1>4, <2>1, <2>2, <3>1, <3>2 DEF EntryFine, Grown
  <2>3. CASE m # leaseOf[k]
    BY <1>4, <2>1, <2>3 DEF EntryFine, Grown
  <2> QED BY <2>2, <2>3
<1> QED BY <1>2, <1>3, <1>4 DEF MapInv, Gone, GoneBy

\* A claim that is kept.
LEMMA ClaimStays ==
  ASSUME LInv, Base, Grown, JoinsKept, TablesFine, NEW s \in Sockets, NEW c, c # 0,
         task'[s].claim = c, task[s].claim = c, task'[s].n = task[s].n,
         task'[s].pc \in HoldingPcs
  PROVE  /\ PastBy(c) /\ joins'[c] = KeyOf(s)'
         /\ lease'[c].state # "pending"
         /\ lease'[c].state = "none" => GoneBy(c)
<1>1. /\ TInv /\ Past(c) /\ joins[c] = KeyOf(s) /\ task[s].pc \in HoldingPcs
      /\ lease[c].state # "pending" /\ (lease[c].state = "none" => Gone(c))
      /\ \A x \in Sockets : task[x].claim = c => x = s
  BY DEF LInv, Base, ClaimAt
<1>2. c \in LeaseId /\ task[s].pc # "idle"
  BY <1>1, PastNumbers DEF HoldingPcs
<1>3. PastBy(c) /\ joins'[c] = joins[c] /\ (Gone(c) => GoneBy(c)) /\ RecordFine(c)
  BY <1>1, <1>2 DEF Grown, TablesFine
<1>4. KeyOf(s)' = KeyOf(s)
  BY <1>1, <1>2, KeyKept
<1>5. ~Yielded(c)
  BY <1>1 DEF Yielded
<1> QED BY <1>1, <1>3, <1>4, <1>5 DEF RecordFine

\* The whole invariant after such a step.
LEMMA BaseStep ==
  ASSUME LInv, Base, Grown, JoinsKept, SeatInv', TablesFine, ClaimsFine
  PROVE  Base'
<1>1. MapInv'
  BY MapStep
<1>2. ASSUME NEW n \in LeaseId PROVE RecordAt(n)'
  <2>1. RecordFine(n)
    BY DEF TablesFine
  <2> QED BY <2>1 DEF RecordFine, RecordAt, Past, PastBy, Gone, GoneBy
<1>3. ASSUME NEW s \in Sockets PROVE ClaimAt(s)'
  <2>1. SUFFICES ASSUME NEW c, c = task'[s].claim, c # 0
                 PROVE  /\ PastBy(c) /\ joins'[c] = KeyOf(s)' /\ task'[s].pc \in HoldingPcs
                        /\ lease'[c].state # "pending"
                        /\ lease'[c].state = "none" => GoneBy(c)
                        /\ \A x \in Sockets : task'[x].claim = c => x = s
    BY DEF ClaimAt, Past, PastBy, Gone, GoneBy
  <2>2. CASE ClaimsKept(Sockets)
    <3>1. task[s].claim = c /\ task'[s].n = task[s].n /\ task'[s].pc \in HoldingPcs
      BY <2>1, <2>2 DEF ClaimsKept
    <3>2. \A x \in Sockets : task'[x].claim = c => x = s
      BY <2>1, <2>2, <3>1 DEF ClaimsKept, Base, ClaimAt
    <3> QED BY <2>1, <3>1, <3>2, ClaimStays
  <2>3. ASSUME NEW x \in Sockets, ClaimMade(x)
        PROVE  /\ PastBy(c) /\ joins'[c] = KeyOf(s)' /\ task'[s].pc \in HoldingPcs
               /\ lease'[c].state # "pending"
               /\ lease'[c].state = "none" => GoneBy(c)
               /\ \A y \in Sockets : task'[y].claim = c => y = s
    <3>1. \A y \in Sockets \ {x} : task'[y].claim # 0 =>
            /\ task'[y].claim = task[y].claim /\ task'[y].n = task[y].n
            /\ task'[y].pc \in HoldingPcs
            /\ lease[task[y].claim].state # "pending"
      BY <2>3 DEF ClaimMade, ClaimsKept, Base, ClaimAt
    <3>2. \A y \in Sockets \ {x} : task'[y].claim # task'[x].claim
      BY <2>3, <3>1 DEF ClaimMade
    <3>3. CASE s = x
      <4>1. PastBy(c) /\ joins'[c] = joins[c]
        BY <2>1, <2>3, <3>3 DEF ClaimMade, Grown
      <4> QED BY <2>1, <2>3, <3>2, <3>3, <4>1 DEF ClaimMade, KeyOf
    <3>4. CASE s # x
      <4>1. \A y \in Sockets : task'[y].claim = c => y = s
        BY <2>1, <3>1, <3>2, <3>4 DEF Base, ClaimAt
      <4> QED BY <2>1, <3>1, <3>4, <4>1, ClaimStays
    <3> QED BY <3>3, <3>4
  <2> QED BY <2>2, <2>3 DEF ClaimsFine
<1> QED BY <1>1, <1>2, <1>3 DEF Base

-----------------------------------------------------------------------------
(* Records. *)

\* A finalizer that runs under a finalizing state and rolls nothing back.
Runs(r) ==
  /\ r \in LeaseOver(Ops) /\ r.fin = "run" /\ r.state \in FinalizingStates
  /\ r.fail # "rollback"

\* The loop over the callbacks goes on to a ban only of a request that is there.
LEMMA AdvanceRuns ==
  ASSUME NEW r, Runs(r)
  PROVE  LET a == Advance(r)
         IN /\ Runs(a) /\ a.state = r.state /\ Tame(a)
            /\ SaysGone(a) => r.owned \/ r.fail = "no"
<1> DEFINE left == {i \in r.idx..Len(r.cbs) : ~(KindOf(r.cbs[i]) = "delete" /\ r.owned)}
           next == CHOOSE i \in left : \A j \in left : i <= j
           a == Advance(r)
<1>1. r.idx \in Nat \ {0} /\ r.cbs \in Seq(Ops) /\ Len(r.cbs) \in Nat /\ r \in LeaseOver(Ops)
  BY LenProperties DEF LeaseOver, Runs
<1>2. a \in LeaseOver(Ops) /\ a.fin = "run" /\ a.state = r.state
  BY <1>1, AdvanceType DEF Runs
<1>3. a.owned = r.owned /\ a.fail = r.fail
      /\ (a.stage = "settle" \/ (a.stage \in {"prereq", "revoke"} /\ a.cb \in Ops))
  <2>1. CASE left = {}
    <3>1. a = [r EXCEPT !.stage = "settle"]
      BY <2>1 DEF Advance
    <3> HIDE DEF a
    <3> QED BY <1>1, <3>1 DEF LeaseOver
  <2>2. CASE left # {}
    <3>1. left \subseteq Nat
      BY <1>1
    <3>2. \E i \in left : \A j \in left : i <= j
      BY <2>2, <3>1, LeastExists
    <3>3. next \in left
      BY <3>2
    <3>4. next \in 1..Len(r.cbs)
      BY <1>1, <3>3
    <3>5. r.cbs[next] \in Ops
      BY <1>1, <3>4, ElementOfSeq
    <3>6. a = [r EXCEPT !.cb = r.cbs[next], !.idx = next + 1,
                        !.stage = FirstStage(r.cbs[next])]
      BY <2>2 DEF Advance
    <3>7. FirstStage(r.cbs[next]) \in {"prereq", "revoke"}
      BY DEF FirstStage
    <3> HIDE DEF left, next, a
    <3> QED BY <1>1, <3>5, <3>6, <3>7 DEF LeaseOver
  <2> QED BY <2>1, <2>2
<1> HIDE DEF a
<1>4. Runs(a) /\ a.state = r.state
  BY <1>2, <1>3 DEF Runs
<1>5. Tame(a)
  BY <1>2, <1>3 DEF Tame, Runs, FinalizingStates
<1>6. SaysGone(a) => r.owned \/ r.fail = "no"
  BY <1>2, <1>3 DEF SaysGone, Runs, FinalizingStates
<1> QED BY <1>4, <1>5, <1>6 DEF a

\* The end of one callback.
LEMMA ReturnedRuns ==
  ASSUME NEW r, Runs(r), NEW released \in BOOLEAN, NEW failure \in {"no", "plain"}
  PROVE  LET q == Returned(r, released, failure)
         IN /\ Runs(q) /\ q.state = r.state /\ Tame(q)
            /\ SaysGone(q) => r.owned \/ released \/ (r.fail = "no" /\ failure = "no")
<1> DEFINE p == [r EXCEPT !.owned = @ \/ released,
                          !.fail = IF @ = "no" THEN failure ELSE @]
<1>1. /\ p \in LeaseOver(Ops) /\ p.fin = r.fin /\ p.state = r.state
      /\ p.owned => r.owned \/ released
      /\ p.fail = IF r.fail = "no" THEN failure ELSE r.fail
  BY DEF LeaseOver, Runs
<1> HIDE DEF p
<1>2. Returned(r, released, failure) = Advance(p)
  BY DEF Returned, p
<1>3. Runs(p)
  BY <1>1 DEF Runs
<1>4. /\ Runs(Advance(p)) /\ Advance(p).state = p.state /\ Tame(Advance(p))
      /\ SaysGone(Advance(p)) => p.owned \/ p.fail = "no"
  BY <1>3, AdvanceRuns
<1>5. p.fail = "no" => r.fail = "no" /\ failure = "no"
  BY <1>1
<1> QED BY <1>1, <1>2, <1>4, <1>5

\* A finalizer begins; one that says at once that the seat is gone found it gone.
LEMMA BeginRuns ==
  ASSUME NEW r \in LeaseOver(Ops), r.state \in FinalizingStates, NEW st, NEW n
  PROVE  LET b == Begin(st, n, r)
         IN /\ Runs(b) /\ b.state = r.state /\ Tame(b)
            /\ SaysGone(b) => ~currentLeasePeer(st, n)
<1> DEFINE r0 == [r EXCEPT !.fin = "run", !.idx = 1, !.owned = FALSE, !.fail = "no"]
           b == Begin(st, n, r)
<1>0. 1 \in Nat \ {0}
  OBVIOUS
<1>1. /\ r0 \in LeaseOver(Ops) /\ r0.fin = "run" /\ r0.state = r.state /\ ~r0.owned
      /\ r0.fail = "no"
  BY <1>0 DEF LeaseOver
<1>2. Runs(r0)
  BY <1>1 DEF Runs
<1>3. CASE ~currentLeasePeer(st, n)
  <2>1. b = Advance(r0)
    BY <1>3 DEF Begin
  <2> HIDE DEF r0, b
  <2>2. Runs(b) /\ b.state = r.state /\ Tame(b)
    BY <1>1, <1>2, <2>1, AdvanceRuns
  <2> QED BY <1>3, <2>2 DEF b
<1>4. CASE currentLeasePeer(st, n)
  <2>1. b \in LeaseOver(Ops) /\ b.fin = "run" /\ b.state = r.state
    BY BeginType
  <2>2. /\ ~b.owned /\ b.fail = "no"
        /\ b.stage = "revoke" \/ (b.stage = "prereq" /\ b.cb \in Ops)
    <3>1. CASE r.reason # "" /\ r.cbs # <<>>
      <4>1. Head(r.cbs) \in Ops /\ Tail(r.cbs) \in Seq(Ops)
        BY <3>1, HeadTailProperties DEF LeaseOver
      <4>2. FirstStage(Head(r.cbs)) \in {"prereq", "revoke"}
        BY DEF FirstStage
      <4>3. b = [r0 EXCEPT !.cb = Head(r.cbs), !.cbs = Tail(r.cbs),
                           !.stage = FirstStage(Head(r.cbs))]
        BY <1>4, <3>1 DEF Begin
      <4> HIDE DEF b
      <4> QED BY <1>1, <4>1, <4>2, <4>3 DEF LeaseOver
    <3>2. CASE ~(r.reason # "" /\ r.cbs # <<>>)
      <4>1. b = [r0 EXCEPT !.cb = NoOp, !.stage = "revoke"]
        BY <1>4, <3>2 DEF Begin
      <4> HIDE DEF b
      <4> QED BY <1>1, <4>1 DEF LeaseOver
    <3> QED BY <3>1, <3>2
  <2> HIDE DEF b, r0
  <2>3. Runs(b)
    BY <2>1, <2>2 DEF Runs
  <2>4. Tame(b)
    BY <2>1, <2>2 DEF Tame, FinalizingStates
  <2>5. ~SaysGone(b)
    BY <2>1, <2>2 DEF SaysGone, FinalizingStates
  <2> QED BY <2>1, <2>3, <2>4, <2>5 DEF b
<1> QED BY <1>3, <1>4

\* A finalizer is started unless there is one.
LEMMA StartedTame ==
  ASSUME NEW r \in LeaseOver(Ops), r.state \in FinalizingStates, Tame(r), NEW st, NEW n
  PROVE  LET b == Started(st, n, r)
         IN /\ b \in LeaseOver(Ops) /\ b.state = r.state /\ Tame(b) /\ b.fin # "none"
            /\ SaysGone(b) => SaysGone(r) \/ ~currentLeasePeer(st, n)
            /\ r.fin # "none" => b = r
            /\ r.fin \in {"none", "run"} => b.fin = "run"
<1>1. CASE r.fin = "none"
  <2>1. Started(st, n, r) = Begin(st, n, r)
    BY <1>1 DEF Started
  <2> QED BY <1>1, <2>1, BeginRuns DEF Runs
<1>2. CASE r.fin # "none"
  BY <1>2 DEF Started
<1> QED BY <1>1, <1>2

\* What a step may make of a record: it stays in order, and says that the seat is
\* gone only if it said so before or if that is so.
TameStep(old, new, gone) ==
  /\ new \in LeaseOver(Ops) /\ Tame(new) /\ (SaysGone(new) => SaysGone(old) \/ gone)
  /\ old.state # "terminal" /\ RunsOn(old) => RunsOn(new)

\* Ending a lease terminally.
LEMMA TerminalTame ==
  ASSUME NEW r \in LeaseOver(Ops), Tame(r), NEW reason \in Reasons,
         NEW cbs \in Seq(Ops), NEW st, NEW n, Len(joins) \in 0..MaxJoins, r.state # "none"
  PROVE  LET b == Started(st, n, terminalClaimRecord(r, reason, cbs))
         IN /\ TameStep(r, b, ~currentLeasePeer(st, n))
            /\ b.state \in FinalizingStates /\ b.fin # "none" /\ (b.fin = "ok" => SaysGone(r))
            /\ r.fin = "run" => b.fin = "run"
<1> DEFINE c == terminalClaimRecord(r, reason, cbs)
<1>1. c \in LeaseOver(Ops)
  BY ClaimedType
<1>2. /\ c.fin = IF r.state \in FailedStates THEN "none" ELSE r.fin
      /\ c.state \in FinalizingStates /\ c.stage = r.stage /\ c.owned = r.owned
      /\ c.fail = r.fail /\ c.cb = r.cb
  BY DEF terminalClaimRecord, LeaseOver, FinalizingStates
<1> HIDE DEF c
<1>3. Tame(c)
  BY <1>2 DEF Tame, FinalizingStates, FailedStates
<1>4. SaysGone(c) => SaysGone(r)
  BY <1>2 DEF SaysGone, FinalizingStates
<1>5. /\ Started(st, n, c) \in LeaseOver(Ops) /\ Started(st, n, c).state = c.state
      /\ Tame(Started(st, n, c)) /\ Started(st, n, c).fin # "none"
      /\ SaysGone(Started(st, n, c)) => SaysGone(c) \/ ~currentLeasePeer(st, n)
      /\ c.fin # "none" => Started(st, n, c) = c
      /\ c.fin \in {"none", "run"} => Started(st, n, c).fin = "run"
  BY <1>1, <1>2, <1>3, StartedTame
<1>8. r.state \notin {"none", "terminal"} /\ RunsOn(r) => Started(st, n, c).fin = "run"
  <2>1. r.state \in {"pending", "claimed"} \cup FinalizingStates \cup FailedStates
        \/ r.state \in {"none", "terminal"}
    BY DEF LeaseOver, LeaseStates, FinalizingStates, FailedStates
  <2>2. r.state \notin {"none", "terminal"} /\ RunsOn(r) => c.fin \in {"none", "run"}
    BY <1>2, <2>1 DEF RunsOn, Tame
  <2> QED BY <1>5, <2>2
<1>6. r.fin = "run" => c.fin = "run"
  BY <1>2 DEF Tame, FinalizingStates, FailedStates
<1>7. Started(st, n, c).fin = "ok" => SaysGone(r)
  <2>1. c.fin = "none" => Started(st, n, c).fin = "run"
    BY <1>1, BeginType DEF Started
  <2> QED BY <1>2, <1>5, <2>1 DEF SaysGone
<1> QED BY <1>2, <1>4, <1>5, <1>6, <1>7, <1>8 DEF TameStep, RunsOn, c

\* Giving a claim back.
LEMMA RestoreTame ==
  ASSUME NEW r \in LeaseOver(Ops), Tame(r), NEW st, NEW n
  PROVE  LET b == restoreClaimedLease(st, n, r)
         IN /\ TameStep(r, b, ~currentLeasePeer(st, n))
            /\ r.state # "claimed" => b = r
            /\ r.state = "claimed" => b.state \in {"pending"} \cup FinalizingStates
<1> DEFINE p == [r EXCEPT !.state = "pending"]
           q == [r EXCEPT !.state = "finalizing-expiry"]
<1>1. /\ p \in LeaseOver(Ops) /\ p.state = "pending" /\ p.fin = r.fin /\ p.stage = r.stage
      /\ p.owned = r.owned /\ p.fail = r.fail /\ p.cb = r.cb
      /\ q \in LeaseOver(Ops) /\ q.state = "finalizing-expiry" /\ q.fin = r.fin
      /\ q.stage = r.stage /\ q.owned = r.owned /\ q.fail = r.fail /\ q.cb = r.cb
  BY DEF LeaseOver, LeaseStates
<1> HIDE DEF p, q
<1>2. restoreClaimedLease(st, n, r) \in
        IF r.state # "claimed" THEN {r} ELSE {p, Started(st, n, q)}
  BY DEF restoreClaimedLease, p, q
<1>3. CASE r.state # "claimed"
  BY <1>2, <1>3 DEF TameStep
<1>4. CASE r.state = "claimed"
  <2>1. Tame(p) /\ (SaysGone(p) => SaysGone(r)) /\ Tame(q) /\ (SaysGone(q) => SaysGone(r))
    BY <1>1, <1>4 DEF Tame, SaysGone, FinalizingStates
  <2>2. /\ Started(st, n, q) \in LeaseOver(Ops) /\ Started(st, n, q).state = q.state
        /\ Tame(Started(st, n, q))
        /\ SaysGone(Started(st, n, q)) => SaysGone(q) \/ ~currentLeasePeer(st, n)
        /\ q.fin \in {"none", "run"} => Started(st, n, q).fin = "run"
    BY <1>1, <2>1, StartedTame DEF FinalizingStates
  <2>3. RunsOn(p) /\ RunsOn(Started(st, n, q))
    BY <1>1, <1>4, <2>2 DEF RunsOn, Tame, FinalizingStates
  <2> QED BY <1>1, <1>2, <1>4, <2>1, <2>2, <2>3 DEF TameStep, FinalizingStates
<1> QED BY <1>3, <1>4

\* Retrying a finalizer that failed.
LEMMA RetryTame ==
  ASSUME NEW r \in LeaseOver(Ops), NEW st, NEW n
  PROVE  LET b == retryFailedLeaseFinalizer(st, n, r)
         IN /\ TameStep(r, b, ~currentLeasePeer(st, n)) /\ b.state \in FinalizingStates
            /\ b.fin = "run"
<1> DEFINE q == [r EXCEPT !.state = IF r.reason # "" THEN "terminal-finalizing"
                                                     ELSE "finalizing-expiry"]
<1>1. q \in LeaseOver(Ops) /\ q.state \in FinalizingStates
  BY DEF LeaseOver, LeaseStates, FinalizingStates
<1>2. retryFailedLeaseFinalizer(st, n, r) = Begin(st, n, q)
  BY DEF retryFailedLeaseFinalizer
<1> HIDE DEF q
<1> QED BY <1>1, <1>2, BeginRuns DEF TameStep, Runs, RunsOn

\* The expiry of a pending lease.
LEMMA ExpiryTame ==
  ASSUME NEW r \in LeaseOver(Ops), Tame(r), r.state = "pending", NEW st, NEW n
  PROVE  LET b == Started(st, n, [r EXCEPT !.state = "finalizing-expiry", !.due = TRUE])
         IN TameStep(r, b, ~currentLeasePeer(st, n)) /\ b.state \in FinalizingStates
<1> DEFINE q == [r EXCEPT !.state = "finalizing-expiry", !.due = TRUE]
<1>1. /\ q \in LeaseOver(Ops) /\ q.state = "finalizing-expiry" /\ q.fin = r.fin
      /\ q.stage = r.stage /\ q.owned = r.owned /\ q.fail = r.fail /\ q.cb = r.cb
  BY DEF LeaseOver, LeaseStates
<1> HIDE DEF q
<1>2. Tame(q) /\ (SaysGone(q) => SaysGone(r))
  BY <1>1 DEF Tame, SaysGone, FinalizingStates
<1>3. /\ Started(st, n, q) \in LeaseOver(Ops) /\ Started(st, n, q).state = q.state
      /\ Tame(Started(st, n, q))
      /\ SaysGone(Started(st, n, q)) => SaysGone(q) \/ ~currentLeasePeer(st, n)
      /\ q.fin \in {"none", "run"} => Started(st, n, q).fin = "run"
  BY <1>1, <1>2, StartedTame DEF FinalizingStates
<1>4. RunsOn(Started(st, n, q))
  BY <1>1, <1>3 DEF RunsOn, Tame
<1> QED BY <1>1, <1>2, <1>3, <1>4 DEF TameStep, FinalizingStates, q

\* A pending lease is claimed, a deadline goes by, a socket is gone.
LEMMA FlagsTame ==
  ASSUME NEW r \in LeaseOver(Ops), Tame(r)
  PROVE  /\ r.state = "pending" =>
              LET b == [r EXCEPT !.state = "claimed", !.taken = TRUE]
              IN TameStep(r, b, FALSE) /\ b.state = "claimed" /\ b.fin = r.fin
         /\ LET b == [r EXCEPT !.due = TRUE]
            IN TameStep(r, b, FALSE) /\ b.state = r.state /\ b.fin = r.fin
         /\ LET b == [r EXCEPT !.disc = TRUE]
            IN TameStep(r, b, FALSE) /\ b.state = r.state /\ b.fin = r.fin
<1> DEFINE a == [r EXCEPT !.state = "claimed", !.taken = TRUE]
           b == [r EXCEPT !.due = TRUE]
           c == [r EXCEPT !.disc = TRUE]
<1>1. /\ a \in LeaseOver(Ops) /\ a.state = "claimed" /\ a.fin = r.fin /\ a.taken
      /\ a.stage = r.stage /\ a.owned = r.owned /\ a.fail = r.fail /\ a.cb = r.cb
  BY DEF LeaseOver, LeaseStates
<1>2. /\ b \in LeaseOver(Ops) /\ b.state = r.state /\ b.fin = r.fin /\ b.taken = r.taken
      /\ b.stage = r.stage /\ b.owned = r.owned /\ b.fail = r.fail /\ b.cb = r.cb
  BY DEF LeaseOver
<1>3. /\ c \in LeaseOver(Ops) /\ c.state = r.state /\ c.fin = r.fin /\ c.taken = r.taken
      /\ c.stage = r.stage /\ c.owned = r.owned /\ c.fail = r.fail /\ c.cb = r.cb
  BY DEF LeaseOver
<1> HIDE DEF a, b, c
<1>4. r.state = "pending" => Tame(a) /\ (SaysGone(a) => SaysGone(r))
  BY <1>1 DEF Tame, SaysGone, FinalizingStates
<1>5. Tame(b) /\ (SaysGone(b) => SaysGone(r)) /\ Tame(c) /\ (SaysGone(c) => SaysGone(r))
  BY <1>2, <1>3 DEF Tame, SaysGone
<1>6. RunsOn(a) /\ (RunsOn(r) => RunsOn(b) /\ RunsOn(c))
  BY <1>1, <1>2, <1>3 DEF RunsOn, FinalizingStates
<1> QED BY <1>1, <1>2, <1>3, <1>4, <1>5, <1>6 DEF TameStep, a, b, c

-----------------------------------------------------------------------------
(* Tables of records. *)

\* A record of a transport that had its seat is numbered by the join.
LEMMA OwnLease ==
  ASSUME TInv, NEW n, Past(n)
  PROVE  TransportOf(n) = n /\ LeaseKey(n) = joins[n] /\ joins[n] \in Keys
<1>1. \A i \in 1..MaxJoins : ~(i > MaxJoins)
  BY ConstantsAssumption
<1>2. n \in 1..MaxJoins /\ joins[n] \in Keys
  BY PastNumbers DEF JoinId
<1>3. TransportOf(n) = n
  BY <1>1, <1>2 DEF TransportOf
<1> QED BY <1>2, <1>3 DEF LeaseKey

\* A record that stays as it is.
LEMMA SameRecord ==
  ASSUME LInv, Base, Grown, NEW n \in LeaseId, lease'[n] = lease[n]
  PROVE  RecordFine(n)
<1>1. RecordAt(n) /\ (lease[n].state = "terminal" => leaseOf[joins[n]] = n)
  BY DEF Base, MapInv
<1>2. CASE lease[n].state = "none"
  BY <1>1, <1>2 DEF RecordAt, RecordFine
<1>3. CASE lease[n].state # "none"
  <2>1. PastBy(n) /\ Tame(lease[n]) /\ (SaysGone(lease[n]) => GoneBy(n))
    BY <1>1, <1>3 DEF RecordAt, Grown
  <2> QED BY <1>1, <1>3, <2>1 DEF RecordFine
<1> QED BY <1>2, <1>3

\* One record changes, and leaves the map if it goes.
LEMMA OneRecord ==
  ASSUME LInv, Base, Grown, NEW n \in LeaseId, RecordFine(n),
         \A m \in LeaseId \ {n} : lease'[m] = lease[m],
         \A k \in Keys : leaseOf'[k] = IF leaseOf[k] = n /\ lease'[n].state = "none"
                                       THEN 0 ELSE leaseOf[k]
  PROVE  TablesFine
<1>1. \A m \in LeaseId : RecordFine(m)
  BY SameRecord
<1>2. ASSUME NEW k \in Keys PROVE EntryFine(k)
  <2>1. leaseOf[k] # 0 => leaseOf[k] \in LeaseId /\ lease[leaseOf[k]].state # "none"
    BY RecordTypes DEF LInv, Base, MapInv
  <2>2. CASE leaseOf[k] = n
    <3>1. leaseOf'[k] = IF lease'[n].state = "none" THEN 0 ELSE n
      BY <2>2
    <3> QED BY <2>2, <3>1 DEF EntryFine
  <2>3. CASE leaseOf[k] # n
    <3>1. leaseOf'[k] = leaseOf[k]
      BY <2>3
    <3>2. leaseOf[k] # 0 => lease'[leaseOf[k]] = lease[leaseOf[k]]
      BY <2>1, <2>3
    <3> QED BY <2>1, <3>1, <3>2 DEF EntryFine
  <2> QED BY <2>2, <2>3
<1> QED BY <1>1, <1>2 DEF TablesFine

\* All as it was.
LEMMA NoRecord ==
  ASSUME LInv, Base, Grown, UNCHANGED <<lease, leaseOf>>
  PROVE  TablesFine
<1>1. \A n \in LeaseId : RecordFine(n)
  BY SameRecord
<1>2. \A k \in Keys : EntryFine(k)
  <2>1. \A k \in Keys : leaseOf[k] # 0 => lease[leaseOf[k]].state # "none"
    BY DEF Base, MapInv
  <2> QED BY <2>1 DEF EntryFine
<1> QED BY <1>1, <1>2 DEF TablesFine

\* What becomes of a record once its finalizer settled: it leaves the map, it may
\* be retried, or it says that the seat is gone.
LEMMA SettledFine ==
  ASSUME NEW r \in LeaseOver(Ops), Tame(r), r.stage = "settle", NEW st, NEW n
  PROVE  LET f == Settled(st, n, r)
         IN \/ f = NoLease /\ (isCurrent(n) => SaysGone(r))
            \/ /\ isCurrent(n) /\ Tame(f) /\ f.state \in FailedStates \cup {"terminal"}
               /\ SaysGone(f) => SaysGone(r)
<1> DEFINE done == [r EXCEPT !.fin = Result(r), !.cb = NoOp, !.stage = "",
                             !.idx = 1, !.owned = FALSE, !.fail = "no"]
           failed == [done EXCEPT !.state = IF r.reason # "" THEN "terminal-finalizer-failed"
                                                             ELSE "finalizer-failed"]
           over == [done EXCEPT !.state = "terminal"]
<1>1. r.fail # "rollback"
  BY DEF Tame
<1>2. /\ done.fin = Result(r) /\ done.stage = "" /\ ~done.owned /\ done.fail = "no"
      /\ done.cb = NoOp /\ Result(r) \in {"ok", "err"} /\ (r.fail # "no" => Result(r) = "err")
      /\ done \in [state : {done.state}, disc : {done.disc}, due : {done.due},
                   taken : {done.taken}, reason : {done.reason}, atSeq : {done.atSeq},
                   cbs : {done.cbs}, idx : {done.idx}, fin : {done.fin}, cb : {done.cb},
                   stage : {done.stage}, owned : {done.owned}, fail : {done.fail}]
  BY DEF LeaseOver, Result
<1> HIDE DEF done
<1>3. /\ failed.fin = Result(r) /\ failed.stage = "" /\ ~failed.owned /\ failed.fail = "no"
      /\ failed.state \in FailedStates
      /\ over.fin = Result(r) /\ over.stage = "" /\ ~over.owned /\ over.fail = "no"
      /\ over.state = "terminal"
  BY <1>2 DEF FailedStates
<1> HIDE DEF failed, over
<1>4. Tame(failed) /\ Tame(over)
  BY <1>2, <1>3 DEF Tame, FailedStates
<1>5. r.fail # "no" => ~SaysGone(failed)
  BY <1>2, <1>3 DEF SaysGone, FailedStates
<1>6. r.owned \/ r.fail = "no" => SaysGone(r)
  BY DEF SaysGone
<1>7. Settled(st, n, r) =
        IF ~isCurrent(n) THEN NoLease
        ELSE IF r.fail # "no" /\ ~r.owned THEN failed
        ELSE IF r.reason # "" THEN over ELSE NoLease
  BY <1>1 DEF Settled, done, failed, over
<1> QED BY <1>3, <1>4, <1>5, <1>6, <1>7

\* A record is put back.
LEMMA PutFine ==
  ASSUME LInv, Base, Grown, NEW n \in LeaseId, lease[n].state # "none",
         NEW r \in LeaseOver(Ops), Tame(r), SaysGone(r) => GoneBy(n), r.state # "none",
         r.state = "terminal" => lease[n].state = "terminal",
         r.state = "pending" => lease[n].state = "pending" \/ Yielded(n),
         RunsOn(lease[n]) => RunsOn(r) \/ Spends(n), r.state # "claimed",
         NEW st, lease' = LeasePut(lease, st, n, r), leaseOf' = MapPut(leaseOf, st, n, r)
  PROVE  TablesFine /\ lease'[n].state # "claimed"
<1> DEFINE f == Finish(st, n, r)
<1>1. /\ TInv /\ lease \in [LeaseId -> LeaseOver(Ops)] /\ leaseOf \in [Keys -> 0..MaxJoins]
      /\ Past(n) /\ PastBy(n) /\ (Gone(n) => GoneBy(n))
      /\ ~Gone(n) => leaseOf[joins[n]] = n
      /\ lease[n].state = "terminal" => leaseOf[joins[n]] = n
      /\ \A k \in Keys : leaseOf[k] = n => k = joins[n]
  <2>1. n # 0
    BY NoRecordZero
  <2> QED BY <2>1, RecordTypes DEF LInv, Base, RecordAt, Grown, MapInv
<1>2. LeaseKey(n) = joins[n] /\ (isCurrent(n) <=> leaseOf[joins[n]] = n) /\ joins[n] \in Keys
  BY <1>1, OwnLease DEF isCurrent
<1>3. lease'[n] = f /\ \A m \in LeaseId \ {n} : lease'[m] = lease[m]
  BY <1>1 DEF LeasePut
<1>4. \/ /\ f.state # "none" /\ Tame(f) /\ (SaysGone(f) => GoneBy(n))
         /\ f.state = "terminal" => leaseOf[joins[n]] = n
         /\ f.state = "pending" => lease[n].state = "pending" \/ Yielded(n)
         /\ RunsOn(lease[n]) => RunsOn(f) \/ Spends(n)
         /\ f.state # "claimed"
      \/ f = NoLease /\ GoneBy(n)
  <2>1. CASE r.stage # "settle"
    <3>1. f = r
      BY <2>1 DEF Finish
    <3> HIDE DEF f
    <3> QED BY <1>1, <3>1
  <2>2. CASE r.stage = "settle"
    <3>1. f = Settled(st, n, r)
      BY <2>2 DEF Finish
    <3> HIDE DEF f
    <3>2. \/ f = NoLease /\ (isCurrent(n) => SaysGone(r))
          \/ /\ isCurrent(n) /\ Tame(f) /\ f.state \in FailedStates \cup {"terminal"}
             /\ SaysGone(f) => SaysGone(r)
      BY <2>2, <3>1, SettledFine
    <3> QED BY <1>1, <1>2, <3>2 DEF FailedStates, RunsOn, FinalizingStates
  <2> QED BY <2>1, <2>2
<1>5. NoLease.state = "none"
  BY DEF NoLease
<1>6. RecordFine(n)
  <2> HIDE DEF f
  <2> QED BY <1>1, <1>3, <1>4, <1>5 DEF RecordFine
<1>7. ASSUME NEW k \in Keys
      PROVE  leaseOf'[k] = IF leaseOf[k] = n /\ lease'[n].state = "none" THEN 0 ELSE leaseOf[k]
  <2>1. f = NoLease <=> lease'[n].state = "none"
    <3> HIDE DEF f
    <3> QED BY <1>3, <1>4, <1>5
  <2>2. leaseOf' = IF leaseOf[joins[n]] = n /\ lease'[n].state = "none"
                   THEN [leaseOf EXCEPT ![joins[n]] = 0] ELSE leaseOf
    BY <1>2, <2>1 DEF MapPut
  <2> HIDE DEF f
  <2> QED BY <1>1, <1>2, <2>2
<1> HIDE DEF f
<1>8. lease'[n].state # "claimed"
  BY <1>3, <1>4, <1>5
<1>9. TablesFine
  BY <1>3, <1>6, <1>7, OneRecord
<1> QED BY <1>8, <1>9

-----------------------------------------------------------------------------
(* Leases that are opened. *)

\* Seats of which some may have been emptied, and none was taken.
OpensFor(st, ks) ==
  /\ st \in [Keys -> Seat] /\ ks \in SUBSET Keys /\ joins' = joins
  /\ \A k \in Keys : st[k].t = seats'[k].t /\ st[k].t \in {0, seats[k].t}

\* Who sits there sat there before, and the map has no other seat's record.
LEMMA OpensAt ==
  ASSUME LInv, Base, NEW st, NEW ks, OpensFor(st, ks), NEW n, n \in LeaseId
  PROVE  /\ \A k \in Keys : st[k].t = n => Past(n) /\ joins[n] = k /\ ~Gone(n)
         /\ \A k \in Keys : leaseOf[k] = n =>
              joins[n] = k /\ lease[n].state # "none" /\ Past(n)
         /\ n # 0
<1>1. n # 0 /\ RecordAt(n)
  BY NoRecordZero DEF Base
<1>2. ASSUME NEW k \in Keys, st[k].t = n PROVE Past(n) /\ joins[n] = k /\ ~Gone(n)
  <2>1. seats[k].t = n
    BY <1>1, <1>2 DEF OpensFor
  <2> QED BY <1>1, <2>1 DEF Base, SeatInv, Gone
<1>3. ASSUME NEW k \in Keys, leaseOf[k] = n
      PROVE  joins[n] = k /\ lease[n].state # "none" /\ Past(n)
  <2>1. joins[n] = k /\ lease[n].state # "none"
    BY <1>1, <1>3 DEF Base, MapInv
  <2> QED BY <1>1, <2>1 DEF RecordAt
<1> QED BY <1>1, <1>2, <1>3

\* The records as they are opened: a fresh one, none, or the one there was.
Fresh(st, ks, n) == \E k \in ks : st[k].t = n /\ leaseOf[k] # n
Dropped(st, ks, n) ==
  /\ \E k \in ks : leaseOf[k] = n /\ st[k].t \notin {0, n}
  /\ lease[n].state # "claimed" /\ lease[n].fin # "run"

\* Opening leases for the seats of ks makes each record anew, drops it, or leaves it.
LEMMA OpenedAs ==
  ASSUME LInv, Base, NEW st, NEW ks, OpensFor(st, ks), NEW n \in LeaseId
  PROVE  LET r == createReconnectLease(st, ks)[n]
         IN \/ Fresh(st, ks, n) /\ r = [NoLease EXCEPT !.state = "pending"]
               /\ lease[n].state = "none" /\ ~Dropped(st, ks, n)
            \/ Dropped(st, ks, n) /\ ~Fresh(st, ks, n) /\ r = NoLease
            \/ ~Fresh(st, ks, n) /\ ~Dropped(st, ks, n) /\ r = lease[n]
<1> DEFINE r == createReconnectLease(st, ks)[n]
<1>1. r = IF Fresh(st, ks, n) THEN [NoLease EXCEPT !.state = "pending"]
          ELSE IF Dropped(st, ks, n) THEN NoLease ELSE lease[n]
  BY DEF createReconnectLease, Fresh, Dropped
<1>2. ASSUME Fresh(st, ks, n) PROVE lease[n].state = "none" /\ ~Dropped(st, ks, n)
  <2>1. PICK k \in ks : st[k].t = n /\ leaseOf[k] # n
    BY <1>2 DEF Fresh
  <2>0. ks \subseteq Keys
    BY DEF OpensFor
  <2>2. k \in Keys /\ joins[n] = k /\ ~Gone(n)
    BY <2>0, <2>1, OpensAt
  <2>3. lease[n].state = "none"
    BY <2>1, <2>2 DEF Base, MapInv
  <2>4. \A j \in ks : leaseOf[j] # n
    BY <2>0, <2>3, OpensAt
  <2> QED BY <2>3, <2>4 DEF Dropped
<1> HIDE DEF r
<1> QED BY <1>1, <1>2 DEF r

\* What may be made of a record right away.
Reworked(n, old, new) ==
  /\ old.state \notin {"none", "terminal"} /\ new.state \notin {"none", "terminal"}
  /\ TameStep(old, new, GoneBy(n))
  /\ new.state \in {"pending", "claimed"} => new.state = old.state

\* Leases are opened for the seats ks, and some of them reworked.
LEMMA OpenedFine ==
  ASSUME LInv, Base, Grown, SeatInv', NEW st, NEW ks, OpensFor(st, ks),
         NEW le, le = createReconnectLease(st, ks), leaseOf' = MapOpened(st, ks),
         \A n \in LeaseId : lease'[n] = le[n] \/ Reworked(n, le[n], lease'[n])
  PROVE  TablesFine
<1> DEFINE fresh == [NoLease EXCEPT !.state = "pending"]
<1>1. /\ NoLease.state = "none" /\ fresh.state = "pending" /\ Tame(fresh) /\ ~SaysGone(fresh)
      /\ TInv /\ RunsOn(fresh)
  <2>1. /\ fresh.state = "pending" /\ fresh.fin = "none" /\ fresh.stage = "" /\ ~fresh.owned
        /\ fresh.fail = "no"
    BY DEF NoLease
  <2> HIDE DEF fresh
  <2> QED BY <2>1 DEF Tame, SaysGone, NoLease, LInv, RunsOn, FinalizingStates
<1> HIDE DEF fresh
<1>0. ks \subseteq Keys
  BY DEF OpensFor
<1>2. \A n \in LeaseId :
        \/ Fresh(st, ks, n) /\ le[n] = fresh /\ lease[n].state = "none" /\ ~Dropped(st, ks, n)
        \/ Dropped(st, ks, n) /\ ~Fresh(st, ks, n) /\ le[n] = NoLease
        \/ ~Fresh(st, ks, n) /\ ~Dropped(st, ks, n) /\ le[n] = lease[n]
  BY OpenedAs DEF fresh
<1>3. ASSUME NEW n \in LeaseId PROVE RecordFine(n)
  <2>0. lease'[n] = le[n] \/ Reworked(n, le[n], lease'[n])
    OBVIOUS
  <2>1. CASE Fresh(st, ks, n)
    <3>1. le[n] = fresh /\ lease[n].state = "none"
      BY <1>2, <2>1
    <3>2. PICK k \in ks : st[k].t = n /\ leaseOf[k] # n
      BY <2>1 DEF Fresh
    <3>3. k \in Keys /\ Past(n) /\ joins[n] = k /\ ~Gone(n) /\ n # 0
      BY <1>0, <3>2, OpensAt
    <3>4. PastBy(n) /\ leaseOf'[joins[n]] = n
      BY <3>2, <3>3 DEF Grown, MapOpened
    <3>5. /\ lease'[n].state # "none" /\ lease'[n].state # "terminal"
          /\ Tame(lease'[n]) /\ (SaysGone(lease'[n]) => GoneBy(n)) /\ RunsOn(lease'[n])
          /\ lease'[n].state # "claimed"
      BY <1>1, <2>0, <3>1 DEF Reworked, TameStep
    <3> QED BY <3>1, <3>3, <3>4, <3>5 DEF RecordFine
  <2>2. CASE Dropped(st, ks, n) /\ ~Fresh(st, ks, n)
    <3>1. lease'[n] = NoLease
      BY <1>1, <1>2, <2>0, <2>2 DEF Reworked
    <3>2. PICK k \in ks : leaseOf[k] = n /\ st[k].t \notin {0, n}
      BY <2>2 DEF Dropped
    <3>3. k \in Keys /\ joins[n] = k
      BY <1>0, <3>2, OpensAt
    <3>4. seats'[k].t # n /\ joins' = joins
      BY <3>2, <3>3 DEF OpensFor
    <3> QED BY <1>1, <3>1, <3>3, <3>4 DEF RecordFine, GoneBy
  <2>3. CASE ~Fresh(st, ks, n) /\ ~Dropped(st, ks, n)
    <3>1. le[n] = lease[n]
      BY <1>2, <2>3
    <3>2. CASE lease'[n] = lease[n]
      BY <3>2, SameRecord
    <3>3. CASE lease'[n] # lease[n]
      <4>1. Reworked(n, lease[n], lease'[n])
        BY <2>0, <3>1, <3>3
      <4>2. /\ Past(n) /\ PastBy(n) /\ (SaysGone(lease[n]) => GoneBy(n))
            /\ lease[n].state = "terminal" => leaseOf[joins[n]] = n
        BY <4>1 DEF Reworked, Base, RecordAt, Grown, MapInv
      <4> QED BY <4>1, <4>2 DEF Reworked, TameStep, RecordFine
    <3> QED BY <3>2, <3>3
  <2> QED BY <2>1, <2>2, <2>3
<1>4. ASSUME NEW n \in LeaseId, ~Dropped(st, ks, n), lease[n].state # "none" \/ Fresh(st, ks, n)
      PROVE  lease'[n].state # "none"
  BY <1>1, <1>2, <1>4 DEF Reworked
<1>5. ASSUME NEW n \in LeaseId, lease[n].state # "terminal" \/ Dropped(st, ks, n)
      PROVE  lease'[n].state # "terminal"
  BY <1>1, <1>2, <1>5 DEF Reworked
<1>6. ASSUME NEW k \in Keys PROVE EntryFine(k)
  <2> DEFINE l == leaseOf[k]
             m == leaseOf'[k]
  <2>1. /\ l # 0 => l \in LeaseId /\ joins[l] = k /\ lease[l].state # "none"
        /\ \A j \in ks : leaseOf[j] = l /\ l # 0 => j = k
    <3>1. l # 0 => l \in LeaseId
      BY <1>1, RecordTypes
    <3> QED BY <1>0, <3>1, OpensAt
  <2>2. m = IF k \in ks /\ st[k].t # 0 THEN st[k].t ELSE l
    BY DEF MapOpened
  <2>3. CASE m = l
    <3>1. l # 0 => ~Dropped(st, ks, l)
      BY <2>1, <2>2, <2>3 DEF Dropped
    <3>2. l # 0 => lease'[l].state # "none"
      <4> HIDE DEF l, m
      <4> QED BY <1>4, <2>1, <3>1
    <3> QED BY <2>3, <3>2 DEF EntryFine
  <2>4. CASE m # l
    <3>1. k \in ks /\ m = st[k].t /\ m # 0 /\ joins' = joins
      BY <2>2, <2>4 DEF OpensFor
    <3>2. m \in LeaseId
      <4>1. m \in 0..MaxJoins
        BY <3>1 DEF OpensFor, Seat
      <4> QED BY <1>1, <3>1, <4>1, RecordTypes
    <3>3. Past(m) /\ joins[m] = k
      BY <3>1, <3>2, OpensAt
    <3>4. Fresh(st, ks, m) /\ ~Dropped(st, ks, m)
      <4>1. Fresh(st, ks, m)
        BY <2>4, <3>1 DEF Fresh
      <4> HIDE DEF l, m
      <4> QED BY <1>2, <3>2, <4>1
    <3>5. lease'[m].state # "none"
      <4> HIDE DEF l, m
      <4> QED BY <1>4, <3>2, <3>4
    <3>6. l # 0 => GoneBy(l)
      <4>1. seats'[k].t = m
        BY <3>1 DEF OpensFor
      <4> HIDE DEF l, m
      <4> QED BY <2>1, <2>4, <3>1, <4>1 DEF GoneBy
    <3>7. l # 0 => lease'[l].state # "terminal"
      <4>1. l # 0 => RecordAt(l)
        BY <2>1 DEF Base
      <4>2. l # 0 /\ lease[l].state = "terminal" => lease[l].fin # "run"
        BY <2>1, <4>1 DEF RecordAt, Tame, FinalizingStates
      <4>3. l # 0 /\ lease[l].state = "terminal" => Dropped(st, ks, l)
        BY <2>4, <3>1, <4>2 DEF Dropped
      <4> HIDE DEF l, m
      <4> QED BY <1>5, <2>1, <4>3
    <3> HIDE DEF l, m
    <3> QED BY <2>4, <3>1, <3>3, <3>5, <3>6, <3>7 DEF EntryFine, l, m
  <2> QED BY <2>3, <2>4
<1> QED BY <1>3, <1>6 DEF TablesFine

\* The records that are there once leases are opened.
LEMMA OpenedThere ==
  ASSUME LInv, Base, NEW st, NEW ks, OpensFor(st, ks), NEW n \in LeaseId, n \in RecordsOf(st, ks)
  PROVE  LET r == createReconnectLease(st, ks)[n]
         IN r.state \notin {"none", "terminal"} /\ Tame(r) /\ Past(n)
<1> DEFINE r == createReconnectLease(st, ks)[n]
<1> SUFFICES r.state \notin {"none", "terminal"} /\ Tame(r) /\ Past(n)
  OBVIOUS
<1>1. PICK k \in ks : n = RecordFor(st, k)
  BY DEF RecordsOf
<1>2. k \in Keys /\ n # 0 /\ n \in {st[k].t, leaseOf[k]}
  BY <1>1, NoRecordZero DEF RecordFor, OpensFor
<1>3. Past(n) /\ joins[n] = k
  BY <1>2, OpensAt
<1>4. ~Dropped(st, ks, n)
  <2>1. \A j \in ks : leaseOf[j] = n => j = k
    <3>1. ks \subseteq Keys
      BY DEF OpensFor
    <3> QED BY <1>3, <3>1, OpensAt
  <2>2. st[k].t \in {0, n}
    BY <1>1 DEF RecordFor
  <2> QED BY <2>1, <2>2 DEF Dropped
<1>5. CASE Fresh(st, ks, n)
  <2> DEFINE fresh == [NoLease EXCEPT !.state = "pending"]
  <2>1. r = fresh
    BY <1>5, OpenedAs
  <2>2. fresh.state = "pending" /\ fresh.fin = "none" /\ fresh.stage = "" /\ fresh.fail = "no"
    BY DEF NoLease
  <2> HIDE DEF fresh, r
  <2> QED BY <1>3, <2>1, <2>2 DEF Tame
<1>6. CASE ~Fresh(st, ks, n)
  <2>1. r = lease[n]
    BY <1>4, <1>6, OpenedAs
  <2>2. n \in {leaseOf[j] : j \in {k}}
    BY <1>1, <1>2, <1>6 DEF Fresh
  <2>3. lease[n].state # "none" /\ RecordAt(n)
    BY <1>2, <2>2, OpensAt DEF Base
  <2>4. lease[n].state # "terminal"
    <3>1. CASE st[k].t = n
      <4>1. ~Gone(n)
        BY <1>2, <3>1, OpensAt
      <4> QED BY <2>3, <4>1 DEF RecordAt, SaysGone
    <3>2. CASE st[k].t # n
      BY <1>1, <1>2, <3>2 DEF RecordFor
    <3> QED BY <3>1, <3>2
  <2> HIDE DEF r
  <2> QED BY <1>3, <2>1, <2>3, <2>4 DEF RecordAt
<1> QED BY <1>5, <1>6

\* The seats ks are claimed terminally.
LEMMA EndedFine ==
  ASSUME LInv, Base, Grown, SeatInv', NEW st, NEW ks, OpensFor(st, ks),
         NEW reason \in Reasons, NEW cbs \in Seq(Ops),
         lease' = TerminalLeases(st, ks, reason, cbs), leaseOf' = MapOpened(st, ks)
  PROVE  TablesFine
<1> DEFINE le == createReconnectLease(st, ks)
<1>1. TInv /\ Len(joins) \in 0..MaxJoins
  BY RecordTypes DEF LInv
<1>2. le \in [LeaseId -> LeaseOver(Ops)]
  <2>1. lease \in [LeaseId -> Record(Asked)]
    BY <1>1 DEF TInv, LeaseInv
  <2>2. le \in [LeaseId -> Record(Asked)]
    BY <2>1, CreateType
  <2> HIDE DEF le
  <2> QED BY <1>1, <2>2, RecordTypes
<1>3. \A n \in LeaseId :
        lease'[n] = IF n \in RecordsOf(st, ks)
                    THEN Started(st, n, terminalClaimRecord(le[n], reason, cbs)) ELSE le[n]
  BY DEF TerminalLeases
<1>4. ASSUME NEW n \in LeaseId, n \in RecordsOf(st, ks)
      PROVE  le[n].state \notin {"none", "terminal"} /\ Tame(le[n]) /\ Past(n)
  BY <1>4, OpenedThere
<1> DEFINE table == le
<1>5. table = createReconnectLease(st, ks) /\ table = le
  OBVIOUS
<1> HIDE DEF table
<1> HIDE DEF le
<1>6. ASSUME NEW n \in LeaseId PROVE lease'[n] = le[n] \/ Reworked(n, le[n], lease'[n])
  <2>1. CASE n \notin RecordsOf(st, ks)
    BY <1>3, <2>1
  <2>2. CASE n \in RecordsOf(st, ks)
    <3>1. /\ le[n].state \notin {"none", "terminal"} /\ Tame(le[n]) /\ Past(n)
          /\ le[n] \in LeaseOver(Ops)
      BY <1>2, <1>4, <2>2
    <3>2. lease'[n] = Started(st, n, terminalClaimRecord(le[n], reason, cbs))
      BY <1>3, <2>2
    <3>3. /\ TameStep(le[n], lease'[n], ~currentLeasePeer(st, n))
          /\ lease'[n].state \in FinalizingStates
      BY <1>1, <3>1, <3>2, TerminalTame
    <3>4. ~currentLeasePeer(st, n) => GoneBy(n)
      <4>1. TransportOf(n) = n /\ LeaseKey(n) = joins[n] /\ joins[n] \in Keys
        BY <1>1, <3>1, OwnLease
      <4> QED BY <4>1 DEF currentLeasePeer, GoneBy, OpensFor
    <3> QED BY <3>1, <3>3, <3>4 DEF Reworked, TameStep, FinalizingStates
  <2> QED BY <2>1, <2>2
<1>7. \A n \in LeaseId : lease'[n] = table[n] \/ Reworked(n, table[n], lease'[n])
  BY <1>5, <1>6
<1> QED BY <1>5, <1>7, OpenedFine

-----------------------------------------------------------------------------
(* Claims. *)

\* A command that holds the claim it held, or none.
HoldingAt(x) ==
  \/ task'[x].claim = 0
  \/ /\ task'[x].claim = task[x].claim /\ task'[x].n = task[x].n
     /\ task'[x].pc = task[x].pc \/ task'[x].pc \in HoldingPcs

\* Such commands hold no lease they did not hold before.
LEMMA HoldingKept ==
  ASSUME Base, NEW S \in SUBSET Sockets, \A x \in S : HoldingAt(x)
  PROVE  ClaimsKept(S)
<1>1. ASSUME NEW x \in S, task'[x].claim # 0
      PROVE  /\ task'[x].claim = task[x].claim /\ task'[x].n = task[x].n
             /\ task'[x].pc \in HoldingPcs
  <2>1. /\ task'[x].claim = task[x].claim /\ task'[x].n = task[x].n
        /\ task'[x].pc = task[x].pc \/ task'[x].pc \in HoldingPcs
    BY <1>1 DEF HoldingAt
  <2>2. task[x].pc \in HoldingPcs
    BY <1>1, <2>1 DEF Base, ClaimAt
  <2> QED BY <2>1, <2>2
<1> QED BY <1>1 DEF ClaimsKept

\* Hearing from a finalizer leaves a claim alone.
LEMMA PutHolds ==
  ASSUME NEW tk, NEW n, NEW r, NEW x \in Sockets, IsCommand(tk[x])
  PROVE  /\ TaskPut(tk, n, r)[x].claim = tk[x].claim
         /\ TaskPut(tk, n, r)[x].pc = tk[x].pc /\ TaskPut(tk, n, r)[x].n = tk[x].n
<1>1. [tk[x] EXCEPT !.wait = 0, !.got = Result(r)].claim = tk[x].claim
  BY DEF IsCommand
<1> QED BY <1>1, PutKeepsTasks DEF TaskPut

\* One command is set, and others may hear from a finalizer.
LEMMA OthersHold ==
  ASSUME LInv, Base, NEW s \in Sockets, NEW t, IsCommand(t), NEW n, NEW r,
         task' \in {[task EXCEPT ![s] = t], TaskPut([task EXCEPT ![s] = t], n, r)}
  PROVE  /\ task'[s].pc = t.pc /\ task'[s].n = t.n /\ task'[s].claim = t.claim
         /\ ClaimsKept(Sockets \ {s}) /\ ClaimsHeld(Sockets \ {s})
<1> DEFINE tk == [task EXCEPT ![s] = t]
<1>1. /\ \A x \in Sockets : IsCommand(tk[x])
      /\ tk[s] = t /\ \A x \in Sockets \ {s} : tk[x] = task[x]
  BY CommandsKnown DEF Commands, LInv
<1>2. task' \in {tk, TaskPut(tk, n, r)}
  OBVIOUS
<1> HIDE DEF tk
<1>3. \A x \in Sockets : /\ task'[x].pc = tk[x].pc /\ task'[x].n = tk[x].n
                         /\ task'[x].claim = tk[x].claim
  BY <1>1, <1>2, PutHolds
<1>4. \A x \in Sockets \ {s} : HoldingAt(x)
  BY <1>1, <1>3 DEF HoldingAt
<1>5. Sockets \ {s} \in SUBSET Sockets
  OBVIOUS
<1>6. ClaimsHeld(Sockets \ {s})
  BY <1>1, <1>3 DEF ClaimsHeld
<1> QED BY <1>1, <1>3, <1>4, <1>5, <1>6, HoldingKept

\* The command of s, when it holds the claim it held, or none.
LEMMA OneHolds ==
  ASSUME LInv, Base, NEW s \in Sockets, NEW t, IsCommand(t), NEW n, NEW r,
         task' \in {[task EXCEPT ![s] = t], TaskPut([task EXCEPT ![s] = t], n, r)},
         \/ t.claim = 0 /\ (task[s].claim = 0 \/ lease'[task[s].claim].state # "claimed")
         \/ t.claim = task[s].claim /\ t.n = task[s].n /\ t.pc \in HoldingPcs \cup {task[s].pc}
  PROVE  ClaimsFine
<1>1. /\ task'[s].pc = t.pc /\ task'[s].n = t.n /\ task'[s].claim = t.claim
      /\ ClaimsKept(Sockets \ {s}) /\ ClaimsHeld(Sockets \ {s})
  BY OthersHold
<1>4. ClaimsHeld(Sockets)
  BY <1>1 DEF ClaimsHeld
<1>2. {s} \in SUBSET Sockets /\ \A x \in {s} : HoldingAt(x)
  BY <1>1 DEF HoldingAt
<1>3. ClaimsKept({s})
  BY <1>2, HoldingKept
<1> QED BY <1>1, <1>3, <1>4 DEF ClaimsFine, ClaimsKept

\* Nobody but those who hear from a finalizer.
LEMMA AllHold ==
  ASSUME LInv, Base, NEW n, NEW r, task' \in {task, TaskPut(task, n, r)}
  PROVE  ClaimsFine
<1>1. \A x \in Sockets : IsCommand(task[x])
  BY CommandsKnown DEF Commands, LInv
<1>2. \A x \in Sockets : HoldingAt(x)
  BY <1>1, PutHolds DEF HoldingAt
<1>3. Sockets \in SUBSET Sockets
  OBVIOUS
<1>4. ClaimsHeld(Sockets)
  BY <1>1, PutHolds DEF ClaimsHeld
<1> QED BY <1>2, <1>3, <1>4, HoldingKept DEF ClaimsFine

-----------------------------------------------------------------------------
(* Seats that are emptied. *)

\* The body of SeatEndedByItsOwn.
OwnEnd(k) ==
  LET t == seats[k].t  c == seats[k].conn
  IN t # 0 /\ seats'[k].t = 0 =>
       \/ c \in Sockets /\ sock[c].open # "open"
       \/ lease[t].fin = "run"
       \/ \E s \in Sockets : task[s].pc \in LatePcs /\ task[s].n = t
OwnStep == \A k \in Keys : OwnEnd(k)

\* What every step does.
SeatStep == TablesFine /\ ClaimsFine /\ OwnStep

\* Telling a room empties the seats of those whose sockets take no writes.
LEMMA PublishEnds ==
  ASSUME NEW st, IsTable(st), NEW r, NEW except, NEW k \in Keys,
         publish(st, r, except)[k] # st[k]
  PROVE  st[k].conn \in Sockets /\ sock[st[k].conn].open # "open"
BY DEF publish, IsTable

\* Closing a seat empties that too, if it is still of the transport.
LEMMA CloseEnds ==
  ASSUME NEW st, IsTable(st), NEW j, NEW t, NEW k \in Keys, closePeer(st, j, t)[k] # st[k]
  PROVE  \/ k = j /\ st[k].t = t
         \/ st[k].conn \in Sockets /\ sock[st[k].conn].open # "open"
<1> DEFINE vacated == [st EXCEPT ![j] = Vacant]
<1>1. IsTable(vacated) /\ (k # j => vacated[k] = st[k])
  BY DEF IsTable
<1>2. st[j].t = t /\ closePeer(st, j, t) = publish(vacated, j[1], j)
  BY DEF closePeer
<1> HIDE DEF vacated
<1>3. k # j => vacated[k].conn \in Sockets /\ sock[vacated[k].conn].open # "open"
  BY <1>1, <1>2, PublishEnds
<1> QED BY <1>1, <1>2, <1>3

\* Nobody leaves.
LEMMA NobodyEnds ==
  ASSUME \A k \in Keys : seats'[k].t = seats[k].t
  PROVE  OwnStep
BY DEF OwnStep, OwnEnd

\* A room is told something.
LEMMA PublishOwn ==
  ASSUME LInv, NEW r, NEW except, seats' = publish(seats, r, except)
  PROVE  OwnStep
<1>1. ASSUME NEW k \in Keys PROVE OwnEnd(k)
  <2>1. IsTable(seats)
    BY SeatsFade
  <2>2. CASE seats'[k] = seats[k]
    BY <2>2 DEF OwnEnd
  <2>3. CASE seats'[k] # seats[k]
    BY <2>1, <2>3, PublishEnds DEF OwnEnd
  <2> QED BY <2>2, <2>3
<1> QED BY <1>1 DEF OwnStep

\* A seat is closed by what belongs to its transport.
LEMMA CloseOwn ==
  ASSUME LInv, NEW j, NEW t, seats' \in {seats, closePeer(seats, j, t)},
         \/ lease[t].fin = "run"
         \/ \E s \in Sockets : task[s].pc \in LatePcs /\ task[s].n = t
  PROVE  OwnStep
<1>1. ASSUME NEW k \in Keys PROVE OwnEnd(k)
  <2>1. IsTable(seats)
    BY SeatsFade
  <2>2. CASE seats'[k] = seats[k]
    BY <2>2 DEF OwnEnd
  <2>3. CASE seats'[k] # seats[k]
    <3>1. \/ k = j /\ seats[k].t = t
          \/ seats[k].conn \in Sockets /\ sock[seats[k].conn].open # "open"
      BY <2>1, <2>3, CloseEnds
    <3> QED BY <3>1 DEF OwnEnd
  <2> QED BY <2>2, <2>3
<1> QED BY <1>1 DEF OwnStep

-----------------------------------------------------------------------------
(* Finalizers and timers. *)

\* A record is put back by its own finalizer or timer.
LEMMA FinalizerPuts ==
  ASSUME LInv, Base, Grown, NEW n \in LeaseId, lease[n].state # "none",
         NEW r \in LeaseOver(Ops), Tame(r), SaysGone(r) => GoneBy(n),
         r.state \in FinalizingStates, r.fin = "run", NEW st, NEW so, FinalizerStep(n, r, st, so)
  PROVE  TablesFine /\ ClaimsFine
<1>1. /\ lease' = LeasePut(lease, st, n, r) /\ leaseOf' = MapPut(leaseOf, st, n, r)
      /\ task' \in {task, TaskPut(task, n, r)}
      /\ r.state \notin {"none", "terminal", "pending", "claimed"} /\ RunsOn(r)
  BY DEF FinalizerStep, FinalizingStates, RunsOn
<1>2. TablesFine
  BY <1>1, PutFine
<1>3. ClaimsFine
  BY <1>1, AllHold
<1> QED BY <1>2, <1>3

\* Nobody sits for a transport in the seat that was closed for it.
LEMMA ClosedGone ==
  ASSUME NEW st, IsTable(st), NEW k \in Keys, NEW t, t # 0
  PROVE  closePeer(st, k, t)[k].t # t
<1> DEFINE vacated == [st EXCEPT ![k] = Vacant]
<1>1. IsTable(vacated) /\ vacated[k] = Vacant /\ Vacant.t = 0
  BY DEF IsTable, Vacant
<1>2. closePeer(st, k, t) = IF st[k].t # t THEN st ELSE publish(vacated, k[1], k)
  BY DEF closePeer
<1> HIDE DEF vacated
<1>3. publish(vacated, k[1], k)[k] \in {vacated[k], Vacant}
  BY <1>1 DEF publish
<1> QED BY <1>1, <1>2, <1>3

\* The records that a step of a finalizer makes of one that runs.
LEMMA RunningTame ==
  ASSUME NEW r, Runs(r), NEW ok \in BOOLEAN, NEW stage \in {"revoke", "identity", "participant"}
  PROVE  LET p == Noted(r, ok)
             q == [r EXCEPT !.stage = stage]
             w == [Noted(r, ok) EXCEPT !.stage = stage]
         IN /\ Runs(p) /\ p.state = r.state /\ p.owned = r.owned
            /\ Runs(q) /\ q.state = r.state /\ q.owned = r.owned /\ Tame(q)
            /\ stage = "revoke" => (SaysGone(q) => r.owned)
            /\ Runs(w) /\ w.state = r.state /\ w.owned = r.owned /\ Tame(w)
<1> DEFINE fail == IF r.fail = "no" /\ ~ok THEN "plain" ELSE r.fail
<1>1. /\ Noted(r, ok) = [r EXCEPT !.fail = fail] /\ fail \in {"no", "plain"}
      /\ r \in LeaseOver(Ops) /\ stage \in Stages
  BY DEF Noted, LeaseOver, Runs, Stages
<1>2. ASSUME NEW a, Runs(a), NEW f \in {"no", "plain"}
      PROVE  LET b == [a EXCEPT !.fail = f]
             IN Runs(b) /\ b.state = a.state /\ b.owned = a.owned
  BY <1>2 DEF LeaseOver, Runs
<1>3. ASSUME NEW a, Runs(a)
      PROVE  LET b == [a EXCEPT !.stage = stage]
             IN Runs(b) /\ b.state = a.state /\ b.owned = a.owned /\ b.stage = stage
  BY <1>1, <1>3 DEF LeaseOver, Runs
<1> DEFINE q == [r EXCEPT !.stage = stage]
           p == [r EXCEPT !.fail = fail]
           w == [p EXCEPT !.stage = stage]
<1>p. Runs(p) /\ p.state = r.state /\ p.owned = r.owned
  <2> HIDE DEF fail
  <2> QED BY <1>1, <1>2
<1>q. Runs(q) /\ q.state = r.state /\ q.owned = r.owned /\ q.stage = stage
  BY <1>3
<1>w. Runs(w) /\ w.state = p.state /\ w.owned = p.owned /\ w.stage = stage
  <2> HIDE DEF p
  <2> QED BY <1>p, <1>3
<1>4. Noted(r, ok) = p
  BY <1>1
<1> HIDE DEF q, p, w, fail
<1>6. Tame(q) /\ Tame(w) /\ (stage = "revoke" => (SaysGone(q) => r.owned))
  BY <1>q, <1>p, <1>w DEF Runs, Tame, SaysGone, FinalizingStates
<1> QED BY <1>4, <1>p, <1>q, <1>w, <1>6 DEF q, w

\* Every step of a finalizer.
LEMMA FinalizerSeats ==
  ASSUME LInv, Base, Grown, NoBanRefused, NEW n \in LeaseId, Finalizer(n)
  PROVE  SeatStep
<1> DEFINE r == lease[n]
           closed == closePeer(seats, LeaseKey(n), TransportOf(n))
<1>1. r.stage # "" /\ r \in LeaseOver(Ops) /\ RecordAt(n) /\ TInv /\ n # 0
  BY RecordTypes, NoRecordZero
  DEF LInv, Base, Finalizer, PrerequisiteDone, CredentialsRevoked, IdentityInvalidated,
      ParticipantRemoved
<1>2. /\ r.state # "none" /\ Past(n) /\ Tame(r) /\ (SaysGone(r) => Gone(n))
      /\ PastBy(n) /\ (Gone(n) => GoneBy(n))
  <2>1. NoLease.stage = ""
    BY DEF NoLease
  <2> QED BY <1>1, <2>1 DEF RecordAt, Grown
<1>3. Runs(r)
  BY <1>1, <1>2 DEF Runs, Tame
<1>4. TransportOf(n) = n /\ LeaseKey(n) = joins[n] /\ joins[n] \in Keys
  BY <1>1, <1>2, OwnLease
<1>5. closed = closePeer(seats, joins[n], n) /\ closed[joins[n]].t # n
  <2>1. IsTable(seats)
    BY SeatsFade
  <2> QED BY <1>1, <1>4, <2>1, ClosedGone
<1> HIDE DEF closed
<1>6. ASSUME NEW q, Runs(q), Tame(q), q.state = r.state, NEW st \in {seats, closed},
             SaysGone(q) => SaysGone(r) \/ st = closed, NEW so, FinalizerStep(n, q, st, so)
      PROVE  SeatStep
  <2>1. seats' = st /\ joins' = joins
    BY <1>6 DEF FinalizerStep
  <2>2. SaysGone(q) => GoneBy(n)
    BY <1>2, <1>5, <1>6, <2>1 DEF GoneBy
  <2>3. q \in LeaseOver(Ops) /\ q.state \in FinalizingStates /\ q.fin = "run"
    BY <1>6 DEF Runs
  <2> HIDE DEF r
  <2>4. TablesFine /\ ClaimsFine
    BY <1>2, <1>6, <2>2, <2>3, FinalizerPuts DEF r
  <2>5. OwnStep
    <3>1. lease[n].fin = "run" /\ seats' \in {seats, closePeer(seats, joins[n], n)}
      BY <1>3, <1>5, <1>6, <2>1 DEF Runs, r
    <3> QED BY <3>1, CloseOwn
  <2> QED BY <2>4, <2>5 DEF SeatStep
<1>7. ASSUME NEW q, Runs(q), q.state = r.state, q.owned = r.owned, Evicted(n, q)
      PROVE  SeatStep
  <2> DEFINE p == [q EXCEPT !.stage = "identity"]
             st == IF q.owned THEN seats ELSE closed
  <2>1. Runs(p) /\ Tame(p) /\ p.state = q.state
    BY <1>7, RunningTame
  <2>2. FinalizerStep(n, p, st, detachVoicePeer(sock, {LeaseKey(n)}))
    BY <1>7 DEF Evicted, closed
  <2>3. st \in {seats, closed} /\ (SaysGone(r) \/ st = closed)
    BY <1>7 DEF SaysGone
  <2> HIDE DEF p, st, r
  <2> QED BY <1>6, <1>7, <2>1, <2>2, <2>3
<1>8. \A released \in BOOLEAN, failure \in {"no", "plain"} :
        LET q == Returned(r, released, failure)
        IN /\ Runs(q) /\ q.state = r.state /\ Tame(q)
           /\ SaysGone(q) => r.owned \/ released \/ (r.fail = "no" /\ failure = "no")
  <2> HIDE DEF r
  <2> QED BY <1>3, ReturnedRuns
<1>9. \A ok \in BOOLEAN, stage \in {"revoke", "identity", "participant"} :
        LET p == Noted(r, ok)
            q == [r EXCEPT !.stage = stage]
            w == [Noted(r, ok) EXCEPT !.stage = stage]
        IN /\ Runs(p) /\ p.state = r.state /\ p.owned = r.owned
           /\ Runs(q) /\ q.state = r.state /\ q.owned = r.owned /\ Tame(q)
           /\ stage = "revoke" => (SaysGone(q) => r.owned)
           /\ Runs(w) /\ w.state = r.state /\ w.owned = r.owned /\ Tame(w)
  <2> HIDE DEF r
  <2> QED BY <1>3, RunningTame
<1>10. r.owned => SaysGone(r)
  BY DEF SaysGone
<1>11. CASE PrerequisiteDone(n)
  <2>1. r.stage = "prereq" /\ r.cb \in Ops /\ op[r.cb].pre # "failed"
    BY <1>2, <1>11 DEF PrerequisiteDone, NoBanRefused, Tame
  <2>2. \/ FinalizerStep(n, [r EXCEPT !.stage = "revoke"], seats, sock)
        \/ Evicted(n, r)
    BY <1>11, <2>1 DEF PrerequisiteDone
  <2> HIDE DEF r
  <2>3. CASE Evicted(n, r)
    BY <1>3, <1>7, <2>3
  <2>4. CASE FinalizerStep(n, [r EXCEPT !.stage = "revoke"], seats, sock)
    <3> DEFINE q == [r EXCEPT !.stage = "revoke"]
    <3>1. Runs(q) /\ q.state = r.state /\ Tame(q) /\ (SaysGone(q) => r.owned)
      BY <1>9
    <3>2. FinalizerStep(n, q, seats, sock)
      BY <2>4
    <3> HIDE DEF q
    <3> QED BY <1>6, <1>10, <3>1, <3>2
  <2> QED BY <2>2, <2>3, <2>4
<1>12. CASE CredentialsRevoked(n)
  <2> DEFINE kept == Returned(r, FALSE, "plain")
             none == Returned(r, FALSE, "no")
  <2>1. PICK ok \in BOOLEAN :
          \/ Evicted(n, Noted(r, ok))
          \/ FinalizerStep(n, kept, seats, sock)
          \/ r.owned /\ FinalizerStep(n, none, seats, sock)
          \/ FinalizerStep(n, [Noted(r, ok) EXCEPT !.stage = "participant"], closed, sock)
          \/ r.owned /\ FinalizerStep(n, [Noted(r, ok) EXCEPT !.stage = "participant"], seats, sock)
    BY <1>12 DEF CredentialsRevoked, closed
  <2> HIDE DEF r
  <2>2. CASE Evicted(n, Noted(r, ok))
    BY <1>7, <1>9, <2>2
  <2>3. CASE FinalizerStep(n, kept, seats, sock)
    <3>1. Runs(kept) /\ kept.state = r.state /\ Tame(kept) /\ (SaysGone(kept) => r.owned)
      BY <1>8
    <3> HIDE DEF kept
    <3> QED BY <1>6, <1>10, <2>3, <3>1
  <2>4. CASE r.owned /\ FinalizerStep(n, none, seats, sock)
    <3>1. Runs(none) /\ none.state = r.state /\ Tame(none)
      BY <1>8
    <3> HIDE DEF none
    <3> QED BY <1>6, <1>10, <2>4, <3>1
  <2>5. ASSUME NEW st \in {seats, closed}, r.owned \/ st = closed,
               FinalizerStep(n, [Noted(r, ok) EXCEPT !.stage = "participant"], st, sock)
        PROVE  SeatStep
    <3> DEFINE w == [Noted(r, ok) EXCEPT !.stage = "participant"]
    <3>1. Runs(w) /\ w.state = r.state /\ Tame(w)
      BY <1>9
    <3>2. FinalizerStep(n, w, st, sock)
      BY <2>5
    <3> HIDE DEF w
    <3> QED BY <1>6, <1>10, <2>5, <3>1, <3>2
  <2> QED BY <2>1, <2>2, <2>3, <2>4, <2>5
<1>13. ASSUME NEW q, Runs(q), Tame(q), q.state = r.state, FinalizerStep(n, q, seats, sock),
              r.stage \in {"identity", "participant"}
       PROVE  SeatStep
  <2>1. SaysGone(r)
    BY <1>13 DEF SaysGone
  <2> QED BY <1>6, <1>13, <2>1
<1>14. CASE IdentityInvalidated(n)
  <2>1. PICK ok \in BOOLEAN :
          \/ \E failure \in {"no", "plain"} : FinalizerStep(n, Returned(r, TRUE, failure), seats, sock)
          \/ FinalizerStep(n, [Noted(r, ok) EXCEPT !.stage = "participant"], seats, sock)
    BY <1>14 DEF IdentityInvalidated
  <2>2. r.stage = "identity"
    BY <1>14 DEF IdentityInvalidated
  <2> HIDE DEF r
  <2>3. CASE \E failure \in {"no", "plain"} : FinalizerStep(n, Returned(r, TRUE, failure), seats, sock)
    BY <1>8, <1>13, <2>2, <2>3
  <2>4. CASE FinalizerStep(n, [Noted(r, ok) EXCEPT !.stage = "participant"], seats, sock)
    BY <1>9, <1>13, <2>2, <2>4
  <2> QED BY <2>1, <2>3, <2>4
<1>15. CASE ParticipantRemoved(n)
  <2>1. /\ r.stage = "participant"
        /\ \E released \in BOOLEAN, failure \in {"no", "plain"} :
             FinalizerStep(n, Returned(r, released, failure), seats, sock)
    <3> DEFINE member == lease[n].cb \in Ops /\ KindOf(lease[n].cb) = "member"
    <3>1. PICK ok \in BOOLEAN :
            FinalizerStep(n, Returned(r, ok \/ ~member, IF ok THEN "no" ELSE "plain"), seats, sock)
      BY <1>15 DEF ParticipantRemoved
    <3>2. (ok \/ ~member) \in BOOLEAN /\ (IF ok THEN "no" ELSE "plain") \in {"no", "plain"}
      OBVIOUS
    <3>3. r.stage = "participant"
      BY <1>15 DEF ParticipantRemoved
    <3> HIDE DEF member, r
    <3> QED BY <3>1, <3>2, <3>3
  <2> HIDE DEF r
  <2> QED BY <1>8, <1>13, <2>1
<1> HIDE DEF r
<1> QED BY <1>11, <1>12, <1>14, <1>15 DEF Finalizer

\* What every step finds of a record that is there.
LEMMA RecordThere ==
  ASSUME LInv, Base, Grown, NEW n \in LeaseId, lease[n].state # "none"
  PROVE  /\ lease[n] \in LeaseOver(Ops) /\ Tame(lease[n]) /\ Past(n) /\ PastBy(n)
         /\ SaysGone(lease[n]) => GoneBy(n)
         /\ ~currentLeasePeer(seats, n) => GoneBy(n)
         /\ TransportOf(n) = n /\ LeaseKey(n) = joins[n] /\ joins[n] \in Keys
         /\ currentLeasePeer(seats, n) <=> ~Gone(n)
<1>1. TInv /\ lease[n] \in LeaseOver(Ops) /\ RecordAt(n)
  BY RecordTypes DEF LInv, Base
<1>2. Past(n) /\ Tame(lease[n]) /\ PastBy(n) /\ (Gone(n) => GoneBy(n))
      /\ (SaysGone(lease[n]) => Gone(n))
  BY <1>1 DEF RecordAt, Grown
<1>3. TransportOf(n) = n /\ LeaseKey(n) = joins[n] /\ joins[n] \in Keys
  BY <1>1, <1>2, OwnLease
<1>4. currentLeasePeer(seats, n) <=> ~Gone(n)
  BY <1>3 DEF currentLeasePeer, Gone
<1> QED BY <1>1, <1>2, <1>3, <1>4

\* Every timer of a lease.
LEMMA TimerSeats ==
  ASSUME LInv, Base, Grown, NEW n \in LeaseId, Timer(n)
  PROVE  SeatStep
<1>1. seats' = seats => OwnStep
  BY NobodyEnds
<1>2. CASE LeaseExpires(n)
  <2> DEFINE q == Started(seats, n, [lease[n] EXCEPT !.state = "finalizing-expiry",
                                                     !.due = TRUE])
  <2>1. lease[n].state = "pending" /\ FinalizerStep(n, q, seats, sock)
    BY <1>2 DEF LeaseExpires
  <2>2. /\ lease[n] \in LeaseOver(Ops) /\ Tame(lease[n])
        /\ SaysGone(lease[n]) => GoneBy(n)
        /\ ~currentLeasePeer(seats, n) => GoneBy(n)
    BY <2>1, RecordThere
  <2>3. TameStep(lease[n], q, ~currentLeasePeer(seats, n)) /\ q.state \in FinalizingStates
    BY <2>1, <2>2, ExpiryTame
  <2> HIDE DEF q
  <2>4. q \in LeaseOver(Ops) /\ Tame(q) /\ (SaysGone(q) => GoneBy(n)) /\ q.fin = "run"
    BY <2>1, <2>2, <2>3 DEF TameStep, RunsOn, FinalizingStates
  <2>5. TablesFine /\ ClaimsFine
    BY <2>1, <2>3, <2>4, FinalizerPuts
  <2> QED BY <1>1, <2>1, <2>5 DEF SeatStep, FinalizerStep
<1>3. CASE DeadlinePasses(n)
  <2> DEFINE q == [lease[n] EXCEPT !.due = TRUE]
  <2>1. /\ lease[n].state \in {"claimed", "terminal-finalizing"}
        /\ lease' = [lease EXCEPT ![n].due = TRUE] /\ leaseOf' = leaseOf
        /\ task' = task /\ seats' = seats
    BY <1>3 DEF DeadlinePasses
  <2>2. /\ lease[n] \in LeaseOver(Ops) /\ Tame(lease[n]) /\ PastBy(n)
        /\ SaysGone(lease[n]) => GoneBy(n)
    BY <2>1, RecordThere
  <2>3. TameStep(lease[n], q, FALSE) /\ q.state = lease[n].state
    BY <2>2, FlagsTame
  <2>4. lease'[n] = q /\ \A m \in LeaseId \ {n} : lease'[m] = lease[m]
    BY <2>1, RecordTypes DEF LInv
  <2> HIDE DEF q
  <2>5. RecordFine(n)
    BY <2>1, <2>2, <2>3, <2>4 DEF RecordFine, TameStep
  <2>6. \A k \in Keys : leaseOf'[k] = IF leaseOf[k] = n /\ lease'[n].state = "none"
                                      THEN 0 ELSE leaseOf[k]
    BY <2>1, <2>3, <2>4
  <2>7. TablesFine
    BY <2>4, <2>5, <2>6, OneRecord
  <2> QED BY <1>1, <2>1, <2>7, AllHold DEF SeatStep
<1>4. CASE TerminalForgotten(n)
  <2>1. /\ lease[n].state = "terminal" /\ lease' = [lease EXCEPT ![n] = NoLease]
        /\ leaseOf' = [leaseOf EXCEPT ![LeaseKey(n)] = 0] /\ task' = task /\ seats' = seats
    BY <1>4 DEF TerminalForgotten
  <2>2. /\ SaysGone(lease[n]) => GoneBy(n)
        /\ LeaseKey(n) = joins[n] /\ joins[n] \in Keys /\ leaseOf[joins[n]] = n
    BY <2>1, RecordThere DEF Base, MapInv
  <2>3. /\ lease'[n] = NoLease /\ \A m \in LeaseId \ {n} : lease'[m] = lease[m]
        /\ NoLease.state = "none"
    BY <2>1, RecordTypes DEF LInv, NoLease
  <2>4. RecordFine(n)
    BY <2>1, <2>2, <2>3 DEF RecordFine, SaysGone
  <2>5. ASSUME NEW k \in Keys
        PROVE  leaseOf'[k] = IF leaseOf[k] = n /\ lease'[n].state = "none" THEN 0 ELSE leaseOf[k]
    <3>1. leaseOf[k] = n => k = joins[n]
      BY NoRecordZero DEF Base, MapInv
    <3>2. leaseOf \in [Keys -> 0..MaxJoins]
      BY DEF LInv, TInv, LeaseInv
    <3> QED BY <2>1, <2>2, <2>3, <3>1, <3>2
  <2>6. TablesFine
    BY <2>3, <2>4, <2>5, OneRecord
  <2> QED BY <1>1, <2>1, <2>6, AllHold DEF SeatStep
<1> QED BY <1>2, <1>3, <1>4 DEF Timer

-----------------------------------------------------------------------------
(* Requests and other events. *)

\* Seats as they are.
LEMMA OpensHere ==
  ASSUME LInv, NEW ks \in SUBSET Keys, UNCHANGED <<seats, joins>>
  PROVE  OpensFor(seats, ks)
<1>1. seats \in [Keys -> Seat]
  BY DEF LInv, TInv, RosterInv
<1> QED BY <1>1 DEF OpensFor

\* A request claims seats.
LEMMA ClaimSeatsFine ==
  ASSUME LInv, Base, Grown, SeatInv', NEW o \in Ops, NEW request, NEW ks \in SUBSET Keys,
         ClaimSeats(o, request, ks), UNCHANGED <<seats, joins>>
  PROVE  TablesFine
<1>1. OpensFor(seats, ks) /\ <<o>> \in Seq(Ops)
  BY OpensHere
<1>2. KindOf(o) \in Reasons
  <2>1. op[o] \in Request
    BY RequestKey DEF LInv
  <2> QED BY <2>1 DEF KindOf, Request, Reasons
<1>3. lease' = TerminalLeases(seats, ks, KindOf(o), <<o>>) /\ leaseOf' = MapOpened(seats, ks)
  BY DEF ClaimSeats
<1> QED BY <1>1, <1>2, <1>3, EndedFine

\* Every step of a request.
LEMMA RequestSeats ==
  ASSUME LInv, Base, Grown, SeatInv', NEW o \in Ops, Moderation(o) \/ RequestStep(o)
  PROVE  SeatStep
<1>1. ASSUME TablesFine, UNCHANGED <<seats, task>> PROVE SeatStep
  <2>1. \A k \in Keys : seats'[k].t = seats[k].t
    BY <1>1
  <2> QED BY <1>1, <2>1, NobodyEnds, AllHold DEF SeatStep
<1>2. ASSUME NEW request, NEW ks \in SUBSET Keys, ClaimSeats(o, request, ks),
             UNCHANGED <<seats, task, joins>>
      PROVE  SeatStep
  <2>1. TablesFine
    BY <1>2, ClaimSeatsFine
  <2> QED BY <1>1, <1>2, <2>1
<1>3. ASSUME UNCHANGED <<lease, leaseOf, seats, task>> PROVE SeatStep
  <2>1. TablesFine
    BY <1>3, NoRecord
  <2> QED BY <1>1, <1>3, <2>1
<1>4. ASSUME NEW todo \in SUBSET Keys, Disconnect(o, todo), UNCHANGED <<seats, task, joins>>
      PROVE  SeatStep
  <2>1. CASE todo = {}
    BY <1>3, <1>4, <2>1 DEF Disconnect
  <2>2. CASE todo # {}
    <3>1. PICK k \in todo : ClaimSeats(o, [op[o] EXCEPT !.todo = todo \ {k}], {k})
      BY <1>4, <2>2 DEF Disconnect
    <3>2. {k} \in SUBSET Keys
      BY <1>4
    <3> QED BY <1>2, <1>4, <3>1, <3>2
  <2> QED BY <2>1, <2>2
<1>5. \A k : Occupants(k) \in SUBSET Keys
  BY DEF Occupants, Occupied
<1>6. ASSUME NEW k \in Keys, Kick(o, k) PROVE SeatStep
  <2>1. {k} \in SUBSET Keys
    OBVIOUS
  <2> QED BY <1>2, <1>6, <2>1 DEF Kick
<1>7. ASSUME NEW k \in Keys, Ban(o, k) PROVE SeatStep
  BY <1>2, <1>5, <1>7 DEF Ban
<1>8. ASSUME NEW k \in Keys, PutBan(o, k) \/ DeleteRoom(o, k) PROVE SeatStep
  BY <1>3, <1>8 DEF PutBan, DeleteRoom
<1>9. ASSUME NEW k \in Keys, DisconnectAccountFromRoom(o, k) PROVE SeatStep
  <2> DEFINE held == {j \in Keys : leaseOf[j] # 0 /\ SameUser(j, k)} \cup Occupants(k)
  <2>1. held \in SUBSET Keys
    BY <1>5
  <2>2. ClaimSeats(o, [op[o] EXCEPT !.key = k, !.todo = Occupants(k)], held)
        /\ UNCHANGED <<seats, task, joins>>
    BY <1>9 DEF DisconnectAccountFromRoom
  <2> HIDE DEF held
  <2> QED BY <1>2, <2>1, <2>2
<1>10. CASE PersistBan(o)
  BY <1>3, <1>10 DEF PersistBan
<1>11. CASE AfterBanCommitted(o)
  <2>1. UNCHANGED <<seats, task, joins>>
    BY <1>11 DEF AfterBanCommitted
  <2>2. Disconnect(o, Occupants(op[o].key)) \/ UNCHANGED <<lease, leaseOf>>
    BY <1>11 DEF AfterBanCommitted
  <2> QED BY <1>3, <1>4, <1>5, <2>1, <2>2
<1>12. CASE RequestResumes(o)
  <2>1. UNCHANGED <<seats, task, joins>>
    BY <1>12 DEF RequestResumes
  <2>2. Disconnect(o, op[o].todo) \/ UNCHANGED <<lease, leaseOf>>
    BY <1>12 DEF RequestResumes
  <2>3. op[o].todo \in SUBSET Keys
    <3>1. op[o] \in Request
      BY RequestKey DEF LInv
    <3> QED BY <3>1 DEF Request
  <2> QED BY <1>3, <1>4, <2>1, <2>2, <2>3
<1>13. CASE FinishRoomDeletion(o)
  <2> DEFINE st == publish(seats, op[o].key[1], NoKey)
             ks == {k \in Keys : k[1] = op[o].key[1]}
  <2>1. /\ lease' = TerminalLeases(st, ks, "delete", <<o>>) /\ leaseOf' = MapOpened(st, ks)
        /\ seats' = st /\ UNCHANGED <<task, joins>>
    BY <1>13 DEF FinishRoomDeletion
  <2>2. /\ seats \in [Keys -> Seat] /\ IsTable(seats)
        /\ "delete" \in Reasons /\ <<o>> \in Seq(Ops) /\ ks \in SUBSET Keys
    BY SeatsFade DEF LInv, TInv, RosterInv, Reasons, AllKinds
  <2>3. OwnStep
    BY <2>1, PublishOwn
  <2>4. st \in [Keys -> Seat] /\ FadesTo(seats, st)
    BY <2>2, PublishType, ToldFades
  <2> HIDE DEF st, ks
  <2>5. \A k \in Keys : st[k].t \in {0, seats[k].t}
    BY <2>2, <2>4, FadesApart
  <2>6. OpensFor(st, ks)
    BY <2>1, <2>2, <2>4, <2>5 DEF OpensFor
  <2>7. TablesFine
    BY <2>1, <2>2, <2>6, EndedFine
  <2> QED BY <2>1, <2>3, <2>7, AllHold DEF SeatStep
<1> QED BY <1>6, <1>7, <1>8, <1>9, <1>10, <1>11, <1>12, <1>13 DEF Moderation, RequestStep

\* Any other event of a room.
LEMMA EventSeats ==
  ASSUME LInv, Base, Grown, NEW r \in Rooms, PublishRoomEvent(r)
  PROVE  SeatStep
<1>1. UNCHANGED <<lease, leaseOf, task>> /\ seats' = publish(seats, r, NoKey)
  BY DEF PublishRoomEvent
<1>2. TablesFine
  BY <1>1, NoRecord
<1>3. ClaimsFine
  BY <1>1, AllHold
<1>4. OwnStep
  BY <1>1, PublishOwn
<1> QED BY <1>2, <1>3, <1>4 DEF SeatStep

-----------------------------------------------------------------------------
(* Commands. *)

\* Only joins that have no seat yet hold a lease.
LEMMA SeatedHoldNone ==
  ASSUME Base, NEW s \in Sockets, task[s].pc \notin HoldingPcs
  PROVE  task[s].claim = 0
BY DEF Base, ClaimAt

\* The lease a join gives back or ends is one that is there.
LEMMA HeldThere ==
  ASSUME LInv, Base, Grown, NEW s \in Sockets, HoldsClaim(s)
  PROVE  LET c == task[s].claim
         IN c \in LeaseId /\ c # 0 /\ lease[c].state # "none"
<1> DEFINE c == task[s].claim
<1>1. c # 0 /\ lease[c].taken
  BY DEF HoldsClaim
<1>2. Past(c)
  BY <1>1 DEF Base, ClaimAt
<1>3. c \in LeaseId
  BY <1>2, PastNumbers DEF LInv
<1>4. RecordAt(c) /\ ~NoLease.taken
  BY <1>3 DEF Base, NoLease
<1> QED BY <1>1, <1>3, <1>4 DEF RecordAt

\* A join that gives up or is rejected for good.
LEMMA EndsFine ==
  ASSUME LInv, Base, Grown, NEW s \in Sockets, NEW au,
         GivesUp(s, au) \/ (Rejected(s) /\ (task[s].pc = "mute" \/ ~Superseded(s)))
  PROVE  TablesFine /\ ClaimsFine
<1> DEFINE c == task[s].claim
           back == restoreClaimedLease(seats, c, lease[c])
           over == terminateLease(seats, c, lease[c])
<1>1. \E r \in {back, over} : \E a :
        JoinEnds(s, r, a) /\ (r = back \/ task[s].pc = "mute" \/ ~Superseded(s))
  BY DEF GivesUp, Rejected
<1>2. PICK r \in {back, over} :
        /\ r = back \/ task[s].pc = "mute" \/ ~Superseded(s)
        /\ IF ~HoldsClaim(s)
           THEN UNCHANGED <<lease, leaseOf>> /\ task' = [task EXCEPT ![s] = Idle]
           ELSE /\ lease' = LeasePut(lease, seats, c, r)
                /\ leaseOf' = MapPut(leaseOf, seats, c, r)
                /\ task' = TaskPut([task EXCEPT ![s] = Idle], c, r)
  BY <1>1 DEF JoinEnds
<1>3. IsCommand(Idle) /\ Idle.claim = 0
  BY DEF IsCommand, Idle
<1> HIDE DEF back, over
<1>4. task' \in {[task EXCEPT ![s] = Idle], TaskPut([task EXCEPT ![s] = Idle], c, r)}
  BY <1>2
<1>5. ASSUME c = 0 \/ lease'[c].state # "claimed" PROVE ClaimsFine
  BY <1>3, <1>4, <1>5, OneHolds
<1>6. CASE ~HoldsClaim(s)
  <2>1. UNCHANGED <<lease, leaseOf>>
    BY <1>2, <1>6
  <2>2. ASSUME c # 0 PROVE lease[c].state # "claimed"
    <3>1. c \in LeaseId /\ ~lease[c].taken
      BY <1>6, <2>2, PastNumbers DEF HoldsClaim, Base, ClaimAt, LInv
    <3>2. RecordAt(c) /\ NoLease.state = "none"
      BY <3>1 DEF Base, NoLease
    <3> QED BY <3>1, <3>2 DEF RecordAt, Tame
  <2> HIDE DEF c
  <2> QED BY <1>5, <2>1, <2>2, NoRecord
<1>7. CASE HoldsClaim(s)
  <2>1. c \in LeaseId /\ c # 0 /\ lease[c].state # "none"
    BY <1>7, HeldThere
  <2>2. /\ lease[c] \in LeaseOver(Ops) /\ Tame(lease[c])
        /\ SaysGone(lease[c]) => GoneBy(c)
        /\ ~currentLeasePeer(seats, c) => GoneBy(c)
    BY <2>1, RecordThere
  <2>3. Yielded(c)
    <3>1. /\ task'[s].pc = Idle.pc /\ task'[s].n = Idle.n /\ task'[s].claim = Idle.claim
          /\ ClaimsKept(Sockets \ {s})
      BY <1>3, <1>4, OthersHold
    <3> QED BY <1>3, <2>1, <3>1 DEF Yielded
  <2> HIDE DEF c
  <2>4. /\ TameStep(lease[c], back, ~currentLeasePeer(seats, c))
        /\ back.state \in {lease[c].state, "pending"} \cup FinalizingStates
        /\ lease[c].state = "terminal" => back = lease[c]
        /\ back.state # "claimed"
    <3>1. LET b == restoreClaimedLease(seats, c, lease[c])
          IN /\ TameStep(lease[c], b, ~currentLeasePeer(seats, c))
             /\ lease[c].state # "claimed" => b = lease[c]
             /\ lease[c].state = "claimed" => b.state \in {"pending"} \cup FinalizingStates
      BY <2>2, RestoreTame
    <3> QED BY <3>1 DEF back, FinalizingStates
  <2>5. /\ TameStep(lease[c], over, ~currentLeasePeer(seats, c))
        /\ over.state \in FinalizingStates
    <3>1. "join-rejected" \in Reasons /\ <<>> \in Seq(Ops) /\ Len(joins) \in 0..MaxJoins
      BY EmptySeq, RecordTypes DEF Reasons, LInv
    <3>2. LET b == Started(seats, c, terminalClaimRecord(lease[c], "join-rejected", <<>>))
          IN /\ TameStep(lease[c], b, ~currentLeasePeer(seats, c))
             /\ b.state \in FinalizingStates
      BY <2>1, <2>2, <3>1, TerminalTame
    <3> QED BY <3>2 DEF over, terminateLease
  <2>6. /\ r \in LeaseOver(Ops) /\ Tame(r) /\ (SaysGone(r) => GoneBy(c))
        /\ r.state \in {lease[c].state, "pending"} \cup FinalizingStates
    BY <2>2, <2>4, <2>5 DEF TameStep
  <2>7. /\ r.state # "none" /\ (r.state = "terminal" => lease[c].state = "terminal")
        /\ r.state # "claimed"
    BY <2>1, <2>4, <2>5, <2>6 DEF FinalizingStates
  <2>8. lease' = LeasePut(lease, seats, c, r) /\ leaseOf' = MapPut(leaseOf, seats, c, r)
    BY <1>2, <1>7
  <2>9. RunsOn(lease[c]) => RunsOn(r) \/ Spends(c)
    <3>1. CASE lease[c].state # "terminal"
      BY <2>4, <2>5, <3>1 DEF TameStep
    <3>2. CASE lease[c].state = "terminal"
      <4>1. r = back \/ task[s].pc = "mute"
        BY <1>2, <2>1, <3>2 DEF Superseded, claimedSessionWasTerminated, c
      <4> QED BY <2>4, <3>2, <4>1 DEF Spends, c
    <3> QED BY <3>1, <3>2
  <2>10. TablesFine /\ lease'[c].state # "claimed"
    BY <2>1, <2>3, <2>6, <2>7, <2>8, <2>9, PutFine
  <2> QED BY <1>5, <2>10
<1> QED BY <1>6, <1>7

\* A join that goes on to its next await.
LEMMA ProceedsFine ==
  ASSUME LInv, Base, Grown, NEW s \in Sockets, NEW pc, Proceeds(s, pc),
         task[s].pc \in HoldingPcs => pc \in HoldingPcs
  PROVE  TablesFine /\ ClaimsFine
<1> DEFINE t == [task[s] EXCEPT !.pc = pc]
<1>1. Commands
  BY CommandsKnown DEF LInv
<1>2. IsCommand(t) /\ t.pc = pc /\ t.n = task[s].n /\ t.claim = task[s].claim
  BY <1>1 DEF Commands, IsCommand
<1>3. task' = [task EXCEPT ![s] = t] /\ UNCHANGED <<lease, leaseOf>>
  BY <1>1 DEF Proceeds, Commands
<1> HIDE DEF t
<1>4. t.claim = 0 \/ t.pc \in HoldingPcs
  BY <1>2, SeatedHoldNone
<1>5. ClaimsFine
  BY <1>2, <1>3, <1>4, OneHolds
<1> QED BY <1>3, <1>5, NoRecord

\* The lookups of a join before its seat is authorized.
LEMMA LookupSeats ==
  ASSUME LInv, Base, Grown, NEW s \in Sockets,
         GetRoom(s) \/ FindRoomBan(s) \/ GetOrCreatePeerIdentity(s)
  PROVE  SeatStep
<1>1. /\ UNCHANGED seats
      /\ \/ GivesUp(s, auth) \/ (Rejected(s) /\ ~Superseded(s))
         \/ \E pc \in HoldingPcs : Proceeds(s, pc)
  BY DEF GetRoom, FindRoomBan, GetOrCreatePeerIdentity, HoldingPcs
<1>2. TablesFine /\ ClaimsFine
  BY <1>1, EndsFine, ProceedsFine
<1>3. OwnStep
  BY <1>1, NobodyEnds
<1> QED BY <1>2, <1>3 DEF SeatStep

\* What follows the seat.
LEMMA SeatedSeats ==
  ASSUME LInv, Base, Grown, NEW s \in Sockets,
         OccupancyQueued(s) \/ FindLateBan(s) \/ BuildRoomSnapshot(s)
  PROVE  SeatStep
<1>1. /\ task[s].pc \in {"occupancy", "lateBan", "snapshot"}
      /\ GivesUp(s, auth) \/ \E pc \in {"lateBan", "snapshot"} : Proceeds(s, pc)
      /\ ReleaseSeat(s) \/ seats' = seats
  BY DEF OccupancyQueued, FindLateBan, BuildRoomSnapshot, SupersededSeat, JoinAt
<1>2. task[s].pc \in LatePcs /\ task[s].pc \notin HoldingPcs
  BY <1>1 DEF LatePcs, HoldingPcs
<1>3. TablesFine /\ ClaimsFine
  BY <1>1, <1>2, EndsFine, ProceedsFine
<1>4. seats' \in {seats, closePeer(seats, KeyOf(s), task[s].n)}
  BY <1>1 DEF ReleaseSeat
<1>5. OwnStep
  BY <1>2, <1>4, CloseOwn
<1> QED BY <1>3, <1>5 DEF SeatStep

\* Seats when one is taken, and those that had lost their sockets are told.
LEMMA TakenOwn ==
  ASSUME LInv, NEW k \in Keys, NEW n, n # 0, NEW s,
         LET seated == [seats EXCEPT ![k] = [t |-> n, conn |-> s]]
         IN seats' = IF seats[k].t # 0 THEN seated ELSE publish(seated, k[1], k)
  PROVE  OwnStep /\ seats'[k].t \in {n, 0}
<1> DEFINE seated == [seats EXCEPT ![k] = [t |-> n, conn |-> s]]
<1>1. /\ IsTable(seated) /\ seated[k].t = n /\ Vacant.t = 0
      /\ \A j \in Keys \ {k} : seated[j] = seats[j]
  BY SeatsFade DEF IsTable, Vacant
<1>2. seats' = IF seats[k].t # 0 THEN seated ELSE publish(seated, k[1], k)
  OBVIOUS
<1> HIDE DEF seated
<1>3. publish(seated, k[1], k)[k] \in {seated[k], Vacant}
  BY <1>1 DEF publish
<1>4. ASSUME NEW j \in Keys PROVE OwnEnd(j)
  <2>1. CASE j = k
    <3>1. seats[k].t # 0 => seats'[k].t = n
      BY <1>1, <1>2
    <3> QED BY <2>1, <3>1 DEF OwnEnd
  <2>2. CASE j # k
    <3>1. CASE seats'[j] = seats[j]
      BY <3>1 DEF OwnEnd
    <3>2. CASE seats'[j] # seats[j]
      <4>1. seats[j].conn \in Sockets /\ sock[seats[j].conn].open # "open"
        BY <1>1, <1>2, <2>2, <3>2, PublishEnds
      <4> QED BY <4>1 DEF OwnEnd
    <3> QED BY <3>1, <3>2
  <2> QED BY <2>1, <2>2
<1>5. seats'[k].t \in {n, 0}
  BY <1>1, <1>2, <1>3
<1> QED BY <1>4, <1>5 DEF OwnStep

\* A seat is taken, and the lease that kept it for the join is completed: it was
\* the join's own.
LEMMA TakesSeats ==
  ASSUME LInv, Base, Grown, NEW s \in Sockets, task[s].pc \in {"mute", "leaveOther"},
         joins' = joins, NEW so, NEW au, TakeSeat(s, so, au)
  PROVE  SeatStep
<1> DEFINE n == task[s].n
           k == KeyOf(s)
           c == task[s].claim
           m == n + MaxJoins
           others == {x \in Sockets \ {s} : c # 0 /\ task[x].claim = c}
           seated == [seats EXCEPT ![k] = [t |-> n, conn |-> s]]
           t == [Idle EXCEPT !.pc = "occupancy", !.n = n]
<1>1. /\ TInv /\ Commands /\ k \in Keys /\ n \in 1..MaxJoins /\ n # 0 /\ n \in Unserved
      /\ leaseOf \in [Keys -> 0..MaxJoins]
  <2>1. TInv
    BY DEF LInv
  <2>2. s \in Seeking
    BY DEF Seeking, SeekingPcs
  <2>3. \A i \in 1..MaxJoins : i # 0
    BY ConstantsAssumption
  <2> QED BY <2>1, <2>2, <2>3, KeyOfType, CommandsKnown, RecordTypes DEF Unserved
<1>2. CASE GivesUp(s, au) /\ UNCHANGED seats
  <2>1. TablesFine /\ ClaimsFine
    BY <1>2, EndsFine
  <2> QED BY <1>2, <2>1, NobodyEnds DEF SeatStep
<1>3. CASE ~(GivesUp(s, au) /\ UNCHANGED seats)
  <2>1. /\ ~Superseded(s)
        /\ seats' = IF seats[k].t # 0 THEN seated ELSE publish(seated, k[1], k)
        /\ task' = [x \in Sockets |->
                      IF x = s THEN t
                      ELSE IF x \in others THEN [task[x] EXCEPT !.claim = n + MaxJoins]
                      ELSE task[x]]
        /\ IF c = 0 THEN UNCHANGED <<lease, leaseOf>>
           ELSE /\ lease' = [lease EXCEPT ![c] = NoLease,
                                          ![m] = IF others = {} THEN @ ELSE lease[c]]
                /\ leaseOf' = [leaseOf EXCEPT ![k] = 0]
    BY <1>3 DEF TakeSeat
  <2>2. others = {}
    BY DEF Base, ClaimAt
  <2>4. OwnStep /\ seats'[k].t \in {n, 0}
    <3> HIDE DEF n, k
    <3> QED BY <1>1, <2>1, TakenOwn DEF seated
  <2>5. TablesFine /\ (c # 0 => lease'[c] = NoLease)
    <3>1. CASE c = 0
      BY <2>1, <3>1, NoRecord
    <3>2. CASE c # 0
      <4>1. Past(c) /\ joins[c] = k /\ c \in LeaseId /\ c # n
        <5>1. Past(c) /\ joins[c] = k
          BY <3>2 DEF Base, ClaimAt
        <5> HIDE DEF n, k, c
        <5> QED BY <1>1, <5>1, PastNumbers DEF Past
      <4>2. leaseOf[k] = c
        <5>1. TransportOf(c) = c /\ LeaseKey(c) = joins[c]
          BY <1>1, <4>1, OwnLease
        <5>2. isCurrent(c)
          BY <2>1, <3>2 DEF Superseded, claimedSessionWasTerminated
        <5> QED BY <4>1, <5>1, <5>2 DEF isCurrent
      <4> DEFINE cleared == [lease EXCEPT ![c] = NoLease]
      <4>3. cleared \in [LeaseId -> LeaseOver(Ops)] /\ cleared[c] = NoLease
            /\ \A i \in LeaseId \ {c} : cleared[i] = lease[i]
        <5>1. NoLease \in LeaseOver(Ops)
          BY NoLeaseType DEF Record
        <5> QED BY <1>1, <4>1, <5>1, RecordTypes
      <4>4. lease' = [cleared EXCEPT ![m] = IF others = {} THEN @ ELSE lease[c]]
            /\ leaseOf' = [leaseOf EXCEPT ![k] = 0]
        BY <2>1, <3>2
      <4> HIDE DEF cleared, others, c, m, k, n
      <4>5. lease' = cleared
        BY <2>2, <4>3, <4>4
      <4>6. GoneBy(c) /\ NoLease.state = "none"
        <5>1. c # 0
          BY <4>1, NoRecordZero
        <5> QED BY <2>4, <4>1, <5>1 DEF GoneBy, NoLease
      <4>7. RecordFine(c)
        BY <4>3, <4>5, <4>6 DEF RecordFine
      <4>8. \A i \in LeaseId \ {c} : lease'[i] = lease[i]
        BY <4>3, <4>5
      <4>9. ASSUME NEW j \in Keys
            PROVE  leaseOf'[j] = IF leaseOf[j] = c /\ lease'[c].state = "none" THEN 0 ELSE leaseOf[j]
        <5>1. leaseOf[j] = c => j = k
          BY <4>1, NoRecordZero DEF Base, MapInv
        <5> QED BY <1>1, <4>2, <4>3, <4>4, <4>5, <4>6, <5>1
      <4>10. TablesFine
        BY <4>1, <4>7, <4>8, <4>9, OneRecord
      <4> QED BY <4>3, <4>5, <4>10
    <3> QED BY <3>1, <3>2
  <2>6. ClaimsFine
    <3>1. IsCommand(t) /\ t.claim = 0
      BY DEF IsCommand, Idle
    <3>2. task' = [task EXCEPT ![s] = t]
      <4> HIDE DEF t, others
      <4> QED BY <1>1, <2>1, <2>2 DEF Commands
    <3>3. c = 0 \/ lease'[c].state # "claimed"
      <4>1. NoLease.state = "none"
        BY DEF NoLease
      <4> HIDE DEF c
      <4> QED BY <2>5, <4>1
    <3> HIDE DEF t
    <3> QED BY <3>1, <3>2, <3>3, OneHolds
  <2> QED BY <2>4, <2>5, <2>6 DEF SeatStep
<1> QED BY <1>2, <1>3

\* Leaving a seat, as a command or on the way to another.
LEMMA LeaveFine ==
  ASSUME LInv, Base, Grown, SeatInv', NEW s \in Sockets, NEW k \in Keys,
         UNCHANGED <<seats, joins>>, NEW waiting, IsCommand(waiting), Leave(s, k, waiting),
         \/ waiting.claim = 0 /\ task[s].claim = 0
         \/ /\ waiting.claim = task[s].claim /\ waiting.n = task[s].n
            /\ waiting.pc \in HoldingPcs
  PROVE  TablesFine /\ ClaimsFine
<1> DEFINE v == sock[s].voice
           l == leaseOf[k]
           le == TerminalLeases(seats, {k}, "left", <<>>)
           r == Started(seats, l, terminalClaimRecord(lease[l], "left", <<>>))
<1>1. /\ <<>> \in Seq(Ops) /\ "left" \in Reasons /\ OpensFor(seats, {k})
      /\ Len(joins) \in 0..MaxJoins /\ TInv
  <2>1. {k} \in SUBSET Keys
    OBVIOUS
  <2> QED BY <2>1, EmptySeq, OpensHere, RecordTypes DEF Reasons, LInv
<1>2. \A i, b : LET t == Awaiting(waiting, i, b)
                IN /\ IsCommand(t) /\ t.pc = waiting.pc /\ t.n = waiting.n
                   /\ t.claim = waiting.claim
  BY DEF Awaiting, IsCommand
<1>3. ASSUME NEW i, NEW b,
             task' \in {[task EXCEPT ![s] = Awaiting(waiting, i, b)],
                        TaskPut([task EXCEPT ![s] = Awaiting(waiting, i, b)], i, b)}
      PROVE  ClaimsFine
  <2> DEFINE t == Awaiting(waiting, i, b)
  <2>1. IsCommand(t) /\ t.pc = waiting.pc /\ t.n = waiting.n /\ t.claim = waiting.claim
    BY <1>2
  <2>2. task' \in {[task EXCEPT ![s] = t], TaskPut([task EXCEPT ![s] = t], i, b)}
    BY <1>3
  <2> HIDE DEF t
  <2> QED BY <2>1, <2>2, OneHolds
<1>4. CASE OwnsSeat(s, k)
  <2>1. /\ lease' = le /\ leaseOf' = MapOpened(seats, {k})
        /\ task' = [task EXCEPT ![s] = Awaiting(waiting, v, le[v])]
    BY <1>4 DEF Leave
  <2>2. ClaimsFine
    <3> DEFINE b == le[v]
    <3>1. task' \in {[task EXCEPT ![s] = Awaiting(waiting, v, b)],
                      TaskPut([task EXCEPT ![s] = Awaiting(waiting, v, b)], v, b)}
      BY <2>1
    <3> HIDE DEF le, v, b
    <3> QED BY <1>3, <3>1
  <2>3. TablesFine
    BY <1>1, <2>1, EndedFine
  <2> QED BY <2>2, <2>3
<1>5. CASE ~OwnsSeat(s, k)
  <2>1. /\ lease' = LeasePut(lease, seats, l, r) /\ leaseOf' = MapPut(leaseOf, seats, l, r)
        /\ task' = TaskPut([task EXCEPT ![s] = Awaiting(waiting, l, r)], l, r)
        /\ Replayed(k)
    BY <1>5 DEF Leave
  <2>2. ClaimsFine
    <3> HIDE DEF l, r
    <3> QED BY <1>3, <2>1
  <2>3. l \in LeaseId /\ lease[l].state \notin {"none", "terminal"}
    BY <1>1, <2>1, RecordTypes DEF Replayed, FailedStates
  <2> HIDE DEF l
  <2>4. /\ lease[l] \in LeaseOver(Ops) /\ Tame(lease[l])
        /\ SaysGone(lease[l]) => GoneBy(l)
        /\ ~currentLeasePeer(seats, l) => GoneBy(l)
    BY <2>3, RecordThere
  <2>5. TameStep(lease[l], r, ~currentLeasePeer(seats, l)) /\ r.state \in FinalizingStates
    BY <1>1, <2>3, <2>4, TerminalTame
  <2> HIDE DEF r
  <2>6. /\ r \in LeaseOver(Ops) /\ Tame(r) /\ (SaysGone(r) => GoneBy(l))
        /\ r.state \notin {"none", "terminal", "pending", "claimed"}
        /\ RunsOn(lease[l]) => RunsOn(r)
    BY <2>3, <2>4, <2>5 DEF TameStep, FinalizingStates
  <2>7. TablesFine
    BY <2>1, <2>3, <2>6, PutFine
  <2> QED BY <2>2, <2>7
<1> QED BY <1>4, <1>5

\* The mute lookup, the authorization and the seat.
LEMMA MuteSeats ==
  ASSUME LInv, Base, Grown, SeatInv', NEW s \in Sockets, LoadServerMute(s)
  PROVE  SeatStep
<1> DEFINE n == task[s].n
           k == KeyOf(s)
           v == sock[s].voice
           au == [auth EXCEPT ![k] = n]
           waiting == [task[s] EXCEPT !.pc = "leaveOther"]
<1>1. TInv /\ task[s].pc = "mute" /\ joins' = joins
  BY DEF LInv, LoadServerMute, JoinAt
<1>2. \/ (GivesUp(s, auth) \/ Rejected(s)) /\ UNCHANGED seats
      \/ v # 0 /\ Leave(s, joins[v], waiting) /\ UNCHANGED seats
      \/ \E so : TakeSeat(s, so, au)
  BY DEF LoadServerMute
<1>3. CASE (GivesUp(s, auth) \/ Rejected(s)) /\ UNCHANGED seats
  <2>1. TablesFine /\ ClaimsFine
    BY <1>1, <1>3, EndsFine
  <2> QED BY <1>3, <2>1, NobodyEnds DEF SeatStep
<1>4. CASE v # 0 /\ Leave(s, joins[v], waiting) /\ UNCHANGED seats
  <2>1. /\ IsCommand(waiting) /\ waiting.pc = "leaveOther"
        /\ waiting.claim = task[s].claim /\ waiting.n = task[s].n
    BY <1>1, CommandsKnown DEF Commands, IsCommand
  <2>2. joins[v] \in Keys
    <3>1. v \in 0..Len(joins) /\ joins \in Seq(Keys)
      BY <1>1 DEF TInv, RosterInv, KnownSocket, JoinsInv
    <3> QED BY <1>4, <3>1
  <2> HIDE DEF waiting, v
  <2>3. TablesFine /\ ClaimsFine
    <3>1. "leaveOther" \in HoldingPcs
      BY DEF HoldingPcs
    <3> QED BY <1>1, <1>4, <2>1, <2>2, <3>1, LeaveFine
  <2> QED BY <1>4, <2>3, NobodyEnds DEF SeatStep
<1>5. CASE \E so : TakeSeat(s, so, au)
  <2> HIDE DEF au
  <2> QED BY <1>1, <1>5, TakesSeats
<1> QED BY <1>2, <1>3, <1>4, <1>5

\* The seat that is taken once another was left.
LEMMA LeftOtherSeats ==
  ASSUME LInv, Base, Grown, NEW s \in Sockets, LeftOther(s)
  PROVE  SeatStep
<1>1. /\ task[s].pc = "leaveOther" /\ joins' = joins
      /\ (GivesUp(s, auth) /\ UNCHANGED seats) \/ \E so : TakeSeat(s, so, auth)
  BY DEF LeftOther
<1>2. CASE GivesUp(s, auth) /\ UNCHANGED seats
  <2>1. TablesFine /\ ClaimsFine
    BY <1>2, EndsFine
  <2> QED BY <1>2, <2>1, NobodyEnds DEF SeatStep
<1>3. CASE \E so : TakeSeat(s, so, auth)
  BY <1>1, <1>3, TakesSeats
<1> QED BY <1>1, <1>2, <1>3

\* Leaving, and a socket that dies or closes.
LEMMA LeavingSeats ==
  ASSUME LInv, Base, Grown, SeatInv', NEW s \in Sockets,
         \/ \E n \in JoinId : LeaveRequest(s, n)
         \/ LeaveResumes(s) \/ SocketDies(s) \/ SocketCloses(s)
  PROVE  SeatStep
<1>1. TInv /\ seats \in [Keys -> Seat]
  BY DEF LInv, TInv, RosterInv
<1>2. ASSUME UNCHANGED <<lease, leaseOf, task, seats>> PROVE SeatStep
  <2>1. \A k \in Keys : seats'[k].t = seats[k].t
    BY <1>2
  <2> QED BY <1>2, <2>1, NoRecord, AllHold, NobodyEnds DEF SeatStep
<1>3. ASSUME NEW n \in JoinId, LeaveRequest(s, n) PROVE SeatStep
  <2> DEFINE t == [Idle EXCEPT !.pc = "leave", !.n = n]
  <2>1. IsCommand(t) /\ t.claim = 0 /\ task[s].claim = 0
    <3>1. task[s] = Idle
      BY <1>3 DEF LeaveRequest
    <3>2. Idle.claim = 0
      BY DEF Idle
    <3>3. IsCommand(t) /\ t.claim = 0
      BY DEF Idle, IsCommand
    <3> QED BY <3>1, <3>2, <3>3
  <2>2. joins[n] \in Keys /\ UNCHANGED <<seats, joins>>
    <3>1. n <= Len(joins) /\ joins \in Seq(Keys) /\ UNCHANGED <<seats, joins>>
      BY <1>1, <1>3 DEF LeaveRequest, TInv, JoinsInv
    <3> QED BY <3>1, ConstantsAssumption DEF JoinId
  <2>3. Leave(s, joins[n], t) \/ UNCHANGED <<task, lease, leaseOf>>
    BY <1>3 DEF LeaveRequest
  <2> HIDE DEF t
  <2>4. CASE Leave(s, joins[n], t)
    <3>1. TablesFine /\ ClaimsFine
      BY <2>1, <2>2, <2>4, LeaveFine
    <3> QED BY <2>2, <3>1, NobodyEnds DEF SeatStep
  <2> QED BY <1>2, <2>2, <2>3, <2>4
<1>4. CASE LeaveResumes(s)
  <2>1. task' = [task EXCEPT ![s] = Idle] /\ UNCHANGED <<seats, lease, leaseOf>>
    BY <1>4 DEF LeaveResumes
  <2>2. IsCommand(Idle) /\ Idle.claim = 0 /\ task[s].claim = 0
    BY <1>4, SeatedHoldNone DEF Idle, IsCommand, LeaveResumes, HoldingPcs
  <2>3. ClaimsFine
    BY <2>1, <2>2, OneHolds
  <2>4. \A k \in Keys : seats'[k].t = seats[k].t
    BY <2>1
  <2> QED BY <2>1, <2>3, <2>4, NoRecord, NobodyEnds DEF SeatStep
<1>5. CASE SocketDies(s)
  BY <1>2, <1>5 DEF SocketDies
<1>6. CASE SocketCloses(s)
  <2> DEFINE v == sock[s].voice
             k == joins[v]
             le == createReconnectLease(seats, {k})
  <2>1. UNCHANGED <<task, joins>>
    BY <1>6 DEF SocketCloses
  <2>2. CASE UNCHANGED <<seats, lease, leaseOf>>
    BY <1>2, <2>1, <2>2
  <2>3. CASE /\ v # 0 /\ seats[k].t = v /\ seats' = [seats EXCEPT ![k].conn = NoSocket]
             /\ lease' = [le EXCEPT ![v].disc = TRUE] /\ leaseOf' = MapOpened(seats, {k})
    <3>1. k \in Keys
      <4>1. v \in 0..Len(joins) /\ joins \in Seq(Keys)
        BY <1>1 DEF TInv, RosterInv, KnownSocket, JoinsInv
      <4> QED BY <2>3, <4>1
    <3> HIDE DEF k
    <3>2. v \in LeaseId /\ v \in RecordsOf(seats, {k})
      <4>1. v \in 0..MaxJoins
        BY <1>1, <2>3, <3>1 DEF Seat
      <4>2. v = RecordFor(seats, k)
        BY <2>3 DEF RecordFor
      <4> QED BY <1>1, <2>3, <4>1, <4>2, RecordTypes DEF RecordsOf
    <3>3. \A j \in Keys : seats'[j].t = seats[j].t
      BY <1>1, <2>3 DEF Seat
    <3>4. OpensFor(seats, {k})
      BY <1>1, <2>1, <3>1, <3>3 DEF OpensFor
    <3>5. le \in [LeaseId -> LeaseOver(Ops)]
      <4>1. lease \in [LeaseId -> Record(Asked)]
        BY <1>1 DEF TInv, LeaseInv
      <4>2. le \in [LeaseId -> Record(Asked)]
        BY <1>1, <4>1, CreateType
      <4> HIDE DEF le
      <4> QED BY <1>1, <4>2, RecordTypes
    <3>6. le[v].state \notin {"none", "terminal"} /\ Tame(le[v])
      <4> HIDE DEF v
      <4> QED BY <3>2, <3>4, OpenedThere
    <3> DEFINE table == le
    <3>7. table = createReconnectLease(seats, {k}) /\ table = le
      OBVIOUS
    <3> HIDE DEF table
    <3> HIDE DEF le, v
    <3> DEFINE q == [le[v] EXCEPT !.disc = TRUE]
    <3>8. TameStep(le[v], q, FALSE) /\ q.state = le[v].state
      BY <3>2, <3>5, <3>6, FlagsTame
    <3>9. lease'[v] = q /\ \A m \in LeaseId \ {v} : lease'[m] = le[m]
      BY <2>3, <3>2, <3>5
    <3> HIDE DEF q
    <3>10. Reworked(v, le[v], lease'[v])
      BY <3>6, <3>8, <3>9 DEF Reworked, TameStep
    <3>11. \A m \in LeaseId : lease'[m] = table[m] \/ Reworked(m, table[m], lease'[m])
      BY <3>7, <3>9, <3>10
    <3>12. TablesFine
      BY <2>3, <3>4, <3>7, <3>11, OpenedFine
    <3> QED BY <2>1, <3>3, <3>12, AllHold, NobodyEnds DEF SeatStep
  <2> QED BY <1>6, <2>2, <2>3 DEF SocketCloses
<1> QED BY <1>3, <1>4, <1>5, <1>6

\* A join that waits for the finalizer of a lease.
LEMMA WaitsFine ==
  ASSUME LInv, Base, Grown, NEW s \in Sockets, NEW n, NEW pc, NEW l \in LeaseId,
         lease[l].state \notin {"none", "terminal"}, NEW r,
         TameStep(lease[l], r, ~currentLeasePeer(seats, l)), r.state \in FinalizingStates,
         WaitsFor(s, n, pc, l, r), task[s].claim = 0
  PROVE  TablesFine /\ ClaimsFine
<1> DEFINE t == [Idle EXCEPT !.pc = pc, !.n = n,
                             !.wait = IF r.fin = "run" THEN l ELSE 0,
                             !.got = IF r.fin = "run" THEN "" ELSE r.fin]
<1>1. IsCommand(t) /\ t.claim = 0
  BY DEF Idle, IsCommand
<1>2. /\ lease' = LeasePut(lease, seats, l, r) /\ leaseOf' = MapPut(leaseOf, seats, l, r)
      /\ task' = TaskPut([task EXCEPT ![s] = t], l, r)
  BY DEF WaitsFor
<1> HIDE DEF t
<1>3. ClaimsFine
  BY <1>1, <1>2, OneHolds
<1>4. /\ r \in LeaseOver(Ops) /\ Tame(r) /\ (SaysGone(r) => GoneBy(l))
      /\ r.state \notin {"none", "terminal", "pending", "claimed"}
      /\ RunsOn(lease[l]) => RunsOn(r)
  BY RecordThere DEF TameStep, FinalizingStates
<1>5. TablesFine
  BY <1>2, <1>4, PutFine
<1> QED BY <1>3, <1>5

\* A join that is let through.
LEMMA RegisterFine ==
  ASSUME LInv, Base, NEW s \in Sockets, NEW n, NEW c, NEW le, NEW map, Register(s, n, c, le, map),
         task[s].claim = 0
  PROVE  /\ lease' = le /\ leaseOf' = map /\ (c = 0 => ClaimsFine)
         /\ task'[s].pc = "room" /\ task'[s].n = n /\ task'[s].claim = c
         /\ ClaimsKept(Sockets \ {s}) /\ ClaimsHeld(Sockets)
<1> DEFINE t == [task[s] EXCEPT !.pc = "room", !.n = n, !.claim = c]
<1>1. IsCommand(t) /\ t.pc = "room" /\ t.n = n /\ t.claim = c
  BY CommandsKnown DEF Commands, IsCommand, LInv
<1>2. task' = [task EXCEPT ![s] = t] /\ lease' = le /\ leaseOf' = map
  BY DEF Register
<1> HIDE DEF t
<1>3. c = 0 => ClaimsFine
  BY <1>1, <1>2, OneHolds
<1>4. /\ task'[s].pc = t.pc /\ task'[s].n = t.n /\ task'[s].claim = t.claim
      /\ ClaimsKept(Sockets \ {s}) /\ ClaimsHeld(Sockets \ {s})
  BY <1>1, <1>2, OthersHold
<1>5. ClaimsHeld(Sockets)
  BY <1>4 DEF ClaimsHeld
<1> QED BY <1>1, <1>2, <1>3, <1>4, <1>5

\* The lease of a seat is asked for.
LEMMA ClaimFine ==
  ASSUME LInv, Base, Grown, NEW s \in Sockets, NEW n, NEW k \in Keys, NEW attempt,
         Claim(s, n, k, attempt), joins'[n] = k, task[s].claim = 0,
         attempt = "waited" => Waited(s) /\ KeyOf(s) = k
  PROVE  TablesFine /\ ClaimsFine
<1> DEFINE l == leaseOf[k]
           r == IF l = 0 THEN NoLease ELSE lease[l]
           none == l = 0 \/ PermitsNewJoin(r, n)
<1>1. /\ TInv /\ leaseOf \in [Keys -> 0..MaxJoins] /\ lease \in [LeaseId -> LeaseOver(Ops)]
      /\ l = 0 => r.state = "none"
      /\ l # 0 => l \in LeaseId /\ r = lease[l] /\ joins[l] = k /\ r.state # "none"
  BY RecordTypes DEF LInv, Base, MapInv, NoLease
<1>2. IsCommand(Idle) /\ Idle.claim = 0
  BY DEF IsCommand, Idle
<1>3. CASE Refused(s)
  <2>1. task' = [task EXCEPT ![s] = Idle] /\ UNCHANGED <<lease, leaseOf>>
    BY <1>3 DEF Refused
  <2> QED BY <1>2, <2>1, OneHolds, NoRecord
<1>4. CASE Register(s, n, 0, lease, leaseOf)
  <2>1. UNCHANGED <<lease, leaseOf>> /\ ClaimsFine
    BY <1>4, RegisterFine
  <2> QED BY <2>1, NoRecord
<1>5. CASE /\ none
           /\ Register(s, n, 0, IF l = 0 THEN lease ELSE [lease EXCEPT ![l] = NoLease],
                       [leaseOf EXCEPT ![k] = 0])
  <2>1. /\ lease' = IF l = 0 THEN lease ELSE [lease EXCEPT ![l] = NoLease]
        /\ leaseOf' = [leaseOf EXCEPT ![k] = 0] /\ ClaimsFine
    BY <1>5, RegisterFine
  <2>2. CASE l = 0
    <3>1. UNCHANGED <<lease, leaseOf>>
      BY <1>1, <2>1, <2>2
    <3> QED BY <2>1, <3>1, NoRecord
  <2>3. CASE l # 0
    <3>1. lease[l].state = "terminal"
      BY <1>1, <1>5, <2>3 DEF PermitsNewJoin
    <3>2. GoneBy(l)
      <4> HIDE DEF l
      <4> QED BY <1>1, <2>3, <3>1, RecordThere DEF SaysGone
    <3>3. /\ lease'[l] = NoLease /\ \A m \in LeaseId \ {l} : lease'[m] = lease[m]
          /\ NoLease.state = "none"
      BY <1>1, <2>1, <2>3 DEF NoLease
    <3>4. RecordFine(l)
      BY <3>2, <3>3 DEF RecordFine
    <3>5. ASSUME NEW j \in Keys
          PROVE  leaseOf'[j] = IF leaseOf[j] = l /\ lease'[l].state = "none" THEN 0 ELSE leaseOf[j]
      <4>1. leaseOf[j] = l => j = k
        BY <1>1, <2>3 DEF Base, MapInv
      <4> QED BY <1>1, <2>1, <3>3, <4>1
    <3> HIDE DEF l
    <3>6. TablesFine
      BY <1>1, <2>3, <3>3, <3>4, <3>5, OneRecord
    <3> QED BY <2>1, <3>6
  <2> QED BY <2>2, <2>3
<1>6. ASSUME l # 0, r.state = "pending", leaseOf' = leaseOf, Claimant(l) \/ Orphaned(l),
             lease' = [lease EXCEPT ![l].state = "claimed", ![l].taken = TRUE]
      PROVE  TablesFine /\ Past(l) /\ lease'[l].state = "claimed"
  <2> DEFINE q == [lease[l] EXCEPT !.state = "claimed", !.taken = TRUE]
  <2>1. lease'[l] = q /\ \A m \in LeaseId \ {l} : lease'[m] = lease[m]
    BY <1>1, <1>6
  <2> HIDE DEF l
  <2>2. /\ lease[l] \in LeaseOver(Ops) /\ Tame(lease[l]) /\ PastBy(l) /\ Past(l)
        /\ SaysGone(lease[l]) => GoneBy(l)
    BY <1>1, <1>6, RecordThere
  <2>3. TameStep(lease[l], q, FALSE) /\ q.state = "claimed"
    BY <1>1, <1>6, <2>2, FlagsTame
  <2> HIDE DEF q
  <2>4. RecordFine(l)
    BY <1>1, <1>6, <2>1, <2>2, <2>3 DEF RecordFine, TameStep
  <2>5. \A j \in Keys : leaseOf'[j] = IF leaseOf[j] = l /\ lease'[l].state = "none"
                                      THEN 0 ELSE leaseOf[j]
    BY <1>6, <2>1, <2>3
  <2>6. TablesFine
    BY <1>1, <1>6, <2>1, <2>4, <2>5, OneRecord
  <2> QED BY <2>1, <2>2, <2>3, <2>6
<1>7. CASE /\ ~none /\ r.state = "pending"
           /\ LET le == [lease EXCEPT ![l].state = "claimed", ![l].taken = TRUE]
              IN IF attempt = "waited"
                 THEN lease' = le /\ task' = [task EXCEPT ![s] = Idle] /\ UNCHANGED <<leaseOf, op>>
                 ELSE Register(s, n, l, le, leaseOf)
  <2> DEFINE le == [lease EXCEPT ![l].state = "claimed", ![l].taken = TRUE]
  <2>1. CASE /\ lease' = le /\ task' = [task EXCEPT ![s] = Idle] /\ leaseOf' = leaseOf
             /\ attempt = "waited"
    <3>0. Orphaned(l)
      BY <1>1, <1>7, <2>1 DEF Orphaned
    <3>1. TablesFine
      BY <1>6, <1>7, <2>1, <3>0
    <3>2. ClaimsFine
      BY <1>2, <2>1, OneHolds
    <3> QED BY <3>1, <3>2
  <2>2. CASE Register(s, n, l, le, leaseOf)
    <3>1. /\ lease' = le /\ leaseOf' = leaseOf
          /\ task'[s].pc = "room" /\ task'[s].n = n /\ task'[s].claim = l
          /\ ClaimsKept(Sockets \ {s}) /\ ClaimsHeld(Sockets)
      <4> HIDE DEF le, l
      <4> QED BY <2>2, RegisterFine
    <3>4. Claimant(l)
      BY <3>1 DEF Claimant
    <3>2. TablesFine /\ Past(l) /\ lease'[l].state = "claimed"
      BY <1>6, <1>7, <3>1, <3>4
    <3>3. ClaimMade(s)
      <4> HIDE DEF le, l
      <4>1. l # 0 /\ lease[l].state = "pending" /\ joins[l] = k
        BY <1>1, <1>7
      <4>2. joins'[l] = joins[l]
        BY <3>2 DEF Grown
      <4>3. joins'[task'[s].n] = joins'[l]
        BY <3>1, <4>1, <4>2
      <4>4. "room" \in HoldingPcs
        BY DEF HoldingPcs
      <4> QED BY <3>1, <3>2, <4>1, <4>2, <4>3, <4>4 DEF ClaimMade
    <3> QED BY <3>1, <3>2, <3>3 DEF ClaimsFine
  <2> QED BY <1>7, <2>1, <2>2
<1>8. CASE r.state \in FinalizingStates /\ WaitsFor(s, n, "finalizing", l, r)
  <2>1. l \in LeaseId /\ lease[l].state \notin {"none", "terminal"} /\ r = lease[l]
    BY <1>1, <1>8 DEF FinalizingStates
  <2> HIDE DEF l, r
  <2>2. Tame(lease[l]) /\ lease[l] \in LeaseOver(Ops)
    BY <2>1, RecordThere
  <2>3. TameStep(lease[l], r, ~currentLeasePeer(seats, l))
    BY <2>1, <2>2 DEF TameStep
  <2> QED BY <1>8, <2>1, <2>3, WaitsFine
<1>9. CASE /\ r.state \in FailedStates
           /\ WaitsFor(s, n, "retrying", l, retryFailedLeaseFinalizer(seats, l, r))
  <2> DEFINE b == retryFailedLeaseFinalizer(seats, l, r)
  <2>1. /\ l \in LeaseId /\ lease[l].state \notin {"none", "terminal"}
        /\ r = lease[l] /\ r \in LeaseOver(Ops)
    BY <1>1, <1>9 DEF FailedStates
  <2> HIDE DEF l, r
  <2>2. TameStep(lease[l], b, ~currentLeasePeer(seats, l)) /\ b.state \in FinalizingStates
    BY <2>1, RetryTame
  <2>3. WaitsFor(s, n, "retrying", l, b)
    BY <1>9
  <2> HIDE DEF b
  <2> QED BY <2>1, <2>2, <2>3, WaitsFine
<1> HIDE DEF l, r, none
<1>10. \/ /\ none
          /\ Register(s, n, 0, IF l = 0 THEN lease ELSE [lease EXCEPT ![l] = NoLease],
                      [leaseOf EXCEPT ![k] = 0])
       \/ /\ ~none /\ r.state = "pending"
          /\ LET le == [lease EXCEPT ![l].state = "claimed", ![l].taken = TRUE]
             IN IF attempt = "waited"
                THEN lease' = le /\ task' = [task EXCEPT ![s] = Idle] /\ UNCHANGED <<leaseOf, op>>
                ELSE Register(s, n, l, le, leaseOf)
       \/ r.state \in FinalizingStates /\ WaitsFor(s, n, "finalizing", l, r)
       \/ /\ r.state \in FailedStates
          /\ WaitsFor(s, n, "retrying", l, retryFailedLeaseFinalizer(seats, l, r))
       \/ Register(s, n, 0, lease, leaseOf)
       \/ Refused(s)
  BY DEF Claim, l, r, none
<1> QED BY <1>3, <1>4, <1>5, <1>7, <1>8, <1>9, <1>10

\* A join is asked for, and one goes on that had to wait.
LEMMA ComesSeats ==
  ASSUME LInv, Base, Grown, NEW s \in Sockets,
         (\E k \in Keys : JoinRequest(s, k)) \/ JoinResumes(s)
  PROVE  SeatStep
<1>1. UNCHANGED seats => OwnStep
  BY NobodyEnds
<1>2. ASSUME NEW k \in Keys, JoinRequest(s, k) PROVE SeatStep
  <2> DEFINE n == Len(joins) + 1
  <2>1. Claim(s, n, k, "first") /\ joins' = Append(joins, k) /\ UNCHANGED seats
    BY <1>2 DEF JoinRequest
  <2>2. joins'[n] = k /\ task[s].claim = 0
    <3>1. joins \in Seq(Keys)
      BY DEF LInv, TInv, JoinsInv
    <3>2. task[s] = Idle
      BY <1>2 DEF JoinRequest
    <3>3. Append(joins, k)[Len(joins) + 1] = k
      BY <3>1, AppendProperties
    <3>4. Idle.claim = 0
      BY DEF Idle
    <3> QED BY <2>1, <3>2, <3>3, <3>4
  <2> HIDE DEF n
  <2>3. TablesFine /\ ClaimsFine
    BY <2>1, <2>2, ClaimFine
  <2> QED BY <1>1, <2>1, <2>3 DEF SeatStep
<1>3. CASE JoinResumes(s)
  <2> DEFINE attempt == IF task[s].pc = "retrying" THEN "retried" ELSE "waited"
  <2>1. /\ UNCHANGED <<seats, joins>> /\ task[s].pc # "idle" /\ task[s].claim = 0
        /\ \/ Refused(s)
           \/ /\ Claim(s, task[s].n, KeyOf(s), attempt)
              /\ attempt = "waited" => Waited(s)
    <3>1. /\ task[s].pc \in {"retrying", "finalizing"} /\ task[s].wait = 0
          /\ UNCHANGED <<seats, joins>>
          /\ \/ Refused(s)
             \/ task[s].got # "err" /\ Claim(s, task[s].n, KeyOf(s), attempt)
      BY <1>3 DEF JoinResumes, EarlyPcs
    <3>2. task[s].claim = 0
      BY <3>1, SeatedHoldNone DEF HoldingPcs
    <3>3. task[s].got # "err" => (attempt = "waited" => Waited(s))
      BY <3>1 DEF Waited
    <3> QED BY <3>1, <3>2, <3>3
  <2>2. TablesFine /\ ClaimsFine
    <3>1. CASE Refused(s)
      <4>1. task' = [task EXCEPT ![s] = Idle] /\ UNCHANGED <<lease, leaseOf>>
        BY <3>1 DEF Refused
      <4>2. IsCommand(Idle) /\ Idle.claim = 0
        BY DEF IsCommand, Idle
      <4> QED BY <2>1, <4>1, <4>2, OneHolds, NoRecord
    <3>2. CASE /\ Claim(s, task[s].n, KeyOf(s), attempt)
               /\ attempt = "waited" => Waited(s)
      <4>1. KeyOf(s) \in Keys
        BY <2>1, KeyOfType DEF LInv
      <4>2. joins'[task[s].n] = KeyOf(s)
        BY <2>1 DEF KeyOf
      <4> HIDE DEF attempt
      <4> QED BY <2>1, <3>2, <4>1, <4>2, ClaimFine
    <3> QED BY <2>1, <3>1, <3>2
  <2> QED BY <1>1, <2>1, <2>2 DEF SeatStep
<1> QED BY <1>2, <1>3

-----------------------------------------------------------------------------
(* The specification. *)

\* Whatever the step.
LEMMA StepsSeats ==
  ASSUME LInv, Base, Grown, SeatInv', NoBanRefused, [Next]_vars
  PROVE  SeatStep
<1>1. CASE UNCHANGED vars
  <2>1. UNCHANGED <<lease, leaseOf, task, seats>>
    BY <1>1 DEF vars
  <2>2. TablesFine /\ ClaimsFine
    BY <2>1, NoRecord, AllHold
  <2> QED BY <2>1, <2>2, NobodyEnds DEF SeatStep
<1>2. ASSUME NEW s \in Sockets, Client(s) \/ JoinStep(s) \/ LeaveResumes(s) PROVE SeatStep
  <2>1. CASE (\E k \in Keys : JoinRequest(s, k)) \/ JoinResumes(s)
    BY <2>1, ComesSeats
  <2>2. CASE \/ \E n \in JoinId : LeaveRequest(s, n)
             \/ LeaveResumes(s) \/ SocketDies(s) \/ SocketCloses(s)
    BY <2>2, LeavingSeats
  <2>3. CASE GetRoom(s) \/ FindRoomBan(s) \/ GetOrCreatePeerIdentity(s)
    BY <2>3, LookupSeats
  <2>4. CASE LoadServerMute(s) \/ LeftOther(s)
    BY <2>4, MuteSeats, LeftOtherSeats
  <2>5. CASE OccupancyQueued(s) \/ FindLateBan(s) \/ BuildRoomSnapshot(s)
    BY <2>5, SeatedSeats
  <2> QED BY <1>2, <2>1, <2>2, <2>3, <2>4, <2>5 DEF Client, JoinStep
<1>3. ASSUME NEW n \in LeaseId, Finalizer(n) \/ Timer(n) PROVE SeatStep
  BY <1>3, FinalizerSeats, TimerSeats
<1>4. ASSUME NEW o \in Ops, Moderation(o) \/ RequestStep(o) PROVE SeatStep
  BY <1>4, RequestSeats
<1>5. ASSUME NEW r \in Rooms, PublishRoomEvent(r) PROVE SeatStep
  BY <1>5, EventSeats
<1> QED BY <1>1, <1>2, <1>3, <1>4, <1>5 DEF Next

\* At first there is no seat, no lease and no claim.
LEMMA BaseInit == Init => LInv /\ Base
<1> SUFFICES ASSUME Init PROVE LInv /\ Base
  OBVIOUS
<1>1. LInv
  BY TypesInit, CInvInit, StartsKept DEF LInv
<1>2. Vacant.t = 0 /\ NoLease.state = "none" /\ Idle.claim = 0
  BY DEF Vacant, NoLease, Idle
<1>3. /\ \A k \in Keys : seats[k].t = 0 /\ leaseOf[k] = 0
      /\ \A n \in LeaseId : lease[n] = NoLease
      /\ \A s \in Sockets : task[s].claim = 0
  BY <1>2 DEF Init
<1>4. SeatInv /\ MapInv
  BY <1>2, <1>3 DEF SeatInv, MapInv
<1>5. \A n \in LeaseId : RecordAt(n)
  BY <1>2, <1>3 DEF RecordAt
<1>6. \A s \in Sockets : ClaimAt(s)
  BY <1>3 DEF ClaimAt
<1> QED BY <1>1, <1>4, <1>5, <1>6 DEF Base

\* Every step keeps the invariant, and ends only what is its own.
LEMMA BaseNext == LInv /\ Base /\ NoBanRefused /\ [Next]_vars => (LInv /\ Base)' /\ SeatStep
<1> SUFFICES ASSUME LInv, Base, NoBanRefused, [Next]_vars PROVE (LInv /\ Base)' /\ SeatStep
  OBVIOUS
<1>1. LInv'
  BY StepsKept, TypesStep, CInvStep DEF LInv, TInv, RosterInv
<1>2. Grown /\ SeatInv'
  BY StepGrows DEF Base
<1>3. SeatStep
  BY <1>2, StepsSeats
<1>4. JoinsKept
  BY LedgerSteps DEF JoinsKept
<1>5. Base'
  BY <1>2, <1>3, <1>4, BaseStep DEF SeatStep
<1> QED BY <1>1, <1>3, <1>5

\* As long as no ban that a finalizer waits for is refused, a seat is emptied only
\* by the finalizer of the lease opened for it, by the join that took it, or upon
\* the news that its socket takes no writes: what was left behind by the seat it
\* replaced does not touch it (currentLeasePeer and closePeer compare transports).
THEOREM EndedByItsOwn == Spec /\ []NoBanRefused => SeatEndedByItsOwn
<1>1. LInv /\ Base /\ NoBanRefused /\ [Next]_vars => (LInv /\ Base)' /\ \A k \in Keys : OwnEnd(k)
  BY BaseNext DEF SeatStep, OwnStep
<1> QED BY <1>1, BaseInit, PTL DEF Spec, SeatEndedByItsOwn, OwnEnd

-----------------------------------------------------------------------------
(* What leases promise: a finalizer that runs, and a join that claims. *)

\* No lease was spent under a join that claims it and now asks for its mute flag:
\* such a join gives it back as if it were still there (terminateLease).
NoneSpent ==
  \A s \in Sockets :
    task[s].pc = "mute" /\ task[s].claim # 0 => lease[task[s].claim].state # "terminal"

\* No join finds another lease of its seat pending once the finalizer it waited for
\* is done: such a join would claim that and give up.
NoneWaited ==
  \A s \in Sockets :
    Waited(s) /\ leaseOf[KeyOf(s)] # 0 => lease[leaseOf[KeyOf(s)]].state # "pending"

\* Both promises are kept by every record, in the map or not.
RunsInv == \A n \in LeaseId : RunsOn(lease[n])
OwnersInv == \A n \in LeaseId : lease[n].state = "claimed" => \E s \in Sockets : task[s].claim = n

\* A step starts the finalizer of what it makes finalizing.
LEMMA RunsStep ==
  ASSUME LInv, Base, NoneSpent, RunsInv, TablesFine
  PROVE  RunsInv'
<1> SUFFICES ASSUME NEW n \in LeaseId PROVE RunsOn(lease'[n])
  BY DEF RunsInv
<1>1. CASE lease'[n].state = "none"
  BY <1>1 DEF RunsOn, FinalizingStates
<1>2. CASE lease'[n].state # "none"
  <2>1. RunsOn(lease'[n]) \/ Spends(n)
    BY <1>2 DEF TablesFine, RecordFine, RunsInv
  <2>2. n # 0
    BY NoRecordZero DEF Base
  <2> QED BY <2>1, <2>2 DEF Spends, NoneSpent
<1> QED BY <1>1, <1>2

\* A step that ends a claiming join completes its lease or gives it back.
LEMMA OwnersStep ==
  ASSUME LInv, Base, NoneWaited, OwnersInv, TablesFine, ClaimsFine
  PROVE  OwnersInv'
<1> SUFFICES ASSUME NEW n \in LeaseId, lease'[n].state = "claimed"
             PROVE  \E s \in Sockets : task'[s].claim = n
  BY DEF OwnersInv
<1>1. n # 0
  BY NoRecordZero DEF Base
<1>2. lease[n].state = "claimed" \/ Claimant(n) \/ Orphaned(n)
  BY DEF TablesFine, RecordFine
<1>3. CASE lease[n].state = "claimed"
  <2>1. PICK s \in Sockets : task[s].claim = n
    BY <1>3 DEF OwnersInv
  <2>2. task'[s].claim = n
    BY <1>1, <2>1 DEF ClaimsFine, ClaimsHeld
  <2> QED BY <2>2
<1>4. CASE Claimant(n)
  BY <1>4 DEF Claimant
<1>5. CASE Orphaned(n)
  BY <1>1, <1>5 DEF Orphaned, NoneWaited
<1> QED BY <1>2, <1>3, <1>4, <1>5

\* As long as no ban is refused and no lease is spent under the join that claims
\* it, a lease shown as finalizing has a finalizer that runs: whoever waits for it
\* is answered, and with its timer gone nothing else takes it out of the map.
THEOREM FinalizersRun == Spec /\ [](NoBanRefused /\ NoneSpent) => []FinalizingRuns
<1>1. Init => RunsInv
  <2>1. NoLease.state = "none"
    BY DEF NoLease
  <2> QED BY <2>1 DEF Init, RunsInv, RunsOn, FinalizingStates
<1>2. /\ LInv /\ Base /\ NoBanRefused /\ NoneSpent /\ RunsInv /\ [Next]_vars
      => (LInv /\ Base /\ RunsInv)'
  BY BaseNext, RunsStep DEF SeatStep
<1>3. LInv /\ Base /\ RunsInv => FinalizingRuns
  <2>1. LInv => \A k \in Keys : leaseOf[k] # 0 => leaseOf[k] \in LeaseId
    BY RecordTypes DEF LInv
  <2> QED BY <2>1 DEF RunsInv, RunsOn, FinalizingRuns
<1> QED BY <1>1, <1>2, <1>3, BaseInit, PTL DEF Spec

\* As long as no ban is refused and no join that waited comes upon another lease of
\* its seat, a claimed lease, whose timer was stopped, is claimed by a join that is
\* still running: every path out of a join completes the lease or gives it back.
THEOREM ClaimsHaveOwners == Spec /\ [](NoBanRefused /\ NoneWaited) => []ClaimHasOwner
<1>1. Init => OwnersInv
  <2>1. NoLease.state = "none"
    BY DEF NoLease
  <2> QED BY <2>1 DEF Init, OwnersInv
<1>2. /\ LInv /\ Base /\ NoBanRefused /\ NoneWaited /\ OwnersInv /\ [Next]_vars
      => (LInv /\ Base /\ OwnersInv)'
  BY BaseNext, OwnersStep DEF SeatStep
<1>3. LInv /\ Base /\ OwnersInv => ClaimHasOwner
  <2>1. LInv => \A k \in Keys : leaseOf[k] # 0 => leaseOf[k] \in LeaseId
    BY RecordTypes DEF LInv
  <2> QED BY <2>1 DEF OwnersInv, ClaimHasOwner
<1> QED BY <1>1, <1>2, <1>3, BaseInit, PTL DEF Spec

-----------------------------------------------------------------------------
(* Seats within reach. *)

\* A finalizer that is about to detach the sockets of its peer.
Evicting(n) ==
  \/ lease[n].stage = "prereq"
  \/ lease[n].stage = "revoke" /\ lease[n].cb \in Ops /\ KindOf(lease[n].cb) = "kick"

\* No kick, ban or lost membership is about to detach the sockets of a seat that was
\* taken anew since it began: detachVoicePeer asks for the peer, not for the transport.
NoneReplaced ==
  /\ \A n \in LeaseId : Evicting(n) => seats[LeaseKey(n)].t \in {0, TransportOf(n)}
  /\ \A o \in Ops :
       KindOf(o) = "member" /\ op[o].pc = "wait" /\ op[o].wait = {} /\ ~op[o].err
       => \A k \in op[o].todo : seats[k].t = 0

\* The seat that a command of s is about to leave has a lease already.
LeavePcs == {"leave", "leaveOther"}
Departs(s) ==
  task[s].pc \in LeavePcs => \A k \in Keys :
    /\ seats[k].t # 0 /\ seats[k].conn = s /\ seats[k].t = sock[s].voice
    /\ task[s].pc = "leave" => KeyOf(s) = k
    => leaseOf[k] = seats[k].t

InReach == EverySeatCanEnd /\ \A s \in Sockets : Departs(s)

\* After a step a seat is as it was, or it lost its socket and has a lease, or it was
\* just taken.
SeatReach(k) ==
  seats'[k].t # 0 =>
    \/ seats'[k] = seats[k]
    \/ leaseOf'[k] = seats'[k].t /\ seats'[k].conn = NoSocket
    \/ Held(k)' /\ LooksAgain(k)'

\* A socket keeps its seat, or leaves it to a lease once its join is through.
LetsGo(x) ==
  \A k \in Keys :
    /\ seats'[k] = seats[k] /\ seats[k].t # 0
    /\ seats[k].conn = x /\ seats[k].t = sock[x].voice
    => leaseOf'[k] = seats[k].t /\ task[x].pc \notin LookPcs
SocketReach(x) ==
  \/ sock'[x].voice = sock[x].voice /\ (sock[x].open # "closed" => sock'[x].open # "closed")
  \/ LetsGo(x) /\ (sock'[x].voice = 0 \/ task'[x].pc = "occupancy")

\* The join on x has looked at the bans again, and found none, or has no seat.
LookedAgain(x) ==
  \A k \in Keys :
    seats'[k] = seats[k] /\ Held(k) /\ seats[k].conn = x /\ seats[k].t = task[x].n
    => ~IsBanned(k)

\* A command that is about to leave was so before, or has a lease opened.  A join that
\* is to look at the bans again was so before, or has just been served; it is so still
\* unless it has looked.
LooksOn(x) == task'[x].pc \in LookPcs /\ task[x].pc \in LookPcs /\ task'[x].n = task[x].n
CommandReach(x) ==
  /\ task'[x].pc \in LeavePcs =>
       (task'[x].pc = task[x].pc /\ task'[x].n = task[x].n) \/ Departs(x)'
  /\ task'[x].pc \in LookPcs => LooksOn(x) \/ task'[x].n \in Unserved
  /\ task[x].pc \in LookPcs => LooksOn(x) \/ LookedAgain(x)

ReachStep ==
  /\ \A k \in Keys : SeatReach(k)
  /\ \A x \in Sockets : SocketReach(x) /\ CommandReach(x)

\* The lease of a seat stays as long as the seat.
LeasesStay ==
  \A k \in Keys : seats'[k].t # 0 /\ seats'[k].t = seats[k].t /\ leaseOf[k] = seats[k].t
                  => leaseOf'[k] = seats'[k].t

\* No step takes the lease of a seat out of the map before the seat is gone.
LEMMA LeaseStays ==
  ASSUME LInv, Base, Base', Grown, TablesFine
  PROVE  LeasesStay
<1> SUFFICES ASSUME NEW k \in Keys, NEW t, t = seats[k].t, t = seats'[k].t, t # 0, leaseOf[k] = t
             PROVE  leaseOf'[k] = t
  BY DEF LeasesStay
<1>1. Past(t) /\ joins[t] = k /\ lease[t].state # "none"
  BY DEF Base, SeatInv, MapInv
<1>2. t \in LeaseId
  BY <1>1, PastNumbers DEF LInv
<1>3. joins'[t] = k /\ ~GoneBy(t)
  BY <1>1 DEF Grown, GoneBy
<1>4. lease'[t].state # "none"
  BY <1>1, <1>2, <1>3 DEF TablesFine, RecordFine
<1>5. ~Gone(t)' /\ joins'[t] = k
  BY <1>3 DEF Gone, GoneBy
<1> QED BY <1>2, <1>4, <1>5 DEF Base, MapInv

\* A lease that is in the map for the transport of a seat can end it.
LEMMA LeaseReaches ==
  ASSUME LInv', Base', NEW k \in Keys, seats'[k].t # 0, leaseOf'[k] = seats'[k].t
  PROVE  Leased(k)'
<1> SUFFICES ASSUME NEW t, t = seats'[k].t PROVE Leased(k)'
  OBVIOUS
<1>1. t \in 1..Len(joins') /\ joins'[t] = k /\ lease'[t].state # "none"
  BY DEF Base, SeatInv, MapInv, Past
<1>2. t \in LeaseId
  <2>1. Len(joins') \in 0..MaxJoins
    BY DEF LInv, TInv, JoinsInv
  <2>2. \A j \in 0..MaxJoins : \A i \in 1..j : i \in 1..2 * MaxJoins
    BY ConstantsAssumption
  <2> QED BY <1>1, <2>1, <2>2 DEF LeaseId
<1>3. lease'[t].state # "terminal"
  <2>1. RecordAt(t)'
    BY <1>2 DEF Base
  <2>2. ~Gone(t)'
    BY <1>1 DEF Gone
  <2> QED BY <1>1, <2>1, <2>2 DEF RecordAt, SaysGone
<1> QED BY <1>1, <1>3 DEF Leased

\* Such a step keeps every seat within reach.
LEMMA ReachKept ==
  ASSUME LInv, LInv', Base, Base', JoinsKept, LeasesStay, InReach, ReachStep
  PROVE  InReach'
<1>1. ASSUME NEW k \in Keys, seats'[k].t # 0 PROVE Held(k)' \/ Leased(k)'
  <2>1. leaseOf'[k] = seats'[k].t => Leased(k)'
    BY <1>1, LeaseReaches
  <2>2. CASE seats'[k] = seats[k]
    <3> DEFINE c == seats[k].conn
    <3>1. Held(k) \/ Leased(k)
      BY <1>1, <2>2 DEF InReach, EverySeatCanEnd, Occupied
    <3>2. CASE Leased(k)
      BY <1>1, <2>1, <2>2, <3>2 DEF LeasesStay, Leased
    <3>3. CASE Held(k)
      <4>1. c \in Sockets /\ sock[c].open # "closed" /\ sock[c].voice = seats[k].t
        BY <3>3 DEF Held
      <4>2. CASE sock'[c].voice = sock[c].voice /\ sock'[c].open # "closed"
        BY <2>2, <4>1, <4>2 DEF Held
      <4>3. CASE LetsGo(c)
        BY <1>1, <2>1, <2>2, <4>1, <4>3 DEF LetsGo
      <4> QED BY <4>1, <4>2, <4>3 DEF ReachStep, SocketReach
    <3> QED BY <3>1, <3>2, <3>3
  <2>3. SeatReach(k)
    BY DEF ReachStep
  <2> QED BY <1>1, <2>1, <2>2, <2>3 DEF SeatReach
<1>2. ASSUME NEW x \in Sockets PROVE Departs(x)'
  <2>1. SUFFICES ASSUME task'[x].pc \in LeavePcs, ~Departs(x)', NEW k \in Keys,
                        seats'[k].t # 0, seats'[k].conn = x, seats'[k].t = sock'[x].voice,
                        task'[x].pc = "leave" => KeyOf(x)' = k
                 PROVE  leaseOf'[k] = seats'[k].t
    BY DEF Departs
  <2>2. task'[x].pc = task[x].pc /\ task'[x].n = task[x].n
    BY <2>1 DEF ReachStep, CommandReach
  <2>3. task'[x].pc \notin LookPcs /\ task'[x].pc # "occupancy" /\ task'[x].pc # "idle"
    BY <2>1 DEF LeavePcs, LookPcs
  <2>4. SeatReach(k) /\ SocketReach(x)
    BY DEF ReachStep
  <2>5. CASE seats'[k] = seats[k]
    <3>1. sock'[x].voice = sock[x].voice
      BY <2>1, <2>3, <2>4 DEF SocketReach
    <3>2. KeyOf(x)' = KeyOf(x)
      BY <2>2, <2>3, KeyKept DEF LInv
    <3>3. leaseOf[k] = seats[k].t
      BY <2>1, <2>2, <2>5, <3>1, <3>2 DEF InReach, Departs
    <3> QED BY <2>1, <2>5, <3>3 DEF LeasesStay
  <2> QED BY <2>1, <2>3, <2>4, <2>5 DEF SeatReach, LooksAgain
<1> QED BY <1>1, <1>2 DEF InReach, EverySeatCanEnd, Occupied

-----------------------------------------------------------------------------
(* Steps that take away at most. *)

\* Telling a room and closing a seat leave the other seats as they are.
LEMMA FadingReach ==
  ASSUME LInv, NEW k \in Keys, seats'[k].t # 0,
         \/ seats' = seats
         \/ \E r, except : seats' = publish(seats, r, except)
         \/ \E j, t : seats' = closePeer(seats, j, t)
  PROVE  seats'[k] = seats[k]
<1>1. IsTable(seats) /\ Vacant.t = 0
  BY SeatsFade DEF Vacant
<1>2. ASSUME NEW st, IsTable(st), NEW r, NEW except PROVE publish(st, r, except)[k] \in {st[k], Vacant}
  BY <1>2 DEF publish, IsTable
<1>3. ASSUME NEW r, NEW except, seats' = publish(seats, r, except) PROVE seats'[k] = seats[k]
  BY <1>1, <1>2, <1>3
<1>4. ASSUME NEW j, NEW t, seats' = closePeer(seats, j, t) PROVE seats'[k] = seats[k]
  <2> DEFINE vacated == [seats EXCEPT ![j] = Vacant]
  <2>1. IsTable(vacated) /\ vacated[k] \in {seats[k], Vacant}
    BY <1>1 DEF IsTable
  <2>2. seats' \in {seats, publish(vacated, j[1], j)}
    BY <1>4 DEF closePeer
  <2> HIDE DEF vacated
  <2> QED BY <1>1, <1>2, <2>1, <2>2
<1> QED BY <1>3, <1>4

\* So a step that does no more than that keeps seats within reach.
LEMMA FadesReach ==
  ASSUME LInv, \A x \in Sockets : SocketReach(x) /\ CommandReach(x),
         \/ seats' = seats
         \/ \E r, except : seats' = publish(seats, r, except)
         \/ \E j, t : seats' = closePeer(seats, j, t)
  PROVE  ReachStep
<1>1. ASSUME NEW k \in Keys PROVE SeatReach(k)
  BY FadingReach DEF SeatReach
<1> QED BY <1>1 DEF ReachStep

\* Sockets as they are.
LEMMA SocketsReach == ASSUME UNCHANGED sock PROVE \A x \in Sockets : SocketReach(x)
BY DEF SocketReach

\* Sockets that are detached from seats nobody has any more.
LEMMA DetachedReach ==
  ASSUME LInv, Base, NEW ks, \A k \in Keys : k \in ks => seats'[k].t = 0,
         sock' = detachVoicePeer(sock, ks)
  PROVE  \A x \in Sockets : SocketReach(x)
<1> SUFFICES ASSUME NEW x \in Sockets PROVE SocketReach(x)
  OBVIOUS
<1> DEFINE v == sock[x].voice
<1>1. sock[x] \in Socket
  BY DEF LInv, TInv, RosterInv, KnownSocket
<1>2. CASE v # 0 /\ joins[v] \in ks
  <2>1. sock'[x].voice = 0
    BY <1>1, <1>2 DEF detachVoicePeer, Socket
  <2>2. LetsGo(x)
    BY <1>2 DEF LetsGo, Base, SeatInv
  <2> QED BY <2>1, <2>2 DEF SocketReach
<1>3. CASE ~(v # 0 /\ joins[v] \in ks)
  <2>1. sock'[x] = sock[x]
    BY <1>3 DEF detachVoicePeer
  <2> QED BY <2>1 DEF SocketReach
<1> QED BY <1>2, <1>3

\* Commands that hear from a finalizer at most.
LEMMA CommandsReach ==
  ASSUME LInv, \/ task' = task
               \/ \E n, r : task' = TaskPut(task, n, r)
  PROVE  \A x \in Sockets : CommandReach(x)
<1>1. \A x \in Sockets : IsCommand(task[x])
  BY CommandsKnown DEF Commands, LInv
<1>2. ASSUME NEW n, NEW r, task' = TaskPut(task, n, r), NEW x \in Sockets
      PROVE  task'[x].pc = task[x].pc /\ task'[x].n = task[x].n
  BY <1>1, <1>2, PutKeepsTasks
<1> QED BY <1>2 DEF CommandReach, LooksOn

\* One command that goes on, not to leave a seat unless that has a lease, and not from
\* or to its second look at the bans unless it looks.
LEMMA CommandGoesOn ==
  ASSUME LInv, NEW s \in Sockets, NEW t, IsCommand(t), t.pc \notin LeavePcs \/ Departs(s)',
         t.pc \in LookPcs => task[s].pc \in LookPcs /\ t.n = task[s].n,
         task[s].pc \in LookPcs => t.pc \in LookPcs \/ LookedAgain(s),
         \/ task' = [task EXCEPT ![s] = t]
         \/ \E n, r : task' = TaskPut([task EXCEPT ![s] = t], n, r)
  PROVE  \A x \in Sockets : CommandReach(x)
<1> DEFINE tk == [task EXCEPT ![s] = t]
<1>1. /\ \A x \in Sockets : IsCommand(tk[x])
      /\ tk[s] = t /\ \A x \in Sockets \ {s} : tk[x] = task[x]
  BY CommandsKnown DEF Commands, LInv
<1>2. task' = tk \/ \E n, r : task' = TaskPut(tk, n, r)
  OBVIOUS
<1> HIDE DEF tk
<1>3. ASSUME NEW x \in Sockets PROVE task'[x].pc = tk[x].pc /\ task'[x].n = tk[x].n
  BY <1>1, <1>2, PutKeepsTasks
<1>4. ASSUME NEW x \in Sockets PROVE CommandReach(x)
  <2>1. x = s => task'[x].pc \notin LeavePcs \/ Departs(x)'
    BY <1>1, <1>3
  <2>2. x # s => task'[x].pc = task[x].pc /\ task'[x].n = task[x].n
    BY <1>1, <1>3
  <2>3. x = s => task'[x].pc = t.pc /\ task'[x].n = t.n
    BY <1>1, <1>3
  <2>4. CASE x = s
    BY <2>1, <2>3, <2>4 DEF CommandReach, LooksOn
  <2>5. CASE x # s
    BY <2>2, <2>5 DEF CommandReach, LooksOn
  <2> QED BY <2>4, <2>5
<1> QED BY <1>4

-----------------------------------------------------------------------------
(* Finalizers, timers and requests. *)

\* A finalizer closes the seat of its lease, and detaches the sockets of its peer.
LEMMA FinalizerReach ==
  ASSUME LInv, Base, NoneReplaced, NEW n \in LeaseId, Finalizer(n)
  PROVE  ReachStep
<1> DEFINE r == lease[n]
           j == LeaseKey(n)
           closed == closePeer(seats, j, TransportOf(n))
<1>1. r.stage # "" /\ r \in LeaseOver(Ops) /\ RecordAt(n) /\ TInv /\ n # 0
  BY RecordTypes, NoRecordZero
  DEF LInv, Base, Finalizer, PrerequisiteDone, CredentialsRevoked, IdentityInvalidated,
      ParticipantRemoved
<1>2. Past(n) /\ (r.owned => Gone(n))
  <2>1. NoLease.stage = ""
    BY DEF NoLease
  <2> QED BY <1>1, <2>1 DEF RecordAt, SaysGone
<1>3. TransportOf(n) = n /\ j = joins[n] /\ j \in Keys
  BY <1>1, <1>2, OwnLease
<1>4. /\ \E q : task' = TaskPut(task, n, q)
      /\ \/ seats' \in {seats, closed} /\ sock' = sock
         \/ /\ Evicting(n) /\ sock' = detachVoicePeer(sock, {j})
            /\ seats' = IF r.owned THEN seats ELSE closed
  <2>1. ASSUME NEW q, NEW st, NEW so, FinalizerStep(n, q, st, so)
        PROVE  task' = TaskPut(task, n, q) /\ seats' = st /\ sock' = so
    BY <2>1 DEF FinalizerStep
  <2>2. ASSUME NEW q, q.owned = r.owned, Evicted(n, q)
        PROVE  /\ \E p : task' = TaskPut(task, n, p)
               /\ sock' = detachVoicePeer(sock, {j})
               /\ seats' = IF r.owned THEN seats ELSE closed
    <3>1. FinalizerStep(n, [q EXCEPT !.stage = "identity"],
                        IF r.owned THEN seats ELSE closed, detachVoicePeer(sock, {j}))
      BY <2>2 DEF Evicted
    <3> HIDE DEF r, j, closed
    <3> QED BY <2>1, <3>1
  <2>3. CASE PrerequisiteDone(n)
    <3>1. /\ Evicting(n)
          /\ \/ \E q : FinalizerStep(n, q, seats, sock)
             \/ Evicted(n, r)
      BY <2>3 DEF PrerequisiteDone, Evicting
    <3> HIDE DEF r, j, closed
    <3> QED BY <2>1, <2>2, <3>1
  <2>4. CASE CredentialsRevoked(n)
    <3>1. \/ Evicting(n) /\ \E ok \in BOOLEAN : Evicted(n, Noted(r, ok))
          \/ \E q, st : FinalizerStep(n, q, st, sock) /\ st \in {seats, closed}
      BY <2>4 DEF CredentialsRevoked, Evicting
    <3>2. \A ok \in BOOLEAN : Noted(r, ok).owned = r.owned
      BY <1>1 DEF Noted, LeaseOver
    <3> HIDE DEF r, j, closed
    <3> QED BY <2>1, <2>2, <3>1, <3>2
  <2>5. CASE IdentityInvalidated(n) \/ ParticipantRemoved(n)
    <3>1. \E q : FinalizerStep(n, q, seats, sock)
      BY <2>5 DEF IdentityInvalidated, ParticipantRemoved
    <3> HIDE DEF r, j, closed
    <3> QED BY <2>1, <3>1
  <2> QED BY <2>3, <2>4, <2>5 DEF Finalizer
<1>5. \A x \in Sockets : CommandReach(x)
  <2> HIDE DEF r, j, closed
  <2> QED BY <1>4, CommandsReach
<1>6. seats' = seats \/ \E a, t : seats' = closePeer(seats, a, t)
  BY <1>4
<1>7. CASE sock' = sock
  <2> HIDE DEF r, j, closed
  <2> QED BY <1>5, <1>6, <1>7, SocketsReach, FadesReach
<1>8. CASE /\ Evicting(n) /\ sock' = detachVoicePeer(sock, {j})
           /\ seats' = IF r.owned THEN seats ELSE closed
  <2>1. seats[j].t \in {0, n}
    BY <1>3, <1>8 DEF NoneReplaced
  <2>2. seats'[j].t = 0
    <3>1. CASE r.owned
      BY <1>2, <1>3, <1>8, <2>1, <3>1 DEF Gone
    <3>2. CASE ~r.owned
      <4>1. IsTable(seats)
        BY SeatsFade
      <4>2. seats'[j].t # n
        BY <1>1, <1>3, <1>8, <3>2, <4>1, ClosedGone
      <4>3. seats'[j].t # 0 => seats'[j] = seats[j]
        <5> HIDE DEF r, j, closed
        <5> QED BY <1>3, <1>6, FadingReach
      <4> QED BY <2>1, <4>2, <4>3
    <3> QED BY <3>1, <3>2
  <2>3. \A k \in Keys : k \in {j} => seats'[k].t = 0
    BY <2>2
  <2> HIDE DEF r, j, closed
  <2>4. \A x \in Sockets : SocketReach(x)
    BY <1>8, <2>3, DetachedReach
  <2> QED BY <1>5, <1>6, <2>4, FadesReach
<1> QED BY <1>4, <1>7, <1>8

\* Timers are about lease records alone.
LEMMA TimerReach ==
  ASSUME LInv, NEW n \in LeaseId, Timer(n)
  PROVE  ReachStep
<1>1. UNCHANGED <<seats, sock>> /\ (task' = task \/ \E q : task' = TaskPut(task, n, q))
  BY DEF Timer, LeaseExpires, DeadlinePasses, TerminalForgotten, FinalizerStep
<1>2. \A x \in Sockets : CommandReach(x)
  BY <1>1, CommandsReach
<1> QED BY <1>1, <1>2, SocketsReach, FadesReach

\* Requests tell the room, and detach an account from the seats it had at first.
LEMMA RequestReach ==
  ASSUME LInv, Base, NoneReplaced, NEW o \in Ops, Moderation(o) \/ RequestStep(o)
  PROVE  ReachStep
<1>1. task' = task /\ (seats' = seats \/ \E r, except : seats' = publish(seats, r, except))
  BY DEF Moderation, RequestStep, Kick, Ban, PutBan, DeleteRoom, DisconnectAccountFromRoom,
         PersistBan, AfterBanCommitted, FinishRoomDeletion, RequestResumes
<1>2. \/ sock' = sock
      \/ /\ sock' = detachVoicePeer(sock, op[o].todo) /\ seats' = seats
         /\ \A k \in op[o].todo : seats[k].t = 0
  BY DEF Moderation, RequestStep, Kick, Ban, PutBan, DeleteRoom, DisconnectAccountFromRoom,
         PersistBan, AfterBanCommitted, FinishRoomDeletion, RequestResumes, NoneReplaced
<1>3. \A x \in Sockets : SocketReach(x)
  <2>1. CASE sock' = sock
    BY <2>1, SocketsReach
  <2>2. CASE /\ sock' = detachVoicePeer(sock, op[o].todo) /\ seats' = seats
             /\ \A k \in op[o].todo : seats[k].t = 0
    <3>1. \A k \in Keys : k \in op[o].todo => seats'[k].t = 0
      BY <2>2
    <3> QED BY <2>2, <3>1, DetachedReach
  <2> QED BY <1>2, <2>1, <2>2
<1>4. \A x \in Sockets : CommandReach(x)
  BY <1>1, CommandsReach
<1> QED BY <1>1, <1>3, <1>4, FadesReach

\* Other events of a room empty seats over sockets that take no writes.
LEMMA EventReach ==
  ASSUME LInv, NEW r \in Rooms, PublishRoomEvent(r)
  PROVE  ReachStep
<1>1. UNCHANGED <<sock, task>> /\ seats' = publish(seats, r, NoKey)
  BY DEF PublishRoomEvent
<1> QED BY <1>1, SocketsReach, CommandsReach, FadesReach

-----------------------------------------------------------------------------
(* Commands. *)

\* A join that comes to its end, and one that goes on to its next await.
LEMMA EndsReach ==
  ASSUME LInv, NEW s \in Sockets, NEW au, GivesUp(s, au) \/ Rejected(s),
         task[s].pc \in LookPcs => LookedAgain(s)
  PROVE  \A x \in Sockets : CommandReach(x)
<1>1. \E given, a : JoinEnds(s, given, a)
  BY DEF GivesUp, Rejected
<1>2. \/ task' = [task EXCEPT ![s] = Idle]
      \/ \E n, r : task' = TaskPut([task EXCEPT ![s] = Idle], n, r)
  BY <1>1 DEF JoinEnds
<1>3. IsCommand(Idle) /\ Idle.pc \notin LeavePcs /\ Idle.pc \notin LookPcs
  BY DEF IsCommand, Idle, LeavePcs, LookPcs
<1> QED BY <1>2, <1>3, CommandGoesOn

\* To the next await, that is not one of leaving.
LEMMA ProceedsReach ==
  ASSUME LInv, NEW s \in Sockets, NEW pc, pc \notin LeavePcs, Proceeds(s, pc),
         pc \in LookPcs => task[s].pc \in LookPcs,
         task[s].pc \in LookPcs => pc \in LookPcs \/ LookedAgain(s)
  PROVE  \A x \in Sockets : CommandReach(x)
<1> DEFINE t == [task[s] EXCEPT !.pc = pc]
<1>1. Commands
  BY CommandsKnown DEF LInv
<1>2. IsCommand(t) /\ t.pc = pc /\ t.n = task[s].n
  BY <1>1 DEF Commands, IsCommand
<1>3. task' = [task EXCEPT ![s] = t]
  BY <1>1 DEF Proceeds, Commands
<1> HIDE DEF t
<1> QED BY <1>2, <1>3, CommandGoesOn

\* The lookups of a join touch neither seats nor sockets.
LEMMA LookupReach ==
  ASSUME LInv, NEW s \in Sockets, GetRoom(s) \/ FindRoomBan(s) \/ GetOrCreatePeerIdentity(s)
  PROVE  ReachStep
<1>1. /\ UNCHANGED <<seats, sock>> /\ task[s].pc \notin LookPcs
      /\ \/ GivesUp(s, auth) \/ Rejected(s)
         \/ \E pc : pc \notin LeavePcs /\ pc \notin LookPcs /\ Proceeds(s, pc)
  BY DEF GetRoom, FindRoomBan, GetOrCreatePeerIdentity, LeavePcs, LookPcs, JoinAt
<1>2. \A x \in Sockets : CommandReach(x)
  BY <1>1, EndsReach, ProceedsReach
<1> QED BY <1>1, <1>2, SocketsReach, FadesReach

\* What a join that waited for nothing, or for a finalizer, goes on with.
LEMMA ClaimReach ==
  ASSUME LInv, NEW s \in Sockets, NEW n, NEW k, NEW attempt,
         Refused(s) \/ Claim(s, n, k, attempt), UNCHANGED <<seats, sock>>,
         task[s].pc \notin LookPcs
  PROVE  ReachStep
<1>1. Commands
  BY CommandsKnown DEF LInv
<1>2. IsCommand(Idle) /\ Idle.pc \notin LeavePcs /\ Idle.pc \notin LookPcs
  BY DEF IsCommand, Idle, LeavePcs, LookPcs
<1>3. CASE task' = [task EXCEPT ![s] = Idle]
  BY <1>2, <1>3, CommandGoesOn, SocketsReach, FadesReach
<1>4. ASSUME NEW c, NEW le, NEW map, Register(s, n, c, le, map) PROVE ReachStep
  <2> DEFINE t == [task[s] EXCEPT !.pc = "room", !.n = n, !.claim = c]
  <2>1. IsCommand(t) /\ t.pc \notin LeavePcs /\ t.pc \notin LookPcs
    BY <1>1 DEF Commands, IsCommand, LeavePcs, LookPcs
  <2>2. task' = [task EXCEPT ![s] = t]
    BY <1>1, <1>4 DEF Register, Commands
  <2> HIDE DEF t
  <2> QED BY <2>1, <2>2, CommandGoesOn, SocketsReach, FadesReach
<1>5. ASSUME NEW pc \in {"finalizing", "retrying"}, NEW l, NEW r, WaitsFor(s, n, pc, l, r)
      PROVE  ReachStep
  <2> DEFINE t == [Idle EXCEPT !.pc = pc, !.n = n,
                               !.wait = IF r.fin = "run" THEN l ELSE 0,
                               !.got = IF r.fin = "run" THEN "" ELSE r.fin]
  <2>1. IsCommand(t) /\ t.pc \notin LeavePcs /\ t.pc \notin LookPcs
    BY DEF Idle, IsCommand, LeavePcs, LookPcs
  <2>2. task' = TaskPut([task EXCEPT ![s] = t], l, r)
    BY <1>5 DEF WaitsFor
  <2> HIDE DEF t
  <2> QED BY <2>1, <2>2, CommandGoesOn, SocketsReach, FadesReach
<1>6. \/ task' = [task EXCEPT ![s] = Idle]
      \/ \E c, le, map : Register(s, n, c, le, map)
      \/ \E pc \in {"finalizing", "retrying"} : \E l, r : WaitsFor(s, n, pc, l, r)
  BY DEF Refused, Claim
<1> QED BY <1>3, <1>4, <1>5, <1>6

\* A join that is asked for, and one that was answered by the finalizer it waited for.
LEMMA ComesReach ==
  ASSUME LInv, NEW s \in Sockets, (\E k \in Keys : JoinRequest(s, k)) \/ JoinResumes(s)
  PROVE  ReachStep
<1>1. /\ UNCHANGED <<seats, sock>>
      /\ Refused(s) \/ \E n, k, attempt : Claim(s, n, k, attempt)
      /\ task[s] = Idle \/ task[s].pc \in EarlyPcs
  BY DEF JoinRequest, JoinResumes
<1>2. task[s].pc \notin LookPcs
  <2>1. Idle.pc = "idle"
    BY DEF Idle
  <2> QED BY <1>1, <2>1 DEF EarlyPcs, LookPcs
<1> QED BY <1>1, <1>2, ClaimReach

\* What follows the seat: it may be given back, which its own socket does.
LEMMA SeatedReach ==
  ASSUME LInv, Base, NEW s \in Sockets,
         OccupancyQueued(s) \/ FindLateBan(s) \/ BuildRoomSnapshot(s)
  PROVE  ReachStep
<1> DEFINE n == task[s].n
           j == KeyOf(s)
<1>1. /\ task[s].pc # "idle"
      /\ UNCHANGED <<seats, sock>> \/ ReleaseSeat(s)
  BY DEF OccupancyQueued, FindLateBan, BuildRoomSnapshot, SupersededSeat, JoinAt
<1>2. \A x \in Sockets : CommandReach(x)
  <2>0. /\ j \in Keys /\ n # 0 /\ j = joins[n]
        /\ \A k \in Keys : seats[k].t = n => k = j
    <3>1. j \in Keys /\ n \in 1..MaxJoins /\ j = joins[n]
      BY <1>1, KeyOfType DEF LInv, KeyOf
    <3>2. n # 0
      BY <3>1, ConstantsAssumption
    <3> QED BY <3>1, <3>2 DEF Base, SeatInv
  <2>1. CASE OccupancyQueued(s)
    <3>1. CASE StillSeated(s)
      <4>1. Proceeds(s, "lateBan") /\ task[s].pc \in LookPcs
        BY <2>1, <3>1 DEF OccupancyQueued, JoinAt, LookPcs
      <4>2. "lateBan" \in LookPcs /\ "lateBan" \notin LeavePcs
        BY DEF LookPcs, LeavePcs
      <4> QED BY <4>1, <4>2, ProceedsReach
    <3>2. CASE ~StillSeated(s)
      <4>1. GivesUp(s, auth)
        BY <2>1, <3>2 DEF OccupancyQueued, SupersededSeat
      <4>2. LookedAgain(s)
        BY <2>0, <3>2 DEF LookedAgain, StillSeated, isCurrentConnectionVoiceJoin, Held
      <4> QED BY <4>1, <4>2, EndsReach
    <3> QED BY <3>1, <3>2
  <2>2. CASE FindLateBan(s)
    <3>1. CASE ReleaseSeat(s) /\ GivesUp(s, auth)
      <4>1. seats' = closePeer(seats, j, n) /\ IsTable(seats)
        BY <3>1, SeatsFade DEF ReleaseSeat
      <4>2. seats'[j].t # n
        BY <2>0, <4>1, ClosedGone
      <4>3. LookedAgain(s)
        BY <2>0, <4>2 DEF LookedAgain
      <4> QED BY <3>1, <4>3, EndsReach
    <3>2. CASE ~IsBanned(j) /\ Proceeds(s, "snapshot")
      <4>1. LookedAgain(s)
        BY <2>0, <3>2 DEF LookedAgain
      <4>2. "snapshot" \notin LookPcs /\ "snapshot" \notin LeavePcs
        BY DEF LookPcs, LeavePcs
      <4> QED BY <3>2, <4>1, <4>2, ProceedsReach
    <3> QED BY <2>2, <3>1, <3>2 DEF FindLateBan
  <2>3. CASE BuildRoomSnapshot(s)
    <3>1. GivesUp(s, auth) /\ task[s].pc \notin LookPcs
      BY <2>3 DEF BuildRoomSnapshot, SupersededSeat, JoinAt, LookPcs
    <3> QED BY <3>1, EndsReach
  <2> QED BY <2>1, <2>2, <2>3
<1>3. CASE UNCHANGED <<seats, sock>>
  BY <1>2, <1>3, SocketsReach, FadesReach
<1>4. CASE ReleaseSeat(s)
  <2>1. /\ seats' = closePeer(seats, j, n)
        /\ sock' = IF sock[s].voice = n THEN [sock EXCEPT ![s].voice = 0] ELSE sock
    BY <1>4 DEF ReleaseSeat
  <2>2. j \in Keys /\ n \in 1..MaxJoins /\ n # 0 /\ j = joins[n] /\ IsTable(seats)
    <3>1. j \in Keys /\ n \in 1..MaxJoins
      BY <1>1, KeyOfType DEF LInv
    <3>2. \A i \in 1..MaxJoins : i # 0
      BY ConstantsAssumption
    <3> QED BY <3>1, <3>2, SeatsFade DEF KeyOf
  <2>3. \A x \in Sockets : sock[x] \in Socket
    BY DEF LInv, TInv, RosterInv, KnownSocket
  <2>4. seats'[j].t # n
    BY <2>1, <2>2, ClosedGone
  <2> HIDE DEF n, j
  <2>5. ASSUME NEW x \in Sockets PROVE SocketReach(x)
    <3>1. CASE x # s \/ sock[s].voice # n
      <4>1. sock'[x] = sock[x]
        BY <2>1, <3>1 DEF LInv, TInv, RosterInv
      <4> QED BY <4>1 DEF SocketReach
    <3>2. CASE x = s /\ sock[s].voice = n
      <4>1. sock'[x].voice = 0
        BY <2>1, <2>3, <3>2 DEF Socket, LInv, TInv, RosterInv
      <4>2. LetsGo(x)
        BY <2>2, <2>4, <3>2 DEF LetsGo, Base, SeatInv
      <4> QED BY <4>1, <4>2 DEF SocketReach
    <3> QED BY <3>1, <3>2
  <2>6. \E a, t : seats' = closePeer(seats, a, t)
    BY <2>1
  <2> QED BY <1>2, <2>5, <2>6, FadesReach
<1> QED BY <1>1, <1>3, <1>4

\* The seat of socket s, if it has one, has a lease.
Freed(s) ==
  \A k \in Keys : seats[k].t # 0 /\ seats[k].conn = s /\ seats[k].t = sock[s].voice
                  => leaseOf[k] = seats[k].t

\* A seat is taken over a socket that had none, had left its own to a lease, or had
\* the same.
LEMMA TakesReach ==
  ASSUME LInv, Base, LeasesStay, NEW s \in Sockets, task[s].pc \in {"mute", "leaveOther"},
         NEW so \in {sock, [sock EXCEPT ![s].voice = 0]},
         Freed(s) \/ (so = sock /\ joins[sock[s].voice] = KeyOf(s)),
         NEW au, TakeSeat(s, so, au)
  PROVE  ReachStep
<1> DEFINE n == task[s].n
           k == KeyOf(s)
           v == sock[s].voice
           c == task[s].claim
           others == {x \in Sockets \ {s} : c # 0 /\ task[x].claim = c}
           seated == [seats EXCEPT ![k] = [t |-> n, conn |-> s]]
<1>1. /\ k \in Keys /\ n # 0 /\ n \in Unserved /\ IsTable(seats)
      /\ \A x \in Sockets : sock[x] \in Socket
      /\ sock = [x \in Sockets |-> sock[x]]
  <2>1. s \in Seeking
    BY DEF Seeking, SeekingPcs
  <2>2. k \in Keys /\ n \in 1..MaxJoins
    BY KeyOfType DEF LInv
  <2>3. \A i \in 1..MaxJoins : i # 0
    BY ConstantsAssumption
  <2>4. sock \in [Sockets -> KnownSocket(Len(joins))]
    BY DEF LInv, TInv, RosterInv
  <2>5. \A x \in Sockets : sock[x] \in Socket
    BY <2>4 DEF KnownSocket
  <2> QED BY <2>1, <2>2, <2>3, <2>4, <2>5, SeatsFade DEF Unserved
<1>2. /\ \A x \in Sockets \ {s} : so[x] = sock[x]
      /\ so[s].open = sock[s].open /\ so[s].voice \in {v, 0}
      /\ so[s] \in Socket
  <2>1. CASE so = sock
    BY <1>1, <2>1 DEF Socket
  <2>2. CASE so = [sock EXCEPT ![s].voice = 0]
    <3>1. so[s] = [sock[s] EXCEPT !.voice = 0] /\ \A x \in Sockets \ {s} : so[x] = sock[x]
      BY <1>1, <2>2
    <3>2. 0 \in 0..MaxJoins
      BY ConstantsAssumption
    <3> QED BY <1>1, <3>1, <3>2 DEF Socket
  <2> QED BY <2>1, <2>2
<1>3. /\ task[s].pc \notin LookPcs
      /\ Freed(s) => LetsGo(s)
  BY DEF Freed, LetsGo, LeasesStay, LookPcs
<1>4. CASE GivesUp(s, au) /\ sock' = so /\ UNCHANGED seats
  <2>1. \A x \in Sockets : CommandReach(x)
    BY <1>3, <1>4, EndsReach
  <2>2. ASSUME NEW x \in Sockets PROVE SocketReach(x)
    <3>1. CASE x # s \/ so = sock
      BY <1>2, <1>4, <3>1 DEF SocketReach
    <3>2. CASE x = s /\ so # sock
      <4>1. so[s].voice = 0
        BY <1>1, <3>2 DEF Socket
      <4> QED BY <1>3, <1>4, <3>2, <4>1 DEF SocketReach
    <3> QED BY <3>1, <3>2
  <2> QED BY <1>4, <2>1, <2>2, FadesReach
<1>5. CASE ~(GivesUp(s, au) /\ sock' = so /\ UNCHANGED seats)
  <2>1. /\ ~Superseded(s)
        /\ seats' = IF seats[k].t # 0 THEN seated ELSE publish(seated, k[1], k)
        /\ sock' = [so EXCEPT ![s].voice = n]
        /\ task' = [x \in Sockets |->
                      IF x = s THEN [Idle EXCEPT !.pc = "occupancy", !.n = n]
                      ELSE IF x \in others THEN [task[x] EXCEPT !.claim = n + MaxJoins]
                      ELSE task[x]]
    BY <1>5 DEF TakeSeat
  <2>2. /\ task'[s].pc = "occupancy" /\ task'[s].n = n
        /\ \A x \in Sockets \ {s} : task'[x].pc = task[x].pc /\ task'[x].n = task[x].n
    <3>1. LET t == [Idle EXCEPT !.pc = "occupancy", !.n = n]
          IN Commands /\ t.pc = "occupancy" /\ t.n = n
      BY CommandsKnown DEF LInv, Idle
    <3>2. ASSUME NEW x \in Sockets, NEW m
          PROVE  LET t == [task[x] EXCEPT !.claim = m] IN t.pc = task[x].pc /\ t.n = task[x].n
      BY <3>1 DEF Commands, IsCommand
    <3> HIDE DEF others
    <3> QED BY <2>1, <3>1, <3>2
  <2>3. /\ \A x \in Sockets \ {s} : sock'[x] = sock[x]
        /\ sock'[s].voice = n /\ sock'[s].open # "closed"
    <3>1. sock[s].open # "closed"
      BY <2>1 DEF Superseded, isCurrentConnectionVoiceJoin
    <3>2. so = [x \in Sockets |-> so[x]]
      BY <1>1
    <3> HIDE DEF n
    <3> QED BY <1>2, <2>1, <3>1, <3>2 DEF Socket
  <2>4. /\ seats'[k] \in {[t |-> n, conn |-> s], Vacant} /\ Vacant.t = 0
        /\ \A j \in Keys \ {k} : seats'[j] \in {seats[j], Vacant}
    <3>1. /\ IsTable(seated) /\ seated[k] = [t |-> n, conn |-> s]
          /\ \A j \in Keys \ {k} : seated[j] = seats[j]
      BY <1>1 DEF IsTable
    <3> HIDE DEF seated, k, n
    <3>2. \A j \in Keys : publish(seated, k[1], k)[j] \in {seated[j], Vacant}
      BY <3>1 DEF publish, IsTable
    <3> QED BY <1>1, <2>1, <3>1, <3>2 DEF Vacant
  <2> HIDE DEF seated, others
  <2>5. ASSUME NEW j \in Keys PROVE SeatReach(j)
    <3>1. CASE j # k
      BY <2>4, <3>1 DEF SeatReach
    <3>2. CASE j = k /\ seats'[k] = [t |-> n, conn |-> s]
      <4>1. seats'[j].t = n /\ seats'[j].conn = s
        BY <3>2
      <4>2. Held(j)' /\ LooksAgain(j)'
        BY <2>2, <2>3, <4>1 DEF Held, LooksAgain, LookPcs
      <4> QED BY <2>2, <3>2, <4>1, <4>2 DEF SeatReach
    <3>3. CASE j = k /\ seats'[k] = Vacant
      BY <2>4, <3>3 DEF SeatReach
    <3> QED BY <2>4, <3>1, <3>2, <3>3
  <2>6. LetsGo(s)
    <3>1. CASE joins[v] = k
      <4>1. seats[k].t # n
        BY <1>1 DEF Base, SeatInv, Past
      <4>2. seats'[k].t \in {n, 0}
        BY <2>4
      <4>3. \A j \in Keys : seats[j].t = v /\ v # 0 => j = k
        BY <3>1 DEF Base, SeatInv
      <4> HIDE DEF n, k, v
      <4> QED BY <4>1, <4>2, <4>3 DEF LetsGo, v
    <3> QED BY <1>3, <3>1
  <2>7. ASSUME NEW x \in Sockets PROVE SocketReach(x) /\ CommandReach(x)
    <3>1. CASE x = s
      BY <1>1, <1>3, <2>2, <2>6, <3>1 DEF SocketReach, CommandReach, LeavePcs
    <3>2. CASE x # s
      BY <2>2, <2>3, <3>2 DEF SocketReach, CommandReach, LooksOn
    <3> QED BY <3>1, <3>2
  <2> QED BY <2>5, <2>7 DEF ReachStep
<1> QED BY <1>4, <1>5


-----------------------------------------------------------------------------
(* Leaving. *)

\* A command that waits to leave a seat has a lease opened for it, by which it ends.
LEMMA LeaveReach ==
  ASSUME LInv, Base, NEW s \in Sockets, NEW k \in Keys, UNCHANGED <<seats, sock, joins>>,
         NEW waiting, IsCommand(waiting), waiting.pc \in LeavePcs, Leave(s, k, waiting),
         waiting.pc = "leave" => joins[waiting.n] = k,
         waiting.pc = "leaveOther" => joins[sock[s].voice] = k,
         task[s].pc \notin LookPcs
  PROVE  ReachStep
<1> DEFINE v == sock[s].voice
<1>1. ASSUME NEW t, IsCommand(t), t.pc = waiting.pc, t.n = waiting.n,
             OwnsSeat(s, k) => leaseOf' = MapOpened(seats, {k}),
             \/ task' = [task EXCEPT ![s] = t]
             \/ \E n, r : task' = TaskPut([task EXCEPT ![s] = t], n, r)
      PROVE  ReachStep
  <2>1. task'[s].pc = waiting.pc /\ task'[s].n = waiting.n
    <3> DEFINE tk == [task EXCEPT ![s] = t]
    <3>1. /\ \A x \in Sockets : IsCommand(tk[x])
          /\ tk[s] = t
      BY <1>1, CommandsKnown DEF Commands, LInv
    <3>2. task' = tk \/ \E n, r : task' = TaskPut(tk, n, r)
      BY <1>1
    <3> HIDE DEF tk
    <3> QED BY <1>1, <3>1, <3>2, PutKeepsTasks
  <2>2. ASSUME NEW j \in Keys, seats'[j].t # 0, seats'[j].conn = s, seats'[j].t = sock'[s].voice,
               task'[s].pc = "leave" => KeyOf(s)' = j
        PROVE  leaseOf'[j] = seats'[j].t
    <3>1. seats[j].t = v /\ v # 0 /\ joins[v] = j
      BY <2>2 DEF Base, SeatInv
    <3>2. j = k
      <4>1. CASE waiting.pc = "leave"
        BY <2>1, <2>2, <4>1 DEF KeyOf
      <4>2. CASE waiting.pc = "leaveOther"
        BY <3>1, <4>2
      <4> QED BY <4>1, <4>2 DEF LeavePcs
    <3>3. OwnsSeat(s, k)
      BY <3>1, <3>2 DEF OwnsSeat
    <3>4. leaseOf'[k] = seats[k].t
      BY <1>1, <3>1, <3>2, <3>3 DEF MapOpened
    <3> QED BY <3>2, <3>4
  <2>3. Departs(s)'
    BY <2>2 DEF Departs
  <2>4. t.pc \notin LookPcs
    BY <1>1 DEF LeavePcs, LookPcs
  <2>5. \A x \in Sockets : CommandReach(x)
    BY <1>1, <2>3, <2>4, CommandGoesOn
  <2> QED BY <2>5, SocketsReach, FadesReach
<1>2. ASSUME NEW l, NEW r
      PROVE  LET t == Awaiting(waiting, l, r)
             IN IsCommand(t) /\ t.pc = waiting.pc /\ t.n = waiting.n
  BY DEF Awaiting, IsCommand
<1>3. CASE OwnsSeat(s, k)
  <2>1. /\ leaseOf' = MapOpened(seats, {k})
        /\ \E r : task' = [task EXCEPT ![s] = Awaiting(waiting, v, r)]
    BY <1>3 DEF Leave
  <2> HIDE DEF v
  <2> QED BY <1>1, <1>2, <2>1
<1>4. CASE ~OwnsSeat(s, k)
  <2>1. \E l, r : task' = TaskPut([task EXCEPT ![s] = Awaiting(waiting, l, r)], l, r)
    BY <1>4 DEF Leave
  <2> QED BY <1>1, <1>2, <1>4, <2>1
<1> QED BY <1>3, <1>4

\* The seat a socket knows of is one.
LEMMA VoiceOfKeys ==
  ASSUME TInv, NEW s \in Sockets, sock[s].voice # 0
  PROVE  joins[sock[s].voice] \in Keys
<1> DEFINE v == sock[s].voice
<1>1. Len(joins) \in Nat /\ joins \in Seq(Keys) /\ v \in 0..Len(joins)
  BY DEF TInv, JoinsInv, RosterInv, KnownSocket
<1>2. v # 0
  OBVIOUS
<1> HIDE DEF v
<1>3. v \in 1..Len(joins)
  BY <1>1, <1>2
<1>4. joins[v] \in Keys
  BY <1>1, <1>3, ElementOfSeq
<1> QED BY <1>4 DEF v

\* The mute of the peer is known: the seat is taken, after another one was left.
LEMMA MuteReach ==
  ASSUME LInv, Base, LeasesStay, NEW s \in Sockets, LoadServerMute(s)
  PROVE  ReachStep
<1> DEFINE k == KeyOf(s)
           v == sock[s].voice
           elsewhere == v # 0 /\ joins[v] # k
           au == [auth EXCEPT ![k] = task[s].n]
           waiting == [task[s] EXCEPT !.pc = "leaveOther"]
           so == IF elsewhere THEN LeftBy(s, joins[v]) ELSE sock
<1>1. /\ task[s].pc = "mute" /\ task[s].pc \notin LookPcs /\ UNCHANGED joins
      /\ \/ (Rejected(s) \/ GivesUp(s, auth)) /\ UNCHANGED <<seats, sock>>
         \/ elsewhere /\ Leave(s, joins[v], waiting) /\ UNCHANGED <<seats, sock>>
         \/ (elsewhere => ~OwnsSeat(s, joins[v])) /\ TakeSeat(s, so, au)
  BY DEF LoadServerMute, JoinAt, LookPcs
<1>2. CASE (Rejected(s) \/ GivesUp(s, auth)) /\ UNCHANGED <<seats, sock>>
  BY <1>1, <1>2, EndsReach, SocketsReach, FadesReach
<1>3. CASE elsewhere /\ Leave(s, joins[v], waiting) /\ UNCHANGED <<seats, sock>>
  <2>1. Commands
    BY CommandsKnown DEF LInv
  <2>2. IsCommand(waiting) /\ waiting.pc = "leaveOther" /\ waiting.pc \in LeavePcs
    BY <2>1 DEF Commands, IsCommand, LeavePcs
  <2>3. joins[v] \in Keys
    BY <1>3, VoiceOfKeys DEF LInv
  <2> HIDE DEF waiting
  <2> QED BY <1>1, <1>3, <2>2, <2>3, LeaveReach
<1>4. CASE (elsewhere => ~OwnsSeat(s, joins[v])) /\ TakeSeat(s, so, au)
  <2>1. so \in {sock, [sock EXCEPT ![s].voice = 0]}
    BY DEF LeftBy
  <2>2. Freed(s) \/ (so = sock /\ joins[v] = k)
    <3>1. CASE elsewhere
      BY <1>4, <3>1 DEF Freed, OwnsSeat, Base, SeatInv
    <3>2. CASE v = 0
      BY <3>2 DEF Freed
    <3>3. CASE v # 0 /\ joins[v] = k
      BY <3>3
    <3> QED BY <3>1, <3>2, <3>3
  <2> HIDE DEF so, au, k
  <2>3. Freed(s) \/ (so = sock /\ joins[sock[s].voice] = KeyOf(s))
    BY <2>2 DEF k
  <2> QED BY <1>1, <1>4, <2>1, <2>3, TakesReach
<1> QED BY <1>1, <1>2, <1>3, <1>4

\* The other seat has been left.
LEMMA LeftOtherReach ==
  ASSUME LInv, Base, InReach, LeasesStay, NEW s \in Sockets, LeftOther(s)
  PROVE  ReachStep
<1> DEFINE so == [sock EXCEPT ![s].voice = 0]
<1>1. /\ task[s].pc = "leaveOther" /\ task[s].pc \notin LookPcs
      /\ (GivesUp(s, auth) /\ UNCHANGED <<seats, sock>>) \/ TakeSeat(s, so, auth)
  BY DEF LeftOther, LookPcs
<1>2. CASE GivesUp(s, auth) /\ UNCHANGED <<seats, sock>>
  BY <1>1, <1>2, EndsReach, SocketsReach, FadesReach
<1>3. Freed(s)
  BY <1>1 DEF Freed, InReach, Departs, LeavePcs
<1>4. so \in {sock, [sock EXCEPT ![s].voice = 0]}
  OBVIOUS
<1> HIDE DEF so
<1> QED BY <1>1, <1>2, <1>3, <1>4, TakesReach

\* A socket that lets its seat go, if that seat has a lease by now.
LEMMA LeftByReach ==
  ASSUME LInv, UNCHANGED seats, NEW s \in Sockets, NEW k, sock' \in {sock, LeftBy(s, k)},
         LetsGo(s)
  PROVE  \A x \in Sockets : SocketReach(x)
<1>1. sock \in [Sockets -> KnownSocket(Len(joins))]
  BY DEF LInv, TInv, RosterInv
<1>2. \A x \in Sockets : sock[x] \in Socket
  BY <1>1 DEF KnownSocket
<1>3. sock' \in {sock, [sock EXCEPT ![s].voice = 0]}
  BY DEF LeftBy
<1>4. CASE sock' = [sock EXCEPT ![s].voice = 0]
  <2>1. sock'[s].voice = 0 /\ \A x \in Sockets \ {s} : sock'[x] = sock[x]
    BY <1>1, <1>2, <1>4 DEF Socket
  <2> QED BY <2>1 DEF SocketReach
<1> QED BY <1>3, <1>4, SocketsReach

\* A socket that asks to leave, or has left, its seat.
LEMMA LeavingReach ==
  ASSUME LInv, Base, InReach, NEW s \in Sockets,
         (\E n \in JoinId : LeaveRequest(s, n)) \/ LeaveResumes(s)
  PROVE  ReachStep
<1>1. ASSUME NEW n \in JoinId, LeaveRequest(s, n) PROVE ReachStep
  <2> DEFINE k == joins[n]
             waiting == [Idle EXCEPT !.pc = "leave", !.n = n]
  <2>1. /\ UNCHANGED <<seats, joins>> /\ n <= Len(joins) /\ task[s] = Idle
        /\ \/ Leave(s, k, waiting) /\ UNCHANGED sock
           \/ ~OwnsSeat(s, k) /\ sock' = LeftBy(s, k) /\ UNCHANGED task
    BY <1>1 DEF LeaveRequest
  <2>2. k \in Keys
    <3>1. Len(joins) \in Nat /\ joins \in Seq(Keys)
      BY DEF LInv, TInv, JoinsInv
    <3>2. n \in 1..Len(joins)
      <4> HIDE DEF k
      <4> QED BY <2>1, <3>1, ConstantsAssumption DEF JoinId
    <3> QED BY <3>1, <3>2, ElementOfSeq
  <2>3. CASE Leave(s, k, waiting) /\ UNCHANGED sock
    <3>1. IsCommand(waiting) /\ waiting.pc = "leave" /\ waiting.n = n
      BY DEF IsCommand, Idle
    <3>2. waiting.pc \in LeavePcs /\ joins[waiting.n] = k /\ waiting.pc # "leaveOther"
      BY <3>1 DEF LeavePcs
    <3>3. task[s].pc \notin LookPcs
      <4>1. Idle.pc = "idle"
        BY DEF Idle
      <4> QED BY <2>1, <4>1 DEF LookPcs
    <3> HIDE DEF waiting, k
    <3> QED BY <2>1, <2>2, <2>3, <3>1, <3>2, <3>3, LeaveReach
  <2>4. CASE ~OwnsSeat(s, k) /\ sock' = LeftBy(s, k) /\ UNCHANGED task
    <3>1. CASE sock[s].voice # 0 /\ joins[sock[s].voice] = k
      <4>1. LetsGo(s)
        BY <2>4, <3>1 DEF LetsGo, OwnsSeat, Base, SeatInv
      <4>2. sock' \in {sock, LeftBy(s, k)}
        BY <2>4
      <4> HIDE DEF k
      <4> QED BY <2>1, <2>4, <4>1, <4>2, LeftByReach, CommandsReach, FadesReach
    <3>2. CASE ~(sock[s].voice # 0 /\ joins[sock[s].voice] = k)
      <4>1. sock' = sock
        BY <2>4, <3>2 DEF LeftBy
      <4> QED BY <2>1, <2>4, <4>1, SocketsReach, CommandsReach, FadesReach
    <3> QED BY <3>1, <3>2
  <2> QED BY <2>1, <2>3, <2>4
<1>2. CASE LeaveResumes(s)
  <2>1. /\ task[s].pc = "leave" /\ sock' \in {sock, LeftBy(s, KeyOf(s))}
        /\ task' = [task EXCEPT ![s] = Idle] /\ UNCHANGED <<seats, leaseOf>>
        /\ task[s].pc \notin LookPcs
    BY <1>2 DEF LeaveResumes, LookPcs
  <2>2. IsCommand(Idle) /\ Idle.pc \notin LeavePcs /\ Idle.pc \notin LookPcs
    BY DEF IsCommand, Idle, LeavePcs, LookPcs
  <2>3. \A x \in Sockets : CommandReach(x)
    BY <2>1, <2>2, CommandGoesOn
  <2>4. CASE sock' = sock
    BY <2>1, <2>3, <2>4, SocketsReach, FadesReach
  <2>5. CASE sock' # sock
    <3>1. joins[sock[s].voice] = KeyOf(s)
      BY <2>1, <2>5 DEF LeftBy
    <3>2. LetsGo(s)
      BY <2>1, <3>1 DEF LetsGo, InReach, Departs, LeavePcs, Base, SeatInv
    <3> QED BY <2>1, <2>3, <3>2, LeftByReach, FadesReach
  <2> QED BY <2>4, <2>5
<1> QED BY <1>1, <1>2

\* A socket that closes leaves its seat to the lease that opens for it.
LEMMA ClosingReach ==
  ASSUME LInv, Base, NEW s \in Sockets, SocketDies(s) \/ SocketCloses(s)
  PROVE  ReachStep
<1>1. sock \in [Sockets -> KnownSocket(Len(joins))]
  BY DEF LInv, TInv, RosterInv
<1>2. \A x \in Sockets : sock[x] \in Socket
  BY <1>1 DEF KnownSocket
<1>3. CASE SocketDies(s)
  <2>1. /\ UNCHANGED <<seats, task>> /\ sock[s].open = "open"
        /\ sock' = [sock EXCEPT ![s].open = "dead"]
    BY <1>3 DEF SocketDies
  <2>2. \A x \in Sockets : /\ sock'[x].voice = sock[x].voice
                           /\ sock[x].open # "closed" => sock'[x].open # "closed"
    BY <1>1, <1>2, <2>1 DEF Socket
  <2>3. \A x \in Sockets : SocketReach(x)
    BY <2>2 DEF SocketReach
  <2> QED BY <2>1, <2>3, CommandsReach, FadesReach
<1>4. CASE SocketCloses(s)
  <2> DEFINE v == sock[s].voice
             k == joins[v]
  <2>1. /\ UNCHANGED task /\ sock' = [sock EXCEPT ![s] = [open |-> "closed", voice |-> 0]]
        /\ \/ v # 0 /\ seats[k].t = v /\ seats' = [seats EXCEPT ![k].conn = NoSocket]
              /\ leaseOf' = MapOpened(seats, {k})
           \/ ~(v # 0 /\ seats[k].t = v) /\ UNCHANGED <<seats, leaseOf>>
    BY <1>4 DEF SocketCloses
  <2>2. sock'[s].voice = 0 /\ \A x \in Sockets \ {s} : sock'[x] = sock[x]
    BY <1>1, <2>1
  <2>3. CASE v # 0 /\ seats[k].t = v
    <3>1. /\ seats' = [seats EXCEPT ![k].conn = NoSocket] /\ leaseOf' = MapOpened(seats, {k})
          /\ k \in Keys /\ v # 0 /\ seats[k].t = v /\ k = joins[v]
          /\ seats \in [Keys -> Seat]
      BY <2>1, <2>3, VoiceOfKeys DEF LInv, TInv, RosterInv
    <3> HIDE DEF k
    <3>2. leaseOf'[k] = v
      BY <3>1 DEF MapOpened
    <3>3. /\ seats'[k].t = v /\ seats'[k].conn = NoSocket
          /\ \A j \in Keys \ {k} : seats'[j] = seats[j]
      BY <3>1 DEF Seat
    <3> HIDE DEF v
    <3>4. \A j \in Keys : SeatReach(j)
      BY <3>2, <3>3 DEF SeatReach
    <3>5. LetsGo(s)
      <4>1. \A j \in Keys : seats[j].t = v => j = k
        BY <3>1 DEF Base, SeatInv
      <4>2. seats[k].conn = s => seats'[k] # seats[k]
        BY <3>3, ConstantsAssumption
      <4> QED BY <4>1, <4>2 DEF LetsGo, v
    <3>6. \A x \in Sockets : SocketReach(x)
      BY <2>2, <3>5 DEF SocketReach
    <3>7. \A x \in Sockets : CommandReach(x)
      BY <2>1, CommandsReach
    <3> QED BY <3>4, <3>6, <3>7 DEF ReachStep
  <2>4. CASE ~(v # 0 /\ seats[k].t = v)
    <3>1. LetsGo(s)
      BY <2>4 DEF LetsGo, Base, SeatInv
    <3>2. \A x \in Sockets : SocketReach(x)
      BY <2>2, <3>1 DEF SocketReach
    <3> QED BY <2>1, <2>4, <3>2, CommandsReach, FadesReach
  <2> QED BY <2>3, <2>4
<1> QED BY <1>3, <1>4

-----------------------------------------------------------------------------
(* The theorem. *)

\* Every step keeps seats within reach.
LEMMA StepsReach ==
  ASSUME LInv, Base, LeasesStay, NoneReplaced, InReach, [Next]_vars
  PROVE  ReachStep
<1>1. CASE UNCHANGED vars
  <2>1. UNCHANGED <<seats, sock, task>>
    BY <1>1 DEF vars
  <2> QED BY <2>1, SocketsReach, CommandsReach, FadesReach
<1>2. ASSUME NEW s \in Sockets, Client(s) \/ JoinStep(s) \/ LeaveResumes(s) PROVE ReachStep
  <2>1. CASE Client(s) \/ LeaveResumes(s)
    BY <2>1, ComesReach, LeavingReach, ClosingReach DEF Client
  <2>2. CASE JoinStep(s)
    BY <2>2, ComesReach, LookupReach, MuteReach, LeftOtherReach, SeatedReach DEF JoinStep
  <2> QED BY <1>2, <2>1, <2>2
<1>3. ASSUME NEW n \in LeaseId, Finalizer(n) \/ Timer(n) PROVE ReachStep
  BY <1>3, FinalizerReach, TimerReach
<1>4. ASSUME NEW o \in Ops, Moderation(o) \/ RequestStep(o) PROVE ReachStep
  BY <1>4, RequestReach
<1>5. ASSUME NEW r \in Rooms, PublishRoomEvent(r) PROVE ReachStep
  BY <1>5, EventReach
<1> QED BY <1>1, <1>2, <1>3, <1>4, <1>5 DEF Next

\* As long as no ban is refused and no eviction is about to detach the sockets of a
\* seat taken anew, every seat is held by an open socket, whose close opens a lease
\* for it, or has a lease that still can end it: none stays behind in the roster.
THEOREM SeatsCanEnd == Spec /\ [](NoBanRefused /\ NoneReplaced) => []EverySeatCanEnd
<1>1. Init => InReach
  <2>1. Vacant.t = 0 /\ Idle.pc \notin LeavePcs
    BY DEF Vacant, Idle, LeavePcs
  <2> QED BY <2>1 DEF Init, InReach, EverySeatCanEnd, Occupied, Departs
<1>2. /\ LInv /\ Base /\ NoBanRefused /\ NoneReplaced /\ InReach /\ [Next]_vars
      => (LInv /\ Base /\ InReach)'
  <2> SUFFICES ASSUME LInv, Base, NoBanRefused, NoneReplaced, InReach, [Next]_vars
               PROVE  (LInv /\ Base /\ InReach)'
    OBVIOUS
  <2>1. LInv' /\ Base' /\ TablesFine
    BY BaseNext DEF SeatStep
  <2>2. Grown
    BY StepGrows DEF Base
  <2>3. JoinsKept
    BY LedgerSteps DEF JoinsKept
  <2>4. LeasesStay
    BY <2>1, <2>2, LeaseStays
  <2>5. ReachStep
    BY <2>4, StepsReach
  <2> QED BY <2>1, <2>3, <2>4, <2>5, ReachKept
<1>3. InReach => EverySeatCanEnd
  BY DEF InReach
<1> QED BY <1>1, <1>2, <1>3, BaseInit, PTL DEF Spec
-----------------------------------------------------------------------------
(* Requests that wait for finalizers. *)

\* A step leaves a request waiting for what it waits for: a finalizer it does not wait
\* for any more has failed, or the seat of that is gone.
Answered(n) == GoneBy(n) /\ lease'[n].fin # "run"
Patient(o) ==
  /\ op'[o].kind = op[o].kind /\ op'[o].pc = op[o].pc /\ op'[o].key = op[o].key
  /\ op'[o].todo = op[o].todo /\ (op[o].err => op'[o].err)
  /\ \A n \in op[o].wait : n \in op'[o].wait \/ op'[o].err \/ Answered(n)
AllPatient == \A o \in Ops : Patient(o)

\* Requests that differ from those there are in what nobody waits for at most.
AsWaiting(ops) ==
  \A o \in Ops : /\ ops[o] \in Request /\ ops[o].kind = op[o].kind /\ ops[o].pc = op[o].pc
                 /\ ops[o].key = op[o].key /\ ops[o].todo = op[o].todo
                 /\ ops[o].err = op[o].err /\ ops[o].wait = op[o].wait

\* Requests as they are.
LEMMA WaitingAsIs == ASSUME LInv PROVE AsWaiting(op)
BY RequestKey DEF LInv, AsWaiting

\* Nobody hears anything.
LEMMA QuietPatient ==
  ASSUME NEW ops, AsWaiting(ops), op' = ops
  PROVE  AllPatient
BY DEF AsWaiting, AllPatient, Patient

\* The finalizer of a record that is put back may have settled, and then those who
\* waited for it hear that it failed, or the seat is gone.
LEMMA PutPatient ==
  ASSUME TablesFine, NEW n \in LeaseId, lease[n].state # "none", NEW r \in LeaseOver(Ops),
         lease \in [LeaseId -> LeaseOver(Ops)], NEW st, lease' = LeasePut(lease, st, n, r),
         NEW ops, AsWaiting(ops), op' = OpPut(ops, n, r)
  PROVE  AllPatient
<1>1. lease'[n] = Finish(st, n, r)
  BY DEF LeasePut
<1>2. RecordFine(n) /\ NoLease.state = "none"
  BY DEF TablesFine, NoLease
<1>3. CASE r.stage # "settle"
  <2>1. op' = ops
    BY <1>3 DEF OpPut
  <2> QED BY <2>1, QuietPatient
<1>4. CASE r.stage = "settle"
  <2>1. ASSUME r.fail = "no" PROVE Answered(n)
    <3> DEFINE done == [r EXCEPT !.fin = Result(r), !.cb = NoOp, !.stage = "",
                                 !.idx = 1, !.owned = FALSE, !.fail = "no"]
               over == [done EXCEPT !.state = "terminal"]
    <3>1. lease'[n] \in {NoLease, over}
      BY <1>1, <1>4, <2>1 DEF Finish, Settled
    <3>2. over.state = "terminal" /\ over.fin = "ok" /\ NoLease.fin = "none"
      <4>1. done \in [state : {done.state}, disc : {done.disc}, due : {done.due},
                      taken : {done.taken}, reason : {done.reason}, atSeq : {done.atSeq},
                      cbs : {done.cbs}, idx : {done.idx}, fin : {done.fin}, cb : {done.cb},
                      stage : {done.stage}, owned : {done.owned}, fail : {done.fail}]
        BY DEF LeaseOver
      <4>2. done.fin = "ok"
        BY <2>1 DEF Result, LeaseOver
      <4> HIDE DEF done
      <4> QED BY <4>1, <4>2 DEF NoLease
    <3> HIDE DEF over
    <3> QED BY <1>2, <3>1, <3>2 DEF RecordFine, SaysGone, Answered
  <2>2. Result(r) \in {"ok", "err"} /\ (Result(r) = "ok" => r.fail = "no")
    BY DEF Result
  <2>3. ASSUME NEW o \in Ops PROVE Patient(o)
    <3> DEFINE q == [ops[o] EXCEPT !.wait = @ \ {n}, !.err = @ \/ Result(r) = "err"]
    <3>1. op'[o] = IF n \in ops[o].wait THEN q ELSE ops[o]
      BY <1>4 DEF OpPut
    <3>2. /\ q.kind = ops[o].kind /\ q.pc = ops[o].pc /\ q.key = ops[o].key
          /\ q.todo = ops[o].todo /\ q.wait = ops[o].wait \ {n}
          /\ q.err = (ops[o].err \/ Result(r) = "err")
      BY DEF AsWaiting, Request
    <3> HIDE DEF q
    <3>3. \A m \in op[o].wait : m \in op'[o].wait \/ op'[o].err \/ Answered(m)
      BY <2>1, <2>2, <3>1, <3>2 DEF AsWaiting
    <3> QED BY <3>1, <3>2, <3>3 DEF AsWaiting, Patient
  <2> QED BY <2>3 DEF AllPatient
<1> QED BY <1>3, <1>4

\* Every step of a finalizer, and the expiry that starts one.
LEMMA FinalizerPatient ==
  ASSUME LInv, Base, TablesFine, NEW n \in LeaseId, Finalizer(n) \/ LeaseExpires(n)
  PROVE  AllPatient
<1> DEFINE r == lease[n]
<1>1. /\ lease \in [LeaseId -> LeaseOver(Ops)] /\ r \in LeaseOver(Ops) /\ RecordAt(n)
      /\ AsWaiting(op)
  BY RecordTypes, WaitingAsIs DEF LInv, Base
<1>2. r.state # "none"
  <2>1. r.stage # "" \/ r.state = "pending"
    BY DEF Finalizer, PrerequisiteDone, CredentialsRevoked, IdentityInvalidated,
           ParticipantRemoved, LeaseExpires
  <2>2. NoLease.stage = ""
    BY DEF NoLease
  <2> QED BY <1>1, <2>1, <2>2 DEF RecordAt
<1>3. ASSUME NEW q \in LeaseOver(Ops), NEW st, NEW so, FinalizerStep(n, q, st, so),
             NEW ops, AsWaiting(ops), op' = OpPut(ops, n, q)
      PROVE  AllPatient
  <2>1. lease' = LeasePut(lease, st, n, q)
    BY <1>3 DEF FinalizerStep
  <2> QED BY <1>1, <1>2, <1>3, <2>1, PutPatient DEF r
<1>4. ASSUME UNCHANGED op PROVE AllPatient
  BY <1>1, <1>4, QuietPatient
<1>5. \A released \in BOOLEAN, failure \in {"no", "plain", "rollback"} :
        Returned(r, released, failure) \in LeaseOver(Ops)
  <2> HIDE DEF r
  <2> QED BY <1>1, ReturnedType
<1>6. \A ok \in BOOLEAN : [Noted(r, ok) EXCEPT !.stage = "participant"] \in LeaseOver(Ops)
  BY <1>1 DEF Noted, LeaseOver, Stages
<1>7. CASE PrerequisiteDone(n)
  <2> DEFINE q == Returned(r, FALSE, "rollback")
  <2>1. \/ FinalizerStep(n, q, seats, sock) /\ op' = OpPut(op, n, q)
        \/ UNCHANGED op
    BY <1>7 DEF PrerequisiteDone
  <2>2. q \in LeaseOver(Ops)
    BY <1>5
  <2> HIDE DEF q, r
  <2> QED BY <1>1, <1>3, <1>4, <2>1, <2>2
<1>8. CASE CredentialsRevoked(n)
  <2> DEFINE c == r.cb
             shared == c \in Ops /\ KindOf(c) = "member"
  <2>1. PICK ok \in BOOLEAN :
          LET ops == IF shared
                     THEN [op EXCEPT ![c].rev = IF ok THEN "ok" ELSE "failed"]
                     ELSE op
              next == IF (c = NoOp \/ shared) /\ ~ok THEN Returned(r, FALSE, "plain")
                      ELSE IF shared /\ r.owned THEN Returned(r, FALSE, "no")
                      ELSE [Noted(r, ok) EXCEPT !.stage = "participant"]
          IN \/ UNCHANGED op
             \/ (\E st : FinalizerStep(n, next, st, sock)) /\ op' = OpPut(ops, n, next)
    BY <1>8 DEF CredentialsRevoked
  <2> DEFINE ops == IF shared
                    THEN [op EXCEPT ![c].rev = IF ok THEN "ok" ELSE "failed"]
                    ELSE op
             next == IF (c = NoOp \/ shared) /\ ~ok THEN Returned(r, FALSE, "plain")
                     ELSE IF shared /\ r.owned THEN Returned(r, FALSE, "no")
                     ELSE [Noted(r, ok) EXCEPT !.stage = "participant"]
  <2>2. next \in LeaseOver(Ops)
    <3> HIDE DEF r, c, shared
    <3> QED BY <1>5, <1>6
  <2>3. AsWaiting(ops)
    <3>1. CASE shared
      <4>1. op \in [Ops -> KnownRequest]
        BY DEF LInv, TInv, LeaseInv
      <4>2. ops = [op EXCEPT ![c] = [op[c] EXCEPT !.rev = IF ok THEN "ok" ELSE "failed"]]
        BY <3>1, <4>1
      <4> DEFINE q == [op[c] EXCEPT !.rev = IF ok THEN "ok" ELSE "failed"]
      <4>3. /\ q \in Request /\ q.kind = op[c].kind /\ q.pc = op[c].pc /\ q.key = op[c].key
            /\ q.todo = op[c].todo /\ q.err = op[c].err /\ q.wait = op[c].wait
        BY <3>1, RequestKey DEF LInv, Request, Outcome
      <4> HIDE DEF q
      <4>4. \A o \in Ops : ops[o] = IF o = c THEN q ELSE op[o]
        BY <4>1, <4>2 DEF q
      <4> HIDE DEF ops, c
      <4> QED BY <1>1, <4>3, <4>4 DEF AsWaiting
    <3>2. CASE ~shared
      BY <1>1, <3>2
    <3> QED BY <3>1, <3>2
  <2>4. \/ UNCHANGED op
        \/ (\E st : FinalizerStep(n, next, st, sock)) /\ op' = OpPut(ops, n, next)
    BY <2>1
  <2> HIDE DEF next, ops, r
  <2> QED BY <1>3, <1>4, <2>2, <2>3, <2>4
<1>9. CASE IdentityInvalidated(n)
  <2>1. PICK ok \in BOOLEAN :
          LET next == IF r.owned THEN Returned(r, TRUE, IF ok THEN "no" ELSE "plain")
                      ELSE [Noted(r, ok) EXCEPT !.stage = "participant"]
          IN FinalizerStep(n, next, seats, sock) /\ op' = OpPut(op, n, next)
    BY <1>9 DEF IdentityInvalidated
  <2> DEFINE next == IF r.owned THEN Returned(r, TRUE, IF ok THEN "no" ELSE "plain")
                     ELSE [Noted(r, ok) EXCEPT !.stage = "participant"]
  <2>2. next \in LeaseOver(Ops)
    <3> HIDE DEF r
    <3> QED BY <1>5, <1>6
  <2>3. FinalizerStep(n, next, seats, sock) /\ op' = OpPut(op, n, next)
    BY <2>1
  <2> HIDE DEF next, r
  <2> QED BY <1>1, <1>3, <2>2, <2>3
<1>10. CASE ParticipantRemoved(n)
  <2> DEFINE member == r.cb \in Ops /\ KindOf(r.cb) = "member"
  <2>1. PICK ok \in BOOLEAN :
          LET next == Returned(r, ok \/ ~member, IF ok THEN "no" ELSE "plain")
          IN FinalizerStep(n, next, seats, sock) /\ op' = OpPut(op, n, next)
    BY <1>10 DEF ParticipantRemoved
  <2> DEFINE next == Returned(r, ok \/ ~member, IF ok THEN "no" ELSE "plain")
  <2>2. next \in LeaseOver(Ops)
    <3> HIDE DEF r, member
    <3>1. (ok \/ ~member) \in BOOLEAN /\ (IF ok THEN "no" ELSE "plain") \in {"no", "plain", "rollback"}
      BY DEF member
    <3> QED BY <1>5, <3>1
  <2>3. FinalizerStep(n, next, seats, sock) /\ op' = OpPut(op, n, next)
    BY <2>1
  <2> HIDE DEF next, r
  <2> QED BY <1>1, <1>3, <2>2, <2>3
<1>11. CASE LeaseExpires(n)
  <2> DEFINE late == [r EXCEPT !.state = "finalizing-expiry", !.due = TRUE]
             next == Started(seats, n, late)
  <2>1. late \in LeaseOver(Ops)
    BY <1>1 DEF LeaseOver, LeaseStates
  <2>2. next \in LeaseOver(Ops)
    <3> HIDE DEF late
    <3> QED BY <2>1, StartedType
  <2>3. FinalizerStep(n, next, seats, sock) /\ op' = OpPut(op, n, next)
    BY <1>11 DEF LeaseExpires
  <2> HIDE DEF next, r
  <2> QED BY <1>1, <1>3, <2>2, <2>3
<1> QED BY <1>7, <1>8, <1>9, <1>10, <1>11 DEF Finalizer

\* A join that gives up, or is rejected for good, may start the finalizer of its lease.
LEMMA EndsPatient ==
  ASSUME LInv, Base, Grown, TablesFine, NEW s \in Sockets, NEW au, GivesUp(s, au) \/ Rejected(s)
  PROVE  AllPatient
<1> DEFINE c == task[s].claim
           back == restoreClaimedLease(seats, c, lease[c])
           over == terminateLease(seats, c, lease[c])
<1>1. /\ lease \in [LeaseId -> Record(Asked)] /\ lease \in [LeaseId -> LeaseOver(Ops)]
      /\ Len(joins) \in 0..MaxJoins /\ Record(Asked) \subseteq LeaseOver(Ops) /\ AsWaiting(op)
  BY RecordTypes, WaitingAsIs DEF LInv, TInv, LeaseInv
<1>2. PICK r \in {back, over} :
        IF ~HoldsClaim(s) THEN UNCHANGED op
        ELSE lease' = LeasePut(lease, seats, c, r) /\ op' = OpPut(op, c, r)
  BY DEF GivesUp, Rejected, JoinEnds
<1>3. CASE ~HoldsClaim(s)
  BY <1>1, <1>2, <1>3, QuietPatient
<1>4. CASE HoldsClaim(s)
  <2>1. c \in LeaseId /\ lease[c].state # "none"
    BY <1>4, HeldThere
  <2> HIDE DEF c
  <2>2. lease[c] \in Record(Asked) /\ lease[c] \in LeaseOver(Ops)
    BY <1>1, <2>1
  <2>3. back \in LeaseOver(Ops)
    BY <1>1, <2>2, RestoreType
  <2>4. over \in Record(Ops)
    BY <1>1, <2>2, TerminateType
  <2>5. r \in LeaseOver(Ops)
    BY <2>3, <2>4 DEF Record
  <2> HIDE DEF back, over
  <2> QED BY <1>1, <1>2, <1>4, <2>1, <2>5, PutPatient
<1> QED BY <1>3, <1>4

\* So may a command that leaves what a dropped socket left behind.
LEMMA LeavePatient ==
  ASSUME LInv, Base, TablesFine, NEW s, NEW k \in Keys, NEW waiting, Leave(s, k, waiting)
  PROVE  AllPatient
<1> DEFINE l == leaseOf[k]
           c == terminalClaimRecord(lease[l], "left", <<>>)
           r == Started(seats, l, c)
<1>1. /\ lease \in [LeaseId -> LeaseOver(Ops)] /\ leaseOf \in [Keys -> 0..MaxJoins]
      /\ Len(joins) \in 0..MaxJoins /\ AsWaiting(op)
      /\ \A i \in 0..MaxJoins : i # 0 => i \in LeaseId
  BY RecordTypes, WaitingAsIs DEF LInv
<1>2. \/ UNCHANGED op
      \/ Replayed(k) /\ lease' = LeasePut(lease, seats, l, r) /\ op' = OpPut(op, l, r)
  BY DEF Leave
<1>3. CASE UNCHANGED op
  BY <1>1, <1>3, QuietPatient
<1>4. CASE Replayed(k) /\ lease' = LeasePut(lease, seats, l, r) /\ op' = OpPut(op, l, r)
  <2>1. l \in LeaseId /\ lease[l].state # "none"
    BY <1>1, <1>4 DEF Replayed, FailedStates
  <2>2. <<>> \in Seq(Ops) /\ "left" \in Reasons
    BY EmptySeq DEF Reasons
  <2> HIDE DEF l
  <2>3. c \in LeaseOver(Ops)
    <3>1. lease[l] \in LeaseOver(Ops)
      BY <1>1, <2>1
    <3> QED BY <1>1, <2>2, <3>1, ClaimedType
  <2> HIDE DEF c
  <2>4. r \in LeaseOver(Ops)
    BY <2>3, StartedType
  <2> HIDE DEF r
  <2> QED BY <1>1, <1>4, <2>1, <2>4, PutPatient
<1> QED BY <1>2, <1>3, <1>4

\* And a join that asks for the lease of its seat.
LEMMA ClaimPatient ==
  ASSUME LInv, Base, TablesFine, NEW s, NEW n, NEW k \in Keys, NEW attempt,
         Refused(s) \/ Claim(s, n, k, attempt)
  PROVE  AllPatient
<1> DEFINE l == leaseOf[k]
           r == IF l = 0 THEN NoLease ELSE lease[l]
           again == retryFailedLeaseFinalizer(seats, l, r)
<1>1. /\ lease \in [LeaseId -> LeaseOver(Ops)] /\ leaseOf \in [Keys -> 0..MaxJoins]
      /\ AsWaiting(op) /\ \A i \in 0..MaxJoins : i # 0 => i \in LeaseId
  BY RecordTypes, WaitingAsIs DEF LInv
<1>2. \/ UNCHANGED op
      \/ r.state \in FinalizingStates /\ WaitsFor(s, n, "finalizing", l, r)
      \/ r.state \in FailedStates /\ WaitsFor(s, n, "retrying", l, again)
  BY DEF Refused, Claim, Register
<1>3. r.state \in FinalizingStates \cup FailedStates
      => l \in LeaseId /\ r = lease[l] /\ r \in LeaseOver(Ops) /\ lease[l].state # "none"
  BY <1>1 DEF NoLease, FinalizingStates, FailedStates
<1> HIDE DEF l, r
<1>4. r \in LeaseOver(Ops) => again \in LeaseOver(Ops)
  BY RetryType DEF Record
<1> HIDE DEF again
<1>5. ASSUME NEW pc, NEW q \in LeaseOver(Ops), WaitsFor(s, n, pc, l, q),
             l \in LeaseId, lease[l].state # "none"
      PROVE  AllPatient
  <2>1. lease' = LeasePut(lease, seats, l, q) /\ op' = OpPut(op, l, q)
    BY <1>5 DEF WaitsFor
  <2> QED BY <1>1, <1>5, <2>1, PutPatient
<1>6. CASE UNCHANGED op
  BY <1>1, <1>6, QuietPatient
<1> QED BY <1>2, <1>3, <1>4, <1>5, <1>6

\* Every command of a socket.
LEMMA CommandPatient ==
  ASSUME LInv, Base, Grown, TablesFine, NEW s \in Sockets,
         Client(s) \/ JoinStep(s) \/ LeaveResumes(s)
  PROVE  AllPatient
<1>1. ASSUME UNCHANGED op PROVE AllPatient
  BY <1>1, WaitingAsIs, QuietPatient
<1>2. ASSUME NEW so, NEW au, TakeSeat(s, so, au) PROVE AllPatient
  <2>1. GivesUp(s, au) \/ UNCHANGED op
    BY <1>2 DEF TakeSeat
  <2> QED BY <1>1, <2>1, EndsPatient
<1>3. ASSUME NEW k \in Keys, JoinRequest(s, k) PROVE AllPatient
  BY <1>3, ClaimPatient DEF JoinRequest
<1>4. ASSUME NEW n \in JoinId, LeaveRequest(s, n) PROVE AllPatient
  <2>1. joins[n] \in Keys
    <3>1. Len(joins) \in Nat /\ joins \in Seq(Keys) /\ n <= Len(joins)
      BY <1>4 DEF LInv, TInv, JoinsInv, LeaveRequest
    <3>2. n \in 1..Len(joins)
      BY <3>1, ConstantsAssumption DEF JoinId
    <3> QED BY <3>1, <3>2, ElementOfSeq
  <2>2. UNCHANGED op \/ \E waiting : Leave(s, joins[n], waiting)
    BY <1>4 DEF LeaveRequest
  <2> QED BY <1>1, <2>1, <2>2, LeavePatient
<1>5. CASE SocketDies(s) \/ SocketCloses(s) \/ LeaveResumes(s)
  BY <1>1, <1>5 DEF SocketDies, SocketCloses, LeaveResumes
<1>6. CASE JoinResumes(s)
  <2>1. KeyOf(s) \in Keys
    BY <1>6, KeyOfType DEF JoinResumes, EarlyPcs, LInv
  <2>2. Refused(s) \/ \E attempt : Claim(s, task[s].n, KeyOf(s), attempt)
    BY <1>6 DEF JoinResumes
  <2> QED BY <2>1, <2>2, ClaimPatient
<1>7. CASE GetRoom(s) \/ FindRoomBan(s) \/ GetOrCreatePeerIdentity(s)
  <2>1. GivesUp(s, auth) \/ Rejected(s) \/ UNCHANGED op
    BY <1>7 DEF GetRoom, FindRoomBan, GetOrCreatePeerIdentity, Proceeds
  <2> QED BY <1>1, <2>1, EndsPatient
<1>8. CASE LoadServerMute(s)
  <2> DEFINE v == sock[s].voice
  <2>1. \/ Rejected(s) \/ GivesUp(s, auth)
        \/ v # 0 /\ \E waiting : Leave(s, joins[v], waiting)
        \/ \E so, au : TakeSeat(s, so, au)
    BY <1>8 DEF LoadServerMute
  <2>2. v # 0 => joins[v] \in Keys
    BY VoiceOfKeys DEF LInv
  <2> HIDE DEF v
  <2> QED BY <1>2, <2>1, <2>2, EndsPatient, LeavePatient
<1>9. CASE LeftOther(s)
  <2>1. GivesUp(s, auth) \/ \E so, au : TakeSeat(s, so, au)
    BY <1>9 DEF LeftOther
  <2> QED BY <1>2, <2>1, EndsPatient
<1>10. CASE OccupancyQueued(s) \/ FindLateBan(s) \/ BuildRoomSnapshot(s)
  <2>1. GivesUp(s, auth) \/ UNCHANGED op
    BY <1>10 DEF OccupancyQueued, FindLateBan, BuildRoomSnapshot, SupersededSeat, Proceeds
  <2> QED BY <1>1, <2>1, EndsPatient
<1> QED BY <1>3, <1>4, <1>5, <1>6, <1>7, <1>8, <1>9, <1>10 DEF Client, JoinStep

-----------------------------------------------------------------------------
(* Bans from the list. *)

\* Rooms do not come back, and bans stay.
Standing == live' \subseteq live /\ banned \subseteq banned'

\* Request o waits for the lease of seat j, or is still to end it.
Due(o, j) == op[o].pc = "wait" /\ (j \in op[o].todo \/ seats[j].t \in op[o].wait)

\* A ban is written first; then whoever of the account sits there over a socket is to
\* be looked at again, or the request gets to that seat.
Finds(o) ==
  \A j \in Occupants(op[o].key) : seats[j].conn # NoSocket => LooksAgain(j) \/ Due(o, j)
BanAt(o) ==
  KindOf(o) = "putban" =>
    /\ op[o].pc # "teardown" /\ (op[o].pc # "idle" => IsBanned(op[o].key))
    /\ op[o].pc \in {"wait", "done"} /\ ~op[o].err /\ op[o].key[1] \in live => Finds(o)

\* A join that is to look at the bans again can be told by its socket.
Aboard(j) == seats[j].t # 0 /\ seats[j].conn # NoSocket /\ LooksAgain(j) => Held(j)

BanInv == (\A o \in Ops : BanAt(o)) /\ \A j \in Keys : Aboard(j)

\* Only the deletion of a room changes the rooms there are, and only bans the bans.
LEMMA StandingStays == ASSUME [Next]_vars PROVE Standing
<1>1. CASE UNCHANGED vars
  BY <1>1 DEF vars, Standing
<1>2. ASSUME NEW s \in Sockets, Client(s) \/ JoinStep(s) \/ LeaveResumes(s) PROVE Standing
  <2>1. UNCHANGED <<live, banned>>
    BY <1>2 DEF Client, JoinStep, JoinRequest, LeaveRequest, SocketDies, SocketCloses,
                LeaveResumes, JoinResumes, GetRoom, FindRoomBan, GetOrCreatePeerIdentity,
                LoadServerMute, LeftOther, OccupancyQueued, FindLateBan, BuildRoomSnapshot
  <2> QED BY <2>1 DEF Standing
<1>3. ASSUME NEW n \in LeaseId, Finalizer(n) \/ Timer(n) PROVE Standing
  <2>1. ASSUME NEW m, NEW r, NEW st, NEW so, FinalizerStep(m, r, st, so) PROVE Standing
    BY <2>1 DEF FinalizerStep, Standing
  <2>2. CASE PrerequisiteDone(n)
    BY <2>1, <2>2 DEF PrerequisiteDone, Evicted
  <2>3. CASE CredentialsRevoked(n)
    BY <2>1, <2>3 DEF CredentialsRevoked, Evicted
  <2>4. CASE IdentityInvalidated(n) \/ ParticipantRemoved(n) \/ Timer(n)
    BY <2>1, <2>4 DEF IdentityInvalidated, ParticipantRemoved, Timer, LeaseExpires,
                      DeadlinePasses, TerminalForgotten, Standing
  <2> QED BY <1>3, <2>2, <2>3, <2>4 DEF Finalizer
<1>4. ASSUME NEW o \in Ops, Moderation(o) \/ RequestStep(o) PROVE Standing
  BY <1>4 DEF Moderation, RequestStep, Kick, Ban, PutBan, DeleteRoom,
              DisconnectAccountFromRoom, PersistBan, AfterBanCommitted, FinishRoomDeletion,
              RequestResumes, Standing
<1>5. ASSUME NEW r \in Rooms, PublishRoomEvent(r) PROVE Standing
  BY <1>5 DEF PublishRoomEvent, Standing
<1> QED BY <1>1, <1>2, <1>3, <1>4, <1>5 DEF Next

\* A peer that sits there over a socket sat there before and is not to be looked at
\* again, or is still to be looked at: the join of a banned one does not get past that.
LEMMA FoundStays ==
  ASSUME LInv, ReachStep, NEW k, IsBanned(k), NEW j \in Keys, SameUser(j, k), Aboard(j),
         seats'[j].t # 0, seats'[j].conn # NoSocket
  PROVE  LooksAgain(j)' \/ (seats'[j] = seats[j] /\ ~LooksAgain(j))
<1>1. SeatReach(j)
  BY DEF ReachStep
<1>2. CASE seats'[j] = seats[j] /\ LooksAgain(j)
  <2> DEFINE c == seats[j].conn
  <2>1. Held(j)
    BY <1>2 DEF Aboard
  <2>2. c \in Sockets /\ CommandReach(c)
    BY <2>1 DEF Held, ReachStep
  <2>3. task[c].pc \in LookPcs /\ task[c].n = seats[j].t
    BY <1>2 DEF LooksAgain
  <2>4. CASE LooksOn(c)
    BY <1>2, <2>3, <2>4 DEF LooksOn, LooksAgain
  <2>5. CASE LookedAgain(c)
    <3>1. ~IsBanned(j)
      BY <1>2, <2>1, <2>3, <2>5 DEF LookedAgain
    <3> QED BY <3>1 DEF IsBanned, SameUser
  <2> QED BY <2>2, <2>3, <2>4, <2>5 DEF CommandReach
<1> QED BY <1>1, <1>2 DEF SeatReach

\* The socket of a join that is to look at the bans again holds its seat until then.
LEMMA AboardStays ==
  ASSUME LInv, Base, ReachStep, NEW j \in Keys, Aboard(j)
  PROVE  Aboard(j)'
<1> SUFFICES ASSUME seats'[j].t # 0, seats'[j].conn # NoSocket, LooksAgain(j)'
             PROVE  Held(j)'
  BY DEF Aboard
<1>1. SeatReach(j)
  BY DEF ReachStep
<1>2. CASE seats'[j] = seats[j]
  <2> DEFINE c == seats[j].conn
  <2>1. c \in Sockets
    BY <1>2 DEF LInv, TInv, RosterInv, Seat
  <2>2. SocketReach(c) /\ CommandReach(c)
    BY <2>1 DEF ReachStep
  <2>3. task'[c].pc \in LookPcs /\ task'[c].n = seats[j].t
    BY <1>2 DEF LooksAgain
  <2>4. task'[c].n \notin Unserved
    BY <1>2, <2>3 DEF Base, SeatInv, Past
  <2>5. LooksOn(c)
    BY <2>2, <2>3, <2>4 DEF CommandReach
  <2>6. LooksAgain(j)
    BY <2>3, <2>5 DEF LooksOn, LooksAgain
  <2>7. sock[c].open # "closed" /\ sock[c].voice = seats[j].t
    BY <1>2, <2>6 DEF Aboard, Held
  <2>8. ~LetsGo(c)
    BY <1>2, <2>5, <2>7 DEF LetsGo, LooksOn
  <2> QED BY <1>2, <2>1, <2>2, <2>7, <2>8 DEF SocketReach, Held
<1> QED BY <1>1, <1>2 DEF SeatReach

\* A request that goes on waiting, or has ended, has found whom it has to find.
LEMMA PatientBans ==
  ASSUME LInv, Base', ReachStep, Standing, NEW o \in Ops, BanAt(o), Patient(o),
         \A j \in Keys : Aboard(j)
  PROVE  BanAt(o)'
<1> DEFINE k == op[o].key
<1>1. /\ KindOf(o)' = KindOf(o) /\ op'[o].pc = op[o].pc /\ op'[o].key = k
      /\ op'[o].todo = op[o].todo
  BY DEF Patient, KindOf
<1> SUFFICES ASSUME KindOf(o) = "putban" PROVE BanAt(o)'
  BY <1>1 DEF BanAt
<1>2. op'[o].pc # "teardown" /\ (op'[o].pc # "idle" => IsBanned(op[o].key)')
  BY <1>1 DEF BanAt, IsBanned, Standing
<1>3. ASSUME op'[o].pc \in {"wait", "done"}, ~op'[o].err, k[1] \in live'
      PROVE  Finds(o)'
  <2>1. Finds(o) /\ IsBanned(k)
    BY <1>1, <1>3 DEF BanAt, Patient, Standing
  <2> SUFFICES ASSUME NEW j \in Keys, seats'[j].t # 0, SameUser(j, k),
                      seats'[j].conn # NoSocket, ~LooksAgain(j)'
               PROVE  Due(o, j)'
    BY <1>1 DEF Finds, Occupants, Occupied
  <2>2. seats'[j] = seats[j] /\ ~LooksAgain(j)
    BY <2>1, FoundStays
  <2>3. Due(o, j)
    BY <2>1, <2>2 DEF Finds, Occupants, Occupied
  <2>4. ~GoneBy(seats[j].t)
    BY <2>2 DEF Base, SeatInv, GoneBy
  <2> QED BY <1>1, <1>3, <2>2, <2>3, <2>4 DEF Due, Patient, Answered
<1> QED BY <1>1, <1>2, <1>3 DEF BanAt

\* The lease of a seat that a request claims is finalized by then, or has failed, or
\* somebody waits for it to be: a finalizer that succeeds leaves no seat.
LEMMA ClaimedFirst ==
  ASSUME LInv, Base, Base', TablesFine, NEW o \in Ops, NEW reason \in Reasons,
         NEW ks \in SUBSET Keys, NEW k \in ks, UNCHANGED <<seats, joins>>, seats[k].t # 0,
         lease' = TerminalLeases(seats, ks, reason, <<o>>)
  PROVE  seats[k].t \in RecordsOf(seats, ks) /\ lease'[seats[k].t].fin \in {"run", "err"}
<1> DEFINE t == seats[k].t
           le == createReconnectLease(seats, ks)
           r == le[t]
<1>1. Past(t) /\ joins[t] = k
  BY DEF Base, SeatInv
<1>2. t \in LeaseId /\ t # 0
  BY <1>1, PastNumbers DEF LInv
<1>3. t \in RecordsOf(seats, ks)
  BY <1>2 DEF RecordsOf, RecordFor
<1>4. OpensFor(seats, ks) /\ <<o>> \in Seq(Ops)
  BY OpensHere
<1>5. r.state # "none" /\ Tame(r)
  BY <1>2, <1>3, <1>4, OpenedThere
<1>6. r \in LeaseOver(Ops) /\ Len(joins) \in 0..MaxJoins
  <2>1. lease \in [LeaseId -> Record(Asked)] /\ TInv
    BY DEF LInv, TInv, LeaseInv
  <2>2. le \in [LeaseId -> Record(Asked)]
    BY <2>1, CreateType
  <2> HIDE DEF le
  <2> QED BY <1>2, <2>1, <2>2, RecordTypes
<1>7. lease'[t] = Started(seats, t, terminalClaimRecord(r, reason, <<o>>))
  BY <1>2, <1>3 DEF TerminalLeases
<1> HIDE DEF r, le
<1>8. /\ lease'[t] \in LeaseOver(Ops) /\ lease'[t].fin # "none"
      /\ lease'[t].state \in FinalizingStates
  BY <1>4, <1>5, <1>6, <1>7, TerminalTame DEF TameStep
<1>9. lease'[t].fin # "ok"
  <2>1. ~Gone(t)'
    BY <1>1 DEF Gone
  <2>2. RecordAt(t)' /\ lease'[t].state # "none"
    BY <1>2, <1>8 DEF Base, FinalizingStates
  <2> QED BY <2>1, <2>2 DEF RecordAt, SaysGone
<1>10. lease'[t].fin \in {"none", "run", "ok", "err"}
  BY <1>8 DEF LeaseOver
<1> QED BY <1>3, <1>8, <1>9, <1>10

\* A ban that goes on keeps its peer.
LEMMA DisconnectKey ==
  ASSUME LInv, NEW o \in Ops, NEW todo \in SUBSET Keys, Disconnect(o, todo)
  PROVE  op'[o].key = op[o].key /\ op'[o].pc \in {"wait", "done"}
<1>1. op \in [Ops -> KnownRequest] /\ op[o] \in Request
  BY RequestKey DEF LInv, TInv, LeaseInv
<1>2. CASE todo = {}
  BY <1>1, <1>2 DEF Disconnect, Request
<1>3. CASE todo # {}
  <2>1. PICK k \in todo : ClaimSeats(o, [op[o] EXCEPT !.todo = todo \ {k}], {k})
    BY <1>3 DEF Disconnect
  <2> DEFINE p == [op[o] EXCEPT !.todo = todo \ {k}]
  <2>2. PICK wait, err : op' = [op EXCEPT ![o] = [p EXCEPT !.pc = "wait", !.wait = wait,
                                                           !.err = err]]
    BY <2>1 DEF ClaimSeats
  <2> QED BY <1>1, <2>2 DEF Request
<1> QED BY <1>2, <1>3

\* A ban that goes on to its next peer, or ends, has found whom it has to find.
LEMMA DisconnectFinds ==
  ASSUME LInv, Base, Base', TablesFine, NEW o \in Ops, NEW todo \in SUBSET Keys,
         Disconnect(o, todo), UNCHANGED <<seats, sock, task, joins, live, banned>>,
         op[o].pc # "idle", IsBanned(op[o].key),
         \A j \in Occupants(op[o].key) :
           seats[j].conn # NoSocket => LooksAgain(j) \/ j \in todo
  PROVE  BanAt(o)'
<1> DEFINE k == op[o].key
<1>1. op \in [Ops -> KnownRequest] /\ op[o] \in Request
  BY RequestKey DEF LInv, TInv, LeaseInv
<1>2. CASE todo = {}
  <2>1. op' = [op EXCEPT ![o].pc = "done", ![o].todo = {}]
    BY <1>2 DEF Disconnect
  <2>2. op'[o].pc = "done" /\ op'[o].key = k
    BY <1>1, <2>1 DEF Request
  <2>3. Finds(o)'
    BY <1>2, <2>2 DEF Finds, Occupants, Occupied, LooksAgain
  <2> QED BY <2>2, <2>3 DEF BanAt, IsBanned
<1>3. ASSUME NEW i \in todo, ClaimSeats(o, [op[o] EXCEPT !.todo = todo \ {i}], {i})
      PROVE  BanAt(o)'
  <2> DEFINE le == TerminalLeases(seats, {i}, KindOf(o), <<o>>)
             ns == RecordsOf(seats, {i})
             q == [[op[o] EXCEPT !.todo = todo \ {i}] EXCEPT !.pc = "wait",
                     !.wait = {n \in ns : le[n].fin = "run"},
                     !.err = \E n \in ns : le[n].fin = "err"]
  <2>1. op' = [op EXCEPT ![o] = q] /\ lease' = le
    BY <1>3 DEF ClaimSeats
  <2>2. /\ q.pc = "wait" /\ q.key = k /\ q.todo = todo \ {i}
        /\ q.wait = {n \in ns : le[n].fin = "run"}
        /\ q.err = \E n \in ns : le[n].fin = "err"
    <3> HIDE DEF le, ns
    <3> QED BY <1>1 DEF Request
  <2>3. op'[o] = q
    <3> HIDE DEF q
    <3> QED BY <1>1, <2>1
  <2>4. /\ op'[o].pc = "wait" /\ op'[o].key = k /\ op'[o].todo = todo \ {i}
        /\ op'[o].wait = {n \in ns : lease'[n].fin = "run"}
        /\ op'[o].err = \E n \in ns : lease'[n].fin = "err"
    <3> HIDE DEF q, le, ns
    <3> QED BY <2>1, <2>2, <2>3
  <2>5. KindOf(o) \in Reasons
    BY <1>1 DEF KindOf, Request, Reasons
  <2>6. ASSUME ~op'[o].err, NEW j \in Keys, seats[j].t # 0, SameUser(j, k),
               seats[j].conn # NoSocket, ~LooksAgain(j)
        PROVE  j \in op'[o].todo \/ seats[j].t \in op'[o].wait
    <3>1. j \in todo
      BY <2>6 DEF Occupants, Occupied
    <3>2. CASE j = i
      <4>1. seats[j].t \in ns /\ lease'[seats[j].t].fin \in {"run", "err"}
        <5> HIDE DEF le, q
        <5> QED BY <2>1, <2>5, <2>6, <3>2, ClaimedFirst DEF le
      <4> HIDE DEF le, ns, q
      <4> QED BY <2>4, <2>6, <4>1
    <3> QED BY <2>4, <3>1, <3>2
  <2>7. ~op'[o].err => Finds(o)'
    <3> HIDE DEF le, ns, q
    <3> QED BY <2>4, <2>6 DEF Finds, Occupants, Occupied, LooksAgain, Due
  <2> HIDE DEF le, ns, q
  <2> QED BY <2>4, <2>7 DEF BanAt, IsBanned
<1> QED BY <1>2, <1>3 DEF Disconnect

\* A step of a request leaves the others alone and does not make it one of another kind.
LEMMA RequestMoves ==
  ASSUME LInv, NEW o \in Ops, Moderation(o) \/ RequestStep(o)
  PROVE  (\A b \in Ops \ {o} : op'[b] = op[b]) /\ op'[o].kind = op[o].kind
<1> DEFINE Moved == (\A b \in Ops \ {o} : op'[b] = op[b]) /\ op'[o].kind = op[o].kind
<1>1. op \in [Ops -> KnownRequest] /\ op[o] \in Request
  BY RequestKey DEF LInv, TInv, LeaseInv
<1>2. ASSUME NEW q, op' = [op EXCEPT ![o] = q], q.kind = op[o].kind PROVE Moved
  BY <1>1, <1>2
<1>3. ASSUME NEW request \in Request, request.kind = op[o].kind, NEW ks,
             ClaimSeats(o, request, ks)
      PROVE  Moved
  <2>1. PICK wait, err : op' = [op EXCEPT ![o] = [request EXCEPT !.pc = "wait", !.wait = wait,
                                                                 !.err = err]]
    BY <1>3 DEF ClaimSeats
  <2> DEFINE q == [request EXCEPT !.pc = "wait", !.wait = wait, !.err = err]
  <2>2. q.kind = op[o].kind
    BY <1>3 DEF Request
  <2> HIDE DEF q, Moved
  <2> QED BY <1>2, <2>1, <2>2 DEF q
<1>4. ASSUME NEW todo \in SUBSET Keys, Disconnect(o, todo) PROVE Moved
  <2>1. CASE todo = {}
    <3>1. op' = [op EXCEPT ![o].pc = "done", ![o].todo = {}]
      BY <1>4, <2>1 DEF Disconnect
    <3> QED BY <1>1, <3>1 DEF Request
  <2>2. CASE todo # {}
    <3>1. PICK k \in todo : ClaimSeats(o, [op[o] EXCEPT !.todo = todo \ {k}], {k})
      BY <1>4, <2>2 DEF Disconnect
    <3>2. [op[o] EXCEPT !.todo = todo \ {k}] \in Request
          /\ [op[o] EXCEPT !.todo = todo \ {k}].kind = op[o].kind
      BY <1>1 DEF Request
    <3> HIDE DEF Moved
    <3> QED BY <1>3, <3>1, <3>2
  <2> QED BY <2>1, <2>2
<1>5. ASSUME NEW k \in Keys, Kick(o, k) \/ Ban(o, k) \/ DisconnectAccountFromRoom(o, k)
      PROVE  Moved
  <2> DEFINE p == [op[o] EXCEPT !.key = k]
             m == [op[o] EXCEPT !.key = k, !.todo = Occupants(k)]
  <2>1. \E q \in {p, m} : \E ks : ClaimSeats(o, q, ks)
    BY <1>5 DEF Kick, Ban, DisconnectAccountFromRoom
  <2>2. p \in Request /\ p.kind = op[o].kind /\ m \in Request /\ m.kind = op[o].kind
    BY <1>1, OccupantsType DEF Request
  <2> HIDE DEF p, m, Moved
  <2> QED BY <1>3, <2>1, <2>2
<1>6. ASSUME NEW k \in Keys, PutBan(o, k) PROVE Moved
  BY <1>1, <1>6 DEF PutBan, Request
<1>7. ASSUME NEW k \in Keys, DeleteRoom(o, k) PROVE Moved
  BY <1>1, <1>7 DEF DeleteRoom, Request
<1>8. CASE PersistBan(o)
  BY <1>1, <1>8 DEF PersistBan, Request
<1>9. CASE FinishRoomDeletion(o)
  <2>1. PICK wait : op' = [op EXCEPT ![o].pc = "wait", ![o].wait = wait]
    BY <1>9 DEF FinishRoomDeletion
  <2> QED BY <1>1, <2>1 DEF Request
<1>10. ASSUME AfterBanCommitted(o) PROVE Moved
  <2>1. Disconnect(o, Occupants(op[o].key)) \/ op' = [op EXCEPT ![o].pc = "done"]
    BY <1>10 DEF AfterBanCommitted
  <2>2. op' = [op EXCEPT ![o].pc = "done"] => Moved
    BY <1>1 DEF Request
  <2> HIDE DEF Moved
  <2> QED BY <1>4, <2>1, <2>2, OccupantsType
<1>11. ASSUME RequestResumes(o) PROVE Moved
  <2>1. Disconnect(o, op[o].todo) \/ op' = [op EXCEPT ![o].pc = "done", ![o].todo = {}]
    BY <1>11 DEF RequestResumes
  <2>2. op' = [op EXCEPT ![o].pc = "done", ![o].todo = {}] => Moved
    BY <1>1 DEF Request
  <2>3. op[o].todo \in SUBSET Keys
    BY <1>1 DEF Request
  <2> HIDE DEF Moved
  <2> QED BY <1>4, <2>1, <2>2, <2>3
<1> QED BY <1>5, <1>6, <1>7, <1>8, <1>9, <1>10, <1>11 DEF Moderation, RequestStep

\* Requests: the others wait on, and a ban from the list finds whom it has to find.
LEMMA RequestBans ==
  ASSUME LInv, Base, Base', TablesFine, ReachStep, Standing, BanInv,
         NEW o \in Ops, Moderation(o) \/ RequestStep(o), NEW b \in Ops
  PROVE  BanAt(b)'
<1> DEFINE k == op[o].key
<1>1. op \in [Ops -> KnownRequest] /\ op[o] \in Request
  BY RequestKey DEF LInv, TInv, LeaseInv
<1>2. CASE b # o
  <2>1. op'[b] = op[b]
    BY <1>2, RequestMoves
  <2>2. Patient(b)
    BY <2>1 DEF Patient
  <2> QED BY <2>2, PatientBans DEF BanInv
<1>3. CASE b = o /\ KindOf(o) # "putban"
  <2>1. KindOf(o)' # "putban"
    BY <1>3, RequestMoves DEF KindOf
  <2> QED BY <1>3, <2>1 DEF BanAt
<1>4. CASE b = o /\ KindOf(o) = "putban"
  <2>1. BanAt(o) /\ op[o].pc # "teardown"
    BY <1>4 DEF BanInv, BanAt
  <2>2. (\E i \in Keys : PutBan(o, i)) \/ AfterBanCommitted(o) \/ RequestResumes(o)
    BY <1>4, <2>1 DEF Moderation, RequestStep, Kick, Ban, DeleteRoom, Starts,
                      DisconnectAccountFromRoom, PersistBan, FinishRoomDeletion
  <2>3. ASSUME NEW i \in Keys, PutBan(o, i) PROVE BanAt(o)'
    <3>1. op'[o].pc = "roster" /\ op'[o].key = i
      BY <1>1, <2>3 DEF PutBan, Request
    <3>2. <<i[1], UserOf[i[2]]>> \in banned'
      BY <2>3 DEF PutBan
    <3> QED BY <3>1, <3>2 DEF BanAt, IsBanned
  <2>4. op[o].pc # "idle" => IsBanned(k)
    BY <1>4, <2>1 DEF BanAt
  <2>5. ASSUME AfterBanCommitted(o) PROVE BanAt(o)'
    <3>1. /\ UNCHANGED <<seats, sock, task, joins, live, banned>> /\ op[o].pc = "roster"
          /\ \/ Disconnect(o, Occupants(k))
             \/ k[1] \notin live /\ op' = [op EXCEPT ![o].pc = "done"]
      BY <2>5 DEF AfterBanCommitted
    <3>2. CASE Disconnect(o, Occupants(k))
      BY <2>4, <3>1, <3>2, DisconnectFinds, OccupantsType
    <3>3. CASE k[1] \notin live /\ op' = [op EXCEPT ![o].pc = "done"]
      <4>1. op'[o].pc = "done" /\ op'[o].key = k
        BY <1>1, <3>3 DEF Request
      <4> QED BY <2>4, <3>1, <3>3, <4>1 DEF BanAt, IsBanned
    <3> QED BY <3>1, <3>2, <3>3
  <2>6. ASSUME RequestResumes(o) PROVE BanAt(o)'
    <3>1. /\ UNCHANGED <<seats, task, joins, live, banned>>
          /\ op[o].pc = "wait" /\ op[o].wait = {}
          /\ \/ op[o].err /\ op' = [op EXCEPT ![o].pc = "done", ![o].todo = {}]
             \/ ~op[o].err /\ Disconnect(o, op[o].todo) /\ UNCHANGED sock
      BY <1>4, <2>6 DEF RequestResumes
    <3>2. CASE op[o].err /\ op' = [op EXCEPT ![o].pc = "done", ![o].todo = {}]
      <4>1. op'[o].pc = "done" /\ op'[o].key = k /\ op'[o].err
        BY <1>1, <3>2 DEF Request
      <4> QED BY <2>4, <3>1, <4>1 DEF BanAt, IsBanned
    <3>3. CASE ~op[o].err /\ Disconnect(o, op[o].todo) /\ UNCHANGED sock
      <4>1. k[1] \in live => Finds(o)
        BY <1>4, <2>1, <3>1, <3>3 DEF BanAt
      <4>2. op[o].todo \in SUBSET Keys
        BY <1>1 DEF Request
      <4>3. CASE k[1] \in live
        <5>1. \A j \in Occupants(k) :
                seats[j].conn # NoSocket => LooksAgain(j) \/ j \in op[o].todo
          BY <3>1, <4>1, <4>3 DEF Finds, Due
        <5> QED BY <2>4, <3>1, <3>3, <4>2, <5>1, DisconnectFinds
      <4>4. CASE k[1] \notin live
        <5>1. op'[o].key = k /\ op'[o].pc \in {"wait", "done"}
          BY <1>1, <3>3, <4>2, DisconnectKey
        <5> QED BY <2>4, <3>1, <4>4, <5>1 DEF BanAt, IsBanned
      <4> QED BY <4>3, <4>4
    <3> QED BY <3>1, <3>2, <3>3
  <2> QED BY <1>4, <2>2, <2>3, <2>5, <2>6
<1> QED BY <1>2, <1>3, <1>4

-----------------------------------------------------------------------------
(* The theorem about bans. *)

\* Every step keeps what is said of bans.
LEMMA BansStep ==
  ASSUME LInv, Base, Base', Grown, TablesFine, ReachStep, BanInv, [Next]_vars
  PROVE  BanInv'
<1>1. Standing
  BY StandingStays
<1>2. \A j \in Keys : Aboard(j)'
  BY AboardStays DEF BanInv
<1>3. AllPatient => \A o \in Ops : BanAt(o)'
  BY <1>1, PatientBans DEF AllPatient, BanInv
<1>4. UNCHANGED op => AllPatient
  BY WaitingAsIs, QuietPatient
<1>5. UNCHANGED vars => AllPatient
  BY <1>4 DEF vars
<1>6. ASSUME NEW s \in Sockets, Client(s) \/ JoinStep(s) \/ LeaveResumes(s) PROVE AllPatient
  BY <1>6, CommandPatient
<1>7. ASSUME NEW n \in LeaseId, Finalizer(n) \/ Timer(n) PROVE AllPatient
  <2>1. DeadlinePasses(n) \/ TerminalForgotten(n) => UNCHANGED op
    BY DEF DeadlinePasses, TerminalForgotten
  <2> QED BY <1>4, <1>7, <2>1, FinalizerPatient DEF Timer
<1>8. ASSUME NEW o \in Ops, Moderation(o) \/ RequestStep(o) PROVE \A b \in Ops : BanAt(b)'
  BY <1>1, <1>8, RequestBans
<1>9. ASSUME NEW r \in Rooms, PublishRoomEvent(r) PROVE AllPatient
  BY <1>4, <1>9 DEF PublishRoomEvent
<1>10. \A o \in Ops : BanAt(o)'
  BY <1>3, <1>5, <1>6, <1>7, <1>8, <1>9 DEF Next
<1> QED BY <1>2, <1>10 DEF BanInv

\* As long as no ban is refused and no eviction is about to detach the sockets of a
\* seat taken anew, a ban from the list that got through its evictions has found every
\* peer of the account: who took a seat after the roster was read is yet to look at the
\* bans again, and finds it.
THEOREM BansFindTheSeated == Spec /\ [](NoBanRefused /\ NoneReplaced) => []BanFindsTheSeated
<1>1. Init => InReach /\ BanInv
  <2>1. Vacant.t = 0 /\ Idle.pc \notin LeavePcs
    BY DEF Vacant, Idle, LeavePcs
  <2>2. Init => InReach
    BY <2>1 DEF Init, InReach, EverySeatCanEnd, Occupied, Departs
  <2>3. Init => \A j \in Keys : Aboard(j)
    BY <2>1 DEF Init, Aboard
  <2>4. Init => \A o \in Ops : op[o].pc = "idle"
    BY DEF Init, NewRequest
  <2>5. Init => \A o \in Ops : BanAt(o)
    BY <2>4 DEF BanAt
  <2> QED BY <2>2, <2>3, <2>5 DEF BanInv
<1>2. /\ LInv /\ Base /\ NoBanRefused /\ NoneReplaced /\ InReach /\ BanInv /\ [Next]_vars
      => (LInv /\ Base /\ InReach /\ BanInv)'
  <2> SUFFICES ASSUME LInv, Base, NoBanRefused, NoneReplaced, InReach, BanInv, [Next]_vars
               PROVE  (LInv /\ Base /\ InReach /\ BanInv)'
    OBVIOUS
  <2>1. LInv' /\ Base' /\ TablesFine
    BY BaseNext DEF SeatStep
  <2>2. Grown
    BY StepGrows DEF Base
  <2>3. JoinsKept
    BY LedgerSteps DEF JoinsKept
  <2>4. LeasesStay
    BY <2>1, <2>2, LeaseStays
  <2>5. ReachStep
    BY <2>4, StepsReach
  <2>6. InReach'
    BY <2>1, <2>3, <2>4, <2>5, ReachKept
  <2>7. BanInv'
    BY <2>1, <2>2, <2>5, BansStep
  <2> QED BY <2>1, <2>6, <2>7
<1>3. BanInv => BanFindsTheSeated
  <2> SUFFICES ASSUME BanInv, NEW o \in Ops, KindOf(o) = "putban", op[o].pc = "done",
                      ~op[o].err, op[o].key[1] \in live
               PROVE  Cleared(op[o].key)
    BY DEF BanFindsTheSeated
  <2>1. Finds(o)
    BY DEF BanInv, BanAt
  <2> QED BY <2>1 DEF Finds, Due, Cleared
<1> QED BY <1>1, <1>2, <1>3, BaseInit, PTL DEF Spec
=============================================================================
