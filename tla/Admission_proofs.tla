---------------------------- MODULE Admission_proofs ----------------------------
(*******************************************************************************)
(* What holds of admission for any number of devices, moderators, credentials, *)
(* revocations and faults.                                                     *)
(*******************************************************************************)
EXTENDS Admission, FiniteSetTheorems, TLAPS

-----------------------------------------------------------------------------
(* Types. *)

LEMMA SuffersType ==
  ASSUME TypeOK, NEW o \in Outcomes, Suffers(o)
  PROVE  faults' \in 0..MaxFaults
BY AdmissionAssumption DEF TypeOK, Suffers

LEMMA RevokedType ==
  ASSUME NEW c \in Cred
  PROVE  Revoked(c) \in Cred
BY DEF Revoked, Cred

\* What an admission request does to its own record.
LEMMA StepsType ==
  ASSUME TypeOK, NEW d \in Devices,
         \/ Ends(d)
         \/ \E pc \in AdmPcs : Goes(d, pc)
  PROVE  adm' \in [Devices -> Adm]
<1>1. CASE Ends(d)
  BY <1>1 DEF TypeOK, Ends, Idle, Adm, AdmPcs
<1>2. ASSUME NEW pc \in AdmPcs, Goes(d, pc) PROVE adm' \in [Devices -> Adm]
  BY <1>2 DEF TypeOK, Goes, Adm
<1> QED BY <1>1, <1>2

LEMMA IssueThrowsType ==
  ASSUME TypeOK, NEW d \in Devices, IssueThrows(d)
  PROVE  adm' \in [Devices -> Adm]
BY StepsType DEF IssueThrows, AdmPcs

LEMMA RevokePrincipalType ==
  ASSUME TypeOK, RevokePrincipal
  PROVE  epoch' \in Nat /\ cred' \in [Ids -> Cred] /\ mute' \in [row : BOOLEAN, cut : BOOLEAN]
<1>1. epoch' \in Nat
  BY DEF TypeOK, RevokePrincipal
<1>2. cred' \in [Ids -> Cred]
  BY RevokedType DEF TypeOK, RevokePrincipal
<1>3. mute' \in [row : BOOLEAN, cut : BOOLEAN]
  BY DEF TypeOK, RevokePrincipal
<1> QED BY <1>1, <1>2, <1>3

\* The revocation of one credential.
LEMMA RevokeOneType ==
  ASSUME TypeOK, NEW i, cred' = [cred EXCEPT ![i] = Revoked(@)]
  PROVE  cred' \in [Ids -> Cred]
BY RevokedType DEF TypeOK

LEMMA RequestTypes ==
  ASSUME TypeOK, NEW d \in Devices, AdmissionStep(d)
  PROVE  TypeOK'
<1>0. /\ epoch \in Nat /\ cred \in [Ids -> Cred] /\ mute \in [row : BOOLEAN, cut : BOOLEAN]
      /\ banned \in BOOLEAN /\ adm \in [Devices -> Adm] /\ adm[d] \in Adm
      /\ muting \in [Moderators -> BOOLEAN] /\ faults \in 0..MaxFaults
  BY DEF TypeOK
<1> SUFFICES /\ epoch' \in Nat /\ cred' \in [Ids -> Cred]
             /\ mute' \in [row : BOOLEAN, cut : BOOLEAN]
             /\ banned' \in BOOLEAN /\ adm' \in [Devices -> Adm]
             /\ muting' \in [Moderators -> BOOLEAN] /\ faults' \in 0..MaxFaults
  BY DEF TypeOK
<1>1. CASE Ask(d)
  BY <1>0, <1>1, StepsType DEF Ask, AdmPcs
<1>2. CASE Lookup(d)
  <2>1. PICK o \in {"done", "failed"} :
          /\ Suffers(o)
          /\ IF o = "done" THEN adm' = [adm EXCEPT ![d].pc = "epoch", ![d].muted = mute.row]
             ELSE Ends(d)
    BY <1>2 DEF Lookup
  <2>2. [adm[d] EXCEPT !.pc = "epoch", !.muted = mute.row] \in Adm
    BY <1>0 DEF Adm, AdmPcs
  <2>3. adm' \in [Devices -> Adm]
    BY <1>0, <2>1, <2>2, StepsType
  <2>4. faults' \in 0..MaxFaults
    BY <2>1, SuffersType DEF Outcomes
  <2> QED BY <1>0, <1>2, <2>3, <2>4 DEF Lookup
<1>3. CASE ReadEpoch(d)
  <2>1. PICK o \in {"done", "failed"} :
          /\ Suffers(o)
          /\ IF o = "done" THEN adm' = [adm EXCEPT ![d].pc = "store", ![d].epoch = epoch]
             ELSE IssueThrows(d)
    BY <1>3 DEF ReadEpoch
  <2>2. [adm[d] EXCEPT !.pc = "store", !.epoch = epoch] \in Adm
    BY <1>0 DEF Adm, AdmPcs
  <2>3. adm' \in [Devices -> Adm]
    BY <1>0, <2>1, <2>2, IssueThrowsType
  <2>4. faults' \in 0..MaxFaults
    BY <2>1, SuffersType DEF Outcomes
  <2> QED BY <1>0, <1>3, <2>3, <2>4 DEF ReadEpoch
<1>4. CASE Store(d)
  <2> DEFINE new == [state |-> "open", device |-> d, epoch |-> adm[d].epoch,
                     mic |-> ~adm[d].muted, again |-> adm[d].again, held |-> FALSE]
             then(i) == [adm[d] EXCEPT !.pc = IF adm[d].again THEN "ban" ELSE "recheck",
                                       !.epoch = 0, !.id = i]
  <2>1. new \in Cred
    BY <1>0 DEF Cred, Adm
  <2>2. ASSUME NEW i \in Ids PROVE then(i) \in Adm
    BY <1>0 DEF Adm, AdmPcs
  <2>3. \/ Ends(d) /\ UNCHANGED <<cred, faults>>
        \/ \E i \in Ids, o \in Outcomes :
             /\ Suffers(o)
             /\ cred' = IF o = "failed" THEN cred ELSE [cred EXCEPT ![i] = new]
             /\ IF o # "done" THEN IssueThrows(d) ELSE adm' = [adm EXCEPT ![d] = then(i)]
    BY <1>4 DEF Store
  <2>4. CASE Ends(d) /\ UNCHANGED <<cred, faults>>
    BY <1>0, <1>4, <2>4, StepsType DEF Store
  <2>5. ASSUME NEW i \in Ids, NEW o \in Outcomes, Suffers(o),
               cred' = IF o = "failed" THEN cred ELSE [cred EXCEPT ![i] = new],
               IF o # "done" THEN IssueThrows(d) ELSE adm' = [adm EXCEPT ![d] = then(i)]
        PROVE  cred' \in [Ids -> Cred] /\ adm' \in [Devices -> Adm] /\ faults' \in 0..MaxFaults
    <3>1. then(i) \in Adm
      BY <2>2
    <3> HIDE DEF new, then
    <3>2. cred' \in [Ids -> Cred]
      BY <1>0, <2>1, <2>5
    <3>3. adm' \in [Devices -> Adm]
      BY <1>0, <2>5, <3>1, IssueThrowsType
    <3> QED BY <2>5, <3>2, <3>3, SuffersType
  <2> QED BY <1>0, <1>4, <2>3, <2>4, <2>5 DEF Store
<1>5. CASE Recheck(d)
  <2>1. PICK o \in {"done", "failed"} :
          /\ Suffers(o)
          /\ IF o = "failed" THEN Goes(d, "cleanup")
             ELSE IF mute.row = adm[d].muted THEN Goes(d, "ban")
             ELSE adm' = [adm EXCEPT ![d].pc = "drop", ![d].muted = mute.row]
    BY <1>5 DEF Recheck
  <2>2. [adm[d] EXCEPT !.pc = "drop", !.muted = mute.row] \in Adm
    BY <1>0 DEF Adm, AdmPcs
  <2>3. adm' \in [Devices -> Adm]
    BY <1>0, <2>1, <2>2, StepsType DEF AdmPcs
  <2>4. faults' \in 0..MaxFaults
    BY <2>1, SuffersType DEF Outcomes
  <2> QED BY <1>0, <1>5, <2>3, <2>4 DEF Recheck
<1>6. CASE Drop(d)
  <2>1. PICK o \in Outcomes :
          /\ Suffers(o)
          /\ cred' = IF o = "failed" THEN cred ELSE [cred EXCEPT ![adm[d].id] = Revoked(@)]
          /\ adm' = [adm EXCEPT ![d].pc = IF o = "done" THEN "epoch" ELSE "cleanup",
                                ![d].again = TRUE]
    BY <1>6 DEF Drop
  <2>2. [adm[d] EXCEPT !.pc = IF o = "done" THEN "epoch" ELSE "cleanup", !.again = TRUE] \in Adm
    BY <1>0 DEF Adm, AdmPcs
  <2>3. adm' \in [Devices -> Adm]
    BY <1>0, <2>1, <2>2
  <2>4. cred' \in [Ids -> Cred]
    BY <1>0, <2>1, RevokeOneType
  <2>5. faults' \in 0..MaxFaults
    BY <2>1, SuffersType
  <2> QED BY <1>0, <1>6, <2>3, <2>4, <2>5 DEF Drop
<1>7. CASE BanLookup(d)
  <2>1. PICK o \in {"done", "failed"} :
          /\ Suffers(o)
          /\ IF o = "failed" THEN Ends(d)
             ELSE Goes(d, IF banned THEN "revokeAll" ELSE "persist")
    BY <1>7 DEF BanLookup
  <2>2. adm' \in [Devices -> Adm]
    BY <2>1, StepsType DEF AdmPcs
  <2>3. faults' \in 0..MaxFaults
    BY <2>1, SuffersType DEF Outcomes
  <2> QED BY <1>0, <1>7, <2>2, <2>3 DEF BanLookup
<1>8. CASE RevokeBanned(d)
  <2>1. PICK o \in Outcomes :
          /\ Suffers(o)
          /\ IF o = "failed" THEN UNCHANGED <<epoch, cred, mute>> ELSE RevokePrincipal
    BY <1>8 DEF RevokeBanned
  <2>2. adm' \in [Devices -> Adm]
    BY <1>8, StepsType DEF RevokeBanned
  <2>3. faults' \in 0..MaxFaults
    BY <2>1, SuffersType
  <2>4. epoch' \in Nat /\ cred' \in [Ids -> Cred] /\ mute' \in [row : BOOLEAN, cut : BOOLEAN]
    BY <1>0, <2>1, RevokePrincipalType
  <2> QED BY <1>0, <1>8, <2>2, <2>3, <2>4 DEF RevokeBanned
<1>9. CASE Persist(d)
  <2>1. PICK o \in {"done", "failed"} :
          /\ Suffers(o)
          /\ IF o = "done" /\ ~banned
             THEN Ends(d) /\ cred' = [cred EXCEPT ![adm[d].id].held = TRUE]
             ELSE Goes(d, "cleanup") /\ UNCHANGED cred
    BY <1>9 DEF Persist
  <2>2. adm' \in [Devices -> Adm]
    BY <2>1, StepsType DEF AdmPcs
  <2>3. faults' \in 0..MaxFaults
    BY <2>1, SuffersType DEF Outcomes
  <2>4. ASSUME NEW i \in Ids PROVE [cred[i] EXCEPT !.held = TRUE] \in Cred
    <3>1. cred[i] \in Cred
      BY <1>0
    <3> QED BY <3>1 DEF Cred
  <2>5. cred' \in [Ids -> Cred]
    BY <1>0, <2>1, <2>4
  <2> QED BY <1>0, <1>9, <2>2, <2>3, <2>5 DEF Persist
<1>10. CASE Cleanup(d)
  <2>1. PICK o \in Outcomes :
          /\ Suffers(o)
          /\ cred' = IF o = "failed" THEN cred ELSE [cred EXCEPT ![adm[d].id] = Revoked(@)]
    BY <1>10 DEF Cleanup
  <2>2. adm' \in [Devices -> Adm]
    BY <1>10, StepsType DEF Cleanup
  <2>3. cred' \in [Ids -> Cred]
    BY <1>0, <2>1, RevokeOneType
  <2>4. faults' \in 0..MaxFaults
    BY <2>1, SuffersType
  <2> QED BY <1>0, <1>10, <2>2, <2>3, <2>4 DEF Cleanup
<1> QED
  BY <1>1, <1>2, <1>3, <1>4, <1>5, <1>6, <1>7, <1>8, <1>9, <1>10 DEF AdmissionStep

LEMMA OtherTypes ==
  ASSUME TypeOK,
         \/ \E d \in Devices : EndSession(d)
         \/ \E m \in Moderators : Mute(m) \/ RevokeForMute(m)
         \/ Unmute \/ Ban \/ Unban \/ Evict
  PROVE  TypeOK'
<1>0. /\ epoch \in Nat /\ cred \in [Ids -> Cred] /\ mute \in [row : BOOLEAN, cut : BOOLEAN]
      /\ banned \in BOOLEAN /\ adm \in [Devices -> Adm]
      /\ muting \in [Moderators -> BOOLEAN] /\ faults \in 0..MaxFaults
  BY DEF TypeOK
<1>1. ASSUME NEW d \in Devices, EndSession(d) PROVE TypeOK'
  <2>1. cred' \in [Ids -> Cred]
    BY <1>0, <1>1, RevokedType DEF EndSession
  <2> QED BY <1>0, <1>1, <2>1 DEF EndSession, TypeOK
<1>2. ASSUME NEW m \in Moderators, Mute(m) PROVE TypeOK'
  <2>1. PICK o \in Outcomes :
          /\ Suffers(o)
          /\ mute' = IF o = "failed" THEN mute ELSE [mute EXCEPT !.row = TRUE]
          /\ muting' = [muting EXCEPT ![m] = o = "done"]
    BY <1>2 DEF Mute
  <2>2. faults' \in 0..MaxFaults
    BY <2>1, SuffersType
  <2>3. mute' \in [row : BOOLEAN, cut : BOOLEAN] /\ muting' \in [Moderators -> BOOLEAN]
    BY <1>0, <2>1
  <2> QED BY <1>0, <1>2, <2>2, <2>3 DEF Mute, TypeOK
<1>3. ASSUME NEW m \in Moderators, RevokeForMute(m) PROVE TypeOK'
  <2>1. PICK o \in Outcomes :
          /\ Suffers(o)
          /\ IF o = "failed" THEN UNCHANGED <<epoch, cred, mute>> ELSE RevokePrincipal
    BY <1>3 DEF RevokeForMute
  <2>2. faults' \in 0..MaxFaults
    BY <2>1, SuffersType
  <2>3. epoch' \in Nat /\ cred' \in [Ids -> Cred] /\ mute' \in [row : BOOLEAN, cut : BOOLEAN]
    BY <1>0, <2>1, RevokePrincipalType
  <2>4. muting' \in [Moderators -> BOOLEAN]
    BY <1>0, <1>3 DEF RevokeForMute
  <2> QED BY <1>0, <1>3, <2>2, <2>3, <2>4 DEF RevokeForMute, TypeOK
<1>4. CASE Unmute
  BY <1>0, <1>4 DEF Unmute, TypeOK
<1>5. CASE Ban
  <2>1. epoch' \in Nat /\ cred' \in [Ids -> Cred] /\ mute' \in [row : BOOLEAN, cut : BOOLEAN]
    BY <1>5, RevokePrincipalType DEF Ban
  <2> QED BY <1>0, <1>5, <2>1 DEF Ban, TypeOK
<1>6. CASE Unban
  BY <1>0, <1>6 DEF Unban, TypeOK
<1>7. CASE Evict
  <2>1. epoch' \in Nat /\ cred' \in [Ids -> Cred] /\ mute' \in [row : BOOLEAN, cut : BOOLEAN]
    BY <1>7, RevokePrincipalType DEF Evict
  <2> QED BY <1>0, <1>7, <2>1 DEF Evict, TypeOK
<1> QED BY <1>1, <1>2, <1>3, <1>4, <1>5, <1>6, <1>7

\* Every variable stays in its type.
THEOREM AdmissionTypes == Spec => []TypeOK
<1>1. Init => TypeOK
  <2>1. NoCred \in Cred /\ Idle \in Adm
    BY DEF NoCred, Cred, Idle, Adm, AdmPcs
  <2>2. 0 \in Nat /\ 0 \in 0..MaxFaults
    BY AdmissionAssumption
  <2> SUFFICES ASSUME Init PROVE TypeOK
    OBVIOUS
  <2>3. cred \in [Ids -> Cred] /\ adm \in [Devices -> Adm] /\ muting \in [Moderators -> BOOLEAN]
    BY <2>1 DEF Init
  <2>4. mute \in [row : BOOLEAN, cut : BOOLEAN] /\ banned \in BOOLEAN
    BY DEF Init
  <2> QED BY <2>2, <2>3, <2>4 DEF Init, TypeOK
<1>2. TypeOK /\ [Next]_admissionVars => TypeOK'
  <2>1. CASE UNCHANGED admissionVars
    BY <2>1 DEF admissionVars, TypeOK
  <2>2. CASE Next
    BY <2>2, RequestTypes, OtherTypes DEF Next
  <2> QED BY <2>1, <2>2
<1> QED BY <1>1, <1>2, PTL DEF Spec

-----------------------------------------------------------------------------
(* Bans and mutes.  Four kinds of steps: those that leave the credentials alone, *)
(* those that revoke, the issue of a credential and its handing over.           *)

\* The steps of an admission that move nothing but the request itself.
Looks(d) == Ask(d) \/ Lookup(d) \/ ReadEpoch(d) \/ Recheck(d) \/ BanLookup(d)

\* What a revocation of single credentials does to each.
OnlyRevokes == \A i \in Ids : cred'[i] \in {cred[i], Revoked(cred[i])}

LEMMA RevokeOne ==
  ASSUME TypeOK, NEW d \in Devices, Drop(d) \/ Cleanup(d) \/ EndSession(d)
  PROVE  OnlyRevokes /\ UNCHANGED <<epoch, mute, banned>>
<1>0. cred \in [Ids -> Cred]
  BY DEF TypeOK
<1>1. CASE Drop(d)
  BY <1>0, <1>1 DEF Drop, OnlyRevokes
<1>2. CASE Cleanup(d)
  BY <1>0, <1>2 DEF Cleanup, OnlyRevokes
<1>3. CASE EndSession(d)
  BY <1>0, <1>3 DEF EndSession, OnlyRevokes
<1> QED BY <1>1, <1>2, <1>3

\* A credential that verifies after a revocation is what it was before.
LEMMA SurvivorIsSame ==
  ASSUME OnlyRevokes, UNCHANGED epoch, NEW i \in Ids, Verifies(i)'
  PROVE  cred'[i] = cred[i] /\ Verifies(i)
<1>1. Revoked(cred[i]).state = "open" => Revoked(cred[i]) = cred[i]
  BY DEF Revoked
<1> QED BY <1>1 DEF OnlyRevokes, Verifies

\* After a revocation of the account nothing verifies.
LEMMA NoneSurvives ==
  ASSUME TypeOK, RevokePrincipal, NEW i \in Ids
  PROVE  ~Verifies(i)'
<1>1. cred'[i] = Revoked(cred[i])
  BY DEF RevokePrincipal
<1>2. cred[i] \in Cred
  BY DEF TypeOK
<1>3. Revoked(cred[i]).state # "open"
  BY <1>2 DEF Revoked, Cred
<1> QED BY <1>1, <1>3 DEF Verifies

\* The account is revoked, or the call that should have done it failed.
RevokesOrNot == RevokePrincipal \/ UNCHANGED <<epoch, cred, mute>>

LEMMA RevokeAll ==
  ASSUME \/ \E d \in Devices : RevokeBanned(d)
         \/ \E m \in Moderators : RevokeForMute(m)
         \/ Evict
  PROVE  RevokesOrNot /\ UNCHANGED banned
BY DEF RevokeBanned, RevokeForMute, Evict, RevokesOrNot

\* An issue adds one credential that nobody holds.
LEMMA Issue ==
  ASSUME TypeOK, NEW d \in Devices, Store(d)
  PROVE  \/ UNCHANGED cred
         \/ \E i \in Ids :
              /\ cred[i].state = "none"
              /\ ~cred'[i].held
              /\ \A j \in Ids \ {i} : cred'[j] = cred[j]
<1>0. cred \in [Ids -> Cred]
  BY DEF TypeOK
<1> DEFINE new == [state |-> "open", device |-> d, epoch |-> adm[d].epoch,
                   mic |-> ~adm[d].muted, again |-> adm[d].again, held |-> FALSE]
<1>1. ~new.held
  OBVIOUS
<1>2. UNCHANGED cred \/ \E i \in Ids : cred[i].state = "none" /\ cred' = [cred EXCEPT ![i] = new]
  BY DEF Store
<1> HIDE DEF new
<1> QED BY <1>0, <1>1, <1>2

\* A banned account holds no credential that verifies, whatever the order of the
\* calls of its admissions and of the ban.
THEOREM BannedStayOut == Spec => []BannedHoldsNothing
<1>1. Init => BannedHoldsNothing
  BY DEF Init, BannedHoldsNothing
<1>2. TypeOK /\ BannedHoldsNothing /\ [Next]_admissionVars => BannedHoldsNothing'
  <2> SUFFICES ASSUME TypeOK, BannedHoldsNothing, [Next]_admissionVars, banned',
                      NEW i \in Ids, Usable(i)'
               PROVE  FALSE
    BY DEF BannedHoldsNothing
  <2>0. /\ cred'[i].held /\ Verifies(i)'
        /\ banned => ~Usable(i)
    BY DEF Usable, BannedHoldsNothing
  <2>s. cred'[i] = cred[i] /\ UNCHANGED <<epoch, banned>> => FALSE
    BY <2>0 DEF Usable, Verifies
  <2>1. CASE UNCHANGED admissionVars
    BY <2>1, <2>s DEF admissionVars
  <2>2. ASSUME NEW d \in Devices, Looks(d) PROVE FALSE
    BY <2>2, <2>s DEF Looks, Ask, Lookup, ReadEpoch, Recheck, BanLookup
  <2>3. ASSUME NEW d \in Devices, Drop(d) \/ Cleanup(d) \/ EndSession(d) PROVE FALSE
    BY <2>0, <2>3, <2>s, RevokeOne, SurvivorIsSame
  <2>4. ASSUME \/ \E d \in Devices : RevokeBanned(d)
               \/ \E m \in Moderators : RevokeForMute(m)
               \/ Evict
        PROVE  FALSE
    BY <2>0, <2>4, <2>s, RevokeAll, NoneSurvives DEF RevokesOrNot
  <2>5. ASSUME NEW d \in Devices, Store(d) PROVE FALSE
    <3>1. UNCHANGED <<epoch, banned>>
      BY <2>5 DEF Store
    <3> QED BY <2>0, <2>5, <2>s, <3>1, Issue
  <2>6. ASSUME NEW d \in Devices, Persist(d) PROVE FALSE
    <3>1. (~banned /\ UNCHANGED <<epoch, banned>>) \/ UNCHANGED <<cred, epoch, banned>>
      BY <2>6 DEF Persist
    <3> QED BY <2>s, <3>1
  <2>7. CASE Ban
    BY <2>0, <2>7, NoneSurvives DEF Ban
  <2>8. CASE \/ \E m \in Moderators : Mute(m)
             \/ Unmute \/ Unban
    BY <2>8, <2>s DEF Mute, Unmute, Unban
  <2> QED
    BY <2>1, <2>2, <2>3, <2>4, <2>5, <2>6, <2>7, <2>8 DEF Next, AdmissionStep, Looks
<1> QED BY <1>1, <1>2, AdmissionTypes, PTL DEF Spec

\* Why a mute holds: a credential with the microphone that verifies after the
\* revocation was issued by a request that read the old answer, and that request
\* has yet to look again.
CutHasRow == mute.cut => mute.row
HandedIsStored == \A d \in Devices : adm[d].id \in Ids => cred[adm[d].id].state # "none"
RecheckKnows ==
  \A d \in Devices : adm[d].pc = "recheck" =>
    adm[d].id \in Ids /\ cred[adm[d].id].mic = ~adm[d].muted
Exposed(i) == Verifies(i) /\ cred[i].mic /\ ~cred[i].again
NoMicrophonePasses ==
  mute.cut => \A i \in Ids : Exposed(i) =>
    /\ ~cred[i].held
    /\ \A d \in Devices : adm[d].id = i => adm[d].pc \notin {"ban", "persist"}
MuteInv == CutHasRow /\ HandedIsStored /\ RecheckKnows /\ NoMicrophonePasses

LEMMA EndsShape ==
  ASSUME TypeOK, NEW d \in Devices, Ends(d)
  PROVE  /\ adm'[d].pc = "idle" /\ adm'[d].id = NoId
         /\ \A e \in Devices : e # d => adm'[e] = adm[e]
BY DEF TypeOK, Ends, Idle

LEMMA GoesShape ==
  ASSUME TypeOK, NEW d \in Devices, NEW pc, Goes(d, pc)
  PROVE  /\ adm'[d].pc = pc /\ adm'[d].id = adm[d].id
         /\ \A e \in Devices : e # d => adm'[e] = adm[e]
<1>1. adm[d] \in Adm /\ adm \in [Devices -> Adm]
  BY DEF TypeOK
<1> QED BY <1>1 DEF Goes, Adm

\* While the row stands, a request in front of the bans or of the end leaves its
\* credential as it is or has just found the mute to be as it was.
LEMMA LooksKeepMute ==
  ASSUME TypeOK, MuteInv, NEW e \in Devices, Looks(e)
  PROVE  MuteInv'
<1>0. /\ adm \in [Devices -> Adm] /\ adm' \in [Devices -> Adm] /\ UNCHANGED <<epoch, cred, mute>>
  BY RequestTypes DEF TypeOK, Looks, Ask, Lookup, ReadEpoch, Recheck, BanLookup, AdmissionStep
<1>t. adm[e] \in Adm
  BY <1>0
<1> DEFINE Calm ==
      /\ \A d \in Devices : d # e => adm'[d] = adm[d]
      /\ adm'[e].id \in {adm[e].id, NoId}
      /\ adm'[e].pc # "recheck"
      /\ adm'[e].pc \in {"ban", "persist"} =>
           /\ adm'[e].id = adm[e].id
           /\ \/ adm[e].pc = "ban"
              \/ adm[e].pc = "recheck" /\ mute.row = adm[e].muted
<1>e. Ends(e) => Calm
  BY <1>0, EndsShape
<1>g. ASSUME NEW pc \in {"lookup", "revokeAll", "cleanup"}, Goes(e, pc) PROVE Calm
  BY <1>0, <1>g, GoesShape
<1>i. IssueThrows(e) => Calm
  BY <1>e, <1>g DEF IssueThrows
<1>1. Calm
  <2>1. CASE Ask(e)
    BY <1>g, <2>1 DEF Ask
  <2>2. CASE Lookup(e)
    <3>1. CASE adm' = [adm EXCEPT ![e].pc = "epoch", ![e].muted = mute.row]
      BY <1>0, <1>t, <3>1 DEF Adm
    <3> QED BY <1>e, <2>2, <3>1 DEF Lookup
  <2>3. CASE ReadEpoch(e)
    <3>1. CASE adm' = [adm EXCEPT ![e].pc = "store", ![e].epoch = epoch]
      BY <1>0, <1>t, <3>1 DEF Adm
    <3> QED BY <1>i, <2>3, <3>1 DEF ReadEpoch
  <2>4. CASE Recheck(e)
    <3>1. CASE adm' = [adm EXCEPT ![e].pc = "drop", ![e].muted = mute.row]
      BY <1>0, <1>t, <3>1 DEF Adm
    <3>2. CASE adm[e].pc = "recheck" /\ mute.row = adm[e].muted /\ Goes(e, "ban")
      BY <1>0, <3>2, GoesShape
    <3> HIDE DEF Calm
    <3> QED BY <1>g, <2>4, <3>1, <3>2 DEF Recheck
  <2>5. CASE BanLookup(e)
    <3>1. CASE adm[e].pc = "ban" /\ Goes(e, "persist")
      BY <1>0, <3>1, GoesShape
    <3> HIDE DEF Calm
    <3> QED BY <1>e, <1>g, <2>5, <3>1 DEF BanLookup
  <2> QED BY <2>1, <2>2, <2>3, <2>4, <2>5 DEF Looks
<1>5. CutHasRow'
  BY <1>0 DEF MuteInv, CutHasRow
<1>6. HandedIsStored'
  BY <1>0, <1>1, AdmissionAssumption DEF MuteInv, HandedIsStored
<1>7. RecheckKnows'
  BY <1>0, <1>1 DEF MuteInv, RecheckKnows
<1>8. NoMicrophonePasses'
  <2> SUFFICES ASSUME mute.cut, NEW i \in Ids, Exposed(i)
               PROVE  /\ ~cred[i].held
                      /\ \A d \in Devices : adm'[d].id = i => adm'[d].pc \notin {"ban", "persist"}
    BY <1>0 DEF NoMicrophonePasses, Exposed, Verifies
  <2>1. /\ ~cred[i].held
        /\ \A d \in Devices : adm[d].id = i => adm[d].pc \notin {"ban", "persist"}
    BY DEF MuteInv, NoMicrophonePasses
  <2>2. mute.row /\ cred[i].mic
    BY DEF MuteInv, CutHasRow, Exposed
  <2>3. ~(adm[e].id = i /\ adm[e].pc = "recheck" /\ mute.row = adm[e].muted)
    BY <2>2 DEF MuteInv, RecheckKnows
  <2> QED BY <1>1, <2>1, <2>3
<1> QED BY <1>5, <1>6, <1>7, <1>8 DEF MuteInv

\* Nothing moves but the credentials, some of which are revoked, and the requests,
\* none of which comes to a point after its check.
LEMMA RevokingKeepsMute ==
  ASSUME TypeOK, MuteInv, OnlyRevokes, UNCHANGED <<epoch, mute>>,
         \A d \in Devices : \/ adm'[d] = adm[d]
                            \/ /\ adm'[d].pc \notin {"recheck", "ban", "persist"}
                               /\ adm'[d].id \in {adm[d].id, NoId}
  PROVE  MuteInv'
<1>1. \A i \in Ids : /\ cred'[i].mic = cred[i].mic
                     /\ cred[i].state # "none" => cred'[i].state # "none"
  <2> SUFFICES ASSUME NEW i \in Ids
               PROVE  /\ cred'[i].mic = cred[i].mic
                      /\ cred[i].state # "none" => cred'[i].state # "none"
    OBVIOUS
  <2>1. cred[i] \in Cred
    BY DEF TypeOK
  <2>2. Revoked(cred[i]).mic = cred[i].mic /\ (cred[i].state # "none" => Revoked(cred[i]).state # "none")
    BY <2>1 DEF Revoked, Cred
  <2> QED BY <2>2 DEF OnlyRevokes
<1>2. CutHasRow' /\ HandedIsStored' /\ RecheckKnows'
  BY <1>1, AdmissionAssumption DEF MuteInv, CutHasRow, HandedIsStored, RecheckKnows
<1>3. NoMicrophonePasses'
  BY SurvivorIsSame, AdmissionAssumption DEF MuteInv, NoMicrophonePasses, Exposed
<1> QED BY <1>2, <1>3 DEF MuteInv

\* The account is revoked: nothing verifies.
LEMMA RevokeAllKeepsMute ==
  ASSUME TypeOK, MuteInv, RevokePrincipal,
         \A d \in Devices : adm'[d] = adm[d] \/ adm'[d] = Idle
  PROVE  MuteInv'
<1>1. \A i \in Ids : /\ cred'[i].mic = cred[i].mic
                     /\ cred[i].state # "none" => cred'[i].state # "none"
  <2> SUFFICES ASSUME NEW i \in Ids
               PROVE  /\ cred'[i].mic = cred[i].mic
                      /\ cred[i].state # "none" => cred'[i].state # "none"
    OBVIOUS
  <2>1. cred[i] \in Cred /\ cred'[i] = Revoked(cred[i])
    BY DEF TypeOK, RevokePrincipal
  <2> QED BY <2>1 DEF Revoked, Cred
<1>2. HandedIsStored' /\ RecheckKnows'
  BY <1>1, AdmissionAssumption DEF MuteInv, HandedIsStored, RecheckKnows, Idle
<1>3. CutHasRow'
  BY DEF RevokePrincipal, TypeOK, CutHasRow
<1>4. NoMicrophonePasses'
  BY NoneSurvives DEF NoMicrophonePasses, Exposed
<1> QED BY <1>2, <1>3, <1>4 DEF MuteInv

\* The new credential is nobody's, and its request goes on to look again, unless it
\* was issued in place of another.
LEMMA StoreKeepsMute ==
  ASSUME TypeOK, MuteInv, NEW e \in Devices, Store(e)
  PROVE  MuteInv'
<1> DEFINE new == [state |-> "open", device |-> e, epoch |-> adm[e].epoch,
                   mic |-> ~adm[e].muted, again |-> adm[e].again, held |-> FALSE]
           then(i) == [adm[e] EXCEPT !.pc = IF adm[e].again THEN "ban" ELSE "recheck",
                                     !.epoch = 0, !.id = i]
<1>0. /\ adm \in [Devices -> Adm] /\ adm[e] \in Adm /\ cred \in [Ids -> Cred]
      /\ UNCHANGED <<epoch, mute>>
  BY DEF TypeOK, Store
<1>1. CutHasRow'
  BY <1>0 DEF MuteInv, CutHasRow
<1>2. \/ Ends(e) /\ UNCHANGED cred
      \/ \E i \in Ids, o \in Outcomes :
           /\ cred[i].state = "none"
           /\ cred' = IF o = "failed" THEN cred ELSE [cred EXCEPT ![i] = new]
           /\ IF o # "done" THEN IssueThrows(e) ELSE adm' = [adm EXCEPT ![e] = then(i)]
  BY DEF Store
<1>3. new.state = "open" /\ ~new.held /\ new.mic = ~adm[e].muted /\ new.again = adm[e].again
  OBVIOUS
<1>4. \A i \in Ids : /\ then(i).id = i /\ then(i).muted = adm[e].muted
                     /\ then(i).pc = IF adm[e].again THEN "ban" ELSE "recheck"
  BY <1>0 DEF Adm
<1> HIDE DEF new, then
<1>5. ASSUME \A d \in Devices : \/ adm'[d] = adm[d]
                                \/ /\ adm'[d].pc \notin {"recheck", "ban", "persist"}
                                   /\ adm'[d].id \in {adm[d].id, NoId},
             \/ UNCHANGED cred
             \/ \E i \in Ids : cred[i].state = "none" /\ cred' = [cred EXCEPT ![i] = new]
      PROVE  HandedIsStored' /\ RecheckKnows' /\ NoMicrophonePasses'
  <2>1. CASE UNCHANGED cred
    BY <1>0, <1>5, <2>1, AdmissionAssumption
    DEF MuteInv, HandedIsStored, RecheckKnows, NoMicrophonePasses, Exposed, Verifies
  <2>2. ASSUME NEW i \in Ids, cred[i].state = "none", cred' = [cred EXCEPT ![i] = new]
        PROVE  HandedIsStored' /\ RecheckKnows' /\ NoMicrophonePasses'
    <3>1. cred'[i] = new /\ \A j \in Ids : j # i => cred'[j] = cred[j]
      BY <1>0, <2>2
    <3>2. \A d \in Devices : adm[d].id # i /\ adm'[d].id # i
      BY <1>5, <2>2, AdmissionAssumption DEF MuteInv, HandedIsStored
    <3>3. HandedIsStored' /\ RecheckKnows'
      BY <1>5, <3>1, <3>2, AdmissionAssumption DEF MuteInv, HandedIsStored, RecheckKnows
    <3>4. NoMicrophonePasses'
      BY <1>0, <1>3, <1>5, <3>1, <3>2, AdmissionAssumption
      DEF MuteInv, NoMicrophonePasses, Exposed, Verifies
    <3> QED BY <3>3, <3>4
  <2> QED BY <1>5, <2>1, <2>2
<1>6. ASSUME NEW i \in Ids, cred[i].state = "none", cred' = [cred EXCEPT ![i] = new],
             adm' = [adm EXCEPT ![e] = then(i)]
      PROVE  HandedIsStored' /\ RecheckKnows' /\ NoMicrophonePasses'
  <2>1. cred'[i] = new /\ \A j \in Ids : j # i => cred'[j] = cred[j]
    BY <1>0, <1>6
  <2>2. adm'[e] = then(i) /\ \A d \in Devices : d # e => adm'[d] = adm[d]
    BY <1>0, <1>6
  <2>3. \A d \in Devices : adm[d].id # i
    BY <1>6 DEF MuteInv, HandedIsStored
  <2>4. HandedIsStored'
    BY <1>3, <1>4, <2>1, <2>2, <2>3 DEF MuteInv, HandedIsStored
  <2>5. RecheckKnows'
    BY <1>3, <1>4, <2>1, <2>2, <2>3 DEF MuteInv, RecheckKnows
  <2>6. NoMicrophonePasses'
    <3> SUFFICES ASSUME mute.cut, NEW j \in Ids, Exposed(j)'
                 PROVE  /\ ~cred'[j].held
                        /\ \A d \in Devices : adm'[d].id = j => adm'[d].pc \notin {"ban", "persist"}
      BY <1>0 DEF NoMicrophonePasses
    <3>1. CASE j = i
      BY <1>3, <1>4, <2>1, <2>2, <2>3, <3>1 DEF Exposed
    <3>2. CASE j # i
      <4>1. Exposed(j)
        BY <1>0, <2>1, <3>2 DEF Exposed, Verifies
      <4> QED BY <1>4, <2>1, <2>2, <3>2, <4>1 DEF MuteInv, NoMicrophonePasses
    <3> QED BY <3>1, <3>2
  <2> QED BY <2>4, <2>5, <2>6
<1>7. Ends(e) \/ IssueThrows(e) =>
        \A d \in Devices : \/ adm'[d] = adm[d]
                           \/ /\ adm'[d].pc \notin {"recheck", "ban", "persist"}
                              /\ adm'[d].id \in {adm[d].id, NoId}
  BY <1>0 DEF Ends, IssueThrows, Goes, Idle, Adm
<1> QED BY <1>1, <1>2, <1>5, <1>6, <1>7 DEF MuteInv, Outcomes

LEMMA PersistKeepsMute ==
  ASSUME TypeOK, MuteInv, NEW e \in Devices, Persist(e)
  PROVE  MuteInv'
<1>0. /\ adm \in [Devices -> Adm] /\ adm[e] \in Adm /\ cred \in [Ids -> Cred]
      /\ UNCHANGED <<epoch, mute>> /\ adm[e].pc = "persist"
  BY DEF TypeOK, Persist
<1>1. \A d \in Devices : \/ adm'[d] = adm[d]
                         \/ /\ adm'[d].pc \notin {"recheck", "ban", "persist"}
                            /\ adm'[d].id \in {adm[d].id, NoId}
  BY <1>0 DEF Persist, Ends, Goes, Idle, Adm
<1>2. \A i \in Ids : \/ cred'[i] = cred[i]
                     \/ adm[e].id = i /\ cred'[i] = [cred[i] EXCEPT !.held = TRUE]
  BY <1>0 DEF Persist
<1>3. \A i \in Ids : /\ cred'[i].mic = cred[i].mic /\ cred'[i].state = cred[i].state
                     /\ cred'[i].again = cred[i].again /\ cred'[i].epoch = cred[i].epoch
                     /\ cred'[i].held = cred[i].held \/ adm[e].id = i
  <2> SUFFICES ASSUME NEW i \in Ids
               PROVE  /\ cred'[i].mic = cred[i].mic /\ cred'[i].state = cred[i].state
                      /\ cred'[i].again = cred[i].again /\ cred'[i].epoch = cred[i].epoch
                      /\ cred'[i].held = cred[i].held \/ adm[e].id = i
    OBVIOUS
  <2>1. cred[i] \in Cred
    BY <1>0
  <2> QED BY <1>2, <2>1 DEF Cred
<1>4. CutHasRow' /\ HandedIsStored' /\ RecheckKnows'
  BY <1>0, <1>1, <1>3, AdmissionAssumption
  DEF MuteInv, CutHasRow, HandedIsStored, RecheckKnows
<1>5. NoMicrophonePasses'
  <2> SUFFICES ASSUME mute.cut, NEW i \in Ids, Exposed(i)'
               PROVE  /\ ~cred'[i].held
                      /\ \A d \in Devices : adm'[d].id = i => adm'[d].pc \notin {"ban", "persist"}
    BY <1>0 DEF NoMicrophonePasses
  <2>1. Exposed(i)
    BY <1>0, <1>3 DEF Exposed, Verifies
  <2>2. ~cred[i].held /\ \A d \in Devices : adm[d].id = i => adm[d].pc \notin {"ban", "persist"}
    BY <2>1 DEF MuteInv, NoMicrophonePasses
  <2> QED BY <1>0, <1>1, <1>3, <2>2, AdmissionAssumption
<1> QED BY <1>4, <1>5 DEF MuteInv

LEMMA MuteRowKeepsMute ==
  ASSUME TypeOK, MuteInv, UNCHANGED <<epoch, cred, adm>>,
         \/ \E m \in Moderators : Mute(m)
         \/ Unmute \/ Unban
  PROVE  MuteInv'
<1>0. mute \in [row : BOOLEAN, cut : BOOLEAN]
  BY DEF TypeOK
<1>1. mute'.cut => mute.cut /\ mute'.row
  BY <1>0 DEF MuteInv, CutHasRow, Mute, Unmute, Unban
<1>2. CutHasRow'
  BY <1>1 DEF CutHasRow
<1>3. HandedIsStored' /\ RecheckKnows'
  BY DEF MuteInv, HandedIsStored, RecheckKnows
<1>4. NoMicrophonePasses'
  BY <1>1 DEF MuteInv, NoMicrophonePasses, Exposed, Verifies
<1> QED BY <1>2, <1>3, <1>4 DEF MuteInv

\* The invariant holds throughout.
LEMMA MuteInvHolds == Spec => []MuteInv
<1>1. Init => MuteInv
  BY AdmissionAssumption
  DEF Init, MuteInv, CutHasRow, HandedIsStored, RecheckKnows, NoMicrophonePasses, Idle
<1>2. TypeOK /\ MuteInv /\ [Next]_admissionVars => MuteInv'
  <2> SUFFICES ASSUME TypeOK, MuteInv, [Next]_admissionVars PROVE MuteInv'
    OBVIOUS
  <2>1. CASE UNCHANGED admissionVars
    BY <2>1 DEF admissionVars, MuteInv, CutHasRow, HandedIsStored, RecheckKnows,
                NoMicrophonePasses, Exposed, Verifies
  <2>2. ASSUME NEW d \in Devices, Looks(d) PROVE MuteInv'
    BY <2>2, LooksKeepMute
  <2>3. ASSUME NEW d \in Devices, Drop(d) \/ Cleanup(d) \/ EndSession(d) PROVE MuteInv'
    <3>1. OnlyRevokes /\ UNCHANGED <<epoch, mute>>
      BY <2>3, RevokeOne
    <3>2. adm \in [Devices -> Adm]
      BY DEF TypeOK
    <3>3. \A e \in Devices : \/ adm'[e] = adm[e]
                             \/ /\ adm'[e].pc \notin {"recheck", "ban", "persist"}
                                /\ adm'[e].id \in {adm[e].id, NoId}
      <4>1. CASE Drop(d)
        <5>1. PICK pc \in {"epoch", "cleanup"} :
                adm' = [adm EXCEPT ![d].pc = pc, ![d].again = TRUE]
          BY <4>1 DEF Drop
        <5>2. adm[d] \in Adm
          BY <3>2
        <5> QED BY <3>2, <5>1, <5>2 DEF Adm
      <4>2. CASE Cleanup(d)
        BY <4>2, EndsShape DEF Cleanup
      <4>3. CASE EndSession(d)
        BY <4>3 DEF EndSession
      <4> QED BY <2>3, <4>1, <4>2, <4>3
    <3> QED BY <3>1, <3>3, RevokingKeepsMute
  <2>4. ASSUME \/ \E d \in Devices : RevokeBanned(d)
               \/ \E m \in Moderators : RevokeForMute(m)
               \/ Evict \/ Ban
        PROVE  MuteInv'
    <3>1. adm \in [Devices -> Adm]
      BY DEF TypeOK
    <3>2. \A e \in Devices : adm'[e] = adm[e] \/ adm'[e] = Idle
      BY <2>4, <3>1 DEF RevokeBanned, RevokeForMute, Evict, Ban, Ends
    <3>3. RevokesOrNot
      BY <2>4, RevokeAll DEF Ban, RevokesOrNot
    <3>4. CASE RevokePrincipal
      BY <3>2, <3>4, RevokeAllKeepsMute
    <3>5. CASE UNCHANGED <<epoch, cred, mute>>
      BY <3>2, <3>5, AdmissionAssumption
      DEF MuteInv, CutHasRow, HandedIsStored, RecheckKnows, NoMicrophonePasses, Exposed,
          Verifies, Idle
    <3> QED BY <3>3, <3>4, <3>5 DEF RevokesOrNot
  <2>5. ASSUME NEW d \in Devices, Store(d) PROVE MuteInv'
    BY <2>5, StoreKeepsMute
  <2>6. ASSUME NEW d \in Devices, Persist(d) PROVE MuteInv'
    BY <2>6, PersistKeepsMute
  <2>7. CASE \/ \E m \in Moderators : Mute(m)
             \/ Unmute \/ Unban
    <3>1. UNCHANGED <<epoch, cred, adm>>
      BY <2>7 DEF Mute, Unmute, Unban
    <3> QED BY <2>7, <3>1, MuteRowKeepsMute
  <2> QED
    BY <2>1, <2>2, <2>3, <2>4, <2>5, <2>6, <2>7 DEF Next, AdmissionStep, Looks
<1> QED BY <1>1, <1>2, AdmissionTypes, PTL DEF Spec

\* After the revocation of a mute no credential whose mute was checked after its
\* issue brings the microphone back.
THEOREM MutesHold == Spec => []MuteCutsMicrophone
<1>1. MuteInv => MuteCutsMicrophone
  BY DEF MuteInv, NoMicrophonePasses, MuteCutsMicrophone, Usable, Exposed
<1> QED BY <1>1, MuteInvHolds, PTL

-----------------------------------------------------------------------------
(* Credentials that nobody answers for.                                        *)

Strays == {i \in Ids : Stray(i)}

\* Up to the issue a request has no credential in hand, or one it has revoked.
HandsEarly == {"idle", "lookup", "epoch", "store"}
EarlyHands(d) ==
  adm[d].pc \in HandsEarly /\ adm[d].id \in Ids => cred[adm[d].id].state = "revoked"
StrayInv == Cardinality(Strays) <= faults /\ \A d \in Devices : EarlyHands(d)

\* A call that fails may leave one credential behind, and nothing else does.
StrayStep ==
  \/ Strays' \subseteq Strays /\ faults' >= faults
  \/ faults' = faults + 1 /\ \E x : Strays' \subseteq Strays \cup {x}

\* Where that leads.
LEMMA StraysCounted ==
  ASSUME TypeOK, TypeOK', StrayStep, Cardinality(Strays) <= faults
  PROVE  Cardinality(Strays') <= faults'
<1>0. IsFiniteSet(Strays) /\ Cardinality(Strays) \in Nat
  BY AdmissionAssumption, FS_Subset, FS_CardinalityType DEF Strays
<1>n. faults \in Nat /\ faults' \in Nat
  BY AdmissionAssumption DEF TypeOK
<1>1. CASE Strays' \subseteq Strays /\ faults' >= faults
  <2>1. Cardinality(Strays') <= Cardinality(Strays) /\ IsFiniteSet(Strays')
    BY <1>0, <1>1, FS_Subset
  <2>2. Cardinality(Strays') \in Nat
    BY <2>1, FS_CardinalityType
  <2> QED BY <1>0, <1>1, <1>n, <2>1, <2>2
<1>2. ASSUME faults' = faults + 1, NEW x, Strays' \subseteq Strays \cup {x}
      PROVE  Cardinality(Strays') <= faults'
  <2>1. IsFiniteSet(Strays \cup {x})
        /\ Cardinality(Strays \cup {x}) \in {Cardinality(Strays), Cardinality(Strays) + 1}
    BY <1>0, FS_AddElement
  <2>2. IsFiniteSet(Strays') /\ Cardinality(Strays') <= Cardinality(Strays \cup {x})
    BY <1>2, <2>1, FS_Subset
  <2>3. Cardinality(Strays') \in Nat
    BY <2>2, FS_CardinalityType
  <2> QED BY <1>0, <1>2, <1>n, <2>1, <2>2, <2>3
<1> QED BY <1>1, <1>2 DEF StrayStep

\* No credential becomes one that verifies in nobody's hands.
NoneIssued ==
  \A i \in Ids : Verifies(i)' /\ ~cred'[i].held => Verifies(i) /\ ~cred[i].held

\* Then a stray was let go by the request that moved, if that let go of anything.
LEMMA LetGo ==
  ASSUME NEW e \in Devices, NoneIssued, \A d \in Devices : d # e => adm'[d] = adm[d]
  PROVE  /\ Strays' \subseteq Strays \cup {adm[e].id}
         /\ \/ adm'[e].id = adm[e].id
            \/ \A i \in Ids : i = adm[e].id => ~Verifies(i)' \/ cred'[i].held
            => Strays' \subseteq Strays
BY DEF NoneIssued, Strays, Stray

\* What is revoked stays so.
LEMMA RevokedForGood ==
  ASSUME TypeOK, Next, NEW i \in Ids, cred[i].state = "revoked"
  PROVE  cred'[i].state = "revoked"
<1>0. cred \in [Ids -> Cred] /\ cred[i] \in Cred
  BY DEF TypeOK
<1>1. Revoked(cred[i]) = cred[i]
  BY DEF Revoked
<1>2. ASSUME NEW d \in Devices, Drop(d) \/ Cleanup(d) \/ EndSession(d)
      PROVE  cred'[i].state = "revoked"
  BY <1>1, <1>2, RevokeOne DEF OnlyRevokes
<1>3. ASSUME NEW d \in Devices, Store(d) PROVE cred'[i].state = "revoked"
  BY <1>3, Issue
<1>4. ASSUME NEW d \in Devices, Persist(d) PROVE cred'[i].state = "revoked"
  <2>1. cred' = [cred EXCEPT ![adm[d].id].held = TRUE] \/ UNCHANGED cred
    BY <1>4 DEF Persist
  <2> QED BY <1>0, <2>1 DEF Cred
<1>5. RevokesOrNot => cred'[i].state = "revoked"
  BY <1>1 DEF RevokesOrNot, RevokePrincipal
<1>6. ASSUME \/ \E d \in Devices : Looks(d)
             \/ \E m \in Moderators : Mute(m)
             \/ Unmute \/ Unban
      PROVE  UNCHANGED cred
  BY <1>6 DEF Looks, Ask, Lookup, ReadEpoch, Recheck, BanLookup, Mute, Unmute, Unban
<1> QED
  BY <1>2, <1>3, <1>4, <1>5, <1>6, RevokeAll DEF Next, AdmissionStep, Looks, Ban, RevokesOrNot

\* A request that only looks lets its credential go when a call fails.
LEMMA LooksStray ==
  ASSUME TypeOK, StrayInv, NEW e \in Devices, Looks(e)
  PROVE  StrayStep /\ \A d \in Devices : EarlyHands(d)'
<1>0. /\ adm \in [Devices -> Adm] /\ adm[e] \in Adm /\ faults \in Nat
      /\ UNCHANGED <<epoch, cred>> /\ faults' \in {faults, faults + 1}
  BY AdmissionAssumption
  DEF TypeOK, Looks, Ask, Lookup, ReadEpoch, Recheck, BanLookup, Suffers
<1> DEFINE Apart == \A d \in Devices : d # e => adm'[d] = adm[d]
           Moves == /\ Apart /\ adm'[e].id = adm[e].id
                    /\ adm'[e].pc \in HandsEarly => adm[e].pc \in HandsEarly
           Leaves == Apart /\ adm'[e].id = NoId /\ faults' = faults + 1
<1>e. Ends(e) => Apart /\ adm'[e].id = NoId
  BY EndsShape
<1>g. ASSUME NEW pc, Goes(e, pc), pc \in HandsEarly => adm[e].pc \in HandsEarly PROVE Moves
  BY <1>g, GoesShape
<1>i. IssueThrows(e) /\ faults' = faults + 1 => Moves \/ Leaves
  BY <1>e, <1>g DEF IssueThrows, HandsEarly
<1>1. Moves \/ Leaves
  <2>1. CASE Ask(e)
    BY <1>g, <2>1 DEF Ask, HandsEarly
  <2>2. CASE Lookup(e)
    <3>1. CASE adm' = [adm EXCEPT ![e].pc = "epoch", ![e].muted = mute.row]
      BY <1>0, <2>2, <3>1 DEF Adm, HandsEarly, Lookup
    <3>2. CASE faults' = faults + 1 /\ Ends(e)
      BY <1>e, <3>2
    <3> HIDE DEF Moves, Leaves
    <3> QED BY <2>2, <3>1, <3>2 DEF Lookup, Suffers
  <2>3. CASE ReadEpoch(e)
    <3>1. CASE adm' = [adm EXCEPT ![e].pc = "store", ![e].epoch = epoch]
      BY <1>0, <2>3, <3>1 DEF Adm, HandsEarly, ReadEpoch
    <3> HIDE DEF Moves, Leaves
    <3> QED BY <1>i, <2>3, <3>1 DEF ReadEpoch, Suffers
  <2>4. CASE Recheck(e)
    <3>1. CASE adm' = [adm EXCEPT ![e].pc = "drop", ![e].muted = mute.row]
      BY <1>0, <3>1 DEF Adm, HandsEarly
    <3>2. ASSUME NEW pc \in {"ban", "cleanup"}, Goes(e, pc) PROVE Moves
      BY <1>g, <3>2 DEF HandsEarly
    <3> HIDE DEF Moves, Leaves
    <3> QED BY <2>4, <3>1, <3>2 DEF Recheck
  <2>5. CASE BanLookup(e)
    <3>1. ASSUME NEW pc \in {"revokeAll", "persist"}, Goes(e, pc) PROVE Moves
      BY <1>g, <3>1 DEF HandsEarly
    <3>2. CASE faults' = faults + 1 /\ Ends(e)
      BY <1>e, <3>2
    <3> HIDE DEF Moves, Leaves
    <3> QED BY <2>5, <3>1, <3>2 DEF BanLookup, Suffers
  <2> QED BY <2>1, <2>2, <2>3, <2>4, <2>5 DEF Looks
<1>2. NoneIssued
  BY <1>0 DEF NoneIssued, Verifies
<1>3. StrayStep
  BY <1>0, <1>1, <1>2, LetGo DEF StrayStep
<1>4. \A d \in Devices : EarlyHands(d)'
  BY <1>0, <1>1, AdmissionAssumption DEF EarlyHands, StrayInv
<1> QED BY <1>3, <1>4

\* Revoking a credential leaves none behind; a request that could not revoke its
\* own has met with a failure.
LEMMA RevokingStray ==
  ASSUME TypeOK, MuteInv, StrayInv, Next,
         NEW e \in Devices, Drop(e) \/ Cleanup(e) \/ EndSession(e)
  PROVE  StrayStep /\ \A d \in Devices : EarlyHands(d)'
<1>0. /\ adm \in [Devices -> Adm] /\ adm[e] \in Adm /\ cred \in [Ids -> Cred] /\ faults \in Nat
      /\ OnlyRevokes /\ UNCHANGED epoch
  BY AdmissionAssumption, RevokeOne DEF TypeOK
<1>1. NoneIssued
  BY <1>0, SurvivorIsSame DEF NoneIssued
<1>c. Revoked(cred[adm[e].id]).state # "open"
  BY DEF Revoked
<1>2. CASE Drop(e)
  <2>1. PICK o \in Outcomes :
          /\ Suffers(o)
          /\ cred' = IF o = "failed" THEN cred ELSE [cred EXCEPT ![adm[e].id] = Revoked(@)]
          /\ adm' = [adm EXCEPT ![e].pc = IF o = "done" THEN "epoch" ELSE "cleanup",
                                ![e].again = TRUE]
    BY <1>2 DEF Drop
  <2>2. /\ \A d \in Devices : d # e => adm'[d] = adm[d]
        /\ adm'[e].id = adm[e].id
        /\ adm'[e].pc = IF o = "done" THEN "epoch" ELSE "cleanup"
    BY <1>0, <2>1 DEF Adm
  <2>3. StrayStep
    BY <1>0, <1>1, <2>1, <2>2, LetGo DEF StrayStep, Suffers
  <2>4. ASSUME o = "done", adm[e].id \in Ids PROVE cred'[adm[e].id].state = "revoked"
    <3>1. cred[adm[e].id] \in Cred /\ cred[adm[e].id].state # "none"
      BY <1>0, <2>4 DEF MuteInv, HandedIsStored
    <3>2. Revoked(cred[adm[e].id]).state = "revoked"
      BY <3>1 DEF Revoked, Cred
    <3> QED BY <1>0, <2>1, <2>4, <3>2
  <2>5. \A d \in Devices : EarlyHands(d)'
    BY <1>2, <2>2, <2>4, RevokedForGood DEF EarlyHands, HandsEarly, StrayInv
  <2> QED BY <2>3, <2>5
<1>3. CASE Cleanup(e)
  <2>1. PICK o \in Outcomes :
          /\ Suffers(o)
          /\ cred' = IF o = "failed" THEN cred ELSE [cred EXCEPT ![adm[e].id] = Revoked(@)]
    BY <1>3 DEF Cleanup
  <2>2. /\ \A d \in Devices : d # e => adm'[d] = adm[d]
        /\ adm'[e].id = NoId
    BY <1>3, EndsShape DEF Cleanup
  <2>s. /\ Strays' \subseteq Strays \cup {adm[e].id}
        /\ (\A i \in Ids : i = adm[e].id => ~Verifies(i)') => Strays' \subseteq Strays
    BY <1>1, <2>2, LetGo
  <2>f. /\ faults' >= faults
        /\ o = "failed" => faults' = faults + 1
    BY <1>0, <2>1 DEF Suffers
  <2>3. o = "failed" => StrayStep
    BY <2>f, <2>s DEF StrayStep
  <2>4. ASSUME o # "failed" PROVE StrayStep
    <3>1. \A i \in Ids : i = adm[e].id => ~Verifies(i)'
      BY <1>0, <1>c, <2>1, <2>4 DEF Verifies
    <3> QED BY <2>f, <2>s, <3>1 DEF StrayStep
  <2>5. \A d \in Devices : EarlyHands(d)'
    BY <1>3, <2>2, RevokedForGood, AdmissionAssumption DEF EarlyHands, StrayInv
  <2> QED BY <2>3, <2>4, <2>5
<1>4. CASE EndSession(e)
  <2>1. UNCHANGED <<adm, faults>>
    BY <1>4 DEF EndSession
  <2>2. StrayStep
    BY <1>0, <1>1, <2>1, LetGo DEF StrayStep
  <2>3. \A d \in Devices : EarlyHands(d)'
    BY <1>4, <2>1, RevokedForGood DEF EarlyHands, StrayInv
  <2> QED BY <2>2, <2>3
<1> QED BY <1>2, <1>3, <1>4

\* A revocation of the account leaves nothing that verifies, so nothing astray.
LEMMA RevokeAllStray ==
  ASSUME TypeOK, StrayInv, Next,
         \/ \E d \in Devices : RevokeBanned(d)
         \/ \E m \in Moderators : RevokeForMute(m)
         \/ Evict \/ Ban
  PROVE  StrayStep /\ \A d \in Devices : EarlyHands(d)'
<1>0. adm \in [Devices -> Adm] /\ faults \in Nat
  BY AdmissionAssumption DEF TypeOK
<1>1. RevokesOrNot
  BY RevokeAll DEF Ban, RevokesOrNot
<1>2. \A d \in Devices : adm'[d] = adm[d] \/ adm'[d] = Idle
  BY <1>0 DEF RevokeBanned, RevokeForMute, Evict, Ban, Ends
<1>3. faults' >= faults
  BY <1>0 DEF RevokeBanned, RevokeForMute, Evict, Ban, Suffers
<1>4. Idle.id \notin Ids
  BY AdmissionAssumption DEF Idle
<1>5. \A d \in Devices : EarlyHands(d)'
  BY <1>2, <1>4, RevokedForGood DEF EarlyHands, StrayInv
<1>6. CASE RevokePrincipal
  <2>1. Strays' = {}
    BY <1>6, NoneSurvives DEF Strays, Stray
  <2> QED BY <1>3, <1>5, <2>1 DEF StrayStep
<1>7. CASE UNCHANGED <<epoch, cred, mute>>
  <2>1. NoneIssued
    BY <1>7 DEF NoneIssued, Verifies
  <2>2. ASSUME NEW d \in Devices, RevokeBanned(d) PROVE StrayStep
    <3>1. CASE faults' = faults + 1
      <4>1. \A c \in Devices : c # d => adm'[c] = adm[c]
        BY <2>2, EndsShape DEF RevokeBanned
      <4>2. Strays' \subseteq Strays \cup {adm[d].id}
        BY <2>1, <4>1, LetGo
      <4> QED BY <3>1, <4>2 DEF StrayStep
    <3>2. CASE RevokePrincipal
      BY <1>7, <3>2 DEF RevokePrincipal, TypeOK
    <3> QED BY <2>2, <3>1, <3>2 DEF RevokeBanned, Suffers
  <2>3. UNCHANGED adm => Strays' \subseteq Strays
    BY <1>7 DEF Strays, Stray, Verifies
  <2>4. (\E m \in Moderators : RevokeForMute(m)) \/ Evict \/ Ban => UNCHANGED adm
    BY DEF RevokeForMute, Evict, Ban
  <2> QED BY <1>3, <1>5, <2>2, <2>3, <2>4 DEF StrayStep
<1> QED BY <1>1, <1>6, <1>7 DEF RevokesOrNot

\* An issue brings one new credential.  It is in the hands of its request unless
\* the call went unanswered; the one it replaces has been revoked.
LEMMA StoreStray ==
  ASSUME TypeOK, StrayInv, Next, NEW e \in Devices, Store(e)
  PROVE  StrayStep /\ \A d \in Devices : EarlyHands(d)'
<1> DEFINE new == [state |-> "open", device |-> e, epoch |-> adm[e].epoch,
                   mic |-> ~adm[e].muted, again |-> adm[e].again, held |-> FALSE]
           then(i) == [adm[e] EXCEPT !.pc = IF adm[e].again THEN "ban" ELSE "recheck",
                                     !.epoch = 0, !.id = i]
<1>0. /\ adm \in [Devices -> Adm] /\ adm[e] \in Adm /\ cred \in [Ids -> Cred]
      /\ UNCHANGED epoch
  BY DEF TypeOK, Store
<1>n. faults \in Nat
  BY AdmissionAssumption DEF TypeOK
<1>o. \A i \in Ids : i = adm[e].id => cred'[i].state = "revoked"
  BY RevokedForGood DEF StrayInv, EarlyHands, HandsEarly, Store
<1>r. \A i \in Ids : i = adm[e].id => ~Verifies(i)'
  BY <1>o DEF Verifies
<1>1. \/ Ends(e) /\ UNCHANGED <<cred, faults>>
      \/ \E i \in Ids, o \in Outcomes :
           /\ Suffers(o)
           /\ cred' = IF o = "failed" THEN cred ELSE [cred EXCEPT ![i] = new]
           /\ IF o # "done" THEN IssueThrows(e) ELSE adm' = [adm EXCEPT ![e] = then(i)]
  BY DEF Store
<1>2. ASSUME NEW i \in Ids PROVE then(i).id = i /\ then(i).pc \notin HandsEarly
  BY <1>0 DEF Adm, HandsEarly
<1> HIDE DEF new, then
<1>3. CASE Ends(e) /\ UNCHANGED <<cred, faults>>
  <2>1. NoneIssued
    BY <1>0, <1>3 DEF NoneIssued, Verifies
  <2>2. Strays' \subseteq Strays
    BY <1>3, <1>r, <2>1, EndsShape, LetGo
  <2>3. \A d \in Devices : EarlyHands(d)'
    BY <1>3, EndsShape, RevokedForGood, AdmissionAssumption DEF EarlyHands, StrayInv
  <2> QED BY <1>3, <1>n, <2>2, <2>3 DEF StrayStep
<1>4. ASSUME NEW i \in Ids, NEW o \in Outcomes, Suffers(o),
             cred' = IF o = "failed" THEN cred ELSE [cred EXCEPT ![i] = new],
             IF o # "done" THEN IssueThrows(e) ELSE adm' = [adm EXCEPT ![e] = then(i)]
      PROVE  StrayStep /\ \A d \in Devices : EarlyHands(d)'
  <2>1. /\ \A d \in Devices : d # e => adm'[d] = adm[d]
        /\ o = "done" => adm'[e] = then(i)
        /\ o # "done" => adm'[e].id = NoId \/ adm'[e].pc = "cleanup"
    BY <1>0, <1>4, EndsShape, GoesShape DEF IssueThrows
  <2>2. \A j \in Ids : j # i /\ Verifies(j)' /\ ~cred'[j].held => Verifies(j) /\ ~cred[j].held
    BY <1>0, <1>4 DEF Verifies
  <2>3. ASSUME NEW j \in Ids, j # i, Stray(j)' PROVE Stray(j)
    <3>1. adm[e].id # j
      BY <1>r, <2>3 DEF Stray
    <3> QED BY <2>1, <2>2, <2>3, <3>1 DEF Stray
  <2>4. Strays' \subseteq Strays \cup {i}
    BY <2>3 DEF Strays
  <2>5. o = "done" => ~Stray(i)'
    BY <1>2, <2>1 DEF Stray
  <2>6. o = "done" => faults' = faults
    BY <1>4 DEF Suffers
  <2>7. o # "done" => faults' = faults + 1
    BY <1>4 DEF Suffers
  <2>8. StrayStep
    BY <1>n, <2>4, <2>5, <2>6, <2>7 DEF StrayStep, Strays
  <2>9. \A d \in Devices : EarlyHands(d)'
    <3>1. EarlyHands(e)'
      BY <1>2, <2>1, AdmissionAssumption DEF EarlyHands, HandsEarly
    <3>2. \A d \in Devices : d # e => EarlyHands(d)'
      BY <2>1, RevokedForGood DEF EarlyHands, StrayInv
    <3> QED BY <3>1, <3>2
  <2> QED BY <2>8, <2>9
<1> QED BY <1>1, <1>3, <1>4

\* Handing over ends the request and what it held is held by the device; a refusal
\* keeps the credential for the clean-up.
LEMMA PersistStray ==
  ASSUME TypeOK, StrayInv, Next, NEW e \in Devices, Persist(e)
  PROVE  StrayStep /\ \A d \in Devices : EarlyHands(d)'
<1>0. /\ adm \in [Devices -> Adm] /\ cred \in [Ids -> Cred] /\ UNCHANGED epoch
  BY DEF TypeOK, Persist
<1>n. faults \in Nat
  BY AdmissionAssumption DEF TypeOK
<1>f. faults' >= faults
  BY <1>n DEF Persist, Suffers
<1>1. CASE Ends(e) /\ cred' = [cred EXCEPT ![adm[e].id].held = TRUE]
  <2>1. \A i \in Ids : /\ cred'[i].state = cred[i].state /\ cred'[i].epoch = cred[i].epoch
                       /\ ~cred'[i].held => ~cred[i].held
                       /\ i = adm[e].id => cred'[i].held
    BY <1>0, <1>1 DEF Cred
  <2>2. NoneIssued
    BY <1>0, <2>1 DEF NoneIssued, Verifies
  <2>3. Strays' \subseteq Strays
    BY <1>1, <2>1, <2>2, EndsShape, LetGo
  <2>4. \A d \in Devices : EarlyHands(d)'
    BY <1>1, EndsShape, RevokedForGood, AdmissionAssumption DEF EarlyHands, StrayInv
  <2> QED BY <1>f, <2>3, <2>4 DEF StrayStep
<1>2. CASE Goes(e, "cleanup") /\ UNCHANGED cred
  <2>1. NoneIssued
    BY <1>0, <1>2 DEF NoneIssued, Verifies
  <2>2. Strays' \subseteq Strays
    BY <1>2, <2>1, GoesShape, LetGo
  <2>3. \A d \in Devices : EarlyHands(d)'
    BY <1>2, GoesShape, RevokedForGood DEF EarlyHands, StrayInv, HandsEarly
  <2> QED BY <1>f, <2>2, <2>3 DEF StrayStep
<1> QED BY <1>1, <1>2 DEF Persist

\* A credential that verifies was handed over or is in the hands of a request, but
\* for as many as calls have failed: every path out of an admission that is not cut
\* short by a failure revokes what it was issued.
THEOREM StraysAreFew == Spec => []FewStrays
<1>1. Init => StrayInv
  <2> SUFFICES ASSUME Init PROVE StrayInv
    OBVIOUS
  <2>1. Strays = {}
    BY DEF Init, NoCred, Strays, Stray, Verifies
  <2>2. \A d \in Devices : EarlyHands(d)
    BY AdmissionAssumption DEF Init, Idle, EarlyHands
  <2>3. Cardinality({}) <= 0
    BY FS_EmptySet
  <2> QED BY <2>1, <2>2, <2>3 DEF Init, StrayInv
<1>2. TypeOK /\ TypeOK' /\ MuteInv /\ StrayInv /\ [Next]_admissionVars => StrayInv'
  <2> SUFFICES ASSUME TypeOK, TypeOK', MuteInv, StrayInv, [Next]_admissionVars PROVE StrayInv'
    OBVIOUS
  <2>1. CASE UNCHANGED admissionVars
    BY <2>1 DEF admissionVars, StrayInv, Strays, Stray, Verifies, EarlyHands
  <2>2. CASE Next
    <3> DEFINE Kept == StrayStep /\ \A d \in Devices : EarlyHands(d)'
    <3>1. ASSUME NEW d \in Devices, Looks(d) PROVE Kept
      BY <3>1, LooksStray
    <3>2. ASSUME NEW d \in Devices, Drop(d) \/ Cleanup(d) \/ EndSession(d) PROVE Kept
      BY <2>2, <3>2, RevokingStray
    <3>3. ASSUME \/ \E d \in Devices : RevokeBanned(d)
                 \/ \E m \in Moderators : RevokeForMute(m)
                 \/ Evict \/ Ban
          PROVE  Kept
      BY <2>2, <3>3, RevokeAllStray
    <3>4. ASSUME NEW d \in Devices, Store(d) PROVE Kept
      BY <2>2, <3>4, StoreStray
    <3>5. ASSUME NEW d \in Devices, Persist(d) PROVE Kept
      BY <2>2, <3>5, PersistStray
    <3>6. ASSUME \/ \E m \in Moderators : Mute(m)
                 \/ Unmute \/ Unban
          PROVE  Kept
      <4>1. UNCHANGED <<epoch, cred, adm>>
        BY <3>6 DEF Mute, Unmute, Unban
      <4>2. faults \in Nat
        BY AdmissionAssumption DEF TypeOK
      <4>3. faults' >= faults
        BY <3>6, <4>2 DEF Mute, Unmute, Unban, Suffers
      <4>4. Strays' \subseteq Strays
        BY <4>1 DEF Strays, Stray, Verifies
      <4>5. \A d \in Devices : EarlyHands(d)'
        BY <4>1 DEF StrayInv, EarlyHands
      <4> QED BY <4>3, <4>4, <4>5 DEF StrayStep
    <3> HIDE DEF Kept
    <3>7. Kept
      BY <2>2, <3>1, <3>2, <3>3, <3>4, <3>5, <3>6 DEF Next, AdmissionStep, Looks
    <3>8. Cardinality(Strays') <= faults'
      BY <3>7, StraysCounted DEF StrayInv, Kept
    <3> QED BY <3>7, <3>8 DEF StrayInv, Kept
  <2> QED BY <2>1, <2>2
<1>3. StrayInv => FewStrays
  BY DEF StrayInv, FewStrays, Strays
<1> QED BY <1>1, <1>2, <1>3, AdmissionTypes, MuteInvHolds, PTL DEF Spec
=============================================================================
