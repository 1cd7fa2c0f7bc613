------------------------------- MODULE Admission -------------------------------
(*******************************************************************************)
(* Admission to the media server: the gate credentials of one account in one   *)
(* room (admission.service.ts, credential-boundary.service.ts,                 *)
(* gate-credential.repository.ts), while the owner of the room mutes, bans     *)
(* and disconnects it.                                                         *)
(*                                                                             *)
(* One action per call to the database.  A credential stands for itself and    *)
(* for the media token handed over with it, whose grants it vouches for: the   *)
(* gate lets nobody in whose credential does not verify.  The rows of other    *)
(* accounts and rooms are apart from these.  Expiry is left out: it only takes *)
(* a credential away, as the end of a session does.  Guests have no membership *)
(* to persist and are banned by address; they are left out.                    *)
(*******************************************************************************)
EXTENDS Integers, FiniteSets

CONSTANTS
  Devices,      \* peers of the account, each with at most one request at a time
  Moderators,   \* requests of the room's owner that mute
  Ids,          \* bound: credentials that are ever issued
  NoId,
  MaxEpoch,     \* bound: revocations of the whole account
  MaxFaults     \* bound: calls that fail

ASSUME AdmissionAssumption ==
  NoId \notin Ids /\ IsFiniteSet(Ids) /\ MaxEpoch \in Nat /\ MaxFaults \in Nat

VARIABLES
  epoch,      \* the account's row in livekit_gate_principal_epochs
  cred,       \* livekit_gate_credentials
  mute,       \* row: it is in room_server_mutes.  cut: revoked since then
  banned,     \* an active row in room_bans
  adm,        \* the admission requests
  muting,     \* the moderator requests
  faults

admissionVars == <<epoch, cred, mute, banned, adm, muting, faults>>

\* mic: the microphone is among the token's grants.  again: it was issued in
\* place of another.  held: it was handed over to the device.
NoCred == [state |-> "none", device |-> NoId, epoch |-> 0,
           mic |-> FALSE, again |-> FALSE, held |-> FALSE]
Cred == [state : {"none", "open", "revoked"}, device : Devices \cup {NoId},
         epoch : Nat, mic : BOOLEAN, again : BOOLEAN, held : BOOLEAN]

\* muted: what the last lookup of the mute said (serverMuted).  epoch: as read for
\* the credential to come.  id: the credential of the admission.
AdmPcs == {"idle", "lookup", "epoch", "store", "recheck", "drop", "ban",
           "revokeAll", "persist", "cleanup"}
Idle == [pc |-> "idle", muted |-> FALSE, epoch |-> 0, again |-> FALSE, id |-> NoId]
Adm == [pc : AdmPcs, muted : BOOLEAN, epoch : Nat, again : BOOLEAN, id : Ids \cup {NoId}]

Init ==
  /\ epoch = 0
  /\ cred = [i \in Ids |-> NoCred]
  /\ mute = [row |-> FALSE, cut |-> FALSE]
  /\ banned = FALSE
  /\ adm = [d \in Devices |-> Idle]
  /\ muting = [m \in Moderators |-> FALSE]
  /\ faults = 0

\* A statement is executed and answered, executed without an answer, or neither.
Outcomes == {"done", "unanswered", "failed"}
Suffers(o) == IF o = "done" THEN UNCHANGED faults
              ELSE faults < MaxFaults /\ faults' = faults + 1

\* verifyLiveKitGateCredential.
Verifies(i) == cred[i].state = "open" /\ cred[i].epoch = epoch

\* Faulty: a state the table does not know.
Revoked_Closed(c) == IF c.state = "open" THEN [c EXCEPT !.state = "closed"] ELSE c

Revoked(c) == IF c.state = "open" THEN [c EXCEPT !.state = "revoked"] ELSE c

\* revokePrincipalInTransaction: every credential of the account.
RevokePrincipal ==
  /\ epoch < MaxEpoch
  /\ epoch' = epoch + 1
  /\ cred' = [i \in Ids |-> Revoked(cred[i])]
  /\ mute' = [mute EXCEPT !.cut = mute.row]

Goes(d, pc) == adm' = [adm EXCEPT ![d].pc = pc]
Ends(d) == adm' = [adm EXCEPT ![d] = Idle]

-----------------------------------------------------------------------------
(* A request for admission (admit). *)

\* The room, the ban, the seat in the roster and the identity are looked up; any
\* of them may refuse.
Ask(d) ==
  /\ adm[d].pc = "idle" /\ ~banned
  /\ Goes(d, "lookup")
  /\ UNCHANGED <<epoch, cred, mute, banned, muting, faults>>

\* serverMuteLookup.
Lookup(d) ==
  /\ adm[d].pc = "lookup"
  /\ \E o \in {"done", "failed"} :
       /\ Suffers(o)
       /\ IF o = "done" THEN adm' = [adm EXCEPT ![d].pc = "epoch", ![d].muted = mute.row]
          ELSE Ends(d)
  /\ UNCHANGED <<epoch, cred, mute, banned, muting>>

\* Where an issue that throws leads: out of admit, or to the catch block around
\* the second one, which revokes the first credential.
IssueThrows(d) == IF adm[d].again THEN Goes(d, "cleanup") ELSE Ends(d)

\* issueCredential: the epoch is read, in a transaction of its own.
ReadEpoch(d) ==
  /\ adm[d].pc = "epoch"
  /\ \E o \in {"done", "failed"} :
       /\ Suffers(o)
       /\ IF o = "done" THEN adm' = [adm EXCEPT ![d].pc = "store", ![d].epoch = epoch]
          ELSE IssueThrows(d)
  /\ UNCHANGED <<epoch, cred, mute, banned, muting>>

\* createLiveKitGateCredential: refused when the epoch has moved.
Store(d) ==
  LET a == adm[d]
      new == [state |-> "open", device |-> d, epoch |-> a.epoch,
              mic |-> ~a.muted, again |-> a.again, held |-> FALSE]
  IN
  /\ a.pc = "store"
  /\ \/ /\ a.epoch # epoch
        /\ Ends(d) /\ UNCHANGED <<cred, faults>>
     \/ /\ a.epoch = epoch
        /\ \E i \in Ids, o \in Outcomes :
             /\ cred[i].state = "none"
             /\ Suffers(o)
             /\ cred' = IF o = "failed" THEN cred ELSE [cred EXCEPT ![i] = new]
             /\ IF o # "done" THEN IssueThrows(d)
                ELSE adm' = [adm EXCEPT ![d] = [a EXCEPT !.pc = IF a.again THEN "ban" ELSE "recheck",
                                                         !.epoch = 0, !.id = i]]
  /\ UNCHANGED <<epoch, mute, banned, muting>>

\* The mute is looked up once more after the first issue, and only then.
Recheck(d) ==
  /\ adm[d].pc = "recheck"
  /\ \E o \in {"done", "failed"} :
       /\ Suffers(o)
       /\ IF o = "failed" THEN Goes(d, "cleanup")
          ELSE IF mute.row = adm[d].muted THEN Goes(d, "ban")
          ELSE adm' = [adm EXCEPT ![d].pc = "drop", ![d].muted = mute.row]
  /\ UNCHANGED <<epoch, cred, mute, banned, muting>>

\* Faulty: the credential that is out of date stays.
Drop_Keeps(d) ==
  /\ adm[d].pc = "drop"
  /\ adm' = [adm EXCEPT ![d].pc = "epoch", ![d].again = TRUE]
  /\ UNCHANGED <<epoch, cred, mute, banned, muting, faults>>

\* revoke, of the credential that is out of date.
Drop(d) ==
  /\ adm[d].pc = "drop"
  /\ \E o \in Outcomes :
       /\ Suffers(o)
       /\ cred' = IF o = "failed" THEN cred
                  ELSE [cred EXCEPT ![adm[d].id] = Revoked(@)]
       /\ adm' = [adm EXCEPT ![d].pc = IF o = "done" THEN "epoch" ELSE "cleanup",
                             ![d].again = TRUE]
  /\ UNCHANGED <<epoch, mute, banned, muting>>

\* findRoomBan, once the credential exists.  A lookup that fails leaves it behind.
BanLookup(d) ==
  /\ adm[d].pc = "ban"
  /\ \E o \in {"done", "failed"} :
       /\ Suffers(o)
       /\ IF o = "failed" THEN Ends(d)
          ELSE Goes(d, IF banned THEN "revokeAll" ELSE "persist")
  /\ UNCHANGED <<epoch, cred, mute, banned, muting>>

RevokeBanned(d) ==
  /\ adm[d].pc = "revokeAll"
  /\ \E o \in Outcomes :
       /\ Suffers(o)
       /\ IF o = "failed" THEN UNCHANGED <<epoch, cred, mute>> ELSE RevokePrincipal
  /\ Ends(d)
  /\ UNCHANGED <<banned, muting>>

\* persistSuccessfulAdmission, which looks at the bans once more, and with it the
\* end of admit: the credential is handed over.
Persist(d) ==
  /\ adm[d].pc = "persist"
  /\ \E o \in {"done", "failed"} :
       /\ Suffers(o)
       /\ IF o = "done" /\ ~banned
          THEN Ends(d) /\ cred' = [cred EXCEPT ![adm[d].id].held = TRUE]
          ELSE Goes(d, "cleanup") /\ UNCHANGED cred
  /\ UNCHANGED <<epoch, mute, banned, muting>>

\* revokeIssuedAdmission.  Whatever comes of it, admit refuses or throws.
Cleanup(d) ==
  /\ adm[d].pc = "cleanup"
  /\ \E o \in Outcomes :
       /\ Suffers(o)
       /\ cred' = IF o = "failed" THEN cred
                  ELSE [cred EXCEPT ![adm[d].id] = Revoked(@)]
  /\ Ends(d)
  /\ UNCHANGED <<epoch, mute, banned, muting>>

AdmissionStep(d) ==
  \/ Ask(d) \/ Lookup(d) \/ ReadEpoch(d) \/ Store(d) \/ Recheck(d) \/ Drop(d)
  \/ BanLookup(d) \/ RevokeBanned(d) \/ Persist(d) \/ Cleanup(d)

-----------------------------------------------------------------------------
(* Moderation, and what else revokes credentials. *)

\* setServerMute: the row first; the credentials are revoked when that answers.
Mute(m) ==
  /\ ~muting[m]
  /\ \E o \in Outcomes :
       /\ Suffers(o)
       /\ mute' = IF o = "failed" THEN mute ELSE [mute EXCEPT !.row = TRUE]
       /\ muting' = [muting EXCEPT ![m] = o = "done"]
  /\ UNCHANGED <<epoch, cred, banned, adm>>

\* Faulty: the epoch moves, the open credentials and the mark of it do not.
RevokeForMute_Nothing(m) ==
  /\ muting[m]
  /\ mute' = [mute EXCEPT !.cut = mute.row]
  /\ muting' = [muting EXCEPT ![m] = FALSE]
  /\ UNCHANGED <<epoch, cred, banned, adm, faults>>

\* revokeForServerMute: a failure is logged and the mute carried on with.
RevokeForMute(m) ==
  /\ muting[m]
  /\ muting' = [muting EXCEPT ![m] = FALSE]
  /\ \E o \in Outcomes :
       /\ Suffers(o)
       /\ IF o = "failed" THEN UNCHANGED <<epoch, cred, mute>> ELSE RevokePrincipal
  /\ UNCHANGED <<banned, adm>>

Unmute ==
  /\ mute.row
  /\ mute' = [row |-> FALSE, cut |-> FALSE]
  /\ UNCHANGED <<epoch, cred, banned, adm, muting, faults>>

\* Faulty: the row alone.
Ban_RowOnly ==
  /\ ~banned
  /\ banned' = TRUE
  /\ UNCHANGED <<epoch, cred, mute, adm, muting, faults>>

\* createRoomBanWithLiveKitGateRevocations, putBan: the row and the revocation
\* are one transaction.
Ban ==
  /\ ~banned
  /\ banned' = TRUE
  /\ RevokePrincipal
  /\ UNCHANGED <<adm, muting, faults>>

Unban ==
  /\ banned
  /\ banned' = FALSE
  /\ UNCHANGED <<epoch, cred, mute, adm, muting, faults>>

\* A kick, and every other eviction (revokePeer).
Evict ==
  /\ RevokePrincipal
  /\ UNCHANGED <<banned, adm, muting, faults>>

\* The session of one device ends (revokeLiveKitGateCredentialsForPeer).
EndSession(d) ==
  /\ \E i \in Ids : cred[i].device = d /\ cred[i].state = "open"
  /\ cred' = [i \in Ids |-> IF cred[i].device = d THEN Revoked(cred[i]) ELSE cred[i]]
  /\ UNCHANGED <<epoch, mute, banned, adm, muting, faults>>

Next ==
  \/ \E d \in Devices : AdmissionStep(d) \/ EndSession(d)
  \/ \E m \in Moderators : Mute(m) \/ RevokeForMute(m)
  \/ Unmute \/ Ban \/ Unban \/ Evict

Spec == Init /\ [][Next]_admissionVars

-----------------------------------------------------------------------------
(* Properties. *)

\* Rows, credentials and requests keep to the states the code gives them.
TypeOK ==
  /\ epoch \in Nat
  /\ cred \in [Ids -> Cred]
  /\ mute \in [row : BOOLEAN, cut : BOOLEAN]
  /\ banned \in BOOLEAN
  /\ adm \in [Devices -> Adm]
  /\ muting \in [Moderators -> BOOLEAN]
  /\ faults \in 0..MaxFaults

Usable(i) == cred[i].held /\ Verifies(i)

\* A banned account holds no credential the gate lets in, wherever the ban landed
\* among the awaits of an admission.
BannedHoldsNothing == banned => \A i \in Ids : ~Usable(i)

\* Once a mute has made its revocation, no device of the account can come back with
\* the microphone by a credential whose mute was checked after its issue.
MuteCutsMicrophone ==
  mute.cut => \A i \in Ids : Usable(i) /\ ~cred[i].again => ~cred[i].mic

\* A credential that verifies was handed over or is in the hands of a request;
\* a call that fails leaves at most one behind that is neither.
Stray(i) == Verifies(i) /\ ~cred[i].held /\ \A d \in Devices : adm[d].id # i
FewStrays == Cardinality({i \in Ids : Stray(i)}) <= faults
=============================================================================
