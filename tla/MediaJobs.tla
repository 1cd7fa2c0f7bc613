------------------------------- MODULE MediaJobs -------------------------------
(******************************************************************************)
(* One image of a message, from its upload to the removal of its files: the   *)
(* rows of the attachment and of its processing job, the files, and everybody *)
(* who works on them (media.service.ts, attachment.repository.ts,             *)
(* media-job.repository.ts, media-reconciliation.service.ts,                  *)
(* media-maintenance.service.ts and their workers).                           *)
(*                                                                            *)
(* One action per call.  Attachments share nothing but the batches they are   *)
(* claimed in; of a batch it is modelled that its jobs wait for each other,   *)
(* unrenewed.  An attachment has one live job at a time: job is the last one  *)
(* queued.  The processed image and its preview are one file here.            *)
(******************************************************************************)
EXTENDS Integers

CONSTANTS
  Workers,       \* the processes that transform images
  NoWorker,
  MaxAttempts,
  MaxJobs,       \* bound: the owner retries while fewer jobs were queued
  MaxFaults      \* bound: calls that fail, leases that run out early, crashes

ASSUME MediaAssumption ==
  /\ NoWorker \notin Workers
  /\ MaxAttempts \in Nat \ {0} /\ MaxJobs \in Nat /\ MaxFaults \in Nat

VARIABLES
  att,       \* the row in message_attachments
  files,     \* the stored files
  job,       \* the row in media_processing_jobs
  worker, upload, retrying, removing, maintaining, reconciling,
  faults

requests == <<upload, retrying, removing>>
vars == <<att, files, job, worker, upload, retrying, removing, maintaining, reconciling, faults>>

\* original, derived: the stored variants, and the storage keys of the row.
Variants == {"original", "derived"}
AttStates == {"none", "uploading", "processing", "ready", "failed", "deleted"}
Att == [state : AttStates, bound : BOOLEAN, keys : SUBSET Variants]

\* n: which of the jobs it is.  live: the lease has not run out.  due: available_at
\* has passed.
Job == [state : {"none", "pending", "processing", "completed", "dead"}, n : Nat,
        owner : Workers \cup {NoWorker}, token : Nat, live : BOOLEAN, due : BOOLEAN,
        attempts : Nat]
NoJob == [state |-> "none", n |-> 0, owner |-> NoWorker, token |-> 0,
          live |-> FALSE, due |-> FALSE, attempts |-> 0]

WorkPcs == {"idle", "queued", "done", "read", "save", "commit", "fail", "markFailed"}
Work == [pc : WorkPcs, n : Nat, token : Nat]
Free == [pc |-> "idle", n |-> 0, token |-> 0]

Pass == [pc : {"idle", "enqueue", "keys", "files", "missing", "unavailable", "orphans"},
         keys : SUBSET Variants, orphans : SUBSET Variants]
NoPass == [pc |-> "idle", keys |-> {}, orphans |-> {}]

Init ==
  /\ att = [state |-> "none", bound |-> FALSE, keys |-> {}]
  /\ files = {}
  /\ job = NoJob
  /\ worker = [w \in Workers |-> Free]
  /\ upload = "idle" /\ retrying = "idle" /\ removing = "idle" /\ maintaining = "idle"
  /\ reconciling = NoPass
  /\ faults = 0

\* What a call can come to: its answer may be lost after it has taken effect.
Fault == faults < MaxFaults /\ faults' = faults + 1
Outcomes == {"done", "unanswered", "failed"}
Suffers(o) == IF o = "done" THEN UNCHANGED faults ELSE Fault

\* enqueue: a new job unless one is live.
Live == job.state \in {"pending", "processing"}
Enqueue ==
  job' = IF Live THEN job
         ELSE [NoJob EXCEPT !.state = "pending", !.n = job.n + 1, !.due = TRUE]

MarkFailed ==
  att' = IF att.state \in {"uploading", "processing", "ready"}
         THEN [att EXCEPT !.state = "failed"] ELSE att

-----------------------------------------------------------------------------
(* The requests of the owner (media.service.ts). *)

CreateSlot ==
  /\ att.state = "none"
  /\ att' = [att EXCEPT !.state = "uploading"]
  /\ UNCHANGED <<files, job, worker, requests, maintaining, reconciling, faults>>

\* upload, under the lock of the attachment.
Upload ==
  /\ upload = "idle" /\ att.state = "uploading"
  /\ upload' = "save"
  /\ UNCHANGED <<att, files, job, worker, retrying, removing, maintaining, reconciling, faults>>

\* The original is stored and inspected; a refused image goes again.
SaveOriginal ==
  /\ upload = "save"
  /\ files' = files \cup {"original"}
  /\ upload' \in {"mark", "unsave"}
  /\ UNCHANGED <<att, job, worker, retrying, removing, maintaining, reconciling, faults>>

MarkUploaded ==
  LET open == att.state = "uploading" IN
  /\ upload = "mark"
  /\ \E o \in Outcomes :
       /\ Suffers(o)
       /\ att' = IF open /\ o # "failed"
                 THEN [att EXCEPT !.state = "processing", !.keys = @ \cup {"original"}] ELSE att
       /\ upload' = IF open /\ o = "done" THEN "enqueue" ELSE "unsave"
  /\ UNCHANGED <<files, job, worker, retrying, removing, maintaining, reconciling>>

EnqueueUploaded ==
  /\ upload = "enqueue"
  /\ \E o \in Outcomes :
       /\ Suffers(o)
       /\ IF o = "failed" THEN UNCHANGED job ELSE Enqueue
       /\ upload' = IF o = "done" THEN "idle" ELSE "unsave"
  /\ UNCHANGED <<att, files, worker, retrying, removing, maintaining, reconciling>>

\* The catch block: the files go, and the row fails, unless the connection that
\* holds the lock is what broke.
Unsave ==
  /\ upload = "unsave"
  /\ files' = {}
  /\ upload' = "markFailed"
  /\ UNCHANGED <<att, job, worker, retrying, removing, maintaining, reconciling, faults>>
UploadFails ==
  /\ upload = "markFailed"
  /\ \/ MarkFailed /\ UNCHANGED faults
     \/ UNCHANGED att /\ (Fault \/ (faults > 0 /\ UNCHANGED faults))
  /\ upload' = "idle"
  /\ UNCHANGED <<files, job, worker, retrying, removing, maintaining, reconciling>>

\* retry: asked, marked processing if it still can be, and then a job in any case.
Retry ==
  /\ retrying = "idle" /\ job.n < MaxJobs
  /\ att.state = "failed" /\ "original" \in att.keys
  /\ retrying' = "mark"
  /\ UNCHANGED <<att, files, job, worker, upload, removing, maintaining, reconciling, faults>>
RetryProcessing ==
  /\ retrying = "mark"
  /\ att' = IF att.state = "failed" /\ ~att.bound /\ "original" \in att.keys
            THEN [att EXCEPT !.state = "processing"] ELSE att
  /\ retrying' = "enqueue"
  /\ UNCHANGED <<files, job, worker, upload, removing, maintaining, reconciling, faults>>
EnqueueRetried ==
  /\ retrying = "enqueue"
  /\ retrying' = "idle"
  /\ \/ Enqueue /\ UNCHANGED faults
     \/ Fault /\ UNCHANGED job
  /\ UNCHANGED <<att, files, worker, upload, removing, maintaining, reconciling>>

\* bindReady, in the transaction that stores the message.
Bind ==
  /\ att.state = "ready" /\ ~att.bound
  /\ att' = [att EXCEPT !.bound = TRUE]
  /\ UNCHANGED <<files, job, worker, requests, maintaining, reconciling, faults>>

\* revokeMessageAttachments.  The files are left to the maintenance: no worker
\* claims the cleanup job that is queued with it.
DeleteMessage ==
  /\ att.bound /\ att.state # "deleted"
  /\ att' = [att EXCEPT !.state = "deleted"]
  /\ UNCHANGED <<files, job, worker, requests, maintaining, reconciling, faults>>

\* Faulty: a bound attachment is not deleted, but its files go.
Remove_Unbound ==
  /\ removing = "idle" /\ att.state \notin {"none", "deleted"}
  /\ att' = IF att.bound THEN att ELSE [att EXCEPT !.state = "deleted"]
  /\ removing' = "files"
  /\ UNCHANGED <<files, job, worker, upload, retrying, maintaining, reconciling, faults>>

\* remove: deleted, then without files, then without keys.
Remove ==
  /\ removing = "idle" /\ att.state \notin {"none", "deleted"}
  /\ att' = [att EXCEPT !.state = "deleted"]
  /\ removing' = "files"
  /\ UNCHANGED <<files, job, worker, upload, retrying, maintaining, reconciling, faults>>
RemoveFiles ==
  /\ removing = "files"
  /\ \/ files' = {} /\ UNCHANGED faults
     \/ Fault /\ UNCHANGED files
  /\ removing' = "clear"
  /\ UNCHANGED <<att, job, worker, upload, retrying, maintaining, reconciling>>
ClearRemoved ==
  /\ removing = "clear"
  /\ att' = [att EXCEPT !.keys = {}]
  /\ removing' = "idle"
  /\ UNCHANGED <<files, job, worker, upload, retrying, maintaining, reconciling, faults>>

\* The API process dies, and its requests with it.
ApiCrash ==
  /\ requests # <<"idle", "idle", "idle">>
  /\ Fault
  /\ upload' = "idle" /\ retrying' = "idle" /\ removing' = "idle"
  /\ UNCHANGED <<att, files, job, worker, maintaining, reconciling>>

-----------------------------------------------------------------------------
(* The workers (media-processing.ts, media-job.repository.ts). *)

\* Faulty: the fence stays where it was.
Claim_SameFence(w) ==
  /\ worker[w].pc = "idle"
  /\ \/ job.state = "pending" /\ job.due
     \/ job.state = "processing" /\ ~job.live
  /\ job' = [job EXCEPT !.state = "processing", !.owner = w, !.live = TRUE, !.attempts = @ + 1]
  /\ worker' = [worker EXCEPT ![w] = [pc |-> "queued", n |-> job.n, token |-> job.token]]
  /\ UNCHANGED <<att, files, requests, maintaining, reconciling, faults>>

\* claimBatch: what is due, and what nobody renewed.
Claim(w) ==
  /\ worker[w].pc = "idle"
  /\ \/ job.state = "pending" /\ job.due
     \/ job.state = "processing" /\ ~job.live
  /\ job' = [job EXCEPT !.state = "processing", !.owner = w, !.live = TRUE,
                        !.token = @ + 1, !.attempts = @ + 1]
  /\ worker' = [worker EXCEPT ![w] = [pc |-> "queued", n |-> job.n, token |-> job.token + 1]]
  /\ UNCHANGED <<att, files, requests, maintaining, reconciling, faults>>

Holds(w) == worker[w].pc # "idle" /\ worker[w].n = job.n /\ worker[w].token = job.token

\* A lease runs out once nobody works on the job, or when its renewals fail, or
\* before the rest of the batch lets its turn come.
LeaseExpires ==
  /\ job.state = "processing" /\ job.live
  /\ job' = [job EXCEPT !.live = FALSE]
  /\ IF \E w \in Workers : Holds(w) THEN Fault ELSE UNCHANGED faults
  /\ UNCHANGED <<att, files, worker, requests, maintaining, reconciling>>

\* available_at of a failed attempt passes.
Due ==
  /\ job.state = "pending" /\ ~job.due
  /\ job' = [job EXCEPT !.due = TRUE]
  /\ UNCHANGED <<att, files, worker, requests, maintaining, reconciling, faults>>

\* ownedJob.
Owned(w) ==
  /\ job.state = "processing" /\ job.owner = w /\ job.live
  /\ job.n = worker[w].n /\ job.token = worker[w].token

To(w, pc) == worker' = [worker EXCEPT ![w].pc = pc]
Leave(w) == worker' = [worker EXCEPT ![w] = Free]

\* Faulty: a state of the attachment for one of the job.
Release_Failed(state) ==
  [job EXCEPT !.state = IF state = "dead" THEN "failed" ELSE state,
              !.owner = NoWorker, !.live = FALSE]
Release(state) == [job EXCEPT !.state = state, !.owner = NoWorker, !.live = FALSE]

\* The turn of the job comes: an attachment that no longer waits is let go.
Find(w) ==
  /\ worker[w].pc = "queued"
  /\ To(w, IF att.state = "processing" THEN "read" ELSE "done")
  /\ UNCHANGED <<att, files, job, requests, maintaining, reconciling, faults>>

Complete(w) ==
  /\ worker[w].pc = "done"
  /\ \E o \in Outcomes :
       /\ Suffers(o)
       /\ job' = IF Owned(w) /\ o # "failed" THEN Release("completed") ELSE job
       /\ IF o = "done" THEN Leave(w) ELSE To(w, "fail")
  /\ UNCHANGED <<att, files, requests, maintaining, reconciling>>

\* openRead and transform: an image may be beyond it, or beyond its time.
Read(w) ==
  /\ worker[w].pc = "read"
  /\ \/ "original" \in files /\ To(w, "save")
     \/ To(w, "fail")
  /\ UNCHANGED <<att, files, job, requests, maintaining, reconciling, faults>>

Save(w) ==
  /\ worker[w].pc = "save"
  /\ files' = files \cup {"derived"}
  /\ To(w, "commit")
  /\ UNCHANGED <<att, job, requests, maintaining, reconciling, faults>>

\* Faulty: whatever became of the attachment in the meantime.
CompleteProcessing_AnyState(w) ==
  /\ worker[w].pc = "commit"
  /\ \E o \in Outcomes :
       /\ Suffers(o)
       /\ IF Owned(w) /\ o # "failed"
          THEN /\ att' = [att EXCEPT !.state = "ready", !.keys = @ \cup {"derived"}]
               /\ job' = Release("completed")
          ELSE UNCHANGED <<att, job>>
       /\ IF o = "done" THEN Leave(w) ELSE To(w, "fail")
  /\ UNCHANGED <<files, requests, maintaining, reconciling>>

\* completeProcessing: ready and completed in one transaction, under the lease.
CompleteProcessing(w) ==
  LET ready == Owned(w) /\ att.state = "processing" IN
  /\ worker[w].pc = "commit"
  /\ \E o \in Outcomes :
       /\ Suffers(o)
       /\ IF ready /\ o # "failed"
          THEN /\ att' = [att EXCEPT !.state = "ready", !.keys = @ \cup {"derived"}]
               /\ job' = Release("completed")
          ELSE UNCHANGED <<att, job>>
       /\ IF o = "done" /\ (ready \/ ~Owned(w)) THEN Leave(w) ELSE To(w, "fail")
  /\ UNCHANGED <<files, requests, maintaining, reconciling>>

\* Faulty: one attempt too many.
Fail_OneMore(w) ==
  /\ worker[w].pc = "fail"
  /\ \E o \in Outcomes :
       /\ Suffers(o)
       /\ job' = IF ~Owned(w) \/ o = "failed" THEN job
                 ELSE IF job.attempts <= MaxAttempts THEN [Release("pending") EXCEPT !.due = FALSE]
                 ELSE Release("dead")
       /\ IF Owned(w) /\ o = "done" /\ job.attempts > MaxAttempts
          THEN To(w, "markFailed") ELSE Leave(w)
  /\ UNCHANGED <<att, files, requests, maintaining, reconciling>>

\* fail: later again, or never.  When the call throws, the process goes down.
Fail(w) ==
  /\ worker[w].pc = "fail"
  /\ \E o \in Outcomes :
       /\ Suffers(o)
       /\ job' = IF ~Owned(w) \/ o = "failed" THEN job
                 ELSE IF job.attempts < MaxAttempts THEN [Release("pending") EXCEPT !.due = FALSE]
                 ELSE Release("dead")
       /\ IF Owned(w) /\ o = "done" /\ job.attempts >= MaxAttempts
          THEN To(w, "markFailed") ELSE Leave(w)
  /\ UNCHANGED <<att, files, requests, maintaining, reconciling>>

\* markFailed, by a worker that no longer holds a lease.
GiveUp(w) ==
  /\ worker[w].pc = "markFailed"
  /\ \/ MarkFailed /\ UNCHANGED faults
     \/ Fault /\ UNCHANGED att
  /\ Leave(w)
  /\ UNCHANGED <<files, job, requests, maintaining, reconciling>>

WorkerCrash(w) ==
  /\ worker[w].pc # "idle"
  /\ Fault
  /\ Leave(w)
  /\ UNCHANGED <<att, files, job, requests, maintaining, reconciling>>

WorkStep(w) ==
  \/ Claim(w) \/ Find(w) \/ Complete(w) \/ Read(w) \/ Save(w)
  \/ CompleteProcessing(w) \/ Fail(w) \/ GiveUp(w)

-----------------------------------------------------------------------------
(* cleanupOnce (media-maintenance.service.ts). *)

\* CLEANUP_CANDIDATE_PREDICATE; an hour, or a day, may pass between any two steps.
Abandoned ==
  \/ att.state \in {"uploading", "failed"}
  \/ att.state = "ready" /\ ~att.bound

\* Faulty: only what has yet to be deleted.
ListCandidates_Undeleted ==
  /\ maintaining = "idle"
  /\ Abandoned
  /\ maintaining' = "mark"
  /\ UNCHANGED <<att, files, job, worker, requests, reconciling, faults>>

ListCandidates ==
  /\ maintaining = "idle"
  /\ Abandoned \/ att.state = "deleted"
  /\ maintaining' = "mark"
  /\ UNCHANGED <<att, files, job, worker, requests, reconciling, faults>>

\* Faulty: the listing is taken at its word.
MarkCleanup_AsListed ==
  /\ maintaining = "mark"
  /\ att' = [att EXCEPT !.state = "deleted"]
  /\ maintaining' = "files"
  /\ UNCHANGED <<files, job, worker, requests, reconciling, faults>>

\* markCleanupDeleted looks again.
MarkCleanup ==
  /\ maintaining = "mark"
  /\ att' = IF Abandoned THEN [att EXCEPT !.state = "deleted"] ELSE att
  /\ maintaining' = IF Abandoned \/ att.state = "deleted" THEN "files" ELSE "idle"
  /\ UNCHANGED <<files, job, worker, requests, reconciling, faults>>

CleanFiles ==
  /\ maintaining = "files"
  /\ files' = {}
  /\ maintaining' = "clear"
  /\ UNCHANGED <<att, job, worker, requests, reconciling, faults>>
ClearCleaned ==
  /\ maintaining = "clear"
  /\ att' = [att EXCEPT !.keys = {}]
  /\ maintaining' = "idle"
  /\ UNCHANGED <<files, job, worker, requests, reconciling, faults>>

MaintenanceCrash ==
  /\ maintaining # "idle"
  /\ Fault
  /\ maintaining' = "idle"
  /\ UNCHANGED <<att, files, job, worker, requests, reconciling>>

MaintenanceStep == ListCandidates \/ MarkCleanup \/ CleanFiles \/ ClearCleaned

-----------------------------------------------------------------------------
(* reconcile (media-reconciliation.service.ts). *)

\* Faulty: a job of any state will do.
ListLost_NoJob ==
  /\ reconciling.pc = "idle"
  /\ reconciling' = [NoPass EXCEPT !.pc = IF att.state = "processing" /\ job.state = "none"
                                         THEN "enqueue" ELSE "keys"]
  /\ UNCHANGED <<att, files, job, worker, requests, maintaining, faults>>

\* listProcessingWithoutActiveJob.
ListLost ==
  /\ reconciling.pc = "idle"
  /\ reconciling' = [NoPass EXCEPT !.pc = IF att.state = "processing" /\ ~Live
                                         THEN "enqueue" ELSE "keys"]
  /\ UNCHANGED <<att, files, job, worker, requests, maintaining, faults>>
EnqueueLost ==
  /\ reconciling.pc = "enqueue"
  /\ Enqueue
  /\ reconciling' = [reconciling EXCEPT !.pc = "keys"]
  /\ UNCHANGED <<att, files, worker, requests, maintaining, faults>>

\* The keys are read first, and then the files.
ReadKeys ==
  /\ reconciling.pc = "keys"
  /\ reconciling' = [reconciling EXCEPT !.pc = "files", !.keys = att.keys]
  /\ UNCHANGED <<att, files, job, worker, requests, maintaining, faults>>
ReadFiles ==
  LET missing == reconciling.keys \ files IN
  /\ reconciling.pc = "files"
  /\ reconciling' = [pc |-> IF missing # {} THEN "missing" ELSE "orphans",
                     keys |-> {}, orphans |-> files \ reconciling.keys]
  /\ UNCHANGED <<att, files, job, worker, requests, maintaining, faults>>

\* Faulty: drafts only.
FindMissing_Drafts ==
  /\ reconciling.pc = "missing"
  /\ reconciling' = [reconciling EXCEPT !.pc = IF att.state = "ready" /\ ~att.bound
                                              THEN "unavailable" ELSE "orphans"]
  /\ UNCHANGED <<att, files, job, worker, requests, maintaining, faults>>
FindMissing ==
  /\ reconciling.pc = "missing"
  /\ reconciling' = [reconciling EXCEPT !.pc = IF att.state = "ready" THEN "unavailable"
                                              ELSE "orphans"]
  /\ UNCHANGED <<att, files, job, worker, requests, maintaining, faults>>
MarkUnavailable ==
  /\ reconciling.pc = "unavailable"
  /\ MarkFailed
  /\ reconciling' = [reconciling EXCEPT !.pc = "orphans"]
  /\ UNCHANGED <<files, job, worker, requests, maintaining, faults>>

\* A file that had no key when the keys were read.
RemoveOrphan ==
  /\ reconciling.pc = "orphans"
  /\ \/ /\ reconciling.orphans = {}
        /\ reconciling' = NoPass
        /\ UNCHANGED files
     \/ \E v \in reconciling.orphans :
          /\ files' = files \ {v}
          /\ reconciling' = [reconciling EXCEPT !.orphans = @ \ {v}]
  /\ UNCHANGED <<att, job, worker, requests, maintaining, faults>>

\* Any of its calls may throw.
ReconciliationCrash ==
  /\ reconciling.pc # "idle"
  /\ Fault
  /\ reconciling' = NoPass
  /\ UNCHANGED <<att, files, job, worker, requests, maintaining>>

ReconciliationStep ==
  \/ ListLost \/ EnqueueLost \/ ReadKeys \/ ReadFiles
  \/ FindMissing \/ MarkUnavailable \/ RemoveOrphan

-----------------------------------------------------------------------------
RequestStep ==
  \/ SaveOriginal \/ MarkUploaded \/ EnqueueUploaded \/ Unsave \/ UploadFails
  \/ RetryProcessing \/ EnqueueRetried \/ RemoveFiles \/ ClearRemoved

Next ==
  \/ CreateSlot \/ Upload \/ Retry \/ Bind \/ DeleteMessage \/ Remove
  \/ RequestStep \/ ApiCrash
  \/ \E w \in Workers : WorkStep(w) \/ WorkerCrash(w)
  \/ LeaseExpires \/ Due
  \/ MaintenanceStep \/ MaintenanceCrash
  \/ ReconciliationStep \/ ReconciliationCrash

Spec == Init /\ [][Next]_vars

\* Processes run, and are run again; time passes.  What people do is up to them.
Fairness ==
  /\ WF_vars(RequestStep)
  /\ \A w \in Workers : WF_vars(WorkStep(w))
  /\ WF_vars(LeaseExpires /\ UNCHANGED faults) /\ WF_vars(Due)
  /\ WF_vars(MaintenanceStep) /\ WF_vars(ReconciliationStep)

FairSpec == Spec /\ Fairness

-----------------------------------------------------------------------------
\* Attachment, job, requests and workers keep to the states the code gives them.
MediaTypeOK ==
  /\ att \in Att /\ files \subseteq Variants /\ job \in Job
  /\ worker \in [Workers -> Work]
  /\ upload \in {"idle", "save", "mark", "enqueue", "unsave", "markFailed"}
  /\ retrying \in {"idle", "mark", "enqueue"}
  /\ removing \in {"idle", "files", "clear"}
  /\ maintaining \in {"idle", "mark", "files", "clear"}
  /\ reconciling \in Pass
  /\ faults \in 0..MaxFaults

\* No two workers hold the same claim of a job: each claim moves the fence
\* (claimBatch).
OneHolder ==
  \A w, x \in Workers :
    w # x /\ worker[w].pc # "idle" /\ worker[x].pc # "idle" =>
      <<worker[w].n, worker[w].token>> # <<worker[x].n, worker[x].token>>

\* Attempts run over their maximum only by leases that were lost: claimBatch does
\* not look at them, fail does.
AttemptsBounded == job.attempts <= MaxAttempts + faults

\* What is deleted stays deleted, whatever an upload, a retry or a worker that
\* began before goes on to write (attachment.repository.ts).
DeletedIsFinal == [][att.state = "deleted" => att'.state = "deleted"]_vars

\* The maintenance deletes no image that a message shows, even when it was bound
\* after it was listed; one that failed since goes (CLEANUP_CANDIDATE_PREDICATE).
BoundIsKept == [][MarkCleanup /\ att.bound /\ att.state = "ready" => att' = att]_vars

\* A ready attachment loses a file only to an upload that was taken for failed,
\* and to a reconciliation that read its keys before they were written: removal
\* and maintenance delete the row first.
LossHasCause ==
  [][att.state = "ready" /\ att'.state = "ready" /\ ~(att.keys \cap files \subseteq files')
       => Unsave \/ RemoveOrphan]_vars

\* A processing attachment becomes ready, fails or is deleted.
ProcessingEnds == att.state = "processing" ~> att.state # "processing"

\* The files of a deleted attachment go, those a worker stores afterwards included.
DeletedFilesGo == att.state = "deleted" ~> [](files = {})

\* A ready attachment that lost a file is found out, unless a worker that comes late
\* stores it again.
LossIsNoticed ==
  LET Broken == att.state = "ready" /\ ~(att.keys \subseteq files)
  IN  Broken ~> ~Broken

\* What reconciliation removes as an orphan is no file of a ready attachment
\* (media-reconcile.test.ts: "orphans are removed").
OrphansAreOrphans ==
  [][RemoveOrphan /\ att.state = "ready" => att.keys \cap files \subseteq files']_vars
=============================================================================
