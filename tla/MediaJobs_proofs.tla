---------------------------- MODULE MediaJobs_proofs ----------------------------
(********************************************************************************)
(* What holds of an image for any number of workers, attempts, jobs and faults. *)
(********************************************************************************)
EXTENDS MediaJobs, TLAPS

-----------------------------------------------------------------------------
(* Types. *)

\* The state as its parts.
Row == att \in Att /\ files \subseteq Variants
Queue == job \in Job
Requests ==
  /\ upload \in {"idle", "save", "mark", "enqueue", "unsave", "markFailed"}
  /\ retrying \in {"idle", "mark", "enqueue"}
  /\ removing \in {"idle", "files", "clear"}
Background == maintaining \in {"idle", "mark", "files", "clear"} /\ reconciling \in Pass
Workforce == worker \in [Workers -> Work]
Faults == faults \in 0..MaxFaults

LEMMA TypeParts ==
  MediaTypeOK <=> Row /\ Queue /\ Requests /\ Background /\ Workforce /\ Faults
BY DEF MediaTypeOK, Row, Queue, Requests, Background, Workforce, Faults

LEMMA FaultType ==
  ASSUME Faults, Fault \/ UNCHANGED faults \/ \E o \in Outcomes : Suffers(o)
  PROVE  Faults'
BY MediaAssumption DEF Faults, Fault, Suffers

LEMMA MarkFailedType ==
  ASSUME Row, MarkFailed, files' \subseteq Variants
  PROVE  Row'
BY DEF Row, MarkFailed, Att, AttStates

LEMMA NewStateType ==
  ASSUME Row, files' \subseteq Variants, NEW s \in AttStates, att' = [att EXCEPT !.state = s]
  PROVE  Row'
BY DEF Row, Att, AttStates

LEMMA EnqueueType ==
  ASSUME Queue, Enqueue
  PROVE  Queue'
<1>1. CASE Live
  BY <1>1 DEF Queue, Enqueue
<1>2. CASE ~Live
  <2>1. job.n + 1 \in Nat
    BY DEF Queue, Job
  <2>2. [NoJob EXCEPT !.state = "pending", !.n = job.n + 1, !.due = TRUE] \in Job
    BY <2>1 DEF NoJob, Job
  <2> QED BY <1>2, <2>2 DEF Queue, Enqueue
<1> QED BY <1>1, <1>2

LEMMA ReleaseType ==
  ASSUME Queue, NEW s \in {"pending", "completed", "dead"}
  PROVE  Release(s) \in Job /\ [Release(s) EXCEPT !.due = FALSE] \in Job
BY DEF Queue, Release, Job

LEMMA WorkType ==
  ASSUME Workforce, NEW w \in Workers, Leave(w) \/ \E pc \in WorkPcs : To(w, pc)
  PROVE  Workforce'
<1>1. CASE Leave(w)
  BY <1>1 DEF Workforce, Leave, Free, Work, WorkPcs
<1>2. ASSUME NEW pc \in WorkPcs, To(w, pc) PROVE Workforce'
  <2>1. [worker[w] EXCEPT !.pc = pc] \in Work
    BY DEF Workforce, Work
  <2> QED BY <1>2, <2>1 DEF Workforce, To
<1> QED BY <1>1, <1>2

LEMMA OwnerTypes ==
  ASSUME MediaTypeOK,
         \/ CreateSlot \/ Upload \/ Retry \/ Bind \/ DeleteMessage \/ Remove
         \/ RequestStep \/ ApiCrash
  PROVE  MediaTypeOK'
<1> SUFFICES Row' /\ Queue' /\ Requests' /\ Background' /\ Workforce' /\ Faults'
  BY DEF MediaTypeOK, Row, Queue, Requests, Background, Workforce, Faults
<1>0. Row /\ Queue /\ Requests /\ Background /\ Workforce /\ Faults
  BY TypeParts
<1>1. Background' /\ Workforce'
  BY <1>0 DEF requests, RequestStep, CreateSlot, Upload, Retry, Bind, DeleteMessage, Remove, ApiCrash,
       SaveOriginal, MarkUploaded, EnqueueUploaded, Unsave, UploadFails, RetryProcessing,
       EnqueueRetried, RemoveFiles, ClearRemoved, Background, Workforce
<1>2. Requests'
  BY <1>0 DEF requests, RequestStep, CreateSlot, Upload, Retry, Bind, DeleteMessage, Remove, ApiCrash,
       SaveOriginal, MarkUploaded, EnqueueUploaded, Unsave, UploadFails, RetryProcessing,
       EnqueueRetried, RemoveFiles, ClearRemoved, Requests
<1>3. Faults'
  <2>1. Fault \/ UNCHANGED faults \/ \E o \in Outcomes : Suffers(o)
    BY DEF RequestStep, CreateSlot, Upload, Retry, Bind, DeleteMessage, Remove, ApiCrash,
         SaveOriginal, MarkUploaded, EnqueueUploaded, Unsave, UploadFails, RetryProcessing,
         EnqueueRetried, RemoveFiles, ClearRemoved
  <2> QED BY <1>0, <2>1, FaultType
<1>4. Queue'
  <2>1. Enqueue \/ UNCHANGED job
    BY DEF RequestStep, CreateSlot, Upload, Retry, Bind, DeleteMessage, Remove, ApiCrash,
         SaveOriginal, MarkUploaded, EnqueueUploaded, Unsave, UploadFails, RetryProcessing,
         EnqueueRetried, RemoveFiles, ClearRemoved
  <2>2. CASE UNCHANGED job
    BY <1>0, <2>2 DEF Queue
  <2> QED BY <1>0, <2>1, <2>2, EnqueueType
<1>5. Row'
  <2>1. files' \subseteq Variants
    BY <1>0 DEF Row, RequestStep, CreateSlot, Upload, Retry, Bind, DeleteMessage, Remove, ApiCrash,
         SaveOriginal, MarkUploaded, EnqueueUploaded, Unsave, UploadFails, RetryProcessing,
         EnqueueRetried, RemoveFiles, ClearRemoved, Variants
  <2>2. \/ UNCHANGED att
        \/ MarkFailed
        \/ \E s \in AttStates : att' = [att EXCEPT !.state = s]
        \/ att' = [att EXCEPT !.state = "processing", !.keys = @ \cup {"original"}]
        \/ att' = [att EXCEPT !.bound = TRUE]
        \/ att' = [att EXCEPT !.keys = {}]
    BY DEF RequestStep, CreateSlot, Upload, Retry, Bind, DeleteMessage, Remove, ApiCrash,
         SaveOriginal, MarkUploaded, EnqueueUploaded, Unsave, UploadFails, RetryProcessing,
         EnqueueRetried, RemoveFiles, ClearRemoved, AttStates
  <2>3. CASE UNCHANGED att
    BY <1>0, <2>1, <2>3 DEF Row
  <2>4. CASE att' = [att EXCEPT !.state = "processing", !.keys = @ \cup {"original"}]
    BY <1>0, <2>1, <2>4 DEF Row, Att, AttStates, Variants
  <2>5. CASE att' = [att EXCEPT !.bound = TRUE] \/ att' = [att EXCEPT !.keys = {}]
    BY <1>0, <2>1, <2>5 DEF Row, Att
  <2> QED BY <1>0, <2>1, <2>2, <2>3, <2>4, <2>5, MarkFailedType, NewStateType
<1> QED BY <1>1, <1>2, <1>3, <1>4, <1>5

LEMMA WorkTypes ==
  ASSUME MediaTypeOK, NEW w \in Workers, WorkStep(w) \/ WorkerCrash(w)
  PROVE  MediaTypeOK'
<1> SUFFICES Row' /\ Queue' /\ Requests' /\ Background' /\ Workforce' /\ Faults'
  BY DEF MediaTypeOK, Row, Queue, Requests, Background, Workforce, Faults
<1>0. Row /\ Queue /\ Requests /\ Background /\ Workforce /\ Faults
  BY TypeParts
<1>1. Requests' /\ Background'
  BY <1>0 DEF requests, WorkStep, WorkerCrash, Claim, Find, Complete, Read, Save, CompleteProcessing,
       Fail, GiveUp, Requests, Background
<1>2. Faults'
  <2>1. Fault \/ UNCHANGED faults \/ \E o \in Outcomes : Suffers(o)
    BY DEF WorkStep, WorkerCrash, Claim, Find, Complete, Read, Save, CompleteProcessing, Fail, GiveUp
  <2> QED BY <1>0, <2>1, FaultType
<1>3. CASE Claim(w)
  <2>1. job.n \in Nat /\ job.token + 1 \in Nat /\ job.attempts + 1 \in Nat
    BY <1>0 DEF Queue, Job
  <2>2. Queue'
    BY <1>0, <1>3, <2>1 DEF Claim, Queue, Job
  <2>3. [pc |-> "queued", n |-> job.n, token |-> job.token + 1] \in Work
    BY <2>1 DEF Work, WorkPcs
  <2>4. Workforce'
    BY <1>0, <1>3, <2>3 DEF Claim, Workforce
  <2>5. Row'
    BY <1>0, <1>3 DEF Claim, Row
  <2> QED BY <1>1, <1>2, <2>2, <2>4, <2>5
<1>4. CASE ~Claim(w)
  <2>1. Workforce'
    <3>1. Leave(w) \/ \E pc \in WorkPcs : To(w, pc)
      BY <1>4 DEF WorkStep, WorkerCrash, Find, Complete, Read, Save, CompleteProcessing,
           Fail, GiveUp, WorkPcs
    <3> QED BY <1>0, <3>1, WorkType
  <2>2. Queue'
    <3>1. \/ UNCHANGED job
          \/ \E s \in {"pending", "completed", "dead"} :
               job' = Release(s) \/ job' = [Release(s) EXCEPT !.due = FALSE]
      BY <1>4 DEF WorkStep, WorkerCrash, Find, Complete, Read, Save, CompleteProcessing,
           Fail, GiveUp
    <3> QED BY <1>0, <3>1, ReleaseType DEF Queue
  <2>3. Row'
    <3>1. files' \subseteq Variants
      BY <1>0, <1>4 DEF WorkStep, WorkerCrash, Find, Complete, Read, Save, CompleteProcessing,
           Fail, GiveUp, Row, Variants
    <3>2. \/ UNCHANGED att
          \/ MarkFailed
          \/ att' = [att EXCEPT !.state = "ready", !.keys = @ \cup {"derived"}]
      BY <1>4 DEF WorkStep, WorkerCrash, Find, Complete, Read, Save, CompleteProcessing,
           Fail, GiveUp
    <3>3. CASE att' = [att EXCEPT !.state = "ready", !.keys = @ \cup {"derived"}]
      BY <1>0, <3>1, <3>3 DEF Row, Att, AttStates, Variants
    <3>4. CASE UNCHANGED att
      BY <1>0, <3>1, <3>4 DEF Row
    <3> QED BY <1>0, <3>1, <3>2, <3>3, <3>4, MarkFailedType
  <2> QED BY <1>1, <1>2, <2>1, <2>2, <2>3
<1> QED BY <1>3, <1>4

LEMMA BackgroundTypes ==
  ASSUME MediaTypeOK,
         \/ LeaseExpires \/ Due
         \/ MaintenanceStep \/ MaintenanceCrash
         \/ ReconciliationStep \/ ReconciliationCrash
  PROVE  MediaTypeOK'
<1> SUFFICES Row' /\ Queue' /\ Requests' /\ Background' /\ Workforce' /\ Faults'
  BY DEF MediaTypeOK, Row, Queue, Requests, Background, Workforce, Faults
<1>0. Row /\ Queue /\ Requests /\ Background /\ Workforce /\ Faults
  BY TypeParts
<1>1. Requests' /\ Workforce'
  BY <1>0 DEF requests, LeaseExpires, Due, MaintenanceStep, MaintenanceCrash, ReconciliationStep,
       ReconciliationCrash, ListCandidates, MarkCleanup, CleanFiles, ClearCleaned, ListLost,
       EnqueueLost, ReadKeys, ReadFiles, FindMissing, MarkUnavailable, RemoveOrphan, Requests, Workforce
<1>2. Faults'
  <2>1. Fault \/ UNCHANGED faults
    BY DEF LeaseExpires, Due, MaintenanceStep, MaintenanceCrash, ReconciliationStep,
       ReconciliationCrash, ListCandidates, MarkCleanup, CleanFiles, ClearCleaned, ListLost,
       EnqueueLost, ReadKeys, ReadFiles, FindMissing, MarkUnavailable, RemoveOrphan
  <2> QED BY <1>0, <2>1, FaultType
<1>3. Queue'
  <2>1. \/ UNCHANGED job \/ Enqueue
        \/ job' = [job EXCEPT !.live = FALSE]
        \/ job' = [job EXCEPT !.due = TRUE]
    BY DEF LeaseExpires, Due, MaintenanceStep, MaintenanceCrash, ReconciliationStep,
       ReconciliationCrash, ListCandidates, MarkCleanup, CleanFiles, ClearCleaned, ListLost,
       EnqueueLost, ReadKeys, ReadFiles, FindMissing, MarkUnavailable, RemoveOrphan
  <2>2. CASE UNCHANGED job
    BY <1>0, <2>2 DEF Queue
  <2>3. CASE job' = [job EXCEPT !.live = FALSE] \/ job' = [job EXCEPT !.due = TRUE]
    BY <1>0, <2>3 DEF Queue, Job
  <2> QED BY <1>0, <2>1, <2>2, <2>3, EnqueueType
<1>4. Row'
  <2>1. files' \subseteq Variants
    BY <1>0 DEF LeaseExpires, Due, MaintenanceStep, MaintenanceCrash, ReconciliationStep,
       ReconciliationCrash, ListCandidates, MarkCleanup, CleanFiles, ClearCleaned, ListLost,
       EnqueueLost, ReadKeys, ReadFiles, FindMissing, MarkUnavailable, RemoveOrphan, Row
  <2>2. \/ UNCHANGED att \/ MarkFailed
        \/ att' = [att EXCEPT !.state = "deleted"]
        \/ att' = [att EXCEPT !.keys = {}]
    BY DEF LeaseExpires, Due, MaintenanceStep, MaintenanceCrash, ReconciliationStep,
       ReconciliationCrash, ListCandidates, MarkCleanup, CleanFiles, ClearCleaned, ListLost,
       EnqueueLost, ReadKeys, ReadFiles, FindMissing, MarkUnavailable, RemoveOrphan
  <2>3. CASE UNCHANGED att \/ att' = [att EXCEPT !.keys = {}]
    BY <1>0, <2>1, <2>3 DEF Row, Att
  <2>4. "deleted" \in AttStates
    BY DEF AttStates
  <2> QED BY <1>0, <2>1, <2>2, <2>3, <2>4, MarkFailedType, NewStateType
<1>5. Background'
  <2>1. CASE MaintenanceStep \/ MaintenanceCrash \/ LeaseExpires \/ Due
    BY <1>0, <2>1 DEF LeaseExpires, Due, MaintenanceStep, MaintenanceCrash, ListCandidates,
         MarkCleanup, CleanFiles, ClearCleaned, Background
  <2>2. CASE ReconciliationStep \/ ReconciliationCrash
    <3>0. reconciling \in Pass /\ att.keys \subseteq Variants /\ files \subseteq Variants
      BY <1>0 DEF Background, Row, Att
    <3>1. NoPass \in Pass /\ \A pc \in {"enqueue", "keys"} : [NoPass EXCEPT !.pc = pc] \in Pass
      BY DEF NoPass, Pass
    <3>2. reconciling' \in Pass
      <4>1. CASE ListLost
        BY <3>1, <4>1 DEF ListLost
      <4>2. CASE EnqueueLost \/ FindMissing \/ MarkUnavailable
        BY <3>0, <4>2 DEF EnqueueLost, FindMissing, MarkUnavailable, Pass
      <4>3. CASE ReadKeys
        BY <3>0, <4>3 DEF ReadKeys, Pass
      <4>4. CASE ReadFiles
        BY <3>0, <4>4 DEF ReadFiles, Pass
      <4>5. CASE RemoveOrphan
        BY <3>0, <3>1, <4>5 DEF RemoveOrphan, Pass
      <4>6. CASE ReconciliationCrash
        BY <3>1, <4>6 DEF ReconciliationCrash
      <4> QED BY <2>2, <4>1, <4>2, <4>3, <4>4, <4>5, <4>6 DEF ReconciliationStep
    <3>3. UNCHANGED maintaining
      BY <2>2 DEF ReconciliationStep, ReconciliationCrash, ListLost,
           EnqueueLost, ReadKeys, ReadFiles, FindMissing, MarkUnavailable, RemoveOrphan
    <3> QED BY <1>0, <3>2, <3>3 DEF Background
  <2> QED BY <2>1, <2>2
<1> QED BY <1>1, <1>2, <1>3, <1>4, <1>5

\* Every variable stays in its type.
THEOREM MediaTypes == Spec => []MediaTypeOK
<1>1. Init => MediaTypeOK
  <2> SUFFICES ASSUME Init PROVE MediaTypeOK
    OBVIOUS
  <2>1. NoJob \in Job /\ Free \in Work /\ NoPass \in Pass
    BY DEF NoJob, Job, Free, Work, WorkPcs, NoPass, Pass
  <2>2. att \in Att /\ faults \in 0..MaxFaults
    BY MediaAssumption DEF Init, Att, AttStates
  <2> QED BY <2>1, <2>2 DEF Init, MediaTypeOK
<1>2. MediaTypeOK /\ [Next]_vars => MediaTypeOK'
  <2>1. CASE UNCHANGED vars
    BY <2>1 DEF vars, MediaTypeOK
  <2>2. CASE Next
    BY <2>2, OwnerTypes, WorkTypes, BackgroundTypes DEF Next
  <2> QED BY <2>1, <2>2
<1> QED BY <1>1, <1>2, PTL DEF Spec

-----------------------------------------------------------------------------
(* Deletion. *)

\* What is deleted stays so, whatever was under way.
THEOREM DeletionIsFinal == Spec => DeletedIsFinal
<1>1. MediaTypeOK /\ [Next]_vars => (att.state = "deleted" => att'.state = "deleted")
  <2> SUFFICES ASSUME MediaTypeOK, [Next]_vars, att.state = "deleted"
               PROVE  att'.state = "deleted"
    OBVIOUS
  <2>0. att \in Att
    BY DEF MediaTypeOK
  <2>k. /\ att' = [att EXCEPT !.keys = {}] => att'.state = "deleted"
        /\ att' = [att EXCEPT !.bound = TRUE] => att'.state = "deleted"
        /\ att' = [att EXCEPT !.state = "deleted"] => att'.state = "deleted"
    BY <2>0 DEF Att
  <2>m. MarkFailed => att'.state = "deleted"
    BY DEF MarkFailed
  <2>1. CASE UNCHANGED vars
    BY <2>1 DEF vars
  <2>2. CASE CreateSlot \/ Upload \/ Retry \/ Bind \/ DeleteMessage \/ Remove \/ RequestStep \/ ApiCrash
    BY <2>2, <2>k, <2>m DEF RequestStep, CreateSlot, Upload, Retry, Bind, DeleteMessage, Remove,
         ApiCrash, SaveOriginal, MarkUploaded, EnqueueUploaded, Unsave, UploadFails,
         RetryProcessing, EnqueueRetried, RemoveFiles, ClearRemoved
  <2>3. ASSUME NEW w \in Workers, WorkStep(w) \/ WorkerCrash(w) PROVE att'.state = "deleted"
    BY <2>3, <2>m DEF WorkStep, WorkerCrash, Claim, Find, Complete, Read, Save,
         CompleteProcessing, Fail, GiveUp
  <2>4. CASE LeaseExpires \/ Due \/ MaintenanceStep \/ MaintenanceCrash
             \/ ReconciliationStep \/ ReconciliationCrash
    BY <2>4, <2>k, <2>m DEF LeaseExpires, Due, MaintenanceStep, MaintenanceCrash,
         ReconciliationStep, ReconciliationCrash, ListCandidates, MarkCleanup, CleanFiles,
         ClearCleaned, ListLost, EnqueueLost, ReadKeys, ReadFiles, FindMissing,
         MarkUnavailable, RemoveOrphan
  <2> QED BY <2>1, <2>2, <2>3, <2>4 DEF Next
<1> QED BY <1>1, MediaTypes, PTL DEF Spec, DeletedIsFinal

-----------------------------------------------------------------------------
(* Loss. *)

\* The maintenance looks at the row again before it deletes it.
THEOREM BoundStays == Spec => BoundIsKept
<1>1. [Next]_vars => [MarkCleanup /\ att.bound /\ att.state = "ready" => att' = att]_vars
  BY DEF MarkCleanup, Abandoned
<1> QED BY <1>1, PTL DEF Spec, BoundIsKept

\* Who goes on to remove files has deleted the row.
DeletedFirst ==
  /\ removing \in {"files", "clear"} => att.state = "deleted"
  /\ maintaining \in {"files", "clear"} => att.state = "deleted"

LEMMA DeletedFirstStep ==
  ASSUME MediaTypeOK, DeletedFirst, [Next]_vars, att.state = "deleted" => att'.state = "deleted"
  PROVE  DeletedFirst'
<1>0. att \in Att
  BY DEF MediaTypeOK
<1>1. CASE UNCHANGED vars
  BY <1>1 DEF vars, DeletedFirst
<1>2. CASE CreateSlot \/ Upload \/ Retry \/ Bind \/ DeleteMessage \/ Remove \/ RequestStep \/ ApiCrash
  <2>1. CASE Remove
    BY <1>0, <2>1 DEF Remove, DeletedFirst, Att
  <2>2. CASE RemoveFiles \/ ClearRemoved
    BY <2>2 DEF RemoveFiles, ClearRemoved, DeletedFirst
  <2>3. CASE ApiCrash
    BY <2>3 DEF ApiCrash, DeletedFirst
  <2>4. CASE UNCHANGED <<removing, maintaining>>
    BY <2>4 DEF DeletedFirst
  <2> QED
    BY <1>2, <2>1, <2>2, <2>3, <2>4 DEF RequestStep, CreateSlot, Upload, Retry, Bind, DeleteMessage,
       SaveOriginal, MarkUploaded, EnqueueUploaded, Unsave, UploadFails, RetryProcessing,
       EnqueueRetried, requests
<1>3. ASSUME NEW w \in Workers, WorkStep(w) \/ WorkerCrash(w) PROVE DeletedFirst'
  <2>1. UNCHANGED <<removing, maintaining>>
    BY <1>3 DEF WorkStep, WorkerCrash, Claim, Find, Complete, Read, Save,
       CompleteProcessing, Fail, GiveUp, requests
  <2> QED BY <2>1 DEF DeletedFirst
<1>4. CASE LeaseExpires \/ Due \/ ReconciliationStep \/ ReconciliationCrash
  <2>1. UNCHANGED <<removing, maintaining>>
    BY <1>4 DEF LeaseExpires, Due, ReconciliationStep, ReconciliationCrash, ListLost, EnqueueLost,
       ReadKeys, ReadFiles, FindMissing, MarkUnavailable, RemoveOrphan, requests
  <2> QED BY <2>1 DEF DeletedFirst
<1>5. CASE MaintenanceStep \/ MaintenanceCrash
  <2>1. CASE MarkCleanup
    BY <1>0, <2>1 DEF MarkCleanup, DeletedFirst, Att, requests
  <2>2. CASE ListCandidates \/ CleanFiles \/ ClearCleaned \/ MaintenanceCrash
    BY <2>2 DEF ListCandidates, CleanFiles, ClearCleaned, MaintenanceCrash, DeletedFirst, requests
  <2> QED BY <1>5, <2>1, <2>2 DEF MaintenanceStep
<1> QED BY <1>1, <1>2, <1>3, <1>4, <1>5 DEF Next

\* A file of a ready row goes by an upload that was taken for failed, or by a
\* reconciliation, and by nobody else.
THEOREM LossesHaveCause == Spec => LossHasCause
<1>1. Init => DeletedFirst
  BY DEF Init, DeletedFirst
<1>2. MediaTypeOK /\ DeletedFirst /\ [Next]_vars /\ [att.state = "deleted" => att'.state = "deleted"]_vars
        => DeletedFirst'
  BY DeletedFirstStep DEF vars
<1>3. MediaTypeOK /\ DeletedFirst /\ [Next]_vars
        => [att.state = "ready" /\ att'.state = "ready" /\ ~(att.keys \cap files \subseteq files')
              => Unsave \/ RemoveOrphan]_vars
  <2> SUFFICES ASSUME DeletedFirst, Next, att.state = "ready", ~(att.keys \cap files \subseteq files')
               PROVE  Unsave \/ RemoveOrphan
    OBVIOUS
  <2>1. ~(files \subseteq files')
    OBVIOUS
  <2>2. CASE CreateSlot \/ Upload \/ Retry \/ Bind \/ DeleteMessage \/ Remove \/ RequestStep \/ ApiCrash
    BY <2>1, <2>2 DEF RequestStep, CreateSlot, Upload, Retry, Bind, DeleteMessage, Remove,
       ApiCrash, SaveOriginal, MarkUploaded, EnqueueUploaded, Unsave, UploadFails,
       RetryProcessing, EnqueueRetried, RemoveFiles, ClearRemoved, DeletedFirst
  <2>3. ASSUME NEW w \in Workers PROVE ~(WorkStep(w) \/ WorkerCrash(w))
    BY <2>1 DEF WorkStep, WorkerCrash, Claim, Find, Complete, Read, Save, CompleteProcessing, Fail,
       GiveUp
  <2>4. CASE LeaseExpires \/ Due \/ MaintenanceStep \/ MaintenanceCrash
    BY <2>1, <2>4 DEF LeaseExpires, Due, MaintenanceStep, MaintenanceCrash, ListCandidates,
       MarkCleanup, CleanFiles, ClearCleaned, DeletedFirst
  <2>5. CASE ReconciliationStep \/ ReconciliationCrash
    BY <2>1, <2>5 DEF ReconciliationStep, ReconciliationCrash, ListLost, EnqueueLost, ReadKeys,
       ReadFiles, FindMissing, MarkUnavailable
  <2> QED BY <2>2, <2>3, <2>4, <2>5 DEF Next
<1> QED BY <1>1, <1>2, <1>3, MediaTypes, DeletionIsFinal, PTL DEF Spec, DeletedIsFinal, LossHasCause

-----------------------------------------------------------------------------
(* Claims.  The fence of a claim is never ahead of that of the job; who holds a  *)
(* live lease owns it; who gives a job up does not hold it any more.             *)

Fenced ==
  \A w \in Workers : worker[w].pc # "idle" =>
    worker[w].n <= job.n /\ (worker[w].n = job.n => worker[w].token <= job.token)
HolderOwns ==
  \A w \in Workers : job.state = "processing" /\ job.live /\ Holds(w) => job.owner = w
GivenUp ==
  \A w \in Workers : worker[w].pc = "markFailed" /\ Holds(w) => job.state # "processing"

\* The last attempt is spent only while it is worked on.
Worked == job.live /\ \E w \in Workers : Holds(w)
AttemptLeft ==
  job.state = "pending" \/ (job.state = "processing" /\ ~Worked) =>
    job.attempts < MaxAttempts + faults

ClaimInv == Fenced /\ HolderOwns /\ GivenUp /\ OneHolder /\ AttemptsBounded /\ AttemptLeft

LEMMA Numbers ==
  ASSUME MediaTypeOK
  PROVE  /\ job.n \in Nat /\ job.token \in Nat /\ job.attempts \in Nat
         /\ faults \in Nat /\ MaxAttempts \in Nat /\ MaxAttempts > 0
         /\ \A w \in Workers : worker[w].n \in Nat /\ worker[w].token \in Nat
BY MediaAssumption DEF MediaTypeOK, Job, Work

LEMMA FaultCounts ==
  ASSUME MediaTypeOK, Fault \/ UNCHANGED faults \/ \E o \in Outcomes : Suffers(o)
  PROVE  faults' \in Nat /\ (faults' = faults \/ faults' = faults + 1)
BY Numbers DEF Fault, Suffers

\* The job stays as it is, but for its due date, or is followed by a new one, and the
\* workers stay where they are.
LEMMA QueueKeepsClaims ==
  ASSUME MediaTypeOK, ClaimInv, UNCHANGED worker,
         faults' \in Nat, faults' = faults \/ faults' = faults + 1,
         \/ UNCHANGED job
         \/ Enqueue
         \/ job.state = "pending" /\ job' = [job EXCEPT !.due = TRUE]
  PROVE  ClaimInv'
<1>n. /\ job.n \in Nat /\ job.token \in Nat /\ job.attempts \in Nat
      /\ faults \in Nat /\ MaxAttempts \in Nat /\ MaxAttempts > 0
      /\ \A w \in Workers : worker[w].n \in Nat /\ worker[w].token \in Nat
  BY Numbers
<1>j. job \in Job
  BY DEF MediaTypeOK
<1>1. CASE /\ job'.state = job.state /\ job'.n = job.n /\ job'.token = job.token
           /\ job'.live = job.live /\ job'.owner = job.owner /\ job'.attempts = job.attempts
  <2>1. Fenced' /\ HolderOwns' /\ GivenUp' /\ OneHolder'
    BY <1>1 DEF ClaimInv, Fenced, HolderOwns, GivenUp, OneHolder, Holds
  <2>2. AttemptsBounded' /\ AttemptLeft'
    BY <1>1, <1>n DEF ClaimInv, AttemptsBounded, AttemptLeft, Worked, Holds
  <2> QED BY <2>1, <2>2 DEF ClaimInv
<1>2. CASE job'.state = "pending" /\ job'.n = job.n + 1 /\ job'.attempts = 0
  <2>1. Fenced'
    BY <1>2, <1>n DEF ClaimInv, Fenced
  <2>2. HolderOwns' /\ GivenUp' /\ OneHolder'
    BY <1>2 DEF ClaimInv, HolderOwns, GivenUp, OneHolder, Holds
  <2>3. AttemptsBounded' /\ AttemptLeft'
    BY <1>2, <1>n DEF AttemptsBounded, AttemptLeft
  <2> QED BY <2>1, <2>2, <2>3 DEF ClaimInv
<1>3. CASE Enqueue /\ ~Live
  BY <1>2, <1>3 DEF Enqueue, NoJob
<1>4. CASE job' = [job EXCEPT !.due = TRUE]
  BY <1>1, <1>4, <1>j DEF Job
<1> QED BY <1>1, <1>3, <1>4 DEF Enqueue

LEMMA ClaimKeepsClaims ==
  ASSUME MediaTypeOK, ClaimInv, NEW c \in Workers, Claim(c)
  PROVE  ClaimInv'
<1>n. /\ job.n \in Nat /\ job.token \in Nat /\ job.attempts \in Nat
      /\ faults \in Nat /\ MaxAttempts \in Nat /\ MaxAttempts > 0
      /\ \A w \in Workers : worker[w].n \in Nat /\ worker[w].token \in Nat
  BY Numbers
<1>j. job \in Job /\ worker \in [Workers -> Work]
  BY DEF MediaTypeOK
<1>1. /\ job'.state = "processing" /\ job'.owner = c /\ job'.live /\ job'.n = job.n
      /\ job'.token = job.token + 1 /\ job'.attempts = job.attempts + 1
      /\ faults' = faults
  BY <1>j DEF Claim, Job
<1>2. /\ worker'[c].pc = "queued" /\ worker'[c].n = job.n /\ worker'[c].token = job.token + 1
      /\ \A w \in Workers : w # c => worker'[w] = worker[w]
  BY <1>j DEF Claim
<1>3. Fenced'
  BY <1>1, <1>2, <1>n DEF ClaimInv, Fenced
<1>4. \A w \in Workers : Holds(w)' <=> w = c
  BY <1>1, <1>2, <1>n DEF ClaimInv, Fenced, Holds
<1>5. HolderOwns' /\ GivenUp'
  BY <1>1, <1>2, <1>4 DEF HolderOwns, GivenUp
<1>6. OneHolder'
  BY <1>2, <1>n DEF ClaimInv, Fenced, OneHolder
<1>7. job.attempts < MaxAttempts + faults
  BY DEF Claim, ClaimInv, AttemptLeft, Worked
<1>8. AttemptsBounded' /\ AttemptLeft'
  BY <1>1, <1>4, <1>7, <1>n DEF AttemptsBounded, AttemptLeft, Worked
<1> QED BY <1>3, <1>5, <1>6, <1>8 DEF ClaimInv

LEMMA ExpiryKeepsClaims ==
  ASSUME MediaTypeOK, ClaimInv, LeaseExpires
  PROVE  ClaimInv'
<1>n. /\ job.attempts \in Nat /\ faults \in Nat /\ MaxAttempts \in Nat
  BY Numbers
<1>j. job \in Job
  BY DEF MediaTypeOK
<1>1. /\ job'.state = "processing" /\ ~job'.live /\ job'.n = job.n /\ job'.token = job.token
      /\ job'.attempts = job.attempts /\ worker' = worker /\ job.state = "processing"
  BY <1>j DEF LeaseExpires, Job
<1>2. Fenced' /\ HolderOwns' /\ GivenUp' /\ OneHolder'
  BY <1>1 DEF ClaimInv, Fenced, HolderOwns, GivenUp, OneHolder, Holds
<1>3. \/ faults' = faults + 1
      \/ faults' = faults /\ ~Worked
  BY DEF LeaseExpires, Fault, Worked
<1>4. AttemptsBounded' /\ AttemptLeft'
  BY <1>1, <1>3, <1>n DEF ClaimInv, AttemptsBounded, AttemptLeft
<1> QED BY <1>2, <1>4 DEF ClaimInv

\* What a worker at work does to its job and to itself.
Works(w) == WorkerCrash(w) \/ (WorkStep(w) /\ ~Claim(w))

LEMMA WorkShape ==
  ASSUME MediaTypeOK, NEW w \in Workers, Works(w)
  PROVE  /\ worker[w].pc # "idle"
         /\ \A x \in Workers : x # w => worker'[x] = worker[x]
         /\ \/ worker'[w].pc = "idle"
            \/ /\ worker'[w].n = worker[w].n /\ worker'[w].token = worker[w].token
               /\ worker'[w].pc = "markFailed" => job'.state # "processing"
               /\ worker'[w].pc # "idle"
<1>j. worker \in [Workers -> Work] /\ worker[w] \in Work
  BY DEF MediaTypeOK
<1>1. worker[w].pc # "idle"
  BY DEF Works, WorkStep, WorkerCrash, Find, Complete, Read, Save, CompleteProcessing, Fail, GiveUp
<1>2. \/ Leave(w)
      \/ \E pc \in WorkPcs \ {"idle"} :
           To(w, pc) /\ (pc = "markFailed" => job'.state # "processing")
  <2>1. CASE Fail(w)
    <3>1. Release("dead").state = "dead"
      BY DEF Release, Job, MediaTypeOK
    <3>2. job.attempts \in Nat /\ MaxAttempts \in Nat
      BY Numbers
    <3> QED BY <2>1, <3>1, <3>2 DEF Fail, WorkPcs
  <2> QED BY <2>1 DEF Works, WorkStep, WorkerCrash, Find, Complete, Read, Save,
                      CompleteProcessing, GiveUp, WorkPcs
<1>3. CASE Leave(w)
  BY <1>1, <1>3, <1>j DEF Leave, Free
<1>4. ASSUME NEW pc \in WorkPcs \ {"idle"},
             To(w, pc) /\ (pc = "markFailed" => job'.state # "processing")
      PROVE  /\ \A x \in Workers : x # w => worker'[x] = worker[x]
             /\ worker'[w].n = worker[w].n /\ worker'[w].token = worker[w].token
             /\ worker'[w].pc = "markFailed" => job'.state # "processing"
             /\ worker'[w].pc # "idle"
  BY <1>4, <1>j DEF To, Work
<1> QED BY <1>1, <1>2, <1>3, <1>4

\* The job moves only under its lease, and then it is let go.
LEMMA WorkOnJob ==
  ASSUME MediaTypeOK, NEW w \in Workers, Works(w)
  PROVE  \/ UNCHANGED job
         \/ /\ Owned(w)
            /\ job'.n = job.n /\ job'.token = job.token /\ job'.attempts = job.attempts
            /\ \/ job'.state \in {"completed", "dead"}
               \/ job'.state = "pending" /\ job.attempts < MaxAttempts
<1>j. job \in Job
  BY DEF MediaTypeOK
<1>1. ASSUME NEW s
      PROVE  /\ Release(s).state = s /\ Release(s).n = job.n /\ Release(s).token = job.token
             /\ Release(s).attempts = job.attempts
             /\ LET r == [Release(s) EXCEPT !.due = FALSE]
                IN  r.state = s /\ r.n = job.n /\ r.token = job.token /\ r.attempts = job.attempts
  BY <1>j DEF Release, Job
<1>2. \/ UNCHANGED job
      \/ /\ Owned(w)
         /\ \/ job' = Release("completed") \/ job' = Release("dead")
            \/ job' = [Release("pending") EXCEPT !.due = FALSE] /\ job.attempts < MaxAttempts
  BY DEF Works, WorkStep, WorkerCrash, Find, Complete, Read, Save, CompleteProcessing, Fail, GiveUp
<1>3. CASE job' = Release("completed")
  BY <1>1, <1>2, <1>3
<1>4. CASE job' = Release("dead")
  BY <1>1, <1>2, <1>4
<1>5. CASE job' = [Release("pending") EXCEPT !.due = FALSE]
  BY <1>1, <1>2, <1>5
<1> QED BY <1>2, <1>3, <1>4, <1>5

\* Who leaves a job it works on under a live lease has let it go or has failed.
LEMMA WorkLeaves ==
  ASSUME MediaTypeOK, HolderOwns, GivenUp, NEW w \in Workers, Works(w), worker'[w].pc = "idle"
  PROVE  \/ faults' = faults + 1
         \/ job'.state # "processing"
         \/ ~job.live
         \/ ~Holds(w)
<1>j. worker \in [Workers -> Work] /\ worker[w] \in Work /\ job \in Job
  BY DEF MediaTypeOK
<1> SUFFICES ASSUME job.state = "processing", job.live, Holds(w), UNCHANGED job, faults' # faults + 1
             PROVE  FALSE
  BY WorkOnJob DEF Owned
<1>1. Owned(w)
  BY DEF HolderOwns, Owned, Holds
<1>2. \A s \in {"completed", "dead", "pending"} :
        Release(s) # job /\ [Release(s) EXCEPT !.due = FALSE] # job
  BY <1>j DEF Release, Job
<1>3. \A o \in Outcomes : Suffers(o) => o = "done"
  BY DEF Suffers, Fault
<1>4. \A pc \in WorkPcs \ {"idle"} : ~To(w, pc)
  BY <1>j DEF To, Work
<1>5. CASE Complete(w)
  BY <1>1, <1>2, <1>3, <1>5 DEF Complete
<1>6. CASE CompleteProcessing(w)
  BY <1>1, <1>2, <1>3, <1>4, <1>6 DEF CompleteProcessing, WorkPcs
<1>7. CASE Fail(w)
  BY <1>1, <1>2, <1>3, <1>7 DEF Fail
<1>8. CASE GiveUp(w)
  BY <1>8 DEF GiveUp, GivenUp
<1>9. CASE WorkerCrash(w)
  BY <1>9 DEF WorkerCrash, Fault
<1>10. CASE Find(w) \/ Read(w) \/ Save(w)
  BY <1>4, <1>10 DEF Find, Read, Save, WorkPcs
<1> QED BY <1>5, <1>6, <1>7, <1>8, <1>9, <1>10 DEF Works, WorkStep

LEMMA WorkKeepsClaims ==
  ASSUME MediaTypeOK, ClaimInv, NEW c \in Workers, Works(c)
  PROVE  ClaimInv'
<1>n. /\ job.n \in Nat /\ job.token \in Nat /\ job.attempts \in Nat
      /\ faults \in Nat /\ MaxAttempts \in Nat /\ MaxAttempts > 0
      /\ \A w \in Workers : worker[w].n \in Nat /\ worker[w].token \in Nat
  BY Numbers
<1>f. faults' \in Nat /\ (faults' = faults \/ faults' = faults + 1)
  <2>1. Fault \/ UNCHANGED faults \/ \E o \in Outcomes : Suffers(o)
    BY DEF Works, WorkStep, WorkerCrash, Claim, Find, Complete, Read, Save, CompleteProcessing,
         Fail, GiveUp
  <2> QED BY <2>1, FaultCounts
<1>1. /\ worker[c].pc # "idle"
      /\ \A x \in Workers : x # c => worker'[x] = worker[x]
      /\ \/ worker'[c].pc = "idle"
         \/ /\ worker'[c].n = worker[c].n /\ worker'[c].token = worker[c].token
            /\ worker'[c].pc = "markFailed" => job'.state # "processing"
            /\ worker'[c].pc # "idle"
  BY WorkShape
<1>2. \/ UNCHANGED job
      \/ /\ Owned(c)
         /\ job'.n = job.n /\ job'.token = job.token /\ job'.attempts = job.attempts
         /\ \/ job'.state \in {"completed", "dead"}
            \/ job'.state = "pending" /\ job.attempts < MaxAttempts
  BY WorkOnJob
<1>3. \A w \in Workers : worker'[w].pc # "idle" =>
        worker[w].pc # "idle" /\ worker'[w].n = worker[w].n /\ worker'[w].token = worker[w].token
  BY <1>1
<1>4. job'.n = job.n /\ job'.token = job.token /\ job'.attempts = job.attempts
  BY <1>2
<1>5. \A w \in Workers : Holds(w)' => Holds(w)
  BY <1>3, <1>4 DEF Holds
<1>6. job'.state = "processing" => UNCHANGED job
  BY <1>2
<1>7. Fenced' /\ OneHolder'
  BY <1>3, <1>4 DEF ClaimInv, Fenced, OneHolder
<1>8. HolderOwns'
  BY <1>5, <1>6 DEF ClaimInv, HolderOwns
<1>9. GivenUp'
  BY <1>1, <1>5, <1>6 DEF ClaimInv, GivenUp
<1>10. AttemptsBounded'
  BY <1>4, <1>f, <1>n DEF ClaimInv, AttemptsBounded
<1>11. AttemptLeft'
  <2>1. CASE faults' = faults + 1
    BY <1>4, <1>n, <2>1 DEF ClaimInv, AttemptsBounded, AttemptLeft
  <2>2. CASE faults' = faults /\ job'.state = "pending"
    BY <1>2, <1>n, <2>2 DEF ClaimInv, AttemptLeft
  <2>3. CASE faults' = faults /\ job'.state = "processing" /\ ~Worked'
    <3>1. UNCHANGED job
      BY <1>6, <2>3
    <3>2. ~Worked
      <4>1. CASE worker'[c].pc = "idle"
        <5>1. ~job.live \/ ~Holds(c)
          BY <2>3, <4>1, WorkLeaves, <1>n DEF ClaimInv
        <5> QED BY <1>1, <2>3, <3>1, <5>1 DEF Worked, Holds
      <4>2. CASE worker'[c].pc # "idle"
        BY <1>1, <2>3, <3>1, <4>2 DEF Worked, Holds
      <4> QED BY <4>1, <4>2
    <3> QED BY <2>3, <3>1, <3>2 DEF ClaimInv, AttemptLeft
  <2> QED BY <1>f, <2>1, <2>2, <2>3 DEF AttemptLeft
<1> QED BY <1>7, <1>8, <1>9, <1>10, <1>11 DEF ClaimInv

LEMMA ClaimsHold == Spec => []ClaimInv
<1>1. Init => ClaimInv
  BY MediaAssumption
  DEF Init, ClaimInv, Fenced, HolderOwns, GivenUp, OneHolder, AttemptsBounded, AttemptLeft,
      Worked, Holds, Free, NoJob
<1>2. MediaTypeOK /\ ClaimInv /\ [Next]_vars => ClaimInv'
  <2> SUFFICES ASSUME MediaTypeOK, ClaimInv, [Next]_vars PROVE ClaimInv'
    OBVIOUS
  <2>n. faults \in Nat
    BY Numbers
  <2>1. CASE UNCHANGED vars
    BY <2>1, <2>n, QueueKeepsClaims DEF vars
  <2>2. CASE CreateSlot \/ Upload \/ Retry \/ Bind \/ DeleteMessage \/ Remove \/ RequestStep \/ ApiCrash
    <3>1. UNCHANGED worker /\ (UNCHANGED job \/ Enqueue)
      BY <2>2 DEF RequestStep, CreateSlot, Upload, Retry, Bind, DeleteMessage, Remove, ApiCrash,
           SaveOriginal, MarkUploaded, EnqueueUploaded, Unsave, UploadFails, RetryProcessing,
           EnqueueRetried, RemoveFiles, ClearRemoved
    <3>2. Fault \/ UNCHANGED faults \/ \E o \in Outcomes : Suffers(o)
      BY <2>2 DEF RequestStep, CreateSlot, Upload, Retry, Bind, DeleteMessage, Remove, ApiCrash,
           SaveOriginal, MarkUploaded, EnqueueUploaded, Unsave, UploadFails, RetryProcessing,
           EnqueueRetried, RemoveFiles, ClearRemoved
    <3> QED BY <3>1, <3>2, FaultCounts, QueueKeepsClaims
  <2>3. ASSUME NEW w \in Workers, WorkStep(w) \/ WorkerCrash(w) PROVE ClaimInv'
    BY <2>3, ClaimKeepsClaims, WorkKeepsClaims DEF Works
  <2>4. CASE LeaseExpires
    BY <2>4, ExpiryKeepsClaims
  <2>5. CASE Due \/ MaintenanceStep \/ MaintenanceCrash \/ ReconciliationStep \/ ReconciliationCrash
    <3>1. /\ UNCHANGED worker
          /\ \/ UNCHANGED job \/ Enqueue
             \/ job.state = "pending" /\ job' = [job EXCEPT !.due = TRUE]
      BY <2>5 DEF Due, MaintenanceStep, MaintenanceCrash, ReconciliationStep,
         ReconciliationCrash, ListCandidates, MarkCleanup, CleanFiles, ClearCleaned, ListLost,
         EnqueueLost, ReadKeys, ReadFiles, FindMissing, MarkUnavailable, RemoveOrphan
    <3>2. Fault \/ UNCHANGED faults
      BY <2>5 DEF Due, MaintenanceStep, MaintenanceCrash, ReconciliationStep,
         ReconciliationCrash, ListCandidates, MarkCleanup, CleanFiles, ClearCleaned, ListLost,
         EnqueueLost, ReadKeys, ReadFiles, FindMissing, MarkUnavailable, RemoveOrphan
    <3> QED BY <3>1, <3>2, FaultCounts, QueueKeepsClaims
  <2> QED BY <2>1, <2>2, <2>3, <2>4, <2>5 DEF Next
<1> QED BY <1>1, <1>2, MediaTypes, PTL DEF Spec

\* No claim of a job is held by two workers, however leases run out and processes
\* die.
THEOREM ClaimsAreApart == Spec => []OneHolder
<1>1. ClaimInv => OneHolder
  BY DEF ClaimInv
<1> QED BY <1>1, ClaimsHold, PTL

\* A job is tried no more often than it may be and leases were lost.
THEOREM AttemptsAreBounded == Spec => []AttemptsBounded
<1>1. ClaimInv => AttemptsBounded
  BY DEF ClaimInv
<1> QED BY <1>1, ClaimsHold, PTL
=============================================================================
