-------------------------- MODULE BridgeTypeProofs --------------------------
(***************************************************************************)
(* BridgeTypeOK holds in every reachable state of the bridge, for any      *)
(* number of jobs, calls, uploads, retries and restarts.                   *)
(***************************************************************************)
EXTENDS BridgeProperties, FiniteSetTheorems, TLAPS

\* Facts about the constants: the worker is no call, and every call is an actor.
LEMMA ActorFacts ==
    /\ Worker \in Actors /\ Worker \notin Calls
    /\ Calls \subseteq Actors /\ Jobs \subseteq Calls
    /\ Cancels \subseteq Calls /\ Imports \subseteq Calls
    /\ \A p \in Actors : p = Worker \/ p \in Calls
BY BridgeAssumption DEF Calls

\* The worker is typed after it has gone on to a label, its job kept unless it is
\* done with it.
LEMMA StepTyped ==
    ASSUME BridgeTypeOK, pc[Worker] # "idle",
           NEW l \in WorkerLabels, Step(l), UNCHANGED callVars
    PROVE  /\ pc' \in [Actors -> WorkerLabels \cup CallLabels]
           /\ pc'[Worker] \in WorkerLabels
           /\ \A c \in Calls : pc'[c] = pc[c] /\ target'[c] = target[c]
           /\ target' \in [Actors -> Jobs \cup {NoJob}]
           /\ pc'[Worker] # "idle" => target'[Worker] \in Jobs
           /\ tries' \in Nat
BY ActorFacts DEF BridgeTypeOK, Step, Goto

\* set_job_status by the worker leaves txn typed, whichever way it ends.
LEMMA SetsStatusTyped ==
    ASSUME BridgeTypeOK, pc[Worker] # "idle",
           NEW to \in JobStatus, NEW isRemote \in BOOLEAN, NEW retry \in {0, 1},
           NEW l \in WorkerLabels, NEW onRaise \in WorkerLabels,
           SetsStatusOr(to, isRemote, retry, l, onRaise)
    PROVE  /\ txn' \in [Actors -> StatusUpdate \cup {NoTxn}]
           /\ Step(l) \/ Step(onRaise)
<1>1. CASE Accepts(Job, to)
  <2>1. Job \in Jobs
    BY DEF BridgeTypeOK, Job
  <2>2. status[Job] \in JobStatus
    BY <1>1, <2>1 DEF BridgeTypeOK, StorageTypeOK, Accepts, ValidTransition,
                     AllowedTransitions, JobStatus
  <2>3. [job |-> Job, from |-> status[Job], to |-> to,
         remote |-> isRemote, retry |-> retry] \in StatusUpdate
    BY <2>1, <2>2 DEF StatusUpdate
  <2> QED
    BY <1>1, <2>3 DEF SetsStatusOr, OpenUpdate, BridgeTypeOK, StorageTypeOK
<1>2. CASE ~Accepts(Job, to)
  BY <1>2 DEF SetsStatusOr, Proceed, BridgeTypeOK, StorageTypeOK
<1> QED
  BY <1>1, <1>2

\* What is left to show of a step of the worker that ends in Step.
LEMMA WorkerTyped ==
    ASSUME BridgeTypeOK, pc[Worker] # "idle", UNCHANGED <<callVars, boots>>,
           NEW l \in WorkerLabels, Step(l),
           StorageTypeOK', FilesTypeOK', ProviderTypeOK',
           queue' \in Seq(Jobs), cancelled' \in SUBSET Jobs
    PROVE  BridgeTypeOK'
<1>1. UNCHANGED callVars
  OBVIOUS
<1>2. /\ pc' \in [Actors -> WorkerLabels \cup CallLabels]
      /\ pc'[Worker] \in WorkerLabels
      /\ \A c \in Calls : pc'[c] = pc[c] /\ target'[c] = target[c]
      /\ target' \in [Actors -> Jobs \cup {NoJob}]
      /\ pc'[Worker] # "idle" => target'[Worker] \in Jobs
      /\ tries' \in Nat
  BY <1>1, StepTyped
<1> QED
  BY <1>2, ActorFacts DEF BridgeTypeOK, Running, callVars

\* A step of the worker that only reads, or that ends in set_job_status.
LEMMA ReadOnlyTyped ==
    ASSUME BridgeTypeOK, pc[Worker] # "idle", UNCHANGED <<callVars, boots>>,
           UNCHANGED <<rowVars, files, memoryVars>>,
           NEW l \in WorkerLabels, Proceed(l)
    PROVE  BridgeTypeOK'
<1>1. StorageTypeOK' /\ FilesTypeOK' /\ ProviderTypeOK'
  BY DEF BridgeTypeOK, StorageTypeOK, FilesTypeOK, ProviderTypeOK, rowVars,
         memoryVars, Proceed
<1>2. queue' \in Seq(Jobs) /\ cancelled' \in SUBSET Jobs
  BY DEF BridgeTypeOK, memoryVars
<1> QED
  BY <1>1, <1>2, WorkerTyped DEF Proceed

LEMMA StatusWriteTyped ==
    ASSUME BridgeTypeOK, pc[Worker] # "idle", UNCHANGED <<callVars, boots>>,
           UNCHANGED <<rowVars, files, queue, cancelled>>,
           ProviderTypeOK',
           NEW to \in JobStatus, NEW isRemote \in BOOLEAN, NEW retry \in {0, 1},
           NEW l \in WorkerLabels, NEW onRaise \in WorkerLabels,
           SetsStatusOr(to, isRemote, retry, l, onRaise)
    PROVE  BridgeTypeOK'
<1>1. /\ txn' \in [Actors -> StatusUpdate \cup {NoTxn}]
      /\ Step(l) \/ Step(onRaise)
  BY SetsStatusTyped
<1>2. StorageTypeOK' /\ FilesTypeOK'
  BY <1>1 DEF BridgeTypeOK, StorageTypeOK, FilesTypeOK, rowVars
<1>3. queue' \in Seq(Jobs) /\ cancelled' \in SUBSET Jobs
  BY DEF BridgeTypeOK
<1> QED
  BY <1>1, <1>2, <1>3, WorkerTyped

\* The provider stays typed through submits, polls and cancellations.
LEMMA ProviderTyped ==
    ASSUME ProviderTypeOK, NEW j \in RemoteJobs,
           \/ SubmitRemote(j)
           \/ CancelRemote(j)
           \/ provider[j] # Unknown /\ PollRemote(j)
    PROVE  ProviderTypeOK'
<1>1. CASE SubmitRemote(j)
  <2>1. [polls |-> 0, failed |-> FALSE, cancelled |-> FALSE] \in RemoteState
    BY DEF RemoteState
  <2> QED
    BY <1>1, <2>1 DEF SubmitRemote, ProviderTypeOK
<1>2. CASE CancelRemote(j)
  <2>1. provider[j] # Unknown =>
            [provider[j] EXCEPT !.cancelled = TRUE] \in RemoteState
    BY DEF ProviderTypeOK, RemoteState
  <2> QED
    BY <1>2, <2>1 DEF CancelRemote, ProviderTypeOK
<1>3. CASE provider[j] # Unknown /\ PollRemote(j)
  <2>1. provider[j] \in RemoteState
    BY <1>3 DEF ProviderTypeOK
  <2>2. provider[j].polls + 1 \in Nat
    BY <2>1 DEF RemoteState
  <2>3. (provider[j].failed \/ FailsNow(j)) \in BOOLEAN
    OBVIOUS
  <2>4. [polls |-> provider[j].polls + 1,
         failed |-> provider[j].failed \/ FailsNow(j),
         cancelled |-> FALSE] \in RemoteState
    BY <2>2, <2>3 DEF RemoteState
  <2> QED
    BY <1>3, <2>4 DEF PollRemote, ProviderTypeOK
<1> QED
  BY <1>1, <1>2, <1>3

-----------------------------------------------------------------------------
(* The worker, part by part of process_one *)

LEMMA DeliveryTyped ==
    ASSUME BridgeTypeOK,
           Dequeue \/ ReadJob \/ CheckFlag \/ ClearFlag("clear", "idle")
    PROVE  BridgeTypeOK'
<1>1. CASE Dequeue
  <2>1. Head(queue) \in Jobs /\ queue' \in Seq(Jobs)
    BY <1>1 DEF Dequeue, BridgeTypeOK
  <2>2. StorageTypeOK' /\ FilesTypeOK' /\ ProviderTypeOK'
    BY <1>1 DEF Dequeue, BridgeTypeOK, StorageTypeOK, FilesTypeOK, ProviderTypeOK,
                storageVars, rowVars
  <2> QED
    BY <1>1, <2>1, <2>2, ActorFacts
       DEF Dequeue, WorkerAt, BridgeTypeOK, Running, callVars, Goto, WorkerLabels
<1>2. CASE ReadJob
  BY <1>2, ReadOnlyTyped DEF ReadJob, WorkerAt, At, WorkerLabels
<1>3. CASE CheckFlag
  <2>1. CASE Job \in cancelled
    <3>1. SetsStatusOr("cancelled", FALSE, 0, "clear", "idle")
      BY <1>3, <2>1 DEF CheckFlag, SetsStatus
    <3> QED
      BY <1>3, <3>1, StatusWriteTyped
         DEF CheckFlag, WorkerAt, At, WorkerLabels, JobStatus, memoryVars,
             BridgeTypeOK, ProviderTypeOK
  <2>2. CASE Job \notin cancelled
    <3>1. AfterFlag \in WorkerLabels
      BY DEF AfterFlag, WorkerLabels
    <3> QED
      BY <1>3, <2>2, <3>1, ReadOnlyTyped DEF CheckFlag, WorkerAt, At
  <2> QED
    BY <2>1, <2>2
<1>4. CASE ClearFlag("clear", "idle")
  BY <1>4, WorkerTyped
     DEF ClearFlag, WorkerAt, At, WorkerLabels, Proceed, rowVars, BridgeTypeOK,
         StorageTypeOK, FilesTypeOK, ProviderTypeOK
<1> QED
  BY <1>1, <1>2, <1>3, <1>4

LEMMA ManualTyped ==
    ASSUME BridgeTypeOK, ManualSteps
    PROVE  BridgeTypeOK'
<1>1. CASE Prepare
  <2>1. \/ Proceed("idle")
        \/ SetsStatusOr("awaiting_manual_provider_submission", FALSE, 0, "handoff", "idle")
    BY <1>1 DEF Prepare, SetsStatus
  <2> QED
    BY ZenonT(60), <1>1, <2>1, ReadOnlyTyped, StatusWriteTyped
       DEF Prepare, WorkerAt, At, WorkerLabels, JobStatus, memoryVars,
           BridgeTypeOK, ProviderTypeOK
<1>2. CASE PrepareHandoff
  <2>1. CASE ~SubmitRaises(Job) /\ Job \in MissingAsset
    BY ZenonT(60), <1>2, <2>1, StatusWriteTyped
       DEF PrepareHandoff, SetsStatus, WorkerAt, At, WorkerLabels, JobStatus,
           memoryVars, rowVars, BridgeTypeOK, ProviderTypeOK
  <2>2. CASE SubmitRaises(Job)
    BY <1>2, <2>2, WorkerTyped
       DEF PrepareHandoff, Proceed, WorkerAt, At, WorkerLabels, memoryVars,
           BridgeTypeOK, StorageTypeOK, FilesTypeOK, ProviderTypeOK
  <2>3. CASE ~SubmitRaises(Job) /\ Job \notin MissingAsset
    BY <1>2, <2>3, WorkerTyped
       DEF PrepareHandoff, UpdateProviderMetadata, Proceed, WorkerAt, At,
           WorkerLabels, memoryVars, BridgeTypeOK, StorageTypeOK, FilesTypeOK,
           ProviderTypeOK
  <2> QED
    BY <2>1, <2>2, <2>3
<1>3. CASE AwaitResult
  BY ZenonT(60), <1>3, StatusWriteTyped
     DEF AwaitResult, WorkerAt, At, WorkerLabels, JobStatus, memoryVars,
         BridgeTypeOK, ProviderTypeOK
<1> QED
  BY <1>1, <1>2, <1>3 DEF ManualSteps

LEMMA SubmitTyped ==
    ASSUME BridgeTypeOK, SubmitSteps
    PROVE  BridgeTypeOK'
<1>1. CASE Submit
  <2>1. \/ Proceed("poll_enter") \/ Proceed("submit_mark")
        \/ SetsStatusOr("cancelled", FALSE, 0, "poll_enter", "idle")
    BY <1>1 DEF Submit, SetsStatus
  <2> QED
    BY ZenonT(60), <1>1, <2>1, ReadOnlyTyped, StatusWriteTyped
       DEF Submit, WorkerAt, At, WorkerLabels, JobStatus, memoryVars,
           BridgeTypeOK, ProviderTypeOK
<1>2. CASE MarkSubmitting
  BY ZenonT(60), <1>2, StatusWriteTyped
     DEF MarkSubmitting, WorkerAt, At, WorkerLabels, JobStatus, memoryVars,
         BridgeTypeOK, ProviderTypeOK
<1>3. CASE CheckFlagBeforeSubmit
  <2>1. \/ Proceed("remote_submit")
        \/ SetsStatusOr("cancelled", FALSE, 0, "submit_clear", "idle")
    BY <1>3 DEF CheckFlagBeforeSubmit, SetsStatus
  <2> QED
    BY ZenonT(60), <1>3, <2>1, ReadOnlyTyped, StatusWriteTyped
       DEF CheckFlagBeforeSubmit, WorkerAt, At, WorkerLabels, JobStatus,
           memoryVars, BridgeTypeOK, ProviderTypeOK
<1>4. CASE ClearFlag("submit_clear", "poll_enter")
  BY <1>4, WorkerTyped
     DEF ClearFlag, WorkerAt, At, WorkerLabels, Proceed, rowVars, BridgeTypeOK,
         StorageTypeOK, FilesTypeOK, ProviderTypeOK
<1>5. CASE SubmitToProvider
  <2>1. CASE Job \in MissingAsset
    BY ZenonT(60), <1>5, <2>1, StatusWriteTyped
       DEF SubmitToProvider, SetsStatus, WorkerAt, At, WorkerLabels, JobStatus,
           BridgeTypeOK, ProviderTypeOK
  <2>2. CASE Job \notin MissingAsset /\ ~SubmitRaises(Job)
    <3>1. ProviderTypeOK'
      BY <1>5, <2>2, ProviderTyped, OrchestratorAssumption
         DEF SubmitToProvider, WorkerAt, At, BridgeTypeOK, Job
    <3> QED
      BY <1>5, <2>2, <3>1, WorkerTyped
         DEF SubmitToProvider, Proceed, WorkerAt, At, WorkerLabels, rowVars,
             BridgeTypeOK, StorageTypeOK, FilesTypeOK
  <2>3. CASE Job \notin MissingAsset /\ SubmitRaises(Job)
    BY <1>5, <2>3, WorkerTyped
       DEF SubmitToProvider, Proceed, WorkerAt, At, WorkerLabels, rowVars,
           BridgeTypeOK, StorageTypeOK, FilesTypeOK, ProviderTypeOK
  <2> QED
    BY <2>1, <2>2, <2>3
<1>6. CASE RecordRemoteId
  BY ZenonT(60), <1>6, StatusWriteTyped
     DEF RecordRemoteId, WorkerAt, At, WorkerLabels, JobStatus, memoryVars,
         BridgeTypeOK, ProviderTypeOK
<1> QED
  BY <1>1, <1>2, <1>3, <1>4, <1>5, <1>6 DEF SubmitSteps

LEMMA PollingTyped ==
    ASSUME BridgeTypeOK, PollingSteps
    PROVE  BridgeTypeOK'
<1>1. CASE EnterPolling
  <2>1. CASE Terminal(Job) \/ ~remote[Job]
    BY <1>1, <2>1, ReadOnlyTyped DEF EnterPolling, WorkerAt, At, WorkerLabels
  <2>2. CASE ~(Terminal(Job) \/ ~remote[Job])
    <3>1. /\ pc' = [pc EXCEPT ![Worker] = "poll"]
          /\ tries' = attempts[Job] /\ UNCHANGED <<txn, target>>
      BY <1>1, <2>2 DEF EnterPolling, Goto
    <3>2. tries' \in Nat /\ Job \in Jobs
      BY <1>1, <3>1 DEF EnterPolling, WorkerAt, At, BridgeTypeOK, StorageTypeOK, Job
    <3>3. StorageTypeOK' /\ FilesTypeOK' /\ ProviderTypeOK'
      BY <1>1, <3>1 DEF EnterPolling, BridgeTypeOK, StorageTypeOK, FilesTypeOK,
                        ProviderTypeOK, rowVars, memoryVars
    <3> QED
      BY <1>1, <3>1, <3>2, <3>3, ActorFacts
         DEF EnterPolling, WorkerAt, BridgeTypeOK, Running, callVars, WorkerLabels,
             memoryVars, Job
  <2> QED
    BY <2>1, <2>2
<1>2. CASE PollTop
  <2>1. \/ Proceed("ask")
        \/ SetsStatusOr("failed", FALSE, 0, "idle", "idle")
        \/ SetsStatusOr("cancelled", FALSE, 0, "clear", "idle")
    BY <1>2 DEF PollTop, SetsStatus
  <2>2. ProviderTypeOK'
    BY <1>2, ProviderTyped, OrchestratorAssumption
       DEF PollTop, WorkerAt, At, BridgeTypeOK, Job, ProviderTypeOK
  <2>3. CASE Proceed("ask")
    <3>1. StorageTypeOK' /\ FilesTypeOK'
      BY <1>2, <2>3 DEF PollTop, Proceed, BridgeTypeOK, StorageTypeOK, FilesTypeOK,
                        rowVars
    <3> QED
      BY <1>2, <2>2, <2>3, <3>1, WorkerTyped
         DEF PollTop, Proceed, WorkerAt, At, WorkerLabels, BridgeTypeOK
  <2> QED
    BY <1>2, <2>1, <2>2, <2>3, StatusWriteTyped
       DEF PollTop, WorkerAt, At, WorkerLabels, JobStatus
<1>3. CASE AskProvider
  <2>1. UNCHANGED <<rowVars, files, queue, cancelled, txn>>
    BY <1>3 DEF AskProvider, Proceed, PollAnswer
  <2>2. StorageTypeOK' /\ FilesTypeOK'
    BY <2>1 DEF BridgeTypeOK, StorageTypeOK, FilesTypeOK, rowVars
  <2>3. ProviderTypeOK'
    BY <1>3, ProviderTyped, OrchestratorAssumption
       DEF AskProvider, WorkerAt, At, BridgeTypeOK, Job, ProviderTypeOK
  <2>4. \/ Step("idle") \/ Step("poll") \/ Step("gone") \/ Step("ready")
        \/ Goto(Worker, "retry") /\ tries' = tries + 1 /\ target' = target
    BY <1>3 DEF AskProvider, Proceed, PollAnswer
  <2>5. CASE Step("idle") \/ Step("poll") \/ Step("gone") \/ Step("ready")
    BY <1>3, <2>1, <2>2, <2>3, <2>5, WorkerTyped
       DEF AskProvider, WorkerAt, At, WorkerLabels, BridgeTypeOK
  <2>6. CASE Goto(Worker, "retry") /\ tries' = tries + 1 /\ target' = target
    BY <1>3, <2>1, <2>2, <2>3, <2>6, ActorFacts
       DEF AskProvider, WorkerAt, At, BridgeTypeOK, Running, callVars, Goto,
           WorkerLabels
  <2> QED
    BY <2>4, <2>5, <2>6
<1>4. CASE CountRetry
  BY ZenonT(60), <1>4, StatusWriteTyped
     DEF CountRetry, WorkerAt, At, WorkerLabels, JobStatus, memoryVars,
         BridgeTypeOK, ProviderTypeOK
<1>5. CASE ProviderCancelled
  BY <1>5, StatusWriteTyped
     DEF ProviderCancelled, SetsStatus, WorkerAt, At, WorkerLabels, JobStatus,
         memoryVars, BridgeTypeOK, ProviderTypeOK
<1> QED
  BY <1>1, <1>2, <1>3, <1>4, <1>5 DEF PollingSteps

LEMMA DownloadTyped ==
    ASSUME BridgeTypeOK, DownloadSteps
    PROVE  BridgeTypeOK'
<1> USE DEF WorkerAt, At, WorkerLabels
<1>1. CASE BeginDownload
  BY <1>1, StatusWriteTyped
     DEF BeginDownload, SetsStatus, JobStatus, memoryVars, BridgeTypeOK,
         ProviderTypeOK
<1>2. CASE RecordOutput
  <2>1. pc[Worker] # "idle" /\ Job \in Jobs
    BY <1>2 DEF RecordOutput, BridgeTypeOK, Job
  <2>2. StorageTypeOK' /\ FilesTypeOK' /\ ProviderTypeOK'
    BY <1>2, <2>1, OrchestratorAssumption
       DEF RecordOutput, RecordAsset, Contents, Proceed, BridgeTypeOK, StorageTypeOK,
           FilesTypeOK, ProviderTypeOK, memoryVars
  <2> QED
    BY <1>2, <2>1, <2>2, WorkerTyped
       DEF RecordOutput, Proceed, memoryVars, BridgeTypeOK
<1>3. CASE WriteOutput
  <2>1. pc[Worker] # "idle" /\ Job \in Jobs
    BY <1>3 DEF WriteOutput, BridgeTypeOK, Job
  <2>2. StorageTypeOK' /\ FilesTypeOK' /\ ProviderTypeOK'
    BY <1>3, <2>1, OrchestratorAssumption
       DEF WriteOutput, WriteFile, Proceed, BridgeTypeOK, StorageTypeOK,
           FilesTypeOK, ProviderTypeOK, rowVars, memoryVars
  <2> QED
    BY <1>3, <2>1, <2>2, WorkerTyped
       DEF WriteOutput, Proceed, memoryVars, BridgeTypeOK
<1>4. CASE AttachOutput
  <2>1. pc[Worker] # "idle"
    BY <1>4 DEF AttachOutput
  <2>2. StorageTypeOK' /\ FilesTypeOK' /\ ProviderTypeOK'
    BY <1>4, OrchestratorAssumption
       DEF AttachOutput, AttachArtifacts, Proceed, BridgeTypeOK, StorageTypeOK,
           FilesTypeOK, ProviderTypeOK, memoryVars
  <2> QED
    BY <1>4, <2>1, <2>2, WorkerTyped
       DEF AttachOutput, Proceed, memoryVars, BridgeTypeOK
<1>5. CASE CompleteJob
  BY <1>5, StatusWriteTyped
     DEF CompleteJob, SetsStatus, JobStatus, memoryVars, BridgeTypeOK,
         ProviderTypeOK
<1> QED
  BY <1>1, <1>2, <1>3, <1>4, <1>5 DEF DownloadSteps

-----------------------------------------------------------------------------
(* The calls, the commits and the restart *)

\* What a call changes of the control state, when it is left working on a job.
LEMMA CallTyped ==
    ASSUME BridgeTypeOK, NEW c \in Calls, NEW l \in CallLabels, Goto(c, l),
           target' \in [Actors -> Jobs \cup {NoJob}],
           l # "done" => target'[c] \in Jobs,
           \A p \in Actors \ {c} : target'[p] = target[p],
           tries' = tries, boots' = boots,
           StorageTypeOK', FilesTypeOK', ProviderTypeOK',
           queue' \in Seq(Jobs), cancelled' \in SUBSET Jobs,
           sawRemote' \in [Cancels -> BOOLEAN],
           imported' \in [Imports -> Nat],
           \A i \in Imports \ {c} : imported'[i] = imported[i],
           (c \in Imports /\ l \in {"not_started", "import_upload", "import_write"})
               => imported'[c] < Len(Uploads[c]),
           reply' \in [Calls -> Jobs \cup {NoReply, Lost, Refused}]
    PROVE  BridgeTypeOK'
<1>1. /\ pc' \in [Actors -> WorkerLabels \cup CallLabels]
      /\ pc'[c] = l
      /\ \A p \in Actors \ {c} : pc'[p] = pc[p]
  BY ActorFacts DEF BridgeTypeOK, Goto
<1>2. /\ pc'[Worker] \in WorkerLabels
      /\ pc'[Worker] # "idle" => target'[Worker] \in Jobs
  BY <1>1, ActorFacts DEF BridgeTypeOK
<1>3. /\ \A d \in Calls : pc'[d] \in CallLabels
      /\ \A d \in Calls : Running(d)' => target'[d] \in Jobs
  BY <1>1, ActorFacts DEF BridgeTypeOK, Running
<1>4. \A i \in Imports :
          pc'[i] \in {"not_started", "import_upload", "import_write"} =>
              imported'[i] < Len(Uploads[i])
  BY <1>1, ActorFacts DEF BridgeTypeOK
<1> QED
  BY <1>1, <1>2, <1>3, <1>4 DEF BridgeTypeOK

\* An answer that shows a job or a failure leaves the replies typed.
LEMMA ReplyTyped ==
    ASSUME BridgeTypeOK, NEW c \in Calls,
           NEW r \in Jobs \cup {NoReply, Lost, Refused}, NEW l \in CallLabels,
           Answer(c, r) \/ Continue(c, l)
    PROVE  reply' \in [Calls -> Jobs \cup {NoReply, Lost, Refused}]
BY DEF BridgeTypeOK, Answer, Continue

\* set_job_status by a call, like SetsStatusTyped.
LEMMA CallSetsStatusTyped ==
    ASSUME BridgeTypeOK, NEW c \in Calls, Running(c),
           NEW to \in JobStatus, NEW l \in CallLabels, CallSetsStatus(c, to, l)
    PROVE  /\ txn' \in [Actors -> StatusUpdate \cup {NoTxn}]
           /\ reply' \in [Calls -> Jobs \cup {NoReply, Lost, Refused}]
           /\ Goto(c, l) \/ Goto(c, "done")
<1>1. CASE Accepts(target[c], to)
  <2>1. target[c] \in Jobs
    BY DEF BridgeTypeOK
  <2>2. status[target[c]] \in JobStatus
    BY <1>1, <2>1 DEF BridgeTypeOK, StorageTypeOK, Accepts, ValidTransition,
                     AllowedTransitions, JobStatus
  <2>3. [job |-> target[c], from |-> status[target[c]], to |-> to,
         remote |-> FALSE, retry |-> 0] \in StatusUpdate
    BY <2>1, <2>2 DEF StatusUpdate
  <2> QED
    BY <1>1, <2>3 DEF CallSetsStatus, Continue, OpenUpdate, BridgeTypeOK,
                     StorageTypeOK
<1>2. CASE ~Accepts(target[c], to)
  <2>1. Answer(c, Refused) /\ UNCHANGED txn
    BY <1>2 DEF CallSetsStatus
  <2> QED
    BY <2>1, ReplyTyped DEF Answer, BridgeTypeOK, StorageTypeOK, CallLabels
<1> QED
  BY <1>1, <1>2

LEMMA CreateTyped ==
    ASSUME BridgeTypeOK, NEW j \in Jobs, Create(j)
    PROVE  BridgeTypeOK'
<1> USE DEF CallLabels
<1>0. j \in Calls
  BY ActorFacts
<1>1. CASE InsertOrFind(j)
  <2>1. \/ Continue(j, "enqueue_read")
        \/ \E i \in Jobs : Answer(j, i)
    BY <1>1 DEF InsertOrFind, Clashing
  <2>2. /\ Goto(j, "enqueue_read") \/ Goto(j, "done")
        /\ reply' \in [Calls -> Jobs \cup {NoReply, Lost, Refused}]
    BY <1>0, <2>1, ReplyTyped DEF Continue, Answer
  <2>3. /\ target' \in [Actors -> Jobs \cup {NoJob}]
        /\ target'[j] = j
        /\ \A p \in Actors \ {j} : target'[p] = target[p]
    BY <1>0, <1>1, ActorFacts DEF InsertOrFind, BridgeTypeOK
  <2>4. StorageTypeOK' /\ FilesTypeOK' /\ ProviderTypeOK'
    BY <1>1 DEF InsertOrFind, InsertJob, BridgeTypeOK, StorageTypeOK, FilesTypeOK,
                ProviderTypeOK, memoryVars, JobStatus
  <2> QED
    BY <1>0, <1>1, <2>2, <2>3, <2>4, CallTyped, BridgeAssumption
       DEF InsertOrFind, BridgeTypeOK, memoryVars
<1>2. CASE EnqueueRead(j)
  <2>1. \E l \in {"return", "enqueue_mark", "enqueue_put"} : Continue(j, l)
    BY <1>2 DEF EnqueueRead
  <2>2. PICK l \in {"return", "enqueue_mark", "enqueue_put"} : Continue(j, l)
    BY <2>1
  <2>3. target[j] \in Jobs
    BY <1>0, <1>2 DEF EnqueueRead, BridgeTypeOK, Running
  <2> QED
    BY <1>0, <1>2, <2>2, <2>3, CallTyped, BridgeAssumption
       DEF EnqueueRead, Continue, BridgeTypeOK, StorageTypeOK, FilesTypeOK,
           ProviderTypeOK, storageVars, rowVars, memoryVars
<1>3. CASE EnqueueMark(j)
  <2>1. Running(j) /\ target[j] \in Jobs
    BY <1>0, <1>3 DEF EnqueueMark, BridgeTypeOK, Running
  <2>2. /\ txn' \in [Actors -> StatusUpdate \cup {NoTxn}]
        /\ reply' \in [Calls -> Jobs \cup {NoReply, Lost, Refused}]
        /\ Goto(j, "enqueue_put") \/ Goto(j, "done")
    BY <1>0, <1>3, <2>1, CallSetsStatusTyped DEF EnqueueMark, JobStatus
  <2>3. StorageTypeOK' /\ FilesTypeOK' /\ ProviderTypeOK'
    BY <1>3, <2>2 DEF EnqueueMark, BridgeTypeOK, StorageTypeOK, FilesTypeOK,
                      ProviderTypeOK, rowVars, memoryVars
  <2> QED
    BY <1>0, <1>3, <2>1, <2>2, <2>3, CallTyped, BridgeAssumption
       DEF EnqueueMark, BridgeTypeOK, memoryVars
<1>4. CASE EnqueuePut(j)
  <2>1. target[j] \in Jobs
    BY <1>0, <1>4 DEF EnqueuePut, At, BridgeTypeOK, Running
  <2>2. queue' \in Seq(Jobs)
    BY <1>4 DEF EnqueuePut, BridgeTypeOK
  <2> QED
    BY <1>0, <1>4, <2>1, <2>2, CallTyped, BridgeAssumption
       DEF EnqueuePut, Continue, BridgeTypeOK, StorageTypeOK, FilesTypeOK,
           ProviderTypeOK, storageVars, rowVars
<1> QED
  BY <1>1, <1>2, <1>3, <1>4 DEF Create

LEMMA CancelTyped ==
    ASSUME BridgeTypeOK, NEW c \in Cancels,
           Cancel(c) \/ \E j \in Jobs : CancelRead(c, j)
    PROVE  BridgeTypeOK'
<1> USE DEF CallLabels
<1>0. c \in Calls /\ c \notin Imports
  BY ActorFacts, BridgeAssumption
<1>1. CASE \E j \in Jobs : CancelRead(c, j)
  <2>1. PICK j \in Jobs : CancelRead(c, j)
    BY <1>1
  <2>2. /\ Goto(c, "cancel_request") \/ Goto(c, "done")
        /\ reply' \in [Calls -> Jobs \cup {NoReply, Lost, Refused}]
    BY <1>0, <2>1, ReplyTyped DEF CancelRead, Continue, Answer
  <2>3. /\ target' \in [Actors -> Jobs \cup {NoJob}]
        /\ target'[c] = j
        /\ \A p \in Actors \ {c} : target'[p] = target[p]
    BY <1>0, <2>1, ActorFacts DEF CancelRead, BridgeTypeOK
  <2>4. remote[j] \in BOOLEAN
    BY DEF BridgeTypeOK, StorageTypeOK
  <2>5. sawRemote' \in [Cancels -> BOOLEAN]
    BY <2>1, <2>4 DEF CancelRead, BridgeTypeOK
  <2> QED
    BY <1>0, <2>1, <2>2, <2>3, <2>5, CallTyped
       DEF CancelRead, BridgeTypeOK, StorageTypeOK, FilesTypeOK, ProviderTypeOK,
           storageVars, rowVars, memoryVars
<1>2. CASE CancelRequest(c)
  <2>1. /\ target[c] \in Jobs
        /\ \E l \in {"cancel_provider", "cancel_mark"} : Continue(c, l)
    BY <1>0, <1>2 DEF CancelRequest, BridgeTypeOK, Running
  <2>2. PICK l \in {"cancel_provider", "cancel_mark"} : Continue(c, l)
    BY <2>1
  <2> QED
    BY <1>0, <1>2, <2>1, <2>2, CallTyped
       DEF CancelRequest, Continue, BridgeTypeOK, StorageTypeOK, FilesTypeOK,
           ProviderTypeOK, storageVars, rowVars
<1>3. CASE CancelAtProvider(c)
  <2>1. target[c] \in Jobs
    BY <1>0, <1>3 DEF CancelAtProvider, BridgeTypeOK, Running
  <2>2. ProviderTypeOK'
    BY <1>3, <2>1, ProviderTyped, OrchestratorAssumption
       DEF CancelAtProvider, BridgeTypeOK, ProviderTypeOK
  <2> QED
    BY <1>0, <1>3, <2>1, <2>2, CallTyped
       DEF CancelAtProvider, Continue, BridgeTypeOK, StorageTypeOK, FilesTypeOK,
           storageVars, rowVars
<1>4. CASE CancelMark(c)
  <2>1. Running(c) /\ target[c] \in Jobs
    BY <1>0, <1>4 DEF CancelMark, BridgeTypeOK, Running
  <2>2. \E to \in {"cancelling", "cancelled"} : CallSetsStatus(c, to, "return")
    BY <1>4 DEF CancelMark
  <2>3. /\ txn' \in [Actors -> StatusUpdate \cup {NoTxn}]
        /\ reply' \in [Calls -> Jobs \cup {NoReply, Lost, Refused}]
        /\ Goto(c, "return") \/ Goto(c, "done")
    BY <1>0, <2>1, <2>2, CallSetsStatusTyped DEF JobStatus
  <2>4. StorageTypeOK' /\ FilesTypeOK' /\ ProviderTypeOK'
    BY <1>4, <2>3 DEF CancelMark, BridgeTypeOK, StorageTypeOK, FilesTypeOK,
                      ProviderTypeOK, rowVars, memoryVars
  <2> QED
    BY <1>0, <1>4, <2>1, <2>3, <2>4, CallTyped
       DEF CancelMark, BridgeTypeOK, memoryVars
<1> QED
  BY <1>1, <1>2, <1>3, <1>4 DEF Cancel

\* The upload that a manual-complete call is about to store exists.
LEMMA NextUploadTyped ==
    ASSUME BridgeTypeOK, NEW c \in Imports,
           pc[c] \in {"import_upload", "import_write"}
    PROVE  /\ NextUpload(c) \in Assets
           /\ imported[c] \in Nat /\ Len(Uploads[c]) \in Nat
           /\ imported[c] < Len(Uploads[c])
<1>1. Uploads[c] \in Seq(Assets)
  BY BridgeAssumption
<1>2. imported[c] \in Nat /\ imported[c] < Len(Uploads[c])
  BY DEF BridgeTypeOK
<1> QED
  BY <1>1, <1>2 DEF NextUpload

\* A stored upload leads to the next one, or to the manifest.
LEMMA StoredTyped ==
    ASSUME BridgeTypeOK, NEW c \in Imports,
           pc[c] \in {"import_upload", "import_write"}, Stored(c)
    PROVE  /\ imported' \in [Imports -> Nat]
           /\ \A i \in Imports \ {c} : imported'[i] = imported[i]
           /\ reply' = reply
           /\ \/ Goto(c, "import_attach")
              \/ Goto(c, "import_upload") /\ imported'[c] < Len(Uploads[c])
<1>1. /\ imported[c] \in Nat /\ Len(Uploads[c]) \in Nat
      /\ imported[c] < Len(Uploads[c])
  BY NextUploadTyped
<1> QED
  BY <1>1 DEF Stored, Continue, BridgeTypeOK

LEMMA ImportTyped ==
    ASSUME BridgeTypeOK, NEW c \in Imports,
           Import(c) \/ \E j \in Jobs : ImportStart(c, j)
    PROVE  BridgeTypeOK'
<1> USE DEF CallLabels
<1>0. c \in Calls
  BY ActorFacts
<1>1. CASE \E j \in Jobs : ImportStart(c, j)
  <2>1. PICK j \in Jobs : ImportStart(c, j)
    BY <1>1
  <2>2. /\ target' \in [Actors -> Jobs \cup {NoJob}]
        /\ target'[c] = j
        /\ \A p \in Actors \ {c} : target'[p] = target[p]
    BY <1>0, <2>1, ActorFacts DEF ImportStart, BridgeTypeOK
  <2>3. imported[c] < Len(Uploads[c])
    BY <2>1 DEF ImportStart, Starts, BridgeTypeOK
  <2>4. CASE Accepts(j, "importing_provider_result")
    <3>1. status[j] \in JobStatus
      BY <2>4 DEF BridgeTypeOK, StorageTypeOK, Accepts, ValidTransition,
                  AllowedTransitions, JobStatus
    <3>2. [job |-> j, from |-> status[j], to |-> "importing_provider_result",
           remote |-> FALSE, retry |-> 0] \in StatusUpdate
      BY <3>1 DEF StatusUpdate, JobStatus
    <3>3. StorageTypeOK' /\ FilesTypeOK' /\ ProviderTypeOK'
      BY ZenonT(60), <2>1, <2>4, <3>2 DEF ImportStart, OpenUpdate, BridgeTypeOK, StorageTypeOK,
                              FilesTypeOK, ProviderTypeOK, rowVars, memoryVars
    <3> QED
      BY <1>0, <2>1, <2>2, <2>3, <2>4, <3>3, CallTyped
         DEF ImportStart, Continue, BridgeTypeOK, memoryVars
  <2>5. CASE ~Accepts(j, "importing_provider_result")
    <3>1. Answer(c, Refused) /\ UNCHANGED txn
      BY <2>1, <2>5 DEF ImportStart
    <3>2. reply' \in [Calls -> Jobs \cup {NoReply, Lost, Refused}]
      BY <1>0, <3>1, ReplyTyped
    <3> QED
      BY <1>0, <2>1, <2>2, <3>1, <3>2, CallTyped
         DEF ImportStart, Answer, BridgeTypeOK, StorageTypeOK, FilesTypeOK,
             ProviderTypeOK, rowVars, memoryVars
  <2> QED
    BY <2>4, <2>5
<1>2. CASE ImportRecord(c)
  <2>1. /\ pc[c] = "import_upload" /\ target[c] \in Jobs
    BY <1>0, <1>2 DEF ImportRecord, At, BridgeTypeOK, Running
  <2>2. /\ NextUpload(c) \in Assets /\ imported[c] < Len(Uploads[c])
    BY <2>1, NextUploadTyped
  <2>3. StorageTypeOK' /\ FilesTypeOK' /\ ProviderTypeOK'
    BY <1>2, <2>1, <2>2 DEF ImportRecord, RecordAsset, Contents, BridgeTypeOK,
                            StorageTypeOK, FilesTypeOK, ProviderTypeOK, memoryVars
  <2>4. CASE Stored(c)
    BY <1>0, <1>2, <2>1, <2>3, <2>4, StoredTyped, CallTyped
       DEF ImportRecord, BridgeTypeOK, memoryVars
  <2>5. CASE Continue(c, "import_write") /\ UNCHANGED imported
    BY <1>0, <1>2, <2>1, <2>2, <2>3, <2>5, CallTyped
       DEF ImportRecord, Continue, BridgeTypeOK, memoryVars
  <2> QED
    BY <1>2, <2>4, <2>5 DEF ImportRecord
<1>3. CASE ImportWrite(c)
  <2>1. pc[c] = "import_write" /\ target[c] \in Jobs
    BY <1>0, <1>3 DEF ImportWrite, BridgeTypeOK, Running
  <2>2. NextUpload(c) \in Assets
    BY <2>1, NextUploadTyped
  <2>3. StorageTypeOK' /\ FilesTypeOK' /\ ProviderTypeOK'
    BY <1>3, <2>1, <2>2 DEF ImportWrite, WriteFile, BridgeTypeOK, StorageTypeOK,
                            FilesTypeOK, ProviderTypeOK, rowVars, memoryVars
  <2> QED
    BY <1>0, <1>3, <2>1, <2>3, StoredTyped, CallTyped
       DEF ImportWrite, BridgeTypeOK, memoryVars
<1>4. CASE ImportAttach(c)
  <2>1. target[c] \in Jobs
    BY <1>0, <1>4 DEF ImportAttach, BridgeTypeOK, Running
  <2>2. Uploaded(c) \in SUBSET Assets
    BY BridgeAssumption DEF Uploaded
  <2>3. StorageTypeOK' /\ FilesTypeOK' /\ ProviderTypeOK'
    BY <1>4, <2>2 DEF ImportAttach, AttachArtifacts, BridgeTypeOK, StorageTypeOK,
                      FilesTypeOK, ProviderTypeOK, memoryVars
  <2> QED
    BY <1>0, <1>4, <2>1, <2>3, CallTyped
       DEF ImportAttach, Continue, BridgeTypeOK, memoryVars
<1>5. CASE ImportComplete(c)
  <2>1. Running(c) /\ target[c] \in Jobs
    BY <1>0, <1>5 DEF ImportComplete, BridgeTypeOK, Running
  <2>2. /\ txn' \in [Actors -> StatusUpdate \cup {NoTxn}]
        /\ reply' \in [Calls -> Jobs \cup {NoReply, Lost, Refused}]
        /\ Goto(c, "return") \/ Goto(c, "done")
    BY <1>0, <1>5, <2>1, CallSetsStatusTyped DEF ImportComplete, JobStatus
  <2>3. StorageTypeOK' /\ FilesTypeOK' /\ ProviderTypeOK'
    BY <1>5, <2>2 DEF ImportComplete, BridgeTypeOK, StorageTypeOK, FilesTypeOK,
                      ProviderTypeOK, rowVars, memoryVars
  <2> QED
    BY <1>0, <1>5, <2>1, <2>2, <2>3, CallTyped
       DEF ImportComplete, BridgeTypeOK, memoryVars
<1> QED
  BY <1>1, <1>2, <1>3, <1>4, <1>5 DEF Import

LEMMA ReturnTyped ==
    ASSUME BridgeTypeOK, NEW c \in Calls, Return(c)
    PROVE  BridgeTypeOK'
<1>1. target[c] \in Jobs
  BY DEF Return, At, BridgeTypeOK, Running
<1>2. /\ Goto(c, "done")
      /\ reply' \in [Calls -> Jobs \cup {NoReply, Lost, Refused}]
  BY <1>1, ReplyTyped DEF Return, Answer, CallLabels
<1> QED
  BY <1>1, <1>2, CallTyped
     DEF Return, BridgeTypeOK, StorageTypeOK, FilesTypeOK, ProviderTypeOK,
         storageVars, rowVars, memoryVars, CallLabels

LEMMA CommitTyped ==
    ASSUME BridgeTypeOK, NEW p \in Actors, Commit(p)
    PROVE  BridgeTypeOK'
<1>1. txn[p] \in StatusUpdate
  BY DEF Commit, CommitUpdate, BridgeTypeOK, StorageTypeOK
<1>2. /\ txn[p].job \in Jobs /\ txn[p].to \in JobStatus
      /\ txn[p].remote \in BOOLEAN /\ txn[p].retry \in Nat
  BY <1>1 DEF StatusUpdate
<1>3. status' \in [Jobs -> JobStatus \cup {Absent}]
  BY <1>2 DEF Commit, CommitUpdate, BridgeTypeOK, StorageTypeOK
<1>4. remote' \in [Jobs -> BOOLEAN]
  BY <1>2 DEF Commit, CommitUpdate, BridgeTypeOK, StorageTypeOK
<1>5. attempts' \in [Jobs -> Nat]
  BY <1>2 DEF Commit, CommitUpdate, BridgeTypeOK, StorageTypeOK
<1>6. StorageTypeOK'
  BY <1>3, <1>4, <1>5 DEF Commit, CommitUpdate, BridgeTypeOK, StorageTypeOK
<1> QED
  BY <1>6 DEF Commit, BridgeTypeOK, FilesTypeOK, ProviderTypeOK, memoryVars,
              controlVars, callVars, Running

\* The queue after a restart is a sequence of jobs, whatever order it comes in.
LEMMA RecoveredQueue ==
    ASSUME NEW q \in QueuesAfterRestart
    PROVE  q \in Seq(Jobs)
<1>1. Recovered \subseteq Jobs
  BY DEF Recovered, InFlightJobs
<1>2. IsFiniteSet(Recovered)
  BY <1>1, BridgeAssumption, FS_Subset
<1>3. Cardinality(Recovered) \in Nat
  BY <1>2, FS_CardinalityType
<1>4. q \in [1 .. Cardinality(Recovered) -> Recovered]
  BY DEF QueuesAfterRestart, QueuesOf
<1> QED
  BY <1>1, <1>3, <1>4

LEMMA RestartTyped ==
    ASSUME BridgeTypeOK, Restart
    PROVE  BridgeTypeOK'
<1>1. StorageTypeOK' /\ FilesTypeOK' /\ ProviderTypeOK'
  BY DEF Restart, ProviderAfterRestart, NothingSubmitted, BridgeTypeOK, StorageTypeOK,
         FilesTypeOK, ProviderTypeOK, rowVars
<1>2. queue' \in Seq(Jobs) /\ cancelled' \in SUBSET Jobs
  BY RecoveredQueue DEF Restart
<1>3. /\ pc' \in [Actors -> WorkerLabels \cup CallLabels]
      /\ pc'[Worker] = "idle"
      /\ \A c \in Calls : pc'[c] = IF Running(c) THEN "done" ELSE pc[c]
  BY ActorFacts DEF Restart, BridgeTypeOK, WorkerLabels, CallLabels
<1>4. /\ \A c \in Calls : pc'[c] \in CallLabels /\ ~Running(c)'
      /\ pc'[Worker] \in WorkerLabels
  BY <1>3 DEF BridgeTypeOK, Running, CallLabels, WorkerLabels
<1>5. \A c \in Imports :
          pc'[c] \in {"not_started", "import_upload", "import_write"} =>
              imported'[c] < Len(Uploads[c])
  BY <1>3, ActorFacts DEF Restart, BridgeTypeOK, Running
<1>6. target' \in [Actors -> Jobs \cup {NoJob}]
  BY DEF Restart, BridgeTypeOK
<1>7. reply' \in [Calls -> Jobs \cup {NoReply, Lost, Refused}]
  BY DEF Restart, BridgeTypeOK
<1>8. /\ sawRemote' \in [Cancels -> BOOLEAN] /\ imported' \in [Imports -> Nat]
      /\ tries' \in Nat /\ boots' \in Nat
  BY DEF Restart, BridgeTypeOK
<1> QED
  BY <1>1, <1>2, <1>3, <1>4, <1>5, <1>6, <1>7, <1>8 DEF BridgeTypeOK

-----------------------------------------------------------------------------

LEMMA InitTyped == Init => BridgeTypeOK
<1> SUFFICES ASSUME Init PROVE BridgeTypeOK
  OBVIOUS
<1>1. StorageTypeOK /\ FilesTypeOK /\ ProviderTypeOK
  BY DEF Init, StorageInit, FilesInit, NothingSubmitted, StorageTypeOK, FilesTypeOK,
         ProviderTypeOK
<1>2. /\ pc \in [Actors -> WorkerLabels \cup CallLabels]
      /\ pc[Worker] = "idle" /\ "idle" \in WorkerLabels
      /\ \A c \in Calls : pc[c] = "not_started" /\ pc[c] \in CallLabels
  BY ActorFacts DEF Init, WorkerLabels, CallLabels
<1>3. \A c \in Imports : imported[c] < Len(Uploads[c])
  <2> SUFFICES ASSUME NEW c \in Imports PROVE imported[c] < Len(Uploads[c])
    OBVIOUS
  <2>1. Uploads[c] \in Seq(Assets) /\ Uploads[c] # <<>>
    BY BridgeAssumption
  <2>2. Len(Uploads[c]) \in Nat /\ Len(Uploads[c]) # 0
    BY <2>1
  <2> QED
    BY <2>2 DEF Init
<1>4. /\ queue \in Seq(Jobs) /\ cancelled \in SUBSET Jobs
      /\ target \in [Actors -> Jobs \cup {NoJob}]
      /\ tries \in Nat /\ boots \in Nat
  BY DEF Init
<1>5. /\ sawRemote \in [Cancels -> BOOLEAN] /\ imported \in [Imports -> Nat]
      /\ reply \in [Calls -> Jobs \cup {NoReply, Lost, Refused}]
  BY DEF Init
<1> QED
  BY <1>1, <1>2, <1>3, <1>4, <1>5 DEF BridgeTypeOK, Running

LEMMA NextTyped == BridgeTypeOK /\ [Next]_vars => BridgeTypeOK'
<1> SUFFICES ASSUME BridgeTypeOK, [Next]_vars PROVE BridgeTypeOK'
  OBVIOUS
<1>1. CASE WorkerStep
  BY <1>1, DeliveryTyped, ManualTyped, SubmitTyped, PollingTyped, DownloadTyped
     DEF WorkerStep
<1>2. CASE \E p \in Actors : Commit(p)
  BY <1>2, CommitTyped
<1>3. CASE \E j \in Jobs : Create(j)
  BY <1>3, CreateTyped
<1>4. CASE \/ \E c \in Cancels, j \in Jobs : CancelRead(c, j)
           \/ \E c \in Cancels : Cancel(c)
  BY <1>4, CancelTyped
<1>5. CASE \/ \E c \in Imports, j \in Jobs : ImportStart(c, j)
           \/ \E c \in Imports : Import(c)
  BY <1>5, ImportTyped
<1>6. CASE \E c \in Calls : Return(c)
  BY <1>6, ReturnTyped
<1>7. CASE Restart
  BY <1>7, RestartTyped
<1>8. CASE UNCHANGED vars
  BY <1>8 DEF vars, storageVars, rowVars, memoryVars, controlVars, callVars,
              BridgeTypeOK, StorageTypeOK, FilesTypeOK, ProviderTypeOK, Running
<1> QED
  BY <1>1, <1>2, <1>3, <1>4, <1>5, <1>6, <1>7, <1>8 DEF Next

\* Every state of the bridge is well typed, whoever works has a job, and a call that
\* is to store an upload has one left (no index past the end of all_files).
THEOREM TypeCorrect == Spec => []BridgeTypeOK
BY InitTyped, NextTyped, PTL DEF Spec

==============================================================================
