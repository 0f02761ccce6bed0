------------------------- MODULE BridgeIntakeProofs -------------------------
(***************************************************************************)
(* The bridge implements IdempotentIntake: whatever the number of retries, *)
(* threads, cancellations and restarts, a request key has one job and every*)
(* answer shows it.  The invariant behind it: rows are never lost sight of *)
(* (whoever holds a job id holds that of a row), and a call that has not   *)
(* ended has not answered.                                                 *)
(***************************************************************************)
EXTENDS BridgeTypeProofs

IntakeInv ==
    /\ \A p \in Actors : txn[p] # NoTxn => Exists(txn[p].job)
    /\ pc[Worker] # "idle" => Exists(Job)
    /\ \A k \in DOMAIN queue : Exists(queue[k])
    /\ \A c \in Calls : Running(c) => Exists(target[c])
    /\ \A c \in Calls : ~Ended(c) => reply[c] = NoReply
    /\ \A c \in Calls : reply[c] \in Jobs => Exists(reply[c])
    /\ \A j \in Jobs : Running(j) => target[j] = j
    /\ \A j \in Jobs : reply[j] \in Jobs => RequestKey[reply[j]] = RequestKey[j]

-----------------------------------------------------------------------------
(* What a step of the worker leaves alone *)

LEMMA StepFrame ==
    ASSUME BridgeTypeOK, NEW l \in WorkerLabels, Step(l)
    PROVE  /\ \A c \in Calls : pc'[c] = pc[c] /\ target'[c] = target[c]
           /\ pc'[Worker] = l
           /\ l # "idle" => target'[Worker] = Job
BY ActorFacts DEF BridgeTypeOK, Step, Goto, Job

LEMMA SetsStatusFrame ==
    ASSUME BridgeTypeOK, pc[Worker] # "idle",
           NEW to \in JobStatus, NEW isRemote \in BOOLEAN, NEW retry \in {0, 1},
           NEW l \in WorkerLabels, NEW onRaise \in WorkerLabels,
           SetsStatusOr(to, isRemote, retry, l, onRaise)
    PROVE  /\ \A c \in Calls : /\ pc'[c] = pc[c] /\ target'[c] = target[c]
                               /\ txn'[c] = txn[c]
           /\ txn'[Worker] = txn[Worker] \/ txn'[Worker].job = Job
           /\ pc'[Worker] # "idle" => target'[Worker] = Job
<1>1. CASE Accepts(Job, to)
  <2>1. Step(l) /\ OpenUpdate(Worker, Job, to, isRemote, retry)
    BY <1>1 DEF SetsStatusOr
  <2>2. /\ \A c \in Calls : txn'[c] = txn[c]
        /\ txn'[Worker].job = Job
    BY <2>1, ActorFacts DEF OpenUpdate, BridgeTypeOK, StorageTypeOK
  <2> QED
    BY <2>1, <2>2, StepFrame
<1>2. CASE ~Accepts(Job, to)
  BY <1>2, StepFrame DEF SetsStatusOr, Proceed
<1> QED
  BY <1>1, <1>2

\* The worker takes its job from the queue and keeps it to the end of process_one;
\* it opens updates of that job alone, and changes nothing that belongs to a call.
WorkerFrame ==
    /\ status' = status /\ UNCHANGED <<callVars, boots>>
    /\ \A c \in Calls : pc'[c] = pc[c] /\ target'[c] = target[c] /\ txn'[c] = txn[c]
    /\ \/ /\ queue # <<>> /\ queue' = Tail(queue) /\ txn' = txn
          /\ target'[Worker] = Head(queue)
       \/ /\ queue' = queue
          /\ pc[Worker] # "idle"
          /\ txn'[Worker] = txn[Worker] \/ txn'[Worker].job = Job
          /\ pc'[Worker] # "idle" => target'[Worker] = Job

LEMMA MovesFrame ==
    ASSUME BridgeTypeOK, pc[Worker] # "idle",
           status' = status, queue' = queue, UNCHANGED <<callVars, boots>>,
           txn' = txn, NEW l \in WorkerLabels, Step(l)
    PROVE  WorkerFrame
BY StepFrame DEF WorkerFrame

LEMMA SetsFrame ==
    ASSUME BridgeTypeOK, pc[Worker] # "idle",
           status' = status, queue' = queue, UNCHANGED <<callVars, boots>>,
           NEW to \in JobStatus, NEW isRemote \in BOOLEAN, NEW retry \in {0, 1},
           NEW l \in WorkerLabels, NEW onRaise \in WorkerLabels,
           SetsStatusOr(to, isRemote, retry, l, onRaise)
    PROVE  WorkerFrame
BY SetsStatusFrame DEF WorkerFrame

LEMMA WorkerStepFrame ==
    ASSUME BridgeTypeOK, WorkerStep
    PROVE  WorkerFrame
<1> USE DEF WorkerAt, At, WorkerLabels, rowVars, memoryVars
<1>1. CASE Dequeue
  BY <1>1, ActorFacts DEF Dequeue, WorkerFrame, Goto, storageVars, BridgeTypeOK
<1>2. CASE ReadJob
  BY <1>2, MovesFrame DEF ReadJob, Proceed
<1>3. CASE CheckFlag
  <2>1. AfterFlag \in WorkerLabels
    BY DEF AfterFlag
  <2>2. \/ SetsStatusOr("cancelled", FALSE, 0, "clear", "idle")
        \/ Proceed(AfterFlag)
    BY <1>3 DEF CheckFlag, SetsStatus
  <2> QED
    BY ZenonT(60), <1>3, <2>1, <2>2, MovesFrame, SetsFrame DEF CheckFlag, Proceed, JobStatus
<1>4. CASE ClearFlag("clear", "idle") \/ ClearFlag("submit_clear", "poll_enter")
  BY <1>4, MovesFrame DEF ClearFlag, Proceed
<1>5. CASE ManualSteps
  <2>1. CASE Prepare
    <3>1. CASE Proceed("idle")
      BY <2>1, <3>1, MovesFrame DEF Prepare, Proceed
    <3>2. CASE ~Proceed("idle")
      BY ZenonT(60), <2>1, <3>2, SetsFrame DEF Prepare, SetsStatus, JobStatus
    <3> QED
      BY <3>1, <3>2
  <2>2. CASE PrepareHandoff
    <3>1. \/ Proceed("await_result") \/ Proceed("idle")
          \/ SetsStatusOr("failed", FALSE, 0, "idle", "idle")
      BY <2>2 DEF PrepareHandoff, SetsStatus
    <3> QED
      BY ZenonT(60), <2>2, <3>1, MovesFrame, SetsFrame DEF PrepareHandoff, Proceed, JobStatus
  <2>3. CASE AwaitResult
    BY <2>3, SetsFrame DEF AwaitResult, JobStatus
  <2> QED
    BY <1>5, <2>1, <2>2, <2>3 DEF ManualSteps
<1>6. CASE SubmitSteps
  <2>1. CASE Submit
    <3>1. \/ Proceed("poll_enter") \/ Proceed("submit_mark")
          \/ SetsStatusOr("cancelled", FALSE, 0, "poll_enter", "idle")
      BY <2>1 DEF Submit, SetsStatus
    <3>2. CASE Proceed("poll_enter") \/ Proceed("submit_mark")
      BY <2>1, <3>2, MovesFrame DEF Submit, Proceed
    <3>3. CASE SetsStatusOr("cancelled", FALSE, 0, "poll_enter", "idle")
      BY <2>1, <3>3, SetsFrame DEF Submit, JobStatus
    <3> QED
      BY <3>1, <3>2, <3>3
  <2>2. CASE MarkSubmitting
    BY ZenonT(60), <2>2, SetsFrame DEF MarkSubmitting, JobStatus
  <2>3. CASE CheckFlagBeforeSubmit
    <3>1. \/ Proceed("remote_submit")
          \/ SetsStatusOr("cancelled", FALSE, 0, "submit_clear", "idle")
      BY <2>3 DEF CheckFlagBeforeSubmit, SetsStatus
    <3> QED
      BY ZenonT(60), <2>3, <3>1, MovesFrame, SetsFrame
         DEF CheckFlagBeforeSubmit, Proceed, JobStatus
  <2>4. CASE SubmitToProvider
    BY ZenonT(60), <2>4, MovesFrame, SetsFrame DEF SubmitToProvider, Proceed, SetsStatus, JobStatus
  <2>5. CASE RecordRemoteId
    BY <2>5, SetsFrame DEF RecordRemoteId, JobStatus
  <2> QED
    BY <1>4, <1>6, <2>1, <2>2, <2>3, <2>4, <2>5 DEF SubmitSteps
<1>7. CASE PollingSteps
  <2>1. CASE EnterPolling
    <3>1. CASE Terminal(Job) \/ ~remote[Job]
      BY <2>1, <3>1, MovesFrame DEF EnterPolling, Proceed
    <3>2. CASE ~(Terminal(Job) \/ ~remote[Job])
      BY <2>1, <3>2, ActorFacts
         DEF EnterPolling, Goto, WorkerFrame, BridgeTypeOK, Job
    <3> QED
      BY <3>1, <3>2
  <2>2. CASE PollTop
    <3>1. \/ Proceed("ask")
          \/ SetsStatusOr("failed", FALSE, 0, "idle", "idle")
          \/ SetsStatusOr("cancelled", FALSE, 0, "clear", "idle")
      BY <2>2 DEF PollTop, SetsStatus
    <3> QED
      BY ZenonT(60), <2>2, <3>1, MovesFrame, SetsFrame DEF PollTop, Proceed, JobStatus
  <2>3. CASE AskProvider
    <3>1. UNCHANGED <<rowVars, files, queue, cancelled, txn>>
      BY <2>3 DEF AskProvider, Proceed, PollAnswer
    <3>2. \/ Step("idle") \/ Step("poll") \/ Step("gone") \/ Step("ready")
          \/ Goto(Worker, "retry") /\ target' = target
      BY <2>3 DEF AskProvider, Proceed, PollAnswer
    <3>3. CASE Goto(Worker, "retry") /\ target' = target
      BY <2>3, <3>1, <3>3, ActorFacts
         DEF AskProvider, Goto, WorkerFrame, BridgeTypeOK, Job
    <3> QED
      BY <2>3, <3>1, <3>2, <3>3, MovesFrame DEF AskProvider
  <2>4. CASE CountRetry
    BY <2>4, SetsFrame DEF CountRetry, JobStatus
  <2>5. CASE ProviderCancelled
    BY <2>5, SetsFrame DEF ProviderCancelled, SetsStatus, JobStatus
  <2> QED
    BY <1>7, <2>1, <2>2, <2>3, <2>4, <2>5 DEF PollingSteps
<1>8. CASE DownloadSteps
  <2>1. CASE BeginDownload \/ CompleteJob
    BY ZenonT(60), <2>1, SetsFrame DEF BeginDownload, CompleteJob, SetsStatus, JobStatus
  <2>2. CASE RecordOutput \/ WriteOutput \/ AttachOutput
    BY <2>2, MovesFrame DEF RecordOutput, WriteOutput, AttachOutput, Proceed
  <2> QED
    BY <1>8, <2>1, <2>2 DEF DownloadSteps
<1> QED
  BY <1>1, <1>2, <1>3, <1>4, <1>5, <1>6, <1>7, <1>8 DEF WorkerStep

-----------------------------------------------------------------------------
(* What a step of a call may do: it acts for itself alone, it works on a job that *)
(* has a row, and it answers once, with a job of its own request or a refusal.    *)

Answered(c) ==
    /\ reply'[c] \in Jobs
    /\ Exists(reply'[c])
    /\ c \in Jobs => RequestKey[reply'[c]] = RequestKey[c]

CallFrame(c) ==
    /\ ~Ended(c)
    /\ \A p \in Actors \ {c} :
          pc'[p] = pc[p] /\ target'[p] = target[p] /\ txn'[p] = txn[p]
    /\ \A d \in Calls \ {c} : reply'[d] = reply[d]
    /\ c \in Jobs => target'[c] = c
    /\ \/ txn'[c] = txn[c]
       \/ txn'[c].job = target'[c] /\ ~Ended(c)'
    /\ \/ queue' = queue
       \/ queue' = Append(queue, target'[c]) /\ ~Ended(c)'
    /\ \/ status' = status /\ (~Ended(c)' => Exists(target'[c]))
       \/ c \in Jobs /\ Clashing(c) = {} /\ InsertJob(c) /\ reply' = reply
    /\ \/ reply'[c] = reply[c] /\ ~Ended(c)'
       \/ Ended(c)' /\ (reply'[c] = Refused \/ Answered(c)) /\ status' = status

\* A call that goes on with its job, or puts it on the queue.
LEMMA ContinueFrame ==
    ASSUME BridgeTypeOK, IntakeInv, NEW c \in Calls, Running(c),
           NEW l \in CallLabels \ {"done"}, Continue(c, l),
           status' = status, txn' = txn, target' = target,
           queue' = queue \/ (queue' = Append(queue, target[c]))
    PROVE  CallFrame(c)
BY ActorFacts DEF CallFrame, Continue, Goto, Running, Ended, BridgeTypeOK, IntakeInv

LEMMA CallSetsStatusFrame ==
    ASSUME BridgeTypeOK, IntakeInv, NEW c \in Calls, Running(c),
           NEW to \in JobStatus, NEW l \in CallLabels \ {"done"},
           CallSetsStatus(c, to, l),
           status' = status, target' = target, queue' = queue
    PROVE  CallFrame(c)
<1>1. CASE Accepts(target[c], to)
  <2>1. /\ txn'[c].job = target[c]
        /\ \A p \in Actors \ {c} : txn'[p] = txn[p]
        /\ Continue(c, l)
    BY <1>1, ActorFacts DEF CallSetsStatus, OpenUpdate, BridgeTypeOK, StorageTypeOK
  <2> QED
    BY <2>1, ActorFacts
       DEF CallFrame, Continue, Goto, Running, Ended, BridgeTypeOK, IntakeInv
<1>2. CASE ~Accepts(target[c], to)
  BY <1>2, ActorFacts
     DEF CallFrame, CallSetsStatus, Answer, Goto, Running, Ended, BridgeTypeOK,
         IntakeInv
<1> QED
  BY <1>1, <1>2

LEMMA CreateFrame ==
    ASSUME BridgeTypeOK, IntakeInv, NEW j \in Jobs, Create(j)
    PROVE  CallFrame(j)
<1>1. CASE InsertOrFind(j)
  <2>1. /\ pc[j] = "not_started" /\ txn' = txn /\ queue' = queue
        /\ target'[j] = j
        /\ \A p \in Actors \ {j} : target'[p] = target[p]
    BY <1>1, ActorFacts DEF InsertOrFind, Starts, memoryVars, BridgeTypeOK
  <2>2. CASE Clashing(j) = {}
    BY <1>1, <2>1, <2>2, ActorFacts
       DEF InsertOrFind, CallFrame, Continue, Goto, Ended, BridgeTypeOK
  <2>3. CASE Clashing(j) # {}
    <3>1. PICK i \in Clashing(j) : Answer(j, i)
      BY <1>1, <2>3 DEF InsertOrFind
    <3>2. status' = status
      BY <1>1, <2>3 DEF InsertOrFind
    <3>3. i \in Jobs /\ Exists(i) /\ RequestKey[i] = RequestKey[j]
      BY DEF Clashing
    <3> QED
      BY <2>1, <3>1, <3>2, <3>3, ActorFacts
         DEF CallFrame, Answered, Answer, Goto, Ended, BridgeTypeOK
  <2> QED
    BY <2>2, <2>3
<1>2. CASE EnqueueRead(j)
  BY <1>2, ContinueFrame, ActorFacts
     DEF EnqueueRead, storageVars, rowVars, memoryVars, CallLabels, Running
<1>3. CASE EnqueueMark(j)
  BY <1>3, CallSetsStatusFrame, ActorFacts
     DEF EnqueueMark, rowVars, memoryVars, CallLabels, Running, JobStatus
<1>4. CASE EnqueuePut(j)
  <2>1. Running(j) /\ target[j] = j
    BY <1>4 DEF EnqueuePut, At, Running, IntakeInv
  <2> QED
    BY <1>4, <2>1, ContinueFrame, ActorFacts
       DEF EnqueuePut, storageVars, rowVars, CallLabels
<1> QED
  BY <1>1, <1>2, <1>3, <1>4 DEF Create

\* A client knows no job that has no row.
LEMMA KnownExists ==
    ASSUME IntakeInv, NEW j \in Jobs, Known(j)
    PROVE  Exists(j)
BY ActorFacts DEF Known, IntakeInv

LEMMA CancelFrame ==
    ASSUME BridgeTypeOK, IntakeInv, NEW c \in Cancels,
           (\E j \in Jobs : CancelRead(c, j)) \/ Cancel(c)
    PROVE  CallFrame(c)
<1>1. c \in Calls /\ c \notin Jobs
  BY BridgeAssumption DEF Calls
<1>2. ASSUME NEW j \in Jobs, CancelRead(c, j)
      PROVE  CallFrame(c)
  <2>1. /\ pc[c] = "not_started" /\ txn' = txn /\ queue' = queue /\ status' = status
        /\ target'[c] = j /\ Exists(j)
        /\ \A p \in Actors \ {c} : target'[p] = target[p]
    BY <1>1, <1>2, ActorFacts, KnownExists
       DEF CancelRead, Starts, memoryVars, storageVars, rowVars, BridgeTypeOK
  <2>2. Answer(c, j) \/ Continue(c, "cancel_request")
    BY <1>2 DEF CancelRead
  <2> QED
    BY <1>1, <2>1, <2>2, ActorFacts
       DEF CallFrame, Answered, Answer, Continue, Goto, Ended, BridgeTypeOK
<1>3. CASE CancelRequest(c) \/ CancelAtProvider(c)
  BY <1>1, <1>3, ContinueFrame
     DEF CancelRequest, CancelAtProvider, storageVars, rowVars, CallLabels, Running
<1>4. CASE CancelMark(c)
  BY <1>1, <1>4, CallSetsStatusFrame
     DEF CancelMark, rowVars, memoryVars, CallLabels, Running, JobStatus
<1> QED
  BY <1>2, <1>3, <1>4 DEF Cancel

LEMMA ImportFrame ==
    ASSUME BridgeTypeOK, IntakeInv, NEW c \in Imports,
           (\E j \in Jobs : ImportStart(c, j)) \/ Import(c)
    PROVE  CallFrame(c)
<1>1. c \in Calls /\ c \notin Jobs
  BY BridgeAssumption DEF Calls
<1>2. ASSUME NEW j \in Jobs, ImportStart(c, j)
      PROVE  CallFrame(c)
  <2>1. /\ pc[c] = "not_started" /\ queue' = queue /\ status' = status
        /\ target'[c] = j /\ Exists(j)
        /\ \A p \in Actors \ {c} : target'[p] = target[p]
    BY <1>1, <1>2, ActorFacts, KnownExists
       DEF ImportStart, Starts, memoryVars, rowVars, BridgeTypeOK
  <2>2. \/ /\ OpenUpdate(c, j, "importing_provider_result", FALSE, 0)
           /\ Continue(c, "import_upload")
        \/ Answer(c, Refused) /\ txn' = txn
    BY <1>2 DEF ImportStart
  <2>3. /\ \A p \in Actors \ {c} : txn'[p] = txn[p]
        /\ txn' = txn \/ txn'[c].job = j
    BY <1>1, <2>2, ActorFacts DEF OpenUpdate, BridgeTypeOK, StorageTypeOK
  <2> QED
    BY <1>1, <2>1, <2>2, <2>3, ActorFacts
       DEF CallFrame, Answer, Continue, Goto, Ended, BridgeTypeOK
<1>3. CASE ImportRecord(c) \/ ImportWrite(c) \/ ImportAttach(c)
  <2>1. \E l \in CallLabels \ {"done"} : Continue(c, l)
    BY <1>3 DEF ImportRecord, ImportWrite, ImportAttach, Stored, CallLabels
  <2> QED
    BY <1>1, <1>3, <2>1, ContinueFrame
       DEF ImportRecord, ImportWrite, ImportAttach, At, Running, rowVars, memoryVars
<1>4. CASE ImportComplete(c)
  BY <1>1, <1>4, CallSetsStatusFrame
     DEF ImportComplete, rowVars, memoryVars, CallLabels, Running, JobStatus
<1> QED
  BY <1>2, <1>3, <1>4 DEF Import

LEMMA ReturnFrame ==
    ASSUME BridgeTypeOK, IntakeInv, NEW c \in Calls, Return(c)
    PROVE  CallFrame(c)
<1>1. Running(c) /\ target[c] \in Jobs /\ Exists(target[c])
  BY DEF Return, At, Running, BridgeTypeOK, IntakeInv
<1>2. c \in Jobs => target[c] = c
  BY <1>1 DEF IntakeInv
<1> QED
  BY <1>1, <1>2, ActorFacts
     DEF Return, At, Answer, Goto, CallFrame, Answered, Running, Ended, BridgeTypeOK,
         storageVars, rowVars, memoryVars

-----------------------------------------------------------------------------
(* IntakeInv is inductive *)

\* What an UPDATE and a restart leave alone: rows stay rows.
LEMMA CommitKeepsRows ==
    ASSUME BridgeTypeOK, IntakeInv, NEW p \in Actors, Commit(p)
    PROVE  \A j \in Jobs : Exists(j)' <=> Exists(j)
<1>1. txn[p] \in StatusUpdate /\ Exists(txn[p].job)
  BY DEF Commit, CommitUpdate, BridgeTypeOK, StorageTypeOK, IntakeInv
<1>2. txn[p].to # Absent
  BY <1>1 DEF StatusUpdate, JobStatus, Absent
<1> QED
  BY <1>1, <1>2 DEF Commit, CommitUpdate, BridgeTypeOK, StorageTypeOK, Exists

LEMMA WorkerKeepsIntake ==
    ASSUME BridgeTypeOK, IntakeInv, WorkerStep
    PROVE  IntakeInv'
<1>1. WorkerFrame
  BY WorkerStepFrame
<1>2. UNCHANGED <<status, reply>>
  BY <1>1 DEF WorkerFrame, callVars
<1>3. \A p \in Actors : txn'[p] # NoTxn => Exists(txn'[p].job)
  BY <1>1, ActorFacts DEF WorkerFrame, IntakeInv
<1>4. /\ pc'[Worker] # "idle" => Exists(target'[Worker])
      /\ \A k \in DOMAIN queue' : Exists(queue'[k])
  <2>1. CASE queue # <<>> /\ queue' = Tail(queue) /\ target'[Worker] = Head(queue)
    <3>1. queue \in Seq(Jobs) /\ \A k \in DOMAIN queue : Exists(queue[k])
      BY DEF BridgeTypeOK, IntakeInv
    <3>2. Exists(Head(queue)) /\ \A k \in DOMAIN Tail(queue) : Exists(Tail(queue)[k])
      BY <2>1, <3>1
    <3> QED
      BY <2>1, <3>2
  <2>2. CASE /\ queue' = queue /\ pc[Worker] # "idle"
             /\ pc'[Worker] # "idle" => target'[Worker] = Job
    BY <2>2 DEF IntakeInv
  <2> QED
    BY <1>1, <2>1, <2>2 DEF WorkerFrame
<1>5. \A c \in Calls : pc'[c] = pc[c] /\ target'[c] = target[c]
  BY <1>1 DEF WorkerFrame
<1> QED
  BY <1>2, <1>3, <1>4, <1>5, ActorFacts
     DEF IntakeInv, Exists, Running, Ended, Job

LEMMA CallKeepsIntake ==
    ASSUME BridgeTypeOK, BridgeTypeOK', IntakeInv, NEW c \in Calls, CallFrame(c)
    PROVE  IntakeInv'
<1>1. \A j \in Jobs : Exists(j) => Exists(j)'
  BY DEF CallFrame, InsertJob, Exists, Absent, BridgeTypeOK, StorageTypeOK
<1>2. ~Ended(c)' => Exists(target[c])'
  BY DEF CallFrame, InsertJob, Exists, Absent, BridgeTypeOK, StorageTypeOK
<1>3. \A p \in Actors : txn'[p] # NoTxn => Exists(txn[p].job)'
  <2> SUFFICES ASSUME NEW p \in Actors, txn'[p] # NoTxn
               PROVE  Exists(txn[p].job)'
    OBVIOUS
  <2>1. CASE txn'[p] = txn[p]
    <3>1. txn[p].job \in Jobs /\ Exists(txn[p].job)
      BY <2>1 DEF IntakeInv, BridgeTypeOK, StorageTypeOK, StatusUpdate
    <3> QED
      BY <1>1, <2>1, <3>1
  <2>2. CASE txn'[p] # txn[p]
    BY <1>2, <2>2, ActorFacts DEF CallFrame
  <2> QED
    BY <2>1, <2>2
<1>4. (pc[Worker] # "idle" => Exists(Job))'
  <2>1. pc'[Worker] = pc[Worker] /\ target'[Worker] = target[Worker]
    BY ActorFacts DEF CallFrame
  <2>2. pc[Worker] # "idle" => Job \in Jobs /\ Exists(Job)
    BY DEF IntakeInv, BridgeTypeOK, Job
  <2> QED
    BY <1>1, <2>1, <2>2 DEF Job, Exists
<1>5. \A k \in DOMAIN queue' : Exists(queue[k])'
  <2>1. queue \in Seq(Jobs) /\ \A k \in DOMAIN queue : status'[queue[k]] # Absent
    BY <1>1 DEF BridgeTypeOK, IntakeInv, Exists
  <2>2. CASE queue' = Append(queue, target'[c]) /\ Exists(target[c])'
    <3>1. /\ DOMAIN queue' = 1 .. (Len(queue) + 1)
          /\ \A k \in DOMAIN queue' :
                queue'[k] = IF k = Len(queue) + 1 THEN target'[c] ELSE queue[k]
      BY <2>1, <2>2
    <3> QED
      BY <2>1, <2>2, <3>1 DEF Exists
  <2> QED
    BY <1>2, <2>1, <2>2 DEF CallFrame, Exists
<1>6. \A d \in Calls : (Running(d) => Exists(target[d]))'
  <2> SUFFICES ASSUME NEW d \in Calls, Running(d)'
               PROVE  Exists(target[d])'
    OBVIOUS
  <2>1. CASE d = c
    BY <1>2, <2>1 DEF Running, Ended
  <2>2. CASE d # c
    BY <1>1, <2>2, ActorFacts DEF CallFrame, Running, IntakeInv, BridgeTypeOK
  <2> QED
    BY <2>1, <2>2
<1>7. \A d \in Calls : (~Ended(d) => reply[d] = NoReply)'
  BY ActorFacts DEF CallFrame, Ended, IntakeInv
<1>8. \A d \in Calls : reply'[d] \in Jobs => Exists(reply[d])'
  <2> SUFFICES ASSUME NEW d \in Calls, reply'[d] \in Jobs
               PROVE  Exists(reply[d])'
    OBVIOUS
  <2>1. CASE reply'[d] = reply[d]
    BY <1>1, <2>1 DEF IntakeInv
  <2>2. CASE reply'[d] # reply[d]
    <3>1. d = c /\ (reply'[c] = Refused \/ Answered(c)) /\ status' = status
      BY <2>2 DEF CallFrame
    <3> QED
      BY <3>1, BridgeAssumption DEF Answered, Exists
  <2> QED
    BY <2>1, <2>2
<1>9. \A j \in Jobs : (Running(j) => target[j] = j)'
  BY ActorFacts DEF CallFrame, Running, IntakeInv
<1>10. \A j \in Jobs : reply'[j] \in Jobs => RequestKey[reply'[j]] = RequestKey[j]
  <2> SUFFICES ASSUME NEW j \in Jobs, reply'[j] \in Jobs
               PROVE  RequestKey[reply'[j]] = RequestKey[j]
    OBVIOUS
  <2>1. CASE reply'[j] = reply[j]
    BY <2>1 DEF IntakeInv
  <2>2. CASE reply'[j] # reply[j]
    <3>1. j = c /\ (reply'[c] = Refused \/ Answered(c))
      BY <2>2, ActorFacts DEF CallFrame
    <3> QED
      BY <3>1, BridgeAssumption DEF Answered
  <2> QED
    BY <2>1, <2>2
<1> QED
  BY <1>3, <1>4, <1>5, <1>6, <1>7, <1>8, <1>9, <1>10 DEF IntakeInv

LEMMA CommitKeepsIntake ==
    ASSUME BridgeTypeOK, IntakeInv, NEW p \in Actors, Commit(p)
    PROVE  IntakeInv'
<1>1. \A j \in Jobs : Exists(j)' <=> Exists(j)
  BY CommitKeepsRows
<1>2. UNCHANGED <<queue, pc, target, reply>>
  BY DEF Commit, memoryVars, controlVars, callVars
<1>3. \A q \in Actors : txn'[q] # NoTxn => txn'[q] = txn[q]
  BY DEF Commit, CommitUpdate, BridgeTypeOK, StorageTypeOK
<1>4. \A q \in Actors : txn'[q] # NoTxn => Exists(txn[q].job)'
  BY <1>1, <1>3 DEF IntakeInv, BridgeTypeOK, StorageTypeOK, StatusUpdate
<1>5. /\ pc'[Worker] # "idle" => Exists(target[Worker])'
      /\ \A k \in DOMAIN queue' : Exists(queue[k])'
      /\ \A c \in Calls : Running(c)' => Exists(target[c])'
  BY <1>1, <1>2, ActorFacts DEF IntakeInv, BridgeTypeOK, Job, Running
<1> QED
  BY <1>1, <1>2, <1>4, <1>5 DEF IntakeInv, Ended, Running, Job

LEMMA RestartKeepsIntake ==
    ASSUME BridgeTypeOK, IntakeInv, Restart
    PROVE  IntakeInv'
<1>1. /\ status' = status
      /\ \A p \in Actors : txn'[p] = NoTxn
      /\ pc'[Worker] = "idle"
  BY ActorFacts DEF Restart, rowVars
<1>2. \A c \in Calls : /\ pc'[c] \in {"not_started", "done"}
                       /\ pc'[c] = "not_started" => pc[c] = "not_started"
                       /\ reply'[c] \in {reply[c], Lost}
                       /\ pc'[c] = "not_started" => reply'[c] = reply[c]
  BY ActorFacts DEF Restart, Running
<1>3. \A k \in DOMAIN queue' : Exists(queue'[k])
  <2>1. queue' \in [1 .. Cardinality(Recovered) -> Recovered]
    BY DEF Restart, QueuesAfterRestart, QueuesOf
  <2>2. \A j \in Recovered : Exists(j)
    BY DEF Recovered, InFlightJobs, InFlightStates, Exists, Absent
  <2> QED
    BY <2>1, <2>2
<1>4. \A c \in Calls : reply'[c] \in Jobs => reply'[c] = reply[c]
  BY <1>2, BridgeAssumption
<1> QED
  BY <1>1, <1>2, <1>3, <1>4, ActorFacts DEF IntakeInv, Exists, Running, Ended, Job

LEMMA InitIntake == Init => IntakeInv
BY ActorFacts, BridgeAssumption
   DEF Init, StorageInit, IntakeInv, Running, Ended

LEMMA NextIntake ==
    ASSUME BridgeTypeOK, BridgeTypeOK', IntakeInv, [Next]_vars
    PROVE  IntakeInv'
<1>1. CASE WorkerStep
  BY <1>1, WorkerKeepsIntake
<1>2. CASE \E p \in Actors : Commit(p)
  BY <1>2, CommitKeepsIntake
<1>3. CASE \E c \in Calls : CallFrame(c)
  BY <1>3, CallKeepsIntake
<1>4. CASE Restart
  BY <1>4, RestartKeepsIntake
<1>5. CASE UNCHANGED vars
  BY <1>5 DEF vars, storageVars, rowVars, memoryVars, controlVars, callVars,
              IntakeInv, Exists, Running, Ended, Job
<1> QED
  BY <1>1, <1>2, <1>3, <1>4, <1>5, ActorFacts, CreateFrame, CancelFrame, ImportFrame,
     ReturnFrame DEF Next

\* Whoever holds a job id (the queue, the worker, a set_job_status under way, a call,
\* an answer) holds that of a row, and an answer to a create call shows a job of the
\* request that the call made.
THEOREM IntakeInvariant == Spec => []IntakeInv
<1>1. BridgeTypeOK /\ BridgeTypeOK' /\ IntakeInv /\ [Next]_vars => IntakeInv'
  BY NextIntake
<1> QED
  BY <1>1, InitIntake, TypeCorrect, PTL DEF Spec

-----------------------------------------------------------------------------
(* The refinement *)

LEMMA IntakeInit == Init => Intake!Init
BY ActorFacts, BridgeAssumption
   DEF Init, StorageInit, Intake!Init, Exists, AcceptedJobs, CreateAnswers

\* The abstract variables are still when no row is made and no create call answers
\* with a job.
LEMMA IntakeStutters ==
    ASSUME \A j \in Jobs : Exists(j)' <=> Exists(j),
           \A j \in Jobs : reply'[j] \in Jobs \/ reply[j] \in Jobs => reply'[j] = reply[j]
    PROVE  UNCHANGED <<AcceptedJobs, CreateAnswers>>
<1>1. AcceptedJobs' = AcceptedJobs
  BY DEF AcceptedJobs
<1>2. CreateAnswers' = CreateAnswers
  BY DEF CreateAnswers
<1> QED
  BY <1>1, <1>2

\* An INSERT is the acceptance of a request whose key nobody owns; an answer to a
\* create call tells of the owner.
LEMMA CallImplements ==
    ASSUME BridgeTypeOK, IntakeInv, NEW c \in Calls, CallFrame(c)
    PROVE  [Intake!Next]_<<AcceptedJobs, CreateAnswers>>
<1>1. reply[c] = NoReply /\ NoReply \notin Jobs /\ Refused \notin Jobs
  BY BridgeAssumption DEF CallFrame, IntakeInv
<1>2. CASE status' # status
  <2>1. c \in Jobs /\ Clashing(c) = {} /\ InsertJob(c) /\ reply' = reply
    BY <1>2 DEF CallFrame
  <2>2. AcceptedJobs' = AcceptedJobs \cup {c}
    BY <2>1 DEF InsertJob, Exists, Absent, BridgeTypeOK, StorageTypeOK, AcceptedJobs
  <2>3. \A a \in AcceptedJobs : RequestKey[a] # RequestKey[c]
    BY <2>1 DEF Clashing, AcceptedJobs
  <2>4. Intake!Accept(c)
    BY <2>1, <2>2, <2>3 DEF Intake!Accept, CreateAnswers
  <2> QED
    BY <2>1, <2>4 DEF Intake!Next
<1>3. CASE status' = status /\ c \in Jobs /\ Answered(c)
  <2>1. reply'[c] \in AcceptedJobs /\ RequestKey[reply'[c]] = RequestKey[c]
    BY <1>3 DEF Answered, AcceptedJobs
  <2>2. \A d \in Jobs \ {c} : reply'[d] = reply[d]
    BY ActorFacts DEF CallFrame
  <2>3. AcceptedJobs' = AcceptedJobs
    BY <1>3 DEF Exists, AcceptedJobs
  <2>4. CreateAnswers' = [CreateAnswers EXCEPT ![c] = reply'[c]]
    BY <2>1, <2>2 DEF CreateAnswers, AcceptedJobs
  <2>5. Intake!Tell(c)
    BY <1>1, <1>3, <2>1, <2>3, <2>4 DEF Intake!Tell, CreateAnswers
  <2> QED
    BY <1>3, <2>5 DEF Intake!Next
<1>4. CASE status' = status /\ ~(c \in Jobs /\ Answered(c))
  <2>1. \A j \in Jobs : Exists(j)' <=> Exists(j)
    BY <1>4 DEF Exists
  <2>2. \A j \in Jobs : reply'[j] \in Jobs \/ reply[j] \in Jobs => reply'[j] = reply[j]
    BY <1>1, <1>4, ActorFacts DEF CallFrame
  <2> QED
    BY <2>1, <2>2, IntakeStutters
<1> QED
  BY <1>2, <1>3, <1>4

LEMMA NextImplements ==
    ASSUME BridgeTypeOK, IntakeInv, [Next]_vars
    PROVE  [Intake!Next]_<<AcceptedJobs, CreateAnswers>>
<1>1. CASE \E c \in Calls : CallFrame(c)
  BY <1>1, CallImplements
<1>2. CASE WorkerStep
  <2>1. UNCHANGED <<status, reply>>
    BY <1>2, WorkerStepFrame DEF WorkerFrame, callVars
  <2> QED
    BY <2>1, IntakeStutters DEF Exists
<1>3. CASE \E p \in Actors : Commit(p)
  <2>1. reply' = reply
    BY <1>3 DEF Commit, callVars
  <2> QED
    BY <1>3, <2>1, CommitKeepsRows, IntakeStutters
<1>4. CASE Restart
  <2>1. status' = status
    BY <1>4 DEF Restart, rowVars
  <2>2. \A j \in Jobs : /\ reply'[j] \in {reply[j], Lost}
                        /\ reply[j] \in Jobs => reply'[j] = reply[j]
    BY <1>4, ActorFacts, BridgeAssumption DEF Restart, IntakeInv, Running, Ended
  <2>3. \A j \in Jobs : reply'[j] \in Jobs \/ reply[j] \in Jobs => reply'[j] = reply[j]
    BY <2>2, BridgeAssumption
  <2> QED
    BY <2>1, <2>3, IntakeStutters DEF Exists
<1>5. CASE UNCHANGED vars
  BY <1>5, IntakeStutters DEF vars, storageVars, rowVars, callVars, Exists
<1> QED
  BY <1>1, <1>2, <1>3, <1>4, <1>5, ActorFacts, CreateFrame, CancelFrame, ImportFrame,
     ReturnFrame DEF Next

\* create_job_idempotent keeps its promise through any number of retries, threads,
\* cancellations, manual completions and restarts: one job per request key, and every
\* answer to a create call shows it.
THEOREM IntakeRefined == Spec => IntakeSpec
BY IntakeInit, NextImplements, TypeCorrect, IntakeInvariant, PTL
   DEF Spec, IntakeSpec, Intake!Spec

==============================================================================
