--------------------------- MODULE BridgeFlowProofs ---------------------------
(***************************************************************************)
(* The flow of control through the bridge, as a graph: which label leads   *)
(* to which, on what condition, and which set_job_status is under way      *)
(* then.  Every step of the worker and of a call takes one edge of it; the *)
(* invariants that follow are proved edge by edge: what may be pending     *)
(* where, the two modes, the handoff, the remote id and the retries.       *)
(***************************************************************************)
EXTENDS BridgeIntakeProofs

AwaitsFiles == {"awaiting_manual_provider_result", "importing_provider_result"}
Automated == {"submitting_remote", "polling_remote", "downloading"}
ByHand == {"awaiting_manual_provider_submission"} \cup AwaitsFiles

ManualLabels == {"prepare", "handoff", "await_result"}
SubmitLabels ==
    {"submit", "submit_mark", "submit_flag", "submit_clear", "remote_submit",
     "record_remote"}
\* Where the provider has answered a poll.
AnsweredLabels ==
    {"retry", "gone", "ready", "download", "write_file", "attach", "complete"}
PollLabels == {"poll", "ask"} \cup AnsweredLabels
MockLabels == SubmitLabels \cup {"poll_enter"} \cup PollLabels

\* The provider knows the jobs it knew before.
SameKnowledge == \A j \in Jobs : provider'[j] = Unknown <=> provider[j] = Unknown

-----------------------------------------------------------------------------
(* The edges of the worker *)

\* The worker goes to l with no set_job_status under way.
Moves(l) == pc'[Worker] = l /\ txn'[Worker] = NoTxn

\* The worker goes to l, where it waits for the UPDATE that it has opened.
Opens(to, isRemote, retry, l) ==
    /\ Accepts(Job, to)
    /\ pc'[Worker] = l
    /\ txn'[Worker] # NoTxn
    /\ txn'[Worker].job = Job /\ txn'[Worker].from = status[Job]
    /\ txn'[Worker].to = to /\ txn'[Worker].remote = isRemote
    /\ txn'[Worker].retry = retry

Refuses(to, l) == ~Accepts(Job, to) /\ Moves(l)
Writes(to, l) == Opens(to, FALSE, 0, l) \/ Refuses(to, "idle")

DeliveryEdge ==
    \/ pc[Worker] = "start" /\ Terminal(Job) /\ Moves("idle")
    \/ pc[Worker] = "start" /\ ~Terminal(Job) /\ Moves("flag")
    \/ pc[Worker] = "flag" /\ Writes("cancelled", "clear")
    \/ pc[Worker] = "flag" /\ Job \in Manual /\ Moves("prepare")
    \/ pc[Worker] = "flag" /\ Job \notin Manual /\ remote[Job] /\ Moves("poll_enter")
    \/ pc[Worker] = "flag" /\ Job \notin Manual /\ ~remote[Job] /\ Moves("submit")
    \/ pc[Worker] = "clear" /\ Moves("idle")

ManualEdge ==
    \/ /\ pc[Worker] = "prepare" /\ Moves("idle")
       /\ status[Job] \notin {"queued_local", "created",
                              "awaiting_manual_provider_submission"}
    \/ pc[Worker] = "prepare" /\ Writes("awaiting_manual_provider_submission", "handoff")
    \/ pc[Worker] = "handoff" /\ Writes("failed", "idle")
    \/ pc[Worker] = "handoff" /\ Job \in BadMetadata /\ Moves("idle")
    \/ pc[Worker] = "handoff" /\ Moves("await_result") /\ handoff'[Job]
    \/ /\ pc[Worker] = "await_result"
       /\ \/ Opens("awaiting_manual_provider_result", TRUE, 0, "idle")
          \/ Refuses("awaiting_manual_provider_result", "idle")

SubmitEdge ==
    \/ pc[Worker] = "submit" /\ Terminal(Job) /\ Moves("poll_enter")
    \/ /\ pc[Worker] = "submit" /\ status[Job] = "cancelling"
       /\ Writes("cancelled", "poll_enter")
    \/ /\ pc[Worker] = "submit" /\ ~Terminal(Job) /\ status[Job] # "cancelling"
       /\ Moves("submit_mark")
    \/ /\ pc[Worker] = "submit_mark"
       /\ \/ Opens("submitting_remote", FALSE, 0, "submit_flag")
          \/ Refuses("submitting_remote", "poll_enter")
    \/ pc[Worker] = "submit_flag" /\ Writes("cancelled", "submit_clear")
    \/ pc[Worker] = "submit_flag" /\ Moves("remote_submit")
    \/ pc[Worker] = "submit_clear" /\ Moves("poll_enter")
    \/ pc[Worker] = "remote_submit" /\ SameKnowledge /\ Writes("failed", "poll_enter")
    \/ pc[Worker] = "remote_submit" /\ SameKnowledge /\ Job \in BadMetadata /\ Moves("idle")
    \/ pc[Worker] = "remote_submit" /\ provider'[Job] # Unknown /\ Moves("record_remote")
    \/ /\ pc[Worker] = "record_remote"
       /\ \/ Opens("polling_remote", TRUE, 0, "poll_enter")
          \/ Refuses("polling_remote", "idle")

PollEdge ==
    \/ /\ pc[Worker] = "poll_enter" /\ (Terminal(Job) \/ ~remote[Job])
       /\ Moves("idle")
    \/ /\ pc[Worker] = "poll_enter" /\ ~Terminal(Job) /\ remote[Job]
       /\ Moves("poll") /\ tries' = attempts[Job]
    \/ pc[Worker] = "poll" /\ Writes("failed", "idle")
    \/ pc[Worker] = "poll" /\ Writes("cancelled", "clear")
    \/ pc[Worker] = "poll" /\ tries < MaxAttempts /\ Moves("ask") /\ tries' = tries
    \/ pc[Worker] = "ask" /\ provider[Job] = Unknown /\ Moves("idle")
    \/ /\ pc[Worker] = "ask" /\ provider[Job] # Unknown
       /\ \/ Moves("retry") /\ tries' = tries + 1
          \/ Moves("poll") /\ tries' = tries
          \/ Moves("gone")
          \/ Moves("ready")
    \/ /\ pc[Worker] = "retry"
       /\ \/ Opens("polling_remote", FALSE, 1, "poll") /\ tries' = tries
          \/ Refuses("polling_remote", "idle")
    \/ pc[Worker] = "gone" /\ Writes("cancelled", "idle")

DownloadEdge ==
    \/ pc[Worker] = "ready" /\ Writes("downloading", "download")
    \/ /\ pc[Worker] = "download" /\ IsRecorded(Job, MockOutput) /\ Moves("attach")
    \/ /\ pc[Worker] = "download" /\ ~IsRecorded(Job, MockOutput)
       /\ Moves("write_file")
    \/ pc[Worker] = "write_file" /\ Moves("attach")
    \/ pc[Worker] = "attach" /\ Moves("complete")
    \/ pc[Worker] = "complete" /\ Writes("complete", "idle")

\* What the worker changes besides pc, target and txn, and where.
WorkerEffects ==
    /\ UNCHANGED <<status, remote, attempts, callVars, boots>>
    /\ \/ handoff' = handoff
       \/ pc[Worker] = "handoff" /\ handoff' = [handoff EXCEPT ![Job] = TRUE]
    /\ IF pc[Worker] = "download"
       THEN recorded' = recorded \cup {<<Job, Content[MockOutput]>>}
       ELSE recorded' = recorded
    /\ IF pc[Worker] = "write_file" THEN files' = files \cup {<<Job, MockOutput>>}
                                    ELSE files' = files
    /\ IF pc[Worker] = "attach" THEN outputs' = [outputs EXCEPT ![Job] = {MockOutput}]
                                ELSE outputs' = outputs
    /\ \A j \in Jobs :
          \/ provider'[j] = Unknown <=> provider[j] = Unknown
          \/ j = Job /\ pc[Worker] = "remote_submit" /\ pc'[Worker] = "record_remote"

CallsKept ==
    \A c \in Calls : pc'[c] = pc[c] /\ target'[c] = target[c] /\ txn'[c] = txn[c]

JobKept ==
    /\ pc[Worker] # "idle"
    /\ pc'[Worker] # "idle" => target'[Worker] = Job
    /\ pc'[Worker] = "idle" => target'[Worker] = NoJob

TakesJob ==
    /\ pc[Worker] = "idle" /\ Moves("start")
    /\ queue # <<>> /\ queue' = Tail(queue) /\ target'[Worker] = Head(queue)

WorkerEdge ==
    /\ txn[Worker] = NoTxn
    /\ WorkerEffects /\ CallsKept
    /\ \/ TakesJob
       \/ /\ queue' = queue /\ JobKept
          /\ DeliveryEdge \/ ManualEdge \/ SubmitEdge \/ PollEdge \/ DownloadEdge

\* Proceed and set_job_status, seen as parts of an edge.
LEMMA ProceedEdge ==
    ASSUME BridgeTypeOK, pc[Worker] # "idle", txn[Worker] = NoTxn,
           NEW l \in WorkerLabels, Proceed(l)
    PROVE  /\ CallsKept /\ JobKept /\ Moves(l)
           /\ l # "idle" => tries' = tries
BY ActorFacts DEF Proceed, Step, Goto, CallsKept, JobKept, Moves, BridgeTypeOK, Job

LEMMA SetsEdge ==
    ASSUME BridgeTypeOK, pc[Worker] # "idle", txn[Worker] = NoTxn,
           NEW to \in JobStatus, NEW isRemote \in BOOLEAN, NEW retry \in {0, 1},
           NEW l \in WorkerLabels, NEW onRaise \in WorkerLabels,
           SetsStatusOr(to, isRemote, retry, l, onRaise)
    PROVE  /\ CallsKept /\ JobKept
           /\ Opens(to, isRemote, retry, l) \/ Refuses(to, onRaise)
           /\ pc'[Worker] # "idle" => tries' = tries
<1>1. CASE Accepts(Job, to)
  <2>1. Step(l) /\ OpenUpdate(Worker, Job, to, isRemote, retry)
    BY <1>1 DEF SetsStatusOr
  <2>2. Job \in Jobs /\ status[Job] \in JobStatus
    BY <1>1 DEF BridgeTypeOK, StorageTypeOK, Accepts, ValidTransition,
                AllowedTransitions, JobStatus, Job
  <2> DEFINE u == [job |-> Job, from |-> status[Job], to |-> to,
                   remote |-> isRemote, retry |-> retry]
  <2>3. u \in StatusUpdate /\ u # NoTxn
    BY <2>2, NoTxnAssumption DEF StatusUpdate
  <2>4. txn' = [txn EXCEPT ![Worker] = u]
    BY <2>1 DEF OpenUpdate
  <2>5. /\ u.job = Job /\ u.from = status[Job] /\ u.to = to
        /\ u.remote = isRemote /\ u.retry = retry
    OBVIOUS
  <2> HIDE DEF u
  <2>6. txn'[Worker] = u /\ \A c \in Calls : txn'[c] = txn[c]
    BY <2>4, ActorFacts DEF BridgeTypeOK, StorageTypeOK
  <2>7. /\ \A c \in Calls : pc'[c] = pc[c] /\ target'[c] = target[c]
        /\ JobKept /\ pc'[Worker] = l
        /\ l # "idle" => tries' = tries
    BY <2>1, ActorFacts DEF Step, Goto, JobKept, BridgeTypeOK, Job
  <2> QED
    BY <1>1, <2>3, <2>5, <2>6, <2>7 DEF Opens, CallsKept
<1>2. CASE ~Accepts(Job, to)
  BY <1>2, ProceedEdge DEF SetsStatusOr, Refuses, Moves
<1> QED
  BY <1>1, <1>2

LEMMA WritesEdge ==
    ASSUME BridgeTypeOK, pc[Worker] # "idle", txn[Worker] = NoTxn,
           NEW to \in JobStatus, NEW l \in WorkerLabels, SetsStatus(to, l)
    PROVE  CallsKept /\ JobKept /\ Writes(to, l)
<1>1. "idle" \in WorkerLabels
  BY DEF WorkerLabels
<1>2. SetsStatusOr(to, FALSE, 0, l, "idle")
  BY DEF SetsStatus
<1> QED
  BY <1>1, <1>2, SetsEdge DEF Writes

LEMMA OtherEdges ==
    ASSUME BridgeTypeOK, pc[Worker] # "idle", txn[Worker] = NoTxn
    PROVE  /\ SetsStatusOr("awaiting_manual_provider_result", TRUE, 0, "idle", "idle") =>
                  /\ CallsKept /\ JobKept
                  /\ \/ Opens("awaiting_manual_provider_result", TRUE, 0, "idle")
                     \/ Refuses("awaiting_manual_provider_result", "idle")
           /\ SetsStatusOr("submitting_remote", FALSE, 0, "submit_flag", "poll_enter") =>
                  /\ CallsKept /\ JobKept
                  /\ \/ Opens("submitting_remote", FALSE, 0, "submit_flag")
                     \/ Refuses("submitting_remote", "poll_enter")
           /\ SetsStatusOr("polling_remote", TRUE, 0, "poll_enter", "idle") =>
                  /\ CallsKept /\ JobKept
                  /\ \/ Opens("polling_remote", TRUE, 0, "poll_enter")
                     \/ Refuses("polling_remote", "idle")
           /\ SetsStatusOr("polling_remote", FALSE, 1, "poll", "idle") =>
                  /\ CallsKept /\ JobKept
                  /\ \/ Opens("polling_remote", FALSE, 1, "poll")
                     \/ Refuses("polling_remote", "idle")
                  /\ pc'[Worker] # "idle" => tries' = tries
<1>1. /\ "awaiting_manual_provider_result" \in JobStatus
      /\ "submitting_remote" \in JobStatus /\ "polling_remote" \in JobStatus
      /\ "idle" \in WorkerLabels /\ "submit_flag" \in WorkerLabels
      /\ "poll_enter" \in WorkerLabels /\ "poll" \in WorkerLabels
  BY DEF JobStatus, WorkerLabels
<1>2. SetsStatusOr("awaiting_manual_provider_result", TRUE, 0, "idle", "idle") =>
          /\ CallsKept /\ JobKept
          /\ \/ Opens("awaiting_manual_provider_result", TRUE, 0, "idle")
             \/ Refuses("awaiting_manual_provider_result", "idle")
  BY <1>1, SetsEdge
<1>3. SetsStatusOr("submitting_remote", FALSE, 0, "submit_flag", "poll_enter") =>
          /\ CallsKept /\ JobKept
          /\ \/ Opens("submitting_remote", FALSE, 0, "submit_flag")
             \/ Refuses("submitting_remote", "poll_enter")
  BY <1>1, SetsEdge
<1>4. SetsStatusOr("polling_remote", TRUE, 0, "poll_enter", "idle") =>
          /\ CallsKept /\ JobKept
          /\ \/ Opens("polling_remote", TRUE, 0, "poll_enter")
             \/ Refuses("polling_remote", "idle")
  BY <1>1, SetsEdge
<1>5. SetsStatusOr("polling_remote", FALSE, 1, "poll", "idle") =>
          /\ CallsKept /\ JobKept
          /\ \/ Opens("polling_remote", FALSE, 1, "poll")
             \/ Refuses("polling_remote", "idle")
          /\ pc'[Worker] # "idle" => tries' = tries
  BY <1>1, SetsEdge
<1> QED
  BY <1>2, <1>3, <1>4, <1>5

LEMMA DeliveryTakesEdge ==
    ASSUME BridgeTypeOK, ReadJob \/ CheckFlag \/ ClearFlag("clear", "idle")
    PROVE  WorkerEdge
<1> USE DEF WorkerAt, At, WorkerLabels, memoryVars, rowVars
<1>1. WorkerEffects /\ queue' = queue /\ txn[Worker] = NoTxn /\ pc[Worker] # "idle"
  BY DEF ReadJob, CheckFlag, ClearFlag, WorkerEffects
<1>2. CASE ReadJob
  <2>1. \/ Terminal(Job) /\ Proceed("idle")
        \/ ~Terminal(Job) /\ Proceed("flag")
    BY <1>2 DEF ReadJob
  <2> QED
    BY <1>1, <1>2, <2>1, ProceedEdge DEF ReadJob, WorkerEdge, DeliveryEdge
<1>3. CASE CheckFlag
  <2>1. \/ SetsStatusOr("cancelled", FALSE, 0, "clear", "idle")
        \/ Proceed("prepare") /\ Job \in Manual
        \/ Proceed("poll_enter") /\ Job \notin Manual /\ remote[Job]
        \/ Proceed("submit") /\ Job \notin Manual /\ ~remote[Job]
    BY <1>3 DEF CheckFlag, SetsStatus, AfterFlag
  <2>2. CASE SetsStatusOr("cancelled", FALSE, 0, "clear", "idle")
    BY <1>1, <1>3, <2>2, SetsEdge
       DEF CheckFlag, JobStatus, WorkerEdge, DeliveryEdge, Writes
  <2> QED
    BY <1>1, <1>3, <2>1, <2>2, ProceedEdge DEF CheckFlag, WorkerEdge, DeliveryEdge
<1>4. CASE ClearFlag("clear", "idle")
  BY <1>1, <1>4, ProceedEdge DEF ClearFlag, WorkerEdge, DeliveryEdge
<1> QED
  BY <1>2, <1>3, <1>4

LEMMA ManualTakesEdge ==
    ASSUME BridgeTypeOK, ManualSteps
    PROVE  WorkerEdge
<1> USE DEF WorkerAt, At, WorkerLabels, memoryVars, rowVars, JobStatus
<1>1. WorkerEffects /\ queue' = queue /\ txn[Worker] = NoTxn /\ pc[Worker] # "idle"
  BY DEF ManualSteps, Prepare, PrepareHandoff, AwaitResult, UpdateProviderMetadata,
         WorkerEffects
<1>2. CASE Prepare
  <2>1. \/ SetsStatus("awaiting_manual_provider_submission", "handoff")
        \/ /\ status[Job] \notin {"queued_local", "created",
                                  "awaiting_manual_provider_submission"}
           /\ Proceed("idle")
    BY <1>2 DEF Prepare
  <2>2. CASE SetsStatus("awaiting_manual_provider_submission", "handoff")
    <3>1. CallsKept /\ JobKept /\ Writes("awaiting_manual_provider_submission", "handoff")
      BY <1>1, <2>2, WritesEdge
    <3> QED
      BY <1>1, <1>2, <3>1 DEF Prepare, WorkerEdge, ManualEdge
  <2> QED
    BY <1>1, <1>2, <2>1, <2>2, ProceedEdge DEF Prepare, WorkerEdge, ManualEdge
<1>3. CASE PrepareHandoff
  <2>1. \/ SetsStatus("failed", "idle")
        \/ UpdateProviderMetadata(Job) /\ Proceed("await_result")
        \/ Job \in BadMetadata /\ Proceed("idle")
    BY <1>3 DEF PrepareHandoff, SubmitRaises
  <2>2. CASE SetsStatus("failed", "idle")
    <3>1. CallsKept /\ JobKept /\ Writes("failed", "idle")
      BY <1>1, <2>2, WritesEdge
    <3> QED
      BY <1>1, <1>3, <3>1 DEF PrepareHandoff, WorkerEdge, ManualEdge
  <2>3. CASE UpdateProviderMetadata(Job) /\ Proceed("await_result")
    <3>1. handoff'[Job]
      BY <1>1, <2>3 DEF UpdateProviderMetadata, BridgeTypeOK, StorageTypeOK, Job
    <3> QED
      BY <1>1, <1>3, <2>3, <3>1, ProceedEdge DEF PrepareHandoff, WorkerEdge, ManualEdge
  <2>4. CASE Job \in BadMetadata /\ Proceed("idle")
    BY <1>1, <1>3, <2>4, ProceedEdge DEF PrepareHandoff, WorkerEdge, ManualEdge
  <2> QED
    BY <2>1, <2>2, <2>3, <2>4
<1>4. CASE AwaitResult
  <2>1. /\ pc[Worker] = "await_result"
        /\ SetsStatusOr("awaiting_manual_provider_result", TRUE, 0, "idle", "idle")
    BY <1>4 DEF AwaitResult
  <2>2. /\ CallsKept /\ JobKept
        /\ \/ Opens("awaiting_manual_provider_result", TRUE, 0, "idle")
           \/ Refuses("awaiting_manual_provider_result", "idle")
    BY <1>1, <2>1, OtherEdges
  <2> QED
    BY <1>1, <2>1, <2>2 DEF WorkerEdge, ManualEdge
<1> QED
  BY <1>2, <1>3, <1>4 DEF ManualSteps

LEMMA SubmitTakesEdge ==
    ASSUME BridgeTypeOK, SubmitSteps
    PROVE  WorkerEdge
<1> USE DEF WorkerAt, At, WorkerLabels, memoryVars, rowVars, JobStatus
<1>1. queue' = queue /\ txn[Worker] = NoTxn /\ pc[Worker] # "idle"
  BY DEF SubmitSteps, Submit, MarkSubmitting, CheckFlagBeforeSubmit, ClearFlag,
         SubmitToProvider, RecordRemoteId
<1>8. provider' = provider => WorkerEffects
  BY DEF SubmitSteps, Submit, MarkSubmitting, CheckFlagBeforeSubmit, ClearFlag,
         SubmitToProvider, RecordRemoteId, WorkerEffects
<1>2. CASE Submit
  <2>1. \/ Terminal(Job) /\ Proceed("poll_enter")
        \/ ~Terminal(Job) /\ status[Job] # "cancelling" /\ Proceed("submit_mark")
        \/ /\ status[Job] = "cancelling"
           /\ SetsStatusOr("cancelled", FALSE, 0, "poll_enter", "idle")
    BY <1>2 DEF Submit, SetsStatus
  <2>2. WorkerEffects /\ CallsKept /\ JobKept
    BY <1>1, <1>2, <1>8, <2>1, SetsEdge, ProceedEdge DEF Submit
  <2>3. \/ Terminal(Job) /\ Moves("poll_enter")
        \/ ~Terminal(Job) /\ status[Job] # "cancelling" /\ Moves("submit_mark")
        \/ status[Job] = "cancelling" /\ Writes("cancelled", "poll_enter")
    BY <1>1, <2>1, SetsEdge, ProceedEdge DEF Writes
  <2> QED
    BY <1>1, <1>2, <2>2, <2>3 DEF Submit, WorkerEdge, SubmitEdge
<1>3. CASE MarkSubmitting
  <2>1. /\ pc[Worker] = "submit_mark" /\ provider' = provider
        /\ SetsStatusOr("submitting_remote", FALSE, 0, "submit_flag", "poll_enter")
    BY <1>3 DEF MarkSubmitting
  <2>2. /\ CallsKept /\ JobKept
        /\ \/ Opens("submitting_remote", FALSE, 0, "submit_flag")
           \/ Refuses("submitting_remote", "poll_enter")
    BY <1>1, <2>1, OtherEdges
  <2>3. SubmitEdge
    BY <2>1, <2>2 DEF SubmitEdge
  <2> QED
    BY <1>1, <1>8, <2>1, <2>2, <2>3 DEF WorkerEdge
<1>4. CASE CheckFlagBeforeSubmit
  <2>1. \/ SetsStatusOr("cancelled", FALSE, 0, "submit_clear", "idle")
        \/ Proceed("remote_submit")
    BY <1>4 DEF CheckFlagBeforeSubmit, SetsStatus
  <2>2. /\ WorkerEffects /\ CallsKept /\ JobKept
        /\ Writes("cancelled", "submit_clear") \/ Moves("remote_submit")
    BY <1>1, <1>4, <1>8, <2>1, SetsEdge, ProceedEdge DEF CheckFlagBeforeSubmit, Writes
  <2> QED
    BY <1>1, <1>4, <2>2 DEF CheckFlagBeforeSubmit, WorkerEdge, SubmitEdge
<1>5. CASE ClearFlag("submit_clear", "poll_enter")
  BY <1>1, <1>5, <1>8, ProceedEdge DEF ClearFlag, WorkerEdge, SubmitEdge
<1>6. CASE SubmitToProvider
  <2>1. CASE Job \in MissingAsset
    <3>1. SetsStatusOr("failed", FALSE, 0, "poll_enter", "idle") /\ provider' = provider
      BY <1>6, <2>1 DEF SubmitToProvider, SetsStatus
    <3>2. /\ WorkerEffects /\ CallsKept /\ JobKept /\ SameKnowledge
          /\ Writes("failed", "poll_enter")
      BY <1>1, <1>6, <1>8, <3>1, SetsEdge DEF SubmitToProvider, Writes, SameKnowledge
    <3> QED
      BY <1>1, <1>6, <3>2 DEF SubmitToProvider, WorkerEdge, SubmitEdge
  <2>2. CASE Job \notin MissingAsset /\ ~SubmitRaises(Job)
    <3>1. SubmitRemote(Job) /\ Proceed("record_remote")
      BY <1>6, <2>2 DEF SubmitToProvider
    <3>2. [polls |-> 0, failed |-> FALSE, cancelled |-> FALSE] # Unknown
      <4>1. [polls |-> 0, failed |-> FALSE, cancelled |-> FALSE] \in RemoteState
        BY DEF RemoteState
      <4> QED
        BY <4>1, ProviderAssumption
    <3>3. /\ provider'[Job] # Unknown
          /\ \A j \in Jobs : j # Job => provider'[j] = provider[j]
      BY <1>1, <3>1, <3>2, OrchestratorAssumption
         DEF SubmitRemote, BridgeTypeOK, ProviderTypeOK, Job
    <3>4. CallsKept /\ JobKept /\ Moves("record_remote")
      BY <1>1, <3>1, ProceedEdge
    <3>5. WorkerEffects
      BY <1>6, <3>3, <3>4 DEF SubmitToProvider, WorkerEffects, Moves
    <3> QED
      BY <1>1, <1>6, <3>3, <3>4, <3>5 DEF SubmitToProvider, WorkerEdge, SubmitEdge
  <2>3. CASE Job \notin MissingAsset /\ SubmitRaises(Job)
    <3>1. Proceed("idle") /\ provider' = provider /\ Job \in BadMetadata
      BY <1>6, <2>3 DEF SubmitToProvider, SubmitRaises
    <3>2. CallsKept /\ JobKept /\ Moves("idle")
      BY <1>1, <3>1, ProceedEdge
    <3> QED
      BY <1>1, <1>6, <1>8, <3>1, <3>2
         DEF SubmitToProvider, WorkerEdge, SubmitEdge, SameKnowledge
  <2> QED
    BY <2>1, <2>2, <2>3
<1>7. CASE RecordRemoteId
  <2>1. /\ pc[Worker] = "record_remote" /\ provider' = provider
        /\ SetsStatusOr("polling_remote", TRUE, 0, "poll_enter", "idle")
    BY <1>7 DEF RecordRemoteId
  <2>2. /\ CallsKept /\ JobKept
        /\ \/ Opens("polling_remote", TRUE, 0, "poll_enter")
           \/ Refuses("polling_remote", "idle")
    BY <1>1, <2>1, OtherEdges
  <2>3. SubmitEdge
    BY <2>1, <2>2 DEF SubmitEdge
  <2> QED
    BY <1>1, <1>8, <2>1, <2>2, <2>3 DEF WorkerEdge
<1> QED
  BY <1>2, <1>3, <1>4, <1>5, <1>6, <1>7 DEF SubmitSteps

\* Neither a cancellation nor a poll makes the provider know or forget a job.
LEMMA KnowledgeKept ==
    ASSUME BridgeTypeOK, NEW j \in Jobs,
           CancelRemote(j) \/ (provider[j] # Unknown /\ PollRemote(j))
    PROVE  SameKnowledge
<1>0. /\ j \in RemoteJobs /\ Unknown \notin RemoteState
      /\ provider \in [RemoteJobs -> RemoteState \cup {Unknown}]
  BY OrchestratorAssumption, ProviderAssumption DEF BridgeTypeOK, ProviderTypeOK
<1>1. ProviderTypeOK'
  BY <1>0, ProviderTyped DEF BridgeTypeOK
<1>2. \A i \in Jobs : i # j => provider'[i] = provider[i]
  BY <1>0, OrchestratorAssumption DEF CancelRemote, PollRemote
<1>3. CASE CancelRemote(j)
  <2>1. provider[j] # Unknown =>
            [provider[j] EXCEPT !.cancelled = TRUE] \in RemoteState
    BY <1>0 DEF RemoteState
  <2>2. provider'[j] = IF provider[j] = Unknown THEN provider[j]
                       ELSE [provider[j] EXCEPT !.cancelled = TRUE]
    BY <1>0, <1>3 DEF CancelRemote
  <2> QED
    BY <1>0, <1>2, <2>1, <2>2 DEF SameKnowledge
<1>4. CASE provider[j] # Unknown /\ PollRemote(j)
  <2>1. provider'[j] # Unknown
    <3> DEFINE v == [polls |-> provider[j].polls + 1,
                     failed |-> provider[j].failed \/ FailsNow(j),
                     cancelled |-> FALSE]
    <3>1. provider[j].polls + 1 \in Nat
      BY <1>0, <1>4 DEF RemoteState
    <3>2. (provider[j].failed \/ FailsNow(j)) \in BOOLEAN
      OBVIOUS
    <3>3. v \in RemoteState
      BY <3>1, <3>2 DEF RemoteState
    <3>4. provider' = provider \/ provider' = [provider EXCEPT ![j] = v]
      BY <1>4 DEF PollRemote
    <3> HIDE DEF v
    <3> QED
      BY <1>0, <1>4, <3>3, <3>4
  <2> QED
    BY <1>2, <1>4, <2>1 DEF SameKnowledge
<1> QED
  BY <1>3, <1>4

LEMMA PollingTakesEdge ==
    ASSUME BridgeTypeOK, PollingSteps
    PROVE  WorkerEdge
<1> USE DEF WorkerAt, At, WorkerLabels, memoryVars, rowVars, JobStatus
<1>1. queue' = queue /\ txn[Worker] = NoTxn /\ pc[Worker] # "idle"
  BY DEF PollingSteps, EnterPolling, PollTop, AskProvider, CountRetry, ProviderCancelled
<1>0. Job \in Jobs
  BY <1>1 DEF BridgeTypeOK, Job
<1>2. CASE EnterPolling
  <2>1. CASE Terminal(Job) \/ ~remote[Job]
    BY <1>1, <1>2, <2>1, ProceedEdge DEF EnterPolling, WorkerEffects, WorkerEdge, PollEdge
  <2>2. CASE ~(Terminal(Job) \/ ~remote[Job])
    <3>1. /\ CallsKept /\ JobKept /\ Moves("poll")
      BY <1>1, <1>2, <2>2, ActorFacts
         DEF EnterPolling, Goto, CallsKept, JobKept, Moves, BridgeTypeOK, Job
    <3> QED
      BY <1>1, <1>2, <2>2, <3>1 DEF EnterPolling, WorkerEffects, WorkerEdge, PollEdge
  <2> QED
    BY <2>1, <2>2
<1>3. CASE PollTop
  <2>1. \/ Proceed("ask") /\ ~(tries >= MaxAttempts)
        \/ SetsStatus("failed", "idle")
        \/ SetsStatus("cancelled", "clear")
    BY <1>3 DEF PollTop
  <2>2. SameKnowledge
    BY <1>0, <1>3, KnowledgeKept DEF PollTop, SameKnowledge
  <2>3. WorkerEffects
    BY <1>3, <2>2 DEF PollTop, WorkerEffects, SameKnowledge
  <2>4. tries \in Nat /\ MaxAttempts \in Nat
    BY OrchestratorAssumption DEF BridgeTypeOK
  <2>5. ~(tries >= MaxAttempts) => tries < MaxAttempts
    BY <2>4
  <2>6. pc[Worker] = "poll"
    BY <1>3 DEF PollTop
  <2>7. CASE Proceed("ask") /\ ~(tries >= MaxAttempts)
    BY <1>1, <2>3, <2>5, <2>6, <2>7, ProceedEdge DEF WorkerEdge, PollEdge
  <2>8. CASE SetsStatus("failed", "idle")
    <3>1. CallsKept /\ JobKept /\ Writes("failed", "idle")
      BY <1>1, <2>8, WritesEdge
    <3> QED
      BY <1>1, <2>3, <2>6, <3>1 DEF WorkerEdge, PollEdge
  <2>9. CASE SetsStatus("cancelled", "clear")
    <3>1. CallsKept /\ JobKept /\ Writes("cancelled", "clear")
      BY <1>1, <2>9, WritesEdge
    <3> QED
      BY <1>1, <2>3, <2>6, <3>1 DEF WorkerEdge, PollEdge
  <2> QED
    BY <2>1, <2>7, <2>8, <2>9
<1>4. CASE AskProvider
  <2>1. UNCHANGED <<rowVars, files, queue, cancelled, txn, callVars, boots>>
    BY <1>4 DEF AskProvider, Proceed, PollAnswer
  <2>2. SameKnowledge
    BY <1>0, <1>4, KnowledgeKept DEF AskProvider, SameKnowledge
  <2>3. WorkerEffects
    BY <1>4, <2>1, <2>2 DEF WorkerEffects, SameKnowledge, AskProvider
  <2>4. CASE provider[Job] = Unknown
    BY <1>1, <1>4, <2>3, <2>4, ProceedEdge DEF AskProvider, WorkerEdge, PollEdge
  <2>5. CASE provider[Job] # Unknown
    <3>1. \/ Proceed("poll") \/ Proceed("gone") \/ Proceed("ready")
          \/ Goto(Worker, "retry") /\ tries' = tries + 1 /\ UNCHANGED <<txn, target>>
      BY <1>4, <2>5 DEF AskProvider, PollAnswer
    <3>2. CASE Goto(Worker, "retry") /\ tries' = tries + 1 /\ UNCHANGED <<txn, target>>
      <4>1. CallsKept /\ JobKept /\ Moves("retry")
        BY <1>1, <3>2, ActorFacts DEF Goto, CallsKept, JobKept, Moves, BridgeTypeOK, Job
      <4> QED
        BY <1>1, <1>4, <2>3, <2>5, <3>2, <4>1 DEF AskProvider, WorkerEdge, PollEdge
    <3> QED
      BY <1>1, <1>4, <2>3, <2>5, <3>1, <3>2, ProceedEdge DEF AskProvider, WorkerEdge, PollEdge
  <2> QED
    BY <2>4, <2>5
<1>5. CASE CountRetry
  <2>0. SetsStatusOr("polling_remote", FALSE, 1, "poll", "idle")
    BY <1>5 DEF CountRetry
  <2>1. /\ CallsKept /\ JobKept
        /\ Opens("polling_remote", FALSE, 1, "poll") \/ Refuses("polling_remote", "idle")
        /\ pc'[Worker] # "idle" => tries' = tries
    BY <1>1, <2>0, OtherEdges
  <2>2. Opens("polling_remote", FALSE, 1, "poll") => tries' = tries
    BY <2>1 DEF Opens
  <2>3. WorkerEffects
    BY <1>5 DEF CountRetry, WorkerEffects
  <2> QED
    BY <1>1, <1>5, <2>1, <2>2, <2>3 DEF CountRetry, WorkerEdge, PollEdge
<1>6. CASE ProviderCancelled
  <2>1. CallsKept /\ JobKept /\ Writes("cancelled", "idle")
    <3>1. SetsStatus("cancelled", "idle")
      BY <1>6 DEF ProviderCancelled
    <3> QED
      BY <1>1, <3>1, WritesEdge
  <2>2. WorkerEffects
    BY <1>6 DEF ProviderCancelled, WorkerEffects
  <2> QED
    BY <1>1, <1>6, <2>1, <2>2 DEF ProviderCancelled, WorkerEdge, PollEdge
<1> QED
  BY <1>2, <1>3, <1>4, <1>5, <1>6 DEF PollingSteps

LEMMA DownloadTakesEdge ==
    ASSUME BridgeTypeOK, DownloadSteps
    PROVE  WorkerEdge
<1> USE DEF WorkerAt, At, WorkerLabels, memoryVars, rowVars, JobStatus
<1>1. WorkerEffects /\ queue' = queue /\ txn[Worker] = NoTxn /\ pc[Worker] # "idle"
  BY DEF DownloadSteps, BeginDownload, RecordOutput, WriteOutput, AttachOutput,
         CompleteJob, RecordAsset, WriteFile, AttachArtifacts, WorkerEffects
<1>2. CASE BeginDownload \/ CompleteJob
  <2>1. BeginDownload => CallsKept /\ JobKept /\ Writes("downloading", "download")
    <3>1. BeginDownload => SetsStatus("downloading", "download")
      BY DEF BeginDownload
    <3> QED
      BY <1>1, <3>1, WritesEdge
  <2>2. CompleteJob => CallsKept /\ JobKept /\ Writes("complete", "idle")
    <3>1. CompleteJob => SetsStatus("complete", "idle")
      BY DEF CompleteJob
    <3> QED
      BY <1>1, <3>1, WritesEdge
  <2>3. \/ BeginDownload /\ pc[Worker] = "ready"
        \/ CompleteJob /\ pc[Worker] = "complete"
    BY <1>2 DEF BeginDownload, CompleteJob
  <2> QED
    BY <1>1, <2>1, <2>2, <2>3 DEF WorkerEdge, DownloadEdge
<1>3. CASE RecordOutput
  <2>1. \/ IsRecorded(Job, MockOutput) /\ Proceed("attach")
        \/ ~IsRecorded(Job, MockOutput) /\ Proceed("write_file")
    BY <1>3 DEF RecordOutput
  <2> QED
    BY <1>1, <1>3, <2>1, ProceedEdge DEF RecordOutput, WorkerEdge, DownloadEdge
<1>4. CASE WriteOutput \/ AttachOutput
  BY <1>1, <1>4, ProceedEdge DEF WriteOutput, AttachOutput, WorkerEdge, DownloadEdge
<1> QED
  BY <1>2, <1>3, <1>4 DEF DownloadSteps

LEMMA WorkerTakesEdge ==
    ASSUME BridgeTypeOK, WorkerStep
    PROVE  WorkerEdge
<1>1. CASE Dequeue
  <2>1. CallsKept /\ TakesJob /\ txn[Worker] = NoTxn
    BY <1>1, ActorFacts
       DEF Dequeue, WorkerAt, At, Goto, CallsKept, TakesJob, Moves, BridgeTypeOK,
           storageVars
  <2>2. WorkerEffects
    BY <1>1 DEF Dequeue, WorkerAt, At, WorkerEffects, storageVars, rowVars
  <2> QED
    BY <2>1, <2>2 DEF WorkerEdge
<1> QED
  BY <1>1, DeliveryTakesEdge, ManualTakesEdge, SubmitTakesEdge, PollingTakesEdge,
     DownloadTakesEdge DEF WorkerStep, SubmitSteps

-----------------------------------------------------------------------------
(* The edges of the calls *)

CallMoves(c, l) == pc'[c] = l /\ txn'[c] = txn[c]

CallOpens(c, to, l) ==
    /\ Accepts(target'[c], to)
    /\ pc'[c] = l
    /\ txn'[c] # NoTxn
    /\ txn'[c].job = target'[c] /\ txn'[c].from = status[target'[c]]
    /\ txn'[c].to = to /\ txn'[c].remote = FALSE /\ txn'[c].retry = 0

CallRefuses(c, to) == ~Accepts(target'[c], to) /\ CallMoves(c, "done")

\* What holds of every step of a call: it moves nobody else, it starts when the
\* event loop is free, it keeps its job.
CallEffects(c) ==
    /\ ~Ended(c)
    /\ \A p \in Actors \ {c} :
          pc'[p] = pc[p] /\ target'[p] = target[p] /\ txn'[p] = txn[p]
    /\ pc[c] = "not_started" => LoopFree(c)
    /\ pc[c] # "not_started" => target'[c] = target[c]
    /\ target'[c] \in Jobs
    /\ UNCHANGED <<remote, attempts, handoff, tries, boots>>
    /\ SameKnowledge

CreateEdge(j) ==
    /\ CallEffects(j)
    /\ target'[j] = j
    /\ UNCHANGED <<recorded, outputs, files, sawRemote, imported>>
    /\ \/ /\ pc[j] = "not_started" /\ ~Exists(j)
          /\ status' = [status EXCEPT ![j] = "created"] /\ queue' = queue
          /\ CallMoves(j, "enqueue_read")
       \/ /\ At(j, "enqueue_put")
          /\ status' = status /\ queue' = Append(queue, j)
          /\ CallMoves(j, "return")
       \/ /\ status' = status /\ queue' = queue
          /\ \/ pc[j] = "not_started" /\ CallMoves(j, "done")
             \/ /\ pc[j] = "enqueue_read" /\ Terminal(j)
                /\ CallMoves(j, "return")
             \/ /\ pc[j] = "enqueue_read" /\ status[j] = "created"
                /\ CallMoves(j, "enqueue_mark")
             \/ /\ pc[j] = "enqueue_read" /\ status[j] # "created" /\ ~Terminal(j)
                /\ CallMoves(j, "enqueue_put")
             \/ /\ pc[j] = "enqueue_mark"
                /\ \/ CallOpens(j, "queued_local", "enqueue_put")
                   \/ CallRefuses(j, "queued_local")

CancelEdge(c) ==
    /\ CallEffects(c)
    /\ UNCHANGED <<status, recorded, outputs, files, queue, imported>>
    /\ \A d \in Cancels \ {c} : sawRemote'[d] = sawRemote[d]
    /\ \/ /\ pc[c] = "not_started"
          /\ sawRemote'[c] = remote[target'[c]]
          /\ CallMoves(c, "done") \/ CallMoves(c, "cancel_request")
       \/ /\ sawRemote'[c] = sawRemote[c]
          /\ \/ /\ pc[c] = "cancel_request"
                /\ CallMoves(c, "cancel_provider") \/ CallMoves(c, "cancel_mark")
             \/ pc[c] = "cancel_provider" /\ CallMoves(c, "cancel_mark")
             \/ /\ pc[c] = "cancel_mark" /\ sawRemote[c]
                /\ CallOpens(c, "cancelling", "return") \/ CallRefuses(c, "cancelling")
             \/ /\ pc[c] = "cancel_mark" /\ ~sawRemote[c]
                /\ CallOpens(c, "cancelled", "return") \/ CallRefuses(c, "cancelled")

\* The upload is stored: one more of them, and the manifest after the last.
Stores(c) ==
    /\ imported'[c] = imported[c] + 1
    /\ \/ imported[c] + 1 = Len(Uploads[c]) /\ CallMoves(c, "import_attach")
       \/ imported[c] + 1 < Len(Uploads[c]) /\ CallMoves(c, "import_upload")

ImportEdge(c) ==
    /\ CallEffects(c)
    /\ UNCHANGED <<status, queue, sawRemote>>
    /\ \A d \in Imports \ {c} : imported'[d] = imported[d]
    /\ IF pc[c] = "import_upload"
       THEN recorded' = recorded \cup {<<target[c], Content[NextUpload(c)]>>}
       ELSE recorded' = recorded
    /\ IF pc[c] = "import_write" THEN files' = files \cup {<<target[c], NextUpload(c)>>}
                                 ELSE files' = files
    /\ IF pc[c] = "import_attach"
       THEN outputs' = [outputs EXCEPT ![target[c]] = Uploaded(c)]
       ELSE outputs' = outputs
    /\ \/ /\ pc[c] = "not_started" /\ imported'[c] = imported[c]
          /\ target'[c] \in Manual
          /\ \/ CallOpens(c, "importing_provider_result", "import_upload")
             \/ CallRefuses(c, "importing_provider_result")
       \/ /\ At(c, "import_upload") /\ LoopFree(c)
          /\ IsRecorded(target[c], NextUpload(c)) /\ Stores(c)
       \/ /\ At(c, "import_upload") /\ LoopFree(c)
          /\ imported'[c] = imported[c] /\ CallMoves(c, "import_write")
       \/ pc[c] = "import_write" /\ Stores(c)
       \/ /\ pc[c] = "import_attach"
          /\ imported'[c] = imported[c] /\ CallMoves(c, "import_complete")
       \/ /\ pc[c] = "import_complete" /\ imported'[c] = imported[c]
          /\ CallOpens(c, "complete", "return") \/ CallRefuses(c, "complete")

ReturnEdge(c) ==
    /\ CallEffects(c)
    /\ At(c, "return") /\ CallMoves(c, "done")
    /\ UNCHANGED <<status, recorded, outputs, files, queue, sawRemote, imported>>

\* set_job_status by a call, seen as part of an edge.
LEMMA CallSetsEdge ==
    ASSUME BridgeTypeOK, NEW c \in Calls, Running(c), target' = target,
           NEW to \in JobStatus, NEW l \in CallLabels, CallSetsStatus(c, to, l)
    PROVE  /\ \A p \in Actors \ {c} : pc'[p] = pc[p] /\ txn'[p] = txn[p]
           /\ CallOpens(c, to, l) \/ CallRefuses(c, to)
<1>1. target[c] \in Jobs
  BY DEF BridgeTypeOK
<1>2. CASE Accepts(target[c], to)
  <2>1. status[target[c]] \in JobStatus
    BY <1>1, <1>2 DEF BridgeTypeOK, StorageTypeOK, Accepts, ValidTransition,
                     AllowedTransitions, JobStatus
  <2> DEFINE u == [job |-> target[c], from |-> status[target[c]], to |-> to,
                   remote |-> FALSE, retry |-> 0]
  <2>2. u \in StatusUpdate
    BY <1>1, <2>1 DEF StatusUpdate
  <2>3. txn' = [txn EXCEPT ![c] = u] /\ Goto(c, l)
    BY <1>2 DEF CallSetsStatus, OpenUpdate, Continue
  <2>4. /\ u.job = target[c] /\ u.from = status[target[c]] /\ u.to = to
        /\ u.remote = FALSE /\ u.retry = 0
    OBVIOUS
  <2> HIDE DEF u
  <2>5. txn'[c] = u /\ \A p \in Actors \ {c} : txn'[p] = txn[p]
    BY <2>3, ActorFacts DEF BridgeTypeOK, StorageTypeOK
  <2>6. pc'[c] = l /\ \A p \in Actors \ {c} : pc'[p] = pc[p]
    BY <2>3, ActorFacts DEF Goto, BridgeTypeOK
  <2> QED
    BY <1>2, <2>2, <2>4, <2>5, <2>6, NoTxnAssumption DEF CallOpens
<1>3. CASE ~Accepts(target[c], to)
  BY <1>3, ActorFacts
     DEF CallSetsStatus, Answer, Goto, BridgeTypeOK, CallRefuses, CallMoves
<1> QED
  BY <1>2, <1>3

LEMMA CreateTakesEdge ==
    ASSUME BridgeTypeOK, IntakeInv, NEW j \in Jobs, Create(j)
    PROVE  CreateEdge(j)
<1> USE DEF CallLabels, Running, Ended, storageVars, rowVars, memoryVars
<1>1. j \in Calls /\ j \in Actors
  BY ActorFacts
<1>2. CASE InsertOrFind(j)
  <2>1. /\ target'[j] = j
        /\ \A p \in Actors \ {j} : target'[p] = target[p]
        /\ txn' = txn
    BY <1>1, <1>2, ActorFacts DEF InsertOrFind, BridgeTypeOK
  <2>2. (Clashing(j) = {} /\ Goto(j, "enqueue_read")) \/ Goto(j, "done")
    BY <1>2 DEF InsertOrFind, Continue, Answer
  <2>3. \A p \in Actors \ {j} : pc'[p] = pc[p]
    BY <2>2, <1>1 DEF Goto, BridgeTypeOK
  <2>4. CallEffects(j)
    BY <1>2, <2>1, <2>3 DEF InsertOrFind, Starts, CallEffects, SameKnowledge
  <2>5. CASE Clashing(j) = {}
    <3>1. ~Exists(j)
      BY <2>5 DEF Clashing
    <3>2. CallMoves(j, "enqueue_read") /\ status' = [status EXCEPT ![j] = "created"]
      BY <1>1, <1>2, <2>1, <2>5
         DEF InsertOrFind, InsertJob, Continue, Goto, CallMoves, BridgeTypeOK
    <3> QED
      BY <1>2, <2>1, <2>4, <3>1, <3>2 DEF InsertOrFind, Starts, CreateEdge
  <2>6. CASE Clashing(j) # {}
    <3>1. CallMoves(j, "done") /\ status' = status
      BY <1>1, <1>2, <2>1, <2>6
         DEF InsertOrFind, Answer, Goto, CallMoves, BridgeTypeOK
    <3> QED
      BY <1>2, <2>1, <2>4, <3>1 DEF InsertOrFind, Starts, CreateEdge
  <2> QED
    BY <2>5, <2>6
<1>3. CASE EnqueueRead(j)
  <2>1. \/ Terminal(j) /\ Goto(j, "return")
        \/ status[j] = "created" /\ Goto(j, "enqueue_mark")
        \/ status[j] # "created" /\ ~Terminal(j) /\ Goto(j, "enqueue_put")
    BY <1>3 DEF EnqueueRead, Continue
  <2>2. \A p \in Actors \ {j} : pc'[p] = pc[p]
    BY <1>1, <2>1 DEF Goto, BridgeTypeOK
  <2>3. target'[j] = j /\ CallEffects(j)
    BY <1>1, <1>3, <2>2 DEF EnqueueRead, CallEffects, SameKnowledge, IntakeInv
  <2> QED
    BY <1>1, <1>3, <2>1, <2>3
       DEF EnqueueRead, Goto, CallMoves, CreateEdge, BridgeTypeOK
<1>4. CASE EnqueueMark(j)
  <2>1. /\ \A p \in Actors \ {j} : pc'[p] = pc[p] /\ txn'[p] = txn[p]
        /\ CallOpens(j, "queued_local", "enqueue_put") \/ CallRefuses(j, "queued_local")
    BY <1>1, <1>4, CallSetsEdge DEF EnqueueMark, JobStatus
  <2>2. target'[j] = j /\ CallEffects(j)
    BY <1>1, <1>4, <2>1 DEF EnqueueMark, CallEffects, SameKnowledge, IntakeInv
  <2> QED
    BY <1>4, <2>1, <2>2 DEF EnqueueMark, CreateEdge
<1>5. CASE EnqueuePut(j)
  <2>1. \A p \in Actors \ {j} : pc'[p] = pc[p]
    BY <1>1, <1>5 DEF EnqueuePut, Continue, Goto, BridgeTypeOK
  <2>2. target'[j] = j /\ CallEffects(j)
    BY <1>1, <1>5, <2>1 DEF EnqueuePut, At, CallEffects, SameKnowledge, IntakeInv
  <2> QED
    BY <1>1, <1>5, <2>2
       DEF EnqueuePut, Continue, Goto, CallMoves, CreateEdge, BridgeTypeOK
<1> QED
  BY <1>2, <1>3, <1>4, <1>5 DEF Create

LEMMA CancelTakesEdge ==
    ASSUME BridgeTypeOK, NEW c \in Cancels,
           (\E j \in Jobs : CancelRead(c, j)) \/ Cancel(c)
    PROVE  CancelEdge(c)
<1> USE DEF CallLabels, Running, Ended, storageVars, rowVars, memoryVars
<1>1. c \in Calls /\ c \in Actors
  BY ActorFacts
<1>2. ASSUME NEW j \in Jobs, CancelRead(c, j)
      PROVE  CancelEdge(c)
  <2>1. /\ target'[c] = j
        /\ \A p \in Actors \ {c} : target'[p] = target[p]
    BY <1>1, <1>2 DEF CancelRead, BridgeTypeOK
  <2>2. Goto(c, "done") \/ Goto(c, "cancel_request")
    BY <1>2 DEF CancelRead, Answer, Continue
  <2>3. \A p \in Actors \ {c} : pc'[p] = pc[p]
    BY <1>1, <2>2 DEF Goto, BridgeTypeOK
  <2>4. CallMoves(c, "done") \/ CallMoves(c, "cancel_request")
    BY <1>1, <1>2, <2>2 DEF CancelRead, Goto, CallMoves, BridgeTypeOK
  <2>5. /\ sawRemote'[c] = remote[j]
        /\ \A d \in Cancels \ {c} : sawRemote'[d] = sawRemote[d]
    BY <1>2 DEF CancelRead, BridgeTypeOK
  <2>6. CallEffects(c)
    BY <1>2, <2>1, <2>3 DEF CancelRead, Starts, CallEffects, SameKnowledge
  <2> QED
    BY <1>2, <2>1, <2>4, <2>5, <2>6 DEF CancelRead, Starts, CancelEdge
<1>3. CASE CancelRequest(c) \/ CancelAtProvider(c)
  <2>1. \/ pc[c] = "cancel_request" /\ Goto(c, "cancel_provider")
        \/ pc[c] = "cancel_request" /\ Goto(c, "cancel_mark")
        \/ pc[c] = "cancel_provider" /\ Goto(c, "cancel_mark")
    BY <1>3 DEF CancelRequest, CancelAtProvider, Continue
  <2>2. UNCHANGED <<status, remote, attempts, handoff, outputs, recorded, txn, files,
                    queue, target, tries, sawRemote, imported, boots>>
    BY <1>3 DEF CancelRequest, CancelAtProvider
  <2>3. target[c] \in Jobs
    BY <1>1, <2>1 DEF BridgeTypeOK
  <2>4. SameKnowledge
    BY <1>3, <2>3, KnowledgeKept DEF CancelRequest, CancelAtProvider, SameKnowledge
  <2>5. \A p \in Actors \ {c} : pc'[p] = pc[p]
    BY <1>1, <2>1 DEF Goto, BridgeTypeOK
  <2>6. CallEffects(c)
    BY <2>1, <2>2, <2>3, <2>4, <2>5 DEF CallEffects
  <2> QED
    BY <1>1, <2>1, <2>2, <2>6 DEF Goto, CallMoves, CancelEdge, BridgeTypeOK
<1>4. CASE CancelMark(c)
  <2>1. \/ sawRemote[c] /\ CallSetsStatus(c, "cancelling", "return")
        \/ ~sawRemote[c] /\ CallSetsStatus(c, "cancelled", "return")
    BY <1>4 DEF CancelMark
  <2>2. target[c] \in Jobs
    BY <1>1, <1>4 DEF CancelMark, BridgeTypeOK
  <2>3. /\ \A p \in Actors \ {c} : pc'[p] = pc[p] /\ txn'[p] = txn[p]
        /\ \/ /\ sawRemote[c]
              /\ CallOpens(c, "cancelling", "return") \/ CallRefuses(c, "cancelling")
           \/ /\ ~sawRemote[c]
              /\ CallOpens(c, "cancelled", "return") \/ CallRefuses(c, "cancelled")
    BY <1>1, <1>4, <2>1, CallSetsEdge DEF CancelMark, JobStatus
  <2>4. CallEffects(c)
    BY <1>4, <2>2, <2>3 DEF CancelMark, CallEffects, SameKnowledge
  <2> QED
    BY <1>4, <2>3, <2>4 DEF CancelMark, CancelEdge
<1> QED
  BY <1>2, <1>3, <1>4 DEF Cancel

LEMMA StoredEdge ==
    ASSUME BridgeTypeOK, NEW c \in Imports,
           pc[c] \in {"import_upload", "import_write"}, Stored(c), txn' = txn
    PROVE  /\ Stores(c)
           /\ \A d \in Imports \ {c} : imported'[d] = imported[d]
           /\ \A p \in Actors \ {c} : pc'[p] = pc[p]
<1>1. /\ imported[c] \in Nat /\ Len(Uploads[c]) \in Nat
      /\ imported[c] < Len(Uploads[c])
  BY NextUploadTyped
<1>2. /\ imported' = [imported EXCEPT ![c] = @ + 1]
      /\ pc' = [pc EXCEPT ![c] = IF imported[c] + 1 = Len(Uploads[c])
                                 THEN "import_attach" ELSE "import_upload"]
  BY DEF Stored, Continue, Goto
<1>3. imported[c] + 1 = Len(Uploads[c]) \/ imported[c] + 1 < Len(Uploads[c])
  BY <1>1
<1>4. imported[c] + 1 < Len(Uploads[c]) => imported[c] + 1 # Len(Uploads[c])
  BY <1>1
<1>5. /\ imported'[c] = imported[c] + 1
      /\ \A d \in Imports \ {c} : imported'[d] = imported[d]
  BY <1>2 DEF BridgeTypeOK
<1> QED
  BY <1>2, <1>3, <1>4, <1>5, ActorFacts DEF Stores, CallMoves, BridgeTypeOK

LEMMA ImportTakesEdge ==
    ASSUME BridgeTypeOK, NEW c \in Imports,
           (\E j \in Jobs : ImportStart(c, j)) \/ Import(c)
    PROVE  ImportEdge(c)
<1> USE DEF CallLabels, Running, Ended, rowVars, memoryVars
<1>1. c \in Calls /\ c \in Actors
  BY ActorFacts
<1>2. ASSUME NEW j \in Jobs, ImportStart(c, j)
      PROVE  ImportEdge(c)
  <2>1. /\ target'[c] = j /\ j \in Manual
        /\ \A p \in Actors \ {c} : target'[p] = target[p]
    BY <1>1, <1>2 DEF ImportStart, BridgeTypeOK
  <2>2. /\ \A p \in Actors \ {c} : pc'[p] = pc[p] /\ txn'[p] = txn[p]
        /\ \/ CallOpens(c, "importing_provider_result", "import_upload")
           \/ CallRefuses(c, "importing_provider_result")
    <3>1. CASE Accepts(j, "importing_provider_result")
      <4>1. status[j] \in JobStatus
        BY <3>1 DEF BridgeTypeOK, StorageTypeOK, Accepts, ValidTransition,
                    AllowedTransitions, JobStatus
      <4> DEFINE u == [job |-> j, from |-> status[j],
                       to |-> "importing_provider_result", remote |-> FALSE, retry |-> 0]
      <4>2. u \in StatusUpdate
        BY <4>1 DEF StatusUpdate, JobStatus
      <4>3. txn' = [txn EXCEPT ![c] = u] /\ Goto(c, "import_upload")
        BY <1>2, <3>1 DEF ImportStart, OpenUpdate, Continue
      <4>4. /\ u.job = j /\ u.from = status[j] /\ u.remote = FALSE /\ u.retry = 0
            /\ u.to = "importing_provider_result"
        OBVIOUS
      <4> HIDE DEF u
      <4>5. txn'[c] = u /\ \A p \in Actors \ {c} : txn'[p] = txn[p]
        BY <1>1, <4>3 DEF BridgeTypeOK, StorageTypeOK
      <4>6. pc'[c] = "import_upload" /\ \A p \in Actors \ {c} : pc'[p] = pc[p]
        BY <1>1, <4>3 DEF Goto, BridgeTypeOK
      <4> QED
        BY <2>1, <3>1, <4>2, <4>4, <4>5, <4>6, NoTxnAssumption DEF CallOpens
    <3>2. CASE ~Accepts(j, "importing_provider_result")
      BY <1>1, <1>2, <2>1, <3>2
         DEF ImportStart, Answer, Goto, BridgeTypeOK, CallRefuses, CallMoves
    <3> QED
      BY <3>1, <3>2
  <2>3. CallEffects(c)
    BY <1>2, <2>1, <2>2 DEF ImportStart, Starts, CallEffects, SameKnowledge
  <2> QED
    BY <1>2, <2>1, <2>2, <2>3 DEF ImportStart, Starts, ImportEdge
<1>3. CASE ImportRecord(c)
  <2>1. target[c] \in Jobs
    BY <1>1, <1>3 DEF ImportRecord, At, BridgeTypeOK
  <2>2. /\ \A p \in Actors \ {c} : pc'[p] = pc[p]
        /\ \A d \in Imports \ {c} : imported'[d] = imported[d]
        /\ \/ IsRecorded(target[c], NextUpload(c)) /\ Stores(c)
           \/ imported'[c] = imported[c] /\ CallMoves(c, "import_write")
    BY <1>1, <1>3, StoredEdge
       DEF ImportRecord, At, Continue, Goto, CallMoves, BridgeTypeOK
  <2>3. CallEffects(c)
    BY <1>3, <2>1, <2>2 DEF ImportRecord, At, CallEffects, SameKnowledge
  <2> QED
    BY <1>3, <2>2, <2>3 DEF ImportRecord, At, RecordAsset, ImportEdge
<1>4. CASE ImportWrite(c)
  <2>1. target[c] \in Jobs
    BY <1>1, <1>4 DEF ImportWrite, BridgeTypeOK
  <2>2. /\ \A p \in Actors \ {c} : pc'[p] = pc[p]
        /\ \A d \in Imports \ {c} : imported'[d] = imported[d]
        /\ Stores(c)
    BY <1>4, StoredEdge DEF ImportWrite
  <2>3. CallEffects(c)
    BY <1>4, <2>1, <2>2 DEF ImportWrite, CallEffects, SameKnowledge
  <2> QED
    BY <1>4, <2>2, <2>3 DEF ImportWrite, WriteFile, ImportEdge
<1>5. CASE ImportAttach(c)
  <2>1. target[c] \in Jobs
    BY <1>1, <1>5 DEF ImportAttach, BridgeTypeOK
  <2>2. CallMoves(c, "import_complete") /\ \A p \in Actors \ {c} : pc'[p] = pc[p]
    BY <1>1, <1>5 DEF ImportAttach, Continue, Goto, CallMoves, BridgeTypeOK
  <2>3. CallEffects(c)
    BY <1>5, <2>1, <2>2 DEF ImportAttach, CallEffects, SameKnowledge
  <2> QED
    BY <1>5, <2>2, <2>3 DEF ImportAttach, AttachArtifacts, ImportEdge
<1>6. CASE ImportComplete(c)
  <2>1. target[c] \in Jobs
    BY <1>1, <1>6 DEF ImportComplete, BridgeTypeOK
  <2>2. /\ \A p \in Actors \ {c} : pc'[p] = pc[p] /\ txn'[p] = txn[p]
        /\ CallOpens(c, "complete", "return") \/ CallRefuses(c, "complete")
    BY <1>1, <1>6, CallSetsEdge DEF ImportComplete, JobStatus
  <2>3. CallEffects(c)
    BY <1>6, <2>1, <2>2 DEF ImportComplete, CallEffects, SameKnowledge
  <2> QED
    BY <1>6, <2>2, <2>3 DEF ImportComplete, ImportEdge
<1> QED
  BY <1>2, <1>3, <1>4, <1>5, <1>6 DEF Import

LEMMA ReturnTakesEdge ==
    ASSUME BridgeTypeOK, NEW c \in Calls, Return(c)
    PROVE  ReturnEdge(c)
<1>1. c \in Actors /\ target[c] \in Jobs
  BY ActorFacts DEF Return, At, BridgeTypeOK, Running
<1>2. CallMoves(c, "done") /\ \A p \in Actors \ {c} : pc'[p] = pc[p]
  BY <1>1 DEF Return, Answer, Goto, CallMoves, BridgeTypeOK, storageVars
<1>3. CallEffects(c)
  BY <1>1, <1>2 DEF Return, At, CallEffects, SameKnowledge, Ended, storageVars, rowVars,
                    memoryVars
<1> QED
  BY <1>2, <1>3 DEF Return, ReturnEdge, storageVars, rowVars, memoryVars

-----------------------------------------------------------------------------
(* The UPDATEs and the restart *)

CommitEdge(p) ==
    /\ txn[p] # NoTxn /\ txn'[p] = NoTxn
    /\ \A q \in Actors \ {p} : txn'[q] = txn[q]
    /\ status'[txn[p].job] = txn[p].to
    /\ remote'[txn[p].job] = (remote[txn[p].job] \/ txn[p].remote)
    /\ attempts'[txn[p].job] = attempts[txn[p].job] + txn[p].retry
    /\ \A j \in Jobs : j # txn[p].job =>
          /\ status'[j] = status[j] /\ remote'[j] = remote[j]
          /\ attempts'[j] = attempts[j]
    /\ UNCHANGED <<handoff, outputs, recorded, files, queue, provider, pc, target,
                   tries, sawRemote, imported, boots>>

RestartEdge ==
    /\ UNCHANGED <<status, remote, attempts, handoff, outputs, recorded, files,
                   sawRemote, imported>>
    /\ \A p \in Actors : txn'[p] = NoTxn
    /\ \A j \in Jobs : provider'[j] = Unknown
    /\ pc'[Worker] = "idle" /\ target'[Worker] = NoJob
    /\ \A c \in Calls : /\ target'[c] = target[c]
                        /\ pc'[c] = IF Running(c) THEN "done" ELSE pc[c]
    /\ \A k \in DOMAIN queue' : queue'[k] \in MockJobs
    /\ \A k, l \in DOMAIN queue' : queue'[k] = queue'[l] => k = l
    /\ boots' # 0

LEMMA CommitTakesEdge ==
    ASSUME BridgeTypeOK, NEW p \in Actors, Commit(p)
    PROVE  CommitEdge(p)
<1>1. txn[p] # NoTxn /\ txn[p].job \in Jobs
  BY DEF Commit, CommitUpdate, BridgeTypeOK, StorageTypeOK, StatusUpdate
<1>2. /\ txn'[p] = NoTxn /\ \A q \in Actors \ {p} : txn'[q] = txn[q]
  BY DEF Commit, CommitUpdate, BridgeTypeOK, StorageTypeOK
<1>3. /\ status'[txn[p].job] = txn[p].to
      /\ \A j \in Jobs : j # txn[p].job => status'[j] = status[j]
  BY <1>1 DEF Commit, CommitUpdate, BridgeTypeOK, StorageTypeOK
<1>4. /\ remote'[txn[p].job] = (remote[txn[p].job] \/ txn[p].remote)
      /\ \A j \in Jobs : j # txn[p].job => remote'[j] = remote[j]
  BY <1>1 DEF Commit, CommitUpdate, BridgeTypeOK, StorageTypeOK
<1>5. /\ attempts'[txn[p].job] = attempts[txn[p].job] + txn[p].retry
      /\ \A j \in Jobs : j # txn[p].job => attempts'[j] = attempts[j]
  BY <1>1 DEF Commit, CommitUpdate, BridgeTypeOK, StorageTypeOK
<1> QED
  BY <1>1, <1>2, <1>3, <1>4, <1>5
     DEF Commit, CommitUpdate, CommitEdge, memoryVars, controlVars, callVars

\* A queue that has one place for each recovered job holds none of them twice.
LEMMA RecoveredOnce ==
    ASSUME NEW q \in QueuesAfterRestart
    PROVE  /\ \A k \in DOMAIN q : q[k] \in MockJobs
           /\ \A k, l \in DOMAIN q : q[k] = q[l] => k = l
<1> DEFINE n == Cardinality(Recovered)
<1>1. IsFiniteSet(Recovered)
  BY BridgeAssumption, FS_Subset DEF Recovered, InFlightJobs
<1>2. n \in Nat
  BY <1>1, FS_CardinalityType
<1>3. IsFiniteSet(1 .. n) /\ Cardinality(1 .. n) = Cardinality(Recovered)
  BY <1>2, FS_Interval
<1>4. q \in Surjection(1 .. n, Recovered)
  BY DEF QueuesAfterRestart, QueuesOf, Surjection
<1>5. q \in Injection(1 .. n, Recovered)
  BY <1>3, <1>4, FS_SurjSameCardinalityImpliesInj
<1>6. /\ q \in [1 .. n -> Recovered]
      /\ \A k, l \in DOMAIN q : q[k] = q[l] => k = l
  BY <1>5 DEF Injection, IsInjective
<1> QED
  BY <1>6 DEF Recovered

LEMMA RestartTakesEdge ==
    ASSUME BridgeTypeOK, Restart
    PROVE  RestartEdge
<1>1. /\ \A k \in DOMAIN queue' : queue'[k] \in MockJobs
      /\ \A k, l \in DOMAIN queue' : queue'[k] = queue'[l] => k = l
  <2>1. PICK q \in QueuesAfterRestart : queue' = q
    BY DEF Restart
  <2> QED
    BY <2>1, RecoveredOnce
<1>2. /\ \A p \in Actors : txn'[p] = NoTxn
      /\ pc'[Worker] = "idle" /\ target'[Worker] = NoJob
      /\ \A c \in Calls : /\ target'[c] = target[c]
                          /\ pc'[c] = IF Running(c) THEN "done" ELSE pc[c]
  BY ActorFacts DEF Restart, BridgeTypeOK
<1>3. \A j \in Jobs : provider'[j] = Unknown
  BY OrchestratorAssumption DEF Restart, ProviderAfterRestart, NothingSubmitted
<1>4. boots' # 0
  BY DEF Restart, BridgeTypeOK
<1> QED
  BY <1>1, <1>2, <1>3, <1>4 DEF Restart, RestartEdge, rowVars

\* Every step of the bridge takes an edge.
LEMMA NextTakesEdge ==
    ASSUME BridgeTypeOK, IntakeInv, [Next]_vars
    PROVE  \/ WorkerEdge
           \/ \E p \in Actors : CommitEdge(p)
           \/ \E j \in Jobs : CreateEdge(j)
           \/ \E c \in Cancels : CancelEdge(c)
           \/ \E c \in Imports : ImportEdge(c)
           \/ \E c \in Calls : ReturnEdge(c)
           \/ RestartEdge
           \/ UNCHANGED vars
<1>1. CASE \/ \E c \in Cancels, j \in Jobs : CancelRead(c, j)
           \/ \E c \in Cancels : Cancel(c)
  BY <1>1, CancelTakesEdge
<1>2. CASE \/ \E c \in Imports, j \in Jobs : ImportStart(c, j)
           \/ \E c \in Imports : Import(c)
  BY <1>2, ImportTakesEdge
<1> QED
  BY <1>1, <1>2, WorkerTakesEdge, CommitTakesEdge, CreateTakesEdge, ReturnTakesEdge,
     RestartTakesEdge DEF Next

-----------------------------------------------------------------------------
(* What a set_job_status under way can be, by where its caller waits *)

\* The UPDATEs of the worker, with the label at which it waits for each.
UpdatesAt ==
    {<<"clear", "cancelled">>, <<"handoff", "awaiting_manual_provider_submission">>,
     <<"idle", "failed">>, <<"idle", "cancelled">>, <<"idle", "complete">>,
     <<"idle", "awaiting_manual_provider_result">>,
     <<"poll_enter", "cancelled">>, <<"poll_enter", "failed">>,
     <<"poll_enter", "polling_remote">>, <<"submit_flag", "submitting_remote">>,
     <<"submit_clear", "cancelled">>, <<"poll", "polling_remote">>,
     <<"download", "downloading">>}
\* Those that write a remote id.
RemoteUpdatesAt ==
    {<<"idle", "awaiting_manual_provider_result">>, <<"poll_enter", "polling_remote">>}

WorkerUpdate ==
    txn[Worker] # NoTxn =>
        /\ ValidTransition(txn[Worker].from, txn[Worker].to)
        /\ <<pc[Worker], txn[Worker].to>> \in UpdatesAt
        /\ pc[Worker] # "idle" => txn[Worker].job = Job
        /\ txn[Worker].retry = 1 <=> pc[Worker] = "poll"
        /\ txn[Worker].remote <=> <<pc[Worker], txn[Worker].to>> \in RemoteUpdatesAt

CallUpdate(c) ==
    txn[c] # NoTxn =>
        /\ ValidTransition(txn[c].from, txn[c].to)
        /\ txn[c].job = target[c] /\ ~txn[c].remote /\ txn[c].retry = 0
        /\ c \in Jobs => pc[c] = "enqueue_put" /\ txn[c].to = "queued_local"
        /\ c \in Cancels =>
              /\ pc[c] = "return"
              /\ txn[c].to = IF sawRemote[c] THEN "cancelling" ELSE "cancelled"
        /\ c \in Imports =>
              \/ pc[c] = "import_upload" /\ txn[c].to = "importing_provider_result"
              \/ pc[c] = "return" /\ txn[c].to = "complete"

CallInPlace(c) ==
    /\ c \in Jobs =>
          pc[c] \in {"not_started", "enqueue_read", "enqueue_mark", "enqueue_put",
                     "return", "done"}
    /\ c \in Cancels =>
          pc[c] \in {"not_started", "cancel_request", "cancel_provider", "cancel_mark",
                     "return", "done"}
    /\ c \in Imports =>
          pc[c] \in {"not_started", "import_upload", "import_write", "import_attach",
                     "import_complete", "return", "done"}

PendingInv ==
    /\ pc[Worker] = "idle" => Job = NoJob
    /\ WorkerUpdate
    /\ \A c \in Calls : CallUpdate(c) /\ CallInPlace(c)

LEMMA WritesUpdate ==
    ASSUME NEW to, NEW l, l # "poll", <<l, to>> \in UpdatesAt \ RemoteUpdatesAt,
           JobKept, Writes(to, l)
    PROVE  WorkerUpdate'
<1>1. CASE Opens(to, FALSE, 0, l)
  BY <1>1 DEF WorkerUpdate, Opens, JobKept, Accepts, Job
<1>2. CASE Refuses(to, "idle")
  BY <1>2 DEF Refuses, Moves, WorkerUpdate
<1> QED
  BY <1>1, <1>2 DEF Writes

LEMMA WorkerKeepsPending ==
    ASSUME BridgeTypeOK, PendingInv, WorkerEdge
    PROVE  PendingInv'
<1>1. WorkerUpdate'
  <2>1. ASSUME NEW l, Moves(l)
        PROVE  WorkerUpdate'
    BY <2>1 DEF Moves, WorkerUpdate
  <2>2. ASSUME DeliveryEdge \/ ManualEdge, JobKept
        PROVE  WorkerUpdate'
    <3>1. CASE Opens("awaiting_manual_provider_result", TRUE, 0, "idle")
      BY <3>1 DEF Opens, WorkerUpdate, Accepts, UpdatesAt, RemoteUpdatesAt
    <3> QED
      BY <2>1, <2>2, <3>1, WritesUpdate
         DEF DeliveryEdge, ManualEdge, Refuses, UpdatesAt, RemoteUpdatesAt
  <2>3. ASSUME SubmitEdge, JobKept
        PROVE  WorkerUpdate'
    <3>1. CASE \/ Opens("submitting_remote", FALSE, 0, "submit_flag")
               \/ Opens("polling_remote", TRUE, 0, "poll_enter")
      BY <2>3, <3>1 DEF Opens, WorkerUpdate, JobKept, Accepts, Job, UpdatesAt,
                        RemoteUpdatesAt
    <3> QED
      BY <2>1, <2>3, <3>1, WritesUpdate DEF SubmitEdge, Refuses, UpdatesAt, RemoteUpdatesAt
  <2>4. ASSUME PollEdge \/ DownloadEdge, JobKept
        PROVE  WorkerUpdate'
    <3>1. CASE Opens("polling_remote", FALSE, 1, "poll")
      BY <2>4, <3>1 DEF Opens, WorkerUpdate, JobKept, Accepts, Job, UpdatesAt,
                        RemoteUpdatesAt
    <3> QED
      BY <2>1, <2>4, <3>1, WritesUpdate
         DEF PollEdge, DownloadEdge, Refuses, UpdatesAt, RemoteUpdatesAt
  <2> QED
    BY <2>1, <2>2, <2>3, <2>4 DEF WorkerEdge, TakesJob
<1>2. pc'[Worker] = "idle" => target'[Worker] = NoJob
  BY DEF WorkerEdge, TakesJob, JobKept, Moves
<1>3. /\ \A c \in Calls : pc'[c] = pc[c] /\ target'[c] = target[c] /\ txn'[c] = txn[c]
      /\ sawRemote' = sawRemote
  BY DEF WorkerEdge, CallsKept, WorkerEffects, callVars
<1>4. \A c \in Calls : CallUpdate(c)' /\ CallInPlace(c)'
  BY <1>3 DEF PendingInv, CallUpdate, CallInPlace
<1> QED
  BY <1>1, <1>2, <1>4 DEF PendingInv, Job

\* The rest of the bridge waits while a call takes its step.
LEMMA CallKeepsPending ==
    ASSUME BridgeTypeOK, PendingInv, NEW c \in Calls, CallEffects(c),
           \A d \in Cancels \ {c} : sawRemote'[d] = sawRemote[d],
           CallUpdate(c)', CallInPlace(c)'
    PROVE  PendingInv'
<1>1. \A p \in Actors \ {c} :
          pc'[p] = pc[p] /\ target'[p] = target[p] /\ txn'[p] = txn[p]
  BY DEF CallEffects
<1>2. Worker \in Actors \ {c} /\ \A d \in Calls : d \in Actors
  BY ActorFacts
<1>3. /\ pc'[Worker] = "idle" => target'[Worker] = NoJob
      /\ WorkerUpdate'
  BY <1>1, <1>2 DEF PendingInv, WorkerUpdate, Job
<1>4. ASSUME NEW d \in Calls \ {c}
      PROVE  CallUpdate(d)' /\ CallInPlace(d)'
  BY <1>1, <1>2, <1>4 DEF PendingInv, CallUpdate, CallInPlace
<1> QED
  BY <1>3, <1>4 DEF PendingInv, Job

\* A call that moves without an UPDATE under way, and one that opens its UPDATE.
LEMMA CallMovesOn ==
    ASSUME NEW c, NEW l, CallMoves(c, l), txn[c] = NoTxn
    PROVE  CallUpdate(c)'
BY DEF CallMoves, CallUpdate

LEMMA CallOpensUpdate ==
    ASSUME NEW c, NEW to, NEW l, CallOpens(c, to, l),
           c \in Jobs => l = "enqueue_put" /\ to = "queued_local",
           c \in Cancels =>
              l = "return" /\ to = IF sawRemote'[c] THEN "cancelling" ELSE "cancelled",
           c \in Imports => \/ l = "import_upload" /\ to = "importing_provider_result"
                            \/ l = "return" /\ to = "complete"
    PROVE  CallUpdate(c)'
BY DEF CallOpens, CallUpdate, Accepts

LEMMA NextPending ==
    ASSUME BridgeTypeOK, IntakeInv, PendingInv, [Next]_vars
    PROVE  PendingInv'
<1> USE ActorFacts
<1>1. ASSUME NEW c \in Calls
      PROVE  /\ pc[c] \notin {"enqueue_put", "return", "import_upload"} => txn[c] = NoTxn
             /\ At(c, "enqueue_put") \/ At(c, "return") \/ At(c, "import_upload")
                   => txn[c] = NoTxn
             /\ c \in Jobs \/ c \in Cancels \/ c \in Imports
  BY DEF PendingInv, CallUpdate, At, Calls
<1>2. ASSUME NEW j \in Jobs, CreateEdge(j)
      PROVE  PendingInv'
  <2>0. j \in Calls /\ j \notin Cancels /\ j \notin Imports
    BY BridgeAssumption DEF Calls
  <2>1. CASE CallOpens(j, "queued_local", "enqueue_put")
    <3>1. CallUpdate(j)'
      BY <2>0, <2>1, CallOpensUpdate
    <3>2. CallInPlace(j)'
      BY <2>0, <2>1 DEF CallInPlace, CallOpens
    <3> QED
      BY <1>2, <2>0, <3>1, <3>2, CallKeepsPending DEF CreateEdge
  <2>2. CASE ~CallOpens(j, "queued_local", "enqueue_put")
    <3>1. /\ txn[j] = NoTxn
          /\ \E l \in {"enqueue_read", "return", "done", "enqueue_mark", "enqueue_put"} :
                CallMoves(j, l)
      BY <1>1, <1>2, <2>0, <2>2 DEF CreateEdge, CallRefuses
    <3>2. CallUpdate(j)'
      BY <3>1, CallMovesOn
    <3>3. CallInPlace(j)'
      BY <2>0, <3>1 DEF CallInPlace, CallMoves
    <3> QED
      BY <1>2, <2>0, <3>2, <3>3, CallKeepsPending DEF CreateEdge
  <2> QED
    BY <2>1, <2>2
<1>3. ASSUME NEW c \in Cancels, CancelEdge(c)
      PROVE  PendingInv'
  <2>0. c \in Calls /\ c \notin Jobs /\ c \notin Imports
    BY BridgeAssumption DEF Calls
  <2>1. CASE \/ CallOpens(c, "cancelling", "return")
             \/ CallOpens(c, "cancelled", "return")
    <3>1. \/ CallOpens(c, "cancelling", "return") /\ sawRemote'[c]
          \/ CallOpens(c, "cancelled", "return") /\ ~sawRemote'[c]
      BY <1>1, <1>3, <2>0, <2>1 DEF CancelEdge, CallOpens, CallMoves, CallRefuses
    <3>2. CallUpdate(c)'
      BY <2>0, <3>1, CallOpensUpdate
    <3>3. CallInPlace(c)'
      BY <2>0, <2>1 DEF CallInPlace, CallOpens
    <3> QED
      BY <1>3, <2>0, <3>2, <3>3, CallKeepsPending DEF CancelEdge
  <2>2. CASE ~(\/ CallOpens(c, "cancelling", "return")
               \/ CallOpens(c, "cancelled", "return"))
    <3>1. /\ txn[c] = NoTxn
          /\ \E l \in {"cancel_request", "cancel_provider", "cancel_mark", "done"} :
                CallMoves(c, l)
      BY <1>1, <1>3, <2>0, <2>2 DEF CancelEdge, CallRefuses
    <3>2. CallUpdate(c)'
      BY <3>1, CallMovesOn
    <3>3. CallInPlace(c)'
      BY <2>0, <3>1 DEF CallInPlace, CallMoves
    <3> QED
      BY <1>3, <2>0, <3>2, <3>3, CallKeepsPending DEF CancelEdge
  <2> QED
    BY <2>1, <2>2
<1>4. ASSUME NEW c \in Imports, ImportEdge(c)
      PROVE  PendingInv'
  <2>0. c \in Calls /\ c \notin Jobs /\ c \notin Cancels
    BY BridgeAssumption DEF Calls
  <2>3. \A d \in Cancels \ {c} : sawRemote'[d] = sawRemote[d]
    BY <1>4 DEF ImportEdge
  <2>1. CASE \/ CallOpens(c, "importing_provider_result", "import_upload")
             \/ CallOpens(c, "complete", "return")
    <3>1. CallUpdate(c)'
      BY <2>0, <2>1, CallOpensUpdate
    <3>2. CallInPlace(c)'
      BY <2>0, <2>1 DEF CallInPlace, CallOpens
    <3> QED
      BY <1>4, <2>0, <2>3, <3>1, <3>2, CallKeepsPending DEF ImportEdge
  <2>2. CASE ~(\/ CallOpens(c, "importing_provider_result", "import_upload")
               \/ CallOpens(c, "complete", "return"))
    <3>1. /\ txn[c] = NoTxn
          /\ \E l \in {"import_upload", "import_write", "import_attach",
                       "import_complete", "done"} : CallMoves(c, l)
      BY <1>1, <1>4, <2>0, <2>2 DEF ImportEdge, CallRefuses, Stores
    <3>2. CallUpdate(c)'
      BY <3>1, CallMovesOn
    <3>3. CallInPlace(c)'
      BY <2>0, <3>1 DEF CallInPlace, CallMoves
    <3> QED
      BY <1>4, <2>0, <2>3, <3>2, <3>3, CallKeepsPending DEF ImportEdge
  <2> QED
    BY <2>1, <2>2
<1>5. ASSUME NEW c \in Calls, ReturnEdge(c)
      PROVE  PendingInv'
  <2>1. CallUpdate(c)'
    BY <1>1, <1>5, CallMovesOn DEF ReturnEdge
  <2>2. CallInPlace(c)'
    BY <1>5 DEF ReturnEdge, CallMoves, CallInPlace
  <2> QED
    BY <1>5, <2>1, <2>2, CallKeepsPending DEF ReturnEdge
<1>6. ASSUME NEW p \in Actors, CommitEdge(p)
      PROVE  PendingInv'
  <2>1. /\ \A q \in Actors : txn'[q] = NoTxn \/ txn'[q] = txn[q]
        /\ UNCHANGED <<pc, target, sawRemote>>
    BY <1>6 DEF CommitEdge
  <2>2. WorkerUpdate'
    BY <2>1 DEF PendingInv, WorkerUpdate, Job
  <2>3. ASSUME NEW c \in Calls
        PROVE  CallUpdate(c)' /\ CallInPlace(c)'
    BY <2>1 DEF PendingInv, CallUpdate, CallInPlace
  <2> QED
    BY <2>1, <2>2, <2>3 DEF PendingInv, Job
<1>7. CASE RestartEdge
  BY <1>7 DEF RestartEdge, PendingInv, WorkerUpdate, CallUpdate, CallInPlace, Job
<1>8. CASE UNCHANGED vars
  BY <1>8 DEF vars, storageVars, controlVars, callVars, PendingInv, WorkerUpdate,
              CallUpdate, CallInPlace, Job
<1> QED
  BY <1>2, <1>3, <1>4, <1>5, <1>6, <1>7, <1>8, NextTakesEdge, WorkerKeepsPending

LEMMA InitPending == Init => PendingInv
BY ActorFacts, BridgeAssumption
   DEF Init, StorageInit, PendingInv, WorkerUpdate, CallUpdate, CallInPlace, Job

\* PendingInv holds throughout: the UPDATE a caller waits for fits the label it waits at.
THEOREM PendingInvariant == Spec => []PendingInv
<1>1. BridgeTypeOK /\ IntakeInv /\ PendingInv /\ [Next]_vars => PendingInv'
  BY NextPending
<1> QED
  BY <1>1, InitPending, TypeCorrect, IntakeInvariant, PTL DEF Spec

-----------------------------------------------------------------------------
(* The calls alike *)

CallEdge(c) ==
    \/ c \in Jobs /\ CreateEdge(c)
    \/ c \in Cancels /\ CancelEdge(c)
    \/ c \in Imports /\ ImportEdge(c)
    \/ ReturnEdge(c)

\* A create call makes its row and puts its job on the queue, a manual-complete
\* stores and attaches files; no call writes anything else.
LEMMA CallEdgeEffects ==
    ASSUME BridgeTypeOK, NEW c \in Calls, CallEdge(c)
    PROVE  /\ CallEffects(c)
           /\ UNCHANGED <<pc[Worker], target[Worker], txn[Worker]>>
           /\ \A d \in Calls \ {c} : UNCHANGED <<pc[d], target[d], txn[d]>>
           /\ \/ status' = status
              \/ /\ c \in Jobs /\ pc[c] = "not_started" /\ ~Exists(c)
                 /\ pc'[c] = "enqueue_read"
                 /\ status' = [status EXCEPT ![c] = "created"]
           /\ \/ queue' = queue
              \/ /\ c \in Jobs /\ At(c, "enqueue_put") /\ pc'[c] = "return"
                 /\ queue' = Append(queue, c)
           /\ c \notin Imports => UNCHANGED <<recorded, outputs, files>>
           /\ \A d \in Imports \ {c} : imported'[d] = imported[d]
           /\ \A d \in Cancels \ {c} : sawRemote'[d] = sawRemote[d]
<1>1. CallEffects(c)
  BY DEF CallEdge, CreateEdge, CancelEdge, ImportEdge, ReturnEdge
<1>2. /\ UNCHANGED <<pc[Worker], target[Worker], txn[Worker]>>
      /\ \A d \in Calls \ {c} : UNCHANGED <<pc[d], target[d], txn[d]>>
  BY <1>1, ActorFacts DEF CallEffects
<1>3. CASE c \in Jobs /\ CreateEdge(c)
  BY <1>1, <1>2, <1>3, BridgeAssumption DEF CreateEdge, CallMoves
<1>4. CASE c \in Cancels /\ CancelEdge(c)
  BY <1>1, <1>2, <1>4, BridgeAssumption DEF CancelEdge
<1>5. CASE c \in Imports /\ ImportEdge(c)
  BY <1>1, <1>2, <1>5, BridgeAssumption DEF ImportEdge
<1>6. CASE ReturnEdge(c)
  BY <1>1, <1>2, <1>6, BridgeAssumption DEF ReturnEdge
<1> QED
  BY <1>3, <1>4, <1>5, <1>6 DEF CallEdge

LEMMA StepTakesEdge ==
    ASSUME BridgeTypeOK, IntakeInv, [Next]_vars
    PROVE  \/ WorkerEdge
           \/ \E p \in Actors : CommitEdge(p)
           \/ \E c \in Calls : CallEdge(c)
           \/ RestartEdge
           \/ UNCHANGED vars
BY NextTakesEdge, ActorFacts DEF CallEdge

-----------------------------------------------------------------------------
(* The two modes *)

WorkerInMode ==
    /\ pc[Worker] \in ManualLabels => Job \in Manual
    /\ pc[Worker] \in MockLabels => Job \in MockJobs
    /\ (txn[Worker] # NoTxn /\ txn[Worker].to = "awaiting_manual_provider_result")
           => txn[Worker].job \in Manual

ModesInv ==
    /\ ModesStayApart
    /\ WorkerInMode
    /\ \A c \in Imports : Running(c) => target[c] \in Manual

\* A pending UPDATE respects the mode of its job.
LEMMA UpdatesKnowTheMode ==
    ASSUME BridgeTypeOK, PendingInv, ModesInv, NEW p \in Actors, txn[p] # NoTxn
    PROVE  /\ txn[p].to \in Automated => txn[p].job \in MockJobs
           /\ txn[p].to \in ByHand => txn[p].job \in Manual
<1> USE DEF Automated, ByHand, AwaitsFiles
<1>1. CASE p = Worker
  BY <1>1 DEF PendingInv, WorkerUpdate, UpdatesAt, ModesInv, WorkerInMode, ManualLabels,
              MockLabels, SubmitLabels, PollLabels, AnsweredLabels
<1>2. CASE p \in Jobs \cup Cancels
  BY <1>2 DEF PendingInv, CallUpdate, Calls
<1>3. CASE p \in Imports
  BY <1>3 DEF PendingInv, CallUpdate, Calls, ModesInv, Running
<1> QED
  BY <1>1, <1>2, <1>3, BridgeAssumption DEF Calls

\* The worker stays on one side of the fork at AfterFlag.
LEMMA WorkerKeepsModes ==
    ASSUME BridgeTypeOK, PendingInv, ModesInv, WorkerEdge
    PROVE  ModesInv'
<1> USE DEF ManualLabels, MockLabels, SubmitLabels, PollLabels, AnsweredLabels
<1>1. WorkerInMode'
  <2> USE DEF WorkerInMode, Job
  <2>1. CASE TakesJob
    BY <2>1 DEF TakesJob, Moves
  <2>2. ASSUME JobKept, DeliveryEdge
        PROVE  WorkerInMode'
    BY <2>2 DEF BridgeTypeOK, JobKept, DeliveryEdge, Writes, Opens, Refuses, Moves, MockJobs
  <2>3. ASSUME JobKept, ManualEdge
        PROVE  WorkerInMode'
    BY <2>3 DEF ModesInv, JobKept, ManualEdge, Writes, Opens, Refuses, Moves
  <2>4. ASSUME JobKept, SubmitEdge
        PROVE  WorkerInMode'
    BY <2>4 DEF ModesInv, JobKept, SubmitEdge, Writes, Opens, Refuses, Moves
  <2>5. ASSUME JobKept, PollEdge
        PROVE  WorkerInMode'
    BY <2>5 DEF ModesInv, JobKept, PollEdge, Writes, Opens, Refuses, Moves
  <2>6. ASSUME JobKept, DownloadEdge
        PROVE  WorkerInMode'
    BY <2>6 DEF ModesInv, JobKept, DownloadEdge, Writes, Opens, Refuses, Moves
  <2> QED
    BY <2>1, <2>2, <2>3, <2>4, <2>5, <2>6 DEF WorkerEdge
<1>2. ModesStayApart'
  BY DEF WorkerEdge, WorkerEffects, ModesInv, ModesStayApart, WorkerInMode, MockJobs
<1>3. \A c \in Imports : Running(c)' => target'[c] \in Manual
  BY ActorFacts DEF WorkerEdge, CallsKept, ModesInv, Running
<1> QED
  BY <1>1, <1>2, <1>3 DEF ModesInv

LEMMA NextModes ==
    ASSUME BridgeTypeOK, IntakeInv, PendingInv, ModesInv, [Next]_vars
    PROVE  ModesInv'
<1> USE DEF WorkerInMode, Job
<1>1. ASSUME NEW p \in Actors, CommitEdge(p)
      PROVE  ModesInv'
  <2>1. ModesStayApart'
    BY <1>1, UpdatesKnowTheMode
       DEF CommitEdge, ModesInv, ModesStayApart, Automated, ByHand, AwaitsFiles, MockJobs
  <2> QED
    BY <1>1, <2>1, ActorFacts DEF CommitEdge, ModesInv, Running
<1>2. ASSUME NEW c \in Calls, CallEdge(c)
      PROVE  ModesInv'
  <2>1. CallEffects(c)
    BY <1>2, CallEdgeEffects
  <2>2. ModesStayApart'
    <3>1. \A j \in Jobs : status'[j] = status[j] \/ status'[j] = "created"
      BY <1>2, CallEdgeEffects DEF BridgeTypeOK, StorageTypeOK
    <3> QED
      BY <2>1, <3>1 DEF CallEffects, SameKnowledge, ModesInv, ModesStayApart
  <2>3. WorkerInMode'
    BY <1>2, CallEdgeEffects DEF ModesInv
  <2>4. c \in Imports => (Running(c)' => target'[c] \in Manual)
    <3>1. CASE pc[c] = "not_started"
      BY <1>2, <3>1, BridgeAssumption
         DEF CallEdge, ImportEdge, ReturnEdge, At, CallRefuses, CallMoves, Running
    <3>2. CASE pc[c] # "not_started"
      BY <2>1, <3>2 DEF CallEffects, ModesInv, Running, Ended
    <3> QED
      BY <3>1, <3>2
  <2>5. \A d \in Imports \ {c} : Running(d)' => target'[d] \in Manual
    BY <2>1, ActorFacts DEF CallEffects, ModesInv, Running
  <2> QED
    BY <2>2, <2>3, <2>4, <2>5 DEF ModesInv
<1>3. CASE RestartEdge
  <2>1. \A c \in Imports : Running(c)' => target'[c] \in Manual
    BY <1>3, ActorFacts DEF RestartEdge, Running, ModesInv
  <2> QED
    BY <1>3, <2>1, ActorFacts
       DEF RestartEdge, ModesInv, ModesStayApart, ManualLabels, MockLabels, SubmitLabels,
           PollLabels, AnsweredLabels
<1>4. CASE UNCHANGED vars
  BY <1>4 DEF vars, storageVars, rowVars, memoryVars, controlVars, ModesInv,
              ModesStayApart, Running
<1> QED
  BY <1>1, <1>2, <1>3, <1>4, StepTakesEdge, WorkerKeepsModes

LEMMA InitModes == Init => ModesInv
BY ActorFacts, OrchestratorAssumption
   DEF Init, StorageInit, NothingSubmitted, ModesInv, ModesStayApart, WorkerInMode, Absent,
       Running, ManualLabels, MockLabels, SubmitLabels, PollLabels, AnsweredLabels

\* ModesInv holds throughout.
THEOREM ModesInvariant == Spec => []ModesInv
<1>1. BridgeTypeOK /\ IntakeInv /\ PendingInv /\ ModesInv /\ [Next]_vars => ModesInv'
  BY NextModes
<1> QED
  BY <1>1, InitModes, TypeCorrect, IntakeInvariant, PendingInvariant, PTL DEF Spec

\* Neither mode ever shows a status of the other, and no provider hears of a manual job.
THEOREM ModesStayApartAlways == Spec => []ModesStayApart
BY ModesInvariant, PTL DEF ModesInv

-----------------------------------------------------------------------------
(* The handoff comes before the status that promises it *)

HandoffInv ==
    /\ HandoffReady
    /\ \A p \in Actors :
          (txn[p] # NoTxn /\ txn[p].to \in AwaitsFiles) => handoff[txn[p].job]
    /\ pc[Worker] = "await_result" => handoff[Job]

LEMMA WorkerKeepsHandoff ==
    ASSUME BridgeTypeOK, PendingInv, HandoffInv, WorkerEdge
    PROVE  HandoffInv'
<1>1. \A j \in Jobs : handoff[j] => handoff'[j]
  BY DEF WorkerEdge, WorkerEffects, BridgeTypeOK, StorageTypeOK
<1>2. HandoffReady'
  BY <1>1 DEF WorkerEdge, WorkerEffects, HandoffInv, HandoffReady
<1>3. \A c \in Calls :
          (txn'[c] # NoTxn /\ txn'[c].to \in AwaitsFiles) => handoff'[txn'[c].job]
  <2> SUFFICES ASSUME NEW c \in Calls, txn'[c] # NoTxn, txn'[c].to \in AwaitsFiles
               PROVE  handoff'[txn'[c].job]
    OBVIOUS
  <2>1. txn'[c] = txn[c]
    BY DEF WorkerEdge, CallsKept
  <2>2. txn[c].job \in Jobs
    BY <2>1, ActorFacts DEF BridgeTypeOK, StorageTypeOK, StatusUpdate
  <2> QED
    BY <1>1, <2>1, <2>2, ActorFacts DEF HandoffInv
<1>4. /\ (txn'[Worker] # NoTxn /\ txn'[Worker].to \in AwaitsFiles)
             => handoff'[txn'[Worker].job]
      /\ pc'[Worker] = "await_result" => handoff'[target'[Worker]]
  <2>0. pc[Worker] # "idle" => Job \in Jobs
    BY DEF BridgeTypeOK, Job
  <2> USE DEF AwaitsFiles, Opens, Refuses, Moves, Writes, JobKept
  <2>1. CASE TakesJob
    BY <2>1 DEF TakesJob
  <2>2. CASE JobKept /\ DeliveryEdge
    BY <2>2 DEF DeliveryEdge
  <2>3. CASE JobKept /\ ManualEdge
    BY <1>1, <2>0, <2>3 DEF ManualEdge, HandoffInv
  <2>4. CASE JobKept /\ SubmitEdge
    BY <2>4 DEF SubmitEdge
  <2>5. CASE JobKept /\ PollEdge
    BY <2>5 DEF PollEdge
  <2>6. CASE JobKept /\ DownloadEdge
    BY <2>6 DEF DownloadEdge
  <2> QED
    BY <2>1, <2>2, <2>3, <2>4, <2>5, <2>6 DEF WorkerEdge
<1> QED
  BY <1>2, <1>3, <1>4, ActorFacts, BridgeAssumption DEF HandoffInv, Job

LEMMA NextHandoff ==
    ASSUME BridgeTypeOK, IntakeInv, PendingInv, PendingInv', HandoffInv, [Next]_vars
    PROVE  HandoffInv'
<1>1. ASSUME NEW p \in Actors, CommitEdge(p)
      PROVE  HandoffInv'
  <2>1. \A j \in Jobs : status'[j] = status[j] \/ (j = txn[p].job /\ status'[j] = txn[p].to)
    BY <1>1 DEF CommitEdge
  <2>2. /\ txn[p] # NoTxn /\ \A q \in Actors : txn'[q] \in {NoTxn, txn[q]}
        /\ UNCHANGED <<handoff, pc, target>>
    BY <1>1 DEF CommitEdge
  <2> QED
    BY <2>1, <2>2, ActorFacts DEF HandoffInv, HandoffReady, AwaitsFiles, Job
<1>2. ASSUME NEW c \in Calls, CallEdge(c)
      PROVE  HandoffInv'
  <2>1. CallEffects(c) /\ UNCHANGED <<pc[Worker], target[Worker], txn[Worker], handoff>>
    BY <1>2, CallEdgeEffects DEF CallEffects
  <2>2. HandoffReady'
    <3>1. \A j \in Jobs : status'[j] = status[j] \/ status'[j] = "created"
      BY <1>2, CallEdgeEffects DEF BridgeTypeOK, StorageTypeOK
    <3> QED
      BY <2>1, <3>1 DEF HandoffInv, HandoffReady
  <2>3. (txn'[c] # NoTxn /\ txn'[c].to \in AwaitsFiles) => handoff'[txn'[c].job]
    <3> SUFFICES ASSUME txn'[c] # NoTxn, txn'[c].to \in AwaitsFiles, txn'[c] # txn[c]
                 PROVE  handoff[txn'[c].job]
      BY <2>1, ActorFacts DEF HandoffInv
    <3>1. c \in Imports
      BY DEF PendingInv, CallUpdate, AwaitsFiles, Calls
    <3>2. CallOpens(c, "importing_provider_result", "import_upload")
      BY <1>2, <3>1, BridgeAssumption
         DEF CallEdge, ImportEdge, ReturnEdge, CallMoves, CallRefuses, CallOpens, Stores,
             AwaitsFiles
    <3>3. /\ txn'[c].job \in Jobs
          /\ status[txn'[c].job] \in AwaitsFiles
      BY <2>1, <3>2
         DEF CallOpens, CallEffects, Accepts, ValidTransition, AllowedTransitions, AwaitsFiles
    <3> QED
      BY <3>3 DEF HandoffInv, HandoffReady, AwaitsFiles
  <2>4. \A p \in Actors \ {c} : txn'[p] = txn[p]
    BY <2>1 DEF CallEffects
  <2> QED
    BY <2>1, <2>2, <2>3, <2>4 DEF HandoffInv, Job
<1>3. CASE RestartEdge
  BY <1>3 DEF RestartEdge, HandoffInv, HandoffReady
<1>4. CASE UNCHANGED vars
  BY <1>4 DEF vars, storageVars, rowVars, controlVars, HandoffInv, HandoffReady, Job
<1> QED
  BY <1>1, <1>2, <1>3, <1>4, StepTakesEdge, WorkerKeepsHandoff

LEMMA InitHandoff == Init => HandoffInv
BY ActorFacts DEF Init, StorageInit, HandoffInv, HandoffReady, Absent

\* HandoffInv holds throughout.
THEOREM HandoffInvariant == Spec => []HandoffInv
<1>1. BridgeTypeOK /\ IntakeInv /\ PendingInv /\ PendingInv' /\ HandoffInv /\ [Next]_vars
          => HandoffInv'
  BY NextHandoff
<1> QED
  BY <1>1, InitHandoff, TypeCorrect, IntakeInvariant, PendingInvariant, PTL DEF Spec

\* A job that shows "awaiting result" or is past it has a handoff.
THEOREM HandoffReadyAlways == Spec => []HandoffReady
BY HandoffInvariant, PTL DEF HandoffInv

-----------------------------------------------------------------------------
(* Who knows that a job has a remote id *)

RemoteInv ==
    /\ \A j \in Jobs : status[j] = "cancelling" => remote[j]
    /\ \A c \in Cancels : Running(c) /\ sawRemote[c] => remote[target[c]]
    /\ pc[Worker] \in SubmitLabels => ~remote[Job]
    /\ pc[Worker] \in PollLabels => remote[Job]

\* A remote id once written stays, and only the worker writes one, at a label that
\* is not one of the submission.
LEMMA CommitKeepsRemote ==
    ASSUME BridgeTypeOK, PendingInv, RemoteInv, NEW p \in Actors, CommitEdge(p)
    PROVE  RemoteInv'
<1>0. /\ txn[p] # NoTxn /\ txn[p].job \in Jobs
      /\ UNCHANGED <<pc, target, sawRemote>>
      /\ \A j \in Jobs : remote[j] \in BOOLEAN
      /\ \A c \in Calls : Running(c) => target[c] \in Jobs
      /\ pc[Worker] # "idle" => Job \in Jobs
  BY DEF CommitEdge, BridgeTypeOK, StorageTypeOK, StatusUpdate, Job
<1>1. \A j \in Jobs : remote[j] => remote'[j]
  BY <1>0 DEF CommitEdge
<1>2. \A j \in Jobs : status'[j] = "cancelling" => remote'[j]
  <2> SUFFICES ASSUME status'[txn[p].job] = "cancelling"
               PROVE  remote'[txn[p].job]
    BY <1>1 DEF CommitEdge, RemoteInv
  <2>1. txn[p].to = "cancelling"
    BY DEF CommitEdge
  <2>2. p # Worker
    BY <1>0, <2>1 DEF PendingInv, WorkerUpdate, UpdatesAt
  <2>3. p \in Calls /\ CallUpdate(p)
    BY <2>2, ActorFacts, BridgeAssumption DEF PendingInv
  <2>4. p \in Cancels
    BY <1>0, <2>1, <2>3 DEF CallUpdate, Calls
  <2>5. sawRemote[p] /\ pc[p] = "return" /\ txn[p].job = target[p]
    BY <1>0, <2>1, <2>3, <2>4 DEF CallUpdate
  <2> QED
    BY <1>0, <1>1, <2>4, <2>5 DEF RemoteInv, Running
<1>3. pc[Worker] \in SubmitLabels => ~remote'[Job]
  <2> SUFFICES ASSUME pc[Worker] \in SubmitLabels
               PROVE  ~remote'[Job]
    OBVIOUS
  <2>1. Job \in Jobs /\ ~remote[Job]
    BY <1>0 DEF SubmitLabels, RemoteInv
  <2>2. ~txn[p].remote
    <3>1. CASE p = Worker
      BY <1>0, <3>1 DEF PendingInv, WorkerUpdate, SubmitLabels, RemoteUpdatesAt
    <3>2. CASE p \in Calls
      BY <1>0, <3>2 DEF PendingInv, CallUpdate
    <3> QED
      BY <3>1, <3>2, BridgeAssumption
  <2> QED
    BY <2>1, <2>2 DEF CommitEdge
<1>4. pc[Worker] \in PollLabels => remote'[Job]
  BY <1>0, <1>1 DEF PollLabels, AnsweredLabels, RemoteInv
<1>5. \A c \in Cancels : Running(c) /\ sawRemote[c] => remote'[target[c]]
  BY <1>0, <1>1, ActorFacts DEF RemoteInv
<1> QED
  BY <1>0, <1>2, <1>3, <1>4, <1>5 DEF RemoteInv, Running, Job

LEMMA WorkerKeepsRemote ==
    ASSUME BridgeTypeOK, RemoteInv, WorkerEdge
    PROVE  RemoteInv'
<1> USE DEF SubmitLabels, PollLabels, AnsweredLabels
<1>0. UNCHANGED <<status, remote, sawRemote>>
  BY DEF WorkerEdge, WorkerEffects, callVars
<1>1. /\ pc'[Worker] \in SubmitLabels => ~remote[target'[Worker]]
      /\ pc'[Worker] \in PollLabels => remote[target'[Worker]]
  <2> USE DEF Opens, Refuses, Moves, Writes, JobKept, RemoteInv
  <2>1. CASE TakesJob
    BY <2>1 DEF TakesJob
  <2>2. CASE JobKept /\ DeliveryEdge
    BY <2>2 DEF DeliveryEdge
  <2>3. CASE JobKept /\ ManualEdge
    BY <2>3 DEF ManualEdge
  <2>4. CASE JobKept /\ SubmitEdge
    BY <2>4 DEF SubmitEdge
  <2>5. CASE JobKept /\ PollEdge
    BY <2>5 DEF PollEdge
  <2>6. CASE JobKept /\ DownloadEdge
    BY <2>6 DEF DownloadEdge
  <2> QED
    BY <2>1, <2>2, <2>3, <2>4, <2>5, <2>6 DEF WorkerEdge
<1>2. \A c \in Cancels : Running(c)' /\ sawRemote'[c] => remote[target'[c]]
  BY <1>0, ActorFacts DEF WorkerEdge, CallsKept, RemoteInv, Running
<1> QED
  BY <1>0, <1>1, <1>2 DEF RemoteInv, Job

LEMMA NextRemote ==
    ASSUME BridgeTypeOK, IntakeInv, PendingInv, RemoteInv, [Next]_vars
    PROVE  RemoteInv'
<1>1. ASSUME NEW c \in Calls, CallEdge(c)
      PROVE  RemoteInv'
  <2>1. /\ CallEffects(c)
        /\ UNCHANGED <<pc[Worker], target[Worker], remote>>
        /\ \A d \in Cancels \ {c} : UNCHANGED <<pc[d], target[d], sawRemote[d]>>
    BY <1>1, CallEdgeEffects, ActorFacts DEF CallEffects
  <2>2. \A j \in Jobs : status'[j] = status[j] \/ status'[j] = "created"
    BY <1>1, CallEdgeEffects DEF BridgeTypeOK, StorageTypeOK
  <2>3. c \in Cancels => (Running(c)' /\ sawRemote'[c] => remote[target'[c]])
    <3> SUFFICES ASSUME c \in Cancels, Running(c)', sawRemote'[c]
                 PROVE  remote[target'[c]]
      OBVIOUS
    <3>1. \/ pc[c] = "not_started" /\ sawRemote'[c] = remote[target'[c]]
          \/ Running(c) /\ sawRemote'[c] = sawRemote[c] /\ target'[c] = target[c]
      BY <1>1, <2>1, BridgeAssumption
         DEF CallEdge, CancelEdge, ReturnEdge, CallEffects, At, Running, Ended
    <3> QED
      BY <3>1 DEF RemoteInv
  <2>4. \A d \in Cancels \ {c} : Running(d)' /\ sawRemote'[d] => remote[target'[d]]
    BY <2>1 DEF RemoteInv, Running
  <2> QED
    BY <2>1, <2>2, <2>3, <2>4 DEF RemoteInv, Job
<1>2. CASE RestartEdge
  <2>1. \A c \in Cancels : ~Running(c)'
    BY <1>2, ActorFacts DEF RestartEdge, Running
  <2> QED
    BY <1>2, <2>1 DEF RestartEdge, RemoteInv, SubmitLabels, PollLabels, AnsweredLabels
<1>3. CASE UNCHANGED vars
  BY <1>3 DEF vars, storageVars, rowVars, controlVars, callVars, RemoteInv, Running, Job
<1> QED
  BY <1>1, <1>2, <1>3, StepTakesEdge, WorkerKeepsRemote, CommitKeepsRemote

LEMMA InitRemote == Init => RemoteInv
BY ActorFacts
   DEF Init, StorageInit, RemoteInv, Absent, Running, SubmitLabels, PollLabels,
       AnsweredLabels

\* RemoteInv holds throughout.
THEOREM RemoteInvariant == Spec => []RemoteInv
<1>1. BridgeTypeOK /\ IntakeInv /\ PendingInv /\ RemoteInv /\ [Next]_vars => RemoteInv'
  BY NextRemote
<1> QED
  BY <1>1, InitRemote, TypeCorrect, IntakeInvariant, PendingInvariant, PTL DEF Spec

\* Only a job with a remote id is ever cancelling; _submit_remote never meets one.
THEOREM CancellingHasRemoteAlways == Spec => []CancellingHasRemote
<1>1. BridgeTypeOK /\ RemoteInv => CancellingHasRemote
  BY DEF BridgeTypeOK, RemoteInv, CancellingHasRemote, SubmitLabels, Job
<1> QED
  BY <1>1, TypeCorrect, RemoteInvariant, PTL

-----------------------------------------------------------------------------
(* The two copies of the number of attempts *)

RetryInv ==
    /\ InPollLoop => tries = attempts[Job] + (IF RetryPending THEN 1 ELSE 0)
    /\ \A j \in Jobs : attempts[j] <= MaxAttempts
    /\ pc[Worker] = "ask" => tries < MaxAttempts
    /\ InPollLoop /\ RetryPending => tries <= MaxAttempts

LEMMA WorkerKeepsRetries ==
    ASSUME BridgeTypeOK, PendingInv, RetryInv, WorkerEdge
    PROVE  RetryInv'
<1>0. /\ tries \in Nat /\ MaxAttempts \in Nat /\ txn[Worker] = NoTxn
      /\ attempts' = attempts /\ attempts \in [Jobs -> Nat]
      /\ pc[Worker] # "idle" => Job \in Jobs
  BY OrchestratorAssumption
     DEF WorkerEdge, WorkerEffects, BridgeTypeOK, StorageTypeOK, Job
<1>1. CASE pc'[Worker] \notin {"poll", "ask", "retry"}
  BY <1>0, <1>1 DEF RetryInv, InPollLoop
<1>2. CASE pc'[Worker] \in {"poll", "ask", "retry"}
  <2>1. PollEdge /\ target'[Worker] = Job /\ pc[Worker] # "idle"
    BY <1>2 DEF WorkerEdge, TakesJob, JobKept, DeliveryEdge, ManualEdge, SubmitEdge,
                DownloadEdge, Writes, Opens, Refuses, Moves
  <2>2. \/ /\ pc[Worker] = "poll_enter" /\ tries' = attempts[Job] /\ Moves("poll")
        \/ pc[Worker] = "poll" /\ tries < MaxAttempts /\ Moves("ask") /\ tries' = tries
        \/ pc[Worker] = "ask" /\ Moves("retry") /\ tries' = tries + 1
        \/ pc[Worker] = "ask" /\ Moves("poll") /\ tries' = tries
        \/ /\ pc[Worker] = "retry" /\ tries' = tries /\ pc'[Worker] = "poll"
           /\ txn'[Worker] # NoTxn /\ txn'[Worker].retry = 1
    BY <1>2, <2>1 DEF PollEdge, Writes, Opens, Refuses, Moves
  <2>3. /\ RetryPending <=> pc[Worker] = "retry"
        /\ InPollLoop <=> pc[Worker] \in {"poll", "ask", "retry"}
        /\ InPollLoop'
    BY <1>0, <1>2 DEF RetryPending, InPollLoop
  <2>4. RetryPending' <=> pc'[Worker] = "retry" \/ pc[Worker] = "retry"
    BY <2>2 DEF RetryPending, Moves
  <2> HIDE DEF RetryPending, InPollLoop
  <2>5. /\ tries' = attempts[Job] + (IF RetryPending' THEN 1 ELSE 0)
        /\ pc'[Worker] = "ask" => tries' < MaxAttempts
        /\ RetryPending' => tries' <= MaxAttempts
    <3>1. attempts[Job] \in Nat
      BY <1>0, <2>1
    <3>2. CASE pc[Worker] = "poll_enter"
      BY <2>2, <2>4, <3>1, <3>2 DEF Moves
    <3>3. CASE pc[Worker] = "poll"
      BY <1>0, <2>2, <2>3, <2>4, <3>1, <3>3 DEF Moves, RetryInv
    <3>4. CASE pc[Worker] = "ask"
      BY <1>0, <2>2, <2>3, <2>4, <3>1, <3>4 DEF Moves, RetryInv
    <3>5. CASE pc[Worker] = "retry"
      BY <1>0, <2>2, <2>3, <2>4, <3>1, <3>5 DEF Moves, RetryInv
    <3> QED
      BY <2>2, <3>2, <3>3, <3>4, <3>5
  <2> QED
    BY <1>0, <2>1, <2>3, <2>5 DEF RetryInv, Job
<1> QED
  BY <1>1, <1>2

LEMMA CommitKeepsRetries ==
    ASSUME BridgeTypeOK, PendingInv, RetryInv, NEW p \in Actors, CommitEdge(p)
    PROVE  RetryInv'
<1>0. /\ tries \in Nat /\ MaxAttempts \in Nat /\ txn[p] # NoTxn
      /\ attempts \in [Jobs -> Nat] /\ txn[p].job \in Jobs /\ txn[p].retry \in {0, 1}
      /\ pc[Worker] # "idle" => Job \in Jobs
      /\ UNCHANGED <<pc, target, tries>>
      /\ \A j \in Jobs : j # txn[p].job => attempts'[j] = attempts[j]
      /\ attempts'[txn[p].job] = attempts[txn[p].job] + txn[p].retry
      /\ txn'[p] = NoTxn /\ (p # Worker => txn'[Worker] = txn[Worker])
  BY OrchestratorAssumption
     DEF CommitEdge, BridgeTypeOK, StorageTypeOK, StatusUpdate, Job
<1>1. CASE txn[p].retry = 0
  <2>1. \A j \in Jobs : attempts'[j] = attempts[j]
    BY <1>0, <1>1
  <2>2. RetryPending' <=> RetryPending
    BY <1>0, <1>1 DEF RetryPending
  <2>3. InPollLoop' <=> InPollLoop
    BY <1>0 DEF InPollLoop
  <2>4. InPollLoop => attempts'[Job] = attempts[Job]
    BY <1>0, <2>1 DEF InPollLoop
  <2> HIDE DEF RetryPending, InPollLoop
  <2> QED
    BY <1>0, <2>1, <2>2, <2>3, <2>4 DEF RetryInv, Job
<1>2. CASE txn[p].retry = 1
  <2>1. p = Worker
    BY <1>0, <1>2, BridgeAssumption DEF PendingInv, CallUpdate
  <2>2. /\ pc[Worker] = "poll" /\ txn[p].job = Job
        /\ RetryPending /\ ~RetryPending' /\ InPollLoop
    BY <1>0, <1>2, <2>1 DEF PendingInv, WorkerUpdate, RetryPending, InPollLoop
  <2>3. /\ tries = attempts[Job] + 1 /\ tries <= MaxAttempts
        /\ attempts[Job] \in Nat /\ attempts'[Job] = attempts[Job] + 1
    BY <1>0, <1>2, <2>2 DEF RetryInv
  <2>4. attempts'[Job] = tries /\ attempts'[Job] <= MaxAttempts
    BY <1>0, <2>3
  <2>5. \A j \in Jobs : attempts'[j] <= MaxAttempts
    BY <1>0, <2>2, <2>4 DEF RetryInv
  <2>6. tries = attempts'[Job] + 0
    BY <1>0, <2>4
  <2> QED
    BY <1>0, <2>2, <2>5, <2>6 DEF RetryInv, Job
<1> QED
  BY <1>0, <1>1, <1>2

LEMMA NextRetries ==
    ASSUME BridgeTypeOK, IntakeInv, PendingInv, RetryInv, [Next]_vars
    PROVE  RetryInv'
<1>1. ASSUME NEW c \in Calls, CallEdge(c)
      PROVE  RetryInv'
  <2>1. UNCHANGED <<pc[Worker], target[Worker], txn[Worker], attempts, tries>>
    BY <1>1, CallEdgeEffects DEF CallEffects
  <2> QED
    BY <2>1 DEF RetryInv, InPollLoop, RetryPending, Job
<1>2. CASE RestartEdge
  BY <1>2 DEF RestartEdge, RetryInv, InPollLoop
<1>3. CASE UNCHANGED vars
  BY <1>3 DEF vars, storageVars, rowVars, controlVars, RetryInv, InPollLoop,
              RetryPending, Job
<1> QED
  BY <1>1, <1>2, <1>3, StepTakesEdge, WorkerKeepsRetries, CommitKeepsRetries

LEMMA InitRetries == Init => RetryInv
BY ActorFacts, OrchestratorAssumption DEF Init, StorageInit, RetryInv, InPollLoop

\* RetryInv holds throughout: what the worker counts and what the row counts.
THEOREM RetryInvariant == Spec => []RetryInv
<1>1. BridgeTypeOK /\ IntakeInv /\ PendingInv /\ RetryInv /\ [Next]_vars => RetryInv'
  BY NextRetries
<1> QED
  BY <1>1, InitRetries, TypeCorrect, IntakeInvariant, PendingInvariant, PTL DEF Spec

\* The worker's copy of attempts is the row's and the limit is never passed, whatever
\* the cancel calls write to the row in between.
THEOREM RetriesCountedAlways == Spec => []RetriesCounted
BY RetryInvariant, PTL DEF RetryInv, RetriesCounted

==============================================================================
