--------------------------- MODULE JobOrchestrator ---------------------------
(***************************************************************************)
(* bridge/services/job_service.py: the queue, the cancellation registry    *)
(* and the worker thread.  The worker runs one delivered job to the end of *)
(* process_one; a label of pc names what it does next, and a step is one   *)
(* access to state that another thread shares (the database, the registry, *)
(* the provider, the queue, the disk).  A call of set_job_status waits, at *)
(* the label that follows it, until its UPDATE has been committed.  One    *)
(* that raises ends process_one: WorkerLoop swallows the exception and     *)
(* nothing puts the job back on the queue.                                 *)
(***************************************************************************)
EXTENDS AssetDownloader, MockSuno, Sequences

CONSTANTS
    Worker,        \* the bridge-worker thread
    Manual,        \* jobs with providerMode manual_suno, the others are mock
    MissingAsset,  \* audio jobs whose asset id is in no row of imported_assets
    MaxAttempts,   \* RetryPolicy.max_attempts
    MockOutput     \* the one output of a mock job

ASSUME OrchestratorAssumption ==
    /\ Worker \in Actors
    /\ Manual \subseteq Jobs
    /\ MaxAttempts \in Nat
    /\ MockOutput \in Assets
    /\ RemoteJobs = Jobs

VARIABLES
    queue,         \* JobQueue
    cancelled,     \* CancellationRegistry
    pc,            \* what each actor does next
    target,        \* the job each actor works on
    tries,         \* the worker's local variable attempts
    \* State of the calls and of the process, of which BridgeApp tells:
    sawRemote,     \* per cancel call: the job it read had a remote id
    imported,      \* per manual-complete call: how many uploads are stored
    reply,         \* per call: the job its answer shows, or how it failed
    boots          \* restarts so far

storageVars == <<rowVars, txn, files>>
memoryVars == <<queue, cancelled, provider>>
controlVars == <<pc, target, tries>>
callVars == <<sawRemote, imported, reply>>
vars == <<storageVars, memoryVars, controlVars, callVars, boots>>

NoJob == "no_job"

WorkerLabels ==
    {"idle", "start", "flag", "clear", "prepare", "handoff", "await_result",
     "submit", "submit_mark", "submit_flag", "submit_clear", "remote_submit",
     "record_remote", "poll_enter", "poll", "ask", "retry", "gone", "ready",
     "download", "write_file", "attach", "complete"}

MockJobs == Jobs \ Manual
Job == target[Worker]

\* p has come to label l, the set_job_status before it being committed.
At(p, l) == pc[p] = l /\ txn[p] = NoTxn
Goto(p, l) == pc' = [pc EXCEPT ![p] = l]

\* The worker acts at label l, and leaves the calls to themselves.
WorkerAt(l) == At(Worker, l) /\ UNCHANGED <<callVars, boots>>

\* The worker goes on to l, and forgets the job when that ends process_one.
Step(l) ==
    /\ Goto(Worker, l)
    /\ target' = IF l = "idle" THEN [target EXCEPT ![Worker] = NoJob] ELSE target
    /\ tries' = IF l = "idle" THEN 0 ELSE tries

\* The same with no set_job_status on the way.
Proceed(l) == Step(l) /\ UNCHANGED txn

\* The worker calls set_job_status and then goes on to l; onRaise is where it
\* goes when the transition is refused.
SetsStatusOr(to, isRemote, retry, l, onRaise) ==
    IF Accepts(Job, to)
    THEN OpenUpdate(Worker, Job, to, isRemote, retry) /\ Step(l)
    ELSE Proceed(onRaise)
SetsStatus(to, l) == SetsStatusOr(to, FALSE, 0, l, "idle")

-----------------------------------------------------------------------------
(* process_one *)

Dequeue ==
    /\ WorkerAt("idle")
    /\ queue # <<>>
    /\ queue' = Tail(queue)
    /\ target' = [target EXCEPT ![Worker] = Head(queue)]
    /\ Goto(Worker, "start")
    /\ UNCHANGED <<storageVars, cancelled, provider, tries>>

ReadJob ==
    /\ WorkerAt("start")
    /\ Proceed(IF Terminal(Job) THEN "idle" ELSE "flag")
    /\ UNCHANGED <<rowVars, files, memoryVars>>

\* Mutant: process_one without its manual_suno branch.
AfterFlagModeless == IF remote[Job] THEN "poll_enter" ELSE "submit"

\* Only the worker sets the remote id of its job, so it is as good as read before.
AfterFlag ==
    IF Job \in Manual THEN "prepare"
    ELSE IF remote[Job] THEN "poll_enter" ELSE "submit"

\* A flag that is up stays up until the worker clears it: reading it and the
\* check of the set_job_status that follows are one step.
CheckFlag ==
    /\ WorkerAt("flag")
    /\ IF Job \in cancelled THEN SetsStatus("cancelled", "clear")
                            ELSE Proceed(AfterFlag)
    /\ UNCHANGED <<rowVars, files, memoryVars>>

ClearFlag(label, l) ==
    /\ WorkerAt(label)
    /\ cancelled' = cancelled \ {Job}
    /\ Proceed(l)
    /\ UNCHANGED <<rowVars, files, queue, provider>>

-----------------------------------------------------------------------------
(* _prepare_manual *)

\* The statuses that pass the test of get_job are those from which the table
\* allows the write, and both exits leave the job alone: the read and the check
\* of set_job_status are one step.
Prepare ==
    /\ WorkerAt("prepare")
    /\ IF status[Job] \in {"queued_local", "created",
                           "awaiting_manual_provider_submission"}
       THEN SetsStatus("awaiting_manual_provider_submission", "handoff")
       ELSE Proceed("idle")
    /\ UNCHANGED <<rowVars, files, memoryVars>>

\* Mutant: update_job_provider_metadata forgotten.
PrepareHandoffUnsaved ==
    /\ WorkerAt("handoff")
    /\ Proceed("await_result")
    /\ UNCHANGED <<rowVars, files, memoryVars>>

\* The workspace is written and its handoff stored, unless the audio asset that
\* the job names does not exist, or the copy of its metadata raises: of an audio
\* job they are any JSON (dict of it, before the asset is looked for).
PrepareHandoff ==
    /\ WorkerAt("handoff")
    /\ IF SubmitRaises(Job)
       THEN Proceed("idle") /\ UNCHANGED handoff
       ELSE IF Job \in MissingAsset
       THEN SetsStatus("failed", "idle") /\ UNCHANGED handoff
       ELSE UpdateProviderMetadata(Job) /\ Proceed("await_result")
    /\ UNCHANGED <<status, remote, attempts, outputs, recorded, files, memoryVars>>

AwaitResult ==
    /\ WorkerAt("await_result")
    /\ SetsStatusOr("awaiting_manual_provider_result", TRUE, 0, "idle", "idle")
    /\ UNCHANGED <<rowVars, files, memoryVars>>

-----------------------------------------------------------------------------
(* _submit_remote: every return of it leads to _poll_and_download *)

Submit ==
    /\ WorkerAt("submit")
    /\ IF Terminal(Job) THEN Proceed("poll_enter")
       ELSE IF status[Job] = "cancelling" THEN SetsStatus("cancelled", "poll_enter")
       ELSE Proceed("submit_mark")
    /\ UNCHANGED <<rowVars, files, memoryVars>>

MarkSubmitting ==
    /\ WorkerAt("submit_mark")
    /\ SetsStatusOr("submitting_remote", FALSE, 0, "submit_flag", "poll_enter")
    /\ UNCHANGED <<rowVars, files, memoryVars>>

CheckFlagBeforeSubmit ==
    /\ WorkerAt("submit_flag")
    /\ IF Job \in cancelled THEN SetsStatus("cancelled", "submit_clear")
                            ELSE Proceed("remote_submit")
    /\ UNCHANGED <<rowVars, files, memoryVars>>

\* Mutant: a submit whose answer is late is repeated.
SubmitAgainIfLate ==
    /\ WorkerAt("remote_submit")
    /\ SubmitRemote(Job)
    /\ Proceed("record_remote") \/ Proceed("submit_flag")
    /\ UNCHANGED <<rowVars, files, queue, cancelled>>

\* Nobody catches what a submit raises but WorkerLoop: the job stays as it was.
SubmitToProvider ==
    /\ WorkerAt("remote_submit")
    /\ IF Job \in MissingAsset
       THEN SetsStatus("failed", "poll_enter") /\ UNCHANGED provider
       ELSE IF SubmitRaises(Job)
       THEN Proceed("idle") /\ UNCHANGED provider
       ELSE SubmitRemote(Job) /\ Proceed("record_remote")
    /\ UNCHANGED <<rowVars, files, queue, cancelled>>

RecordRemoteId ==
    /\ WorkerAt("record_remote")
    /\ SetsStatusOr("polling_remote", TRUE, 0, "poll_enter", "idle")
    /\ UNCHANGED <<rowVars, files, memoryVars>>

-----------------------------------------------------------------------------
(* _poll_and_download *)

EnterPolling ==
    /\ WorkerAt("poll_enter")
    /\ IF Terminal(Job) \/ ~remote[Job]
       THEN Proceed("idle")
       ELSE Goto(Worker, "poll") /\ tries' = attempts[Job] /\ UNCHANGED <<txn, target>>
    /\ UNCHANGED <<rowVars, files, memoryVars>>

\* Top of the loop.  The cancellation reaches the provider even when the
\* set_job_status after it raises.
PollTop ==
    /\ WorkerAt("poll")
    /\ IF tries >= MaxAttempts
       THEN SetsStatus("failed", "idle") /\ UNCHANGED provider
       ELSE IF Job \in cancelled
       THEN CancelRemote(Job) /\ SetsStatus("cancelled", "clear")
       ELSE Proceed("ask") /\ UNCHANGED provider
    /\ UNCHANGED <<rowVars, files, queue, cancelled>>

\* poll_job raises KeyError for a remote id of an earlier run of the bridge.
AskProvider ==
    /\ WorkerAt("ask")
    /\ IF provider[Job] = Unknown
       THEN Proceed("idle") /\ UNCHANGED provider
       ELSE /\ PollRemote(Job)
            /\ CASE PollAnswer(Job) = "retryable_error" ->
                      /\ tries' = tries + 1
                      /\ Goto(Worker, "retry")
                      /\ UNCHANGED <<txn, target>>
                 [] PollAnswer(Job) = "in_progress" -> Proceed("poll")
                 [] PollAnswer(Job) = "cancelled" -> Proceed("gone")
                 [] PollAnswer(Job) = "ready" -> Proceed("ready")
    /\ UNCHANGED <<rowVars, files, queue, cancelled>>

\* Mutants: leave the loop after a retryable error; do not count the retry.
CountRetryAndLeave ==
    /\ WorkerAt("retry")
    /\ SetsStatusOr("polling_remote", FALSE, 1, "idle", "idle")
    /\ UNCHANGED <<rowVars, files, memoryVars>>
CountRetryInMemory ==
    /\ WorkerAt("retry")
    /\ SetsStatusOr("polling_remote", FALSE, 0, "poll", "idle")
    /\ UNCHANGED <<rowVars, files, memoryVars>>

CountRetry ==
    /\ WorkerAt("retry")
    /\ SetsStatusOr("polling_remote", FALSE, 1, "poll", "idle")
    /\ UNCHANGED <<rowVars, files, memoryVars>>

ProviderCancelled ==
    /\ WorkerAt("gone")
    /\ SetsStatus("cancelled", "idle")
    /\ UNCHANGED <<rowVars, files, memoryVars>>

BeginDownload ==
    /\ WorkerAt("ready")
    /\ SetsStatus("downloading", "download")
    /\ UNCHANGED <<rowVars, files, memoryVars>>

\* Mutant: the test of inserted the wrong way round.
RecordOutputInverted ==
    /\ WorkerAt("download")
    /\ RecordAsset(Job, MockOutput)
    /\ Proceed(IF IsRecorded(Job, MockOutput) THEN "write_file" ELSE "attach")
    /\ UNCHANGED <<status, remote, attempts, handoff, outputs, files, memoryVars>>

\* store_download: a row that was there already is taken for a stored file.
RecordOutput ==
    /\ WorkerAt("download")
    /\ RecordAsset(Job, MockOutput)
    /\ Proceed(IF IsRecorded(Job, MockOutput) THEN "attach" ELSE "write_file")
    /\ UNCHANGED <<status, remote, attempts, handoff, outputs, files, memoryVars>>

WriteOutput ==
    /\ WorkerAt("write_file")
    /\ WriteFile(Job, MockOutput)
    /\ Proceed("attach")
    /\ UNCHANGED <<rowVars, memoryVars>>

AttachOutput ==
    /\ WorkerAt("attach")
    /\ AttachArtifacts(Job, {MockOutput})
    /\ Proceed("complete")
    /\ UNCHANGED <<status, remote, attempts, handoff, recorded, files, memoryVars>>

CompleteJob ==
    /\ WorkerAt("complete")
    /\ SetsStatus("complete", "idle")
    /\ UNCHANGED <<rowVars, files, memoryVars>>

-----------------------------------------------------------------------------

ManualSteps == Prepare \/ PrepareHandoff \/ AwaitResult
SubmitSteps ==
    \/ Submit \/ MarkSubmitting \/ CheckFlagBeforeSubmit
    \/ ClearFlag("submit_clear", "poll_enter")
    \/ SubmitToProvider \/ RecordRemoteId
PollingSteps ==
    \/ EnterPolling \/ PollTop \/ AskProvider \/ CountRetry \/ ProviderCancelled
DownloadSteps ==
    BeginDownload \/ RecordOutput \/ WriteOutput \/ AttachOutput \/ CompleteJob

\* What the worker does until process_one returns, but for its UPDATEs.
WorkerStep ==
    \/ Dequeue \/ ReadJob \/ CheckFlag \/ ClearFlag("clear", "idle")
    \/ ManualSteps \/ SubmitSteps \/ PollingSteps \/ DownloadSteps

==============================================================================
