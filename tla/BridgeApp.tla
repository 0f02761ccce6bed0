------------------------------ MODULE BridgeApp ------------------------------
(***************************************************************************)
(* The running bridge: the worker thread of JobOrchestrator, the calls of  *)
(* clients (JobService and the handlers of bridge/app.py), the UPDATEs of  *)
(* both, and restarts of the process.                                      *)
(*                                                                         *)
(* The handlers are coroutines of one event loop.  They block it from      *)
(* start to return, but for the await on an upload in manual-complete: of  *)
(* two handlers one runs after the other, and both race with the worker.   *)
(* Callers of the in-process BridgeAPI (bridge/api.py) run on threads of   *)
(* their own; they are the calls in Threads.                               *)
(***************************************************************************)
EXTENDS JobOrchestrator, FiniteSets

CONSTANTS
    Cancels,       \* cancel calls
    Imports,       \* manual-complete calls
    Uploads,       \* the files that each manual-complete call carries, in order
    Threads,       \* calls that do not run on the event loop
    MaxRestarts    \* bound on the restarts explored

\* A create call is named by the id that it draws for its job.
Calls == Jobs \cup Cancels \cup Imports

NoReply == "no_reply"
Lost == "lost"              \* the bridge died under the call
Refused == "refused"        \* set_job_status raised: HTTP 500

ASSUME BridgeAssumption ==
    /\ IsFiniteSet(Jobs)
    /\ Jobs \cap {NoJob, NoReply, Lost, Refused} = {}
    /\ Actors = Calls \cup {Worker}
    /\ Worker \notin Calls
    /\ Jobs \cap Cancels = {} /\ Jobs \cap Imports = {} /\ Cancels \cap Imports = {}
    /\ Uploads \in [Imports -> Seq(Assets) \ {<<>>}]
    /\ Imports \cap Threads = {}
    /\ MaxRestarts \in Nat

CallLabels ==
    {"not_started", "enqueue_read", "enqueue_mark", "enqueue_put",
     "cancel_request", "cancel_provider", "cancel_mark",
     "import_upload", "import_write", "import_attach",
     "import_complete", "return", "done"}

Ended(c) == pc[c] = "done"
Running(c) == pc[c] \notin {"not_started", "done"}

\* Mutant: the await on an upload does not give the loop up.
LoopFreeHeld(c) == c \notin Threads => \A d \in Calls \ Threads : ~Running(d)

\* The event loop takes up a coroutine when no other one holds it.
LoopFree(c) ==
    c \notin Threads =>
        \A d \in Calls \ (Threads \cup {c}) : Running(d) => At(d, "import_upload")

Starts(c) == pc[c] = "not_started" /\ LoopFree(c)

Answer(c, r) == Goto(c, "done") /\ reply' = [reply EXCEPT ![c] = r]
Continue(c, l) == Goto(c, l) /\ UNCHANGED reply

\* The same as the worker's, for a call: an exception is the answer.
CallSetsStatus(c, to, l) ==
    IF Accepts(target[c], to)
    THEN OpenUpdate(c, target[c], to, FALSE, 0) /\ Continue(c, l)
    ELSE Answer(c, Refused) /\ UNCHANGED txn

\* Clients know a job by the answer to a create call, old answers included.
Known(j) == \E c \in Jobs : reply[c] = j

-----------------------------------------------------------------------------
(* JobService._create_job and JobOrchestrator.enqueue_job *)

InsertOrFind(j) ==
    /\ Starts(j)
    /\ IF Clashing(j) = {}
       THEN InsertJob(j) /\ Continue(j, "enqueue_read")
       ELSE UNCHANGED status /\ \E i \in Clashing(j) : Answer(j, i)
    /\ target' = [target EXCEPT ![j] = j]
    /\ UNCHANGED <<remote, attempts, handoff, outputs, recorded, txn, files,
                   memoryVars, tries, sawRemote, imported, boots>>

\* Mutant: the job goes on the queue before it is marked as queued.
EnqueueReadPuts(j) ==
    /\ pc[j] = "enqueue_read"
    /\ queue' = Append(queue, j)
    /\ Continue(j, IF status[j] = "created" THEN "enqueue_mark" ELSE "return")
    /\ UNCHANGED <<storageVars, cancelled, provider, target, tries,
                   sawRemote, imported, boots>>

EnqueueRead(j) ==
    /\ pc[j] = "enqueue_read"
    /\ IF Terminal(j) THEN Continue(j, "return")
       ELSE Continue(j, IF status[j] = "created" THEN "enqueue_mark"
                                                 ELSE "enqueue_put")
    /\ UNCHANGED <<storageVars, memoryVars, target, tries, sawRemote, imported, boots>>

EnqueueMark(j) ==
    /\ pc[j] = "enqueue_mark"
    /\ CallSetsStatus(j, "queued_local", "enqueue_put")
    /\ UNCHANGED <<rowVars, files, memoryVars, target, tries, sawRemote, imported, boots>>

EnqueuePut(j) ==
    /\ At(j, "enqueue_put")
    /\ queue' = Append(queue, j)
    /\ Continue(j, "return")
    /\ UNCHANGED <<storageVars, cancelled, provider, target, tries,
                   sawRemote, imported, boots>>

Create(j) == InsertOrFind(j) \/ EnqueueRead(j) \/ EnqueueMark(j) \/ EnqueuePut(j)

-----------------------------------------------------------------------------
(* JobOrchestrator.cancel_job *)

CancelRead(c, j) ==
    /\ Starts(c)
    /\ Known(j)
    /\ IF Terminal(j) THEN Answer(c, j) ELSE Continue(c, "cancel_request")
    /\ target' = [target EXCEPT ![c] = j]
    /\ sawRemote' = [sawRemote EXCEPT ![c] = remote[j]]
    /\ UNCHANGED <<storageVars, memoryVars, tries, imported, boots>>

CancelRequest(c) ==
    /\ pc[c] = "cancel_request"
    /\ cancelled' = cancelled \cup {target[c]}
    /\ Continue(c, IF sawRemote[c] THEN "cancel_provider" ELSE "cancel_mark")
    /\ UNCHANGED <<storageVars, queue, provider, target, tries,
                   sawRemote, imported, boots>>

\* The manual adapter only answers True.
CancelAtProvider(c) ==
    /\ pc[c] = "cancel_provider"
    /\ IF target[c] \in Manual THEN UNCHANGED provider ELSE CancelRemote(target[c])
    /\ Continue(c, "cancel_mark")
    /\ UNCHANGED <<storageVars, queue, cancelled, target, tries,
                   sawRemote, imported, boots>>

\* Mutant: the answer of the provider awaited whether or not there is a remote job.
CancelMarkAlways(c) ==
    /\ pc[c] = "cancel_mark"
    /\ CallSetsStatus(c, "cancelling", "return")
    /\ UNCHANGED <<rowVars, files, memoryVars, target, tries, sawRemote, imported, boots>>

CancelMark(c) ==
    /\ pc[c] = "cancel_mark"
    /\ CallSetsStatus(c, IF sawRemote[c] THEN "cancelling" ELSE "cancelled", "return")
    /\ UNCHANGED <<rowVars, files, memoryVars, target, tries, sawRemote, imported, boots>>

Cancel(c) == CancelRequest(c) \/ CancelAtProvider(c) \/ CancelMark(c)

-----------------------------------------------------------------------------
(* post_manual_complete *)

NextUpload(c) == Uploads[c][imported[c] + 1]
\* Mutant: the manifest built without the last upload.
UploadedButLast(c) == {Uploads[c][k] : k \in 1 .. Len(Uploads[c]) - 1}

Uploaded(c) == {Uploads[c][k] : k \in 1 .. Len(Uploads[c])}

\* Only the mode and the handoff are taken from the job read first, so that read
\* and the check of set_job_status are one step.
ImportStart(c, j) ==
    /\ Starts(c)
    /\ Known(j) /\ j \in Manual
    /\ target' = [target EXCEPT ![c] = j]
    /\ IF Accepts(j, "importing_provider_result")
       THEN /\ OpenUpdate(c, j, "importing_provider_result", FALSE, 0)
            /\ Continue(c, "import_upload")
       ELSE Answer(c, Refused) /\ UNCHANGED txn
    /\ UNCHANGED <<rowVars, files, memoryVars, tries, sawRemote, imported, boots>>

\* The upload is stored: on to the next, or to the manifest after the last.
Stored(c) ==
    /\ imported' = [imported EXCEPT ![c] = @ + 1]
    /\ Continue(c, IF imported[c] + 1 = Len(Uploads[c]) THEN "import_attach"
                                                       ELSE "import_upload")

\* Mutant: the row of the upload taken for its file.
ImportRecordOnly(c) ==
    /\ At(c, "import_upload")
    /\ LoopFree(c)
    /\ RecordAsset(target[c], NextUpload(c))
    /\ Stored(c)
    /\ UNCHANGED <<status, remote, attempts, handoff, outputs, txn, files,
                   memoryVars, target, tries, sawRemote, boots>>

\* The upload awaited has been read, and the loop comes back to the coroutine.
ImportRecord(c) ==
    /\ At(c, "import_upload")
    /\ LoopFree(c)
    /\ RecordAsset(target[c], NextUpload(c))
    /\ IF IsRecorded(target[c], NextUpload(c))
       THEN Stored(c)
       ELSE Continue(c, "import_write") /\ UNCHANGED imported
    /\ UNCHANGED <<status, remote, attempts, handoff, outputs, txn, files,
                   memoryVars, target, tries, sawRemote, boots>>

ImportWrite(c) ==
    /\ pc[c] = "import_write"
    /\ WriteFile(target[c], NextUpload(c))
    /\ Stored(c)
    /\ UNCHANGED <<rowVars, txn, memoryVars, target, tries, sawRemote, boots>>

ImportAttach(c) ==
    /\ pc[c] = "import_attach"
    /\ AttachArtifacts(target[c], Uploaded(c))
    /\ Continue(c, "import_complete")
    /\ UNCHANGED <<status, remote, attempts, handoff, recorded, txn, files,
                   memoryVars, target, tries, sawRemote, imported, boots>>

ImportComplete(c) ==
    /\ pc[c] = "import_complete"
    /\ CallSetsStatus(c, "complete", "return")
    /\ UNCHANGED <<rowVars, files, memoryVars, target, tries, sawRemote, imported, boots>>

Import(c) ==
    ImportRecord(c) \/ ImportWrite(c) \/ ImportAttach(c) \/ ImportComplete(c)

-----------------------------------------------------------------------------

\* Any call that has come to its end answers with the job.
Return(c) ==
    /\ At(c, "return")
    /\ Answer(c, target[c])
    /\ UNCHANGED <<storageVars, memoryVars, target, tries, sawRemote, imported, boots>>

Commit(p) ==
    /\ CommitUpdate(p)
    /\ UNCHANGED <<files, memoryVars, controlVars, callVars, boots>>

\* Mutants: recovery of both modes; recovery of the jobs that were submitted only.
RecoveredInAnyMode == InFlightJobs
RecoveredIfSubmitted == {j \in InFlightJobs \cap MockJobs : remote[j]}

\* The jobs that start() finds and puts on the new queue, in any order.
Recovered == InFlightJobs \cap MockJobs
QueuesOf(S) ==
    {q \in [1 .. Cardinality(S) -> S] : \A j \in S : \E k \in DOMAIN q : q[k] = j}

\* Mutant: a queue that outlives the process.
QueuesAfterRestartKept == {queue \o q : q \in QueuesOf(Recovered)}

QueuesAfterRestart == QueuesOf(Recovered)
ProviderAfterRestart == NothingSubmitted

\* The process dies and comes up again.  SQLite drops an update that was not
\* committed; queue, registry and provider are gone with the memory.
Restart ==
    /\ boots < MaxRestarts
    /\ boots' = boots + 1
    /\ txn' = [p \in Actors |-> NoTxn]
    /\ queue' \in QueuesAfterRestart
    /\ cancelled' = {}
    /\ provider' = ProviderAfterRestart
    /\ pc' = [p \in Actors |-> IF p = Worker THEN "idle"
                               ELSE IF Running(p) THEN "done" ELSE pc[p]]
    /\ target' = [target EXCEPT ![Worker] = NoJob]
    /\ tries' = 0
    /\ reply' = [c \in Calls |-> IF Running(c) THEN Lost ELSE reply[c]]
    /\ UNCHANGED <<rowVars, files, sawRemote, imported>>

Init ==
    /\ StorageInit /\ FilesInit
    /\ provider = NothingSubmitted
    /\ queue = <<>>
    /\ cancelled = {}
    /\ pc = [p \in Actors |-> IF p = Worker THEN "idle" ELSE "not_started"]
    /\ target = [p \in Actors |-> NoJob]
    /\ tries = 0
    /\ sawRemote = [c \in Cancels |-> FALSE]
    /\ imported = [c \in Imports |-> 0]
    /\ reply = [c \in Calls |-> NoReply]
    /\ boots = 0

Next ==
    \/ WorkerStep
    \/ \E p \in Actors : Commit(p)
    \/ \E j \in Jobs : Create(j)
    \/ \E c \in Cancels, j \in Jobs : CancelRead(c, j)
    \/ \E c \in Cancels : Cancel(c)
    \/ \E c \in Imports, j \in Jobs : ImportStart(c, j)
    \/ \E c \in Imports : Import(c)
    \/ \E c \in Calls : Return(c)
    \/ Restart

Spec == Init /\ [][Next]_vars

\* Threads are scheduled and SQLite answers; the uploads of a manual-complete are
\* in memory or spooled before its handler runs.  Nothing obliges a client to call
\* or the process to die.
Fairness ==
    /\ WF_vars(WorkerStep)
    /\ \A p \in Actors : WF_vars(Commit(p))
    /\ \A j \in Jobs : WF_vars(Running(j) /\ Create(j))
    /\ \A c \in Cancels : WF_vars(Cancel(c))
    /\ \A c \in Imports : WF_vars(Import(c))
    /\ \A c \in Calls : WF_vars(Return(c))

FairSpec == Spec /\ Fairness

\* Besides the types: whoever is at work has a job to work on, and a call that
\* is to store an upload has one left.
BridgeTypeOK ==
    /\ StorageTypeOK /\ FilesTypeOK /\ ProviderTypeOK
    /\ queue \in Seq(Jobs)
    /\ cancelled \in SUBSET Jobs
    /\ pc \in [Actors -> WorkerLabels \cup CallLabels]
    /\ pc[Worker] \in WorkerLabels
    /\ \A c \in Calls : pc[c] \in CallLabels
    /\ target \in [Actors -> Jobs \cup {NoJob}]
    /\ pc[Worker] # "idle" => target[Worker] \in Jobs
    /\ \A c \in Calls : Running(c) => target[c] \in Jobs
    /\ tries \in Nat
    /\ sawRemote \in [Cancels -> BOOLEAN]
    /\ imported \in [Imports -> Nat]
    /\ \A c \in Imports :
          pc[c] \in {"not_started", "import_upload", "import_write"} =>
              imported[c] < Len(Uploads[c])
    /\ reply \in [Calls -> Jobs \cup {NoReply, Lost, Refused}]
    /\ boots \in Nat

==============================================================================
