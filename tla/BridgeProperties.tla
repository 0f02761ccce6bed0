-------------------------- MODULE BridgeProperties --------------------------
(***************************************************************************)
(* What is asked of the running bridge.                                    *)
(***************************************************************************)
EXTENDS BridgeApp

OnQueue(j) == \E k \in DOMAIN queue : queue[k] = j
Enqueueing(j) == pc[j] \in {"enqueue_read", "enqueue_mark", "enqueue_put"}
UpdatePending(j) == \E p \in Actors : txn[p] # NoTxn /\ txn[p].job = j

\* Nobody will do anything more about j unless a client asks for it.
Abandoned(j) ==
    /\ Exists(j) /\ ~Terminal(j)
    /\ ~OnQueue(j) /\ Job # j /\ ~UpdatePending(j)
    /\ \A c \in Calls : Running(c) => target[c] # j

\* The worker holds its own copy of attempts from here to the end of the loop.
InPollLoop == pc[Worker] \in {"poll", "ask", "retry"}
RetryPending ==
    \/ pc[Worker] = "retry"
    \/ txn[Worker] # NoTxn /\ txn[Worker].retry = 1

HandedToUser(j) == j \in Manual /\ status[j] = "awaiting_manual_provider_result"

\* Where the exception of a submit leaves a job.
StuckInSubmit(j) ==
    /\ j \in BadMetadata
    /\ status[j] = IF j \in Manual THEN "awaiting_manual_provider_submission"
                                  ELSE "submitting_remote"

-----------------------------------------------------------------------------

\* A create call and its retries, on any mix of threads and of handlers lost to
\* a restart, own one job between them and every answer shows that job
\* (create_job_idempotent, UNIQUE(type, client_request_id)).
AcceptedJobs == {j \in Jobs : Exists(j)}
CreateAnswers == [j \in Jobs |-> IF reply[j] \in Jobs THEN reply[j] ELSE NoReply]
Intake == INSTANCE IdempotentIntake WITH
    Requests <- Jobs, Key <- RequestKey, NoAnswer <- NoReply,
    accepted <- AcceptedJobs, answer <- CreateAnswers
IntakeSpec == Intake!Spec

\* A job is delivered once: it is never on the queue twice, nor on the queue
\* while the worker has it or while the call that will enqueue it still runs.
DeliveredOnce ==
    /\ \A k, l \in DOMAIN queue : queue[k] = queue[l] => k = l
    /\ \A j \in Jobs : (OnQueue(j) \/ Job = j) => ~Enqueueing(j)
    /\ ~OnQueue(Job)

\* One process submits a job once: the provider does not know it, or has forgotten it
\* in a restart.  No process submits a job whose remote id an earlier one has stored;
\* only a crash between the submit and that write makes the next one submit again
\* (_submit_remote, recover_inflight_jobs).
OneSubmitPerProcess ==
    pc[Worker] = "remote_submit" => provider[Job] = Unknown /\ ~remote[Job]

\* A complete job shows its outputs, and those of a mock job are on the disk
\* (attach_job_artifacts and store_download come before the last set_job_status).
CompleteIsBacked ==
    \A j \in Jobs : status[j] = "complete" =>
        /\ outputs[j] # {}
        /\ \A a \in outputs[j] : IsRecorded(j, a)
        /\ j \in MockJobs => outputs[j] = {MockOutput} /\ <<j, MockOutput>> \in files

\* Only a job with a remote id is ever cancelling: the branch of _submit_remote
\* that cancels such a job before its submission is never taken.
CancellingHasRemote ==
    /\ \A j \in Jobs : status[j] = "cancelling" => remote[j]
    /\ pc[Worker] \in {"submit", "submit_mark"} => status[Job] # "cancelling"

\* A write that the table forbids (the job changed between the check and the
\* UPDATE) only ever hits a job that some client has asked to cancel.
OnlyCancelsBreakTheTable ==
    [][\A j \in Jobs :
          (Exists(j) /\ ~ValidTransition(status[j], status'[j])) =>
              \E c \in Cancels : target[c] = j]_vars

\* Until a restart, a job that everybody has let go of while it is not terminal
\* is one being cancelled, a manual one that waits for its files, or one whose submit
\* raised: the other exceptions that the worker swallows, which are all refused
\* transitions, strand no job.
AbandonedForCause ==
    boots = 0 =>
        \A j \in Jobs : Abandoned(j) =>
            status[j] = "cancelling" \/ HandedToUser(j) \/ StuckInSubmit(j)

\* The worker's copy of attempts is the row's, the retry being written included,
\* whatever the cancel calls write to that row meanwhile; neither passes the limit.
RetriesCounted ==
    /\ InPollLoop => tries = attempts[Job] + (IF RetryPending THEN 1 ELSE 0)
    /\ \A j \in Jobs : attempts[j] <= MaxAttempts

\* A manual job that shows "awaiting result" has a handoff to fetch, and so do
\* those that are past it (get_job_handoff answers HANDOFF_NOT_READY otherwise).
HandoffReady ==
    \A j \in Jobs :
        status[j] \in {"awaiting_manual_provider_result", "importing_provider_result"} =>
            handoff[j]

\* From the moment a manual job shows that it waits for its files, the worker is
\* out of its way: it neither holds it nor will be given it, after restarts either.
UserHasTheJob ==
    \A j \in Manual :
        status[j] \in {"awaiting_manual_provider_result", "importing_provider_result"} =>
            Job # j /\ ~OnQueue(j)

\* Until a restart, the content of every file that a complete manual job names is on
\* the disk, even when manual-complete calls that carry the same file overlap: under
\* the name that the job shows or, if the same bytes were also uploaded with another
\* suffix, under one of those names (store_download).
ImportsAreOnDisk ==
    boots = 0 =>
        \A j \in Manual : status[j] = "complete" =>
            \A a \in outputs[j] :
                \E b \in Assets : Content[b] = Content[a] /\ <<j, b>> \in files

\* Nothing is ever automated for a manual job and no mock job waits for a user,
\* though both pass through one queue, one worker and one table.
ModesStayApart ==
    \A j \in Jobs :
        /\ j \in Manual =>
              /\ status[j] \notin {"submitting_remote", "polling_remote", "downloading"}
              /\ provider[j] = Unknown
        /\ j \in MockJobs =>
              status[j] \notin {"awaiting_manual_provider_submission",
                                "awaiting_manual_provider_result",
                                "importing_provider_result"}

-----------------------------------------------------------------------------

\* Every delivery ends: no answer of the provider, cancellation or exception
\* keeps the worker from the next job.
WorkerComesBack == []<>At(Worker, "idle")

\* Unless somebody cancels it or the process dies, every job is finished or handed to
\* the user, but for those whose submit raises: the jobs behind these are reached.
JobsFinish ==
    \A j \in Jobs :
        Exists(j) ~> \/ Terminal(j) \/ HandedToUser(j) \/ StuckInSubmit(j)
                     \/ boots > 0 \/ \E c \in Cancels : target[c] = j

\* A mock job that a restart finds not yet submitted, or submitted but not yet
\* recorded as such, is finished by the new process unless it is cancelled there; but
\* for those whose submit raises, as it then does again.
UnsubmittedIsRecovered ==
    \A j \in MockJobs \ BadMetadata :
        (boots = MaxRestarts /\ status[j] \in {"queued_local", "submitting_remote"})
            ~> (Terminal(j) \/ status[j] = "cancelling")

\* Every call is answered or lost: handlers that share the event loop, one of them
\* waiting for an upload, never hold each other up for good.
CallsReturn == \A c \in Calls : Running(c) ~> Ended(c)

-----------------------------------------------------------------------------

\* durable_storage.py:46-48 lets nothing follow a terminal status.
TerminalIsFinal ==
    [][\A j \in Jobs : Terminal(j) => status'[j] = status[j]]_status

\* test_bridge_integration.py:186: a job that was cancelled ends.
CancelledJobEnds ==
    \A j \in Jobs : status[j] = "cancelling" ~> Terminal(j)

\* test_bridge_integration.py:132: a job that a restart interrupts while the
\* provider works on it is finished after the restart.
RecoveredJobEnds ==
    \A j \in MockJobs :
        (boots = MaxRestarts /\ status[j] = "polling_remote") ~> Terminal(j)

\* docs/provider_contract.md: what a complete job names is a file.
ImportedFilesExist ==
    \A j \in Manual : status[j] = "complete" =>
        \A a \in outputs[j] : <<j, a>> \in files

==============================================================================
