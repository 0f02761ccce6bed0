------------------------------ MODULE MockSuno ------------------------------
(***************************************************************************)
(* bridge/adapters/mock_suno.py: the deterministic provider.  _states is a *)
(* dictionary in memory, so a restart of the bridge forgets every job.     *)
(***************************************************************************)
EXTENDS Integers

CONSTANTS
    RemoteJobs,   \* jobs that may be submitted: the remote id names its job
    PollSteps,    \* metadata mock_poll_steps
    FailOnce,     \* jobs with metadata mock_fail_once
    BadMetadata,  \* jobs whose metadata a submit raises on: mock_poll_steps is no number
    Unknown       \* no entry in _states

VARIABLE provider   \* _states

RemoteState == [polls : Nat, failed : BOOLEAN, cancelled : BOOLEAN]

ASSUME ProviderAssumption == PollSteps \in Nat /\ Unknown \notin RemoteState

ProviderTypeOK == provider \in [RemoteJobs -> RemoteState \cup {Unknown}]
NothingSubmitted == [j \in RemoteJobs |-> Unknown]

\* _initial_state raises before _states has an entry.
SubmitRaises(j) == j \in BadMetadata

\* submit_text_job, submit_audio_job, when they return: a second submit starts the
\* job afresh.
SubmitRemote(j) ==
    provider' = [provider EXCEPT
                    ![j] = [polls |-> 0, failed |-> FALSE, cancelled |-> FALSE]]

\* What poll_job returns, poll_count counting this call already.
FailsNow(j) == j \in FailOnce /\ ~provider[j].failed
PollAnswer(j) ==
    IF provider[j].cancelled THEN "cancelled"
    ELSE IF FailsNow(j) THEN "retryable_error"
    ELSE IF provider[j].polls = 0 \/ provider[j].polls + 1 <= PollSteps
    THEN "in_progress"
    ELSE "ready"

\* Mutant: polls counted down as if from mock_poll_steps.
PollRemoteCountsDown(j) ==
    provider' = [provider EXCEPT ![j].polls = @ - 1]

\* Mutant: a poll that is not counted.
PollRemoteUncounted(j) ==
    provider' = [provider EXCEPT ![j].failed = @ \/ FailsNow(j)]

\* What poll_job leaves behind; a cancelled job is not counted.
PollRemote(j) ==
    provider' =
        IF provider[j].cancelled THEN provider
        ELSE [provider EXCEPT
                 ![j] = [polls |-> @.polls + 1,
                         failed |-> @.failed \/ FailsNow(j),
                         cancelled |-> FALSE]]

\* cancel_remote_job: a remote id it does not know is answered with False.
CancelRemote(j) ==
    provider' = [provider EXCEPT
                    ![j] = IF @ = Unknown THEN @ ELSE [@ EXCEPT !.cancelled = TRUE]]

==============================================================================
