# Formal verification of the Suno Studio bridge

This directory holds TLA+ models of the bridge of Suno Studio, TLC configurations that
check them, and proofs that TLAPS checks. The bridge is a local HTTP service: clients (a
JUCE plug-in, a Python client, REAPER scripts) create jobs, a worker thread runs them
against a provider, and SQLite keeps them across restarts.

Everything here is translated from the source. Where a comment or a test says one thing
and the code does another, the model follows the code, and a run shows the difference
(see *Disagreements*).

## 1. The system

| Part | Source | State it keeps | Operations |
|---|---|---|---|
| Durable storage | `storage/durable_storage.py`, `bridge/models.py` | tables `jobs`, `job_transitions`, `downloaded_assets`, `imported_assets` | create_job_idempotent, set_job_status, update_job_runtime_fields, update_job_provider_metadata, attach_job_artifacts, record_downloaded_asset, save_imported_asset, queries |
| Downloader | `bridge/downloader.py` | files on disk | store_download |
| Mock provider | `bridge/adapters/mock_suno.py` | `_states`, in memory | submit, poll, download, cancel |
| Manual provider | `bridge/adapters/manual_suno.py` | a workspace directory per job | submit, get_handoff |
| Orchestrator and worker | `bridge/services/job_service.py` | queue, cancellation registry (in memory), the thread | enqueue_job, cancel_job, recover_inflight_jobs, process_one, start, stop |
| HTTP handlers | `bridge/app.py`, `bridge/api.py` | none | create text/audio, get, cancel, handoff, manual-complete, import |
| Request signing | `bridge_security.py`, `bridge/middleware.py` | nonce cache | sign, verify, validate_protocol_headers |
| Python client | `bridge/client.py` | what it learnt in its handshake | preflight_handshake, the calls, wait_for_job |
| Secrets | `bridge_security.py` | the OS keychain; encrypted session files | get_or_create; write, read |
| Binder, bootstrap, main | `bridge_security.py`, `bridge/bootstrap.py`, `bridge/main.py` | the lockfile, a port | bind, close, initialize_runtime_bootstrap, lifespan |
| Import service | `bridge/services/import_service.py`, `transcode_service.py` | imported files and manifests | import_file |
| Python plug-in | `plugin/session_state.py`, `plugin/import_ui.py` | request ids, unresolved jobs | ensure_request_id, mark_job, reconcile_unresolved |
| JUCE plug-in | `plugin_juce/` | active job, last imported families, stored settings | connect, submit, poll, cancel, restore, import, manual complete |
| Host capability service | `src/services/HostCapabilityService.js` | overrides | resolveMode, override |

How they interact. The handlers are coroutines of one event loop and call the job
service synchronously. They share the database, the queue, the cancellation registry and
the provider object with the worker thread. `bridge/api.py` offers the same operations
to callers on other threads of the process. A restart keeps the database and the files
and loses everything else. Nothing keeps a user from running two bridges: they share the
keychain, the lockfile and the database. Clients find a bridge by the lockfile, shake
hands with it once, and sign their requests if it wants that. A plug-in keeps the ids of
its requests in a session file, so that it can repeat a call or ask for its job after a
restart.

What is hard here:

* **Check, then write.** `set_job_status` reads the row and checks the transition before
  SQLite has a transaction open; another thread can commit in between.
* **A worker that swallows exceptions.** A transition refused in the middle of
  `process_one`, or a submit that raises, ends the delivery, and nothing puts the job on
  the queue again.
* **Cancellation by three ways at once**: a flag, a call to the provider, a status.
* **Crashes** between a provider's acceptance and the write of its id, and between the
  row of a file and the file.
* **Retries of clients**, which must not make a second job.
* **An await in the middle of a handler** (manual-complete reading its uploads).
* **Copies of signed requests**, clocks that jump or are set back, and a cache of nonces
  that forgets.
* **Threads that outlive their stop**, and processes that share what they do not lock.
* **Files written in place or one by one**, with a crash between any two.

`PROJECT.json` lists each hazard with its line and the properties that cover it.

## 2. The modules

```
JobStates  <-  DurableStorage  <-  AssetDownloader  --+
                                       MockSuno     --+--  JobOrchestrator  <-  BridgeApp
                                                                                   |
                                   IdempotentIntake  <--(refined by)--  BridgeProperties
                                                                           |         |
                                                        MCBridge (TLC)  ---+         |
                                                                                     |
      BridgeTypeProofs  <-  BridgeIntakeProofs  <-  BridgeFlowProofs  <-  BridgeOwnerProofs
                                                                                  (TLAPS)
```

**JobStates** - the statuses and the table of allowed transitions.

**DurableStorage** - one row per job as functions of the job (`status`, `remote`,
`attempts`, `handoff`, `outputs`), the rows of `downloaded_assets` (`recorded`), and
`txn`, which holds for each caller a `set_job_status` that has passed its check and not
yet committed. `OpenUpdate` is the check, `CommitUpdate` the UPDATE: it writes whatever
the row has become. Every other method writes fields that do not depend on what it read
and is one step. `remote` says only whether there is a remote id (the id is computed from
the job's); `progress`, `last_error` and time stamps are left out, because no decision
reads them.

**AssetDownloader** - the files on disk; `store_download` is two steps, the row and the
file, in the order of the code. The name of a file has its suffix, the key of its row has
not: `Assets` are names (a variant, its bytes and a suffix), and `Content` gives the
variant and checksum of each, which is what `recorded` has rows of.

**MockSuno** - `_states`. `PollAnswer` is the answer of `poll_job`, `PollRemote` what the
call leaves behind; `queued` and `in_progress` are one answer, as the worker treats them
alike. `Unknown` is a missing key. `SubmitRaises` is a submit of a job whose metadata the
provider cannot read (`int()` of `mock_poll_steps`; for a manual job, `dict()` of its
metadata in `_prepare_manual`): nobody catches it but the worker's loop.

**JobOrchestrator** - the worker. `pc` names what an actor does next; a step is one access
to shared state. The three methods `_prepare_manual`, `_submit_remote` and
`_poll_and_download` are the groups `ManualSteps`, `SubmitSteps` and `PollingSteps` with
`DownloadSteps`. `SetsStatusOr` is a call of `set_job_status` together with what follows
when it raises: `idle` where the exception reaches `WorkerLoop._run`, the next label where
the code catches it (`_submit_remote`). Two accesses are joined into one step only where
no other thread can tell; the comment at the action says why.

**BridgeApp** - the calls. A create call is named by the id that it draws; `RequestKey`
gives the (type, client_request_id) under which it is made, so two ids with one key are
two tries of one request. `Create`, `Cancel` and `Import` are the handlers, step by step.
`LoopFree` is the event loop: a handler runs to its end except at the await on an upload.
Calls in `Threads` come through `bridge/api.py` and are not bound by it. `Restart` is a
crash followed by `create_app` and `start()`: open updates are lost, the queue is built
anew from the in-flight jobs of the mock provider, running calls never answer.

**IdempotentIntake** - the abstract promise of creation: one job per key, every answer
shows it. **BridgeProperties** states what is asked and the refinement mapping.

The other subsystems have modules of their own, which meet the job core only in what it
promises (IdempotentIntake):

```
RequestAuth, ProtocolVersion    <-  BridgeClient  <-  MCClient
     |                                  |
RequestAuthProofs  <-----------  BridgeClientProofs

WorkerLifecycle  <-  BridgeProcesses  <-  MCProcesses, ProcessProofs

PluginSession, ImportPipeline  <-  SubmissionPath  <-  MCSubmission, SubmissionProofs
                                        |
                                IdempotentIntake (refined)
```

**RequestAuth** - RequestSigner and NonceCache. `stamp` is the client's reading of its
clock in a request, `seen` the expiry of a nonce, `accepts` a count of what this process
let through. `clock` is `time.time()` of the bridge; `Tick` lets it jump forward by any
amount, `StepBack` puts it back by at most `SetBack` from its peak. `VerifyAnswer` has the
checks of `verify` in their order, `Pruned` is `_prune`. The HMAC and the body hash are one
flag, `intact`: whether the bridge, with its secret, computes what the headers say.

**ProtocolVersion** - `validate_protocol_headers` for versions as sequences of numbers,
with Python's order of tuples.

**BridgeClient** - clients (`client.py`) and the middleware of `app.py`. A client keeps
its handshake for ever (`handshake` names the boot it was with) while bridges are replaced
(`NextBoot`) by ones with other settings. `MiddlewareAnswer` is the middleware in its
order: version, then signature, then the handler. `HandleCopy` is a request that arrives a
second time, or damaged.

**WorkerLifecycle** - WorkerLoop and start/stop for several apps on one database. A thread
is `waiting`, at work on a job, or `ended`; `StopJoin` is the join that gives up after
2 s, so that the app forgets a thread that is still at work (`breach` notes `outlived`).
`process_one` is one step here; JobOrchestrator has its insides.

**BridgeProcesses** - `main`, the bootstrap and the lifespan, for any number of processes.
`stage` is the point a process has reached, an action per call that touches something
shared: the port, the lockfile, the keychain, the database. `breach` and `raced` record
what callers did that the code does not guard against (two apps up at once, the same app
started again, two first starts at the same time), so that the properties can say exactly
what holds without them.

**PluginSession** - `session_state.py`: `mem` and `file`. Every change is made in memory
(`Remember`) and then saved: `SaveOpens` empties the file, `SaveEnd` has written it,
`SaveFails` is an OSError before or in between, which leaves the change in memory. A new
process loads the file; of a torn one it has nothing, and goes on. `losses` counts the
starts that did not find all that was remembered, and an id carries the number of losses
before it, so that a property can speak of the calls between two losses.

**ImportPipeline** - an import, step by step: copy, analysis, normalized copy, manifest,
row. **SubmissionPath** composes the two with the call in between: requests may be lost or
arrive after their sender died, answers may be lost, both sides may die, and a submission
may be repeated at any time, whatever became of its earlier calls. A call comes with the
file (`TakeCall`) or with the id of an asset (`TakeNamed`), which the handler does not look
for. Jobs end (`JobMoves`), and where a cancel call takes part any status may follow any,
since `set_job_status` checks one and overwrites another (`TerminalIsFinal`, below).
`reconcile_unresolved` and `list_jobs_by_ids` are one step, as they read one snapshot.
Asset ids are drawn in a fixed order, since one unused id is like another. An answer stays
until some call of its request takes it, so that the plug-in may take the error of an
earlier call for that of a later one: more than HTTP allows, and all properties hold.

In these modules an operator whose comment starts with *Mutant* is a wrong version of the
definition that follows it, kept to show that a property notices the error. The
specification does not use it.

## 3. What TLC checks

Each run is a `.cfg` of the same name; the first three are for the module `MCBridge`.

| Run | Instance | Shows |
|---|---|---|
| `BridgeSafety` | three tries of one request (`j2` on a thread), of which `j1` has a retryable error that exhausts its retries, `j2` a missing asset and `j3` nothing; a manual `m1` whose submit raises, cancel `c1` on a thread, two crashes | type invariant, `DeliveredOnce`, `OneSubmitPerProcess`, `CompleteIsBacked`, `CancellingHasRemote`, `AbandonedForCause`, `RetriesCounted`, `ModesStayApart`, `OnlyCancelsBreakTheTable`, and `IntakeSpec`: the bridge implements IdempotentIntake |
| `BridgeManual` | one manual job, two manual-complete calls (`<<mix, stem>>` and `<<mp3>>`, the bytes of `mix` under another suffix), two cancels (one on a thread), two crashes, fairness | `HandoffReady`, `UserHasTheJob`, `ImportsAreOnDisk`, `CompleteIsBacked`, `OnlyCancelsBreakTheTable`, `CallsReturn` |
| `BridgeRecovery` | three jobs: `j1` has a retryable error and goes on, `j2` raises in its submit, `m1` is manual; a cancel, one crash, fairness | `JobsFinish`, `UnsubmittedIsRecovered`, `WorkerComesBack` |
| `ClientAuth` (MCClient) | two clients with one request each, versions 1.3 and 1.10, one clock a skew ahead; two bridges in turn (1.1-1.3 without HMAC, 1.3-1.10 with) | type invariant, `AcceptedOnce`, `OnlyAcceptedIsRemembered`, `FreshHandshakeHolds`, `ReplayedWasActedUpon`, `ActedOnSupported` |
| `Processes` (MCProcesses) | two processes, one maybe in dev mode, two ports, one job, two starts of each app | type invariant, `UpHasWorker`, `SingleWorker`, `OneDelivery`, `SecretsAgree`, `LastIsFound`, `StoppedWorkersEnd` |
| `Submission` (MCSubmission) | two submissions, an import beside them, two ids, four assets; two troubles out of crashes, lost answers, failed saves, repeated and refused calls, imports and cancels | type invariant, `SentIsSaved`, `ResolvedHasEnded`, `StoredIsOnDisk`, `OrphansAreExplained`, and `OneJobPerSubmission`: the path implements IdempotentIntake |

### The properties

* `DeliveredOnce` - a job is never twice on the queue, nor on it while the worker or the
  enqueuing call has it; through restarts.
* `OneSubmitPerProcess` - one process submits a job once, and none submits a job whose
  remote id is stored. A crash between the provider's acceptance and `RecordRemoteId` does
  make the next process submit again: that is the one way to a second submission, and it
  is what the code does.
* `CompleteIsBacked` - a complete job has outputs, all recorded, and those of a mock job
  are on disk.
* `CancellingHasRemote` - only jobs with a remote id are cancelling, so the branch of
  `_submit_remote` for cancelling jobs is dead code.
* `OnlyCancelsBreakTheTable` - only jobs some client asked to cancel ever make a forbidden
  transition. This bounds the damage of check-then-write. The two runs that check it have
  different actors: threads and retries there, overlapping manual-complete calls here.
* `AbandonedForCause` - before any crash, the only jobs let go of while not terminal are
  cancelling, manual and waiting for their files, or stuck where their submit raised. Of
  all exceptions that the worker swallows, only that one strands a job nobody cancels.
* `RetriesCounted` - the worker's local count and the row agree at each point of the loop.
* `HandoffReady`, `UserHasTheJob`, `ModesStayApart` - a manual job that waits has its
  handoff, is out of the worker's reach, and is never automated.
* `ImportsAreOnDisk` - without a crash, the content of each file a complete manual job
  names is on disk, with overlapping calls that carry the same bytes. (One event loop makes
  this true: row and file are written with no await between.) That it is there under the
  very name that the job shows is false: see `BridgeSuffixLost`.
* `JobsFinish`, `UnsubmittedIsRecovered` - every job ends or is handed to the user, and the
  next process finishes what was not submitted; both except the jobs whose submit raises,
  and those that somebody cancels. `WorkerComesBack`, `CallsReturn` - no delivery and no
  call goes on for ever.

Of clients and signatures:

* `AcceptedOnce` - one run of the bridge accepts a signed request once, whatever copies
  arrive and however the clock moves. The margin is explicit: 2 * skew + set-back <= TTL
  (240 s + 60 s <= 300 s).
* `OnlyAcceptedIsRemembered`, `ReplayedWasActedUpon` - a damaged copy cannot use up the
  nonce of the good request, and "replayed" means that the request was acted upon.
* `FreshHandshakeHolds` - only a restart of the bridge makes a client's handshake wrong.
* `ActedOnSupported` - handlers only see versions of the range, compared as numbers.

Of processes:

* `UpHasWorker` - an app that is up has a thread nobody told to end, also when a thread of
  an earlier start has not ended yet (it then ends, or goes on: the stop event is one per
  app and is cleared by the start).
* `SingleWorker`, `OneDelivery` - one worker per database, and each job with one worker or
  once in the queue, unless callers breach what the code takes for granted.
* `SecretsAgree` - bridges that run agree with the keychain on the secret, unless two of
  them were first at once.
* `LastIsFound` - once every bootstrap is over, the bridge that announced itself last is
  found by the lockfile while it serves. A bootstrap under way first replaces and then
  unlinks the lockfile of the bridge that runs (`BridgeBinder.close` unlinks whatever is
  there), and one that is given up at that point (`abandoned`) leaves that bridge without.
* `StoppedWorkersEnd` - a worker told to stop ends, unless its app is started again.

Of submissions:

* `OneJobPerSubmission` - at most one job per submission, and the plug-in is told that one,
  among the calls between two losses of the session. A torn file, or an id whose save failed
  before the plug-in died, is a loss: the session that follows draws a new id, and a second
  job is what then comes of a submission that is repeated.
* `SentIsSaved` - what the bridge was asked under since the last loss is in the file, unless
  the file is torn or the save of a new id failed.
* `ResolvedHasEnded` - neither memory nor file calls a job resolved that was not complete or
  failed. That it still is holds only of jobs nobody asked to cancel. (Cancelled jobs are
  never resolved, in the code and here.)
* `StoredIsOnDisk` - rows come after files, and a job names an asset that has a row, or one
  that its caller named and the bridge never had (`MissingAsset` of the job core).
* `OrphansAreExplained` - a call that is repeated under its request id imports its file
  again, before the bridge looks for the id, and no job names that asset. There are never
  more such assets than repeated calls, refused calls, faults and imports of their own.

### Bounds

Three tries are more than idempotence needs: the UNIQUE constraint compares pairs, and the
proof covers any number. They are also three fates of a mock job, one at a time: what
holds of several at once is in `BridgeRecovery`. `MaxAttempts = 1` (in `BridgeSafety`)
makes one retryable error exhaust the retries, `MaxAttempts = 2` (in `BridgeRecovery`)
lets the job go on after it: the mock provider fails a job once at most, so the default of
3 is never reached with it. `PollSteps = 1` gives one progress answer before `ready`. The
second of two crashes meets the recovery from the first, which is the one new situation
that a repeated crash brings: it leaves only the database and the files. `MaxRestarts`
bounds the exploration and appears in the guard of `Restart` only. Two imports with the
same bytes under two suffixes, and a file of its own beside them, give every overlap on a
row and a file.

`ClientAuth` scales the constants down and keeps their relation: skew 2, TTL 5, set-back 1
(2 * 2 + 1 = 5, as 2 * 120 + 60 = 300), with `MaxTime` 7 so that a nonce can expire and be
asked for again. One restart takes a client from one handshake into the next bridge's
rules. In `Processes` two processes are enough for every race (the shared things are
single cells), two starts per app for a thread that outlives a stop, and one job for a
double delivery; its lookups do not fail, those of `TwoSecrets` may.

In `Submission` two submissions may get the answers, ids and assets of each other mixed up,
and are alike (`SYMMETRY`; no liveness is checked there). Two ids let a plug-in that lost
its session draw another. `MaxTrouble = 2` is the number of things that do not go as they
should: a crash, a lost answer, a failed save, a repeated call, a refused call, an import
beside the submission, a cancel, in any pairs. What is new with more of them are
repetitions; one submission with four troubles (1.6 million states) agrees, and the proofs
cover any number. Four assets are enough for two submissions and two troubles.

The instances have 60 000 to 490 000 states in the first three runs, and 300 000 to 620 000
in the others.

`CHECK_DEADLOCK FALSE` is set in all: when every call has ended and the queue is empty the
bridge waits for clients that the instance does not have.

### Fairness

`FairSpec` adds weak fairness of the worker (a thread that polls its queue every 0.1 s),
of the commit of each open update (SQLite answers), of each handler once it runs and of
its return (the event loop). It does not make clients call, and does not make the process
crash. The uploads of a manual-complete are complete before its handler starts
(Starlette has parsed the form), so that awaiting one ends.

`BridgeProcesses!Spec` has weak fairness of each app's threads only: a thread that waits
looks at its stop event every 0.1 s, and `process_one` ends (the poll loop has a retry
limit, and `WorkerComesBack` is the check of that). No process has to start or to exit.

### Disagreements

Six runs expect a violation. Each checks what the repository says of itself.

* `BridgeTerminalRace` (`TerminalIsFinal`): the transition table has nothing after a
  terminal status, yet a cancel whose check came before the worker's COMPLETE writes
  CANCELLING over it.
* `BridgeCancelStuck` (`CancelledJobEnds`): `test_cancellation_racing_with_completion`
  asserts that a cancelled job ends. A cancel after the worker's last look at the flag
  makes `set_job_status(DOWNLOADING)` or `(COMPLETE)` raise in the worker; the job stays
  CANCELLING.
* `BridgeRestartStuck` (`RecoveredJobEnds`): `test_recovery_after_restart_midflight`
  asserts that an interrupted job completes after a restart. The mock provider's memory
  is gone, `poll_job` raises KeyError, and the job stays POLLING_REMOTE.
* `BridgeImportLost` (`ImportedFilesExist`): a crash between the row of an imported file
  and the file, then a repeated manual-complete: the job is COMPLETE and names a file that
  does not exist, against `docs/provider_contract.md:42`.
* `BridgeSuffixLost` (`ImportedFilesExist`): the same, without any crash. One
  manual-complete carries the same bytes under two suffixes; the row that decides whether
  a file is written does not have the suffix, so the second file is not written, and the
  job names it.
* `TwoSecrets` (`OneSecretPerInstall`): the docstring of SharedSecretManager promises one
  secret per install. A lookup that fails (any return code but 0) reads as "no secret",
  and the stored one is replaced.

## 4. What is proved

All theorems hold for arbitrary constants under the ASSUMEs of the modules: finitely many
jobs, the worker is no call, the kinds of calls are disjoint, a manual-complete carries at
least one file and runs on the event loop, and the sentinels are no job.

* `TypeCorrect == Spec => []BridgeTypeOK` (BridgeTypeProofs). The type invariant is
  inductive as it stands because it says two things beyond types: whoever is at work has a
  job, and a manual-complete that looks for an upload has one left. One lemma per group of
  actions; `WorkerTyped`, `ReadOnlyTyped` and `StatusWriteTyped` are the shapes of the
  worker's steps, and each action is one of them.
* `IntakeInvariant == Spec => []IntakeInv` and `IntakeRefined == Spec => IntakeSpec`
  (BridgeIntakeProofs). The refinement needs that ids never dangle: an id on the queue, in
  the worker, in an open update, in a call or in an answer is that of a row. Without it an
  UPDATE or an answer could name a job that was never accepted. `WorkerFrame` states all
  that a worker step may do to these, `CallFrame` all that a call's step may do; each
  action is shown to fit its frame, and the frames alone carry both the invariant and the
  step simulation (an INSERT is `Accept`, an answer to a create call is `Tell`, everything
  else stutters). An UPDATE cannot make a row vanish because its target status is a
  member of JobStatus.
* **The flow graph** (BridgeFlowProofs). `NextTakesEdge`: a step of the bridge is an edge
  of the worker (`WorkerEdge`: from which label to which, with or without a
  `set_job_status` under way), an edge of one call (`CallEdge`), the commit of one UPDATE
  (`CommitEdge`), a restart or a stutter. The edges say what a step does without the
  definitions of the actions, and every proof about the job core below is a case analysis
  over them; the actions are opened in one place only.
* **The job core** (BridgeFlowProofs, BridgeOwnerProofs). One invariant per concern, each
  inductive relative to those above it:

  | Invariant | Says | Carries |
  |---|---|---|
  | `PendingInv` | the UPDATE a caller waits for fits the label it waits at | all that follow |
  | `ModesInv` | worker, imports and open UPDATEs keep to the mode of their job | `ModesStayApart` |
  | `HandoffInv` | an open UPDATE to a waiting status has its handoff already | `HandoffReady` |
  | `RemoteInv` | the worker is in the submission without, in the polling with a remote id; a cancel that saw an id finds it | `CancellingHasRemote` |
  | `RetryInv` | the local count is the row's, plus the retry that is being written; below the limit before a poll | `RetriesCounted` |
  | `DeliveryInv` | a job is with the create call, on the queue or with the worker, and which of them can be when the provider knows it | `DeliveredOnce`, `OneSubmitPerProcess` |
  | `UserInv` | a manual job that waits for files, or is being imported, is out of the worker's reach | `UserHasTheJob` |
  | `LoopInv` | of two handlers of the event loop one is at its await | the next |
  | `WriterInv` | a job no cancel touches still has the status that the open UPDATE was checked against | `OnlyCancelsBreakTheTable` |
  | `BackedInv` | rows, files and outputs of each label; a row without its file is that of a job the provider has forgotten | `CompleteIsBacked` |
  | `DiskInv` | until a restart a row whose content is in no file, under any suffix, is that of a file being written | `ImportsAreOnDisk` |
  | `FlowInv` | until a restart, what a job's status says of where its owner stands | the next |
  | `OwnerInv` | until a restart every job is settled or has an owner | `AbandonedForCause` |

  None of the properties is inductive alone. `OnlyCancelsBreakTheTable` shows why: that a
  check and its UPDATE are not one transaction is harmless only if nobody else writes the
  row meanwhile. `OneWriter` proves that for a job no cancel touches: the create call
  precedes the queue, the queue the worker (`DeliveryInv`), the worker the imports
  (`UserInv`), and imports exclude each other by the event loop (`LoopInv`).
  `AbandonedForCause` needs that each exception `process_one` swallows leaves a job
  terminal, with a cancel, or where its submit raised, so `FlowInv` follows the status along
  the whole path. `OneSubmitPerProcess` has two halves: what this process submitted is in
  the provider's memory (`DeliveryInv`), and what an earlier one recorded is in the row,
  where a restart does not reach it (`RemoteInv`).

* **Signer** (RequestAuthProofs): `AtMostOnce` and `SeenWereAccepted`, from `NonceInv`.
  "Accepted at most once" is not inductive: that a nonce is missing from the cache must
  mean that its request is too old by now. `NonceOutlives` says it with the peak of the
  clock, and the assumption `WindowAssumption` (2 * Skew + SetBack <= NonceTTL) is just
  what makes it inductive.
* **Clients** (BridgeClientProofs): `ClientTypeCorrect`, `HandshakeHolds`, `ReplayedIsTrue`
  from one invariant (`ClientInvariant`). `ActedUponOnce` is the signer's theorem, carried
  over by the lemma that each step of clients and middleware is one of the signer or a
  stutter (`SignerEmbedded`, which holds by the way BridgeClient is built). `ActedOnInRange` proves `ActedOnSupported` for versions of
  two places (its hypothesis; the property compares numbers, and `_parse_version` tuples):
  `OlderByNumber` is the arithmetic, and `OwnRequests` says that a call carries a request
  of its own client, so that no other client's version counts.
* **Processes** (ProcessProofs): for any number of apps, ports, jobs and starts.
  `WorkerWhileUp` needs that an app that is not up has forgotten its thread
  (`RestedHasNoThread`), or LoopStart would take an old thread for its own.
  `LastBridgeIsFound` is from `FoundInv`: whoever announced itself last is past its
  bootstrap, only bootstraps touch the lockfile, and a port is held by one process at a
  time.
  `BridgesShareSecret` is under the hypothesis `~KeychainFails` and needs that whoever is
  to make the secret is alone (`FirstIsAlone`). `OneWorkerAtWork` needs `AloneAtWork`: without
  a breach a live thread is the one its app knows, and its app the only one up; that there
  is one worker then is a fact about the cardinality of a set with one element.
  `DeliveredToOne` adds `Once`: the queue of an app that is up has each job once, none that
  some thread works on, and none without a row, so that a create cannot add a second.
* **Submissions** (SubmissionProofs): `PathTypeCorrect`, `SavedBeforeSent`,
  `ResolvedHaveEnded`, `RowsHaveFiles`, and `SubmissionRefined`, the refinement of
  IdempotentIntake, for any submissions, faults and assets. One inductive invariant,
  `PathInv`, in five parts:

  | Part | Says |
  |---|---|
  | `PathTypeInv` | types; every loss comes after a fault of its own |
  | `SessionInv` | who calls has an id; ids are not of losses to come; the file lags behind memory by ids that are not saved |
  | `RequestInv` | what was asked since the last loss is remembered and saved, under one id for each submission; whoever is told of a job, or cancels it, means one that is there |
  | `EndedInv` | jobs that are over have ended, and `ResolvedHasEnded` |
  | `DiskInv` | how far the files of an import are at each step, and `StoredIsOnDisk` |

  `OrphansHaveReasons` is by an account: `CallsAccount` counts the assets nothing names, the
  calls on their way and the jobs against the requests sent, the repeated calls and the
  imports; `UnmetAccount` counts the requests that have no job, and that nobody waits for,
  against the faults and the refusals. `Awaited` says that whoever waits still has a call,
  an answer or a job to hope for. Each step keeps the balance: a call adds one to both
  sides, a call that is served turns into an asset or a job, and the plug-in stops waiting
  only with an answer or a fault. Adding the two gives the property.

Proved are thus all invariants and action properties of the passing runs, and the two
refinements (`IntakeSpec`, `OneJobPerSubmission`), under the hypotheses named:
`~KeychainFails` for `SecretsAgree` and two places for `ActedOnSupported`. Only
model-checked is liveness, which the prover does not handle: `JobsFinish`, `CallsReturn`,
`UnsubmittedIsRecovered`, `WorkerComesBack` and `StoppedWorkersEnd`. The six disagreements
are counterexamples, shown on their instances.

The leaves are small on purpose. Those of BridgeTypeProofs and BridgeIntakeProofs that
name `ZenonT(60)` combine a frame lemma with an opened action and take a few seconds.

## 5. What is not modelled

Formats, logging, progress and error texts. SQLite's lock timeout (30 s) and the schema
migration in `_ensure_columns`; a database or a disk that fails (the file of the plug-in's
session apart). A version that is no number. The order in which `list_in_flight_jobs` returns rows is any order. The encrypted session store
(no module of the bridge uses it, and its content is cryptography). The contents of
manifests (`schemas/manifest_schema.py`, the analysis of levels) and of the workspace of a
manual job. `wait_for_job`, which only reads. The secret store of Windows, which is two
writes (`cmdkey`, then a JSON file rewritten in place) where `StoreSecret` is one. The JUCE plug-in, BridgeDiscovery.cpp and the
host capability service have no module: what they keep is separate from the bridge, and
what they ask of it is covered by the clients modelled here, with one exception that the
mutant `SubmitAnew` shows: the JUCE plug-in draws a new request id for each call, and so
does without `OneJobPerSubmission`.

## 6. Plan

In this order:

1. Proofs about what holds after a restart: how far `OwnerInv` and `DiskInv` carry when
   `boots > 0` (both are false there as they stand: `BridgeRestartStuck` and
   `BridgeImportLost` show it), that is, for jobs that were not interrupted.
2. Safety parts of the liveness properties as theorems: no job that is not terminal is
   left without a step that can be taken next.
3. `PluginController` (JUCE controller and surface): active job, polling, import of
   families, restore after a restart; composed with IdempotentIntake.
4. `HostCapability`: the resolution of a mode as a pure function against a reference
   definition, with its overrides as state.
