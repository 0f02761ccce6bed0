--------------------------- MODULE DurableStorage ---------------------------
(***************************************************************************)
(* storage/durable_storage.py: the SQLite tables and the methods that      *)
(* write them.  Every method opens a connection of its own, so two threads *)
(* are ordered only by SQLite.  set_job_status reads the row and checks    *)
(* the transition BEFORE sqlite3 opens its write transaction at the UPDATE *)
(* (the SELECT runs in autocommit mode): it is two atomic steps, and txn   *)
(* holds what a caller carries from the first to the second.  Every other  *)
(* method writes fields that do not depend on what it read: one step.      *)
(*                                                                         *)
(* progress, last_error, timestamps and the payload are abstracted: no     *)
(* decision of the bridge reads them.                                      *)
(***************************************************************************)
EXTENDS Integers, JobStates

CONSTANTS
    Jobs,         \* ids, each proposed by the one create call that drew it
    RequestKey,   \* the (type, client_request_id) pair a job is proposed with
    Assets,       \* output files a job can have: a variant, its bytes and a suffix
    Content,      \* the variant and checksum of each: what its row is unique by
    Actors,       \* threads of control that call the storage
    NoTxn         \* no set_job_status of the caller is under way

VARIABLES
    status,       \* jobs.status, Absent before the row is inserted
    remote,       \* jobs.remote_provider_id IS NOT NULL
    attempts,     \* jobs.attempts
    handoff,      \* jobs.provider_metadata_json holds the manual handoff
    outputs,      \* the files of jobs.output_manifest_json, {} when NULL
    recorded,     \* rows of downloaded_assets: a job and a content
    txn           \* per caller: a set_job_status between its check and UPDATE

rowVars == <<status, remote, attempts, handoff, outputs, recorded>>

Absent == "absent"

StatusUpdate ==
    [job : Jobs, from : JobStatus, to : JobStatus,
     remote : BOOLEAN, retry : {0, 1}]

\* Files that differ only in their suffix have one row between them.
Contents == {Content[a] : a \in Assets}

ASSUME NoTxnAssumption == NoTxn \notin StatusUpdate

StorageTypeOK ==
    /\ status \in [Jobs -> JobStatus \cup {Absent}]
    /\ remote \in [Jobs -> BOOLEAN]
    /\ attempts \in [Jobs -> Nat]
    /\ handoff \in [Jobs -> BOOLEAN]
    /\ outputs \in [Jobs -> SUBSET Assets]
    /\ recorded \in SUBSET (Jobs \X Contents)
    /\ txn \in [Actors -> StatusUpdate \cup {NoTxn}]

StorageInit ==
    /\ status = [j \in Jobs |-> Absent]
    /\ remote = [j \in Jobs |-> FALSE]
    /\ attempts = [j \in Jobs |-> 0]
    /\ handoff = [j \in Jobs |-> FALSE]
    /\ outputs = [j \in Jobs |-> {}]
    /\ recorded = {}
    /\ txn = [p \in Actors |-> NoTxn]

Exists(j) == status[j] # Absent
Terminal(j) == status[j] \in TerminalStates

\* Mutant: the tables without UNIQUE(type, client_request_id).
ClashingWithNone(j) == {}

\* The rows that UNIQUE(type, client_request_id) makes an INSERT of j clash with.
Clashing(j) == {i \in Jobs : Exists(i) /\ RequestKey[i] = RequestKey[j]}

InsertJob(j) == status' = [status EXCEPT ![j] = "created"]

\* set_job_status up to the UPDATE: p has seen status[j] and found it legal.
Accepts(j, to) == ValidTransition(status[j], to)

OpenUpdate(p, j, to, isRemote, retry) ==
    txn' = [txn EXCEPT ![p] = [job |-> j, from |-> status[j], to |-> to,
                               remote |-> isRemote, retry |-> retry]]

\* The UPDATE (with its COALESCE on the remote id), the row of job_transitions
\* and the commit; whatever became of the row since the check is overwritten.
CommitUpdate(p) ==
    /\ txn[p] # NoTxn
    /\ LET u == txn[p] IN
         /\ status' = [status EXCEPT ![u.job] = u.to]
         /\ remote' = [remote EXCEPT ![u.job] = @ \/ u.remote]
         /\ attempts' = [attempts EXCEPT ![u.job] = @ + u.retry]
    /\ txn' = [txn EXCEPT ![p] = NoTxn]
    /\ UNCHANGED <<handoff, outputs, recorded>>

UpdateProviderMetadata(j) == handoff' = [handoff EXCEPT ![j] = TRUE]

\* attach_job_artifacts: no look at the status.
AttachArtifacts(j, files) == outputs' = [outputs EXCEPT ![j] = files]

\* record_downloaded_asset answers whether the row is new.
IsRecorded(j, a) == <<j, Content[a]>> \in recorded
RecordAsset(j, a) == recorded' = recorded \cup {<<j, Content[a]>>}

InFlightJobs == {j \in Jobs : status[j] \in InFlightStates}

==============================================================================
