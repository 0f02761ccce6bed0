--------------------------- MODULE WorkerLifecycle ---------------------------
(***************************************************************************)
(* The life of the worker threads: WorkerLoop of job_service.py and        *)
(* JobOrchestrator.start, stop and recover_inflight_jobs, for several apps *)
(* on one database.  What a worker does with a job is in JobOrchestrator;  *)
(* here process_one takes its time and then leaves the job final, or       *)
(* raises and leaves it open.                                              *)
(***************************************************************************)
EXTENDS Integers, Sequences, FiniteSets

CONSTANTS
    Apps,         \* results of create_app, each with one orchestrator
    Jobs,         \* mock jobs
    MaxStarts     \* bound on the starts of one app

VARIABLES
    row,          \* per job: "none", "open" (in flight) or "final"
    queue,        \* JobQueue of each app
    stop,         \* WorkerLoop._stop_event
    thread,       \* WorkerLoop._thread: the number of a thread of the app, or 0
    doing,        \* per app and thread: what the thread is doing
    breach        \* what callers have done that the workers do not guard against

workerVars == <<row, queue, stop, thread, doing, breach>>

Threads == 1 .. MaxStarts
NoThread == 0

\* A thread waits for a job, works on one, or is not there (any more).
Alive(a, i) == doing[a][i] \notin {"unborn", "ended"}
AliveThreads == {t \in Apps \X Threads : Alive(t[1], t[2])}

WorkerTypeOK ==
    /\ row \in [Jobs -> {"none", "open", "final"}]
    /\ queue \in [Apps -> Seq(Jobs)]
    /\ stop \in [Apps -> BOOLEAN]
    /\ thread \in [Apps -> Threads \cup {NoThread}]
    /\ doing \in [Apps -> [Threads -> {"unborn", "waiting", "ended"} \cup Jobs]]
    /\ breach \subseteq {"shared", "outlived", "again"}

WorkerInit ==
    /\ row = [j \in Jobs |-> "none"]
    /\ queue = [a \in Apps |-> <<>>]
    /\ stop = [a \in Apps |-> FALSE]
    /\ thread = [a \in Apps |-> NoThread]
    /\ doing = [a \in Apps |-> [i \in Threads |-> "unborn"]]
    /\ breach = {}

\* list_in_flight_jobs, in one order of the many.
Recovered == LET Order(s) == \A k, l \in DOMAIN s : k # l => s[k] # s[l]
                 open == {j \in Jobs : row[j] = "open"}
             IN {s \in [1 .. Cardinality(open) -> open] : Order(s)}

\* WorkerLoop.start: nothing if the thread is alive, and else one more thread.
LoopStart(a) ==
    IF thread[a] # NoThread /\ Alive(a, thread[a])
    THEN UNCHANGED <<stop, thread, doing>>
    ELSE \E i \in Threads :
            /\ doing[a][i] = "unborn" /\ \A k \in 1 .. i - 1 : doing[a][k] # "unborn"
            /\ stop' = [stop EXCEPT ![a] = FALSE]
            /\ thread' = [thread EXCEPT ![a] = i]
            /\ doing' = [doing EXCEPT ![a][i] = "waiting"]

\* JobOrchestrator.start.  The thread is running already when the jobs in flight
\* are put on the queue, but finds the queue empty until then.
Start(a) ==
    /\ LoopStart(a)
    /\ \E s \in Recovered : queue' = [queue EXCEPT ![a] = @ \o s]
    /\ UNCHANGED row

\* WorkerLoop.stop, up to the join.
StopSet(a) ==
    /\ stop' = [stop EXCEPT ![a] = TRUE]
    /\ UNCHANGED <<row, queue, thread, doing, breach>>

\* Mutant: the thread is not waited for.
StopJoinAtOnce(a) ==
    /\ thread' = [thread EXCEPT ![a] = NoThread]
    /\ UNCHANGED <<row, queue, stop, doing, breach>>

\* Mutant: a thread that does not end in time is kept for the next start.
StopJoinKeeps(a) ==
    /\ IF thread[a] = NoThread \/ ~Alive(a, thread[a])
       THEN thread' = [thread EXCEPT ![a] = NoThread] /\ UNCHANGED breach
       ELSE breach' = breach \cup {"outlived"} /\ UNCHANGED thread
    /\ UNCHANGED <<row, queue, stop, doing>>

\* The join, over after 2 s at the latest; the thread is forgotten in any case.
StopJoin(a) ==
    /\ thread' = [thread EXCEPT ![a] = NoThread]
    /\ breach' = IF thread[a] # NoThread /\ Alive(a, thread[a])
                THEN breach \cup {"outlived"} ELSE breach
    /\ UNCHANGED <<row, queue, stop, doing>>

\* Mutant: the loop does not look at the stop event.
LoopForever(a, i) ==
    /\ doing[a][i] = "waiting" /\ queue[a] # <<>>
    /\ queue' = [queue EXCEPT ![a] = Tail(@)]
    /\ doing' = [doing EXCEPT ![a][i] = IF row[Head(queue[a])] = "open"
                                       THEN Head(queue[a]) ELSE "waiting"]
    /\ UNCHANGED <<row, stop, thread, breach>>

\* Mutant: the None of an empty queue is taken for a job.
LoopTakesNone(a, i) ==
    /\ doing[a][i] = "waiting" /\ ~stop[a]
    /\ queue' = [queue EXCEPT ![a] = IF @ = <<>> THEN @ ELSE Tail(@)]
    /\ doing' = [doing EXCEPT ![a][i] = IF queue[a] = <<>> THEN "None" ELSE Head(queue[a])]
    /\ UNCHANGED <<row, stop, thread, breach>>

\* Mutant: a job stays on the queue while it is worked on.
LoopPeeks(a, i) ==
    /\ doing[a][i] = "waiting"
    /\ IF stop[a]
       THEN doing' = [doing EXCEPT ![a][i] = "ended"] /\ UNCHANGED queue
       ELSE /\ queue[a] # <<>>
            /\ queue' = [queue EXCEPT ![a] = IF row[Head(@)] = "open" THEN @ ELSE Tail(@)]
            /\ doing' = [doing EXCEPT ![a][i] = IF row[Head(queue[a])] = "open"
                                               THEN Head(queue[a]) ELSE "waiting"]
    /\ UNCHANGED <<row, stop, thread, breach>>

\* WorkerLoop._run: the stop event, then the queue.  A final job is left at once.
Loop(a, i) ==
    /\ doing[a][i] = "waiting"
    /\ IF stop[a]
       THEN doing' = [doing EXCEPT ![a][i] = "ended"] /\ UNCHANGED queue
       ELSE /\ queue[a] # <<>>
            /\ queue' = [queue EXCEPT ![a] = Tail(@)]
            /\ doing' = [doing EXCEPT ![a][i] = IF row[Head(queue[a])] = "open"
                                               THEN Head(queue[a]) ELSE "waiting"]
    /\ UNCHANGED <<row, stop, thread, breach>>

\* process_one ends.
EndJob(a, i) ==
    /\ doing[a][i] \in Jobs
    /\ doing' = [doing EXCEPT ![a][i] = "waiting"]
    /\ row' = row \/ row' = [row EXCEPT ![doing[a][i]] = "final"]
    /\ UNCHANGED <<queue, stop, thread, breach>>

\* A create call: the row and its place on the queue.
CreateJob(a, j) ==
    /\ row[j] = "none"
    /\ row' = [row EXCEPT ![j] = "open"]
    /\ queue' = [queue EXCEPT ![a] = Append(@, j)]
    /\ UNCHANGED <<stop, thread, doing, breach>>

\* The process of the app is gone, and with it all but the database.
Vanish(a) ==
    /\ queue' = [queue EXCEPT ![a] = <<>>]
    /\ stop' = [stop EXCEPT ![a] = FALSE]
    /\ thread' = [thread EXCEPT ![a] = NoThread]
    /\ doing' = [doing EXCEPT ![a] = [i \in Threads |-> "unborn"]]
    /\ UNCHANGED <<row, breach>>

WorkerStep(a) == \E i \in Threads : Loop(a, i) \/ EndJob(a, i)

==============================================================================
