-------------------------- MODULE BridgeOwnerProofs --------------------------
(***************************************************************************)
(* Who has a job, and what it leaves behind: deliveries of the queue, the  *)
(* user of a manual job, the writers of a row, the rows and files that a   *)
(* complete job is backed by, and that no job is let go of before it is    *)
(* settled.  Each part is an invariant of its own, proved edge by edge of  *)
(* the graph of BridgeFlowProofs from the parts before it.                 *)
(***************************************************************************)
EXTENDS BridgeFlowProofs

-----------------------------------------------------------------------------
(* One delivery of a job at a time, and one submission *)

LEMMA HeadAndTail ==
    ASSUME NEW S, NEW q \in Seq(S), q # <<>>
    PROVE  /\ 1 \in DOMAIN q /\ Head(q) = q[1] /\ Head(q) \in S
           /\ \A k \in DOMAIN Tail(q) : k + 1 \in DOMAIN q /\ Tail(q)[k] = q[k + 1]
           /\ \A k \in DOMAIN Tail(q) : k + 1 # 1
           /\ \A k \in DOMAIN q : k = 1 \/ \E l \in DOMAIN Tail(q) : Tail(q)[l] = q[k]
           /\ \A k, l \in DOMAIN Tail(q) : k + 1 = l + 1 => k = l
<1>1. /\ DOMAIN q = 1 .. Len(q) /\ Len(q) \in Nat /\ Len(q) # 0
      /\ Tail(q) \in Seq(S) /\ Len(Tail(q)) = Len(q) - 1
      /\ DOMAIN Tail(q) = 1 .. Len(Tail(q))
      /\ \A k \in 1 .. Len(q) - 1 : Tail(q)[k] = q[k + 1]
  OBVIOUS
<1>2. \A k \in DOMAIN q : k = 1 \/ (k - 1 \in DOMAIN Tail(q) /\ Tail(q)[k - 1] = q[k])
  BY <1>1
<1>3. 1 \in DOMAIN q /\ Head(q) = q[1] /\ Head(q) \in S
  BY <1>1
<1>4. \A k \in DOMAIN Tail(q) :
         k \in Nat /\ k + 1 # 1 /\ k + 1 \in DOMAIN q /\ Tail(q)[k] = q[k + 1]
  BY <1>1
<1>5. \A k, l \in DOMAIN Tail(q) : k + 1 = l + 1 => k = l
  BY <1>4
<1> QED
  BY <1>2, <1>3, <1>4, <1>5

LEMMA AppendedLast ==
    ASSUME NEW S, NEW q \in Seq(S), NEW x
    PROVE  /\ \A k \in DOMAIN Append(q, x) :
                 \/ k \in DOMAIN q /\ Append(q, x)[k] = q[k]
                 \/ k = Len(q) + 1 /\ Append(q, x)[k] = x
           /\ \A k \in DOMAIN q : k \in DOMAIN Append(q, x) /\ Append(q, x)[k] = q[k]
           /\ Len(q) + 1 \in DOMAIN Append(q, x) /\ Append(q, x)[Len(q) + 1] = x
OBVIOUS

\* The labels at which the provider can know the job that the worker holds.
KnownLabels == {"clear", "record_remote", "poll_enter"} \cup PollLabels

DeliveryInv ==
    /\ \A k, l \in DOMAIN queue : queue[k] = queue[l] => k = l
    /\ \A j \in Jobs :
          (\/ OnQueue(j) \/ Job = j \/ provider[j] # Unknown
           \/ txn[Worker] # NoTxn /\ txn[Worker].job = j) => Exists(j) /\ ~Enqueueing(j)
    /\ \A j \in Jobs :
          (\/ Job = j \/ provider[j] # Unknown
           \/ txn[Worker] # NoTxn /\ txn[Worker].job = j) => ~OnQueue(j)
    /\ \A j \in Jobs : provider[j] # Unknown /\ Job = j => pc[Worker] \in KnownLabels
    /\ pc[Worker] \in {"record_remote"} \cup AnsweredLabels => provider[Job] # Unknown

LEMMA WorkerKeepsDelivery ==
    ASSUME BridgeTypeOK, PendingInv, DeliveryInv, WorkerEdge
    PROVE  DeliveryInv'
<1>0. /\ status' = status /\ \A j \in Jobs : pc'[j] = pc[j]
      /\ txn[Worker] = NoTxn /\ NoJob \notin Jobs /\ queue \in Seq(Jobs)
      /\ pc[Worker] # "idle" => Job \in Jobs
      /\ pc[Worker] = "idle" => Job = NoJob
  BY BridgeAssumption, ActorFacts
     DEF WorkerEdge, WorkerEffects, CallsKept, BridgeTypeOK, Job, PendingInv
<1>1. CASE TakesJob
  <2>1. /\ queue # <<>> /\ queue' = Tail(queue) /\ target'[Worker] = Head(queue)
        /\ pc'[Worker] = "start" /\ txn'[Worker] = NoTxn
    BY <1>1 DEF TakesJob, Moves
  <2>2. \A j \in Jobs : provider'[j] = Unknown <=> provider[j] = Unknown
    BY <1>1 DEF WorkerEdge, WorkerEffects, TakesJob
  <2>3. \A k, l \in DOMAIN queue' : queue'[k] = queue'[l] => k = l
    <3> SUFFICES ASSUME NEW k \in DOMAIN Tail(queue), NEW l \in DOMAIN Tail(queue),
                        Tail(queue)[k] = Tail(queue)[l]
                 PROVE  k = l
      BY <2>1
    <3>1. /\ k + 1 \in DOMAIN queue /\ Tail(queue)[k] = queue[k + 1]
          /\ l + 1 \in DOMAIN queue /\ Tail(queue)[l] = queue[l + 1]
          /\ k + 1 = l + 1 => k = l
      BY <1>0, <2>1, HeadAndTail
    <3> QED
      BY <3>1 DEF DeliveryInv
  <2>4. Head(queue) \in Jobs /\ OnQueue(Head(queue))
    BY <1>0, <2>1, HeadAndTail DEF OnQueue
  <2>5. \A j \in Jobs : OnQueue(j)' => OnQueue(j) /\ j # Head(queue)
    <3> SUFFICES ASSUME NEW k \in DOMAIN Tail(queue)
                 PROVE  OnQueue(Tail(queue)[k]) /\ Tail(queue)[k] # Head(queue)
      BY <2>1 DEF OnQueue
    <3>1. /\ k + 1 \in DOMAIN queue /\ Tail(queue)[k] = queue[k + 1] /\ k + 1 # 1
          /\ 1 \in DOMAIN queue /\ Head(queue) = queue[1]
      BY <1>0, <2>1, HeadAndTail
    <3>2. queue[k + 1] # queue[1]
      BY <3>1 DEF DeliveryInv
    <3> QED
      BY <3>1, <3>2 DEF OnQueue
  <2>6. \A j \in Jobs : (Enqueueing(j)' <=> Enqueueing(j)) /\ (Exists(j)' <=> Exists(j))
    BY <1>0 DEF Enqueueing, Exists
  <2> QED
    BY <2>1, <2>2, <2>3, <2>4, <2>5, <2>6
       DEF DeliveryInv, AnsweredLabels, Job
<1>2. CASE ~TakesJob
  <2>1. /\ queue' = queue /\ JobKept /\ pc[Worker] # "idle"
        /\ DeliveryEdge \/ ManualEdge \/ SubmitEdge \/ PollEdge \/ DownloadEdge
    BY <1>2 DEF WorkerEdge, JobKept
  <2>2. txn'[Worker] = NoTxn \/ txn'[Worker].job = Job
    BY <2>1 DEF DeliveryEdge, ManualEdge, SubmitEdge, PollEdge, DownloadEdge, Writes, Opens,
                Refuses, Moves
  <2>3. \A j \in Jobs :
           \/ provider'[j] = Unknown <=> provider[j] = Unknown
           \/ j = Job /\ pc'[Worker] = "record_remote"
    BY <2>1 DEF WorkerEdge, WorkerEffects
  <2>4. pc[Worker] \in KnownLabels => pc'[Worker] \in KnownLabels \cup {"idle"}
    BY <2>1 DEF DeliveryEdge, ManualEdge, SubmitEdge, PollEdge, DownloadEdge, Writes, Opens,
                Refuses, Moves, KnownLabels, PollLabels, AnsweredLabels
  <2>5. pc'[Worker] \in {"record_remote"} \cup AnsweredLabels => provider'[Job] # Unknown
    <3> USE DEF Writes, Opens, Refuses, Moves, AnsweredLabels
    <3>0. provider[Job] # Unknown => provider'[Job] # Unknown \/ pc'[Worker] = "record_remote"
      BY <1>0, <2>1, <2>3
    <3>1. CASE DeliveryEdge \/ ManualEdge
      BY <3>1 DEF DeliveryEdge, ManualEdge
    <3>2. CASE SubmitEdge
      BY <3>2 DEF SubmitEdge
    <3>3. CASE PollEdge
      BY <3>0, <3>3 DEF PollEdge
    <3>4. CASE DownloadEdge
      BY <3>0, <3>4 DEF DownloadEdge, DeliveryInv
    <3> QED
      BY <2>1, <3>1, <3>2, <3>3, <3>4
  <2>6. target'[Worker] = Job \/ (target'[Worker] = NoJob /\ pc'[Worker] = "idle")
    BY <2>1 DEF JobKept
  <2>7. \A j \in Jobs : /\ Enqueueing(j)' <=> Enqueueing(j)
                        /\ Exists(j)' <=> Exists(j)
                        /\ OnQueue(j)' <=> OnQueue(j)
    BY <1>0, <2>1 DEF Enqueueing, Exists, OnQueue
  <2>8. "record_remote" \in KnownLabels /\ "idle" \notin {"record_remote"} \cup AnsweredLabels
    BY DEF KnownLabels, AnsweredLabels
  <2>9. pc'[Worker] \in {"record_remote"} \cup AnsweredLabels =>
            provider'[target'[Worker]] # Unknown
    BY <2>5, <2>6, <2>8
  <2> HIDE DEF KnownLabels, AnsweredLabels
  <2>10. \A j \in Jobs : provider'[j] # Unknown /\ target'[Worker] = j
                             => pc'[Worker] \in KnownLabels
    <3> SUFFICES ASSUME provider'[Job] # Unknown, target'[Worker] = Job
                 PROVE  pc'[Worker] \in KnownLabels
      BY <1>0, <2>6
    <3>1. CASE provider[Job] = Unknown
      BY <1>0, <2>1, <2>3, <2>8, <3>1
    <3>2. CASE provider[Job] # Unknown
      <4>1. pc'[Worker] # "idle"
        BY <1>0, <2>1 DEF JobKept
      <4> QED
        BY <1>0, <2>1, <2>4, <3>2, <4>1 DEF DeliveryInv
    <3> QED
      BY <3>1, <3>2
  <2> QED
    BY <1>0, <2>1, <2>2, <2>3, <2>6, <2>7, <2>9, <2>10 DEF DeliveryInv, Job
<1> QED
  BY <1>1, <1>2

LEMMA CreateKeepsDelivery ==
    ASSUME BridgeTypeOK, IntakeInv, PendingInv, DeliveryInv, NEW c \in Calls, CallEdge(c)
    PROVE  DeliveryInv'
<1>0. /\ UNCHANGED <<pc[Worker], target[Worker], txn[Worker]>>
      /\ SameKnowledge /\ queue \in Seq(Jobs)
      /\ \A j \in Jobs : Exists(j) => Exists(j)'
      /\ \A j \in Jobs \ {c} : pc'[j] = pc[j]
  BY SMTT(30), CallEdgeEffects, ActorFacts
     DEF CallEffects, BridgeTypeOK, StorageTypeOK, Exists, Absent
<1>1. \A j \in Jobs : Enqueueing(j)' =>
          \/ Enqueueing(j)
          \/ j = c /\ ~Exists(j) /\ queue' = queue
  <2>1. ASSUME c \in Jobs
        PROVE  Enqueueing(c)' => Enqueueing(c) \/ (~Exists(c) /\ queue' = queue)
    BY <2>1, BridgeAssumption
       DEF CallEdge, CreateEdge, ReturnEdge, CallMoves, CallOpens, CallRefuses, Enqueueing
  <2> QED
    BY <1>0, <2>1 DEF Enqueueing
<1>3. CASE queue' = queue
  <2>1. \A j \in Jobs : OnQueue(j)' <=> OnQueue(j)
    BY <1>3 DEF OnQueue
  <2>2. \A j \in Jobs : OnQueue(j) => Exists(j)
    BY DEF IntakeInv, OnQueue
  <2> QED
    BY <1>0, <1>1, <1>3, <2>1, <2>2
       DEF DeliveryInv, SameKnowledge, BridgeTypeOK, Job, AnsweredLabels
<1>4. CASE queue' # queue
  <2>1. /\ c \in Jobs /\ At(c, "enqueue_put") /\ pc'[c] = "return"
        /\ queue' = Append(queue, c)
    BY <1>4, CallEdgeEffects
  <2>2. Enqueueing(c) /\ ~Enqueueing(c)'
    BY <2>1 DEF Enqueueing, At
  <2>3. ~OnQueue(c) /\ Job # c /\ provider[c] = Unknown /\ Exists(c)
        /\ ~(txn[Worker] # NoTxn /\ txn[Worker].job = c)
    BY <2>1, <2>2 DEF DeliveryInv, IntakeInv, Running, At
  <2>4. \A j \in Jobs : OnQueue(j)' => OnQueue(j) \/ j = c
    BY <1>0, <2>1, AppendedLast DEF OnQueue
  <2>5. \A k, l \in DOMAIN queue' : queue'[k] = queue'[l] => k = l
    BY <1>0, <2>1, <2>3, AppendedLast DEF OnQueue, DeliveryInv
  <2> QED
    BY <1>0, <1>1, <1>4, <2>1, <2>2, <2>3, <2>4, <2>5
       DEF DeliveryInv, SameKnowledge, BridgeTypeOK, Job, AnsweredLabels
<1> QED
  BY <1>3, <1>4

LEMMA NextDelivery ==
    ASSUME BridgeTypeOK, IntakeInv, IntakeInv', PendingInv, DeliveryInv, [Next]_vars
    PROVE  DeliveryInv'
<1>1. ASSUME NEW p \in Actors, CommitEdge(p)
      PROVE  DeliveryInv'
  <2>1. /\ UNCHANGED <<queue, provider, pc, target>>
        /\ txn'[Worker] = NoTxn \/ txn'[Worker] = txn[Worker]
    BY <1>1, ActorFacts DEF CommitEdge
  <2>2. \A j \in Jobs : Exists(j) => Exists(j)'
    BY <1>1 DEF CommitEdge, BridgeTypeOK, StorageTypeOK, StatusUpdate, JobStatus, Exists,
                Absent
  <2> QED
    BY <2>1, <2>2 DEF DeliveryInv, OnQueue, Enqueueing, Job
<1>2. CASE RestartEdge
  <2>1. \A j \in Jobs : ~Enqueueing(j)'
    BY <1>2, ActorFacts DEF RestartEdge, Enqueueing, Running
  <2>2. \A j \in Jobs : OnQueue(j)' => Exists(j)'
    BY DEF IntakeInv, OnQueue
  <2> QED
    BY <1>2, <2>1, <2>2, BridgeAssumption, ActorFacts
       DEF RestartEdge, DeliveryInv, Job, AnsweredLabels
<1>3. CASE UNCHANGED vars
  BY <1>3 DEF vars, storageVars, rowVars, memoryVars, controlVars, DeliveryInv, OnQueue,
              Enqueueing, Exists, Job
<1> QED
  BY <1>1, <1>2, <1>3, StepTakesEdge, WorkerKeepsDelivery, CreateKeepsDelivery

LEMMA InitDelivery == Init => DeliveryInv
<1> SUFFICES ASSUME Init PROVE DeliveryInv
  OBVIOUS
<1>1. /\ queue = <<>> /\ pc[Worker] = "idle" /\ Job = NoJob /\ txn[Worker] = NoTxn
      /\ \A j \in Jobs : provider[j] = Unknown
  BY ActorFacts, OrchestratorAssumption DEF Init, StorageInit, NothingSubmitted, Job
<1> QED
  BY <1>1, BridgeAssumption DEF DeliveryInv, OnQueue, AnsweredLabels

\* DeliveryInv holds throughout: who may have a job at all.
THEOREM DeliveryInvariant == Spec => []DeliveryInv
<1>1. /\ BridgeTypeOK /\ IntakeInv /\ IntakeInv' /\ PendingInv /\ DeliveryInv
      /\ [Next]_vars
      => DeliveryInv'
  BY NextDelivery
<1> QED
  BY <1>1, InitDelivery, TypeCorrect, IntakeInvariant, PendingInvariant, PTL DEF Spec

\* A job is delivered once: never on the queue twice, nor on the queue while the worker
\* has it or while the call that will enqueue it still runs.
THEOREM DeliveredOnceAlways == Spec => []DeliveredOnce
<1>1. BridgeTypeOK /\ PendingInv /\ DeliveryInv => DeliveredOnce
  <2> SUFFICES ASSUME BridgeTypeOK, PendingInv, DeliveryInv
               PROVE  DeliveredOnce
    OBVIOUS
  <2>1. ~OnQueue(Job)
    <3>1. CASE Job \in Jobs
      BY <3>1 DEF DeliveryInv
    <3>2. CASE Job \notin Jobs
      BY <3>2 DEF OnQueue, BridgeTypeOK
    <3> QED
      BY <3>1, <3>2
  <2> QED
    BY <2>1 DEF DeliveryInv, DeliveredOnce
<1> QED
  BY <1>1, TypeCorrect, PendingInvariant, DeliveryInvariant, PTL

\* One process submits a job once, and never one whose remote id is stored: only a
\* crash between a submit and the write of the remote id makes the next process submit
\* the job again.
THEOREM OneSubmitPerProcessAlways == Spec => []OneSubmitPerProcess
<1>1. BridgeTypeOK /\ RemoteInv /\ DeliveryInv => OneSubmitPerProcess
  BY DEF BridgeTypeOK, Job, RemoteInv, SubmitLabels, DeliveryInv, OneSubmitPerProcess,
         KnownLabels, PollLabels, AnsweredLabels
<1> QED
  BY <1>1, TypeCorrect, RemoteInvariant, DeliveryInvariant, PTL

-----------------------------------------------------------------------------
(* The worker leaves a manual job to the user *)

\* The worker is done with j: it neither has it nor will be given it, and has no
\* UPDATE of it under way.
Retired(j) ==
    /\ ~OnQueue(j) /\ ~Enqueueing(j) /\ Job # j
    /\ txn[Worker] # NoTxn => txn[Worker].job # j

UserInv ==
    /\ \A j \in Jobs : status[j] \in AwaitsFiles => Retired(j)
    /\ \A c \in Imports, j \in Jobs : Running(c) /\ target[c] = j => Retired(j)

\* A create call takes up the job only before its row is there.
LEMMA EnqueueingStarts ==
    ASSUME BridgeTypeOK, NEW c \in Calls, CallEdge(c), NEW j \in Jobs, Enqueueing(j)'
    PROVE  Enqueueing(j) \/ ~Exists(j)
<1>1. j # c => pc'[j] = pc[j]
  BY CallEdgeEffects, ActorFacts
<1>2. CASE j = c
  BY <1>2, BridgeAssumption
     DEF CallEdge, CreateEdge, ReturnEdge, CallMoves, CallOpens, CallRefuses, Enqueueing
<1> QED
  BY <1>1, <1>2 DEF Enqueueing

LEMMA CallLeavesRetired ==
    ASSUME BridgeTypeOK, NEW c \in Calls, CallEdge(c), NEW j \in Jobs, Retired(j), Exists(j)
    PROVE  Retired(j)'
<1>1. ~Enqueueing(j)'
  BY EnqueueingStarts DEF Retired
<1>2. UNCHANGED <<target[Worker], txn[Worker]>>
  BY CallEdgeEffects
<1>3. ~OnQueue(j)'
  <2>1. CASE queue' = queue
    BY <2>1 DEF Retired, OnQueue
  <2>2. CASE queue' # queue
    <3>1. c \in Jobs /\ Enqueueing(c) /\ queue' = Append(queue, c) /\ queue \in Seq(Jobs)
      BY <2>2, CallEdgeEffects DEF Enqueueing, At, BridgeTypeOK
    <3> QED
      BY <3>1, AppendedLast DEF Retired, OnQueue
  <2> QED
    BY <2>1, <2>2
<1> QED
  BY <1>1, <1>2, <1>3 DEF Retired, Job

LEMMA WorkerLeavesRetired ==
    ASSUME BridgeTypeOK, WorkerEdge, NEW j \in Jobs, Retired(j)
    PROVE  Retired(j)'
<1>1. pc'[j] = pc[j] /\ NoJob \notin Jobs /\ queue \in Seq(Jobs)
  BY ActorFacts, BridgeAssumption DEF WorkerEdge, CallsKept, BridgeTypeOK
<1>2. CASE TakesJob
  <2>1. /\ queue # <<>> /\ queue' = Tail(queue) /\ target'[Worker] = Head(queue)
        /\ txn'[Worker] = NoTxn
    BY <1>2 DEF TakesJob, Moves
  <2>2. Head(queue) # j /\ ~OnQueue(j)'
    BY <1>1, <2>1, HeadAndTail DEF Retired, OnQueue
  <2> QED
    BY <1>1, <2>1, <2>2 DEF Retired, Enqueueing, Job
<1>3. CASE ~TakesJob
  <2>1. /\ queue' = queue /\ JobKept
        /\ DeliveryEdge \/ ManualEdge \/ SubmitEdge \/ PollEdge \/ DownloadEdge
    BY <1>3 DEF WorkerEdge
  <2>2. txn'[Worker] = NoTxn \/ txn'[Worker].job = Job
    BY <2>1 DEF DeliveryEdge, ManualEdge, SubmitEdge, PollEdge, DownloadEdge, Writes, Opens,
                Refuses, Moves
  <2> QED
    BY <1>1, <2>1, <2>2 DEF Retired, Enqueueing, OnQueue, Job, JobKept
<1> QED
  BY <1>2, <1>3

LEMMA CommitKeepsUser ==
    ASSUME BridgeTypeOK, PendingInv, DeliveryInv, UserInv, NEW p \in Actors, CommitEdge(p)
    PROVE  UserInv'
<1>1. /\ UNCHANGED <<queue, pc, target>>
      /\ txn'[Worker] = NoTxn \/ txn'[Worker] = txn[Worker]
      /\ txn[p] # NoTxn /\ txn[p].job \in Jobs /\ txn'[p] = NoTxn
  BY ActorFacts DEF CommitEdge, BridgeTypeOK, StorageTypeOK, StatusUpdate
<1>2. \A j : Retired(j) => Retired(j)'
  BY <1>1 DEF Retired, OnQueue, Enqueueing, Job
<1>3. ASSUME txn[p].to \in AwaitsFiles, NEW j \in Jobs, j = txn[p].job
      PROVE  Retired(j)'
  <2>1. CASE p = Worker
    <3>1. pc[Worker] = "idle" /\ Job = NoJob
      BY <1>1, <1>3, <2>1 DEF PendingInv, WorkerUpdate, UpdatesAt, AwaitsFiles
    <3>2. ~OnQueue(j) /\ ~Enqueueing(j)
      BY <1>1, <1>3, <2>1 DEF DeliveryInv
    <3> QED
      BY <1>1, <2>1, <3>1, <3>2, BridgeAssumption DEF Retired, OnQueue, Enqueueing, Job
  <2>2. CASE p # Worker
    <3>1. p \in Imports /\ j = target[p] /\ Running(p)
      BY <1>1, <1>3, <2>2, ActorFacts, BridgeAssumption
         DEF PendingInv, CallUpdate, AwaitsFiles, Running, Calls
    <3> QED
      BY <1>2, <3>1 DEF UserInv
  <2> QED
    BY <2>1, <2>2
<1>4. \A j \in Jobs : status'[j] = status[j] \/ (j = txn[p].job /\ status'[j] = txn[p].to)
  BY DEF CommitEdge
<1>5. \A c \in Imports : (Running(c)' <=> Running(c)) /\ target'[c] = target[c]
  BY <1>1 DEF Running
<1> QED
  BY <1>2, <1>3, <1>4, <1>5 DEF UserInv

LEMMA NextUser ==
    ASSUME BridgeTypeOK, IntakeInv, PendingInv, ModesInv', DeliveryInv, UserInv,
           [Next]_vars
    PROVE  UserInv'
<1>1. ASSUME WorkerEdge
      PROVE  UserInv'
  <2>1. status' = status
    BY <1>1 DEF WorkerEdge, WorkerEffects
  <2>2. \A c \in Imports : (Running(c)' <=> Running(c)) /\ target'[c] = target[c]
    BY <1>1, ActorFacts DEF WorkerEdge, CallsKept, Running
  <2> QED
    BY <1>1, <2>1, <2>2, WorkerLeavesRetired DEF UserInv
<1>2. ASSUME NEW c \in Calls, CallEdge(c)
      PROVE  UserInv'
  <2>1. \A j \in Jobs : status'[j] = status[j] \/ status'[j] = "created"
    BY <1>2, CallEdgeEffects DEF BridgeTypeOK, StorageTypeOK
  <2>2. \A j \in Jobs : status[j] \in AwaitsFiles => Exists(j)
    BY DEF AwaitsFiles, Exists, Absent
  <2>3. \A j \in Jobs : status'[j] \in AwaitsFiles => Retired(j)'
    BY <1>2, <2>1, <2>2, CallLeavesRetired DEF UserInv, AwaitsFiles
  <2>4. ASSUME NEW d \in Imports, NEW j \in Jobs, Running(d)', target'[d] = j
        PROVE  Retired(j)'
    <3>1. CASE Running(d) /\ target[d] = j
      BY <1>2, <3>1, CallLeavesRetired DEF UserInv, IntakeInv, Calls
    <3>2. CASE ~(Running(d) /\ target[d] = j)
      <4>1. d = c
        BY <1>2, <2>4, <3>2, CallEdgeEffects, ActorFacts DEF Running
      <4>2. CallEffects(c) /\ (ImportEdge(c) \/ ReturnEdge(c))
        BY <1>2, <4>1, CallEdgeEffects, BridgeAssumption DEF CallEdge
      <4>3. /\ pc[c] = "not_started"
            /\ CallOpens(c, "importing_provider_result", "import_upload")
        BY <2>4, <3>2, <4>1, <4>2
           DEF ImportEdge, ReturnEdge, CallEffects, CallRefuses, CallMoves, Running, Ended, At
      <4>4. status[j] \in AwaitsFiles
        BY <2>4, <4>1, <4>3
           DEF CallOpens, Accepts, ValidTransition, AllowedTransitions, AwaitsFiles
      <4> QED
        BY <1>2, <2>2, <4>4, CallLeavesRetired DEF UserInv
    <3> QED
      BY <3>1, <3>2
  <2> QED
    BY <2>3, <2>4 DEF UserInv
<1>3. CASE RestartEdge
  <2>1. \A c \in Imports : ~Running(c)'
    BY <1>3, ActorFacts DEF RestartEdge, Running
  <2>2. \A j \in Jobs : ~Enqueueing(j)'
    BY <1>3, ActorFacts DEF RestartEdge, Enqueueing, Running
  <2>3. ASSUME NEW j \in Manual
        PROVE  Retired(j)'
    BY <1>3, <2>2, OrchestratorAssumption, BridgeAssumption, ActorFacts
       DEF RestartEdge, Retired, OnQueue, Job, MockJobs
  <2>4. \A j \in Jobs : status'[j] \in AwaitsFiles => j \in Manual
    BY DEF ModesInv, ModesStayApart, AwaitsFiles, MockJobs
  <2> QED
    BY <2>1, <2>3, <2>4 DEF UserInv
<1>4. CASE UNCHANGED vars
  BY <1>4 DEF vars, storageVars, rowVars, memoryVars, controlVars, UserInv, Retired,
              OnQueue, Enqueueing, Job, Running
<1> QED
  BY <1>1, <1>2, <1>3, <1>4, StepTakesEdge, CommitKeepsUser

LEMMA InitUser == Init => UserInv
BY ActorFacts DEF Init, StorageInit, UserInv, AwaitsFiles, Absent, Running

\* UserInv holds throughout: where a manual job waits for its user.
THEOREM UserInvariant == Spec => []UserInv
<1>1. /\ BridgeTypeOK /\ IntakeInv /\ PendingInv /\ ModesInv' /\ DeliveryInv /\ UserInv
      /\ [Next]_vars
      => UserInv'
  BY NextUser
<1> QED
  BY <1>1, InitUser, TypeCorrect, IntakeInvariant, PendingInvariant, ModesInvariant,
     DeliveryInvariant, PTL DEF Spec

\* From the moment a manual job waits for its files the worker is out of its way,
\* after restarts too.
THEOREM UserHasTheJobAlways == Spec => []UserHasTheJob
<1>1. UserInv => UserHasTheJob
  BY OrchestratorAssumption DEF UserInv, UserHasTheJob, Retired, AwaitsFiles
<1> QED
  BY <1>1, UserInvariant, PTL

-----------------------------------------------------------------------------
(* One handler at a time *)

\* Of two calls on the event loop that are both under way, one awaits an upload.
LoopInv ==
    \A c, d \in Calls \ Threads :
        (c # d /\ Running(c) /\ Running(d)) => At(c, "import_upload") \/ At(d, "import_upload")

LEMMA NextLoop ==
    ASSUME BridgeTypeOK, IntakeInv, LoopInv, [Next]_vars
    PROVE  LoopInv'
<1>1. ASSUME WorkerEdge
      PROVE  LoopInv'
  BY <1>1, ActorFacts DEF WorkerEdge, CallsKept, LoopInv, Running, At
<1>2. ASSUME NEW c \in Calls, CallEdge(c)
      PROVE  LoopInv'
  <2>1. \A d \in Calls \ {c} : pc'[d] = pc[d] /\ txn'[d] = txn[d]
    BY <1>2, CallEdgeEffects
  <2> SUFFICES ASSUME NEW d \in Calls \ Threads, c \notin Threads, c # d,
                      Running(c)', Running(d)
               PROVE  At(d, "import_upload")
    BY <2>1 DEF LoopInv, Running, At
  <2>2. Running(c) => LoopFree(c) \/ ~At(c, "import_upload")
    BY <1>2 DEF CallEdge, CreateEdge, CancelEdge, ImportEdge, ReturnEdge, At, Running
  <2>3. Running(c) \/ LoopFree(c)
    BY <1>2, CallEdgeEffects DEF CallEffects, Running, Ended
  <2> QED
    BY <2>2, <2>3 DEF LoopInv, LoopFree
<1>3. ASSUME NEW p \in Actors, CommitEdge(p)
      PROVE  LoopInv'
  BY <1>3, ActorFacts DEF CommitEdge, LoopInv, Running, At
<1>4. CASE RestartEdge
  BY <1>4, ActorFacts DEF RestartEdge, LoopInv, Running
<1>5. CASE UNCHANGED vars
  BY <1>5 DEF vars, storageVars, controlVars, LoopInv, Running, At
<1> QED
  BY <1>1, <1>2, <1>3, <1>4, <1>5, StepTakesEdge

LEMMA InitLoop == Init => LoopInv
BY ActorFacts DEF Init, LoopInv, Running

\* LoopInv holds throughout: where the loop of the worker stands.
THEOREM LoopInvariant == Spec => []LoopInv
<1>1. BridgeTypeOK /\ IntakeInv /\ LoopInv /\ [Next]_vars => LoopInv'
  BY NextLoop
<1> QED
  BY <1>1, InitLoop, TypeCorrect, IntakeInvariant, PTL DEF Spec

-----------------------------------------------------------------------------
(* Who writes the row of a job that nobody cancels *)

Touched(j) == \E c \in Cancels : pc[c] # "not_started" /\ target[c] = j

WriterInv ==
    \A p \in Actors :
        txn[p] # NoTxn => Touched(txn[p].job) \/ status[txn[p].job] = txn[p].from

\* A job that no cancel call touches has at most one UPDATE under way.
LEMMA OneWriter ==
    ASSUME BridgeTypeOK, IntakeInv, PendingInv, DeliveryInv, UserInv, LoopInv,
           NEW p \in Actors, NEW q \in Actors, NEW j \in Jobs, ~Touched(j),
           txn[p] # NoTxn, txn[p].job = j, txn[q] # NoTxn, txn[q].job = j
    PROVE  p = q
<1>1. ASSUME NEW c \in Calls, txn[c] # NoTxn, txn[c].job = j
      PROVE  /\ \/ c = j /\ Enqueueing(j)
                \/ c \in Imports /\ Retired(j)
             /\ Running(c)
  <2>1. CallUpdate(c) /\ target[c] = j
    BY <1>1 DEF PendingInv, CallUpdate
  <2>2. CASE c \in Jobs
    BY <1>1, <2>1, <2>2 DEF CallUpdate, Running, Enqueueing, IntakeInv
  <2>3. CASE c \in Cancels
    BY <1>1, <2>1, <2>3 DEF CallUpdate, Touched
  <2>4. CASE c \in Imports
    BY <1>1, <2>1, <2>4 DEF CallUpdate, Running, UserInv
  <2> QED
    BY <2>2, <2>3, <2>4 DEF Calls
<1>2. txn[Worker] # NoTxn /\ txn[Worker].job = j => ~Enqueueing(j) /\ ~Retired(j)
  BY DEF DeliveryInv, Retired
<1>3. CASE p = Worker \/ q = Worker
  BY <1>1, <1>2, <1>3, BridgeAssumption
<1>4. CASE p \in Calls /\ q \in Calls
  <2>1. CASE p \in Imports /\ q \in Imports
    <3>1. p \notin Threads /\ q \notin Threads
      BY <2>1, BridgeAssumption
    <3> QED
      BY <1>1, <1>4, <3>1 DEF LoopInv, At
  <2> QED
    BY <1>1, <1>4, <2>1 DEF Retired
<1> QED
  BY <1>3, <1>4, BridgeAssumption

\* A call that was made stays made.
LEMMA TouchedStays ==
    ASSUME BridgeTypeOK, IntakeInv, [Next]_vars, NEW j, Touched(j)
    PROVE  Touched(j)'
<1>1. PICK c \in Cancels : pc[c] # "not_started" /\ target[c] = j
  BY DEF Touched
<1>2. c \in Calls
  BY DEF Calls
<1>3. pc'[c] # "not_started" /\ target'[c] = j
  <2>1. ASSUME NEW d \in Calls, CallEdge(d)
        PROVE  pc'[c] # "not_started" /\ target'[c] = j
    <3>1. CASE d = c
      BY <1>1, <2>1, <3>1, CallEdgeEffects, BridgeAssumption
         DEF CallEffects, CallEdge, CancelEdge, ReturnEdge, CallMoves, CallOpens, CallRefuses
    <3>2. CASE d # c
      BY <1>1, <1>2, <2>1, <3>2, CallEdgeEffects
    <3> QED
      BY <3>1, <3>2
  <2>2. ASSUME WorkerEdge
        PROVE  pc'[c] # "not_started" /\ target'[c] = j
    BY <1>1, <1>2, <2>2 DEF WorkerEdge, CallsKept
  <2>3. ASSUME NEW p \in Actors, CommitEdge(p)
        PROVE  pc'[c] # "not_started" /\ target'[c] = j
    BY <1>1, <2>3 DEF CommitEdge
  <2>4. CASE RestartEdge
    BY <1>1, <1>2, <2>4 DEF RestartEdge
  <2>5. CASE UNCHANGED vars
    BY <1>1, <2>5 DEF vars, controlVars
  <2> QED
    BY <2>1, <2>2, <2>3, <2>4, <2>5, StepTakesEdge
<1> QED
  BY <1>3 DEF Touched

LEMMA NextWriter ==
    ASSUME BridgeTypeOK, IntakeInv, PendingInv, DeliveryInv, UserInv, LoopInv, WriterInv,
           [Next]_vars
    PROVE  WriterInv'
<1> SUFFICES ASSUME NEW q \in Actors, txn'[q] # NoTxn, NEW j, j = txn'[q].job,
                    ~Touched(j)'
             PROVE  status'[j] = txn'[q].from
  BY DEF WriterInv
<1>0. ~Touched(j)
  BY TouchedStays
<1>1. ASSUME txn'[q] = txn[q]
      PROVE  /\ status[j] = txn'[q].from /\ j \in Jobs /\ Exists(j)
  BY <1>0, <1>1 DEF WriterInv, IntakeInv, BridgeTypeOK, StorageTypeOK, StatusUpdate
<1>2. ASSUME WorkerEdge
      PROVE  status'[j] = txn'[q].from
  <2>1. status' = status
    BY <1>2 DEF WorkerEdge, WorkerEffects
  <2>2. CASE q = Worker
    BY <1>2, <2>1, <2>2
       DEF WorkerEdge, TakesJob, DeliveryEdge, ManualEdge, SubmitEdge, PollEdge,
           DownloadEdge, Writes, Opens, Refuses, Moves
  <2>3. CASE q # Worker
    BY <1>1, <1>2, <2>1, <2>3, BridgeAssumption DEF WorkerEdge, CallsKept
  <2> QED
    BY <2>2, <2>3
<1>3. ASSUME NEW c \in Calls, CallEdge(c)
      PROVE  status'[j] = txn'[q].from
  <2>1. CASE txn'[q] = txn[q]
    <3>1. status'[j] = status[j]
      BY <1>1, <1>3, <2>1, CallEdgeEffects DEF BridgeTypeOK, StorageTypeOK
    <3> QED
      BY <1>1, <2>1, <3>1
  <2>2. CASE txn'[q] # txn[q]
    <3>1. q = c
      BY <1>3, <2>2, CallEdgeEffects, BridgeAssumption
    <3>2. status' = status /\ txn'[c].from = status[txn'[c].job]
      <4>1. CallEdge(c) => \/ CreateEdge(c) /\ c \in Jobs
                           \/ CancelEdge(c) \/ ImportEdge(c) \/ ReturnEdge(c)
        BY DEF CallEdge
      <4>2. CASE CreateEdge(c)
        BY <2>2, <3>1, <4>2 DEF CreateEdge, CallMoves, CallOpens, CallRefuses
      <4>3. CASE CancelEdge(c)
        BY <2>2, <3>1, <4>3 DEF CancelEdge, CallMoves, CallOpens, CallRefuses
      <4>4. CASE ImportEdge(c)
        BY <2>2, <3>1, <4>4 DEF ImportEdge, Stores, CallMoves, CallOpens, CallRefuses
      <4>5. CASE ReturnEdge(c)
        BY <2>2, <3>1, <4>5 DEF ReturnEdge, CallMoves
      <4> QED
        BY <1>3, <4>1, <4>2, <4>3, <4>4, <4>5
    <3> QED
      BY <3>1, <3>2
  <2> QED
    BY <2>1, <2>2
<1>4. ASSUME NEW p \in Actors, CommitEdge(p)
      PROVE  status'[j] = txn'[q].from
  <2>1. q # p /\ txn'[q] = txn[q] /\ txn[p] # NoTxn
    BY <1>4 DEF CommitEdge
  <2>2. txn[p].job # j
    BY <1>0, <1>1, <2>1, OneWriter
  <2> QED
    BY <1>1, <1>4, <2>1, <2>2 DEF CommitEdge
<1>5. CASE RestartEdge
  BY <1>5 DEF RestartEdge
<1>6. CASE UNCHANGED vars
  BY <1>1, <1>6 DEF vars, storageVars, rowVars
<1> QED
  BY <1>2, <1>3, <1>4, <1>5, <1>6, StepTakesEdge

LEMMA InitWriter == Init => WriterInv
BY DEF Init, StorageInit, WriterInv

\* WriterInv holds throughout: who may write the row of a job that nobody cancels.
THEOREM WriterInvariant == Spec => []WriterInv
<1>1. /\ BridgeTypeOK /\ IntakeInv /\ PendingInv /\ DeliveryInv /\ UserInv /\ LoopInv
      /\ WriterInv /\ [Next]_vars
      => WriterInv'
  BY NextWriter
<1> QED
  BY <1>1, InitWriter, TypeCorrect, IntakeInvariant, PendingInvariant, DeliveryInvariant,
     UserInvariant, LoopInvariant, PTL DEF Spec

\* The check of set_job_status and its UPDATE are not one transaction, yet a write that
\* the table forbids only ever hits a job that some client has asked to cancel.
THEOREM OnlyCancelsBreak == Spec => OnlyCancelsBreakTheTable
<1>1. ASSUME BridgeTypeOK, IntakeInv, PendingInv, WriterInv, [Next]_vars,
             NEW j \in Jobs, Exists(j), ~ValidTransition(status[j], status'[j])
      PROVE  \E c \in Cancels : target[c] = j
  <2>1. status'[j] # status[j]
    BY <1>1 DEF ValidTransition
  <2>2. \A c \in Calls : ~CallEdge(c)
    BY <1>1, <2>1, CallEdgeEffects DEF BridgeTypeOK, StorageTypeOK
  <2>3. ~WorkerEdge /\ ~RestartEdge /\ ~UNCHANGED vars
    BY <2>1 DEF WorkerEdge, WorkerEffects, RestartEdge, vars, storageVars, rowVars
  <2>4. PICK p \in Actors : CommitEdge(p)
    BY <1>1, <2>2, <2>3, StepTakesEdge
  <2>5. txn[p] # NoTxn /\ j = txn[p].job /\ status'[j] = txn[p].to
    BY <2>1, <2>4 DEF CommitEdge
  <2>6. ValidTransition(txn[p].from, txn[p].to)
    BY <1>1, <2>5, BridgeAssumption DEF PendingInv, WorkerUpdate, CallUpdate
  <2>7. Touched(j)
    BY <1>1, <2>5, <2>6 DEF WriterInv
  <2> QED
    BY <2>7 DEF Touched
<1>2. BridgeTypeOK /\ IntakeInv /\ PendingInv /\ WriterInv /\ [Next]_vars =>
        [\A j \in Jobs : (Exists(j) /\ ~ValidTransition(status[j], status'[j])) =>
             \E c \in Cancels : target[c] = j]_vars
  BY <1>1
<1> QED
  BY <1>2, TypeCorrect, IntakeInvariant, PendingInvariant, WriterInvariant, PTL
     DEF Spec, OnlyCancelsBreakTheTable

-----------------------------------------------------------------------------
(* What stands behind a complete job *)

OnDisk(j, a) == <<j, a>> \in files

OutputsInv ==
    /\ \A j \in Jobs : \A a \in outputs[j] : IsRecorded(j, a)
    /\ \A j \in Jobs : status[j] = "complete" => outputs[j] # {}
    /\ \A p \in Actors :
          (txn[p] # NoTxn /\ txn[p].to = "complete") => outputs[txn[p].job] # {}
    /\ \A j \in MockJobs : outputs[j] # {} => outputs[j] = {MockOutput} /\ OnDisk(j, MockOutput)

\* The row of an output comes before its file: a crash in between leaves a row with no
\* file, but then the job has a remote id and the provider has forgotten it.
MockInv ==
    /\ \A j \in MockJobs : IsRecorded(j, MockOutput) =>
          /\ remote[j]
          /\ \/ OnDisk(j, MockOutput) \/ provider[j] = Unknown
             \/ pc[Worker] = "write_file" /\ Job = j
    /\ pc[Worker] \in {"write_file", "attach", "complete"} => IsRecorded(Job, MockOutput)
    /\ pc[Worker] \in {"attach", "complete"} => OnDisk(Job, MockOutput)
    /\ pc[Worker] = "complete" => outputs[Job] # {}

ImportBacked(c) ==
    /\ pc[c] = "not_started" => imported[c] = 0
    /\ Running(c) => \A k \in 1 .. imported[c] : IsRecorded(target[c], Uploads[c][k])
    /\ pc[c] = "import_write" => IsRecorded(target[c], NextUpload(c))
    /\ pc[c] = "import_attach" => imported[c] = Len(Uploads[c])
    /\ pc[c] = "import_complete" => outputs[target[c]] # {}

ImportsInv == \A c \in Imports : ImportBacked(c)

BackedInv == OutputsInv /\ MockInv /\ ImportsInv

\* Rows, files and outputs are never taken away.
LEMMA ImportStaysBacked ==
    ASSUME BridgeTypeOK, NEW c \in Imports, ImportBacked(c),
           UNCHANGED <<pc[c], target[c], imported[c]>>,
           recorded \subseteq recorded',
           \A j \in Jobs : outputs[j] # {} => outputs'[j] # {}
    PROVE  ImportBacked(c)'
<1>1. Running(c) => target[c] \in Jobs
  BY DEF BridgeTypeOK, Calls
<1> QED
  BY <1>1 DEF ImportBacked, Running, IsRecorded, NextUpload

LEMMA WorkerKeepsBacked ==
    ASSUME BridgeTypeOK, PendingInv, ModesInv, RemoteInv, DeliveryInv, BackedInv, WorkerEdge
    PROVE  BackedInv'
<1>0. /\ pc[Worker] # "idle" => Job \in Jobs
      /\ status' = status /\ remote' = remote /\ imported' = imported
      /\ outputs \in [Jobs -> SUBSET Assets] /\ MockOutput \in Assets
      /\ \A c \in Calls : pc'[c] = pc[c] /\ target'[c] = target[c] /\ txn'[c] = txn[c]
      /\ IF pc[Worker] = "download"
         THEN recorded' = recorded \cup {<<Job, Content[MockOutput]>>}
         ELSE recorded' = recorded
      /\ IF pc[Worker] = "write_file" THEN files' = files \cup {<<Job, MockOutput>>}
                                      ELSE files' = files
      /\ IF pc[Worker] = "attach" THEN outputs' = [outputs EXCEPT ![Job] = {MockOutput}]
                                  ELSE outputs' = outputs
      /\ \A j \in Jobs :
            \/ provider'[j] = Unknown <=> provider[j] = Unknown
            \/ j = Job /\ pc[Worker] = "remote_submit"
  BY OrchestratorAssumption
     DEF WorkerEdge, WorkerEffects, CallsKept, callVars, BridgeTypeOK, StorageTypeOK, Job
<1>1. recorded \subseteq recorded' /\ files \subseteq files'
  BY <1>0
<1>2. \A j \in Jobs : \/ outputs'[j] = outputs[j]
                      \/ /\ j = Job /\ pc[Worker] = "attach" /\ outputs'[j] = {MockOutput}
  BY <1>0
<1>3. pc[Worker] \in {"download", "write_file", "attach", "complete"} => Job \in MockJobs
  BY DEF ModesInv, WorkerInMode, MockLabels, PollLabels, AnsweredLabels
<1>4. \/ pc'[Worker] \notin {"write_file", "attach", "complete"}
         /\ (txn'[Worker] # NoTxn => pc[Worker] = "complete" \/ txn'[Worker].to # "complete")
         /\ pc[Worker] # "download" /\ pc[Worker] # "write_file" /\ pc[Worker] # "attach"
      \/ pc[Worker] = "download" /\ IsRecorded(Job, MockOutput) /\ pc'[Worker] = "attach"
         /\ txn'[Worker] = NoTxn
      \/ pc[Worker] = "download" /\ ~IsRecorded(Job, MockOutput) /\ pc'[Worker] = "write_file"
         /\ txn'[Worker] = NoTxn
      \/ pc[Worker] = "write_file" /\ pc'[Worker] = "attach" /\ txn'[Worker] = NoTxn
      \/ pc[Worker] = "attach" /\ pc'[Worker] = "complete" /\ txn'[Worker] = NoTxn
  <2> USE DEF Writes, Opens, Refuses, Moves
  <2>1. CASE TakesJob
    BY <2>1 DEF TakesJob
  <2>2. CASE DeliveryEdge
    BY <2>2 DEF DeliveryEdge
  <2>3. CASE ManualEdge
    BY <2>3 DEF ManualEdge
  <2>4. CASE SubmitEdge
    BY <2>4 DEF SubmitEdge
  <2>5. CASE PollEdge
    BY <2>5 DEF PollEdge
  <2>6. CASE DownloadEdge
    BY <2>6 DEF DownloadEdge
  <2> QED
    BY <2>1, <2>2, <2>3, <2>4, <2>5, <2>6 DEF WorkerEdge
<1>5. pc'[Worker] # "idle" /\ pc[Worker] # "idle" => target'[Worker] = Job
  BY DEF WorkerEdge, TakesJob, JobKept
<1>6. txn'[Worker] # NoTxn => txn'[Worker].job = Job /\ pc[Worker] # "idle"
  BY DEF WorkerEdge, TakesJob, JobKept, DeliveryEdge, ManualEdge, SubmitEdge, PollEdge,
         DownloadEdge, Writes, Opens, Refuses, Moves
<1>7. OutputsInv'
  <2>1. ASSUME NEW j \in Jobs, NEW a \in outputs'[j]
        PROVE  IsRecorded(j, a)'
    <3>1. CASE outputs'[j] = outputs[j]
      BY <1>1, <2>1, <3>1 DEF BackedInv, OutputsInv, IsRecorded
    <3>2. CASE j = Job /\ pc[Worker] = "attach" /\ outputs'[j] = {MockOutput}
      BY <1>1, <2>1, <3>2 DEF BackedInv, MockInv, IsRecorded
    <3> QED
      BY <1>2, <3>1, <3>2
  <2>2. \A j \in Jobs : outputs[j] # {} => outputs'[j] # {}
    BY <1>2
  <2>3. \A j \in Jobs : status'[j] = "complete" => outputs'[j] # {}
    BY <1>0, <2>2 DEF BackedInv, OutputsInv
  <2>4. ASSUME NEW p \in Actors, txn'[p] # NoTxn, txn'[p].to = "complete"
        PROVE  outputs'[txn'[p].job] # {}
    <3>1. CASE p = Worker
      <4>1. pc[Worker] = "complete" /\ txn'[p].job = Job
        BY <1>4, <1>6, <2>4, <3>1
      <4> QED
        BY <1>0, <2>2, <4>1 DEF BackedInv, MockInv
    <3>2. CASE p # Worker
      <4>1. txn'[p] = txn[p]
        BY <1>0, <3>2, BridgeAssumption
      <4>2. txn[p].job \in Jobs
        BY <2>4, <4>1 DEF BridgeTypeOK, StorageTypeOK, StatusUpdate
      <4> QED
        BY <2>2, <2>4, <4>1, <4>2 DEF BackedInv, OutputsInv
    <3> QED
      BY <3>1, <3>2
  <2>5. \A j \in MockJobs : outputs'[j] # {} =>
            outputs'[j] = {MockOutput} /\ OnDisk(j, MockOutput)'
    BY <1>0, <1>1, <1>2 DEF BackedInv, OutputsInv, MockInv, OnDisk, MockJobs
  <2> QED
    BY <2>1, <2>3, <2>4, <2>5 DEF OutputsInv
<1>8. MockInv'
  <2> USE DEF BackedInv, MockInv, IsRecorded, OnDisk, Job
  <2>1. ASSUME NEW j \in MockJobs, IsRecorded(j, MockOutput)'
        PROVE  /\ remote'[j]
               /\ \/ OnDisk(j, MockOutput)' \/ provider'[j] = Unknown
                  \/ pc'[Worker] = "write_file" /\ target'[Worker] = j
    <3>0. j \in Jobs
      BY DEF MockJobs
    <3>1. CASE IsRecorded(j, MockOutput)
      <4>1. remote[j]
        BY <3>1
      <4>2. ~(j = Job /\ pc[Worker] = "remote_submit")
        BY <4>1 DEF RemoteInv, SubmitLabels
      <4>3. pc[Worker] = "write_file" => <<Job, MockOutput>> \in files'
        BY <1>0
      <4> QED
        BY <1>0, <1>1, <3>0, <3>1, <4>1, <4>2, <4>3
    <3>2. CASE ~IsRecorded(j, MockOutput)
      <4>1. pc[Worker] = "download" /\ j = Job
        BY <1>0, <2>1, <3>2
      <4>2. remote[Job]
        BY <4>1 DEF RemoteInv, PollLabels, AnsweredLabels
      <4>3. pc'[Worker] = "write_file"
        BY <1>4, <3>2, <4>1
      <4> QED
        BY <1>0, <1>5, <4>1, <4>2, <4>3
    <3> QED
      BY <3>1, <3>2
  <2>2. pc'[Worker] \in {"write_file", "attach", "complete"} =>
            <<target'[Worker], Content[MockOutput]>> \in recorded'
    BY <1>0, <1>1, <1>4, <1>5
  <2>3. pc'[Worker] \in {"attach", "complete"} => <<target'[Worker], MockOutput>> \in files'
    <3>1. CASE pc[Worker] = "download" /\ IsRecorded(Job, MockOutput)
      <4>1. provider[Job] # Unknown
        BY <3>1 DEF DeliveryInv, AnsweredLabels
      <4>2. OnDisk(Job, MockOutput)
        BY <1>3, <3>1, <4>1
      <4> QED
        BY <1>1, <1>4, <1>5, <3>1, <4>2
    <3>2. CASE ~(pc[Worker] = "download" /\ IsRecorded(Job, MockOutput))
      BY <1>0, <1>1, <1>4, <1>5, <3>2
    <3> QED
      BY <3>1, <3>2
  <2>4. pc'[Worker] = "complete" => outputs'[target'[Worker]] # {}
    BY <1>0, <1>4, <1>5
  <2> QED
    BY <2>1, <2>2, <2>3, <2>4
<1>9. ImportsInv'
  <2> SUFFICES ASSUME NEW c \in Imports PROVE ImportBacked(c)'
    BY DEF ImportsInv
  <2>1. UNCHANGED <<pc[c], target[c], imported[c]>> /\ ImportBacked(c)
    BY <1>0 DEF BackedInv, ImportsInv, Calls
  <2>2. \A j \in Jobs : outputs[j] # {} => outputs'[j] # {}
    BY <1>2
  <2> QED
    BY <1>1, <2>1, <2>2, ImportStaysBacked
<1> QED
  BY <1>7, <1>8, <1>9 DEF BackedInv

\* What a manual-complete does to the rows, the files and the outputs of its job.
LEMMA ImportMakes ==
    ASSUME BridgeTypeOK, NEW c \in Imports, ImportBacked(c), ImportEdge(c)
    PROVE  /\ ImportBacked(c)'
           /\ \/ outputs' = outputs
              \/ /\ target[c] \in Jobs /\ Running(c)
                 /\ outputs'[target[c]] # {}
                 /\ \A a \in outputs'[target[c]] : IsRecorded(target[c], a)
                 /\ \A j \in Jobs : j # target[c] => outputs'[j] = outputs[j]
           /\ \/ recorded' = recorded
              \/ /\ target[c] \in Jobs /\ Running(c)
                 /\ recorded' = recorded \cup {<<target[c], Content[NextUpload(c)]>>}
           /\ \/ files' = files
              \/ /\ target[c] \in Jobs /\ Running(c)
                 /\ files' = files \cup {<<target[c], NextUpload(c)>>}
<1>0. /\ Running(c) => target[c] \in Jobs
      /\ pc[c] # "not_started" => target'[c] = target[c]
      /\ imported[c] \in Nat /\ Len(Uploads[c]) \in Nat /\ Len(Uploads[c]) # 0
      /\ outputs \in [Jobs -> SUBSET Assets]
      /\ \A k \in 1 .. Len(Uploads[c]) : Uploads[c][k] \in Assets
      /\ ~Ended(c)
  <2>1. Uploads[c] \in Seq(Assets) /\ Uploads[c] # <<>>
    BY BridgeAssumption
  <2>2. /\ Len(Uploads[c]) \in Nat /\ Len(Uploads[c]) # 0
        /\ \A k \in 1 .. Len(Uploads[c]) : Uploads[c][k] \in Assets
    BY <2>1
  <2> QED
    BY <2>2 DEF BridgeTypeOK, StorageTypeOK, Calls, ImportEdge, CallEffects
<1>1. /\ recorded \subseteq recorded'
      /\ pc[c] = "import_upload" => <<target[c], Content[NextUpload(c)]>> \in recorded'
  BY DEF ImportEdge
<1>2. CASE pc[c] = "not_started"
  <2>1. imported'[c] = 0 /\ pc'[c] \in {"import_upload", "done"}
        /\ UNCHANGED <<outputs, recorded, files>>
    BY <1>2 DEF ImportEdge, CallOpens, CallRefuses, CallMoves, At, ImportBacked
  <2> QED
    BY <2>1 DEF ImportBacked, Running
<1>3. CASE pc[c] \in {"import_upload", "import_write"}
  <2>1. Running(c) /\ target'[c] = target[c] /\ target[c] \in Jobs
    BY <1>0, <1>3 DEF Running
  <2>2. CASE Stores(c)
    <3>1. /\ imported'[c] = imported[c] + 1
          /\ pc'[c] \in {"import_attach", "import_upload"}
          /\ pc'[c] = "import_attach" => imported'[c] = Len(Uploads[c])
      BY <2>2 DEF Stores, CallMoves
    <3>2. <<target[c], Content[NextUpload(c)]>> \in recorded'
      BY <1>1, <1>3 DEF ImportBacked, IsRecorded
    <3>3. ASSUME NEW k \in 1 .. imported'[c]
          PROVE  <<target[c], Content[Uploads[c][k]]>> \in recorded'
      <4>1. CASE k \in 1 .. imported[c]
        BY <1>1, <2>1, <4>1 DEF ImportBacked, IsRecorded
      <4>2. CASE k = imported[c] + 1
        BY <3>2, <4>2 DEF NextUpload
      <4> QED
        BY <1>0, <3>1, <4>1, <4>2
    <3>4. ImportBacked(c)'
      BY <2>1, <3>1, <3>3 DEF ImportBacked, IsRecorded
    <3> QED
      BY <1>3, <2>1, <3>4 DEF ImportEdge
  <2>3. CASE ~Stores(c)
    <3>1. /\ pc[c] = "import_upload" /\ pc'[c] = "import_write"
          /\ imported'[c] = imported[c]
      BY <1>3, <2>3 DEF ImportEdge, CallMoves, At
    <3>2. ImportBacked(c)'
      BY <1>1, <2>1, <3>1 DEF ImportBacked, IsRecorded, NextUpload, Running
    <3> QED
      BY <1>3, <2>1, <3>2 DEF ImportEdge
  <2> QED
    BY <2>2, <2>3
<1>4. CASE pc[c] = "import_attach"
  <2>1. /\ Running(c) /\ target'[c] = target[c] /\ target[c] \in Jobs
        /\ imported[c] = Len(Uploads[c]) /\ imported'[c] = imported[c]
        /\ pc'[c] = "import_complete"
        /\ outputs' = [outputs EXCEPT ![target[c]] = Uploaded(c)]
        /\ recorded' = recorded /\ files' = files
    BY <1>0, <1>4 DEF Running, ImportBacked, ImportEdge, CallMoves, At
  <2>2. Uploaded(c) # {} /\ \A a \in Uploaded(c) : IsRecorded(target[c], a)
    <3>1. 1 \in 1 .. Len(Uploads[c])
      BY <1>0
    <3> QED
      BY <2>1, <3>1 DEF Uploaded, ImportBacked
  <2>3. /\ outputs'[target[c]] = Uploaded(c)
        /\ \A j \in Jobs : j # target[c] => outputs'[j] = outputs[j]
    BY <1>0, <2>1
  <2>4. ImportBacked(c)'
    BY <2>1, <2>2, <2>3 DEF ImportBacked, IsRecorded
  <2> QED
    BY <2>1, <2>2, <2>3, <2>4
<1>5. CASE pc[c] = "import_complete"
  <2>1. /\ pc'[c] \in {"return", "done"} /\ target'[c] = target[c]
        /\ imported'[c] = imported[c] /\ UNCHANGED <<outputs, recorded, files>>
    BY <1>0, <1>5 DEF ImportEdge, CallOpens, CallRefuses, CallMoves, At
  <2> QED
    BY <1>5, <2>1 DEF ImportBacked, IsRecorded, Running
<1> QED
  BY <1>2, <1>3, <1>4, <1>5 DEF ImportEdge, At

LEMMA CallKeepsBacked ==
    ASSUME BridgeTypeOK, IntakeInv, PendingInv', ModesInv, BackedInv,
           NEW c \in Calls, CallEdge(c)
    PROVE  BackedInv'
<1>1. /\ UNCHANGED <<pc[Worker], target[Worker], remote>> /\ SameKnowledge
      /\ \A p \in Actors \ {c} : txn'[p] = txn[p]
      /\ \A d \in Imports \ {c} : UNCHANGED <<pc[d], target[d], imported[d]>>
      /\ \A j \in Jobs : status'[j] = status[j] \/ status'[j] = "created"
      /\ pc[Worker] # "idle" => Job \in Jobs
  <2>1. /\ CallEffects(c) /\ UNCHANGED <<pc[Worker], target[Worker], remote>>
        /\ \A p \in Actors \ {c} : txn'[p] = txn[p]
        /\ \A d \in Imports \ {c} : UNCHANGED <<pc[d], target[d], imported[d]>>
    BY CallEdgeEffects, ActorFacts DEF CallEffects
  <2>2. \A j \in Jobs : status'[j] = status[j] \/ status'[j] = "created"
    BY CallEdgeEffects DEF BridgeTypeOK, StorageTypeOK
  <2> QED
    BY <2>1, <2>2 DEF CallEffects, BridgeTypeOK, Job
<1>2. /\ c \in Imports => ImportBacked(c)'
      /\ \/ outputs' = outputs
         \/ /\ c \in Imports /\ Running(c) /\ target[c] \in Jobs
            /\ outputs'[target[c]] # {}
            /\ \A a \in outputs'[target[c]] : IsRecorded(target[c], a)
            /\ \A j \in Jobs : j # target[c] => outputs'[j] = outputs[j]
      /\ \/ recorded' = recorded
         \/ /\ c \in Imports /\ Running(c)
            /\ recorded' = recorded \cup {<<target[c], Content[NextUpload(c)]>>}
      /\ \/ files' = files
         \/ /\ c \in Imports /\ Running(c)
            /\ files' = files \cup {<<target[c], NextUpload(c)>>}
  <2>1. CASE c \in Imports /\ ImportEdge(c)
    BY <2>1, ImportMakes DEF BackedInv, ImportsInv
  <2>2. CASE ~(c \in Imports /\ ImportEdge(c))
    <3>1. UNCHANGED <<outputs, recorded, files>>
      BY <2>2, BridgeAssumption DEF CallEdge, CreateEdge, CancelEdge, ReturnEdge
    <3>2. c \in Imports => ImportBacked(c)'
      <4>1. c \in Imports => ReturnEdge(c)
        BY <2>2, BridgeAssumption DEF CallEdge
      <4> QED
        BY <4>1 DEF ReturnEdge, CallMoves, ImportBacked, Running
    <3> QED
      BY <3>1, <3>2
  <2> QED
    BY <2>1, <2>2
<1>3. /\ recorded \subseteq recorded' /\ files \subseteq files'
      /\ \A j \in Jobs : outputs[j] # {} => outputs'[j] # {}
  BY <1>2
<1>4. c \in Imports /\ Running(c) => target[c] \in Manual /\ target[c] \notin MockJobs
  BY DEF ModesInv, MockJobs
<1>5. OutputsInv'
  <2>1. ASSUME NEW j \in Jobs, NEW a \in outputs'[j]
        PROVE  IsRecorded(j, a)'
    BY <1>2, <1>3 DEF BackedInv, OutputsInv, IsRecorded
  <2>2. \A j \in Jobs : status'[j] = "complete" => outputs'[j] # {}
    BY <1>1, <1>3 DEF BackedInv, OutputsInv
  <2>3. ASSUME NEW p \in Actors, txn'[p] # NoTxn, txn'[p].to = "complete"
        PROVE  outputs'[txn'[p].job] # {}
    <3>1. CASE txn'[p] = txn[p]
      <4>1. txn[p].job \in Jobs
        BY <2>3, <3>1 DEF BridgeTypeOK, StorageTypeOK, StatusUpdate
      <4> QED
        BY <1>3, <2>3, <3>1, <4>1 DEF BackedInv, OutputsInv
    <3>2. CASE txn'[p] # txn[p]
      <4>1. p = c
        BY <1>1, <3>2
      <4>2. c \in Imports
        BY <2>3, <4>1 DEF PendingInv, CallUpdate, Calls
      <4>3. pc[c] = "import_complete" /\ txn'[c].job = target[c]
        BY <2>3, <3>2, <4>1, <4>2, BridgeAssumption
           DEF CallEdge, ImportEdge, ReturnEdge, CallEffects, CallOpens, CallRefuses,
               CallMoves, Stores
      <4>4. target[c] \in Jobs
        BY <4>3 DEF BridgeTypeOK, Running
      <4> QED
        BY <1>3, <4>1, <4>2, <4>3, <4>4 DEF BackedInv, ImportsInv, ImportBacked
    <3> QED
      BY <3>1, <3>2
  <2>4. ASSUME NEW j \in MockJobs, outputs'[j] # {}
        PROVE  outputs'[j] = {MockOutput} /\ OnDisk(j, MockOutput)'
    <3>1. outputs'[j] = outputs[j]
      BY <1>2, <1>4 DEF MockJobs
    <3> QED
      BY <1>3, <2>4, <3>1 DEF BackedInv, OutputsInv, OnDisk
  <2> QED
    BY <2>1, <2>2, <2>3, <2>4 DEF OutputsInv
<1>6. MockInv'
  <2>1. \A j \in MockJobs : IsRecorded(j, MockOutput)' => IsRecorded(j, MockOutput)
    BY <1>2, <1>4 DEF IsRecorded
  <2>2. \A j \in MockJobs : j \in Jobs
    BY DEF MockJobs
  <2> QED
    BY <1>1, <1>3, <2>1, <2>2
       DEF BackedInv, MockInv, IsRecorded, OnDisk, SameKnowledge, Job
<1>7. ImportsInv'
  <2> SUFFICES ASSUME NEW d \in Imports PROVE ImportBacked(d)'
    BY DEF ImportsInv
  <2>1. CASE d = c
    BY <1>2, <2>1
  <2>2. CASE d # c
    BY <1>1, <1>3, <2>2, ImportStaysBacked DEF BackedInv, ImportsInv
  <2> QED
    BY <2>1, <2>2
<1> QED
  BY <1>5, <1>6, <1>7 DEF BackedInv

LEMMA NextBacked ==
    ASSUME BridgeTypeOK, IntakeInv, PendingInv, PendingInv', ModesInv, RemoteInv,
           DeliveryInv, BackedInv, [Next]_vars
    PROVE  BackedInv'
<1>1. ASSUME NEW p \in Actors, CommitEdge(p)
      PROVE  BackedInv'
  <2>1. /\ UNCHANGED <<outputs, recorded, files, pc, target, imported, provider>>
        /\ \A j \in Jobs : remote[j] => remote'[j]
        /\ \A j \in Jobs :
              status'[j] = status[j] \/ (j = txn[p].job /\ status'[j] = txn[p].to)
        /\ txn[p] # NoTxn /\ txn[p].job \in Jobs
        /\ \A q \in Actors : txn'[q] = NoTxn \/ txn'[q] = txn[q]
    BY <1>1 DEF CommitEdge, BridgeTypeOK, StorageTypeOK, StatusUpdate
  <2>2. OutputsInv'
    BY <2>1 DEF BackedInv, OutputsInv, IsRecorded, OnDisk
  <2>3. MockInv'
    BY <2>1 DEF BackedInv, MockInv, IsRecorded, OnDisk, MockJobs, Job
  <2>4. ImportsInv'
    BY <2>1 DEF BackedInv, ImportsInv, ImportBacked, IsRecorded, Running, NextUpload
  <2> QED
    BY <2>2, <2>3, <2>4 DEF BackedInv
<1>2. CASE RestartEdge
  <2>1. OutputsInv'
    BY <1>2 DEF RestartEdge, BackedInv, OutputsInv, IsRecorded, OnDisk
  <2>2. MockInv'
    BY <1>2 DEF RestartEdge, BackedInv, MockInv, IsRecorded, OnDisk, MockJobs
  <2>3. ASSUME NEW c \in Imports
        PROVE  ImportBacked(c)'
    BY <1>2, ActorFacts
       DEF RestartEdge, BackedInv, ImportsInv, ImportBacked, Running, Calls
  <2> QED
    BY <2>1, <2>2, <2>3 DEF BackedInv, ImportsInv
<1>3. CASE UNCHANGED vars
  BY <1>3 DEF vars, storageVars, rowVars, memoryVars, controlVars, callVars, BackedInv,
              OutputsInv, MockInv, ImportsInv, ImportBacked, IsRecorded, OnDisk, Running,
              NextUpload, Job
<1> QED
  BY <1>1, <1>2, <1>3, StepTakesEdge, WorkerKeepsBacked, CallKeepsBacked

LEMMA InitBacked == Init => BackedInv
<1> SUFFICES ASSUME Init PROVE BackedInv
  OBVIOUS
<1>1. /\ pc[Worker] = "idle" /\ recorded = {} /\ \A j \in Jobs : outputs[j] = {}
      /\ \A j \in Jobs : status[j] # "complete"
      /\ \A p \in Actors : txn[p] = NoTxn
      /\ \A c \in Imports : pc[c] = "not_started" /\ imported[c] = 0
  BY ActorFacts DEF Init, StorageInit, Absent
<1>2. OutputsInv
  BY <1>1 DEF OutputsInv, MockJobs
<1>3. MockInv
  BY <1>1 DEF MockInv, IsRecorded
<1>4. ImportsInv
  BY <1>1 DEF ImportsInv, ImportBacked, Running
<1> QED
  BY <1>2, <1>3, <1>4 DEF BackedInv

\* BackedInv holds throughout: rows, files and outputs of every label.
THEOREM BackedInvariant == Spec => []BackedInv
<1>1. /\ BridgeTypeOK /\ IntakeInv /\ PendingInv /\ PendingInv' /\ ModesInv /\ RemoteInv
      /\ DeliveryInv /\ BackedInv /\ [Next]_vars
      => BackedInv'
  BY NextBacked
<1> QED
  BY <1>1, InitBacked, TypeCorrect, IntakeInvariant, PendingInvariant, ModesInvariant,
     RemoteInvariant, DeliveryInvariant, PTL DEF Spec

\* A complete job shows its outputs, each recorded, and those of a mock job are on the
\* disk: also when a crash fell between the row of the output and its file.
THEOREM CompleteIsBackedAlways == Spec => []CompleteIsBacked
<1>1. BackedInv => CompleteIsBacked
  BY DEF BackedInv, OutputsInv, OnDisk, CompleteIsBacked
<1> QED
  BY <1>1, BackedInvariant, PTL

-----------------------------------------------------------------------------
(* Files of overlapping manual completions, until a restart *)

\* Job j has the content of a in a file, with whatever suffix.
ContentIn(stored, j, a) == \E b \in Assets : Content[b] = Content[a] /\ <<j, b>> \in stored
ContentOnDisk(j, a) == ContentIn(files, j, a)

\* A call is about to write a file with the content of a for j.
Writing(c, j, a) ==
    pc[c] = "import_write" /\ target[c] = j /\ Content[NextUpload(c)] = Content[a]
BeingWritten(j, a) == \E c \in Imports : Writing(c, j, a)

StoredOnDisk(c) ==
    Running(c) => \A k \in 1 .. imported[c] : ContentOnDisk(target[c], Uploads[c][k])

DiskInv ==
    boots = 0 =>
        /\ \A j \in Manual, a \in Assets :
              IsRecorded(j, a) => ContentOnDisk(j, a) \/ BeingWritten(j, a)
        /\ \A c \in Imports : StoredOnDisk(c)
        /\ \A j \in Manual : \A a \in outputs[j] : ContentOnDisk(j, a)

LEMMA FilesStay ==
    ASSUME files \subseteq files'
    PROVE  \A j, a : ContentOnDisk(j, a) => ContentIn(files', j, a)
BY DEF ContentOnDisk, ContentIn

LEMMA OthersWrite ==
    ASSUME NEW c, NEW j, NEW a, BeingWritten(j, a),
           ~Writing(c, j, a),
           \A d \in Imports \ {c} : UNCHANGED <<pc[d], target[d], imported[d]>>
    PROVE  BeingWritten(j, a)'
BY DEF BeingWritten, Writing, NextUpload

LEMMA ImportKeepsDisk ==
    ASSUME BridgeTypeOK, ModesInv, BackedInv, DiskInv, boots = 0,
           NEW c \in Imports, ImportEdge(c)
    PROVE  DiskInv'
<1>0. /\ c \in Calls /\ CallEffects(c) /\ c \notin Threads
      /\ pc[c] # "not_started" => target'[c] = target[c] /\ target[c] \in Manual
      /\ \A d \in Imports \ {c} : UNCHANGED <<pc[d], target[d], imported[d]>>
      /\ \A d \in Imports : Running(d) => target[d] \in Manual
      /\ imported[c] \in Nat
      /\ ImportBacked(c)
      /\ boots' = boots
  <2>1. c \in Calls /\ CallEffects(c) /\ CallEdge(c)
    BY ActorFacts DEF ImportEdge, CallEdge
  <2>2. pc[c] # "not_started" => Running(c)
    BY <2>1 DEF CallEffects, Running, Ended
  <2> QED
    BY <2>1, <2>2, CallEdgeEffects, BridgeAssumption, ActorFacts
       DEF CallEffects, ModesInv, BackedInv, ImportsInv, BridgeTypeOK
<1>1. /\ recorded \subseteq recorded'
      /\ \A j, a : ContentOnDisk(j, a) => ContentIn(files', j, a)
  <2>1. files \subseteq files' /\ recorded \subseteq recorded'
    BY DEF ImportEdge
  <2> QED
    BY <2>1, FilesStay
<1>2. ASSUME NEW d \in Imports \ {c}
      PROVE  StoredOnDisk(d)'
  BY <1>0, <1>1 DEF DiskInv, StoredOnDisk, ContentOnDisk, Running
<1>3. ASSUME NEW j \in Manual, NEW a \in Assets, ~Writing(c, j, a), IsRecorded(j, a)
      PROVE  ContentOnDisk(j, a)' \/ BeingWritten(j, a)'
  <2>1. ContentOnDisk(j, a) \/ BeingWritten(j, a)
    BY <1>3 DEF DiskInv
  <2> QED
    BY <1>0, <1>1, <1>3, <2>1, OthersWrite DEF ContentOnDisk
<1>4. CASE pc[c] = "not_started"
  <2>1. imported'[c] = 0 /\ UNCHANGED <<outputs, recorded, files>>
    BY <1>0, <1>4 DEF ImportEdge, At, ImportBacked
  <2>2. StoredOnDisk(c)'
    BY <2>1 DEF StoredOnDisk
  <2> QED
    BY <1>1, <1>2, <1>3, <1>4, <2>1, <2>2 DEF DiskInv, ContentOnDisk, IsRecorded, Writing
<1>5. CASE pc[c] \in {"import_upload", "import_write"}
  <2>0. outputs' = outputs /\ Running(c)
    BY <1>5 DEF ImportEdge, Running
  <2>1. CASE Stores(c)
    <3>0. NextUpload(c) \in Assets
      BY <1>5, NextUploadTyped
    <3>1. ContentIn(files', target[c], NextUpload(c))
      <4>1. CASE pc[c] = "import_write"
        <5>1. <<target[c], NextUpload(c)>> \in files'
          BY <4>1 DEF ImportEdge
        <5> QED
          BY <3>0, <5>1 DEF ContentIn
      <4>2. CASE pc[c] = "import_upload"
        <5>1. LoopFree(c) /\ IsRecorded(target[c], NextUpload(c))
          BY <2>1, <4>2 DEF ImportEdge, At, Stores, CallMoves
        <5>2. ~BeingWritten(target[c], NextUpload(c))
          BY <1>0, <4>2, <5>1, BridgeAssumption
             DEF BeingWritten, Writing, LoopFree, Running, At, Calls
        <5> QED
          BY <1>0, <1>1, <3>0, <4>2, <5>1, <5>2 DEF DiskInv
      <4> QED
        BY <1>5, <4>1, <4>2
    <3>2. StoredOnDisk(c)'
      <4>1. imported'[c] = imported[c] + 1
        BY <2>1 DEF Stores
      <4>2. ASSUME NEW k \in 1 .. imported'[c]
            PROVE  ContentIn(files', target[c], Uploads[c][k])
        <5>1. CASE k \in 1 .. imported[c]
          BY <1>1, <2>0, <5>1 DEF DiskInv, StoredOnDisk
        <5>2. CASE k = imported[c] + 1
          BY <3>1, <5>2 DEF NextUpload
        <5> QED
          BY <1>0, <4>1, <5>1, <5>2
      <4> QED
        BY <1>0, <1>5, <4>2 DEF StoredOnDisk, ContentOnDisk
    <3>3. ASSUME NEW j \in Manual, NEW a \in Assets, IsRecorded(j, a)'
          PROVE  ContentOnDisk(j, a)' \/ BeingWritten(j, a)'
      <4>1. CASE j = target[c] /\ Content[a] = Content[NextUpload(c)]
        BY <3>1, <4>1 DEF ContentOnDisk, ContentIn
      <4>2. CASE ~(j = target[c] /\ Content[a] = Content[NextUpload(c)])
        <5>1. IsRecorded(j, a)
          BY <3>3, <4>2 DEF ImportEdge, IsRecorded
        <5> QED
          BY <1>3, <4>2, <5>1 DEF Writing
      <4> QED
        BY <4>1, <4>2
    <3> QED
      BY <1>1, <1>2, <2>0, <3>2, <3>3 DEF DiskInv, ContentOnDisk
  <2>2. CASE ~Stores(c)
    <3>1. /\ pc[c] = "import_upload" /\ pc'[c] = "import_write"
          /\ imported'[c] = imported[c] /\ files' = files
          /\ recorded' = recorded \cup {<<target[c], Content[NextUpload(c)]>>}
      BY <1>5, <2>2 DEF ImportEdge, CallMoves, At
    <3>2. StoredOnDisk(c)'
      BY <1>0, <1>1, <2>0, <3>1 DEF DiskInv, StoredOnDisk, ContentOnDisk, Running
    <3>3. ASSUME NEW j \in Manual, NEW a \in Assets, IsRecorded(j, a)'
          PROVE  ContentOnDisk(j, a)' \/ BeingWritten(j, a)'
      <4>1. CASE j = target[c] /\ Content[a] = Content[NextUpload(c)]
        <5>1. target'[c] = j /\ NextUpload(c)' = NextUpload(c)
          BY <1>0, <3>1, <4>1 DEF NextUpload
        <5> QED
          BY <3>1, <4>1, <5>1 DEF BeingWritten, Writing
      <4>2. CASE ~(j = target[c] /\ Content[a] = Content[NextUpload(c)])
        <5>1. IsRecorded(j, a)
          BY <3>1, <3>3, <4>2 DEF IsRecorded
        <5> QED
          BY <1>3, <3>1, <5>1 DEF Writing
      <4> QED
        BY <4>1, <4>2
    <3> QED
      BY <1>1, <1>2, <2>0, <3>2, <3>3 DEF DiskInv, ContentOnDisk
  <2> QED
    BY <2>1, <2>2
<1>6. CASE pc[c] \in {"import_attach", "import_complete"}
  <2>1. /\ Running(c) /\ recorded' = recorded /\ files' = files
        /\ imported'[c] = imported[c] /\ target'[c] = target[c] /\ target[c] \in Manual
    BY <1>0, <1>6 DEF ImportEdge, At, Running
  <2>2. StoredOnDisk(c)'
    BY <1>1, <2>1 DEF DiskInv, StoredOnDisk, ContentOnDisk
  <2>3. ASSUME NEW j \in Manual, NEW a \in outputs'[j]
        PROVE  ContentOnDisk(j, a)'
    <3>1. CASE outputs'[j] = outputs[j]
      BY <1>1, <2>1, <2>3, <3>1 DEF DiskInv, ContentOnDisk
    <3>2. CASE outputs'[j] # outputs[j]
      <4>1. /\ j = target[c] /\ outputs'[j] = Uploaded(c)
            /\ imported[c] = Len(Uploads[c])
        BY <1>0, <1>6, <2>1, <3>2, OrchestratorAssumption
           DEF ImportEdge, ImportBacked, BridgeTypeOK, StorageTypeOK
      <4> QED
        BY <1>1, <2>1, <2>3, <4>1 DEF DiskInv, StoredOnDisk, Uploaded, ContentOnDisk
    <3> QED
      BY <3>1, <3>2
  <2> QED
    BY <1>2, <1>3, <1>6, <2>1, <2>2, <2>3 DEF DiskInv, IsRecorded, Writing
<1> QED
  BY <1>4, <1>5, <1>6 DEF ImportEdge, At

LEMMA NextDisk ==
    ASSUME BridgeTypeOK, IntakeInv, ModesInv, BackedInv, DiskInv, [Next]_vars
    PROVE  DiskInv'
<1>1. ASSUME WorkerEdge
      PROVE  DiskInv'
  <2>1. /\ boots' = boots /\ imported' = imported /\ files \subseteq files'
        /\ \A c \in Imports : pc'[c] = pc[c] /\ target'[c] = target[c]
    BY <1>1, ActorFacts DEF WorkerEdge, WorkerEffects, CallsKept, callVars
  <2>2. pc[Worker] \in {"download", "attach"} => Job \in MockJobs
    BY DEF ModesInv, WorkerInMode, MockLabels, PollLabels, AnsweredLabels
  <2>3. /\ \A j \in Manual : outputs'[j] = outputs[j]
        /\ \A j \in Manual, a \in Assets : IsRecorded(j, a)' => IsRecorded(j, a)
    BY <1>1, <2>2, OrchestratorAssumption
       DEF WorkerEdge, WorkerEffects, MockJobs, BridgeTypeOK, StorageTypeOK, IsRecorded
  <2>4. \A j, a : ContentOnDisk(j, a) => ContentIn(files', j, a)
    BY <2>1, FilesStay
  <2>5. \A j, a : BeingWritten(j, a) => BeingWritten(j, a)'
    BY <2>1 DEF BeingWritten, Writing, NextUpload
  <2>6. \A c \in Imports : StoredOnDisk(c) => StoredOnDisk(c)'
    BY <2>1, <2>4 DEF StoredOnDisk, ContentOnDisk, Running
  <2> QED
    BY <2>1, <2>3, <2>4, <2>5, <2>6 DEF DiskInv, ContentOnDisk
<1>2. ASSUME NEW c \in Calls, CallEdge(c)
      PROVE  DiskInv'
  <2>1. boots' = boots
    BY <1>2, CallEdgeEffects DEF CallEffects
  <2>2. CASE c \in Imports /\ ImportEdge(c)
    <3>1. CASE boots = 0
      BY <2>2, <3>1, ImportKeepsDisk
    <3>2. CASE boots # 0
      BY <2>1, <3>2 DEF DiskInv
    <3> QED
      BY <3>1, <3>2
  <2>3. CASE ~(c \in Imports /\ ImportEdge(c))
    <3>1. UNCHANGED <<outputs, recorded, files>>
      BY <1>2, <2>3, BridgeAssumption DEF CallEdge, CreateEdge, CancelEdge, ReturnEdge
    <3>2. \A d \in Imports : \/ UNCHANGED <<pc[d], target[d], imported[d]>>
                             \/ pc[d] = "return" /\ pc'[d] = "done"
      <4>1. \A d \in Imports \ {c} : UNCHANGED <<pc[d], target[d], imported[d]>>
        BY <1>2, CallEdgeEffects, ActorFacts
      <4>2. c \in Imports => pc[c] = "return" /\ pc'[c] = "done"
        BY <1>2, <2>3, BridgeAssumption DEF CallEdge, ReturnEdge, At, CallMoves
      <4> QED
        BY <4>1, <4>2
    <3>3. \A j, a : BeingWritten(j, a) => BeingWritten(j, a)'
      BY <3>2 DEF BeingWritten, Writing, NextUpload
    <3>4. \A j, a : ContentOnDisk(j, a) => ContentIn(files', j, a)
      BY <3>1, FilesStay
    <3>5. \A d \in Imports : StoredOnDisk(d) => StoredOnDisk(d)'
      BY <3>2, <3>4 DEF StoredOnDisk, ContentOnDisk, Running
    <3> QED
      BY <2>1, <3>1, <3>3, <3>4, <3>5 DEF DiskInv, ContentOnDisk, IsRecorded
  <2> QED
    BY <2>2, <2>3
<1>3. ASSUME NEW p \in Actors, CommitEdge(p)
      PROVE  DiskInv'
  BY <1>3 DEF CommitEdge, DiskInv, StoredOnDisk, ContentOnDisk, ContentIn, BeingWritten,
              Writing, NextUpload,
              IsRecorded, Running
<1>4. CASE RestartEdge
  BY <1>4 DEF RestartEdge, DiskInv
<1>5. CASE UNCHANGED vars
  BY <1>5 DEF vars, storageVars, rowVars, controlVars, callVars, DiskInv, StoredOnDisk,
              ContentOnDisk, ContentIn, BeingWritten, Writing, NextUpload, IsRecorded, Running
<1> QED
  BY <1>1, <1>2, <1>3, <1>4, <1>5, StepTakesEdge

LEMMA InitDisk == Init => DiskInv
<1> SUFFICES ASSUME Init PROVE DiskInv
  OBVIOUS
<1>1. /\ recorded = {} /\ \A j \in Jobs : outputs[j] = {}
      /\ \A c \in Imports : ~Running(c)
  BY ActorFacts DEF Init, StorageInit, Running
<1> QED
  BY <1>1, OrchestratorAssumption DEF DiskInv, StoredOnDisk, IsRecorded

\* DiskInv holds throughout: which files a restart has not taken.
THEOREM DiskInvariant == Spec => []DiskInv
<1>1. /\ BridgeTypeOK /\ IntakeInv /\ ModesInv /\ BackedInv /\ DiskInv /\ [Next]_vars
      => DiskInv'
  BY NextDisk
<1> QED
  BY <1>1, InitDisk, TypeCorrect, IntakeInvariant, ModesInvariant, BackedInvariant, PTL
     DEF Spec

\* Until a restart the content of every file that a complete manual job names is on the
\* disk, also when manual-complete calls that carry the same file overlap.
THEOREM ImportsAreOnDiskAlways == Spec => []ImportsAreOnDisk
<1>1. DiskInv => ImportsAreOnDisk
  BY DEF DiskInv, ContentOnDisk, ContentIn, ImportsAreOnDisk
<1> QED
  BY <1>1, DiskInvariant, PTL

-----------------------------------------------------------------------------
(* What a job shows where its owner stands, in the first life of the process *)

Stopped == {"cancelling", "cancelled"}

\* The label of a worker with no UPDATE under way, and the status of its job.
StatusAt ==
    ({"start", "flag", "prepare", "submit", "submit_mark"} \X {"queued_local"})
    \cup ({"handoff", "await_result"} \X {"awaiting_manual_provider_submission"})
    \cup ({"submit_flag", "remote_submit", "record_remote"} \X {"submitting_remote"})
    \cup ({"poll_enter"} \X {"polling_remote", "failed"})
    \cup ({"poll", "ask", "retry", "gone", "ready"} \X {"polling_remote"})
    \cup ({"download", "write_file", "attach", "complete"} \X {"downloading"})

CreateOnTrack ==
    \A j \in Jobs : status[j] \notin Stopped =>
        /\ pc[j] \in {"enqueue_read", "enqueue_mark"} => status[j] = "created"
        /\ At(j, "enqueue_put") \/ OnQueue(j) => status[j] = "queued_local"

WorkerOnTrack ==
    (pc[Worker] # "idle" /\ txn[Worker] = NoTxn /\ status[Job] \notin Stopped) =>
        /\ <<pc[Worker], status[Job]>> \in StatusAt
        /\ (pc[Worker] = "poll_enter" /\ status[Job] = "polling_remote") => remote[Job]

ImportsOnTrack ==
    \A c \in Imports, j \in Jobs :
        (Running(c) /\ txn[c] = NoTxn /\ target[c] = j /\ status[j] \notin Stopped) =>
            \/ status[j] = "complete"
            \/ status[j] = "importing_provider_result" /\ pc[c] # "return"

\* What has a remote id, or is being given one, the provider knows.
RemoteIsKnown ==
    \A j \in MockJobs :
        (remote[j] \/ (txn[Worker] # NoTxn /\ txn[Worker].job = j /\ txn[Worker].remote))
            => provider[j] # Unknown

FlowInv ==
    boots = 0 => CreateOnTrack /\ WorkerOnTrack /\ ImportsOnTrack /\ RemoteIsKnown

\* An UPDATE that hits a job whose owner is not its caller is that of a cancel call.
LEMMA StrangersCancel ==
    ASSUME BridgeTypeOK, IntakeInv, PendingInv, DeliveryInv, UserInv, LoopInv,
           NEW p \in Actors, txn[p] # NoTxn, NEW j \in Jobs, txn[p].job = j,
           \/ OnQueue(j)
           \/ Enqueueing(j) /\ p # j
           \/ Job = j /\ p # Worker
           \/ \E c \in Imports : Running(c) /\ target[c] = j /\ p # c /\ ~At(c, "import_upload")
           \/ \E c \in Imports :
                 Running(c) /\ target[c] = j /\ txn[c] = NoTxn /\ p \notin Imports
    PROVE  txn[p].to \in Stopped
<1>1. CASE p \in Cancels
  BY <1>1 DEF PendingInv, CallUpdate, Calls, Stopped
<1>2. CASE p = Worker
  BY <1>2 DEF DeliveryInv, UserInv, Retired
<1>3. CASE p \in Jobs
  <2>1. p = j /\ Enqueueing(j)
    BY <1>3 DEF PendingInv, CallUpdate, Calls, Running, IntakeInv, Enqueueing
  <2> QED
    BY <2>1 DEF DeliveryInv, UserInv, Retired
<1>4. CASE p \in Imports
  <2>1. CallUpdate(p) /\ Running(p) /\ target[p] = j /\ ~At(p, "import_upload")
    BY <1>4 DEF PendingInv, CallUpdate, Calls, Running, At
  <2>2. Retired(j)
    BY <1>4, <2>1 DEF UserInv
  <2>3. ASSUME NEW c \in Imports, Running(c), p # c
        PROVE  At(c, "import_upload")
    BY <1>4, <2>1, <2>3, BridgeAssumption DEF LoopInv, Calls
  <2> QED
    BY <1>4, <2>2, <2>3 DEF Retired
<1> QED
  BY <1>1, <1>2, <1>3, <1>4, BridgeAssumption DEF Calls

LEMMA WorkerStaysOnTrack ==
    ASSUME BridgeTypeOK, PendingInv, ModesInv, DeliveryInv, CreateOnTrack, WorkerOnTrack,
           RemoteIsKnown, WorkerEdge
    PROVE  WorkerOnTrack'
<1>0. UNCHANGED <<status, remote>> /\ txn[Worker] = NoTxn
  BY DEF WorkerEdge, WorkerEffects
<1> SUFFICES ASSUME pc'[Worker] # "idle", txn'[Worker] = NoTxn,
                    status[target'[Worker]] \notin Stopped
             PROVE  /\ <<pc'[Worker], status[target'[Worker]]>> \in StatusAt
                    /\ (/\ pc'[Worker] = "poll_enter"
                        /\ status[target'[Worker]] = "polling_remote")
                           => remote[target'[Worker]]
  BY <1>0 DEF WorkerOnTrack, Job
<1>1. CASE TakesJob
  <2>1. Head(queue) \in Jobs /\ OnQueue(Head(queue))
    BY <1>1, HeadAndTail DEF TakesJob, OnQueue, BridgeTypeOK
  <2> QED
    BY <1>1, <2>1 DEF TakesJob, Moves, CreateOnTrack, StatusAt
<1>2. CASE ~TakesJob
  <2>0. /\ JobKept /\ target'[Worker] = Job /\ Job \in Jobs
        /\ DeliveryEdge \/ ManualEdge \/ SubmitEdge \/ PollEdge \/ DownloadEdge
    BY <1>2 DEF WorkerEdge, JobKept, BridgeTypeOK, Job
  <2>00. /\ <<pc[Worker], status[Job]>> \in StatusAt /\ status[Job] \notin Stopped
         /\ (pc[Worker] = "poll_enter" /\ status[Job] = "polling_remote") => remote[Job]
    BY <1>0, <2>0 DEF WorkerOnTrack, JobKept
  <2>a. /\ ~Accepts(Job, "submitting_remote") => pc[Worker] # "submit_mark"
        /\ Terminal(Job) => status[Job] \in {"complete", "failed"}
    BY <2>00 DEF Accepts, ValidTransition, AllowedTransitions, StatusAt, Terminal,
                 TerminalStates, Stopped
  <2>b. pc[Worker] = "flag" /\ Job \notin Manual => ~remote[Job]
    BY <1>0, <2>0
       DEF RemoteIsKnown, MockJobs, DeliveryInv, KnownLabels, PollLabels, AnsweredLabels
  <2>1. CASE DeliveryEdge
    BY <2>0, <2>00, <2>a, <2>b, <2>1
       DEF DeliveryEdge, Writes, Opens, Refuses, Moves, StatusAt
  <2>2. CASE ManualEdge
    BY <2>0, <2>00, <2>2 DEF ManualEdge, Writes, Opens, Refuses, Moves, StatusAt
  <2>3. CASE SubmitEdge
    BY <2>0, <2>00, <2>a, <2>3
       DEF SubmitEdge, Writes, Opens, Refuses, Moves, StatusAt, Stopped
  <2>4. CASE PollEdge
    BY <2>0, <2>00, <2>a, <2>4
       DEF PollEdge, Writes, Opens, Refuses, Moves, StatusAt, Terminal, TerminalStates
  <2>5. CASE DownloadEdge
    BY <2>0, <2>00, <2>5 DEF DownloadEdge, Writes, Opens, Refuses, Moves, StatusAt
  <2> QED
    BY <2>0, <2>1, <2>2, <2>3, <2>4, <2>5
<1> QED
  BY <1>1, <1>2

LEMMA WorkerKeepsFlow ==
    ASSUME BridgeTypeOK, PendingInv, ModesInv, DeliveryInv, FlowInv, WorkerEdge
    PROVE  FlowInv'
<1> SUFFICES ASSUME boots = 0
             PROVE  (CreateOnTrack /\ WorkerOnTrack /\ ImportsOnTrack /\ RemoteIsKnown)'
  BY DEF FlowInv, WorkerEdge, WorkerEffects
<1>0. CreateOnTrack /\ WorkerOnTrack /\ ImportsOnTrack /\ RemoteIsKnown
  BY DEF FlowInv
<1>1. /\ UNCHANGED <<status, remote>>
      /\ \A c \in Calls : pc'[c] = pc[c] /\ target'[c] = target[c] /\ txn'[c] = txn[c]
      /\ queue \in Seq(Jobs) /\ txn[Worker] = NoTxn
  BY DEF WorkerEdge, WorkerEffects, CallsKept, BridgeTypeOK
<1>2. CreateOnTrack'
  <2>1. \A j \in Jobs : OnQueue(j)' => OnQueue(j)
    <3>1. CASE TakesJob
      BY <1>1, <3>1, HeadAndTail DEF TakesJob, OnQueue
    <3>2. CASE ~TakesJob
      BY <3>2 DEF WorkerEdge, OnQueue
    <3> QED
      BY <3>1, <3>2
  <2> QED
    BY <1>0, <1>1, <2>1 DEF CreateOnTrack, At, Calls
<1>3. WorkerOnTrack'
  BY <1>0, WorkerStaysOnTrack
<1>4. ImportsOnTrack'
  BY <1>0, <1>1 DEF ImportsOnTrack, Running, Calls
<1>5. RemoteIsKnown'
  <2>1. \A j \in Jobs : provider[j] # Unknown => provider'[j] # Unknown
    <3> SUFFICES ASSUME NEW j \in Jobs, provider[j] # Unknown, provider'[j] = Unknown
                 PROVE  FALSE
      OBVIOUS
    <3>1. j = Job /\ pc[Worker] = "remote_submit" /\ pc'[Worker] = "record_remote"
      BY DEF WorkerEdge, WorkerEffects
    <3> QED
      BY <3>1 DEF DeliveryInv, KnownLabels, PollLabels, AnsweredLabels
  <2>2. ASSUME txn'[Worker] # NoTxn, txn'[Worker].remote, txn'[Worker].job \in MockJobs
        PROVE  provider[txn'[Worker].job] # Unknown
    <3> USE DEF Writes, Opens, Refuses, Moves
    <3>1. CASE DeliveryEdge \/ SubmitEdge
      BY <2>2, <3>1 DEF DeliveryEdge, SubmitEdge, DeliveryInv
    <3>2. CASE ManualEdge
      BY <2>2, <3>2 DEF ManualEdge, ModesInv, WorkerInMode, ManualLabels, MockJobs
    <3>3. CASE PollEdge \/ DownloadEdge
      BY <2>2, <3>3 DEF PollEdge, DownloadEdge
    <3> QED
      BY <2>2, <3>1, <3>2, <3>3 DEF WorkerEdge, TakesJob
  <2> QED
    BY <1>0, <1>1, <2>1, <2>2 DEF RemoteIsKnown, MockJobs
<1> QED
  BY <1>2, <1>3, <1>4, <1>5

LEMMA CommitKeepsFlow ==
    ASSUME BridgeTypeOK, IntakeInv, PendingInv, ModesInv, DeliveryInv, UserInv, LoopInv,
           FlowInv, NEW p \in Actors, CommitEdge(p)
    PROVE  FlowInv'
<1> SUFFICES ASSUME boots = 0
             PROVE  (CreateOnTrack /\ WorkerOnTrack /\ ImportsOnTrack /\ RemoteIsKnown)'
  BY DEF FlowInv, CommitEdge
<1>0. CreateOnTrack /\ WorkerOnTrack /\ ImportsOnTrack /\ RemoteIsKnown
  BY DEF FlowInv
<1> DEFINE i == txn[p].job
<1>1. /\ txn[p] # NoTxn /\ txn'[p] = NoTxn /\ i \in Jobs
      /\ \A q \in Actors : q # p => txn'[q] = txn[q]
      /\ UNCHANGED <<pc, target, queue, provider>>
      /\ status'[i] = txn[p].to
      /\ \A j \in Jobs : j # i => status'[j] = status[j] /\ remote'[j] = remote[j]
      /\ remote'[i] = (remote[i] \/ txn[p].remote)
      /\ \A j \in Jobs : remote[j] \in BOOLEAN
  BY DEF CommitEdge, BridgeTypeOK, StorageTypeOK, StatusUpdate
<1>2. \A j \in Jobs : Enqueueing(j) /\ p # j /\ j = i => txn[p].to \in Stopped
  BY <1>1, StrangersCancel
<1>3. \A j \in Jobs : OnQueue(j) /\ j = i => txn[p].to \in Stopped
  BY <1>1, StrangersCancel
<1>4. Job = i /\ p # Worker => txn[p].to \in Stopped
  BY <1>1, StrangersCancel
<1>5. CreateOnTrack'
  <2> SUFFICES ASSUME NEW j \in Jobs, status'[j] \notin Stopped
               PROVE  /\ pc[j] \in {"enqueue_read", "enqueue_mark"} => status'[j] = "created"
                      /\ At(j, "enqueue_put")' \/ OnQueue(j) => status'[j] = "queued_local"
    BY <1>1 DEF CreateOnTrack, OnQueue
  <2>1. CASE j # i
    <3>1. At(j, "enqueue_put")' => At(j, "enqueue_put") \/ p = j
      BY <1>1, ActorFacts DEF At
    <3>2. p # j
      BY <1>1, <2>1, ActorFacts DEF PendingInv, CallUpdate, IntakeInv, Running
    <3> QED
      BY <1>0, <1>1, <2>1, <3>1, <3>2 DEF CreateOnTrack
  <2>2. CASE j = i
    <3>1. CASE p = j
      <4>1. pc[j] = "enqueue_put" /\ txn[p].to = "queued_local"
        BY <1>1, <3>1, ActorFacts DEF PendingInv, CallUpdate
      <4> QED
        BY <1>1, <2>2, <4>1
    <3>2. CASE p # j
      BY <1>1, <1>2, <1>3, <2>2, <3>2 DEF Enqueueing, At
    <3> QED
      BY <3>1, <3>2
  <2> QED
    BY <2>1, <2>2
<1>6. WorkerOnTrack'
  <2> SUFFICES ASSUME pc[Worker] # "idle", txn'[Worker] = NoTxn, status'[Job] \notin Stopped
               PROVE  /\ <<pc[Worker], status'[Job]>> \in StatusAt
                      /\ (pc[Worker] = "poll_enter" /\ status'[Job] = "polling_remote")
                             => remote'[Job]
    BY <1>1 DEF WorkerOnTrack, Job
  <2>0. Job \in Jobs
    BY DEF BridgeTypeOK, Job
  <2>1. CASE p = Worker
    <3>1. /\ Job = i /\ <<pc[Worker], txn[Worker].to>> \in UpdatesAt
          /\ txn[Worker].remote <=> <<pc[Worker], txn[Worker].to>> \in RemoteUpdatesAt
      BY <1>1, <2>1 DEF PendingInv, WorkerUpdate
    <3>2. /\ <<pc[Worker], txn[Worker].to>> \in StatusAt
          /\ (pc[Worker] = "poll_enter" /\ txn[Worker].to = "polling_remote")
                 => txn[Worker].remote
      BY <1>1, <2>1, <3>1 DEF UpdatesAt, RemoteUpdatesAt, StatusAt, Stopped
    <3> QED
      BY <1>1, <2>1, <3>1, <3>2
  <2>2. CASE p # Worker
    <3>1. Job # i
      BY <1>1, <1>4, <2>2
    <3> QED
      BY <1>0, <1>1, <2>0, <2>2, <3>1, OrchestratorAssumption DEF WorkerOnTrack
  <2> QED
    BY <2>1, <2>2
<1>7. ImportsOnTrack'
  <2> SUFFICES ASSUME NEW c \in Imports, NEW j \in Jobs, Running(c), txn'[c] = NoTxn,
                      target[c] = j, status'[j] \notin Stopped
               PROVE  \/ status'[j] = "complete"
                      \/ status'[j] = "importing_provider_result" /\ pc[c] # "return"
    BY <1>1 DEF ImportsOnTrack, Running
  <2>0. c \in Calls /\ c \in Actors
    BY ActorFacts DEF Calls
  <2>1. CASE p = c
    <3>1. i = target[c] /\ (\/ pc[c] = "import_upload"
                               /\ txn[c].to = "importing_provider_result"
                            \/ pc[c] = "return" /\ txn[c].to = "complete")
      BY <1>1, <2>0, <2>1 DEF PendingInv, CallUpdate
    <3> QED
      BY <1>1, <2>1, <3>1
  <2>2. CASE p # c /\ j # i
    BY <1>0, <1>1, <2>0, <2>2 DEF ImportsOnTrack
  <2>3. CASE p # c /\ j = i
    <3>1. txn[c] = NoTxn /\ p \in Imports /\ At(c, "import_upload")
      BY <1>1, <2>0, <2>3, StrangersCancel
    <3>2. txn[p].to \in {"importing_provider_result", "complete"}
      BY <1>1, <3>1 DEF PendingInv, CallUpdate, Calls
    <3> QED
      BY <1>1, <2>3, <3>1, <3>2 DEF At
  <2> QED
    BY <2>1, <2>2, <2>3
<1>8. RemoteIsKnown'
  <2>1. p # Worker => ~txn[p].remote
    BY <1>1, BridgeAssumption DEF PendingInv, CallUpdate
  <2>2. txn'[Worker] # NoTxn => txn'[Worker] = txn[Worker]
    BY <1>1, OrchestratorAssumption
  <2> QED
    BY <1>0, <1>1, <2>1, <2>2 DEF RemoteIsKnown, MockJobs
<1> QED
  BY <1>5, <1>6, <1>7, <1>8

LEMMA CallKeepsFlow ==
    ASSUME BridgeTypeOK, IntakeInv, PendingInv, PendingInv', DeliveryInv, UserInv', FlowInv,
           NEW c \in Calls, CallEdge(c)
    PROVE  FlowInv'
<1>0. /\ CallEffects(c)
      /\ UNCHANGED <<pc[Worker], target[Worker], txn[Worker], remote, boots>>
      /\ \A d \in Calls \ {c} : UNCHANGED <<pc[d], target[d], txn[d]>>
      /\ SameKnowledge
  BY CallEdgeEffects DEF CallEffects
<1> SUFFICES ASSUME boots = 0
             PROVE  (CreateOnTrack /\ WorkerOnTrack /\ ImportsOnTrack /\ RemoteIsKnown)'
  BY <1>0 DEF FlowInv
<1>00. CreateOnTrack /\ WorkerOnTrack /\ ImportsOnTrack /\ RemoteIsKnown
  BY DEF FlowInv
<1>1. \A j \in Jobs : \/ status'[j] = status[j]
                      \/ j = c /\ ~Exists(j) /\ pc'[j] = "enqueue_read" /\ status'[j] = "created"
                         /\ queue' = queue
  BY CallEdgeEffects DEF BridgeTypeOK, StorageTypeOK, At
<1>2. CreateOnTrack'
  <2> SUFFICES ASSUME NEW j \in Jobs, status'[j] \notin Stopped
               PROVE  /\ pc'[j] \in {"enqueue_read", "enqueue_mark"} => status'[j] = "created"
                      /\ At(j, "enqueue_put")' \/ OnQueue(j)' => status'[j] = "queued_local"
    BY DEF CreateOnTrack
  <2>1. OnQueue(j)' => OnQueue(j) \/ (j = c /\ At(c, "enqueue_put"))
    <3>1. CASE queue' = queue
      BY <3>1 DEF OnQueue
    <3>2. CASE queue' # queue
      <4>1. c \in Jobs /\ At(c, "enqueue_put") /\ queue' = Append(queue, c)
        BY <3>2, CallEdgeEffects
      <4>2. queue \in Seq(Jobs)
        BY DEF BridgeTypeOK
      <4> QED
        BY <4>1, <4>2, AppendedLast DEF OnQueue
    <3> QED
      BY <3>1, <3>2
  <2>2. CASE ~Exists(j) /\ status'[j] # status[j]
    <3>1. ~OnQueue(j)'
      BY <1>1, <2>2 DEF IntakeInv, OnQueue
    <3> QED
      BY <1>1, <2>2, <3>1 DEF At
  <2>3. CASE status'[j] = status[j] /\ j # c
    BY <1>0, <1>00, <2>1, <2>3, ActorFacts DEF CreateOnTrack, At
  <2>4. CASE status'[j] = status[j] /\ j = c
    <3>1. At(j, "enqueue_put") \/ OnQueue(j) => status'[j] = "queued_local"
      BY <1>00, <2>4 DEF CreateOnTrack
    <3>2. pc[j] \in {"enqueue_read", "enqueue_mark"} => status'[j] = "created"
      BY <1>00, <2>4 DEF CreateOnTrack
    <3>3. \/ CreateEdge(j) \/ ReturnEdge(j)
      BY <2>4, BridgeAssumption DEF CallEdge
    <3>4. CASE pc[j] = "not_started"
      BY <1>1, <2>1, <2>4, <3>1, <3>3, <3>4
         DEF CreateEdge, ReturnEdge, At, CallMoves, CallOpens, CallRefuses, Exists,
             BridgeTypeOK, StorageTypeOK
    <3>5. CASE pc[j] # "not_started"
      <4>1. OnQueue(j)' => status'[j] = "queued_local"
        BY <2>1, <2>4, <3>1
      <4>2. CASE ReturnEdge(j)
        BY <4>1, <4>2 DEF ReturnEdge, At, CallMoves
      <4>3. CASE CreateEdge(j)
        <5>1. At(j, "enqueue_put")' => FALSE
          BY <2>4, <3>2, <3>5, <4>3
             DEF CreateEdge, At, CallMoves, CallOpens, CallRefuses
        <5>2. pc'[j] \in {"enqueue_read", "enqueue_mark"} => status'[j] = "created"
          BY <2>4, <3>5, <4>3 DEF CreateEdge, CallMoves, CallOpens, CallRefuses
        <5> QED
          BY <4>1, <5>1, <5>2
      <4> QED
        BY <3>3, <4>2, <4>3
    <3> QED
      BY <3>4, <3>5
  <2> QED
    BY <1>1, <2>2, <2>3, <2>4
<1>3. WorkerOnTrack'
  <2>1. pc[Worker] # "idle" => Job \in Jobs /\ status'[Job] = status[Job]
    BY <1>1 DEF BridgeTypeOK, IntakeInv, Job
  <2> QED
    BY <1>0, <1>00, <2>1 DEF WorkerOnTrack, Job
<1>4. ImportsOnTrack'
  <2> SUFFICES ASSUME NEW d \in Imports, NEW j \in Jobs, Running(d)', txn'[d] = NoTxn,
                      target'[d] = j, status'[j] \notin Stopped
               PROVE  \/ status'[j] = "complete"
                      \/ status'[j] = "importing_provider_result" /\ pc'[d] # "return"
    BY DEF ImportsOnTrack
  <2>0. d \in Calls
    BY DEF Calls
  <2>1. CASE d # c
    <3>1. Running(d) /\ txn[d] = NoTxn /\ target[d] = j /\ pc'[d] = pc[d]
      BY <1>0, <2>0, <2>1 DEF Running
    <3>2. status'[j] = status[j]
      BY <1>1, <2>0, <3>1 DEF IntakeInv
    <3> QED
      BY <1>00, <3>1, <3>2 DEF ImportsOnTrack
  <2>2. CASE d = c
    <3>1. status' = status
      BY <2>2, CallEdgeEffects, BridgeAssumption
    <3>2. ImportEdge(c) \/ ReturnEdge(c)
      BY <2>2, BridgeAssumption DEF CallEdge
    <3>3. Running(c) /\ txn[c] = NoTxn /\ target[c] = j /\ (pc'[c] = "return" => FALSE)
      BY <1>0, <2>2, <3>2
         DEF ImportEdge, ReturnEdge, Stores, CallMoves, CallOpens, CallRefuses, Running, At,
             CallEffects, PendingInv, CallUpdate
    <3> QED
      BY <1>00, <2>2, <3>1, <3>3 DEF ImportsOnTrack
  <2> QED
    BY <2>1, <2>2
<1>5. RemoteIsKnown'
  BY <1>0, <1>00 DEF RemoteIsKnown, SameKnowledge, MockJobs
<1> QED
  BY <1>2, <1>3, <1>4, <1>5

LEMMA NextFlow ==
    ASSUME BridgeTypeOK, IntakeInv, PendingInv, PendingInv', ModesInv, DeliveryInv, UserInv,
           UserInv', LoopInv, FlowInv, [Next]_vars
    PROVE  FlowInv'
<1>1. CASE RestartEdge
  BY <1>1 DEF RestartEdge, FlowInv
<1>2. CASE UNCHANGED vars
  BY <1>2 DEF vars, storageVars, rowVars, memoryVars, controlVars, FlowInv, CreateOnTrack,
              WorkerOnTrack, ImportsOnTrack, RemoteIsKnown, OnQueue, Running, At, Job
<1> QED
  BY <1>1, <1>2, StepTakesEdge, WorkerKeepsFlow, CommitKeepsFlow, CallKeepsFlow

LEMMA InitFlow == Init => FlowInv
<1> SUFFICES ASSUME Init PROVE FlowInv
  OBVIOUS
<1>1. /\ queue = <<>> /\ pc[Worker] = "idle"
      /\ \A j \in Jobs : ~remote[j] /\ pc[j] = "not_started"
      /\ \A c \in Imports : ~Running(c)
      /\ txn[Worker] = NoTxn
  BY ActorFacts DEF Init, StorageInit, Running, Calls
<1> QED
  BY <1>1 DEF FlowInv, CreateOnTrack, WorkerOnTrack, ImportsOnTrack, RemoteIsKnown, OnQueue,
              At, MockJobs

\* FlowInv holds throughout: what a job shows tells where its owner stands.
THEOREM FlowInvariant == Spec => []FlowInv
<1>1. /\ BridgeTypeOK /\ IntakeInv /\ PendingInv /\ PendingInv' /\ ModesInv /\ DeliveryInv
      /\ UserInv /\ UserInv' /\ LoopInv /\ FlowInv /\ [Next]_vars
      => FlowInv'
  BY NextFlow
<1> QED
  BY <1>1, InitFlow, TypeCorrect, IntakeInvariant, PendingInvariant, ModesInvariant,
     DeliveryInvariant, UserInvariant, LoopInvariant, PTL DEF Spec

-----------------------------------------------------------------------------
(* No job is left without an owner *)

\* Nothing more is done about j unless a client asks: it is terminal, or being
\* cancelled, or waits for its user, or its submit raised.
Settled(j) ==
    Terminal(j) \/ status[j] = "cancelling" \/ HandedToUser(j) \/ StuckInSubmit(j)

Importing(j) == \E c \in Imports : Running(c) /\ target[c] = j
WorkerWrites(j) == txn[Worker] # NoTxn /\ txn[Worker].job = j
Owned(j) ==
    OnQueue(j) \/ Job = j \/ Enqueueing(j) \/ WorkerWrites(j) \/ Importing(j)

OwnerInv == boots = 0 => \A j \in Jobs : Exists(j) => Settled(j) \/ Owned(j)

\* Whatever the worker gives up without an UPDATE under way is settled: no exception
\* that process_one swallows leaves another job behind.
LEMMA LetGoIsSettled ==
    ASSUME BridgeTypeOK, PendingInv, ModesInv, RemoteInv, FlowInv, boots = 0,
           WorkerEdge, ~TakesJob, pc'[Worker] = "idle", txn'[Worker] = NoTxn
    PROVE  Settled(Job)
<1>1. /\ JobKept /\ pc[Worker] # "idle" /\ Job \in Jobs /\ txn[Worker] = NoTxn
      /\ DeliveryEdge \/ ManualEdge \/ SubmitEdge \/ PollEdge \/ DownloadEdge
  BY DEF WorkerEdge, JobKept, BridgeTypeOK, Job
<1> SUFFICES ASSUME status[Job] \notin Stopped
             PROVE  Terminal(Job) \/ StuckInSubmit(Job)
  BY DEF Settled, Stopped, Terminal, TerminalStates
<1>2. /\ <<pc[Worker], status[Job]>> \in StatusAt
      /\ (pc[Worker] = "poll_enter" /\ status[Job] = "polling_remote") => remote[Job]
  BY <1>1 DEF FlowInv, WorkerOnTrack
<1>3. pc[Worker] = "ask" => provider[Job] # Unknown
  BY <1>1 DEF FlowInv, RemoteIsKnown, RemoteInv, PollLabels, ModesInv, WorkerInMode,
              MockLabels
<1> USE DEF Writes, Opens, Refuses, Moves, StatusAt, Accepts, ValidTransition,
            AllowedTransitions
<1>4. CASE DeliveryEdge
  BY <1>1, <1>2, <1>4 DEF DeliveryEdge
<1>5. CASE ManualEdge
  <2>1. Job \in Manual
    BY <1>5 DEF ManualEdge, ModesInv, WorkerInMode, ManualLabels
  <2> QED
    BY <1>1, <1>2, <1>5, <2>1 DEF ManualEdge, StuckInSubmit
<1>6. CASE SubmitEdge
  <2>1. Job \notin Manual
    BY <1>6 DEF SubmitEdge, ModesInv, WorkerInMode, MockLabels, SubmitLabels, MockJobs
  <2> QED
    BY <1>1, <1>2, <1>6, <2>1 DEF SubmitEdge, Stopped, StuckInSubmit
<1>7. CASE PollEdge
  BY <1>1, <1>2, <1>3, <1>7 DEF PollEdge, Terminal, TerminalStates
<1>8. CASE DownloadEdge
  BY <1>1, <1>2, <1>8 DEF DownloadEdge
<1> QED
  BY <1>1, <1>4, <1>5, <1>6, <1>7, <1>8

LEMMA WorkerKeepsOwner ==
    ASSUME BridgeTypeOK, PendingInv, ModesInv, RemoteInv, FlowInv, OwnerInv, WorkerEdge
    PROVE  OwnerInv'
<1>0. /\ UNCHANGED <<status, boots>> /\ txn[Worker] = NoTxn /\ queue \in Seq(Jobs)
      /\ \A c \in Calls : pc'[c] = pc[c] /\ target'[c] = target[c]
  BY DEF WorkerEdge, WorkerEffects, CallsKept, BridgeTypeOK
<1> SUFFICES ASSUME boots = 0, NEW j \in Jobs, Exists(j), ~Settled(j)
             PROVE  Owned(j)'
  BY <1>0 DEF OwnerInv, Exists, Settled, Terminal, HandedToUser, StuckInSubmit
<1>1. Owned(j) /\ ~WorkerWrites(j)
  BY <1>0 DEF OwnerInv, WorkerWrites
<1>2. CASE Enqueueing(j) \/ Importing(j)
  BY <1>0, <1>2 DEF Owned, Enqueueing, Importing, Running, Calls
<1>3. CASE TakesJob
  <2>1. queue # <<>> /\ queue' = Tail(queue) /\ target'[Worker] = Head(queue)
    BY <1>3 DEF TakesJob
  <2>2. OnQueue(j) => OnQueue(j)' \/ j = Head(queue)
    BY SMTT(30), <1>0, <2>1, HeadAndTail DEF OnQueue
  <2>3. Job # j
    BY <1>3, BridgeAssumption DEF TakesJob, PendingInv
  <2> QED
    BY <1>1, <1>2, <2>1, <2>2, <2>3 DEF Owned, Job
<1>4. CASE ~TakesJob
  <2>1. JobKept /\ queue' = queue
    BY <1>4 DEF WorkerEdge
  <2>2. CASE OnQueue(j)
    BY <2>1, <2>2 DEF Owned, OnQueue
  <2>3. CASE Job = j
    <3>1. CASE pc'[Worker] # "idle"
      BY <2>1, <2>3, <3>1 DEF JobKept, Owned, Job
    <3>2. CASE pc'[Worker] = "idle" /\ txn'[Worker] # NoTxn
      <4>1. txn'[Worker].job = Job
        BY <1>4, <3>2 DEF WorkerEdge, DeliveryEdge, ManualEdge, SubmitEdge, PollEdge,
                          DownloadEdge, Writes, Opens, Refuses, Moves
      <4> QED
        BY <2>3, <3>2, <4>1 DEF Owned, WorkerWrites
    <3>3. CASE pc'[Worker] = "idle" /\ txn'[Worker] = NoTxn
      BY <1>4, <2>3, <3>3, LetGoIsSettled
    <3> QED
      BY <3>1, <3>2, <3>3
  <2> QED
    BY <1>1, <1>2, <2>2, <2>3 DEF Owned
<1> QED
  BY <1>3, <1>4

LEMMA CommitKeepsOwner ==
    ASSUME BridgeTypeOK, IntakeInv, PendingInv, ModesInv, OwnerInv, NEW p \in Actors,
           CommitEdge(p)
    PROVE  OwnerInv'
<1> DEFINE i == txn[p].job
<1>0. /\ UNCHANGED <<pc, target, queue, boots>> /\ txn[p] # NoTxn /\ i \in Jobs
      /\ \A q \in Actors : q # p => txn'[q] = txn[q]
      /\ status'[i] = txn[p].to
      /\ \A j \in Jobs : j # i => status'[j] = status[j]
  BY DEF CommitEdge, BridgeTypeOK, StorageTypeOK, StatusUpdate
<1> SUFFICES ASSUME boots = 0, NEW j \in Jobs, Exists(j)', ~Settled(j)'
             PROVE  Owned(j)'
  BY <1>0 DEF OwnerInv
<1>1. CASE j # i
  <2>1. Owned(j)
    BY <1>0, <1>1 DEF OwnerInv, Exists, Settled, Terminal, HandedToUser, StuckInSubmit
  <2>2. WorkerWrites(j) => WorkerWrites(j)'
    BY <1>0, <1>1, OrchestratorAssumption DEF WorkerWrites
  <2> QED
    BY <1>0, <2>1, <2>2 DEF Owned, OnQueue, Job, Enqueueing, Importing, Running
<1>2. CASE j = i /\ p = Worker
  <2>1. <<pc[Worker], txn[Worker].to>> \in UpdatesAt /\ (pc[Worker] # "idle" => i = Job)
    BY <1>0, <1>2 DEF PendingInv, WorkerUpdate
  <2>2. txn[Worker].to = "awaiting_manual_provider_result" => i \in Manual
    BY <1>0, <1>2, UpdatesKnowTheMode DEF ByHand, AwaitsFiles
  <2>3. pc[Worker] # "idle"
    BY <1>0, <1>2, <2>1, <2>2 DEF UpdatesAt, Settled, Terminal, TerminalStates, HandedToUser
  <2> QED
    BY <1>0, <1>2, <2>1, <2>3 DEF Owned, Job
<1>3. CASE j = i /\ p # Worker
  <2>1. p \in Calls /\ CallUpdate(p)
    BY <1>3, BridgeAssumption DEF PendingInv
  <2>2. p \notin Cancels
    BY <1>0, <1>3, <2>1 DEF CallUpdate, Settled, Terminal, TerminalStates
  <2>3. CASE p \in Jobs
    <3>1. pc[p] = "enqueue_put" /\ target[p] = i
      BY <1>0, <2>1, <2>3 DEF CallUpdate
    <3>2. p = i
      BY <2>3, <3>1 DEF IntakeInv, Running
    <3> QED
      BY <1>0, <1>3, <3>1, <3>2 DEF Owned, Enqueueing
  <2>4. CASE p \in Imports
    BY <1>0, <1>3, <2>1, <2>4 DEF CallUpdate, Owned, Importing, Running
  <2> QED
    BY <2>1, <2>2, <2>3, <2>4 DEF Calls
<1> QED
  BY <1>1, <1>2, <1>3

LEMMA CallKeepsOwner ==
    ASSUME BridgeTypeOK, IntakeInv, PendingInv, FlowInv, OwnerInv,
           NEW c \in Calls, CallEdge(c)
    PROVE  OwnerInv'
<1>0. /\ UNCHANGED <<target[Worker], txn[Worker], boots>>
      /\ \A d \in Calls \ {c} : UNCHANGED <<pc[d], target[d]>>
      /\ target'[c] = target[c] \/ ~Running(c)
      /\ queue \in Seq(Jobs)
  BY CallEdgeEffects DEF CallEffects, BridgeTypeOK, Running
<1> SUFFICES ASSUME boots = 0, NEW j \in Jobs, Exists(j)', ~Settled(j)'
             PROVE  Owned(j)'
  BY <1>0 DEF OwnerInv
<1>1. CASE status'[j] # status[j]
  <2>1. j = c /\ pc'[c] = "enqueue_read"
    BY <1>1, CallEdgeEffects DEF BridgeTypeOK, StorageTypeOK
  <2> QED
    BY <2>1 DEF Owned, Enqueueing
<1>2. CASE status'[j] = status[j]
  <2>0. Exists(j) /\ ~Settled(j) /\ Owned(j)
    BY <1>2 DEF OwnerInv, Exists, Settled, Terminal, HandedToUser, StuckInSubmit
  <2>00. status[j] \notin Stopped /\ ~Terminal(j)
    BY <2>0 DEF Settled, Stopped, Terminal, TerminalStates
  <2>1. CASE OnQueue(j)
    <3>1. OnQueue(j)'
      <4>1. queue' = queue \/ queue' = Append(queue, c)
        BY CallEdgeEffects
      <4> QED
        BY <1>0, <2>1, <4>1, AppendedLast DEF OnQueue
    <3> QED
      BY <3>1 DEF Owned
  <2>2. CASE Job = j \/ WorkerWrites(j)
    BY <1>0, <2>2 DEF Owned, Job, WorkerWrites
  <2>3. CASE Enqueueing(j)
    <3>1. CASE j # c
      BY <1>0, <2>3, <3>1, ActorFacts DEF Owned, Enqueueing
    <3>2. CASE j = c
      <4>1. CreateEdge(j)
        BY <2>3, <3>2, BridgeAssumption DEF CallEdge, ReturnEdge, At, Enqueueing
      <4>2. pc[j] \in {"enqueue_read", "enqueue_mark"} => status[j] = "created"
        BY <2>00 DEF FlowInv, CreateOnTrack
      <4>3. CASE queue' = Append(queue, j)
        <5>1. OnQueue(j)'
          BY <1>0, <4>3, AppendedLast DEF OnQueue
        <5> QED
          BY <5>1 DEF Owned
      <4>4. CASE queue' # Append(queue, j)
        <5>1. Enqueueing(j)'
          BY <2>00, <2>3, <4>1, <4>2, <4>4
             DEF CreateEdge, Enqueueing, CallMoves, CallOpens, CallRefuses, Accepts,
                 ValidTransition, AllowedTransitions
        <5> QED
          BY <5>1 DEF Owned
      <4> QED
        BY <4>3, <4>4
    <3> QED
      BY <3>1, <3>2
  <2>4. CASE Importing(j)
    <3>1. PICK d \in Imports : Running(d) /\ target[d] = j
      BY <2>4 DEF Importing
    <3>2. CASE d # c
      BY <1>0, <3>1, <3>2 DEF Owned, Importing, Running, Calls
    <3>3. CASE d = c
      <4>1. txn[c] = NoTxn \/ ~(At(c, "return") \/ pc[c] = "import_complete")
        BY <3>1, <3>3 DEF PendingInv, CallUpdate, At
      <4>2. txn[c] = NoTxn => status[j] = "importing_provider_result" /\ pc[c] # "return"
        BY <2>00, <3>1, <3>3 DEF FlowInv, ImportsOnTrack, Terminal, TerminalStates
      <4>3. ~ReturnEdge(c) /\ ImportEdge(c)
        BY <3>3, <4>2, BridgeAssumption DEF CallEdge, ReturnEdge, At
      <4>4. Running(c)'
        <5>1. pc[c] # "not_started" /\ target'[c] = j
          BY <1>0, <3>1, <3>3 DEF Running
        <5>2. pc[c] = "import_complete" => Accepts(target'[c], "complete")
          BY <4>1, <4>2, <5>1 DEF Accepts, ValidTransition, AllowedTransitions
        <5> QED
          BY <4>3, <5>1, <5>2
             DEF ImportEdge, Stores, CallMoves, CallOpens, CallRefuses, Running
      <4> QED
        BY <1>0, <3>1, <3>3, <4>4 DEF Owned, Importing
    <3> QED
      BY <3>2, <3>3
  <2> QED
    BY <2>0, <2>1, <2>2, <2>3, <2>4 DEF Owned
<1> QED
  BY <1>1, <1>2

LEMMA NextOwner ==
    ASSUME BridgeTypeOK, IntakeInv, PendingInv, ModesInv, RemoteInv, FlowInv, OwnerInv,
           [Next]_vars
    PROVE  OwnerInv'
<1>1. CASE RestartEdge
  BY <1>1 DEF RestartEdge, OwnerInv
<1>2. CASE UNCHANGED vars
  BY <1>2 DEF vars, storageVars, rowVars, memoryVars, controlVars, OwnerInv, Exists, Settled,
              Terminal, HandedToUser, StuckInSubmit, Owned, OnQueue, Enqueueing,
              WorkerWrites, Importing, Running, Job
<1> QED
  BY <1>1, <1>2, StepTakesEdge, WorkerKeepsOwner, CommitKeepsOwner, CallKeepsOwner

LEMMA InitOwner == Init => OwnerInv
BY DEF Init, StorageInit, OwnerInv, Exists

\* OwnerInv holds throughout: until a restart every job is settled or has an owner.
THEOREM OwnerInvariant == Spec => []OwnerInv
<1>1. /\ BridgeTypeOK /\ IntakeInv /\ PendingInv /\ ModesInv /\ RemoteInv /\ FlowInv
      /\ OwnerInv /\ [Next]_vars
      => OwnerInv'
  BY NextOwner
<1> QED
  BY <1>1, InitOwner, TypeCorrect, IntakeInvariant, PendingInvariant, ModesInvariant,
     RemoteInvariant, FlowInvariant, PTL DEF Spec

\* Until a restart, a job that everybody has let go of while it is not terminal is
\* being cancelled, manual and waiting for its files, or one whose submit raised.
THEOREM AbandonedForCauseAlways == Spec => []AbandonedForCause
<1>1. BridgeTypeOK /\ IntakeInv /\ OwnerInv => AbandonedForCause
  <2> SUFFICES ASSUME BridgeTypeOK, IntakeInv, OwnerInv, boots = 0, NEW j \in Jobs,
                      Abandoned(j)
               PROVE  Settled(j)
    BY DEF AbandonedForCause, Settled, Abandoned
  <2>1. ~OnQueue(j) /\ Job # j /\ ~WorkerWrites(j) /\ ~Importing(j)
    BY OrchestratorAssumption
       DEF Abandoned, UpdatePending, WorkerWrites, Importing, Calls
  <2>2. ~Enqueueing(j)
    BY ActorFacts DEF Abandoned, Enqueueing, Running, IntakeInv
  <2> QED
    BY <2>1, <2>2 DEF OwnerInv, Abandoned, Owned
<1> QED
  BY <1>1, TypeCorrect, IntakeInvariant, OwnerInvariant, PTL

==============================================================================
