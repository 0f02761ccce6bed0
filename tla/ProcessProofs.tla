--------------------------- MODULE ProcessProofs ---------------------------
(***************************************************************************)
(* Bridges of one user, any number of them: an app that is up has a worker *)
(* nobody told to end, the bridge that was started last can be found, and  *)
(* while lookups in the keychain do not fail the bridges that run have the *)
(* secret it holds, unless two were first at once.  As long as callers     *)
(* start one app at a time and no worker outlives its stop, one thread is  *)
(* at work, and each job is with it or once on a queue.                    *)
(***************************************************************************)
EXTENDS BridgeProcesses, FiniteSetTheorems, TLAPS

\* The port of a process that has a lockfile to write is one of the system's.
PortChosen ==
    \A a \in Apps : stage[a] \in {"bound", "closed", "keyless", "keyed"} => port[a] \in Ports

\* An app that is not up has forgotten its thread.
RestedHasNoThread ==
    \A a \in Apps : ~Running(a) => thread[a] = NoThread

\* Whoever announced itself last is past its bootstrap.
LastIsUp == \A a \in Apps : last = a => ~Booting(a) /\ stage[a] # "down"

\* The lockfile has its port, unless another bootstrap went for it and is not over.
LockfileOfLast ==
    ~abandoned /\ (\A b \in Apps : ~Booting(b)) =>
        \A a \in Apps : last = a => lockfile = port[a]

\* The system gives a port to one process at a time.
HoldersApart ==
    \A a, b \in Apps : Holds(a) /\ Holds(b) /\ a # b => port[a] # port[b]

\* Unless two were first at once, whoever is to make the secret does so alone, and
\* there is none before.
FirstIsAlone ==
    ~raced => \A a \in Apps : stage[a] = "keyless" =>
        /\ keychain = NoSecret
        /\ \A b \in Apps : stage[b] = "keyless" => b = a

\* A process has no secret before it has looked.
NoSecretYet ==
    \A a \in Apps : stage[a] \in {"down", "bound", "closed", "keyless"} => secret[a] = NoSecret

WorkerInv == ProcessTypeOK /\ PortChosen /\ RestedHasNoThread /\ UpHasWorker
SecretInv == FirstIsAlone /\ NoSecretYet /\ SecretsAgree

USE ProcessAssumption

-----------------------------------------------------------------------------
(* Types and workers *)

LEMMA WorkerInvInit == Init => WorkerInv
<1> SUFFICES ASSUME Init PROVE WorkerInv
  OBVIOUS
<1>1. WorkerTypeOK
  <2>1. queue \in [Apps -> Seq(Jobs)]
    <3>1. << >> \in Seq(Jobs)
      OBVIOUS
    <3> QED
      BY <3>1 DEF Init, WorkerInit
  <2>2. doing \in [Apps -> [Threads -> {"unborn", "waiting", "ended"} \cup Jobs]]
    BY DEF Init, WorkerInit
  <2> QED
    BY <2>1, <2>2 DEF Init, WorkerInit, WorkerTypeOK, NoThread
<1>2. ProcessTypeOK
  <2>1. made = 0 /\ made \in Nat /\ lives \in Nat /\ keychain \in 0 .. made
    BY DEF Init, NoSecret
  <2>4. raced \in BOOLEAN
    BY DEF Init
  <2>2. NoSecret \in 0 .. made
    BY <2>1 DEF NoSecret
  <2>3. /\ secret \in [Apps -> {DevSecret} \cup 0 .. made]
        /\ stage \in [Apps -> Stages] /\ port \in [Apps -> Ports \cup {DevPort}]
    BY <2>2 DEF Init, Stages
  <2> QED
    BY <1>1, <2>1, <2>3, <2>4 DEF Init, ProcessTypeOK
<1>3. \A a \in Apps : stage[a] = "down" /\ thread[a] = NoThread
  BY DEF Init, WorkerInit
<1> QED
  BY <1>2, <1>3 DEF WorkerInv, PortChosen, RestedHasNoThread, UpHasWorker

\* What is recovered is a sequence of jobs.
LEMMA RecoveredIsSeq == \A s \in Recovered : s \in Seq(Jobs)
<1> DEFINE open == {j \in Jobs : row[j] = "open"}
<1>1. IsFiniteSet(open)
  BY FS_Subset
<1>2. Cardinality(open) \in Nat
  BY <1>1, FS_CardinalityType
<1>3. \A s \in Recovered : s \in [1 .. Cardinality(open) -> open]
  BY DEF Recovered
<1> HIDE DEF open
<1>4. open \subseteq Jobs
  BY DEF open
<1>5. \A s \in [1 .. Cardinality(open) -> open] : s \in Seq(open)
  BY <1>2
<1> QED
  BY <1>3, <1>4, <1>5

\* A start gives an app that has forgotten its thread a new one.
LEMMA StartGivesWorker ==
    ASSUME WorkerTypeOK, NEW a \in Apps, thread[a] = NoThread, Start(a),
           breach' \subseteq {"shared", "outlived", "again"}
    PROVE  /\ WorkerTypeOK'
           /\ ~stop'[a] /\ thread'[a] # NoThread /\ doing'[a][thread'[a]] = "waiting"
           /\ \A b \in Apps : b # a => /\ stop'[b] = stop[b] /\ thread'[b] = thread[b]
                                       /\ doing'[b] = doing[b]
<1> USE DEF WorkerTypeOK, Threads, NoThread
<1>1. PICK i \in Threads :
          /\ doing[a][i] = "unborn"
          /\ stop' = [stop EXCEPT ![a] = FALSE]
          /\ thread' = [thread EXCEPT ![a] = i]
          /\ doing' = [doing EXCEPT ![a][i] = "waiting"]
  BY DEF Start, LoopStart
<1>2. PICK s \in Seq(Jobs) : queue' = [queue EXCEPT ![a] = queue[a] \o s]
  BY RecoveredIsSeq DEF Start
<1>3. doing'[a][i] = "waiting" /\ thread'[a] = i /\ ~stop'[a]
  BY <1>1
<1>4. doing' \in [Apps -> [Threads -> {"unborn", "waiting", "ended"} \cup Jobs]]
  BY <1>1
<1>5. queue[a] \in Seq(Jobs)
  OBVIOUS
<1>6. queue[a] \o s \in Seq(Jobs)
  BY <1>2, <1>5
<1>7. row' = row /\ queue' \in [Apps -> Seq(Jobs)]
  BY <1>2, <1>6 DEF Start
<1>8. stop' \in [Apps -> BOOLEAN] /\ thread' \in [Apps -> Threads \cup {NoThread}]
  BY <1>1
<1>9. \A b \in Apps : b # a => /\ stop'[b] = stop[b] /\ thread'[b] = thread[b]
                                /\ doing'[b] = doing[b]
  BY <1>1
<1>10. thread'[a] # NoThread /\ doing'[a][thread'[a]] = "waiting"
  BY <1>3
<1> QED
  BY <1>3, <1>4, <1>7, <1>8, <1>9, <1>10

\* The other operations of the workers keep the types, and none of them but Loop
\* and the end of the process lets a thread end.
LEMMA WorkersKeepTypes ==
    ASSUME WorkerTypeOK, NEW a \in Apps,
           \/ StopSet(a) \/ StopJoin(a) \/ Vanish(a) \/ WorkerStep(a)
           \/ \E j \in Jobs : CreateJob(a, j)
           \/ UNCHANGED workerVars
    PROVE  WorkerTypeOK'
<1> USE DEF WorkerTypeOK, NoThread
<1>1. CASE StopSet(a)
  BY <1>1 DEF StopSet
<1>2. CASE StopJoin(a)
  BY <1>2 DEF StopJoin
<1>3. CASE Vanish(a)
  <2>1. << >> \in Seq(Jobs)
    OBVIOUS
  <2>2. [i \in Threads |-> "unborn"] \in [Threads -> {"unborn", "waiting", "ended"} \cup Jobs]
    OBVIOUS
  <2>3. queue' \in [Apps -> Seq(Jobs)]
    BY <1>3, <2>1 DEF Vanish
  <2>4. doing' \in [Apps -> [Threads -> {"unborn", "waiting", "ended"} \cup Jobs]]
    BY <1>3, <2>2 DEF Vanish
  <2> QED
    BY <1>3, <2>3, <2>4 DEF Vanish
<1>4. ASSUME NEW i \in Threads, Loop(a, i) PROVE WorkerTypeOK'
  <2> DEFINE now == IF row[Head(queue[a])] = "open" THEN Head(queue[a]) ELSE "waiting"
  <2>1. CASE stop[a]
    <3>1. doing' = [doing EXCEPT ![a][i] = "ended"] /\ queue' = queue
      BY <1>4, <2>1 DEF Loop
    <3> QED
      BY <1>4, <3>1 DEF Loop
  <2>2. CASE ~stop[a]
    <3>1. queue[a] \in Seq(Jobs) /\ queue[a] # << >>
      BY <1>4, <2>2 DEF Loop
    <3>2. Head(queue[a]) \in Jobs /\ Tail(queue[a]) \in Seq(Jobs)
      BY <3>1
    <3>3. doing' = [doing EXCEPT ![a][i] = now] /\ queue' = [queue EXCEPT ![a] = Tail(queue[a])]
      BY <1>4, <2>2 DEF Loop
    <3>4. now \in {"waiting"} \cup Jobs
      BY <3>2
    <3> HIDE DEF now
    <3>5. doing' \in [Apps -> [Threads -> {"unborn", "waiting", "ended"} \cup Jobs]]
      BY <3>3, <3>4
    <3> QED
      BY <1>4, <3>2, <3>3, <3>5 DEF Loop
  <2> QED
    BY <2>1, <2>2
<1>5. ASSUME NEW i \in Threads, EndJob(a, i) PROVE WorkerTypeOK'
  BY <1>5 DEF EndJob
<1>6. ASSUME NEW j \in Jobs, CreateJob(a, j) PROVE WorkerTypeOK'
  <2>1. Append(queue[a], j) \in Seq(Jobs)
    OBVIOUS
  <2> QED
    BY <1>6, <2>1 DEF CreateJob
<1>7. CASE UNCHANGED workerVars
  BY <1>7 DEF workerVars
<1> QED
  BY <1>1, <1>2, <1>3, <1>4, <1>5, <1>6, <1>7 DEF WorkerStep

\* A worker that nobody told to end goes on, whatever it does next.
LEMMA WorkGoesOn ==
    ASSUME WorkerTypeOK, NEW a \in Apps, WorkerStep(a), NEW b \in Apps,
           ~stop[b], thread[b] # NoThread, Alive(b, thread[b])
    PROVE  ~stop'[b] /\ thread'[b] # NoThread /\ doing'[b][thread'[b]] \notin {"unborn", "ended"}
<1> USE DEF WorkerTypeOK, Alive, NoThread
<1>1. ASSUME NEW i \in Threads, Loop(a, i)
      PROVE  doing'[b][thread[b]] \notin {"unborn", "ended"}
  <2> DEFINE now == IF row[Head(queue[a])] = "open" THEN Head(queue[a]) ELSE "waiting"
  <2>1. CASE stop[a]
    BY <1>1, <2>1 DEF Loop
  <2>2. CASE ~stop[a]
    <3>1. queue[a] \in Seq(Jobs) /\ queue[a] # << >>
      BY <1>1, <2>2 DEF Loop
    <3>2. Head(queue[a]) \in Jobs
      BY <3>1
    <3>3. doing' = [doing EXCEPT ![a][i] = now]
      BY <1>1, <2>2 DEF Loop
    <3>4. now \notin {"unborn", "ended"}
      BY <3>2
    <3> HIDE DEF now
    <3> QED
      BY <3>3, <3>4
  <2> QED
    BY <2>1, <2>2
<1>2. ASSUME NEW i \in Threads, EndJob(a, i)
      PROVE  doing'[b][thread[b]] \notin {"unborn", "ended"}
  BY <1>2 DEF EndJob
<1>3. stop' = stop /\ thread' = thread
  BY DEF WorkerStep, Loop, EndJob
<1> QED
  BY <1>1, <1>2, <1>3 DEF WorkerStep

-----------------------------------------------------------------------------
(* The steps of the processes, for WorkerInv *)

\* A process that goes from one stage to another outside an app that is up, and
\* leaves the workers alone.
LEMMA BootKeepsWorkers ==
    ASSUME WorkerInv, NEW a \in Apps, NEW s \in Stages, Goto(a, s), UNCHANGED workerVars,
           ~Running(a), s \notin {"started", "serving", "stopping"}
    PROVE  /\ WorkerTypeOK' /\ stage' \in [Apps -> Stages]
           /\ RestedHasNoThread' /\ UpHasWorker'
<1> USE DEF WorkerInv, ProcessTypeOK, Goto, workerVars
<1>1. stage' \in [Apps -> Stages] /\ stage'[a] = s /\ \A b \in Apps : b # a => stage'[b] = stage[b]
  OBVIOUS
<1>2. WorkerTypeOK'
  BY WorkersKeepTypes
<1>3. RestedHasNoThread'
  BY <1>1 DEF RestedHasNoThread, Running
<1>4. UpHasWorker'
  BY <1>1 DEF UpHasWorker, Alive
<1> QED
  BY <1>1, <1>2, <1>3, <1>4

LEMMA DevBootstrapWorkerInv ==
    ASSUME WorkerInv, NEW a \in Apps, DevBootstrap(a) PROVE WorkerInv'
<1> USE DEF WorkerInv, ProcessTypeOK
<1>1. WorkerTypeOK' /\ stage' \in [Apps -> Stages] /\ RestedHasNoThread' /\ UpHasWorker'
  BY BootKeepsWorkers DEF DevBootstrap, Running, Stages
<1>2. port' \in [Apps -> Ports \cup {DevPort}] /\ secret' \in [Apps -> {DevSecret} \cup 0 .. made']
  BY DEF DevBootstrap
<1>3. PortChosen'
  BY DEF DevBootstrap, PortChosen, Goto
<1>4. lives' \in Nat
  BY DEF DevBootstrap
<1> QED
  BY <1>1, <1>2, <1>3, <1>4 DEF DevBootstrap

LEMMA BindWorkerInv ==
    ASSUME WorkerInv, NEW a \in Apps, Bind(a) PROVE WorkerInv'
<1> USE DEF WorkerInv, ProcessTypeOK
<1>1. WorkerTypeOK' /\ stage' \in [Apps -> Stages] /\ RestedHasNoThread' /\ UpHasWorker'
  BY BootKeepsWorkers DEF Bind, Running, Stages
<1>2. PICK n \in Ports : port' = [port EXCEPT ![a] = n] /\ lockfile' = n
  BY DEF Bind
<1>3. port' \in [Apps -> Ports \cup {DevPort}] /\ lockfile' \in Ports \cup {NoFile}
  BY <1>2
<1>4. PortChosen'
  BY <1>2 DEF Bind, PortChosen, Goto
<1>5. lives' \in Nat
  BY DEF Bind
<1> QED
  BY <1>1, <1>3, <1>4, <1>5 DEF Bind

LEMMA CloseWorkerInv ==
    ASSUME WorkerInv, NEW a \in Apps, Close(a) PROVE WorkerInv'
<1> USE DEF WorkerInv, ProcessTypeOK
<1>1. WorkerTypeOK' /\ stage' \in [Apps -> Stages] /\ RestedHasNoThread' /\ UpHasWorker'
  BY BootKeepsWorkers DEF Close, Running, Stages
<1>2. PortChosen'
  BY DEF Close, PortChosen, Goto
<1> QED
  BY <1>1, <1>2 DEF Close

LEMMA ReadSecretWorkerInv ==
    ASSUME WorkerInv, NEW a \in Apps, ReadSecret(a) PROVE WorkerInv'
<1> USE DEF WorkerInv, ProcessTypeOK
<1>1. PICK found \in Lookup :
          /\ secret' = [secret EXCEPT ![a] = found]
          /\ Goto(a, IF found = NoSecret THEN "keyless" ELSE "keyed")
          /\ raced' = (raced \/ (found = NoSecret /\ \E b \in Apps : stage[b] = "keyless"))
  BY DEF ReadSecret
<1>2. PICK s \in {"keyless", "keyed"} : Goto(a, s)
  BY <1>1
<1>3. WorkerTypeOK' /\ stage' \in [Apps -> Stages] /\ RestedHasNoThread' /\ UpHasWorker'
  BY <1>2, BootKeepsWorkers DEF ReadSecret, Running, Stages
<1>4. found \in 0 .. made
  BY DEF Lookup, NoSecret
<1>5. secret' \in [Apps -> {DevSecret} \cup 0 .. made']
  BY <1>1, <1>4 DEF ReadSecret
<1>6. raced' \in BOOLEAN
  BY <1>1
<1>7. PortChosen'
  BY <1>2 DEF ReadSecret, PortChosen, Goto
<1> QED
  BY <1>3, <1>5, <1>6, <1>7 DEF ReadSecret

LEMMA StoreSecretWorkerInv ==
    ASSUME WorkerInv, NEW a \in Apps, StoreSecret(a) PROVE WorkerInv'
<1> USE DEF WorkerInv, ProcessTypeOK
<1>1. WorkerTypeOK' /\ stage' \in [Apps -> Stages] /\ RestedHasNoThread' /\ UpHasWorker'
  BY BootKeepsWorkers DEF StoreSecret, Running, Stages
<1>2. made' \in Nat /\ keychain' \in 0 .. made' /\ made + 1 \in 0 .. made'
  BY DEF StoreSecret
<1>3. secret' \in [Apps -> {DevSecret} \cup 0 .. made']
  <2>1. {DevSecret} \cup 0 .. made \subseteq {DevSecret} \cup 0 .. made'
    BY DEF StoreSecret
  <2> QED
    BY <1>2, <2>1 DEF StoreSecret
<1>4. PortChosen'
  BY DEF StoreSecret, PortChosen, Goto
<1> QED
  BY <1>1, <1>2, <1>3, <1>4 DEF StoreSecret

LEMMA AnnounceWorkerInv ==
    ASSUME WorkerInv, NEW a \in Apps, Announce(a) PROVE WorkerInv'
<1> USE DEF WorkerInv, ProcessTypeOK
<1>1. WorkerTypeOK' /\ stage' \in [Apps -> Stages] /\ RestedHasNoThread' /\ UpHasWorker'
  BY BootKeepsWorkers DEF Announce, Running, Stages
<1>2. PortChosen' /\ port[a] \in Ports
  BY DEF Announce, PortChosen, Goto
<1> QED
  BY <1>1, <1>2 DEF Announce

\* An app starts, for the first time or again.
LEMMA StartWorkerInv ==
    ASSUME WorkerInv, NEW a \in Apps, StartUp(a) \/ StartAgain(a) PROVE WorkerInv'
<1> USE DEF WorkerInv, ProcessTypeOK
<1>1. /\ Start(a) /\ Goto(a, "started") /\ ~Running(a)
      /\ breach' \subseteq {"shared", "outlived", "again"}
  BY DEF StartUp, StartAgain, StartBreach, WorkerTypeOK, Running
<1>2. thread[a] = NoThread
  BY <1>1 DEF RestedHasNoThread
<1>3. /\ WorkerTypeOK'
      /\ ~stop'[a] /\ thread'[a] # NoThread /\ doing'[a][thread'[a]] = "waiting"
      /\ \A b \in Apps : b # a => /\ stop'[b] = stop[b] /\ thread'[b] = thread[b]
                                  /\ doing'[b] = doing[b]
  BY <1>1, <1>2, StartGivesWorker
<1>4. /\ stage' \in [Apps -> Stages] /\ stage'[a] = "started"
      /\ \A b \in Apps : b # a => stage'[b] = stage[b]
  BY <1>1 DEF Goto, Stages
<1>5. UpHasWorker'
  BY <1>3, <1>4 DEF UpHasWorker, Alive
<1>6. RestedHasNoThread'
  BY <1>3, <1>4 DEF RestedHasNoThread, Running
<1>7. UNCHANGED <<port, secret, lockfile, keychain, made, raced, last, abandoned, lives>>
  BY DEF StartUp, StartAgain
<1>8. PortChosen'
  BY <1>4, <1>7 DEF PortChosen
<1> QED
  BY <1>3, <1>4, <1>5, <1>6, <1>7, <1>8

\* An app that is up goes on to serve, or stops.
LEMMA UpWorkerInv ==
    ASSUME WorkerInv, NEW a \in Apps, Listen(a) \/ Shutdown(a) \/ Join(a) PROVE WorkerInv'
<1> USE DEF WorkerInv, ProcessTypeOK
<1>1. UNCHANGED <<port, secret, lockfile, keychain, made, raced, last, abandoned, lives>>
  BY DEF Listen, Shutdown, Join
<1>2. WorkerTypeOK'
  BY WorkersKeepTypes DEF Listen, Shutdown, Join
<1>3. PICK s \in {"serving", "stopping", "stopped"} : Goto(a, s)
  BY DEF Listen, Shutdown, Join
<1>4. /\ stage' \in [Apps -> Stages] /\ stage'[a] = s
      /\ \A b \in Apps : b # a => stage'[b] = stage[b]
  BY <1>3 DEF Goto, Stages
<1>5. PortChosen'
  BY <1>1, <1>4 DEF PortChosen
<1>6. \A b \in Apps : b # a => /\ stop'[b] = stop[b] /\ thread'[b] = thread[b]
                                /\ doing'[b] = doing[b]
  BY DEF Listen, Shutdown, Join, StopSet, StopJoin, workerVars, WorkerTypeOK
<1>7. CASE s = "serving"
  <2>1. stage[a] = "started" /\ UNCHANGED workerVars
    <3>1. CASE Listen(a)
      BY <1>3, <1>4, <1>7, <3>1 DEF Listen, Goto
    <3>2. CASE Shutdown(a) \/ Join(a)
      BY <1>4, <1>7, <3>2 DEF Shutdown, Join, Goto
    <3> QED
      BY <3>1, <3>2
  <2> QED
    BY <1>1, <1>2, <1>4, <1>5, <1>7, <2>1
       DEF UpHasWorker, RestedHasNoThread, Running, Alive, workerVars
<1>8. CASE s = "stopping"
  <2>1. UpHasWorker'
    BY <1>4, <1>6, <1>8 DEF UpHasWorker, Alive
  <2>2. RestedHasNoThread'
    BY <1>4, <1>6, <1>8 DEF RestedHasNoThread, Running
  <2> QED
    BY <1>1, <1>2, <1>4, <1>5, <2>1, <2>2
<1>9. CASE s = "stopped"
  <2>1. Join(a)
    BY <1>4, <1>9 DEF Listen, Shutdown, Goto
  <2>2. thread'[a] = NoThread
    BY <2>1 DEF Join, StopJoin, WorkerTypeOK
  <2>3. UpHasWorker'
    BY <1>4, <1>6, <1>9 DEF UpHasWorker, Alive
  <2>4. RestedHasNoThread'
    BY <1>4, <1>6, <1>9, <2>2 DEF RestedHasNoThread, Running
  <2> QED
    BY <1>1, <1>2, <1>4, <1>5, <2>3, <2>4
<1> QED
  BY <1>7, <1>8, <1>9

LEMMA ExitWorkerInv ==
    ASSUME WorkerInv, NEW a \in Apps, Exit(a) PROVE WorkerInv'
<1> USE DEF WorkerInv, ProcessTypeOK
<1>1. WorkerTypeOK'
  BY WorkersKeepTypes DEF Exit
<1>2. /\ stage' \in [Apps -> Stages] /\ stage'[a] = "down"
      /\ \A b \in Apps : b # a => stage'[b] = stage[b]
  BY DEF Exit, Goto, Stages
<1>3. /\ thread'[a] = NoThread
      /\ \A b \in Apps : b # a => /\ stop'[b] = stop[b] /\ thread'[b] = thread[b]
                                  /\ doing'[b] = doing[b]
  BY DEF Exit, Vanish, WorkerTypeOK
<1>4. UpHasWorker' /\ RestedHasNoThread'
  BY <1>2, <1>3 DEF UpHasWorker, RestedHasNoThread, Running, Alive
<1>5. /\ port' \in [Apps -> Ports \cup {DevPort}]
      /\ \A b \in Apps : b # a => port'[b] = port[b]
  BY DEF Exit
<1>6. PortChosen'
  BY <1>2, <1>5 DEF PortChosen
<1>7. secret' \in [Apps -> {DevSecret} \cup 0 .. made']
  <2>1. NoSecret \in 0 .. made
    BY DEF NoSecret
  <2> QED
    BY <2>1 DEF Exit
<1> QED
  BY <1>1, <1>2, <1>4, <1>5, <1>6, <1>7 DEF Exit

\* The workers work, or a job is created.
LEMMA WorkWorkerInv ==
    ASSUME WorkerInv, NEW a \in Apps, Work(a) \/ \E j \in Jobs : Create(a, j) PROVE WorkerInv'
<1> USE DEF WorkerInv, ProcessTypeOK
<1>1. UNCHANGED processVars
  BY DEF Work, Create
<1>2. WorkerTypeOK'
  BY WorkersKeepTypes DEF Work, Create
<1>3. thread' = thread
  BY DEF Work, Create, WorkerStep, Loop, EndJob, CreateJob
<1>4. RestedHasNoThread' /\ PortChosen'
  BY <1>1, <1>3 DEF RestedHasNoThread, PortChosen, Running, processVars
<1>5. UpHasWorker'
  <2>1. CASE Work(a)
    BY <1>1, <2>1, WorkGoesOn DEF Work, UpHasWorker, Alive, processVars
  <2>2. CASE \E j \in Jobs : Create(a, j)
    BY <1>1, <2>2 DEF Create, CreateJob, UpHasWorker, Alive, processVars
  <2> QED
    BY <2>1, <2>2
<1> QED
  BY <1>1, <1>2, <1>4, <1>5 DEF processVars

LEMMA StutterWorkerInv == ASSUME WorkerInv, UNCHANGED vars PROVE WorkerInv'
BY DEF WorkerInv, ProcessTypeOK, WorkerTypeOK, PortChosen, RestedHasNoThread, UpHasWorker,
       Running, Alive, vars, workerVars, processVars

\* Types, and the thread of every app that is up, whatever the processes do.
THEOREM WorkerInvariant == Spec => []WorkerInv
<1>1. Init => WorkerInv
  BY WorkerInvInit
<1>2. WorkerInv /\ [Next]_vars => WorkerInv'
  BY DevBootstrapWorkerInv, BindWorkerInv, CloseWorkerInv, ReadSecretWorkerInv,
     StoreSecretWorkerInv, AnnounceWorkerInv, StartWorkerInv, UpWorkerInv, ExitWorkerInv,
     WorkWorkerInv, StutterWorkerInv
     DEF Next
<1> QED
  BY <1>1, <1>2, PTL DEF Spec

\* Type correctness of the processes, their ports, secrets and workers.
THEOREM ProcessTypeCorrect == Spec => []ProcessTypeOK
<1>1. WorkerInv => ProcessTypeOK
  BY DEF WorkerInv
<1> QED
  BY <1>1, WorkerInvariant, PTL

\* An app that is up has a thread that nobody told to end (WorkerLoop.start), however
\* often it was started and whatever its earlier threads do.
THEOREM WorkerWhileUp == Spec => []UpHasWorker
<1>1. WorkerInv => UpHasWorker
  BY DEF WorkerInv
<1> QED
  BY <1>1, WorkerInvariant, PTL

-----------------------------------------------------------------------------
(* The lockfile *)

FoundInv == LastIsUp /\ LockfileOfLast /\ HoldersApart

\* One step of one process: only announcements end a bootstrap well, and they complete
\* the lockfile.
LEMMA StepKeepsLockfile ==
    ASSUME WorkerInv, FoundInv, NEW a \in Apps,
           \/ DevBootstrap(a) \/ Bind(a) \/ Close(a)
           \/ ReadSecret(a) \/ StoreSecret(a) \/ Announce(a)
           \/ StartUp(a) \/ StartAgain(a) \/ Listen(a) \/ Shutdown(a) \/ Join(a) \/ Exit(a)
           \/ Work(a) \/ \E j \in Jobs : Create(a, j)
    PROVE  FoundInv'
<1> USE DEF WorkerInv, ProcessTypeOK, FoundInv, LastIsUp, LockfileOfLast, HoldersApart,
            Booting, Holds, Goto
<1>1. CASE DevBootstrap(a)
  BY <1>1 DEF DevBootstrap
<1>2. CASE Bind(a)
  <2>1. PICK n \in Ports : ~Taken(n) /\ port' = [port EXCEPT ![a] = n]
    BY <1>2 DEF Bind
  <2>2. stage' = [stage EXCEPT ![a] = "bound"] /\ last' = last /\ last # a
    BY <1>2 DEF Bind
  <2>3. HoldersApart'
    BY <2>1, <2>2 DEF Taken
  <2>4. LastIsUp' /\ LockfileOfLast'
    BY <2>2
  <2> QED
    BY <2>3, <2>4
<1>3. CASE Close(a)
  BY <1>3 DEF Close
<1>4. CASE ReadSecret(a)
  <2>1. PICK s \in {"keyless", "keyed"} : Goto(a, s)
    BY <1>4 DEF ReadSecret
  <2>2. UNCHANGED <<port, lockfile, last, abandoned>> /\ stage[a] = "closed"
    BY <1>4 DEF ReadSecret
  <2> QED
    BY <2>1, <2>2
<1>5. CASE StoreSecret(a)
  BY <1>5 DEF StoreSecret
<1>6. CASE Announce(a)
  BY <1>6 DEF Announce
<1>7. CASE Listen(a)
  <2>1. UNCHANGED <<port, lockfile, last, abandoned>> /\ stage[a] = "started"
    BY <1>7 DEF Listen
  <2>2. CASE Taken(port[a])
    <3>1. stage' = [stage EXCEPT ![a] = "stopping"]
      BY <1>7, <2>2 DEF Listen
    <3> QED
      BY <2>1, <3>1
  <2>3. CASE ~Taken(port[a])
    <3>1. stage' = [stage EXCEPT ![a] = "serving"]
      BY <1>7, <2>3 DEF Listen
    <3> QED
      BY <2>1, <2>3, <3>1 DEF Taken
  <2> QED
    BY <2>2, <2>3
<1>8. CASE StartUp(a) \/ StartAgain(a) \/ Shutdown(a) \/ Join(a)
  <2>1. UNCHANGED <<port, lockfile, last, abandoned>>
    BY <1>8 DEF StartUp, StartAgain, Shutdown, Join
  <2>2. stage[a] \in {"announced", "serving", "stopping", "stopped"}
    BY <1>8 DEF StartUp, StartAgain, Shutdown, Join
  <2>3. PICK s \in {"started", "stopping", "stopped"} : stage' = [stage EXCEPT ![a] = s]
    BY <1>8 DEF StartUp, StartAgain, Shutdown, Join
  <2> QED
    BY <2>1, <2>2, <2>3
<1>9. CASE Exit(a)
  <2>1. /\ stage' = [stage EXCEPT ![a] = "down"] /\ port' = [port EXCEPT ![a] = DevPort]
        /\ last' = (IF last = a THEN Nobody ELSE last) /\ lockfile' = lockfile
        /\ abandoned' = (abandoned \/ Booting(a))
    BY <1>9 DEF Exit
  <2>2. \A b \in Apps : last' = b => b # a /\ last = b
    BY <2>1, ProcessAssumption DEF Nobody
  <2> QED
    BY <2>1, <2>2
<1>10. CASE Work(a) \/ \E j \in Jobs : Create(a, j)
  BY <1>10 DEF Work, Create, processVars
<1> QED
  BY <1>1, <1>2, <1>3, <1>4, <1>5, <1>6, <1>7, <1>8, <1>9, <1>10

\* Once every bootstrap is over, and none was given up, the lockfile leads to the bridge
\* that announced itself last, while it serves.
THEOREM LastBridgeIsFound == Spec => []LastIsFound
<1>1. Init => FoundInv
  BY ProcessAssumption DEF Nobody, Init, FoundInv, LastIsUp, LockfileOfLast, HoldersApart, Holds, Booting
<1>2. WorkerInv /\ FoundInv /\ [Next]_vars => FoundInv'
  <2>1. ASSUME FoundInv, UNCHANGED vars PROVE FoundInv'
    BY <2>1 DEF FoundInv, LastIsUp, LockfileOfLast, HoldersApart, Holds, Booting, vars,
                processVars
  <2> QED
    BY <2>1, StepKeepsLockfile DEF Next
<1>3. FoundInv => LastIsFound
  BY DEF FoundInv, LockfileOfLast, HoldersApart, LastIsFound, Holds
<1> QED
  BY <1>1, <1>2, <1>3, WorkerInvariant, PTL DEF Spec

-----------------------------------------------------------------------------
(* The secret *)

\* One step of one process, while lookups in the keychain do not fail: only a process
\* that found no secret makes one, and it does so alone or has raced.
LEMMA StepKeepsSecret ==
    ASSUME ~KeychainFails, WorkerInv, SecretInv, NEW a \in Apps,
           \/ DevBootstrap(a) \/ Bind(a) \/ Close(a)
           \/ ReadSecret(a) \/ StoreSecret(a) \/ Announce(a)
           \/ StartUp(a) \/ StartAgain(a) \/ Listen(a) \/ Shutdown(a) \/ Join(a) \/ Exit(a)
           \/ Work(a) \/ \E j \in Jobs : Create(a, j)
    PROVE  SecretInv'
<1> USE DEF WorkerInv, ProcessTypeOK, SecretInv, FirstIsAlone, NoSecretYet, SecretsAgree, Goto
<1>1. CASE DevBootstrap(a)
  BY <1>1 DEF DevBootstrap
<1>2. CASE Bind(a)
  BY <1>2 DEF Bind
<1>3. CASE Close(a)
  BY <1>3 DEF Close
<1>4. CASE ReadSecret(a)
  <2>1. /\ secret' = [secret EXCEPT ![a] = keychain]
        /\ Goto(a, IF keychain = NoSecret THEN "keyless" ELSE "keyed")
        /\ raced' = (raced \/ (keychain = NoSecret /\ \E b \in Apps : stage[b] = "keyless"))
        /\ keychain' = keychain
    BY <1>4 DEF ReadSecret, Lookup
  <2>2. CASE keychain = NoSecret
    <3>1. stage' = [stage EXCEPT ![a] = "keyless"]
      BY <2>1, <2>2
    <3>2. ~raced' => ~raced /\ \A b \in Apps : stage[b] # "keyless"
      BY <2>1, <2>2
    <3> QED
      BY <2>1, <2>2, <3>1, <3>2
  <2>3. CASE keychain # NoSecret
    <3>1. stage' = [stage EXCEPT ![a] = "keyed"] /\ (~raced' => ~raced)
      BY <2>1, <2>3
    <3> QED
      BY <2>1, <2>3, <3>1
  <2> QED
    BY <2>2, <2>3
<1>5. CASE StoreSecret(a)
  <2>1. /\ stage[a] = "keyless" /\ raced' = raced
        /\ keychain' = made + 1 /\ secret' = [secret EXCEPT ![a] = made + 1]
        /\ stage' = [stage EXCEPT ![a] = "keyed"]
    BY <1>5 DEF StoreSecret
  <2>2. ~raced => \A b \in Apps : b # a => stage[b] # "keyless"
    BY <2>1
  <2>3. ~raced => \A b \in Apps : b # a => secret[b] \in {NoSecret, DevSecret}
    BY <2>1
  <2> QED
    BY <2>1, <2>2, <2>3
<1>6. CASE Announce(a)
  BY <1>6 DEF Announce
<1>7. CASE StartUp(a) \/ StartAgain(a) \/ Listen(a) \/ Shutdown(a) \/ Join(a)
  <2>1. UNCHANGED <<secret, keychain, raced>>
    BY <1>7 DEF StartUp, StartAgain, Listen, Shutdown, Join
  <2>2. PICK s \in {"started", "serving", "stopping", "stopped"} :
            stage' = [stage EXCEPT ![a] = s]
    BY <1>7 DEF StartUp, StartAgain, Listen, Shutdown, Join
  <2> QED
    BY <2>1, <2>2
<1>8. CASE Exit(a)
  BY <1>8 DEF Exit
<1>9. CASE Work(a) \/ \E j \in Jobs : Create(a, j)
  BY <1>9 DEF Work, Create, processVars
<1> QED
  BY <1>1, <1>2, <1>3, <1>4, <1>5, <1>6, <1>7, <1>8, <1>9

\* While lookups in the keychain do not fail, the bridges that run have the secret it
\* holds, unless two of them were first at once (SharedSecretManager.get_or_create).
THEOREM BridgesShareSecret == ASSUME ~KeychainFails PROVE Spec => []SecretsAgree
<1>1. Init => SecretInv
  BY DEF Init, SecretInv, FirstIsAlone, NoSecretYet, SecretsAgree
<1>2. WorkerInv /\ SecretInv /\ [Next]_vars => SecretInv'
  <2>1. ASSUME SecretInv, UNCHANGED vars PROVE SecretInv'
    BY <2>1 DEF SecretInv, FirstIsAlone, NoSecretYet, SecretsAgree, vars, processVars
  <2> QED
    BY <2>1, StepKeepsSecret DEF Next
<1>3. SecretInv => SecretsAgree
  BY DEF SecretInv
<1> QED
  BY <1>1, <1>2, <1>3, WorkerInvariant, PTL DEF Spec

-----------------------------------------------------------------------------
(* One worker on the database *)

\* While no two apps were up at once and no worker outlived its stop, a thread that is
\* there is the one that the app knows, and the app is the only one that is up.
AloneAtWork ==
    breach \cap {"shared", "outlived"} = {} =>
        /\ \A a, b \in Apps : Running(a) /\ Running(b) => a = b
        /\ \A a \in Apps, i \in Threads : Alive(a, i) => Running(a) /\ thread[a] = i

\* Steps that leave the threads and the breaches alone, and no app more up than before.
LEMMA QuietKeepsAlone ==
    ASSUME AloneAtWork, UNCHANGED <<thread, breach>>,
           \A a \in Apps : Running(a)' <=> Running(a),
           \A a \in Apps, i \in Threads : Alive(a, i)' => Alive(a, i)
    PROVE  AloneAtWork'
BY DEF AloneAtWork

LEMMA WorkKeepsThreads ==
    ASSUME WorkerTypeOK, NEW a \in Apps, WorkerStep(a)
    PROVE  \A b \in Apps, i \in Threads : Alive(b, i)' => Alive(b, i)
<1> SUFFICES ASSUME NEW b \in Apps, NEW k \in Threads, ~Alive(b, k)
             PROVE  ~Alive(b, k)'
  OBVIOUS
<1>1. ASSUME NEW i \in Threads, Loop(a, i)
      PROVE  doing'[b][k] = doing[b][k]
  <2>1. b # a \/ k # i
    BY <1>1 DEF Loop, Alive
  <2> DEFINE now == IF row[Head(queue[a])] = "open" THEN Head(queue[a]) ELSE "waiting"
  <2>2. doing' = [doing EXCEPT ![a][i] = "ended"] \/ doing' = [doing EXCEPT ![a][i] = now]
    BY <1>1 DEF Loop
  <2> HIDE DEF now
  <2>3. doing \in [Apps -> [Threads -> {"unborn", "waiting", "ended"} \cup Jobs]]
    BY DEF WorkerTypeOK
  <2>4. \A v : [doing EXCEPT ![a][i] = v][b][k] = doing[b][k]
    BY <2>1, <2>3
  <2> QED
    BY <2>2, <2>4
<1>2. ASSUME NEW i \in Threads, EndJob(a, i)
      PROVE  doing'[b][k] = doing[b][k]
  <2>1. b # a \/ k # i
    BY <1>2, ProcessAssumption DEF EndJob, Alive
  <2>2. doing' = [doing EXCEPT ![a][i] = "waiting"]
    BY <1>2 DEF EndJob
  <2>3. doing \in [Apps -> [Threads -> {"unborn", "waiting", "ended"} \cup Jobs]]
    BY DEF WorkerTypeOK
  <2> QED
    BY <2>1, <2>2, <2>3
<1> QED
  BY <1>1, <1>2 DEF WorkerStep, Alive

\* A start among others that are not up: the new thread is the only one.
LEMMA StartKeepsAlone ==
    ASSUME WorkerInv, AloneAtWork, NEW a \in Apps, StartUp(a) \/ StartAgain(a)
    PROVE  AloneAtWork'
<1> USE DEF WorkerInv, ProcessTypeOK
<1> SUFFICES ASSUME breach' \cap {"shared", "outlived"} = {}
             PROVE  /\ \A b, c \in Apps : Running(b)' /\ Running(c)' => b = c
                    /\ \A b \in Apps, i \in Threads :
                           Alive(b, i)' => Running(b)' /\ thread'[b] = i
  BY DEF AloneAtWork
<1>1. /\ ~Running(a) /\ Start(a) /\ stage' = [stage EXCEPT ![a] = "started"]
      /\ breach \subseteq breach' /\ StartBreach(a) \subseteq breach'
  BY DEF StartUp, StartAgain, Running, Goto
<1>2. \A b \in Apps : ~Running(b)
  BY <1>1 DEF StartBreach
<1>3. \A b \in Apps, i \in Threads : ~Alive(b, i)
  BY <1>1, <1>2 DEF AloneAtWork
<1>4. \A b \in Apps : Running(b)' <=> b = a
  BY <1>1, <1>2 DEF Running
<1>5. thread[a] = NoThread
  BY <1>1 DEF RestedHasNoThread
<1>6. PICK k \in Threads : thread' = [thread EXCEPT ![a] = k]
                           /\ doing' = [doing EXCEPT ![a][k] = "waiting"]
  BY <1>1, <1>5 DEF Start, LoopStart
<1>7. \A b \in Apps, i \in Threads : Alive(b, i)' => b = a /\ i = k
  BY <1>3, <1>6 DEF Alive, WorkerTypeOK
<1> QED
  BY <1>4, <1>6, <1>7 DEF WorkerTypeOK

LEMMA StepKeepsAlone ==
    ASSUME WorkerInv, AloneAtWork, [Next]_vars
    PROVE  AloneAtWork'
<1> USE DEF WorkerInv, ProcessTypeOK, Goto
<1>1. ASSUME NEW a \in Apps,
             \/ DevBootstrap(a) \/ Bind(a) \/ Close(a)
             \/ ReadSecret(a) \/ StoreSecret(a) \/ Announce(a)
      PROVE  AloneAtWork'
  <2>1. UNCHANGED workerVars
    BY <1>1 DEF DevBootstrap, Bind, Close, ReadSecret, StoreSecret, Announce
  <2>2. ~Running(a) /\ \E s \in {"announced", "bound", "closed", "keyless", "keyed"} :
                           stage' = [stage EXCEPT ![a] = s]
    BY <1>1 DEF DevBootstrap, Bind, Close, ReadSecret, StoreSecret, Announce, Running
  <2>3. \A b \in Apps : Running(b)' <=> Running(b)
    BY <2>2 DEF Running
  <2> QED
    BY <2>1, <2>3, QuietKeepsAlone DEF workerVars, Alive
<1>2. ASSUME NEW a \in Apps, Listen(a) \/ Shutdown(a)
      PROVE  AloneAtWork'
  <2>1. UNCHANGED <<thread, breach, doing>>
    BY <1>2 DEF Listen, Shutdown, StopSet, workerVars
  <2>2. Running(a) /\ \E s \in {"serving", "stopping"} : stage' = [stage EXCEPT ![a] = s]
    BY <1>2 DEF Listen, Shutdown, Running
  <2>3. \A b \in Apps : Running(b)' <=> Running(b)
    BY <2>2 DEF Running
  <2> QED
    BY <2>1, <2>3, QuietKeepsAlone DEF Alive
<1>3. ASSUME NEW a \in Apps, Join(a)
      PROVE  AloneAtWork'
  <2>1. /\ stage' = [stage EXCEPT ![a] = "stopped"] /\ doing' = doing
        /\ thread' = [thread EXCEPT ![a] = NoThread] /\ breach \subseteq breach'
        /\ thread[a] # NoThread /\ Alive(a, thread[a]) => "outlived" \in breach'
    BY <1>3 DEF Join, StopJoin
  <2>2. \A i \in Threads : i # NoThread
    BY DEF Threads, NoThread
  <2>3. breach' \cap {"shared", "outlived"} = {} => \A i \in Threads : ~Alive(a, i)
    BY <2>1, <2>2 DEF AloneAtWork
  <2>4. \A b \in Apps : b # a => (Running(b)' <=> Running(b)) /\ thread'[b] = thread[b]
    BY <2>1 DEF Running
  <2>5. ~Running(a)'
    BY <2>1 DEF Running
  <2>6. \A b \in Apps, i \in Threads : Alive(b, i)' <=> Alive(b, i)
    BY <2>1 DEF Alive
  <2> QED
    BY <2>1, <2>3, <2>4, <2>5, <2>6 DEF AloneAtWork
<1>4. ASSUME NEW a \in Apps, Exit(a)
      PROVE  AloneAtWork'
  <2>1. /\ stage' = [stage EXCEPT ![a] = "down"] /\ breach' = breach
        /\ thread' = [thread EXCEPT ![a] = NoThread]
        /\ doing' = [doing EXCEPT ![a] = [i \in Threads |-> "unborn"]]
    BY <1>4 DEF Exit, Vanish
  <2>2. \A b \in Apps : b # a => (Running(b)' <=> Running(b)) /\ thread'[b] = thread[b]
    BY <2>1 DEF Running
  <2>3. ~Running(a)' /\ \A i \in Threads : ~Alive(a, i)'
    BY <2>1 DEF Running, Alive, WorkerTypeOK
  <2>4. \A b \in Apps, i \in Threads : b # a => (Alive(b, i)' <=> Alive(b, i))
    BY <2>1 DEF Alive, WorkerTypeOK
  <2> QED
    BY <2>1, <2>2, <2>3, <2>4 DEF AloneAtWork
<1>5. ASSUME NEW a \in Apps, Work(a)
      PROVE  AloneAtWork'
  <2>1. UNCHANGED <<stage, thread, breach>>
    BY <1>5 DEF Work, WorkerStep, Loop, EndJob, processVars
  <2>2. \A b \in Apps, i \in Threads : Alive(b, i)' => Alive(b, i)
    BY <1>5, WorkKeepsThreads DEF Work
  <2> QED
    BY <2>1, <2>2, QuietKeepsAlone DEF Running
<1>6. ASSUME NEW a \in Apps, NEW j \in Jobs, Create(a, j)
      PROVE  AloneAtWork'
  BY <1>6, QuietKeepsAlone DEF Create, CreateJob, processVars, Running, Alive
<1>7. CASE UNCHANGED vars
  BY <1>7, QuietKeepsAlone DEF vars, workerVars, processVars, Running, Alive
<1> QED
  BY <1>1, <1>2, <1>3, <1>4, <1>5, <1>6, <1>7, StartKeepsAlone DEF Next

\* AloneAtWork holds throughout.
THEOREM AloneInvariant == Spec => []AloneAtWork
<1>1. Init => AloneAtWork
  BY DEF Init, WorkerInit, AloneAtWork, Running, Alive
<1>2. WorkerInv /\ AloneAtWork /\ [Next]_vars => AloneAtWork'
  BY StepKeepsAlone
<1> QED
  BY <1>1, <1>2, WorkerInvariant, PTL DEF Spec

LEMMA AtMostOne ==
    ASSUME NEW S, \A x, y \in S : x = y
    PROVE  Cardinality(S) \in {0, 1} /\ (S = {} => Cardinality(S) = 0)
<1>1. CASE S = {}
  BY <1>1, FS_EmptySet
<1>2. CASE S # {}
  <2>1. PICK x \in S : TRUE
    BY <1>2
  <2>2. S = {x}
    BY <2>1
  <2>3. Cardinality({x}) = 1
    BY FS_Singleton
  <2> QED
    BY <1>2, <2>2, <2>3
<1> QED
  BY <1>1, <1>2

\* One worker on the database, unless two apps were up at once or a worker outlived the
\* time that its stop gives it.
THEOREM OneWorkerAtWork == Spec => []SingleWorker
<1>1. ASSUME AloneAtWork, breach \cap {"shared", "outlived"} = {}
      PROVE  \A s, t \in AliveThreads : s = t
  BY <1>1 DEF AloneAtWork, AliveThreads
<1>2. AloneAtWork => SingleWorker
  <2> SUFFICES ASSUME AloneAtWork, breach \cap {"shared", "outlived"} = {}
               PROVE  Cardinality(AliveThreads) <= 1
    BY DEF SingleWorker
  <2>1. Cardinality(AliveThreads) \in {0, 1}
    BY <1>1, AtMostOne
  <2> QED
    BY <2>1
<1> QED
  BY <1>2, AloneInvariant, PTL

-----------------------------------------------------------------------------
(* One delivery of each job *)

\* The stages of a process before its app is first started.
Early == {"down", "bound", "closed", "keyless", "keyed", "announced"}

OnQueue(a, j) == \E k \in DOMAIN queue[a] : queue[a][k] = j

\* While nothing is breached, an app that was not started yet has nothing on its queue;
\* the queue of an app that is up holds each job once, none that is being worked on, and
\* none without a row; and a job that is being worked on has a row.
Once ==
    breach = {} =>
        /\ \A a \in Apps : stage[a] \in Early => queue[a] = <<>>
        /\ \A a \in Apps : Running(a) =>
               \A k, l \in DOMAIN queue[a] : queue[a][k] = queue[a][l] => k = l
        /\ \A a \in Apps, j \in Jobs : Running(a) /\ OnQueue(a, j) =>
               row[j] # "none" /\ \A b \in Apps, i \in Threads : doing[b][i] # j
        /\ \A b \in Apps, i \in Threads : doing[b][i] \in Jobs => row[doing[b][i]] # "none"

\* Steps that leave rows, queues and threads alone, and start no app.
LEMMA QuietKeepsOnce ==
    ASSUME Once, UNCHANGED <<row, queue, doing>>, breach \subseteq breach',
           \A a \in Apps : Running(a)' => Running(a),
           \A a \in Apps : stage'[a] \in Early => stage[a] \in Early
    PROVE  Once'
BY DEF Once, OnQueue

\* A start of an app that was not started before puts the jobs in flight on an empty queue,
\* while nobody works.
LEMMA StartKeepsOnce ==
    ASSUME WorkerInv, AloneAtWork, Once, NEW a \in Apps, StartUp(a) \/ StartAgain(a)
    PROVE  Once'
<1> USE DEF WorkerInv, ProcessTypeOK
<1> SUFFICES ASSUME breach' = {} PROVE Once'
  BY DEF Once
<1>1. StartUp(a)
  BY DEF StartAgain
<1>2. /\ ~Running(a) /\ Start(a) /\ stage[a] = "announced" /\ row' = row
      /\ stage' = [stage EXCEPT ![a] = "started"]
      /\ breach = {} /\ StartBreach(a) = {}
  BY <1>1 DEF StartUp, Start, Running, Goto
<1>3. \A b \in Apps : ~Running(b)
  BY <1>2 DEF StartBreach
<1>4. \A b \in Apps, i \in Threads : doing[b][i] \in {"unborn", "ended"}
  BY <1>2, <1>3 DEF AloneAtWork, Alive
<1>5. thread[a] = NoThread
  BY <1>2 DEF RestedHasNoThread
<1>6. PICK i \in Threads : doing' = [doing EXCEPT ![a][i] = "waiting"]
  BY <1>2, <1>5 DEF Start, LoopStart
<1>7. \A b \in Apps, k \in Threads : doing'[b][k] \in {"unborn", "waiting", "ended"}
  BY <1>4, <1>6 DEF WorkerTypeOK
<1>8. \A b \in Apps, k \in Threads : doing'[b][k] \notin Jobs
  BY <1>7, ProcessAssumption
<1>9. PICK s \in Recovered : queue' = [queue EXCEPT ![a] = queue[a] \o s]
  BY <1>2 DEF Start
<1>10. queue[a] = <<>> /\ s \in Seq(Jobs)
  BY <1>2, <1>9, RecoveredIsSeq DEF Once, Early
<1>11. queue[a] \o s = s
  BY <1>10
<1>12. /\ queue'[a] = s
       /\ \A b \in Apps : b # a => queue'[b] = queue[b]
  BY <1>9, <1>11 DEF WorkerTypeOK
<1>13. /\ \A k, l \in DOMAIN s : s[k] = s[l] => k = l
       /\ \A k \in DOMAIN s : row[s[k]] = "open"
  <2> DEFINE open == {j \in Jobs : row[j] = "open"}
  <2>1. /\ \A k, l \in DOMAIN s : k # l => s[k] # s[l]
        /\ s \in [1 .. Cardinality(open) -> open]
    BY <1>9 DEF Recovered
  <2>2. \A k \in DOMAIN s : s[k] \in open
    BY <2>1
  <2> QED
    BY <2>1, <2>2
<1>14. \A b \in Apps : Running(b)' <=> b = a
  BY <1>2, <1>3 DEF Running
<1>15. \A b \in Apps : stage'[b] \in Early => b # a /\ stage[b] \in Early
  BY <1>2 DEF Early
<1>16. \A b \in Apps : stage'[b] \in Early => queue'[b] = <<>>
  BY <1>2, <1>12, <1>15 DEF Once
<1>17. \A j \in Jobs : OnQueue(a, j)' => row'[j] # "none"
  BY <1>2, <1>12, <1>13 DEF OnQueue
<1> QED
  BY <1>8, <1>12, <1>13, <1>14, <1>16, <1>17 DEF Once

\* A worker that takes a job takes it off the queue, where it was once.
LEMMA LoopKeepsOnce ==
    ASSUME WorkerTypeOK, AloneAtWork, Once, NEW a \in Apps, NEW i \in Threads, Loop(a, i),
           stage' = stage
    PROVE  Once'
<1> SUFFICES ASSUME breach = {} PROVE Once'
  BY DEF Loop, Once
<1>1. /\ Running(a) /\ row' = row /\ breach' = breach /\ doing[a][i] = "waiting"
      /\ \A b \in Apps : Running(b)' <=> b = a
  BY DEF Loop, AloneAtWork, Alive, Running
<1>2. doing \in [Apps -> [Threads -> {"unborn", "waiting", "ended"} \cup Jobs]]
      /\ queue \in [Apps -> Seq(Jobs)]
  BY DEF WorkerTypeOK
<1>3. CASE stop[a]
  <2>1. doing' = [doing EXCEPT ![a][i] = "ended"] /\ queue' = queue
    BY <1>3 DEF Loop
  <2>2. \A b \in Apps, k \in Threads : doing'[b][k] = doing[b][k] \/ doing'[b][k] = "ended"
    BY <1>2, <2>1
  <2>3. "ended" \notin Jobs
    BY ProcessAssumption
  <2> QED
    BY <1>1, <2>1, <2>2, <2>3 DEF Once, OnQueue, Running
<1>4. CASE ~stop[a]
  <2> DEFINE h == Head(queue[a])
             q == Tail(queue[a])
             now == IF row[h] = "open" THEN h ELSE "waiting"
  <2>1. queue[a] # <<>> /\ queue' = [queue EXCEPT ![a] = q]
        /\ doing' = [doing EXCEPT ![a][i] = now]
    BY <1>4 DEF Loop
  <2>2. queue[a] \in Seq(Jobs)
    BY <1>2
  <2>3. /\ h \in Jobs /\ h = queue[a][1] /\ 1 \in DOMAIN queue[a]
        /\ \A k \in DOMAIN q : k + 1 \in DOMAIN queue[a] /\ q[k] = queue[a][k + 1]
                               /\ k \in Nat /\ k + 1 # 1
    BY <2>1, <2>2
  <2>4. \A k, l \in DOMAIN queue[a] : queue[a][k] = queue[a][l] => k = l
    BY <1>1 DEF Once
  <2>5. /\ \A k, l \in DOMAIN q : q[k] = q[l] => k = l
        /\ \A k \in DOMAIN q : q[k] # h
        /\ \A k \in DOMAIN q : \E l \in DOMAIN queue[a] : queue[a][l] = q[k]
    BY <2>3, <2>4
  <2>6. OnQueue(a, h)
    BY <2>3 DEF OnQueue
  <2>7. now \in Jobs => now = h
    BY ProcessAssumption
  <2>8. \A b \in Apps, k \in Threads :
            doing'[b][k] = doing[b][k] \/ doing'[b][k] = now
    <3> HIDE DEF now
    <3> QED
      BY <1>2, <2>1
  <2>9. queue'[a] = q /\ \A b \in Apps : b # a => queue'[b] = queue[b]
    BY <1>2, <2>1
  <2> HIDE DEF h, q, now
  <2>10. \A b \in Apps : stage[b] \in Early => b # a
    BY <1>1 DEF Early, Running
  <2>11. row[h] # "none"
    BY <1>1, <2>3, <2>6 DEF Once
  <2>12. \A j \in Jobs : OnQueue(a, j)' => j # h /\ OnQueue(a, j)
    BY <2>5, <2>9 DEF OnQueue
  <2>13. \A b \in Apps, k \in Threads : doing'[b][k] \in Jobs =>
             doing'[b][k] = doing[b][k] \/ doing'[b][k] = h
    BY <2>7, <2>8
  <2>14. \A j \in Jobs : OnQueue(a, j)' =>
             row[j] # "none" /\ \A b \in Apps, k \in Threads : doing'[b][k] # j
    BY <1>1, <2>12, <2>13 DEF Once
  <2>15. \A b \in Apps, k \in Threads : doing'[b][k] \in Jobs => row[doing'[b][k]] # "none"
    BY <2>11, <2>13 DEF Once
  <2>16. \A b \in Apps : stage'[b] \in Early => queue'[b] = <<>>
    BY <2>9, <2>10 DEF Once
  <2>17. \A k, l \in DOMAIN queue'[a] : queue'[a][k] = queue'[a][l] => k = l
    BY <2>5, <2>9
  <2> QED
    BY <1>1, <2>14, <2>15, <2>16, <2>17 DEF Once
<1> QED
  BY <1>3, <1>4

\* The end of process_one takes the job off the thread, and never its row away.
LEMMA EndKeepsOnce ==
    ASSUME WorkerTypeOK, Once, NEW a \in Apps, NEW i \in Threads, EndJob(a, i),
           stage' = stage
    PROVE  Once'
<1>1. /\ doing' = [doing EXCEPT ![a][i] = "waiting"]
      /\ queue' = queue /\ breach' = breach
  BY DEF EndJob
<1>2. \A j \in Jobs : row'[j] = row[j] \/ row'[j] = "final"
  BY DEF EndJob, WorkerTypeOK
<1>3. doing \in [Apps -> [Threads -> {"unborn", "waiting", "ended"} \cup Jobs]]
  BY DEF WorkerTypeOK
<1>4. \A b \in Apps, k \in Threads : doing'[b][k] = doing[b][k] \/ doing'[b][k] = "waiting"
  BY <1>1, <1>3
<1>5. "waiting" \notin Jobs
  BY ProcessAssumption
<1> QED
  BY <1>1, <1>2, <1>4, <1>5 DEF Once, OnQueue, Running

\* A job that is created has no row before, and so is nowhere else.
LEMMA CreateKeepsOnce ==
    ASSUME WorkerTypeOK, AloneAtWork, Once, NEW a \in Apps, NEW j \in Jobs, Create(a, j)
    PROVE  Once'
<1> SUFFICES ASSUME breach = {} PROVE Once'
  BY DEF Create, CreateJob, Once
<1>1. /\ stage[a] = "serving" /\ stage' = stage /\ row[j] = "none"
      /\ row' = [row EXCEPT ![j] = "open"] /\ doing' = doing /\ breach' = breach
      /\ queue' = [queue EXCEPT ![a] = Append(queue[a], j)]
  BY DEF Create, CreateJob, processVars
<1>2. Running(a) /\ \A b \in Apps : Running(b)' <=> b = a
  BY <1>1 DEF Running, AloneAtWork
<1>3. queue[a] \in Seq(Jobs) /\ queue \in [Apps -> Seq(Jobs)]
  BY DEF WorkerTypeOK
<1>4. /\ queue'[a] = Append(queue[a], j)
      /\ \A b \in Apps : b # a => queue'[b] = queue[b]
  BY <1>1, <1>3
<1>5. ~OnQueue(a, j)
  BY <1>1, <1>2 DEF Once
<1>6. \A k \in DOMAIN queue[a] : queue[a][k] # j
  BY <1>5 DEF OnQueue
<1>7. \A k, l \in DOMAIN queue[a] : queue[a][k] = queue[a][l] => k = l
  BY <1>2 DEF Once
<1>8. /\ \A k, l \in DOMAIN queue'[a] : queue'[a][k] = queue'[a][l] => k = l
      /\ \A k \in DOMAIN queue'[a] :
             queue'[a][k] = j \/ \E l \in DOMAIN queue[a] : queue[a][l] = queue'[a][k]
  <2> DEFINE n == Len(queue[a])
             q == Append(queue[a], j)
  <2>1. n \in Nat /\ DOMAIN queue[a] = 1 .. n /\ DOMAIN q = 1 .. n + 1 /\ q[n + 1] = j
    BY <1>3
  <2>2. \A k \in 1 .. n : q[k] = queue[a][k]
    BY <1>3
  <2>3. queue'[a] = q
    BY <1>4
  <2> HIDE DEF n, q
  <2>4. \A k \in DOMAIN q : k = n + 1 \/ k \in 1 .. n
    BY <2>1
  <2>5. \A k, l \in DOMAIN q : q[k] = q[l] => k = l
    BY <1>6, <1>7, <2>1, <2>2, <2>4
  <2> QED
    BY <2>1, <2>2, <2>3, <2>4, <2>5
<1>9. \A b \in Apps, i \in Threads : doing[b][i] # j
  BY <1>1 DEF Once
<1>10. \A h \in Jobs : row'[h] = row[h] \/ row'[h] = "open"
  BY <1>1 DEF WorkerTypeOK
<1>11. \A h \in Jobs : OnQueue(a, h)' => h = j \/ OnQueue(a, h)
  BY <1>8 DEF OnQueue
<1>12. \A h \in Jobs : OnQueue(a, h)' =>
           row'[h] # "none" /\ \A b \in Apps, i \in Threads : doing'[b][i] # h
  <2>1. row'[j] = "open"
    BY <1>1 DEF WorkerTypeOK
  <2> QED
    BY <1>1, <1>2, <1>9, <1>10, <1>11, <2>1 DEF Once
<1>13. \A b \in Apps : stage'[b] \in Early => queue'[b] = <<>>
  BY <1>1, <1>4 DEF Once, Early
<1>14. \A b \in Apps, i \in Threads : doing'[b][i] \in Jobs => row'[doing'[b][i]] # "none"
  BY <1>1, <1>10 DEF Once
<1> QED
  BY <1>1, <1>2, <1>8, <1>12, <1>13, <1>14 DEF Once

LEMMA ExitKeepsOnce ==
    ASSUME WorkerInv, Once, NEW a \in Apps, Exit(a)
    PROVE  Once'
<1> USE DEF WorkerInv, ProcessTypeOK
<1>1. /\ stage' = [stage EXCEPT ![a] = "down"] /\ breach' = breach /\ row' = row
      /\ queue' = [queue EXCEPT ![a] = <<>>]
      /\ doing' = [doing EXCEPT ![a] = [i \in Threads |-> "unborn"]]
  BY DEF Exit, Vanish, Goto
<1>2. \A b \in Apps : b # a => /\ stage'[b] = stage[b] /\ queue'[b] = queue[b]
                                /\ (Running(b)' <=> Running(b))
  BY <1>1 DEF Running, WorkerTypeOK
<1>3. ~Running(a)' /\ queue'[a] = <<>>
  BY <1>1 DEF Running, WorkerTypeOK
<1>4. \A b \in Apps, i \in Threads : doing'[b][i] = doing[b][i] \/ doing'[b][i] = "unborn"
  BY <1>1 DEF WorkerTypeOK
<1>5. "unborn" \notin Jobs
  BY ProcessAssumption
<1> QED
  BY <1>1, <1>2, <1>3, <1>4, <1>5 DEF Once, OnQueue

LEMMA StepKeepsOnce ==
    ASSUME WorkerInv, AloneAtWork, Once, [Next]_vars
    PROVE  Once'
<1> USE DEF WorkerInv, ProcessTypeOK, Goto
<1>1. ASSUME NEW a \in Apps,
             \/ DevBootstrap(a) \/ Bind(a) \/ Close(a)
             \/ ReadSecret(a) \/ StoreSecret(a) \/ Announce(a)
      PROVE  Once'
  <2>1. UNCHANGED workerVars
    BY <1>1 DEF DevBootstrap, Bind, Close, ReadSecret, StoreSecret, Announce
  <2>2. stage[a] \in Early /\ \E s \in Early : stage' = [stage EXCEPT ![a] = s]
    BY <1>1 DEF DevBootstrap, Bind, Close, ReadSecret, StoreSecret, Announce, Early
  <2>3. \A b \in Apps : (Running(b)' => Running(b)) /\ (stage'[b] \in Early => stage[b] \in Early)
    BY <2>2 DEF Running, Early
  <2> QED
    BY <2>1, <2>3, QuietKeepsOnce DEF workerVars
<1>2. ASSUME NEW a \in Apps, Listen(a) \/ Shutdown(a) \/ Join(a)
      PROVE  Once'
  <2>1. UNCHANGED <<row, queue, doing>> /\ breach \subseteq breach'
    BY <1>2 DEF Listen, Shutdown, Join, StopSet, StopJoin, workerVars
  <2>2. Running(a) /\ \E s \in {"serving", "stopping", "stopped"} :
                          stage' = [stage EXCEPT ![a] = s]
    BY <1>2 DEF Listen, Shutdown, Join, Running
  <2>3. \A b \in Apps : (Running(b)' => Running(b)) /\ (stage'[b] \in Early => stage[b] \in Early)
    BY <2>2 DEF Running, Early
  <2> QED
    BY <2>1, <2>3, QuietKeepsOnce
<1>3. ASSUME NEW a \in Apps, Work(a)
      PROVE  Once'
  BY <1>3, LoopKeepsOnce, EndKeepsOnce DEF Work, WorkerStep, processVars
<1>4. CASE UNCHANGED vars
  BY <1>4, QuietKeepsOnce DEF vars, workerVars, processVars, Running
<1> QED
  BY <1>1, <1>2, <1>3, <1>4, StartKeepsOnce, CreateKeepsOnce, ExitKeepsOnce DEF Next

\* Once holds throughout.
THEOREM OnceInvariant == Spec => []Once
<1>1. Init => Once
  <2> SUFFICES ASSUME Init PROVE Once
    OBVIOUS
  <2>1. \A b \in Apps, i \in Threads : doing[b][i] = "unborn"
    BY DEF Init, WorkerInit
  <2>2. \A b \in Apps : queue[b] = <<>> /\ ~Running(b)
    BY DEF Init, WorkerInit, Running
  <2> QED
    BY <2>1, <2>2, ProcessAssumption DEF Once
<1>2. WorkerInv /\ AloneAtWork /\ Once /\ [Next]_vars => Once'
  BY StepKeepsOnce
<1> QED
  BY <1>1, <1>2, WorkerInvariant, AloneInvariant, PTL DEF Spec

\* Each job is with one worker or once on the queue of an app that is up, unless two apps
\* were up at once, a worker outlived its stop, or an app was started twice.
THEOREM DeliveredToOne == Spec => []OneDelivery
<1>1. ASSUME Once, AloneAtWork, breach = {}, NEW a \in Apps, NEW j \in Jobs, Running(a)
      PROVE  Cardinality(Entries(a, j)) + Cardinality(Workers(j)) <= 1
  <2>1. \A k, l \in Entries(a, j) : k = l
    BY <1>1 DEF Once, Entries
  <2>2. \A s, t \in Workers(j) : s = t
    BY <1>1 DEF AloneAtWork, Workers, AliveThreads
  <2>3. Entries(a, j) = {} \/ Workers(j) = {}
    <3>1. ASSUME Entries(a, j) # {} PROVE Workers(j) = {}
      <4>1. OnQueue(a, j)
        BY <3>1 DEF Entries, OnQueue
      <4>2. \A b \in Apps, i \in Threads : doing[b][i] # j
        BY <1>1, <4>1 DEF Once
      <4> QED
        BY <4>2 DEF Workers, AliveThreads
    <3> QED
      BY <3>1
  <2>4. /\ Cardinality(Entries(a, j)) \in {0, 1}
        /\ Entries(a, j) = {} => Cardinality(Entries(a, j)) = 0
    BY <2>1, AtMostOne
  <2>5. /\ Cardinality(Workers(j)) \in {0, 1}
        /\ Workers(j) = {} => Cardinality(Workers(j)) = 0
    BY <2>2, AtMostOne
  <2> QED
    BY <2>3, <2>4, <2>5
<1>2. Once /\ AloneAtWork => OneDelivery
  BY <1>1 DEF OneDelivery
<1> QED
  BY <1>2, OnceInvariant, AloneInvariant, PTL

==============================================================================
