--------------------------- MODULE BridgeProcesses ---------------------------
(***************************************************************************)
(* Bridge processes of one user: main.py, bootstrap.py, BridgeBinder and   *)
(* SharedSecretManager of bridge_security.py, and the lifespan of the app. *)
(* The processes share the ports of the machine, the lockfile by which     *)
(* plug-ins find them, the keychain, and the database with its jobs.       *)
(* Nothing keeps two of them from running at once.                         *)
(***************************************************************************)
EXTENDS WorkerLifecycle

CONSTANTS
    DevMode,      \* the apps whose process may run with BRIDGE_DEV_MODE=1
    Ports,        \* ports the system may hand out
    DevPort,      \* BRIDGE_PORT
    KeychainFails, \* whether a look into the keychain may fail
    MaxLives      \* bound on the processes started

VARIABLES
    stage,        \* how far the process of each app is
    port,         \* RuntimeBootstrap.port
    secret,       \* the shared secret the process has, or NoSecret
    lockfile,     \* the port in the lockfile, or NoFile
    keychain,     \* the stored secret, or NoSecret
    made,         \* secrets generated so far, which also names them
    raced,        \* two processes found no secret at the same time
    last,         \* the process that announced itself last, until it exits, or Nobody
    abandoned,    \* a bootstrap was given up after the last announcement
    lives         \* processes started so far

ASSUME ProcessAssumption ==
    /\ IsFiniteSet(Jobs) /\ Jobs \cap {"unborn", "waiting", "ended"} = {}
    /\ "nobody" \notin Apps
    /\ MaxStarts \in Nat
    /\ KeychainFails \in BOOLEAN

processVars == <<stage, port, secret, lockfile, keychain, made, raced, last, abandoned,
                lives>>
vars == <<workerVars, processVars>>

NoSecret == 0
DevSecret == -1
NoFile == "no file"
Nobody == "nobody"

Stages == {"down", "bound", "closed", "keyless", "keyed", "announced", "started",
           "serving", "stopping", "stopped"}

ProcessTypeOK ==
    /\ WorkerTypeOK
    /\ stage \in [Apps -> Stages]
    /\ port \in [Apps -> Ports \cup {DevPort}]
    /\ secret \in [Apps -> {DevSecret} \cup 0 .. made]
    /\ lockfile \in Ports \cup {NoFile}
    /\ keychain \in 0 .. made
    /\ made \in Nat /\ lives \in Nat /\ raced \in BOOLEAN
    /\ last \in Apps \cup {Nobody} /\ abandoned \in BOOLEAN

Init ==
    /\ WorkerInit
    /\ stage = [a \in Apps |-> "down"]
    /\ port = [a \in Apps |-> DevPort]
    /\ secret = [a \in Apps |-> NoSecret]
    /\ lockfile = NoFile /\ last = Nobody /\ abandoned = FALSE
    /\ keychain = NoSecret /\ made = 0 /\ raced = FALSE
    /\ lives = 0

\* The process holds its port: as BridgeBinder.sock, or as the server's socket.
Holds(a) == stage[a] \in {"bound", "serving"}
Taken(n) == \E a \in Apps : Holds(a) /\ port[a] = n
Running(a) == stage[a] \in {"started", "serving", "stopping"}

\* It has gone for the lockfile, and has not announced itself.
Booting(a) == stage[a] \in {"bound", "closed", "keyless", "keyed"}

Goto(a, s) == stage' = [stage EXCEPT ![a] = s]

-----------------------------------------------------------------------------
(* initialize_runtime_bootstrap *)

\* The port and secret of the environment; no lockfile.
DevBootstrap(a) ==
    /\ a \in DevMode /\ stage[a] = "down" /\ lives < MaxLives
    /\ lives' = lives + 1
    /\ Goto(a, "announced")
    /\ port' = [port EXCEPT ![a] = DevPort]
    /\ secret' = [secret EXCEPT ![a] = DevSecret]
    /\ UNCHANGED <<workerVars, lockfile, keychain, made, raced, last, abandoned>>

\* BridgeBinder.bind: a free port of the system's choice, and a first lockfile.
Bind(a) ==
    /\ stage[a] = "down" /\ lives < MaxLives
    /\ lives' = lives + 1
    /\ \E n \in Ports :
          /\ ~Taken(n)
          /\ port' = [port EXCEPT ![a] = n]
          /\ lockfile' = n
    /\ Goto(a, "bound")
    /\ UNCHANGED <<workerVars, secret, keychain, made, raced, last, abandoned>>

\* BridgeBinder.close: the port is free again, and the lockfile removed, whoever
\* wrote it.
Close(a) ==
    /\ stage[a] = "bound"
    /\ Goto(a, "closed")
    /\ lockfile' = NoFile
    /\ UNCHANGED <<workerVars, port, secret, keychain, made, raced, last, abandoned, lives>>

\* OSKeychain.get: that it fails looks as if there were no secret.
Lookup == {keychain} \cup IF KeychainFails THEN {NoSecret} ELSE {}

\* SharedSecretManager.get_or_create, first half.
ReadSecret(a) ==
    /\ stage[a] = "closed"
    /\ \E found \in Lookup :
          /\ secret' = [secret EXCEPT ![a] = found]
          /\ Goto(a, IF found = NoSecret THEN "keyless" ELSE "keyed")
          /\ raced' = (raced \/ (found = NoSecret /\ \E b \in Apps : stage[b] = "keyless"))
    /\ UNCHANGED <<workerVars, port, lockfile, keychain, made, last, abandoned, lives>>

\* Mutant: the secret that is stored is not the one that is used.
StoreSecretTwice(a) ==
    /\ stage[a] = "keyless"
    /\ made' = made + 2 /\ keychain' = made + 1
    /\ secret' = [secret EXCEPT ![a] = made + 2]
    /\ Goto(a, "keyed")
    /\ UNCHANGED <<workerVars, port, lockfile, raced, last, abandoned, lives>>

\* The second half: a new secret takes the place of what is stored by now.  One step,
\* as in the keychains of macOS and Linux; the two stores of Windows (cmdkey, then a
\* JSON file rewritten in place) are not modelled.
StoreSecret(a) ==
    /\ stage[a] = "keyless"
    /\ made' = made + 1 /\ keychain' = made + 1
    /\ secret' = [secret EXCEPT ![a] = made + 1]
    /\ Goto(a, "keyed")
    /\ UNCHANGED <<workerVars, port, lockfile, raced, last, abandoned, lives>>

\* Mutant: the binder is closed after the lockfile is complete.
AnnounceThenClose(a) ==
    /\ stage[a] = "keyed"
    /\ Goto(a, "announced")
    /\ lockfile' = NoFile
    /\ last' = a /\ abandoned' = FALSE
    /\ UNCHANGED <<workerVars, port, secret, keychain, made, raced, lives>>

\* The lockfile for plug-ins.
Announce(a) ==
    /\ stage[a] = "keyed"
    /\ Goto(a, "announced")
    /\ lockfile' = port[a]
    /\ last' = a /\ abandoned' = FALSE
    /\ UNCHANGED <<workerVars, port, secret, keychain, made, raced, lives>>

-----------------------------------------------------------------------------
(* main: create_app and uvicorn.run *)

\* What a start must not meet: another app at work on the same database.
StartBreach(a) == IF \E b \in Apps \ {a} : Running(b) THEN {"shared"} ELSE {}

\* The lifespan is entered, before the server binds its socket.
StartUp(a) ==
    /\ stage[a] = "announced"
    /\ Goto(a, "started")
    /\ Start(a)
    /\ breach' = breach \cup StartBreach(a)
    /\ UNCHANGED <<port, secret, lockfile, keychain, made, raced, last, abandoned, lives>>

\* The same app is run again by a program that holds it, as tests do with apps.
StartAgain(a) ==
    /\ stage[a] = "stopped"
    /\ Goto(a, "started")
    /\ Start(a)
    /\ breach' = breach \cup StartBreach(a) \cup {"again"}
    /\ UNCHANGED <<port, secret, lockfile, keychain, made, raced, last, abandoned, lives>>

\* The server binds the port, if nobody has it by now, and else shuts down.
Listen(a) ==
    /\ stage[a] = "started"
    /\ IF Taken(port[a]) THEN Goto(a, "stopping") /\ StopSet(a)
                         ELSE Goto(a, "serving") /\ UNCHANGED workerVars
    /\ UNCHANGED <<port, secret, lockfile, keychain, made, raced, last, abandoned, lives>>

Shutdown(a) ==
    /\ stage[a] = "serving"
    /\ Goto(a, "stopping")
    /\ StopSet(a)
    /\ UNCHANGED <<port, secret, lockfile, keychain, made, raced, last, abandoned, lives>>

Join(a) ==
    /\ stage[a] = "stopping"
    /\ Goto(a, "stopped")
    /\ StopJoin(a)
    /\ UNCHANGED <<port, secret, lockfile, keychain, made, raced, last, abandoned, lives>>

\* The process exits, crashes, or gives up on an exception of the bootstrap (the
\* keychain refuses the secret).  The lockfile stays as it is.
Exit(a) ==
    /\ stage[a] # "down"
    /\ Goto(a, "down")
    /\ secret' = [secret EXCEPT ![a] = NoSecret]
    /\ port' = [port EXCEPT ![a] = DevPort]
    /\ last' = (IF last = a THEN Nobody ELSE last)
    /\ abandoned' = (abandoned \/ Booting(a))
    /\ Vanish(a)
    /\ UNCHANGED <<lockfile, keychain, made, raced, lives>>

Work(a) == WorkerStep(a) /\ UNCHANGED processVars

Create(a, j) == stage[a] = "serving" /\ CreateJob(a, j) /\ UNCHANGED processVars

Next ==
    \E a \in Apps :
        \/ DevBootstrap(a) \/ Bind(a) \/ Close(a)
        \/ ReadSecret(a) \/ StoreSecret(a) \/ Announce(a)
        \/ StartUp(a) \/ StartAgain(a) \/ Listen(a) \/ Shutdown(a) \/ Join(a) \/ Exit(a)
        \/ Work(a)
        \/ \E j \in Jobs : Create(a, j)

\* Threads run, and process_one ends; nothing else need happen.
Spec == Init /\ [][Next]_vars /\ \A a \in Apps : WF_vars(Work(a))

-----------------------------------------------------------------------------

\* An app that is up has a thread that nobody told to end, whatever became of the
\* threads of its earlier starts (WorkerLoop.start).
UpHasWorker ==
    \A a \in Apps : stage[a] \in {"started", "serving"} =>
        ~stop[a] /\ thread[a] # NoThread /\ Alive(a, thread[a])

\* One worker on the database, unless two apps were up at once or a worker
\* outlived the 2 s of stop: its app forgets it, and a start lets it go on.
SingleWorker ==
    breach \cap {"shared", "outlived"} = {} => Cardinality(AliveThreads) <= 1

Entries(a, j) == {k \in DOMAIN queue[a] : queue[a][k] = j}
Workers(j) == {t \in AliveThreads : doing[t[1]][t[2]] = j}

\* Each job is with at most one worker or at most once on the queue of an app that is
\* up, never both, while no two apps were up at once, no worker outlived its stop, and
\* no app was started twice: what is recovered at a start is nowhere else.
OneDelivery ==
    breach = {} =>
        \A j \in Jobs, a \in Apps :
            Running(a) => Cardinality(Entries(a, j)) + Cardinality(Workers(j)) <= 1

\* Bridges that run have the secret that the keychain has, unless two of them were
\* first (SharedSecretManager.get_or_create).
SecretsAgree ==
    \A a \in Apps :
        secret[a] \notin {NoSecret, DevSecret} /\ ~raced => secret[a] = keychain

\* Once every bootstrap is over, and none was given up, the bridge that announced
\* itself last is the one that the lockfile leads to while it serves: the lockfile has
\* its port, and nobody else holds it.  (A bootstrap under way may have replaced or
\* unlinked the lockfile of a bridge that runs, and one that was given up leaves it so.)
LastIsFound ==
    ~abandoned /\ (\A b \in Apps : ~Booting(b)) =>
        \A a \in Apps : stage[a] = "serving" /\ last = a =>
            /\ lockfile = port[a]
            /\ \A b \in Apps \ {a} : Holds(b) => port[b] # port[a]

\* A worker that is told to stop ends, unless the app is started again before.
StoppedWorkersEnd ==
    \A a \in Apps :
        stop[a] ~> (~stop[a] \/ \A i \in Threads : ~Alive(a, i))

\* "one per-install shared secret" (bridge_security.py:171): a secret that is
\* stored is not replaced.
OneSecretPerInstall == [][keychain # NoSecret => keychain' = keychain]_vars

==============================================================================
