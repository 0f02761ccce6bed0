SPECIFICATION Spec
CONSTANTS
    j1 = j1  j2 = j2  j3 = j3  m1 = m1  c1 = c1  c2 = c2  i1 = i1  i2 = i2
    worker = worker  main = main  mix = mix  mp3 = mp3  stem = stem
    NoTxn = NoTxn  Unknown = Unknown
    Jobs = {j1, j2, j3, m1}
    RemoteJobs = {j1, j2, j3, m1}
    RequestKey <- TriesOfOne
    Assets = {main}
    Content <- OneSuffix
    Actors = {j1, j2, j3, m1, c1, worker}
    Cancels = {c1}
    Imports = {}
    Uploads <- NoUploads
    Threads = {j2, c1}
    Worker = worker
    Manual = {m1}
    MissingAsset = {j2}
    MaxAttempts = 1
    PollSteps = 1
    FailOnce = {j1}
    BadMetadata = {m1}
    MaxRestarts = 2
    MockOutput = main
INVARIANTS
    BridgeTypeOK
    DeliveredOnce
    OneSubmitPerProcess
    CompleteIsBacked
    CancellingHasRemote
    AbandonedForCause
    RetriesCounted
    ModesStayApart
PROPERTIES
    IntakeSpec
    OnlyCancelsBreakTheTable
CHECK_DEADLOCK FALSE
