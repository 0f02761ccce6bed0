SPECIFICATION Spec
CONSTANTS
    j1 = j1  j2 = j2  j3 = j3  m1 = m1  c1 = c1  c2 = c2  i1 = i1  i2 = i2
    worker = worker  main = main  mix = mix  mp3 = mp3  stem = stem
    NoTxn = NoTxn  Unknown = Unknown
    Jobs = {m1}
    RemoteJobs = {m1}
    RequestKey <- OneEach
    Assets = {main, mix, mp3}
    Content <- TwoSuffixes
    Actors = {m1, i1, worker}
    Cancels = {}
    Imports = {i1}
    Uploads <- MixTwice
    Threads = {}
    Worker = worker
    Manual = {m1}
    MissingAsset = {}
    MaxAttempts = 2
    PollSteps = 1
    FailOnce = {}
    BadMetadata = {}
    MaxRestarts = 0
    MockOutput = main
INVARIANTS
    ImportedFilesExist
CHECK_DEADLOCK FALSE
