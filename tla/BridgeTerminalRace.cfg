SPECIFICATION Spec
CONSTANTS
    j1 = j1  j2 = j2  j3 = j3  m1 = m1  c1 = c1  c2 = c2  i1 = i1  i2 = i2
    worker = worker  main = main  mix = mix  mp3 = mp3  stem = stem
    NoTxn = NoTxn  Unknown = Unknown
    Jobs = {j1}
    RemoteJobs = {j1}
    RequestKey <- OneEach
    Assets = {main}
    Content <- OneSuffix
    Actors = {j1, c1, worker}
    Cancels = {c1}
    Imports = {}
    Uploads <- NoUploads
    Threads = {}
    Worker = worker
    Manual = {}
    MissingAsset = {}
    MaxAttempts = 2
    PollSteps = 1
    FailOnce = {}
    BadMetadata = {}
    MaxRestarts = 0
    MockOutput = main
PROPERTIES
    TerminalIsFinal
CHECK_DEADLOCK FALSE
