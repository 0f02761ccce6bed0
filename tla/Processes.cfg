SPECIFICATION Spec
CONSTANTS
    first = first  second = second  j1 = j1  x = x  y = y
    Apps = {first, second}
    Jobs = {j1}
    MaxStarts = 2
    DevMode = {second}
    Ports = {x, y}
    DevPort = x
    KeychainFails = FALSE
    MaxLives = 2
INVARIANTS
    ProcessTypeOK
    UpHasWorker
    SingleWorker
    OneDelivery
    SecretsAgree
    LastIsFound
PROPERTIES
    StoppedWorkersEnd
CHECK_DEADLOCK FALSE
