SPECIFICATION Spec
CONSTANTS
    first = first  second = second  j1 = j1  x = x  y = y
    Apps = {first}
    Jobs = {}
    MaxStarts = 1
    DevMode = {}
    Ports = {x}
    DevPort = y
    KeychainFails = TRUE
    MaxLives = 2
PROPERTIES
    OneSecretPerInstall
CHECK_DEADLOCK FALSE
