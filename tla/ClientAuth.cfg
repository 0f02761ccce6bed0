SPECIFICATION Spec
CONSTANTS
    near = near  far = far  r1 = r1  r2 = r2
    NoCall = NoCall
    Clients = {near, far}
    Requests = {r1, r2}
    CallsOf <- Calls
    VersionOf <- Versions
    ClockAhead <- FarAhead
    WrongSecret = {}
    RangeOf <- Ranges
    RequiresHmac <- OffThenOn
    ClientTimes = {0, 1, 2, 3, 4, 5, 6, 7, 8, 9}
    Skew = 2
    NonceTTL = 5
    SetBack = 1
    MaxTime = 7
    MaxBoots = 1
INVARIANTS
    ClientTypeOK
    AcceptedOnce
    OnlyAcceptedIsRemembered
    FreshHandshakeHolds
    ReplayedWasActedUpon
PROPERTIES
    ActedOnSupported
CHECK_DEADLOCK FALSE
