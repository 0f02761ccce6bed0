SPECIFICATION Spec
CONSTANTS
    song = song  tune = tune  a1 = a1  a2 = a2  a3 = a3  a4 = a4  i1 = i1
    NoAsset = NoAsset  Torn = Torn  Nobody = Nobody
    Submissions = {song, tune}
    Importers = {i1}
    Assets = {a1, a2, a3, a4}
    MaxIds = 2
    MaxFaults = 2
    MaxTrouble = 2
INVARIANTS
    PathTypeOK
    SentIsSaved
    ResolvedHasEnded
    StoredIsOnDisk
    OrphansAreExplained
SYMMETRY Symmetry
PROPERTIES
    OneJobPerSubmission
CHECK_DEADLOCK FALSE
