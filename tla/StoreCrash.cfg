\* Crashes anywhere, every call of sqlite succeeds, nobody touches the table
\* during a session.
CONSTANTS
    MaxFingers = 2
    Groups = {0, 1}
    MaxEnrolls = 3
    Faults = {}
    Crashes = TRUE
    Exclusive = TRUE
SPECIFICATION Spec
INVARIANTS
    TypeOK
    StoredIsLoaded
    LoadedIsStored
    GoneStaysGone
PROPERTY KeepsPromise
