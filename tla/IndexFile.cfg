SPECIFICATION Spec
CONSTANTS
    LogIds <- MCLogIds
    Manifests <- MCManifests
    Queries <- MCQueries
    Versions = {"upkiidx0", "upkiidx1", "wrongmag"}
    Lost <- MCLost
    Tampered <- MCTampered
    U8 = 3
    U16 = 4
INVARIANTS TypeOK NeverWrong NeverFails SearchSound
PROPERTY Terminates
CHECK_DEADLOCK FALSE
