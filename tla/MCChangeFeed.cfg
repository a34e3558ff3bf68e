SPECIFICATION FairSpec
CONSTANTS
    Ids = {m, n, o}
    Clients = {c}
    PageLimit = 2
    BatchLimit = 1
    MaxChanges = 5
INVARIANTS
    TypeOK
    NothingMissed
    MirrorIsExact
PROPERTY ClientsCatchUp
