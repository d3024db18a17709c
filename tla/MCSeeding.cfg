CONSTANTS
    c1 = c1
    c2 = c2
    Corpus <- MCCorpus
    Slow = {c2}
    Api = {a1}
    MaxAborts = 2
    MaxLog = 4

SPECIFICATION Spec

INVARIANTS
    OneSeedIdentity
    SeedIdempotent
    SeedComplete
    AnchorIsHistory
    ServerNamed

CHECK_DEADLOCK FALSE
