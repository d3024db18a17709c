CONSTANTS
    c1 = c1
    c2 = c2
    Corpus <- MCCorpus
    Slow = {c2}
    Api = {a1}
    MaxAborts = 1
    MaxLog = 4

SPECIFICATION Spec

INVARIANTS
    OrphansHarmless

CHECK_DEADLOCK FALSE
