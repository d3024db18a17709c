CONSTANTS
    Leaf = {h1, h2}
    MaxLeaves = 7

SPECIFICATION TreeSpec

INVARIANTS
    ProofsExact
    RootBindsHistory

CHECK_DEADLOCK FALSE
