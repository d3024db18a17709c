CONSTANTS
    e1 = e1
    e2 = e2
    e3 = e3
    n1 = n1
    n2 = n2
    Edge = {e1, e2, e3}
    Node = {n1, n2, n3}

SPECIFICATION MCSpec

INVARIANTS
    KappaIsBest
    DepthIsMinimal
    ProofTreeDerives
    FrontierBlocks

PROPERTY
    Terminates

CHECK_DEADLOCK FALSE
