CONSTANTS
    n1 = n1
    n2 = n2
    e1 = e1
    e2 = e2
    pf = pf
    None = None
    DaemonKey = daemon
    Call = {c1}
    Node = {n1, n2}
    Edge = {e1, e2}
    Proof = {pf}
    Raw = {roster}
    premises <- MCPremises
    conclusion <- MCConclusion
    proof <- MCProof
    MaxLog = 4

SPECIFICATION Spec

INVARIANTS
    GoHashChain
    GoAckedDurable

PROPERTY
    GoImplementsLedger

CHECK_DEADLOCK FALSE
