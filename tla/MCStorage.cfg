CONSTANTS
    seeder = seeder
    server = server
    skye = skye
    daemon = daemon
    n1 = n1
    n2 = n2
    e1 = e1
    e2 = e2
    pf = pf
    roster = roster
    None = None
    Proc = {seeder, server}
    Key = {skye, daemon}
    Node = {n1, n2}
    Edge = {e1, e2}
    Proof = {pf}
    Raw = {roster}
    keyOf <- MCKeyOf
    premises <- MCPremises
    conclusion <- MCConclusion
    proof <- MCProof
    MaxLog = 3

SPECIFICATION FairSpec

INVARIANTS
    StorageInvariant
    HashChain
    GraphMatchesLog
    GraphResolves
    AckedDurable

PROPERTIES
    AppendOnly
    LockReleased
    ImplementsLedger

CHECK_DEADLOCK FALSE
