CONSTANTS
    n1 = n1
    n2 = n2
    e1 = e1
    e2 = e2
    e3 = e3
    e4 = e4
    pf = pf
    skye = skye
    client = client
    Node = {n1, n2}
    Edge = {e1, e2, e3, e4}
    Proof = {pf}
    Raw = {roster}
    None = None
    Genesis = roster
    Refuting = {e4}
    Targets = {n2}
    Named = {skye}
    ServerKey = key
    AuthorKey = key
    MaxLog = 4
    premises <- MCpremises
    conclusion <- MCconclusion
    proof <- MCproof
    strength <- MCstrength
    signer <- MCsigner

SPECIFICATION FairSpec

INVARIANTS
    AttestationExact
    CommittedResolves
    PathIsSnapshot
    GraphAnswerWhole
    HistoryVerdictExact

PROPERTY
    EveryRequestAnswered
