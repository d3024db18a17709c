CONSTANTS
    Proposals <- MCProposals
    LeanInstalled = TRUE

SPECIFICATION FairSpec

INVARIANTS
    StoredIsEarned
    CleanUp

PROPERTY
    EveryProposalAnswered

\* A claim that never ends, with no budget, keeps the process for ever.
CHECK_DEADLOCK FALSE
