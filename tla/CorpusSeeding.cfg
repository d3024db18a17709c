CONSTANT
    MaxRuns = 3

SPECIFICATION LoopSpec

INVARIANTS
    NothingInflated
    ExitCriteriaMet

CHECK_DEADLOCK FALSE
