CONSTANTS
    e1 = e1
    e2 = e2
    e3 = e3
    e4 = e4
    Edge = {e1, e2, e3, e4}
    Proposition = {p}
    Unresolved = unresolved

SPECIFICATION MCSpec

INVARIANTS
    ResultIsGrounded

PROPERTY
    Terminates

CHECK_DEADLOCK FALSE
