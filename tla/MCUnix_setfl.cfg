CONSTANTS
    p = p
    q = q
    Procs = {p, q}
    MaxByte = 1
    MaxCalls = 4
SYMMETRY Perms
SPECIFICATION Spec
INVARIANTS NonBlocking
CHECK_DEADLOCK FALSE
