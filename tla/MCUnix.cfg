CONSTANTS
    p = p
    q = q
    Procs = {p, q}
    MaxByte = 1
    MaxCalls = 5
SYMMETRY Perms
SPECIFICATION Spec
INVARIANTS Exclusive TerminalRight ErrnoTells
PROPERTIES LockQueryTrue
CHECK_DEADLOCK FALSE
