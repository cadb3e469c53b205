CONSTANTS
    Seqs <- MCSeqs
    Funs = {7, 8}
    MaxCalls = 3
SPECIFICATION SpecAnyOrder
INVARIANTS StopsAtNul
CHECK_DEADLOCK FALSE
