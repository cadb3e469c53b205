CONSTANTS
    Seqs <- MCSeqs
    Funs = {7, 8}
    MaxCalls = 4
SPECIFICATION Spec
INVARIANTS TypeOK WaitsWhereNeeded
PROPERTIES ImplementsKeyDict Returns
CHECK_DEADLOCK FALSE
