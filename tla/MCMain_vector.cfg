CONSTANTS
    CmdLines <- MCWithArgument
    NoArg = NoArg
    MaxMacro = 2
    MaxSignals = 0
SPECIFICATION Spec
INVARIANTS VectorFits
