CONSTANTS
    CmdLines <- MCCmdLines
    NoArg = NoArg
    MaxMacro = 2
    MaxSignals = 3
SPECIFICATION Spec
INVARIANTS MacroInOrder NoSignalLost
PROPERTIES SignalAnswered
