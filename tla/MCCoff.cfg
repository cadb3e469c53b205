CONSTANTS
    none = none
    Base <- MCBase
    Replacement <- MCReplacement
    Objects <- MCObjects
    Word = 256
    CountLimit = 16
SPECIFICATION Spec
INVARIANTS Redirected FileIsWhole SlotsInOrder
CHECK_DEADLOCK FALSE
