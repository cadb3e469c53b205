CONSTANTS
    MaxRow = 1
    MaxCol = 1
    MaxLines = 2
    MaxTokens = 3
    Names <- MCNames
    Roots <- MCRoots
    Extensions <- MCExtensions
    NotInNames = {":"}
    Irreducible = {"?"}
    PathMax = 8
    Messages <- MCMessages
    Numbers = {0, 2, 256, 65537}
    MaxText = 5
    Parts = {"resources"}
    Sources <- MCSources
    DstMax = 4
SPECIFICATION FilesSpec
INVARIANT EmptySelectorIsNul
CHECK_DEADLOCK FALSE
