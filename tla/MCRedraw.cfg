CONSTANTS
    Height = 5
    Cells = 2
    CellWidth = 2
    Invalid = 99
    MaxCol = 5
    Word = 2
SPECIFICATION RedrawSpec
INVARIANTS TypeOK PictureRight StaysInRow DoesWhatIsAsked
PROPERTIES InPlaceKept Returns
