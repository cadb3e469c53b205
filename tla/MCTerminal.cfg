CONSTANTS
    Lines = 2
    Cols = 3
    Chars = {" ", "x"}
    Attrs = {0, 3}
    GraphRows = {1}
    GraphCol = 2
    CursorPlaces <- MCCursorPlaces
    MaxEdits = 3
    Width = 5
    Height = 4
    Jobs <- MCJobs
    FigureJobs <- MCFigureJobs
SPECIFICATION TerminalSpec
INVARIANTS ScreenRight CursorRight OnCanvas LineRight ClipRight FiguresRight EllipseRight TriangleRight
PROPERTY DrawingEnds
