CONSTANTS
    MaxSheet = 1
    MaxRow = 1
    MaxCol = 1
    Word = 1
    MaxShowme = 2
    MaxInt16 = 2
SPECIFICATION Spec
INVARIANTS TypeOK LiveRowsUnique ScanReportsEveryRow
PROPERTY ImplementsPendingRows
