------------------------------- MODULE ShowMe -------------------------------
(***************************************************************************)
(* src/showme.c: the table of worksheet rows that have to be painted       *)
(* again, with one bit for each column.  The C arrays rowindex,            *)
(* sheetindex and rows with their common count are the sequence entries;   *)
(* the 256 column bits of a row are a set of columns.  Every function is   *)
(* called from the 1-2-3 core, which is an external object file, so the    *)
(* operations come in any order, with any legal argument.                  *)
(***************************************************************************)
EXTENDS ShowMeRow, Sequences

CONSTANTS
    MaxSheet,   \* sheets are numbered 0..MaxSheet
    MaxRow,     \* MAX_ROW
    MaxShowme,  \* MAX_SHOWME, the length of the arrays
    MaxInt16    \* the largest value of a rowindex entry, an int16_t

ASSUME SheetAssumption == MaxSheet \in Nat
ASSUME RowAssumption   == MaxRow \in Nat /\ MaxInt16 \in Nat /\ MaxRow < MaxInt16
ASSUME SizeAssumption  == MaxShowme \in Nat

VARIABLES
    count,      \* showme_data.count
    sheetindex, \* the sheet of each entry
    rowindex,   \* the row of each entry, or -1 once it is deleted
    rows,       \* the columns each entry has pending
    rowdata,    \* the scratch row find_row returns for a row nobody tracks
    cursor,     \* the caller's SHOWMECELL.col: entries scanned so far
    seen,       \* history: what this scan has reported, as indexes
    asked       \* history: what the calls so far add up to, as PendingRows has it

index == <<count, sheetindex, rowindex>>
scan  == <<cursor, seen>>
vars  == <<index, rows, rowdata, scan, asked>>

Sheets == 0 .. MaxSheet

Deleted == -1   \* 65535 when it is read back as a uint16_t

Entries == 1 .. count

(* find_row: the entries of this row; the code takes the first of them,    *)
(* and the scratch row when there is none.                                 *)
Matches(sheet, row) == {i \in Entries : sheetindex[i] = sheet /\ rowindex[i] = row}
FirstMatch(sheet, row) ==
    CHOOSE i \in Matches(sheet, row) : \A j \in Matches(sheet, row) : i <= j

ToInt16_Wide(n) == n                          \* mutant: an int32_t entry

(* An addition stored back into an int16_t. *)
ToInt16(n) == IF n > MaxInt16 THEN n - 2 * (MaxInt16 + 1) ELSE n

TypeOK ==
    /\ count \in 0 .. MaxShowme
    /\ sheetindex \in [Entries -> Sheets]
    /\ rowindex \in [Entries -> 0 .. MaxInt16 \cup {Deleted}]
    /\ rows \in [Entries -> SUBSET Cols]
    /\ rowdata \in SUBSET Cols
    /\ cursor \in 0 .. count
    /\ seen \in Seq(Entries)

NoEntry == [i \in {} |-> {}]

Init ==
    /\ count = 0 /\ sheetindex = NoEntry /\ rowindex = NoEntry /\ rows = NoEntry
    /\ rowdata = {}
    /\ cursor = 0 /\ seen = <<>>
    /\ asked = NoEntry

-----------------------------------------------------------------------------
(* The caller sets its SHOWMECELL.col to 0 before a scan, and scans again  *)
(* after the index has changed under it.                                   *)
NoScan == cursor' = 0 /\ seen' = <<>>

StartScan == NoScan /\ UNCHANGED <<index, rows, rowdata>>

ResetShowme ==
    /\ count' = 0
    /\ sheetindex' = NoEntry /\ rowindex' = NoEntry /\ rows' = NoEntry
    /\ NoScan
    /\ UNCHANGED rowdata

Untracked_All(sheet, range) == range          \* mutant: append unsearched

Untracked(sheet, range) == {r \in range : Matches(sheet, r) = {}}

(* clear_showme appends the rows of the range that are not tracked yet, in *)
(* ascending order and with no bit set; the bits of the others stay.  The  *)
(* array is not checked for room: init_showme has refused a screen with    *)
(* more rows than it holds, and the model takes only calls that fit.       *)
ClearShowme(sheet, row, numrows) ==
    LET new == Untracked(sheet, row .. row + numrows - 1)
    IN  /\ UNCHANGED <<rowdata, scan>>
        /\ \E k \in 0 .. numrows : \E f \in [1 .. k -> new] :
           /\ \A i, j \in 1 .. k : i < j => f[i] < f[j]
           /\ \A r \in new : \E i \in 1 .. k : f[i] = r
           /\ count + k <= MaxShowme
           /\ count' = count + k
           /\ sheetindex' = [i \in 1 .. count + k |->
                                IF i <= count THEN sheetindex[i] ELSE sheet]
           /\ rowindex' = [i \in 1 .. count + k |->
                                IF i <= count THEN rowindex[i] ELSE f[i - count]]
           /\ rows' = [i \in 1 .. count + k |-> IF i <= count THEN rows[i] ELSE {}]

SetShowme_Alone(sheet, row, col) ==           \* mutant: = instead of |=
    /\ UNCHANGED <<index, scan, rowdata>>
    /\ rows' = [i \in Entries |-> IF i \in Matches(sheet, row) THEN {col} ELSE rows[i]]

(* set_showme: for a row nobody tracks the bit lands in the scratch row. *)
SetShowme(sheet, row, col) ==
    /\ UNCHANGED <<index, scan>>
    /\ IF Matches(sheet, row) = {}
       THEN rowdata' = rowdata \cup {col} /\ UNCHANGED rows
       ELSE /\ rows' = [rows EXCEPT ![FirstMatch(sheet, row)] = @ \cup {col}]
            /\ UNCHANGED rowdata

InvalidateRegion(s1, s2, r1, r2, a, b) ==
    /\ UNCHANGED <<index, rowdata, scan>>
    /\ rows' = [i \in Entries |->
                   IF sheetindex[i] \in s1 .. s2 /\ rowindex[i] \in r1 .. r2
                   THEN rows[i] \cup RegionCols(a, b) ELSE rows[i]]

(* adjust_showme_rows: n rows are inserted at start, or deleted (n < 0). *)
ShiftedRow(row, start, n) ==
    LET nextrow == ToInt16(row + n)
    IN  IF start > nextrow THEN Deleted ELSE nextrow

AdjustShowmeRows(s1, s2, start, n) ==
    /\ NoScan
    /\ UNCHANGED <<count, sheetindex, rows, rowdata>>
    /\ rowindex' = [i \in Entries |->
                       IF start <= rowindex[i] /\ sheetindex[i] \in s1 .. s2
                       THEN ShiftedRow(rowindex[i], start, n) ELSE rowindex[i]]

(* adjust_showme_cols, for the rows of the sheets s1..s2. *)
AdjustShowmeCols(s1, s2, b, n) ==
    /\ UNCHANGED <<index, rowdata, scan>>
    /\ rows' = [i \in Entries |->
                   IF sheetindex[i] \in s1 .. s2
                   THEN AdjustedCols(rows[i], b, n) ELSE rows[i]]

OnSheet_Signed(i) == rowindex[i] <= MaxRow          \* mutant: int16_t test

(* scan_showme_rows: step over the rows that are off the sheet (a deleted  *)
(* row is 65535 as a uint16_t) to the next one, or report the end with 0.  *)
OnSheet(i) == rowindex[i] \in 0 .. MaxRow
NextLive   == {i \in Entries : i > cursor /\ OnSheet(i)}

ScanShowmeRows ==
    /\ IF NextLive = {}
       THEN cursor' = count /\ UNCHANGED seen
       ELSE \E i \in NextLive :
               /\ \A j \in NextLive : i <= j
               /\ cursor' = i
               /\ seen' = Append(seen, i)
    /\ UNCHANGED <<index, rows, rowdata>>

(* Each call, beside what the dictionary of PendingRows does when it is    *)
(* asked for the same.                                                     *)
Calls == INSTANCE PendingRows WITH pending <- asked, MaxKey <- MaxInt16

Next ==
    \/ ResetShowme /\ Calls!Reset
    \/ \E sheet \in Sheets, row \in 0 .. MaxRow, numrows \in 1 .. MaxRow + 1 :
          /\ row + numrows <= MaxRow + 1 /\ ClearShowme(sheet, row, numrows)
          /\ Calls!Track(Calls!Rows(sheet, sheet, row, row + numrows - 1))
    \/ \E sheet \in Sheets, row \in 0 .. MaxRow, col \in Cols :
          /\ SetShowme(sheet, row, col)
          /\ Calls!Mark(Calls!Rows(sheet, sheet, row, row), {col})
    \/ \E s1, s2 \in Sheets, r1, r2 \in 0 .. MaxRow, a, b \in Cols :
          /\ s1 <= s2 /\ r1 <= r2 /\ a <= b /\ InvalidateRegion(s1, s2, r1, r2, a, b)
          /\ Calls!Mark(Calls!Rows(s1, s2, r1, r2), a .. b)
    \/ \E s1, s2 \in Sheets, start \in 0 .. MaxRow, n \in -MaxRow .. MaxRow :
          /\ s1 <= s2 /\ AdjustShowmeRows(s1, s2, start, n)
          /\ Calls!ShiftRows(s1, s2, start, n)
    \/ \E s1, s2 \in Sheets, b \in Cols, n \in -MaxCol .. MaxCol :
          /\ s1 <= s2 /\ LegalAdjust(b, n) /\ AdjustShowmeCols(s1, s2, b, n)
          /\ Calls!ShiftCols(s1, s2, b, n)
    \/ (StartScan \/ ScanShowmeRows) /\ UNCHANGED asked

Spec == Init /\ [][Next]_vars

-----------------------------------------------------------------------------
(* Properties. *)

Tracked(i) == rowindex[i] # Deleted

(* No two live entries stand for the same row: find_row stops at the first *)
(* match, so a second entry would be painted with bits nobody sets.  It    *)
(* takes clear_showme after a shift by adjust_showme_rows to break it.     *)
LiveRowsUnique ==
    \A i, j \in Entries :
        /\ Tracked(i) /\ Tracked(j)
        /\ sheetindex[i] = sheetindex[j]
        /\ rowindex[i] = rowindex[j]
        => i = j

(* The scan loop of scan_showme_rows has reported every row of the sheet   *)
(* below its cursor, once and in order, whatever was tracked or marked     *)
(* between two of its calls.                                               *)
ScanReportsEveryRow ==
    /\ {seen[k] : k \in 1 .. Len(seen)} = {i \in 1 .. cursor : rowindex[i] \in 0 .. MaxRow}
    /\ \A k, l \in 1 .. Len(seen) : k < l => seen[k] < seen[l]

(* The dictionary the live entries stand for. *)
Key(i)   == [sheet |-> sheetindex[i], row |-> rowindex[i]]
LiveKeys == {Key(i) : i \in {j \in Entries : Tracked(j)}}
Pending  == [k \in LiveKeys |-> rows[FirstMatch(k.sheet, k.row)]]

Abs == INSTANCE PendingRows WITH pending <- Pending, MaxKey <- MaxInt16

(* The table, with its order, its dead entries and its scratch row, does   *)
(* what the dictionary of pending rows promises: what it holds at any time *)
(* is what the calls so far add up to in the dictionary.  A mark that is   *)
(* lost, that lands on another row or column or that shows through from    *)
(* the scratch row breaks it; so do a row that is tracked with old bits,   *)
(* and a shift of rows or columns that leaves a mark behind.               *)
ImplementsPendingRows == Abs!Spec /\ [](Pending = asked)
=============================================================================
