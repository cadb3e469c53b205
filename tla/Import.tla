------------------------------- MODULE Import -------------------------------
(***************************************************************************)
(* import.c: /File Import.  A file is read line by line.  In text mode a   *)
(* line becomes one label; else the quoted strings and the numbers of the  *)
(* line become the cells of a row, whatever stands between them is         *)
(* skipped.  Any step may fail: a protected cell, no memory, the end of    *)
(* the sheet, a character that cannot be converted, a read error.          *)
(*                                                                         *)
(* A line is a sequence of tokens: a string in quotes, a string that is    *)
(* not closed and takes the rest of the line, a number, or one character   *)
(* of anything else.                                                       *)
(***************************************************************************)
EXTENDS Integers, SequencesExt

CONSTANTS
    MaxRow, MaxCol,     \* the last row and column of the sheet
    MaxLines,           \* bound: lines of a file
    MaxTokens           \* bound: tokens of a line

ASSUME SheetAssumption == MaxRow \in Nat /\ MaxCol \in Nat
ASSUME BoundsAssumption == MaxLines \in Nat /\ MaxTokens \in Nat

Rows == 0 .. MaxRow
Cols == 0 .. MaxCol
Tokens == {"string", "number", "other"}
\* A string that is not closed can only stand at the end.
Lines == { line \in SeqOf(Tokens \cup {"unclosed"}, MaxTokens) :
             \A k \in DOMAIN line : line[k] = "unclosed" => k = Len(line) }

IN_USE == 9043
IMMUTABLE == 9034
MEMORY_FULL == 8962
READ_ERROR == 8980
CONVERSION == 9105
OUT_OF_BOUNDS == 1      \* what import_outof_bounds returns; its value is the core's
NOT_FOUND == 2          \* what file_access_read returns

VARIABLES
    textmode,
    file,       \* the lines
    start,      \* where the cell pointer was
    protected,  \* the cells that may not be changed
    cells,      \* what was written: [place -> token]
    n,          \* lines read
    row, rdcol,
    rest,       \* outptr: the tokens left of the line
    atEnd,      \* readret is 1: the line read was the last
    values,     \* the numbers on 1-2-3's value stack
    handle,     \* "none", "open" or "closed"
    result,
    pc

vars == <<textmode, file, start, protected, cells, n, row, rdcol, rest, atEnd, values, handle, result, pc>>
input == <<textmode, file, start, protected>>

Init ==
    /\ textmode \in BOOLEAN
    /\ file \in SeqOf(Lines, MaxLines)
    /\ start \in [row : Rows, col : Cols]
    /\ protected \in SUBSET (Rows \X Cols)
    /\ cells = << >>
    /\ n = 0
    /\ row = start.row /\ rdcol = start.col
    /\ rest = <<>> /\ atEnd = FALSE
    /\ values = 0
    /\ handle = "none"
    /\ result = 0
    /\ pc = "open"

-----------------------------------------------------------------------------

\* The name is composed, the file is in use by another, or it cannot be opened.
Open ==
    /\ pc = "open"
    /\ \/ handle' = "open" /\ pc' = "read" /\ UNCHANGED result
       \/ /\ result' \in {IN_USE, NOT_FOUND}
          /\ pc' = "done"
          /\ UNCHANGED handle
    /\ UNCHANGED <<input, cells, n, row, rdcol, rest, atEnd, values>>

Finishes(code) == pc' = "finished" /\ result' = code
GoesOn(place) == pc' = place /\ UNCHANGED result

FirstCol_Kept == rdcol
FirstCol == start.col

\* file_read_line: readret is 1 when the line it read is the last, or there was none. Any other
\* code that comes with a line is not looked at, so that line is like one with more to come.
ReadLine ==
    /\ pc = "read"
    /\ IF n = Len(file)
       THEN Finishes(0) /\ UNCHANGED <<n, rdcol, rest, atEnd>>
       ELSE \E last \in {FALSE, n + 1 = Len(file)} :
              /\ n' = n + 1
              /\ atEnd' = last
              /\ rest' = file[n + 1]
              /\ rdcol' = FirstCol
              /\ GoesOn(IF file[n + 1] = <<>> THEN "next" ELSE "convert")
    /\ UNCHANGED <<input, cells, row, values, handle>>

\* readret is another code and nothing was read.
ReadFails ==
    /\ pc = "read"
    /\ Finishes(READ_ERROR)
    /\ UNCHANGED <<input, cells, n, row, rdcol, rest, atEnd, values, handle>>

Convert ==
    /\ pc = "convert"
    /\ \/ Finishes(CONVERSION)
       \/ GoesOn(IF textmode THEN "text" ELSE "tokens")
    /\ UNCHANGED <<input, cells, n, row, rdcol, rest, atEnd, values, handle>>

Written(place, what) ==
    [q \in DOMAIN cells \cup {place} |-> IF q = place THEN what ELSE cells[q]]

\* /File Import Text: the whole line is one label.
ImportText ==
    /\ pc = "text"
    /\ LET place == <<row, start.col>> IN
         \/ place \in protected /\ Finishes(IMMUTABLE) /\ UNCHANGED cells
         \/ place \notin protected /\ Finishes(MEMORY_FULL) /\ UNCHANGED cells
         \/ place \notin protected /\ cells' = Written(place, "line") /\ GoesOn("next")
    /\ UNCHANGED <<input, n, row, rdcol, rest, atEnd, values, handle>>

OutOfBounds(col) == col > MaxCol
AfterString(line) == IF Head(line) = "unclosed" THEN <<>> ELSE Tail(line)

ImportString ==
    /\ pc = "tokens" /\ rest # <<>> /\ Head(rest) \in {"string", "unclosed"}
    /\ rest' = AfterString(rest)
    /\ LET place == <<row, rdcol>> IN
         IF OutOfBounds(rdcol)
         THEN Finishes(OUT_OF_BOUNDS) /\ UNCHANGED <<cells, rdcol>>
         ELSE IF place \in protected
         THEN Finishes(IMMUTABLE) /\ UNCHANGED <<cells, rdcol>>
         ELSE /\ rdcol' = rdcol + 1
              /\ \/ cells' = Written(place, Head(rest)) /\ GoesOn("tokens")
                 \/ Finishes(MEMORY_FULL) /\ UNCHANGED cells
    /\ UNCHANGED <<input, n, row, atEnd, values, handle>>

\* parse_number leaves the number on the value stack; make_number_cell takes it from there.
ParseNumber ==
    /\ pc = "tokens" /\ rest # <<>> /\ Head(rest) = "number"
    /\ values' = values + 1
    /\ GoesOn("number")
    /\ UNCHANGED <<input, cells, n, row, rdcol, rest, atEnd, handle>>

DropOne_Kept == values
DropOne == values - 1
ImportNumber ==
    /\ pc = "number"
    /\ LET place == <<row, rdcol>> IN
         IF OutOfBounds(rdcol) \/ place \in protected
         THEN /\ values' = DropOne
              /\ Finishes(IF OutOfBounds(rdcol) THEN OUT_OF_BOUNDS ELSE IMMUTABLE)
              /\ UNCHANGED <<cells, rdcol, rest>>
         ELSE /\ values' = values - 1
              /\ rdcol' = rdcol + 1
              /\ \/ /\ cells' = Written(place, "number")
                    /\ rest' = Tail(rest)
                    /\ GoesOn("tokens")
                 \/ Finishes(MEMORY_FULL) /\ UNCHANGED <<cells, rest>>
    /\ UNCHANGED <<input, n, row, atEnd, handle>>

SkipOther ==
    /\ pc = "tokens" /\ rest # <<>> /\ Head(rest) = "other"
    /\ rest' = Tail(rest)
    /\ UNCHANGED <<input, cells, n, row, rdcol, atEnd, values, handle, result, pc>>

LineDone ==
    /\ pc = "tokens" /\ rest = <<>>
    /\ GoesOn("next")
    /\ UNCHANGED <<input, cells, n, row, rdcol, rest, atEnd, values, handle>>

LastRow_Early(r) == r >= MaxRow
LastRow(r) == r > MaxRow

NextRow ==
    /\ pc = "next"
    /\ IF atEnd THEN Finishes(0) /\ UNCHANGED row
       ELSE /\ row' = row + 1
            /\ IF LastRow(row + 1) THEN Finishes(result) ELSE GoesOn("read")
    /\ UNCHANGED <<input, cells, n, rdcol, rest, atEnd, values, handle>>

\* sheet_modified, and the file is closed; the code it was called with is returned.
Finish ==
    /\ pc = "finished"
    /\ handle' = "closed"
    /\ pc' = "done"
    /\ UNCHANGED <<input, cells, n, row, rdcol, rest, atEnd, values, result>>

Next ==
    \/ Open \/ ReadLine \/ ReadFails \/ Convert
    \/ ImportText \/ ImportString \/ ParseNumber \/ ImportNumber \/ SkipOther \/ LineDone
    \/ NextRow \/ Finish

Spec == Init /\ [][Next]_vars

-----------------------------------------------------------------------------
(* Properties.                                                             *)

\* The tokens of a line that become cells, and the fields of the file: <<line, token>>.
IsField(token) == token # "other"
Fields(line) ==
    IF textmode THEN { k \in DOMAIN line : k = 1 }
    ELSE { k \in DOMAIN line : IsField(line[k]) }
Wanted == UNION { { <<l, k>> : k \in Fields(file[l]) } : l \in DOMAIN file }

\* Where a field belongs, after the others of its line, and what stands there.
Column(line, k) == start.col + Cardinality({ j \in Fields(line) : j < k })
Place(f) == <<start.row + f[1] - 1, Column(file[f[1]], f[2])>>
Content(f) == IF textmode THEN "line" ELSE file[f[1]][f[2]]
Earlier(f, g) == f[1] < g[1] \/ (f[1] = g[1] /\ f[2] < g[2])

\* At every moment, and so when any step fails, the cells written are those of the fields of
\* the file up to some point, each in its line's row and in the column of its place among
\* the fields: nothing is skipped, doubled or left behind by a step that failed, and no cell
\* is beyond the sheet or protected.
PrefixWritten ==
    LET written == { f \in Wanted : Place(f) \in DOMAIN cells }
    IN  /\ DOMAIN cells \subseteq (Rows \X Cols) \ protected
        /\ DOMAIN cells = { Place(f) : f \in written }
        /\ \A f \in written : cells[Place(f)] = Content(f)
        /\ \A f \in written, g \in Wanted : Earlier(g, f) => g \in written

\* Success means that every field is in the sheet, up to the sheet's last row.
SuccessIsComplete ==
    pc = "done" /\ result = 0 =>
        \A f \in Wanted : Place(f)[1] <= MaxRow => Place(f) \in DOMAIN cells

\* However the import ends no number is left on the value stack and the file is not left open.
LeavesNothing == pc = "done" => values = 0 /\ handle # "open"
=============================================================================
