---------------------------- MODULE ShowMeLoops ----------------------------
(***************************************************************************)
(* The loops of src/showme.c that walk over the columns of one row, one    *)
(* iteration for each step: the two shift loops of adjust_showme_cols with *)
(* the loops that fill behind them, the masks of invalidate_region, and    *)
(* the 1-2-3 core's loops that paint the columns scan_showme and           *)
(* scan_showme_leftwards find.  ShowMe uses the closed form of each;       *)
(* here they are compared, for every row and every legal call.             *)
(***************************************************************************)
EXTENDS ShowMeRow

VARIABLES
    op,     \* the function that was called
    b, n,   \* begincol and endcol, or the two ends of a region
    row0,   \* history: the row's columns at the call
    row,    \* the row's columns now
    at,     \* the loop that runs
    col,    \* maxcol, startc, or the column the painter asks for
    left,   \* iterations left: startcol or c, then j or currcol
    drawn   \* history: the columns the painter was given

loopVars == <<op, b, n, row0, row, at, col, left, drawn>>
loopArgs == <<op, b, n, row0>>

LoopInit ==
    /\ op \in {"insert", "delete", "region", "paint", "paintleft"}
    /\ b \in Cols /\ n \in -MaxCols .. MaxCols
    /\ op = "insert" => n >= 0 /\ LegalAdjust(b, n)
    /\ op = "delete" => n < 0 /\ LegalAdjust(b, n)
    /\ op = "region" => n \in b .. MaxCol
    /\ op \in {"paint", "paintleft"} => b = 0 /\ n = 0
    /\ row0 \in SUBSET Cols
    /\ row = row0
    /\ drawn = {}
    /\ at = "call"
    /\ col = 0 /\ left = 0

-----------------------------------------------------------------------------
(* adjust_showme_cols *)

Shifts_Always(steps) == TRUE          \* mutant: the loop is entered without a test

(* if (MAX_COLS - endcol != begincol), if (endcol + MAX_COLS != begincol)  *)
Shifts(steps) == steps # 0

CallAdjust ==
    /\ at = "call" /\ op \in {"insert", "delete"}
    /\ col' = IF op = "insert" THEN MaxCol ELSE b
    /\ LET steps == IF op = "insert" THEN MaxCols - n - b ELSE n + MaxCols - b
       IN  IF Shifts(steps)
           THEN at' = "shift" /\ left' = steps
           ELSE at' = "fill" /\ left' = n
    /\ UNCHANGED <<loopArgs, row, drawn>>

ShiftedBits_SetFirst(c) == (row \cup {c - n}) \ {c}   \* mutant: set, then clear

ShiftedBits(c) == (row \ {c}) \cup {c - n}

(* do { clear; set; } while (--steps): the count is tested after the body. *)
Shift ==
    /\ at = "shift"
    /\ row' = ShiftedBits(col)
    /\ col' = IF op = "insert" THEN col - 1 ELSE col + 1
    /\ IF left - 1 = 0
       THEN at' = "fill" /\ left' = n
       ELSE at' = at /\ left' = left - 1
    /\ UNCHANGED <<loopArgs, drawn>>

(* for (j = endcol; j; --maxcol) counts down and tests first. *)
FillInsert ==
    /\ at = "fill" /\ op = "insert"
    /\ IF left = 0
       THEN at' = "done" /\ UNCHANGED <<row, col, left>>
       ELSE /\ row' = row \cup {col}
            /\ col' = col - 1
            /\ left' = left - 1
            /\ UNCHANGED at
    /\ UNCHANGED <<loopArgs, drawn>>

(* do { } while (++currcol) counts up to 0 from endcol. *)
FillDelete ==
    /\ at = "fill" /\ op = "delete"
    /\ row' = row \cup {col}
    /\ col' = col + 1
    /\ left' = left + 1
    /\ at' = IF left + 1 = 0 THEN "done" ELSE "fill"
    /\ UNCHANGED <<loopArgs, drawn>>

-----------------------------------------------------------------------------
(* invalidate_region on one row of its range *)
Region ==
    /\ at = "call" /\ op = "region"
    /\ row' = row \cup RegionCols(b, n)
    /\ at' = "done"
    /\ UNCHANGED <<loopArgs, col, left, drawn>>

-----------------------------------------------------------------------------
(* for (c = scan_showme(row, 0); c >= 0; c = scan_showme(row, c + 1)) and  *)
(* its mirror image.                                                       *)
CallPaint ==
    /\ at = "call" /\ op \in {"paint", "paintleft"}
    /\ col' = IF op = "paint" THEN 0 ELSE MaxCol
    /\ at' = "scan"
    /\ UNCHANGED <<loopArgs, row, left, drawn>>

(* The column the painter asks for after it has painted c. *)
Asked(c) == IF op = "paint" THEN c + 1 ELSE c - 1

Paint ==
    /\ at = "scan" /\ op = "paint"
    /\ LET c == NextShown(row, col)
       IN  IF c < 0
           THEN at' = "done" /\ UNCHANGED <<col, drawn>>
           ELSE col' = Asked(c) /\ drawn' = drawn \cup {c} /\ UNCHANGED at
    /\ UNCHANGED <<loopArgs, row, left>>

PaintLeftwards ==
    /\ at = "scan" /\ op = "paintleft"
    /\ LET c == PreviousShown(row, col)
       IN  IF c < 0
           THEN at' = "done" /\ UNCHANGED <<col, drawn>>
           ELSE col' = Asked(c) /\ drawn' = drawn \cup {c} /\ UNCHANGED at
    /\ UNCHANGED <<loopArgs, row, left>>

LoopNext ==
    \/ CallAdjust \/ Shift \/ FillInsert \/ FillDelete
    \/ Region
    \/ CallPaint \/ Paint \/ PaintLeftwards

(* The loops run on one thread and nothing preempts them for good. *)
LoopSpec == LoopInit /\ [][LoopNext]_loopVars /\ WF_loopVars(LoopNext)

-----------------------------------------------------------------------------
(* Properties. *)

(* No iteration touches a bit outside the row: the arrays of colflags are  *)
(* adjacent in memory, so one column too many marks another worksheet row. *)
StaysInRow == row \subseteq Cols

(* Each call does what it is asked for: adjust_showme_cols leaves each bit *)
(* as ShowMe takes it to be, although the loops clear and set bits they    *)
(* pass again later; invalidate_region marks the columns from b to n and   *)
(* no other, whether the two ends share a word of colflags or not; and the *)
(* painter is given every marked column, in both directions.               *)
DoesWhatIsAsked ==
    at = "done" =>
        /\ op \in {"insert", "delete"} => row = AdjustedCols(row0, b, n)
        /\ op = "region" => row = row0 \cup b .. n
        /\ op \in {"paint", "paintleft"} => drawn = row0

(* Every call returns: the do-while loops are entered with a positive      *)
(* number of iterations only, and count down to 0.                         *)
Returns == <>(at = "done")
=============================================================================
