----------------------------- MODULE ShowMeRow -----------------------------
(***************************************************************************)
(* One row of the table of src/showme.c: the colflags bits, as the set of  *)
(* the columns whose bit is set, and what the functions of the file        *)
(* compute on it.                                                          *)
(***************************************************************************)
EXTENDS Integers

CONSTANTS
    MaxCol,     \* MAX_COL
    Word        \* columns in one word of colflags

ASSUME ColAssumption == MaxCol \in Nat /\ Word \in Nat \ {0}

Cols    == 0 .. MaxCol
MaxCols == MaxCol + 1

(* The masks of invalidate_region, as the columns they select. *)
WordOf(c)    == {d \in Cols : d \div Word = c \div Word}
StartMask(c) == {d \in WordOf(c) : d >= c}
EndMask(c)   == {d \in WordOf(c) : d <= c}
Between(a, b) == {d \in Cols : d \div Word > a \div Word /\ d \div Word < b \div Word}
RegionCols(a, b) ==
    IF a \div Word = b \div Word
    THEN StartMask(a) \cap EndMask(b)
    ELSE StartMask(a) \cup EndMask(b) \cup Between(a, b)

(* The calls of adjust_showme_cols its loops are written for: n columns    *)
(* inserted at b, or deleted (n < 0), that do not reach past the sheet.    *)
LegalAdjust(b, n) == b + n <= MaxCols /\ b - n <= MaxCols

(* adjust_showme_cols: what its loops leave in a row (ShowMeLoops runs     *)
(* them bit by bit) when n columns are inserted at b, or deleted (n < 0).  *)
AdjustedCols(cols, b, n) ==
    (cols \cap 0 .. b - 1) \cup
    IF n > 0 THEN b .. b + n - 1 ELSE (IF n = 0 THEN b ELSE MaxCols + n) .. MaxCol

NextShown_FromZero(cols, column) ==  \* mutant: the search restarts at column 0
    IF cols = {} THEN -1 ELSE CHOOSE c \in cols : \A d \in cols : c <= d

(* scan_showme and scan_showme_leftwards: the nearest column whose bit is  *)
(* set, the column itself included; -1 when there is none.                 *)
NextShown(cols, column) ==
    LET ahead == {c \in cols : c >= column}
    IN  IF ahead = {} THEN -1 ELSE CHOOSE c \in ahead : \A d \in ahead : c <= d

PreviousShown(cols, column) ==
    LET behind == {c \in cols : c <= column}
    IN  IF behind = {} THEN -1 ELSE CHOOSE c \in behind : \A d \in behind : c >= d
=============================================================================
