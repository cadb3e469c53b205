---------------------------- MODULE PendingRows ----------------------------
(***************************************************************************)
(* What the pending-redraw table of src/showme.c promises its caller: a    *)
(* dictionary from a worksheet row to the set of its columns that still    *)
(* have to be painted.  No array, no order, no search: inserting and       *)
(* deleting rows re-keys the dictionary, painting requests on rows nobody  *)
(* tracks are forgotten.                                                   *)
(***************************************************************************)
EXTENDS Integers

CONSTANTS
    MaxSheet,   \* sheets are numbered 0..MaxSheet
    MaxCol,     \* MAX_COL, the last worksheet column
    MaxKey      \* the largest row number a tracked row can be shifted to

VARIABLE pending

Sheets == 0 .. MaxSheet
Cols   == 0 .. MaxCol
Keys   == [sheet : Sheets, row : 0 .. MaxKey]

(* The rows r1..r2 of the sheets s1..s2. *)
Rows(s1, s2, r1, r2) == [sheet : s1 .. s2, row : r1 .. r2]

Init == pending = [k \in {} |-> {}]

Reset == pending' = [k \in {} |-> {}]

(* Start tracking the rows K, with nothing pending on the new ones. *)
Tracking(old, K) ==
    [k \in DOMAIN old \cup K |-> IF k \in DOMAIN old THEN old[k] ELSE {}]

(* Every tracked row of K has the columns C to paint as well. *)
Marking(old, K, C) ==
    [k \in DOMAIN old |-> IF k \in K THEN old[k] \cup C ELSE old[k]]

Moves(k, s1, s2, start) == k.sheet \in s1 .. s2 /\ k.row >= start

(* n rows are inserted at start (n < 0: deleted) in the sheets s1..s2: a   *)
(* key follows its row, and the rows that are deleted are forgotten.       *)
ShiftingRows(old, s1, s2, start, n) ==
    LET Shifted(k, m) == IF Moves(k, s1, s2, start)
                         THEN [k EXCEPT !.row = k.row + m] ELSE k
        Stays(k) == Moves(k, s1, s2, start) => k.row + n \in start .. MaxKey
        kept     == {k \in DOMAIN old : Stays(k)}
    IN  [k \in {Shifted(l, n) : l \in kept} |-> old[Shifted(k, -n)]]

(* n columns are inserted at b (n < 0: deleted; n = 0: the row is taken    *)
(* for all new from b on): what is pending before b stays; after it the    *)
(* columns that are new to the row are, and no other.                      *)
NewCols(b, n) ==
    IF n > 0 THEN {c \in Cols : b <= c /\ c < b + n}
    ELSE IF n < 0 THEN {c \in Cols : c > MaxCol + n}
    ELSE {c \in Cols : b <= c}

ShiftingCols(old, s1, s2, b, n) ==
    [k \in DOMAIN old |->
        IF k.sheet \in s1 .. s2
        THEN {c \in old[k] : c < b} \cup NewCols(b, n) ELSE old[k]]

Track(K)                    == pending' = Tracking(pending, K)
Mark(K, C)                  == pending' = Marking(pending, K, C)
ShiftRows(s1, s2, start, n) == pending' = ShiftingRows(pending, s1, s2, start, n)
ShiftCols(s1, s2, b, n)     == pending' = ShiftingCols(pending, s1, s2, b, n)

Next ==
    \/ Reset
    \/ \E s1, s2 \in Sheets, b \in Cols, n \in -MaxCol .. MaxCol : ShiftCols(s1, s2, b, n)
    \/ \E s1, s2 \in Sheets, start \in 0 .. MaxKey, n \in -MaxKey .. MaxKey :
          ShiftRows(s1, s2, start, n)
    \/ \E s \in Sheets, r1, r2 \in 0 .. MaxKey : Track(Rows(s, s, r1, r2))
    \/ \E s1, s2 \in Sheets, r1, r2 \in 0 .. MaxKey, c1, c2 \in Cols :
          Mark(Rows(s1, s2, r1, r2), c1 .. c2)

Spec == Init /\ [][Next]_pending
=============================================================================
