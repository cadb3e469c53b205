------------------------------- MODULE Window -------------------------------
(***************************************************************************)
(* src/invalid.c: how a scrolled window is brought up to date by moving    *)
(* what is on the screen already.  rows and cols are the row_invalid and   *)
(* col_invalid arrays of a window: entry k says where on the screen the    *)
(* content wanted at line k is, or Invalid (0xffff) when it is nowhere and *)
(* has to be painted.  Scrolling (the 1-2-3 core, through                  *)
(* move_rows_or_cols, invalidate_rows and invalidate_cell_cols) only edits *)
(* the arrays; move_rectangles copies blocks of screen lines until every   *)
(* valid line is in its place; display_cells paints the rest.              *)
(*                                                                         *)
(* After a display the screen is what is wanted everywhere, so a place's   *)
(* content is named by where it was then: <<r, c>>.                        *)
(***************************************************************************)
EXTENDS Integers

CONSTANTS
    Height,     \* real_height, the screen lines of the window
    Cells,      \* worksheet columns in the window
    CellWidth,  \* screen columns of each
    Invalid     \* UINT16_MAX

ASSUME HeightAssumption == Height \in Nat /\ Height >= 2
ASSUME WidthAssumption  == Cells \in Nat \ {0} /\ CellWidth \in Nat \ {0}
ASSUME InvalidAssumption == Invalid \in Nat /\ Invalid > Height /\ Invalid > Cells * CellWidth

Width   == Cells * CellWidth
RowNos  == 0 .. Height - 1
ColNos  == 0 .. Width - 1
CellNos == 0 .. Cells - 1

VARIABLES
    rows,       \* win.row_invalid
    cols,       \* win.col_invalid
    moved,      \* field_2C & 0x20: something has been moved since the last time
    screen,     \* what is on the screen: [RowNos -> [ColNos -> place]]
    pc,         \* where move_rectangles is
    turn,       \* its i or j: lines before it move up or left, the others back
    k,          \* its k
    copy,       \* the block square_copy is copying
    line,       \* the screen line square_copy copies next
    goalRows,   \* history: rows when move_rectangles was called
    goalCols    \* history: cols when move_rectangles was called

vars == <<rows, cols, moved, screen, pc, turn, k, copy, line, goalRows, goalCols>>
goal == <<goalRows, goalCols>>
walk == <<pc, turn, k, copy, line, goal>>

NoCopy == [src |-> 0, dst |-> 0, n |-> 0]

InPlace(n) == [x \in 0 .. n - 1 |-> x]

Init ==
    /\ rows = InPlace(Height) /\ cols = InPlace(Width)
    /\ moved = FALSE
    /\ screen = [r \in RowNos |-> [c \in ColNos |-> <<r, c>>]]
    /\ pc = "idle" /\ turn = 0 /\ k = 0 /\ copy = NoCopy /\ line = 0
    /\ goalRows = rows /\ goalCols = cols

-----------------------------------------------------------------------------
(* Scrolling edits the arrays. *)

(* memmove(&rowbuf[src + dst], &rowbuf[src], count) of move_rows_or_cols.  *)
Shifted(buf, src, count, dst) ==
    [x \in DOMAIN buf |-> IF x - dst \in src .. src + count - 1 THEN buf[x - dst]
                          ELSE buf[x]]

(* memset(&x[off], 0xff, size) of invalidate_rows, invalidate_cell_cols.   *)
Invalidated(buf, off, size) ==
    [x \in DOMAIN buf |-> IF x \in off .. off + size - 1 THEN Invalid ELSE buf[x]]

(* The lines a block leaves behind when it moves by dst. *)
ExposedAt(src, count, dst)   == IF dst > 0 THEN src
                                ELSE IF count > -dst THEN src + count + dst ELSE src
ExposedSize(src, count, dst) == IF dst > 0 THEN (IF count < dst THEN count ELSE dst)
                                ELSE IF count > -dst THEN -dst ELSE count

Scrolled(buf, src, count, dst) ==
    Invalidated(Shifted(buf, src, count, dst),
                ExposedAt(src, count, dst), ExposedSize(src, count, dst))

(* What the scrolls of the 1-2-3 core are taken to leave: lines keep their *)
(* order, and those that come from above never lie above those that come   *)
(* from below.  A scroll that would break this waits for a display.        *)
Scrollable(buf) ==
    \A x, y \in DOMAIN buf :
        x < y /\ buf[x] # Invalid /\ buf[y] # Invalid =>
            /\ buf[x] < buf[y]
            /\ buf[x] < x => buf[y] <= y

ScrollRows(src, count, dst) ==
    /\ pc = "idle"
    /\ Scrollable(Scrolled(rows, src, count, dst))
    /\ rows' = Scrolled(rows, src, count, dst)
    /\ moved' = TRUE
    /\ UNCHANGED <<cols, screen, walk>>

ScrollCells(src, count, dst) ==
    /\ pc = "idle"
    /\ Scrollable(Scrolled(cols, CellWidth * src, CellWidth * count, CellWidth * dst))
    /\ cols' = Scrolled(cols, CellWidth * src, CellWidth * count, CellWidth * dst)
    /\ moved' = TRUE
    /\ UNCHANGED <<rows, screen, walk>>

InvalidateRows(off, size) ==
    /\ pc = "idle"
    /\ rows' = Invalidated(rows, off, size)
    /\ UNCHANGED <<cols, moved, screen, walk>>

(* invalidate_cell_cols(dp, count, m): m cells from cell count on, as far  *)
(* as the screen reaches.                                                  *)
InvalidateCellCols(count, m) ==
    LET totalwidth == CellWidth * count
        wanted     == CellWidth * m
        remaining  == IF Width <= wanted + totalwidth THEN Width - totalwidth ELSE wanted
    IN  /\ pc = "idle"
        /\ cols' = Invalidated(cols, totalwidth, remaining)
        /\ UNCHANGED <<rows, moved, screen, walk>>

-----------------------------------------------------------------------------
(* move_rectangles *)

(* for (i = 0; i < n - 1 && (i <= buf[i] || buf[i] == UINT16_MAX); ++i) *)
TurnOf(buf, n) ==
    CHOOSE i \in 0 .. n - 1 :
        /\ i = n - 1 \/ buf[i] < i
        /\ \A x \in 0 .. i - 1 : x <= buf[x]

MoveRectangles ==
    /\ pc = "idle"
    /\ goalRows' = rows /\ goalCols' = cols
    /\ k' = 0
    /\ IF moved
       THEN pc' = "rows up" /\ turn' = TurnOf(rows, Height)
       ELSE pc' = "moved" /\ UNCHANGED turn
    /\ UNCHANGED <<rows, cols, moved, screen, copy, line>>

(* move_block, modes 0 and 2: the block of lines from cnt on that come     *)
(* from further on, one after the other.                                   *)
Forward(buf, cnt) ==
    LET last == CHOOSE j \in {x \in DOMAIN buf : x >= cnt} :
                    /\ \A x \in cnt + 1 .. j : buf[x] = buf[x - 1] + 1 /\ buf[x] > x
                    /\ ~(j + 1 \in DOMAIN buf /\ buf[j + 1] = buf[j] + 1 /\ buf[j + 1] > j + 1)
    IN  [src |-> buf[cnt], dst |-> cnt, n |-> last - cnt + 1]

(* move_block, modes 1 and 3: the block of lines up to cnt that come from  *)
(* before, one after the other.                                            *)
Backward(buf, cnt) ==
    LET first == CHOOSE i \in 0 .. cnt :
                    /\ \A x \in i .. cnt - 1 : buf[x] + 1 = buf[x + 1] /\ buf[x] < x
                    /\ ~(i - 1 \in DOMAIN buf /\ buf[i - 1] + 1 = buf[i] /\ buf[i - 1] < i - 1)
    IN  [src |-> buf[first], dst |-> first, n |-> cnt - first + 1]

Stays_Invalid(buf, x) == buf[x] = x

Stays(buf, x) == buf[x] = x \/ buf[x] = Invalid

(* for (i = n; x in the block; ) v8[x] = x; once the block is copied. *)
Settled(buf, block) ==
    [x \in DOMAIN buf |-> IF x \in block.dst .. block.dst + block.n - 1 THEN x ELSE buf[x]]

(* square_copy goes through the lines of the block from the last to the    *)
(* first when the source lies before the destination, else from the first. *)
LastFirst_Reversed(block) == block.src > block.dst
LastFirst(block)          == block.src <= block.dst

CopyRows(block) ==
    /\ copy' = block
    /\ line' = IF LastFirst(block) THEN block.n - 1 ELSE 0

CopyCols(block) ==
    /\ copy' = block
    /\ line' = Height - 1       \* srcy = dsty: from the last line on

NothingToCopy == copy = NoCopy

(* The two loops over the rows: up to the turn, then from the end back. *)
RowsUp ==
    /\ pc = "rows up" /\ NothingToCopy
    /\ IF k >= turn THEN pc' = "rows down" /\ k' = Height - 1 /\ UNCHANGED <<copy, line>>
       ELSE IF Stays(rows, k) THEN k' = k + 1 /\ UNCHANGED <<pc, copy, line>>
       ELSE CopyRows(Forward(rows, k)) /\ UNCHANGED <<pc, k>>
    /\ UNCHANGED <<rows, cols, moved, screen, turn, goal>>

RowsDown ==
    /\ pc = "rows down" /\ NothingToCopy
    /\ IF k < turn
       THEN /\ pc' = "cols left" /\ k' = 0 /\ turn' = TurnOf(cols, Width)
            /\ UNCHANGED <<copy, line>>
       ELSE /\ UNCHANGED <<pc, turn>>
            /\ IF Stays(rows, k) THEN k' = k - 1 /\ UNCHANGED <<copy, line>>
               ELSE CopyRows(Backward(rows, k)) /\ UNCHANGED k
    /\ UNCHANGED <<rows, cols, moved, screen, goal>>

(* The same two loops over the columns. *)
ColsLeft ==
    /\ pc = "cols left" /\ NothingToCopy
    /\ IF k >= turn THEN pc' = "cols right" /\ k' = Width - 1 /\ UNCHANGED <<copy, line>>
       ELSE IF Stays(cols, k) THEN k' = k + 1 /\ UNCHANGED <<pc, copy, line>>
       ELSE CopyCols(Forward(cols, k)) /\ UNCHANGED <<pc, k>>
    /\ UNCHANGED <<rows, cols, moved, screen, turn, goal>>

ColsRight ==
    /\ pc = "cols right" /\ NothingToCopy
    /\ IF k < turn THEN pc' = "moved" /\ UNCHANGED <<k, copy, line>>
       ELSE IF Stays(cols, k) THEN k' = k - 1 /\ UNCHANGED <<pc, copy, line>>
       ELSE CopyCols(Backward(cols, k)) /\ UNCHANGED <<pc, k>>
    /\ UNCHANGED <<rows, cols, moved, screen, turn, goal>>

-----------------------------------------------------------------------------
(* square_copy, one memmove of a screen line for each step.  When the last *)
(* line is done move_block settles the block and returns its far end.      *)

OverRows == pc \in {"rows up", "rows down"}

NextK == IF pc \in {"rows up", "cols left"} THEN copy.dst + copy.n ELSE copy.dst - 1

Target_Below == copy.dst + line + 1
Target       == copy.dst + line

CopyRowLine ==
    /\ OverRows /\ copy # NoCopy
    /\ screen' = [screen EXCEPT ![Target] = screen[copy.src + line]]
    /\ LET next == IF LastFirst(copy) THEN line - 1 ELSE line + 1
       IN  IF next \in 0 .. copy.n - 1
           THEN line' = next /\ UNCHANGED <<rows, k, copy>>
           ELSE rows' = Settled(rows, copy) /\ k' = NextK /\ copy' = NoCopy /\ line' = 0
    /\ UNCHANGED <<cols, moved, pc, turn, goal>>

CopyColLine ==
    /\ ~OverRows /\ copy # NoCopy
    /\ screen' = [screen EXCEPT ![line] =
          [c \in ColNos |-> IF c \in copy.dst .. copy.dst + copy.n - 1
                            THEN screen[line][copy.src + (c - copy.dst)]
                            ELSE screen[line][c]]]
    /\ IF line > 0
       THEN line' = line - 1 /\ UNCHANGED <<cols, k, copy>>
       ELSE cols' = Settled(cols, copy) /\ k' = NextK /\ copy' = NoCopy /\ line' = 0
    /\ UNCHANGED <<rows, moved, pc, turn, goal>>

-----------------------------------------------------------------------------
(* setup_invalid_columns looks at the first screen column of each cell. *)
CellInvalid(cell) == cols[CellWidth * cell] = Invalid

(* display_region paints a row whole when it is invalid, and the cells     *)
(* find_invalid_column finds in every other row.  The core then takes      *)
(* everything to be in place; display_cells itself does not write that.    *)
Painted(r, c) == rows[r] = Invalid \/ CellInvalid(c \div CellWidth)

DisplayCells ==
    /\ pc = "moved"
    /\ pc' = "idle"
    /\ rows' = InPlace(Height) /\ cols' = InPlace(Width)
    /\ goalRows' = InPlace(Height) /\ goalCols' = InPlace(Width)
    /\ screen' = [r \in RowNos |-> [c \in ColNos |-> <<r, c>>]]
    /\ moved' = FALSE /\ turn' = 0 /\ k' = 0
    /\ UNCHANGED <<copy, line>>

Blocks(n) == {b \in (0 .. n - 1) \X (1 .. n) \X (-n .. n) :
                 /\ b[3] # 0
                 /\ b[1] + b[2] <= n /\ b[1] + b[3] >= 0 /\ b[1] + b[2] + b[3] <= n}

Next ==
    \/ \E b \in Blocks(Height) : ScrollRows(b[1], b[2], b[3])
    \/ \E b \in Blocks(Cells) : ScrollCells(b[1], b[2], b[3])
    \/ \E off \in RowNos, size \in 1 .. Height :
          off + size <= Height /\ InvalidateRows(off, size)
    \/ \E count \in CellNos, m \in 1 .. Cells : InvalidateCellCols(count, m)
    \/ MoveRectangles
    \/ RowsUp \/ RowsDown \/ ColsLeft \/ ColsRight
    \/ CopyRowLine \/ CopyColLine
    \/ DisplayCells

Spec == Init /\ [][Next]_vars

-----------------------------------------------------------------------------
(* Properties. *)

(* Every array entry is a screen line or Invalid, and no block reaches     *)
(* past the window.                                                        *)
TypeOK ==
    /\ rows \in [RowNos -> RowNos \cup {Invalid}]
    /\ cols \in [ColNos -> ColNos \cup {Invalid}]
    /\ screen \in [RowNos -> [ColNos -> RowNos \X ColNos]]
    /\ LET n == IF OverRows THEN Height ELSE Width
       IN  copy.src + copy.n <= n /\ copy.dst + copy.n <= n
    /\ moved \in BOOLEAN /\ k \in -1 .. Height + Width

(* When move_rectangles is done, each place that display_cells will not    *)
(* paint shows what was wanted there: no block was overwritten before it   *)
(* was copied, and no copy read a line that an earlier one had changed.    *)
PictureRight ==
    pc = "moved" =>
        \A r \in RowNos, c \in ColNos :
            ~Painted(r, c) => screen[r][c] = <<goalRows[r], goalCols[c]>>

(* A row that is in its place is not touched while the rows move: what is *)
(* visible and right is never used as room for something else.            *)
InPlaceKept ==
    [][ \A r \in RowNos : OverRows /\ rows[r] = r => screen'[r] = screen[r] ]_vars
=============================================================================
