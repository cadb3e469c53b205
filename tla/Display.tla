------------------------------- MODULE Display -------------------------------
(***************************************************************************)
(* graphics.c, tty_find_changes: bringing the terminal from what it shows  *)
(* (pscreen) to what it should show (dscreen) with few characters.  Runs   *)
(* of changed cells are collected in opline and printed when the next      *)
(* change lies elsewhere or has another attribute; the ends of lines and   *)
(* the bottom of the screen are cleared by control sequences, which would  *)
(* wipe out a graph that shares the screen, so there blanks are printed.   *)
(*                                                                         *)
(* Each way round the loops is an action.  The functions that drive the    *)
(* terminal (lfprint, lfmove, Clrtoend, Clrtobot, Atset) belong to the     *)
(* 1-2-3 core: they keep pscreen and real_pos in step with the terminal,   *)
(* so term stands for all of it.                                           *)
(***************************************************************************)
EXTENDS Naturals, Sequences

CONSTANTS
    Lines, Cols,    \* LINES, COLS
    Chars,          \* characters, with Blank
    Attrs,          \* attributes: foreground in bits 0-1, background in bits 2-4
    GraphRows,      \* lines of the graph window, none when there is none
    GraphCol,       \* gview_srect.topleftcol; the graph reaches to the right end
    CursorPlaces,   \* where 1-2-3 puts the cursor
    MaxEdits        \* bound: changes of dscreen

Blank == " "

LineNos == 0 .. Lines - 1
ColNos  == 0 .. Cols - 1

ASSUME SizeAssumption  == Lines \in Nat \ {0} /\ Cols \in Nat \ {0} /\ MaxEdits \in Nat
ASSUME CharsAssumption == Blank \in Chars /\ Attrs \subseteq 0 .. 31 /\ 0 \in Attrs
ASSUME GraphAssumption == GraphRows \subseteq LineNos /\ GraphCol \in 0 .. Cols
ASSUME CursorAssumption == CursorPlaces \subseteq LineNos \X ColNos /\ <<0, 0>> \in CursorPlaces

Cell(ch, at) == [ch |-> ch, at |-> at]
BlankCell    == Cell(Blank, 0)
BlankLine    == [c \in ColNos |-> BlankCell]

VARIABLES
    want,       \* dscreen: cells, maxy and dirty of each line; nlines and dirty of all
    term,       \* the terminal: cells, maxy, nlines as in pscreen; real_pos; the pen
    vpos,       \* where the cursor is once opline has been printed
    opline,     \* cells to print; inprint is opline # <<>>
    currpos,    \* where 1-2-3 wants the cursor
    pc, cline, ccol,
    edits       \* counts the changes, for the bound

vars == <<want, term, vpos, opline, currpos, pc, cline, ccol, edits>>
loop == <<cline, ccol>>

\* Before the first update, which begins with Initsc and Clrandhome: the terminal is taken to be
\* as these leave it.
Init ==
    /\ want = [cells |-> [r \in LineNos |-> BlankLine], maxy |-> [r \in LineNos |-> 0],
               dirty |-> {}, nlines |-> 0]
    /\ term = [cells |-> [r \in LineNos |-> BlankLine], maxy |-> [r \in LineNos |-> 0],
               nlines |-> 0, pos |-> <<0, 0>>, pen |-> 0]
    /\ vpos = <<0, 0>> /\ opline = <<>> /\ currpos = <<0, 0>>
    /\ pc = "idle" /\ cline = 0 /\ ccol = 0 /\ edits = 0

Max2(a, b) == IF a > b THEN a ELSE b

-----------------------------------------------------------------------------
(* Drawing on dscreen. *)

(* Cells of the lines from dsty on replaced; maxy and nlines only grow,    *)
(* set_dirty marks the lines.                                              *)
Drawn(dsty, height, right, cells) ==
    [cells  |-> cells,
     maxy   |-> [r \in LineNos |-> IF r \in dsty .. dsty + height - 1
                                   THEN Max2(want.maxy[r], right) ELSE want.maxy[r]],
     dirty  |-> want.dirty \cup dsty .. dsty + height - 1,
     nlines |-> Max2(want.nlines, dsty + height)]

Write(r, c, ch, at) ==
    /\ pc = "idle" /\ edits < MaxEdits
    /\ want' = Drawn(r, 1, c + 1, [want.cells EXCEPT ![r][c] = Cell(ch, at)])
    /\ edits' = edits + 1
    /\ UNCHANGED <<term, vpos, opline, currpos, pc, loop>>

(* gen_disp_txt_clear: the rest of a line is blank and no longer counted. *)
Clear(r, c) ==
    /\ pc = "idle" /\ edits < MaxEdits /\ r < want.nlines /\ c < want.maxy[r]
    /\ want' = [want EXCEPT !.cells[r] = [x \in ColNos |-> IF x < c THEN want.cells[r][x] ELSE BlankCell],
                            !.maxy[r] = c, !.dirty = @ \cup {r}]
    /\ edits' = edits + 1
    /\ UNCHANGED <<term, vpos, opline, currpos, pc, loop>>

CopyEnd(dstx, width) == width + dstx

(* square_copy of invalid.c, the overlapping lines in the right order. *)
SquareCopy(srcy, srcx, dsty, dstx, height, width) ==
    /\ pc = "idle" /\ edits < MaxEdits
    /\ srcy + height <= want.nlines
    /\ want' = Drawn(dsty, height, CopyEnd(dstx, width),
          [r \in LineNos |-> [c \in ColNos |->
              IF r \in dsty .. dsty + height - 1 /\ c \in dstx .. dstx + width - 1
              THEN want.cells[srcy + (r - dsty)][srcx + (c - dstx)]
              ELSE want.cells[r][c]]])
    /\ edits' = edits + 1
    /\ UNCHANGED <<term, vpos, opline, currpos, pc, loop>>

-----------------------------------------------------------------------------
(* The terminal. *)

(* lfprint: the cells from the cursor on, in the colour of the pen. *)
Printed(t, text) ==
    LET r == t.pos[1]  c == t.pos[2]
    IN  IF text = <<>> THEN t
        ELSE [t EXCEPT
                !.cells[r] = [x \in ColNos |-> IF x >= c /\ x < c + Len(text)
                                               THEN Cell(text[x - c + 1], t.pen) ELSE @[x]],
                !.maxy[r]  = Max2(@, c + Len(text)),
                !.nlines   = Max2(@, r + 1),
                !.pos      = <<r, c + Len(text)>>]

MovedTo(t, p) == [t EXCEPT !.pos = p]

(* Clrtoend, from the cursor on; Clrtobot also clears the lines below.     *)
ClearedToEnd(t) ==
    LET r == t.pos[1]  c == t.pos[2]
    IN  [t EXCEPT !.cells[r] = [x \in ColNos |-> IF x < c THEN @[x] ELSE BlankCell],
                  !.maxy[r]  = c]

ClearedToBottom(t) ==
    LET r == t.pos[1]  u == ClearedToEnd(t)
    IN  [u EXCEPT !.cells  = [x \in LineNos |-> IF x > r THEN BlankLine ELSE u.cells[x]],
                  !.maxy   = [x \in LineNos |-> IF x > r THEN 0 ELSE u.maxy[x]],
                  !.nlines = r + (IF t.pos = <<0, 0>> THEN 0 ELSE 1)]

-----------------------------------------------------------------------------
(* The equivalence maps setup_screen_mem fills: a colour is equivalent to  *)
(* itself at most, and combined colours are not even that.                 *)
FgEquiv(a, b) == a = b /\ a \in {0, 1, 2}
BgEquiv(a, b) == a = b /\ a \in {0, 1, 2, 4}
Equiv(a, b)   == FgEquiv(a % 4, b % 4) /\ BgEquiv((a \div 4) % 8, (b \div 4) % 8)

Same(cell, other) == cell.ch = other.ch /\ Equiv(cell.at, other.at)

Trailing_Char(cell) == cell.ch = Blank
Trailing(cell)      == cell.ch = Blank /\ Equiv(0, cell.at)

(* Dirty lines lose their trailing blanks, all but the first column; then  *)
(* the screen its empty last lines.                                        *)
TrimmedEnd(r) ==
    IF r \notin want.dirty \/ r >= want.nlines \/ want.maxy[r] = 0 THEN want.maxy[r]
    ELSE CHOOSE n \in 1 .. want.maxy[r] :
            /\ \A c \in n .. want.maxy[r] - 1 : Trailing(want.cells[r][c])
            /\ n = 1 \/ ~Trailing(want.cells[r][n - 1])

Trimmed ==
    LET ends == [r \in LineNos |-> TrimmedEnd(r)]
        last == CHOOSE n \in 0 .. want.nlines :
                    /\ \A r \in n .. want.nlines - 1 : ends[r] = 0
                    /\ n = 0 \/ ends[n - 1] # 0
    IN  [want EXCEPT !.maxy = ends, !.nlines = last]

(* dscreen.dirty: some line was changed. *)
FindChanges ==
    /\ pc = "idle"
    /\ IF want.dirty # {} THEN want' = Trimmed /\ pc' = "lines"
       ELSE pc' = "cursor" /\ UNCHANGED want
    /\ cline' = 0 /\ ccol' = 0
    /\ UNCHANGED <<term, vpos, opline, currpos, edits>>

-----------------------------------------------------------------------------
(* The loop over the lines and cells. *)

AtCell == pc = "lines" /\ cline < want.nlines /\ cline \in want.dirty

SkipLine ==
    /\ pc = "lines" /\ cline < want.nlines /\ cline \notin want.dirty
    /\ cline' = cline + 1 /\ ccol' = 0
    /\ UNCHANGED <<want, term, vpos, opline, currpos, pc, edits>>

SkipCell ==
    /\ AtCell /\ ccol < want.maxy[cline]
    /\ Same(want.cells[cline][ccol], term.cells[cline][ccol])
    /\ ccol' = ccol + 1
    /\ UNCHANGED <<want, term, vpos, opline, currpos, pc, cline, edits>>

Flushed == Printed(term, opline)

Recolours(at) == ~Equiv(at, term.pen)

Moves == vpos # <<cline, ccol>>

(* What is pending is printed before the cursor moves and before the pen   *)
(* changes.                                                                *)
ChangeCell ==
    LET cell  == want.cells[cline][ccol]
        there == IF Moves THEN MovedTo(Flushed, <<cline, ccol>>) ELSE term
        text  == IF Moves THEN <<>> ELSE opline
    IN  /\ AtCell /\ ccol < want.maxy[cline]
        /\ ~Same(cell, term.cells[cline][ccol])
        /\ IF Recolours(cell.at)
           THEN /\ term' = [Printed(there, text) EXCEPT !.pen = cell.at]
                /\ opline' = <<cell.ch>>
           ELSE /\ term' = there
                /\ opline' = Append(text, cell.ch)
        /\ vpos' = <<cline, ccol + 1>>
        /\ ccol' = ccol + 1
        /\ UNCHANGED <<want, currpos, pc, cline, edits>>

EndsThere == AtCell /\ ccol >= want.maxy[cline]

(* Nothing to clear behind the line's end. *)
LineDone ==
    /\ EndsThere /\ term.maxy[cline] <= want.maxy[cline]
    /\ cline' = cline + 1 /\ ccol' = 0
    /\ UNCHANGED <<want, term, vpos, opline, currpos, pc, edits>>

Reset(t) == IF Equiv(t.pen, 0) THEN t ELSE [t EXCEPT !.pen = 0]

(* Blanks up to the graph; vpos does not take notice. *)
Padded(t) ==
    Printed(t, [x \in 1 .. (IF GraphCol > t.pos[2] THEN GraphCol - t.pos[2] ELSE 0) |-> Blank])

ClearRest ==
    LET end == <<cline, want.maxy[cline]>>
        t   == Reset(IF vpos = end THEN Flushed ELSE MovedTo(Flushed, end))
    IN  /\ EndsThere /\ term.maxy[cline] > want.maxy[cline]
        /\ opline' = <<>>
        /\ vpos' = end
        /\ term' = IF cline \in GraphRows THEN Padded(t) ELSE ClearedToEnd(t)
        /\ cline' = cline + 1 /\ ccol' = 0
        /\ UNCHANGED <<want, currpos, pc, edits>>

(* The lines below the last one. *)
ClearBelow ==
    LET end == IF want.nlines = 0 THEN <<0, 0>>
               ELSE <<want.nlines - 1, want.maxy[want.nlines - 1]>>
        t   == Reset(Flushed)
    IN  /\ pc = "lines" /\ cline >= want.nlines
        /\ IF term.nlines > want.nlines
           THEN /\ term' = ClearedToBottom(IF vpos = end /\ want.nlines # 0 THEN t
                                           ELSE MovedTo(t, end))
                /\ vpos' = end /\ opline' = <<>>
           ELSE UNCHANGED <<term, vpos, opline>>
        /\ pc' = "rest"
        /\ UNCHANGED <<want, currpos, loop, edits>>

PrintRest ==
    /\ pc = "rest"
    /\ term' = Reset(Flushed) /\ opline' = <<>>
    /\ pc' = "cursor"
    /\ UNCHANGED <<want, vpos, currpos, loop, edits>>

Places_Col == currpos[2] # vpos[2]
Places     == currpos # vpos

(* The cursor, the flush of stdout, and the marks are taken back. *)
PlaceCursor ==
    /\ pc = "cursor"
    /\ term' = IF Places THEN MovedTo(term, currpos) ELSE term
    /\ vpos' = currpos
    /\ want' = [want EXCEPT !.dirty = {}]
    /\ pc' = "idle" /\ cline' = 0 /\ ccol' = 0
    /\ UNCHANGED <<opline, currpos, edits>>

SetCursor(p) ==
    /\ pc = "idle" /\ p # currpos
    /\ currpos' = p
    /\ UNCHANGED <<want, term, vpos, opline, pc, loop, edits>>

Update == SkipLine \/ SkipCell \/ ChangeCell \/ LineDone \/ ClearRest \/ ClearBelow \/ PrintRest \/ PlaceCursor

Copies == {k \in LineNos \X ColNos \X LineNos \X ColNos \X (1 .. Lines) \X (1 .. Cols) :
              /\ k[1] + k[5] <= Lines /\ k[3] + k[5] <= Lines
              /\ k[2] + k[6] <= Cols /\ k[4] + k[6] <= Cols
              /\ <<k[1], k[2]>> # <<k[3], k[4]>>
              /\ k[1] = k[3] \/ k[6] = Cols}

Next ==
    \/ \E r \in LineNos, c \in ColNos, ch \in Chars, at \in Attrs : Write(r, c, ch, at)
    \/ \E r \in LineNos, c \in ColNos : Clear(r, c)
    \/ \E k \in Copies : SquareCopy(k[1], k[2], k[3], k[4], k[5], k[6])
    \/ \E p \in CursorPlaces : SetCursor(p)
    \/ FindChanges
    \/ Update

Spec == Init /\ [][Next]_vars

-----------------------------------------------------------------------------
(* Properties. *)

Graph(r, c) == r \in GraphRows /\ c >= GraphCol

(* When tty_find_changes is done the terminal shows what was drawn,        *)
(* whatever it showed before, outside the graph.                           *)
ScreenRight ==
    pc = "cursor" =>
        \A r \in LineNos, c \in ColNos :
            ~Graph(r, c) => term.cells[r][c] = want.cells[r][c]

(* The characters waiting in opline lie on one line, right of the cursor,  *)
(* and end at vpos, so that nothing is printed in a wrong place; and when  *)
(* all is printed the cursor is where 1-2-3 believes it to be, as long as  *)
(* it does not want it at the end of a line that was padded up to the      *)
(* graph.                                                                  *)
CursorRight ==
    /\ opline # <<>> => vpos = <<term.pos[1], term.pos[2] + Len(opline)>>
    /\ pc = "idle" => vpos = term.pos
=============================================================================
