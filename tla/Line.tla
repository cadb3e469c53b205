-------------------------------- MODULE Line --------------------------------
(***************************************************************************)
(* ttydraw/line.c: straight lines on a canvas of Width by Height cells.    *)
(* clip_line calls itself until the line lies on the canvas or beside it;  *)
(* a call is a step here, and so is each turn of the loops that put the    *)
(* cells.  The callers (draw.c, box.c, triangle.c) ask for one line or for *)
(* several in a row.  Which character stands for a cell is left out.       *)
(***************************************************************************)
EXTENDS Integers, Sequences

CONSTANTS
    Width, Height,  \* cv->width, cv->height
    Jobs            \* what the callers ask for: sequences of lines

Segment == [x1 : Int, y1 : Int, x2 : Int, y2 : Int]
Seg(a, b) == [x1 |-> a[1], y1 |-> a[2], x2 |-> b[1], y2 |-> b[2]]
Reversed(s) == [x1 |-> s.x2, y1 |-> s.y2, x2 |-> s.x1, y2 |-> s.y1]

ASSUME CanvasAssumption == Width \in Nat /\ Height \in Nat
ASSUME JobsAssumption == Jobs \subseteq Seq(Segment)

VARIABLES
    todo,       \* the lines of this job that are still to be drawn
    style,      \* s->draw: draw_solid_line or draw_thin_line
    asked,      \* history: the line as the caller gave it
    seg,        \* struct line, as clipped so far
    stage,      \* "idle", "clip", "draw", "drawn", "beside"
    x, y,       \* the cell to put next: x1 and y1 of the loops
    left,       \* dx or dy, counted down
    delta,
    cells       \* history: the cells put for this line

pen == <<x, y, left, delta>>
lineVars == <<todo, style, asked, seg, stage, pen, cells>>

Ended == stage \in {"drawn", "beside"}
NoSeg == Seg(<<0, 0>>, <<0, 0>>)

LineInit ==
    /\ todo = <<>> /\ style = "solid"
    /\ asked = NoSeg /\ seg = NoSeg
    /\ stage = "idle"
    /\ x = 0 /\ y = 0 /\ left = 0 /\ delta = 0
    /\ cells = {}


-----------------------------------------------------------------------------
(* The callers.                                                            *)

\* caca_draw_polyline and caca_draw_thin_polyline: n + 1 points, n lines.
Polyline(points) == [i \in 1 .. Len(points) - 1 |-> Seg(points[i], points[i + 1])]

\* caca_draw_box: left side, bottom, right side, top.
BoxOutline(a, b, w, h) ==
    LET x2 == a + w - 1
        y2 == b + h - 1
    IN  Polyline(<< <<a, b>>, <<a, y2>>, <<x2, y2>>, <<x2, b>>, <<a, b>> >>)

\* caca_draw_triangle and caca_draw_thin_triangle.
TriangleOutline(a, b, c) == Polyline(<<a, b, c, a>>)

\* exprt_scan_linx and exprt_thin_vert_line: a line of width + 1, of height + 1 cells.
ScanLine(a, b, width) == << Seg(<<a, b>>, <<a + width, b>>) >>
VerticalLine(a, b, height) == << Seg(<<a, b>>, <<a, b + height>>) >>

CallSolid ==
    /\ stage = "idle" /\ todo = <<>>
    /\ todo' \in Jobs /\ style' = "solid"
    /\ UNCHANGED <<asked, seg, stage, pen, cells>>

CallThin ==
    /\ stage = "idle" /\ todo = <<>>
    /\ todo' \in Jobs /\ style' = "thin"
    /\ UNCHANGED <<asked, seg, stage, pen, cells>>

\* The next line of the job is handed to clip_line.
NextLine ==
    /\ stage = "idle" \/ Ended
    /\ todo # <<>>
    /\ todo' = Tail(todo)
    /\ asked' = Head(todo) /\ seg' = Head(todo)
    /\ stage' = "clip" /\ cells' = {}
    /\ UNCHANGED <<style, pen>>

Return ==
    /\ Ended /\ todo = <<>>
    /\ stage' = "idle" /\ style' = "solid"
    /\ asked' = NoSeg /\ seg' = NoSeg
    /\ x' = 0 /\ y' = 0 /\ left' = 0 /\ delta' = 0
    /\ cells' = {}
    /\ UNCHANGED todo

-----------------------------------------------------------------------------
(* clip_line.                                                              *)

Abs(n) == IF n < 0 THEN -n ELSE n

\* Division of C, which rounds towards zero.
CDiv(a, b) ==
    IF (a < 0 /\ b > 0) \/ (a > 0 /\ b < 0) THEN -(Abs(a) \div Abs(b)) ELSE Abs(a) \div Abs(b)

Bits_Loose(a, b) ==
    (IF a < 0 THEN {"left"} ELSE IF a > Width THEN {"right"} ELSE {})
        \cup (IF b < 0 THEN {"top"} ELSE IF b > Height THEN {"bottom"} ELSE {})

\* clip_bits: the sides of the canvas the point lies beyond.
Bits(a, b) ==
    (IF a < 0 THEN {"left"} ELSE IF a >= Width THEN {"right"} ELSE {})
        \cup (IF b < 0 THEN {"top"} ELSE IF b >= Height THEN {"bottom"} ELSE {})

Bits1 == Bits(seg.x1, seg.y1)
Bits2 == Bits(seg.x2, seg.y2)
BothBeyond == Bits1 \cap Bits2 # {}

Beside ==
    /\ stage = "clip" /\ BothBeyond
    /\ stage' = "beside"
    /\ UNCHANGED <<todo, style, asked, seg, pen, cells>>

\* The first point is on the canvas and the second is not: the ends are exchanged.
Exchange ==
    /\ stage = "clip" /\ ~BothBeyond
    /\ Bits1 = {} /\ Bits2 # {}
    /\ seg' = Reversed(seg)
    /\ UNCHANGED <<todo, style, asked, stage, pen, cells>>

EdgeX_Beyond == IF "left" \in Bits1 THEN 0 ELSE Width
EdgeX == IF "left" \in Bits1 THEN 0 ELSE Width - 1
EdgeY == IF "top" \in Bits1 THEN 0 ELSE Height - 1

\* Where the line crosses the column or the row at the edge.
CrossY(e) == seg.y2 - CDiv((seg.x2 - e) * (seg.y2 - seg.y1), seg.x2 - seg.x1)
CrossX_Far(e) == seg.x2 + CDiv((seg.y2 - e) * (seg.x2 - seg.x1), seg.y2 - seg.y1)
CrossX(e) == seg.x2 - CDiv((seg.y2 - e) * (seg.x2 - seg.x1), seg.y2 - seg.y1)

ClipX ==
    /\ stage = "clip" /\ ~BothBeyond
    /\ Bits1 \cap {"left", "right"} # {}
    /\ seg' = [seg EXCEPT !.x1 = EdgeX, !.y1 = CrossY(EdgeX)]
    /\ UNCHANGED <<todo, style, asked, stage, pen, cells>>

ClipY ==
    /\ stage = "clip" /\ ~BothBeyond
    /\ Bits1 # {} /\ Bits1 \cap {"left", "right"} = {}
    /\ seg' = [seg EXCEPT !.x1 = CrossX(EdgeY), !.y1 = EdgeY]
    /\ UNCHANGED <<todo, style, asked, stage, pen, cells>>

-----------------------------------------------------------------------------
(* draw_solid_line and draw_thin_line.                                     *)

Dx(s) == Abs(s.x2 - s.x1)
Dy(s) == Abs(s.y2 - s.y1)
Steep(s) == Dx(s) < Dy(s)
Long(s)  == IF Steep(s) THEN Dy(s) ELSE Dx(s)
Short(s) == IF Steep(s) THEN Dx(s) ELSE Dy(s)
XInc(s) == IF s.x1 > s.x2 THEN -1 ELSE 1
YInc(s) == IF s.y1 > s.y2 THEN -1 ELSE 1

\* A thin line is drawn from left to right.
Oriented(s) == IF style = "thin" /\ s.x2 < s.x1 THEN Reversed(s) ELSE s

Begin ==
    /\ stage = "clip"
    /\ Bits1 = {} /\ Bits2 = {}
    /\ LET s == Oriented(seg)
       IN  /\ seg' = s
           /\ x' = s.x1 /\ y' = s.y1
           /\ left' = Long(s)
           /\ delta' = 2 * Short(s) - Long(s)
    /\ stage' = "draw"
    /\ UNCHANGED <<todo, style, asked, cells>>

\* A steep thin line marks a bend with a character on either side of it.
Put == {<<x, y>>} \cup IF style = "thin" /\ Steep(seg) /\ delta > 0 THEN {<<x + 1, y>>} ELSE {}

NextDelta_Kept == IF delta > 0 THEN delta - 2 * Long(seg) ELSE delta + 2 * Short(seg)
NextDelta ==
    IF delta > 0 THEN delta + 2 * Short(seg) - 2 * Long(seg) ELSE delta + 2 * Short(seg)

Plot ==
    /\ stage = "draw"
    /\ cells' = cells \cup Put
    /\ x' = IF delta > 0 \/ ~Steep(seg) THEN x + XInc(seg) ELSE x
    /\ y' = IF delta > 0 \/ Steep(seg) THEN y + YInc(seg) ELSE y
    /\ delta' = NextDelta
    /\ left' = left - 1
    /\ stage' = IF left = 0 THEN "drawn" ELSE "draw"
    /\ UNCHANGED <<todo, style, asked, seg>>

LineStep == NextLine \/ Beside \/ Exchange \/ ClipX \/ ClipY \/ Begin \/ Plot \/ Return
Call == CallSolid \/ CallThin
LineNext == Call \/ LineStep

\* One thread draws, and it is not blocked: line after line, step after step.
LineSpec == LineInit /\ [][LineNext]_lineVars /\ WF_lineVars(LineStep)

-----------------------------------------------------------------------------
(* Properties.                                                             *)

\* No cell outside the canvas is put, except that a thin line may mark a bend in its last
\* cell one column to the right; curses refuses that cell at the edge of the screen.
OnCanvas ==
    \A c \in cells :
        /\ c[1] \in 0 .. IF style = "thin" THEN Width ELSE Width - 1
        /\ c[2] \in 0 .. Height - 1

\* Twice the distance of a cell from the line, along the short axis, times the long side.
Error(c, s) == 2 * Abs((c[1] - s.x1) * (s.y2 - s.y1) - (c[2] - s.y1) * (s.x2 - s.x1))
Main == IF style = "solid" THEN cells
        ELSE { c \in cells : <<c[1] - 1, c[2]>> \notin cells \/ ~Steep(seg) }

\* A line that was drawn goes from end to end, without a gap, and no further than half a cell
\* from the straight line.
LineRight ==
    stage = "drawn" =>
        /\ {<<seg.x1, seg.y1>>, <<seg.x2, seg.y2>>} \subseteq cells
        /\ \A c \in Main : Error(c, seg) <= Long(seg)
        /\ \A i \in 0 .. Long(seg) : \E c \in Main :
              IF Steep(seg) THEN c[2] = seg.y1 + YInc(seg) * i ELSE c[1] = seg.x1 + XInc(seg) * i

OnSegment(c, s) ==
    /\ Error(c, s) = 0
    /\ c[1] \in s.x1 .. s.x2 \cup s.x2 .. s.x1
    /\ c[2] \in s.y1 .. s.y2 \cup s.y2 .. s.y1

\* Clipping rounds each crossing to a cell, and the line it leaves is not quite the line that
\* was asked for: no cell is further than two cells and a half from that one, and a line is
\* given up only when no cell of the canvas lies on it.
ClipRight ==
    /\ stage = "drawn" => \A c \in Main : Error(c, asked) <= 5 * Long(asked)
    /\ stage = "beside" =>
          \A c \in (0 .. Width - 1) \X (0 .. Height - 1) : ~OnSegment(c, asked)

\* Clipping ends, and so does the loop.
LineEnds == (stage = "clip") ~> Ended
=============================================================================
