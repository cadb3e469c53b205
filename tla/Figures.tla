------------------------------ MODULE Figures ------------------------------
(***************************************************************************)
(* ttydraw/box.c, conic.c and triangle.c: the figures that put their cells *)
(* themselves, on the canvas of Line; and the labels of graphics.c.  A     *)
(* turn of a loop is a step.  The characters are left out.                 *)
(***************************************************************************)
EXTENDS Line, Functions

CONSTANT FigureJobs     \* the figures that are asked for, as records

VARIABLES
    fig,        \* the figure, with its arguments
    fstage,
    fx, fy,     \* x and y of the loops; dx and dy of the circle; xa and xb of the triangle
    row,        \* y of the loop over the rows of a triangle
    d,          \* the decision variable: test, d1, d2
    put         \* history: the cells put

figureVars == <<fig, fstage, fx, fy, row, d, put>>

Span(a, b) == a .. b \cup b .. a
XMax == Width - 1
YMax == Height - 1
Canvas == (0 .. XMax) \X (0 .. YMax)
NoFigure == [kind |-> "none"]

\* What can be asked for.  vmr holds 16-bit words; curses counts columns and lines in a short.
Word == {n \in Nat : n < 65536}
Frames == {"thin box", "cp437 box"}     \* caca_draw_thin_box and caca_draw_cp437_box
Outlines == {"ellipse", "thin ellipse"} \* a thin one has other characters in the same cells
EllipseKinds == Outlines \cup {"fill ellipse"}

BoxJob == [kind : Frames \cup {"fill box"}, x : Int, y : Int, w : Int, h : Int]
LabelJob == [kind : {"label"}, x : Word, y : Word, len : Word, angle : Word]
CircleJob == [kind : {"circle"}, x : Int, y : Int, r : Int]
EllipseJob == [kind : EllipseKinds, x : Int, y : Int, a : Int, b : Int]
TriangleJob == [kind : {"triangle"}, p : [1 .. 3 -> Int \X Int]]
Figure == BoxJob \cup LabelJob \cup CircleJob \cup EllipseJob \cup TriangleJob

ASSUME FigureJobsAssumption == FigureJobs \subseteq Figure
ASSUME ScreenAssumption == Width <= 32768 /\ Height <= 32768

FigureInit ==
    /\ fig = NoFigure /\ fstage = "idle"
    /\ fx = 0 /\ fy = 0 /\ row = 0 /\ d = 0
    /\ put = {}

CallFigure ==
    /\ fstage = "idle"
    /\ fig' \in FigureJobs
    /\ fstage' = "call"
    /\ UNCHANGED <<fx, fy, row, d, put>>

ReturnFigure ==
    /\ fstage = "done"
    /\ fig' = NoFigure /\ fstage' = "idle"
    /\ fx' = 0 /\ fy' = 0 /\ row' = 0 /\ d' = 0
    /\ put' = {}

-----------------------------------------------------------------------------
(* box.c                                                                   *)

\* exprt_fill_rect and exprt_shade_rect, the callers of caca_fill_box
FillRect(x0, y0, width, height) == [kind |-> "fill box", x |-> x0, y |-> y0, w |-> width, h |-> height]
ShadeRect(origin, dim) == [kind |-> "fill box", x |-> origin[1], y |-> origin[2], w |-> dim[1], h |-> dim[2]]

\* The corners in order; a width or height below one reaches back past the corner.
X1(f) == IF f.w < 1 THEN f.x + f.w - 1 ELSE f.x
X2(f) == IF f.w < 1 THEN f.x ELSE f.x + f.w - 1
Y1(f) == IF f.h < 1 THEN f.y + f.h - 1 ELSE f.y
Y2(f) == IF f.h < 1 THEN f.y ELSE f.y + f.h - 1

BoxBeyond(f) == X2(f) < 0 \/ Y2(f) < 0 \/ X1(f) > XMax \/ Y1(f) > YMax

Low(n) == IF n < 0 THEN 0 ELSE n
High(n, most) == IF n > most THEN most ELSE n

FillBox ==
    /\ fstage = "call" /\ fig.kind = "fill box"
    /\ put' = IF BoxBeyond(fig) THEN {}
              ELSE (Low(X1(fig)) .. High(X2(fig), XMax)) \X (Low(Y1(fig)) .. High(Y2(fig), YMax))
    /\ fstage' = "done"
    /\ UNCHANGED <<fig, fx, fy, row, d>>

\* The inner cells of an edge from lo to hi: a side that is cut loses its last cell too.
Inner_Whole(lo, hi, most) == Low(lo + 1) .. High(hi - 1, most)
Inner(lo, hi, most) == (IF lo < 0 THEN 1 ELSE lo + 1) .. High(hi, most) - 1

\* draw_box: edges, clipped, and corners, which curses refuses when they are off the screen.
DrawBox ==
    /\ fstage = "call" /\ fig.kind \in Frames
    /\ LET cols == Inner(X1(fig), X2(fig), XMax)
           lines == Inner(Y1(fig), Y2(fig), YMax)
       IN  put' = IF BoxBeyond(fig) THEN {}
                  ELSE cols \X ({r \in {Y1(fig)} : r >= 0} \cup {r \in {Y2(fig)} : r <= YMax})
                    \cup ({c \in {X1(fig)} : c >= 0} \cup {c \in {X2(fig)} : c <= XMax}) \X lines
                    \cup {X1(fig), X2(fig)} \X {Y1(fig), Y2(fig)}
    /\ fstage' = "done"
    /\ UNCHANGED <<fig, fx, fy, row, d>>

-----------------------------------------------------------------------------
(* graphics.c: a text label of a graph, with its middle at a point.        *)

\* set_text_angle: tenths of a degree, in eight parts of the circle
TextAngle(angle) ==
    LET part8 == (angle % 3600) \div 450
    IN  IF part8 \in {0, 7} THEN 0 ELSE IF part8 \in {1, 2} THEN 1 ELSE IF part8 \in {3, 4} THEN 2 ELSE 4

Starts_Unhalved(n, len) == n - len
\* x and y are uint16_t; the sum with c is an int, and does not come back.
Starts(n, len) == (n - len \div 2) % 65536

DrawLabel ==
    /\ fstage = "call" /\ fig.kind = "label"
    /\ LET chars == 0 .. fig.len - 1
       IN  put' = IF TextAngle(fig.angle) = 0 THEN {<<Starts(fig.x, fig.len) + c, fig.y>> : c \in chars}
                  ELSE IF TextAngle(fig.angle) = 1 THEN {<<fig.x, Starts(fig.y, fig.len) + c>> : c \in chars}
                  ELSE {}
    /\ fstage' = "done"
    /\ UNCHANGED <<fig, fx, fy, row, d>>

-----------------------------------------------------------------------------
(* conic.c                                                                 *)

\* ellipsepoints: one cell in each quadrant, those on the canvas.
Quadrants(a, b) == ({fig.x + a, fig.x - a} \X {fig.y + b, fig.y - b}) \cap Canvas

\* Two rows of a filled ellipse, by caca_draw_line.
TwoRows(a, b) == (Span(fig.x - a, fig.x + a) \X {fig.y - b, fig.y + b}) \cap Canvas

CallCircle ==
    /\ fstage = "call" /\ fig.kind = "circle"
    /\ fx' = 0 /\ fy' = fig.r /\ d' = 0
    /\ fstage' = "circle"
    /\ UNCHANGED <<fig, row, put>>

CircleDecision(a, b) == IF d > 0 THEN d + a - b ELSE d + a

CircleStep ==
    /\ fstage = "circle"
    /\ IF fx > fy
       THEN fstage' = "done" /\ UNCHANGED <<fx, fy, d, put>>
       ELSE /\ put' = put \cup Quadrants(fx, fy) \cup Quadrants(fy, fx)
            /\ d' = CircleDecision(fx, fy)
            /\ fy' = IF d > 0 THEN fy - 1 ELSE fy
            /\ fx' = fx + 1
            /\ UNCHANGED fstage
    /\ UNCHANGED <<fig, row>>

RA == fig.a * fig.a
RB == fig.b * fig.b

CallEllipse ==
    /\ fstage = "call" /\ fig.kind \in EllipseKinds
    /\ fx' = 0 /\ fy' = fig.b
    /\ d' = RB - RA * fig.b + RA \div 4
    /\ put' = IF fig.kind \in Outlines THEN Quadrants(0, fig.b) ELSE {}
    /\ fstage' = "flat"
    /\ UNCHANGED <<fig, row>>

\* The flat part: x grows, and y shrinks where d1 is not negative.
Flat(a, b) == RA * b - RA \div 2 > RB * (a + 1)

\* caca_fill_ellipse draws two rows where the row changes, and in each turn of the steep part.
FillFlat == IF d >= 0 THEN TwoRows(fx, fy) ELSE {}
FillSteep == TwoRows(fx', fy')

EllipseFlat ==
    /\ fstage = "flat" /\ Flat(fx, fy)
    /\ fx' = fx + 1
    /\ IF d < 0
       THEN d' = d + RB * (2 * fx + 1) /\ fy' = fy
       ELSE d' = d + RB * (2 * fx) + RA * (2 - 2 * fy) /\ fy' = fy - 1
    /\ put' = put \cup (IF fig.kind \in Outlines THEN Quadrants(fx', fy') ELSE FillFlat)
    /\ UNCHANGED <<fig, fstage, row>>

\* d2 is computed in floating point and cut to an integer.
EllipseTurn ==
    /\ fstage = "flat" /\ ~Flat(fx, fy)
    /\ d' = CDiv(RB * (2 * fx + 1) * (2 * fx + 1) + 4 * RA * (fy - 1) * (fy - 1) - 4 * RA * RB, 4)
    /\ put' = put \cup (IF fig.kind \in Outlines THEN {} ELSE TwoRows(fx, fy))
    /\ fstage' = "steep"
    /\ UNCHANGED <<fig, fx, fy, row>>

Widens_Past == d > 0
Widens == d < 0

EllipseSteep ==
    /\ fstage = "steep"
    /\ IF fy <= 0
       THEN fstage' = "done" /\ UNCHANGED <<fx, fy, d, put>>
       ELSE /\ fx' = IF Widens THEN fx + 1 ELSE fx
            /\ d' = d + RA * (3 - 2 * fy) + IF Widens THEN RB * (2 * fx + 2) ELSE 0
            /\ fy' = fy - 1
            /\ put' = put \cup (IF fig.kind \in Outlines THEN Quadrants(fx', fy') ELSE FillSteep)
            /\ UNCHANGED fstage
    /\ UNCHANGED <<fig, row>>

-----------------------------------------------------------------------------
(* triangle.c: fig.p holds the corners; xa and xb are in 1/Scale of a cell. *)

Scale == 65536

\* The function calls itself with two corners exchanged until their rows ascend.
SortCorners ==
    /\ fstage = "call" /\ fig.kind = "triangle"
    /\ LET p == fig.p
       IN  \/ /\ p[1][2] > p[2][2]
              /\ fig' = [fig EXCEPT !.p = <<p[2], p[1], p[3]>>]
              /\ UNCHANGED fstage
           \/ /\ p[1][2] <= p[2][2] /\ p[2][2] > p[3][2]
              /\ fig' = [fig EXCEPT !.p = <<p[1], p[3], p[2]>>]
              /\ UNCHANGED fstage
           \/ /\ p[1][2] <= p[2][2] /\ p[2][2] <= p[3][2]
              /\ fstage' = "sorted"
              /\ UNCHANGED fig
    /\ UNCHANGED <<fx, fy, row, d, put>>

\* sl21, sl31, sl32.
Slope(p, q) == IF p[2] = q[2] THEN 0 ELSE CDiv((q[1] - p[1]) * Scale, q[2] - p[2])
At(p, q, from, r) == from[1] * Scale + Slope(p, q) * (r - from[2])

\* Where the two sides cross the first row that is drawn.
FirstRow ==
    /\ fstage = "sorted"
    /\ LET p == fig.p
           r == Low(p[1][2])
       IN  /\ row' = r
           /\ fx' = IF r < p[2][2] THEN At(p[1], p[2], p[1], r)
                    ELSE IF r = p[2][2] THEN p[2][1] * Scale
                    ELSE At(p[2], p[3], p[3], r)
           /\ fy' = IF r <= p[2][2] THEN (IF r = p[2][2] /\ p[1][2] = p[3][2] THEN p[3][1] * Scale
                                         ELSE At(p[1], p[3], p[1], r))
                    ELSE At(p[1], p[3], p[3], r)
    /\ fstage' = "rows"
    /\ UNCHANGED <<fig, d, put>>

LastRow == High(fig.p[3][2], YMax)
Lower(n, m) == IF n < m THEN n ELSE m
Upper(n, m) == IF n < m THEN m ELSE n

SideSlope_Long == Slope(fig.p[1], fig.p[2])
SideSlope == IF row < fig.p[2][2] THEN Slope(fig.p[1], fig.p[2]) ELSE Slope(fig.p[2], fig.p[3])

TriangleRow ==
    /\ fstage = "rows"
    /\ IF row > LastRow
       THEN fstage' = "done" /\ UNCHANGED <<fx, fy, row, put>>
       ELSE /\ put' = put \cup (Low(CDiv(Lower(fx, fy) + 2048, Scale))
                                   .. High(CDiv(Upper(fx, fy) + 2049, Scale), XMax)) \X {row}
            /\ fx' = fx + SideSlope
            /\ fy' = fy + Slope(fig.p[1], fig.p[3])
            /\ row' = row + 1
            /\ UNCHANGED fstage
    /\ UNCHANGED <<fig, d>>

FigureStep ==
    \/ FillBox \/ DrawBox \/ DrawLabel
    \/ CallCircle \/ CircleStep
    \/ CallEllipse \/ EllipseFlat \/ EllipseTurn \/ EllipseSteep
    \/ SortCorners \/ FirstRow \/ TriangleRow
    \/ ReturnFigure

FigureNext == CallFigure \/ FigureStep
FigureSpec == FigureInit /\ [][FigureNext]_figureVars /\ WF_figureVars(FigureStep)

-----------------------------------------------------------------------------
(* Properties.                                                             *)

Finished(kinds) == fstage = "done" /\ fig.kind \in kinds

\* A box covers the cells between its corners, ends included, and a frame the outer ones of
\* these, except where it is cut: there it leaves out the cell at the edge of the canvas.
BoxRight ==
    Finished(Frames \cup {"fill box"}) =>
        \A c \in Canvas :
            LET f == fig
                onX == c[1] \in {f.x, f.x + f.w - 1}
                onY == c[2] \in {f.y, f.y + f.h - 1}
                within == c[1] \in Span(f.x, f.x + f.w - 1) /\ c[2] \in Span(f.y, f.y + f.h - 1)
                cut == \/ onY /\ ~onX /\ (c[1] = 0 \/ c[1] = XMax)
                       \/ onX /\ ~onY /\ (c[2] = 0 \/ c[2] = YMax)
            IN  c \in put <=> within /\ (f.kind = "fill box" \/ ((onX \/ onY) /\ ~cut))

\* A label is written from half its length before its point, along the axis its angle is
\* next to; one that would begin before the canvas, or run to the left or down, is lost.
LabelRight ==
    Finished({"label"}) =>
        LET turn == fig.angle % 3600
            level == turn < 450 \/ turn >= 3150
            reach(n, at) == 2 * (n - at) \in -fig.len .. fig.len - 1
        IN  \A c \in Canvas :
              c \in put <=>
                \/ level /\ 2 * fig.x >= fig.len - 1 /\ reach(c[1], fig.x) /\ c[2] = fig.y
                \/ turn \in 450 .. 1349 /\ 2 * fig.y >= fig.len - 1 /\ reach(c[2], fig.y) /\ c[1] = fig.x

\* Frames, filled boxes and labels cover the cells they should.
BoxesAndLabels == BoxRight /\ LabelRight

\* A cell moved by k steps towards the centre, along its row and along both axes.
Toward(n, m, k) == IF n > m THEN n - k ELSE IF n < m THEN n + k ELSE n
RowNearer(c, k) == <<Toward(c[1], fig.x, k), c[2]>>
Nearer(c, k) == <<Toward(c[1], fig.x, k), Toward(c[2], fig.y, k)>>

InEllipse(c) == RB * (c[1] - fig.x) * (c[1] - fig.x) + RA * (c[2] - fig.y) * (c[2] - fig.y) <= RA * RB
Square(c) == (c[1] - fig.x) * (c[1] - fig.x) + (c[2] - fig.y) * (c[2] - fig.y)

\* A finished circle has no cell more than a cell and a quarter outside or a cell inside it; one
\* that fits on the canvas leaves no column out.
CircleRight ==
    Finished({"circle"}) =>
        /\ \A c \in put : /\ Square(c) + 1 >= (fig.r - 1) * (fig.r - 1)
                          /\ 16 * Square(c) <= (4 * fig.r + 5) * (4 * fig.r + 5)
        /\ {fig.x - fig.r, fig.x + fig.r} \X {fig.y - fig.r, fig.y + fig.r} \subseteq Canvas =>
              \A i \in fig.x - fig.r .. fig.x + fig.r : \E c \in put : c[1] = i

\* No cell is more than a step outside its ellipse; one that is filled has no hole, unless it is
\* much too flat for its height.
EllipseRight ==
    /\ Finished(EllipseKinds) => \A c \in put : InEllipse(Nearer(c, 1))
    /\ Finished({"fill ellipse"}) /\ fig.a > 0 /\ fig.b > 0 /\ fig.a < 23 * fig.b * fig.b =>
          \A c \in Canvas : InEllipse(RowNearer(c, -1)) => c \in put

\* A filled ellipse leaves no row out, whichever loop comes to it: the flat part fills a row when
\* it leaves it, the steep part when it comes to it, and the row between them is filled at the turn.
RowsFilled ==
    Finished({"fill ellipse"}) /\ fig.x \in 0 .. XMax =>
        \A r \in 0 .. YMax : Abs(r - fig.y) <= fig.b => <<fig.x, r>> \in put

\* What can be said of a figure without a limit on its shape: frames, filled boxes and labels
\* cover the cells they should, circles stay in their ring without a gap, ellipses are filled.
FiguresRight == BoxesAndLabels /\ CircleRight /\ RowsFilled

\* A side from p down to q crosses the row of c, at column c[1] or to the right of it.
Crosses(p, q, c) == p[2] < q[2] /\ c[2] \in p[2] .. q[2]
AtOrRight(p, q, c) == (q[1] - p[1]) * (c[2] - p[2]) >= (c[1] - p[1]) * (q[2] - p[2])

\* A row of a triangle covers the columns from the one its left side passes through to the one
\* its right side does.  Column 0 is also put for a right side in the column beside the canvas.
\* (Columns are cut off from a point 1/32 of a cell to the right, against rounding: a side
\* that descends by 32 rows or more may cross within so little of the next column.)
TriangleRight ==
    Finished({"triangle"}) /\ fig.p[3][2] - fig.p[1][2] \in 1 .. 31 =>
        \A c \in Canvas :
            LET sides == {e \in Range(fig.p) \X Range(fig.p) : Crosses(e[1], e[2], c)}
                column == IF c[1] = 0 THEN <<-1, c[2]>> ELSE c
            IN  c \in put <=> /\ \E e \in sides : AtOrRight(e[1], e[2], column)
                              /\ \E e \in sides : ~AtOrRight(e[1], e[2], <<c[1] + 1, c[2]>>)

\* The loops end, whatever the arguments.
FigureEnds == (fstage = "call") ~> (fstage = "done")
=============================================================================
