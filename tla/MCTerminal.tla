----------------------------- MODULE MCTerminal -----------------------------
(* Model checking of Display, Line and Figures.  Text is brought to the    *)
(* terminal through dscreen, figures are put on it directly; a behaviour   *)
(* is an update, lines or figures, named by part.  The cursor stays off    *)
(* the places where a padded line can end.                                 *)
EXTENDS Display, Figures

VARIABLE part

MCCursorPlaces == {<<0, 0>>, <<1, 0>>}

\* Every line between two points on the canvas or up to three cells off it, two long ones whose
\* crossings come to lie more than a cell and a half off, and what the callers make of a box, a
\* triangle and the two drivers for straight lines.
Around == (-3 .. Width + 2) \X (-2 .. Height + 1)
MCJobs == { <<Seg(a, b)>> : a \in Around, b \in Around }
    \cup { <<Seg(<<3, -1>>, <<-15, 15>>)>>, <<Seg(<<1, 4>>, <<18, -11>>)>> }
    \cup { BoxOutline(-1, 1, w, h) : w \in -1 .. Width + 3, h \in -1 .. Height }
    \cup { TriangleOutline(<<1, -1>>, <<-2, 2>>, p) : p \in Around }
    \cup { ScanLine(a, 1, w) : a \in -2 .. Width, w \in 0 .. Width }
    \cup { VerticalLine(1, b, h) : b \in -2 .. Height, h \in 0 .. Height }

Corners == {-3, 0, 2, 4, 5} \X {-2, 0, 1, 3, 6}
MCFigureJobs ==
    [kind : EllipseKinds, x : {-2, 2}, y : {1}, a : 0 .. 7, b : 0 .. 7]
    \cup [kind : {"circle"}, x : {-2, 2, 4}, y : {-4, 2}, r : -1 .. 12]
    \cup [kind : Frames, x : {-2, 0, 1, 3, 4}, y : {-1, 1, 3, 4}, w : -3 .. 6, h : -3 .. 5]
    \cup { FillRect(a, b, w, h) : a \in {-2, 0, 1, 3, 4}, b \in {-1, 1, 3, 4}, w \in -3 .. 6, h \in -3 .. 5 }
    \cup { ShadeRect(<<-1, 0>>, dim) : dim \in (1 .. 8) \X (1 .. 6) }
    \cup [kind : {"label"}, x : 0 .. Width, y : 0 .. Height, len : 0 .. 7,
          angle : {0, 449, 450, 900, 1349, 1350, 1800, 2700, 3149, 3150, 3599, 3600, 4500}]
    \cup [kind : {"triangle"}, p : [1 .. 3 -> Corners]]

TerminalInit == part \in {"update", "line", "figure"} /\ Init /\ LineInit /\ FigureInit

Others == <<part, vars, lineVars, figureVars>>
UpdateStep == part = "update" /\ Next /\ UNCHANGED <<part, lineVars, figureVars>>
DrawLine == part = "line" /\ LineStep /\ UNCHANGED <<part, vars, figureVars>>
DrawFigure == part = "figure" /\ FigureStep /\ UNCHANGED <<part, vars, lineVars>>

TerminalNext ==
    \/ UpdateStep
    \/ DrawLine
    \/ part = "line" /\ Call /\ UNCHANGED <<part, vars, figureVars>>
    \/ DrawFigure
    \/ part = "figure" /\ CallFigure /\ UNCHANGED <<part, vars, lineVars>>

TerminalSpec ==
    /\ TerminalInit /\ [][TerminalNext]_Others
    /\ WF_Others(DrawLine) /\ WF_Others(DrawFigure)

\* Every line and every figure that is asked for is drawn, or given up, in the end: clipping
\* does not call itself for ever and no loop runs on.
DrawingEnds == LineEnds /\ FigureEnds
=============================================================================
