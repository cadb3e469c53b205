--------------------------- MODULE TerminalProofs ---------------------------
(***************************************************************************)
(* Proofs about the terminal.  Of Display, for every size of the screen,   *)
(* every set of characters and colours and every graph window: when an     *)
(* update is done the terminal shows what was drawn.  Of Line, for every   *)
(* canvas and every line: what is put lies on the canvas, and a line that  *)
(* was drawn is right.  Of Figures, for every canvas: boxes, labels,       *)
(* circles and triangles are right, and ellipses are filled row by row.    *)
(***************************************************************************)
EXTENDS Display, Figures, SequenceTheorems, WellFoundedInduction, TLAPS

CellType   == [ch : Chars, at : Attrs]
ScreenType == [LineNos -> [ColNos -> CellType]]
EndsType   == [LineNos -> 0 .. Cols]

(* Behind what dscreen and pscreen count nothing is shown.                 *)
BlankBeyond(s) ==
    \A r \in LineNos :
        /\ \A c \in ColNos : c >= s.maxy[r] => s.cells[r][c] = BlankCell
        /\ r >= s.nlines => s.maxy[r] = 0

WantOK(w) ==
    /\ w \in [cells : ScreenType, maxy : EndsType, dirty : SUBSET LineNos, nlines : 0 .. Lines]
    /\ BlankBeyond(w)

TermOK(t) ==
    /\ t \in [cells : ScreenType, maxy : EndsType, nlines : 0 .. Lines,
              pos : LineNos \X (0 .. Cols), pen : Attrs]
    /\ BlankBeyond(t)

(* What the terminal shows once opline is printed.                         *)
Shown == Printed(term, opline).cells
Match(r, c) == ~Graph(r, c) => Shown[r][c] = want.cells[r][c]

(* A line was padded up to the graph, and vpos took no notice.             *)
Padding(r) ==
    /\ r \in GraphRows /\ r < want.nlines /\ r < cline /\ want.maxy[r] < GraphCol
    /\ vpos = <<r, want.maxy[r]>> /\ term.pos = <<r, GraphCol>>

TypeInv ==
    /\ WantOK(want) /\ TermOK(term)
    /\ opline \in Seq(Chars) /\ term.pos[2] + Len(opline) <= Cols
    /\ vpos \in LineNos \X (0 .. Cols) /\ currpos \in LineNos \X ColNos
    /\ cline \in 0 .. Lines /\ ccol \in 0 .. Cols
    /\ pc \in {"idle", "lines", "rest", "cursor"}

PlaceInv ==
    /\ \/ vpos = <<term.pos[1], term.pos[2] + Len(opline)>>
       \/ pc # "idle" /\ opline = <<>> /\ \E r \in LineNos : Padding(r)
    /\ pc = "idle" => opline = <<>>
    /\ pc = "cursor" => opline = <<>>
    /\ opline # <<>> => vpos[1] < cline \/ (vpos[1] = cline /\ vpos[2] <= ccol)
    /\ opline # <<>> => vpos[1] < want.nlines

MatchInv ==
    /\ pc = "idle" => \A r \in LineNos \ want.dirty, c \in ColNos : Match(r, c)
    /\ pc = "lines" =>
          \A r \in LineNos, c \in ColNos :
              \/ r < cline /\ r < want.nlines
              \/ r = cline /\ c < ccol
              \/ r \notin want.dirty
              => Match(r, c)
    /\ pc \in {"rest", "cursor"} => \A r \in LineNos, c \in ColNos : Match(r, c)

DisplayInv == TypeInv /\ PlaceInv /\ MatchInv

(* 1-2-3 does not want the cursor just where a text ends that shares its   *)
(* line with the graph.                                                    *)
CursorOffEnds ==
    pc = "cursor" =>
        ~ \E r \in GraphRows : /\ r < want.nlines /\ want.maxy[r] < GraphCol
                               /\ currpos = <<r, want.maxy[r]>>
-----------------------------------------------------------------------------
(* Lines, columns and colours. *)

LEMMA Bounds ==
    /\ Lines \in Nat /\ Lines >= 1 /\ Cols \in Nat /\ Cols >= 1
    /\ 0 \in LineNos /\ 0 \in ColNos /\ 0 \in 0 .. Cols
    /\ \A r \in LineNos : r \in Nat /\ r + 1 <= Lines
    /\ \A c \in ColNos : c \in Nat /\ c + 1 <= Cols
    /\ \A r \in Nat : r < Lines => r \in LineNos
    /\ \A c \in Nat : c < Cols => c \in ColNos
    /\ BlankCell \in CellType
    /\ GraphCol \in 0 .. Cols
  BY SizeAssumption, CharsAssumption, GraphAssumption
     DEF LineNos, ColNos, BlankCell, Cell, CellType

(* Equivalent colours are equal.                                           *)
LEMMA EquivIsEqual ==
    ASSUME NEW a \in Attrs, NEW b \in Attrs, Equiv(a, b)
    PROVE  a = b
  <1>1. a \in 0 .. 31 /\ b \in 0 .. 31
    BY CharsAssumption
  <1>2. a % 4 = b % 4 /\ (a \div 4) % 8 = (b \div 4) % 8
    BY DEF Equiv, FgEquiv, BgEquiv
  <1>3. a \div 4 \in 0 .. 7 /\ b \div 4 \in 0 .. 7
    BY <1>1
  <1>4. a \div 4 = b \div 4
    BY <1>2, <1>3
  <1> QED BY <1>1, <1>2, <1>4

LEMMA SameIsEqual ==
    ASSUME NEW j \in CellType, NEW z \in CellType, Same(j, z)
    PROVE  j = z
  <1>1. j.at = z.at /\ j.ch = z.ch
    BY EquivIsEqual DEF Same, CellType
  <1> QED BY <1>1 DEF CellType

LEMMA TrailingIsBlank ==
    ASSUME NEW j \in CellType, Trailing(j)
    PROVE  j = BlankCell
  <1>1. j.at = 0 /\ j.ch = Blank
    BY EquivIsEqual, CharsAssumption DEF Trailing, CellType
  <1> QED BY <1>1 DEF CellType, BlankCell, Cell

LEMMA CellIsTyped ==
    ASSUME NEW ch \in Chars, NEW at \in Attrs
    PROVE  Cell(ch, at) \in CellType /\ Cell(ch, at).ch = ch /\ Cell(ch, at).at = at
  BY DEF Cell, CellType
-----------------------------------------------------------------------------
(* What the functions that drive the terminal do to it. *)

LEMMA TermFields ==
    ASSUME NEW t, TermOK(t)
    PROVE  /\ t.cells \in ScreenType /\ t.maxy \in EndsType /\ t.nlines \in 0 .. Lines
           /\ t.pos \in LineNos \X (0 .. Cols) /\ t.pen \in Attrs
           /\ t.pos[1] \in LineNos /\ t.pos[2] \in 0 .. Cols
           /\ t.pos = <<t.pos[1], t.pos[2]>>
           /\ \A r \in LineNos, c \in ColNos : t.cells[r][c] \in CellType
           /\ \A r \in LineNos : t.maxy[r] \in 0 .. Cols
  BY DEF TermOK, ScreenType, EndsType

(* lfprint puts the text where the cursor is, in the colour of the pen.    *)
LEMMA PrintedFacts ==
    ASSUME NEW t, TermOK(t), NEW text \in Seq(Chars), t.pos[2] + Len(text) <= Cols
    PROVE  LET u == Printed(t, text)
           IN  /\ TermOK(u) /\ u.pen = t.pen
               /\ u.pos = <<t.pos[1], t.pos[2] + Len(text)>>
               /\ u.nlines >= t.nlines
               /\ \A r \in LineNos, c \in ColNos :
                     u.cells[r][c] =
                        IF r = t.pos[1] /\ c >= t.pos[2] /\ c < t.pos[2] + Len(text)
                        THEN Cell(text[c - t.pos[2] + 1], t.pen) ELSE t.cells[r][c]
  <1> DEFINE u == Printed(t, text)
  <1>0. PICK p, q, k : p = t.pos[1] /\ q = t.pos[2] /\ k = Len(text)
    OBVIOUS
  <1>1. /\ t.cells \in ScreenType /\ t.maxy \in EndsType /\ t.nlines \in 0 .. Lines
        /\ t.pos \in LineNos \X (0 .. Cols) /\ t.pen \in Attrs
        /\ p \in LineNos /\ q \in 0 .. Cols /\ t.pos = <<p, q>>
        /\ k \in Nat
    BY <1>0, TermFields
  <1>a. /\ p \in Nat /\ q \in Nat /\ k \in Nat /\ q + k \in Nat /\ p + 1 <= Lines /\ q + k <= Cols
        /\ Lines \in Nat /\ Cols \in Nat /\ q + k \in 0 .. Cols
    <2>1. q + k <= Cols
      BY <1>0
    <2>2. Lines \in Nat /\ Cols \in Nat /\ p \in Nat /\ p + 1 <= Lines
      BY <1>1, Bounds
    <2> QED BY <1>1, <2>1, <2>2
  <1>2. CASE text = <<>>
    <2>1. u = t /\ k = 0
      BY <1>0, <1>2 DEF Printed
    <2>2. q + 0 = q
      BY <1>1
    <2>3. \A c \in ColNos : ~(c >= q /\ c < q + 0)
      BY <1>1, Bounds
    <2>4. t.nlines >= t.nlines
      BY <1>1
    <2> QED BY <1>0, <1>1, <2>1, <2>2, <2>3, <2>4
  <1>3. CASE text # <<>>
    <2> DEFINE line == [j \in ColNos |-> IF j >= q /\ j < q + k
                                         THEN Cell(text[j - q + 1], t.pen) ELSE t.cells[p][j]]
    <2>1. u = [t EXCEPT !.cells[p] = line, !.maxy[p] = Max2(t.maxy[p], q + k),
                        !.nlines = Max2(t.nlines, p + 1), !.pos = <<p, q + k>>]
      BY <1>0, <1>3 DEF Printed
    <2>2. /\ u.cells = [t.cells EXCEPT ![p] = line]
          /\ u.maxy = [t.maxy EXCEPT ![p] = Max2(t.maxy[p], q + k)]
          /\ u.nlines = Max2(t.nlines, p + 1)
          /\ u.pos = <<p, q + k>> /\ u.pen = t.pen
          /\ u = [cells |-> u.cells, maxy |-> u.maxy, nlines |-> u.nlines, pos |-> u.pos, pen |-> u.pen]
      BY <2>1 DEF TermOK
    <2>3. line \in [ColNos -> CellType]
      <3>1. ASSUME NEW j \in ColNos PROVE line[j] \in CellType
        <4>1. CASE j >= q /\ j < q + k
          <5>1. j \in Nat
            BY Bounds
          <5>2. j - q + 1 \in 1 .. k
            BY <1>a, <4>1, <5>1
          <5>3. text[j - q + 1] \in Chars
            BY <1>0, <5>2
          <5> QED BY <1>1, <4>1, <5>3, CellIsTyped
        <4>2. CASE ~(j >= q /\ j < q + k)
          BY <1>1, <4>2 DEF ScreenType
        <4> QED BY <4>1, <4>2
      <3> QED BY <3>1
    <2>4. \A r \in LineNos, c \in ColNos :
             u.cells[r][c] = IF r = p /\ c >= q /\ c < q + k
                             THEN Cell(text[c - q + 1], t.pen) ELSE t.cells[r][c]
      BY <1>1, <2>2 DEF ScreenType
    <2>5. u.cells \in ScreenType
      BY <1>1, <2>2, <2>3 DEF ScreenType
    <2> HIDE DEF line
    <2>a. t.maxy[p] \in Nat /\ t.maxy[p] <= Cols
      BY <1>1, <1>a DEF EndsType
    <2>6. /\ Max2(t.maxy[p], q + k) \in 0 .. Cols
          /\ Max2(t.maxy[p], q + k) >= q + k
          /\ Max2(t.maxy[p], q + k) >= t.maxy[p]
      BY <1>a, <2>a DEF Max2
    <2>7. /\ u.nlines \in 0 .. Lines /\ u.nlines >= t.nlines /\ u.nlines >= p + 1
      BY <1>1, <1>a, <2>2 DEF Max2
    <2>8. u.maxy \in EndsType /\ \A r \in LineNos : u.maxy[r] = IF r = p THEN Max2(t.maxy[p], q + k) ELSE t.maxy[r]
      BY <1>1, <2>2, <2>6 DEF EndsType
    <2>9. u.pos \in LineNos \X (0 .. Cols)
      BY <1>1, <1>a, <2>2
    <2>10. BlankBeyond(u)
      <3>1. ASSUME NEW r \in LineNos, NEW c \in ColNos, c >= u.maxy[r]
            PROVE  u.cells[r][c] = BlankCell
        <4>1. t.maxy[r] \in 0 .. Cols /\ (c >= t.maxy[r] => t.cells[r][c] = BlankCell)
          BY <1>1 DEF TermOK, BlankBeyond, EndsType
        <4>2. c >= t.maxy[r] /\ ~(r = p /\ c < q + k)
          <5>1. c \in Nat /\ (r = p => u.maxy[r] = Max2(t.maxy[p], q + k)) /\ (r # p => u.maxy[r] = t.maxy[r])
            BY <2>8, Bounds
          <5> HIDE DEF u
          <5>2. CASE r = p
            <6>1. Max2(t.maxy[p], q + k) \in Nat /\ c >= Max2(t.maxy[p], q + k)
              BY <1>a, <2>6, <3>1, <5>1, <5>2
            <6> QED BY <1>a, <2>a, <2>6, <5>1, <5>2, <6>1
          <5>3. CASE r # p
            BY <3>1, <5>1, <5>3
          <5> QED BY <5>2, <5>3
        <4> QED BY <2>4, <4>1, <4>2
      <3>2. ASSUME NEW r \in LineNos, r >= u.nlines PROVE u.maxy[r] = 0
        <4>1. r # p /\ r >= t.nlines
          <5>1. r \in Nat /\ u.nlines \in Nat /\ t.nlines \in Nat
            BY <1>1, <1>a, <2>7, Bounds
          <5> HIDE DEF u
          <5> QED BY <1>a, <2>7, <3>2, <5>1
        <4> QED BY <2>8, <4>1 DEF TermOK, BlankBeyond
      <3> QED BY <3>1, <3>2 DEF BlankBeyond
    <2>11. u \in [cells : ScreenType, maxy : EndsType, nlines : 0 .. Lines,
                  pos : LineNos \X (0 .. Cols), pen : Attrs]
      BY <1>1, <2>2, <2>5, <2>7, <2>8, <2>9
    <2> HIDE DEF u
    <2> QED BY <1>0, <2>2, <2>4, <2>7, <2>10, <2>11 DEF TermOK, u
  <1> QED BY <1>2, <1>3

LEMMA MovedToFacts ==
    ASSUME NEW t, TermOK(t), NEW p \in LineNos \X (0 .. Cols)
    PROVE  /\ TermOK(MovedTo(t, p)) /\ MovedTo(t, p).pos = p /\ MovedTo(t, p).pen = t.pen
           /\ MovedTo(t, p).cells = t.cells /\ MovedTo(t, p).nlines = t.nlines
           /\ MovedTo(t, p).maxy = t.maxy
  <1> DEFINE u == MovedTo(t, p)
  <1>1. /\ u.pos = p /\ u.pen = t.pen /\ u.cells = t.cells /\ u.nlines = t.nlines
        /\ u.maxy = t.maxy
        /\ u \in [cells : ScreenType, maxy : EndsType, nlines : 0 .. Lines,
                  pos : LineNos \X (0 .. Cols), pen : Attrs]
    BY DEF MovedTo, TermOK
  <1> HIDE DEF u
  <1>2. BlankBeyond(u)
    BY <1>1 DEF TermOK, BlankBeyond
  <1> QED BY <1>1, <1>2 DEF TermOK, u

(* Taking the pen for blanks: the default colour, kept when equivalent.    *)
LEMMA PenFacts ==
    ASSUME NEW t, TermOK(t), NEW at \in Attrs
    PROVE  LET u == [t EXCEPT !.pen = at]
           IN  /\ TermOK(u) /\ u.pos = t.pos /\ u.pen = at
               /\ u.cells = t.cells /\ u.nlines = t.nlines /\ u.maxy = t.maxy
  <1> DEFINE u == [t EXCEPT !.pen = at]
  <1>1. /\ u.pos = t.pos /\ u.pen = at /\ u.cells = t.cells /\ u.nlines = t.nlines
        /\ u.maxy = t.maxy
        /\ u \in [cells : ScreenType, maxy : EndsType, nlines : 0 .. Lines,
                  pos : LineNos \X (0 .. Cols), pen : Attrs]
    BY DEF TermOK
  <1> HIDE DEF u
  <1>2. BlankBeyond(u)
    BY <1>1 DEF TermOK, BlankBeyond
  <1> QED BY <1>1, <1>2 DEF TermOK, u

LEMMA ResetFacts ==
    ASSUME NEW t, TermOK(t)
    PROVE  /\ TermOK(Reset(t)) /\ Reset(t).pos = t.pos /\ Reset(t).pen = 0
           /\ Reset(t).cells = t.cells /\ Reset(t).nlines = t.nlines
           /\ Reset(t).maxy = t.maxy
  <1>1. t.pen \in Attrs /\ 0 \in Attrs
    BY CharsAssumption, TermFields
  <1>2. CASE Equiv(t.pen, 0)
    BY <1>1, <1>2, EquivIsEqual DEF Reset
  <1>3. CASE ~Equiv(t.pen, 0)
    <2>1. Reset(t) = [t EXCEPT !.pen = 0]
      BY <1>3 DEF Reset
    <2> QED BY <1>1, <2>1, PenFacts
  <1> QED BY <1>2, <1>3

(* The cells from the cursor to the end of its line become blank.          *)
LEMMA ClearedCells ==
    ASSUME NEW t, TermOK(t)
    PROVE  LET u == ClearedToEnd(t)
           IN  /\ u.cells \in ScreenType /\ u.maxy \in EndsType
               /\ u.pos = t.pos /\ u.pen = t.pen /\ u.nlines = t.nlines
               /\ u = [cells |-> u.cells, maxy |-> u.maxy, nlines |-> u.nlines,
                       pos |-> u.pos, pen |-> u.pen]
               /\ \A r \in LineNos, c \in ColNos :
                     u.cells[r][c] = IF r = t.pos[1] /\ c >= t.pos[2] THEN BlankCell
                                     ELSE t.cells[r][c]
               /\ \A r \in LineNos : u.maxy[r] = IF r = t.pos[1] THEN t.pos[2] ELSE t.maxy[r]
  <1> DEFINE u == ClearedToEnd(t)
  <1>1. PICK p, q : p = t.pos[1] /\ q = t.pos[2]
    OBVIOUS
  <1>2. /\ t.cells \in ScreenType /\ t.maxy \in EndsType
        /\ p \in LineNos /\ q \in 0 .. Cols /\ q \in Nat
    BY <1>1, TermFields
  <1> DEFINE line == [j \in ColNos |-> IF j < q THEN t.cells[p][j] ELSE BlankCell]
  <1>3. u = [t EXCEPT !.cells[p] = line, !.maxy[p] = q]
    BY <1>1 DEF ClearedToEnd
  <1>4. /\ u.cells = [t.cells EXCEPT ![p] = line] /\ u.maxy = [t.maxy EXCEPT ![p] = q]
        /\ u.nlines = t.nlines /\ u.pos = t.pos /\ u.pen = t.pen
        /\ u = [cells |-> u.cells, maxy |-> u.maxy, nlines |-> u.nlines, pos |-> u.pos, pen |-> u.pen]
    BY <1>3 DEF TermOK
  <1>5. line \in [ColNos -> CellType]
    BY <1>2, Bounds DEF ScreenType
  <1>6. u.cells \in ScreenType /\ u.maxy \in EndsType
    BY <1>2, <1>4, <1>5 DEF ScreenType, EndsType
  <1>7. /\ \A r \in LineNos, c \in ColNos :
              u.cells[r][c] = IF r = p /\ ~(c < q) THEN BlankCell ELSE t.cells[r][c]
        /\ \A r \in LineNos : u.maxy[r] = IF r = p THEN q ELSE t.maxy[r]
    BY <1>2, <1>4 DEF ScreenType, EndsType
  <1>8. \A c \in ColNos : ~(c < q) <=> c >= q
    BY <1>2, Bounds
  <1> HIDE DEF line, u
  <1> QED BY <1>1, <1>4, <1>6, <1>7, <1>8 DEF u

LEMMA ClearedToEndFacts ==
    ASSUME NEW t, TermOK(t), t.pos[1] < t.nlines
    PROVE  LET u == ClearedToEnd(t)
           IN  /\ TermOK(u) /\ u.pos = t.pos /\ u.pen = t.pen /\ u.nlines = t.nlines
               /\ \A r \in LineNos, c \in ColNos :
                     u.cells[r][c] = IF r = t.pos[1] /\ c >= t.pos[2] THEN BlankCell
                                     ELSE t.cells[r][c]
  <1> DEFINE u == ClearedToEnd(t)
  <1>1. /\ u.cells \in ScreenType /\ u.maxy \in EndsType
        /\ u.pos = t.pos /\ u.pen = t.pen /\ u.nlines = t.nlines
        /\ u = [cells |-> u.cells, maxy |-> u.maxy, nlines |-> u.nlines, pos |-> u.pos, pen |-> u.pen]
        /\ \A r \in LineNos, c \in ColNos :
              u.cells[r][c] = IF r = t.pos[1] /\ c >= t.pos[2] THEN BlankCell ELSE t.cells[r][c]
        /\ \A r \in LineNos : u.maxy[r] = IF r = t.pos[1] THEN t.pos[2] ELSE t.maxy[r]
    BY ClearedCells
  <1> HIDE DEF u
  <1>2. t.nlines \in 0 .. Lines /\ t.pos[1] \in LineNos
    BY TermFields
  <1>3. BlankBeyond(u)
    <2>1. ASSUME NEW r \in LineNos, NEW c \in ColNos, c >= u.maxy[r]
          PROVE  u.cells[r][c] = BlankCell
      BY <1>1, <2>1 DEF TermOK, BlankBeyond
    <2>2. ASSUME NEW r \in LineNos, r >= u.nlines PROVE u.maxy[r] = 0
      <3>1. r # t.pos[1]
        BY <1>1, <1>2, <2>2, Bounds
      <3> QED BY <1>1, <2>2, <3>1 DEF TermOK, BlankBeyond
    <2> QED BY <2>1, <2>2 DEF BlankBeyond
  <1>4. TermOK(u)
    <2>1. t.pen \in Attrs /\ t.pos \in LineNos \X (0 .. Cols)
      BY TermFields
    <2> QED BY <1>1, <1>2, <1>3, <2>1 DEF TermOK
  <1> QED BY <1>1, <1>4 DEF u

LEMMA ClearedToBottomFacts ==
    ASSUME NEW t, TermOK(t)
    PROVE  LET u == ClearedToBottom(t)
           IN  /\ TermOK(u) /\ u.pos = t.pos /\ u.pen = t.pen
               /\ \A r \in LineNos, c \in ColNos :
                     u.cells[r][c] = IF r > t.pos[1] \/ (r = t.pos[1] /\ c >= t.pos[2])
                                     THEN BlankCell ELSE t.cells[r][c]
  <1> DEFINE e == ClearedToEnd(t)
             u == ClearedToBottom(t)
  <1>1. PICK p, q : p = t.pos[1] /\ q = t.pos[2]
    OBVIOUS
  <1>2. /\ t.cells \in ScreenType /\ t.maxy \in EndsType /\ t.nlines \in 0 .. Lines
        /\ t.pen \in Attrs /\ t.pos \in LineNos \X (0 .. Cols) /\ t.pos = <<p, q>>
        /\ p \in LineNos /\ q \in 0 .. Cols
    BY <1>1, TermFields
  <1>3. p \in Nat /\ q \in Nat /\ p + 1 <= Lines /\ Lines \in Nat
    BY <1>2, Bounds
  <1>4. /\ e.cells \in ScreenType /\ e.maxy \in EndsType /\ e.pos = t.pos /\ e.pen = t.pen
        /\ e = [cells |-> e.cells, maxy |-> e.maxy, nlines |-> e.nlines, pos |-> e.pos, pen |-> e.pen]
        /\ \A r \in LineNos, c \in ColNos :
              e.cells[r][c] = IF r = p /\ c >= q THEN BlankCell ELSE t.cells[r][c]
        /\ \A r \in LineNos : e.maxy[r] = IF r = p THEN q ELSE t.maxy[r]
    BY <1>1, ClearedCells
  <1>8. /\ u.cells = [j \in LineNos |-> IF j > p THEN BlankLine ELSE e.cells[j]]
        /\ u.maxy = [j \in LineNos |-> IF j > p THEN 0 ELSE e.maxy[j]]
        /\ u.nlines = p + (IF t.pos = <<0, 0>> THEN 0 ELSE 1)
        /\ u.pos = t.pos /\ u.pen = t.pen
        /\ u = [cells |-> u.cells, maxy |-> u.maxy, nlines |-> u.nlines, pos |-> u.pos, pen |-> u.pen]
    <2> HIDE DEF e
    <2>1. u = [e EXCEPT !.cells = [j \in LineNos |-> IF j > p THEN BlankLine ELSE e.cells[j]],
                        !.maxy = [j \in LineNos |-> IF j > p THEN 0 ELSE e.maxy[j]],
                        !.nlines = p + (IF t.pos = <<0, 0>> THEN 0 ELSE 1)]
      BY <1>1 DEF ClearedToBottom, e
    <2> HIDE DEF u
    <2> QED BY <1>4, <2>1
  <1> HIDE DEF u, e
  <1>9. BlankLine \in [ColNos -> CellType] /\ \A c \in ColNos : BlankLine[c] = BlankCell
    BY Bounds DEF BlankLine
  <1>10. u.cells \in ScreenType /\ u.maxy \in EndsType
    BY <1>4, <1>8, <1>9, Bounds DEF ScreenType, EndsType
  <1>11. u.nlines \in 0 .. Lines /\ (t.pos # <<0, 0>> => u.nlines = p + 1)
         /\ (t.pos = <<0, 0>> => u.nlines = 0 /\ p = 0 /\ q = 0)
    BY <1>2, <1>3, <1>8
  <1>12. /\ \A r \in LineNos, c \in ColNos :
               u.cells[r][c] = IF r > p \/ (r = p /\ c >= q) THEN BlankCell ELSE t.cells[r][c]
         /\ \A r \in LineNos : u.maxy[r] = IF r > p THEN 0 ELSE IF r = p THEN q ELSE t.maxy[r]
    BY <1>3, <1>4, <1>8, <1>9, Bounds
  <1>13. \A c \in ColNos : c \in Nat
    BY Bounds
  <1>14. BlankBeyond(u)
    <2>1. ASSUME NEW r \in LineNos, NEW c \in ColNos, c >= u.maxy[r]
          PROVE  u.cells[r][c] = BlankCell
      BY <1>12, <1>13, <2>1 DEF TermOK, BlankBeyond
    <2>2. ASSUME NEW r \in LineNos, r >= u.nlines PROVE u.maxy[r] = 0
      <3>1. r \in Nat
        BY Bounds
      <3>2. CASE t.pos # <<0, 0>>
        BY <1>3, <1>11, <1>12, <2>2, <3>1, <3>2
      <3>3. CASE t.pos = <<0, 0>>
        BY <1>11, <1>12, <3>1, <3>3
      <3> QED BY <3>2, <3>3
    <2> QED BY <2>1, <2>2 DEF BlankBeyond
  <1>15. TermOK(u)
    BY <1>2, <1>8, <1>10, <1>11, <1>14 DEF TermOK
  <1> QED BY <1>1, <1>8, <1>12, <1>13, <1>15 DEF u

LEMMA PaddedFacts ==
    ASSUME NEW t, TermOK(t), t.pen = 0
    PROVE  LET u == Padded(t)
           IN  /\ TermOK(u) /\ u.pen = 0
               /\ u.pos = <<t.pos[1], IF GraphCol > t.pos[2] THEN GraphCol ELSE t.pos[2]>>
               /\ \A r \in LineNos, c \in ColNos :
                     u.cells[r][c] = IF r = t.pos[1] /\ c >= t.pos[2] /\ c < GraphCol
                                     THEN BlankCell ELSE t.cells[r][c]
  <1>1. PICK p, q, k : p = t.pos[1] /\ q = t.pos[2] /\ k = IF GraphCol > q THEN GraphCol - q ELSE 0
    OBVIOUS
  <1>2. p \in LineNos /\ q \in Nat /\ q <= Cols /\ GraphCol \in Nat /\ GraphCol <= Cols
    BY <1>1, TermFields, Bounds
  <1>3. k \in Nat /\ q + k <= Cols /\ q + k = IF GraphCol > q THEN GraphCol ELSE q
    BY <1>1, <1>2
  <1> DEFINE text == [j \in 1 .. k |-> Blank]
  <1>4. text \in Seq(Chars) /\ Len(text) = k /\ \A j \in 1 .. k : text[j] = Blank
    BY <1>3, CharsAssumption
  <1>5. Padded(t) = Printed(t, text)
    BY <1>1 DEF Padded
  <1> HIDE DEF text
  <1>6. /\ TermOK(Printed(t, text)) /\ Printed(t, text).pen = 0
        /\ Printed(t, text).pos = <<p, q + k>>
        /\ \A r \in LineNos, c \in ColNos :
              Printed(t, text).cells[r][c] =
                 IF r = p /\ c >= q /\ c < q + k THEN Cell(text[c - q + 1], 0) ELSE t.cells[r][c]
    BY <1>1, <1>3, <1>4, PrintedFacts
  <1>7. ASSUME NEW c \in ColNos, c >= q
        PROVE  (c < q + k <=> c < GraphCol) /\ (c < q + k => Cell(text[c - q + 1], 0) = BlankCell)
    <2>1. c \in Nat
      BY Bounds
    <2>2. c < q + k <=> c < GraphCol
      BY <1>2, <1>3, <1>7, <2>1
    <2>3. c < q + k => c - q + 1 \in 1 .. k
      BY <1>2, <1>3, <1>7, <2>1
    <2> QED BY <1>4, <2>2, <2>3 DEF BlankCell
  <1> QED BY <1>1, <1>3, <1>5, <1>6, <1>7
-----------------------------------------------------------------------------
(* Cutting off the trailing blanks and the empty last lines. *)

LEMMA LeastOf ==
    ASSUME NEW S \in SUBSET Nat, S # {}
    PROVE  \E j \in S : \A z \in S : j <= z
  <1>1. PICK j \in S : \A z \in S : ~ (<<z, j>> \in OpToRel(<, Nat))
    BY WFMin, NatLessThanWellFounded
  <1>2. \A z \in S : ~(z < j)
    BY <1>1 DEF OpToRel
  <1> QED BY <1>2

LEMMA WantFields ==
    ASSUME NEW w, WantOK(w)
    PROVE  /\ w.cells \in ScreenType /\ w.maxy \in EndsType
           /\ w.dirty \in SUBSET LineNos /\ w.nlines \in 0 .. Lines
           /\ \A r \in LineNos, c \in ColNos : w.cells[r][c] \in CellType
           /\ \A r \in LineNos : w.maxy[r] \in Nat /\ w.maxy[r] <= Cols
           /\ w = [cells |-> w.cells, maxy |-> w.maxy, dirty |-> w.dirty, nlines |-> w.nlines]
  <1>1. Cols \in Nat
    BY Bounds
  <1> QED BY <1>1 DEF WantOK, ScreenType, EndsType

(* The end of a line goes back over blanks only.                           *)
LEMMA TrimmedEndFacts ==
    ASSUME WantOK(want), NEW r \in LineNos
    PROVE  /\ TrimmedEnd(r) \in Nat /\ TrimmedEnd(r) <= want.maxy[r]
           /\ \A c \in ColNos : c >= TrimmedEnd(r) => want.cells[r][c] = BlankCell
  <1>1. PICK m : m = want.maxy[r]
    OBVIOUS
  <1>2. m \in Nat /\ m <= Cols /\ \A c \in ColNos : c >= m => want.cells[r][c] = BlankCell
    BY <1>1, WantFields DEF WantOK, BlankBeyond
  <1>3. CASE r \notin want.dirty \/ r >= want.nlines \/ want.maxy[r] = 0
    <2>1. TrimmedEnd(r) = m
      BY <1>1, <1>3 DEF TrimmedEnd
    <2> QED BY <1>1, <1>2, <2>1
  <1>4. CASE ~(r \notin want.dirty \/ r >= want.nlines \/ want.maxy[r] = 0)
    <2> DEFINE Ok(n) == \A c \in n .. m - 1 : Trailing(want.cells[r][c])
               S == {n \in 1 .. m : Ok(n)}
    <2>1. m \in S
      <3>1. m >= 1 /\ \A c \in m .. m - 1 : FALSE
        BY <1>1, <1>2, <1>4
      <3> QED BY <1>2, <3>1
    <2>2. S \in SUBSET Nat
      BY <1>2
    <2>3. PICK j \in S : \A z \in S : j <= z
      BY <2>1, <2>2, LeastOf
    <2>4. j = 1 \/ ~Trailing(want.cells[r][j - 1])
      <3> SUFFICES ASSUME j # 1, Trailing(want.cells[r][j - 1]) PROVE FALSE
        OBVIOUS
      <3>1. j - 1 \in 1 .. m /\ j \in Nat
        BY <1>2
      <3>2. \A c \in (j - 1) .. m - 1 : c = j - 1 \/ c \in j .. m - 1
        BY <1>2, <3>1
      <3>3. j - 1 \in S
        BY <3>1, <3>2
      <3> QED BY <2>3, <3>1, <3>3
    <2>5. \E n \in 1 .. m : Ok(n) /\ (n = 1 \/ ~Trailing(want.cells[r][n - 1]))
      BY <2>3, <2>4
    <2>6. TrimmedEnd(r) = CHOOSE n \in 1 .. m : Ok(n) /\ (n = 1 \/ ~Trailing(want.cells[r][n - 1]))
      BY <1>1, <1>4 DEF TrimmedEnd
    <2>7. TrimmedEnd(r) \in 1 .. m /\ Ok(TrimmedEnd(r))
      BY <2>5, <2>6
    <2>8. ASSUME NEW c \in ColNos, c >= TrimmedEnd(r) PROVE want.cells[r][c] = BlankCell
      <3>1. CASE c >= m
        BY <1>2, <3>1
      <3>2. CASE ~(c >= m)
        <4>1. c \in TrimmedEnd(r) .. m - 1
          BY <1>2, <2>7, <2>8, <3>2, Bounds
        <4>2. Trailing(want.cells[r][c])
          BY <2>7, <4>1
        <4> QED BY <4>2, TrailingIsBlank, WantFields
      <3> QED BY <3>1, <3>2
    <2> HIDE DEF Ok
    <2> QED BY <1>1, <1>2, <2>7, <2>8
  <1> QED BY <1>3, <1>4

LEMMA TrimmedFacts ==
    ASSUME WantOK(want)
    PROVE  /\ WantOK(Trimmed) /\ Trimmed.cells = want.cells /\ Trimmed.dirty = want.dirty
  <1>1. PICK k : k = want.nlines
    OBVIOUS
  <1>2. /\ k \in Nat /\ k <= Lines /\ want.cells \in ScreenType /\ want.maxy \in EndsType
        /\ want.dirty \in SUBSET LineNos
        /\ want = [cells |-> want.cells, maxy |-> want.maxy, dirty |-> want.dirty, nlines |-> k]
    BY <1>1, WantFields, Bounds
  <1> DEFINE ends == [r \in LineNos |-> TrimmedEnd(r)]
             Ok(n) == \A r \in n .. k - 1 : ends[r] = 0
             S == {n \in 0 .. k : Ok(n)}
             last == CHOOSE n \in 0 .. k : Ok(n) /\ (n = 0 \/ ends[n - 1] # 0)
  <1>3. \A r \in LineNos : ends[r] \in Nat /\ ends[r] <= want.maxy[r] /\ ends[r] \in 0 .. Cols
    <2> SUFFICES ASSUME NEW r \in LineNos
                 PROVE  TrimmedEnd(r) \in Nat /\ TrimmedEnd(r) <= want.maxy[r] /\ TrimmedEnd(r) \in 0 .. Cols
      OBVIOUS
    <2>1. want.maxy[r] \in Nat /\ want.maxy[r] <= Cols /\ Cols \in Nat
      BY WantFields, Bounds
    <2> QED BY <2>1, TrimmedEndFacts
  <1>4. Trimmed = [want EXCEPT !.maxy = ends, !.nlines = last]
    BY <1>1 DEF Trimmed
  <1>5. last \in 0 .. k /\ Ok(last)
    <2> HIDE DEF ends
    <2>1. k \in S
      <3>1. \A r \in k .. k - 1 : FALSE
        BY <1>2
      <3> QED BY <1>2, <3>1
    <2>2. S \in SUBSET Nat
      BY <1>2
    <2>3. PICK j \in S : \A z \in S : j <= z
      BY <2>1, <2>2, LeastOf
    <2>4. j = 0 \/ ends[j - 1] # 0
      <3> SUFFICES ASSUME j # 0, ends[j - 1] = 0 PROVE FALSE
        OBVIOUS
      <3>1. j - 1 \in 0 .. k /\ j \in Nat
        BY <1>2
      <3>2. \A r \in (j - 1) .. k - 1 : r = j - 1 \/ r \in j .. k - 1
        BY <1>2, <3>1
      <3>3. j - 1 \in S
        BY <3>1, <3>2
      <3> QED BY <2>3, <3>1, <3>3
    <2>5. \E n \in 0 .. k : Ok(n) /\ (n = 0 \/ ends[n - 1] # 0)
      BY <2>3, <2>4
    <2> HIDE DEF Ok
    <2> QED BY <2>5
  <1>6. ends \in EndsType
    BY <1>3 DEF EndsType
  <1>7. \A r \in LineNos : \A c \in ColNos : c >= ends[r] => want.cells[r][c] = BlankCell
    BY TrimmedEndFacts
  <1>8. \A r \in LineNos : r >= last => ends[r] = 0
    <2> SUFFICES ASSUME NEW r \in LineNos, r >= last PROVE ends[r] = 0
      OBVIOUS
    <2> HIDE DEF ends, last
    <2>1. r \in Nat
      BY Bounds
    <2>2. CASE r >= k
      <3>1. want.maxy[r] = 0
        BY <1>1, <2>2 DEF WantOK, BlankBeyond
      <3> QED BY <1>3, <3>1
    <2>3. CASE ~(r >= k)
      <3>1. r \in last .. k - 1
        BY <1>2, <1>5, <2>1, <2>3
      <3> QED BY <1>5, <3>1
    <2> QED BY <2>2, <2>3
  <1> HIDE DEF ends, last, Ok
  <1>9. /\ Trimmed.cells = want.cells /\ Trimmed.dirty = want.dirty
        /\ Trimmed.maxy = ends /\ Trimmed.nlines = last
        /\ Trimmed = [cells |-> want.cells, maxy |-> ends, dirty |-> want.dirty, nlines |-> last]
    BY <1>2, <1>4
  <1>10. last \in 0 .. Lines
    BY <1>2, <1>5, Bounds
  <1>11. BlankBeyond(Trimmed)
    BY <1>7, <1>8, <1>9 DEF BlankBeyond
  <1> QED BY <1>2, <1>6, <1>9, <1>10, <1>11 DEF WantOK
-----------------------------------------------------------------------------
(* What is shown once opline is printed. *)

LEMMA PrintedMore ==
    ASSUME NEW t, TermOK(t), NEW text \in Seq(Chars), NEW ch \in Chars,
           t.pos[2] + Len(text) + 1 <= Cols
    PROVE  /\ Append(text, ch) \in Seq(Chars) /\ Len(Append(text, ch)) = Len(text) + 1
           /\ t.pos[2] + Len(Append(text, ch)) <= Cols
           /\ \A r \in LineNos, c \in ColNos :
                 Printed(t, Append(text, ch)).cells[r][c] =
                    IF r = t.pos[1] /\ c = t.pos[2] + Len(text) THEN Cell(ch, t.pen)
                    ELSE Printed(t, text).cells[r][c]
  <1>1. PICK p, q, k, more : p = t.pos[1] /\ q = t.pos[2] /\ k = Len(text) /\ more = Append(text, ch)
    OBVIOUS
  <1>2. p \in LineNos /\ q \in Nat /\ k \in Nat /\ Cols \in Nat
    <2>1. t.pos[1] \in LineNos /\ t.pos[2] \in 0 .. Cols
      BY TermFields
    <2> QED BY <1>1, <2>1, Bounds
  <1>3. /\ more \in Seq(Chars) /\ Len(more) = k + 1
        /\ \A i \in 1 .. k : more[i] = text[i]
        /\ more[k + 1] = ch
    <2>1. Append(text, ch) \in Seq(Chars)
      BY AppendProperties
    <2> QED BY <1>1, <2>1, AppendProperties
  <1>4. q + k + 1 <= Cols /\ q + k <= Cols /\ q + Len(more) <= Cols
    <2>1. q + k + 1 <= Cols
      BY <1>1
    <2> QED BY <1>2, <1>3, <2>1
  <1>5. \A r \in LineNos, c \in ColNos :
           /\ Printed(t, more).cells[r][c] =
                 IF r = p /\ c >= q /\ c < q + (k + 1) THEN Cell(more[c - q + 1], t.pen)
                 ELSE t.cells[r][c]
           /\ Printed(t, text).cells[r][c] =
                 IF r = p /\ c >= q /\ c < q + k THEN Cell(text[c - q + 1], t.pen)
                 ELSE t.cells[r][c]
    <2>1. \A r \in LineNos, c \in ColNos :
             Printed(t, more).cells[r][c] =
                IF r = t.pos[1] /\ c >= t.pos[2] /\ c < t.pos[2] + Len(more)
                THEN Cell(more[c - t.pos[2] + 1], t.pen) ELSE t.cells[r][c]
      <3>1. more \in Seq(Chars) /\ t.pos[2] + Len(more) <= Cols
        BY <1>1, <1>3, <1>4
      <3> QED BY <3>1, PrintedFacts
    <2>2. \A r \in LineNos, c \in ColNos :
             Printed(t, text).cells[r][c] =
                IF r = t.pos[1] /\ c >= t.pos[2] /\ c < t.pos[2] + Len(text)
                THEN Cell(text[c - t.pos[2] + 1], t.pen) ELSE t.cells[r][c]
      <3>1. t.pos[2] + Len(text) <= Cols
        BY <1>1, <1>4
      <3> QED BY <3>1, PrintedFacts
    <2> QED BY <1>1, <1>3, <2>1, <2>2
  <1>6. ASSUME NEW r \in LineNos, NEW c \in ColNos
        PROVE  Printed(t, more).cells[r][c] =
                  IF r = p /\ c = q + k THEN Cell(ch, t.pen) ELSE Printed(t, text).cells[r][c]
    <2>1. c \in Nat
      BY Bounds
    <2>2. CASE r = p /\ c = q + k
      <3>1. c >= q /\ c < q + (k + 1) /\ c - q + 1 = k + 1
        BY <1>2, <2>2
      <3>2. more[c - q + 1] = ch
        BY <1>3, <3>1
      <3> QED BY <1>5, <2>2, <3>1, <3>2
    <2>3. CASE r = p /\ c >= q /\ c < q + k
      <3>1. c < q + (k + 1) /\ c # q + k /\ c - q + 1 \in 1 .. k
        BY <1>2, <2>1, <2>3
      <3>2. more[c - q + 1] = text[c - q + 1]
        BY <1>3, <3>1
      <3> QED BY <1>5, <2>3, <3>1, <3>2
    <2>4. CASE ~(r = p /\ c >= q /\ c < q + (k + 1))
      <3>1. ~(r = p /\ c >= q /\ c < q + k) /\ ~(r = p /\ c = q + k)
        BY <1>2, <2>1, <2>4
      <3> QED BY <1>5, <2>4, <3>1
    <2>5. c >= q /\ c < q + (k + 1) => c = q + k \/ c < q + k
      BY <1>2, <2>1
    <2> QED BY <2>2, <2>3, <2>4, <2>5
  <1> QED BY <1>1, <1>3, <1>4, <1>6

LEMMA TypeFacts ==
    ASSUME TypeInv
    PROVE  /\ TermOK(term) /\ WantOK(want) /\ opline \in Seq(Chars) /\ Len(opline) \in Nat
           /\ term.pos[1] \in LineNos /\ term.pos[2] \in Nat
           /\ term.pos = <<term.pos[1], term.pos[2]>> /\ term.pos[2] + Len(opline) <= Cols
           /\ vpos[1] \in LineNos /\ vpos[2] \in Nat /\ vpos[2] <= Cols /\ vpos = <<vpos[1], vpos[2]>>
           /\ cline \in Nat /\ ccol \in Nat /\ cline <= Lines /\ ccol <= Cols
           /\ want.nlines \in Nat /\ want.nlines <= Lines
           /\ want.dirty \in SUBSET LineNos
  <1>1. Lines \in Nat /\ Cols \in Nat
    BY Bounds
  <1>2. /\ TermOK(term) /\ WantOK(want) /\ opline \in Seq(Chars) /\ Len(opline) \in Nat
        /\ term.pos[2] + Len(opline) <= Cols
    BY DEF TypeInv
  <1>3. /\ term.pos[1] \in LineNos /\ term.pos[2] \in Nat
        /\ term.pos = <<term.pos[1], term.pos[2]>>
    BY <1>1, <1>2, TermFields
  <1>4. vpos[1] \in LineNos /\ vpos[2] \in Nat /\ vpos[2] <= Cols /\ vpos = <<vpos[1], vpos[2]>>
    BY <1>1 DEF TypeInv
  <1>5. cline \in Nat /\ ccol \in Nat /\ cline <= Lines /\ ccol <= Cols
    BY <1>1 DEF TypeInv
  <1>6. want.nlines \in Nat /\ want.nlines <= Lines /\ want.dirty \in SUBSET LineNos
    BY <1>1, <1>2, WantFields
  <1> QED BY <1>2, <1>3, <1>4, <1>5, <1>6

LEMMA FlushedFacts ==
    ASSUME TypeInv
    PROVE  /\ TermOK(Flushed) /\ Flushed.cells = Shown /\ Flushed.pen = term.pen
           /\ Flushed.pos = <<term.pos[1], term.pos[2] + Len(opline)>>
           /\ Flushed.nlines >= term.nlines
           /\ \A r \in LineNos, c \in ColNos :
                 Shown[r][c] # term.cells[r][c] =>
                    opline # <<>> /\ r = term.pos[1] /\ c < term.pos[2] + Len(opline)
           /\ opline = <<>> => Flushed = term
  <1>1. /\ TermOK(Flushed) /\ Flushed.pen = term.pen
        /\ Flushed.pos = <<term.pos[1], term.pos[2] + Len(opline)>>
        /\ Flushed.nlines >= term.nlines
        /\ \A r \in LineNos, c \in ColNos :
              Flushed.cells[r][c] # term.cells[r][c] =>
                 r = term.pos[1] /\ c < term.pos[2] + Len(opline)
    BY TypeFacts, PrintedFacts DEF Flushed
  <1>2. opline = <<>> => Flushed = term
    BY DEF Flushed, Printed
  <1>3. Flushed.cells = Shown
    BY DEF Flushed, Shown
  <1> QED BY <1>1, <1>2, <1>3

(* Nothing is pending at or behind the cell the loops look at.             *)
LEMMA NotPending ==
    ASSUME TypeInv, PlaceInv, NEW r \in LineNos, NEW c \in ColNos,
           r > cline \/ (r = cline /\ c >= ccol)
    PROVE  Shown[r][c] = term.cells[r][c]
  <1> SUFFICES ASSUME Shown[r][c] # term.cells[r][c] PROVE FALSE
    OBVIOUS
  <1>1. opline # <<>> /\ r = term.pos[1] /\ c < term.pos[2] + Len(opline)
    BY FlushedFacts
  <1>2. /\ vpos = <<term.pos[1], term.pos[2] + Len(opline)>>
        /\ vpos[1] < cline \/ (vpos[1] = cline /\ vpos[2] <= ccol)
    BY <1>1 DEF PlaceInv
  <1>3. vpos[1] = r /\ c < vpos[2]
    BY <1>1, <1>2
  <1>4. r \in Nat /\ c \in Nat /\ cline \in Nat /\ ccol \in Nat /\ vpos[2] \in Nat
    BY TypeFacts, Bounds
  <1> QED BY <1>2, <1>3, <1>4

(* Behind the text of a line the picture is blank.                         *)
LEMMA WantBlank ==
    ASSUME TypeInv, NEW r \in LineNos, NEW c \in ColNos,
           c >= want.maxy[r] \/ r >= want.nlines
    PROVE  want.cells[r][c] = BlankCell
  <1>1. want.maxy[r] \in Nat /\ c \in Nat
    BY TypeFacts, WantFields, Bounds
  <1> QED BY <1>1, TypeFacts DEF WantOK, BlankBeyond

LEMMA TermBlank ==
    ASSUME TypeInv, NEW r \in LineNos, NEW c \in ColNos,
           c >= term.maxy[r] \/ r >= term.nlines
    PROVE  term.cells[r][c] = BlankCell
  <1>1. term.maxy[r] \in Nat /\ c \in Nat
    <2>1. term.maxy[r] \in 0 .. Cols
      BY TypeFacts, TermFields
    <2> QED BY <2>1, Bounds
  <1> QED BY <1>1, TypeFacts DEF TermOK, BlankBeyond
-----------------------------------------------------------------------------
(* Drawing. *)

LEMMA InitHolds == Init => DisplayInv
  <1> SUFFICES ASSUME Init PROVE DisplayInv
    OBVIOUS
  <1> DEFINE blank == [r \in LineNos |-> BlankLine]
             maxy == [r \in LineNos |-> 0]
  <1>1. /\ want = [cells |-> blank, maxy |-> maxy, dirty |-> {}, nlines |-> 0]
        /\ term = [cells |-> blank, maxy |-> maxy, nlines |-> 0, pos |-> <<0, 0>>, pen |-> 0]
        /\ vpos = <<0, 0>> /\ opline = <<>> /\ currpos = <<0, 0>> /\ pc = "idle"
        /\ cline = 0 /\ ccol = 0
    BY DEF Init
  <1>2. blank \in ScreenType /\ \A r \in LineNos, c \in ColNos : blank[r][c] = BlankCell
    BY Bounds DEF BlankLine, ScreenType
  <1>3. maxy \in EndsType /\ \A r \in LineNos : maxy[r] = 0
    BY Bounds DEF EndsType
  <1> HIDE DEF blank, maxy
  <1>4. BlankBeyond(want) /\ BlankBeyond(term)
    BY <1>1, <1>2, <1>3 DEF BlankBeyond
  <1>5. 0 \in 0 .. Lines /\ 0 \in 0 .. Cols /\ 0 \in Attrs /\ <<0, 0>> \in LineNos \X (0 .. Cols)
        /\ <<0, 0>> \in LineNos \X ColNos
    BY Bounds, CharsAssumption
  <1>6. WantOK(want) /\ TermOK(term)
    BY <1>1, <1>2, <1>3, <1>4, <1>5 DEF WantOK, TermOK
  <1>7. TypeInv
    <2>1. opline \in Seq(Chars) /\ term.pos[2] + Len(opline) <= Cols
      BY <1>1, Bounds
    <2> QED BY <1>1, <1>5, <1>6, <2>1 DEF TypeInv
  <1>8. PlaceInv
    BY <1>1 DEF PlaceInv
  <1>9. MatchInv
    <2>1. Shown = term.cells
      BY <1>1 DEF Shown, Printed
    <2> QED BY <1>1, <2>1 DEF MatchInv, Match
  <1> QED BY <1>7, <1>8, <1>9 DEF DisplayInv

(* A change of dscreen that marks the lines it touches.                    *)
LEMMA EditKeeps ==
    ASSUME DisplayInv, pc = "idle", WantOK(want)', want.dirty \subseteq want'.dirty,
           \A r \in LineNos \ want'.dirty : \A c \in ColNos : want'.cells[r][c] = want.cells[r][c],
           UNCHANGED <<term, vpos, opline, currpos, pc, loop>>
    PROVE  DisplayInv'
  <1>1. TypeInv'
    BY DEF DisplayInv, TypeInv, loop
  <1>2. PlaceInv'
    BY DEF DisplayInv, PlaceInv, loop
  <1>3. MatchInv'
    <2>1. Shown' = Shown
      BY DEF Shown
    <2>2. ASSUME NEW r \in LineNos \ want'.dirty, NEW c \in ColNos PROVE Match(r, c)'
      <3>1. Match(r, c)
        BY DEF DisplayInv, MatchInv
      <3> QED BY <2>1, <3>1 DEF Match, Graph
    <2> QED BY <2>2 DEF MatchInv
  <1> QED BY <1>1, <1>2, <1>3 DEF DisplayInv

LEMMA DrawnFacts ==
    ASSUME WantOK(want), NEW top \in LineNos, NEW height \in Nat, height >= 1,
           top + height <= Lines, NEW right \in 0 .. Cols, NEW blank \in ScreenType,
           \A r \in LineNos, c \in ColNos :
              r \notin top .. top + height - 1 \/ c >= right => blank[r][c] = want.cells[r][c]
    PROVE  LET w == Drawn(top, height, right, blank)
           IN  /\ WantOK(w) /\ want.dirty \subseteq w.dirty
               /\ \A r \in LineNos \ w.dirty : \A c \in ColNos : w.cells[r][c] = want.cells[r][c]
  <1> DEFINE w == Drawn(top, height, right, blank)
             lines == top .. top + height - 1
             ends == [r \in LineNos |-> IF r \in lines THEN Max2(want.maxy[r], right) ELSE want.maxy[r]]
  <1>1. /\ w = [cells |-> blank, maxy |-> ends, dirty |-> want.dirty \cup lines,
                nlines |-> Max2(want.nlines, top + height)]
        /\ w.cells = blank /\ w.maxy = ends /\ w.dirty = want.dirty \cup lines
        /\ w.nlines = Max2(want.nlines, top + height)
    BY DEF Drawn
  <1>2. top \in Nat /\ Lines \in Nat /\ Cols \in Nat /\ right \in Nat /\ right <= Cols
    BY Bounds
  <1>3. lines \in SUBSET LineNos
    BY <1>2, Bounds
  <1>4. /\ want.dirty \in SUBSET LineNos /\ want.nlines \in Nat /\ want.nlines <= Lines
        /\ \A r \in LineNos : want.maxy[r] \in Nat /\ want.maxy[r] <= Cols
    BY <1>2, WantFields
  <1>5. \A r \in LineNos : /\ ends[r] \in 0 .. Cols /\ ends[r] >= want.maxy[r]
                           /\ r \in lines => ends[r] >= right
                           /\ r \notin lines => ends[r] = want.maxy[r]
    BY <1>2, <1>4 DEF Max2
  <1>6. w.nlines \in 0 .. Lines /\ w.nlines >= want.nlines /\ w.nlines >= top + height
    BY <1>1, <1>2, <1>4 DEF Max2
  <1>7. ends \in EndsType
    BY <1>5 DEF EndsType
  <1> HIDE DEF ends, w
  <1>8. BlankBeyond(w)
    <2>1. ASSUME NEW r \in LineNos, NEW c \in ColNos, c >= ends[r]
          PROVE  blank[r][c] = BlankCell
      <3>1. c \in Nat /\ ends[r] \in Nat
        BY <1>5, Bounds
      <3>2. c >= want.maxy[r] /\ (r \in lines => c >= right)
        BY <1>2, <1>4, <1>5, <2>1, <3>1
      <3>3. blank[r][c] = want.cells[r][c]
        BY <3>2
      <3> QED BY <3>2, <3>3 DEF WantOK, BlankBeyond
    <2>2. ASSUME NEW r \in LineNos, r >= w.nlines PROVE ends[r] = 0
      <3>1. r \in Nat /\ w.nlines \in Nat
        BY <1>6, Bounds
      <3>2. r \notin lines /\ r >= want.nlines
        BY <1>2, <1>4, <1>6, <2>2, <3>1
      <3> QED BY <1>5, <3>2 DEF WantOK, BlankBeyond
    <2> QED BY <1>1, <2>1, <2>2 DEF BlankBeyond
  <1>9. WantOK(w)
    <2>1. want.dirty \cup lines \in SUBSET LineNos
      BY <1>3, <1>4
    <2> QED BY <1>1, <1>6, <1>7, <1>8, <2>1 DEF WantOK
  <1> QED BY <1>1, <1>9 DEF w

LEMMA WriteKeeps ==
    ASSUME DisplayInv, NEW r \in LineNos, NEW c \in ColNos, NEW ch \in Chars, NEW at \in Attrs,
           Write(r, c, ch, at)
    PROVE  DisplayInv'
  <1> DEFINE blank == [want.cells EXCEPT ![r][c] = Cell(ch, at)]
  <1>1. /\ pc = "idle" /\ want' = Drawn(r, 1, c + 1, blank)
        /\ UNCHANGED <<term, vpos, opline, currpos, pc, loop>>
    BY DEF Write
  <1>2. WantOK(want) /\ want.cells \in ScreenType
    BY WantFields DEF DisplayInv, TypeInv
  <1>3. r \in Nat /\ r + 1 <= Lines /\ c \in Nat /\ c + 1 <= Cols /\ c + 1 \in 0 .. Cols
    BY Bounds
  <1>4. blank \in ScreenType
    BY <1>2, CellIsTyped DEF ScreenType
  <1>5. \A z \in LineNos, j \in ColNos : z # r \/ j # c => blank[z][j] = want.cells[z][j]
    BY <1>2 DEF ScreenType
  <1>6. \A z \in LineNos, j \in ColNos : z \notin r .. r + 1 - 1 \/ j >= c + 1 => z # r \/ j # c
    BY <1>3
  <1> HIDE DEF blank
  <1>7. LET w == Drawn(r, 1, c + 1, blank)
        IN  /\ WantOK(w) /\ want.dirty \subseteq w.dirty
            /\ \A z \in LineNos \ w.dirty : \A j \in ColNos : w.cells[z][j] = want.cells[z][j]
    BY <1>2, <1>3, <1>4, <1>5, <1>6, DrawnFacts
  <1>8. WantOK(want)'
    BY <1>1, <1>7
  <1> QED BY <1>1, <1>7, <1>8, EditKeeps

LEMMA ClearKeeps ==
    ASSUME DisplayInv, NEW r \in LineNos, NEW c \in ColNos, Clear(r, c)
    PROVE  DisplayInv'
  <1> DEFINE line == [j \in ColNos |-> IF j < c THEN want.cells[r][j] ELSE BlankCell]
  <1>1. /\ pc = "idle" /\ r < want.nlines
        /\ want' = [want EXCEPT !.cells[r] = line, !.maxy[r] = c, !.dirty = want.dirty \cup {r}]
        /\ UNCHANGED <<term, vpos, opline, currpos, pc, loop>>
    BY DEF Clear
  <1>2. /\ WantOK(want) /\ want.cells \in ScreenType /\ want.maxy \in EndsType
        /\ want.dirty \in SUBSET LineNos /\ want.nlines \in 0 .. Lines
    BY WantFields DEF DisplayInv, TypeInv
  <1>3. /\ want'.cells = [want.cells EXCEPT ![r] = line]
        /\ want'.maxy = [want.maxy EXCEPT ![r] = c]
        /\ want'.dirty = want.dirty \cup {r} /\ want'.nlines = want.nlines
        /\ want' = [cells |-> want'.cells, maxy |-> want'.maxy, dirty |-> want'.dirty, nlines |-> want'.nlines]
    BY <1>1 DEF DisplayInv, TypeInv, WantOK
  <1>4. line \in [ColNos -> CellType]
    BY <1>2, Bounds DEF ScreenType
  <1>5. want'.cells \in ScreenType
    BY <1>2, <1>3, <1>4 DEF ScreenType
  <1>6. /\ \A z \in LineNos, j \in ColNos :
              want'.cells[z][j] = IF z = r /\ ~(j < c) THEN BlankCell ELSE want.cells[z][j]
        /\ \A z \in LineNos : want'.maxy[z] = IF z = r THEN c ELSE want.maxy[z]
    BY <1>2, <1>3 DEF ScreenType, EndsType
  <1>7. c \in Nat /\ c \in 0 .. Cols /\ \A j \in ColNos : j \in Nat
    BY Bounds
  <1>8. want'.maxy \in EndsType
    BY <1>2, <1>3, <1>7 DEF EndsType
  <1> HIDE DEF line
  <1>9. BlankBeyond(want')
    <2>1. ASSUME NEW z \in LineNos, NEW j \in ColNos, j >= want'.maxy[z]
          PROVE  want'.cells[z][j] = BlankCell
      <3>1. CASE z = r
        <4>1. ~(j < c)
          BY <1>6, <1>7, <2>1, <3>1
        <4> QED BY <1>6, <3>1, <4>1
      <3>2. CASE z # r
        <4>1. j >= want.maxy[z]
          BY <1>6, <2>1, <3>2
        <4> QED BY <1>2, <1>6, <3>2, <4>1 DEF WantOK, BlankBeyond
      <3> QED BY <3>1, <3>2
    <2>2. ASSUME NEW z \in LineNos, z >= want'.nlines PROVE want'.maxy[z] = 0
      <3>1. z # r
        BY <1>1, <1>2, <1>3, <2>2, Bounds
      <3> QED BY <1>2, <1>3, <1>6, <2>2, <3>1 DEF WantOK, BlankBeyond
    <2> QED BY <2>1, <2>2 DEF BlankBeyond
  <1>10. WantOK(want)'
    <2>1. want'.dirty \in SUBSET LineNos
      BY <1>2, <1>3
    <2> QED BY <1>2, <1>3, <1>5, <1>8, <1>9, <2>1 DEF WantOK, BlankBeyond
  <1>11. \A z \in LineNos \ want'.dirty : \A j \in ColNos : want'.cells[z][j] = want.cells[z][j]
    BY <1>3, <1>6
  <1> QED BY <1>1, <1>3, <1>10, <1>11, EditKeeps

LEMMA SquareCopyKeeps ==
    ASSUME DisplayInv, NEW k \in Copies, SquareCopy(k[1], k[2], k[3], k[4], k[5], k[6])
    PROVE  DisplayInv'
  <1>1. PICK sy, sx, ty, tx, h, b : k = <<sy, sx, ty, tx, h, b>>
    BY DEF Copies
  <1>2. /\ sy \in LineNos /\ sx \in ColNos /\ ty \in LineNos /\ tx \in ColNos
        /\ h \in 1 .. Lines /\ b \in 1 .. Cols
        /\ sy + h <= Lines /\ ty + h <= Lines /\ sx + b <= Cols /\ tx + b <= Cols
    BY <1>1 DEF Copies
  <1>3. /\ sy \in Nat /\ sx \in Nat /\ ty \in Nat /\ tx \in Nat /\ h \in Nat /\ b \in Nat /\ h >= 1
        /\ Lines \in Nat /\ Cols \in Nat /\ b + tx \in 0 .. Cols
    BY <1>2, Bounds
  <1> DEFINE Inside(r, c) == r \in ty .. ty + h - 1 /\ c \in tx .. tx + b - 1
             blank == [r \in LineNos |-> [c \in ColNos |->
                         IF Inside(r, c) THEN want.cells[sy + (r - ty)][sx + (c - tx)]
                         ELSE want.cells[r][c]]]
  <1>4. /\ pc = "idle" /\ want' = Drawn(ty, h, b + tx, blank)
        /\ UNCHANGED <<term, vpos, opline, currpos, pc, loop>>
    BY <1>1 DEF SquareCopy, CopyEnd
  <1>5. WantOK(want) /\ \A r \in LineNos, c \in ColNos : want.cells[r][c] \in CellType
    BY WantFields DEF DisplayInv, TypeInv
  <1>6. ASSUME NEW r \in LineNos, NEW c \in ColNos, Inside(r, c)
        PROVE  want.cells[sy + (r - ty)][sx + (c - tx)] \in CellType
    <2>1. sy + (r - ty) \in Nat /\ sy + (r - ty) < Lines
      BY <1>2, <1>3, <1>6
    <2>2. sx + (c - tx) \in Nat /\ sx + (c - tx) < Cols
      BY <1>2, <1>3, <1>6
    <2>3. sy + (r - ty) \in LineNos /\ sx + (c - tx) \in ColNos
      BY <2>1, <2>2, Bounds
    <2> QED BY <1>5, <2>3
  <1>7. blank \in ScreenType
    <2>1. \A r \in LineNos, c \in ColNos : blank[r][c] \in CellType
      BY <1>5, <1>6
    <2> QED BY <2>1 DEF ScreenType
  <1>8. \A r \in LineNos, c \in ColNos : ~Inside(r, c) => blank[r][c] = want.cells[r][c]
    OBVIOUS
  <1>9. \A r \in LineNos, c \in ColNos : r \notin ty .. ty + h - 1 \/ c >= b + tx => ~Inside(r, c)
    BY <1>3, Bounds
  <1> HIDE DEF blank, Inside
  <1>10. LET w == Drawn(ty, h, b + tx, blank)
         IN  /\ WantOK(w) /\ want.dirty \subseteq w.dirty
             /\ \A z \in LineNos \ w.dirty : \A j \in ColNos : w.cells[z][j] = want.cells[z][j]
    BY <1>2, <1>3, <1>5, <1>7, <1>8, <1>9, DrawnFacts
  <1>11. WantOK(want)'
    BY <1>4, <1>10
  <1> QED BY <1>4, <1>10, <1>11, EditKeeps
-----------------------------------------------------------------------------
(* The update. *)

LEMMA MatchStays ==
    ASSUME NEW r, NEW c, Match(r, c), Shown'[r][c] = Shown[r][c],
           want'.cells[r][c] = want.cells[r][c]
    PROVE  Match(r, c)'
  BY DEF Match, Graph

LEMMA SetCursorKeeps ==
    ASSUME DisplayInv, NEW p \in CursorPlaces, SetCursor(p)
    PROVE  DisplayInv'
  <1>1. /\ pc = "idle" /\ currpos' = p /\ UNCHANGED <<want, term, vpos, opline, pc, cline, ccol>>
    BY DEF SetCursor, loop
  <1>2. TypeInv'
    BY <1>1, CursorAssumption DEF DisplayInv, TypeInv
  <1>3. PlaceInv'
    BY <1>1 DEF DisplayInv, PlaceInv
  <1>4. MatchInv'
    BY <1>1 DEF DisplayInv, MatchInv, Match, Shown
  <1> QED BY <1>2, <1>3, <1>4 DEF DisplayInv

LEMMA FindChangesKeeps ==
    ASSUME DisplayInv, FindChanges
    PROVE  DisplayInv'
  <1>1. /\ pc = "idle" /\ cline' = 0 /\ ccol' = 0
        /\ UNCHANGED <<term, vpos, opline, currpos>>
    BY DEF FindChanges
  <1>2. TypeInv /\ WantOK(want) /\ opline = <<>>
        /\ vpos = <<term.pos[1], term.pos[2] + Len(opline)>>
        /\ \A r \in LineNos \ want.dirty, c \in ColNos : Match(r, c)
    BY <1>1 DEF DisplayInv, TypeInv, PlaceInv, MatchInv
  <1>3. Shown' = Shown
    BY <1>1 DEF Shown
  <1>4. 0 \in 0 .. Lines /\ 0 \in 0 .. Cols
    BY Bounds
  <1>5. CASE want.dirty # {}
    <2>1. want' = Trimmed /\ pc' = "lines"
      BY <1>5 DEF FindChanges
    <2>2. WantOK(want') /\ want'.cells = want.cells /\ want'.dirty = want.dirty
      BY <1>2, <2>1, TrimmedFacts
    <2>3. WantOK(want)'
      BY <2>2 DEF WantOK, BlankBeyond
    <2>4. TypeInv'
      BY <1>1, <1>2, <1>4, <2>1, <2>3 DEF TypeInv
    <2>5. PlaceInv'
      BY <1>1, <1>2, <2>1 DEF PlaceInv
    <2>6. MatchInv'
      <3>1. ASSUME NEW r \in LineNos, NEW c \in ColNos,
                   r < 0 \/ (r = 0 /\ c < 0) \/ r \notin want.dirty
            PROVE  Match(r, c)'
        <4>1. r \in Nat /\ c \in Nat
          BY Bounds
        <4>2. Match(r, c)
          BY <1>2, <3>1, <4>1
        <4> QED BY <1>3, <2>2, <4>2, MatchStays
      <3> QED BY <1>1, <2>1, <2>2, <3>1 DEF MatchInv
    <2> QED BY <2>4, <2>5, <2>6 DEF DisplayInv
  <1>6. CASE want.dirty = {}
    <2>1. want' = want /\ pc' = "cursor"
      BY <1>6 DEF FindChanges
    <2>2. TypeInv'
      BY <1>1, <1>2, <1>4, <2>1 DEF TypeInv
    <2>3. PlaceInv'
      BY <1>1, <1>2, <2>1 DEF PlaceInv
    <2>4. MatchInv'
      <3>1. ASSUME NEW r \in LineNos, NEW c \in ColNos PROVE Match(r, c)'
        BY <1>2, <1>3, <1>6, <2>1, MatchStays
      <3> QED BY <2>1, <3>1 DEF MatchInv
    <2> QED BY <2>2, <2>3, <2>4 DEF DisplayInv
  <1> QED BY <1>5, <1>6

(* The loops go on to the next line when the one they leave is right.      *)
LEMMA LineFinished ==
    ASSUME DisplayInv, pc = "lines", pc' = "lines", cline < want.nlines,
           cline' = cline + 1, ccol' = 0, UNCHANGED <<want, currpos>>,
           TypeInv', PlaceInv',
           \A r \in LineNos \ {cline} : \A c \in ColNos : Shown'[r][c] = Shown[r][c],
           \A r \in LineNos, c \in ColNos : r = cline => Match(r, c)'
    PROVE  DisplayInv'
  <1>1. cline \in Nat
    BY TypeFacts DEF DisplayInv
  <1>2. ASSUME NEW r \in LineNos, NEW c \in ColNos,
               \/ r < cline + 1 /\ r < want.nlines
               \/ r = cline + 1 /\ c < 0
               \/ r \notin want.dirty
        PROVE  Match(r, c)'
    <2>1. r \in Nat /\ c \in Nat
      BY Bounds
    <2>2. CASE r = cline
      BY <2>2
    <2>3. CASE r # cline
      <3>1. (r < cline /\ r < want.nlines) \/ r \notin want.dirty
        BY <1>1, <1>2, <2>1, <2>3
      <3>2. Match(r, c)
        BY <3>1 DEF DisplayInv, MatchInv
      <3> QED BY <2>3, <3>2, MatchStays
    <2> QED BY <2>2, <2>3
  <1>3. MatchInv'
    BY <1>2 DEF MatchInv
  <1> QED BY <1>3 DEF DisplayInv

LEMMA SkipLineKeeps ==
    ASSUME DisplayInv, SkipLine
    PROVE  DisplayInv'
  <1>1. /\ pc = "lines" /\ cline < want.nlines /\ cline \notin want.dirty
        /\ cline' = cline + 1 /\ ccol' = 0
        /\ UNCHANGED <<want, term, vpos, opline, currpos, pc>>
    BY DEF SkipLine
  <1>2. /\ cline \in Nat /\ want.nlines \in Nat /\ want.nlines <= Lines
        /\ cline + 1 \in 0 .. Lines /\ 0 \in 0 .. Cols /\ cline \in LineNos
        /\ vpos[1] \in Nat
    <2>1. /\ cline \in Nat /\ want.nlines \in Nat /\ want.nlines <= Lines /\ vpos[1] \in LineNos
      BY TypeFacts DEF DisplayInv
    <2>2. Lines \in Nat /\ cline < Lines
      BY <1>1, <2>1, Bounds
    <2> QED BY <2>1, <2>2, Bounds
  <1>3. TypeInv'
    BY <1>1, <1>2 DEF DisplayInv, TypeInv
  <1>4. PlaceInv'
    <2>1. vpos[1] < cline \/ vpos[1] = cline => vpos[1] < cline + 1
      BY <1>2
    <2>2. \A r \in LineNos : Padding(r) => Padding(r)'
      <3>1. \A r \in LineNos : r < cline => r < cline + 1
        BY <1>2, Bounds
      <3> QED BY <1>1, <3>1 DEF Padding
    <2> QED BY <1>1, <2>1, <2>2 DEF DisplayInv, PlaceInv
  <1>5. Shown' = Shown
    BY <1>1 DEF Shown
  <1>6. ASSUME NEW r \in LineNos, NEW c \in ColNos, r = cline PROVE Match(r, c)'
    <2>1. Match(r, c)
      BY <1>1, <1>6 DEF DisplayInv, MatchInv
    <2> QED BY <1>1, <1>5, <2>1, MatchStays
  <1> QED BY <1>1, <1>3, <1>4, <1>5, <1>6, LineFinished

LEMMA SkipCellKeeps ==
    ASSUME DisplayInv, SkipCell
    PROVE  DisplayInv'
  <1>1. /\ pc = "lines" /\ cline < want.nlines /\ ccol < want.maxy[cline]
        /\ Same(want.cells[cline][ccol], term.cells[cline][ccol])
        /\ ccol' = ccol + 1 /\ UNCHANGED <<want, term, vpos, opline, currpos, pc, cline>>
    BY DEF SkipCell, AtCell
  <1>2. TypeInv /\ PlaceInv
    BY DEF DisplayInv
  <1>3. cline \in LineNos /\ ccol \in ColNos /\ ccol \in Nat /\ ccol + 1 \in 0 .. Cols /\ vpos[2] \in Nat
    <2>1. /\ cline \in Nat /\ ccol \in Nat /\ want.nlines \in Nat /\ want.nlines <= Lines
          /\ WantOK(want) /\ vpos[2] \in Nat /\ Lines \in Nat /\ Cols \in Nat
      BY <1>2, TypeFacts, Bounds
    <2>2. cline \in LineNos
      BY <1>1, <2>1, Bounds
    <2>3. want.maxy[cline] \in Nat /\ want.maxy[cline] <= Cols
      BY <2>1, <2>2, WantFields
    <2> QED BY <1>1, <2>1, <2>2, <2>3, Bounds
  <1>4. TypeInv'
    BY <1>1, <1>2, <1>3 DEF TypeInv
  <1>5. PlaceInv'
    <2>1. vpos[2] <= ccol => vpos[2] <= ccol + 1
      BY <1>3
    <2>2. \A r \in LineNos : Padding(r)' <=> Padding(r)
      BY <1>1 DEF Padding
    <2> QED BY <1>1, <1>2, <2>1, <2>2 DEF PlaceInv
  <1>6. Shown' = Shown
    BY <1>1 DEF Shown
  <1>7. Shown[cline][ccol] = want.cells[cline][ccol]
    <2>1. Shown[cline][ccol] = term.cells[cline][ccol]
      <3>1. ccol >= ccol
        BY <1>3
      <3> QED BY <1>2, <1>3, <3>1, NotPending
    <2>2. want.cells[cline][ccol] \in CellType /\ term.cells[cline][ccol] \in CellType
      BY <1>2, <1>3, TypeFacts, WantFields, TermFields
    <2> QED BY <1>1, <2>1, <2>2, SameIsEqual
  <1>8. MatchInv'
    <2>1. ASSUME NEW r \in LineNos, NEW c \in ColNos,
                 \/ r < cline /\ r < want.nlines
                 \/ r = cline /\ c < ccol + 1
                 \/ r \notin want.dirty
          PROVE  Match(r, c)'
      <3>1. CASE r = cline /\ c = ccol
        BY <1>1, <1>6, <1>7, <3>1 DEF Match
      <3>2. CASE ~(r = cline /\ c = ccol)
        <4>1. r = cline /\ c < ccol + 1 => c < ccol
          BY <1>3, <3>2, Bounds
        <4>2. Match(r, c)
          BY <1>1, <2>1, <4>1 DEF DisplayInv, MatchInv
        <4> QED BY <1>1, <1>6, <4>2, MatchStays
      <3> QED BY <3>1, <3>2
    <2> QED BY <1>1, <2>1 DEF MatchInv
  <1> QED BY <1>4, <1>5, <1>8 DEF DisplayInv

(* Where the cell that is to be changed lies.                              *)
LEMMA AtCellFacts ==
    ASSUME DisplayInv, AtCell, ccol < want.maxy[cline]
    PROVE  /\ TypeInv /\ PlaceInv /\ pc = "lines" /\ cline < want.nlines
           /\ cline \in LineNos /\ ccol \in ColNos /\ cline \in Nat /\ ccol \in Nat
           /\ ccol + 1 <= Cols /\ cline \in 0 .. Lines /\ ccol + 1 \in 0 .. Cols
           /\ want.cells[cline][ccol] \in CellType
           /\ <<cline, ccol>> \in LineNos \X (0 .. Cols)
           /\ <<cline, ccol + 1>> \in LineNos \X (0 .. Cols)
  <1>1. TypeInv /\ PlaceInv /\ pc = "lines" /\ cline < want.nlines
    BY DEF DisplayInv, AtCell
  <1>2. /\ cline \in Nat /\ ccol \in Nat /\ want.nlines \in Nat /\ want.nlines <= Lines
        /\ WantOK(want) /\ Lines \in Nat /\ Cols \in Nat
    BY <1>1, TypeFacts, Bounds
  <1>3. cline \in LineNos /\ cline \in 0 .. Lines
    BY <1>1, <1>2, Bounds
  <1>4. want.maxy[cline] \in Nat /\ want.maxy[cline] <= Cols
    BY <1>2, <1>3, WantFields
  <1>5. ccol \in ColNos /\ ccol + 1 <= Cols /\ ccol + 1 \in 0 .. Cols /\ ccol \in 0 .. Cols
    BY <1>2, <1>4, Bounds
  <1> QED BY <1>1, <1>2, <1>3, <1>5, WantFields

(* The terminal when what is pending has been printed and the cursor is    *)
(* at the cell, or the cell follows the pending ones.                      *)
LEMMA ReadyAt ==
    ASSUME DisplayInv, AtCell, ccol < want.maxy[cline]
    PROVE  LET there == IF Moves THEN MovedTo(Flushed, <<cline, ccol>>) ELSE term
               text == IF Moves THEN <<>> ELSE opline
               ready == Printed(there, text)
           IN  /\ TermOK(there) /\ text \in Seq(Chars) /\ there.pen = term.pen
               /\ there.pos = <<cline, there.pos[2]>> /\ there.pos[2] \in Nat
               /\ there.pos[2] + Len(text) = ccol
               /\ TermOK(ready) /\ ready.pos = <<cline, ccol>> /\ ready.cells = Shown
  <1>1. /\ TypeInv /\ PlaceInv /\ pc = "lines"
        /\ cline \in LineNos /\ ccol \in Nat /\ cline \in Nat /\ ccol \in 0 .. Cols
        /\ <<cline, ccol>> \in LineNos \X (0 .. Cols)
    BY AtCellFacts, Bounds
  <1>2. /\ TermOK(term) /\ TermOK(Flushed) /\ Flushed.cells = Shown /\ Flushed.pen = term.pen
        /\ opline \in Seq(Chars) /\ term.pos[2] \in Nat /\ term.pos = <<term.pos[1], term.pos[2]>>
        /\ Flushed.pos = <<term.pos[1], term.pos[2] + Len(opline)>>
    BY <1>1, TypeFacts, FlushedFacts
  <1>3. CASE Moves
    <2> DEFINE there == MovedTo(Flushed, <<cline, ccol>>)
    <2>1. /\ TermOK(there) /\ there.pos = <<cline, ccol>> /\ there.pen = term.pen
          /\ there.cells = Shown
      BY <1>1, <1>2, MovedToFacts
    <2> HIDE DEF there
    <2>2. Printed(there, <<>>) = there
      BY DEF Printed
    <2>3. <<>> \in Seq(Chars) /\ there.pos[2] = ccol /\ ccol + Len(<<>>) = ccol
      BY <1>1, <2>1
    <2> QED BY <1>1, <1>3, <2>1, <2>2, <2>3 DEF there
  <1>4. CASE ~Moves
    <2>1. vpos = <<cline, ccol>>
      BY <1>4 DEF Moves
    <2>2. ~ \E r \in LineNos : Padding(r)
      BY <1>1, <2>1, Bounds DEF Padding
    <2>3. vpos = <<term.pos[1], term.pos[2] + Len(opline)>>
      BY <1>1, <2>2 DEF PlaceInv
    <2>4. term.pos[1] = cline /\ term.pos[2] + Len(opline) = ccol
      BY <2>1, <2>3
    <2>5. Printed(term, opline) = Flushed
      BY DEF Flushed
    <2> QED BY <1>2, <1>4, <2>4, <2>5
  <1> QED BY <1>3, <1>4

LEMMA ChangeCellKeeps ==
    ASSUME DisplayInv, ChangeCell
    PROVE  DisplayInv'
  <1> DEFINE cell == want.cells[cline][ccol]
             there == IF Moves THEN MovedTo(Flushed, <<cline, ccol>>) ELSE term
             text == IF Moves THEN <<>> ELSE opline
             ready == Printed(there, text)
  <1>1. /\ AtCell /\ ccol < want.maxy[cline]
        /\ vpos' = <<cline, ccol + 1>> /\ ccol' = ccol + 1
        /\ UNCHANGED <<want, currpos, pc, cline>>
        /\ IF Recolours(cell.at)
           THEN term' = [ready EXCEPT !.pen = cell.at] /\ opline' = <<cell.ch>>
           ELSE term' = there /\ opline' = Append(text, cell.ch)
    BY DEF ChangeCell
  <1>2. /\ TypeInv /\ PlaceInv /\ pc = "lines" /\ cline < want.nlines
        /\ cline \in LineNos /\ ccol \in ColNos /\ cline \in Nat /\ ccol \in Nat
        /\ ccol + 1 <= Cols /\ cline \in 0 .. Lines /\ ccol + 1 \in 0 .. Cols
        /\ cell \in CellType /\ <<cline, ccol + 1>> \in LineNos \X (0 .. Cols)
    BY <1>1, AtCellFacts
  <1>3. /\ TermOK(there) /\ text \in Seq(Chars) /\ there.pen = term.pen
        /\ there.pos = <<cline, there.pos[2]>> /\ there.pos[2] \in Nat
        /\ there.pos[2] + Len(text) = ccol
        /\ TermOK(ready) /\ ready.pos = <<cline, ccol>> /\ ready.cells = Shown
    BY <1>1, ReadyAt
  <1>4. ready = Printed(there, text)
    OBVIOUS
  <1>5. cell.ch \in Chars /\ cell.at \in Attrs /\ cell = Cell(cell.ch, cell.at)
    BY <1>2 DEF CellType, Cell
  <1>6. term.pen \in Attrs
    BY <1>2, TypeFacts, TermFields
  <1> HIDE DEF cell, there, text, ready
  \* Where what is pending now lies, and what it shows.
  <1>7. /\ TermOK(term)' /\ opline' \in Seq(Chars) /\ opline' # <<>>
        /\ term'.pos = <<cline, term'.pos[2]>>
        /\ term'.pos[2] + Len(opline') = ccol + 1
        /\ \A r \in LineNos, c \in ColNos :
              Shown'[r][c] = IF r = cline /\ c = ccol THEN cell ELSE Shown[r][c]
    <2>1. CASE Recolours(cell.at)
      <3>1. term' = [ready EXCEPT !.pen = cell.at] /\ opline' = <<cell.ch>>
        BY <1>1, <2>1
      <3>2. TermOK(term') /\ term'.pos = <<cline, ccol>> /\ term'.pen = cell.at /\ term'.cells = Shown
        BY <1>3, <1>5, <3>1, PenFacts
      <3>3. /\ opline' \in Seq(Chars) /\ Len(opline') = 1 /\ opline'[1] = cell.ch /\ opline' # <<>>
        BY <1>5, <3>1
      <3>4. term'.pos[1] = cline /\ term'.pos[2] = ccol /\ term'.pos[2] + Len(opline') <= Cols
        BY <1>2, <3>2, <3>3
      <3>5. \A r \in LineNos, c \in ColNos :
               Printed(term', opline').cells[r][c] =
                  IF r = cline /\ c >= ccol /\ c < ccol + 1
                  THEN Cell(opline'[c - ccol + 1], cell.at) ELSE Shown[r][c]
        <4>1. \A r \in LineNos, c \in ColNos :
                 Printed(term', opline').cells[r][c] =
                    IF r = term'.pos[1] /\ c >= term'.pos[2] /\ c < term'.pos[2] + Len(opline')
                    THEN Cell(opline'[c - term'.pos[2] + 1], term'.pen) ELSE term'.cells[r][c]
          BY <3>2, <3>3, <3>4, PrintedFacts
        <4> QED BY <3>2, <3>3, <3>4, <4>1
      <3>6. \A c \in ColNos : c >= ccol /\ c < ccol + 1 <=> c = ccol
        BY <1>2, Bounds
      <3>7. ccol - ccol + 1 = 1
        BY <1>2
      <3>8. \A r \in LineNos, c \in ColNos :
               Shown'[r][c] = IF r = cline /\ c = ccol THEN cell ELSE Shown[r][c]
        BY <1>5, <3>3, <3>5, <3>6, <3>7 DEF Shown
      <3>9. TermOK(term)'
        BY <3>2 DEF TermOK, BlankBeyond
      <3> QED BY <3>2, <3>3, <3>4, <3>8, <3>9
    <2>2. CASE ~Recolours(cell.at)
      <3>1. term' = there /\ opline' = Append(text, cell.ch)
        BY <1>1, <2>2
      <3>2. cell.at = term.pen
        BY <1>5, <1>6, <2>2, EquivIsEqual DEF Recolours
      <3>3. there.pos[2] + Len(text) + 1 <= Cols /\ there.pos[1] = cline
        BY <1>2, <1>3
      <3>4. /\ opline' \in Seq(Chars) /\ Len(opline') = Len(text) + 1
            /\ \A r \in LineNos, c \in ColNos :
                  Printed(term', opline').cells[r][c] =
                     IF r = cline /\ c = ccol THEN Cell(cell.ch, term.pen) ELSE Shown[r][c]
        <4>1. /\ Append(text, cell.ch) \in Seq(Chars) /\ Len(Append(text, cell.ch)) = Len(text) + 1
              /\ \A r \in LineNos, c \in ColNos :
                    Printed(there, Append(text, cell.ch)).cells[r][c] =
                       IF r = there.pos[1] /\ c = there.pos[2] + Len(text)
                       THEN Cell(cell.ch, there.pen) ELSE Printed(there, text).cells[r][c]
          BY <1>3, <1>5, <3>3, PrintedMore
        <4> QED BY <1>3, <1>4, <3>1, <3>3, <4>1
      <3>5. \A r \in LineNos, c \in ColNos :
               Shown'[r][c] = IF r = cline /\ c = ccol THEN cell ELSE Shown[r][c]
        BY <1>5, <3>2, <3>4 DEF Shown
      <3>6. opline' # <<>> /\ term'.pos[2] + Len(opline') = ccol + 1
        <4>1. Len(text) \in Nat /\ Len(opline') # 0
          BY <1>3, <3>4
        <4> QED BY <1>2, <1>3, <3>1, <3>4, <4>1
      <3>7. TermOK(term)'
        BY <1>3, <3>1 DEF TermOK, BlankBeyond
      <3> QED BY <1>3, <3>1, <3>4, <3>5, <3>6, <3>7
    <2> QED BY <2>1, <2>2
  <1>8. TypeInv'
    <2>1. WantOK(want)'
      BY <1>1, <1>2 DEF TypeInv, WantOK, BlankBeyond
    <2> QED BY <1>1, <1>2, <1>7, <2>1 DEF TypeInv
  <1>9. PlaceInv'
    <2>1. vpos'[1] = cline' /\ vpos'[2] = ccol' /\ vpos'[2] <= ccol' /\ vpos'[1] < want'.nlines
      BY <1>1, <1>2
    <2>2. vpos' = <<term'.pos[1], term'.pos[2] + Len(opline')>>
      <3>1. term'.pos[1] = cline
        BY <1>7
      <3> QED BY <1>1, <1>7, <3>1
    <2> QED BY <1>1, <1>2, <2>1, <2>2 DEF PlaceInv
  <1>10. MatchInv'
    <2>1. ASSUME NEW r \in LineNos, NEW c \in ColNos,
                 \/ r < cline /\ r < want.nlines
                 \/ r = cline /\ c < ccol + 1
                 \/ r \notin want.dirty
          PROVE  Match(r, c)'
      <3>1. CASE r = cline /\ c = ccol
        BY <1>1, <1>7, <3>1 DEF Match, cell
      <3>2. CASE ~(r = cline /\ c = ccol)
        <4>1. r = cline /\ c < ccol + 1 => c < ccol
          BY <1>2, <3>2, Bounds
        <4>2. Match(r, c)
          BY <1>2, <2>1, <4>1 DEF DisplayInv, MatchInv
        <4> QED BY <1>1, <1>7, <3>2, <4>2, MatchStays
      <3> QED BY <3>1, <3>2
    <2> QED BY <1>1, <1>2, <2>1 DEF MatchInv
  <1> QED BY <1>8, <1>9, <1>10 DEF DisplayInv

(* A line the loop stands behind: its end is a place on the screen.        *)
LEMMA EndFacts ==
    ASSUME DisplayInv, EndsThere
    PROVE  /\ TypeInv /\ PlaceInv /\ pc = "lines" /\ cline < want.nlines
           /\ cline \in LineNos /\ cline \in Nat /\ cline + 1 \in 0 .. Lines /\ ccol \in Nat
           /\ want.maxy[cline] \in Nat /\ want.maxy[cline] <= Cols /\ want.maxy[cline] <= ccol
           /\ <<cline, want.maxy[cline]>> \in LineNos \X (0 .. Cols)
           /\ \A r \in LineNos, c \in ColNos : r = cline /\ c < want.maxy[cline] => Match(r, c)
  <1>1. TypeInv /\ PlaceInv /\ pc = "lines" /\ cline < want.nlines /\ ccol >= want.maxy[cline]
    BY DEF DisplayInv, EndsThere, AtCell
  <1>2. /\ cline \in Nat /\ ccol \in Nat /\ want.nlines \in Nat /\ want.nlines <= Lines
        /\ WantOK(want) /\ Lines \in Nat /\ Cols \in Nat
    BY <1>1, TypeFacts, Bounds
  <1>3. cline \in LineNos /\ cline + 1 \in 0 .. Lines
    BY <1>1, <1>2, Bounds
  <1>4. want.maxy[cline] \in Nat /\ want.maxy[cline] <= Cols
    BY <1>2, <1>3, WantFields
  <1>5. want.maxy[cline] \in 0 .. Cols /\ want.maxy[cline] <= ccol
    BY <1>1, <1>2, <1>4
  <1>6. ASSUME NEW r \in LineNos, NEW c \in ColNos, r = cline, c < want.maxy[cline]
        PROVE  Match(r, c)
    <2>1. c < ccol
      BY <1>2, <1>4, <1>5, <1>6, Bounds
    <2> QED BY <1>1, <1>6, <2>1 DEF DisplayInv, MatchInv
  <1> QED BY <1>1, <1>2, <1>3, <1>4, <1>5, <1>6

LEMMA LineDoneKeeps ==
    ASSUME DisplayInv, LineDone
    PROVE  DisplayInv'
  <1>1. /\ EndsThere /\ term.maxy[cline] <= want.maxy[cline]
        /\ cline' = cline + 1 /\ ccol' = 0
        /\ UNCHANGED <<want, term, vpos, opline, currpos, pc>>
    BY DEF LineDone
  <1>2. /\ TypeInv /\ PlaceInv /\ pc = "lines" /\ cline < want.nlines
        /\ cline \in LineNos /\ cline \in Nat /\ cline + 1 \in 0 .. Lines /\ ccol \in Nat
        /\ want.maxy[cline] \in Nat /\ want.maxy[cline] <= ccol
    BY <1>1, EndFacts
  <1>3. TypeInv'
    BY <1>1, <1>2, Bounds DEF TypeInv
  <1>4. PlaceInv'
    <2>1. vpos[1] \in Nat
      BY <1>2, TypeFacts, Bounds
    <2>2. vpos[1] < cline \/ vpos[1] = cline => vpos[1] < cline + 1
      BY <1>2, <2>1
    <2>3. \A r \in LineNos : Padding(r) => Padding(r)'
      <3>1. \A r \in LineNos : r < cline => r < cline + 1
        BY <1>2, Bounds
      <3> QED BY <1>1, <3>1 DEF Padding
    <2> QED BY <1>1, <1>2, <2>2, <2>3 DEF PlaceInv
  <1>5. Shown' = Shown
    BY <1>1 DEF Shown
  <1>6. ASSUME NEW r \in LineNos, NEW c \in ColNos, r = cline PROVE Match(r, c)'
    <2>1. c \in Nat /\ term.maxy[r] \in Nat
      <3>1. term.maxy[r] \in 0 .. Cols
        BY <1>2, TypeFacts, TermFields
      <3> QED BY <3>1, Bounds
    <2>2. CASE c < want.maxy[r]
      BY <1>1, <1>5, <1>6, <2>2, EndFacts, MatchStays
    <2>3. CASE ~(c < want.maxy[r])
      <3>1. c >= want.maxy[r] /\ c >= term.maxy[r]
        BY <1>1, <1>2, <1>6, <2>1, <2>3
      <3>2. want.cells[r][c] = BlankCell /\ term.cells[r][c] = BlankCell
        BY <1>2, <3>1, WantBlank, TermBlank
      <3>3. CASE c < ccol
        <4>1. Match(r, c)
          BY <1>2, <1>6, <3>3 DEF DisplayInv, MatchInv
        <4> QED BY <1>1, <1>5, <4>1, MatchStays
      <3>4. CASE ~(c < ccol)
        <4>1. c >= ccol
          BY <1>2, <2>1, <3>4
        <4>2. Shown[r][c] = term.cells[r][c]
          BY <1>2, <1>6, <4>1, NotPending
        <4> QED BY <1>1, <1>5, <3>2, <4>2 DEF Match
      <3> QED BY <3>3, <3>4
    <2> QED BY <2>2, <2>3
  <1> QED BY <1>1, <1>2, <1>3, <1>4, <1>5, <1>6, LineFinished

LEMMA ClearRestKeeps ==
    ASSUME DisplayInv, ClearRest
    PROVE  DisplayInv'
  <1> DEFINE end == <<cline, want.maxy[cline]>>
             moved == IF vpos = end THEN Flushed ELSE MovedTo(Flushed, end)
             t == Reset(moved)
  <1>1. /\ EndsThere /\ term.maxy[cline] > want.maxy[cline]
        /\ opline' = <<>> /\ vpos' = end
        /\ term' = IF cline \in GraphRows THEN Padded(t) ELSE ClearedToEnd(t)
        /\ cline' = cline + 1 /\ ccol' = 0 /\ UNCHANGED <<want, currpos, pc>>
    BY DEF ClearRest
  <1>2. /\ TypeInv /\ PlaceInv /\ pc = "lines" /\ cline < want.nlines
        /\ cline \in LineNos /\ cline \in Nat /\ cline + 1 \in 0 .. Lines /\ ccol \in Nat
        /\ want.maxy[cline] \in Nat /\ want.maxy[cline] <= Cols /\ want.maxy[cline] <= ccol
        /\ end \in LineNos \X (0 .. Cols)
    BY <1>1, EndFacts
  <1>3. PICK m : m = want.maxy[cline]
    OBVIOUS
  <1>4. /\ TermOK(t) /\ t.pen = 0 /\ t.cells = Shown /\ t.pos[1] = cline /\ t.pos[2] = m
        /\ t.nlines >= term.nlines
    <2>1. TermOK(Flushed) /\ Flushed.cells = Shown /\ Flushed.nlines >= term.nlines
      BY <1>2, FlushedFacts
    <2>2. /\ TermOK(moved) /\ moved.pos = end /\ moved.cells = Shown
          /\ moved.nlines = Flushed.nlines
      <3>1. CASE vpos # end
        <4>1. moved = MovedTo(Flushed, end)
          BY <3>1
        <4> HIDE DEF moved
        <4> QED BY <1>2, <2>1, <4>1, MovedToFacts
      <3>2. CASE vpos = end
        <4>1. moved = Flushed
          BY <3>2
        <4>2. \A r \in LineNos : ~Padding(r)
          <5>1. SUFFICES ASSUME NEW r \in LineNos, r < cline, vpos = <<r, want.maxy[r]>> PROVE FALSE
            BY DEF Padding
          <5>2. r = cline
            BY <3>2, <5>1
          <5> QED BY <1>2, <5>1, <5>2
        <4>3. Flushed.pos = vpos
          BY <1>2, <4>2, FlushedFacts DEF PlaceInv
        <4> HIDE DEF moved
        <4> QED BY <2>1, <3>2, <4>1, <4>3
      <3> QED BY <3>1, <3>2
    <2> HIDE DEF moved
    <2>3. /\ TermOK(t) /\ t.pen = 0 /\ t.cells = Shown /\ t.pos = end /\ t.nlines = Flushed.nlines
      BY <2>2, ResetFacts
    <2> HIDE DEF t
    <2> QED BY <1>3, <2>1, <2>3
  <1>5. cline < t.nlines
    <2>1. term.maxy[cline] \in 0 .. Cols /\ term.nlines \in 0 .. Lines /\ t.nlines \in 0 .. Lines
      BY <1>2, <1>4, TypeFacts, TermFields
    <2>2. term.maxy[cline] # 0
      BY <1>1, <1>2, <2>1
    <2>3. ~(cline >= term.nlines)
      BY <1>2, <2>2 DEF TypeInv, TermOK, BlankBeyond
    <2> HIDE DEF t
    <2> QED BY <1>2, <1>4, <2>1, <2>3, Bounds
  <1> HIDE DEF moved, t
  <1>6. GraphCol \in Nat /\ GraphCol <= Cols /\ Cols \in Nat /\ m \in Nat /\ m <= Cols
    BY <1>2, <1>3, Bounds
  <1>7. /\ TermOK(term')
        /\ \A r \in LineNos \ {cline} : \A c \in ColNos : term'.cells[r][c] = Shown[r][c]
        /\ \A r \in LineNos, c \in ColNos :
              r = cline /\ c < m => term'.cells[r][c] = Shown[r][c]
        /\ \A r \in LineNos, c \in ColNos :
              r = cline /\ c >= m /\ ~Graph(r, c) => term'.cells[r][c] = BlankCell
        /\ \/ term'.pos = end
           \/ cline \in GraphRows /\ m < GraphCol /\ term'.pos = <<cline, GraphCol>>
    <2>1. CASE cline \in GraphRows
      <3>1. term' = Padded(t)
        BY <1>1, <2>1
      <3>2. /\ TermOK(term')
            /\ term'.pos = <<cline, IF GraphCol > m THEN GraphCol ELSE m>>
            /\ \A r \in LineNos, c \in ColNos :
                  term'.cells[r][c] = IF r = cline /\ c >= m /\ c < GraphCol THEN BlankCell
                                      ELSE Shown[r][c]
        BY <1>4, <3>1, PaddedFacts
      <3>3. \A c \in ColNos : /\ c < m => ~(c >= m)
                              /\ ~(c < GraphCol) => c >= GraphCol
        BY <1>6, Bounds
      <3> QED BY <1>3, <1>6, <2>1, <3>2, <3>3 DEF Graph
    <2>2. CASE cline \notin GraphRows
      <3>1. term' = ClearedToEnd(t)
        BY <1>1, <2>2
      <3>2. /\ TermOK(term') /\ term'.pos = t.pos
            /\ \A r \in LineNos, c \in ColNos :
                  term'.cells[r][c] = IF r = cline /\ c >= m THEN BlankCell ELSE Shown[r][c]
        BY <1>4, <1>5, <3>1, ClearedToEndFacts
      <3>3. \A c \in ColNos : c < m => ~(c >= m)
        BY <1>6, Bounds
      <3>4. t.pos = end
        BY <1>3, <1>4, TermFields
      <3> QED BY <3>2, <3>3, <3>4
    <2> QED BY <2>1, <2>2
  <1>8. Shown' = term'.cells
    BY <1>1 DEF Shown, Printed
  <1>9. TypeInv'
    <2>1. TermOK(term)' /\ WantOK(want)'
      BY <1>1, <1>2, <1>7 DEF TypeInv, TermOK, WantOK, BlankBeyond
    <2>2. opline' \in Seq(Chars) /\ term'.pos[2] + Len(opline') <= Cols
      <3>1. Len(opline') = 0 /\ opline' \in Seq(Chars)
        BY <1>1
      <3>2. term'.pos[2] = m \/ term'.pos[2] = GraphCol
        BY <1>3, <1>7
      <3> QED BY <1>6, <3>1, <3>2
    <2> QED BY <1>1, <1>2, <2>1, <2>2, Bounds DEF TypeInv
  <1>10. PlaceInv'
    <2>1. CASE term'.pos = end
      <3>1. m + Len(opline') = m
        BY <1>1, <1>6
      <3>2. vpos' = <<term'.pos[1], term'.pos[2] + Len(opline')>>
        BY <1>1, <1>3, <2>1, <3>1
      <3> QED BY <1>1, <1>2, <3>2 DEF PlaceInv
    <2>2. CASE cline \in GraphRows /\ m < GraphCol /\ term'.pos = <<cline, GraphCol>>
      <3>1. PICK r \in LineNos : r = cline
        BY <1>2
      <3>2. r < cline'
        BY <1>1, <1>2, <3>1
      <3>3. Padding(r)'
        BY <1>1, <1>2, <1>3, <2>2, <3>1, <3>2 DEF Padding
      <3> QED BY <1>1, <1>2, <3>3 DEF PlaceInv
    <2> QED BY <1>7, <2>1, <2>2
  <1>11. ASSUME NEW r \in LineNos, NEW c \in ColNos, r = cline PROVE Match(r, c)'
    <2>1. CASE c < m
      <3>1. Match(r, c)
        BY <1>1, <1>3, <1>11, <2>1, EndFacts
      <3> QED BY <1>1, <1>7, <1>8, <1>11, <2>1, <3>1, MatchStays
    <2>2. CASE ~(c < m)
      <3>1. c >= m
        BY <1>6, <2>2, Bounds
      <3>2. want.cells[r][c] = BlankCell
        BY <1>2, <1>3, <1>11, <3>1, WantBlank
      <3>3. ~Graph(r, c) => Shown'[r][c] = BlankCell
        BY <1>7, <1>8, <1>11, <3>1
      <3> QED BY <1>1, <3>2, <3>3 DEF Match, Graph
    <2> QED BY <2>1, <2>2
  <1>12. \A r \in LineNos \ {cline} : \A c \in ColNos : Shown'[r][c] = Shown[r][c]
    BY <1>7, <1>8
  <1> QED BY <1>1, <1>2, <1>9, <1>10, <1>11, <1>12, LineFinished

LEMMA ClearBelowKeeps ==
    ASSUME DisplayInv, ClearBelow
    PROVE  DisplayInv'
  <1> DEFINE end == IF want.nlines = 0 THEN <<0, 0>>
                    ELSE <<want.nlines - 1, want.maxy[want.nlines - 1]>>
             t == Reset(Flushed)
             b == IF vpos = end /\ want.nlines # 0 THEN t ELSE MovedTo(t, end)
  <1>1. /\ pc = "lines" /\ cline >= want.nlines /\ pc' = "rest"
        /\ UNCHANGED <<want, currpos, cline, ccol>>
    BY DEF ClearBelow, loop
  <1>2. TypeInv /\ PlaceInv
    BY DEF DisplayInv
  <1>3. /\ want.nlines \in Nat /\ want.nlines <= Lines /\ cline \in Nat /\ WantOK(want)
        /\ Lines \in Nat /\ Cols \in Nat
    BY <1>2, TypeFacts, Bounds
  \* The lines the loop went through are right.
  <1>4. ASSUME NEW r \in LineNos, NEW c \in ColNos, r < want.nlines PROVE Match(r, c)
    <2>1. r < cline
      BY <1>1, <1>3, <1>4, Bounds
    <2> QED BY <1>1, <1>4, <2>1 DEF DisplayInv, MatchInv
  <1>5. CASE term.nlines > want.nlines
    <2>1. /\ term' = ClearedToBottom(b) /\ vpos' = end /\ opline' = <<>>
      BY <1>5 DEF ClearBelow
    <2>2. PICK p, q : end = <<p, q>>
      OBVIOUS
    <2>3. /\ p \in LineNos /\ q \in 0 .. Cols /\ p \in Nat /\ q \in Nat /\ end \in LineNos \X (0 .. Cols)
          /\ want.nlines = 0 => p = 0 /\ q = 0
          /\ want.nlines # 0 => p = want.nlines - 1 /\ q = want.maxy[p]
      <3>1. CASE want.nlines = 0
        BY <2>2, <3>1, Bounds
      <3>2. CASE want.nlines # 0
        <4>1. p = want.nlines - 1 /\ q = want.maxy[p]
          BY <2>2, <3>2
        <4>2. p \in Nat /\ p < Lines
          BY <1>3, <3>2, <4>1
        <4>3. p \in LineNos
          BY <4>2, Bounds
        <4>4. q \in Nat /\ q <= Cols
          BY <1>3, <4>1, <4>3, WantFields
        <4>5. q \in 0 .. Cols
          BY <1>3, <4>4
        <4> QED BY <2>2, <3>2, <4>1, <4>2, <4>3, <4>4, <4>5
      <3> QED BY <3>1, <3>2
    <2>4. /\ TermOK(t) /\ t.cells = Shown
          /\ t.pos = <<term.pos[1], term.pos[2] + Len(opline)>>
      <3>1. /\ TermOK(Flushed) /\ Flushed.cells = Shown
            /\ Flushed.pos = <<term.pos[1], term.pos[2] + Len(opline)>>
        BY <1>2, FlushedFacts
      <3> QED BY <3>1, ResetFacts
    <2> HIDE DEF t
    <2>5. /\ TermOK(b) /\ b.cells = Shown
          /\ \/ b.pos = end
             \/ \E r \in LineNos : /\ Padding(r) /\ want.nlines # 0 /\ r = p
                                   /\ b.pos = <<r, GraphCol>> /\ vpos = end
      <3>1. CASE vpos = end /\ want.nlines # 0
        <4>1. b = t
          BY <3>1
        <4>2. CASE vpos = <<term.pos[1], term.pos[2] + Len(opline)>>
          BY <2>4, <3>1, <4>1, <4>2
        <4>3. CASE opline = <<>> /\ \E r \in LineNos : Padding(r)
          <5>1. PICK r \in LineNos : Padding(r)
            BY <4>3
          <5>2. vpos = <<r, want.maxy[r]>> /\ term.pos = <<r, GraphCol>>
            BY <5>1 DEF Padding
          <5>3. r = p
            BY <2>2, <3>1, <5>2
          <5>4. term.pos[2] + Len(opline) = GraphCol /\ term.pos[1] = r
            <6>1. GraphCol \in Nat /\ Len(opline) = 0
              BY <4>3, Bounds
            <6> QED BY <5>2, <6>1
          <5> QED BY <2>4, <3>1, <4>1, <5>1, <5>3, <5>4
        <4> QED BY <1>2, <4>2, <4>3 DEF PlaceInv
      <3>2. CASE ~(vpos = end /\ want.nlines # 0)
        <4>1. b = MovedTo(t, end)
          BY <3>2
        <4> HIDE DEF b, end
        <4> QED BY <2>3, <2>4, <4>1, MovedToFacts
      <3> QED BY <3>1, <3>2
    <2> HIDE DEF b, end
    <2>6. PICK bq : bq = b.pos[2]
      OBVIOUS
    <2>7. /\ b.pos[1] = p /\ bq \in Nat /\ bq >= q /\ bq <= Cols
          /\ want.nlines = 0 => bq = 0
      <3>1. CASE b.pos = end
        <4>1. b.pos[1] = p /\ bq = q
          BY <2>2, <2>6, <3>1
        <4> QED BY <1>3, <2>3, <4>1
      <3>2. CASE \E r \in LineNos : /\ Padding(r) /\ want.nlines # 0 /\ r = p
                                    /\ b.pos = <<r, GraphCol>> /\ vpos = end
        <4>1. b.pos = <<p, GraphCol>> /\ want.nlines # 0 /\ want.maxy[p] < GraphCol
          BY <3>2 DEF Padding
        <4>2. b.pos[1] = p /\ bq = GraphCol /\ q < GraphCol
          BY <2>3, <2>6, <4>1
        <4> QED BY <2>3, <4>1, <4>2, Bounds
      <3> QED BY <2>5, <3>1, <3>2
    <2>8. /\ TermOK(term') /\ term'.pos = b.pos
          /\ \A r \in LineNos, c \in ColNos :
                term'.cells[r][c] = IF r > p \/ (r = p /\ c >= bq) THEN BlankCell ELSE Shown[r][c]
      <3>1. /\ TermOK(term') /\ term'.pos = b.pos
            /\ \A r \in LineNos, c \in ColNos :
                  term'.cells[r][c] = IF r > b.pos[1] \/ (r = b.pos[1] /\ c >= b.pos[2])
                                      THEN BlankCell ELSE b.cells[r][c]
        BY <2>1, <2>5, ClearedToBottomFacts
      <3> QED BY <2>5, <2>6, <2>7, <3>1
    <2>9. Shown' = term'.cells
      BY <2>1 DEF Shown, Printed
    <2>10. TypeInv'
      <3>1. TermOK(term)' /\ WantOK(want)'
        BY <1>1, <1>2, <2>8 DEF TypeInv, TermOK, WantOK, BlankBeyond
      <3>2. opline' \in Seq(Chars) /\ term'.pos[2] + Len(opline') <= Cols
        <4>1. Len(opline') = 0 /\ opline' \in Seq(Chars)
          BY <2>1
        <4> QED BY <1>3, <2>6, <2>7, <2>8, <4>1
      <3> QED BY <1>1, <1>2, <2>1, <2>3, <3>1, <3>2 DEF TypeInv
    <2>11. PlaceInv'
      <3>1. CASE b.pos = end
        <4>1. Len(opline') = 0 /\ q + Len(opline') = q
          BY <2>1, <2>3
        <4>2. vpos' = <<term'.pos[1], term'.pos[2] + Len(opline')>>
          BY <2>1, <2>2, <2>8, <3>1, <4>1
        <4> QED BY <1>1, <2>1, <4>2 DEF PlaceInv
      <3>2. CASE \E r \in LineNos : /\ Padding(r) /\ want.nlines # 0 /\ r = p
                                    /\ b.pos = <<r, GraphCol>> /\ vpos = end
        <4>1. PICK r \in LineNos : Padding(r) /\ b.pos = <<r, GraphCol>> /\ vpos = end
          BY <3>2
        <4>2. Padding(r)'
          BY <1>1, <2>1, <2>8, <4>1 DEF Padding
        <4> QED BY <1>1, <2>1, <4>2 DEF PlaceInv
      <3> QED BY <2>5, <3>1, <3>2
    <2>12. ASSUME NEW r \in LineNos, NEW c \in ColNos PROVE Match(r, c)'
      <3>1. r \in Nat /\ c \in Nat
        BY Bounds
      <3>2. CASE r > p \/ (r = p /\ c >= bq)
        <4>1. r >= want.nlines \/ c >= want.maxy[r]
          <5>1. CASE want.nlines = 0
            BY <3>1, <5>1
          <5>2. CASE want.nlines # 0
            <6>1. r > p => r >= want.nlines
              BY <1>3, <2>3, <3>1, <5>2
            <6>2. r = p /\ c >= bq => c >= want.maxy[r]
              BY <2>3, <2>7, <3>1, <5>2
            <6> QED BY <3>2, <6>1, <6>2
          <5> QED BY <5>1, <5>2
        <4>2. want.cells[r][c] = BlankCell
          BY <1>2, <4>1, WantBlank
        <4>3. Shown'[r][c] = BlankCell
          BY <2>8, <2>9, <3>2
        <4> QED BY <1>1, <4>2, <4>3 DEF Match
      <3>3. CASE ~(r > p \/ (r = p /\ c >= bq))
        <4>1. r < want.nlines
          <5>1. want.nlines # 0
            BY <2>3, <2>7, <3>1, <3>3
          <5> QED BY <1>3, <2>3, <3>1, <3>3, <5>1
        <4>2. Match(r, c)
          BY <1>4, <4>1
        <4> QED BY <1>1, <2>8, <2>9, <3>3, <4>2, MatchStays
      <3> QED BY <3>2, <3>3
    <2>13. MatchInv'
      BY <1>1, <2>12 DEF MatchInv
    <2> QED BY <2>10, <2>11, <2>13 DEF DisplayInv
  <1>6. CASE ~(term.nlines > want.nlines)
    <2>1. UNCHANGED <<term, vpos, opline>>
      BY <1>6 DEF ClearBelow
    <2>2. TypeInv'
      BY <1>1, <1>2, <2>1 DEF TypeInv
    <2>3. PlaceInv'
      <3>1. \A r \in LineNos : Padding(r)' <=> Padding(r)
        BY <1>1, <2>1 DEF Padding
      <3> QED BY <1>1, <1>2, <2>1, <3>1 DEF PlaceInv
    <2>4. Shown' = Shown
      BY <2>1 DEF Shown
    <2>5. ASSUME NEW r \in LineNos, NEW c \in ColNos PROVE Match(r, c)'
      <3>1. CASE r < want.nlines
        BY <1>1, <1>4, <2>4, <3>1, MatchStays
      <3>2. CASE ~(r < want.nlines)
        <4>1. r \in Nat /\ term.nlines \in Nat
          <5>1. term.nlines \in 0 .. Lines
            BY <1>2, TypeFacts, TermFields
          <5> QED BY <5>1, Bounds
        <4>2. r >= want.nlines /\ r >= term.nlines
          BY <1>3, <1>6, <3>2, <4>1
        <4>3. want.cells[r][c] = BlankCell /\ term.cells[r][c] = BlankCell
          BY <1>2, <4>2, WantBlank, TermBlank
        <4>4. Shown[r][c] = term.cells[r][c]
          <5> SUFFICES ASSUME Shown[r][c] # term.cells[r][c] PROVE FALSE
            OBVIOUS
          <5>1. opline # <<>> /\ r = term.pos[1]
            BY <1>2, FlushedFacts
          <5>2. vpos[1] = r /\ vpos[1] < want.nlines
            BY <1>2, <5>1 DEF PlaceInv
          <5> QED BY <3>2, <5>2
        <4> QED BY <1>1, <2>4, <4>3, <4>4 DEF Match
      <3> QED BY <3>1, <3>2
    <2>6. MatchInv'
      BY <1>1, <2>5 DEF MatchInv
    <2> QED BY <2>2, <2>3, <2>6 DEF DisplayInv
  <1> QED BY <1>5, <1>6

LEMMA PrintRestKeeps ==
    ASSUME DisplayInv, PrintRest
    PROVE  DisplayInv'
  <1>1. /\ pc = "rest" /\ pc' = "cursor" /\ term' = Reset(Flushed) /\ opline' = <<>>
        /\ UNCHANGED <<want, vpos, currpos, cline, ccol>>
    BY DEF PrintRest, loop
  <1>2. TypeInv /\ PlaceInv
    BY DEF DisplayInv
  <1>3. /\ TermOK(Flushed) /\ Flushed.cells = Shown
        /\ Flushed.pos = <<term.pos[1], term.pos[2] + Len(opline)>>
    BY <1>2, FlushedFacts
  <1>4. TermOK(term') /\ term'.pos = Flushed.pos /\ term'.cells = Shown
    BY <1>1, <1>3, ResetFacts
  <1>5. term.pos[2] + Len(opline) <= Cols /\ term.pos[2] + Len(opline) \in Nat
    BY <1>2, TypeFacts
  <1>6. /\ opline' \in Seq(Chars) /\ Len(opline') = 0
        /\ term'.pos[1] = term.pos[1] /\ term'.pos[2] = term.pos[2] + Len(opline)
        /\ term'.pos[2] + Len(opline') = term.pos[2] + Len(opline)
    BY <1>1, <1>3, <1>4, <1>5
  <1>7. TypeInv'
    <2>1. TermOK(term)' /\ WantOK(want)'
      BY <1>1, <1>2, <1>4 DEF TypeInv, TermOK, WantOK, BlankBeyond
    <2> QED BY <1>1, <1>2, <1>5, <1>6, <2>1 DEF TypeInv
  <1>8. PlaceInv'
    <2>1. CASE vpos = <<term.pos[1], term.pos[2] + Len(opline)>>
      BY <1>1, <1>6, <2>1 DEF PlaceInv
    <2>2. CASE opline = <<>> /\ \E r \in LineNos : Padding(r)
      <3>1. PICK r \in LineNos : Padding(r)
        BY <2>2
      <3>2. term'.pos = term.pos
        BY <1>2, <1>4, <2>2, FlushedFacts
      <3>3. Padding(r)'
        BY <1>1, <3>1, <3>2 DEF Padding
      <3> QED BY <1>1, <3>3 DEF PlaceInv
    <2> QED BY <1>2, <2>1, <2>2 DEF PlaceInv
  <1>9. Shown' = Shown
    BY <1>1, <1>4 DEF Shown, Printed
  <1>10. MatchInv'
    <2>1. ASSUME NEW r \in LineNos, NEW c \in ColNos PROVE Match(r, c)'
      <3>1. Match(r, c)
        BY <1>1 DEF DisplayInv, MatchInv
      <3> QED BY <1>1, <1>9, <3>1, MatchStays
    <2> QED BY <1>1, <2>1 DEF MatchInv
  <1> QED BY <1>7, <1>8, <1>10 DEF DisplayInv

LEMMA PlaceCursorKeeps ==
    ASSUME DisplayInv, CursorOffEnds, PlaceCursor
    PROVE  DisplayInv'
  <1>1. /\ pc = "cursor" /\ pc' = "idle" /\ cline' = 0 /\ ccol' = 0
        /\ term' = IF Places THEN MovedTo(term, currpos) ELSE term
        /\ vpos' = currpos /\ want' = [want EXCEPT !.dirty = {}]
        /\ UNCHANGED <<opline, currpos>>
    BY DEF PlaceCursor
  <1>2. TypeInv /\ PlaceInv /\ opline = <<>> /\ TermOK(term) /\ WantOK(want)
    BY <1>1 DEF DisplayInv, PlaceInv, TypeInv
  <1>3. /\ currpos \in LineNos \X ColNos /\ currpos \in LineNos \X (0 .. Cols)
        /\ currpos = <<currpos[1], currpos[2]>> /\ currpos[2] \in Nat /\ currpos[2] <= Cols
    <2>1. currpos \in LineNos \X ColNos
      BY <1>2 DEF TypeInv
    <2>2. currpos[1] \in LineNos /\ currpos[2] \in Nat /\ currpos[2] + 1 <= Cols /\ Cols \in Nat
      BY <2>1, Bounds
    <2>3. currpos[2] \in 0 .. Cols /\ currpos[2] <= Cols
      BY <2>2
    <2> QED BY <2>1, <2>2, <2>3
  <1>4. TermOK(term') /\ term'.pos = currpos /\ term'.cells = term.cells
    <2>1. CASE Places
      BY <1>1, <1>2, <1>3, <2>1, MovedToFacts
    <2>2. CASE ~Places
      <3>1. vpos = currpos /\ term' = term
        BY <1>1, <2>2 DEF Places
      <3>2. ~ \E r \in LineNos : Padding(r)
        <4> SUFFICES ASSUME NEW r \in LineNos, Padding(r) PROVE FALSE
          OBVIOUS
        <4> QED BY <1>1, <3>1 DEF Padding, CursorOffEnds
      <3>3. vpos = <<term.pos[1], term.pos[2] + Len(opline)>>
        BY <1>2, <3>2 DEF PlaceInv
      <3>4. term.pos = <<term.pos[1], term.pos[2]>> /\ term.pos[2] + Len(opline) = term.pos[2]
        <4>1. Len(opline) = 0
          BY <1>2
        <4> QED BY <1>2, <4>1, TypeFacts
      <3> QED BY <1>2, <3>1, <3>3, <3>4
    <2> QED BY <2>1, <2>2
  <1>5. want'.cells = want.cells /\ want'.dirty = {} /\ WantOK(want')
    <2>1. /\ want'.cells = want.cells /\ want'.dirty = {} /\ want'.maxy = want.maxy
          /\ want'.nlines = want.nlines
          /\ want' \in [cells : ScreenType, maxy : EndsType, dirty : SUBSET LineNos, nlines : 0 .. Lines]
      BY <1>1, <1>2 DEF WantOK
    <2>2. BlankBeyond(want')
      BY <1>2, <2>1 DEF WantOK, BlankBeyond
    <2> QED BY <2>1, <2>2 DEF WantOK
  <1>6. currpos = <<term'.pos[1], term'.pos[2] + Len(opline')>> /\ term'.pos[2] + Len(opline') <= Cols
    <2>1. Len(opline') = 0
      BY <1>1, <1>2
    <2>2. currpos[2] + Len(opline') = currpos[2]
      BY <1>3, <2>1
    <2> QED BY <1>3, <1>4, <2>2
  <1>7. TypeInv'
    <2>1. TermOK(term)' /\ WantOK(want)'
      BY <1>4, <1>5 DEF TermOK, WantOK, BlankBeyond
    <2>2. opline' \in Seq(Chars)
      BY <1>1, <1>2
    <2> QED BY <1>1, <1>3, <1>6, <2>1, <2>2, Bounds DEF TypeInv
  <1>8. PlaceInv'
    BY <1>1, <1>2, <1>6 DEF PlaceInv
  <1>9. Shown' = Shown
    BY <1>1, <1>2, <1>4 DEF Shown, Printed
  <1>10. MatchInv'
    <2>1. ASSUME NEW r \in LineNos, NEW c \in ColNos PROVE Match(r, c)'
      <3>1. Match(r, c)
        BY <1>1 DEF DisplayInv, MatchInv
      <3> QED BY <1>5, <1>9, <3>1, MatchStays
    <2> QED BY <1>1, <2>1 DEF MatchInv
  <1> QED BY <1>7, <1>8, <1>10 DEF DisplayInv

LEMMA StepKeeps == DisplayInv /\ CursorOffEnds /\ [Next]_vars => DisplayInv'
  <1> SUFFICES ASSUME DisplayInv, CursorOffEnds, [Next]_vars PROVE DisplayInv'
    OBVIOUS
  <1>1. CASE \E r \in LineNos, c \in ColNos, ch \in Chars, at \in Attrs : Write(r, c, ch, at)
    BY <1>1, WriteKeeps
  <1>2. CASE \E r \in LineNos, c \in ColNos : Clear(r, c)
    BY <1>2, ClearKeeps
  <1>3. CASE \E k \in Copies : SquareCopy(k[1], k[2], k[3], k[4], k[5], k[6])
    BY <1>3, SquareCopyKeeps
  <1>4. CASE \E p \in CursorPlaces : SetCursor(p)
    BY <1>4, SetCursorKeeps
  <1>5. CASE FindChanges
    BY <1>5, FindChangesKeeps
  <1>6. CASE Update
    BY <1>6, SkipLineKeeps, SkipCellKeeps, ChangeCellKeeps, LineDoneKeeps, ClearRestKeeps,
       ClearBelowKeeps, PrintRestKeeps, PlaceCursorKeeps DEF Update
  <1>7. CASE UNCHANGED vars
    <2>1. TypeInv'
      BY <1>7 DEF vars, loop, DisplayInv, TypeInv, TermOK, WantOK, BlankBeyond
    <2>2. PlaceInv'
      BY <1>7 DEF vars, loop, DisplayInv, PlaceInv, Padding
    <2>3. MatchInv'
      BY <1>7 DEF vars, loop, DisplayInv, MatchInv, Match, Shown, Graph
    <2> QED BY <2>1, <2>2, <2>3 DEF DisplayInv
  <1> QED BY <1>1, <1>2, <1>3, <1>4, <1>5, <1>6, <1>7 DEF Next
-----------------------------------------------------------------------------
(* The theorems.  Both say what happens as long as 1-2-3 does not want the *)
(* cursor where a text ends left of the graph: there the padding has moved *)
(* the terminal's cursor and vpos has not noticed, and what is drawn next  *)
(* is printed in the wrong place.  Without a graph window the condition    *)
(* holds of every behaviour.                                               *)

LEMMA DisplayIsInvariant == Spec /\ []CursorOffEnds => []DisplayInv
  BY InitHolds, StepKeeps, PTL DEF Spec

(* tty_find_changes: when it is done the terminal shows what was drawn,    *)
(* whatever was drawn, cleared or copied and however little was printed.   *)
THEOREM TerminalShowsWhatWasDrawn == Spec /\ []CursorOffEnds => []ScreenRight
  <1>1. DisplayInv => ScreenRight
    <2> SUFFICES ASSUME DisplayInv, pc = "cursor", NEW r \in LineNos, NEW c \in ColNos, ~Graph(r, c)
                 PROVE  term.cells[r][c] = want.cells[r][c]
      BY DEF ScreenRight
    <2>1. Match(r, c) /\ opline = <<>>
      BY DEF DisplayInv, MatchInv, PlaceInv
    <2> QED BY <2>1 DEF Match, Shown, Printed
  <1> QED BY <1>1, DisplayIsInvariant, PTL

(* graphics.c: what is pending ends where vpos says, and vpos is where the *)
(* terminal's cursor is when nothing is pending.                           *)
THEOREM VposIsTheCursor == Spec /\ []CursorOffEnds => []CursorRight
  <1>1. DisplayInv => CursorRight
    <2> SUFFICES ASSUME DisplayInv PROVE CursorRight
      OBVIOUS
    <2>1. opline # <<>> => vpos = <<term.pos[1], term.pos[2] + Len(opline)>>
      BY DEF DisplayInv, PlaceInv
    <2>2. ASSUME pc = "idle" PROVE vpos = term.pos
      <3>1. vpos = <<term.pos[1], term.pos[2] + Len(opline)>> /\ opline = <<>>
        BY <2>2 DEF DisplayInv, PlaceInv
      <3>2. TypeInv /\ Len(opline) = 0
        BY <3>1 DEF DisplayInv
      <3>3. term.pos[2] + Len(opline) = term.pos[2] /\ term.pos = <<term.pos[1], term.pos[2]>>
        BY <3>2, TypeFacts
      <3> QED BY <3>1, <3>3
    <2> QED BY <2>1, <2>2 DEF CursorRight
  <1> QED BY <1>1, DisplayIsInvariant, PTL

(* With no graph on the screen no condition is needed.                     *)
THEOREM WithoutAGraphAllIsShown ==
    ASSUME GraphRows = {}
    PROVE  Spec => [](ScreenRight /\ CursorRight)
  <1>1. CursorOffEnds
    BY DEF CursorOffEnds
  <1>2. Spec => []CursorOffEnds
    BY <1>1, PTL
  <1> QED BY <1>2, TerminalShowsWhatWasDrawn, VposIsTheCursor, PTL

-----------------------------------------------------------------------------
(* Lines.                                                                  *)
(*                                                                         *)
(* The loops of draw_solid_line and draw_thin_line count the long side     *)
(* down and never compare a coordinate with the canvas: what keeps them on *)
(* it is the relation between delta and the steps made along both sides.   *)

Stages == {"idle", "clip", "draw", "drawn", "beside"}
OnCols == 0 .. Width - 1
OnRows == 0 .. Height - 1

\* The steps made along the long and along the short side.
LongSteps(s, a, b) == IF Steep(s) THEN YInc(s) * (b - s.y1) ELSE XInc(s) * (a - s.x1)
ShortSteps(s, a, b) == IF Steep(s) THEN XInc(s) * (a - s.x1) ELSE YInc(s) * (b - s.y1)

Ends(s) == s.x1 \in OnCols /\ s.x2 \in OnCols /\ s.y1 \in OnRows /\ s.y2 \in OnRows

\* delta, when l cells of the long side a are left and k steps of the short side b are made.
DeltaAt(a, b, l, k) == 2 * b * (a - l + 1) - a - 2 * a * k

\* Where the pen is while a line is drawn.
PenInv ==
    /\ Ends(seg)
    /\ left \in 0 .. Long(seg)
    /\ LongSteps(seg, x, y) = Long(seg) - left
    /\ ShortSteps(seg, x, y) \in 0 .. Short(seg)
    /\ delta = DeltaAt(Long(seg), Short(seg), left, ShortSteps(seg, x, y))
    /\ delta \in 2 * Short(seg) - 2 * Long(seg) .. 2 * Short(seg)

Types ==
    /\ stage \in Stages /\ style \in {"solid", "thin"}
    /\ todo \in Seq(Segment) /\ seg \in Segment
    /\ x \in Int /\ y \in Int /\ left \in Int /\ delta \in Int

\* Of a set of cells, the one in step i of the path of a line; a bend may have another beside it.
Follows(s, sty, set, c, i) ==
    /\ LongSteps(s, c[1], c[2]) = i
    /\ Error(c, s) <= Long(s)
    /\ \A e \in set : LongSteps(s, e[1], e[2]) = i =>
          e = c \/ (sty = "thin" /\ Steep(s) /\ e = <<c[1] + 1, c[2]>>)

\* The set holds the first n steps of the path.
Path(s, sty, set, n) ==
    /\ set \subseteq Int \X Int
    /\ \A c \in set : LongSteps(s, c[1], c[2]) \in 0 .. n - 1
    /\ \A i \in 0 .. n - 1 : \E c \in set : Follows(s, sty, set, c, i)
    /\ n > 0 => <<s.x1, s.y1>> \in set

\* The inductive invariant.
IInv ==
    /\ Types
    /\ stage \in {"idle", "clip", "beside"} => cells = {}
    /\ stage = "draw" => PenInv /\ Path(seg, style, cells, Long(seg) - left)
    /\ stage = "drawn" => Path(seg, style, cells, Long(seg) + 1) /\ <<seg.x2, seg.y2>> \in cells
    /\ OnCanvas

-----------------------------------------------------------------------------
(* Arithmetic.                                                             *)

LEMMA AbsType == \A n \in Int : Abs(n) \in Nat /\ (n # 0 => Abs(n) > 0)
BY DEF Abs

LEMMA QuotientType ==
    ASSUME NEW a \in Nat, NEW b \in Nat, b > 0
    PROVE  a \div b \in Int
OBVIOUS

LEMMA CDivType ==
    ASSUME NEW a \in Int, NEW b \in Int, b # 0
    PROVE  CDiv(a, b) \in Int
<1>1. Abs(a) \in Nat /\ Abs(b) \in Nat /\ Abs(b) > 0
  BY AbsType
<1>2. Abs(a) \div Abs(b) \in Int
  BY <1>1, QuotientType
<1> QED
  BY <1>2 DEF CDiv

LEMMA ProductType == \A a \in Int, b \in Int : a * b \in Int
OBVIOUS

LEMMA Monotone ==
    ASSUME NEW a \in Nat, NEW b \in Int, NEW c \in Int, b <= c
    PROVE  a * b <= a * c
OBVIOUS

\* The error of at most half a step does not add up to a whole one.
LEMMA NoStepTooMany ==
    ASSUME NEW a \in Nat, NEW b \in Nat, a > 0,
           NEW i \in 0 .. a, NEW k \in Nat,
           2 * (a * k) <= 2 * (b * i) + a
    PROVE  k <= b
<1>1. SUFFICES ASSUME k >= b + 1 PROVE FALSE
  OBVIOUS
<1>2. a * (b + 1) <= a * k
  BY <1>1, Monotone
<1>3. a * (b + 1) = a * b + a
  OBVIOUS
<1>4. b * i <= b * a
  BY Monotone
<1>5. a * b = b * a
  OBVIOUS
<1> DEFINE ak == a * k  ab == a * b  bi == b * i
<1>6. ak \in Int /\ ab \in Int /\ bi \in Int
  BY ProductType
<1>7. ab + a <= ak /\ bi <= ab /\ 2 * ak <= 2 * bi + a
  BY <1>2, <1>3, <1>4, <1>5
<1> QED
  BY <1>6, <1>7

-----------------------------------------------------------------------------
(* Segments.                                                               *)

LEMMA SegmentFields ==
    ASSUME NEW s \in Segment
    PROVE  /\ s.x1 \in Int /\ s.x2 \in Int /\ s.y1 \in Int /\ s.y2 \in Int
           /\ XInc(s) \in {-1, 1} /\ YInc(s) \in {-1, 1}
           /\ Long(s) \in Nat /\ Short(s) \in Nat /\ Short(s) <= Long(s)
BY DEF Segment, XInc, YInc, Long, Short, Steep, Dx, Dy, Abs

LEMMA BitsEmpty ==
    ASSUME NEW a \in Int, NEW b \in Int
    PROVE  Bits(a, b) = {} <=> a \in OnCols /\ b \in OnRows
BY CanvasAssumption DEF Bits, OnCols, OnRows

\* From one end of a side, towards the other, by no more than its length.
LEMMA Between ==
    ASSUME NEW n \in Nat, NEW a \in 0 .. n - 1, NEW b \in 0 .. n - 1,
           NEW k \in 0 .. Abs(b - a), NEW c \in Int,
           (IF a > b THEN -1 ELSE 1) * (c - a) = k
    PROVE  c \in 0 .. n - 1
BY DEF Abs

LEMMA PenOnCanvas ==
    ASSUME Types, PenInv
    PROVE  x \in OnCols /\ y \in OnRows
<1>1. LongSteps(seg, x, y) \in 0 .. Long(seg)
  BY SegmentFields DEF PenInv, Types
<1>2. x \in OnCols
  <2>1. XInc(seg) * (x - seg.x1) \in 0 .. Abs(seg.x2 - seg.x1)
    BY <1>1 DEF PenInv, LongSteps, ShortSteps, Long, Short, Dx
  <2> QED
    BY <2>1, Between, CanvasAssumption DEF PenInv, Ends, Types, OnCols, XInc
<1>3. y \in OnRows
  <2>1. YInc(seg) * (y - seg.y1) \in 0 .. Abs(seg.y2 - seg.y1)
    BY <1>1 DEF PenInv, LongSteps, ShortSteps, Long, Short, Dy
  <2> QED
    BY <2>1, Between, CanvasAssumption DEF PenInv, Ends, Types, OnRows, YInc
<1> QED
  BY <1>2, <1>3

-----------------------------------------------------------------------------
(* Drawing.                                                                *)

\* One turn makes a step along the long side, and one along the short side if delta is positive.
LEMMA Steps ==
    ASSUME Types, Plot
    PROVE  /\ LongSteps(seg, x', y') = LongSteps(seg, x, y) + 1
           /\ ShortSteps(seg, x', y') = ShortSteps(seg, x, y) + IF delta > 0 THEN 1 ELSE 0
<1> DEFINE u == XInc(seg)  v == YInc(seg)
<1>1. /\ u \in {-1, 1} /\ v \in {-1, 1} /\ seg.x1 \in Int /\ seg.y1 \in Int
      /\ x \in Int /\ y \in Int
  BY SegmentFields DEF Types
<1> HIDE DEF u, v
<1>2. /\ x' = IF delta > 0 \/ ~Steep(seg) THEN x + u ELSE x
      /\ y' = IF delta > 0 \/ Steep(seg) THEN y + v ELSE y
  BY DEF Plot, u, v
<1>3. CASE Steep(seg)
  <2>1. y' = y + v /\ x' = IF delta > 0 THEN x + u ELSE x
    BY <1>2, <1>3
  <2>2. v * (y' - seg.y1) = v * (y - seg.y1) + 1
    BY <2>1, <1>1
  <2>3. u * (x' - seg.x1) = u * (x - seg.x1) + IF delta > 0 THEN 1 ELSE 0
    BY <2>1, <1>1
  <2> QED
    BY <2>2, <2>3, <1>3 DEF LongSteps, ShortSteps, u, v
<1>4. CASE ~Steep(seg)
  <2>1. x' = x + u /\ y' = IF delta > 0 THEN y + v ELSE y
    BY <1>2, <1>4
  <2>2. u * (x' - seg.x1) = u * (x - seg.x1) + 1
    BY <2>1, <1>1
  <2>3. v * (y' - seg.y1) = v * (y - seg.y1) + IF delta > 0 THEN 1 ELSE 0
    BY <2>1, <1>1
  <2> QED
    BY <2>2, <2>3, <1>4 DEF LongSteps, ShortSteps, u, v
<1> QED
  BY <1>3, <1>4

\* The steps along the short side are no more than it is long, whenever delta is not too small.
LEMMA ShortStepsBounded ==
    ASSUME NEW a \in Nat, NEW b \in Nat, a > 0, NEW l \in 0 .. a, NEW k \in Nat,
           DeltaAt(a, b, l, k) >= 2 * b - 2 * a
    PROVE  k <= b
<1> DEFINE i == a - l
<1>1. i \in 0 .. a
  OBVIOUS
<1>2. DeltaAt(a, b, l, k) = 2 * (b * i) + 2 * b - a - 2 * (a * k)
  BY DEF DeltaAt
<1>3. b * i \in Int /\ a * k \in Int
  BY <1>1, ProductType
<1> HIDE DEF i
<1>4. 2 * (a * k) <= 2 * (b * i) + a
  BY <1>2, <1>3
<1> QED
  BY <1>1, <1>4, NoStepTooMany

LEMMA PenMoves ==
    ASSUME Types, PenInv, Plot, left # 0
    PROVE  PenInv'
<1> DEFINE a == Long(seg)  b == Short(seg)  k == ShortSteps(seg, x, y)
           k2 == ShortSteps(seg, x', y')
<1>1. seg' = seg /\ left' = left - 1 /\ delta' = NextDelta
  BY DEF Plot
<1>2. a \in Nat /\ b \in Nat /\ b <= a
  BY SegmentFields DEF Types
<1>3. k \in Nat /\ k <= b /\ left \in 1 .. a /\ delta \in Int
  BY <1>2 DEF PenInv, Types
<1>4. k2 = k + (IF delta > 0 THEN 1 ELSE 0) /\ LongSteps(seg, x', y') = a - left + 1
  BY Steps DEF PenInv
<1>5. delta = DeltaAt(a, b, left, k) /\ delta \in 2 * b - 2 * a .. 2 * b
  BY DEF PenInv
<1>6. SUFFICES /\ left' \in 0 .. a /\ k2 \in 0 .. b
               /\ delta' = DeltaAt(a, b, left', k2)
               /\ delta' \in 2 * b - 2 * a .. 2 * b
  BY <1>1, <1>2, <1>3, <1>4 DEF PenInv, Ends
<1>7. delta' = IF delta > 0 THEN delta + 2 * b - 2 * a ELSE delta + 2 * b
  BY <1>1 DEF NextDelta
<1> HIDE DEF a, b, k, k2
<1>8. left' \in 0 .. a
  BY <1>1, <1>2, <1>3
<1>9. delta' \in 2 * b - 2 * a .. 2 * b
  BY <1>2, <1>3, <1>5, <1>7
<1>10. delta' = DeltaAt(a, b, left', k2) /\ k2 \in Nat
  <2>1. /\ DeltaAt(a, b, left, k) + 2 * b = DeltaAt(a, b, left - 1, k)
        /\ DeltaAt(a, b, left, k) + 2 * b - 2 * a = DeltaAt(a, b, left - 1, k + 1)
    BY <1>2, <1>3 DEF DeltaAt
  <2>2. CASE delta > 0
    BY <2>1, <2>2, <1>1, <1>3, <1>4, <1>5, <1>7
  <2>3. CASE ~(delta > 0)
    BY <2>1, <2>3, <1>1, <1>3, <1>4, <1>5, <1>7
  <2> QED
    BY <2>2, <2>3
<1>11. k2 <= b
  <2>1. CASE delta > 0
    <3>1. a > 0
      BY <2>1, <1>2, <1>5
    <3>2. DeltaAt(a, b, left', k2) >= 2 * b - 2 * a
      BY <1>2, <1>9, <1>10
    <3> QED
      BY <3>1, <3>2, <1>2, <1>8, <1>10, ShortStepsBounded
  <2>2. CASE ~(delta > 0)
    BY <2>2, <1>3, <1>4
  <2> QED
    BY <2>1, <2>2
<1> QED
  BY <1>2, <1>8, <1>9, <1>10, <1>11

\* The pen starts at an end of the line.
LEMMA PenStarts ==
    ASSUME Types, Begin
    PROVE  PenInv' /\ seg' \in Segment
<1>1. Ends(seg)
  BY BitsEmpty, SegmentFields DEF Begin, Bits1, Bits2, Ends, Types
<1>2. seg' \in Segment /\ Ends(seg')
  <2>1. Reversed(seg) \in Segment /\ Ends(Reversed(seg))
    BY <1>1 DEF Types, Segment, Reversed, Ends
  <2> QED
    BY <1>1, <2>1 DEF Begin, Oriented, Types
<1>3. /\ x' = seg'.x1 /\ y' = seg'.y1
      /\ left' = Long(seg') /\ delta' = 2 * Short(seg') - Long(seg')
  BY DEF Begin
<1>4. /\ Long(seg') \in Nat /\ Short(seg') \in Nat /\ Short(seg') <= Long(seg')
      /\ XInc(seg') \in {-1, 1} /\ YInc(seg') \in {-1, 1}
      /\ seg'.x1 \in Int /\ seg'.y1 \in Int
  BY <1>2, SegmentFields
<1>5. LongSteps(seg', x', y') = 0 /\ ShortSteps(seg', x', y') = 0
  BY <1>3, <1>4 DEF LongSteps, ShortSteps
<1>6. \A a, b \in Nat : b <= a =>
        /\ 2 * b - a = DeltaAt(a, b, a, 0)
        /\ 2 * b - a \in 2 * b - 2 * a .. 2 * b
  BY DEF DeltaAt
<1>7. PenInv'
  BY <1>2, <1>3, <1>4, <1>5, <1>6 DEF PenInv
<1> QED
  BY <1>2, <1>7

-----------------------------------------------------------------------------
(* The path.                                                               *)

\* How far a cell is from the line, in the steps that were made.
LEMMA ErrorOfSteps ==
    ASSUME NEW s \in Segment, NEW a \in Int, NEW b \in Int
    PROVE  Error(<<a, b>>, s) = 2 * Abs(Long(s) * ShortSteps(s, a, b) - Short(s) * LongSteps(s, a, b))
<1> DEFINE u == XInc(s)  v == YInc(s)  p == a - s.x1  q == b - s.y1  m == Dy(s)  n == Dx(s)
<1>1. u \in {-1, 1} /\ v \in {-1, 1} /\ p \in Int /\ q \in Int /\ m \in Nat /\ n \in Nat
  BY DEF Segment, XInc, YInc, Dx, Dy, Abs
<1>2. s.y2 - s.y1 = v * m /\ s.x2 - s.x1 = u * n
  BY DEF Segment, XInc, YInc, Dx, Dy, Abs
<1>3. Error(<<a, b>>, s) = 2 * Abs(p * (v * m) - q * (u * n))
  BY <1>2 DEF Error
<1> HIDE DEF u, v, p, q, m, n
<1>4. Error(<<a, b>>, s) = 2 * Abs((u * p) * m - (v * q) * n)
  <2>1. CASE u = 1 /\ v = 1
    BY <2>1, <1>1, <1>3
  <2>2. CASE u = -1 /\ v = -1
    BY <2>2, <1>1, <1>3 DEF Abs
  <2>3. CASE u = 1 /\ v = -1
    BY <2>3, <1>1, <1>3 DEF Abs
  <2>4. CASE u = -1 /\ v = 1
    BY <2>4, <1>1, <1>3 DEF Abs
  <2> QED
    BY <2>1, <2>2, <2>3, <2>4, <1>1
<1>5. /\ (u * p) * m = m * (u * p) /\ (v * q) * n = n * (v * q)
      /\ m * (u * p) \in Int /\ n * (v * q) \in Int
  BY <1>1, ProductType
<1>6. CASE Steep(s)
  BY <1>4, <1>5, <1>6 DEF Long, Short, LongSteps, ShortSteps, u, v, p, q, m, n
<1>7. CASE ~Steep(s)
  <2> DEFINE mup == m * (u * p)  nvq == n * (v * q)
  <2>1. mup \in Int /\ nvq \in Int /\ Error(<<a, b>>, s) = 2 * Abs(mup - nvq)
    BY <1>4, <1>5
  <2> HIDE DEF mup, nvq
  <2>2. Abs(mup - nvq) = Abs(nvq - mup)
    BY <2>1 DEF Abs
  <2>3. Long(s) * ShortSteps(s, a, b) = nvq /\ Short(s) * LongSteps(s, a, b) = mup
    BY <1>7 DEF Long, Short, LongSteps, ShortSteps, u, v, p, q, m, n, mup, nvq
  <2> QED
    BY <2>1, <2>2, <2>3
<1> QED
  BY <1>6, <1>7

\* The range of delta is the error of the pen.
LEMMA PenError ==
    ASSUME Types, PenInv
    PROVE  Error(<<x, y>>, seg) <= Long(seg)
<1> DEFINE a == Long(seg)  b == Short(seg)  k == ShortSteps(seg, x, y)  i == LongSteps(seg, x, y)
<1>1. a \in Nat /\ b \in Nat /\ k \in Nat /\ i \in Nat /\ left = a - i
  BY SegmentFields DEF Types, PenInv
<1>2. DeltaAt(a, b, left, k) \in 2 * b - 2 * a .. 2 * b
  BY DEF PenInv
<1>3. Error(<<x, y>>, seg) = 2 * Abs(a * k - b * i)
  BY ErrorOfSteps DEF Types
<1> HIDE DEF a, b, k, i
<1>4. a * k \in Int /\ b * i \in Int
  BY <1>1, ProductType
<1>5. DeltaAt(a, b, left, k) = 2 * (b * i) + 2 * b - a - 2 * (a * k)
  BY <1>1 DEF DeltaAt
<1>6. 2 * (b * i) - 2 * (a * k) \in -a .. a
  BY <1>1, <1>2, <1>4, <1>5
<1> QED
  BY <1>1, <1>3, <1>4, <1>6 DEF Abs, a

\* The first cell is the first point, and the last the second.
LEMMA PenAtEnds ==
    ASSUME Types, PenInv
    PROVE  /\ left = Long(seg) => x = seg.x1 /\ y = seg.y1
           /\ left = 0 => x = seg.x2 /\ y = seg.y2
<1> DEFINE a == Long(seg)  b == Short(seg)  k == ShortSteps(seg, x, y)  i == LongSteps(seg, x, y)
<1>1. a \in Nat /\ b \in Nat /\ b <= a /\ k \in 0 .. b /\ i \in 0 .. a /\ left = a - i
  BY SegmentFields DEF Types, PenInv
<1>2. Error(<<x, y>>, seg) <= a
  BY PenError
<1>3. 2 * Abs(a * k - b * i) <= a
  BY <1>2, ErrorOfSteps DEF Types
<1>4. /\ x \in Int /\ y \in Int /\ seg.x1 \in Int /\ seg.x2 \in Int /\ seg.y1 \in Int /\ seg.y2 \in Int
  BY SegmentFields DEF Types
<1>5. i = 0 => k = 0
  <2> SUFFICES ASSUME i = 0, k >= 1 PROVE FALSE
    BY <1>1
  <2> HIDE DEF a, b, k, i
  <2>1. a * 1 <= a * k /\ a * 1 = a /\ b * i = 0 /\ a * k \in Int
    BY <1>1, Monotone, ProductType
  <2> QED
    BY <2>1, <1>1, <1>3 DEF Abs
<1>6. i = a => k = b
  <2> SUFFICES ASSUME i = a, k <= b - 1 PROVE FALSE
    BY <1>1
  <2> HIDE DEF a, b, k, i
  <2>1. a * k <= a * (b - 1)
    BY <1>1, Monotone
  <2>2. a * (b - 1) = a * b - a /\ b * i = a * b /\ a * k \in Int /\ a * b \in Int
    BY <1>1
  <2> QED
    BY <2>1, <2>2, <1>1, <1>3 DEF Abs
<1>7. i = 0 /\ k = 0 => x = seg.x1 /\ y = seg.y1
  BY <1>4 DEF LongSteps, ShortSteps, XInc, YInc, i, k
<1>8. i = a /\ k = b => x = seg.x2 /\ y = seg.y2
  BY <1>4 DEF LongSteps, ShortSteps, XInc, YInc, Long, Short, Dx, Dy, Abs, i, k, a, b
<1> QED
  BY <1>1, <1>5, <1>6, <1>7, <1>8

\* The cells of one turn are on the canvas, and in the same step of the path.
LEMMA PutFacts ==
    ASSUME Types, PenInv
    PROVE  /\ <<x, y>> \in Put /\ Put \subseteq Int \X Int
           /\ \A c \in Put : /\ LongSteps(seg, c[1], c[2]) = Long(seg) - left
                             /\ c[1] \in 0 .. IF style = "thin" THEN Width ELSE Width - 1
                             /\ c[2] \in 0 .. Height - 1
                             /\ \/ c = <<x, y>>
                                \/ style = "thin" /\ Steep(seg) /\ c = <<x + 1, y>>
<1>1. x \in OnCols /\ y \in OnRows /\ x \in Int /\ y \in Int
  BY PenOnCanvas DEF Types
<1>2. LongSteps(seg, x, y) = Long(seg) - left
  BY DEF PenInv
<1>3. Steep(seg) => LongSteps(seg, x + 1, y) = Long(seg) - left
  BY <1>2 DEF LongSteps
<1> QED
  BY <1>1, <1>2, <1>3, CanvasAssumption DEF Put, OnCols, OnRows

\* A turn adds a step to the path.
LEMMA PathGrows ==
    ASSUME Types, PenInv, Path(seg, style, cells, Long(seg) - left)
    PROVE  Path(seg, style, cells \cup Put, Long(seg) - left + 1)
<1> DEFINE n == Long(seg) - left  set == cells \cup Put  StepOf(c) == LongSteps(seg, c[1], c[2])
<1>1. n \in Nat
  BY SegmentFields DEF PenInv, Types
<1>2. /\ cells \subseteq Int \X Int
      /\ \A c \in cells : StepOf(c) \in 0 .. n - 1
      /\ \A i \in 0 .. n - 1 : \E c \in cells : Follows(seg, style, cells, c, i)
      /\ n > 0 => <<seg.x1, seg.y1>> \in cells
  BY DEF Path
<1>3. /\ <<x, y>> \in Put /\ Put \subseteq Int \X Int
      /\ \A c \in Put : /\ StepOf(c) = n
                        /\ c = <<x, y>> \/ (style = "thin" /\ Steep(seg) /\ c = <<x + 1, y>>)
  BY PutFacts
<1>4. StepOf(<<x, y>>) = n /\ Error(<<x, y>>, seg) <= Long(seg)
  BY <1>3, PenError
<1>5. set \subseteq Int \X Int /\ \A c \in set : StepOf(c) \in 0 .. n
  BY <1>1, <1>2, <1>3
<1>6. ASSUME NEW i \in 0 .. n PROVE \E c \in set : Follows(seg, style, set, c, i)
  <2> HIDE DEF n
  <2>1. CASE i = n
    <3>1. \A e \in cells : StepOf(e) # n
      BY <1>1, <1>2
    <3>2. Follows(seg, style, set, <<x, y>>, n)
      BY <3>1, <1>3, <1>4 DEF Follows
    <3> QED
      BY <3>2, <2>1, <1>3
  <2>2. CASE i # n
    <3>1. i \in 0 .. n - 1
      BY <2>2, <1>1
    <3>2. PICK c \in cells : Follows(seg, style, cells, c, i)
      BY <3>1, <1>2
    <3>3. \A e \in Put : StepOf(e) # i
      BY <2>2, <1>3
    <3>4. Follows(seg, style, set, c, i)
      BY <3>2, <3>3 DEF Follows
    <3> QED
      BY <3>2, <3>4
  <2> QED
    BY <2>1, <2>2
<1>7. <<seg.x1, seg.y1>> \in set
  <2>1. CASE n > 0
    BY <2>1, <1>2
  <2>2. CASE ~(n > 0)
    <3>1. left = Long(seg)
      BY <2>2, <1>1, SegmentFields DEF Types
    <3> QED
      BY <3>1, <1>3, PenAtEnds
  <2> QED
    BY <2>1, <2>2
<1>8. n + 1 - 1 = n
  BY <1>1
<1>9. Path(seg, style, set, n + 1)
  <2> HIDE DEF n, set
  <2> QED
    BY <1>1, <1>5, <1>6, <1>7, <1>8 DEF Path
<1> QED
  BY <1>9

-----------------------------------------------------------------------------
(* Every step keeps the invariant.                                         *)

LEMMA CallsKeep ==
    ASSUME IInv, Call
    PROVE  IInv'
BY JobsAssumption DEF Call, CallSolid, CallThin, pen, IInv, Types, Stages, OnCanvas

LEMMA NextLineKeeps ==
    ASSUME IInv, NextLine
    PROVE  IInv'
<1>1. Head(todo) \in Segment /\ Tail(todo) \in Seq(Segment)
  BY DEF NextLine, IInv, Types
<1> QED
  BY <1>1 DEF NextLine, pen, IInv, Types, Stages, OnCanvas

LEMMA ReturnKeeps ==
    ASSUME IInv, Return
    PROVE  IInv'
<1>1. NoSeg \in Segment
  BY DEF NoSeg, Seg, Segment
<1> QED
  BY <1>1 DEF Return, IInv, Types, Stages, OnCanvas

LEMMA BesideKeeps ==
    ASSUME IInv, Beside
    PROVE  IInv'
BY DEF Beside, pen, IInv, Types, Stages, OnCanvas

LEMMA ExchangeKeeps ==
    ASSUME IInv, Exchange
    PROVE  IInv'
<1>1. Reversed(seg) \in Segment
  BY DEF IInv, Types, Segment, Reversed
<1> QED
  BY <1>1 DEF Exchange, pen, IInv, Types, Stages, OnCanvas

\* The divisor is not zero: the ends are not beyond the same side.
LEMMA ClipXKeeps ==
    ASSUME IInv, ClipX
    PROVE  IInv'
<1>1. seg \in Segment /\ seg.x1 \in Int /\ seg.x2 \in Int /\ seg.y1 \in Int /\ seg.y2 \in Int
  BY SegmentFields DEF IInv, Types
<1>2. seg.x2 - seg.x1 # 0
  BY <1>1, CanvasAssumption DEF ClipX, BothBeyond, Bits1, Bits2, Bits
<1>3. EdgeX \in Int
  BY CanvasAssumption DEF EdgeX
<1>4. (seg.x2 - EdgeX) * (seg.y2 - seg.y1) \in Int
  BY <1>1, <1>3
<1>5. CrossY(EdgeX) \in Int
  BY <1>1, <1>2, <1>4, CDivType DEF CrossY
<1>6. seg' \in Segment
  BY <1>1, <1>3, <1>5 DEF ClipX, Segment
<1> QED
  BY <1>6 DEF ClipX, pen, IInv, Types, Stages, OnCanvas

LEMMA ClipYKeeps ==
    ASSUME IInv, ClipY
    PROVE  IInv'
<1>1. seg \in Segment /\ seg.x1 \in Int /\ seg.x2 \in Int /\ seg.y1 \in Int /\ seg.y2 \in Int
  BY SegmentFields DEF IInv, Types
<1>2. seg.y2 - seg.y1 # 0
  BY <1>1, CanvasAssumption DEF ClipY, BothBeyond, Bits1, Bits2, Bits
<1>3. EdgeY \in Int
  BY CanvasAssumption DEF EdgeY
<1>4. (seg.y2 - EdgeY) * (seg.x2 - seg.x1) \in Int
  BY <1>1, <1>3
<1>5. CrossX(EdgeY) \in Int
  BY <1>1, <1>2, <1>4, CDivType DEF CrossX
<1>6. seg' \in Segment
  BY <1>1, <1>3, <1>5 DEF ClipY, Segment
<1> QED
  BY <1>6 DEF ClipY, pen, IInv, Types, Stages, OnCanvas

LEMMA BeginKeeps ==
    ASSUME IInv, Begin
    PROVE  IInv'
<1>1. PenInv' /\ seg' \in Segment
  BY PenStarts DEF IInv
<1>2. Types'
  <2>1. left' \in Int /\ delta' \in Int /\ x' \in Int /\ y' \in Int
    BY <1>1, SegmentFields DEF Begin
  <2> QED
    BY <1>1, <2>1 DEF Begin, IInv, Types, Stages
<1>3. Path(seg', style', cells', Long(seg') - left')
  <2>1. cells' = {} /\ Long(seg') - left' = 0
    BY <1>1, SegmentFields DEF Begin, IInv
  <2> QED
    BY <2>1 DEF Path
<1> QED
  BY <1>1, <1>2, <1>3 DEF Begin, IInv, OnCanvas

LEMMA PlotKeeps ==
    ASSUME IInv, Plot
    PROVE  IInv'
<1>1. /\ Types /\ PenInv /\ Path(seg, style, cells, Long(seg) - left) /\ OnCanvas
      /\ seg' = seg /\ style' = style /\ cells' = cells \cup Put /\ left' = left - 1
  BY DEF IInv, Plot
<1>2. Path(seg', style', cells', Long(seg) - left + 1)
  BY <1>1, PathGrows
<1>3. Types'
  <2>1. x' \in Int /\ y' \in Int /\ delta' \in Int
    <3>1. /\ XInc(seg) \in Int /\ YInc(seg) \in Int /\ Long(seg) \in Int /\ Short(seg) \in Int
          /\ x \in Int /\ y \in Int /\ delta \in Int
      BY <1>1, SegmentFields DEF Types
    <3> QED
      BY <3>1 DEF Plot, NextDelta
  <2> QED
    BY <1>1, <2>1 DEF Plot, Types, Stages
<1>4. OnCanvas'
  BY <1>1, PutFacts DEF OnCanvas
<1>5. Long(seg) \in Nat /\ left \in 0 .. Long(seg)
  BY <1>1, SegmentFields DEF Types, PenInv
<1>6. CASE left = 0
  <2>1. stage' = "drawn" /\ Long(seg) - left + 1 = Long(seg') + 1
    BY <1>1, <1>5, <1>6 DEF Plot
  <2>2. <<seg'.x2, seg'.y2>> \in cells'
    BY <1>1, <1>6, PenAtEnds, PutFacts
  <2> QED
    BY <1>2, <1>3, <1>4, <2>1, <2>2 DEF IInv
<1>7. CASE left # 0
  <2>1. stage' = "draw" /\ Long(seg) - left + 1 = Long(seg') - left'
    BY <1>1, <1>5, <1>7 DEF Plot
  <2>2. PenInv'
    BY <1>1, <1>7, PenMoves
  <2> QED
    BY <1>2, <1>3, <1>4, <2>1, <2>2 DEF IInv
<1> QED
  BY <1>6, <1>7

LEMMA Inductive == IInv /\ [LineNext]_lineVars => IInv'
<1> SUFFICES ASSUME IInv, [LineNext]_lineVars PROVE IInv'
  OBVIOUS
<1>1. CASE Call
  BY <1>1, CallsKeep
<1>2. CASE NextLine
  BY <1>2, NextLineKeeps
<1>3. CASE Beside
  BY <1>3, BesideKeeps
<1>4. CASE Exchange
  BY <1>4, ExchangeKeeps
<1>5. CASE ClipX
  BY <1>5, ClipXKeeps
<1>6. CASE ClipY
  BY <1>6, ClipYKeeps
<1>7. CASE Begin
  BY <1>7, BeginKeeps
<1>8. CASE Plot
  BY <1>8, PlotKeeps
<1>9. CASE Return
  BY <1>9, ReturnKeeps
<1>10. CASE UNCHANGED lineVars
  BY <1>10 DEF lineVars, pen, IInv, Types, PenInv, OnCanvas
<1> QED
  BY <1>1, <1>2, <1>3, <1>4, <1>5, <1>6, <1>7, <1>8, <1>9, <1>10 DEF LineNext, LineStep

-----------------------------------------------------------------------------
(* What was drawn is right.                                                *)

LEMMA PathIsRight ==
    ASSUME IInv
    PROVE  LineRight
<1> SUFFICES ASSUME stage = "drawn" PROVE LineRight
  BY DEF LineRight
<1> DEFINE a == Long(seg)
<1>1. /\ a \in Nat /\ seg.x1 \in Int /\ seg.y1 \in Int
      /\ XInc(seg) \in {-1, 1} /\ YInc(seg) \in {-1, 1}
  BY SegmentFields DEF IInv, Types
<1>2. Path(seg, style, cells, a + 1) /\ <<seg.x2, seg.y2>> \in cells
  BY DEF IInv
<1>3. /\ cells \subseteq Int \X Int
      /\ \A c \in cells : LongSteps(seg, c[1], c[2]) \in 0 .. a
      /\ \A i \in 0 .. a : \E c \in cells : Follows(seg, style, cells, c, i)
      /\ <<seg.x1, seg.y1>> \in cells
  BY <1>1, <1>2 DEF Path
<1>4. ASSUME NEW c \in Main PROVE Error(c, seg) <= a
  <2>1. c \in cells
    BY DEF Main
  <2>2. PICK e \in cells : Follows(seg, style, cells, e, LongSteps(seg, c[1], c[2]))
    BY <2>1, <1>3
  <2>3. CASE c = e
    BY <2>2, <2>3 DEF Follows
  <2>4. CASE style = "thin" /\ Steep(seg) /\ c = <<e[1] + 1, e[2]>>
    <3>1. e[1] \in Int /\ e = <<e[1], e[2]>>
      BY <1>3
    <3>2. <<c[1] - 1, c[2]>> = e
      BY <2>4, <3>1
    <3> QED
      BY <2>4, <3>2 DEF Main
  <2> QED
    BY <2>1, <2>2, <2>3, <2>4 DEF Follows
<1>5. ASSUME NEW i \in 0 .. a
      PROVE  \E c \in Main :
               IF Steep(seg) THEN c[2] = seg.y1 + YInc(seg) * i ELSE c[1] = seg.x1 + XInc(seg) * i
  <2>1. PICK c \in cells : Follows(seg, style, cells, c, i)
    BY <1>3
  <2>2. c[1] \in Int /\ c[2] \in Int /\ c = <<c[1], c[2]>>
    BY <1>3
  <2>3. c \in Main
    <3>1. CASE Steep(seg)
      <4> SUFFICES <<c[1] - 1, c[2]>> \notin cells
        BY <2>1 DEF Main
      <4>1. LongSteps(seg, c[1] - 1, c[2]) = i
        BY <3>1, <2>1 DEF Follows, LongSteps
      <4>2. <<c[1] - 1, c[2]>> # c /\ <<c[1] - 1, c[2]>> # <<c[1] + 1, c[2]>>
        BY <2>2
      <4> QED
        BY <4>1, <4>2, <2>1 DEF Follows
    <3> QED
      BY <3>1, <2>1 DEF Main
  <2>4. IF Steep(seg) THEN YInc(seg) * (c[2] - seg.y1) = i ELSE XInc(seg) * (c[1] - seg.x1) = i
    BY <2>1 DEF Follows, LongSteps
  <2>5. IF Steep(seg) THEN c[2] = seg.y1 + YInc(seg) * i ELSE c[1] = seg.x1 + XInc(seg) * i
    BY <2>2, <2>4, <1>1
  <2> QED
    BY <2>3, <2>5
<1> QED
  BY <1>2, <1>3, <1>4, <1>5 DEF LineRight

-----------------------------------------------------------------------------
(* Theorems.                                                               *)

LEMMA Invariant == LineSpec => []IInv
<1>1. LineInit => IInv
  BY DEF LineInit, IInv, Types, Stages, OnCanvas, NoSeg, Seg, Segment
<1> QED
  BY <1>1, Inductive, PTL DEF LineSpec

\* Types of the line being drawn, of the pen and of what is still to be drawn: clipping never
\* divides by zero, so what it leaves are numbers again.
THEOREM LineTypes == LineSpec => []Types
<1>1. IInv => Types
  BY DEF IInv
<1> QED
  BY <1>1, Invariant, PTL

\* Whatever lines are asked for, on a canvas of any size, no cell is put off the canvas but the
\* second cell of a bend.
THEOREM StaysOnCanvas == LineSpec => []OnCanvas
<1>1. IInv => OnCanvas
  BY DEF IInv
<1> QED
  BY <1>1, Invariant, PTL

\* The loops of draw_solid_line and draw_thin_line go from end to end of every clipped line,
\* without a gap and within half a cell of it.
THEOREM DrawsTheLine == LineSpec => []LineRight
<1> QED
  BY PathIsRight, Invariant, PTL

-----------------------------------------------------------------------------
(* Clipping.                                                               *)
(*                                                                         *)
(* Each crossing is computed from the line as clipped so far and rounded,  *)
(* and the ends may be exchanged: how far the ends have come off the line  *)
(* that was asked for is bounded by where they are and were moved to.      *)

LEMMA ZeroQuotient == ASSUME NEW b \in Nat, b > 0 PROVE 0 \div b = 0
OBVIOUS

LEMMA QuotientFacts ==
    ASSUME NEW a \in Nat, NEW b \in Nat, b > 0
    PROVE  /\ a \div b \in Nat
           /\ b * (a \div b) <= a /\ a < b * (a \div b) + b
OBVIOUS

\* Division in C of numbers with signs.
LEMMA SignedQuotient ==
    ASSUME NEW i \in {-1, 1}, NEW j \in {-1, 1}, NEW a \in Nat, NEW b \in Nat, b > 0
    PROVE  CDiv(i * j * a, i * b) = j * (a \div b)
<1> DEFINE q == a \div b
<1>1. q \in Int /\ (a = 0 => q = 0)
  BY QuotientType, ZeroQuotient
<1>2. CDiv(a, b) = q /\ CDiv(-a, -b) = q
  <2>1. Abs(a) = a /\ Abs(b) = b /\ Abs(-a) = a /\ Abs(-b) = b
    BY DEF Abs
  <2>2. ~(-a < 0 /\ -b > 0) /\ ~(-a > 0 /\ -b < 0) /\ ~(a < 0 /\ b > 0) /\ ~(a > 0 /\ b < 0)
    OBVIOUS
  <2> QED
    BY <2>1, <2>2 DEF CDiv
<1>3. CDiv(-a, b) = -q /\ CDiv(a, -b) = -q
  <2>1. Abs(a) = a /\ Abs(b) = b /\ Abs(-a) = a /\ Abs(-b) = b
    BY DEF Abs
  <2>2. CASE a = 0
    <3>1. q = 0
      BY <1>1, <2>2
    <3>2. -a = a /\ -q = q
      <4>1. \A k \in Int : k <= 0 /\ 0 <= k => -k = k
        OBVIOUS
      <4> HIDE DEF q
      <4>2. a <= 0 /\ 0 <= a /\ q <= 0 /\ 0 <= q
        BY <2>2, <3>1
      <4> QED
        BY <1>1, <4>1, <4>2
    <3>3. ~(a < 0 /\ b > 0) /\ ~(a > 0 /\ b < 0) /\ ~(a < 0 /\ -b > 0) /\ ~(a > 0 /\ -b < 0)
      BY <2>2
    <3> QED
      BY <2>1, <3>2, <3>3 DEF CDiv
  <2>3. CASE a > 0
    <3>1. -a < 0 /\ b > 0 /\ a > 0 /\ -b < 0
      BY <2>3
    <3> QED
      BY <2>1, <3>1 DEF CDiv
  <2> QED
    BY <2>2, <2>3
<1> HIDE DEF q
<1>4. CASE i = 1 /\ j = 1
  <2>1. i * j * a = a /\ i * b = b /\ j * q = q
    BY <1>1, <1>4
  <2> QED
    BY <1>2, <2>1 DEF q
<1>5. CASE i = -1 /\ j = 1
  <2>1. i * j * a = -a /\ i * b = -b /\ j * q = q
    BY <1>1, <1>5
  <2> QED
    BY <1>2, <2>1 DEF q
<1>6. CASE i = 1 /\ j = -1
  <2>1. i * j * a = -a /\ i * b = b /\ j * q = -q
    BY <1>1, <1>6
  <2> QED
    BY <1>3, <2>1 DEF q
<1>7. CASE i = -1 /\ j = -1
  <2>1. i * j * a = a /\ i * b = -b /\ j * q = -q
    BY <1>1, <1>7
  <2> QED
    BY <1>3, <2>1 DEF q
<1> QED
  BY <1>4, <1>5, <1>6, <1>7

LEMMA MonotoneNat ==
    ASSUME NEW a \in Nat, NEW b \in Nat, NEW c \in Nat, NEW h \in Nat, a <= c, b <= h
    PROVE  a * b <= c * h
<1>1. a * b <= a * h /\ h * a <= h * c /\ a * h = h * a /\ h * c = c * h
  BY Monotone
<1>2. a * b \in Int /\ a * h \in Int /\ c * h \in Int
  OBVIOUS
<1> QED
  BY <1>1, <1>2

LEMMA Cancel ==
    ASSUME NEW m \in Nat, m > 0, NEW a \in Int, NEW b \in Int, m * a <= m * b
    PROVE  a <= b
<1> SUFFICES ASSUME b + 1 <= a PROVE FALSE
  OBVIOUS
<1>1. m * (b + 1) <= m * a
  BY Monotone
<1>2. m * (b + 1) = m * b + m /\ m * a \in Int /\ m * b \in Int
  OBVIOUS
<1> QED
  BY <1>1, <1>2

\* A place between two, n parts of m before the second, cut off to a cell: how far from the line
\* it comes to lie, when the first is off by h more than the second.
Moved(h, e, l) == (0 <= h => -l <= e /\ e <= h) /\ (h < 0 => h - l <= e /\ e <= 0)

LEMMA CrossingMoves ==
    ASSUME NEW m \in Nat, m > 0, NEW k \in 0 .. m, NEW w \in Nat, NEW a \in Nat, NEW l \in Nat, NEW b \in 0 .. l
    PROVE  /\ (k * w) \div m \in 0 .. w
           /\ Moved(w * b - m * a, ((k * w) \div m) * b - k * a, l)
<1> DEFINE q == (k * w) \div m  kw == k * w  r == kw - m * q  h == w * b - m * a  e == q * b - k * a
<1>1. kw \in Nat /\ q \in Nat /\ m * q <= kw /\ kw < m * q + m
  <2>1. kw \in Nat
    OBVIOUS
  <2> HIDE DEF kw
  <2>2. kw \div m \in Nat /\ m * (kw \div m) <= kw /\ kw < m * (kw \div m) + m
    BY <2>1, QuotientFacts
  <2>3. q = kw \div m
    BY DEF kw
  <2> QED
    BY <2>1, <2>2, <2>3
<1>2. q \in 0 .. w
  <2>1. kw <= m * w
    BY MonotoneNat
  <2> HIDE DEF q, kw
  <2>2. m * q <= m * w
    <3>1. m * q \in Int /\ m * w \in Int
      BY <1>1
    <3> QED
      BY <1>1, <2>1, <3>1
  <2>3. q <= w
    BY <1>1, <2>2, Cancel
  <2> QED
    BY <1>1, <2>3
<1>3. h \in Int /\ e \in Int /\ r \in 0 .. m - 1 /\ r * b \in Nat
  <2> HIDE DEF q, kw
  <2>1. m * q \in Int /\ q * b \in Int /\ w * b \in Int /\ m * a \in Int /\ k * a \in Int
    BY <1>1
  <2>2. r \in 0 .. m - 1
    BY <1>1, <2>1
  <2>3. r * b \in Nat
    BY <2>2
  <2> QED
    BY <2>1, <2>2, <2>3
<1>4. m * e = k * h - r * b
  <2> HIDE DEF q
  <2>1. q \in Nat
    BY <1>1
  <2>2. m * (q * b - k * a) = k * (w * b - m * a) - (k * w - m * q) * b
    BY <2>1
  <2> QED
    BY <2>2
<1>5. r * b <= m * l
  BY <1>3, MonotoneNat
<1> HIDE DEF q, kw, r, h, e
<1>6. k * h \in Int /\ m * h \in Int /\ m * e \in Int /\ m * l \in Int /\ r * b \in Int
  BY <1>3
<1>7. ASSUME 0 <= h PROVE -l <= e /\ e <= h
  <2>1. 0 <= k * h /\ k * h <= m * h
    BY <1>3, <1>7, MonotoneNat
  <2>2. m * e <= m * h
    BY <1>3, <1>4, <1>6, <2>1
  <2>3. m * (-l) <= m * e
    <3>1. m * (-l) = -(m * l)
      OBVIOUS
    <3> QED
      BY <1>4, <1>5, <1>6, <2>1, <3>1
  <2> QED
    BY <1>3, <2>2, <2>3, Cancel
<1>8. ASSUME h < 0 PROVE h - l <= e /\ e <= 0
  <2>1. k * h <= 0 /\ m * h <= k * h
    <3>1. -h \in Nat
      BY <1>3, <1>8
    <3>2. 0 <= k * (-h) /\ k * (-h) <= m * (-h)
      BY <3>1, MonotoneNat
    <3>3. k * (-h) = -(k * h) /\ m * (-h) = -(m * h)
      BY <1>3
    <3> QED
      BY <1>6, <3>2, <3>3
  <2>2. m * e <= m * 0
    BY <1>3, <1>4, <1>6, <2>1
  <2>3. m * (h - l) <= m * e
    <3>1. m * (h - l) = m * h - m * l
      BY <1>3
    <3> QED
      BY <1>4, <1>5, <1>6, <2>1, <3>1
  <2>4. h - l \in Int
    BY <1>3
  <2> QED
    BY <1>3, <2>2, <2>3, <2>4, Cancel
<1>9. Moved(h, e, l)
  BY <1>7, <1>8 DEF Moved
<1> QED
  BY <1>2, <1>9 DEF h, e, q

\* A place on the line or before it, no further from the second end than the crossing, is not
\* cut off with it.
LEMMA CrossingKeeps ==
    ASSUME NEW m \in Nat, m > 0, NEW k \in Nat, NEW w \in Nat, NEW i \in 0 .. k, NEW j \in Nat, j * m <= i * w
    PROVE  j <= (k * w) \div m
<1> DEFINE kw == k * w  q == kw \div m
<1>1. kw \in Nat
  OBVIOUS
<1>2. i * w <= kw
  BY MonotoneNat
<1> HIDE DEF kw
<1>3. q \in Nat /\ kw < m * q + m
  BY <1>1, QuotientFacts
<1> HIDE DEF q
<1>4. m * j <= kw
  <2>1. m * j = j * m /\ j * m \in Int /\ i * w \in Int
    OBVIOUS
  <2> QED
    BY <1>1, <1>2, <2>1
<1>5. j < q + 1
  <2> SUFFICES ASSUME q + 1 <= j PROVE FALSE
    BY <1>3
  <2>1. m * (q + 1) <= m * j
    BY <1>3, Monotone
  <2>2. m * (q + 1) = m * q + m /\ m * q \in Int /\ m * j \in Int
    BY <1>3
  <2> QED
    BY <1>1, <1>3, <1>4, <2>1, <2>2
<1> QED
  BY <1>3, <1>5 DEF q, kw

-----------------------------------------------------------------------------
(* The line that was asked for, seen so that it runs right and down.       *)

UX(a) == XInc(asked) * a
VY(b) == YInc(asked) * b

\* How far a cell is off that line, times its long side; to the left of it counts less than 0.
Off(a, b) == (UX(a) - UX(asked.x1)) * Dy(asked) - (VY(b) - VY(asked.y1)) * Dx(asked)

\* The line goes with the one that was asked for, or against it.
Along(i) == 0 <= i * (UX(seg.x2) - UX(seg.x1)) /\ 0 <= i * (VY(seg.y2) - VY(seg.y1))

Off1 == Off(seg.x1, seg.y1)
Off2 == Off(seg.x2, seg.y2)
InColumns == Bits1 \cap {"left", "right"} = {}

\* Before the ends are exchanged: the second end is as it was asked for, the first is too, or has
\* been moved to a column, or to a row after that, and no cell of the canvas was cut off.
First ==
    /\ Along(1)
    /\ seg.x2 = asked.x2 /\ seg.y2 = asked.y2
    /\ UX(asked.x1) <= UX(seg.x1) /\ VY(asked.y1) <= VY(seg.y1)
    /\ \/ seg.x1 = asked.x1 /\ seg.y1 = asked.y1
       \/ Off1 \in -Long(asked) .. 0 /\ (InColumns \/ BothBeyond)
       \/ Off1 \in -Long(asked) .. Long(asked) /\ (Bits1 = {} \/ BothBeyond)
    /\ \A c \in OnCols \X OnRows :
          OnSegment(c, asked) => UX(seg.x1) <= UX(c[1]) /\ VY(seg.y1) <= VY(c[2])

\* Afterwards: the second end is on the canvas, and the first was the second.
Second ==
    /\ Along(-1)
    /\ Bits2 = {} /\ Off2 \in -Long(asked) .. Long(asked)
    /\ \/ Off1 = 0
       \/ Off1 \in -Long(asked) .. 2 * Long(asked) /\ (InColumns \/ BothBeyond)
       \/ Off1 \in -(2 * Long(asked)) .. 2 * Long(asked) /\ (Bits1 = {} \/ BothBeyond)

Near == Off1 \in -(2 * Long(asked)) .. 2 * Long(asked) /\ Off2 \in -(2 * Long(asked)) .. 2 * Long(asked)

NoneOnIt == \A c \in OnCols \X OnRows : ~OnSegment(c, asked)

AskedInv ==
    /\ asked \in Segment
    /\ stage = "clip" => First \/ Second
    /\ stage = "beside" => NoneOnIt
    /\ stage \in {"draw", "drawn"} => Near

LEMMA AskedFacts ==
    ASSUME asked \in Segment
    PROVE  /\ asked.x1 \in Int /\ asked.x2 \in Int /\ asked.y1 \in Int /\ asked.y2 \in Int
           /\ XInc(asked) \in {-1, 1} /\ YInc(asked) \in {-1, 1}
           /\ Long(asked) \in Nat /\ Dx(asked) \in 0 .. Long(asked) /\ Dy(asked) \in 0 .. Long(asked)
           /\ asked.x2 - asked.x1 = XInc(asked) * Dx(asked) /\ asked.y2 - asked.y1 = YInc(asked) * Dy(asked)
<1>1. asked.x1 \in Int /\ asked.x2 \in Int /\ asked.y1 \in Int /\ asked.y2 \in Int
  BY SegmentFields
<1>2. Dx(asked) \in Nat /\ Dy(asked) \in Nat
  BY <1>1 DEF Dx, Dy, Abs
<1>3. /\ Long(asked) \in Nat /\ Dx(asked) \in 0 .. Long(asked) /\ Dy(asked) \in 0 .. Long(asked)
  BY <1>2 DEF Long, Steep
<1>4. /\ XInc(asked) \in {-1, 1} /\ YInc(asked) \in {-1, 1}
      /\ asked.x2 - asked.x1 = XInc(asked) * Dx(asked) /\ asked.y2 - asked.y1 = YInc(asked) * Dy(asked)
  BY <1>1 DEF Dx, Dy, Abs, XInc, YInc
<1> QED
  BY <1>1, <1>2, <1>3, <1>4

\* A sign taken twice is none.
LEMMA SignTwice ==
    ASSUME NEW u \in {-1, 1}, NEW a \in Int
    PROVE  u * a \in Int /\ u * (u * a) = a
BY SMT

LEMMA SeenFacts ==
    ASSUME asked \in Segment, NEW a \in Int, NEW b \in Int
    PROVE  /\ UX(a) \in Int /\ VY(b) \in Int /\ Off(a, b) \in Int
           /\ XInc(asked) * UX(a) = a /\ YInc(asked) * VY(b) = b
<1>1. /\ UX(a) \in Int /\ VY(b) \in Int
      /\ XInc(asked) * UX(a) = a /\ YInc(asked) * VY(b) = b
  BY AskedFacts, SignTwice DEF UX, VY
<1>2. /\ UX(asked.x1) \in Int /\ VY(asked.y1) \in Int
  BY AskedFacts, SignTwice DEF UX, VY
<1>3. Off(a, b) \in Int
  BY <1>1, <1>2, AskedFacts, ProductType DEF Off
<1> QED
  BY <1>1, <1>3

LEMMA ErrorIsOff ==
    ASSUME asked \in Segment, NEW a \in Int, NEW b \in Int
    PROVE  Error(<<a, b>>, asked) = 2 * Abs(Off(a, b))
<1> DEFINE u == XInc(asked)  v == YInc(asked)  p == a - asked.x1  q == b - asked.y1  m == Dy(asked)  n == Dx(asked)
<1>1. u \in {-1, 1} /\ v \in {-1, 1} /\ p \in Int /\ q \in Int /\ m \in Nat /\ n \in Nat
  BY AskedFacts
<1>2. Error(<<a, b>>, asked) = 2 * Abs(p * (v * m) - q * (u * n))
  BY AskedFacts DEF Error
<1>3. Off(a, b) = (u * p) * m - (v * q) * n
  <2>1. UX(a) - UX(asked.x1) = u * p /\ VY(b) - VY(asked.y1) = v * q
    BY AskedFacts DEF UX, VY
  <2> QED
    BY <2>1 DEF Off
<1> HIDE DEF u, v, p, q, m, n
<1>4. CASE u = 1 /\ v = 1
  BY <1>4, <1>1, <1>2, <1>3
<1>5. CASE u = -1 /\ v = -1
  BY <1>5, <1>1, <1>2, <1>3 DEF Abs
<1>6. CASE u = 1 /\ v = -1
  BY <1>6, <1>1, <1>2, <1>3 DEF Abs
<1>7. CASE u = -1 /\ v = 1
  BY <1>7, <1>1, <1>2, <1>3 DEF Abs
<1> QED
  BY <1>1, <1>4, <1>5, <1>6, <1>7

\* Of two places, how much further off the line the one is than the other.
LEMMA OffApart ==
    ASSUME asked \in Segment, NEW a \in Int, NEW b \in Int, NEW c \in Int, NEW h \in Int
    PROVE  Off(a, b) - Off(c, h) = (UX(a) - UX(c)) * Dy(asked) - (VY(b) - VY(h)) * Dx(asked)
<1> DEFINE a1 == UX(a)  b1 == VY(b)  c1 == UX(c)  d1 == VY(h)  e1 == UX(asked.x1)  f1 == VY(asked.y1)
<1>1. a1 \in Int /\ b1 \in Int /\ c1 \in Int /\ d1 \in Int
  BY SeenFacts
<1>2. e1 \in Int /\ f1 \in Int
  BY AskedFacts, SeenFacts
<1>3. Dx(asked) \in Int /\ Dy(asked) \in Int
  BY AskedFacts
<1>4. /\ Off(a, b) = (a1 - e1) * Dy(asked) - (b1 - f1) * Dx(asked)
      /\ Off(c, h) = (c1 - e1) * Dy(asked) - (d1 - f1) * Dx(asked)
  BY DEF Off
<1> HIDE DEF a1, b1, c1, d1, e1, f1
<1>5. Off(a, b) - Off(c, h) = (a1 - c1) * Dy(asked) - (b1 - d1) * Dx(asked)
  BY <1>1, <1>2, <1>3, <1>4
<1> QED
  BY <1>5 DEF a1, b1, c1, d1

\* The first end is moved to the column at the edge, towards the second.
LEMMA ClipXMoves ==
    ASSUME Types, asked \in Segment, ClipX, NEW i \in {-1, 1}, Along(i)
    PROVE  \E m \in Nat, k \in Nat, w \in Nat :
              /\ 0 < m /\ k <= m
              /\ i * (UX(seg.x2) - UX(seg.x1)) = m /\ i * (UX(seg.x2) - UX(EdgeX)) = k
              /\ i * (VY(seg.y2) - VY(seg.y1)) = w
              /\ seg' = [seg EXCEPT !.x1 = EdgeX, !.y1 = seg'.y1] /\ seg'.y1 \in Int
              /\ i * (VY(seg.y2) - VY(seg'.y1)) = (k * w) \div m
<1> DEFINE u == XInc(asked)  v == YInc(asked)
           m == i * (UX(seg.x2) - UX(seg.x1))
           k == i * (UX(seg.x2) - UX(EdgeX))
           w == i * (VY(seg.y2) - VY(seg.y1))
<1>1. /\ seg.x1 \in Int /\ seg.x2 \in Int /\ seg.y1 \in Int /\ seg.y2 \in Int
      /\ seg' = [seg EXCEPT !.x1 = EdgeX, !.y1 = CrossY(EdgeX)]
  BY SegmentFields DEF Types, ClipX
<1>2. u \in {-1, 1} /\ v \in {-1, 1}
  BY AskedFacts
<1>3. \/ seg.x1 < 0 /\ 0 <= seg.x2 /\ EdgeX = 0
      \/ seg.x1 >= Width /\ seg.x2 < Width /\ EdgeX = Width - 1
  BY <1>1, CanvasAssumption DEF ClipX, BothBeyond, Bits1, Bits2, Bits, EdgeX
<1>4. EdgeX \in Int
  BY CanvasAssumption DEF EdgeX
<1>5. /\ m = i * (u * (seg.x2 - seg.x1)) /\ k = i * (u * (seg.x2 - EdgeX))
      /\ w = i * (v * (seg.y2 - seg.y1))
  BY <1>1, <1>2, <1>4 DEF UX, VY
<1>6. 0 <= m /\ 0 <= w
  BY DEF Along
<1> HIDE DEF u, v, m, k, w
<1>7. m \in Nat /\ k \in Nat /\ w \in Nat /\ 0 < m /\ k <= m
  <2>1. i * u \in {-1, 1} /\ i * v \in {-1, 1}
    BY <1>2
  <2>2. m = (i * u) * (seg.x2 - seg.x1) /\ k = (i * u) * (seg.x2 - EdgeX) /\ w = (i * v) * (seg.y2 - seg.y1)
    BY <1>1, <1>2, <1>4, <1>5
  <2> QED
    BY <1>1, <1>3, <1>4, <1>6, <2>1, <2>2, CanvasAssumption
<1>8. /\ seg.x2 - seg.x1 = (i * u) * m /\ seg.x2 - EdgeX = (i * u) * k
      /\ seg.y2 - seg.y1 = (i * v) * w /\ i * u \in {-1, 1} /\ i * v \in {-1, 1}
  BY <1>1, <1>2, <1>4, <1>5
<1> DEFINE q == (k * w) \div m
<1>9. q \in Int
  BY <1>7, QuotientType, MonotoneNat
<1>10. CDiv((seg.x2 - EdgeX) * (seg.y2 - seg.y1), seg.x2 - seg.x1) = (i * v) * q
  <2> DEFINE g == i * u  h == i * v  kw == k * w
  <2>1. g \in {-1, 1} /\ h \in {-1, 1} /\ kw \in Nat
    BY <1>7, <1>8
  <2>2. (seg.x2 - EdgeX) * (seg.y2 - seg.y1) = (g * k) * (h * w) /\ seg.x2 - seg.x1 = g * m
    BY <1>8
  <2> HIDE DEF g, h
  <2>3. (g * k) * (h * w) = g * h * (k * w)
    BY <1>7, <2>1
  <2> HIDE DEF kw
  <2>4. CDiv(g * h * kw, g * m) = h * (kw \div m)
    BY <1>7, <2>1, SignedQuotient
  <2> QED
    BY <2>2, <2>3, <2>4 DEF kw, h
<1>11. CrossY(EdgeX) = seg.y2 - (i * v) * q
  BY <1>10 DEF CrossY
<1> HIDE DEF q
<1>12. seg'.y1 = seg.y2 - (i * v) * q /\ seg'.y1 \in Int /\ seg' = [seg EXCEPT !.x1 = EdgeX, !.y1 = seg'.y1]
  <2>1. CrossY(EdgeX) \in Int
    BY <1>1, <1>8, <1>9, <1>11
  <2>2. seg'.y1 = CrossY(EdgeX)
    BY <1>1 DEF Types, Segment
  <2> QED
    BY <1>1, <1>11, <2>1, <2>2
<1>13. i * (VY(seg.y2) - VY(seg'.y1)) = q
  <2>1. VY(seg.y2) - VY(seg'.y1) = v * ((i * v) * q)
    BY <1>1, <1>2, <1>8, <1>9, <1>12 DEF VY, v
  <2> QED
    BY <1>2, <1>9, <2>1
<1> QED
  BY <1>7, <1>12, <1>13 DEF m, k, w, q
\* The first end is moved to the row at the edge, towards the second.
LEMMA ClipYMoves ==
    ASSUME Types, asked \in Segment, ClipY, NEW i \in {-1, 1}, Along(i)
    PROVE  \E m \in Nat, k \in Nat, w \in Nat :
              /\ 0 < m /\ k <= m
              /\ i * (VY(seg.y2) - VY(seg.y1)) = m /\ i * (VY(seg.y2) - VY(EdgeY)) = k
              /\ i * (UX(seg.x2) - UX(seg.x1)) = w
              /\ seg' = [seg EXCEPT !.x1 = seg'.x1, !.y1 = EdgeY] /\ seg'.x1 \in Int
              /\ i * (UX(seg.x2) - UX(seg'.x1)) = (k * w) \div m
<1> DEFINE u == YInc(asked)  v == XInc(asked)
           m == i * (VY(seg.y2) - VY(seg.y1))
           k == i * (VY(seg.y2) - VY(EdgeY))
           w == i * (UX(seg.x2) - UX(seg.x1))
<1>1. /\ seg.y1 \in Int /\ seg.y2 \in Int /\ seg.x1 \in Int /\ seg.x2 \in Int
      /\ seg' = [seg EXCEPT !.x1 = CrossX(EdgeY), !.y1 = EdgeY]
  BY SegmentFields DEF Types, ClipY
<1>2. u \in {-1, 1} /\ v \in {-1, 1}
  BY AskedFacts
<1>3. \/ seg.y1 < 0 /\ 0 <= seg.y2 /\ EdgeY = 0
      \/ seg.y1 >= Height /\ seg.y2 < Height /\ EdgeY = Height - 1
  BY <1>1, CanvasAssumption DEF ClipY, BothBeyond, Bits1, Bits2, Bits, EdgeY
<1>4. EdgeY \in Int
  BY CanvasAssumption DEF EdgeY
<1>5. /\ m = i * (u * (seg.y2 - seg.y1)) /\ k = i * (u * (seg.y2 - EdgeY))
      /\ w = i * (v * (seg.x2 - seg.x1))
  BY <1>1, <1>2, <1>4 DEF VY, UX
<1>6. 0 <= m /\ 0 <= w
  BY DEF Along
<1> HIDE DEF u, v, m, k, w
<1>7. m \in Nat /\ k \in Nat /\ w \in Nat /\ 0 < m /\ k <= m
  <2>1. i * u \in {-1, 1} /\ i * v \in {-1, 1}
    BY <1>2
  <2>2. m = (i * u) * (seg.y2 - seg.y1) /\ k = (i * u) * (seg.y2 - EdgeY) /\ w = (i * v) * (seg.x2 - seg.x1)
    BY <1>1, <1>2, <1>4, <1>5
  <2> QED
    BY <1>1, <1>3, <1>4, <1>6, <2>1, <2>2, CanvasAssumption
<1>8. /\ seg.y2 - seg.y1 = (i * u) * m /\ seg.y2 - EdgeY = (i * u) * k
      /\ seg.x2 - seg.x1 = (i * v) * w /\ i * u \in {-1, 1} /\ i * v \in {-1, 1}
  BY <1>1, <1>2, <1>4, <1>5
<1> DEFINE q == (k * w) \div m
<1>9. q \in Int
  BY <1>7, QuotientType, MonotoneNat
<1>10. CDiv((seg.y2 - EdgeY) * (seg.x2 - seg.x1), seg.y2 - seg.y1) = (i * v) * q
  <2> DEFINE g == i * u  h == i * v  kw == k * w
  <2>1. g \in {-1, 1} /\ h \in {-1, 1} /\ kw \in Nat
    BY <1>7, <1>8
  <2>2. (seg.y2 - EdgeY) * (seg.x2 - seg.x1) = (g * k) * (h * w) /\ seg.y2 - seg.y1 = g * m
    BY <1>8
  <2> HIDE DEF g, h
  <2>3. (g * k) * (h * w) = g * h * (k * w)
    BY <1>7, <2>1
  <2> HIDE DEF kw
  <2>4. CDiv(g * h * kw, g * m) = h * (kw \div m)
    BY <1>7, <2>1, SignedQuotient
  <2> QED
    BY <2>2, <2>3, <2>4 DEF kw, h
<1>11. CrossX(EdgeY) = seg.x2 - (i * v) * q
  BY <1>10 DEF CrossX
<1> HIDE DEF q
<1>12. seg'.x1 = seg.x2 - (i * v) * q /\ seg'.x1 \in Int /\ seg' = [seg EXCEPT !.x1 = seg'.x1, !.y1 = EdgeY]
  <2>1. CrossX(EdgeY) \in Int
    BY <1>1, <1>8, <1>9, <1>11
  <2>2. seg'.x1 = CrossX(EdgeY)
    BY <1>1 DEF Types, Segment
  <2> QED
    BY <1>1, <1>11, <2>1, <2>2
<1>13. i * (UX(seg.x2) - UX(seg'.x1)) = q
  <2>1. UX(seg.x2) - UX(seg'.x1) = v * ((i * v) * q)
    BY <1>1, <1>2, <1>8, <1>9, <1>12 DEF UX, v
  <2> QED
    BY <1>2, <1>9, <2>1
<1> QED
  BY <1>7, <1>12, <1>13 DEF m, k, w, q
\* A line that is not asked for again is seen as before.
LEMMA SeenAgain ==
    ASSUME asked' = asked
    PROVE  /\ Off1' = Off(seg'.x1, seg'.y1) /\ Off2' = Off(seg'.x2, seg'.y2)
           /\ \A i \in {-1, 1} :
                 Along(i)' <=> /\ 0 <= i * (UX(seg'.x2) - UX(seg'.x1))
                              /\ 0 <= i * (VY(seg'.y2) - VY(seg'.y1))
           /\ Long(asked') = Long(asked)
BY DEF Off1, Off2, Off, UX, VY, Along

\* What clipping to a column changes.
LEMMA ClipXFacts ==
    ASSUME Types, asked \in Segment, ClipX, NEW i \in {-1, 1}, Along(i)
    PROVE  /\ asked' = asked /\ seg'.x2 = seg.x2 /\ seg'.y2 = seg.y2 /\ seg' \in Segment
           /\ Along(i)' /\ (InColumns \/ BothBeyond)'
           /\ i * UX(seg.x1) <= i * UX(seg'.x1) /\ i * VY(seg.y1) <= i * VY(seg'.y1)
           /\ Moved(i * (Off1 - Off2), i * (Off(seg'.x1, seg'.y1) - Off2), Long(asked))
<1> DEFINE U1 == UX(seg.x1)  U2 == UX(seg.x2)  V1 == VY(seg.y1)  V2 == VY(seg.y2)
           UN == UX(EdgeX)  VN == VY(seg'.y1)
           A == Dx(asked)  B == Dy(asked)  L == Long(asked)
<1>1. /\ seg.x1 \in Int /\ seg.x2 \in Int /\ seg.y1 \in Int /\ seg.y2 \in Int /\ seg \in Segment
  BY SegmentFields DEF Types
<1>2. asked' = asked
  BY DEF ClipX
<1>3. PICK m \in Nat, k \in Nat, w \in Nat :
         /\ 0 < m /\ k <= m
         /\ i * (U2 - U1) = m /\ i * (U2 - UN) = k /\ i * (V2 - V1) = w
         /\ seg' = [seg EXCEPT !.x1 = EdgeX, !.y1 = seg'.y1] /\ seg'.y1 \in Int
         /\ i * (V2 - VN) = (k * w) \div m
  BY ClipXMoves
<1>4. EdgeX \in Int
  BY CanvasAssumption DEF EdgeX
<1>5. seg'.x1 = EdgeX /\ seg'.x2 = seg.x2 /\ seg'.y2 = seg.y2 /\ seg' \in Segment
  BY <1>1, <1>3, <1>4 DEF Segment
<1>6. /\ U1 \in Int /\ U2 \in Int /\ V1 \in Int /\ V2 \in Int /\ UN \in Int /\ VN \in Int
      /\ Off1 \in Int /\ Off2 \in Int /\ Off(seg'.x1, seg'.y1) \in Int
  <2>1. Off(seg.x1, seg.y1) \in Int /\ Off(seg.x2, seg.y2) \in Int /\ Off(EdgeX, seg'.y1) \in Int
    BY <1>1, <1>3, <1>4, SeenFacts
  <2>2. U1 \in Int /\ U2 \in Int /\ V1 \in Int /\ V2 \in Int /\ UN \in Int /\ VN \in Int
    BY <1>1, <1>3, <1>4, SeenFacts
  <2>3. Off(seg'.x1, seg'.y1) = Off(EdgeX, seg'.y1)
    BY <1>5
  <2> QED
    BY <2>1, <2>2, <2>3 DEF Off1, Off2
<1>7. L \in Nat /\ A \in 0 .. L /\ B \in 0 .. L
  BY AskedFacts
<1> DEFINE q == (k * w) \div m
<1>8. q \in 0 .. w /\ Moved(w * A - m * B, q * A - k * B, L)
  BY <1>3, <1>7, CrossingMoves
<1>9. Off1 - Off2 = (U1 - U2) * B - (V1 - V2) * A
  BY <1>1, OffApart DEF Off1, Off2
<1>10. Off(seg'.x1, seg'.y1) - Off2 = (UN - U2) * B - (VN - V2) * A
  <2>1. Off(seg'.x1, seg'.y1) = Off(EdgeX, seg'.y1)
    BY <1>5
  <2> QED
    BY <1>1, <1>3, <1>4, <2>1, OffApart DEF Off2
<1>12. i * (V2 - VN) = q
  BY <1>3
<1>13. /\ 0 < m /\ k <= m
       /\ i * (U2 - U1) = m /\ i * (U2 - UN) = k /\ i * (V2 - V1) = w
  BY <1>3
<1>14. Along(i)'
  <2>1. 0 <= i * (U2 - UN) /\ 0 <= i * (V2 - VN)
    BY <1>8, <1>12, <1>13
  <2> QED
    BY <1>2, <1>5, <2>1, SeenAgain
<1>15. (InColumns \/ BothBeyond)'
  <2>1. \/ 0 <= seg.x2 /\ EdgeX = 0
        \/ seg.x2 < Width /\ EdgeX = Width - 1
    BY <1>1, CanvasAssumption DEF ClipX, BothBeyond, Bits1, Bits2, Bits, EdgeX
  <2> QED
    BY <1>1, <1>5, <2>1, CanvasAssumption DEF InColumns, BothBeyond, Bits1, Bits2, Bits
<1> HIDE DEF U1, U2, V1, V2, UN, VN, A, B, L, q
<1>16. i * U1 <= i * UN /\ i * V1 <= i * VN
  BY <1>6, <1>8, <1>12, <1>13
<1>17. /\ i * (Off1 - Off2) = w * A - m * B /\ i * (Off(seg'.x1, seg'.y1) - Off2) = q * A - k * B
  <2>1. q \in Int /\ A \in Int /\ B \in Int
    BY <1>7, <1>8
  <2>2. i * (Off1 - Off2) = (i * (V2 - V1)) * A - (i * (U2 - U1)) * B
    BY <1>6, <1>9, <2>1
  <2>3. i * (Off(seg'.x1, seg'.y1) - Off2) = (i * (V2 - VN)) * A - (i * (U2 - UN)) * B
    <3>1. \A h \in Int : h = (UN - U2) * B - (VN - V2) * A =>
                i * h = (i * (V2 - VN)) * A - (i * (U2 - UN)) * B
      BY <1>6, <2>1
    <3>2. Off(seg'.x1, seg'.y1) - Off2 \in Int
      BY <1>6
    <3> QED
      BY <1>10, <3>1, <3>2
  <2> QED
    BY <1>12, <1>13, <2>2, <2>3
<1> QED
  BY <1>2, <1>5, <1>8, <1>14, <1>15, <1>16, <1>17 DEF U1, V1, UN, VN, L
\* What clipping to a row changes.
LEMMA ClipYFacts ==
    ASSUME Types, asked \in Segment, ClipY, NEW i \in {-1, 1}, Along(i)
    PROVE  /\ asked' = asked /\ seg'.x2 = seg.x2 /\ seg'.y2 = seg.y2 /\ seg' \in Segment
           /\ Along(i)' /\ (Bits1 = {} \/ BothBeyond)'
           /\ i * UX(seg.x1) <= i * UX(seg'.x1) /\ i * VY(seg.y1) <= i * VY(seg'.y1)
           /\ Moved(i * (Off2 - Off1), i * (Off2 - Off(seg'.x1, seg'.y1)), Long(asked))
<1> DEFINE U1 == UX(seg.x1)  U2 == UX(seg.x2)  V1 == VY(seg.y1)  V2 == VY(seg.y2)
           UN == UX(seg'.x1)  VN == VY(EdgeY)
           A == Dx(asked)  B == Dy(asked)  L == Long(asked)
<1>1. /\ seg.x1 \in Int /\ seg.x2 \in Int /\ seg.y1 \in Int /\ seg.y2 \in Int /\ seg \in Segment
  BY SegmentFields DEF Types
<1>2. asked' = asked
  BY DEF ClipY
<1>3. PICK m \in Nat, k \in Nat, w \in Nat :
         /\ 0 < m /\ k <= m
         /\ i * (V2 - V1) = m /\ i * (V2 - VN) = k /\ i * (U2 - U1) = w
         /\ seg' = [seg EXCEPT !.x1 = seg'.x1, !.y1 = EdgeY] /\ seg'.x1 \in Int
         /\ i * (U2 - UN) = (k * w) \div m
  BY ClipYMoves
<1>4. EdgeY \in Int
  BY CanvasAssumption DEF EdgeY
<1>5. seg'.y1 = EdgeY /\ seg'.x2 = seg.x2 /\ seg'.y2 = seg.y2 /\ seg' \in Segment
  BY <1>1, <1>3, <1>4 DEF Segment
<1>6. /\ U1 \in Int /\ U2 \in Int /\ V1 \in Int /\ V2 \in Int /\ UN \in Int /\ VN \in Int
      /\ Off1 \in Int /\ Off2 \in Int /\ Off(seg'.x1, seg'.y1) \in Int
  <2>1. Off(seg.x1, seg.y1) \in Int /\ Off(seg.x2, seg.y2) \in Int /\ Off(seg'.x1, EdgeY) \in Int
    BY <1>1, <1>3, <1>4, SeenFacts
  <2>2. U1 \in Int /\ U2 \in Int /\ V1 \in Int /\ V2 \in Int /\ UN \in Int /\ VN \in Int
    BY <1>1, <1>3, <1>4, SeenFacts
  <2>3. Off(seg'.x1, seg'.y1) = Off(seg'.x1, EdgeY)
    BY <1>5
  <2> QED
    BY <2>1, <2>2, <2>3 DEF Off1, Off2
<1>7. L \in Nat /\ A \in 0 .. L /\ B \in 0 .. L
  BY AskedFacts
<1> DEFINE q == (k * w) \div m
<1>8. q \in 0 .. w /\ Moved(w * B - m * A, q * B - k * A, L)
  BY <1>3, <1>7, CrossingMoves
<1>9. Off1 - Off2 = (U1 - U2) * B - (V1 - V2) * A
  BY <1>1, OffApart DEF Off1, Off2
<1>10. Off(seg'.x1, seg'.y1) - Off2 = (UN - U2) * B - (VN - V2) * A
  <2>1. Off(seg'.x1, seg'.y1) = Off(seg'.x1, EdgeY)
    BY <1>5
  <2> QED
    BY <1>1, <1>3, <1>4, <2>1, OffApart DEF Off2
<1>12. i * (U2 - UN) = q
  BY <1>3
<1>13. /\ 0 < m /\ k <= m
       /\ i * (V2 - V1) = m /\ i * (V2 - VN) = k /\ i * (U2 - U1) = w
  BY <1>3
<1>14. Along(i)'
  <2>1. 0 <= i * (U2 - UN) /\ 0 <= i * (V2 - VN)
    BY <1>8, <1>12, <1>13
  <2> QED
    BY <1>2, <1>5, <2>1, SeenAgain
<1>15. (Bits1 = {} \/ BothBeyond)'
  <2>1. \/ 0 <= seg.y2 /\ EdgeY = 0
        \/ seg.y2 < Height /\ EdgeY = Height - 1
    BY <1>1, CanvasAssumption DEF ClipY, BothBeyond, Bits1, Bits2, Bits, EdgeY
  <2>2. 0 <= seg.x1 /\ seg.x1 < Width
    BY <1>1, CanvasAssumption DEF ClipY, Bits1, Bits
  <2>3. seg'.x1 \in seg.x1 .. seg.x2 \/ seg'.x1 \in seg.x2 .. seg.x1
    <3> DEFINE u == XInc(asked)  a1 == seg.x1  a2 == seg.x2  an == seg'.x1
    <3>1. /\ u \in {-1, 1} /\ a1 \in Int /\ a2 \in Int /\ an \in Int
      BY <1>1, <1>3, AskedFacts
    <3>2. U1 = u * a1 /\ U2 = u * a2 /\ UN = u * an
      BY DEF UX
    <3> HIDE DEF u, a1, a2, an, U1, U2, UN, q
    <3>3. an \in a1 .. a2 \/ an \in a2 .. a1
      BY <1>8, <1>12, <1>13, <3>1, <3>2
    <3> QED
      BY <3>3 DEF a1, a2, an
  <2>4. seg'.x1 \in Int /\ seg'.y1 = EdgeY /\ seg'.x2 = seg.x2 /\ seg'.y2 = seg.y2
    BY <1>3, <1>5
  <2>5. /\ Bits1' = Bits(seg'.x1, EdgeY) /\ Bits2' = Bits(seg.x2, seg.y2)
        /\ BothBeyond' <=> Bits1' \cap Bits2' # {}
    BY <2>4 DEF BothBeyond, Bits1, Bits2, Bits
  <2>6. CASE seg'.x1 < 0
    <3>1. seg.x2 < 0
      BY <1>1, <2>2, <2>3, <2>4, <2>6
    <3>2. "left" \in Bits(seg'.x1, EdgeY) /\ "left" \in Bits(seg.x2, seg.y2)
      BY <2>6, <3>1 DEF Bits
    <3> QED
      BY <2>5, <3>2
  <2>7. CASE seg'.x1 >= Width
    <3>1. 0 <= seg.x2 /\ seg.x2 >= Width /\ 0 <= seg'.x1
      BY <1>1, <2>2, <2>3, <2>4, <2>7, CanvasAssumption
    <3>2. "right" \in Bits(seg'.x1, EdgeY) /\ "right" \in Bits(seg.x2, seg.y2)
      BY <1>1, <2>4, <2>7, <3>1 DEF Bits
    <3> QED
      BY <2>5, <3>2
  <2>8. CASE EdgeY < 0
    <3>1. seg.y2 < 0
      BY <1>1, <2>1, <2>8, CanvasAssumption
    <3>2. "top" \in Bits(seg'.x1, EdgeY) /\ "top" \in Bits(seg.x2, seg.y2)
      BY <2>8, <3>1 DEF Bits
    <3> QED
      BY <2>5, <3>2
  <2>9. CASE EdgeY >= Height
    <3>1. 0 <= seg.y2 /\ seg.y2 >= Height /\ 0 <= EdgeY
      BY <1>1, <1>4, <2>1, <2>9, CanvasAssumption
    <3>2. "bottom" \in Bits(seg'.x1, EdgeY) /\ "bottom" \in Bits(seg.x2, seg.y2)
      BY <1>1, <1>4, <2>9, <3>1 DEF Bits
    <3> QED
      BY <2>5, <3>2
  <2>10. CASE ~(seg'.x1 < 0) /\ ~(seg'.x1 >= Width) /\ ~(EdgeY < 0) /\ ~(EdgeY >= Height)
    BY <2>5, <2>10 DEF Bits
  <2> QED
    BY <2>6, <2>7, <2>8, <2>9, <2>10
<1> HIDE DEF U1, U2, V1, V2, UN, VN, A, B, L, q
<1>16. i * U1 <= i * UN /\ i * V1 <= i * VN
  BY <1>6, <1>8, <1>12, <1>13
<1>17. /\ i * (Off2 - Off1) = w * B - m * A /\ i * (Off2 - Off(seg'.x1, seg'.y1)) = q * B - k * A
  <2>1. q \in Int /\ A \in Int /\ B \in Int
    BY <1>7, <1>8
  <2>2. \A h \in Int : -h = (U1 - U2) * B - (V1 - V2) * A =>
           i * h = (i * (U2 - U1)) * B - (i * (V2 - V1)) * A
    BY <1>6, <2>1
  <2>3. \A h \in Int : -h = (UN - U2) * B - (VN - V2) * A =>
           i * h = (i * (U2 - UN)) * B - (i * (V2 - VN)) * A
    BY <1>6, <2>1
  <2>4. /\ Off2 - Off1 \in Int /\ Off1 - Off2 = -(Off2 - Off1)
        /\ Off2 - Off(seg'.x1, seg'.y1) \in Int /\ Off(seg'.x1, seg'.y1) - Off2 = -(Off2 - Off(seg'.x1, seg'.y1))
    BY <1>6
  <2>5. i * (Off2 - Off1) = (i * (U2 - U1)) * B - (i * (V2 - V1)) * A
    BY <1>9, <2>2, <2>4
  <2>6. i * (Off2 - Off(seg'.x1, seg'.y1)) = (i * (U2 - UN)) * B - (i * (V2 - VN)) * A
    BY <1>10, <2>3, <2>4
  <2> QED
    BY <1>12, <1>13, <2>5, <2>6
<1> QED
  BY <1>2, <1>5, <1>8, <1>14, <1>15, <1>16, <1>17 DEF U1, V1, UN, VN, L
\* Proportions.
LEMMA NoFurther ==
    ASSUME NEW b \in Nat, 0 < b, NEW a \in Nat, NEW i \in Nat, NEW j \in Nat, NEW m \in Nat, NEW w \in Nat,
           j * b = i * a, m * a <= w * b
    PROVE  j * m <= i * w
<1>1. i * (m * a) <= i * (w * b)
  <2>1. m * a \in Int /\ w * b \in Int
    OBVIOUS
  <2> QED
    BY <2>1, Monotone
<1>2. b * (j * m) = (j * b) * m /\ (i * a) * m = i * (m * a) /\ b * (i * w) = i * (w * b)
  OBVIOUS
<1>3. b * (j * m) <= b * (i * w)
  BY <1>1, <1>2
<1>4. j * m \in Int /\ i * w \in Int
  OBVIOUS
<1> QED
  BY <1>3, <1>4, Cancel

\* The ends of the line that was asked for, and the cells of the canvas on it.
LEMMA EndsSeen ==
    ASSUME asked \in Segment
    PROVE  /\ UX(asked.x2) - UX(asked.x1) = Dx(asked) /\ VY(asked.y2) - VY(asked.y1) = Dy(asked)
           /\ Off(asked.x1, asked.y1) = 0 /\ Off(asked.x2, asked.y2) = 0
<1> DEFINE u == XInc(asked)  v == YInc(asked)  m == Dy(asked)  n == Dx(asked)
<1>1. u \in {-1, 1} /\ v \in {-1, 1} /\ m \in Nat /\ n \in Nat
  BY AskedFacts
<1>2. /\ asked.x1 \in Int /\ asked.x2 \in Int /\ asked.y1 \in Int /\ asked.y2 \in Int
      /\ asked.x2 - asked.x1 = u * n /\ asked.y2 - asked.y1 = v * m
  BY AskedFacts
<1> HIDE DEF u, v, m, n
<1>3. u * asked.x2 - u * asked.x1 = n /\ v * asked.y2 - v * asked.y1 = m
  <2>1. u * (u * n) = n /\ v * (v * m) = m
    BY <1>1, SignTwice
  <2>2. /\ u * asked.x2 - u * asked.x1 = u * (asked.x2 - asked.x1)
        /\ v * asked.y2 - v * asked.y1 = v * (asked.y2 - asked.y1)
    BY <1>1, <1>2
  <2> QED
    BY <1>2, <2>1, <2>2
<1>4. UX(asked.x2) - UX(asked.x1) = n /\ VY(asked.y2) - VY(asked.y1) = m
  BY <1>3 DEF UX, VY, u, v
<1>5. UX(asked.x1) - UX(asked.x1) = 0 /\ VY(asked.y1) - VY(asked.y1) = 0
  <2>1. UX(asked.x1) \in Int /\ VY(asked.y1) \in Int
    BY <1>2, SeenFacts
  <2> QED
    BY <2>1
<1>6. Off(asked.x1, asked.y1) = 0 * m - 0 * n /\ Off(asked.x2, asked.y2) = n * m - m * n
  BY <1>4, <1>5 DEF Off, m, n
<1>7. Off(asked.x1, asked.y1) = 0 /\ Off(asked.x2, asked.y2) = 0
  BY <1>1, <1>6
<1> QED
  BY <1>4, <1>7 DEF m, n

LEMMA OnItSeen ==
    ASSUME asked \in Segment, NEW c \in OnCols \X OnRows, OnSegment(c, asked)
    PROVE  /\ c[1] \in Int /\ c[2] \in Int /\ 0 <= c[1] /\ c[1] < Width /\ 0 <= c[2] /\ c[2] < Height
           /\ UX(asked.x1) <= UX(c[1]) /\ UX(c[1]) <= UX(asked.x2)
           /\ VY(asked.y1) <= VY(c[2]) /\ VY(c[2]) <= VY(asked.y2)
           /\ Off(c[1], c[2]) = 0
<1>1. /\ c[1] \in Int /\ c[2] \in Int /\ 0 <= c[1] /\ c[1] < Width /\ 0 <= c[2] /\ c[2] < Height
      /\ c = <<c[1], c[2]>>
  BY CanvasAssumption DEF OnCols, OnRows
<1>2. asked.x1 \in Int /\ asked.x2 \in Int /\ asked.y1 \in Int /\ asked.y2 \in Int
  BY AskedFacts
<1>3. c[1] \in asked.x1 .. asked.x2 \cup asked.x2 .. asked.x1 /\ c[2] \in asked.y1 .. asked.y2 \cup asked.y2 .. asked.y1
  BY DEF OnSegment
<1>4. UX(asked.x1) <= UX(c[1]) /\ UX(c[1]) <= UX(asked.x2)
  BY <1>1, <1>2, <1>3 DEF UX, XInc
<1>5. VY(asked.y1) <= VY(c[2]) /\ VY(c[2]) <= VY(asked.y2)
  BY <1>1, <1>2, <1>3 DEF VY, YInc
<1>6. Off(c[1], c[2]) = 0
  <2>1. Error(<<c[1], c[2]>>, asked) = 0
    BY <1>1 DEF OnSegment
  <2>2. 2 * Abs(Off(c[1], c[2])) = 0 /\ Off(c[1], c[2]) \in Int
    BY <1>1, <2>1, ErrorIsOff, SeenFacts
  <2> QED
    BY <2>2, AbsType
<1> QED
  BY <1>1, <1>4, <1>5, <1>6

LEMMA FirstFacts ==
    ASSUME Types, asked \in Segment, First
    PROVE  /\ Off2 = 0 /\ Off1 \in -Long(asked) .. Long(asked)
           /\ ~InColumns /\ ~BothBeyond => seg.x1 = asked.x1 /\ seg.y1 = asked.y1 /\ Off1 = 0
           /\ Bits1 # {} /\ ~BothBeyond => Off1 \in -Long(asked) .. 0
<1>1. Off2 = 0
  BY EndsSeen DEF First, Off2
<1>2. seg.x1 = asked.x1 /\ seg.y1 = asked.y1 => Off1 = 0
  BY EndsSeen DEF Off1
<1>3. Long(asked) \in Nat
  BY AskedFacts
<1> USE CanvasAssumption
<1>4. Bits1 = {} => InColumns
  BY DEF InColumns
<1> QED
  BY <1>1, <1>2, <1>3, <1>4 DEF First
\* Clipping to a column cuts off no cell of the canvas that lies on the line.
LEMMA ColumnKeeps ==
    ASSUME Types, asked \in Segment, First, ClipX, NEW c \in OnCols \X OnRows, OnSegment(c, asked)
    PROVE  UX(EdgeX) <= UX(c[1]) /\ VY(seg'.y1) <= VY(c[2])
<1> DEFINE U1 == UX(seg.x1)  U2 == UX(seg.x2)  V1 == VY(seg.y1)  V2 == VY(seg.y2)
           UN == UX(EdgeX)  VN == VY(seg'.y1)  UC == UX(c[1])  VC == VY(c[2])
           A == Dx(asked)  B == Dy(asked)
<1>1. /\ seg.x1 \in Int /\ seg.x2 \in Int /\ seg.y1 \in Int /\ seg.y2 \in Int
      /\ seg.x2 = asked.x2 /\ seg.y2 = asked.y2
  BY SegmentFields DEF Types, First
<1>2. seg.x1 = asked.x1 /\ seg.y1 = asked.y1
  BY FirstFacts DEF ClipX, InColumns
<1>3. Along(1)
  BY DEF First
<1>4. PICK m \in Nat, k \in Nat, w \in Nat :
         /\ 0 < m /\ k <= m
         /\ 1 * (U2 - U1) = m /\ 1 * (U2 - UN) = k /\ 1 * (V2 - V1) = w
         /\ seg' = [seg EXCEPT !.x1 = EdgeX, !.y1 = seg'.y1] /\ seg'.y1 \in Int
         /\ 1 * (V2 - VN) = (k * w) \div m
  BY <1>3, ClipXMoves
<1>5. EdgeX \in Int
  BY CanvasAssumption DEF EdgeX
<1>6. /\ c[1] \in Int /\ c[2] \in Int /\ 0 <= c[1] /\ c[1] < Width
      /\ UC <= U2 /\ VC <= V2 /\ Off(c[1], c[2]) = 0
  BY <1>1, OnItSeen
<1>7. /\ U1 \in Int /\ U2 \in Int /\ V1 \in Int /\ V2 \in Int /\ UN \in Int /\ VN \in Int
      /\ UC \in Int /\ VC \in Int
  BY <1>1, <1>4, <1>5, <1>6, SeenFacts
<1>8. U2 - U1 = m /\ U2 - UN = k /\ V2 - V1 = w /\ V2 - VN = (k * w) \div m
  <2>1. \A n \in Int : 1 * n = n
    OBVIOUS
  <2>2. U2 - U1 \in Int /\ U2 - UN \in Int /\ V2 - V1 \in Int /\ V2 - VN \in Int
    BY <1>7
  <2> QED
    BY <1>4, <2>1, <2>2
<1>9. UN <= UC
  <2> DEFINE u == XInc(asked)  x1 == seg.x1  e == EdgeX  cc == c[1]
  <2>1. u \in {-1, 1} /\ e \in Int /\ cc \in Int /\ seg.x1 \in Int /\ seg.x2 \in Int
    BY <1>1, <1>5, <1>6, AskedFacts
  <2>2. \/ seg.x1 < 0 /\ 0 <= seg.x2 /\ e = 0
        \/ seg.x1 >= Width /\ seg.x2 < Width /\ e = Width - 1
    BY <1>1, CanvasAssumption DEF ClipX, BothBeyond, Bits1, Bits2, Bits, EdgeX
  <2>3. U1 = u * seg.x1 /\ U2 = u * seg.x2 /\ UN = u * e /\ UC = u * cc
    BY DEF UX
  <2>4. U1 < U2
    BY <1>4, <1>7, <1>8
  <2>5. 0 <= cc /\ cc < Width
    BY <1>6
  <2> HIDE DEF u, e, cc, U1, U2, UN, UC
  <2> QED
    BY <2>1, <2>2, <2>3, <2>4, <2>5, CanvasAssumption
<1>10. A = m /\ B = w
  BY <1>1, <1>2, <1>8, EndsSeen
<1> DEFINE i == U2 - UC  j == V2 - VC
<1>11. i \in 0 .. k /\ j \in Nat
  BY <1>4, <1>6, <1>7, <1>8, <1>9
<1>12. j * A = i * B
  <2>1. Off2 = 0
    BY FirstFacts
  <2>2. Off(seg.x2, seg.y2) - Off(c[1], c[2]) = i * B - j * A
    BY <1>1, <1>6, OffApart
  <2>3. i * B - j * A = 0
    BY <1>6, <2>1, <2>2 DEF Off2
  <2>4. A \in Int /\ B \in Int
    BY AskedFacts
  <2> HIDE DEF i, j, A, B
  <2> QED
    BY <1>11, <2>3, <2>4
<1> HIDE DEF i, j, A, B
<1>13. j <= (k * w) \div m
  <2>1. j * m = i * w
    BY <1>10, <1>12
  <2>2. j * m <= i * w
    BY <1>4, <1>11, <2>1
  <2> QED
    BY <1>4, <1>11, <2>2, CrossingKeeps
<1> DEFINE q == (k * w) \div m
<1>14. V2 - VC <= q /\ V2 - VN = q
  BY <1>8, <1>13 DEF j
<1> HIDE DEF q, VC, VN, V2
<1>15. VN <= VC
  BY <1>7, <1>14
<1> QED
  BY <1>9, <1>15 DEF VN, VC

\* Clipping to a row does not either.
LEMMA RowKeeps ==
    ASSUME Types, asked \in Segment, First, ClipY, NEW c \in OnCols \X OnRows, OnSegment(c, asked)
    PROVE  UX(seg'.x1) <= UX(c[1]) /\ VY(EdgeY) <= VY(c[2])
<1> DEFINE U1 == UX(seg.x1)  U2 == UX(seg.x2)  V1 == VY(seg.y1)  V2 == VY(seg.y2)
           UN == UX(seg'.x1)  VN == VY(EdgeY)  UC == UX(c[1])  VC == VY(c[2])
           A == Dx(asked)  B == Dy(asked)
<1>1. /\ seg.x1 \in Int /\ seg.x2 \in Int /\ seg.y1 \in Int /\ seg.y2 \in Int
      /\ seg.x2 = asked.x2 /\ seg.y2 = asked.y2 /\ VY(asked.y1) <= V1
  BY SegmentFields DEF Types, First
<1>2. Off1 <= 0 /\ Off2 = 0 /\ Off1 \in Int
  BY FirstFacts, AskedFacts DEF ClipY
<1>3. Along(1)
  BY DEF First
<1>4. PICK m \in Nat, k \in Nat, w \in Nat :
         /\ 0 < m /\ k <= m
         /\ 1 * (V2 - V1) = m /\ 1 * (V2 - VN) = k /\ 1 * (U2 - U1) = w
         /\ seg' = [seg EXCEPT !.x1 = seg'.x1, !.y1 = EdgeY] /\ seg'.x1 \in Int
         /\ 1 * (U2 - UN) = (k * w) \div m
  BY <1>3, ClipYMoves
<1>5. EdgeY \in Int
  BY CanvasAssumption DEF EdgeY
<1>6. /\ c[1] \in Int /\ c[2] \in Int /\ 0 <= c[2] /\ c[2] < Height
      /\ UC <= U2 /\ VC <= V2 /\ Off(c[1], c[2]) = 0
  BY <1>1, OnItSeen
<1>7. /\ U1 \in Int /\ U2 \in Int /\ V1 \in Int /\ V2 \in Int /\ UN \in Int /\ VN \in Int
      /\ UC \in Int /\ VC \in Int /\ VY(asked.y1) \in Int
  BY <1>1, <1>4, <1>5, <1>6, AskedFacts, SeenFacts
<1>8. V2 - V1 = m /\ V2 - VN = k /\ U2 - U1 = w /\ U2 - UN = (k * w) \div m
  <2>1. \A n \in Int : 1 * n = n
    OBVIOUS
  <2>2. U2 - U1 \in Int /\ U2 - UN \in Int /\ V2 - V1 \in Int /\ V2 - VN \in Int
    BY <1>7
  <2> QED
    BY <1>4, <2>1, <2>2
<1>9. VN <= VC
  <2> DEFINE v == YInc(asked)  e == EdgeY  cc == c[2]
  <2>1. v \in {-1, 1} /\ e \in Int /\ cc \in Int /\ seg.y1 \in Int /\ seg.y2 \in Int
    BY <1>1, <1>5, <1>6, AskedFacts
  <2>2. \/ seg.y1 < 0 /\ 0 <= seg.y2 /\ e = 0
        \/ seg.y1 >= Height /\ seg.y2 < Height /\ e = Height - 1
    BY <1>1, CanvasAssumption DEF ClipY, BothBeyond, Bits1, Bits2, Bits, EdgeY
  <2>3. V1 = v * seg.y1 /\ V2 = v * seg.y2 /\ VN = v * e /\ VC = v * cc
    BY DEF VY
  <2>4. V1 < V2
    BY <1>4, <1>7, <1>8
  <2>5. 0 <= cc /\ cc < Height
    BY <1>6
  <2> HIDE DEF v, e, cc, V1, V2, VN, VC
  <2> QED
    BY <2>1, <2>2, <2>3, <2>4, <2>5, CanvasAssumption
<1>10. A \in Nat /\ B \in Nat /\ 0 < B
  <2>1. VY(asked.y2) - VY(asked.y1) = B /\ A \in Nat /\ B \in Nat
    BY EndsSeen, AskedFacts
  <2> HIDE DEF A, B
  <2>2. V2 - VY(asked.y1) = B
    BY <1>1, <2>1
  <2> QED
    BY <1>1, <1>4, <1>7, <1>8, <2>1, <2>2
<1> DEFINE i == V2 - VC  j == U2 - UC
<1>11. i \in 0 .. k /\ j \in Nat
  BY <1>4, <1>6, <1>7, <1>8, <1>9
<1>12. j * B = i * A
  <2>1. Off(seg.x2, seg.y2) - Off(c[1], c[2]) = j * B - i * A
    BY <1>1, <1>6, OffApart
  <2>2. j * B - i * A = 0
    BY <1>2, <1>6, <2>1 DEF Off2
  <2> HIDE DEF i, j, A, B
  <2> QED
    BY <1>10, <1>11, <2>2
<1>13. m * A <= w * B
  <2>1. Off2 - Off1 = (U2 - U1) * B - (V2 - V1) * A
    BY <1>1, OffApart DEF Off1, Off2
  <2>2. Off2 - Off1 = w * B - m * A
    BY <1>8, <2>1
  <2> HIDE DEF A, B
  <2>3. w * B \in Int /\ m * A \in Int
    BY <1>10
  <2> QED
    BY <1>2, <2>2, <2>3
<1> HIDE DEF i, j, A, B
<1>14. j <= (k * w) \div m
  <2>1. i \in Nat /\ m \in Nat /\ w \in Nat
    BY <1>4, <1>11
  <2>2. j * m <= i * w
    BY <1>10, <1>11, <1>12, <1>13, <2>1, NoFurther
  <2> QED
    BY <1>4, <1>11, <2>2, CrossingKeeps
<1> DEFINE q == (k * w) \div m
<1>15. U2 - UC <= q /\ U2 - UN = q
  BY <1>8, <1>14 DEF j
<1> HIDE DEF q, UC, UN, U2
<1>16. UN <= UC
  BY <1>7, <1>15
<1> QED
  BY <1>9, <1>16 DEF UN, UC
\* How the line is seen once a step is made that asks for no other.
LEMMA FirstAgain ==
    ASSUME asked' = asked
    PROVE  First' <=>
              /\ Along(1)'
              /\ seg'.x2 = asked.x2 /\ seg'.y2 = asked.y2
              /\ UX(asked.x1) <= UX(seg'.x1) /\ VY(asked.y1) <= VY(seg'.y1)
              /\ \/ seg'.x1 = asked.x1 /\ seg'.y1 = asked.y1
                 \/ Off(seg'.x1, seg'.y1) \in -Long(asked) .. 0 /\ (InColumns \/ BothBeyond)'
                 \/ Off(seg'.x1, seg'.y1) \in -Long(asked) .. Long(asked) /\ (Bits1 = {} \/ BothBeyond)'
              /\ \A c \in OnCols \X OnRows :
                    OnSegment(c, asked) => UX(seg'.x1) <= UX(c[1]) /\ VY(seg'.y1) <= VY(c[2])
BY SeenAgain DEF First, UX, VY

LEMMA SecondAgain ==
    ASSUME asked' = asked
    PROVE  Second' <=>
              /\ Along(-1)'
              /\ Bits2' = {} /\ Off(seg'.x2, seg'.y2) \in -Long(asked) .. Long(asked)
              /\ \/ Off(seg'.x1, seg'.y1) = 0
                 \/ Off(seg'.x1, seg'.y1) \in -Long(asked) .. 2 * Long(asked) /\ (InColumns \/ BothBeyond)'
                 \/ Off(seg'.x1, seg'.y1) \in -(2 * Long(asked)) .. 2 * Long(asked) /\ (Bits1 = {} \/ BothBeyond)'
BY SeenAgain DEF Second

\* What it is to be moved, in numbers.
LEMMA MovedRange ==
    ASSUME NEW h \in Int, NEW e \in Int, NEW l \in Nat, Moved(h, e, l)
    PROVE  /\ h = 0 => e \in -l .. 0
           /\ h \in 0 .. l => e \in -l .. l
           /\ e \in (-l) .. h \/ e \in (h - l) .. 0
BY DEF Moved

LEMMA FirstAfterX ==
    ASSUME Types, asked \in Segment, First, ClipX
    PROVE  First'
<1>1. Along(1)
  BY DEF First
<1>2. /\ asked' = asked /\ seg'.x2 = seg.x2 /\ seg'.y2 = seg.y2
      /\ Along(1)' /\ (InColumns \/ BothBeyond)'
      /\ 1 * UX(seg.x1) <= 1 * UX(seg'.x1) /\ 1 * VY(seg.y1) <= 1 * VY(seg'.y1)
      /\ Moved(1 * (Off1 - Off2), 1 * (Off(seg'.x1, seg'.y1) - Off2), Long(asked))
      /\ seg' \in Segment
  BY <1>1, ClipXFacts
<1>3. Off1 = 0 /\ Off2 = 0 /\ Long(asked) \in Nat
  BY FirstFacts, AskedFacts DEF ClipX, InColumns
<1>4. seg'.x1 \in Int /\ seg'.y1 \in Int /\ seg.x1 \in Int /\ seg.y1 \in Int /\ seg'.x1 = EdgeX
  BY <1>2, SegmentFields DEF Types, ClipX, Segment
<1>5. Off(seg'.x1, seg'.y1) \in -Long(asked) .. 0
  <2>1. Off(seg'.x1, seg'.y1) \in Int
    BY <1>2, <1>4, SeenFacts, SeenAgain
  <2>2. 1 * (Off1 - Off2) = 0 /\ 1 * (Off(seg'.x1, seg'.y1) - Off2) = Off(seg'.x1, seg'.y1)
    <3>1. \A n \in Int : 1 * n = n
      OBVIOUS
    <3>2. Off1 - Off2 = 0 /\ Off(seg'.x1, seg'.y1) - Off2 = Off(seg'.x1, seg'.y1)
      BY <1>3, <2>1
    <3> QED
      BY <2>1, <3>1, <3>2
  <2> QED
    BY <1>2, <1>3, <2>1, <2>2, MovedRange
<1>6. UX(asked.x1) <= UX(seg'.x1) /\ VY(asked.y1) <= VY(seg'.y1)
  <2>1. /\ UX(asked.x1) \in Int /\ UX(seg.x1) \in Int /\ UX(seg'.x1) \in Int
        /\ VY(asked.y1) \in Int /\ VY(seg.y1) \in Int /\ VY(seg'.y1) \in Int
    BY <1>4, AskedFacts, SeenFacts
  <2>2. UX(asked.x1) <= UX(seg.x1) /\ VY(asked.y1) <= VY(seg.y1)
    BY DEF First
  <2> QED
    BY <1>2, <2>1, <2>2
<1>7. ASSUME NEW c \in OnCols \X OnRows, OnSegment(c, asked)
      PROVE  UX(seg'.x1) <= UX(c[1]) /\ VY(seg'.y1) <= VY(c[2])
  BY <1>4, <1>7, ColumnKeeps
<1>8. seg'.x2 = asked.x2 /\ seg'.y2 = asked.y2
  BY <1>2 DEF First
<1> QED
  BY <1>2, <1>5, <1>6, <1>7, <1>8, FirstAgain

LEMMA FirstAfterY ==
    ASSUME Types, asked \in Segment, First, ClipY
    PROVE  First'
<1>1. Along(1)
  BY DEF First
<1>2. /\ asked' = asked /\ seg'.x2 = seg.x2 /\ seg'.y2 = seg.y2
      /\ Along(1)' /\ (Bits1 = {} \/ BothBeyond)'
      /\ 1 * UX(seg.x1) <= 1 * UX(seg'.x1) /\ 1 * VY(seg.y1) <= 1 * VY(seg'.y1)
      /\ Moved(1 * (Off2 - Off1), 1 * (Off2 - Off(seg'.x1, seg'.y1)), Long(asked))
      /\ seg' \in Segment
  BY <1>1, ClipYFacts
<1>3. Off1 \in -Long(asked) .. 0 /\ Off2 = 0 /\ Long(asked) \in Nat
  BY FirstFacts, AskedFacts DEF ClipY
<1>4. seg'.x1 \in Int /\ seg'.y1 \in Int /\ seg.x1 \in Int /\ seg.y1 \in Int /\ seg'.y1 = EdgeY
  BY <1>2, SegmentFields DEF Types, ClipY, Segment
<1>5. Off(seg'.x1, seg'.y1) \in -Long(asked) .. Long(asked)
  <2>1. Off(seg'.x1, seg'.y1) \in Int
    BY <1>2, <1>4, SeenFacts, SeenAgain
  <2>2. 1 * (Off2 - Off1) = -Off1 /\ 1 * (Off2 - Off(seg'.x1, seg'.y1)) = -Off(seg'.x1, seg'.y1) /\ -Off1 \in 0 .. Long(asked) /\ -Off(seg'.x1, seg'.y1) \in Int
    BY <1>3, <2>1
  <2>3. -Off(seg'.x1, seg'.y1) \in -Long(asked) .. Long(asked)
    BY <1>2, <1>3, <2>2, MovedRange
  <2> QED
    BY <1>3, <2>1, <2>3
<1>6. UX(asked.x1) <= UX(seg'.x1) /\ VY(asked.y1) <= VY(seg'.y1)
  <2>1. /\ UX(asked.x1) \in Int /\ UX(seg.x1) \in Int /\ UX(seg'.x1) \in Int
        /\ VY(asked.y1) \in Int /\ VY(seg.y1) \in Int /\ VY(seg'.y1) \in Int
    BY <1>4, AskedFacts, SeenFacts
  <2>2. UX(asked.x1) <= UX(seg.x1) /\ VY(asked.y1) <= VY(seg.y1)
    BY DEF First
  <2> QED
    BY <1>2, <2>1, <2>2
<1>7. ASSUME NEW c \in OnCols \X OnRows, OnSegment(c, asked)
      PROVE  UX(seg'.x1) <= UX(c[1]) /\ VY(seg'.y1) <= VY(c[2])
  BY <1>4, <1>7, RowKeeps
<1>8. seg'.x2 = asked.x2 /\ seg'.y2 = asked.y2
  BY <1>2 DEF First
<1> QED
  BY <1>2, <1>5, <1>6, <1>7, <1>8, FirstAgain

LEMMA SecondAfterX ==
    ASSUME Types, asked \in Segment, Second, ClipX
    PROVE  Second'
<1>1. Along(-1)
  BY DEF Second
<1>2. /\ asked' = asked /\ seg'.x2 = seg.x2 /\ seg'.y2 = seg.y2
      /\ Along(-1)' /\ (InColumns \/ BothBeyond)'
      /\ Moved((-1) * (Off1 - Off2), (-1) * (Off(seg'.x1, seg'.y1) - Off2), Long(asked))
      /\ seg' \in Segment
  BY <1>1, ClipXFacts
<1>3. Long(asked) \in Nat /\ Off2 \in -Long(asked) .. Long(asked)
  BY AskedFacts DEF Second
<1>6. Bits2' = {}
  BY <1>2 DEF Second, Bits2
<1>4. Off1 = 0
  <2>1. Bits1 # {} /\ ~InColumns /\ ~BothBeyond
    BY DEF ClipX, InColumns
  <2> QED
    BY <2>1 DEF Second
<1>5. Off(seg'.x1, seg'.y1) \in -Long(asked) .. 2 * Long(asked)
  <2>1. Off(seg'.x1, seg'.y1) \in Int
    <3>1. seg'.x1 \in Int /\ seg'.y1 \in Int
      BY <1>2, SegmentFields
    <3> QED
      BY <1>2, <3>1, SeenFacts, SeenAgain
  <2>2. (-1) * (Off1 - Off2) = Off2 /\ (-1) * (Off(seg'.x1, seg'.y1) - Off2) = Off2 - Off(seg'.x1, seg'.y1) /\ Off2 - Off(seg'.x1, seg'.y1) \in Int /\ Off2 \in Int
    BY <1>3, <1>4, <2>1
  <2>3. Off2 - Off(seg'.x1, seg'.y1) \in -Long(asked) .. Off2 \/ Off2 - Off(seg'.x1, seg'.y1) \in Off2 - Long(asked) .. 0
    BY <1>2, <1>3, <2>2, MovedRange
  <2> DEFINE l == Long(asked)  n == Off(seg'.x1, seg'.y1)  o == Off2
  <2>4. l \in Nat /\ o \in -l .. l /\ n \in Int
    BY <1>3, <2>1
  <2>5. (-l <= o - n /\ o - n <= o) \/ (o - l <= o - n /\ o - n <= 0)
    BY <1>3, <2>1, <2>3
  <2> HIDE DEF l, n, o
  <2>6. n \in -l .. 2 * l
    BY <2>4, <2>5
  <2> QED
    BY <2>6 DEF l, n
<1>7. Off(seg'.x2, seg'.y2) = Off2
  BY <1>2 DEF Off2
<1> QED
  BY <1>2, <1>3, <1>5, <1>6, <1>7, SecondAgain

LEMMA SecondAfterY ==
    ASSUME Types, asked \in Segment, Second, ClipY
    PROVE  Second'
<1>1. Along(-1)
  BY DEF Second
<1>2. /\ asked' = asked /\ seg'.x2 = seg.x2 /\ seg'.y2 = seg.y2
      /\ Along(-1)' /\ (Bits1 = {} \/ BothBeyond)'
      /\ Moved((-1) * (Off2 - Off1), (-1) * (Off2 - Off(seg'.x1, seg'.y1)), Long(asked))
      /\ seg' \in Segment
  BY <1>1, ClipYFacts
<1>3. Long(asked) \in Nat /\ Off2 \in -Long(asked) .. Long(asked)
  BY AskedFacts DEF Second
<1>6. Bits2' = {}
  BY <1>2 DEF Second, Bits2
<1>4. Off1 \in -Long(asked) .. 2 * Long(asked)
  <2>1. Bits1 # {} /\ ~BothBeyond
    BY DEF ClipY
  <2> QED
    BY <1>3, <2>1 DEF Second
<1>5. Off(seg'.x1, seg'.y1) \in -(2 * Long(asked)) .. 2 * Long(asked)
  <2>1. Off(seg'.x1, seg'.y1) \in Int
    <3>1. seg'.x1 \in Int /\ seg'.y1 \in Int
      BY <1>2, SegmentFields
    <3> QED
      BY <1>2, <3>1, SeenFacts, SeenAgain
  <2>2. /\ (-1) * (Off2 - Off1) = Off1 - Off2 /\ (-1) * (Off2 - Off(seg'.x1, seg'.y1)) = Off(seg'.x1, seg'.y1) - Off2
        /\ Off(seg'.x1, seg'.y1) - Off2 \in Int /\ Off1 - Off2 \in Int
    BY <1>3, <1>4, <2>1
  <2>3. \/ Off(seg'.x1, seg'.y1) - Off2 \in -Long(asked) .. Off1 - Off2
        \/ Off(seg'.x1, seg'.y1) - Off2 \in (Off1 - Off2) - Long(asked) .. 0
    BY <1>2, <1>3, <2>2, MovedRange
  <2> DEFINE l == Long(asked)  n == Off(seg'.x1, seg'.y1)  o == Off2  p == Off1
  <2>4. l \in Nat /\ o \in -l .. l /\ n \in Int /\ p \in -l .. 2 * l
    BY <1>3, <1>4, <2>1
  <2>5. (-l <= n - o /\ n - o <= p - o) \/ ((p - o) - l <= n - o /\ n - o <= 0)
    BY <1>3, <1>4, <2>1, <2>3
  <2> HIDE DEF l, n, o, p
  <2>6. n \in -(2 * l) .. 2 * l
    BY <2>4, <2>5
  <2> QED
    BY <2>6 DEF l, n
<1>7. Off(seg'.x2, seg'.y2) = Off2
  BY <1>2 DEF Off2
<1> QED
  BY <1>2, <1>3, <1>5, <1>6, <1>7, SecondAgain

LEMMA SecondAfterExchange ==
    ASSUME Types, asked \in Segment, First \/ Second, Exchange
    PROVE  Second'
<1>1. First /\ Bits1 = {}
  BY DEF Exchange, Second
<1>2. /\ asked' = asked /\ seg'.x1 = seg.x2 /\ seg'.y1 = seg.y2 /\ seg'.x2 = seg.x1 /\ seg'.y2 = seg.y1
  BY DEF Exchange, Reversed
<1>3. Off(seg'.x1, seg'.y1) = Off2 /\ Off(seg'.x2, seg'.y2) = Off1 /\ Bits2' = Bits1
  BY <1>2 DEF Off1, Off2, Bits1, Bits2
<1>4. Along(-1)'
  <2>1. /\ UX(seg.x1) \in Int /\ UX(seg.x2) \in Int /\ VY(seg.y1) \in Int /\ VY(seg.y2) \in Int
    BY SegmentFields, SeenFacts DEF Types
  <2>2. 0 <= 1 * (UX(seg.x2) - UX(seg.x1)) /\ 0 <= 1 * (VY(seg.y2) - VY(seg.y1))
    BY <1>1 DEF First, Along
  <2>3. 0 <= (-1) * (UX(seg.x1) - UX(seg.x2)) /\ 0 <= (-1) * (VY(seg.y1) - VY(seg.y2))
    BY <2>1, <2>2
  <2> QED
    BY <1>2, <2>3, SeenAgain
<1> QED
  BY <1>1, <1>2, <1>3, <1>4, FirstFacts, SecondAgain
\* A line is seen from its own direction.
LEMMA FirstAtFirst ==
    ASSUME asked \in Segment, seg = asked
    PROVE  First
<1>1. Along(1)
  <2>1. Dx(asked) \in Nat /\ Dy(asked) \in Nat
    BY AskedFacts
  <2>2. UX(seg.x2) - UX(seg.x1) = Dx(asked) /\ VY(seg.y2) - VY(seg.y1) = Dy(asked)
    BY EndsSeen
  <2>3. \A n \in Nat : 0 <= 1 * n
    OBVIOUS
  <2> QED
    BY <2>1, <2>2, <2>3 DEF Along
<1>2. UX(asked.x1) <= UX(seg.x1) /\ VY(asked.y1) <= VY(seg.y1)
  <2>1. UX(asked.x1) \in Int /\ VY(asked.y1) \in Int
    BY AskedFacts, SeenFacts
  <2> QED
    BY <2>1
<1>3. \A c \in OnCols \X OnRows : OnSegment(c, asked) => UX(seg.x1) <= UX(c[1]) /\ VY(seg.y1) <= VY(c[2])
  BY OnItSeen
<1> QED
  BY <1>1, <1>2, <1>3 DEF First

LEMMA FirstAtFirstNext == (asked \in Segment /\ seg = asked)' => First'
<1>1. asked \in Segment /\ seg = asked => First
  BY FirstAtFirst
<1> QED
  BY <1>1, PTL

\* No line is given up that has a cell of the canvas on it.
LEMMA NothingGivenUp ==
    ASSUME Types, asked \in Segment, First \/ Second, BothBeyond
    PROVE  NoneOnIt
<1>1. First
  BY DEF Second, BothBeyond
<1>2. SUFFICES ASSUME NEW c \in OnCols \X OnRows, OnSegment(c, asked) PROVE FALSE
  BY DEF NoneOnIt
<1>3. /\ seg.x1 \in Int /\ seg.x2 \in Int /\ seg.y1 \in Int /\ seg.y2 \in Int
      /\ seg.x2 = asked.x2 /\ seg.y2 = asked.y2
  BY <1>1, SegmentFields DEF Types, First
<1>4. /\ c[1] \in Int /\ c[2] \in Int /\ 0 <= c[1] /\ c[1] < Width /\ 0 <= c[2] /\ c[2] < Height
      /\ UX(c[1]) <= UX(seg.x2) /\ VY(c[2]) <= VY(seg.y2)
      /\ UX(seg.x1) <= UX(c[1]) /\ VY(seg.y1) <= VY(c[2])
  <2>1. UX(seg.x1) <= UX(c[1]) /\ VY(seg.y1) <= VY(c[2])
    BY <1>1, <1>2 DEF First
  <2> QED
    BY <1>2, <1>3, <2>1, OnItSeen
<1>5. XInc(asked) \in {-1, 1} /\ YInc(asked) \in {-1, 1}
  BY AskedFacts
<1>6. ~(seg.x1 < 0 /\ seg.x2 < 0) /\ ~(seg.x1 >= Width /\ seg.x2 >= Width)
  BY <1>3, <1>4, <1>5, CanvasAssumption DEF UX
<1>7. ~(seg.y1 < 0 /\ seg.y2 < 0) /\ ~(seg.y1 >= Height /\ seg.y2 >= Height)
  BY <1>3, <1>4, <1>5, CanvasAssumption DEF VY
<1> QED
  BY <1>3, <1>6, <1>7 DEF BothBeyond, Bits1, Bits2, Bits

\* Both ends of what is drawn are near the line.
LEMMA NearAtBegin ==
    ASSUME Types, asked \in Segment, First \/ Second, Begin
    PROVE  Near'
<1> DEFINE l == Long(asked)  In(n) == n \in -(2 * l) .. 2 * l
<1>1. l \in Nat
  BY AskedFacts
<1>2. In(Off1) /\ In(Off2)
  <2>1. CASE First
    BY <1>1, <2>1, FirstFacts
  <2>2. CASE Second
    <3>1. Off2 \in -l .. l
      BY <2>2 DEF Second
    <3>2. Off1 = 0 \/ Off1 \in -l .. 2 * l \/ Off1 \in -(2 * l) .. 2 * l
      BY <2>2 DEF Second
    <3> HIDE DEF l
    <3> QED
      BY <1>1, <3>1, <3>2
  <2> QED
    BY <2>1, <2>2
<1>3. asked' = asked /\ (seg' = seg \/ seg' = Reversed(seg))
  BY DEF Begin, Oriented
<1>4. In(Off(seg'.x1, seg'.y1)) /\ In(Off(seg'.x2, seg'.y2))
  BY <1>2, <1>3 DEF Off1, Off2, Reversed
<1>5. Off1' = Off(seg'.x1, seg'.y1) /\ Off2' = Off(seg'.x2, seg'.y2) /\ Long(asked') = Long(asked)
  BY <1>3, SeenAgain
<1> QED
  BY <1>4, <1>5 DEF Near

LEMMA NearAgain ==
    ASSUME asked' = asked, seg' = seg, Near
    PROVE  Near'
BY DEF Near, Off1, Off2, Off, UX, VY

LEMMA AskedKept ==
    ASSUME Types, AskedInv, [LineNext]_lineVars
    PROVE  AskedInv'
<1>1. asked \in Segment
  BY DEF AskedInv
<1>2. CASE Call
  BY <1>1, <1>2 DEF Call, CallSolid, CallThin, AskedInv
<1>3. CASE NextLine
  <2>1. Head(todo) \in Segment
    BY <1>3 DEF NextLine, Types
  <2>2. asked' = Head(todo) /\ seg' = Head(todo) /\ stage' = "clip"
    BY <1>3 DEF NextLine
  <2>3. (asked \in Segment /\ seg = asked)'
    BY <2>1, <2>2
  <2>4. First'
    BY <2>3, FirstAtFirstNext
  <2> QED
    BY <2>2, <2>3, <2>4 DEF AskedInv
<1>4. CASE Beside
  <2>1. First \/ Second
    BY <1>4 DEF Beside, AskedInv
  <2>2. NoneOnIt
    BY <1>1, <1>4, <2>1, NothingGivenUp DEF Beside
  <2>3. asked' = asked /\ stage' = "beside"
    BY <1>4 DEF Beside
  <2>4. NoneOnIt'
    BY <2>2, <2>3 DEF NoneOnIt, OnCols, OnRows
  <2> QED
    BY <1>1, <2>3, <2>4 DEF AskedInv
<1>5. CASE Exchange \/ ClipX \/ ClipY
  <2>1. (First \/ Second) /\ asked' = asked /\ stage' = "clip"
    BY <1>5 DEF Exchange, ClipX, ClipY, AskedInv
  <2>2. First' \/ Second'
    BY <1>1, <1>5, <2>1, FirstAfterX, FirstAfterY, SecondAfterX, SecondAfterY, SecondAfterExchange
  <2> QED
    BY <1>1, <2>1, <2>2 DEF AskedInv
<1>6. CASE Begin
  <2>1. (First \/ Second) /\ asked' = asked /\ stage' = "draw"
    BY <1>6 DEF Begin, AskedInv
  <2>2. Near'
    BY <1>1, <1>6, <2>1, NearAtBegin
  <2> QED
    BY <1>1, <2>1, <2>2 DEF AskedInv
<1>7. CASE Plot
  <2>1. Near /\ asked' = asked /\ seg' = seg /\ stage' \in {"draw", "drawn"}
    BY <1>7 DEF Plot, AskedInv
  <2>2. Near'
    BY <2>1, NearAgain
  <2> QED
    BY <1>1, <2>1, <2>2 DEF AskedInv
<1>8. CASE Return
  <2>1. NoSeg \in Segment
    BY DEF NoSeg, Seg, Segment
  <2> QED
    BY <1>8, <2>1 DEF Return, AskedInv
<1>9. CASE UNCHANGED lineVars
  <2>1. asked' = asked /\ seg' = seg /\ stage' = stage
    BY <1>9 DEF lineVars
  <2>2. (First' <=> First) /\ (Second' <=> Second) /\ (Near' <=> Near) /\ (NoneOnIt' <=> NoneOnIt)
    <3>1. First' <=> First
      BY <2>1 DEF First, UX, VY, Along, Off1, Off, InColumns, BothBeyond, Bits1, Bits2
    <3>2. Second' <=> Second
      BY <2>1 DEF Second, UX, VY, Along, Off1, Off2, Off, InColumns, BothBeyond, Bits1, Bits2
    <3>3. Near' <=> Near
      BY <2>1 DEF Near, Off1, Off2, Off, UX, VY
    <3>4. NoneOnIt' <=> NoneOnIt
      BY <2>1 DEF NoneOnIt
    <3> QED
      BY <3>1, <3>2, <3>3, <3>4
  <2> QED
    BY <2>1, <2>2 DEF AskedInv
<1> QED
  BY <1>2, <1>3, <1>4, <1>5, <1>6, <1>7, <1>8, <1>9 DEF LineNext, LineStep
\* A place k parts of m from one end to the other, and off the way there by no more than half
\* the range l, is no further off than that and the ends.
LEMMA Blend ==
    ASSUME NEW m \in Nat, 0 < m, NEW l \in Nat, NEW k \in 0 .. m,
           NEW a \in -(2 * l) .. 2 * l, NEW b \in -(2 * l) .. 2 * l, NEW o \in Int,
           2 * (m * o - ((m - k) * a + k * b)) \in -(m * l) .. m * l
    PROVE  2 * o \in -(5 * l) .. 5 * l
<1> DEFINE p == m - k  pa == p * a  kb == k * b  pl == p * l  kl == k * l  ml == m * l  mo == m * o
<1>1. p \in Nat /\ k \in Nat
  OBVIOUS
<1>2. pa \in Int /\ kb \in Int /\ pl \in Int /\ kl \in Int /\ ml \in Int /\ mo \in Int
  OBVIOUS
<1>3. ml = pl + kl
  OBVIOUS
<1> HIDE DEF p
<1>4. p * a <= p * (2 * l) /\ p * (-(2 * l)) <= p * a /\ k * b <= k * (2 * l) /\ k * (-(2 * l)) <= k * b
  BY <1>1, Monotone
<1>5. /\ p * (2 * l) = 2 * pl /\ p * (-(2 * l)) = -(2 * pl)
      /\ k * (2 * l) = 2 * kl /\ k * (-(2 * l)) = -(2 * kl)
  BY <1>1
<1>6. 2 * (mo - (pa + kb)) \in -ml .. ml
  BY DEF p
<1>7. m * (2 * o) = 2 * mo /\ m * (5 * l) = 5 * ml /\ m * (-(5 * l)) = -(5 * ml)
  OBVIOUS
<1> HIDE DEF pa, kb, pl, kl, ml, mo
<1>8. pa \in -(2 * pl) .. 2 * pl /\ kb \in -(2 * kl) .. 2 * kl
  BY <1>2, <1>4, <1>5 DEF pa, kb
<1>9. 2 * mo \in -(5 * ml) .. 5 * ml
  BY <1>2, <1>3, <1>6, <1>8
<1>10. m * (2 * o) <= m * (5 * l) /\ m * (-(5 * l)) <= m * (2 * o)
  BY <1>2, <1>7, <1>9
<1>11. 2 * o <= 5 * l /\ -(5 * l) <= 2 * o
  <2>1. 2 * o \in Int /\ 5 * l \in Int /\ -(5 * l) \in Int
    OBVIOUS
  <2> QED
    BY <1>10, <2>1, Cancel
<1> QED
  BY <1>11

\* A cell of the path, from the ends of the line that is drawn.
LEMMA CellOff ==
    ASSUME seg \in Segment, asked \in Segment, NEW a \in Int, NEW b \in Int, Error(<<a, b>>, seg) <= Long(seg)
    PROVE  LET m == Long(seg)
               k == LongSteps(seg, a, b)
           IN  2 * (m * Off(a, b) - ((m - k) * Off1 + k * Off2)) \in -(m * Long(asked)) .. m * Long(asked)
<1> DEFINE u == XInc(asked)  v == YInc(asked)  p == XInc(seg)  r == YInc(seg)
           A == Dx(asked)  B == Dy(asked)  L == Long(asked)
           m == Long(seg)  n == Short(seg)  k == LongSteps(seg, a, b)  s == ShortSteps(seg, a, b)
           f == m * s - n * k  O == Off(a, b)
<1>1. /\ u \in {-1, 1} /\ v \in {-1, 1} /\ L \in Nat /\ A \in 0 .. L /\ B \in 0 .. L
      /\ p \in {-1, 1} /\ r \in {-1, 1} /\ m \in Nat /\ n \in Nat
      /\ seg.x1 \in Int /\ seg.x2 \in Int /\ seg.y1 \in Int /\ seg.y2 \in Int
  BY AskedFacts, SegmentFields
<1>2. k \in Int /\ s \in Int
  BY <1>1 DEF LongSteps, ShortSteps
<1>3. Off1 \in Int /\ Off2 \in Int /\ O \in Int
  BY <1>1, SeenFacts DEF Off1, Off2
<1>4. 2 * Abs(f) <= m
  BY ErrorOfSteps
<1>5. /\ O - Off1 = (UX(a) - UX(seg.x1)) * B - (VY(b) - VY(seg.y1)) * A
      /\ Off2 - Off1 = (UX(seg.x2) - UX(seg.x1)) * B - (VY(seg.y2) - VY(seg.y1)) * A
  BY <1>1, OffApart, SMTT(30) DEF Off1, Off2
<1>6. /\ UX(a) - UX(seg.x1) = u * (a - seg.x1) /\ VY(b) - VY(seg.y1) = v * (b - seg.y1)
      /\ UX(seg.x2) - UX(seg.x1) = u * (seg.x2 - seg.x1) /\ VY(seg.y2) - VY(seg.y1) = v * (seg.y2 - seg.y1)
  BY <1>1 DEF UX, VY
<1> DEFINE g == m * O - ((m - k) * Off1 + k * Off2)
<1>7. g = m * (O - Off1) - k * (Off2 - Off1)
  <2> HIDE DEF m, k, O
  <2> QED
    BY <1>1, <1>2, <1>3
<1>8. \E z \in {-1, 1}, j \in 0 .. L : g = z * (j * f)
  <2>1. CASE Steep(seg)
    <3>1. /\ a - seg.x1 = p * s /\ b - seg.y1 = r * k
          /\ seg.x2 - seg.x1 = p * n /\ seg.y2 - seg.y1 = r * m
      BY <1>1, <2>1 DEF LongSteps, ShortSteps, Long, Short, Dx, Dy, Abs, XInc, YInc
    <3>2. O - Off1 = (u * (p * s)) * B - (v * (r * k)) * A /\ Off2 - Off1 = (u * (p * n)) * B - (v * (r * m)) * A
      BY <1>5, <1>6, <3>1
    <3> DEFINE z == u * p  t == v * r
    <3>3. z \in {-1, 1} /\ t \in {-1, 1}
      BY <1>1
    <3>4. /\ u * (p * s) = z * s /\ v * (r * k) = t * k
          /\ u * (p * n) = z * n /\ v * (r * m) = t * m
      BY <1>1, <1>2
    <3> HIDE DEF u, v, p, r, A, B, L, m, n, k, s, O, z, t, g
    <3>5. g = m * ((z * s) * B - (t * k) * A) - k * ((z * n) * B - (t * m) * A)
      BY <1>7, <3>2, <3>4
    <3>6. g = z * (B * f)
      BY <1>1, <1>2, <3>3, <3>5
    <3> QED
      BY <1>1, <3>3, <3>6
  <2>2. CASE ~Steep(seg)
    <3>1. /\ a - seg.x1 = p * k /\ b - seg.y1 = r * s
          /\ seg.x2 - seg.x1 = p * m /\ seg.y2 - seg.y1 = r * n
      BY <1>1, <2>2 DEF LongSteps, ShortSteps, Long, Short, Dx, Dy, Abs, XInc, YInc
    <3>2. O - Off1 = (u * (p * k)) * B - (v * (r * s)) * A /\ Off2 - Off1 = (u * (p * m)) * B - (v * (r * n)) * A
      BY <1>5, <1>6, <3>1
    <3> DEFINE z == u * p  t == v * r
    <3>3. z \in {-1, 1} /\ t \in {-1, 1} /\ -t \in {-1, 1}
      BY <1>1
    <3>4. /\ u * (p * k) = z * k /\ v * (r * s) = t * s
          /\ u * (p * m) = z * m /\ v * (r * n) = t * n
      BY <1>1, <1>2
    <3> HIDE DEF u, v, p, r, A, B, L, m, n, k, s, O, z, t, g
    <3>5. g = m * ((z * k) * B - (t * s) * A) - k * ((z * m) * B - (t * n) * A)
      BY <1>7, <3>2, <3>4
    <3>6. g = (-t) * (A * f)
      BY <1>1, <1>2, <3>3, <3>5
    <3> QED
      BY <1>1, <3>3, <3>6
  <2> QED
    BY <2>1, <2>2
<1>9. f \in Int
  BY <1>1, <1>2
<1> HIDE DEF f, g
<1>10. 2 * g \in -(m * L) .. m * L
  <2>1. PICK z \in {-1, 1}, j \in 0 .. L : g = z * (j * f)
    BY <1>8
  <2>2. Abs(f) \in Nat /\ 2 * Abs(f) \in Nat
    BY <1>9, AbsType
  <2>3. (2 * Abs(f)) * j <= m * L
    BY <1>1, <1>4, <2>2, MonotoneNat
  <2> DEFINE h == j * Abs(f)
  <2>4. h \in Nat /\ 2 * h <= m * L /\ m * L \in Int
    <3>1. (2 * Abs(f)) * j = 2 * h
      BY <2>2
    <3> QED
      BY <1>1, <2>2, <2>3, <3>1
  <2>5. g = h \/ g = -h
    <3>1. f = Abs(f) \/ f = -Abs(f)
      BY <1>9 DEF Abs
    <3>2. j * f = h \/ j * f = -h
      BY <1>9, <2>2, <3>1
    <3>3. h \in Int /\ j * f \in Int
      BY <1>9, <2>4
    <3> HIDE DEF h
    <3> QED
      BY <2>1, <3>2, <3>3
  <2> HIDE DEF h
  <2> QED
    BY <2>4, <2>5
<1> QED
  BY <1>10 DEF g

\* What was drawn is near the line that was asked for.
LEMMA DrawnNearAsked ==
    ASSUME IInv, AskedInv, stage = "drawn", NEW c \in Main
    PROVE  Error(c, asked) <= 5 * Long(asked)
<1> DEFINE m == Long(seg)  k == LongSteps(seg, c[1], c[2])  L == Long(asked)
<1>1. seg \in Segment /\ asked \in Segment /\ m \in Nat /\ L \in Nat
  BY SegmentFields DEF IInv, Types, AskedInv
<1>2. Near
  BY DEF AskedInv
<1>3. Path(seg, style, cells, m + 1) /\ c \in cells
  BY DEF IInv, Main
<1>4. c[1] \in Int /\ c[2] \in Int /\ c = <<c[1], c[2]>> /\ k \in 0 .. m
  BY <1>1, <1>3 DEF Path
<1>5. Error(c, seg) <= m
  BY PathIsRight DEF LineRight
<1>6. Off(c[1], c[2]) \in Int /\ Off1 \in Int /\ Off2 \in Int
  BY <1>1, <1>4, SegmentFields, SeenFacts DEF Off1, Off2
<1>7. 2 * Off(c[1], c[2]) \in -(5 * L) .. 5 * L
  <2>1. CASE m = 0
    <3>1. ~Steep(seg)
      BY <1>1, <2>1, SegmentFields DEF Long, Dx, Dy, Steep, Abs
    <3>2. <<seg.x1, seg.y1>> \in cells /\ LongSteps(seg, seg.x1, seg.y1) = 0 /\ k = 0
      BY <1>1, <1>3, <1>4, <2>1, <3>1, SegmentFields DEF Path, LongSteps
    <3>3. PICK e \in cells : Follows(seg, style, cells, e, 0)
      BY <1>1, <1>3 DEF Path
    <3>4. c = e /\ <<seg.x1, seg.y1>> = e
      BY <1>3, <3>1, <3>2, <3>3 DEF Follows
    <3>5. Off(c[1], c[2]) = Off1
      BY <3>4 DEF Off1
    <3>6. Off1 \in -(2 * L) .. 2 * L
      BY <1>2 DEF Near
    <3> HIDE DEF L
    <3> QED
      BY <1>1, <1>6, <3>5, <3>6
  <2>2. CASE 0 < m
    <3>1. 2 * (m * Off(c[1], c[2]) - ((m - k) * Off1 + k * Off2)) \in -(m * L) .. m * L
      BY <1>1, <1>4, <1>5, CellOff
    <3>2. Off1 \in -(2 * L) .. 2 * L /\ Off2 \in -(2 * L) .. 2 * L
      BY <1>2 DEF Near
    <3> HIDE DEF m, k, L
    <3> QED
      BY <1>1, <1>4, <1>6, <2>2, <3>1, <3>2, Blend
  <2> QED
    BY <1>1, <2>1, <2>2
<1>8. Error(c, asked) = 2 * Abs(Off(c[1], c[2]))
  BY <1>1, <1>4, ErrorIsOff
<1> QED
  BY <1>1, <1>6, <1>7, <1>8 DEF Abs

LEMMA AskedHolds == LineSpec => []AskedInv
<1>1. LineInit => AskedInv
  BY DEF LineInit, AskedInv, NoSeg, Seg, Segment
<1>2. IInv => Types
  BY DEF IInv
<1>3. IInv /\ AskedInv /\ [LineNext]_lineVars => AskedInv'
  BY <1>2, AskedKept
<1> QED
  BY <1>1, <1>3, Invariant, PTL DEF LineSpec

\* However clip_line rounds and however often it exchanges the ends, on a canvas of any size: no
\* cell that is drawn is further than two cells and a half from the line that was asked for, and
\* no line is given up that has a cell of the canvas on it.
THEOREM ClippedNearAsked == LineSpec => []ClipRight
<1>1. IInv /\ AskedInv => ClipRight
  <2> SUFFICES ASSUME IInv, AskedInv PROVE ClipRight
    OBVIOUS
  <2>1. stage = "beside" => \A c \in (0 .. Width - 1) \X (0 .. Height - 1) : ~OnSegment(c, asked)
    BY DEF AskedInv, NoneOnIt, OnCols, OnRows
  <2> QED
    BY <2>1, DrawnNearAsked DEF ClipRight
<1> QED
  BY <1>1, Invariant, AskedHolds, PTL

-----------------------------------------------------------------------------
(* Figures.                                                                *)

\* A stage belongs to its kind of figure.
Kinds ==
    /\ fstage \in {"idle", "call", "circle", "flat", "steep", "sorted", "rows", "done"}
    /\ fstage # "idle" => fig \in Figure
    /\ fstage = "circle" => fig \in CircleJob
    /\ fstage \in {"flat", "steep"} => fig \in EllipseJob
    /\ fstage \in {"sorted", "rows"} => fig \in TriangleJob

LEMMA KindOf ==
    ASSUME NEW f \in Figure
    PROVE  /\ f.kind \in Frames \cup {"fill box"} => f \in BoxJob
           /\ f.kind = "label" => f \in LabelJob
           /\ f.kind = "circle" => f \in CircleJob
           /\ f.kind \in EllipseKinds => f \in EllipseJob
           /\ f.kind = "triangle" => f \in TriangleJob
           /\ f \in BoxJob => f.kind \in Frames \cup {"fill box"}
           /\ f \in LabelJob => f.kind = "label"
           /\ f \in CircleJob => f.kind = "circle"
           /\ f \in EllipseJob => f.kind \in EllipseKinds
           /\ f \in TriangleJob => f.kind = "triangle"
BY DEF Figure, BoxJob, LabelJob, CircleJob, EllipseJob, TriangleJob, Frames, EllipseKinds, Outlines

LEMMA KindsKept ==
    ASSUME Kinds, [FigureNext]_figureVars
    PROVE  Kinds'
<1>1. CASE CallFigure
  BY <1>1, FigureJobsAssumption DEF CallFigure, Kinds
<1>2. CASE ReturnFigure
  BY <1>2 DEF ReturnFigure, Kinds
<1>3. CASE FillBox \/ DrawBox \/ DrawLabel
  BY <1>3 DEF FillBox, DrawBox, DrawLabel, Kinds
<1>4. CASE CallCircle
  BY <1>4, KindOf DEF CallCircle, Kinds
<1>5. CASE CallEllipse
  BY <1>5, KindOf DEF CallEllipse, Kinds
<1>6. CASE CircleStep
  BY <1>6 DEF CircleStep, Kinds, Figure
<1>7. CASE EllipseFlat \/ EllipseTurn \/ EllipseSteep
  BY <1>7 DEF EllipseFlat, EllipseTurn, EllipseSteep, Kinds, Figure
<1>8. CASE SortCorners
  <2>1. fig \in TriangleJob
    BY <1>8, KindOf DEF SortCorners, Kinds
  <2>2. fig' \in TriangleJob
    <3>1. CASE fig' = fig
      BY <2>1, <3>1
    <3>2. ASSUME NEW i \in 1 .. 3, NEW j \in 1 .. 3, NEW k \in 1 .. 3,
                 fig' = [fig EXCEPT !.p = <<fig.p[i], fig.p[j], fig.p[k]>>]
          PROVE  fig' \in TriangleJob
      BY <2>1, <3>2 DEF TriangleJob
    <3> QED
      BY <1>8, <3>1, <3>2 DEF SortCorners
  <2>3. fstage' \in {"call", "sorted"}
    BY <1>8 DEF SortCorners, Kinds
  <2> QED
    BY <2>2, <2>3 DEF Kinds, Figure
<1>9. CASE FirstRow \/ TriangleRow
  BY <1>9 DEF FirstRow, TriangleRow, Kinds, Figure
<1>10. CASE UNCHANGED figureVars
  BY <1>10 DEF figureVars, Kinds
<1> QED
  BY <1>1, <1>2, <1>3, <1>4, <1>5, <1>6, <1>7, <1>8, <1>9, <1>10 DEF FigureNext, FigureStep

-----------------------------------------------------------------------------
(* Boxes.                                                                  *)

\* Which cells of the canvas lie in an edge that is cut.
LEMMA InnerCells ==
    ASSUME NEW lo \in Int, NEW hi \in Int, NEW most \in Int, lo <= hi, NEW n \in 0 .. most
    PROVE  n \in Inner(lo, hi, most) <=> lo < n /\ n < hi /\ n # 0 /\ n # most
<1>1. High(hi, most) \in Int
  BY DEF High
<1> QED
  BY <1>1 DEF Inner, High

LEMMA CoveredCells ==
    ASSUME NEW lo \in Int, NEW hi \in Int, NEW most \in Int, NEW n \in 0 .. most
    PROVE  n \in Low(lo) .. High(hi, most) <=> lo <= n /\ n <= hi
BY DEF Low, High

LEMMA CornersInOrder ==
    ASSUME NEW f \in BoxJob
    PROVE  /\ X1(f) \in Int /\ X2(f) \in Int /\ Y1(f) \in Int /\ Y2(f) \in Int
           /\ X1(f) <= X2(f) /\ Y1(f) <= Y2(f)
           /\ {f.x, f.x + f.w - 1} = {X1(f), X2(f)} /\ {f.y, f.y + f.h - 1} = {Y1(f), Y2(f)}
           /\ \A n \in Int : n \in Span(f.x, f.x + f.w - 1) <=> X1(f) <= n /\ n <= X2(f)
           /\ \A n \in Int : n \in Span(f.y, f.y + f.h - 1) <=> Y1(f) <= n /\ n <= Y2(f)
<1>1. f.x \in Int /\ f.y \in Int /\ f.w \in Int /\ f.h \in Int
  BY DEF BoxJob
<1> QED
  BY <1>1 DEF X1, X2, Y1, Y2, Span

LEMMA CanvasCell ==
    ASSUME NEW c \in Canvas
    PROVE  c[1] \in 0 .. XMax /\ c[2] \in 0 .. YMax /\ c = <<c[1], c[2]>> /\ XMax \in Int /\ YMax \in Int
BY CanvasAssumption DEF Canvas, XMax, YMax

LEMMA FillBoxRight ==
    ASSUME Kinds, FillBox
    PROVE  BoxRight'
<1>1. /\ fig \in BoxJob /\ fig' = fig
      /\ put' = IF BoxBeyond(fig) THEN {}
                ELSE (Low(X1(fig)) .. High(X2(fig), XMax)) \X (Low(Y1(fig)) .. High(Y2(fig), YMax))
  BY KindOf DEF FillBox, Kinds
<1>2. fig.kind = "fill box"
  BY DEF FillBox
<1>3. ASSUME NEW c \in Canvas
      PROVE  c \in put' <=> c[1] \in Span(fig.x, fig.x + fig.w - 1) /\ c[2] \in Span(fig.y, fig.y + fig.h - 1)
  <2> DEFINE x1 == X1(fig)  x2 == X2(fig)  y1 == Y1(fig)  y2 == Y2(fig)
  <2>1. c[1] \in 0 .. XMax /\ c[2] \in 0 .. YMax /\ c = <<c[1], c[2]>> /\ XMax \in Int /\ YMax \in Int
    BY CanvasCell
  <2>2. x1 \in Int /\ x2 \in Int /\ y1 \in Int /\ y2 \in Int
    BY <1>1, CornersInOrder
  <2>3. /\ c[1] \in Span(fig.x, fig.x + fig.w - 1) <=> x1 <= c[1] /\ c[1] <= x2
        /\ c[2] \in Span(fig.y, fig.y + fig.h - 1) <=> y1 <= c[2] /\ c[2] <= y2
    BY <1>1, <2>1, CornersInOrder
  <2>4. /\ c[1] \in Low(x1) .. High(x2, XMax) <=> x1 <= c[1] /\ c[1] <= x2
        /\ c[2] \in Low(y1) .. High(y2, YMax) <=> y1 <= c[2] /\ c[2] <= y2
    BY <2>1, <2>2, CoveredCells
  <2>5. CASE BoxBeyond(fig)
    <3>1. ~(x1 <= c[1] /\ c[1] <= x2) \/ ~(y1 <= c[2] /\ c[2] <= y2)
      BY <2>1, <2>2, <2>5 DEF BoxBeyond
    <3> QED
      BY <1>1, <2>3, <2>5, <3>1
  <2>6. CASE ~BoxBeyond(fig)
    BY <1>1, <2>1, <2>3, <2>4, <2>6
  <2> QED
    BY <2>5, <2>6
<1> QED
  BY <1>1, <1>2, <1>3 DEF BoxRight, Canvas, XMax, YMax

LEMMA DrawBoxRight ==
    ASSUME Kinds, DrawBox
    PROVE  BoxRight'
<1> DEFINE x1 == X1(fig)  x2 == X2(fig)  y1 == Y1(fig)  y2 == Y2(fig)
           cols == Inner(x1, x2, XMax)
           lines == Inner(y1, y2, YMax)
<1>1. fig \in BoxJob /\ fig' = fig /\ fig.kind # "fill box"
  BY KindOf DEF DrawBox, Kinds, Frames
<1>2. put' = IF BoxBeyond(fig) THEN {}
             ELSE cols \X ({r \in {y1} : r >= 0} \cup {r \in {y2} : r <= YMax})
               \cup ({c \in {x1} : c >= 0} \cup {c \in {x2} : c <= XMax}) \X lines
               \cup {x1, x2} \X {y1, y2}
  BY DEF DrawBox
<1>3. /\ x1 \in Int /\ x2 \in Int /\ y1 \in Int /\ y2 \in Int /\ x1 <= x2 /\ y1 <= y2
      /\ {fig.x, fig.x + fig.w - 1} = {x1, x2} /\ {fig.y, fig.y + fig.h - 1} = {y1, y2}
  BY <1>1, CornersInOrder
<1>4. ASSUME NEW c \in Canvas
      PROVE  LET onX == c[1] \in {fig.x, fig.x + fig.w - 1}
                 onY == c[2] \in {fig.y, fig.y + fig.h - 1}
                 within == c[1] \in Span(fig.x, fig.x + fig.w - 1) /\ c[2] \in Span(fig.y, fig.y + fig.h - 1)
                 cut == \/ onY /\ ~onX /\ (c[1] = 0 \/ c[1] = XMax)
                        \/ onX /\ ~onY /\ (c[2] = 0 \/ c[2] = YMax)
             IN  c \in put' <=> within /\ (onX \/ onY) /\ ~cut
  <2> DEFINE n == c[1]  m == c[2]
             onX == n \in {x1, x2}  onY == m \in {y1, y2}
             inX == x1 <= n /\ n <= x2  inY == y1 <= m /\ m <= y2
             edgeX == n = 0 \/ n = XMax  edgeY == m = 0 \/ m = YMax
  <2>1. n \in 0 .. XMax /\ m \in 0 .. YMax /\ c = <<n, m>> /\ XMax \in Int /\ YMax \in Int
    BY CanvasCell
  <2>2. (n \in Span(fig.x, fig.x + fig.w - 1) <=> inX) /\ (m \in Span(fig.y, fig.y + fig.h - 1) <=> inY)
    <3>1. n \in Int /\ m \in Int
      BY <2>1
    <3>2. /\ \A k \in Int : k \in Span(fig.x, fig.x + fig.w - 1) <=> x1 <= k /\ k <= x2
          /\ \A k \in Int : k \in Span(fig.y, fig.y + fig.h - 1) <=> y1 <= k /\ k <= y2
      BY <1>1, CornersInOrder
    <3> HIDE DEF x1, x2, y1, y2, n, m
    <3> QED
      BY <3>1, <3>2
  <2>3. (n \in cols <=> inX /\ ~onX /\ ~edgeX) /\ (m \in lines <=> inY /\ ~onY /\ ~edgeY)
    <3>1. n \in cols <=> x1 < n /\ n < x2 /\ n # 0 /\ n # XMax
      BY <1>3, <2>1, InnerCells
    <3>2. m \in lines <=> y1 < m /\ m < y2 /\ m # 0 /\ m # YMax
      BY <1>3, <2>1, InnerCells
    <3> QED
      BY <1>3, <2>1, <3>1, <3>2
  <2>4. (onX => inX) /\ (onY => inY)
    BY <1>3, <2>1
  <2>5. /\ m \in {r \in {y1} : r >= 0} \cup {r \in {y2} : r <= YMax} <=> onY
        /\ n \in {r \in {x1} : r >= 0} \cup {r \in {x2} : r <= XMax} <=> onX
    BY <1>3, <2>1
  <2>6. c \in put' <=> inX /\ inY /\ (onX \/ onY) /\ ~(onY /\ ~onX /\ edgeX) /\ ~(onX /\ ~onY /\ edgeY)
    <3>1. CASE BoxBeyond(fig)
      <4>1. ~inX \/ ~inY
        BY <1>3, <2>1, <3>1 DEF BoxBeyond
      <4> QED
        BY <1>2, <3>1, <4>1
    <3>2. CASE ~BoxBeyond(fig)
      <4>1. c \in put' <=> (n \in cols /\ onY) \/ (onX /\ m \in lines) \/ (onX /\ onY)
        <5> HIDE DEF cols, lines, x1, x2, y1, y2
        <5>1. c \in put' <=>
                 \/ c \in cols \X ({r \in {y1} : r >= 0} \cup {r \in {y2} : r <= YMax})
                 \/ c \in ({r \in {x1} : r >= 0} \cup {r \in {x2} : r <= XMax}) \X lines
                 \/ c \in {x1, x2} \X {y1, y2}
          BY <1>2, <3>2
        <5> QED
          BY <2>1, <2>5, <5>1
      <4> HIDE DEF onX, onY, inX, inY, edgeX, edgeY, cols, lines
      <4> QED
        BY <2>3, <2>4, <4>1
    <3> QED
      BY <3>1, <3>2
  <2> QED
    BY <1>3, <2>2, <2>6
<1> QED
  BY <1>1, <1>4 DEF BoxRight, Canvas, XMax, YMax

-----------------------------------------------------------------------------
(* Labels.                                                                 *)

LEMMA AngleFacts ==
    ASSUME NEW angle \in Word
    PROVE  /\ TextAngle(angle) = 0 <=> angle % 3600 < 450 \/ angle % 3600 >= 3150
           /\ TextAngle(angle) = 1 <=> angle % 3600 \in 450 .. 1349
<1>1. angle % 3600 \in Int /\ 0 <= angle % 3600 /\ angle % 3600 < 3600
  BY DEF Word
<1> DEFINE turn == angle % 3600  part8 == turn \div 450
<1>2. TextAngle(angle) = IF part8 \in {0, 7} THEN 0 ELSE IF part8 \in {1, 2} THEN 1 ELSE IF part8 \in {3, 4} THEN 2 ELSE 4
  BY DEF TextAngle
<1> HIDE DEF turn
<1>3. part8 \in Nat /\ 450 * part8 <= turn /\ turn < 450 * part8 + 450
  <2>1. turn \in Nat
    BY <1>1 DEF turn
  <2> QED
    BY <2>1, QuotientFacts
<1> HIDE DEF part8
<1>4. turn \in Nat /\ turn < 3600
  BY <1>1 DEF turn
<1>5. (part8 \in {0, 7} <=> turn < 450 \/ turn >= 3150) /\ (part8 \in {1, 2} <=> turn \in 450 .. 1349)
  BY <1>3, <1>4
<1> QED
  BY <1>2, <1>5 DEF turn

\* Half the length before its point; before column or row 0 the start wraps to one no canvas has.
LEMMA StartFacts ==
    ASSUME NEW n \in Word, NEW len \in Word, NEW k \in Nat, k < 32768
    PROVE  (\E c \in 0 .. len - 1 : Starts(n, len) + c = k) <=>
              2 * n >= len - 1 /\ 2 * (k - n) \in -len .. len - 1
<1> DEFINE h == len \div 2  s == n - h
<1>1. h \in Nat /\ h < 32768 /\ (len = 2 * h \/ len = 2 * h + 1) /\ n \in Nat /\ n < 65536 /\ len \in Nat /\ len < 65536
  <2>1. n \in Nat /\ n < 65536 /\ len \in Nat /\ len < 65536
    BY DEF Word
  <2>2. h \in Nat /\ 2 * h <= len /\ len < 2 * h + 2
    BY <2>1, QuotientFacts
  <2> HIDE DEF h
  <2> QED
    BY <2>1, <2>2
<1>2. Starts(n, len) = s % 65536
  BY DEF Starts
<1> HIDE DEF h
<1>3. CASE s >= 0
  <2>1. s % 65536 = s /\ s \in Int
    BY <1>1, <1>3
  <2>2. (\E c \in 0 .. len - 1 : s + c = k) <=> s <= k /\ k <= s + len - 1
    <3>1. ASSUME s <= k, k <= s + len - 1 PROVE \E c \in 0 .. len - 1 : s + c = k
      <4>1. k - s \in 0 .. len - 1 /\ s + (k - s) = k
        BY <1>1, <2>1, <3>1
      <4> QED
        BY <4>1
    <3> QED
      BY <1>1, <2>1, <3>1
  <2> QED
    BY <1>1, <1>2, <1>3, <2>1, <2>2
<1>4. CASE s < 0
  <2>1. s % 65536 = s + 65536
    BY <1>1, <1>4
  <2>2. ~\E c \in 0 .. len - 1 : s + 65536 + c = k
    BY <1>1
  <2> QED
    BY <1>1, <1>2, <1>4, <2>1, <2>2
<1> QED
  BY <1>1, <1>3, <1>4

LEMMA DrawLabelRight ==
    ASSUME Kinds, DrawLabel
    PROVE  LabelRight'
<1> DEFINE chars == 0 .. fig.len - 1
<1>1. /\ fig \in LabelJob /\ fig' = fig
      /\ put' = IF TextAngle(fig.angle) = 0 THEN {<<Starts(fig.x, fig.len) + c, fig.y>> : c \in chars}
                ELSE IF TextAngle(fig.angle) = 1 THEN {<<fig.x, Starts(fig.y, fig.len) + c>> : c \in chars}
                ELSE {}
  BY KindOf DEF DrawLabel, Kinds
<1>2. fig.x \in Word /\ fig.y \in Word /\ fig.len \in Word /\ fig.angle \in Word
  BY <1>1 DEF LabelJob
<1> DEFINE turn == fig.angle % 3600
           level == turn < 450 \/ turn >= 3150
           reach(n, at) == 2 * (n - at) \in -fig.len .. fig.len - 1
<1>3. (TextAngle(fig.angle) = 0 <=> level) /\ (TextAngle(fig.angle) = 1 <=> turn \in 450 .. 1349)
  BY <1>2, AngleFacts
<1>4. ~(level /\ turn \in 450 .. 1349)
  <2>1. turn \in Int
    <3>1. fig.angle \in Nat
      BY <1>2 DEF Word
    <3> QED
      BY <3>1
  <2> HIDE DEF turn
  <2> QED
    BY <2>1
<1>5. ASSUME NEW c \in Canvas
      PROVE  c \in put' <=>
                \/ level /\ 2 * fig.x >= fig.len - 1 /\ reach(c[1], fig.x) /\ c[2] = fig.y
                \/ turn \in 450 .. 1349 /\ 2 * fig.y >= fig.len - 1 /\ reach(c[2], fig.y) /\ c[1] = fig.x
  <2>1. c[1] \in Nat /\ c[1] < 32768 /\ c[2] \in Nat /\ c[2] < 32768 /\ c = <<c[1], c[2]>>
    BY CanvasCell, CanvasAssumption, ScreenAssumption DEF XMax, YMax
  <2>2. (\E n \in chars : Starts(fig.x, fig.len) + n = c[1]) <=> 2 * fig.x >= fig.len - 1 /\ reach(c[1], fig.x)
    BY <1>2, <2>1, StartFacts
  <2>3. (\E n \in chars : Starts(fig.y, fig.len) + n = c[2]) <=> 2 * fig.y >= fig.len - 1 /\ reach(c[2], fig.y)
    BY <1>2, <2>1, StartFacts
  <2> HIDE DEF reach, chars, turn
  <2>4. CASE level
    BY <1>1, <1>3, <1>4, <2>1, <2>2, <2>4
  <2>5. CASE turn \in 450 .. 1349
    BY <1>1, <1>3, <1>4, <2>1, <2>3, <2>5
  <2>6. CASE ~level /\ turn \notin 450 .. 1349
    BY <1>1, <1>3, <2>6
  <2> QED
    BY <2>4, <2>5, <2>6
<1> QED
  BY <1>1, <1>5, SMTT(30) DEF LabelRight, Canvas, XMax, YMax

-----------------------------------------------------------------------------
(* Every step.                                                             *)

\* A figure that is not a box and not a label, or is not finished, is not asked about.
LEMMA OtherFigures ==
    fstage # "done" \/ fig \in CircleJob \cup EllipseJob \cup TriangleJob => BoxesAndLabels
<1> SUFFICES ASSUME fstage # "done" \/ fig \in CircleJob \cup EllipseJob \cup TriangleJob
             PROVE  ~Finished(Frames \cup {"fill box"}) /\ ~Finished({"label"})
  BY DEF BoxesAndLabels, BoxRight, LabelRight
<1>1. CASE fstage # "done"
  BY <1>1 DEF Finished
<1>2. CASE fig \in CircleJob \cup EllipseJob \cup TriangleJob
  BY <1>2 DEF Finished, CircleJob, EllipseJob, TriangleJob, Frames, EllipseKinds, Outlines
<1> QED
  BY <1>1, <1>2

LEMMA OtherFiguresNext ==
    (fstage # "done" \/ fig \in CircleJob \cup EllipseJob \cup TriangleJob => BoxesAndLabels)'
BY OtherFigures, PTL

LEMMA BoxesAndLabelsKept ==
    ASSUME Kinds, BoxesAndLabels, [FigureNext]_figureVars
    PROVE  BoxesAndLabels'
<1>1. fstage' # "done" \/ fig' \in CircleJob \cup EllipseJob \cup TriangleJob => BoxesAndLabels'
  BY OtherFiguresNext DEF CircleJob, EllipseJob, TriangleJob, EllipseKinds, Outlines
<1>2. CASE FillBox \/ DrawBox
  <2>1. BoxRight'
    BY <1>2, FillBoxRight, DrawBoxRight
  <2>2. fig'.kind # "label"
    BY <1>2 DEF FillBox, DrawBox, Frames
  <2> QED
    BY <2>1, <2>2, SMTT(30) DEF BoxesAndLabels, LabelRight, Finished
<1>3. CASE DrawLabel
  <2>1. LabelRight'
    BY <1>3, DrawLabelRight
  <2>2. fig'.kind \notin Frames \cup {"fill box"}
    BY <1>3 DEF DrawLabel, Frames
  <2> QED
    BY <2>1, <2>2 DEF BoxesAndLabels, BoxRight, Finished
<1>4. CASE CallFigure \/ ReturnFigure \/ CallCircle \/ CallEllipse \/ EllipseFlat \/ EllipseTurn \/ SortCorners \/ FirstRow
  <2>1. fstage' # "done"
    BY <1>4 DEF CallFigure, ReturnFigure, CallCircle, CallEllipse, EllipseFlat, EllipseTurn, SortCorners, FirstRow
  <2> QED
    BY <1>1, <2>1
<1>5. CASE CircleStep \/ EllipseSteep \/ TriangleRow
  <2>1. fig' \in CircleJob \cup EllipseJob \cup TriangleJob
    BY <1>5 DEF CircleStep, EllipseSteep, TriangleRow, Kinds
  <2> QED
    BY <1>1, <2>1
<1>6. CASE UNCHANGED figureVars
  <2>1. fig' = fig /\ fstage' = fstage /\ put' = put
    BY <1>6 DEF figureVars
  <2>2. BoxRight'
    BY <2>1 DEF BoxesAndLabels, BoxRight, Finished, Canvas, XMax, YMax
  <2>3. LabelRight'
    BY <2>1, SMTT(30) DEF BoxesAndLabels, LabelRight, Finished, Canvas, XMax, YMax
  <2> QED
    BY <2>2, <2>3 DEF BoxesAndLabels
<1> QED
  BY <1>2, <1>3, <1>4, <1>5, <1>6 DEF FigureNext, FigureStep

\* The clipped edges of a frame, a filled box and the halved, wrapping start of a label put the
\* cells of the canvas they should and no others, whatever the corners, the text and the angle.
THEOREM BoxesAndLabelsRight == FigureSpec => []BoxesAndLabels
<1>1. FigureInit => Kinds /\ BoxesAndLabels
  <2>1. FigureInit => fstage = "idle"
    BY DEF FigureInit
  <2>2. FigureInit => Kinds
    BY <2>1 DEF Kinds
  <2> QED
    BY <2>1, <2>2, OtherFigures
<1>2. Kinds /\ BoxesAndLabels /\ [FigureNext]_figureVars => (Kinds /\ BoxesAndLabels)'
  <2> SUFFICES ASSUME Kinds, BoxesAndLabels, [FigureNext]_figureVars
               PROVE  Kinds' /\ BoxesAndLabels'
    OBVIOUS
  <2> QED
    BY KindsKept, BoxesAndLabelsKept
<1> QED
  BY <1>1, <1>2, PTL DEF FigureSpec

-----------------------------------------------------------------------------
(* Circles.                                                                *)

\* Some cell was put in the column k to the left and in the one k to the right of the centre.
Columns(k) ==
    {fig.x - fig.r, fig.x + fig.r} \X {fig.y - fig.r, fig.y + fig.r} \subseteq Canvas =>
        (\E c \in put : c[1] = fig.x - k) /\ (\E c \in put : c[1] = fig.x + k)

NearCircle(c) ==
    /\ Square(c) + 1 >= (fig.r - 1) * (fig.r - 1)
    /\ 16 * Square(c) <= (4 * fig.r + 5) * (4 * fig.r + 5)

\* The decision variable is a function of the place, and bounded by it on both sides.
CirclePen ==
    /\ fx \in Nat /\ fy \in Int /\ d \in Int /\ fy <= fig.r
    /\ 2 * d = fx * (fx - 1) + fy * (fy + 1) - fig.r * (fig.r + 1)
    /\ -fy <= d \/ fig.r < 0
    /\ IF fx = 0 THEN d = 0 ELSE d < fx

CirclePut ==
    /\ \A c \in put : NearCircle(c)
    /\ \A k \in 0 .. fx - 1 : Columns(k)
    /\ \A k \in fy + 1 .. fig.r : Columns(k)

CircleInv ==
    /\ fstage = "circle" => CirclePen /\ CirclePut
    /\ Finished({"circle"}) => fx > fy /\ CirclePen /\ CirclePut
    /\ fstage = "call" => put = {}
    /\ fstage = "idle" => put = {}

LEMMA CircleDone == CircleInv /\ Kinds => CircleRight
<1> SUFFICES ASSUME CircleInv, Kinds, Finished({"circle"})
             PROVE  /\ \A c \in put : NearCircle(c)
                    /\ {fig.x - fig.r, fig.x + fig.r} \X {fig.y - fig.r, fig.y + fig.r} \subseteq Canvas =>
                          \A i \in fig.x - fig.r .. fig.x + fig.r : \E c \in put : c[1] = i
  BY DEF CircleRight, NearCircle
<1>1. CirclePut /\ fx \in Nat /\ fy \in Int /\ fx > fy
  BY DEF CircleInv, CirclePen
<1>2. fig.x \in Int /\ fig.r \in Int
  BY KindOf DEF Kinds, Finished, CircleJob
<1>3. ASSUME {fig.x - fig.r, fig.x + fig.r} \X {fig.y - fig.r, fig.y + fig.r} \subseteq Canvas,
             NEW i \in fig.x - fig.r .. fig.x + fig.r
      PROVE  \E c \in put : c[1] = i
  <2> DEFINE k == IF i < fig.x THEN fig.x - i ELSE i - fig.x
  <2>1. k \in 0 .. fig.r /\ (i = fig.x - k \/ i = fig.x + k)
    BY <1>2
  <2> HIDE DEF k
  <2>2. k \in 0 .. fx - 1 \/ k \in fy + 1 .. fig.r
    BY <1>1, <1>2, <2>1
  <2>3. Columns(k)
    BY <1>1, <2>2 DEF CirclePut
  <2> QED
    BY <1>3, <2>1, <2>3 DEF Columns
<1> QED
  BY <1>1, <1>3 DEF CirclePut

\* A circle is left behind before its columns are wider than three quarters of the radius.
LEMMA EighthOfCircle ==
    ASSUME NEW n \in Nat, NEW m \in Nat, NEW r \in Nat, n <= m, m <= r, NEW h \in Int, h <= n - 1,
           2 * h = n * (n - 1) + m * (m + 1) - r * (r + 1)
    PROVE  32 * n <= 24 * r + 57
<1> SUFFICES ASSUME 32 * n >= 24 * r + 58 PROVE FALSE
  OBVIOUS
<1>1. 2 * (n * n) <= 2 * n + r * (r + 1)
  OBVIOUS
<1>2. 32 * n * (32 * n - 32) >= (24 * r + 58) * (24 * r + 26)
  OBVIOUS
<1> QED
  BY <1>1, <1>2

LEMMA PenNearCircle ==
    ASSUME NEW n \in Nat, NEW m \in Nat, NEW r \in Nat, n <= m, m <= r, NEW h \in Int,
           -m <= h, IF n = 0 THEN h = 0 ELSE h < n,
           2 * h = n * (n - 1) + m * (m + 1) - r * (r + 1)
    PROVE  /\ n * n + m * m + 1 >= (r - 1) * (r - 1)
           /\ 16 * (n * n + m * m) <= (4 * r + 5) * (4 * r + 5)
<1> DEFINE nn == n * n  mm == m * m  rr == r * r
<1>1. nn \in Int /\ mm \in Int /\ rr \in Int
  OBVIOUS
<1>2. 2 * h = nn - n + mm + m - rr - r
  OBVIOUS
<1>3. (r - 1) * (r - 1) = rr - 2 * r + 1 /\ (4 * r + 5) * (4 * r + 5) = 16 * rr + 40 * r + 25
  OBVIOUS
<1>4. n = 0 \/ 32 * n <= 24 * r + 57
  BY EighthOfCircle
<1> HIDE DEF nn, mm, rr
<1>5. nn + mm + 1 >= rr - 2 * r + 1 /\ 16 * (nn + mm) <= 16 * rr + 40 * r + 25
  BY <1>1, <1>2, <1>4
<1> QED
  BY <1>3, <1>5 DEF nn, mm

LEMMA SquareOfCell ==
    ASSUME NEW n \in Nat, NEW m \in Nat, fig \in CircleJob, NEW c \in Quadrants(n, m) \cup Quadrants(m, n)
    PROVE  Square(c) = n * n + m * m
<1> DEFINE a == c[1] - fig.x  b == c[2] - fig.y
<1>1. fig.x \in Int /\ fig.y \in Int
  BY DEF CircleJob
<1>2. \/ c[1] \in {fig.x + n, fig.x - n} /\ c[2] \in {fig.y + m, fig.y - m}
      \/ c[1] \in {fig.x + m, fig.x - m} /\ c[2] \in {fig.y + n, fig.y - n}
  BY DEF Quadrants
<1>3. (a \in {n, -n} /\ b \in {m, -m}) \/ (a \in {m, -m} /\ b \in {n, -n})
  BY <1>1, <1>2
<1> HIDE DEF a, b
<1>4. a * a + b * b = n * n + m * m
  BY <1>3
<1> QED
  BY <1>4 DEF Square, a, b

LEMMA CellsOfQuadrants ==
    ASSUME NEW n \in Nat, NEW m \in Nat, fig \in CircleJob, n <= fig.r, m <= fig.r,
           {fig.x - fig.r, fig.x + fig.r} \X {fig.y - fig.r, fig.y + fig.r} \subseteq Canvas
    PROVE  <<fig.x - n, fig.y + m>> \in Quadrants(n, m) /\ <<fig.x + n, fig.y + m>> \in Quadrants(n, m)
<1>1. fig.x \in Int /\ fig.y \in Int /\ fig.r \in Int /\ XMax \in Int /\ YMax \in Int
  BY CanvasAssumption DEF CircleJob, XMax, YMax
<1>2. <<fig.x - fig.r, fig.y + fig.r>> \in Canvas /\ <<fig.x + fig.r, fig.y - fig.r>> \in Canvas
  OBVIOUS
<1>3. fig.x - fig.r >= 0 /\ fig.x + fig.r <= XMax /\ fig.y - fig.r >= 0 /\ fig.y + fig.r <= YMax
  BY <1>1, <1>2 DEF Canvas
<1>4. fig.x - n \in 0 .. XMax /\ fig.x + n \in 0 .. XMax /\ fig.y + m \in 0 .. YMax
  BY <1>1, <1>3
<1> QED
  BY <1>4 DEF Quadrants, Canvas

LEMMA CircleStepKeeps ==
    ASSUME CircleStep, CirclePen, CirclePut, fig \in CircleJob
    PROVE  CirclePen' /\ CirclePut' /\ (fstage' = "done" => fx' > fy')
<1>1. CASE fx > fy
  <2>1. UNCHANGED <<fig, fx, fy, d, put>>
    BY <1>1 DEF CircleStep
  <2> QED
    BY <1>1, <2>1 DEF CirclePen, CirclePut, Columns, NearCircle, Square, Canvas, XMax, YMax
<1>2. CASE ~(fx > fy)
  <2>1. /\ put' = put \cup Quadrants(fx, fy) \cup Quadrants(fy, fx)
        /\ d' = CircleDecision(fx, fy)
        /\ fy' = IF d > 0 THEN fy - 1 ELSE fy
        /\ fx' = fx + 1 /\ fig' = fig /\ fstage' = fstage /\ fstage = "circle"
    BY <1>2 DEF CircleStep
  <2>2. /\ fig.r \in Int /\ fx \in Nat /\ fy \in Int /\ d \in Int /\ fy <= fig.r
        /\ 2 * d = fx * (fx - 1) + fy * (fy + 1) - fig.r * (fig.r + 1)
        /\ -fy <= d /\ IF fx = 0 THEN d = 0 ELSE d < fx
    BY <1>2 DEF CirclePen, CircleJob
  <2>3. fx <= fy /\ fy \in Nat /\ fig.r \in Nat
    BY <1>2, <2>2
  <2>4. CirclePen'
    <3> DEFINE r == fig.r  rest == fig.r * (fig.r + 1)
    <3>1. rest \in Int /\ r \in Int
      BY <2>2
    <3>2. 2 * d = fx * (fx - 1) + fy * (fy + 1) - rest /\ fy <= r
      BY <2>2
    <3>3. d' = IF d > 0 THEN d + fx - fy ELSE d + fx
      BY <2>1 DEF CircleDecision
    <3> HIDE DEF rest, r
    <3>4. 2 * d' = fx' * (fx' - 1) + fy' * (fy' + 1) - rest
      BY <2>1, <2>2, <2>3, <3>1, <3>2, <3>3
    <3>5. fx' \in Nat /\ fy' \in Int /\ d' \in Int /\ fy' <= r /\ -fy' <= d' /\ fx' # 0 /\ d' < fx'
      BY <2>1, <2>2, <2>3, <3>1, <3>2, <3>3
    <3>6. fig' = fig
      BY <2>1
    <3> QED
      BY <3>4, <3>5, <3>6 DEF CirclePen, r, rest
  <2>5. ASSUME NEW c \in put' PROVE NearCircle(c)
    <3>1. CASE c \in put
      BY <3>1 DEF CirclePut
    <3>2. CASE c \in Quadrants(fx, fy) \cup Quadrants(fy, fx)
      <4>1. Square(c) = fx * fx + fy * fy
        BY <2>2, <2>3, <3>2, SquareOfCell
      <4>2. /\ fx * fx + fy * fy + 1 >= (fig.r - 1) * (fig.r - 1)
            /\ 16 * (fx * fx + fy * fy) <= (4 * fig.r + 5) * (4 * fig.r + 5)
        BY <2>2, <2>3, PenNearCircle
      <4> QED
        BY <4>1, <4>2 DEF NearCircle
    <3> QED
      BY <2>1, <3>1, <3>2
  <2>6. ASSUME NEW k, Columns(k) PROVE Columns(k)'
    BY <2>1, <2>6 DEF Columns, Canvas, XMax, YMax
  <2>7. ASSUME NEW k \in {fx, fy} PROVE Columns(k)'
    <3> SUFFICES ASSUME {fig.x - fig.r, fig.x + fig.r} \X {fig.y - fig.r, fig.y + fig.r} \subseteq Canvas
                 PROVE  (\E c \in put' : c[1] = fig.x - k) /\ (\E c \in put' : c[1] = fig.x + k)
      BY <2>1 DEF Columns, Canvas, XMax, YMax
    <3>1. PICK m \in {fx, fy} : Quadrants(k, m) \subseteq put'
      BY <2>1
    <3>2. k \in Nat /\ m \in Nat /\ k <= fig.r /\ m <= fig.r
      BY <2>2, <2>3
    <3>3. <<fig.x - k, fig.y + m>> \in put' /\ <<fig.x + k, fig.y + m>> \in put'
      BY <3>1, <3>2, CellsOfQuadrants
    <3> QED
      BY <3>3
  <2>8. ASSUME NEW k \in 0 .. fx' - 1 PROVE Columns(k)'
    <3>1. k = fx \/ k \in 0 .. fx - 1
      BY <2>1, <2>2
    <3> QED
      BY <2>6, <2>7, <3>1 DEF CirclePut
  <2>9. ASSUME NEW k \in fy' + 1 .. fig.r PROVE Columns(k)'
    <3>1. k = fy \/ k \in fy + 1 .. fig.r
      BY <2>1, <2>2
    <3> QED
      BY <2>6, <2>7, <3>1 DEF CirclePut
  <2>10. CirclePut'
    <3>1. fig' = fig
      BY <2>1
    <3>2. \A c \in put' : NearCircle(c)'
      BY <2>5, <3>1 DEF NearCircle, Square
    <3>3. (\A k \in 0 .. fx' - 1 : Columns(k)') /\ (\A k \in fy' + 1 .. fig'.r : Columns(k)')
      BY <2>8, <2>9, <3>1
    <3> QED
      BY <3>2, <3>3 DEF CirclePut
  <2> QED
    BY <2>1, <2>4, <2>10
<1> QED
  BY <1>1, <1>2

LEMMA CircleKept ==
    ASSUME Kinds, CircleInv, [FigureNext]_figureVars
    PROVE  CircleInv'
<1>1. CASE CircleStep
  <2>1. fstage = "circle" /\ fig \in CircleJob /\ fstage' \in {"circle", "done"}
    BY <1>1 DEF CircleStep, Kinds
  <2> QED
    BY <1>1, <2>1, CircleStepKeeps DEF CircleInv, Finished
<1>2. CASE CallCircle
  <2>1. fig \in CircleJob /\ fig.r \in Int /\ fig' = fig /\ fx' = 0 /\ fy' = fig.r /\ d' = 0 /\ put' = {} /\ fstage' = "circle"
    BY <1>2, KindOf DEF CallCircle, Kinds, CircleInv, CircleJob
  <2>2. CirclePen'
    BY <2>1 DEF CirclePen
  <2>3. CirclePut'
    BY <2>1 DEF CirclePut
  <2> QED
    BY <2>1, <2>2, <2>3 DEF CircleInv, Finished
<1>3. CASE FillBox \/ DrawBox \/ DrawLabel
  BY <1>3 DEF FillBox, DrawBox, DrawLabel, CircleInv, Finished, Frames
<1>4. CASE CallFigure \/ ReturnFigure \/ CallEllipse \/ EllipseFlat \/ EllipseTurn \/ SortCorners \/ FirstRow
  BY <1>4 DEF CallFigure, ReturnFigure, CallEllipse, EllipseFlat, EllipseTurn, SortCorners, FirstRow, CircleInv, Finished
<1>5. CASE EllipseSteep \/ TriangleRow
  <2>1. fig'.kind # "circle" /\ fstage' \in {"done", "steep", "rows"}
    <3>1. fig' = fig /\ fstage' \in {"done", "steep", "rows"} /\ fig \in EllipseJob \cup TriangleJob
      BY <1>5 DEF EllipseSteep, TriangleRow, Kinds
    <3> QED
      BY <3>1 DEF EllipseJob, TriangleJob, EllipseKinds, Outlines
  <2> QED
    BY <2>1 DEF CircleInv, Finished
<1>6. CASE UNCHANGED figureVars
  BY <1>6 DEF figureVars, CircleInv, Finished, CirclePen, CirclePut, NearCircle, Square, Columns, Canvas, XMax, YMax
<1> QED
  BY <1>1, <1>2, <1>3, <1>4, <1>5, <1>6 DEF FigureNext, FigureStep

\* The decision variable of a circle is a function of the place it has come to, which keeps
\* the cells within a ring, on a canvas of any size and for any radius; and every column is
\* passed, by one octant or the other.
THEOREM CirclesRight == FigureSpec => []CircleRight
<1>1. FigureInit => Kinds /\ CircleInv
  BY DEF FigureInit, Kinds, CircleInv, Finished
<1>2. Kinds /\ CircleInv /\ [FigureNext]_figureVars => (Kinds /\ CircleInv)'
  <2> SUFFICES ASSUME Kinds, CircleInv, [FigureNext]_figureVars
               PROVE  Kinds' /\ CircleInv'
    OBVIOUS
  <2> QED
    BY KindsKept, CircleKept
<1>3. Kinds /\ CircleInv => CircleRight
  BY CircleDone
<1> QED
  BY <1>1, <1>2, <1>3, PTL DEF FigureSpec

-----------------------------------------------------------------------------
(* Triangles.                                                              *)

\* Division by a positive number cuts off towards zero.
LEMMA CutOff ==
    ASSUME NEW a \in Int, NEW b \in Nat, b > 0
    PROVE  /\ CDiv(a, b) \in Int
           /\ a >= 0 => b * CDiv(a, b) <= a /\ a < b * CDiv(a, b) + b
           /\ a < 0 => a <= b * CDiv(a, b) /\ b * CDiv(a, b) < a + b
<1>1. CASE a >= 0
  <2>1. CDiv(a, b) = a \div b
    BY <1>1 DEF CDiv, Abs
  <2> QED
    BY <1>1, <2>1, QuotientFacts
<1>2. CASE a < 0
  <2> DEFINE e == -a  q == e \div b
  <2>1. e \in Nat
    BY <1>2
  <2>2. CDiv(a, b) = -q
    BY <1>2 DEF CDiv, Abs
  <2>3. q \in Nat /\ b * q <= e /\ e < b * q + b
    BY <2>1, QuotientFacts
  <2> HIDE DEF q
  <2>4. b * (-q) = -(b * q) /\ b * q \in Int
    BY <2>3
  <2> QED
    BY <1>2, <2>2, <2>3, <2>4
<1> QED
  BY <1>1, <1>2

Point == Int \X Int
Fall(p, q) == q[2] - p[2]

\* How far a place in row r, in 1/Scale of a cell, has strayed from a side, times the side's height.
Strayed(v, p, q, r) ==
    v * Fall(p, q) - Scale * (p[1] * Fall(p, q) + (q[1] - p[1]) * (r - p[2]))
KeepsTo(v, p, q, r) == -(31 * Fall(p, q)) <= Strayed(v, p, q, r) /\ Strayed(v, p, q, r) <= 31 * Fall(p, q)

LEMMA SlopeFacts ==
    ASSUME NEW p \in Point, NEW q \in Point
    PROVE  /\ Slope(p, q) \in Int
           /\ p[2] < q[2] => /\ -Fall(p, q) <= Slope(p, q) * Fall(p, q) - Scale * (q[1] - p[1])
                             /\ Slope(p, q) * Fall(p, q) - Scale * (q[1] - p[1]) <= Fall(p, q)
<1> DEFINE w == Scale * (q[1] - p[1])  m == Fall(p, q)  h == Slope(p, q)
<1>1. w \in Int /\ m \in Int /\ m = q[2] - p[2]
  BY DEF Point, Scale, Fall
<1>2. h = IF p[2] = q[2] THEN 0 ELSE CDiv(w, m)
  <2>1. (q[1] - p[1]) * Scale = w
    BY DEF Point, Scale
  <2> QED
    BY <2>1 DEF Slope, Fall
<1> HIDE DEF w, m, h
<1>3. h \in Int
  BY <1>1, <1>2, CDivType DEF Point
<1>4. ASSUME p[2] < q[2] PROVE -m <= h * m - w /\ h * m - w <= m
  <2>1. m \in Nat /\ m > 0 /\ h = CDiv(w, m)
    BY <1>1, <1>2, <1>4 DEF Point
  <2>2. (w >= 0 => m * h <= w /\ w < m * h + m) /\ (w < 0 => w <= m * h /\ m * h < w + m)
    BY <1>1, <2>1, CutOff
  <2>3. m * h = h * m /\ m * h \in Int
    BY <1>1, <1>3
  <2> QED
    BY <1>1, <2>2, <2>3
<1> QED
  BY <1>3, <1>4 DEF w, m, h

\* What a slope is off by adds up row by row.
LEMMA ErrorsAddUp ==
    ASSUME NEW h \in Int, NEW m \in Nat, NEW w \in Int, NEW k \in Int, NEW b \in Nat,
           -m <= h * m - w /\ h * m - w <= m, -b <= k /\ k <= b
    PROVE  -(b * m) <= h * k * m - w * k /\ h * k * m - w * k <= b * m
<1> DEFINE e == h * m - w
<1>1. e \in Int
  OBVIOUS
<1>2. h * k * m - w * k = e * k
  OBVIOUS
<1>3. -m <= e /\ e <= m
  OBVIOUS
<1> HIDE DEF e
<1>4. e * k <= b * m /\ -(b * m) <= e * k
  <2> DEFINE f == IF e < 0 THEN -e ELSE e  g == IF k < 0 THEN -k ELSE k
  <2>1. f \in Nat /\ g \in Nat /\ f <= m /\ g <= b
    BY <1>1, <1>3
  <2>2. f * g <= m * b /\ m * b = b * m
    BY <2>1, MonotoneNat
  <2>3. e * k = f * g \/ e * k = -(f * g)
    BY <1>1
  <2>4. f * g \in Nat /\ b * m \in Nat
    BY <2>1
  <2> HIDE DEF f, g
  <2> QED
    BY <2>2, <2>3, <2>4
<1> QED
  BY <1>2, <1>4

LEMMA FollowsDown ==
    ASSUME NEW p \in Point, NEW q \in Point, p[2] < q[2], NEW g \in Int, NEW b \in Nat, -b <= g /\ g <= b,
           NEW k \in Nat, b + k <= 31
    PROVE  KeepsTo(p[1] * Scale + g + Slope(p, q) * k, p, q, p[2] + k)
<1> DEFINE m == Fall(p, q)  w == q[1] - p[1]  h == Slope(p, q)  x1 == p[1]  y1 == p[2]
           v == x1 * Scale + g + h * k  r == y1 + k
<1>1. m \in Nat /\ w \in Int /\ h \in Int /\ x1 \in Int /\ y1 \in Int /\ Scale * w \in Int
  BY SlopeFacts DEF Point, Fall, Scale
<1>2. -m <= h * m - Scale * w /\ h * m - Scale * w <= m
  BY SlopeFacts
<1>3. Strayed(v, p, q, r) = v * m - Scale * (x1 * m + w * (r - y1))
  <2> HIDE DEF r, v
  <2> QED
    BY DEF Strayed
<1> HIDE DEF m, w, h, x1, y1
<1>4. -(k * m) <= h * k * m - Scale * w * k /\ h * k * m - Scale * w * k <= k * m
  BY <1>1, <1>2, ErrorsAddUp
<1>5. v * m - Scale * (x1 * m + w * (r - y1)) = g * m + (h * k * m - Scale * w * k)
  BY <1>1 DEF Scale
<1>6. -(b * m) <= g * m /\ g * m <= b * m /\ b * m + k * m <= 31 * m
  BY <1>1
<1>7. g * m \in Int /\ b * m \in Int /\ k * m \in Int /\ h * k * m - Scale * w * k \in Int
  BY <1>1 DEF Scale
<1>8. -(31 * m) <= Strayed(v, p, q, r) /\ Strayed(v, p, q, r) <= 31 * m
  BY <1>1, <1>3, <1>4, <1>5, <1>6, <1>7
<1> QED
  BY <1>8 DEF KeepsTo, m, h, x1, y1

LEMMA FollowsUp ==
    ASSUME NEW p \in Point, NEW q \in Point, p[2] < q[2], NEW k \in Int, -31 <= k, k <= 0
    PROVE  KeepsTo(q[1] * Scale + Slope(p, q) * k, p, q, q[2] + k)
<1> DEFINE m == Fall(p, q)  w == q[1] - p[1]  h == Slope(p, q)  x1 == p[1]  y1 == p[2]
           v == q[1] * Scale + h * k  r == q[2] + k
<1>1. m \in Nat /\ w \in Int /\ h \in Int /\ x1 \in Int /\ y1 \in Int /\ Scale * w \in Int
  BY SlopeFacts DEF Point, Fall, Scale
<1>2. -m <= h * m - Scale * w /\ h * m - Scale * w <= m
  BY SlopeFacts
<1>3. q[1] = x1 + w /\ q[2] = y1 + m
  BY DEF Point, Fall
<1>4. Strayed(v, p, q, r) = v * m - Scale * (x1 * m + w * (r - y1))
  <2> HIDE DEF r, v
  <2> QED
    BY DEF Strayed
<1> HIDE DEF m, w, h, x1, y1
<1>5. -(31 * m) <= h * k * m - Scale * w * k /\ h * k * m - Scale * w * k <= 31 * m
  BY <1>1, <1>2, ErrorsAddUp
<1>6. v * m - Scale * (x1 * m + w * (r - y1)) = h * k * m - Scale * w * k
  BY <1>1, <1>3 DEF Scale
<1>7. -(31 * m) <= Strayed(v, p, q, r) /\ Strayed(v, p, q, r) <= 31 * m
  BY <1>4, <1>5, <1>6
<1> QED
  BY <1>7 DEF KeepsTo, m, h

\* A place that follows a side descending by less than 32 rows is well to the left of column n, or is not,
\* as the side is.
LEMMA SideOfColumn ==
    ASSUME NEW p \in Point, NEW q \in Point, p[2] < q[2], Fall(p, q) <= 31, NEW r \in Int, NEW v \in Int,
           KeepsTo(v, p, q, r), NEW n \in Int
    PROVE  /\ AtOrRight(p, q, <<n, r>>) => v >= n * Scale - 31
           /\ ~AtOrRight(p, q, <<n, r>>) => v <= n * Scale - 2083
<1> DEFINE m == Fall(p, q)  w == q[1] - p[1]  k == r - p[2]  x1 == p[1]
           t == w * k - (n - x1) * m  u == v - n * Scale
<1>1. m \in 1 .. 31 /\ w \in Int /\ k \in Int /\ x1 \in Int
  BY DEF Point, Fall
<1>2. AtOrRight(p, q, <<n, r>>) <=> w * k >= (n - x1) * m
  BY DEF AtOrRight, Fall
<1>3. -(31 * m) <= v * m - Scale * (x1 * m + w * k) /\ v * m - Scale * (x1 * m + w * k) <= 31 * m
  BY DEF KeepsTo, Strayed
<1> HIDE DEF m, w, k, x1
<1>4. v * m - Scale * (x1 * m + w * k) = u * m - Scale * t
  BY <1>1 DEF Scale
<1>5. t \in Int /\ u \in Int /\ (w * k >= (n - x1) * m <=> t >= 0)
  BY <1>1 DEF Scale
<1> HIDE DEF t, u
<1>6. -(31 * m) <= u * m - 65536 * t /\ u * m - 65536 * t <= 31 * m
  BY <1>3, <1>4 DEF Scale
<1>7. CASE t >= 0
  <2>1. -(31 * m) <= u * m
    BY <1>1, <1>5, <1>6, <1>7
  <2>2. u >= -31
    BY <1>1, <1>5, <2>1
  <2> QED
    BY <1>2, <1>5, <1>7, <2>2 DEF u, Scale
<1>8. CASE t < 0
  <2>1. u * m <= 31 * m - 65536
    BY <1>1, <1>5, <1>6, <1>8
  <2>2. 2114 * m <= 65536
    BY <1>1
  <2>3. u * m <= (-2083) * m
    BY <1>1, <1>5, <2>1, <2>2
  <2>4. u <= -2083
    BY <1>1, <1>5, <2>3
  <2> QED
    BY <1>2, <1>5, <1>8, <2>4 DEF u, Scale
<1> QED
  BY <1>5, <1>7, <1>8

\* The columns of a row: cut off at 1/32 of a cell to the right, and towards column 0.
LEMMA ColumnsOfRow ==
    ASSUME NEW v \in Int, NEW w \in Int, NEW most \in Int, NEW n \in 0 .. most
    PROVE  n \in Low(CDiv(Lower(v, w) + 2048, Scale)) .. High(CDiv(Upper(v, w) + 2049, Scale), most) <=>
              /\ v + 2048 < (n + 1) * Scale \/ w + 2048 < (n + 1) * Scale
              /\ IF n = 0 THEN v + 2049 > -Scale \/ w + 2049 > -Scale
                 ELSE v + 2049 >= n * Scale \/ w + 2049 >= n * Scale
<1> DEFINE a == Lower(v, w) + 2048  b == Upper(v, w) + 2049
           qa == CDiv(a, Scale)  qb == CDiv(b, Scale)
<1>1. a \in Int /\ b \in Int
  BY DEF Lower, Upper
<1>2. /\ qa \in Int /\ qb \in Int
      /\ a >= 0 => 65536 * qa <= a /\ a < 65536 * qa + 65536
      /\ a < 0 => a <= 65536 * qa /\ 65536 * qa < a + 65536
      /\ b >= 0 => 65536 * qb <= b /\ b < 65536 * qb + 65536
      /\ b < 0 => b <= 65536 * qb /\ 65536 * qb < b + 65536
  <2> HIDE DEF a, b
  <2> QED
    BY <1>1, CutOff DEF Scale
<1>3. /\ a < (n + 1) * Scale <=> v + 2048 < (n + 1) * Scale \/ w + 2048 < (n + 1) * Scale
      /\ b >= n * Scale <=> v + 2049 >= n * Scale \/ w + 2049 >= n * Scale
      /\ b > -Scale <=> v + 2049 > -Scale \/ w + 2049 > -Scale
  BY DEF Lower, Upper, Scale
<1> HIDE DEF a, b, qa, qb
<1>4. n >= Low(qa) <=> a < (n + 1) * Scale
  BY <1>1, <1>2 DEF Low, Scale
<1>5. n <= High(qb, most) <=> IF n = 0 THEN b > -Scale ELSE b >= n * Scale
  BY <1>1, <1>2 DEF High, Scale
<1>6. Low(qa) \in Int /\ High(qb, most) \in Int
  BY <1>2 DEF Low, High
<1>7. n \in Low(qa) .. High(qb, most) <=> n >= Low(qa) /\ n <= High(qb, most)
  BY <1>6
<1> QED
  BY <1>3, <1>4, <1>5, <1>7 DEF a, b, qa, qb

Ascending(p) == p[1][2] <= p[2][2] /\ p[2][2] <= p[3][2]
Rows(p) == p[3][2] - p[1][2]

\* The short side that is followed in row r; at the middle corner both are there.
Start(p, r) == IF r <= p[2][2] /\ p[1][2] < p[2][2] THEN p[1] ELSE p[2]
End(p, r) == IF r <= p[2][2] /\ p[1][2] < p[2][2] THEN p[2] ELSE p[3]

SidesAt(r) == {e \in Range(fig.p) \X Range(fig.p) : Crosses(e[1], e[2], <<0, r>>)}

\* What TriangleRight says of a cell.
Covers(c) ==
    /\ \E e \in SidesAt(c[2]) : AtOrRight(e[1], e[2], IF c[1] = 0 THEN <<-1, c[2]>> ELSE c)
    /\ \E e \in SidesAt(c[2]) : ~AtOrRight(e[1], e[2], <<c[1] + 1, c[2]>>)

\* Where xa and xb are: on from the first row, with another slope from the middle corner on, or
\* back from the last corner if the middle one is above the canvas.
TrianglePen ==
    LET p == fig.p
        first == Low(p[1][2])
    IN  /\ Ascending(p)
        /\ row \in Int /\ row >= first
        /\ Rows(p) > 0 =>
              IF p[2][2] < 0
              THEN fx = At(p[2], p[3], p[3], row) /\ fy = At(p[1], p[3], p[3], row)
              ELSE /\ fy = At(p[1], p[3], p[1], row)
                   /\ row <= p[2][2] /\ first < p[2][2] => fx = At(p[1], p[2], p[1], row)
                   /\ row >= p[2][2] =>
                         fx = (IF first < p[2][2] THEN At(p[1], p[2], p[1], p[2][2]) ELSE p[2][1] * Scale)
                              + Slope(p[2], p[3]) * (row - p[2][2])

TrianglePut == Rows(fig.p) \in 1 .. 31 => \A c \in Canvas : c \in put <=> c[2] < row /\ Covers(c)

TriangleInv ==
    /\ fstage = "rows" => TrianglePen /\ TrianglePut
    /\ Finished({"triangle"}) => TrianglePen /\ TrianglePut /\ row > LastRow
    /\ fstage = "sorted" => Ascending(fig.p) /\ put = {}
    /\ fstage \in {"idle", "call"} => put = {}

LEMMA Corners ==
    ASSUME NEW f \in TriangleJob
    PROVE  /\ f.p[1] \in Point /\ f.p[2] \in Point /\ f.p[3] \in Point
           /\ Range(f.p) = {f.p[1], f.p[2], f.p[3]}
<1>1. f.p \in [1 .. 3 -> Int \X Int]
  BY DEF TriangleJob
<1>2. DOMAIN f.p = {1, 2, 3}
  BY <1>1
<1> QED
  BY <1>1, <1>2 DEF Range, Point

LEMMA PointTypes ==
    ASSUME NEW p \in Point
    PROVE  p[1] \in Int /\ p[2] \in Int
BY DEF Point

LEMMA AtCorner ==
    ASSUME NEW p \in Point, NEW q \in Point, p[2] < q[2], NEW n \in Int
    PROVE  /\ AtOrRight(p, q, <<n, p[2]>>) <=> n <= p[1]
           /\ AtOrRight(p, q, <<n, q[2]>>) <=> n <= q[1]
<1> DEFINE m == q[2] - p[2]  a == q[1]  b == p[1]
<1>1. m \in Nat /\ m > 0 /\ a \in Int /\ b \in Int
  BY PointTypes
<1>2. /\ AtOrRight(p, q, <<n, p[2]>>) <=> (a - b) * (p[2] - p[2]) >= (n - b) * m
      /\ AtOrRight(p, q, <<n, q[2]>>) <=> (a - b) * m >= (n - b) * m
  BY DEF AtOrRight
<1>3. p[2] - p[2] = 0
  BY PointTypes
<1> HIDE DEF m, a, b
<1>4. (a - b) * 0 >= (n - b) * m <=> n <= b
  BY <1>1
<1>5. (a - b) * m >= (n - b) * m <=> n <= a
  BY <1>1
<1> QED
  BY <1>2, <1>3, <1>4, <1>5 DEF a, b

\* In a row between the first corner and the last there are two sides to look at, the long one
\* and a short one: where there are three, the short ones meet.
LEMMA TwoSides ==
    ASSUME fig \in TriangleJob, Ascending(fig.p), Rows(fig.p) > 0, NEW r \in fig.p[1][2] .. fig.p[3][2]
    PROVE  LET p == fig.p  a == Start(p, r)  b == End(p, r)
           IN  /\ a \in Point /\ b \in Point /\ a[2] < b[2] /\ b[2] - a[2] <= Rows(p)
               /\ a[2] <= r /\ r <= b[2]
               /\ <<a, b>> \in SidesAt(r) /\ <<p[1], p[3]>> \in SidesAt(r)
               /\ \A e \in SidesAt(r) : \/ e = <<p[1], p[3]>>
                                        \/ \A n \in Int : AtOrRight(e[1], e[2], <<n, r>>) <=> AtOrRight(a, b, <<n, r>>)
<1> DEFINE p1 == fig.p[1]  p2 == fig.p[2]  p3 == fig.p[3]  a == Start(fig.p, r)  b == End(fig.p, r)
<1>1. p1 \in Point /\ p2 \in Point /\ p3 \in Point /\ Range(fig.p) = {p1, p2, p3}
  BY Corners
<1>2. /\ p1[2] \in Int /\ p2[2] \in Int /\ p3[2] \in Int /\ r \in Int
      /\ p1[2] <= p2[2] /\ p2[2] <= p3[2] /\ p1[2] < p3[2] /\ p1[2] <= r /\ r <= p3[2]
      /\ Rows(fig.p) = p3[2] - p1[2]
  BY <1>1, PointTypes DEF Ascending, Rows
<1>3. a = (IF r <= p2[2] /\ p1[2] < p2[2] THEN p1 ELSE p2) /\ b = (IF r <= p2[2] /\ p1[2] < p2[2] THEN p2 ELSE p3)
  BY DEF Start, End
<1> HIDE DEF p1, p2, p3, a, b
<1>4. a \in Point /\ b \in Point /\ a[2] < b[2] /\ b[2] - a[2] <= p3[2] - p1[2] /\ a[2] <= r /\ r <= b[2]
  BY <1>1, <1>2, <1>3
<1>5. SidesAt(r) = {e \in {p1, p2, p3} \X {p1, p2, p3} : e[1][2] < e[2][2] /\ r \in e[1][2] .. e[2][2]}
  BY <1>1 DEF SidesAt, Crosses
<1>6. <<a, b>> \in SidesAt(r) /\ <<p1, p3>> \in SidesAt(r)
  <2>1. <<a, b>> \in {p1, p2, p3} \X {p1, p2, p3} /\ <<p1, p3>> \in {p1, p2, p3} \X {p1, p2, p3}
    BY <1>3
  <2>2. a[2] \in Int /\ b[2] \in Int
    BY <1>4, PointTypes
  <2> QED
    BY <1>2, <1>4, <1>5, <2>1, <2>2
<1>7. ASSUME NEW e \in SidesAt(r), e # <<p1, p3>>, NEW n \in Int
      PROVE  AtOrRight(e[1], e[2], <<n, r>>) <=> AtOrRight(a, b, <<n, r>>)
  <2>1. /\ e = <<e[1], e[2]>> /\ e[1] \in {p1, p2, p3} /\ e[2] \in {p1, p2, p3}
        /\ e[1][2] < e[2][2] /\ r \in e[1][2] .. e[2][2]
    BY <1>5
  <2>2. e[1][2] <= r /\ r <= e[2][2]
    BY <1>1, <1>2, <2>1
  <2>3. (e[1] = p1 /\ e[2] = p2) \/ (e[1] = p2 /\ e[2] = p3)
    <3>1. ~(e[1] = p1 /\ e[2] = p3)
      BY <1>7, <2>1
    <3> QED
      BY <1>2, <2>1, <3>1
  <2>4. CASE e[1] = p1 /\ e[2] = p2
    <3>1. a = p1 /\ b = p2
      BY <1>2, <1>3, <2>1, <2>2, <2>4
    <3> QED
      BY <2>4, <3>1
  <2>5. CASE e[1] = p2 /\ e[2] = p3
    <3>1. CASE a = p2 /\ b = p3
      BY <2>5, <3>1
    <3>2. CASE r <= p2[2] /\ p1[2] < p2[2]
      <4>1. r = p2[2] /\ p2[2] < p3[2] /\ a = p1 /\ b = p2
        BY <1>2, <1>3, <2>1, <2>2, <2>5, <3>2
      <4>2. (AtOrRight(p2, p3, <<n, r>>) <=> n <= p2[1]) /\ (AtOrRight(p1, p2, <<n, r>>) <=> n <= p2[1])
        BY <1>1, <3>2, <4>1, AtCorner
      <4> QED
        BY <2>5, <4>1, <4>2
    <3> QED
      BY <1>3, <3>1, <3>2
  <2> QED
    BY <2>3, <2>4, <2>5
<1> QED
  BY <1>2, <1>4, <1>6, <1>7 DEF p1, p2, p3, a, b

LEMMA CoversWithin ==
    ASSUME fig \in TriangleJob, Ascending(fig.p), NEW c, Covers(c), c[2] \in Int
    PROVE  fig.p[1][2] <= c[2] /\ c[2] <= fig.p[3][2]
<1> DEFINE p1 == fig.p[1]  p2 == fig.p[2]  p3 == fig.p[3]
<1>1. p1 \in Point /\ p2 \in Point /\ p3 \in Point /\ Range(fig.p) = {p1, p2, p3}
  BY Corners
<1>2. p1[2] \in Int /\ p2[2] \in Int /\ p3[2] \in Int /\ p1[2] <= p2[2] /\ p2[2] <= p3[2]
  BY <1>1, PointTypes DEF Ascending
<1>3. PICK e \in SidesAt(c[2]) : TRUE
  BY DEF Covers
<1>4. e[1] \in {p1, p2, p3} /\ e[2] \in {p1, p2, p3} /\ c[2] \in e[1][2] .. e[2][2]
  BY <1>1, <1>3 DEF SidesAt, Crosses
<1> HIDE DEF p1, p2, p3
<1> QED
  BY <1>2, <1>4 DEF p1, p2, p3

\* However xa and xb came to this row, they are with the sides they stand for.
LEMMA PenKeepsTo ==
    ASSUME fig \in TriangleJob, TrianglePen, Rows(fig.p) \in 1 .. 31, row <= fig.p[3][2]
    PROVE  /\ fx \in Int /\ fy \in Int
           /\ KeepsTo(fx, Start(fig.p, row), End(fig.p, row), row)
           /\ KeepsTo(fy, fig.p[1], fig.p[3], row)
<1> DEFINE p1 == fig.p[1]  p2 == fig.p[2]  p3 == fig.p[3]  first == Low(p1[2])  a == Start(fig.p, row)  b == End(fig.p, row)
<1>1. p1 \in Point /\ p2 \in Point /\ p3 \in Point
  BY Corners
<1>2. /\ p1[2] \in Int /\ p2[2] \in Int /\ p3[2] \in Int /\ row \in Int
      /\ p1[1] \in Int /\ p2[1] \in Int /\ p3[1] \in Int
      /\ p1[2] <= p2[2] /\ p2[2] <= p3[2] /\ p1[2] < p3[2] /\ p3[2] - p1[2] <= 31
      /\ first <= row /\ row <= p3[2]
  BY <1>1, PointTypes DEF Ascending, Rows, TrianglePen
<1>3. first = (IF p1[2] < 0 THEN 0 ELSE p1[2])
  BY DEF Low
<1>4. a = (IF row <= p2[2] /\ p1[2] < p2[2] THEN p1 ELSE p2) /\ b = (IF row <= p2[2] /\ p1[2] < p2[2] THEN p2 ELSE p3)
  BY DEF Start, End
<1>5. IF p2[2] < 0
      THEN fx = At(p2, p3, p3, row) /\ fy = At(p1, p3, p3, row)
      ELSE /\ fy = At(p1, p3, p1, row)
           /\ row <= p2[2] /\ first < p2[2] => fx = At(p1, p2, p1, row)
           /\ row >= p2[2] => fx = (IF first < p2[2] THEN At(p1, p2, p1, p2[2]) ELSE p2[1] * Scale)
                                   + Slope(p2, p3) * (row - p2[2])
  BY DEF TrianglePen, Rows
<1> HIDE DEF p1, p2, p3, first, a, b
<1>6. Slope(p1, p2) \in Int /\ Slope(p2, p3) \in Int /\ Slope(p1, p3) \in Int /\ Scale \in Int
  BY <1>1, SlopeFacts DEF Scale
<1>7. \A p \in Point, q \in Point : \A k \in Nat : p[2] < q[2] /\ k <= 31 =>
         KeepsTo(p[1] * Scale + Slope(p, q) * k, p, q, p[2] + k)
  <2> SUFFICES ASSUME NEW p \in Point, NEW q \in Point, NEW k \in Nat, p[2] < q[2], k <= 31
               PROVE  KeepsTo(p[1] * Scale + Slope(p, q) * k, p, q, p[2] + k)
    OBVIOUS
  <2>1. KeepsTo(p[1] * Scale + 0 + Slope(p, q) * k, p, q, p[2] + k)
    BY FollowsDown
  <2>2. p[1] * Scale + 0 = p[1] * Scale
    BY PointTypes DEF Scale
  <2> QED
    BY <2>1, <2>2
<1>8. CASE p2[2] < 0
  <2> DEFINE k == row - p3[2]
  <2>1. k \in Int /\ -31 <= k /\ k <= 0 /\ row = p3[2] + k /\ p2[2] < p3[2] /\ a = p2 /\ b = p3
    BY <1>2, <1>3, <1>4, <1>8
  <2>2. fx = p3[1] * Scale + Slope(p2, p3) * k /\ fy = p3[1] * Scale + Slope(p1, p3) * k
    BY <1>5, <1>8 DEF At
  <2> HIDE DEF k
  <2>3. KeepsTo(fx, p2, p3, p3[2] + k) /\ KeepsTo(fy, p1, p3, p3[2] + k)
    BY <1>1, <1>2, <2>1, <2>2, FollowsUp
  <2>4. fx \in Int /\ fy \in Int
    BY <1>2, <1>6, <2>1, <2>2 DEF Scale
  <2> QED
    BY <2>1, <2>3, <2>4 DEF p1, p3, a, b
<1>9. CASE p2[2] >= 0
  <2>1. fy \in Int /\ KeepsTo(fy, p1, p3, row)
    <3> DEFINE k == row - p1[2]
    <3>1. k \in Nat /\ k <= 31 /\ row = p1[2] + k
      BY <1>2, <1>3
    <3>2. fy = p1[1] * Scale + Slope(p1, p3) * k
      BY <1>2, <1>5, <1>9 DEF At
    <3> HIDE DEF k
    <3> QED
      BY <1>1, <1>2, <1>6, <1>7, <3>1, <3>2 DEF Scale
  <2>2. CASE row <= p2[2] /\ p1[2] < p2[2] /\ first < p2[2]
    <3> DEFINE k == row - p1[2]
    <3>1. k \in Nat /\ k <= 31 /\ row = p1[2] + k /\ a = p1 /\ b = p2
      BY <1>2, <1>3, <1>4, <2>2
    <3>2. fx = p1[1] * Scale + Slope(p1, p2) * k
      BY <1>2, <1>5, <1>9, <2>2 DEF At
    <3> HIDE DEF k
    <3>3. fx \in Int /\ KeepsTo(fx, a, b, row)
      BY <1>1, <1>2, <1>6, <1>7, <2>2, <3>1, <3>2 DEF Scale
    <3> QED
      BY <2>1, <3>3 DEF p1, p3, a, b
  <2>3. CASE row <= p2[2] /\ p1[2] < p2[2] /\ first = p2[2]
    <3>1. row = p2[2] + 0 /\ row = p2[2] /\ row - p2[2] = 0 /\ a = p1 /\ b = p2
      BY <1>2, <1>4, <2>3
    <3>2. fx = p2[1] * Scale + Slope(p2, p3) * 0
      BY <1>2, <1>5, <1>9, <2>3, <3>1
    <3>3. fx = p2[1] * Scale + Slope(p1, p2) * 0 /\ fx \in Int
      BY <1>2, <1>6, <3>2 DEF Scale
    <3>4. KeepsTo(p2[1] * Scale + Slope(p1, p2) * 0, p1, p2, p2[2] + 0)
      BY <1>1, <2>3, FollowsUp
    <3> QED
      BY <2>1, <3>1, <3>3, <3>4 DEF p1, p3, a, b
  <2>4. CASE row > p2[2] \/ p1[2] = p2[2]
    <3> DEFINE k == row - p2[2]
               base == IF first < p2[2] THEN At(p1, p2, p1, p2[2]) ELSE p2[1] * Scale
               g == base - p2[1] * Scale
               n == IF first < p2[2] THEN p2[2] - p1[2] ELSE 0
    <3>1. k \in Nat /\ n \in Nat /\ n + k <= 31 /\ row = p2[2] + k /\ a = p2 /\ b = p3 /\ p2[2] < p3[2]
      BY <1>2, <1>3, <1>4, <2>4
    <3>2. fx = base + Slope(p2, p3) * k
      <4>1. row >= p2[2]
        BY <1>2, <1>3, <2>4
      <4> QED
        BY <1>5, <1>9, <4>1, <1>2
    <3>3. base \in Int /\ g \in Int /\ -n <= g /\ g <= n
      <4>1. CASE first < p2[2]
        <5> DEFINE m == Fall(p1, p2)  h == Slope(p1, p2)
        <5>1. p1[2] < p2[2] /\ m = p2[2] - p1[2] /\ m \in Int
          BY <1>2, <1>3, <4>1 DEF Fall
        <5>2. -m <= h * m - Scale * (p2[1] - p1[1]) /\ h * m - Scale * (p2[1] - p1[1]) <= m
          BY <1>1, <5>1, SlopeFacts
        <5>3. base = p1[1] * Scale + h * m /\ n = m
          BY <4>1, <5>1 DEF At
        <5>4. h \in Int
          BY <1>6
        <5> HIDE DEF base, n, m, h
        <5> QED
          BY <1>2, <5>1, <5>2, <5>3, <5>4 DEF Scale
      <4>2. CASE ~(first < p2[2])
        BY <1>2, <4>2 DEF Scale
      <4> QED
        BY <4>1, <4>2
    <3> HIDE DEF k, base, n
    <3>4. p2[1] * Scale + g = base
      BY <1>2, <3>3 DEF Scale
    <3> HIDE DEF g
    <3>5. KeepsTo(p2[1] * Scale + g + Slope(p2, p3) * k, p2, p3, p2[2] + k)
      BY <1>1, <3>1, <3>3, FollowsDown
    <3>6. fx \in Int
      BY <1>6, <3>1, <3>2, <3>3
    <3> QED
      BY <2>1, <3>1, <3>2, <3>4, <3>5, <3>6 DEF p1, p3, a, b
  <2> QED
    BY <1>2, <1>3, <2>2, <2>3, <2>4
<1> QED
  BY <1>2, <1>8, <1>9

LEMMA AtNext ==
    ASSUME NEW p \in Point, NEW q \in Point, NEW c \in Point, NEW r \in Int
    PROVE  At(p, q, c, r + 1) = At(p, q, c, r) + Slope(p, q) /\ At(p, q, c, r) \in Int
<1> DEFINE h == Slope(p, q)  x1 == c[1]  y1 == c[2]
<1>1. h \in Int /\ x1 \in Int /\ y1 \in Int
  BY SlopeFacts, PointTypes
<1>2. ASSUME NEW k \in Int PROVE At(p, q, c, k) = x1 * Scale + h * (k - y1)
  BY DEF At
<1>3. At(p, q, c, r + 1) = x1 * Scale + h * ((r + 1) - y1) /\ At(p, q, c, r) = x1 * Scale + h * (r - y1)
  <2>1. r + 1 \in Int
    OBVIOUS
  <2>2. \A k \in Int : At(p, q, c, k) = x1 * Scale + h * (k - y1)
    BY <1>2
  <2> HIDE DEF h, x1, y1
  <2> QED
    BY <2>1, <2>2, Zenon
<1> HIDE DEF h, x1, y1
<1> QED
  BY <1>1, <1>3 DEF h, Scale

LEMMA PenSteps ==
    ASSUME fig \in TriangleJob, TrianglePen, TriangleRow, row <= LastRow
    PROVE  TrianglePen'
<1> DEFINE p1 == fig.p[1]  p2 == fig.p[2]  p3 == fig.p[3]  first == Low(p1[2])
           start == IF first < p2[2] THEN At(p1, p2, p1, p2[2]) ELSE p2[1] * Scale
<1>1. p1 \in Point /\ p2 \in Point /\ p3 \in Point
  BY Corners
<1>2. /\ p1[2] \in Int /\ p2[2] \in Int /\ p3[2] \in Int /\ row \in Int /\ p2[1] \in Int
      /\ p1[2] <= p2[2] /\ p2[2] <= p3[2] /\ first <= row /\ first \in Int
  BY <1>1, PointTypes DEF Ascending, TrianglePen, Low
<1>3. /\ fig' = fig /\ row' = row + 1
      /\ fx' = fx + (IF row < p2[2] THEN Slope(p1, p2) ELSE Slope(p2, p3)) /\ fy' = fy + Slope(p1, p3)
  <2>1. ~(row > LastRow)
    <3>1. LastRow \in Int
      BY <1>2, CanvasAssumption DEF LastRow, High, YMax
    <3> QED
      BY <1>2, <3>1
  <2> QED
    BY <2>1 DEF TriangleRow, SideSlope
<1>4. Rows(fig.p) > 0 =>
        IF p2[2] < 0
        THEN fx = At(p2, p3, p3, row) /\ fy = At(p1, p3, p3, row)
        ELSE /\ fy = At(p1, p3, p1, row)
             /\ row <= p2[2] /\ first < p2[2] => fx = At(p1, p2, p1, row)
             /\ row >= p2[2] => fx = start + Slope(p2, p3) * (row - p2[2])
  BY DEF TrianglePen
<1>5. first = (IF p1[2] < 0 THEN 0 ELSE p1[2])
  BY DEF Low
<1> SUFFICES ASSUME Rows(fig.p) > 0
             PROVE  IF p2[2] < 0
                    THEN fx' = At(p2, p3, p3, row') /\ fy' = At(p1, p3, p3, row')
                    ELSE /\ fy' = At(p1, p3, p1, row')
                         /\ row' <= p2[2] /\ first < p2[2] => fx' = At(p1, p2, p1, row')
                         /\ row' >= p2[2] => fx' = start + Slope(p2, p3) * (row' - p2[2])
  <2>1. Ascending(fig'.p) /\ row' \in Int /\ row' >= first
    BY <1>2, <1>3 DEF TrianglePen
  <2> QED
    BY <1>3, <2>1 DEF TrianglePen
<1>6. start \in Int /\ Slope(p2, p3) \in Int
  <2>1. At(p1, p2, p1, p2[2]) \in Int
    BY <1>1, <1>2, AtNext
  <2>2. p2[1] * Scale \in Int
    BY <1>2 DEF Scale
  <2>3. Slope(p2, p3) \in Int
    BY <1>1, SlopeFacts
  <2> HIDE DEF p1, p2, p3, first
  <2> QED
    BY <2>1, <2>2, <2>3
<1>7. p2[2] > row => At(p1, p2, p1, row + 1) = At(p1, p2, p1, row) + Slope(p1, p2)
  BY <1>1, <1>2, AtNext
<1>8. /\ At(p2, p3, p3, row + 1) = At(p2, p3, p3, row) + Slope(p2, p3)
      /\ At(p1, p3, p3, row + 1) = At(p1, p3, p3, row) + Slope(p1, p3)
      /\ At(p1, p3, p1, row + 1) = At(p1, p3, p1, row) + Slope(p1, p3)
  BY <1>1, <1>2, AtNext, ZenonT(60)
<1>9. p2[2] = row + 1 /\ first < p2[2] => start = At(p1, p2, p1, row + 1)
  OBVIOUS
<1> HIDE DEF p1, p2, p3, first, start
<1>10. CASE p2[2] < 0
  <2>1. ~(row < p2[2])
    BY <1>2, <1>5, <1>10
  <2> QED
    BY <1>3, <1>4, <1>8, <1>10, <2>1
<1>11. CASE ~(p2[2] < 0)
  <2>1. fy' = At(p1, p3, p1, row')
    BY <1>3, <1>4, <1>8, <1>11
  <2>2. CASE row < p2[2]
    <3>1. first < p2[2] /\ fx' = At(p1, p2, p1, row')
      BY <1>2, <1>3, <1>4, <1>7, <1>11, <2>2
    <3>2. row' >= p2[2] => fx' = start + Slope(p2, p3) * (row' - p2[2])
      <4> SUFFICES ASSUME row' >= p2[2] PROVE fx' = start + Slope(p2, p3) * (row' - p2[2])
        OBVIOUS
      <4>1. p2[2] = row + 1 /\ row' - p2[2] = 0
        BY <1>2, <1>3, <2>2
      <4>2. fx' = start + 0
        BY <1>3, <1>6, <1>9, <3>1, <4>1
      <4> QED
        BY <1>6, <4>1, <4>2
    <3> QED
      BY <1>11, <2>1, <3>1, <3>2
  <2>3. CASE row >= p2[2]
    <3>1. ~(row' <= p2[2])
      BY <1>2, <1>3, <2>3
    <3>2. fx' = start + Slope(p2, p3) * (row - p2[2]) + Slope(p2, p3)
      BY <1>2, <1>3, <1>4, <1>11, <2>3
    <3>3. Slope(p2, p3) * ((row + 1) - p2[2]) = Slope(p2, p3) * (row - p2[2]) + Slope(p2, p3)
      <4> DEFINE k == row - p2[2]  h == Slope(p2, p3)
      <4>1. k \in Int /\ h \in Int /\ (row + 1) - p2[2] = k + 1
        BY <1>2, <1>6
      <4> HIDE DEF k, h
      <4>2. h * (k + 1) = h * k + h
        BY <4>1
      <4> QED
        BY <4>1, <4>2 DEF k, h
    <3>4. fx' = start + Slope(p2, p3) * (row' - p2[2])
      <4> DEFINE f == Slope(p2, p3) * (row - p2[2])
      <4>1. f \in Int
        BY <1>2, <1>6
      <4>2. fx' = start + f + Slope(p2, p3)
        BY <3>2
      <4>3. Slope(p2, p3) * (row' - p2[2]) = f + Slope(p2, p3)
        <5>1. row' - p2[2] = (row + 1) - p2[2]
          BY <1>3
        <5> HIDE DEF f
        <5>2. Slope(p2, p3) * ((row + 1) - p2[2]) = f + Slope(p2, p3)
          BY <3>3 DEF f
        <5> QED
          BY <5>1, <5>2
      <4> HIDE DEF f
      <4> QED
        BY <1>6, <4>1, <4>2, <4>3
    <3> QED
      BY <1>11, <2>1, <3>1, <3>4
  <2> QED
    BY <1>2, <2>2, <2>3
<1> QED
  BY <1>10, <1>11

LEMMA RowCovered ==
    ASSUME fig \in TriangleJob, TrianglePen, Rows(fig.p) \in 1 .. 31, row <= fig.p[3][2],
           NEW c \in Canvas, c[2] = row
    PROVE  c[1] \in Low(CDiv(Lower(fx, fy) + 2048, Scale)) .. High(CDiv(Upper(fx, fy) + 2049, Scale), XMax)
              <=> Covers(c)
<1> DEFINE p == fig.p  a == Start(p, row)  b == End(p, row)  n == c[1]  i == IF n = 0 THEN -1 ELSE n
           A(k) == AtOrRight(a, b, <<k, row>>)  B(k) == AtOrRight(p[1], p[3], <<k, row>>)
<1>1. n \in 0 .. XMax /\ c = <<n, row>> /\ XMax \in Int
  BY CanvasCell
<1>2. row \in p[1][2] .. p[3][2] /\ Ascending(p) /\ Rows(p) > 0
  <2>1. p[1][2] \in Int /\ p[3][2] \in Int /\ row \in Int /\ row >= Low(p[1][2])
    BY Corners, PointTypes DEF TrianglePen
  <2> QED
    BY <2>1 DEF Low, TrianglePen
<1>3. /\ a \in Point /\ b \in Point /\ a[2] < b[2] /\ b[2] - a[2] <= Rows(p)
      /\ <<a, b>> \in SidesAt(row) /\ <<p[1], p[3]>> \in SidesAt(row)
      /\ \A e \in SidesAt(row) : e = <<p[1], p[3]>> \/ \A k \in Int : AtOrRight(e[1], e[2], <<k, row>>) <=> A(k)
  BY <1>2, TwoSides
<1>4. Covers(c) <=> /\ \E e \in SidesAt(row) : AtOrRight(e[1], e[2], <<i, row>>)
                    /\ \E e \in SidesAt(row) : ~AtOrRight(e[1], e[2], <<n + 1, row>>)
  BY <1>1 DEF Covers
<1>5. ASSUME NEW k \in Int
      PROVE  /\ (\E e \in SidesAt(row) : AtOrRight(e[1], e[2], <<k, row>>)) <=> A(k) \/ B(k)
             /\ (\E e \in SidesAt(row) : ~AtOrRight(e[1], e[2], <<k, row>>)) <=> ~A(k) \/ ~B(k)
  <2>1. <<a, b>>[1] = a /\ <<a, b>>[2] = b /\ <<p[1], p[3]>>[1] = p[1] /\ <<p[1], p[3]>>[2] = p[3]
    OBVIOUS
  <2>2. \A e \in SidesAt(row) : (AtOrRight(e[1], e[2], <<k, row>>) <=> A(k)) \/ (AtOrRight(e[1], e[2], <<k, row>>) <=> B(k))
    BY <1>3
  <2> HIDE DEF a, b, p
  <2> QED
    BY <1>3, <2>1, <2>2
<1>6. i \in Int /\ n + 1 \in Int
  BY <1>1
<1>7. Covers(c) <=> (A(i) \/ B(i)) /\ (~A(n + 1) \/ ~B(n + 1))
  BY <1>4, <1>5, <1>6
<1>8. fx \in Int /\ fy \in Int /\ KeepsTo(fx, a, b, row) /\ KeepsTo(fy, p[1], p[3], row)
  BY PenKeepsTo
<1>9. p[1] \in Point /\ p[3] \in Point /\ p[1][2] < p[3][2] /\ Fall(p[1], p[3]) <= 31 /\ Fall(a, b) <= 31 /\ row \in Int
  <2>1. p[1] \in Point /\ p[3] \in Point /\ p[1][2] \in Int /\ p[3][2] \in Int /\ a[2] \in Int /\ b[2] \in Int
    BY <1>3, Corners, PointTypes
  <2>2. row \in Int
    BY DEF TrianglePen
  <2> HIDE DEF a, b
  <2> QED
    BY <1>3, <2>1, <2>2 DEF Rows, Fall
<1>10. ASSUME NEW k \in Int
       PROVE  /\ A(k) => fx >= k * Scale - 31
              /\ ~A(k) => fx <= k * Scale - 2083
              /\ B(k) => fy >= k * Scale - 31
              /\ ~B(k) => fy <= k * Scale - 2083
  BY <1>3, <1>8, <1>9, SideOfColumn
<1> HIDE DEF A, B
<1>11. n \in Low(CDiv(Lower(fx, fy) + 2048, Scale)) .. High(CDiv(Upper(fx, fy) + 2049, Scale), XMax) <=>
          /\ fx + 2048 < (n + 1) * Scale \/ fy + 2048 < (n + 1) * Scale
          /\ IF n = 0 THEN fx + 2049 > -Scale \/ fy + 2049 > -Scale
             ELSE fx + 2049 >= n * Scale \/ fy + 2049 >= n * Scale
  BY <1>1, <1>8, ColumnsOfRow
<1>12. /\ A(i) => fx >= i * Scale - 31
       /\ ~A(i) => fx <= i * Scale - 2083
       /\ B(i) => fy >= i * Scale - 31
       /\ ~B(i) => fy <= i * Scale - 2083
  BY <1>6, <1>10
<1>13. /\ A(n + 1) => fx >= (n + 1) * Scale - 31
       /\ ~A(n + 1) => fx <= (n + 1) * Scale - 2083
       /\ B(n + 1) => fy >= (n + 1) * Scale - 31
       /\ ~B(n + 1) => fy <= (n + 1) * Scale - 2083
  BY <1>6, <1>10
<1> HIDE DEF n
<1>14. (fx + 2048 < (n + 1) * Scale <=> ~A(n + 1)) /\ (fy + 2048 < (n + 1) * Scale <=> ~B(n + 1))
  BY <1>1, <1>8, <1>13 DEF Scale
<1>15. (IF n = 0 THEN fx + 2049 > -Scale \/ fy + 2049 > -Scale
        ELSE fx + 2049 >= n * Scale \/ fy + 2049 >= n * Scale) <=> A(i) \/ B(i)
  <2>1. CASE n = 0
    BY <1>8, <1>12, <2>1 DEF Scale
  <2>2. CASE n # 0
    BY <1>1, <1>8, <1>12, <2>2 DEF Scale
  <2> QED
    BY <2>1, <2>2
<1> QED
  BY <1>7, <1>11, <1>14, <1>15 DEF n

LEMMA TriangleRowKeeps ==
    ASSUME fig \in TriangleJob, TrianglePen, TrianglePut, TriangleRow
    PROVE  TrianglePen' /\ TrianglePut' /\ (fstage' = "done" => (row > LastRow)')
<1>1. row \in Int /\ LastRow \in Int /\ (row > LastRow <=> ~(row <= LastRow))
  <2>1. fig.p[3][2] \in Int /\ row \in Int
    BY Corners, PointTypes DEF TrianglePen
  <2> QED
    BY <2>1, CanvasAssumption DEF LastRow, High, YMax
<1>2. CASE row > LastRow
  <2>1. UNCHANGED <<fig, fx, fy, row, put>>
    BY <1>2 DEF TriangleRow
  <2> QED
    BY <1>2, <2>1 DEF TrianglePen, TrianglePut, LastRow, High, YMax, Canvas, XMax, Covers, SidesAt, Crosses, At, Slope
<1>3. CASE row <= LastRow
  <2> DEFINE cols == Low(CDiv(Lower(fx, fy) + 2048, Scale)) .. High(CDiv(Upper(fx, fy) + 2049, Scale), XMax)
  <2>1. put' = put \cup cols \X {row} /\ row' = row + 1 /\ fig' = fig /\ fstage' = "rows"
    BY <1>1, <1>3 DEF TriangleRow
  <2>2. TrianglePen'
    BY <1>3, PenSteps
  <2>3. ASSUME Rows(fig.p) \in 1 .. 31, NEW c \in Canvas
        PROVE  c \in put' <=> c[2] < row' /\ Covers(c)
    <3>1. c[2] \in Int /\ c = <<c[1], c[2]>>
      BY CanvasCell
    <3>2. c \in put <=> c[2] < row /\ Covers(c)
      BY <2>3 DEF TrianglePut
    <3>3. c \in put' <=> c \in put \/ (c[1] \in cols /\ c[2] = row)
      BY <2>1, <3>1
    <3>4. c[2] = row => (c[1] \in cols <=> Covers(c))
      <4>1. row <= fig.p[3][2]
        <5>1. fig.p[3][2] \in Int
          BY Corners, PointTypes
        <5> QED
          BY <1>1, <1>3, <5>1, CanvasAssumption DEF LastRow, High, YMax
      <4> QED
        BY <2>3, <4>1, RowCovered
    <3> HIDE DEF cols
    <3>5. (c[2] < row' <=> c[2] < row \/ c[2] = row) /\ ~(c[2] < row /\ c[2] = row)
      BY <1>1, <2>1, <3>1
    <3> QED
      BY <3>2, <3>3, <3>4, <3>5
  <2>4. TrianglePut'
    <3>1. Rows(fig'.p) \in 1 .. 31 => \A c \in Canvas : c \in put' <=> c[2] < row' /\ Covers(c)
      BY <2>1, <2>3
    <3>2. \A c : Covers(c)' <=> Covers(c)
      BY <2>1 DEF Covers, SidesAt, Crosses
    <3> QED
      BY <3>1, <3>2 DEF TrianglePut, Canvas, XMax, YMax
  <2> QED
    BY <2>1, <2>2, <2>4
<1> QED
  BY <1>1, <1>2, <1>3

LEMMA FirstRowKeeps ==
    ASSUME fig \in TriangleJob, Ascending(fig.p), put = {}, FirstRow
    PROVE  TrianglePen' /\ TrianglePut'
<1> DEFINE p1 == fig.p[1]  p2 == fig.p[2]  p3 == fig.p[3]  r == Low(p1[2])
<1>1. p1[2] \in Int /\ p2[2] \in Int /\ p3[2] \in Int /\ p1[2] <= p2[2] /\ p2[2] <= p3[2] /\ p2[1] \in Int
  BY Corners, PointTypes DEF Ascending
<1>2. /\ fig' = fig /\ row' = r /\ put' = {}
      /\ fx' = IF r < p2[2] THEN At(p1, p2, p1, r)
               ELSE IF r = p2[2] THEN p2[1] * Scale
               ELSE At(p2, p3, p3, r)
      /\ fy' = IF r <= p2[2] THEN (IF r = p2[2] /\ p1[2] = p3[2] THEN p3[1] * Scale
                                  ELSE At(p1, p3, p1, r))
               ELSE At(p1, p3, p3, r)
  BY DEF FirstRow
<1>3. r = (IF p1[2] < 0 THEN 0 ELSE p1[2])
  BY DEF Low
<1>4. Slope(p2, p3) \in Int
  BY Corners, SlopeFacts
<1>5. p2[1] * Scale \in Int
  BY <1>1 DEF Scale
<1>6. TrianglePen'
  <2> DEFINE start == IF r < p2[2] THEN At(p1, p2, p1, p2[2]) ELSE p2[1] * Scale
  <2>1. r \in Int /\ (p2[2] < 0 <=> ~(r <= p2[2]))
    BY <1>1, <1>3
  <2>2. ASSUME Rows(fig.p) > 0
        PROVE  IF p2[2] < 0
               THEN fx' = At(p2, p3, p3, r) /\ fy' = At(p1, p3, p3, r)
               ELSE /\ fy' = At(p1, p3, p1, r)
                    /\ r <= p2[2] /\ r < p2[2] => fx' = At(p1, p2, p1, r)
                    /\ r >= p2[2] => fx' = start + Slope(p2, p3) * (r - p2[2])
    <3>1. p1[2] # p3[2]
      BY <1>1, <2>2 DEF Rows
    <3>2. r = p2[2] => p2[1] * Scale = start + Slope(p2, p3) * (r - p2[2])
      <4> SUFFICES ASSUME r = p2[2] PROVE p2[1] * Scale = start + Slope(p2, p3) * (r - p2[2])
        OBVIOUS
      <4>1. r - p2[2] = 0 /\ start = p2[1] * Scale
        BY <2>1
      <4> HIDE DEF start, r
      <4> QED
        BY <1>4, <1>5, <4>1
    <3> HIDE DEF start, p1, p2, p3, r
    <3>3. CASE r < p2[2]
      BY <1>1, <1>2, <2>1, <3>1, <3>3
    <3>4. CASE r = p2[2]
      BY <1>1, <1>2, <2>1, <3>1, <3>2, <3>4
    <3>5. CASE r > p2[2]
      BY <1>1, <1>2, <2>1, <3>1, <3>5
    <3> QED
      BY <1>1, <2>1, <3>3, <3>4, <3>5
  <2>3. Ascending(fig'.p) /\ row' \in Int /\ row' >= Low(fig'.p[1][2])
    BY <1>2, <2>1
  <2> QED
    BY <1>2, <2>2, <2>3 DEF TrianglePen
<1>7. TrianglePut'
  <2>1. ASSUME NEW c \in Canvas, Covers(c) PROVE ~(c[2] < r)
    <3>1. c[2] \in Int /\ c[2] >= 0
      BY CanvasCell
    <3>2. p1[2] <= c[2]
      BY <2>1, <3>1, CoversWithin
    <3> QED
      BY <1>1, <1>3, <3>1, <3>2
  <2>2. \A c : Covers(c)' <=> Covers(c)
    BY <1>2 DEF Covers, SidesAt, Crosses
  <2> QED
    BY <1>2, <2>1, <2>2 DEF TrianglePut, Canvas, XMax, YMax
<1> QED
  BY <1>6, <1>7

LEMMA TriangleDone == TriangleInv /\ Kinds => TriangleRight
<1> SUFFICES ASSUME TriangleInv, Kinds, Finished({"triangle"}), Rows(fig.p) \in 1 .. 31, NEW c \in Canvas
             PROVE  c \in put <=> Covers(c)
  BY DEF TriangleRight, Rows, Covers, SidesAt, Crosses
<1>1. TrianglePut /\ TrianglePen /\ row > LastRow
  BY DEF TriangleInv
<1>2. fig \in TriangleJob
  BY KindOf DEF Finished, Kinds
<1>3. c \in put <=> c[2] < row /\ Covers(c)
  BY <1>1 DEF TrianglePut
<1>4. ASSUME Covers(c) PROVE c[2] < row
  <2>1. c[2] \in 0 .. YMax /\ YMax \in Int
    BY CanvasCell
  <2>2. fig.p[3][2] \in Int /\ row \in Int
    BY <1>1, <1>2, Corners, PointTypes DEF TrianglePen
  <2>3. c[2] <= fig.p[3][2]
    BY <1>1, <1>2, <1>4, <2>1, CoversWithin DEF TrianglePen
  <2> QED
    BY <1>1, <2>1, <2>2, <2>3 DEF LastRow, High
<1> QED
  BY <1>3, <1>4

LEMMA TriangleKept ==
    ASSUME Kinds, TriangleInv, [FigureNext]_figureVars
    PROVE  TriangleInv'
<1>1. CASE TriangleRow
  <2>1. fstage = "rows" /\ fig \in TriangleJob /\ fstage' \in {"rows", "done"}
    BY <1>1 DEF TriangleRow, Kinds
  <2> QED
    BY <1>1, <2>1, TriangleRowKeeps DEF TriangleInv, Finished
<1>2. CASE FirstRow
  <2>1. fstage = "sorted" /\ fig \in TriangleJob /\ fstage' = "rows"
    BY <1>2 DEF FirstRow, Kinds
  <2> QED
    BY <1>2, <2>1, FirstRowKeeps DEF TriangleInv, Finished
<1>3. CASE SortCorners
  <2>1. put' = put /\ fstage = "call" /\ (fstage' = "call" \/ (fstage' = "sorted" /\ fig' = fig /\ Ascending(fig.p)))
    BY <1>3 DEF SortCorners, Ascending
  <2> QED
    BY <2>1 DEF TriangleInv, Finished
<1>4. CASE FillBox \/ DrawBox \/ DrawLabel
  BY <1>4 DEF FillBox, DrawBox, DrawLabel, TriangleInv, Finished, Frames
<1>5. CASE CallFigure \/ ReturnFigure \/ CallCircle \/ CallEllipse \/ EllipseFlat \/ EllipseTurn
  BY <1>5 DEF CallFigure, ReturnFigure, CallCircle, CallEllipse, EllipseFlat, EllipseTurn, TriangleInv, Finished
<1>6. CASE CircleStep \/ EllipseSteep
  <2>1. fig'.kind # "triangle" /\ fstage' \in {"done", "steep", "circle"}
    <3>1. fig' = fig /\ fstage' \in {"done", "steep", "circle"} /\ fig \in EllipseJob \cup CircleJob
      BY <1>6 DEF CircleStep, EllipseSteep, Kinds
    <3> QED
      BY <3>1 DEF EllipseJob, CircleJob, EllipseKinds, Outlines
  <2> QED
    BY <2>1 DEF TriangleInv, Finished
<1>7. CASE UNCHANGED figureVars
  BY <1>7 DEF figureVars, TriangleInv, Finished, TrianglePen, TrianglePut, LastRow, High, YMax, Canvas, XMax, Covers,
              SidesAt, Crosses, At, Slope
<1> QED
  BY <1>1, <1>2, <1>3, <1>4, <1>5, <1>6, <1>7 DEF FigureNext, FigureStep

\* However the corners are given, where they lie and how its sides are cut by the canvas: a filled
\* triangle that descends by less than 32 rows covers in each row just the columns its sides pass through and
\* those between, though the slopes are rounded and added up.
THEOREM TrianglesRight == FigureSpec => []TriangleRight
<1>1. FigureInit => Kinds /\ TriangleInv
  BY DEF FigureInit, Kinds, TriangleInv, Finished
<1>2. Kinds /\ TriangleInv /\ [FigureNext]_figureVars => (Kinds /\ TriangleInv)'
  <2> SUFFICES ASSUME Kinds, TriangleInv, [FigureNext]_figureVars
               PROVE  Kinds' /\ TriangleInv'
    OBVIOUS
  <2> QED
    BY KindsKept, TriangleKept
<1>3. Kinds /\ TriangleInv => TriangleRight
  BY TriangleDone
<1> QED
  BY <1>1, <1>2, <1>3, PTL DEF FigureSpec

-----------------------------------------------------------------------------
(* Rows of filled ellipses.                                                *)

\* The rows at least n away from the middle one are filled with cells of s.
RowsFrom(s, n) ==
    fig.kind = "fill ellipse" /\ fig.x \in 0 .. XMax =>
        \A r \in 0 .. YMax : n <= Abs(r - fig.y) /\ Abs(r - fig.y) <= fig.b => <<fig.x, r>> \in s

EllipseInv ==
    /\ fstage \in {"flat", "steep"} => fx \in Nat /\ fy \in Int /\ d \in Int
    /\ fstage = "flat" => RowsFrom(put, fy + 1)
    /\ fstage = "steep" => RowsFrom(put, fy)
    /\ Finished({"fill ellipse"}) => RowsFrom(put, 0)

LEMMA EllipseTypes ==
    ASSUME fig \in EllipseJob
    PROVE  /\ fig.kind \in EllipseKinds /\ fig.x \in Int /\ fig.y \in Int /\ fig.a \in Int /\ fig.b \in Int
           /\ RA \in Nat /\ RB \in Nat
<1>1. fig.a \in Int /\ fig.b \in Int
  BY DEF EllipseJob
<1>2. \A n \in Int : n * n \in Nat
  OBVIOUS
<1> QED
  BY <1>1, <1>2 DEF EllipseJob, RA, RB

\* The two rows reach the middle column in the rows n away.
LEMMA RowsReached ==
    ASSUME fig \in EllipseJob, NEW n \in Nat, NEW m \in Int, fig.x \in 0 .. XMax,
           NEW r \in 0 .. YMax, Abs(r - fig.y) = m
    PROVE  <<fig.x, r>> \in TwoRows(n, m)
<1>1. fig.x \in Int /\ fig.y \in Int /\ r \in Int /\ YMax \in Int
  BY EllipseTypes, CanvasAssumption DEF YMax
<1>2. r \in {fig.y - m, fig.y + m}
  BY <1>1 DEF Abs
<1>3. fig.x \in Span(fig.x - n, fig.x + n)
  BY <1>1 DEF Span
<1> QED
  BY <1>2, <1>3 DEF TwoRows, Canvas

LEMMA RowOff ==
    ASSUME fig \in EllipseJob, NEW r \in 0 .. YMax
    PROVE  r \in Int /\ fig.y \in Int /\ Abs(r - fig.y) \in Int /\ 0 <= Abs(r - fig.y)
<1>1. YMax \in Int /\ fig.y \in Int
  BY EllipseTypes, CanvasAssumption DEF YMax
<1>2. r \in Int
  BY <1>1
<1> QED
  BY <1>1, <1>2 DEF Abs

LEMMA NextOrBeyond ==
    ASSUME NEW m \in Int, NEW n \in Int
    PROVE  (m <= n => n = m \/ m + 1 <= n) /\ (m <= 0 /\ 0 <= n => m <= n)
OBVIOUS

LEMMA MoreRows ==
    ASSUME fig \in EllipseJob, NEW n \in Nat, NEW m \in Int, fig' = fig,
           RowsFrom(put, m + 1), fig.kind = "fill ellipse" => put' = put \cup TwoRows(n, m)
    PROVE  RowsFrom(put', m)
<1> SUFFICES ASSUME fig.kind = "fill ellipse", fig.x \in 0 .. XMax, NEW r \in 0 .. YMax,
                    m <= Abs(r - fig.y), Abs(r - fig.y) <= fig.b
             PROVE  <<fig.x, r>> \in put'
  BY DEF RowsFrom, XMax, YMax
<1> DEFINE g == Abs(r - fig.y)
<1>1. g \in Int /\ m <= g
  BY RowOff
<1>2. CASE Abs(r - fig.y) = m
  BY <1>2, RowsReached
<1>3. CASE m + 1 <= Abs(r - fig.y)
  BY <1>3 DEF RowsFrom
<1>4. g = m \/ m + 1 <= g
  <2> HIDE DEF g
  <2> QED
    BY <1>1, NextOrBeyond, Zenon
<1> QED
  BY <1>2, <1>3, <1>4

LEMMA SameRows ==
    ASSUME NEW n \in Int, fig' = fig, RowsFrom(put, n), put \subseteq put'
    PROVE  RowsFrom(put', n)
BY DEF RowsFrom, XMax, YMax

LEMMA EllipseStepKeeps ==
    ASSUME EllipseInv, fig \in EllipseJob, EllipseFlat \/ EllipseTurn \/ EllipseSteep
    PROVE  EllipseInv'
<1>0. fig' = fig /\ (fig.kind = "fill ellipse" => fig.kind \notin Outlines)
  BY DEF EllipseFlat, EllipseTurn, EllipseSteep, Outlines
<1>1. fx \in Nat /\ fy \in Int /\ d \in Int /\ RA \in Nat /\ RB \in Nat
  BY EllipseTypes DEF EllipseInv, EllipseFlat, EllipseTurn, EllipseSteep
<1>2. CASE EllipseFlat
  <2>1. fstage = "flat" /\ fstage' = "flat" /\ RowsFrom(put, fy + 1)
    BY <1>2 DEF EllipseFlat, EllipseInv
  <2>2. /\ fx' = fx + 1
        /\ IF d < 0
           THEN d' = d + RB * (2 * fx + 1) /\ fy' = fy
           ELSE d' = d + RB * (2 * fx) + RA * (2 - 2 * fy) /\ fy' = fy - 1
    BY <1>2 DEF EllipseFlat
  <2>3. fx' \in Nat /\ fy' \in Int /\ d' \in Int
    <3>1. RB * (2 * fx + 1) \in Int /\ RB * (2 * fx) \in Int /\ RA * (2 - 2 * fy) \in Int
      BY <1>1
    <3> HIDE DEF RA, RB
    <3> QED
      BY <1>1, <2>2, <3>1
  <2>4. RowsFrom(put', fy' + 1)
    <3>1. CASE d < 0
      <4>1. put \subseteq put' /\ fy' = fy /\ fy + 1 \in Int
        BY <1>1, <1>2, <2>2, <3>1 DEF EllipseFlat
      <4> QED
        BY <1>0, <2>1, <4>1, SameRows
    <3>2. CASE ~(d < 0)
      <4>1. d >= 0 /\ fy' = fy - 1 /\ fy' + 1 = fy
        BY <1>1, <2>2, <3>2
      <4>2. fig.kind = "fill ellipse" => put' = put \cup TwoRows(fx, fy)
        BY <1>0, <1>2, <4>1 DEF EllipseFlat, FillFlat
      <4>3. RowsFrom(put', fy)
        BY <1>0, <1>1, <2>1, <4>2, MoreRows
      <4> QED
        BY <4>1, <4>3
    <3> QED
      BY <3>1, <3>2
  <2> QED
    BY <1>0, <2>1, <2>3, <2>4 DEF EllipseInv, Finished, RowsFrom, XMax, YMax
<1>3. CASE EllipseTurn
  <2>1. fstage = "flat" /\ fstage' = "steep" /\ RowsFrom(put, fy + 1) /\ fx' = fx /\ fy' = fy
    BY <1>3 DEF EllipseTurn, EllipseInv
  <2>2. d' \in Int
    <3> DEFINE e == RB * (2 * fx + 1) * (2 * fx + 1) + 4 * RA * (fy - 1) * (fy - 1) - 4 * RA * RB
    <3>1. e \in Int
      BY <1>1
    <3>2. d' = CDiv(e, 4)
      BY <1>3 DEF EllipseTurn
    <3> HIDE DEF e
    <3> QED
      BY <3>1, <3>2, CDivType
  <2>3. RowsFrom(put', fy)
    <3>1. fig.kind = "fill ellipse" => put' = put \cup TwoRows(fx, fy)
      BY <1>0, <1>3 DEF EllipseTurn
    <3> QED
      BY <1>0, <1>1, <2>1, <3>1, MoreRows
  <2> QED
    BY <1>0, <1>1, <2>1, <2>2, <2>3 DEF EllipseInv, Finished, RowsFrom, XMax, YMax
<1>4. CASE EllipseSteep /\ fy <= 0
  <2>1. fstage = "steep" /\ fstage' = "done" /\ RowsFrom(put, fy) /\ put' = put
    BY <1>4 DEF EllipseSteep, EllipseInv
  <2>2. RowsFrom(put, 0)
    <3> SUFFICES ASSUME fig.kind = "fill ellipse", fig.x \in 0 .. XMax, NEW r \in 0 .. YMax, Abs(r - fig.y) <= fig.b
                 PROVE  <<fig.x, r>> \in put
      BY DEF RowsFrom
    <3>1. fy <= Abs(r - fig.y)
      <4> DEFINE g == Abs(r - fig.y)
      <4>1. g \in Int /\ 0 <= g
        BY RowOff
      <4> HIDE DEF g
      <4>2. fy <= g
        BY <1>1, <1>4, <4>1, NextOrBeyond, Zenon
      <4> QED
        BY <4>2 DEF g
    <3> QED
      BY <2>1, <3>1 DEF RowsFrom
  <2> QED
    BY <1>0, <2>1, <2>2 DEF EllipseInv, RowsFrom, XMax, YMax
<1>5. CASE EllipseSteep /\ ~(fy <= 0)
  <2>1. fstage = "steep" /\ fstage' = "steep" /\ RowsFrom(put, fy)
    BY <1>5 DEF EllipseSteep, EllipseInv
  <2>2. /\ fx' = IF Widens THEN fx + 1 ELSE fx
        /\ d' = d + RA * (3 - 2 * fy) + IF Widens THEN RB * (2 * fx + 2) ELSE 0
        /\ fy' = fy - 1
    BY <1>5 DEF EllipseSteep
  <2>3. fx' \in Nat /\ fy' \in Int /\ d' \in Int
    <3>1. RB * (2 * fx + 2) \in Int /\ RA * (3 - 2 * fy) \in Int
      BY <1>1
    <3> HIDE DEF RA, RB
    <3> QED
      BY <1>1, <2>2, <3>1
  <2>4. RowsFrom(put', fy')
    <3> DEFINE m == fy - 1  n == fx'
    <3>1. m \in Int /\ n \in Nat /\ fy = m + 1 /\ fy' = m
      BY <1>1, <2>2, <2>3
    <3>2. fig.kind = "fill ellipse" => put' = put \cup TwoRows(n, m)
      BY <1>0, <1>5, <2>2 DEF EllipseSteep, FillSteep
    <3>3. RowsFrom(put, m + 1)
      BY <2>1, <3>1
    <3> HIDE DEF m, n
    <3>4. RowsFrom(put', m)
      BY <1>0, <3>1, <3>2, <3>3, MoreRows
    <3> QED
      BY <3>1, <3>4
  <2> QED
    BY <1>0, <2>1, <2>3, <2>4 DEF EllipseInv, Finished, RowsFrom, XMax, YMax
<1> QED
  BY <1>2, <1>3, <1>4, <1>5

LEMMA EllipseKept ==
    ASSUME Kinds, EllipseInv, [FigureNext]_figureVars
    PROVE  EllipseInv'
<1>1. CASE EllipseFlat \/ EllipseTurn \/ EllipseSteep
  <2>1. fig \in EllipseJob
    BY <1>1 DEF EllipseFlat, EllipseTurn, EllipseSteep, Kinds
  <2> QED
    BY <1>1, <2>1, EllipseStepKeeps
<1>2. CASE CallEllipse
  <2>1. /\ fig \in EllipseJob /\ fig' = fig /\ fstage' = "flat" /\ fx' = 0 /\ fy' = fig.b
        /\ d' = RB - RA * fig.b + RA \div 4
    BY <1>2, KindOf DEF CallEllipse, Kinds
  <2>2. fig.b \in Int /\ fig.y \in Int /\ RA \in Nat /\ RB \in Nat
    BY <2>1, EllipseTypes
  <2>3. d' \in Int
    <3>1. RA \div 4 \in Int /\ RA * fig.b \in Int
      BY <2>2
    <3> QED
      BY <2>1, <2>2, <3>1
  <2>4. RowsFrom(put', fy' + 1)
    <3>1. ASSUME NEW r \in 0 .. YMax PROVE ~(fig.b + 1 <= Abs(r - fig.y) /\ Abs(r - fig.y) <= fig.b)
      BY <2>1, <2>2, RowOff
    <3> QED
      BY <2>1, <3>1 DEF RowsFrom, XMax, YMax
  <2> QED
    BY <2>1, <2>2, <2>3, <2>4 DEF EllipseInv, Finished, RowsFrom, XMax, YMax
<1>3. CASE FillBox \/ DrawBox \/ DrawLabel
  BY <1>3 DEF FillBox, DrawBox, DrawLabel, EllipseInv, Finished, Frames
<1>4. CASE CallFigure \/ ReturnFigure \/ CallCircle \/ SortCorners \/ FirstRow
  BY <1>4 DEF CallFigure, ReturnFigure, CallCircle, SortCorners, FirstRow, EllipseInv, Finished
<1>5. CASE CircleStep \/ TriangleRow
  <2>1. fig'.kind # "fill ellipse" /\ fstage' \in {"done", "rows", "circle"}
    <3>1. fig' = fig /\ fstage' \in {"done", "rows", "circle"} /\ fig \in TriangleJob \cup CircleJob
      BY <1>5 DEF CircleStep, TriangleRow, Kinds
    <3> QED
      BY <3>1 DEF TriangleJob, CircleJob
  <2> QED
    BY <2>1 DEF EllipseInv, Finished
<1>6. CASE UNCHANGED figureVars
  BY <1>6 DEF figureVars, EllipseInv, Finished, RowsFrom, XMax, YMax
<1> QED
  BY <1>1, <1>2, <1>3, <1>4, <1>5, <1>6 DEF FigureNext, FigureStep

\* Whatever the decision variable comes to, and for radii of any sign: no row of a filled ellipse
\* is lost between the two loops or at the end of either.
THEOREM FillsEveryRow == FigureSpec => []RowsFilled
<1>1. FigureInit => Kinds /\ EllipseInv
  BY DEF FigureInit, Kinds, EllipseInv, Finished
<1>2. Kinds /\ EllipseInv /\ [FigureNext]_figureVars => (Kinds /\ EllipseInv)'
  <2> SUFFICES ASSUME Kinds, EllipseInv, [FigureNext]_figureVars
               PROVE  Kinds' /\ EllipseInv'
    OBVIOUS
  <2> QED
    BY KindsKept, EllipseKept
<1>3. Kinds /\ EllipseInv => RowsFilled
  <2> SUFFICES ASSUME Kinds, EllipseInv, Finished({"fill ellipse"}), fig.x \in 0 .. XMax,
                      NEW r \in 0 .. YMax, Abs(r - fig.y) <= fig.b
               PROVE  <<fig.x, r>> \in put
    BY DEF RowsFilled
  <2>1. fig \in EllipseJob
    BY KindOf DEF Kinds, Finished, EllipseKinds
  <2>2. 0 <= Abs(r - fig.y)
    BY <2>1, RowOff
  <2> QED
    BY <2>2 DEF EllipseInv, RowsFrom, Finished
<1> QED
  BY <1>1, <1>2, <1>3, PTL DEF FigureSpec

\* On a canvas of any size and for any arguments: boxes and frames, labels, circles and the rows of
\* filled ellipses are put as they should be.
THEOREM FiguresDrawnRight == FigureSpec => []FiguresRight
BY BoxesAndLabelsRight, CirclesRight, FillsEveryRow, PTL DEF FiguresRight
=============================================================================
