---------------------------- MODULE FilesProofs -----------------------------
(***************************************************************************)
(* Proofs about the code that reads and writes files.  Of Import, for      *)
(* every file, every sheet and every set of protected cells: whatever step *)
(* fails, the cells written are those of a first part of the file, and     *)
(* nothing is left behind.  Of Formats, for every source and every size of *)
(* the destination: what is copied is what the source stands for.  Of      *)
(* Resources, for every text: what was compiled is found and listed.  Of   *)
(* FileName, for every path name whose directory fits: the parts stand     *)
(* where the PATHNAME says, and are what they are called.                  *)
(***************************************************************************)
EXTENDS Import, FileName, Resources, Formats,
        FiniteSetTheorems, SequenceTheorems, WellFoundedInduction, TLAPS

Tok == Tokens \cup {"unclosed"}

(* Where the reading of the line has got to: the token outptr points at.   *)
At == Len(file[n]) - Len(rest) + 1

(* The fields before token k of line l, and what it is for the sheet to    *)
(* hold a set of fields and nothing else.                                  *)
Upto(l, k) == {f \in Wanted : f[1] < l \/ (f[1] = l /\ f[2] < k)}
Holds(fields) ==
    /\ DOMAIN cells = {Place(f) : f \in fields}
    /\ \A f \in fields : cells[Place(f)] = Content(f)

InLine == pc \in {"convert", "text", "tokens", "number", "next"}

InputInv ==
    /\ textmode \in BOOLEAN
    /\ file \in Seq(Lines)
    /\ start \in [row : Rows, col : Cols]

ControlInv ==
    /\ pc \in {"open", "read", "finished", "done"} \/ InLine
    /\ n \in 0 .. Len(file)
    /\ pc = "open" => n = 0 /\ handle = "none"
    /\ pc \in {"open", "read"} => row = start.row + n
    /\ InLine => n >= 1 /\ row = start.row + n - 1
    /\ pc \in {"open", "read"} \/ InLine => row <= MaxRow
    /\ atEnd => n = Len(file)
    /\ pc \notin {"finished", "done"} => result = 0
    /\ values = IF pc = "number" THEN 1 ELSE 0
    /\ pc = "done" => handle # "open"

LineInv ==
    /\ pc \in {"convert", "text"} => file[n] # <<>>
    /\ pc = "text" => textmode
    /\ pc = "convert" => rest = file[n] /\ rdcol = start.col
    /\ pc \in {"tokens", "number"} =>
          /\ ~textmode
          /\ rest \in Seq(Tok) /\ Len(rest) <= Len(file[n])
          /\ \A i \in 1 .. Len(rest) : rest[i] = file[n][At + i - 1]
          /\ rdcol = Column(file[n], At)
    /\ pc = "number" => rest # <<>> /\ Head(rest) = "number"

CellsInv ==
    /\ DOMAIN cells \subseteq (Rows \X Cols) \ protected
    /\ pc \in {"open", "read", "next"} => Holds(Upto(n + 1, 0))
    /\ pc \in {"convert", "text"} => Holds(Upto(n, 0))
    /\ pc \in {"tokens", "number"} => Holds(Upto(n, At))
    /\ pc \in {"finished", "done"} =>
          \E l, k \in Nat :
             /\ Holds(Upto(l, k))
             /\ result = 0 => \A f \in Wanted \ Upto(l, k) : Place(f)[1] > MaxRow

ImportInv == InputInv /\ ControlInv /\ LineInv /\ CellsInv
-----------------------------------------------------------------------------
(* Fields and their places. *)

LEMMA LineFacts ==
    ASSUME InputInv
    PROVE  /\ DOMAIN file = 1 .. Len(file) /\ Len(file) \in Nat
           /\ start.row \in Nat /\ start.row <= MaxRow
           /\ start.col \in Nat /\ start.col <= MaxCol
           /\ \A l \in 1 .. Len(file) :
                 /\ file[l] \in Seq(Tok)
                 /\ \A k \in 1 .. Len(file[l]) : file[l][k] = "unclosed" => k = Len(file[l])
                 /\ Fields(file[l]) \subseteq 1 .. Len(file[l])
                 /\ Len(file[l]) \in Nat
                 /\ IsFiniteSet(Fields(file[l]))
  <1>1. DOMAIN file = 1 .. Len(file) /\ Len(file) \in Nat
    BY DEF InputInv
  <1>2. /\ start.row \in Nat /\ start.row <= MaxRow
        /\ start.col \in Nat /\ start.col <= MaxCol
    BY SheetAssumption DEF InputInv, Rows, Cols
  <1>3. ASSUME NEW l \in 1 .. Len(file)
        PROVE  /\ file[l] \in Seq(Tok)
               /\ \A k \in 1 .. Len(file[l]) : file[l][k] = "unclosed" => k = Len(file[l])
               /\ Fields(file[l]) \subseteq 1 .. Len(file[l])
               /\ Len(file[l]) \in Nat
               /\ IsFiniteSet(Fields(file[l]))
    <2>1. file[l] \in Lines
      BY <1>1 DEF InputInv
    <2>2. PICK m \in 0 .. MaxTokens : file[l] \in [1 .. m -> Tok]
      BY <2>1 DEF Lines, SeqOf, Tok
    <2>3. m \in Nat /\ Len(file[l]) = m /\ file[l] \in Seq(Tok)
      BY <2>2, BoundsAssumption
    <2>4. \A k \in 1 .. m : file[l][k] = "unclosed" => k = m
      BY <2>1, <2>2, <2>3 DEF Lines
    <2>5. Fields(file[l]) \subseteq 1 .. m
      BY <2>2 DEF Fields
    <2>6. IsFiniteSet(Fields(file[l]))
      <3>1. IsFiniteSet(1 .. m)
        BY <2>3, FS_Interval
      <3> QED BY <2>5, <3>1, FS_Subset
    <2> QED BY <2>3, <2>4, <2>5, <2>6
  <1> QED BY <1>1, <1>2, <1>3

Before(line, k) == {j \in Fields(line) : j < k}

(* The column goes one on with each field. *)
LEMMA ColumnFacts ==
    ASSUME InputInv, NEW l \in 1 .. Len(file)
    PROVE  /\ Column(file[l], 1) = start.col
           /\ \A k \in Nat : Column(file[l], k) \in Nat /\ Column(file[l], k) >= start.col
           /\ \A k \in Nat : Column(file[l], k + 1) =
                 IF k \in Fields(file[l]) THEN Column(file[l], k) + 1 ELSE Column(file[l], k)
           /\ \A k \in Nat : \A j \in Fields(file[l]) :
                 j < k => Column(file[l], j) < Column(file[l], k)
  <1> DEFINE line == file[l]
  <1>1. /\ Fields(line) \subseteq 1 .. Len(line) /\ Len(line) \in Nat
        /\ IsFiniteSet(Fields(line)) /\ start.col \in Nat
    BY LineFacts
  <1>2. \A j \in Fields(line) : j \in Nat /\ j >= 1
    BY <1>1
  <1> HIDE DEF line
  <1>3. \A j, k : j \in Before(line, k) <=> j \in Fields(line) /\ j < k
    BY DEF Before
  <1>4. \A k : Column(line, k) = start.col + Cardinality(Before(line, k))
    BY DEF Column, Before
  <1>5. ASSUME NEW k
        PROVE  IsFiniteSet(Before(line, k)) /\ Cardinality(Before(line, k)) \in Nat
    <2>1. Before(line, k) \in SUBSET Fields(line)
      BY DEF Before
    <2> QED BY <1>1, <2>1, FS_Subset, FS_CardinalityType
  <1>6. Column(line, 1) = start.col
    <2>1. Before(line, 1) = {}
      BY <1>2, <1>3
    <2> QED BY <1>1, <1>4, <2>1, FS_EmptySet
  <1>7. ASSUME NEW k \in Nat
        PROVE  Column(line, k + 1) =
                  IF k \in Fields(line) THEN Column(line, k) + 1 ELSE Column(line, k)
    <2>1. \A j \in Fields(line) : j < k + 1 <=> j < k \/ j = k
      BY <1>2
    <2>2. CASE k \in Fields(line)
      <3>1. Before(line, k + 1) = Before(line, k) \cup {k} /\ k \notin Before(line, k)
        <4>1. \A j : j \in Before(line, k + 1) <=> j \in Before(line, k) \/ j = k
          BY <1>3, <2>1, <2>2
        <4>2. ~(k < k)
          OBVIOUS
        <4> QED BY <1>3, <4>1, <4>2
      <3> QED BY <1>1, <1>4, <1>5, <2>2, <3>1, FS_AddElement
    <2>3. CASE k \notin Fields(line)
      <3>1. Before(line, k + 1) = Before(line, k)
        BY <1>3, <2>1, <2>3
      <3> QED BY <1>4, <2>3, <3>1
    <2> QED BY <2>2, <2>3
  <1>8. ASSUME NEW k \in Nat, NEW j \in Fields(line), j < k
        PROVE  Column(line, j) < Column(line, k)
    <2>1. Column(line, j + 1) = Column(line, j) + 1
      BY <1>2, <1>7
    <2>2. Before(line, j + 1) \in SUBSET Before(line, k)
      <3>1. \A i \in Fields(line) : i < j + 1 => i < k
        BY <1>2, <1>8
      <3> QED BY <1>3, <3>1
    <2>3. Cardinality(Before(line, j + 1)) <= Cardinality(Before(line, k))
      BY <1>5, <2>2, FS_Subset
    <2> QED BY <1>1, <1>4, <1>5, <2>1, <2>3, SMTT(30)
  <1>9. \A k \in Nat : Column(line, k) \in Nat /\ Column(line, k) >= start.col
    BY <1>1, <1>4, <1>5
  <1> QED BY <1>6, <1>7, <1>8, <1>9 DEF line

LEMMA WantedAre ==
    ASSUME InputInv
    PROVE  /\ \A l \in 1 .. Len(file) : \A k \in Fields(file[l]) : <<l, k>> \in Wanted
           /\ \A f \in Wanted : /\ f = <<f[1], f[2]>>
                                /\ f[1] \in 1 .. Len(file) /\ f[2] \in Fields(file[f[1]])
                                /\ f[1] \in Nat /\ f[2] \in Nat /\ f[2] >= 1
                                /\ f[2] <= Len(file[f[1]])
  <1>1. DOMAIN file = 1 .. Len(file) /\ Len(file) \in Nat
    BY LineFacts
  <1>2. \A l \in 1 .. Len(file) : \A k \in Fields(file[l]) : <<l, k>> \in Wanted
    BY <1>1 DEF Wanted
  <1>3. ASSUME NEW f \in Wanted
        PROVE  /\ f = <<f[1], f[2]>>
               /\ f[1] \in 1 .. Len(file) /\ f[2] \in Fields(file[f[1]])
               /\ f[1] \in Nat /\ f[2] \in Nat /\ f[2] >= 1
               /\ f[2] <= Len(file[f[1]])
    <2>1. PICK l \in 1 .. Len(file) : \E k \in Fields(file[l]) : f = <<l, k>>
      BY <1>1 DEF Wanted
    <2>2. PICK k \in Fields(file[l]) : f = <<l, k>>
      BY <2>1
    <2>3. k \in 1 .. Len(file[l]) /\ Len(file[l]) \in Nat
      BY LineFacts
    <2> QED BY <1>1, <2>2, <2>3
  <1> QED BY <1>2, <1>3

(* No two fields belong in one cell. *)
LEMMA PlaceInjective ==
    ASSUME InputInv, NEW f \in Wanted, NEW g \in Wanted, Place(f) = Place(g)
    PROVE  f = g
  <1>1. /\ f = <<f[1], f[2]>> /\ g = <<g[1], g[2]>>
        /\ f[1] \in 1 .. Len(file) /\ f[2] \in Fields(file[f[1]])
        /\ g[1] \in 1 .. Len(file) /\ g[2] \in Fields(file[g[1]])
        /\ f[1] \in Nat /\ g[1] \in Nat /\ f[2] \in Nat /\ g[2] \in Nat
    BY WantedAre
  <1>2. start.row + f[1] - 1 = start.row + g[1] - 1
    BY DEF Place
  <1>3. f[1] = g[1]
    BY <1>1, <1>2, LineFacts
  <1>4. Column(file[f[1]], f[2]) = Column(file[f[1]], g[2])
    BY <1>3 DEF Place
  <1>5. ~(f[2] < g[2]) /\ ~(g[2] < f[2])
    <2> DEFINE line == file[f[1]]
    <2>1. Column(line, f[2]) \in Nat
      BY <1>1, ColumnFacts
    <2>2. f[2] < g[2] => Column(line, f[2]) < Column(line, g[2])
      BY <1>1, ColumnFacts
    <2>3. g[2] < f[2] => Column(line, g[2]) < Column(line, f[2])
      BY <1>1, <1>3, ColumnFacts
    <2> QED BY <1>4, <2>1, <2>2, <2>3
  <1> QED BY <1>1, <1>3, <1>5

(* A field is added to those of the sheet. *)
LEMMA HoldsMore ==
    ASSUME InputInv, NEW D, D \subseteq Wanted, Holds(D), NEW f \in Wanted, UNCHANGED input,
           cells' = Written(Place(f), Content(f))
    PROVE  Holds(D \cup {f})'
  <1>1. \A g : Place(g)' = Place(g) /\ Content(g)' = Content(g)
    BY DEF input, Place, Column, Fields, Content
  <1>2. DOMAIN cells' = {Place(g) : g \in D} \cup {Place(f)}
    BY DEF Written, Holds
  <1>3. \A g \in D : cells'[Place(g)] = Content(g)
    <2> SUFFICES ASSUME NEW g \in D PROVE cells'[Place(g)] = Content(g)
      OBVIOUS
    <2>1. CASE g = f
      BY <2>1 DEF Written
    <2>2. CASE g # f
      BY <2>2, PlaceInjective DEF Written, Holds
    <2> QED BY <2>1, <2>2
  <1>4. cells'[Place(f)] = Content(f)
    BY DEF Written
  <1>5. DOMAIN cells' = {Place(g)' : g \in D \cup {f}}
    BY <1>1, <1>2
  <1>6. \A g \in D \cup {f} : cells'[Place(g)'] = Content(g)'
    BY <1>1, <1>3, <1>4
  <1> QED BY <1>5, <1>6 DEF Holds

LEMMA HoldsSame ==
    ASSUME NEW D, Holds(D), UNCHANGED <<input, cells>>
    PROVE  Holds(D)'
  BY SMTT(30) DEF Holds, input, Place, Column, Fields, Content

LEMMA SameInput ==
    ASSUME UNCHANGED input
    PROVE  /\ InputInv => InputInv'
           /\ Wanted' = Wanted
           /\ \A l, k : Upto(l, k)' = Upto(l, k)
           /\ \A line : Fields(line)' = Fields(line)
           /\ \A line, k : Column(line, k)' = Column(line, k)
           /\ \A f : Place(f)' = Place(f)
  BY DEF input, InputInv, Wanted, Upto, Column, Fields, Place

LEMMA StillHolds ==
    ASSUME UNCHANGED <<input, cells>>, NEW l, NEW k, Holds(Upto(l, k))
    PROVE  Holds(Upto(l, k))'
  <1>1. PICK D : D = Upto(l, k)
    OBVIOUS
  <1>2. Holds(D)'
    BY <1>1, HoldsSame
  <1>3. Upto(l, k)' = D
    BY <1>1, SameInput
  <1> QED BY <1>2, <1>3
-----------------------------------------------------------------------------
(* First parts of the file. *)

LEMMA UptoFacts ==
    ASSUME InputInv, NEW l \in 1 .. Len(file)
    PROVE  /\ \A k \in Nat : Upto(l, k) \subseteq Wanted
           /\ \A k \in Nat : Upto(l, k + 1) =
                 IF k \in Fields(file[l]) THEN Upto(l, k) \cup {<<l, k>>} ELSE Upto(l, k)
           /\ Upto(l, 1) = Upto(l, 0)
           /\ Upto(l + 1, 0) = Upto(l, Len(file[l]) + 1)
  <1>1. l \in Nat /\ Len(file[l]) \in Nat
    BY LineFacts
  <1>2. \A f, i, k : f \in Upto(i, k) <=> f \in Wanted /\ (f[1] < i \/ (f[1] = i /\ f[2] < k))
    BY DEF Upto
  <1>3. \A f \in Wanted : /\ f = <<f[1], f[2]>> /\ f[2] \in Fields(file[f[1]])
                          /\ f[1] \in Nat /\ f[2] \in Nat /\ f[2] >= 1
                          /\ f[2] <= Len(file[f[1]])
    BY WantedAre
  <1>4. ASSUME NEW k \in Nat
        PROVE  Upto(l, k + 1) =
                 IF k \in Fields(file[l]) THEN Upto(l, k) \cup {<<l, k>>} ELSE Upto(l, k)
    <2>1. \A f \in Wanted : f[2] < k + 1 <=> f[2] < k \/ f[2] = k
      BY <1>3
    <2>2. \A f \in Upto(l, k + 1) : f \in Upto(l, k) \/ (f = <<l, k>> /\ k \in Fields(file[l]))
      BY <1>2, <1>3, <2>1
    <2>3. \A f \in Upto(l, k) : f \in Upto(l, k + 1)
      BY <1>2, <1>3, <2>1
    <2>4. k \in Fields(file[l]) => <<l, k>> \in Upto(l, k + 1)
      BY <1>2, WantedAre
    <2>5. CASE k \in Fields(file[l])
      <3>1. \A f : f \in Upto(l, k + 1) <=> f \in Upto(l, k) \/ f = <<l, k>>
        BY <2>2, <2>3, <2>4, <2>5
      <3> QED BY <2>5, <3>1
    <2>6. CASE k \notin Fields(file[l])
      <3>1. \A f : f \in Upto(l, k + 1) <=> f \in Upto(l, k)
        BY <2>2, <2>3, <2>6
      <3> QED BY <2>6, <3>1
    <2> QED BY <2>5, <2>6
  <1>5. Upto(l, 1) = Upto(l, 0)
    <2>1. 0 \notin Fields(file[l])
      BY LineFacts
    <2>2. Upto(l, 0 + 1) = Upto(l, 0)
      BY <1>4, <2>1
    <2> QED BY <2>2
  <1>6. Upto(l + 1, 0) = Upto(l, Len(file[l]) + 1)
    <2>1. ASSUME NEW f \in Wanted
          PROVE  f \in Upto(l + 1, 0) <=> f \in Upto(l, Len(file[l]) + 1)
      <3>1. f[1] \in Nat /\ f[2] \in Nat /\ (f[1] = l => f[2] <= Len(file[l]))
        BY <1>3
      <3>2. f[1] < l + 1 <=> f[1] < l \/ f[1] = l
        BY <1>1, <3>1
      <3>3. f[1] = l => f[2] < Len(file[l]) + 1
        BY <1>1, <3>1
      <3>4. ~(f[2] < 0)
        BY <3>1
      <3> QED BY <1>2, <3>2, <3>3, <3>4
    <2>2. \A f : f \in Upto(l + 1, 0) <=> f \in Upto(l, Len(file[l]) + 1)
      BY <1>2, <2>1
    <2> QED BY <2>2
  <1> QED BY <1>2, <1>4, <1>5, <1>6

(* Where the cursor is in the line, as a token and as a column.            *)
LEMMA AtFacts ==
    ASSUME ImportInv, pc \in {"tokens", "number"}
    PROVE  /\ n \in 1 .. Len(file) /\ Len(file[n]) \in Nat
           /\ At \in 1 .. Len(file[n]) + 1
           /\ rest = <<>> <=> At = Len(file[n]) + 1
           /\ rest # <<>> =>
                 /\ At \in DOMAIN file[n]
                 /\ Head(rest) = file[n][At]
                 /\ At \in Fields(file[n]) <=> Head(rest) # "other"
                 /\ Tail(rest) \in Seq(Tok) /\ Len(Tail(rest)) = Len(rest) - 1
                 /\ \A i \in 1 .. Len(Tail(rest)) : Tail(rest)[i] = rest[i + 1]
                 /\ Head(rest) = "unclosed" => Tail(rest) = <<>>
  <1>1. /\ n \in 1 .. Len(file) /\ ~textmode
        /\ rest \in Seq(Tok) /\ Len(rest) <= Len(file[n])
        /\ \A i \in 1 .. Len(rest) : rest[i] = file[n][At + i - 1]
    <2>1. n \in 0 .. Len(file) /\ n >= 1
      BY DEF ImportInv, ControlInv, InLine
    <2>2. Len(file) \in Nat
      BY LineFacts DEF ImportInv
    <2> QED BY <2>1, <2>2 DEF ImportInv, LineInv
  <1>2. /\ file[n] \in Seq(Tok) /\ Len(file[n]) \in Nat /\ Len(rest) \in Nat
        /\ \A k \in 1 .. Len(file[n]) : file[n][k] = "unclosed" => k = Len(file[n])
    BY <1>1, LineFacts DEF ImportInv
  <1>3. At \in 1 .. Len(file[n]) + 1 /\ At = Len(file[n]) - Len(rest) + 1
    BY <1>1, <1>2 DEF At
  <1>4. rest = <<>> <=> At = Len(file[n]) + 1
    <2>1. rest = <<>> <=> Len(rest) = 0
      BY <1>1, EmptySeq
    <2> QED BY <1>2, <1>3, <2>1
  <1>5. ASSUME rest # <<>>
        PROVE  /\ At \in DOMAIN file[n]
               /\ Head(rest) = file[n][At]
               /\ At \in Fields(file[n]) <=> Head(rest) # "other"
               /\ Tail(rest) \in Seq(Tok) /\ Len(Tail(rest)) = Len(rest) - 1
               /\ \A i \in 1 .. Len(Tail(rest)) : Tail(rest)[i] = rest[i + 1]
               /\ Head(rest) = "unclosed" => Tail(rest) = <<>>
    <2>1. At \in 1 .. Len(file[n])
      BY <1>2, <1>3, <1>4, <1>5
    <2>2. Head(rest) = rest[1] /\ 1 \in 1 .. Len(rest)
      BY <1>1, <1>2, <1>3, <2>1, <1>5
    <2>3. Head(rest) = file[n][At]
      <3>1. At + 1 - 1 = At
        BY <2>1
      <3> QED BY <1>1, <2>2, <3>1
    <2>4. At \in Fields(file[n]) <=> Head(rest) # "other"
      BY <1>1, <1>2, <2>1, <2>3 DEF Fields, IsField
    <2>5. /\ Tail(rest) \in Seq(Tok) /\ Len(Tail(rest)) = Len(rest) - 1
          /\ \A i \in 1 .. Len(Tail(rest)) : Tail(rest)[i] = rest[i + 1]
      BY <1>1, <1>5, HeadTailProperties
    <2>6. Head(rest) = "unclosed" => Tail(rest) = <<>>
      <3>1. Head(rest) = "unclosed" => Len(Tail(rest)) = 0
        BY <1>2, <1>3, <2>1, <2>3, <2>5
      <3> QED BY <2>5, <3>1, EmptySeq
    <2> QED BY <1>2, <2>1, <2>3, <2>4, <2>5, <2>6
  <1> QED BY <1>1, <1>2, <1>3, <1>4, <1>5

LEMMA SomePrefix ==
    ASSUME ImportInv
    PROVE  \E l, k \in Nat : Holds(Upto(l, k))
  <1>1. n \in Nat /\ n + 1 \in Nat
    <2>1. n \in 0 .. Len(file)
      BY DEF ImportInv, ControlInv
    <2>2. Len(file) \in Nat
      BY LineFacts DEF ImportInv
    <2> QED BY <2>1, <2>2
  <1>2. CASE pc \in {"tokens", "number"}
    <2>1. At \in Nat
      BY <1>2, AtFacts
    <2> QED BY <1>1, <1>2, <2>1 DEF ImportInv, CellsInv
  <1>3. CASE pc \notin {"tokens", "number"}
    BY <1>1, <1>3 DEF ImportInv, CellsInv, ControlInv, InLine
  <1> QED BY <1>2, <1>3

LEMMA PrefixIsWritten == ImportInv => PrefixWritten
  <1> SUFFICES ASSUME ImportInv PROVE PrefixWritten
    OBVIOUS
  <1>1. PICK l \in Nat, k \in Nat : Holds(Upto(l, k))
    BY SomePrefix
  <1> DEFINE written == {f \in Wanted : Place(f) \in DOMAIN cells}
  <1>2. InputInv
    BY DEF ImportInv
  <1>3. written = Upto(l, k)
    <2>1. ASSUME NEW f \in written PROVE f \in Upto(l, k)
      <3>1. PICK g \in Upto(l, k) : Place(f) = Place(g)
        BY <1>1 DEF Holds
      <3>2. f \in Wanted /\ g \in Wanted
        BY DEF Upto
      <3> QED BY <1>2, <3>1, <3>2, PlaceInjective
    <2>2. ASSUME NEW f \in Upto(l, k) PROVE f \in written
      BY <1>1 DEF Holds, Upto
    <2> QED BY <2>1, <2>2
  <1>4. \A f \in written, g \in Wanted : Earlier(g, f) => g \in written
    <2> SUFFICES ASSUME NEW f \in Upto(l, k), NEW g \in Wanted, Earlier(g, f)
                 PROVE  g \in Upto(l, k)
      BY <1>3
    <2>1. f[1] \in Nat /\ f[2] \in Nat /\ g[1] \in Nat /\ g[2] \in Nat
      BY <1>2, WantedAre DEF Upto
    <2> QED BY <2>1 DEF Upto, Earlier
  <1>5. DOMAIN cells \subseteq (Rows \X Cols) \ protected
    BY DEF ImportInv, CellsInv
  <1>6. /\ DOMAIN cells = {Place(f) : f \in written}
        /\ \A f \in written : cells[Place(f)] = Content(f)
    BY <1>1, <1>3 DEF Holds
  <1> QED BY <1>4, <1>5, <1>6 DEF PrefixWritten

LEMMA SuccessIs == ImportInv => SuccessIsComplete
  <1> SUFFICES ASSUME ImportInv, pc = "done", result = 0,
                      NEW f \in Wanted, Place(f)[1] <= MaxRow
               PROVE  Place(f) \in DOMAIN cells
    BY DEF SuccessIsComplete
  <1>1. PICK l \in Nat, k \in Nat : /\ Holds(Upto(l, k))
                                   /\ \A g \in Wanted \ Upto(l, k) : Place(g)[1] > MaxRow
    BY DEF ImportInv, CellsInv
  <1>2. Place(f)[1] \in Int
    <2>1. InputInv /\ f[1] \in Nat
      BY WantedAre DEF ImportInv
    <2> QED BY <2>1, LineFacts DEF Place
  <1>3. f \in Upto(l, k)
    BY <1>1, <1>2, SheetAssumption
  <1> QED BY <1>1, <1>3 DEF Holds

LEMMA NothingIsLeft == ImportInv => LeavesNothing
  BY DEF ImportInv, ControlInv, LeavesNothing
-----------------------------------------------------------------------------
(* The steps. *)

(* A step that ends the import leaves a first part of the file written,    *)
(* and all that fits when it reports success.                              *)
LEMMA Finishing ==
    ASSUME ImportInv, pc' = "finished", UNCHANGED <<input, cells, n, atEnd>>, values' = 0,
           NEW l \in Nat, NEW k \in Nat, Holds(Upto(l, k)),
           result' = 0 => \A f \in Wanted \ Upto(l, k) : Place(f)[1] > MaxRow
    PROVE  ImportInv'
  <1>1. InputInv'
    BY SameInput DEF ImportInv
  <1>2. ControlInv'
    BY DEF ImportInv, ControlInv, InLine, input
  <1>3. LineInv'
    BY DEF LineInv
  <1>4. Holds(Upto(l, k))'
    BY StillHolds
  <1>5. CellsInv'
    BY <1>4, SameInput DEF ImportInv, CellsInv, InLine, input
  <1> QED BY <1>1, <1>2, <1>3, <1>5 DEF ImportInv

(* What the loop knows at the start of a line.                             *)
LEMMA InLineFacts ==
    ASSUME ImportInv
    PROVE  /\ InputInv /\ Len(file) \in Nat /\ n \in Nat /\ n <= Len(file)
           /\ start.row \in Nat /\ start.col \in Nat
           /\ start.row <= MaxRow /\ start.col <= MaxCol
           /\ InLine => /\ n \in 1 .. Len(file) /\ row = start.row + n - 1
                        /\ row \in Nat /\ row <= MaxRow /\ result = 0
                        /\ file[n] \in Seq(Tok) /\ Len(file[n]) \in Nat
  <1>1. InputInv
    BY DEF ImportInv
  <1>2. /\ Len(file) \in Nat /\ start.row \in Nat /\ start.col \in Nat
        /\ start.row <= MaxRow /\ start.col <= MaxCol
    BY <1>1, LineFacts
  <1>3. n \in Nat /\ n <= Len(file)
    BY <1>2 DEF ImportInv, ControlInv
  <1>4. ASSUME InLine
        PROVE  /\ n \in 1 .. Len(file) /\ row = start.row + n - 1
               /\ row \in Nat /\ row <= MaxRow /\ result = 0
               /\ file[n] \in Seq(Tok) /\ Len(file[n]) \in Nat
    <2>1. n >= 1 /\ row = start.row + n - 1 /\ row <= MaxRow /\ result = 0
      BY <1>4 DEF ImportInv, ControlInv, InLine
    <2>2. n \in 1 .. Len(file) /\ row \in Nat
      BY <1>2, <1>3, <2>1
    <2> QED BY <1>1, <2>1, <2>2, LineFacts
  <1> QED BY <1>1, <1>2, <1>3, <1>4

LEMMA InitHolds == Init => ImportInv
  <1> SUFFICES ASSUME Init PROVE ImportInv
    OBVIOUS
  <1>1. InputInv
    <2>1. file \in Seq(Lines)
      BY BoundsAssumption DEF Init, SeqOf
    <2>2. textmode \in BOOLEAN /\ start \in [row : Rows, col : Cols]
      BY DEF Init
    <2> QED BY <2>1, <2>2 DEF InputInv
  <1>2. Len(file) \in Nat /\ start.row \in Nat /\ start.row <= MaxRow
    BY <1>1, LineFacts
  <1>3. pc = "open" /\ n = 0 /\ row = start.row /\ atEnd = FALSE /\ result = 0 /\ values = 0
        /\ handle = "none" /\ cells = <<>>
    BY DEF Init
  <1>4. ControlInv
    BY <1>2, <1>3 DEF ControlInv, InLine
  <1>5. LineInv
    BY <1>3 DEF LineInv
  <1>6. CellsInv
    <2>1. DOMAIN cells = {}
      BY <1>3
    <2>2. Upto(n + 1, 0) = {}
      <3>1. \A f \in Wanted : f \notin Upto(n + 1, 0)
        <4> SUFFICES ASSUME NEW f \in Wanted PROVE f \notin Upto(n + 1, 0)
          OBVIOUS
        <4>1. f[1] \in Nat /\ f[2] \in Nat /\ f[1] >= 1 /\ f[2] >= 1
          BY <1>1, <1>2, WantedAre
        <4>2. n + 1 = 1
          BY <1>3
        <4> QED BY <4>1, <4>2 DEF Upto
      <3> QED BY <3>1 DEF Upto
    <2>3. Holds(Upto(n + 1, 0))
      BY <2>1, <2>2 DEF Holds
    <2> QED BY <1>3, <2>1, <2>3 DEF CellsInv
  <1> QED BY <1>1, <1>4, <1>5, <1>6 DEF ImportInv

(* Any step that fails ends the import with what has been written.         *)
LEMMA Failing ==
    ASSUME ImportInv, pc' = "finished", UNCHANGED <<input, cells, n, atEnd>>, values' = 0,
           result' # 0
    PROVE  ImportInv'
  <1>1. PICK l \in Nat, k \in Nat : Holds(Upto(l, k))
    BY SomePrefix
  <1> QED BY <1>1, Finishing

LEMMA OpenKeeps == ImportInv /\ Open => ImportInv'
  <1> SUFFICES ASSUME ImportInv, Open PROVE ImportInv'
    OBVIOUS
  <1>1. /\ pc = "open" /\ n = 0 /\ handle = "none" /\ values = 0 /\ result = 0
        /\ row = start.row + n /\ row <= MaxRow
        /\ UNCHANGED <<input, cells, n, row, rdcol, rest, atEnd, values>>
    BY DEF ImportInv, ControlInv, Open
  <1>2. InputInv' /\ file' = file /\ start' = start
    BY <1>1, SameInput DEF ImportInv, input
  <1>3. Holds(Upto(1, 0)) /\ Holds(Upto(1, 0))'
    <2>1. Holds(Upto(1, 0))
      BY <1>1 DEF ImportInv, CellsInv
    <2> QED BY <1>1, <2>1, StillHolds
  <1>4. Upto(n + 1, 0)' = Upto(n + 1, 0) /\ Wanted' = Wanted /\ n + 1 = 1
    BY <1>1, SameInput
  <1>5. DOMAIN cells' \subseteq ((Rows \X Cols) \ protected)'
    BY <1>1 DEF ImportInv, CellsInv, input
  <1>6. CASE handle' = "open" /\ pc' = "read" /\ UNCHANGED result
    <2>1. ControlInv'
      BY <1>1, <1>2, <1>6 DEF ImportInv, ControlInv, InLine
    <2>2. LineInv'
      BY <1>6 DEF LineInv
    <2>3. CellsInv'
      BY <1>1, <1>3, <1>4, <1>5, <1>6 DEF CellsInv
    <2> QED BY <1>2, <2>1, <2>2, <2>3 DEF ImportInv
  <1>7. CASE result' \in {IN_USE, NOT_FOUND} /\ pc' = "done" /\ UNCHANGED handle
    <2>1. ControlInv'
      BY <1>1, <1>2, <1>7 DEF ImportInv, ControlInv, InLine
    <2>2. LineInv'
      BY <1>7 DEF LineInv
    <2>3. result' # 0 /\ 1 \in Nat /\ 0 \in Nat /\ Holds(Upto(1, 0))'
      BY <1>1, <1>3, <1>4, <1>7 DEF IN_USE, NOT_FOUND
    <2>4. CellsInv'
      BY <1>5, <1>7, <2>3 DEF CellsInv, InLine
    <2> QED BY <1>2, <2>1, <2>2, <2>4 DEF ImportInv
  <1> QED BY <1>6, <1>7 DEF Open

(* The parts of the invariant a step inside a line does not disturb.       *)
LEMMA StaysInLine ==
    ASSUME ImportInv, InLine, pc' \in {"convert", "text", "tokens", "number", "next"},
           UNCHANGED <<input, n, row, atEnd, handle, result>>,
           values' = IF pc' = "number" THEN 1 ELSE 0
    PROVE  /\ InputInv' /\ ControlInv'
           /\ file' = file /\ start' = start /\ textmode' = textmode
           /\ ((Rows \X Cols) \ protected)' = (Rows \X Cols) \ protected
  <1>1. InputInv'
    BY SameInput DEF ImportInv
  <1>2. ControlInv'
    BY DEF ImportInv, ControlInv, InLine, input
  <1> QED BY <1>1, <1>2 DEF input, Rows, Cols

(* The field under the cursor is written: the sheet holds one more.        *)
LEMMA WritesField ==
    ASSUME ImportInv, InLine, NEW k \in Fields(file[n]), Holds(Upto(n, k)),
           Column(file[n], k) <= MaxCol, Place(<<n, k>>) \notin protected,
           UNCHANGED input, cells' = Written(Place(<<n, k>>), Content(<<n, k>>))
    PROVE  /\ DOMAIN cells' \subseteq (Rows \X Cols) \ protected
           /\ \A l : l = n => Holds(Upto(l, k + 1))'
  <1>1. /\ InputInv /\ n \in 1 .. Len(file) /\ row = start.row + n - 1
        /\ row \in Nat /\ row <= MaxRow
    BY InLineFacts
  <1>2. k \in Nat
    BY <1>1, LineFacts
  <1>3. /\ <<n, k>> \in Wanted /\ Upto(n, k) \subseteq Wanted
        /\ Upto(n, k + 1) = Upto(n, k) \cup {<<n, k>>}
    BY <1>1, <1>2, UptoFacts, WantedAre
  <1>4. Place(<<n, k>>) \in Rows \X Cols
    <2>1. Place(<<n, k>>) = <<row, Column(file[n], k)>>
      BY <1>1 DEF Place
    <2>2. Column(file[n], k) \in Nat
      BY <1>1, <1>2, ColumnFacts
    <2>3. row \in Rows /\ Column(file[n], k) \in Cols
      BY <1>1, <2>2, SheetAssumption DEF Rows, Cols
    <2> QED BY <2>1, <2>3
  <1>5. DOMAIN cells' \subseteq (Rows \X Cols) \ protected
    <2>1. DOMAIN cells' = DOMAIN cells \cup {Place(<<n, k>>)}
      BY DEF Written
    <2>2. DOMAIN cells \subseteq (Rows \X Cols) \ protected
      BY DEF ImportInv, CellsInv
    <2> QED BY <1>4, <2>1, <2>2
  <1>6. ASSUME NEW l, l = n PROVE Holds(Upto(l, k + 1))'
    <2>1. PICK D : D = Upto(l, k)
      OBVIOUS
    <2>2. PICK f : f = <<l, k>>
      OBVIOUS
    <2>3. /\ D \subseteq Wanted /\ Holds(D) /\ f \in Wanted
          /\ cells' = Written(Place(f), Content(f))
      BY <1>3, <1>6, <2>1, <2>2
    <2>4. Holds(D \cup {f})'
      BY <1>1, <2>3, HoldsMore
    <2>5. Upto(l, k + 1)' = D \cup {f}
      <3>1. Upto(l, k + 1)' = Upto(l, k + 1)
        BY SameInput
      <3> QED BY <1>3, <1>6, <2>1, <2>2, <3>1
    <2> QED BY <2>4, <2>5
  <1> QED BY <1>5, <1>6

LEMMA ReadLineKeeps == ImportInv /\ ReadLine => ImportInv'
  <1> SUFFICES ASSUME ImportInv, ReadLine PROVE ImportInv'
    OBVIOUS
  <1>1. /\ pc = "read" /\ UNCHANGED <<input, cells, row, values, handle>>
        /\ values = 0 /\ result = 0 /\ row = start.row + n /\ row <= MaxRow
        /\ Holds(Upto(n + 1, 0))
    BY DEF ReadLine, ImportInv, ControlInv, CellsInv
  <1>2. InputInv /\ Len(file) \in Nat /\ n \in Nat /\ n <= Len(file) /\ start.row \in Nat
    BY InLineFacts
  <1>3. CASE n = Len(file)
    <2>1. pc' = "finished" /\ UNCHANGED <<n, atEnd>>
      BY <1>3 DEF ReadLine, Finishes
    <2>2. \A f \in Wanted \ Upto(n + 1, 0) : Place(f)[1] > MaxRow
      <3> SUFFICES ASSUME NEW f \in Wanted PROVE f \in Upto(n + 1, 0)
        OBVIOUS
      <3>1. f[1] \in 1 .. Len(file)
        BY <1>2, WantedAre
      <3>2. f[1] < n + 1
        BY <1>2, <1>3, <3>1
      <3> QED BY <3>2 DEF Upto
    <2>3. n + 1 \in Nat /\ 0 \in Nat
      BY <1>2
    <2>4. values' = 0
      BY <1>1
    <2> QED BY <1>1, <2>1, <2>2, <2>3, <2>4, Finishing
  <1>4. CASE n # Len(file)
    <2>1. PICK last \in {FALSE, n + 1 = Len(file)} :
             /\ n' = n + 1 /\ atEnd' = last /\ rest' = file[n + 1] /\ rdcol' = FirstCol
             /\ GoesOn(IF file[n + 1] = <<>> THEN "next" ELSE "convert")
      BY <1>4 DEF ReadLine
    <2>2. /\ result' = result
          /\ pc' = IF file[n + 1] = <<>> THEN "next" ELSE "convert"
      BY <2>1 DEF GoesOn
    <2>3. n + 1 \in 1 .. Len(file)
      BY <1>2, <1>4
    <2>4. InputInv' /\ file' = file /\ start' = start
          /\ ((Rows \X Cols) \ protected)' = (Rows \X Cols) \ protected
      BY <1>1, <1>2, SameInput DEF input, Rows, Cols
    <2>5. ControlInv'
      <3>1. n' \in 0 .. Len(file)' /\ n' >= 1 /\ (atEnd' => n' = Len(file)')
        <4>1. n' = n + 1 /\ Len(file') = Len(file)
          BY <2>1, <2>4
        <4>2. atEnd' => n + 1 = Len(file)
          BY <2>1
        <4> QED BY <1>2, <2>3, <4>1, <4>2
      <3>2. row' = start'.row + n' - 1 /\ row' <= MaxRow
        BY <1>1, <1>2, <2>1, <2>4
      <3>3. pc' \in {"convert", "next"} /\ values' = 0 /\ result' = 0
        BY <1>1, <2>2
      <3> QED BY <3>1, <3>2, <3>3 DEF ControlInv, InLine
    <2>6. LineInv'
      BY <2>1, <2>2, <2>4 DEF LineInv, FirstCol
    <2>7. DOMAIN cells' \subseteq ((Rows \X Cols) \ protected)'
      BY <1>1, <2>4 DEF ImportInv, CellsInv
    <2>8. CellsInv'
      <3>1. CASE file[n + 1] # <<>>
        <4>1. PICK l : l = n + 1
          OBVIOUS
        <4>2. Holds(Upto(l, 0))' /\ n' = l
          BY <1>1, <2>1, <4>1, StillHolds
        <4>3. Holds(Upto(n, 0))'
          BY <4>2
        <4> QED BY <2>2, <2>7, <3>1, <4>3 DEF CellsInv
      <3>2. CASE file[n + 1] = <<>>
        <4>1. Upto((n + 1) + 1, 0) = Upto(n + 1, 0)
          <5>1. Len(file[n + 1]) = 0
            BY <3>2
          <5>2. Upto((n + 1) + 1, 0) = Upto(n + 1, 0 + 1)
            BY <1>2, <2>3, <5>1, UptoFacts
          <5> QED BY <1>2, <2>3, <5>2, UptoFacts
        <4>2. PICK l : l = (n + 1) + 1
          OBVIOUS
        <4>3. Holds(Upto(l, 0))' /\ n' + 1 = l
          BY <1>1, <2>1, <4>1, <4>2, StillHolds
        <4>4. Holds(Upto(n + 1, 0))'
          BY <4>3
        <4> QED BY <2>2, <2>7, <3>2, <4>4 DEF CellsInv
      <3> QED BY <3>1, <3>2
    <2> QED BY <2>4, <2>5, <2>6, <2>8 DEF ImportInv
  <1> QED BY <1>3, <1>4

LEMMA ReadFailsKeeps == ImportInv /\ ReadFails => ImportInv'
  <1> SUFFICES ASSUME ImportInv, ReadFails PROVE ImportInv'
    OBVIOUS
  <1>1. /\ pc' = "finished" /\ UNCHANGED <<input, cells, n, atEnd>>
        /\ values' = 0 /\ result' # 0
    BY DEF ReadFails, Finishes, READ_ERROR, ImportInv, ControlInv
  <1> QED BY <1>1, Failing

LEMMA ConvertKeeps == ImportInv /\ Convert => ImportInv'
  <1> SUFFICES ASSUME ImportInv, Convert PROVE ImportInv'
    OBVIOUS
  <1>1. /\ pc = "convert" /\ InLine /\ values = 0
        /\ UNCHANGED <<input, cells, n, row, rdcol, rest, atEnd, values, handle>>
    BY DEF Convert, ImportInv, ControlInv, InLine
  <1>2. CASE Finishes(CONVERSION)
    <2>1. pc' = "finished" /\ result' # 0
      BY <1>2 DEF Finishes, CONVERSION
    <2>2. values' = 0
      BY <1>1
    <2> QED BY <1>1, <2>1, <2>2, Failing
  <1>3. CASE GoesOn(IF textmode THEN "text" ELSE "tokens")
    <2>1. result' = result /\ pc' = IF textmode THEN "text" ELSE "tokens"
      BY <1>3 DEF GoesOn
    <2>2. InputInv' /\ ControlInv' /\ file' = file /\ textmode' = textmode
      BY <1>1, <2>1, StaysInLine
    <2>3. /\ InputInv /\ n \in 1 .. Len(file) /\ file[n] \in Seq(Tok) /\ Len(file[n]) \in Nat
          /\ n \in Nat
      BY <1>1, InLineFacts
    <2>4. file[n] # <<>> /\ rest = file[n] /\ rdcol = start.col /\ Holds(Upto(n, 0))
      BY <1>1 DEF ImportInv, LineInv, CellsInv
    <2>5. At = 1 /\ At' = 1
      BY <1>1, <2>2, <2>3, <2>4 DEF At
    <2>6. LineInv'
      <3>1. Column(file[n], At)' = rdcol'
        <4>1. Column(file[n], 1) = rdcol
          BY <2>3, <2>4, ColumnFacts
        <4>2. \A line, k : Column(line, k)' = Column(line, k)
          BY <1>1, SameInput
        <4> QED BY <1>1, <2>2, <2>5, <4>1, <4>2
      <3>2. \A i \in 1 .. Len(rest') : rest'[i] = file'[n'][At' + i - 1]
        BY <1>1, <2>2, <2>3, <2>4, <2>5
      <3>3. textmode' => pc' = "text"
        BY <2>1, <2>2
      <3>4. rest' \in Seq(Tok) /\ Len(rest') <= Len(file'[n']) /\ file'[n'] # <<>>
        BY <1>1, <2>2, <2>3, <2>4
      <3>5. pc' = "text" => textmode'
        BY <2>1, <2>2
      <3>6. pc' = "text" \/ pc' = "tokens"
        BY <2>1
      <3> QED BY <3>1, <3>2, <3>3, <3>4, <3>5, <3>6 DEF LineInv
    <2>7. DOMAIN cells' \subseteq ((Rows \X Cols) \ protected)'
      BY <1>1, <2>1, StaysInLine DEF ImportInv, CellsInv
    <2>8. Holds(Upto(n, 0))' /\ Holds(Upto(n, At))'
      <3>1. Upto(n, 1) = Upto(n, 0)
        BY <2>3, UptoFacts
      <3>2. PICK l : l = n
        OBVIOUS
      <3>3. Holds(Upto(l, 0))' /\ Holds(Upto(l, 1))'
        BY <1>1, <2>4, <3>1, <3>2, StillHolds
      <3> QED BY <1>1, <2>5, <3>2, <3>3
    <2>9. CellsInv'
      BY <2>1, <2>7, <2>8 DEF CellsInv
    <2> QED BY <2>2, <2>6, <2>9 DEF ImportInv
  <1> QED BY <1>2, <1>3 DEF Convert

LEMMA ImportTextKeeps == ImportInv /\ ImportText => ImportInv'
  <1> SUFFICES ASSUME ImportInv, ImportText PROVE ImportInv'
    OBVIOUS
  <1> DEFINE place == <<row, start.col>>
  <1>1. /\ pc = "text" /\ InLine /\ values = 0
        /\ UNCHANGED <<input, n, row, rdcol, rest, atEnd, values, handle>>
    BY DEF ImportText, ImportInv, ControlInv, InLine
  <1>2. CASE UNCHANGED cells /\ (Finishes(IMMUTABLE) \/ Finishes(MEMORY_FULL))
    <2>1. pc' = "finished" /\ result' # 0
      BY <1>2 DEF Finishes, IMMUTABLE, MEMORY_FULL
    <2>2. values' = 0
      BY <1>1
    <2> QED BY <1>1, <1>2, <2>1, <2>2, Failing
  <1>3. CASE place \notin protected /\ cells' = Written(place, "line") /\ GoesOn("next")
    <2>1. result' = result /\ pc' = "next"
      BY <1>3 DEF GoesOn
    <2>2. /\ InputInv' /\ ControlInv' /\ file' = file
          /\ ((Rows \X Cols) \ protected)' = (Rows \X Cols) \ protected
      BY <1>1, <2>1, StaysInLine
    <2>3. /\ InputInv /\ n \in 1 .. Len(file) /\ file[n] \in Seq(Tok) /\ Len(file[n]) \in Nat
          /\ n \in Nat /\ row = start.row + n - 1 /\ start.row \in Nat /\ start.col <= MaxCol
      BY <1>1, InLineFacts
    <2>4. file[n] # <<>> /\ textmode /\ Holds(Upto(n, 0))
      BY <1>1 DEF ImportInv, LineInv, CellsInv
    <2>5. Len(file[n]) >= 1
      BY <2>3, <2>4, EmptySeq
    <2>6. Fields(file[n]) = {1}
      <3>1. DOMAIN file[n] = 1 .. Len(file[n])
        BY <2>3
      <3>2. \A k : k \in Fields(file[n]) <=> k = 1
        BY <2>3, <2>4, <2>5, <3>1 DEF Fields
      <3> QED BY <3>2
    <2>7. Column(file[n], 1) = start.col /\ Upto(n, 1) = Upto(n, 0)
      BY <2>3, ColumnFacts, UptoFacts
    <2>8. Place(<<n, 1>>) = place /\ Content(<<n, 1>>) = "line"
      BY <2>3, <2>4, <2>7 DEF Place, Content
    <2>9. /\ DOMAIN cells' \subseteq (Rows \X Cols) \ protected
          /\ \A l : l = n => Holds(Upto(l, 1 + 1))'
      BY <1>1, <1>3, <2>3, <2>4, <2>6, <2>7, <2>8, WritesField
    <2>10. Upto(n + 1, 0) = Upto(n, 1 + 1)
      <3>1. Upto(n + 1, 0) = Upto(n, Len(file[n]) + 1)
        BY <2>3, UptoFacts
      <3>2. \A f \in Wanted : f[1] = n => f[2] = 1
        BY <2>3, <2>6, WantedAre
      <3>3. \A f : f \in Upto(n, Len(file[n]) + 1) <=> f \in Upto(n, 2)
        <4>1. 1 < Len(file[n]) + 1 /\ 1 < 2
          BY <2>3, <2>5
        <4> QED BY <3>2, <4>1 DEF Upto
      <3>4. Upto(n, Len(file[n]) + 1) = Upto(n, 2)
        BY <3>3
      <3> QED BY <3>1, <3>4
    <2>11. LineInv'
      BY <2>1 DEF LineInv
    <2>12. CellsInv'
      <3>1. PICK l, m : l = n /\ m = n + 1
        OBVIOUS
      <3>2. Holds(Upto(l, 2))' /\ Upto(m, 0) = Upto(l, 2)
        BY <2>9, <2>10, <3>1
      <3>3. Upto(m, 0)' = Upto(m, 0) /\ Upto(l, 2)' = Upto(l, 2)
        BY <1>1, SameInput
      <3>4. Holds(Upto(m, 0))'
        BY <3>2, <3>3
      <3>5. Holds(Upto(n + 1, 0))'
        BY <1>1, <3>1, <3>4
      <3> QED BY <2>1, <2>2, <2>9, <3>5 DEF CellsInv
    <2> QED BY <2>2, <2>11, <2>12 DEF ImportInv
  <1> QED BY <1>2, <1>3 DEF ImportText

(* The token under the cursor is done with and the next one is looked at.  *)
LEMMA TokenDone ==
    ASSUME ImportInv, pc \in {"tokens", "number"}, rest # <<>>, rest' = Tail(rest),
           pc' = "tokens", values' = 0, UNCHANGED <<input, n, row, atEnd, handle, result>>,
           rdcol' = Column(file[n], At + 1),
           DOMAIN cells' \subseteq (Rows \X Cols) \ protected,
           \A l, k : l = n /\ k = At + 1 => Holds(Upto(l, k))'
    PROVE  ImportInv'
  <1>1. /\ InputInv' /\ ControlInv' /\ file' = file /\ textmode' = textmode
        /\ ((Rows \X Cols) \ protected)' = (Rows \X Cols) \ protected
    BY StaysInLine DEF InLine
  <1>2. /\ n \in 1 .. Len(file) /\ Len(file[n]) \in Nat
        /\ At \in 1 .. Len(file[n]) + 1 /\ At \in DOMAIN file[n]
        /\ Tail(rest) \in Seq(Tok) /\ Len(Tail(rest)) = Len(rest) - 1
        /\ \A i \in 1 .. Len(Tail(rest)) : Tail(rest)[i] = rest[i + 1]
    BY AtFacts
  <1>3. /\ rest \in Seq(Tok) /\ Len(rest) <= Len(file[n]) /\ ~textmode
        /\ \A i \in 1 .. Len(rest) : rest[i] = file[n][At + i - 1]
    BY DEF ImportInv, LineInv
  <1>4. Len(rest) \in Nat /\ At = Len(file[n]) - Len(rest) + 1
    BY <1>3 DEF At
  <1>5. At' = At + 1
    BY <1>1, <1>2, <1>4 DEF At
  <1>6. LineInv'
    <2>1. Column(file[n], At)' = rdcol'
      <3>1. \A line, k : Column(line, k)' = Column(line, k)
        BY SameInput
      <3> QED BY <1>1, <1>5, <3>1
    <2>2. \A i \in 1 .. Len(rest') : rest'[i] = file'[n'][At' + i - 1]
      <3> SUFFICES ASSUME NEW i \in 1 .. Len(Tail(rest))
                   PROVE  Tail(rest)[i] = file[n][At + 1 + i - 1]
        BY <1>1, <1>5
      <3>1. i + 1 \in 1 .. Len(rest) /\ Tail(rest)[i] = rest[i + 1]
        BY <1>2, <1>4
      <3>2. At + (i + 1) - 1 = At + 1 + i - 1
        BY <1>2
      <3> QED BY <1>3, <3>1, <3>2
    <2>3. rest' \in Seq(Tok) /\ Len(rest') <= Len(file'[n'])
      BY <1>1, <1>2, <1>3, <1>4
    <2> QED BY <1>1, <1>3, <2>1, <2>2, <2>3 DEF LineInv
  <1>7. CellsInv'
    <2>1. PICK l, k : l = n /\ k = At + 1
      OBVIOUS
    <2>2. Holds(Upto(l, k))' /\ n' = l /\ At' = k
      BY <1>5, <2>1
    <2>3. Holds(Upto(n, At))'
      BY <2>2
    <2> QED BY <1>1, <2>3 DEF CellsInv
  <1> QED BY <1>1, <1>6, <1>7 DEF ImportInv

(* What the token under the cursor is worth: its field and its column.     *)
LEMMA TokenFacts ==
    ASSUME ImportInv, pc \in {"tokens", "number"}, rest # <<>>
    PROVE  /\ n \in Nat /\ At \in Nat
           /\ rdcol = Column(file[n], At) /\ Holds(Upto(n, At))
           /\ Head(rest) # "other" =>
                 /\ At \in Fields(file[n])
                 /\ Column(file[n], At + 1) = rdcol + 1
                 /\ Place(<<n, At>>) = <<row, rdcol>>
                 /\ Content(<<n, At>>) = Head(rest)
           /\ Head(rest) = "other" =>
                 /\ Column(file[n], At + 1) = rdcol
                 /\ Upto(n, At + 1) = Upto(n, At)
  <1>1. /\ InputInv /\ n \in 1 .. Len(file) /\ row = start.row + n - 1
    BY InLineFacts DEF InLine
  <1>2. /\ n \in Nat /\ At \in Nat /\ Head(rest) = file[n][At]
        /\ At \in Fields(file[n]) <=> Head(rest) # "other"
    <2>1. Len(file) \in Nat
      BY <1>1, LineFacts
    <2>2. /\ Len(file[n]) \in Nat /\ At \in 1 .. Len(file[n]) + 1 /\ Head(rest) = file[n][At]
          /\ At \in Fields(file[n]) <=> Head(rest) # "other"
      BY AtFacts
    <2> QED BY <1>1, <2>1, <2>2
  <1>3. rdcol = Column(file[n], At) /\ Holds(Upto(n, At)) /\ ~textmode
    BY DEF ImportInv, LineInv, CellsInv
  <1>4. /\ Column(file[n], At + 1) = IF At \in Fields(file[n]) THEN rdcol + 1 ELSE rdcol
        /\ At \notin Fields(file[n]) => Upto(n, At + 1) = Upto(n, At)
    BY <1>1, <1>2, <1>3, ColumnFacts, UptoFacts
  <1>5. Place(<<n, At>>) = <<row, rdcol>> /\ Content(<<n, At>>) = Head(rest)
    BY <1>1, <1>2, <1>3 DEF Place, Content
  <1> QED BY <1>2, <1>3, <1>4, <1>5

(* A string or a number becomes the cell of its field.                     *)
LEMMA FieldDone ==
    ASSUME ImportInv, pc \in {"tokens", "number"}, rest # <<>>, rest' = Tail(rest),
           Head(rest) # "other", ~OutOfBounds(rdcol), <<row, rdcol>> \notin protected,
           pc' = "tokens", values' = 0, UNCHANGED <<input, n, row, atEnd, handle, result>>,
           rdcol' = rdcol + 1, cells' = Written(<<row, rdcol>>, Head(rest))
    PROVE  ImportInv'
  <1>1. /\ n \in Nat /\ At \in Nat
        /\ rdcol = Column(file[n], At) /\ Holds(Upto(n, At))
        /\ At \in Fields(file[n])
        /\ Column(file[n], At + 1) = rdcol + 1
        /\ Place(<<n, At>>) = <<row, rdcol>>
        /\ Content(<<n, At>>) = Head(rest)
    BY TokenFacts
  <1>2. InLine
    BY DEF InLine
  <1>3. Column(file[n], At) <= MaxCol
    <2>1. Column(file[n], At) \in Nat
      BY <1>1, <1>2, InLineFacts, ColumnFacts
    <2> QED BY <1>1, <2>1, SheetAssumption DEF OutOfBounds
  <1>4. PICK m : m = At
    OBVIOUS
  <1>5. /\ m \in Fields(file[n]) /\ Holds(Upto(n, m)) /\ Column(file[n], m) <= MaxCol
        /\ Place(<<n, m>>) \notin protected
        /\ cells' = Written(Place(<<n, m>>), Content(<<n, m>>))
    BY <1>1, <1>3, <1>4
  <1>6. /\ DOMAIN cells' \subseteq (Rows \X Cols) \ protected
        /\ \A l : l = n => Holds(Upto(l, m + 1))'
    BY <1>2, <1>5, WritesField
  <1>7. \A l, k : l = n /\ k = At + 1 => Holds(Upto(l, k))'
    BY <1>4, <1>6
  <1> QED BY <1>1, <1>6, <1>7, TokenDone

LEMMA ImportStringKeeps == ImportInv /\ ImportString => ImportInv'
  <1> SUFFICES ASSUME ImportInv, ImportString PROVE ImportInv'
    OBVIOUS
  <1>1. /\ pc = "tokens" /\ rest # <<>> /\ Head(rest) \in {"string", "unclosed"}
        /\ UNCHANGED <<input, n, row, atEnd, values, handle>> /\ values = 0
        /\ rest' = AfterString(rest)
    BY DEF ImportString, ImportInv, ControlInv
  <1>2. CASE UNCHANGED cells /\ \E code \in {OUT_OF_BOUNDS, IMMUTABLE, MEMORY_FULL} : Finishes(code)
    <2>1. pc' = "finished" /\ result' # 0
      BY <1>2 DEF Finishes, OUT_OF_BOUNDS, IMMUTABLE, MEMORY_FULL
    <2>2. values' = 0
      BY <1>1
    <2> QED BY <1>1, <1>2, <2>1, <2>2, Failing
  <1>3. CASE /\ ~OutOfBounds(rdcol) /\ <<row, rdcol>> \notin protected
             /\ rdcol' = rdcol + 1 /\ cells' = Written(<<row, rdcol>>, Head(rest))
             /\ GoesOn("tokens")
    <2>1. rest' = Tail(rest)
      BY <1>1, AtFacts DEF AfterString
    <2>2. pc' = "tokens" /\ result' = result /\ values' = 0 /\ Head(rest) # "other"
      BY <1>1, <1>3 DEF GoesOn
    <2> QED BY <1>1, <1>3, <2>1, <2>2, FieldDone
  <1> QED BY <1>2, <1>3 DEF ImportString

LEMMA ParseNumberKeeps == ImportInv /\ ParseNumber => ImportInv'
  <1> SUFFICES ASSUME ImportInv, ParseNumber PROVE ImportInv'
    OBVIOUS
  <1>1. /\ pc = "tokens" /\ rest # <<>> /\ Head(rest) = "number" /\ values = 0 /\ InLine
        /\ UNCHANGED <<input, cells, n, row, rdcol, rest, atEnd, handle, result>>
        /\ values' = 1 /\ pc' = "number"
    BY DEF ParseNumber, GoesOn, ImportInv, ControlInv, InLine
  <1>2. /\ InputInv' /\ ControlInv' /\ file' = file /\ textmode' = textmode
        /\ ((Rows \X Cols) \ protected)' = (Rows \X Cols) \ protected
    BY <1>1, StaysInLine
  <1>3. At' = At
    BY <1>1, <1>2 DEF At
  <1>4. LineInv'
    <2>1. Column(file[n], At)' = Column(file[n], At)
      <3>1. \A line, k : Column(line, k)' = Column(line, k)
        BY <1>1, SameInput
      <3> QED BY <1>1, <1>2, <1>3, <3>1
    <2> QED BY <1>1, <1>2, <1>3, <2>1 DEF ImportInv, LineInv
  <1>5. CellsInv'
    <2>1. PICK l, k : l = n /\ k = At
      OBVIOUS
    <2>2. Holds(Upto(l, k))
      BY <1>1, <2>1 DEF ImportInv, CellsInv
    <2>3. Holds(Upto(l, k))' /\ n' = l /\ At' = k
      BY <1>1, <1>3, <2>1, <2>2, StillHolds
    <2>4. Holds(Upto(n, At))'
      BY <2>3
    <2>5. DOMAIN cells' \subseteq ((Rows \X Cols) \ protected)'
      BY <1>1, <1>2 DEF ImportInv, CellsInv
    <2> QED BY <1>1, <2>4, <2>5 DEF CellsInv
  <1> QED BY <1>2, <1>4, <1>5 DEF ImportInv

LEMMA ImportNumberKeeps == ImportInv /\ ImportNumber => ImportInv'
  <1> SUFFICES ASSUME ImportInv, ImportNumber PROVE ImportInv'
    OBVIOUS
  <1>1. /\ pc = "number" /\ rest # <<>> /\ Head(rest) = "number" /\ values = 1
        /\ UNCHANGED <<input, n, row, atEnd, handle>>
    BY DEF ImportNumber, ImportInv, ControlInv, LineInv
  <1>2. values' = 0
    BY <1>1 DEF ImportNumber, DropOne
  <1>3. CASE UNCHANGED cells /\ \E code \in {OUT_OF_BOUNDS, IMMUTABLE, MEMORY_FULL} : Finishes(code)
    <2>1. pc' = "finished" /\ result' # 0
      BY <1>3 DEF Finishes, OUT_OF_BOUNDS, IMMUTABLE, MEMORY_FULL
    <2> QED BY <1>1, <1>2, <1>3, <2>1, Failing
  <1>4. CASE /\ ~OutOfBounds(rdcol) /\ <<row, rdcol>> \notin protected
             /\ rdcol' = rdcol + 1 /\ cells' = Written(<<row, rdcol>>, "number")
             /\ rest' = Tail(rest) /\ GoesOn("tokens")
    <2>1. pc' = "tokens" /\ result' = result
      BY <1>4 DEF GoesOn
    <2> QED BY <1>1, <1>2, <1>4, <2>1, FieldDone
  <1> QED BY <1>3, <1>4 DEF ImportNumber

LEMMA SkipOtherKeeps == ImportInv /\ SkipOther => ImportInv'
  <1> SUFFICES ASSUME ImportInv, SkipOther PROVE ImportInv'
    OBVIOUS
  <1>1. /\ pc = "tokens" /\ pc' = "tokens" /\ rest # <<>> /\ Head(rest) = "other"
        /\ rest' = Tail(rest) /\ values' = 0
        /\ UNCHANGED <<input, cells, n, row, rdcol, atEnd, handle, result>>
    BY DEF SkipOther, ImportInv, ControlInv
  <1>2. /\ rdcol' = Column(file[n], At + 1) /\ Holds(Upto(n, At))
        /\ Upto(n, At + 1) = Upto(n, At)
    BY <1>1, TokenFacts
  <1>3. DOMAIN cells' \subseteq (Rows \X Cols) \ protected
    BY <1>1 DEF ImportInv, CellsInv
  <1>4. ASSUME NEW l, NEW k, l = n, k = At + 1 PROVE Holds(Upto(l, k))'
    BY <1>1, <1>2, <1>4, StillHolds
  <1> QED BY <1>1, <1>2, <1>3, <1>4, TokenDone

LEMMA LineDoneKeeps == ImportInv /\ LineDone => ImportInv'
  <1> SUFFICES ASSUME ImportInv, LineDone PROVE ImportInv'
    OBVIOUS
  <1>1. /\ pc = "tokens" /\ pc' = "next" /\ rest = <<>> /\ InLine /\ values' = 0
        /\ UNCHANGED <<input, cells, n, row, rdcol, rest, atEnd, handle, result>>
    BY DEF LineDone, GoesOn, ImportInv, ControlInv, InLine
  <1>2. /\ InputInv' /\ ControlInv'
        /\ ((Rows \X Cols) \ protected)' = (Rows \X Cols) \ protected
    BY <1>1, StaysInLine
  <1>3. LineInv'
    BY <1>1 DEF LineInv
  <1>4. CellsInv'
    <2>1. Upto(n + 1, 0) = Upto(n, At)
      BY <1>1, InLineFacts, AtFacts, UptoFacts
    <2>2. PICK l : l = n + 1
      OBVIOUS
    <2>3. Holds(Upto(l, 0))
      BY <1>1, <2>1, <2>2 DEF ImportInv, CellsInv
    <2>4. Holds(Upto(l, 0))' /\ n' + 1 = l
      BY <1>1, <2>2, <2>3, StillHolds
    <2>5. Holds(Upto(n + 1, 0))'
      BY <2>4
    <2>6. DOMAIN cells' \subseteq ((Rows \X Cols) \ protected)'
      BY <1>1, <1>2 DEF ImportInv, CellsInv
    <2> QED BY <1>1, <2>5, <2>6 DEF CellsInv
  <1> QED BY <1>2, <1>3, <1>4 DEF ImportInv

LEMMA NextRowKeeps == ImportInv /\ NextRow => ImportInv'
  <1> SUFFICES ASSUME ImportInv, NextRow PROVE ImportInv'
    OBVIOUS
  <1>1. /\ pc = "next" /\ InLine /\ values' = 0 /\ result = 0
        /\ UNCHANGED <<input, cells, n, rdcol, rest, atEnd, values, handle>>
    BY DEF NextRow, ImportInv, ControlInv, InLine
  <1>2. /\ InputInv /\ Len(file) \in Nat /\ n \in 1 .. Len(file) /\ row = start.row + n - 1
        /\ row \in Nat /\ start.row \in Nat /\ n + 1 \in Nat
    BY <1>1, InLineFacts
  <1>3. Holds(Upto(n + 1, 0)) /\ (atEnd => n = Len(file))
    BY <1>1 DEF ImportInv, ControlInv, CellsInv
  \* The fields not yet written belong in the rows from the next on.
  <1>4. ASSUME NEW f \in Wanted \ Upto(n + 1, 0)
        PROVE  n # Len(file) /\ Place(f)[1] >= row + 1 /\ Place(f)[1] \in Int
    <2>1. f[1] \in 1 .. Len(file)
      BY <1>2, WantedAre
    <2>2. f[1] >= n + 1
      BY <1>2, <2>1 DEF Upto
    <2> QED BY <1>2, <2>1, <2>2 DEF Place
  <1>5. CASE pc' = "finished" /\ result' = 0 /\ (atEnd \/ LastRow(row + 1))
    <2>1. \A f \in Wanted \ Upto(n + 1, 0) : Place(f)[1] > MaxRow
      BY <1>2, <1>3, <1>4, <1>5, SheetAssumption DEF LastRow
    <2> QED BY <1>1, <1>2, <1>3, <1>5, <2>1, Finishing
  <1>6. CASE ~atEnd /\ row' = row + 1 /\ ~LastRow(row + 1) /\ GoesOn("read")
    <2>1. pc' = "read" /\ result' = 0
      BY <1>1, <1>6 DEF GoesOn
    <2>2. /\ InputInv' /\ file' = file /\ start' = start
          /\ ((Rows \X Cols) \ protected)' = (Rows \X Cols) \ protected
      BY <1>1, <1>2, SameInput DEF input, Rows, Cols
    <2>3. ControlInv'
      <3>1. row' = start'.row + n' /\ row' <= MaxRow
        BY <1>1, <1>2, <1>6, <2>2, SheetAssumption DEF LastRow
      <3>2. n' \in 0 .. Len(file)' /\ (atEnd' => n' = Len(file)')
        BY <1>1, <1>2, <1>3, <2>2
      <3> QED BY <1>1, <2>1, <3>1, <3>2 DEF ControlInv, InLine
    <2>4. LineInv'
      BY <2>1 DEF LineInv
    <2>5. CellsInv'
      <3>1. PICK l : l = n + 1
        OBVIOUS
      <3>2. Holds(Upto(l, 0))' /\ n' + 1 = l
        BY <1>1, <1>3, <3>1, StillHolds
      <3>3. Holds(Upto(n + 1, 0))'
        BY <3>2
      <3>4. DOMAIN cells' \subseteq ((Rows \X Cols) \ protected)'
        BY <1>1, <2>2 DEF ImportInv, CellsInv
      <3> QED BY <2>1, <3>3, <3>4 DEF CellsInv
    <2> QED BY <2>2, <2>3, <2>4, <2>5 DEF ImportInv
  <1> QED BY <1>1, <1>5, <1>6 DEF NextRow, Finishes

LEMMA FinishKeeps == ImportInv /\ Finish => ImportInv'
  <1> SUFFICES ASSUME ImportInv, Finish PROVE ImportInv'
    OBVIOUS
  <1>1. /\ pc = "finished" /\ pc' = "done" /\ handle' = "closed" /\ values' = 0
        /\ UNCHANGED <<input, cells, n, row, rdcol, rest, atEnd, result>>
    BY DEF Finish, ImportInv, ControlInv
  <1>2. InputInv' /\ Wanted' = Wanted
    BY <1>1, SameInput DEF ImportInv
  <1>3. ControlInv'
    BY <1>1 DEF ImportInv, ControlInv, InLine, input
  <1>4. LineInv'
    BY <1>1 DEF LineInv
  <1>5. CellsInv'
    <2>1. PICK l \in Nat, k \in Nat :
             /\ Holds(Upto(l, k))
             /\ result = 0 => \A f \in Wanted \ Upto(l, k) : Place(f)[1] > MaxRow
      BY <1>1 DEF ImportInv, CellsInv
    <2>2. /\ Holds(Upto(l, k))'
          /\ (result = 0 => \A f \in Wanted \ Upto(l, k) : Place(f)[1] > MaxRow)'
      <3>1. Upto(l, k)' = Upto(l, k) /\ \A f : Place(f)' = Place(f)
        BY <1>1, SameInput
      <3> QED BY <1>1, <1>2, <2>1, <3>1, StillHolds
    <2>3. DOMAIN cells' \subseteq ((Rows \X Cols) \ protected)'
      BY <1>1 DEF ImportInv, CellsInv, input, Rows, Cols
    <2> QED BY <1>1, <2>2, <2>3 DEF CellsInv, InLine
  <1> QED BY <1>2, <1>3, <1>4, <1>5 DEF ImportInv

LEMMA StepKeeps == ImportInv /\ [Next]_vars => ImportInv'
  <1> SUFFICES ASSUME ImportInv, [Next]_vars PROVE ImportInv'
    OBVIOUS
  <1>1. CASE Next
    BY <1>1, OpenKeeps, ReadLineKeeps, ReadFailsKeeps, ConvertKeeps, ImportTextKeeps,
       ImportStringKeeps, ParseNumberKeeps, ImportNumberKeeps, SkipOtherKeeps,
       LineDoneKeeps, NextRowKeeps, FinishKeeps DEF Next
  <1>2. CASE UNCHANGED vars
    <2> USE <1>2 DEF vars
    <2>1. UNCHANGED <<input, cells>> /\ Wanted' = Wanted /\ InputInv'
      BY SameInput DEF input, ImportInv
    <2>2. ControlInv'
      BY DEF ImportInv, ControlInv, InLine
    <2>3. LineInv'
      BY DEF ImportInv, LineInv, At, Column, Fields
    <2>4. CellsInv'
      <3>1. \A l, k : Holds(Upto(l, k)) => Holds(Upto(l, k))'
        BY <2>1, StillHolds
      <3>2. \A l, k, f : Upto(l, k)' = Upto(l, k) /\ Place(f)' = Place(f)
        BY <2>1, SameInput
      <3>3. At' = At /\ UNCHANGED <<pc, n, result, cells, protected>>
        BY DEF At
      <3> HIDE <1>2
      <3>4. pc' \in {"open", "read", "next"} => Holds(Upto(n + 1, 0))'
        <4>1. PICK l : l = n + 1
          OBVIOUS
        <4> QED BY <3>1, <3>3, <4>1 DEF ImportInv, CellsInv
      <3>5. pc' \in {"convert", "text"} => Holds(Upto(n, 0))'
        <4>1. PICK l : l = n
          OBVIOUS
        <4> QED BY <3>1, <3>3, <4>1 DEF ImportInv, CellsInv
      <3>6. pc' \in {"tokens", "number"} => Holds(Upto(n, At))'
        <4>1. PICK l, k : l = n /\ k = At
          OBVIOUS
        <4> QED BY <3>1, <3>3, <4>1 DEF ImportInv, CellsInv
      <3>7. ASSUME pc' \in {"finished", "done"}
            PROVE  (\E l, k \in Nat :
                       /\ Holds(Upto(l, k))
                       /\ result = 0 => \A f \in Wanted \ Upto(l, k) : Place(f)[1] > MaxRow)'
        BY <2>1, <3>1, <3>2, <3>3, <3>7 DEF ImportInv, CellsInv
      <3>8. DOMAIN cells' \subseteq ((Rows \X Cols) \ protected)'
        BY <3>3 DEF ImportInv, CellsInv, Rows, Cols
      <3> QED BY <3>4, <3>5, <3>6, <3>7, <3>8 DEF CellsInv
    <2> QED BY <2>1, <2>2, <2>3, <2>4 DEF ImportInv
  <1> QED BY <1>1, <1>2
-----------------------------------------------------------------------------
(* The theorems. *)

LEMMA ImportIsInvariant == Spec => []ImportInv
  BY InitHolds, StepKeeps, PTL DEF Spec

(* import.c: whatever step fails, the cells written are those of a first   *)
(* part of the file, each in its place, on the sheet and not protected:    *)
(* for every file, sheet, start and set of protected cells.                *)
THEOREM ImportWritesAPrefix == Spec => []PrefixWritten
  <1>1. ImportInv => PrefixWritten
    BY PrefixIsWritten
  <1> QED BY <1>1, ImportIsInvariant, PTL

(* An import that reports success has written every field the sheet has a  *)
(* row for.                                                                *)
THEOREM SuccessMeansAll == Spec => []SuccessIsComplete
  <1>1. ImportInv => SuccessIsComplete
    BY SuccessIs
  <1> QED BY <1>1, ImportIsInvariant, PTL

(* On every way out the value stack is as it was and the file is closed.   *)
THEOREM ImportLeavesNothing == Spec => []LeavesNothing
  <1>1. ImportInv => LeavesNothing
    BY NothingIsLeft
  <1> QED BY <1>1, ImportIsInvariant, PTL

-----------------------------------------------------------------------------
(* Sums.  SumFunctionOnSet is a fold over a set, and a fold is a recursive  *)
(* function over the subsets: what it adds up to is found by looking at    *)
(* the smallest set where it would not.                                    *)

LEMMA LeastNat ==
    ASSUME NEW S \in SUBSET Nat, S # {}
    PROVE  \E x \in S : \A y \in S : ~(y < x)
  <1>1. PICK x \in S : \A y \in S : ~ (<<y, x>> \in OpToRel(<, Nat))
    BY WFMin, NatLessThanWellFounded
  <1>2. \A y \in S : ~(y < x)
    BY <1>1 DEF OpToRel
  <1> QED BY <1>2

(* Where the fold goes on from a set, and what it is for a function to be the fold over the sets
   of up to m elements. *)
Chosen(s) == CHOOSE x \in s : TRUE
Turn(f, u, s) == IF s = {} THEN 0 ELSE f[Chosen(s)] + u[s \ {Chosen(s)}]
IsFold(f, S, u) == u = [s \in SUBSET S |-> Turn(f, u, s)]

LEMMA ChosenIn == ASSUME NEW s, s # {} PROVE Chosen(s) \in s
  BY DEF Chosen

(* The fold exists: the sets of up to m elements have one for every m. *)
LEMMA SumExists ==
    ASSUME NEW S, IsFiniteSet(S), NEW f
    PROVE  \E u : IsFold(f, S, u)
  <1> DEFINE Small(m) == {s \in SUBSET S : Cardinality(s) <= m}
             IsSum(u, m) == u = [s \in Small(m) |-> Turn(f, u, s)]
             Bad == {m \in Nat : \A u : ~IsSum(u, m)}
  <1>0. \A s \in SUBSET S : IsFiniteSet(s) /\ Cardinality(s) \in Nat /\ Cardinality(s) <= Cardinality(S)
    BY FS_Subset, FS_CardinalityType
  <1>1. ASSUME NEW s \in SUBSET S, s # {}
        PROVE  s \ {Chosen(s)} \in SUBSET S /\ Cardinality(s \ {Chosen(s)}) = Cardinality(s) - 1
    BY <1>0, <1>1, ChosenIn, FS_RemoveElement
  <1>2. Bad = {}
    <2> SUFFICES ASSUME Bad # {} PROVE FALSE
      OBVIOUS
    <2>0. Bad \in SUBSET Nat
      OBVIOUS
    <2>1. PICK m \in Bad : \A y \in Bad : ~(y < m)
      BY <2>0, LeastNat
    <2>2. CASE m = 0
      <3>1. \A s \in Small(0) : s = {}
        <4>1. \A s \in SUBSET S : Cardinality(s) <= 0 => Cardinality(s) = 0
          BY <1>0
        <4> QED BY <1>0, <4>1, FS_EmptySet
      <3> DEFINE z == [s \in Small(0) |-> 0]
      <3>2. \A s \in Small(0) : z[s] = Turn(f, z, s)
        BY <3>1 DEF Turn
      <3>3. IsSum(z, 0)
        BY <3>2
      <3> QED BY <2>1, <2>2, <3>3
    <2>3. CASE m > 0
      <3>1. m \in Nat /\ m - 1 \in Nat /\ m - 1 < m
        BY <2>0, <2>1, <2>3
      <3>2. m - 1 \notin Bad
        <4> HIDE DEF Bad
        <4> QED BY <2>1, <3>1
      <3>3. PICK u : IsSum(u, m - 1)
        BY <3>1, <3>2
      <3> DEFINE v == [s \in Small(m) |-> Turn(f, u, s)]
      <3>4. \A s \in Small(m - 1) : s \in Small(m) /\ v[s] = u[s]
        <4>1. \A s \in Small(m - 1) : s \in Small(m)
          BY <1>0, <3>1
        <4>2. \A s \in Small(m - 1) : u[s] = Turn(f, u, s)
          BY <3>3
        <4> QED BY <4>1, <4>2
      <3>5. ASSUME NEW s \in Small(m)
            PROVE  Turn(f, v, s) = Turn(f, u, s)
        <4>1. CASE s = {}
          BY <4>1 DEF Turn
        <4>2. CASE s # {}
          <5>1. s \ {Chosen(s)} \in Small(m - 1)
            <6>1. s \in SUBSET S /\ Cardinality(s) <= m
              OBVIOUS
            <6>2. Cardinality(s) - 1 <= m - 1
              BY <1>0, <3>1, <6>1
            <6> QED BY <1>1, <4>2, <6>1, <6>2
          <5>2. v[s \ {Chosen(s)}] = u[s \ {Chosen(s)}]
            BY <3>4, <5>1
          <5> HIDE DEF v
          <5> QED BY <4>2, <5>2 DEF Turn
        <4> QED BY <4>1, <4>2
      <3>6. IsSum(v, m)
        <4>1. v = [s \in Small(m) |-> Turn(f, v, s)]
          BY <3>5, Zenon
        <4> QED BY <4>1
      <3> QED BY <2>1, <3>6
    <2> QED BY <2>0, <2>1, <2>2, <2>3
  <1>3. Cardinality(S) \in Nat
    BY FS_CardinalityType
  <1>4. PICK u : IsSum(u, Cardinality(S))
    BY <1>2, <1>3, ZenonT(60)
  <1>5. Small(Cardinality(S)) = SUBSET S
    BY <1>0
  <1> QED BY <1>4, <1>5, Zenon DEF IsFold

LEMMA SumIs ==
    ASSUME NEW S, IsFiniteSet(S), NEW f
    PROVE  \E u : IsFold(f, S, u) /\ SumFunctionOnSet(f, S) = u[S]
  <1> DEFINE u == CHOOSE v : IsFold(f, S, v)
  <1>1. SumFunctionOnSet(f, S) = u[S]
    BY DEF SumFunctionOnSet, FoldFunctionOnSet, MapThenFoldSet, IsFold, Chosen, Turn
  <1>2. IsFold(f, S, u)
    BY SumExists
  <1> QED BY <1>1, <1>2

(* Any element may be taken off a fold first. *)
LEMMA FoldTakes ==
    ASSUME NEW S, IsFiniteSet(S), NEW f, \A x \in S : f[x] \in Nat,
           NEW u, IsFold(f, S, u)
    PROVE  /\ \A s \in SUBSET S : u[s] \in Nat
           /\ \A s \in SUBSET S : \A x \in s : u[s] = f[x] + u[s \ {x}]
  <1> DEFINE Right(s) == u[s] \in Nat /\ \A x \in s : u[s] = f[x] + u[s \ {x}]
             Bad == {m \in Nat : \E s \in SUBSET S : Cardinality(s) = m /\ ~Right(s)}
  <1>0. \A s \in SUBSET S : IsFiniteSet(s) /\ Cardinality(s) \in Nat
    BY FS_Subset, FS_CardinalityType
  <1>1. ASSUME NEW s \in SUBSET S, NEW x \in s
        PROVE  s \ {x} \in SUBSET S /\ Cardinality(s \ {x}) = Cardinality(s) - 1
    BY <1>0, FS_RemoveElement
  <1>2. \A s \in SUBSET S : u[s] = Turn(f, u, s)
    BY DEF IsFold
  <1>3. Bad = {}
    <2> SUFFICES ASSUME Bad # {} PROVE FALSE
      OBVIOUS
    <2>0. Bad \in SUBSET Nat
      OBVIOUS
    <2>1. PICK m \in Bad : \A y \in Bad : ~(y < m)
      BY <2>0, LeastNat
    <2>2. PICK s \in SUBSET S : Cardinality(s) = m /\ ~Right(s)
      BY <2>1
    <2>3. ASSUME NEW t \in SUBSET S, Cardinality(t) < m
          PROVE  Right(t)
      <3>1. Cardinality(t) \in Nat /\ Cardinality(t) \notin Bad
        <4> HIDE DEF Bad
        <4> QED BY <1>0, <2>1, <2>3
      <3> HIDE DEF Right
      <3> QED BY <3>1
    <2>4. CASE s = {}
      BY <1>2, <2>2, <2>4 DEF Turn
    <2>5. CASE s # {}
      <3> DEFINE c == Chosen(s)
                 t == s \ {c}
      <3>1. c \in s /\ c \in S
        BY <2>5, ChosenIn
      <3>2. u[s] = f[c] + u[t]
        BY <1>2, <2>5 DEF Turn
      <3>3. m \in Nat /\ t \in SUBSET S /\ Cardinality(t) = m - 1
        BY <1>1, <2>0, <2>2, <3>1
      <3> HIDE DEF c, t
      <3>4. Cardinality(t) < m
        BY <3>3
      <3>5. Right(t)
        <4> HIDE DEF Right
        <4> QED BY <2>3, <3>3, <3>4
      <3>6. u[s] \in Nat
        BY <3>1, <3>2, <3>5
      <3>7. ASSUME NEW x \in s
            PROVE  u[s] = f[x] + u[s \ {x}]
        <4>1. CASE x = c
          BY <3>2, <4>1 DEF t
        <4>2. CASE x # c
          <5> DEFINE r == s \ {x}
          <5>1. x \in t /\ c \in r /\ r \ {c} = t \ {x}
            BY <3>1, <4>2 DEF t
          <5>2. r \in SUBSET S /\ Cardinality(r) = m - 1
            BY <1>1, <2>2
          <5> HIDE DEF r
          <5>3. Cardinality(r) < m
            BY <3>3, <5>2
          <5>4. Right(r)
            <6> HIDE DEF Right
            <6> QED BY <2>3, <5>2, <5>3
          <5>5. u[t] = f[x] + u[t \ {x}] /\ u[r] = f[c] + u[r \ {c}]
            BY <3>5, <5>1, <5>4
          <5>6. t \ {x} \in SUBSET S /\ Cardinality(t \ {x}) < m
            BY <1>0, <1>1, <3>3, <5>1
          <5>7. u[t \ {x}] \in Nat
            <6>1. Right(t \ {x})
              <7> HIDE DEF Right
              <7> QED BY <2>3, <5>6
            <6> QED BY <6>1
          <5> DEFINE a == u[t \ {x}]
          <5>8. a \in Nat /\ f[x] \in Nat /\ f[c] \in Nat /\ u[r] = f[c] + a /\ u[s] = f[c] + (f[x] + a)
            BY <3>1, <3>2, <5>1, <5>5, <5>7
          <5> HIDE DEF a
          <5>9. u[s] = f[x] + u[r]
            BY <5>8
          <5> QED BY <5>9 DEF r
        <4> QED BY <4>1, <4>2
      <3> QED BY <2>2, <3>6, <3>7
    <2> QED BY <2>4, <2>5
  <1>4. \A s \in SUBSET S : Right(s)
    <2> HIDE DEF Right
    <2> QED BY <1>0, <1>3
  <1> QED BY <1>4

(* Two folds over the same elements agree. *)
LEMMA FoldsAgree ==
    ASSUME NEW S, IsFiniteSet(S), NEW R, IsFiniteSet(R), NEW f, NEW g,
           \A x \in S : f[x] \in Nat, \A x \in S \cap R : g[x] = f[x], \A x \in R : g[x] \in Nat,
           NEW u, IsFold(f, S, u),
           NEW v, IsFold(g, R, v)
    PROVE  \A s \in SUBSET (S \cap R) : u[s] = v[s]
  <1> DEFINE Bad == {m \in Nat : \E s \in SUBSET (S \cap R) : Cardinality(s) = m /\ u[s] # v[s]}
  <1>0. \A s \in SUBSET (S \cap R) : s \in SUBSET S /\ s \in SUBSET R /\ IsFiniteSet(s) /\ Cardinality(s) \in Nat
    <2>1. \A s \in SUBSET (S \cap R) : s \in SUBSET S /\ s \in SUBSET R
      OBVIOUS
    <2> QED BY <2>1, FS_Subset, FS_CardinalityType
  <1>1. \A s \in SUBSET (S \cap R) : u[s] = Turn(f, u, s) /\ v[s] = Turn(g, v, s)
    BY <1>0 DEF IsFold
  <1>2. Bad = {}
    <2> SUFFICES ASSUME Bad # {} PROVE FALSE
      OBVIOUS
    <2>0. Bad \in SUBSET Nat
      OBVIOUS
    <2>1. PICK m \in Bad : \A y \in Bad : ~(y < m)
      BY <2>0, LeastNat
    <2>2. PICK s \in SUBSET (S \cap R) : Cardinality(s) = m /\ u[s] # v[s]
      BY <2>1
    <2>3. s # {}
      BY <1>1, <2>2 DEF Turn
    <2> DEFINE c == Chosen(s)
               t == s \ {c}
    <2>4. c \in s /\ c \in S \cap R
      BY <2>3, ChosenIn
    <2>5. m \in Nat /\ t \in SUBSET (S \cap R) /\ Cardinality(t) = m - 1
      BY <1>0, <2>0, <2>2, <2>4, FS_RemoveElement
    <2>6. u[s] = f[c] + u[t] /\ v[s] = g[c] + v[t]
      BY <1>1, <2>3 DEF Turn
    <2> HIDE DEF c, t
    <2>7. Cardinality(t) \in Nat /\ Cardinality(t) < m
      BY <1>0, <2>5
    <2>8. Cardinality(t) \notin Bad
      <3> HIDE DEF Bad
      <3> QED BY <2>1, <2>7
    <2>9. u[t] = v[t]
      BY <2>5, <2>7, <2>8
    <2> QED BY <2>2, <2>4, <2>6, <2>9
  <1> QED BY <1>0, <1>2

(* What a proof needs of a sum: the empty one, one element more, its type. *)
LEMMA SumFacts ==
    ASSUME NEW S, IsFiniteSet(S), NEW f, \A x \in S : f[x] \in Nat
    PROVE  /\ SumFunctionOnSet(f, S) \in Nat
           /\ S = {} => SumFunctionOnSet(f, S) = 0
           /\ \A x \in S : SumFunctionOnSet(f, S) = f[x] + SumFunctionOnSet(f, S \ {x})
  <1>1. PICK u : IsFold(f, S, u) /\ SumFunctionOnSet(f, S) = u[S]
    BY SumIs
  <1>2. S \in SUBSET S
    OBVIOUS
  <1>3. /\ \A s \in SUBSET S : u[s] \in Nat
        /\ \A s \in SUBSET S : \A x \in s : u[s] = f[x] + u[s \ {x}]
    BY <1>1, FoldTakes
  <1>4. ASSUME NEW x \in S
        PROVE  SumFunctionOnSet(f, S) = f[x] + SumFunctionOnSet(f, S \ {x})
    <2> DEFINE T == S \ {x}
    <2>1. T \in SUBSET S /\ IsFiniteSet(T)
      BY FS_Subset
    <2>2. \A y \in T : f[y] \in Nat
      OBVIOUS
    <2>3. u[S] = f[x] + u[T]
      BY <1>2, <1>3
    <2> HIDE DEF T
    <2>4. PICK v : IsFold(f, T, v) /\ SumFunctionOnSet(f, T) = v[T]
      BY <2>1, SumIs
    <2>5. u[T] = v[T]
      <3>1. T \in SUBSET (S \cap T)
        BY <2>1
      <3>2. \A s \in SUBSET (S \cap T) : u[s] = v[s]
        BY <1>1, <2>1, <2>2, <2>4, FoldsAgree
      <3> QED BY <3>1, <3>2
    <2> QED BY <1>1, <2>3, <2>4, <2>5 DEF T
  <1>5. S = {} => u[S] = 0
    BY <1>1 DEF IsFold, Turn
  <1> QED BY <1>1, <1>2, <1>3, <1>4, <1>5

(* A sum is that of the values at the elements. *)
LEMMA SumsAgree ==
    ASSUME NEW S, IsFiniteSet(S), NEW f, NEW g, \A x \in S : f[x] \in Nat /\ g[x] = f[x]
    PROVE  SumFunctionOnSet(g, S) = SumFunctionOnSet(f, S)
  <1>1. PICK u : IsFold(f, S, u) /\ SumFunctionOnSet(f, S) = u[S]
    BY SumIs
  <1>2. PICK v : IsFold(g, S, v) /\ SumFunctionOnSet(g, S) = v[S]
    BY SumIs
  <1>3. \A s \in SUBSET (S \cap S) : u[s] = v[s]
    BY <1>1, <1>2, FoldsAgree
  <1> QED BY <1>1, <1>2, <1>3

-----------------------------------------------------------------------------
(* Formats.  The first k items take so many bytes and stand for so many     *)
(* formats; the loop of fmtcpy is always at the start of an item.          *)

(* Bytes of the first k items. *)
ItemBytes(items, k) == Bytes(SubSeq(items, 1, k))

(* What the items stand for, one by one: the sequences that Expansion joins. *)
CopyCount(items, len, i) ==
    IF len - ItemBytes(items, i - 1) < WordSize THEN 0
    ELSE IF items[i].run /\ len - ItemBytes(items, i - 1) > WordSize THEN items[i].reps + 1
    ELSE 1
CopySeqs(items, len) == [i \in DOMAIN items |-> [k \in 1 .. CopyCount(items, len, i) |-> items[i].fmt]]

LEMMA ItemFacts ==
    ASSUME NEW items \in Seq(Item)
    PROVE  /\ Len(items) \in Nat
           /\ \A i \in 1 .. Len(items) : /\ items[i] \in Item
                                         /\ items[i].fmt \in Nat /\ items[i].run \in BOOLEAN
                                         /\ items[i].reps \in Nat
                                         /\ ItemSize(items[i]) \in {4, 5}
                                         /\ ItemSize(items[i]) = IF items[i].run THEN 5 ELSE 4
  <1>1. Len(items) \in Nat
    BY LenProperties
  <1>2. ASSUME NEW i \in 1 .. Len(items)
        PROVE  items[i] \in Item
    BY ElementOfSeq
  <1>3. ASSUME NEW i \in 1 .. Len(items)
        PROVE  /\ items[i].fmt \in Nat /\ items[i].run \in BOOLEAN
               /\ items[i].reps \in 0 .. 255
    BY <1>2 DEF Item
  <1>4. ASSUME NEW i \in 1 .. Len(items)
        PROVE  /\ ItemSize(items[i]) \in {4, 5}
               /\ ItemSize(items[i]) = IF items[i].run THEN 5 ELSE 4
    BY <1>3 DEF ItemSize, WordSize
  <1>5. \A m \in 0 .. 255 : m \in Nat
    OBVIOUS
  <1> QED BY <1>1, <1>2, <1>3, <1>4, <1>5

(* The bytes of one item more. *)
LEMMA ItemBytesFacts ==
    ASSUME NEW items \in Seq(Item)
    PROVE  /\ \A k \in 0 .. Len(items) : ItemBytes(items, k) \in Nat
           /\ ItemBytes(items, 0) = 0
           /\ \A k \in 1 .. Len(items) : ItemBytes(items, k) = ItemBytes(items, k - 1) + ItemSize(items[k])
           /\ ItemBytes(items, Len(items)) = Bytes(items)
  <1> DEFINE size == [i \in DOMAIN items |-> ItemSize(items[i])]
  <1>1. Len(items) \in Nat /\ DOMAIN items = 1 .. Len(items)
    BY LenProperties
  <1>2. \A i \in 1 .. Len(items) : size[i] = ItemSize(items[i]) /\ size[i] \in Nat
    BY <1>1, ItemFacts
  <1> HIDE DEF size
  <1>3. ASSUME NEW k \in 0 .. Len(items)
        PROVE  /\ IsFiniteSet(1 .. k) /\ \A i \in 1 .. k : size[i] \in Nat
               /\ ItemBytes(items, k) = SumFunctionOnSet(size, 1 .. k)
    <2> DEFINE part == SubSeq(items, 1, k)
               psize == [i \in DOMAIN part |-> ItemSize(part[i])]
    <2>1. k \in Nat /\ k <= Len(items) /\ \A i \in 1 .. k : i \in 1 .. Len(items)
      BY <1>1
    <2>2. \A i \in 1 .. k : items[i] \in Item
      BY <2>1, ItemFacts
    <2>3. part \in Seq(Item) /\ Len(part) = k /\ \A i \in 1 .. k : part[i] = items[i]
      <3>1. /\ part \in Seq(Item) /\ Len(part) = IF 1 <= k THEN k - 1 + 1 ELSE 0
            /\ \A i \in 1 .. k - 1 + 1 : part[i] = items[1 + i - 1]
        <4> HIDE DEF part
        <4> QED BY <2>1, <2>2, SubSeqProperties DEF part
      <3>2. k - 1 + 1 = k /\ (~(1 <= k) => k = 0) /\ \A i \in 1 .. k : 1 + i - 1 = i
        BY <2>1
      <3> HIDE DEF part
      <3> QED BY <3>1, <3>2
    <2>4. DOMAIN part = 1 .. k
      BY <2>3, LenProperties
    <2> HIDE DEF part
    <2>5. \A i \in 1 .. k : psize[i] = size[i]
      BY <1>2, <2>1, <2>3, <2>4
    <2>6. ItemBytes(items, k) = SumFunctionOnSet(psize, 1 .. k)
      <3>1. DOMAIN psize = 1 .. k
        BY <2>4
      <3>2. Bytes(part) = SumFunction(psize)
        BY DEF Bytes
      <3> HIDE DEF psize
      <3> QED BY <3>1, <3>2 DEF ItemBytes, SumFunction, part
    <2>7. IsFiniteSet(1 .. k)
      BY <2>1, FS_Interval
    <2> HIDE DEF psize
    <2>8. \A i \in 1 .. k : size[i] \in Nat
      BY <1>2, <2>1
    <2> QED BY <2>5, <2>6, <2>7, <2>8, SumsAgree
  <1>4. ASSUME NEW k \in 0 .. Len(items)
        PROVE  ItemBytes(items, k) \in Nat /\ (k = 0 => ItemBytes(items, k) = 0)
    BY <1>3, SumFacts
  <1>5. ASSUME NEW k \in 1 .. Len(items)
        PROVE  ItemBytes(items, k) = ItemBytes(items, k - 1) + ItemSize(items[k])
    <2>1. k \in 0 .. Len(items) /\ k - 1 \in 0 .. Len(items) /\ (1 .. k) \ {k} = 1 .. (k - 1) /\ k \in 1 .. k
      BY <1>1
    <2>2. SumFunctionOnSet(size, 1 .. k) = size[k] + SumFunctionOnSet(size, 1 .. (k - 1))
      BY <1>3, <2>1, SumFacts, ZenonT(60)
    <2>3. ItemBytes(items, k) = size[k] + ItemBytes(items, k - 1)
      BY <1>3, <2>1, <2>2
    <2>4. ItemBytes(items, k - 1) \in Nat /\ size[k] \in Nat /\ size[k] = ItemSize(items[k])
      BY <1>2, <1>4, <2>1
    <2> QED BY <2>3, <2>4
  <1>6. ItemBytes(items, Len(items)) = Bytes(items)
    BY SubSeqFull DEF ItemBytes
  <1> QED BY <1>1, <1>4, <1>5, <1>6

LEMMA ItemBytesGrow ==
    ASSUME NEW items \in Seq(Item), NEW k \in 0 .. Len(items), NEW m \in 0 .. Len(items), k <= m
    PROVE  ItemBytes(items, k) <= ItemBytes(items, m)
  <1> DEFINE Bad == {i \in 0 .. Len(items) : k <= i /\ ~(ItemBytes(items, k) <= ItemBytes(items, i))}
  <1>0. Len(items) \in Nat
    BY LenProperties
  <1> SUFFICES ASSUME Bad # {} PROVE FALSE
    OBVIOUS
  <1>1. Bad \in SUBSET Nat
    OBVIOUS
  <1>2. PICK i \in Bad : \A y \in Bad : ~(y < i)
    BY <1>1, LeastNat
  <1>3. i \in 0 .. Len(items) /\ k <= i /\ ~(ItemBytes(items, k) <= ItemBytes(items, i)) /\ k \in Nat
    BY <1>2
  <1>4. i # k
    BY <1>3, ItemBytesFacts
  <1>5. i \in 1 .. Len(items) /\ i - 1 \in 0 .. Len(items) /\ k <= i - 1 /\ i - 1 < i
    BY <1>0, <1>3, <1>4
  <1>6. i - 1 \notin Bad
    <2> HIDE DEF Bad
    <2> QED BY <1>2, <1>5
  <1>7. ItemBytes(items, k) <= ItemBytes(items, i - 1)
    BY <1>5, <1>6
  <1>8. /\ ItemBytes(items, i) = ItemBytes(items, i - 1) + ItemSize(items[i])
        /\ ItemBytes(items, i - 1) \in Nat /\ ItemBytes(items, k) \in Nat
        /\ ItemSize(items[i]) \in {4, 5}
    BY <1>5, ItemBytesFacts, ItemFacts
  <1> QED BY <1>3, <1>7, <1>8
-----------------------------------------------------------------------------
(* F[i] joins the first i of some sequences. *)
Joins(seqs, F) ==
    /\ F \in [0 .. Len(seqs) -> Seq(Nat)]
    /\ F[0] = <<>>
    /\ \A i \in 1 .. Len(seqs) : F[i] = F[i - 1] \o seqs[i]

LEMMA FlattenTurns ==
    ASSUME NEW seqs \in Seq(Seq(Nat))
    PROVE  \E F : Joins(seqs, F) /\ FlattenSeq(seqs) = F[Len(seqs)]
  <1> DEFINE k == Len(seqs)
             Step(t, i) == IF i = 1 THEN seqs[i] ELSE t[i - 1] \o seqs[i]
             IsFlat(t, m) == t \in [1 .. m -> Seq(Nat)] /\ \A i \in 1 .. m : t[i] = Step(t, i)
             Bad == {m \in 0 .. k : \A t : ~IsFlat(t, m)}
  <1>0. k \in Nat /\ \A i \in 1 .. k : seqs[i] \in Seq(Nat)
    BY LenProperties, ElementOfSeq
  <1> HIDE DEF k
  <1>1. Bad = {}
    <2> SUFFICES ASSUME Bad # {} PROVE FALSE
      OBVIOUS
    <2>0. Bad \in SUBSET Nat
      OBVIOUS
    <2>1. PICK m \in Bad : \A y \in Bad : ~(y < m)
      BY <2>0, LeastNat
    <2>2. CASE m = 0
      <3>1. IsFlat(<<>>, 0)
        OBVIOUS
      <3> QED BY <2>1, <2>2, <3>1
    <2>3. CASE m > 0
      <3>0. m \in 0 .. k
        BY <2>1
      <3>1. m - 1 \in 0 .. k /\ m \in 1 .. k /\ m - 1 \notin Bad
        <4>1. m - 1 \in 0 .. k /\ m \in 1 .. k /\ m - 1 < m
          BY <1>0, <2>3, <3>0
        <4> HIDE DEF Bad
        <4> QED BY <2>1, <4>1
      <3>2. PICK t : IsFlat(t, m - 1)
        BY <3>1
      <3> DEFINE v == [i \in 1 .. m |-> IF i = m THEN Step(t, m) ELSE t[i]]
      <3>3. Step(t, m) \in Seq(Nat)
        <4>1. CASE m = 1
          BY <1>0, <3>1, <4>1
        <4>2. CASE m # 1
          <5>1. m - 1 \in 1 .. m - 1
            BY <3>0, <3>1, <4>2
          <5>2. t[m - 1] \in Seq(Nat) /\ seqs[m] \in Seq(Nat)
            BY <1>0, <3>1, <3>2, <5>1
          <5> QED BY <4>2, <5>2, ConcatProperties
        <4> QED BY <4>1, <4>2
      <3>4. v \in [1 .. m -> Seq(Nat)]
        <4>1. \A i \in 1 .. m : i # m => i \in 1 .. m - 1
          BY <3>0
        <4> HIDE DEF Step
        <4> QED BY <3>2, <3>3, <4>1
      <3>5. ASSUME NEW i \in 1 .. m PROVE v[i] = Step(v, i)
        <4>1. i # 1 => i - 1 \in 1 .. m /\ i - 1 # m /\ i - 1 \in 1 .. m - 1
          BY <3>0
        <4>2. i # 1 => v[i - 1] = t[i - 1]
          BY <4>1
        <4>3. i # m => i \in 1 .. m - 1
          BY <3>0
        <4>4. v[i] = Step(t, i)
          <5> HIDE DEF Step
          <5> QED BY <3>2, <4>3
        <4> HIDE DEF v
        <4> QED BY <4>2, <4>4
      <3> QED BY <2>1, <3>4, <3>5
    <2> QED BY <2>0, <2>1, <2>2, <2>3
  <1>2. PICK t : IsFlat(t, k)
    <2>1. k \in 0 .. k
      BY <1>0
    <2> QED BY <1>1, <2>1
  <1> DEFINE F == [i \in 0 .. k |-> IF i = 0 THEN <<>> ELSE t[i]]
  <1>3. Joins(seqs, F)
    <2>1. F \in [0 .. k -> Seq(Nat)]
      <3>1. \A i \in 0 .. k : i # 0 => i \in 1 .. k
        BY <1>0
      <3>2. <<>> \in Seq(Nat)
        OBVIOUS
      <3> QED BY <1>2, <3>1, <3>2
    <2>2. ASSUME NEW i \in 1 .. k PROVE F[i] = F[i - 1] \o seqs[i]
      <3>1. i \in 0 .. k /\ i # 0 /\ i - 1 \in 0 .. k /\ (i - 1 = 0 <=> i = 1)
        BY <1>0
      <3>2. F[i] = t[i] /\ F[i - 1] = IF i = 1 THEN <<>> ELSE t[i - 1]
        BY <3>1
      <3>3. t[i] = Step(t, i)
        BY <1>2
      <3>4. <<>> \o seqs[i] = seqs[i]
        BY <1>0, ConcatEmptySeq
      <3> HIDE DEF F
      <3> QED BY <3>2, <3>3, <3>4
    <2>3. F[0] = <<>>
      BY <1>0
    <2> HIDE DEF F
    <2> QED BY <2>1, <2>2, <2>3 DEF Joins, k
  <1>4. FlattenSeq(seqs) = F[k]
    <2>1. CASE k = 0
      <3>1. seqs = <<>>
        BY <2>1, EmptySeq DEF k
      <3> QED BY <2>1, <3>1 DEF FlattenSeq, k
    <2>2. CASE k # 0
      <3> DEFINE IsF(u) == u = [i \in 1 .. k |-> Step(u, i)]
                 u == CHOOSE w : IsF(w)
      <3>1. FlattenSeq(seqs) = u[k]
        BY <2>2 DEF FlattenSeq, k
      <3>2. IsF(t)
        BY <1>2
      <3>3. IsF(u)
        <4> HIDE DEF IsF
        <4> QED BY <3>2
      <3> HIDE DEF u
      <3>4. \A i \in 1 .. k : u[i] = Step(u, i) /\ t[i] = Step(t, i)
        BY <1>2, <3>3
      <3>5. \A i \in 1 .. k : u[i] = t[i]
        <4> DEFINE Wrong == {i \in 1 .. k : u[i] # t[i]}
        <4> SUFFICES ASSUME Wrong # {} PROVE FALSE
          OBVIOUS
        <4>0. Wrong \in SUBSET Nat
          OBVIOUS
        <4>1. PICK i \in Wrong : \A y \in Wrong : ~(y < i)
          BY <4>0, LeastNat
        <4>2. i \in 1 .. k /\ u[i] # t[i]
          BY <4>1
        <4>3. i # 1
          BY <3>4, <4>2
        <4>4. i - 1 \in 1 .. k /\ i - 1 < i
          BY <1>0, <4>2, <4>3
        <4>5. i - 1 \notin Wrong
          <5> HIDE DEF Wrong
          <5> QED BY <4>1, <4>4
        <4>6. u[i - 1] = t[i - 1]
          BY <4>4, <4>5
        <4> QED BY <3>4, <4>2, <4>3, <4>6
      <3>6. k \in 1 .. k /\ k \in 0 .. k
        BY <1>0, <2>2
      <3>7. F[k] = t[k]
        BY <2>2, <3>6
      <3> QED BY <3>1, <3>5, <3>6, <3>7
    <2> QED BY <2>1, <2>2
  <1> QED BY <1>3, <1>4 DEF k

(* A longer join begins with a shorter one. *)
LEMMA JoinGrows ==
    ASSUME NEW seqs \in Seq(Seq(Nat)), NEW F, Joins(seqs, F),
           NEW k \in 0 .. Len(seqs), NEW m \in 0 .. Len(seqs), k <= m
    PROVE  Len(F[k]) <= Len(F[m]) /\ \A q \in 1 .. Len(F[k]) : F[m][q] = F[k][q]
  <1> DEFINE Begins(i) == Len(F[k]) <= Len(F[i]) /\ \A q \in 1 .. Len(F[k]) : F[i][q] = F[k][q]
             Bad == {i \in 0 .. Len(seqs) : k <= i /\ ~Begins(i)}
  <1>0. Len(seqs) \in Nat /\ \A i \in 1 .. Len(seqs) : seqs[i] \in Seq(Nat)
    BY LenProperties, ElementOfSeq
  <1>a. \A i \in 0 .. Len(seqs) : F[i] \in Seq(Nat) /\ Len(F[i]) \in Nat
    BY LenProperties DEF Joins
  <1> SUFFICES ASSUME Bad # {} PROVE FALSE
    OBVIOUS
  <1>1. Bad \in SUBSET Nat
    OBVIOUS
  <1>2. PICK i \in Bad : \A y \in Bad : ~(y < i)
    BY <1>1, LeastNat
  <1>3. i \in 0 .. Len(seqs) /\ k <= i /\ ~Begins(i) /\ k \in Nat
    BY <1>2
  <1>4. i # k
    BY <1>3, <1>a
  <1>5. i \in 1 .. Len(seqs) /\ i - 1 \in 0 .. Len(seqs) /\ k <= i - 1 /\ i - 1 < i
    BY <1>0, <1>3, <1>4
  <1>6. i - 1 \notin Bad
    <2> HIDE DEF Bad
    <2> QED BY <1>2, <1>5
  <1>7. Begins(i - 1)
    BY <1>5, <1>6
  <1>8. F[i] = F[i - 1] \o seqs[i]
    BY <1>5 DEF Joins
  <1>9. /\ Len(F[i]) = Len(F[i - 1]) + Len(seqs[i])
        /\ \A q \in 1 .. Len(F[i - 1]) + Len(seqs[i]) :
              F[i][q] = IF q <= Len(F[i - 1]) THEN F[i - 1][q] ELSE seqs[i][q - Len(F[i - 1])]
    <2> DEFINE s == F[i - 1]
               t == seqs[i]
    <2>1. s \in Seq(Nat) /\ t \in Seq(Nat) /\ F[i] = s \o t
      BY <1>0, <1>a, <1>5, <1>8
    <2> HIDE DEF s, t
    <2>2. /\ Len(F[i]) = Len(s) + Len(t)
          /\ \A q \in 1 .. Len(s) + Len(t) : F[i][q] = IF q <= Len(s) THEN s[q] ELSE t[q - Len(s)]
      BY <2>1, ConcatProperties
    <2> QED BY <2>2 DEF s, t
  <1>10. Len(F[i - 1]) \in Nat /\ Len(F[k]) \in Nat /\ Len(seqs[i]) \in Nat
    BY <1>0, <1>a, <1>5, LenProperties
  <1>b. Len(F[k]) <= Len(F[i - 1]) /\ Len(F[i]) = Len(F[i - 1]) + Len(seqs[i])
    BY <1>7, <1>9
  <1> DEFINE a == Len(F[k])
             b == Len(F[i - 1])
             d == Len(seqs[i])
  <1>c. a \in Nat /\ b \in Nat /\ d \in Nat /\ a <= b /\ Len(F[i]) = b + d
    BY <1>b, <1>10
  <1>11. Len(F[k]) <= Len(F[i])
    <2> HIDE DEF a, b, d, Begins
    <2>1. a <= b + d
      BY <1>c
    <2> QED BY <1>c, <2>1 DEF a
  <1>12. \A q \in 1 .. Len(F[k]) : F[i][q] = F[k][q]
    <2>1. \A q \in 1 .. Len(F[k]) : q \in 1 .. Len(F[i - 1]) + Len(seqs[i]) /\ q <= Len(F[i - 1])
      <3> HIDE DEF a, b, d, Begins
      <3>1. \A q \in 1 .. a : q \in 1 .. b + d /\ q <= b
        BY <1>c
      <3> QED BY <3>1 DEF a, b, d
    <2> QED BY <1>7, <1>9, <2>1
  <1> QED BY <1>3, <1>11, <1>12

(* Empty sequences add nothing. *)
LEMMA JoinStays ==
    ASSUME NEW seqs \in Seq(Seq(Nat)), NEW F, Joins(seqs, F),
           NEW k \in 0 .. Len(seqs), \A i \in k + 1 .. Len(seqs) : seqs[i] = <<>>
    PROVE  F[Len(seqs)] = F[k]
  <1> DEFINE Bad == {i \in 0 .. Len(seqs) : k <= i /\ F[i] # F[k]}
  <1>0. Len(seqs) \in Nat
    BY LenProperties
  <1>a. \A i \in 0 .. Len(seqs) : F[i] \in Seq(Nat)
    BY DEF Joins
  <1>b. Bad = {}
    <2> SUFFICES ASSUME Bad # {} PROVE FALSE
      OBVIOUS
    <2>1. Bad \in SUBSET Nat
      OBVIOUS
    <2>2. PICK i \in Bad : \A y \in Bad : ~(y < i)
      BY <2>1, LeastNat
    <2>3. i \in 0 .. Len(seqs) /\ k <= i /\ F[i] # F[k] /\ k \in Nat
      BY <2>2
    <2>4. i # k
      BY <2>3
    <2>5. i \in 1 .. Len(seqs) /\ i \in k + 1 .. Len(seqs) /\ i - 1 \in 0 .. Len(seqs) /\ k <= i - 1 /\ i - 1 < i
      BY <1>0, <2>3, <2>4
    <2>6. i - 1 \notin Bad
      <3> HIDE DEF Bad
      <3> QED BY <2>2, <2>5
    <2>7. F[i - 1] = F[k]
      BY <2>5, <2>6
    <2>8. F[i] = F[i - 1] \o <<>>
      BY <2>5 DEF Joins
    <2>9. F[i - 1] \o <<>> = F[i - 1]
      BY <1>a, <2>5, ConcatEmptySeq
    <2> QED BY <2>3, <2>7, <2>8, <2>9
  <1>1. Len(seqs) \in 0 .. Len(seqs) /\ k <= Len(seqs)
    BY <1>0
  <1> QED BY <1>b, <1>1

LEMMA CopySeqFacts ==
    ASSUME NEW items \in Seq(Item), NEW len \in Nat
    PROVE  /\ CopySeqs(items, len) \in Seq(Seq(Nat))
           /\ Len(CopySeqs(items, len)) = Len(items)
           /\ \A i \in 1 .. Len(items) :
                 /\ CopyCount(items, len, i) \in Nat
                 /\ CopySeqs(items, len)[i] = [m \in 1 .. CopyCount(items, len, i) |-> items[i].fmt]
                 /\ Len(CopySeqs(items, len)[i]) = CopyCount(items, len, i)
  <1> DEFINE Count(i) == CopyCount(items, len, i)
             Copied1(i) == [m \in 1 .. Count(i) |-> items[i].fmt]
  <1>1. Len(items) \in Nat /\ DOMAIN items = 1 .. Len(items)
    BY LenProperties
  <1>2. ASSUME NEW i \in 1 .. Len(items)
        PROVE  Count(i) \in Nat
    BY ItemFacts DEF CopyCount
  <1>3. \A i \in 1 .. Len(items) : items[i].fmt \in Nat
    BY ItemFacts
  <1> HIDE DEF Count
  <1>4. \A i \in 1 .. Len(items) : Copied1(i) \in Seq(Nat) /\ Len(Copied1(i)) = Count(i)
    BY <1>2, <1>3
  <1>5. CopySeqs(items, len) = [i \in 1 .. Len(items) |-> Copied1(i)]
    BY <1>1 DEF CopySeqs, Count
  <1> HIDE DEF Copied1
  <1>6. CopySeqs(items, len) \in Seq(Seq(Nat)) /\ Len(CopySeqs(items, len)) = Len(items)
    BY <1>1, <1>4, <1>5
  <1>7. \A i \in 1 .. Len(items) : CopySeqs(items, len)[i] = Copied1(i)
    BY <1>5
  <1> QED BY <1>2, <1>4, <1>6, <1>7 DEF Count, Copied1

LEMMA ExpansionIs ==
    ASSUME NEW items \in Seq(Item), NEW len \in Nat
    PROVE  \E F : Joins(CopySeqs(items, len), F) /\ Expansion(items, len) = F[Len(items)]
  <1>1. Expansion(items, len) = FlattenSeq(CopySeqs(items, len))
    BY DEF Expansion, CopySeqs, CopyCount, ItemBytes
  <1> DEFINE seqs == CopySeqs(items, len)
  <1>2. seqs \in Seq(Seq(Nat)) /\ Len(seqs) = Len(items)
    BY CopySeqFacts
  <1> HIDE DEF seqs
  <1>3. PICK F : Joins(seqs, F) /\ FlattenSeq(seqs) = F[Len(seqs)]
    BY <1>2, FlattenTurns
  <1> QED BY <1>1, <1>2, <1>3 DEF seqs
-----------------------------------------------------------------------------
(* After k items: what is left of the source and of its length, and what was stored, which is
   all that these items stand for. *)
AtItem(k) ==
    LET items == given.items
    IN  /\ src \in Seq(Item) /\ Len(src) = Len(items) - k
        /\ \A i \in 1 .. Len(src) : src[i] = items[k + i]
        /\ \/ src_len = given.len - ItemBytes(items, k)
           \/ src_len = 0 /\ given.len < ItemBytes(items, k)
        /\ \A F : Joins(CopySeqs(items, given.len), F) => dst = F[k]

FmtInv ==
    /\ turn \in {"idle", "loop", "done"}
    /\ given.items \in Seq(Item) /\ given.len \in 0 .. Bytes(given.items)
    /\ src_len \in Nat /\ dptr \in Nat /\ dst \in Seq(Nat)
    /\ turn = "idle" => dst = <<>> /\ dptr = 0
    /\ turn = "loop" =>
          /\ dptr = Len(dst) /\ dptr <= DstMax
          /\ \E k \in 0 .. Len(given.items) : AtItem(k)
    /\ turn = "done" => FormatsRight

LEMMA FmtTypes ==
    ASSUME FmtInv
    PROVE  /\ given.items \in Seq(Item) /\ Len(given.items) \in Nat
           /\ given.len \in Nat /\ given.len <= Bytes(given.items) /\ Bytes(given.items) \in Nat
  <1>1. given.items \in Seq(Item) /\ given.len \in 0 .. Bytes(given.items)
    BY DEF FmtInv
  <1>2. Len(given.items) \in Nat /\ Bytes(given.items) \in Nat
    <2>1. Len(given.items) \in Nat
      BY <1>1, LenProperties
    <2>2. Len(given.items) \in 0 .. Len(given.items)
      BY <2>1
    <2> QED BY <1>1, <2>1, <2>2, ItemBytesFacts
  <1> QED BY <1>1, <1>2

(* There is an item in hand as long as the loop turns; what it stands for. *)
LEMMA InHandIs ==
    ASSUME FmtInv, Turns, NEW k \in 0 .. Len(given.items), AtItem(k)
    PROVE  /\ k + 1 \in 1 .. Len(given.items)
           /\ src # <<>> /\ InHand = given.items[k + 1] /\ InHand \in Item
           /\ src_len = given.len - ItemBytes(given.items, k)
           /\ ItemBytes(given.items, k) \in Nat
           /\ ItemBytes(given.items, k + 1) = ItemBytes(given.items, k) + ItemSize(InHand)
           /\ CopyCount(given.items, given.len, k + 1) =
                 IF InHand.run /\ src_len > WordSize THEN InHand.reps + 1 ELSE 1
           /\ InHand.fmt \in Nat /\ InHand.run \in BOOLEAN /\ InHand.reps \in Nat
  <1> DEFINE items == given.items
             N == Len(items)
             A == ItemBytes(items, k)
  <1>1. /\ items \in Seq(Item) /\ N \in Nat /\ given.len \in Nat /\ given.len <= Bytes(items)
        /\ Bytes(items) \in Nat
    BY FmtTypes
  <1>2. src_len >= 4 /\ src_len \in Nat
    BY DEF Turns, WordSize, FmtInv
  <1>3. src_len = given.len - A
    BY <1>2 DEF AtItem
  <1>4. A \in Nat
    BY <1>1, ItemBytesFacts
  <1>5. k # N
    <2> SUFFICES ASSUME k = N PROVE FALSE
      OBVIOUS
    <2>1. A = Bytes(items)
      BY <1>1, ItemBytesFacts
    <2> DEFINE b == Bytes(items)
    <2>2. b = A /\ b \in Nat
      BY <1>1, <2>1
    <2> HIDE DEF A, b
    <2> QED BY <1>1, <1>2, <1>3, <2>2 DEF b
  <1>6. k + 1 \in 1 .. N /\ k + 1 - 1 = k
    BY <1>1, <1>5
  <1>7. Len(src) = N - k /\ src \in Seq(Item) /\ \A i \in 1 .. Len(src) : src[i] = items[k + i]
    BY DEF AtItem
  <1>8. 1 \in 1 .. Len(src)
    BY <1>6, <1>7
  <1>9. src # <<>> /\ InHand = items[k + 1]
    BY <1>7, <1>8 DEF InHand
  <1>10. items[k + 1] \in Item /\ items[k + 1].fmt \in Nat /\ items[k + 1].run \in BOOLEAN /\ items[k + 1].reps \in Nat
    BY <1>1, <1>6, ItemFacts
  <1>11. ItemBytes(items, k + 1) = A + ItemSize(InHand)
    BY <1>1, <1>6, <1>9, ItemBytesFacts
  <1>12. CopyCount(items, given.len, k + 1) =
            IF InHand.run /\ src_len > WordSize THEN InHand.reps + 1 ELSE 1
    <2>1. ~(src_len < WordSize)
      BY <1>2 DEF WordSize
    <2> HIDE DEF A
    <2> QED BY <1>3, <1>6, <1>9, <2>1 DEF CopyCount, A
  <1> QED BY <1>3, <1>4, <1>6, <1>9, <1>10, <1>11, <1>12

(* An item more: what was stored goes on with what it stands for. *)
LEMMA NextItem ==
    ASSUME FmtInv, Turns, NEW k \in 0 .. Len(given.items), AtItem(k),
           NEW c \in Nat, c = CopyCount(given.items, given.len, k + 1)
    PROVE  /\ dst \o Copies(c) \in Seq(Nat) /\ Len(dst \o Copies(c)) = Len(dst) + c
           /\ \A F : Joins(CopySeqs(given.items, given.len), F) => dst \o Copies(c) = F[k + 1]
  <1> DEFINE items == given.items
             cs == CopySeqs(items, given.len)
  <1>1. /\ k + 1 \in 1 .. Len(items) /\ InHand = items[k + 1] /\ InHand.fmt \in Nat
        /\ items \in Seq(Item) /\ given.len \in Nat /\ dst \in Seq(Nat)
    BY InHandIs, FmtTypes DEF FmtInv
  <1>2. Copies(c) \in Seq(Nat) /\ Len(Copies(c)) = c
    BY <1>1 DEF Copies
  <1>3. dst \o Copies(c) \in Seq(Nat) /\ Len(dst \o Copies(c)) = Len(dst) + c
    BY <1>1, <1>2, ConcatProperties, ZenonT(60)
  <1>4. cs[k + 1] = Copies(c) /\ Len(cs) = Len(items)
    <2>1. Len(cs) = Len(items)
      BY <1>1, CopySeqFacts
    <2>2. cs[k + 1] = [m \in 1 .. CopyCount(items, given.len, k + 1) |-> items[k + 1].fmt]
      BY <1>1, CopySeqFacts
    <2> HIDE DEF cs
    <2> QED BY <1>1, <2>1, <2>2 DEF Copies
  <1>5. ASSUME NEW F, Joins(cs, F) PROVE dst \o Copies(c) = F[k + 1]
    <2>1. dst = F[k]
      BY <1>5 DEF AtItem
    <2>2. k + 1 - 1 = k
      BY <1>1
    <2> HIDE DEF cs
    <2>3. F[k + 1] = F[k] \o cs[k + 1]
      <3>1. \A i \in 1 .. Len(cs) : F[i] = F[i - 1] \o cs[i]
        BY <1>5 DEF Joins
      <3>2. k + 1 \in 1 .. Len(cs)
        BY <1>1, <1>4
      <3>3. PICK j \in 1 .. Len(cs) : j = k + 1
        BY <3>2
      <3>4. F[j] = F[j - 1] \o cs[j]
        BY <3>1
      <3>5. j - 1 = k
        BY <2>2, <3>3
      <3> QED BY <3>3, <3>4, <3>5
    <2> QED BY <1>4, <2>1, <2>3
  <1> QED BY <1>3, <1>5

(* What the loop leaves when it ends after k items. *)
LEMMA StoredIsFirst ==
    ASSUME FmtInv, NEW k \in 0 .. Len(given.items), AtItem(k), dptr = Len(dst)
    PROVE  /\ Expansion(given.items, given.len) \in Seq(Nat)
           /\ Len(dst) <= Len(Expansion(given.items, given.len))
           /\ \A q \in 1 .. Len(dst) : Expansion(given.items, given.len)[q] = dst[q]
           /\ k < Len(given.items) =>
                Len(dst) + CopyCount(given.items, given.len, k + 1) <= Len(Expansion(given.items, given.len))
           /\ src_len < WordSize => dst = Expansion(given.items, given.len)
  <1> DEFINE items == given.items
             N == Len(items)
             cs == CopySeqs(items, given.len)
  <1>1. items \in Seq(Item) /\ N \in Nat /\ given.len \in Nat
    BY FmtTypes
  <1>2. /\ cs \in Seq(Seq(Nat)) /\ Len(cs) = N
        /\ \A i \in 1 .. N : cs[i] \in Seq(Nat) /\ Len(cs[i]) = CopyCount(items, given.len, i)
    <2>1. cs \in Seq(Seq(Nat)) /\ Len(cs) = N
      BY <1>1, CopySeqFacts
    <2>2. \A i \in 1 .. N : Len(cs[i]) = CopyCount(items, given.len, i)
      BY <1>1, CopySeqFacts
    <2> HIDE DEF cs
    <2> QED BY <2>1, <2>2, ElementOfSeq
  <1>3. PICK F : Joins(cs, F) /\ Expansion(items, given.len) = F[N]
    BY <1>1, ExpansionIs
  <1>4. dst = F[k]
    BY <1>3 DEF AtItem
  <1> HIDE DEF cs
  <1>5. N \in 0 .. N /\ k <= N /\ k \in Nat
    BY <1>1
  <1>6. F \in [0 .. N -> Seq(Nat)]
    BY <1>2, <1>3 DEF Joins
  <1>7. Len(F[k]) <= Len(F[N]) /\ \A q \in 1 .. Len(F[k]) : F[N][q] = F[k][q]
    <2>1. k \in 0 .. Len(cs) /\ N \in 0 .. Len(cs)
      BY <1>2, <1>5
    <2>2. cs \in Seq(Seq(Nat)) /\ Joins(cs, F) /\ k <= N
      BY <1>2, <1>3, <1>5
    <2> HIDE DEF items, N
    <2> QED BY <2>1, <2>2, JoinGrows
  <1>8. ASSUME k < N
        PROVE  Len(dst) + CopyCount(items, given.len, k + 1) <= Len(F[N])
    <2>1. k + 1 \in 1 .. N /\ k + 1 \in 0 .. N /\ k + 1 - 1 = k /\ k + 1 <= N
      BY <1>1, <1>5, <1>8
    <2>2. F[k + 1] = F[k] \o cs[k + 1]
      <3>1. \A i \in 1 .. Len(cs) : F[i] = F[i - 1] \o cs[i]
        BY <1>3 DEF Joins
      <3>2. k + 1 \in 1 .. Len(cs)
        BY <1>2, <2>1
      <3>3. PICK j \in 1 .. Len(cs) : j = k + 1
        BY <3>2
      <3>4. F[j] = F[j - 1] \o cs[j]
        BY <3>1
      <3>5. j - 1 = k
        BY <2>1, <3>3
      <3> QED BY <3>3, <3>4, <3>5
    <2>3. F[k] \in Seq(Nat) /\ cs[k + 1] \in Seq(Nat)
      BY <1>2, <1>6, <2>1
    <2>4. Len(F[k + 1]) = Len(F[k]) + Len(cs[k + 1])
      BY <2>2, <2>3, ConcatProperties
    <2>5. Len(F[k + 1]) <= Len(F[N])
      <3>1. k + 1 \in 0 .. Len(cs) /\ N \in 0 .. Len(cs)
        BY <1>2, <1>5, <2>1
      <3> QED BY <1>2, <1>3, <2>1, <3>1, JoinGrows
    <2> QED BY <1>2, <1>4, <2>1, <2>4, <2>5
  <1>9. ASSUME src_len < WordSize
        PROVE  F[N] = F[k]
    <2>1. given.len - ItemBytes(items, k) < 4 /\ ItemBytes(items, k) \in Nat
      <3>1. ItemBytes(items, k) \in Nat
        BY <1>1, ItemBytesFacts
      <3>2. src_len < 4
        BY <1>9 DEF WordSize
      <3>3. \/ src_len = given.len - ItemBytes(items, k)
            \/ src_len = 0 /\ given.len < ItemBytes(items, k)
        BY DEF AtItem
      <3> QED BY <1>1, <3>1, <3>2, <3>3
    <2>2. ASSUME NEW i \in k + 1 .. N
          PROVE  cs[i] = <<>>
      <3>1. i \in 1 .. N /\ i - 1 \in 0 .. N /\ k <= i - 1
        BY <1>1, <1>5
      <3>2. ItemBytes(items, k) <= ItemBytes(items, i - 1) /\ ItemBytes(items, i - 1) \in Nat
        BY <1>1, <3>1, ItemBytesGrow, ItemBytesFacts
      <3>3. given.len - ItemBytes(items, i - 1) < WordSize
        BY <1>1, <2>1, <3>2 DEF WordSize
      <3>4. CopyCount(items, given.len, i) = 0
        BY <3>3 DEF CopyCount
      <3> QED BY <1>2, <3>1, <3>4, EmptySeq
    <2> QED BY <1>2, <1>3, <2>2, JoinStays
  <1>10. F[N] \in Seq(Nat)
    BY <1>5, <1>6
  <1> QED BY <1>3, <1>4, <1>7, <1>8, <1>9, <1>10

(* FormatsRight once the loop has ended there. *)
LEMMA PrefixOf ==
    ASSUME NEW s \in Seq(Nat), NEW m \in 0 .. Len(s), NEW t \in Seq(Nat), m <= Len(t),
           \A q \in 1 .. m : t[q] = s[q]
    PROVE  IsPrefix(SubSeq(s, 1, m), t)
  <1> DEFINE b == SubSeq(s, 1, m)
  <1>1. Len(s) \in Nat /\ m \in Nat /\ m <= Len(s) /\ Len(t) \in Nat
    BY LenProperties
  <1>2. b \in Seq(Nat) /\ Len(b) = m /\ \A q \in 1 .. m : b[q] = s[q]
    <2>1. \A q \in 1 .. m : s[q] \in Nat
      BY <1>1, ElementOfSeq
    <2>2. \A q \in 1 .. m : 1 + q - 1 = q
      BY <1>1
    <2>3. m - 1 + 1 = m /\ (~(1 <= m) => m = 0)
      BY <1>1
    <2>4. /\ SubSeq(s, 1, m) \in Seq(Nat) /\ Len(SubSeq(s, 1, m)) = IF 1 <= m THEN m - 1 + 1 ELSE 0
          /\ \A q \in 1 .. m - 1 + 1 : SubSeq(s, 1, m)[q] = s[1 + q - 1]
      BY <1>1, <2>1, SubSeqProperties
    <2> HIDE DEF b
    <2> QED BY <2>2, <2>3, <2>4 DEF b
  <1>3. SubSeq(t, 1, m) \in Seq(Nat) /\ Len(SubSeq(t, 1, m)) = m /\ \A q \in 1 .. m : SubSeq(t, 1, m)[q] = t[q]
    <2>1. \A q \in 1 .. m : t[q] \in Nat
      BY <1>1, ElementOfSeq
    <2>2. \A q \in 1 .. m : 1 + q - 1 = q
      BY <1>1
    <2>3. m - 1 + 1 = m /\ (~(1 <= m) => m = 0)
      BY <1>1
    <2>4. /\ SubSeq(t, 1, m) \in Seq(Nat) /\ Len(SubSeq(t, 1, m)) = IF 1 <= m THEN m - 1 + 1 ELSE 0
          /\ \A q \in 1 .. m - 1 + 1 : SubSeq(t, 1, m)[q] = t[1 + q - 1]
      BY <1>1, <2>1, SubSeqProperties
    <2> QED BY <2>2, <2>3, <2>4
  <1> HIDE DEF b
  <1>4. SubSeq(t, 1, m) = b
    BY <1>2, <1>3, SeqEqual
  <1>5. SubSeq(b, 1, Len(b)) = b
    BY <1>2, SubSeqFull
  <1> QED BY <1>1, <1>2, <1>4, <1>5 DEF IsPrefix, b

-----------------------------------------------------------------------------
(* Each step of the loop. *)

(* Reading the item in hand leaves the rest of the source. *)
LEMMA RestOfSource ==
    ASSUME FmtInv, Turns, NEW k \in 0 .. Len(given.items), AtItem(k)
    PROVE  /\ Tail(src) \in Seq(Item) /\ Len(Tail(src)) = Len(given.items) - (k + 1)
           /\ \A i \in 1 .. Len(Tail(src)) : Tail(src)[i] = given.items[k + 1 + i]
  <1>1. src # <<>> /\ k + 1 \in 1 .. Len(given.items) /\ Len(given.items) \in Nat
    BY InHandIs, FmtTypes
  <1>2. /\ src \in Seq(Item) /\ Len(src) = Len(given.items) - k
        /\ \A i \in 1 .. Len(src) : src[i] = given.items[k + i]
    BY DEF AtItem
  <1>3. /\ Tail(src) \in Seq(Item) /\ Len(Tail(src)) = Len(src) - 1
        /\ \A i \in 1 .. Len(Tail(src)) : Tail(src)[i] = src[i + 1]
    BY <1>1, <1>2, HeadTailProperties
  <1>4. Len(Tail(src)) = Len(given.items) - (k + 1)
    BY <1>1, <1>2, <1>3
  <1>5. ASSUME NEW i \in 1 .. Len(Tail(src))
        PROVE  Tail(src)[i] = given.items[k + 1 + i]
    <2>1. i + 1 \in 1 .. Len(src) /\ k + (i + 1) = k + 1 + i
      BY <1>1, <1>2, <1>3
    <2>2. src[i + 1] = given.items[k + (i + 1)]
      BY <1>2, <2>1, Zenon
    <2> QED BY <1>3, <2>1, <2>2
  <1> QED BY <1>3, <1>4, <1>5

(* The loop after one item more, when the length goes down with it. *)
LEMMA LoopGoesOn ==
    ASSUME FmtInv, Turns, dptr = Len(dst), NEW k \in 0 .. Len(given.items), AtItem(k),
           NEW c \in Nat, c = CopyCount(given.items, given.len, k + 1), dptr + c <= DstMax,
           dst' = dst \o Copies(c), dptr' = dptr + c,
           src' = Tail(src), given' = given, turn' = turn,
           src_len' \in Nat,
           \/ src_len' = given.len - ItemBytes(given.items, k + 1)
           \/ src_len' = 0 /\ given.len < ItemBytes(given.items, k + 1)
    PROVE  FmtInv'
  <1>1. /\ Tail(src) \in Seq(Item) /\ Len(Tail(src)) = Len(given.items) - (k + 1)
        /\ \A i \in 1 .. Len(Tail(src)) : Tail(src)[i] = given.items[k + 1 + i]
    BY RestOfSource
  <1>2. /\ dst \o Copies(c) \in Seq(Nat) /\ Len(dst \o Copies(c)) = Len(dst) + c
        /\ \A F : Joins(CopySeqs(given.items, given.len), F) => dst \o Copies(c) = F[k + 1]
    BY NextItem
  <1>3. k + 1 \in 0 .. Len(given.items)
    BY InHandIs, FmtTypes
  <1>4. AtItem(k + 1)'
    BY <1>1, <1>2 DEF AtItem
  <1>5. /\ given'.items \in Seq(Item) /\ given'.len \in 0 .. Bytes(given'.items)
        /\ dptr' \in Nat /\ dst' \in Seq(Nat) /\ dptr' = Len(dst')
    <2>1. dptr \in Nat
      BY DEF FmtInv
    <2>2. dptr + c \in Nat
      BY <2>1
    <2>3. dptr' = Len(dst')
      BY <1>2
    <2> QED BY <1>2, <2>2, <2>3 DEF FmtInv
  <1>6. turn = "loop"
    BY DEF Turns
  <1> QED BY <1>3, <1>4, <1>5, <1>6 DEF FmtInv

LEMMA CopyFormatStep == FmtInv /\ CopyFormat => FmtInv'
  <1> SUFFICES ASSUME FmtInv, CopyFormat PROVE FmtInv'
    OBVIOUS
  <1>0. Turns /\ turn = "loop" /\ src_len >= 4 /\ src_len \in Nat /\ dptr < DstMax /\ dptr \in Nat
    BY DEF CopyFormat, Turns, FmtInv, WordSize
  <1>1. dptr = Len(dst) /\ \E k \in 0 .. Len(given.items) : AtItem(k)
    BY <1>0 DEF FmtInv
  <1>2. PICK k \in 0 .. Len(given.items) : AtItem(k)
    BY <1>1
  <1>3. /\ InHand = given.items[k + 1] /\ InHand \in Item /\ given.items \in Seq(Item)
        /\ src_len = given.len - ItemBytes(given.items, k)
        /\ ItemBytes(given.items, k) \in Nat /\ given.len \in Nat
        /\ ItemBytes(given.items, k + 1) = ItemBytes(given.items, k) + ItemSize(InHand)
        /\ CopyCount(given.items, given.len, k + 1) =
              IF InHand.run /\ src_len > WordSize THEN InHand.reps + 1 ELSE 1
        /\ k + 1 \in 1 .. Len(given.items) /\ InHand.run \in BOOLEAN
    BY <1>0, <1>2, InHandIs, FmtTypes
  <1>4. ~InHand.run \/ src_len = 4
    BY DEF CopyFormat, WordSize
  <1>5. CopyCount(given.items, given.len, k + 1) = 1
    BY <1>3, <1>4 DEF WordSize
  <1>6. ItemSize(InHand) = IF InHand.run THEN 5 ELSE 4
    BY <1>3 DEF ItemSize, WordSize
  <1>7. src_len' = src_len - 4
    BY DEF CopyFormat, WordSize
  <1>8. src_len' \in Nat
    BY <1>0, <1>7
  <1> DEFINE A == ItemBytes(given.items, k)
             B == ItemBytes(given.items, k + 1)
             L == given.len
             z == ItemSize(InHand)
  <1>9. \/ src_len' = given.len - ItemBytes(given.items, k + 1)
        \/ src_len' = 0 /\ given.len < ItemBytes(given.items, k + 1)
    <2>1. A \in Nat /\ L \in Nat /\ B = A + z /\ src_len = L - A
      BY <1>3
    <2>2. z = 4 \/ (z = 5 /\ src_len = 4)
      BY <1>3, <1>4, <1>6
    <2> HIDE DEF A, B, L, z
    <2>3. CASE z = 4
      <3>1. src_len' = L - B
        BY <1>7, <2>1, <2>3
      <3> QED BY <3>1 DEF L, B
    <2>4. CASE z = 5 /\ src_len = 4
      <3>1. src_len' = 0 /\ L < B
        BY <1>7, <2>1, <2>4
      <3> QED BY <3>1 DEF L, B
    <2> QED BY <2>2, <2>3, <2>4
  <1>10. dptr + 1 <= DstMax
    BY <1>0, DstAssumption
  <1>11. /\ dst' = dst \o Copies(1) /\ dptr' = dptr + 1
         /\ src' = Tail(src) /\ given' = given /\ turn' = turn
    BY DEF CopyFormat
  <1>12. 1 \in Nat
    OBVIOUS
  <1> QED BY <1>0, <1>1, <1>2, <1>5, <1>8, <1>9, <1>10, <1>11, <1>12, LoopGoesOn

LEMMA CopyRunStep == FmtInv /\ CopyRun => FmtInv'
  <1> SUFFICES ASSUME FmtInv, CopyRun PROVE FmtInv'
    OBVIOUS
  <1>0. /\ Turns /\ turn = "loop" /\ src_len > 4 /\ src_len \in Nat /\ dptr \in Nat /\ InHand.run
        /\ src_len' = src_len - 5 /\ ~(dptr + InHand.reps + 1 >= DstMax)
    BY DEF CopyRun, IsRun, Turns, FmtInv, WordSize, RunSize, TooLong
  <1>1. dptr = Len(dst) /\ \E k \in 0 .. Len(given.items) : AtItem(k)
    BY <1>0 DEF FmtInv
  <1>2. PICK k \in 0 .. Len(given.items) : AtItem(k)
    BY <1>1
  <1>3. /\ InHand = given.items[k + 1] /\ InHand \in Item /\ given.items \in Seq(Item)
        /\ src_len = given.len - ItemBytes(given.items, k)
        /\ ItemBytes(given.items, k) \in Nat /\ given.len \in Nat
        /\ ItemBytes(given.items, k + 1) = ItemBytes(given.items, k) + ItemSize(InHand)
        /\ CopyCount(given.items, given.len, k + 1) =
              IF InHand.run /\ src_len > WordSize THEN InHand.reps + 1 ELSE 1
        /\ InHand.reps \in Nat
    BY <1>0, <1>2, InHandIs, FmtTypes
  <1> DEFINE c == InHand.reps + 1
  <1>4. c = CopyCount(given.items, given.len, k + 1) /\ c \in Nat
    <2>1. src_len > WordSize
      BY <1>0 DEF WordSize
    <2>2. c = CopyCount(given.items, given.len, k + 1)
      BY <1>0, <1>3, <2>1
    <2>3. c \in Nat
      BY <1>3
    <2> QED BY <2>2, <2>3
  <1>5. ItemSize(InHand) = 5
    BY <1>0 DEF ItemSize, WordSize
  <1>6. src_len' \in Nat
    BY <1>0
  <1>7. src_len' = given.len - ItemBytes(given.items, k + 1)
    <2> DEFINE A == ItemBytes(given.items, k)
               B == ItemBytes(given.items, k + 1)
               L == given.len
    <2>1. A \in Nat /\ L \in Nat /\ B = A + 5 /\ src_len = L - A /\ src_len' = src_len - 5
      BY <1>0, <1>3, <1>5
    <2> HIDE DEF A, B, L
    <2>2. src_len' = L - B
      BY <2>1
    <2> QED BY <2>2 DEF L, B
  <1>8. dptr' = dptr + c /\ dptr + c <= DstMax
    <2>1. dptr' = dptr + InHand.reps + 1
      BY DEF CopyRun
    <2> DEFINE r == InHand.reps
    <2>2. r \in Nat /\ dptr' = dptr + r + 1 /\ ~(dptr + r + 1 >= DstMax) /\ dptr \in Nat
      BY <1>0, <1>3, <2>1
    <2> HIDE DEF r
    <2>3. dptr' = dptr + (r + 1) /\ dptr + (r + 1) <= DstMax
      BY <2>2, DstAssumption
    <2> QED BY <2>3 DEF r
  <1>9. /\ dst' = dst \o Copies(c)
        /\ src' = Tail(src) /\ given' = given /\ turn' = turn
    BY DEF CopyRun
  <1> HIDE DEF c
  <1> QED BY <1>0, <1>1, <1>2, <1>4, <1>6, <1>7, <1>8, <1>9, LoopGoesOn

(* FormatsRight when the loop is left: there is no more, or no room for more. *)
LEMMA LoopIsLeft ==
    ASSUME FmtInv, turn = "loop", NEW k \in 0 .. Len(given.items), AtItem(k),
           NEW stored, NEW new \in Seq(Nat), stored = dst \o new,
           Len(dst) + Len(new) <= DstMax,
           \/ src_len < WordSize
           \/ Len(dst) >= DstMax
           \/ k < Len(given.items) /\ Len(dst) + CopyCount(given.items, given.len, k + 1) >= DstMax
    PROVE  /\ stored \in Seq(Nat) /\ Len(stored) <= DstMax /\ dptr <= Len(stored)
           /\ IsPrefix(SubSeq(stored, 1, dptr), Expansion(given.items, given.len))
           /\ Len(Expansion(given.items, given.len)) < DstMax =>
                dptr = Len(Expansion(given.items, given.len))
  <1> DEFINE all == Expansion(given.items, given.len)
             e == Len(all)
             c == CopyCount(given.items, given.len, k + 1)
             nw == Len(new)
  <1>1. dptr = Len(dst) /\ dst \in Seq(Nat) /\ dptr \in Nat
    BY DEF FmtInv
  <1>2. /\ all \in Seq(Nat) /\ dptr <= e /\ \A q \in 1 .. dptr : all[q] = dst[q]
        /\ (k < Len(given.items) => dptr + c <= e)
        /\ (src_len < WordSize => dst = all)
    BY <1>1, StoredIsFirst
  <1>3. e \in Nat /\ nw \in Nat
    BY <1>2, LenProperties
  <1>4. stored \in Seq(Nat) /\ Len(stored) = dptr + nw
        /\ \A q \in 1 .. dptr + nw : stored[q] = IF q <= dptr THEN dst[q] ELSE new[q - dptr]
    BY <1>1, ConcatProperties
  <1>5. dptr + nw <= DstMax
    BY <1>1
  <1>6. \/ src_len < WordSize
        \/ dptr >= DstMax
        \/ k < Len(given.items) /\ dptr + c >= DstMax
    BY <1>1
  <1> HIDE DEF all, e, c, nw
  <1>7. dptr \in 0 .. dptr + nw /\ dptr <= dptr + nw /\ \A q \in 1 .. dptr : q \in 1 .. dptr + nw /\ q <= dptr
    BY <1>1, <1>3
  <1>8. \A q \in 1 .. dptr : all[q] = stored[q]
    BY <1>2, <1>4, <1>7
  <1>9. IsPrefix(SubSeq(stored, 1, dptr), all)
    BY <1>2, <1>4, <1>7, <1>8, PrefixOf DEF e
  <1>10. ASSUME e < DstMax PROVE dptr = e
    <2>1. CASE src_len < WordSize
      BY <1>1, <1>2, <2>1 DEF e
    <2>2. CASE dptr >= DstMax
      BY <1>1, <1>2, <1>3, <1>10, <2>2, DstAssumption
    <2>3. CASE k < Len(given.items) /\ dptr + c >= DstMax
      <3>1. dptr + c <= e /\ dptr + c >= DstMax /\ CopyCount(given.items, given.len, k + 1) \in Nat
        <4>1. k + 1 \in 1 .. Len(given.items)
          BY <2>3, FmtTypes
        <4> QED BY <1>2, <2>3, <4>1, FmtTypes, CopySeqFacts
      <3> QED BY <1>1, <1>3, <1>10, <3>1, DstAssumption DEF c
    <2> QED BY <1>6, <2>1, <2>2, <2>3
  <1> QED BY <1>4, <1>5, <1>7, <1>9, <1>10 DEF all, e

LEMMA RefuseRunStep == FmtInv /\ RefuseRun => FmtInv'
  <1> SUFFICES ASSUME FmtInv, RefuseRun PROVE FmtInv'
    OBVIOUS
  <1>0. /\ Turns /\ turn = "loop" /\ src_len > 4 /\ src_len \in Nat /\ dptr \in Nat /\ InHand.run
        /\ src_len' = src_len - 4 /\ dptr + InHand.reps + 1 >= DstMax /\ dptr < DstMax
    BY DEF RefuseRun, IsRun, Turns, FmtInv, WordSize, TooLong
  <1>1. dptr = Len(dst) /\ \E k \in 0 .. Len(given.items) : AtItem(k)
    BY <1>0 DEF FmtInv
  <1>2. PICK k \in 0 .. Len(given.items) : AtItem(k)
    BY <1>1
  <1>3. /\ CopyCount(given.items, given.len, k + 1) =
              IF InHand.run /\ src_len > WordSize THEN InHand.reps + 1 ELSE 1
        /\ InHand.reps \in Nat /\ InHand.fmt \in Nat
        /\ k + 1 \in 1 .. Len(given.items) /\ Len(given.items) \in Nat
    BY <1>0, <1>2, InHandIs, FmtTypes
  <1>4. k < Len(given.items)
    BY <1>3
  <1>5. CopyCount(given.items, given.len, k + 1) = InHand.reps + 1
    BY <1>0, <1>3 DEF WordSize
  <1>6. Len(dst) + CopyCount(given.items, given.len, k + 1) >= DstMax
    <2> DEFINE r == InHand.reps
    <2>1. r \in Nat /\ dptr + r + 1 >= DstMax
      BY <1>0, <1>3
    <2> HIDE DEF r
    <2>2. dptr + (r + 1) >= DstMax
      BY <1>0, <2>1, DstAssumption
    <2> QED BY <1>1, <1>5, <2>2 DEF r
  <1>7. Copies(1) \in Seq(Nat) /\ Len(Copies(1)) = 1
    BY <1>3 DEF Copies
  <1>8. Len(dst) + Len(Copies(1)) <= DstMax
    <2>1. dptr + 1 <= DstMax
      BY <1>0, DstAssumption
    <2> QED BY <1>1, <1>7, <2>1
  <1>9. dst' = dst \o Copies(1) /\ turn' = "done" /\ given' = given /\ dptr' = dptr
    BY DEF RefuseRun
  <1>10. /\ dst' \in Seq(Nat) /\ Len(dst') <= DstMax /\ dptr <= Len(dst')
         /\ IsPrefix(SubSeq(dst', 1, dptr), Expansion(given.items, given.len))
         /\ Len(Expansion(given.items, given.len)) < DstMax =>
              dptr = Len(Expansion(given.items, given.len))
    BY <1>0, <1>2, <1>4, <1>6, <1>7, <1>8, <1>9, LoopIsLeft
  <1>11. src_len' \in Nat
    BY <1>0
  <1>12. FormatsRight'
    BY <1>9, <1>10 DEF FormatsRight
  <1> QED BY <1>9, <1>10, <1>11, <1>12 DEF FmtInv

LEMMA EndLoopStep == FmtInv /\ EndLoop => FmtInv'
  <1> SUFFICES ASSUME FmtInv, EndLoop PROVE FmtInv'
    OBVIOUS
  <1>1. /\ turn = "loop" /\ turn' = "done" /\ given' = given /\ src_len' = src_len /\ dst' = dst /\ dptr' = dptr
        /\ (src_len < WordSize \/ dptr >= DstMax)
    BY DEF EndLoop
  <1>2. dptr = Len(dst) /\ dptr <= DstMax /\ dst \in Seq(Nat) /\ dptr \in Nat
    BY <1>1 DEF FmtInv
  <1>3. PICK k \in 0 .. Len(given.items) : AtItem(k)
    BY <1>1 DEF FmtInv
  <1>4. <<>> \in Seq(Nat) /\ Len(<<>>) = 0 /\ dst = dst \o <<>>
    BY <1>2, ConcatEmptySeq, EmptySeq
  <1>5. Len(dst) + Len(<<>>) <= DstMax
    BY <1>2, <1>4
  <1>6. /\ dst \in Seq(Nat) /\ Len(dst) <= DstMax /\ dptr <= Len(dst)
        /\ IsPrefix(SubSeq(dst, 1, dptr), Expansion(given.items, given.len))
        /\ Len(Expansion(given.items, given.len)) < DstMax =>
             dptr = Len(Expansion(given.items, given.len))
    BY <1>1, <1>2, <1>3, <1>4, <1>5, LoopIsLeft
  <1>7. FormatsRight'
    BY <1>1, <1>6 DEF FormatsRight
  <1> QED BY <1>1, <1>7 DEF FmtInv

(* A call: nothing was read and nothing stored. *)
LEMMA CallFmtCpyStep == FmtInv /\ CallFmtCpy => FmtInv'
  <1> SUFFICES ASSUME FmtInv, CallFmtCpy PROVE FmtInv'
    OBVIOUS
  <1>a. PICK items \in Sources : \E len \in 0 .. Bytes(items) :
           given' = [items |-> items, len |-> len] /\ src' = items /\ src_len' = len
    BY DEF CallFmtCpy
  <1>1. PICK len \in 0 .. Bytes(items) :
           given' = [items |-> items, len |-> len] /\ src' = items /\ src_len' = len
    BY <1>a
  <1>2. turn' = "loop" /\ dst' = <<>> /\ dptr' = 0
    BY DEF CallFmtCpy
  <1>3. items \in Seq(Item) /\ Len(items) \in Nat
    BY SourcesAssumption, LenProperties
  <1>4. ItemBytes(items, 0) = 0 /\ Bytes(items) \in Nat
    <2>1. Len(items) \in 0 .. Len(items)
      BY <1>3
    <2> QED BY <1>3, <2>1, ItemBytesFacts
  <1>5. len \in Nat
    BY <1>4
  <1>6. given'.items = items /\ given'.len = len
    BY <1>1
  <1>7. AtItem(0)'
    <2>1. Len(items) = Len(items) - 0 /\ \A i \in 1 .. Len(items) : 0 + i = i
      BY <1>3
    <2>2. len = len - ItemBytes(items, 0)
      BY <1>4, <1>5
    <2>3. \A F : Joins(CopySeqs(items, len), F) => <<>> = F[0]
      BY DEF Joins
    <2> QED BY <1>1, <1>2, <1>3, <1>6, <2>1, <2>2, <2>3 DEF AtItem
  <1>8. 0 \in 0 .. Len(items) /\ <<>> \in Seq(Nat) /\ Len(<<>>) = 0 /\ 0 <= DstMax /\ 0 \in Nat
    BY <1>3, DstAssumption, EmptySeq
  <1> QED BY <1>1, <1>2, <1>3, <1>5, <1>6, <1>7, <1>8 DEF FmtInv

LEMMA FmtRests ==
    ASSUME turn \in {"idle"}, given = NoCopy, dst = <<>>, dptr = 0, src_len = 0
    PROVE  FmtInv
  <1>1. <<>> \in Seq(Item) /\ <<>> \in Seq(Nat) /\ Len(<<>>) = 0
    BY EmptySeq
  <1>2. given.items = <<>> /\ given.len = 0
    BY DEF NoCopy
  <1>3. ItemBytes(<<>>, 0) = 0 /\ ItemBytes(<<>>, Len(<<>>)) = Bytes(<<>>)
    BY <1>1, ItemBytesFacts
  <1>4. 0 \in 0 .. Bytes(<<>>) /\ 0 \in Nat
    BY <1>1, <1>3
  <1> QED BY <1>1, <1>2, <1>4 DEF FmtInv

(* FmtInv is an invariant: the loop over the items keeps the words, the length and what was
   stored in step, whatever the length cuts. *)
THEOREM FmtInvariant == FmtSpec => []FmtInv
  <1>1. FmtInit => FmtInv
    BY FmtRests DEF FmtInit
  <1>2. FmtInv /\ [FmtNext]_fmtVars => FmtInv'
    <2> SUFFICES ASSUME FmtInv, [FmtNext]_fmtVars PROVE FmtInv'
      OBVIOUS
    <2>1. CASE CallFmtCpy
      BY <2>1, CallFmtCpyStep
    <2>2. CASE CopyFormat
      BY <2>2, CopyFormatStep
    <2>3. CASE CopyRun
      BY <2>3, CopyRunStep
    <2>4. CASE RefuseRun
      BY <2>4, RefuseRunStep
    <2>5. CASE EndLoop
      BY <2>5, EndLoopStep
    <2>6. CASE ReturnFormats
      <3>1. /\ turn' \in {"idle"} /\ given' = NoCopy /\ dst' = <<>> /\ dptr' = 0 /\ src_len' = 0
        BY <2>6 DEF ReturnFormats
      <3>2. (turn \in {"idle"} /\ given = NoCopy /\ dst = <<>> /\ dptr = 0 /\ src_len = 0 => FmtInv)'
        BY FmtRests, PTL
      <3> QED BY <3>1, <3>2
    <2>7. CASE UNCHANGED fmtVars
      BY <2>7 DEF FmtInv, fmtVars, FormatsRight, AtItem
    <2> QED BY <2>1, <2>2, <2>3, <2>4, <2>5, <2>6, <2>7 DEF FmtNext
  <1> QED BY <1>1, <1>2, PTL DEF FmtSpec

(* fmtcpy stores formats in step with the source, and all of them when they fit. *)
THEOREM FormatsExpanded == FmtSpec => []FormatsRight
  <1>1. ASSUME FmtInv PROVE FormatsRight
    <2>1. turn \in {"idle", "loop", "done"}
      BY <1>1 DEF FmtInv
    <2>2. CASE turn = "idle"
      <3>1. dst = <<>> /\ dptr = 0 /\ turn # "done"
        BY <1>1, <2>2 DEF FmtInv
      <3>2. Len(dst) = 0
        BY <3>1, EmptySeq
      <3>3. 0 <= DstMax
        BY DstAssumption
      <3> QED BY <3>1, <3>2, <3>3 DEF FormatsRight
    <2>3. CASE turn = "loop"
      <3>1. dptr = Len(dst) /\ dptr <= DstMax /\ dptr \in Nat /\ turn # "done"
        BY <1>1, <2>3 DEF FmtInv
      <3>2. dptr <= dptr
        BY <3>1
      <3> QED BY <3>1, <3>2 DEF FormatsRight
    <2>4. CASE turn = "done"
      BY <1>1, <2>4 DEF FmtInv
    <2> QED BY <2>1, <2>2, <2>3, <2>4
  <1> QED BY FmtInvariant, <1>1, PTL

-----------------------------------------------------------------------------
(* Resources.  The sizes are added up before the groups are written, and a  *)
(* message is found by the same sums.                                      *)

(* The groups resgen reads: messages under selectors of a byte. *)
Groups == UNION {[d -> Messages] : d \in SUBSET (0 .. 255)}

LEMMA GroupFacts ==
    ASSUME NEW g \in Groups
    PROVE  /\ DOMAIN g \in SUBSET Nat /\ IsFiniteSet(DOMAIN g)
           /\ \A id \in DOMAIN g : id \in 0 .. 255 /\ g[id] \in Messages /\ Room(g[id]) \in Nat /\ Room(g[id]) >= 1
           /\ g = NoMessages <=> DOMAIN g = {}
  <1>1. PICK d \in SUBSET (0 .. 255) : g \in [d -> Messages]
    BY DEF Groups
  <1>2. DOMAIN g = d /\ \A id \in d : id \in 0 .. 255 /\ g[id] \in Messages
    BY <1>1
  <1>3. IsFiniteSet(0 .. 255)
    <2>1. 0 \in Int /\ 255 \in Int
      OBVIOUS
    <2> QED BY <2>1, FS_Interval
  <1>4. IsFiniteSet(DOMAIN g)
    BY <1>2, <1>3, FS_Subset
  <1>5. ASSUME NEW m \in Messages
        PROVE  Room(m) \in Nat /\ Room(m) >= 1
    <2>1. m.len \in Nat
      BY MessagesAssumption
    <2> QED BY <2>1 DEF Room
  <1>6. g = NoMessages <=> DOMAIN g = {}
    <2>1. DOMAIN NoMessages = {}
      BY DEF NoMessages
    <2>2. ASSUME d = {} PROVE g = NoMessages
      <3>1. NoMessages \in [{} -> Messages]
        BY DEF NoMessages
      <3> QED BY <1>1, <2>2, <3>1
    <2> QED BY <1>2, <2>1, <2>2
  <1>7. \A id \in 0 .. 255 : id \in Nat
    OBVIOUS
  <1> QED BY <1>2, <1>4, <1>5, <1>6, <1>7, ZenonT(60)

(* The last selector that has a message. *)
LEMMA MaxSelFacts ==
    ASSUME NEW g \in Groups
    PROVE  /\ MaxSel(g) \in Nat
           /\ \A id \in DOMAIN g : id <= MaxSel(g)
           /\ g # NoMessages => MaxSel(g) \in DOMAIN g
  <1>1. /\ DOMAIN g \in SUBSET Nat /\ (g = NoMessages <=> DOMAIN g = {})
        /\ \A id \in DOMAIN g : id \in 0 .. 255
    BY GroupFacts
  <1>2. CASE g = NoMessages
    BY <1>1, <1>2 DEF MaxSel
  <1>3. CASE g # NoMessages
    <2> DEFINE below == {255 - id : id \in DOMAIN g}
    <2>1. below \in SUBSET Nat
      <3>1. \A id \in 0 .. 255 : 255 - id \in Nat
        OBVIOUS
      <3> QED BY <1>1, <3>1
    <2>2. below # {}
      BY <1>1, <1>3
    <2>3. PICK m \in below : \A y \in below : ~(y < m)
      BY <2>1, <2>2, LeastNat
    <2>4. PICK top \in DOMAIN g : m = 255 - top
      BY <2>3
    <2>5. \A id \in DOMAIN g : ~(255 - id < 255 - top)
      BY <2>3, <2>4
    <2>6. \A id \in DOMAIN g : top >= id
      <3>1. top \in 0 .. 255 /\ \A id \in DOMAIN g : id \in 0 .. 255
        BY <1>1, <2>4
      <3>2. \A j \in 0 .. 255 : ~(255 - j < 255 - top) => top >= j
        BY <3>1
      <3> QED BY <2>5, <3>1, <3>2
    <2>7. \E x \in DOMAIN g : \A y \in DOMAIN g : x >= y
      BY <2>6
    <2>8. Max(DOMAIN g) \in DOMAIN g /\ \A y \in DOMAIN g : Max(DOMAIN g) >= y
      BY <2>7 DEF Max
    <2>9. MaxSel(g) = Max(DOMAIN g)
      BY <1>3 DEF MaxSel
    <2> DEFINE top2 == MaxSel(g)
    <2>10. top2 \in DOMAIN g /\ top2 \in Nat /\ \A y \in DOMAIN g : y \in Nat /\ top2 >= y
      BY <1>1, <2>8, <2>9
    <2> HIDE DEF top2
    <2>11. \A y \in DOMAIN g : y <= top2
      BY <2>10
    <2> QED BY <2>10, <2>11 DEF top2
  <1> QED BY <1>2, <1>3

Sooner(g, id) == {k \in DOMAIN g : k < id}
Sums(g, id) == SumFunctionOnSet([k \in DOMAIN g |-> Room(g[k])], Sooner(g, id))

(* Each message takes its room, and the positions go up. *)
LEMMA PositionFacts ==
    ASSUME NEW g \in Groups
    PROVE  /\ \A id \in Nat : /\ Position(g, id) \in Nat
                              /\ 2 * (MaxSel(g) + 1) <= Position(g, id)
                              /\ Position(g, id + 1) =
                                    IF id \in DOMAIN g THEN Position(g, id) + Room(g[id]) ELSE Position(g, id)
           /\ GroupLen(g) \in Nat
  <1> DEFINE room == [k \in DOMAIN g |-> Room(g[k])]
  <1>1. /\ DOMAIN g \in SUBSET Nat /\ IsFiniteSet(DOMAIN g)
        /\ \A id \in DOMAIN g : Room(g[id]) \in Nat
    BY GroupFacts
  <1>2. \A k \in DOMAIN g : room[k] = Room(g[k]) /\ room[k] \in Nat
    BY <1>1
  <1>a. MaxSel(g) \in Nat
    BY MaxSelFacts
  <1>3. \A id : Sums(g, id) = SumFunctionOnSet(room, Sooner(g, id))
    BY DEF Sums
  <1>4. \A id : Position(g, id) = 2 * (MaxSel(g) + 1) + Sums(g, id)
    BY DEF Position, Sums, Sooner
  <1> HIDE DEF room
  <1>5. ASSUME NEW id \in Nat
        PROVE  IsFiniteSet(Sooner(g, id)) /\ Sums(g, id) \in Nat /\ \A k \in Sooner(g, id) : room[k] \in Nat
    <2>1. Sooner(g, id) \in SUBSET DOMAIN g
      BY DEF Sooner
    <2>2. IsFiniteSet(Sooner(g, id))
      BY <1>1, <2>1, FS_Subset
    <2>3. \A k \in Sooner(g, id) : room[k] \in Nat
      BY <1>2, <2>1
    <2>4. SumFunctionOnSet(room, Sooner(g, id)) \in Nat
      BY <2>2, <2>3, SumFacts
    <2> QED BY <1>3, <2>2, <2>3, <2>4
  <1>6. ASSUME NEW id \in Nat
        PROVE  Sums(g, id + 1) = IF id \in DOMAIN g THEN Sums(g, id) + Room(g[id]) ELSE Sums(g, id)
    <2>0. \A k \in DOMAIN g : k < id + 1 <=> k < id \/ k = id
      BY <1>1
    <2>1. CASE id \in DOMAIN g
      <3>1. id \in Sooner(g, id + 1) /\ Sooner(g, id + 1) \ {id} = Sooner(g, id)
        <4>1. ~(id < id)
          OBVIOUS
        <4> QED BY <2>0, <2>1, <4>1 DEF Sooner
      <3>2. id + 1 \in Nat
        OBVIOUS
      <3>3. SumFunctionOnSet(room, Sooner(g, id + 1)) = room[id] + SumFunctionOnSet(room, Sooner(g, id))
        BY <1>5, <3>1, <3>2, SumFacts
      <3>4. Sums(g, id + 1) = Room(g[id]) + Sums(g, id)
        BY <1>2, <1>3, <2>1, <3>3
      <3> DEFINE a == Room(g[id])
                 b == Sums(g, id)
      <3>5. a \in Nat /\ b \in Nat /\ Sums(g, id + 1) = a + b
        BY <1>1, <1>5, <2>1, <3>4
      <3> HIDE DEF a, b
      <3>6. Sums(g, id + 1) = b + a
        BY <3>5
      <3> QED BY <2>1, <3>6 DEF a, b
    <2>2. CASE id \notin DOMAIN g
      <3>1. Sooner(g, id + 1) = Sooner(g, id)
        BY <2>0, <2>2 DEF Sooner
      <3> QED BY <1>3, <2>2, <3>1
    <2> QED BY <2>1, <2>2
  <1>7. ASSUME NEW id \in Nat
        PROVE  /\ Position(g, id) \in Nat
               /\ 2 * (MaxSel(g) + 1) <= Position(g, id)
               /\ Position(g, id + 1) =
                     IF id \in DOMAIN g THEN Position(g, id) + Room(g[id]) ELSE Position(g, id)
    <2> DEFINE t == MaxSel(g)
               a == Sums(g, id)
               b == Sums(g, id + 1)
               c == Room(g[id])
    <2>1. t \in Nat /\ a \in Nat /\ b = (IF id \in DOMAIN g THEN a + c ELSE a) /\ (id \in DOMAIN g => c \in Nat)
      BY <1>1, <1>a, <1>5, <1>6
    <2>2. Position(g, id) = 2 * (t + 1) + a /\ Position(g, id + 1) = 2 * (t + 1) + b
      BY <1>4
    <2> HIDE DEF t, a, b, c
    <2>3. Position(g, id) \in Nat /\ 2 * (t + 1) <= Position(g, id)
      BY <2>1, <2>2
    <2>4. Position(g, id + 1) = IF id \in DOMAIN g THEN Position(g, id) + c ELSE Position(g, id)
      BY <2>1, <2>2
    <2> QED BY <2>3, <2>4 DEF t, c
  <1>8. MaxSel(g) + 1 \in Nat
    BY <1>a
  <1> QED BY <1>7, <1>8 DEF GroupLen

LEMMA PositionsGrow ==
    ASSUME NEW g \in Groups, NEW a \in Nat, NEW b \in Nat, a <= b
    PROVE  Position(g, a) <= Position(g, b)
  <1> DEFINE Bad == {id \in Nat : a <= id /\ ~(Position(g, a) <= Position(g, id))}
  <1>1. Bad = {}
    <2> SUFFICES ASSUME Bad # {} PROVE FALSE
      OBVIOUS
    <2>1. Bad \in SUBSET Nat
      OBVIOUS
    <2>2. PICK id \in Bad : \A y \in Bad : ~(y < id)
      BY <2>1, LeastNat
    <2>3. id \in Nat /\ a <= id /\ ~(Position(g, a) <= Position(g, id))
      BY <2>2
    <2>4. id # a
      BY <2>3, PositionFacts
    <2>5. id - 1 \in Nat /\ a <= id - 1 /\ id - 1 < id /\ id - 1 + 1 = id
      BY <2>3, <2>4
    <2>6. id - 1 \notin Bad
      <3> HIDE DEF Bad
      <3> QED BY <2>2, <2>5
    <2>7. Position(g, a) <= Position(g, id - 1)
      BY <2>5, <2>6
    <2> DEFINE q == Position(g, id - 1)
               r == Position(g, id)
               s == Position(g, a)
    <2>8. q \in Nat /\ s \in Nat /\ r = IF id - 1 \in DOMAIN g THEN q + Room(g[id - 1]) ELSE q
      BY <2>5, PositionFacts
    <2>9. id - 1 \in DOMAIN g => Room(g[id - 1]) \in Nat
      BY GroupFacts
    <2> HIDE DEF q, r, s
    <2>10. s <= q
      BY <2>7 DEF q, s
    <2>11. s <= r
      BY <2>8, <2>9, <2>10
    <2> QED BY <2>3, <2>11 DEF r, s
  <1> QED BY <1>1

(* The messages stand apart and end with the group: the last one does. *)
LEMMA MessagesApart ==
    ASSUME NEW g \in Groups, NEW id \in DOMAIN g
    PROVE  /\ Position(g, id) + Room(g[id]) <= GroupLen(g)
           /\ Position(g, id) < GroupLen(g)
           /\ \A k \in DOMAIN g : Position(g, k) = Position(g, id) => k = id
           /\ Position(g, id) + Room(g[id]) >= GroupLen(g) <=> id = MaxSel(g)
  <1>1. /\ DOMAIN g \in SUBSET Nat
        /\ \A k \in DOMAIN g : Room(g[k]) \in Nat /\ Room(g[k]) >= 1
    BY GroupFacts
  <1>2. MaxSel(g) \in Nat /\ (\A k \in DOMAIN g : k <= MaxSel(g)) /\ MaxSel(g) \in DOMAIN g
    BY GroupFacts, MaxSelFacts
  <1>3. ASSUME NEW k \in DOMAIN g
        PROVE  /\ Position(g, k) \in Nat /\ Position(g, k + 1) = Position(g, k) + Room(g[k])
               /\ Position(g, k) < Position(g, k + 1)
    <2>1. Position(g, k) \in Nat /\ Position(g, k + 1) = Position(g, k) + Room(g[k])
      BY <1>1, PositionFacts
    <2> QED BY <1>1, <2>1
  <1>4. ASSUME NEW k \in DOMAIN g, NEW m \in DOMAIN g, k < m
        PROVE  Position(g, k) + Room(g[k]) <= Position(g, m)
    <2>1. k \in Nat /\ m \in Nat /\ k + 1 \in Nat /\ k + 1 <= m
      BY <1>1, <1>4
    <2>2. Position(g, k + 1) <= Position(g, m)
      BY <2>1, PositionsGrow
    <2> QED BY <1>3, <2>2
  <1>5. GroupLen(g) = Position(g, MaxSel(g)) + Room(g[MaxSel(g)]) /\ Position(g, MaxSel(g)) \in Nat
    BY <1>2, <1>3 DEF GroupLen
  <1> DEFINE P(k) == Position(g, k)
             R(k) == Room(g[k])
             T == MaxSel(g)
             G == GroupLen(g)
  <1>6. id \in Nat /\ T \in Nat /\ id <= T /\ P(id) \in Nat /\ R(id) \in Nat /\ R(id) >= 1
        /\ P(T) \in Nat /\ R(T) \in Nat /\ R(T) >= 1 /\ G = P(T) + R(T)
    BY <1>1, <1>2, <1>3, <1>5
  <1>7. id < T => P(id) + R(id) <= P(T)
    BY <1>2, <1>4
  <1>8. ASSUME NEW k \in DOMAIN g, P(k) = P(id)
        PROVE  k = id
    <2>1. k \in Nat /\ P(k) \in Nat /\ R(k) \in Nat /\ R(k) >= 1
      BY <1>1, <1>3
    <2>2. k < id => P(k) + R(k) <= P(id)
      BY <1>4
    <2>3. id < k => P(id) + R(id) <= P(k)
      BY <1>4
    <2> HIDE DEF P, R, T, G
    <2> QED BY <1>6, <1>8, <2>1, <2>2, <2>3
  <1> HIDE DEF P, R, T, G
  <1>9. id = T \/ id < T
    BY <1>6
  <1>10. P(id) + R(id) <= G /\ P(id) < G
    BY <1>6, <1>7, <1>9
  <1>11. P(id) + R(id) >= G <=> id = T
    BY <1>6, <1>7, <1>9
  <1> QED BY <1>8, <1>10, <1>11 DEF P, R, T, G

(* Group k is in the file: its table, and each message where the table says. *)
GroupWritten(k) ==
    LET g == msgtab[k]
    IN  /\ \A id \in 0 .. MaxSel(g) : /\ GroupStart(k) + 2 * id \in DOMAIN words
                                      /\ words[GroupStart(k) + 2 * id] = Table(g)[id]
        /\ \A id \in DOMAIN g : /\ GroupStart(k) + Position(g, id) \in DOMAIN strings
                                /\ strings[GroupStart(k) + Position(g, id)] = g[id]

(* The groups before c are in the file, one after the other. *)
WrittenUpto(c) ==
    /\ end = GroupStart(c)
    /\ \A at \in DOMAIN words \cup DOMAIN strings : at \in Nat /\ at < end
    /\ \A k \in 1 .. c - 1 : GroupWritten(k)

(* The entries a listing shows before it comes to selector id of group k. *)
Shown(k, id) == {e \in Given : e[1] < k \/ (e[1] = k /\ e[2] < id)}

SizesRight ==
    /\ Len(sizes) \in 0 .. Len(msgtab)
    /\ \A k \in 1 .. Len(sizes) : sizes[k] = GroupLen(msgtab[k]) % Wrap
    /\ progress \in {"read", "failed"} => sizes = <<>>
    /\ progress = "groups" \/ Compiled => Len(sizes) = Len(msgtab)

FileRight ==
    /\ progress \in {"read", "failed", "sizes"} => cur = 1 /\ words = <<>> /\ strings = <<>> /\ end = 0
    /\ progress = "groups" => cur \in 1 .. Len(msgtab) + 1
    /\ Fits => (progress = "groups" => WrittenUpto(cur))
    /\ Fits => (Compiled => WrittenUpto(Len(msgtab) + 1))

ListingRight ==
    /\ ~Compiled => sel = 0 /\ listing = <<>>
    /\ Compiled /\ Fits /\ NoMessages \notin ToSet(msgtab) =>
          /\ progress # "beyond"
          /\ cur \in 1 .. Len(msgtab) + 1
          /\ sel \in IF cur <= Len(msgtab) THEN 0 .. MaxSel(msgtab[cur]) ELSE {0}
          /\ listing \in Seq(Given)
          /\ ToSet(listing) = Shown(cur, sel) /\ Len(listing) = Cardinality(Shown(cur, sel))
          /\ progress = "listed" => cur = Len(msgtab) + 1

ResInv ==
    /\ progress \in {"read", "failed", "sizes", "groups", "written", "listed", "beyond"}
    /\ msgtab \in Seq(Groups) /\ sizes \in Seq(Nat)
    /\ SizesRight /\ FileRight /\ ListingRight

-----------------------------------------------------------------------------

LEMMA GroupsAre ==
    ASSUME msgtab \in Seq(Groups)
    PROVE  /\ Len(msgtab) \in Nat /\ DOMAIN msgtab = 1 .. Len(msgtab)
           /\ \A k \in 1 .. Len(msgtab) : msgtab[k] \in Groups
           /\ \A k \in 1 .. Len(msgtab) : GroupLen(msgtab[k]) \in Nat
           /\ Fits => \A k \in 1 .. Len(msgtab) : GroupLen(msgtab[k]) % Wrap = GroupLen(msgtab[k])
  <1>1. Len(msgtab) \in Nat /\ DOMAIN msgtab = 1 .. Len(msgtab)
    BY LenProperties
  <1>2. \A k \in 1 .. Len(msgtab) : msgtab[k] \in Groups
    BY ElementOfSeq
  <1>3. \A k \in 1 .. Len(msgtab) : GroupLen(msgtab[k]) \in Nat
    BY <1>2, PositionFacts
  <1>4. \A m \in Nat : m < Wrap => m % Wrap = m
    BY DEF Wrap
  <1>5. Fits => \A k \in 1 .. Len(msgtab) : GroupLen(msgtab[k]) < Wrap
    BY <1>1 DEF Fits
  <1> QED BY <1>1, <1>2, <1>3, <1>4, <1>5

(* Where the groups start. *)
LEMMA StartFacts ==
    ASSUME sizes \in Seq(Nat)
    PROVE  /\ GroupStart(1) = 0
           /\ \A k \in 1 .. Len(sizes) : GroupStart(k + 1) = GroupStart(k) + sizes[k]
           /\ \A k \in 1 .. Len(sizes) + 1 : GroupStart(k) \in Nat
  <1>1. Len(sizes) \in Nat /\ \A k \in 1 .. Len(sizes) : sizes[k] \in Nat
    BY LenProperties, ElementOfSeq
  <1>2. ASSUME NEW k \in 0 .. Len(sizes)
        PROVE  IsFiniteSet(1 .. k) /\ \A i \in 1 .. k : sizes[i] \in Nat
    <2>1. k \in Int /\ 1 \in Int /\ \A i \in 1 .. k : i \in 1 .. Len(sizes)
      BY <1>1
    <2> QED BY <1>1, <2>1, FS_Interval
  <1>3. ASSUME NEW k \in 1 .. Len(sizes) + 1
        PROVE  GroupStart(k) \in Nat
    <2>1. k - 1 \in 0 .. Len(sizes)
      BY <1>1
    <2>2. SumFunctionOnSet(sizes, 1 .. (k - 1)) \in Nat
      BY <1>2, <2>1, SumFacts
    <2> QED BY <2>2 DEF GroupStart
  <1>4. ASSUME NEW k \in 1 .. Len(sizes)
        PROVE  GroupStart(k + 1) = GroupStart(k) + sizes[k]
    <2>1. k \in 0 .. Len(sizes) /\ k \in 1 .. k /\ (1 .. k) \ {k} = 1 .. (k - 1) /\ k + 1 - 1 = k
      BY <1>1
    <2>2. SumFunctionOnSet(sizes, 1 .. k) = sizes[k] + SumFunctionOnSet(sizes, 1 .. (k - 1))
      <3>1. IsFiniteSet(1 .. k) /\ \A i \in 1 .. k : sizes[i] \in Nat
        BY <1>2, <2>1
      <3>2. \A i \in 1 .. k : SumFunctionOnSet(sizes, 1 .. k)
                              = sizes[i] + SumFunctionOnSet(sizes, (1 .. k) \ {i})
        BY <3>1, SumFacts
      <3> QED BY <2>1, <3>2
    <2>3. GroupStart(k + 1) = SumFunctionOnSet(sizes, 1 .. k) /\ GroupStart(k) = SumFunctionOnSet(sizes, 1 .. (k - 1))
      BY <2>1 DEF GroupStart
    <2>4. k \in 1 .. Len(sizes) + 1
      BY <1>1
    <2> QED BY <1>1, <1>3, <2>2, <2>3, <2>4
  <1>5. GroupStart(1) = 0
    <2>1. 1 .. (1 - 1) = {}
      OBVIOUS
    <2>2. SumFunctionOnSet(sizes, {}) = 0
      BY FS_EmptySet, SumFacts
    <2> QED BY <2>1, <2>2 DEF GroupStart
  <1> QED BY <1>3, <1>4, <1>5

LEMMA TableFacts ==
    ASSUME NEW g \in Groups, GroupLen(g) < Wrap, NEW id \in 0 .. MaxSel(g)
    PROVE  /\ Table(g)[id] = IF id \in DOMAIN g THEN Position(g, id) ELSE 0
           /\ id \in DOMAIN g => Table(g)[id] \in Nat /\ Table(g)[id] # 0
  <1>1. MaxSel(g) \in Nat
    BY MaxSelFacts
  <1>2. ASSUME id \in DOMAIN g
        PROVE  Position(g, id) \in Nat /\ Position(g, id) % Wrap = Position(g, id) /\ Position(g, id) # 0
    <2> DEFINE a == Position(g, id)
               t == MaxSel(g)
               b == GroupLen(g)
    <2>0. id \in Nat
      BY <1>1
    <2>1. a \in Nat /\ 2 * (t + 1) <= a /\ t \in Nat /\ b \in Nat
      BY <1>1, <2>0, PositionFacts
    <2>2. a < b /\ b < 65536
      BY <1>2, MessagesApart DEF Wrap
    <2> HIDE DEF a, t, b
    <2>3. a < 65536 /\ a # 0
      BY <2>1, <2>2
    <2>4. a % Wrap = a
      BY <2>1, <2>3 DEF Wrap
    <2> QED BY <2>1, <2>3, <2>4 DEF a
  <1>3. Table(g)[id] = IF id \in DOMAIN g THEN Position(g, id) % Wrap ELSE 0
    BY DEF Table
  <1> QED BY <1>2, <1>3

(* Every message of a group that was written is found. *)
LEMMA FoundWhereWritten ==
    ASSUME msgtab \in Seq(Groups), Fits, NEW k \in 1 .. Len(msgtab), GroupWritten(k),
           NEW id \in DOMAIN msgtab[k]
    PROVE  /\ FindResource(k, id) = GroupStart(k) + Position(msgtab[k], id)
           /\ FindResource(k, id) \in DOMAIN strings
           /\ strings[FindResource(k, id)] = msgtab[k][id]
  <1> DEFINE g == msgtab[k]
  <1>1. g \in Groups /\ GroupLen(g) < Wrap
    BY GroupsAre DEF Fits
  <1>2. id \in 0 .. MaxSel(g)
    BY <1>1, GroupFacts, MaxSelFacts
  <1>3. /\ GroupStart(k) + 2 * id \in DOMAIN words
        /\ words[GroupStart(k) + 2 * id] = Table(g)[id]
        /\ GroupStart(k) + Position(g, id) \in DOMAIN strings
        /\ strings[GroupStart(k) + Position(g, id)] = g[id]
    BY <1>2 DEF GroupWritten
  <1>4. Table(g)[id] = Position(g, id)
    BY <1>1, <1>2, TableFacts
  <1> QED BY <1>3, <1>4 DEF FindResource
-----------------------------------------------------------------------------
LEMMA ResStarts == ResInit => ResInv
  <1> SUFFICES ASSUME ResInit PROVE ResInv
    OBVIOUS
  <1>1. /\ progress = "read" /\ msgtab = <<>> /\ sizes = <<>>
        /\ words = <<>> /\ strings = <<>> /\ end = 0 /\ cur = 1 /\ sel = 0 /\ listing = <<>>
    BY DEF ResInit
  <1>2. <<>> \in Seq(Groups) /\ <<>> \in Seq(Nat) /\ <<>> \in Seq(Given) /\ Len(<<>>) = 0
    BY EmptySeq
  <1>3. SizesRight
    BY <1>1, <1>2 DEF SizesRight, Compiled
  <1>4. FileRight
    BY <1>1 DEF FileRight, Compiled
  <1>5. ListingRight
    BY <1>1 DEF ListingRight, Compiled
  <1> QED BY <1>1, <1>2, <1>3, <1>4, <1>5 DEF ResInv

(* While the text is read there is nothing else. *)
LEMMA StillReading ==
    ASSUME ResInv, progress = "read", progress' \in {"read", "failed", "sizes"}, msgtab' \in Seq(Groups),
           UNCHANGED <<resFile, lister>>
    PROVE  ResInv'
  <1>1. /\ sizes = <<>> /\ words = <<>> /\ strings = <<>> /\ end = 0 /\ cur = 1 /\ sel = 0 /\ listing = <<>>
    BY DEF ResInv, SizesRight, FileRight, ListingRight, Compiled
  <1>2. /\ sizes' = <<>> /\ words' = <<>> /\ strings' = <<>> /\ end' = 0 /\ cur' = 1 /\ sel' = 0
        /\ listing' = <<>>
    BY <1>1 DEF resFile, lister
  <1>3. <<>> \in Seq(Nat) /\ <<>> \in Seq(Given') /\ Len(<<>>) = 0 /\ Len(msgtab') \in Nat
    BY EmptySeq, LenProperties
  <1>4. progress' # "groups" /\ ~Compiled'
    BY DEF Compiled
  <1>5. SizesRight'
    BY <1>2, <1>3, <1>4 DEF SizesRight
  <1>6. FileRight'
    BY <1>2, <1>4 DEF FileRight
  <1>7. ListingRight'
    BY <1>2, <1>4 DEF ListingRight
  <1> QED BY <1>2, <1>3, <1>5, <1>6, <1>7 DEF ResInv

LEMMA ReadGroupStep == ResInv /\ ReadGroup => ResInv'
  <1> SUFFICES ASSUME ResInv, ReadGroup PROVE ResInv'
    OBVIOUS
  <1>1. /\ progress = "read" /\ progress' = progress /\ msgtab' = Append(msgtab, NoMessages)
        /\ UNCHANGED <<resFile, lister>>
    BY DEF ReadGroup
  <1>2. NoMessages \in Groups
    <2>1. NoMessages \in [{} -> Messages]
      BY DEF NoMessages
    <2> QED BY <2>1 DEF Groups
  <1>3. msgtab \in Seq(Groups)
    BY DEF ResInv
  <1>4. msgtab' \in Seq(Groups)
    BY <1>1, <1>2, <1>3, AppendProperties
  <1> QED BY <1>1, <1>4, StillReading

LEMMA ReadMessageStep == ResInv /\ ReadMessage => ResInv'
  <1> SUFFICES ASSUME ResInv, ReadMessage PROVE ResInv'
    OBVIOUS
  <1>1. progress = "read" /\ msgtab # <<>> /\ UNCHANGED <<resFile, lister>>
    BY DEF ReadMessage
  <1>2. PICK number \in Numbers, msg \in Messages :
          LET id == Selector(number)
          IN  IF id > 255
              THEN progress' = "failed" /\ UNCHANGED msgtab
              ELSE /\ msgtab' = [msgtab EXCEPT ![Len(msgtab)] =
                                     [k \in DOMAIN @ \cup {id} |-> IF k = id THEN msg ELSE @[k]]]
                   /\ UNCHANGED progress
    BY DEF ReadMessage
  <1> DEFINE id == Selector(number)
  <1>3. msgtab \in Seq(Groups) /\ Len(msgtab) \in Nat
    BY LenProperties DEF ResInv
  <1>4. CASE id > 255
    <2>1. progress' = "failed" /\ msgtab' = msgtab
      BY <1>2, <1>4
    <2> QED BY <1>1, <1>3, <2>1, StillReading
  <1>5. CASE ~(id > 255)
    <2>1. /\ msgtab' = [msgtab EXCEPT ![Len(msgtab)] =
                        [k \in DOMAIN @ \cup {id} |-> IF k = id THEN msg ELSE @[k]]]
          /\ progress' = progress
      BY <1>2, <1>5
    <2>2. id \in 0 .. 255
      <3>1. number \in Nat
        BY NumbersAssumption
      <3>2. id \in Nat
        BY <3>1 DEF Selector, Wrap
      <3> HIDE DEF id
      <3> QED BY <1>5, <3>2
    <2>3. Len(msgtab) \in 1 .. Len(msgtab)
      BY <1>1, <1>3, EmptySeq
    <2> HIDE DEF id
    <2> DEFINE g == msgtab[Len(msgtab)]
               h == [k \in DOMAIN g \cup {id} |-> IF k = id THEN msg ELSE g[k]]
    <2>4. h \in Groups
      <3>1. g \in Groups
        BY <1>3, <2>3, ElementOfSeq
      <3>2. PICK d \in SUBSET (0 .. 255) : g \in [d -> Messages]
        BY <3>1 DEF Groups
      <3> HIDE DEF g
      <3>4. h \in [{id} \cup d -> Messages]
        BY <3>2
      <3>5. {id} \cup d \in SUBSET (0 .. 255)
        BY <2>2, <3>2
      <3> QED BY <3>4, <3>5 DEF Groups
    <2>5. msgtab' = [msgtab EXCEPT ![Len(msgtab)] = h]
      BY <2>1
    <2> HIDE DEF h
    <2>6. msgtab' \in Seq(Groups)
      BY <1>3, <2>3, <2>4, <2>5, ExceptSeq
    <2> QED BY <1>1, <2>1, <2>6, StillReading
  <1> QED BY <1>4, <1>5

LEMMA TextEndsStep == ResInv /\ (BadLine \/ EndOfText) => ResInv'
  <1> SUFFICES ASSUME ResInv, BadLine \/ EndOfText PROVE ResInv'
    OBVIOUS
  <1>1. /\ progress = "read" /\ progress' \in {"failed", "sizes"} /\ msgtab' = msgtab
        /\ UNCHANGED <<resFile, lister>>
    BY DEF BadLine, EndOfText
  <1>2. msgtab' \in Seq(Groups)
    BY <1>1 DEF ResInv
  <1> QED BY <1>1, <1>2, StillReading

LEMMA WriteSizeStep == ResInv /\ WriteSize => ResInv'
  <1> SUFFICES ASSUME ResInv, WriteSize PROVE ResInv'
    OBVIOUS
  <1>1. /\ progress = "sizes" /\ msgtab' = msgtab /\ words' = words /\ strings' = strings /\ end' = end
        /\ cur' = cur /\ sel' = sel /\ listing' = listing
    BY DEF WriteSize, lister
  <1>2. /\ cur = 1 /\ words = <<>> /\ strings = <<>> /\ end = 0 /\ sel = 0 /\ listing = <<>>
        /\ msgtab \in Seq(Groups) /\ sizes \in Seq(Nat) /\ Len(msgtab) \in Nat /\ Len(sizes) \in Nat
        /\ Len(sizes) <= Len(msgtab)
        /\ \A k \in 1 .. Len(sizes) : sizes[k] = GroupLen(msgtab[k]) % Wrap
    <2>1. msgtab \in Seq(Groups) /\ sizes \in Seq(Nat)
      BY DEF ResInv
    <2>2. Len(msgtab) \in Nat /\ Len(sizes) \in Nat
      BY <2>1, LenProperties
    <2> QED BY <1>1, <2>1, <2>2 DEF ResInv, SizesRight, FileRight, ListingRight, Compiled
  <1>3. <<>> \in Seq(Given') /\ Len(<<>>) = 0
    BY EmptySeq
  <1>4. CASE Len(sizes) = Len(msgtab)
    <2>1. progress' = "groups" /\ sizes' = sizes
      BY <1>4 DEF WriteSize
    <2>2. ~Compiled'
      BY <2>1 DEF Compiled
    <2>3. SizesRight'
      BY <1>1, <1>2, <1>4, <2>1 DEF SizesRight
    <2>4. WrittenUpto(1)'
      <3>1. GroupStart(1)' = 0
        <4>1. sizes' \in Seq(Nat)
          BY <1>2, <2>1
        <4>2. (sizes \in Seq(Nat) => GroupStart(1) = 0)'
          BY StartFacts, PTL
        <4> QED BY <4>1, <4>2
      <3>2. end' = 0 /\ DOMAIN words' = {} /\ DOMAIN strings' = {} /\ 1 .. (1 - 1) = {}
        BY <1>1, <1>2
      <3> QED BY <3>1, <3>2 DEF WrittenUpto
    <2>5. FileRight'
      <3>1. cur' = 1 /\ 1 \in 1 .. Len(msgtab') + 1
        BY <1>1, <1>2
      <3>2. WrittenUpto(cur)'
        BY <2>4, <3>1 DEF WrittenUpto, GroupWritten
      <3> QED BY <2>1, <2>2, <3>1, <3>2 DEF FileRight
    <2>6. ListingRight'
      BY <1>1, <1>2, <2>2 DEF ListingRight
    <2> QED BY <1>1, <1>2, <1>3, <2>1, <2>3, <2>5, <2>6 DEF ResInv
  <1>5. CASE Len(sizes) # Len(msgtab)
    <2> DEFINE size == GroupLen(msgtab[Len(sizes) + 1]) % Wrap
    <2>1. progress' = progress /\ sizes' = Append(sizes, size)
      BY <1>5 DEF WriteSize
    <2>2. Len(sizes) + 1 \in 1 .. Len(msgtab)
      BY <1>2, <1>5
    <2>3. size \in Nat
      <3>1. GroupLen(msgtab[Len(sizes) + 1]) \in Nat
        BY <1>2, <2>2, GroupsAre
      <3> QED BY <3>1 DEF Wrap
    <2>4. /\ sizes' \in Seq(Nat) /\ Len(sizes') = Len(sizes) + 1
          /\ \A k \in 1 .. Len(sizes) : sizes'[k] = sizes[k]
          /\ sizes'[Len(sizes) + 1] = GroupLen(msgtab[Len(sizes) + 1]) % Wrap
      <3> HIDE DEF size
      <3>1. /\ sizes' \in Seq(Nat) /\ Len(sizes') = Len(sizes) + 1
            /\ \A k \in 1 .. Len(sizes) : sizes'[k] = sizes[k]
            /\ sizes'[Len(sizes) + 1] = size
        BY <1>2, <2>1, <2>3, AppendProperties
      <3> QED BY <3>1 DEF size
    <2>5. \A k \in 1 .. Len(sizes') : sizes'[k] = GroupLen(msgtab'[k]) % Wrap
      <3>1. \A k \in 1 .. Len(sizes) + 1 : k \in 1 .. Len(sizes) \/ k = Len(sizes) + 1
        BY <1>2
      <3> QED BY <1>1, <1>2, <2>4, <3>1
    <2>6. Len(sizes') \in 0 .. Len(msgtab')
      BY <1>1, <1>2, <2>2, <2>4
    <2>7. progress' = "sizes" /\ ~Compiled'
      BY <1>1, <2>1 DEF Compiled
    <2>8. SizesRight'
      BY <2>5, <2>6, <2>7 DEF SizesRight
    <2>9. FileRight'
      BY <1>1, <1>2, <2>7 DEF FileRight
    <2>10. ListingRight'
      BY <1>1, <1>2, <2>7 DEF ListingRight
    <2> QED BY <1>1, <1>2, <1>3, <2>4, <2>7, <2>8, <2>9, <2>10 DEF ResInv
  <1> QED BY <1>4, <1>5

(* The sizes add up to where the file goes on. *)
LEMMA NextStart ==
    ASSUME ResInv, Fits, Len(sizes) = Len(msgtab), NEW k \in 1 .. Len(msgtab)
    PROVE  /\ GroupStart(k + 1) = GroupStart(k) + GroupLen(msgtab[k])
           /\ GroupStart(k) \in Nat /\ GroupLen(msgtab[k]) \in Nat
           /\ sizes[k] = GroupLen(msgtab[k])
  <1>1. sizes \in Seq(Nat) /\ msgtab \in Seq(Groups)
    BY DEF ResInv
  <1>2. sizes[k] = GroupLen(msgtab[k]) % Wrap
    BY DEF ResInv, SizesRight
  <1>3. GroupLen(msgtab[k]) \in Nat /\ GroupLen(msgtab[k]) % Wrap = GroupLen(msgtab[k]) /\ Len(msgtab) \in Nat
    BY <1>1, GroupsAre
  <1>4. k \in 1 .. Len(sizes) /\ k \in 1 .. Len(sizes) + 1
    BY <1>3
  <1> QED BY <1>1, <1>2, <1>3, <1>4, StartFacts

(* The next group goes behind the others, and leaves them as they are. *)
LEMMA GroupGoesBehind ==
    ASSUME ResInv, Fits, WriteGroup, progress = "groups", cur \in 1 .. Len(msgtab),
           NEW c, c = cur + 1
    PROVE  WrittenUpto(c)'
  <1> DEFINE g == msgtab[cur]
             top == MaxSel(g)
             glen == GroupLen(g)
             W == [at \in {end + 2 * id : id \in DOMAIN Table(g)} |-> Table(g)[(at - end) \div 2]]
             S == [at \in {end + Position(g, id) : id \in DOMAIN g} |->
                     g[CHOOSE id \in DOMAIN g : end + Position(g, id) = at]]
  <1>1. /\ words' = Extended(words, W) /\ strings' = Extended(strings, S)
        /\ end' = end + glen /\ cur' = cur + 1 /\ progress' = progress
        /\ msgtab' = msgtab /\ sizes' = sizes
    <2>1. ~(cur > Len(msgtab))
      <3>1. Len(msgtab) \in Nat
        BY LenProperties DEF ResInv
      <3> QED BY <3>1
    <2> QED BY <2>1 DEF WriteGroup
  <1>2. Len(sizes) = Len(msgtab) /\ WrittenUpto(cur)
    BY DEF ResInv, SizesRight, FileRight
  <1>3. /\ g \in Groups /\ Len(msgtab) \in Nat /\ cur \in Nat
        /\ end = GroupStart(cur) /\ end \in Nat /\ glen \in Nat
        /\ GroupStart(cur + 1) = end + glen
    <2>1. msgtab \in Seq(Groups)
      BY DEF ResInv
    <2>2. g \in Groups /\ Len(msgtab) \in Nat
      BY <2>1, GroupsAre
    <2>3. end = GroupStart(cur)
      BY <1>2 DEF WrittenUpto
    <2>4. cur \in Nat
      BY <2>2
    <2> QED BY <1>2, <2>2, <2>3, <2>4, NextStart
  <1>4. top \in Nat /\ \A id \in 0 .. top : id \in Nat /\ 2 * id < glen
    <2>1. top \in Nat /\ 2 * (top + 1) <= glen
      <3>1. top \in Nat
        BY <1>3, MaxSelFacts
      <3>2. top + 1 \in Nat
        BY <3>1
      <3>3. 2 * (top + 1) <= Position(g, top + 1)
        BY <1>3, <3>2, PositionFacts
      <3> QED BY <3>1, <3>3 DEF GroupLen
    <2> HIDE DEF top, glen
    <2> QED BY <1>3, <2>1
  <1>5. \A id \in DOMAIN g : /\ Position(g, id) \in Nat /\ Position(g, id) < glen
                             /\ \A k \in DOMAIN g : Position(g, k) = Position(g, id) => k = id
    <2>1. DOMAIN g \in SUBSET Nat
      BY <1>3, GroupFacts
    <2> QED BY <1>3, <2>1, MessagesApart, PositionFacts
  <1>6. \A at \in DOMAIN words \cup DOMAIN strings : at \in Nat /\ at < end
    BY <1>2 DEF WrittenUpto
  <1>7. DOMAIN Table(g) = 0 .. top
    BY DEF Table
  <1>8. \A id \in 0 .. top : end + 2 * id \in DOMAIN W /\ W[end + 2 * id] = Table(g)[id]
    <2> HIDE DEF top, g
    <2>2. ASSUME NEW id \in 0 .. top
          PROVE  end + 2 * id \in DOMAIN W /\ W[end + 2 * id] = Table(g)[id]
      <3> DEFINE at == end + 2 * id
      <3>1. at \in {end + 2 * k : k \in DOMAIN Table(g)}
        BY <1>7
      <3>2. (at - end) \div 2 = id
        BY <1>3, <1>4
      <3> HIDE DEF at
      <3>3. at \in DOMAIN W /\ W[at] = Table(g)[id]
        BY <3>1, <3>2
      <3> QED BY <3>3 DEF at
    <2> QED BY <2>2
  <1>9. ASSUME NEW id \in DOMAIN g
        PROVE  end + Position(g, id) \in DOMAIN S /\ S[end + Position(g, id)] = g[id]
    <2> DEFINE at == end + Position(g, id)
               m == CHOOSE k \in DOMAIN g : end + Position(g, k) = at
    <2>1. m \in DOMAIN g /\ end + Position(g, m) = at
      <3>1. \E k \in DOMAIN g : end + Position(g, k) = at
        BY <1>9
      <3> HIDE DEF at
      <3> QED BY <3>1
    <2>2. at \in {end + Position(g, k) : k \in DOMAIN g}
      BY <1>9
    <2>3. S[at] = g[m] /\ at \in DOMAIN S
      BY <2>2
    <2> HIDE DEF m, S
    <2>4. Position(g, m) = Position(g, id)
      <3> DEFINE u == Position(g, m)
                 v == Position(g, id)
      <3>1. u \in Nat /\ v \in Nat /\ end + u = end + v /\ end \in Nat
        BY <1>3, <1>5, <1>9, <2>1
      <3> HIDE DEF u, v
      <3>2. u = v
        BY <3>1
      <3> QED BY <3>2 DEF u, v
    <2>5. m = id
      BY <1>5, <1>9, <2>1, <2>4
    <2> QED BY <2>3, <2>5
  <1>10. (\A at \in DOMAIN W : at \in Nat /\ end <= at /\ at < end + glen)
         /\ (\A at \in DOMAIN S : at \in Nat /\ end <= at /\ at < end + glen)
    <2>1. \A m \in Nat : m < glen => end + m \in Nat /\ end <= end + m /\ end + m < end + glen
      <3> HIDE DEF glen
      <3> QED BY <1>3
    <2>2. ASSUME NEW at \in DOMAIN W
          PROVE  at \in Nat /\ end <= at /\ at < end + glen
      <3>1. PICK id \in 0 .. top : at = end + 2 * id
        BY <1>7
      <3>2. 2 * id \in Nat /\ 2 * id < glen
        BY <1>4
      <3> HIDE DEF W, glen
      <3> QED BY <2>1, <3>1, <3>2
    <2>3. ASSUME NEW at \in DOMAIN S
          PROVE  at \in Nat /\ end <= at /\ at < end + glen
      <3>1. PICK id \in DOMAIN g : at = end + Position(g, id)
        OBVIOUS
      <3>2. Position(g, id) \in Nat /\ Position(g, id) < glen
        BY <1>5
      <3> HIDE DEF S, glen, g
      <3> QED BY <2>1, <3>1, <3>2
    <2> HIDE DEF W, S
    <2> QED BY <2>2, <2>3
  <1> HIDE DEF W, S
  <1>11. \A at \in DOMAIN W \cup DOMAIN S : at \notin DOMAIN words /\ at \notin DOMAIN strings
    <2>1. \A at : ~(at \in Nat /\ end <= at /\ at < end)
      BY <1>3
    <2> QED BY <1>6, <1>10, <2>1
  <1>12. /\ DOMAIN words' = DOMAIN words \cup DOMAIN W
         /\ DOMAIN strings' = DOMAIN strings \cup DOMAIN S
         /\ \A at \in DOMAIN words : words'[at] = words[at]
         /\ \A at \in DOMAIN strings : strings'[at] = strings[at]
         /\ \A at \in DOMAIN W : words'[at] = W[at]
         /\ \A at \in DOMAIN S : strings'[at] = S[at]
    <2>1. /\ DOMAIN words' = DOMAIN words \cup DOMAIN W
          /\ \A at \in DOMAIN words : words'[at] = words[at]
          /\ \A at \in DOMAIN W : words'[at] = W[at]
      <3>1. \A at \in DOMAIN W : at \notin DOMAIN words
        BY <1>11
      <3> QED BY <1>1, <3>1 DEF Extended
    <2>2. /\ DOMAIN strings' = DOMAIN strings \cup DOMAIN S
          /\ \A at \in DOMAIN strings : strings'[at] = strings[at]
          /\ \A at \in DOMAIN S : strings'[at] = S[at]
      <3>1. \A at \in DOMAIN S : at \notin DOMAIN strings
        BY <1>11
      <3> QED BY <1>1, <3>1 DEF Extended
    <2> QED BY <2>1, <2>2
  <1>13. ASSUME NEW k \in 1 .. cur
         PROVE  GroupWritten(k)'
    <2>1. GroupStart(k)' = GroupStart(k)
      BY <1>1 DEF GroupStart
    <2>2. CASE k = cur
      <3>1. GroupStart(k) = end
        BY <1>3, <2>2
      <3>2. /\ \A id \in 0 .. MaxSel(g) : /\ end + 2 * id \in DOMAIN words'
                                          /\ words'[end + 2 * id] = Table(g)[id]
            /\ \A id \in DOMAIN g : /\ end + Position(g, id) \in DOMAIN strings'
                                    /\ strings'[end + Position(g, id)] = g[id]
        BY <1>8, <1>9, <1>12
      <3>3. msgtab'[k] = g
        BY <1>1, <2>2
      <3> HIDE DEF g
      <3> QED BY <2>1, <3>1, <3>2, <3>3 DEF GroupWritten
    <2>3. CASE k # cur
      <3>1. k \in 1 .. cur - 1
        BY <1>3, <2>3
      <3>2. GroupWritten(k)
        BY <1>2, <3>1 DEF WrittenUpto
      <3> QED BY <1>1, <1>12, <2>1, <3>2 DEF GroupWritten
    <2> QED BY <2>2, <2>3
  <1>14. end' = GroupStart(c)'
    BY <1>1, <1>3 DEF GroupStart
  <1>15. \A at \in DOMAIN words' \cup DOMAIN strings' : at \in Nat /\ at < end'
    <2>1. \A at \in DOMAIN words \cup DOMAIN strings : at \in Nat /\ at < end + glen
      <3> HIDE DEF glen
      <3>1. \A at \in Nat : at < end => at < end + glen
        BY <1>3
      <3> QED BY <1>6, <3>1
    <2> QED BY <1>1, <1>10, <1>12, <2>1
  <1>16. 1 .. c - 1 = 1 .. cur
    BY <1>3
  <1> QED BY <1>13, <1>14, <1>15, <1>16 DEF WrittenUpto

LEMMA ShownFacts ==
    ASSUME msgtab \in Seq(Groups)
    PROVE  /\ IsFiniteSet(Given)
           /\ \A k \in 1 .. Len(msgtab) : \A id \in DOMAIN msgtab[k] : <<k, id, msgtab[k][id]>> \in Given
           /\ \A e \in Given : /\ e[1] \in 1 .. Len(msgtab) /\ e[2] \in DOMAIN msgtab[e[1]]
                               /\ e[1] \in Nat /\ e[2] \in Nat
                               /\ e = <<e[1], e[2], msgtab[e[1]][e[2]]>>
  <1>1. /\ Len(msgtab) \in Nat /\ DOMAIN msgtab = 1 .. Len(msgtab)
        /\ \A k \in 1 .. Len(msgtab) : msgtab[k] \in Groups
    BY GroupsAre
  <1>2. \A k \in 1 .. Len(msgtab) : \A id \in DOMAIN msgtab[k] : <<k, id, msgtab[k][id]>> \in Given
    BY <1>1 DEF Given
  <1>3. ASSUME NEW e \in Given
        PROVE  /\ e[1] \in 1 .. Len(msgtab) /\ e[2] \in DOMAIN msgtab[e[1]]
               /\ e[1] \in Nat /\ e[2] \in Nat
               /\ e = <<e[1], e[2], msgtab[e[1]][e[2]]>>
    <2>1. PICK k \in 1 .. Len(msgtab) : \E id \in DOMAIN msgtab[k] : e = <<k, id, msgtab[k][id]>>
      BY <1>1 DEF Given
    <2>2. PICK id \in DOMAIN msgtab[k] : e = <<k, id, msgtab[k][id]>>
      BY <2>1
    <2>3. k \in Nat /\ id \in Nat
      BY <1>1, GroupFacts
    <2> QED BY <2>2, <2>3
  <1>4. IsFiniteSet(Given)
    <2> DEFINE Pairs == (1 .. Len(msgtab)) \X (0 .. 255)
               Entries == {<<e[1], e[2], msgtab[e[1]][e[2]]>> : e \in Pairs}
    <2>1. IsFiniteSet(1 .. Len(msgtab)) /\ IsFiniteSet(0 .. 255)
      <3>1. 0 \in Int /\ 1 \in Int /\ 255 \in Int /\ Len(msgtab) \in Int
        BY <1>1
      <3> QED BY <3>1, FS_Interval
    <2>2. IsFiniteSet(Pairs)
      BY <2>1, FS_Product
    <2>3. IsFiniteSet(Entries)
      <3> DEFINE f == [e \in Pairs |-> <<e[1], e[2], msgtab[e[1]][e[2]]>>]
      <3>1. f \in Surjection(Pairs, Entries)
        <4>1. \A e \in Pairs : f[e] \in Entries
          OBVIOUS
        <4>2. \A x \in Entries : \E e \in Pairs : f[e] = x
          OBVIOUS
        <4> HIDE DEF Entries, Pairs
        <4> QED BY <4>1, <4>2 DEF Surjection
      <3> HIDE DEF f, Entries, Pairs
      <3> QED BY <2>2, <3>1, FS_Surjection
    <2>4. Given \in SUBSET Entries
      <3>1. ASSUME NEW e \in Given
            PROVE  \E pr \in Pairs : e = <<pr[1], pr[2], msgtab[pr[1]][pr[2]]>>
        <4> DEFINE pr == <<e[1], e[2]>>
        <4>1. e[2] \in 0 .. 255
          <5>1. e[2] \in DOMAIN msgtab[e[1]] /\ msgtab[e[1]] \in Groups
            BY <1>1, <1>3
          <5> QED BY <5>1, GroupFacts
        <4>2. pr \in Pairs /\ pr[1] = e[1] /\ pr[2] = e[2]
          BY <1>3, <4>1
        <4>3. e = <<pr[1], pr[2], msgtab[pr[1]][pr[2]]>>
          BY <1>3, <4>2
        <4> HIDE DEF pr, Pairs
        <4> QED BY <4>2, <4>3
      <3> HIDE DEF Pairs
      <3> QED BY <3>1
    <2> HIDE DEF Entries
    <2> QED BY <2>3, <2>4, FS_Subset
  <1> QED BY <1>2, <1>3, <1>4

LEMMA GivenAreNumbered ==
    msgtab \in Seq(Groups) => \A e \in Given : e[1] \in 1 .. Len(msgtab) /\ e[2] \in Nat
  BY ShownFacts

(* One entry more. *)
LEMMA ListingGrows ==
    ASSUME NEW q \in Seq(Given), NEW T, IsFiniteSet(T), ToSet(q) = T, Len(q) = Cardinality(T),
           NEW e \in Given, e \notin T
    PROVE  /\ Append(q, e) \in Seq(Given)
           /\ ToSet(Append(q, e)) = T \cup {e} /\ Len(Append(q, e)) = Cardinality(T \cup {e})
  <1>1. Len(q) \in Nat /\ DOMAIN q = 1 .. Len(q)
    BY LenProperties
  <1> DEFINE r == Append(q, e)
  <1>2. /\ r \in Seq(Given) /\ Len(r) = Len(q) + 1
        /\ \A i \in 1 .. Len(q) : r[i] = q[i]
        /\ r[Len(q) + 1] = e
    BY AppendProperties
  <1>3. DOMAIN r = 1 .. Len(q) + 1
    BY <1>2, LenProperties
  <1> HIDE DEF r
  <1>4. \A i \in 1 .. Len(q) + 1 : i \in 1 .. Len(q) \/ i = Len(q) + 1
    BY <1>1
  <1>5. \A i \in 1 .. Len(q) : i \in 1 .. Len(q) + 1
    BY <1>1
  <1>6. Len(q) + 1 \in 1 .. Len(q) + 1
    BY <1>1
  <1>7. ToSet(r) = ToSet(q) \cup {e}
    <2>1. ToSet(r) = {r[i] : i \in 1 .. Len(q) + 1} /\ ToSet(q) = {q[i] : i \in 1 .. Len(q)}
      BY <1>1, <1>3 DEF ToSet
    <2>2. \A x \in ToSet(r) : x \in ToSet(q) \cup {e}
      BY <1>2, <1>4, <2>1
    <2>3. \A x \in ToSet(q) : x \in ToSet(r)
      BY <1>2, <1>5, <2>1
    <2>4. e \in ToSet(r)
      BY <1>2, <1>6, <2>1
    <2> QED BY <2>2, <2>3, <2>4
  <1>8. Cardinality(T \cup {e}) = Cardinality(T) + 1
    BY FS_AddElement
  <1> QED BY <1>2, <1>7, <1>8 DEF r

LEMMA WriteGroupStep == ResInv /\ WriteGroup => ResInv'
  <1> SUFFICES ASSUME ResInv, WriteGroup PROVE ResInv'
    OBVIOUS
  <1>1. /\ progress = "groups" /\ msgtab' = msgtab /\ sizes' = sizes /\ sel' = sel /\ listing' = listing
        /\ progress' \in {"groups", "written"}
    BY DEF WriteGroup
  <1>2. /\ sel = 0 /\ listing = <<>> /\ cur \in 1 .. Len(msgtab) + 1 /\ Len(sizes) = Len(msgtab)
        /\ msgtab \in Seq(Groups) /\ sizes \in Seq(Nat)
    BY <1>1 DEF ResInv, SizesRight, FileRight, ListingRight, Compiled
  <1>3. /\ Len(msgtab) \in Nat /\ DOMAIN msgtab = 1 .. Len(msgtab) /\ cur \in Nat
        /\ \A k \in 1 .. Len(msgtab) : msgtab[k] \in Groups
    <2>1. Len(msgtab) \in Nat
      BY <1>2, LenProperties
    <2> QED BY <1>2, <2>1, GroupsAre
  <1>4. SizesRight'
    BY <1>1, <1>2 DEF ResInv, SizesRight
  <1>5. <<>> \in Seq(Given') /\ Len(<<>>) = 0 /\ ToSet(<<>>) = {}
    BY EmptySeq DEF ToSet
  <1>6. Fits' <=> Fits
    BY <1>1 DEF Fits
  <1>7. CASE cur > Len(msgtab)
    <2>1. progress' = "written" /\ cur' = 1 /\ words' = words /\ strings' = strings /\ end' = end
      BY <1>7 DEF WriteGroup
    <2>2. cur = Len(msgtab) + 1
      BY <1>2, <1>3, <1>7
    <2>3. ASSUME Fits PROVE WrittenUpto(Len(msgtab) + 1)'
      <3>1. WrittenUpto(Len(msgtab) + 1)
        BY <1>1, <2>2, <2>3 DEF ResInv, FileRight
      <3> QED BY <1>1, <2>1, <3>1 DEF WrittenUpto, GroupWritten, GroupStart
    <2>4. FileRight'
      BY <1>6, <2>1, <2>3 DEF FileRight
    <2>5. Compiled' /\ sel' = 0 /\ listing' = <<>>
      BY <1>1, <1>2, <2>1 DEF Compiled
    <2>6. Shown(1, 0)' = {}
      <3>1. msgtab' \in Seq(Groups)
        BY <1>1, <1>2
      <3>2. \A e \in Given' : e[1] \in 1 .. Len(msgtab') /\ e[2] \in Nat
        <4>1. (msgtab \in Seq(Groups) => \A e \in Given : e[1] \in 1 .. Len(msgtab) /\ e[2] \in Nat)'
          BY GivenAreNumbered, PTL
        <4> QED BY <3>1, <4>1
      <3>3. \A k \in 1 .. Len(msgtab') : ~(k < 1)
        BY <1>1, <1>3
      <3>4. \A id \in Nat : ~(id < 0)
        OBVIOUS
      <3> QED BY <3>2, <3>3, <3>4 DEF Shown
    <2>7. ListingRight'
      <3>1. 1 \in 1 .. Len(msgtab') + 1
        BY <1>1, <1>3
      <3>2. 0 \in IF 1 <= Len(msgtab') THEN 0 .. MaxSel(msgtab'[1]) ELSE {0}
        <4>1. 1 <= Len(msgtab) => MaxSel(msgtab[1]) \in Nat
          BY <1>3, MaxSelFacts
        <4>2. 1 <= Len(msgtab) => 0 \in 0 .. MaxSel(msgtab[1])
          BY <4>1
        <4> QED BY <1>1, <4>2
      <3>3. Cardinality({}) = 0
        BY FS_EmptySet
      <3>4. Shown(cur, sel)' = {}
        BY <2>1, <2>5, <2>6 DEF Shown
      <3> QED BY <1>5, <2>1, <2>5, <3>1, <3>2, <3>3, <3>4 DEF ListingRight
    <2> QED BY <1>1, <1>2, <1>4, <1>5, <2>1, <2>4, <2>5, <2>7 DEF ResInv
  <1>8. CASE ~(cur > Len(msgtab))
    <2>1. cur \in 1 .. Len(msgtab) /\ cur' = cur + 1 /\ progress' = "groups"
      BY <1>1, <1>2, <1>3, <1>8 DEF WriteGroup
    <2>2. ~Compiled'
      BY <2>1 DEF Compiled
    <2>3. cur' \in 1 .. Len(msgtab') + 1
      BY <1>1, <1>3, <2>1
    <2>4. ASSUME Fits PROVE WrittenUpto(cur)'
      <3>1. PICK c : c = cur + 1
        OBVIOUS
      <3>2. WrittenUpto(c)'
        BY <1>1, <2>1, <2>4, <3>1, GroupGoesBehind
      <3>3. c = cur'
        BY <2>1, <3>1
      <3> QED BY <3>2, <3>3 DEF WrittenUpto, GroupWritten
    <2>5. FileRight'
      BY <1>6, <2>1, <2>2, <2>3, <2>4 DEF FileRight
    <2>6. ListingRight'
      BY <1>1, <1>2, <2>2 DEF ListingRight
    <2> QED BY <1>1, <1>2, <1>4, <1>5, <2>1, <2>5, <2>6 DEF ResInv
  <1> QED BY <1>7, <1>8

(* What is shown goes on with the selectors, and from a group to the next. *)
LEMMA ShownGrows ==
    ASSUME msgtab \in Seq(Groups), NEW k \in 1 .. Len(msgtab), NEW id \in Nat
    PROVE  /\ id \notin DOMAIN msgtab[k] => Shown(k, id + 1) = Shown(k, id)
           /\ id \in DOMAIN msgtab[k] =>
                 /\ Shown(k, id + 1) = Shown(k, id) \cup {<<k, id, msgtab[k][id]>>}
                 /\ <<k, id, msgtab[k][id]>> \in Given \ Shown(k, id)
           /\ id = MaxSel(msgtab[k]) => Shown(k + 1, 0) = Shown(k, id + 1)
           /\ Shown(k, id) \in SUBSET Given /\ IsFiniteSet(Shown(k, id))
  <1>1. /\ Len(msgtab) \in Nat /\ k \in Nat
        /\ \A j \in 1 .. Len(msgtab) : msgtab[j] \in Groups
    BY GroupsAre
  <1>2. \A e \in Given : /\ e[1] \in 1 .. Len(msgtab) /\ e[2] \in DOMAIN msgtab[e[1]]
                         /\ e[1] \in Nat /\ e[2] \in Nat
                         /\ e = <<e[1], e[2], msgtab[e[1]][e[2]]>>
    BY ShownFacts
  <1>3. \A a \in Nat : /\ a < id + 1 <=> a < id \/ a = id
                       /\ a < k + 1 <=> a < k \/ a = k
                       /\ ~(a < 0) /\ ~(a < a)
    BY <1>1
  <1>4. ASSUME id \notin DOMAIN msgtab[k]
        PROVE  Shown(k, id + 1) = Shown(k, id)
    <2>1. \A e \in Given : ~(e[1] = k /\ e[2] = id)
      BY <1>2, <1>4
    <2>2. \A e \in Given : e[2] < id + 1 <=> e[2] < id \/ e[2] = id
      BY <1>2, <1>3
    <2>3. \A e \in Given : (e[1] = k /\ e[2] < id + 1) <=> (e[1] = k /\ e[2] < id)
      BY <2>1, <2>2
    <2>4. Shown(k, id + 1) = Shown(k, id)
      BY <2>3 DEF Shown
    <2> QED BY <2>4
  <1>5. ASSUME id \in DOMAIN msgtab[k]
        PROVE  /\ Shown(k, id + 1) = Shown(k, id) \cup {<<k, id, msgtab[k][id]>>}
               /\ <<k, id, msgtab[k][id]>> \in Given \ Shown(k, id)
    <2> DEFINE entry == <<k, id, msgtab[k][id]>>
    <2>1. entry \in Given /\ entry[1] = k /\ entry[2] = id
      BY <1>5, ShownFacts
    <2>2. \A e \in Given : e[1] = k /\ e[2] = id => e = entry
      BY <1>2
    <2> HIDE DEF entry
    <2>3. Shown(k, id + 1) = Shown(k, id) \cup {entry}
      BY <1>2, <1>3, <2>1, <2>2 DEF Shown
    <2>4. entry \notin Shown(k, id)
      <3>1. ~(entry[1] < k) /\ ~(entry[2] < id)
        BY <1>1, <1>3, <2>1
      <3> QED BY <3>1 DEF Shown
    <2> QED BY <2>1, <2>3, <2>4 DEF entry
  <1>6. ASSUME id = MaxSel(msgtab[k])
        PROVE  Shown(k + 1, 0) = Shown(k, id + 1)
    <2>1. \A e \in Given : e[1] = k => e[2] < id + 1
      <3>1. \A j \in DOMAIN msgtab[k] : j <= id
        BY <1>1, <1>6, MaxSelFacts
      <3>2. \A j \in Nat : j <= id => j < id + 1
        OBVIOUS
      <3> QED BY <1>2, <3>1, <3>2
    <2> QED BY <1>2, <1>3, <2>1 DEF Shown
  <1>7. Shown(k, id) \in SUBSET Given /\ IsFiniteSet(Shown(k, id))
    <2>1. Shown(k, id) \in SUBSET Given
      BY DEF Shown
    <2> QED BY <2>1, ShownFacts, FS_Subset
  <1> QED BY <1>4, <1>5, <1>6, <1>7

(* Past the last group all is shown. *)
LEMMA AllShown ==
    ASSUME msgtab \in Seq(Groups)
    PROVE  Shown(Len(msgtab) + 1, 0) = Given
  <1>1. \A e \in Given : e[1] < Len(msgtab) + 1
    <2>1. Len(msgtab) \in Nat
      BY GroupsAre
    <2>2. \A j \in 1 .. Len(msgtab) : j < Len(msgtab) + 1
      BY <2>1
    <2> QED BY <2>2, ShownFacts
  <1> QED BY <1>1 DEF Shown

(* What the lister reads at the selector it is at. *)
LEMMA EntryFacts ==
    ASSUME ResInv, progress = "written", Fits, NoMessages \notin ToSet(msgtab), cur \in 1 .. Len(msgtab),
           NEW at, at = GroupStart(cur) + 2 * sel,
           NEW g, g = msgtab[cur]
    PROVE  /\ g \in Groups /\ sel \in Nat /\ MaxSel(g) \in Nat /\ sel <= MaxSel(g)
           /\ at \in DOMAIN words /\ ~(2 * sel >= sizes[cur])
           /\ sel \notin DOMAIN g => words[at] = 0 /\ sel # MaxSel(g)
           /\ sel \in DOMAIN g =>
                 /\ words[at] # 0
                 /\ GroupStart(cur) + words[at] \in DOMAIN strings
                 /\ strings[GroupStart(cur) + words[at]] = g[sel]
                 /\ (words[at] + Room(g[sel]) >= sizes[cur] <=> sel = MaxSel(g))
  <1>1. msgtab \in Seq(Groups) /\ Compiled /\ Len(sizes) = Len(msgtab) /\ WrittenUpto(Len(msgtab) + 1)
    BY DEF ResInv, SizesRight, FileRight, Compiled
  <1>2. /\ Len(msgtab) \in Nat /\ g \in Groups /\ DOMAIN msgtab = 1 .. Len(msgtab)
    BY <1>1, GroupsAre
  <1>3. GroupWritten(cur)
    <2>1. cur \in 1 .. Len(msgtab) + 1 - 1
      BY <1>2
    <2> QED BY <1>1, <2>1 DEF WrittenUpto
  <1>4. g # NoMessages
    BY <1>2 DEF ToSet
  <1>5. MaxSel(g) \in Nat /\ MaxSel(g) \in DOMAIN g
    BY <1>2, <1>4, MaxSelFacts
  <1>6. sel \in 0 .. MaxSel(g)
    <2>1. sel \in IF cur <= Len(msgtab) THEN 0 .. MaxSel(msgtab[cur]) ELSE {0}
      BY <1>1 DEF ResInv, ListingRight
    <2>2. cur <= Len(msgtab)
      BY <1>2
    <2> QED BY <2>1, <2>2
  <1>7. sel \in Nat /\ sel <= MaxSel(g)
    BY <1>5, <1>6
  <1>8. at \in DOMAIN words /\ words[at] = Table(g)[sel]
    BY <1>3, <1>6 DEF GroupWritten
  <1>9. sizes[cur] = GroupLen(g) /\ GroupLen(g) \in Nat /\ GroupLen(g) < Wrap
    BY <1>1, <1>2, NextStart DEF Fits
  <1>10. ~(2 * sel >= sizes[cur])
    <2> DEFINE t == MaxSel(g)
               b == GroupLen(g)
    <2>1. 2 * (t + 1) <= b /\ t \in Nat /\ b \in Nat /\ sel <= t
      <3>1. MaxSel(g) + 1 \in Nat
        BY <1>5
      <3>2. 2 * (MaxSel(g) + 1) <= Position(g, MaxSel(g) + 1)
        BY <1>2, <3>1, PositionFacts
      <3> QED BY <1>5, <1>7, <1>9, <3>2 DEF GroupLen
    <2>2. sizes[cur] = b
      BY <1>9
    <2> HIDE DEF t, b
    <2>3. ~(2 * sel >= b)
      BY <1>7, <2>1
    <2> QED BY <2>2, <2>3
  <1>11. Table(g)[sel] = IF sel \in DOMAIN g THEN Position(g, sel) ELSE 0
    BY <1>2, <1>6, <1>9, TableFacts
  <1>12. sel \notin DOMAIN g => words[at] = 0 /\ sel # MaxSel(g)
    BY <1>5, <1>8, <1>11
  <1>13. ASSUME sel \in DOMAIN g
         PROVE  /\ words[at] # 0
                /\ GroupStart(cur) + words[at] \in DOMAIN strings
                /\ strings[GroupStart(cur) + words[at]] = g[sel]
                /\ (words[at] + Room(g[sel]) >= sizes[cur] <=> sel = MaxSel(g))
    <2>1. words[at] = Position(g, sel) /\ words[at] # 0
      BY <1>2, <1>6, <1>8, <1>9, <1>11, <1>13, TableFacts
    <2>2. /\ GroupStart(cur) + Position(g, sel) \in DOMAIN strings
          /\ strings[GroupStart(cur) + Position(g, sel)] = g[sel]
      BY <1>3, <1>13 DEF GroupWritten
    <2>3. Position(g, sel) + Room(g[sel]) >= GroupLen(g) <=> sel = MaxSel(g)
      BY <1>2, <1>13, MessagesApart
    <2> QED BY <1>9, <2>1, <2>2, <2>3
  <1> QED BY <1>2, <1>5, <1>7, <1>8, <1>10, <1>12, <1>13

(* Each step of the lister either shows the message it is at or passes by an empty selector. *)
LEMMA ListingGoesOn ==
    ASSUME ResInv, ListEntry, Fits, NoMessages \notin ToSet(msgtab)
    PROVE  /\ progress' # "beyond"
           /\ cur' \in 1 .. Len(msgtab) + 1
           /\ sel' \in IF cur' <= Len(msgtab) THEN 0 .. MaxSel(msgtab[cur']) ELSE {0}
           /\ listing' \in Seq(Given)
           /\ ToSet(listing') = Shown(cur', sel') /\ Len(listing') = Cardinality(Shown(cur', sel'))
           /\ progress' = "listed" => cur' = Len(msgtab) + 1
  <1>1. progress = "written" /\ Compiled
    BY DEF ListEntry, Compiled
  <1>2. /\ Len(sizes) = Len(msgtab) /\ msgtab \in Seq(Groups) /\ cur \in 1 .. Len(msgtab) + 1
        /\ sel \in IF cur <= Len(msgtab) THEN 0 .. MaxSel(msgtab[cur]) ELSE {0}
        /\ listing \in Seq(Given)
        /\ ToSet(listing) = Shown(cur, sel) /\ Len(listing) = Cardinality(Shown(cur, sel))
    BY <1>1 DEF ResInv, SizesRight, ListingRight
  <1>3. /\ Len(msgtab) \in Nat /\ DOMAIN msgtab = 1 .. Len(msgtab)
        /\ \A k \in 1 .. Len(msgtab) : msgtab[k] \in Groups
    BY <1>2, GroupsAre
  <1>4. CASE cur > Len(msgtab)
    <2>1. progress' = "listed" /\ cur' = cur /\ sel' = sel /\ listing' = listing
      BY <1>2, <1>4 DEF ListEntry, lister
    <2>2. cur = Len(msgtab) + 1
      BY <1>2, <1>3, <1>4
    <2> QED BY <1>2, <2>1, <2>2
  <1>5. CASE ~(cur > Len(msgtab))
    <2>1. PICK at : at = GroupStart(cur) + 2 * sel
      OBVIOUS
    <2>2. PICK g : g = msgtab[cur]
      OBVIOUS
    <2>3. cur \in 1 .. Len(msgtab) /\ cur \in Nat /\ cur <= Len(msgtab) /\ cur + 1 \in 1 .. Len(msgtab) + 1
      BY <1>2, <1>3, <1>5
    <2>4. /\ g \in Groups /\ sel \in Nat /\ MaxSel(g) \in Nat /\ sel <= MaxSel(g)
          /\ at \in DOMAIN words /\ ~(2 * sel >= sizes[cur])
          /\ sel \notin DOMAIN g => words[at] = 0 /\ sel # MaxSel(g)
          /\ sel \in DOMAIN g =>
                /\ words[at] # 0
                /\ GroupStart(cur) + words[at] \in DOMAIN strings
                /\ strings[GroupStart(cur) + words[at]] = g[sel]
                /\ (words[at] + Room(g[sel]) >= sizes[cur] <=> sel = MaxSel(g))
      BY <1>1, <2>1, <2>2, <2>3, EntryFacts
    <2>5. sel # MaxSel(g) => sel + 1 \in 0 .. MaxSel(g)
      <3> DEFINE t == MaxSel(g)
      <3>1. t \in Nat /\ sel \in Nat /\ sel <= t
        BY <2>4
      <3> HIDE DEF t
      <3>2. sel # t => sel + 1 \in 0 .. t
        BY <3>1
      <3> QED BY <3>2 DEF t
    <2>6. CASE sel \notin DOMAIN g
      <3>1. progress' = progress /\ cur' = cur /\ sel' = sel + 1 /\ listing' = listing
        BY <1>2, <1>5, <2>1, <2>4, <2>6 DEF ListEntry
      <3>2. Shown(cur, sel + 1) = Shown(cur, sel)
        BY <1>2, <2>2, <2>3, <2>4, <2>6, ShownGrows
      <3>3. sel' \in IF cur' <= Len(msgtab) THEN 0 .. MaxSel(msgtab[cur']) ELSE {0}
        BY <2>2, <2>3, <2>4, <2>5, <2>6, <3>1
      <3> QED BY <1>1, <1>2, <3>1, <3>2, <3>3
    <2>7. CASE sel \in DOMAIN g
      <3> DEFINE entry == <<cur, sel, g[sel]>>
      <3>1. /\ progress' = progress /\ listing' = Append(listing, entry)
            /\ IF sel = MaxSel(g) THEN cur' = cur + 1 /\ sel' = 0 ELSE cur' = cur /\ sel' = sel + 1
        <4>1. /\ ~(cur > Len(sizes)) /\ ~(at \notin DOMAIN words \/ 2 * sel >= sizes[cur]) /\ words[at] # 0
              /\ ~(GroupStart(cur) + words[at] \notin DOMAIN strings)
          BY <1>2, <1>5, <2>4, <2>7
        <4>2. /\ listing' = Append(listing, <<cur, sel, strings[GroupStart(cur) + words[at]]>>)
              /\ IF words[at] + Room(strings[GroupStart(cur) + words[at]]) >= sizes[cur]
                 THEN cur' = cur + 1 /\ sel' = 0 ELSE sel' = sel + 1 /\ UNCHANGED cur
              /\ progress' = progress
          BY <2>1, <4>1 DEF ListEntry
        <4> QED BY <2>4, <2>7, <4>2
      <3>2. /\ Shown(cur, sel + 1) = Shown(cur, sel) \cup {entry}
            /\ entry \in Given /\ entry \notin Shown(cur, sel)
            /\ (sel = MaxSel(g) => Shown(cur + 1, 0) = Shown(cur, sel + 1))
            /\ IsFiniteSet(Shown(cur, sel))
        BY <1>2, <2>2, <2>3, <2>4, <2>7, ShownGrows
      <3>3. Shown(cur', sel') = Shown(cur, sel) \cup {entry}
        BY <3>1, <3>2
      <3> HIDE DEF entry
      <3>4. /\ listing' \in Seq(Given)
            /\ ToSet(listing') = Shown(cur, sel) \cup {entry}
            /\ Len(listing') = Cardinality(Shown(cur, sel) \cup {entry})
        BY <1>2, <3>1, <3>2, ListingGrows, SMTT(30)
      <3>5. cur' \in 1 .. Len(msgtab) + 1
        BY <1>2, <2>3, <3>1
      <3>6. sel' \in IF cur' <= Len(msgtab) THEN 0 .. MaxSel(msgtab[cur']) ELSE {0}
        <4>1. CASE sel = MaxSel(g)
          <5>1. cur + 1 <= Len(msgtab) => 0 \in 0 .. MaxSel(msgtab[cur + 1])
            <6>1. cur + 1 <= Len(msgtab) => cur + 1 \in 1 .. Len(msgtab)
              BY <1>3, <2>3
            <6>2. cur + 1 <= Len(msgtab) => MaxSel(msgtab[cur + 1]) \in Nat
              BY <1>3, <6>1, MaxSelFacts
            <6>3. \A m \in Nat : 0 \in 0 .. m
              OBVIOUS
            <6> QED BY <6>2, <6>3
          <5> QED BY <3>1, <4>1, <5>1
        <4>2. CASE sel # MaxSel(g)
          BY <2>2, <2>3, <2>5, <3>1, <4>2
        <4> QED BY <4>1, <4>2
      <3> QED BY <1>1, <3>1, <3>3, <3>4, <3>5, <3>6
    <2> QED BY <2>6, <2>7
  <1> QED BY <1>4, <1>5

LEMMA ListEntryStep == ResInv /\ ListEntry => ResInv'
  <1> SUFFICES ASSUME ResInv, ListEntry PROVE ResInv'
    OBVIOUS
  <1>1. /\ progress = "written" /\ msgtab' = msgtab /\ sizes' = sizes /\ words' = words
        /\ strings' = strings /\ end' = end
    BY DEF ListEntry, resFile
  <1>2. progress' \in {"written", "listed", "beyond"}
    BY <1>1 DEF ListEntry
  <1>3. Compiled /\ Compiled'
    BY <1>1, <1>2 DEF Compiled
  <1>4. SizesRight'
    BY <1>1, <1>2, <1>3 DEF ResInv, SizesRight
  <1>5. FileRight'
    <2>1. Fits' <=> Fits
      BY <1>1 DEF Fits
    <2>2. ASSUME Fits PROVE WrittenUpto(Len(msgtab) + 1)'
      <3>1. WrittenUpto(Len(msgtab) + 1)
        BY <1>3, <2>2 DEF ResInv, FileRight
      <3> QED BY <1>1, <3>1 DEF WrittenUpto, GroupWritten, GroupStart
    <2> QED BY <1>2, <2>1, <2>2 DEF FileRight
  <1>6. ListingRight'
    <2>1. Fits' <=> Fits
      BY <1>1 DEF Fits
    <2>2. Given' = Given /\ Shown(cur, sel)' = Shown(cur', sel')
      BY <1>1 DEF Given, Shown
    <2> QED BY <1>1, <1>3, <2>1, <2>2, ListingGoesOn DEF ListingRight
  <1> QED BY <1>1, <1>2, <1>4, <1>5, <1>6 DEF ResInv

(* The compiler and the lister keep the file and the listing as they should be. *)
THEOREM ResInvariant == ResSpec => []ResInv
  <1>1. ASSUME ResInv, [ResNext]_resVars PROVE ResInv'
    <2>1. CASE UNCHANGED resVars
      <3>1. /\ progress' = progress /\ msgtab' = msgtab /\ sizes' = sizes /\ words' = words /\ strings' = strings
            /\ end' = end /\ cur' = cur /\ sel' = sel /\ listing' = listing
        BY <2>1 DEF resVars, resFile, lister
      <3>2. Compiled' = Compiled /\ Fits' = Fits
        BY <3>1 DEF Compiled, Fits
      <3>3. SizesRight' = SizesRight
        BY <3>1, <3>2 DEF SizesRight
      <3>4. FileRight' = FileRight
        <4>1. \A c : WrittenUpto(c)' = WrittenUpto(c)
          BY <3>1 DEF WrittenUpto, GroupWritten, GroupStart
        <4> QED BY <3>1, <3>2, <4>1 DEF FileRight
      <3>5. ListingRight' = ListingRight
        <4>1. Given' = Given
          BY <3>1 DEF Given
        <4>2. Shown(cur, sel)' = Shown(cur, sel)
          BY <3>1, <4>1 DEF Shown
        <4> QED BY <3>1, <3>2, <4>1, <4>2 DEF ListingRight
      <3> QED BY <1>1, <3>1, <3>3, <3>4, <3>5 DEF ResInv
    <2>2. CASE ResNext
      BY <1>1, <2>2, ReadGroupStep, ReadMessageStep, TextEndsStep, WriteSizeStep, WriteGroupStep, ListEntryStep
         DEF ResNext
    <2> QED BY <1>1, <2>1, <2>2
  <1> QED BY ResStarts, <1>1, PTL DEF ResSpec

(* Compiled groups that fit are read back as they were given. *)
THEOREM ResourcesReadBack == ResSpec => []ReadsBack
  <1>1. ASSUME ResInv PROVE ReadsBack
    <2> SUFFICES ASSUME Compiled, Fits PROVE
            /\ \A g \in Given :
                  LET at == FindResource(g[1], g[2]) IN at \in DOMAIN strings /\ strings[at] = g[3]
            /\ NoMessages \notin ToSet(msgtab) =>
                  /\ progress # "beyond"
                  /\ progress = "listed" => ToSet(listing) = Given /\ Len(listing) = Cardinality(Given)
      BY DEF ReadsBack
    <2>1. msgtab \in Seq(Groups) /\ WrittenUpto(Len(msgtab) + 1)
      BY <1>1 DEF ResInv, FileRight
    <2>2. Len(msgtab) \in Nat
      BY <2>1, GroupsAre
    <2>3. ASSUME NEW e \in Given
          PROVE  FindResource(e[1], e[2]) \in DOMAIN strings /\ strings[FindResource(e[1], e[2])] = e[3]
      <3>1. /\ e[1] \in 1 .. Len(msgtab) /\ e[2] \in DOMAIN msgtab[e[1]]
            /\ e = <<e[1], e[2], msgtab[e[1]][e[2]]>>
        BY <2>1, ShownFacts
      <3>2. e[3] = msgtab[e[1]][e[2]]
        BY <3>1
      <3>3. GroupWritten(e[1])
        <4>1. e[1] \in 1 .. Len(msgtab) + 1 - 1
          BY <2>2, <3>1
        <4> QED BY <2>1, <4>1 DEF WrittenUpto
      <3> QED BY <2>1, <3>1, <3>2, <3>3, FoundWhereWritten
    <2>4. ASSUME NoMessages \notin ToSet(msgtab), progress = "listed"
          PROVE  ToSet(listing) = Given /\ Len(listing) = Cardinality(Given)
      <3>1. /\ cur = Len(msgtab) + 1 /\ ToSet(listing) = Shown(cur, sel)
            /\ Len(listing) = Cardinality(Shown(cur, sel))
            /\ sel \in IF cur <= Len(msgtab) THEN 0 .. MaxSel(msgtab[cur]) ELSE {0}
        BY <1>1, <2>4 DEF ResInv, ListingRight
      <3>2. sel = 0
        <4>1. ~(cur <= Len(msgtab))
          BY <2>2, <3>1
        <4> QED BY <3>1, <4>1
      <3>3. Shown(Len(msgtab) + 1, 0) = Given
        BY <2>1, <2>2, AllShown
      <3> QED BY <3>1, <3>2, <3>3
    <2>5. NoMessages \notin ToSet(msgtab) => progress # "beyond"
      BY <1>1 DEF ResInv, ListingRight
    <2> QED BY <2>3, <2>4, <2>5
  <1> QED BY ResInvariant, <1>1, PTL


-----------------------------------------------------------------------------
(* FileName. *)

(* Characters; the two that are written into strings are named for their own sake. *)
Text == (STRING \cup {"/", "."}) \ {"nul", "stale"}

(* What is asked of the arguments: they are strings, a directory fits, a   *)
(* base directory does not end in a backslash, and a default extension has *)
(* neither a dot nor a separator.                                          *)
Fitting(s, more) == \A i \in 1 .. Len(s) : s[i] \in {"/", "\\"} => i + more <= PathMax
NamesFit ==
    /\ 2 <= PathMax
    /\ \A name \in Names : name \in Seq(Text) /\ Fitting(name, 2)
    /\ \A root \in Roots : root \in Seq(Text) /\ Len(root) < PathMax /\ (root # <<>> => root[Len(root)] # "\\")
    /\ \A extension \in Extensions :
          /\ extension \in Seq(Text)
          /\ \A i \in 1 .. Len(extension) : extension[i] \notin {".", "/", "\\"}

Argued ==
    /\ path \in Seq(Text) /\ (path = <<>> \/ \E i \in 1 .. Len(path) : path[i] # " ")
    /\ Fitting(path, IF call.root = <<>> THEN 0 ELSE 2)
    /\ call.root \in Seq(Text) /\ Len(call.root) < PathMax
    /\ call.root # <<>> => call.root[Len(call.root)] # "\\"
    /\ call.extension \in Seq(Text)
    /\ \A i \in 1 .. Len(call.extension) : call.extension[i] \notin {".", "/", "\\"}
    /\ call.dos \in BOOLEAN /\ call.checklen \in BOOLEAN

(* i is the last place from which to before m where one of C stands, or 0. *)
LastOf(i, C, from, m) ==
    \/ i = 0 /\ \A j \in from .. m - 1 : path[j] \notin C
    \/ i \in from .. m - 1 /\ path[i] \in C /\ \A j \in i + 1 .. m - 1 : path[j] \notin C

Scanned ==
    /\ p \in AfterDrive .. Len(path) + 1
    /\ LastOf(fileext, {"."}, AfterDrive, p)
    /\ LastOf(lastdirptr, Separators, AfterDrive, p)
    /\ lastspace = 0 \/ (lastspace \in AfterDrive .. Len(path) /\ path[lastspace] = " ")

(* What Fill computes. *)
DirLen  == Len(Drive) + Len(Directory)
Default == IF ExtLen = 0 /\ call.extension # <<>> THEN <<".">> \o call.extension ELSE <<>>
Extent  == ExtLen + Len(Default)
Ending  == IF ExtLen > 0 THEN SubSeq(path, fileext, p - 1) ELSE Default
OffExt  == DirLen + NameLen
StrEnd  == OffExt + CutLen(Extent)

PutTogether(str) ==
    /\ DOMAIN str = 0 .. PathMax /\ StrEnd \in 0 .. PathMax
    /\ \A i \in 0 .. Len(Drive) - 1 : str[i] = Drive[i + 1]
    /\ \A i \in Len(Drive) .. DirLen - 1 : str[i] = Converted(Directory)[i - Len(Drive) + 1]
    /\ \A i \in DirLen .. OffExt - 1 : str[i] = path[NameStart + i - DirLen]
    /\ \A i \in OffExt .. StrEnd - 1 : str[i] = Ending[i - OffExt + 1]
    /\ str[StrEnd] = "nul"

Filled ==
    /\ PutTogether(pstruct.str)
    /\ pstruct.diroff = Len(Drive) /\ pstruct.dirlen = DirLen /\ pstruct.filenameoff = Len(Directory)
    /\ \/ /\ Extent = 0 \/ NameLen > 0
          /\ pstruct.namelen = NameLen /\ pstruct.offext = OffExt /\ pstruct.extlen = Extent
       \/ /\ DirLen = 0 /\ NameLen = 0 /\ Extent = 1
          /\ pstruct.namelen = 1 /\ pstruct.offext = 1 /\ pstruct.extlen = 0

NameInv ==
    /\ Argued
    /\ stage \in {"idle", "scan", "fill", "split"}
    /\ stage \in {"scan", "fill"} => path # <<>> /\ Scanned /\ pstruct = Cleared
    /\ stage \in {"scan"} => pathtype = 0
    /\ stage \in {"fill"} => (pathtype = 0 => p = Len(path) + 1)
    /\ Split => Scanned /\ Filled /\ (pathtype = 0 => p = Len(path) + 1)

LEMMA SameEnd == ASSUME NEW a \in Nat, NEW b \in Nat, 1 .. a = 1 .. b PROVE a = b
  <1>1. a < b => b \in 1 .. b /\ b \notin 1 .. a
    OBVIOUS
  <1>2. b < a => a \in 1 .. a /\ a \notin 1 .. b
    OBVIOUS
  <1> QED BY <1>1, <1>2

LEMMA SeqFacts ==
    ASSUME NEW S, NEW s \in Seq(S)
    PROVE  /\ Len(s) \in Nat /\ DOMAIN s = 1 .. Len(s) /\ (s # <<>> <=> Len(s) > 0)
           /\ \A i \in 1 .. Len(s) : s[i] \in S
  <1>1. Len(s) \in Nat /\ DOMAIN s = 1 .. Len(s) /\ \A i \in 1 .. Len(s) : s[i] \in S
    OBVIOUS
  <1>2. s = <<>> <=> Len(s) = 0
    BY EmptySeq
  <1> QED BY <1>1, <1>2

LEMMA SubFacts ==
    ASSUME NEW S, NEW s \in Seq(S), NEW i \in Nat, NEW j \in Nat, 1 <= i, j <= Len(s), i <= j + 1
    PROVE  /\ SubSeq(s, i, j) \in Seq(S) /\ Len(SubSeq(s, i, j)) = j - i + 1
           /\ \A k \in 1 .. j - i + 1 : SubSeq(s, i, j)[k] = s[i + k - 1]
  <1>1. Len(s) \in Nat
    OBVIOUS
  <1> QED BY <1>1, SubSeqProperties

Blank(i) == path[i] = " "

LEMMA BeginFacts ==
    ASSUME Argued, path # <<>>
    PROVE  /\ Begin \in 1 .. Len(path) /\ path[Begin] # " " /\ \A j \in 1 .. Begin - 1 : path[j] = " "
           /\ AfterDrive \in {Begin, Begin + 2} /\ AfterDrive \in 1 .. Len(path) + 1
           /\ HasDrive <=> AfterDrive = Begin + 2
  <1>1. Len(path) \in Nat /\ DOMAIN path = 1 .. Len(path)
    BY SeqFacts DEF Argued
  <1> DEFINE S == {i \in 1 .. Len(path) : ~Blank(i)}
  <1>2. S \in SUBSET Nat /\ S # {}
    <2>1. \E i \in 1 .. Len(path) : ~Blank(i)
      BY DEF Argued, Blank
    <2>2. S \subseteq Nat
      BY <1>1
    <2> QED BY <2>1, <2>2
  <1>3. PICK b \in S : \A j \in S : ~(j < b)
    <2> HIDE DEF S
    <2> QED BY <1>2, LeastNat
  <1>4. \A j \in 1 .. b - 1 : Blank(j)
    <2> SUFFICES ASSUME NEW j \in 1 .. b - 1 PROVE Blank(j)
      OBVIOUS
    <2>1. j \in 1 .. Len(path) /\ j < b
      BY <1>1
    <2> QED BY <1>3, <2>1
  <1>5. b \in DOMAIN path /\ path[b] # " " /\ \A j \in 1 .. b - 1 : path[j] = " "
    BY <1>1, <1>3, <1>4 DEF Blank
  <1>6. Begin \in DOMAIN path /\ path[Begin] # " " /\ \A j \in 1 .. Begin - 1 : path[j] = " "
    BY <1>5 DEF Begin
  <1>7. Begin \in 1 .. Len(path)
    BY <1>1, <1>6
  <1>8. PICK n1 \in Nat, b1 \in Nat : n1 = Len(path) /\ b1 = Begin /\ 1 <= b1 /\ b1 <= n1
    <2>1. Len(path) \in Nat
      BY <1>1
    <2>2. Begin \in Nat /\ 1 <= Begin /\ Begin <= Len(path)
      BY <1>7, <2>1
    <2> QED BY <2>1, <2>2
  <1>9. AfterDrive \in {b1, b1 + 2} /\ AfterDrive \in 1 .. n1 + 1 /\ (HasDrive <=> AfterDrive = b1 + 2)
    <2>1. CASE HasDrive
      <3>1. AfterDrive = b1 + 2
        BY <1>8, <2>1 DEF AfterDrive
      <3>2. n1 > b1
        BY <1>8, <2>1 DEF HasDrive
      <3> QED BY <1>8, <2>1, <3>1, <3>2
    <2>2. CASE ~HasDrive
      <3>1. AfterDrive = b1
        BY <1>8, <2>2 DEF AfterDrive
      <3> QED BY <1>8, <2>2, <3>1
    <2> QED BY <2>1, <2>2
  <1>10. /\ AfterDrive \in {Begin, Begin + 2} /\ AfterDrive \in 1 .. Len(path) + 1
         /\ HasDrive <=> AfterDrive = Begin + 2
    BY <1>8, <1>9
  <1> QED BY <1>6, <1>7, <1>10

(* The name begins behind the directory, and the extension at its last dot. *)
LEMMA NameFacts ==
    ASSUME Argued, path # <<>>, Scanned
    PROVE  /\ NameStart \in Nat /\ p \in Nat /\ AfterDrive \in Nat /\ Len(path) \in Nat
           /\ 1 <= AfterDrive /\ AfterDrive <= NameStart /\ NameStart <= p /\ p <= Len(path) + 1
           /\ ExtLen \in Nat /\ NameLen \in Nat /\ NameLen + ExtLen = p - NameStart
           /\ ExtLen > 0 => fileext = NameStart + NameLen /\ fileext \in Nat /\ path[fileext] = "."
           /\ ExtLen > 0 => \A j \in fileext + 1 .. p - 1 : path[j] # "."
           /\ \A j \in NameStart .. p - 1 : path[j] \notin Separators
           /\ lastdirptr = 0 => NameStart = AfterDrive
           /\ lastdirptr # 0 => /\ lastdirptr \in Nat /\ AfterDrive <= lastdirptr /\ NameStart = lastdirptr + 1
                                /\ path[lastdirptr] \in Separators
  <1>1. PICK a \in Nat, m \in Nat, q \in Nat : a = AfterDrive /\ m = Len(path) /\ q = p /\ 1 <= a /\ a <= q /\ q <= m + 1
    <2>1. AfterDrive \in 1 .. Len(path) + 1 /\ Len(path) \in Nat
      BY BeginFacts, SeqFacts DEF Argued
    <2>2. p \in AfterDrive .. Len(path) + 1
      BY DEF Scanned
    <2>3. AfterDrive \in Nat /\ 1 <= AfterDrive /\ p \in Nat /\ AfterDrive <= p /\ p <= Len(path) + 1
      BY <2>1, <2>2
    <2> QED BY <2>1, <2>3
  <1>2. PICK sep, dot : sep = Separators /\ dot = {"."}
    OBVIOUS
  <1>3. \A c : c \in dot => c \notin sep
    <2>1. "." \notin Separators
      BY DEF Separators
    <2> QED BY <1>2, <2>1
  <1>4. \/ lastdirptr = 0 /\ \A j \in a .. q - 1 : path[j] \notin sep
        \/ lastdirptr \in a .. q - 1 /\ path[lastdirptr] \in sep /\ \A j \in lastdirptr + 1 .. q - 1 : path[j] \notin sep
    BY <1>1, <1>2 DEF Scanned, LastOf
  <1>5. \/ fileext = 0
        \/ fileext \in a .. q - 1 /\ path[fileext] \in dot /\ \A j \in fileext + 1 .. q - 1 : path[j] \notin dot
    BY <1>1, <1>2 DEF Scanned, LastOf
  <1>6. PICK b \in Nat : b = NameStart
    BY <1>1, <1>4 DEF NameStart
  <1>7. /\ a <= b /\ b <= q /\ \A j \in b .. q - 1 : path[j] \notin sep
        /\ lastdirptr = 0 => b = a
        /\ lastdirptr # 0 => lastdirptr \in Nat /\ a <= lastdirptr /\ b = lastdirptr + 1 /\ path[lastdirptr] \in sep
    BY <1>1, <1>4, <1>6 DEF NameStart
  <1>8. CASE q = b \/ fileext = 0 \/ DirAfterExt
    <2>1. ExtLen = 0 /\ NameLen = q - b
      BY <1>1, <1>6, <1>8 DEF ExtLen, NameLen
    <2> QED BY <1>1, <1>2, <1>6, <1>7, <2>1
  <1>9. CASE ~(q = b \/ fileext = 0 \/ DirAfterExt)
    <2>1. ~(lastdirptr > fileext) /\ fileext # 0 /\ q # b
      BY <1>9 DEF DirAfterExt
    <2>2. fileext \in a .. q - 1 /\ path[fileext] \in dot /\ \A j \in fileext + 1 .. q - 1 : path[j] \notin dot
      BY <1>5, <2>1
    <2>3. fileext # lastdirptr
      BY <1>3, <1>7, <2>1, <2>2
    <2>4. ExtLen = q - fileext
      BY <1>1, <1>6, <1>9 DEF ExtLen
    <2>5. NameLen = q - b - (q - fileext)
      BY <1>1, <1>6, <2>4 DEF NameLen
    <2>6. b <= fileext /\ fileext \in Nat /\ fileext < q
      BY <1>1, <1>7, <2>1, <2>2, <2>3
    <2>7. ExtLen \in Nat /\ NameLen \in Nat /\ NameLen + ExtLen = q - b /\ fileext = b + NameLen
      BY <2>4, <2>5, <2>6
    <2>8. path[fileext] = "." /\ \A j \in fileext + 1 .. q - 1 : path[j] # "."
      BY <1>2, <2>2
    <2> QED BY <1>1, <1>2, <1>6, <1>7, <2>6, <2>7, <2>8
  <1> QED BY <1>8, <1>9

LEMMA DriveFacts ==
    ASSUME Argued, path # <<>>
    PROVE  /\ Drive \in Seq(Text) /\ Len(Drive) \in {0, 2}
           /\ HasDrive => Len(Drive) = 2 /\ \A k \in 1 .. 2 : Drive[k] = path[Begin + k - 1]
           /\ ~HasDrive /\ RootHasDrive => Len(Drive) = 2
           /\ ~HasDrive /\ ~RootHasDrive => Len(Drive) = 0
  <1>1. path \in Seq(Text) /\ call.root \in Seq(Text)
    BY DEF Argued
  <1>2. CASE HasDrive
    <2>1. Len(path) \in Nat /\ Begin \in Nat /\ 1 <= Begin
      <3>1. Len(path) \in Nat
        BY <1>1, SeqFacts
      <3>2. Begin \in 1 .. Len(path)
        BY BeginFacts
      <3> QED BY <3>1, <3>2
    <2>2. Begin + 1 <= Len(path)
      BY <1>2, <2>1 DEF HasDrive
    <2>3. Drive = SubSeq(path, Begin, Begin + 1)
      BY <1>2 DEF Drive
    <2>4. /\ SubSeq(path, Begin, Begin + 1) \in Seq(Text) /\ Len(SubSeq(path, Begin, Begin + 1)) = (Begin + 1) - Begin + 1
          /\ \A k \in 1 .. (Begin + 1) - Begin + 1 : SubSeq(path, Begin, Begin + 1)[k] = path[Begin + k - 1]
      BY <1>1, <2>1, <2>2, SubFacts
    <2>5. (Begin + 1) - Begin + 1 = 2
      BY <2>1
    <2> QED BY <1>2, <2>3, <2>4, <2>5
  <1>3. CASE ~HasDrive /\ RootHasDrive
    <2>1. Len(call.root) \in Nat /\ 2 <= Len(call.root)
      BY <1>1, <1>3, SeqFacts DEF RootHasDrive
    <2>2. Drive = SubSeq(call.root, 1, 2)
      BY <1>3 DEF Drive
    <2>3. SubSeq(call.root, 1, 2) \in Seq(Text) /\ Len(SubSeq(call.root, 1, 2)) = 2 - 1 + 1
      BY <1>1, <2>1, SubFacts
    <2> QED BY <1>3, <2>2, <2>3
  <1>4. CASE ~HasDrive /\ ~RootHasDrive
    <2>1. Drive = <<>>
      BY <1>4 DEF Drive
    <2> QED BY <1>4, <2>1, EmptySeq
  <1> QED BY <1>2, <1>3, <1>4

LEMMA RootFacts ==
    ASSUME Argued
    PROVE  /\ RootDir \in Seq(Text) /\ Len(RootDir) \in Nat /\ Len(call.root) \in Nat
           /\ RootDir # <<>> => RootDir[Len(RootDir)] # "\\"
           /\ RootHasDrive => Len(RootDir) = Len(call.root) - 2 /\ 2 <= Len(call.root) /\ call.root # <<>>
           /\ ~RootHasDrive => Len(RootDir) = Len(call.root)
  <1>1. call.root \in Seq(Text) /\ Len(call.root) \in Nat /\ (call.root # <<>> <=> Len(call.root) > 0)
    BY SeqFacts DEF Argued
  <1>2. call.root # <<>> => call.root[Len(call.root)] # "\\"
    BY DEF Argued
  <1>3. CASE RootHasDrive
    <2>1. 2 <= Len(call.root) /\ call.root # <<>>
      BY <1>1, <1>3 DEF RootHasDrive
    <2>2. RootDir = SubSeq(call.root, 3, Len(call.root))
      BY <1>3 DEF RootDir
    <2>3. PICK l \in Nat : l = Len(call.root) /\ 2 <= l
      BY <1>1, <2>1
    <2>4. RootDir \in Seq(Text) /\ Len(RootDir) = l - 3 + 1 /\ \A k \in 1 .. l - 3 + 1 : RootDir[k] = call.root[3 + k - 1]
      BY <1>1, <2>2, <2>3, SubFacts
    <2>5. Len(RootDir) = l - 2
      BY <2>3, <2>4
    <2>6. ASSUME RootDir # <<>> PROVE RootDir[Len(RootDir)] # "\\"
      <3>1. Len(RootDir) > 0
        BY <2>4, <2>6, SeqFacts
      <3>2. RootDir[l - 2] = call.root[3 + (l - 2) - 1]
        BY <2>3, <2>4, <2>5, <3>1
      <3>3. 3 + (l - 2) - 1 = l
        BY <2>3
      <3> QED BY <1>2, <2>1, <2>3, <2>5, <3>2, <3>3
    <2>7. Len(RootDir) \in Nat
      BY <2>3, <2>5
    <2> QED BY <1>1, <1>3, <2>1, <2>3, <2>4, <2>5, <2>6, <2>7
  <1>4. CASE ~RootHasDrive
    <2>1. RootDir = call.root
      BY <1>4 DEF RootDir
    <2> QED BY <1>1, <1>2, <1>4, <2>1
  <1> QED BY <1>3, <1>4

LEMMA SlashIsText == "/" \in Text /\ "." \in Text
  BY DEF Text

LEMMA ConvertedFacts ==
    ASSUME NEW s \in Seq(Text)
    PROVE  /\ Converted(s) \in Seq(Text) /\ Len(Converted(s)) = Len(s)
           /\ \A k \in 1 .. Len(s) : Converted(s)[k] = IF call.dos /\ s[k] = "\\" THEN "/" ELSE s[k]
  <1>1. Len(s) \in Nat /\ DOMAIN s = 1 .. Len(s) /\ \A k \in 1 .. Len(s) : s[k] \in Text
    BY SeqFacts
  <1>2. Converted(s) = [k \in 1 .. Len(s) |-> IF call.dos /\ s[k] = "\\" THEN "/" ELSE s[k]]
    BY <1>1 DEF Converted
  <1>3. \A k \in 1 .. Len(s) : (IF call.dos /\ s[k] = "\\" THEN "/" ELSE s[k]) \in Text
    BY <1>1, SlashIsText
  <1>4. Converted(s) \in [1 .. Len(s) -> Text] /\ DOMAIN Converted(s) = 1 .. Len(s)
    BY <1>2, <1>3
  <1>5. Converted(s) \in Seq(Text)
    BY <1>1, <1>4, SeqDef
  <1>6. Len(Converted(s)) \in Nat /\ DOMAIN Converted(s) = 1 .. Len(Converted(s))
    BY <1>5, SeqFacts
  <1>7. Len(Converted(s)) = Len(s)
    BY <1>1, <1>4, <1>6, SameEnd
  <1> QED BY <1>2, <1>5, <1>7

LEMMA TerminatedFacts ==
    ASSUME NEW s \in Seq(Text), s # <<>> => s[Len(s)] # "\\"
    PROVE  /\ Terminated(s) \in Seq(Text) /\ Len(Terminated(s)) \in Nat /\ Len(Terminated(s)) <= Len(s) + 1
           /\ Terminated(s) # <<>> => Terminated(s)[Len(Terminated(s))] = "/"
  <1>1. Len(s) \in Nat /\ (s # <<>> <=> Len(s) > 0)
    BY SeqFacts
  <1>2. CASE s = <<>> \/ Last(s) \in {"/", "\\"}
    <2>1. Terminated(s) = s
      BY <1>2 DEF Terminated
    <2>2. s # <<>> => s[Len(s)] = "/"
      BY <1>2 DEF Last
    <2> QED BY <1>1, <2>1, <2>2
  <1>3. CASE ~(s = <<>> \/ Last(s) \in {"/", "\\"})
    <2>1. Terminated(s) = Append(s, "/")
      BY <1>3 DEF Terminated
    <2>2. /\ Append(s, "/") \in Seq(Text) /\ Len(Append(s, "/")) = Len(s) + 1
          /\ Append(s, "/")[Len(s) + 1] = "/"
      BY SlashIsText, AppendProperties
    <2>3. Len(s) + 1 \in Nat
      BY <1>1
    <2> QED BY <2>1, <2>2, <2>3
  <1> QED BY <1>2, <1>3

(* The directory: where it comes from, and that it fits. *)
LEMMA DirectoryFacts ==
    ASSUME Argued, path # <<>>, Scanned, 2 <= PathMax
    PROVE  /\ Directory \in Seq(Text) /\ Len(Directory) \in Nat /\ DirLen \in Nat /\ DirLen <= PathMax
           /\ HasDrive \/ lastdirptr # 0 => Len(Directory) = NameStart - AfterDrive
           /\ lastdirptr # 0 => \A k \in 1 .. Len(Directory) : Directory[k] = path[AfterDrive + k - 1]
           /\ Directory # <<>> => Converted(Directory)[Len(Directory)] = "/"
  <1>1. PathMax \in Nat
    BY PathMaxAssumption
  <1>2. path \in Seq(Text)
    BY DEF Argued
  <1>3. Len(Drive) \in {0, 2}
    BY DriveFacts
  <1>4. CASE lastdirptr # 0
    <2>1. PICK a \in Nat, l \in Nat, m \in Nat :
             a = AfterDrive /\ l = lastdirptr /\ m = Len(path) /\ 1 <= a /\ a <= l /\ l <= m /\ NameStart = l + 1
      <3>1. lastdirptr \in Nat /\ AfterDrive <= lastdirptr /\ NameStart = lastdirptr + 1 /\ AfterDrive \in Nat
            /\ 1 <= AfterDrive /\ Len(path) \in Nat /\ p \in Nat /\ NameStart <= p /\ p <= Len(path) + 1
        BY <1>4, NameFacts
      <3>2. lastdirptr <= Len(path)
        BY <3>1
      <3> QED BY <3>1, <3>2
    <2>2. Directory = SubSeq(path, a, l)
      BY <1>4, <2>1 DEF Directory
    <2>3. /\ SubSeq(path, a, l) \in Seq(Text) /\ Len(SubSeq(path, a, l)) = l - a + 1
          /\ \A k \in 1 .. l - a + 1 : SubSeq(path, a, l)[k] = path[a + k - 1]
      BY <1>2, <2>1, SubFacts
    <2>4. l - a + 1 \in Nat /\ l - a + 1 = NameStart - AfterDrive /\ l - a + 1 \in 1 .. l - a + 1 /\ a + (l - a + 1) - 1 = l
      BY <2>1
    <2>5. path[l] \in Separators
      BY <1>4, <2>1, NameFacts
    <2>6. Directory[l - a + 1] = path[l]
      BY <2>2, <2>3, <2>4
    <2>7. Converted(Directory)[Len(Directory)] = "/"
      <3>1. Converted(Directory)[l - a + 1] = IF call.dos /\ path[l] = "\\" THEN "/" ELSE path[l]
        <4>1. Directory \in Seq(Text) /\ l - a + 1 \in 1 .. Len(Directory)
          BY <2>2, <2>3, <2>4
        <4>2. Converted(Directory)[l - a + 1] =
                 IF call.dos /\ Directory[l - a + 1] = "\\" THEN "/" ELSE Directory[l - a + 1]
          BY <4>1, ConvertedFacts
        <4> QED BY <2>6, <4>2
      <3>2. (call.dos /\ path[l] \in {"/", "\\"}) \/ (~call.dos /\ path[l] = "/")
        <4>1. CASE call.dos
          BY <2>5, <4>1 DEF Separators
        <4>2. CASE ~call.dos
          BY <2>5, <4>2 DEF Separators
        <4> QED BY <4>1, <4>2
      <3> QED BY <2>2, <2>3, <3>1, <3>2
    <2>8. Len(Drive) + (l - a + 1) <= PathMax
      <3>1. PICK more \in Nat : l + more <= PathMax /\ (call.root # <<>> => more = 2)
        <4>1. path[l] \in {"/", "\\"}
          BY <2>5 DEF Separators
        <4>2. l \in 1 .. Len(path)
          BY <2>1
        <4>3. l + (IF call.root = <<>> THEN 0 ELSE 2) <= PathMax
          BY <4>1, <4>2 DEF Argued, Fitting
        <4>4. (IF call.root = <<>> THEN 0 ELSE 2) \in Nat
          OBVIOUS
        <4> QED BY <4>3, <4>4
      <3> DEFINE w == Len(Drive)
      <3>5. w \in {0, 2} /\ l + more <= PathMax /\ more \in Nat
        BY <1>3, <3>1
      <3>6. 1 <= a /\ a <= l
        BY <2>1
      <3>2. CASE HasDrive
        <4>1. a >= 3
          <5>1. AfterDrive = Begin + 2 /\ Begin \in 1 .. Len(path) /\ Len(path) \in Nat
            BY <1>2, <3>2, BeginFacts, SeqFacts
          <5> QED BY <2>1, <5>1
        <4>2. w + (l - a + 1) <= PathMax
          <5> HIDE DEF w
          <5> QED BY <1>1, <3>5, <3>6, <4>1
        <4> QED BY <4>2
      <3>3. CASE ~HasDrive /\ RootHasDrive
        <4>1. more = 2
          BY <3>1, <3>3, RootFacts
        <4>2. w + (l - a + 1) <= PathMax
          <5> HIDE DEF w
          <5> QED BY <1>1, <3>5, <3>6, <4>1
        <4> QED BY <4>2
      <3>4. CASE ~HasDrive /\ ~RootHasDrive
        <4>1. Len(Drive) = 0
          BY <3>4, DriveFacts
        <4> QED BY <1>1, <2>1, <3>1, <4>1
      <3> QED BY <3>2, <3>3, <3>4
    <2>9. DirLen \in Nat /\ DirLen <= PathMax
      BY <1>1, <1>3, <2>2, <2>3, <2>4, <2>8 DEF DirLen
    <2> QED BY <1>4, <2>1, <2>2, <2>3, <2>4, <2>7, <2>9
  <1>5. CASE lastdirptr = 0 /\ HasDrive
    <2>1. Directory = <<>>
      BY <1>5 DEF Directory
    <2>2. Len(Directory) = 0 /\ Directory \in Seq(Text)
      BY <2>1, EmptySeq
    <2>3. NameStart = AfterDrive /\ AfterDrive \in Nat
      BY <1>5, NameFacts
    <2>4. DirLen = 2
      BY <1>5, <2>2, DriveFacts DEF DirLen
    <2> QED BY <1>1, <1>5, <2>1, <2>2, <2>3, <2>4
  <1>6. CASE lastdirptr = 0 /\ ~HasDrive
    <2>1. Directory = Terminated(RootDir)
      BY <1>6 DEF Directory
    <2>2. /\ Directory \in Seq(Text) /\ Len(Directory) \in Nat /\ Len(Directory) <= Len(RootDir) + 1
          /\ Directory # <<>> => Directory[Len(Directory)] = "/"
      BY <2>1, RootFacts, TerminatedFacts
    <2>3. Directory # <<>> => Converted(Directory)[Len(Directory)] = "/"
      <3>1. Directory # <<>> => Len(Directory) \in 1 .. Len(Directory)
        BY <2>2, SeqFacts
      <3> QED BY <2>2, <3>1, ConvertedFacts
    <2>4. Len(call.root) < PathMax /\ Len(call.root) \in Nat
      BY RootFacts DEF Argued
    <2>5. CASE RootHasDrive
      <3>1. Len(RootDir) = Len(call.root) - 2 /\ Len(Drive) = 2
        BY <1>6, <2>5, RootFacts, DriveFacts
      <3>2. DirLen \in Nat /\ DirLen <= PathMax
        BY <1>1, <2>2, <2>4, <3>1 DEF DirLen
      <3> QED BY <1>6, <2>2, <2>3, <3>2
    <2>6. CASE ~RootHasDrive
      <3>1. Len(RootDir) = Len(call.root) /\ Len(Drive) = 0
        BY <1>6, <2>6, RootFacts, DriveFacts
      <3>2. DirLen \in Nat /\ DirLen <= PathMax
        BY <1>1, <2>2, <2>4, <3>1 DEF DirLen
      <3> QED BY <1>6, <2>2, <2>3, <3>2
    <2> QED BY <2>5, <2>6
  <1> QED BY <1>4, <1>5, <1>6

LEMMA EndingFacts ==
    ASSUME Argued, path # <<>>, Scanned
    PROVE  /\ Default \in Seq(Text) /\ Len(Default) \in Nat /\ Ending \in Seq(Text) /\ Len(Ending) = Extent /\ Extent \in Nat
           /\ ExtLen > 0 => Default = <<>> /\ Extent = ExtLen /\ \A k \in 1 .. Extent : Ending[k] = path[fileext + k - 1]
           /\ Extent > 0 => Ending[1] = "."
           /\ \A k \in 2 .. Extent : Ending[k] # "." /\ Ending[k] \notin Separators
           /\ ExtLen = 0 /\ Extent > 0 => Extent > 1
           /\ Default # <<>> => ExtLen = 0 /\ call.extension # <<>>
           /\ ExtLen = 0 => Extent = Len(Default)
  <1>1. ExtLen \in Nat /\ path \in Seq(Text)
    BY NameFacts DEF Argued
  <1>2. CASE ExtLen > 0
    <2>1. PICK f \in Nat, q \in Nat, m \in Nat :
             f = fileext /\ q = p /\ m = Len(path) /\ 1 <= f /\ f < q /\ q <= m + 1 /\ ExtLen = q - f
      <3>1. /\ fileext = NameStart + NameLen /\ fileext \in Nat /\ NameLen \in Nat /\ NameStart \in Nat /\ p \in Nat
            /\ Len(path) \in Nat /\ p <= Len(path) + 1 /\ NameLen + ExtLen = p - NameStart
            /\ 1 <= AfterDrive /\ AfterDrive <= NameStart /\ AfterDrive \in Nat
        BY <1>2, NameFacts
      <3>2. 1 <= fileext /\ fileext < p /\ ExtLen = p - fileext
        BY <1>1, <1>2, <3>1
      <3> QED BY <3>1, <3>2
    <2>2. Default = <<>> /\ Len(Default) = 0 /\ Default \in Seq(Text)
      <3>1. Default = <<>>
        BY <1>2 DEF Default
      <3> QED BY <3>1, EmptySeq
    <2>3. Extent = ExtLen
      BY <1>1, <2>2 DEF Extent
    <2>4. Ending = SubSeq(path, f, q - 1)
      BY <1>2, <2>1 DEF Ending
    <2>5. /\ Ending \in Seq(Text) /\ Len(Ending) = (q - 1) - f + 1
          /\ \A k \in 1 .. (q - 1) - f + 1 : Ending[k] = path[f + k - 1]
      <3>1. q - 1 \in Nat /\ 1 <= f /\ q - 1 <= m /\ f <= (q - 1) + 1
        BY <2>1
      <3> QED BY <1>1, <2>1, <2>4, <3>1, SubFacts
    <2>6. (q - 1) - f + 1 = q - f
      BY <2>1
    <2>7. Len(Ending) = Extent /\ \A k \in 1 .. Extent : Ending[k] = path[f + k - 1]
      BY <2>1, <2>3, <2>5, <2>6
    <2>8. Ending[1] = "."
      <3>1. 1 \in 1 .. Extent /\ f + 1 - 1 = f
        BY <1>1, <1>2, <2>1, <2>3
      <3>2. path[f] = "."
        BY <1>2, <2>1, NameFacts
      <3> QED BY <2>7, <3>1, <3>2
    <2>9. ASSUME NEW k \in 2 .. Extent PROVE Ending[k] # "." /\ Ending[k] \notin Separators
      <3>1. PICK j \in Nat : j = f + k - 1 /\ j \in f + 1 .. q - 1 /\ k \in 1 .. Extent
        BY <2>1, <2>3
      <3>2. Ending[k] = path[j]
        BY <2>7, <3>1
      <3>3. path[j] # "."
        BY <1>2, <2>1, <3>1, NameFacts
      <3>4. j \in NameStart .. p - 1
        <4>1. fileext = NameStart + NameLen /\ NameLen \in Nat /\ NameStart \in Nat
          BY <1>2, NameFacts
        <4> QED BY <2>1, <3>1, <4>1
      <3>5. path[j] \notin Separators
        BY <3>4, NameFacts
      <3> QED BY <3>2, <3>3, <3>5
    <2>10. Extent \in Nat
      BY <1>1, <2>3
    <2> QED BY <1>2, <2>1, <2>2, <2>3, <2>5, <2>7, <2>8, <2>9, <2>10
  <1>3. CASE ExtLen = 0 /\ call.extension = <<>>
    <2>1. Default = <<>> /\ Ending = Default
      BY <1>3 DEF Default, Ending
    <2>2. Default \in Seq(Text) /\ Len(Default) = 0
      BY <2>1, EmptySeq
    <2>3. Extent = 0
      BY <1>3, <2>2 DEF Extent
    <2> QED BY <1>3, <2>1, <2>2, <2>3
  <1>4. CASE ExtLen = 0 /\ call.extension # <<>>
    <2>1. Default = <<".">> \o call.extension /\ Ending = Default
      BY <1>4 DEF Default, Ending
    <2>2. PICK x \in Seq(Text), l \in Nat :
             x = call.extension /\ l = Len(x) /\ l > 0 /\ \A k \in 1 .. l : x[k] \notin {".", "/", "\\"}
      BY <1>4, SeqFacts DEF Argued
    <2>3. <<".">> \in Seq(Text) /\ Len(<<".">>) = 1 /\ <<".">>[1] = "."
      BY SlashIsText
    <2>4. /\ Default \in Seq(Text) /\ Len(Default) = 1 + l
          /\ \A k \in 1 .. 1 + l : Default[k] = IF k <= 1 THEN <<".">>[k] ELSE x[k - 1]
      BY <2>1, <2>2, <2>3, ConcatProperties
    <2>5. Extent = 1 + l
      BY <1>4, <2>2, <2>4 DEF Extent
    <2>6. Default[1] = "."
      <3>1. 1 \in 1 .. 1 + l /\ 1 <= 1
        BY <2>2
      <3>2. Default[1] = <<".">>[1]
        BY <2>4, <3>1
      <3> QED BY <2>3, <3>2
    <2>7. ASSUME NEW k \in 2 .. Extent PROVE Default[k] # "." /\ Default[k] \notin Separators
      <3>1. k \in 1 .. 1 + l /\ ~(k <= 1) /\ k - 1 \in 1 .. l
        BY <2>2, <2>5
      <3>2. Default[k] = x[k - 1]
        BY <2>4, <3>1
      <3>3. Default[k] \notin {".", "/", "\\"}
        BY <2>2, <3>1, <3>2
      <3> QED BY <3>3 DEF Separators
    <2>8. 1 + l \in Nat /\ 1 + l > 1
      BY <2>2
    <2> QED BY <1>4, <2>1, <2>4, <2>5, <2>6, <2>7, <2>8
  <1> QED BY <1>1, <1>2, <1>3, <1>4

LEMMA CutFacts ==
    ASSUME NEW l \in Nat
    PROVE  CutLen(l) \in Nat /\ CutLen(l) <= l /\ (l > 0 => CutLen(l) > 0)
  BY DEF CutLen

Laid(new, str, at, s, l) ==
    /\ DOMAIN new = 0 .. PathMax
    /\ \A i \in 0 .. PathMax : new[i] = IF at <= i /\ i < at + l THEN s[i - at + 1] ELSE str[i]

LEMMA CopiedFacts ==
    ASSUME NEW S, NEW s \in Seq(S), NEW str, DOMAIN str = 0 .. PathMax, NEW at \in Nat
    PROVE  Laid(Copied(str, at, s), str, at, s, Len(s)) /\ DOMAIN Copied(str, at, s) = 0 .. PathMax
  <1>1. Len(s) \in Nat /\ PathMax \in Nat
    BY PathMaxAssumption
  <1>2. \A i \in 0 .. PathMax : i \in at .. at + Len(s) - 1 <=> at <= i /\ i < at + Len(s)
    BY <1>1
  <1> QED BY <1>2 DEF Copied, Laid

(* What Fill computes is of the arguments and the pointers. *)
LEMMA SameParts ==
    ASSUME UNCHANGED <<call, pointers>>
    PROVE  /\ path' = path /\ Begin' = Begin /\ AfterDrive' = AfterDrive /\ Separators' = Separators
           /\ (HasDrive <=> HasDrive') /\ NameStart' = NameStart /\ ExtLen' = ExtLen /\ NameLen' = NameLen
           /\ Drive' = Drive /\ Directory' = Directory /\ DirLen' = DirLen /\ Default' = Default /\ Extent' = Extent
           /\ Ending' = Ending /\ OffExt' = OffExt /\ StrEnd' = StrEnd
  <1>1. /\ path' = path /\ call' = call /\ p' = p /\ fileext' = fileext /\ lastdirptr' = lastdirptr
    BY DEF pointers, path
  <1>2. /\ Begin' = Begin /\ (HasDrive <=> HasDrive') /\ AfterDrive' = AfterDrive /\ Separators' = Separators
    BY <1>1 DEF Begin, HasDrive, AfterDrive, Separators
  <1>3. NameStart' = NameStart /\ ExtLen' = ExtLen /\ NameLen' = NameLen
    BY <1>1, <1>2 DEF NameStart, ExtLen, NameLen, DirAfterExt
  <1>4. (RootHasDrive <=> RootHasDrive') /\ RootDir' = RootDir
    BY <1>1 DEF RootHasDrive, RootDir
  <1>5. Drive' = Drive /\ Directory' = Directory
    BY <1>1, <1>2, <1>4 DEF Drive, Directory
  <1>6. DirLen' = DirLen /\ Default' = Default /\ Extent' = Extent /\ Ending' = Ending
    BY <1>1, <1>3, <1>5 DEF DirLen, Default, Extent, Ending
  <1>7. OffExt' = OffExt /\ StrEnd' = StrEnd
    BY <1>1, <1>3, <1>6 DEF OffExt, StrEnd, CutLen
  <1> QED BY <1>1, <1>2, <1>3, <1>5, <1>6, <1>7

LEMMA SameWritten ==
    ASSUME NEW str, UNCHANGED <<call, pointers>>, PutTogether(str), pstruct'.str = str
    PROVE  PutTogether(pstruct.str)'
  <1>1. path' = path /\ call' = call
    BY SameParts
  <1>2. Converted(Directory)' = Converted(Directory)
    BY <1>1, SameParts DEF Converted
  <1> QED BY <1>1, <1>2, SameParts DEF PutTogether

(* What is put together, if nothing is refused. *)
LEMMA FillFills ==
    ASSUME Argued, path # <<>>, Scanned, 2 <= PathMax, pstruct = Cleared, Fill, pstruct'.result = 0
    PROVE  Filled'
  <1>1. /\ NameStart \in Nat /\ p \in Nat /\ ExtLen \in Nat /\ NameLen \in Nat /\ NameLen + ExtLen = p - NameStart
        /\ NameStart <= p /\ 1 <= NameStart /\ p <= Len(path) + 1 /\ Len(path) \in Nat
    <2>1. 1 <= AfterDrive /\ AfterDrive <= NameStart /\ AfterDrive \in Nat /\ NameStart \in Nat
      BY NameFacts
    <2>2. 1 <= NameStart
      BY <2>1
    <2> QED BY <2>2, NameFacts
  <1>2. PathMax \in Nat
    BY PathMaxAssumption
  <1>3. DirLen \in Nat /\ DirLen <= PathMax /\ Directory \in Seq(Text) /\ Len(Directory) \in Nat
    BY DirectoryFacts
  <1>4. Drive \in Seq(Text) /\ Len(Drive) \in Nat
    BY DriveFacts
  <1>5. /\ Extent \in Nat /\ Ending \in Seq(Text) /\ Len(Ending) = Extent
        /\ Default = <<>> => Extent = ExtLen
        /\ Default # <<>> => ExtLen = 0
    <2>1. Default = <<>> => Len(Default) = 0
      BY EmptySeq
    <2>2. Default = <<>> => Extent = ExtLen
      BY <1>1, <2>1 DEF Extent
    <2> QED BY <2>2, EndingFacts
  <1>6. CutLen(Extent) \in Nat /\ CutLen(Extent) <= Extent /\ (Extent > 0 => CutLen(Extent) > 0)
    BY <1>5, CutFacts
  <1>7. OffExt \in Nat /\ StrEnd \in Nat /\ OffExt = DirLen + NameLen /\ StrEnd = OffExt + CutLen(Extent)
        /\ ExtOffset(DirLen) = OffExt
    BY <1>1, <1>3, <1>6 DEF OffExt, StrEnd, ExtOffset
  <1> DEFINE name == SubSeq(path, NameStart, NameStart + NameLen - 1)
             parts == Copied(Copied(Copied(Cleared.str, 0, Drive), Len(Drive), Converted(Directory)), DirLen, name)
             done == Copied(Copied(parts, OffExt, Ending), StrEnd, <<"nul">>)
             filled == [pstruct EXCEPT !.diroff = Len(Drive), !.filenameoff = Len(Directory),
                          !.dirlen = DirLen, !.namelen = NameLen, !.offext = OffExt, !.extlen = Extent,
                          !.str = done]
             tooLong == [filled EXCEPT !.offext = 0, !.result = TOO_LONG]
  <1>8. pstruct' = IF p # NameStart /\ ExtLen + NameLen + DirLen > PathMax
                   THEN [tooLong EXCEPT !.extlen = ExtLen,
                           !.str = Copied(Copied(pstruct.str, 0, Drive), Len(Drive), Converted(Directory))]
                   ELSE IF Default # <<>> /\ Extent + NameLen + DirLen > PathMax
                   THEN [tooLong EXCEPT !.str = parts]
                   ELSE IF Extent = 0 \/ NameLen > 0 THEN filled
                   ELSE IF DirLen > 0 \/ Extent # 1
                   THEN [filled EXCEPT !.result = UNNAMED]
                   ELSE [filled EXCEPT !.namelen = 1, !.extlen = 0, !.offext = 1]
    BY <1>7, ZenonT(60) DEF Fill, DirLen, Default, Extent, Ending, StrEnd
  <1>9. TOO_LONG # 0 /\ UNNAMED # 0
    BY DEF TOO_LONG, UNNAMED
  <1> HIDE DEF parts, done
  <1>10. tooLong.result = TOO_LONG
    BY DEF Cleared
  <1>11. /\ ~(p # NameStart /\ ExtLen + NameLen + DirLen > PathMax)
         /\ ~(Default # <<>> /\ Extent + NameLen + DirLen > PathMax)
         /\ ~(Extent = 0 \/ NameLen > 0) => ~(DirLen > 0 \/ Extent # 1)
    BY <1>8, <1>9 DEF Cleared
  <1>12. StrEnd <= PathMax
    <2>1. CASE Default = <<>>
      <3>1. Extent = ExtLen
        BY <1>5, <2>1
      <3>2. CASE p = NameStart
        BY <1>1, <1>3, <1>6, <1>7, <3>1, <3>2
      <3>3. CASE p # NameStart
        BY <1>1, <1>2, <1>3, <1>6, <1>7, <1>11, <3>1, <3>3
      <3> QED BY <3>2, <3>3
    <2>2. CASE Default # <<>>
      BY <1>1, <1>2, <1>3, <1>5, <1>6, <1>7, <1>11, <2>2
    <2> QED BY <2>1, <2>2
  <1>13. name \in Seq(Text) /\ Len(name) = NameLen /\ \A k \in 1 .. NameLen : name[k] = path[NameStart + k - 1]
    <2>1. path \in Seq(Text)
      BY DEF Argued
    <2>2. PICK s \in Nat, t \in Nat : s = NameStart /\ t = NameStart + NameLen - 1 /\ 1 <= s /\ t <= Len(path) /\ s <= t + 1
      BY <1>1
    <2>3. /\ SubSeq(path, s, t) \in Seq(Text) /\ Len(SubSeq(path, s, t)) = t - s + 1
          /\ \A k \in 1 .. t - s + 1 : SubSeq(path, s, t)[k] = path[s + k - 1]
      BY <2>1, <2>2, SubFacts
    <2>4. t - s + 1 = NameLen
      BY <1>1, <2>2
    <2> QED BY <2>2, <2>3, <2>4
  <1>14. Converted(Directory) \in Seq(Text) /\ Len(Converted(Directory)) = Len(Directory)
    BY <1>3, ConvertedFacts
  <1>15. DOMAIN Cleared.str = 0 .. PathMax
    BY DEF Cleared
  <1>16. /\ DOMAIN done = 0 .. PathMax
         /\ \A i \in 0 .. Len(Drive) - 1 : done[i] = Drive[i + 1]
         /\ \A i \in Len(Drive) .. DirLen - 1 : done[i] = Converted(Directory)[i - Len(Drive) + 1]
         /\ \A i \in DirLen .. OffExt - 1 : done[i] = name[i - DirLen + 1]
         /\ \A i \in OffExt .. StrEnd - 1 : done[i] = Ending[i - OffExt + 1]
         /\ done[StrEnd] = "nul"
    <2>1. Len(Drive) <= DirLen /\ Len(Converted(Directory)) = DirLen - Len(Drive)
      BY <1>3, <1>4, <1>14 DEF DirLen
    <2>2. DirLen <= OffExt /\ Len(name) = OffExt - DirLen /\ OffExt <= StrEnd /\ Len(Ending) >= StrEnd - OffExt
      BY <1>1, <1>3, <1>5, <1>6, <1>7, <1>13
    <2>3. done = Copied(Copied(Copied(Copied(Copied(Cleared.str, 0, Drive), Len(Drive), Converted(Directory)),
                                      DirLen, name), OffExt, Ending), StrEnd, <<"nul">>)
      BY DEF done, parts
    <2>4. PICK a \in Nat, b \in Nat, c \in Nat, e \in Nat : a = Len(Drive) /\ b = DirLen /\ c = OffExt /\ e = StrEnd
      BY <1>3, <1>4, <1>7
    <2>5. PICK str, dr, dir, nm, ext :
             /\ str = Cleared.str /\ dr = Drive /\ dir = Converted(Directory) /\ nm = name /\ ext = Ending
             /\ dr \in Seq(Text) /\ dir \in Seq(Text) /\ nm \in Seq(Text) /\ ext \in Seq(Text)
             /\ DOMAIN str = 0 .. PathMax
      BY <1>4, <1>5, <1>13, <1>14, <1>15
    <2>6. /\ a <= b /\ b <= c /\ c <= e /\ e <= PathMax
          /\ Len(dr) = a /\ Len(dir) = b - a /\ Len(nm) = c - b /\ Len(ext) >= e - c
      BY <1>12, <2>1, <2>2, <2>4, <2>5
    <2>7. done = Copied(Copied(Copied(Copied(Copied(str, 0, dr), a, dir), b, nm), c, ext), e, <<"nul">>)
      BY <2>3, <2>4, <2>5
    <2>8. /\ DOMAIN done = 0 .. PathMax
          /\ \A i \in 0 .. a - 1 : done[i] = dr[i + 1]
          /\ \A i \in a .. b - 1 : done[i] = dir[i - a + 1]
          /\ \A i \in b .. c - 1 : done[i] = nm[i - b + 1]
          /\ \A i \in c .. e - 1 : done[i] = ext[i - c + 1]
          /\ done[e] = "nul"
      <3>1. PathMax \in Nat
        BY PathMaxAssumption
      <3>2. PICK s1 : s1 = Copied(str, 0, dr) /\ Laid(s1, str, 0, dr, Len(dr)) /\ DOMAIN s1 = 0 .. PathMax
        <4>1. 0 \in Nat
          OBVIOUS
        <4> QED BY <2>5, <4>1, CopiedFacts
      <3>3. PICK s2 : s2 = Copied(s1, a, dir) /\ Laid(s2, s1, a, dir, Len(dir)) /\ DOMAIN s2 = 0 .. PathMax
        BY <2>5, <3>2, CopiedFacts
      <3>4. PICK s3 : s3 = Copied(s2, b, nm) /\ Laid(s3, s2, b, nm, Len(nm)) /\ DOMAIN s3 = 0 .. PathMax
        BY <2>5, <3>3, CopiedFacts
      <3>5. PICK l, s4 : l \in Nat /\ s4 = Copied(s3, c, ext) /\ l = Len(ext) /\ Laid(s4, s3, c, ext, l) /\ DOMAIN s4 = 0 .. PathMax
        <4>1. Len(ext) \in Nat
          BY <2>5
        <4> QED BY <2>5, <2>6, <3>4, <4>1, CopiedFacts
      <3>6. PICK Z, z : z \in Seq(Z) /\ z = <<"nul">> /\ Len(z) = 1 /\ z[1] = "nul"
        <4>1. <<"nul">> \in Seq({"nul"}) /\ Len(<<"nul">>) = 1 /\ <<"nul">>[1] = "nul"
          OBVIOUS
        <4> QED BY <4>1
      <3>8. DOMAIN done = 0 .. PathMax /\ Laid(done, s4, e, z, 1)
        <4>1. done = Copied(s4, e, z)
          BY <2>7, <3>2, <3>3, <3>4, <3>5, <3>6
        <4> QED BY <3>5, <3>6, <4>1, CopiedFacts
      <3>9. \A i \in 0 .. e - 1 : i \in 0 .. PathMax /\ done[i] = s4[i]
        BY <2>6, <3>1, <3>8 DEF Laid
      <3>10. \A i \in c .. e - 1 : done[i] = ext[i - c + 1]
        <4>1. \A i \in c .. e - 1 : i \in 0 .. e - 1 /\ c <= i /\ i < c + l
          BY <2>6, <3>5
        <4> QED BY <3>5, <3>9, <4>1 DEF Laid
      <3>11. \A i \in 0 .. c - 1 : i \in 0 .. e - 1 /\ i \in 0 .. PathMax /\ done[i] = s3[i]
        BY <2>6, <3>1, <3>5, <3>9 DEF Laid
      <3>12. \A i \in b .. c - 1 : done[i] = nm[i - b + 1]
        BY <2>6, <3>4, <3>11, SMTT(30) DEF Laid
      <3>13. \A i \in 0 .. b - 1 : i \in 0 .. c - 1 /\ i \in 0 .. PathMax /\ done[i] = s2[i]
        BY <2>6, <3>4, <3>11 DEF Laid
      <3>14. \A i \in a .. b - 1 : done[i] = dir[i - a + 1]
        BY <2>6, <3>3, <3>13 DEF Laid
      <3>15. \A i \in 0 .. a - 1 : i \in 0 .. b - 1 /\ i \in 0 .. PathMax /\ done[i] = s1[i]
        BY <2>6, <3>3, <3>13 DEF Laid
      <3>16. \A i \in 0 .. a - 1 : done[i] = dr[i + 1]
        <4> SUFFICES ASSUME NEW i \in 0 .. a - 1 PROVE done[i] = dr[i + 1]
          OBVIOUS
        <4>1. 0 <= i /\ i < 0 + a /\ i - 0 + 1 = i + 1
          OBVIOUS
        <4>2. s1[i] = dr[i - 0 + 1]
          BY <2>6, <3>2, <3>15, <4>1 DEF Laid
        <4> QED BY <3>15, <4>1, <4>2
      <3>17. done[e] = "nul"
        <4>1. e \in 0 .. PathMax /\ e - e + 1 = 1 /\ e <= e /\ e < e + 1
          BY <2>6, <3>1
        <4>2. done[e] = z[1]
          BY <3>8, <4>1 DEF Laid
        <4> QED BY <3>6, <4>2
      <3> QED BY <3>8, <3>10, <3>12, <3>14, <3>16, <3>17
    <2> QED BY <2>4, <2>5, <2>8
  <1>17. \A i \in DirLen .. OffExt - 1 : done[i] = path[NameStart + i - DirLen]
    <2> SUFFICES ASSUME NEW i \in DirLen .. OffExt - 1 PROVE done[i] = path[NameStart + i - DirLen]
      OBVIOUS
    <2>1. i - DirLen + 1 \in 1 .. NameLen /\ NameStart + (i - DirLen + 1) - 1 = NameStart + i - DirLen
      BY <1>1, <1>3, <1>7
    <2>2. name[i - DirLen + 1] = path[NameStart + (i - DirLen + 1) - 1]
      BY <1>13, <2>1
    <2> QED BY <1>16, <2>1, <2>2
  <1>18. PutTogether(done)
    <2>1. StrEnd \in 0 .. PathMax
      BY <1>2, <1>7, <1>12
    <2> QED BY <1>16, <1>17, <2>1 DEF PutTogether
  <1>19. \/ pstruct' = filled /\ (Extent = 0 \/ NameLen > 0)
         \/ /\ pstruct' = [filled EXCEPT !.namelen = 1, !.extlen = 0, !.offext = 1]
            /\ DirLen = 0 /\ NameLen = 0 /\ Extent = 1
    BY <1>1, <1>3, <1>5, <1>8, <1>11, SMTT(30)
  <1>20. /\ pstruct'.str = done /\ pstruct'.diroff = Len(Drive) /\ pstruct'.dirlen = DirLen
         /\ pstruct'.filenameoff = Len(Directory)
         /\ \/ /\ Extent = 0 \/ NameLen > 0
               /\ pstruct'.namelen = NameLen /\ pstruct'.offext = OffExt /\ pstruct'.extlen = Extent
            \/ /\ DirLen = 0 /\ NameLen = 0 /\ Extent = 1
               /\ pstruct'.namelen = 1 /\ pstruct'.offext = 1 /\ pstruct'.extlen = 0
    BY <1>19 DEF Cleared
  <1>21. UNCHANGED <<call, pointers>>
    BY DEF Fill
  <1>22. PutTogether(pstruct.str)'
    BY <1>18, <1>20, <1>21, SameWritten
  <1> QED BY <1>20, <1>21, <1>22, SameParts DEF Filled

(* Where Fill has put things, as numbers. *)
LEMMA Offsets ==
    ASSUME Argued, path # <<>>, Scanned, 2 <= PathMax
    PROVE  /\ Len(Drive) \in Nat /\ Len(Directory) \in Nat /\ DirLen \in Nat /\ DirLen = Len(Drive) + Len(Directory)
           /\ OffExt \in Nat /\ OffExt = DirLen + NameLen /\ StrEnd \in Nat /\ StrEnd = OffExt + CutLen(Extent)
           /\ Extent \in Nat /\ CutLen(Extent) \in Nat /\ CutLen(Extent) <= Extent /\ (Extent > 0 => CutLen(Extent) > 0)
           /\ NameStart \in Nat /\ NameLen \in Nat /\ ExtLen \in Nat /\ p \in Nat /\ Begin \in Nat /\ AfterDrive \in Nat
           /\ 1 <= Begin /\ Begin <= AfterDrive /\ AfterDrive <= NameStart /\ NameStart <= p /\ p <= Len(path) + 1
           /\ Len(path) \in Nat /\ NameLen + ExtLen = p - NameStart
  <1>1. Len(Drive) \in Nat /\ Len(Directory) \in Nat /\ DirLen \in Nat /\ DirLen = Len(Drive) + Len(Directory)
    BY DriveFacts, DirectoryFacts DEF DirLen
  <1>2. /\ NameStart \in Nat /\ NameLen \in Nat /\ ExtLen \in Nat /\ p \in Nat /\ AfterDrive \in Nat
        /\ AfterDrive <= NameStart /\ NameStart <= p /\ p <= Len(path) + 1 /\ Len(path) \in Nat
        /\ NameLen + ExtLen = p - NameStart
    BY NameFacts
  <1>3. Extent \in Nat
    BY EndingFacts
  <1>4. CutLen(Extent) \in Nat /\ CutLen(Extent) <= Extent /\ (Extent > 0 => CutLen(Extent) > 0)
    BY <1>3, CutFacts
  <1>5. OffExt \in Nat /\ OffExt = DirLen + NameLen /\ StrEnd \in Nat /\ StrEnd = OffExt + CutLen(Extent)
    BY <1>1, <1>2, <1>4 DEF OffExt, StrEnd
  <1>6. Begin \in Nat /\ 1 <= Begin /\ Begin <= AfterDrive
    <2>1. Begin \in 1 .. Len(path) /\ AfterDrive \in {Begin, Begin + 2}
      BY BeginFacts
    <2> QED BY <1>2, <2>1
  <1> QED BY <1>1, <1>2, <1>3, <1>4, <1>5, <1>6

LEMMA CharsWritten ==
    ASSUME Argued, path # <<>>, Scanned, 2 <= PathMax, NEW str, PutTogether(str)
    PROVE  \A i \in 0 .. StrEnd - 1 : str[i] \in Text
  <1>1. /\ Drive \in Seq(Text) /\ Converted(Directory) \in Seq(Text) /\ Len(Converted(Directory)) = Len(Directory)
        /\ path \in Seq(Text) /\ Ending \in Seq(Text) /\ Len(Ending) = Extent
    BY DriveFacts, DirectoryFacts, ConvertedFacts, EndingFacts DEF Argued
  <1>2. PICK dr, dir, w, ext :
           /\ dr = Drive /\ dir = Converted(Directory) /\ w = path /\ ext = Ending
           /\ \A k \in 1 .. Len(Drive) : dr[k] \in Text
           /\ \A k \in 1 .. Len(Directory) : dir[k] \in Text
           /\ \A k \in 1 .. Len(path) : w[k] \in Text
           /\ \A k \in 1 .. Extent : ext[k] \in Text
    BY <1>1, SeqFacts
  <1>3. PICK a \in Nat, d \in Nat, c \in Nat, e \in Nat :
           /\ a = Len(Drive) /\ d = DirLen /\ c = OffExt /\ e = StrEnd
           /\ a <= d /\ d <= c /\ d = a + Len(Directory) /\ c = d + NameLen /\ e <= c + Extent
    <2>1. /\ Len(Drive) \in Nat /\ DirLen \in Nat /\ OffExt \in Nat /\ StrEnd \in Nat /\ Len(Directory) \in Nat
          /\ NameLen \in Nat /\ CutLen(Extent) \in Nat /\ Extent \in Nat
      BY Offsets
    <2>2. /\ DirLen = Len(Drive) + Len(Directory) /\ OffExt = DirLen + NameLen
          /\ StrEnd = OffExt + CutLen(Extent) /\ CutLen(Extent) <= Extent
      BY Offsets
    <2>3. Len(Drive) <= DirLen /\ DirLen <= OffExt /\ StrEnd <= OffExt + Extent
      BY <2>1, <2>2
    <2> QED BY <2>1, <2>2, <2>3
  <1> SUFFICES ASSUME NEW i \in 0 .. e - 1 PROVE str[i] \in Text
    BY <1>3
  <1>4. CASE i < a
    <2>1. i \in 0 .. a - 1 /\ i + 1 \in 1 .. a
      BY <1>4
    <2> QED BY <1>2, <1>3, <2>1 DEF PutTogether
  <1>5. CASE a <= i /\ i < d
    <2>1. i \in a .. d - 1 /\ i - a + 1 \in 1 .. Len(Directory)
      BY <1>3, <1>5, Offsets
    <2> QED BY <1>2, <1>3, <2>1 DEF PutTogether
  <1>6. CASE d <= i /\ i < c
    <2>1. i \in d .. c - 1 /\ NameStart + i - d \in 1 .. Len(path)
      <3>2. NameStart \in Nat /\ Len(path) \in Nat /\ NameLen \in Nat /\ ExtLen \in Nat /\ p \in Nat /\ AfterDrive \in Nat
        BY NameFacts
      <3>3. NameLen + ExtLen = p - NameStart /\ p <= Len(path) + 1 /\ 1 <= AfterDrive /\ AfterDrive <= NameStart
        BY NameFacts
      <3>1. NameStart \in Nat /\ 1 <= NameStart /\ NameStart + NameLen <= Len(path) + 1 /\ Len(path) \in Nat /\ NameLen \in Nat
        BY <3>2, <3>3
      <3> QED BY <1>3, <1>6, <3>1
    <2> QED BY <1>2, <1>3, <2>1 DEF PutTogether
  <1>7. CASE c <= i
    <2>1. i \in c .. e - 1 /\ i - c + 1 \in 1 .. Extent
      <3>1. Extent \in Nat
        BY Offsets
      <3> QED BY <1>3, <1>7, <3>1
    <2> QED BY <1>2, <1>3, <2>1 DEF PutTogether
  <1> QED BY <1>4, <1>5, <1>6, <1>7

LEMMA StringIs ==
    ASSUME Argued, path # <<>>, Scanned, 2 <= PathMax, NEW str, PutTogether(str)
    PROVE  /\ CString(str) \in Seq(Text) /\ Len(CString(str)) = StrEnd
           /\ \A i \in 1 .. StrEnd : CString(str)[i] = str[i - 1]
  <1>1. PICK e \in Nat : e = StrEnd /\ e \in DOMAIN str /\ str[e] = "nul" /\ DOMAIN str \subseteq Nat
    <2>1. StrEnd \in Nat
      BY Offsets
    <2>2. StrEnd \in 0 .. PathMax /\ DOMAIN str = 0 .. PathMax /\ str[StrEnd] = "nul"
      BY DEF PutTogether
    <2>3. StrEnd \in DOMAIN str
      BY <2>2
    <2>4. DOMAIN str \subseteq Nat
      BY <2>2
    <2> QED BY <2>1, <2>2, <2>3, <2>4
  <1>2. \A i \in 0 .. e - 1 : str[i] \in Text
    BY <1>1, CharsWritten
  <1>3. \A i \in 0 .. e - 1 : str[i] # "nul"
    BY <1>2 DEF Text
  <1> DEFINE End(i) == i \in DOMAIN str /\ str[i] = "nul" /\ \A j \in 0 .. i - 1 : str[j] # "nul"
  <1>4. \A i \in DOMAIN str : End(i) => i = e
    <2> SUFFICES ASSUME NEW i \in DOMAIN str, End(i) PROVE i = e
      OBVIOUS
    <2>1. ~(i \in 0 .. e - 1)
      BY <1>3
    <2>2. ~(e \in 0 .. i - 1)
      BY <1>1
    <2>3. i \in Nat
      BY <1>1
    <2> QED BY <2>1, <2>2, <2>3
  <1>5. End(e)
    BY <1>1, <1>3
  <1>6. (CHOOSE i \in DOMAIN str : str[i] = "nul" /\ \A j \in 0 .. i - 1 : str[j] # "nul") = e
    BY <1>4, <1>5
  <1>7. CString(str) = [i \in 1 .. e |-> str[i - 1]]
    BY <1>6 DEF CString
  <1>8. \A i \in 1 .. e : i - 1 \in 0 .. e - 1
    OBVIOUS
  <1>9. CString(str) \in [1 .. e -> Text]
    BY <1>2, <1>7, <1>8
  <1>10. CString(str) \in Seq(Text)
    BY <1>9, SeqDef
  <1>11. Len(CString(str)) = e
    <2>1. Len(CString(str)) \in Nat /\ DOMAIN CString(str) = 1 .. Len(CString(str))
      BY <1>10, SeqFacts
    <2>2. 1 .. Len(CString(str)) = 1 .. e
      BY <1>9, <2>1
    <2> QED BY <2>1, <2>2, SameEnd
  <1> QED BY <1>1, <1>7, <1>10, <1>11

(* The characters of the path name, as they are in the string. *)
Conv(c) == IF call.dos /\ c = "\\" THEN "/" ELSE c

LEMMA ConvFacts == ASSUME NEW c PROVE Conv(Conv(c)) = Conv(c) /\ (Conv(c) = " " => c = " ")
  BY DEF Conv

LEMMA PathIsWritten ==
    ASSUME Argued, path # <<>>, Scanned, 2 <= PathMax, NEW str, PutTogether(str), NEW q \in Begin .. p - 1
    PROVE  \E i \in Nat : i = DirLen + q - NameStart /\ (i < StrEnd => Conv(str[i]) = Conv(path[q]))
  <1>1. PICK a \in Nat, d \in Nat, c \in Nat, e \in Nat, b \in Nat, t \in Nat, m \in Nat :
           /\ a = Len(Drive) /\ d = DirLen /\ c = OffExt /\ e = StrEnd /\ b = Begin /\ t = AfterDrive /\ m = NameStart
           /\ d = a + Len(Directory) /\ c = d + NameLen /\ b <= t /\ t <= m
    BY Offsets
  <1>2. q \in Nat /\ b <= q /\ q < p /\ p \in Nat /\ NameLen \in Nat /\ ExtLen \in Nat /\ Len(Directory) \in Nat
        /\ NameLen + ExtLen = p - m
    <2>1. p \in Nat /\ NameLen \in Nat /\ ExtLen \in Nat /\ Len(Directory) \in Nat /\ NameLen + ExtLen = p - NameStart
      BY Offsets
    <2>2. q \in b .. p - 1
      BY <1>1
    <2>3. q \in Nat /\ b <= q /\ q < p
      BY <2>1, <2>2
    <2> QED BY <1>1, <2>1, <2>3
  <1>3. Converted(Directory) \in Seq(Text)
    BY DirectoryFacts, ConvertedFacts
  <1> SUFFICES \E i \in Nat : i = d + q - m /\ (i < e => Conv(str[i]) = Conv(path[q]))
    BY <1>1
  <1>4. CASE q >= m + NameLen
    <2>1. ExtLen > 0
      BY <1>2, <1>4
    <2>2. fileext = m + NameLen /\ Extent = ExtLen /\ \A k \in 1 .. Extent : Ending[k] = path[fileext + k - 1]
      <3>1. fileext = m + NameLen
        BY <1>1, <2>1, NameFacts
      <3> QED BY <2>1, <3>1, EndingFacts
    <2>3. PICK i \in Nat : i = d + q - m /\ c <= i
      <3>1. c <= d + q - m /\ d + q - m \in Nat
        BY <1>1, <1>2, <1>4
      <3> QED BY <3>1
    <2>4. i - c + 1 \in 1 .. ExtLen /\ m + NameLen + (i - c + 1) - 1 = q
      BY <1>1, <1>2, <1>4, <2>3
    <2>5. i < e => str[i] = Ending[i - c + 1]
      <3>1. i < e => i \in c .. e - 1
        BY <2>3
      <3>2. \A j \in c .. e - 1 : str[j] = Ending[j - c + 1]
        BY <1>1 DEF PutTogether
      <3> QED BY <3>1, <3>2
    <2>6. Ending[i - c + 1] = path[q]
      BY <2>2, <2>4
    <2> QED BY <2>3, <2>5, <2>6
  <1>5. CASE m <= q /\ q < m + NameLen
    <2>1. PICK i \in Nat : i = d + q - m /\ i \in d .. c - 1 /\ m + i - d = q
      <3>1. d + q - m \in Nat /\ d + q - m \in d .. c - 1 /\ m + (d + q - m) - d = q
        BY <1>1, <1>2, <1>5
      <3> QED BY <3>1
    <2>2. str[i] = path[m + i - d]
      BY <1>1, <2>1 DEF PutTogether
    <2> QED BY <2>1, <2>2
  <1>6. CASE t <= q /\ q < m
    <2>1. lastdirptr # 0
      <3>1. lastdirptr = 0 => m = t
        BY <1>1, NameFacts
      <3> QED BY <1>1, <1>2, <1>6, <3>1
    <2>2. Len(Directory) = m - t /\ \A k \in 1 .. Len(Directory) : Directory[k] = path[t + k - 1]
      BY <1>1, <2>1, DirectoryFacts
    <2>3. PICK i \in Nat : i = d + q - m /\ i \in a .. d - 1 /\ i - a + 1 \in 1 .. m - t /\ t + (i - a + 1) - 1 = q
      <3>1. d = a + (m - t)
        BY <1>1, <2>2
      <3>2. /\ d + q - m \in Nat /\ d + q - m \in a .. d - 1 /\ (d + q - m) - a + 1 \in 1 .. m - t
            /\ t + ((d + q - m) - a + 1) - 1 = q
        BY <1>1, <1>2, <1>6, <3>1
      <3> QED BY <3>2
    <2>4. str[i] = Converted(Directory)[i - a + 1]
      BY <1>1, <2>3 DEF PutTogether
    <2>5. Converted(Directory)[i - a + 1] = Conv(Directory[i - a + 1])
      BY <2>2, <2>3, DirectoryFacts, ConvertedFacts DEF Conv
    <2>6. Directory[i - a + 1] = path[q]
      BY <2>2, <2>3
    <2> QED BY <2>3, <2>4, <2>5, <2>6, ConvFacts
  <1>7. CASE q < t
    <2>1. HasDrive /\ t = b + 2
      <3>1. t \in {b, b + 2} /\ (HasDrive <=> t = b + 2)
        BY <1>1, BeginFacts
      <3>2. t # b
        BY <1>1, <1>2, <1>7
      <3> QED BY <3>1, <3>2
    <2>2. Len(Directory) = m - t /\ a = 2 /\ \A k \in 1 .. 2 : Drive[k] = path[b + k - 1]
      BY <1>1, <2>1, DirectoryFacts, DriveFacts
    <2>3. PICK i \in Nat : i = d + q - m /\ i \in 0 .. a - 1 /\ i + 1 \in 1 .. 2 /\ b + (i + 1) - 1 = q
      <3>1. d = 2 + (m - t)
        BY <1>1, <2>2
      <3>2. d + q - m = q - b /\ q - b \in Nat /\ q - b \in 0 .. 1
        BY <1>1, <1>2, <1>7, <2>1, <3>1
      <3> QED BY <1>1, <1>2, <2>2, <3>2
    <2>4. str[i] = Drive[i + 1]
      BY <1>1, <2>3 DEF PutTogether
    <2>5. Drive[i + 1] = path[q]
      BY <2>2, <2>3
    <2> QED BY <2>3, <2>4, <2>5
  <1> QED BY <1>1, <1>2, <1>4, <1>5, <1>6, <1>7

LEMMA ReverseFacts ==
    ASSUME NEW S, NEW s \in Seq(S)
    PROVE  /\ Reverse(s) \in Seq(S) /\ Len(Reverse(s)) = Len(s)
           /\ \A i \in 1 .. Len(s) : Reverse(s)[i] = s[Len(s) - i + 1]
  <1>1. Len(s) \in Nat /\ \A i \in 1 .. Len(s) : s[i] \in S
    BY SeqFacts
  <1>2. Reverse(s) = [i \in 1 .. Len(s) |-> s[(Len(s) - i) + 1]]
    BY DEF Reverse
  <1>3. \A i \in 1 .. Len(s) : (Len(s) - i) + 1 \in 1 .. Len(s)
    BY <1>1
  <1>4. Reverse(s) \in [1 .. Len(s) -> S]
    BY <1>1, <1>2, <1>3
  <1>5. Reverse(s) \in Seq(S)
    BY <1>1, <1>4, SeqDef
  <1>6. Len(Reverse(s)) = Len(s)
    <2>1. Len(Reverse(s)) \in Nat /\ DOMAIN Reverse(s) = 1 .. Len(Reverse(s))
      BY <1>5, SeqFacts
    <2>2. 1 .. Len(Reverse(s)) = 1 .. Len(s)
      BY <1>4, <2>1
    <2> QED BY <1>1, <2>1, <2>2, SameEnd
  <1> QED BY <1>2, <1>5, <1>6

LEMMA SuffixIs ==
    ASSUME NEW S, NEW s \in Seq(S), NEW t \in Seq(S), Len(s) <= Len(t),
           \A i \in 1 .. Len(s) : s[i] = t[Len(t) - Len(s) + i]
    PROVE  IsSuffix(s, t)
  <1>1. PICK l \in Nat, m \in Nat : l = Len(s) /\ m = Len(t) /\ l <= m
    <2>1. Len(s) \in Nat /\ Len(t) \in Nat
      BY SeqFacts
    <2> QED BY <2>1
  <1>2. PICK rs \in Seq(S), rt \in Seq(S) :
           /\ rs = Reverse(s) /\ rt = Reverse(t) /\ Len(rs) = l /\ Len(rt) = m
           /\ \A i \in 1 .. l : rs[i] = s[l - i + 1]
           /\ \A i \in 1 .. m : rt[i] = t[m - i + 1]
    BY <1>1, ReverseFacts
  <1>3. \A i \in 1 .. l : rs[i] = rt[i]
    <2> SUFFICES ASSUME NEW i \in 1 .. l PROVE rs[i] = rt[i]
      OBVIOUS
    <2>1. l - i + 1 \in 1 .. l /\ i \in 1 .. m /\ m - l + (l - i + 1) = m - i + 1
      BY <1>1
    <2>2. s[l - i + 1] = t[m - l + (l - i + 1)]
      BY <1>1, <2>1
    <2> QED BY <1>2, <2>1, <2>2
  <1>4. SubSeq(rs, 1, l) = SubSeq(rt, 1, l)
    <2>1. /\ SubSeq(rs, 1, l) \in Seq(S) /\ Len(SubSeq(rs, 1, l)) = l - 1 + 1
          /\ \A k \in 1 .. l - 1 + 1 : SubSeq(rs, 1, l)[k] = rs[1 + k - 1]
      BY <1>1, <1>2, SubFacts
    <2>2. /\ SubSeq(rt, 1, l) \in Seq(S) /\ Len(SubSeq(rt, 1, l)) = l - 1 + 1
          /\ \A k \in 1 .. l - 1 + 1 : SubSeq(rt, 1, l)[k] = rt[1 + k - 1]
      BY <1>1, <1>2, SubFacts
    <2>3. l - 1 + 1 = l /\ \A k \in 1 .. l : 1 + k - 1 = k
      BY <1>1
    <2>4. \A k \in 1 .. l : SubSeq(rs, 1, l)[k] = SubSeq(rt, 1, l)[k]
      BY <1>3, <2>1, <2>2, <2>3
    <2> QED BY <2>1, <2>2, <2>3, <2>4, SeqEqual
  <1> QED BY <1>1, <1>2, <1>4 DEF IsSuffix, IsPrefix

(* The directory, the name and the extension as parts of the string. *)
LEMMA PartsOfString ==
    ASSUME Argued, path # <<>>, Scanned, 2 <= PathMax, NEW str, PutTogether(str), NEW s, s = CString(str)
    PROVE  /\ "stale" \notin ToSet(s)
           /\ LET dir == SubSeq(s, Len(Drive) + 1, DirLen) IN dir = <<>> \/ Last(dir) = "/"
           /\ ToSet(SubSeq(s, DirLen + 1, OffExt)) \cap Separators = {}
           /\ LET ext == SubSeq(s, OffExt + 1, Len(s))
              IN  ext = <<>> \/ (Head(ext) = "." /\ ToSet(Tail(ext)) \cap (Separators \cup {"."}) = {})
  <1>1. s \in Seq(Text) /\ Len(s) = StrEnd /\ \A i \in 1 .. StrEnd : s[i] = str[i - 1]
    BY StringIs
  <1>2. PICK a \in Nat, d \in Nat, c \in Nat, e \in Nat, len \in Nat :
           /\ a = Len(Drive) /\ d = DirLen /\ c = OffExt /\ e = StrEnd /\ len = NameLen
           /\ d = a + Len(Directory) /\ c = d + len /\ e >= c
    <2>1. /\ Len(Drive) \in Nat /\ DirLen \in Nat /\ OffExt \in Nat /\ StrEnd \in Nat /\ NameLen \in Nat
          /\ DirLen = Len(Drive) + Len(Directory) /\ OffExt = DirLen + NameLen
          /\ StrEnd = OffExt + CutLen(Extent) /\ CutLen(Extent) \in Nat
      BY Offsets
    <2>2. StrEnd >= OffExt
      BY <2>1
    <2> QED BY <2>1, <2>2
  <1>3. PICK g \in Nat : g = Len(Directory) /\ d = a + g
    <2>1. Len(Directory) \in Nat
      BY Offsets
    <2> QED BY <1>2, <2>1
  <1>4. PICK x \in Nat, y \in Nat : x = CutLen(Extent) /\ e = c + x /\ y = Extent /\ x <= y
    <2>1. CutLen(Extent) \in Nat /\ Extent \in Nat /\ CutLen(Extent) <= Extent /\ StrEnd = OffExt + CutLen(Extent)
      BY Offsets
    <2> QED BY <1>2, <2>1
  <1>5. "stale" \notin ToSet(s)
    <2>1. \A i \in DOMAIN s : s[i] \in Text
      BY <1>1, SeqFacts
    <2>2. "stale" \notin Text
      BY DEF Text
    <2> QED BY <2>1, <2>2 DEF ToSet
  <1>6. ASSUME SubSeq(s, a + 1, d) # <<>> PROVE Last(SubSeq(s, a + 1, d)) = "/"
    <2>1. PICK dir \in Seq(Text) : /\ dir = SubSeq(s, a + 1, d) /\ Len(dir) = d - (a + 1) + 1
                     /\ \A k \in 1 .. d - (a + 1) + 1 : dir[k] = s[a + 1 + k - 1]
      <3>1. a + 1 \in Nat /\ 1 <= a + 1 /\ d <= Len(s) /\ a + 1 <= d + 1
        BY <1>1, <1>2, <1>3
      <3>2. /\ SubSeq(s, a + 1, d) \in Seq(Text) /\ Len(SubSeq(s, a + 1, d)) = d - (a + 1) + 1
            /\ \A k \in 1 .. d - (a + 1) + 1 : SubSeq(s, a + 1, d)[k] = s[a + 1 + k - 1]
        BY <1>1, <3>1, SubFacts, SMTT(30)
      <3> QED BY <3>2
    <2>2. d - (a + 1) + 1 = g
      BY <1>3
    <2>3. g > 0
      BY <1>6, <2>1, <2>2, SeqFacts
    <2>4. g \in 1 .. g /\ a + 1 + g - 1 = d /\ d \in 1 .. e /\ d - 1 \in a .. d - 1 /\ d - 1 - a + 1 = g
      BY <1>2, <1>3, <2>3
    <2>5. dir[g] = s[d]
      BY <2>1, <2>2, <2>4
    <2>6. s[d] = str[d - 1]
      BY <1>1, <1>2, <2>4
    <2>7. str[d - 1] = Converted(Directory)[d - 1 - a + 1]
      BY <1>2, <2>4 DEF PutTogether
    <2>8. Directory # <<>>
      <3>1. Directory = <<>> => Len(Directory) = 0
        BY EmptySeq
      <3> QED BY <1>3, <2>3, <3>1
    <2>9. Converted(Directory)[g] = "/"
      BY <1>3, <2>8, DirectoryFacts
    <2>10. Last(dir) = dir[g]
      BY <2>1, <2>2 DEF Last
    <2> QED BY <2>1, <2>4, <2>5, <2>6, <2>7, <2>9, <2>10
  <1>7. ToSet(SubSeq(s, d + 1, c)) \cap Separators = {}
    <2>1. PICK nm \in Seq(Text) : /\ nm = SubSeq(s, d + 1, c) /\ Len(nm) = c - (d + 1) + 1
                     /\ \A k \in 1 .. c - (d + 1) + 1 : nm[k] = s[d + 1 + k - 1]
      <3>1. d + 1 \in Nat /\ 1 <= d + 1 /\ c <= Len(s) /\ d + 1 <= c + 1
        BY <1>1, <1>2
      <3>2. /\ SubSeq(s, d + 1, c) \in Seq(Text) /\ Len(SubSeq(s, d + 1, c)) = c - (d + 1) + 1
            /\ \A k \in 1 .. c - (d + 1) + 1 : SubSeq(s, d + 1, c)[k] = s[d + 1 + k - 1]
        BY <1>1, <3>1, SubFacts
      <3> QED BY <3>2
    <2>2. c - (d + 1) + 1 = len
      BY <1>2
    <2>3. PICK m \in Nat : m = NameStart /\ \A j \in m .. m + len - 1 : path[j] \notin Separators
      <3>1. /\ NameStart \in Nat /\ NameLen \in Nat /\ ExtLen \in Nat /\ p \in Nat /\ NameLen + ExtLen = p - NameStart
        BY NameFacts
      <3>2. \A j \in NameStart .. p - 1 : path[j] \notin Separators
        BY NameFacts
      <3>3. \A j \in NameStart .. NameStart + len - 1 : j \in NameStart .. p - 1
        BY <1>2, <3>1
      <3> QED BY <3>1, <3>2, <3>3
    <2>4. ASSUME NEW k \in 1 .. len PROVE nm[k] \notin Separators
      <3>1. PICK i \in Nat : i = d + k - 1 /\ i \in d .. c - 1 /\ d + 1 + k - 1 = i + 1 /\ i + 1 \in 1 .. e /\ i + 1 - 1 = i
        <4>1. d + k - 1 \in Nat /\ d + k - 1 \in d .. c - 1 /\ d + 1 + k - 1 = (d + k - 1) + 1 /\ (d + k - 1) + 1 \in 1 .. e
              /\ (d + k - 1) + 1 - 1 = d + k - 1
          BY <1>2
        <4> QED BY <4>1
      <3>2. nm[k] = s[i + 1] /\ s[i + 1] = str[i]
        BY <1>1, <1>2, <2>1, <2>2, <3>1, SMTT(30)
      <3>3. str[i] = path[m + i - d]
        BY <1>2, <2>3, <3>1 DEF PutTogether
      <3>4. m + i - d \in m .. m + len - 1
        BY <1>2, <2>3, <3>1
      <3> QED BY <2>3, <3>2, <3>3, <3>4
    <2>5. \A z \in ToSet(nm) : z \notin Separators
      <3>1. DOMAIN nm = 1 .. len
        BY <2>1, <2>2, SeqFacts
      <3> QED BY <2>4, <3>1 DEF ToSet
    <2> QED BY <2>1, <2>5
  <1>8. ASSUME SubSeq(s, c + 1, e) # <<>>
        PROVE  LET ext == SubSeq(s, c + 1, e) IN Head(ext) = "." /\ ToSet(Tail(ext)) \cap (Separators \cup {"."}) = {}
    <2>1. PICK ext \in Seq(Text) : /\ ext = SubSeq(s, c + 1, e) /\ Len(ext) = e - (c + 1) + 1
                     /\ \A k \in 1 .. e - (c + 1) + 1 : ext[k] = s[c + 1 + k - 1]
      <3>1. c + 1 \in Nat /\ 1 <= c + 1 /\ e <= Len(s) /\ c + 1 <= e + 1
        BY <1>1, <1>2
      <3>2. /\ SubSeq(s, c + 1, e) \in Seq(Text) /\ Len(SubSeq(s, c + 1, e)) = e - (c + 1) + 1
            /\ \A k \in 1 .. e - (c + 1) + 1 : SubSeq(s, c + 1, e)[k] = s[c + 1 + k - 1]
        BY <1>1, <3>1, SubFacts
      <3> QED BY <3>2
    <2>2. e - (c + 1) + 1 = x
      BY <1>4
    <2>3. x > 0
      BY <1>8, <2>1, <2>2, SeqFacts
    <2>4. ASSUME NEW k \in 1 .. x PROVE ext[k] = Ending[k]
      <3>1. PICK i \in Nat : i = c + k - 1 /\ i \in c .. e - 1 /\ c + 1 + k - 1 = i + 1 /\ i + 1 \in 1 .. e /\ i + 1 - 1 = i
                             /\ i - c + 1 = k
        <4>1. /\ c + k - 1 \in Nat /\ c + k - 1 \in c .. e - 1 /\ c + 1 + k - 1 = (c + k - 1) + 1
              /\ (c + k - 1) + 1 \in 1 .. e /\ (c + k - 1) + 1 - 1 = c + k - 1 /\ (c + k - 1) - c + 1 = k
          BY <1>4
        <4> QED BY <4>1
      <3>2. ext[k] = s[i + 1] /\ s[i + 1] = str[i]
        <4>1. ext[k] = s[c + 1 + k - 1]
          BY <2>1, <2>2
        <4>2. s[i + 1] = str[i + 1 - 1]
          BY <1>1, <1>2, <3>1
        <4> QED BY <3>1, <4>1, <4>2
      <3>3. str[i] = Ending[i - c + 1]
        BY <1>2, <3>1 DEF PutTogether
      <3> QED BY <3>1, <3>2, <3>3
    <2>5. Head(ext) = "."
      <3>1. Head(ext) = ext[1] /\ 1 \in 1 .. x /\ y > 0
        <4>1. ext \in Seq(Text) /\ ext # <<>>
          BY <1>8, <2>1
        <4>2. Head(ext) = ext[1]
          BY <4>1
        <4>3. 1 \in 1 .. x /\ x <= y
          BY <1>4, <2>3
        <4>4. y > 0
          BY <2>3, <4>3
        <4> QED BY <4>2, <4>3, <4>4
      <3>2. Ending[1] = "."
        BY <1>4, <3>1, EndingFacts
      <3> QED BY <2>4, <3>1, <3>2
    <2>6. ASSUME NEW z \in ToSet(Tail(ext)) PROVE z \notin Separators \cup {"."}
      <3>1. Tail(ext) \in Seq(Text) /\ Len(Tail(ext)) = Len(ext) - 1 /\ \A k \in 1 .. Len(Tail(ext)) : Tail(ext)[k] = ext[k + 1]
        BY <1>8, <2>1, HeadTailProperties
      <3>2. DOMAIN Tail(ext) = 1 .. x - 1
        BY <2>1, <2>2, <3>1, SeqFacts
      <3>3. PICK k \in 1 .. x - 1 : z = Tail(ext)[k]
        BY <2>6, <3>2 DEF ToSet
      <3>4. k + 1 \in 1 .. x /\ k + 1 \in 2 .. y
        BY <1>4, <3>3
      <3>5. z = ext[k + 1]
        BY <2>1, <2>2, <3>1, <3>3
      <3>6. z = Ending[k + 1]
        BY <2>4, <3>4, <3>5
      <3>7. Ending[k + 1] # "." /\ Ending[k + 1] \notin Separators
        BY <1>4, <3>4, EndingFacts
      <3> QED BY <3>6, <3>7
    <2> QED BY <2>1, <2>5, <2>6
  <1> QED BY <1>1, <1>2, <1>5, <1>6, <1>7, <1>8

(* The path name that was given, but for a password, ends where its extension ends. *)
LEMMA GivenStands ==
    ASSUME Argued, path # <<>>, Scanned, 2 <= PathMax, NEW str, PutTogether(str), NEW s, s = CString(str),
           CutLen(Extent) = Extent
    PROVE  /\ OffExt + ExtLen \in Nat /\ OffExt + ExtLen <= Len(s)
           /\ IsSuffix(Converted(SubSeq(path, Begin, p - 1)), Converted(SubSeq(s, 1, OffExt + ExtLen)))
  <1>1. s \in Seq(Text) /\ Len(s) = StrEnd /\ \A i \in 1 .. StrEnd : s[i] = str[i - 1]
    BY StringIs
  <1>2. path \in Seq(Text)
    BY DEF Argued
  <1>3. PICK d \in Nat, e \in Nat, b \in Nat, m \in Nat, q \in Nat :
           /\ d = DirLen /\ e = StrEnd /\ b = Begin /\ m = NameStart /\ q = p
           /\ 1 <= b /\ b <= m /\ m <= q /\ q <= Len(path) + 1
    <2>1. DirLen \in Nat /\ StrEnd \in Nat /\ Begin \in Nat /\ NameStart \in Nat /\ p \in Nat /\ AfterDrive \in Nat
      BY Offsets
    <2>2. 1 <= Begin /\ Begin <= AfterDrive /\ AfterDrive <= NameStart /\ NameStart <= p /\ p <= Len(path) + 1
      BY Offsets
    <2>3. Begin <= NameStart
      BY <2>1, <2>2
    <2> QED BY <2>1, <2>2, <2>3
  <1>4. PICK u \in Nat : u = OffExt + ExtLen /\ u = d + q - m /\ u <= e
    <2>1. /\ OffExt = DirLen + NameLen /\ StrEnd = OffExt + Extent /\ NameLen + ExtLen = p - NameStart
          /\ OffExt \in Nat /\ ExtLen \in Nat /\ NameLen \in Nat /\ Extent \in Nat
      BY Offsets
    <2>2. ExtLen <= Extent
      <3>1. Len(Default) \in Nat
        BY EndingFacts
      <3> QED BY <2>1, <3>1 DEF Extent
    <2>3. OffExt + ExtLen \in Nat /\ OffExt + ExtLen = d + q - m /\ OffExt + ExtLen <= e
      BY <1>3, <2>1, <2>2
    <2> QED BY <2>3
  <1>5. PICK g \in Seq(Text), l \in Nat : /\ g = Converted(SubSeq(path, b, q - 1)) /\ l = q - b /\ Len(g) = l
                            /\ \A k \in 1 .. l : g[k] = Conv(path[b + k - 1])
    <2>1. q - 1 \in Nat /\ q - 1 <= Len(path) /\ b <= (q - 1) + 1 /\ (q - 1) - b + 1 = q - b /\ q - b \in Nat
      <3>1. Len(path) \in Nat
        BY <1>2, SeqFacts
      <3> QED BY <1>3, <3>1
    <2> DEFINE w == SubSeq(path, b, q - 1)
    <2>2. w \in Seq(Text) /\ Len(w) = (q - 1) - b + 1 /\ \A k \in 1 .. (q - 1) - b + 1 : w[k] = path[b + k - 1]
      BY <1>2, <1>3, <2>1, SubFacts
    <2> HIDE DEF w
    <2>3. Converted(w) \in Seq(Text) /\ Len(Converted(w)) = q - b /\ \A k \in 1 .. q - b : Converted(w)[k] = Conv(w[k])
      BY <2>1, <2>2, ConvertedFacts DEF Conv
    <2>4. \A k \in 1 .. q - b : Converted(w)[k] = Conv(path[b + k - 1])
      BY <2>1, <2>2, <2>3
    <2>5. Converted(SubSeq(path, b, q - 1)) = Converted(w)
      BY DEF w
    <2> QED BY <2>1, <2>3, <2>4, <2>5
  <1>6. PICK h \in Seq(Text) : /\ h = Converted(SubSeq(s, 1, u)) /\ Len(h) = u
                            /\ \A k \in 1 .. u : h[k] = Conv(s[k])
    <2>1. u <= Len(s) /\ 1 <= u + 1 /\ u - 1 + 1 = u
      BY <1>1, <1>3, <1>4
    <2> DEFINE w == SubSeq(s, 1, u)
    <2>2. w \in Seq(Text) /\ Len(w) = u - 1 + 1 /\ \A k \in 1 .. u - 1 + 1 : w[k] = s[1 + k - 1]
      BY <1>1, <2>1, SubFacts
    <2> HIDE DEF w
    <2>3. Converted(w) \in Seq(Text) /\ Len(Converted(w)) = u /\ \A k \in 1 .. u : Converted(w)[k] = Conv(w[k])
      BY <2>1, <2>2, ConvertedFacts DEF Conv
    <2>4. \A k \in 1 .. u : 1 + k - 1 = k
      OBVIOUS
    <2>5. \A k \in 1 .. u : Converted(w)[k] = Conv(s[k])
      BY <2>1, <2>2, <2>3, <2>4
    <2>6. Converted(SubSeq(s, 1, u)) = Converted(w)
      BY DEF w
    <2> QED BY <2>3, <2>5, <2>6
  <1>7. ASSUME NEW k \in 1 .. l PROVE u - l + k \in 1 .. u /\ g[k] = h[u - l + k]
    <2>1. PICK j \in Nat : j = b + k - 1 /\ j \in b .. q - 1
      <3>1. b + k - 1 \in Nat /\ b + k - 1 \in b .. q - 1
        BY <1>3, <1>5
      <3> QED BY <3>1
    <2>2. j \in Begin .. p - 1
      BY <1>3, <2>1
    <2>3. PICK i \in Nat : i = DirLen + j - NameStart /\ (i < StrEnd => Conv(str[i]) = Conv(path[j]))
      BY <2>2, PathIsWritten
    <2>4. i = d + j - m
      BY <1>3, <2>3
    <2>5. u - l + k = i + 1 /\ i + 1 \in 1 .. u /\ i + 1 \in 1 .. e /\ i < e /\ i + 1 - 1 = i
      <3>1. l = q - b /\ u = d + q - m /\ u <= e /\ j = b + k - 1 /\ i = d + j - m
        BY <1>4, <1>5, <2>1, <2>4
      <3>2. k \in Nat /\ 1 <= k /\ k <= l
        OBVIOUS
      <3>3. i + 1 <= u /\ u - l + k = i + 1
        BY <3>1, <3>2
      <3>4. i + 1 \in 1 .. u /\ i + 1 \in 1 .. e /\ i < e /\ i + 1 - 1 = i
        BY <3>1, <3>3
      <3> QED BY <3>3, <3>4
    <2>6. s[i + 1] = str[i + 1 - 1]
      <3>1. i + 1 \in 1 .. StrEnd
        BY <1>3, <2>5
      <3> QED BY <1>1, <3>1
    <2>7. h[i + 1] = Conv(str[i])
      BY <1>6, <2>5, <2>6
    <2>8. Conv(str[i]) = Conv(path[j])
      BY <1>3, <2>3, <2>5
    <2> QED BY <1>5, <2>1, <2>5, <2>7, <2>8
  <1>8. l <= u
    <2>1. CASE l = 0
      BY <1>4, <2>1
    <2>2. CASE l > 0
      <3>1. 1 \in 1 .. l /\ u - l + 1 \in 1 .. u
        <4>1. 1 \in 1 .. l
          BY <2>2
        <4> QED BY <1>7, <4>1
      <3> QED BY <1>4, <1>5, <3>1
    <2> QED BY <1>5, <2>1, <2>2
  <1>9. IsSuffix(g, h)
    BY <1>5, <1>6, <1>7, <1>8, SuffixIs, ZenonT(60)
  <1> QED BY <1>1, <1>3, <1>4, <1>5, <1>6, <1>9

LEMMA NamePartsHold ==
    ASSUME Argued, Scanned, 2 <= PathMax, path # <<>>, Filled
    PROVE  NameParts
  <1> DEFINE s == CString(pstruct.str)
  <1>1. /\ PutTogether(pstruct.str) /\ pstruct.diroff = Len(Drive) /\ pstruct.dirlen = DirLen
        /\ \/ /\ Extent = 0 \/ NameLen > 0
              /\ pstruct.namelen = NameLen /\ pstruct.offext = OffExt /\ pstruct.extlen = Extent
           \/ /\ DirLen = 0 /\ NameLen = 0 /\ Extent = 1
              /\ pstruct.namelen = 1 /\ pstruct.offext = 1 /\ pstruct.extlen = 0
    BY DEF Filled
  <1>2. s \in Seq(Text) /\ Len(s) = StrEnd
    BY <1>1, StringIs
  <1>3. /\ "stale" \notin ToSet(s)
        /\ LET dir == SubSeq(s, Len(Drive) + 1, DirLen) IN dir = <<>> \/ Last(dir) = "/"
        /\ ToSet(SubSeq(s, DirLen + 1, OffExt)) \cap Separators = {}
        /\ LET ext == SubSeq(s, OffExt + 1, Len(s))
           IN  ext = <<>> \/ (Head(ext) = "." /\ ToSet(Tail(ext)) \cap (Separators \cup {"."}) = {})
    BY <1>1, PartsOfString
  <1>4. /\ OffExt = DirLen + NameLen /\ OffExt \in Nat /\ DirLen \in Nat /\ NameLen \in Nat /\ Extent \in Nat
        /\ StrEnd = OffExt + CutLen(Extent) /\ CutLen(Extent) \in Nat /\ CutLen(Extent) <= Extent /\ ExtLen \in Nat
    BY Offsets
  <1>5. CutLen(Extent) = Extent =>
           /\ OffExt + ExtLen \in Nat /\ OffExt + ExtLen <= Len(s)
           /\ IsSuffix(Converted(SubSeq(path, Begin, p - 1)), Converted(SubSeq(s, 1, OffExt + ExtLen)))
    BY <1>1, GivenStands
  <1> HIDE DEF s
  <1>6. CASE pstruct.namelen = NameLen /\ pstruct.offext = OffExt /\ pstruct.extlen = Extent
    <2>1. ~(CutLen(Extent) < Extent) => CutLen(Extent) = Extent
      BY <1>4
    <2>2. CutLen(Extent) = Extent => Lower(OffExt + ExtLen, Len(s)) = OffExt + ExtLen
      <3>1. ASSUME NEW x \in Nat, NEW y \in Nat, x <= y PROVE Lower(x, y) = x
        BY <3>1 DEF Lower
      <3>2. Len(s) \in Nat
        BY <1>2, SeqFacts
      <3> QED BY <1>5, <3>1, <3>2
    <2>3. \/ CutLen(Extent) < Extent
          \/ IsSuffix(Converted(SubSeq(path, Begin, p - 1)), Converted(SubSeq(s, 1, Lower(OffExt + ExtLen, Len(s)))))
      BY <1>5, <2>1, <2>2
    <2>4. pstruct.dirlen + pstruct.namelen = pstruct.offext /\ Len(s) = pstruct.offext + CutLen(pstruct.extlen)
      BY <1>1, <1>2, <1>4, <1>6
    <2> QED BY <1>1, <1>3, <1>6, <2>3, <2>4 DEF NameParts, s
  <1>7. CASE /\ DirLen = 0 /\ NameLen = 0 /\ Extent = 1
             /\ pstruct.namelen = 1 /\ pstruct.offext = 1 /\ pstruct.extlen = 0
    <2>1. CutLen(Extent) = 1 /\ CutLen(0) = 0
      BY <1>7 DEF CutLen
    <2>2. ExtLen = 1
      <3>1. ExtLen # 0
        BY <1>7, EndingFacts
      <3>2. Extent = ExtLen
        BY <1>4, <3>1, EndingFacts
      <3> QED BY <1>7, <3>2
    <2>3. OffExt = 0 /\ StrEnd = 1 /\ Len(s) = 1 /\ OffExt + ExtLen = 1
      BY <1>2, <1>4, <1>7, <2>1, <2>2
    <2>4. Lower(2, 1) = 1
      BY DEF Lower
    <2>5. SubSeq(s, 2, 1) = <<>>
      <3>1. SubSeq(s, 2, 1) \in Seq(Text) /\ Len(SubSeq(s, 2, 1)) = 1 - 2 + 1
        BY <1>2, <2>3, SubFacts
      <3> QED BY <3>1, SeqFacts
    <2>6. ToSet(SubSeq(s, 1, 1)) \cap Separators = {}
      <3>1. s[1] = "."
        <4>1. \A i \in 1 .. StrEnd : CString(pstruct.str)[i] = pstruct.str[i - 1]
          BY <1>1, StringIs
        <4>2. s[1] = pstruct.str[0]
          BY <2>3, <4>1 DEF s
        <4>3. pstruct.str[0] = Ending[0 - 0 + 1]
          BY <1>1, <2>3 DEF PutTogether
        <4>4. Ending[1] = "."
          BY <1>7, EndingFacts
        <4> QED BY <4>2, <4>3, <4>4
      <3>2. /\ SubSeq(s, 1, 1) \in Seq(Text) /\ Len(SubSeq(s, 1, 1)) = 1 - 1 + 1
            /\ \A k \in 1 .. 1 - 1 + 1 : SubSeq(s, 1, 1)[k] = s[1 + k - 1]
        <4>1. 1 \in Nat /\ 1 <= Len(s)
          BY <2>3
        <4> QED BY <1>2, <4>1, SubFacts
      <3>3. DOMAIN SubSeq(s, 1, 1) = {1} /\ SubSeq(s, 1, 1)[1] = s[1]
        BY <3>2, SeqFacts
      <3>4. "." \notin Separators
        BY DEF Separators
      <3> QED BY <3>1, <3>3, <3>4 DEF ToSet
    <2>7. IsSuffix(Converted(SubSeq(path, Begin, p - 1)), Converted(SubSeq(s, 1, 1)))
      BY <1>5, <1>7, <2>1, <2>3
    <2>8. LET dir == SubSeq(s, pstruct.diroff + 1, pstruct.dirlen) IN dir = <<>> \/ Last(dir) = "/"
      BY <1>1, <1>3
    <2>9. /\ pstruct.dirlen + pstruct.namelen = pstruct.offext
          /\ Len(s) = pstruct.offext + CutLen(pstruct.extlen)
          /\ pstruct.dirlen + 1 = 1 /\ pstruct.offext = 1 /\ pstruct.offext + 1 = 2 /\ pstruct.offext + ExtLen = 2 /\ Len(s) = 1
      BY <1>1, <1>7, <2>1, <2>2, <2>3
    <2>10. SubSeq(s, pstruct.offext + 1, Len(s)) = <<>>
      BY <2>5, <2>9
    <2>11. ToSet(SubSeq(s, pstruct.dirlen + 1, pstruct.offext)) \cap Separators = {}
      BY <2>6, <2>9
    <2>12. IsSuffix(Converted(SubSeq(path, Begin, p - 1)), Converted(SubSeq(s, 1, Lower(pstruct.offext + ExtLen, Len(s)))))
      BY <2>4, <2>7, <2>9
    <2> QED BY <1>3, <2>8, <2>9, <2>10, <2>11, <2>12 DEF NameParts, s
  <1> QED BY <1>1, <1>6, <1>7

(* The steps. *)
LEMMA SameScanned == ASSUME UNCHANGED <<call, pointers>>, Scanned PROVE Scanned'
  <1>1. path' = path /\ AfterDrive' = AfterDrive /\ Separators' = Separators
    BY SameParts
  <1>2. p' = p /\ fileext' = fileext /\ lastdirptr' = lastdirptr /\ lastspace' = lastspace
    BY DEF pointers
  <1> QED BY <1>1, <1>2 DEF Scanned, LastOf

LEMMA SameArgued == ASSUME UNCHANGED call, Argued PROVE Argued'
  BY DEF Argued, path

LEMMA SameCall == ASSUME UNCHANGED call PROVE path' = path /\ AfterDrive' = AfterDrive /\ Separators' = Separators
  BY DEF path, AfterDrive, HasDrive, Begin, Separators

LEMMA PairFacts ==
    ASSUME NEW S, NEW a \in S, NEW b \in S
    PROVE  <<a, b>> \in Seq(S) /\ Len(<<a, b>>) = 2 /\ <<a, b>>[1] = a /\ <<a, b>>[2] = b
  OBVIOUS

LEMMA SameCleared == Cleared' = Cleared
  BY DEF Cleared

(* A new place for the last of C, when the character at p has been looked at. *)
LEMMA LastOfNext ==
    ASSUME NEW i, NEW C, NEW from \in Nat, p \in Nat, from <= p, LastOf(i, C, from, p),
           NEW k, k = IF path[p] \in C THEN p ELSE i
    PROVE  LastOf(k, C, from, p + 1)
  <1>1. CASE path[p] \in C
    <2>1. p \in from .. (p + 1) - 1 /\ \A j \in p + 1 .. (p + 1) - 1 : FALSE
      OBVIOUS
    <2> QED BY <1>1, <2>1 DEF LastOf
  <1>2. CASE path[p] \notin C /\ i = 0 /\ \A j \in from .. p - 1 : path[j] \notin C
    <2>1. \A j \in from .. (p + 1) - 1 : j \in from .. p - 1 \/ j = p
      OBVIOUS
    <2> QED BY <1>2, <2>1 DEF LastOf
  <1>3. CASE path[p] \notin C /\ i \in from .. p - 1 /\ path[i] \in C /\ \A j \in i + 1 .. p - 1 : path[j] \notin C
    <2>1. i \in from .. (p + 1) - 1 /\ \A j \in i + 1 .. (p + 1) - 1 : j \in i + 1 .. p - 1 \/ j = p
      BY <1>3
    <2> QED BY <1>3, <2>1 DEF LastOf
  <1> QED BY <1>1, <1>2, <1>3 DEF LastOf

LEMMA ProtectedBlank ==
    ASSUME path \in Seq(Text), p \in Nat, 1 <= p, p <= Len(path), Matches(Protected, p)
    PROVE  path[p] = " "
  <1>1. PICK q \in Nat, m \in Nat : q = p /\ m = Len(path) /\ 1 <= q /\ q <= m
    <2>1. Len(path) \in Nat
      BY SeqFacts
    <2> QED BY <2>1
  <1>2. PICK sub \in Seq(Text) : /\ sub = SubSeq(path, q, m) /\ Len(sub) = m - q + 1
                                 /\ \A k \in 1 .. m - q + 1 : sub[k] = path[q + k - 1]
    <2>1. /\ SubSeq(path, q, m) \in Seq(Text) /\ Len(SubSeq(path, q, m)) = m - q + 1
          /\ \A k \in 1 .. m - q + 1 : SubSeq(path, q, m)[k] = path[q + k - 1]
      BY <1>1, SubFacts
    <2> QED BY <2>1
  <1>3. PICK S : Protected \in Seq(S) /\ Len(Protected) = 2 /\ Protected[1] = " "
    <2>1. " " \in {" ", "["} /\ "[" \in {" ", "["}
      OBVIOUS
    <2> QED BY <2>1, PairFacts DEF Protected
  <1>4. 2 <= Len(sub) /\ SubSeq(Protected, 1, 2) = SubSeq(sub, 1, 2)
    BY <1>1, <1>2, <1>3 DEF Matches, IsPrefix
  <1>5. SubSeq(Protected, 1, 2)[1] = Protected[1] /\ SubSeq(sub, 1, 2)[1] = sub[1]
    <2>1. ASSUME NEW T, NEW t \in Seq(T), 2 <= Len(t) PROVE SubSeq(t, 1, 2)[1] = t[1]
      <3>1. 1 \in Nat /\ 2 \in Nat /\ 1 <= 1 /\ 1 <= 2 + 1
        OBVIOUS
      <3>2. \A k \in 1 .. 2 - 1 + 1 : SubSeq(t, 1, 2)[k] = t[1 + k - 1]
        BY <2>1, <3>1, SubFacts
      <3>3. 1 \in 1 .. 2 - 1 + 1 /\ 1 + 1 - 1 = 1
        OBVIOUS
      <3> QED BY <3>2, <3>3
    <2>2. 2 <= Len(Protected)
      <3>1. Len(Protected) = 2
        BY <1>3
      <3> QED BY <3>1
    <2> QED BY <1>3, <1>4, <2>1, <2>2
  <1>6. sub[1] = path[q]
    <2>1. 1 \in 1 .. m - q + 1 /\ q + 1 - 1 = q
      BY <1>1
    <2> QED BY <1>2, <2>1
  <1> QED BY <1>1, <1>3, <1>4, <1>5, <1>6

LEMMA ReduceFailsKeeps == ASSUME NameInv, ReduceFails PROVE NameInv'
  <1>1. Argued /\ UNCHANGED call
    BY DEF NameInv, ReduceFails
  <1>2. pstruct = Cleared /\ stage' = "split" /\ pstruct'.result = INVALID
    BY DEF NameInv, ReduceFails, Invalid, Cleared
  <1>3. ~Split'
    BY <1>2 DEF Split, INVALID
  <1> QED BY <1>1, <1>2, <1>3, SameArgued DEF NameInv

LEMMA ScanKeeps == ASSUME NameInv, Scan PROVE NameInv'
  <1>1. Argued /\ path # <<>> /\ Scanned /\ pstruct = Cleared /\ pathtype = 0 /\ p <= Len(path) /\ UNCHANGED call
    BY DEF NameInv, Scan
  <1>2. Argued' /\ path' = path
    BY <1>1, SameArgued DEF path
  <1>3. CASE Refused
    <2>1. stage' = "split" /\ pstruct'.result = INVALID
      BY <1>1, <1>3 DEF Scan, Invalid, Cleared
    <2>2. ~Split'
      BY <2>1 DEF Split, INVALID
    <2> QED BY <1>2, <2>1, <2>2 DEF NameInv
  <1>4. CASE ~Refused
    <2>1. /\ lastspace' = IF path[p] = " " THEN p ELSE lastspace
          /\ fileext' = IF path[p] = "." THEN p ELSE fileext
          /\ lastdirptr' = IF path[p] \in Separators THEN p ELSE lastdirptr
          /\ UNCHANGED pstruct
          /\ \/ Matches(Protected, p) /\ stage' = "fill" /\ pathtype' = 2 /\ p' = p
             \/ p' = p + 1 /\ stage' = "scan" /\ pathtype' = 0
      BY <1>1, <1>4 DEF Scan
    <2>2. PICK a \in Nat, m \in Nat : /\ a = AfterDrive /\ m = Len(path) /\ p \in Nat /\ 1 <= a /\ a <= p /\ p <= m
      <3>1. AfterDrive \in 1 .. Len(path) + 1 /\ Len(path) \in Nat
        BY <1>1, BeginFacts, SeqFacts DEF Argued
      <3>2. p \in AfterDrive .. Len(path) + 1
        BY <1>1 DEF Scanned
      <3>3. AfterDrive \in Nat /\ 1 <= AfterDrive /\ AfterDrive <= p /\ p \in Nat
        BY <3>1, <3>2
      <3> QED BY <1>1, <3>1, <3>3
    <2>3. /\ AfterDrive' = a /\ Separators' = Separators
      <3>1. AfterDrive' = AfterDrive /\ Separators' = Separators
        BY <1>1, SameCall
      <3> QED BY <2>2, <3>1
    <2>4. PICK dot, sep : dot = {"."} /\ sep = Separators /\ LastOf(fileext, dot, a, p) /\ LastOf(lastdirptr, sep, a, p)
      BY <1>1, <2>2 DEF Scanned
    <2>5. lastspace' = 0 \/ (lastspace' \in a .. m /\ path[lastspace'] = " ")
      <3>1. p \in a .. m
        BY <2>2
      <3> QED BY <1>1, <2>1, <2>2, <3>1 DEF Scanned
    <2>6. p' \in a .. m + 1 /\ LastOf(fileext', dot, a, p') /\ LastOf(lastdirptr', sep, a, p')
      <3>1. CASE Matches(Protected, p) /\ p' = p
        <4>1. path[p] = " "
          <5>1. p \in Nat /\ 1 <= p /\ p <= Len(path)
            BY <2>2
          <5> QED BY <1>1, <3>1, <5>1, ProtectedBlank DEF Argued
        <4>2. path[p] # "." /\ path[p] \notin Separators
          BY <4>1 DEF Separators
        <4>3. fileext' = fileext /\ lastdirptr' = lastdirptr /\ p' = p
          BY <2>1, <3>1, <4>2
        <4>4. p \in a .. m + 1
          BY <2>2
        <4> QED BY <2>4, <4>3, <4>4
      <3>2. CASE p' = p + 1
        <4>1. fileext' = IF path[p] \in dot THEN p ELSE fileext
          BY <2>1, <2>4
        <4>2. lastdirptr' = IF path[p] \in sep THEN p ELSE lastdirptr
          BY <2>1, <2>4
        <4>3. LastOf(fileext', dot, a, p + 1)
          BY <2>2, <2>4, <4>1, LastOfNext
        <4>4. LastOf(lastdirptr', sep, a, p + 1)
          BY <2>2, <2>4, <4>2, LastOfNext
        <4>5. p + 1 \in a .. m + 1
          BY <2>2
        <4> QED BY <3>2, <4>3, <4>4, <4>5
      <3> QED BY <2>1, <3>1, <3>2
    <2>7. Scanned'
      BY <1>2, <2>2, <2>3, <2>4, <2>5, <2>6 DEF Scanned, LastOf
    <2>8. pstruct' = Cleared'
      BY <1>1, <2>1, SameCleared
    <2>9. ~Split'
      BY <2>1 DEF Split
    <2>10. /\ stage' \in {"scan", "fill"} /\ (stage' = "scan" => pathtype' = 0)
           /\ stage' = "fill" => pathtype' = 2
      <3>1. CASE Matches(Protected, p) /\ stage' = "fill" /\ pathtype' = 2
        BY <3>1
      <3>2. CASE stage' = "scan" /\ pathtype' = 0
        BY <3>2
      <3> QED BY <2>1, <3>1, <3>2
    <2>11. pathtype' # 0 \/ stage' # "fill"
      BY <2>10
    <2> QED BY <1>1, <1>2, <2>7, <2>8, <2>9, <2>10, <2>11 DEF NameInv
  <1> QED BY <1>3, <1>4

(* A password that is asked for stands behind the name, without dots and separators. *)
LEMMA BeforePassword ==
    ASSUME NEW i, NEW C, NEW from \in Nat, NEW l \in Nat, NEW m \in Nat, from <= l, l + 1 = m,
           path[l] \notin C, path[m] \notin C, LastOf(i, C, from, m + 1)
    PROVE  LastOf(i, C, from, l)
  <1>1. CASE i = 0 /\ \A j \in from .. (m + 1) - 1 : path[j] \notin C
    <2>1. \A j \in from .. l - 1 : j \in from .. (m + 1) - 1
      OBVIOUS
    <2> QED BY <1>1, <2>1 DEF LastOf
  <1>2. CASE i \in from .. (m + 1) - 1 /\ path[i] \in C /\ \A j \in i + 1 .. (m + 1) - 1 : path[j] \notin C
    <2>1. i # l /\ i # m
      BY <1>2
    <2>2. i \in from .. l - 1 /\ \A j \in i + 1 .. l - 1 : j \in i + 1 .. (m + 1) - 1
      BY <1>2, <2>1
    <2> QED BY <1>2, <2>2 DEF LastOf
  <1> QED BY <1>1, <1>2 DEF LastOf

LEMMA ScanEndsKeeps == ASSUME NameInv, ScanEnds PROVE NameInv'
  <1>1. /\ Argued /\ path # <<>> /\ Scanned /\ pstruct = Cleared /\ pathtype = 0 /\ p > Len(path)
        /\ stage' = "fill" /\ UNCHANGED <<call, fileext, lastdirptr, lastspace, pstruct>>
    BY DEF NameInv, ScanEnds
  <1>2. Argued' /\ path' = path
    BY <1>1, SameArgued DEF path
  <1>3. PICK a \in Nat, m \in Nat : /\ a = AfterDrive /\ m = Len(path) /\ p = m + 1 /\ 1 <= a /\ a <= p
    <2>1. AfterDrive \in 1 .. Len(path) + 1 /\ Len(path) \in Nat
      BY <1>1, BeginFacts, SeqFacts DEF Argued
    <2>2. p \in AfterDrive .. Len(path) + 1
      BY <1>1 DEF Scanned
    <2>3. AfterDrive \in Nat /\ 1 <= AfterDrive /\ AfterDrive <= p /\ p = Len(path) + 1
      BY <1>1, <2>1, <2>2
    <2> QED BY <2>1, <2>3
  <1>4. /\ AfterDrive' = a /\ Separators' = Separators
    <2>1. AfterDrive' = AfterDrive /\ Separators' = Separators
      BY <1>1, SameCall
    <2> QED BY <1>3, <2>1
  <1>5. PICK dot, sep : dot = {"."} /\ sep = Separators /\ LastOf(fileext, dot, a, p) /\ LastOf(lastdirptr, sep, a, p)
    BY <1>1, <1>3 DEF Scanned
  <1>6. lastspace = 0 \/ (lastspace \in a .. m /\ path[lastspace] = " ")
    BY <1>1, <1>3 DEF Scanned
  <1>7. pstruct' = Cleared' /\ ~Split'
    BY <1>1, SameCleared DEF Split
  <1>8. CASE UNCHANGED <<pathtype, p>>
    <2>1. Scanned'
      BY <1>1, <1>8, SameScanned DEF pointers
    <2> QED BY <1>1, <1>2, <1>3, <1>7, <1>8, <2>1 DEF NameInv
  <1>9. CASE lastspace # 0 /\ SubSeq(path, lastspace, Len(path)) = Password /\ pathtype' = 1 /\ p' = lastspace
    <2>0. lastspace \in a .. m /\ path[lastspace] = " "
      BY <1>6, <1>9
    <2>1. PICK l \in Nat : l = lastspace /\ a <= l /\ l <= m
      <3>1. lastspace \in a .. m
        BY <2>0
      <3> QED BY <3>1
    <2>12. path[l] = " "
      BY <2>0, <2>1
    <2>2. Len(Password) = 2 /\ Password[2] = "p"
      <3>1. " " \in {" ", "p"} /\ "p" \in {" ", "p"}
        OBVIOUS
      <3> QED BY <3>1, PairFacts DEF Password
    <2>3. /\ Len(Password) = m - l + 1 /\ \A k \in 1 .. m - l + 1 : Password[k] = path[l + k - 1]
      <3>1. path \in Seq(Text) /\ m = Len(path)
        BY <1>1, <1>3 DEF Argued
      <3>4. 1 <= l /\ l <= m + 1 /\ m <= m
        BY <1>3, <2>1
      <3>2. /\ Len(SubSeq(path, l, m)) = m - l + 1
            /\ \A k \in 1 .. m - l + 1 : SubSeq(path, l, m)[k] = path[l + k - 1]
        BY <3>1, <3>4, SubFacts
      <3>3. SubSeq(path, l, m) = Password
        BY <1>3, <1>9, <2>1
      <3> QED BY <3>2, <3>3
    <2>4. l + 1 = m /\ path[m] = "p"
      <3>1. m - l + 1 = 2
        BY <2>2, <2>3
      <3>2. l + 1 = m /\ 2 \in 1 .. m - l + 1 /\ l + 2 - 1 = m
        BY <3>1
      <3> QED BY <2>2, <2>3, <3>2
    <2>5. path[l] \notin dot /\ path[l] \notin sep /\ path[m] \notin dot /\ path[m] \notin sep
      BY <1>5, <2>4, <2>12 DEF Separators
    <2>6. LastOf(fileext, dot, a, m + 1) /\ LastOf(lastdirptr, sep, a, m + 1)
      BY <1>3, <1>5
    <2>7. LastOf(fileext, dot, a, l) /\ LastOf(lastdirptr, sep, a, l)
      BY <2>1, <2>4, <2>5, <2>6, BeforePassword
    <2>8. l \in a .. m + 1
      BY <2>1
    <2>9. Scanned'
      BY <1>1, <1>2, <1>3, <1>4, <1>5, <1>6, <1>9, <2>1, <2>7, <2>8 DEF Scanned, LastOf
    <2> QED BY <1>1, <1>2, <1>7, <1>9, <2>9 DEF NameInv
  <1> QED BY <1>8, <1>9 DEF ScanEnds

LEMMA FillKeeps == ASSUME 2 <= PathMax, NameInv, Fill PROVE NameInv'
  <1>1. /\ Argued /\ path # <<>> /\ Scanned /\ pstruct = Cleared /\ (pathtype = 0 => p = Len(path) + 1)
        /\ stage' = "split" /\ UNCHANGED <<call, pointers>>
    BY DEF NameInv, Fill
  <1>2. Argued' /\ path' = path /\ Scanned' /\ pathtype' = pathtype /\ p' = p
    BY <1>1, SameArgued, SameScanned DEF path, pointers
  <1>3. Split' => Filled'
    BY <1>1, FillFills DEF Split
  <1> QED BY <1>1, <1>2, <1>3 DEF NameInv

LEMMA BeginIn == Argued /\ path # <<>> => AfterDrive \in 1 .. Len(path) + 1
  BY BeginFacts
LEMMA BeginNext == (Argued /\ path # <<>>)' => (AfterDrive \in 1 .. Len(path) + 1)'
  BY BeginIn, PTL

LEMMA Enters == ASSUME Argued', Entered PROVE NameInv'
  <1>1. /\ stage' = IF path' = <<>> THEN "split" ELSE "scan"
        /\ p' = IF path' = <<>> THEN 0 ELSE AfterDrive'
        /\ fileext' = 0 /\ lastdirptr' = 0 /\ lastspace' = 0 /\ pathtype' = 0
        /\ pstruct' = Cleared
    BY DEF Entered
  <1>2. CASE path' = <<>>
    <2>1. ~Split' /\ stage' = "split"
      BY <1>1, <1>2 DEF Split
    <2> QED BY <2>1 DEF NameInv
  <1>3. CASE path' # <<>>
    <2>1. stage' = "scan" /\ ~Split' /\ pstruct' = Cleared' /\ p' = AfterDrive'
      BY <1>1, <1>3, SameCleared DEF Split
    <2>2. AfterDrive' \in 1 .. Len(path') + 1
      BY <1>3, BeginNext
    <2>3. Len(path') \in Nat
      <3>1. path' \in Seq(Text)
        BY DEF Argued
      <3> QED BY <3>1, SeqFacts
    <2>4. AfterDrive' \in AfterDrive' .. Len(path') + 1 /\ \A j \in AfterDrive' .. AfterDrive' - 1 : FALSE
      <3>1. PICK a, m : a = AfterDrive' /\ m = Len(path')
        OBVIOUS
      <3>2. a \in 1 .. m + 1 /\ m \in Nat
        BY <2>2, <2>3, <3>1
      <3>3. a \in a .. m + 1 /\ \A j \in a .. a - 1 : FALSE
        BY <3>2
      <3> QED BY <3>1, <3>3
    <2>5. Scanned'
      BY <1>1, <2>1, <2>4 DEF Scanned, LastOf
    <2> QED BY <1>1, <1>3, <2>1, <2>5 DEF NameInv
  <1> QED BY <1>2, <1>3

LEMMA NoText ==
    ASSUME 2 <= PathMax, NEW s, s = <<>>
    PROVE  /\ s \in Seq(Text) /\ Len(s) < PathMax /\ Fitting(s, 0)
           /\ \A i \in 1 .. Len(s) : s[i] \notin {".", "/", "\\"}
  <1>1. s \in Seq(Text) /\ Len(s) = 0
    BY EmptySeq
  <1>2. \A i \in 1 .. Len(s) : FALSE
    BY <1>1
  <1>3. Len(s) < PathMax
    BY <1>1, PathMaxAssumption
  <1> QED BY <1>1, <1>2, <1>3 DEF Fitting

LEMMA CallKeeps == ASSUME NamesFit, CallSplit PROVE NameInv'
  <1>1. /\ call' \in [path : Names, root : Roots, extension : Extensions, dos : BOOLEAN, checklen : BOOLEAN]
        /\ Entered
    BY DEF CallSplit
  <1>2. PathMax \in Nat
    BY PathMaxAssumption
  <1>3. path' = call'.path
    BY DEF path
  <1>4. path' \in Seq(Text) /\ (path' = <<>> \/ \E i \in 1 .. Len(path') : path'[i] # " ")
    <2>1. path' \in Names /\ path' \in Seq(Text)
      BY <1>1, <1>3 DEF NamesFit
    <2>2. DOMAIN path' = 1 .. Len(path')
      BY <2>1, SeqFacts
    <2> QED BY <2>1, <2>2, NamesAssumption
  <1>5. Fitting(path', 2)
    BY <1>1, <1>3 DEF NamesFit
  <1>6. Fitting(path', IF call'.root = <<>> THEN 0 ELSE 2)
    <2>1. CASE call'.root = <<>>
      <3>1. \A i \in 1 .. Len(path') : i + 2 <= PathMax => i + 0 <= PathMax
        BY <1>2
      <3>2. Fitting(path', 0)
        BY <1>5, <3>1 DEF Fitting
      <3> QED BY <2>1, <3>2
    <2>2. CASE call'.root # <<>>
      BY <1>5, <2>2
    <2> QED BY <2>1, <2>2
  <1>7. call'.root \in Seq(Text) /\ Len(call'.root) < PathMax /\ (call'.root # <<>> => call'.root[Len(call'.root)] # "\\")
    BY <1>1 DEF NamesFit
  <1>8. /\ call'.extension \in Seq(Text)
        /\ \A i \in 1 .. Len(call'.extension) : call'.extension[i] \notin {".", "/", "\\"}
    BY <1>1 DEF NamesFit
  <1>9. call'.dos \in BOOLEAN /\ call'.checklen \in BOOLEAN
    BY <1>1
  <1>10. Argued'
    BY <1>4, <1>6, <1>7, <1>8, <1>9 DEF Argued
  <1> QED BY <1>1, <1>10, Enters

(* The string that was put together can be a path name in its turn. *)
LEMMA StringFits ==
    ASSUME Argued, path # <<>>, Scanned, 2 <= PathMax, NEW str, PutTogether(str), p = Len(path) + 1
    PROVE  /\ CString(str) \in Seq(Text) /\ Fitting(CString(str), 0)
           /\ \E i \in 1 .. Len(CString(str)) : CString(str)[i] # " "
  <1>1. /\ CString(str) \in Seq(Text) /\ Len(CString(str)) = StrEnd
        /\ \A i \in 1 .. StrEnd : CString(str)[i] = str[i - 1]
    BY StringIs
  <1>2. StrEnd \in Nat /\ StrEnd <= PathMax /\ PathMax \in Nat
    BY PathMaxAssumption DEF PutTogether
  <1>3. Fitting(CString(str), 0)
    BY <1>1, <1>2 DEF Fitting
  <1>4. /\ OffExt \in Nat /\ DirLen \in Nat /\ NameLen \in Nat /\ Extent \in Nat /\ CutLen(Extent) \in Nat
        /\ ExtLen \in Nat /\ NameStart \in Nat /\ p \in Nat
        /\ OffExt = DirLen + NameLen /\ StrEnd = OffExt + CutLen(Extent)
        /\ Extent > 0 => CutLen(Extent) > 0
        /\ NameLen + ExtLen = p - NameStart
    BY Offsets
  <1>5. ASSUME NEW i \in Nat, i < StrEnd, str[i] # " " PROVE \E j \in 1 .. Len(CString(str)) : CString(str)[j] # " "
    <2>1. i + 1 \in 1 .. StrEnd /\ i + 1 - 1 = i
      <3>1. i < StrEnd /\ i \in Nat /\ StrEnd \in Nat
        BY <1>2, <1>5
      <3> QED BY <3>1
    <2>2. CString(str)[i + 1] = str[i]
      BY <1>1, <2>1
    <2> QED BY <1>1, <1>5, <2>1, <2>2
  <1>6. CASE Extent > 0
    <2>1. OffExt \in OffExt .. StrEnd - 1 /\ OffExt - OffExt + 1 = 1 /\ OffExt < StrEnd
      BY <1>4, <1>6
    <2>2. str[OffExt] = Ending[1]
      BY <2>1 DEF PutTogether
    <2>3. str[OffExt] # " "
      BY <1>6, <2>2, EndingFacts
    <2> QED BY <1>1, <1>3, <1>4, <1>5, <2>1, <2>3
  <1>7. CASE Extent = 0
    <2>1. ExtLen = 0 /\ CutLen(Extent) = 0
      <3>1. ExtLen > 0 => Extent = ExtLen
        BY EndingFacts
      <3>2. CutLen(0) = 0
        BY DEF CutLen
      <3> QED BY <1>4, <1>7, <3>1, <3>2
    <2>2. Begin \in 1 .. Len(path) /\ path[Begin] # " " /\ Len(path) \in Nat
      BY BeginFacts, SeqFacts DEF Argued
    <2>3. Begin \in Begin .. p - 1 /\ Begin < p /\ Begin \in Nat
      <3>1. PICK len \in Nat : len = Len(path) /\ p = len + 1 /\ Begin \in 1 .. len
        BY <2>2
      <3>2. Begin \in Nat /\ Begin <= len
        BY <3>1
      <3> QED BY <3>1, <3>2
    <2>4. PICK i \in Nat : i = DirLen + Begin - NameStart /\ (i < StrEnd => Conv(str[i]) = Conv(path[Begin]))
      BY <2>3, PathIsWritten
    <2>5. i < StrEnd
      <3>1. StrEnd = DirLen + (p - NameStart)
        BY <1>4, <2>1
      <3>2. i = DirLen + Begin - NameStart
        BY <2>4
      <3> QED BY <1>4, <2>3, <3>1, <3>2
    <2>6. Conv(" ") = " "
      BY DEF Conv
    <2>7. str[i] # " "
      BY <2>2, <2>4, <2>5, <2>6, ConvFacts
    <2> QED BY <1>1, <1>3, <1>5, <2>5, <2>7
  <1>8. Extent > 0 \/ Extent = 0
    BY <1>4
  <1> QED BY <1>6, <1>7, <1>8

LEMMA CallAgainKeeps == ASSUME 2 <= PathMax, NameInv, CallAgain PROVE NameInv'
  <1>1. /\ Argued /\ path # <<>> /\ Scanned /\ Filled /\ p = Len(path) + 1
    BY DEF NameInv, CallAgain, Split
  <1>2. PICK str : str = CString(pstruct.str) /\ str \in Seq(Text) /\ Fitting(str, 0) /\ \E i \in 1 .. Len(str) : str[i] # " "
    BY <1>1, StringFits DEF Filled
  <1>3. /\ call' = [call EXCEPT !.path = str, !.root = <<>>, !.extension = <<>>] /\ Entered
    BY <1>2 DEF CallAgain
  <1>4. /\ call'.path = str /\ call'.root = <<>> /\ call'.extension = <<>>
        /\ call'.dos = call.dos /\ call'.checklen = call.checklen
    BY <1>3
  <1>5. Argued'
    <2>1. path' = str /\ call'.root \in Seq(Text) /\ Len(call'.root) < PathMax
      BY <1>4, NoText DEF path
    <2>2. /\ call'.extension \in Seq(Text)
          /\ \A i \in 1 .. Len(call'.extension) : call'.extension[i] \notin {".", "/", "\\"}
      BY <1>4, NoText
    <2>3. call'.dos \in BOOLEAN /\ call'.checklen \in BOOLEAN
      BY <1>1, <1>4 DEF Argued
    <2>4. Fitting(path', IF call'.root = <<>> THEN 0 ELSE 2)
      BY <1>2, <1>4, <2>1
    <2> QED BY <1>2, <1>4, <2>1, <2>2, <2>3, <2>4 DEF Argued
  <1> QED BY <1>3, <1>5, Enters

LEMMA RestKeeps == ASSUME 2 <= PathMax, call' = NoCall, stage' = "idle" PROVE NameInv'
  <1>1. PathMax \in Nat
    BY PathMaxAssumption
  <1>2. /\ call'.path = <<>> /\ call'.root = <<>> /\ call'.extension = <<>> /\ call'.dos = FALSE /\ call'.checklen = FALSE
    BY DEF NoCall
  <1>4. Argued'
    <2>1. path' = <<>> /\ path' \in Seq(Text) /\ call'.root \in Seq(Text) /\ Len(call'.root) < PathMax
      BY <1>2, NoText DEF path
    <2>2. /\ call'.extension \in Seq(Text)
          /\ \A i \in 1 .. Len(call'.extension) : call'.extension[i] \notin {".", "/", "\\"}
      BY <1>2, NoText
    <2>3. Fitting(path', IF call'.root = <<>> THEN 0 ELSE 2)
      BY <1>2, <2>1, NoText
    <2> QED BY <1>2, <2>1, <2>2, <2>3 DEF Argued
  <1>5. ~Split'
    BY DEF Split
  <1> QED BY <1>4, <1>5 DEF NameInv

LEMMA NameStarts == ASSUME 2 <= PathMax, SplitInit PROVE NameInv
  <1>1. PathMax \in Nat
    BY PathMaxAssumption
  <1>2. /\ call.path = <<>> /\ call.root = <<>> /\ call.extension = <<>> /\ call.dos = FALSE /\ call.checklen = FALSE
    BY DEF NoCall, SplitInit
  <1>4. Argued
    <2>1. path = <<>> /\ path \in Seq(Text) /\ call.root \in Seq(Text) /\ Len(call.root) < PathMax
      BY <1>2, NoText DEF path
    <2>2. /\ call.extension \in Seq(Text)
          /\ \A i \in 1 .. Len(call.extension) : call.extension[i] \notin {".", "/", "\\"}
      BY <1>2, NoText
    <2>3. Fitting(path, IF call.root = <<>> THEN 0 ELSE 2)
      BY <1>2, <2>1, NoText
    <2> QED BY <1>2, <2>1, <2>2, <2>3 DEF Argued
  <1>5. ~Split /\ stage = "idle"
    BY DEF Split, SplitInit
  <1> QED BY <1>4, <1>5 DEF NameInv

LEMMA NameStutters == ASSUME NameInv, UNCHANGED splitVars PROVE NameInv'
  <1>1. UNCHANGED <<call, pointers>> /\ stage' = stage /\ pstruct' = pstruct /\ pathtype' = pathtype /\ p' = p
    BY DEF splitVars, pointers
  <1>2. Argued' /\ path' = path
    BY <1>1, SameArgued DEF NameInv, path
  <1>3. Scanned => Scanned'
    BY <1>1, SameScanned
  <1>4. Filled => Filled'
    <2> SUFFICES ASSUME Filled PROVE Filled'
      OBVIOUS
    <2>1. PutTogether(pstruct.str)'
      BY <1>1, SameWritten DEF Filled
    <2> QED BY <1>1, <2>1, SameParts DEF Filled
  <1>5. Split' => Split
    BY <1>1, <1>2 DEF Split
  <1> QED BY <1>1, <1>2, <1>3, <1>4, <1>5, SameCleared DEF NameInv

(***************************************************************************)
(* Whatever path names are split, with whatever base directories and       *)
(* default extensions, the parts stand one after the other in the string,  *)
(* each is what its name says, and the path name that was given stands at  *)
(* the end (filename.c, file_name_split).  NamesFit asks of the arguments  *)
(* what the code takes for granted: a directory fits in the string, a base *)
(* directory does not end in a backslash outside DOS mode, and a default   *)
(* extension has neither a dot nor a separator.                            *)
(***************************************************************************)
THEOREM PartsOfNames == ASSUME NamesFit PROVE SplitSpec => []NameParts
  <1>1. 2 <= PathMax
    BY DEF NamesFit
  <1>2. SplitInit => NameInv
    BY <1>1, NameStarts
  <1>3. NameInv /\ [SplitNext]_splitVars => NameInv'
    <2> SUFFICES ASSUME NameInv, [SplitNext]_splitVars PROVE NameInv'
      OBVIOUS
    <2>1. CASE CallSplit
      BY <2>1, CallKeeps
    <2>2. CASE Scan
      BY <2>2, ScanKeeps
    <2>8. CASE ReduceFails
      BY <2>8, ReduceFailsKeeps
    <2>3. CASE ScanEnds
      BY <2>3, ScanEndsKeeps
    <2>4. CASE Fill
      BY <1>1, <2>4, FillKeeps
    <2>5. CASE CallAgain
      BY <1>1, <2>5, CallAgainKeeps
    <2>6. CASE ReturnSplit
      BY <1>1, <2>6, RestKeeps DEF ReturnSplit
    <2>7. CASE UNCHANGED splitVars
      BY <2>7, NameStutters
    <2> QED BY <2>1, <2>2, <2>3, <2>4, <2>5, <2>6, <2>7, <2>8 DEF SplitNext
  <1>4. NameInv => NameParts
    <2>1. ASSUME NameInv, Split PROVE NameParts
      BY <1>1, <2>1, NamePartsHold DEF NameInv, Split
    <2>2. ~Split => NameParts
      BY DEF NameParts
    <2> QED BY <2>1, <2>2
  <1> QED BY <1>2, <1>3, <1>4, PTL DEF SplitSpec
=============================================================================
