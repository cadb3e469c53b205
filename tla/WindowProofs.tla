---------------------------- MODULE WindowProofs ----------------------------
(***************************************************************************)
(* Proofs about Window for every height, every number and width of cells   *)
(* and any number of scrolls between two displays: the copies of           *)
(* move_rectangles put every line that is not painted again where it is    *)
(* wanted, and leave alone what is there already.                          *)
(***************************************************************************)
EXTENDS Window, WellFoundedInduction, TLAPS

Lines(n)     == 0 .. n - 1
BufType(n)   == [Lines(n) -> Lines(n) \cup {Invalid}]
BlockType    == [src : Int, dst : Int, n : Int]

TypeInv ==
    /\ rows \in BufType(Height) /\ goalRows \in BufType(Height)
    /\ cols \in BufType(Width) /\ goalCols \in BufType(Width)
    /\ screen \in [RowNos -> [ColNos -> RowNos \X ColNos]]
    /\ moved \in BOOLEAN
    /\ turn \in Int /\ k \in Int /\ line \in Int
    /\ copy \in BlockType
    /\ pc \in {"idle", "rows up", "rows down", "cols left", "cols right", "moved"}

-----------------------------------------------------------------------------
(* What an array G asks for, and how far the copies have come.  In a       *)
(* buffer and on the screen the lines of done are dealt with; those that   *)
(* are not have their content still where G says it is.                    *)

BufIs(buf, G, n, done) ==
    \A x \in Lines(n) : buf[x] = IF x \in done /\ G[x] # Invalid THEN x ELSE G[x]

(* S is what is on the screen, D what was there before anything moved.     *)
Pic(S, D, G, n, done) ==
    \A x \in Lines(n) :
        G[x] # Invalid => S[IF x \in done THEN x ELSE G[x]] = D[G[x]]

(* Going up to the turn, and from the last line back to it.                *)
UpDone(i)         == Lines(i)
DownDone(n, t, i) == Lines(n) \ (t .. i)

(* Up to the turn no line comes from above, from it on none from below.    *)
TurnRight(G, n, t) ==
    /\ t \in Lines(n)
    /\ \A x \in Lines(n) : x < t => x <= G[x]
    /\ \A x \in Lines(n) : x >= t /\ G[x] # Invalid => G[x] <= x

(* The lines of a block come one after the other, all from the same side.  *)
UpBlock(G, t, i, b) ==
    /\ b.dst = i /\ b.n >= 1 /\ i + b.n <= t
    /\ \A x \in i .. i + b.n - 1 : G[x] # Invalid /\ G[x] = b.src + (x - i) /\ G[x] > x

DownBlock(G, t, i, b) ==
    /\ b.dst >= t /\ b.n >= 1 /\ b.dst + b.n - 1 = i
    /\ \A x \in b.dst .. i : G[x] # Invalid /\ G[x] = b.src + (x - b.dst) /\ G[x] < x

UpInv(buf, G, n) ==
    /\ TurnRight(G, n, turn) /\ k \in 0 .. turn
    /\ BufIs(buf, G, n, UpDone(k))
    /\ copy # NoCopy => UpBlock(G, turn, k, copy)

DownInv(buf, G, n) ==
    /\ TurnRight(G, n, turn) /\ k \in turn - 1 .. n - 1
    /\ BufIs(buf, G, n, DownDone(n, turn, k))
    /\ copy # NoCopy => DownBlock(G, turn, k, copy)

(* Every cell is wanted as a whole.                                        *)
Uniform(buf) ==
    \A q \in CellNos, i \in 0 .. CellWidth - 1 :
        buf[CellWidth * q + i] = Invalid <=> buf[CellWidth * q] = Invalid

Still(buf, n) == \A x \in Lines(n) : buf[x] = x \/ buf[x] = Invalid

(* The screen after a display, and a line of it.                           *)
LineOf(r)  == [c \in ColNos |-> <<r, c>>]
AllLines   == [r \in RowNos |-> LineOf(r)]

IdleInv ==
    pc = "idle" =>
        /\ screen = AllLines
        /\ copy = NoCopy
        /\ Scrollable(rows) /\ Scrollable(cols) /\ Uniform(cols)
        /\ ~moved => Still(rows, Height) /\ Still(cols, Width)

GoalInv == pc # "idle" => Scrollable(goalRows) /\ Scrollable(goalCols) /\ Uniform(goalCols)

RowsInv ==
    /\ OverRows => cols = goalCols
    /\ OverRows /\ copy # NoCopy => line \in 0 .. copy.n - 1
    /\ pc = "rows up" =>
          /\ UpInv(rows, goalRows, Height)
          /\ Pic(screen, AllLines, goalRows, Height,
                 UpDone(IF copy = NoCopy THEN k ELSE k + line))
    /\ pc = "rows down" =>
          /\ DownInv(rows, goalRows, Height)
          /\ Pic(screen, AllLines, goalRows, Height,
                 DownDone(Height, turn, IF copy = NoCopy THEN k ELSE copy.dst + line))

(* A screen line below the one that is copied next has the block already. *)
Reached(r) == IF copy # NoCopy /\ r > line THEN NextK ELSE k

ColsInv ==
    /\ pc \in {"cols left", "cols right"} =>
          /\ BufIs(rows, goalRows, Height, RowNos)
          /\ copy # NoCopy => line \in RowNos
    /\ pc = "cols left" =>
          /\ UpInv(cols, goalCols, Width)
          /\ \A r \in RowNos :
                goalRows[r] # Invalid =>
                    Pic(screen[r], LineOf(goalRows[r]), goalCols, Width, UpDone(Reached(r)))
    /\ pc = "cols right" =>
          /\ DownInv(cols, goalCols, Width)
          /\ \A r \in RowNos :
                goalRows[r] # Invalid =>
                    Pic(screen[r], LineOf(goalRows[r]), goalCols, Width,
                        DownDone(Width, turn, Reached(r)))

DoneInv ==
    pc = "moved" =>
        /\ copy = NoCopy /\ k \in -1 .. Height + Width
        /\ BufIs(rows, goalRows, Height, RowNos)
        /\ BufIs(cols, goalCols, Width, ColNos)
        /\ \A r \in RowNos :
              goalRows[r] # Invalid =>
                  Pic(screen[r], LineOf(goalRows[r]), goalCols, Width, ColNos)

IdleK == pc = "idle" => k \in -1 .. Height + Width

WindowInv == TypeInv /\ IdleInv /\ IdleK /\ GoalInv /\ RowsInv /\ ColsInv /\ DoneInv

-----------------------------------------------------------------------------
(* Sizes. *)

LEMMA Sizes ==
    /\ Height \in Nat /\ Height >= 2 /\ Width \in Nat /\ Width >= 1
    /\ Invalid \in Nat /\ Invalid > Height /\ Invalid > Width
    /\ RowNos = Lines(Height) /\ ColNos = Lines(Width)
    /\ Cells \in Nat /\ Cells >= 1 /\ CellWidth \in Nat /\ CellWidth >= 1
  <1>1. Cells * CellWidth \in Nat /\ Cells * CellWidth >= 1
    BY WidthAssumption, Z3
  <1> QED BY <1>1, HeightAssumption, WidthAssumption, InvalidAssumption
          DEF Width, RowNos, ColNos, Lines

LEMMA LeastNat ==
    ASSUME NEW S \in SUBSET Nat, S # {}
    PROVE  \E x \in S : \A y \in S : x <= y
  <1>1. PICK x \in S : \A y \in S : ~ (<<y, x>> \in OpToRel(<, Nat))
    BY WFMin, NatLessThanWellFounded
  <1>2. \A y \in S : ~(y < x)
    BY <1>1 DEF OpToRel
  <1> QED BY <1>2

LEMMA GreatestLine ==
    ASSUME NEW n \in Nat, NEW S \in SUBSET Lines(n), S # {}
    PROVE  \E x \in S : \A y \in S : x >= y
  <1> DEFINE T == {n - x : x \in S}
  <1>1. T \in SUBSET Nat /\ T # {}
    <2>1. \A x \in S : n - x \in Nat
      BY DEF Lines
    <2> QED BY <2>1
  <1>2. PICK t \in T : \A u \in T : t <= u
    BY <1>1, LeastNat
  <1>3. PICK x \in S : t = n - x
    BY <1>2
  <1>4. \A y \in S : n - x <= n - y
    BY <1>2, <1>3
  <1> QED BY <1>4 DEF Lines

-----------------------------------------------------------------------------
(* The turn and the blocks. *)

(* The first loop of move_rectangles finds the place up to which lines     *)
(* only move one way, when the scrolls were as they are taken to be.       *)
LEMMA TurnIsRight ==
    ASSUME NEW n \in Nat, n >= 1, Invalid \in Nat, Invalid > n,
           NEW G \in BufType(n), Scrollable(G)
    PROVE  TurnRight(G, n, TurnOf(G, n))
  <1> DEFINE stop == {x \in Lines(n) : x = n - 1 \/ G[x] < x}
             Is(i) == /\ i = n - 1 \/ G[i] < i
                      /\ \A x \in 0 .. i - 1 : x <= G[x]
  <1>1. stop \in SUBSET Nat /\ n - 1 \in stop
    BY DEF Lines
  <1>2. PICK m \in stop : \A y \in stop : m <= y
    BY <1>1, LeastNat
  <1>3. \A x \in Lines(n) : G[x] \in Nat
    BY DEF BufType, Lines
  <1>4. m \in 0 .. n - 1 /\ Is(m)
    <2>1. m \in 0 .. n - 1 /\ (m = n - 1 \/ G[m] < m)
      BY <1>2 DEF Lines
    <2>2. ASSUME NEW x \in 0 .. m - 1 PROVE x <= G[x]
      <3>1. x \in Lines(n) /\ x < m
        BY <2>1 DEF Lines
      <3>2. x \notin stop
        BY <1>2, <2>1, <3>1
      <3> QED BY <1>3, <3>1, <3>2, <2>1
    <2> QED BY <2>1, <2>2
  <1> DEFINE t == TurnOf(G, n)
  <1>5. t \in 0 .. n - 1 /\ Is(t)
    BY <1>4 DEF TurnOf
  <1> HIDE DEF t
  <1>6. ASSUME NEW x \in Lines(n), x < t PROVE x <= G[x]
    BY <1>5, <1>6 DEF Lines
  <1>7. ASSUME NEW y \in Lines(n), y >= t, G[y] # Invalid PROVE G[y] <= y
    <2>0. G[y] \in 0 .. n - 1 /\ y \in 0 .. n - 1
      BY <1>7 DEF BufType, Lines
    <2>1. CASE t = n - 1
      BY <2>0, <2>1, <1>7
    <2>2. CASE G[t] < t /\ t = y
      BY <2>0, <2>2
    <2>3. CASE G[t] < t /\ t # y
      <3>1. t \in DOMAIN G /\ y \in DOMAIN G /\ t < y /\ G[t] # Invalid
        BY <1>5, <1>7, <2>0, <2>3 DEF BufType, Lines
      <3> QED BY <3>1, <1>7, <2>3 DEF Scrollable
    <2> QED BY <1>5, <2>1, <2>2, <2>3
  <1> QED BY <1>5, <1>6, <1>7 DEF TurnRight, t, Lines

(* Where one entry leads, a run of entries leads one after the other. *)
LEMMA RunForward ==
    ASSUME NEW n \in Nat, Invalid \in Nat, Invalid > n,
           NEW G \in BufType(n), NEW i \in Lines(n), NEW j \in Lines(n), j >= i,
           G[i] # Invalid, G[i] > i,
           \A x \in i + 1 .. j : G[x] = G[x - 1] + 1 /\ G[x] > x
    PROVE  \A x \in i .. j : G[x] # Invalid /\ G[x] = G[i] + (x - i) /\ G[x] > x
  <1> DEFINE Ok(x) == G[x] # Invalid /\ G[x] = G[i] + (x - i)
             bad == {x \in i .. j : ~Ok(x)}
  <1>1. SUFFICES ASSUME bad # {} PROVE FALSE
    <2>1. \A x \in i .. j : G[x] > x
      <3>1. \A x \in i .. j : x = i \/ x \in i + 1 .. j
        BY DEF Lines
      <3> QED BY <3>1
    <2> QED BY <1>1, <2>1
  <1>2. bad \in SUBSET Nat
    BY DEF Lines
  <1> HIDE DEF Ok
  <1>3. PICK m \in bad : \A y \in bad : m <= y
    BY <1>1, <1>2, LeastNat
  <1>4. m # i
    BY <1>3 DEF Ok, BufType, Lines
  <1>5. m \in i + 1 .. j /\ m - 1 \in i .. j
    BY <1>3, <1>4 DEF Lines
  <1>6. Ok(m - 1)
    BY <1>3, <1>5
  <1>7. m - 1 \in Lines(n) /\ m \in Lines(n)
    BY <1>5 DEF Lines
  <1>8. G[m - 1] \in 0 .. n - 1
    BY <1>6, <1>7 DEF Ok, BufType, Lines
  <1>9. G[m] = G[m - 1] + 1
    BY <1>5
  <1>10. G[i] \in 0 .. n - 1
    BY DEF BufType, Lines
  <1>11. Ok(m)
    BY <1>5, <1>6, <1>8, <1>9, <1>10 DEF Ok, Lines
  <1> QED BY <1>3, <1>11

LEMMA RunBackward ==
    ASSUME NEW n \in Nat, Invalid \in Nat, Invalid > n,
           NEW G \in BufType(n), NEW i \in Lines(n), NEW j \in Lines(n), i <= j,
           G[j] # Invalid, G[j] < j,
           \A x \in i .. j - 1 : G[x] + 1 = G[x + 1] /\ G[x] < x
    PROVE  \A x \in i .. j : G[x] # Invalid /\ G[x] = G[i] + (x - i) /\ G[x] < x
  <1>1. \A x \in i .. j : G[x] < x
    <2>1. \A x \in i .. j : x = j \/ x \in i .. j - 1
      BY DEF Lines
    <2> QED BY <2>1
  <1>2. \A x \in i .. j : x \in Lines(n)
    BY DEF Lines
  <1>3. \A x \in i .. j : G[x] # Invalid /\ G[x] \in 0 .. n - 1
    BY <1>1, <1>2 DEF BufType, Lines
  <1> DEFINE Ok(x) == G[x] = G[i] + (x - i)
             bad == {x \in i .. j : ~Ok(x)}
  <1>4. SUFFICES ASSUME bad # {} PROVE FALSE
    BY <1>1, <1>3
  <1>5. bad \in SUBSET Nat
    BY DEF Lines
  <1> HIDE DEF Ok
  <1>6. PICK m \in bad : \A y \in bad : m <= y
    BY <1>4, <1>5, LeastNat
  <1>7. m # i
    BY <1>6, <1>3 DEF Ok, Lines
  <1>8. m \in i + 1 .. j /\ m - 1 \in i .. j - 1 /\ m - 1 \in i .. j
    BY <1>6, <1>7 DEF Lines
  <1>9. Ok(m - 1)
    BY <1>6, <1>8
  <1>10. (m - 1) + 1 = m
    BY <1>8 DEF Lines
  <1>11. G[m - 1] + 1 = G[m]
    BY <1>8, <1>10
  <1>12. G[i] \in 0 .. n - 1 /\ G[m - 1] \in 0 .. n - 1
    BY <1>3, <1>8 DEF Lines
  <1>13. Ok(m)
    BY <1>8, <1>9, <1>11, <1>12 DEF Ok, Lines
  <1> QED BY <1>6, <1>13

(* move_block finds a block of lines that all move up (or left) and ends   *)
(* before the turn.                                                        *)
LEMMA ForwardIs ==
    ASSUME NEW n \in Nat, Invalid \in Nat, Invalid > n,
           NEW G \in BufType(n), NEW buf \in BufType(n), NEW t, TurnRight(G, n, t),
           NEW i \in 0 .. t - 1, BufIs(buf, G, n, UpDone(i)), ~Stays(buf, i)
    PROVE  /\ Forward(buf, i) \in BlockType
           /\ UpBlock(G, t, i, Forward(buf, i))
  <1> DEFINE Run(j) == \A x \in i + 1 .. j : buf[x] = buf[x - 1] + 1 /\ buf[x] > x
             Goes(j) == j + 1 \in DOMAIN buf /\ buf[j + 1] = buf[j] + 1 /\ buf[j + 1] > j + 1
             ends == {j \in Lines(n) : j >= i /\ ~Goes(j)}
             last == CHOOSE j \in {x \in DOMAIN buf : x >= i} : Run(j) /\ ~Goes(j)
  <1>1. t \in Int /\ t \in 0 .. n - 1 /\ i \in Lines(n) /\ i \in Int /\ DOMAIN buf = Lines(n)
    BY DEF TurnRight, Lines, BufType
  <1>2. \A x \in Lines(n) : x >= i => buf[x] = G[x]
    BY <1>1 DEF BufIs, UpDone, Lines
  <1>3. G[i] # Invalid /\ G[i] > i
    BY <1>1, <1>2 DEF Stays, TurnRight, BufType, Lines
  <1>4. \E j \in {x \in DOMAIN buf : x >= i} : Run(j) /\ ~Goes(j)
    <2>1. ends \in SUBSET Nat /\ n - 1 \in ends
      BY <1>1 DEF Lines
    <2>2. PICK m \in ends : \A y \in ends : m <= y
      BY <2>1, LeastNat
    <2>3. ASSUME NEW x \in i + 1 .. m PROVE buf[x] = buf[x - 1] + 1 /\ buf[x] > x
      <3>1. x - 1 \in Lines(n) /\ x - 1 >= i /\ x - 1 < m /\ (x - 1) + 1 = x
        BY <1>1, <2>2 DEF Lines
      <3>2. Goes(x - 1)
        BY <2>2, <3>1 DEF Lines
      <3> QED BY <3>1, <3>2
    <2>4. Run(m)
      BY <2>3
    <2> QED BY <1>1, <2>2, <2>4
  <1>5. last \in {x \in DOMAIN buf : x >= i} /\ Run(last)
    BY <1>4
  <1>6. Forward(buf, i) = [src |-> buf[i], dst |-> i, n |-> last - i + 1]
    BY DEF Forward
  <1> HIDE DEF last
  <1>7. last \in Lines(n) /\ last >= i /\ last \in Int
    BY <1>1, <1>5 DEF Lines
  <1>8. \A x \in i + 1 .. last : G[x] = G[x - 1] + 1 /\ G[x] > x
    <2> SUFFICES ASSUME NEW x \in i + 1 .. last PROVE G[x] = G[x - 1] + 1 /\ G[x] > x
      OBVIOUS
    <2>1. x \in Lines(n) /\ x - 1 \in Lines(n) /\ x - 1 >= i /\ x >= i
      BY <1>1, <1>7 DEF Lines
    <2>2. buf[x] = buf[x - 1] + 1 /\ buf[x] > x
      BY <1>5
    <2> QED BY <1>2, <2>1, <2>2
  <1>9. \A x \in i .. last : G[x] # Invalid /\ G[x] = G[i] + (x - i) /\ G[x] > x
    BY <1>1, <1>3, <1>7, <1>8, RunForward
  <1>10. last < t
    <2>1. SUFFICES ASSUME last >= t PROVE FALSE
      BY <1>1, <1>7
    <2>2. t \in i .. last /\ t \in Lines(n)
      BY <1>1, <1>7, <2>1 DEF Lines
    <2>3. G[t] # Invalid /\ G[t] > t
      BY <1>9, <2>2
    <2>4. G[t] <= t
      BY <1>1, <2>2, <2>3 DEF TurnRight
    <2>5. G[t] \in Int
      BY <2>2 DEF BufType, Lines
    <2> QED BY <1>1, <2>3, <2>4, <2>5
  <1>11. buf[i] = G[i] /\ G[i] \in Int
    BY <1>1, <1>2 DEF BufType, Lines
  <1>12. i + (last - i + 1) - 1 = last
    BY <1>1, <1>7
  <1>13. UpBlock(G, t, i, [src |-> buf[i], dst |-> i, n |-> last - i + 1])
    BY <1>1, <1>7, <1>9, <1>10, <1>11, <1>12 DEF UpBlock
  <1>14. [src |-> buf[i], dst |-> i, n |-> last - i + 1] \in BlockType
    BY <1>1, <1>7, <1>11 DEF BlockType
  <1> QED BY <1>6, <1>13, <1>14

(* Going back it finds a block of lines that all move down (or right) and  *)
(* does not reach before the turn.                                         *)
LEMMA BackwardIs ==
    ASSUME NEW n \in Nat, Invalid \in Nat, Invalid > n,
           NEW G \in BufType(n), NEW buf \in BufType(n), NEW t, TurnRight(G, n, t),
           NEW i \in t .. n - 1, BufIs(buf, G, n, DownDone(n, t, i)), ~Stays(buf, i)
    PROVE  /\ Backward(buf, i) \in BlockType
           /\ DownBlock(G, t, i, Backward(buf, i))
  <1> DEFINE Run(j) == \A x \in j .. i - 1 : buf[x] + 1 = buf[x + 1] /\ buf[x] < x
             Goes(j) == j - 1 \in DOMAIN buf /\ buf[j - 1] + 1 = buf[j] /\ buf[j - 1] < j - 1
             ends == {j \in Lines(n) : j <= i /\ ~Goes(j)}
             first == CHOOSE j \in 0 .. i : Run(j) /\ ~Goes(j)
  <1>1. t \in Int /\ t \in 0 .. n - 1 /\ i \in Lines(n) /\ i \in Int /\ DOMAIN buf = Lines(n)
    BY DEF TurnRight, Lines, BufType
  <1>2. \A x \in t .. i : buf[x] = G[x]
    BY <1>1 DEF BufIs, DownDone, Lines
  <1>3. G[i] # Invalid /\ G[i] < i
    BY <1>1, <1>2 DEF Stays, TurnRight, BufType, Lines
  <1>4. \E j \in 0 .. i : Run(j) /\ ~Goes(j)
    <2>1. ends \in SUBSET Lines(n) /\ 0 \in ends
      BY <1>1 DEF Lines
    <2>2. PICK m \in ends : \A y \in ends : m >= y
      BY <2>1, GreatestLine
    <2>3. ASSUME NEW x \in m .. i - 1 PROVE buf[x] + 1 = buf[x + 1] /\ buf[x] < x
      <3>1. x + 1 \in Lines(n) /\ x + 1 <= i /\ x + 1 > m /\ (x + 1) - 1 = x
        BY <1>1, <2>2 DEF Lines
      <3>2. Goes(x + 1)
        BY <2>2, <3>1 DEF Lines
      <3> QED BY <3>1, <3>2
    <2>4. Run(m)
      BY <2>3
    <2> QED BY <1>1, <2>2, <2>4 DEF Lines
  <1>5. first \in 0 .. i /\ Run(first)
    BY <1>4
  <1>6. Backward(buf, i) = [src |-> buf[first], dst |-> first, n |-> i - first + 1]
    BY DEF Backward
  <1> HIDE DEF first
  <1>7. first \in Lines(n) /\ first <= i /\ first \in Int
    BY <1>1, <1>5 DEF Lines
  <1>8. first >= t
    <2>1. SUFFICES ASSUME first < t PROVE FALSE
      BY <1>1, <1>7
    <2>2. t - 1 \in first .. i - 1 /\ t - 1 \in Lines(n) /\ t - 1 \notin t .. i
      BY <1>1, <1>7, <2>1 DEF Lines
    <2>3. buf[t - 1] < t - 1
      BY <1>5, <2>2
    <2>4. buf[t - 1] = IF G[t - 1] # Invalid THEN t - 1 ELSE G[t - 1]
      BY <2>2 DEF BufIs, DownDone
    <2> QED BY <1>1, <2>3, <2>4
  <1>9. \A x \in first .. i - 1 : G[x] + 1 = G[x + 1] /\ G[x] < x
    <2> SUFFICES ASSUME NEW x \in first .. i - 1 PROVE G[x] + 1 = G[x + 1] /\ G[x] < x
      OBVIOUS
    <2>1. x \in t .. i /\ x + 1 \in t .. i
      BY <1>1, <1>7, <1>8
    <2>2. buf[x] + 1 = buf[x + 1] /\ buf[x] < x
      BY <1>5
    <2> QED BY <1>2, <2>1, <2>2
  <1>10. \A x \in first .. i : G[x] # Invalid /\ G[x] = G[first] + (x - first) /\ G[x] < x
    BY <1>1, <1>3, <1>7, <1>9, RunBackward
  <1>11. first \in first .. i /\ first \in t .. i
    BY <1>1, <1>7, <1>8
  <1>12. buf[first] = G[first] /\ G[first] \in Int
    BY <1>2, <1>7, <1>10, <1>11 DEF BufType, Lines
  <1>13. first + (i - first + 1) - 1 = i
    BY <1>1, <1>7
  <1>14. DownBlock(G, t, i, [src |-> buf[first], dst |-> first, n |-> i - first + 1])
    BY <1>1, <1>7, <1>8, <1>10, <1>12, <1>13 DEF DownBlock
  <1>15. [src |-> buf[first], dst |-> first, n |-> i - first + 1] \in BlockType
    BY <1>1, <1>7, <1>12 DEF BlockType
  <1> QED BY <1>6, <1>14, <1>15

-----------------------------------------------------------------------------
(* One copy. *)

(* Lines of B are copied from where they were wanted from.  Nothing is     *)
(* lost when no line that still waits has its content in B.                *)
LEMMA CopyKeeps ==
    ASSUME NEW n \in Nat, NEW G \in BufType(n), NEW done, NEW B \in SUBSET Lines(n),
           NEW S, NEW T, NEW D, Pic(S, D, G, n, done),
           \A x \in B : x \notin done /\ G[x] # Invalid,
           \A x \in Lines(n) : T[x] = IF x \in B THEN S[G[x]] ELSE S[x],
           \A y \in Lines(n) : y \notin done /\ y \notin B /\ G[y] # Invalid => G[y] \notin B
    PROVE  Pic(T, D, G, n, done \cup B)
  <1> SUFFICES ASSUME NEW x \in Lines(n), G[x] # Invalid
               PROVE  T[IF x \in done \cup B THEN x ELSE G[x]] = D[G[x]]
    BY DEF Pic
  <1>1. G[x] \in Lines(n)
    BY DEF BufType
  <1>2. S[IF x \in done THEN x ELSE G[x]] = D[G[x]]
    BY DEF Pic
  <1>3. CASE x \in B
    BY <1>2, <1>3
  <1>4. CASE x \in done /\ x \notin B
    BY <1>2, <1>4
  <1>5. CASE x \notin done /\ x \notin B
    BY <1>1, <1>2, <1>5
  <1> QED BY <1>3, <1>4, <1>5

(* No line that waits behind a block, or behind a part of it, has its      *)
(* content where the block goes.                                           *)
LEMMA UpIsFree ==
    ASSUME NEW n \in Nat, Invalid \in Nat, Invalid > n, NEW G \in BufType(n), Scrollable(G),
           NEW i \in Int, NEW j \in Lines(n), i <= j, G[j] # Invalid, G[j] > j,
           NEW y \in Lines(n), y > j, G[y] # Invalid
    PROVE  G[y] \notin i .. j
  <1>1. G[j] < G[y]
    BY DEF Scrollable, BufType, Lines
  <1> QED BY <1>1 DEF BufType, Lines

LEMMA DownIsFree ==
    ASSUME NEW n \in Nat, Invalid \in Nat, Invalid > n, NEW G \in BufType(n), Scrollable(G),
           NEW i \in Lines(n), NEW j \in Int, i <= j, G[i] # Invalid, G[i] < i,
           NEW y \in Lines(n), y < i, G[y] # Invalid
    PROVE  G[y] \notin i .. j
  <1>1. G[y] < G[i]
    BY DEF Scrollable, BufType, Lines
  <1> QED BY <1>1 DEF BufType, Lines

(* Once a block is copied its lines are in their place. *)
LEMMA SettledUp ==
    ASSUME NEW n \in Nat, NEW G \in BufType(n), NEW buf \in BufType(n), NEW t \in Lines(n),
           NEW i \in Nat, NEW b \in BlockType, BufIs(buf, G, n, UpDone(i)), UpBlock(G, t, i, b)
    PROVE  /\ BufIs(Settled(buf, b), G, n, UpDone(b.dst + b.n))
           /\ Settled(buf, b) \in BufType(n)
  <1>1. b.dst = i /\ b.n \in Int /\ b.n >= 1 /\ i + b.n <= t /\ t \in 0 .. n - 1
    BY DEF BlockType, UpBlock, Lines
  <1>2. \A x \in i .. i + b.n - 1 : G[x] # Invalid
    BY DEF UpBlock
  <1>3. \A x \in Lines(n) : Settled(buf, b)[x] = IF x \in i .. i + b.n - 1 THEN x ELSE buf[x]
    BY <1>1 DEF Settled, BufType
  <1>4. \A x \in Lines(n) : x \in UpDone(b.dst + b.n) <=> x \in UpDone(i) \/ x \in i .. i + b.n - 1
    BY <1>1 DEF UpDone, Lines
  <1>5. \A x \in Lines(n) : x \in i .. i + b.n - 1 => x \notin UpDone(i)
    BY <1>1 DEF UpDone, Lines
  <1>6. BufIs(Settled(buf, b), G, n, UpDone(b.dst + b.n))
    BY <1>2, <1>3, <1>4, <1>5 DEF BufIs
  <1>7. Settled(buf, b) \in BufType(n)
    BY DEF Settled, BufType
  <1> QED BY <1>6, <1>7

LEMMA SettledDown ==
    ASSUME NEW n \in Nat, NEW G \in BufType(n), NEW buf \in BufType(n), NEW t \in Lines(n),
           NEW i \in t .. n - 1, NEW b \in BlockType,
           BufIs(buf, G, n, DownDone(n, t, i)), DownBlock(G, t, i, b)
    PROVE  /\ BufIs(Settled(buf, b), G, n, DownDone(n, t, b.dst - 1))
           /\ Settled(buf, b) \in BufType(n)
  <1>1. /\ b.dst \in Int /\ b.n \in Int /\ b.n >= 1 /\ b.dst >= t /\ b.dst + b.n - 1 = i
        /\ t \in 0 .. n - 1 /\ i \in Int
    BY DEF BlockType, DownBlock, Lines
  <1>2. \A x \in b.dst .. i : G[x] # Invalid
    BY DEF DownBlock
  <1>3. \A x \in Lines(n) : Settled(buf, b)[x] = IF x \in b.dst .. i THEN x ELSE buf[x]
    BY <1>1 DEF Settled, BufType
  <1>4. \A x \in Lines(n) :
            x \in DownDone(n, t, b.dst - 1) <=> x \in DownDone(n, t, i) \/ x \in b.dst .. i
    BY <1>1 DEF DownDone, Lines
  <1>5. \A x \in Lines(n) : x \in b.dst .. i => x \notin DownDone(n, t, i)
    BY <1>1 DEF DownDone, Lines
  <1>6. BufIs(Settled(buf, b), G, n, DownDone(n, t, b.dst - 1))
    BY <1>2, <1>3, <1>4, <1>5 DEF BufIs
  <1>7. Settled(buf, b) \in BufType(n)
    BY DEF Settled, BufType
  <1> QED BY <1>6, <1>7

-----------------------------------------------------------------------------
(* Scrolls. *)

LEMMA InvalidatedType ==
    ASSUME NEW n \in Nat, NEW buf \in BufType(n), NEW off, NEW size
    PROVE  /\ Invalidated(buf, off, size) \in BufType(n)
           /\ \A x \in Lines(n) : Invalidated(buf, off, size)[x] = buf[x]
                                  \/ Invalidated(buf, off, size)[x] = Invalid
  BY DEF Invalidated, BufType

LEMMA ScrolledType ==
    ASSUME NEW n \in Nat, NEW buf \in BufType(n), NEW src \in Int, NEW count \in Int, NEW dst \in Int,
           src >= 0, src + count <= n
    PROVE  Shifted(buf, src, count, dst) \in BufType(n) /\ Scrolled(buf, src, count, dst) \in BufType(n)
  <1>1. Shifted(buf, src, count, dst) \in BufType(n)
    <2> SUFFICES ASSUME NEW x \in Lines(n)
                 PROVE  (IF x - dst \in src .. src + count - 1 THEN buf[x - dst] ELSE buf[x])
                        \in Lines(n) \cup {Invalid}
      BY DEF Shifted, BufType
    <2>1. CASE x - dst \in src .. src + count - 1
      <3>1. x - dst \in Lines(n)
        BY <2>1 DEF Lines
      <3> QED BY <2>1, <3>1 DEF BufType
    <2>2. CASE x - dst \notin src .. src + count - 1
      BY <2>2 DEF BufType
    <2> QED BY <2>1, <2>2
  <1> QED BY <1>1, InvalidatedType DEF Scrolled

(* Lines made invalid do not spoil what scrolls are taken to leave. *)
LEMMA InvalidatedScrollable ==
    ASSUME NEW n \in Nat, NEW buf \in BufType(n), NEW off, NEW size, Scrollable(buf)
    PROVE  Scrollable(Invalidated(buf, off, size))
  <1>1. DOMAIN Invalidated(buf, off, size) = DOMAIN buf
    BY DEF Invalidated
  <1>2. \A x \in DOMAIN buf : Invalidated(buf, off, size)[x] # Invalid
                              => Invalidated(buf, off, size)[x] = buf[x]
    BY DEF Invalidated
  <1> QED BY <1>1, <1>2 DEF Scrollable

LEMMA InvalidatedStill ==
    ASSUME NEW n \in Nat, NEW buf \in BufType(n), NEW off, NEW size, Still(buf, n)
    PROVE  Still(Invalidated(buf, off, size), n)
  BY InvalidatedType DEF Still

LEMMA Times ==
    ASSUME NEW x \in Int, NEW y \in Int
    PROVE  /\ CellWidth * x \in Int
           /\ CellWidth * (x + y) = CellWidth * x + CellWidth * y
           /\ CellWidth * (x + 1) = CellWidth * x + CellWidth
           /\ CellWidth * (x - y) = CellWidth * x - CellWidth * y
           /\ CellWidth * (-x) = -(CellWidth * x)
           /\ x <= y => CellWidth * x <= CellWidth * y
           /\ x < y => CellWidth * x + CellWidth <= CellWidth * y
           /\ CellWidth * 0 = 0
           /\ CellWidth * Cells = Width
  <1>1. CellWidth \in Int /\ CellWidth >= 1 /\ Cells \in Int
    BY Sizes
  <1>2. CellWidth * x \in Int /\ CellWidth * (x + y) = CellWidth * x + CellWidth * y
    BY <1>1
  <1>3. CellWidth * (x + 1) = CellWidth * x + CellWidth
    BY <1>1
  <1>4. CellWidth * (x - y) = CellWidth * x - CellWidth * y /\ CellWidth * (-x) = -(CellWidth * x)
    BY <1>1
  <1>5. ASSUME NEW a \in Int, NEW b \in Int, a <= b PROVE CellWidth * a <= CellWidth * b
    <2>1. b - a >= 0 /\ b - a \in Int
      BY <1>5
    <2>2. \A u, v \in Nat : u * v >= 0
      OBVIOUS
    <2>3. CellWidth * (b - a) >= 0
      BY <1>1, <2>1, <2>2
    <2>4. CellWidth * (b - a) = CellWidth * b - CellWidth * a
      BY <1>1, <1>5
    <2> QED BY <1>1, <1>5, <2>3, <2>4
  <1>6. x < y => CellWidth * (x + 1) <= CellWidth * y
    BY <1>5
  <1>7. CellWidth * 0 = 0 /\ CellWidth * Cells = Width
    BY <1>1 DEF Width
  <1> QED BY <1>2, <1>3, <1>4, <1>5, <1>6, <1>7

(* Blocks of whole cells hold every column of a cell or none. *)
LEMMA InBlock ==
    ASSUME NEW a \in Int, NEW m \in Int, NEW q \in Int, NEW i \in 0 .. CellWidth - 1
    PROVE  CellWidth * q + i \in CellWidth * a .. CellWidth * a + CellWidth * m - 1
           <=> q \in a .. a + m - 1
  <1>1. CellWidth \in Int /\ CellWidth >= 1 /\ i \in Int /\ 0 <= i /\ i < CellWidth
    BY Sizes
  <1>2. CellWidth * q \in Int /\ CellWidth * a \in Int /\ CellWidth * m \in Int
        /\ CellWidth * (a + m) = CellWidth * a + CellWidth * m
    BY Times
  <1>3. /\ a <= q => CellWidth * a <= CellWidth * q
        /\ q < a => CellWidth * q + CellWidth <= CellWidth * a
        /\ q < a + m => CellWidth * q + CellWidth <= CellWidth * (a + m)
        /\ a + m <= q => CellWidth * (a + m) <= CellWidth * q
    <2>1. a + m \in Int
      OBVIOUS
    <2> QED BY <2>1, Times
  <1> DEFINE cq == CellWidth * q
             ca == CellWidth * a
             cm == CellWidth * m
  <1>4. cq \in Int /\ ca \in Int /\ cm \in Int
    BY <1>2
  <1>5. /\ a <= q => ca <= cq
        /\ q < a => cq + CellWidth <= ca
        /\ q < a + m => cq + CellWidth <= ca + cm
        /\ a + m <= q => ca + cm <= cq
    BY <1>2, <1>3
  <1> HIDE DEF cq, ca, cm
  <1>6. cq + i \in ca .. ca + cm - 1 <=> q \in a .. a + m - 1
    BY <1>1, <1>4, <1>5
  <1> QED BY <1>6 DEF cq, ca, cm

LEMMA CellCol ==
    ASSUME NEW q \in CellNos, NEW i \in 0 .. CellWidth - 1
    PROVE  CellWidth * q + i \in Lines(Width) /\ CellWidth * q \in Lines(Width)
  <1>1. q \in Int /\ q \in 0 .. 0 + Cells - 1 /\ 0 \in 0 .. CellWidth - 1 /\ Cells \in Int /\ 0 \in Int
    BY Sizes DEF CellNos
  <1>2. CellWidth * q + i \in CellWidth * 0 .. CellWidth * 0 + CellWidth * Cells - 1
    BY <1>1, InBlock
  <1>3. CellWidth * q + 0 \in CellWidth * 0 .. CellWidth * 0 + CellWidth * Cells - 1
    BY <1>1, InBlock
  <1>4. CellWidth * 0 = 0 /\ CellWidth * Cells = Width /\ CellWidth * q \in Int
    BY <1>1, Times
  <1> QED BY <1>2, <1>3, <1>4, Sizes DEF Lines

LEMMA InvalidatedUniform ==
    ASSUME NEW buf \in BufType(Width), Uniform(buf), NEW a \in Int, NEW m \in Int
    PROVE  Uniform(Invalidated(buf, CellWidth * a, CellWidth * m))
  <1> DEFINE new == Invalidated(buf, CellWidth * a, CellWidth * m)
  <1> SUFFICES ASSUME NEW q \in CellNos, NEW i \in 0 .. CellWidth - 1
               PROVE  new[CellWidth * q + i] = Invalid <=> new[CellWidth * q] = Invalid
    BY DEF Uniform
  <1>1. q \in Int /\ 0 \in 0 .. CellWidth - 1
    BY Sizes DEF CellNos
  <1>2. /\ CellWidth * q + i \in CellWidth * a .. CellWidth * a + CellWidth * m - 1
           <=> q \in a .. a + m - 1
        /\ CellWidth * q + 0 \in CellWidth * a .. CellWidth * a + CellWidth * m - 1
           <=> q \in a .. a + m - 1
    BY <1>1, InBlock
  <1>3. CellWidth * q + 0 = CellWidth * q
    BY <1>1, Times
  <1>4. CellWidth * q + i \in Lines(Width) /\ CellWidth * q \in Lines(Width)
    BY CellCol
  <1>5. \A x \in Lines(Width) :
            new[x] = IF x \in CellWidth * a .. CellWidth * a + CellWidth * m - 1
                     THEN Invalid ELSE buf[x]
    BY DEF Invalidated, BufType
  <1>6. buf[CellWidth * q + i] = Invalid <=> buf[CellWidth * q] = Invalid
    BY DEF Uniform
  <1> HIDE DEF new
  <1> QED BY <1>2, <1>3, <1>4, <1>5, <1>6

LEMMA ShiftedUniform ==
    ASSUME NEW buf \in BufType(Width), Uniform(buf),
           NEW s \in Int, NEW m \in Int, NEW d \in Int, s >= 0, s + m <= Cells
    PROVE  Uniform(Shifted(buf, CellWidth * s, CellWidth * m, CellWidth * d))
  <1> DEFINE new == Shifted(buf, CellWidth * s, CellWidth * m, CellWidth * d)
             from == CellWidth * s .. CellWidth * s + CellWidth * m - 1
  <1> SUFFICES ASSUME NEW q \in CellNos, NEW i \in 0 .. CellWidth - 1
               PROVE  new[CellWidth * q + i] = Invalid <=> new[CellWidth * q] = Invalid
    BY DEF Uniform
  <1>1. q \in Int /\ 0 \in 0 .. CellWidth - 1 /\ q - d \in Int /\ i \in Int
    BY Sizes DEF CellNos
  <1>2. /\ CellWidth * (q - d) + i \in from <=> q - d \in s .. s + m - 1
        /\ CellWidth * (q - d) + 0 \in from <=> q - d \in s .. s + m - 1
    BY <1>1, InBlock
  <1>3. /\ CellWidth * (q - d) = CellWidth * q - CellWidth * d
        /\ CellWidth * q \in Int /\ CellWidth * d \in Int /\ CellWidth * (q - d) \in Int
    BY <1>1, Times
  <1>4. CellWidth * q + i \in Lines(Width) /\ CellWidth * q \in Lines(Width)
    BY CellCol
  <1>5. \A x \in Lines(Width) :
            new[x] = IF x - CellWidth * d \in from THEN buf[x - CellWidth * d] ELSE buf[x]
    BY DEF Shifted, BufType
  <1>6. /\ (CellWidth * q + i) - CellWidth * d = CellWidth * (q - d) + i
        /\ CellWidth * q - CellWidth * d = CellWidth * (q - d)
        /\ CellWidth * (q - d) + 0 = CellWidth * (q - d)
    <2> DEFINE cq == CellWidth * q
               cd == CellWidth * d
               ce == CellWidth * (q - d)
    <2>1. cq \in Int /\ cd \in Int /\ ce \in Int /\ ce = cq - cd
      BY <1>3
    <2> HIDE DEF cq, cd, ce
    <2>2. (cq + i) - cd = ce + i /\ cq - cd = ce /\ ce + 0 = ce
      BY <1>1, <2>1
    <2> QED BY <2>2 DEF cq, cd, ce
  <1> HIDE DEF new, from
  <1>7. buf[CellWidth * q + i] = Invalid <=> buf[CellWidth * q] = Invalid
    BY DEF Uniform
  <1>8. CASE q - d \in s .. s + m - 1
    <2>1. q - d \in CellNos
      BY <1>1, <1>8, Sizes DEF CellNos
    <2>2. buf[CellWidth * (q - d) + i] = Invalid <=> buf[CellWidth * (q - d)] = Invalid
      BY <2>1 DEF Uniform
    <2> QED BY <1>2, <1>4, <1>5, <1>6, <1>8, <2>2
  <1>9. CASE q - d \notin s .. s + m - 1
    BY <1>2, <1>4, <1>5, <1>6, <1>7, <1>9
  <1> QED BY <1>8, <1>9

LEMMA ExposedTimes ==
    ASSUME NEW s \in Int, NEW m \in Int, NEW d \in Int
    PROVE  /\ ExposedAt(CellWidth * s, CellWidth * m, CellWidth * d) = CellWidth * ExposedAt(s, m, d)
           /\ ExposedSize(CellWidth * s, CellWidth * m, CellWidth * d)
              = CellWidth * ExposedSize(s, m, d)
           /\ ExposedAt(s, m, d) \in Int /\ ExposedSize(s, m, d) \in Int
  <1>1. -d \in Int /\ s + m \in Int /\ s + m + d \in Int /\ 0 \in Int
    OBVIOUS
  <1>2. CellWidth >= 1 /\ CellWidth \in Int
    BY Sizes
  <1>3. /\ CellWidth * s \in Int /\ CellWidth * m \in Int /\ CellWidth * d \in Int
        /\ CellWidth * (s + m) = CellWidth * s + CellWidth * m
        /\ CellWidth * (s + m + d) = CellWidth * (s + m) + CellWidth * d
        /\ CellWidth * (-d) = -(CellWidth * d) /\ CellWidth * 0 = 0
    BY <1>1, Times
  <1>4. /\ 0 < d => CellWidth * 0 + CellWidth <= CellWidth * d
        /\ d <= 0 => CellWidth * d <= CellWidth * 0
    BY <1>1, Times
  <1>5. /\ -d < m => CellWidth * (-d) + CellWidth <= CellWidth * m
        /\ m <= -d => CellWidth * m <= CellWidth * (-d)
    BY <1>1, Times
  <1>6. /\ m < d => CellWidth * m + CellWidth <= CellWidth * d
        /\ d <= m => CellWidth * d <= CellWidth * m
    BY <1>1, Times
  <1> DEFINE cs == CellWidth * s
             cm == CellWidth * m
             cd == CellWidth * d
  <1>7. cs \in Int /\ cm \in Int /\ cd \in Int /\ CellWidth * (s + m + d) = cs + cm + cd
        /\ CellWidth * (-d) = -cd
    BY <1>3
  <1>8. (cd > 0 <=> d > 0) /\ (cm > -cd <=> m > -d) /\ (cm < cd <=> m < d)
    <2>1. /\ 0 < d => CellWidth <= cd
          /\ d <= 0 => cd <= 0
          /\ -d < m => -cd + CellWidth <= cm
          /\ m <= -d => cm <= -cd
          /\ m < d => cm + CellWidth <= cd
          /\ d <= m => cd <= cm
      BY <1>2, <1>3, <1>4, <1>5, <1>6
    <2> HIDE DEF cs, cm, cd
    <2> QED BY <1>2, <1>7, <2>1
  <1>9. ExposedAt(cs, cm, cd) = CellWidth * ExposedAt(s, m, d)
    <2>1. ExposedAt(cs, cm, cd) = IF cd > 0 THEN cs ELSE IF cm > -cd THEN cs + cm + cd ELSE cs
      BY DEF ExposedAt
    <2>2. ExposedAt(s, m, d) = IF d > 0 THEN s ELSE IF m > -d THEN s + m + d ELSE s
      BY DEF ExposedAt
    <2>3. CellWidth * s = cs
      OBVIOUS
    <2> HIDE DEF cs, cm, cd
    <2> QED BY <1>7, <1>8, <2>1, <2>2, <2>3
  <1>10. ExposedSize(cs, cm, cd) = CellWidth * ExposedSize(s, m, d)
    <2>1. ExposedSize(cs, cm, cd) = IF cd > 0 THEN (IF cm < cd THEN cm ELSE cd)
                                    ELSE IF cm > -cd THEN -cd ELSE cm
      BY DEF ExposedSize
    <2>2. ExposedSize(s, m, d) = IF d > 0 THEN (IF m < d THEN m ELSE d)
                                 ELSE IF m > -d THEN -d ELSE m
      BY DEF ExposedSize
    <2>3. CellWidth * m = cm /\ CellWidth * d = cd
      OBVIOUS
    <2> HIDE DEF cs, cm, cd
    <2> QED BY <1>7, <1>8, <2>1, <2>2, <2>3
  <1>11. ExposedAt(s, m, d) \in Int /\ ExposedSize(s, m, d) \in Int
    BY DEF ExposedAt, ExposedSize
  <1> QED BY <1>9, <1>10, <1>11

(* A scroll of cells moves and exposes whole cells. *)
LEMMA ScrolledUniform ==
    ASSUME NEW buf \in BufType(Width), Uniform(buf),
           NEW s \in Int, NEW m \in Int, NEW d \in Int, s >= 0, s + m <= Cells
    PROVE  /\ Scrolled(buf, CellWidth * s, CellWidth * m, CellWidth * d) \in BufType(Width)
           /\ Uniform(Scrolled(buf, CellWidth * s, CellWidth * m, CellWidth * d))
  <1> DEFINE mid == Shifted(buf, CellWidth * s, CellWidth * m, CellWidth * d)
  <1>1. CellWidth * s \in Int /\ CellWidth * m \in Int /\ CellWidth * d \in Int
    BY Times
  <1>2. CellWidth * s >= 0 /\ CellWidth * s + CellWidth * m <= Width
    <2>1. s + m \in Int /\ Cells \in Int /\ 0 \in Int
      BY Sizes
    <2>2. CellWidth * 0 <= CellWidth * s /\ CellWidth * 0 = 0
      BY <2>1, Times
    <2>3. CellWidth * (s + m) <= CellWidth * Cells /\ CellWidth * Cells = Width
      BY <2>1, Times
    <2>4. CellWidth * (s + m) = CellWidth * s + CellWidth * m
      BY Times
    <2> QED BY <2>2, <2>3, <2>4
  <1>3. mid \in BufType(Width)
        /\ Scrolled(buf, CellWidth * s, CellWidth * m, CellWidth * d) \in BufType(Width)
    BY <1>1, <1>2, ScrolledType, Sizes
  <1>4. Uniform(mid)
    BY ShiftedUniform
  <1>5. Uniform(Invalidated(mid, CellWidth * ExposedAt(s, m, d), CellWidth * ExposedSize(s, m, d)))
    BY <1>3, <1>4, ExposedTimes, InvalidatedUniform
  <1>6. Scrolled(buf, CellWidth * s, CellWidth * m, CellWidth * d)
        = Invalidated(mid, CellWidth * ExposedAt(s, m, d), CellWidth * ExposedSize(s, m, d))
    BY ExposedTimes DEF Scrolled
  <1> QED BY <1>3, <1>5, <1>6

-----------------------------------------------------------------------------
(* The invariant: one lemma for each group of actions. *)

LEMMA InPlaceFits ==
    ASSUME NEW n \in Nat
    PROVE  InPlace(n) \in BufType(n) /\ Scrollable(InPlace(n)) /\ Still(InPlace(n), n)
  BY DEF InPlace, BufType, Lines, Scrollable, Still

LEMMA InPlaceUniform == Uniform(InPlace(Width))
  <1> SUFFICES ASSUME NEW q \in CellNos, NEW i \in 0 .. CellWidth - 1
               PROVE  /\ InPlace(Width)[CellWidth * q + i] # Invalid
                      /\ InPlace(Width)[CellWidth * q] # Invalid
    BY DEF Uniform
  <1>1. CellWidth * q + i \in Lines(Width) /\ CellWidth * q \in Lines(Width)
    BY CellCol
  <1>2. \A x \in Lines(Width) : InPlace(Width)[x] = x /\ x # Invalid
    BY Sizes DEF InPlace, Lines
  <1> QED BY <1>1, <1>2

LEMMA AllLinesType ==
    /\ AllLines \in [RowNos -> [ColNos -> RowNos \X ColNos]]
    /\ AllLines = [r \in RowNos |-> [c \in ColNos |-> <<r, c>>]]
  BY DEF AllLines, LineOf

LEMMA NoCopyType == NoCopy \in BlockType /\ NoCopy.src = 0 /\ NoCopy.dst = 0 /\ NoCopy.n = 0
  BY DEF NoCopy, BlockType

LEMMA InitWindow == Init => WindowInv
  <1> SUFFICES ASSUME Init PROVE WindowInv
    OBVIOUS
  <1>1. TypeInv
    <2>1. /\ rows \in BufType(Height) /\ goalRows \in BufType(Height)
          /\ cols \in BufType(Width) /\ goalCols \in BufType(Width)
      BY InPlaceFits, Sizes DEF Init
    <2>2. screen = AllLines
      BY AllLinesType DEF Init
    <2>3. screen \in [RowNos -> [ColNos -> RowNos \X ColNos]] /\ copy \in BlockType
      BY <2>2, AllLinesType, NoCopyType DEF Init
    <2>4. moved \in BOOLEAN
      BY DEF Init
    <2>5. turn \in Int /\ k \in Int /\ line \in Int
      <3>1. turn = 0 /\ k = 0 /\ line = 0
        BY DEF Init
      <3> QED BY <3>1
    <2>6. pc = "idle"
      BY DEF Init
    <2> QED BY <2>1, <2>3, <2>4, <2>5, <2>6 DEF TypeInv
  <1>2. IdleInv
    BY InPlaceFits, InPlaceUniform, AllLinesType, Sizes DEF Init, IdleInv
  <1>3. IdleK
    BY Sizes DEF Init, IdleK
  <1>4. GoalInv /\ RowsInv /\ ColsInv /\ DoneInv
    BY DEF Init, GoalInv, RowsInv, ColsInv, DoneInv, OverRows
  <1> QED BY <1>1, <1>2, <1>3, <1>4 DEF WindowInv

(* Scrolling and invalidating, between two displays. *)
LEMMA EditsKeep ==
    ASSUME WindowInv, pc = "idle", UNCHANGED <<screen, walk>>,
           rows' \in BufType(Height), Scrollable(rows'),
           cols' \in BufType(Width), Scrollable(cols'), Uniform(cols'),
           moved' \in BOOLEAN, ~moved' => Still(rows', Height) /\ Still(cols', Width)
    PROVE  WindowInv'
  <1> USE DEF WindowInv, walk, goal
  <1>1. TypeInv'
    BY DEF TypeInv
  <1>2. IdleInv'
    BY DEF IdleInv
  <1>3. IdleK' /\ GoalInv' /\ RowsInv' /\ ColsInv' /\ DoneInv'
    BY DEF IdleK, GoalInv, RowsInv, ColsInv, DoneInv, OverRows
  <1> QED BY <1>1, <1>2, <1>3

LEMMA ScrollRowsKeeps ==
    ASSUME WindowInv, NEW b \in Blocks(Height), ScrollRows(b[1], b[2], b[3])
    PROVE  WindowInv'
  <1>1. /\ b[1] \in Int /\ b[2] \in Int /\ b[3] \in Int /\ b[1] >= 0 /\ b[1] + b[2] <= Height
    BY Sizes DEF Blocks
  <1>2. rows' \in BufType(Height)
    BY <1>1, ScrolledType, Sizes DEF ScrollRows, WindowInv, TypeInv
  <1> QED BY <1>2, EditsKeep DEF ScrollRows, WindowInv, TypeInv, IdleInv

LEMMA ScrollCellsKeeps ==
    ASSUME WindowInv, NEW b \in Blocks(Cells), ScrollCells(b[1], b[2], b[3])
    PROVE  WindowInv'
  <1>1. /\ b[1] \in Int /\ b[2] \in Int /\ b[3] \in Int /\ b[1] >= 0 /\ b[1] + b[2] <= Cells
    BY Sizes DEF Blocks
  <1>2. cols \in BufType(Width) /\ Uniform(cols)
    BY DEF ScrollCells, WindowInv, TypeInv, IdleInv
  <1>3. cols' \in BufType(Width) /\ Uniform(cols')
    BY <1>1, <1>2, ScrolledUniform DEF ScrollCells
  <1> QED BY <1>3, EditsKeep DEF ScrollCells, WindowInv, TypeInv, IdleInv

LEMMA InvalidateRowsKeeps ==
    ASSUME WindowInv, NEW off, NEW size, InvalidateRows(off, size)
    PROVE  WindowInv'
  <1>1. rows \in BufType(Height) /\ Scrollable(rows) /\ (~moved => Still(rows, Height))
    BY DEF InvalidateRows, WindowInv, TypeInv, IdleInv
  <1>2. /\ rows' \in BufType(Height) /\ Scrollable(rows')
        /\ ~moved => Still(rows', Height)
    BY <1>1, InvalidatedType, InvalidatedScrollable, InvalidatedStill, Sizes DEF InvalidateRows
  <1> QED BY <1>2, EditsKeep DEF InvalidateRows, WindowInv, TypeInv, IdleInv

LEMMA InvalidateCellColsKeeps ==
    ASSUME WindowInv, NEW count \in CellNos, NEW m \in 1 .. Cells, InvalidateCellCols(count, m)
    PROVE  WindowInv'
  <1> DEFINE width == CellWidth * count
             size == IF Width <= CellWidth * m + width THEN Width - width ELSE CellWidth * m
             n == IF Width <= CellWidth * m + width THEN Cells - count ELSE m
  <1>1. count \in Int /\ m \in Int /\ n \in Int /\ Cells \in Int
    BY Sizes DEF CellNos
  <1>2. size = CellWidth * n
    BY <1>1, Times
  <1>3. cols' = Invalidated(cols, CellWidth * count, CellWidth * n)
    <2>1. cols' = Invalidated(cols, width, size)
      BY DEF InvalidateCellCols
    <2> QED BY <1>2, <2>1
  <1>4. cols \in BufType(Width) /\ Scrollable(cols) /\ Uniform(cols) /\ (~moved => Still(cols, Width))
    BY DEF InvalidateCellCols, WindowInv, TypeInv, IdleInv
  <1> HIDE DEF n
  <1>5. /\ cols' \in BufType(Width) /\ Scrollable(cols') /\ Uniform(cols')
        /\ ~moved => Still(cols', Width)
    BY <1>1, <1>3, <1>4, InvalidatedType, InvalidatedScrollable, InvalidatedStill,
       InvalidatedUniform, Sizes
  <1> QED BY <1>5, EditsKeep DEF InvalidateCellCols, WindowInv, TypeInv, IdleInv

(* The screen a display starts from shows every line where its array says. *)
LEMMA NothingDone ==
    ASSUME NEW n, NEW G, NEW D
    PROVE  Pic(D, D, G, n, {})
  BY DEF Pic

LEMMA MoveRectanglesKeeps ==
    ASSUME WindowInv, MoveRectangles
    PROVE  WindowInv'
  <1>0. /\ goalRows' = rows /\ goalCols' = cols /\ k' = 0
        /\ moved => pc' = "rows up" /\ turn' = TurnOf(rows, Height)
        /\ ~moved => pc' = "moved" /\ turn' = turn
        /\ UNCHANGED <<rows, cols, moved, screen, copy, line>>
        /\ pc = "idle"
    BY DEF MoveRectangles
  <1>1. /\ screen = AllLines /\ copy = NoCopy
        /\ Scrollable(rows) /\ Scrollable(cols) /\ Uniform(cols)
        /\ ~moved => Still(rows, Height) /\ Still(cols, Width)
        /\ rows \in BufType(Height) /\ cols \in BufType(Width)
    BY <1>0 DEF WindowInv, IdleInv, TypeInv
  <1>2. TurnRight(rows, Height, TurnOf(rows, Height))
    BY <1>1, TurnIsRight, Sizes
  <1>3. TypeInv'
    <2>1. TurnOf(rows, Height) \in Int
      BY <1>2, Sizes DEF TurnRight, Lines
    <2>2. moved \in BOOLEAN /\ turn \in Int
      BY DEF WindowInv, TypeInv
    <2>3. turn' \in Int
      <3>1. turn' = TurnOf(rows, Height) \/ turn' = turn
        BY <1>0, <2>2, Zenon
      <3> QED BY <2>1, <2>2, <3>1
    <2>4. pc' = "rows up" \/ pc' = "moved"
      BY <1>0, <2>2, Zenon
    <2>5. k' \in Int
      <3>1. k' = 0
        BY <1>0, Zenon
      <3> QED BY <3>1
    <2> QED BY <1>0, <2>3, <2>4, <2>5 DEF WindowInv, TypeInv
  <1>4. GoalInv' /\ IdleInv' /\ IdleK' /\ ColsInv'
    BY <1>0, <1>1 DEF GoalInv, IdleInv, IdleK, ColsInv
  <1>5. CASE moved
    <2>1. pc' = "rows up" /\ turn' = TurnOf(rows, Height) /\ k' = 0 /\ copy' = NoCopy
      BY <1>0, <1>1, <1>5
    <2>2. UpDone(0) = {}
      BY DEF UpDone, Lines
    <2>3. BufIs(rows, rows, Height, UpDone(0))
      BY <2>2 DEF BufIs
    <2>4. 0 \in 0 .. TurnOf(rows, Height)
      BY <1>2, Sizes DEF TurnRight, Lines
    <2>5. UpInv(rows, goalRows, Height)'
      BY <1>0, <1>2, <2>1, <2>3, <2>4 DEF UpInv
    <2>6. Pic(AllLines, AllLines, rows, Height, UpDone(0))
      BY <2>2, NothingDone
    <2>7. RowsInv'
      BY <1>0, <1>1, <2>1, <2>5, <2>6 DEF RowsInv, AllLines, LineOf
    <2>8. DoneInv'
      BY <2>1 DEF DoneInv
    <2> QED BY <1>3, <1>4, <2>7, <2>8 DEF WindowInv
  <1>6. CASE ~moved
    <2>1. pc' = "moved" /\ k' = 0 /\ copy' = NoCopy
      BY <1>0, <1>1, <1>6
    <2>2. RowsInv'
      BY <2>1 DEF RowsInv, OverRows
    <2>3. BufIs(rows, rows, Height, RowNos) /\ BufIs(cols, cols, Width, ColNos)
      BY <1>1, <1>6, Sizes DEF BufIs, Still
    <2>4. ASSUME NEW r \in RowNos, rows[r] # Invalid
          PROVE  Pic(screen[r], LineOf(rows[r]), cols, Width, ColNos)
      <3>1. rows[r] = r /\ screen[r] = LineOf(r)
        BY <1>1, <1>6, <2>4, Sizes DEF Still, AllLines
      <3>2. \A x \in Lines(Width) : cols[x] # Invalid => cols[x] = x
        BY <1>1, <1>6 DEF Still
      <3> QED BY <3>1, <3>2 DEF Pic
    <2>5. DoneInv'
      BY <1>0, <2>1, <2>3, <2>4, Sizes DEF DoneInv, LineOf
    <2> QED BY <1>3, <1>4, <2>2, <2>5 DEF WindowInv
  <1> QED BY <1>5, <1>6

-----------------------------------------------------------------------------
(* Sets of lines that are done. *)

LEMMA DoneSets ==
    ASSUME NEW n \in Nat, NEW t \in Lines(n)
    PROVE  /\ UpDone(t) = DownDone(n, t, n - 1)
           /\ DownDone(n, t, t - 1) = Lines(n)
           /\ UpDone(0) = {}
  <1>1. \A x : x \in UpDone(t) <=> x \in DownDone(n, t, n - 1)
    BY DEF UpDone, DownDone, Lines
  <1>2. \A x : x \in DownDone(n, t, t - 1) <=> x \in Lines(n)
    BY DEF DownDone, Lines
  <1>3. \A x : x \notin UpDone(0)
    BY DEF UpDone, Lines
  <1> QED BY <1>1, <1>2, <1>3

LEMMA UpMore ==
    ASSUME NEW i \in Nat, NEW m \in Nat
    PROVE  /\ UpDone(i + m) = UpDone(i) \cup (i .. i + m - 1)
           /\ UpDone(i + 1) = UpDone(i) \cup {i}
           /\ i \notin UpDone(i)
  <1>1. \A x : x \in UpDone(i + m) <=> x \in UpDone(i) \cup (i .. i + m - 1)
    BY DEF UpDone, Lines
  <1>2. \A x : x \in UpDone(i + 1) <=> x \in UpDone(i) \cup {i}
    BY DEF UpDone, Lines
  <1>3. i \notin UpDone(i)
    BY DEF UpDone, Lines
  <1> QED BY <1>1, <1>2, <1>3

LEMMA DownMore ==
    ASSUME NEW n \in Nat, NEW t \in Lines(n), NEW i \in t .. n - 1, NEW d \in t .. i
    PROVE  /\ DownDone(n, t, d - 1) = DownDone(n, t, i) \cup (d .. i)
           /\ DownDone(n, t, i - 1) = DownDone(n, t, i) \cup {i}
           /\ i \notin DownDone(n, t, i)
  <1>1. \A x : x \in DownDone(n, t, d - 1) <=> x \in DownDone(n, t, i) \cup (d .. i)
    BY DEF DownDone, Lines
  <1>2. \A x : x \in DownDone(n, t, i - 1) <=> x \in DownDone(n, t, i) \cup {i}
    BY DEF DownDone, Lines
  <1>3. i \notin DownDone(n, t, i)
    BY DEF DownDone
  <1> QED BY <1>1, <1>2, <1>3

(* A line that stays is done without a copy. *)
LEMMA StaysKeeps ==
    ASSUME NEW n, NEW G, NEW buf, NEW done, NEW i \in Lines(n), i \notin done,
           BufIs(buf, G, n, done), Stays(buf, i)
    PROVE  /\ G[i] = i \/ G[i] = Invalid
           /\ BufIs(buf, G, n, done \cup {i})
  <1>1. G[i] = i \/ G[i] = Invalid
    BY DEF BufIs, Stays
  <1> QED BY <1>1 DEF BufIs

LEMMA StaysShown ==
    ASSUME NEW n, NEW G, NEW S, NEW D, NEW done, NEW i \in Lines(n), i \notin done,
           G[i] = i \/ G[i] = Invalid, Pic(S, D, G, n, done)
    PROVE  Pic(S, D, G, n, done \cup {i})
  BY DEF Pic

LEMMA UpBounds ==
    ASSUME NEW n \in Nat, Invalid \in Nat, Invalid > n, NEW G \in BufType(n), NEW t \in Lines(n),
           NEW i \in Nat, NEW b \in BlockType, UpBlock(G, t, i, b)
    PROVE  /\ b.n \in Nat /\ b.n >= 1 /\ b.dst = i /\ b.src \in Nat
           /\ b.src > b.dst /\ b.src + b.n <= n /\ b.dst + b.n <= t /\ b # NoCopy
           /\ \A x \in i .. i + b.n - 1 :
                 x \in Lines(n) /\ G[x] # Invalid /\ G[x] = b.src + (x - i) /\ G[x] > x
  <1>1. b.n \in Int /\ b.src \in Int /\ b.dst = i /\ b.n >= 1 /\ i + b.n <= t /\ t \in 0 .. n - 1
    BY DEF UpBlock, BlockType, Lines
  <1>2. \A x \in i .. i + b.n - 1 :
           x \in Lines(n) /\ G[x] # Invalid /\ G[x] = b.src + (x - i) /\ G[x] > x
    BY <1>1 DEF UpBlock, Lines
  <1>3. i \in i .. i + b.n - 1 /\ i + b.n - 1 \in i .. i + b.n - 1
    BY <1>1
  <1>4. G[i] \in 0 .. n - 1 /\ G[i + b.n - 1] \in 0 .. n - 1
    BY <1>2, <1>3 DEF BufType, Lines
  <1>5. G[i] = b.src /\ G[i] > i /\ G[i + b.n - 1] = b.src + b.n - 1
    BY <1>1, <1>2, <1>3
  <1>6. b # NoCopy
    BY <1>1, NoCopyType
  <1> QED BY <1>1, <1>2, <1>4, <1>5, <1>6

LEMMA DownBounds ==
    ASSUME NEW n \in Nat, Invalid \in Nat, Invalid > n, NEW G \in BufType(n), NEW t \in Lines(n),
           NEW i \in t .. n - 1, NEW b \in BlockType, DownBlock(G, t, i, b)
    PROVE  /\ b.n \in Nat /\ b.n >= 1 /\ b.dst \in t .. i /\ b.dst + b.n - 1 = i /\ b.src \in Nat
           /\ b.src < b.dst /\ b.src + b.n <= n /\ b # NoCopy
           /\ \A x \in b.dst .. i :
                 x \in Lines(n) /\ G[x] # Invalid /\ G[x] = b.src + (x - b.dst) /\ G[x] < x
  <1>1. /\ b.n \in Int /\ b.src \in Int /\ b.dst \in Int /\ b.n >= 1 /\ b.dst >= t
        /\ b.dst + b.n - 1 = i /\ t \in 0 .. n - 1 /\ i \in Int
    BY DEF DownBlock, BlockType, Lines
  <1>2. \A x \in b.dst .. i :
           x \in Lines(n) /\ G[x] # Invalid /\ G[x] = b.src + (x - b.dst) /\ G[x] < x
    BY <1>1 DEF DownBlock, Lines
  <1>3. b.dst \in b.dst .. i /\ i \in b.dst .. i
    BY <1>1
  <1>4. G[b.dst] \in 0 .. n - 1 /\ G[i] \in 0 .. n - 1
    BY <1>2, <1>3 DEF BufType, Lines
  <1>5. G[b.dst] = b.src /\ b.src < b.dst /\ G[i] = b.src + (b.n - 1)
    <2>1. G[b.dst] = b.src + (b.dst - b.dst) /\ G[b.dst] < b.dst
      BY <1>2, <1>3
    <2>2. G[i] = b.src + (i - b.dst)
      BY <1>2, <1>3
    <2> QED BY <1>1, <2>1, <2>2
  <1>6. b # NoCopy
    BY <1>1, NoCopyType
  <1> QED BY <1>1, <1>2, <1>4, <1>5, <1>6

-----------------------------------------------------------------------------
(* The loops of move_rectangles. *)

(* What the loops over the rows do not touch. *)
LEMMA RowFrame ==
    ASSUME WindowInv, pc \in {"rows up", "rows down"}, pc' \in {"rows up", "rows down"},
           cols' = cols, moved' = moved, turn' = turn, goalRows' = goalRows, goalCols' = goalCols,
           RowsInv',
           rows' \in BufType(Height), screen' \in [RowNos -> [ColNos -> RowNos \X ColNos]],
           k' \in Int, line' \in Int, copy' \in BlockType
    PROVE  WindowInv'
  <1>1. TypeInv'
    BY DEF WindowInv, TypeInv, goal
  <1>2. IdleInv' /\ IdleK' /\ ColsInv' /\ DoneInv'
    BY DEF IdleInv, IdleK, ColsInv, DoneInv
  <1>3. GoalInv'
    BY DEF WindowInv, GoalInv, goal
  <1> QED BY <1>1, <1>2, <1>3 DEF WindowInv

LEMMA RowsUpKeeps ==
    ASSUME WindowInv, RowsUp
    PROVE  WindowInv'
  <1>0. /\ pc = "rows up" /\ copy = NoCopy
        /\ rows' = rows /\ cols' = cols /\ moved' = moved /\ screen' = screen /\ turn' = turn /\ goalRows' = goalRows /\ goalCols' = goalCols
    BY DEF RowsUp, NothingToCopy, goal
  <1>1. /\ rows \in BufType(Height) /\ goalRows \in BufType(Height) /\ cols = goalCols
        /\ TurnRight(goalRows, Height, turn) /\ k \in 0 .. turn
        /\ BufIs(rows, goalRows, Height, UpDone(k))
        /\ Pic(screen, AllLines, goalRows, Height, UpDone(k))
        /\ k \in Int /\ line \in Int /\ copy \in BlockType
        /\ screen \in [RowNos -> [ColNos -> RowNos \X ColNos]]
    BY <1>0 DEF WindowInv, TypeInv, RowsInv, UpInv, OverRows
  <1>2. turn \in Lines(Height) /\ turn \in 0 .. Height - 1
    BY <1>1 DEF TurnRight, Lines
  <1>3. CASE k >= turn
    <2>1. pc' = "rows down" /\ k' = Height - 1 /\ copy' = copy /\ line' = line
      BY <1>3 DEF RowsUp
    <2>2. k = turn /\ UpDone(k) = DownDone(Height, turn, Height - 1)
      BY <1>1, <1>2, <1>3, DoneSets, Sizes
    <2>3. DownInv(rows, goalRows, Height)'
      <3>0. k' = Height - 1
        BY <2>1
      <3>1. k' \in turn - 1 .. Height - 1
        BY <1>2, <3>0, Sizes
      <3> QED BY <1>0, <1>1, <2>1, <2>2, <3>1 DEF DownInv
    <2>4. Pic(screen, AllLines, goalRows, Height,
              DownDone(Height, turn, IF copy = NoCopy THEN k ELSE copy.dst + line))'
      BY <1>0, <1>1, <2>1, <2>2 DEF AllLines, LineOf
    <2>5. RowsInv'
      BY <1>0, <1>1, <2>1, <2>3, <2>4 DEF RowsInv, OverRows
    <2>6. k' \in Int
      <3>1. k' = Height - 1
        BY <2>1
      <3> QED BY <3>1, Sizes
    <2>7. pc \in {"rows up", "rows down"} /\ pc' \in {"rows up", "rows down"}
      BY <1>0, <2>1
    <2>8. /\ rows' \in BufType(Height) /\ screen' \in [RowNos -> [ColNos -> RowNos \X ColNos]]
          /\ line' \in Int /\ copy' \in BlockType
      BY <1>0, <1>1, <2>1
    <2> QED BY <1>0, <2>5, <2>6, <2>7, <2>8, RowFrame
  <1>4. CASE k < turn /\ Stays(rows, k)
    <2>0. ~(k >= turn)
      BY <1>1, <1>2, <1>4
    <2>1. pc' = "rows up" /\ k' = k + 1 /\ copy' = copy /\ line' = line
      BY <1>0, <1>4, <2>0 DEF RowsUp
    <2>2. k \in Lines(Height) /\ k \in Nat /\ k' \in 0 .. turn /\ k' \in Int
      <3>1. k' = k + 1 /\ k \in 0 .. turn
        BY <1>1, <2>1
      <3> QED BY <1>2, <1>4, <3>1, Sizes DEF Lines
    <2>3. UpDone(k + 1) = UpDone(k) \cup {k} /\ k \notin UpDone(k)
      BY <2>2, UpMore
    <2>4. /\ goalRows[k] = k \/ goalRows[k] = Invalid
          /\ BufIs(rows, goalRows, Height, UpDone(k + 1))
      BY <1>1, <1>4, <2>2, <2>3, StaysKeeps
    <2>5. Pic(screen, AllLines, goalRows, Height, UpDone(k + 1))
      BY <1>1, <2>2, <2>3, <2>4, StaysShown
    <2>6. UpInv(rows, goalRows, Height)'
      BY <1>0, <1>1, <2>1, <2>2, <2>4 DEF UpInv
    <2>7. RowsInv'
      BY <1>0, <1>1, <2>1, <2>5, <2>6 DEF RowsInv, OverRows, AllLines, LineOf
    <2>8. pc \in {"rows up", "rows down"} /\ pc' \in {"rows up", "rows down"}
      BY <1>0, <2>1
    <2>9. /\ rows' \in BufType(Height) /\ screen' \in [RowNos -> [ColNos -> RowNos \X ColNos]]
          /\ line' \in Int /\ copy' \in BlockType /\ k' \in Int
      BY <1>0, <1>1, <2>1, <2>2
    <2> QED BY <1>0, <2>7, <2>8, <2>9, RowFrame
  <1>5. CASE k < turn /\ ~Stays(rows, k)
    <2> DEFINE b == Forward(rows, k)
    <2>0. ~(k >= turn)
      BY <1>1, <1>2, <1>5
    <2>1. pc' = "rows up" /\ k' = k /\ CopyRows(b)
      BY <1>0, <1>5, <2>0 DEF RowsUp
    <2>2. k \in 0 .. turn - 1 /\ k \in Nat
      BY <1>1, <1>2, <1>5
    <2>3. b \in BlockType /\ UpBlock(goalRows, turn, k, b)
      BY <1>1, <1>5, <2>2, ForwardIs, Sizes
    <2> HIDE DEF b
    <2>4. b.src > b.dst /\ b.n \in Nat /\ b.n >= 1 /\ b # NoCopy /\ b.src \in Nat /\ b.dst \in Nat
      BY <1>1, <1>2, <2>2, <2>3, UpBounds, Sizes
    <2>5. copy' = b /\ line' = 0 /\ copy' # NoCopy
      <3>1. ~(b.src <= b.dst)
        BY <2>4
      <3> QED BY <2>1, <2>4, <3>1 DEF CopyRows, LastFirst
    <2>6. UpInv(rows, goalRows, Height)'
      BY <1>0, <1>1, <2>1, <2>3, <2>5 DEF UpInv
    <2>7. (IF copy' = NoCopy THEN k' ELSE k' + line') = k /\ line' \in 0 .. copy'.n - 1
      <3>1. k + 0 = k /\ 0 \in 0 .. b.n - 1
        BY <2>2, <2>4
      <3>2. k' = k /\ line' = 0 /\ copy' = b
        BY <2>1, <2>5
      <3> QED BY <2>5, <3>1, <3>2
    <2>8. RowsInv'
      BY <1>0, <1>1, <2>1, <2>5, <2>6, <2>7 DEF RowsInv, OverRows, AllLines, LineOf
    <2>9. pc \in {"rows up", "rows down"} /\ pc' \in {"rows up", "rows down"}
      BY <1>0, <2>1
    <2>10. /\ rows' \in BufType(Height) /\ screen' \in [RowNos -> [ColNos -> RowNos \X ColNos]]
          /\ copy' \in BlockType
      BY <1>0, <1>1, <2>1, <2>3, <2>5, <2>7
    <2>11. k' \in Int /\ line' \in Int
      <3>1. k' = k /\ line' = 0
        BY <2>1, <2>5
      <3> QED BY <1>1, <3>1
    <2> QED BY <1>0, <2>8, <2>9, <2>10, <2>11, RowFrame
  <1> QED BY <1>1, <1>2, <1>3, <1>4, <1>5

LEMMA RowsDownGoesOn ==
    ASSUME WindowInv, RowsDown, k >= turn
    PROVE  WindowInv'
  <1>0. /\ pc = "rows down" /\ copy = NoCopy
        /\ rows' = rows /\ cols' = cols /\ moved' = moved /\ screen' = screen /\ goalRows' = goalRows /\ goalCols' = goalCols
    BY DEF RowsDown, NothingToCopy, goal
  <1>1. /\ rows \in BufType(Height) /\ goalRows \in BufType(Height) /\ cols = goalCols
        /\ TurnRight(goalRows, Height, turn) /\ k \in turn - 1 .. Height - 1
        /\ BufIs(rows, goalRows, Height, DownDone(Height, turn, k))
        /\ Pic(screen, AllLines, goalRows, Height, DownDone(Height, turn, k))
        /\ k \in Int /\ line \in Int /\ copy \in BlockType
        /\ screen \in [RowNos -> [ColNos -> RowNos \X ColNos]]
    BY <1>0 DEF WindowInv, TypeInv, RowsInv, DownInv, OverRows
  <1>2. turn \in Lines(Height) /\ turn \in 0 .. Height - 1 /\ k \in turn .. Height - 1
        /\ k \in Lines(Height) /\ ~(k < turn)
    BY <1>1 DEF TurnRight, Lines
  <1>3. pc' = pc /\ turn' = turn
    BY <1>2 DEF RowsDown
  <1>4. CASE Stays(rows, k)
    <2>1. k' = k - 1 /\ copy' = copy /\ line' = line
      BY <1>2, <1>4 DEF RowsDown
    <2>2. k' \in turn - 1 .. Height - 1 /\ k \in turn .. k
      BY <1>1, <1>2, <2>1, Sizes
    <2>3. DownDone(Height, turn, k - 1) = DownDone(Height, turn, k) \cup {k}
          /\ k \notin DownDone(Height, turn, k)
      BY <1>2, <2>2, DownMore, Sizes
    <2>4. /\ goalRows[k] = k \/ goalRows[k] = Invalid
          /\ BufIs(rows, goalRows, Height, DownDone(Height, turn, k - 1))
      BY <1>1, <1>2, <1>4, <2>3, StaysKeeps
    <2>5. Pic(screen, AllLines, goalRows, Height, DownDone(Height, turn, k - 1))
      BY <1>1, <1>2, <2>3, <2>4, StaysShown
    <2>6. DownInv(rows, goalRows, Height)'
      BY <1>0, <1>1, <1>3, <2>1, <2>2, <2>4 DEF DownInv
    <2>7. RowsInv'
      BY <1>0, <1>1, <1>3, <2>1, <2>5, <2>6 DEF RowsInv, OverRows, AllLines, LineOf
    <2>8. pc \in {"rows up", "rows down"} /\ pc' \in {"rows up", "rows down"}
      BY <1>0, <1>3
    <2>9. /\ rows' \in BufType(Height) /\ screen' \in [RowNos -> [ColNos -> RowNos \X ColNos]]
          /\ copy' \in BlockType
      BY <1>0, <1>1, <2>1, <2>2
    <2>10. k' \in Int /\ line' \in Int
      <3>1. k' = k - 1 /\ line' = line
        BY <2>1
      <3> QED BY <1>1, <3>1
    <2> QED BY <1>0, <1>3, <2>7, <2>8, <2>9, <2>10, RowFrame
  <1>5. CASE ~Stays(rows, k)
    <2> DEFINE b == Backward(rows, k)
    <2>1. k' = k /\ CopyRows(b)
      BY <1>2, <1>5 DEF RowsDown
    <2>2. b \in BlockType /\ DownBlock(goalRows, turn, k, b)
      BY <1>1, <1>2, <1>5, BackwardIs, Sizes
    <2> HIDE DEF b
    <2>3. /\ b.src < b.dst /\ b.n \in Nat /\ b.n >= 1 /\ b # NoCopy /\ b.src \in Nat
          /\ b.dst \in turn .. k /\ b.dst + b.n - 1 = k
      BY <1>1, <1>2, <2>2, DownBounds, Sizes
    <2>4. copy' = b /\ line' = b.n - 1 /\ copy' # NoCopy
      <3>1. b.src <= b.dst
        BY <1>2, <2>3
      <3> QED BY <2>1, <2>3, <3>1 DEF CopyRows, LastFirst
    <2>5. DownInv(rows, goalRows, Height)'
      BY <1>0, <1>1, <1>3, <2>1, <2>2, <2>4 DEF DownInv
    <2>6. (IF copy' = NoCopy THEN k' ELSE copy'.dst + line') = k /\ line' \in 0 .. copy'.n - 1
      BY <1>2, <2>1, <2>3, <2>4
    <2>7. RowsInv'
      BY <1>0, <1>1, <1>3, <2>1, <2>4, <2>5, <2>6 DEF RowsInv, OverRows, AllLines, LineOf
    <2>8. pc \in {"rows up", "rows down"} /\ pc' \in {"rows up", "rows down"}
      BY <1>0, <1>3
    <2>9. /\ rows' \in BufType(Height) /\ screen' \in [RowNos -> [ColNos -> RowNos \X ColNos]]
          /\ copy' \in BlockType
      BY <1>0, <1>1, <2>1, <2>2, <2>4, <2>6
    <2>10. k' \in Int /\ line' \in Int
      <3>1. k' = k /\ line' = b.n - 1
        BY <2>1, <2>4
      <3> QED BY <1>1, <2>3, <3>1
    <2> QED BY <1>0, <1>3, <2>7, <2>8, <2>9, <2>10, RowFrame
  <1> QED BY <1>4, <1>5

(* What the loops over the columns do not touch. *)
LEMMA ColFrame ==
    ASSUME WindowInv, pc # "idle", pc' \in {"cols left", "cols right"},
           rows' = rows, moved' = moved, goalRows' = goalRows, goalCols' = goalCols,
           ColsInv',
           cols' \in BufType(Width), screen' \in [RowNos -> [ColNos -> RowNos \X ColNos]],
           turn' \in Int, k' \in Int, line' \in Int, copy' \in BlockType
    PROVE  WindowInv'
  <1>1. TypeInv'
    BY DEF WindowInv, TypeInv
  <1>2. IdleInv' /\ IdleK' /\ RowsInv' /\ DoneInv'
    BY DEF IdleInv, IdleK, RowsInv, DoneInv, OverRows
  <1>3. GoalInv'
    BY DEF WindowInv, GoalInv
  <1> QED BY <1>1, <1>2, <1>3 DEF WindowInv

LEMMA RowsDownEnds ==
    ASSUME WindowInv, RowsDown, k < turn
    PROVE  WindowInv'
  <1>0. /\ pc = "rows down" /\ copy = NoCopy /\ copy' = copy /\ line' = line
        /\ rows' = rows /\ cols' = cols /\ moved' = moved /\ screen' = screen
        /\ goalRows' = goalRows /\ goalCols' = goalCols
        /\ pc' = "cols left" /\ k' = 0 /\ turn' = TurnOf(cols, Width)
    BY DEF RowsDown, NothingToCopy, goal
  <1>1. /\ rows \in BufType(Height) /\ goalRows \in BufType(Height)
        /\ cols \in BufType(Width) /\ cols = goalCols
        /\ TurnRight(goalRows, Height, turn) /\ k \in turn - 1 .. Height - 1
        /\ BufIs(rows, goalRows, Height, DownDone(Height, turn, k))
        /\ Pic(screen, AllLines, goalRows, Height, DownDone(Height, turn, k))
        /\ line \in Int /\ copy \in BlockType
        /\ screen \in [RowNos -> [ColNos -> RowNos \X ColNos]]
    BY <1>0 DEF WindowInv, TypeInv, RowsInv, DownInv, OverRows
  <1>2. Scrollable(goalCols)
    BY <1>0 DEF WindowInv, GoalInv
  <1>3. TurnRight(goalCols, Width, TurnOf(cols, Width)) /\ TurnOf(cols, Width) \in Lines(Width)
    BY <1>1, <1>2, TurnIsRight, Sizes DEF TurnRight
  <1>4. turn \in Lines(Height)
    BY <1>1 DEF TurnRight
  <1>5. k = turn - 1
    BY <1>1, <1>4, Sizes DEF Lines
  <1>6. DownDone(Height, turn, k) = RowNos
    BY <1>4, <1>5, DoneSets, Sizes
  <1>7. BufIs(rows, goalRows, Height, RowNos) /\ Pic(screen, AllLines, goalRows, Height, RowNos)
    BY <1>1, <1>6
  <1>8. UpDone(0) = {}
    BY <1>3, DoneSets, Sizes
  <1>9. k' \in 0 .. turn' /\ k' \in Int /\ turn' \in Int
    <2>1. k' = 0 /\ turn' = TurnOf(cols, Width)
      BY <1>0
    <2> QED BY <1>3, <2>1, Sizes DEF Lines
  <1>10. UpInv(cols, goalCols, Width)'
    <2>1. BufIs(cols, goalCols, Width, UpDone(0))
      BY <1>1, <1>8 DEF BufIs
    <2>2. TurnRight(goalCols, Width, turn)'
      BY <1>0, <1>3
    <2>3. BufIs(cols, goalCols, Width, UpDone(k))'
      BY <1>0, <2>1
    <2> QED BY <1>0, <1>9, <2>2, <2>3 DEF UpInv
  <1>11. ASSUME NEW r \in RowNos, goalRows[r] # Invalid
         PROVE  Pic(screen[r], LineOf(goalRows[r]), goalCols, Width, UpDone(0))
    <2>1. goalRows[r] \in RowNos
      BY <1>1, <1>11, Sizes DEF BufType
    <2>2. screen[r] = AllLines[goalRows[r]]
      BY <1>7, <1>11, Sizes DEF Pic
    <2>3. screen[r] = LineOf(goalRows[r])
      BY <2>1, <2>2 DEF AllLines
    <2> QED BY <1>8, <2>3, NothingDone
  <1>12. \A r \in RowNos : Reached(r)' = 0
    BY <1>0 DEF Reached
  <1>13. ASSUME NEW r \in RowNos, goalRows'[r] # Invalid
         PROVE  Pic(screen'[r], LineOf(goalRows'[r]), goalCols', Width, UpDone(Reached(r)'))
    BY <1>0, <1>11, <1>12, <1>13
  <1>14. ColsInv'
    BY <1>0, <1>7, <1>10, <1>13 DEF ColsInv, LineOf
  <1>15. /\ cols' \in BufType(Width) /\ screen' \in [RowNos -> [ColNos -> RowNos \X ColNos]]
         /\ line' \in Int /\ copy' \in BlockType /\ pc # "idle" /\ pc' \in {"cols left", "cols right"}
    BY <1>0, <1>1
  <1> QED BY <1>0, <1>9, <1>14, <1>15, ColFrame

LEMMA ColsLeftKeeps ==
    ASSUME WindowInv, ColsLeft
    PROVE  WindowInv'
  <1>0. /\ pc = "cols left" /\ copy = NoCopy
        /\ rows' = rows /\ cols' = cols /\ moved' = moved /\ screen' = screen /\ turn' = turn
        /\ goalRows' = goalRows /\ goalCols' = goalCols
    BY DEF ColsLeft, NothingToCopy, goal
  <1>1. /\ cols \in BufType(Width) /\ goalCols \in BufType(Width)
        /\ TurnRight(goalCols, Width, turn) /\ k \in 0 .. turn
        /\ BufIs(cols, goalCols, Width, UpDone(k))
        /\ BufIs(rows, goalRows, Height, RowNos)
        /\ line \in Int /\ copy \in BlockType /\ k \in Int /\ turn \in Int
        /\ screen \in [RowNos -> [ColNos -> RowNos \X ColNos]]
    BY <1>0 DEF WindowInv, TypeInv, ColsInv, UpInv
  <1>2. \A r \in RowNos :
            goalRows[r] # Invalid =>
                Pic(screen[r], LineOf(goalRows[r]), goalCols, Width, UpDone(k))
    BY <1>0 DEF WindowInv, ColsInv, Reached
  <1>3. turn \in Lines(Width) /\ turn \in 0 .. Width - 1
    BY <1>1 DEF TurnRight, Lines
  <1>4. /\ cols' \in BufType(Width) /\ screen' \in [RowNos -> [ColNos -> RowNos \X ColNos]]
        /\ turn' \in Int /\ pc # "idle"
    BY <1>0, <1>1
  <1>5. CASE k >= turn
    <2>1. pc' = "cols right" /\ k' = Width - 1 /\ copy' = copy /\ line' = line
      BY <1>5 DEF ColsLeft
    <2>2. k = turn /\ UpDone(k) = DownDone(Width, turn, Width - 1)
      BY <1>1, <1>3, <1>5, DoneSets, Sizes
    <2>3. k' \in turn - 1 .. Width - 1 /\ k' \in Int
      <3>1. k' = Width - 1
        BY <2>1
      <3> QED BY <1>3, <3>1, Sizes
    <2>4. DownInv(cols, goalCols, Width)'
      BY <1>0, <1>1, <2>1, <2>2, <2>3 DEF DownInv
    <2>5. \A r \in RowNos : Reached(r)' = Width - 1
      BY <1>0, <2>1 DEF Reached
    <2>6. ASSUME NEW r \in RowNos, goalRows'[r] # Invalid
          PROVE  Pic(screen'[r], LineOf(goalRows'[r]), goalCols', Width,
                     DownDone(Width, turn', Reached(r)'))
      BY <1>0, <1>2, <2>2, <2>5, <2>6
    <2>7. ColsInv'
      BY <1>0, <1>1, <2>1, <2>4, <2>6 DEF ColsInv, LineOf
    <2>8. line' \in Int /\ copy' \in BlockType /\ pc' \in {"cols left", "cols right"}
      BY <1>1, <2>1
    <2> QED BY <1>0, <1>4, <2>3, <2>7, <2>8, ColFrame
  <1>6. CASE k < turn /\ Stays(cols, k)
    <2>0. ~(k >= turn)
      BY <1>1, <1>3, <1>6
    <2>1. pc' = "cols left" /\ k' = k + 1 /\ copy' = copy /\ line' = line
      BY <1>0, <1>6, <2>0 DEF ColsLeft
    <2>2. k \in Lines(Width) /\ k \in Nat /\ k' \in 0 .. turn /\ k' \in Int
      <3>1. k' = k + 1 /\ k \in 0 .. turn
        BY <1>1, <2>1
      <3> QED BY <1>3, <1>6, <3>1, Sizes DEF Lines
    <2>3. UpDone(k + 1) = UpDone(k) \cup {k} /\ k \notin UpDone(k)
      BY <2>2, UpMore
    <2>4. /\ goalCols[k] = k \/ goalCols[k] = Invalid
          /\ BufIs(cols, goalCols, Width, UpDone(k + 1))
      BY <1>1, <1>6, <2>2, <2>3, StaysKeeps
    <2>5. \A r \in RowNos :
              goalRows[r] # Invalid =>
                  Pic(screen[r], LineOf(goalRows[r]), goalCols, Width, UpDone(k + 1))
      BY <1>2, <2>2, <2>3, <2>4, StaysShown
    <2>6. UpInv(cols, goalCols, Width)'
      BY <1>0, <1>1, <2>1, <2>2, <2>4 DEF UpInv
    <2>7. \A r \in RowNos : Reached(r)' = k + 1
      BY <1>0, <2>1 DEF Reached
    <2>8. ASSUME NEW r \in RowNos, goalRows'[r] # Invalid
          PROVE  Pic(screen'[r], LineOf(goalRows'[r]), goalCols', Width, UpDone(Reached(r)'))
      BY <1>0, <2>5, <2>7, <2>8
    <2>9. ColsInv'
      BY <1>0, <1>1, <2>1, <2>6, <2>8 DEF ColsInv, LineOf
    <2>10. line' \in Int /\ copy' \in BlockType /\ pc' \in {"cols left", "cols right"}
      BY <1>1, <2>1
    <2> QED BY <1>0, <1>4, <2>2, <2>9, <2>10, ColFrame
  <1>7. CASE k < turn /\ ~Stays(cols, k)
    <2> DEFINE b == Forward(cols, k)
    <2>0. ~(k >= turn)
      BY <1>1, <1>3, <1>7
    <2>1. pc' = "cols left" /\ k' = k /\ copy' = b /\ line' = Height - 1
      BY <1>0, <1>7, <2>0 DEF ColsLeft, CopyCols
    <2>2. k \in 0 .. turn - 1 /\ k \in Nat
      BY <1>1, <1>3, <1>7
    <2>3. b \in BlockType /\ UpBlock(goalCols, turn, k, b)
      BY <1>1, <1>7, <2>2, ForwardIs, Sizes
    <2> HIDE DEF b
    <2>4. b # NoCopy
      BY <1>1, <1>3, <2>2, <2>3, UpBounds, Sizes
    <2>5. line' \in RowNos /\ line' \in Int /\ \A r \in RowNos : ~(r > line')
      <3>1. line' = Height - 1
        BY <2>1
      <3> QED BY <3>1, Sizes DEF Lines
    <2>6. UpInv(cols, goalCols, Width)'
      BY <1>0, <1>1, <2>1, <2>3 DEF UpInv
    <2>7. \A r \in RowNos : Reached(r)' = k
      BY <2>1, <2>5 DEF Reached
    <2>8. ASSUME NEW r \in RowNos, goalRows'[r] # Invalid
          PROVE  Pic(screen'[r], LineOf(goalRows'[r]), goalCols', Width, UpDone(Reached(r)'))
      BY <1>0, <1>2, <2>7, <2>8
    <2>9. ColsInv'
      BY <1>0, <1>1, <2>1, <2>5, <2>6, <2>8 DEF ColsInv, LineOf
    <2>10. k' \in Int /\ copy' \in BlockType /\ pc' \in {"cols left", "cols right"}
      BY <1>1, <2>1, <2>3
    <2> QED BY <1>0, <1>4, <2>5, <2>9, <2>10, ColFrame
  <1> QED BY <1>1, <1>3, <1>5, <1>6, <1>7

LEMMA ColsRightGoesOn ==
    ASSUME WindowInv, ColsRight, k >= turn
    PROVE  WindowInv'
  <1>0. /\ pc = "cols right" /\ copy = NoCopy
        /\ rows' = rows /\ cols' = cols /\ moved' = moved /\ screen' = screen /\ turn' = turn
        /\ goalRows' = goalRows /\ goalCols' = goalCols
    BY DEF ColsRight, NothingToCopy, goal
  <1>1. /\ cols \in BufType(Width) /\ goalCols \in BufType(Width)
        /\ TurnRight(goalCols, Width, turn) /\ k \in turn - 1 .. Width - 1
        /\ BufIs(cols, goalCols, Width, DownDone(Width, turn, k))
        /\ BufIs(rows, goalRows, Height, RowNos)
        /\ line \in Int /\ copy \in BlockType /\ k \in Int /\ turn \in Int
        /\ screen \in [RowNos -> [ColNos -> RowNos \X ColNos]]
    BY <1>0 DEF WindowInv, TypeInv, ColsInv, DownInv
  <1>2. \A r \in RowNos :
            goalRows[r] # Invalid =>
                Pic(screen[r], LineOf(goalRows[r]), goalCols, Width, DownDone(Width, turn, k))
    BY <1>0 DEF WindowInv, ColsInv, Reached
  <1>3. turn \in Lines(Width) /\ turn \in 0 .. Width - 1 /\ k \in turn .. Width - 1
        /\ k \in Lines(Width) /\ ~(k < turn) /\ k \in turn .. k
    <2>1. turn \in Lines(Width)
      BY <1>1 DEF TurnRight
    <2> QED BY <1>1, <2>1, Sizes DEF Lines
  <1>4. /\ cols' \in BufType(Width) /\ screen' \in [RowNos -> [ColNos -> RowNos \X ColNos]]
        /\ turn' \in Int /\ pc # "idle"
    BY <1>0, <1>1
  <1>5. CASE Stays(cols, k)
    <2>1. pc' = "cols right" /\ k' = k - 1 /\ copy' = copy /\ line' = line
      BY <1>0, <1>3, <1>5 DEF ColsRight
    <2>2. k' \in turn - 1 .. Width - 1 /\ k' \in Int
      <3>1. k' = k - 1
        BY <2>1
      <3> QED BY <1>1, <1>3, <3>1, Sizes
    <2>3. DownDone(Width, turn, k - 1) = DownDone(Width, turn, k) \cup {k}
          /\ k \notin DownDone(Width, turn, k)
      BY <1>3, DownMore, Sizes
    <2>4. /\ goalCols[k] = k \/ goalCols[k] = Invalid
          /\ BufIs(cols, goalCols, Width, DownDone(Width, turn, k - 1))
      BY <1>1, <1>3, <1>5, <2>3, StaysKeeps
    <2>5. \A r \in RowNos :
              goalRows[r] # Invalid =>
                  Pic(screen[r], LineOf(goalRows[r]), goalCols, Width, DownDone(Width, turn, k - 1))
      BY <1>2, <1>3, <2>3, <2>4, StaysShown
    <2>6. DownInv(cols, goalCols, Width)'
      BY <1>0, <1>1, <2>1, <2>2, <2>4 DEF DownInv
    <2>7. \A r \in RowNos : Reached(r)' = k - 1
      BY <1>0, <2>1 DEF Reached
    <2>8. ASSUME NEW r \in RowNos, goalRows'[r] # Invalid
          PROVE  Pic(screen'[r], LineOf(goalRows'[r]), goalCols', Width,
                     DownDone(Width, turn', Reached(r)'))
      BY <1>0, <2>5, <2>7, <2>8
    <2>9. ColsInv'
      BY <1>0, <1>1, <2>1, <2>6, <2>8 DEF ColsInv, LineOf
    <2>10. line' \in Int /\ copy' \in BlockType /\ pc' \in {"cols left", "cols right"}
      BY <1>1, <2>1
    <2> QED BY <1>0, <1>4, <2>2, <2>9, <2>10, ColFrame
  <1>6. CASE ~Stays(cols, k)
    <2> DEFINE b == Backward(cols, k)
    <2>1. pc' = "cols right" /\ k' = k /\ copy' = b /\ line' = Height - 1
      BY <1>0, <1>3, <1>6 DEF ColsRight, CopyCols
    <2>2. b \in BlockType /\ DownBlock(goalCols, turn, k, b)
      BY <1>1, <1>3, <1>6, BackwardIs, Sizes
    <2> HIDE DEF b
    <2>3. b # NoCopy
      BY <1>1, <1>3, <2>2, DownBounds, Sizes
    <2>4. line' \in RowNos /\ line' \in Int /\ \A r \in RowNos : ~(r > line')
      <3>1. line' = Height - 1
        BY <2>1
      <3> QED BY <3>1, Sizes DEF Lines
    <2>5. DownInv(cols, goalCols, Width)'
      BY <1>0, <1>1, <2>1, <2>2 DEF DownInv
    <2>6. \A r \in RowNos : Reached(r)' = k
      BY <2>1, <2>4 DEF Reached
    <2>7. ASSUME NEW r \in RowNos, goalRows'[r] # Invalid
          PROVE  Pic(screen'[r], LineOf(goalRows'[r]), goalCols', Width,
                     DownDone(Width, turn', Reached(r)'))
      BY <1>0, <1>2, <2>6, <2>7
    <2>8. ColsInv'
      BY <1>0, <1>1, <2>1, <2>4, <2>5, <2>7 DEF ColsInv, LineOf
    <2>9. k' \in Int /\ copy' \in BlockType /\ pc' \in {"cols left", "cols right"}
      BY <1>1, <2>1, <2>2
    <2> QED BY <1>0, <1>4, <2>4, <2>8, <2>9, ColFrame
  <1> QED BY <1>5, <1>6

LEMMA ColsRightEnds ==
    ASSUME WindowInv, ColsRight, k < turn
    PROVE  WindowInv'
  <1>0. /\ pc = "cols right" /\ copy = NoCopy /\ pc' = "moved" /\ k' = k /\ copy' = copy
        /\ line' = line /\ turn' = turn
        /\ rows' = rows /\ cols' = cols /\ moved' = moved /\ screen' = screen
        /\ goalRows' = goalRows /\ goalCols' = goalCols
    BY DEF ColsRight, NothingToCopy, goal
  <1>1. /\ TurnRight(goalCols, Width, turn) /\ k \in turn - 1 .. Width - 1
        /\ BufIs(cols, goalCols, Width, DownDone(Width, turn, k))
        /\ BufIs(rows, goalRows, Height, RowNos)
        /\ turn \in Lines(Width)
    BY <1>0 DEF WindowInv, ColsInv, DownInv, TurnRight
  <1>2. \A r \in RowNos :
            goalRows[r] # Invalid =>
                Pic(screen[r], LineOf(goalRows[r]), goalCols, Width, DownDone(Width, turn, k))
    BY <1>0 DEF WindowInv, ColsInv, Reached
  <1>3. k = turn - 1 /\ k \in -1 .. Height + Width
    BY <1>1, Sizes DEF Lines
  <1>4. DownDone(Width, turn, k) = ColNos
    BY <1>1, <1>3, DoneSets, Sizes
  <1>5. DoneInv'
    BY <1>0, <1>1, <1>2, <1>3, <1>4 DEF DoneInv, LineOf
  <1>6. TypeInv'
    BY <1>0 DEF WindowInv, TypeInv
  <1>7. IdleInv' /\ IdleK' /\ RowsInv' /\ ColsInv'
    BY <1>0 DEF IdleInv, IdleK, RowsInv, ColsInv, OverRows
  <1>8. GoalInv'
    BY <1>0 DEF WindowInv, GoalInv
  <1> QED BY <1>5, <1>6, <1>7, <1>8 DEF WindowInv

(* display_cells paints the rest, and all is as wanted again. *)
LEMMA DisplayCellsKeeps ==
    ASSUME WindowInv, DisplayCells
    PROVE  WindowInv'
  <1>0. /\ pc = "moved" /\ pc' = "idle" /\ copy' = copy /\ line' = line
        /\ rows' = InPlace(Height) /\ cols' = InPlace(Width)
        /\ goalRows' = InPlace(Height) /\ goalCols' = InPlace(Width)
        /\ screen' = AllLines /\ moved' = FALSE /\ turn' = 0 /\ k' = 0
    BY AllLinesType DEF DisplayCells
  <1>1. copy = NoCopy /\ line \in Int
    BY <1>0 DEF WindowInv, DoneInv, TypeInv
  <1>2. k' \in -1 .. Height + Width /\ k' \in Int /\ turn' \in Int
    <2>1. k' = 0 /\ turn' = 0
      BY <1>0
    <2> QED BY <2>1, Sizes
  <1>3. rows' \in BufType(Height) /\ Scrollable(rows') /\ Still(rows', Height)
        /\ goalRows' \in BufType(Height)
    BY <1>0, InPlaceFits, Sizes
  <1>4. cols' \in BufType(Width) /\ Scrollable(cols') /\ Still(cols', Width) /\ Uniform(cols')
        /\ goalCols' \in BufType(Width)
    BY <1>0, InPlaceFits, InPlaceUniform, Sizes
  <1>5. TypeInv'
    <2>1. screen' \in [RowNos -> [ColNos -> RowNos \X ColNos]] /\ copy' \in BlockType
          /\ line' \in Int
      BY <1>0, <1>1, AllLinesType, NoCopyType
    <2>2. moved' \in BOOLEAN
      BY <1>0
    <2>3. pc' \in {"idle", "rows up", "rows down", "cols left", "cols right", "moved"}
      BY <1>0
    <2> QED BY <1>2, <1>3, <1>4, <2>1, <2>2, <2>3 DEF TypeInv
  <1>6. IdleInv'
    BY <1>0, <1>1, <1>3, <1>4 DEF IdleInv, AllLines, LineOf, NoCopy
  <1>7. IdleK' /\ GoalInv' /\ RowsInv' /\ ColsInv' /\ DoneInv'
    BY <1>0, <1>2 DEF IdleK, GoalInv, RowsInv, ColsInv, DoneInv, OverRows
  <1> QED BY <1>5, <1>6, <1>7 DEF WindowInv

-----------------------------------------------------------------------------
(* square_copy, line by line. *)

(* The line l of a block, and where the copy goes on. *)
LEMMA PlaceUp ==
    ASSUME NEW n \in Nat, Invalid \in Nat, Invalid > n, NEW G \in BufType(n),
           NEW t \in Lines(n), NEW i \in Nat, NEW b \in BlockType, UpBlock(G, t, i, b),
           NEW l \in 0 .. b.n - 1
    PROVE  /\ i + l \in Lines(n) /\ b.dst + l = i + l /\ b.src + l \in Lines(n)
           /\ G[i + l] # Invalid /\ G[i + l] = b.src + l /\ G[i + l] > i + l
           /\ ~LastFirst(b) /\ b.dst + b.n \in 0 .. t /\ b.dst + b.n \in Int
           /\ l + 1 \notin 0 .. b.n - 1 => b.dst + b.n = (i + l) + 1
           /\ l + 1 \in Int /\ i + (l + 1) = (i + l) + 1
  <1>1. /\ b.n \in Nat /\ b.n >= 1 /\ b.dst = i /\ b.src \in Nat
        /\ b.src > b.dst /\ b.src + b.n <= n /\ b.dst + b.n <= t
        /\ \A x \in i .. i + b.n - 1 :
              x \in Lines(n) /\ G[x] # Invalid /\ G[x] = b.src + (x - i) /\ G[x] > x
    BY UpBounds
  <1>2. i + l \in i .. i + b.n - 1 /\ l \in Nat /\ (i + l) - i = l
    BY <1>1
  <1>3. i + l \in Lines(n) /\ G[i + l] # Invalid /\ G[i + l] = b.src + l /\ G[i + l] > i + l
    BY <1>1, <1>2
  <1>4. ~LastFirst(b)
    BY <1>1 DEF LastFirst
  <1>5. t \in Int
    BY DEF Lines
  <1>6. b.src + l \in Lines(n)
    BY <1>1, <1>2 DEF Lines
  <1> QED BY <1>1, <1>2, <1>3, <1>4, <1>5, <1>6

LEMMA PlaceDown ==
    ASSUME NEW n \in Nat, Invalid \in Nat, Invalid > n, NEW G \in BufType(n),
           NEW t \in Lines(n), NEW i \in t .. n - 1, NEW b \in BlockType, DownBlock(G, t, i, b),
           NEW l \in 0 .. b.n - 1
    PROVE  /\ b.dst + l \in Lines(n) /\ b.dst + l \in t .. n - 1 /\ b.src + l \in Lines(n)
           /\ G[b.dst + l] # Invalid /\ G[b.dst + l] = b.src + l /\ G[b.dst + l] < b.dst + l
           /\ LastFirst(b) /\ b.dst - 1 \in t - 1 .. n - 1 /\ b.dst - 1 \in Int
           /\ l - 1 \notin 0 .. b.n - 1 => b.dst - 1 = (b.dst + l) - 1
           /\ l - 1 \in Int /\ b.dst + (l - 1) = (b.dst + l) - 1
  <1>0. t \in Nat /\ i \in Nat /\ i <= n - 1 /\ t <= i
    BY DEF Lines
  <1>1. /\ b.n \in Nat /\ b.n >= 1 /\ b.dst \in t .. i /\ b.dst + b.n - 1 = i
        /\ b.src \in Nat /\ b.src < b.dst /\ b.src + b.n <= n
        /\ \A x \in b.dst .. i :
              x \in Lines(n) /\ G[x] # Invalid /\ G[x] = b.src + (x - b.dst) /\ G[x] < x
    BY DownBounds
  <1>2. /\ b.dst + l \in b.dst .. i /\ l \in Nat /\ (b.dst + l) - b.dst = l /\ b.dst \in Nat
        /\ b.dst + l \in t .. n - 1
    BY <1>0, <1>1
  <1>3. /\ b.dst + l \in Lines(n) /\ G[b.dst + l] # Invalid
        /\ G[b.dst + l] = b.src + l /\ G[b.dst + l] < b.dst + l
    BY <1>1, <1>2
  <1>4. LastFirst(b)
    BY <1>1, <1>2 DEF LastFirst
  <1>5. b.src + l \in Lines(n)
    BY <1>1, <1>2 DEF Lines
  <1>6. b.dst - 1 \in t - 1 .. n - 1 /\ b.dst - 1 \in Int
        /\ (l - 1 \notin 0 .. b.n - 1 => b.dst - 1 = (b.dst + l) - 1)
        /\ l - 1 \in Int /\ b.dst + (l - 1) = (b.dst + l) - 1
    BY <1>0, <1>1, <1>2
  <1> QED BY <1>2, <1>3, <1>4, <1>5, <1>6

LEMMA WaitsUp ==
    ASSUME NEW n \in Nat, Invalid \in Nat, Invalid > n, NEW G \in BufType(n), Scrollable(G),
           NEW x \in Lines(n), G[x] # Invalid, G[x] > x
    PROVE  \A y \in Lines(n) : y \notin UpDone(x) /\ y # x /\ G[y] # Invalid => G[y] # x
  <1> SUFFICES ASSUME NEW y \in Lines(n), y \notin UpDone(x), y # x, G[y] # Invalid
               PROVE  G[y] # x
    OBVIOUS
  <1>1. y > x /\ x \in Int
    BY DEF UpDone, Lines
  <1>2. G[y] \notin x .. x
    BY <1>1, UpIsFree
  <1> QED BY <1>1, <1>2

LEMMA WaitsDown ==
    ASSUME NEW n \in Nat, Invalid \in Nat, Invalid > n, NEW G \in BufType(n), Scrollable(G),
           NEW t \in Lines(n), NEW x \in t .. n - 1, G[x] # Invalid, G[x] < x
    PROVE  \A y \in Lines(n) : y \notin DownDone(n, t, x) /\ y # x /\ G[y] # Invalid => G[y] # x
  <1> SUFFICES ASSUME NEW y \in Lines(n), y \notin DownDone(n, t, x), y # x, G[y] # Invalid
               PROVE  G[y] # x
    OBVIOUS
  <1>1. y < x /\ x \in Int /\ x \in Lines(n)
    BY DEF DownDone, Lines
  <1>2. G[y] \notin x .. x
    BY <1>1, DownIsFree
  <1> QED BY <1>1, <1>2

LEMMA LineUp ==
    ASSUME NEW n \in Nat, Invalid \in Nat, Invalid > n, NEW G \in BufType(n), Scrollable(G),
           NEW x \in Lines(n), G[x] # Invalid, G[x] > x,
           NEW S, NEW D, NEW T, Pic(S, D, G, n, UpDone(x)),
           \A z \in Lines(n) : T[z] = IF z = x THEN S[G[x]] ELSE S[z]
    PROVE  Pic(T, D, G, n, UpDone(x + 1))
  <1>1. x \in Nat
    BY DEF Lines
  <1>2. UpDone(x + 1) = UpDone(x) \cup {x} /\ x \notin UpDone(x)
    BY <1>1, UpMore
  <1>3. \A y \in Lines(n) : y \notin UpDone(x) /\ y # x /\ G[y] # Invalid => G[y] # x
    BY WaitsUp
  <1>4. /\ {x} \in SUBSET Lines(n)
        /\ \A z \in {x} : z \notin UpDone(x) /\ G[z] # Invalid
        /\ \A z \in Lines(n) : T[z] = IF z \in {x} THEN S[G[z]] ELSE S[z]
        /\ \A y \in Lines(n) : y \notin UpDone(x) /\ y \notin {x} /\ G[y] # Invalid => G[y] \notin {x}
    BY <1>2, <1>3
  <1>5. Pic(T, D, G, n, UpDone(x) \cup {x})
    BY <1>4, CopyKeeps
  <1> QED BY <1>2, <1>5

LEMMA LineDown ==
    ASSUME NEW n \in Nat, Invalid \in Nat, Invalid > n, NEW G \in BufType(n), Scrollable(G),
           NEW t \in Lines(n), NEW x \in t .. n - 1, G[x] # Invalid, G[x] < x,
           NEW S, NEW D, NEW T, Pic(S, D, G, n, DownDone(n, t, x)),
           \A z \in Lines(n) : T[z] = IF z = x THEN S[G[x]] ELSE S[z]
    PROVE  Pic(T, D, G, n, DownDone(n, t, x - 1))
  <1>1. x \in Nat /\ x \in Lines(n) /\ x \in t .. x
    BY DEF Lines
  <1>2. DownDone(n, t, x - 1) = DownDone(n, t, x) \cup {x} /\ x \notin DownDone(n, t, x)
    BY <1>1, DownMore
  <1>3. \A y \in Lines(n) : y \notin DownDone(n, t, x) /\ y # x /\ G[y] # Invalid => G[y] # x
    BY WaitsDown
  <1>4. /\ {x} \in SUBSET Lines(n)
        /\ \A z \in {x} : z \notin DownDone(n, t, x) /\ G[z] # Invalid
        /\ \A z \in Lines(n) : T[z] = IF z \in {x} THEN S[G[z]] ELSE S[z]
        /\ \A y \in Lines(n) :
              y \notin DownDone(n, t, x) /\ y \notin {x} /\ G[y] # Invalid => G[y] \notin {x}
    BY <1>1, <1>2, <1>3
  <1>5. Pic(T, D, G, n, DownDone(n, t, x) \cup {x})
    BY <1>1, <1>4, CopyKeeps
  <1> QED BY <1>2, <1>5

LEMMA CopyRowUp ==
    ASSUME WindowInv, CopyRowLine
    PROVE  pc = "rows up" => WindowInv'
  <1>a. SUFFICES ASSUME pc = "rows up" PROVE WindowInv'
    OBVIOUS
  <1>0. /\ copy # NoCopy
        /\ cols' = cols /\ moved' = moved /\ turn' = turn /\ pc' = pc
        /\ goalRows' = goalRows /\ goalCols' = goalCols
        /\ screen' = [screen EXCEPT ![copy.dst + line] = screen[copy.src + line]]
    BY DEF CopyRowLine, Target, goal
  <1>1. /\ rows \in BufType(Height) /\ goalRows \in BufType(Height) /\ cols = goalCols
        /\ TurnRight(goalRows, Height, turn) /\ k \in 0 .. turn
        /\ BufIs(rows, goalRows, Height, UpDone(k))
        /\ UpBlock(goalRows, turn, k, copy) /\ line \in 0 .. copy.n - 1
        /\ Pic(screen, AllLines, goalRows, Height, UpDone(k + line))
        /\ k \in Int /\ copy \in BlockType
        /\ screen \in [RowNos -> [ColNos -> RowNos \X ColNos]]
    BY <1>a, <1>0 DEF WindowInv, TypeInv, RowsInv, UpInv, OverRows
  <1>2. Scrollable(goalRows)
    BY <1>a DEF WindowInv, GoalInv
  <1>3. turn \in Lines(Height) /\ k \in Nat
    <2>1. turn \in Lines(Height)
      BY <1>1 DEF TurnRight
    <2> QED BY <1>1, <2>1, Sizes DEF Lines
  <1> DEFINE x == k + line
  <1>4. /\ x \in Lines(Height) /\ copy.dst + line = x /\ copy.src + line \in Lines(Height)
        /\ goalRows[x] # Invalid /\ goalRows[x] = copy.src + line /\ goalRows[x] > x
        /\ ~LastFirst(copy) /\ copy.dst + copy.n \in 0 .. turn /\ copy.dst + copy.n \in Int
        /\ line + 1 \notin 0 .. copy.n - 1 => copy.dst + copy.n = x + 1
        /\ line + 1 \in Int /\ k + (line + 1) = x + 1
    BY <1>1, <1>3, PlaceUp, Sizes
  <1> HIDE DEF x
  <1>5. /\ screen' \in [RowNos -> [ColNos -> RowNos \X ColNos]]
        /\ \A z \in Lines(Height) : screen'[z] = IF z = x THEN screen[goalRows[x]] ELSE screen[z]
    <2>1. screen' = [screen EXCEPT ![x] = screen[goalRows[x]]]
      BY <1>0, <1>4
    <2>2. screen[goalRows[x]] \in [ColNos -> RowNos \X ColNos]
      BY <1>1, <1>4, Sizes
    <2> QED BY <1>1, <2>1, <2>2, Sizes
  <1>6. Pic(screen', AllLines, goalRows, Height, UpDone(x + 1))
    <2>1. Pic(screen, AllLines, goalRows, Height, UpDone(x))
      BY <1>1 DEF x
    <2> QED BY <1>1, <1>2, <1>4, <1>5, <2>1, LineUp, Sizes
  <1>7. pc \in {"rows up", "rows down"} /\ pc' \in {"rows up", "rows down"}
    BY <1>a, <1>0
  <1>8. CASE line + 1 \in 0 .. copy.n - 1
    <2>1. line' = line + 1 /\ rows' = rows /\ k' = k /\ copy' = copy
      BY <1>a, <1>4, <1>8 DEF CopyRowLine
    <2>2. k' + line' = x + 1
      BY <1>4, <2>1
    <2>3. line' \in 0 .. copy'.n - 1 /\ line' \in Int
      BY <1>4, <1>8, <2>1
    <2>4. UpInv(rows, goalRows, Height)'
      BY <1>0, <1>1, <2>1 DEF UpInv
    <2>5. RowsInv'
      BY <1>a, <1>0, <1>1, <1>6, <2>1, <2>2, <2>3, <2>4 DEF RowsInv, OverRows, AllLines, LineOf
    <2>6. rows' \in BufType(Height) /\ copy' \in BlockType /\ k' \in Int
      BY <1>1, <2>1
    <2> QED BY <1>0, <1>5, <1>7, <2>3, <2>5, <2>6, RowFrame
  <1>9. CASE line + 1 \notin 0 .. copy.n - 1
    <2>1. rows' = Settled(rows, copy) /\ k' = copy.dst + copy.n /\ copy' = NoCopy /\ line' = 0
      BY <1>a, <1>4, <1>9 DEF CopyRowLine, NextK
    <2>2. k' = x + 1
      BY <1>4, <1>9, <2>1
    <2>3. /\ BufIs(rows', goalRows, Height, UpDone(copy.dst + copy.n))
          /\ rows' \in BufType(Height)
      BY <1>1, <1>3, <2>1, SettledUp, Sizes
    <2>4. k' \in 0 .. turn /\ k' \in Int
      BY <1>4, <2>1
    <2>5. UpInv(rows, goalRows, Height)'
      BY <1>0, <1>1, <2>1, <2>3, <2>4 DEF UpInv
    <2>6. RowsInv'
      BY <1>a, <1>0, <1>1, <1>6, <2>1, <2>2, <2>5 DEF RowsInv, OverRows, AllLines, LineOf
    <2>7. copy' \in BlockType
      BY <2>1, NoCopyType
    <2>8. line' \in Int
      <3>1. line' = 0
        BY <2>1
      <3> QED BY <3>1
    <2> QED BY <1>0, <1>5, <1>7, <2>3, <2>4, <2>6, <2>7, <2>8, RowFrame
  <1> QED BY <1>8, <1>9

LEMMA CopyRowDown ==
    ASSUME WindowInv, CopyRowLine
    PROVE  pc = "rows down" => WindowInv'
  <1>a. SUFFICES ASSUME pc = "rows down" PROVE WindowInv'
    OBVIOUS
  <1>0. /\ copy # NoCopy
        /\ cols' = cols /\ moved' = moved /\ turn' = turn /\ pc' = pc
        /\ goalRows' = goalRows /\ goalCols' = goalCols
        /\ screen' = [screen EXCEPT ![copy.dst + line] = screen[copy.src + line]]
    BY DEF CopyRowLine, Target, goal
  <1>1. /\ rows \in BufType(Height) /\ goalRows \in BufType(Height) /\ cols = goalCols
        /\ TurnRight(goalRows, Height, turn) /\ k \in turn - 1 .. Height - 1
        /\ BufIs(rows, goalRows, Height, DownDone(Height, turn, k))
        /\ DownBlock(goalRows, turn, k, copy) /\ line \in 0 .. copy.n - 1
        /\ Pic(screen, AllLines, goalRows, Height, DownDone(Height, turn, copy.dst + line))
        /\ k \in Int /\ copy \in BlockType
        /\ screen \in [RowNos -> [ColNos -> RowNos \X ColNos]]
    BY <1>a, <1>0 DEF WindowInv, TypeInv, RowsInv, DownInv, OverRows
  <1>2. Scrollable(goalRows)
    BY <1>a DEF WindowInv, GoalInv
  <1>3. turn \in Lines(Height) /\ k \in turn .. Height - 1
    <2>1. turn \in Lines(Height)
      BY <1>1 DEF TurnRight
    <2>2. /\ copy.dst \in Int /\ copy.n \in Int /\ copy.dst >= turn /\ copy.n >= 1
          /\ copy.dst + copy.n - 1 = k
      BY <1>1 DEF DownBlock, BlockType
    <2>3. turn \in Int /\ k \in turn - 1 .. Height - 1 /\ k \in Int
      BY <1>1, <2>1, Sizes DEF Lines
    <2>4. k >= turn
      <3> DEFINE d == copy.dst
                 m == copy.n
      <3>1. d \in Int /\ m \in Int /\ d >= turn /\ m >= 1 /\ d + m - 1 = k
        BY <2>2
      <3> HIDE DEF d, m
      <3> QED BY <2>3, <3>1
    <2> QED BY <2>1, <2>3, <2>4, Sizes
  <1> DEFINE x == copy.dst + line
  <1>4. /\ x \in Lines(Height) /\ x \in turn .. Height - 1 /\ copy.src + line \in Lines(Height)
        /\ goalRows[x] # Invalid /\ goalRows[x] = copy.src + line /\ goalRows[x] < x
        /\ LastFirst(copy) /\ copy.dst - 1 \in turn - 1 .. Height - 1 /\ copy.dst - 1 \in Int
        /\ line - 1 \notin 0 .. copy.n - 1 => copy.dst - 1 = x - 1
        /\ line - 1 \in Int /\ copy.dst + (line - 1) = x - 1
    BY <1>1, <1>3, PlaceDown, Sizes
  <1>5. /\ screen' \in [RowNos -> [ColNos -> RowNos \X ColNos]]
        /\ \A z \in Lines(Height) : screen'[z] = IF z = x THEN screen[goalRows[x]] ELSE screen[z]
    <2>1. screen' = [screen EXCEPT ![x] = screen[goalRows[x]]]
      BY <1>0, <1>4
    <2>2. screen[goalRows[x]] \in [ColNos -> RowNos \X ColNos]
      BY <1>1, <1>4, Sizes
    <2>3. x \in RowNos
      BY <1>4, Sizes
    <2> HIDE DEF x
    <2> QED BY <1>1, <2>1, <2>2, <2>3, Sizes
  <1>6. Pic(screen', AllLines, goalRows, Height, DownDone(Height, turn, x - 1))
    <2>1. Pic(screen, AllLines, goalRows, Height, DownDone(Height, turn, x))
      BY <1>1
    <2> HIDE DEF x
    <2> QED BY <1>1, <1>2, <1>3, <1>4, <1>5, <2>1, LineDown, Sizes
  <1> HIDE DEF x
  <1>7. pc \in {"rows up", "rows down"} /\ pc' \in {"rows up", "rows down"}
    BY <1>a, <1>0
  <1>8. CASE line - 1 \in 0 .. copy.n - 1
    <2>1. line' = line - 1 /\ rows' = rows /\ k' = k /\ copy' = copy
      BY <1>a, <1>4, <1>8 DEF CopyRowLine
    <2>2. copy'.dst + line' = x - 1
      BY <1>4, <2>1
    <2>3. line' \in 0 .. copy'.n - 1 /\ line' \in Int
      BY <1>4, <1>8, <2>1
    <2>4. DownInv(rows, goalRows, Height)'
      BY <1>0, <1>1, <2>1 DEF DownInv
    <2>5. RowsInv'
      BY <1>a, <1>0, <1>1, <1>6, <2>1, <2>2, <2>3, <2>4 DEF RowsInv, OverRows, AllLines, LineOf
    <2>6. rows' \in BufType(Height) /\ copy' \in BlockType /\ k' \in Int
      BY <1>1, <2>1
    <2> QED BY <1>0, <1>5, <1>7, <2>3, <2>5, <2>6, RowFrame
  <1>9. CASE line - 1 \notin 0 .. copy.n - 1
    <2>1. rows' = Settled(rows, copy) /\ k' = copy.dst - 1 /\ copy' = NoCopy /\ line' = 0
      BY <1>a, <1>4, <1>9 DEF CopyRowLine, NextK
    <2>2. k' = x - 1
      BY <1>4, <1>9, <2>1
    <2>3. /\ BufIs(rows', goalRows, Height, DownDone(Height, turn, copy.dst - 1))
          /\ rows' \in BufType(Height)
      BY <1>1, <1>3, <2>1, SettledDown, Sizes
    <2>4. k' \in turn - 1 .. Height - 1 /\ k' \in Int
      BY <1>4, <2>1
    <2>5. DownInv(rows, goalRows, Height)'
      BY <1>0, <1>1, <2>1, <2>3, <2>4 DEF DownInv
    <2>6. RowsInv'
      BY <1>a, <1>0, <1>1, <1>6, <2>1, <2>2, <2>5 DEF RowsInv, OverRows, AllLines, LineOf
    <2>7. copy' \in BlockType
      BY <2>1, NoCopyType
    <2>8. line' \in Int
      <3>1. line' = 0
        BY <2>1
      <3> QED BY <3>1
    <2> QED BY <1>0, <1>5, <1>7, <2>3, <2>4, <2>6, <2>7, <2>8, RowFrame
  <1> QED BY <1>8, <1>9

(* Columns: a whole block is moved at once within a screen line. *)
LEMMA BlockUp ==
    ASSUME NEW n \in Nat, Invalid \in Nat, Invalid > n, NEW G \in BufType(n), Scrollable(G),
           NEW t \in Lines(n), NEW i \in Nat, NEW b \in BlockType, UpBlock(G, t, i, b),
           NEW S, NEW D, NEW T
    PROVE  /\ \A z \in b.dst .. b.dst + b.n - 1 : z \in Lines(n) /\ b.src + (z - b.dst) \in Lines(n)
           /\ b.dst + b.n \in 0 .. t /\ b.dst + b.n \in Int
           /\ /\ Pic(S, D, G, n, UpDone(i))
              /\ \A z \in Lines(n) : T[z] = IF z \in b.dst .. b.dst + b.n - 1
                                            THEN S[b.src + (z - b.dst)] ELSE S[z]
              => Pic(T, D, G, n, UpDone(b.dst + b.n))
  <1> DEFINE B == i .. i + b.n - 1
  <1>1. /\ b.n \in Nat /\ b.n >= 1 /\ b.dst = i /\ b.src \in Nat
        /\ b.src > b.dst /\ b.src + b.n <= n /\ b.dst + b.n <= t
        /\ \A x \in i .. i + b.n - 1 :
              x \in Lines(n) /\ G[x] # Invalid /\ G[x] = b.src + (x - i) /\ G[x] > x
    BY UpBounds
  <1>2. B \in SUBSET Lines(n)
    BY <1>1
  <1>3. UpDone(b.dst + b.n) = UpDone(i) \cup B
    BY <1>1, UpMore
  <1>4. \A x \in B : x \notin UpDone(i) /\ G[x] # Invalid
    <2>1. \A x \in B : x \notin UpDone(i)
      BY <1>1 DEF UpDone, Lines
    <2> QED BY <1>1, <2>1
  <1>5. ASSUME NEW y \in Lines(n), y \notin UpDone(i), y \notin B, G[y] # Invalid
        PROVE  G[y] \notin B
    <2>1. y > i + b.n - 1 /\ i + b.n - 1 \in i .. i + b.n - 1 /\ i <= i + b.n - 1
      BY <1>1, <1>5 DEF UpDone, Lines
    <2>2. /\ i + b.n - 1 \in Lines(n) /\ G[i + b.n - 1] # Invalid
          /\ G[i + b.n - 1] > i + b.n - 1
      BY <1>1, <2>1
    <2> DEFINE j == i + b.n - 1
    <2>3. j \in Lines(n) /\ G[j] # Invalid /\ G[j] > j /\ y > j /\ i <= j
      BY <2>1, <2>2
    <2> HIDE DEF j
    <2>4. G[y] \notin i .. j
      BY <1>5, <2>3, UpIsFree
    <2> QED BY <2>4 DEF j
  <1>6. \A x \in B : G[x] = b.src + (x - b.dst)
    BY <1>1
  <1>7. b.dst .. b.dst + b.n - 1 = B
    BY <1>1
  <1>8. \A z \in B : z \in Lines(n) /\ b.src + (z - b.dst) \in Lines(n)
    BY <1>1 DEF Lines
  <1>9. b.dst + b.n \in 0 .. t /\ b.dst + b.n \in Int
    <2>1. t \in Int
      BY DEF Lines
    <2> QED BY <1>1, <2>1
  <1> HIDE DEF B
  <1>10. ASSUME Pic(S, D, G, n, UpDone(i)),
                \A z \in Lines(n) : T[z] = IF z \in B THEN S[b.src + (z - b.dst)] ELSE S[z]
         PROVE  Pic(T, D, G, n, UpDone(i) \cup B)
    <2>1. \A z \in Lines(n) : T[z] = IF z \in B THEN S[G[z]] ELSE S[z]
      BY <1>6, <1>10
    <2> QED BY <1>2, <1>4, <1>5, <1>10, <2>1, CopyKeeps
  <1> QED BY <1>3, <1>7, <1>8, <1>9, <1>10

LEMMA BlockDown ==
    ASSUME NEW n \in Nat, Invalid \in Nat, Invalid > n, NEW G \in BufType(n), Scrollable(G),
           NEW t \in Lines(n), NEW i \in t .. n - 1, NEW b \in BlockType, DownBlock(G, t, i, b),
           NEW S, NEW D, NEW T
    PROVE  /\ \A z \in b.dst .. b.dst + b.n - 1 : z \in Lines(n) /\ b.src + (z - b.dst) \in Lines(n)
           /\ b.dst - 1 \in t - 1 .. n - 1 /\ b.dst - 1 \in Int
           /\ /\ Pic(S, D, G, n, DownDone(n, t, i))
              /\ \A z \in Lines(n) : T[z] = IF z \in b.dst .. b.dst + b.n - 1
                                            THEN S[b.src + (z - b.dst)] ELSE S[z]
              => Pic(T, D, G, n, DownDone(n, t, b.dst - 1))
  <1> DEFINE B == b.dst .. i
  <1>0. t \in Nat /\ i \in Nat /\ i <= n - 1 /\ t <= i /\ i \in Lines(n)
    BY DEF Lines
  <1>1. /\ b.n \in Nat /\ b.n >= 1 /\ b.dst \in t .. i /\ b.dst + b.n - 1 = i
        /\ b.src \in Nat /\ b.src < b.dst /\ b.src + b.n <= n
        /\ \A x \in b.dst .. i :
              x \in Lines(n) /\ G[x] # Invalid /\ G[x] = b.src + (x - b.dst) /\ G[x] < x
    BY DownBounds
  <1>2. B \in SUBSET Lines(n)
    BY <1>1
  <1>3. DownDone(n, t, b.dst - 1) = DownDone(n, t, i) \cup B
    BY <1>1, DownMore
  <1>4. \A x \in B : x \notin DownDone(n, t, i) /\ G[x] # Invalid
    <2>1. \A x \in B : x \notin DownDone(n, t, i)
      BY <1>0, <1>1 DEF DownDone, Lines
    <2> QED BY <1>1, <2>1
  <1>5. ASSUME NEW y \in Lines(n), y \notin DownDone(n, t, i), y \notin B, G[y] # Invalid
        PROVE  G[y] \notin B
    <2> DEFINE d == b.dst
    <2>1. d \in t .. i /\ d \in Int /\ y \notin d .. i
      BY <1>0, <1>1, <1>5
    <2>2. d \in b.dst .. i
      BY <1>0, <1>1
    <2>3. d \in Lines(n) /\ G[d] # Invalid /\ G[d] < d
      BY <1>1, <2>2
    <2> HIDE DEF d
    <2>4. y < d /\ d <= i
      BY <1>0, <1>5, <2>1 DEF DownDone, Lines
    <2>5. G[y] \notin d .. i
      BY <1>0, <1>5, <2>3, <2>4, DownIsFree
    <2> QED BY <2>5 DEF d
  <1>6. \A x \in B : G[x] = b.src + (x - b.dst)
    BY <1>1
  <1>7. b.dst .. b.dst + b.n - 1 = B
    BY <1>1
  <1>8. \A z \in B : z \in Lines(n) /\ b.src + (z - b.dst) \in Lines(n)
    <2> SUFFICES ASSUME NEW z \in B PROVE z \in Lines(n) /\ b.src + (z - b.dst) \in Lines(n)
      OBVIOUS
    <2>1. z \in Lines(n) /\ G[z] # Invalid /\ G[z] = b.src + (z - b.dst)
      BY <1>1
    <2> QED BY <2>1 DEF BufType
  <1>9. b.dst - 1 \in t - 1 .. n - 1 /\ b.dst - 1 \in Int
    BY <1>0, <1>1
  <1> HIDE DEF B
  <1>10. ASSUME Pic(S, D, G, n, DownDone(n, t, i)),
                \A z \in Lines(n) : T[z] = IF z \in B THEN S[b.src + (z - b.dst)] ELSE S[z]
         PROVE  Pic(T, D, G, n, DownDone(n, t, i) \cup B)
    <2>1. \A z \in Lines(n) : T[z] = IF z \in B THEN S[G[z]] ELSE S[z]
      BY <1>6, <1>10
    <2> QED BY <1>2, <1>4, <1>5, <1>10, <2>1, CopyKeeps
  <1> QED BY <1>3, <1>7, <1>8, <1>9, <1>10

LEMMA CopyColLeft ==
    ASSUME WindowInv, CopyColLine
    PROVE  pc = "cols left" => WindowInv'
  <1>a. SUFFICES ASSUME pc = "cols left" PROVE WindowInv'
    OBVIOUS
  <1> DEFINE new == [c \in ColNos |-> IF c \in copy.dst .. copy.dst + copy.n - 1
                                      THEN screen[line][copy.src + (c - copy.dst)]
                                      ELSE screen[line][c]]
             after == copy.dst + copy.n
  <1>0. /\ copy # NoCopy
        /\ rows' = rows /\ moved' = moved /\ turn' = turn /\ pc' = pc
        /\ goalRows' = goalRows /\ goalCols' = goalCols
        /\ screen' = [screen EXCEPT ![line] = new]
    BY DEF CopyColLine, goal
  <1>1. /\ cols \in BufType(Width) /\ goalCols \in BufType(Width)
        /\ TurnRight(goalCols, Width, turn) /\ k \in 0 .. turn
        /\ BufIs(cols, goalCols, Width, UpDone(k))
        /\ BufIs(rows, goalRows, Height, RowNos)
        /\ UpBlock(goalCols, turn, k, copy) /\ line \in RowNos
        /\ line \in Int /\ copy \in BlockType /\ k \in Int /\ turn \in Int
        /\ screen \in [RowNos -> [ColNos -> RowNos \X ColNos]]
    BY <1>a, <1>0 DEF WindowInv, TypeInv, ColsInv, UpInv
  <1>2. Scrollable(goalCols)
    BY <1>a DEF WindowInv, GoalInv
  <1>3. turn \in Lines(Width) /\ k \in Nat
    <2>1. turn \in Lines(Width)
      BY <1>1 DEF TurnRight
    <2> QED BY <1>1, <2>1, Sizes DEF Lines
  <1>4. /\ \A z \in copy.dst .. copy.dst + copy.n - 1 :
              z \in Lines(Width) /\ copy.src + (z - copy.dst) \in Lines(Width)
        /\ after \in 0 .. turn /\ after \in Int
    BY <1>1, <1>2, <1>3, BlockUp, Sizes
  <1>5. NextK = after
    BY <1>a DEF NextK
  <1>6. \A r \in RowNos :
            goalRows[r] # Invalid =>
                Pic(screen[r], LineOf(goalRows[r]), goalCols, Width,
                    UpDone(IF r > line THEN after ELSE k))
    BY <1>a, <1>0, <1>5 DEF WindowInv, ColsInv, Reached
  <1>7. \A z \in Lines(Width) : new[z] = IF z \in copy.dst .. copy.dst + copy.n - 1
                                         THEN screen[line][copy.src + (z - copy.dst)]
                                         ELSE screen[line][z]
    BY Sizes
  <1>8. new \in [ColNos -> RowNos \X ColNos]
    <2> SUFFICES ASSUME NEW c \in ColNos
                 PROVE  (IF c \in copy.dst .. copy.dst + copy.n - 1
                         THEN screen[line][copy.src + (c - copy.dst)]
                         ELSE screen[line][c]) \in RowNos \X ColNos
      OBVIOUS
    <2>1. screen[line] \in [ColNos -> RowNos \X ColNos]
      BY <1>1
    <2>2. c \in copy.dst .. copy.dst + copy.n - 1 => copy.src + (c - copy.dst) \in ColNos
      BY <1>4, Sizes
    <2> QED BY <2>1, <2>2
  <1> HIDE DEF new, after
  <1>9. goalRows[line] # Invalid =>
            Pic(new, LineOf(goalRows[line]), goalCols, Width, UpDone(after))
    <2> SUFFICES ASSUME goalRows[line] # Invalid
                 PROVE  Pic(new, LineOf(goalRows[line]), goalCols, Width, UpDone(after))
      OBVIOUS
    <2>1. ~(line > line)
      BY <1>1
    <2>2. Pic(screen[line], LineOf(goalRows[line]), goalCols, Width, UpDone(k))
      BY <1>1, <1>6, <2>1
    <2> QED BY <1>1, <1>2, <1>3, <1>7, <2>2, BlockUp, Sizes DEF after
  <1>10. /\ screen' \in [RowNos -> [ColNos -> RowNos \X ColNos]]
         /\ \A r \in RowNos : screen'[r] = IF r = line THEN new ELSE screen[r]
    BY <1>0, <1>1, <1>8
  <1>11. \A r \in RowNos :
            goalRows[r] # Invalid =>
                Pic(screen'[r], LineOf(goalRows[r]), goalCols, Width,
                    UpDone(IF r > line - 1 THEN after ELSE k))
    <2> SUFFICES ASSUME NEW r \in RowNos, goalRows[r] # Invalid
                 PROVE  Pic(screen'[r], LineOf(goalRows[r]), goalCols, Width,
                            UpDone(IF r > line - 1 THEN after ELSE k))
      OBVIOUS
    <2>1. r \in Int
      BY Sizes DEF Lines
    <2>2. CASE r = line
      <3>1. r > line - 1
        BY <1>1, <2>2
      <3> QED BY <1>9, <1>10, <2>2, <3>1
    <2>3. CASE r # line
      <3>1. r > line - 1 <=> r > line
        BY <1>1, <2>1, <2>3
      <3> QED BY <1>6, <1>10, <2>3, <3>1
    <2> QED BY <2>2, <2>3
  <1>12. pc # "idle" /\ pc' \in {"cols left", "cols right"} /\ turn' \in Int
    BY <1>a, <1>0, <1>1
  <1>13. CASE line > 0
    <2>1. line' = line - 1 /\ cols' = cols /\ k' = k /\ copy' = copy
      BY <1>13 DEF CopyColLine
    <2>2. line' \in RowNos /\ line' \in Int
      <3>1. line' = line - 1
        BY <2>1
      <3> QED BY <1>1, <1>13, <3>1, Sizes DEF Lines
    <2>3. UpInv(cols, goalCols, Width)'
      BY <1>0, <1>1, <2>1 DEF UpInv
    <2>4. \A r \in RowNos : Reached(r)' = IF r > line - 1 THEN after ELSE k
      BY <1>a, <1>0, <1>5, <2>1 DEF Reached, NextK
    <2>5. ASSUME NEW r \in RowNos, goalRows'[r] # Invalid
          PROVE  Pic(screen'[r], LineOf(goalRows'[r]), goalCols', Width,
                     UpDone(Reached(r)'))
      BY <1>0, <1>11, <2>4, <2>5
    <2>6. ColsInv'
      BY <1>a, <1>0, <1>1, <2>2, <2>3, <2>5 DEF ColsInv, LineOf
    <2>7. k' \in Int /\ copy' \in BlockType /\ cols' \in BufType(Width)
      BY <1>1, <2>1
    <2> QED BY <1>0, <1>10, <1>12, <2>2, <2>6, <2>7, ColFrame
  <1>14. CASE ~(line > 0)
    <2>1. cols' = Settled(cols, copy) /\ k' = after /\ copy' = NoCopy /\ line' = 0
      BY <1>5, <1>14 DEF CopyColLine
    <2>2. \A r \in RowNos : r > line - 1
      BY <1>1, <1>14, Sizes DEF Lines
    <2>3. cols' \in BufType(Width) /\ BufIs(cols', goalCols, Width, UpDone(after))
      BY <1>1, <1>3, <2>1, SettledUp, Sizes DEF after
    <2>4. k' \in 0 .. turn /\ k' \in Int
      BY <1>4, <2>1
    <2>5. UpInv(cols, goalCols, Width)'
      BY <1>0, <1>1, <2>1, <2>3, <2>4 DEF UpInv
    <2>6. \A r \in RowNos : Reached(r)' = after
      BY <2>1 DEF Reached
    <2>7. ASSUME NEW r \in RowNos, goalRows'[r] # Invalid
          PROVE  Pic(screen'[r], LineOf(goalRows'[r]), goalCols', Width,
                     UpDone(Reached(r)'))
      BY <1>0, <1>11, <2>2, <2>6, <2>7
    <2>8. ColsInv'
      BY <1>a, <1>0, <1>1, <2>1, <2>5, <2>7 DEF ColsInv, LineOf
    <2>9. copy' \in BlockType
      BY <2>1, NoCopyType
    <2>10. line' \in Int
      <3>1. line' = 0
        BY <2>1
      <3> QED BY <3>1
    <2> QED BY <1>0, <1>10, <1>12, <2>3, <2>4, <2>8, <2>9, <2>10, ColFrame
  <1> QED BY <1>13, <1>14

LEMMA CopyColRight ==
    ASSUME WindowInv, CopyColLine
    PROVE  pc = "cols right" => WindowInv'
  <1>a. SUFFICES ASSUME pc = "cols right" PROVE WindowInv'
    OBVIOUS
  <1> DEFINE new == [c \in ColNos |-> IF c \in copy.dst .. copy.dst + copy.n - 1
                                      THEN screen[line][copy.src + (c - copy.dst)]
                                      ELSE screen[line][c]]
             after == copy.dst - 1
  <1>0. /\ copy # NoCopy
        /\ rows' = rows /\ moved' = moved /\ turn' = turn /\ pc' = pc
        /\ goalRows' = goalRows /\ goalCols' = goalCols
        /\ screen' = [screen EXCEPT ![line] = new]
    BY DEF CopyColLine, goal
  <1>1. /\ cols \in BufType(Width) /\ goalCols \in BufType(Width)
        /\ TurnRight(goalCols, Width, turn) /\ k \in turn - 1 .. Width - 1
        /\ BufIs(cols, goalCols, Width, DownDone(Width, turn, k))
        /\ BufIs(rows, goalRows, Height, RowNos)
        /\ DownBlock(goalCols, turn, k, copy) /\ line \in RowNos
        /\ line \in Int /\ copy \in BlockType /\ k \in Int /\ turn \in Int
        /\ screen \in [RowNos -> [ColNos -> RowNos \X ColNos]]
    BY <1>a, <1>0 DEF WindowInv, TypeInv, ColsInv, DownInv
  <1>2. Scrollable(goalCols)
    BY <1>a DEF WindowInv, GoalInv
  <1>3. turn \in Lines(Width) /\ k \in turn .. Width - 1
    <2>1. turn \in Lines(Width)
      BY <1>1 DEF TurnRight
    <2>2. turn \in Int /\ k \in turn - 1 .. Width - 1 /\ k \in Int
      BY <1>1, <2>1, Sizes DEF Lines
    <2>3. k >= turn
      <3> DEFINE d == copy.dst
                 m == copy.n
      <3>1. d \in Int /\ m \in Int /\ d >= turn /\ m >= 1 /\ d + m - 1 = k
        BY <1>1 DEF DownBlock, BlockType
      <3> HIDE DEF d, m
      <3> QED BY <2>2, <3>1
    <2> QED BY <2>1, <2>2, <2>3, Sizes
  <1>4. /\ \A z \in copy.dst .. copy.dst + copy.n - 1 :
              z \in Lines(Width) /\ copy.src + (z - copy.dst) \in Lines(Width)
        /\ after \in turn - 1 .. Width - 1 /\ after \in Int
    BY <1>1, <1>2, <1>3, BlockDown, Sizes
  <1>5. NextK = after
    BY <1>a DEF NextK
  <1>6. \A r \in RowNos :
            goalRows[r] # Invalid =>
                Pic(screen[r], LineOf(goalRows[r]), goalCols, Width,
                    DownDone(Width, turn, IF r > line THEN after ELSE k))
    BY <1>a, <1>0, <1>5 DEF WindowInv, ColsInv, Reached
  <1>7. \A z \in Lines(Width) : new[z] = IF z \in copy.dst .. copy.dst + copy.n - 1
                                         THEN screen[line][copy.src + (z - copy.dst)]
                                         ELSE screen[line][z]
    BY Sizes
  <1>8. new \in [ColNos -> RowNos \X ColNos]
    <2> SUFFICES ASSUME NEW c \in ColNos
                 PROVE  (IF c \in copy.dst .. copy.dst + copy.n - 1
                         THEN screen[line][copy.src + (c - copy.dst)]
                         ELSE screen[line][c]) \in RowNos \X ColNos
      OBVIOUS
    <2>1. screen[line] \in [ColNos -> RowNos \X ColNos]
      BY <1>1
    <2>2. c \in copy.dst .. copy.dst + copy.n - 1 => copy.src + (c - copy.dst) \in ColNos
      BY <1>4, Sizes
    <2> QED BY <2>1, <2>2
  <1> HIDE DEF new, after
  <1>9. goalRows[line] # Invalid =>
            Pic(new, LineOf(goalRows[line]), goalCols, Width, DownDone(Width, turn, after))
    <2> SUFFICES ASSUME goalRows[line] # Invalid
                 PROVE  Pic(new, LineOf(goalRows[line]), goalCols, Width, DownDone(Width, turn, after))
      OBVIOUS
    <2>1. ~(line > line)
      BY <1>1
    <2>2. Pic(screen[line], LineOf(goalRows[line]), goalCols, Width, DownDone(Width, turn, k))
      BY <1>1, <1>6, <2>1
    <2> QED BY <1>1, <1>2, <1>3, <1>7, <2>2, BlockDown, Sizes DEF after
  <1>10. /\ screen' \in [RowNos -> [ColNos -> RowNos \X ColNos]]
         /\ \A r \in RowNos : screen'[r] = IF r = line THEN new ELSE screen[r]
    BY <1>0, <1>1, <1>8
  <1>11. \A r \in RowNos :
            goalRows[r] # Invalid =>
                Pic(screen'[r], LineOf(goalRows[r]), goalCols, Width,
                    DownDone(Width, turn, IF r > line - 1 THEN after ELSE k))
    <2> SUFFICES ASSUME NEW r \in RowNos, goalRows[r] # Invalid
                 PROVE  Pic(screen'[r], LineOf(goalRows[r]), goalCols, Width,
                            DownDone(Width, turn, IF r > line - 1 THEN after ELSE k))
      OBVIOUS
    <2>1. r \in Int
      BY Sizes DEF Lines
    <2>2. CASE r = line
      <3>1. r > line - 1
        BY <1>1, <2>2
      <3> QED BY <1>9, <1>10, <2>2, <3>1
    <2>3. CASE r # line
      <3>1. r > line - 1 <=> r > line
        BY <1>1, <2>1, <2>3
      <3> QED BY <1>6, <1>10, <2>3, <3>1
    <2> QED BY <2>2, <2>3
  <1>12. pc # "idle" /\ pc' \in {"cols left", "cols right"} /\ turn' \in Int
    BY <1>a, <1>0, <1>1
  <1>13. CASE line > 0
    <2>1. line' = line - 1 /\ cols' = cols /\ k' = k /\ copy' = copy
      BY <1>13 DEF CopyColLine
    <2>2. line' \in RowNos /\ line' \in Int
      <3>1. line' = line - 1
        BY <2>1
      <3> QED BY <1>1, <1>13, <3>1, Sizes DEF Lines
    <2>3. DownInv(cols, goalCols, Width)'
      BY <1>0, <1>1, <2>1 DEF DownInv
    <2>4. \A r \in RowNos : Reached(r)' = IF r > line - 1 THEN after ELSE k
      BY <1>a, <1>0, <1>5, <2>1 DEF Reached, NextK
    <2>5. ASSUME NEW r \in RowNos, goalRows'[r] # Invalid
          PROVE  Pic(screen'[r], LineOf(goalRows'[r]), goalCols', Width,
                     DownDone(Width, turn', Reached(r)'))
      BY <1>0, <1>11, <2>4, <2>5
    <2>6. ColsInv'
      BY <1>a, <1>0, <1>1, <2>2, <2>3, <2>5 DEF ColsInv, LineOf
    <2>7. k' \in Int /\ copy' \in BlockType /\ cols' \in BufType(Width)
      BY <1>1, <2>1
    <2> QED BY <1>0, <1>10, <1>12, <2>2, <2>6, <2>7, ColFrame
  <1>14. CASE ~(line > 0)
    <2>1. cols' = Settled(cols, copy) /\ k' = after /\ copy' = NoCopy /\ line' = 0
      BY <1>5, <1>14 DEF CopyColLine
    <2>2. \A r \in RowNos : r > line - 1
      BY <1>1, <1>14, Sizes DEF Lines
    <2>3. cols' \in BufType(Width) /\ BufIs(cols', goalCols, Width, DownDone(Width, turn, after))
      BY <1>1, <1>3, <2>1, SettledDown, Sizes DEF after
    <2>4. k' \in turn - 1 .. Width - 1 /\ k' \in Int
      BY <1>4, <2>1
    <2>5. DownInv(cols, goalCols, Width)'
      BY <1>0, <1>1, <2>1, <2>3, <2>4 DEF DownInv
    <2>6. \A r \in RowNos : Reached(r)' = after
      BY <2>1 DEF Reached
    <2>7. ASSUME NEW r \in RowNos, goalRows'[r] # Invalid
          PROVE  Pic(screen'[r], LineOf(goalRows'[r]), goalCols', Width,
                     DownDone(Width, turn', Reached(r)'))
      BY <1>0, <1>11, <2>2, <2>6, <2>7
    <2>8. ColsInv'
      BY <1>a, <1>0, <1>1, <2>1, <2>5, <2>7 DEF ColsInv, LineOf
    <2>9. copy' \in BlockType
      BY <2>1, NoCopyType
    <2>10. line' \in Int
      <3>1. line' = 0
        BY <2>1
      <3> QED BY <3>1
    <2> QED BY <1>0, <1>10, <1>12, <2>3, <2>4, <2>8, <2>9, <2>10, ColFrame
  <1> QED BY <1>13, <1>14

-----------------------------------------------------------------------------
(* The theorems. *)

LEMMA NextKeepsWindow == WindowInv /\ [Next]_vars => WindowInv'
  <1> SUFFICES ASSUME WindowInv, [Next]_vars PROVE WindowInv'
    OBVIOUS
  <1>1. CASE \E b \in Blocks(Height) : ScrollRows(b[1], b[2], b[3])
    BY <1>1, ScrollRowsKeeps
  <1>2. CASE \E b \in Blocks(Cells) : ScrollCells(b[1], b[2], b[3])
    BY <1>2, ScrollCellsKeeps
  <1>3. CASE \E off \in RowNos, size \in 1 .. Height :
                 off + size <= Height /\ InvalidateRows(off, size)
    BY <1>3, InvalidateRowsKeeps
  <1>4. CASE \E count \in CellNos, m \in 1 .. Cells : InvalidateCellCols(count, m)
    BY <1>4, InvalidateCellColsKeeps
  <1>5. CASE MoveRectangles
    BY <1>5, MoveRectanglesKeeps
  <1>6. CASE RowsUp
    BY <1>6, RowsUpKeeps
  <1>7. CASE RowsDown
    <2>1. turn \in Int /\ k \in Int
      BY DEF WindowInv, TypeInv
    <2>2. k >= turn \/ k < turn
      BY <2>1
    <2> QED BY <1>7, <2>2, RowsDownGoesOn, RowsDownEnds
  <1>8. CASE ColsLeft
    BY <1>8, ColsLeftKeeps
  <1>9. CASE ColsRight
    <2>1. turn \in Int /\ k \in Int
      BY DEF WindowInv, TypeInv
    <2>2. k >= turn \/ k < turn
      BY <2>1
    <2> QED BY <1>9, <2>2, ColsRightGoesOn, ColsRightEnds
  <1>10. CASE CopyRowLine
    <2>1. pc = "rows up" \/ pc = "rows down"
      BY <1>10 DEF CopyRowLine, OverRows
    <2> QED BY <1>10, <2>1, CopyRowUp, CopyRowDown
  <1>11. CASE CopyColLine
    <2>1. pc \notin {"rows up", "rows down"} /\ copy # NoCopy
      BY <1>11 DEF CopyColLine, OverRows
    <2>2. pc # "idle" /\ pc # "moved"
      BY <2>1 DEF WindowInv, IdleInv, DoneInv
    <2>3. pc = "cols left" \/ pc = "cols right"
      BY <2>1, <2>2 DEF WindowInv, TypeInv
    <2> QED BY <1>11, <2>3, CopyColLeft, CopyColRight
  <1>12. CASE DisplayCells
    BY <1>12, DisplayCellsKeeps
  <1>13. CASE UNCHANGED vars
    <2>1. /\ rows' = rows /\ cols' = cols /\ moved' = moved /\ screen' = screen /\ pc' = pc
          /\ turn' = turn /\ k' = k /\ copy' = copy /\ line' = line
          /\ goalRows' = goalRows /\ goalCols' = goalCols
      BY <1>13 DEF vars
    <2>2. TypeInv' /\ IdleInv' /\ IdleK' /\ GoalInv' /\ DoneInv'
      BY <2>1 DEF WindowInv, TypeInv, IdleInv, IdleK, GoalInv, DoneInv, LineOf, AllLines
    <2>3. RowsInv'
      BY <2>1 DEF WindowInv, RowsInv, OverRows, UpInv, DownInv, AllLines, LineOf
    <2>4. \A r : Reached(r)' = Reached(r)
      BY <2>1 DEF Reached, NextK
    <2>5. ColsInv'
      BY <2>1, <2>4 DEF WindowInv, ColsInv, UpInv, DownInv, LineOf
    <2> QED BY <2>2, <2>3, <2>5 DEF WindowInv
  <1> QED BY <1>1, <1>2, <1>3, <1>4, <1>5, <1>6, <1>7, <1>8, <1>9, <1>10, <1>11, <1>12, <1>13
          DEF Next

LEMMA WindowInvariant == Spec => []WindowInv
  <1>1. Init => WindowInv
    BY InitWindow
  <1>2. WindowInv /\ [Next]_vars => WindowInv'
    BY NextKeepsWindow
  <1> QED BY <1>1, <1>2, PTL DEF Spec

(* Every entry of row_invalid and col_invalid is a screen line or Invalid, *)
(* and move_block never hands square_copy a block that leaves the window,  *)
(* though it reads the entries of Invalid lines as numbers, too.           *)
THEOREM BlocksStayInWindow == Spec => []TypeOK
  <1>1. WindowInv => TypeOK
    <2> SUFFICES ASSUME WindowInv PROVE TypeOK
      OBVIOUS
    <2>1. /\ rows \in [RowNos -> RowNos \cup {Invalid}]
          /\ cols \in [ColNos -> ColNos \cup {Invalid}]
          /\ screen \in [RowNos -> [ColNos -> RowNos \X ColNos]]
          /\ moved \in BOOLEAN
      BY Sizes DEF WindowInv, TypeInv, BufType
    <2>2. copy \in BlockType /\ goalRows \in BufType(Height) /\ goalCols \in BufType(Width)
      BY DEF WindowInv, TypeInv
    <2> DEFINE Fits(n) == copy.src + copy.n <= n /\ copy.dst + copy.n <= n
    <2>3. copy = NoCopy => Fits(Height) /\ Fits(Width)
      BY NoCopyType, Sizes
    <2>4. ASSUME NEW n \in {Height, Width}, NEW G \in BufType(n), NEW buf, UpInv(buf, G, n)
          PROVE  k \in -1 .. Height + Width /\ (copy # NoCopy => Fits(n))
      <3>1. n \in Nat /\ n <= Height + Width /\ Invalid \in Nat /\ Invalid > n
        BY Sizes
      <3>2. turn \in Lines(n) /\ k \in 0 .. turn
        BY <2>4 DEF UpInv, TurnRight
      <3>3. k \in Nat /\ turn \in Nat /\ turn <= n /\ k \in -1 .. Height + Width
        BY <3>1, <3>2, Sizes DEF Lines
      <3>4. ASSUME copy # NoCopy PROVE Fits(n)
        <4>1. UpBlock(G, turn, k, copy)
          BY <2>4, <3>4 DEF UpInv
        <4>2. /\ copy.n \in Nat /\ copy.src + copy.n <= n /\ copy.dst = k
              /\ copy.dst + copy.n <= turn
          BY <2>2, <3>1, <3>2, <3>3, <4>1, UpBounds
        <4> QED BY <3>1, <3>3, <4>2
      <3> QED BY <3>3, <3>4
    <2>5. ASSUME NEW n \in {Height, Width}, NEW G \in BufType(n), NEW buf, DownInv(buf, G, n)
          PROVE  k \in -1 .. Height + Width /\ (copy # NoCopy => Fits(n))
      <3>1. n \in Nat /\ n <= Height + Width /\ Invalid \in Nat /\ Invalid > n
        BY Sizes
      <3>2. turn \in Lines(n) /\ k \in turn - 1 .. n - 1
        BY <2>5 DEF DownInv, TurnRight
      <3>3. k \in Int /\ turn \in Nat /\ turn <= n /\ k \in -1 .. Height + Width
        BY <3>1, <3>2, Sizes DEF Lines
      <3>4. ASSUME copy # NoCopy PROVE Fits(n)
        <4>1. DownBlock(G, turn, k, copy)
          BY <2>5, <3>4 DEF DownInv
        <4>2. k \in turn .. n - 1
          <5> DEFINE d == copy.dst
                     m == copy.n
          <5>1. d \in Int /\ m \in Int /\ d >= turn /\ m >= 1 /\ d + m - 1 = k
            BY <2>2, <4>1 DEF DownBlock, BlockType
          <5> HIDE DEF d, m
          <5> QED BY <3>1, <3>2, <3>3, <5>1
        <4>3. /\ copy.n \in Nat /\ copy.src + copy.n <= n /\ copy.dst \in turn .. k
              /\ copy.dst + copy.n - 1 = k
          BY <2>2, <3>1, <3>2, <4>1, <4>2, DownBounds
        <4> QED BY <3>1, <3>3, <4>2, <4>3
      <3> QED BY <3>3, <3>4
    <2> HIDE DEF Fits
    <2>6. CASE pc = "rows up"
      <3>1. UpInv(rows, goalRows, Height)
        BY <2>6 DEF WindowInv, RowsInv
      <3>2. k \in -1 .. Height + Width /\ Fits(Height)
        BY <2>2, <2>3, <2>4, <3>1
      <3> QED BY <2>1, <2>6, <3>2 DEF TypeOK, OverRows, Fits
    <2>7. CASE pc = "rows down"
      <3>1. DownInv(rows, goalRows, Height)
        BY <2>7 DEF WindowInv, RowsInv
      <3>2. k \in -1 .. Height + Width /\ Fits(Height)
        BY <2>2, <2>3, <2>5, <3>1
      <3> QED BY <2>1, <2>7, <3>2 DEF TypeOK, OverRows, Fits
    <2>8. CASE pc = "cols left"
      <3>1. UpInv(cols, goalCols, Width)
        BY <2>8 DEF WindowInv, ColsInv
      <3>2. k \in -1 .. Height + Width /\ Fits(Width)
        BY <2>2, <2>3, <2>4, <3>1
      <3> QED BY <2>1, <2>8, <3>2 DEF TypeOK, OverRows, Fits
    <2>9. CASE pc = "cols right"
      <3>1. DownInv(cols, goalCols, Width)
        BY <2>9 DEF WindowInv, ColsInv
      <3>2. k \in -1 .. Height + Width /\ Fits(Width)
        BY <2>2, <2>3, <2>5, <3>1
      <3> QED BY <2>1, <2>9, <3>2 DEF TypeOK, OverRows, Fits
    <2>10. CASE pc = "idle" \/ pc = "moved"
      <3>1. copy = NoCopy /\ k \in -1 .. Height + Width
        BY <2>10 DEF WindowInv, IdleInv, IdleK, DoneInv
      <3>2. Fits(Width)
        BY <2>3, <3>1
      <3> QED BY <2>1, <2>10, <3>1, <3>2 DEF TypeOK, OverRows, Fits
    <2> QED BY <2>6, <2>7, <2>8, <2>9, <2>10 DEF WindowInv, TypeInv
  <1> QED BY <1>1, WindowInvariant, PTL

(* What integer division and its remainder are. *)
LEMMA Division ==
    ASSUME NEW a \in Nat, NEW b \in Nat, b > 0
    PROVE  a \div b \in Nat /\ a % b \in 0 .. b - 1 /\ a = b * (a \div b) + (a % b)
  <1>1. a \div b \in Int /\ a \div b >= 0
    OBVIOUS
  <1>2. a % b \in 0 .. b - 1
    OBVIOUS
  <1>3. a = b * (a \div b) + (a % b)
    BY SMTT(30)
  <1> QED BY <1>1, <1>2, <1>3

(* A column is the column i of one of the cells. *)
LEMMA CellOf ==
    ASSUME NEW c \in ColNos
    PROVE  \E i \in 0 .. CellWidth - 1 :
               c \div CellWidth \in CellNos /\ c = CellWidth * (c \div CellWidth) + i
  <1>1. c \in Nat /\ CellWidth \in Nat \ {0} /\ Cells \in Nat /\ c < Width
    BY Sizes DEF Lines
  <1> DEFINE q == c \div CellWidth
             i == c % CellWidth
  <1>2. q \in Nat /\ i \in 0 .. CellWidth - 1 /\ c = CellWidth * q + i
    BY <1>1, Division
  <1> HIDE DEF q, i
  <1>3. q < Cells
    <2>1. SUFFICES ASSUME Cells <= q PROVE FALSE
      BY <1>1, <1>2
    <2>2. CellWidth * Cells <= CellWidth * q /\ CellWidth * Cells = Width /\ CellWidth * q \in Int
      BY <1>1, <1>2, <2>1, Times
    <2> DEFINE p == CellWidth * q
    <2>3. Width <= p /\ c = p + i /\ p \in Int /\ Width \in Nat
      BY <1>2, <2>2, Sizes
    <2> HIDE DEF p
    <2> QED BY <1>1, <1>2, <2>3
  <1>4. q \in CellNos
    BY <1>1, <1>2, <1>3 DEF CellNos
  <1> QED BY <1>2, <1>4 DEF q

(* When move_rectangles is done, each place that display_cells does not    *)
(* paint shows what is wanted there, after any scrolls that kept the order *)
(* of the lines: no block was overwritten before it was copied, within a   *)
(* block no line was, and the first column of a cell speaks for them all.  *)
THEOREM PictureIsRight == Spec => []PictureRight
  <1>1. WindowInv => PictureRight
    <2> SUFFICES ASSUME WindowInv, pc = "moved",
                        NEW r \in RowNos, NEW c \in ColNos, ~Painted(r, c)
                 PROVE  screen[r][c] = <<goalRows[r], goalCols[c]>>
      BY DEF PictureRight
    <2>1. /\ BufIs(rows, goalRows, Height, RowNos) /\ BufIs(cols, goalCols, Width, ColNos)
          /\ goalRows[r] # Invalid => Pic(screen[r], LineOf(goalRows[r]), goalCols, Width, ColNos)
          /\ Uniform(goalCols) /\ goalCols \in BufType(Width)
      BY DEF WindowInv, DoneInv, GoalInv, TypeInv
    <2>2. goalRows[r] # Invalid
      BY <2>1, Sizes DEF Painted, BufIs
    <2>3. PICK i \in 0 .. CellWidth - 1 :
              c \div CellWidth \in CellNos /\ c = CellWidth * (c \div CellWidth) + i
      BY CellOf
    <2> DEFINE q == c \div CellWidth
    <2>4. cols[CellWidth * q] # Invalid
      BY DEF Painted, CellInvalid
    <2>5. q \in CellNos /\ c = CellWidth * q + i
      BY <2>3
    <2> HIDE DEF q
    <2>6. CellWidth * q \in Lines(Width) /\ c \in Lines(Width)
      BY <2>5, CellCol, Sizes
    <2>7. goalCols[CellWidth * q] # Invalid
      BY <2>1, <2>4, <2>6 DEF BufIs
    <2>8. goalCols[c] # Invalid
      BY <2>1, <2>5, <2>7 DEF Uniform
    <2>9. screen[r][c] = LineOf(goalRows[r])[goalCols[c]] /\ goalCols[c] \in ColNos
      BY <2>1, <2>2, <2>6, <2>8, Sizes DEF Pic, BufType
    <2> QED BY <2>9 DEF LineOf
  <1> QED BY <1>1, WindowInvariant, PTL

(* The line square_copy writes is one whose content is elsewhere. *)
LEMMA TargetIsElsewhere ==
    ASSUME WindowInv, OverRows, copy # NoCopy
    PROVE  rows[copy.dst + line] # copy.dst + line
  <1>1. rows \in BufType(Height) /\ goalRows \in BufType(Height) /\ copy \in BlockType
        /\ line \in 0 .. copy.n - 1
    BY DEF WindowInv, TypeInv, RowsInv
  <1> DEFINE x == copy.dst + line
  <1>2. pc = "rows up" => rows[x] # x
    <2>a. SUFFICES ASSUME pc = "rows up" PROVE rows[x] # x
      OBVIOUS
    <2>1. /\ TurnRight(goalRows, Height, turn) /\ k \in 0 .. turn
          /\ BufIs(rows, goalRows, Height, UpDone(k)) /\ UpBlock(goalRows, turn, k, copy)
      BY <2>a DEF WindowInv, RowsInv, UpInv
    <2>2. turn \in Lines(Height) /\ k \in Nat /\ line \in Nat
      <3>1. turn \in Lines(Height)
        BY <2>1 DEF TurnRight
      <3>2. k \in Nat
        BY <2>1, <3>1, Sizes DEF Lines
      <3>3. line \in Nat
        BY <1>1
      <3> QED BY <3>1, <3>2, <3>3
    <2>3. k + line \in Lines(Height) /\ x = k + line /\ goalRows[k + line] > k + line
      BY <1>1, <2>1, <2>2, PlaceUp, Sizes
    <2>4. k + line \notin UpDone(k)
      BY <2>2 DEF UpDone, Lines
    <2>5. rows[k + line] = goalRows[k + line]
      BY <2>1, <2>3, <2>4 DEF BufIs
    <2> HIDE DEF x
    <2>6. k + line \in Int
      BY <2>2
    <2> QED BY <2>3, <2>5, <2>6
  <1>3. pc = "rows down" => rows[x] # x
    <2>a. SUFFICES ASSUME pc = "rows down" PROVE rows[x] # x
      OBVIOUS
    <2>1. /\ TurnRight(goalRows, Height, turn) /\ k \in turn - 1 .. Height - 1
          /\ BufIs(rows, goalRows, Height, DownDone(Height, turn, k))
          /\ DownBlock(goalRows, turn, k, copy)
      BY <2>a DEF WindowInv, RowsInv, DownInv
    <2>2. turn \in Lines(Height) /\ k \in turn .. Height - 1
      <3>1. turn \in Lines(Height)
        BY <2>1 DEF TurnRight
      <3>2. turn \in Int /\ k \in turn - 1 .. Height - 1 /\ k \in Int
        BY <2>1, <3>1, Sizes DEF Lines
      <3>3. k >= turn
        <4> DEFINE d == copy.dst
                   m == copy.n
        <4>1. d \in Int /\ m \in Int /\ d >= turn /\ m >= 1 /\ d + m - 1 = k
          BY <1>1, <2>1 DEF DownBlock, BlockType
        <4> HIDE DEF d, m
        <4> QED BY <3>2, <4>1
      <3> QED BY <3>1, <3>2, <3>3, Sizes
    <2>3. x \in Lines(Height) /\ goalRows[x] < x
      BY <1>1, <2>1, <2>2, PlaceDown, Sizes
    <2>4. x \in copy.dst .. k /\ copy.dst \in turn .. k
      <3>1. /\ copy.dst \in turn .. k /\ copy.n \in Nat /\ copy.dst + copy.n - 1 = k
        BY <1>1, <2>1, <2>2, DownBounds, Sizes
      <3> QED BY <1>1, <2>2, <3>1, Sizes DEF Lines
    <2>5. x \notin DownDone(Height, turn, k)
      BY <2>2, <2>4, Sizes DEF DownDone, Lines
    <2>6. rows[x] = goalRows[x]
      BY <2>1, <2>3, <2>5 DEF BufIs
    <2>7. x \in Int
      BY <2>3, Sizes DEF Lines
    <2> HIDE DEF x
    <2> QED BY <2>3, <2>6, <2>7
  <1> QED BY <1>2, <1>3 DEF OverRows

(* While the rows move, one that is in its place is not touched: what is   *)
(* visible and right is never used as room for something else.            *)
THEOREM InPlaceIsKept == Spec => InPlaceKept
  <1> DEFINE Kept == \A r \in RowNos : OverRows /\ rows[r] = r => screen'[r] = screen[r]
  <1>1. WindowInv /\ [Next]_vars => [Kept]_vars
    <2> SUFFICES ASSUME WindowInv, Next, NEW r \in RowNos, OverRows, rows[r] = r
                 PROVE  screen'[r] = screen[r]
      BY DEF Kept
    <2>1. CASE screen' = screen
      BY <2>1
    <2>2. CASE CopyRowLine
      <3>1. /\ screen' = [screen EXCEPT ![copy.dst + line] = screen[copy.src + line]]
            /\ copy # NoCopy
        BY <2>2 DEF CopyRowLine, Target
      <3>2. screen \in [RowNos -> [ColNos -> RowNos \X ColNos]]
        BY DEF WindowInv, TypeInv
      <3>3. rows[copy.dst + line] # copy.dst + line
        BY <3>1, TargetIsElsewhere
      <3> QED BY <3>1, <3>2, <3>3
    <2>3. pc # "moved" /\ pc # "idle" /\ (Next => screen' = screen \/ CopyRowLine)
      BY DEF Next, OverRows, MoveRectangles, RowsUp, RowsDown, ColsLeft, ColsRight, CopyColLine,
             DisplayCells, ScrollRows, ScrollCells, InvalidateRows, InvalidateCellCols
    <2> QED BY <2>1, <2>2, <2>3
  <1> QED BY <1>1, WindowInvariant, PTL DEF Spec, InPlaceKept, Kept
=============================================================================
