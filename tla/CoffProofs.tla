----------------------------- MODULE CoffProofs -----------------------------
(***************************************************************************)
(* Proofs about Coff for every object, every list of symbols, and wherever *)
(* the reading or the writing fails: a relocation that is added finds a    *)
(* slot of its own, the file that is written is whole, and the program     *)
(* linked from it reaches every replacement.                               *)
(***************************************************************************)
EXTENDS Coff, FiniteSetTheorems, SequenceTheorems, WellFoundedInduction, TLAPS

LEMMA LeastNat ==
    ASSUME NEW S \in SUBSET Nat, S # {}
    PROVE  \E x \in S : \A y \in S : ~(y < x)
  <1>1. PICK x \in S : \A y \in S : ~ (<<y, x>> \in OpToRel(<, Nat))
    BY WFMin, NatLessThanWellFounded
  <1>2. \A y \in S : ~(y < x)
    BY <1>1 DEF OpToRel
  <1> QED BY <1>2

LEMMA SameEnd == ASSUME NEW a \in Nat, NEW b \in Nat, 1 .. a = 1 .. b PROVE a = b
  <1>1. a < b => b \in 1 .. b /\ b \notin 1 .. a
    OBVIOUS
  <1>2. b < a => a \in 1 .. a /\ a \notin 1 .. b
    OBVIOUS
  <1> QED BY <1>1, <1>2

LEMMA ChangedSeq ==
    ASSUME NEW S, NEW q \in Seq(S), NEW k, NEW x \in S
    PROVE  /\ [q EXCEPT ![k] = x] \in Seq(S)
           /\ Len([q EXCEPT ![k] = x]) = Len(q)
           /\ \A m \in 1 .. Len(q) : [q EXCEPT ![k] = x][m] = IF m = k THEN x ELSE q[m]
  <1>1. Len(q) \in Nat /\ q \in [1 .. Len(q) -> S]
    BY LenProperties
  <1> DEFINE v == [q EXCEPT ![k] = x]
  <1>2. v \in [1 .. Len(q) -> S] /\ \A m \in 1 .. Len(q) : v[m] = IF m = k THEN x ELSE q[m]
    BY <1>1
  <1>3. v \in Seq(S)
    BY <1>1, <1>2, SeqDef
  <1> HIDE DEF v
  <1>4. Len(v) \in Nat /\ DOMAIN v = 1 .. Len(v) /\ DOMAIN v = 1 .. Len(q)
    BY <1>2, <1>3, LenProperties
  <1>5. Len(v) = Len(q)
    BY <1>1, <1>4, SameEnd
  <1> QED BY <1>2, <1>3, <1>5 DEF v

-----------------------------------------------------------------------------
(* What the first sections have together. *)

LEMMA TotalTurns ==
    ASSUME NEW k \in Nat, NEW size \in [1 .. k -> Nat]
    PROVE  /\ Total(size) \in [0 .. k -> Nat]
           /\ Total(size)[0] = 0
           /\ \A s \in 1 .. k : Total(size)[s] = Total(size)[s - 1] + size[s]
  <1> DEFINE Turn(t, s) == IF s = 0 THEN 0 ELSE t[s - 1] + size[s]
             IsSum(t, m) == t \in [0 .. m -> Nat] /\ \A s \in 0 .. m : t[s] = Turn(t, s)
             Bad == {m \in 0 .. k : \A t : ~IsSum(t, m)}
  <1>1. Bad = {}
    <2> SUFFICES ASSUME Bad # {} PROVE FALSE
      OBVIOUS
    <2>0. Bad \in SUBSET Nat
      OBVIOUS
    <2>1. PICK m \in Bad : \A y \in Bad : ~(y < m)
      BY <2>0, LeastNat
    <2>2. CASE m = 0
      <3>1. IsSum([s \in 0 .. 0 |-> 0], 0)
        OBVIOUS
      <3> QED BY <2>1, <2>2, <3>1
    <2>3. CASE m > 0
      <3>0. m \in 0 .. k
        BY <2>1
      <3>1. m - 1 \in 0 .. k /\ m \in 1 .. k /\ m - 1 \notin Bad
        <4>1. m - 1 \in 0 .. k /\ m \in 1 .. k /\ m - 1 < m
          BY <2>3, <3>0
        <4> HIDE DEF Bad
        <4> QED BY <2>1, <4>1
      <3>2. PICK t : IsSum(t, m - 1)
        BY <3>1
      <3> DEFINE v == [s \in 0 .. m |-> IF s = m THEN t[m - 1] + size[m] ELSE t[s]]
      <3>3. v \in [0 .. m -> Nat]
        BY <3>1, <3>2, SMTT(30)
      <3>4. ASSUME NEW s \in 0 .. m PROVE v[s] = Turn(v, s)
        <4>1. CASE s = m
          <5>1. m # 0 /\ m - 1 \in 0 .. m /\ m - 1 # m
            BY <3>0, <2>3
          <5>2. v[m] = t[m - 1] + size[m] /\ v[m - 1] = t[m - 1]
            BY <3>0, <5>1
          <5> QED BY <4>1, <5>1, <5>2
        <4>2. CASE s # m
          <5>1. s \in 0 .. m - 1 /\ (s # 0 => s - 1 \in 0 .. m /\ s - 1 # m)
            BY <3>0, <4>2
          <5>2. v[s] = t[s] /\ (s # 0 => v[s - 1] = t[s - 1])
            BY <4>2, <5>1
          <5>3. t[s] = Turn(t, s)
            BY <3>2, <5>1
          <5> QED BY <5>2, <5>3
        <4> QED BY <4>1, <4>2
      <3> QED BY <2>1, <3>3, <3>4
    <2> QED BY <2>1, <2>2, <2>3
  <1>2. PICK t : IsSum(t, k)
    <2>1. k \in 0 .. k
      OBVIOUS
    <2> QED BY <1>1, <2>1
  <1>3. {0} \cup DOMAIN size = 0 .. k
    OBVIOUS
  <1>4. t = [s \in 0 .. k |-> Turn(t, s)]
    BY <1>2
  <1>5. Total(size) = CHOOSE u : u = [s \in 0 .. k |-> Turn(u, s)]
    BY <1>3 DEF Total
  <1>6. Total(size) = [s \in 0 .. k |-> Turn(Total(size), s)]
    BY <1>4, <1>5
  <1> DEFINE T == Total(size)
  <1>7. T = [s \in 0 .. k |-> Turn(T, s)]
    BY <1>6
  <1> HIDE DEF T
  <1>8. T[0] = 0 /\ \A s \in 1 .. k : T[s] = T[s - 1] + size[s]
    BY <1>7
  <1>9. \A s \in 0 .. k : T[s] \in Nat
    <2> DEFINE Wrong == {s \in 0 .. k : T[s] \notin Nat}
    <2> SUFFICES ASSUME Wrong # {} PROVE FALSE
      OBVIOUS
    <2>0. Wrong \in SUBSET Nat
      OBVIOUS
    <2>1. PICK s \in Wrong : \A y \in Wrong : ~(y < s)
      BY <2>0, LeastNat
    <2>2. CASE s = 0
      BY <1>8, <2>1, <2>2
    <2>3. CASE s > 0
      <3>1. s - 1 \in 0 .. k /\ s \in 1 .. k /\ s - 1 \notin Wrong
        BY <2>1, <2>3
      <3> QED BY <1>8, <2>1, <3>1
    <2> QED BY <2>1, <2>2, <2>3
  <1>10. T \in [0 .. k -> Nat]
    BY <1>7, <1>9
  <1> QED BY <1>8, <1>10 DEF T

LEMMA TotalGrows ==
    ASSUME NEW k \in Nat, NEW size \in [1 .. k -> Nat],
           NEW a \in 0 .. k, NEW b \in 0 .. k, a <= b
    PROVE  Total(size)[a] <= Total(size)[b]
  <1> DEFINE T == Total(size)
             Bad == {y \in a .. k : T[a] > T[y]}
  <1>1. /\ T \in [0 .. k -> Nat]
        /\ \A s \in 1 .. k : T[s] = T[s - 1] + size[s]
    BY TotalTurns
  <1> HIDE DEF T
  <1>2. Bad = {}
    <2> SUFFICES ASSUME Bad # {} PROVE FALSE
      OBVIOUS
    <2>0. Bad \in SUBSET Nat
      OBVIOUS
    <2>1. PICK y \in Bad : \A z \in Bad : ~(z < y)
      BY <2>0, LeastNat
    <2>2. y # a
      BY <1>1, <2>1
    <2>3. y - 1 \in a .. k /\ y \in 1 .. k /\ y - 1 \notin Bad
      BY <2>1, <2>2
    <2>4. T[a] <= T[y - 1] /\ T[y] = T[y - 1] + size[y]
      BY <1>1, <2>3
    <2>5. T[a] \in Nat /\ T[y - 1] \in Nat /\ size[y] \in Nat
      BY <1>1, <2>3
    <2> QED BY <2>1, <2>4, <2>5
  <1>3. T[b] \in Nat /\ T[a] \in Nat /\ b \in a .. k
    BY <1>1
  <1>4. ~(T[a] > T[b])
    BY <1>2, <1>3
  <1> QED BY <1>3, <1>4 DEF T

(* Every byte of a row of tables is in one of them. *)
LEMMA TotalCovers ==
    ASSUME NEW k \in Nat, NEW size \in [1 .. k -> Nat], NEW byte \in Nat, byte < Total(size)[k]
    PROVE  \E s \in 1 .. k : /\ Total(size)[s - 1] <= byte
                             /\ byte < Total(size)[s - 1] + size[s]
  <1> DEFINE T == Total(size)
             Above == {s \in 0 .. k : byte < T[s]}
  <1>1. /\ T \in [0 .. k -> Nat] /\ T[0] = 0
        /\ \A s \in 1 .. k : T[s] = T[s - 1] + size[s]
    BY TotalTurns
  <1>2. byte < T[k]
    OBVIOUS
  <1> HIDE DEF T
  <1>3. Above \in SUBSET Nat /\ Above # {}
    BY <1>2
  <1>4. PICK s \in Above : \A y \in Above : ~(y < s)
    BY <1>3, LeastNat
  <1>5. s # 0
    BY <1>1, <1>4
  <1>6. s \in 1 .. k /\ s - 1 \in 0 .. k /\ s - 1 \notin Above
    BY <1>4, <1>5
  <1>7. T[s - 1] <= byte /\ byte < T[s - 1] + size[s]
    BY <1>1, <1>4, <1>6
  <1> QED BY <1>6, <1>7 DEF T

(* Tables of a row, one after the other from base, share no byte. *)
LEMMA RowDisjoint ==
    ASSUME NEW k \in Nat, NEW size \in [1 .. k -> Nat], NEW base \in Nat,
           NEW s \in 1 .. k, NEW t \in 1 .. k, s # t
    PROVE  \/ base + Total(size)[s - 1] + size[s] <= base + Total(size)[t - 1]
           \/ base + Total(size)[t - 1] + size[t] <= base + Total(size)[s - 1]
  <1>0. PICK T : T = Total(size)
    OBVIOUS
  <1>1. /\ T \in [0 .. k -> Nat]
        /\ T[s] = T[s - 1] + size[s] /\ T[t] = T[t - 1] + size[t]
    BY <1>0, TotalTurns
  <1>2. s < t => T[s] <= T[t - 1]
    BY <1>0, TotalGrows
  <1>3. t < s => T[t] <= T[s - 1]
    BY <1>0, TotalGrows
  <1>4. T[s - 1] \in Nat /\ T[t - 1] \in Nat /\ size[s] \in Nat /\ size[t] \in Nat
    BY <1>1
  <1>5. ASSUME NEW a \in Nat, NEW b \in Nat, NEW c \in Nat, a + b <= c
        PROVE  base + a + b <= base + c
    BY <1>5
  <1>6. CASE s < t
    <2>1. T[s - 1] + size[s] <= T[t - 1]
      BY <1>1, <1>2, <1>6
    <2>2. base + T[s - 1] + size[s] <= base + T[t - 1]
      BY <1>4, <1>5, <2>1
    <2> QED BY <1>0, <2>2
  <1>7. CASE t < s
    <2>1. T[t - 1] + size[t] <= T[s - 1]
      BY <1>1, <1>3, <1>7
    <2>2. base + T[t - 1] + size[t] <= base + T[s - 1]
      BY <1>4, <1>5, <2>1
    <2> QED BY <1>0, <2>2
  <1>8. s < t \/ t < s
    OBVIOUS
  <1> QED BY <1>6, <1>7, <1>8

(* A table of a row lies within it. *)
LEMMA RowBounds ==
    ASSUME NEW k \in Nat, NEW size \in [1 .. k -> Nat], NEW s \in 1 .. k
    PROVE  /\ Total(size)[s - 1] \in Nat /\ Total(size)[k] \in Nat /\ size[s] \in Nat
           /\ Total(size)[s - 1] + size[s] <= Total(size)[k]
  <1> DEFINE T == Total(size)
  <1>1. T \in [0 .. k -> Nat] /\ T[s] = T[s - 1] + size[s]
    BY TotalTurns
  <1>2. T[s] <= T[k]
    BY TotalGrows
  <1>3. T[s - 1] \in Nat /\ T[k] \in Nat /\ size[s] \in Nat
    BY <1>1
  <1> HIDE DEF T
  <1> QED BY <1>1, <1>2, <1>3 DEF T

(* Tables one after the other from base, the one of section s tagged with s. *)
Table(base, size, tag, s) == Region(base + Total(size)[s - 1], size[s], <<tag, s>>)

LEMMA RowPair ==
    ASSUME NEW k \in Nat, NEW size \in [1 .. k -> Nat], NEW base \in Nat, NEW tag,
           NEW s \in 1 .. k, NEW t \in 1 .. k
    PROVE  \/ Table(base, size, tag, s) = Table(base, size, tag, t)
           \/ Disjoint(Table(base, size, tag, s), Table(base, size, tag, t))
  <1>1. CASE s = t
    BY <1>1
  <1>2. CASE s # t
    <2>1. \/ base + Total(size)[s - 1] + size[s] <= base + Total(size)[t - 1]
          \/ base + Total(size)[t - 1] + size[t] <= base + Total(size)[s - 1]
      BY <1>2, RowDisjoint
    <2> QED BY <2>1 DEF Disjoint, Table, Region
  <1> QED BY <1>1, <1>2

(* Where a region lies. *)
Within(r, first, end) ==
    /\ r.at \in Nat /\ r.len \in Nat
    /\ first <= r.at /\ r.at + r.len <= end

LEMMA RowWithin ==
    ASSUME NEW k \in Nat, NEW size \in [1 .. k -> Nat], NEW base \in Nat, NEW tag, NEW s \in 1 .. k
    PROVE  Within(Table(base, size, tag, s), base, base + Total(size)[k])
  <1>1. /\ Total(size)[s - 1] \in Nat /\ Total(size)[k] \in Nat /\ size[s] \in Nat
        /\ Total(size)[s - 1] + size[s] <= Total(size)[k]
    BY RowBounds
  <1>2. PICK a, b, c : a = Total(size)[s - 1] /\ b = size[s] /\ c = Total(size)[k]
    OBVIOUS
  <1>3. a \in Nat /\ b \in Nat /\ c \in Nat /\ a + b <= c
    BY <1>1, <1>2
  <1>4. base + a \in Nat /\ base <= base + a /\ base + a + b <= base + c
    BY <1>3
  <1> QED BY <1>2, <1>3, <1>4 DEF Within, Table, Region

LEMMA RowCovers ==
    ASSUME NEW k \in Nat, NEW size \in [1 .. k -> Nat], NEW base \in Nat, NEW tag,
           NEW byte \in Nat, base <= byte, byte < base + Total(size)[k]
    PROVE  \E s \in 1 .. k :
              /\ size[s] # 0
              /\ Table(base, size, tag, s).at <= byte
              /\ byte < Table(base, size, tag, s).at + Table(base, size, tag, s).len
  <1>1. Total(size) \in [0 .. k -> Nat]
    BY TotalTurns
  <1>2. Total(size)[k] \in Nat
    BY <1>1
  <1>3. byte - base \in Nat /\ byte - base < Total(size)[k]
    BY <1>2
  <1>4. PICK s \in 1 .. k : /\ Total(size)[s - 1] <= byte - base
                            /\ byte - base < Total(size)[s - 1] + size[s]
    BY <1>3, TotalCovers
  <1>5. Total(size)[s - 1] \in Nat /\ size[s] \in Nat
    BY RowBounds
  <1>6. size[s] # 0 /\ base + Total(size)[s - 1] <= byte /\ byte < base + Total(size)[s - 1] + size[s]
    BY <1>4, <1>5
  <1> QED BY <1>6 DEF Table, Region

LEMMA ApartInBands ==
    ASSUME NEW r, NEW q, NEW a, NEW b \in Nat, NEW c \in Nat, NEW d,
           Within(r, a, b), Within(q, c, d), b <= c
    PROVE  Disjoint(r, q) /\ Disjoint(q, r)
  BY DEF Within, Disjoint

(* The elements of a concatenation. *)
Elements(q) == { q[k] : k \in DOMAIN q }

LEMMA ElementsConcat ==
    ASSUME NEW S, NEW p \in Seq(S), NEW q \in Seq(S)
    PROVE  Elements(p \o q) = Elements(p) \cup Elements(q)
  <1>1. /\ p \o q \in Seq(S) /\ Len(p \o q) = Len(p) + Len(q)
        /\ \A k \in 1 .. Len(p) + Len(q) : (p \o q)[k] = IF k <= Len(p) THEN p[k] ELSE q[k - Len(p)]
    BY ConcatProperties
  <1>2. /\ Len(p) \in Nat /\ Len(q) \in Nat
        /\ DOMAIN p = 1 .. Len(p) /\ DOMAIN q = 1 .. Len(q)
        /\ DOMAIN (p \o q) = 1 .. Len(p) + Len(q)
    BY <1>1, LenProperties
  <1> DEFINE pq == p \o q
  <1> HIDE DEF pq
  <1>3. ASSUME NEW k \in DOMAIN pq PROVE pq[k] \in Elements(p) \cup Elements(q)
    <2>1. k \in 1 .. Len(p) + Len(q) /\ pq[k] = IF k <= Len(p) THEN p[k] ELSE q[k - Len(p)]
      BY <1>1, <1>2 DEF pq
    <2>2. k <= Len(p) => k \in 1 .. Len(p)
      BY <1>2, <2>1
    <2>3. ~(k <= Len(p)) => k - Len(p) \in 1 .. Len(q)
      BY <1>2, <2>1
    <2> QED BY <1>2, <2>1, <2>2, <2>3 DEF Elements
  <1>4. ASSUME NEW k \in DOMAIN p PROVE p[k] \in Elements(pq)
    <2>1. k \in 1 .. Len(p) + Len(q) /\ k <= Len(p)
      BY <1>2
    <2>2. pq[k] = p[k] /\ k \in DOMAIN pq
      BY <1>1, <1>2, <2>1 DEF pq
    <2> QED BY <2>2 DEF Elements
  <1>5. ASSUME NEW k \in DOMAIN q PROVE q[k] \in Elements(pq)
    <2>1. k + Len(p) \in 1 .. Len(p) + Len(q) /\ ~(k + Len(p) <= Len(p)) /\ k + Len(p) - Len(p) = k
      BY <1>2
    <2>2. pq[k + Len(p)] = q[k] /\ k + Len(p) \in DOMAIN pq
      BY <1>1, <1>2, <2>1 DEF pq
    <2> QED BY <2>2 DEF Elements
  <1>6. Elements(pq) = Elements(p) \cup Elements(q)
    BY <1>3, <1>4, <1>5 DEF Elements
  <1> QED BY <1>6 DEF pq

-----------------------------------------------------------------------------
(* Types, and which section a step is about. *)

Header == [name : STRING, vaddr : Nat, size : Nat, nlnno : Nat,
           nreloc : Nat, scnptr : Nat, relptr : Nat, lnnoptr : Nat]
Symbol == [name : STRING, scnum : Int, sclass : Classes, value : Nat, numaux : Nat]
Jump   == [value : Nat, symndx : Nat, scnum : Int]
Reloc  == [vaddr : Nat, symndx : Nat, type : RelocTypes]

Reading == {"open", "symbols"}
InScn   == {"relocs", "jumps"}
AllRead == {"layout", "write", "done"}

Unread(s) ==
    \/ pc \in Reading
    \/ pc \in {"section", "relocs"} /\ s >= i
    \/ pc = "jumps" /\ s > i

TypeInv ==
    /\ obj \in Objects
    /\ symtab \in [DOMAIN obj.symbols -> Symbol]
    /\ mk \in Seq(Jump)
    /\ scn \in [Sections -> Header]
    /\ relocs \in [Sections -> Seq(Reloc)]
    /\ i \in Nat /\ n \in Nat /\ symptr \in Nat
    /\ pc \in Reading \cup {"section"} \cup InScn \cup AllRead \cup {"failed"}
    /\ pc \in InScn => i \in Sections /\ n # 0
    /\ pc \in {"section", "layout", "write"} => i \in 1 .. LastScn + 1
    /\ \A s \in Sections : Unread(s) => scn[s].nreloc = Len(obj.relocs[s])

(* The rows of tables in the output: data, relocations, line numbers. *)
DataEnd   == Headers + Total(DataSize)[LastScn]
RelocsEnd == DataEnd + Total(RelocsSize)[LastScn]
LinesEnd  == RelocsEnd + Total(LinesSize)[LastScn]

Placed(s) ==
    IF scn[s].size = 0 THEN scn[s].nreloc = 0 /\ scn[s].nlnno = 0
    ELSE /\ scn[s].scnptr = ScnPtr(s)
         /\ scn[s].nreloc # 0 => scn[s].relptr = RelPtr(s)
         /\ scn[s].nlnno # 0 => scn[s].lnnoptr = LnnoPtr(s)

HeaderTable == Region(0, Headers, "headers")
DataTable(s)  == Region(scn[s].scnptr, DataSize[s], <<"data", s>>)
RelocTable(s) == Region(scn[s].relptr, RelocsSize[s], <<"relocs", s>>)
LineTable(s)  == Region(scn[s].lnnoptr, LinesSize[s], <<"lines", s>>)
SymbolTable   == Region(symptr, NSyms * SymSize, "symbols")
StringTable   == Region(symptr + NSyms * SymSize, obj.strtabsz, "strings")

TablesOf(s) ==
    { r \in {DataTable(s)} : scn[s].size # 0 }
      \cup { r \in {RelocTable(s)} : scn[s].nreloc # 0 }
      \cup { r \in {LineTable(s)} : scn[s].nlnno # 0 }
Tables(k) == {HeaderTable} \cup UNION { TablesOf(s) : s \in 1 .. k }

LayoutInv ==
    /\ pc = "layout" =>
          /\ \A s \in 1 .. i - 1 : Placed(s)
          /\ symptr = Headers + Total(DataSize)[i - 1] + Total(RelocsSize)[i - 1]
                              + Total(LinesSize)[i - 1]
    /\ pc \in {"write", "done"} => symptr = LinesEnd /\ \A s \in Sections : Placed(s)
    /\ pc = "write" => out = Tables(i - 1)
    /\ pc = "done" /\ NSyms # 0 =>
          /\ out = Tables(LastScn) \cup {SymbolTable, StringTable}
          /\ pos = symptr + NSyms * SymSize + obj.strtabsz

(* The array of a section that was read: room for a jump to each static    *)
(* symbol, of which those that were made follow the relocations read.      *)
Filled(s) ==
    /\ Len(relocs[s]) = Len(obj.relocs[s]) + Len(mk)
    /\ Len(obj.relocs[s]) <= scn[s].nreloc
    /\ \A r \in 1 .. Len(relocs[s]) : (relocs[s][r] = EmptySlot) <=> r > scn[s].nreloc
    /\ \A r \in 1 .. Len(obj.relocs[s]) : relocs[s][r] = obj.relocs[s][r]

SlotInv ==
    /\ pc = "relocs" =>
          /\ n <= Len(obj.relocs[i]) + 1
          /\ Len(relocs[i]) = Len(obj.relocs[i]) + Len(mk)
          /\ \A r \in 1 .. Len(relocs[i]) : (relocs[i][r] = EmptySlot) <=> r >= n
          /\ \A r \in 1 .. n - 1 : relocs[i][r] = obj.relocs[i][r]
    /\ pc = "jumps" =>
          Filled(i) /\ n <= Len(mk) + 1 /\ scn[i].nreloc <= Len(obj.relocs[i]) + n - 1
    /\ \A s \in Sections :
          pc \in AllRead \/ (pc \in {"section"} \cup InScn /\ s < i) => Filled(s)

(* The static symbols of the list: each adds at most one jump. *)
Statics(o) ==
    { k \in DOMAIN o.symbols :
        /\ o.symbols[k].sclass = "STAT"
        /\ \E c \in DOMAIN o.args : o.args[c] = o.symbols[k].name }
StaticsBefore(k) == { j \in Statics(obj) : j < k }

MarksInv ==
    /\ Len(mk) <= Cardinality(Statics(obj))
    /\ pc \in Reading =>
          /\ Len(mk) <= Cardinality(StaticsBefore(i))
          /\ \A k \in DOMAIN obj.symbols : k >= i => symtab[k] = obj.symbols[k]

(* The header of a section can count its relocations and the jumps.        *)
CountsFit ==
    \A o \in Objects : \A s \in DOMAIN o.sections :
        Len(o.relocs[s]) + Cardinality(Statics(o)) < CountLimit

LEMMA ObjFacts ==
    ASSUME obj \in Objects
    PROVE  /\ LastScn \in Nat /\ Sections = 1 .. LastScn
           /\ obj.sections \in Seq([name : STRING, vaddr : Nat, size : Nat, nlnno : Nat])
           /\ \A s \in Sections : obj.relocs[s] \in Seq(Reloc) /\ Len(obj.relocs[s]) \in Nat
           /\ NSyms \in Nat /\ DOMAIN obj.symbols = 0 .. NSyms - 1
           /\ obj.symbols \in [DOMAIN obj.symbols -> Symbol]
           /\ obj.strtabsz \in Nat /\ Headers \in Nat
  <1>1. obj.sections \in Seq([name : STRING, vaddr : Nat, size : Nat, nlnno : Nat])
    BY ObjectsAssumption
  <1>2. LastScn \in Nat /\ Sections = 1 .. LastScn /\ DOMAIN obj.sections = 1 .. LastScn
    BY <1>1, LenProperties DEF LastScn, Sections
  <1>3. obj.relocs \in [DOMAIN obj.sections -> Seq(Reloc)]
    BY ObjectsAssumption DEF Reloc
  <1>4. \A s \in Sections : obj.relocs[s] \in Seq(Reloc)
    BY <1>2, <1>3
  <1>5. \A s \in Sections : Len(obj.relocs[s]) \in Nat
    BY <1>4, LenProperties
  <1>6. IsFiniteSet(DOMAIN obj.symbols) /\ DOMAIN obj.symbols = 0 .. NSyms - 1
    BY ObjectsAssumption DEF NSyms
  <1>7. NSyms \in Nat
    BY <1>6, FS_CardinalityType DEF NSyms
  <1>8. obj.strtabsz \in Nat
    BY ObjectsAssumption
  <1>9. Headers \in Nat
    BY <1>2 DEF Headers, HdrSize, OptSize, ScnSize
  <1>10. obj.symbols \in [DOMAIN obj.symbols -> Symbol]
    BY ObjectsAssumption DEF Symbol
  <1> QED BY <1>1, <1>2, <1>4, <1>5, <1>6, <1>7, <1>8, <1>9, <1>10

LEMMA TypesStart == Init => TypeInv
  <1> SUFFICES ASSUME Init PROVE TypeInv
    OBVIOUS
  <1>1. obj \in Objects /\ symtab = obj.symbols /\ mk = <<>> /\ pc = "open"
    BY DEF Init
  <1>2. /\ LastScn \in Nat /\ Sections = 1 .. LastScn
        /\ obj.sections \in Seq([name : STRING, vaddr : Nat, size : Nat, nlnno : Nat])
        /\ \A s \in Sections : Len(obj.relocs[s]) \in Nat
        /\ obj.symbols \in [DOMAIN obj.symbols -> Symbol]
    BY <1>1, ObjFacts
  <1>3. \A s \in Sections : obj.sections[s] \in [name : STRING, vaddr : Nat, size : Nat, nlnno : Nat]
    BY <1>2, ElementOfSeq DEF LastScn
  <1>4. scn \in [Sections -> Header] /\ \A s \in Sections : scn[s].nreloc = Len(obj.relocs[s])
    BY <1>2, <1>3 DEF Init, Header
  <1>5. relocs \in [Sections -> Seq(Reloc)]
    BY EmptySeq DEF Init
  <1>6. mk \in Seq(Jump)
    BY <1>1, EmptySeq
  <1>7. i \in Nat /\ n \in Nat /\ symptr \in Nat
    BY DEF Init
  <1> QED BY <1>1, <1>2, <1>4, <1>5, <1>6, <1>7 DEF TypeInv, Reading, InScn

(* A step that turns to another symbol, section, relocation or jump.       *)
tablesVars == <<obj, symtab, mk, scn, relocs>>

LEMMA TurnKeepsTypes ==
    ASSUME TypeInv, UNCHANGED tablesVars,
           i' \in Nat, n' \in Nat, symptr' \in Nat,
           pc' \in Reading \cup {"section"} \cup InScn \cup AllRead \cup {"failed"},
           pc' \in InScn => i' \in Sections /\ n' # 0,
           pc' \in {"section", "layout", "write"} => i' \in 1 .. LastScn + 1,
           \A s \in Sections : Unread(s)' => Unread(s)
    PROVE  TypeInv'
  BY DEF TypeInv, tablesVars, Sections, LastScn

LEMMA OpenTypes == ASSUME TypeInv, Open PROVE TypeInv'
  <1>1. UNCHANGED tablesVars /\ UNCHANGED <<i, n, symptr>>
    BY DEF Open, tablesVars, tables, output
  <1>2. pc' \in {"symbols", "failed"} /\ pc = "open"
    BY DEF Open
  <1>3. \A s \in Sections : Unread(s)' => Unread(s)
    BY <1>2 DEF Unread, Reading
  <1> QED BY <1>1, <1>2, <1>3, TurnKeepsTypes DEF TypeInv, Reading, InScn

LEMMA UndefinedSymbol == ASSUME NEW e \in Symbol PROVE Undefined(e) \in Symbol
  <1>1. "EXT" \in Classes /\ 0 \in Int /\ 0 \in Nat
    BY DEF Classes
  <1> QED BY <1>1 DEF Symbol, Undefined

LEMMA SymbolTypes == ASSUME TypeInv, ReadSymbol PROVE TypeInv'
  <1>1. /\ UNCHANGED <<obj, scn, relocs, n, symptr>> /\ pc = "symbols"
        /\ i \in DOMAIN obj.symbols /\ i \in Nat
    <2>1. i < NSyms /\ i \in Nat /\ NSyms \in Nat /\ DOMAIN obj.symbols = 0 .. NSyms - 1
      BY ObjFacts DEF ReadSymbol, TypeInv
    <2> QED BY <2>1 DEF ReadSymbol, tables, output
  <1>2. symtab[i] \in Symbol /\ symtab \in [DOMAIN obj.symbols -> Symbol] /\ mk \in Seq(Jump)
    BY <1>1 DEF TypeInv
  <1>3. CASE pc' = "failed"
    <2>1. UNCHANGED <<symtab, mk, i>>
      BY <1>1, <1>3 DEF ReadSymbol
    <2> QED BY <1>1, <1>3, <2>1 DEF TypeInv, Unread, Reading, InScn, Sections, LastScn
  <1>4. CASE pc' # "failed"
    <2>1. /\ mk' = IF NeedsJump(symtab[i])
                   THEN Append(mk, [value |-> symtab[i].value, symndx |-> i, scnum |-> symtab[i].scnum])
                   ELSE mk
          /\ symtab' = IF Listed(symtab[i].name) THEN [symtab EXCEPT ![i] = Undefined(symtab[i])] ELSE symtab
          /\ i' = i + 1 + symtab[i].numaux /\ pc' = pc
      BY <1>4 DEF ReadSymbol
    <2>2. [value |-> symtab[i].value, symndx |-> i, scnum |-> symtab[i].scnum] \in Jump
      BY <1>1, <1>2 DEF Symbol, Jump
    <2>3. mk' \in Seq(Jump)
      BY <1>2, <2>1, <2>2, AppendProperties
    <2>4. Undefined(symtab[i]) \in Symbol
      BY <1>2, UndefinedSymbol
    <2>5. symtab' \in [DOMAIN obj.symbols -> Symbol]
      BY <1>2, <2>1, <2>4
    <2>6. i' \in Nat
      BY <1>1, <1>2, <2>1 DEF Symbol
    <2> QED BY <1>1, <2>1, <2>3, <2>5, <2>6 DEF TypeInv, Unread, Reading, InScn, Sections, LastScn
  <1> QED BY <1>3, <1>4

LEMMA SymbolsReadTypes == ASSUME TypeInv, SymbolsRead PROVE TypeInv'
  <1>1. UNCHANGED tablesVars /\ UNCHANGED <<n, symptr>> /\ i' = 1
    BY DEF SymbolsRead, tablesVars, tables, output
  <1>2. pc' = "section" /\ pc = "symbols"
    BY DEF SymbolsRead
  <1>3. \A s \in Sections : Unread(s)' => Unread(s)
    BY <1>2 DEF Unread, Reading
  <1>4. 1 \in 1 .. LastScn + 1
    BY ObjFacts DEF TypeInv
  <1> QED BY <1>1, <1>2, <1>3, <1>4, TurnKeepsTypes DEF TypeInv, InScn

LEMMA SectionTypes == ASSUME TypeInv, ReadSection PROVE TypeInv'
  <1>1. /\ UNCHANGED <<obj, symtab, mk, scn, i, symptr>> /\ n' = 1
        /\ i \in Sections /\ pc = "section" /\ pc' = "relocs"
    BY DEF ReadSection, output
  <1>2. relocs' = [relocs EXCEPT ![i] = [r \in 1 .. scn[i].nreloc + Len(mk) |-> EmptySlot]]
    BY DEF ReadSection
  <1>3. scn[i].nreloc \in Nat /\ Len(mk) \in Nat
    BY <1>1, LenProperties DEF TypeInv, Header
  <1>4. EmptySlot \in Reloc
    BY DEF EmptySlot, Reloc, RelocTypes
  <1>5. [r \in 1 .. scn[i].nreloc + Len(mk) |-> EmptySlot] \in Seq(Reloc)
    BY <1>3, <1>4, SeqDef
  <1>6. relocs' \in [Sections -> Seq(Reloc)]
    BY <1>1, <1>2, <1>5 DEF TypeInv
  <1> QED BY <1>1, <1>6 DEF TypeInv, Unread, Reading, InScn, Sections, LastScn

LEMMA RelocStepTypes == ASSUME TypeInv, ReadReloc PROVE TypeInv'
  <1>1. /\ UNCHANGED <<obj, symtab, mk, scn, i, symptr>> /\ pc = "relocs"
        /\ n <= scn[i].nreloc /\ i \in Sections /\ n \in Nat /\ n # 0
    BY DEF ReadReloc, output, TypeInv, InScn
  <1>2. CASE pc' = "failed"
    <2>1. UNCHANGED <<relocs, n>>
      BY <1>1, <1>2 DEF ReadReloc
    <2> QED BY <1>1, <1>2, <2>1 DEF TypeInv, Unread, Reading, InScn, Sections, LastScn
  <1>3. CASE pc' # "failed"
    <2>1. relocs' = [relocs EXCEPT ![i][n] = obj.relocs[i][n]] /\ n' = n + 1 /\ pc' = pc
      BY <1>3 DEF ReadReloc
    <2>2. scn[i].nreloc = Len(obj.relocs[i])
      BY <1>1 DEF TypeInv, Unread
    <2>3. obj.relocs[i] \in Seq(Reloc) /\ n \in 1 .. Len(obj.relocs[i])
      <3>1. obj.relocs[i] \in Seq(Reloc) /\ Len(obj.relocs[i]) \in Nat
        BY <1>1, ObjFacts DEF TypeInv
      <3>2. n \in 1 .. Len(obj.relocs[i])
        BY <1>1, <2>2, <3>1
      <3> QED BY <3>1, <3>2
    <2>4. obj.relocs[i][n] \in Reloc
      BY <2>3, ElementOfSeq
    <2>5. relocs[i] \in Seq(Reloc)
      BY <1>1 DEF TypeInv
    <2>6. [relocs[i] EXCEPT ![n] = obj.relocs[i][n]] \in Seq(Reloc)
      BY <2>4, <2>5, ChangedSeq
    <2>7. relocs' \in [Sections -> Seq(Reloc)]
      BY <1>1, <2>1, <2>6 DEF TypeInv
    <2>8. n' \in Nat /\ n' # 0
      BY <1>1, <2>1
    <2> QED BY <1>1, <2>1, <2>7, <2>8 DEF TypeInv, Unread, Reading, InScn, Sections, LastScn
  <1> QED BY <1>2, <1>3

LEMMA RelocsReadTypes == ASSUME TypeInv, RelocsRead PROVE TypeInv'
  <1>1. UNCHANGED tablesVars /\ UNCHANGED <<i, symptr>> /\ n' = 1
    BY DEF RelocsRead, tablesVars, tables, output
  <1>2. pc' = "jumps" /\ pc = "relocs"
    BY DEF RelocsRead
  <1>3. i \in Sections /\ i \in Nat
    BY <1>2 DEF TypeInv, InScn
  <1>4. \A s \in Sections : Unread(s)' => Unread(s)
    BY <1>1, <1>2, <1>3, ObjFacts DEF Unread, Reading, TypeInv
  <1> QED BY <1>1, <1>2, <1>3, <1>4, TurnKeepsTypes DEF TypeInv, InScn

LEMMA OtherTypes == ASSUME TypeInv, OtherSection PROVE TypeInv'
  <1>1. UNCHANGED tablesVars /\ UNCHANGED <<i, symptr, pc>> /\ n' = n + 1 /\ pc = "jumps"
    BY DEF OtherSection, tablesVars, tables, output
  <1>2. \A s \in Sections : Unread(s)' => Unread(s)
    BY <1>1 DEF Unread
  <1>3. n' \in Nat /\ n' # 0
    BY <1>1 DEF TypeInv
  <1> QED BY <1>1, <1>2, <1>3, TurnKeepsTypes DEF TypeInv, InScn

LEMMA JumpTypes == ASSUME TypeInv, MakeJump PROVE TypeInv'
  <1>1. /\ UNCHANGED <<obj, symtab, mk, i, symptr>> /\ pc = "jumps"
        /\ i \in Sections /\ n \in Nat /\ n # 0 /\ n \in 1 .. Len(mk)
    <2>1. n <= Len(mk) /\ pc = "jumps"
      BY DEF MakeJump
    <2>2. i \in Sections /\ n \in Nat /\ n # 0
      BY <2>1 DEF TypeInv, InScn
    <2>3. Len(mk) \in Nat
      BY LenProperties DEF TypeInv
    <2>4. n \in 1 .. Len(mk)
      BY <2>1, <2>2, <2>3
    <2> QED BY <2>1, <2>2, <2>4 DEF MakeJump, output
  <1>2. CASE pc' = "failed"
    <2>1. UNCHANGED <<scn, relocs, n>>
      BY <1>1, <1>2 DEF MakeJump, tables
    <2> QED BY <1>1, <1>2, <2>1 DEF TypeInv, Unread, Reading, InScn, Sections, LastScn
  <1>3. CASE pc' # "failed"
    <2>1. /\ relocs' = [relocs EXCEPT ![i][FreeSlot] = JumpReloc(mk[n])]
          /\ scn' = [scn EXCEPT ![i].nreloc = (@ + 1) % CountLimit]
          /\ n' = n + 1 /\ pc' = pc
      BY <1>3 DEF MakeJump
    <2>2. mk[n] \in Jump
      BY <1>1, ElementOfSeq DEF TypeInv
    <2>3. JumpReloc(mk[n]) \in Reloc
      BY <2>2 DEF JumpReloc, Reloc, Jump, RelocTypes
    <2>4. relocs[i] \in Seq(Reloc)
      BY <1>1 DEF TypeInv
    <2>5. [relocs[i] EXCEPT ![FreeSlot] = JumpReloc(mk[n])] \in Seq(Reloc)
      BY <2>3, <2>4, ChangedSeq
    <2>6. relocs' \in [Sections -> Seq(Reloc)]
      BY <1>1, <2>1, <2>5 DEF TypeInv
    <2>7. scn[i] \in Header
      BY <1>1 DEF TypeInv
    <2>8. (scn[i].nreloc + 1) % CountLimit \in Nat
      BY <2>7, LimitAssumption DEF Header
    <2>9. scn' = [scn EXCEPT ![i] = [scn[i] EXCEPT !.nreloc = (scn[i].nreloc + 1) % CountLimit]]
      BY <2>1
    <2>10. [scn[i] EXCEPT !.nreloc = (scn[i].nreloc + 1) % CountLimit] \in Header
      BY <2>7, <2>8 DEF Header
    <2>11. scn' \in [Sections -> Header] /\ \A s \in Sections \ {i} : scn'[s] = scn[s]
      BY <1>1, <2>9, <2>10 DEF TypeInv
    <2>12. n' \in Nat /\ n' # 0
      BY <1>1, <2>1
    <2>13. \A s \in Sections : Unread(s)' => Unread(s) /\ s # i
      BY <1>1, <2>1, ObjFacts DEF Unread, Reading, InScn, TypeInv
    <2>14. \A s \in Sections : Unread(s)' => scn'[s].nreloc = Len(obj.relocs[s])
      BY <2>11, <2>13 DEF TypeInv
    <2> QED BY <1>1, <2>1, <2>6, <2>11, <2>12, <2>14 DEF TypeInv, Reading, InScn, Sections, LastScn
  <1> QED BY <1>2, <1>3

LEMMA LinesTypes == ASSUME TypeInv, ReadLines PROVE TypeInv'
  <1>1. UNCHANGED tablesVars /\ UNCHANGED <<n, symptr>> /\ i' = i + 1
    BY DEF ReadLines, tablesVars, tables, output
  <1>2. pc' = "section" /\ pc = "jumps"
    BY DEF ReadLines
  <1>3. i \in Sections /\ i \in Nat
    BY <1>2 DEF TypeInv, InScn
  <1>4. i' \in Nat /\ i' \in 1 .. LastScn + 1 /\ \A s \in Sections : s >= i' => s > i
    <2>1. LastScn \in Nat /\ Sections = 1 .. LastScn
      BY ObjFacts DEF TypeInv
    <2>2. i' = i + 1
      BY <1>1
    <2> QED BY <1>3, <2>1, <2>2
  <1>5. \A s \in Sections : Unread(s)' => Unread(s)
    BY <1>2, <1>4 DEF Unread, Reading
  <1> QED BY <1>1, <1>2, <1>4, <1>5, TurnKeepsTypes DEF TypeInv, InScn

LEMMA StartTypes == ASSUME TypeInv, StartLayout PROVE TypeInv'
  <1>1. UNCHANGED tablesVars /\ UNCHANGED n /\ i' = 1 /\ symptr' = Headers
    BY DEF StartLayout, tablesVars, tables
  <1>2. pc' = "layout"
    BY DEF StartLayout
  <1>3. i' \in 1 .. LastScn + 1 /\ symptr' \in Nat
    BY <1>1, ObjFacts DEF TypeInv
  <1>4. \A s \in Sections : ~Unread(s)'
    BY <1>2 DEF Unread, Reading
  <1> QED BY <1>1, <1>2, <1>3, <1>4, TurnKeepsTypes DEF TypeInv, InScn, AllRead

LEMMA SkipTypes == ASSUME TypeInv, SkipEmpty PROVE TypeInv'
  <1>1. UNCHANGED tablesVars /\ UNCHANGED <<n, symptr>> /\ i \in Sections
    BY DEF SkipEmpty, tablesVars, tables, output
  <1>2. (pc' = "failed" /\ i' = i) \/ (pc' = "layout" /\ i' = i + 1)
    BY DEF SkipEmpty
  <1>3. i' \in 1 .. LastScn + 1 /\ i' \in Nat
    BY <1>1, <1>2, ObjFacts DEF TypeInv
  <1>4. \A s \in Sections : ~Unread(s)'
    BY <1>2 DEF Unread, Reading
  <1> QED BY <1>1, <1>2, <1>3, <1>4, TurnKeepsTypes DEF TypeInv, InScn, AllRead

(* The sizes of the tables, and what they add up to. *)
LEMMA RowTypes ==
    ASSUME TypeInv
    PROVE  /\ DataSize \in [1 .. LastScn -> Nat]
           /\ RelocsSize \in [1 .. LastScn -> Nat]
           /\ LinesSize \in [1 .. LastScn -> Nat]
  <1>1. Sections = 1 .. LastScn
    BY ObjFacts DEF TypeInv
  <1>2. \A s \in Sections : scn[s].size \in Nat /\ scn[s].nreloc \in Nat /\ scn[s].nlnno \in Nat
    BY DEF TypeInv, Header
  <1> QED BY <1>1, <1>2 DEF DataSize, RelocsSize, LinesSize, RelocSize, LineSize

LEMMA RowTotals ==
    ASSUME TypeInv
    PROVE  \A s \in 0 .. LastScn : /\ Total(DataSize)[s] \in Nat
                                   /\ Total(RelocsSize)[s] \in Nat
                                   /\ Total(LinesSize)[s] \in Nat
  <1>1. LastScn \in Nat
    BY ObjFacts DEF TypeInv
  <1>2. Total(DataSize) \in [0 .. LastScn -> Nat]
    BY <1>1, RowTypes, TotalTurns
  <1>3. Total(RelocsSize) \in [0 .. LastScn -> Nat]
    BY <1>1, RowTypes, TotalTurns
  <1>4. Total(LinesSize) \in [0 .. LastScn -> Nat]
    BY <1>1, RowTypes, TotalTurns
  <1> QED BY <1>2, <1>3, <1>4

LEMMA PlaceFacts ==
    ASSUME TypeInv, PlaceSection
    PROVE  /\ scn' \in [Sections -> Header]
           /\ i \in Sections /\ scn[i].size # 0
           /\ \A s \in Sections : s # i => scn'[s] = scn[s]
           /\ \A s \in Sections : scn'[s].size = scn[s].size /\ scn'[s].nreloc = scn[s].nreloc
                                    /\ scn'[s].nlnno = scn[s].nlnno
           /\ scn'[i].scnptr = ScnPtr(i)
           /\ scn[i].nreloc # 0 => scn'[i].relptr = RelPtr(i)
           /\ scn[i].nlnno # 0 => scn'[i].lnnoptr = LnnoPtr(i)
  <1>1. i \in Sections /\ i - 1 \in 0 .. LastScn /\ LastScn \in 0 .. LastScn /\ scn[i].size # 0
    BY ObjFacts DEF TypeInv, PlaceSection
  <1>2. PICK a, b, c : a = ScnPtr(i) /\ b = RelPtr(i) /\ c = LnnoPtr(i)
    OBVIOUS
  <1>3. a \in Nat /\ b \in Nat /\ c \in Nat
    <2>1. Headers \in Nat
      BY ObjFacts DEF TypeInv
    <2> QED BY <1>1, <1>2, <2>1, RowTotals DEF ScnPtr, RelPtr, LnnoPtr
  <1>4. scn' = [scn EXCEPT ![i].scnptr  = a,
                           ![i].relptr  = IF scn[i].nreloc = 0 THEN @ ELSE b,
                           ![i].lnnoptr = IF scn[i].nlnno = 0 THEN @ ELSE c]
    BY <1>2 DEF PlaceSection
  <1>5. scn \in [Sections -> Header]
    BY DEF TypeInv
  <1>6. scn[i] \in Header
    BY <1>1, <1>5
  <1>7. \A s \in Sections : s # i => scn'[s] = scn[s]
    BY <1>1, <1>4, <1>5
  <1>8. scn'[i] = [scn[i] EXCEPT !.scnptr  = a,
                                 !.relptr  = IF scn[i].nreloc = 0 THEN @ ELSE b,
                                 !.lnnoptr = IF scn[i].nlnno = 0 THEN @ ELSE c]
    BY <1>1, <1>4, <1>5
  <1>9. scn'[i] \in Header
    BY <1>3, <1>6, <1>8 DEF Header
  <1>10. scn' \in [Sections -> Header]
    BY <1>1, <1>4, <1>5, <1>7, <1>9
  <1>11. /\ scn'[i].size = scn[i].size /\ scn'[i].nreloc = scn[i].nreloc /\ scn'[i].nlnno = scn[i].nlnno
         /\ scn'[i].scnptr = a /\ (scn[i].nreloc # 0 => scn'[i].relptr = b)
         /\ (scn[i].nlnno # 0 => scn'[i].lnnoptr = c)
    BY <1>6, <1>8 DEF Header
  <1> QED BY <1>1, <1>2, <1>7, <1>10, <1>11

LEMMA PlaceTypes == ASSUME TypeInv, PlaceSection PROVE TypeInv'
  <1>1. UNCHANGED <<obj, symtab, mk, relocs, n>> /\ i' = i + 1
    BY DEF PlaceSection
  <1>2. pc' = "layout" /\ pc = "layout"
    BY DEF PlaceSection
  <1>3. i \in Sections /\ i' \in Nat /\ i' \in 1 .. LastScn + 1
    BY <1>1, PlaceFacts, ObjFacts DEF TypeInv
  <1>4. symptr' \in Nat
    <2>1. DataSize[i] \in Nat /\ RelocsSize[i] \in Nat /\ LinesSize[i] \in Nat /\ symptr \in Nat
      BY <1>3, RowTypes, ObjFacts DEF TypeInv
    <2> QED BY <2>1 DEF PlaceSection
  <1>5. \A s \in Sections : ~Unread(s)'
    BY <1>2 DEF Unread, Reading
  <1> QED BY <1>1, <1>2, <1>3, <1>4, <1>5, PlaceFacts DEF TypeInv, InScn, AllRead, Sections, LastScn

LEMMA WriteTypes ==
    ASSUME TypeInv, WriteHeaders \/ WriteSection \/ WriteSymbols \/ IOFails
    PROVE  TypeInv'
  <1>1. UNCHANGED tablesVars /\ UNCHANGED <<n, symptr>>
    BY DEF WriteHeaders, WriteSection, WriteSymbols, IOFails, tablesVars, tables, output
  <1>2. i' \in Nat /\ (pc' = "write" => i' \in 1 .. LastScn + 1)
    <2>1. i' = 1 \/ (i \in Sections /\ i' = i + 1) \/ (i' = i /\ pc' # "write")
      BY DEF WriteHeaders, WriteSection, WriteSymbols, IOFails
    <2> QED BY <2>1, ObjFacts DEF TypeInv
  <1>3. pc' \in {"write", "done", "failed"}
    BY DEF WriteHeaders, WriteSection, WriteSymbols, IOFails
  <1>4. \A s \in Sections : ~Unread(s)'
    BY <1>3 DEF Unread, Reading
  <1>5. symptr' \in Nat /\ n' \in Nat
    BY <1>1 DEF TypeInv
  <1> QED BY <1>1, <1>2, <1>3, <1>4, <1>5, TurnKeepsTypes DEF InScn, AllRead

LEMMA TypesKept == TypeInv /\ [Next]_vars => TypeInv'
  <1> SUFFICES ASSUME TypeInv, [Next]_vars PROVE TypeInv'
    OBVIOUS
  <1>1. CASE UNCHANGED vars
    BY <1>1 DEF vars, tables, output, TypeInv, Unread, Sections, LastScn
  <1>2. CASE Next
    BY <1>2, OpenTypes, SymbolTypes, SymbolsReadTypes, SectionTypes, RelocStepTypes,
       RelocsReadTypes, OtherTypes, JumpTypes, LinesTypes, StartTypes, SkipTypes, PlaceTypes,
       WriteTypes DEF Next
  <1> QED BY <1>1, <1>2

LEMMA TypesHold == Spec => []TypeInv
  BY TypesStart, TypesKept, PTL DEF Spec

-----------------------------------------------------------------------------
(* No more jumps than static symbols of the list. *)

LEMMA StaticsCount ==
    ASSUME obj \in Objects, NEW k \in Nat, NEW m \in Nat
    PROVE  /\ Cardinality(Statics(obj)) \in Nat
           /\ Cardinality(StaticsBefore(k)) \in Nat
           /\ Cardinality(StaticsBefore(k)) <= Cardinality(Statics(obj))
           /\ k < m /\ k \in Statics(obj) =>
                 Cardinality(StaticsBefore(k)) + 1 <= Cardinality(StaticsBefore(m))
           /\ k <= m => Cardinality(StaticsBefore(k)) <= Cardinality(StaticsBefore(m))
  <1> DEFINE S == Statics(obj)
             K == StaticsBefore(k)
             M == StaticsBefore(m)
  <1>1. IsFiniteSet(DOMAIN obj.symbols) /\ S \in SUBSET DOMAIN obj.symbols
    BY ObjectsAssumption DEF Statics
  <1>2. IsFiniteSet(S)
    BY <1>1, FS_Subset
  <1>3. K \in SUBSET S /\ M \in SUBSET S
    BY DEF StaticsBefore
  <1>4. IsFiniteSet(K) /\ IsFiniteSet(M)
    BY <1>2, <1>3, FS_Subset
  <1>5. Cardinality(S) \in Nat /\ Cardinality(K) \in Nat /\ Cardinality(M) \in Nat
    BY <1>2, <1>4, FS_CardinalityType
  <1>6. Cardinality(K) <= Cardinality(S)
    BY <1>2, <1>3, FS_Subset
  <1>7. ASSUME k < m, k \in S PROVE Cardinality(K) + 1 <= Cardinality(M)
    <2>0. S \in SUBSET Nat
      BY <1>1, ObjFacts
    <2>1. k \notin K /\ K \cup {k} \in SUBSET M
      BY <1>7, <2>0 DEF StaticsBefore
    <2>2. Cardinality(K \cup {k}) = Cardinality(K) + 1
      BY <1>4, <2>1, FS_AddElement
    <2>3. Cardinality(K \cup {k}) <= Cardinality(M)
      BY <1>4, <2>1, FS_Subset
    <2> QED BY <2>2, <2>3
  <1>8. ASSUME k <= m PROVE Cardinality(K) <= Cardinality(M)
    <2>0. S \in SUBSET Nat
      BY <1>1, ObjFacts
    <2>1. K \in SUBSET M
      BY <1>8, <2>0 DEF StaticsBefore
    <2> QED BY <1>4, <2>1, FS_Subset
  <1> QED BY <1>5, <1>6, <1>7, <1>8

LEMMA MarksStart == Init => MarksInv
  <1> SUFFICES ASSUME Init PROVE MarksInv
    OBVIOUS
  <1>1. obj \in Objects /\ mk = <<>> /\ symtab = obj.symbols /\ i = 0
    BY DEF Init
  <1>2. Len(mk) = 0
    BY <1>1
  <1>3. Cardinality(Statics(obj)) \in Nat /\ Cardinality(StaticsBefore(i)) \in Nat
    BY <1>1, StaticsCount
  <1> QED BY <1>1, <1>2, <1>3 DEF MarksInv

LEMMA SymbolMarks == ASSUME TypeInv, MarksInv, ReadSymbol PROVE MarksInv'
  <1>1. obj' = obj /\ pc = "symbols" /\ i < NSyms
    BY DEF ReadSymbol
  <1>2. CASE pc' = "failed"
    <2>1. UNCHANGED mk
      BY <1>1, <1>2 DEF ReadSymbol
    <2> QED BY <1>1, <1>2, <2>1 DEF MarksInv, Reading
  <1>3. CASE pc' # "failed"
    <2> DEFINE e == symtab[i]
    <2>1. /\ mk' = IF NeedsJump(e)
                   THEN Append(mk, [value |-> e.value, symndx |-> i, scnum |-> e.scnum]) ELSE mk
          /\ symtab' = IF Listed(e.name) THEN [symtab EXCEPT ![i] = Undefined(e)] ELSE symtab
          /\ i' = i + 1 + e.numaux
      BY <1>3 DEF ReadSymbol
    <2>2. /\ obj \in Objects /\ i \in Nat /\ mk \in Seq(Jump) /\ i \in DOMAIN obj.symbols
          /\ symtab \in [DOMAIN obj.symbols -> Symbol] /\ DOMAIN obj.symbols \in SUBSET Nat
      <3>1. NSyms \in Nat /\ DOMAIN obj.symbols = 0 .. NSyms - 1
        BY ObjFacts DEF TypeInv
      <3> QED BY <1>1, <3>1 DEF TypeInv
    <2>3. e = obj.symbols[i] /\ e \in Symbol
      BY <1>1, <2>2 DEF MarksInv, Reading
    <2>4. i' \in Nat /\ i < i'
      BY <2>1, <2>2, <2>3 DEF Symbol
    <2>5. Len(mk) \in Nat /\ Len(mk) <= Cardinality(StaticsBefore(i))
      BY <1>1, <2>2, LenProperties DEF MarksInv, Reading
    <2>6. Len(mk') <= Cardinality(StaticsBefore(i'))
      <3>1. CASE NeedsJump(e)
        <4>1. i \in Statics(obj)
          BY <2>2, <2>3, <3>1 DEF NeedsJump, Listed, Statics
        <4>2. Len(mk') = Len(mk) + 1
          BY <2>1, <2>2, <3>1, AppendProperties
        <4>3. Cardinality(StaticsBefore(i)) + 1 <= Cardinality(StaticsBefore(i'))
          BY <2>2, <2>4, <4>1, StaticsCount
        <4>4. Cardinality(StaticsBefore(i)) \in Nat /\ Cardinality(StaticsBefore(i')) \in Nat
          BY <2>2, <2>4, StaticsCount
        <4> QED BY <2>5, <4>2, <4>3, <4>4
      <3>2. CASE ~NeedsJump(e)
        <4>1. Cardinality(StaticsBefore(i)) <= Cardinality(StaticsBefore(i'))
          BY <2>2, <2>4, StaticsCount
        <4>2. Cardinality(StaticsBefore(i)) \in Nat /\ Cardinality(StaticsBefore(i')) \in Nat
          BY <2>2, <2>4, StaticsCount
        <4> QED BY <2>1, <2>5, <3>2, <4>1, <4>2
      <3> QED BY <3>1, <3>2
    <2>7. Len(mk') <= Cardinality(Statics(obj))
      <3>1. /\ Cardinality(StaticsBefore(i')) <= Cardinality(Statics(obj))
            /\ Cardinality(StaticsBefore(i')) \in Nat /\ Cardinality(Statics(obj)) \in Nat
        BY <2>2, <2>4, StaticsCount
      <3>2. Len(mk') \in Nat
        BY SymbolTypes, LenProperties DEF TypeInv
      <3> QED BY <2>6, <3>1, <3>2
    <2>8. ASSUME NEW k \in DOMAIN obj.symbols, k >= i' PROVE symtab'[k] = obj.symbols[k]
      <3>1. k # i /\ k >= i
        BY <2>2, <2>4, <2>8
      <3>2. symtab[k] = obj.symbols[k]
        BY <1>1, <3>1 DEF MarksInv, Reading
      <3> QED BY <2>1, <2>2, <3>1, <3>2
    <2>9. StaticsBefore(i)' = StaticsBefore(i')
      BY <1>1 DEF StaticsBefore
    <2> QED BY <1>1, <2>6, <2>7, <2>8, <2>9 DEF MarksInv
  <1> QED BY <1>2, <1>3

LEMMA MarksKept == TypeInv /\ MarksInv /\ [Next]_vars => MarksInv'
  <1> SUFFICES ASSUME TypeInv, MarksInv, [Next]_vars PROVE MarksInv'
    OBVIOUS
  <1>1. CASE ReadSymbol
    BY <1>1, SymbolMarks
  <1>2. CASE Open
    BY <1>2 DEF Open, MarksInv, Reading, StaticsBefore
  <1>3. CASE UNCHANGED vars
    BY <1>3 DEF vars, MarksInv, StaticsBefore
  <1>4. CASE ~ReadSymbol /\ ~Open /\ ~UNCHANGED vars
    <2>1. UNCHANGED <<obj, mk>> /\ (pc' \notin Reading \/ UNCHANGED <<symtab, i, pc>>)
      BY <1>4 DEF Next, SymbolsRead, ReadSection, ReadReloc, RelocsRead, OtherSection, MakeJump,
         ReadLines, StartLayout, SkipEmpty, PlaceSection, WriteHeaders, WriteSection,
         WriteSymbols, IOFails, Reading
    <2> QED BY <2>1 DEF MarksInv, StaticsBefore
  <1> QED BY <1>1, <1>2, <1>3, <1>4

LEMMA MarksHold == Spec => []MarksInv
  BY TypesHold, MarksStart, MarksKept, PTL DEF Spec

-----------------------------------------------------------------------------
(* The slots. *)

LEMMA SlotsStart == Init => SlotInv
  <1> SUFFICES ASSUME Init PROVE SlotInv
    OBVIOUS
  <1>1. pc = "open"
    BY DEF Init
  <1> QED BY <1>1 DEF SlotInv, AllRead, InScn

LEMMA FilledStays ==
    ASSUME NEW s, obj' = obj, mk' = mk, relocs'[s] = relocs[s],
           scn'[s].nreloc = scn[s].nreloc, Filled(s)
    PROVE  Filled(s)'
  BY DEF Filled

LEMMA SectionSlots == ASSUME TypeInv, SlotInv, ReadSection PROVE SlotInv'
  <1>1. /\ UNCHANGED <<obj, mk, scn, i>> /\ n' = 1 /\ i \in Sections /\ pc = "section" /\ pc' = "relocs"
        /\ relocs' = [relocs EXCEPT ![i] = [r \in 1 .. scn[i].nreloc + Len(mk) |-> EmptySlot]]
    BY DEF ReadSection
  <1>2. scn[i].nreloc = Len(obj.relocs[i])
    <2>1. i \in Nat
      BY DEF TypeInv
    <2>2. i >= i
      BY <2>1
    <2> QED BY <1>1, <2>2 DEF TypeInv, Unread
  <1>3. Len(obj.relocs[i]) \in Nat /\ Len(mk) \in Nat /\ Sections \in SUBSET Nat /\ i \in Nat
    <2>1. Len(obj.relocs[i]) \in Nat /\ LastScn \in Nat /\ Sections = 1 .. LastScn
      BY <1>1, ObjFacts DEF TypeInv
    <2>2. Sections \in SUBSET Nat
      BY <2>1
    <2> QED BY <2>1, <2>2, LenProperties DEF TypeInv
  <1> DEFINE all == [r \in 1 .. scn[i].nreloc + Len(mk) |-> EmptySlot]
  <1>4. relocs'[i] = all /\ \A s \in Sections : s # i => relocs'[s] = relocs[s]
    BY <1>1 DEF TypeInv
  <1>5. Len(all) = Len(obj.relocs[i]) + Len(mk) /\ \A r \in 1 .. Len(all) : all[r] = EmptySlot
    BY <1>2, <1>3
  <1> HIDE DEF all
  <1>6. \A s \in Sections : s < i => Filled(s)'
    <2> SUFFICES ASSUME NEW s \in Sections, s < i PROVE Filled(s)'
      OBVIOUS
    <2>1. Filled(s)
      BY <1>1 DEF SlotInv
    <2>2. s # i
      BY <1>3
    <2> QED BY <1>1, <1>4, <2>1, <2>2, FilledStays
  <1>7. \A r \in 1 .. Len(relocs'[i]) : (relocs'[i][r] = EmptySlot) <=> r >= 1
    BY <1>3, <1>4, <1>5
  <1>8. 1 <= Len(obj.relocs[i]) + 1 /\ 1 .. 1 - 1 = {}
    BY <1>3
  <1>9. Len(relocs'[i]) = Len(obj.relocs[i]) + Len(mk)
    BY <1>4, <1>5
  <1>10. /\ UNCHANGED <<obj, i, mk>> /\ n' = 1 /\ pc' = "relocs"
         /\ pc' \notin {"jumps"} \cup AllRead
    BY <1>1 DEF AllRead
  <1>11. Sections' = Sections
    BY <1>10 DEF Sections, LastScn
  <1> QED BY <1>6, <1>7, <1>8, <1>9, <1>10, <1>11 DEF SlotInv, EmptySlot

LEMMA RelocSlots == ASSUME TypeInv, SlotInv, ReadReloc PROVE SlotInv'
  <1>1. UNCHANGED <<obj, mk, scn, i>> /\ pc = "relocs" /\ n <= scn[i].nreloc
    BY DEF ReadReloc
  <1>2. CASE pc' = "failed"
    BY <1>2 DEF SlotInv, InScn, AllRead
  <1>3. CASE pc' # "failed"
    <2> DEFINE rel == obj.relocs[i][n]
               row == relocs[i]
    <2>1. /\ relocs' = [relocs EXCEPT ![i][n] = rel] /\ n' = n + 1 /\ pc' = pc
          /\ rel.type \in {"REL32", "ADDR32"}
      BY <1>3 DEF ReadReloc
    <2>2. /\ i \in Sections /\ n \in Nat /\ n # 0 /\ i \in Nat
          /\ scn[i].nreloc = Len(obj.relocs[i])
      <3>1. i \in Sections /\ n \in Nat /\ n # 0 /\ i \in Nat
        BY <1>1 DEF TypeInv, InScn
      <3>2. i >= i
        BY <3>1
      <3> QED BY <1>1, <3>1, <3>2 DEF TypeInv, Unread
    <2>3. /\ Len(obj.relocs[i]) \in Nat /\ obj.relocs[i] \in Seq(Reloc) /\ Sections \in SUBSET Nat
          /\ Len(mk) \in Nat /\ row \in Seq(Reloc) /\ relocs \in [Sections -> Seq(Reloc)]
      <3>1. Len(obj.relocs[i]) \in Nat /\ obj.relocs[i] \in Seq(Reloc) /\ Sections \in SUBSET Nat
        BY <2>2, ObjFacts DEF TypeInv
      <3>2. Len(mk) \in Nat
        BY LenProperties DEF TypeInv
      <3> QED BY <2>2, <3>1, <3>2 DEF TypeInv
    <2>4. n \in 1 .. Len(obj.relocs[i])
      BY <1>1, <2>2, <2>3
    <2>5. rel \in Reloc
      BY <2>3, <2>4, ElementOfSeq
    <2>6. rel # EmptySlot
      BY <2>1 DEF EmptySlot
    <2>7. /\ relocs'[i] = [row EXCEPT ![n] = rel]
          /\ \A s \in Sections : s # i => relocs'[s] = relocs[s]
      BY <2>1, <2>2, <2>3
    <2>8. /\ Len(row) = Len(obj.relocs[i]) + Len(mk)
          /\ \A r \in 1 .. Len(row) : (row[r] = EmptySlot) <=> r >= n
          /\ \A r \in 1 .. n - 1 : row[r] = obj.relocs[i][r]
      BY <1>1 DEF SlotInv
    <2>9. /\ Len(relocs'[i]) = Len(row)
          /\ \A r \in 1 .. Len(row) : relocs'[i][r] = IF r = n THEN rel ELSE row[r]
      BY <2>3, <2>5, <2>7, ChangedSeq
    <2> HIDE DEF rel, row
    <2>10. \A r \in 1 .. Len(row) : (relocs'[i][r] = EmptySlot) <=> r >= n + 1
      BY <2>2, <2>3, <2>4, <2>6, <2>8, <2>9
    <2>11. \A r \in 1 .. n : relocs'[i][r] = obj.relocs[i][r]
      <3> SUFFICES ASSUME NEW r \in 1 .. n PROVE relocs'[i][r] = obj.relocs[i][r]
        OBVIOUS
      <3>1. r \in 1 .. Len(row) /\ (r # n => r \in 1 .. n - 1)
        BY <2>2, <2>3, <2>4, <2>8
      <3>2. r # n => row[r] = obj.relocs[i][r]
        BY <2>8, <3>1
      <3> QED BY <2>9, <3>1, <3>2 DEF rel
    <2>12. n + 1 <= Len(obj.relocs[i]) + 1 /\ 1 .. n + 1 - 1 = 1 .. n
      BY <2>2, <2>3, <2>4
    <2>13. \A s \in Sections : s < i => Filled(s)'
      <3> SUFFICES ASSUME NEW s \in Sections, s < i PROVE Filled(s)'
        OBVIOUS
      <3>1. Filled(s)
        BY <1>1 DEF SlotInv, InScn
      <3>2. s # i
        BY <2>2, <2>3
      <3> QED BY <1>1, <2>7, <3>1, <3>2, FilledStays
    <2>14. UNCHANGED <<obj, i, mk>> /\ n' = n + 1 /\ pc' = "relocs" /\ pc' \notin {"jumps"} \cup AllRead
      BY <1>1, <2>1 DEF AllRead
    <2>15. Sections' = Sections
      BY <2>14 DEF Sections, LastScn
    <2>16. /\ \A r \in 1 .. Len(relocs'[i]) : (relocs'[i][r] = EmptySlot) <=> r >= n'
           /\ Len(relocs'[i]) = Len(obj.relocs[i]) + Len(mk)
      BY <2>8, <2>9, <2>10, <2>14
    <2>17. /\ \A r \in 1 .. n' - 1 : relocs'[i][r] = obj.relocs[i][r]
           /\ n' <= Len(obj.relocs[i]) + 1
      <3>1. n' = n + 1
        BY <2>1
      <3>2. n' - 1 = n
        BY <2>2, <3>1
      <3>3. n' <= Len(obj.relocs[i]) + 1
        BY <2>12, <3>1
      <3> QED BY <2>11, <3>2, <3>3
    <2> QED BY <2>13, <2>14, <2>15, <2>16, <2>17 DEF SlotInv, EmptySlot
  <1> QED BY <1>2, <1>3

LEMMA RelocsReadSlots == ASSUME TypeInv, SlotInv, RelocsRead PROVE SlotInv'
  <1>1. UNCHANGED <<obj, mk, scn, relocs, i>> /\ n' = 1 /\ pc = "relocs" /\ pc' = "jumps" /\ n > scn[i].nreloc
    BY DEF RelocsRead, tables
  <1>2. i \in Sections /\ i \in Nat /\ n \in Nat /\ scn[i].nreloc = Len(obj.relocs[i])
    <2>1. i \in Sections /\ i \in Nat /\ n \in Nat
      BY <1>1 DEF TypeInv, InScn
    <2>2. i >= i
      BY <2>1
    <2> QED BY <1>1, <2>1, <2>2 DEF TypeInv, Unread
  <1>3. Len(obj.relocs[i]) \in Nat /\ Len(mk) \in Nat
    BY <1>2, ObjFacts, LenProperties DEF TypeInv
  <1>4. /\ n <= Len(obj.relocs[i]) + 1 /\ Len(relocs[i]) = Len(obj.relocs[i]) + Len(mk)
        /\ \A r \in 1 .. Len(relocs[i]) : (relocs[i][r] = EmptySlot) <=> r >= n
        /\ \A r \in 1 .. n - 1 : relocs[i][r] = obj.relocs[i][r]
    BY <1>1 DEF SlotInv
  <1>5. n = Len(obj.relocs[i]) + 1
    BY <1>1, <1>2, <1>3, <1>4
  <1>6. Filled(i)
    BY <1>2, <1>3, <1>4, <1>5 DEF Filled
  <1>7. Filled(i)'
    BY <1>1, <1>6, FilledStays
  <1>8. 1 <= Len(mk) + 1 /\ scn[i].nreloc <= Len(obj.relocs[i]) + 1 - 1
    BY <1>2, <1>3
  <1>9. \A s \in Sections : s < i => Filled(s)'
    BY <1>1, FilledStays DEF SlotInv, InScn
  <1>10. /\ UNCHANGED <<obj, i, mk, scn>> /\ n' = 1 /\ pc' = "jumps"
         /\ pc' \notin {"relocs"} \cup AllRead
    BY <1>1 DEF AllRead
  <1>11. Sections' = Sections
    BY <1>10 DEF Sections, LastScn
  <1>12. Filled(i)' /\ n' <= Len(mk)' + 1 /\ scn'[i].nreloc <= Len(obj.relocs[i]) + n' - 1
    BY <1>7, <1>8, <1>10
  <1> QED BY <1>9, <1>10, <1>11, <1>12 DEF SlotInv

LEMMA OtherSlots == ASSUME TypeInv, SlotInv, OtherSection PROVE SlotInv'
  <1>1. UNCHANGED <<obj, mk, scn, relocs, i, pc>> /\ n' = n + 1 /\ pc = "jumps" /\ n <= Len(mk)
    BY DEF OtherSection, tables
  <1>2. n \in Nat /\ Len(mk) \in Nat /\ i \in Sections
    BY <1>1, LenProperties DEF TypeInv, InScn
  <1>3. scn[i].nreloc \in Nat /\ Len(obj.relocs[i]) \in Nat
    BY <1>2, ObjFacts DEF TypeInv, Header
  <1>4. Filled(i) /\ scn[i].nreloc <= Len(obj.relocs[i]) + n - 1
    BY <1>1 DEF SlotInv
  <1>5. n + 1 <= Len(mk) + 1 /\ scn[i].nreloc <= Len(obj.relocs[i]) + (n + 1) - 1
    BY <1>1, <1>2, <1>3, <1>4
  <1>6. Filled(i)' /\ \A s \in Sections : s < i => Filled(s)'
    BY <1>1, <1>4, FilledStays DEF SlotInv, InScn
  <1>7. pc' = "jumps" /\ pc' \notin {"relocs"} \cup AllRead
    BY <1>1 DEF AllRead
  <1>8. Sections' = Sections
    BY <1>1 DEF Sections, LastScn
  <1>9. n' <= Len(mk)' + 1 /\ scn'[i].nreloc <= Len(obj.relocs[i]) + n' - 1
    BY <1>1, <1>5
  <1> QED BY <1>1, <1>6, <1>7, <1>8, <1>9 DEF SlotInv

(* A slot is free for the jump, and the count of the header can count it. *)
LEMMA RoomForJump ==
    ASSUME CountsFit, TypeInv, MarksInv, SlotInv, pc = "jumps", n <= Len(mk)
    PROVE  /\ scn[i].nreloc \in Nat /\ FreeSlot \in 1 .. Len(relocs[i])
           /\ relocs[i][FreeSlot] = EmptySlot
           /\ scn[i].nreloc + 1 < CountLimit /\ Len(obj.relocs[i]) < FreeSlot
  <1>1. i \in Sections /\ n \in Nat /\ n # 0 /\ Len(mk) \in Nat
    BY LenProperties DEF TypeInv, InScn
  <1>2. scn[i].nreloc \in Nat /\ Len(obj.relocs[i]) \in Nat
    BY <1>1, ObjFacts DEF TypeInv, Header
  <1>3. /\ Len(relocs[i]) = Len(obj.relocs[i]) + Len(mk) /\ Len(obj.relocs[i]) <= scn[i].nreloc
        /\ \A r \in 1 .. Len(relocs[i]) : (relocs[i][r] = EmptySlot) <=> r > scn[i].nreloc
        /\ scn[i].nreloc <= Len(obj.relocs[i]) + n - 1
    BY DEF SlotInv, Filled
  <1>4. FreeSlot \in 1 .. Len(relocs[i]) /\ FreeSlot > scn[i].nreloc /\ Len(obj.relocs[i]) < FreeSlot
    BY <1>1, <1>2, <1>3 DEF FreeSlot
  <1>5. Len(obj.relocs[i]) + Cardinality(Statics(obj)) < CountLimit
    <2>1. obj.sections \in Seq([name : STRING, vaddr : Nat, size : Nat, nlnno : Nat])
      BY ObjFacts DEF TypeInv
    <2>2. DOMAIN obj.sections = Sections
      BY <2>1, LenProperties DEF Sections, LastScn
    <2> QED BY <1>1, <2>2 DEF CountsFit, TypeInv
  <1>6. Len(mk) <= Cardinality(Statics(obj)) /\ Cardinality(Statics(obj)) \in Nat
    <2>1. 0 \in Nat /\ obj \in Objects
      BY DEF TypeInv
    <2>2. Cardinality(Statics(obj)) \in Nat
      BY <2>1, StaticsCount
    <2> QED BY <2>2 DEF MarksInv
  <1>7. scn[i].nreloc + 1 < CountLimit
    BY <1>1, <1>2, <1>3, <1>5, <1>6, LimitAssumption
  <1> QED BY <1>2, <1>3, <1>4, <1>7

LEMMA Unwrapped == ASSUME NEW a \in Nat, NEW b \in Nat, a < b PROVE a % b = a
  OBVIOUS

LEMMA LinesSlots == ASSUME TypeInv, SlotInv, ReadLines PROVE SlotInv'
  <1>1. UNCHANGED <<obj, mk, scn, relocs>> /\ i' = i + 1 /\ pc = "jumps" /\ pc' = "section"
    BY DEF ReadLines, tables
  <1>2. LastScn \in Nat /\ Sections = 1 .. LastScn /\ i \in Sections /\ i \in Nat
    BY <1>1, ObjFacts DEF TypeInv, InScn
  <1>3. \A s \in Sections : s < i' => Filled(s)'
    <2> SUFFICES ASSUME NEW s \in Sections, s < i' PROVE Filled(s)'
      OBVIOUS
    <2>1. i' = i + 1
      BY <1>1
    <2>2. s = i \/ s < i
      BY <1>2, <2>1
    <2>3. Filled(s)
      BY <1>1, <2>2 DEF SlotInv, InScn
    <2> QED BY <1>1, <2>3, FilledStays
  <1>4. pc' = "section" /\ pc' \notin InScn \cup AllRead
    BY <1>1 DEF InScn, AllRead
  <1>5. Sections' = Sections
    BY <1>1 DEF Sections, LastScn
  <1> QED BY <1>3, <1>4, <1>5 DEF SlotInv, InScn

(* Once every section is read their arrays are no longer touched. *)
LEMMA LaterSlots ==
    ASSUME TypeInv, SlotInv,
           StartLayout \/ SkipEmpty \/ PlaceSection \/ WriteHeaders \/ WriteSection \/ WriteSymbols
    PROVE  SlotInv'
  <1>1. UNCHANGED <<obj, mk, relocs>>
    BY DEF StartLayout, SkipEmpty, PlaceSection, WriteHeaders, WriteSection, WriteSymbols, tables, output
  <1>2. \A s \in Sections : scn'[s].nreloc = scn[s].nreloc
    <2>1. CASE PlaceSection
      BY <2>1, PlaceFacts
    <2>2. CASE ~PlaceSection
      BY <2>2 DEF StartLayout, SkipEmpty, WriteHeaders, WriteSection, WriteSymbols, tables, output
    <2> QED BY <2>1, <2>2
  <1>3. \A s \in Sections : Filled(s)
    <2>1. CASE StartLayout
      <3>1. LastScn \in Nat /\ Sections = 1 .. LastScn /\ pc = "section" /\ i \notin Sections
        BY <2>1, ObjFacts DEF TypeInv, StartLayout
      <3>2. i \in 1 .. LastScn + 1
        BY <3>1 DEF TypeInv
      <3>3. \A s \in Sections : s < i
        BY <3>1, <3>2
      <3> QED BY <3>1, <3>3 DEF SlotInv
    <2>2. CASE ~StartLayout
      <3>1. pc \in AllRead
        BY <2>2 DEF SkipEmpty, PlaceSection, WriteHeaders, WriteSection, WriteSymbols, AllRead
      <3> QED BY <3>1 DEF SlotInv
    <2> QED BY <2>1, <2>2
  <1>4. \A s \in Sections : Filled(s)'
    BY <1>1, <1>2, <1>3, FilledStays
  <1>5. pc' \notin InScn
    BY DEF StartLayout, SkipEmpty, PlaceSection, WriteHeaders, WriteSection, WriteSymbols, InScn
  <1>6. Sections' = Sections
    BY <1>1 DEF Sections, LastScn
  <1> QED BY <1>4, <1>5, <1>6 DEF SlotInv, InScn

LEMMA EarlierSlots ==
    ASSUME TypeInv, SlotInv, Open \/ ReadSymbol \/ SymbolsRead \/ IOFails
    PROVE  SlotInv'
  <1>1. pc' \in Reading \cup {"failed"} \/ (pc' = "section" /\ i' = 1)
    BY DEF Open, ReadSymbol, SymbolsRead, IOFails, Reading
  <1>2. obj' = obj
    BY DEF Open, ReadSymbol, SymbolsRead, IOFails
  <1>3. LastScn \in Nat /\ Sections = 1 .. LastScn /\ Sections' = Sections
    BY <1>2, ObjFacts DEF TypeInv, Sections, LastScn
  <1>4. \A s \in Sections : ~(s < 1)
    BY <1>3
  <1>5. pc' \notin InScn \cup AllRead
    BY <1>1 DEF Reading, InScn, AllRead
  <1>6. pc' = "section" => i' = 1
    BY <1>1 DEF Reading
  <1> QED BY <1>3, <1>4, <1>5, <1>6 DEF SlotInv, InScn

LEMMA JumpSlots == ASSUME CountsFit, TypeInv, MarksInv, SlotInv, MakeJump PROVE SlotInv'
  <1>1. UNCHANGED <<obj, mk, i>> /\ pc = "jumps" /\ n <= Len(mk)
    BY DEF MakeJump
  <1>2. CASE pc' = "failed"
    BY <1>2 DEF SlotInv, InScn, AllRead
  <1>3. CASE pc' # "failed"
    <2> DEFINE row == relocs[i]
               jr == JumpReloc(mk[n])
               was == scn[i].nreloc
    <2>1. /\ relocs' = [relocs EXCEPT ![i][FreeSlot] = jr]
          /\ scn' = [scn EXCEPT ![i].nreloc = (@ + 1) % CountLimit]
          /\ n' = n + 1 /\ pc' = pc
      BY <1>3 DEF MakeJump
    <2>2. i \in Sections /\ i \in Nat /\ n \in Nat /\ n # 0 /\ Sections \in SUBSET Nat /\ Len(mk) \in Nat
      BY <1>1, ObjFacts, LenProperties DEF TypeInv, InScn
    <2>3. /\ was \in Nat /\ FreeSlot \in 1 .. Len(row) /\ was + 1 < CountLimit
          /\ Len(obj.relocs[i]) < FreeSlot /\ Len(obj.relocs[i]) \in Nat
      BY <1>1, <2>2, RoomForJump, ObjFacts DEF TypeInv
    <2>4. jr \in Reloc /\ jr # EmptySlot
      <3>1. n \in 1 .. Len(mk)
        BY <1>1, <2>2
      <3>2. mk[n] \in Jump
        BY <3>1, ElementOfSeq DEF TypeInv
      <3> QED BY <3>2 DEF JumpReloc, Reloc, Jump, RelocTypes, EmptySlot
    <2>5. row \in Seq(Reloc) /\ scn[i] \in Header
      BY <2>2 DEF TypeInv
    <2>6. relocs'[i] = [row EXCEPT ![FreeSlot] = jr] /\ \A s \in Sections : s # i => relocs'[s] = relocs[s]
      BY <2>1, <2>2 DEF TypeInv
    <2>7. (was + 1) % CountLimit = was + 1
      <3>1. was + 1 \in Nat /\ CountLimit \in Nat
        BY <2>3, LimitAssumption
      <3> QED BY <2>3, <3>1, Unwrapped
    <2>8. scn'[i].nreloc = was + 1 /\ \A s \in Sections : s # i => scn'[s] = scn[s]
      <3>1. scn' = [scn EXCEPT ![i] = [scn[i] EXCEPT !.nreloc = (scn[i].nreloc + 1) % CountLimit]]
        BY <2>1
      <3>2. scn'[i] = [scn[i] EXCEPT !.nreloc = was + 1] /\ \A s \in Sections : s # i => scn'[s] = scn[s]
        BY <2>2, <2>7, <3>1 DEF TypeInv
      <3> QED BY <2>5, <3>2 DEF Header
    <2>9. /\ Len(row) = Len(obj.relocs[i]) + Len(mk) /\ Len(obj.relocs[i]) <= was
          /\ \A r \in 1 .. Len(row) : (row[r] = EmptySlot) <=> r > was
          /\ \A r \in 1 .. Len(obj.relocs[i]) : row[r] = obj.relocs[i][r]
          /\ was <= Len(obj.relocs[i]) + n - 1
      BY <1>1 DEF SlotInv, Filled
    <2>10. /\ Len(relocs'[i]) = Len(row)
           /\ \A r \in 1 .. Len(row) : relocs'[i][r] = IF r = FreeSlot THEN jr ELSE row[r]
      BY <2>4, <2>5, <2>6, ChangedSeq
    <2>11. FreeSlot = was + 1
      BY DEF FreeSlot
    <2> HIDE DEF row, jr, was
    <2>12. \A r \in 1 .. Len(row) : (relocs'[i][r] = EmptySlot) <=> r > was + 1
      BY <2>3, <2>4, <2>9, <2>10, <2>11
    <2>13. \A r \in 1 .. Len(obj.relocs[i]) : relocs'[i][r] = obj.relocs[i][r]
      BY <2>2, <2>3, <2>9, <2>10
    <2>14. Len(obj.relocs[i]) <= was + 1 /\ was + 1 <= Len(obj.relocs[i]) + (n + 1) - 1
      BY <2>2, <2>3, <2>9
    <2>15. n + 1 <= Len(mk) + 1
      BY <1>1, <2>2
    <2>16. UNCHANGED <<obj, mk, i>> /\ n' = n + 1 /\ pc' = "jumps" /\ pc' \notin {"relocs"} \cup AllRead
      BY <1>1, <2>1 DEF AllRead
    <2>17. \A r \in 1 .. Len(relocs'[i]) : (relocs'[i][r] = EmptySlot) <=> r > scn'[i].nreloc
      BY <2>8, <2>10, <2>12
    <2>18. Filled(i)'
      <3>1. Len(relocs'[i]) = Len(obj.relocs[i]) + Len(mk) /\ Len(obj.relocs[i]) <= scn'[i].nreloc
        BY <2>8, <2>9, <2>10, <2>14
      <3> QED BY <2>13, <2>16, <2>17, <3>1 DEF Filled, EmptySlot
    <2>19. \A s \in Sections : s < i => Filled(s)'
      <3> SUFFICES ASSUME NEW s \in Sections, s < i PROVE Filled(s)'
        OBVIOUS
      <3>1. Filled(s)
        BY <1>1 DEF SlotInv, InScn
      <3>2. s # i
        BY <2>2
      <3> QED BY <2>6, <2>8, <2>16, <3>1, <3>2, FilledStays
    <2>20. Sections' = Sections
      BY <2>16 DEF Sections, LastScn
    <2>21. n' <= Len(mk)' + 1 /\ scn'[i].nreloc <= Len(obj.relocs[i]) + n' - 1
      BY <2>8, <2>14, <2>15, <2>16
    <2> QED BY <2>16, <2>18, <2>19, <2>20, <2>21 DEF SlotInv
  <1> QED BY <1>2, <1>3

LEMMA SlotsKept == CountsFit /\ TypeInv /\ MarksInv /\ SlotInv /\ [Next]_vars => SlotInv'
  <1> SUFFICES ASSUME CountsFit, TypeInv, MarksInv, SlotInv, [Next]_vars PROVE SlotInv'
    OBVIOUS
  <1>1. CASE UNCHANGED vars
    BY <1>1 DEF vars, tables, output, SlotInv, Filled, Sections, LastScn
  <1>2. CASE Next
    BY <1>2, EarlierSlots, SectionSlots, RelocSlots, RelocsReadSlots, OtherSlots, JumpSlots,
       LinesSlots, LaterSlots DEF Next
  <1> QED BY <1>1, <1>2

LEMMA SlotsSuffice ==
    ASSUME CountsFit, TypeInv, MarksInv, SlotInv
    PROVE  SlotsInOrder
  <1> SUFFICES ASSUME pc \in {"jumps", "layout", "write", "done"},
                      NEW s \in Sections, pc = "jumps" => s <= i
               PROVE  /\ pc = "jumps" /\ s = i /\ n <= Len(mk) =>
                             /\ scn[s].nreloc + 1 \in DOMAIN relocs[s]
                             /\ relocs[s][scn[s].nreloc + 1] = EmptySlot
                      /\ \A r \in DOMAIN relocs[s] : (relocs[s][r] = EmptySlot) <=> r > scn[s].nreloc
                      /\ \A r \in DOMAIN obj.relocs[s] : relocs[s][r] = obj.relocs[s][r]
    BY DEF SlotsInOrder
  <1>1. relocs[s] \in Seq(Reloc) /\ obj.relocs[s] \in Seq(Reloc)
    BY ObjFacts DEF TypeInv
  <1>2. DOMAIN relocs[s] = 1 .. Len(relocs[s]) /\ DOMAIN obj.relocs[s] = 1 .. Len(obj.relocs[s])
    BY <1>1, LenProperties
  <1>3. Filled(s)
    <2>1. CASE pc = "jumps"
      <3>1. i \in Nat /\ s \in Nat
        BY ObjFacts DEF TypeInv
      <3>2. s = i \/ s < i
        BY <2>1, <3>1
      <3> QED BY <2>1, <3>2 DEF SlotInv, InScn
    <2>2. CASE pc # "jumps"
      <3>1. pc \in AllRead
        BY <2>2 DEF AllRead
      <3> QED BY <3>1 DEF SlotInv
    <2> QED BY <2>1, <2>2
  <1>4. ASSUME pc = "jumps", s = i, n <= Len(mk)
        PROVE  scn[s].nreloc + 1 \in DOMAIN relocs[s] /\ relocs[s][scn[s].nreloc + 1] = EmptySlot
    BY <1>2, <1>4, RoomForJump DEF FreeSlot
  <1> QED BY <1>2, <1>3, <1>4 DEF Filled

(* Where the relocations of every section and the static symbols of the    *)
(* list fit the count of a header, "This should be empty!" (l.327) holds:  *)
(* a jump never takes the slot of a relocation that was read, or one past  *)
(* the end of the array, and no slot that is counted stays empty.          *)
THEOREM JumpsFindTheirSlot ==
    ASSUME CountsFit
    PROVE  Spec => []SlotsInOrder
  <1>1. Init => SlotInv
    BY SlotsStart
  <1>2. TypeInv /\ MarksInv /\ SlotInv /\ [Next]_vars => SlotInv'
    BY SlotsKept
  <1>3. TypeInv /\ MarksInv /\ SlotInv => SlotsInOrder
    BY SlotsSuffice
  <1> QED BY <1>1, <1>2, <1>3, TypesHold, MarksHold, PTL DEF Spec

-----------------------------------------------------------------------------
(* The layout. *)

LEMMA LayoutStart == Init => LayoutInv
  <1> SUFFICES ASSUME Init PROVE LayoutInv
    OBVIOUS
  <1>1. pc = "open"
    BY DEF Init
  <1> QED BY <1>1 DEF LayoutInv

LEMMA ZeroTotals ==
    ASSUME TypeInv
    PROVE  Total(DataSize)[0] = 0 /\ Total(RelocsSize)[0] = 0 /\ Total(LinesSize)[0] = 0
  <1>1. LastScn \in Nat
    BY ObjFacts DEF TypeInv
  <1> QED BY <1>1, RowTypes, TotalTurns

LEMMA NextTotals ==
    ASSUME TypeInv, NEW s \in Sections
    PROVE  /\ Total(DataSize)[s] = Total(DataSize)[s - 1] + DataSize[s]
           /\ Total(RelocsSize)[s] = Total(RelocsSize)[s - 1] + RelocsSize[s]
           /\ Total(LinesSize)[s] = Total(LinesSize)[s - 1] + LinesSize[s]
  <1>1. LastScn \in Nat /\ s \in 1 .. LastScn
    BY ObjFacts DEF TypeInv
  <1> QED BY <1>1, RowTypes, TotalTurns

LEMMA StartLayoutKeeps == ASSUME TypeInv, LayoutInv, StartLayout PROVE LayoutInv'
  <1>1. UNCHANGED <<obj, scn>> /\ symptr' = Headers /\ i' = 1 /\ pc' = "layout"
    BY DEF StartLayout, tables
  <1>2. Headers \in Nat
    BY ObjFacts DEF TypeInv
  <1>3. Headers' = Headers /\ DataSize' = DataSize /\ RelocsSize' = RelocsSize /\ LinesSize' = LinesSize
    BY <1>1 DEF Headers, DataSize, RelocsSize, LinesSize, Sections, LastScn
  <1>4. Headers = Headers + Total(DataSize)[0] + Total(RelocsSize)[0] + Total(LinesSize)[0]
    BY <1>2, ZeroTotals
  <1>5. i' - 1 = 0 /\ 1 .. i' - 1 = {}
    BY <1>1
  <1>6. symptr' = (Headers + Total(DataSize)[i - 1] + Total(RelocsSize)[i - 1] + Total(LinesSize)[i - 1])'
    BY <1>1, <1>3, <1>4, <1>5
  <1> QED BY <1>1, <1>5, <1>6 DEF LayoutInv

LEMMA SkipKeeps == ASSUME TypeInv, LayoutInv, SkipEmpty PROVE LayoutInv'
  <1>1. /\ UNCHANGED <<obj, scn, symptr>> /\ pc = "layout" /\ i \in Sections /\ scn[i].size = 0
    BY DEF SkipEmpty, tables, output
  <1>2. CASE pc' = "failed"
    BY <1>2 DEF LayoutInv
  <1>3. CASE pc' # "failed"
    <2>1. pc' = "layout" /\ i' = i + 1 /\ scn[i].nreloc = 0 /\ scn[i].nlnno = 0
      BY <1>1, <1>3 DEF SkipEmpty
    <2>2. LastScn \in Nat /\ Sections = 1 .. LastScn /\ i \in Nat /\ i \in 1 .. LastScn /\ Headers \in Nat
      BY <1>1, ObjFacts DEF TypeInv
    <2>3. i - 1 \in 0 .. LastScn /\ i' - 1 = i /\ \A s \in 1 .. i : s = i \/ s \in 1 .. i - 1
      BY <2>1, <2>2
    <2>4. DataSize[i] = 0 /\ RelocsSize[i] = 0 /\ LinesSize[i] = 0
      BY <1>1, <2>1 DEF DataSize, RelocsSize, LinesSize, RelocSize, LineSize
    <2>5. /\ Total(DataSize)[i - 1] \in Nat /\ Total(RelocsSize)[i - 1] \in Nat
          /\ Total(LinesSize)[i - 1] \in Nat
      BY <2>3, RowTotals
    <2>6. /\ Total(DataSize)[i] = Total(DataSize)[i - 1] + 0
          /\ Total(RelocsSize)[i] = Total(RelocsSize)[i - 1] + 0
          /\ Total(LinesSize)[i] = Total(LinesSize)[i - 1] + 0
      BY <1>1, <2>4, NextTotals
    <2>7. /\ Total(DataSize)[i] = Total(DataSize)[i - 1]
          /\ Total(RelocsSize)[i] = Total(RelocsSize)[i - 1]
          /\ Total(LinesSize)[i] = Total(LinesSize)[i - 1]
      BY <2>5, <2>6
    <2>8. symptr = Headers + Total(DataSize)[i] + Total(RelocsSize)[i] + Total(LinesSize)[i]
      BY <1>1, <2>7 DEF LayoutInv
    <2>9. \A s \in 1 .. i : Placed(s)
      <3>1. Placed(i)
        BY <1>1, <2>1 DEF Placed
      <3>2. \A s \in 1 .. i - 1 : Placed(s)
        BY <1>1 DEF LayoutInv
      <3> QED BY <2>3, <3>1, <3>2
    <2>10. /\ Headers' = Headers /\ DataSize' = DataSize /\ RelocsSize' = RelocsSize
           /\ LinesSize' = LinesSize /\ LastScn' = LastScn
      BY <1>1 DEF Headers, DataSize, RelocsSize, LinesSize, Sections, LastScn
    <2>11. \A s \in 1 .. i : Placed(s)'
      BY <1>1, <2>9, <2>10 DEF Placed, ScnPtr, RelPtr, LnnoPtr
    <2>12. symptr' = (Headers + Total(DataSize)[i - 1] + Total(RelocsSize)[i - 1] + Total(LinesSize)[i - 1])'
      BY <1>1, <2>3, <2>8, <2>10
    <2>13. \A s \in 1 .. i' - 1 : Placed(s)'
      BY <2>3, <2>11
    <2> QED BY <2>1, <2>12, <2>13 DEF LayoutInv
  <1> QED BY <1>2, <1>3

LEMMA PlaceKeeps == ASSUME TypeInv, LayoutInv, PlaceSection PROVE LayoutInv'
  <1>1. /\ obj' = obj /\ pc = "layout" /\ pc' = "layout" /\ i' = i + 1
        /\ symptr' = symptr + DataSize[i] + RelocsSize[i] + LinesSize[i]
    BY DEF PlaceSection
  <1>2. LastScn \in Nat /\ Sections = 1 .. LastScn /\ i \in Nat /\ i \in 1 .. LastScn /\ Headers \in Nat
    BY PlaceFacts, ObjFacts DEF TypeInv
  <1>3. i - 1 \in 0 .. LastScn /\ i' - 1 = i /\ \A s \in 1 .. i : s = i \/ (s \in 1 .. i - 1 /\ s # i)
    BY <1>1, <1>2
  <1>4. LastScn' = LastScn /\ Sections' = Sections /\ Headers' = Headers
    BY <1>1 DEF LastScn, Sections, Headers
  <1>5. DataSize' = DataSize /\ RelocsSize' = RelocsSize /\ LinesSize' = LinesSize
    BY <1>4, PlaceFacts DEF DataSize, RelocsSize, LinesSize
  <1>6. \A s : ScnPtr(s)' = ScnPtr(s) /\ RelPtr(s)' = RelPtr(s) /\ LnnoPtr(s)' = LnnoPtr(s)
    BY <1>4, <1>5 DEF ScnPtr, RelPtr, LnnoPtr
  <1>7. \A s \in 1 .. i : Placed(s)'
    <2> SUFFICES ASSUME NEW s \in 1 .. i PROVE Placed(s)'
      OBVIOUS
    <2>0. s \in Sections
      BY <1>2
    <2>1. ScnPtr(s)' = ScnPtr(s) /\ RelPtr(s)' = RelPtr(s) /\ LnnoPtr(s)' = LnnoPtr(s)
      BY <1>6
    <2>2. CASE s = i
      <3>1. /\ scn'[s].size # 0 /\ scn'[s].scnptr = ScnPtr(s)
            /\ scn'[s].nreloc # 0 => scn'[s].relptr = RelPtr(s)
            /\ scn'[s].nlnno # 0 => scn'[s].lnnoptr = LnnoPtr(s)
        BY <2>0, <2>2, PlaceFacts
      <3> QED BY <2>1, <3>1 DEF Placed
    <2>3. CASE s # i
      <3>1. Placed(s)
        BY <1>1, <1>3, <2>3 DEF LayoutInv
      <3>2. scn'[s] = scn[s]
        BY <2>0, <2>3, PlaceFacts
      <3> QED BY <2>1, <3>1, <3>2 DEF Placed
    <2> QED BY <2>2, <2>3
  <1>8. /\ Total(DataSize)[i - 1] \in Nat /\ Total(RelocsSize)[i - 1] \in Nat
        /\ Total(LinesSize)[i - 1] \in Nat
    BY <1>3, RowTotals
  <1>9. DataSize[i] \in Nat /\ RelocsSize[i] \in Nat /\ LinesSize[i] \in Nat
    BY <1>2, RowTypes
  <1>10. /\ Total(DataSize)[i] = Total(DataSize)[i - 1] + DataSize[i]
         /\ Total(RelocsSize)[i] = Total(RelocsSize)[i - 1] + RelocsSize[i]
         /\ Total(LinesSize)[i] = Total(LinesSize)[i - 1] + LinesSize[i]
    BY <1>2, NextTotals
  <1>11. symptr = Headers + Total(DataSize)[i - 1] + Total(RelocsSize)[i - 1] + Total(LinesSize)[i - 1]
    BY <1>1 DEF LayoutInv
  <1>12. symptr + DataSize[i] + RelocsSize[i] + LinesSize[i]
           = Headers + Total(DataSize)[i] + Total(RelocsSize)[i] + Total(LinesSize)[i]
    <2>1. Headers + Total(DataSize)[i - 1] + Total(RelocsSize)[i - 1] + Total(LinesSize)[i - 1]
            + DataSize[i] + RelocsSize[i] + LinesSize[i]
          = Headers + (Total(DataSize)[i - 1] + DataSize[i])
                    + (Total(RelocsSize)[i - 1] + RelocsSize[i])
                    + (Total(LinesSize)[i - 1] + LinesSize[i])
      <3> DEFINE a == Total(DataSize)[i - 1]
                 b == Total(RelocsSize)[i - 1]
                 c == Total(LinesSize)[i - 1]
                 x == DataSize[i]
                 y == RelocsSize[i]
                 z == LinesSize[i]
      <3>1. a \in Nat /\ b \in Nat /\ c \in Nat /\ x \in Nat /\ y \in Nat /\ z \in Nat /\ Headers \in Nat
        BY <1>2, <1>8, <1>9
      <3> HIDE DEF a, b, c, x, y, z
      <3>2. Headers + a + b + c + x + y + z = Headers + (a + x) + (b + y) + (c + z)
        BY <3>1
      <3> QED BY <3>2 DEF a, b, c, x, y, z
    <2> QED BY <1>10, <1>11, <2>1
  <1>13. symptr' = (Headers + Total(DataSize)[i - 1] + Total(RelocsSize)[i - 1] + Total(LinesSize)[i - 1])'
    BY <1>1, <1>3, <1>4, <1>5, <1>12
  <1>14. \A s \in 1 .. i' - 1 : Placed(s)'
    BY <1>3, <1>7
  <1> QED BY <1>1, <1>13, <1>14 DEF LayoutInv

(* From here the headers stay as they are. *)
LEMMA SameTables ==
    ASSUME UNCHANGED <<obj, scn, symptr>>
    PROVE  /\ LinesEnd' = LinesEnd /\ Sections' = Sections /\ NSyms' = NSyms /\ LastScn' = LastScn
           /\ \A s : Placed(s)' = Placed(s)
           /\ \A s : TablesOf(s)' = TablesOf(s)
           /\ HeaderTable' = HeaderTable
  <1>1. LastScn' = LastScn /\ Sections' = Sections /\ Headers' = Headers /\ NSyms' = NSyms
    BY DEF LastScn, Sections, Headers, NSyms
  <1>2. DataSize' = DataSize /\ RelocsSize' = RelocsSize /\ LinesSize' = LinesSize
    BY <1>1 DEF DataSize, RelocsSize, LinesSize
  <1>3. \A s : Placed(s)' = Placed(s)
    BY <1>1, <1>2 DEF Placed, ScnPtr, RelPtr, LnnoPtr
  <1>4. \A s : TablesOf(s)' = TablesOf(s)
    BY <1>1, <1>2 DEF TablesOf, DataTable, RelocTable, LineTable
  <1>5. LinesEnd' = LinesEnd
    BY <1>1, <1>2 DEF LinesEnd, RelocsEnd, DataEnd
  <1> QED BY <1>1, <1>3, <1>4, <1>5 DEF HeaderTable

LEMMA HeadersKeep == ASSUME TypeInv, LayoutInv, WriteHeaders PROVE LayoutInv'
  <1>1. /\ UNCHANGED <<obj, scn, symptr>> /\ out' = {HeaderTable} /\ i' = 1
        /\ pc = "layout" /\ pc' = "write" /\ i \notin Sections
    BY DEF WriteHeaders, HeaderTable, tables
  <1>2. LastScn \in Nat /\ Sections = 1 .. LastScn /\ Headers \in Nat /\ i \in 1 .. LastScn + 1
    BY <1>1, ObjFacts DEF TypeInv
  <1>3. i - 1 = LastScn /\ LastScn \in 0 .. LastScn
    BY <1>1, <1>2
  <1>4. \A s \in Sections : Placed(s)
    BY <1>1, <1>2, <1>3 DEF LayoutInv
  <1>5. symptr = LinesEnd
    BY <1>1, <1>3 DEF LayoutInv, LinesEnd, RelocsEnd, DataEnd
  <1>6. i' - 1 = 0 /\ 1 .. i' - 1 = {}
    BY <1>1
  <1>7. out' = Tables(i - 1)'
    BY <1>1, <1>6, SameTables DEF Tables
  <1>8. symptr' = LinesEnd' /\ \A s \in Sections' : Placed(s)'
    BY <1>1, <1>4, <1>5, SameTables
  <1> QED BY <1>1, <1>7, <1>8 DEF LayoutInv

LEMMA WrittenTables ==
    ASSUME NEW s
    PROVE  { Parts(s)[p] : p \in DOMAIN Parts(s) } = TablesOf(s)
  <1> DEFINE D == IF scn[s].size = 0 THEN <<>> ELSE <<DataTable(s)>>
             R == IF scn[s].nreloc = 0 THEN <<>> ELSE <<RelocTable(s)>>
             L == IF scn[s].nlnno = 0 THEN <<>> ELSE <<LineTable(s)>>
             S == {DataTable(s), RelocTable(s), LineTable(s)}
  <1>1. Parts(s) = D \o R \o L
    BY DEF Parts, DataTable, RelocTable, LineTable
  <1>2. D \in Seq(S) /\ R \in Seq(S) /\ L \in Seq(S)
    <2>1. <<>> \in Seq(S) /\ \A x \in S : <<x>> \in Seq(S)
      <3> HIDE DEF S
      <3> QED OBVIOUS
    <2>2. DataTable(s) \in S /\ RelocTable(s) \in S /\ LineTable(s) \in S
      OBVIOUS
    <2> HIDE DEF S
    <2> QED BY <2>1, <2>2
  <1>3. \A x : Elements(<<x>>) = {x}
    BY DEF Elements
  <1>4. Elements(<<>>) = {}
    BY DEF Elements
  <1>5. Elements(D) = { r \in {DataTable(s)} : scn[s].size # 0 }
    BY <1>3, <1>4
  <1>6. Elements(R) = { r \in {RelocTable(s)} : scn[s].nreloc # 0 }
    BY <1>3, <1>4
  <1>7. Elements(L) = { r \in {LineTable(s)} : scn[s].nlnno # 0 }
    BY <1>3, <1>4
  <1> HIDE DEF D, R, L, S
  <1>8. D \o R \in Seq(S) /\ Elements(D \o R) = Elements(D) \cup Elements(R)
    BY <1>2, ConcatProperties, ElementsConcat
  <1>9. Elements(D \o R \o L) = Elements(D) \cup Elements(R) \cup Elements(L)
    <2> DEFINE front == D \o R
    <2> HIDE DEF front
    <2>1. front \in Seq(S)
      BY <1>8 DEF front
    <2>2. Elements(front \o L) = Elements(front) \cup Elements(L)
      BY <1>2, <2>1, ElementsConcat
    <2> QED BY <1>8, <2>2 DEF front
  <1> QED BY <1>1, <1>5, <1>6, <1>7, <1>9, ZenonT(60) DEF Elements, TablesOf

LEMMA SectionKeeps == ASSUME TypeInv, LayoutInv, WriteSection PROVE LayoutInv'
  <1>1. /\ UNCHANGED <<obj, scn, symptr>> /\ i' = i + 1 /\ pc = "write" /\ pc' = "write" /\ i \in Sections
        /\ out' = out \cup { Parts(i)[p] : p \in DOMAIN Parts(i) }
    BY DEF WriteSection, tables
  <1>2. out' = Tables(i - 1) \cup TablesOf(i)
    BY <1>1, WrittenTables DEF LayoutInv
  <1>3. LastScn \in Nat /\ i \in 1 .. LastScn
    BY <1>1, ObjFacts DEF TypeInv
  <1>4. i' - 1 = i /\ 1 .. i = (1 .. i - 1) \cup {i}
    BY <1>1, <1>3
  <1>5. Tables(i) = Tables(i - 1) \cup TablesOf(i)
    BY <1>4 DEF Tables
  <1>6. out' = Tables(i - 1)'
    BY <1>1, <1>2, <1>4, <1>5, SameTables DEF Tables
  <1>7. symptr' = LinesEnd' /\ \A s \in Sections' : Placed(s)'
    BY <1>1, SameTables DEF LayoutInv
  <1> QED BY <1>1, <1>6, <1>7 DEF LayoutInv

LEMMA SymbolsKeep == ASSUME TypeInv, LayoutInv, WriteSymbols PROVE LayoutInv'
  <1>1. /\ UNCHANGED <<obj, scn, symptr>> /\ pc = "write" /\ pc' = "done" /\ i \notin Sections
    BY DEF WriteSymbols, tables
  <1>2. LastScn \in Nat /\ Sections = 1 .. LastScn /\ i \in 1 .. LastScn + 1
    BY <1>1, ObjFacts DEF TypeInv
  <1>3. i - 1 = LastScn
    BY <1>1, <1>2
  <1>4. ASSUME NSyms # 0
        PROVE  /\ out' = Tables(LastScn) \cup {SymbolTable, StringTable}
               /\ pos' = symptr + NSyms * SymSize + obj.strtabsz
    <2>1. out = Tables(LastScn)
      BY <1>1, <1>3 DEF LayoutInv
    <2> QED BY <1>4, <2>1 DEF WriteSymbols, SymbolTable, StringTable
  <1>5. SymbolTable' = SymbolTable /\ StringTable' = StringTable /\ Tables(LastScn)' = Tables(LastScn)
    BY <1>1, SameTables DEF SymbolTable, StringTable, Tables
  <1>6. symptr' = LinesEnd' /\ \A s \in Sections' : Placed(s)'
    BY <1>1, SameTables DEF LayoutInv
  <1>7. NSyms' # 0 => /\ out' = (Tables(LastScn) \cup {SymbolTable, StringTable})'
                      /\ pos' = (symptr + NSyms * SymSize + obj.strtabsz)'
    BY <1>1, <1>4, <1>5, SameTables
  <1> QED BY <1>1, <1>6, <1>7 DEF LayoutInv

LEMMA LayoutKept == TypeInv /\ LayoutInv /\ [Next]_vars => LayoutInv'
  <1> SUFFICES ASSUME TypeInv, LayoutInv, [Next]_vars PROVE LayoutInv'
    OBVIOUS
  <1>1. CASE UNCHANGED vars
    <2>1. UNCHANGED <<obj, scn, symptr, out, pos, i, pc>>
      BY <1>1 DEF vars, tables, output
    <2>2. SymbolTable' = SymbolTable /\ StringTable' = StringTable /\ \A k : Tables(k)' = Tables(k)
      BY <2>1, SameTables DEF SymbolTable, StringTable, Tables
    <2>3. Headers' = Headers /\ DataSize' = DataSize /\ RelocsSize' = RelocsSize /\ LinesSize' = LinesSize
      BY <2>1 DEF Headers, DataSize, RelocsSize, LinesSize, Sections, LastScn
    <2> QED BY <2>1, <2>2, <2>3, SameTables DEF LayoutInv
  <1>2. CASE /\ ~UNCHANGED vars
             /\ ~StartLayout /\ ~SkipEmpty /\ ~PlaceSection /\ ~WriteHeaders /\ ~WriteSection
             /\ ~WriteSymbols
    <2>1. pc' \notin {"layout", "write", "done"}
      BY <1>2 DEF Next, Open, ReadSymbol, SymbolsRead, ReadSection, ReadReloc, RelocsRead,
         OtherSection, MakeJump, ReadLines, IOFails
    <2> QED BY <2>1 DEF LayoutInv
  <1> QED BY <1>1, <1>2, StartLayoutKeeps, SkipKeeps, PlaceKeeps, HeadersKeep, SectionKeeps, SymbolsKeep
     DEF Next

LEMMA LayoutHolds == Spec => []LayoutInv
  BY TypesHold, LayoutStart, LayoutKept, PTL DEF Spec

-----------------------------------------------------------------------------
(* What was written, row by row. *)

(* Without symbols the strings go where the last section ends (l.500),     *)
(* which may be in the middle of the row of relocations.                   *)
HasSymbols == \A o \in Objects : DOMAIN o.symbols # {}

LEMMA SymbolCount == ASSUME HasSymbols, TypeInv PROVE NSyms # 0
  <1>1. obj \in Objects /\ DOMAIN obj.symbols = 0 .. NSyms - 1
    BY ObjFacts DEF TypeInv
  <1>2. DOMAIN obj.symbols # {}
    BY <1>1 DEF HasSymbols
  <1> QED BY <1>1, <1>2

(* The rows one after the other, as they are in the file. *)
LEMMA Bands ==
    ASSUME TypeInv, pc = "done", LayoutInv
    PROVE  /\ Headers \in Nat /\ DataEnd \in Nat /\ RelocsEnd \in Nat /\ LinesEnd \in Nat
           /\ NSyms * SymSize \in Nat /\ obj.strtabsz \in Nat
           /\ Headers <= DataEnd /\ DataEnd <= RelocsEnd /\ RelocsEnd <= LinesEnd
           /\ symptr = LinesEnd
  <1>1. Headers \in Nat /\ LastScn \in Nat /\ NSyms \in Nat /\ obj.strtabsz \in Nat
    BY ObjFacts DEF TypeInv
  <1>2. LastScn \in 0 .. LastScn
    BY <1>1
  <1>3. /\ Total(DataSize)[LastScn] \in Nat /\ Total(RelocsSize)[LastScn] \in Nat
        /\ Total(LinesSize)[LastScn] \in Nat
    BY <1>2, RowTotals
  <1>4. DataEnd \in Nat /\ Headers <= DataEnd
    BY <1>1, <1>3 DEF DataEnd
  <1>5. RelocsEnd \in Nat /\ DataEnd <= RelocsEnd
    BY <1>3, <1>4 DEF RelocsEnd
  <1>6. LinesEnd \in Nat /\ RelocsEnd <= LinesEnd
    BY <1>3, <1>5 DEF LinesEnd
  <1>7. NSyms * SymSize \in Nat
    BY <1>1 DEF SymSize
  <1> QED BY <1>1, <1>4, <1>5, <1>6, <1>7 DEF LayoutInv

(* A table of a section is the one of its row. *)
LEMMA TablesInRows ==
    ASSUME TypeInv, NEW s \in Sections, Placed(s)
    PROVE  /\ scn[s].size # 0 => DataTable(s) = Table(Headers, DataSize, "data", s)
           /\ scn[s].nreloc # 0 =>
                 scn[s].size # 0 /\ RelocTable(s) = Table(DataEnd, RelocsSize, "relocs", s)
           /\ scn[s].nlnno # 0 =>
                 scn[s].size # 0 /\ LineTable(s) = Table(RelocsEnd, LinesSize, "lines", s)
  <1>1. LastScn \in 0 .. LastScn /\ s - 1 \in 0 .. LastScn /\ Headers \in Nat
    <2>1. LastScn \in Nat /\ Sections = 1 .. LastScn /\ Headers \in Nat
      BY ObjFacts DEF TypeInv
    <2> QED BY <2>1
  <1>2. /\ Total(DataSize)[LastScn] \in Nat /\ Total(RelocsSize)[LastScn] \in Nat
        /\ Total(RelocsSize)[s - 1] \in Nat /\ Total(LinesSize)[s - 1] \in Nat
    BY <1>1, RowTotals
  <1>3. ScnPtr(s) = Headers + Total(DataSize)[s - 1]
    BY DEF ScnPtr
  <1>4. RelPtr(s) = DataEnd + Total(RelocsSize)[s - 1]
    BY <1>1, <1>2 DEF RelPtr, DataEnd
  <1>5. LnnoPtr(s) = RelocsEnd + Total(LinesSize)[s - 1]
    BY <1>1, <1>2 DEF LnnoPtr, RelocsEnd, DataEnd
  <1>6. scn[s].size # 0 => /\ scn[s].scnptr = ScnPtr(s)
                           /\ scn[s].nreloc # 0 => scn[s].relptr = RelPtr(s)
                           /\ scn[s].nlnno # 0 => scn[s].lnnoptr = LnnoPtr(s)
    BY DEF Placed
  <1>7. scn[s].size = 0 => scn[s].nreloc = 0 /\ scn[s].nlnno = 0
    BY DEF Placed
  <1> QED BY <1>3, <1>4, <1>5, <1>6, <1>7 DEF DataTable, RelocTable, LineTable, Table

(* Regions that fill a stretch of the file and share no byte of it. *)
Whole(regions, first, end) ==
    /\ \A r \in regions : Within(r, first, end)
    /\ \A r \in regions, q \in regions : r = q \/ Disjoint(r, q)
    /\ \A byte \in Nat : first <= byte /\ byte < end =>
          \E r \in regions : r.at <= byte /\ byte < r.at + r.len

LEMMA WholeJoined ==
    ASSUME NEW A, NEW B, NEW a \in Nat, NEW b \in Nat, NEW c \in Nat, a <= b, b <= c,
           Whole(A, a, b), Whole(B, b, c)
    PROVE  Whole(A \cup B, a, c)
  <1>1. ASSUME NEW r \in A \cup B PROVE Within(r, a, c)
    <2>1. Within(r, a, b) \/ Within(r, b, c)
      BY DEF Whole
    <2>2. CASE Within(r, a, b)
      <3>1. r.at \in Nat /\ r.len \in Nat /\ a <= r.at /\ r.at + r.len <= b
        BY <2>2 DEF Within
      <3>2. r.at + r.len <= c
        BY <3>1
      <3> QED BY <3>1, <3>2 DEF Within
    <2>3. CASE Within(r, b, c)
      <3>1. r.at \in Nat /\ r.len \in Nat /\ b <= r.at /\ r.at + r.len <= c
        BY <2>3 DEF Within
      <3>2. a <= r.at
        BY <3>1
      <3> QED BY <3>1, <3>2 DEF Within
    <2> QED BY <2>1, <2>2, <2>3
  <1>2. ASSUME NEW r \in A, NEW q \in B PROVE Disjoint(r, q) /\ Disjoint(q, r)
    <2>1. Within(r, a, b) /\ Within(q, b, c) /\ b <= b
      BY DEF Whole
    <2> QED BY <2>1, ApartInBands
  <1>3. ASSUME NEW r \in A \cup B, NEW q \in A \cup B PROVE r = q \/ Disjoint(r, q)
    BY <1>2 DEF Whole
  <1>4. ASSUME NEW byte \in Nat, a <= byte, byte < c
        PROVE  \E r \in A \cup B : r.at <= byte /\ byte < r.at + r.len
    <2>1. CASE byte < b
      BY <1>4, <2>1 DEF Whole
    <2>2. CASE b <= byte
      BY <1>4, <2>2 DEF Whole
    <2> QED BY <2>1, <2>2
  <1> QED BY <1>1, <1>3, <1>4 DEF Whole

LEMMA WholeAlone ==
    ASSUME NEW a \in Nat, NEW len \in Nat, NEW what
    PROVE  Whole({Region(a, len, what)}, a, a + len)
  <1> DEFINE r == Region(a, len, what)
  <1>1. r.at = a /\ r.len = len
    BY DEF Region
  <1>2. Within(r, a, a + len)
    BY <1>1 DEF Within
  <1> HIDE DEF r
  <1>3. \A byte \in Nat : a <= byte /\ byte < a + len => r.at <= byte /\ byte < r.at + r.len
    BY <1>1
  <1>4. Whole({r}, a, a + len)
    BY <1>2, <1>3 DEF Whole
  <1> QED BY <1>4 DEF r

(* The tables of a row that are not empty. *)
Row(base, size, tag) == { Table(base, size, tag, s) : s \in { t \in DOMAIN size : size[t] # 0 } }

LEMMA WholeRow ==
    ASSUME NEW k \in Nat, NEW size \in [1 .. k -> Nat], NEW base \in Nat, NEW tag
    PROVE  Whole(Row(base, size, tag), base, base + Total(size)[k])
  <1>1. \A r \in Row(base, size, tag) : \E s \in 1 .. k : r = Table(base, size, tag, s)
    BY DEF Row
  <1>2. \A s \in 1 .. k : size[s] # 0 => Table(base, size, tag, s) \in Row(base, size, tag)
    BY DEF Row
  <1>3. \A r \in Row(base, size, tag) : Within(r, base, base + Total(size)[k])
    BY <1>1, RowWithin
  <1>4. \A r \in Row(base, size, tag), q \in Row(base, size, tag) : r = q \/ Disjoint(r, q)
    BY <1>1, RowPair
  <1>5. ASSUME NEW byte \in Nat, base <= byte, byte < base + Total(size)[k]
        PROVE  \E r \in Row(base, size, tag) : r.at <= byte /\ byte < r.at + r.len
    <2>1. PICK s \in 1 .. k :
              /\ size[s] # 0
              /\ Table(base, size, tag, s).at <= byte
              /\ byte < Table(base, size, tag, s).at + Table(base, size, tag, s).len
      BY <1>5, RowCovers
    <2> QED BY <1>2, <2>1
  <1> QED BY <1>3, <1>4, <1>5 DEF Whole

(* What is in the file: the headers, three rows, the symbols, the strings. *)
LEMMA FileContents ==
    ASSUME HasSymbols, TypeInv, pc = "done", LayoutInv
    PROVE  out = {HeaderTable} \cup Row(Headers, DataSize, "data")
                 \cup Row(DataEnd, RelocsSize, "relocs") \cup Row(RelocsEnd, LinesSize, "lines")
                 \cup {SymbolTable} \cup {StringTable}
  <1> DEFINE D == Row(Headers, DataSize, "data")
             R == Row(DataEnd, RelocsSize, "relocs")
             L == Row(RelocsEnd, LinesSize, "lines")
  <1>1. out = Tables(LastScn) \cup {SymbolTable, StringTable}
    BY SymbolCount DEF LayoutInv
  <1>2. Sections = 1 .. LastScn /\ \A s \in Sections : Placed(s)
    BY ObjFacts DEF TypeInv, LayoutInv
  <1>3. \A s \in Sections : /\ DataSize[s] # 0 <=> scn[s].size # 0
                            /\ RelocsSize[s] # 0 <=> scn[s].nreloc # 0
                            /\ LinesSize[s] # 0 <=> scn[s].nlnno # 0
    <2>1. \A s \in Sections : scn[s].nreloc \in Nat /\ scn[s].nlnno \in Nat
      BY DEF TypeInv, Header
    <2> QED BY <2>1 DEF DataSize, RelocsSize, LinesSize, RelocSize, LineSize
  <1>4. DOMAIN DataSize = Sections /\ DOMAIN RelocsSize = Sections /\ DOMAIN LinesSize = Sections
    BY DEF DataSize, RelocsSize, LinesSize
  <1>5. \A s \in Sections : TablesOf(s) \subseteq D \cup R \cup L
    <2> SUFFICES ASSUME NEW s \in Sections PROVE TablesOf(s) \subseteq D \cup R \cup L
      OBVIOUS
    <2>1. scn[s].size # 0 => DataTable(s) \in D
      BY <1>2, <1>3, <1>4, TablesInRows DEF Row
    <2>2. scn[s].nreloc # 0 => RelocTable(s) \in R
      BY <1>2, <1>3, <1>4, TablesInRows DEF Row
    <2>3. scn[s].nlnno # 0 => LineTable(s) \in L
      BY <1>2, <1>3, <1>4, TablesInRows DEF Row
    <2> HIDE DEF D, R, L
    <2> QED BY <2>1, <2>2, <2>3 DEF TablesOf
  <1>6. \A r \in D : \E s \in Sections : r \in TablesOf(s)
    BY <1>2, <1>3, <1>4, TablesInRows DEF Row, TablesOf
  <1>7. \A r \in R : \E s \in Sections : r \in TablesOf(s)
    BY <1>2, <1>3, <1>4, TablesInRows DEF Row, TablesOf
  <1>8. \A r \in L : \E s \in Sections : r \in TablesOf(s)
    BY <1>2, <1>3, <1>4, TablesInRows DEF Row, TablesOf
  <1> HIDE DEF D, R, L
  <1>9. UNION { TablesOf(s) : s \in Sections } = D \cup R \cup L
    BY <1>5, <1>6, <1>7, <1>8
  <1>10. out = {HeaderTable} \cup D \cup R \cup L \cup {SymbolTable} \cup {StringTable}
    BY <1>1, <1>2, <1>9 DEF Tables
  <1> QED BY <1>10 DEF D, R, L

LEMMA OutIsWhole ==
    ASSUME HasSymbols, TypeInv, pc = "done", LayoutInv
    PROVE  Whole(out, 0, pos) /\ pos \in Nat
  <1> DEFINE D == Row(Headers, DataSize, "data")
             R == Row(DataEnd, RelocsSize, "relocs")
             L == Row(RelocsEnd, LinesSize, "lines")
             symEnd == LinesEnd + NSyms * SymSize
             strEnd == symEnd + obj.strtabsz
  <1>1. /\ Headers \in Nat /\ DataEnd \in Nat /\ RelocsEnd \in Nat /\ LinesEnd \in Nat
        /\ Headers <= DataEnd /\ DataEnd <= RelocsEnd /\ RelocsEnd <= LinesEnd /\ symptr = LinesEnd
        /\ NSyms * SymSize \in Nat /\ obj.strtabsz \in Nat
    BY Bands
  <1>2. LastScn \in Nat
    BY ObjFacts DEF TypeInv
  <1>3. Whole({HeaderTable}, 0, Headers)
    <2>1. 0 + Headers = Headers /\ 0 \in Nat
      BY <1>1
    <2>2. Whole({HeaderTable}, 0, 0 + Headers)
      BY <1>1, <2>1, WholeAlone DEF HeaderTable
    <2> QED BY <2>1, <2>2
  <1>4. Whole(D, Headers, DataEnd)
    BY <1>1, <1>2, RowTypes, WholeRow DEF DataEnd
  <1>5. Whole(R, DataEnd, RelocsEnd)
    BY <1>1, <1>2, RowTypes, WholeRow DEF RelocsEnd
  <1>6. Whole(L, RelocsEnd, LinesEnd)
    BY <1>1, <1>2, RowTypes, WholeRow DEF LinesEnd
  <1>7. Whole({SymbolTable}, LinesEnd, symEnd)
    BY <1>1, WholeAlone DEF SymbolTable
  <1>8. symEnd \in Nat /\ strEnd \in Nat /\ LinesEnd <= symEnd /\ symEnd <= strEnd
    <2>1. PICK m : m = NSyms * SymSize
      OBVIOUS
    <2> QED BY <1>1, <2>1
  <1>9. Whole({StringTable}, symEnd, strEnd)
    BY <1>1, <1>8, WholeAlone DEF StringTable
  <1> HIDE DEF D, R, L, symEnd, strEnd
  <1>10. Whole({HeaderTable} \cup D, 0, DataEnd) /\ 0 <= Headers /\ 0 \in Nat
    BY <1>1, <1>3, <1>4, WholeJoined
  <1>11. 0 <= DataEnd /\ 0 <= RelocsEnd /\ 0 <= LinesEnd /\ 0 <= symEnd
    BY <1>1, <1>8
  <1>12. Whole({HeaderTable} \cup D \cup R, 0, RelocsEnd)
    BY <1>1, <1>5, <1>10, <1>11, WholeJoined
  <1>13. Whole({HeaderTable} \cup D \cup R \cup L, 0, LinesEnd)
    BY <1>1, <1>6, <1>11, <1>12, WholeJoined
  <1>14. Whole({HeaderTable} \cup D \cup R \cup L \cup {SymbolTable}, 0, symEnd)
    BY <1>1, <1>7, <1>8, <1>11, <1>13, WholeJoined
  <1>15. Whole({HeaderTable} \cup D \cup R \cup L \cup {SymbolTable} \cup {StringTable}, 0, strEnd)
    BY <1>8, <1>9, <1>11, <1>14, WholeJoined
  <1>16. pos = strEnd
    BY <1>1, SymbolCount DEF LayoutInv, strEnd, symEnd
  <1>17. out = {HeaderTable} \cup D \cup R \cup L \cup {SymbolTable} \cup {StringTable}
    BY FileContents DEF D, R, L
  <1> QED BY <1>8, <1>15, <1>16, <1>17

LEMMA LayoutSuffices == ASSUME HasSymbols, TypeInv, LayoutInv PROVE FileIsWhole
  <1> SUFFICES ASSUME pc = "done"
               PROVE  /\ \A a \in out, b \in out : a = b \/ Disjoint(a, b)
                      /\ \A byte \in 0 .. pos - 1 : \E r \in out : r.at <= byte /\ byte < r.at + r.len
                      /\ \A r \in out : r.at + r.len <= pos
                      /\ \A s \in Sections :
                            /\ scn[s].size > 0   => Region(scn[s].scnptr, DataSize[s], <<"data", s>>) \in out
                            /\ scn[s].nreloc > 0 => Region(scn[s].relptr, RelocsSize[s], <<"relocs", s>>) \in out
                            /\ scn[s].nlnno > 0  => Region(scn[s].lnnoptr, LinesSize[s], <<"lines", s>>) \in out
    BY DEF FileIsWhole
  <1>1. Whole(out, 0, pos) /\ pos \in Nat
    BY OutIsWhole
  <1>2. \A a \in out, b \in out : a = b \/ Disjoint(a, b)
    BY <1>1 DEF Whole
  <1>3. \A byte \in 0 .. pos - 1 : \E r \in out : r.at <= byte /\ byte < r.at + r.len
    <2> SUFFICES ASSUME NEW byte \in 0 .. pos - 1
                 PROVE  \E r \in out : r.at <= byte /\ byte < r.at + r.len
      OBVIOUS
    <2>1. byte \in Nat /\ 0 <= byte /\ byte < pos
      BY <1>1
    <2> QED BY <1>1, <2>1 DEF Whole
  <1>4. \A r \in out : r.at + r.len <= pos
    BY <1>1 DEF Whole, Within
  <1>5. ASSUME NEW s \in Sections
        PROVE  /\ scn[s].size > 0   => DataTable(s) \in out
               /\ scn[s].nreloc > 0 => RelocTable(s) \in out
               /\ scn[s].nlnno > 0  => LineTable(s) \in out
    <2>1. out = Tables(LastScn) \cup {SymbolTable, StringTable}
      BY SymbolCount DEF LayoutInv
    <2>2. TablesOf(s) \subseteq out
      BY <2>1, ObjFacts DEF Tables, TypeInv
    <2>3. /\ scn[s].size > 0 => scn[s].size # 0
          /\ scn[s].nreloc > 0 => scn[s].nreloc # 0
          /\ scn[s].nlnno > 0 => scn[s].nlnno # 0
      BY DEF TypeInv, Header
    <2> QED BY <2>2, <2>3 DEF TablesOf
  <1> QED BY <1>2, <1>3, <1>4, <1>5 DEF DataTable, RelocTable, LineTable

(* In the file written for an object with symbols no byte belongs to two   *)
(* tables or to none, and every header points at the tables of its         *)
(* section: the sums that place the tables (l.391-440) agree with the      *)
(* order in which they are written, whatever the sections hold.            *)
THEOREM TheFileIsWhole ==
    ASSUME HasSymbols
    PROVE  Spec => []FileIsWhole
  <1>1. TypeInv /\ LayoutInv => FileIsWhole
    BY LayoutSuffices
  <1> QED BY <1>1, TypesHold, LayoutHolds, PTL

-----------------------------------------------------------------------------
(* Remainders: Word is any number. *)

LEMMA Division ==
    ASSUME NEW w \in Nat \ {0}, NEW x \in Int
    PROVE  \E q \in Int, r \in 0 .. w - 1 : x = w * q + r /\ r = x % w
  OBVIOUS

LEMMA SameQuotient ==
    ASSUME NEW w \in Nat \ {0}, NEW a \in Int, NEW b \in Int, NEW r \in 0 .. w - 1, NEW q \in 0 .. w - 1,
           w * a + r = w * b + q
    PROVE  r = q
  <1>1. w * (a - b) = q - r /\ a - b \in Int
    OBVIOUS
  <1>2. PICK d \in Int : d = a - b
    BY <1>1
  <1>3. w * d = q - r /\ q - r < w /\ -w < q - r
    BY <1>1, <1>2
  <1>4. d >= 1 => w * d >= w
    OBVIOUS
  <1>5. d <= -1 => w * d <= -w
    OBVIOUS
  <1>6. d = 0
    BY <1>3, <1>4, <1>5
  <1> QED BY <1>3, <1>6

LEMMA Multiples ==
    ASSUME NEW w \in Nat \ {0}, NEW x \in Int, NEW y \in Int, NEW m \in Int, x = y + w * m
    PROVE  x % w = y % w
  <1>1. PICK a \in Int, r \in 0 .. w - 1 : x = w * a + r /\ r = x % w
    BY Division
  <1>2. PICK b \in Int, q \in 0 .. w - 1 : y = w * b + q /\ q = y % w
    BY Division
  <1>3. x = w * a + r /\ y = w * b + q /\ w * a \in Int /\ w * b \in Int /\ w * m \in Int
    BY <1>1, <1>2
  <1>4. w * a + r = w * b + q + w * m
    BY <1>3
  <1>5. w * b + w * m = w * (b + m) /\ w * b \in Int /\ w * m \in Int /\ w * (b + m) \in Int /\ w * a \in Int
    OBVIOUS
  <1>6. w * a + r = w * (b + m) + q
    BY <1>4, <1>5
  <1>7. r = q
    BY <1>6, SameQuotient
  <1> QED BY <1>1, <1>2, <1>7

LEMMA AddedRemainder ==
    ASSUME NEW w \in Nat \ {0}, NEW x \in Int, NEW y \in Int
    PROVE  ((x % w) + y) % w = (x + y) % w
  <1>1. PICK a \in Int, r \in 0 .. w - 1 : x = w * a + r /\ r = x % w
    BY Division
  <1>2. r \in Int /\ r = x % w
    BY <1>1
  <1>3. x = w * a + r /\ w * a \in Int
    BY <1>1
  <1>4. x + y = (r + y) + w * a /\ x + y \in Int /\ r + y \in Int
    BY <1>3
  <1>5. (x + y) % w = (r + y) % w
    BY <1>4, Multiples
  <1> QED BY <1>2, <1>5

LEMMA SmallRemainder == ASSUME NEW w \in Nat \ {0}, NEW x \in 0 .. w - 1 PROVE x % w = x
  <1>1. x \in Nat /\ x < w
    OBVIOUS
  <1> QED BY <1>1

-----------------------------------------------------------------------------
(* What the program takes for granted of an object, and what the linker    *)
(* does with it.                                                           *)

(* The entries of the table that are symbols, those that get a jump, what  *)
(* the program makes of a symbol, and where the linker puts it.            *)
Auxiliaries == {j \in DOMAIN obj.symbols : j > 0 /\ obj.symbols[j - 1].numaux > 0}
Heads       == DOMAIN obj.symbols \ Auxiliaries
Replaced    == {j \in Heads : NeedsJump(obj.symbols[j])}
After(e)    == IF Listed(e.name) THEN Undefined(e) ELSE e
JumpOf(j)   == [value |-> obj.symbols[j].value, symndx |-> j, scnum |-> obj.symbols[j].scnum]
Place(j)    == obj.symbols[j].value - obj.sections[obj.symbols[j].scnum].vaddr + Base[obj.symbols[j].scnum]
Elsewhere(j) == Listed(obj.symbols[j].name) \/ obj.symbols[j].scnum <= 0

(* Static symbols of the list are functions of .text, each at a place of its own. *)
SymbolsFormed ==
    /\ \A j \in Auxiliaries : obj.symbols[j].numaux = 0
    /\ \A j \in Replaced :
          /\ obj.symbols[j].scnum \in Sections
          /\ obj.sections[obj.symbols[j].scnum].name = ".text"
    /\ \A j \in Replaced : \A k \in Replaced : j # k => Place(j) # Place(k)

(* Without the symbol itself, a reference is to a static one by its section. *)
ByPlace(ref) == Listed(obj.symbols[ref.to].name) => ref.to \in Replaced

(* A relocation of a reference names its symbol, or another one of its section. *)
Binds(rel, ref) ==
    /\ rel.vaddr = ref.at /\ rel.type = ref.type
    /\ \/ rel.symndx = ref.to
       \/ /\ rel.symndx \in Heads /\ ~Listed(obj.symbols[rel.symndx].name)
          /\ obj.symbols[rel.symndx].scnum = obj.symbols[ref.to].scnum
          /\ obj.symbols[ref.to].scnum \in Sections
          /\ ByPlace(ref)

HasReloc(ref) == \E r \in 1 .. Len(obj.relocs[ref.scn]) : obj.relocs[ref.scn][r].vaddr = ref.at

(* A reference is a field of its section, not in an instruction a jump is  *)
(* put over; without a relocation it is relative, within the section.      *)
RefFormed(ref) ==
    /\ ref.scn \in Sections /\ ref.at \in Nat /\ ref.type \in {"REL32", "ADDR32"} /\ ref.to \in Heads
    /\ obj.sections[ref.scn].vaddr <= ref.at
    /\ ref.at <= obj.sections[ref.scn].vaddr + obj.sections[ref.scn].size
    /\ \A j \in Replaced :
          obj.symbols[j].scnum = ref.scn =>
             \/ ref.at + 4 <= obj.symbols[j].value
             \/ ref.at >= obj.symbols[j].value + PatchSize
    /\ HasReloc(ref) \/ (ref.type = "REL32" /\ obj.symbols[ref.to].scnum = ref.scn /\ ByPlace(ref))

RefsFormed ==
    /\ \A ref \in obj.refs : RefFormed(ref)
    /\ \A ref \in obj.refs : \A other \in obj.refs :
          ref.scn = other.scn /\ ref.at = other.at => ref = other
    /\ \A s \in Sections : \A r \in 1 .. Len(obj.relocs[s]) :
          \E ref \in RefsOf(obj, s) : Binds(obj.relocs[s][r], ref)
    /\ \A s \in Sections : \A r \in 1 .. Len(obj.relocs[s]) : \A q \in 1 .. Len(obj.relocs[s]) :
          obj.relocs[s][r].vaddr = obj.relocs[s][q].vaddr => r = q

(* Addresses are words, and what a jump is put over is all there is at its place. *)
LinkFormed ==
    /\ \A s \in Sections : Base[s] \in Int
    /\ \A j \in Heads :
          /\ Elsewhere(j) => Replacement[obj.symbols[j].name] \in 0 .. Word - 1
          /\ obj.symbols[j].scnum > 0 => obj.symbols[j].scnum \in Sections /\ Place(j) \in 0 .. Word - 1
    /\ \A j \in Heads : \A k \in Replaced :
          /\ Elsewhere(j) => Replacement[obj.symbols[j].name] # Place(k)
          /\ j # k /\ obj.symbols[j].scnum > 0 /\ (\E ref \in obj.refs : ref.to = j) => Place(j) # Place(k)

WellFormed == SymbolsFormed /\ RefsFormed /\ LinkFormed

LEMMA SameObject ==
    ASSUME obj' = obj
    PROVE  /\ Auxiliaries' = Auxiliaries /\ Heads' = Heads /\ Replaced' = Replaced /\ Sections' = Sections
           /\ \A j : JumpOf(j)' = JumpOf(j)
           /\ \A e : After(e)' = After(e)
  BY DEF Auxiliaries, Heads, Replaced, Sections, LastScn, JumpOf, After, NeedsJump, Listed, Undefined

LEMMA FormedKept == ASSUME WellFormed, obj' = obj PROVE WellFormed'
  <1>1. Heads' = Heads /\ Replaced' = Replaced /\ Sections' = Sections /\ Auxiliaries' = Auxiliaries
    BY SameObject
  <1>2. \A j : Place(j)' = Place(j) /\ Elsewhere(j)' = Elsewhere(j)
    BY DEF Place, Elsewhere, Listed
  <1>3. SymbolsFormed'
    BY <1>1, <1>2 DEF WellFormed, SymbolsFormed
  <1>4. \A ref : ByPlace(ref)' = ByPlace(ref) /\ HasReloc(ref)' = HasReloc(ref)
    BY <1>1 DEF ByPlace, HasReloc, Listed
  <1>5. \A ref : RefFormed(ref)' = RefFormed(ref)
    BY <1>1, <1>4 DEF RefFormed
  <1>6. \A rel, ref : Binds(rel, ref)' = Binds(rel, ref)
    BY <1>1, <1>4 DEF Binds, Listed
  <1>7. RefsFormed'
    BY <1>1, <1>5, <1>6 DEF WellFormed, RefsFormed, RefsOf
  <1>8. LinkFormed'
    BY <1>1, <1>2 DEF WellFormed, LinkFormed
  <1> QED BY <1>3, <1>7, <1>8 DEF WellFormed

-----------------------------------------------------------------------------
(* The symbols: each is what the program makes of it, and each jump asked  *)
(* for is that of one of them.                                             *)

Done(j) ==
    /\ symtab[j] = After(obj.symbols[j])
    /\ j \in Replaced => \E k \in 1 .. Len(mk) : mk[k] = JumpOf(j)

SymInv ==
    /\ pc \in Reading => i \notin Auxiliaries
    /\ \A k \in 1 .. Len(mk) : \E j \in Replaced : mk[k] = JumpOf(j)
    /\ pc # "failed" => \A j \in Heads : (pc \in Reading => j < i) => Done(j)

LEMMA SymbolsOf ==
    ASSUME TypeInv
    PROVE  /\ NSyms \in Nat /\ DOMAIN obj.symbols = 0 .. NSyms - 1
           /\ \A j \in DOMAIN obj.symbols : j \in Nat /\ obj.symbols[j] \in Symbol
           /\ \A j \in Heads : j \in DOMAIN obj.symbols
           /\ \A j \in Replaced : j \in Heads
  <1>1. NSyms \in Nat /\ DOMAIN obj.symbols = 0 .. NSyms - 1 /\ obj.symbols \in [DOMAIN obj.symbols -> Symbol]
    BY ObjFacts DEF TypeInv
  <1>2. \A j \in 0 .. NSyms - 1 : j \in Nat
    BY <1>1
  <1> QED BY <1>1, <1>2 DEF Heads, Replaced

LEMMA SymStarts == ASSUME Init, TypeInv PROVE SymInv
  <1>1. pc = "open" /\ i = 0 /\ mk = <<>>
    BY DEF Init
  <1>2. 0 \notin Auxiliaries
    BY DEF Auxiliaries
  <1>3. \A k \in 1 .. Len(mk) : FALSE
    BY <1>1
  <1>4. \A j \in Heads : ~(j < i)
    BY <1>1, SymbolsOf
  <1> QED BY <1>1, <1>2, <1>3, <1>4 DEF SymInv, Reading

LEMMA SymbolDone ==
    ASSUME WellFormed, TypeInv, MarksInv, SymInv, ReadSymbol, pc' # "failed"
    PROVE  SymInv'
  <1> DEFINE e == obj.symbols[i]
  <1>1. /\ obj' = obj /\ pc = "symbols" /\ pc' = pc /\ i < NSyms
        /\ mk' = IF NeedsJump(symtab[i])
                 THEN Append(mk, [value |-> symtab[i].value, symndx |-> i, scnum |-> symtab[i].scnum]) ELSE mk
        /\ symtab' = IF Listed(symtab[i].name) THEN [symtab EXCEPT ![i] = Undefined(symtab[i])] ELSE symtab
        /\ i' = i + 1 + symtab[i].numaux /\ ~(symtab[i].numaux > 1)
    BY DEF ReadSymbol
  <1>2. /\ i \in Nat /\ i \in DOMAIN obj.symbols /\ mk \in Seq(Jump) /\ Len(mk) \in Nat
        /\ symtab \in [DOMAIN obj.symbols -> Symbol]
    <2>1. NSyms \in Nat /\ DOMAIN obj.symbols = 0 .. NSyms - 1 /\ i \in Nat
      BY SymbolsOf DEF TypeInv
    <2> QED BY <1>1, <2>1, LenProperties DEF TypeInv
  <1>3. symtab[i] = e /\ e \in Symbol /\ i \in Heads /\ e.numaux \in {0, 1}
    <2>1. i >= i
      BY <1>2
    <2>2. symtab[i] = e
      BY <1>1, <1>2, <2>1 DEF MarksInv, Reading
    <2>3. e \in Symbol
      BY <1>2, SymbolsOf
    <2>4. e.numaux \in Nat /\ e.numaux <= 1
      <3>1. e.numaux \in Nat /\ ~(e.numaux > 1)
        BY <1>1, <2>2, <2>3 DEF Symbol
      <3> QED BY <3>1
    <2>5. i \in Heads
      BY <1>1, <1>2 DEF SymInv, Heads, Reading
    <2> QED BY <2>2, <2>3, <2>4, <2>5
  <1> HIDE DEF e
  <1>4. /\ NeedsJump(e) => mk' = Append(mk, JumpOf(i))
        /\ ~NeedsJump(e) => mk' = mk
        /\ i' = i + 1 + e.numaux
    BY <1>1, <1>3 DEF JumpOf, e
  <1>5. JumpOf(i) \in Jump
    BY <1>2, <1>3 DEF JumpOf, Jump, Symbol, e
  <1>6. i \in Replaced <=> NeedsJump(e)
    BY <1>3 DEF Replaced, e
  <1>7. /\ NeedsJump(e) => /\ Len(mk') = Len(mk) + 1 /\ mk'[Len(mk) + 1] = JumpOf(i)
                           /\ \A k \in 1 .. Len(mk) : mk'[k] = mk[k]
        /\ ~NeedsJump(e) => mk' = mk
    BY <1>2, <1>4, <1>5, AppendProperties
  <1>8. \A k \in 1 .. Len(mk) : k \in 1 .. Len(mk') /\ mk'[k] = mk[k]
    BY <1>2, <1>7
  <1>9. \A k \in 1 .. Len(mk') : k \in 1 .. Len(mk) \/ (NeedsJump(e) /\ k = Len(mk) + 1)
    BY <1>2, <1>7
  <1>10. \A k \in 1 .. Len(mk') : \E j \in Replaced : mk'[k] = JumpOf(j)
    BY <1>6, <1>7, <1>8, <1>9 DEF SymInv
  <1>11. i' \notin Auxiliaries
    <2>1. CASE e.numaux = 0
      <3>1. i' = i + 1 /\ i' - 1 = i
        BY <1>2, <1>4, <2>1
      <3> QED BY <2>1, <3>1 DEF Auxiliaries, e
    <2>2. CASE e.numaux = 1
      <3>1. i' = i + 2 /\ i' - 1 = i + 1 /\ i + 1 > 0 /\ i + 1 - 1 = i
        BY <1>2, <1>4, <2>2
      <3>2. i' \in DOMAIN obj.symbols => i + 1 \in DOMAIN obj.symbols
        BY <1>2, <3>1, SymbolsOf
      <3>3. i + 1 \in DOMAIN obj.symbols => i + 1 \in Auxiliaries
        <4>1. e.numaux > 0
          BY <2>2
        <4>2. ASSUME NEW j \in DOMAIN obj.symbols, j > 0, j - 1 = i PROVE j \in Auxiliaries
          <5>1. obj.symbols[j - 1] = e
            BY <4>2 DEF e
          <5>2. obj.symbols[j - 1].numaux > 0
            BY <4>1, <5>1
          <5>3. j \in Nat
            BY SymbolsOf
          <5> QED BY <4>2, <5>2, <5>3 DEF Auxiliaries
        <4> QED BY <1>2, <3>1, <4>2
      <3>4. i + 1 \in Auxiliaries => obj.symbols[i + 1].numaux = 0
        BY DEF WellFormed, SymbolsFormed
      <3> QED BY <3>1, <3>2, <3>3, <3>4 DEF Auxiliaries
    <2> QED BY <1>3, <2>1, <2>2
  <1>12. ASSUME NEW j \in Heads, j < i' PROVE j <= i
    <2>1. j \in Nat /\ j \in DOMAIN obj.symbols /\ j \notin Auxiliaries
      BY SymbolsOf DEF Heads
    <2>2. CASE j = i + 1 /\ e.numaux = 1
      <3>1. j > 0 /\ j - 1 = i
        BY <1>2, <2>2
      <3> QED BY <2>1, <2>2, <3>1 DEF Auxiliaries, e
    <2>3. CASE ~(j = i + 1 /\ e.numaux = 1)
      BY <1>2, <1>3, <1>4, <1>12, <2>1, <2>3
    <2> QED BY <2>2, <2>3
  <1>13. ASSUME NEW j \in Heads, j < i'
         PROVE  symtab'[j] = After(obj.symbols[j]) /\ (j \in Replaced => \E k \in 1 .. Len(mk') : mk'[k] = JumpOf(j))
    <2>1. j \in Nat /\ j \in DOMAIN obj.symbols
      BY SymbolsOf
    <2>2. CASE j = i
      <3>1. symtab'[j] = After(e)
        BY <1>1, <1>2, <1>3, <2>2 DEF After
      <3>2. j \in Replaced => mk'[Len(mk) + 1] = JumpOf(j) /\ Len(mk) + 1 \in 1 .. Len(mk')
        BY <1>2, <1>6, <1>7, <2>2
      <3> QED BY <2>2, <3>1, <3>2 DEF e
    <2>3. CASE j # i
      <3>1. j < i
        BY <1>2, <1>12, <1>13, <2>1, <2>3
      <3>2. Done(j)
        BY <1>1, <3>1 DEF SymInv
      <3>3. symtab'[j] = symtab[j]
        BY <1>1, <1>2, <2>3
      <3> QED BY <1>8, <3>2, <3>3 DEF Done
    <2> QED BY <2>2, <2>3
  <1>14. /\ Heads' = Heads /\ Replaced' = Replaced /\ Auxiliaries' = Auxiliaries
         /\ \A j : JumpOf(j)' = JumpOf(j)
         /\ \A e1 : After(e1)' = After(e1)
    BY <1>1, SameObject
  <1>15. \A j \in Heads : j < i' => Done(j)'
    BY <1>1, <1>13, <1>14 DEF Done
  <1> QED BY <1>1, <1>10, <1>11, <1>14, <1>15 DEF SymInv, Reading

LEMMA SymbolsStay ==
    ASSUME SymInv, UNCHANGED <<obj, mk, symtab>>,
           \/ pc' = "failed"
           \/ pc' \in Reading /\ pc \in Reading /\ i' = i
           \/ pc' \notin Reading /\ pc \notin Reading /\ pc # "failed"
           \/ pc' \notin Reading /\ pc = "symbols" /\ \A j \in Heads : j < i
    PROVE  SymInv'
  <1>1. /\ Heads' = Heads /\ Replaced' = Replaced /\ Auxiliaries' = Auxiliaries
        /\ \A j : JumpOf(j)' = JumpOf(j)
        /\ \A e : After(e)' = After(e)
    BY SameObject
  <1>2. \A j : Done(j) => Done(j)'
    BY <1>1 DEF Done
  <1>3. \A k \in 1 .. Len(mk)' : \E j \in Replaced' : mk'[k] = JumpOf(j)'
    BY <1>1 DEF SymInv
  <1>4. pc' \in Reading => i' \notin Auxiliaries'
    BY <1>1 DEF SymInv, Reading
  <1>5. pc' # "failed" => \A j \in Heads : (pc' \in Reading => j < i') => Done(j)
    BY DEF SymInv, Reading
  <1> QED BY <1>1, <1>2, <1>3, <1>4, <1>5 DEF SymInv

LEMMA SymKept == ASSUME WellFormed, TypeInv, MarksInv, SymInv, [Next]_vars PROVE SymInv'
  <1>1. CASE ReadSymbol /\ pc' # "failed"
    BY <1>1, SymbolDone
  <1>2. CASE ReadSymbol /\ pc' = "failed"
    <2>1. UNCHANGED <<obj, mk, symtab>>
      BY <1>2 DEF ReadSymbol
    <2> QED BY <1>2, <2>1, SymbolsStay
  <1>3. CASE SymbolsRead
    <2>1. UNCHANGED <<obj, mk, symtab>> /\ pc = "symbols" /\ pc' = "section" /\ i >= NSyms
      BY <1>3 DEF SymbolsRead
    <2>2. ASSUME NEW j \in Heads PROVE j < i
      <3>1. j \in 0 .. NSyms - 1 /\ NSyms \in Nat /\ i \in Nat
        BY SymbolsOf DEF TypeInv
      <3> QED BY <2>1, <3>1
    <2> QED BY <2>1, <2>2, SymbolsStay DEF Reading
  <1>4. CASE Open
    <2>1. UNCHANGED <<obj, mk, symtab, i>> /\ pc = "open" /\ pc' \in {"symbols", "failed"}
      BY <1>4 DEF Open
    <2> QED BY <2>1, SymbolsStay DEF Reading
  <1>5. CASE UNCHANGED vars
    <2>1. UNCHANGED <<obj, mk, symtab, i, pc>>
      BY <1>5 DEF vars
    <2> QED BY <2>1, SymbolsStay DEF Reading
  <1>6. CASE Next /\ ~ReadSymbol /\ ~SymbolsRead /\ ~Open
    <2>1. /\ UNCHANGED <<obj, mk, symtab>>
          /\ pc' = "failed" \/ (pc' \notin Reading /\ pc \notin Reading /\ pc # "failed")
      BY <1>6 DEF Next, ReadSection, ReadReloc, RelocsRead, OtherSection, MakeJump,
         ReadLines, StartLayout, SkipEmpty, PlaceSection, WriteHeaders, WriteSection,
         WriteSymbols, IOFails, Reading
    <2> QED BY <2>1, SymbolsStay
  <1> QED BY <1>1, <1>2, <1>3, <1>4, <1>5, <1>6

-----------------------------------------------------------------------------
(* The code of a section: the fields of the references, the jumps, and the *)
(* relocations added for them.                                             *)

SameHeader(s) ==
    /\ scn[s].name = obj.sections[s].name
    /\ scn[s].vaddr = obj.sections[s].vaddr /\ scn[s].size = obj.sections[s].size

(* The field of a reference after the first m relocations of its section.  *)
PatchOf(ref) == IF ref.type = "REL32" THEN (-(ref.at + 4)) % Word ELSE 0
Names(ref, r) ==
    /\ obj.relocs[ref.scn][r].vaddr = ref.at
    /\ Listed(obj.symbols[obj.relocs[ref.scn][r].symndx].name)
Field(ref, m) == IF \E r \in 1 .. m : Names(ref, r) THEN PatchOf(ref) ELSE FieldValue(obj, ref)
Settled(s, m) ==
    \A ref \in RefsOf(obj, s) : ref.at \in DOMAIN sdata[s] /\ sdata[s][ref.at] = Field(ref, m)

(* The first m jumps asked for are made where they belong to section s.    *)
JumpMade(s, jump) ==
    /\ [scn |-> s, at |-> jump.value] \in jumps
    /\ jump.value + 1 \in DOMAIN sdata[s] /\ sdata[s][jump.value + 1] = Operand(jump)
    /\ \E r \in 1 .. scn[s].nreloc : relocs[s][r] = JumpReloc(jump)
Made(s, m) == \A k \in 1 .. m : mk[k].scnum = s => JumpMade(s, mk[k])
(* What follows the relocations read are those of jumps. *)
Added(s) ==
    \A r \in 1 .. scn[s].nreloc : r > Len(obj.relocs[s]) =>
        \E k \in 1 .. Len(mk) : mk[k].scnum = s /\ relocs[s][r] = JumpReloc(mk[k])
Complete(s) == Settled(s, Len(obj.relocs[s])) /\ Made(s, Len(mk)) /\ Added(s)

Past(s) == pc \in AllRead \/ (pc \in {"section"} \cup InScn /\ s < i)

CodeInv ==
    /\ DOMAIN sdata = Sections
    /\ \A s \in Sections : SameHeader(s)
    /\ pc = "relocs" => Settled(i, n - 1)
    /\ pc = "jumps" => Settled(i, Len(obj.relocs[i])) /\ Made(i, n - 1) /\ Added(i)
    /\ \A s \in Sections : Past(s) => Complete(s)
    /\ \A x \in jumps : \E k \in 1 .. Len(mk) : x = [scn |-> mk[k].scnum, at |-> mk[k].value]

LEMMA CodeStarts == ASSUME Init PROVE CodeInv
  <1>1. pc = "open" /\ jumps = {} /\ sdata = [s \in Sections |-> << >>]
    BY DEF Init
  <1>2. \A s \in Sections : SameHeader(s)
    BY DEF Init, SameHeader
  <1> QED BY <1>1, <1>2 DEF CodeInv, Past, AllRead, InScn

LEMMA SettledStays ==
    ASSUME NEW s, NEW m, obj' = obj, sdata'[s] = sdata[s], Settled(s, m)
    PROVE  Settled(s, m)'
  BY DEF Settled, RefsOf, Field, Names, PatchOf, FieldValue, Listed

LEMMA MadeStays ==
    ASSUME NEW s, NEW m, mk' = mk, sdata'[s] = sdata[s], relocs'[s] = relocs[s],
           scn'[s].nreloc = scn[s].nreloc, jumps \subseteq jumps', Made(s, m)
    PROVE  Made(s, m)'
  BY DEF Made, JumpMade, Operand, JumpReloc

LEMMA AddedStays ==
    ASSUME NEW s, obj' = obj, mk' = mk, relocs'[s] = relocs[s], scn'[s].nreloc = scn[s].nreloc, Added(s)
    PROVE  Added(s)'
  BY DEF Added, JumpReloc

LEMMA CompleteStays ==
    ASSUME NEW s, obj' = obj, mk' = mk, sdata'[s] = sdata[s], relocs'[s] = relocs[s],
           scn'[s].nreloc = scn[s].nreloc, jumps \subseteq jumps', Complete(s)
    PROVE  Complete(s)'
  <1>1. Settled(s, Len(obj.relocs[s])) /\ Made(s, Len(mk)) /\ Added(s)
    BY DEF Complete
  <1>2. Settled(s, Len(obj.relocs[s]))'
    BY <1>1 DEF Settled, RefsOf, Field, Names, PatchOf, FieldValue, Listed
  <1>3. Made(s, Len(mk))'
    BY <1>1 DEF Made, JumpMade, Operand, JumpReloc
  <1> QED BY <1>1, <1>2, <1>3, AddedStays DEF Complete

(* Headers keep what the linker reads of them. *)
LEMMA HeadersStay ==
    ASSUME TypeInv, [Next]_vars
    PROVE  \A s \in Sections : scn'[s].name = scn[s].name /\ scn'[s].vaddr = scn[s].vaddr /\ scn'[s].size = scn[s].size
  <1> SUFFICES ASSUME NEW s \in Sections
               PROVE  scn'[s].name = scn[s].name /\ scn'[s].vaddr = scn[s].vaddr /\ scn'[s].size = scn[s].size
    OBVIOUS
  <1>1. scn \in [Sections -> Header] /\ scn[s] \in Header
    BY DEF TypeInv
  <1>2. CASE PlaceSection
    <2>1. PICK a, b, c : scn' = [scn EXCEPT ![i].scnptr = a, ![i].relptr = b, ![i].lnnoptr = c]
      BY <1>2 DEF PlaceSection
    <2>2. CASE s = i
      <3>1. scn'[s] = [scn[s] EXCEPT !.scnptr = a, !.relptr = b, !.lnnoptr = c]
        BY <1>1, <2>1, <2>2
      <3> QED BY <1>1, <3>1 DEF Header
    <2>3. CASE s # i
      BY <1>1, <2>1, <2>3
    <2> QED BY <2>2, <2>3
  <1>3. CASE MakeJump /\ pc' # "failed"
    <2>1. PICK a : scn' = [scn EXCEPT ![i].nreloc = a]
      BY <1>3 DEF MakeJump
    <2>2. CASE s = i
      <3>1. scn'[s] = [scn[s] EXCEPT !.nreloc = a]
        BY <1>1, <2>1, <2>2
      <3> QED BY <1>1, <3>1 DEF Header
    <2>3. CASE s # i
      BY <1>1, <2>1, <2>3
    <2> QED BY <2>2, <2>3
  <1>4. CASE ~PlaceSection /\ ~(MakeJump /\ pc' # "failed")
    <2>1. CASE MakeJump
      BY <1>4, <2>1 DEF MakeJump, tables
    <2>2. CASE ~MakeJump
      BY <1>4, <2>2 DEF Next, vars, tables, output, Open, ReadSymbol, SymbolsRead, ReadSection, ReadReloc, RelocsRead,
         OtherSection, ReadLines, StartLayout, SkipEmpty, WriteHeaders, WriteSection, WriteSymbols, IOFails
    <2> QED BY <2>1, <2>2
  <1> QED BY <1>2, <1>3, <1>4

LEMMA SameHeadersKept ==
    ASSUME TypeInv, [Next]_vars, obj' = obj, \A s \in Sections : SameHeader(s)
    PROVE  \A s \in Sections : SameHeader(s)'
  BY HeadersStay DEF SameHeader

LEMMA ObjectStays == [Next]_vars => obj' = obj
  BY DEF Next, vars, Open, ReadSymbol, SymbolsRead, ReadSection, ReadReloc, RelocsRead, OtherSection, MakeJump,
     ReadLines, StartLayout, SkipEmpty, PlaceSection, WriteHeaders, WriteSection, WriteSymbols, IOFails

LEMMA InSections ==
    ASSUME TypeInv, pc \in {"section"} \cup InScn
    PROVE  /\ LastScn \in Nat /\ Sections = 1 .. LastScn /\ i \in Nat /\ n \in Nat /\ Len(mk) \in Nat
           /\ \A s \in Sections : s \in Nat /\ Len(obj.relocs[s]) \in Nat
           /\ pc \in InScn => i \in Sections /\ n # 0
  <1>1. LastScn \in Nat /\ Sections = 1 .. LastScn /\ \A s \in Sections : Len(obj.relocs[s]) \in Nat
    BY ObjFacts DEF TypeInv
  <1>2. \A s \in 1 .. LastScn : s \in Nat
    BY <1>1
  <1>3. Len(mk) \in Nat
    BY LenProperties DEF TypeInv
  <1> QED BY <1>1, <1>2, <1>3 DEF TypeInv

(* The data as it is read: an address is of one reference only. *)
LEMMA SectionCode ==
    ASSUME WellFormed, TypeInv, CodeInv, [Next]_vars, ReadSection
    PROVE  CodeInv'
  <1>1. /\ UNCHANGED <<obj, mk, scn, jumps, i>> /\ n' = 1 /\ pc = "section" /\ pc' = "relocs" /\ i \in Sections
        /\ sdata' = [sdata EXCEPT ![i] = DataOf(obj, i)]
        /\ relocs' = [relocs EXCEPT ![i] = [r \in 1 .. scn[i].nreloc + Len(mk) |-> EmptySlot]]
    BY DEF ReadSection
  <1>2. Sections' = Sections /\ i \in Nat /\ \A s \in Sections : s \in Nat
    BY <1>1, SameObject, InSections
  <1>3. /\ DOMAIN sdata' = Sections /\ sdata'[i] = DataOf(obj, i)
        /\ \A s \in Sections : s # i => sdata'[s] = sdata[s] /\ relocs'[s] = relocs[s]
    BY <1>1 DEF CodeInv, TypeInv
  <1>4. ASSUME NEW ref \in RefsOf(obj, i)
        PROVE  ref.at \in DOMAIN DataOf(obj, i) /\ DataOf(obj, i)[ref.at] = FieldValue(obj, ref)
    <2>1. ref.at \in {other.at : other \in RefsOf(obj, i)}
      OBVIOUS
    <2>2. \A other \in RefsOf(obj, i) : other.at = ref.at => other = ref
      BY DEF RefsOf, WellFormed, RefsFormed
    <2>3. (CHOOSE other \in RefsOf(obj, i) : other.at = ref.at) = ref
      BY <2>2
    <2> QED BY <2>1, <2>3 DEF DataOf
  <1>5. ASSUME NEW m, m = 0, NEW ref PROVE Field(ref, m) = FieldValue(obj, ref)
    BY <1>5 DEF Field
  <1>6. ASSUME NEW c, c = i, NEW m, m = 0 PROVE Settled(c, m)'
    <2>1. \A ref \in RefsOf(obj, c) : ref.at \in DOMAIN sdata'[c] /\ sdata'[c][ref.at] = Field(ref, m)
      BY <1>3, <1>4, <1>5, <1>6
    <2> QED BY <1>1, <2>1, SMTT(30) DEF Settled, RefsOf, Field, Names, PatchOf, FieldValue, Listed
  <1>7. Settled(i, n - 1)'
    <2>1. n' - 1 = 0
      BY <1>1
    <2> QED BY <1>1, <1>6, <2>1
  <1>8. ASSUME NEW s \in Sections, s < i PROVE Complete(s)'
    <2>1. Complete(s) /\ s # i
      BY <1>1, <1>2, <1>8 DEF CodeInv, Past
    <2> QED BY <1>1, <1>3, <2>1, CompleteStays
  <1>9. \A s \in Sections : Past(s)' => s < i
    BY <1>1 DEF Past, AllRead
  <1>10. \A s \in Sections : SameHeader(s)'
    BY <1>1, SameHeadersKept DEF CodeInv
  <1>11. \A x \in jumps' : \E k \in 1 .. Len(mk)' : x = [scn |-> mk'[k].scnum, at |-> mk'[k].value]
    BY <1>1 DEF CodeInv
  <1> QED BY <1>1, <1>2, <1>3, <1>7, <1>8, <1>9, <1>10, <1>11 DEF CodeInv

(* A relocation that names a listed symbol settles the field of its        *)
(* reference, and every other leaves the fields alone.                     *)
LEMMA RelocOf ==
    ASSUME WellFormed, TypeInv, SymInv, CodeInv, pc = "relocs", NEW m \in 1 .. Len(obj.relocs[i])
    PROVE  \E ref \in RefsOf(obj, i) :
              /\ Binds(obj.relocs[i][m], ref) /\ RefFormed(ref)
              /\ InSection(obj.relocs[i][m].vaddr)
              /\ symtab[obj.relocs[i][m].symndx].name = obj.symbols[obj.relocs[i][m].symndx].name
  <1> DEFINE rel == obj.relocs[i][m]
  <1>1. i \in Sections
    BY InSections DEF InScn
  <1>2. PICK ref \in RefsOf(obj, i) : Binds(rel, ref)
    BY <1>1 DEF WellFormed, RefsFormed
  <1>3. RefFormed(ref) /\ ref.scn = i
    BY <1>2 DEF RefsOf, WellFormed, RefsFormed
  <1>4. rel.vaddr = ref.at /\ rel.symndx \in Heads
    BY <1>2, <1>3 DEF Binds, RefFormed
  <1>5. InSection(rel.vaddr)
    <2>1. scn[i].vaddr = obj.sections[i].vaddr /\ scn[i].size = obj.sections[i].size
      BY <1>1 DEF CodeInv, SameHeader
    <2>2. /\ obj.sections[i].vaddr <= ref.at /\ ref.at <= obj.sections[i].vaddr + obj.sections[i].size
          /\ ref.at \in Nat
      BY <1>3 DEF RefFormed
    <2>3. scn[i].vaddr \in Nat /\ scn[i].size \in Nat
      BY <1>1 DEF TypeInv, Header
    <2> QED BY <1>4, <2>1, <2>2, <2>3 DEF InSection
  <1>6. symtab[rel.symndx].name = obj.symbols[rel.symndx].name
    <2>1. symtab[rel.symndx] = After(obj.symbols[rel.symndx])
      BY <1>4 DEF SymInv, Done, Reading
    <2>2. obj.symbols[rel.symndx] \in Symbol
      BY <1>4, SymbolsOf
    <2> QED BY <2>1, <2>2 DEF After, Undefined, Symbol
  <1> QED BY <1>2, <1>3, <1>5, <1>6

LEMMA NextField ==
    ASSUME NEW ref, NEW m \in Nat, m # 0
    PROVE  Field(ref, m) = IF Names(ref, m) THEN PatchOf(ref) ELSE Field(ref, m - 1)
  <1>1. 1 .. m = 1 .. m - 1 \cup {m} /\ m \in 1 .. m
    OBVIOUS
  <1>2. (\E r \in 1 .. m : Names(ref, r)) <=> (Names(ref, m) \/ \E r \in 1 .. m - 1 : Names(ref, r))
    BY <1>1
  <1> QED BY <1>2 DEF Field

LEMMA RelocCode ==
    ASSUME WellFormed, TypeInv, SymInv, SlotInv, CodeInv, [Next]_vars, ReadReloc, pc' # "failed"
    PROVE  CodeInv'
  <1> DEFINE rel == obj.relocs[i][n]
             L == Listed(obj.symbols[rel.symndx].name)
             f == sdata[i]
  <1>1. /\ UNCHANGED <<obj, mk, scn, jumps, i>> /\ pc = "relocs" /\ pc' = pc /\ n <= scn[i].nreloc /\ n' = n + 1
        /\ relocs' = [relocs EXCEPT ![i][n] = rel]
        /\ sdata' = IF InSection(rel.vaddr) /\ Listed(symtab[rel.symndx].name)
                    THEN [sdata EXCEPT ![i][rel.vaddr] = Patched(rel)] ELSE sdata
    BY DEF ReadReloc
  <1>2. /\ i \in Sections /\ i \in Nat /\ n \in Nat /\ n # 0 /\ scn[i].nreloc = Len(obj.relocs[i])
        /\ \A s \in Sections : s \in Nat
    <2>1. i \in Sections /\ i \in Nat /\ n \in Nat /\ n # 0 /\ \A s \in Sections : s \in Nat
      BY <1>1, InSections DEF InScn
    <2>2. i >= i
      BY <2>1
    <2> QED BY <1>1, <2>1, <2>2 DEF TypeInv, Unread
  <1>3. n \in 1 .. Len(obj.relocs[i]) /\ Sections' = Sections
    <2>1. Len(obj.relocs[i]) \in Nat
      BY <1>1, <1>2, InSections DEF InScn
    <2> QED BY <1>1, <1>2, <2>1, SameObject
  <1>4. PICK ref0 \in RefsOf(obj, i) :
           Binds(rel, ref0) /\ InSection(rel.vaddr) /\ symtab[rel.symndx].name = obj.symbols[rel.symndx].name
    BY <1>1, <1>3, RelocOf
  <1>5. /\ L => sdata' = [sdata EXCEPT ![i] = [f EXCEPT ![rel.vaddr] = Patched(rel)]]
        /\ ~L => sdata' = sdata
    BY <1>1, <1>4
  <1>6. rel.vaddr = ref0.at /\ Patched(rel) = PatchOf(ref0)
    BY <1>4 DEF Binds, Patched, PatchOf
  <1>7. Settled(i, n - 1) /\ DOMAIN sdata = Sections
    BY <1>1 DEF CodeInv
  <1>8. \A ref \in RefsOf(obj, i) : Names(ref, n) <=> (L /\ ref.at = rel.vaddr)
    BY DEF Names, RefsOf
  <1>9. \A ref \in RefsOf(obj, i) : ref.at = rel.vaddr => ref = ref0
    BY <1>4, <1>6 DEF RefsOf, WellFormed, RefsFormed
  <1> HIDE DEF L, rel, f
  <1>10. DOMAIN sdata' = Sections /\ \A s \in Sections : s # i => sdata'[s] = sdata[s] /\ relocs'[s] = relocs[s]
    <2>1. \A s \in Sections : s # i => relocs'[s] = relocs[s]
      BY <1>1 DEF TypeInv
    <2>2. CASE L
      BY <1>5, <1>7, <2>1, <2>2
    <2>3. CASE ~L
      BY <1>5, <1>7, <2>1, <2>3
    <2> QED BY <2>2, <2>3
  <1>11. ASSUME NEW ref \in RefsOf(obj, i)
         PROVE  ref.at \in DOMAIN sdata'[i] /\ sdata'[i][ref.at] = Field(ref, n)
    <2>1. ref.at \in DOMAIN f /\ f[ref.at] = Field(ref, n - 1)
      BY <1>7 DEF Settled, f
    <2>2. Field(ref, n) = IF Names(ref, n) THEN PatchOf(ref) ELSE Field(ref, n - 1)
      BY <1>2, NextField
    <2>3. CASE L
      <3>1. sdata'[i] = [f EXCEPT ![rel.vaddr] = Patched(rel)]
        BY <1>2, <1>5, <1>7, <2>3
      <3>2. ref.at \in DOMAIN sdata'[i]
            /\ sdata'[i][ref.at] = IF ref.at = rel.vaddr THEN Patched(rel) ELSE f[ref.at]
        BY <2>1, <3>1
      <3>3. CASE ref.at = rel.vaddr
        BY <1>6, <1>8, <1>9, <2>2, <2>3, <3>2, <3>3
      <3>4. CASE ref.at # rel.vaddr
        BY <1>8, <2>1, <2>2, <3>2, <3>4
      <3> QED BY <3>3, <3>4
    <2>4. CASE ~L
      BY <1>5, <1>8, <2>1, <2>2, <2>4 DEF f
    <2> QED BY <2>3, <2>4
  <1>12. ASSUME NEW c, c = i, NEW m, m = n PROVE Settled(c, m)'
    <2>1. \A ref \in RefsOf(obj, c) : ref.at \in DOMAIN sdata'[c] /\ sdata'[c][ref.at] = Field(ref, m)
      BY <1>11, <1>12
    <2> QED BY <1>1, <2>1 DEF Settled, RefsOf, Field, Names, PatchOf, FieldValue, Listed
  <1>13. Settled(i, n - 1)'
    <2>1. n' - 1 = n
      BY <1>1, <1>2
    <2> QED BY <1>1, <1>12, <2>1
  <1>14. ASSUME NEW s \in Sections, s < i PROVE Complete(s)'
    <2>1. Complete(s) /\ s # i
      BY <1>1, <1>2, <1>14 DEF CodeInv, Past, InScn
    <2> QED BY <1>1, <1>10, <2>1, CompleteStays
  <1>15. \A s \in Sections : Past(s)' => s < i
    BY <1>1 DEF Past, AllRead
  <1>16. \A s \in Sections : SameHeader(s)'
    BY <1>1, SameHeadersKept DEF CodeInv
  <1>17. \A x \in jumps' : \E k \in 1 .. Len(mk)' : x = [scn |-> mk'[k].scnum, at |-> mk'[k].value]
    BY <1>1 DEF CodeInv
  <1> QED BY <1>1, <1>3, <1>10, <1>13, <1>14, <1>15, <1>16, <1>17 DEF CodeInv

LEMMA RelocsReadCode ==
    ASSUME TypeInv, SlotInv, CodeInv, [Next]_vars, RelocsRead
    PROVE  CodeInv'
  <1>1. UNCHANGED <<obj, mk, scn, sdata, jumps, relocs, i>> /\ pc = "relocs" /\ pc' = "jumps" /\ n > scn[i].nreloc /\ n' = 1
    BY DEF RelocsRead, tables
  <1>2. /\ i \in Sections /\ i \in Nat /\ n \in Nat /\ n # 0 /\ scn[i].nreloc = Len(obj.relocs[i])
        /\ \A s \in Sections : s \in Nat /\ Len(obj.relocs[s]) \in Nat
    <2>1. i \in Sections /\ i \in Nat /\ n \in Nat /\ n # 0 /\ \A s \in Sections : s \in Nat /\ Len(obj.relocs[s]) \in Nat
      BY <1>1, InSections DEF InScn
    <2>2. i >= i
      BY <2>1
    <2> QED BY <1>1, <2>1, <2>2 DEF TypeInv, Unread
  <1>3. n - 1 = Len(obj.relocs[i])
    <2>1. n <= Len(obj.relocs[i]) + 1
      BY <1>1 DEF SlotInv
    <2> QED BY <1>1, <1>2, <2>1
  <1>4. Settled(i, Len(obj.relocs[i]))
    BY <1>1, <1>3 DEF CodeInv
  <1>5. ASSUME NEW c, c = i, NEW m, m = Len(obj.relocs[i]) PROVE Settled(c, m)'
    BY <1>1, <1>4, <1>5, SettledStays
  <1>6. Settled(i, Len(obj.relocs[i]))'
    BY <1>1, <1>5
  <1>7. Made(i, n - 1)'
    <2>1. \A m : m = 0 => 1 .. m = {}
      OBVIOUS
    <2>2. n' - 1 = 0
      BY <1>1
    <2> QED BY <2>1, <2>2 DEF Made
  <1>8. Added(i)'
    <2>1. Added(i)
      <3>1. \A r \in 1 .. scn[i].nreloc : ~(r > Len(obj.relocs[i]))
        BY <1>2
      <3> QED BY <3>1 DEF Added
    <2> QED BY <1>1, <2>1, AddedStays
  <1>9. ASSUME NEW s \in Sections, s < i PROVE Complete(s)'
    <2>1. Complete(s)
      BY <1>1, <1>9 DEF CodeInv, Past, InScn
    <2> QED BY <1>1, <2>1, CompleteStays
  <1>10. \A s \in Sections : Past(s)' => s < i
    BY <1>1 DEF Past, AllRead
  <1>11. \A s \in Sections : SameHeader(s)'
    BY <1>1, SameHeadersKept DEF CodeInv
  <1>12. Sections' = Sections
    BY <1>1, SameObject
  <1>13. DOMAIN sdata' = Sections /\ \A x \in jumps' : \E k \in 1 .. Len(mk)' : x = [scn |-> mk'[k].scnum, at |-> mk'[k].value]
    BY <1>1 DEF CodeInv
  <1> QED BY <1>1, <1>6, <1>7, <1>8, <1>9, <1>10, <1>11, <1>12, <1>13 DEF CodeInv

LEMMA OtherCode ==
    ASSUME WellFormed, TypeInv, SymInv, CodeInv, [Next]_vars, OtherSection
    PROVE  CodeInv'
  <1>1. /\ UNCHANGED <<obj, mk, scn, sdata, jumps, relocs, i>> /\ pc = "jumps" /\ pc' = "jumps" /\ n <= Len(mk) /\ n' = n + 1
        /\ mk[n].scnum # i \/ scn[i].name # ".text"
    BY DEF OtherSection, tables
  <1>2. i \in Sections /\ i \in Nat /\ n \in Nat /\ n # 0 /\ Len(mk) \in Nat /\ n \in 1 .. Len(mk)
    <2>1. i \in Sections /\ i \in Nat /\ n \in Nat /\ n # 0 /\ Len(mk) \in Nat
      BY <1>1, InSections DEF InScn
    <2> QED BY <1>1, <2>1
  <1>3. mk[n].scnum # i
    <2>1. PICK j \in Replaced : mk[n] = JumpOf(j)
      BY <1>2 DEF SymInv
    <2>2. mk[n].scnum = obj.symbols[j].scnum
      BY <2>1 DEF JumpOf
    <2>3. obj.sections[obj.symbols[j].scnum].name = ".text"
      BY <2>1 DEF WellFormed, SymbolsFormed
    <2>4. scn[i].name = obj.sections[i].name
      BY <1>2 DEF CodeInv, SameHeader
    <2> QED BY <1>1, <2>2, <2>3, <2>4
  <1>4. Made(i, n)
    <2>1. Made(i, n - 1)
      BY <1>1 DEF CodeInv
    <2>2. \A k \in 1 .. n : k \in 1 .. n - 1 \/ k = n
      BY <1>2
    <2> QED BY <1>3, <2>1, <2>2 DEF Made
  <1>5. ASSUME NEW c, c = i, NEW m, m = n PROVE Made(c, m)'
    BY <1>1, <1>4, <1>5, MadeStays
  <1>6. Made(i, n - 1)'
    <2>1. n' - 1 = n
      BY <1>1, <1>2
    <2> QED BY <1>1, <1>5, <2>1
  <1>7. ASSUME NEW c, c = i, NEW m, m = Len(obj.relocs[i]) PROVE Settled(c, m)'
    <2>1. Settled(c, m)
      BY <1>1, <1>7 DEF CodeInv
    <2> QED BY <1>1, <2>1, SettledStays
  <1>8. Settled(i, Len(obj.relocs[i]))' /\ Added(i)'
    <2>1. Added(i)
      BY <1>1 DEF CodeInv
    <2> QED BY <1>1, <1>7, <2>1, AddedStays
  <1>9. ASSUME NEW s \in Sections, s < i PROVE Complete(s)'
    <2>1. Complete(s)
      BY <1>1, <1>9 DEF CodeInv, Past, InScn
    <2> QED BY <1>1, <2>1, CompleteStays
  <1>10. \A s \in Sections : Past(s)' => s < i
    BY <1>1 DEF Past, AllRead
  <1>11. \A s \in Sections : SameHeader(s)'
    BY <1>1, SameHeadersKept DEF CodeInv
  <1>12. Sections' = Sections
    BY <1>1, SameObject
  <1>13. DOMAIN sdata' = Sections /\ \A x \in jumps' : \E k \in 1 .. Len(mk)' : x = [scn |-> mk'[k].scnum, at |-> mk'[k].value]
    BY <1>1 DEF CodeInv
  <1> QED BY <1>1, <1>6, <1>8, <1>9, <1>10, <1>11, <1>12, <1>13 DEF CodeInv

LEMMA LinesCode ==
    ASSUME TypeInv, SlotInv, CodeInv, [Next]_vars, ReadLines
    PROVE  CodeInv'
  <1>1. UNCHANGED <<obj, mk, scn, sdata, jumps, relocs>> /\ i' = i + 1 /\ pc = "jumps" /\ pc' = "section" /\ n > Len(mk)
    BY DEF ReadLines, tables
  <1>2. i \in Sections /\ i \in Nat /\ n \in Nat /\ Len(mk) \in Nat /\ \A s \in Sections : s \in Nat
    BY <1>1, InSections DEF InScn
  <1>3. n - 1 = Len(mk)
    <2>1. n <= Len(mk) + 1
      BY <1>1 DEF SlotInv
    <2> QED BY <1>1, <1>2, <2>1
  <1>4. Complete(i)
    BY <1>1, <1>3 DEF CodeInv, Complete
  <1>5. ASSUME NEW s \in Sections, s < i' PROVE Complete(s)'
    <2>1. s = i \/ s < i
      BY <1>1, <1>2, <1>5
    <2>2. Complete(s)
      BY <1>1, <1>4, <2>1 DEF CodeInv, Past, InScn
    <2> QED BY <1>1, <2>2, CompleteStays
  <1>6. \A s \in Sections : Past(s)' => s < i'
    BY <1>1 DEF Past, AllRead
  <1>7. \A s \in Sections : SameHeader(s)'
    BY <1>1, SameHeadersKept DEF CodeInv
  <1>8. Sections' = Sections
    BY <1>1, SameObject
  <1>9. DOMAIN sdata' = Sections /\ \A x \in jumps' : \E k \in 1 .. Len(mk)' : x = [scn |-> mk'[k].scnum, at |-> mk'[k].value]
    BY <1>1 DEF CodeInv
  <1> QED BY <1>1, <1>5, <1>6, <1>7, <1>8, <1>9 DEF CodeInv

(* Steps after the last section was read, and those before the first. *)
LEMMA LaterCode ==
    ASSUME TypeInv, CodeInv, [Next]_vars,
           StartLayout \/ SkipEmpty \/ PlaceSection \/ WriteHeaders \/ WriteSection \/ WriteSymbols
    PROVE  CodeInv'
  <1>1. UNCHANGED <<obj, mk, sdata, jumps, relocs>>
    BY DEF StartLayout, SkipEmpty, PlaceSection, WriteHeaders, WriteSection, WriteSymbols, tables, output
  <1>2. \A s \in Sections : scn'[s].nreloc = scn[s].nreloc
    <2>1. CASE PlaceSection
      BY <2>1, PlaceFacts
    <2>2. CASE ~PlaceSection
      BY <2>2 DEF StartLayout, SkipEmpty, WriteHeaders, WriteSection, WriteSymbols, tables, output
    <2> QED BY <2>1, <2>2
  <1>3. \A s \in Sections : Complete(s)
    <2>1. CASE StartLayout
      <3>1. LastScn \in Nat /\ Sections = 1 .. LastScn /\ pc = "section" /\ i \notin Sections
        BY <2>1, ObjFacts DEF TypeInv, StartLayout
      <3>2. i \in 1 .. LastScn + 1
        BY <3>1 DEF TypeInv
      <3>3. \A s \in Sections : s < i
        BY <3>1, <3>2
      <3> QED BY <3>1, <3>3 DEF CodeInv, Past
    <2>2. CASE ~StartLayout
      <3>1. pc \in AllRead
        BY <2>2 DEF SkipEmpty, PlaceSection, WriteHeaders, WriteSection, WriteSymbols, AllRead
      <3> QED BY <3>1 DEF CodeInv, Past
    <2> QED BY <2>1, <2>2
  <1>4. \A s \in Sections : Complete(s)'
    BY <1>1, <1>2, <1>3, CompleteStays
  <1>5. pc' \notin InScn
    BY DEF StartLayout, SkipEmpty, PlaceSection, WriteHeaders, WriteSection, WriteSymbols, InScn
  <1>6. Sections' = Sections
    BY <1>1, SameObject
  <1>7. \A s \in Sections : SameHeader(s)'
    BY <1>1, SameHeadersKept DEF CodeInv
  <1>8. DOMAIN sdata' = Sections /\ \A x \in jumps' : \E k \in 1 .. Len(mk)' : x = [scn |-> mk'[k].scnum, at |-> mk'[k].value]
    BY <1>1 DEF CodeInv
  <1> QED BY <1>4, <1>5, <1>6, <1>7, <1>8 DEF CodeInv, InScn

LEMMA EarlierCode ==
    ASSUME TypeInv, CodeInv, [Next]_vars, UNCHANGED <<sdata, jumps>>,
           mk' = mk \/ ReadSymbol,
           pc' \in Reading \cup {"failed"} \/ (pc' = "section" /\ i' = 1)
    PROVE  CodeInv'
  <1>1. obj' = obj /\ Sections' = Sections
    BY ObjectStays, SameObject
  <1>2. \A s \in Sections : ~(s < 1)
    <2>1. LastScn \in Nat /\ Sections = 1 .. LastScn
      BY ObjFacts DEF TypeInv
    <2> QED BY <2>1
  <1>3. pc' \notin InScn \cup AllRead /\ (pc' = "section" => i' = 1)
    BY DEF Reading, InScn, AllRead
  <1>4. \A s \in Sections : ~Past(s)'
    BY <1>2, <1>3 DEF Past, InScn
  <1>5. ASSUME NEW k \in 1 .. Len(mk) PROVE k \in 1 .. Len(mk') /\ mk'[k] = mk[k]
    <2>1. CASE mk' = mk
      BY <2>1
    <2>2. CASE mk' # mk
      <3>1. mk' = Append(mk, [value |-> symtab[i].value, symndx |-> i, scnum |-> symtab[i].scnum])
        BY <2>2 DEF ReadSymbol
      <3>2. i \in Nat /\ symtab[i] \in Symbol
        <4>1. NSyms \in Nat /\ DOMAIN obj.symbols = 0 .. NSyms - 1 /\ i \in Nat
          BY SymbolsOf DEF TypeInv
        <4>2. i < NSyms
          BY <2>2 DEF ReadSymbol
        <4> QED BY <4>1, <4>2 DEF TypeInv
      <3>3. [value |-> symtab[i].value, symndx |-> i, scnum |-> symtab[i].scnum] \in Jump
        BY <3>2 DEF Symbol, Jump
      <3>4. mk \in Seq(Jump) /\ Len(mk) \in Nat
        BY LenProperties DEF TypeInv
      <3>5. Len(mk') = Len(mk) + 1 /\ \A c \in 1 .. Len(mk) : mk'[c] = mk[c]
        BY <3>1, <3>3, <3>4, AppendProperties
      <3> QED BY <3>4, <3>5
    <2> QED BY <2>1, <2>2
  <1>6. \A x \in jumps' : \E k \in 1 .. Len(mk)' : x = [scn |-> mk'[k].scnum, at |-> mk'[k].value]
    BY <1>5 DEF CodeInv
  <1>7. \A s \in Sections : SameHeader(s)'
    BY <1>1, SameHeadersKept DEF CodeInv
  <1>8. DOMAIN sdata' = Sections
    BY DEF CodeInv
  <1> QED BY <1>1, <1>3, <1>4, <1>6, <1>7, <1>8 DEF CodeInv, InScn

(* What a jump changes. *)
LEMMA JumpStep ==
    ASSUME CountsFit, TypeInv, MarksInv, SlotInv, CodeInv, MakeJump, pc' # "failed"
    PROVE  /\ UNCHANGED <<obj, mk, i>> /\ pc = "jumps" /\ pc' = "jumps" /\ n' = n + 1 /\ mk[n].scnum = i
           /\ i \in Sections /\ n \in Nat /\ n # 0 /\ Len(mk) \in Nat /\ n \in 1 .. Len(mk)
           /\ DOMAIN sdata' = Sections
           /\ sdata'[i] = Put(sdata[i], mk[n].value + 1, Operand(mk[n]))
           /\ jumps' = jumps \cup {[scn |-> i, at |-> mk[n].value]}
           /\ \A s \in Sections : s # i => sdata'[s] = sdata[s] /\ relocs'[s] = relocs[s] /\ scn'[s] = scn[s]
           /\ scn[i].nreloc \in Nat /\ scn'[i].nreloc = scn[i].nreloc + 1
           /\ Len(obj.relocs[i]) \in Nat /\ Len(obj.relocs[i]) <= scn[i].nreloc
           /\ relocs'[i][scn[i].nreloc + 1] = JumpReloc(mk[n])
           /\ \A r \in 1 .. scn[i].nreloc : relocs'[i][r] = relocs[i][r]
  <1> DEFINE row == relocs[i]
             jr == JumpReloc(mk[n])
             was == scn[i].nreloc
  <1>1. /\ UNCHANGED <<obj, mk, i>> /\ pc = "jumps" /\ pc' = "jumps" /\ n' = n + 1 /\ n <= Len(mk) /\ mk[n].scnum = i
        /\ sdata' = [sdata EXCEPT ![i] = Put(@, mk[n].value + 1, Operand(mk[n]))]
        /\ jumps' = jumps \cup {[scn |-> i, at |-> mk[n].value]}
        /\ relocs' = [relocs EXCEPT ![i][FreeSlot] = jr]
        /\ scn' = [scn EXCEPT ![i].nreloc = (@ + 1) % CountLimit]
    BY DEF MakeJump
  <1>2. i \in Sections /\ n \in Nat /\ n # 0 /\ Len(mk) \in Nat /\ Len(obj.relocs[i]) \in Nat /\ n \in 1 .. Len(mk)
    <2>1. i \in Sections /\ n \in Nat /\ n # 0 /\ Len(mk) \in Nat /\ Len(obj.relocs[i]) \in Nat
      BY <1>1, InSections DEF InScn
    <2> QED BY <1>1, <2>1
  <1>3. /\ was \in Nat /\ FreeSlot \in 1 .. Len(row) /\ was + 1 < CountLimit /\ FreeSlot = was + 1
        /\ Len(obj.relocs[i]) < FreeSlot
    BY <1>1, RoomForJump DEF FreeSlot
  <1>4. jr \in Reloc
    <2>1. mk[n] \in Jump
      BY <1>2, ElementOfSeq DEF TypeInv
    <2> QED BY <2>1 DEF JumpReloc, Reloc, Jump, RelocTypes
  <1>5. row \in Seq(Reloc) /\ scn[i] \in Header /\ Len(row) \in Nat
    <2>1. row \in Seq(Reloc) /\ scn[i] \in Header
      BY <1>2 DEF TypeInv
    <2> QED BY <2>1, LenProperties
  <1>6. relocs'[i] = [row EXCEPT ![FreeSlot] = jr] /\ \A s \in Sections : s # i => relocs'[s] = relocs[s]
    BY <1>1, <1>2 DEF TypeInv
  <1>7. (was + 1) % CountLimit = was + 1
    <2>1. was + 1 \in Nat /\ CountLimit \in Nat
      BY <1>3, LimitAssumption
    <2> QED BY <1>3, <2>1, Unwrapped
  <1>8. scn'[i].nreloc = was + 1 /\ \A s \in Sections : s # i => scn'[s] = scn[s]
    <2>1. scn' = [scn EXCEPT ![i] = [scn[i] EXCEPT !.nreloc = (scn[i].nreloc + 1) % CountLimit]]
      BY <1>1
    <2>2. scn'[i] = [scn[i] EXCEPT !.nreloc = was + 1] /\ \A s \in Sections : s # i => scn'[s] = scn[s]
      BY <1>2, <1>7, <2>1 DEF TypeInv
    <2> QED BY <1>5, <2>2 DEF Header
  <1>9. \A r \in 1 .. Len(row) : relocs'[i][r] = IF r = FreeSlot THEN jr ELSE row[r]
    BY <1>4, <1>5, <1>6, ChangedSeq
  <1>10. relocs'[i][was + 1] = jr /\ \A r \in 1 .. was : relocs'[i][r] = row[r]
    <2> HIDE DEF row, jr, was
    <2>1. \A r \in 1 .. was : r \in 1 .. Len(row) /\ r # FreeSlot
      BY <1>3, <1>5
    <2> QED BY <1>3, <1>9, <2>1
  <1>11. /\ DOMAIN sdata' = Sections /\ sdata'[i] = Put(sdata[i], mk[n].value + 1, Operand(mk[n]))
         /\ \A s \in Sections : s # i => sdata'[s] = sdata[s]
    BY <1>1, <1>2 DEF CodeInv
  <1>12. Len(obj.relocs[i]) <= was
    <2> HIDE DEF was
    <2> QED BY <1>2, <1>3
  <1> QED BY <1>1, <1>2, <1>3, <1>6, <1>8, <1>10, <1>11, <1>12

LEMMA PutPlaces ==
    ASSUME NEW f, NEW x, NEW y, NEW a, a \in DOMAIN f \/ a = x
    PROVE  a \in DOMAIN Put(f, x, y) /\ Put(f, x, y)[a] = IF a = x THEN y ELSE f[a]
  BY DEF Put

LEMMA JumpCode ==
    ASSUME CountsFit, WellFormed, TypeInv, MarksInv, SlotInv, SymInv, CodeInv, [Next]_vars,
           MakeJump, pc' # "failed"
    PROVE  CodeInv'
  <1> DEFINE f == sdata[i]
             jump == mk[n]
             was == scn[i].nreloc
  <1>1. /\ UNCHANGED <<obj, mk, i>> /\ pc = "jumps" /\ pc' = "jumps" /\ n' = n + 1 /\ jump.scnum = i
        /\ i \in Sections /\ n \in Nat /\ n # 0 /\ Len(mk) \in Nat /\ n \in 1 .. Len(mk)
        /\ DOMAIN sdata' = Sections
        /\ sdata'[i] = Put(f, jump.value + 1, Operand(jump))
        /\ jumps' = jumps \cup {[scn |-> i, at |-> jump.value]}
        /\ \A s \in Sections : s # i => sdata'[s] = sdata[s] /\ relocs'[s] = relocs[s] /\ scn'[s] = scn[s]
        /\ was \in Nat /\ scn'[i].nreloc = was + 1
        /\ Len(obj.relocs[i]) \in Nat /\ Len(obj.relocs[i]) <= was
        /\ relocs'[i][was + 1] = JumpReloc(jump)
        /\ \A r \in 1 .. was : relocs'[i][r] = relocs[i][r]
    BY JumpStep
  <1>2. Settled(i, Len(obj.relocs[i])) /\ Made(i, n - 1) /\ Added(i)
    BY <1>1 DEF CodeInv
  <1>3. PICK j \in Replaced : jump = JumpOf(j)
    BY <1>1 DEF SymInv
  <1>4. obj.symbols[j].scnum = i /\ obj.symbols[j].value = jump.value /\ jump.value \in Nat
    <2>1. obj.symbols[j] \in Symbol
      BY SymbolsOf
    <2> QED BY <1>1, <1>3, <2>1 DEF JumpOf, Symbol
  <1> HIDE DEF jump, was, f
  <1>5. ASSUME NEW ref \in RefsOf(obj, i) PROVE ref.at # jump.value + 1
    <2>1. RefFormed(ref) /\ ref.scn = i
      BY DEF RefsOf, WellFormed, RefsFormed
    <2>2. ref.at \in Nat /\ (ref.at + 4 <= jump.value \/ ref.at >= jump.value + 5)
      BY <1>3, <1>4, <2>1 DEF RefFormed, PatchSize
    <2> QED BY <1>4, <2>2
  <1>6. ASSUME NEW c, c = i, NEW m, m = Len(obj.relocs[i]) PROVE Settled(c, m)'
    <2>1. ASSUME NEW ref \in RefsOf(obj, c)
          PROVE  ref.at \in DOMAIN sdata'[c] /\ sdata'[c][ref.at] = Field(ref, m)
      <3>1. ref.at \in DOMAIN f /\ f[ref.at] = Field(ref, m) /\ ref.at # jump.value + 1
        BY <1>2, <1>5, <1>6, <2>1 DEF Settled, f
      <3> QED BY <1>1, <1>6, <3>1, PutPlaces
    <2> QED BY <1>1, <2>1, SMTT(30) DEF Settled, RefsOf, Field, Names, PatchOf, FieldValue, Listed
  <1>7. 1 .. was + 1 = 1 .. was \cup {was + 1}
    BY <1>1
  <1>8. ASSUME NEW k \in 1 .. n, mk[k].scnum = i
        PROVE  /\ [scn |-> i, at |-> mk[k].value] \in jumps'
               /\ mk[k].value + 1 \in DOMAIN sdata'[i] /\ sdata'[i][mk[k].value + 1] = Operand(mk[k])
               /\ \E r \in 1 .. scn'[i].nreloc : relocs'[i][r] = JumpReloc(mk[k])
    <2>1. CASE k = n
      <3>1. mk[k] = jump
        BY <2>1 DEF jump
      <3>2. was + 1 \in 1 .. scn'[i].nreloc
        BY <1>1, <1>7
      <3> QED BY <1>1, <3>1, <3>2, PutPlaces
    <2>2. CASE k # n
      <3>1. k \in 1 .. n - 1
        BY <1>1, <2>2
      <3>2. JumpMade(i, mk[k])
        BY <1>2, <1>8, <3>1 DEF Made
      <3>3. mk[k].value + 1 \in DOMAIN f /\ f[mk[k].value + 1] = Operand(mk[k])
        BY <3>2 DEF JumpMade, f
      <3>4. mk[k].value + 1 = jump.value + 1 => Operand(mk[k]) = Operand(jump)
        <4>1. mk[k] \in Jump
          <5>1. k \in 1 .. Len(mk)
            BY <1>1
          <5> QED BY <5>1, ElementOfSeq DEF TypeInv
        <4>2. mk[k].value \in Nat
          BY <4>1 DEF Jump
        <4>3. mk[k].value + 1 = jump.value + 1 => mk[k].value = jump.value
          BY <1>4, <4>2
        <4> QED BY <4>3 DEF Operand
      <3>5. mk[k].value + 1 \in DOMAIN sdata'[i] /\ sdata'[i][mk[k].value + 1] = Operand(mk[k])
        BY <1>1, <3>3, <3>4, PutPlaces
      <3>6. PICK r \in 1 .. was : relocs[i][r] = JumpReloc(mk[k])
        BY <3>2 DEF JumpMade, was
      <3>7. r \in 1 .. scn'[i].nreloc /\ relocs'[i][r] = JumpReloc(mk[k])
        BY <1>1, <1>7, <3>6
      <3> QED BY <1>1, <3>2, <3>5, <3>7 DEF JumpMade
    <2> QED BY <2>1, <2>2
  <1>9. ASSUME NEW c, c = i, NEW m, m = n PROVE Made(c, m)'
    BY <1>1, <1>8, <1>9 DEF Made, JumpMade, Operand, JumpReloc
  <1>10. ASSUME NEW r \in 1 .. scn'[i].nreloc, r > Len(obj.relocs[i])
         PROVE  \E k \in 1 .. Len(mk) : mk[k].scnum = i /\ relocs'[i][r] = JumpReloc(mk[k])
    <2>1. CASE r = was + 1
      BY <1>1, <2>1 DEF jump
    <2>2. CASE r \in 1 .. was
      BY <1>1, <1>2, <1>10, <2>2 DEF Added, was
    <2> QED BY <1>1, <1>7, <2>1, <2>2
  <1>11. ASSUME NEW c, c = i PROVE Added(c)'
    BY <1>1, <1>10, <1>11 DEF Added, JumpReloc
  <1>12. Settled(i, Len(obj.relocs[i]))' /\ Made(i, n - 1)' /\ Added(i)'
    <2>1. n' - 1 = n
      BY <1>1
    <2> QED BY <1>1, <1>6, <1>9, <1>11, <2>1
  <1>13. ASSUME NEW s \in Sections, s < i PROVE Complete(s)'
    <2>1. Complete(s)
      BY <1>1, <1>13 DEF CodeInv, Past, InScn
    <2>2. s # i
      <3>1. i \in Nat /\ s \in Nat
        BY <1>1, InSections DEF InScn
      <3> QED BY <1>13, <3>1
    <2>3. jumps \subseteq jumps'
      BY <1>1
    <2> QED BY <1>1, <2>1, <2>2, <2>3, CompleteStays
  <1>14. \A s \in Sections : Past(s)' => s < i
    BY <1>1 DEF Past, AllRead
  <1>15. \A s \in Sections : SameHeader(s)'
    BY <1>1, SameHeadersKept DEF CodeInv
  <1>16. Sections' = Sections
    BY <1>1, SameObject
  <1>17. \A x \in jumps' : \E k \in 1 .. Len(mk)' : x = [scn |-> mk'[k].scnum, at |-> mk'[k].value]
    <2>1. \A x \in jumps : \E k \in 1 .. Len(mk) : x = [scn |-> mk[k].scnum, at |-> mk[k].value]
      BY DEF CodeInv
    <2>2. [scn |-> i, at |-> jump.value] = [scn |-> mk[n].scnum, at |-> mk[n].value]
      BY <1>1 DEF jump
    <2> QED BY <1>1, <2>1, <2>2
  <1> QED BY <1>1, <1>12, <1>13, <1>14, <1>15, <1>16, <1>17 DEF CodeInv

LEMMA CodeKept ==
    ASSUME CountsFit, WellFormed, TypeInv, MarksInv, SlotInv, SymInv, CodeInv, [Next]_vars
    PROVE  CodeInv'
  <1>1. CASE UNCHANGED vars
    <2>1. UNCHANGED <<obj, mk, sdata, jumps, relocs, scn, i, n, pc>>
      BY <1>1 DEF vars, tables
    <2>2. Sections' = Sections
      BY <2>1, SameObject
    <2>3. \A s \in Sections : Complete(s) => Complete(s)'
      BY <2>1, CompleteStays
    <2>4. ASSUME NEW s, NEW m PROVE Settled(s, m) => Settled(s, m)'
      BY <2>1, SettledStays
    <2>5. ASSUME NEW s, NEW m PROVE Made(s, m) => Made(s, m)'
      BY <2>1, MadeStays
    <2>6. ASSUME NEW s PROVE Added(s) => Added(s)'
      BY <2>1, AddedStays
    <2>7. \A s \in Sections : SameHeader(s)' /\ (Past(s)' => Past(s))
      <3>1. \A s \in Sections : SameHeader(s)'
        BY <2>1, SameHeadersKept DEF CodeInv
      <3> QED BY <2>1, <3>1 DEF Past
    <2> QED BY <2>1, <2>2, <2>3, <2>4, <2>5, <2>6, <2>7 DEF CodeInv
  <1>2. CASE Open \/ ReadSymbol \/ SymbolsRead \/ IOFails \/ (ReadReloc /\ pc' = "failed") \/ (MakeJump /\ pc' = "failed")
    <2>1. UNCHANGED <<sdata, jumps>> /\ (mk' = mk \/ ReadSymbol)
      BY <1>2 DEF Open, SymbolsRead, ReadSymbol, IOFails, ReadReloc, MakeJump, tables
    <2>2. pc' \in Reading \cup {"failed"} \/ (pc' = "section" /\ i' = 1)
      BY <1>2 DEF Open, ReadSymbol, SymbolsRead, IOFails, Reading
    <2> QED BY <2>1, <2>2, EarlierCode
  <1>3. CASE ReadReloc /\ pc' # "failed"
    BY <1>3, RelocCode
  <1>4. CASE MakeJump /\ pc' # "failed"
    BY <1>4, JumpCode
  <1>5. CASE Next /\ ~ReadReloc /\ ~MakeJump /\ ~(Open \/ ReadSymbol \/ SymbolsRead \/ IOFails)
    BY <1>5, SectionCode, RelocsReadCode, OtherCode, LinesCode, LaterCode DEF Next
  <1> QED BY <1>1, <1>2, <1>3, <1>4, <1>5

-----------------------------------------------------------------------------
(* The linked program. *)

AtEnd == pc = "done" /\ WellFormed /\ TypeInv /\ SlotInv /\ SymInv /\ CodeInv

LEMMA EndFacts ==
    ASSUME AtEnd
    PROVE  /\ \A s \in Sections : /\ Filled(s) /\ Complete(s)
                                  /\ scn[s].vaddr = obj.sections[s].vaddr /\ scn[s].vaddr \in Nat
                                  /\ scn[s].nreloc \in Nat /\ Len(obj.relocs[s]) \in Nat
                                  /\ Base[s] \in Int /\ s \in Nat
           /\ \A j \in Heads : /\ j \in DOMAIN obj.symbols /\ obj.symbols[j] \in Symbol
                               /\ symtab[j] = After(obj.symbols[j])
           /\ \A j \in Replaced : /\ j \in Heads /\ Listed(obj.symbols[j].name)
                                  /\ obj.symbols[j].scnum \in Sections /\ obj.symbols[j].value \in Nat
                                  /\ \E k \in 1 .. Len(mk) : mk[k] = JumpOf(j)
  <1>1. ASSUME NEW s \in Sections
        PROVE  /\ Filled(s) /\ Complete(s)
               /\ scn[s].vaddr = obj.sections[s].vaddr /\ scn[s].vaddr \in Nat
               /\ scn[s].nreloc \in Nat /\ Len(obj.relocs[s]) \in Nat
               /\ Base[s] \in Int /\ s \in Nat
    <2>1. Filled(s)
      BY DEF AtEnd, SlotInv, AllRead
    <2>2. Complete(s) /\ SameHeader(s)
      BY DEF AtEnd, CodeInv, Past, AllRead
    <2>3. scn[s].vaddr \in Nat /\ scn[s].nreloc \in Nat
      BY DEF AtEnd, TypeInv, Header
    <2>4. Len(obj.relocs[s]) \in Nat /\ s \in Nat
      BY ObjFacts DEF AtEnd, TypeInv
    <2>5. Base[s] \in Int
      BY DEF AtEnd, WellFormed, LinkFormed
    <2> QED BY <2>1, <2>2, <2>3, <2>4, <2>5 DEF SameHeader
  <1>2. ASSUME NEW j \in Heads
        PROVE  /\ j \in DOMAIN obj.symbols /\ obj.symbols[j] \in Symbol
               /\ Done(j)
    BY SymbolsOf DEF AtEnd, SymInv, Reading
  <1>3. ASSUME NEW j \in Replaced
        PROVE  /\ j \in Heads /\ Listed(obj.symbols[j].name)
               /\ obj.symbols[j].scnum \in Sections /\ obj.symbols[j].value \in Nat
               /\ \E k \in 1 .. Len(mk) : mk[k] = JumpOf(j)
    <2>1. j \in Heads /\ Listed(obj.symbols[j].name)
      BY DEF Replaced, NeedsJump
    <2>2. obj.symbols[j].scnum \in Sections
      BY DEF AtEnd, WellFormed, SymbolsFormed
    <2>3. Done(j) /\ obj.symbols[j] \in Symbol
      BY <1>2, <2>1
    <2> QED BY <2>1, <2>2, <2>3 DEF Done, Symbol
  <1> QED BY <1>1, <1>2, <1>3 DEF Done

(* The relocations of the output are those read and those of jumps. *)
LEMMA RelocsAre ==
    ASSUME AtEnd, NEW s \in Sections, NEW r \in 1 .. scn[s].nreloc
    PROVE  \/ r \in 1 .. Len(obj.relocs[s]) /\ relocs[s][r] = obj.relocs[s][r]
           \/ \E j \in Replaced : obj.symbols[j].scnum = s /\ relocs[s][r] = JumpReloc(JumpOf(j))
  <1>1. Filled(s) /\ Added(s) /\ Len(obj.relocs[s]) \in Nat /\ scn[s].nreloc \in Nat
    BY EndFacts DEF Complete
  <1>2. CASE r <= Len(obj.relocs[s])
    <2>1. r \in 1 .. Len(obj.relocs[s])
      BY <1>1, <1>2
    <2> QED BY <1>1, <2>1 DEF Filled
  <1>3. CASE r > Len(obj.relocs[s])
    <2>1. PICK k \in 1 .. Len(mk) : mk[k].scnum = s /\ relocs[s][r] = JumpReloc(mk[k])
      BY <1>1, <1>3 DEF Added
    <2>2. PICK j \in Replaced : mk[k] = JumpOf(j)
      BY DEF AtEnd, SymInv
    <2> QED BY <2>1, <2>2 DEF JumpOf
  <1> QED BY <1>1, <1>2, <1>3

(* The field of a reference is not the operand of a jump. *)
LEMMA FieldsApart ==
    ASSUME AtEnd, NEW ref \in obj.refs, NEW j \in Replaced, obj.symbols[j].scnum = ref.scn
    PROVE  ref.at # obj.symbols[j].value + 1
  <1>1. obj.symbols[j].value \in Nat
    BY EndFacts
  <1>2. ref.at \in Nat /\ (ref.at + 4 <= obj.symbols[j].value \/ ref.at >= obj.symbols[j].value + 5)
    BY DEF AtEnd, WellFormed, RefsFormed, RefFormed, PatchSize
  <1> QED BY <1>1, <1>2

LEMMA RelocsOfField ==
    ASSUME AtEnd, NEW ref \in obj.refs, NEW r \in Relocations(ref.scn, ref.at)
    PROVE  /\ r \in 1 .. Len(obj.relocs[ref.scn]) /\ relocs[ref.scn][r] = obj.relocs[ref.scn][r]
           /\ Binds(obj.relocs[ref.scn][r], ref)
  <1> DEFINE s == ref.scn
  <1>1. s \in Sections
    BY DEF AtEnd, WellFormed, RefsFormed, RefFormed
  <1>2. r \in 1 .. scn[s].nreloc /\ relocs[s][r].vaddr = ref.at
    BY DEF Relocations
  <1>3. ASSUME NEW j \in Replaced, obj.symbols[j].scnum = s PROVE relocs[s][r] # JumpReloc(JumpOf(j))
    <2>1. JumpReloc(JumpOf(j)).vaddr = obj.symbols[j].value + 1
      BY DEF JumpReloc, JumpOf
    <2> QED BY <1>2, <1>3, <2>1, FieldsApart
  <1>4. r \in 1 .. Len(obj.relocs[s]) /\ relocs[s][r] = obj.relocs[s][r]
    BY <1>1, <1>2, <1>3, RelocsAre
  <1>5. PICK other \in RefsOf(obj, s) : Binds(obj.relocs[s][r], other)
    BY <1>1, <1>4 DEF AtEnd, WellFormed, RefsFormed
  <1>6. other.at = ref.at /\ other.scn = ref.scn /\ other \in obj.refs
    BY <1>2, <1>4, <1>5 DEF Binds, RefsOf
  <1>7. other = ref
    BY <1>6 DEF AtEnd, WellFormed, RefsFormed
  <1> QED BY <1>4, <1>5, <1>7

LEMMA RelocsOfJump ==
    ASSUME AtEnd, NEW j \in Replaced, NEW r \in Relocations(obj.symbols[j].scnum, obj.symbols[j].value + 1)
    PROVE  relocs[obj.symbols[j].scnum][r] = JumpReloc(JumpOf(j))
  <1> DEFINE s == obj.symbols[j].scnum
             at == obj.symbols[j].value + 1
  <1>1. s \in Sections /\ obj.symbols[j].value \in Nat
    BY EndFacts
  <1>2. r \in 1 .. scn[s].nreloc /\ relocs[s][r].vaddr = at
    BY DEF Relocations
  <1>3. ~(r \in 1 .. Len(obj.relocs[s]) /\ relocs[s][r] = obj.relocs[s][r])
    <2> SUFFICES ASSUME r \in 1 .. Len(obj.relocs[s]), relocs[s][r] = obj.relocs[s][r] PROVE FALSE
      OBVIOUS
    <2>1. PICK ref \in RefsOf(obj, s) : Binds(obj.relocs[s][r], ref)
      BY <1>1 DEF AtEnd, WellFormed, RefsFormed
    <2>2. ref \in obj.refs /\ ref.scn = s /\ ref.at = at
      BY <1>2, <2>1 DEF RefsOf, Binds
    <2> QED BY <2>2, FieldsApart
  <1>4. PICK k \in Replaced : obj.symbols[k].scnum = s /\ relocs[s][r] = JumpReloc(JumpOf(k))
    BY <1>1, <1>2, <1>3, RelocsAre
  <1>5. obj.symbols[k].value + 1 = at /\ obj.symbols[k].value \in Nat
    <2>1. JumpReloc(JumpOf(k)).vaddr = obj.symbols[k].value + 1
      BY DEF JumpReloc, JumpOf
    <2>2. obj.symbols[k].value \in Nat
      BY EndFacts
    <2> QED BY <1>2, <1>4, <2>1, <2>2
  <1>6. obj.symbols[k].value = obj.symbols[j].value
    BY <1>1, <1>5
  <1>7. Place(k) = Place(j)
    BY <1>4, <1>6 DEF Place
  <1>8. k = j
    BY <1>7 DEF AtEnd, WellFormed, SymbolsFormed
  <1> QED BY <1>4, <1>8

-----------------------------------------------------------------------------
(* Where a field leads: t is what it holds, taken as an address. *)

(* What a relative field leads to, through a relocation and without one.    *)
Reached(t, at, e, sym, v, b) ==
    ((((((t - (at + 4)) % Word) - e) + sym) + v - b) + (at - v + b) + 4) % Word
PlainlyReached(t, at, v, b) == (((t - (at + 4)) % Word) + (at - v + b) + 4) % Word

LEMMA RelativeField ==
    ASSUME NEW t \in Int, NEW at \in Int, NEW e \in Int, NEW sym \in Int, NEW v \in Int, NEW b \in Int
    PROVE  Reached(t, at, e, sym, v, b) = (t - e + sym) % Word
  <1>1. PICK w \in Nat \ {0} : w = Word
    BY WordAssumption
  <1>2. PICK x \in Int : x = (t - (at + 4)) % w
    <2>1. t - (at + 4) \in Int
      OBVIOUS
    <2>2. (t - (at + 4)) % w \in Int
      BY <2>1, Division
    <2> QED BY <2>2
  <1>3. (((x - e) + sym) + v - b) + (at - v + b) + 4 = x + (at + 4 - e + sym)
    BY <1>2
  <1>4. (x + (at + 4 - e + sym)) % w = ((t - (at + 4)) + (at + 4 - e + sym)) % w
    <2>1. t - (at + 4) \in Int /\ at + 4 - e + sym \in Int
      OBVIOUS
    <2> QED BY <1>2, <2>1, AddedRemainder
  <1>5. (t - (at + 4)) + (at + 4 - e + sym) = t - e + sym
    OBVIOUS
  <1> QED BY <1>1, <1>2, <1>3, <1>4, <1>5 DEF Reached

LEMMA PlainField ==
    ASSUME NEW t \in Int, NEW at \in Int, NEW v \in Int, NEW b \in Int
    PROVE  PlainlyReached(t, at, v, b) = (t - v + b) % Word
  <1>1. PICK w \in Nat \ {0} : w = Word
    BY WordAssumption
  <1>2. PICK x \in Int : x = (t - (at + 4)) % w
    <2>1. t - (at + 4) \in Int
      OBVIOUS
    <2>2. (t - (at + 4)) % w \in Int
      BY <2>1, Division
    <2> QED BY <2>2
  <1>3. x + (at - v + b) + 4 = x + (at + 4 - v + b)
    BY <1>2
  <1>4. (x + (at + 4 - v + b)) % w = ((t - (at + 4)) + (at + 4 - v + b)) % w
    <2>1. t - (at + 4) \in Int /\ at + 4 - v + b \in Int
      OBVIOUS
    <2> QED BY <1>2, <2>1, AddedRemainder
  <1>5. (t - (at + 4)) + (at + 4 - v + b) = t - v + b
    OBVIOUS
  <1> QED BY <1>1, <1>2, <1>3, <1>4, <1>5 DEF PlainlyReached

(* The one relocation of the field at an offset is rel; the field holds t; *)
(* the linked field leads from the value of rel's symbol to its address.   *)
Only(s, at, rel)     == Relocations(s, at) # {} /\ \A r \in Relocations(s, at) : relocs[s][r] = rel
Holds(s, at, type, t) ==
    /\ type = "REL32" => sdata[s][at] = (t - (at + 4)) % Word
    /\ type = "ADDR32" => sdata[s][at] = t
Typed(rel)           == symtab[rel.symndx].value \in Int /\ SymbolAt(symtab[rel.symndx]) \in Int
Sent(s, at, type, rel, t) ==
    LeadsTo(s, at, type) = (t - symtab[rel.symndx].value + SymbolAt(symtab[rel.symndx])) % Word

LEMMA RelocatedLeads ==
    ASSUME AtEnd, NEW s \in Sections, NEW at \in Int, NEW type, type \in {"REL32", "ADDR32"}, NEW rel, NEW t \in Int,
           Only(s, at, rel), rel.type = type, Holds(s, at, type, t), Typed(rel)
    PROVE  Sent(s, at, type, rel, t)
  <1>1. PICK e \in Int, sym \in Int : e = symtab[rel.symndx].value /\ sym = SymbolAt(symtab[rel.symndx])
    BY DEF Typed
  <1>2. PICK v \in Int, b \in Int : v = scn[s].vaddr /\ b = Base[s]
    BY EndFacts
  <1>3. relocs[s][CHOOSE r \in Relocations(s, at) : TRUE] = rel
    BY DEF Only
  <1>4. Linked(s, at) = Adjusted(s, rel, sdata[s][at])
    BY <1>3 DEF Linked, Only
  <1>5. CASE type = "REL32"
    <2>1. sdata[s][at] = (t - (at + 4)) % Word
      BY <1>5 DEF Holds
    <2>2. Linked(s, at) = (((t - (at + 4)) % Word) - e) + sym + v - b
      BY <1>1, <1>2, <1>4, <1>5, <2>1 DEF Adjusted
    <2>3. Moved(s, at) = at - v + b
      BY <1>2 DEF Moved
    <2>4. LeadsTo(s, at, type) = Reached(t, at, e, sym, v, b)
      BY <1>5, <2>2, <2>3 DEF LeadsTo, Reached
    <2>5. Reached(t, at, e, sym, v, b) = (t - e + sym) % Word
      BY RelativeField
    <2> QED BY <1>1, <2>4, <2>5 DEF Sent
  <1>6. CASE type = "ADDR32"
    <2>1. Linked(s, at) = t - e + sym
      BY <1>1, <1>4, <1>6 DEF Adjusted, Holds
    <2> QED BY <1>1, <1>6, <2>1 DEF LeadsTo, Sent
  <1> QED BY <1>5, <1>6

(* The jump of a static symbol leads to its replacement. *)
LEMMA JumpLeads ==
    ASSUME AtEnd, NEW j \in Replaced
    PROVE  LeadsTo(obj.symbols[j].scnum, obj.symbols[j].value + 1, "REL32") = Replacement[obj.symbols[j].name]
  <1> DEFINE s == obj.symbols[j].scnum
             at == obj.symbols[j].value + 1
             rel == JumpReloc(JumpOf(j))
             R == Replacement[obj.symbols[j].name]
  <1>1. /\ j \in Heads /\ Listed(obj.symbols[j].name) /\ s \in Sections /\ obj.symbols[j].value \in Nat
        /\ obj.symbols[j] \in Symbol /\ symtab[j] = After(obj.symbols[j])
    BY EndFacts
  <1>2. PICK k \in 1 .. Len(mk) : mk[k] = JumpOf(j)
    BY EndFacts
  <1>3. JumpMade(s, JumpOf(j))
    <2>1. mk[k].scnum = s
      BY <1>2 DEF JumpOf
    <2> QED BY <1>1, <1>2, <2>1, EndFacts DEF Complete, Made
  <1>4. sdata[s][at] = (0 - (at + 4)) % Word
    <2>1. sdata[s][at] = (-(obj.symbols[j].value + 5)) % Word
      BY <1>3 DEF JumpMade, Operand, JumpOf, PatchSize
    <2>2. -(obj.symbols[j].value + 5) = 0 - (at + 4)
      BY <1>1
    <2> QED BY <2>1, <2>2
  <1>5. Relocations(s, at) # {}
    <2>1. PICK r \in 1 .. scn[s].nreloc : relocs[s][r] = rel
      BY <1>3 DEF JumpMade
    <2>2. rel.vaddr = at
      BY DEF JumpReloc, JumpOf
    <2> QED BY <2>1, <2>2 DEF Relocations
  <1>6. \A r \in Relocations(s, at) : relocs[s][r] = rel
    BY RelocsOfJump
  <1>7. rel.symndx = j /\ rel.type = "REL32"
    BY DEF JumpReloc, JumpOf
  <1>8. symtab[j].value = 0 /\ symtab[j].scnum = 0 /\ symtab[j].name = obj.symbols[j].name
    BY <1>1 DEF After, Undefined, Symbol
  <1>9. SymbolAt(symtab[j]) = R
    BY <1>8 DEF SymbolAt
  <1>10. R \in 0 .. Word - 1 /\ R \in Int
    <2>1. R \in 0 .. Word - 1
      BY <1>1 DEF AtEnd, WellFormed, LinkFormed, Elsewhere
    <2> QED BY <2>1, WordAssumption
  <1>11. at \in Int
    BY <1>1
  <1> HIDE DEF s, at, rel, R
  <1>12. LeadsTo(s, at, "REL32") = (0 - symtab[j].value + SymbolAt(symtab[j])) % Word
    <2>1. /\ symtab[rel.symndx].value \in Int /\ SymbolAt(symtab[rel.symndx]) \in Int /\ 0 \in Int
          /\ symtab[rel.symndx] = symtab[j]
      BY <1>7, <1>8, <1>9, <1>10
    <2>2. "REL32" \in {"REL32", "ADDR32"} /\ "REL32" # "ADDR32"
      OBVIOUS
    <2>3. LeadsTo(s, at, "REL32") = (0 - symtab[rel.symndx].value + SymbolAt(symtab[rel.symndx])) % Word
      <3>1. Only(s, at, rel)
        BY <1>5, <1>6 DEF Only
      <3>2. Holds(s, at, "REL32", 0)
        BY <1>4 DEF Holds
      <3>3. Typed(rel)
        BY <2>1 DEF Typed
      <3>4. Sent(s, at, "REL32", rel, 0)
        BY <1>1, <1>7, <1>11, <2>1, <2>2, <3>1, <3>2, <3>3, RelocatedLeads
      <3> QED BY <3>4 DEF Sent
    <2> QED BY <2>1, <2>3
  <1>13. (0 - 0 + R) % Word = R
    <2>1. 0 - 0 + R = R
      BY <1>10
    <2>2. R % Word = R
      BY <1>10, SmallRemainder, WordAssumption
    <2> QED BY <2>1, <2>2
  <1>14. LeadsTo(s, at, "REL32") = R
    BY <1>8, <1>9, <1>12, <1>13
  <1> QED BY <1>14 DEF s, at, R

(* The jumps are where the static symbols of the list were. *)
LEMMA JumpPlaces ==
    ASSUME AtEnd
    PROVE  /\ \A x \in jumps : \E j \in Replaced : x = [scn |-> obj.symbols[j].scnum, at |-> obj.symbols[j].value]
           /\ \A j \in Replaced : /\ [scn |-> obj.symbols[j].scnum, at |-> obj.symbols[j].value] \in jumps
                                  /\ Moved(obj.symbols[j].scnum, obj.symbols[j].value) = Place(j)
  <1>1. ASSUME NEW x \in jumps
        PROVE  \E j \in Replaced : x = [scn |-> obj.symbols[j].scnum, at |-> obj.symbols[j].value]
    <2>1. PICK k \in 1 .. Len(mk) : x = [scn |-> mk[k].scnum, at |-> mk[k].value]
      BY DEF AtEnd, CodeInv
    <2>2. PICK j \in Replaced : mk[k] = JumpOf(j)
      BY DEF AtEnd, SymInv
    <2> QED BY <2>1, <2>2 DEF JumpOf
  <1>2. ASSUME NEW j \in Replaced
        PROVE  [scn |-> obj.symbols[j].scnum, at |-> obj.symbols[j].value] \in jumps
    <2>1. PICK k \in 1 .. Len(mk) : mk[k] = JumpOf(j)
      BY EndFacts
    <2>2. mk[k].scnum = obj.symbols[j].scnum /\ mk[k].value = obj.symbols[j].value
      BY <2>1 DEF JumpOf
    <2>3. JumpMade(obj.symbols[j].scnum, mk[k])
      BY <2>2, EndFacts DEF Complete, Made
    <2> QED BY <2>2, <2>3 DEF JumpMade
  <1>3. ASSUME NEW j \in Replaced PROVE Moved(obj.symbols[j].scnum, obj.symbols[j].value) = Place(j)
    BY EndFacts DEF Moved, Place
  <1> QED BY <1>1, <1>2, <1>3

LEMMA NoJumpThere ==
    ASSUME AtEnd, NEW dest, \A j \in Replaced : dest # Place(j)
    PROVE  Jumped(dest) = {}
  <1>1. ASSUME NEW x \in jumps PROVE Moved(x.scn, x.at) # dest
    <2>1. PICK j \in Replaced : x = [scn |-> obj.symbols[j].scnum, at |-> obj.symbols[j].value]
      BY JumpPlaces
    <2>2. Moved(x.scn, x.at) = Place(j)
      BY <2>1, JumpPlaces
    <2> QED BY <2>2
  <1> QED BY <1>1 DEF Jumped

LEMMA JumpThere ==
    ASSUME AtEnd, NEW j \in Replaced
    PROVE  Jumped(Place(j)) = {Replacement[obj.symbols[j].name]}
  <1> DEFINE x == [scn |-> obj.symbols[j].scnum, at |-> obj.symbols[j].value]
             Here == {y \in jumps : Moved(y.scn, y.at) = Place(j)}
  <1>1. x \in Here
    BY JumpPlaces
  <1>2. ASSUME NEW y \in Here PROVE y = x
    <2>1. PICK k \in Replaced : y = [scn |-> obj.symbols[k].scnum, at |-> obj.symbols[k].value]
      BY JumpPlaces
    <2>2. Place(k) = Place(j)
      BY <2>1, JumpPlaces
    <2>3. k = j
      BY <2>2 DEF AtEnd, WellFormed, SymbolsFormed
    <2> QED BY <2>1, <2>3
  <1>3. LeadsTo(x.scn, x.at + 1, "REL32") = Replacement[obj.symbols[j].name]
    BY JumpLeads
  <1>4. Here = {x}
    BY <1>1, <1>2
  <1>5. Jumped(Place(j)) = {LeadsTo(y.scn, y.at + 1, "REL32") : y \in Here}
    BY DEF Jumped
  <1> HIDE DEF Here, x
  <1> QED BY <1>3, <1>4, <1>5

(* Where a reference leads before a jump is taken: to the replacement, if  *)
(* its relocation names a symbol that is elsewhere, or to its symbol.      *)
LEMMA FieldLeads ==
    ASSUME AtEnd, NEW ref \in obj.refs
    PROVE  \/ /\ Elsewhere(ref.to)
              /\ LeadsTo(ref.scn, ref.at, ref.type) = Replacement[obj.symbols[ref.to].name]
           \/ /\ obj.symbols[ref.to].scnum \in Sections /\ ByPlace(ref)
              /\ LeadsTo(ref.scn, ref.at, ref.type) = Place(ref.to)
  <1> DEFINE s == ref.scn
             to == ref.to
             v == obj.symbols[to].value
             R == Replacement[obj.symbols[to].name]
  <1>1. /\ RefFormed(ref) /\ s \in Sections /\ ref.at \in Nat /\ ref.type \in {"REL32", "ADDR32"} /\ to \in Heads
    BY DEF AtEnd, WellFormed, RefsFormed, RefFormed
  <1>2. /\ obj.symbols[to] \in Symbol /\ symtab[to] = After(obj.symbols[to]) /\ v \in Nat
        /\ obj.symbols[to].scnum \in Int
    BY <1>1, EndFacts DEF Symbol
  <1>3. sdata[s][ref.at] = Field(ref, Len(obj.relocs[s]))
    <2>1. ref \in RefsOf(obj, s)
      BY DEF RefsOf
    <2> QED BY <1>1, <2>1, EndFacts DEF Complete, Settled
  <1>4. Elsewhere(to) => R \in Int /\ R % Word = R
    <2> SUFFICES ASSUME Elsewhere(to) PROVE R \in Int /\ R % Word = R
      OBVIOUS
    <2>1. R \in 0 .. Word - 1
      BY <1>1 DEF AtEnd, WellFormed, LinkFormed
    <2>2. R % Word = R
      BY <2>1, SmallRemainder, WordAssumption
    <2> QED BY <2>1, <2>2, WordAssumption
  <1>5. obj.symbols[to].scnum > 0 =>
           obj.symbols[to].scnum \in Sections /\ Place(to) \in Int /\ Place(to) % Word = Place(to)
    <2> SUFFICES ASSUME obj.symbols[to].scnum > 0
                 PROVE  obj.symbols[to].scnum \in Sections /\ Place(to) \in Int /\ Place(to) % Word = Place(to)
      OBVIOUS
    <2>1. obj.symbols[to].scnum \in Sections /\ Place(to) \in 0 .. Word - 1
      BY <1>1 DEF AtEnd, WellFormed, LinkFormed
    <2>2. Place(to) % Word = Place(to)
      BY <2>1, SmallRemainder, WordAssumption
    <2> QED BY <2>1, <2>2, WordAssumption
  <1>6. CASE ~HasReloc(ref)
    <2>1. ref.type = "REL32" /\ obj.symbols[to].scnum = s /\ ByPlace(ref)
      BY <1>1, <1>6 DEF RefFormed
    <2>2. Relocations(s, ref.at) = {}
      <3>1. ASSUME NEW r \in Relocations(s, ref.at) PROVE FALSE
        BY <1>6, RelocsOfField DEF HasReloc, Binds
      <3> QED BY <3>1
    <2>3. sdata[s][ref.at] = (v - (ref.at + 4)) % Word
      <3>1. ~\E r \in 1 .. Len(obj.relocs[s]) : Names(ref, r)
        BY <1>6 DEF HasReloc, Names
      <3> QED BY <1>3, <2>1, <3>1 DEF Field, FieldValue
    <2>4. PICK va \in Int, b \in Int, at \in Int, t \in Int :
             va = scn[s].vaddr /\ b = Base[s] /\ at = ref.at /\ t = v
      BY <1>1, <1>2, EndFacts, SMTT(30)
    <2>5. LeadsTo(s, ref.at, ref.type) = PlainlyReached(t, at, va, b)
      BY <2>1, <2>2, <2>3, <2>4 DEF LeadsTo, Linked, Moved, PlainlyReached
    <2>6. PlainlyReached(t, at, va, b) = (t - va + b) % Word
      BY PlainField
    <2>7. Place(to) = t - va + b
      <3>1. scn[s].vaddr = obj.sections[s].vaddr
        BY <1>1, EndFacts
      <3> QED BY <2>1, <2>4, <3>1 DEF Place
    <2>8. obj.symbols[to].scnum > 0
      <3>1. LastScn \in Nat /\ Sections = 1 .. LastScn
        BY ObjFacts DEF AtEnd, TypeInv
      <3> QED BY <1>1, <2>1, <3>1
    <2> QED BY <1>5, <2>1, <2>5, <2>6, <2>7, <2>8
  <1>7. CASE HasReloc(ref)
    <2>1. PICK r0 \in 1 .. Len(obj.relocs[s]) : obj.relocs[s][r0].vaddr = ref.at
      BY <1>7 DEF HasReloc
    <2> DEFINE rel == obj.relocs[s][r0]
    <2>2. r0 \in Relocations(s, ref.at)
      <3>1. Filled(s) /\ Len(obj.relocs[s]) \in Nat /\ scn[s].nreloc \in Nat
        BY <1>1, EndFacts
      <3>2. Len(obj.relocs[s]) <= scn[s].nreloc /\ relocs[s][r0] = rel
        BY <2>1, <3>1 DEF Filled
      <3>3. r0 \in 1 .. scn[s].nreloc
        BY <3>1, <3>2
      <3> QED BY <2>1, <3>2, <3>3 DEF Relocations
    <2>3. \A r \in 1 .. Len(obj.relocs[s]) : obj.relocs[s][r].vaddr = ref.at => r = r0
      BY <1>1, <2>1 DEF AtEnd, WellFormed, RefsFormed
    <2>4. Relocations(s, ref.at) # {} /\ \A r \in Relocations(s, ref.at) : relocs[s][r] = rel
      <3>1. ASSUME NEW r \in Relocations(s, ref.at) PROVE relocs[s][r] = rel
        <4>1. r \in 1 .. Len(obj.relocs[s]) /\ relocs[s][r] = obj.relocs[s][r] /\ Binds(obj.relocs[s][r], ref)
          BY RelocsOfField
        <4>2. r = r0
          BY <2>3, <4>1 DEF Binds
        <4> QED BY <4>1, <4>2
      <3> QED BY <2>2, <3>1
    <2>5. Binds(rel, ref)
      BY <2>2, RelocsOfField
    <2>6. (\E r \in 1 .. Len(obj.relocs[s]) : Names(ref, r)) <=> Listed(obj.symbols[rel.symndx].name)
      <3>1. ASSUME NEW r \in 1 .. Len(obj.relocs[s]), Names(ref, r) PROVE Listed(obj.symbols[rel.symndx].name)
        <4>1. obj.relocs[s][r].vaddr = ref.at /\ Listed(obj.symbols[obj.relocs[s][r].symndx].name)
          BY <3>1 DEF Names
        <4> QED BY <2>3, <4>1
      <3>2. Listed(obj.symbols[rel.symndx].name) => Names(ref, r0)
        BY <2>1 DEF Names
      <3> QED BY <3>1, <3>2
    <2>7. rel.type = ref.type
      BY <2>5 DEF Binds
    <2>8. ASSUME NEW t \in Int,
                 ref.type = "REL32" => sdata[s][ref.at] = (t - (ref.at + 4)) % Word,
                 ref.type = "ADDR32" => sdata[s][ref.at] = t,
                 symtab[rel.symndx].value \in Int, SymbolAt(symtab[rel.symndx]) \in Int
          PROVE  LeadsTo(s, ref.at, ref.type) =
                    (t - symtab[rel.symndx].value + SymbolAt(symtab[rel.symndx])) % Word
      <3>1. ref.at \in Int
        BY <1>1
      <3>2. Only(s, ref.at, rel)
        BY <2>4 DEF Only
      <3>3. Holds(s, ref.at, ref.type, t)
        BY <2>8 DEF Holds
      <3>4. Typed(rel)
        BY <2>8 DEF Typed
      <3>5. s \in Sections /\ ref.type \in {"REL32", "ADDR32"}
        BY <1>1
      <3>6. Sent(s, ref.at, ref.type, rel, t)
        <4> HIDE DEF rel, s
        <4> QED BY <2>7, <2>8, <3>1, <3>2, <3>3, <3>4, <3>5, RelocatedLeads
      <3> QED BY <3>6 DEF Sent
    <2>9. Listed(obj.symbols[rel.symndx].name) =>
             /\ ref.type = "REL32" => sdata[s][ref.at] = (0 - (ref.at + 4)) % Word
             /\ ref.type = "ADDR32" => sdata[s][ref.at] = 0
      <3>1. -(ref.at + 4) = 0 - (ref.at + 4)
        BY <1>1
      <3> QED BY <1>3, <2>6, <3>1 DEF Field, PatchOf
    <2>10. ~Listed(obj.symbols[rel.symndx].name) =>
             /\ ref.type = "REL32" => sdata[s][ref.at] = (v - (ref.at + 4)) % Word
             /\ ref.type = "ADDR32" => sdata[s][ref.at] = v
      BY <1>3, <2>6 DEF Field, FieldValue
    <2>11. CASE rel.symndx = to /\ Listed(obj.symbols[to].name)
      <3>1. Elsewhere(to) /\ R \in Int /\ R % Word = R
        BY <1>4, <2>11 DEF Elsewhere
      <3>2. symtab[to].value = 0 /\ symtab[to].scnum = 0 /\ symtab[to].name = obj.symbols[to].name
        BY <1>2, <2>11 DEF After, Undefined, Symbol
      <3>3. SymbolAt(symtab[to]) = R
        BY <3>2 DEF SymbolAt
      <3>4. LeadsTo(s, ref.at, ref.type) = (0 - 0 + R) % Word
        BY <2>8, <2>9, <2>11, <3>1, <3>2, <3>3, SMTT(30)
      <3>5. 0 - 0 + R = R
        BY <3>1
      <3> QED BY <3>1, <3>4, <3>5
    <2>12. CASE rel.symndx = to /\ ~Listed(obj.symbols[to].name) /\ obj.symbols[to].scnum <= 0
      <3>1. Elsewhere(to) /\ R \in Int /\ R % Word = R
        BY <1>4, <2>12 DEF Elsewhere
      <3>2. symtab[to] = obj.symbols[to]
        BY <1>2, <2>12 DEF After
      <3>3. SymbolAt(symtab[to]) = R
        BY <1>2, <2>12, <3>2 DEF SymbolAt
      <3>4. LeadsTo(s, ref.at, ref.type) = (v - v + R) % Word
        BY <1>2, <2>8, <2>10, <2>12, <3>1, <3>2, <3>3
      <3>5. v - v + R = R
        BY <1>2, <3>1
      <3> QED BY <3>1, <3>4, <3>5
    <2>13. CASE /\ rel.symndx \in Heads /\ ~Listed(obj.symbols[rel.symndx].name)
                /\ obj.symbols[rel.symndx].scnum = obj.symbols[to].scnum
                /\ obj.symbols[to].scnum > 0 /\ ByPlace(ref)
      <3>1. /\ obj.symbols[to].scnum \in Sections /\ Place(to) \in Int /\ Place(to) % Word = Place(to)
        BY <1>5, <2>13
      <3>2. symtab[rel.symndx] = obj.symbols[rel.symndx] /\ obj.symbols[rel.symndx].value \in Nat
        BY <2>13, EndFacts DEF After, Symbol
      <3>3. PICK va \in Int, b \in Int, u \in Int, t \in Int :
               /\ va = scn[obj.symbols[to].scnum].vaddr /\ va = obj.sections[obj.symbols[to].scnum].vaddr
               /\ b = Base[obj.symbols[to].scnum] /\ u = obj.symbols[rel.symndx].value /\ t = v
        <4>1. /\ scn[obj.symbols[to].scnum].vaddr = obj.sections[obj.symbols[to].scnum].vaddr
              /\ scn[obj.symbols[to].scnum].vaddr \in Nat /\ Base[obj.symbols[to].scnum] \in Int
          BY <3>1, EndFacts
        <4>2. scn[obj.symbols[to].scnum].vaddr \in Int /\ obj.symbols[rel.symndx].value \in Int /\ v \in Int
          BY <1>2, <3>2, <4>1, SMTT(30)
        <4> HIDE DEF rel, v, to
        <4> QED BY <4>1, <4>2
      <3>4. SymbolAt(symtab[rel.symndx]) = u - va + b
        BY <2>13, <3>2, <3>3 DEF SymbolAt, Moved
      <3>5. Place(to) = t - va + b
        BY <3>3 DEF Place
      <3>6. LeadsTo(s, ref.at, ref.type) = (t - u + (u - va + b)) % Word
        <4>1. symtab[rel.symndx].value = u /\ u \in Int /\ u - va + b \in Int
          <5>1. u - va + b \in Int
            OBVIOUS
          <5>2. symtab[rel.symndx].value = u
            BY <3>2, <3>3
          <5> QED BY <5>1, <5>2
        <4>2. /\ ref.type = "REL32" => sdata[s][ref.at] = (t - (ref.at + 4)) % Word
              /\ ref.type = "ADDR32" => sdata[s][ref.at] = t
          BY <2>10, <2>13, <3>3
        <4>3. LeadsTo(s, ref.at, ref.type) = (t - symtab[rel.symndx].value + SymbolAt(symtab[rel.symndx])) % Word
          <5>1. symtab[rel.symndx].value \in Int /\ SymbolAt(symtab[rel.symndx]) \in Int
            BY <3>4, <4>1
          <5> HIDE DEF rel, s
          <5> QED BY <2>8, <4>2, <5>1
        <4> QED BY <3>4, <4>1, <4>3
      <3>7. t - u + (u - va + b) = t - va + b
        OBVIOUS
      <3> QED BY <2>13, <3>1, <3>5, <3>6, <3>7
    <2>14. rel.symndx = to => (~Listed(obj.symbols[to].name) => ByPlace(ref))
      BY DEF ByPlace
    <2>15. ~(obj.symbols[to].scnum <= 0) => obj.symbols[to].scnum > 0
      BY <1>2
    <2>16. obj.symbols[to].scnum \in Sections => obj.symbols[to].scnum > 0
      <3>1. LastScn \in Nat /\ Sections = 1 .. LastScn
        BY ObjFacts DEF AtEnd, TypeInv
      <3> QED BY <3>1
    <2>17. CASE rel.symndx = to
      BY <1>1, <2>11, <2>12, <2>13, <2>14, <2>15, <2>17
    <2>18. CASE rel.symndx # to
      BY <2>5, <2>13, <2>16, <2>18 DEF Binds
    <2> QED BY <2>17, <2>18
  <1> QED BY <1>6, <1>7

LEMMA EndRedirected == ASSUME AtEnd PROVE Redirected
  <1> SUFFICES ASSUME NEW ref \in obj.refs
               PROVE  LET dest == LeadsTo(ref.scn, ref.at, ref.type)
                      IN  IF Jumped(dest) = {} THEN dest = Wanted(ref) ELSE Jumped(dest) = {Wanted(ref)}
    BY DEF Redirected
  <1> DEFINE dest == LeadsTo(ref.scn, ref.at, ref.type)
             to == ref.to
             R == Replacement[obj.symbols[to].name]
  <1>1. to \in Heads
    BY DEF AtEnd, WellFormed, RefsFormed, RefFormed
  <1>2. Elsewhere(to) => Wanted(ref) = R
    BY DEF Wanted, Elsewhere
  <1>3. CASE Elsewhere(to) /\ dest = R
    <2>1. \A k \in Replaced : dest # Place(k)
      BY <1>1, <1>3 DEF AtEnd, WellFormed, LinkFormed
    <2>2. Jumped(dest) = {}
      BY <2>1, NoJumpThere
    <2> QED BY <1>2, <1>3, <2>2
  <1>4. CASE obj.symbols[to].scnum \in Sections /\ ByPlace(ref) /\ dest = Place(to)
    <2>1. CASE to \in Replaced
      <3>1. Jumped(dest) = {R}
        BY <1>4, <2>1, JumpThere
      <3>2. Elsewhere(to)
        BY <2>1, EndFacts DEF Elsewhere
      <3> QED BY <1>2, <3>1, <3>2
    <2>2. CASE to \notin Replaced
      <3>1. ~Listed(obj.symbols[to].name) /\ obj.symbols[to].scnum > 0
        <4>1. obj.symbols[to].scnum \in Nat /\ LastScn \in Nat /\ Sections = 1 .. LastScn
          BY <1>4, ObjFacts, EndFacts DEF AtEnd, TypeInv
        <4> QED BY <1>4, <2>2, <4>1 DEF ByPlace
      <3>2. \A k \in Replaced : dest # Place(k)
        BY <1>1, <1>4, <2>2, <3>1 DEF AtEnd, WellFormed, LinkFormed
      <3>3. Jumped(dest) = {}
        BY <3>2, NoJumpThere
      <3>4. Wanted(ref) = Moved(obj.symbols[to].scnum, obj.symbols[to].value)
        <4>1. ~(obj.symbols[to].scnum <= 0)
          <5>1. obj.symbols[to].scnum \in Nat
            BY <1>4, EndFacts
          <5> QED BY <3>1, <5>1
        <4> QED BY <3>1, <4>1 DEF Wanted
      <3>5. Moved(obj.symbols[to].scnum, obj.symbols[to].value) = Place(to)
        BY <1>4, EndFacts DEF Moved, Place
      <3> QED BY <1>4, <3>3, <3>4, <3>5
    <2> QED BY <2>1, <2>2
  <1>5. (Elsewhere(to) /\ dest = R) \/ (obj.symbols[to].scnum \in Sections /\ ByPlace(ref) /\ dest = Place(to))
    BY FieldLeads
  <1> QED BY <1>3, <1>4, <1>5

(* In the program linked from the file written for a well-formed object    *)
(* every reference to a symbol of the list reaches its replacement, by its *)
(* relocation or through the jump put where the symbol was, and every      *)
(* other reference reaches what it named: the loop over the symbols        *)
(* (l.222-256), the one over the relocations (l.308-331) and patch_function *)
(* (l.62-135) agree, whatever else the sections hold.                      *)
THEOREM ReplacementsReached ==
    ASSUME CountsFit
    PROVE  Spec /\ WellFormed => []Redirected
  <1> DEFINE Inv == WellFormed /\ TypeInv /\ MarksInv /\ SlotInv /\ SymInv /\ CodeInv
  <1>1. Init /\ WellFormed => Inv
    BY TypesStart, MarksStart, SlotsStart, SymStarts, CodeStarts
  <1>2. Inv /\ [Next]_vars => Inv'
    <2> SUFFICES ASSUME Inv, [Next]_vars PROVE Inv'
      OBVIOUS
    <2>1. WellFormed'
      BY ObjectStays, FormedKept
    <2>2. TypeInv' /\ MarksInv' /\ SlotInv'
      BY TypesKept, MarksKept, SlotsKept
    <2>3. SymInv' /\ CodeInv'
      BY SymKept, CodeKept
    <2> QED BY <2>1, <2>2, <2>3
  <1>3. Inv => Redirected
    <2>1. CASE pc = "done"
      BY <2>1, EndRedirected DEF AtEnd
    <2>2. CASE pc # "done"
      BY <2>2 DEF Redirected
    <2> QED BY <2>1, <2>2
  <1> HIDE DEF Inv
  <1> QED BY <1>1, <1>2, <1>3, PTL DEF Spec

=============================================================================
