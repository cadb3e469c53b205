---------------------------- MODULE KeyTreeProofs ----------------------------
(***************************************************************************)
(* Proofs about KeyTree for every set of key sequences and of functions    *)
(* and any number of calls: the tree is the dictionary KeyDict, and waits  *)
(* for more input exactly where more can come.                             *)
(***************************************************************************)
EXTENDS KeyTree, Integers, SequenceTheorems, WellFoundedInduction, TLAPS

Bytes == 1 .. 255
Vals  == 0 .. 256

(* Where a node lies: the bytes a walk has read when it gets there, and    *)
(* between which two its next one is.                                      *)
Place == [path : Seq(Bytes), above : Nat, below : Nat]

Filled(n) == keyval[n] # 0 /\ keyval[n] # Timeout
Key(G, n) == Append(G[n].path, keyval[n])

Child(m, n) == \/ hi[m] = n
               \/ next[m] = n
               \/ lo[m] = n /\ keyval[m] # Timeout

Types ==
    /\ keyval \in Seq(Vals) /\ kfun \in Seq(Nat)
    /\ next \in Seq(Nat) /\ hi \in Seq(Nat) /\ lo \in Seq(Nat)
    /\ TypeOK

NodeRight(G, n) ==
    /\ Filled(n) => G[n].above < keyval[n] /\ keyval[n] < G[n].below
    /\ Empty(n) => hi[n] = NoNode /\ lo[n] = NoNode /\ next[n] = NoNode /\ kfun[n] = NoFun
    /\ hi[n] # NoNode =>
          /\ keyval[hi[n]] # Timeout
          /\ G[hi[n]] = [path  |-> G[n].path,
                         above |-> IF keyval[n] = Timeout THEN G[n].above ELSE keyval[n],
                         below |-> G[n].below]
    /\ lo[n] # NoNode /\ keyval[n] # Timeout =>
          G[lo[n]] = [path |-> G[n].path, above |-> G[n].above, below |-> keyval[n]]
    /\ next[n] # NoNode =>
          /\ G[next[n]] = [path |-> Key(G, n), above |-> 0, below |-> 256]
          /\ kfun[n] = NoFun
    /\ n # 1 => \E m \in Nodes : m < n /\ Child(m, n)

Shape(G) ==
    /\ G \in [Nodes -> Place]
    /\ Size >= 1 => /\ G[1] = [path |-> <<>>, above |-> 0, below |-> 256]
                    /\ keyval[1] # Timeout
    /\ \A n \in Nodes : NodeRight(G, n)

(* A walk for s that looks for its byte i may be at node n. *)
Prefix(p, s, i) == Len(p) = i - 1 /\ \A j \in 1 .. i - 1 : p[j] = s[j]
On(G, s, n, i) ==
    /\ n \in Nodes /\ i \in 1 .. Len(s)
    /\ Prefix(G[n].path, s, i)
    /\ G[n].above < s[i] /\ s[i] < G[n].below

(* Only what is in Seqs has a function. *)
KeysAsked(G) == \A n \in Nodes : Filled(n) /\ FunOf(n) # NoFun => Key(G, n) \in Seqs

(* A sequence that goes on leads to one that has a function, or is to.     *)
Leads(G) ==
    \A n \in Nodes : next[n] # NoNode =>
        \/ \E t \in Seqs : Lookup(t) # NoFun /\ Begins(Key(G, n), t)
        \/ Walking /\ Begins(Key(G, n), seq)

WalkAt(G) ==
    /\ root \in Nodes /\ pos \in 1 .. Len(seq) + 1
    /\ Prefix(G[root].path, seq, pos)
    /\ pos <= Len(seq) => G[root].above < seq[pos] /\ seq[pos] < G[root].below
    /\ pos = Len(seq) + 1 => keyval[root] = Timeout

Asked ==
    /\ seq \in Seqs /\ fun \in Nat
    /\ reply = "none" => fun \in Funs

Right(G) ==
    /\ Types /\ Shape(G) /\ KeysAsked(G) /\ Leads(G) /\ Asked
    /\ Walking => WalkAt(G) /\ InOrder(seq)

KeyInv == \E G : Right(G)

-----------------------------------------------------------------------------
(* The walk. *)

LEMMA LeastNat ==
    ASSUME NEW S \in SUBSET Nat, S # {}
    PROVE  \E x \in S : \A y \in S : x <= y
  <1>1. PICK x \in S : \A y \in S : ~ (<<y, x>> \in OpToRel(<, Nat))
    BY WFMin, NatLessThanWellFounded
  <1>2. \A y \in S : ~(y < x)
    BY <1>1 DEF OpToRel
  <1> QED BY <1>2

LEMMA Between ==
    ASSUME NEW a \in Nat, NEW b \in Nat, NEW c \in Nat, a < b, b < c
    PROVE  a < c
  OBVIOUS

LEMMA Smaller ==
    ASSUME NEW b \in Bytes, NEW c \in 0 .. 256
    PROVE  /\ b \in Nat /\ 0 < b /\ b < 256
           /\ ~(b > c \/ b < c) => b = c /\ c # 0 /\ c # Timeout
  BY DEF Bytes, Timeout

LEMMA ByteIsNat == \A b \in Bytes : b \in Nat
  BY DEF Bytes

LEMMA NodeFacts ==
    ASSUME Types
    PROVE  /\ Size \in Nat
           /\ Len(kfun) = Size /\ Len(next) = Size /\ Len(hi) = Size /\ Len(lo) = Size
           /\ \A n \in Nodes :
                 /\ n \in Nat /\ n >= 1 /\ n <= Size
                 /\ keyval[n] \in 0 .. 256
                 /\ next[n] \in Nat /\ next[n] <= Size /\ (next[n] = NoNode \/ n < next[n])
                 /\ hi[n] \in Nat /\ hi[n] <= Size /\ (hi[n] = NoNode \/ n < hi[n])
                 /\ lo[n] \in Nat
                 /\ keyval[n] # Timeout =>
                       lo[n] <= Size /\ (lo[n] = NoNode \/ n < lo[n])
  <1>1. Size \in Nat
    BY LenProperties DEF Types, Size
  <1>2. Len(kfun) = Size /\ Len(next) = Size /\ Len(hi) = Size /\ Len(lo) = Size
    BY DEF Types, TypeOK
  <1>3. ASSUME NEW n \in Nodes
        PROVE  /\ n \in Nat /\ n >= 1 /\ n <= Size
               /\ keyval[n] \in 0 .. 256 /\ lo[n] \in Nat
    <2>1. n \in Nat /\ n >= 1 /\ n <= Size
      BY <1>1 DEF Nodes
    <2>2. n \in 1 .. Len(keyval) /\ n \in 1 .. Len(lo)
      BY <1>2 DEF Nodes, Size
    <2>3. keyval[n] \in 0 .. 256 /\ lo[n] \in Nat
      BY <2>2, ElementOfSeq DEF Types, Vals
    <2> QED BY <2>1, <2>3
  <1>4. ASSUME NEW n \in Nodes
        PROVE  /\ next[n] \in Nat /\ next[n] <= Size /\ (next[n] = NoNode \/ n < next[n])
               /\ hi[n] \in Nat /\ hi[n] <= Size /\ (hi[n] = NoNode \/ n < hi[n])
    <2>1. next[n] \in {NoNode} \cup (n + 1 .. Size) /\ hi[n] \in {NoNode} \cup (n + 1 .. Size)
      BY DEF Types, TypeOK
    <2> QED BY <1>1, <1>3, <2>1 DEF NoNode
  <1>5. ASSUME NEW n \in Nodes, keyval[n] # Timeout
        PROVE  lo[n] <= Size /\ (lo[n] = NoNode \/ n < lo[n])
    <2>1. lo[n] \in {NoNode} \cup (n + 1 .. Size)
      BY <1>5 DEF Types, TypeOK
    <2> QED BY <1>1, <1>3, <2>1 DEF NoNode
  <1> QED BY <1>1, <1>2, <1>3, <1>4, <1>5

LEMMA ChildIsNode ==
    ASSUME Types, NEW n \in Nodes
    PROVE  /\ next[n] # NoNode => next[n] \in Nodes /\ n < next[n]
           /\ hi[n] # NoNode => hi[n] \in Nodes /\ n < hi[n]
           /\ lo[n] # NoNode /\ keyval[n] # Timeout => lo[n] \in Nodes /\ n < lo[n]
  <1>1. /\ Size \in Nat /\ n \in Nat /\ n >= 1
        /\ next[n] \in Nat /\ next[n] <= Size /\ (next[n] = NoNode \/ n < next[n])
        /\ hi[n] \in Nat /\ hi[n] <= Size /\ (hi[n] = NoNode \/ n < hi[n])
        /\ lo[n] \in Nat
        /\ keyval[n] # Timeout => lo[n] <= Size /\ (lo[n] = NoNode \/ n < lo[n])
    BY NodeFacts
  <1>2. \A c \in Nat : c <= Size /\ n < c => c \in Nodes
    BY <1>1 DEF Nodes
  <1> QED BY <1>1, <1>2

(* A turn of the walk, with w for what it finds from there on. *)
Turn(w, s, n, i) ==
    IF n = NoNode THEN NoNode
    ELSE IF keyval[n] = Timeout \/ s[i] > keyval[n] THEN w[hi[n]][i]
    ELSE IF s[i] < keyval[n] THEN w[lo[n]][i]
    ELSE IF i = Len(s) THEN n ELSE w[next[n]][i + 1]

(* Since pointers lead to later nodes, the walk is well defined.           *)
LEMMA WalkTurns ==
    ASSUME Types, NEW s \in Seq(Bytes)
    PROVE  \A n \in 0 .. Size, i \in 1 .. Len(s) :
              WalkFrom(s)[n][i] = Turn(WalkFrom(s), s, n, i)
  <1> DEFINE I == 1 .. Len(s)
             Late(m) == {x \in 0 .. Size : x = NoNode \/ x > Size - m}
             IsWalk(w, m) == /\ w \in [Late(m) -> [I -> Nat]]
                             /\ \A n \in Late(m), i \in I : w[n][i] = Turn(w, s, n, i)
             Bad == {m \in 0 .. Size : \A w : ~IsWalk(w, m)}
  <1>1. Size \in Nat
    BY NodeFacts
  <1>2. Len(s) \in Nat /\ \A i \in I : s[i] \in Bytes
    BY LenProperties, ElementOfSeq
  <1>3. Bad = {}
    <2> SUFFICES ASSUME Bad # {} PROVE FALSE
      OBVIOUS
    <2>1. Bad \in SUBSET Nat
      BY <1>1
    <2>2. PICK m \in Bad : \A y \in Bad : m <= y
      BY <2>1, LeastNat
    <2>5. m \in Nat /\ m <= Size /\ m \in 0 .. Size
      BY <1>1, <2>2
    <2>6. \A y \in 0 .. Size : y < m => y \notin Bad
      <3>1. \A y \in 0 .. Size : y < m => ~(m <= y)
        BY <2>5
      <3> QED BY <2>2, <3>1
    <2>3. CASE m = 0
      <3> DEFINE w == [n \in Late(0) |-> [i \in I |-> NoNode]]
      <3>1. \A n \in Late(0) : n = NoNode
        BY <1>1
      <3>2. w \in [Late(0) -> [I -> Nat]]
        BY DEF NoNode
      <3>3. IsWalk(w, 0)
        BY <3>1, <3>2 DEF Turn
      <3> QED BY <2>2, <2>3, <3>3
    <2>4. CASE m > 0
      <3>1. m - 1 \in 0 .. Size /\ m - 1 \notin Bad
        <4>1. m - 1 \in 0 .. Size /\ m - 1 < m
          BY <1>1, <2>4, <2>5
        <4> QED BY <2>6, <4>1
      <3>2. PICK w : IsWalk(w, m - 1)
        BY <3>1
      <3> DEFINE x == Size - m + 1
                 v == [n \in Late(m) |-> IF n = x THEN [i \in I |-> Turn(w, s, x, i)] ELSE w[n]]
      <3>3. x \in Nodes /\ x >= 1
        BY <1>1, <2>5, <2>4 DEF Nodes
      <3>4. Late(m) = Late(m - 1) \cup {x} /\ x \notin Late(m - 1)
        <4>1. \A z \in 0 .. Size : z > Size - m <=> z > Size - (m - 1) \/ z = x
          BY <1>1, <2>5, <2>4
        <4>2. x \in 0 .. Size /\ x # NoNode /\ ~(x > Size - (m - 1))
          BY <1>1, <2>5, <2>4, <3>3 DEF NoNode
        <4> QED BY <4>1, <4>2
      <3>5. ASSUME NEW n \in Late(m), n # NoNode
            PROVE  /\ n \in Nodes /\ hi[n] \in Late(m - 1) /\ next[n] \in Late(m - 1)
                   /\ keyval[n] # Timeout => lo[n] \in Late(m - 1)
        <4>1. n \in Nodes /\ n >= x
          BY <1>1, <2>5, <2>4, <3>5 DEF Nodes, NoNode
        <4>2. \A c \in Nat : c <= Size /\ (c = NoNode \/ n < c) => c \in Late(m - 1)
          BY <1>1, <2>5, <2>4, <4>1 DEF NoNode, Nodes
        <4> QED BY <4>1, <4>2, NodeFacts
      <3>6. ASSUME NEW n \in Late(m), NEW i \in I
            PROVE  /\ Turn(w, s, n, i) \in Nat
                   /\ Turn(v, s, n, i) = Turn(w, s, n, i)
        <4>1. CASE n = NoNode
          BY <4>1 DEF Turn, NoNode
        <4>2. CASE n # NoNode
          <5>1. \A c \in Late(m - 1) : v[c] = w[c] /\ w[c] \in [I -> Nat]
            BY <3>2, <3>4
          <5>3. i # Len(s) => i + 1 \in I
            BY <1>2
          <5>4. n \in Nat
            BY <1>1
          <5>5. /\ hi[n] \in Late(m - 1) /\ next[n] \in Late(m - 1)
                /\ keyval[n] # Timeout => lo[n] \in Late(m - 1)
            BY <3>5, <4>2
          <5> DEFINE L == Late(m - 1)
          <5>7. /\ \A c \in L : v[c] = w[c] /\ w[c] \in [I -> Nat]
                /\ hi[n] \in L /\ next[n] \in L
                /\ keyval[n] # Timeout => lo[n] \in L
            BY <5>1, <5>5
          <5>8. i \in I
            OBVIOUS
          <5> HIDE DEF v, L, I, Late
          <5>9. \A c \in L : w[c][i] \in Nat /\ v[c][i] = w[c][i]
            BY <5>7, <5>8
          <5>10. i # Len(s) => \A c \in L : w[c][i + 1] \in Nat /\ v[c][i + 1] = w[c][i + 1]
            BY <5>3, <5>7
          <5>11. CASE keyval[n] = Timeout \/ s[i] > keyval[n]
            BY <5>7, <5>9, <5>11, <4>2, Zenon DEF Turn
          <5>12. CASE ~(keyval[n] = Timeout \/ s[i] > keyval[n]) /\ s[i] < keyval[n]
            BY <5>7, <5>9, <5>12, <4>2, Zenon DEF Turn
          <5>13. CASE ~(keyval[n] = Timeout \/ s[i] > keyval[n]) /\ ~(s[i] < keyval[n])
            BY <5>4, <5>7, <5>10, <5>13, <4>2, Zenon DEF Turn
          <5> QED BY <5>11, <5>12, <5>13
        <4> QED BY <4>1, <4>2
      <3>7. v \in [Late(m) -> [I -> Nat]]
        <4>1. [i \in I |-> Turn(w, s, x, i)] \in [I -> Nat]
          BY <3>4, <3>6
        <4> QED BY <3>2, <3>4, <4>1
      <3>8. ASSUME NEW n \in Late(m), NEW i \in I
            PROVE  v[n][i] = Turn(v, s, n, i)
        <4>1. CASE n = x
          BY <3>4, <3>6, <4>1
        <4>2. CASE n # x
          BY <3>2, <3>4, <3>6, <4>2
        <4> QED BY <4>1, <4>2
      <3> QED BY <2>2, <3>7, <3>8
    <2> QED BY <2>5, <2>3, <2>4
  <1>4. PICK w : IsWalk(w, Size)
    <2>1. Size \in 0 .. Size /\ Size \notin Bad
      BY <1>1, <1>3
    <2> QED BY <2>1
  <1>5. Late(Size) = 0 .. Size
    BY <1>1 DEF NoNode
  <1>6. w = [n \in 0 .. Size |-> [i \in I |-> Turn(w, s, n, i)]]
    <2>1. \A n \in 0 .. Size : w[n] = [i \in I |-> w[n][i]]
      BY <1>4, <1>5
    <2>2. \A n \in 0 .. Size : [i \in I |-> w[n][i]] = [i \in I |-> Turn(w, s, n, i)]
      BY <1>4, <1>5
    <2>3. w = [n \in 0 .. Size |-> w[n]]
      BY <1>4, <1>5
    <2> QED BY <2>1, <2>2, <2>3
  <1>7. WalkFrom(s) = CHOOSE u : u = [n \in 0 .. Size |-> [i \in I |-> Turn(u, s, n, i)]]
    BY DEF WalkFrom, Turn
  <1>8. WalkFrom(s) = [n \in 0 .. Size |-> [i \in I |-> Turn(WalkFrom(s), s, n, i)]]
    BY <1>6, <1>7
  <1> SUFFICES ASSUME NEW n \in 0 .. Size, NEW i \in I
               PROVE  WalkFrom(s)[n][i] = Turn(WalkFrom(s), s, n, i)
    OBVIOUS
  <1> DEFINE W == WalkFrom(s)
  <1>9. W[n] = [j \in I |-> Turn(W, s, n, j)]
    <2>1. W = [x \in 0 .. Size |-> [j \in I |-> Turn(W, s, x, j)]]
      BY <1>8
    <2> HIDE DEF W
    <2> QED BY <2>1
  <1> HIDE DEF W
  <1>10. W[n][i] = Turn(W, s, n, i)
    BY <1>9
  <1> QED BY <1>10 DEF W

LEMMA KeyvalNat == ASSUME Types PROVE \A n \in Nodes : keyval[n] \in Nat
  <1>1. \A n \in Nodes : keyval[n] \in 0 .. 256
    BY NodeFacts
  <1> QED BY <1>1

LEMMA WalkEnds ==
    ASSUME Types, NEW s \in Seq(Bytes)
    PROVE  \A i \in 1 .. Len(s) : WalkFrom(s)[NoNode][i] = NoNode
  <1>1. NoNode \in 0 .. Size
    BY NodeFacts DEF NoNode
  <1> QED BY <1>1, WalkTurns DEF Turn

LEMMA WalkAbove ==
    ASSUME Types, NEW s \in Seq(Bytes), NEW n \in Nodes, NEW i \in 1 .. Len(s),
           keyval[n] = Timeout \/ s[i] > keyval[n]
    PROVE  WalkFrom(s)[n][i] = WalkFrom(s)[hi[n]][i]
  <1>1. n \in 0 .. Size /\ n # NoNode
    BY NodeFacts DEF NoNode, Nodes
  <1>2. WalkFrom(s)[n][i] = Turn(WalkFrom(s), s, n, i)
    BY <1>1, WalkTurns
  <1> QED BY <1>1, <1>2 DEF Turn

LEMMA WalkBelow ==
    ASSUME Types, NEW s \in Seq(Bytes), NEW n \in Nodes, NEW i \in 1 .. Len(s),
           keyval[n] # Timeout, s[i] < keyval[n]
    PROVE  WalkFrom(s)[n][i] = WalkFrom(s)[lo[n]][i]
  <1>1. n \in 0 .. Size /\ n # NoNode
    BY NodeFacts DEF NoNode, Nodes
  <1>2. WalkFrom(s)[n][i] = Turn(WalkFrom(s), s, n, i)
    BY <1>1, WalkTurns
  <1>3. keyval[n] \in Nat /\ s[i] \in Nat
    <2>1. s[i] \in Bytes
      BY ElementOfSeq
    <2>2. s[i] \in Nat
      BY <2>1, ByteIsNat
    <2>3. keyval[n] \in Nat
      BY KeyvalNat
    <2> QED BY <2>2, <2>3
  <1>4. ~(s[i] > keyval[n])
    BY <1>3
  <1> QED BY <1>1, <1>2, <1>4 DEF Turn

LEMMA WalkOn ==
    ASSUME Types, NEW s \in Seq(Bytes), NEW n \in Nodes, NEW i \in 1 .. Len(s),
           Filled(n), s[i] = keyval[n]
    PROVE  WalkFrom(s)[n][i] = IF i = Len(s) THEN n ELSE WalkFrom(s)[next[n]][i + 1]
  <1>1. n \in 0 .. Size /\ n # NoNode
    BY NodeFacts DEF NoNode, Nodes
  <1>2. WalkFrom(s)[n][i] = Turn(WalkFrom(s), s, n, i)
    BY <1>1, WalkTurns
  <1>3. keyval[n] \in Nat
    BY KeyvalNat
  <1>4. ~(s[i] > keyval[n]) /\ ~(s[i] < keyval[n])
    BY <1>3
  <1> QED BY <1>1, <1>2, <1>4 DEF Turn, Filled

LEMMA KeyIs ==
    ASSUME NEW G, NEW n \in Nodes, Types, G \in [Nodes -> Place], Filled(n)
    PROVE  /\ Key(G, n) \in Seq(Bytes) /\ Key(G, n) # <<>>
           /\ Len(G[n].path) \in Nat /\ Len(Key(G, n)) = Len(G[n].path) + 1
           /\ \A j \in 1 .. Len(G[n].path) : Key(G, n)[j] = G[n].path[j]
           /\ Key(G, n)[Len(G[n].path) + 1] = keyval[n]
  <1>1. G[n].path \in Seq(Bytes)
    BY DEF Place
  <1>2. keyval[n] \in Bytes
    BY NodeFacts DEF Filled, Bytes, Timeout
  <1>3. Len(G[n].path) \in Nat
    BY <1>1, LenProperties
  <1> DEFINE p == G[n].path
             c == keyval[n]
  <1>4. p \in Seq(Bytes) /\ c \in Bytes /\ Len(p) \in Nat
    BY <1>1, <1>2, <1>3
  <1> HIDE DEF p, c
  <1>5. /\ Append(p, c) \in Seq(Bytes) /\ Append(p, c) # <<>>
        /\ Len(Append(p, c)) = Len(p) + 1
        /\ \A j \in 1 .. Len(p) : Append(p, c)[j] = p[j]
        /\ Append(p, c)[Len(p) + 1] = c
    BY <1>4, AppendProperties
  <1> QED BY <1>4, <1>5 DEF p, c, Key

(* Where a sequence is spelt by a node, a walk for it may look for its     *)
(* last byte.                                                              *)
LEMMA SpelltIs ==
    ASSUME NEW G, Types, Shape(G), NEW s \in Seq(Bytes), NEW n \in Nodes, Filled(n)
    PROVE  /\ s = Key(G, n) => On(G, s, n, Len(s)) /\ s[Len(s)] = keyval[n]
           /\ On(G, s, n, Len(s)) /\ s[Len(s)] = keyval[n] => s = Key(G, n)
  <1> DEFINE p == G[n].path
  <1>1. /\ Key(G, n) \in Seq(Bytes) /\ Len(p) \in Nat /\ Len(Key(G, n)) = Len(p) + 1
        /\ \A j \in 1 .. Len(p) : Key(G, n)[j] = p[j]
        /\ Key(G, n)[Len(p) + 1] = keyval[n]
    BY KeyIs DEF Shape
  <1>2. G[n].above < keyval[n] /\ keyval[n] < G[n].below
    BY DEF Shape, NodeRight
  <1>3. ASSUME s = Key(G, n)
        PROVE  On(G, s, n, Len(s)) /\ s[Len(s)] = keyval[n]
    <2>1. Len(s) = Len(p) + 1 /\ s[Len(s)] = keyval[n]
      BY <1>1, <1>3
    <2>2. Len(s) \in 1 .. Len(s) /\ 1 .. Len(s) - 1 = 1 .. Len(p) /\ Len(p) = Len(s) - 1
      BY <1>1, <2>1
    <2>3. \A j \in 1 .. Len(s) - 1 : p[j] = s[j]
      BY <1>1, <1>3, <2>2
    <2> QED BY <1>2, <2>1, <2>2, <2>3 DEF On, Prefix
  <1>4. ASSUME On(G, s, n, Len(s)), s[Len(s)] = keyval[n]
        PROVE  s = Key(G, n)
    <2>1. /\ Len(p) = Len(s) - 1 /\ \A j \in 1 .. Len(s) - 1 : p[j] = s[j]
          /\ Len(s) \in 1 .. Len(s)
      BY <1>4 DEF On, Prefix
    <2>2. Len(s) \in Nat
      BY LenProperties
    <2>3. Len(s) = Len(Key(G, n)) /\ Len(s) = Len(p) + 1
      BY <1>1, <2>1, <2>2
    <2>4. ASSUME NEW j \in 1 .. Len(s) PROVE s[j] = Key(G, n)[j]
      <3>1. j \in 1 .. Len(s) - 1 \/ j = Len(s)
        BY <2>2
      <3>2. CASE j \in 1 .. Len(s) - 1
        <4>1. j \in 1 .. Len(p)
          BY <2>1, <3>2
        <4> QED BY <1>1, <2>1, <3>2, <4>1
      <3>3. CASE j = Len(s)
        BY <1>1, <1>4, <2>3, <3>3
      <3> QED BY <3>1, <3>2, <3>3
    <2> QED BY <1>1, <2>3, <2>4, SeqEqual
  <1> QED BY <1>3, <1>4

(* The walk goes on where it may be: at a child it may be, too.            *)
LEMMA OnTurns ==
    ASSUME NEW G, Types, Shape(G), NEW s \in Seq(Bytes), NEW n, NEW i, On(G, s, n, i)
    PROVE  \/ /\ keyval[n] = Timeout \/ s[i] > keyval[n]
              /\ WalkFrom(s)[n][i] = WalkFrom(s)[hi[n]][i]
              /\ hi[n] # NoNode => On(G, s, hi[n], i)
           \/ /\ keyval[n] # Timeout /\ s[i] < keyval[n]
              /\ WalkFrom(s)[n][i] = WalkFrom(s)[lo[n]][i]
              /\ lo[n] # NoNode => On(G, s, lo[n], i)
           \/ /\ keyval[n] = s[i] /\ Filled(n) /\ i = Len(s)
              /\ WalkFrom(s)[n][i] = n
           \/ /\ keyval[n] = s[i] /\ Filled(n) /\ i # Len(s)
              /\ WalkFrom(s)[n][i] = WalkFrom(s)[next[n]][i + 1]
              /\ next[n] # NoNode => On(G, s, next[n], i + 1)
  <1>1. /\ n \in Nodes /\ i \in 1 .. Len(s) /\ Len(s) \in Nat /\ s[i] \in Bytes
        /\ Prefix(G[n].path, s, i)
        /\ G[n].above < s[i] /\ s[i] < G[n].below
    BY LenProperties, ElementOfSeq DEF On
  <1>2. n \in Nat /\ n # NoNode /\ n \in 0 .. Size /\ keyval[n] \in 0 .. 256
    <2>1. n \in Nat /\ n >= 1 /\ n <= Size /\ Size \in Nat /\ keyval[n] \in 0 .. 256
      BY <1>1, NodeFacts
    <2> QED BY <2>1 DEF NoNode
  <1>3. WalkFrom(s)[n][i] = Turn(WalkFrom(s), s, n, i)
    BY <1>1, <1>2, WalkTurns
  <1>4. NodeRight(G, n) /\ G[n] \in Place
    BY <1>1 DEF Shape
  <1>5. CASE keyval[n] = Timeout \/ s[i] > keyval[n]
    <2>1. WalkFrom(s)[n][i] = WalkFrom(s)[hi[n]][i]
      BY <1>2, <1>3, <1>5 DEF Turn
    <2>2. ASSUME hi[n] # NoNode PROVE On(G, s, hi[n], i)
      <3>1. /\ G[hi[n]].path = G[n].path /\ G[hi[n]].below = G[n].below
            /\ G[hi[n]].above = IF keyval[n] = Timeout THEN G[n].above ELSE keyval[n]
        BY <1>4, <2>2 DEF NodeRight
      <3>2. hi[n] \in Nodes
        BY <1>1, <2>2, ChildIsNode
      <3>3. G[hi[n]].above < s[i]
        BY <1>1, <1>5, <3>1
      <3> QED BY <1>1, <3>1, <3>2, <3>3 DEF On
    <2> QED BY <1>5, <2>1, <2>2
  <1>6. CASE ~(keyval[n] = Timeout \/ s[i] > keyval[n]) /\ s[i] < keyval[n]
    <2>1. WalkFrom(s)[n][i] = WalkFrom(s)[lo[n]][i]
      BY <1>2, <1>3, <1>6 DEF Turn
    <2>2. ASSUME lo[n] # NoNode PROVE On(G, s, lo[n], i)
      <3>1. /\ G[lo[n]].path = G[n].path /\ G[lo[n]].above = G[n].above
            /\ G[lo[n]].below = keyval[n]
        BY <1>4, <1>6, <2>2 DEF NodeRight
      <3>2. lo[n] \in Nodes
        BY <1>1, <1>6, <2>2, ChildIsNode
      <3> QED BY <1>1, <1>6, <3>1, <3>2 DEF On
    <2> QED BY <1>6, <2>1, <2>2
  <1>7. CASE ~(keyval[n] = Timeout \/ s[i] > keyval[n]) /\ ~(s[i] < keyval[n])
    <2>1. s[i] = keyval[n] /\ keyval[n] # 0 /\ keyval[n] # Timeout
      BY <1>1, <1>2, <1>7, Smaller
    <2>2. CASE i = Len(s)
      <3>1. WalkFrom(s)[n][i] = n
        BY <1>2, <1>3, <1>7, <2>2 DEF Turn
      <3> QED BY <2>1, <2>2, <3>1 DEF Filled
    <2>3. CASE i # Len(s)
      <3>1. WalkFrom(s)[n][i] = WalkFrom(s)[next[n]][i + 1]
        BY <1>2, <1>3, <1>7, <2>3 DEF Turn
      <3>2. ASSUME next[n] # NoNode PROVE On(G, s, next[n], i + 1)
        <4>1. /\ G[next[n]].path = Key(G, n)
              /\ G[next[n]].above = 0 /\ G[next[n]].below = 256
          BY <1>4, <3>2 DEF NodeRight
        <4>2. next[n] \in Nodes
          BY <1>1, <3>2, ChildIsNode
        <4>3. i + 1 \in 1 .. Len(s) /\ s[i + 1] \in Bytes /\ (i + 1) - 1 = i /\ i \in Nat
          <5>1. i + 1 \in 1 .. Len(s) /\ (i + 1) - 1 = i /\ i \in Nat
            BY <1>1, <2>3
          <5> QED BY <5>1, ElementOfSeq
        <4>4. /\ Len(Key(G, n)) = Len(G[n].path) + 1 /\ Len(G[n].path) \in Nat
              /\ \A j \in 1 .. Len(G[n].path) : Key(G, n)[j] = G[n].path[j]
              /\ Key(G, n)[Len(G[n].path) + 1] = keyval[n]
          BY <1>1, <2>1, KeyIs DEF Shape, Filled
        <4>5. Prefix(Key(G, n), s, i + 1)
          <5>1. Len(G[n].path) = i - 1 /\ \A j \in 1 .. i - 1 : G[n].path[j] = s[j]
            BY <1>1 DEF Prefix
          <5>2. Len(Key(G, n)) = i /\ Key(G, n)[i] = s[i]
            BY <2>1, <4>3, <4>4, <5>1
          <5>3. \A j \in 1 .. i : j \in 1 .. i - 1 \/ j = i
            BY <4>3
          <5>4. \A j \in 1 .. i : Key(G, n)[j] = s[j]
            BY <4>4, <5>1, <5>2, <5>3
          <5> QED BY <4>3, <5>2, <5>4 DEF Prefix
        <4>6. 0 < s[i + 1] /\ s[i + 1] < 256
          BY <4>3, Smaller
        <4> QED BY <4>1, <4>2, <4>3, <4>5, <4>6 DEF On
      <3> QED BY <2>1, <2>3, <3>1, <3>2 DEF Filled
    <2> QED BY <2>2, <2>3
  <1> QED BY <1>5, <1>6, <1>7

(* What the walk finds spells what it looked for. *)
LEMMA WalkSound ==
    ASSUME NEW G, Types, Shape(G), NEW s \in Seq(Bytes), NEW n, NEW i, On(G, s, n, i),
           WalkFrom(s)[n][i] # NoNode
    PROVE  /\ WalkFrom(s)[n][i] \in Nodes /\ Filled(WalkFrom(s)[n][i])
           /\ Key(G, WalkFrom(s)[n][i]) = s
  <1> DEFINE w(x, k) == WalkFrom(s)[x][k]
             Sound(x, k) == w(x, k) # NoNode =>
                               w(x, k) \in Nodes /\ Filled(w(x, k)) /\ Key(G, w(x, k)) = s
             Bad == {m \in 0 .. Size : \E x, k : m = Size - x /\ On(G, s, x, k) /\ ~Sound(x, k)}
  <1>1. Size \in Nat /\ \A x \in Nodes : x \in Nat /\ x >= 1 /\ x <= Size
    BY NodeFacts
  <1>2. CASE Bad = {}
    <2>1. n \in Nodes
      BY DEF On
    <2>2. Size - n \in 0 .. Size
      BY <1>1, <2>1
    <2>3. Sound(n, i)
      BY <1>2, <2>2
    <2> QED BY <2>3
  <1>3. CASE Bad # {}
    <2>1. Bad \in SUBSET Nat
      BY <1>1
    <2>2. PICK m \in Bad : \A y \in Bad : m <= y
      BY <1>3, <2>1, LeastNat
    <2>3. PICK x, k : m = Size - x /\ On(G, s, x, k) /\ ~Sound(x, k)
      BY <2>2
    <2>4. x \in Nodes /\ m \in Nat
      BY <2>1, <2>2, <2>3 DEF On
    <2>5. ASSUME NEW c \in Nodes, NEW l, x < c, On(G, s, c, l)
          PROVE  Sound(c, l)
      <3>1. Size - c \in 0 .. Size /\ Size - c < m
        BY <1>1, <2>3, <2>4, <2>5
      <3>2. ~(m <= Size - c)
        BY <2>4, <3>1
      <3>3. Size - c \notin Bad
        BY <2>2, <3>2
      <3> QED BY <2>5, <3>1, <3>3
    <2>6. \A l \in 1 .. Len(s) : w(NoNode, l) = NoNode
      BY WalkEnds
    <2>7. k \in 1 .. Len(s) /\ Len(s) \in Nat
      BY <2>3, LenProperties DEF On
    <2>8. ASSUME NEW c, NEW l \in 1 .. Len(s), w(x, k) = w(c, l),
                 c # NoNode => c \in Nodes /\ x < c /\ On(G, s, c, l)
          PROVE  FALSE
      <3>1. CASE c = NoNode
        BY <2>3, <2>6, <2>8, <3>1
      <3>2. CASE c # NoNode
        <4>1. Sound(c, l)
          BY <2>5, <2>8, <3>2
        <4> QED BY <2>3, <2>8, <4>1
      <3> QED BY <3>1, <3>2
    <2>9. /\ hi[x] # NoNode => hi[x] \in Nodes /\ x < hi[x]
          /\ next[x] # NoNode => next[x] \in Nodes /\ x < next[x]
          /\ lo[x] # NoNode /\ keyval[x] # Timeout => lo[x] \in Nodes /\ x < lo[x]
      BY <2>4, ChildIsNode
    <2>10. CASE w(x, k) = w(hi[x], k) /\ (hi[x] # NoNode => On(G, s, hi[x], k))
      BY <2>7, <2>8, <2>9, <2>10
    <2>11. CASE /\ keyval[x] # Timeout /\ w(x, k) = w(lo[x], k)
                /\ lo[x] # NoNode => On(G, s, lo[x], k)
      BY <2>7, <2>8, <2>9, <2>11
    <2>12. CASE /\ k # Len(s) /\ w(x, k) = w(next[x], k + 1)
                /\ next[x] # NoNode => On(G, s, next[x], k + 1)
      <3>1. k + 1 \in 1 .. Len(s)
        BY <2>7, <2>12
      <3> QED BY <2>8, <2>9, <2>12, <3>1
    <2>13. CASE keyval[x] = s[k] /\ Filled(x) /\ k = Len(s) /\ w(x, k) = x
      <3>1. Key(G, x) = s
        BY <2>3, <2>4, <2>13, SpelltIs
      <3> QED BY <2>3, <2>4, <2>13, <3>1
    <2>14. \/ w(x, k) = w(hi[x], k) /\ (hi[x] # NoNode => On(G, s, hi[x], k))
           \/ /\ keyval[x] # Timeout /\ w(x, k) = w(lo[x], k)
              /\ lo[x] # NoNode => On(G, s, lo[x], k)
           \/ keyval[x] = s[k] /\ Filled(x) /\ k = Len(s) /\ w(x, k) = x
           \/ /\ k # Len(s) /\ w(x, k) = w(next[x], k + 1)
              /\ next[x] # NoNode => On(G, s, next[x], k + 1)
      BY <2>3, OnTurns
    <2> QED BY <2>10, <2>11, <2>12, <2>13, <2>14
  <1> QED BY <1>2, <1>3

(* Wherever a walk may be, the walk from the root passes. *)
LEMMA WalkPasses ==
    ASSUME NEW G, Types, Shape(G), NEW s \in Seq(Bytes), NEW n, NEW i, On(G, s, n, i)
    PROVE  WalkFrom(s)[1][1] = WalkFrom(s)[n][i]
  <1> DEFINE w(x, k) == WalkFrom(s)[x][k]
             Bad == {x \in Nodes : \E k : On(G, s, x, k) /\ w(1, 1) # w(x, k)}
  <1>1. Size \in Nat /\ \A x \in Nodes : x \in Nat /\ x >= 1 /\ x <= Size
    BY NodeFacts
  <1>2. CASE Bad = {}
    <2>1. n \in Nodes
      BY DEF On
    <2> QED BY <1>2, <2>1
  <1>3. CASE Bad # {}
    <2>1. Bad \in SUBSET Nat
      BY <1>1
    <2>2. PICK x \in Bad : \A y \in Bad : x <= y
      BY <1>3, <2>1, LeastNat
    <2>3. PICK k : On(G, s, x, k) /\ w(1, 1) # w(x, k)
      BY <2>2
    <2>4. x \in Nodes /\ x \in Nat
      BY <1>1, <2>2
    <2>5. k \in 1 .. Len(s) /\ Len(s) \in Nat /\ Prefix(G[x].path, s, k) /\ s[k] \in Bytes
      BY <2>3, LenProperties, ElementOfSeq DEF On
    <2>6. CASE x = 1
      <3>1. Len(G[1].path) = 0
        BY <1>1, <2>4, <2>6, EmptySeq DEF Shape
      <3>2. k = 1
        BY <2>5, <2>6, <3>1 DEF Prefix
      <3> QED BY <2>3, <2>6, <3>2
    <2>7. CASE x # 1
      <3>1. PICK m \in Nodes : m < x /\ Child(m, x)
        BY <2>4, <2>7 DEF Shape, NodeRight
      <3>2. ASSUME NEW l, On(G, s, m, l), w(m, l) = w(x, k) PROVE FALSE
        <4>1. m \notin Bad
          BY <1>1, <2>2, <2>4, <3>1
        <4> QED BY <2>3, <3>1, <3>2, <4>1
      <3>3. NodeRight(G, m) /\ m \in Nat /\ m # NoNode /\ x # NoNode /\ G[m] \in Place
        BY <1>1, <2>4, <3>1 DEF Shape, NoNode
      <3>4. CASE hi[m] = x
        <4>1. /\ G[x].path = G[m].path /\ G[x].below = G[m].below
              /\ G[x].above = IF keyval[m] = Timeout THEN G[m].above ELSE keyval[m]
          BY <3>3, <3>4 DEF NodeRight
        <4>2. keyval[m] = Timeout \/ s[k] > keyval[m]
          BY <2>3, <4>1 DEF On
        <4>3. G[m].above < s[k]
          <5>1. CASE keyval[m] = Timeout
            BY <2>3, <4>1, <5>1 DEF On
          <5>2. CASE keyval[m] # Timeout
            <6>1. keyval[m] # 0
              BY <3>3, <3>4 DEF NodeRight, Empty
            <6>2. G[m].above < keyval[m] /\ G[m].above \in Nat /\ keyval[m] \in Nat
              BY <3>1, <3>3, <5>2, <6>1, KeyvalNat DEF NodeRight, Filled, Place
            <6>3. G[x].above = keyval[m]
              BY <4>1, <5>2
            <6>4. keyval[m] < s[k]
              BY <2>3, <6>3 DEF On
            <6>5. s[k] \in Nat
              BY <2>5, ByteIsNat
            <6> QED BY <6>2, <6>4, <6>5, Between
          <5> QED BY <5>1, <5>2
        <4>4. On(G, s, m, k)
          BY <2>3, <3>1, <4>1, <4>3 DEF On
        <4>5. w(m, k) = w(x, k)
          BY <3>1, <3>3, <3>4, <4>2, <2>5, WalkAbove
        <4> QED BY <3>2, <4>4, <4>5
      <3>5. CASE lo[m] = x /\ keyval[m] # Timeout
        <4>1. /\ G[x].path = G[m].path /\ G[x].above = G[m].above
              /\ G[x].below = keyval[m]
          BY <3>3, <3>5 DEF NodeRight
        <4>2. s[k] < keyval[m] /\ keyval[m] \in Nat /\ s[k] \in Nat /\ G[m].above < s[k]
          <5>1. s[k] \in Nat
            BY <2>5, ByteIsNat
          <5> QED BY <2>3, <3>1, <4>1, <5>1, KeyvalNat DEF On
        <4>3. s[k] < G[m].below
          <5>1. keyval[m] # 0
            BY <3>3, <3>5 DEF NodeRight, Empty
          <5>2. keyval[m] < G[m].below /\ G[m].below \in Nat
            BY <3>3, <3>5, <5>1 DEF NodeRight, Filled, Place
          <5> QED BY <4>2, <5>2, Between
        <4>4. On(G, s, m, k)
          BY <2>3, <3>1, <4>1, <4>2, <4>3 DEF On
        <4>5. w(m, k) = w(x, k)
          BY <3>1, <3>5, <4>2, <2>5, WalkBelow
        <4> QED BY <3>2, <4>4, <4>5
      <3>6. CASE next[m] = x
        <4>1. G[x].path = Key(G, m)
          BY <3>3, <3>6 DEF NodeRight
        <4>2. keyval[m] # Timeout
          BY <3>1, <3>3, <3>6 DEF Types, TypeOK
        <4>3. Filled(m)
          BY <3>3, <3>6, <4>2 DEF NodeRight, Empty, Filled
        <4>4. /\ Len(Key(G, m)) = Len(G[m].path) + 1 /\ Len(G[m].path) \in Nat
              /\ \A j \in 1 .. Len(G[m].path) : Key(G, m)[j] = G[m].path[j]
              /\ Key(G, m)[Len(G[m].path) + 1] = keyval[m]
          BY <3>1, <4>3, KeyIs DEF Shape
        <4>5. /\ Len(G[m].path) + 1 = k - 1
              /\ \A j \in 1 .. k - 1 : Key(G, m)[j] = s[j]
          BY <2>5, <4>1, <4>4 DEF Prefix
        <4>6. /\ k - 1 \in 1 .. Len(s) /\ Len(G[m].path) = (k - 1) - 1
              /\ k - 1 \in 1 .. k - 1 /\ k - 1 # Len(s) /\ (k - 1) + 1 = k
          BY <2>5, <4>4, <4>5
        <4>7. s[k - 1] = keyval[m]
          BY <4>4, <4>5, <4>6
        <4>8. Prefix(G[m].path, s, k - 1)
          <5>1. \A j \in 1 .. (k - 1) - 1 : j \in 1 .. k - 1 /\ j \in 1 .. Len(G[m].path)
            BY <2>5, <4>6
          <5> QED BY <4>4, <4>5, <4>6, <5>1 DEF Prefix
        <4>9. On(G, s, m, k - 1)
          BY <3>1, <3>3, <4>3, <4>6, <4>7, <4>8 DEF On, NodeRight
        <4>10. w(m, k - 1) = w(x, k)
          BY <3>1, <3>6, <4>3, <4>6, <4>7, <2>5, WalkOn
        <4> QED BY <3>2, <4>9, <4>10
      <3> QED BY <3>1, <3>4, <3>5, <3>6 DEF Child
    <2> QED BY <2>6, <2>7
  <1> QED BY <1>2, <1>3

(* So the walk finds the node that spells a sequence, if there is one.     *)
LEMMA FoundIs ==
    ASSUME NEW G, Types, Shape(G), NEW s \in Seq(Bytes)
    PROVE  /\ \A n \in Nodes : Filled(n) /\ Key(G, n) = s => Found(s) = n
           /\ Found(s) # NoNode =>
                 Found(s) \in Nodes /\ Filled(Found(s)) /\ Key(G, Found(s)) = s
  <1>1. Size \in Nat
    BY NodeFacts
  <1>2. ASSUME NEW n \in Nodes, Filled(n), Key(G, n) = s
        PROVE  Found(s) = n
    <2>1. On(G, s, n, Len(s)) /\ s[Len(s)] = keyval[n]
      BY <1>2, SpelltIs
    <2>2. Len(s) \in 1 .. Len(s) /\ s # <<>>
      BY <1>2, <2>1, KeyIs DEF On, Shape
    <2>3. WalkFrom(s)[n][Len(s)] = n
      BY <1>2, <2>1, <2>2, WalkOn
    <2>4. WalkFrom(s)[1][1] = n
      BY <2>1, <2>3, WalkPasses
    <2>5. Size # 0
      BY <1>1 DEF Nodes
    <2> QED BY <2>2, <2>4, <2>5 DEF Found
  <1>3. ASSUME Found(s) # NoNode
        PROVE  Found(s) \in Nodes /\ Filled(Found(s)) /\ Key(G, Found(s)) = s
    <2>1. Size # 0 /\ s # <<>> /\ Found(s) = WalkFrom(s)[1][1]
      BY <1>3 DEF Found
    <2>2. On(G, s, 1, 1)
      <3>1. 1 \in Nodes /\ G[1] = [path |-> <<>>, above |-> 0, below |-> 256]
        BY <1>1, <2>1 DEF Shape, Nodes
      <3>2. 1 \in 1 .. Len(s)
        BY <2>1, EmptySeq, LenProperties
      <3>3. s[1] \in Bytes
        BY <3>2, ElementOfSeq
      <3>4. Prefix(<<>>, s, 1)
        BY EmptySeq DEF Prefix
      <3> QED BY <3>1, <3>2, <3>3, <3>4, Smaller DEF On
    <2> QED BY <1>3, <2>1, <2>2, WalkSound
  <1> QED BY <1>2, <1>3

-----------------------------------------------------------------------------
(* The tree as a dictionary. *)

LEMMA SeqsAre == \A s \in Seqs : s \in Seq(Bytes)
  BY SeqsAssumption DEF Bytes

LEMMA ContentIs ==
    ASSUME NEW G, Types, Shape(G), NEW s \in Seqs
    PROVE  /\ \A n \in Nodes : Filled(n) /\ Key(G, n) = s => Found(s) = n /\ Lookup(s) = FunOf(n)
           /\ Lookup(s) # NoFun =>
                 /\ Found(s) \in Nodes /\ Filled(Found(s))
                 /\ Key(G, Found(s)) = s /\ FunOf(Found(s)) = Lookup(s)
  <1>1. /\ \A n \in Nodes : Filled(n) /\ Key(G, n) = s => Found(s) = n
        /\ Found(s) # NoNode =>
                 Found(s) \in Nodes /\ Filled(Found(s)) /\ Key(G, Found(s)) = s
    BY SeqsAre, FoundIs
  <1>2. Lookup(s) = FunOf(Found(s))
    BY DEF Lookup
  <1>3. Found(s) = NoNode => Lookup(s) = NoFun
    BY <1>2 DEF FunOf
  <1> QED BY <1>1, <1>2, <1>3

ContentRight ==
    \A G : Types /\ Shape(G) => \A s \in Seqs :
        /\ \A n \in Nodes : Filled(n) /\ Key(G, n) = s => Found(s) = n /\ Lookup(s) = FunOf(n)
        /\ Lookup(s) # NoFun => \E n \in Nodes :
              Filled(n) /\ Key(G, n) = s /\ FunOf(n) = Lookup(s)

LEMMA ContentIsRight == ContentRight
  BY ContentIs DEF ContentRight

LEMMA ContentRightNext == ContentRight'
  BY ContentIsRight, PTL

(* A step that leaves the nodes with a function as they are. *)
SameContent(G, H) ==
    /\ \A n \in Nodes : Filled(n) =>
          n \in Nodes' /\ keyval'[n] = keyval[n] /\ H[n] = G[n] /\ FunOf(n)' = FunOf(n)
    /\ \A n \in Nodes' : Filled(n)' /\ FunOf(n)' # NoFun => n \in Nodes /\ Filled(n)

LEMMA LookupStays ==
    ASSUME NEW G, NEW H, Types, Shape(G), Types', Shape(H)', SameContent(G, H), NEW s \in Seqs
    PROVE  Lookup(s)' = Lookup(s)
  <1>1. /\ \A n \in Nodes : Filled(n) /\ Key(G, n) = s => Lookup(s) = FunOf(n)
        /\ Lookup(s) # NoFun => \E n \in Nodes :
              Filled(n) /\ Key(G, n) = s /\ FunOf(n) = Lookup(s)
    BY ContentIsRight DEF ContentRight
  <1>2. /\ \A n \in Nodes' : Filled(n)' /\ Key(H, n)' = s => Lookup(s)' = FunOf(n)'
        /\ Lookup(s)' # NoFun => \E n \in Nodes' :
              Filled(n)' /\ Key(H, n)' = s /\ FunOf(n)' = Lookup(s)'
    BY ContentRightNext DEF ContentRight
  <1>3. ASSUME NEW n \in Nodes, Filled(n)
        PROVE  /\ n \in Nodes' /\ Filled(n)'
               /\ Key(H, n)' = Key(G, n) /\ FunOf(n)' = FunOf(n)
    BY <1>3 DEF SameContent, Filled, Key
  <1>4. CASE Lookup(s) # NoFun
    <2>1. PICK n \in Nodes : Filled(n) /\ Key(G, n) = s /\ FunOf(n) = Lookup(s)
      BY <1>1, <1>4
    <2> QED BY <1>2, <1>3, <2>1
  <1>5. CASE Lookup(s)' # NoFun
    <2>1. PICK n \in Nodes' : Filled(n)' /\ Key(H, n)' = s /\ FunOf(n)' = Lookup(s)'
      BY <1>2, <1>5
    <2>2. n \in Nodes /\ Filled(n)
      BY <1>5, <2>1 DEF SameContent
    <2> QED BY <1>1, <1>3, <2>1, <2>2
  <1> QED BY <1>4, <1>5

(* The keys that go on are filled. *)
LEMMA LeadsFilled ==
    ASSUME NEW G, Types, Shape(G), NEW n \in Nodes, next[n] # NoNode
    PROVE  Filled(n) /\ kfun[n] = NoFun
  <1>1. keyval[n] # Timeout
    BY DEF Types, TypeOK
  <1>2. keyval[n] # 0 /\ kfun[n] = NoFun
    BY DEF Shape, NodeRight, Empty
  <1> QED BY <1>1, <1>2 DEF Filled

(* What a step of the walk has to show that changes no function. *)
LEMMA StepRight ==
    ASSUME NEW G, NEW H, Right(G), Types', Shape(H)', SameContent(G, H),
           seq' = seq, fun' = fun, reply' = reply,
           Walking, WalkAt(H)',
           \A n \in Nodes' : next'[n] # NoNode =>
               (n \in Nodes /\ next[n] # NoNode) \/ Begins(Append(H[n].path, keyval'[n]), seq)
    PROVE  Right(H)'
  <1>1. Types /\ Shape(G) /\ KeysAsked(G) /\ Leads(G) /\ Asked /\ InOrder(seq) /\ seq \in Seqs
    BY DEF Right, Asked
  <1>2. \A s \in Seqs : Lookup(s)' = Lookup(s)
    BY <1>1, LookupStays
  <1>3. Walking'
    BY DEF Walking, NoKey
  <1>4. ASSUME NEW n \in Nodes, Filled(n)
        PROVE  n \in Nodes' /\ Key(H, n)' = Key(G, n) /\ FunOf(n)' = FunOf(n)
    BY <1>4 DEF SameContent, Key
  <1>5. KeysAsked(H)'
    <2> SUFFICES ASSUME NEW n \in Nodes', Filled(n)', FunOf(n)' # NoFun PROVE Key(H, n)' \in Seqs
      BY DEF KeysAsked
    <2>1. n \in Nodes /\ Filled(n)
      BY DEF SameContent
    <2> QED BY <1>1, <1>4, <2>1 DEF KeysAsked
  <1>6. Leads(H)'
    <2> SUFFICES ASSUME NEW n \in Nodes', next'[n] # NoNode
                 PROVE  \/ \E t \in Seqs : Lookup(t)' # NoFun /\ Begins(Key(H, n)', t)
                        \/ Begins(Key(H, n)', seq)
      BY <1>3 DEF Leads, Begins
    <2>1. CASE n \in Nodes /\ next[n] # NoNode
      <3>1. Key(H, n)' = Key(G, n)
        BY <1>1, <1>4, <2>1, LeadsFilled
      <3>2. \/ \E t \in Seqs : Lookup(t) # NoFun /\ Begins(Key(G, n), t)
            \/ Begins(Key(G, n), seq)
        BY <1>1, <2>1 DEF Leads
      <3> QED BY <1>2, <3>1, <3>2
    <2>2. CASE Begins(Append(H[n].path, keyval'[n]), seq)
      BY <2>2 DEF Key
    <2> QED BY <2>1, <2>2
  <1>7. Asked'
    BY <1>1 DEF Asked
  <1>8. InOrder(seq)'
    <2>1. \A t \in Seqs : Lookup(t)' # NoFun /\ Begins(seq, t) => Lookup(seq)' # NoFun
      BY <1>1, <1>2 DEF InOrder
    <2> QED BY <2>1 DEF InOrder, Lookup, Begins
  <1> QED BY <1>5, <1>6, <1>7, <1>8 DEF Right

-----------------------------------------------------------------------------
(* Steps that change one node and may add others. *)

Kept(G, H, r) ==
    /\ H \in [Nodes' -> Place]
    /\ Size' \in Nat /\ Size <= Size'
    /\ \A n \in Nodes : H[n] = G[n]
    /\ \A n \in Nodes : n # r =>
          /\ keyval'[n] = keyval[n] /\ kfun'[n] = kfun[n] /\ next'[n] = next[n]
          /\ hi'[n] = hi[n] /\ lo'[n] = lo[n]
    /\ keyval'[r] = keyval[r] \/ (keyval[r] = 0 /\ keyval'[r] \in Bytes)

LEMMA OldNodes ==
    ASSUME Types, Size' \in Nat, Size <= Size'
    PROVE  \A n \in Nodes : n \in Nodes'
  <1>1. Size \in Nat
    BY NodeFacts
  <1> QED BY <1>1 DEF Nodes

LEMMA ByteIsKey == \A b \in Bytes : b # 0 /\ b # Timeout
  BY DEF Bytes, Timeout

LEMMA KeptTimeouts ==
    ASSUME NEW G, NEW H, NEW r \in Nodes, Kept(G, H, r)
    PROVE  \A n \in Nodes : keyval'[n] = Timeout <=> keyval[n] = Timeout
  <1>1. keyval'[r] = Timeout <=> keyval[r] = Timeout
    <2>1. CASE keyval'[r] = keyval[r]
      BY <2>1
    <2>2. CASE keyval[r] = 0 /\ keyval'[r] \in Bytes
      BY <2>2, ByteIsKey DEF Timeout
    <2> QED BY <2>1, <2>2 DEF Kept
  <1> QED BY <1>1 DEF Kept

LEMMA ShapeKept ==
    ASSUME NEW G, NEW H, NEW r \in Nodes, Types, Shape(G), Kept(G, H, r),
           \A n \in Nodes : Child(r, n) => Child(r, n)',
           NodeRight(H, r)',
           \A n \in Nodes' : n \notin Nodes => NodeRight(H, n)'
    PROVE  Shape(H)'
  <1>1. \A n \in Nodes : n \in Nodes'
    BY OldNodes DEF Kept
  <1>2. \A n \in Nodes : keyval'[n] = Timeout <=> keyval[n] = Timeout
    BY KeptTimeouts
  <1>3. 1 \in Nodes
    BY NodeFacts DEF Nodes
  <1>4. H[1] = [path |-> <<>>, above |-> 0, below |-> 256] /\ keyval'[1] # Timeout
    <2>1. Size >= 1
      BY NodeFacts DEF Nodes
    <2>2. G[1] = [path |-> <<>>, above |-> 0, below |-> 256] /\ keyval[1] # Timeout
      BY <2>1 DEF Shape
    <2> QED BY <1>2, <1>3, <2>2 DEF Kept
  <1>5. ASSUME NEW n \in Nodes, n # r PROVE NodeRight(H, n)'
    <2>1. NodeRight(G, n)
      BY DEF Shape
    <2>2. /\ keyval'[n] = keyval[n] /\ kfun'[n] = kfun[n] /\ next'[n] = next[n]
          /\ hi'[n] = hi[n] /\ lo'[n] = lo[n] /\ H[n] = G[n]
      BY <1>5 DEF Kept
    <2>3. Filled(n)' => H[n].above < keyval'[n] /\ keyval'[n] < H[n].below
      BY <2>1, <2>2 DEF NodeRight, Filled
    <2>4. Empty(n)' => hi'[n] = NoNode /\ lo'[n] = NoNode /\ next'[n] = NoNode /\ kfun'[n] = NoFun
      BY <2>1, <2>2 DEF NodeRight, Empty
    <2>5. ASSUME hi'[n] # NoNode
          PROVE  /\ keyval'[hi'[n]] # Timeout
                 /\ H[hi'[n]] = [path  |-> H[n].path,
                                above |-> IF keyval'[n] = Timeout THEN H[n].above ELSE keyval'[n],
                                below |-> H[n].below]
      <3>1. hi[n] \in Nodes
        BY <2>2, <2>5, ChildIsNode
      <3>2. H[hi[n]] = G[hi[n]] /\ (keyval'[hi[n]] = Timeout <=> keyval[hi[n]] = Timeout)
        BY <1>2, <3>1 DEF Kept
      <3>3. /\ keyval[hi[n]] # Timeout
            /\ G[hi[n]] = [path  |-> G[n].path,
                           above |-> IF keyval[n] = Timeout THEN G[n].above ELSE keyval[n],
                           below |-> G[n].below]
        BY <2>1, <2>2, <2>5 DEF NodeRight
      <3> QED BY <2>2, <3>2, <3>3
    <2>6. ASSUME lo'[n] # NoNode, keyval'[n] # Timeout
          PROVE  H[lo'[n]] = [path |-> H[n].path, above |-> H[n].above, below |-> keyval'[n]]
      <3>1. lo[n] \in Nodes
        BY <2>2, <2>6, ChildIsNode
      <3>2. H[lo[n]] = G[lo[n]]
        BY <3>1 DEF Kept
      <3>3. G[lo[n]] = [path |-> G[n].path, above |-> G[n].above, below |-> keyval[n]]
        BY <2>1, <2>2, <2>6 DEF NodeRight
      <3> QED BY <2>2, <3>2, <3>3
    <2>7. ASSUME next'[n] # NoNode
          PROVE  /\ H[next'[n]] = [path |-> Key(H, n)', above |-> 0, below |-> 256]
                 /\ kfun'[n] = NoFun
      <3>1. next[n] \in Nodes
        BY <2>2, <2>7, ChildIsNode
      <3>2. H[next[n]] = G[next[n]]
        BY <3>1 DEF Kept
      <3>3. /\ G[next[n]] = [path |-> Key(G, n), above |-> 0, below |-> 256]
            /\ kfun[n] = NoFun
        BY <2>1, <2>2, <2>7 DEF NodeRight
      <3>4. Key(H, n)' = Key(G, n)
        BY <2>2 DEF Key
      <3> QED BY <2>2, <3>2, <3>3, <3>4
    <2>8. ASSUME n # 1 PROVE \E m \in Nodes' : m < n /\ Child(m, n)'
      <3>1. PICK m \in Nodes : m < n /\ Child(m, n)
        BY <2>1, <2>8 DEF NodeRight
      <3>2. CASE m = r
        BY <1>1, <3>1, <3>2
      <3>3. CASE m # r
        <4>1. Child(m, n)'
          BY <3>1, <3>3 DEF Kept, Child
        <4> QED BY <1>1, <3>1, <4>1
      <3> QED BY <3>2, <3>3
    <2> QED BY <2>3, <2>4, <2>5, <2>6, <2>7, <2>8 DEF NodeRight
  <1>6. \A n \in Nodes' : NodeRight(H, n)'
    BY <1>5
  <1> QED BY <1>4, <1>6 DEF Shape, Kept

(* What TypeOK says of a node. *)
NodeOK(n) ==
    /\ next[n] \in {NoNode} \cup n + 1 .. Size
    /\ hi[n] \in {NoNode} \cup n + 1 .. Size
    /\ kfun[n] \in Funs \cup {NoFun}
    /\ IF keyval[n] = Timeout THEN kfun[n] # NoFun /\ lo[n] = 1 /\ next[n] = NoNode
       ELSE /\ keyval[n] \in 0 .. 255
            /\ lo[n] \in {NoNode} \cup n + 1 .. Size
            /\ \A c \in {hi[n], lo[n]} \ {NoNode} : keyval[c] # Timeout

Stored ==
    /\ keyval \in Seq(Vals) /\ kfun \in Seq(Nat)
    /\ next \in Seq(Nat) /\ hi \in Seq(Nat) /\ lo \in Seq(Nat)
    /\ Len(kfun) = Size /\ Len(next) = Size /\ Len(hi) = Size /\ Len(lo) = Size

LEMMA TypesKept ==
    ASSUME NEW G, NEW H, NEW r \in Nodes, Types, Kept(G, H, r), Stored',
           reply' \in {"none", "yes", "no", "fatal"},
           NodeOK(r)', \A n \in Nodes' : n \notin Nodes => NodeOK(n)'
    PROVE  Types'
  <1>1. ASSUME NEW n \in Nodes, n # r PROVE NodeOK(n)'
    <2>1. /\ keyval'[n] = keyval[n] /\ kfun'[n] = kfun[n] /\ next'[n] = next[n]
          /\ hi'[n] = hi[n] /\ lo'[n] = lo[n]
      BY <1>1 DEF Kept
    <2>2. NodeOK(n)
      BY DEF Types, TypeOK, NodeOK
    <2>3. \A x : x \in {NoNode} \cup (n + 1 .. Size) => x \in {NoNode} \cup (n + 1 .. Size')
      <3>1. Size \in Nat /\ Size' \in Nat /\ Size <= Size' /\ n \in Nat
        BY NodeFacts DEF Kept
      <3> QED BY <3>1
    <2>4. next'[n] \in {NoNode} \cup (n + 1 .. Size') /\ hi'[n] \in {NoNode} \cup (n + 1 .. Size')
          /\ kfun'[n] \in Funs \cup {NoFun}
      BY <2>1, <2>2, <2>3 DEF NodeOK
    <2>5. CASE keyval[n] = Timeout
      BY <2>1, <2>2, <2>4, <2>5 DEF NodeOK
    <2>6. CASE keyval[n] # Timeout
      <3>1. keyval'[n] # Timeout /\ keyval'[n] \in 0 .. 255
            /\ lo'[n] \in {NoNode} \cup (n + 1 .. Size')
        BY <2>1, <2>2, <2>3, <2>6 DEF NodeOK
      <3>2. ASSUME NEW c \in {hi'[n], lo'[n]} \ {NoNode} PROVE keyval'[c] # Timeout
        <4>1. c \in Nodes
          BY <2>1, <2>6, <3>2, ChildIsNode
        <4>2. keyval[c] # Timeout
          BY <2>1, <2>2, <2>6, <3>2 DEF NodeOK
        <4> QED BY <4>1, <4>2, KeptTimeouts
      <3> QED BY <2>4, <3>1, <3>2 DEF NodeOK
    <2> QED BY <2>5, <2>6
  <1>2. \A n \in Nodes' : NodeOK(n)'
    BY <1>1
  <1>3. \A n \in Nodes' :
          /\ next'[n] \in {NoNode} \cup n + 1 .. Size'
          /\ hi'[n] \in {NoNode} \cup n + 1 .. Size'
          /\ kfun'[n] \in Funs \cup {NoFun}
          /\ IF keyval'[n] = Timeout THEN kfun'[n] # NoFun /\ lo'[n] = 1 /\ next'[n] = NoNode
             ELSE /\ keyval'[n] \in 0 .. 255
                  /\ lo'[n] \in {NoNode} \cup n + 1 .. Size'
                  /\ \A c \in {hi'[n], lo'[n]} \ {NoNode} : keyval'[c] # Timeout
    BY <1>2 DEF NodeOK
  <1>4. \A f \in {kfun', next', hi', lo'} : Len(f) = Size'
    BY DEF Stored
  <1>5. TypeOK'
    BY <1>3, <1>4 DEF TypeOK
  <1> QED BY <1>5 DEF Types, Stored

-----------------------------------------------------------------------------
(* Steps that add one node. *)

LEMMA Appended ==
    ASSUME NEW S, NEW f \in Seq(S), NEW x \in S
    PROVE  /\ Append(f, x) \in Seq(S) /\ Len(Append(f, x)) = Len(f) + 1
           /\ \A i \in 1 .. Len(f) : Append(f, x)[i] = f[i]
           /\ Append(f, x)[Len(f) + 1] = x
  BY AppendProperties

LEMMA ChangedAt ==
    ASSUME NEW S, NEW f \in Seq(S), NEW r \in 1 .. Len(f), NEW v \in S
    PROVE  /\ [f EXCEPT ![r] = v] \in Seq(S) /\ Len([f EXCEPT ![r] = v]) = Len(f)
           /\ [f EXCEPT ![r] = v][r] = v
           /\ \A i \in 1 .. Len(f) : i # r => [f EXCEPT ![r] = v][i] = f[i]
  BY ExceptSeq

LEMMA AppendedAt ==
    ASSUME NEW S, NEW f \in Seq(S), NEW r \in 1 .. Len(f), NEW v \in S, NEW x \in S, NEW g,
           g = Append([f EXCEPT ![r] = v], x)
    PROVE  /\ g \in Seq(S) /\ Len(g) = Len(f) + 1
           /\ g[r] = v /\ g[Len(f) + 1] = x
           /\ \A i \in 1 .. Len(f) : i # r => g[i] = f[i]
  <1> DEFINE h == [f EXCEPT ![r] = v]
  <1>1. /\ h \in Seq(S) /\ Len(h) = Len(f)
        /\ h[r] = v /\ \A i \in 1 .. Len(f) : i # r => h[i] = f[i]
    BY ChangedAt
  <1>2. g = Append(h, x)
    OBVIOUS
  <1> HIDE DEF h
  <1>3. /\ g \in Seq(S) /\ Len(g) = Len(f) + 1 /\ g[Len(f) + 1] = x
        /\ \A i \in 1 .. Len(f) : g[i] = h[i]
    BY <1>1, <1>2, Appended
  <1> QED BY <1>1, <1>3

Added(r) ==
    /\ Size' = Size + 1 /\ Stored'
    /\ \A n \in Nodes : n # r =>
          /\ keyval'[n] = keyval[n] /\ kfun'[n] = kfun[n] /\ next'[n] = next[n]
          /\ hi'[n] = hi[n] /\ lo'[n] = lo[n]

EmptyNode(n) ==
    /\ keyval[n] = 0 /\ kfun[n] = NoFun
    /\ next[n] = NoNode /\ hi[n] = NoNode /\ lo[n] = NoNode

LEMMA NatAdd ==
    ASSUME NEW f, NEW g, NEW m, NEW k, NEW x \in Nat,
           f \in Seq(Nat), Len(f) = m, k = m + 1, g = Append(f, x)
    PROVE  /\ g \in Seq(Nat) /\ Len(g) = k /\ g[k] = x
           /\ \A i \in 1 .. m : g[i] = f[i]
  BY Appended

LEMMA NatAddAt ==
    ASSUME NEW f, NEW g, NEW m, NEW k, NEW x \in Nat, NEW r \in 1 .. m, NEW v \in Nat,
           f \in Seq(Nat), Len(f) = m, k = m + 1, g = Append([f EXCEPT ![r] = v], x)
    PROVE  /\ g \in Seq(Nat) /\ Len(g) = k /\ g[k] = x /\ g[r] = v
           /\ \A i \in 1 .. m : i # r => g[i] = f[i]
  BY AppendedAt, SMTT(30)

LEMMA ValAdd ==
    ASSUME NEW f, NEW g, NEW m, NEW k, NEW x \in Vals,
           f \in Seq(Vals), Len(f) = m, k = m + 1, g = Append(f, x)
    PROVE  /\ g \in Seq(Vals) /\ Len(g) = k /\ g[k] = x
           /\ \A i \in 1 .. m : g[i] = f[i]
  BY Appended

LEMMA ValAddAt ==
    ASSUME NEW f, NEW g, NEW m, NEW k, NEW x \in Vals, NEW r \in 1 .. m, NEW v \in Vals,
           f \in Seq(Vals), Len(f) = m, k = m + 1, g = Append([f EXCEPT ![r] = v], x)
    PROVE  /\ g \in Seq(Vals) /\ Len(g) = k /\ g[k] = x /\ g[r] = v
           /\ \A i \in 1 .. m : i # r => g[i] = f[i]
  BY AppendedAt

LEMMA StoredAre ==
    ASSUME Types
    PROVE  /\ keyval \in Seq(Vals) /\ kfun \in Seq(Nat)
           /\ next \in Seq(Nat) /\ hi \in Seq(Nat) /\ lo \in Seq(Nat)
           /\ Len(keyval) = Size /\ Len(kfun) = Size /\ Len(next) = Size
           /\ Len(hi) = Size /\ Len(lo) = Size
           /\ Nodes = 1 .. Size /\ Size + 1 \in Nat /\ Size \in Nat
  BY NodeFacts DEF Types, Nodes, Size

LEMMA TimeoutGrowAdds ==
    ASSUME Types, NEW r \in Nodes, r = root, NEW k, k = Size + 1, TimeoutGrow
    PROVE  /\ Added(r) /\ EmptyNode(k)'
           /\ keyval'[r] = keyval[r] /\ kfun'[r] = kfun[r]
           /\ next'[r] = next[r] /\ lo'[r] = lo[r] /\ hi'[r] = k
  <1>1. /\ keyval' = Append(keyval, 0) /\ kfun' = Append(kfun, NoFun)
        /\ next' = Append(next, NoNode) /\ lo' = Append(lo, NoNode)
        /\ hi' = Append([hi EXCEPT ![r] = k], NoNode)
    BY DEF TimeoutGrow, Grown, NewNode
  <1>2. NoNode \in Nat /\ NoFun \in Nat /\ 0 \in Vals
    BY DEF NoNode, NoFun, Vals
  <1>3. k \in Nat /\ r \in 1 .. Size
    BY StoredAre
  <1>4. /\ keyval' \in Seq(Vals) /\ Len(keyval') = k
        /\ \A i \in 1 .. Size : keyval'[i] = keyval[i]
        /\ keyval'[k] = 0
    <2>1. keyval \in Seq(Vals) /\ Len(keyval) = Size
      BY StoredAre
    <2>9. keyval' = Append(keyval, 0)
      BY <1>1
    <2> QED BY <1>2, <1>3, <2>1, <2>9, ValAdd
  <1>5. /\ kfun' \in Seq(Nat) /\ Len(kfun') = k
        /\ \A i \in 1 .. Size : kfun'[i] = kfun[i]
        /\ kfun'[k] = NoFun
    <2>1. kfun \in Seq(Nat) /\ Len(kfun) = Size
      BY StoredAre
    <2>9. kfun' = Append(kfun, NoFun)
      BY <1>1
    <2> QED BY <1>2, <1>3, <2>1, <2>9, NatAdd
  <1>6. /\ next' \in Seq(Nat) /\ Len(next') = k
        /\ \A i \in 1 .. Size : next'[i] = next[i]
        /\ next'[k] = NoNode
    <2>1. next \in Seq(Nat) /\ Len(next) = Size
      BY StoredAre
    <2>9. next' = Append(next, NoNode)
      BY <1>1
    <2> QED BY <1>2, <1>3, <2>1, <2>9, NatAdd
  <1>7. /\ lo' \in Seq(Nat) /\ Len(lo') = k
        /\ \A i \in 1 .. Size : lo'[i] = lo[i]
        /\ lo'[k] = NoNode
    <2>1. lo \in Seq(Nat) /\ Len(lo) = Size
      BY StoredAre
    <2>9. lo' = Append(lo, NoNode)
      BY <1>1
    <2> QED BY <1>2, <1>3, <2>1, <2>9, NatAdd
  <1>8. /\ hi' \in Seq(Nat) /\ Len(hi') = k
        /\ hi'[r] = k /\ hi'[k] = NoNode
        /\ \A i \in 1 .. Size : i # r => hi'[i] = hi[i]
    <2>1. hi \in Seq(Nat) /\ Len(hi) = Size
      BY StoredAre
    <2>9. hi' = Append([hi EXCEPT ![r] = k], NoNode)
      BY <1>1
    <2> QED BY <1>2, <1>3, <2>1, <2>9, NatAddAt
  <1>9. Size' = k
    BY <1>4 DEF Size
  <1>10. Nodes = 1 .. Size
    BY StoredAre
  <1>11. Added(r)
    BY <1>4, <1>5, <1>6, <1>7, <1>8, <1>9, <1>10 DEF Added, Stored
  <1>12. EmptyNode(k)'
    BY <1>4, <1>5, <1>6, <1>7, <1>8 DEF EmptyNode
  <1> QED BY <1>3, <1>4, <1>5, <1>6, <1>7, <1>8, <1>11, <1>12

LEMMA SearchGrowAdds ==
    ASSUME Types, NEW r \in Nodes, r = root, NEW k, k = Size + 1, SearchGrow
    PROVE  /\ Added(r) /\ EmptyNode(k)'
           /\ keyval'[r] = keyval[r] /\ kfun'[r] = kfun[r] /\ next'[r] = next[r]
           /\ hi'[r] = IF Above THEN k ELSE hi[r]
           /\ lo'[r] = IF Above THEN lo[r] ELSE k
  <1>1. /\ keyval' = Append(keyval, 0) /\ kfun' = Append(kfun, NoFun)
        /\ next' = Append(next, NoNode)
        /\ hi' = Append(IF Above THEN [hi EXCEPT ![r] = k] ELSE hi, NoNode)
        /\ lo' = Append(IF Above THEN lo ELSE [lo EXCEPT ![r] = k], NoNode)
    BY DEF SearchGrow, Grown, NewNode
  <1>2. NoNode \in Nat /\ NoFun \in Nat /\ 0 \in Vals
    BY DEF NoNode, NoFun, Vals
  <1>3. k \in Nat /\ r \in 1 .. Size
    BY StoredAre
  <1>4. /\ keyval' \in Seq(Vals) /\ Len(keyval') = k
        /\ \A i \in 1 .. Size : keyval'[i] = keyval[i]
        /\ keyval'[k] = 0
    <2>1. keyval \in Seq(Vals) /\ Len(keyval) = Size
      BY StoredAre
    <2>9. keyval' = Append(keyval, 0)
      BY <1>1
    <2> QED BY <1>2, <1>3, <2>1, <2>9, ValAdd
  <1>5. /\ kfun' \in Seq(Nat) /\ Len(kfun') = k
        /\ \A i \in 1 .. Size : kfun'[i] = kfun[i]
        /\ kfun'[k] = NoFun
    <2>1. kfun \in Seq(Nat) /\ Len(kfun) = Size
      BY StoredAre
    <2>9. kfun' = Append(kfun, NoFun)
      BY <1>1
    <2> QED BY <1>2, <1>3, <2>1, <2>9, NatAdd
  <1>6. /\ next' \in Seq(Nat) /\ Len(next') = k
        /\ \A i \in 1 .. Size : next'[i] = next[i]
        /\ next'[k] = NoNode
    <2>1. next \in Seq(Nat) /\ Len(next) = Size
      BY StoredAre
    <2>9. next' = Append(next, NoNode)
      BY <1>1
    <2> QED BY <1>2, <1>3, <2>1, <2>9, NatAdd
  <1>7. /\ lo' \in Seq(Nat) /\ Len(lo') = k
        /\ lo'[r] = (IF Above THEN lo[r] ELSE k) /\ lo'[k] = NoNode
        /\ \A i \in 1 .. Size : i # r => lo'[i] = lo[i]
    <2>1. CASE Above
      <3>1. lo' = Append(lo, NoNode)
        BY <1>1, <2>1
      <3>2. lo \in Seq(Nat) /\ Len(lo) = Size
        BY StoredAre
      <3> QED BY <1>2, <1>3, <2>1, <3>1, <3>2, NatAdd
    <2>2. CASE ~Above
      <3>1. lo' = Append([lo EXCEPT ![r] = k], NoNode)
        BY <1>1, <2>2
      <3>2. lo \in Seq(Nat) /\ Len(lo) = Size
        BY StoredAre
      <3> QED BY <1>2, <1>3, <2>2, <3>1, <3>2, NatAddAt
    <2> QED BY <2>1, <2>2
  <1>8. /\ hi' \in Seq(Nat) /\ Len(hi') = k
        /\ hi'[r] = (IF Above THEN k ELSE hi[r]) /\ hi'[k] = NoNode
        /\ \A i \in 1 .. Size : i # r => hi'[i] = hi[i]
    <2>1. CASE Above
      <3>1. hi' = Append([hi EXCEPT ![r] = k], NoNode)
        BY <1>1, <2>1
      <3>2. hi \in Seq(Nat) /\ Len(hi) = Size
        BY StoredAre
      <3> QED BY <1>2, <1>3, <2>1, <3>1, <3>2, NatAddAt
    <2>2. CASE ~Above
      <3>1. hi' = Append(hi, NoNode)
        BY <1>1, <2>2
      <3>2. hi \in Seq(Nat) /\ Len(hi) = Size
        BY StoredAre
      <3> QED BY <1>2, <1>3, <2>2, <3>1, <3>2, NatAdd
    <2> QED BY <2>1, <2>2
  <1>9. Size' = k
    BY <1>4 DEF Size
  <1>10. Nodes = 1 .. Size
    BY StoredAre
  <1>11. Added(r)
    BY <1>4, <1>5, <1>6, <1>7, <1>8, <1>9, <1>10 DEF Added, Stored
  <1>12. EmptyNode(k)'
    BY <1>4, <1>5, <1>6, <1>7, <1>8 DEF EmptyNode
  <1> QED BY <1>3, <1>4, <1>5, <1>6, <1>7, <1>8, <1>11, <1>12

LEMMA MatchGrowAdds ==
    ASSUME Types, NEW r \in Nodes, r = root, NEW k, k = Size + 1, MatchGrow, NodeByte \in Bytes
    PROVE  /\ Added(r) /\ EmptyNode(k)'
           /\ keyval'[r] = NodeByte /\ kfun'[r] = kfun[r] /\ next'[r] = k
           /\ hi'[r] = hi[r] /\ lo'[r] = lo[r]
  <1>1. /\ keyval' = Append([keyval EXCEPT ![r] = NodeByte], 0)
        /\ kfun' = Append(kfun, NoFun)
        /\ next' = Append([next EXCEPT ![r] = k], NoNode)
        /\ hi' = Append(hi, NoNode) /\ lo' = Append(lo, NoNode)
    BY DEF MatchGrow, Grown, NewNode, FilledKeys
  <1>2. NoNode \in Nat /\ NoFun \in Nat /\ 0 \in Vals /\ NodeByte \in Vals
    BY DEF NoNode, NoFun, Bytes, Vals
  <1>3. k \in Nat /\ r \in 1 .. Size
    BY StoredAre
  <1>4. /\ keyval' \in Seq(Vals) /\ Len(keyval') = k
        /\ keyval'[r] = NodeByte /\ keyval'[k] = 0
        /\ \A i \in 1 .. Size : i # r => keyval'[i] = keyval[i]
    <2>1. keyval \in Seq(Vals) /\ Len(keyval) = Size
      BY StoredAre
    <2>9. keyval' = Append([keyval EXCEPT ![r] = NodeByte], 0)
      BY <1>1
    <2> QED BY <1>2, <1>3, <2>1, <2>9, ValAddAt
  <1>5. /\ kfun' \in Seq(Nat) /\ Len(kfun') = k
        /\ \A i \in 1 .. Size : kfun'[i] = kfun[i]
        /\ kfun'[k] = NoFun
    <2>1. kfun \in Seq(Nat) /\ Len(kfun) = Size
      BY StoredAre
    <2>9. kfun' = Append(kfun, NoFun)
      BY <1>1
    <2> QED BY <1>2, <1>3, <2>1, <2>9, NatAdd
  <1>6. /\ next' \in Seq(Nat) /\ Len(next') = k
        /\ next'[r] = k /\ next'[k] = NoNode
        /\ \A i \in 1 .. Size : i # r => next'[i] = next[i]
    <2>1. next \in Seq(Nat) /\ Len(next) = Size
      BY StoredAre
    <2>9. next' = Append([next EXCEPT ![r] = k], NoNode)
      BY <1>1
    <2> QED BY <1>2, <1>3, <2>1, <2>9, NatAddAt
  <1>7. /\ lo' \in Seq(Nat) /\ Len(lo') = k
        /\ \A i \in 1 .. Size : lo'[i] = lo[i]
        /\ lo'[k] = NoNode
    <2>1. lo \in Seq(Nat) /\ Len(lo) = Size
      BY StoredAre
    <2>9. lo' = Append(lo, NoNode)
      BY <1>1
    <2> QED BY <1>2, <1>3, <2>1, <2>9, NatAdd
  <1>8. /\ hi' \in Seq(Nat) /\ Len(hi') = k
        /\ \A i \in 1 .. Size : hi'[i] = hi[i]
        /\ hi'[k] = NoNode
    <2>1. hi \in Seq(Nat) /\ Len(hi) = Size
      BY StoredAre
    <2>9. hi' = Append(hi, NoNode)
      BY <1>1
    <2> QED BY <1>2, <1>3, <2>1, <2>9, NatAdd
  <1>9. Size' = k
    BY <1>4 DEF Size
  <1>10. Nodes = 1 .. Size
    BY StoredAre
  <1>11. Added(r)
    BY <1>4, <1>5, <1>6, <1>7, <1>8, <1>9, <1>10 DEF Added, Stored
  <1>12. EmptyNode(k)'
    BY <1>4, <1>5, <1>6, <1>7, <1>8 DEF EmptyNode
  <1> QED BY <1>3, <1>4, <1>5, <1>6, <1>7, <1>8, <1>11, <1>12

LEMMA MatchSplitAdds ==
    ASSUME Types, NEW r \in Nodes, r = root, NEW k, k = Size + 1, MatchSplit, NodeByte \in Bytes
    PROVE  /\ Added(r)
           /\ keyval'[k] = Timeout /\ kfun'[k] = kfun[r]
           /\ next'[k] = NoNode /\ hi'[k] = NoNode /\ lo'[k] = 1
           /\ keyval'[r] = NodeByte /\ kfun'[r] = NoFun /\ next'[r] = k
           /\ hi'[r] = hi[r] /\ lo'[r] = lo[r]
  <1>1. /\ keyval' = Append([keyval EXCEPT ![r] = NodeByte], Timeout)
        /\ kfun' = Append([kfun EXCEPT ![r] = NoFun], kfun[r])
        /\ next' = Append([next EXCEPT ![r] = k], NoNode)
        /\ hi' = Append(hi, NoNode) /\ lo' = Append(lo, 1)
    BY DEF MatchSplit, Grown, NewNode, FilledKeys, SplitFun
  <1>2. /\ NoNode \in Nat /\ NoFun \in Nat /\ 1 \in Nat
        /\ Timeout \in Vals /\ NodeByte \in Vals
    BY DEF NoNode, NoFun, Bytes, Timeout, Vals
  <1>3. k \in Nat /\ r \in 1 .. Size
    BY StoredAre
  <1>4. /\ keyval' \in Seq(Vals) /\ Len(keyval') = k
        /\ keyval'[r] = NodeByte /\ keyval'[k] = Timeout
        /\ \A i \in 1 .. Size : i # r => keyval'[i] = keyval[i]
    <2>1. keyval \in Seq(Vals) /\ Len(keyval) = Size
      BY StoredAre
    <2>9. keyval' = Append([keyval EXCEPT ![r] = NodeByte], Timeout)
      BY <1>1
    <2> QED BY <1>2, <1>3, <2>1, <2>9, ValAddAt
  <1>5. /\ kfun' \in Seq(Nat) /\ Len(kfun') = k
        /\ kfun'[r] = NoFun /\ kfun'[k] = kfun[r]
        /\ \A i \in 1 .. Size : i # r => kfun'[i] = kfun[i]
    <2>1. kfun[r] \in Nat
      BY <1>3, StoredAre, ElementOfSeq
    <2>8. kfun \in Seq(Nat) /\ Len(kfun) = Size
      BY StoredAre
    <2>9. kfun' = Append([kfun EXCEPT ![r] = NoFun], kfun[r])
      BY <1>1
    <2> QED BY <1>2, <1>3, <2>1, <2>8, <2>9, NatAddAt
  <1>6. /\ next' \in Seq(Nat) /\ Len(next') = k
        /\ next'[r] = k /\ next'[k] = NoNode
        /\ \A i \in 1 .. Size : i # r => next'[i] = next[i]
    <2>1. next \in Seq(Nat) /\ Len(next) = Size
      BY StoredAre
    <2>9. next' = Append([next EXCEPT ![r] = k], NoNode)
      BY <1>1
    <2> QED BY <1>2, <1>3, <2>1, <2>9, NatAddAt
  <1>7. /\ lo' \in Seq(Nat) /\ Len(lo') = k
        /\ \A i \in 1 .. Size : lo'[i] = lo[i]
        /\ lo'[k] = 1
    <2>1. lo \in Seq(Nat) /\ Len(lo) = Size
      BY StoredAre
    <2>9. lo' = Append(lo, 1)
      BY <1>1
    <2> QED BY <1>2, <1>3, <2>1, <2>9, NatAdd
  <1>8. /\ hi' \in Seq(Nat) /\ Len(hi') = k
        /\ \A i \in 1 .. Size : hi'[i] = hi[i]
        /\ hi'[k] = NoNode
    <2>1. hi \in Seq(Nat) /\ Len(hi) = Size
      BY StoredAre
    <2>9. hi' = Append(hi, NoNode)
      BY <1>1
    <2> QED BY <1>2, <1>3, <2>1, <2>9, NatAdd
  <1>9. Size' = k
    BY <1>4 DEF Size
  <1>10. Nodes = 1 .. Size
    BY StoredAre
  <1>11. Added(r)
    BY <1>4, <1>5, <1>6, <1>7, <1>8, <1>9, <1>10 DEF Added, Stored
  <1> QED BY <1>3, <1>4, <1>5, <1>6, <1>7, <1>8, <1>11

-----------------------------------------------------------------------------
(* Where the walk is. *)

LEMMA AtByte ==
    ASSUME NEW G, Right(G), Walking
    PROVE  /\ pos \in Nat /\ pos >= 1 /\ Len(seq) \in Nat /\ seq \in Seq(Bytes) /\ seq # <<>>
           /\ Byte # Nul => pos <= Len(seq) /\ Byte = seq[pos] /\ Byte \in Bytes
           /\ Byte = Nul => pos = Len(seq) + 1
           /\ Following # Nul =>
                 pos + 1 <= Len(seq) /\ Following = seq[pos + 1] /\ Following \in Bytes
           /\ Following = Nul => ~(pos + 1 <= Len(seq))
           /\ AtNode => Byte # Nul
  <1>1. seq \in Seq(Bytes) /\ seq # <<>>
    BY SeqsAre DEF Right, Asked, Walking, NoKey
  <1>2. Len(seq) \in Nat /\ \A i \in 1 .. Len(seq) : seq[i] \in Bytes
    BY <1>1, LenProperties, ElementOfSeq
  <1>3. pos \in 1 .. Len(seq) + 1 /\ (pos = Len(seq) + 1 => keyval[root] = Timeout)
    BY DEF Right, WalkAt
  <1>4. pos \in Nat /\ pos >= 1 /\ pos <= Len(seq) + 1
    BY <1>2, <1>3
  <1>5. \A b \in Bytes : b # Nul
    BY DEF Bytes, Nul
  <1>6. ASSUME pos <= Len(seq) PROVE Byte = seq[pos] /\ Byte \in Bytes
    <2>1. pos \in 1 .. Len(seq)
      BY <1>2, <1>4, <1>6
    <2> QED BY <1>2, <1>6, <2>1 DEF Byte, ByteAt
  <1>7. ASSUME ~(pos <= Len(seq)) PROVE Byte = Nul /\ pos = Len(seq) + 1
    BY <1>2, <1>4, <1>7 DEF Byte, ByteAt
  <1>8. ASSUME pos + 1 <= Len(seq) PROVE Following = seq[pos + 1] /\ Following \in Bytes
    <2>1. pos + 1 \in 1 .. Len(seq)
      BY <1>2, <1>4, <1>8
    <2> QED BY <1>2, <1>8, <2>1 DEF Following, ByteAt
  <1>9. ASSUME ~(pos + 1 <= Len(seq)) PROVE Following = Nul
    BY <1>9 DEF Following, ByteAt
  <1>10. AtNode => pos <= Len(seq)
    BY <1>3, <1>7 DEF AtNode
  <1>11. Byte # Nul <=> pos <= Len(seq)
    BY <1>5, <1>6, <1>7
  <1>12. Following # Nul <=> pos + 1 <= Len(seq)
    BY <1>5, <1>8, <1>9
  <1> QED BY <1>1, <1>2, <1>4, <1>6, <1>7, <1>8, <1>10, <1>11, <1>12

LEMMA AtNodeByte ==
    ASSUME NEW G, Right(G), AtNode
    PROVE  /\ root \in Nodes /\ NodeByte \in Bytes /\ Byte \in Bytes
           /\ keyval[root] # Timeout
           /\ keyval[root] # 0 => NodeByte = keyval[root] /\ Filled(root)
           /\ keyval[root] = 0 => NodeByte = Byte
           /\ G[root].above < Byte /\ Byte < G[root].below
  <1>1. Walking /\ keyval[root] # Timeout
    BY DEF AtNode
  <1>2. Byte # Nul /\ pos <= Len(seq) /\ Byte = seq[pos] /\ Byte \in Bytes
    BY <1>1, AtByte
  <1>3. root \in Nodes /\ G[root].above < seq[pos] /\ seq[pos] < G[root].below
    BY <1>1, <1>2 DEF Right, WalkAt
  <1>4. keyval[root] \in 0 .. 256
    BY <1>3, NodeFacts DEF Right
  <1>5. keyval[root] # 0 => keyval[root] \in Bytes
    BY <1>1, <1>4 DEF Timeout, Bytes
  <1> QED BY <1>1, <1>2, <1>3, <1>5 DEF NodeByte, Empty, Filled

-----------------------------------------------------------------------------
(* The added node. *)

With(G, k, p) == [n \in 1 .. k |-> IF n = k THEN p ELSE G[n]]

LEMMA AddedKept ==
    ASSUME NEW G, Types, Shape(G), NEW r \in Nodes, NEW k, k = Size + 1, NEW p \in Place,
           NEW H, H = With(G, k, p), Added(r),
           keyval'[r] = keyval[r] \/ (keyval[r] = 0 /\ keyval'[r] \in Bytes)
    PROVE  /\ Kept(G, H, r) /\ Stored' /\ k \in Nat
           /\ k \in Nodes' /\ k \notin Nodes /\ H[k] = p /\ Size' = k
           /\ \A n \in Nodes' : n \notin Nodes => n = k
           /\ \A n \in Nodes : n \in Nodes' /\ n < k /\ n # k /\ k \in n + 1 .. Size'
  <1>1. Size \in Nat /\ k \in Nat /\ Nodes = 1 .. Size /\ Size' = k
    BY NodeFacts DEF Nodes, Added
  <1>2. Nodes' = 1 .. k
    BY <1>1 DEF Nodes
  <1>3. k \in Nodes' /\ k \notin Nodes /\ \A n \in Nodes' : n \notin Nodes => n = k
    BY <1>1, <1>2
  <1>4. \A n \in Nodes : n \in Nodes' /\ n < k /\ n # k /\ k \in n + 1 .. k
    BY <1>1, <1>2
  <1>5. \A n \in Nodes' : H[n] = IF n = k THEN p ELSE G[n]
    BY <1>2 DEF With
  <1>6. H \in [Nodes' -> Place]
    <2>1. \A n \in Nodes' : (IF n = k THEN p ELSE G[n]) \in Place
      BY <1>3 DEF Shape
    <2> QED BY <1>2, <2>1 DEF With
  <1>7. \A n \in Nodes : H[n] = G[n]
    BY <1>4, <1>5
  <1>8. Size' \in Nat /\ Size <= Size'
    BY <1>1
  <1>9. Kept(G, H, r)
    BY <1>6, <1>7, <1>8 DEF Kept, Added
  <1> QED BY <1>1, <1>3, <1>4, <1>5, <1>9 DEF Added

LEMMA EmptyIsRight ==
    ASSUME NEW H, NEW r \in Nodes', NEW k, EmptyNode(k)', r < k, Child(r, k)'
    PROVE  NodeOK(k)' /\ NodeRight(H, k)'
  <1>1. NodeOK(k)'
    BY DEF EmptyNode, NodeOK, Timeout
  <1>2. \E m \in Nodes' : m < k /\ Child(m, k)'
    OBVIOUS
  <1> QED BY <1>1, <1>2 DEF EmptyNode, NodeRight, Filled

(* The functions of the nodes but r. *)
LEMMA FunKept ==
    ASSUME NEW G, NEW H, NEW r \in Nodes, Types, Kept(G, H, r), keyval[r] = Timeout => kfun'[r] = kfun[r],
           NEW n \in Nodes, n # r \/ (kfun'[r] = kfun[r] /\ next'[r] = next[r])
    PROVE  FunOf(n)' = FunOf(n)
  <1>1. next'[n] = next[n] /\ kfun'[n] = kfun[n] /\ n # NoNode
    BY NodeFacts DEF Kept, NoNode
  <1>2. ASSUME next[n] # NoNode
        PROVE  /\ keyval'[next[n]] = Timeout <=> keyval[next[n]] = Timeout
               /\ keyval[next[n]] = Timeout => kfun'[next[n]] = kfun[next[n]]
    <2>1. next[n] \in Nodes
      BY <1>2, ChildIsNode
    <2> QED BY <2>1, KeptTimeouts DEF Kept
  <1> QED BY <1>1, <1>2 DEF FunOf, Waits

-----------------------------------------------------------------------------
(* Each step of the walk. *)

LEMMA RightParts ==
    ASSUME NEW G, Right(G)
    PROVE  /\ Types /\ Shape(G) /\ KeysAsked(G) /\ Leads(G) /\ Asked
           /\ Walking => WalkAt(G) /\ InOrder(seq) /\ root \in Nodes
           /\ \A n \in Nodes : NodeRight(G, n) /\ NodeOK(n) /\ G[n] \in Place
  BY DEF Right, Types, TypeOK, Shape, NodeOK, WalkAt

LEMMA TimeoutGrowRight ==
    ASSUME NEW G, Right(G), TimeoutGrow
    PROVE  \E H : Right(H)' /\ Types' /\ Shape(H)' /\ SameContent(G, H)
  <1>0. PICK r : r = root
    OBVIOUS
  <1>1. PICK k : k = Size + 1
    OBVIOUS
  <1>2. Walking /\ keyval[r] = Timeout /\ Byte # Nul /\ hi[r] = NoNode
    BY <1>0 DEF TimeoutGrow, AtTimeout
  <1>3. Types /\ Shape(G) /\ r \in Nodes /\ WalkAt(G)
    BY <1>0, <1>2, RightParts
  <1>4. NodeRight(G, r) /\ NodeOK(r) /\ G[r] \in Place
    BY <1>3, RightParts
  <1>5. PICK H : H = With(G, k, G[r])
    OBVIOUS
  <1>6. /\ Added(r) /\ EmptyNode(k)'
        /\ keyval'[r] = keyval[r] /\ kfun'[r] = kfun[r]
        /\ next'[r] = next[r] /\ lo'[r] = lo[r] /\ hi'[r] = k
    BY <1>0, <1>1, <1>3, TimeoutGrowAdds
  <1>7. /\ Kept(G, H, r) /\ Stored' /\ k \in Nat
        /\ k \in Nodes' /\ k \notin Nodes /\ H[k] = G[r] /\ Size' = k
        /\ \A n \in Nodes' : n \notin Nodes => n = k
        /\ \A n \in Nodes : n \in Nodes' /\ n < k /\ n # k /\ k \in n + 1 .. Size'
    <2>1. Types /\ Shape(G) /\ r \in Nodes /\ k = Size + 1 /\ G[r] \in Place
          /\ H = With(G, k, G[r]) /\ Added(r)
      BY <1>1, <1>3, <1>4, <1>5, <1>6
    <2>2. keyval'[r] = keyval[r] \/ (keyval[r] = 0 /\ keyval'[r] \in Bytes)
      BY <1>6
    <2> HIDE DEF Stored
    <2> QED BY <2>1, <2>2, AddedKept
  <1>8. H[r] = G[r] /\ r \in Nodes' /\ r < k /\ k \in r + 1 .. Size'
    BY <1>3, <1>7 DEF Kept
  <1>9. NodeOK(k)' /\ NodeRight(H, k)'
    BY <1>6, <1>8, EmptyIsRight DEF Child
  <1>10. NodeOK(r)'
    <2>1. kfun[r] # NoFun /\ lo[r] = 1 /\ next[r] = NoNode /\ kfun[r] \in Funs \cup {NoFun}
      BY <1>2, <1>4 DEF NodeOK
    <2> QED BY <1>2, <1>6, <1>8, <2>1 DEF NodeOK
  <1>11. reply' = reply /\ seq' = seq /\ fun' = fun /\ pos' = pos /\ root' = k
    BY <1>1 DEF TimeoutGrow, call, NewNode
  <1>12. Types'
    <2>1. reply' \in {"none", "yes", "no", "fatal"}
      BY <1>3, <1>11 DEF Types, TypeOK
    <2> QED BY <1>3, <1>7, <1>9, <1>10, <2>1, TypesKept
  <1>13. NodeRight(H, r)'
    <2>1. ~Filled(r)' /\ ~Empty(r)'
      BY <1>2, <1>6 DEF Filled, Empty, Timeout
    <2>2. keyval'[k] # Timeout /\ H[k] = [path |-> H[r].path, above |-> H[r].above, below |-> H[r].below]
      BY <1>4, <1>6, <1>7, <1>8 DEF EmptyNode, Timeout, Place
    <2>3. r # 1
      BY <1>2, <1>3, <1>7, NodeFacts DEF Shape, Nodes
    <2>4. PICK m \in Nodes : m < r /\ Child(m, r)
      BY <1>4, <2>3 DEF NodeRight
    <2>5. m # r
      BY <1>3, <2>4, NodeFacts
    <2>6. m \in Nodes' /\ Child(m, r)'
      BY <1>7, <2>4, <2>5 DEF Kept, Child
    <2>7. next'[r] = NoNode
      BY <1>2, <1>4, <1>6 DEF NodeOK
    <2> QED BY <1>2, <1>6, <2>1, <2>2, <2>4, <2>6, <2>7 DEF NodeRight
  <1>14. \A n \in Nodes : Child(r, n) => Child(r, n)'
    BY <1>2, <1>6, NodeFacts DEF Child, NoNode, Nodes
  <1>15. Shape(H)'
    BY <1>3, <1>7, <1>9, <1>13, <1>14, ShapeKept
  <1>16. SameContent(G, H)
    <2>1. \A n \in Nodes : FunOf(n)' = FunOf(n)
      BY <1>3, <1>6, <1>7, FunKept
    <2>2. \A n \in Nodes : keyval'[n] = keyval[n]
      BY <1>6, <1>7 DEF Kept
    <2>3. ~Filled(k)'
      BY <1>6 DEF EmptyNode, Filled
    <2> QED BY <1>7, <2>1, <2>2, <2>3 DEF SameContent, Kept, Filled
  <1>17. WalkAt(H)'
    <2>1. pos <= Len(seq)
      BY <1>2, AtByte
    <2>2. ~(pos = Len(seq) + 1)
      BY <1>2, <2>1, AtByte
    <2>3. /\ pos \in 1 .. Len(seq) + 1 /\ Prefix(G[r].path, seq, pos)
          /\ G[r].above < seq[pos] /\ seq[pos] < G[r].below
      BY <1>0, <1>3, <2>1 DEF WalkAt
    <2> QED BY <1>7, <1>11, <2>2, <2>3 DEF WalkAt, Prefix
  <1>18. \A n \in Nodes' : next'[n] # NoNode => n \in Nodes /\ next[n] # NoNode
    BY <1>6, <1>7 DEF EmptyNode, Kept
  <1>19. Right(H)'
    BY <1>2, <1>11, <1>12, <1>15, <1>16, <1>17, <1>18, StepRight
  <1> QED BY <1>12, <1>15, <1>16, <1>19

LEMMA SearchAt ==
    ASSUME NEW G, Right(G), AtNode, Byte # NodeByte
    PROVE  /\ Filled(root) /\ keyval[root] \in Nat /\ Byte \in Nat
           /\ Above <=> keyval[root] < Byte
           /\ ~Above => Byte < keyval[root]
  <1>1. /\ root \in Nodes /\ NodeByte \in Bytes /\ Byte \in Bytes
        /\ keyval[root] # 0 => NodeByte = keyval[root] /\ Filled(root)
        /\ keyval[root] = 0 => NodeByte = Byte
    BY AtNodeByte
  <1>2. Filled(root) /\ keyval[root] # Byte
    BY <1>1
  <1>3. keyval[root] \in Nat
    BY <1>1, RightParts, KeyvalNat
  <1>4. Byte \in Nat
    BY <1>1, ByteIsNat
  <1>5. Above <=> Byte > keyval[root]
    BY DEF Above
  <1> QED BY <1>2, <1>3, <1>4, <1>5

LEMMA SearchGrowRight ==
    ASSUME NEW G, Right(G), SearchGrow
    PROVE  \E H : Right(H)' /\ Types' /\ Shape(H)' /\ SameContent(G, H)
  <1>0. PICK r : r = root
    OBVIOUS
  <1>1. PICK k : k = Size + 1
    OBVIOUS
  <1>2. /\ AtNode /\ Byte # NodeByte /\ Walking
        /\ Above => hi[r] = NoNode
        /\ ~Above => lo[r] = NoNode
    BY <1>0 DEF SearchGrow, AtNode
  <1>3. Types /\ Shape(G) /\ r \in Nodes /\ WalkAt(G)
    BY <1>0, <1>2, RightParts
  <1>4. NodeRight(G, r) /\ NodeOK(r) /\ G[r] \in Place
    BY <1>3, RightParts
  <1>41. /\ Filled(r) /\ keyval[r] \in Nat /\ Byte \in Nat
         /\ Above <=> keyval[r] < Byte
         /\ ~Above => Byte < keyval[r]
    BY <1>0, <1>2, SearchAt
  <1>5. PICK p : p = [path  |-> G[r].path,
                      above |-> IF Above THEN keyval[r] ELSE G[r].above,
                      below |-> IF Above THEN G[r].below ELSE keyval[r]]
    OBVIOUS
  <1>51. p \in Place
    BY <1>4, <1>41, <1>5 DEF Place
  <1>52. PICK H : H = With(G, k, p)
    OBVIOUS
  <1>6. /\ Added(r) /\ EmptyNode(k)'
        /\ keyval'[r] = keyval[r] /\ kfun'[r] = kfun[r] /\ next'[r] = next[r]
        /\ hi'[r] = IF Above THEN k ELSE hi[r]
        /\ lo'[r] = IF Above THEN lo[r] ELSE k
    BY <1>0, <1>1, <1>3, SearchGrowAdds
  <1>7. /\ Kept(G, H, r) /\ Stored' /\ k \in Nat
        /\ k \in Nodes' /\ k \notin Nodes /\ H[k] = p /\ Size' = k
        /\ \A n \in Nodes' : n \notin Nodes => n = k
        /\ \A n \in Nodes : n \in Nodes' /\ n < k /\ n # k /\ k \in n + 1 .. Size'
    <2>1. Types /\ Shape(G) /\ r \in Nodes /\ k = Size + 1 /\ p \in Place
          /\ H = With(G, k, p) /\ Added(r)
      BY <1>1, <1>3, <1>51, <1>52, <1>6
    <2>2. keyval'[r] = keyval[r] \/ (keyval[r] = 0 /\ keyval'[r] \in Bytes)
      BY <1>6
    <2> QED BY <2>1, <2>2, AddedKept
  <1>8. H[r] = G[r] /\ r \in Nodes' /\ r < k /\ k \in r + 1 .. Size'
    BY <1>3, <1>7 DEF Kept
  <1>81. keyval[r] # Timeout /\ keyval[r] # 0 /\ keyval'[r] # Timeout /\ keyval'[r] # 0
    BY <1>41, <1>6 DEF Filled
  <1>9. NodeOK(k)' /\ NodeRight(H, k)'
    <2>1. Child(r, k)'
      BY <1>6, <1>81 DEF Child
    <2> QED BY <1>6, <1>8, <2>1, EmptyIsRight
  <1>82. ASSUME NEW c \in Nodes PROVE keyval'[c] = keyval[c]
    BY <1>6, <1>7 DEF Kept
  <1>83. /\ hi[r] # NoNode => hi[r] \in Nodes
         /\ lo[r] # NoNode => lo[r] \in Nodes
    BY <1>3, <1>81, ChildIsNode
  <1>84. keyval'[k] # Timeout
    BY <1>6 DEF EmptyNode, Timeout
  <1>10. NodeOK(r)'
    <2>1. /\ next[r] \in {NoNode} \cup (r + 1 .. Size')
          /\ hi[r] \in {NoNode} \cup (r + 1 .. Size')
          /\ lo[r] \in {NoNode} \cup (r + 1 .. Size')
      <3>1. /\ next[r] \in {NoNode} \cup (r + 1 .. Size)
            /\ hi[r] \in {NoNode} \cup (r + 1 .. Size)
            /\ lo[r] \in {NoNode} \cup (r + 1 .. Size)
        BY <1>4, <1>81 DEF NodeOK
      <3>2. Size \in Nat /\ r \in Nat /\ Size' = Size + 1
        BY <1>1, <1>3, <1>7, NodeFacts
      <3> QED BY <3>1, <3>2
    <2>2. kfun[r] \in Funs \cup {NoFun} /\ keyval[r] \in 0 .. 255
      BY <1>4, <1>81 DEF NodeOK
    <2>3. ASSUME NEW c \in {hi'[r], lo'[r]} \ {NoNode} PROVE keyval'[c] # Timeout
      <3>1. CASE c = k
        BY <1>84, <3>1
      <3>2. CASE c # k
        <4>1. c \in {hi[r], lo[r]} \ {NoNode}
          BY <1>6, <2>3, <3>2
        <4>2. keyval[c] # Timeout
          BY <1>4, <1>81, <4>1 DEF NodeOK
        <4> QED BY <1>82, <1>83, <4>1, <4>2
      <3> QED BY <3>1, <3>2
    <2>4. /\ next'[r] \in {NoNode} \cup (r + 1 .. Size')
          /\ hi'[r] \in {NoNode} \cup (r + 1 .. Size')
          /\ lo'[r] \in {NoNode} \cup (r + 1 .. Size')
      BY <1>6, <1>8, <2>1
    <2> QED BY <1>6, <1>81, <2>2, <2>3, <2>4 DEF NodeOK
  <1>11. reply' = reply /\ seq' = seq /\ fun' = fun /\ pos' = pos /\ root' = k
    BY <1>1 DEF SearchGrow, call, NewNode
  <1>12. Types'
    <2>1. reply' \in {"none", "yes", "no", "fatal"}
      BY <1>3, <1>11 DEF Types, TypeOK
    <2> QED BY <1>3, <1>7, <1>9, <1>10, <2>1, TypesKept
  <1>13. NodeRight(H, r)'
    <2>1. H[r].above < keyval'[r] /\ keyval'[r] < H[r].below /\ ~Empty(r)'
      BY <1>4, <1>41, <1>6, <1>8, <1>81 DEF NodeRight, Empty
    <2>2. ASSUME hi'[r] # NoNode
          PROVE  /\ keyval'[hi'[r]] # Timeout
                 /\ H[hi'[r]] = [path  |-> H[r].path,
                                above |-> IF keyval'[r] = Timeout THEN H[r].above ELSE keyval'[r],
                                below |-> H[r].below]
      <3>1. CASE Above
        BY <1>5, <1>6, <1>7, <1>8, <1>81, <1>84, <3>1
      <3>2. CASE ~Above
        <4>1. hi'[r] = hi[r] /\ hi[r] # NoNode
          BY <1>6, <2>2, <3>2
        <4>2. H[hi[r]] = G[hi[r]] /\ keyval'[hi[r]] = keyval[hi[r]]
          BY <1>7, <1>82, <1>83, <4>1 DEF Kept
        <4>3. /\ keyval[hi[r]] # Timeout
              /\ G[hi[r]] = [path |-> G[r].path, above |-> keyval[r], below |-> G[r].below]
          BY <1>4, <1>81, <4>1 DEF NodeRight
        <4> QED BY <1>6, <1>8, <1>81, <4>1, <4>2, <4>3
      <3> QED BY <3>1, <3>2
    <2>3. ASSUME lo'[r] # NoNode
          PROVE  H[lo'[r]] = [path |-> H[r].path, above |-> H[r].above, below |-> keyval'[r]]
      <3>1. CASE ~Above
        BY <1>5, <1>6, <1>7, <1>8, <3>1
      <3>2. CASE Above
        <4>1. lo'[r] = lo[r] /\ lo[r] # NoNode
          BY <1>6, <2>3, <3>2
        <4>2. H[lo[r]] = G[lo[r]]
          BY <1>7, <1>83, <4>1 DEF Kept
        <4>3. G[lo[r]] = [path |-> G[r].path, above |-> G[r].above, below |-> keyval[r]]
          BY <1>4, <1>81, <4>1 DEF NodeRight
        <4> QED BY <1>6, <1>8, <4>1, <4>2, <4>3
      <3> QED BY <3>1, <3>2
    <2>4. ASSUME next'[r] # NoNode
          PROVE  /\ H[next'[r]] = [path |-> Key(H, r)', above |-> 0, below |-> 256]
                 /\ kfun'[r] = NoFun
      <3>1. next[r] \in Nodes
        BY <1>3, <1>6, <2>4, ChildIsNode
      <3>2. H[next[r]] = G[next[r]]
        BY <1>7, <3>1 DEF Kept
      <3>3. /\ G[next[r]] = [path |-> Key(G, r), above |-> 0, below |-> 256]
            /\ kfun[r] = NoFun
        BY <1>4, <1>6, <2>4 DEF NodeRight
      <3>4. Key(H, r)' = Key(G, r)
        BY <1>6, <1>8 DEF Key
      <3> QED BY <1>6, <3>2, <3>3, <3>4
    <2>5. ASSUME r # 1 PROVE \E m \in Nodes' : m < r /\ Child(m, r)'
      <3>1. PICK m \in Nodes : m < r /\ Child(m, r)
        BY <1>4, <2>5 DEF NodeRight
      <3>2. m # r
        BY <1>3, <3>1, NodeFacts
      <3>3. m \in Nodes' /\ Child(m, r)'
        BY <1>7, <3>1, <3>2 DEF Kept, Child
      <3> QED BY <3>1, <3>3
    <2> QED BY <2>1, <2>2, <2>3, <2>4, <2>5 DEF NodeRight
  <1>14. \A n \in Nodes : Child(r, n) => Child(r, n)'
    <2>1. \A n \in Nodes : n # NoNode
      BY <1>3, NodeFacts DEF NoNode
    <2> QED BY <1>2, <1>6, <2>1 DEF Child
  <1>15. Shape(H)'
    BY <1>3, <1>7, <1>9, <1>13, <1>14, ShapeKept
  <1>16. SameContent(G, H)
    <2>1. \A n \in Nodes : FunOf(n)' = FunOf(n)
      BY <1>3, <1>6, <1>7, FunKept
    <2>2. ~Filled(k)'
      BY <1>6 DEF EmptyNode, Filled
    <2> QED BY <1>7, <1>82, <2>1, <2>2 DEF SameContent, Kept, Filled
  <1>17. WalkAt(H)'
    <2>1. pos <= Len(seq) /\ Byte = seq[pos] /\ ~(pos = Len(seq) + 1)
      <3>1. Byte # Nul
        BY <1>2, AtByte
      <3> QED BY <1>2, <3>1, AtByte
    <2>2. /\ pos \in 1 .. Len(seq) + 1 /\ Prefix(G[r].path, seq, pos)
          /\ G[r].above < seq[pos] /\ seq[pos] < G[r].below
      BY <1>0, <1>3, <2>1 DEF WalkAt
    <2>3. p.path = G[r].path /\ p.above < seq[pos] /\ seq[pos] < p.below
      <3>1. CASE Above
        BY <1>41, <1>5, <2>1, <2>2, <3>1
      <3>2. CASE ~Above
        BY <1>41, <1>5, <2>1, <2>2, <3>2
      <3> QED BY <3>1, <3>2
    <2> QED BY <1>7, <1>11, <2>1, <2>2, <2>3 DEF WalkAt, Prefix
  <1>18. \A n \in Nodes' : next'[n] # NoNode => n \in Nodes /\ next[n] # NoNode
    BY <1>6, <1>7 DEF EmptyNode, Kept
  <1>19. Right(H)'
    BY <1>2, <1>11, <1>12, <1>15, <1>16, <1>17, <1>18, StepRight
  <1> QED BY <1>12, <1>15, <1>16, <1>19

(* A path and the byte after it. *)
LEMMA PathOn ==
    ASSUME NEW s \in Seq(Bytes), NEW p \in Seq(Bytes), NEW i \in 1 .. Len(s), Prefix(p, s, i)
    PROVE  /\ Append(p, s[i]) \in Seq(Bytes) /\ Prefix(Append(p, s[i]), s, i + 1)
           /\ i < Len(s) => Begins(Append(p, s[i]), s)
           /\ i = Len(s) => Append(p, s[i]) = s
  <1>1. s[i] \in Bytes /\ Len(s) \in Nat /\ Len(p) = i - 1 /\ i \in Nat /\ i >= 1
    BY LenProperties, ElementOfSeq DEF Prefix
  <1> DEFINE c == s[i]
             q == Append(p, c)
  <1>2. /\ q \in Seq(Bytes) /\ Len(q) = Len(p) + 1 /\ q[Len(p) + 1] = c
        /\ \A j \in 1 .. Len(p) : q[j] = p[j]
    BY <1>1, Appended
  <1> HIDE DEF q
  <1>3. Len(q) = i /\ (i + 1) - 1 = i /\ Len(p) + 1 = i
    BY <1>1, <1>2
  <1>4. ASSUME NEW j \in 1 .. i PROVE q[j] = s[j]
    <2>1. CASE j = i
      BY <1>2, <1>3, <2>1
    <2>2. CASE j # i
      <3>1. j \in 1 .. i - 1 /\ j \in 1 .. Len(p)
        BY <1>1, <2>2
      <3> QED BY <1>2, <3>1 DEF Prefix
    <2> QED BY <2>1, <2>2
  <1>5. Prefix(q, s, i + 1)
    BY <1>3, <1>4 DEF Prefix
  <1>6. i < Len(s) => Begins(q, s)
    BY <1>3, <1>4 DEF Begins
  <1>7. i = Len(s) => q = s
    BY <1>2, <1>3, <1>4, SeqEqual
  <1> QED BY <1>2, <1>5, <1>6, <1>7 DEF q

LEMMA MatchAt ==
    ASSUME NEW G, Right(G), AtMatch
    PROVE  /\ Walking /\ root \in Nodes /\ Types /\ Shape(G) /\ WalkAt(G)
           /\ NodeByte \in Bytes /\ NodeByte \in Nat /\ NodeByte # 0 /\ NodeByte # Timeout
           /\ keyval[root] # Timeout
           /\ keyval[root] # 0 => NodeByte = keyval[root] /\ Filled(root)
           /\ G[root].above < NodeByte /\ NodeByte < G[root].below
           /\ pos \in 1 .. Len(seq) /\ NodeByte = seq[pos]
           /\ Append(G[root].path, NodeByte) \in Seq(Bytes)
           /\ Prefix(Append(G[root].path, NodeByte), seq, pos + 1)
           /\ Following # Nul =>
                 /\ pos + 1 <= Len(seq) /\ Begins(Append(G[root].path, NodeByte), seq)
                 /\ 0 < seq[pos + 1] /\ seq[pos + 1] < 256
           /\ Following = Nul =>
                 pos = Len(seq) /\ Append(G[root].path, NodeByte) = seq
  <1>1. AtNode /\ Byte = NodeByte /\ Walking
    BY DEF AtMatch, AtNode
  <1>2. /\ root \in Nodes /\ NodeByte \in Bytes /\ keyval[root] # Timeout
        /\ keyval[root] # 0 => NodeByte = keyval[root] /\ Filled(root)
        /\ G[root].above < NodeByte /\ NodeByte < G[root].below
    BY <1>1, AtNodeByte
  <1>3. /\ pos \in Nat /\ pos >= 1 /\ Len(seq) \in Nat /\ seq \in Seq(Bytes)
        /\ pos <= Len(seq) /\ Byte = seq[pos]
        /\ Following # Nul =>
              pos + 1 <= Len(seq) /\ Following = seq[pos + 1] /\ Following \in Bytes
        /\ Following = Nul => ~(pos + 1 <= Len(seq))
    BY <1>1, AtByte
  <1>4. pos \in 1 .. Len(seq)
    BY <1>3
  <1>5. Types /\ Shape(G) /\ WalkAt(G) /\ G[root].path \in Seq(Bytes)
    BY <1>1, <1>2, RightParts DEF Place
  <1>6. Prefix(G[root].path, seq, pos)
    BY <1>5 DEF WalkAt
  <1>7. NodeByte = seq[pos]
    BY <1>1, <1>3
  <1>8. /\ Append(G[root].path, NodeByte) \in Seq(Bytes)
        /\ Prefix(Append(G[root].path, NodeByte), seq, pos + 1)
        /\ pos < Len(seq) => Begins(Append(G[root].path, NodeByte), seq)
        /\ pos = Len(seq) => Append(G[root].path, NodeByte) = seq
    BY <1>3, <1>4, <1>5, <1>6, <1>7, PathOn
  <1>9. Following # Nul => pos < Len(seq) /\ 0 < seq[pos + 1] /\ seq[pos + 1] < 256
    BY <1>3, Smaller
  <1>10. Following = Nul => pos = Len(seq)
    BY <1>3
  <1>11. NodeByte \in Nat /\ NodeByte # 0 /\ NodeByte # Timeout
    BY <1>2, ByteIsNat, ByteIsKey
  <1> QED BY <1>1, <1>2, <1>3, <1>4, <1>5, <1>7, <1>8, <1>9, <1>10, <1>11

(* A node that a longer sequence goes on from. *)
LEMMA OnwardRight ==
    ASSUME NEW G, Right(G), AtMatch, Following # Nul,
           NEW r, r = root, NEW k, k = Size + 1, next[r] = NoNode, Added(r),
           keyval'[r] = NodeByte, kfun'[r] = NoFun, next'[r] = k, hi'[r] = hi[r], lo'[r] = lo[r],
           pos' = pos + 1, root' = k, reply' = reply, seq' = seq, fun' = fun,
           NodeOK(k)', ~Filled(k)', next'[k] = NoNode, hi'[k] = NoNode,
           Empty(k)' => lo'[k] = NoNode /\ kfun'[k] = NoFun,
           keyval'[k] # Timeout => lo'[k] = NoNode,
           FunOf(r)' = FunOf(r), keyval[r] = 0 => FunOf(r) = NoFun
    PROVE  \E H : Right(H)' /\ Types' /\ Shape(H)' /\ SameContent(G, H)
  <1>2. /\ Walking /\ r \in Nodes /\ Types /\ Shape(G) /\ WalkAt(G)
        /\ NodeByte \in Bytes /\ NodeByte \in Nat /\ NodeByte # 0 /\ NodeByte # Timeout
        /\ keyval[r] # Timeout
        /\ keyval[r] # 0 => NodeByte = keyval[r] /\ Filled(r)
        /\ G[r].above < NodeByte /\ NodeByte < G[r].below
        /\ pos \in 1 .. Len(seq)
        /\ Append(G[r].path, NodeByte) \in Seq(Bytes)
        /\ Prefix(Append(G[r].path, NodeByte), seq, pos + 1)
        /\ pos + 1 <= Len(seq) /\ Begins(Append(G[r].path, NodeByte), seq)
        /\ 0 < seq[pos + 1] /\ seq[pos + 1] < 256
    BY MatchAt
  <1>4. NodeRight(G, r) /\ NodeOK(r) /\ G[r] \in Place
    BY <1>2, RightParts
  <1>5. PICK p : p = [path |-> Append(G[r].path, NodeByte), above |-> 0, below |-> 256]
    OBVIOUS
  <1>51. p \in Place
    BY <1>2, <1>5 DEF Place
  <1>52. PICK H : H = With(G, k, p)
    OBVIOUS
  <1>7. /\ Kept(G, H, r) /\ Stored' /\ k \in Nat
        /\ k \in Nodes' /\ k \notin Nodes /\ H[k] = p /\ Size' = k
        /\ \A n \in Nodes' : n \notin Nodes => n = k
        /\ \A n \in Nodes : n \in Nodes' /\ n < k /\ n # k /\ k \in n + 1 .. Size'
    <2>1. Types /\ Shape(G) /\ r \in Nodes /\ k = Size + 1 /\ p \in Place
          /\ H = With(G, k, p) /\ Added(r)
      BY <1>2, <1>51, <1>52
    <2>2. keyval'[r] = keyval[r] \/ (keyval[r] = 0 /\ keyval'[r] \in Bytes)
      BY <1>2
    <2> QED BY <2>1, <2>2, AddedKept
  <1>8. H[r] = G[r] /\ r \in Nodes' /\ r < k /\ k \in r + 1 .. Size'
    BY <1>2, <1>7 DEF Kept
  <1>9. NodeRight(H, k)'
    <2>1. Child(r, k)'
      BY DEF Child
    <2>2. \E m \in Nodes' : m < k /\ Child(m, k)'
      BY <1>8, <2>1
    <2> QED BY <2>2 DEF NodeRight
  <1>81. keyval'[r] # Timeout /\ keyval'[r] # 0 /\ keyval'[r] \in 0 .. 255
    BY <1>2 DEF Bytes
  <1>82. \A n \in Nodes : keyval'[n] = Timeout <=> keyval[n] = Timeout
    BY <1>2, <1>7, KeptTimeouts
  <1>83. /\ hi[r] # NoNode => hi[r] \in Nodes
         /\ lo[r] # NoNode => lo[r] \in Nodes
    BY <1>2, ChildIsNode
  <1>10. NodeOK(r)'
    <2>1. /\ hi[r] \in {NoNode} \cup (r + 1 .. Size')
          /\ lo[r] \in {NoNode} \cup (r + 1 .. Size')
      <3>1. /\ hi[r] \in {NoNode} \cup (r + 1 .. Size)
            /\ lo[r] \in {NoNode} \cup (r + 1 .. Size)
        BY <1>2, <1>4 DEF NodeOK
      <3>2. Size \in Nat /\ r \in Nat /\ Size' = Size + 1
        BY <1>2, <1>7, NodeFacts
      <3> QED BY <3>1, <3>2
    <2>2. next'[r] \in {NoNode} \cup (r + 1 .. Size')
      BY <1>8
    <2>3. ASSUME NEW c \in {hi'[r], lo'[r]} \ {NoNode} PROVE keyval'[c] # Timeout
      <3>1. c \in {hi[r], lo[r]} \ {NoNode} /\ c \in Nodes
        BY <1>83, <2>3
      <3>2. keyval[c] # Timeout
        BY <1>2, <1>4, <3>1 DEF NodeOK
      <3> QED BY <1>82, <3>1, <3>2
    <2> QED BY <1>81, <2>1, <2>2, <2>3 DEF NodeOK
  <1>12. Types'
    <2>1. reply' \in {"none", "yes", "no", "fatal"}
      BY <1>2 DEF Types, TypeOK
    <2> QED BY <1>2, <1>7, <1>10, <2>1, TypesKept
  <1>13. NodeRight(H, r)'
    <2>1. H[r].above < keyval'[r] /\ keyval'[r] < H[r].below /\ ~Empty(r)'
      BY <1>2, <1>8, <1>81 DEF Empty
    <2>2. ASSUME hi'[r] # NoNode
          PROVE  /\ keyval'[hi'[r]] # Timeout
                 /\ H[hi'[r]] = [path  |-> H[r].path,
                                above |-> IF keyval'[r] = Timeout THEN H[r].above ELSE keyval'[r],
                                below |-> H[r].below]
      <3>1. hi[r] # NoNode /\ keyval[r] # 0
        BY <1>4, <2>2 DEF NodeRight, Empty
      <3>2. keyval'[r] = keyval[r]
        BY <1>2, <3>1
      <3>3. H[hi[r]] = G[hi[r]] /\ (keyval'[hi[r]] = Timeout <=> keyval[hi[r]] = Timeout)
        BY <1>7, <1>82, <1>83, <3>1 DEF Kept
      <3>4. /\ keyval[hi[r]] # Timeout
            /\ G[hi[r]] = [path |-> G[r].path, above |-> keyval[r], below |-> G[r].below]
        BY <1>2, <1>4, <3>1 DEF NodeRight
      <3> QED BY <1>8, <1>81, <3>2, <3>3, <3>4
    <2>3. ASSUME lo'[r] # NoNode
          PROVE  H[lo'[r]] = [path |-> H[r].path, above |-> H[r].above, below |-> keyval'[r]]
      <3>1. lo[r] # NoNode /\ keyval[r] # 0
        BY <1>4, <2>3 DEF NodeRight, Empty
      <3>2. keyval'[r] = keyval[r]
        BY <1>2, <3>1
      <3>3. H[lo[r]] = G[lo[r]]
        BY <1>7, <1>83, <3>1 DEF Kept
      <3>4. G[lo[r]] = [path |-> G[r].path, above |-> G[r].above, below |-> keyval[r]]
        BY <1>2, <1>4, <3>1 DEF NodeRight
      <3> QED BY <1>8, <3>2, <3>3, <3>4
    <2>4. H[next'[r]] = [path |-> Key(H, r)', above |-> 0, below |-> 256]
      BY <1>5, <1>7, <1>8 DEF Key
    <2>5. ASSUME r # 1 PROVE \E m \in Nodes' : m < r /\ Child(m, r)'
      <3>1. PICK m \in Nodes : m < r /\ Child(m, r)
        BY <1>4, <2>5 DEF NodeRight
      <3>2. m # r
        BY <1>2, <3>1, NodeFacts
      <3>3. m \in Nodes' /\ Child(m, r)'
        BY <1>7, <3>1, <3>2 DEF Kept, Child
      <3> QED BY <3>1, <3>3
    <2> QED BY <2>1, <2>2, <2>3, <2>4, <2>5 DEF NodeRight
  <1>14. \A n \in Nodes : Child(r, n) => Child(r, n)'
    <2>1. \A n \in Nodes : n # NoNode
      BY <1>2, NodeFacts DEF NoNode
    <2> QED BY <1>81, <2>1 DEF Child
  <1>15. Shape(H)'
    BY <1>2, <1>7, <1>9, <1>13, <1>14, ShapeKept
  <1>16. SameContent(G, H)
    <2>1. \A n \in Nodes : FunOf(n)' = FunOf(n)
      <3>1. \A n \in Nodes : n # r => FunOf(n)' = FunOf(n)
        BY <1>2, <1>7, FunKept
      <3> QED BY <3>1
    <2>2. \A n \in Nodes : Filled(n) => keyval'[n] = keyval[n]
      BY <1>2, <1>7 DEF Kept, Filled
    <2>3. \A n \in Nodes : Filled(n)' /\ FunOf(n) # NoFun => Filled(n)
      BY <1>2, <1>7 DEF Kept, Filled
    <2> QED BY <1>7, <2>1, <2>2, <2>3 DEF SameContent, Kept, Filled
  <1>17. WalkAt(H)'
    <2>1. pos' \in 1 .. Len(seq) + 1 /\ ~(pos' = Len(seq) + 1)
      BY <1>2
    <2>2. /\ H[k].path = Append(G[r].path, NodeByte)
          /\ H[k].above < seq[pos'] /\ seq[pos'] < H[k].below
      BY <1>2, <1>5, <1>7
    <2>3. Prefix(H[k].path, seq, pos')
      BY <1>2, <2>2
    <2> QED BY <1>7, <2>1, <2>2, <2>3 DEF WalkAt, Prefix
  <1>18. \A n \in Nodes' : next'[n] # NoNode =>
            (n \in Nodes /\ next[n] # NoNode) \/ Begins(Append(H[n].path, keyval'[n]), seq)
    <2>1. Begins(Append(H[r].path, keyval'[r]), seq)
      BY <1>2, <1>8
    <2> QED BY <1>7, <2>1 DEF Kept
  <1>19. Right(H)'
    BY <1>2, <1>12, <1>15, <1>16, <1>17, <1>18, StepRight
  <1> QED BY <1>12, <1>15, <1>16, <1>19

LEMMA MatchGrowRight ==
    ASSUME NEW G, Right(G), MatchGrow
    PROVE  \E H : Right(H)' /\ Types' /\ Shape(H)' /\ SameContent(G, H)
  <1>0. PICK r : r = root
    OBVIOUS
  <1>1. PICK k : k = Size + 1
    OBVIOUS
  <1>2. AtMatch /\ kfun[r] = NoFun /\ next[r] = NoNode /\ Following # Nul
    BY <1>0 DEF MatchGrow
  <1>3. /\ pos' = pos + 1 /\ root' = k /\ reply' = reply /\ seq' = seq /\ fun' = fun
    BY <1>1 DEF MatchGrow, call, NewNode
  <1>4. r \in Nodes /\ Types /\ NodeByte \in Bytes
    BY <1>0, <1>2, MatchAt
  <1>5. /\ Added(r) /\ EmptyNode(k)'
        /\ keyval'[r] = NodeByte /\ kfun'[r] = kfun[r] /\ next'[r] = k
        /\ hi'[r] = hi[r] /\ lo'[r] = lo[r]
    BY <1>0, <1>1, <1>4, MatchGrowAdds
  <1>6. NodeOK(k)' /\ ~Filled(k)' /\ keyval'[k] # Timeout
    BY <1>5 DEF EmptyNode, NodeOK, Filled, Timeout
  <1>7. FunOf(r) = NoFun /\ FunOf(r)' = NoFun
    <2>1. r # NoNode
      BY <1>4, NodeFacts DEF NoNode
    <2> QED BY <1>2, <1>5, <1>6, <2>1 DEF FunOf, Waits
  <1>8. next'[k] = NoNode /\ hi'[k] = NoNode /\ lo'[k] = NoNode /\ kfun'[k] = NoFun
    BY <1>5 DEF EmptyNode
  <1> QED BY <1>0, <1>1, <1>2, <1>3, <1>5, <1>6, <1>7, <1>8, OnwardRight

LEMMA MatchSplitRight ==
    ASSUME NEW G, Right(G), MatchSplit
    PROVE  \E H : Right(H)' /\ Types' /\ Shape(H)' /\ SameContent(G, H)
  <1>0. PICK r : r = root
    OBVIOUS
  <1>1. PICK k : k = Size + 1
    OBVIOUS
  <1>2. AtMatch /\ kfun[r] # NoFun /\ Following # Nul
    BY <1>0 DEF MatchSplit, Splits
  <1>3. /\ pos' = pos + 1 /\ root' = k /\ reply' = reply /\ seq' = seq /\ fun' = fun
    BY <1>1 DEF MatchSplit, call, NewNode
  <1>4. r \in Nodes /\ Types /\ NodeByte \in Bytes
    BY <1>0, <1>2, MatchAt
  <1>41. NodeRight(G, r) /\ NodeOK(r)
    BY <1>4, RightParts
  <1>42. next[r] = NoNode /\ keyval[r] # 0
    BY <1>2, <1>41 DEF NodeRight, Empty
  <1>5. /\ Added(r)
        /\ keyval'[k] = Timeout /\ kfun'[k] = kfun[r]
        /\ next'[k] = NoNode /\ hi'[k] = NoNode /\ lo'[k] = 1
        /\ keyval'[r] = NodeByte /\ kfun'[r] = NoFun /\ next'[r] = k
        /\ hi'[r] = hi[r] /\ lo'[r] = lo[r]
    BY <1>0, <1>1, <1>4, MatchSplitAdds
  <1>6. NodeOK(k)' /\ ~Filled(k)' /\ ~Empty(k)'
    <2>1. kfun[r] \in Funs \cup {NoFun}
      BY <1>41 DEF NodeOK
    <2> QED BY <1>2, <1>5, <2>1 DEF NodeOK, Filled, Empty, Timeout
  <1>7. FunOf(r)' = FunOf(r)
    <2>1. r # NoNode /\ k # NoNode
      BY <1>1, <1>4, NodeFacts DEF NoNode
    <2>2. FunOf(r) = kfun[r]
      BY <1>42, <2>1 DEF FunOf, Waits
    <2>3. FunOf(r)' = kfun'[k]
      BY <1>5, <2>1 DEF FunOf, Waits
    <2> QED BY <1>5, <2>2, <2>3
  <1> QED BY <1>0, <1>1, <1>2, <1>3, <1>42, <1>5, <1>6, <1>7, OnwardRight

(* Steps that leave the tree as it is. *)
LEMMA StillThere ==
    ASSUME NEW G, Right(G), UNCHANGED tree, reply' \in {"none", "yes", "no", "fatal"}
    PROVE  /\ Types' /\ Shape(G)' /\ SameContent(G, G)
           /\ KeysAsked(G)'
           /\ \A s : Lookup(s)' = Lookup(s)
           /\ \A n \in Nodes' : n \in Nodes /\ next'[n] = next[n] /\ Key(G, n)' = Key(G, n)
  <1>1. Types /\ Shape(G) /\ KeysAsked(G)
    BY RightParts
  <1>2. keyval' = keyval /\ kfun' = kfun /\ next' = next /\ hi' = hi /\ lo' = lo
    BY DEF tree
  <1>3. Types'
    BY <1>1, <1>2 DEF Types, TypeOK, Size, Nodes
  <1>4. \A n : NodeRight(G, n) => NodeRight(G, n)'
    BY <1>2 DEF NodeRight, Filled, Empty, Key, Child, Nodes, Size
  <1>5. Shape(G)'
    BY <1>1, <1>2, <1>4 DEF Shape, Nodes, Size
  <1>6. \A s : Lookup(s)' = Lookup(s)
    BY <1>2 DEF Lookup, Found, FunOf, Waits, WalkFrom, Size
  <1>7. \A n : FunOf(n)' = FunOf(n)
    BY <1>2 DEF FunOf, Waits
  <1>8. SameContent(G, G)
    BY <1>2, <1>7 DEF SameContent, Filled, Nodes, Size
  <1>9. KeysAsked(G)'
    BY <1>1, <1>2, <1>7 DEF KeysAsked, Filled, Key, Nodes, Size
  <1>10. \A n \in Nodes' : n \in Nodes /\ next'[n] = next[n] /\ Key(G, n)' = Key(G, n)
    BY <1>2 DEF Nodes, Size, Key
  <1> QED BY <1>3, <1>5, <1>6, <1>8, <1>9, <1>10

LEMMA MoveRight ==
    ASSUME NEW G, Right(G), UNCHANGED tree, Walking, seq' = seq, fun' = fun, reply' = reply, WalkAt(G)'
    PROVE  Right(G)' /\ Types' /\ Shape(G)' /\ SameContent(G, G)
  <1>1. reply' \in {"none", "yes", "no", "fatal"}
    BY RightParts DEF Types, TypeOK
  <1>2. /\ Types' /\ Shape(G)' /\ SameContent(G, G)
        /\ \A n \in Nodes' : n \in Nodes /\ next'[n] = next[n] /\ Key(G, n)' = Key(G, n)
    BY <1>1, StillThere
  <1> QED BY <1>2, StepRight

LEMMA EndRight ==
    ASSUME NEW G, Right(G), UNCHANGED tree, seq' = seq, fun' = fun,
           reply' \in {"yes", "no", "fatal"},
           Walking => Lookup(seq) # NoFun
    PROVE  Right(G)'
  <1>1. reply' \in {"none", "yes", "no", "fatal"} /\ ~Walking' /\ reply' # "none"
    BY DEF Walking
  <1>2. /\ Types' /\ Shape(G)' /\ KeysAsked(G)'
        /\ \A s : Lookup(s)' = Lookup(s)
        /\ \A n \in Nodes' : n \in Nodes /\ next'[n] = next[n] /\ Key(G, n)' = Key(G, n)
    BY <1>1, StillThere
  <1>3. Leads(G) /\ Asked
    BY RightParts
  <1>4. Leads(G)'
    <2> SUFFICES ASSUME NEW n \in Nodes', next'[n] # NoNode
                 PROVE  \E t \in Seqs : Lookup(t)' # NoFun /\ Begins(Key(G, n)', t)
      BY DEF Leads, Begins
    <2>1. n \in Nodes /\ next[n] # NoNode /\ Key(G, n)' = Key(G, n)
      BY <1>2
    <2>2. \/ \E t \in Seqs : Lookup(t) # NoFun /\ Begins(Key(G, n), t)
          \/ Walking /\ Begins(Key(G, n), seq)
      BY <1>3, <2>1 DEF Leads
    <2>3. \E t \in Seqs : Lookup(t) # NoFun /\ Begins(Key(G, n), t)
      BY <1>3, <2>2 DEF Asked
    <2> QED BY <1>2, <2>1, <2>3
  <1>5. Asked'
    BY <1>1, <1>3 DEF Asked
  <1> QED BY <1>1, <1>2, <1>4, <1>5 DEF Right

LEMMA TimeoutOnRight ==
    ASSUME NEW G, Right(G), TimeoutOn
    PROVE  Right(G)' /\ Types' /\ Shape(G)' /\ SameContent(G, G)
  <1>1. Walking /\ keyval[root] = Timeout /\ Byte # Nul /\ hi[root] # NoNode
    BY DEF TimeoutOn, AtTimeout
  <1>2. UNCHANGED tree /\ seq' = seq /\ fun' = fun /\ reply' = reply /\ pos' = pos /\ root' = hi[root]
    BY DEF TimeoutOn, call, Onward
  <1>3. root \in Nodes /\ NodeRight(G, root) /\ Types /\ WalkAt(G)
    BY <1>1, RightParts
  <1>4. hi[root] \in Nodes
    BY <1>1, <1>3, ChildIsNode
  <1>5. /\ G[hi[root]].path = G[root].path /\ G[hi[root]].above = G[root].above
        /\ G[hi[root]].below = G[root].below
    BY <1>1, <1>3 DEF NodeRight
  <1>6. ~(pos = Len(seq) + 1)
    BY <1>1, AtByte
  <1>7. Nodes' = Nodes
    BY <1>2 DEF tree, Nodes, Size
  <1>8. WalkAt(G)'
    BY <1>2, <1>3, <1>4, <1>5, <1>6, <1>7 DEF WalkAt, Prefix
  <1> QED BY <1>1, <1>2, <1>8, MoveRight

LEMMA SearchOnRight ==
    ASSUME NEW G, Right(G), SearchOn
    PROVE  Right(G)' /\ Types' /\ Shape(G)' /\ SameContent(G, G)
  <1>1. /\ AtNode /\ Byte # NodeByte /\ Walking /\ keyval[root] # Timeout
        /\ Above => hi[root] # NoNode
        /\ ~Above => lo[root] # NoNode
    BY DEF SearchOn, AtNode
  <1>2. UNCHANGED tree /\ seq' = seq /\ fun' = fun /\ reply' = reply /\ pos' = pos
    BY DEF SearchOn, call
  <1>21. root' = IF Above THEN hi[root] ELSE lo[root]
    BY DEF SearchOn
  <1>3. root \in Nodes /\ NodeRight(G, root) /\ Types /\ WalkAt(G) /\ G[root] \in Place
    BY <1>1, RightParts
  <1>4. root' \in Nodes
    BY <1>1, <1>21, <1>3, ChildIsNode
  <1>5. /\ keyval[root] \in Nat /\ Byte \in Nat
        /\ Above <=> keyval[root] < Byte
        /\ ~Above => Byte < keyval[root]
    BY <1>1, SearchAt
  <1>6. pos <= Len(seq) /\ Byte = seq[pos] /\ ~(pos = Len(seq) + 1)
    <2>1. Byte # Nul
      BY <1>1, AtByte
    <2> QED BY <1>1, <2>1, AtByte
  <1>61. /\ pos \in 1 .. Len(seq) + 1 /\ Prefix(G[root].path, seq, pos)
         /\ G[root].above < seq[pos] /\ seq[pos] < G[root].below
    BY <1>3, <1>6 DEF WalkAt
  <1>7. Nodes' = Nodes
    BY <1>2 DEF tree, Nodes, Size
  <1>8. /\ G[root'].path = G[root].path
        /\ G[root'].above < seq[pos] /\ seq[pos] < G[root'].below
    <2>1. CASE Above
      <3>1. /\ G[hi[root]].path = G[root].path /\ G[hi[root]].above = keyval[root]
            /\ G[hi[root]].below = G[root].below
        BY <1>1, <1>3, <2>1 DEF NodeRight
      <3> QED BY <1>21, <1>5, <1>6, <1>61, <2>1, <3>1
    <2>2. CASE ~Above
      <3>1. /\ G[lo[root]].path = G[root].path /\ G[lo[root]].above = G[root].above
            /\ G[lo[root]].below = keyval[root]
        BY <1>1, <1>3, <2>2 DEF NodeRight
      <3> QED BY <1>21, <1>5, <1>6, <1>61, <2>2, <3>1
    <2> QED BY <2>1, <2>2
  <1>9. WalkAt(G)'
    BY <1>2, <1>4, <1>6, <1>61, <1>7, <1>8 DEF WalkAt, Prefix
  <1> QED BY <1>1, <1>2, <1>9, MoveRight

(* The node that spells the sequence. *)
LEMMA FilledAgain ==
    ASSUME NEW G, Right(G), AtMatch, keyval[root] # 0
    PROVE  FilledKeys = keyval /\ Key(G, root) = Append(G[root].path, NodeByte) /\ Filled(root)
  <1>1. NodeByte = keyval[root] /\ Filled(root) /\ root \in Nodes /\ Types
    BY MatchAt
  <1>2. keyval \in Seq(Vals)
    BY <1>1 DEF Types
  <1>3. keyval = [n \in 1 .. Len(keyval) |-> keyval[n]]
    BY <1>2
  <1> QED BY <1>1, <1>3 DEF FilledKeys, Key

LEMMA MatchOnRight ==
    ASSUME NEW G, Right(G), MatchOn
    PROVE  Right(G)' /\ Types' /\ Shape(G)' /\ SameContent(G, G)
  <1>1. AtMatch /\ kfun[root] = NoFun /\ next[root] # NoNode
    BY DEF MatchOn
  <1>2. /\ Walking /\ root \in Nodes /\ Types /\ Shape(G)
        /\ pos \in 1 .. Len(seq)
        /\ Prefix(Append(G[root].path, NodeByte), seq, pos + 1)
        /\ Following # Nul =>
              /\ pos + 1 <= Len(seq)
              /\ 0 < seq[pos + 1] /\ seq[pos + 1] < 256
        /\ Following = Nul =>
              pos = Len(seq) /\ Append(G[root].path, NodeByte) = seq
    BY <1>1, MatchAt
  <1>3. NodeRight(G, root) /\ keyval[root] # 0 /\ root # NoNode
    BY <1>1, <1>2, LeadsFilled, RightParts, NodeFacts DEF Filled, NoNode
  <1>4. FilledKeys = keyval /\ Key(G, root) = Append(G[root].path, NodeByte) /\ Filled(root)
    BY <1>1, <1>3, FilledAgain
  <1>5. /\ seq' = seq /\ fun' = fun /\ reply' = reply /\ pos' = pos + 1 /\ root' = next[root]
        /\ UNCHANGED tree
    BY <1>4 DEF MatchOn, call, tree
  <1>6. /\ G[next[root]].path = Key(G, root)
        /\ G[next[root]].above = 0 /\ G[next[root]].below = 256
    BY <1>1, <1>3 DEF NodeRight
  <1>7. next[root] \in Nodes
    BY <1>1, <1>2, ChildIsNode
  <1>8. ASSUME Following = Nul PROVE keyval[next[root]] = Timeout
    <2>1. Key(G, root) = seq /\ seq \in Seqs /\ InOrder(seq) /\ Leads(G)
      BY <1>2, <1>4, <1>8, RightParts DEF Asked
    <2>2. ~Begins(seq, seq)
      <3>1. Len(seq) \in Nat
        BY <1>2, AtByte
      <3> QED BY <3>1 DEF Begins
    <2>3. \E t \in Seqs : Lookup(t) # NoFun /\ Begins(seq, t)
      BY <1>1, <1>2, <2>1, <2>2 DEF Leads
    <2>4. Lookup(seq) # NoFun
      BY <2>1, <2>3 DEF InOrder
    <2>5. FunOf(root) # NoFun
      BY <1>2, <1>4, <2>1, <2>4, ContentIs
    <2> QED BY <1>1, <1>3, <2>5 DEF FunOf, Waits
  <1>9. Nodes' = Nodes /\ keyval' = keyval
    BY <1>5 DEF tree, Nodes, Size
  <1>10. pos + 1 \in 1 .. Len(seq) + 1
    <2>1. Len(seq) \in Nat
      BY <1>2, AtByte
    <2> QED BY <1>2, <2>1
  <1>11. pos + 1 = Len(seq) + 1 => keyval[next[root]] = Timeout
    <2>1. CASE Following = Nul
      BY <1>8, <2>1
    <2>2. CASE Following # Nul
      <3>1. Len(seq) \in Nat
        BY <1>2, AtByte
      <3> QED BY <1>2, <2>2, <3>1
    <2> QED BY <2>1, <2>2
  <1>12. pos + 1 <= Len(seq) => 0 < seq[pos + 1] /\ seq[pos + 1] < 256
    <2>1. Len(seq) \in Nat
      BY <1>2, AtByte
    <2> QED BY <1>2, <2>1
  <1>13. WalkAt(G)'
    BY <1>2, <1>4, <1>5, <1>6, <1>7, <1>9, <1>10, <1>11, <1>12 DEF WalkAt, Prefix
  <1> QED BY <1>2, <1>5, <1>13, MoveRight

(* The program stops: a timeout node has its function already, which is    *)
(* that of the sequence.                                                   *)
LEMMA TimeoutEndRight ==
    ASSUME NEW G, Right(G), TimeoutEnd
    PROVE  /\ Right(G)' /\ reply' = "fatal" /\ Walking
           /\ UNCHANGED <<tree, seq, fun>> /\ Lookup(seq) # NoFun
  <1>1. Walking /\ keyval[root] = Timeout /\ Byte = Nul
    BY DEF TimeoutEnd, AtTimeout
  <1>2. Types /\ Shape(G) /\ WalkAt(G) /\ root \in Nodes /\ NodeRight(G, root) /\ NodeOK(root)
    BY <1>1, RightParts
  <1>3. kfun[root] # NoFun
    BY <1>1, <1>2 DEF NodeOK
  <1>4. reply' = "fatal" /\ UNCHANGED <<tree, seq, fun>>
    BY <1>3 DEF TimeoutEnd, Return, tree, call
  <1>5. root # 1
    <2>1. Size >= 1
      BY <1>2, NodeFacts DEF Nodes
    <2> QED BY <1>1, <1>2, <2>1 DEF Shape
  <1>6. PICK m \in Nodes : Child(m, root)
    BY <1>2, <1>5 DEF NodeRight
  <1>7. NodeRight(G, m) /\ NodeOK(m) /\ root # NoNode /\ m # NoNode
    BY <1>2, RightParts, NodeFacts DEF NoNode
  <1>8. next[m] = root
    <2>1. hi[m] # root
      BY <1>1, <1>7 DEF NodeRight
    <2>2. ~(lo[m] = root /\ keyval[m] # Timeout)
      BY <1>1, <1>7 DEF NodeOK
    <2> QED BY <1>6, <2>1, <2>2 DEF Child
  <1>9. Filled(m) /\ FunOf(m) = kfun[root]
    BY <1>1, <1>2, <1>7, <1>8, LeadsFilled DEF FunOf, Waits
  <1>10. Key(G, m) = G[root].path
    BY <1>7, <1>8 DEF NodeRight
  <1>11. Key(G, m) = seq
    <2>1. pos = Len(seq) + 1 /\ Len(seq) \in Nat /\ seq \in Seq(Bytes)
      BY <1>1, AtByte
    <2>2. Prefix(Key(G, m), seq, Len(seq) + 1) /\ Key(G, m) \in Seq(Bytes)
      BY <1>2, <1>10, <2>1, RightParts DEF WalkAt, Place
    <2>3. (Len(seq) + 1) - 1 = Len(seq)
      BY <2>1
    <2>4. Len(Key(G, m)) = Len(seq) /\ \A j \in 1 .. Len(seq) : Key(G, m)[j] = seq[j]
      BY <2>2, <2>3 DEF Prefix
    <2> QED BY <2>1, <2>2, <2>4, SeqEqual
  <1>12. Lookup(seq) # NoFun
    <2>1. seq \in Seqs
      BY RightParts DEF Asked
    <2> QED BY <1>2, <1>3, <1>9, <1>11, <2>1, ContentIs
  <1>13. Right(G)'
    BY <1>4, <1>12, EndRight
  <1> QED BY <1>1, <1>4, <1>12, <1>13

LEMMA MatchDefinedRight ==
    ASSUME NEW G, Right(G), MatchDefined
    PROVE  /\ Right(G)' /\ Walking /\ UNCHANGED <<tree, seq, fun>>
           /\ Lookup(seq) # NoFun /\ reply' = IF Lookup(seq) = fun THEN "yes" ELSE "no"
  <1>1. AtMatch /\ kfun[root] # NoFun /\ Following = Nul
    BY DEF MatchDefined
  <1>2. /\ Walking /\ root \in Nodes /\ Types /\ Shape(G)
        /\ Append(G[root].path, NodeByte) = seq
    BY <1>1, MatchAt
  <1>3. NodeRight(G, root) /\ root # NoNode
    BY <1>2, RightParts, NodeFacts DEF NoNode
  <1>4. keyval[root] # 0 /\ next[root] = NoNode
    BY <1>1, <1>3 DEF NodeRight, Empty
  <1>5. FilledKeys = keyval /\ Key(G, root) = seq /\ Filled(root)
    BY <1>1, <1>2, <1>4, FilledAgain
  <1>6. FunOf(root) = kfun[root]
    BY <1>3, <1>4 DEF FunOf, Waits
  <1>7. seq \in Seqs
    BY RightParts DEF Asked
  <1>8. Lookup(seq) = kfun[root]
    BY <1>2, <1>5, <1>6, <1>7, ContentIs
  <1>9. /\ UNCHANGED <<tree, seq, fun>>
        /\ reply' = IF kfun[root] = fun THEN "yes" ELSE "no"
    BY <1>5 DEF MatchDefined, Return, tree, call
  <1>10. Right(G)'
    BY <1>1, <1>8, <1>9, EndRight
  <1> QED BY <1>1, <1>2, <1>8, <1>9, <1>10

LEMMA MissingRight ==
    ASSUME NEW G, Right(G), Missing
    PROVE  Right(G)' /\ UNCHANGED <<tree, seq, fun>> /\ reply' = "no" /\ seq = <<>> /\ reply = "none"
  <1>1. UNCHANGED <<tree, seq, fun>> /\ reply' = "no" /\ seq = <<>> /\ reply = "none" /\ ~Walking
    BY DEF Missing, NoKey, call, Walking
  <1> QED BY <1>1, EndRight

(* The sequence gets its function. *)
LEMMA MatchClaimRight ==
    ASSUME NEW G, Right(G), MatchClaim
    PROVE  /\ Right(G)' /\ Walking /\ reply' = "yes" /\ seq' = seq /\ fun' = fun
           /\ Lookup(seq) = NoFun
           /\ \A s \in Seqs : Lookup(s)' = IF s = seq THEN fun ELSE Lookup(s)
  <1>0. PICK r : r = root
    OBVIOUS
  <1>1. AtMatch /\ kfun[r] = NoFun /\ next[r] = NoNode /\ Following = Nul
    BY <1>0 DEF MatchClaim
  <1>2. /\ Walking /\ r \in Nodes /\ Types /\ Shape(G)
        /\ NodeByte \in Bytes /\ NodeByte # 0 /\ NodeByte # Timeout
        /\ keyval[r] # Timeout
        /\ keyval[r] # 0 => NodeByte = keyval[r] /\ Filled(r)
        /\ G[r].above < NodeByte /\ NodeByte < G[r].below
        /\ Append(G[r].path, NodeByte) = seq
    BY <1>0, <1>1, MatchAt
  <1>3. /\ keyval' = [keyval EXCEPT ![r] = NodeByte] /\ kfun' = [kfun EXCEPT ![r] = fun]
        /\ next' = next /\ hi' = hi /\ lo' = lo
    BY <1>0 DEF MatchClaim, FilledKeys
  <1>31. reply' = "yes" /\ seq' = seq /\ fun' = fun
    BY DEF MatchClaim, Return, call
  <1>4. seq \in Seqs /\ fun \in Funs /\ fun \in Nat /\ fun # NoFun
    <2>1. reply = "none"
      BY <1>2 DEF Walking
    <2>2. seq \in Seqs /\ fun \in Funs
      BY <2>1, RightParts DEF Asked
    <2> QED BY <2>2, FunsAssumption
  <1>41. PICK q : q = seq
    OBVIOUS
  <1>5. r \in 1 .. Size /\ Nodes = 1 .. Size /\ Size \in Nat
    BY <1>2, StoredAre
  <1>6. /\ keyval' \in Seq(Vals) /\ Len(keyval') = Size /\ keyval'[r] = NodeByte
        /\ \A n \in Nodes : n # r => keyval'[n] = keyval[n]
    <2>1. keyval \in Seq(Vals) /\ Len(keyval) = Size /\ NodeByte \in Vals
      BY <1>2, StoredAre DEF Bytes, Vals
    <2> QED BY <1>3, <1>5, <2>1, ChangedAt
  <1>7. /\ kfun' \in Seq(Nat) /\ Len(kfun') = Size /\ kfun'[r] = fun
        /\ \A n \in Nodes : n # r => kfun'[n] = kfun[n]
    <2>1. kfun \in Seq(Nat) /\ Len(kfun) = Size
      BY <1>2, StoredAre
    <2> QED BY <1>3, <1>4, <1>5, <2>1, ChangedAt
  <1>8. Size' = Size /\ Nodes' = Nodes
    BY <1>6 DEF Size, Nodes
  <1>9. Stored'
    BY <1>2, <1>3, <1>6, <1>7, <1>8, StoredAre DEF Stored
  <1>10. Kept(G, G, r)
    <2>1. Size <= Size'
      BY <1>5, <1>8
    <2>2. keyval'[r] = keyval[r] \/ (keyval[r] = 0 /\ keyval'[r] \in Bytes)
      BY <1>2, <1>6
    <2> QED BY <1>2, <1>3, <1>5, <1>6, <1>7, <1>8, <2>1, <2>2 DEF Kept, Shape
  <1>11. NodeRight(G, r) /\ NodeOK(r) /\ G[r] \in Place /\ r # NoNode
    BY <1>2, RightParts, NodeFacts DEF NoNode
  <1>12. keyval'[r] # Timeout /\ keyval'[r] # 0 /\ keyval'[r] \in 0 .. 255
    BY <1>2, <1>6 DEF Bytes
  <1>13. \A n \in Nodes : keyval'[n] = Timeout <=> keyval[n] = Timeout
    BY <1>2, <1>10, KeptTimeouts
  <1>14. /\ hi[r] # NoNode => hi[r] \in Nodes
         /\ lo[r] # NoNode => lo[r] \in Nodes
    BY <1>2, ChildIsNode
  <1>15. NodeOK(r)'
    <2>1. /\ hi'[r] \in {NoNode} \cup (r + 1 .. Size') /\ lo'[r] \in {NoNode} \cup (r + 1 .. Size')
          /\ next'[r] \in {NoNode} \cup (r + 1 .. Size')
      BY <1>2, <1>3, <1>8, <1>11 DEF NodeOK
    <2>2. ASSUME NEW c \in {hi'[r], lo'[r]} \ {NoNode} PROVE keyval'[c] # Timeout
      <3>1. c \in {hi[r], lo[r]} \ {NoNode} /\ c \in Nodes
        BY <1>3, <1>14, <2>2
      <3>2. keyval[c] # Timeout
        BY <1>2, <1>11, <3>1 DEF NodeOK
      <3> QED BY <1>13, <3>1, <3>2
    <2> QED BY <1>4, <1>7, <1>12, <2>1, <2>2 DEF NodeOK
  <1>16. Types'
    BY <1>2, <1>9, <1>10, <1>15, <1>8, <1>31, TypesKept
  <1>17. NodeRight(G, r)'
    <2>1. G[r].above < keyval'[r] /\ keyval'[r] < G[r].below /\ ~Empty(r)'
      BY <1>2, <1>6, <1>12 DEF Empty
    <2>2. hi[r] # NoNode \/ lo[r] # NoNode => keyval'[r] = keyval[r]
      BY <1>2, <1>6, <1>11 DEF NodeRight, Empty
    <2>3. ASSUME hi'[r] # NoNode
          PROVE  /\ keyval'[hi'[r]] # Timeout
                 /\ G[hi'[r]] = [path  |-> G[r].path,
                                above |-> IF keyval'[r] = Timeout THEN G[r].above ELSE keyval'[r],
                                below |-> G[r].below]
      <3>1. hi'[r] = hi[r] /\ hi[r] # NoNode /\ keyval'[r] = keyval[r]
        BY <1>3, <2>2, <2>3
      <3>2. keyval'[hi[r]] = Timeout <=> keyval[hi[r]] = Timeout
        BY <1>13, <1>14, <3>1
      <3> QED BY <1>11, <3>1, <3>2 DEF NodeRight
    <2>4. ASSUME lo'[r] # NoNode
          PROVE  G[lo'[r]] = [path |-> G[r].path, above |-> G[r].above, below |-> keyval'[r]]
      <3>1. lo'[r] = lo[r] /\ lo[r] # NoNode /\ keyval'[r] = keyval[r]
        BY <1>3, <2>2, <2>4
      <3> QED BY <1>2, <1>11, <3>1 DEF NodeRight
    <2>5. next'[r] = NoNode
      BY <1>1, <1>3
    <2>6. ASSUME r # 1 PROVE \E m \in Nodes' : m < r /\ Child(m, r)'
      <3>1. PICK m \in Nodes : m < r /\ Child(m, r)
        BY <1>11, <2>6 DEF NodeRight
      <3>2. m # r
        BY <1>2, <3>1, NodeFacts
      <3>3. m \in Nodes' /\ Child(m, r)'
        BY <1>8, <1>10, <3>1, <3>2 DEF Kept, Child
      <3> QED BY <3>1, <3>3
    <2> QED BY <2>1, <2>3, <2>4, <2>5, <2>6 DEF NodeRight
  <1>18. \A n \in Nodes : Child(r, n) => Child(r, n)'
    BY <1>3, <1>12 DEF Child
  <1>19. Shape(G)'
    BY <1>2, <1>8, <1>10, <1>17, <1>18, ShapeKept
  <1>20. Filled(r)' /\ Key(G, r)' = seq /\ FunOf(r)' = fun
    BY <1>1, <1>2, <1>3, <1>6, <1>7, <1>11, <1>12 DEF Filled, Key, FunOf, Waits
  <1>21. ASSUME NEW n \in Nodes, n # r
         PROVE  /\ FunOf(n)' = FunOf(n) /\ keyval'[n] = keyval[n]
                /\ Key(G, n)' = Key(G, n) /\ (Filled(n)' <=> Filled(n))
    <2>1. FunOf(n)' = FunOf(n)
      BY <1>2, <1>10, <1>21, FunKept
    <2> QED BY <1>6, <1>21, <2>1 DEF Key, Filled
  <1>22. \A s \in Seqs :
          /\ \A n \in Nodes : Filled(n) /\ Key(G, n) = s => Lookup(s) = FunOf(n)
          /\ Lookup(s) # NoFun => \E n \in Nodes :
                Filled(n) /\ Key(G, n) = s /\ FunOf(n) = Lookup(s)
    BY <1>2, ContentIsRight DEF ContentRight
  <1>23. \A s \in Seqs :
          /\ \A n \in Nodes : Filled(n)' /\ Key(G, n)' = s => Found(s)' = n /\ Lookup(s)' = FunOf(n)'
          /\ Lookup(s)' # NoFun => \E n \in Nodes :
                Filled(n)' /\ Key(G, n)' = s /\ FunOf(n)' = Lookup(s)'
    <2>1. \A s \in Seqs :
          /\ \A n \in Nodes' : Filled(n)' /\ Key(G, n)' = s => Found(s)' = n /\ Lookup(s)' = FunOf(n)'
          /\ Lookup(s)' # NoFun => \E n \in Nodes' :
                Filled(n)' /\ Key(G, n)' = s /\ FunOf(n)' = Lookup(s)'
      BY <1>16, <1>19, ContentRightNext DEF ContentRight
    <2> QED BY <1>8, <2>1
  <1>24. Lookup(seq) = NoFun
    <2> SUFFICES ASSUME Lookup(seq) # NoFun PROVE FALSE
      OBVIOUS
    <2>1. PICK n \in Nodes : Filled(n) /\ Key(G, n) = seq /\ FunOf(n) = Lookup(seq)
      BY <1>4, <1>22
    <2>2. CASE n = r
      BY <1>1, <1>11, <2>1, <2>2 DEF FunOf, Waits
    <2>3. CASE n # r
      <3>1. Filled(n)' /\ Key(G, n)' = seq
        BY <1>21, <2>1, <2>3
      <3>2. Found(q)' = n
        BY <1>4, <1>41, <1>23, <3>1
      <3>3. Found(q)' = r
        BY <1>2, <1>4, <1>41, <1>20, <1>23
      <3> QED BY <2>3, <3>2, <3>3
    <2> QED BY <2>2, <2>3
  <1>25. ASSUME NEW s \in Seqs PROVE Lookup(s)' = IF s = seq THEN fun ELSE Lookup(s)
    <2>1. CASE s = seq
      BY <1>2, <1>20, <1>23, <2>1
    <2>2. CASE s # seq
      <3>1. ASSUME Lookup(s) # NoFun PROVE Lookup(s)' = Lookup(s)
        <4>1. PICK n \in Nodes : Filled(n) /\ Key(G, n) = s /\ FunOf(n) = Lookup(s)
          BY <1>22, <3>1
        <4>2. n # r
          BY <1>2, <2>2, <4>1 DEF Key, Filled
        <4>3. Filled(n)' /\ Key(G, n)' = s /\ FunOf(n)' = Lookup(s)
          BY <1>21, <4>1, <4>2
        <4> QED BY <1>23, <4>3
      <3>2. ASSUME Lookup(s)' # NoFun PROVE Lookup(s)' = Lookup(s)
        <4>1. PICK n \in Nodes : Filled(n)' /\ Key(G, n)' = s /\ FunOf(n)' = Lookup(s)'
          BY <1>23, <3>2
        <4>2. n # r
          BY <1>20, <2>2, <4>1
        <4>3. Filled(n) /\ Key(G, n) = s /\ FunOf(n) = Lookup(s)'
          BY <1>21, <4>1, <4>2
        <4> QED BY <1>22, <4>3
      <3> QED BY <2>2, <3>1, <3>2
    <2> QED BY <2>1, <2>2
  <1>26. KeysAsked(G)'
    <2> SUFFICES ASSUME NEW n \in Nodes, Filled(n)', FunOf(n)' # NoFun PROVE Key(G, n)' \in Seqs
      BY <1>8 DEF KeysAsked
    <2>1. CASE n = r
      BY <1>4, <1>20, <2>1
    <2>2. CASE n # r
      <3>1. KeysAsked(G)
        BY RightParts
      <3> QED BY <1>21, <2>2, <3>1 DEF KeysAsked
    <2> QED BY <2>1, <2>2
  <1>27. Leads(G)'
    <2> SUFFICES ASSUME NEW n \in Nodes, next[n] # NoNode
                 PROVE  \E t \in Seqs : Lookup(t)' # NoFun /\ Begins(Key(G, n)', t)
      BY <1>3, <1>8 DEF Leads, Begins
    <2>1. Leads(G)
      BY RightParts
    <2>2. n # r /\ Key(G, n)' = Key(G, n)
      BY <1>1, <1>21
    <2>3. \/ \E t \in Seqs : Lookup(t) # NoFun /\ Begins(Key(G, n), t)
          \/ Begins(Key(G, n), seq)
      BY <2>1 DEF Leads
    <2>4. Lookup(q)' # NoFun
      BY <1>4, <1>41, <1>25
    <2>5. ASSUME NEW t \in Seqs, Lookup(t) # NoFun PROVE Lookup(t)' # NoFun
      <3>1. Lookup(t)' = IF t = seq THEN fun ELSE Lookup(t)
        BY <1>25
      <3> QED BY <1>4, <2>5, <3>1
    <2> QED BY <1>4, <1>41, <2>2, <2>3, <2>4, <2>5
  <1>28. Asked' /\ ~Walking'
    BY <1>4, <1>31 DEF Asked, Walking
  <1>29. Right(G)'
    BY <1>16, <1>19, <1>26, <1>27, <1>28 DEF Right
  <1> QED BY <1>2, <1>24, <1>25, <1>29, <1>31

-----------------------------------------------------------------------------
(* A call, and the start. *)

Top == [path |-> <<>>, above |-> 0, below |-> 256]

LEMMA TopIsPlace == Top \in Place
  BY EmptySeq DEF Top, Place

LEMMA WalkStarts ==
    ASSUME NEW s \in Seq(Bytes), s # <<>>
    PROVE  /\ Len(s) \in Nat /\ 1 \in 1 .. Len(s) + 1 /\ ~(1 = Len(s) + 1)
           /\ Prefix(Top.path, s, 1) /\ Top.above < s[1] /\ s[1] < Top.below
  <1>1. Len(s) \in Nat /\ 1 \in 1 .. Len(s)
    BY EmptySeq, LenProperties
  <1>2. s[1] \in Bytes
    BY <1>1, ElementOfSeq
  <1>3. 0 < s[1] /\ s[1] < 256
    BY <1>2, Smaller
  <1>4. Prefix(<<>>, s, 1)
    BY EmptySeq DEF Prefix
  <1> QED BY <1>1, <1>3, <1>4 DEF Top

LEMMA CallRight ==
    ASSUME NEW G, Right(G), NEW s \in Seqs, NEW f \in Funs, InOrder(s), AppendKeySequence(s, f)
    PROVE  KeyInv' /\ \A t \in Seqs : Lookup(t)' = Lookup(t)
  <1>1. /\ ~Walking /\ reply' = "none"
        /\ seq' = s /\ fun' = f /\ pos' = 1 /\ root' = 1
    BY DEF AppendKeySequence, Walking
  <1>2. Types /\ Shape(G) /\ KeysAsked(G) /\ Leads(G)
    BY RightParts
  <1>3. Asked'
    <2>1. f \in Nat
      BY FunsAssumption
    <2> QED BY <1>1, <2>1 DEF Asked
  <1>4. s \in Seq(Bytes) /\ (Walking' => s # <<>>)
    BY <1>1, SeqsAre DEF Walking, NoKey
  <1>5. CASE Size = 0 /\ s # <<>>
    <2>1. /\ keyval' = <<0>> /\ kfun' = <<NoFun>>
          /\ next' = <<NoNode>> /\ hi' = <<NoNode>> /\ lo' = <<NoNode>>
      BY <1>5 DEF AppendKeySequence, NoKey
    <2>2. Size' = 1 /\ Nodes' = {1}
      BY <2>1 DEF Size, Nodes
    <2>3. keyval'[1] = 0 /\ kfun'[1] = NoFun /\ next'[1] = NoNode /\ hi'[1] = NoNode /\ lo'[1] = NoNode
      BY <2>1
    <2>4. PICK H : H = [n \in {1} |-> Top]
      OBVIOUS
    <2>5. Types'
      <3>1. /\ keyval' \in Seq(0 .. 256) /\ kfun' \in Seq(Nat)
            /\ next' \in Seq(Nat) /\ hi' \in Seq(Nat) /\ lo' \in Seq(Nat)
        BY <2>1 DEF NoFun, NoNode
      <3>2. Len(kfun') = 1 /\ Len(next') = 1 /\ Len(hi') = 1 /\ Len(lo') = 1
        BY <2>1
      <3>3. \A g \in {kfun', next', hi', lo'} : Len(g) = Size'
        BY <2>2, <3>2
      <3>4. NodeOK(1)'
        BY <2>3 DEF NodeOK, Timeout
      <3>5. TypeOK'
        BY <1>1, <2>2, <3>3, <3>4 DEF TypeOK, NodeOK
      <3> QED BY <3>1, <3>5 DEF Types, Vals
    <2>6. Shape(H)'
      <3>1. NodeRight(H, 1)'
        BY <2>3 DEF NodeRight, Filled
      <3>2. H[1] = Top /\ H \in [Nodes' -> Place]
        BY <2>2, <2>4, TopIsPlace
      <3> QED BY <2>2, <2>3, <3>1, <3>2 DEF Shape, Top, Timeout
    <2>7. \A n \in Nodes' : ~Filled(n)' /\ next'[n] = NoNode
      BY <2>2, <2>3 DEF Filled
    <2>8. \A t \in Seqs : Lookup(t)' = NoFun
      BY <2>5, <2>6, <2>7, ContentRightNext DEF ContentRight
    <2>9. \A t \in Seqs : Lookup(t) = NoFun
      BY <1>5 DEF Lookup, Found, FunOf
    <2>10. KeysAsked(H)' /\ Leads(H)'
      BY <2>7 DEF KeysAsked, Leads
    <2>11. WalkAt(H)'
      <3>1. H[1] = Top
        BY <2>4
      <3>2. /\ 1 \in 1 .. Len(s) + 1 /\ ~(1 = Len(s) + 1)
            /\ Prefix(H[1].path, s, 1) /\ H[1].above < s[1] /\ s[1] < H[1].below
        BY <1>4, <1>5, <3>1, WalkStarts
      <3> QED BY <1>1, <2>2, <3>2 DEF WalkAt, Prefix
    <2>12. InOrder(seq)'
      BY <2>8 DEF InOrder
    <2>13. Right(H)'
      BY <1>3, <2>5, <2>6, <2>10, <2>11, <2>12 DEF Right
    <2> QED BY <2>8, <2>9, <2>13 DEF KeyInv
  <1>6. CASE ~(Size = 0 /\ s # <<>>)
    <2>1. UNCHANGED tree
      BY <1>6 DEF AppendKeySequence, NoKey
    <2>2. /\ Types' /\ Shape(G)' /\ KeysAsked(G)'
          /\ \A t : Lookup(t)' = Lookup(t)
          /\ \A n \in Nodes' : n \in Nodes /\ next'[n] = next[n] /\ Key(G, n)' = Key(G, n)
      BY <1>1, <2>1, StillThere
    <2>3. Leads(G)'
      <3> SUFFICES ASSUME NEW n \in Nodes', next'[n] # NoNode
                   PROVE  \E t \in Seqs : Lookup(t)' # NoFun /\ Begins(Key(G, n)', t)
        BY DEF Leads, Begins
      <3>1. n \in Nodes /\ next[n] # NoNode /\ Key(G, n)' = Key(G, n)
        BY <2>2
      <3>2. \E t \in Seqs : Lookup(t) # NoFun /\ Begins(Key(G, n), t)
        BY <1>1, <1>2, <3>1 DEF Leads
      <3> QED BY <2>2, <3>1, <3>2
    <2>4. ASSUME Walking' PROVE WalkAt(G)'
      <3>1. s # <<>> /\ Size >= 1
        BY <1>2, <1>4, <1>6, <2>4, NodeFacts
      <3>2. G[1] = Top /\ 1 \in Nodes' /\ keyval'[1] # Timeout
        BY <1>2, <2>1, <3>1, NodeFacts DEF Shape, Top, Nodes, Size, tree
      <3>3. /\ 1 \in 1 .. Len(s) + 1 /\ ~(1 = Len(s) + 1)
            /\ Prefix(G[1].path, s, 1) /\ G[1].above < s[1] /\ s[1] < G[1].below
        BY <1>4, <3>1, <3>2, WalkStarts
      <3> QED BY <1>1, <3>2, <3>3 DEF WalkAt, Prefix
    <2>5. InOrder(seq)'
      <3>1. \A t \in Seqs : Lookup(t)' # NoFun /\ Begins(s, t) => Lookup(s)' # NoFun
        BY <2>2 DEF InOrder
      <3> QED BY <1>1, <2>2, <3>1 DEF InOrder, Begins, Lookup
    <2>6. Right(G)'
      BY <1>3, <2>2, <2>3, <2>4, <2>5 DEF Right
    <2> QED BY <2>2, <2>6 DEF KeyInv
  <1> QED BY <1>5, <1>6

LEMMA InitRight == Init => KeyInv
  <1> SUFFICES ASSUME Init PROVE KeyInv
    OBVIOUS
  <1>1. /\ keyval = <<>> /\ kfun = <<>> /\ next = <<>> /\ hi = <<>> /\ lo = <<>>
        /\ seq = <<>> /\ fun = NoFun /\ reply = "no"
    BY DEF Init
  <1>2. Size = 0 /\ Nodes = {}
    BY <1>1, EmptySeq DEF Size, Nodes
  <1>3. PICK G : G = [n \in {} |-> Top]
    OBVIOUS
  <1>4. Types
    <2>1. keyval \in Seq(Vals) /\ kfun \in Seq(Nat) /\ next \in Seq(Nat) /\ hi \in Seq(Nat) /\ lo \in Seq(Nat)
      BY <1>1, EmptySeq
    <2>2. \A g \in {kfun, next, hi, lo} : Len(g) = Size
      BY <1>1, <1>2, EmptySeq
    <2>3. TypeOK
      BY <1>1, <1>2, <2>2 DEF TypeOK
    <2> QED BY <2>1, <2>3 DEF Types
  <1>5. Shape(G)
    BY <1>2, <1>3 DEF Shape
  <1>6. KeysAsked(G) /\ Leads(G)
    BY <1>2 DEF KeysAsked, Leads
  <1>7. Asked /\ ~Walking
    BY <1>1, SeqsAssumption DEF Asked, Walking, NoFun
  <1> QED BY <1>4, <1>5, <1>6, <1>7 DEF KeyInv, Right

-----------------------------------------------------------------------------
(* Every step. *)

(* What each step does to the dictionary. *)
StepDict ==
    \/ \E s \in Seqs, f \in Funs :
          /\ reply \in {"yes", "no"} /\ reply' = "none" /\ seq' = s /\ fun' = f
          /\ \A t \in Seqs : Lookup(t)' = Lookup(t)
    \/ /\ UNCHANGED <<seq, fun>> /\ reply = "none" /\ seq # <<>> /\ seq \in Seqs
       /\ Lookup(seq) = NoFun /\ reply' = "yes"
       /\ \A t \in Seqs : Lookup(t)' = IF t = seq THEN fun ELSE Lookup(t)
    \/ /\ UNCHANGED <<seq, fun>> /\ reply = "none" /\ seq # <<>> /\ seq \in Seqs
       /\ Lookup(seq) # NoFun
       /\ reply' \in {"fatal", IF Lookup(seq) = fun THEN "yes" ELSE "no"}
       /\ \A t \in Seqs : Lookup(t)' = Lookup(t)
    \/ /\ UNCHANGED <<seq, fun>> /\ reply = "none" /\ seq = <<>> /\ reply' = "no"
       /\ \A t \in Seqs : Lookup(t)' = Lookup(t)
    \/ /\ UNCHANGED <<seq, fun, reply>>
       /\ \A t \in Seqs : Lookup(t)' = Lookup(t)

LEMMA StepKeeps == KeyInv /\ [Next]_vars => KeyInv' /\ StepDict
  <1> SUFFICES ASSUME KeyInv, [Next]_vars PROVE KeyInv' /\ StepDict
    OBVIOUS
  <1>1. PICK G : Right(G)
    BY DEF KeyInv
  <1>2. Types /\ Shape(G) /\ seq \in Seqs /\ reply \in {"none", "yes", "no", "fatal"}
    BY <1>1, RightParts DEF Asked, Types, TypeOK
  <1>3. Walking => reply = "none" /\ seq # <<>>
    BY DEF Walking, NoKey
  <1>4. ASSUME NEW H, Right(H)', Types', Shape(H)', SameContent(G, H), UNCHANGED <<seq, fun, reply>>
        PROVE  KeyInv' /\ StepDict
    <2>1. \A t \in Seqs : Lookup(t)' = Lookup(t)
      BY <1>2, <1>4, LookupStays
    <2> QED BY <1>4, <2>1 DEF KeyInv, StepDict
  <1>5. ASSUME UNCHANGED tree PROVE \A t \in Seqs : Lookup(t)' = Lookup(t)
    BY <1>5 DEF tree, Lookup, Found, FunOf, Waits, WalkFrom, Size
  <1>6. CASE Calls
    <2>1. PICK s \in Seqs, f \in Funs : InOrder(s) /\ AppendKeySequence(s, f)
      BY <1>6 DEF Calls
    <2>2. KeyInv' /\ \A t \in Seqs : Lookup(t)' = Lookup(t)
      BY <1>1, <2>1, CallRight
    <2>3. reply \in {"yes", "no"} /\ reply' = "none" /\ seq' = s /\ fun' = f
      BY <2>1 DEF AppendKeySequence
    <2> QED BY <2>2, <2>3 DEF StepDict
  <1>7. CASE Missing
    <2>1. Right(G)' /\ UNCHANGED <<tree, seq, fun>> /\ reply' = "no" /\ seq = <<>> /\ reply = "none"
      BY <1>1, <1>7, MissingRight
    <2> QED BY <1>5, <2>1 DEF KeyInv, StepDict
  <1>8. CASE TimeoutOn
    <2>1. UNCHANGED <<seq, fun, reply>>
      BY <1>8 DEF TimeoutOn, call
    <2> QED BY <1>1, <1>4, <1>8, <2>1, TimeoutOnRight
  <1>9. CASE TimeoutGrow
    <2>1. UNCHANGED <<seq, fun, reply>>
      BY <1>9 DEF TimeoutGrow, call
    <2> QED BY <1>1, <1>4, <1>9, <2>1, TimeoutGrowRight
  <1>10. CASE TimeoutEnd
    <2>1. /\ Right(G)' /\ reply' = "fatal" /\ Walking
          /\ UNCHANGED <<tree, seq, fun>> /\ Lookup(seq) # NoFun
      BY <1>1, <1>10, TimeoutEndRight
    <2> QED BY <1>2, <1>3, <1>5, <2>1 DEF KeyInv, StepDict
  <1>11. CASE MatchDefined
    <2>1. /\ Right(G)' /\ Walking /\ UNCHANGED <<tree, seq, fun>>
          /\ Lookup(seq) # NoFun /\ reply' = IF Lookup(seq) = fun THEN "yes" ELSE "no"
      BY <1>1, <1>11, MatchDefinedRight
    <2> QED BY <1>2, <1>3, <1>5, <2>1 DEF KeyInv, StepDict
  <1>12. CASE MatchSplit
    <2>1. UNCHANGED <<seq, fun, reply>>
      BY <1>12 DEF MatchSplit, call
    <2> QED BY <1>1, <1>4, <1>12, <2>1, MatchSplitRight
  <1>13. CASE MatchOn
    <2>1. UNCHANGED <<seq, fun, reply>>
      BY <1>13 DEF MatchOn, call
    <2> QED BY <1>1, <1>4, <1>13, <2>1, MatchOnRight
  <1>14. CASE MatchClaim
    <2>1. /\ Right(G)' /\ Walking /\ reply' = "yes" /\ seq' = seq /\ fun' = fun
          /\ Lookup(seq) = NoFun
          /\ \A s \in Seqs : Lookup(s)' = IF s = seq THEN fun ELSE Lookup(s)
      BY <1>1, <1>14, MatchClaimRight
    <2> QED BY <1>2, <1>3, <2>1 DEF KeyInv, StepDict
  <1>15. CASE MatchGrow
    <2>1. UNCHANGED <<seq, fun, reply>>
      BY <1>15 DEF MatchGrow, call
    <2> QED BY <1>1, <1>4, <1>15, <2>1, MatchGrowRight
  <1>16. CASE SearchOn
    <2>1. UNCHANGED <<seq, fun, reply>>
      BY <1>16 DEF SearchOn, call
    <2> QED BY <1>1, <1>4, <1>16, <2>1, SearchOnRight
  <1>17. CASE SearchGrow
    <2>1. UNCHANGED <<seq, fun, reply>>
      BY <1>17 DEF SearchGrow, call
    <2> QED BY <1>1, <1>4, <1>17, <2>1, SearchGrowRight
  <1>18. CASE UNCHANGED vars
    <2>1. UNCHANGED <<tree, seq, fun, reply>> /\ UNCHANGED <<pos, root>>
      BY <1>18 DEF vars, call
    <2>2. /\ Types' /\ Shape(G)' /\ SameContent(G, G) /\ KeysAsked(G)'
      BY <1>1, <1>2, <2>1, StillThere
    <2>3. Right(G)'
      <3>1. Asked' /\ (Walking' <=> Walking) /\ (InOrder(seq) => InOrder(seq)')
        <4>1. Asked
          BY <1>1, RightParts
        <4>2. Asked'
          BY <2>1, <4>1 DEF Asked
        <4>3. Walking' <=> Walking
          BY <2>1 DEF Walking, NoKey
        <4>4. \A s : Lookup(s)' = Lookup(s)
          BY <1>1, <1>2, <2>1, StillThere
        <4>5. InOrder(seq) => \A t \in Seqs : Lookup(t)' # NoFun /\ Begins(seq, t) => Lookup(seq) # NoFun
          BY <4>4 DEF InOrder
        <4>6. PICK q : q = seq
          OBVIOUS
        <4>7. Lookup(q)' = Lookup(seq) /\ seq' = q
          BY <2>1, <4>4, <4>6
        <4>8. InOrder(seq) => InOrder(seq)'
          BY <4>5, <4>6, <4>7 DEF InOrder, Begins, Lookup
        <4> QED BY <4>2, <4>3, <4>8
      <3>2. WalkAt(G) => WalkAt(G)'
        BY <2>1 DEF WalkAt, Nodes, Size, tree
      <3>3. Leads(G)'
        <4>1. \A s : Lookup(s)' = Lookup(s)
          BY <1>1, <1>2, <2>1, StillThere
        <4>2. \A n \in Nodes' : n \in Nodes /\ next'[n] = next[n] /\ Key(G, n)' = Key(G, n)
          BY <1>1, <1>2, <2>1, StillThere
        <4>3. Leads(G) /\ seq' = seq
          BY <1>1, <2>1, RightParts
        <4> SUFFICES ASSUME NEW n \in Nodes', next'[n] # NoNode
                     PROVE  \/ \E t \in Seqs : Lookup(t)' # NoFun /\ Begins(Key(G, n)', t)
                            \/ Walking' /\ Begins(Key(G, n)', seq)
          BY <4>3 DEF Leads, Begins
        <4> QED BY <3>1, <4>1, <4>2, <4>3 DEF Leads
      <3> QED BY <1>1, <2>2, <3>1, <3>2, <3>3 DEF Right
    <2> QED BY <1>4, <2>1, <2>2, <2>3
  <1> QED BY <1>6, <1>7, <1>8, <1>9, <1>10, <1>11, <1>12, <1>13, <1>14, <1>15, <1>16, <1>17, <1>18
          DEF Next, Walk

-----------------------------------------------------------------------------
(* The theorems. *)

LEMMA KeyInvHolds == Spec => []KeyInv
  <1>1. KeyInv /\ [Next]_vars => KeyInv'
    BY StepKeeps
  <1> QED BY InitRight, <1>1, PTL DEF Spec

(* The node a sequence is found at goes on if one that has a function      *)
(* begins with the sequence.                                               *)
LEMMA GoesOn ==
    ASSUME NEW G, Types, Shape(G), NEW s \in Seqs, NEW t \in Seqs,
           Lookup(s) # NoFun, Lookup(t) # NoFun, Begins(s, t)
    PROVE  Waits(Found(s))
  <1>1. PICK n : n = Found(s)
    OBVIOUS
  <1>2. n \in Nodes /\ Filled(n) /\ Key(G, n) = s /\ FunOf(n) # NoFun
    BY <1>1, ContentIs
  <1>3. Found(t) # NoNode
    BY DEF Lookup, FunOf
  <1>4. s \in Seq(Bytes) /\ t \in Seq(Bytes) /\ s # <<>>
    BY <1>2, SeqsAre, KeyIs DEF Shape
  <1>5. /\ Len(s) \in 1 .. Len(s) /\ Len(s) \in Nat /\ Len(t) \in Nat
        /\ Len(s) < Len(t) /\ \A i \in 1 .. Len(s) : s[i] = t[i]
    BY <1>4, EmptySeq, LenProperties DEF Begins
  <1>6. On(G, s, n, Len(s)) /\ s[Len(s)] = keyval[n]
    BY <1>2, <1>4, SpelltIs
  <1>7. On(G, t, n, Len(s)) /\ t[Len(s)] = keyval[n]
    <2>1. Len(s) \in 1 .. Len(t) /\ t[Len(s)] = s[Len(s)]
      BY <1>5
    <2>2. \A j \in 1 .. Len(s) - 1 : j \in 1 .. Len(s)
      BY <1>5
    <2>3. Prefix(G[n].path, t, Len(s))
      BY <1>5, <1>6, <2>2 DEF On, Prefix
    <2> QED BY <1>6, <2>1, <2>3 DEF On
  <1>8. next[n] # NoNode
    <2> SUFFICES ASSUME next[n] = NoNode PROVE FALSE
      OBVIOUS
    <2>1. Len(s) \in 1 .. Len(t) /\ Len(s) # Len(t) /\ Len(s) + 1 \in 1 .. Len(t)
      BY <1>5
    <2>2. WalkFrom(t)[n][Len(s)] = WalkFrom(t)[next[n]][Len(s) + 1]
      BY <1>2, <1>4, <1>7, <2>1, WalkOn
    <2>3. WalkFrom(t)[n][Len(s)] = NoNode
      BY <1>4, <2>1, <2>2, WalkEnds
    <2>4. WalkFrom(t)[1][1] = NoNode
      BY <1>4, <1>7, <2>3, WalkPasses
    <2> QED BY <1>3, <2>4 DEF Found
  <1>9. kfun[n] = NoFun
    BY <1>2, <1>8, LeadsFilled
  <1>10. Waits(n)
    BY <1>2, <1>8, <1>9 DEF FunOf, Waits
  <1> QED BY <1>1, <1>10

LEMMA InvWaits == KeyInv => WaitsWhereNeeded
  <1> SUFFICES ASSUME NEW G, Right(G), reply # "none", NEW s \in Seqs, Lookup(s) # NoFun
               PROVE  Waits(Found(s)) <=> \E t \in Seqs : Begins(s, t) /\ Lookup(t) # NoFun
    BY DEF KeyInv, WaitsWhereNeeded
  <1>1. Types /\ Shape(G) /\ Leads(G) /\ ~Walking
    BY RightParts DEF Walking
  <1>2. Found(s) \in Nodes /\ Key(G, Found(s)) = s
    BY <1>1, ContentIs
  <1>3. ASSUME Waits(Found(s)) PROVE \E t \in Seqs : Begins(s, t) /\ Lookup(t) # NoFun
    BY <1>1, <1>2, <1>3 DEF Leads, Waits
  <1>4. ASSUME NEW t \in Seqs, Begins(s, t), Lookup(t) # NoFun PROVE Waits(Found(s))
    BY <1>1, <1>4, GoesOn
  <1> QED BY <1>3, <1>4

LEMMA DictStarts == Init => Dict!DInit
  <1> SUFFICES ASSUME Init PROVE Dict!DInit
    OBVIOUS
  <1>1. keyval = <<>> /\ seq = <<>> /\ fun = NoFun /\ reply = "no"
    BY DEF Init
  <1>2. Size = 0
    BY <1>1, EmptySeq DEF Size
  <1>3. \A s \in Seqs : Lookup(s) = NoFun
    BY <1>2 DEF Lookup, Found, FunOf
  <1> QED BY <1>1, <1>3 DEF Dict!DInit

LEMMA DictSteps == StepDict => [Dict!DNext]_(Dict!dvars)
  <1> DEFINE d == [s \in Seqs |-> Lookup(s)]
             a == [seq |-> seq, fun |-> fun]
  <1> SUFFICES ASSUME StepDict PROVE Dict!DNext \/ UNCHANGED <<d, a, reply>>
    BY DEF Dict!dvars
  <1>1. ASSUME \A t \in Seqs : Lookup(t)' = Lookup(t) PROVE d' = d
    BY <1>1
  <1>2. ASSUME UNCHANGED <<seq, fun>> PROVE a' = a
    BY <1>2
  <1>3. a.seq = seq /\ a.fun = fun /\ \A s \in Seqs : d[s] = Lookup(s)
    OBVIOUS
  <1>4. CASE \E s \in Seqs, f \in Funs :
               /\ reply \in {"yes", "no"} /\ reply' = "none" /\ seq' = s /\ fun' = f
               /\ \A t \in Seqs : Lookup(t)' = Lookup(t)
    <2>1. PICK s \in Seqs, f \in Funs :
               /\ reply \in {"yes", "no"} /\ reply' = "none" /\ seq' = s /\ fun' = f
               /\ \A t \in Seqs : Lookup(t)' = Lookup(t)
      BY <1>4
    <2>2. d' = d /\ a' = [seq |-> s, fun |-> f]
      BY <1>1, <2>1
    <2>3. Dict!Ask(s, f)
      BY <2>1, <2>2 DEF Dict!Ask
    <2> QED BY <2>3 DEF Dict!DNext
  <1>5. CASE /\ UNCHANGED <<seq, fun>> /\ reply = "none" /\ seq # <<>> /\ seq \in Seqs
             /\ Lookup(seq) = NoFun /\ reply' = "yes"
             /\ \A t \in Seqs : Lookup(t)' = IF t = seq THEN fun ELSE Lookup(t)
    <2>1. a' = a
      BY <1>2, <1>5
    <2>2. d' = [d EXCEPT ![seq] = fun]
      BY <1>5
    <2>3. Dict!Accept
      BY <1>3, <1>5, <2>1, <2>2 DEF Dict!Accept
    <2> QED BY <2>3 DEF Dict!DNext
  <1>6. CASE /\ UNCHANGED <<seq, fun>> /\ reply = "none" /\ seq # <<>> /\ seq \in Seqs
             /\ Lookup(seq) # NoFun
             /\ reply' \in {"fatal", IF Lookup(seq) = fun THEN "yes" ELSE "no"}
             /\ \A t \in Seqs : Lookup(t)' = Lookup(t)
    <2>1. a' = a /\ d' = d
      BY <1>1, <1>2, <1>6
    <2>2. CASE reply' = "fatal"
      <3>1. Dict!GiveUp
        BY <1>3, <1>6, <2>1, <2>2 DEF Dict!GiveUp
      <3> QED BY <3>1 DEF Dict!DNext
    <2>3. CASE Lookup(seq) = fun /\ reply' = "yes"
      <3>1. d = [d EXCEPT ![seq] = fun]
        BY <1>6, <2>3
      <3>2. Dict!Accept
        BY <1>3, <1>6, <2>1, <2>3, <3>1 DEF Dict!Accept
      <3> QED BY <3>2 DEF Dict!DNext
    <2>4. CASE Lookup(seq) # fun /\ reply' = "no"
      <3>1. Dict!Refuse
        BY <1>3, <1>6, <2>1, <2>4 DEF Dict!Refuse
      <3> QED BY <3>1 DEF Dict!DNext
    <2> QED BY <1>6, <2>2, <2>3, <2>4
  <1>7. CASE /\ UNCHANGED <<seq, fun>> /\ reply = "none" /\ seq = <<>> /\ reply' = "no"
             /\ \A t \in Seqs : Lookup(t)' = Lookup(t)
    <2>1. a' = a /\ d' = d
      BY <1>1, <1>2, <1>7
    <2>2. Dict!Refuse
      BY <1>3, <1>7, <2>1 DEF Dict!Refuse
    <2> QED BY <2>2 DEF Dict!DNext
  <1>8. CASE /\ UNCHANGED <<seq, fun, reply>>
             /\ \A t \in Seqs : Lookup(t)' = Lookup(t)
    <2>1. a' = a /\ d' = d
      BY <1>1, <1>2, <1>8
    <2> QED BY <1>8, <2>1
  <1> QED BY <1>4, <1>5, <1>6, <1>7, <1>8 DEF StepDict

(* Pointers lead to later nodes and a timeout node has its function: no    *)
(* walk of the key tree goes round or ends in an empty timeout             *)
(* (append_key_sequence, keymap/keymap.c).                                 *)
THEOREM TreeIsWellFormed == Spec => []TypeOK
  <1>1. KeyInv => TypeOK
    BY DEF KeyInv, Right, Types
  <1> QED BY KeyInvHolds, <1>1, PTL

(* 1-2-3 waits for more input at the sequences that others begin with and  *)
(* at no other, whenever append_key_sequence has returned.                 *)
THEOREM WaitsExactlyWhereNeeded == Spec => []WaitsWhereNeeded
  BY KeyInvHolds, InvWaits, PTL

(* The tree answers as the dictionary of the accepted sequences does: for  *)
(* every set of sequences and of functions, in every order the program may *)
(* add them, and at every step of the walk that adds one.                  *)
THEOREM TreeIsTheDictionary == Spec => ImplementsKeyDict
  <1>1. KeyInv /\ [Next]_vars => [Dict!DNext]_(Dict!dvars)
    BY StepKeeps, DictSteps
  <1> QED BY KeyInvHolds, DictStarts, <1>1, PTL DEF Spec, ImplementsKeyDict, Dict!DSpec
=============================================================================
