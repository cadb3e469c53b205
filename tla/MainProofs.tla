----------------------------- MODULE MainProofs -----------------------------
(***************************************************************************)
(* Proofs about Main for every command line, every number of -e options    *)
(* and every sequence of signals: no SIGUSR2 is lost, and the macro of the *)
(* -e options is played once and in order.                                 *)
(***************************************************************************)
EXTENDS Main, FiniteSetTheorems, TLAPS

-----------------------------------------------------------------------------
(* No signal is lost: the core never gets hold of SIGUSR2, so each arrival *)
(* counts, and only a macro about to run takes the count away.             *)
SignalInv ==
    /\ macro_run_signal \in Nat
    /\ handler \in {"default", "macro_signal"}
    /\ NoSignalLost

LEMMA NoUnixUsr2 == \A signum \in DOMAIN UnixToLinux : UnixToLinux[signum] # LinuxUsr2
  BY DEF UnixToLinux, Translation, LinuxUsr2

LEMMA SignalStep == SignalInv /\ [Next]_vars => SignalInv'
  <1> SUFFICES ASSUME SignalInv, [Next]_vars PROVE SignalInv'
    OBVIOUS
  <1> USE DEF SignalInv, NoSignalLost, startup, cells, usr2, core
  <1>1. CASE Startup
    BY <1>1 DEF Startup, InstallHandler, CountOptions, CopyOption, StartCore, CopyFile
  <1>2. CASE ReadyToRead
    BY <1>2 DEF ReadyToRead, EnterReady, SubmitMacro, TestSignal, Marked, ClearSignal,
                RunMacroKey
  <1>3. CASE MacroSignal
    BY <1>3 DEF MacroSignal
  <1>4. ASSUME NEW n, PlaybackMacroText(n) PROVE SignalInv'
    BY <1>4 DEF PlaybackMacroText
  <1>5. CASE ChangeMode
    BY <1>5 DEF ChangeMode
  <1>6. ASSUME NEW signum \in DOMAIN UnixToLinux, SetHandler(signum) PROVE SignalInv'
    BY <1>6, NoUnixUsr2 DEF SetHandler
  <1>7. CASE UNCHANGED vars
    BY <1>7 DEF vars
  <1> QED BY <1>1, <1>2, <1>3, <1>4, <1>5, <1>6, <1>7 DEF Next

(* Whenever a SIGUSR2 has not been answered yet, it is marked or macro \1  *)
(* is about to run, at every step of ready_to_read it can arrive between   *)
(* and whatever handlers the core installs.                                *)
THEOREM SignalsAreKept == Spec => []NoSignalLost
  <1>1. Init => SignalInv
    BY DEF Init, SignalInv, NoSignalLost
  <1>2. SignalInv => NoSignalLost
    BY DEF SignalInv
  <1> QED BY <1>1, <1>2, SignalStep, PTL DEF Spec
-----------------------------------------------------------------------------
(* The macro of the -e options. *)

(* The -e options among the first k, and what they are told to do. *)
Upto(k) == {j \in Macros : j <= k}
Texts   == {Options[i].arg : i \in Macros}

Lesser(a, b) == IF a < b THEN a ELSE b

(* The number of -e options seen so far counts one more with each.         *)
LEMMA CountMacros ==
    ASSUME cmdline \in CmdLines
    PROVE  /\ Len(Options) \in Nat /\ Macros \subseteq 1 .. Len(Options)
           /\ IsFiniteSet(Macros) /\ Cardinality(Macros) \in Nat
           /\ Cardinality(Upto(0)) = 0
           /\ Upto(Len(Options)) = Macros
           /\ \A k \in Nat : /\ Cardinality(Upto(k)) \in Nat
                             /\ Cardinality(Upto(k)) <= Cardinality(Macros)
                             /\ Cardinality(Upto(k + 1)) =
                                   IF k + 1 \in Macros THEN Cardinality(Upto(k)) + 1
                                   ELSE Cardinality(Upto(k))
           /\ \A i \in Macros : /\ Rank(i) \in Nat /\ Rank(i) >= 1
                              /\ Rank(i) = Cardinality(Upto(i))
           /\ \A k \in Nat : \A i \in Upto(k) : Rank(i) <= Cardinality(Upto(k))
  <1>1. Len(Options) \in Nat /\ DOMAIN Options = 1 .. Len(Options)
    BY CmdLinesAssumption DEF Options
  <1>2. Macros \subseteq 1 .. Len(Options)
    BY <1>1 DEF Macros
  <1>3. IsFiniteSet(Macros) /\ Cardinality(Macros) \in Nat
    <2>1. IsFiniteSet(1 .. Len(Options))
      BY <1>1, FS_Interval
    <2> QED BY <1>2, <2>1, FS_Subset, FS_CardinalityType
  <1>4. ASSUME NEW k
        PROVE  /\ IsFiniteSet(Upto(k)) /\ Cardinality(Upto(k)) \in Nat
               /\ Cardinality(Upto(k)) <= Cardinality(Macros)
    <2>1. Upto(k) \in SUBSET Macros
      BY DEF Upto
    <2> QED BY <1>3, <2>1, FS_Subset, FS_CardinalityType
  <1>0. \A i, k : i \in Upto(k) <=> i \in Macros /\ i <= k
    BY DEF Upto
  <1>9. \A i \in Macros : i \in Nat /\ 1 <= i /\ i <= Len(Options)
    BY <1>1, <1>2
  <1>5. Upto(0) = {} /\ Upto(Len(Options)) = Macros
    BY <1>0, <1>9
  <1>6. ASSUME NEW k \in Nat
        PROVE  Cardinality(Upto(k + 1)) =
                  IF k + 1 \in Macros THEN Cardinality(Upto(k)) + 1
                  ELSE Cardinality(Upto(k))
    <2>1. CASE k + 1 \in Macros
      <3>1. Upto(k + 1) = Upto(k) \cup {k + 1} /\ k + 1 \notin Upto(k)
        BY <1>0, <1>9, <2>1
      <3> QED BY <1>4, <2>1, <3>1, FS_AddElement
    <2>2. CASE k + 1 \notin Macros
      <3>1. Upto(k + 1) = Upto(k)
        <4>1. \A i \in Macros : i <= k + 1 <=> i <= k
          BY <1>9, <2>2
        <4> QED BY <1>0, <4>1
      <3> QED BY <2>2, <3>1
    <2> QED BY <2>1, <2>2
  <1>7. ASSUME NEW i \in Macros
        PROVE  Rank(i) = Cardinality(Upto(i))
    BY DEF Rank, Upto
  <1>8. ASSUME NEW k \in Nat, NEW i \in Upto(k)
        PROVE  Rank(i) <= Cardinality(Upto(k))
    <2>1. i \in Macros /\ Upto(i) \in SUBSET Upto(k)
      <3>1. i \in Macros /\ i \in Nat /\ i <= k
        BY <1>0, <1>9
      <3>2. \A j \in Upto(i) : j \in Upto(k)
        BY <1>0, <1>9, <3>1
      <3> QED BY <3>1, <3>2
    <2> QED BY <1>4, <1>7, <2>1, FS_Subset
  <1>10. Cardinality(Upto(0)) = 0
    BY <1>5, FS_EmptySet
  <1>11. ASSUME NEW i \in Macros PROVE Rank(i) \in Nat /\ Rank(i) >= 1
    <2>1. i - 1 \in Nat /\ (i - 1) + 1 = i
      BY <1>9
    <2>2. Cardinality(Upto(i)) = Cardinality(Upto(i - 1)) + 1
      BY <1>6, <2>1
    <2> QED BY <1>4, <1>7, <2>2
  <1> QED BY <1>1, <1>2, <1>3, <1>4, <1>5, <1>6, <1>7, <1>8, <1>10, <1>11

(* The cells of the macro are the arguments of the -e options seen so far, *)
(* as many as fit.                                                         *)
CellsInv ==
    /\ cmdline \in CmdLines
    /\ pc \in {"main", "count", "copy", "terminate", "core", "jobs", "signal", "clear", "run"}
    /\ optind \in 1 .. Len(Options) + 1
    /\ pc \notin {"main", "count", "copy"} => optind = Len(Options) + 1
    /\ macro_cell_text \in Seq(Texts)
    /\ macro_cell_cnt = Lesser(Cardinality(Upto(optind - 1)), MaxMacro)
    /\ \A i \in Upto(optind - 1) :
          Rank(i) <= macro_cell_cnt => macro_cell_text[Rank(i)] = Options[i].arg

(* macro_cell_num is -1 until the macro is submitted, and from then on the *)
(* core is at the cell it was handed last, or before the first.            *)
PlayInv ==
    /\ macro_cell_num \in Nat \cup {-1}
    /\ submitted = IF macro_cell_num = -1 THEN 0 ELSE 1
    /\ pc \in {"main", "count", "copy"} => submitted = 0
    /\ playing \in BOOLEAN
    /\ handed \in Seq(Texts)
    /\ Len(handed) <= macro_cell_cnt
    /\ \A k \in 1 .. Len(handed) : handed[k] = macro_cell_text[k]
    /\ submitted = 0 => ~playing /\ handed = <<>>
    /\ submitted = 1 => macro_cell_cnt > 0
    /\ playing => macro_cell_num = IF handed = <<>> THEN 0 ELSE Len(handed) - 1
    /\ submitted = 1 /\ ~playing => Len(handed) = macro_cell_cnt

MacroInv == CellsInv /\ PlayInv

LEMMA TextsAreTexts == ASSUME cmdline \in CmdLines PROVE NoArg \notin Texts
  BY CmdLinesAssumption DEF Texts, Macros, Options, IsMacro

LEMMA CellsAre == MacroInv => MacroInOrder
  <1> SUFFICES ASSUME MacroInv PROVE MacroInOrder
    OBVIOUS
  <1>1. /\ cmdline \in CmdLines /\ submitted \in {0, 1}
        /\ optind - 1 \in Nat
        /\ submitted = 1 => optind = Len(Options) + 1
        /\ Len(handed) <= macro_cell_cnt /\ Len(handed) \in Nat
        /\ macro_cell_cnt = Lesser(Cardinality(Upto(optind - 1)), MaxMacro)
        /\ submitted = 0 => handed = <<>>
        /\ \A k \in 1 .. Len(handed) : handed[k] = macro_cell_text[k]
        /\ submitted = 1 /\ ~playing => Len(handed) = macro_cell_cnt
    BY CmdLinesAssumption DEF MacroInv, CellsInv, PlayInv, Options
  <1>2. /\ Cardinality(Upto(optind - 1)) \in Nat /\ Cardinality(Macros) \in Nat
        /\ Cardinality(Upto(optind - 1)) <= Cardinality(Macros)
        /\ \A i \in Macros : Rank(i) \in Nat /\ Rank(i) >= 1
        /\ Upto(Len(Options)) = Macros /\ Len(Options) \in Nat
    BY <1>1, CountMacros
  <1>3. /\ macro_cell_cnt \in Nat /\ macro_cell_cnt <= MaxMacro
        /\ Len(handed) <= Cardinality(Macros)
    BY <1>1, <1>2, BoundsAssumption DEF Lesser
  <1>4. CASE submitted = 0
    <2>1. \A i \in Macros : ~(Rank(i) <= Len(handed))
      BY <1>1, <1>2, <1>4
    <2> QED BY <1>3, <1>4, <2>1 DEF MacroInOrder
  <1>5. CASE submitted = 1
    <2>1. Upto(optind - 1) = Macros
      BY <1>1, <1>2, <1>5
    <2>2. ASSUME NEW i \in Macros, Rank(i) <= Len(handed)
          PROVE  handed[Rank(i)] = Options[i].arg
      <3>1. Rank(i) \in 1 .. Len(handed) /\ Rank(i) <= macro_cell_cnt
        BY <1>1, <1>2, <1>3, <2>2
      <3>2. macro_cell_text[Rank(i)] = Options[i].arg
        BY <2>1, <3>1 DEF MacroInv, CellsInv
      <3> QED BY <1>1, <3>1, <3>2
    <2>3. ~playing => Len(handed) = IF Cardinality(Macros) < MaxMacro
                                    THEN Cardinality(Macros) ELSE MaxMacro
      BY <1>1, <1>5, <2>1 DEF Lesser
    <2> QED BY <1>3, <1>5, <2>2, <2>3 DEF MacroInOrder
  <1> QED BY <1>1, <1>4, <1>5

LEMMA MacroInit == Init => MacroInv
  <1> SUFFICES ASSUME Init PROVE MacroInv
    OBVIOUS
  <1> USE DEF Init
  <1>1. optind - 1 = 0 /\ Cardinality(Upto(0)) = 0 /\ Len(Options) \in Nat
    BY CountMacros
  <1>2. \A i \in Upto(0) : FALSE
    BY CountMacros DEF Upto
  <1>3. macro_cell_cnt = 0 /\ macro_cell_text \in Seq(Texts) /\ handed \in Seq(Texts)
    BY DEF macro_cell_cnt
  <1>4. CellsInv
    BY <1>1, <1>2, <1>3, BoundsAssumption DEF CellsInv, Lesser
  <1>5. PlayInv
    <2>1. Len(handed) = 0 /\ ~playing /\ playing \in BOOLEAN
      OBVIOUS
    <2> QED BY <1>3, <2>1 DEF PlayInv
  <1> QED BY <1>4, <1>5 DEF MacroInv

(* A command line does not change, so what is counted in it does not. *)
LEMMA SameCommandLine ==
    ASSUME UNCHANGED cmdline
    PROVE  /\ Options' = Options /\ Macros' = Macros /\ Texts' = Texts
           /\ \A k : Upto(k)' = Upto(k)
           /\ \A i : Rank(i)' = Rank(i)
  BY DEF Options, Macros, Texts, Upto, Rank

(* Any step that leaves the cells and the options alone. *)
LEMMA SameCells ==
    ASSUME MacroInv, UNCHANGED <<cmdline, optind, cells>>,
           pc' \in {"main", "count", "copy", "terminate", "core", "jobs", "signal", "clear", "run"},
           pc \notin {"main", "count", "copy"} => pc' \notin {"main", "count", "copy"},
           pc' \notin {"main", "count", "copy"} => optind = Len(Options) + 1
    PROVE  MacroInv'
  <1>1. Upto(optind - 1)' = Upto(optind - 1)
    BY SameCommandLine DEF Upto
  <1> QED BY <1>1, SameCommandLine DEF MacroInv, CellsInv, PlayInv, cells, macro_cell_cnt

(* An -e option fills the next cell, if there is one. *)
LEMMA CopyOptionKeeps == MacroInv /\ CopyOption => MacroInv'
  <1> SUFFICES ASSUME MacroInv, CopyOption PROVE MacroInv'
    OBVIOUS
  <1> DEFINE o == Options[optind]
             card == Cardinality(Upto(optind - 1))
  <1>1. /\ UNCHANGED <<cmdline, macro_cell_num, playing, handed, submitted, pc>>
        /\ pc = "copy" /\ optind \in 1 .. Len(Options) /\ optind' = optind + 1
        /\ macro_cell_text' = IF IsMacro(o) /\ HasRoom
                              THEN Append(macro_cell_text, o.arg) ELSE macro_cell_text
    BY DEF CopyOption, MacroInv, CellsInv
  <1>2. /\ submitted = 0 /\ handed = <<>> /\ macro_cell_num = -1
        /\ ~playing /\ playing \in BOOLEAN
        /\ cmdline \in CmdLines /\ macro_cell_text \in Seq(Texts)
        /\ macro_cell_cnt = Lesser(card, MaxMacro) /\ macro_cell_cnt \in Nat
        /\ \A i \in Upto(optind - 1) :
              Rank(i) <= macro_cell_cnt => macro_cell_text[Rank(i)] = Options[i].arg
    BY <1>1 DEF MacroInv, CellsInv, PlayInv, macro_cell_cnt
  <1>3. /\ optind - 1 \in Nat /\ (optind - 1) + 1 = optind /\ optind' - 1 = optind
        /\ Len(Options) \in Nat /\ card \in Nat
        /\ optind \in Macros <=> IsMacro(o)
        /\ Cardinality(Upto(optind)) = IF optind \in Macros THEN card + 1 ELSE card
        /\ Rank(optind) = Cardinality(Upto(optind))
        /\ \A i \in Upto(optind - 1) : Rank(i) \in Nat /\ Rank(i) <= card
        /\ \A i \in Upto(optind) : i \in Upto(optind - 1) \/ i = optind
        /\ \A i \in Upto(optind) : i \in Macros
    <2>1. optind - 1 \in Nat /\ (optind - 1) + 1 = optind /\ optind' - 1 = optind
      BY <1>1, <1>2, CountMacros
    <2>2. optind \in Macros <=> IsMacro(o)
      BY <1>1, <1>2, CmdLinesAssumption DEF Macros, Options
    <2>3. Macros \subseteq 1 .. Len(Options) /\ Len(Options) \in Nat
      BY <1>2, CountMacros
    <2>4. Cardinality(Upto(optind)) = IF optind \in Macros THEN card + 1 ELSE card
      BY <1>2, <2>1, CountMacros
    <2>5. /\ \A i \in Upto(optind) : i \in Upto(optind - 1) \/ i = optind
          /\ \A i \in Upto(optind) : i \in Macros
      BY <1>1, <2>3 DEF Upto
    <2>6. \A i \in Upto(optind - 1) : Rank(i) \in Nat /\ Rank(i) <= card
      BY <1>2, <2>1, CountMacros DEF Upto
    <2>7. Rank(optind) = Cardinality(Upto(optind)) /\ card \in Nat
      BY <1>2, <2>1, CountMacros DEF Rank, Upto
    <2> QED BY <2>1, <2>2, <2>3, <2>4, <2>5, <2>6, <2>7
  <1> HIDE DEF card, o
  <1>4. /\ macro_cell_text' \in Seq(Texts)
        /\ Len(macro_cell_text') = Lesser(Cardinality(Upto(optind)), MaxMacro)
        /\ \A i \in Upto(optind) : Rank(i) <= Len(macro_cell_text') =>
               macro_cell_text'[Rank(i)] = Options[i].arg
    <2>1. CASE IsMacro(o) /\ HasRoom
      <3>1. o.arg \in Texts /\ o = Options[optind]
        BY <1>3, <2>1 DEF Texts, o
      <3>2. /\ macro_cell_text' \in Seq(Texts)
            /\ Len(macro_cell_text') = macro_cell_cnt + 1
            /\ \A k \in 1 .. macro_cell_cnt : macro_cell_text'[k] = macro_cell_text[k]
            /\ macro_cell_text'[macro_cell_cnt + 1] = o.arg
        BY <1>1, <1>2, <2>1, <3>1 DEF macro_cell_cnt
      <3>3. macro_cell_cnt < MaxMacro /\ macro_cell_cnt = card
        BY <1>2, <1>3, <2>1, BoundsAssumption DEF HasRoom, Lesser
      <3>4. Len(macro_cell_text') = Lesser(Cardinality(Upto(optind)), MaxMacro)
        BY <1>2, <1>3, <2>1, <3>2, <3>3, BoundsAssumption DEF Lesser
      <3>5. ASSUME NEW i \in Upto(optind) PROVE macro_cell_text'[Rank(i)] = Options[i].arg
        <4>1. CASE i = optind
          BY <1>3, <2>1, <3>1, <3>2, <3>3, <4>1
        <4>2. CASE i \in Upto(optind - 1)
          <5>1. Rank(i) >= 1
            BY <1>2, <1>3, CountMacros
          <5> QED BY <1>2, <1>3, <3>2, <3>3, <4>2, <5>1
        <4> QED BY <1>3, <4>1, <4>2
      <3> QED BY <3>2, <3>4, <3>5
    <2>2. CASE ~(IsMacro(o) /\ HasRoom)
      <3>1. macro_cell_text' = macro_cell_text
        BY <1>1, <2>2
      <3>2. macro_cell_cnt = Lesser(Cardinality(Upto(optind)), MaxMacro)
        BY <1>2, <1>3, <2>2, BoundsAssumption DEF HasRoom, Lesser
      <3>3. ASSUME NEW i \in Upto(optind), Rank(i) <= macro_cell_cnt
            PROVE  macro_cell_text[Rank(i)] = Options[i].arg
        <4>1. CASE i \in Upto(optind - 1)
          BY <1>2, <3>3, <4>1
        <4>2. CASE i = optind
          <5>1. IsMacro(o) /\ ~(macro_cell_cnt < MaxMacro)
            BY <1>3, <2>2, <3>3, <4>2 DEF HasRoom
          <5> QED BY <1>2, <1>3, <3>3, <4>2, <5>1, BoundsAssumption DEF Lesser
        <4> QED BY <1>3, <4>1, <4>2
      <3> QED BY <1>2, <3>1, <3>2, <3>3 DEF macro_cell_cnt
    <2> QED BY <2>1, <2>2
  <1>5. CellsInv'
    <2>1. Upto(optind - 1)' = Upto(optind)
      BY <1>1, <1>3, SameCommandLine DEF Upto
    <2>2. \A i \in Upto(optind) : Rank(i)' <= Len(macro_cell_text') =>
               macro_cell_text'[Rank(i)'] = Options'[i].arg
      BY <1>1, <1>4, SameCommandLine
    <2>3. /\ macro_cell_text' \in Seq(Texts')
          /\ Len(macro_cell_text') = Lesser(Cardinality(Upto(optind)), MaxMacro)
      BY <1>1, <1>4, SameCommandLine
    <2>4. optind' \in 1 .. Len(Options') + 1
      BY <1>1, <1>3, SameCommandLine
    <2> QED BY <1>1, <1>2, <2>1, <2>2, <2>3, <2>4 DEF CellsInv, macro_cell_cnt
  <1>6. PlayInv'
    <2>1. Len(macro_cell_text') \in Nat /\ Len(handed) = 0 /\ handed \in Seq(Texts)
      BY <1>2, <1>4
    <2> QED BY <1>1, <1>2, <2>1, SameCommandLine DEF PlayInv, macro_cell_cnt
  <1> QED BY <1>5, <1>6 DEF MacroInv

(* The core gets the cell it is at, or no more than that. *)
LEMMA PlaybackKeeps ==
    ASSUME MacroInv, NEW n \in 0 .. 1, PlaybackMacroText(n)
    PROVE  MacroInv'
  <1> DEFINE text == CellText(CellNumber(n))
  <1>1. /\ UNCHANGED <<cmdline, optind, macro_cell_text, submitted, pc>>
        /\ pc = "core" /\ playing /\ (handed = <<>> => n = 0)
        /\ macro_cell_num' = CellNumber(n)
        /\ playing' = (text # NoArg)
        /\ handed' = IF text # NoArg /\ (n = 1 \/ handed = <<>>)
                     THEN Append(handed, text) ELSE handed
    BY DEF PlaybackMacroText, startup
  <1>2. /\ submitted = 1 /\ macro_cell_cnt > 0 /\ macro_cell_cnt \in Nat
        /\ macro_cell_num = IF handed = <<>> THEN 0 ELSE Len(handed) - 1
        /\ cmdline \in CmdLines /\ macro_cell_text \in Seq(Texts) /\ handed \in Seq(Texts)
        /\ Len(handed) <= macro_cell_cnt
        /\ \A k \in 1 .. Len(handed) : handed[k] = macro_cell_text[k]
        /\ macro_cell_cnt <= MaxMacro
    BY <1>1, CellsAre DEF MacroInv, CellsInv, PlayInv, macro_cell_cnt, MacroInOrder
  <1>3. CellsInv'
    <2>1. Upto(optind - 1)' = Upto(optind - 1)
      BY <1>1, SameCommandLine DEF Upto
    <2> QED BY <1>1, <2>1, SameCommandLine DEF MacroInv, CellsInv, macro_cell_cnt
  <1>4. /\ CellNumber(n) \in Nat
        /\ n = 0 => CellNumber(n) = macro_cell_num
        /\ n = 1 => CellNumber(n) = Len(handed) /\ Len(handed) > 0
        /\ handed = <<>> => CellNumber(n) = 0
    BY <1>1, <1>2 DEF CellNumber
  <1>5. text # NoArg <=> CellNumber(n) < macro_cell_cnt
    <2>1. CASE CellNumber(n) < macro_cell_cnt
      <3>1. /\ text = macro_cell_text[CellNumber(n) + 1]
            /\ CellNumber(n) + 1 \in 1 .. Len(macro_cell_text)
        BY <1>2, <1>4, <2>1, BoundsAssumption DEF CellText, macro_cell_cnt
      <3>2. text \in Texts
        BY <1>2, <3>1
      <3> QED BY <1>2, <2>1, <3>2, TextsAreTexts
    <2>2. CASE ~(CellNumber(n) < macro_cell_cnt)
      BY <2>2 DEF CellText
    <2> QED BY <2>1, <2>2
  <1>9. playing' \in BOOLEAN /\ (playing' <=> text # NoArg)
    BY <1>1
  <1>6. CASE text # NoArg /\ (n = 1 \/ handed = <<>>)
    <2>1. /\ CellNumber(n) = Len(handed) /\ Len(handed) < macro_cell_cnt
          /\ text = macro_cell_text[Len(handed) + 1]
          /\ Len(handed) + 1 \in 1 .. Len(macro_cell_text)
      BY <1>2, <1>4, <1>5, <1>6, BoundsAssumption DEF CellText, macro_cell_cnt
    <2>2. text \in Texts
      BY <1>2, <2>1
    <2> HIDE DEF text
    <2>5. handed' = Append(handed, text)
      BY <1>1, <1>6
    <2>3. /\ handed' \in Seq(Texts) /\ Len(handed') = Len(handed) + 1
          /\ \A k \in 1 .. Len(handed) : handed'[k] = handed[k]
          /\ handed'[Len(handed) + 1] = text /\ handed' # <<>>
      BY <1>2, <2>2, <2>5
    <2>4. \A k \in 1 .. Len(handed') : handed'[k] = macro_cell_text[k]
      BY <1>2, <2>1, <2>3
    <2> QED BY <1>1, <1>2, <1>3, <1>4, <1>6, <1>9, <2>1, <2>3, <2>4, SameCommandLine
            DEF MacroInv, PlayInv, macro_cell_cnt
  <1>7. CASE text # NoArg /\ ~(n = 1 \/ handed = <<>>)
    <2>1. handed' = handed /\ macro_cell_num' = macro_cell_num
      BY <1>1, <1>4, <1>7
    <2>2. playing' /\ handed # <<>>
      BY <1>7, <1>9
    <2> QED BY <1>1, <1>2, <1>3, <1>4, <1>9, <2>1, <2>2, SameCommandLine
            DEF MacroInv, PlayInv, macro_cell_cnt
  <1>8. CASE text = NoArg
    <2>1. handed' = handed /\ ~playing' /\ playing' \in BOOLEAN
      BY <1>1, <1>8, <1>9
    <2>2. Len(handed) = macro_cell_cnt
      BY <1>1, <1>2, <1>4, <1>5, <1>8
    <2> QED BY <1>1, <1>2, <1>3, <1>4, <2>1, <2>2, SameCommandLine
            DEF MacroInv, PlayInv, macro_cell_cnt
  <1> QED BY <1>6, <1>7, <1>8

LEMMA SubmitKeeps == MacroInv /\ SubmitMacro => MacroInv'
  <1> SUFFICES ASSUME MacroInv, SubmitMacro PROVE MacroInv'
    OBVIOUS
  <1>1. CASE MacroWaits
    <2>1. /\ UNCHANGED <<cmdline, optind, macro_cell_text, handed>> /\ pc = "jobs" /\ pc' = "signal"
          /\ macro_cell_num' = 0 /\ submitted' = submitted + 1 /\ playing' = TRUE
          /\ macro_cell_num = -1 /\ macro_cell_cnt > 0
      BY <1>1 DEF SubmitMacro, MacroWaits, startup
    <2>2. CellsInv'
      <3>1. Upto(optind - 1)' = Upto(optind - 1)
        BY <2>1, SameCommandLine DEF Upto
      <3> QED BY <2>1, <3>1, SameCommandLine DEF MacroInv, CellsInv, macro_cell_cnt
    <2>3. PlayInv'
      BY <2>1, SameCommandLine DEF MacroInv, PlayInv, macro_cell_cnt
    <2> QED BY <2>2, <2>3 DEF MacroInv
  <1>2. CASE ~MacroWaits
    <2>1. UNCHANGED <<cmdline, optind, cells>> /\ pc = "jobs" /\ pc' = "signal"
      BY <1>2 DEF SubmitMacro, startup, cells
    <2> QED BY <2>1, SameCells DEF MacroInv, CellsInv
  <1> QED BY <1>1, <1>2

LEMMA MacroStep == MacroInv /\ [Next]_vars => MacroInv'
  <1> SUFFICES ASSUME MacroInv, [Next]_vars PROVE MacroInv'
    OBVIOUS
  <1>0. pc \in {"main", "count", "copy", "terminate", "core", "jobs", "signal", "clear", "run"}
        /\ (pc \notin {"main", "count", "copy"} => optind = Len(Options) + 1)
    BY DEF MacroInv, CellsInv
  <1>1. CASE InstallHandler \/ CountOptions \/ StartCore
    BY <1>0, <1>1, SameCells DEF InstallHandler, CountOptions, StartCore, startup
  <1>2. ASSUME NEW exists, CopyFile(exists) PROVE MacroInv'
    BY <1>0, <1>2, SameCells DEF CopyFile
  <1>3. CASE EnterReady \/ TestSignal \/ ClearSignal \/ RunMacroKey
    BY <1>0, <1>3, SameCells DEF EnterReady, TestSignal, ClearSignal, RunMacroKey, startup
  <1>4. CASE MacroSignal \/ ChangeMode
    BY <1>0, <1>4, SameCells DEF MacroSignal, ChangeMode, startup
  <1>5. ASSUME NEW signum, SetHandler(signum) PROVE MacroInv'
    BY <1>0, <1>5, SameCells DEF SetHandler, startup
  <1>6. CASE UNCHANGED vars
    BY <1>0, <1>6, SameCells DEF vars, startup
  <1> QED BY <1>1, <1>2, <1>3, <1>4, <1>5, <1>6, CopyOptionKeeps, PlaybackKeeps, SubmitKeeps
          DEF Next, Startup, ReadyToRead

(* The core sees the arguments of the -e options once, in their order and  *)
(* without a gap, and in the end all of them that fit, however it reads    *)
(* cells again and whatever signals and jobs come between.                 *)
THEOREM MacroIsPlayedInOrder == Spec => []MacroInOrder
  BY MacroInit, MacroStep, CellsAre, PTL DEF Spec
=============================================================================
