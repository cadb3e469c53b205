------------------------------ MODULE Formats ------------------------------
(***************************************************************************)
(* patch.c: fmt_cpy expands the compressed cell formats of a row.  A       *)
(* format is a word of 32 bits; one with the high bit set stands for a run *)
(* and a byte follows it, the number of further copies.  A turn of the     *)
(* loop is a step.                                                         *)
(*                                                                         *)
(* memdup belongs to the 1-2-3 core: it fills an area with copies of its   *)
(* first bytes.                                                            *)
(***************************************************************************)
EXTENDS Integers, SequencesExt

CONSTANTS
    Sources,    \* what is expanded: sequences of items
    DstMax      \* dst_max

\* A format, and the copies that follow it when it is a run.
Item == [fmt : Nat, run : BOOLEAN, reps : 0 .. 255]

ASSUME DstAssumption == DstMax \in Nat
\* A run of format 0 is not one for this code: its word is not greater than 0x80000000.
ASSUME SourcesAssumption ==
    Sources \subseteq { s \in Seq(Item) : \A i \in DOMAIN s : s[i].run => s[i].fmt # 0 }

VARIABLES
    turn,       \* "idle", "loop", "done"
    given,      \* history: the items and the length of the call
    src,        \* the items that are not read yet
    src_len,    \* bytes left
    dst,        \* what was stored, from the start of dst
    dptr        \* dptr - dst

fmtVars == <<turn, given, src, src_len, dst, dptr>>

WordSize == 4
ItemSize(item) == IF item.run THEN WordSize + 1 ELSE WordSize
Bytes(items) == SumFunction([i \in DOMAIN items |-> ItemSize(items[i])])
NoCopy == [items |-> <<>>, len |-> 0]

FmtInit ==
    /\ turn = "idle" /\ given = NoCopy
    /\ src = <<>> /\ src_len = 0
    /\ dst = <<>> /\ dptr = 0

\* The length may end within an item.
CallFmtCpy ==
    /\ turn = "idle"
    /\ \E items \in Sources : \E len \in 0 .. Bytes(items) :
          /\ given' = [items |-> items, len |-> len]
          /\ src' = items /\ src_len' = len
    /\ turn' = "loop" /\ dst' = <<>> /\ dptr' = 0

InHand == Head(src)
Copies(n) == [i \in 1 .. n |-> InHand.fmt]
Turns == turn = "loop" /\ src_len >= WordSize /\ dptr < DstMax

\* A format, or one marked as a run where the source ends before the count.
CopyFormat ==
    /\ Turns
    /\ ~InHand.run \/ src_len = WordSize
    /\ dst' = dst \o Copies(1) /\ dptr' = dptr + 1
    /\ src_len' = src_len - WordSize /\ src' = Tail(src)
    /\ UNCHANGED <<turn, given>>

IsRun == InHand.run /\ src_len > WordSize
TooLong_Beyond(reps) == dptr + reps > DstMax
TooLong(reps) == dptr + reps + 1 >= DstMax
RunSize_Word == WordSize
RunSize == WordSize + 1

CopyRun ==
    /\ Turns /\ IsRun /\ ~TooLong(InHand.reps)
    /\ dst' = dst \o Copies(InHand.reps + 1) /\ dptr' = dptr + InHand.reps + 1
    /\ src_len' = src_len - RunSize /\ src' = Tail(src)
    /\ UNCHANGED <<turn, given>>

\* The loop is left; the word is stored already, and not counted.
RefuseRun ==
    /\ Turns /\ IsRun /\ TooLong(InHand.reps)
    /\ dst' = dst \o Copies(1) /\ src_len' = src_len - WordSize
    /\ turn' = "done"
    /\ UNCHANGED <<given, src, dptr>>

EndLoop ==
    /\ turn = "loop"
    /\ src_len < WordSize \/ dptr >= DstMax
    /\ turn' = "done"
    /\ UNCHANGED <<given, src, src_len, dst, dptr>>

ReturnFormats ==
    /\ turn = "done"
    /\ turn' = "idle" /\ given' = NoCopy
    /\ src' = <<>> /\ src_len' = 0
    /\ dst' = <<>> /\ dptr' = 0

FmtNext ==
    \/ CallFmtCpy
    \/ CopyFormat \/ CopyRun \/ RefuseRun \/ EndLoop
    \/ ReturnFormats

FmtSpec == FmtInit /\ [][FmtNext]_fmtVars

-----------------------------------------------------------------------------
(* Properties.                                                             *)

\* What the first len bytes of the items stand for: of an item that is cut, the word counts
\* as a single format, and part of a word as none.
Expansion(items, len) ==
    LET before(i) == Bytes(SubSeq(items, 1, i - 1))
        copies(i) == IF len - before(i) < WordSize THEN 0
                     ELSE IF items[i].run /\ len - before(i) > WordSize THEN items[i].reps + 1
                     ELSE 1
    IN  FlattenSeq([i \in DOMAIN items |-> [k \in 1 .. copies(i) |-> items[i].fmt]])

\* No format is stored, and none is counted, past the end of dst.  Those that are counted are
\* the first of those the source stands for, and all of them when that is fewer than dst has
\* room for: runs, counts and cut items do not get the words out of step.  (A run that just
\* fills dst is refused like one that is too long.)
FormatsRight ==
    /\ Len(dst) <= DstMax /\ dptr <= Len(dst)
    /\ turn = "done" =>
          LET all == Expansion(given.items, given.len)
          IN  /\ IsPrefix(SubSeq(dst, 1, dptr), all)
              /\ Len(all) < DstMax => dptr = Len(all)
=============================================================================
