------------------------------- MODULE KeyTree -------------------------------
(***************************************************************************)
(* keymap/keymap.c: the tree of key sequences that 1-2-3 walks to tell     *)
(* which function a key is.  append_key_sequence walks it a node at a time *)
(* (one action for each way round its loop) and adds the nodes it misses.  *)
(* A node that completes one sequence and begins another points to a       *)
(* KEY_TIMEOUT node that holds its function; there the program waits for   *)
(* more input before it decides.                                           *)
(*                                                                         *)
(* Nodes are numbered in the order key_new_node adds them, from 1; their   *)
(* offsets in the file are sizeof(KEYMAP) + sizeof(KEYINFO) * (number - 1) *)
(* and 0, as there, is no node.  A node's two children and a timeout       *)
(* node's next and timeout share their memory (a union), so they share     *)
(* variables here.                                                         *)
(***************************************************************************)
EXTENDS Naturals, Sequences

CONSTANTS
    Seqs,       \* key sequences, without the NUL; <<>> is a missing key
    Funs,       \* function numbers
    MaxCalls    \* bound: calls of append_key_sequence

Nul     == 0
NoFun   == 0
NoNode  == 0
Timeout == 256      \* KEY_TIMEOUT

ASSUME SeqsAssumption == Seqs \subseteq Seq(1 .. 255) /\ <<>> \in Seqs
ASSUME FunsAssumption == Funs \subseteq Nat \ {NoFun}
ASSUME CallsAssumption == MaxCalls \in Nat

VARIABLES
    keyval, kfun, next,     \* of each node
    hi,                     \* node.nextkey_hi, or data.next of a timeout node
    lo,                     \* node.nextkey_lo, or data.timeout
    seq, fun,               \* the arguments of the call
    pos,                    \* keyseq: the next byte, counted from 1
    root,                   \* the node the walk is at
    reply,                  \* "none" during the call, then its result
    calls

tree == <<keyval, kfun, next, hi, lo>>
call == <<seq, fun, calls>>
vars == <<tree, call, pos, root, reply>>

Size  == Len(keyval)
Nodes == 1 .. Size

Init ==
    /\ keyval = <<>> /\ kfun = <<>> /\ next = <<>> /\ hi = <<>> /\ lo = <<>>
    /\ seq = <<>> /\ fun = NoFun /\ pos = 1 /\ root = NoNode
    /\ reply = "no" /\ calls = 0

ByteAt(p) == IF p <= Len(seq) THEN seq[p] ELSE Nul
Byte      == ByteAt(pos)
Following == ByteAt(pos + 1)

-----------------------------------------------------------------------------
(* What a walk of the finished tree finds; as 1-2-3 reads it. *)

\* What the walk finds that is at node n and looks for byte i of s.
WalkFrom(s) ==
    LET walk[n \in 0 .. Size] ==
          [i \in 1 .. Len(s) |->
            IF n = NoNode THEN NoNode
            ELSE IF keyval[n] = Timeout \/ s[i] > keyval[n] THEN walk[hi[n]][i]
            ELSE IF s[i] < keyval[n] THEN walk[lo[n]][i]
            ELSE IF i = Len(s) THEN n ELSE walk[next[n]][i + 1]]
    IN  walk

Found(s) == IF Size = 0 \/ s = <<>> THEN NoNode ELSE WalkFrom(s)[1][1]

Waits(n)  == n # NoNode /\ next[n] # NoNode /\ keyval[next[n]] = Timeout
FunOf(n)  == IF n = NoNode THEN NoFun ELSE IF Waits(n) THEN kfun[next[n]] ELSE kfun[n]
Lookup(s) == FunOf(Found(s))

Begins(s, t) == Len(s) < Len(t) /\ \A i \in 1 .. Len(s) : s[i] = t[i]

-----------------------------------------------------------------------------
(* main() calls append_key_sequence for the fixed keys, the terminal's     *)
(* keys in strcmp order, the Alt keys and the UTF-8 sequences.  In order,   *)
(* a sequence comes before those that begin with it.                       *)
InOrder(s) == \A t \in Seqs : Lookup(t) # NoFun /\ Begins(s, t) => Lookup(s) # NoFun

NoKey(s) == s = <<>>

AppendKeySequence(s, f) ==
    /\ reply \in {"yes", "no"} /\ calls < MaxCalls
    /\ seq' = s /\ fun' = f /\ pos' = 1 /\ calls' = calls + 1
    /\ reply' = "none"
    /\ IF Size = 0 /\ ~NoKey(s)
       THEN /\ keyval' = <<0>> /\ kfun' = <<NoFun>>
            /\ next' = <<NoNode>> /\ hi' = <<NoNode>> /\ lo' = <<NoNode>>
       ELSE UNCHANGED tree
    /\ root' = 1

(* The terminal does not have this key. *)
Missing ==
    /\ reply = "none" /\ NoKey(seq)
    /\ reply' = "no"
    /\ UNCHANGED <<tree, call, pos, root>>

Walking == reply = "none" /\ ~NoKey(seq)
Return(r) == reply' = r /\ UNCHANGED root

(* key_new_node: the number of the node it adds. *)
NewNode_Last == Size
NewNode      == Size + 1

(* Its memory is zeroed, but for what is stored at once. *)
Grown(f, val) == Append(f, val)

Empty(n) == keyval[n] = 0

-----------------------------------------------------------------------------
(* Steps at a timeout node. *)

AtTimeout == Walking /\ keyval[root] = Timeout

Onward_Stays == root
Onward       == hi[root]

TimeoutOn ==
    /\ AtTimeout /\ Byte # Nul /\ hi[root] # NoNode
    /\ root' = Onward
    /\ UNCHANGED <<tree, call, pos, reply>>

TimeoutGrow ==
    /\ AtTimeout /\ Byte # Nul /\ hi[root] = NoNode
    /\ keyval' = Grown(keyval, 0) /\ kfun' = Grown(kfun, NoFun)
    /\ next' = Grown(next, NoNode) /\ lo' = Grown(lo, NoNode)
    /\ hi' = Grown([hi EXCEPT ![root] = NewNode], NoNode)
    /\ root' = NewNode
    /\ UNCHANGED <<call, pos, reply>>

(* At the NUL: errx "Duplicate key sequences requested", even when it is   *)
(* for the same function; or the node is free.                             *)
TimeoutEnd ==
    /\ AtTimeout /\ Byte = Nul
    /\ IF kfun[root] # NoFun THEN Return("fatal") /\ UNCHANGED kfun
       ELSE Return("yes") /\ kfun' = [kfun EXCEPT ![root] = fun]
    /\ UNCHANGED <<keyval, next, hi, lo, call, pos>>

-----------------------------------------------------------------------------
(* Steps at a node of the search tree; an empty node takes the byte first. *)

AtNode     == Walking /\ keyval[root] # Timeout
NodeByte   == IF Empty(root) THEN Byte ELSE keyval[root]
FilledKeys == [keyval EXCEPT ![root] = NodeByte]

AtMatch == AtNode /\ Byte = NodeByte /\ Byte # Nul

(* The walk is at the NUL already, and the byte after it is read next:     *)
(* what the program does from here on is undefined.                        *)
PastTheEnd ==
    /\ AtNode /\ Byte = NodeByte /\ Byte = Nul
    /\ keyval' = FilledKeys /\ pos' = pos + 1
    /\ Return("undefined")
    /\ UNCHANGED <<kfun, next, hi, lo, call>>

(* The sequence has a function already. *)
MatchDefined ==
    /\ AtMatch /\ kfun[root] # NoFun /\ Following = Nul
    /\ pos' = pos + 1
    /\ Return(IF kfun[root] = fun THEN "yes" ELSE "no")
    /\ keyval' = FilledKeys
    /\ UNCHANGED <<kfun, next, hi, lo, call>>

(* A shorter sequence ends here: its function moves to a timeout node. *)
SplitFun_Lost == NoFun
SplitFun      == kfun[root]

Splits_Always == kfun[root] # NoFun
Splits        == kfun[root] # NoFun /\ Following # Nul

MatchSplit ==
    /\ AtMatch /\ Splits
    /\ pos' = pos + 1
    /\ keyval' = Grown(FilledKeys, Timeout)
    /\ kfun' = Grown([kfun EXCEPT ![root] = NoFun], SplitFun)
    /\ next' = Grown([next EXCEPT ![root] = NewNode], NoNode)
    /\ hi' = Grown(hi, NoNode)
    /\ lo' = Grown(lo, 1)
    /\ root' = NewNode
    /\ UNCHANGED <<call, reply>>

MatchOn ==
    /\ AtMatch /\ kfun[root] = NoFun /\ next[root] # NoNode
    /\ pos' = pos + 1
    /\ keyval' = FilledKeys
    /\ root' = next[root]
    /\ UNCHANGED <<kfun, next, hi, lo, call, reply>>

MatchClaim ==
    /\ AtMatch /\ kfun[root] = NoFun /\ next[root] = NoNode /\ Following = Nul
    /\ pos' = pos + 1
    /\ keyval' = FilledKeys
    /\ kfun' = [kfun EXCEPT ![root] = fun]
    /\ Return("yes")
    /\ UNCHANGED <<next, hi, lo, call>>

MatchGrow ==
    /\ AtMatch /\ kfun[root] = NoFun /\ next[root] = NoNode /\ Following # Nul
    /\ pos' = pos + 1
    /\ keyval' = Grown(FilledKeys, 0) /\ kfun' = Grown(kfun, NoFun)
    /\ next' = Grown([next EXCEPT ![root] = NewNode], NoNode)
    /\ hi' = Grown(hi, NoNode) /\ lo' = Grown(lo, NoNode)
    /\ root' = NewNode
    /\ UNCHANGED <<call, reply>>

(* Another byte: the binary search goes on. *)
Above == Byte > keyval[root]

SearchOn ==
    LET child == IF Above THEN hi[root] ELSE lo[root]
    IN  /\ AtNode /\ Byte # NodeByte /\ child # NoNode
        /\ root' = child
        /\ UNCHANGED <<tree, call, pos, reply>>

SearchGrow ==
    /\ AtNode /\ Byte # NodeByte
    /\ (IF Above THEN hi[root] ELSE lo[root]) = NoNode
    /\ keyval' = Grown(keyval, 0) /\ kfun' = Grown(kfun, NoFun) /\ next' = Grown(next, NoNode)
    /\ hi' = Grown(IF Above THEN [hi EXCEPT ![root] = NewNode] ELSE hi, NoNode)
    /\ lo' = Grown(IF Above THEN lo ELSE [lo EXCEPT ![root] = NewNode], NoNode)
    /\ root' = NewNode
    /\ UNCHANGED <<call, pos, reply>>

Walk ==
    \/ Missing
    \/ TimeoutOn \/ TimeoutGrow \/ TimeoutEnd
    \/ MatchDefined \/ MatchSplit \/ MatchOn \/ MatchClaim \/ MatchGrow
    \/ SearchOn \/ SearchGrow

Calls == \E s \in Seqs, f \in Funs : InOrder(s) /\ AppendKeySequence(s, f)

Next == Calls \/ Walk

Spec == Init /\ [][Next]_vars /\ WF_vars(Walk)

(* The Alt keys are added last: ESC O comes after the function keys that   *)
(* begin with it.                                                          *)
AnyCalls == \E s \in Seqs, f \in Funs : AppendKeySequence(s, f)

SpecAnyOrder == Init /\ [][AnyCalls \/ Walk \/ PastTheEnd]_vars

-----------------------------------------------------------------------------
(* Properties. *)

(* A pointer leads to a node that was added later, so no walk goes round;  *)
(* a timeout node has a function and is only ever a next.                  *)
TypeOK ==
    /\ \A f \in {kfun, next, hi, lo} : Len(f) = Size
    /\ \A n \in Nodes :
          /\ next[n] \in {NoNode} \cup n + 1 .. Size
          /\ hi[n] \in {NoNode} \cup n + 1 .. Size
          /\ kfun[n] \in Funs \cup {NoFun}
          /\ IF keyval[n] = Timeout THEN kfun[n] # NoFun /\ lo[n] = 1 /\ next[n] = NoNode
             ELSE /\ keyval[n] \in 0 .. 255
                  /\ lo[n] \in {NoNode} \cup n + 1 .. Size
                  /\ \A c \in {hi[n], lo[n]} \ {NoNode} : keyval[c] # Timeout
    /\ reply \in {"none", "yes", "no", "fatal"}

(* The tree holds what append_key_sequence accepted and nothing else, and  *)
(* answers as the dictionary does, at every step of a walk that rebuilds   *)
(* part of it.                                                             *)
Dict == INSTANCE KeyDict WITH
            dict  <- [s \in Seqs |-> Lookup(s)],
            asked <- [seq |-> seq, fun |-> fun],
            reply <- reply

ImplementsKeyDict == Dict!DSpec

(* 1-2-3 waits for more input exactly at the sequences that others begin   *)
(* with: after no other key does the user wait for the timeout, and none   *)
(* that could go on is taken at once.                                      *)
WaitsWhereNeeded ==
    reply # "none" =>
        \A s \in Seqs : Lookup(s) # NoFun =>
            (Waits(Found(s)) <=> \E t \in Seqs : Begins(s, t) /\ Lookup(t) # NoFun)

(* append_key_sequence comes to its end. *)
Returns == reply = "none" ~> reply # "none"

(* keymap.c:180: "Advance sequence to next character. If this is nul then  *)
(* thats the end of the sequence."  The walk never goes beyond it.         *)
StopsAtNul == pos <= Len(seq) + 1
=============================================================================
