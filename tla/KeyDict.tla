------------------------------- MODULE KeyDict -------------------------------
(***************************************************************************)
(* What append_key_sequence of keymap/keymap.c promises: a dictionary from *)
(* key sequences to the 1-2-3 function each of them stands for.  A         *)
(* sequence gets one function and keeps it.                                *)
(***************************************************************************)
CONSTANTS Seqs, Funs, NoFun

VARIABLES
    dict,       \* the function of each sequence, NoFun when it has none
    asked,      \* the sequence and the function of the last call
    reply       \* its result: "none" until it returns

dvars == <<dict, asked, reply>>

DInit ==
    /\ dict = [s \in Seqs |-> NoFun]
    /\ asked = [seq |-> <<>>, fun |-> NoFun]
    /\ reply = "no"

Ask(s, f) ==
    /\ reply \in {"yes", "no"}
    /\ asked' = [seq |-> s, fun |-> f] /\ reply' = "none"
    /\ UNCHANGED dict

(* The sequence is new, or it has this function already. *)
Accept ==
    /\ reply = "none" /\ asked.seq # <<>>
    /\ dict[asked.seq] \in {NoFun, asked.fun}
    /\ dict' = [dict EXCEPT ![asked.seq] = asked.fun]
    /\ reply' = "yes"
    /\ UNCHANGED asked

(* The terminal has no such key, or the sequence is another function's. *)
Refuse ==
    /\ reply = "none"
    /\ asked.seq # <<>> => dict[asked.seq] \notin {NoFun, asked.fun}
    /\ reply' = "no"
    /\ UNCHANGED <<dict, asked>>

(* The program may also stop over a duplicate, its own function's or not. *)
GiveUp ==
    /\ reply = "none" /\ asked.seq # <<>>
    /\ dict[asked.seq] # NoFun
    /\ reply' = "fatal"
    /\ UNCHANGED <<dict, asked>>

DNext == (\E s \in Seqs, f \in Funs : Ask(s, f)) \/ Accept \/ Refuse \/ GiveUp

DSpec == DInit /\ [][DNext]_dvars
=============================================================================
