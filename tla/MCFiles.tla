------------------------------ MODULE MCFiles ------------------------------
(* Model checking of Import, FileName, Resources and Formats: four pieces  *)
(* of code over files that do not meet; a behaviour is one of them, named  *)
(* by part.                                                                *)
EXTENDS Import, FileName, Resources, Formats

CONSTANT Parts

VARIABLE part

MCNames ==
    { name \in SeqOf({"a", ".", "/", "\\", " ", ":", "p", "["}, 3) \cup SeqOf({"a", ".", "/", " "}, 4) :
        name = <<>> \/ \E i \in DOMAIN name : name[i] # " " }
    \cup { <<"a", ".", "a", "a", "a", "a">>, <<"a", ".", "a", "a", "a", "a", "a">>, <<"a", ".", "a", " ", "p", "a">>,
           <<"a", "a", "a", "a", "a", "a">>, <<"a", "<">>,
           <<"a", "?">>, <<"a", ":", "a", "?">> }
MCRoots == {<<>>, <<"/">>, <<"r">>, <<"c", ":">>, <<"c", ":", "r", "/">>}
MCExtensions == {<<>>, <<"k">>}
MCMessages == { [name |-> "empty", len |-> 0], [name |-> "short", len |-> 2], [name |-> "long", len |-> 40000] }

Plain(f) == [fmt |-> f, run |-> FALSE, reps |-> 0]
MCSources == SeqOf({Plain(0), Plain(1)} \cup [fmt : {1, 2}, run : {TRUE}, reps : 0 .. 4], 3)

FilesInit ==
    /\ part \in Parts
    /\ IF part = "import" THEN Init
       ELSE /\ textmode = TRUE /\ file = <<>> /\ start = [row |-> 0, col |-> 0] /\ protected = {}
            /\ cells = << >> /\ n = 0 /\ row = 0 /\ rdcol = 0 /\ rest = <<>> /\ atEnd = FALSE
            /\ values = 0 /\ handle = "none" /\ result = 0 /\ pc = "open"
    /\ SplitInit /\ ResInit /\ FmtInit

FilesNext ==
    \/ part = "import" /\ Next /\ UNCHANGED <<part, splitVars, resVars, fmtVars>>
    \/ part = "name" /\ SplitNext /\ UNCHANGED <<part, vars, resVars, fmtVars>>
    \/ part = "resources" /\ ResNext /\ UNCHANGED <<part, vars, splitVars, fmtVars>>
    \/ part = "formats" /\ FmtNext /\ UNCHANGED <<part, vars, splitVars, resVars>>

FilesSpec == FilesInit /\ [][FilesNext]_<<part, vars, splitVars, resVars, fmtVars>>
=============================================================================
