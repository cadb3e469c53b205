------------------------------ MODULE FileName ------------------------------
(***************************************************************************)
(* filename.c: file_name_split takes a path name apart into drive,         *)
(* directory, name and extension, and puts them together again in a        *)
(* PATHNAME: a string, and the lengths and offsets of its parts.  The      *)
(* string is written piece by piece at these offsets, and what stood there *)
(* before is "stale".                                                      *)
(*                                                                         *)
(* A name is a sequence of characters: letters, the characters the code    *)
(* looks for, and "[" for the text after the blank of resource 0xC28       *)
(* (" [PASSWORD PROTECTED]").  Wild cards (expandpath), the case of        *)
(* letters and what check_lengths refuses belong to the core and are left  *)
(* out; so are names of blanks only, where the code reads past their end.  *)
(***************************************************************************)
EXTENDS Integers, SequencesExt

CONSTANTS
    Names,          \* the path names that are split
    Roots,          \* base directories, <<>> for none
    Extensions,     \* default extensions, <<>> for none
    NotInNames,     \* fname_content_xlt_tbl: what a DOS name may not contain
    Irreducible,    \* characters for which file_name_reduce fails
    PathMax         \* PATH_MAX

ASSUME PathMaxAssumption == PathMax \in Nat
ASSUME TableAssumption == NotInNames \cap {" ", ".", "/", "\\", "<", ">"} = {}
ASSUME NamesAssumption == \A name \in Names : name = <<>> \/ \E i \in DOMAIN name : name[i] # " "

INVALID == 9248
TOO_LONG == 9083
UNNAMED == 9130
Protected == <<" ", "[">>       \* resource 0xC28
Password == <<" ", "p">>        \* resource 0xC2B

VARIABLES
    call,       \* the arguments
    stage,      \* "idle", "scan", "fill", "split", "again"
    p,          \* the character that is looked at; 0 stands for a NULL pointer below
    fileext, lastdirptr, lastspace,
    pathtype,
    pstruct,
    first       \* history: the PATHNAME of the call before, whose string is split again

pointers == <<p, fileext, lastdirptr, lastspace, pathtype>>
splitVars == <<call, stage, pointers, pstruct, first>>

path == call.path
NoCall == [path |-> <<>>, root |-> <<>>, extension |-> <<>>, dos |-> FALSE, checklen |-> FALSE]

\* file_name_clear
Cleared == [diroff |-> 0, filenameoff |-> 0, dirlen |-> 0, namelen |-> 0, offext |-> 0, extlen |-> 0,
            str |-> [i \in 0 .. PathMax |-> "stale"], result |-> 0]

SplitInit ==
    /\ call = NoCall /\ stage = "idle"
    /\ p = 0 /\ fileext = 0 /\ lastdirptr = 0 /\ lastspace = 0 /\ pathtype = 0
    /\ pstruct = Cleared /\ first = Cleared

\* Leading blanks are skipped, and a drive in DOS mode.
Begin == CHOOSE i \in DOMAIN path : path[i] # " " /\ \A j \in 1 .. i - 1 : path[j] = " "
HasDrive == call.dos /\ Len(path) > Begin /\ path[Begin + 1] = ":"
AfterDrive == IF HasDrive THEN Begin + 2 ELSE Begin

Entered ==
    /\ stage' = IF path' = <<>> THEN "split" ELSE "scan"
    /\ p' = IF path' = <<>> THEN 0 ELSE AfterDrive'
    /\ fileext' = 0 /\ lastdirptr' = 0 /\ lastspace' = 0 /\ pathtype' = 0
    /\ pstruct' = Cleared

CallSplit ==
    /\ stage = "idle"
    /\ call' \in [path : Names, root : Roots, extension : Extensions, dos : BOOLEAN, checklen : BOOLEAN]
    /\ Entered
    /\ UNCHANGED first

-----------------------------------------------------------------------------
(* The loop over the characters.                                           *)

Invalid ==
    /\ stage' = "split"
    /\ pstruct' = [pstruct EXCEPT !.result = INVALID]

Separators == IF call.dos THEN {"/", "\\"} ELSE {"/"}
Refused ==
    \/ path[p] \in {"<", ">"}
    \/ path[p] = "." /\ call.dos /\ call.checklen /\ fileext # 0
    \/ call.dos /\ path[p] \in NotInNames

\* file_name_reduce of the core looks at all that comes after the drive, before the loop starts.
Reduces == ToSet(SubSeq(path, AfterDrive, Len(path))) \cap Irreducible = {}
ReduceFails ==
    /\ stage = "scan" /\ ~Reduces
    /\ Invalid
    /\ UNCHANGED <<call, pointers, first>>

Matches(resource, at) == IsPrefix(resource, SubSeq(path, at, Len(path)))

Scan ==
    /\ stage = "scan" /\ Reduces /\ p <= Len(path)
    /\ IF Refused
       THEN Invalid /\ UNCHANGED pointers
       ELSE /\ lastspace' = IF path[p] = " " THEN p ELSE lastspace
            /\ fileext' = IF path[p] = "." THEN p ELSE fileext
            /\ lastdirptr' = IF path[p] \in Separators THEN p ELSE lastdirptr
            /\ IF Matches(Protected, p)
               THEN stage' = "fill" /\ pathtype' = 2 /\ UNCHANGED p
               ELSE p' = p + 1 /\ UNCHANGED <<stage, pathtype>>
            /\ UNCHANGED pstruct
    /\ UNCHANGED <<call, first>>

\* A dot in a directory does not begin an extension.
DirAfterExt == lastdirptr > fileext

\* The end of the name; a password may have been asked for after it.
ScanEnds ==
    /\ stage = "scan" /\ p > Len(path)
    /\ IF lastspace # 0 /\ SubSeq(path, lastspace, Len(path)) = Password
       THEN pathtype' = 1 /\ p' = lastspace
       ELSE UNCHANGED <<pathtype, p>>
    /\ stage' = "fill"
    /\ UNCHANGED <<call, fileext, lastdirptr, lastspace, pstruct, first>>

-----------------------------------------------------------------------------
(* The parts are put together.                                             *)

RootHasDrive == call.dos /\ Len(call.root) > 1 /\ call.root[2] = ":"
RootDir == IF RootHasDrive THEN SubSeq(call.root, 3, Len(call.root)) ELSE call.root

Drive == IF HasDrive THEN SubSeq(path, Begin, Begin + 1)
         ELSE IF RootHasDrive THEN SubSeq(call.root, 1, 2) ELSE <<>>

Terminated_Never(dir) == dir
Terminated(dir) == IF dir = <<>> \/ Last(dir) \in {"/", "\\"} THEN dir ELSE Append(dir, "/")

Directory ==
    IF lastdirptr # 0 THEN SubSeq(path, AfterDrive, lastdirptr)
    ELSE IF HasDrive THEN <<>> ELSE Terminated(RootDir)

\* slash_convert, in DOS mode
Converted(s) == [i \in DOMAIN s |-> IF call.dos /\ s[i] = "\\" THEN "/" ELSE s[i]]

NameStart == IF lastdirptr # 0 THEN lastdirptr + 1 ELSE AfterDrive
ExtLen == IF p = NameStart \/ fileext = 0 \/ DirAfterExt THEN 0 ELSE p - fileext
NameLen == p - NameStart - ExtLen

\* memcpy of s to str[at]. Name and extension are copied when they are known to fit. Drive and
\* directory are copied before any length is compared: what of them does not fit is left out
\* here, where the code writes it past the string.
Copied(str, at, s) == [i \in DOMAIN str |-> IF i \in at .. at + Len(s) - 1 THEN s[i - at + 1] ELSE str[i]]

\* In DOS mode with checklen the string is ended after three characters of the extension.
CutLen(len) == IF call.dos /\ call.checklen /\ len > 4 THEN 4 ELSE len

ExtOffset_Root(dirlen) == NameLen + Len(Directory)
ExtOffset(dirlen) == NameLen + dirlen

Fill ==
    /\ stage = "fill"
    /\ LET dirlen == Len(Drive) + Len(Directory)
           default == IF ExtLen = 0 /\ call.extension # <<>> THEN <<".">> \o call.extension ELSE <<>>
           extlen == ExtLen + Len(default)
           offext == ExtOffset(dirlen)
           ext == IF ExtLen > 0 THEN SubSeq(path, fileext, p - 1) ELSE default
           withDir == Copied(Copied(pstruct.str, 0, Drive), Len(Drive), Converted(Directory))
           parts == Copied(withDir, dirlen, SubSeq(path, NameStart, NameStart + NameLen - 1))
           filled == [pstruct EXCEPT !.diroff = Len(Drive), !.filenameoff = Len(Directory),
                        !.dirlen = dirlen, !.namelen = NameLen, !.offext = offext, !.extlen = extlen,
                        !.str = Copied(Copied(parts, offext, ext), offext + CutLen(extlen), <<"nul">>)]
           tooLong == [filled EXCEPT !.offext = 0, !.result = TOO_LONG]
       IN  pstruct' = IF p # NameStart /\ ExtLen + NameLen + dirlen > PathMax
                      THEN [tooLong EXCEPT !.extlen = ExtLen, !.str = withDir]
                      ELSE IF default # <<>> /\ extlen + NameLen + dirlen > PathMax
                      THEN [tooLong EXCEPT !.str = parts]
                      ELSE IF extlen = 0 \/ NameLen > 0 THEN filled
                      ELSE IF dirlen > 0 \/ extlen # 1
                      THEN [filled EXCEPT !.result = UNNAMED]
                      ELSE [filled EXCEPT !.namelen = 1, !.extlen = 0, !.offext = 1]
    /\ stage' = "split"
    /\ UNCHANGED <<call, pointers, first>>

CString(str) == LET end == CHOOSE i \in DOMAIN str : str[i] = "nul" /\ \A j \in 0 .. i - 1 : str[j] # "nul"
                IN  [i \in 1 .. end |-> str[i - 1]]

\* The string is used as a path name in its turn, with no base and no default.
CallAgain ==
    /\ stage = "split" /\ first = Cleared
    /\ pathtype = 0 /\ pstruct.result = 0 /\ path # <<>>
    /\ first' = pstruct
    /\ call' = [call EXCEPT !.path = CString(pstruct.str), !.root = <<>>, !.extension = <<>>]
    /\ Entered

ReturnSplit ==
    /\ stage = "split"
    /\ call' = NoCall /\ stage' = "idle"
    /\ p' = 0 /\ fileext' = 0 /\ lastdirptr' = 0 /\ lastspace' = 0 /\ pathtype' = 0
    /\ pstruct' = Cleared /\ first' = Cleared

SplitNext == CallSplit \/ ReduceFails \/ Scan \/ ScanEnds \/ Fill \/ CallAgain \/ ReturnSplit
SplitSpec == SplitInit /\ [][SplitNext]_splitVars

-----------------------------------------------------------------------------
(* Properties.                                                             *)

Lower(i, j) == IF i < j THEN i ELSE j
Split == stage = "split" /\ pstruct.result = 0 /\ path # <<>>

\* The parts stand one after the other in the string, none of it is left from before, and
\* each is what its name says: the directory ends in a separator, the name has none, the
\* extension begins with its only dot; and the path name that was given stands at the end.
NameParts ==
    Split =>
        LET s == CString(pstruct.str)
            dir == SubSeq(s, pstruct.diroff + 1, pstruct.dirlen)
            name == SubSeq(s, pstruct.dirlen + 1, pstruct.offext)
            ext == SubSeq(s, pstruct.offext + 1, Len(s))
            given == Converted(SubSeq(path, Begin, p - 1))
        IN  /\ "stale" \notin ToSet(s)
            /\ pstruct.dirlen + pstruct.namelen = pstruct.offext
            /\ Len(s) = pstruct.offext + CutLen(pstruct.extlen)
            /\ dir = <<>> \/ Last(dir) = "/"
            /\ ToSet(name) \cap Separators = {}
            /\ ext = <<>> \/ (Head(ext) = "." /\ ToSet(Tail(ext)) \cap (Separators \cup {"."}) = {})
            /\ \/ CutLen(pstruct.extlen) < pstruct.extlen
               \/ IsSuffix(given, Converted(SubSeq(s, 1, Lower(pstruct.offext + ExtLen, Len(s)))))

\* Splitting the string that was put together gives the same parts and the same string; but an
\* extension that was cut comes out as it was cut, and may then end in what asks for a password,
\* and DOS mode with checklen takes a dot in the directory for a first extension, and refuses a
\* second.
WithoutString(parts) == [parts EXCEPT !.str = <<>>]
SplitAgain ==
    stage = "split" /\ first # Cleared =>
        \/ /\ WithoutString(pstruct) = WithoutString([first EXCEPT !.extlen = CutLen(first.extlen)])
           /\ CString(pstruct.str) = CString(first.str)
        \/ CutLen(first.extlen) < first.extlen /\ IsSuffix(Password, path)
        \/ /\ call.dos /\ call.checklen /\ pstruct.result = INVALID
           /\ "." \in ToSet(SubSeq(path, 1, first.dirlen)) /\ first.extlen > 0
=============================================================================
