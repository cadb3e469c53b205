-------------------------------- MODULE Coff --------------------------------
(***************************************************************************)
(* coffsyrup.c: makes chosen symbols of the 1-2-3 object file undefined so *)
(* that the linker binds them to the replacements of this project.  A      *)
(* symbol of the list becomes external and undefined; the fields the       *)
(* relocations name it in are set to what the linker expects there; a      *)
(* static function, whose callers need no relocation, gets a jump over its *)
(* first instruction, with a relocation of its own.  Then every table is   *)
(* given a new place and the file is written.                              *)
(*                                                                         *)
(* An object is a record of what objcopy left: its sections, the           *)
(* relocations of each in the order of the file, its symbols (numbered     *)
(* from zero, an auxiliary entry after the symbol it belongs to), and the  *)
(* references in its code, which are what the relocations are for.  A      *)
(* reference [scn, at, type, to] is a 32-bit field at an address which     *)
(* leads to symbol to; the relocation at that address names this symbol or *)
(* the one of its section, and a call inside a section has none.           *)
(***************************************************************************)
EXTENDS Integers, SequencesExt

CONSTANTS
    Objects,      \* the object files
    Base,         \* where the linker puts section i
    Replacement,  \* the address of each symbol defined elsewhere
    Word,         \* 2^32
    CountLimit    \* 2^16, s_nreloc is an unsigned short

ASSUME WordAssumption  == Word \in Nat \ {0}
ASSUME LimitAssumption == CountLimit \in Nat \ {0}

\* The types and classes the program tells apart.
RelocTypes == {"REL32", "ADDR32", "other"}
Classes    == {"EXT", "STAT", "NULL", "other"}
ASSUME ObjectsAssumption ==
    \A o \in Objects :
        /\ o.sections \in Seq([name : STRING, vaddr : Nat, size : Nat, nlnno : Nat])
        /\ o.relocs \in [DOMAIN o.sections -> Seq([vaddr : Nat, symndx : Nat, type : RelocTypes])]
        /\ IsFiniteSet(DOMAIN o.symbols) /\ DOMAIN o.symbols = 0 .. Cardinality(DOMAIN o.symbols) - 1
        /\ o.symbols \in
              [DOMAIN o.symbols -> [name : STRING, scnum : Int, sclass : Classes, value : Nat, numaux : Nat]]
        /\ o.strtabsz \in Nat

\* The sizes of the file's structures (coff.h) and of a PATCHLOC.
HdrSize == 20
OptSize == 28
ScnSize == 40
RelocSize == 10
LineSize == 6
SymSize == 18
PatchSize == 5

VARIABLES
    obj,        \* the input
    symtab,     \* the symbol table, [number -> entry]
    mk,         \* pmkrelocs: the static symbols that need a jump
    scn,        \* the section headers
    sdata,      \* the 32-bit fields of each section's data, [address -> value]
    jumps,      \* the addresses where a jump was written
    relocs,     \* the relocation arrays, one slot for each element of mk besides
    symptr,     \* hdr.f_symptr
    out,        \* what was written: regions [at, len, what]
    pos,        \* the position in the output file
    i, n,       \* the loops
    pc

vars == <<obj, symtab, mk, scn, sdata, jumps, relocs, symptr, out, pos, i, n, pc>>
tables == <<scn, sdata, jumps, relocs>>
output == <<symptr, out, pos>>

LastScn  == Len(obj.sections)
Sections == 1 .. LastScn
NSyms    == Cardinality(DOMAIN obj.symbols)
Headers  == HdrSize + OptSize + ScnSize * LastScn
EmptySlot == [vaddr |-> 0, symndx |-> 0, type |-> "other"]      \* calloc

\* What an assembler leaves in the field of a reference.
FieldValue(o, ref) ==
    IF ref.type = "REL32" THEN (o.symbols[ref.to].value - (ref.at + 4)) % Word
                          ELSE o.symbols[ref.to].value
RefsOf(o, s) == { ref \in o.refs : ref.scn = s }
DataOf(o, s) ==
    [a \in { ref.at : ref \in RefsOf(o, s) } |-> FieldValue(o, CHOOSE ref \in RefsOf(o, s) : ref.at = a)]

Init ==
    /\ obj \in Objects
    /\ symtab = obj.symbols
    /\ mk = <<>>
    /\ scn = [s \in Sections |->
                [name   |-> obj.sections[s].name, vaddr |-> obj.sections[s].vaddr,
                 size   |-> obj.sections[s].size, nlnno |-> obj.sections[s].nlnno,
                 nreloc |-> Len(obj.relocs[s]),
                 scnptr |-> 0, relptr |-> 0, lnnoptr |-> 0]]
    /\ sdata = [s \in Sections |-> << >>]
    /\ jumps = {}
    /\ relocs = [s \in Sections |-> <<>>]
    /\ symptr = 0 /\ out = {} /\ pos = 0
    /\ i = 0 /\ n = 0
    /\ pc = "open"

-----------------------------------------------------------------------------
(* Reading.                                                                *)

\* A read of no bytes returns no record: a string table that only holds its size is refused.
Open ==
    /\ pc = "open"
    /\ pc' = IF obj.strtabsz > 4 THEN "symbols" ELSE "failed"
    /\ UNCHANGED <<obj, symtab, mk, tables, output, i, n>>

Listed(name) == \E c \in DOMAIN obj.args : obj.args[c] = name

\* After its first match a symbol is external: a name listed twice adds one jump.
NeedsJump(e) == Listed(e.name) /\ e.sclass = "STAT"
Undefined(e) == [e EXCEPT !.scnum = 0, !.sclass = "EXT", !.value = 0]

\* i + e.numaux = NSyms passes: the last symbol may have its auxiliary entry past the table. The
\* entry is read over what lies there, which the model does not see.
ReadSymbol ==
    /\ pc = "symbols" /\ i < NSyms
    /\ LET e == symtab[i] IN
         IF \/ e.scnum > LastScn
            \/ e.numaux > 1 \/ i + e.numaux > NSyms
            \/ NeedsJump(e) /\ e.scnum <= 0
         THEN pc' = "failed" /\ UNCHANGED <<symtab, mk, i>>
         ELSE /\ mk' = IF NeedsJump(e)
                       THEN Append(mk, [value |-> e.value, symndx |-> i, scnum |-> e.scnum])
                       ELSE mk
              /\ symtab' = IF Listed(e.name) THEN [symtab EXCEPT ![i] = Undefined(e)] ELSE symtab
              /\ i' = i + 1 + e.numaux
              /\ pc' = pc
    /\ UNCHANGED <<obj, tables, output, n>>

SymbolsRead ==
    /\ pc = "symbols" /\ i >= NSyms
    /\ i' = 1
    /\ pc' = "section"
    /\ UNCHANGED <<obj, symtab, mk, tables, output, n>>

ReadSection ==
    /\ pc = "section" /\ i \in Sections
    /\ sdata' = [sdata EXCEPT ![i] = DataOf(obj, i)]
    /\ relocs' = [relocs EXCEPT ![i] = [r \in 1 .. scn[i].nreloc + Len(mk) |-> EmptySlot]]
    /\ n' = 1
    /\ pc' = "relocs"
    /\ UNCHANGED <<obj, symtab, mk, scn, jumps, output, i>>

InSection(addr) == addr >= scn[i].vaddr /\ addr <= scn[i].vaddr + scn[i].size

\* What the field of a relocation to an undefined symbol holds.
Patched_FromStart(rel) == IF rel.type = "REL32" THEN (-rel.vaddr) % Word ELSE 0

Patched(rel) == IF rel.type = "REL32" THEN (-(rel.vaddr + 4)) % Word ELSE 0

ReadReloc ==
    /\ pc = "relocs" /\ n <= scn[i].nreloc
    /\ LET rel == obj.relocs[i][n] IN
         IF rel.type \notin {"REL32", "ADDR32"} \/ rel.symndx > NSyms
         THEN pc' = "failed" /\ UNCHANGED <<relocs, sdata, n>>
         ELSE /\ relocs' = [relocs EXCEPT ![i][n] = rel]
              /\ sdata' = IF InSection(rel.vaddr) /\ Listed(symtab[rel.symndx].name)
                          THEN [sdata EXCEPT ![i][rel.vaddr] = Patched(rel)]
                          ELSE sdata
              /\ n' = n + 1
              /\ pc' = pc
    /\ UNCHANGED <<obj, symtab, mk, scn, jumps, output, i>>

RelocsRead ==
    /\ pc = "relocs" /\ n > scn[i].nreloc
    /\ n' = 1
    /\ pc' = "jumps"
    /\ UNCHANGED <<obj, symtab, mk, tables, output, i>>

-----------------------------------------------------------------------------
(* The jumps for static symbols.                                           *)

OtherSection ==
    /\ pc = "jumps" /\ n <= Len(mk)
    /\ mk[n].scnum # i \/ scn[i].name # ".text"
    /\ n' = n + 1
    /\ UNCHANGED <<obj, symtab, mk, tables, output, i, pc>>

Put(f, x, y) == [a \in DOMAIN f \cup {x} |-> IF a = x THEN y ELSE f[a]]

\* The operand of the jump, relative to the instruction after it.
Operand(m) == (-(m.value + PatchSize)) % Word
FreeSlot_LastUsed == scn[i].nreloc
FreeSlot == scn[i].nreloc + 1
JumpReloc(m) == [vaddr |-> m.value + 1, symndx |-> m.symndx, type |-> "REL32"]

MakeJump ==
    /\ pc = "jumps" /\ n <= Len(mk)
    /\ mk[n].scnum = i /\ scn[i].name = ".text"
    /\ IF ~InSection(mk[n].value)
       THEN pc' = "failed" /\ UNCHANGED <<tables, n>>
       ELSE /\ sdata' = [sdata EXCEPT ![i] = Put(@, mk[n].value + 1, Operand(mk[n]))]
            /\ jumps' = jumps \cup {[scn |-> i, at |-> mk[n].value]}
            /\ relocs' = [relocs EXCEPT ![i][FreeSlot] = JumpReloc(mk[n])]
            /\ scn' = [scn EXCEPT ![i].nreloc = (@ + 1) % CountLimit]
            /\ n' = n + 1
            /\ pc' = pc
    /\ UNCHANGED <<obj, symtab, mk, output, i>>

\* Line numbers are read and copied as they are; those of a function name its symbol.
ReadLines ==
    /\ pc = "jumps" /\ n > Len(mk)
    /\ i' = i + 1
    /\ pc' = "section"
    /\ UNCHANGED <<obj, symtab, mk, tables, output, n>>

-----------------------------------------------------------------------------
(* The layout of the output file.                                          *)

DataSize   == [s \in Sections |-> scn[s].size]
RelocsSize == [s \in Sections |-> scn[s].nreloc * RelocSize]
LinesSize  == [s \in Sections |-> scn[s].nlnno * LineSize]
\* What the first s sections have together.
Total(size) ==
    LET sum[s \in {0} \cup DOMAIN size] == IF s = 0 THEN 0 ELSE sum[s - 1] + size[s]
    IN  sum

StartLayout ==
    /\ pc = "section" /\ i \notin Sections
    /\ symptr' = Headers
    /\ i' = 1
    /\ pc' = "layout"
    /\ UNCHANGED <<obj, symtab, mk, tables, out, pos, n>>

\* An empty section must have no relocations and no lines, and keeps its pointers.
SkipEmpty ==
    /\ pc = "layout" /\ i \in Sections /\ scn[i].size = 0
    /\ IF scn[i].nreloc = 0 /\ scn[i].nlnno = 0 THEN i' = i + 1 /\ pc' = pc
                                                 ELSE i' = i /\ pc' = "failed"
    /\ UNCHANGED <<obj, symtab, mk, tables, output, n>>

ScnPtr(s) == Headers + Total(DataSize)[s - 1]
RelPtr_DataBefore(s) == Headers + Total(RelocsSize)[s - 1] + Total(DataSize)[s - 1]
RelPtr(s) == Headers + Total(RelocsSize)[s - 1] + Total(DataSize)[LastScn]
LnnoPtr(s) ==
    Headers + Total(LinesSize)[s - 1] + Total(DataSize)[LastScn] + Total(RelocsSize)[LastScn]

PlaceSection ==
    /\ pc = "layout" /\ i \in Sections /\ scn[i].size # 0
    /\ scn' = [scn EXCEPT ![i].scnptr  = ScnPtr(i),
                          ![i].relptr  = IF scn[i].nreloc = 0 THEN @ ELSE RelPtr(i),
                          ![i].lnnoptr = IF scn[i].nlnno = 0 THEN @ ELSE LnnoPtr(i)]
    /\ symptr' = symptr + DataSize[i] + RelocsSize[i] + LinesSize[i]
    /\ i' = i + 1
    /\ UNCHANGED <<obj, symtab, mk, sdata, jumps, relocs, out, pos, n, pc>>

-----------------------------------------------------------------------------
(* Writing.                                                                *)

Region(at, len, what) == [at |-> at, len |-> len, what |-> what]

WriteHeaders ==
    /\ pc = "layout" /\ i \notin Sections
    /\ out' = {Region(0, Headers, "headers")}
    /\ pos' = Headers
    /\ i' = 1
    /\ pc' = "write"
    /\ UNCHANGED <<obj, symtab, mk, tables, symptr, n>>

\* The parts of a section in the order they are written.
Parts(s) ==
    (IF scn[s].size = 0 THEN <<>> ELSE <<Region(scn[s].scnptr, DataSize[s], <<"data", s>>)>>) \o
    (IF scn[s].nreloc = 0 THEN <<>> ELSE <<Region(scn[s].relptr, RelocsSize[s], <<"relocs", s>>)>>) \o
    (IF scn[s].nlnno = 0 THEN <<>> ELSE <<Region(scn[s].lnnoptr, LinesSize[s], <<"lines", s>>)>>)

WriteSection ==
    /\ pc = "write" /\ i \in Sections
    /\ LET parts == Parts(i) IN
         /\ out' = out \cup { parts[p] : p \in DOMAIN parts }
         /\ pos' = IF parts = <<>> THEN pos ELSE parts[Len(parts)].at + parts[Len(parts)].len
    /\ i' = i + 1
    /\ UNCHANGED <<obj, symtab, mk, tables, symptr, n, pc>>

\* The strings go to where the file stands after the symbols.
WriteSymbols ==
    /\ pc = "write" /\ i \notin Sections
    /\ LET symbols == IF NSyms = 0 THEN {} ELSE {Region(symptr, NSyms * SymSize, "symbols")}
           end     == IF NSyms = 0 THEN pos ELSE symptr + NSyms * SymSize
       IN  /\ out' = out \cup symbols \cup {Region(end, obj.strtabsz, "strings")}
           /\ pos' = end + obj.strtabsz
    /\ pc' = "done"
    /\ UNCHANGED <<obj, symtab, mk, tables, symptr, i, n>>

\* A read or a write of a file may fail at any time: what was written stays.
IOFails ==
    /\ pc \notin {"done", "failed"}
    /\ pc' = "failed"
    /\ UNCHANGED <<obj, symtab, mk, tables, output, i, n>>

Next ==
    \/ Open \/ ReadSymbol \/ SymbolsRead \/ ReadSection \/ ReadReloc \/ RelocsRead
    \/ OtherSection \/ MakeJump \/ ReadLines
    \/ StartLayout \/ SkipEmpty \/ PlaceSection
    \/ WriteHeaders \/ WriteSection \/ WriteSymbols
    \/ IOFails

Spec == Init /\ [][Next]_vars

-----------------------------------------------------------------------------
(* The linker, which reads the file written: it puts section s at Base[s], *)
(* binds undefined symbols to Replacement, and adds to the field of each   *)
(* relocation what its symbol and its section moved by.                    *)

Moved(s, addr) == addr - scn[s].vaddr + Base[s]
SymbolAt(e)    == IF e.scnum > 0 THEN Moved(e.scnum, e.value) ELSE Replacement[e.name]

Relocations(s, addr) == { r \in 1 .. scn[s].nreloc : relocs[s][r].vaddr = addr }
Adjusted(s, rel, value) ==
    LET e == symtab[rel.symndx]
        byAddress == value - e.value + SymbolAt(e)
    IN  IF rel.type = "ADDR32" THEN byAddress ELSE byAddress + scn[s].vaddr - Base[s]
Linked(s, addr) ==
    IF Relocations(s, addr) = {} THEN sdata[s][addr]
    ELSE Adjusted(s, relocs[s][CHOOSE r \in Relocations(s, addr) : TRUE], sdata[s][addr])

\* Where the field at addr leads in the program: straight, or by the jump it finds there.
LeadsTo(s, addr, type) ==
    IF type = "REL32" THEN (Linked(s, addr) + Moved(s, addr) + 4) % Word ELSE Linked(s, addr) % Word
Jumped(dest) ==
    { LeadsTo(j.scn, j.at + 1, "REL32") : j \in { x \in jumps : Moved(x.scn, x.at) = dest } }

\* Where the reference should lead: to the replacement of a listed symbol.
Wanted(ref) ==
    LET e == obj.symbols[ref.to]
    IN  IF Listed(e.name) \/ e.scnum <= 0 THEN Replacement[e.name] ELSE Moved(e.scnum, e.value)

-----------------------------------------------------------------------------
(* Properties.                                                             *)

\* "Undefine all the symbols specified": in the program linked from the output every
\* reference to a listed symbol reaches its replacement, by its relocation or through the
\* jump, and every other reference what it reached before.
Redirected ==
    pc = "done" =>
        \A ref \in obj.refs :
            LET dest == LeadsTo(ref.scn, ref.at, ref.type)
            IN  IF Jumped(dest) = {} THEN dest = Wanted(ref) ELSE Jumped(dest) = {Wanted(ref)}

\* Nothing written is overwritten: no two tables of the output share a byte, there is no
\* hole between them, and each table of each section is where its header points.
Disjoint(a, b) == a.at + a.len <= b.at \/ b.at + b.len <= a.at
FileIsWhole ==
    pc = "done" =>
        /\ \A a \in out, b \in out : a = b \/ Disjoint(a, b)
        /\ \A byte \in 0 .. pos - 1 : \E r \in out : r.at <= byte /\ byte < r.at + r.len
        /\ \A r \in out : r.at + r.len <= pos
        /\ \A s \in Sections :
              /\ scn[s].size > 0   => Region(scn[s].scnptr, DataSize[s], <<"data", s>>) \in out
              /\ scn[s].nreloc > 0 => Region(scn[s].relptr, RelocsSize[s], <<"relocs", s>>) \in out
              /\ scn[s].nlnno > 0  => Region(scn[s].lnnoptr, LinesSize[s], <<"lines", s>>) \in out

\* "This should be empty!" (l.327): a new relocation never lands on one that was read
\* nor past the end of the array, and none that was counted is an empty slot.
SlotsInOrder ==
    pc \in {"jumps", "layout", "write", "done"} =>
        \A s \in Sections : (pc = "jumps" => s <= i) =>
            /\ pc = "jumps" /\ s = i /\ n <= Len(mk) =>
                   /\ scn[s].nreloc + 1 \in DOMAIN relocs[s]
                   /\ relocs[s][scn[s].nreloc + 1] = EmptySlot
            /\ \A r \in DOMAIN relocs[s] : (relocs[s][r] = EmptySlot) <=> r > scn[s].nreloc
            /\ \A r \in DOMAIN obj.relocs[s] : relocs[s][r] = obj.relocs[s][r]

=============================================================================
