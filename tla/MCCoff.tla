------------------------------- MODULE MCCoff -------------------------------
(* Model checking of Coff: an object with a code, an empty and a data      *)
(* section; a static function f, a global function g, a global datum d and *)
(* a function x defined elsewhere.  What varies: which names are listed,   *)
(* one of them twice, whether f has an auxiliary entry, the string table,  *)
(* and whether f has a section, one the file does not have, or none.       *)
EXTENDS Coff

CONSTANT none   \* in place of a symbol: the reference has no relocation

MCBase == <<90, 0, 150>>
MCReplacement == [f |-> 200, g |-> 205, d |-> 210, x |-> 215]

MCSections == <<[name |-> ".text", vaddr |-> 0,  size |-> 40, nlnno |-> 2],
                [name |-> ".bss",  vaddr |-> 40, size |-> 0,  nlnno |-> 0],
                [name |-> ".data", vaddr |-> 40, size |-> 16, nlnno |-> 1]>>

\* The symbols: .text with an auxiliary entry, f, its auxiliary entry if any, g, d and x.
Entry(name, scnum, sclass, value, numaux) ==
    [name |-> name, scnum |-> scnum, sclass |-> sclass, value |-> value, numaux |-> numaux]
Table(aux, scnum) ==
    <<Entry(".text", 1, "STAT", 0, 1), Entry("aux", 0, "NULL", 0, 0), Entry("f", scnum, "STAT", 8, aux)>>
      \o (IF aux = 0 THEN <<>> ELSE <<Entry("aux", 0, "NULL", 0, 0)>>)
      \o <<Entry("g", 1, "EXT", 20, 0), Entry("d", 3, "EXT", 44, 0), Entry("x", 0, "EXT", 0, 0)>>
Symbols(aux, scnum) == [s \in 0 .. Len(Table(aux, scnum)) - 1 |-> Table(aux, scnum)[s + 1]]

Ref(s, at, type, symndx, to) == [scn |-> s, at |-> at, type |-> type, symndx |-> symndx, to |-> to]
Refs(aux) ==
    { Ref(1, 24, "REL32", none, 2),            \* a call of f inside .text
      Ref(1, 28, "REL32", 3 + aux, 3 + aux),   \* a call of g
      Ref(1, 32, "ADDR32", 4 + aux, 4 + aux),  \* a use of d
      Ref(1, 36, "REL32", 5 + aux, 5 + aux),   \* a call of x
      Ref(3, 40, "ADDR32", 0, 2),              \* a pointer to f, by its section
      Ref(3, 44, "ADDR32", 3 + aux, 3 + aux),  \* a pointer to g
      Ref(3, 48, "ADDR32", 2, 2) }             \* a pointer to f, by its name

\* The relocations of a section, in the order of their addresses.
RelocsOf(refs, s) ==
    LET asReloc(ref) == [vaddr |-> ref.at, symndx |-> ref.symndx, type |-> ref.type]
        named == { ref \in refs : ref.scn = s /\ ref.symndx # none }
    IN  SetToSortSeq({ asReloc(ref) : ref \in named }, LAMBDA a, b : a.vaddr < b.vaddr)

Lists == {<<>>, <<"f">>, <<"g">>, <<"f", "g">>, <<"f", "g", "f">>, <<"d", "x">>, <<"x", "f", "d">>}

ListsFor(scnum) == IF scnum = 1 THEN Lists ELSE { args \in Lists : "f" \in ToSet(args) }

MCObjects ==
  UNION {
    { [sections |-> MCSections, symbols |-> Symbols(aux, scnum), refs |-> Refs(aux),
        relocs |-> [s \in DOMAIN MCSections |-> RelocsOf(Refs(aux), s)], args |-> args, strtabsz |-> strtabsz]
        : aux \in {0, 1}, args \in ListsFor(scnum), strtabsz \in {4, 12} }
    : scnum \in {1, 0, 4} }
=============================================================================
