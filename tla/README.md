# A verification development for 123

This directory holds TLA+ models of the code that makes the UNIX release of Lotus 1-2-3 run on Linux, the TLC
configurations that check them on small instances, and proofs, checked by the TLA+ proof system, about ten of them.
Source paths below are relative to the repository root.

Check a module with `tlc -config MCShowMe.cfg MCShowMe`, a module of proofs with `tlapm ShowMeProofs.tla`; the others are
`KeyTreeProofs`, `WindowProofs`, `MainProofs`, `TerminalProofs`, `UnixProofs`, `FilesProofs` and `CoffProofs`. `PROJECT.json` lists
the components, the runs, the lines each definition models, the mutants used to show that a property can fail, the
hazards of the code and the theorems.

## The system

The program `bin/123` is an object file of 1990, called **the core** here, linked with the C code of the repository. The
core is not in the repository. `coffsyrup` first makes some of its symbols undefined, and the linker binds these to
functions of the repository: rewrites of code in the core that was slow or wrong (`src/`), a display driver (`graphics.c`), and
wrappers for system calls whose structures differ between UNIX and Linux (`wrappers.c`). So nearly every function here is
*called from the core*, in an order the repository does not tell; the models let the core call in any order, with
arguments that are legal for the function, and say so where they restrict it.

| component | state it keeps | operations | interacts with | model |
|---|---|---|---|---|
| rows to paint, `src/showme.c` | `showme_data`: rows on the screen, 256 column bits each; a scratch row | reset, clear, set, invalidate a region, insert/delete rows and columns, scan | core (scrolls, edits, paints) | `ShowMe`, `ShowMeRow`, `ShowMeLoops`, `PendingRows` |
| display by moving, `src/invalid.c` | per window: where the content of each line is now | invalidate rows and columns, shift, `move_rectangles`, `display_cells` | core scrolls; `square_copy` in graphics.c copies | `Window` |
| terminal output, `graphics.c` | `dscreen` wanted, `pscreen` shown, the pen, the cursor, a line not yet printed | write, clear, copy, position, `tty_find_changes` | core draws; curses prints | `Display` |
| key sequences, `keymap/keymap.c` | one array of nodes | `append_key_sequence`, writing the file | core walks the finished tree | `KeyTree`, `KeyDict` |
| start, macros, signals, `main.c` | option vector, -e macro and its position, signal count | `main`, `ready_to_read`, `playback_macro_text`, `macro_signal` | core; SIGUSR2; `__unix_signal` | `Main` |
| object rewriting, `coffsyrup.c` | tables of a COFF file | undefine symbols, patch fields, add jumps, lay out, write | objcopy before, linker after | `Coff` |
| system calls, `wrappers.c`, `filemap.c` | saved terminal settings, two errnos | ioctl, fcntl, open, stat, access, read, readdir, exit handler | core; kernel; other instances of 123 | `Unix` |
| file import, `import.c` | place in the sheet, place in the line | `fm_file_import` | core (cells, values, reading) | `Import` |
| drawing, `ttydraw/`, `draw.c` | one canvas | clip and draw lines; boxes, circles, ellipses, triangles; the drivers that ask for them | draw.c; curses puts a cell | `Line`, `Figures` |
| graphs, `graphics.c` second part | angle of text | text labels; switching between text and graph | core draws | labels in `Figures` |
| file names, `filename.c` | the `PATHNAME` of the caller | `file_name_split` | core | `FileName` |
| resources, `res/` | groups of messages; the file | compile (`resgen`), find and list (`hlp`) | core reads the file | `Resources` |
| patched functions, `patch.c`, `src/display.c` | none | `fmt_cpy`; stubs, column labels, step indicator | core | `fmt_cpy` in `Formats` |
| @functions, `atfuncs/` | none | @DATE, @PRODUCT, @SYSTEM, @WEEKDAY | value stack of the core | not modelled |
| build recipe, tests, packages | files | make, scripts | | not modelled |

### What is hard, and what makes each part correct

- **Rows to paint.** The table is an unordered array searched from the front, rows move under it, deleted rows stay as
  -1 in a 16-bit field, and a scratch row takes the marks nobody wants. Correct: one live entry for a row; the table is a
  dictionary; a scan that is interrupted still reports every row.
- **Display by moving.** Several scrolls pile up between two displays, so blocks overlap and must be copied in an order
  in which none is overwritten before it is read. Correct: what is not painted again is right; what is right is not moved.
- **Terminal output.** Only differences are sent, blanks at ends are never sent, and cells wait in a buffer while the
  cursor is believed to be elsewhere. Correct: after an update the terminal shows what was drawn.
- **Key sequences.** A sequence that begins with another splits its node. Correct: the tree is a dictionary of sequences at every
  step, and waits for more input only where more can come.
- **Start, macros, signals.** A signal arrives between any two instructions. Correct: none is lost, each is answered,
  the -e macro is played once and in order.
- **Object rewriting.** Addresses of an unlinked file, tables that grow, records taken before their symbols are cleared.
  Correct: after linking every reference to a listed symbol reaches the replacement, all others what they reached
  before; the file has no overlap and no hole.
- **System calls.** Numbers with different meanings in the two systems, an errno that persists, a terminal shared with
  curses, other instances locking the same file. Correct: locks exclude, errno tells the reason (but for `open` and a refused ioctl), the terminal is restored.
- **Import.** Every step may fail. Correct: what was written is a prefix of what the file asks for; success is complete.
- **Drawing.** Integer arithmetic: divisions that round, an error term that is added to until the end is reached, ends
  off the canvas, sizes of zero. The loops count steps and never look at the canvas. Correct: they end, stay on
  the canvas, and leave no gap.
- **File names.** A name is taken apart by pointers into it that are moved by one pass, and put together at offsets into a
  string that held another name before. Correct: the parts say what they are, and splitting the result gives them again.
- **Resources.** Sizes and offsets of 16 bits, computed in two passes over groups with gaps. Correct: a message is found under
  its numbers and listed once.
- **Compressed formats.** Words at odd addresses, and a count that decides how far a run is written. Correct:
  nothing is stored past the end, and what is counted is what the source stands for.

## The modules

**ShowMeRow** is one row: a set of columns, with the masks of `invalidate_region`, the effect of `adjust_showme_cols`
and the two searches. **ShowMe** is the table: `count`, `sheetindex`, `rowindex`, `rows` as in the C structure,
`rowdata` the scratch row, `cursor` the `SHOWMECELL` of the caller. One action for each function of the file;
`ToInt16` is the store into an `int16_t`. `seen` and `asked` are history variables: what a scan has reported, and the dictionary of what was asked for. The bits that `adjust_showme_cols` clears in the
area it shifts are cleared in the model too, as the code does. **ShowMeLoops** runs the bit loops of a row one
iteration at a time (the do-while loops, the word masks and fills, the two searches) and shows that they compute what `ShowMeRow` says, so the
large model may use the closed forms. **PendingRows** is the abstract specification: a dictionary from (sheet, row) to
columns. Entries, order, deleted entries and the scratch row do not exist in it. Each of its operations, with its arguments,
determines the next dictionary. A column shift leaves pending what is before the column, and the columns new to the row, as the code does. Tracking keeps the columns of rows that stay and starts a new
row empty, a mark goes to the row it names and to no other, a row shift moves whole rows. `asked` runs these operations beside
the table, called with the same arguments, and `ImplementsPendingRows` says that it is such a dictionary and that at every step the
table's live entries are exactly it.

**Window** names the content of a place on the screen by where it was after the last display. `rows` and `cols` are
`row_invalid` and `col_invalid`; `Invalid` is 0xffff. Scrolling edits the arrays; `move_rectangles` and `square_copy` run line by
line; `display_cells` decides what to paint by the first screen column of a cell, as the code does. The guard
`Scrollable` is an assumption on the core: scrolls keep the order of the lines, and the lines that move up lie above those
that move down. That everything is in place again after `display_cells` is the core's doing, and part of the action `DisplayCells`. Titles, hidden columns, the erasing of the highlight and the allocation of the arrays are left out.

**KeyTree** is the array of nodes; the two children of a node and the two pointers of a timeout node share their variables as they
share a union in C. `append_key_sequence` is a loop and each way round it is an action. **KeyDict** is a dictionary of sequences;
the variable `reply` tells it when a call ends, and with what. `Spec` adds sequences before those that begin with them,
the order the keymap needs; `SpecAnyOrder` also adds a prefix after a longer sequence, where the walk leaves the string (a
finding).

**Main** has the startup of `main`, one action for each step of `ready_to_read`, and `playback_macro_text`; the signal
is an action of the environment, enabled at every step. The core appears only as what it may call, and as the handler
it may install through `__unix_signal`, whose whole table is in the model.

**Display** keeps the wanted screen and the terminal. `tty_find_changes` runs cell by cell, with
the buffer `opline` and the position `vpos`; lfprint, lfmove and the clear functions of curses are external. The last
column is a place the cursor may stand past. `CursorPlaces` keeps the cursor off the ends of padded lines: there the
code moves the terminal and not `vpos` (graphics.c:428), a hazard listed and not covered. The terminal starts as Initsc and Clrandhome
leave it at the first update (graphics.c:306), which is no action.

**Coff** reduces section data to the 32-bit fields that references use; the input is any well-formed object of `Objects`, the linker
is external (`Base`, `Replacement`, and the rule that a relative field gets the distance of symbol and section). The loops over
symbols, relocations and jumps are actions; the output is a set of regions. Not covered: fields with an offset
(line 315 zeroes them), a listed static symbol outside .text, the comparison of a symbol number with the number
of symbols (line 276), a .bss with a size. The test of `e_numaux` at line 165 lets the last symbol have an auxiliary entry; what line 208
then overwrites behind the table is not seen. A string table of four bytes is refused, as in the code.

**Unix** has several instances, each with one open file, and the kernel's locks. `unix_lck_table` and
`linux_lck_table` are the tables of the code; what an instance *believes* it has (`held`) is kept in UNIX types and what the
kernel has (`lock`) in Linux types. `last` is the call an instance made last and why it failed. Two calls fail without the errno of 1-2-3 telling why:
`open`, which does not set it, and an ioctl that is refused, with no argument (line 50, errno untouched) or an unknown
request (line 104, the errno of an earlier call); `ErrnoTells` names them as its exceptions. F_GETLK passes a zeroed request as the code does. F_SETFL passes an address, so the flags that arrive
are any. A kill ends an instance without its exit handler, `err` in a wrapper with it. F_DUPFD, uname, times, sysi86 and
the widths of stat's fields are left out.

**Import** takes lines as sequences of tokens: a string, a string not closed, a number, any other character. The cells, the
value stack and the reading of lines belong to the core. `make_number_cell` is taken to consume the value also when it
fails. Any set of cells may be protected. A code of `file_read_line` other than 1 that comes with a line is not looked at (import.c:76), so such a line is an
ordinary one; without a line it is a failure. Rows past the end of the sheet end the import quietly, as in the code.

**FileName** has one action for each kind of character the scan of `file_name_split` meets, then one for each piece that
is written into the string; what the string held before is "stale" until it is overwritten. A second call splits the string
of the first. Both modes (DOS and UNIX), roots, default extensions, and the two
texts that may stand after a blank are inputs. `file_name_reduce` of the core fails for names with a character of `Irreducible`. Wild cards, the case of letters and `check_lengths` belong to the core.

**Resources** is `resgen` (read the text, compute the sizes, write group after group, with `Wrap` where the code has a
`uint16_t`) and `hlp` on the file it wrote. A position in the file holds a word of a table or the start of a message.
`Fits` says that no group outgrew its size: the code does not check it.

**Formats** is `fmt_cpy`, one turn of its loop for a step; the source may be cut after any byte. `memdup` is external. A run of
format 0 is excluded by `SourcesAssumption`: its word is 0x80000000, and line 90 asks for more than that.

**Line** is the recursion of `clip_line`, one call for a step, and the loops of `draw_solid_line` and `draw_thin_line`,
one turn for a step, on a canvas of any size. `asked` remembers the line as the caller gave it, `cells` what was put.
The callers are sequences of lines: polylines, outlines of boxes and triangles, the drivers of `draw.c`. **Figures** extends it
with what puts cells itself: filled boxes and frames, circles, ellipses with the two regions of their loop, triangles
row by row, and the labels of graphs with their 16-bit start. Characters are left out. Worth knowing, and visible in the
properties: a clipped line is not the line that was asked for but one between rounded crossings, up to two cells and a half away from it; a
thin steep line may put a second cell to the right of a bend, one column off the canvas at its edge; a frame that is cut misses
the cell at the edge of the canvas; a triangle whose right side lies just left of the canvas still puts
column 0, and one that descends by 32 rows or more may put the next column for a side that crosses within 1/32 of
it; an ellipse of height 0 is its centre alone, and a filled one whose width is more than 23 times the square of its height may have holes
(conic.c:80 says itself that its step is not the textbook's); a label that would start left of the canvas is lost.

Modules compose in three ways: `ShowMe` EXTENDS `ShowMeRow`, and an abstract specification is an INSTANCE with a refinement
mapping (`Abs` in `ShowMe`, `Dict` in `KeyTree`). `MC*` modules give values to
constants; `MCRedraw`, `MCTerminal` and `MCFiles` also check several modules in one run: the variable `part` chooses at the start which
of them a behaviour is about, since these parts share no state (the functions of `draw.c` put cells on the terminal
directly, text goes through `dscreen`).

## The runs

| run | instance and bounds | what it shows |
|---|---|---|
| `showme` | 2 sheets, 2 rows, 2 columns, 2 entries, 16-bit fields that end at 2 | `TypeOK`, `LiveRowsUnique`, `ScanReportsEveryRow`, the dictionary |
| `redraw` | windows of 5 lines, 2 cells of 2 columns, any number of scrolls; every row of 6 columns in words of 2, every legal call | the picture is right, what is in place is left alone; the column loops stay in the row, do what they are asked, and return |
| `keymap` | 9 sequences of up to 3 bytes, 2 functions, 4 calls | the tree is the dictionary, waits where needed, every call returns |
| `keymap_alt_order` | the same, prefixes may come later | *violation*: the walk passes the end of the string |
| `main` | 4 command lines, 3 signals, room for 2 macro cells | no signal lost, each answered, macro in order |
| `argument_vector` | options with an argument | *violation*: more entries than were counted |
| `terminal` | text: 2 lines of 3 columns, one with a graph, 3 changes in all; drawing: a canvas of 5 by 4, ends up to 3 cells off it, radii up to 12 | the terminal shows what was drawn; lines and figures stay on the canvas, are right and end |
| `coff` | objects of 3 sections and up to 7 symbols, 7 lists of symbols | references redirected, file whole, slots used in order |
| `unix` | 2 instances, 2 bytes of a file, 5 calls | locks exclude, errno (but for open and refused ioctls), terminal, lock queries |
| `set_flags` | 4 calls | *violation*: success of F_SETFL does not mean the flag is set |
| `files` | import: 2 lines of 3 tokens into 2 by 2 cells, every set of protected cells; names of up to 4 characters and some of 7, `PathMax` 8; texts of 5 lines; sources of 3 formats into 4 words | a prefix at every moment, complete on success, nothing left; parts of names, splitting twice; messages are found; runs are expanded |
| `empty_selectors` | the texts of `files` | *violation*: a selector without a message is not a nul string |

**Why the bounds are enough.** In `showme` two entries suffice for a duplicate, two rows for one to be shifted onto
another, and a field that ends at 2 wraps after two insertions. In `redraw` regions lie in one word, in
neighbouring words, and with a word between. Five lines of a window allow two blocks that move towards each other with a line between
them, and blocks that overlap with themselves. The sequences of `keymap` lie on both sides of each other at two
levels and three of them begin with one another, so a split, a walk through a timeout node, and both at once occur. The display
can have a coloured blank, a trailing blank and a graph on each side of a change. The objects of `coff` have the four kinds of reference
(by symbol, by section, without relocation, to a function defined elsewhere), a name listed twice and a static function with an auxiliary entry.
Two instances and two bytes are the least for a lock that excludes in part; five calls allow open, lock, the
other's open and lock, and a query. The import has lines longer than the sheet is wide, and more tokens than fields. Names of three characters over the
whole alphabet have every order of a separator, a dot, a blank and a letter, those of four two directories, or a dot on
both sides of a separator. A message of 40000 bytes lets two outgrow 16 bits, and the numbers of messages include one that wraps.
Four words of formats are filled exactly, almost, and beyond, by one run, by a run after
others, and by single formats. A canvas of 5 by 4 has lines with both ends off it on opposite and on neighbouring sides, clipped
up to four times, in all eight directions, and steep, flat and diagonal ones, and two long ones that are drawn more than a cell and a half off; ellipses wider and higher than it,
whose loops leave it; triangles with a middle corner on either side. For the table, its loops, windows, key sequences, macros and signals, text on the terminal, locks,
imports, names, resources, formats, object files, lines and figures (but for the shape of ellipses) the theorems below say that the bounds do not matter.

Deadlock is checked where the system runs for ever (`showme`, `redraw`, `main`, `terminal`) and off where the model is one job that
ends, or calls are counted.

**Findings.** Four runs end with a violation, each of a line of the source. `keymap.c:214`: a prefix
that comes after a longer sequence sends the walk past the NUL that, says line 180, ends it. `main.c:170`: an option with an argument
needs two entries of the vector and is counted as one, against the comment at line 167. `wrappers.c:169`: the address
of the flags is passed for the flags. `res/resgen.c:132`: a selector without a message leads to the first word of
its group, which is the offset of message 0 when there is one, and not the nul that lines 22, 111 and 136 promise.
Besides, and with no run of its own: the comment at `src/showme.c:198` speaks of or-ing two masks of one word, where the
code ands them. `DoesWhatIsAsked` and the lemma `RegionColsRange` show that the code is right. And `patch.c:95` refuses a run of
formats that just fits to "prevent overflow", and with it all that follows: one run of 256 formats, as many as a row has columns,
leaves none. Whether the core writes such a run is not known here; `FormatsRight` says so much and no more. The word
0x80000000 (line 90) is a similar case.

**Fairness.** Safety needs none. `redraw` (the column loops), `terminal` (lines and figures), `keymap`: weak fairness of the step, as a single
thread that is not blocked goes on; nothing obliges the core to ask for another line. `main`: weak fairness of startup, of each handler step and of the return to READY mode, as again one thread
runs; strong fairness of the call of `ready_to_read` in READY mode, since the user and other macros can leave the mode in between and a
program in use comes back to its input loop. It is an assumption about the core and the only one of its kind here. No fairness is
assumed of signals.

## The proofs

`ShowMeProofs` holds, for **every** number of sheets, rows, columns, word size, table size and width of a row field that satisfies the
ASSUMEs of `ShowMe` and `ShowMeRow` (a row number fits its field; a word is not empty):

- `TypeCorrect`: `Spec => []TypeOK`.
- `NoDuplicateRows`: `Spec => []LiveRowsUnique`.
- `ScanIsComplete`: `Spec => []ScanReportsEveryRow`.
- `TableImplementsDictionary`: `Spec => ImplementsPendingRows`, the refinement: the table holds at every step what the operations
  that were asked for leave in the dictionary, mark for mark.

The inductive invariant is `TypeOK /\ LiveRowsUnique`. Neither half is enough alone: the types of a shifted row need the
bounds of the field, and that two rows do not become one rests on the type of `rowindex` (a deleted row is -1 and no
row is). `LiveRowsUnique` survives `clear_showme` because the rows it appends have no match and are distinct, and
`adjust_showme_rows` because rows from `start` on all move by the same amount, and one that would land below `start`, or
wraps, becomes deleted. `NextKeeps` has a case for each action, with a lemma where it takes more than a line.
`ScanReportsEveryRow` is inductive on top of it (`ScanInv`): tracking appends behind the cursor's place and marks move no
entry, so only a scan step has work to do, and it goes on from the first entry behind the cursor that is of the sheet and
not smaller than what was reported.

The refinement needs the invariant: the dictionary maps a key to the bits of the *first* match, and
`FirstMatchIsOnly` turns this into the bits of *the* entry. `PendingFacts` states that once, for both ends of a step. Then each operation
is shown to do to the table what the dictionary's operation with the same arguments does to a dictionary: `Marking`, `ShiftingRows`,
`ShiftingCols`, `Tracking`; scans are stutters. So `asked` and the table stay one dictionary (`OneDictionary`), which satisfies `PendingRows` (`StepRefines`). `RegionColsRange` is the arithmetic of the masks: whatever the size of a word, the
columns they select are a range.

The second part of `ShowMeProofs` is about `ShowMeLoops` and justifies the closed forms the table uses, for every number of columns, every width of a word and every row:

- `LoopsStayInRow`: `LoopSpec => []StaysInRow`.
- `LoopsComputeClosedForms`: `LoopSpec => []DoesWhatIsAsked`.

`LoopInv` is a loop invariant for each loop, tied to its label: which columns the shift has already written (they hold what the
closed form says), which it has not reached (they hold what was there), and that `left` counts exactly those to come.
The two searches need that the closest marked column exists, which `LeastNat` takes from the well-foundedness of < on Nat.

`WindowProofs` holds for every height of two lines or more, every number and width of cells, and any number of scrolls
between two displays that satisfy `Scrollable`:

- `BlocksStayInWindow`: `Spec => []TypeOK`.
- `PictureIsRight`: `Spec => []PictureRight`.
- `InPlaceIsKept`: `Spec => InPlaceKept`, an action property.

The argument is one for the four loops. `goalRows` and `goalCols` keep what the arrays asked for when the moves began. Left of a *turn*
(`TurnRight`) no line comes from above, from it on none from below; that such a place exists is what `Scrollable` buys, and where the
code's own test `TurnOf` finds it. Going up to the turn, the lines *done* are those before the counter; going down to it, those
after. For the lines done the array names their place and the screen has their content; the others have both still where
the array says (`BufIs`, `Pic`). A block of `move_block` is a run of lines that ask for consecutive places on the same side
(`UpBlock`, `DownBlock`), so a copy of a line writes a place that no line still to come is read from, whichever end
`square_copy` starts at (`Reached` for the columns, where one row of the screen is copied before the next). `Uniform` carries the
first column of a cell to the others. `WindowInv` puts these together, each under the value of `pc` it holds at. The theorem does not say
that the core keeps to `Scrollable`: that is the assumption, stated where the model has it.

`KeyTreeProofs` holds for every set of sequences of bytes (`SeqsAssumption`: no byte is the NUL, which ends a string in C), every set of functions but
the one that means none, and any number of calls:

- `TreeIsWellFormed`: `Spec => []TypeOK`.
- `TreeIsTheDictionary`: `Spec => ImplementsKeyDict`, the refinement.
- `WaitsExactlyWhereNeeded`: `Spec => []WaitsWhereNeeded`.

None of the three is inductive: `TypeOK` says where pointers lead, not which sequences lie there. `KeyInv` says that the nodes
can be *placed* (`\E G : Right(G)`): `G` gives each node the bytes a walk has read when it gets there and the bounds its byte lies
between, the children of a node have the places its byte leaves them (`NodeRight`), and every node but the first is the child of an earlier
one. `G` is no variable of the code; a step that adds a node adds its place. During a call the walk is at a node on the way of the
new sequence (`WalkAt`), and a node that goes on leads to a sequence with a function or is on that way (`Leads`).
`WalkTurns` shows that the recursion of `WalkFrom` has a solution: from the last node backwards each turn asks for a later one,
and a least node without a value is impossible. `FoundIs` is the heart: a walk for `s` ends at the node whose place spells `s`, if there
is one, and at no other. So what a step does to the dictionary is what it does to one node: a split moves the function to a
timeout node that is looked at from then on (`MatchSplitAdds`), new nodes are empty until the last gets its function, and all
other sequences keep their node. The order of the calls (`InOrder`) is
used in one place, where a sequence ends at a node that goes on (`MatchOn`): by `Leads` a longer one is accepted, so this one has a
function already, the next node is its timeout node, and the NUL is never looked for.

`MainProofs` holds for every command line whose -e options have arguments (without one `getopt` reports an error and 123 ends) and any number
of signals and macro cells:

- `SignalsAreKept`: `Spec => []NoSignalLost`. The invariant adds that the handler of SIGUSR2 is the program's own once installed: no
  number `__unix_signal` translates gives the core SIGUSR2.
- `MacroIsPlayedInOrder`: `Spec => []MacroInOrder`. `MacroInv` ties the position of the startup loop to what is stored: a stored
  text is that of the option with as many -e options before it (`Rank`, a cardinality), and what was played is a first part of what is stored.

`TerminalProofs` has three parts. The first, about `Display`, holds for every size of the screen, all characters and colours, and every set of rows a graph covers:

- `TerminalShowsWhatWasDrawn`: `Spec /\ []CursorOffEnds => []ScreenRight`.
- `VposIsTheCursor`: `Spec /\ []CursorOffEnds => []CursorRight`.
- `WithoutAGraphAllIsShown`: with no row of a graph, `Spec => [](ScreenRight /\ CursorRight)`.

`CursorOffEnds` is the hazard of graphics.c:428 put as a condition: when a line is padded up to the graph the terminal's cursor goes there
and `vpos` does not, and nothing in the code prevents 1-2-3 from asking for the cursor at just the place `vpos` still names. The
invariant `DisplayInv` allows this one state (`Padding`) and no other in which `vpos` is not the cursor with `opline` printed
(`PlaceInv`); the condition is used once, in `PlaceCursorKeeps`, and the third theorem shows that padding is all there is to it. `MatchInv`
says which cells of the terminal, *with `opline` printed*, agree with `dscreen`: all of the clean lines, the lines before
`cline`, and the columns before `ccol`. `BlankBeyond` is why blanks at the ends need not be sent.

`UnixProofs` holds for any number of instances, of bytes in a file and of calls:

- `LocksExclude`: `Spec => []Exclusive`. The invariant `LockInv` adds that `lock` is `held` translated by
  `unix_lck_table` (`Agree`), and that an instance without a file has no lock. `Exclusive` alone is not inductive: the kernel
  refuses a lock by what *it* has, so without `Agree` a refusal says nothing of what the other instance believes. A file
  is opened with no locks (so joining the users of a path is harmless), `ClosedKeeps` serves close, exit and kill.
- `QueriesTellTheTruth`: `Spec => LockQueryTrue`, an action property, from `Agree`.
- `TerminalRestored`: `Spec => []TerminalRight`; the invariant adds that what was saved at the start is the terminal as it was found.
- `ErrnoIsTheReason`: `Spec => []ErrnoTells`, with types as the only strengthening. Open and the ioctl requests that are refused are excepted by the property itself.

`FilesProofs` has four parts. The first, about `Import`, holds for every file, sheet, place to start at and set of protected cells, and whichever calls fail:

- `ImportWritesAPrefix`: `Spec => []PrefixWritten`.
- `SuccessMeansAll`: `Spec => []SuccessIsComplete`.
- `ImportLeavesNothing`: `Spec => []LeavesNothing`.

`CellsInv` says exactly what the sheet holds: the fields before token `At` of line `n`, each in its `Place` with its `Content`
(`Holds(Upto(n, At))`); `LineInv` that `rest` is what is left of the line and `rdcol` the column of its next field. At the end
some place of the file is left where the import stopped, and with result 0 nothing after it has a row on the sheet.
A step that writes a field adds one to a set of fields that all have places of their own (`Column` counts the fields before a
token, so it grows with each); a step that skips a token adds none.

The second part, about `Formats`, holds for every source of formats and runs, cut after any byte, and any `DstMax`:

- `FormatsExpanded`: `FmtSpec => []FormatsRight`.

`Expansion` flattens the copies of the items and `Bytes` adds their sizes up, both with folds of the community modules. A fold is a function
chosen by its equations, so that it has a value is shown first, by a least counterexample over the cardinality (`SumExists`); then come
what adding one element does to a sum (`SumFacts`) and that a sum depends on the values summed only (`SumsAgree`). `FmtInv`, with `AtItem`, says
that inside the loop `src` is what is left after some number of items, `src_len` what is left of the length or nothing when an item was cut,
and `dst` the copies of the items before: what the three variables have in common, none of which is enough alone.

The third part, about `Resources`, holds for every text of numbered messages and groups:

- `ResourcesReadBack`: `ResSpec => []ReadsBack`. Its condition `Fits`, that no group reaches 64 KB, is part of the property.

`ResInv` follows the file through its two passes: the sizes written are the lengths of the groups (`SizesRight`), and of the groups before `cur` table and
messages are where the sums of those lengths put them, with nothing at or after `end` (`WrittenUpto`), so that a group that is written next overwrites none
(`FileRight`). The position the compiler gives a message and the one the reader adds up from the header are sums over different sets, brought together by
`SumsAgree`. Of the lister it says that the listing has exactly the entries before its place (`Shown`), as many as it is long.

The fourth part, about `FileName`, holds for path names, base directories and default extensions of any length and any `PATH_MAX`, under `NamesFit`:

- `PartsOfNames`: `NamesFit => (SplitSpec => []NameParts)`.

`NamesFit` asks what the code takes for granted. It copies drive and directory before it compares a length with PATH_MAX, so a name or base whose
directory does not fit is out of the model's reach. In UNIX mode a base directory that ends in a backslash gets no slash after it, and the directory would
end in that backslash. A default extension has neither a dot nor a separator. The arguments of the run satisfy it.

`Scanned` says what the pointers are after any number of characters: `fileext` is the last dot and `lastdirptr` the last separator so far, or 0 (`LastOf`); a
password that is stepped back over has neither (`BeforePassword`). From it `NameFacts` derives that name and extension are adjacent pieces of the path name and that
a dot in the directory is not taken for one in the name. `FillFills` follows the copies one over the other: behind all of them each
place of the string holds what was meant for it (`PutTogether`), in particular none of what was there before, up to the nul. `PathIsWritten` relates the string to the path
name character by character across the parts, from which `GivenStands` has the suffix, and `StringFits` that the string is a path name
again: not of blanks only, which matters because the second call skips blanks without looking for the end.

The second part of `TerminalProofs`, about `Line`, holds for a canvas of any size (`CanvasAssumption`: two naturals) and any lines (`JobsAssumption`), with ends
anywhere:

- `LineTypes`: `LineSpec => []Types`; clipping divides only by a difference that is not zero.
- `StaysOnCanvas`: `LineSpec => []OnCanvas`.
- `DrawsTheLine`: `LineSpec => []LineRight`.
- `ClippedNearAsked`: `LineSpec => []ClipRight`.

`OnCanvas` is far from inductive: the loops never compare a coordinate with the canvas, they count the long side down
and let `delta` decide when to step along the short side. So `IInv` says where the pen is (`PenInv`): the ends are on the canvas,
`left` and the steps made along the long side add up to it, and `delta` is the function `DeltaAt` of the two sides and of the steps
made along each, within 2*short - 2*long .. 2*short. From these bounds `NoStepTooMany` concludes, by a multiplication, that
the steps along the short side never exceed it, so that the pen stays between two ends that are on the canvas
(`PenOnCanvas`). The same equation bounds the distance of a cell from the line by half a cell (`PenError`, `ErrorOfSteps`). `Path`
is the second half of the invariant: the cells put so far are, step by step, the first ones of a path without gaps; at `left = 0` it is the
whole line and the pen is at its end (`PenAtEnds`). `Inductive` has one case for each action.

`ClipRight` compares what is drawn with a line no variable but `asked` remembers, and clipping never looks back at that one: each crossing is computed
from the line as clipped so far, whose first end is itself a rounded crossing. `AskedInv` bounds what the roundings add up to. Seen so that the line runs right
and down (`UX`, `VY`), `Off` says how far a cell is off it, times its long side, and on which side. Before the ends are exchanged (`First`) the second end is
exactly where it was asked for, and the first is untouched, or within one cell to one side after a column, or within one cell to either side after a
row; afterwards (`Second`) the second end is within one cell, and the first within two. That a row is the last thing clipped to is part of it: no bits are left, or both ends
lie beyond the same side. `CrossingMoves` is the arithmetic of one crossing: a place between two, rounded towards the second, is off by no more
than the first was, and by less than one cell to the other side. `CrossingKeeps` is the other half of the property: a cell of the canvas that lies on the line asked for is not cut off with the
first end, which `NothingGivenUp` needs when both ends are beyond a side. `SignedQuotient` shows that the division of C, which rounds towards zero, is
the same in all four directions. Half a cell more comes from the loop (`Blend`), which gives two and a half; no bound of two
holds, as on a canvas of 140 by 34 the line from (79, 52) to (464, -280) is drawn 2.15 cells off.

The third part, about `Figures`, holds for a canvas of any size up to 32768 by 32768 (`ScreenAssumption`: curses counts in a short; only
labels need it, whose start wraps at 65536) and any figures with integer arguments (`FigureJobsAssumption`; those of labels are 16-bit words):

- `FiguresDrawnRight`: `FigureSpec => []FiguresRight`, from `BoxesAndLabelsRight`, `CirclesRight` and `FillsEveryRow`.
- `TrianglesRight`: `FigureSpec => []TriangleRight`.

`Kinds` ties the stages to the kinds of figures, so that each invariant speaks of one. Boxes and labels are put in one step: `InnerCells` and `CoveredCells` say what
is left of an edge that is cut, `StartFacts` that the cells from a start that is half the length back are those around the point, or none of the canvas. `CircleInv`
has the decision variable as a function of the place, 2d = x(x-1) + y(y+1) - r(r+1), and between -y and x. The square of a
cell's distance is then r(r+1) + 2d + x - y, which `PenNearCircle` bounds; the outer bound needs that x is at most three quarters of the radius while
the loop runs (`EighthOfCircle`). Every column below x and above y is passed (`Columns`), so at the end, where x > y, all are. `EllipseInv` is of the same kind, for rows:
those beyond y are filled in the flat part, those from y on in the steep one. `TriangleInv` says where xa and xb are, in closed form: one slope
after another from the first row on, or backwards from the last corner where the middle one is above the canvas (`TrianglePen`). A slope is off by less than one unit a row,
so after 31 rows a place is within 31 units of its side (`PenKeepsTo`). A side that is not at or right of a column is at least 1/31 of a cell left of it, which is more than
the 1/32 the code adds and those 31 units (`SideOfColumn`): the columns cut off in `RowCovered` are those of the exact sides. At the middle corner there may be three sides in
a row, of which two meet (`TwoSides`). For a descent of 32 rows the inequality fails, and so does the code.

Both parts compute with integers of any size. The `int` of the code holds these values while coordinates are below 2^15 in size and radii
below some 2^10, which those of a screen are; what an overflow would do is not modelled.

`CoffProofs` holds for every list of symbols and every object of the shape `ObjectsAssumption` gives (headers and tables of natural numbers,
symbols numbered from zero), with a failure of reading or writing anywhere:

- `JumpsFindTheirSlot`: `Spec => []SlotsInOrder`, if `CountsFit`: in each section the relocations and the static
  symbols of the list together are fewer than `CountLimit`. The code makes no such test; where it fails `s_nreloc` wraps.
- `TheFileIsWhole`: `Spec => []FileIsWhole`, if `HasSymbols`: every object has a symbol. Without one the strings would be written where
  the last section ends rather than where the symbols would start, which may be in the middle of the relocations.
- `ReplacementsReached`: `Spec /\ WellFormed => []Redirected`, if `CountsFit`, wherever the linker puts the sections.

`WellFormed` is what `coffsyrup` takes for granted of an object and never tests; each part excludes something that really breaks
the result. `SymbolsFormed`: a static symbol of the list is a function in .text (elsewhere its references are patched and no jump
is made), no two of them at one place. `RefsFormed`: a relocation has one field and a field at most one relocation, which names the
symbol referred to or, for a reference by place, another of its section that is not on the list; a field without a
relocation is relative and stays in its section; no field lies under the five bytes of a jump. `LinkFormed`: the linked program
fits `Word`, no replacement is itself under a jump, and no other symbol that is referred to is at the place of one (a reference to
such a second name would follow the jump). All objects of the run `coff` in which `f` is a function of .text satisfy it
(evaluated by TLC, as was the invariant below, before the proof); in the others `f` has no section and the program stops.

For the slots, `MarksInv` counts: each element of `mk` is for a static symbol of the list that comes before the loop's place, and symbols
from there on are still what was read (`StaticsCount` does the cardinalities). `Filled` then says of a section that was read that its
array has `Len(mk)` slots more than relocations and is empty exactly behind `nreloc`; while jumps are made `nreloc` grows no faster than the loop
that looks for them, so `FreeSlot` is in the array and was never used (`RoomForJump`).

For the file, `Total` is a recursive function, shown to have a value by a least counterexample (`TotalTurns`), as in `KeyTree`.
Each of the three rows lays its tables end to end (`RowPair`, `RowCovers`), so a row *is whole* between its start and its end: no two
of its tables share a byte and no byte is left out (`WholeRow`). `WholeJoined` puts two whole stretches together, and headers, three
rows, symbols and strings make the file. `LayoutInv` has the rest: the pointers of the sections placed so far are the ones of their
rows (`Placed`), `symptr` is the sum of what they hold, and what was written is what the headers say (`Tables`). The
closed form of the pointers uses the sizes of *all* sections, which no later step changes (`PlaceFacts`).

For the references the invariant follows the three loops. `SymInv`: of the symbols behind the loop's place each is what `After` makes of it, and
`mk` has exactly the jumps of those that are static and on the list. `CodeInv`: in a section each field whose relocation was read
holds its patch if that names a listed symbol and what the assembler left otherwise (`Settled`); each jump looked at has its operand in the
data, its slot in the relocations and its place in `jumps` (`Made`); a relocation behind those read is that of a jump (`Added`). The steps keep
these because a jump never touches a field (`FieldsApart`) and a free slot is nobody's. At the end (`AtEnd`) the linker comes in:
a relative field holds a remainder, the linker adds a difference and the processor the address, and
`RelativeField` and `PlainField` show with `AddedRemainder` that the sum is the target whatever was cut off in between. So a field leads to the
replacement or to its symbol's place (`FieldLeads`), a jump to the replacement (`JumpLeads`), and there is a jump at a place
exactly if a static symbol of the list was there (`JumpThere`, `NoJumpThere`).

Only model-checked: `Returns`, `SignalAnswered` and `DrawingEnds`, as liveness and ENABLED
are out of the prover's reach; `SplitAgain` (it compares two runs of the code, the second on what the first made, and base
directories that begin with a blank or hold a `<` are exceptions to it that the run does not meet), and `EllipseRight`: d1 does not follow the midpoint
of the textbook (conic.c:80), so that the usual invariant of that loop does not hold of it.

## Not modelled, and why

- Most of `patch.c`, `src/display.c`, `atfuncs/` and the second part of `graphics.c`: stubs that return a constant, or straight calls of
  functions of the core that are known by name only; a model would state what is assumed of them.
- `ttydraw`: the characters of lines and frames, conversions of character sets (`charset.c`), attributes (`attr.c`), mirroring of
  characters (`transfrm.c`), frames (`frame.c`): tables, stubs, or library code 123 does not call. `canvas.c` keeps one
  canvas with a count of references; the core decides when a graph begins and ends, and the models draw on one of a fixed size.
- `filename.c`: wild cards, the case of letters and `check_lengths`, which are the core's; names of blanks only, where
  the code reads past their end.
- `resgen`: a message before the first group. A group of more than 64 KB wraps its size, which the model does and `Fits`
  then excludes; a group without messages has no table, and `hlp` lists what comes after it.
- `import.c`, `coffsyrup.c`, `wrappers.c`, `graphics.c`, `invalid.c`, `keymap.c`: what the paragraphs above name.
- The build recipe, the tests, packages and headers: files with no state.

## Plan

1. Proofs: `EllipseRight`, which needs a bound on what d1 lacks; `SplitAgain`, for base directories without blanks.
2. `Window`: the highlight and the titles; `Display` composed with `Window`, whose copies it carries out.
3. `Unix`: F_DUPFD, several files for an instance; the {LOTUSROOT} prefix.
4. `Coff`: fields with an offset, and a .bss with a size.
