-------------------------------- MODULE Main --------------------------------
(***************************************************************************)
(* main.c: what 123 adds around the 1-2-3 core.  main() divides the        *)
(* command line between itself and 1-2-3 and hands over.  From then on the *)
(* core calls back: ready_to_read before it waits for input, which submits *)
(* the macro of the -e options once and macro \1 after a SIGUSR2, and      *)
(* playback_macro_text for the cells of the -e macro.  The signal arrives  *)
(* between any two steps.  __unix_signal (wrappers.c) is how the core sets *)
(* its own signal handlers.                                                *)
(***************************************************************************)
EXTENDS Integers, Sequences, FiniteSets

CONSTANTS
    CmdLines,   \* parsed command lines: [opts |-> sequence of [opt, arg], file |-> BOOLEAN]
    NoArg,      \* an option's missing argument; and the missing text of a macro cell
    MaxMacro,   \* MAX_MACRO
    MaxSignals  \* bound: SIGUSR2s sent

\* getopt's option string asks for an argument after -e
ASSUME CmdLinesAssumption ==
    \A c \in CmdLines :
        /\ Len(c.opts) \in Nat /\ DOMAIN c.opts = 1 .. Len(c.opts)
        /\ \A i \in DOMAIN c.opts : c.opts[i].opt = "e" => c.opts[i].arg # NoArg
        /\ c.file \in BOOLEAN
ASSUME BoundsAssumption == MaxMacro \in Nat \ {0} /\ MaxSignals \in Nat

VARIABLES
    cmdline,            \* what getopt finds in argv
    pc,                 \* where main or ready_to_read is; "core" when the core runs
    optind,             \* the option getopt returns next
    room,               \* entries allocated for lotargv
    lotargv,            \* the entries stored so far
    macro_cell_num, macro_cell_text,
    macro_run_signal,
    handler,            \* who handles SIGUSR2: "default", "macro_signal" or "core"
    ready,              \* in_rdy_mode()
    playing,            \* whether the core is at the -e macro
    handed,             \* history: the cells of the -e macro the core has seen
    submitted,          \* history: how often the -e macro was submitted
    owed,               \* history: a SIGUSR2 came and macro \1 has not run since
    signals             \* counts the signals, for the bound

startup  == <<cmdline, optind, room, lotargv>>
cells    == <<macro_cell_num, macro_cell_text, playing, handed, submitted>>
usr2     == <<macro_run_signal, owed, signals>>
core     == <<handler, ready>>
vars     == <<startup, cells, usr2, core, pc>>

macro_cell_cnt == Len(macro_cell_text)
Options        == cmdline.opts

Init ==
    /\ cmdline \in CmdLines
    /\ pc = "main" /\ optind = 1 /\ room = 0 /\ lotargv = <<>>
    /\ macro_cell_num = -1 /\ macro_cell_text = <<>>
    /\ macro_run_signal = 0 /\ handler = "default" /\ ready = FALSE
    /\ playing = FALSE /\ handed = <<>> /\ submitted = 0 /\ owed = FALSE /\ signals = 0

-----------------------------------------------------------------------------
(* main() *)

(* signal(SIGUSR2, macro_signal), before the options are looked at. *)
InstallHandler ==
    /\ pc = "main"
    /\ handler' = "macro_signal" /\ pc' = "count"
    /\ UNCHANGED <<startup, cells, usr2, ready>>

(* The first pass over the options makes room for one entry each. *)
CountOptions ==
    /\ pc = "count"
    /\ room' = 2 + Len(Options) + (IF cmdline.file THEN 2 ELSE 0)
    /\ lotargv' = <<"123">>
    /\ pc' = "copy"
    /\ UNCHANGED <<cmdline, optind, cells, usr2, core>>

IsMacro(o) == o.opt = "e"
Kept(o)    == o.opt \in {"b", "u", "e"}

HasRoom == macro_cell_cnt < MaxMacro

Entries(o) == IF o.arg = NoArg THEN <<o.opt>> ELSE <<o.opt, o.arg>>

(* The second pass.  -b and -u set a flag of 1-2-3, -e adds a cell to the  *)
(* macro while there is room; the other options are passed on, each with   *)
(* its argument.                                                           *)
CopyOption ==
    /\ pc = "copy" /\ optind <= Len(Options)
    /\ optind' = optind + 1
    /\ LET o == Options[optind]
       IN  /\ lotargv' = IF Kept(o) THEN lotargv ELSE lotargv \o Entries(o)
           /\ macro_cell_text' = IF IsMacro(o) /\ HasRoom
                                 THEN Append(macro_cell_text, o.arg)
                                 ELSE macro_cell_text
    /\ UNCHANGED <<cmdline, room, macro_cell_num, playing, handed, submitted, usr2, core, pc>>

(* canonicalize_auto_worksheet warns and adds nothing when the file's path *)
(* cannot be resolved or the file is not there.                            *)
CopyFile(exists) ==
    /\ pc = "copy" /\ optind = Len(Options) + 1
    /\ lotargv' = IF cmdline.file /\ exists THEN lotargv \o <<"w", "file">> ELSE lotargv
    /\ pc' = "terminate"
    /\ UNCHANGED <<cmdline, optind, room, cells, usr2, core>>

(* The NULL entry, and __unix_main. *)
StartCore ==
    /\ pc = "terminate"
    /\ lotargv' = Append(lotargv, NoArg)
    /\ pc' = "core"
    /\ UNCHANGED <<cmdline, optind, room, cells, usr2, core>>

-----------------------------------------------------------------------------
(* ready_to_read *)

EnterReady ==
    /\ pc = "core" /\ ready
    /\ pc' = "jobs"
    /\ UNCHANGED <<startup, cells, usr2, core>>

MacroWaits_Idle == macro_cell_cnt > 0 /\ ~playing
MacroWaits      == macro_cell_cnt > 0 /\ macro_cell_num = -1

SubmitMacro ==
    /\ pc = "jobs"
    /\ pc' = "signal"
    /\ IF MacroWaits
       THEN macro_cell_num' = 0 /\ submitted' = submitted + 1 /\ playing' = TRUE
       ELSE UNCHANGED <<macro_cell_num, submitted, playing>>
    /\ UNCHANGED <<startup, macro_cell_text, handed, usr2, core>>

Marked_Once == macro_run_signal = 1
Marked      == macro_run_signal # 0

TestSignal ==
    /\ pc = "signal"
    /\ pc' = IF Marked THEN "clear" ELSE "core"
    /\ UNCHANGED <<startup, cells, usr2, core>>

(* The mark is taken away before the macro runs. *)
ClearSignal ==
    /\ pc = "clear"
    /\ macro_run_signal' = 0 /\ pc' = "run"
    /\ UNCHANGED <<startup, cells, owed, signals, core>>

(* The {REFRESH} and macro_key_run(24). *)
RunMacroKey ==
    /\ pc = "run"
    /\ owed' = FALSE /\ pc' = "core"
    /\ UNCHANGED <<startup, cells, macro_run_signal, signals, core>>

-----------------------------------------------------------------------------
(* The signal: macro_signal, between any two steps. *)
MacroSignal ==
    /\ handler # "default" /\ signals < MaxSignals
    /\ signals' = signals + 1
    /\ owed' = TRUE
    /\ macro_run_signal' = IF handler = "macro_signal" THEN macro_run_signal + 1
                           ELSE macro_run_signal
    /\ UNCHANGED <<startup, cells, core, pc>>

-----------------------------------------------------------------------------
(* The core. *)

(* The cell for a number: none beyond the last, nor beyond the array. *)
CellText(n) ==
    IF n < MaxMacro /\ n < macro_cell_cnt THEN macro_cell_text[n + 1] ELSE NoArg

(* playback_macro_text(n): the core reads a cell again or goes to the      *)
(* next.  It is done when there is no text.                                *)
CellNumber(n) == macro_cell_num + n

PlaybackMacroText(n) ==
    /\ pc = "core" /\ playing
    /\ handed = <<>> => n = 0      \* it reads the first cell before it goes on
    /\ macro_cell_num' = CellNumber(n)
    /\ LET text == CellText(CellNumber(n))
       IN  /\ playing' = (text # NoArg)
           /\ handed' = IF text # NoArg /\ (n = 1 \/ handed = <<>>)
                        THEN Append(handed, text) ELSE handed
    /\ UNCHANGED <<startup, macro_cell_text, submitted, usr2, core, pc>>

ChangeMode ==
    /\ pc = "core"
    /\ ready' = ~ready
    /\ UNCHANGED <<startup, cells, usr2, handler, pc>>

(* __unix_signal: UNIX signal numbers of 1-2-3 and the Linux ones they     *)
(* stand for; 17, the UNIX SIGUSR2, is reserved and none at all.           *)
LinuxUsr2 == 12

Translation(reserved) == [n \in 1 .. 34 |->
    CASE n = 17 -> reserved
      [] n \in {7, 32, 33, 34} -> -1
      [] n = 10 -> 7  [] n = 12 -> 31 [] n = 16 -> 10 [] n = 18 -> 17 [] n = 19 -> 30
      [] n = 20 -> 28 [] n = 21 -> 23 [] n = 22 -> 29 [] n = 23 -> 19 [] n = 24 -> 20
      [] n = 25 -> 18 [] n = 26 -> 21 [] n = 27 -> 22 [] n = 28 -> 26 [] n = 29 -> 27
      [] n = 30 -> 24 [] n = 31 -> 25
      [] OTHER -> n]
UnixToLinux_Usr2 == Translation(LinuxUsr2)
UnixToLinux == Translation(-1)

SetHandler(signum) ==
    /\ pc = "core"
    /\ handler' = IF UnixToLinux[signum] = LinuxUsr2 THEN "core" ELSE handler
    /\ UNCHANGED <<startup, cells, usr2, ready, pc>>

ReadyToRead == EnterReady \/ SubmitMacro \/ TestSignal \/ ClearSignal \/ RunMacroKey

Startup ==
    \/ InstallHandler \/ CountOptions \/ CopyOption \/ StartCore
    \/ \E exists \in BOOLEAN : CopyFile(exists)

Next ==
    \/ Startup \/ ReadyToRead \/ MacroSignal
    \/ \E n \in 0 .. 1 : PlaybackMacroText(n)
    \/ ChangeMode
    \/ \E signum \in DOMAIN UnixToLinux : SetHandler(signum)

(* main() runs on; the core is back in READY mode again and again and      *)
(* then looks for input at some time.                                      *)
Fairness ==
    /\ WF_vars(Startup)
    /\ WF_vars(SubmitMacro \/ TestSignal \/ ClearSignal \/ RunMacroKey)
    /\ WF_vars(ChangeMode /\ ready')
    /\ SF_vars(EnterReady)

Spec == Init /\ [][Next]_vars /\ Fairness

-----------------------------------------------------------------------------
(* Properties. *)

(* The -e options of the command line; option i is number Rank(i) of them. *)
Macros  == {i \in DOMAIN Options : IsMacro(Options[i])}
Rank(i) == Cardinality({j \in Macros : j <= i})

(* The core sees the arguments of -e in their order, none left out and     *)
(* none twice, however it reads them again or what comes between; when it  *)
(* is through, it has seen all that there is room for, and no more cells   *)
(* are taken than the array has.  It is given the macro once.              *)
MacroInOrder ==
    /\ macro_cell_cnt <= MaxMacro
    /\ submitted <= 1
    /\ Len(handed) <= Cardinality(Macros)
    /\ \A i \in Macros : Rank(i) <= Len(handed) => handed[Rank(i)] = Options[i].arg
    /\ submitted = 1 /\ ~playing =>
          Len(handed) = IF Cardinality(Macros) < MaxMacro
                        THEN Cardinality(Macros) ELSE MaxMacro

(* A SIGUSR2 that no macro \1 has answered is marked, or the macro is      *)
(* about to run: none is lost to the test, the reset or the core's own     *)
(* signal handlers.                                                        *)
NoSignalLost == owed => macro_run_signal > 0 \/ pc = "run"

(* Macro \1 runs after every SIGUSR2, once 1-2-3 is in READY mode. *)
SignalAnswered == owed ~> ~owed

(* main.c:167: "We need to do a first pass through the options to see how  *)
(* many there are."  The vector allocated for them is large enough.        *)
VectorFits == room > 0 => Len(lotargv) <= room
=============================================================================
