----------------------------- MODULE UnixProofs -----------------------------
(***************************************************************************)
(* Proofs about Unix, for any number of instances, of bytes and of calls:  *)
(* the lock types an instance believes in are the kernel's, translated, so *)
(* the kernel's exclusion carries over to the instances.                   *)
(***************************************************************************)
EXTENDS Unix, TLAPS

FileOK ==
    /\ file \in [Procs -> [path : Paths \cup {"default", "none"},
                           mode : SUBSET {"read", "write"}, nonblock : BOOLEAN]]
    /\ \A p \in Procs : file[p] # Closed => file[p].path # "none"
LocksOK ==
    /\ lock \in [Procs -> [Bytes -> {F_RDLCK, F_WRLCK, F_UNLCK}]]
    /\ held \in [Procs -> [Bytes -> 1 .. 3]]

(* What an instance believes is what the kernel has, and an instance with  *)
(* no file has no lock.                                                    *)
Agree == \A p \in Procs, b \in Bytes : lock[p][b] = unix_lck_table[held[p][b]]
NoFileNoLock == \A p \in Procs : file[p] = Closed => \A b \in Bytes : held[p][b] = Unlocked

LockInv == FileOK /\ LocksOK /\ Agree /\ NoFileNoLock /\ Exclusive

LEMMA TableFacts ==
    /\ unix_lck_table[1] = F_RDLCK /\ unix_lck_table[2] = F_WRLCK
    /\ unix_lck_table[3] = F_UNLCK /\ DOMAIN unix_lck_table = 1 .. 3
    /\ F_RDLCK = 0 /\ F_WRLCK = 1 /\ F_UNLCK = 2 /\ Unlocked = 3
  BY DEF unix_lck_table, F_RDLCK, F_WRLCK, F_UNLCK, Unlocked

LEMMA WriteLocksAre2 ==
    ASSUME NEW type \in 1 .. 3, unix_lck_table[type] = F_WRLCK
    PROVE  type = 2
  BY DEF unix_lck_table, F_RDLCK, F_WRLCK, F_UNLCK

(* A step that leaves the open files and the locks alone. *)
LEMMA SameLocks ==
    ASSUME LockInv, UNCHANGED <<file, lock, held>>
    PROVE  LockInv'
  BY DEF LockInv, FileOK, LocksOK, Agree, NoFileNoLock, Exclusive

(* An instance whose file is closed, by itself or by the kernel, has no    *)
(* locks left, and stands in nobody's way.                                 *)
LEMMA ClosedKeeps ==
    ASSUME LockInv, NEW p \in Procs,
           file' = [file EXCEPT ![p] = Closed],
           lock' = [lock EXCEPT ![p] = NoLocks(F_UNLCK)],
           held' = [held EXCEPT ![p] = NoLocks(Unlocked)]
    PROVE  LockInv'
  <1>1. FileOK'
    BY DEF LockInv, FileOK, Closed
  <1>2. LocksOK'
    BY TableFacts DEF LockInv, LocksOK, NoLocks
  <1>3. Agree' /\ NoFileNoLock'
    BY TableFacts DEF LockInv, LocksOK, FileOK, NoLocks, Agree, NoFileNoLock
  <1>4. Exclusive'
    BY TableFacts DEF LockInv, LocksOK, FileOK, NoLocks, Exclusive
  <1> QED BY <1>1, <1>2, <1>3, <1>4 DEF LockInv

(* A file that is opened has no locks of this instance. *)
LEMMA OpenKeeps ==
    ASSUME LockInv, NEW p \in Procs, Open(p)
    PROVE  LockInv'
  <1>1. UNCHANGED <<lock, held>>
    BY DEF Open, locks
  <1>2. CASE UNCHANGED file
    BY <1>1, <1>2, SameLocks
  <1>3. CASE file[p] = Closed /\ \E path \in Paths \cup {"default"}, mode \in SUBSET {"read", "write"} :
                file' = [file EXCEPT ![p] = [path |-> path, mode |-> mode, nonblock |-> FALSE]]
    <2>1. FileOK'
      BY <1>3 DEF LockInv, FileOK, Paths
    <2>2. LocksOK' /\ Agree'
      BY <1>1 DEF LockInv, LocksOK, Agree
    <2>3. \A q \in Procs : file'[q] = Closed => file[q] = Closed
      BY <1>3 DEF LockInv, FileOK
    <2>4. NoFileNoLock'
      BY <2>3, <1>1 DEF LockInv, NoFileNoLock
    <2>5. Exclusive'
      BY <1>1, <1>3, TableFacts DEF LockInv, FileOK, LocksOK, NoFileNoLock, Exclusive
    <2> QED BY <2>1, <2>2, <2>4, <2>5 DEF LockInv
  <1>4. \A asked \in Paths : map_unix_pathname(asked) \in Paths \cup {"default"}
    BY DEF map_unix_pathname
  <1>5. \A flags \in OpenFlags : Mode(flags) \in SUBSET {"read", "write"}
    BY DEF Mode
  <1> QED BY <1>2, <1>3, <1>4, <1>5 DEF Open, files

(* fcntl with F_SETFL changes how a file is read, not which it is. *)
LEMMA SetFlagsKeeps ==
    ASSUME LockInv, NEW p \in Procs, SetFlags(p)
    PROVE  LockInv'
  <1>1. UNCHANGED <<lock, held>> /\ file[p] # Closed
    BY DEF SetFlags, locks
  <1>2. CASE UNCHANGED file
    BY <1>1, <1>2, SameLocks
  <1>3. CASE \E bits \in BOOLEAN : file' = [file EXCEPT ![p].nonblock = bits]
    <2>1. \A q \in Procs : file'[q].path = file[q].path
      BY <1>3 DEF LockInv, FileOK
    <2>2. FileOK'
      BY <1>3, <2>1, <1>1 DEF LockInv, FileOK
    <2>3. \A q \in Procs : file'[q] = Closed => file[q] = Closed
      BY <2>1, <1>3, <1>1 DEF LockInv, FileOK, Closed
    <2>4. NoFileNoLock' /\ LocksOK' /\ Agree'
      BY <2>3, <1>1 DEF LockInv, NoFileNoLock, LocksOK, Agree
    <2>5. Exclusive'
      BY <2>1, <1>1 DEF LockInv, Exclusive
    <2> QED BY <2>2, <2>4, <2>5 DEF LockInv
  <1> QED BY <1>2, <1>3 DEF SetFlags

(* The lock the kernel grants is the one that was asked for, and no other  *)
(* instance has one there that it excludes.                                *)
LEMMA SetLockKeeps ==
    ASSUME LockInv, NEW p \in Procs, SetLock(p)
    PROVE  LockInv'
  <1>1. UNCHANGED file
    BY DEF SetLock, files
  <1>2. CASE UNCHANGED <<lock, held>>
    BY <1>1, <1>2, SameLocks
  <1>3. ASSUME NEW utype \in 1 .. 3, NEW span \in SUBSET Bytes,
               MayLock(p, unix_lck_table[utype]),
               unix_lck_table[utype] # F_UNLCK => Blocking(p, unix_lck_table[utype], span) = {},
               lock' = [lock EXCEPT ![p] = Locked(lock[p], span, unix_lck_table[utype])],
               held' = [held EXCEPT ![p] = Locked(held[p], span, utype)]
        PROVE  LockInv'
    <2>1. LocksOK'
      BY <1>3, TableFacts DEF LockInv, LocksOK, Locked
    <2>2. Agree'
      BY <1>3, TableFacts DEF LockInv, LocksOK, Agree, Locked
    <2>3. file[p] # Closed
      BY <1>3, TableFacts DEF MayLock, Closed
    <2>4. NoFileNoLock'
      BY <1>1, <1>3, <2>3 DEF LockInv, LocksOK, NoFileNoLock
    <2>5. ASSUME NEW q \in Procs, q # p, file[q].path = file[p].path, NEW b \in Bytes
          PROVE  /\ held'[p][b] = 2 => held[q][b] = 3
                 /\ held[q][b] = 2 => held'[p][b] = 3
      <3>1. CASE b \notin span
        BY <3>1, <2>5, <1>3, TableFacts DEF LockInv, LocksOK, Exclusive, Locked
      <3>2. CASE b \in span
        <4>1. held'[p][b] = utype
          BY <3>2, <1>3 DEF LockInv, LocksOK, Locked
        <4>2. /\ lock[q][b] = unix_lck_table[held[q][b]]
              /\ held[q][b] \in 1 .. 3
          BY DEF LockInv, LocksOK, Agree
        <4>3. CASE utype = 3
          <5>1. held[q][b] = 2 => held'[p][b] = 3
            BY <4>1, <4>3
          <5> QED BY <5>1, <4>1, <4>3
        <4>4. CASE utype # 3
          <5>1. q \notin Blocking(p, unix_lck_table[utype], span)
            BY <4>4, <1>3, TableFacts
          <5>2. /\ lock[q][b] # F_WRLCK
                /\ lock[q][b] = F_RDLCK => unix_lck_table[utype] # F_WRLCK
            BY <5>1, <3>2, <2>5 DEF Blocking
          <5> QED BY <5>2, <4>1, <4>2, TableFacts
        <4> QED BY <4>3, <4>4
      <3> QED BY <3>1, <3>2
    <2>6. \A q \in Procs \ {p} : held'[q] = held[q]
      BY <1>3 DEF LockInv, LocksOK
    <2>7. Exclusive'
      BY <1>1, <2>5, <2>6, TableFacts DEF LockInv, Exclusive
    <2> QED BY <1>1, <2>1, <2>2, <2>4, <2>7 DEF LockInv, FileOK
  <1>4. \A start \in Bytes, len \in {0, 1} : Span(start, len) \in SUBSET Bytes
    BY DEF Span
  <1> QED BY <1>2, <1>3, <1>4, TableFacts DEF SetLock

-----------------------------------------------------------------------------
LEMMA InitEstablishes == Init => LockInv
  BY TableFacts
     DEF Init, LockInv, FileOK, LocksOK, Agree, NoFileNoLock, Exclusive, Closed, NoLocks

LEMMA StepKeeps ==
    ASSUME LockInv, NEW p \in Procs,
           \/ Start(p) \/ Exit(p) \/ Killed(p)
           \/ CursesMode(p) \/ SetTermios(p) \/ UnknownIoctl(p) \/ NullIoctl(p)
           \/ Open(p) \/ Close(p) \/ Stat(p) \/ Access(p) \/ Read(p) \/ Readdir(p)
           \/ GetFlags(p) \/ SetFlags(p) \/ SetLock(p) \/ GetLock(p)
    PROVE  LockInv'
  <1>1. CASE Exit(p) \/ Killed(p) \/ Close(p)
    BY <1>1, ClosedKeeps DEF Exit, Killed, Close, Ended
  <1>2. CASE Open(p)
    BY <1>2, OpenKeeps
  <1>3. CASE SetFlags(p)
    BY <1>3, SetFlagsKeeps
  <1>4. CASE SetLock(p)
    BY <1>4, SetLockKeeps
  <1>5. CASE Start(p) \/ GetLock(p)
    BY <1>5, SameLocks DEF Start, GetLock, files, locks
  <1>6. CASE CursesMode(p) \/ SetTermios(p) \/ UnknownIoctl(p) \/ NullIoctl(p)
    BY <1>6, SameLocks DEF CursesMode, SetTermios, UnknownIoctl, NullIoctl, files, locks
  <1>7. CASE Stat(p) \/ Access(p) \/ Read(p) \/ Readdir(p) \/ GetFlags(p)
    BY <1>7, SameLocks DEF Stat, Access, Read, Readdir, GetFlags, files, locks
  <1> QED BY <1>1, <1>2, <1>3, <1>4, <1>5, <1>6, <1>7

LEMMA NextKeeps == LockInv /\ [Next]_vars => LockInv'
  <1> SUFFICES ASSUME LockInv, [Next]_vars PROVE LockInv'
    OBVIOUS
  <1>1. CASE Next
    BY <1>1, StepKeeps DEF Next
  <1>2. CASE UNCHANGED vars
    BY <1>2, SameLocks DEF vars
  <1> QED BY <1>1, <1>2

(* Two instances that use one worksheet never both believe they may write  *)
(* where one of them has a lock, however many there are, whatever they     *)
(* open, lock and close, and whenever they exit or are killed.             *)
THEOREM LocksExclude == Spec => []Exclusive
  <1>1. LockInv => Exclusive
    BY DEF LockInv
  <1> QED BY <1>1, InitEstablishes, NextKeeps, PTL DEF Spec

-----------------------------------------------------------------------------
(* Only a query of its own changes the answer an instance has. *)
LEMMA SameReply ==
    ASSUME UNCHANGED reply
    PROVE  QueryTrue
  BY DEF QueryTrue

LEMMA QueryStep ==
    ASSUME LockInv, NEW p \in Procs, GetLock(p)
    PROVE  QueryTrue
  <1>1. CASE UNCHANGED reply
    BY <1>1, SameReply
  <1>2. CASE reply' = [reply EXCEPT ![p] = [type |-> linux_lck_table[F_UNLCK], pid |-> 0]]
    <2>1. linux_lck_table[F_UNLCK] = Unlocked
      BY DEF linux_lck_table, F_UNLCK, Unlocked
    <2>2. \A r \in Procs : reply'[r] # reply[r] => reply'[r].type = Unlocked
      BY <1>2, <2>1
    <2> QED BY <2>2 DEF QueryTrue
  <1>3. ASSUME NEW q \in Blocking(p, F_RDLCK, Bytes),
               reply' = [reply EXCEPT ![p] = [type |-> linux_lck_table[F_WRLCK], pid |-> q]]
        PROVE  QueryTrue
    <2>1. linux_lck_table[F_WRLCK] = 2
      BY DEF linux_lck_table, F_WRLCK
    <2>2. \A r \in Procs : reply'[r] # reply[r] => reply'[r].type = 2 /\ reply'[r].pid = q
      BY <1>3, <2>1
    <2>3. PICK b \in Bytes : lock[q][b] = F_WRLCK
      BY <1>3, TableFacts DEF Blocking
    <2>4. held[q][b] = 2
      <3>1. q \in Procs
        BY DEF Blocking
      <3>2. lock[q][b] = unix_lck_table[held[q][b]] /\ held[q][b] \in 1 .. 3
        BY <3>1 DEF LockInv, LocksOK, Agree
      <3> QED BY <3>2, <2>3, WriteLocksAre2
    <2> QED BY <2>2, <2>4 DEF QueryTrue
  <1> QED BY <1>1, <1>2, <1>3 DEF GetLock

LEMMA OtherSteps ==
    ASSUME NEW p \in Procs,
           \/ Start(p) \/ Exit(p) \/ Killed(p)
           \/ CursesMode(p) \/ SetTermios(p) \/ UnknownIoctl(p) \/ NullIoctl(p)
           \/ Open(p) \/ Close(p) \/ Stat(p) \/ Access(p) \/ Read(p) \/ Readdir(p)
           \/ GetFlags(p) \/ SetFlags(p) \/ SetLock(p)
    PROVE  UNCHANGED reply
  <1>1. CASE Start(p) \/ Exit(p) \/ Killed(p) \/ Close(p)
    BY <1>1 DEF Start, Exit, Killed, Close, locks
  <1>2. CASE CursesMode(p) \/ SetTermios(p) \/ UnknownIoctl(p) \/ NullIoctl(p)
    BY <1>2 DEF CursesMode, SetTermios, UnknownIoctl, NullIoctl, locks
  <1>3. CASE Open(p) \/ Stat(p) \/ Access(p) \/ Read(p) \/ Readdir(p)
    BY <1>3 DEF Open, Stat, Access, Read, Readdir, locks
  <1>4. CASE GetFlags(p) \/ SetFlags(p) \/ SetLock(p)
    BY <1>4 DEF GetFlags, SetFlags, SetLock, locks
  <1> QED BY <1>1, <1>2, <1>3, <1>4

(* Whoever F_GETLK names holds a lock of the type it says, although the    *)
(* request itself is never translated.                                     *)
THEOREM QueriesTellTheTruth == Spec => LockQueryTrue
  <1>1. LockInv /\ [Next]_vars => [QueryTrue]_vars
    <2> SUFFICES ASSUME LockInv, Next PROVE QueryTrue
      OBVIOUS
    <2>1. PICK p \in Procs :
             \/ Start(p) \/ Exit(p) \/ Killed(p)
             \/ CursesMode(p) \/ SetTermios(p) \/ UnknownIoctl(p) \/ NullIoctl(p)
             \/ Open(p) \/ Close(p) \/ Stat(p) \/ Access(p) \/ Read(p) \/ Readdir(p)
             \/ GetFlags(p) \/ SetFlags(p) \/ SetLock(p) \/ GetLock(p)
      BY DEF Next
    <2>2. CASE GetLock(p)
      BY <2>2, QueryStep
    <2>3. CASE ~GetLock(p)
      BY <2>1, <2>3, OtherSteps, SameReply
    <2> QED BY <2>2, <2>3
  <1> QED BY <1>1, InitEstablishes, NextKeeps, PTL DEF Spec, LockQueryTrue

-----------------------------------------------------------------------------
(* The terminal. *)

Modes == {"cooked", "raw"}
TerminalTypes ==
    /\ tio \in [Procs -> [vmin : {0, 1}, mode : Modes]]
    /\ original \in [Procs -> [vmin : {0, 1}, mode : Modes \cup {"unset"}]]
    /\ curses \in [Procs -> Modes]
    /\ running \in [Procs -> {"no", "yes", "exited", "killed"}]

(* What was saved at the start is the terminal as it was found: nothing    *)
(* changes it before the constructor has run.                              *)
SavedAtStart ==
    \A p \in Procs :
        /\ running[p] = "no" => tio[p] = Cooked /\ curses[p] = "cooked"
        /\ running[p] = "yes" => original[p] = Cooked

TerminalInv == TerminalTypes /\ SavedAtStart /\ TerminalRight

LEMMA SameTerminal ==
    ASSUME TerminalInv, UNCHANGED <<terminal, running>>
    PROVE  TerminalInv'
  BY DEF TerminalInv, TerminalTypes, SavedAtStart, TerminalRight, terminal

LEMMA TerminalStep ==
    ASSUME TerminalInv, NEW p \in Procs,
           Start(p) \/ Exit(p) \/ Killed(p) \/ CursesMode(p) \/ SetTermios(p)
    PROVE  TerminalInv'
  <1>1. CASE Start(p)
    BY <1>1 DEF Start, TerminalInv, TerminalTypes, SavedAtStart, TerminalRight, Cooked
  <1>2. CASE Exit(p)
    BY <1>2 DEF Exit, Ended, FiniTerminal, TerminalInv, TerminalTypes, SavedAtStart,
                TerminalRight, Cooked, Modes
  <1>3. CASE Killed(p)
    BY <1>3 DEF Killed, Ended, terminal, TerminalInv, TerminalTypes, SavedAtStart, TerminalRight
  <1>4. CASE CursesMode(p)
    <2>1. PICK mode \in Modes : /\ tio' = [tio EXCEPT ![p].mode = mode]
                                /\ curses' = [curses EXCEPT ![p] = mode]
      BY <1>4 DEF CursesMode, Modes
    <2>2. original' = original /\ running' = running /\ running[p] = "yes"
      BY <1>4 DEF CursesMode, Calls
    <2> QED BY <2>1, <2>2 DEF TerminalInv, TerminalTypes, SavedAtStart, TerminalRight
  <1>5. CASE SetTermios(p)
    <2>1. PICK vmin \in {0, 1} : tio' = [tio EXCEPT ![p] = [tio[p] EXCEPT !.vmin = vmin]]
      BY <1>5 DEF SetTermios, Translated
    <2>2. original' = original /\ curses' = curses /\ running' = running /\ running[p] = "yes"
      BY <1>5 DEF SetTermios, Calls
    <2> QED BY <2>1, <2>2 DEF TerminalInv, TerminalTypes, SavedAtStart, TerminalRight
  <1> QED BY <1>1, <1>2, <1>3, <1>4, <1>5

LEMMA TerminalKeeps == TerminalInv /\ [Next]_vars => TerminalInv'
  <1> SUFFICES ASSUME TerminalInv, [Next]_vars PROVE TerminalInv'
    OBVIOUS
  <1>1. CASE UNCHANGED vars
    BY <1>1, SameTerminal DEF vars, terminal
  <1>2. ASSUME NEW p \in Procs,
               \/ UnknownIoctl(p) \/ NullIoctl(p) \/ Open(p)
               \/ Close(p) \/ Stat(p) \/ Access(p) \/ Read(p)
        PROVE  TerminalInv'
    BY <1>2, SameTerminal DEF UnknownIoctl, NullIoctl, Open, Close, Stat, Access, Read, Calls
  <1>3. ASSUME NEW p \in Procs,
               Readdir(p) \/ GetFlags(p) \/ SetFlags(p) \/ SetLock(p) \/ GetLock(p)
        PROVE  TerminalInv'
    BY <1>3, SameTerminal DEF Readdir, GetFlags, SetFlags, SetLock, GetLock, Calls
  <1> QED BY <1>1, <1>2, <1>3, TerminalStep DEF Next

(* VMIN is set without disturbing what curses has set, and every exit,     *)
(* also from an error in a wrapper, puts the terminal back.                *)
THEOREM TerminalRestored == Spec => []TerminalRight
  <1>1. Init => TerminalInv
    BY DEF Init, TerminalInv, TerminalTypes, SavedAtStart, TerminalRight, Modes, Cooked
  <1>2. TerminalInv => TerminalRight
    BY DEF TerminalInv
  <1> QED BY <1>1, <1>2, TerminalKeeps, PTL DEF Spec

-----------------------------------------------------------------------------
(* errno. *)

Codes == Errors \cup {"0"}
Names == {"none", "call", "open", "ioctl", "end of directory"}
ErrnoInv ==
    /\ last \in [Procs -> [name : Names, why : Codes]]
    /\ errno \in [Procs -> Codes] /\ unixErrno \in [Procs -> Codes]
    /\ ErrnoTells

LEMMA SameErrno ==
    ASSUME ErrnoInv, UNCHANGED <<errno, unixErrno, last>>
    PROVE  ErrnoInv'
  BY DEF ErrnoInv, ErrnoTells

(* A wrapper that fails and copies errno, and one that succeeds. *)
LEMMA FailsKeeps ==
    ASSUME ErrnoInv, NEW p \in Procs, NEW why \in Codes, Fails(p, "call", why)
    PROVE  ErrnoInv'
  BY DEF Fails, Returns, Reported, ErrnoInv, ErrnoTells, Names

LEMMA CallKeeps ==
    ASSUME ErrnoInv, NEW p \in Procs, Returns(p, "call", "0"),
           errno' \in [Procs -> Codes], unixErrno' \in [Procs -> Codes],
           \A q \in Procs \ {p} : unixErrno'[q] = unixErrno[q]
    PROVE  ErrnoInv'
  BY DEF Returns, ErrnoInv, ErrnoTells, Names, Codes

LEMMA MappingType ==
    ASSUME ErrnoInv, NEW p \in Procs, NEW asked
    PROVE  ErrnoOfMapping(p, asked) \in [Procs -> Codes]
  BY DEF ErrnoInv, ErrnoOfMapping, Codes, Errors

LEMMA OpenTells ==
    ASSUME ErrnoInv, NEW p \in Procs, Open(p)
    PROVE  ErrnoInv'
  <1>1. unixErrno' = unixErrno
    BY DEF Open
  <1>2. \/ \E asked \in Paths : errno' = ErrnoOfMapping(p, asked)
        \/ errno' = [errno EXCEPT ![p] = "ENOENT"]
    BY DEF Open
  <1>3. errno' \in [Procs -> Codes]
    BY <1>2, MappingType DEF ErrnoInv, Codes, Errors
  <1>4. PICK why \in {"0", "ENOENT"} : last' = [last EXCEPT ![p] = [name |-> "open", why |-> why]]
    BY DEF Open, Returns
  <1>5. last' \in [Procs -> [name : Names, why : Codes]] /\ last'[p].name = "open"
    BY <1>4 DEF ErrnoInv, Names, Codes, Errors
  <1>6. \A q \in Procs \ {p} : last'[q] = last[q]
    BY <1>4 DEF ErrnoInv
  <1> QED BY <1>1, <1>3, <1>5, <1>6 DEF ErrnoInv, ErrnoTells

(* A refused ioctl is named as such, whatever it reports. *)
LEMMA IoctlTells ==
    ASSUME ErrnoInv, NEW p \in Procs, UnknownIoctl(p) \/ NullIoctl(p)
    PROVE  ErrnoInv'
  <1>1. last' = [last EXCEPT ![p] = [name |-> "ioctl", why |-> "EINVAL"]] /\ errno' = errno
    BY DEF UnknownIoctl, NullIoctl, Returns
  <1>2. /\ unixErrno' \in [Procs -> Codes]
        /\ \A q \in Procs \ {p} : unixErrno'[q] = unixErrno[q]
    BY DEF UnknownIoctl, NullIoctl, ErrnoInv
  <1>3. last' \in [Procs -> [name : Names, why : Codes]] /\ last'[p].name = "ioctl"
    BY <1>1 DEF ErrnoInv, Names, Codes, Errors
  <1>4. \A q \in Procs \ {p} : last'[q] = last[q]
    BY <1>1 DEF ErrnoInv
  <1> QED BY <1>1, <1>2, <1>3, <1>4, ZenonT(60) DEF ErrnoInv, ErrnoTells

LEMMA ReaddirTells ==
    ASSUME ErrnoInv, NEW p \in Procs, Readdir(p)
    PROVE  ErrnoInv'
  <1>1. CASE Fails(p, "call", "EIO")
    BY <1>1, FailsKeeps DEF Codes, Errors
  <1>2. CASE /\ errno' = [errno EXCEPT ![p] = "0"]
             /\ Returns(p, "call", "0")
             /\ UNCHANGED unixErrno
    BY <1>2, CallKeeps DEF ErrnoInv, Codes
  <1>3. CASE /\ errno' = [errno EXCEPT ![p] = "0"]
             /\ unixErrno' = [unixErrno EXCEPT ![p] = "0"]
             /\ Returns(p, "end of directory", "0")
    BY <1>3 DEF Returns, ErrnoInv, ErrnoTells, Names, Codes
  <1> QED BY <1>1, <1>2, <1>3 DEF Readdir, BeforeReaddir

LEMMA ErrnoStep ==
    ASSUME ErrnoInv, NEW p \in Procs,
           \/ SetTermios(p) \/ Stat(p) \/ Access(p) \/ Read(p)
           \/ GetFlags(p) \/ SetFlags(p) \/ SetLock(p) \/ GetLock(p)
    PROVE  ErrnoInv'
  <1>1. CASE \E why \in {"ENOENT", "EBADF", "EIO", "EINVAL", "EAGAIN"} : Fails(p, "call", why)
    BY <1>1, FailsKeeps DEF Codes, Errors
  <1>2. CASE Succeeds(p, "call")
    BY <1>2, CallKeeps DEF Succeeds, ErrnoInv
  <1>3. CASE /\ Returns(p, "call", "0")
             /\ errno' \in [Procs -> Codes]
             /\ \/ unixErrno' = unixErrno
                \/ \E code \in Codes : unixErrno' = [unixErrno EXCEPT ![p] = code]
    BY <1>3, CallKeeps DEF ErrnoInv
  <1>4. CASE SetTermios(p)
    BY <1>4, <1>2 DEF SetTermios
  <1>6. CASE Stat(p) \/ Access(p)
    BY <1>6, <1>1, <1>3, MappingType DEF Stat, Access, Codes
  <1>7. CASE Read(p)
    BY <1>7, <1>1, <1>2, <1>3 DEF Read, ErrnoInv, Codes, Errors
  <1>8. CASE GetFlags(p)
    BY <1>8, <1>1, <1>3 DEF GetFlags, ErrnoInv
  <1>9. CASE SetFlags(p) \/ SetLock(p) \/ GetLock(p)
    BY <1>9, <1>1, <1>2 DEF SetFlags, SetLock, GetLock
  <1> QED BY <1>4, <1>6, <1>7, <1>8, <1>9

LEMMA ErrnoKeeps == ErrnoInv /\ [Next]_vars => ErrnoInv'
  <1> SUFFICES ASSUME ErrnoInv, [Next]_vars PROVE ErrnoInv'
    OBVIOUS
  <1>1. CASE UNCHANGED vars
    BY <1>1, SameErrno DEF vars
  <1>2. ASSUME NEW p \in Procs,
               Start(p) \/ Exit(p) \/ Killed(p) \/ CursesMode(p) \/ Close(p)
        PROVE  ErrnoInv'
    BY <1>2, SameErrno DEF Start, Exit, Killed, CursesMode, Close
  <1> QED BY <1>1, <1>2, OpenTells, IoctlTells, ReaddirTells, ErrnoStep DEF Next

(* 1-2-3's errno is the reason of the call that failed last, and none at   *)
(* the end of a directory, for every wrapper but open and the two refusals *)
(* of ioctl, which return -1 and do not say why.                           *)
THEOREM ErrnoIsTheReason == Spec => []ErrnoTells
  <1>1. Init => ErrnoInv
    BY DEF Init, ErrnoInv, ErrnoTells, Codes, Names
  <1>2. ErrnoInv => ErrnoTells
    BY DEF ErrnoInv
  <1> QED BY <1>1, <1>2, ErrnoKeeps, PTL DEF Spec
=============================================================================
