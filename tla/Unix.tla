-------------------------------- MODULE Unix --------------------------------
(***************************************************************************)
(* wrappers.c and filemap.c: the system calls 1-2-3 makes.  1-2-3 was      *)
(* built for System V, so every call that carries a structure, a flag word *)
(* or an errno goes through a wrapper which translates it to Linux and     *)
(* back.  Several instances run on one machine and keep out of each        *)
(* other's files with record locks.                                        *)
(*                                                                         *)
(* Each instance has one file open at most; a lock belongs to a process    *)
(* and to a byte of its file.  Errors are named; "0" is none.              *)
(***************************************************************************)
EXTENDS Integers, FiniteSets, TLC

CONSTANTS
    Procs,      \* the instances of 1-2-3
    MaxByte,    \* the last byte of a file that is locked
    MaxCalls    \* bound: the calls all instances make together

ASSUME BytesAssumption == MaxByte \in Nat
ASSUME CallsAssumption == MaxCalls \in Nat

\* fcntl.h of Linux and of UNIX.
F_RDLCK == 0
F_WRLCK == 1
F_UNLCK == 2
unix_lck_table_Swapped == <<F_WRLCK, F_RDLCK, F_UNLCK>>
unix_lck_table == <<F_RDLCK, F_WRLCK, F_UNLCK>>
linux_lck_table_Swapped == [type \in 0 .. 2 |-> <<2, 1, 3>>[type + 1]]
linux_lck_table == [type \in 0 .. 2 |-> <<1, 2, 3>>[type + 1]]
Unlocked == 3

Bytes == 0 .. MaxByte

Paths  == {"sheet", "config"}            \* a worksheet, the user's .l123set
Errors == {"ENOENT", "EAGAIN", "EBADF", "EINVAL", "EIO"}
Closed == [path |-> "none", mode |-> {}, nonblock |-> FALSE]
NoReply == [type |-> Unlocked, pid |-> 0]

VARIABLES
    exists,     \* the files there are, besides the default configuration
    running,    \* "no", "yes", "exited" (exit handlers ran) or "killed"
    file,       \* the open file of each instance
    lock,       \* the kernel's record locks, Linux types
    held,       \* the locks an instance believes it has, UNIX types
    tio,        \* the terminal of each instance: [vmin, mode]
    original,   \* what init_terminal_settings saved
    curses,     \* the rest of the terminal's mode, as curses last set it
    errno, unixErrno,
    last,       \* the last call: [name, why it failed or "0"], names told apart where they matter
    reply,      \* what F_GETLK answered
    ndelay,     \* the last F_SETFL that returned 0 asked for O_NDELAY
    calls

vars == <<exists, running, file, lock, held, tio, original, curses, errno, unixErrno, last, reply, ndelay, calls>>
files    == <<exists, file, ndelay>>
locks    == <<lock, held, reply>>
terminal == <<tio, original, curses>>

NoLocks(free) == [b \in Bytes |-> free]
Cooked == [vmin |-> 1, mode |-> "cooked"]

Init ==
    /\ exists \in SUBSET Paths
    /\ running = [p \in Procs |-> "no"]
    /\ file = [p \in Procs |-> Closed]
    /\ lock = [p \in Procs |-> NoLocks(F_UNLCK)]
    /\ held = [p \in Procs |-> NoLocks(Unlocked)]
    /\ tio = [p \in Procs |-> Cooked]
    /\ original = [p \in Procs |-> [vmin |-> 0, mode |-> "unset"]]
    /\ curses = [p \in Procs |-> "cooked"]
    /\ errno = [p \in Procs |-> "0"]
    /\ unixErrno = [p \in Procs |-> "0"]
    /\ last = [p \in Procs |-> [name |-> "none", why |-> "0"]]
    /\ reply = [p \in Procs |-> NoReply]
    /\ ndelay = [p \in Procs |-> FALSE]
    /\ calls = 0

-----------------------------------------------------------------------------
(* A call made by p, and how it ends.                                      *)

Calls(p) ==
    /\ running[p] = "yes" /\ calls < MaxCalls
    /\ calls' = calls + 1
    /\ UNCHANGED running

Returns(p, name, why) == last' = [last EXCEPT ![p] = [name |-> name, why |-> why]]
Succeeds(p, name) ==
    /\ Returns(p, name, "0")
    /\ UNCHANGED <<errno, unixErrno>>
\* Most wrappers copy errno when the call fails.
Reported(p, why) == [unixErrno EXCEPT ![p] = why]
Fails(p, name, why) ==
    /\ Returns(p, name, why)
    /\ errno' = [errno EXCEPT ![p] = why]
    /\ unixErrno' = Reported(p, why)

-----------------------------------------------------------------------------
(* Start and end.  exit runs fini_terminal_settings.                       *)

Start(p) ==
    /\ running[p] = "no"
    /\ original' = [original EXCEPT ![p] = tio[p]]
    /\ running' = [running EXCEPT ![p] = "yes"]
    /\ UNCHANGED <<files, locks, tio, curses, errno, unixErrno, last, calls>>

\* The kernel closes the files of a process that ends, and drops its locks.
Ended(p, how) ==
    /\ running' = [running EXCEPT ![p] = how]
    /\ file' = [file EXCEPT ![p] = Closed]
    /\ lock' = [lock EXCEPT ![p] = NoLocks(F_UNLCK)]
    /\ held' = [held EXCEPT ![p] = NoLocks(Unlocked)]

FiniTerminal_Vmin(p) == [tio EXCEPT ![p].vmin = original[p].vmin]
FiniTerminal(p) == [tio EXCEPT ![p] = original[p]]

\* 1-2-3 is left, or a wrapper calls err: an unknown fcntl, unknown open flags, a terminal
\* that does not answer.
Exit(p) ==
    /\ running[p] = "yes"
    /\ Ended(p, "exited")
    /\ tio' = FiniTerminal(p)
    /\ UNCHANGED <<exists, reply, original, curses, errno, unixErrno, last, ndelay, calls>>

Killed(p) ==
    /\ running[p] = "yes"
    /\ Ended(p, "killed")
    /\ UNCHANGED <<exists, reply, terminal, errno, unixErrno, last, ndelay, calls>>

-----------------------------------------------------------------------------
(* The terminal.  The UNIX termios holds VMIN (and VTIME) only.            *)

CursesMode(p) ==
    /\ Calls(p)
    /\ \E mode \in {"cooked", "raw"} :
         /\ tio' = [tio EXCEPT ![p].mode = mode]
         /\ curses' = [curses EXCEPT ![p] = mode]
    /\ UNCHANGED <<files, locks, original, errno, unixErrno, last>>

Translated(t, vmin) == [t EXCEPT !.vmin = vmin]

SetTermios(p) ==
    /\ Calls(p)
    /\ \E vmin \in {0, 1} : tio' = [tio EXCEPT ![p] = Translated(tio[p], vmin)]
    /\ Succeeds(p, "call")
    /\ UNCHANGED <<files, locks, original, curses>>

\* A request that is not translated fails, for EINVAL, but what is reported is whatever an
\* earlier call left in errno.
UnknownIoctl(p) ==
    /\ Calls(p)
    /\ unixErrno' = [unixErrno EXCEPT ![p] = errno[p]]
    /\ Returns(p, "ioctl", "EINVAL")
    /\ UNCHANGED <<files, locks, terminal, errno>>

\* A request without an argument fails, and nothing is reported.
NullIoctl(p) ==
    /\ Calls(p)
    /\ Returns(p, "ioctl", "EINVAL")
    /\ UNCHANGED <<files, locks, terminal, errno, unixErrno>>

-----------------------------------------------------------------------------
(* Files.                                                                  *)

\* The default configuration stands in for one the user does not have.
map_unix_pathname(path) == IF path = "config" /\ path \notin exists THEN "default" ELSE path

There(path) == path = "default" \/ path \in exists

\* The access call of map_unix_pathname leaves its errno behind also when the mapped name is found.
ErrnoOfMapping(p, asked) ==
    IF asked = "config" /\ asked \notin exists THEN [errno EXCEPT ![p] = "ENOENT"] ELSE errno

\* The flag words 1-2-3 uses.
OpenFlags == {0, 1, 2, 257, 258, 265, 770}
Mode(flags) == { access \in {"read", "write"} :
                   \/ flags = 0 /\ access = "read"
                   \/ flags \in {1, 257, 265} /\ access = "write"
                   \/ flags \in {2, 258, 770} }
Creates(flags) == flags > 255

\* open does not copy errno: a failure leaves what an earlier call left.
Open(p) ==
    /\ Calls(p) /\ file[p] = Closed
    /\ \E asked \in Paths, flags \in OpenFlags :
         LET path == map_unix_pathname(asked)
         IN  IF There(path) \/ Creates(flags)
             THEN /\ file' = [file EXCEPT ![p] = [path |-> path, mode |-> Mode(flags), nonblock |-> FALSE]]
                  /\ exists' = IF path = "default" THEN exists ELSE exists \cup {path}
                  /\ ndelay' = [ndelay EXCEPT ![p] = FALSE]
                  /\ Returns(p, "open", "0")
                  /\ errno' = ErrnoOfMapping(p, asked)
                  /\ UNCHANGED unixErrno
             ELSE /\ Returns(p, "open", "ENOENT")
                  /\ errno' = [errno EXCEPT ![p] = "ENOENT"]
                  /\ UNCHANGED <<files, unixErrno>>
    /\ UNCHANGED <<locks, terminal>>

\* Not wrapped; the locks on a file end when it is closed.
Close(p) ==
    /\ Calls(p) /\ file[p] # Closed
    /\ file' = [file EXCEPT ![p] = Closed]
    /\ lock' = [lock EXCEPT ![p] = NoLocks(F_UNLCK)]
    /\ held' = [held EXCEPT ![p] = NoLocks(Unlocked)]
    /\ ndelay' = [ndelay EXCEPT ![p] = FALSE]
    /\ UNCHANGED <<exists, reply, terminal, errno, unixErrno, last>>

\* stat and access map the name; a success of stat clears errno.
Stat(p) ==
    /\ Calls(p)
    /\ \E asked \in Paths :
         IF There(map_unix_pathname(asked))
         THEN /\ Returns(p, "call", "0")
              /\ unixErrno' = [unixErrno EXCEPT ![p] = "0"]
              /\ errno' = ErrnoOfMapping(p, asked)
         ELSE Fails(p, "call", "ENOENT")
    /\ UNCHANGED <<files, locks, terminal>>

Access(p) ==
    /\ Calls(p)
    /\ \E asked \in Paths :
         IF There(map_unix_pathname(asked))
         THEN /\ Returns(p, "call", "0")
              /\ errno' = ErrnoOfMapping(p, asked)
              /\ UNCHANGED unixErrno
         ELSE Fails(p, "call", "ENOENT")
    /\ UNCHANGED <<files, locks, terminal>>

\* With nothing to read a blocking read waits; the other returns 0 and keeps errno to itself.
Read(p) ==
    /\ Calls(p)
    /\ \/ Succeeds(p, "call") /\ "read" \in file[p].mode
       \/ Fails(p, "call", "EBADF") /\ "read" \notin file[p].mode
       \/ Fails(p, "call", "EIO") /\ "read" \in file[p].mode
       \/ /\ "read" \in file[p].mode /\ file[p].nonblock
          /\ Returns(p, "call", "0")
          /\ errno' = [errno EXCEPT ![p] = "EAGAIN"]
          /\ UNCHANGED unixErrno
    /\ UNCHANGED <<files, locks, terminal>>

\* errno is cleared first, so that the end of the directory is not an error.
BeforeReaddir_Kept(p) == errno[p]
BeforeReaddir(p) == "0"
Readdir(p) ==
    /\ Calls(p)
    /\ \/ /\ errno' = [errno EXCEPT ![p] = BeforeReaddir(p)]
          /\ Returns(p, "call", "0")
          /\ UNCHANGED unixErrno
       \/ /\ errno' = [errno EXCEPT ![p] = BeforeReaddir(p)]
          /\ unixErrno' = [unixErrno EXCEPT ![p] = BeforeReaddir(p)]
          /\ Returns(p, "end of directory", "0")
       \/ Fails(p, "call", "EIO")
    /\ UNCHANGED <<files, locks, terminal>>

-----------------------------------------------------------------------------
(* fcntl.                                                                  *)

\* F_GETFL copies errno before it looks at the result.
GetFlags(p) ==
    /\ Calls(p)
    /\ IF file[p] = Closed THEN Fails(p, "call", "EBADF")
       ELSE /\ unixErrno' = [unixErrno EXCEPT ![p] = errno[p]]
            /\ Returns(p, "call", "0")
            /\ UNCHANGED errno
    /\ UNCHANGED <<files, locks, terminal>>

\* F_SETFL hands fcntl the address of the flags: any flags may be set, and some are refused.
SetFlags(p) ==
    /\ Calls(p) /\ file[p] # Closed
    /\ \E wanted \in BOOLEAN, bits \in BOOLEAN :
         \/ /\ file' = [file EXCEPT ![p].nonblock = bits]
            /\ ndelay' = [ndelay EXCEPT ![p] = wanted]
            /\ Succeeds(p, "call")
         \/ Fails(p, "call", "EINVAL") /\ UNCHANGED <<file, ndelay>>
    /\ UNCHANGED <<exists, locks, terminal>>

Span(start, len) == { b \in Bytes : b >= start /\ (len = 0 \/ b < start + len) }

\* The locks of another process on bytes of the same file that stand in the way of type.
Blocking(p, type, span) ==
    { q \in Procs \ {p} : /\ file[q].path = file[p].path
                          /\ \E b \in span : \/ lock[q][b] = F_WRLCK
                                             \/ lock[q][b] = F_RDLCK /\ type = F_WRLCK }
MayLock(p, type) ==
    \/ type = F_RDLCK /\ "read" \in file[p].mode
    \/ type = F_WRLCK /\ "write" \in file[p].mode
    \/ type = F_UNLCK /\ file[p] # Closed

Locked(table, span, type) == [b \in Bytes |-> IF b \in span THEN type ELSE table[b]]

SetLock(p) ==
    /\ Calls(p)
    /\ \E utype \in DOMAIN unix_lck_table, start \in Bytes, len \in {0, 1} :
         LET type == unix_lck_table[utype]
             span == Span(start, len)
         IN  IF ~MayLock(p, type)
             THEN Fails(p, "call", "EBADF") /\ UNCHANGED <<lock, held>>
             ELSE IF type # F_UNLCK /\ Blocking(p, type, span) # {}
             THEN Fails(p, "call", "EAGAIN") /\ UNCHANGED <<lock, held>>
             ELSE /\ lock' = [lock EXCEPT ![p] = Locked(lock[p], span, type)]
                  /\ held' = [held EXCEPT ![p] = Locked(held[p], span, utype)]
                  /\ Succeeds(p, "call")
    /\ UNCHANGED <<files, reply, terminal>>

\* The request is not translated: F_GETLK always asks for a read lock on the whole file.
GetLock(p) ==
    /\ Calls(p)
    /\ IF file[p] = Closed THEN Fails(p, "call", "EBADF") /\ UNCHANGED reply
       ELSE LET found == Blocking(p, F_RDLCK, Bytes)
            IN  /\ IF found = {} THEN reply' = [reply EXCEPT ![p] = [type |-> linux_lck_table[F_UNLCK], pid |-> 0]]
                   ELSE \E q \in found :
                          reply' = [reply EXCEPT ![p] = [type |-> linux_lck_table[F_WRLCK], pid |-> q]]
                /\ Succeeds(p, "call")
    /\ UNCHANGED <<files, lock, held, terminal>>

Next ==
    \E p \in Procs :
        \/ Start(p) \/ Exit(p) \/ Killed(p)
        \/ CursesMode(p) \/ SetTermios(p) \/ UnknownIoctl(p) \/ NullIoctl(p)
        \/ Open(p) \/ Close(p) \/ Stat(p) \/ Access(p) \/ Read(p) \/ Readdir(p)
        \/ GetFlags(p) \/ SetFlags(p) \/ SetLock(p) \/ GetLock(p)

Spec == Init /\ [][Next]_vars

-----------------------------------------------------------------------------
(* Properties.                                                             *)

\* While an instance holds what it asked for as a write lock, no other instance believes it
\* holds any lock there: the translated types keep two users out of one worksheet.
Exclusive ==
    \A p \in Procs, q \in Procs :
        p # q /\ file[p].path = file[q].path =>
            \A b \in Bytes : held[p][b] = 2 => held[q][b] = Unlocked

\* When F_GETLK names a lock, the instance it names holds one of that type.
QueryTrue ==
    \A p \in Procs :
        reply'[p] # reply[p] /\ reply'[p].type # Unlocked =>
            \E b \in Bytes : held[reply'[p].pid][b] = reply'[p].type

\* __unix_fcntl with F_GETLK tells the truth at every step.
LockQueryTrue == [][QueryTrue]_vars

\* The calls for VMIN never touch the rest of the terminal's mode, which belongs to curses;
\* an instance that exits leaves the terminal as it found it, also through err.
TerminalRight ==
    \A p \in Procs :
        /\ running[p] = "yes" => tio[p].mode = curses[p]
        /\ running[p] = "exited" => tio[p] = Cooked

\* After a call that failed 1-2-3's errno is the reason, and after the end of a directory it
\* is none ("so that end of stream and error can be distinguished").  The exceptions are open,
\* which does not set it, and the ioctl requests that are refused: one with no argument, which
\* does not set it either, and an unknown one, which reports what an earlier call left.
ErrnoTells ==
    \A p \in Procs :
        /\ last[p].why # "0" /\ last[p].name \notin {"open", "ioctl"} => unixErrno[p] = last[p].why
        /\ last[p].name = "end of directory" => unixErrno[p] = "0"

\* "Lotus requests non-blocking io" (l.336): once such a request has returned 0, a read with
\* nothing to read does not wait.
NonBlocking == \A p \in Procs : ndelay[p] => file[p].nonblock
=============================================================================
