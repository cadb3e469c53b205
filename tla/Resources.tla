----------------------------- MODULE Resources -----------------------------
(***************************************************************************)
(* res/resgen.c and res/hlp.c: numbered messages in groups are compiled    *)
(* into a resource file, and found and listed in it.  A group of the file  *)
(* is a table of 16-bit offsets, one for each selector up to the last that *)
(* has a message, and the messages, each ended by a nul.                   *)
(*                                                                         *)
(* A message is a name and a length.  Positions count from the first group *)
(* of the file; at each stands a word of a table or the start of a         *)
(* message.                                                                *)
(***************************************************************************)
EXTENDS Integers, SequencesExt

CONSTANTS
    Messages,       \* records [name, len]
    Numbers,        \* the numbers messages have in the text
    MaxText         \* bound: lines of the text

ASSUME MessagesAssumption == Messages \subseteq [name : STRING, len : Nat]
ASSUME NumbersAssumption == Numbers \subseteq Nat /\ MaxText \in Nat

Wrap == 65536       \* grpsz, id and the offsets are uint16_t

VARIABLES
    progress,   \* "read", "failed", "sizes", "groups", "written", "listed", "beyond"
    count,      \* lines read
    msgtab,     \* the groups: functions from selectors to messages
    sizes,      \* the sizes in the header
    words,      \* what stands in the file: the tables
    strings,    \* and the messages
    end,        \* bytes written after the sizes
    cur, sel,   \* the group and selector hlp is at
    listing     \* what hlp printed, for each group

resFile == <<sizes, words, strings, end>>
lister == <<cur, sel, listing>>
resVars == <<progress, count, msgtab, resFile, lister>>

ResInit ==
    /\ progress = "read" /\ count = 0
    /\ msgtab = <<>> /\ sizes = <<>>
    /\ words = <<>> /\ strings = <<>> /\ end = 0
    /\ cur = 1 /\ sel = 0 /\ listing = <<>>

NoMessages == <<>>

-----------------------------------------------------------------------------
(* resgen: reading.                                                        *)

ReadGroup ==
    /\ progress = "read" /\ count < MaxText
    /\ msgtab' = Append(msgtab, NoMessages)
    /\ count' = count + 1
    /\ UNCHANGED <<progress, resFile, lister>>

Selector(number) == number % Wrap

\* A later message takes the place of an earlier one.  The text begins with a group.
ReadMessage ==
    /\ progress = "read" /\ count < MaxText /\ msgtab # <<>>
    /\ \E number \in Numbers, msg \in Messages :
          LET id == Selector(number)
          IN  IF id > 255
              THEN progress' = "failed" /\ UNCHANGED msgtab
              ELSE /\ msgtab' = [msgtab EXCEPT ![Len(msgtab)] =
                                     [k \in DOMAIN @ \cup {id} |-> IF k = id THEN msg ELSE @[k]]]
                   /\ UNCHANGED progress
    /\ count' = count + 1
    /\ UNCHANGED <<resFile, lister>>

\* A line without a number or without two quotes.
BadLine ==
    /\ progress = "read" /\ count < MaxText
    /\ progress' = "failed"
    /\ UNCHANGED <<count, msgtab, resFile, lister>>

EndOfText ==
    /\ progress = "read"
    /\ progress' = "sizes"
    /\ UNCHANGED <<count, msgtab, resFile, lister>>

-----------------------------------------------------------------------------
(* resgen: writing.                                                        *)

MaxSel(g) == IF g = NoMessages THEN 0 ELSE Max(DOMAIN g)

Room(msg) == msg.len + 1        \* with the nul

\* Where the message with this selector, or with the first after it, begins in its group.
Position(g, id) ==
    2 * (MaxSel(g) + 1) + SumFunctionOnSet([k \in DOMAIN g |-> Room(g[k])], {k \in DOMAIN g : k < id})
GroupLen(g) == Position(g, MaxSel(g) + 1)

WriteSize ==
    /\ progress = "sizes"
    /\ IF Len(sizes) = Len(msgtab)
       THEN progress' = "groups" /\ UNCHANGED sizes
       ELSE sizes' = Append(sizes, GroupLen(msgtab[Len(sizes) + 1]) % Wrap) /\ UNCHANGED progress
    /\ UNCHANGED <<count, msgtab, words, strings, end, lister>>

Table(g) == [id \in 0 .. MaxSel(g) |-> IF id \in DOMAIN g THEN Position(g, id) % Wrap ELSE 0]

\* What f holds, and what more holds beyond it.
Extended(f, more) == [x \in DOMAIN f \cup DOMAIN more |-> IF x \in DOMAIN f THEN f[x] ELSE more[x]]

\* cur counts the groups here, and hlp's groups later.
WriteGroup ==
    /\ progress = "groups"
    /\ IF cur > Len(msgtab)
       THEN progress' = "written" /\ cur' = 1 /\ UNCHANGED <<words, strings, end>>
       ELSE LET g == msgtab[cur]
                table == Table(g)
                newWords == [at \in {end + 2 * id : id \in DOMAIN table} |-> table[(at - end) \div 2]]
                newStrings == [at \in {end + Position(g, id) : id \in DOMAIN g} |->
                                 g[CHOOSE id \in DOMAIN g : end + Position(g, id) = at]]
            IN  /\ words' = Extended(words, newWords)
                /\ strings' = Extended(strings, newStrings)
                /\ end' = end + GroupLen(g)
                /\ cur' = cur + 1
                /\ UNCHANGED progress
    /\ UNCHANGED <<count, msgtab, sizes, sel, listing>>

-----------------------------------------------------------------------------
(* hlp                                                                     *)

GroupStart_Own(k) == SumFunctionOnSet(sizes, 1 .. k)
GroupStart(k) == SumFunctionOnSet(sizes, 1 .. k - 1)

\* find_resource_in_file: the place of the text with selector id of group k.
FindResource(k, id) ==
    LET at == GroupStart(k) + 2 * id
    IN  IF at \in DOMAIN words THEN GroupStart(k) + words[at] ELSE -1

\* main: a missing message has offset 0; the last is the one that ends with the group.
ListEntry ==
    /\ progress = "written"
    /\ LET at == GroupStart(cur) + 2 * sel
           text == GroupStart(cur) + words[at]
       IN  IF cur > Len(sizes)
           THEN progress' = "listed" /\ UNCHANGED lister
           ELSE IF at \notin DOMAIN words \/ 2 * sel >= sizes[cur]
           THEN progress' = "beyond" /\ UNCHANGED lister
           ELSE IF words[at] = 0
           THEN sel' = sel + 1 /\ UNCHANGED <<progress, cur, listing>>
           ELSE IF text \notin DOMAIN strings
           THEN progress' = "beyond" /\ UNCHANGED lister
           ELSE /\ listing' = Append(listing, <<cur, sel, strings[text]>>)
                /\ IF words[at] + Room(strings[text]) >= sizes[cur]
                   THEN cur' = cur + 1 /\ sel' = 0
                   ELSE sel' = sel + 1 /\ UNCHANGED cur
                /\ UNCHANGED progress
    /\ UNCHANGED <<count, msgtab, resFile>>

ResNext ==
    \/ ReadGroup \/ ReadMessage \/ BadLine \/ EndOfText
    \/ WriteSize \/ WriteGroup
    \/ ListEntry

ResSpec == ResInit /\ [][ResNext]_resVars

-----------------------------------------------------------------------------
(* Properties.                                                             *)

Fits == \A k \in DOMAIN msgtab : GroupLen(msgtab[k]) < Wrap
Compiled == progress \in {"written", "listed", "beyond"}
Given == UNION { { <<k, id, msgtab[k][id]>> : id \in DOMAIN msgtab[k] } : k \in DOMAIN msgtab }

\* As long as no group outgrows its 16-bit size, each message is found under its numbers,
\* through tables and sizes that were computed in two passes, and a listing of groups that
\* have messages shows each of them once, in order.
ReadsBack ==
    Compiled /\ Fits =>
        /\ \A g \in Given :
              LET at == FindResource(g[1], g[2]) IN at \in DOMAIN strings /\ strings[at] = g[3]
        /\ NoMessages \notin ToSet(msgtab) =>
              /\ progress # "beyond"
              /\ progress = "listed" => ToSet(listing) = Given /\ Len(listing) = Cardinality(Given)

\* resgen.c: "Empty" selectors just point to the nul at the start, and still return a nul
\* string.  A word reads as one when its first byte, the low one, is nul.
EmptySelectorIsNul ==
    Compiled /\ Fits =>
        \A k \in DOMAIN msgtab : \A id \in 0 .. MaxSel(msgtab[k]) \ DOMAIN msgtab[k] :
            LET at == FindResource(k, id) IN at \in DOMAIN words /\ words[at] % 256 = 0
=============================================================================
