---------------------------- MODULE ShowMeProofs ----------------------------
(***************************************************************************)
(* Proofs about ShowMe for every size of the sheet and of the table: the   *)
(* table never holds two live entries for one worksheet row.  Then about   *)
(* ShowMeLoops for every number of columns, every width of a word of       *)
(* colflags and every row: the loops of src/showme.c compute the closed    *)
(* forms ShowMe takes for them.                                            *)
(***************************************************************************)
EXTENDS ShowMe, ShowMeLoops, WellFoundedInduction, TLAPS

(* Neither conjunct is inductive on its own: a shift is injective only on  *)
(* rows that are rows.                                                     *)
IInv == TypeOK /\ LiveRowsUnique

(* What a shift does to a row that is not deleted by it: the row moves by  *)
(* amount and stays at or below start.                                     *)
LEMMA ShiftedRowFacts ==
    ASSUME NEW line \in 0 .. MaxInt16, NEW start \in 0 .. MaxRow,
           NEW amount \in -MaxRow .. MaxRow, start <= line
    PROVE  /\ ShiftedRow(line, start, amount) \in 0 .. MaxInt16 \cup {Deleted}
           /\ ShiftedRow(line, start, amount) # Deleted =>
                 /\ ShiftedRow(line, start, amount) = line + amount
                 /\ start <= line + amount
           /\ line + amount \in start .. MaxInt16 => ShiftedRow(line, start, amount) # Deleted
  BY RowAssumption DEF ShiftedRow, ToInt16, Deleted

LEMMA AdjustedColsType ==
    ASSUME NEW cols \in SUBSET Cols, NEW bound \in Cols, NEW amount \in -MaxCol .. MaxCol,
           LegalAdjust(bound, amount)
    PROVE  AdjustedCols(cols, bound, amount) \in SUBSET Cols
  BY ColAssumption DEF AdjustedCols, LegalAdjust, Cols, MaxCols

LEMMA RegionColsType ==
    ASSUME NEW a \in Cols, NEW bound \in Cols
    PROVE  RegionCols(a, bound) \in SUBSET Cols
  BY DEF RegionCols, StartMask, EndMask, Between, WordOf

(* With live rows unique, find_row has at most one entry to find. *)
LEMMA FirstMatchIsOnly ==
    ASSUME IInv, NEW i \in Entries, Tracked(i)
    PROVE  FirstMatch(sheetindex[i], rowindex[i]) = i
  <1>1. Matches(sheetindex[i], rowindex[i]) = {i}
    BY DEF Matches, IInv, LiveRowsUnique, Tracked
  <1>2. i <= i
    BY DEF Entries, IInv, TypeOK
  <1> QED BY <1>1, <1>2 DEF FirstMatch

LEMMA ClearFacts ==
    ASSUME IInv, NEW sheet \in Sheets, NEW line \in 0 .. MaxRow,
           NEW numrows \in 1 .. MaxRow + 1, line + numrows <= MaxRow + 1,
           ClearShowme(sheet, line, numrows)
    PROVE  \E k \in Nat :
             /\ count' = count + k
             /\ count' <= MaxShowme
             /\ \A i \in Entries : /\ sheetindex'[i] = sheetindex[i]
                                   /\ rowindex'[i] = rowindex[i]
                                   /\ rows'[i] = rows[i]
             /\ \A i \in count + 1 .. count + k :
                   /\ sheetindex'[i] = sheet
                   /\ rowindex'[i] \in Untracked(sheet, line .. line + numrows - 1)
                   /\ rows'[i] = {}
             /\ \A i, j \in count + 1 .. count + k : i < j => rowindex'[i] < rowindex'[j]
             /\ \A r \in Untracked(sheet, line .. line + numrows - 1) :
                   \E i \in count + 1 .. count + k : rowindex'[i] = r
             /\ sheetindex' = [i \in 1 .. count + k |-> sheetindex'[i]]
             /\ rowindex' = [i \in 1 .. count + k |-> rowindex'[i]]
             /\ rows' = [i \in 1 .. count + k |-> rows'[i]]
             /\ UNCHANGED <<rowdata, scan>>
  <1> DEFINE new == Untracked(sheet, line .. line + numrows - 1)
  <1> HIDE DEF new
  <1>1. PICK k \in 0 .. numrows : \E f \in [1 .. k -> new] :
           /\ \A i, j \in 1 .. k : i < j => f[i] < f[j]
           /\ \A r \in new : \E i \in 1 .. k : f[i] = r
           /\ count + k <= MaxShowme
           /\ count' = count + k
           /\ sheetindex' = [i \in 1 .. count + k |->
                                IF i <= count THEN sheetindex[i] ELSE sheet]
           /\ rowindex' = [i \in 1 .. count + k |->
                                IF i <= count THEN rowindex[i] ELSE f[i - count]]
           /\ rows' = [i \in 1 .. count + k |-> IF i <= count THEN rows[i] ELSE {}]
           /\ UNCHANGED <<rowdata, scan>>
    BY DEF ClearShowme, new
  <1>2. PICK f \in [1 .. k -> new] :
           /\ \A i, j \in 1 .. k : i < j => f[i] < f[j]
           /\ \A r \in new : \E i \in 1 .. k : f[i] = r
           /\ count + k <= MaxShowme
           /\ count' = count + k
           /\ sheetindex' = [i \in 1 .. count + k |->
                                IF i <= count THEN sheetindex[i] ELSE sheet]
           /\ rowindex' = [i \in 1 .. count + k |->
                                IF i <= count THEN rowindex[i] ELSE f[i - count]]
           /\ rows' = [i \in 1 .. count + k |-> IF i <= count THEN rows[i] ELSE {}]
           /\ UNCHANGED <<rowdata, scan>>
    BY <1>1
  <1>3. count \in Nat /\ k \in Nat
    BY DEF IInv, TypeOK
  <1>4. \A i \in count + 1 .. count + k : rowindex'[i] = f[i - count] /\ i - count \in 1 .. k
    BY <1>2, <1>3
  <1>5. \A i, j \in count + 1 .. count + k : i < j => rowindex'[i] < rowindex'[j]
    BY <1>2, <1>3, <1>4
  <1>6. \A i \in count + 1 .. count + k :
           sheetindex'[i] = sheet /\ rowindex'[i] \in new /\ rows'[i] = {}
    BY <1>2, <1>3, <1>4
  <1>7. \A i \in Entries : /\ sheetindex'[i] = sheetindex[i]
                           /\ rowindex'[i] = rowindex[i] /\ rows'[i] = rows[i]
    BY <1>2, <1>3 DEF Entries
  <1>8. \A r \in new : \E i \in count + 1 .. count + k : rowindex'[i] = r
    <2> SUFFICES ASSUME NEW r \in new
                 PROVE  \E i \in count + 1 .. count + k : rowindex'[i] = r
      OBVIOUS
    <2>1. PICK i \in 1 .. k : f[i] = r
      BY <1>2
    <2>2. count + i \in count + 1 .. count + k /\ (count + i) - count = i
      BY <1>3
    <2> QED BY <2>1, <2>2, <1>4
  <1>9. /\ sheetindex' = [i \in 1 .. count + k |-> sheetindex'[i]]
        /\ rowindex' = [i \in 1 .. count + k |-> rowindex'[i]]
        /\ rows' = [i \in 1 .. count + k |-> rows'[i]]
    BY <1>2
  <1> QED BY <1>2, <1>3, <1>5, <1>6, <1>7, <1>8, <1>9 DEF new

LEMMA ClearKeeps ==
    ASSUME IInv, NEW sheet \in Sheets, NEW line \in 0 .. MaxRow,
           NEW numrows \in 1 .. MaxRow + 1, line + numrows <= MaxRow + 1,
           ClearShowme(sheet, line, numrows)
    PROVE  IInv'
  <1>0. PICK k \in Nat :
             /\ count' = count + k
             /\ count' <= MaxShowme
             /\ \A i \in Entries : /\ sheetindex'[i] = sheetindex[i]
                                   /\ rowindex'[i] = rowindex[i]
                                   /\ rows'[i] = rows[i]
             /\ \A i \in count + 1 .. count + k :
                   /\ sheetindex'[i] = sheet
                   /\ rowindex'[i] \in Untracked(sheet, line .. line + numrows - 1)
                   /\ rows'[i] = {}
             /\ \A i, j \in count + 1 .. count + k : i < j => rowindex'[i] < rowindex'[j]
             /\ \A r \in Untracked(sheet, line .. line + numrows - 1) :
                   \E i \in count + 1 .. count + k : rowindex'[i] = r
             /\ sheetindex' = [i \in 1 .. count + k |-> sheetindex'[i]]
             /\ rowindex' = [i \in 1 .. count + k |-> rowindex'[i]]
             /\ rows' = [i \in 1 .. count + k |-> rows'[i]]
             /\ UNCHANGED <<rowdata, scan>>
    BY ClearFacts
  <1>1. count \in Nat /\ count + k \in Nat
    BY DEF IInv, TypeOK
  <1>2. Untracked(sheet, line .. line + numrows - 1) \subseteq 0 .. MaxInt16
    BY RowAssumption DEF Untracked
  <1>3. TypeOK'
    <2>2. \A i \in 1 .. count + k : i \in Entries \/ i \in count + 1 .. count + k
      BY <1>1 DEF Entries
    <2>3. \A i \in 1 .. count + k : /\ sheetindex'[i] \in Sheets
                                    /\ rowindex'[i] \in 0 .. MaxInt16 \cup {Deleted}
                                    /\ rows'[i] \in SUBSET Cols
      BY <2>2, <1>0, <1>2 DEF IInv, TypeOK
    <2>4. /\ sheetindex' \in [1 .. count + k -> Sheets]
          /\ rowindex' \in [1 .. count + k -> 0 .. MaxInt16 \cup {Deleted}]
          /\ rows' \in [1 .. count + k -> SUBSET Cols]
      BY <1>0, <2>3
    <2>5. /\ rowdata' \in SUBSET Cols
          /\ cursor' \in 0 .. count'
          /\ seen' \in Seq(1 .. count')
      BY <1>0, <1>1 DEF scan, IInv, TypeOK, Entries
    <2>6. count' \in 0 .. MaxShowme
      BY <1>0, <1>1, SizeAssumption
    <2> QED BY <1>0, <2>4, <2>5, <2>6 DEF TypeOK, Entries
  <1>4. LiveRowsUnique'
    <2> SUFFICES ASSUME NEW i \in 1 .. count + k, NEW j \in 1 .. count + k,
                        Tracked(i)', Tracked(j)', i # j,
                        sheetindex'[i] = sheetindex'[j],
                        rowindex'[i] = rowindex'[j]
                 PROVE  FALSE
      BY <1>0 DEF LiveRowsUnique, Entries
    <2>1. CASE i \in Entries /\ j \in Entries
      BY <2>1, <1>0 DEF IInv, LiveRowsUnique, Tracked
    <2>2. ASSUME NEW p \in Entries, NEW q \in count + 1 .. count + k,
                 sheetindex'[p] = sheetindex'[q], rowindex'[p] = rowindex'[q]
          PROVE  FALSE
      BY <2>2, <1>0 DEF Untracked, Matches
    <2>3. CASE i \in count + 1 .. count + k /\ j \in count + 1 .. count + k
      <3>1. rowindex'[i] \in Int /\ rowindex'[j] \in Int
        BY <2>3, <1>0, <1>2
      <3>2. \A x, y \in count + 1 .. count + k : x < y => rowindex'[x] < rowindex'[y]
        BY <1>0
      <3>3. i < j \/ j < i
        BY <2>3, <1>1
      <3> QED BY <2>3, <3>1, <3>2, <3>3
    <2> QED BY <2>1, <2>2, <2>3, <1>1 DEF Entries
  <1> QED BY <1>3, <1>4 DEF IInv

LEMMA SetKeeps ==
    ASSUME IInv, NEW sheet \in Sheets, NEW line \in 0 .. MaxRow, NEW column \in Cols,
           SetShowme(sheet, line, column)
    PROVE  IInv'
  BY DEF SetShowme, index, scan, IInv, TypeOK, LiveRowsUnique, Tracked, Entries

LEMMA InvalidateKeeps ==
    ASSUME IInv, NEW s1 \in Sheets, NEW s2 \in Sheets, NEW r1, NEW r2,
           NEW a \in Cols, NEW bound \in Cols,
           InvalidateRegion(s1, s2, r1, r2, a, bound)
    PROVE  IInv'
  BY RegionColsType
     DEF InvalidateRegion, index, scan, IInv, TypeOK, LiveRowsUnique, Tracked, Entries

LEMMA AdjustColsKeeps ==
    ASSUME IInv, NEW s1 \in Sheets, NEW s2 \in Sheets, NEW bound \in Cols,
           NEW amount \in -MaxCol .. MaxCol, LegalAdjust(bound, amount),
           AdjustShowmeCols(s1, s2, bound, amount)
    PROVE  IInv'
  BY AdjustedColsType
     DEF AdjustShowmeCols, index, scan, IInv, TypeOK, LiveRowsUnique, Tracked, Entries

(* What adjust_showme_rows does to one entry. *)
LEMMA AdjustRowsFacts ==
    ASSUME IInv, NEW s1 \in Sheets, NEW s2 \in Sheets, NEW start \in 0 .. MaxRow,
           NEW amount \in -MaxRow .. MaxRow, AdjustShowmeRows(s1, s2, start, amount),
           NEW i \in Entries
    PROVE  LET shifts == start <= rowindex[i] /\ sheetindex[i] \in s1 .. s2 IN
           /\ rowindex'[i] \in 0 .. MaxInt16 \cup {Deleted}
           /\ Tracked(i)' => Tracked(i)
           /\ shifts /\ Tracked(i)' => /\ rowindex'[i] = rowindex[i] + amount
                                       /\ start <= rowindex'[i]
           /\ shifts /\ Tracked(i) /\ rowindex[i] + amount \in start .. MaxInt16 => Tracked(i)'
           /\ ~shifts => rowindex'[i] = rowindex[i]
  <1> DEFINE shifts == start <= rowindex[i] /\ sheetindex[i] \in s1 .. s2
  <1>1. rowindex[i] \in 0 .. MaxInt16 \cup {Deleted}
    BY DEF IInv, TypeOK
  <1>2. rowindex'[i] = IF shifts THEN ShiftedRow(rowindex[i], start, amount) ELSE rowindex[i]
    BY DEF AdjustShowmeRows
  <1>3. CASE shifts
    <2>1. rowindex[i] \in 0 .. MaxInt16
      BY <1>1, <1>3 DEF Deleted
    <2> QED BY <1>2, <1>3, <2>1, ShiftedRowFacts DEF Tracked, Deleted
  <1>4. CASE ~shifts
    BY <1>1, <1>2, <1>4 DEF Tracked
  <1> QED BY <1>3, <1>4

(* Every row at or below start moves by the same amount or is deleted, and *)
(* what moves stays at or below start: it cannot land on a row above.      *)
LEMMA AdjustRowsKeeps ==
    ASSUME IInv, NEW s1 \in Sheets, NEW s2 \in Sheets, NEW start \in 0 .. MaxRow,
           NEW amount \in -MaxRow .. MaxRow, AdjustShowmeRows(s1, s2, start, amount)
    PROVE  IInv'
  <1>1. count' = count /\ sheetindex' = sheetindex /\ rows' = rows /\ rowdata' = rowdata
    BY DEF AdjustShowmeRows
  <1>2. TypeOK'
    <2>1. rowindex' = [i \in Entries |-> rowindex'[i]]
      BY DEF AdjustShowmeRows
    <2>2. rowindex' \in [Entries -> 0 .. MaxInt16 \cup {Deleted}]
      BY <2>1, AdjustRowsFacts
    <2>3. cursor' \in 0 .. count /\ seen' \in Seq(Entries)
      BY DEF AdjustShowmeRows, NoScan, IInv, TypeOK
    <2> QED BY <1>1, <2>2, <2>3 DEF IInv, TypeOK, Entries
  <1>3. LiveRowsUnique'
    <2> SUFFICES ASSUME NEW i \in Entries, NEW j \in Entries,
                        Tracked(i)', Tracked(j)',
                        sheetindex[i] = sheetindex[j],
                        rowindex'[i] = rowindex'[j]
                 PROVE  i = j
      BY <1>1 DEF LiveRowsUnique, Entries
    <2>1. rowindex[i] \in Int /\ rowindex[j] \in Int
      BY DEF IInv, TypeOK, Deleted
    <2>2. Tracked(i) /\ Tracked(j) /\ rowindex[i] = rowindex[j]
      BY <2>1, AdjustRowsFacts
    <2> QED BY <2>2 DEF IInv, LiveRowsUnique
  <1> QED BY <1>2, <1>3 DEF IInv

LEMMA ScanKeeps ==
    ASSUME IInv, ScanShowmeRows
    PROVE  IInv'
  <1>1. index' = index /\ rows' = rows /\ rowdata' = rowdata
    BY DEF ScanShowmeRows
  <1>2. cursor' \in 0 .. count /\ seen' \in Seq(Entries)
    <2>1. CASE NextLive = {}
      BY <2>1 DEF ScanShowmeRows, IInv, TypeOK
    <2>2. CASE NextLive # {}
      <3>1. PICK i \in Entries : cursor' = i /\ seen' = Append(seen, i)
        BY <2>2 DEF ScanShowmeRows, NextLive
      <3>2. seen' \in Seq(Entries)
        BY <3>1 DEF IInv, TypeOK
      <3>3. cursor' \in 0 .. count
        BY <3>1 DEF Entries, IInv, TypeOK
      <3> QED BY <3>2, <3>3
    <2> QED BY <2>1, <2>2
  <1> QED BY <1>1, <1>2 DEF IInv, TypeOK, LiveRowsUnique, Tracked, index, Entries

LEMMA InitEstablishes == Init => IInv
  BY SizeAssumption DEF Init, NoEntry, IInv, TypeOK, LiveRowsUnique, Entries

LEMMA NextKeeps == IInv /\ [Next]_vars => IInv'
  <1> SUFFICES ASSUME IInv, [Next]_vars PROVE IInv'
    OBVIOUS
  <1>1. CASE ResetShowme
    BY <1>1, SizeAssumption
       DEF ResetShowme, NoScan, NoEntry, IInv, TypeOK, LiveRowsUnique, Entries
  <1>2. CASE StartScan
    BY <1>2 DEF StartScan, NoScan, index, IInv, TypeOK, LiveRowsUnique, Tracked, Entries
  <1>3. CASE UNCHANGED vars
    BY <1>3 DEF vars, index, scan, IInv, TypeOK, LiveRowsUnique, Tracked, Entries
  <1>4. CASE \E sheet \in Sheets, line \in 0 .. MaxRow, numrows \in 1 .. MaxRow + 1 :
                line + numrows <= MaxRow + 1 /\ ClearShowme(sheet, line, numrows)
    BY <1>4, ClearKeeps
  <1>5. CASE \E sheet \in Sheets, line \in 0 .. MaxRow, column \in Cols :
                SetShowme(sheet, line, column)
    BY <1>5, SetKeeps
  <1>6. CASE \E s1, s2 \in Sheets, r1, r2 \in 0 .. MaxRow, a, bound \in Cols :
                s1 <= s2 /\ r1 <= r2 /\ a <= bound /\ InvalidateRegion(s1, s2, r1, r2, a, bound)
    BY <1>6, InvalidateKeeps
  <1>7. CASE \E s1, s2 \in Sheets, start \in 0 .. MaxRow, amount \in -MaxRow .. MaxRow :
                s1 <= s2 /\ AdjustShowmeRows(s1, s2, start, amount)
    BY <1>7, AdjustRowsKeeps
  <1>8. CASE \E s1, s2 \in Sheets, bound \in Cols, amount \in -MaxCol .. MaxCol :
                s1 <= s2 /\ LegalAdjust(bound, amount) /\ AdjustShowmeCols(s1, s2, bound, amount)
    BY <1>8, AdjustColsKeeps
  <1> QED BY <1>1, <1>2, <1>3, <1>4, <1>5, <1>6, <1>7, <1>8, ScanKeeps, ZenonT(60) DEF Next

(* The table is well formed in every reachable state. *)
THEOREM TypeCorrect == Spec => []TypeOK
  <1>1. IInv => TypeOK
    BY DEF IInv
  <1> QED BY <1>1, InitEstablishes, NextKeeps, PTL DEF Spec

(* However rows are tracked, inserted, deleted and pushed off the sheet,   *)
(* no worksheet row has two live entries, so find_row's first match is the *)
(* only one.                                                               *)
THEOREM NoDuplicateRows == Spec => []LiveRowsUnique
  <1>1. IInv => LiveRowsUnique
    BY DEF IInv
  <1> QED BY <1>1, InitEstablishes, NextKeeps, PTL DEF Spec

(* What ScanReportsEveryRow says, as the order of reports and what they    *)
(* cover: only a scan step and a change of the index can disturb either.   *)
ScanInv == IInv /\ ScanReportsEveryRow

(* Without rows, marks and the cursor's own steps, nothing is disturbed.   *)
LEMMA SameScan ==
    ASSUME ScanInv, UNCHANGED scan,
           \A i \in 1 .. cursor : rowindex'[i] = rowindex[i]
    PROVE  ScanReportsEveryRow'
  BY DEF ScanInv, ScanReportsEveryRow, scan

LEMMA NoScanReports == ASSUME NoScan PROVE ScanReportsEveryRow'
  BY DEF NoScan, ScanReportsEveryRow

(* The next live entry is the first after the cursor, so that what it      *)
(* steps over is off the sheet.                                            *)
LEMMA ScanStepReports ==
    ASSUME ScanInv, ScanShowmeRows
    PROVE  ScanReportsEveryRow'
  <1> DEFINE Reported == {seen[k] : k \in 1 .. Len(seen)}
             Below(c) == {i \in 1 .. c : rowindex[i] \in 0 .. MaxRow}
  <1>1. rowindex' = rowindex /\ count' = count
    BY DEF ScanShowmeRows, index
  <1>2. /\ count \in Nat /\ cursor \in 0 .. count
        /\ seen \in Seq(Entries) /\ Entries = 1 .. count
        /\ Reported = Below(cursor)
        /\ \A k, l \in 1 .. Len(seen) : k < l => seen[k] < seen[l]
    BY DEF ScanInv, ScanReportsEveryRow, IInv, TypeOK, Entries
  <1>3. CASE NextLive = {}
    <2>1. cursor' = count /\ seen' = seen
      BY <1>3 DEF ScanShowmeRows
    <2>2. Below(count) = Below(cursor)
      BY <1>2, <1>3 DEF NextLive, OnSheet
    <2> QED BY <1>1, <1>2, <2>1, <2>2 DEF ScanReportsEveryRow
  <1>4. CASE NextLive # {}
    <2>1. PICK i \in NextLive : /\ \A j \in NextLive : i <= j
                                /\ cursor' = i /\ seen' = Append(seen, i)
      BY <1>4 DEF ScanShowmeRows
    <2>2. i \in 1 .. count /\ cursor < i /\ rowindex[i] \in 0 .. MaxRow
      BY <1>2, <2>1 DEF NextLive, OnSheet
    <2>3. Below(i) = Below(cursor) \cup {i}
      BY <1>2, <2>1, <2>2, SMTT(30) DEF NextLive, OnSheet
    <2>4. /\ Len(seen') = Len(seen) + 1
          /\ \A k \in 1 .. Len(seen) : seen'[k] = seen[k]
          /\ seen'[Len(seen) + 1] = i
          /\ Len(seen) \in Nat
      BY <1>2, <2>1, <2>2
    <2>5. {seen'[k] : k \in 1 .. Len(seen')} = Reported \cup {i}
      <3>1. 1 .. Len(seen') = (1 .. Len(seen)) \cup {Len(seen) + 1}
        BY <2>4
      <3>2. \A k \in 1 .. Len(seen) : k \in 1 .. Len(seen')
        BY <3>1
      <3>3. Len(seen) + 1 \in 1 .. Len(seen')
        BY <2>4
      <3>4. ASSUME NEW x \in {seen'[k] : k \in 1 .. Len(seen')}
            PROVE  x \in Reported \cup {i}
        <4>1. PICK k \in 1 .. Len(seen') : x = seen'[k]
          BY <3>4
        <4>2. CASE k \in 1 .. Len(seen)
          BY <4>1, <4>2, <2>4
        <4> QED BY <3>1, <4>1, <4>2, <2>4
      <3>5. i \in {seen'[k] : k \in 1 .. Len(seen')}
        BY <2>4, <3>3
      <3>6. ASSUME NEW x \in Reported
            PROVE  x \in {seen'[k] : k \in 1 .. Len(seen')}
        BY <3>6, <3>2, <2>4
      <3> QED BY <3>4, <3>5, <3>6
    <2>6. \A k \in 1 .. Len(seen) : seen[k] < i
      <3>1. \A k \in 1 .. Len(seen) : seen[k] \in Below(cursor)
        BY <1>2
      <3> QED BY <3>1, <1>2, <2>2
    <2>7. \A k, l \in 1 .. Len(seen') : k < l => seen'[k] < seen'[l]
      <3> SUFFICES ASSUME NEW k \in 1 .. Len(seen'), NEW l \in 1 .. Len(seen'), k < l
                   PROVE  seen'[k] < seen'[l]
        OBVIOUS
      <3>1. k \in 1 .. Len(seen)
        BY <2>4
      <3>2. CASE l \in 1 .. Len(seen)
        BY <3>1, <3>2, <1>2, <2>4
      <3>3. CASE l = Len(seen) + 1
        BY <3>1, <3>3, <2>4, <2>6
      <3> QED BY <2>4, <3>2, <3>3
    <2>8. {seen'[k] : k \in 1 .. Len(seen')} = {j \in 1 .. cursor' : rowindex'[j] \in 0 .. MaxRow}
      <3>1. Below(i) = {j \in 1 .. cursor' : rowindex'[j] \in 0 .. MaxRow}
        BY <1>1, <2>1
      <3> QED BY <1>2, <2>3, <2>5, <3>1
    <2> QED BY <2>7, <2>8 DEF ScanReportsEveryRow
  <1> QED BY <1>3, <1>4

LEMMA NextKeepsScan == ScanInv /\ [Next]_vars => ScanReportsEveryRow'
  <1> SUFFICES ASSUME ScanInv, [Next]_vars PROVE ScanReportsEveryRow'
    OBVIOUS
  <1>1. CASE ResetShowme \/ StartScan
    BY <1>1, NoScanReports DEF ResetShowme, StartScan
  <1>2. CASE UNCHANGED vars
    BY <1>2, SameScan DEF vars, index
  <1>3. ASSUME NEW sheet \in Sheets, NEW line \in 0 .. MaxRow,
               NEW numrows \in 1 .. MaxRow + 1, line + numrows <= MaxRow + 1,
               ClearShowme(sheet, line, numrows)
        PROVE  ScanReportsEveryRow'
    <2>1. /\ UNCHANGED scan
          /\ \A i \in Entries : rowindex'[i] = rowindex[i]
      BY <1>3, ClearFacts DEF ScanInv
    <2>2. 1 .. cursor \subseteq Entries
      BY DEF ScanInv, IInv, TypeOK, Entries
    <2> QED BY <2>1, <2>2, SameScan
  <1>4. ASSUME NEW sheet, NEW line, NEW column, SetShowme(sheet, line, column)
        PROVE  ScanReportsEveryRow'
    BY <1>4, SameScan DEF SetShowme, index
  <1>5. ASSUME NEW s1, NEW s2, NEW r1, NEW r2, NEW a, NEW bound,
               InvalidateRegion(s1, s2, r1, r2, a, bound)
        PROVE  ScanReportsEveryRow'
    BY <1>5, SameScan DEF InvalidateRegion, index
  <1>6. ASSUME NEW s1, NEW s2, NEW start, NEW amount, AdjustShowmeRows(s1, s2, start, amount)
        PROVE  ScanReportsEveryRow'
    BY <1>6, NoScanReports DEF AdjustShowmeRows
  <1>7. ASSUME NEW s1, NEW s2, NEW bound, NEW amount, AdjustShowmeCols(s1, s2, bound, amount)
        PROVE  ScanReportsEveryRow'
    BY <1>7, SameScan DEF AdjustShowmeCols, index
  <1> QED BY <1>1, <1>2, <1>3, <1>4, <1>5, <1>6, <1>7, ScanStepReports DEF Next, ScanInv

(* A caller that goes on from the cursor it kept gets every row of the     *)
(* sheet once and in order, whatever is tracked and marked between two     *)
(* calls of scan_showme_rows.                                              *)
THEOREM ScanIsComplete == Spec => []ScanReportsEveryRow
  <1>1. Init => ScanInv
    BY InitEstablishes DEF Init, ScanInv, ScanReportsEveryRow
  <1>2. ScanInv /\ [Next]_vars => ScanInv'
    BY NextKeeps, NextKeepsScan DEF ScanInv
  <1>3. ScanInv => ScanReportsEveryRow
    BY DEF ScanInv
  <1> QED BY <1>1, <1>2, <1>3, PTL DEF Spec
-----------------------------------------------------------------------------
(* The table implements the dictionary. *)

(* What Pending stands for: the bits of the only entry of each row. *)
PendingFacts ==
    /\ Pending = [k \in LiveKeys |-> Pending[k]]
    /\ \A i \in Entries : Tracked(i) => Key(i) \in LiveKeys /\ Pending[Key(i)] = rows[i]
    /\ \A k \in LiveKeys : \E i \in Entries : Tracked(i) /\ k = Key(i)

LEMMA PendingAt == IInv => PendingFacts
  <1> SUFFICES ASSUME IInv PROVE PendingFacts
    OBVIOUS
  <1>1. \A k \in LiveKeys : \E i \in Entries : Tracked(i) /\ k = Key(i)
    BY DEF LiveKeys
  <1>2. ASSUME NEW i \in Entries, Tracked(i)
        PROVE  Key(i) \in LiveKeys /\ Pending[Key(i)] = rows[i]
    <2>1. Key(i) \in LiveKeys
      BY <1>2 DEF LiveKeys
    <2>2. Key(i).sheet = sheetindex[i] /\ Key(i).row = rowindex[i]
      BY DEF Key
    <2> QED BY <2>1, <2>2, <1>2, FirstMatchIsOnly DEF Pending
  <1>3. Pending = [k \in LiveKeys |-> Pending[k]]
    BY DEF Pending
  <1> QED BY <1>1, <1>2, <1>3 DEF PendingFacts

(* Pending depends on the index and the bits only. *)
LEMMA PendingUnchanged ==
    ASSUME UNCHANGED <<index, rows>>
    PROVE  UNCHANGED Pending
  <1>1. LiveKeys' = LiveKeys
    BY DEF LiveKeys, Entries, Tracked, Key, index
  <1>2. \A sheet, line : FirstMatch(sheet, line)' = FirstMatch(sheet, line)
    BY DEF FirstMatch, Matches, Entries, index
  <1> QED BY <1>1, <1>2 DEF Pending

(* An operation that keeps the index keeps the keys. *)
LEMMA SameIndex ==
    ASSUME UNCHANGED index
    PROVE  /\ LiveKeys' = LiveKeys
           /\ \A i \in Entries : Tracked(i)' <=> Tracked(i)
           /\ \A i \in Entries : Key(i)' = Key(i)
  BY DEF LiveKeys, Entries, Tracked, Key, index

LEMMA ResetRefines ==
    ASSUME ResetShowme
    PROVE  Abs!Reset
  BY DEF ResetShowme, Abs!Reset, Pending, LiveKeys, Entries

(* Marking columns C of the rows K: by set_showme or invalidate_region. *)
LEMMA MarkRefines ==
    ASSUME IInv, PendingFacts, PendingFacts', UNCHANGED index, NEW K, NEW C,
           \A i \in Entries : Tracked(i) =>
              rows'[i] = IF Key(i) \in K THEN rows[i] \cup C ELSE rows[i]
    PROVE  Abs!Mark(K, C)
  <1>1. Pending' = [k \in LiveKeys |-> Pending'[k]] /\ DOMAIN Pending = LiveKeys
    BY SameIndex DEF PendingFacts
  <1>2. ASSUME NEW k \in LiveKeys
        PROVE  Pending'[k] = IF k \in K THEN Pending[k] \cup C ELSE Pending[k]
    <2>1. PICK i \in Entries : Tracked(i) /\ k = Key(i)
      BY DEF PendingFacts
    <2>2. Pending'[k] = rows'[i]
      BY <2>1, SameIndex DEF PendingFacts, index, Entries
    <2>3. Pending[k] = rows[i]
      BY <2>1 DEF PendingFacts
    <2> QED BY <2>1, <2>2, <2>3
  <1> QED BY <1>1, <1>2 DEF Abs!Mark, Abs!Marking

(* A column of a later word is a later column, and conversely. *)
LEMMA WordOrder ==
    ASSUME NEW c \in Cols, NEW d \in Cols
    PROVE  /\ c \div Word \in Int /\ d \div Word \in Int
           /\ c <= d => c \div Word <= d \div Word
  <1>1. c \in Nat /\ d \in Nat /\ Word \in Nat /\ Word > 0
    BY ColAssumption DEF Cols
  <1> QED BY <1>1, SMTT(30)

(* The three masks of invalidate_region together are the range. *)
LEMMA RegionColsRange ==
    ASSUME NEW a \in Cols, NEW bound \in Cols, a <= bound
    PROVE  RegionCols(a, bound) = a .. bound
  <1>1. a .. bound \subseteq Cols
    BY ColAssumption DEF Cols
  <1>2. ASSUME NEW d \in Cols
        PROVE  d \in RegionCols(a, bound) <=> d \in a .. bound
    <2>1. /\ a \div Word \in Int /\ bound \div Word \in Int /\ d \div Word \in Int
          /\ a <= d => a \div Word <= d \div Word
          /\ d <= a => d \div Word <= a \div Word
          /\ bound <= d => bound \div Word <= d \div Word
          /\ d <= bound => d \div Word <= bound \div Word
          /\ a \div Word <= bound \div Word
      BY WordOrder
    <2>2. a \in Int /\ bound \in Int /\ d \in Int
      BY DEF Cols
    <2> QED BY <2>1, <2>2 DEF RegionCols, StartMask, EndMask, Between, WordOf
  <1> QED BY <1>1, <1>2, RegionColsType

LEMMA SetRefines ==
    ASSUME IInv, PendingFacts, PendingFacts',
           NEW sheet \in Sheets, NEW line \in 0 .. MaxRow, NEW column \in Cols,
           SetShowme(sheet, line, column)
    PROVE  Abs!Mark(Abs!Rows(sheet, sheet, line, line), {column})
  <1> DEFINE K == Abs!Rows(sheet, sheet, line, line)
  <1>1. ASSUME NEW i \in Entries, Tracked(i)
        PROVE  rows'[i] = IF Key(i) \in K THEN rows[i] \cup {column} ELSE rows[i]
    <2>1. line .. line = {line} /\ sheet .. sheet = {sheet}
      BY DEF Sheets
    <2>2. Key(i) \in K <=> sheetindex[i] = sheet /\ rowindex[i] = line
      BY <2>1 DEF Key, Abs!Rows
    <2>3. CASE Matches(sheet, line) = {}
      BY <2>2, <2>3 DEF SetShowme, Matches
    <2>4. CASE Matches(sheet, line) # {}
      <3>1. PICK j \in Entries : sheetindex[j] = sheet /\ rowindex[j] = line
        BY <2>4 DEF Matches
      <3>2. Tracked(j)
        BY <3>1 DEF Tracked, Deleted
      <3>3. FirstMatch(sheet, line) = j
        BY <3>1, <3>2, FirstMatchIsOnly
      <3>4. i = j <=> Key(i) \in K
        BY <3>1, <3>2, <2>2, <1>1 DEF IInv, LiveRowsUnique
      <3>5. rows' = [rows EXCEPT ![j] = @ \cup {column}]
        BY <2>4, <3>3 DEF SetShowme
      <3> QED BY <2>1, <3>4, <3>5 DEF IInv, TypeOK
    <2> QED BY <2>3, <2>4
  <1>2. UNCHANGED index
    BY DEF SetShowme
  <1> QED BY <1>1, <1>2, MarkRefines

LEMMA InvalidateRefines ==
    ASSUME IInv, PendingFacts, PendingFacts',
           NEW s1 \in Sheets, NEW s2 \in Sheets, NEW r1 \in 0 .. MaxRow,
           NEW r2 \in 0 .. MaxRow, NEW a \in Cols, NEW bound \in Cols, a <= bound,
           InvalidateRegion(s1, s2, r1, r2, a, bound)
    PROVE  Abs!Mark(Abs!Rows(s1, s2, r1, r2), a .. bound)
  <1>1. \A i \in Entries : Tracked(i) =>
           rows'[i] = IF Key(i) \in Abs!Rows(s1, s2, r1, r2)
                      THEN rows[i] \cup (a .. bound) ELSE rows[i]
    BY RegionColsRange DEF InvalidateRegion, Key, Abs!Rows
  <1>2. UNCHANGED index
    BY DEF InvalidateRegion
  <1> QED BY <1>1, <1>2, MarkRefines, ZenonT(60)

(* The columns an insertion or deletion leaves pending are those that were *)
(* before it and those that are new.                                       *)
LEMMA AdjustedColsAre ==
    ASSUME NEW cols \in SUBSET Cols, NEW bound \in Cols, NEW amount \in -MaxCol .. MaxCol,
           LegalAdjust(bound, amount)
    PROVE  AdjustedCols(cols, bound, amount) = {c \in cols : c < bound} \cup Abs!NewCols(bound, amount)
  <1> USE ColAssumption DEF Cols, MaxCols, LegalAdjust
  <1>1. cols \cap 0 .. bound - 1 = {c \in cols : c < bound}
    <2>1. \A c \in cols : c \in 0 .. bound - 1 <=> c < bound
      OBVIOUS
    <2> QED BY <2>1
  <1>2. CASE amount > 0
    BY <1>1, <1>2 DEF AdjustedCols, Abs!NewCols, Abs!Cols
  <1>3. CASE amount = 0
    BY <1>1, <1>3 DEF AdjustedCols, Abs!NewCols, Abs!Cols
  <1>4. CASE amount < 0
    BY <1>1, <1>4 DEF AdjustedCols, Abs!NewCols, Abs!Cols
  <1> QED BY <1>2, <1>3, <1>4

LEMMA AdjustColsRefines ==
    ASSUME IInv, PendingFacts, PendingFacts',
           NEW s1 \in Sheets, NEW s2 \in Sheets, NEW bound \in Cols,
           NEW amount \in -MaxCol .. MaxCol, LegalAdjust(bound, amount),
           AdjustShowmeCols(s1, s2, bound, amount)
    PROVE  Abs!ShiftCols(s1, s2, bound, amount)
  <1>1. UNCHANGED index
    BY DEF AdjustShowmeCols
  <1>2. DOMAIN Pending = LiveKeys /\ Pending' = [k \in LiveKeys |-> Pending'[k]]
    BY <1>1, SameIndex DEF PendingFacts
  <1>3. ASSUME NEW k \in LiveKeys
        PROVE  Pending'[k] = IF k.sheet \in s1 .. s2
                             THEN {c \in Pending[k] : c < bound} \cup Abs!NewCols(bound, amount)
                             ELSE Pending[k]
    <2>1. PICK i \in Entries : Tracked(i) /\ k = Key(i)
      BY DEF PendingFacts
    <2>2. Pending'[k] = rows'[i]
      BY <1>1, <2>1, SameIndex DEF PendingFacts, index, Entries
    <2>3. Pending[k] = rows[i] /\ k.sheet = sheetindex[i] /\ rows[i] \in SUBSET Cols
      BY <2>1 DEF PendingFacts, Key, IInv, TypeOK
    <2>4. rows'[i] = IF sheetindex[i] \in s1 .. s2
                     THEN AdjustedCols(rows[i], bound, amount) ELSE rows[i]
      BY DEF AdjustShowmeCols
    <2> QED BY <2>2, <2>3, <2>4, AdjustedColsAre
  <1> QED BY <1>2, <1>3 DEF Abs!ShiftCols, Abs!ShiftingCols

LEMMA AdjustRowsRefines ==
    ASSUME IInv, IInv', PendingFacts, PendingFacts',
           NEW s1 \in Sheets, NEW s2 \in Sheets, NEW start \in 0 .. MaxRow,
           NEW amount \in -MaxRow .. MaxRow, AdjustShowmeRows(s1, s2, start, amount)
    PROVE  Abs!ShiftRows(s1, s2, start, amount)
  <1> DEFINE Shifted(k, m) == IF Abs!Moves(k, s1, s2, start)
                              THEN [k EXCEPT !.row = k.row + m] ELSE k
             Stays(k) == Abs!Moves(k, s1, s2, start) => k.row + amount \in start .. MaxInt16
             kept     == {k \in DOMAIN Pending : Stays(k)}
  <1>1. UNCHANGED <<count, sheetindex, rows>>
    BY DEF AdjustShowmeRows
  <1>2. DOMAIN Pending = LiveKeys /\ Pending' = [k \in LiveKeys' |-> Pending'[k]]
    BY DEF PendingFacts
  <1>3. ASSUME NEW i \in Entries
        PROVE  /\ Tracked(i) /\ Stays(Key(i)) <=> Tracked(i)'
               /\ Tracked(i)' => Key(i)' = Shifted(Key(i), amount)
               /\ Tracked(i)' => Shifted(Key(i)', -amount) = Key(i)
    <2>1. /\ sheetindex[i] \in Sheets
          /\ rowindex[i] \in 0 .. MaxInt16 \cup {Deleted}
          /\ rowindex'[i] \in 0 .. MaxInt16 \cup {Deleted}
      BY <1>1 DEF IInv, TypeOK, Entries
    <2>2. Abs!Moves(Key(i), s1, s2, start) <=>
             start <= rowindex[i] /\ sheetindex[i] \in s1 .. s2
      BY <2>1 DEF Abs!Moves, Key, Deleted
    <2>3. Key(i).row = rowindex[i]
      BY DEF Key
    <2>4. Tracked(i) /\ Stays(Key(i)) <=> Tracked(i)'
      BY <2>1, <2>2, <2>3, AdjustRowsFacts, RowAssumption DEF Tracked, Deleted
    <2>5. ASSUME Tracked(i)'
          PROVE  Key(i)' = Shifted(Key(i), amount)
      <3>1. CASE Abs!Moves(Key(i), s1, s2, start)
        <4>1. rowindex'[i] = rowindex[i] + amount
          BY <2>2, <2>5, <3>1, AdjustRowsFacts
        <4> QED BY <1>1, <3>1, <4>1 DEF Key
      <3>2. CASE ~Abs!Moves(Key(i), s1, s2, start)
        <4>1. rowindex'[i] = rowindex[i]
          BY <2>2, <3>2, AdjustRowsFacts
        <4> QED BY <1>1, <3>2, <4>1 DEF Key
      <3> QED BY <3>1, <3>2
    <2>6. ASSUME Tracked(i)'
          PROVE  Shifted(Key(i)', -amount) = Key(i)
      <3>1. CASE Abs!Moves(Key(i), s1, s2, start)
        <4>1. rowindex'[i] = rowindex[i] + amount /\ start <= rowindex'[i]
          BY <2>2, <2>6, <3>1, AdjustRowsFacts
        <4>2. Abs!Moves(Key(i)', s1, s2, start)
          BY <1>1, <2>2, <3>1, <4>1 DEF Abs!Moves, Key
        <4>3. rowindex'[i] + -amount = rowindex[i]
          BY <2>1, <4>1 DEF Deleted
        <4> QED BY <1>1, <4>2, <4>3 DEF Key
      <3>2. CASE ~Abs!Moves(Key(i), s1, s2, start)
        <4>1. rowindex'[i] = rowindex[i]
          BY <2>2, <3>2, AdjustRowsFacts
        <4> QED BY <1>1, <3>2, <4>1 DEF Key, Abs!Moves
      <3> QED BY <3>1, <3>2
    <2> QED BY <2>4, <2>5, <2>6
  <1> HIDE DEF Shifted, Stays
  <1>4. LiveKeys' = {Shifted(k, amount) : k \in kept}
    <2>1. ASSUME NEW l \in LiveKeys' PROVE l \in {Shifted(k, amount) : k \in kept}
      <3>1. PICK i \in Entries : Tracked(i)' /\ l = Key(i)'
        BY <1>1 DEF PendingFacts, Entries
      <3>2. Key(i) \in kept /\ l = Shifted(Key(i), amount)
        BY <1>2, <1>3, <3>1 DEF PendingFacts
      <3> QED BY <3>2
    <2>2. ASSUME NEW k \in kept PROVE Shifted(k, amount) \in LiveKeys'
      <3>1. PICK i \in Entries : Tracked(i) /\ k = Key(i)
        BY <1>2 DEF PendingFacts
      <3>2. Tracked(i)' /\ Shifted(k, amount) = Key(i)'
        BY <1>3, <3>1
      <3> QED BY <1>1, <3>2 DEF PendingFacts, Entries
    <2> QED BY <2>1, <2>2
  <1>5. ASSUME NEW l \in LiveKeys'
        PROVE  Pending'[l] = Pending[Shifted(l, -amount)]
    <2>1. PICK i \in Entries : Tracked(i)' /\ l = Key(i)'
      BY <1>1 DEF PendingFacts, Entries
    <2>2. Tracked(i) /\ Shifted(l, -amount) = Key(i)
      BY <1>3, <2>1
    <2>3. Pending'[l] = rows'[i]
      BY <1>1, <2>1 DEF PendingFacts, Entries
    <2>4. Pending[Key(i)] = rows[i]
      BY <2>2 DEF PendingFacts
    <2> QED BY <1>1, <2>2, <2>3, <2>4
  <1>6. Pending' = [l \in {Shifted(k, amount) : k \in kept} |-> Pending[Shifted(l, -amount)]]
    BY <1>2, <1>4, <1>5
  <1> QED BY <1>6 DEF Abs!ShiftRows, Abs!ShiftingRows, Shifted, Stays

LEMMA ClearRefines ==
    ASSUME IInv, IInv', PendingFacts, PendingFacts',
           NEW sheet \in Sheets, NEW line \in 0 .. MaxRow,
           NEW numrows \in 1 .. MaxRow + 1, line + numrows <= MaxRow + 1,
           ClearShowme(sheet, line, numrows)
    PROVE  Abs!Track(Abs!Rows(sheet, sheet, line, line + numrows - 1))
  <1> DEFINE range == line .. line + numrows - 1
             K == Abs!Rows(sheet, sheet, line, line + numrows - 1)
  <1>1. PICK k \in Nat :
             /\ count' = count + k
             /\ \A i \in Entries : /\ sheetindex'[i] = sheetindex[i]
                                   /\ rowindex'[i] = rowindex[i]
                                   /\ rows'[i] = rows[i]
             /\ \A i \in count + 1 .. count + k :
                   /\ sheetindex'[i] = sheet
                   /\ rowindex'[i] \in Untracked(sheet, range)
                   /\ rows'[i] = {}
             /\ \A r \in Untracked(sheet, range) :
                   \E i \in count + 1 .. count + k : rowindex'[i] = r
    BY ClearFacts
  <1>2. /\ count \in Nat
        /\ Entries' = Entries \cup (count + 1 .. count + k)
    BY <1>1 DEF IInv, TypeOK, Entries
  <1>3. \A i \in Entries : (Tracked(i)' <=> Tracked(i)) /\ Key(i)' = Key(i)
    BY <1>1 DEF Tracked, Key
  <1>4. \A l : l \in K <=> \E r \in range : l = [sheet |-> sheet, row |-> r]
    <2>1. sheet .. sheet = {sheet}
      BY DEF Sheets
    <2> QED BY <2>1 DEF Abs!Rows
  <1> HIDE DEF K
  <1>5. ASSUME NEW i \in count + 1 .. count + k
        PROVE  /\ Tracked(i)' /\ Key(i)' \in K /\ Key(i)' \notin LiveKeys
    <2>1. rowindex'[i] \in range /\ Matches(sheet, rowindex'[i]) = {}
      BY <1>1 DEF Untracked
    <2>2. Key(i)' = [sheet |-> sheet, row |-> rowindex'[i]]
      BY <1>1 DEF Key
    <2>3. Tracked(i)'
      BY <2>1 DEF Tracked, Deleted
    <2>4. Key(i)' \notin LiveKeys
      BY <2>1, <2>2 DEF LiveKeys, Key, Matches
    <2> QED BY <1>4, <2>1, <2>2, <2>3, <2>4
  <1>6. LiveKeys' = LiveKeys \cup K
    <2>1. ASSUME NEW l \in LiveKeys' PROVE l \in LiveKeys \cup K
      <3>1. PICK i \in Entries' : Tracked(i)' /\ l = Key(i)'
        BY DEF PendingFacts
      <3>2. CASE i \in Entries
        <4>1. Tracked(i) /\ Key(i) = l
          BY <1>3, <3>1, <3>2
        <4> QED BY <3>2, <4>1 DEF PendingFacts
      <3>3. CASE i \in count + 1 .. count + k
        BY <1>5, <3>1, <3>3
      <3> QED BY <1>2, <3>1, <3>2, <3>3
    <2>2. ASSUME NEW l \in LiveKeys PROVE l \in LiveKeys'
      BY <1>2, <1>3 DEF PendingFacts
    <2>3. ASSUME NEW l \in K PROVE l \in LiveKeys'
      <3>1. PICK r \in range : l = [sheet |-> sheet, row |-> r]
        BY <1>4
      <3>2. CASE Matches(sheet, r) = {}
        <4>1. PICK i \in count + 1 .. count + k : rowindex'[i] = r
          BY <1>1, <3>2 DEF Untracked
        <4>2. Key(i)' = l
          BY <1>1, <3>1, <4>1 DEF Key
        <4> QED BY <1>2, <1>5, <4>2 DEF PendingFacts
      <3>3. CASE Matches(sheet, r) # {}
        <4>1. PICK i \in Entries : sheetindex[i] = sheet /\ rowindex[i] = r
          BY <3>3 DEF Matches
        <4>2. Tracked(i) /\ Key(i) = l
          BY <3>1, <4>1 DEF Tracked, Key, Deleted
        <4> QED BY <4>2, <2>2 DEF PendingFacts
      <3> QED BY <3>2, <3>3
    <2> QED BY <2>1, <2>2, <2>3
  <1>7. ASSUME NEW l \in LiveKeys \cup K
        PROVE  Pending'[l] = IF l \in DOMAIN Pending THEN Pending[l] ELSE {}
    <2>1. DOMAIN Pending = LiveKeys
      BY DEF PendingFacts
    <2>2. PICK i \in Entries' : Tracked(i)' /\ l = Key(i)'
      BY <1>6 DEF PendingFacts
    <2>3. Pending'[l] = rows'[i]
      BY <2>2 DEF PendingFacts
    <2>4. CASE i \in Entries
      <3>1. Tracked(i) /\ Key(i) = l /\ rows'[i] = rows[i]
        BY <1>1, <1>3, <2>2, <2>4
      <3>2. l \in LiveKeys /\ Pending[l] = rows[i]
        BY <2>4, <3>1 DEF PendingFacts
      <3> QED BY <2>1, <2>3, <3>1, <3>2
    <2>5. CASE i \in count + 1 .. count + k
      BY <1>1, <1>5, <2>1, <2>2, <2>3, <2>5
    <2> QED BY <1>2, <2>4, <2>5
  <1>8. DOMAIN Pending = LiveKeys /\ Pending' = [l \in LiveKeys' |-> Pending'[l]]
    BY DEF PendingFacts
  <1> QED BY <1>6, <1>7, <1>8 DEF Abs!Track, Abs!Tracking, K

(* The dictionary is one, whichever variable it is kept in. *)
LEMMA OneDictionary ==
    ASSUME NEW old, NEW s1, NEW s2, NEW m
    PROVE  /\ \A K : Calls!Tracking(old, K) = Abs!Tracking(old, K)
           /\ \A K, C : Calls!Marking(old, K, C) = Abs!Marking(old, K, C)
           /\ \A start : Calls!ShiftingRows(old, s1, s2, start, m)
                           = Abs!ShiftingRows(old, s1, s2, start, m)
           /\ \A bound : Calls!ShiftingCols(old, s1, s2, bound, m)
                           = Abs!ShiftingCols(old, s1, s2, bound, m)
           /\ \A r1, r2 : Calls!Rows(s1, s2, r1, r2) = Abs!Rows(s1, s2, r1, r2)
  <1>1. \A K : Calls!Tracking(old, K) = Abs!Tracking(old, K)
    BY DEF Calls!Tracking, Abs!Tracking
  <1>2. \A K, C : Calls!Marking(old, K, C) = Abs!Marking(old, K, C)
    BY DEF Calls!Marking, Abs!Marking
  <1>3. \A start : Calls!ShiftingRows(old, s1, s2, start, m)
                     = Abs!ShiftingRows(old, s1, s2, start, m)
    BY DEF Calls!ShiftingRows, Abs!ShiftingRows, Calls!Moves, Abs!Moves
  <1>4. \A bound : Calls!ShiftingCols(old, s1, s2, bound, m)
                     = Abs!ShiftingCols(old, s1, s2, bound, m)
    BY DEF Calls!ShiftingCols, Abs!ShiftingCols, Calls!NewCols, Abs!NewCols,
           Calls!Cols, Abs!Cols
  <1>5. \A r1, r2 : Calls!Rows(s1, s2, r1, r2) = Abs!Rows(s1, s2, r1, r2)
    BY DEF Calls!Rows, Abs!Rows
  <1> QED BY <1>1, <1>2, <1>3, <1>4, <1>5

(* A call that is an operation of the dictionary keeps what the table      *)
(* holds and what was asked for together.                                  *)
Same == Pending = asked

LEMMA StepRefines ==
    IInv /\ IInv' /\ PendingFacts /\ PendingFacts' /\ Same /\ [Next]_vars
        => [Abs!Next]_Pending /\ Same'
  <1> SUFFICES ASSUME IInv, IInv', PendingFacts, PendingFacts', Same, [Next]_vars
               PROVE  (Abs!Next \/ UNCHANGED Pending) /\ Same'
    OBVIOUS
  <1>0. /\ Sheets = Abs!Sheets /\ Cols = Abs!Cols
        /\ 0 .. MaxRow \subseteq 0 .. MaxInt16
        /\ -MaxRow .. MaxRow \subseteq -MaxInt16 .. MaxInt16
    BY RowAssumption DEF Sheets, Cols, Abs!Sheets, Abs!Cols
  <1>1. CASE ResetShowme /\ Calls!Reset
    <2>1. Abs!Reset
      BY <1>1, ResetRefines
    <2>2. Abs!Next
      BY <2>1 DEF Abs!Next
    <2>3. Same'
      BY <1>1, <2>1 DEF Abs!Reset, Calls!Reset, Same
    <2> QED BY <2>2, <2>3
  <1>2. CASE ((StartScan \/ ScanShowmeRows) /\ UNCHANGED asked) \/ UNCHANGED vars
    <2>1. UNCHANGED <<index, rows>> /\ UNCHANGED asked
      BY <1>2 DEF StartScan, ScanShowmeRows, vars
    <2> QED BY <2>1, PendingUnchanged DEF Same
  <1>3. ASSUME NEW sheet \in Sheets, NEW line \in 0 .. MaxRow,
               NEW numrows \in 1 .. MaxRow + 1, line + numrows <= MaxRow + 1,
               ClearShowme(sheet, line, numrows),
               Calls!Track(Calls!Rows(sheet, sheet, line, line + numrows - 1))
        PROVE  Abs!Next /\ Same'
    <2>1. Abs!Track(Abs!Rows(sheet, sheet, line, line + numrows - 1))
      BY <1>3, ClearRefines
    <2>2. line + numrows - 1 \in 0 .. MaxInt16
      BY <1>3, RowAssumption
    <2>3. Abs!Next
      BY <1>0, <2>1, <2>2 DEF Abs!Next
    <2>4. Same'
      BY <1>3, <2>1, OneDictionary DEF Same, Abs!Track, Calls!Track
    <2> QED BY <2>3, <2>4
  <1>4. ASSUME NEW sheet \in Sheets, NEW line \in 0 .. MaxRow, NEW column \in Cols,
               SetShowme(sheet, line, column),
               Calls!Mark(Calls!Rows(sheet, sheet, line, line), {column})
        PROVE  Abs!Next /\ Same'
    <2>1. Abs!Mark(Abs!Rows(sheet, sheet, line, line), {column})
      BY <1>4, SetRefines
    <2>2. Abs!Mark(Abs!Rows(sheet, sheet, line, line), column .. column)
      <3>1. {column} = column .. column
        BY DEF Cols
      <3> QED BY <2>1, <3>1 DEF Abs!Mark
    <2>3. Abs!Next
      BY <1>0, <2>2 DEF Abs!Next
    <2>4. Same'
      BY <1>4, <2>1, OneDictionary DEF Same, Abs!Mark, Calls!Mark
    <2> QED BY <2>3, <2>4
  <1>5. ASSUME NEW s1 \in Sheets, NEW s2 \in Sheets, NEW r1 \in 0 .. MaxRow,
               NEW r2 \in 0 .. MaxRow, NEW a \in Cols, NEW bound \in Cols, a <= bound,
               InvalidateRegion(s1, s2, r1, r2, a, bound),
               Calls!Mark(Calls!Rows(s1, s2, r1, r2), a .. bound)
        PROVE  Abs!Next /\ Same'
    <2>1. Abs!Mark(Abs!Rows(s1, s2, r1, r2), a .. bound)
      BY <1>5, InvalidateRefines
    <2>2. Abs!Next
      BY <1>0, <2>1 DEF Abs!Next
    <2>3. Same'
      BY <1>5, <2>1, OneDictionary DEF Same, Abs!Mark, Calls!Mark
    <2> QED BY <2>2, <2>3
  <1>6. ASSUME NEW s1 \in Sheets, NEW s2 \in Sheets, NEW start \in 0 .. MaxRow,
               NEW amount \in -MaxRow .. MaxRow, AdjustShowmeRows(s1, s2, start, amount),
               Calls!ShiftRows(s1, s2, start, amount)
        PROVE  Abs!Next /\ Same'
    <2>1. Abs!ShiftRows(s1, s2, start, amount)
      BY <1>6, AdjustRowsRefines
    <2>2. Abs!Next
      BY <1>0, <2>1 DEF Abs!Next
    <2>3. Same'
      BY <1>6, <2>1, OneDictionary DEF Same, Abs!ShiftRows, Calls!ShiftRows
    <2> QED BY <2>2, <2>3
  <1>7. ASSUME NEW s1 \in Sheets, NEW s2 \in Sheets, NEW bound \in Cols,
               NEW amount \in -MaxCol .. MaxCol, LegalAdjust(bound, amount),
               AdjustShowmeCols(s1, s2, bound, amount),
               Calls!ShiftCols(s1, s2, bound, amount)
        PROVE  Abs!Next /\ Same'
    <2>1. Abs!ShiftCols(s1, s2, bound, amount)
      BY <1>7, AdjustColsRefines
    <2>2. Abs!Next
      BY <1>0, <2>1 DEF Abs!Next
    <2>3. Same'
      BY <1>7, <2>1, OneDictionary DEF Same, Abs!ShiftCols, Calls!ShiftCols
    <2> QED BY <2>2, <2>3
  <1>8. CASE Next
    <2>1. CASE \E sheet \in Sheets, line \in 0 .. MaxRow, numrows \in 1 .. MaxRow + 1 :
                  /\ line + numrows <= MaxRow + 1 /\ ClearShowme(sheet, line, numrows)
                  /\ Calls!Track(Calls!Rows(sheet, sheet, line, line + numrows - 1))
      BY <2>1, <1>3
    <2>2. CASE \E sheet \in Sheets, line \in 0 .. MaxRow, column \in Cols :
                  /\ SetShowme(sheet, line, column)
                  /\ Calls!Mark(Calls!Rows(sheet, sheet, line, line), {column})
      BY <2>2, <1>4
    <2>3. CASE \E s1, s2 \in Sheets, r1, r2 \in 0 .. MaxRow, a, bound \in Cols :
                  /\ s1 <= s2 /\ r1 <= r2 /\ a <= bound
                  /\ InvalidateRegion(s1, s2, r1, r2, a, bound)
                  /\ Calls!Mark(Calls!Rows(s1, s2, r1, r2), a .. bound)
      BY <2>3, <1>5
    <2>4. CASE \E s1, s2 \in Sheets, start \in 0 .. MaxRow, amount \in -MaxRow .. MaxRow :
                  /\ s1 <= s2 /\ AdjustShowmeRows(s1, s2, start, amount)
                  /\ Calls!ShiftRows(s1, s2, start, amount)
      BY <2>4, <1>6
    <2>5. CASE \E s1, s2 \in Sheets, bound \in Cols, amount \in -MaxCol .. MaxCol :
                  /\ s1 <= s2 /\ LegalAdjust(bound, amount)
                  /\ AdjustShowmeCols(s1, s2, bound, amount)
                  /\ Calls!ShiftCols(s1, s2, bound, amount)
      BY <2>5, <1>7
    <2> QED BY <1>8, <1>1, <1>2, <2>1, <2>2, <2>3, <2>4, <2>5, ZenonT(60) DEF Next
  <1> QED BY <1>2, <1>8

(* Every behaviour of the table is a behaviour of the dictionary of        *)
(* pending rows, and what it holds is what the calls so far add up to      *)
(* there: no mark is lost, misplaced or made up, and the order of the      *)
(* arrays, the dead entries and the scratch row never show through.        *)
THEOREM TableImplementsDictionary == Spec => ImplementsPendingRows
  <1>1. Init => Abs!Init /\ Same
    BY DEF Init, NoEntry, Abs!Init, Pending, LiveKeys, Entries, Same
  <1>2. Same => Pending = asked
    BY DEF Same
  <1> QED BY <1>1, <1>2, InitEstablishes, NextKeeps, PendingAt, StepRefines, PTL
          DEF Spec, ImplementsPendingRows, Abs!Spec

-----------------------------------------------------------------------------
(* Smallest and largest columns of a set. *)

LEMMA LeastNat ==
    ASSUME NEW S \in SUBSET Nat, S # {}
    PROVE  \E x \in S : \A y \in S : x <= y
  <1>1. PICK x \in S : \A y \in S : ~ (<<y, x>> \in OpToRel(<, Nat))
    BY WFMin, NatLessThanWellFounded
  <1>2. \A y \in S : ~(y < x)
    BY <1>1 DEF OpToRel
  <1> QED BY <1>2

LEMMA GreatestCol ==
    ASSUME NEW S \in SUBSET Cols, S # {}
    PROVE  \E x \in S : \A y \in S : x >= y
  <1> DEFINE T == {MaxCol - x : x \in S}
  <1>1. T \in SUBSET Nat /\ T # {}
    <2>1. \A x \in S : MaxCol - x \in Nat
      BY ColAssumption DEF Cols
    <2> QED BY <2>1
  <1>2. PICK t \in T : \A u \in T : t <= u
    BY <1>1, LeastNat
  <1>3. PICK x \in S : t = MaxCol - x
    BY <1>2
  <1>4. \A y \in S : MaxCol - x <= MaxCol - y
    BY <1>2, <1>3
  <1> QED BY <1>4, ColAssumption DEF Cols

(* scan_showme finds the first marked column from the one asked for on.    *)
LEMMA NextShownIs ==
    ASSUME NEW cols \in SUBSET Cols, NEW column \in 0 .. MaxCols
    PROVE  LET c == NextShown(cols, column) IN
           \/ c = -1 /\ \A d \in cols : d < column
           \/ c \in cols /\ c >= column /\ \A d \in cols : d >= column => c <= d
  <1> DEFINE ahead == {c \in cols : c >= column}
  <1>1. CASE ahead = {}
    BY <1>1 DEF NextShown, Cols, MaxCols
  <1>2. CASE ahead # {}
    <2>1. ahead \in SUBSET Nat
      <3>1. \A c \in ahead : c \in Nat
        BY DEF Cols
      <3> QED BY <3>1
    <2>2. \E x \in ahead : \A y \in ahead : x <= y
      BY <1>2, <2>1, LeastNat
    <2>3. NextShown(cols, column) = CHOOSE x \in ahead : \A y \in ahead : x <= y
      BY <1>2 DEF NextShown
    <2>4. /\ NextShown(cols, column) \in ahead
          /\ \A y \in ahead : NextShown(cols, column) <= y
      BY <2>2, <2>3
    <2> QED BY <2>4
  <1> QED BY <1>1, <1>2

(* scan_showme_leftwards finds the last one up to it. *)
LEMMA PreviousShownIs ==
    ASSUME NEW cols \in SUBSET Cols, NEW column \in -1 .. MaxCol
    PROVE  LET c == PreviousShown(cols, column) IN
           \/ c = -1 /\ \A d \in cols : d > column
           \/ c \in cols /\ c <= column /\ \A d \in cols : d <= column => c >= d
  <1> DEFINE behind == {c \in cols : c <= column}
  <1>1. CASE behind = {}
    BY <1>1 DEF PreviousShown, Cols
  <1>2. CASE behind # {}
    <2>1. behind \in SUBSET Cols
      OBVIOUS
    <2>2. \E x \in behind : \A y \in behind : x >= y
      BY <1>2, <2>1, GreatestCol
    <2>3. PreviousShown(cols, column) = CHOOSE x \in behind : \A y \in behind : x >= y
      BY <1>2 DEF PreviousShown
    <2>4. /\ PreviousShown(cols, column) \in behind
          /\ \A y \in behind : PreviousShown(cols, column) >= y
      BY <2>2, <2>3
    <2> QED BY <2>4
  <1> QED BY <1>1, <1>2
-----------------------------------------------------------------------------
(* The loops. *)

(* What adjust_showme_cols is called with. *)
Legal ==
    /\ op \in {"insert", "delete", "region", "paint", "paintleft"}
    /\ b \in Cols /\ n \in -MaxCols .. MaxCols
    /\ op = "insert" => n >= 0 /\ b + n <= MaxCols
    /\ op = "delete" => n < 0 /\ b - n <= MaxCols
    /\ op = "region" => n \in b .. MaxCol
    /\ row0 \in SUBSET Cols /\ row \in SUBSET Cols
    /\ at \in {"call", "shift", "fill", "scan", "done"}

(* The columns below the first one moved are as they were. *)
Below == \A c \in 0 .. b - 1 : c \in row <=> c \in row0

(* An insertion walks down from the last column.  What it has passed holds *)
(* no bit, for a bit it set there was cleared when it got to that column;  *)
(* with no columns to insert it is set at once and every bit stays.        *)
InsertInv ==
    /\ at = "shift" =>
          /\ left \in 1 .. MaxCols - n - b
          /\ col = b + n + left - 1
          /\ \A c \in col + 1 .. MaxCol : c \in row <=> n = 0
    /\ at = "fill" =>
          /\ left \in 0 .. n
          /\ col = b + left - 1
          /\ \A c \in b + n .. MaxCol : c \in row <=> n = 0
          /\ col + 1 .. b + n - 1 \subseteq row

(* A deletion walks up from the first column to the last it can move, and  *)
(* fills the rest.                                                         *)
DeleteInv ==
    /\ at = "shift" =>
          /\ left \in 1 .. MaxCols + n - b
          /\ col = MaxCols + n - left
          /\ \A c \in b .. col - 1 : c \notin row
    /\ at = "fill" =>
          /\ left \in n .. -1
          /\ col = MaxCols + left
          /\ \A c \in b .. MaxCols + n - 1 : c \notin row
          /\ MaxCols + n .. col - 1 \subseteq row

(* The painter has been given the marked columns on one side of where it   *)
(* is.                                                                     *)
PaintInv ==
    /\ row = row0
    /\ at = "call" => drawn = {}
    /\ at = "scan" => drawn = {c \in row0 : IF op = "paint" THEN c < col ELSE c > col}
    /\ at = "scan" => IF op = "paint" THEN col \in 0 .. MaxCols ELSE col \in -1 .. MaxCol

LoopInv ==
    /\ Legal
    /\ at \in {"shift", "fill"} => op \in {"insert", "delete"} /\ Below
    /\ at = "scan" => op \in {"paint", "paintleft"}
    /\ at = "call" => row = row0
    /\ op = "insert" => InsertInv
    /\ op = "delete" => DeleteInv
    /\ op \in {"paint", "paintleft"} => PaintInv
    /\ DoesWhatIsAsked

LEMMA LoopInitHolds == LoopInit => LoopInv
  BY ColAssumption
     DEF LoopInit, LoopInv, Legal, LegalAdjust, InsertInv, DeleteInv, PaintInv,
         DoesWhatIsAsked, MaxCols

LEMMA CallAdjustKeeps == LoopInv /\ CallAdjust => LoopInv'
  <1> SUFFICES ASSUME LoopInv, CallAdjust PROVE LoopInv'
    OBVIOUS
  <1> USE ColAssumption DEF LoopInv, Legal, Below, Cols, MaxCols
  <1>1. UNCHANGED <<op, b, n, row0, row>> /\ row = row0
    BY DEF CallAdjust, loopArgs
  <1>2. at' \in {"shift", "fill"}
    BY DEF CallAdjust
  <1>3. CASE op = "insert"
    BY <1>1, <1>2, <1>3 DEF CallAdjust, Shifts, InsertInv, DoesWhatIsAsked
  <1>4. CASE op = "delete"
    BY <1>1, <1>2, <1>4 DEF CallAdjust, Shifts, DeleteInv, DoesWhatIsAsked
  <1> QED BY <1>3, <1>4 DEF CallAdjust

(* A shifted bit lands n columns on, in the row and above the columns that *)
(* do not move.                                                            *)
LEMMA ShiftKeeps == LoopInv /\ Shift => LoopInv'
  <1> SUFFICES ASSUME LoopInv, Shift PROVE LoopInv'
    OBVIOUS
  <1> USE ColAssumption DEF LoopInv, Legal, Below, Cols, MaxCols
  <1>1. /\ UNCHANGED <<op, b, n, row0>> /\ at = "shift"
        /\ row' = (row \ {col}) \cup {col - n}
        /\ at' \in {"shift", "fill"}
    BY DEF Shift, ShiftedBits, loopArgs
  <1>2. CASE op = "insert"
    <2>1. /\ left \in 1 .. MaxCols - n - b /\ col = b + n + left - 1
          /\ \A c \in col + 1 .. MaxCol : c \in row <=> n = 0
          /\ col' = col - 1
          /\ IF left - 1 = 0 THEN at' = "fill" /\ left' = n
             ELSE at' = at /\ left' = left - 1
      BY <1>1, <1>2 DEF InsertInv, Shift
    <2>2. \A c \in col .. MaxCol : c \in row' <=> n = 0
      BY <1>1, <1>2, <2>1
    <2>3. row' \in SUBSET Cols /\ Below'
      BY <1>1, <1>2, <2>1
    <2>4. InsertInv'
      BY <1>1, <1>2, <2>1, <2>2 DEF InsertInv
    <2> QED BY <1>1, <1>2, <2>3, <2>4 DEF DoesWhatIsAsked
  <1>3. CASE op = "delete"
    <2>1. /\ left \in 1 .. MaxCols + n - b /\ col = MaxCols + n - left
          /\ \A c \in b .. col - 1 : c \notin row
          /\ col' = col + 1
          /\ IF left - 1 = 0 THEN at' = "fill" /\ left' = n
             ELSE at' = at /\ left' = left - 1
      BY <1>1, <1>3 DEF DeleteInv, Shift
    <2>2. \A c \in b .. col : c \notin row'
      BY <1>1, <1>3, <2>1
    <2>3. row' \in SUBSET Cols /\ Below'
      BY <1>1, <1>3, <2>1
    <2>4. DeleteInv'
      BY <1>1, <1>3, <2>1, <2>2 DEF DeleteInv
    <2> QED BY <1>1, <1>3, <2>3, <2>4 DEF DoesWhatIsAsked
  <1> QED BY <1>1, <1>2, <1>3

LEMMA FillInsertKeeps == LoopInv /\ FillInsert => LoopInv'
  <1> SUFFICES ASSUME LoopInv, FillInsert PROVE LoopInv'
    OBVIOUS
  <1> USE ColAssumption DEF LoopInv, Legal, Below, Cols, MaxCols
  <1>1. /\ UNCHANGED <<op, b, n, row0>> /\ at = "fill" /\ op = "insert"
        /\ left \in 0 .. n /\ col = b + left - 1
        /\ \A c \in b + n .. MaxCol : c \in row <=> n = 0
        /\ col + 1 .. b + n - 1 \subseteq row
    BY DEF FillInsert, loopArgs, InsertInv
  <1>2. CASE left = 0
    <2>1. at' = "done" /\ row' = row
      BY <1>2 DEF FillInsert
    <2>2. \A c \in Cols : c \in row <=> c \in AdjustedCols(row0, b, n)
      BY <1>1, <1>2 DEF AdjustedCols
    <2>3. row = AdjustedCols(row0, b, n)
      <3>1. AdjustedCols(row0, b, n) \subseteq Cols
        BY <1>1 DEF AdjustedCols
      <3> QED BY <2>2, <3>1
    <2> QED BY <1>1, <2>1, <2>3 DEF InsertInv, DoesWhatIsAsked
  <1>3. CASE left # 0
    <2>1. row' = row \cup {col} /\ col' = col - 1 /\ left' = left - 1 /\ at' = at
      BY <1>3 DEF FillInsert
    <2> QED BY <1>1, <1>3, <2>1 DEF InsertInv, DoesWhatIsAsked
  <1> QED BY <1>2, <1>3

LEMMA FillDeleteKeeps == LoopInv /\ FillDelete => LoopInv'
  <1> SUFFICES ASSUME LoopInv, FillDelete PROVE LoopInv'
    OBVIOUS
  <1> USE ColAssumption DEF LoopInv, Legal, Below, Cols, MaxCols
  <1>1. /\ UNCHANGED <<op, b, n, row0>> /\ at = "fill" /\ op = "delete"
        /\ left \in n .. -1 /\ col = MaxCols + left
        /\ \A c \in b .. MaxCols + n - 1 : c \notin row
        /\ MaxCols + n .. col - 1 \subseteq row
        /\ row' = row \cup {col} /\ col' = col + 1 /\ left' = left + 1
        /\ at' = IF left + 1 = 0 THEN "done" ELSE "fill"
    BY DEF FillDelete, loopArgs, DeleteInv
  <1>2. CASE left + 1 = 0
    <2>1. \A c \in Cols : c \in row' <=> c \in AdjustedCols(row0, b, n)
      BY <1>1, <1>2 DEF AdjustedCols
    <2>2. row' = AdjustedCols(row0, b, n)
      <3>1. AdjustedCols(row0, b, n) \subseteq Cols /\ row' \subseteq Cols
        BY <1>1 DEF AdjustedCols
      <3> QED BY <2>1, <3>1
    <2> QED BY <1>1, <1>2, <2>2 DEF DeleteInv, DoesWhatIsAsked
  <1>3. CASE left + 1 # 0
    BY <1>1, <1>3 DEF DeleteInv, DoesWhatIsAsked
  <1> QED BY <1>2, <1>3

(* A column of a later word is a later column, and conversely. *)
LEMMA RegionKeeps == LoopInv /\ Region => LoopInv'
  <1> SUFFICES ASSUME LoopInv, Region PROVE LoopInv'
    OBVIOUS
  <1>1. /\ UNCHANGED <<op, b, n, row0>> /\ op = "region" /\ at' = "done"
        /\ row = row0 /\ row' = row \cup RegionCols(b, n)
    BY DEF Region, loopArgs, LoopInv
  <1>2. b \in Cols /\ n \in Cols /\ b <= n
    BY <1>1, ColAssumption DEF LoopInv, Legal, Cols
  <1>3. RegionCols(b, n) = b .. n
    BY <1>2, RegionColsRange
  <1>4. b .. n \subseteq Cols
    BY <1>2, ColAssumption DEF Cols
  <1> QED BY <1>1, <1>3, <1>4 DEF LoopInv, Legal, DoesWhatIsAsked

LEMMA CallPaintKeeps == LoopInv /\ CallPaint => LoopInv'
  <1> SUFFICES ASSUME LoopInv, CallPaint PROVE LoopInv'
    OBVIOUS
  <1>1. /\ UNCHANGED <<op, b, n, row0, row, drawn>> /\ op \in {"paint", "paintleft"}
        /\ at' = "scan" /\ row = row0 /\ drawn = {}
        /\ col' = IF op = "paint" THEN 0 ELSE MaxCol
    BY DEF CallPaint, loopArgs, LoopInv, PaintInv
  <1>2. \A d \in row0 : ~(IF op = "paint" THEN d < col' ELSE d > col')
    BY <1>1 DEF LoopInv, Legal, Cols
  <1>3. PaintInv'
    <2>1. drawn' = {d \in row0 : IF op = "paint" THEN d < col' ELSE d > col'}
      BY <1>1, <1>2
    <2>2. IF op = "paint" THEN col' \in 0 .. MaxCols ELSE col' \in -1 .. MaxCol
      BY <1>1, ColAssumption DEF MaxCols
    <2> QED BY <1>1, <2>1, <2>2 DEF PaintInv
  <1> QED BY <1>1, <1>3 DEF LoopInv, Legal, DoesWhatIsAsked

LEMMA PaintKeeps == LoopInv /\ Paint => LoopInv'
  <1> SUFFICES ASSUME LoopInv, Paint PROVE LoopInv'
    OBVIOUS
  <1> DEFINE c == NextShown(row, col)
  <1>1. /\ UNCHANGED <<op, b, n, row0, row>> /\ op = "paint" /\ at = "scan"
        /\ row = row0 /\ row \in SUBSET Cols /\ col \in 0 .. MaxCols
        /\ drawn = {d \in row0 : d < col}
    BY DEF Paint, loopArgs, LoopInv, Legal, PaintInv
  <1>2. \/ c = -1 /\ \A d \in row : d < col
        \/ c \in row /\ c >= col /\ \A d \in row : d >= col => c <= d
    BY <1>1, NextShownIs
  <1>3. CASE c < 0
    <2>1. \A d \in row : d < col
      <3>1. \A x \in row : ~(x < 0)
        BY <1>1 DEF Cols
      <3> QED BY <1>2, <1>3, <3>1
    <2>2. at' = "done" /\ drawn' = drawn
      BY <1>3 DEF Paint
    <2>3. drawn = row0
      BY <1>1, <2>1
    <2> QED BY <1>1, <2>2, <2>3 DEF LoopInv, Legal, PaintInv, DoesWhatIsAsked
  <1>4. CASE ~(c < 0)
    <2>1. c \in row /\ c >= col /\ \A d \in row : d >= col => c <= d
      BY <1>2, <1>4
    <2>2. col' = c + 1 /\ drawn' = drawn \cup {c} /\ at' = at
      BY <1>1, <1>4 DEF Paint, Asked
    <2> HIDE DEF c
    <2>3. \A d \in row : d < c + 1 <=> d < col \/ d = c
      BY <1>1, <2>1 DEF Cols, MaxCols
    <2>4. drawn' = {d \in row0 : d < col'}
      BY <1>1, <2>1, <2>2, <2>3
    <2>5. col' \in 0 .. MaxCols
      BY <1>1, <2>1, <2>2, ColAssumption DEF Cols, MaxCols
    <2> QED BY <1>1, <2>2, <2>4, <2>5 DEF LoopInv, Legal, PaintInv, DoesWhatIsAsked
  <1> QED BY <1>3, <1>4

LEMMA PaintLeftwardsKeeps == LoopInv /\ PaintLeftwards => LoopInv'
  <1> SUFFICES ASSUME LoopInv, PaintLeftwards PROVE LoopInv'
    OBVIOUS
  <1> DEFINE c == PreviousShown(row, col)
  <1>1. /\ UNCHANGED <<op, b, n, row0, row>> /\ op = "paintleft" /\ at = "scan"
        /\ row = row0 /\ row \in SUBSET Cols /\ col \in -1 .. MaxCol
        /\ drawn = {d \in row0 : d > col}
    BY DEF PaintLeftwards, loopArgs, LoopInv, Legal, PaintInv
  <1>2. \/ c = -1 /\ \A d \in row : d > col
        \/ c \in row /\ c <= col /\ \A d \in row : d <= col => c >= d
    BY <1>1, PreviousShownIs
  <1>3. CASE c < 0
    <2>1. \A d \in row : d > col
      <3>1. \A x \in row : ~(x < 0)
        BY <1>1 DEF Cols
      <3> QED BY <1>2, <1>3, <3>1
    <2>2. at' = "done" /\ drawn' = drawn
      BY <1>3 DEF PaintLeftwards
    <2>3. drawn = row0
      BY <1>1, <2>1
    <2> QED BY <1>1, <2>2, <2>3 DEF LoopInv, Legal, PaintInv, DoesWhatIsAsked
  <1>4. CASE ~(c < 0)
    <2>1. c \in row /\ c <= col /\ \A d \in row : d <= col => c >= d
      BY <1>2, <1>4
    <2>2. col' = c - 1 /\ drawn' = drawn \cup {c} /\ at' = at
      BY <1>1, <1>4 DEF PaintLeftwards, Asked
    <2> HIDE DEF c
    <2>3. \A d \in row : d > c - 1 <=> d > col \/ d = c
      BY <1>1, <2>1, ColAssumption DEF Cols
    <2>4. drawn' = {d \in row0 : d > col'}
      BY <1>1, <2>1, <2>2, <2>3
    <2>5. col' \in -1 .. MaxCol
      BY <1>1, <2>1, <2>2, ColAssumption DEF Cols
    <2> QED BY <1>1, <2>2, <2>4, <2>5 DEF LoopInv, Legal, PaintInv, DoesWhatIsAsked
  <1> QED BY <1>3, <1>4

LEMMA LoopStepKeeps == LoopInv /\ [LoopNext]_loopVars => LoopInv'
  <1> SUFFICES ASSUME LoopInv, [LoopNext]_loopVars PROVE LoopInv'
    OBVIOUS
  <1>1. CASE UNCHANGED loopVars
    BY <1>1 DEF loopVars, LoopInv, Legal, Below, InsertInv, DeleteInv, PaintInv,
                DoesWhatIsAsked
  <1> QED BY <1>1, CallAdjustKeeps, ShiftKeeps, FillInsertKeeps, FillDeleteKeeps,
             RegionKeeps, CallPaintKeeps, PaintKeeps, PaintLeftwardsKeeps DEF LoopNext

(* No iteration of a loop marks a column outside the row, so none writes   *)
(* into the next row's colflags.                                           *)
THEOREM LoopsStayInRow == LoopSpec => []StaysInRow
  <1>1. LoopInv => StaysInRow
    BY DEF LoopInv, Legal, StaysInRow
  <1> QED BY <1>1, LoopInitHolds, LoopStepKeeps, PTL DEF LoopSpec

(* When a call returns it has computed the closed form: ShowMe may use it  *)
(* for adjust_showme_cols, invalidate_region marks the region, and the     *)
(* painter is given every marked column in both directions.                *)
THEOREM LoopsComputeClosedForms == LoopSpec => []DoesWhatIsAsked
  <1>1. LoopInv => DoesWhatIsAsked
    BY DEF LoopInv
  <1> QED BY <1>1, LoopInitHolds, LoopStepKeeps, PTL DEF LoopSpec
=============================================================================
