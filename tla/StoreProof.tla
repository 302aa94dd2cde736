----------------------------- MODULE StoreProof -----------------------------
(***************************************************************************)
(* Proofs about the database, the table of problems and the dialogs, for   *)
(* any number of problems, systems, parameters and results.                *)
(***************************************************************************)
EXTENDS Store, FiniteSetTheorems, SequenceTheorems, TLAPS

-----------------------------------------------------------------------------
(* Sequences and maps.                                                     *)

\* A function on 1 .. k is a sequence.
LEMMA SequenceOf ==
    ASSUME NEW S, NEW k \in Nat, NEW f \in [1 .. k -> S]
    PROVE  f \in Seq(S) /\ Len(f) = k /\ DOMAIN f = 1 .. k
<1>1. f \in Seq(S)
  BY SeqDef
<1>2. f \in [1 .. Len(f) -> S] /\ Len(f) \in Nat
  BY <1>1, LenProperties
<1> QED
  BY <1>1, <1>2

\* What a row leaves behind.
LEMMA RowRemoved ==
    ASSUME NEW S, NEW s \in Seq(S), NEW i \in DOMAIN s
    PROVE  /\ RemoveRow(s, i) \in Seq(S)
           /\ Len(RemoveRow(s, i)) = Len(s) - 1
           /\ DOMAIN RemoveRow(s, i) = 1 .. Len(s) - 1
           /\ \A j \in 1 .. Len(s) - 1 :
                 RemoveRow(s, i)[j] = IF j < i THEN s[j] ELSE s[j + 1]
<1>1. Len(s) \in Nat /\ DOMAIN s = 1 .. Len(s) /\ s \in [1 .. Len(s) -> S]
  BY LenProperties
<1>2. Len(s) - 1 \in Nat
  BY <1>1
<1>3. RemoveRow(s, i) \in [1 .. Len(s) - 1 -> S]
  BY <1>1, <1>2 DEF RemoveRow
<1>4. /\ RemoveRow(s, i) \in Seq(S) /\ Len(RemoveRow(s, i)) = Len(s) - 1
      /\ DOMAIN RemoveRow(s, i) = 1 .. Len(s) - 1
  BY <1>2, <1>3, SequenceOf
<1> QED
  BY <1>1, <1>4 DEF RemoveRow

\* Settings stay settings.
LEMMA SettingsType ==
    ASSUME NEW o PROVE o \in Settings <=> DOMAIN o \subseteq Parameters /\ o \in [DOMAIN o -> Values]
  BY DEF Settings

LEMMA PutType ==
    ASSUME NEW o \in Settings, NEW n \in Parameters, NEW v \in Values
    PROVE  Put(o, n, v) \in Settings
  BY SettingsType DEF Put

LEMMA WithoutType ==
    ASSUME NEW o \in Settings, NEW S PROVE Without(o, S) \in Settings
  BY SettingsType DEF Without

LEMMA PutAllType ==
    ASSUME NEW o \in Settings, NEW new \in Settings PROVE PutAll(o, new) \in Settings
  BY SettingsType DEF PutAll

LEMMA NoSettingsType == NoSettings \in Settings
  BY SettingsType DEF NoSettings

-----------------------------------------------------------------------------
(* The table of problems.                                                  *)

\* No problem has two rows, and one row at most is checked.
Distinct(t) == \A i, j \in DOMAIN t : t[i].problem = t[j].problem => i = j
OneIn(t) == \A i, j \in DOMAIN t : t[i].checked /\ t[j].checked => i = j

IsTable(t) == t \in Seq(Row) /\ Distinct(t) /\ OneIn(t)

\* t has the rows of u, checked or not.
SameRows(t, u) ==
    /\ DOMAIN t = DOMAIN u
    /\ \A j \in DOMAIN u : t[j].problem = u[j].problem /\ t[j].systems = u[j].systems

LEMMA RowsOf ==
    ASSUME NEW t \in Seq(Row)
    PROVE  /\ Len(t) \in Nat /\ DOMAIN t = 1 .. Len(t)
           /\ \A j \in DOMAIN t : t[j] \in Row
  BY LenProperties

\* Whichever box is set, in whichever state the others are.
LEMMA SetCheckedTable ==
    ASSUME NEW t, IsTable(t), NEW i \in DOMAIN t, NEW status \in BOOLEAN
    PROVE  IsTable(setChecked(t, i, status)) /\ SameRows(setChecked(t, i, status), t)
<1> DEFINE u == setChecked(t, i, status)
<1>1. /\ Len(t) \in Nat /\ DOMAIN t = 1 .. Len(t)
      /\ \A j \in DOMAIN t : t[j] \in Row
  BY RowsOf DEF IsTable
<1>2. DOMAIN u = DOMAIN t
  BY DEF setChecked
<1>3. u[i] = [t[i] EXCEPT !.checked = status]
  BY DEF setChecked
<1>4. ASSUME NEW j \in DOMAIN t, j # i
      PROVE  u[j] = t[j] \/ u[j] = [t[j] EXCEPT !.checked = FALSE]
  BY <1>4 DEF setChecked
<1>5. ASSUME NEW j \in DOMAIN t
      PROVE  /\ u[j] \in Row
             /\ u[j].problem = t[j].problem /\ u[j].systems = t[j].systems
  BY <1>1, <1>3, <1>4, <1>5, ZenonT(60) DEF Row
<1>6. u \in Seq(Row)
  <2>1. u \in [1 .. Len(t) -> Row]
    BY <1>1, <1>2, <1>5 DEF setChecked
  <2> QED
    BY <1>1, <2>1, SequenceOf
<1>7. SameRows(u, t)
  BY <1>2, <1>5 DEF SameRows
<1>8. Distinct(u)
  BY <1>2, <1>5 DEF Distinct, IsTable
<1>9. ASSUME NEW j \in DOMAIN t, j # i, u[j].checked PROVE ~ u[i].checked
  <2>1. u[i].checked = status
    BY <1>1, <1>3 DEF Row
  <2>2. t[j].checked
    BY <1>1, <1>4, <1>9 DEF Row
  <2>3. ~ t[i].checked
    BY <1>9, <2>2 DEF IsTable, OneIn
  <2>4. t[j].problem # t[i].problem
    BY <1>9 DEF IsTable, Distinct
  <2>5. CASE status
    <3>1. u[j] = [t[j] EXCEPT !.checked = FALSE]
      BY <1>9, <2>3, <2>4, <2>5 DEF setChecked
    <3>2. ~ u[j].checked
      BY <1>1, <3>1 DEF Row
    <3> QED
      BY <1>9, <3>2
  <2>6. CASE ~ status
    BY <2>1, <2>6
  <2> QED
    BY <2>5, <2>6
<1>10. ASSUME NEW j \in DOMAIN t, NEW k \in DOMAIN t, j # i, k # i, u[j].checked, u[k].checked
       PROVE  j = k
  <2>1. t[j].checked /\ t[k].checked
    BY <1>1, <1>4, <1>10 DEF Row
  <2> QED
    BY <2>1 DEF IsTable, OneIn
<1>11. OneIn(u)
  BY <1>2, <1>9, <1>10 DEF OneIn
<1> QED
  BY <1>6, <1>7, <1>8, <1>11 DEF IsTable

\* A row is removed.
LEMMA RemoveRowTable ==
    ASSUME NEW t, IsTable(t), NEW i \in DOMAIN t
    PROVE  /\ IsTable(RemoveRow(t, i))
           /\ \A p : (\E j \in DOMAIN RemoveRow(t, i) : RemoveRow(t, i)[j].problem = p)
                      <=> p # t[i].problem /\ \E j \in DOMAIN t : t[j].problem = p
           /\ \A j \in DOMAIN RemoveRow(t, i) : \E k \in DOMAIN t : RemoveRow(t, i)[j] = t[k]
<1> DEFINE u == RemoveRow(t, i)
<1>1. Len(t) \in Nat /\ DOMAIN t = 1 .. Len(t) /\ i \in 1 .. Len(t)
  BY RowsOf DEF IsTable
<1>2. /\ u \in Seq(Row) /\ DOMAIN u = 1 .. Len(t) - 1
      /\ \A j \in 1 .. Len(t) - 1 : u[j] = IF j < i THEN t[j] ELSE t[j + 1]
  BY RowRemoved DEF IsTable
<1> HIDE DEF u
<1> DEFINE old(j) == IF j < i THEN j ELSE j + 1
<1>3. ASSUME NEW j \in DOMAIN u
      PROVE  u[j] = t[old(j)] /\ old(j) \in DOMAIN t /\ old(j) # i
  BY <1>1, <1>2
<1>4. ASSUME NEW j \in DOMAIN u, NEW k \in DOMAIN u, old(j) = old(k) PROVE j = k
  BY <1>1, <1>2, <1>4
<1>5. Distinct(u)
  <2>1. ASSUME NEW j \in DOMAIN u, NEW k \in DOMAIN u, u[j].problem = u[k].problem
        PROVE  j = k
    <3>1. old(j) = old(k)
      BY <1>3, <2>1 DEF IsTable, Distinct
    <3> QED
      BY <1>4, <3>1
  <2> QED
    BY <2>1 DEF Distinct
<1>6. OneIn(u)
  <2>1. ASSUME NEW j \in DOMAIN u, NEW k \in DOMAIN u, u[j].checked, u[k].checked
        PROVE  j = k
    <3>1. old(j) = old(k)
      BY <1>3, <2>1 DEF IsTable, OneIn
    <3> QED
      BY <1>4, <3>1
  <2> QED
    BY <2>1 DEF OneIn
<1>7. ASSUME NEW p, NEW j \in DOMAIN u, u[j].problem = p
      PROVE  p # t[i].problem /\ \E k \in DOMAIN t : t[k].problem = p
  BY <1>3, <1>7 DEF IsTable, Distinct
<1>8. ASSUME NEW p, p # t[i].problem, NEW k \in DOMAIN t, t[k].problem = p
      PROVE  \E j \in DOMAIN u : u[j].problem = p
  <2>1. CASE k < i
    <3>1. k \in DOMAIN u /\ u[k] = t[k]
      BY <1>1, <1>2, <2>1
    <3> QED
      BY <1>8, <3>1
  <2>2. CASE k > i
    <3>1. k - 1 \in DOMAIN u /\ u[k - 1] = t[k]
      BY <1>1, <1>2, <2>2
    <3> QED
      BY <1>8, <3>1
  <2>3. k # i
    BY <1>8
  <2> QED
    BY <1>1, <2>1, <2>2, <2>3
<1>9. \A j \in DOMAIN u : \E k \in DOMAIN t : u[j] = t[k]
  BY <1>3
<1> QED
  BY <1>2, <1>5, <1>6, <1>7, <1>8, <1>9 DEF IsTable, u

-----------------------------------------------------------------------------
(* The inductive invariant: what is in the database, what a dialog holds,  *)
(* the table, the lines of the results, and the table as a view of the     *)
(* database, which a crash may leave behind it until the next start.       *)

DataOK ==
    /\ DOMAIN problem \subseteq Problems \X Systems
    /\ \A e \in DOMAIN problem : problem[e] \in Libraries \ Unreadable
    /\ settings \in [Problems -> Settings] /\ stored \subseteq Problems
    /\ result \in [Problems \X Results -> 0 .. MaxCount]
    /\ latest \in [Problems -> Settings]

\* A dialog that is open knows its problem, or its file.
DialogOK ==
    /\ dialog \in Dialogs /\ problemName \in Problems \union {NoProblem}
    /\ file \in Libraries \union {NoProblem}
    /\ obj \in Settings
    /\ dialog \in {"delete", "parameters", "about"} => problemName \in Problems
    /\ dialog = "os" => file \in Libraries

WindowOK ==
    /\ IsTable(problem_table) /\ activeProblem \in Problems \union {NoProblem}
    /\ running \in BOOLEAN

\* The i-th line shows the i-th result and its button says i.
LinesOK ==
    /\ vector \in Seq(Results) /\ lines \in Seq([shown : Results, position : Nat])
    /\ dialog = "about" =>
          /\ Len(lines) = Len(vector)
          /\ \A i \in DOMAIN lines : lines[i].position = i /\ vector[i] = lines[i].shown

\* The table shows the database.
Shows ==
    /\ \A p \in getProblemList : \E i \in DOMAIN problem_table : problem_table[i].problem = p
    /\ \A i \in DOMAIN problem_table :
          problem_table[i].systems = getOsList(problem_table[i].problem)

StoreInv == DataOK /\ DialogOK /\ WindowOK /\ LinesOK /\ (running => Shows)

-----------------------------------------------------------------------------
(* What a step does to each part.                                          *)

LEMMA EmptyLines == <<>> \in Seq(Results) /\ <<>> \in Seq([shown : Results, position : Nat])
  BY EmptySeq

\* A dialog that was closed leaves nothing to be wrong.
LEMMA ClosedOK == ASSUME Closed PROVE DialogOK' /\ LinesOK'
<1>1. DialogOK'
  BY NoSettingsType DEF Closed, DialogOK, Dialogs
<1>2. LinesOK'
  BY EmptyLines DEF Closed, LinesOK
<1> QED
  BY <1>1, <1>2

LEMMA StoredOK ==
    ASSUME DataOK, NEW p \in Problems, NEW o \in Settings, setProblemSettings(p, o)
    PROVE  settings' \in [Problems -> Settings] /\ stored' \subseteq Problems
  BY DEF setProblemSettings, DataOK

\* Only the dialogs about parameters keep settings.
LEMMA Untouched ==
    /\ UNCHANGED <<database, latest>> /\ DataOK => DataOK'
    /\ UNCHANGED <<dialog, entry>> /\ DialogOK => DialogOK'
    /\ UNCHANGED <<window, running>> /\ WindowOK => WindowOK'
    /\ UNCHANGED <<dialog, about>> /\ LinesOK => LinesOK'
    /\ dialog' # "about" /\ UNCHANGED about /\ LinesOK => LinesOK'
    /\ UNCHANGED <<problem, problem_table>> /\ Shows => Shows'
<1>1. UNCHANGED <<database, latest>> /\ DataOK => DataOK'
  BY DEF database, DataOK
<1>2. UNCHANGED <<dialog, entry>> /\ DialogOK => DialogOK'
  BY DEF entry, DialogOK, Settings
<1>3. UNCHANGED <<window, running>> /\ WindowOK => WindowOK'
  BY DEF window, WindowOK
<1>4. /\ UNCHANGED <<dialog, about>> /\ LinesOK => LinesOK'
      /\ dialog' # "about" /\ UNCHANGED about /\ LinesOK => LinesOK'
  BY DEF about, LinesOK
<1>5. UNCHANGED <<problem, problem_table>> /\ Shows => Shows'
  BY DEF Shows, getProblemList, getOsList
<1> QED
  BY <1>1, <1>2, <1>3, <1>4, <1>5

LEMMA StoreInit == Init => StoreInv
<1> SUFFICES ASSUME Init PROVE StoreInv
  OBVIOUS
<1>1. DataOK
  BY StoreAssumption, NoSettingsType DEF Init, DataOK
<1>2. DialogOK
  BY NoSettingsType DEF Init, DialogOK, Dialogs
<1>3. WindowOK
  <2>1. <<>> \in Seq(Row) /\ DOMAIN <<>> = {}
    BY EmptySeq
  <2> QED
    BY <2>1 DEF Init, WindowOK, IsTable, Distinct, OneIn
<1>4. LinesOK
  BY EmptyLines DEF Init, LinesOK
<1>5. Shows
  BY DEF Init, Shows, getProblemList
<1> QED
  BY <1>1, <1>2, <1>3, <1>4, <1>5 DEF StoreInv

-----------------------------------------------------------------------------
(* The table of problems, the question of Delete Problem, LOAD PROBLEM.    *)

LEMMA SameRowsShow ==
    ASSUME Shows, SameRows(problem_table', problem_table), UNCHANGED problem
    PROVE  Shows'
  BY DEF Shows, SameRows, getProblemList, getOsList

\* A box that the user or the script sets.
LEMMA BoxSet ==
    ASSUME StoreInv, running, NEW i \in DOMAIN problem_table, NEW status \in BOOLEAN,
           problem_table' = setChecked(problem_table, i, status),
           activeProblem' \in Problems \union {NoProblem},
           UNCHANGED <<database, dialog, entry, about, latest, running>>
    PROVE  StoreInv'
<1>1. IsTable(problem_table') /\ SameRows(problem_table', problem_table)
  BY SetCheckedTable DEF StoreInv, WindowOK
<1>2. WindowOK'
  BY <1>1 DEF StoreInv, WindowOK
<1>3. Shows'
  BY <1>1, SameRowsShow DEF StoreInv, database
<1> QED
  BY <1>2, <1>3, Untouched DEF StoreInv

LEMMA RowIn ==
    ASSUME WindowOK, NEW i \in DOMAIN problem_table
    PROVE  problem_table[i] \in Row /\ problem_table[i].problem \in Problems
<1>1. problem_table[i] \in Row
  BY RowsOf DEF WindowOK, IsTable
<1> QED
  BY <1>1 DEF Row

\* The rows that stay in the database are those of other problems, and so are
\* the rows that stay in the window.
LEMMA DeleteYesOK == ASSUME StoreInv, DeleteYes PROVE StoreInv'
<1> DEFINE q == problemName
           os(p) == {s \in Systems : <<p, s>> \in DOMAIN problem'}
<1>1. running /\ Shows /\ WindowOK /\ q \in Problems /\ UNCHANGED <<running, activeProblem>>
  BY DEF StoreInv, DeleteYes, DialogOK
<1>2. /\ DOMAIN problem' = {e \in DOMAIN problem : e[1] # q}
      /\ \A e \in DOMAIN problem' : problem'[e] = problem[e]
  BY DEF DeleteYes, Without, Deleted
<1>3. DataOK'
  BY <1>2 DEF StoreInv, DataOK, DeleteYes
<1>4. getProblemList' = getProblemList \ {q}
  BY <1>2 DEF getProblemList
<1>5. \A p : p # q => os(p) = getOsList(p)
  BY <1>2 DEF getOsList
<1>6. CASE \E i \in DOMAIN problem_table : problem_table[i].problem = q
  <2>1. PICK i \in DOMAIN problem_table : problem_table[i].problem = q
    BY <1>6
  <2>2. \A k \in DOMAIN problem_table : problem_table[k].problem = q => k = i
    BY <1>1, <2>1 DEF WindowOK, IsTable, Distinct
  <2>3. problem_table' = RemoveRow(problem_table, i)
    <3>1. \A k : k \in DOMAIN problem_table
                    /\ problem_table[k].problem = q
                    /\ (\A j \in 1 .. k - 1 : problem_table[j].problem # q) <=> k = i
      <4>1. Len(problem_table) \in Nat /\ DOMAIN problem_table = 1 .. Len(problem_table)
        BY <1>1, RowsOf DEF WindowOK, IsTable
      <4>2. \A j \in 1 .. i - 1 : problem_table[j].problem # q
        BY <2>1, <2>2, <4>1
      <4> QED
        BY <2>1, <2>2, <4>2
    <3>2. (CHOOSE k \in DOMAIN problem_table :
              /\ problem_table[k].problem = q
              /\ \A j \in 1 .. k - 1 : problem_table[j].problem # q) = i
      BY <3>1
    <3> QED
      BY <1>6, <3>2 DEF DeleteYes, delProblem
  <2>4. /\ IsTable(problem_table')
        /\ \A p : (\E j \in DOMAIN problem_table' : problem_table'[j].problem = p)
                   <=> p # q /\ \E j \in DOMAIN problem_table : problem_table[j].problem = p
        /\ \A j \in DOMAIN problem_table' :
              \E k \in DOMAIN problem_table : problem_table'[j] = problem_table[k]
    BY <1>1, <2>1, <2>3, RemoveRowTable DEF WindowOK
  <2>5. ASSUME NEW j \in DOMAIN problem_table'
        PROVE  problem_table'[j].systems = os(problem_table'[j].problem)
    <3>1. problem_table'[j].problem # q
      BY <2>4
    <3>2. PICK k \in DOMAIN problem_table : problem_table'[j] = problem_table[k]
      BY <2>4
    <3>3. problem_table[k].systems = getOsList(problem_table[k].problem)
      BY <1>1 DEF Shows
    <3> QED
      BY <1>5, <3>1, <3>2, <3>3
  <2>6. ASSUME NEW p \in getProblemList'
        PROVE  \E j \in DOMAIN problem_table' : problem_table'[j].problem = p
    BY <1>1, <1>4, <2>4 DEF Shows
  <2>7. Shows'
    BY <2>5, <2>6 DEF Shows, getOsList
  <2> QED
    BY <1>1, <1>3, <2>4, <2>7, ClosedOK DEF DeleteYes, StoreInv, WindowOK
<1>7. CASE ~ \E i \in DOMAIN problem_table : problem_table[i].problem = q
  <2>1. problem_table' = problem_table
    BY <1>7 DEF DeleteYes, delProblem
  <2>2. Shows'
    BY <1>1, <1>4, <1>5, <1>7, <2>1 DEF Shows, getOsList
  <2> QED
    BY <1>1, <1>3, <2>1, <2>2, ClosedOK DEF DeleteYes, StoreInv, WindowOK
<1> QED
  BY <1>6, <1>7

\* A library that can be opened or not, of a problem that has a row or not.
LEMMA OsAcceptOK ==
    ASSUME StoreInv, NEW p \in Problems, NEW s \in Systems, OsAccept(p, s)
    PROVE  StoreInv'
<1> DEFINE os(q) == {r \in Systems : <<q, r>> \in DOMAIN problem'}
<1>1. running /\ Shows /\ WindowOK /\ DataOK /\ file \in Libraries /\ obj \in Settings
  BY DEF StoreInv, OsAccept, DialogOK
<1>2. /\ DOMAIN problem \subseteq DOMAIN problem'
      /\ DOMAIN problem' \subseteq DOMAIN problem \union {<<p, s>>}
      /\ \A e \in DOMAIN problem' : problem'[e] \in Libraries \ Unreadable
  BY <1>1 DEF OsAccept, insertProblem, Put, DataOK
<1>3. DataOK'
  <2>1. settings' \in [Problems -> Settings] /\ stored' \subseteq Problems
    BY <1>1, StoredOK DEF OsAccept
  <2>2. latest' \in [Problems -> Settings]
    BY <1>1, NoSettingsType DEF OsAccept, DataOK
  <2>3. DOMAIN problem' \subseteq Problems \X Systems
    BY <1>1, <1>2 DEF DataOK
  <2>4. result' \in [Problems \X Results -> 0 .. MaxCount]
    BY <1>1 DEF OsAccept, DataOK
  <2> QED
    BY <1>2, <2>1, <2>2, <2>3, <2>4 DEF DataOK
<1>4. DialogOK' /\ LinesOK'
  BY ClosedOK DEF OsAccept
<1>5. CASE \E i \in DOMAIN problem_table : problem_table[i].problem = p
  BY <1>1, <1>3, <1>4, <1>5 DEF OsAccept, StoreInv, WindowOK
<1>6. CASE ~ \E i \in DOMAIN problem_table : problem_table[i].problem = p
  <2> DEFINE row == NewRow(p)
             t == problem_table
  <2>1. problem_table' = Append(t, row) /\ running' = running /\ activeProblem' = activeProblem
    BY <1>6 DEF OsAccept
  <2>2. row \in Row /\ row.problem = p /\ row.checked = FALSE /\ row.systems = os(p)
    BY DEF NewRow, Row, getOsList
  <2> HIDE DEF row
  <2>3. t \in Seq(Row) /\ Len(t) \in Nat /\ DOMAIN t = 1 .. Len(t)
    BY <1>1, RowsOf DEF WindowOK, IsTable
  <2>4. /\ Append(t, row) \in Seq(Row) /\ DOMAIN Append(t, row) = 1 .. Len(t) + 1
        /\ \A j \in 1 .. Len(t) : Append(t, row)[j] = t[j]
        /\ Append(t, row)[Len(t) + 1] = row
    BY <2>2, <2>3
  <2>5. IsTable(problem_table')
    <3>1. Distinct(problem_table')
      BY <1>1, <1>6, <2>1, <2>2, <2>3, <2>4 DEF WindowOK, IsTable, Distinct
    <3>2. OneIn(problem_table')
      BY <1>1, <2>1, <2>2, <2>3, <2>4 DEF WindowOK, IsTable, OneIn
    <3> QED
      BY <2>1, <2>4, <3>1, <3>2 DEF IsTable
  <2>6. getProblemList' \subseteq getProblemList \union {p}
    BY <1>2 DEF getProblemList
  <2>7. \A q : q # p => os(q) = getOsList(q)
    BY <1>2 DEF getOsList
  <2>8. ASSUME NEW q \in getProblemList'
        PROVE  \E i \in DOMAIN problem_table' : problem_table'[i].problem = q
    <3>1. CASE q = p
      <4>1. Len(t) + 1 \in DOMAIN problem_table'
        BY <2>1, <2>3, <2>4
      <4> QED
        BY <2>1, <2>2, <2>4, <3>1, <4>1
    <3>2. CASE q # p
      <4>1. PICK i \in DOMAIN t : t[i].problem = q
        BY <1>1, <2>6, <3>2 DEF Shows
      <4>2. i \in DOMAIN problem_table' /\ problem_table'[i] = t[i]
        BY <2>1, <2>3, <2>4, <4>1
      <4> QED
        BY <4>1, <4>2
    <3> QED
      BY <3>1, <3>2
  <2>9. ASSUME NEW i \in DOMAIN problem_table'
        PROVE  problem_table'[i].systems = os(problem_table'[i].problem)
    <3>1. CASE i = Len(t) + 1
      BY <2>1, <2>2, <2>4, <3>1
    <3>2. CASE i # Len(t) + 1
      <4>1. i \in DOMAIN t /\ problem_table'[i] = t[i]
        BY <2>1, <2>3, <2>4, <3>2
      <4>2. t[i].problem # p /\ t[i].systems = getOsList(t[i].problem)
        BY <1>1, <1>6, <4>1 DEF Shows
      <4> QED
        BY <2>7, <4>1, <4>2
    <3> QED
      BY <3>1, <3>2
  <2>10. Shows'
    BY <2>8, <2>9 DEF Shows, getOsList
  <2> QED
    BY <1>1, <1>3, <1>4, <2>1, <2>5, <2>10 DEF StoreInv, WindowOK
<1> QED
  BY <1>5, <1>6

-----------------------------------------------------------------------------
(* The dialog about results, and the start of the server.                  *)

\* The results are listed, each line with its own position.
LEMMA InfoOK ==
    ASSUME StoreInv, NEW i \in DOMAIN problem_table, infoProblemSlot(i) PROVE StoreInv'
<1> DEFINE p == problem_table[i].problem
<1>1. p \in Problems
  BY RowIn DEF StoreInv
<1>2. PICK s \in ResultLists(p) :
         /\ vector' = s
         /\ lines' = [j \in DOMAIN s |-> [shown |-> s[j], position |-> j]]
  BY DEF infoProblemSlot
<1>3. PICK k \in 0 .. MaxCount * Cardinality(Results) :
         s \in [1 .. k -> {r \in Results : result[<<p, r>>] > 0}]
  BY DEF ResultLists
<1>4. k \in Nat
  <2>1. Cardinality(Results) \in Nat /\ MaxCount \in Nat
    BY StoreAssumption, FS_CardinalityType
  <2>2. MaxCount * Cardinality(Results) \in Nat
    BY <2>1
  <2> QED
    BY <1>3, <2>2
<1>5. s \in [1 .. k -> Results]
  BY <1>3
<1>6. vector' \in Seq(Results) /\ Len(vector') = k /\ DOMAIN s = 1 .. k
  BY <1>2, <1>4, <1>5, SequenceOf
<1>7. lines' \in [1 .. k -> [shown : Results, position : Nat]]
  BY <1>2, <1>5, <1>6
<1>8. /\ lines' \in Seq([shown : Results, position : Nat]) /\ Len(lines') = k
  BY <1>4, <1>7, SequenceOf
<1>9. LinesOK'
  BY <1>2, <1>6, <1>8 DEF LinesOK
<1>10. DialogOK'
  BY <1>1 DEF infoProblemSlot, StoreInv, DialogOK, Dialogs, Settings
<1> QED
  BY <1>9, <1>10, Untouched DEF infoProblemSlot, StoreInv, database, window

\* The result and its line go together, and the buttons below are renumbered.
LEMMA DeleteResultOK ==
    ASSUME StoreInv, NEW i \in DOMAIN lines, deleteResultSlot(i) PROVE StoreInv'
<1> DEFINE Line == [shown : Results, position : Nat]
<1>1. /\ dialog = "about" /\ dialog' = "about"
      /\ lines \in Seq(Line) /\ vector \in Seq(Results) /\ Len(lines) = Len(vector)
      /\ \A j \in DOMAIN lines : lines[j].position = j /\ vector[j] = lines[j].shown
  BY DEF StoreInv, LinesOK, deleteResultSlot
<1>2. /\ Len(lines) \in Nat /\ DOMAIN lines = 1 .. Len(lines)
      /\ Len(vector) \in Nat /\ DOMAIN vector = 1 .. Len(vector)
  BY <1>1, LenProperties
<1>3. /\ lines' = SetPositions(RemoveRow(lines, i))
      /\ vector' = RemoveRow(vector, i)
      /\ deleteResult(problemName, vector[i])
  BY <1>1 DEF deleteResultSlot
<1>4. /\ RemoveRow(lines, i) \in Seq(Line)
      /\ DOMAIN RemoveRow(lines, i) = 1 .. Len(lines) - 1
      /\ \A j \in 1 .. Len(lines) - 1 :
            RemoveRow(lines, i)[j] = IF j < i THEN lines[j] ELSE lines[j + 1]
  BY <1>1, RowRemoved
<1>5. /\ vector' \in Seq(Results) /\ Len(vector') = Len(vector) - 1
      /\ \A j \in 1 .. Len(vector) - 1 :
            vector'[j] = IF j < i THEN vector[j] ELSE vector[j + 1]
  <2>1. i \in DOMAIN vector
    BY <1>1, <1>2
  <2> QED
    BY <1>1, <1>3, <2>1, RowRemoved
<1> DEFINE rest == RemoveRow(lines, i)
<1> HIDE DEF rest
<1>6. ASSUME NEW j \in 1 .. Len(lines) - 1
      PROVE  /\ lines'[j] = [shown |-> rest[j].shown, position |-> j]
             /\ rest[j].shown \in Results
             /\ rest[j].shown = vector'[j]
  <2>1. rest[j] \in Line
    BY <1>4, LenProperties DEF rest
  <2>2. lines'[j] = [rest[j] EXCEPT !.position = j]
    BY <1>3, <1>4 DEF SetPositions, rest
  <2>3. rest[j].shown = vector'[j]
    <3>1. CASE j < i
      <4>1. rest[j] = lines[j] /\ vector'[j] = vector[j] /\ j \in DOMAIN lines
        BY <1>1, <1>2, <1>4, <1>5, <3>1, SMTT(30) DEF rest
      <4> QED
        BY <1>1, <4>1
    <3>2. CASE ~ j < i
      <4>1. rest[j] = lines[j + 1] /\ vector'[j] = vector[j + 1] /\ j + 1 \in DOMAIN lines
        BY <1>1, <1>2, <1>4, <1>5, <3>2 DEF rest
      <4> QED
        BY <1>1, <4>1
    <3> QED
      BY <3>1, <3>2
  <2> QED
    BY <2>1, <2>2, <2>3
<1>7. DOMAIN lines' = 1 .. Len(lines) - 1
  BY <1>3, <1>4 DEF SetPositions
<1>8. Len(lines) - 1 \in Nat
  BY <1>2
<1>9. lines' \in [1 .. Len(lines) - 1 -> Line]
  <2>1. ASSUME NEW j \in 1 .. Len(lines) - 1 PROVE lines'[j] \in Line
    <3>1. j \in Nat
      BY <1>2
    <3>2. [shown |-> rest[j].shown, position |-> j] \in Line
      BY <1>6, <3>1
    <3> QED
      BY <1>6, <3>2
  <2> QED
    BY <1>3, <1>7, <2>1 DEF SetPositions
<1>10. lines' \in Seq(Line) /\ Len(lines') = Len(lines) - 1
  BY <1>8, <1>9, SequenceOf
<1>11. LinesOK'
  <2>1. ASSUME NEW j \in DOMAIN lines'
        PROVE  lines'[j].position = j /\ vector'[j] = lines'[j].shown
    BY <1>6, <1>7
  <2> QED
    BY <1>1, <1>5, <1>10, <2>1 DEF LinesOK
<1>12. DataOK'
  <2>1. result' \in [Problems \X Results -> 0 .. MaxCount]
    BY <1>3, StoreAssumption DEF deleteResult, StoreInv, DataOK
  <2> QED
    BY <2>1 DEF deleteResultSlot, StoreInv, DataOK
<1> QED
  BY <1>11, <1>12, Untouched DEF deleteResultSlot, StoreInv, window

\* The table is read from the database.
LEMMA RestartOK == ASSUME StoreInv, Restart PROVE StoreInv'
<1> DEFINE k == Cardinality(getProblemList)
<1>1. DataOK' /\ problem' = problem /\ activeProblem' = NoProblem /\ running' = TRUE
  BY Untouched DEF Restart, StoreInv, database
<1>2. getProblemList \subseteq Problems
  BY DEF StoreInv, DataOK, getProblemList
<1>3. k \in Nat
  BY <1>2, StoreAssumption, FS_Subset, FS_CardinalityType
<1>4. PICK names \in [1 .. k -> getProblemList] :
         /\ \A p \in getProblemList : \E i \in DOMAIN names :
               \A j \in DOMAIN names : names[j] = p <=> j = i
         /\ problem_table' = [i \in DOMAIN names |->
               [problem |-> names[i], checked |-> FALSE, systems |-> getOsList(names[i])]]
  BY DEF Restart
<1> HIDE DEF k
<1>5. problem_table' \in [1 .. k -> Row]
  <2>1. \A i \in 1 .. k : [problem |-> names[i], checked |-> FALSE, systems |-> getOsList(names[i])] \in Row
    BY <1>2, <1>4 DEF Row, getOsList
  <2> QED
    BY <1>4, <2>1
<1>6. problem_table' \in Seq(Row) /\ DOMAIN problem_table' = 1 .. k
  BY <1>3, <1>5, SequenceOf
<1>7. \A i \in 1 .. k :
         /\ problem_table'[i].problem = names[i] /\ ~ problem_table'[i].checked
         /\ problem_table'[i].systems = getOsList(names[i])
  BY <1>4
<1>8. IsTable(problem_table')
  <2>1. \A i, j \in 1 .. k : names[i] = names[j] => i = j
    BY <1>4
  <2>2. Distinct(problem_table')
    BY <1>6, <1>7, <2>1 DEF Distinct
  <2>3. OneIn(problem_table')
    BY <1>6, <1>7 DEF OneIn
  <2> QED
    BY <1>6, <2>2, <2>3 DEF IsTable
<1>9. Shows'
  <2>1. \A p : getOsList(p)' = getOsList(p)
    BY <1>1 DEF getOsList
  <2>2. getProblemList' = getProblemList
    BY <1>1 DEF getProblemList
  <2> QED
    BY <1>1, <1>4, <1>6, <1>7, <2>2 DEF Shows, getOsList
<1> QED
  BY <1>1, <1>8, <1>9, ClosedOK DEF Restart, StoreInv, WindowOK

-----------------------------------------------------------------------------
(* Every step.                                                             *)

LEMMA WindowStep ==
    ASSUME StoreInv, NEW i \in DOMAIN problem_table,
           ClickBox(i) \/ activeProblemSlot(i) \/ deleteProblemSlot(i)
               \/ problemParametersSlot(i) \/ SetProblem(i)
    PROVE  StoreInv'
<1>1. problem_table[i] \in Row /\ problem_table[i].problem \in Problems
  BY RowIn DEF StoreInv
<1>2. CASE ClickBox(i)
  <2>1. (~ problem_table[i].checked) \in BOOLEAN
    OBVIOUS
  <2> QED
    BY <1>2, <2>1, BoxSet DEF ClickBox, Free, StoreInv, WindowOK
<1>3. CASE activeProblemSlot(i)
  <2>1. WindowOK'
    BY <1>1, <1>3 DEF activeProblemSlot, StoreInv, WindowOK
  <2> QED
    BY <1>3, <2>1, Untouched DEF activeProblemSlot, StoreInv, database
<1>4. CASE deleteProblemSlot(i)
  <2>1. DialogOK'
    BY <1>1, <1>4 DEF deleteProblemSlot, StoreInv, DialogOK, Dialogs, Settings
  <2>2. dialog' # "about"
    BY <1>4 DEF deleteProblemSlot
  <2> QED
    BY <1>4, <2>1, <2>2, Untouched DEF deleteProblemSlot, StoreInv, database, window
<1>5. CASE problemParametersSlot(i)
  <2>1. settings[problem_table[i].problem] \in Settings
    BY <1>1 DEF StoreInv, DataOK
  <2>2. DialogOK'
    BY <1>1, <1>5, <2>1 DEF problemParametersSlot, StoreInv, DialogOK, Dialogs
  <2>3. dialog' # "about"
    BY <1>5 DEF problemParametersSlot
  <2> QED
    BY <1>5, <2>2, <2>3, Untouched DEF problemParametersSlot, StoreInv, database, window
<1>6. CASE SetProblem(i)
  BY <1>1, <1>6, BoxSet DEF SetProblem
<1> QED
  BY <1>2, <1>3, <1>4, <1>5, <1>6

LEMMA DialogStep ==
    ASSUME StoreInv
    PROVE  /\ \A l \in Libraries : loadProblemSlot(l) => StoreInv'
           /\ \A n \in Parameters : deleteSlot(n) => StoreInv'
           /\ \A n \in Parameters, v \in Values : SetEntry(n, v) => StoreInv'
           /\ \A new \in ParameterFiles : loadParameterSlot(new) => StoreInv'
           /\ okSlot => StoreInv'
           /\ Dismiss => StoreInv'
<1>1. ASSUME NEW l \in Libraries, loadProblemSlot(l) PROVE StoreInv'
  <2>1. DialogOK'
    BY <1>1, NoSettingsType DEF loadProblemSlot, StoreInv, DialogOK, Dialogs
  <2>2. dialog' # "about"
    BY <1>1 DEF loadProblemSlot
  <2> QED
    BY <1>1, <2>1, <2>2, Untouched DEF loadProblemSlot, StoreInv, database, window
<1>2. ASSUME NEW o \in Settings, obj' = o, dialog \in {"os", "parameters"},
             UNCHANGED <<database, window, dialog, problemName, file, about, latest>>,
             running' = running \/ running' = FALSE
      PROVE  StoreInv'
  <2>1. DialogOK'
    BY <1>2 DEF StoreInv, DialogOK
  <2>2. WindowOK'
    BY <1>2 DEF StoreInv, WindowOK, window
  <2>3. DataOK' /\ LinesOK' /\ (Shows => Shows')
    BY <1>2, Untouched DEF StoreInv, database, window
  <2> QED
    BY <1>2, <2>1, <2>2, <2>3 DEF StoreInv
<1>3. obj \in Settings
  BY DEF StoreInv, DialogOK
<1>4. ASSUME NEW n \in Parameters, deleteSlot(n) PROVE StoreInv'
  BY <1>2, <1>3, <1>4, WithoutType DEF deleteSlot
<1>5. ASSUME NEW n \in Parameters, NEW v \in Values, SetEntry(n, v) PROVE StoreInv'
  BY <1>2, <1>3, <1>5, PutType DEF SetEntry
<1>6. ASSUME NEW new \in ParameterFiles, loadParameterSlot(new) PROVE StoreInv'
  <2>1. new \in Settings
    BY StoreAssumption
  <2>2. obj' \in Settings
    BY <1>3, <1>6, <2>1, WithoutType, PutAllType DEF loadParameterSlot
  <2> QED
    BY <1>2, <1>6, <2>2 DEF loadParameterSlot
<1>7. ASSUME okSlot PROVE StoreInv'
  <2>1. problemName \in Problems
    BY <1>7 DEF okSlot, StoreInv, DialogOK
  <2>2. settings' \in [Problems -> Settings] /\ stored' \subseteq Problems
    BY <1>3, <1>7, <2>1, StoredOK DEF okSlot, StoreInv
  <2>3. DataOK'
    BY <1>7, <2>2, NoSettingsType DEF okSlot, StoreInv, DataOK
  <2> QED
    BY <1>7, <2>3, ClosedOK, Untouched DEF okSlot, StoreInv, window
<1>8. ASSUME Dismiss PROVE StoreInv'
  BY <1>8, ClosedOK, Untouched DEF Dismiss, StoreInv, database, window
<1> QED
  BY <1>1, <1>4, <1>5, <1>6, <1>7, <1>8

LEMMA OthersStep ==
    ASSUME StoreInv
    PROVE  /\ \A n \in Parameters, v \in Values : SetParameter(n, v) => StoreInv'
           /\ \A r \in Results : insertResult(r) => StoreInv'
<1>1. ASSUME NEW n \in Parameters, NEW v \in Values, SetParameter(n, v) PROVE StoreInv'
  <2>1. activeProblem \in Problems
    BY <1>1 DEF SetParameter, StoreInv, WindowOK
  <2>2. WithParameter(n, v) \in Settings /\ Put(latest[activeProblem], n, v) \in Settings
    BY <2>1, PutType DEF WithParameter, StoreInv, DataOK
  <2>3. settings' \in [Problems -> Settings] /\ stored' \subseteq Problems
    BY <1>1, <2>1, <2>2, StoredOK DEF SetParameter, StoreInv
  <2>4. latest' \in [Problems -> Settings]
    BY <1>1, <2>2 DEF SetParameter, StoreInv, DataOK
  <2>5. DataOK'
    BY <1>1, <2>3, <2>4 DEF SetParameter, StoreInv, DataOK
  <2> QED
    BY <1>1, <2>5, Untouched DEF SetParameter, StoreInv, window
<1>2. ASSUME NEW r \in Results, insertResult(r) PROVE StoreInv'
  <2>1. activeProblem \in Problems
    BY <1>2 DEF insertResult, StoreInv, WindowOK
  <2>2. result' \in [Problems \X Results -> 0 .. MaxCount]
    BY <1>2, <2>1, StoreAssumption DEF insertResult, StoreInv, DataOK
  <2>3. DataOK'
    BY <1>2, <2>2 DEF insertResult, StoreInv, DataOK
  <2> QED
    BY <1>2, <2>3, Untouched DEF insertResult, StoreInv, window
<1> QED
  BY <1>1, <1>2

LEMMA StoreStep == ASSUME StoreInv, [Next]_vars PROVE StoreInv'
<1>1. CASE UNCHANGED vars
  BY <1>1, Untouched DEF vars, window, StoreInv, database
<1>2. CASE User
  BY <1>2, WindowStep, InfoOK, DeleteYesOK, DialogStep, RestartOK, OsAcceptOK, DeleteResultOK
     DEF User
<1>3. CASE Others
  BY <1>3, WindowStep, OthersStep DEF Others
<1> QED
  BY <1>1, <1>2, <1>3 DEF Next

LEMMA StoreAlways == Spec => []StoreInv
  BY StoreInit, StoreStep, PTL DEF Spec

-----------------------------------------------------------------------------
(* The theorems.                                                           *)

\* Type correctness of the database, the window and the dialogs.
THEOREM StoreTypeCorrect == Spec => []TypeOK
<1>1. StoreInv => TypeOK
  BY DEF StoreInv, DataOK, DialogOK, WindowOK, LinesOK, IsTable, TypeOK
<1> QED
  BY <1>1, StoreAlways, PTL

\* Whoever sets the boxes of the table, one problem at most is checked.
THEOREM OneAlwaysChecked == Spec => []OneChecked
<1>1. StoreInv => OneChecked
  BY DEF StoreInv, WindowOK, IsTable, OneIn, OneChecked
<1> QED
  BY <1>1, StoreAlways, PTL

\* The table that no query refreshes shows the database, until the process
\* crashes and again from its next start.
THEOREM TableAlwaysShows == Spec => []TableShowsDatabase
<1>1. StoreInv => TableShowsDatabase
  BY DEF StoreInv, WindowOK, IsTable, Distinct, Shows, TableShowsDatabase
<1> QED
  BY <1>1, StoreAlways, PTL

\* However many results are deleted in whichever order, the button of each line
\* stands for the result that the line shows.
THEOREM PositionsAlwaysMatch == Spec => []PositionsMatch
<1>1. ASSUME StoreInv, dialog = "about" PROVE PositionsMatch
  <2>1. DOMAIN lines = 1 .. Len(lines) /\ DOMAIN vector = 1 .. Len(vector)
    BY <1>1, LenProperties DEF StoreInv, LinesOK
  <2> QED
    BY <1>1, <2>1 DEF StoreInv, LinesOK, PositionsMatch
<1>2. StoreInv => PositionsMatch
  BY <1>1 DEF PositionsMatch
<1> QED
  BY <1>2, StoreAlways, PTL
-----------------------------------------------------------------------------
(* Parameters of the script, when no value contains a quote.               *)

NoQuotes == Quoted = {}

LEMMA UpdatesSucceed == ASSUME NoQuotes, NEW o \in Settings PROVE ~ HasQuote(o)
  BY DEF NoQuotes, HasQuote

\* What a dialog stores is not the script's any more.
LEMMA KeptByDialogs ==
    ASSUME StoreInv, ScriptParametersKept, NEW q \in Problems, NEW o \in Settings,
           setProblemSettings(q, o), latest' = [latest EXCEPT ![q] = NoSettings]
    PROVE  ScriptParametersKept'
<1>1. /\ settings \in [Problems -> Settings] /\ latest \in [Problems -> Settings]
      /\ latest' = [latest EXCEPT ![q] = NoSettings]
  BY DEF StoreInv, DataOK
<1>2. settings' = settings \/ settings' = [settings EXCEPT ![q] = o]
  BY DEF setProblemSettings
<1>3. DOMAIN latest'[q] = {}
  BY <1>1 DEF NoSettings
<1>4. ASSUME NEW p \in Problems, p # q
      PROVE  latest'[p] = latest[p] /\ settings'[p] = settings[p]
  BY <1>1, <1>2, <1>4
<1>5. \A p \in Problems : \A n \in DOMAIN latest'[p] :
         n \in DOMAIN settings'[p] /\ settings'[p][n] = latest'[p][n]
  BY <1>3, <1>4 DEF ScriptParametersKept
<1> QED
  BY <1>5 DEF ScriptParametersKept

LEMMA KeptByScript ==
    ASSUME StoreInv, NoQuotes, ScriptParametersKept,
           NEW n \in Parameters, NEW v \in Values, SetParameter(n, v)
    PROVE  ScriptParametersKept'
<1> DEFINE q == activeProblem
           o == WithParameter(n, v)
<1>1. q \in Problems
  BY DEF SetParameter, StoreInv, WindowOK
<1>2. /\ settings \in [Problems -> Settings] /\ latest \in [Problems -> Settings]
      /\ settings[q] \in Settings /\ latest[q] \in Settings
  BY <1>1 DEF StoreInv, DataOK
<1>3. o \in Settings
  BY <1>2, PutType DEF WithParameter
<1>4. settings' = [settings EXCEPT ![q] = o]
  BY <1>3, UpdatesSucceed DEF SetParameter, setProblemSettings, Stores
<1>5. latest' = [latest EXCEPT ![q] = Put(latest[q], n, v)]
  BY DEF SetParameter
<1>6. latest'[q] = Put(latest[q], n, v) /\ settings'[q] = Put(settings[q], n, v)
  BY <1>1, <1>2, <1>4, <1>5 DEF WithParameter
<1>7. ASSUME NEW m \in DOMAIN Put(latest[q], n, v)
      PROVE  /\ m \in DOMAIN Put(settings[q], n, v)
             /\ Put(settings[q], n, v)[m] = Put(latest[q], n, v)[m]
  BY <1>1, <1>7 DEF Put, ScriptParametersKept
<1>8. ASSUME NEW p \in Problems, p # q
      PROVE  latest'[p] = latest[p] /\ settings'[p] = settings[p]
  BY <1>2, <1>4, <1>5, <1>8
<1>9. \A p \in Problems : \A m \in DOMAIN latest'[p] :
         m \in DOMAIN settings'[p] /\ settings'[p][m] = latest'[p][m]
  BY <1>6, <1>7, <1>8 DEF ScriptParametersKept
<1> QED
  BY <1>9 DEF ScriptParametersKept

LEMMA KeptStep ==
    ASSUME StoreInv, NoQuotes, ScriptParametersKept, [Next]_vars
    PROVE  ScriptParametersKept'
<1>1. CASE UNCHANGED <<settings, latest>>
  BY <1>1 DEF ScriptParametersKept
<1>2. CASE okSlot
  <2>1. problemName \in Problems /\ obj \in Settings
    BY <1>2 DEF okSlot, StoreInv, DialogOK
  <2> QED
    BY <1>2, <2>1, KeptByDialogs DEF okSlot
<1>3. ASSUME NEW p \in Problems, NEW s \in Systems, OsAccept(p, s)
      PROVE  ScriptParametersKept'
  <2>1. obj \in Settings
    BY DEF StoreInv, DialogOK
  <2> QED
    BY <1>3, <2>1, KeptByDialogs DEF OsAccept
<1>4. ASSUME NEW n \in Parameters, NEW v \in Values, SetParameter(n, v)
      PROVE  ScriptParametersKept'
  BY <1>4, KeptByScript
<1>5. ASSUME User, ~ okSlot, ~ \E p \in Problems, s \in Systems : OsAccept(p, s)
      PROVE  UNCHANGED <<settings, latest>>
  BY <1>5 DEF User, ClickBox, activeProblemSlot, deleteProblemSlot, problemParametersSlot,
     infoProblemSlot, DeleteYes, Dismiss, Restart, loadProblemSlot, deleteSlot, SetEntry,
     loadParameterSlot, deleteResultSlot, database
<1>6. ASSUME Others, ~ \E n \in Parameters, v \in Values : SetParameter(n, v)
      PROVE  UNCHANGED <<settings, latest>>
  BY <1>6 DEF Others, SetProblem, insertResult, database
<1>7. CASE UNCHANGED vars
  BY <1>1, <1>7 DEF vars, database
<1> QED
  BY <1>1, <1>2, <1>3, <1>4, <1>5, <1>6, <1>7 DEF Next

\* If no value contains a quote, what the script has set is there for the next
\* RUN, whatever is deleted, loaded or started again in between.
THEOREM ScriptParametersAlwaysKept == NoQuotes /\ Spec => []ScriptParametersKept
<1>1. Init => ScriptParametersKept
  BY DEF Init, ScriptParametersKept, NoSettings
<1>2. NoQuotes /\ StoreInv /\ ScriptParametersKept /\ [Next]_vars => ScriptParametersKept'
  BY KeptStep
<1>3. CASE NoQuotes
  <2>1. StoreInv /\ ScriptParametersKept /\ [Next]_vars => ScriptParametersKept'
    BY <1>2, <1>3
  <2> QED
    BY <1>1, <2>1, StoreAlways, PTL DEF Spec
<1> QED
  BY <1>3
=============================================================================
