------------------------------- MODULE Store -------------------------------
(***************************************************************************)
(* What the server keeps of problems: the database (problems, settings and *)
(* results), the table of problems in the window, and the modal dialogs    *)
(* that work on copies of both.  While a dialog is open the user can touch *)
(* nothing else, but the script and the clients go on.                     *)
(*                                                                         *)
(* Names, systems and texts of results are values without structure; they  *)
(* contain no quote, which the values of parameters may.                   *)
(***************************************************************************)
EXTENDS Integers, Sequences, FiniteSets

CONSTANTS
    Problems,       \* names of problems
    NoProblem,      \* activeProblem == ""
    Systems,        \* operating systems
    Parameters,     \* names of parameters, numbers in the order of their text
    Values,         \* values of parameters
    Quoted,         \* those that contain a quote
    Libraries,      \* files with a library
    Unreadable,     \* those that can not be opened
    ParameterFiles, \* settings that a file of parameters can hold
    Results,        \* what a client can report
    Besty(_),       \* its minimum
    Deletable(_),   \* its generations, bestx and system
    MaxCount        \* bound on equal rows of results

Settings == UNION {[S -> Values] : S \in SUBSET Parameters}

ASSUME StoreAssumption ==
    /\ IsFiniteSet(Problems) /\ IsFiniteSet(Results)
    /\ NoProblem \notin Problems /\ Parameters \subseteq Nat
    /\ Quoted \subseteq Values /\ Unreadable \subseteq Libraries
    /\ ParameterFiles \subseteq Settings
    /\ \A r \in Results : Besty(r) \in Int
    /\ MaxCount \in Nat

VARIABLES
    problem,        \* rows of the table problem: a library by name and system
    settings,       \* settings by problem, empty where there is no row
    stored,         \* problems with a row in problemsettings
    result,         \* how many equal rows of results, by problem and result
    problem_table,  \* rows of the window: problem, checked, systems
    activeProblem,
    dialog,         \* the modal dialog that is open
    problemName,    \* its problem
    file,           \* OsDialog: the library chosen before
    obj,            \* OsDialog and ParameterDialog: the settings
    vector,         \* AboutProblemDialog: its results
    lines,          \* the rows of its table: what is shown, and the position
                    \* that is a property of the buttons
    latest,         \* history: parameters set by the script and not replaced
    running         \* the process has not crashed

database == <<problem, settings, stored, result>>
window == <<problem_table, activeProblem>>
about == <<vector, lines>>
entry == <<problemName, file, obj>>

vars == <<database, window, dialog, entry, about, latest, running>>

Dialogs == {"none", "delete", "os", "parameters", "about"}
NoSettings == [n \in {} |-> 0]

Row == [problem : Problems, checked : BOOLEAN, systems : SUBSET Systems]

\* Types.
TypeOK ==
    /\ DOMAIN problem \subseteq Problems \X Systems
    /\ \A e \in DOMAIN problem : problem[e] \in Libraries \ Unreadable
    /\ settings \in [Problems -> Settings] /\ stored \subseteq Problems
    /\ result \in [Problems \X Results -> 0 .. MaxCount]
    /\ problem_table \in Seq(Row)
    /\ activeProblem \in Problems \union {NoProblem}
    /\ dialog \in Dialogs /\ problemName \in Problems \union {NoProblem}
    /\ file \in Libraries \union {NoProblem}
    /\ obj \in Settings
    /\ vector \in Seq(Results)
    /\ lines \in Seq([shown : Results, position : Nat])
    /\ latest \in [Problems -> Settings] /\ running \in BOOLEAN

Init ==
    /\ problem = [e \in {} |-> 0] /\ settings = [p \in Problems |-> NoSettings]
    /\ stored = {} /\ result = [e \in Problems \X Results |-> 0]
    /\ problem_table = <<>> /\ activeProblem = NoProblem
    /\ dialog = "none" /\ problemName = NoProblem /\ file = NoProblem
    /\ obj = NoSettings /\ vector = <<>> /\ lines = <<>>
    /\ latest = [p \in Problems |-> NoSettings] /\ running = TRUE

-----------------------------------------------------------------------------
(* Settings as maps, and rows of tables as sequences.                      *)

Put(o, n, v) == [m \in DOMAIN o \union {n} |-> IF m = n THEN v ELSE o[m]]
Without(o, S) == [m \in DOMAIN o \ S |-> o[m]]
PutAll(o, new) ==
    [m \in DOMAIN o \union DOMAIN new |-> IF m \in DOMAIN new THEN new[m] ELSE o[m]]

RemoveRow(s, i) == [j \in 1 .. Len(s) - 1 |-> IF j < i THEN s[j] ELSE s[j + 1]]

-----------------------------------------------------------------------------
(* Database.                                                               *)

getOsList(p) == {s \in Systems : <<p, s>> \in DOMAIN problem}

getProblemList == {e[1] : e \in DOMAIN problem}

\* insertProblem stores the file or updates the row, if it can be opened.
insertProblem(p, s) ==
    problem' = IF file \in Unreadable THEN problem ELSE Put(problem, <<p, s>>, file)

HasQuote(o) == \E n \in DOMAIN o : o[n] \in Quoted

\* The first row of a problem is inserted with bound values; an update pastes
\* the text into the statement, which fails, silently, if it contains a quote.
Stores(p, o) == p \notin stored \/ ~ HasQuote(o)

setProblemSettings(p, o) ==
    /\ stored' = stored \union {p}
    /\ settings' = IF Stores(p, o) THEN [settings EXCEPT ![p] = o] ELSE settings

\* deleteResult: every row with the text of r goes, whatever its minimum.
deleteResult(p, r) ==
    result' = [e \in DOMAIN result |->
                  IF e[1] = p /\ Deletable(e[2]) = Deletable(r) THEN 0 ELSE result[e]]

\* getResult: the rows of a problem, the largest minimum first.
getResult(p, s) ==
    /\ \A i, j \in 1 .. Len(s) : i < j => Besty(s[i]) >= Besty(s[j])
    /\ \A r \in Results : Cardinality({i \in 1 .. Len(s) : s[i] = r}) = result[<<p, r>>]

ResultLists(p) ==
    UNION {[1 .. k -> {r \in Results : result[<<p, r>>] > 0}] :
              k \in 0 .. MaxCount * Cardinality(Results)}

-----------------------------------------------------------------------------
(* The table of problems.                                                  *)

Free == running /\ dialog = "none"

\* No dialog is open, and what the last one held is out of reach.
Closed ==
    /\ dialog' = "none" /\ problemName' = NoProblem /\ file' = NoProblem
    /\ obj' = NoSettings /\ vector' = <<>> /\ lines' = <<>>

\* Mutant: the other boxes stay as they are.
setCheckedAlone(t, i, status) == [t EXCEPT ![i].checked = status]

\* setChecked and its slot checkProblemSlot: a box that becomes checked
\* unchecks those of other problems.
setChecked(t, i, status) ==
    [j \in DOMAIN t |->
        IF j = i THEN [t[j] EXCEPT !.checked = status]
        ELSE IF status /\ ~ t[i].checked /\ t[j].problem # t[i].problem
                THEN [t[j] EXCEPT !.checked = FALSE]
                ELSE t[j]]

FirstOf(i, rows) == i \in rows /\ \A j \in rows : i <= j

ClickBox(i) ==
    /\ Free
    /\ problem_table' = setChecked(problem_table, i, ~ problem_table[i].checked)
    /\ UNCHANGED <<database, activeProblem, dialog, entry, about, latest, running>>

CheckedRows == {i \in DOMAIN problem_table : problem_table[i].checked}

activeProblemSlot(i) ==
    /\ Free /\ FirstOf(i, CheckedRows)
    /\ activeProblem' = problem_table[i].problem
    /\ UNCHANGED <<database, problem_table, dialog, entry, about, latest, running>>

\* The question is modal; what is checked when it is asked will be deleted.
deleteProblemSlot(i) ==
    /\ Free /\ FirstOf(i, CheckedRows)
    /\ dialog' = "delete" /\ problemName' = problem_table[i].problem
    /\ UNCHANGED <<database, window, file, obj, about, latest, running>>

\* Mutant: one system only.
DeletedOne(p) ==
    IF getOsList(p) = {} THEN {} ELSE {<<p, CHOOSE s \in getOsList(p) : TRUE>>}

Deleted(p) == {e \in DOMAIN problem : e[1] = p}

\* delProblem: the first row of p, if there is one, is removed.
delProblem(p) ==
    IF \E i \in DOMAIN problem_table : problem_table[i].problem = p
       THEN RemoveRow(problem_table,
                      CHOOSE i \in DOMAIN problem_table :
                          /\ problem_table[i].problem = p
                          /\ \A j \in 1 .. i - 1 : problem_table[j].problem # p)
       ELSE problem_table

\* The row of the window and those of the database; settings, results and
\* activeProblem stay.
DeleteYes ==
    /\ running /\ dialog = "delete"
    /\ problem_table' = delProblem(problemName)
    /\ problem' = Without(problem, Deleted(problemName))
    /\ Closed
    /\ UNCHANGED <<settings, stored, result, activeProblem, latest, running>>

\* No of the question; CANCEL, and closing a dialog without effect.
Dismiss ==
    /\ running /\ dialog # "none" /\ Closed
    /\ UNCHANGED <<database, window, latest, running>>

-----------------------------------------------------------------------------
(* loadProblemSlot with OsDialog, which asks for name, system and settings *)
(* of the library that was chosen.                                         *)

loadProblemSlot(l) ==
    /\ Free
    /\ dialog' = "os" /\ file' = l /\ obj' = NoSettings
    /\ UNCHANGED <<database, window, problemName, about, latest, running>>

NewRow(p) == [problem |-> p, checked |-> FALSE, systems |-> getOsList(p)']

\* Settings are stored even if none were entered: "{}" is not empty.  If the
\* problem has a row, the layout of a button is used, which has none.
OsAccept(p, s) ==
    /\ running /\ dialog = "os" /\ Closed
    /\ insertProblem(p, s)
    /\ setProblemSettings(p, obj)
    /\ latest' = [latest EXCEPT ![p] = NoSettings]
    /\ IF \E i \in DOMAIN problem_table : problem_table[i].problem = p
          THEN running' = FALSE /\ UNCHANGED problem_table
          ELSE problem_table' = Append(problem_table, NewRow(p)) /\ UNCHANGED running
    /\ UNCHANGED <<result, activeProblem>>

-----------------------------------------------------------------------------
(* ParameterDialog and the parameters of OsDialog.                         *)

problemParametersSlot(i) ==
    /\ Free
    /\ dialog' = "parameters" /\ problemName' = problem_table[i].problem
    /\ obj' = settings[problem_table[i].problem]
    /\ UNCHANGED <<database, window, file, about, latest, running>>

\* insertSlot, updateSlot and addSlot: name and value are what the line holds.
SetEntry(n, v) ==
    /\ running /\ dialog \in {"os", "parameters"}
    /\ obj' = Put(obj, n, v)
    /\ UNCHANGED <<database, window, dialog, problemName, file, about, latest, running>>

deleteSlot(n) ==
    /\ running /\ dialog \in {"os", "parameters"}
    /\ obj' = Without(obj, {n})
    /\ UNCHANGED <<database, window, dialog, problemName, file, about, latest, running>>

Place(n) == Cardinality({m \in DOMAIN obj : m <= n})

\* The loop removes the key at its index and then counts the index up: every
\* second key stays, and with an odd number of keys the index passes the end,
\* which it never meets again.
loadParameterSlot(new) ==
    /\ running /\ dialog = "parameters"
    /\ IF Cardinality(DOMAIN obj) % 2 = 1
          THEN running' = FALSE /\ UNCHANGED obj
          ELSE /\ obj' = PutAll(Without(obj, {n \in DOMAIN obj : Place(n) % 2 = 1}), new)
               /\ UNCHANGED running
    /\ UNCHANGED <<database, window, dialog, problemName, file, about, latest>>

\* The copy is written back as it is.
okSlot ==
    /\ running /\ dialog = "parameters" /\ Closed
    /\ setProblemSettings(problemName, obj)
    /\ latest' = [latest EXCEPT ![problemName] = NoSettings]
    /\ UNCHANGED <<problem, result, window, running>>

-----------------------------------------------------------------------------
(* AboutProblemDialog.                                                     *)

\* buildTable.
infoProblemSlot(i) ==
    /\ Free
    /\ dialog' = "about" /\ problemName' = problem_table[i].problem
    /\ \E s \in ResultLists(problem_table[i].problem) :
          /\ getResult(problem_table[i].problem, s)
          /\ vector' = s
          /\ lines' = [j \in DOMAIN s |-> [shown |-> s[j], position |-> j]]
    /\ UNCHANGED <<database, window, file, obj, latest, running>>

\* Mutant: the buttons keep their positions.
KeepPositions(t) == t

\* The buttons get new positions.
SetPositions(t) == [j \in DOMAIN t |-> [t[j] EXCEPT !.position = j]]

deleteResultSlot(i) ==
    /\ running /\ dialog = "about"
    /\ LET position == lines[i].position IN
          /\ lines' = SetPositions(RemoveRow(lines, position))
          /\ vector' = RemoveRow(vector, position)
          /\ deleteResult(problemName, vector[position])
    /\ UNCHANGED <<problem, settings, stored, window, dialog, entry, latest, running>>

-----------------------------------------------------------------------------
(* What goes on while a dialog is open.                                    *)

\* SET PROBLEM of the script, for a problem that has a row.
SetProblem(i) ==
    /\ running
    /\ FirstOf(i, {j \in DOMAIN problem_table : problem_table[j].problem = problem_table[i].problem})
    /\ problem_table' = setChecked(problem_table, i, TRUE)
    /\ activeProblem' = problem_table[i].problem
    /\ UNCHANGED <<database, dialog, entry, about, latest, running>>

\* Mutant: the settings are not read before.
WithParameterAlone(n, v) == Put(NoSettings, n, v)

WithParameter(n, v) == Put(settings[activeProblem], n, v)

\* SET PARAMETER of the script, for the active problem.
SetParameter(n, v) ==
    /\ running /\ activeProblem # NoProblem
    /\ setProblemSettings(activeProblem, WithParameter(n, v))
    /\ latest' = [latest EXCEPT ![activeProblem] = Put(@, n, v)]
    /\ UNCHANGED <<problem, result, window, dialog, entry, about, running>>

\* FINISH of a client: insertResult files the result under the active problem.
insertResult(r) ==
    /\ running /\ activeProblem # NoProblem /\ result[<<activeProblem, r>>] < MaxCount
    /\ result' = [result EXCEPT ![<<activeProblem, r>>] = @ + 1]
    /\ UNCHANGED <<problem, settings, stored, window, dialog, entry, about, latest, running>>

\* The server is started again, after a crash or the user's Quit: the table
\* lists the problems of the database.
Restart ==
    /\ ~ running \/ dialog = "none"
    /\ \E names \in [1 .. Cardinality(getProblemList) -> getProblemList] :
          /\ \A p \in getProblemList : \E i \in DOMAIN names :
                \A j \in DOMAIN names : names[j] = p <=> j = i
          /\ problem_table' = [i \in DOMAIN names |->
                [problem |-> names[i], checked |-> FALSE, systems |-> getOsList(names[i])]]
    /\ activeProblem' = NoProblem /\ Closed /\ running' = TRUE
    /\ UNCHANGED <<database, latest>>

-----------------------------------------------------------------------------
User ==
    \/ \E i \in DOMAIN problem_table :
          \/ ClickBox(i) \/ activeProblemSlot(i) \/ deleteProblemSlot(i)
          \/ problemParametersSlot(i) \/ infoProblemSlot(i)
    \/ DeleteYes \/ Dismiss \/ okSlot \/ Restart
    \/ \E l \in Libraries : loadProblemSlot(l)
    \/ \E p \in Problems, s \in Systems : OsAccept(p, s)
    \/ \E n \in Parameters : deleteSlot(n) \/ \E v \in Values : SetEntry(n, v)
    \/ \E new \in ParameterFiles : loadParameterSlot(new)
    \/ \E i \in DOMAIN lines : deleteResultSlot(i)

Others ==
    \/ \E i \in DOMAIN problem_table : SetProblem(i)
    \/ \E n \in Parameters, v \in Values : SetParameter(n, v)
    \/ \E r \in Results : insertResult(r)

Next == User \/ Others

Spec == Init /\ [][Next]_vars

-----------------------------------------------------------------------------
(* Properties.                                                             *)

\* At most one problem is checked, whoever checked it: the user, the script,
\* or the slots that set the boxes of the other rows.
OneChecked ==
    \A i, j \in DOMAIN problem_table :
        problem_table[i].checked /\ problem_table[j].checked => i = j

\* The table is a view of the database that no query refreshes: it has one row
\* for each problem that has a library, and shows its systems.
TableShowsDatabase ==
    /\ \A i, j \in DOMAIN problem_table :
          problem_table[i].problem = problem_table[j].problem => i = j
    /\ running =>
          /\ \A p \in getProblemList : \E i \in DOMAIN problem_table : problem_table[i].problem = p
          /\ \A i \in DOMAIN problem_table :
                problem_table[i].systems = getOsList(problem_table[i].problem)

\* The button of each line stands for the result that the line shows.
PositionsMatch ==
    dialog = "about" =>
        /\ Len(lines) = Len(vector)
        /\ \A i \in DOMAIN lines :
              /\ lines[i].position \in DOMAIN vector
              /\ vector[lines[i].position] = lines[i].shown
              /\ \A j \in DOMAIN lines : lines[j].position = lines[i].position => i = j

\* "SET PARAMETER paramname paramvalue": what the script has set is there for
\* the next RUN, across changes of the problem and restarts, until a dialog
\* replaces the settings.
ScriptParametersKept ==
    \A p \in Problems : \A n \in DOMAIN latest[p] :
        n \in DOMAIN settings[p] /\ settings[p][n] = latest[p][n]
=============================================================================
