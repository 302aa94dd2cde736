---------------------------- MODULE LibraryProof ----------------------------
(***************************************************************************)
(* Proofs about the library of a problem, for any parameters, number of    *)
(* generations and of runs, next to any number of other clients.           *)
(***************************************************************************)
EXTENDS Library, TLAPS

\* What is done to the files of the directory, and by whom, does not touch the
\* library: every step of the composition is one of Plugin or leaves it alone.
LEMMA LibraryStep == ASSUME LibraryNext PROVE [Next]_vars
<1>1. CASE pc[self] = "away" /\ Main /\ UNCHANGED directoryVars
  BY <1>1 DEF Next
<1>2. CASE Worker /\ UNCHANGED directoryVars
  BY <1>2 DEF Next
<1>3. CASE CallDone
  BY <1>3 DEF CallDone
<1>4. CASE NameFile
  BY <1>4 DEF NameFile
<1>5. CASE ReturnFromDone
  BY <1>5 DEF ReturnFromDone, Next
<1>6. CASE OtherClient
  BY <1>6 DEF OtherClient
<1> QED
  BY <1>1, <1>2, <1>3, <1>4, <1>5, <1>6 DEF LibraryNext

\* The composition implements the library next to any directory.
THEOREM LibraryImplementsPlugin == LibrarySpec => Spec
<1>1. LibraryInit => Init
  BY DEF LibraryInit
<1>2. [LibraryNext]_<<vars, directoryVars>> => [Next]_vars
  BY LibraryStep
<1> QED
  BY <1>1, <1>2, PTL DEF LibrarySpec, Spec

-----------------------------------------------------------------------------
(* Up to the first PAUSE the server knows a client as RUN from the start   *)
(* of a thread until done has been called for it, so nothing overtakes     *)
(* anything: there is one signal completed at most, no thread next to it,  *)
(* and the arrays are those of this run.                                   *)

\* The parameters are those of the run.
OwnParameters ==
    \A n_ \in Parameters :
        parameter[n_] = IF n_ \in DOMAIN settings THEN settings[n_] ELSE Default(n_)

Orderly ==
    /\ ~ broken /\ ~ waiting /\ ~ stopflag
    /\ completed \in {0, 1}
    /\ Running => arrays = "allocated" /\ completed = 0 /\ OwnParameters
    /\ completed = 1 => arrays = "allocated" /\ tempx = "best" /\ ~ Running
    /\ Running \/ completed = 1 => status = "RUN" /\ reported = "RUN"
    /\ given \in {"none", "best"}

LEMMA OrderlyAtFirst == Init => Orderly
  BY DEF Init, Orderly, Running

LEMMA OrderlyStep ==
    ASSUME paused \/ Orderly, [Next]_vars PROVE paused' \/ Orderly'
<1> SUFFICES ASSUME ~ paused' PROVE Orderly'
  OBVIOUS
<1>1. CASE UNCHANGED vars
  BY <1>1 DEF vars, library, client, worker, Orderly, OwnParameters, Running
<1>2. ASSUME NEW s \in Settings, RunProblem(s) PROVE Orderly'
  BY <1>2 DEF RunProblem, Reloaded, Parse, Allocate, Orderly, OwnParameters, Running
<1>3. ASSUME Pause PROVE Orderly'
  BY <1>3 DEF Pause
<1>4. ASSUME Unblock PROVE Orderly'
  BY <1>4 DEF Unblock, Orderly
<1>5. ASSUME Resume PROVE Orderly'
  BY <1>5 DEF Resume, Orderly
<1>6. ASSUME Report PROVE Orderly'
  BY <1>6 DEF Report, library, worker, Orderly, OwnParameters, Running
<1>7. ASSUME Evolve PROVE Orderly'
  <2>1. /\ Orderly /\ Running
        /\ arrays = "allocated" /\ completed = 0 /\ OwnParameters
    BY <1>7 DEF Evolve, client, Orderly, Running
  <2>2. ~ broken'
    BY <1>7, <2>1, Zenon DEF Evolve, Evaluate, Orderly
  <2>3. /\ arrays' = "allocated" /\ completed' = 0 /\ OwnParameters'
        /\ ~ waiting' /\ ~ stopflag'
    BY <1>7, <2>1 DEF Evolve, library, client, Orderly, OwnParameters
  <2>4. status' = "RUN" /\ reported' = "RUN" /\ given' \in {"none", "best"}
    BY <1>7, <2>1 DEF Evolve, client, Orderly
  <2> QED
    BY <2>2, <2>3, <2>4 DEF Orderly
<1>8. ASSUME Stop PROVE Orderly'
  BY <1>8 DEF Stop, library, client, Orderly, OwnParameters, Running
<1>9. ASSUME Complete PROVE Orderly'
  <2>1. Orderly /\ Running /\ arrays = "allocated" /\ completed = 0
    BY <1>9 DEF Complete, client, Orderly, Running
  <2>2. ~ broken'
    BY <1>9, <2>1, Zenon DEF Complete, Evaluate, Orderly
  <2>3. /\ arrays' = "allocated" /\ completed' = 1 /\ tempx' = "best"
        /\ ~ waiting' /\ ~ stopflag' /\ ~ Running'
    BY <1>9, <2>1 DEF Complete, Evaluate, library, client, Orderly, Running
  <2>4. status' = "RUN" /\ reported' = "RUN" /\ given' \in {"none", "best"}
    BY <1>9, <2>1 DEF Complete, client, Orderly
  <2> QED
    BY <2>2, <2>3, <2>4 DEF Orderly
<1>10. ASSUME EndThread PROVE Orderly'
  <2>1. /\ Orderly /\ completed = 1
        /\ arrays = "allocated" /\ tempx = "best" /\ ~ Running
    BY <1>10 DEF EndThread, Ended, Orderly
  <2>2. ~ broken'
    BY <1>10, <2>1, Zenon DEF EndThread, Orderly
  <2>3. /\ completed' = 0 /\ given' = "best"
        /\ ~ waiting' /\ ~ stopflag' /\ ~ Running'
    BY <1>10, <2>1 DEF EndThread, worker, Orderly, Running
  <2> QED
    BY <2>2, <2>3 DEF Orderly
<1> QED
  BY <1>1, <1>2, <1>3, <1>4, <1>5, <1>6, <1>7, <1>8, <1>9, <1>10 DEF Next, Main, Worker

LEMMA AlwaysOrderly == Spec => [](paused \/ Orderly)
<1>1. Init => paused \/ Orderly
  BY OrderlyAtFirst
<1>2. (paused \/ Orderly) /\ [Next]_vars => (paused \/ Orderly)'
  BY OrderlyStep
<1> QED
  BY <1>1, <1>2, PTL DEF Spec

-----------------------------------------------------------------------------
(* Types.  The loop of run() leaves no later than after the last generation,*)
(* also after a RESUME.                                                    *)

InRounds == thread = "loop" => generation <= Generations

LEMMA SettingsAreMaps ==
    ASSUME NEW s \in Settings PROVE \A n_ \in DOMAIN s : s[n_] \in Values
  BY DEF Settings

LEMMA TypesAtFirst == Init => TypeOK /\ InRounds
<1> SUFFICES ASSUME Init PROVE TypeOK /\ InRounds
  OBVIOUS
<1>1. settings \in Settings
  <2>1. settings \in [{} -> Values]
    BY DEF Init
  <2> QED
    BY <2>1 DEF Settings
<1>2. parameter \in [Parameters -> Values]
  BY PluginAssumption DEF Init
<1>3. /\ arrays \in {"none", "allocated", "freed"}
      /\ tempx \in Points /\ given \in Points /\ thread = "none"
      /\ status \in {"START", "RUN", "PAUSE", "FINISH"}
      /\ reported \in {"START", "RUN", "PAUSE", "FINISH"}
  BY DEF Init, Points
<1>4. generation \in 0 .. Generations + 1 /\ completed \in Nat /\ runs \in 0 .. MaxRuns
  BY PluginAssumption DEF Init
<1>5. /\ stopflag \in BOOLEAN /\ waiting \in BOOLEAN
      /\ broken \in BOOLEAN /\ paused \in BOOLEAN
  BY Zenon DEF Init
<1> QED
  BY <1>1, <1>2, <1>3, <1>4, <1>5 DEF TypeOK, InRounds

LEMMA TypesStep ==
    ASSUME TypeOK, InRounds, [Next]_vars PROVE TypeOK' /\ InRounds'
<1> USE PluginAssumption
<1>1. CASE UNCHANGED vars
  BY <1>1 DEF vars, library, client, worker, TypeOK, InRounds, Settings, Points
<1>2. ASSUME NEW s \in Settings, RunProblem(s) PROVE TypeOK' /\ InRounds'
  <2>1. parameter' \in [Parameters -> Values]
    BY <1>2, SettingsAreMaps DEF RunProblem, Parse, Reloaded
  <2>2. settings' \in Settings
    BY <1>2 DEF RunProblem, Settings
  <2>3. /\ broken' \in BOOLEAN /\ stopflag' \in BOOLEAN
        /\ waiting' \in BOOLEAN /\ paused' \in BOOLEAN
    BY <1>2, Zenon DEF RunProblem, TypeOK
  <2>4. generation' = 0 /\ completed' \in Nat /\ runs' \in 0 .. MaxRuns
    BY <1>2 DEF RunProblem, TypeOK
  <2>5. /\ arrays' = "allocated" /\ tempx' = "any" /\ given' \in Points
        /\ thread' = "loop" /\ status' = "RUN" /\ reported' = "RUN"
    BY <1>2 DEF RunProblem, Allocate, TypeOK
  <2> QED
    BY <2>1, <2>2, <2>3, <2>4, <2>5 DEF TypeOK, InRounds, Points
<1>3. CASE Pause
  <2>1. /\ broken' \in BOOLEAN /\ stopflag' \in BOOLEAN /\ paused' \in BOOLEAN
    BY <1>3, Zenon DEF Pause, TypeOK
  <2>2. Running \in BOOLEAN
    BY DEF Running
  <2>3. waiting' \in BOOLEAN
    BY <1>3, <2>2, Zenon DEF Pause
  <2>4. status' \in {"START", "RUN", "PAUSE", "FINISH"}
    BY <1>3 DEF Pause, TypeOK
  <2> QED
    BY <1>3, <2>1, <2>3, <2>4 DEF Pause, library, worker, TypeOK, InRounds, Settings
<1>4. CASE Unblock
  <2>1. /\ broken' \in BOOLEAN /\ stopflag' \in BOOLEAN
        /\ waiting' \in BOOLEAN /\ paused' \in BOOLEAN
    BY <1>4, Zenon DEF Unblock, TypeOK
  <2> QED
    BY <1>4, <2>1 DEF Unblock, library, worker, TypeOK, InRounds, Settings
<1>5. CASE Resume
  BY <1>5, ZenonT(60) DEF Resume, library, TypeOK, InRounds, Settings, Points
<1>6. CASE Report
  BY <1>6 DEF Report, library, worker, TypeOK, InRounds, Settings, Points
<1>7. CASE Evolve
  <2>1. broken' \in BOOLEAN
    BY <1>7, Zenon DEF Evolve, Evaluate, TypeOK
  <2> QED
    BY <1>7, <2>1 DEF Evolve, Evaluate, LastRound, library, client, TypeOK, InRounds,
                      Settings, Points
<1>8. CASE Stop
  BY <1>8 DEF Stop, library, client, TypeOK, InRounds, Settings, Points
<1>9. CASE Complete
  <2>1. broken' \in BOOLEAN
    BY <1>9, Zenon DEF Complete, Evaluate, TypeOK
  <2> QED
    BY <1>9, <2>1 DEF Complete, Evaluate, library, client, TypeOK, InRounds, Settings, Points
<1>10. CASE EndThread
  <2>1. broken' \in BOOLEAN
    BY <1>10, Zenon DEF EndThread, TypeOK
  <2>2. parameter' \in [Parameters -> Values]
    BY <1>10 DEF EndThread, TypeOK
  <2> QED
    BY <1>10, <2>1, <2>2 DEF EndThread, Ended, worker, TypeOK, InRounds, Settings, Points
<1> QED
  BY <1>1, <1>2, <1>3, <1>4, <1>5, <1>6, <1>7, <1>8, <1>9, <1>10 DEF Next, Main, Worker

-----------------------------------------------------------------------------
(* The files.  Nobody removes one, so what was there when done was called  *)
(* is there when the name is looked at.                                    *)

InDirectory == {self} \union Others

\* A process in done has begun a run.
Ran == \A p \in InDirectory : pc[p] # "away" => run[p] # 0

FilesKept ==
    \A p \in InDirectory :
        /\ \A name \in before[p] : Directory!Exists(name)
        /\ pc[p] \in {"open", "write"} => n[p] \notin before[p]

LEMMA FilesAtFirst == Directory!Init => Directory!TypeOK /\ FilesKept /\ Ran
<1> SUFFICES ASSUME Directory!Init PROVE Directory!TypeOK /\ FilesKept /\ Ran
  OBVIOUS
<1>1. file \in [Directory!Names -> Directory!Contents]
  BY DEF Directory!Init, Directory!Names, Directory!Contents
<1> QED
  BY <1>1, PluginAssumption, LibraryAssumption
     DEF Directory!Init, Directory!TypeOK, Directory!Names, FilesKept, Ran, InDirectory

LEMMA DirectoryStep ==
    ASSUME LibraryNext, ~ UNCHANGED directoryVars
    PROVE  \E p \in InDirectory : Directory!Call(p) \/ Directory!done(p)
  BY DEF LibraryNext, CallDone, NameFile, ReturnFromDone, OtherClient, InDirectory, Directory!done

LEMMA FilesStep ==
    ASSUME Directory!TypeOK, FilesKept, Ran, NEW p \in InDirectory,
           Directory!Call(p) \/ Directory!done(p)
    PROVE  Directory!TypeOK' /\ FilesKept' /\ Ran'
<1> USE PluginAssumption, LibraryAssumption DEF Directory!TypeOK, InDirectory
<1>1. CASE Directory!Call(p)
  <2>1. Directory!TypeOK'
    BY <1>1 DEF Directory!Call, Directory!Names
  <2>2. FilesKept'
    BY <1>1 DEF Directory!Call, Directory!Exists, FilesKept
  <2>3. Ran'
    BY <1>1 DEF Directory!Call, Ran
  <2> QED
    BY <2>1, <2>2, <2>3
<1>2. CASE Directory!Look(p)
  <2>1. Directory!TypeOK'
    BY <1>2, SMTT(30) DEF Directory!Look, Directory!NextName, Directory!Names
  <2>2. FilesKept'
    BY <1>2 DEF Directory!Look, Directory!Taken, Directory!Exists, FilesKept
  <2>3. Ran'
    BY <1>2 DEF Directory!Look, Ran
  <2> QED
    BY <2>1, <2>2, <2>3
<1>3. CASE Directory!Open(p)
  <2>1. <<"empty">> \in Directory!Contents /\ <<"empty">> # <<"none">>
    BY DEF Directory!Contents
  <2>2. Directory!TypeOK'
    BY <1>3, <2>1 DEF Directory!Open
  <2>3. FilesKept'
    BY <1>3, <2>1 DEF Directory!Open, Directory!Exists, FilesKept
  <2>4. Ran'
    BY <1>3 DEF Directory!Open, Ran
  <2> QED
    BY <2>2, <2>3, <2>4
<1>4. CASE Directory!WriteResult(p)
  <2>1. file' \in [Directory!Names -> Directory!Contents]
    BY <1>4 DEF Directory!WriteResult, Directory!Contents, Ran
  <2>2. Directory!TypeOK'
    BY <1>4, <2>1 DEF Directory!WriteResult
  <2>3. <<p, run[p]>> # <<"none">>
    OBVIOUS
  <2>4. FilesKept'
    BY <1>4, <2>3 DEF Directory!WriteResult, Directory!Exists, FilesKept
  <2>5. Ran'
    BY <1>4 DEF Directory!WriteResult, Ran
  <2> QED
    BY <2>2, <2>4, <2>5
<1> QED
  BY <1>1, <1>2, <1>3, <1>4 DEF Directory!done

LEMMA DirectoryKept ==
    ASSUME Directory!TypeOK, FilesKept, Ran, [LibraryNext]_<<vars, directoryVars>>
    PROVE  Directory!TypeOK' /\ FilesKept' /\ Ran'
<1>1. CASE UNCHANGED directoryVars
  BY <1>1 DEF directoryVars, Directory!TypeOK, FilesKept, Ran, Directory!Exists
<1>2. CASE ~ UNCHANGED directoryVars
  <2>1. LibraryNext
    BY <1>2
  <2>2. PICK p \in InDirectory : Directory!Call(p) \/ Directory!done(p)
    BY <1>2, <2>1, DirectoryStep
  <2> QED
    BY <2>2, FilesStep
<1> QED
  BY <1>1, <1>2

\* Type correctness of the composition.
THEOREM LibraryTypeCorrect == LibrarySpec => []LibraryTypeOK
<1> DEFINE IInv == TypeOK /\ InRounds /\ Directory!TypeOK /\ FilesKept /\ Ran
<1>1. LibraryInit => IInv
  BY TypesAtFirst, FilesAtFirst DEF LibraryInit
<1>2. IInv /\ [LibraryNext]_<<vars, directoryVars>> => IInv'
  BY TypesStep, LibraryStep, DirectoryKept
<1>3. IInv => LibraryTypeOK
  BY DEF LibraryTypeOK
<1> QED
  BY <1>1, <1>2, <1>3, PTL DEF LibrarySpec

\* No file is written over that was there when done was called.
THEOREM EarlierAlwaysKept == LibrarySpec => []EarlierKept
<1> DEFINE IInv == Directory!TypeOK /\ FilesKept /\ Ran
<1>1. LibraryInit => IInv
  BY FilesAtFirst DEF LibraryInit
<1>2. IInv /\ [LibraryNext]_<<vars, directoryVars>> => IInv'
  BY DirectoryKept
<1>3. IInv => EarlierKept
  BY DEF FilesKept, InDirectory, EarlierKept, Directory!EarlierKept
<1> QED
  BY <1>1, <1>2, <1>3, PTL DEF LibrarySpec

-----------------------------------------------------------------------------
(* The theorems.                                                           *)

\* The arrays of the library are used and freed only while they are there,
\* and by one thread, until a run is paused.
THEOREM LibraryNeverBroken == LibrarySpec => []NeverBroken
<1>1. paused \/ Orderly => NeverBroken
  BY DEF Orderly, NeverBroken
<1> QED
  BY <1>1, AlwaysOrderly, LibraryImplementsPlugin, PTL

\* The point that done gets in the buffer of the last call of funmin is the
\* best chromosome.
THEOREM DoneAlwaysGetsBest == LibrarySpec => []DoneGetsBest
<1>1. paused \/ Orderly => DoneGetsBest
  BY DEF Orderly, DoneGetsBest
<1> QED
  BY <1>1, AlwaysOrderly, LibraryImplementsPlugin, PTL

\* The globals of the library hold the settings of the run, whatever earlier
\* runs and done have left in them.
THEOREM ParametersAlwaysOwn == LibrarySpec => []ParametersAreOfThisRun
<1>1. paused \/ Orderly => ParametersAreOfThisRun
  BY DEF Orderly, OwnParameters, ParametersAreOfThisRun
<1> QED
  BY <1>1, AlwaysOrderly, LibraryImplementsPlugin, PTL
=============================================================================
