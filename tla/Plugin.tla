------------------------------- MODULE Plugin -------------------------------
(***************************************************************************)
(* The library of a problem in a client, from one RUN to the next: its     *)
(* parameters and arrays are globals of the library, init allocates, done  *)
(* minimises once more from tempx, the buffer of MyProblem, writes the     *)
(* result and frees.  The client never asks whether done was called.       *)
(* ParallelNeural and potential keep to this pattern; potential changes a  *)
(* parameter, the name of its file, in done.                               *)
(*                                                                         *)
(* Points are kept apart by where they come from: the right margin, any    *)
(* chromosome, or the best one.  The server sends RUN to a client that it  *)
(* does not believe to run, and PAUSE and RESUME when its user likes.      *)
(* After an undefined use of an array nothing more is said.                *)
(***************************************************************************)
EXTENDS Integers

CONSTANTS
    Parameters,     \* names of the parameters of the problem
    Values,         \* their values
    Default(_),     \* what a global is initialised with
    Controls,       \* those of "PAUSE" and "RESUME" that are used
    Generations,    \* of each run
    MaxRuns,        \* bound on the runs
    MaxQueue        \* bound: PAUSE comes while no more signals wait

Settings == UNION {[S -> Values] : S \in SUBSET Parameters}

ASSUME PluginAssumption ==
    /\ \A n \in Parameters : Default(n) \in Values
    /\ Controls \subseteq {"PAUSE", "RESUME"}
    /\ Generations \in Nat \ {0} /\ MaxRuns \in Nat /\ MaxQueue \in Nat

VARIABLES
    parameter,      \* globals of the library
    arrays,         \* its xdata and ydata, or xx, yy and zz
    tempx,          \* of MyProblem: the point it holds
    settings,       \* the JSON object that came with RUN
    thread,         \* "none", "loop", "tail" or "finished"
    generation,
    stopflag,
    completed,      \* signals completed that wait in the queue
    status,
    reported,       \* what the server knows of it
    waiting,        \* the main thread is in pauseExecution
    given,          \* history: the point that done got last
    broken,         \* history: an array was used or freed when it was not
                    \* allocated, or by two threads
    paused,         \* history: PAUSE was obeyed
    runs            \* bounded by MaxRuns

library == <<parameter, arrays>>
client == <<settings, status, reported, waiting, given, paused, runs>>
worker == <<thread, generation>>

vars == <<library, tempx, client, worker, stopflag, completed, broken>>

Points == {"none", "margin", "any", "best"}

\* Types.
TypeOK ==
    /\ parameter \in [Parameters -> Values]
    /\ arrays \in {"none", "allocated", "freed"}
    /\ tempx \in Points /\ given \in Points
    /\ settings \in Settings
    /\ thread \in {"none", "loop", "tail", "finished"}
    /\ generation \in 0 .. Generations + 1 /\ stopflag \in BOOLEAN
    /\ completed \in Nat
    /\ status \in {"START", "RUN", "PAUSE", "FINISH"}
    /\ reported \in {"START", "RUN", "PAUSE", "FINISH"}
    /\ waiting \in BOOLEAN /\ broken \in BOOLEAN /\ paused \in BOOLEAN /\ runs \in 0 .. MaxRuns

Init ==
    /\ parameter = [n \in Parameters |-> Default(n)] /\ arrays = "none"
    /\ tempx = "none" /\ settings = [n \in {} |-> 0]
    /\ thread = "none" /\ generation = 0 /\ stopflag = FALSE
    /\ completed = 0 /\ status = "START" /\ reported = "START" /\ waiting = FALSE
    /\ given = "none" /\ broken = FALSE /\ paused = FALSE /\ runs = 0

-----------------------------------------------------------------------------
(* The main thread.                                                        *)

\* Mutant: the library stays loaded and keeps its globals.
StaysLoaded == parameter

\* unload, and load of a file with the same name.
Reloaded == [n \in Parameters |-> Default(n)]

\* init takes the parameters that it finds and leaves the others.
Parse(s, globals) == [n \in Parameters |-> IF n \in DOMAIN s THEN s[n] ELSE globals[n]]

\* Mutant: allocated only once.
AllocateOnce == IF arrays = "none" THEN "allocated" ELSE arrays

Allocate == "allocated"

Running == thread \in {"loop", "tail"}

\* runProblem: the library is loaded and initialised, the margins are read
\* into tempx, and the new population evaluates its chromosomes.
RunProblem(s) ==
    /\ ~ waiting /\ reported # "RUN" /\ ~ Running /\ runs < MaxRuns
    /\ runs' = runs + 1
    /\ settings' = s /\ parameter' = Parse(s, Reloaded)
    /\ arrays' = Allocate
    /\ broken' = (broken \/ arrays' # "allocated")
    /\ tempx' = "any"
    /\ thread' = "loop" /\ generation' = 0 /\ stopflag' = FALSE
    /\ status' = "RUN" /\ reported' = "RUN"
    /\ UNCHANGED <<completed, waiting, given, paused>>

\* pauseExecution: the end of run() is waited for.
Pause ==
    /\ "PAUSE" \in Controls /\ completed <= MaxQueue
    /\ ~ waiting /\ thread # "none" /\ ~ stopflag
    /\ stopflag' = TRUE /\ paused' = TRUE
    /\ waiting' = Running /\ status' = IF Running THEN status ELSE "PAUSE"
    /\ UNCHANGED <<library, tempx, settings, reported, given, runs,
                   worker, completed, broken>>

Unblock ==
    /\ waiting /\ ~ Running
    /\ waiting' = FALSE /\ status' = "PAUSE"
    /\ UNCHANGED <<library, tempx, settings, reported, given, paused, runs,
                   worker, stopflag, completed, broken>>

\* resumeExecution starts the thread again.
Resume ==
    /\ "RESUME" \in Controls /\ ~ waiting /\ stopflag
    /\ stopflag' = FALSE /\ status' = "RUN"
    /\ thread' = IF Running THEN thread
                 ELSE IF generation <= Generations THEN "loop" ELSE "tail"
    /\ UNCHANGED <<library, tempx, settings, reported, waiting, given, paused,
                   runs, generation, completed, broken>>

Ended == ~ waiting /\ completed > 0

\* endThread and callDone: done gets what the last evaluation left in tempx.
\* It may change a parameter.
EndThread ==
    /\ Ended
    /\ completed' = completed - 1 /\ status' = "FINISH" /\ reported' = "FINISH"
    /\ given' = tempx
    /\ broken' = (broken \/ arrays # "allocated" \/ Running)
    /\ arrays' = "freed"
    /\ tempx' = "any"
    /\ \/ UNCHANGED parameter
       \/ \E n \in Parameters, v \in Values : parameter' = [parameter EXCEPT ![n] = v]
    /\ UNCHANGED <<settings, waiting, paused, runs, worker, stopflag>>

\* sendStatus, for a new minimum or because the server asks.
Report ==
    /\ ~ waiting /\ thread # "none"
    /\ reported' = status
    /\ UNCHANGED <<library, tempx, settings, status, waiting, given, paused, runs,
                   worker, stopflag, completed, broken>>

-----------------------------------------------------------------------------
(* The worker.                                                             *)

\* funmin copies the point into tempx and calls the library.
Evaluate(point) ==
    /\ tempx' = point
    /\ broken' = (broken \/ arrays # "allocated")

LastRound == generation = Generations

Evolve ==
    /\ thread = "loop" /\ ~ stopflag
    /\ Evaluate("any")
    /\ generation' = generation + 1
    /\ thread' \in IF LastRound THEN {"tail"} ELSE {"loop", "tail"}
    /\ UNCHANGED <<library, client, stopflag, completed>>

Stop ==
    /\ thread = "loop" /\ stopflag
    /\ thread' = "tail"
    /\ UNCHANGED <<library, tempx, client, generation, stopflag, completed, broken>>

\* Mutant: the best chromosome is not evaluated again.
CompleteOnly ==
    /\ thread = "tail"
    /\ thread' = "finished" /\ completed' = completed + 1
    /\ UNCHANGED <<library, tempx, broken, client, generation, stopflag>>

\* evaluateBestGenome, whose value nobody uses, and completed.
Complete ==
    /\ thread = "tail"
    /\ Evaluate("best")
    /\ thread' = "finished" /\ completed' = completed + 1
    /\ UNCHANGED <<library, client, generation, stopflag>>

Main ==
    /\ ~ broken
    /\ (\E s \in Settings : RunProblem(s)) \/ Pause \/ Unblock \/ Resume \/ Report

Worker == ~ broken /\ (Evolve \/ Stop \/ Complete)

Next == Main \/ Worker \/ EndThread

Spec == Init /\ [][Next]_vars

-----------------------------------------------------------------------------
(* Properties.                                                             *)

\* Every function of the library finds its arrays allocated, done included,
\* and done never runs next to the worker, as long as no run was paused.
NeverBroken == broken => paused

\* The point that done refines and writes down is the best chromosome, which
\* it knows only by the last call of funmin.
DoneGetsBest == ~ paused => given \in {"none", "best"}

\* No parameter of an earlier run is left in the library, nor what done made of
\* it: while the worker evaluates each has the value of this run's settings or
\* else its default.
ParametersAreOfThisRun ==
    Running /\ ~ paused =>
        \A n \in Parameters :
            parameter[n] = IF n \in DOMAIN settings THEN settings[n] ELSE Default(n)
=============================================================================
