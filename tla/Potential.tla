----------------------------- MODULE Potential -----------------------------
(***************************************************************************)
(* How done of the library potential writes its result: to "outputfile"    *)
(* or, if there is such a file, to the first free one of "outputfile-1",   *)
(* "outputfile-2", ...  The name is looked for and the file opened in      *)
(* separate steps, and the clients that batch_run.sh starts share one      *)
(* directory.  Each run loads the library afresh, with the first name.     *)
(* Two clients that find the same name free write over each other.         *)
(***************************************************************************)
EXTENDS Integers

CONSTANTS
    Processes,  \* clients in the directory
    MaxRuns,    \* bound on the runs of each
    MaxName     \* bound on the number of a file

\* 0 is "outputfile", n is "outputfile-n".
Names == 0 .. MaxName

VARIABLES
    file,       \* the directory: "none", "earlier", "empty", or a result
    pc,         \* of each process
    n,          \* the name it looks at, then the one it has chosen
    run,        \* its runs so far: the result is <<process, run>>
    before      \* history: the files there were when done was called

vars == <<file, pc, n, run, before>>

Contents == {<<"none">>, <<"earlier">>, <<"empty">>} \union (Processes \X (1 .. MaxRuns))

\* Types.
TypeOK ==
    /\ file \in [Names -> Contents]
    /\ pc \in [Processes -> {"away", "look", "open", "write"}]
    /\ n \in [Processes -> Names]
    /\ run \in [Processes -> 0 .. MaxRuns]
    /\ before \in [Processes -> SUBSET Names]

Exists(name) == file[name] # <<"none">>

\* Some files of an earlier use of the directory.
Init ==
    /\ \E S \in SUBSET (0 .. 1) :
          file = [name \in Names |-> IF name \in S THEN <<"earlier">> ELSE <<"none">>]
    /\ pc = [p \in Processes |-> "away"] /\ n = [p \in Processes |-> 0]
    /\ run = [p \in Processes |-> 0] /\ before = [p \in Processes |-> {}]

\* A run has ended, done is called.
Call(p) ==
    /\ pc[p] = "away" /\ run[p] < MaxRuns
    /\ run' = [run EXCEPT ![p] = @ + 1]
    /\ before' = [before EXCEPT ![p] = {name \in Names : Exists(name)}]
    /\ n' = [n EXCEPT ![p] = 0] /\ pc' = [pc EXCEPT ![p] = "look"]
    /\ UNCHANGED file

\* Mutants: the first name after "outputfile" is taken as it is; n stays; n
\* is counted up twice.
TakenFirst(name) == name = 0 /\ Exists(name)
NextAgain(name) == IF name = 0 THEN 1 ELSE name

Taken(name) == Exists(name)
NextName(name) == name + 1

Look(p) ==
    /\ pc[p] = "look"
    /\ IF Taken(n[p]) THEN /\ n[p] < MaxName /\ n' = [n EXCEPT ![p] = NextName(@)]
                           /\ UNCHANGED pc
                      ELSE pc' = [pc EXCEPT ![p] = "open"] /\ UNCHANGED n
    /\ UNCHANGED <<file, run, before>>

\* fopen for writing empties a file that is there.
Open(p) ==
    /\ pc[p] = "open"
    /\ file' = [file EXCEPT ![n[p]] = <<"empty">>]
    /\ pc' = [pc EXCEPT ![p] = "write"]
    /\ UNCHANGED <<n, run, before>>

\* Up to fclose.  Two processes write over each other.
WriteResult(p) ==
    /\ pc[p] = "write"
    /\ file' = [file EXCEPT ![n[p]] = <<p, run[p]>>]
    /\ pc' = [pc EXCEPT ![p] = "away"] /\ before' = [before EXCEPT ![p] = {}]
    /\ UNCHANGED <<n, run>>

done(p) == Look(p) \/ Open(p) \/ WriteResult(p)

Next == \E p \in Processes : Call(p) \/ done(p)

Spec == Init /\ [][Next]_vars

\* Each process runs on.
FairSpec == Spec /\ \A p \in Processes : WF_vars(done(p))

-----------------------------------------------------------------------------
(* Properties.                                                             *)

\* No file is written over that was there when done was called, whoever
\* wrote it.
EarlierKept == \A p \in Processes : pc[p] \in {"open", "write"} => n[p] \notin before[p]

\* The loop without a condition ends, although others take the free names.
DoneReturns == \A p \in Processes : pc[p] = "look" ~> pc[p] = "away"
=============================================================================
