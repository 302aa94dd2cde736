------------------------------ MODULE Library ------------------------------
(***************************************************************************)
(* A client with the library potential next to others in one directory:    *)
(* its main thread is in done, which Potential describes, between the      *)
(* signal completed and FINISH, and leaves RUN, PAUSE and RESUME waiting.  *)
(* Of the other clients only their calls of done matter.                   *)
(***************************************************************************)
EXTENDS Plugin

CONSTANTS
    self,       \* this client
    Others,     \* the other clients in the directory
    MaxName     \* bound on the number of a file

ASSUME LibraryAssumption == self \notin Others /\ MaxName \in Nat

VARIABLES file, pc, n, run, before

Directory == INSTANCE Potential WITH Processes <- {self} \union Others

directoryVars == <<file, pc, n, run, before>>

LibraryInit == Init /\ Directory!Init

CallDone == ~ broken /\ Ended /\ Directory!Call(self) /\ UNCHANGED vars

NameFile == (Directory!Look(self) \/ Directory!Open(self)) /\ UNCHANGED vars

\* done returns and FINISH is sent.
ReturnFromDone == Directory!WriteResult(self) /\ EndThread

OtherClient ==
    \E p \in Others :
        ((~ broken /\ Directory!Call(p)) \/ Directory!done(p)) /\ UNCHANGED vars

LibraryNext ==
    \/ pc[self] = "away" /\ Main /\ UNCHANGED directoryVars
    \/ Worker /\ UNCHANGED directoryVars
    \/ CallDone \/ NameFile \/ ReturnFromDone \/ OtherClient

LibrarySpec == LibraryInit /\ [][LibraryNext]_<<vars, directoryVars>>

\* Each process runs on while it is in done.
FairSpec ==
    /\ LibrarySpec
    /\ WF_<<vars, directoryVars>>(NameFile \/ ReturnFromDone)
    /\ \A p \in Others : WF_<<vars, directoryVars>>(Directory!done(p) /\ UNCHANGED vars)

-----------------------------------------------------------------------------
(* Properties.                                                             *)

\* Types.
LibraryTypeOK == TypeOK /\ Directory!TypeOK

\* No file is written over that was there when done was called, whichever
\* client wrote it.
EarlierKept == Directory!EarlierKept

\* The search for a free name, a loop without a condition, ends, although the
\* others take free names too.
DoneReturns == Directory!DoneReturns
=============================================================================
