------------------------------- MODULE OnePC -------------------------------
(***************************************************************************)
(* The whole system: OnePcServer and the OnePcClient processes, joined by  *)
(* their connections.                                                      *)
(***************************************************************************)
EXTENDS GaClient, GaServer

CONSTANT Departures   \* how a client may leave: "close", "disconnect", "kill"

vars == <<clientVars, serverVars, netVars>>

Init == NetInit /\ ClientInit /\ ServerInit

ClientAct(c) ==
    /\ \/ Connect(c)
       \/ ClientStep(c)
       \/ "close" \in Departures /\ Leave(c, TRUE)
       \/ "disconnect" \in Departures /\ Leave(c, FALSE)
       \/ "kill" \in Departures /\ Kill(c)
    /\ UNCHANGED serverVars

ServerAct(c) ==
    /\ Accept(c) \/ ReadDataSlot(c) \/ ThreadDeleted(c)
    /\ UNCHANGED clientVars

UserAct == User /\ UNCHANGED clientVars

Next == UserAct \/ \E c \in Clients : ClientAct(c) \/ ServerAct(c)

Spec == Init /\ [][Next]_vars

\* Event loops handle what they are given, TCP delivers while a connection is
\* open, and the scheduler runs every thread.  Of the user only this is
\* assumed: the clients are started, and a box is closed at some time.
ClientFairness(c) ==
    /\ WF_vars(Connect(c) /\ UNCHANGED serverVars)
    /\ WF_vars(ReadData(c) /\ UNCHANGED serverVars)
    /\ WF_vars(HandleSignal(c) /\ UNCHANGED serverVars)
    /\ WF_vars(Unblock(c) /\ UNCHANGED serverVars)
    /\ WF_vars(Worker(c) /\ UNCHANGED serverVars)

ServerFairness(c) ==
    /\ WF_vars(Accept(c) /\ UNCHANGED clientVars)
    /\ WF_vars(ReadDataSlot(c) /\ UNCHANGED clientVars)

Fairness ==
    /\ \A c \in Clients : ClientFairness(c) /\ ServerFairness(c)
    /\ WF_vars(CloseBox /\ UNCHANGED clientVars)

FairSpec == Spec /\ Fairness

-----------------------------------------------------------------------------
(* Safety.                                                                 *)

\* Types: the state of the connections, of the clients and of the server; the
\* script of runParserCommands never points more than one behind its end.
TypeOK == NetTypeOK /\ ClientTypeOK /\ ServerTypeOK

\* The server is still to read that c finished (what is behind CLIENTDELETE
\* is not read).
Finishing(c) ==
    \E i \in DOMAIN up[c] :
        /\ up[c][i].msg = "STATUS" /\ up[c][i].status = "FINISH"
        /\ \A j \in 1 .. i : up[c][j].msg # "DELETE"

Gone(c) == proc[c] \in {"exited", "aborted", "killed"}

\* The clients that the experimenter can expect nothing new of.
Lost == {c \in Clients : Gone(c) \/ link[c] = "closed" \/ Has(up[c], "DELETE")}

\* The view of an experimenter: a client works from the moment the library is
\* sent until the server files its result.  What the server believes
\* (clientStatus, totalStarted) plays no part in this view.
Working ==
    {c \in Clients : Finishing(c)}
    \cup {c \in Clients \ Lost : Has(down[c], "PROGRAM") \/ status[c] = "RUN"}

Rounds == INSTANCE Experiment WITH
             Subjects <- MaybeProblem,
             working <- Working,
             lost <- Lost,
             filed <- results

\* A script runs its rounds one after the other, and each client files one
\* result per round: the counters of the server, two places that advance the
\* script and the queues in between implement Experiment.
RoundsAreSequential == Rounds!Spec

\* totalStarted, which advances the script at 0, is the number of clients the
\* server believes to be running; only clients that were removed in a round
\* may still be counted.  With less a script would advance too early, with
\* more never.
TotalStartedCounts ==
    LET believed == Cardinality({c \in InVector : clientStatus[c] = "RUN"})
    IN  /\ totalStarted >= believed
        /\ (\A c \in Clients : entry[c] \notin {"zombie", "gone"}) => totalStarted = believed

\* callDone unloads what the objective function needs: once it was called,
\* the worker of that problem evaluates nothing any more.
DoneIsLast ==
    \A c \in Clients :
        calledDone[c] /\ ~ Gone(c) => thread[c] \in {"returning", "finished"}

\* The library is stored as "experiment" + socketId + ".so"; four clients of a
\* host share a directory.  No client stores one before it has its socketId.
LibraryHasItsOwnName ==
    \A c \in Clients : thread[c] # "none" => socketId[c]

\* clientRequestGenomesSlot indexes the vector with -1 for a client that is no
\* longer in it.  However clients come and leave by themselves, no request of a
\* removed client is handled (after TERMINATE of the user one may be).
ServerSurvives == server # "crashed"

-----------------------------------------------------------------------------
(* Liveness.                                                               *)

\* A message stays in the buffer of a client although no signal announces it.
Unannounced(c) == arrived[c] > 0

ScriptRunning == currentCommand \in 1 .. Len(Script)
ScriptDone == currentCommand = Len(Script) + 1 /\ Working = {}

\* If messages never coalesce in a client's buffer and no client dies, every
\* script that is loaded comes to its end, with all results filed.
ScriptCompletes ==
    [](\A c \in Clients : ~ Unannounced(c) /\ ~ Gone(c))
        => (ScriptRunning ~> ScriptDone)

-----------------------------------------------------------------------------
(* What the texts of the repository say and the code does not do.          *)

\* The Island technique: chromosomes of other islands that the server sends
\* reach the population of the client that asked for them.
MigrantsArrive ==
    [][\A c \in Clients :
          (ReadData(c) /\ thread[c] = "spin" /\ Head(down[c]).msg = "GENOMES")
              => parallelGenome'[c] = Head(down[c]).array]_vars

-----------------------------------------------------------------------------
\* The clients of this system are those of ClientSystem.
AnyServer == INSTANCE ClientSystem WITH
    Controls <- {"CODE", "PROGRAM", "ASKSTATUS", "TERMINATE", "PAUSE", "RESUME"},
    DownLengths <- Nat, Backlogs <- Nat

\* What was shown of clients next to any server holds of this one.
ClientsAreThoseOfClientSystem == AnyServer!Spec
=============================================================================
