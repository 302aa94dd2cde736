------------------------------ MODULE GaServer ------------------------------
(***************************************************************************)
(* OnePcServer: GaServer (the vector of clients), the GaThread slots and   *)
(* the slots of MainWindow that act on clients.  All of them run in the    *)
(* main thread: the loop exec() of each GaThread gets no events, since the *)
(* GaThread objects belong to the main thread.  An action is therefore the *)
(* handling of one message, or of one click, with every slot it calls.     *)
(***************************************************************************)
EXTENDS Network, FiniteSets, SequencesExt

CONSTANTS
    Runnable,   \* Runnable[p]: clients whose system has a library of problem p
    Script,     \* the commands of the script the user loads
    UserOps,    \* the controls the user touches
    MaxClicks,  \* bound on the clicks of the user
    MaxLoads    \* bound on the times a script is loaded

ASSUME RunnableAssumption == Runnable \in [Problems -> SUBSET Clients]

\* The commands that matter here.
Command == [cmd : {"PROBLEM"}, problem : Problems] \cup [cmd : {"RUN"}]

\* Like the scripts of the repository, it names a problem before it runs one.
ASSUME ScriptAssumption ==
    Script \in Seq(Command) /\ (Script # <<>> => Head(Script).cmd = "PROBLEM")

AllOps == {"RUN", "STATUS", "PAUSE", "TERMINATE", "QUIT", "ACTIVATE"}

ASSUME UserAssumption ==
    UserOps \subseteq AllOps /\ MaxClicks \in Nat /\ MaxLoads \in Nat

VARIABLES
    server,         \* "up", "crashed" or "exited"
    client,         \* GaServer::client, in the order of the vector
    entry,          \* entry[c]: what the server made of the connection of c
    clientStatus,   \* Client::status; "none" is the null string
    genomes,        \* the problem of the chromosomes c sent last
    totalStarted,   \* the global of mainwindow.cpp
    activeProblem,  \* MainWindow::activeProblem
    currentCommand, \* index in Script of the next command; 0: parser is NULL
    boxes,          \* message boxes that a RUN command waits on
    question,       \* <<>>, or the open "Terminate Client" question: the ipos
                    \* it keeps and the client its text names
    pauseText,      \* the text of the PAUSE button of c
    results,        \* results[c][p]: rows filed for c under problem p
    clicks, loads   \* the counters bounded by MaxClicks and MaxLoads

serverVars == <<server, client, entry, clientStatus, genomes, totalStarted,
                activeProblem, currentCommand, boxes, question, pauseText,
                results, clicks, loads>>

\* accepted: in the vector, its machine type unknown; known: in the vector;
\* zombie: removed, its socket still read; gone: removed and closed.
EntryState == {"none", "accepted", "known", "zombie", "gone"}

ServerTypeOK ==
    /\ server \in {"up", "crashed", "exited"}
    /\ client \in Seq(Clients)
    /\ entry \in [Clients -> EntryState]
    /\ clientStatus \in [Clients -> Status \cup {"none"}]
    /\ genomes \in [Clients -> MaybeProblem]
    /\ totalStarted \in Int
    /\ activeProblem \in MaybeProblem
    /\ currentCommand \in 0 .. Len(Script) + 1
    /\ boxes \in Nat
    /\ question \in Seq([ipos : Nat \ {0}, name : Clients]) /\ Len(question) <= 1
    /\ pauseText \in [Clients -> {"PAUSE", "RESUME"}]
    /\ results \in [Clients -> [MaybeProblem -> Nat]]
    /\ clicks \in 0 .. MaxClicks /\ loads \in 0 .. MaxLoads

ServerInit ==
    /\ server = "up"
    /\ client = <<>>
    /\ entry = [c \in Clients |-> "none"]
    /\ clientStatus = [c \in Clients |-> "none"]
    /\ genomes = [c \in Clients |-> NoProblem]
    /\ totalStarted = 0
    /\ activeProblem = NoProblem
    /\ currentCommand = 0
    /\ boxes = 0
    /\ question = <<>>
    /\ pauseText = [c \in Clients |-> "PAUSE"]
    /\ results = [c \in Clients |-> [p \in MaybeProblem |-> 0]]
    /\ clicks = 0 /\ loads = 0

InVector == ToSet(client)

-----------------------------------------------------------------------------
(* The run of a problem and the script.  Slots call each other here, so    *)
(* the part of the state they share is passed along as a record; sent[c]   *)
(* is what the slots have written to the socket of c so far.               *)

Desk == [active |-> activeProblem, pos |-> currentCommand,
         stat |-> clientStatus, started |-> totalStarted, boxes |-> boxes,
         sent |-> [c \in Clients |-> <<>>], stop |-> FALSE]

problemIsRunning(d) == \E c \in InVector : d.stat[c] = "RUN"

\* Mutant: without the look-up of the machine type.
StartableAnyType(p) == {c \in InVector : c \in Runnable[p]}

\* existsProblem: a client whose machine type is unknown matches no library.
Startable(p) == {c \in InVector : entry[c] = "known" /\ c \in Runnable[p]}

\* The clients S get the library of the active problem and count as running.
SendProgram(d, S) ==
    [d EXCEPT !.stat = [c \in Clients |-> IF c \in S THEN "RUN" ELSE @[c]],
              !.sent = [c \in Clients |->
                  IF c \in S THEN Append(@[c], [msg |-> "PROGRAM", problem |-> d.active])
                             ELSE @[c]]]

\* Mutants: totalStarted counts all clients; a second run is not refused.
totalRunSlotCountsAll(d) ==
    IF client = <<>> \/ d.active = NoProblem \/ problemIsRunning(d)
    THEN [d EXCEPT !.boxes = @ + 1, !.stop = TRUE]
    ELSE LET S == Startable(d.active)
         IN  [SendProgram(d, S) EXCEPT !.started = Len(client)]

totalRunSlotUnguarded(d) ==
    IF client = <<>> \/ d.active = NoProblem
    THEN [d EXCEPT !.boxes = @ + 1, !.stop = TRUE]
    ELSE LET S == Startable(d.active)
         IN  [SendProgram(d, S) EXCEPT !.started = Cardinality(S)]

\* A refusal is a modal box; the caller goes on when the user closes it.
totalRunSlot(d) ==
    IF client = <<>> \/ d.active = NoProblem \/ problemIsRunning(d)
    THEN [d EXCEPT !.boxes = @ + 1, !.stop = TRUE]
    ELSE LET S == Startable(d.active)
         IN  [SendProgram(d, S) EXCEPT !.started = Cardinality(S)]

\* A RUN command while a problem runs is undone and ends the loop.
executeCommand(d, command) ==
    IF d.stop THEN d
    ELSE IF command.cmd = "PROBLEM"
    THEN [d EXCEPT !.active = command.problem, !.pos = @ + 1]
    ELSE IF problemIsRunning(d)
    THEN [d EXCEPT !.stop = TRUE]
    ELSE [totalRunSlot(d) EXCEPT !.pos = @ + 1]

\* after[k]: the record after k turns of the loop.
runParserCommands(d) ==
    IF d.pos = 0 THEN d
    ELSE LET turns == Len(Script) + 1 - d.pos
             after[k \in 0 .. turns] ==
                 IF k = 0 THEN d ELSE executeCommand(after[k - 1], Script[d.pos + k - 1])
         IN  [after[turns] EXCEPT !.stop = FALSE]

\* The state after a handler that ended with the record d.
Settle(d) ==
    /\ activeProblem' = d.active
    /\ currentCommand' = d.pos
    /\ clientStatus' = d.stat
    /\ totalStarted' = d.started
    /\ boxes' = d.boxes
    /\ down' = [c \in Clients |->
                   IF link[c] = "open" THEN down[c] \o d.sent[c] ELSE down[c]]

desk == <<activeProblem, currentCommand, clientStatus, totalStarted, boxes>>

-----------------------------------------------------------------------------
(* Connections and messages of the clients.                                *)

\* The end of the process closes its sockets.
CloseAll == link' = [c \in Clients |-> IF link[c] = "open" THEN "closed" ELSE link[c]]

Crash == server' = "crashed" /\ CloseAll

\* incomingConnection and newClientSlot.
Accept(c) ==
    /\ server = "up" /\ link[c] # "none" /\ entry[c] = "none"
    /\ entry' = [entry EXCEPT ![c] = "accepted"]
    /\ client' = Append(client, c)
    /\ UNCHANGED <<server, genomes, question, pauseText, results, clicks, loads,
                   desk, netVars>>

\* readDataSlot takes the oldest message of c.
Take(c, kind) ==
    /\ server = "up" /\ entry[c] \in {"accepted", "known", "zombie"}
    /\ up[c] # <<>> /\ Head(up[c]).msg = kind
    /\ up' = [up EXCEPT ![c] = Tail(@)]

SendDown(c, m) == down' = Sent(down, c, m)

TakeConnect(c) ==
    /\ Take(c, "CONNECT")
    /\ entry' = [entry EXCEPT ![c] = IF @ = "accepted" THEN "known" ELSE @]
    /\ SendDown(c, [msg |-> "CODE"])
    /\ UNCHANGED <<server, client, genomes, question, pauseText, results, clicks,
                   loads, desk, arrived, link>>

\* The index of a client that is in the vector.
Position(c) == CHOOSE i \in DOMAIN client : client[i] = c

\* GaServer::removeClient
removeClient(c) ==
    client' = IF c \in InVector THEN RemoveAt(client, Position(c)) ELSE client

\* Mutant: the socket is not closed and goes on being read.
TakeDeleteKeepsReading(c) ==
    /\ Take(c, "DELETE")
    /\ removeClient(c)
    /\ entry' = [entry EXCEPT ![c] = "zombie"]
    /\ UNCHANGED <<server, genomes, question, pauseText, results, clicks, loads,
                   desk, down, arrived, link>>

\* CLIENTDELETE: what follows it in the socket is never read.
TakeDelete(c) ==
    /\ server = "up" /\ entry[c] \in {"accepted", "known", "zombie"}
    /\ up[c] # <<>> /\ Head(up[c]).msg = "DELETE"
    /\ removeClient(c)
    /\ entry' = [entry EXCEPT ![c] = "gone"]
    /\ link' = [link EXCEPT ![c] = "closed"]
    /\ up' = [up EXCEPT ![c] = <<>>]
    /\ UNCHANGED <<server, genomes, question, pauseText, results, clicks, loads,
                   desk, down, arrived>>

\* Rows are filed under the problem that is active when the message comes.
FileResult(c) ==
    results' = [results EXCEPT ![c][activeProblem] = @ + 1]

\* Mutant: totalStarted is tested before it is decremented.
StatusEffectTestsFirst(c, s) ==
    LET d0 == [Desk EXCEPT !.stat[c] = s,
                           !.started = IF s = "FINISH" THEN @ - 1 ELSE @]
        d1 == IF totalStarted = 0 THEN runParserCommands(d0) ELSE d0
    IN  IF s = "FINISH" /\ \A e \in InVector : d1.stat[e] = "FINISH"
        THEN runParserCommands(d1)
        ELSE d1

\* statusClientSlot: allClientsTerminated is emitted up to two times, and
\* runParserCommands is called by each.
StatusEffect(c, s) ==
    LET d0 == [Desk EXCEPT !.stat[c] = s,
                           !.started = IF s = "FINISH" THEN @ - 1 ELSE @]
        d1 == IF d0.started = 0 THEN runParserCommands(d0) ELSE d0
    IN  IF s = "FINISH" /\ \A e \in InVector : d1.stat[e] = "FINISH"
        THEN runParserCommands(d1)
        ELSE d1

TakeStatus(c) ==
    /\ Take(c, "STATUS")
    /\ IF c \in InVector
       THEN /\ Settle(StatusEffect(c, Head(up[c]).status))
            /\ IF Head(up[c]).status = "FINISH"
               THEN FileResult(c)
               ELSE UNCHANGED results
       ELSE UNCHANGED <<desk, down, results>>
    /\ UNCHANGED <<server, client, entry, genomes, question, pauseText, clicks,
                   loads, arrived, link>>

\* Mutant: chromosomes are passed on as they come, without a request.
TakeGenomesPushes(c) ==
    /\ Take(c, "SENDGENOMES")
    /\ genomes' = [genomes EXCEPT ![c] = Head(up[c]).problem]
    /\ down' = [e \in Clients |->
                   IF e \in InVector /\ clientStatus[e] = "RUN" /\ link[e] = "open"
                   THEN Append(down[e], [msg |-> "GENOMES", array |-> {Head(up[c]).problem}])
                   ELSE down[e]]
    /\ UNCHANGED <<server, client, entry, question, pauseText, results, clicks,
                   loads, desk, arrived, link>>

\* getGenomesSlot
TakeGenomes(c) ==
    /\ Take(c, "SENDGENOMES")
    /\ genomes' = IF c \in InVector
                  THEN [genomes EXCEPT ![c] = Head(up[c]).problem]
                  ELSE genomes
    /\ UNCHANGED <<server, client, entry, question, pauseText, results, clicks,
                   loads, desk, down, arrived, link>>

\* clientRequestGenomesSlot: the chromosomes of the other running clients.
\* For a client that was removed ipos is -1, and client[-1] is a bad pointer.
OtherGenomes(c) ==
    {genomes[e] : e \in {e \in InVector \ {c} : clientStatus[e] = "RUN"}}
    \ {NoProblem}

TakeAsk(c) ==
    /\ Take(c, "ASKGENOMES")
    /\ IF c \in InVector
       THEN /\ SendDown(c, [msg |-> "GENOMES", array |-> OtherGenomes(c)])
            /\ UNCHANGED <<server, link>>
       ELSE Crash /\ UNCHANGED down
    /\ UNCHANGED <<client, entry, genomes, question, pauseText, results, clicks,
                   loads, desk, arrived>>

ReadDataSlot(c) ==
    \/ TakeConnect(c) \/ TakeDelete(c) \/ TakeStatus(c)
    \/ TakeGenomes(c) \/ TakeAsk(c)

\* terminate() of the GaThread has made it finish: deleteLater ends the
\* connection of readyRead to readDataSlot.
ThreadDeleted(c) ==
    /\ server = "up" /\ entry[c] = "zombie"
    /\ entry' = [entry EXCEPT ![c] = "gone"]
    /\ UNCHANGED <<server, client, genomes, question, pauseText, results, clicks,
                   loads, desk, netVars>>

-----------------------------------------------------------------------------
(* The user.  While a box or a question is open the window takes no click, *)
(* but messages are handled.                                               *)

Idle == server = "up" /\ boxes = 0 /\ question = <<>>

Click(op) ==
    /\ op \in UserOps /\ Idle /\ clicks < MaxClicks
    /\ clicks' = clicks + 1

LoadScript ==
    /\ Idle /\ loads < MaxLoads
    /\ loads' = loads + 1
    /\ Settle(runParserCommands([Desk EXCEPT !.pos = 1]))
    /\ UNCHANGED <<server, client, entry, genomes, question, pauseText, results,
                   clicks, up, arrived, link>>

\* The user closes the box of a refused RUN command: the loop goes on.
CloseBox ==
    /\ server = "up" /\ boxes > 0
    /\ Settle(runParserCommands([Desk EXCEPT !.boxes = @ - 1]))
    /\ UNCHANGED <<server, client, entry, genomes, question, pauseText, results,
                   clicks, loads, up, arrived, link>>

\* The box of a RUN button that is refused has nothing after it.
ClickRun ==
    /\ Click("RUN")
    /\ Settle([totalRunSlot(Desk) EXCEPT !.boxes = boxes])
    /\ UNCHANGED <<server, client, entry, genomes, question, pauseText, results,
                   loads, up, arrived, link>>

\* activeProblemSlot, for the problem checked in the table.
ClickActivate(p) ==
    /\ Click("ACTIVATE")
    /\ activeProblem' = p
    /\ UNCHANGED <<server, client, entry, currentCommand, clientStatus,
                   totalStarted, boxes, genomes, question, pauseText, results,
                   loads, netVars>>

\* totalStatusSlot
ClickTotalStatus ==
    /\ Click("STATUS")
    /\ down' = [c \in Clients |-> IF c \in InVector /\ link[c] = "open"
                                  THEN Append(down[c], [msg |-> "ASKSTATUS"])
                                  ELSE down[c]]
    /\ UNCHANGED <<server, client, entry, genomes, question, pauseText, results,
                   loads, desk, up, arrived, link>>

\* statusSlot
ClickStatus(c) ==
    /\ Click("STATUS") /\ c \in InVector
    /\ SendDown(c, [msg |-> "ASKSTATUS"])
    /\ UNCHANGED <<server, client, entry, genomes, question, pauseText, results,
                   loads, desk, up, arrived, link>>

\* pauseSlot
ClickPause(c) ==
    /\ Click("PAUSE") /\ c \in InVector
    /\ SendDown(c, [msg |-> pauseText[c]])
    /\ pauseText' = [pauseText EXCEPT ![c] = IF @ = "PAUSE" THEN "RESUME" ELSE "PAUSE"]
    /\ UNCHANGED <<server, client, entry, genomes, question, results, loads, desk,
                   up, arrived, link>>

\* terminateSlot up to its question: the index is taken here ...
ClickTerminate(c) ==
    /\ Click("TERMINATE") /\ c \in InVector
    /\ question' = <<[ipos |-> Position(c), name |-> c]>>
    /\ UNCHANGED <<server, client, entry, genomes, pauseText, results, loads,
                   desk, netVars>>

AnswerNo ==
    /\ server = "up" /\ question # <<>>
    /\ question' = <<>>
    /\ UNCHANGED <<server, client, entry, genomes, pauseText, results, clicks,
                   loads, desk, netVars>>

\* ... and used when the user answers, whoever is at that index by then.
\* The socket of the client stays open on this side.
AnswerYes ==
    /\ server = "up" /\ question # <<>>
    /\ question[1].ipos <= Len(client)
    /\ question' = <<>>
    /\ LET c == client[question[1].ipos]
       IN  /\ SendDown(c, [msg |-> "TERMINATE"])
           /\ removeClient(c)
           /\ entry' = [entry EXCEPT ![c] = "zombie"]
    /\ UNCHANGED <<server, genomes, pauseText, results, clicks, loads, desk, up,
                   arrived, link>>

\* Nobody is: a pointer behind the end of the vector.  It is the one that was
\* removed last (nothing happens to it) or garbage.
AnswerYesOutOfRange ==
    /\ server = "up" /\ question # <<>>
    /\ question[1].ipos > Len(client)
    /\ question' = <<>>
    /\ (UNCHANGED <<server, link>>) \/ Crash
    /\ UNCHANGED <<client, entry, genomes, pauseText, results, clicks, loads,
                   desk, down, arrived, up>>

\* terminateServerSlot: removing while counting up skips every second client.
ClickQuit ==
    LET reached == {client[i] : i \in {i \in DOMAIN client : i % 2 = 1}}
    IN  /\ Click("QUIT")
        /\ server' = "exited"
        /\ client' = [i \in 1 .. Len(client) \div 2 |-> client[2 * i]]
        /\ entry' = [c \in Clients |-> IF c \in reached THEN "gone" ELSE entry[c]]
        /\ down' = [c \in Clients |-> IF c \in reached /\ link[c] = "open"
                                      THEN Append(down[c], [msg |-> "TERMINATE"])
                                      ELSE down[c]]
        /\ CloseAll
        /\ UNCHANGED <<genomes, question, pauseText, results, loads, desk, up, arrived>>

User ==
    \/ LoadScript \/ CloseBox
    \/ ClickRun \/ ClickTotalStatus \/ ClickQuit
    \/ \E p \in Problems : ClickActivate(p)
    \/ \E c \in Clients : ClickStatus(c) \/ ClickPause(c) \/ ClickTerminate(c)
    \/ AnswerNo \/ AnswerYes \/ AnswerYesOutOfRange
=============================================================================
