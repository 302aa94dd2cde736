------------------------------ MODULE GaClient ------------------------------
(***************************************************************************)
(* One island: ClientProtocol, which lives in the Qt main thread of        *)
(* OnePcClient, and MyThread, the worker that runs the genetic algorithm.  *)
(* The main thread handles one socket signal or one queued signal of the   *)
(* worker at a time; the worker interleaves with it step by step.          *)
(*                                                                         *)
(* The pc of the worker is thread[c]; "none" is also thread=NULL and       *)
(* population=NULL, which the code sets together:                          *)
(*    first      start() was called, the first round of the loop is next   *)
(*    request    at the loop head, about to ask for chromosomes            *)
(*    spin       while(!parallelDataReady) usleep(1)                       *)
(*    next       about to test stopflag and to evolve one generation       *)
(*    tail       after the loop: evaluateBestGenome, emit completed        *)
(*    returning  completed is emitted, run() has not returned              *)
(*    finished   run() has returned                                        *)
(***************************************************************************)
EXTENDS Network

CONSTANTS
    Generations,   \* Global: the number of generations (default 200)
    StopAfter      \* the variance test may stop the loop when i > 10

ASSUME GenerationsAssumption == Generations \in Nat /\ StopAfter \in Nat

VARIABLES
    proc,            \* the process: see ProcState
    status,          \* ClientProtocol::status
    socketId,        \* whether SERVERSENDCODE has set socketId
    codeBytes,       \* the problem whose library was received last
    globalMinimum,   \* the problem globalMinimum belongs to
    calledDone,      \* problem->callDone() was called on this problem object
    sig,             \* signals of the worker queued for the main thread
    thread,          \* pc of the worker
    stopflag,        \* MyThread::stopflag
    parallelDataReady, \* MyThread::parallelDataReady
    generation,      \* Population::generation
    parallelGenome   \* problems of the chromosomes in Population::parallelGenome

mainVars == <<proc, status, socketId, codeBytes, globalMinimum, calledDone>>
workerVars == <<thread, stopflag, parallelDataReady, generation, parallelGenome>>
clientVars == <<mainVars, sig, workerVars>>

\* "blocked" is a main thread inside thread->wait(); "aborted" is a process
\* killed by its own fault, "killed" one killed from outside.
ProcState == {"off", "up", "blocked", "exited", "aborted", "killed"}

ThreadState == {"none", "first", "request", "spin", "next", "tail",
                "returning", "finished"}

\* thread->isRunning()
IsRunning(c) == thread[c] \notin {"none", "finished"}

Signal == [msg : {"sendGenomes", "requestGenomes", "completed"}]
          \cup [msg : {"newMinimum"}, problem : Problems]

ClientTypeOK ==
    /\ proc \in [Clients -> ProcState]
    /\ status \in [Clients -> Status]
    /\ socketId \in [Clients -> BOOLEAN]
    /\ codeBytes \in [Clients -> MaybeProblem]
    /\ globalMinimum \in [Clients -> MaybeProblem]
    /\ calledDone \in [Clients -> BOOLEAN]
    /\ sig \in [Clients -> Seq(Signal)]
    /\ thread \in [Clients -> ThreadState]
    /\ stopflag \in [Clients -> BOOLEAN]
    /\ parallelDataReady \in [Clients -> BOOLEAN]
    /\ generation \in [Clients -> Nat]
    /\ parallelGenome \in [Clients -> SUBSET Problems]

ClientInit ==
    /\ proc = [c \in Clients |-> "off"]
    /\ status = [c \in Clients |-> "WAIT"]
    /\ socketId = [c \in Clients |-> FALSE]
    /\ codeBytes = [c \in Clients |-> NoProblem]
    /\ globalMinimum = [c \in Clients |-> NoProblem]
    /\ calledDone = [c \in Clients |-> FALSE]
    /\ sig = [c \in Clients |-> <<>>]
    /\ thread = [c \in Clients |-> "none"]
    /\ stopflag = [c \in Clients |-> FALSE]
    /\ parallelDataReady = [c \in Clients |-> FALSE]
    /\ generation = [c \in Clients |-> 0]
    /\ parallelGenome = [c \in Clients |-> {}]

-----------------------------------------------------------------------------
(* The connection.                                                         *)

\* connectToServer succeeds and connectSlot runs.  connected is never reset,
\* so a process connects once.
Connect(c) ==
    /\ proc[c] = "off"
    /\ proc' = [proc EXCEPT ![c] = "up"]
    /\ link' = [link EXCEPT ![c] = "open"]
    /\ up' = [up EXCEPT ![c] = Append(@, [msg |-> "CONNECT"])]
    /\ status' = [status EXCEPT ![c] = "START"]
    /\ UNCHANGED <<socketId, codeBytes, globalMinimum, calledDone, sig,
                   workerVars, down, arrived>>

\* The user closes the window (the process ends) or presses Disconnect (it
\* goes on).  A second request before the server reads the first changes
\* nothing, so it is left out.
Leave(c, quits) ==
    /\ proc[c] = "up" /\ ~ Has(up[c], "DELETE")
    /\ proc' = [proc EXCEPT ![c] = IF quits THEN "exited" ELSE "up"]
    /\ SendUp(c, [msg |-> "DELETE"])
    /\ UNCHANGED <<status, socketId, codeBytes, globalMinimum, calledDone, sig,
                   workerVars, down, arrived, link>>

\* The machine goes down.  Also a client started from the command line that
\* quits: its MainWindow does not know of the connection and sends nothing.
Kill(c) ==
    /\ proc[c] \in {"up", "blocked"}
    /\ proc' = [proc EXCEPT ![c] = "killed"]
    /\ link' = [link EXCEPT ![c] = "closed"]
    /\ UNCHANGED <<status, socketId, codeBytes, globalMinimum, calledDone, sig,
                   workerVars, down, arrived, up>>

-----------------------------------------------------------------------------
(* Messages of the server.  A readyRead signal needs new bytes; recvString *)
(* then reads a single message, the oldest.  n messages are in the buffer  *)
(* by then (the new bytes may be part of message n+1), and n-1 stay there  *)
(* until more bytes come.                                                  *)

\* Mutant: the message is taken for one that was announced before.
ReceiveUncounted(c, kind) ==
    /\ proc[c] = "up"
    /\ arrived[c] < Len(down[c])
    /\ Head(down[c]).msg = kind
    /\ arrived' = [arrived EXCEPT ![c] = @ - 1]
    /\ down' = [down EXCEPT ![c] = Tail(@)]

Receive(c, kind) ==
    /\ proc[c] = "up"
    /\ arrived[c] < Len(down[c])
    /\ Head(down[c]).msg = kind
    /\ \E n \in 1..Len(down[c]) :
          /\ n >= arrived[c]
          /\ arrived' = [arrived EXCEPT ![c] = n - 1]
    /\ down' = [down EXCEPT ![c] = Tail(@)]

\* A qFatal, or a call through a NULL pointer.
Abort(c) ==
    /\ proc' = [proc EXCEPT ![c] = "aborted"]
    /\ link' = [link EXCEPT ![c] = "closed"]
    /\ UNCHANGED <<status, socketId, codeBytes, globalMinimum, calledDone, sig,
                   workerVars, up>>

StatusMsg(c, s) == [msg |-> "STATUS", status |-> s, minimum |-> globalMinimum[c]]

RecvCode(c) ==
    /\ Receive(c, "CODE")
    /\ socketId' = [socketId EXCEPT ![c] = TRUE]
    /\ UNCHANGED <<proc, status, codeBytes, globalMinimum, calledDone, sig,
                   workerVars, up, link>>

\* The pc from which run() starts with that many generations behind it.
RunEntry(g) == IF g <= Generations THEN "first" ELSE "tail"

\* Deleting a MyThread whose run() has not returned is fatal in Qt.
\* parallelDataReady of the new MyThread is not initialized.
RunProblem(c, p) ==
    \/ IsRunning(c) /\ Abort(c)
    \/ /\ ~ IsRunning(c)
       /\ status' = [status EXCEPT ![c] = "RUN"]
       /\ codeBytes' = [codeBytes EXCEPT ![c] = p]
       /\ calledDone' = [calledDone EXCEPT ![c] = FALSE]
       /\ thread' = [thread EXCEPT ![c] = RunEntry(0)]
       /\ stopflag' = [stopflag EXCEPT ![c] = FALSE]
       /\ \E b \in BOOLEAN :
             parallelDataReady' = [parallelDataReady EXCEPT ![c] = b]
       /\ generation' = [generation EXCEPT ![c] = 0]
       /\ parallelGenome' = [parallelGenome EXCEPT ![c] = {}]
       /\ UNCHANGED <<proc, socketId, globalMinimum, sig, up, link>>

RecvProgram(c) ==
    /\ Receive(c, "PROGRAM")
    /\ RunProblem(c, Head(down[c]).problem)

\* sendStatus reads population->getGeneration().
RecvAskStatus(c) ==
    /\ Receive(c, "ASKSTATUS")
    /\ \/ thread[c] = "none" /\ Abort(c)
       \/ /\ thread[c] # "none"
          /\ SendUp(c, StatusMsg(c, status[c]))
          /\ UNCHANGED <<mainVars, sig, workerVars, link>>

RecvTerminate(c) ==
    /\ Receive(c, "TERMINATE")
    /\ proc' = [proc EXCEPT ![c] = "exited"]
    /\ link' = [link EXCEPT ![c] = "closed"]
    /\ UNCHANGED <<status, socketId, codeBytes, globalMinimum, calledDone, sig,
                   workerVars, up>>

\* thread->wait() blocks the main thread while run() has not returned.
RecvPauseNoWait(c) ==    \* mutant: without the call of wait()
    /\ Receive(c, "PAUSE")
    /\ IF thread[c] = "none" \/ stopflag[c]
       THEN UNCHANGED <<status, stopflag>>
       ELSE /\ stopflag' = [stopflag EXCEPT ![c] = TRUE]
            /\ status' = [status EXCEPT ![c] = "PAUSE"]
    /\ UNCHANGED <<proc, socketId, codeBytes, globalMinimum, calledDone, sig,
                   thread, parallelDataReady, generation, parallelGenome, up, link>>

RecvPause(c) ==
    /\ Receive(c, "PAUSE")
    /\ IF thread[c] = "none" \/ stopflag[c]
       THEN UNCHANGED <<proc, status, stopflag>>
       ELSE /\ stopflag' = [stopflag EXCEPT ![c] = TRUE]
            /\ IF IsRunning(c)
               THEN /\ proc' = [proc EXCEPT ![c] = "blocked"]
                    /\ UNCHANGED status
               ELSE /\ status' = [status EXCEPT ![c] = "PAUSE"]
                    /\ UNCHANGED proc
    /\ UNCHANGED <<socketId, codeBytes, globalMinimum, calledDone, sig, thread,
                   parallelDataReady, generation, parallelGenome, up, link>>

\* wait() returns.
UnblockTimeout(c) ==    \* mutant: wait(time) gives up
    /\ proc[c] = "blocked"
    /\ proc' = [proc EXCEPT ![c] = "up"]
    /\ status' = [status EXCEPT ![c] = "PAUSE"]
    /\ UNCHANGED <<socketId, codeBytes, globalMinimum, calledDone, sig,
                   workerVars, netVars>>

Unblock(c) ==
    /\ proc[c] = "blocked" /\ thread[c] = "finished"
    /\ proc' = [proc EXCEPT ![c] = "up"]
    /\ status' = [status EXCEPT ![c] = "PAUSE"]
    /\ UNCHANGED <<socketId, codeBytes, globalMinimum, calledDone, sig,
                   workerVars, netVars>>

\* start() does nothing on a thread that runs.
RecvResume(c) ==
    /\ Receive(c, "RESUME")
    /\ IF thread[c] # "none" /\ stopflag[c]
       THEN /\ stopflag' = [stopflag EXCEPT ![c] = FALSE]
            /\ thread' = [thread EXCEPT ![c] =
                             IF @ = "finished" THEN RunEntry(generation[c]) ELSE @]
            /\ status' = [status EXCEPT ![c] = "RUN"]
       ELSE UNCHANGED <<stopflag, thread, status>>
    /\ UNCHANGED <<proc, socketId, codeBytes, globalMinimum, calledDone, sig,
                   parallelDataReady, generation, parallelGenome, up, link>>

\* recvString parses codeBytes, the library of the problem, instead of the
\* message.  A library is no JSON text: the object it yields has no count.
GenomesIn(bytes) == {}

\* Mutant: an answer without chromosomes is ignored.
RecvGenomesSkipsEmpty(c) ==
    /\ Receive(c, "GENOMES")
    /\ \/ thread[c] = "none" /\ Abort(c)
       \/ /\ thread[c] # "none"
          /\ IF Head(down[c]).array = {}
             THEN UNCHANGED <<parallelGenome, parallelDataReady>>
             ELSE /\ parallelGenome' = [parallelGenome EXCEPT ![c] = GenomesIn(codeBytes[c])]
                  /\ parallelDataReady' = [parallelDataReady EXCEPT ![c] = TRUE]
          /\ UNCHANGED <<mainVars, sig, thread, stopflag, generation, up, link>>

RecvGenomes(c) ==
    /\ Receive(c, "GENOMES")
    /\ \/ thread[c] = "none" /\ Abort(c)
       \/ /\ thread[c] # "none"
          /\ parallelGenome' = [parallelGenome EXCEPT ![c] = GenomesIn(codeBytes[c])]
          /\ parallelDataReady' = [parallelDataReady EXCEPT ![c] = TRUE]
          /\ UNCHANGED <<mainVars, sig, thread, stopflag, generation, up, link>>

ReadData(c) ==
    \/ RecvCode(c) \/ RecvProgram(c) \/ RecvAskStatus(c) \/ RecvTerminate(c)
    \/ RecvPause(c) \/ RecvResume(c) \/ RecvGenomes(c)

-----------------------------------------------------------------------------
(* Signals of the worker, delivered to the slots of ClientProtocol in the  *)
(* order they were emitted, when the event loop runs.                      *)

Deliver(c, kind) ==
    /\ proc[c] = "up"
    /\ sig[c] # <<>> /\ Head(sig[c]).msg = kind
    /\ sig' = [sig EXCEPT ![c] = Tail(@)]

RequestGenomesSlot(c) ==
    /\ Deliver(c, "requestGenomes")
    /\ SendUp(c, [msg |-> "ASKGENOMES"])
    /\ UNCHANGED <<mainVars, workerVars, down, arrived, link>>

SendGenomesSlot(c) ==
    /\ Deliver(c, "sendGenomes")
    /\ SendUp(c, [msg |-> "SENDGENOMES", problem |-> codeBytes[c]])
    /\ UNCHANGED <<mainVars, workerVars, down, arrived, link>>

NewMinimumSlot(c) ==
    /\ Deliver(c, "newMinimum")
    /\ globalMinimum' = [globalMinimum EXCEPT ![c] = Head(sig[c]).problem]
    /\ SendUp(c, [msg |-> "STATUS", status |-> status[c],
                  minimum |-> Head(sig[c]).problem])
    /\ UNCHANGED <<proc, status, socketId, codeBytes, calledDone, workerVars,
                   down, arrived, link>>

EndThread(c) ==
    /\ Deliver(c, "completed")
    /\ status' = [status EXCEPT ![c] = "FINISH"]
    /\ calledDone' = [calledDone EXCEPT ![c] = TRUE]
    /\ SendUp(c, StatusMsg(c, "FINISH"))
    /\ UNCHANGED <<proc, socketId, codeBytes, globalMinimum, workerVars,
                   down, arrived, link>>

HandleSignal(c) ==
    \/ RequestGenomesSlot(c) \/ SendGenomesSlot(c)
    \/ NewMinimumSlot(c) \/ EndThread(c)

-----------------------------------------------------------------------------
(* The worker.                                                             *)

Alive(c) == proc[c] \in {"up", "blocked"}

Goto(c, pc) == thread' = [thread EXCEPT ![c] = pc]

Emit(c, signals) == sig' = [sig EXCEPT ![c] = @ \o signals]

\* disableParallelData, then emit requestGenomes.
WorkerRequest(c) ==
    /\ Alive(c) /\ thread[c] = "request"
    /\ Goto(c, "spin")
    /\ parallelDataReady' = [parallelDataReady EXCEPT ![c] = FALSE]
    /\ Emit(c, <<[msg |-> "requestGenomes"]>>)
    /\ UNCHANGED <<mainVars, stopflag, generation, parallelGenome, netVars>>

WorkerSpinOnce(c) ==    \* mutant: an if in place of the while
    /\ Alive(c) /\ thread[c] = "spin"
    /\ Goto(c, "next")
    /\ UNCHANGED <<mainVars, sig, stopflag, parallelDataReady, generation,
                   parallelGenome, netVars>>

WorkerSpin(c) ==
    /\ Alive(c) /\ thread[c] = "spin" /\ parallelDataReady[c]
    /\ Goto(c, "next")
    /\ UNCHANGED <<mainVars, sig, stopflag, parallelDataReady, generation,
                   parallelGenome, netVars>>

\* The signals of one generation: the chromosomes, and the minimum if it
\* improved, which in the first round of a run() it always did.
GenerationSignals(c, improved) ==
    <<[msg |-> "sendGenomes"]>>
    \o IF improved THEN <<[msg |-> "newMinimum", problem |-> codeBytes[c]]>>
                   ELSE <<>>

\* One round of the loop from the test of stopflag on.  The counter i of the
\* loop and the generation of the population advance together.
WorkerStop(c) ==
    /\ Alive(c) /\ thread[c] \in {"first", "next"} /\ stopflag[c]
    /\ Goto(c, "tail")
    /\ UNCHANGED <<mainVars, sig, stopflag, parallelDataReady, generation,
                   parallelGenome, netVars>>

WorkerEvolve(c) ==
    /\ Alive(c) /\ thread[c] \in {"first", "next"} /\ ~ stopflag[c]
    /\ generation' = [generation EXCEPT ![c] = @ + 1]
    /\ \/ \E improved \in BOOLEAN :
             /\ thread[c] = "first" => improved
             /\ Emit(c, GenerationSignals(c, improved))
             /\ Goto(c, IF generation[c] + 1 <= Generations THEN "request" ELSE "tail")
       \/ /\ generation[c] > StopAfter
          /\ Emit(c, GenerationSignals(c, FALSE))
          /\ Goto(c, "tail")
    /\ UNCHANGED <<mainVars, stopflag, parallelDataReady, parallelGenome, netVars>>

WorkerTail(c) ==
    /\ Alive(c) /\ thread[c] = "tail"
    /\ Goto(c, "returning")
    /\ Emit(c, <<[msg |-> "completed"]>>)
    /\ UNCHANGED <<mainVars, stopflag, parallelDataReady, generation,
                   parallelGenome, netVars>>

WorkerReturn(c) ==
    /\ Alive(c) /\ thread[c] = "returning"
    /\ Goto(c, "finished")
    /\ UNCHANGED <<mainVars, sig, stopflag, parallelDataReady, generation,
                   parallelGenome, netVars>>

Worker(c) ==
    \/ WorkerRequest(c) \/ WorkerSpin(c) \/ WorkerStop(c)
    \/ WorkerEvolve(c) \/ WorkerTail(c) \/ WorkerReturn(c)

\* What a client does by itself, without its user.
ClientStep(c) == ReadData(c) \/ HandleSignal(c) \/ Unblock(c) \/ Worker(c)
=============================================================================
