---------------------------- MODULE ClientSystem ----------------------------
(***************************************************************************)
(* Clients next to any server that keeps one rule of OnePcServer: it sends *)
(* chromosomes only to answer CLIENTASKGENOMES, once per request.  What    *)
(* else it sends, to whom and when, is arbitrary, so what holds here does  *)
(* not depend on the protocol of the server.  OnePC is shown to implement  *)
(* this specification.                                                     *)
(***************************************************************************)
EXTENDS GaClient

CONSTANTS
    Controls,    \* kinds of messages this server sends of its own accord
    Departures,  \* how a client may leave: "close", "disconnect", "kill"
    DownLengths, \* bound: the server writes while down[c] has such a length ...
    Backlogs     \* ... and up[c] and sig[c] such a length; Nat is no bound

ControlMsg == {m \in DownMsg : m.msg \in Controls \ {"GENOMES"}}

Nothing == [msg |-> "NOP"]

ASSUME SystemAssumption == DownLengths \subseteq Nat /\ Backlogs \subseteq Nat

vars == <<clientVars, netVars>>

Init == ClientInit /\ NetInit

\* The messages f[c] the server writes at once.
Pushes == [Clients -> ControlMsg \cup {Nothing}]

Push(f) ==
    /\ \A c \in Clients : f[c] # Nothing =>
          /\ link[c] # "none" /\ Len(down[c]) \in DownLengths
          /\ Len(up[c]) \in Backlogs /\ Len(sig[c]) \in Backlogs
    /\ down' = [c \in Clients |-> IF f[c] # Nothing /\ link[c] = "open"
                                  THEN Append(down[c], f[c])
                                  ELSE down[c]]

\* It reads a message, or acts on its own, and writes what it likes.
Serve(c, f) ==
    /\ up[c] # <<>> /\ Head(up[c]).msg \notin {"ASKGENOMES", "DELETE"}
    /\ up' = [up EXCEPT ![c] = Tail(@)]
    /\ Push(f)
    /\ UNCHANGED <<clientVars, arrived, link>>

Command(f) == Push(f) /\ UNCHANGED <<clientVars, arrived, up, link>>

\* It answers a request for chromosomes.
Answer(c, array) ==
    /\ up[c] # <<>> /\ Head(up[c]).msg = "ASKGENOMES"
    /\ up' = [up EXCEPT ![c] = Tail(@)]
    /\ down' = Sent(down, c, [msg |-> "GENOMES", array |-> array])
    /\ UNCHANGED <<clientVars, arrived, link>>

\* It reads CLIENTDELETE and closes the connection.
Release(c) ==
    /\ up[c] # <<>> /\ Head(up[c]).msg = "DELETE"
    /\ up' = [up EXCEPT ![c] = <<>>]
    /\ link' = [link EXCEPT ![c] = "closed"]
    /\ UNCHANGED <<clientVars, down, arrived>>

\* Its process ends, in the middle of whatever it was reading.
ServerEnds(f) ==
    /\ Push(f)
    /\ link' = [c \in Clients |-> IF link[c] = "open" THEN "closed" ELSE link[c]]
    /\ \/ UNCHANGED up
       \/ \E c \in Clients : /\ up[c] # <<>>
                             /\ up' = [up EXCEPT ![c] = Tail(@)]
    /\ UNCHANGED <<clientVars, arrived>>

Depart(c) ==
    \/ "close" \in Departures /\ Leave(c, TRUE)
    \/ "disconnect" \in Departures /\ Leave(c, FALSE)
    \/ "kill" \in Departures /\ Kill(c)

Next ==
    \/ \E c \in Clients : Connect(c) \/ ClientStep(c) \/ Depart(c)
    \/ \E c \in Clients, f \in Pushes : Serve(c, f)
    \/ \E f \in Pushes : Command(f) \/ ServerEnds(f)
    \/ \E c \in Clients, array \in SUBSET Problems : Answer(c, array)
    \/ \E c \in Clients : Release(c)

Spec == Init /\ [][Next]_vars

-----------------------------------------------------------------------------
(* Properties.                                                             *)

\* Types: the state of every client (GaClient) and of its connection (Network).
TypeOK == ClientTypeOK /\ NetTypeOK

\* The worker is inside its waiting loop, which nobody has released yet.
Waiting(c) == thread[c] = "spin" /\ ~ parallelDataReady[c]

Requested(c) == Has(sig[c], "requestGenomes")
Asked(c) == Has(up[c], "ASKGENOMES")
Answered(c) == Has(down[c], "GENOMES")

\* A request for chromosomes is in at most one place, once: the signal queue,
\* the socket to the server, or, as the answer, the socket from it; and there
\* is none unless the worker waits for it.
OneRequest ==
    \A c \in Clients :
        /\ AtMostOnce(sig[c], "requestGenomes")
        /\ AtMostOnce(up[c], "ASKGENOMES")
        /\ AtMostOnce(down[c], "GENOMES")
        /\ Requested(c) => Waiting(c) /\ ~ Asked(c) /\ ~ Answered(c)
        /\ Asked(c) => Waiting(c) /\ ~ Answered(c)
        /\ Answered(c) => Waiting(c)

\* Population has no lock, and the mutexes of MyThread are local variables
\* that exclude nobody.  Still setGenomes, called by the main thread when
\* SERVERSENDGENOMES is read, never meets a worker that is evolving.
PopulationExclusive ==
    \A c \in Clients : Answered(c) => thread[c] = "spin"

\* While the connection lives, a waiting worker has a request on its way: the
\* wait cannot go on because a request or its answer was dropped or consumed
\* by something else.
RequestKept ==
    \A c \in Clients :
        Waiting(c) /\ link[c] = "open" => Requested(c) \/ Asked(c) \/ Answered(c)

\* RESUME calls start(), which Qt ignores on a running thread.  Whenever the
\* main thread can read RESUME and stopflag is set, run() has returned, so
\* start() does start the worker again.
ResumeFindsItStopped ==
    \A c \in Clients : proc[c] = "up" /\ stopflag[c] => thread[c] = "finished"

\* "hangs forever sometimes" (pauseExecution): a pause that finds the worker
\* waiting for chromosomes whose answer the main thread has still to handle
\* blocks the two on each other; only the death of the process ends it.
Hung(c) == proc[c] = "blocked" /\ Waiting(c)

HangIsForever ==
    [][\A c \in Clients : Hung(c) => (Hung(c) \/ proc[c] = "killed")']_vars
=============================================================================
