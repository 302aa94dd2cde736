---------------------------- MODULE ClientWindow ----------------------------
(***************************************************************************)
(* The window of a client and its connections.  There are two flags of the *)
(* name connected: the one of ClientProtocol is set when a connection is   *)
(* made, the one of MainWindow says what the button offers; neither looks  *)
(* at the socket.  Questions are modal, and the network does not wait for  *)
(* their answer; boxes that only inform are left out, they change nothing. *)
(*                                                                         *)
(* The connections that one process tries are numbered.  Of what travels   *)
(* on them only CONNECT, DELETE and TERMINATE are kept (GaClient has the   *)
(* rest, for a client that connects once).                                 *)
(***************************************************************************)
EXTENDS Integers, Sequences

CONSTANTS
    AutoConnect,    \* --serverip and --serverport were given
    MaxAttempts,    \* bound on the connections that are tried
    MaxBacklog      \* bound: the user connects while no queue is longer

ASSUME WindowAssumption ==
    /\ AutoConnect \in BOOLEAN
    /\ MaxAttempts \in Nat \ {0} /\ MaxBacklog \in Nat

Attempts == 1 .. MaxAttempts

VARIABLES
    process,            \* of the client: "running" or "ended"
    socket,             \* state of its QTcpSocket
    attempt,            \* the connection that it stands for
    pending,            \* written to it before it was connected
    connected,          \* ClientProtocol::connected
    windowConnected,    \* MainWindow::connected: the button says Disconnect
    question,           \* the modal question that is open
    link,               \* the connections: "none", "open" or "closed"
    up,                 \* messages of the client, not read
    terminate,          \* connections with TERMINATE on its way
    server,             \* "up" or "down"
    entry,              \* what the server made of each connection
    given               \* closed ones whose descriptor another one has

clientVars == <<process, socket, attempt, pending, connected, windowConnected, question>>
serverVars == <<terminate, server, entry, given>>

vars == <<clientVars, link, up, serverVars>>

Message == {"CONNECT", "DELETE"}

\* Types; only an idle socket stands for no connection.
TypeOK ==
    /\ process \in {"running", "ended"}
    /\ socket \in {"idle", "connecting", "connected"}
    /\ attempt \in Attempts \union {0} /\ (socket # "idle" => attempt # 0)
    /\ pending \in Seq(Message) /\ (pending # <<>> => socket = "connecting")
    /\ connected \in BOOLEAN /\ windowConnected \in BOOLEAN
    /\ question \in {"none", "disconnect", "close"}
    /\ link \in [Attempts -> {"none", "open", "closed"}]
    /\ up \in [Attempts -> Seq(Message)]
    /\ terminate \subseteq Attempts /\ given \subseteq Attempts
    /\ server \in {"up", "down"}
    /\ entry \in [Attempts -> {"none", "accepted", "overlooked", "known", "zombie", "gone"}]

\* The constructor of ClientProtocol connects at once if it knows a server,
\* before there is a window.
Init ==
    /\ process = "running"
    /\ IF AutoConnect THEN socket = "connecting" /\ attempt = 1
                      ELSE socket = "idle" /\ attempt = 0
    /\ pending = <<>> /\ connected = FALSE /\ windowConnected = FALSE
    /\ question = "none"
    /\ link = [k \in Attempts |-> "none"] /\ up = [k \in Attempts |-> <<>>]
    /\ terminate = {} /\ given = {} /\ server = "up" /\ entry = [k \in Attempts |-> "none"]

-----------------------------------------------------------------------------
(* ClientProtocol and its socket.                                          *)

Hangup == [k \in Attempts |-> IF k = attempt /\ link[k] = "open" THEN "closed" ELSE link[k]]

\* Mutant: without the test of connected.
DialAlways ==
    /\ attempt < MaxAttempts /\ attempt' = attempt + 1
    /\ socket' = "connecting" /\ pending' = <<>> /\ link' = Hangup

\* connectToServer: what there is of a connection is aborted, unless one was
\* made before.
Dial ==
    IF connected
       THEN UNCHANGED <<socket, attempt, pending, link>>
       ELSE /\ attempt < MaxAttempts /\ attempt' = attempt + 1
            /\ socket' = "connecting" /\ pending' = <<>> /\ link' = Hangup

\* Mutant: kept for the next connection as well.
WriteKeepsAlways(message) ==
    /\ UNCHANGED <<socket, link>>
    /\ IF socket = "connected" THEN up' = [up EXCEPT ![attempt] = Append(@, message)] /\ UNCHANGED pending
                               ELSE pending' = Append(pending, message) /\ UNCHANGED up

\* write and flush: kept until there is a connection or, if the flush fails
\* for the lack of one, the end of the attempt.
Write(message) ==
    \/ /\ socket = "connected"
       /\ up' = IF link[attempt] = "open" THEN [up EXCEPT ![attempt] = Append(@, message)] ELSE up
       /\ UNCHANGED <<socket, pending, link>>
    \/ /\ socket = "connecting"
       /\ \/ pending' = Append(pending, message) /\ UNCHANGED <<socket, link>>
          \/ pending' = <<>> /\ socket' = "idle" /\ link' = Hangup
       /\ UNCHANGED up
    \/ socket = "idle" /\ UNCHANGED <<socket, pending, link, up>>

\* The network connects the two sides, whether the client knows it or not.
Handshake ==
    /\ process = "running" /\ socket = "connecting"
    /\ link[attempt] = "none" /\ server = "up"
    /\ link' = [link EXCEPT ![attempt] = "open"]
    /\ UNCHANGED <<clientVars, up, serverVars>>

connectSlot ==
    /\ process = "running" /\ socket = "connecting" /\ link[attempt] # "none"
    /\ socket' = "connected" /\ connected' = TRUE /\ pending' = <<>>
    /\ up' = IF link[attempt] = "open" THEN [up EXCEPT ![attempt] = pending \o <<"CONNECT">>] ELSE up
    /\ UNCHANGED <<process, attempt, windowConnected, question, link, serverVars>>

\* "we set the connect button again to Connect".
displayError == windowConnected' = FALSE

\* No server, no host, or no answer.
Refused ==
    /\ process = "running" /\ socket = "connecting" /\ link[attempt] = "none"
    /\ socket' = "idle" /\ pending' = <<>> /\ displayError
    /\ UNCHANGED <<process, attempt, connected, question, link, up, serverVars>>

RemoteHostClosed ==
    /\ process = "running" /\ socket = "connected" /\ link[attempt] = "closed"
    /\ socket' = "idle" /\ displayError
    /\ UNCHANGED <<process, attempt, pending, connected, question, link, up, serverVars>>

-----------------------------------------------------------------------------
(* MainWindow.                                                             *)

Free == process = "running" /\ question = "none"

connectToServer ==
    /\ Free /\ ~ windowConnected
    /\ Len(pending) <= MaxBacklog /\ \A k \in Attempts : Len(up[k]) <= MaxBacklog
    /\ Dial /\ windowConnected' = TRUE
    /\ UNCHANGED <<process, connected, question, up, serverVars>>

AskDisconnect ==
    /\ Free /\ windowConnected
    /\ question' = "disconnect"
    /\ UNCHANGED <<process, socket, attempt, pending, connected, windowConnected,
                   link, up, serverVars>>

\* The flag is tested again: the connection may have ended meanwhile.
DisconnectYes ==
    /\ process = "running" /\ question = "disconnect" /\ question' = "none"
    /\ IF windowConnected THEN Write("DELETE") ELSE UNCHANGED <<socket, pending, link, up>>
    /\ windowConnected' = FALSE
    /\ UNCHANGED <<process, attempt, connected, serverVars>>

No ==
    /\ process = "running" /\ question # "none" /\ question' = "none"
    /\ UNCHANGED <<process, socket, attempt, pending, connected, windowConnected,
                   link, up, serverVars>>

\* The end of the process closes its socket; what is pending is lost.
End ==
    /\ process' = "ended" /\ socket' = "idle" /\ pending' = <<>> /\ question' = "none"
    /\ UNCHANGED <<attempt, connected, windowConnected, serverVars>>

\* Mutant: without "You should disconnect first".
quitSlotAtOnce == Free /\ End /\ link' = Hangup /\ UNCHANGED up

quitSlot == Free /\ ~ windowConnected /\ End /\ link' = Hangup /\ UNCHANGED up

closeEvent ==
    /\ Free /\ question' = "close"
    /\ UNCHANGED <<process, socket, attempt, pending, connected, windowConnected,
                   link, up, serverVars>>

\* Mutant: the server is not told.
FarewellNone == UNCHANGED up

\* CLIENTDELETE, if the flag is set.
Farewell ==
    up' = IF windowConnected /\ socket = "connected" /\ link[attempt] = "open"
             THEN [up EXCEPT ![attempt] = Append(@, "DELETE")] ELSE up

CloseYes ==
    /\ process = "running" /\ question = "close"
    /\ Farewell /\ End /\ link' = Hangup

\* SERVERSENDTERMINATE, in the middle of a question perhaps.
RecvTerminate ==
    /\ process = "running" /\ socket = "connected" /\ attempt \in terminate
    /\ End /\ link' = Hangup /\ UNCHANGED up

-----------------------------------------------------------------------------
(* The server, as far as it keeps a list of clients.                       *)

\* In server.client, and a row of the client table.
InList(k) == entry[k] \in {"accepted", "known"}

Accept(k) ==
    /\ server = "up" /\ link[k] # "none" /\ entry[k] = "none"
    /\ entry' = [entry EXCEPT ![k] = "accepted"]
    /\ UNCHANGED <<clientVars, link, up, terminate, server, given>>

\* Nothing handles the end of a connection, but its descriptor is free: when
\* the next one gets it, that one is taken for the client that is in the list.
Overlook(k) ==
    /\ server = "up" /\ link[k] # "none" /\ entry[k] = "none"
    /\ \E l \in Attempts \ given :
          /\ InList(l) /\ link[l] = "closed" /\ up[l] = <<>>
          /\ given' = given \union {l}
    /\ entry' = [entry EXCEPT ![k] = "overlooked"]
    /\ UNCHANGED <<clientVars, link, up, terminate, server>>

Take(k, message) ==
    /\ server = "up" /\ entry[k] \in {"accepted", "known", "zombie"}
    /\ up[k] # <<>> /\ Head(up[k]) = message

TakeConnect(k) ==
    /\ Take(k, "CONNECT")
    /\ up' = [up EXCEPT ![k] = Tail(@)]
    /\ entry' = [entry EXCEPT ![k] = IF @ = "accepted" THEN "known" ELSE @]
    /\ UNCHANGED <<clientVars, link, terminate, server, given>>

\* What follows CLIENTDELETE is not read.
TakeDelete(k) ==
    /\ Take(k, "DELETE")
    /\ up' = [up EXCEPT ![k] = <<>>]
    /\ entry' = [entry EXCEPT ![k] = "gone"]
    /\ link' = [link EXCEPT ![k] = "closed"]
    /\ UNCHANGED <<clientVars, terminate, server, given>>

\* The user of the server terminates a client.
Terminate(k) ==
    /\ server = "up" /\ InList(k)
    /\ entry' = [entry EXCEPT ![k] = "zombie"]
    /\ terminate' = IF link[k] = "open" THEN terminate \union {k} ELSE terminate
    /\ UNCHANGED <<clientVars, link, up, server, given>>

\* The server ends, or is started again; another one knows no connection.
ServerEnds ==
    /\ server = "up" /\ server' = "down"
    /\ link' = [k \in Attempts |-> IF link[k] = "open" THEN "closed" ELSE link[k]]
    /\ up' = [k \in Attempts |-> <<>>]
    /\ entry' = [k \in Attempts |-> IF link[k] = "none" THEN "none" ELSE "gone"]
    /\ given' = {}
    /\ UNCHANGED <<clientVars, terminate>>

ServerStarts ==
    /\ server = "down" /\ server' = "up"
    /\ UNCHANGED <<clientVars, link, up, terminate, entry, given>>

-----------------------------------------------------------------------------
User ==
    \/ connectToServer \/ AskDisconnect \/ DisconnectYes \/ No
    \/ quitSlot \/ closeEvent \/ CloseYes

Socket == Handshake \/ connectSlot \/ Refused \/ RemoteHostClosed \/ RecvTerminate

ServerReads == \E k \in Attempts : Accept(k) \/ Overlook(k) \/ TakeConnect(k) \/ TakeDelete(k)

Next ==
    \/ User \/ Socket \/ ServerReads \/ ServerEnds \/ ServerStarts
    \/ \E k \in Attempts : Terminate(k)

Spec == Init /\ [][Next]_vars

\* The event loop of the server handles what has arrived.
FairSpec == Spec /\ WF_vars(ServerReads)

-----------------------------------------------------------------------------
(* Properties.                                                             *)

Has(k, message) == \E i \in DOMAIN up[k] : up[k][i] = message

\* A client that the server takes for a computer of the system, or that it
\* will when it reads on.
Counted(k) == entry[k] = "known" \/ Has(k, "CONNECT")

\* A connection that ended before its client knew of it, because another
\* attempt was made, the first one given up, or the process ended.  It was
\* accepted, is silent, and stays in the list: the code has no way to take it
\* out but TERMINATE.
Orphan(k) ==
    /\ entry[k] = "accepted" /\ link[k] = "closed" /\ up[k] = <<>>
    /\ ~ (connected /\ k = attempt)

\* "You should disconnect first": a client that ends has told the server, or
\* the server has sent it away.  All else that it leaves behind in the list
\* are attempts that it gave up, or ended in.
NoGhost ==
    process = "ended" => \A k \in Attempts : InList(k) \/ Counted(k) =>
        Has(k, "DELETE") \/ entry[k] \in {"zombie", "gone"} \/ Orphan(k)

\* One process is never two computers of the system, although it may connect
\* again before the server has read that it left; what else it has in the
\* list (and in the numbers taken from it) is an attempt that was given up.
CountedOnce ==
    \A k, l \in Attempts : Counted(k) /\ (Counted(l) \/ InList(l)) => k = l \/ Orphan(l)

\* A client that has ended does not stay in the list of the server, up to the
\* attempts that it gave up or ended in, which do.
MembersLeave == process = "ended" ~> [](\A k \in Attempts : InList(k) => Orphan(k))
=============================================================================
