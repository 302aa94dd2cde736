------------------------------ MODULE Network ------------------------------
(***************************************************************************)
(* The TCP connections between the OnePC server and its clients, and the   *)
(* JSON messages that travel on them (protocol.h).  A message is a record  *)
(* whose field "msg" is the name of its CM_ code without the CM_SERVER or  *)
(* CM_CLIENT prefix; the rest is the data a property can tell apart.       *)
(*                                                                         *)
(* TCP keeps the order and loses nothing while a connection is open.  What *)
(* it does not keep is the boundary between messages: several may reach    *)
(* the client's buffer under a single readyRead signal.  arrived[c] counts *)
(* the messages that are in that buffer already, announced by a signal     *)
(* that is over, and not read yet (see ReadData in GaClient).              *)
(***************************************************************************)
EXTENDS Integers, Sequences

CONSTANTS
    Clients,     \* the processes that run OnePcClient
    Problems,    \* the names of the problems (shared libraries)
    NoProblem    \* the empty problem name

ASSUME NoProblemAssumption == NoProblem \notin Problems

MaybeProblem == Problems \cup {NoProblem}

\* The STATE_ codes of protocol.h; "none" is the null QString of a Client
\* whose status no message has set yet.
Status == {"START", "WAIT", "RUN", "PAUSE", "FINISH"}

\* The messages without data, in the two directions.
PlainDown == {"CODE", "ASKSTATUS", "TERMINATE", "PAUSE", "RESUME"}
PlainUp == {"CONNECT", "DELETE", "ASKGENOMES"}

DownMsg == [msg : PlainDown]
           \cup [msg : {"PROGRAM"}, problem : Problems]
           \cup [msg : {"GENOMES"}, array : SUBSET Problems]

UpMsg == [msg : PlainUp]
         \cup [msg : {"STATUS"}, status : Status, minimum : MaybeProblem]
         \cup [msg : {"SENDGENOMES"}, problem : Problems]

VARIABLES
    down,      \* down[c]: what the server wrote to the socket of c
    arrived,   \* arrived[c]: messages of down[c] already in the buffer of c
    up,        \* up[c]: what c wrote and the server has not read
    link       \* link[c]: "none", "open" or "closed"

netVars == <<down, arrived, up, link>>

\* write() on a socket that is not connected does nothing.
Sent(queues, c, m) == IF link[c] = "open"
                      THEN [queues EXCEPT ![c] = Append(@, m)]
                      ELSE queues

\* Client side: QTcpSocket::write of one more message.
SendUp(c, m) == up' = Sent(up, c, m)

\* The messages of a kind in a queue.
Has(q, kind) == \E i \in DOMAIN q : q[i].msg = kind

AtMostOnce(q, kind) ==
    \A i, j \in DOMAIN q : q[i].msg = kind /\ q[j].msg = kind => i = j

NetTypeOK ==
    /\ down \in [Clients -> Seq(DownMsg)]
    /\ arrived \in [Clients -> Nat]
    /\ up \in [Clients -> Seq(UpMsg)]
    /\ link \in [Clients -> {"none", "open", "closed"}]

NetInit ==
    /\ down = [c \in Clients |-> <<>>]
    /\ arrived = [c \in Clients |-> 0]
    /\ up = [c \in Clients |-> <<>>]
    /\ link = [c \in Clients |-> "none"]
=============================================================================
