------------------------------ MODULE Framing ------------------------------
(***************************************************************************)
(* How messages are cut out of the bytes of a connection.  A message is    *)
(* written as its length, in Header bytes, and its text; both programs     *)
(* read the length first and keep it in nextBlockSize, 0 while the next    *)
(* bytes are a length.  TCP delivers the bytes in order, in pieces of any  *)
(* size.                                                                   *)
(*                                                                         *)
(* recvObject is the same function twice, but for what follows if bytes    *)
(* are missing: a client returns and waits for the next signal readyRead,  *)
(* after which it reads one message at most.  The server reads in a loop   *)
(* while there are bytes, and waits inside of it: its main thread, which   *)
(* serves all connections, stands still for up to 30 seconds at a time.    *)
(***************************************************************************)
EXTENDS Integers, FiniteSets, Sequences, Functions

CONSTANTS
    Up,         \* streams of bytes that the server reads
    Down,       \* those that clients read, each its own
    Header,     \* sizeof(qint32)
    Length(_),  \* of the text of the n-th message of any stream
    MaxMessages \* bound on the messages of a stream

ASSUME FramingAssumption ==
    /\ Up \cap Down = {} /\ Header \in Nat \ {0} /\ MaxMessages \in Nat
    /\ \A m \in 1 .. MaxMessages : Length(m) \in Nat \ {0}

Streams == Up \union Down

VARIABLES
    sent,           \* messages written so far
    wire,           \* bytes on their way: <<message, number of the byte>>
    buffer,         \* bytes in the QTcpSocket of the reader
    nextBlockSize,
    got,            \* the messages read, 0 for a text that is none
    open,           \* the writer has not closed its end
    reading,        \* the stream that readDataSlot of the server is at
    waiting         \* ... in waitForReadyRead

slot == <<reading, waiting>>
reader == <<buffer, nextBlockSize, got>>
vars == <<sent, wire, open, reader, slot>>

Bytes == UNION {{<<m, i>> : i \in 1 .. Header + Length(m)} : m \in 1 .. MaxMessages}

\* Types; a length is that of a message.
TypeOK ==
    /\ sent \in [Streams -> 0 .. MaxMessages]
    /\ wire \in [Streams -> Seq(Bytes)] /\ buffer \in [Streams -> Seq(Bytes)]
    /\ nextBlockSize \in [Streams -> {0} \union {Length(m) : m \in 1 .. MaxMessages}]
    /\ got \in [Streams -> Seq(0 .. MaxMessages)]
    /\ open \in [Streams -> BOOLEAN]
    /\ reading \in SUBSET Up /\ waiting \in BOOLEAN

Init ==
    /\ sent = [s \in Streams |-> 0]
    /\ wire = [s \in Streams |-> <<>>] /\ buffer = [s \in Streams |-> <<>>]
    /\ nextBlockSize = [s \in Streams |-> 0] /\ got = [s \in Streams |-> <<>>]
    /\ open = [s \in Streams |-> TRUE]
    /\ reading = {} /\ waiting = FALSE

-----------------------------------------------------------------------------
(* Writers: a client for each Up, the server for each Down.                *)

sendObject(s) ==
    /\ open[s] /\ sent[s] < MaxMessages
    /\ sent' = [sent EXCEPT ![s] = @ + 1]
    /\ wire' = [wire EXCEPT ![s] =
                   @ \o [i \in 1 .. Header + Length(sent'[s]) |-> <<sent'[s], i>>]]
    /\ UNCHANGED <<open, reader, slot>>

\* A client that dies takes with it what was not sent yet.
Close(s) ==
    /\ s \in Up /\ open[s] /\ open' = [open EXCEPT ![s] = FALSE]
    /\ \E k \in 0 .. Len(wire[s]) : wire' = [wire EXCEPT ![s] = SubSeq(@, 1, k)]
    /\ UNCHANGED <<sent, reader, slot>>

-----------------------------------------------------------------------------
(* recvObject.                                                             *)

\* The first k bytes arrive.
Arrival(s, k) ==
    /\ k \in 1 .. Len(wire[s])
    /\ wire' = [wire EXCEPT ![s] = SubSeq(@, k + 1, Len(@))]

\* What the bytes say where a length is expected.
Claimed(bytes) == IF Head(bytes)[2] = 1 THEN Length(Head(bytes)[1]) ELSE 1

\* Mutant: a byte too early.
LengthHereEarly(bytes, size) == size # 0 \/ Len(bytes) >= Header - 1

\* bytesAvailable() >= sizeof(qint32), if the length is what comes next.
LengthHere(bytes, size) == size # 0 \/ Len(bytes) >= Header

\* The bytes that are left after the length was read, and the length.
AfterLength(bytes, size) == IF size = 0 THEN SubSeq(bytes, Header + 1, Len(bytes)) ELSE bytes
LengthOf(bytes, size) == IF size = 0 THEN Claimed(bytes) ELSE size

TextHere(bytes, size) ==
    LengthHere(bytes, size) /\ Len(AfterLength(bytes, size)) >= LengthOf(bytes, size)

\* Mutant: the length of the last message stays.
AfterMessageKept(size) == size

\* nextBlockSize = 0.
AfterMessage(size) == 0

\* The message whose text the bytes are.
MessageOf(text) ==
    IF /\ Head(text)[2] = Header + 1 /\ Len(text) = Length(Head(text)[1])
       /\ \A i \in DOMAIN text : text[i] = <<Head(text)[1], Header + i>>
       THEN Head(text)[1] ELSE 0

\* recvObject reads the length if it is due and there, then the text if it is
\* there.
recvObject(s, bytes) ==
    LET size == LengthOf(bytes, nextBlockSize[s])
        rest == AfterLength(bytes, nextBlockSize[s])
    IN  IF ~ LengthHere(bytes, nextBlockSize[s])
           THEN buffer' = [buffer EXCEPT ![s] = bytes] /\ UNCHANGED <<nextBlockSize, got>>
        ELSE IF Len(rest) < size
           THEN /\ buffer' = [buffer EXCEPT ![s] = rest]
                /\ nextBlockSize' = [nextBlockSize EXCEPT ![s] = size]
                /\ UNCHANGED got
        ELSE /\ buffer' = [buffer EXCEPT ![s] = SubSeq(rest, size + 1, Len(rest))]
             /\ nextBlockSize' = [nextBlockSize EXCEPT ![s] = AfterMessage(size)]
             /\ got' = [got EXCEPT ![s] = Append(@, MessageOf(SubSeq(rest, 1, size)))]

-----------------------------------------------------------------------------
(* The readers.                                                            *)

\* A client: readyRead, readData, and recvObject once.
readData(s) ==
    /\ \E k \in 1 .. Len(wire[s]) :
          Arrival(s, k) /\ recvObject(s, buffer[s] \o SubSeq(wire[s], 1, k))
    /\ UNCHANGED <<sent, open, slot>>

\* readyRead of a socket of the server, when its main thread is free.
readDataSlot(s) ==
    /\ reading = {} /\ reading' = {s}
    /\ \E k \in 1 .. Len(wire[s]) :
          Arrival(s, k) /\ buffer' = [buffer EXCEPT ![s] = @ \o SubSeq(wire[s], 1, k)]
    /\ UNCHANGED <<sent, open, nextBlockSize, got, waiting>>

\* waitForReadyRead, if the length or the text is not there.
Waits(s) == ~ TextHere(buffer[s], nextBlockSize[s])

\* A turn of the loop.
ReadOne(s) ==
    /\ reading = {s} /\ ~ waiting /\ buffer[s] # <<>>
    /\ recvObject(s, buffer[s])
    /\ waiting' = Waits(s)
    /\ UNCHANGED <<sent, wire, open, reading>>

\* Mutant: one message is all that is read.
EmptyOrRead(s) == buffer[s] = <<>> \/ nextBlockSize[s] = 0

\* bytesAvailable() is 0.
NoMore(s) == buffer[s] = <<>>

SlotEnds(s) ==
    /\ reading = {s} /\ ~ waiting /\ NoMore(s)
    /\ reading' = {}
    /\ UNCHANGED <<sent, wire, open, reader, waiting>>

\* The wait ends with more bytes,
MoreBytes(s) ==
    /\ reading = {s} /\ waiting /\ waiting' = FALSE
    /\ \E k \in 1 .. Len(wire[s]) :
          Arrival(s, k) /\ buffer' = [buffer EXCEPT ![s] = @ \o SubSeq(wire[s], 1, k)]
    /\ UNCHANGED <<sent, open, nextBlockSize, got, reading>>

\* after 30 seconds, or because the connection is closed.
WaitEnds(s) ==
    /\ reading = {s} /\ waiting /\ waiting' = FALSE
    /\ UNCHANGED <<sent, wire, open, reader, reading>>

Server(s) == readDataSlot(s) \/ ReadOne(s) \/ SlotEnds(s) \/ MoreBytes(s) \/ WaitEnds(s)

Next ==
    \/ \E s \in Streams : sendObject(s) \/ Close(s)
    \/ \E s \in Down : readData(s)
    \/ \E s \in Up : Server(s)

\* The network delivers what is on its way, and both programs handle what was
\* delivered; a wait for bytes that come does not always end without them.
Fairness ==
    /\ \A s \in Down : WF_vars(readData(s))
    /\ \A s \in Up :
          /\ WF_vars(readDataSlot(s)) /\ SF_vars(MoreBytes(s))
          /\ WF_vars(ReadOne(s) \/ SlotEnds(s) \/ WaitEnds(s))

Spec == Init /\ [][Next]_vars /\ Fairness

-----------------------------------------------------------------------------
(* Properties.                                                             *)

\* However the bytes are cut, and whatever a timeout interrupts: the messages
\* read are those written, in order, each once.
ReadInOrder == \A s \in Streams : \A i \in DOMAIN got[s] : got[s][i] = i

\* The slot of the server does not return while a message could be read: what
\* it leaves for the next signal is at most a length, in nextBlockSize.
NothingLeft == \A s \in Up : s \notin reading => buffer[s] = <<>>

\* A client has died in the middle of a message.
Cut(s) ==
    /\ ~ open[s] /\ wire[s] = <<>>
    /\ buffer[s] # <<>> /\ ~ TextHere(buffer[s], nextBlockSize[s])

\* The server comes back from every slot, to serve the others, unless the
\* client died in the middle of a message: then the loop never ends.
SlotReturns == []<>(reading = {} \/ \E s \in Up : Cut(s))

\* Again and again the server has read every message that was written, if no
\* client dies: nobody is starved, although a slow one holds up all others.
ServerReadsAll ==
    []<>((\A s \in Up : Len(got[s]) = sent[s]) \/ \E s \in Up : ~ open[s])

ServerKeepsServing == SlotReturns /\ ServerReadsAll

\* What GaClient assumes of readyRead holds: on each of its streams a client
\* reads as Delivery says, one whole message per signal, and one that came with
\* another waits for a signal of its own.
Complete(s) == {m \in 1 .. sent[s] : <<m, Header + Length(m)>> \in Range(buffer[s])}

ClientReads(s) == INSTANCE Delivery WITH
    Messages <- 1 .. MaxMessages,
    queue <- [i \in 1 .. sent[s] - Len(got[s]) |-> Len(got[s]) + i],
    arrived <- Cardinality(Complete(s))

ClientsReadAsAssumed ==
    /\ \A s \in Down : ClientReads(s)!Init
    /\ [][\A s \in Down : [ClientReads(s)!Next]_(ClientReads(s)!vars)]_vars
=============================================================================
