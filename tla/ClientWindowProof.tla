-------------------------- MODULE ClientWindowProof --------------------------
(***************************************************************************)
(* Proofs about ClientWindow, for any number of attempts and any backlog.  *)
(*                                                                         *)
(* WindowInv says that only the one connection that was made can become a  *)
(* computer of the system, and that each other one in the list is closed;  *)
(* GhostInv, that the one is excused as soon as the window thinks that it  *)
(* is disconnected.                                                        *)
(***************************************************************************)
EXTENDS ClientWindow, SequenceTheorems, TLAPS

In(s, m) == \E i \in DOMAIN s : s[i] = m

\* The server knows, or will read, that the client has left.
Excused(k) == Has(k, "DELETE") \/ entry[k] \in {"zombie", "gone"}

\* connected is never reset, and no other attempt is made when it is set.
OnlyOne ==
    /\ socket = "connected" => connected
    /\ connected => socket # "connecting" /\ attempt # 0
    /\ \A k \in Attempts : up[k] # <<>> \/ entry[k] = "known" => connected /\ k = attempt

\* What the server has for a connection.
Known ==
    \A k \in Attempts :
        /\ k > attempt => link[k] = "none"
        /\ entry[k] # "none" => link[k] # "none"
        /\ k \in terminate => entry[k] \in {"zombie", "gone"}

\* An open connection is the one its client stands for.  On the one that was
\* made CONNECT is on its way until the server reads it, or has gone.
Held ==
    /\ \A k \in Attempts : link[k] = "open" => k = attempt /\ process = "running"
    /\ connected =>
          /\ link[attempt] # "none"
          /\ entry[attempt] \in {"none", "accepted"} => Has(attempt, "CONNECT")
    /\ process = "running" /\ socket = "connecting" /\ link[attempt] = "closed" =>
          entry[attempt] = "gone"

\* A client that runs, and its one connection.
Left ==
    process = "running" =>
        /\ connected => link[attempt] # "none" /\ (socket = "idle" => link[attempt] = "closed")
        /\ connected \/ socket = "connecting" =>
              (link[attempt] = "closed" => entry[attempt] = "gone")
        /\ connected /\ ~ windowConnected => Excused(attempt)
        /\ socket = "connecting" /\ ~ windowConnected => In(pending, "DELETE")

\* Who has ended is excused, on the connection that counts.
Excuses == process = "ended" => \A k \in Attempts : Counted(k) => Excused(k)

WindowInv == TypeOK /\ OnlyOne /\ Known /\ Held
GhostInv == Left /\ Excuses

-----------------------------------------------------------------------------
(* Queues of messages.                                                     *)

LEMMA InAppend ==
    ASSUME NEW s \in Seq(Message), NEW c \in Message
    PROVE  /\ Append(s, c) \in Seq(Message) /\ Append(s, c) # <<>>
           /\ \A m : In(Append(s, c), m) <=> In(s, m) \/ m = c
<1>1. /\ Append(s, c) \in Seq(Message) /\ Len(Append(s, c)) = Len(s) + 1 /\ Len(s) \in Nat
      /\ \A i \in 1 .. Len(s) : Append(s, c)[i] = s[i]
      /\ Append(s, c)[Len(s) + 1] = c
  BY AppendProperties, LenProperties
<1>2. DOMAIN s = 1 .. Len(s) /\ DOMAIN Append(s, c) = 1 .. Len(s) + 1
  BY <1>1, LenProperties
<1>3. Append(s, c) # <<>>
  BY <1>1, EmptySeq
<1> DEFINE a == Append(s, c)
<1> HIDE DEF a
<1>4. /\ Len(s) \in Nat /\ DOMAIN s = 1 .. Len(s) /\ DOMAIN a = 1 .. Len(s) + 1
      /\ \A i \in 1 .. Len(s) : a[i] = s[i]
      /\ a[Len(s) + 1] = c
  BY <1>1, <1>2 DEF a
<1>5. ASSUME NEW m PROVE In(a, m) <=> In(s, m) \/ m = c
  <2>1. ASSUME NEW i \in 1 .. Len(s) + 1, a[i] = m PROVE In(s, m) \/ m = c
    BY <1>4, <2>1 DEF In
  <2>2. ASSUME NEW i \in 1 .. Len(s), s[i] = m PROVE In(a, m)
    BY <1>4, <2>2 DEF In
  <2>3. Len(s) + 1 \in 1 .. Len(s) + 1
    BY <1>4
  <2>4. m = c => In(a, m)
    BY <1>4, <2>3 DEF In
  <2> QED  BY <1>4, <2>1, <2>2, <2>4 DEF In
<1> QED  BY <1>1, <1>3, <1>5 DEF a

LEMMA InTail ==
    ASSUME NEW s \in Seq(Message), s # <<>>
    PROVE  /\ Tail(s) \in Seq(Message)
           /\ \A m : In(Tail(s), m) => In(s, m)
           /\ \A m : In(s, m) /\ Head(s) # m => In(Tail(s), m)
<1>1. /\ Tail(s) \in Seq(Message) /\ Len(Tail(s)) = Len(s) - 1
      /\ Len(s) \in Nat \ {0} /\ Head(s) = s[1]
      /\ \A i \in 1 .. Len(s) - 1 : Tail(s)[i] = s[i + 1]
  BY HeadTailProperties, LenProperties, EmptySeq
<1> DEFINE t == Tail(s)
<1>2. DOMAIN s = 1 .. Len(s) /\ DOMAIN t = 1 .. Len(s) - 1
  BY <1>1, LenProperties
<1>3. \A i \in 1 .. Len(s) - 1 : t[i] = s[i + 1]
  BY <1>1
<1> HIDE DEF t
<1>4. ASSUME NEW m, NEW i \in 1 .. Len(s) - 1, t[i] = m PROVE In(s, m)
  <2>1. i + 1 \in 1 .. Len(s)
    BY <1>1
  <2> QED  BY <1>2, <1>3, <1>4, <2>1 DEF In
<1>5. ASSUME NEW m, NEW i \in 1 .. Len(s), s[i] = m, Head(s) # m PROVE In(t, m)
  <2>1. i - 1 \in 1 .. Len(s) - 1 /\ (i - 1) + 1 = i
    BY <1>1, <1>5
  <2>2. t[i - 1] = m
    BY <1>3, <1>5, <2>1
  <2> QED  BY <1>2, <2>1, <2>2 DEF In
<1> QED  BY <1>1, <1>2, <1>4, <1>5 DEF In, t

LEMMA InConnect ==
    ASSUME NEW s \in Seq(Message)
    PROVE  /\ s \o <<"CONNECT">> \in Seq(Message)
           /\ In(s, "DELETE") => In(s \o <<"CONNECT">>, "DELETE")
           /\ In(s \o <<"CONNECT">>, "CONNECT")
<1>1. s \o <<"CONNECT">> = Append(s, "CONNECT")
  BY AppendIsConcat DEF Message
<1>2. "CONNECT" \in Message
  BY DEF Message
<1>3. /\ Append(s, "CONNECT") \in Seq(Message)
      /\ \A m : In(Append(s, "CONNECT"), m) <=> In(s, m) \/ m = "CONNECT"
  BY <1>2, InAppend
<1> QED  BY <1>1, <1>3
-----------------------------------------------------------------------------
(* Type correctness.                                                       *)

LEMMA HangupType ==
    ASSUME TypeOK
    PROVE  /\ Hangup \in [Attempts -> {"none", "open", "closed"}]
           /\ \A k \in Attempts : Hangup[k] = "none" <=> link[k] = "none"
           /\ \A k \in Attempts : k # attempt => Hangup[k] = link[k]
  BY DEF TypeOK, Hangup

LEMMA WriteType ==
    ASSUME TypeOK, NEW m \in Message, Write(m)
    PROVE  /\ socket' \in {"idle", "connecting", "connected"}
           /\ (socket' # "idle" => attempt # 0)
           /\ pending' \in Seq(Message) /\ (pending' # <<>> => socket' = "connecting")
           /\ link' \in [Attempts -> {"none", "open", "closed"}]
           /\ up' \in [Attempts -> Seq(Message)]
<1>1. CASE socket = "connected"
  <2>1. attempt \in Attempts /\ Append(up[attempt], m) \in Seq(Message)
    BY <1>1, InAppend DEF TypeOK
  <2> QED  BY <1>1, <2>1 DEF TypeOK, Write
<1>2. CASE socket = "connecting"
  <2>1. Append(pending, m) \in Seq(Message) /\ <<>> \in Seq(Message)
    BY InAppend DEF TypeOK
  <2> QED  BY <1>2, <2>1, HangupType DEF TypeOK, Write
<1>3. CASE socket = "idle"
  BY <1>3 DEF TypeOK, Write
<1> QED  BY <1>1, <1>2, <1>3 DEF TypeOK

LEMMA TypeStep == ASSUME TypeOK, [Next]_vars PROVE TypeOK'
<1> <<>> \in Seq(Message) /\ Message = {"CONNECT", "DELETE"}
  BY DEF Message
<1>1. CASE connectToServer
  <2>1. CASE connected
    BY <1>1, <2>1 DEF connectToServer, Dial, TypeOK, serverVars
  <2>2. CASE ~ connected
    <3>1. attempt' \in Attempts
      BY <1>1, <2>2, WindowAssumption DEF connectToServer, Dial, TypeOK, Attempts
    <3> QED  BY <1>1, <2>2, <3>1, HangupType
             DEF connectToServer, Dial, TypeOK, serverVars, Attempts
  <2> QED  BY <2>1, <2>2
<1>2. CASE AskDisconnect \/ No \/ closeEvent
  BY <1>2 DEF AskDisconnect, No, closeEvent, TypeOK, serverVars
<1>3. CASE DisconnectYes
  <2>1. CASE windowConnected
    <3>1. Write("DELETE")
      BY <1>3, <2>1 DEF DisconnectYes
    <3> QED  BY <1>3, <3>1, WriteType DEF DisconnectYes, TypeOK, serverVars
  <2>2. CASE ~ windowConnected
    BY <1>3, <2>2 DEF DisconnectYes, TypeOK, serverVars
  <2> QED  BY <2>1, <2>2
<1>4. CASE quitSlot
  BY <1>4, HangupType DEF quitSlot, End, TypeOK, serverVars
<1>5. CASE CloseYes
  <2>1. up' \in [Attempts -> Seq(Message)]
    <3>1. \A k \in Attempts : Append(up[k], "DELETE") \in Seq(Message)
      BY InAppend DEF TypeOK
    <3> QED  BY <1>5, <3>1 DEF CloseYes, Farewell, TypeOK
  <2> QED  BY <1>5, <2>1, HangupType DEF CloseYes, End, TypeOK, serverVars
<1>6. CASE Handshake
  BY <1>6 DEF Handshake, TypeOK, clientVars, serverVars
<1>7. CASE connectSlot
  <2>1. attempt \in Attempts /\ pending \o <<"CONNECT">> \in Seq(Message)
    BY <1>7, InConnect DEF connectSlot, TypeOK
  <2>2. up' \in [Attempts -> Seq(Message)]
    BY <1>7, <2>1 DEF connectSlot, TypeOK
  <2> QED  BY <1>7, <2>1, <2>2 DEF connectSlot, TypeOK, serverVars
<1>8. CASE Refused \/ RemoteHostClosed
  BY <1>8 DEF Refused, RemoteHostClosed, displayError, TypeOK, serverVars
<1>9. CASE RecvTerminate
  BY <1>9, HangupType DEF RecvTerminate, End, TypeOK, serverVars
<1>10. ASSUME NEW k \in Attempts, Accept(k) \/ Overlook(k) \/ TakeConnect(k) \/ TakeDelete(k) \/ Terminate(k)
       PROVE  TypeOK'
  <2>1. CASE Accept(k)
    BY <2>1 DEF Accept, TypeOK, clientVars
  <2>5. CASE Overlook(k)
    BY <2>5 DEF Overlook, TypeOK, clientVars
  <2>2. CASE TakeConnect(k)
    <3>1. Tail(up[k]) \in Seq(Message)
      BY <2>2, InTail DEF TakeConnect, Take, TypeOK
    <3> QED  BY <2>2, <3>1 DEF TakeConnect, TypeOK, clientVars
  <2>3. CASE TakeDelete(k)
    BY <2>3 DEF TakeDelete, TypeOK, clientVars
  <2>4. CASE Terminate(k)
    BY <2>4 DEF Terminate, TypeOK, clientVars
  <2> QED  BY <1>10, <2>1, <2>2, <2>3, <2>4, <2>5
<1>11. CASE ServerEnds \/ ServerStarts
  BY <1>11 DEF ServerEnds, ServerStarts, TypeOK, clientVars
<1>12. CASE UNCHANGED vars
  BY <1>12 DEF vars, clientVars, serverVars, TypeOK
<1> QED
  BY <1>1, <1>2, <1>3, <1>4, <1>5, <1>6, <1>7, <1>8, <1>9, <1>10, <1>11, <1>12
  DEF Next, User, Socket, ServerReads
-----------------------------------------------------------------------------
(* One connection.                                                         *)

\* What a client writes when it is connected goes to its one connection.
LEMMA WriteStep ==
    ASSUME WindowInv, NEW m \in Message, Write(m)
    PROVE  /\ socket' = "connected" => connected
           /\ connected => socket' = socket /\ UNCHANGED <<pending, link>>
           /\ \A k \in Attempts : up'[k] # up[k] => connected /\ k = attempt
           /\ \A k \in Attempts : link'[k] = "none" <=> link[k] = "none"
<1>1. CASE socket = "connected"
  BY <1>1 DEF WindowInv, TypeOK, OnlyOne, Write
<1>2. CASE socket = "connecting"
  <2>1. ~ connected
    BY <1>2 DEF WindowInv, OnlyOne
  <2> QED  BY <1>2, <2>1, HangupType DEF WindowInv, TypeOK, OnlyOne, Write
<1>3. CASE socket = "idle"
  BY <1>3 DEF WindowInv, TypeOK, OnlyOne, Write
<1> QED  BY <1>1, <1>2, <1>3 DEF WindowInv, TypeOK

\* Steps of the user.
LEMMA UserStep == ASSUME WindowInv, User PROVE OnlyOne' /\ Known'
<1> USE DEF WindowInv
<1>1. CASE connectToServer
  <2>1. CASE connected
    BY <1>1, <2>1 DEF connectToServer, Dial, OnlyOne, Known, serverVars
  <2>2. CASE ~ connected
    <3>1. /\ socket' = "connecting" /\ attempt' = attempt + 1 /\ link' = Hangup
          /\ UNCHANGED <<connected, up, serverVars>>
      BY <1>1, <2>2 DEF connectToServer, Dial
    <3>2. OnlyOne'
      BY <2>2, <3>1 DEF OnlyOne, serverVars
    <3>3. \A k \in Attempts : k > attempt + 1 => k > attempt
      BY DEF TypeOK, Attempts
    <3> QED  BY <3>1, <3>2, <3>3, HangupType DEF Known, serverVars
  <2> QED  BY <2>1, <2>2
<1>2. CASE AskDisconnect \/ No \/ closeEvent
  BY <1>2 DEF AskDisconnect, No, closeEvent, OnlyOne, Known, serverVars
<1>3. CASE DisconnectYes
  <2>1. CASE windowConnected
    <3>1. Write("DELETE") /\ UNCHANGED <<attempt, connected, serverVars>>
      BY <1>3, <2>1 DEF DisconnectYes
    <3>2. "DELETE" \in Message
      BY DEF Message
    <3>3. /\ socket' = "connected" => connected
          /\ connected => socket' = socket
          /\ \A k \in Attempts : up'[k] # up[k] => connected /\ k = attempt
          /\ \A k \in Attempts : link'[k] = "none" <=> link[k] = "none"
      BY <3>1, <3>2, WriteStep
    <3>4. OnlyOne'
      BY <3>1, <3>3 DEF OnlyOne, serverVars
    <3> QED  BY <3>1, <3>3, <3>4 DEF Known, serverVars
  <2>2. CASE ~ windowConnected
    BY <1>3, <2>2 DEF DisconnectYes, OnlyOne, Known, serverVars
  <2> QED  BY <2>1, <2>2
<1>4. CASE quitSlot
  BY <1>4, HangupType DEF quitSlot, End, OnlyOne, Known, serverVars
<1>5. CASE CloseYes
  <2>1. \A k \in Attempts : up'[k] # up[k] => connected /\ k = attempt
    BY <1>5 DEF CloseYes, Farewell, TypeOK, OnlyOne
  <2> QED  BY <1>5, <2>1, HangupType DEF CloseYes, End, OnlyOne, Known, serverVars
<1> QED  BY <1>1, <1>2, <1>3, <1>4, <1>5 DEF User

\* Steps of the socket.
LEMMA SocketStep == ASSUME WindowInv, Socket PROVE OnlyOne' /\ Known'
<1> USE DEF WindowInv
<1>1. CASE Handshake
  <2>1. attempt \in Attempts /\ link' = [link EXCEPT ![attempt] = "open"]
        /\ UNCHANGED <<clientVars, up, serverVars>>
    BY <1>1 DEF Handshake, TypeOK
  <2>2. \A k \in Attempts : k > attempt => k # attempt
    BY DEF TypeOK, Attempts
  <2> QED  BY <2>1, <2>2 DEF TypeOK, OnlyOne, Known, clientVars, serverVars
<1>2. CASE connectSlot
  <2>1. attempt \in Attempts /\ attempt # 0 /\ ~ connected
    BY <1>2 DEF connectSlot, TypeOK, Attempts, OnlyOne
  <2>2. \A k \in Attempts : up'[k] # up[k] => k = attempt
    BY <1>2, <2>1 DEF connectSlot, TypeOK
  <2> QED  BY <1>2, <2>1, <2>2 DEF connectSlot, OnlyOne, Known, serverVars
<1>3. CASE Refused \/ RemoteHostClosed
  BY <1>3 DEF Refused, RemoteHostClosed, OnlyOne, Known, serverVars
<1>4. CASE RecvTerminate
  BY <1>4, HangupType DEF RecvTerminate, End, OnlyOne, Known, serverVars
<1> QED  BY <1>1, <1>2, <1>3, <1>4 DEF Socket

\* Steps of the server.
LEMMA ServerStep ==
    ASSUME WindowInv,
           ServerReads \/ ServerEnds \/ ServerStarts \/ \E k \in Attempts : Terminate(k)
    PROVE  OnlyOne' /\ Known'
<1> USE DEF WindowInv
<1>1. ASSUME NEW k \in Attempts, Accept(k) PROVE OnlyOne' /\ Known'
  BY <1>1 DEF Accept, TypeOK, OnlyOne, Known, clientVars
<1>7. ASSUME NEW k \in Attempts, Overlook(k) PROVE OnlyOne' /\ Known'
  BY <1>7 DEF Overlook, TypeOK, OnlyOne, Known, clientVars
<1>2. ASSUME NEW k \in Attempts, TakeConnect(k) PROVE OnlyOne' /\ Known'
  <2>1. connected /\ k = attempt
    BY <1>2 DEF TakeConnect, Take, OnlyOne
  <2>2. /\ \A l \in Attempts : l # k => up'[l] = up[l] /\ entry'[l] = entry[l]
        /\ entry[k] \in {"accepted", "known", "zombie"}
        /\ entry'[k] = IF entry[k] = "accepted" THEN "known" ELSE entry[k]
        /\ UNCHANGED <<clientVars, link, terminate>>
    BY <1>2 DEF TakeConnect, Take, TypeOK
  <2>3. OnlyOne'
    BY <2>1, <2>2 DEF OnlyOne, clientVars
  <2>4. ASSUME NEW l \in Attempts
        PROVE  /\ entry'[l] # "none" => entry[l] # "none"
               /\ entry[l] \in {"zombie", "gone"} => entry'[l] \in {"zombie", "gone"}
    BY <2>2
  <2> QED  BY <2>2, <2>3, <2>4 DEF Known, clientVars
<1>3. ASSUME NEW k \in Attempts, TakeDelete(k) PROVE OnlyOne' /\ Known'
  BY <1>3 DEF TakeDelete, Take, TypeOK, OnlyOne, Known, clientVars
<1>4. ASSUME NEW k \in Attempts, Terminate(k) PROVE OnlyOne' /\ Known'
  BY <1>4 DEF Terminate, InList, TypeOK, OnlyOne, Known, clientVars
<1>5. CASE ServerEnds
  BY <1>5 DEF ServerEnds, TypeOK, OnlyOne, Known, clientVars
<1>6. CASE ServerStarts
  BY <1>6 DEF ServerStarts, OnlyOne, Known, clientVars
<1> QED  BY <1>1, <1>2, <1>3, <1>4, <1>5, <1>6, <1>7 DEF ServerReads

\* Connections that are open, and the first message of the one that was made.
LEMMA HeldUser == ASSUME WindowInv, User PROVE Held'
<1> USE DEF WindowInv
<1>0. process = "running"
  BY DEF User, connectToServer, AskDisconnect, DisconnectYes, No, quitSlot, closeEvent,
         CloseYes, Free
<1>1. CASE connectToServer
  <2>1. CASE connected
    BY <1>1, <2>1 DEF connectToServer, Dial, Held, Has, serverVars
  <2>2. CASE ~ connected
    <3>1. /\ attempt' = attempt + 1 /\ attempt < MaxAttempts /\ link' = Hangup
          /\ ~ connected' /\ UNCHANGED <<process, up, entry>>
      BY <1>1, <2>2 DEF connectToServer, Dial, serverVars
    <3>2. \A k \in Attempts : Hangup[k] # "open"
      BY DEF Hangup, Held
    <3>3. attempt + 1 \in Attempts /\ attempt + 1 > attempt
      BY <3>1, WindowAssumption DEF TypeOK, Attempts
    <3>4. link'[attempt'] = "none"
      BY <3>1, <3>3, HangupType DEF Known
    <3> QED  BY <3>1, <3>2, <3>4 DEF Held
  <2> QED  BY <2>1, <2>2
<1>2. CASE AskDisconnect \/ No \/ closeEvent
  BY <1>2 DEF AskDisconnect, No, closeEvent, Held, Has, serverVars
<1>3. CASE DisconnectYes
  <2>1. CASE windowConnected
    <3>1. /\ Write("DELETE") /\ "DELETE" \in Message
          /\ UNCHANGED <<process, attempt, connected, entry>>
      BY <1>3, <2>1 DEF DisconnectYes, serverVars, Message
    <3>2. CASE connected
      <4>1. attempt \in Attempts /\ socket # "connecting" /\ socket' = socket /\ link' = link
        BY <3>1, <3>2, WriteStep DEF OnlyOne, TypeOK
      <4>2. up'[attempt] = up[attempt] \/ up'[attempt] = Append(up[attempt], "DELETE")
        BY <3>1, <4>1 DEF Write, TypeOK
      <4>3. Has(attempt, "CONNECT") => Has(attempt, "CONNECT")'
        <5>1. In(up[attempt], "CONNECT") => In(up'[attempt], "CONNECT")
          <6>1. up[attempt] \in Seq(Message)
            BY <4>1 DEF TypeOK
          <6>2. In(up[attempt], "CONNECT") => In(Append(up[attempt], "DELETE"), "CONNECT")
            BY <3>1, <6>1, InAppend
          <6> QED  BY <4>2, <6>2
        <5> QED  BY <3>1, <5>1 DEF Has, In
      <4> QED  BY <3>1, <3>2, <4>1, <4>3 DEF Held
    <3>3. CASE ~ connected
      <4>1. \/ UNCHANGED <<socket, link>>
            \/ socket' = "idle" /\ link' = Hangup
        BY <3>1, <3>3 DEF Write, OnlyOne
      <4>2. \A k \in Attempts : link'[k] = "open" => link[k] = "open"
        BY <4>1 DEF Hangup, TypeOK
      <4> QED  BY <3>1, <3>3, <4>1, <4>2 DEF Held
    <3> QED  BY <3>2, <3>3
  <2>2. CASE ~ windowConnected
    BY <1>3, <2>2 DEF DisconnectYes, Held, Has, serverVars
  <2> QED  BY <2>1, <2>2
<1>4. CASE quitSlot \/ CloseYes
  <2>1. /\ End /\ link' = Hangup
        /\ \/ up' = up
           \/ /\ connected /\ attempt \in Attempts
              /\ up' = [up EXCEPT ![attempt] = Append(@, "DELETE")]
    BY <1>4 DEF quitSlot, CloseYes, Farewell, OnlyOne, TypeOK
  <2>2. connected => (Has(attempt, "CONNECT") => Has(attempt, "CONNECT")')
    <3>1. CASE up' = up
      BY <2>1, <3>1 DEF Has, End
    <3>2. CASE /\ connected /\ attempt \in Attempts
               /\ up' = [up EXCEPT ![attempt] = Append(@, "DELETE")]
      <4>1. "DELETE" \in Message /\ up'[attempt] = Append(up[attempt], "DELETE")
        BY <3>2 DEF TypeOK, Message
      <4>2. In(up[attempt], "CONNECT") => In(up'[attempt], "CONNECT")
        BY <3>2, <4>1, InAppend DEF TypeOK
      <4> QED  BY <2>1, <4>2 DEF Has, In, End
    <3> QED  BY <2>1, <3>1, <3>2
  <2>3. \A k \in Attempts : link'[k] # "open"
    BY <2>1 DEF Hangup, Held
  <2>4. connected => link'[attempt] # "none"
    BY <2>1, HangupType DEF Held, OnlyOne, TypeOK
  <2>5. process' = "ended" /\ UNCHANGED <<attempt, connected, entry>>
    BY <2>1 DEF End, serverVars
  <2> QED  BY <2>2, <2>3, <2>4, <2>5 DEF Held
<1> QED  BY <1>1, <1>2, <1>3, <1>4 DEF User

LEMMA HeldSocket == ASSUME WindowInv, Socket PROVE Held'
<1> USE DEF WindowInv
<1>1. CASE Handshake
  BY <1>1 DEF Handshake, Held, OnlyOne, TypeOK, Has, clientVars, serverVars
<1>2. CASE connectSlot
  <2>1. /\ attempt \in Attempts /\ link[attempt] # "none" /\ process = "running"
        /\ socket = "connecting" /\ socket' = "connected"
        /\ UNCHANGED <<process, attempt, link, entry>>
    BY <1>2 DEF connectSlot, TypeOK, serverVars
  <2>2. CASE link[attempt] = "open"
    <3>1. up'[attempt] = pending \o <<"CONNECT">>
      BY <1>2, <2>1, <2>2 DEF connectSlot, TypeOK
    <3>2. In(up'[attempt], "CONNECT")
      BY <3>1, InConnect DEF TypeOK
    <3>3. Has(attempt, "CONNECT")'
      BY <2>1, <3>2 DEF Has, In
    <3> QED  BY <2>1, <3>3 DEF Held
  <2>3. CASE link[attempt] # "open"
    <3>1. entry[attempt] = "gone"
      BY <2>1, <2>3 DEF Held, TypeOK
    <3> QED  BY <2>1, <3>1 DEF Held
  <2> QED  BY <2>2, <2>3
<1>3. CASE Refused \/ RemoteHostClosed
  BY <1>3 DEF Refused, RemoteHostClosed, Held, Has, serverVars
<1>4. CASE RecvTerminate
  <2>1. /\ process' = "ended" /\ link' = Hangup
        /\ UNCHANGED <<attempt, connected, entry, up>>
    BY <1>4 DEF RecvTerminate, End, serverVars
  <2>2. \A k \in Attempts : link'[k] # "open"
    BY <2>1 DEF Hangup, Held
  <2>3. connected => link'[attempt] # "none"
    BY <2>1, HangupType DEF Held, OnlyOne, TypeOK
  <2> QED  BY <2>1, <2>2, <2>3 DEF Held, Has
<1> QED  BY <1>1, <1>2, <1>3, <1>4 DEF Socket

LEMMA HeldServer ==
    ASSUME WindowInv,
           ServerReads \/ ServerEnds \/ ServerStarts \/ \E k \in Attempts : Terminate(k)
    PROVE  Held'
<1> USE DEF WindowInv
<1>1. ASSUME NEW k \in Attempts, Accept(k) \/ Overlook(k) \/ Terminate(k) PROVE Held'
  <2>1. /\ UNCHANGED <<clientVars, link, up>>
        /\ \A l \in Attempts : entry'[l] \in {"none", "accepted"} =>
              entry[l] \in {"none", "accepted"}
        /\ \A l \in Attempts : entry[l] = "gone" => entry'[l] = "gone"
    BY <1>1 DEF Accept, Overlook, Terminate, InList, TypeOK
  <2>2. (connected \/ socket = "connecting") => attempt \in Attempts
    BY DEF OnlyOne, TypeOK
  <2> QED  BY <2>1, <2>2 DEF Held, Has, clientVars
<1>2. ASSUME NEW k \in Attempts, TakeConnect(k) \/ TakeDelete(k) PROVE Held'
  <2>1. connected /\ k = attempt /\ socket # "connecting"
    BY <1>2 DEF TakeConnect, TakeDelete, Take, OnlyOne
  <2>2. /\ UNCHANGED clientVars
        /\ entry'[attempt] \notin {"none", "accepted"}
        /\ link'[attempt] # "none"
        /\ \A l \in Attempts : link'[l] = "open" => link[l] = "open"
    BY <1>2, <2>1 DEF TakeConnect, TakeDelete, Take, TypeOK, Held
  <2> QED  BY <2>1, <2>2 DEF Held, clientVars
<1>3. CASE ServerEnds
  <2>1. /\ UNCHANGED clientVars
        /\ \A l \in Attempts : /\ link'[l] # "open"
                               /\ link'[l] = "none" <=> link[l] = "none"
                               /\ link[l] # "none" => entry'[l] = "gone"
    BY <1>3 DEF ServerEnds, TypeOK
  <2>2. (connected \/ socket = "connecting") => attempt \in Attempts
    BY DEF OnlyOne, TypeOK
  <2> QED  BY <2>1, <2>2 DEF Held, clientVars
<1>4. CASE ServerStarts
  BY <1>4 DEF ServerStarts, Held, Has, clientVars
<1> QED  BY <1>1, <1>2, <1>3, <1>4 DEF ServerReads

LEMMA WindowInit == Init => WindowInv
<1> SUFFICES ASSUME Init PROVE WindowInv
  OBVIOUS
<1>1. <<>> \in Seq(Message)
  BY EmptySeq
<1>2. 1 \in Attempts /\ 0 \notin Attempts
  BY WindowAssumption DEF Attempts
<1>3. TypeOK
  BY <1>1, <1>2 DEF Init, TypeOK
<1> QED  BY <1>2, <1>3 DEF Init, WindowInv, OnlyOne, Known, Held

LEMMA WindowStep == ASSUME WindowInv, [Next]_vars PROVE WindowInv'
<1>1. TypeOK'
  BY TypeStep DEF WindowInv
<1>2. CASE UNCHANGED vars
  BY <1>2 DEF WindowInv, OnlyOne, Known, Held, Has, vars, clientVars, serverVars, TypeOK
<1>3. CASE Next
  <2>1. OnlyOne' /\ Known'
    BY <1>3, UserStep, SocketStep, ServerStep DEF Next
  <2>2. Held'
    BY <1>3, HeldUser, HeldSocket, HeldServer DEF Next
  <2> QED  BY <1>1, <2>1, <2>2 DEF WindowInv
<1> QED  BY <1>2, <1>3

LEMMA WindowAlways == Spec => []WindowInv
<1> QED  BY WindowInit, WindowStep, PTL DEF Spec

\* What was accepted and neither counts nor will is an attempt that was given
\* up, or that its client ended in.
LEMMA AcceptedIsOrphan ==
    ASSUME WindowInv, NEW k \in Attempts, entry[k] = "accepted", ~ Counted(k),
           process = "ended" \/ k # attempt
    PROVE  Orphan(k)
<1> USE DEF WindowInv
<1>1. ~ (connected /\ k = attempt)
  BY DEF Held, Counted
<1>2. up[k] = <<>>
  BY <1>1 DEF OnlyOne
<1>3. link[k] = "closed"
  BY DEF Known, Held, TypeOK
<1> QED  BY <1>1, <1>2, <1>3 DEF Orphan
-----------------------------------------------------------------------------
(* Whoever ends is excused.                                                *)

\* A connection that was made and is closed is gone for the server.
LEMMA ClosedIsGone ==
    ASSUME WindowInv, Left, process = "running", connected \/ socket = "connecting",
           link[attempt] # "open"
    PROVE  connected => Excused(attempt)
<1>1. CASE connected
  <2>1. attempt \in Attempts /\ link[attempt] # "none"
    BY <1>1 DEF Left, WindowInv, OnlyOne, TypeOK
  <2>2. link[attempt] = "closed"
    BY <2>1 DEF WindowInv, TypeOK
  <2> QED  BY <1>1, <2>2 DEF Left, Excused
<1> QED  BY <1>1

\* A running client whose window says that it is not connected is excused.
LEMMA ExcusedAtEnd ==
    ASSUME WindowInv, Left, process = "running", ~ windowConnected
    PROVE  \A k \in Attempts : Counted(k) => Excused(k)
<1>1. ASSUME NEW k \in Attempts, Counted(k) PROVE connected /\ k = attempt
  <2>1. up[k] # <<>> \/ entry[k] = "known"
    BY <1>1 DEF Counted, Has
  <2> QED  BY <2>1 DEF WindowInv, OnlyOne
<1> QED  BY <1>1 DEF Left

\* What the server does neither takes an excuse away nor counts anew.
LEMMA ServerExcuses ==
    ASSUME WindowInv,
           ServerReads \/ ServerEnds \/ ServerStarts \/ \E k \in Attempts : Terminate(k),
           NEW k \in Attempts
    PROVE  /\ Excused(k) /\ link[k] # "none" => Excused(k)'
           /\ Counted(k)' => Counted(k) /\ (Excused(k) => Excused(k)')
           /\ link[k] # "none" => link'[k] # "none"
           /\ link[k] = "closed" => link'[k] = "closed"
           /\ link'[k] = "closed" => entry'[k] = "gone" \/ link[k] = "closed"
           /\ entry[k] = "gone" => entry'[k] = "gone"
           /\ UNCHANGED clientVars
<1> USE DEF WindowInv
<1>1. ASSUME NEW l \in Attempts, Accept(l) \/ Overlook(l)
      PROVE  /\ entry'[k] # entry[k] =>
                    entry[k] = "none" /\ entry'[k] \in {"accepted", "overlooked"}
             /\ UNCHANGED <<clientVars, link, up>>
  BY <1>1 DEF Accept, Overlook, TypeOK
<1>2. ASSUME NEW l \in Attempts, TakeConnect(l)
      PROVE  /\ up[l] # <<>> /\ Head(up[l]) = "CONNECT"
             /\ up'[k] = IF k = l THEN Tail(up[k]) ELSE up[k]
             /\ entry'[k] # entry[k] => k = l /\ entry[k] = "accepted" /\ entry'[k] = "known"
             /\ UNCHANGED <<clientVars, link>>
  BY <1>2 DEF TakeConnect, Take, TypeOK
<1>3. ASSUME NEW l \in Attempts, TakeDelete(l)
      PROVE  /\ k = l => entry'[k] = "gone" /\ link'[k] = "closed" /\ up'[k] = <<>>
             /\ k # l => entry'[k] = entry[k] /\ link'[k] = link[k] /\ up'[k] = up[k]
             /\ UNCHANGED clientVars
  BY <1>3 DEF TakeDelete, TypeOK
<1>4. ASSUME NEW l \in Attempts, Terminate(l)
      PROVE  /\ entry'[k] # entry[k] => entry[k] \in {"accepted", "known"}
             /\ entry'[k] \in {entry[k], "zombie"}
             /\ UNCHANGED <<clientVars, link, up>>
  BY <1>4 DEF Terminate, InList, TypeOK
<1>5. CASE ServerEnds
  <2>1. /\ entry'[k] = IF link[k] = "none" THEN "none" ELSE "gone"
        /\ link'[k] = IF link[k] = "open" THEN "closed" ELSE link[k]
        /\ up'[k] = <<>> /\ UNCHANGED clientVars
    BY <1>5 DEF ServerEnds
  <2>2. entry[k] = "gone" => link[k] # "none"
    BY DEF Known
  <2>3. ~ Counted(k)'
    BY <2>1 DEF Counted, Has
  <2> QED  BY <2>1, <2>2, <2>3 DEF Excused
<1>6. CASE ServerStarts
  BY <1>6 DEF ServerStarts, Excused, Counted, Has
<1>7. ASSUME NEW l \in Attempts,
             Accept(l) \/ Overlook(l) \/ TakeConnect(l) \/ TakeDelete(l) \/ Terminate(l)
      PROVE  /\ Excused(k) /\ link[k] # "none" => Excused(k)'
             /\ Counted(k)' => Counted(k) /\ (Excused(k) => Excused(k)')
             /\ link[k] # "none" => link'[k] # "none"
             /\ link[k] = "closed" => link'[k] = "closed"
             /\ link'[k] = "closed" => entry'[k] = "gone" \/ link[k] = "closed"
             /\ entry[k] = "gone" => entry'[k] = "gone"
             /\ UNCHANGED clientVars
  <2>1. CASE Accept(l) \/ Overlook(l)
    BY <1>1, <2>1 DEF Excused, Counted, Has
  <2>2. CASE TakeConnect(l)
    <3>1. CASE k = l
      <4>1. up[k] \in Seq(Message)
        BY DEF TypeOK
      <4>2. /\ \A m : In(Tail(up[k]), m) => In(up[k], m)
            /\ In(up[k], "DELETE") => In(Tail(up[k]), "DELETE")
        BY <1>2, <2>2, <3>1, <4>1, InTail
      <4>3. In(up[k], "CONNECT")
        <5>1. up[k][1] = "CONNECT" /\ 1 \in DOMAIN up[k]
          BY <1>2, <2>2, <3>1, <4>1, HeadTailProperties, LenProperties, EmptySeq
        <5> QED  BY <5>1 DEF In
      <4>4. Excused(k) => Excused(k)'
        <5>1. Has(k, "DELETE") => Has(k, "DELETE")'
          BY <1>2, <2>2, <3>1, <4>2 DEF Has, In
        <5>2. entry[k] \in {"zombie", "gone"} => entry'[k] = entry[k]
          BY <1>2, <2>2, <3>1
        <5> QED  BY <5>1, <5>2 DEF Excused
      <4>5. Counted(k)
        BY <4>3 DEF Counted, Has, In
      <4> QED  BY <1>2, <2>2, <3>1, <4>4, <4>5
    <3>2. CASE k # l
      BY <1>2, <2>2, <3>2 DEF Excused, Counted, Has
    <3> QED  BY <3>1, <3>2
  <2>3. CASE TakeDelete(l)
    BY <1>3, <2>3 DEF Excused, Counted, Has
  <2>4. CASE Terminate(l)
    BY <1>4, <2>4 DEF Excused, Counted, Has
  <2> QED  BY <1>7, <2>1, <2>2, <2>3, <2>4
<1> QED  BY <1>5, <1>6, <1>7 DEF ServerReads
LEMMA GhostServer ==
    ASSUME WindowInv, GhostInv,
           ServerReads \/ ServerEnds \/ ServerStarts \/ \E k \in Attempts : Terminate(k)
    PROVE  GhostInv'
<1>1. UNCHANGED clientVars
  <2>1. 1 \in Attempts
    BY WindowAssumption DEF Attempts
  <2> QED  BY <2>1, ServerExcuses
<1>2. Excuses'
  <2>1. ASSUME NEW k \in Attempts, Counted(k)', process = "ended"
        PROVE  Excused(k)'
    <3>1. Counted(k) /\ (Excused(k) => Excused(k)')
      BY <2>1, ServerExcuses
    <3> QED  BY <2>1, <3>1 DEF GhostInv, Excuses, Excused
  <2> QED  BY <1>1, <2>1 DEF Excuses, Excused, clientVars
<1>3. ASSUME process = "running" PROVE Left'
  <2>1. CASE connected \/ socket = "connecting"
    <3>1. attempt \in Attempts
      BY <2>1 DEF WindowInv, TypeOK, OnlyOne
    <3>2. /\ Excused(attempt) /\ link[attempt] # "none" => Excused(attempt)'
          /\ link[attempt] # "none" => link'[attempt] # "none"
          /\ link[attempt] = "closed" => link'[attempt] = "closed"
          /\ link'[attempt] = "closed" => entry'[attempt] = "gone" \/ link[attempt] = "closed"
          /\ entry[attempt] = "gone" => entry'[attempt] = "gone"
          /\ attempt' = attempt
      BY <1>1, <3>1, ServerExcuses DEF clientVars
    <3> QED  BY <1>1, <1>3, <2>1, <3>2 DEF GhostInv, Left, clientVars
  <2>2. CASE ~ connected /\ socket # "connecting"
    BY <1>1, <2>2 DEF Left, clientVars
  <2> QED  BY <2>1, <2>2
<1> QED  BY <1>1, <1>2, <1>3 DEF GhostInv, Left, clientVars

LEMMA GhostSocket ==
    ASSUME WindowInv, GhostInv, Socket PROVE GhostInv'
<1> USE DEF WindowInv
<1>1. process = "running"
  BY DEF Socket, Handshake, connectSlot, Refused, RemoteHostClosed, RecvTerminate
<1>2. CASE Handshake
  BY <1>1, <1>2 DEF Handshake, TypeOK, GhostInv, Left, Excuses, Excused, Has, clientVars,
                    serverVars
<1>3. CASE connectSlot
  <2>1. /\ attempt \in Attempts /\ link[attempt] \in {"open", "closed"} /\ ~ connected
        /\ socket = "connecting" /\ process' = "running"
        /\ UNCHANGED <<attempt, windowConnected, link, entry>>
        /\ socket' = "connected" /\ connected'
    BY <1>3 DEF connectSlot, TypeOK, OnlyOne, serverVars
  <2>2. CASE link[attempt] = "open"
    <3>1. up'[attempt] = pending \o <<"CONNECT">>
      BY <1>3, <2>1, <2>2 DEF connectSlot, TypeOK
    <3>2. ~ windowConnected => In(up'[attempt], "DELETE")
      BY <1>1, <2>1, <3>1, InConnect DEF GhostInv, Left, TypeOK
    <3>3. ~ windowConnected => Excused(attempt)'
      BY <2>1, <3>2 DEF Excused, Has, In
    <3> QED  BY <2>1, <2>2, <3>3 DEF GhostInv, Left, Excuses
  <2>3. CASE link[attempt] = "closed"
    <3>1. entry[attempt] = "gone"
      BY <1>1, <2>1, <2>3 DEF GhostInv, Left
    <3> QED  BY <2>1, <2>3, <3>1 DEF GhostInv, Left, Excuses, Excused
  <2> QED  BY <2>1, <2>2, <2>3
<1>4. CASE Refused
  BY <1>1, <1>4 DEF Refused, OnlyOne, GhostInv, Left, Excuses, serverVars
<1>5. CASE RemoteHostClosed
  <2>1. /\ connected /\ link[attempt] = "closed" /\ entry[attempt] = "gone"
        /\ process' = "running" /\ socket' = "idle"
        /\ UNCHANGED <<attempt, connected, link, entry>>
    BY <1>1, <1>5 DEF RemoteHostClosed, OnlyOne, GhostInv, Left, serverVars
  <2> QED  BY <2>1 DEF GhostInv, Left, Excuses, Excused
<1>6. CASE RecvTerminate
  <2>1. /\ process' = "ended" /\ connected /\ attempt \in Attempts
        /\ entry[attempt] \in {"zombie", "gone"} /\ UNCHANGED <<up, entry>>
    BY <1>6 DEF RecvTerminate, End, OnlyOne, Known, TypeOK, serverVars
  <2>2. ASSUME NEW k \in Attempts, Counted(k)' PROVE entry'[k] \in {"zombie", "gone"}
    <3>1. up[k] # <<>> \/ entry[k] = "known"
      BY <2>1, <2>2 DEF Counted, Has
    <3>2. k = attempt
      BY <3>1 DEF OnlyOne
    <3> QED  BY <2>1, <3>2
  <2>3. Excuses'
    BY <2>2 DEF Excuses, Excused
  <2> QED  BY <2>1, <2>3 DEF GhostInv, Left
<1> QED  BY <1>2, <1>3, <1>4, <1>5, <1>6 DEF Socket

\* The end of a client that the server will read of, or has sent away.
LEMMA GhostEnd ==
    ASSUME WindowInv, Left, process = "running", process' = "ended",
           UNCHANGED <<up, entry>>, ~ windowConnected
    PROVE  GhostInv'
<1>1. ASSUME NEW k \in Attempts, Counted(k)' PROVE Excused(k)'
  <2>1. Counted(k)
    BY <1>1 DEF Counted, Has
  <2> QED  BY <2>1, ExcusedAtEnd DEF Excused, Has
<1>2. Excuses'
  BY <1>1 DEF Excuses, Excused
<1> QED  BY <1>2 DEF GhostInv, Left

LEMMA GhostUser ==
    ASSUME WindowInv, GhostInv, User PROVE GhostInv'
<1> USE DEF WindowInv
<1>1. process = "running"
  BY DEF User, connectToServer, AskDisconnect, DisconnectYes, No, quitSlot, closeEvent,
         CloseYes, Free
<1>2. CASE connectToServer
  <2>1. CASE connected
    <3>1. /\ windowConnected' /\ UNCHANGED <<process, connected, socket, attempt, pending, link, entry>>
      BY <1>2, <2>1 DEF connectToServer, Dial, serverVars
    <3> QED  BY <1>1, <2>1, <3>1 DEF GhostInv, Left, Excuses
  <2>2. CASE ~ connected
    <3>1. /\ windowConnected' /\ UNCHANGED <<process, connected, entry>>
          /\ attempt' = attempt + 1 /\ attempt < MaxAttempts /\ link' = Hangup
      BY <1>2, <2>2 DEF connectToServer, Dial, serverVars
    <3>2. attempt + 1 \in Attempts /\ attempt + 1 > attempt
      BY <3>1, WindowAssumption DEF TypeOK, Attempts
    <3>3. link'[attempt'] = "none"
      BY <3>1, <3>2, HangupType DEF Known
    <3> QED  BY <1>1, <2>2, <3>1, <3>3 DEF GhostInv, Left, Excuses
  <2> QED  BY <2>1, <2>2
<1>3. CASE AskDisconnect \/ No \/ closeEvent
  BY <1>1, <1>3 DEF AskDisconnect, No, closeEvent, GhostInv, Left, Excuses, Excused, Has,
                    serverVars
<1>4. CASE DisconnectYes
  <2>1. CASE windowConnected
    <3>1. /\ Write("DELETE") /\ ~ windowConnected'
          /\ UNCHANGED <<process, attempt, connected, entry>>
      BY <1>4, <2>1 DEF DisconnectYes, serverVars
    <3>2. "DELETE" \in Message
      BY DEF Message
    <3>3. CASE connected
      <4>1. UNCHANGED <<socket, pending, link>> /\ socket # "connecting"
        BY <3>1, <3>2, <3>3, WriteStep DEF OnlyOne
      <4>2. attempt \in Attempts /\ link[attempt] # "none"
        BY <1>1, <3>3 DEF OnlyOne, TypeOK, GhostInv, Left
      <4>3. Excused(attempt)'
        <5>1. CASE link[attempt] = "closed"
          BY <1>1, <3>1, <3>3, <5>1 DEF GhostInv, Left, Excused
        <5>2. CASE link[attempt] = "open"
          <6>1. socket = "connected"
            BY <1>1, <3>3, <4>1, <5>2 DEF GhostInv, Left, TypeOK
          <6>2. up'[attempt] = Append(up[attempt], "DELETE")
            BY <3>1, <4>2, <5>2, <6>1 DEF Write, TypeOK
          <6>3. In(up'[attempt], "DELETE")
            BY <3>2, <4>2, <6>2, InAppend DEF TypeOK
          <6> QED  BY <3>1, <6>3 DEF Excused, Has, In
        <5> QED  BY <4>2, <5>1, <5>2 DEF TypeOK
      <4> QED  BY <1>1, <3>1, <3>3, <4>1, <4>3 DEF GhostInv, Left, Excuses
    <3>4. CASE ~ connected /\ socket = "connecting"
      <4>1. \/ pending' = Append(pending, "DELETE") /\ UNCHANGED <<socket, link>>
            \/ socket' = "idle"
        BY <3>1, <3>4 DEF Write
      <4>2. In(Append(pending, "DELETE"), "DELETE")
        BY <3>2, InAppend DEF TypeOK
      <4> QED  BY <1>1, <3>1, <3>4, <4>1, <4>2 DEF GhostInv, Left, Excuses
    <3>5. CASE ~ connected /\ socket # "connecting"
      <4>1. socket' = socket
        BY <3>1, <3>5 DEF Write
      <4> QED  BY <1>1, <3>1, <3>5, <4>1 DEF GhostInv, Left, Excuses
    <3> QED  BY <3>3, <3>4, <3>5
  <2>2. CASE ~ windowConnected
    BY <1>1, <1>4, <2>2 DEF DisconnectYes, GhostInv, Left, Excuses, Excused, Has, serverVars
  <2> QED  BY <2>1, <2>2
<1>5. CASE quitSlot
  BY <1>1, <1>5, GhostEnd DEF quitSlot, End, GhostInv, serverVars
<1>6. CASE CloseYes
  <2>1. CASE windowConnected /\ socket = "connected" /\ link[attempt] = "open"
    <3>1. /\ process' = "ended" /\ entry' = entry /\ attempt \in Attempts
          /\ up' = [up EXCEPT ![attempt] = Append(@, "DELETE")]
      BY <1>6, <2>1 DEF CloseYes, Farewell, End, TypeOK, serverVars
    <3>2. ASSUME NEW k \in Attempts, Counted(k)' PROVE Excused(k)'
      <4>1. up[k] # <<>> \/ entry[k] = "known" \/ k = attempt
        BY <3>1, <3>2 DEF Counted, Has, TypeOK
      <4>2. k = attempt
        BY <4>1 DEF OnlyOne
      <4>3. In(up'[k], "DELETE")
        <5>1. "DELETE" \in Message /\ up'[k] = Append(up[k], "DELETE")
          BY <3>1, <4>2 DEF TypeOK, Message
        <5> QED  BY <5>1, InAppend DEF TypeOK
      <4> QED  BY <4>3 DEF Excused, Has, In
    <3> QED  BY <3>1, <3>2 DEF GhostInv, Left, Excuses, Excused
  <2>2. CASE windowConnected /\ ~ (socket = "connected" /\ link[attempt] = "open")
    <3>1. process' = "ended" /\ UNCHANGED <<entry, up>>
      BY <1>6, <2>2 DEF CloseYes, Farewell, End, serverVars
    <3>2. ASSUME NEW k \in Attempts, Counted(k)' PROVE Excused(k)'
      <4>1. up[k] # <<>> \/ entry[k] = "known"
        BY <3>1, <3>2 DEF Counted, Has
      <4>2. connected /\ k = attempt
        BY <4>1 DEF OnlyOne
      <4>3. link[attempt] = "closed"
        BY <1>1, <2>2, <4>2 DEF GhostInv, Left, OnlyOne, TypeOK
      <4> QED  BY <1>1, <3>1, <4>2, <4>3 DEF GhostInv, Left, Excused
    <3> QED  BY <3>1, <3>2 DEF GhostInv, Left, Excuses, Excused
  <2>3. CASE ~ windowConnected
    <3>1. process' = "ended" /\ UNCHANGED <<entry, up>>
      BY <1>6, <2>3 DEF CloseYes, Farewell, End, serverVars
    <3> QED  BY <1>1, <2>3, <3>1, GhostEnd DEF GhostInv
  <2> QED  BY <2>1, <2>2, <2>3
<1> QED  BY <1>2, <1>3, <1>4, <1>5, <1>6 DEF User

-----------------------------------------------------------------------------
(* Theorems.                                                               *)

\* Type correctness; only an idle socket stands for no connection, and what is
\* kept for a connection goes with the attempt.
THEOREM WindowTypeCorrect == Spec => []TypeOK
<1> QED  BY WindowAlways, PTL DEF WindowInv

\* One process is never two computers of the system, however often it
\* connects: a message on a connection, and an entry that has said what it is,
\* are of the one that was made, and an attempt that is in the list besides
\* was given up.
THEOREM AlwaysCountedOnce == Spec => []CountedOnce
<1>1. ASSUME WindowInv, NEW k \in Attempts, Counted(k) PROVE connected /\ k = attempt
  <2>1. up[k] # <<>> \/ entry[k] = "known"
    BY <1>1 DEF Counted, Has
  <2> QED  BY <1>1, <2>1 DEF WindowInv, OnlyOne
<1>2. WindowInv => CountedOnce
  <2>1. ASSUME WindowInv, NEW k \in Attempts, NEW l \in Attempts, Counted(k),
               Counted(l) \/ InList(l), k # l
        PROVE  Orphan(l)
    <3>1. connected /\ l # attempt /\ ~ Counted(l)
      BY <1>1, <2>1
    <3>2. entry[l] = "accepted"
      BY <2>1, <3>1 DEF InList, Counted
    <3> QED  BY <2>1, <3>1, <3>2, AcceptedIsOrphan
  <2> QED  BY <2>1 DEF CountedOnce
<1> QED  BY <1>2, WindowAlways, PTL

\* A client that is connected by its window and ends has told the server, or
\* the server has sent it away, and whatever else it leaves in the list was
\* given up.  With the command line the window does not know that it is
\* connected, and the client may leave without a word.
THEOREM NeverAGhost == ~ AutoConnect => (Spec => []NoGhost)
<1> SUFFICES ASSUME ~ AutoConnect PROVE Spec => []NoGhost
  OBVIOUS
<1>1. Init => GhostInv
  BY DEF Init, GhostInv, Left, Excuses
<1>2. WindowInv /\ GhostInv /\ [Next]_vars => GhostInv'
  <2>1. CASE UNCHANGED vars
    BY <2>1 DEF vars, clientVars, serverVars, GhostInv, Left, Excuses, Excused, Counted, Has
  <2> QED  BY <2>1, GhostUser, GhostSocket, GhostServer DEF Next
<1>3. WindowInv /\ GhostInv => NoGhost
  <2>1. ASSUME WindowInv, GhostInv, process = "ended", NEW k \in Attempts,
               InList(k) \/ Counted(k)
        PROVE  Excused(k) \/ Orphan(k)
    <3>1. CASE Counted(k)
      BY <2>1, <3>1 DEF GhostInv, Excuses
    <3>2. CASE ~ Counted(k)
      BY <2>1, <3>2, AcceptedIsOrphan DEF InList, Counted
    <3> QED  BY <3>1, <3>2
  <2> QED  BY <2>1 DEF NoGhost, Excused
<1> QED  BY <1>1, <1>2, <1>3, WindowAlways, PTL DEF Spec
=============================================================================
