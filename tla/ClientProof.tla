---------------------------- MODULE ClientProof ----------------------------
(***************************************************************************)
(* Proofs about a client next to any server.                               *)
(***************************************************************************)
EXTENDS ClientSystem, SequenceTheorems, TLAPS

-----------------------------------------------------------------------------
(* Queues of messages.                                                     *)

\* Reading the oldest message of a queue of messages of S.
LEMMA QueueTail ==
    ASSUME NEW S, NEW q \in Seq(S), q # <<>>
    PROVE  /\ Head(q) \in S /\ Tail(q) \in Seq(S)
           /\ Len(q) \in Nat \ {0} /\ Len(Tail(q)) = Len(q) - 1
BY HeadTailProperties, EmptySeq

\* What is added last is what a queue has got.
LEMMA HasAppend ==
    ASSUME NEW S, NEW q \in Seq(S), NEW m \in S, NEW kind
    PROVE  Has(Append(q, m), kind) <=> Has(q, kind) \/ m.msg = kind
<1>1. /\ Len(Append(q, m)) = Len(q) + 1 /\ Len(q) \in Nat
      /\ DOMAIN q = 1 .. Len(q) /\ DOMAIN Append(q, m) = 1 .. Len(q) + 1
      /\ \A i \in 1 .. Len(q) : Append(q, m)[i] = q[i]
      /\ Append(q, m)[Len(q) + 1] = m
  OBVIOUS
<1> QED  BY <1>1 DEF Has

\* The messages of two queues written one after the other.
LEMMA HasConcat ==
    ASSUME NEW S, NEW q \in Seq(S), NEW r \in Seq(S), NEW kind
    PROVE  Has(q \o r, kind) <=> Has(q, kind) \/ Has(r, kind)
<1>1. /\ q \o r \in Seq(S) /\ Len(q) \in Nat /\ Len(r) \in Nat
      /\ DOMAIN q = 1 .. Len(q) /\ DOMAIN r = 1 .. Len(r)
      /\ DOMAIN (q \o r) = 1 .. Len(q) + Len(r)
      /\ \A i \in 1 .. Len(q) + Len(r) : (q \o r)[i] =
             IF i <= Len(q) THEN q[i] ELSE r[i - Len(q)]
  BY ConcatProperties, LenProperties
<1>2. ASSUME Has(r, kind) PROVE Has(q \o r, kind)
  <2>1. PICK i \in 1 .. Len(r) : r[i].msg = kind
    BY <1>1, <1>2 DEF Has
  <2>2. /\ Len(q) + i \in 1 .. Len(q) + Len(r)
        /\ (q \o r)[Len(q) + i] = r[i]
    BY <1>1
  <2> QED  BY <1>1, <2>1, <2>2 DEF Has
<1> QED  BY <1>1, <1>2 DEF Has

\* What is left of a queue was in it.
LEMMA HasTail ==
    ASSUME NEW S, NEW q \in Seq(S), q # <<>>, NEW kind
    PROVE  Has(q, kind) <=> Has(Tail(q), kind) \/ Head(q).msg = kind
<1>1. /\ Len(q) \in Nat \ {0} /\ Len(Tail(q)) = Len(q) - 1
      /\ DOMAIN q = 1 .. Len(q) /\ DOMAIN Tail(q) = 1 .. Len(q) - 1
      /\ \A i \in 1 .. Len(q) - 1 : Tail(q)[i] = q[i + 1]
      /\ Head(q) = q[1]
  BY HeadTailProperties, LenProperties, EmptySeq
<1>2. ASSUME NEW i \in 1 .. Len(q), q[i].msg = kind, i # 1
      PROVE  Has(Tail(q), kind)
  <2>1. i - 1 \in 1 .. Len(q) - 1 /\ Tail(q)[i - 1] = q[i]
    BY <1>1, <1>2
  <2> QED  BY <1>1, <1>2, <2>1 DEF Has
<1> QED  BY <1>1, <1>2 DEF Has

\* A message of another kind, or the first of its kind, keeps a kind unique.
LEMMA OnceAppend ==
    ASSUME NEW S, NEW q \in Seq(S), NEW m \in S, NEW kind,
           AtMostOnce(q, kind), ~ Has(q, kind) \/ m.msg # kind
    PROVE  AtMostOnce(Append(q, m), kind)
<1>1. /\ Len(Append(q, m)) = Len(q) + 1 /\ Len(q) \in Nat
      /\ DOMAIN q = 1 .. Len(q) /\ DOMAIN Append(q, m) = 1 .. Len(q) + 1
      /\ \A i \in 1 .. Len(q) : Append(q, m)[i] = q[i]
      /\ Append(q, m)[Len(q) + 1] = m
  OBVIOUS
<1> QED  BY <1>1 DEF Has, AtMostOnce

\* Reading a message that is the only one of its kind leaves none.
LEMMA OnceTail ==
    ASSUME NEW S, NEW q \in Seq(S), q # <<>>, NEW kind, AtMostOnce(q, kind)
    PROVE  /\ AtMostOnce(Tail(q), kind)
           /\ Head(q).msg = kind => ~ Has(Tail(q), kind)
<1>1. /\ Len(q) \in Nat \ {0} /\ Len(Tail(q)) = Len(q) - 1
      /\ DOMAIN q = 1 .. Len(q) /\ DOMAIN Tail(q) = 1 .. Len(q) - 1
      /\ \A i \in 1 .. Len(q) - 1 : Tail(q)[i] = q[i + 1]
      /\ Head(q) = q[1]
  BY HeadTailProperties, LenProperties, EmptySeq
<1> QED  BY <1>1 DEF Has, AtMostOnce

-----------------------------------------------------------------------------
(* Types.                                                                  *)

\* What a worker sends names a problem because a thread exists only after a
\* library was stored, and nobody else emits signals.  TypeOK alone is not
\* inductive: newMinimum and SENDGENOMES carry codeBytes.
WorkerHasLibrary ==
    \A c \in Clients :
        IF thread[c] = "none" THEN sig[c] = <<>> ELSE codeBytes[c] \in Problems

TypeInv == TypeOK /\ WorkerHasLibrary

\* What the queues of a client hold.
LEMMA QueueTypes ==
    ASSUME TypeOK, NEW c \in Clients
    PROVE  /\ down[c] \in Seq(DownMsg) /\ Len(down[c]) \in Nat
           /\ up[c] \in Seq(UpMsg) /\ Len(up[c]) \in Nat
           /\ sig[c] \in Seq(Signal) /\ Len(sig[c]) \in Nat
           /\ arrived[c] \in Nat
BY DEF TypeOK, NetTypeOK, ClientTypeOK

\* Messages of the client are messages it may send.
LEMMA UpMessages ==
    /\ \A kind \in PlainUp : [msg |-> kind] \in UpMsg
    /\ \A s \in Status, p \in MaybeProblem :
          [msg |-> "STATUS", status |-> s, minimum |-> p] \in UpMsg
    /\ \A p \in Problems : [msg |-> "SENDGENOMES", problem |-> p] \in UpMsg
BY DEF UpMsg, PlainUp

\* sendObject of the client (ClientProtocol) keeps the type of its socket.
LEMMA SendUpType ==
    ASSUME TypeOK, NEW c \in Clients, NEW m \in UpMsg, SendUp(c, m)
    PROVE  up' \in [Clients -> Seq(UpMsg)]
BY DEF TypeOK, NetTypeOK, SendUp, Sent

\* Receive keeps the types of the queue it reads.
LEMMA ReceiveType ==
    ASSUME TypeOK, NEW c \in Clients, NEW kind, Receive(c, kind)
    PROVE  /\ down' \in [Clients -> Seq(DownMsg)]
           /\ arrived' \in [Clients -> Nat]
           /\ down[c] # <<>> /\ Head(down[c]) \in DownMsg
<1>1. down[c] # <<>> /\ Len(down[c]) \in Nat
  BY QueueTypes, EmptySeq DEF Receive
<1>2. Head(down[c]) \in DownMsg /\ Tail(down[c]) \in Seq(DownMsg)
  BY <1>1, QueueTypes, QueueTail
<1>3. down' \in [Clients -> Seq(DownMsg)]
  BY <1>2 DEF Receive, TypeOK, NetTypeOK
<1>4. arrived' \in [Clients -> Nat]
  BY <1>1 DEF Receive, TypeOK, NetTypeOK
<1> QED  BY <1>1, <1>2, <1>3, <1>4

\* The clients and connections start in a typed state.
LEMMA InitType == Init => TypeOK
BY GenerationsAssumption
   DEF Init, ClientInit, NetInit, TypeOK, ClientTypeOK, NetTypeOK, ProcState,
       ThreadState, Status, MaybeProblem

\* connectSlot keeps the types.
LEMMA ConnectType ==
    ASSUME TypeOK, NEW c \in Clients, Connect(c)
    PROVE  TypeOK'
<1>1. [msg |-> "CONNECT"] \in UpMsg
  BY UpMessages DEF PlainUp
<1>2. NetTypeOK'
  BY <1>1 DEF Connect, TypeOK, NetTypeOK
<1>3. ClientTypeOK'
  BY DEF Connect, TypeOK, ClientTypeOK, ProcState, Status, workerVars
<1> QED  BY <1>2, <1>3 DEF TypeOK

\* closing the window and pressing Disconnect keep the types.
LEMMA LeaveType ==
    ASSUME TypeOK, NEW c \in Clients, NEW quits \in BOOLEAN, Leave(c, quits)
    PROVE  TypeOK'
<1>1. up' \in [Clients -> Seq(UpMsg)]
  BY UpMessages, SendUpType DEF PlainUp, Leave
<1>2. ClientTypeOK'
  BY DEF Leave, TypeOK, ClientTypeOK, ProcState, workerVars
<1> QED  BY <1>1, <1>2 DEF Leave, TypeOK, NetTypeOK

\* The end of a process keeps the types.
LEMMA KillType ==
    ASSUME TypeOK, NEW c \in Clients, Kill(c)
    PROVE  TypeOK'
BY DEF Kill, TypeOK, ClientTypeOK, NetTypeOK, ProcState, workerVars

\* A fault of a process keeps the types.
LEMMA AbortType ==
    ASSUME TypeOK, NEW c \in Clients, Abort(c),
           down' \in [Clients -> Seq(DownMsg)], arrived' \in [Clients -> Nat]
    PROVE  TypeOK'
BY DEF Abort, TypeOK, ClientTypeOK, NetTypeOK, ProcState, workerVars

\* recvString keeps the types, whatever message it reads.
LEMMA ReadDataType ==
    ASSUME TypeOK, NEW c \in Clients, ReadData(c)
    PROVE  TypeOK'
<1> USE DEF TypeOK, ClientTypeOK, NetTypeOK, workerVars, mainVars
<1>1. CASE RecvCode(c)
  BY <1>1, ReceiveType DEF RecvCode
<1>2. CASE RecvProgram(c)
  <2>1. /\ down' \in [Clients -> Seq(DownMsg)] /\ arrived' \in [Clients -> Nat]
        /\ Head(down[c]) \in DownMsg /\ Head(down[c]).msg = "PROGRAM"
    BY <1>2, ReceiveType DEF RecvProgram, Receive
  <2>2. Head(down[c]).problem \in Problems
    BY <2>1 DEF DownMsg, PlainDown
  <2>3. CASE IsRunning(c) /\ Abort(c)
    BY <2>1, <2>3, AbortType
  <2>4. CASE ~ IsRunning(c)
    <3>1. RunEntry(0) \in ThreadState
      BY DEF RunEntry, ThreadState
    <3>2. thread' = [thread EXCEPT ![c] = RunEntry(0)]
      BY <1>2, <2>4 DEF RecvProgram, RunProblem
    <3>3. thread' \in [Clients -> ThreadState]
      BY <3>1, <3>2
    <3>4. /\ codeBytes' \in [Clients -> MaybeProblem]
          /\ status' \in [Clients -> Status]
          /\ calledDone' \in [Clients -> BOOLEAN]
      BY <1>2, <2>2, <2>4 DEF RecvProgram, RunProblem, MaybeProblem, Status
    <3>5. /\ stopflag' \in [Clients -> BOOLEAN]
          /\ parallelDataReady' \in [Clients -> BOOLEAN]
      BY <1>2, <2>4 DEF RecvProgram, RunProblem
    <3>7. generation' = [generation EXCEPT ![c] = 0]
      BY <1>2, <2>4 DEF RecvProgram, RunProblem
    <3>8. generation' \in [Clients -> Nat]
      BY <3>7
    <3>9. parallelGenome' \in [Clients -> SUBSET Problems]
      BY <1>2, <2>4 DEF RecvProgram, RunProblem
    <3>6. UNCHANGED <<proc, socketId, globalMinimum, sig, up, link>>
      BY <1>2, <2>4 DEF RecvProgram, RunProblem
    <3> QED  BY <2>1, <3>3, <3>4, <3>5, <3>6, <3>8, <3>9
  <2> QED  BY <1>2, <2>3, <2>4 DEF RecvProgram, RunProblem
<1>3. CASE RecvAskStatus(c)
  <2>1. down' \in [Clients -> Seq(DownMsg)] /\ arrived' \in [Clients -> Nat]
    BY <1>3, ReceiveType DEF RecvAskStatus
  <2>2. CASE Abort(c)
    BY <2>1, <2>2, AbortType
  <2>3. CASE ~ Abort(c)
    <3>1. StatusMsg(c, status[c]) \in UpMsg
      BY UpMessages DEF StatusMsg
    <3>2. up' \in [Clients -> Seq(UpMsg)]
      BY <1>3, <2>3, <3>1, SendUpType DEF RecvAskStatus
    <3> QED  BY <1>3, <2>1, <2>3, <3>2 DEF RecvAskStatus
  <2> QED  BY <2>2, <2>3
<1>4. CASE RecvTerminate(c)
  BY <1>4, ReceiveType DEF RecvTerminate, ProcState
<1>5. CASE RecvPause(c)
  BY <1>5, ReceiveType DEF RecvPause, ProcState, Status
<1>6. CASE RecvResume(c)
  BY <1>6, ReceiveType, ZenonT(60) DEF RecvResume, RunEntry, ThreadState, Status
<1>7. CASE RecvGenomes(c)
  <2>1. down' \in [Clients -> Seq(DownMsg)] /\ arrived' \in [Clients -> Nat]
    BY <1>7, ReceiveType DEF RecvGenomes
  <2>2. CASE Abort(c)
    BY <2>1, <2>2, AbortType
  <2>3. CASE ~ Abort(c)
    BY <1>7, <2>1, <2>3 DEF RecvGenomes, GenomesIn
  <2> QED  BY <2>2, <2>3
<1> QED  BY <1>1, <1>2, <1>3, <1>4, <1>5, <1>6, <1>7 DEF ReadData

\* Taking the oldest signal of the worker keeps the type of the queue.
LEMMA DeliverType ==
    ASSUME TypeOK, NEW c \in Clients, NEW kind, Deliver(c, kind)
    PROVE  /\ sig' \in [Clients -> Seq(Signal)]
           /\ sig[c] # <<>> /\ Head(sig[c]) \in Signal
<1>1. Head(sig[c]) \in Signal /\ Tail(sig[c]) \in Seq(Signal)
  BY QueueTypes, QueueTail DEF Deliver
<1> QED  BY <1>1 DEF Deliver, TypeOK, ClientTypeOK

\* The slots of ClientProtocol for the signals of the worker keep the types.
LEMMA HandleSignalType ==
    ASSUME TypeInv, NEW c \in Clients, HandleSignal(c)
    PROVE  TypeOK'
<1> USE DEF TypeInv, TypeOK, ClientTypeOK, NetTypeOK, workerVars, mainVars
<1>1. CASE RequestGenomesSlot(c)
  <2>1. up' \in [Clients -> Seq(UpMsg)]
    BY <1>1, UpMessages, SendUpType DEF RequestGenomesSlot, PlainUp
  <2> QED  BY <1>1, <2>1, DeliverType DEF RequestGenomesSlot
<1>2. CASE SendGenomesSlot(c)
  <2>1. [msg |-> "SENDGENOMES", problem |-> codeBytes[c]] \in UpMsg
    BY <1>2, UpMessages DEF SendGenomesSlot, Deliver, WorkerHasLibrary
  <2> QED  BY <1>2, <2>1, DeliverType, SendUpType DEF SendGenomesSlot
<1>3. CASE NewMinimumSlot(c)
  <2>1. Head(sig[c]) \in Signal /\ Head(sig[c]).msg = "newMinimum"
    BY <1>3, DeliverType DEF NewMinimumSlot, Deliver
  <2>2. Head(sig[c]).problem \in Problems
    BY <2>1 DEF Signal
  <2>3. [msg |-> "STATUS", status |-> status[c], minimum |-> Head(sig[c]).problem]
            \in UpMsg
    BY <2>2, UpMessages DEF MaybeProblem
  <2>4. up' \in [Clients -> Seq(UpMsg)]
    BY <1>3, <2>3, SendUpType DEF NewMinimumSlot
  <2> QED  BY <1>3, <2>2, <2>4, DeliverType DEF NewMinimumSlot, MaybeProblem
<1>4. CASE EndThread(c)
  <2>1. StatusMsg(c, "FINISH") \in UpMsg
    BY UpMessages DEF StatusMsg, Status
  <2>2. up' \in [Clients -> Seq(UpMsg)]
    BY <1>4, <2>1, SendUpType DEF EndThread
  <2> QED  BY <1>4, <2>2, DeliverType DEF EndThread, Status
<1> QED  BY <1>1, <1>2, <1>3, <1>4 DEF HandleSignal

\* Signals that are emitted are queued as signals.
LEMMA EmitType ==
    ASSUME TypeOK, NEW c \in Clients, NEW s \in Seq(Signal), Emit(c, s)
    PROVE  sig' \in [Clients -> Seq(Signal)]
<1>1. sig[c] \o s \in Seq(Signal)
  BY QueueTypes, ConcatProperties
<1> QED  BY <1>1 DEF Emit, TypeOK, ClientTypeOK

\* The signals of one generation are signals, once a library was stored.
LEMMA GenerationSignalsType ==
    ASSUME NEW c \in Clients, codeBytes[c] \in Problems, NEW improved \in BOOLEAN
    PROVE  GenerationSignals(c, improved) \in Seq(Signal)
<1>1. /\ [msg |-> "sendGenomes"] \in Signal
      /\ [msg |-> "newMinimum", problem |-> codeBytes[c]] \in Signal
  BY DEF Signal
<1>2. /\ <<[msg |-> "sendGenomes"]>> \in Seq(Signal)
      /\ <<[msg |-> "newMinimum", problem |-> codeBytes[c]]>> \in Seq(Signal)
      /\ <<>> \in Seq(Signal)
  BY <1>1
<1> QED  BY <1>2, ConcatProperties DEF GenerationSignals

\* The steps of MyThread::run keep the types.
LEMMA WorkerType ==
    ASSUME TypeInv, NEW c \in Clients, Worker(c)
    PROVE  TypeOK'
<1> USE DEF TypeInv, TypeOK, ClientTypeOK, NetTypeOK, mainVars, netVars, Goto
<1>1. CASE WorkerRequest(c)
  <2>1. <<[msg |-> "requestGenomes"]>> \in Seq(Signal)
    BY DEF Signal
  <2>2. sig' \in [Clients -> Seq(Signal)]
    BY <1>1, <2>1, EmitType DEF WorkerRequest
  <2> QED  BY <1>1, <2>2 DEF WorkerRequest, ThreadState
<1>2. CASE WorkerSpin(c)
  BY <1>2 DEF WorkerSpin, ThreadState
<1>3. CASE WorkerStop(c)
  BY <1>3 DEF WorkerStop, ThreadState
<1>4. CASE WorkerEvolve(c)
  <2>1. codeBytes[c] \in Problems
    BY <1>4 DEF WorkerEvolve, WorkerHasLibrary
  <2>2. PICK improved \in BOOLEAN : Emit(c, GenerationSignals(c, improved))
    BY <1>4 DEF WorkerEvolve
  <2>3. sig' \in [Clients -> Seq(Signal)]
    BY <2>1, <2>2, GenerationSignalsType, EmitType
  <2>4. generation' = [generation EXCEPT ![c] = @ + 1]
    BY <1>4 DEF WorkerEvolve
  <2>5. generation' \in [Clients -> Nat]
    BY <2>4
  <2>6. PICK pc \in {"request", "tail"} : thread' = [thread EXCEPT ![c] = pc]
    BY <1>4 DEF WorkerEvolve
  <2>7. thread' \in [Clients -> ThreadState]
    BY <2>6 DEF ThreadState
  <2> QED  BY <1>4, <2>3, <2>5, <2>7 DEF WorkerEvolve
<1>5. CASE WorkerTail(c)
  <2>1. <<[msg |-> "completed"]>> \in Seq(Signal)
    BY DEF Signal
  <2>2. sig' \in [Clients -> Seq(Signal)]
    BY <1>5, <2>1, EmitType DEF WorkerTail
  <2> QED  BY <1>5, <2>2 DEF WorkerTail, ThreadState
<1>6. CASE WorkerReturn(c)
  BY <1>6 DEF WorkerReturn, ThreadState
<1> QED  BY <1>1, <1>2, <1>3, <1>4, <1>5, <1>6 DEF Worker

\* The return of thread->wait() keeps the types.
LEMMA UnblockType ==
    ASSUME TypeOK, NEW c \in Clients, Unblock(c)
    PROVE  TypeOK'
BY DEF Unblock, TypeOK, ClientTypeOK, NetTypeOK, ProcState, Status, workerVars,
       netVars

\* The server takes the oldest message of a client.
LEMMA UpTailType ==
    ASSUME TypeOK, NEW c \in Clients, up[c] # <<>>,
           up' = [up EXCEPT ![c] = Tail(@)]
    PROVE  up' \in [Clients -> Seq(UpMsg)]
BY QueueTypes, QueueTail DEF TypeOK, NetTypeOK

\* What a server writes of its own accord keeps the types.
LEMMA PushType ==
    ASSUME TypeOK, NEW f \in Pushes, Push(f)
    PROVE  down' \in [Clients -> Seq(DownMsg)]
<1>1. \A c \in Clients : f[c] # Nothing => f[c] \in DownMsg
  BY DEF Pushes, ControlMsg
<1> QED  BY <1>1 DEF Push, TypeOK, NetTypeOK

\* A step of the server.
ServerStep ==
    \/ \E c \in Clients, f \in Pushes : Serve(c, f)
    \/ \E f \in Pushes : Command(f) \/ ServerEnds(f)
    \/ \E c \in Clients, array \in SUBSET Problems : Answer(c, array)
    \/ \E c \in Clients : Release(c)

\* The steps of any server keep the types.
LEMMA ServerStepType ==
    ASSUME TypeOK, ServerStep
    PROVE  TypeOK'
<1> USE DEF TypeOK, ClientTypeOK, NetTypeOK, clientVars, mainVars, workerVars
<1>1. ASSUME NEW c \in Clients, NEW f \in Pushes, Serve(c, f)
      PROVE  TypeOK'
  BY <1>1, UpTailType, PushType DEF Serve
<1>2. ASSUME NEW f \in Pushes, Command(f)
      PROVE  TypeOK'
  BY <1>2, PushType DEF Command
<1>3. ASSUME NEW f \in Pushes, ServerEnds(f)
      PROVE  TypeOK'
  <2>1. up' \in [Clients -> Seq(UpMsg)]
    BY <1>3, UpTailType DEF ServerEnds
  <2>2. link' \in [Clients -> {"none", "open", "closed"}]
    BY <1>3 DEF ServerEnds
  <2> QED  BY <1>3, <2>1, <2>2, PushType DEF ServerEnds
<1>4. ASSUME NEW c \in Clients, NEW array \in SUBSET Problems, Answer(c, array)
      PROVE  TypeOK'
  <2>1. [msg |-> "GENOMES", array |-> array] \in DownMsg
    BY DEF DownMsg
  <2>2. down' \in [Clients -> Seq(DownMsg)]
    BY <1>4, <2>1 DEF Answer, Sent
  <2> QED  BY <1>4, <2>2, UpTailType DEF Answer
<1>5. ASSUME NEW c \in Clients, Release(c)
      PROVE  TypeOK'
  BY <1>5 DEF Release
<1> QED  BY <1>1, <1>2, <1>3, <1>4, <1>5 DEF ServerStep

\* The steps of a client, by kind.
LEMMA NextCases ==
    ASSUME Next
    PROVE  \/ ServerStep
           \/ \E c \in Clients :
                 \/ Connect(c) \/ Kill(c) \/ Unblock(c)
                 \/ \E quits \in BOOLEAN : Leave(c, quits)
                 \/ ReadData(c) \/ HandleSignal(c) \/ Worker(c)
BY DEF Next, ServerStep, ClientStep, Depart

\* Every step keeps the types.
LEMMA StepType ==
    ASSUME TypeInv, [Next]_vars
    PROVE  TypeOK'
<1>1. CASE UNCHANGED vars
  BY <1>1 DEF TypeInv, TypeOK, ClientTypeOK, NetTypeOK, vars, clientVars, mainVars,
              workerVars, netVars
<1>2. CASE Next
  BY <1>2, NextCases, ServerStepType, ConnectType, KillType, UnblockType, LeaveType,
     ReadDataType, HandleSignalType, WorkerType DEF TypeInv
<1> QED  BY <1>1, <1>2

\* Only RunProblem makes a thread, and it stores a library first.
LEMMA StepLibrary ==
    ASSUME TypeInv, [Next]_vars
    PROVE  WorkerHasLibrary'
<1> USE DEF TypeInv, WorkerHasLibrary
<1>1. CASE UNCHANGED vars
  BY <1>1 DEF vars, clientVars, mainVars, workerVars
<1>2. CASE ServerStep
  <2>1. UNCHANGED clientVars
    BY <1>2 DEF ServerStep, Serve, Command, ServerEnds, Answer, Release
  <2> QED  BY <2>1 DEF clientVars, mainVars, workerVars
<1>3. ASSUME NEW c \in Clients,
             \/ Connect(c) \/ Kill(c) \/ Unblock(c)
             \/ \E quits \in BOOLEAN : Leave(c, quits)
      PROVE  WorkerHasLibrary'
  BY <1>3 DEF Connect, Kill, Unblock, Leave, workerVars
<1>4. ASSUME NEW c \in Clients, ReadData(c)
      PROVE  WorkerHasLibrary'
  <2>1. CASE RecvProgram(c)
    <3>1. CASE IsRunning(c) /\ Abort(c)
      BY <3>1 DEF Abort, workerVars
    <3>2. CASE ~ IsRunning(c)
      <4>1. Head(down[c]).problem \in Problems
        BY <2>1, ReceiveType DEF RecvProgram, Receive, DownMsg, PlainDown
      <4>2. /\ codeBytes' = [codeBytes EXCEPT ![c] = Head(down[c]).problem]
            /\ thread' = [thread EXCEPT ![c] = RunEntry(0)]
            /\ UNCHANGED sig
        BY <2>1, <3>2 DEF RecvProgram, RunProblem
      <4>3. RunEntry(0) # "none"
        BY DEF RunEntry
      <4> QED  BY <4>1, <4>2, <4>3 DEF TypeOK, ClientTypeOK
    <3> QED  BY <2>1, <3>1, <3>2 DEF RecvProgram, RunProblem
  <2>2. CASE RecvResume(c)
    <3>1. UNCHANGED <<sig, codeBytes>>
      BY <2>2 DEF RecvResume
    <3>2. \A d \in Clients : (thread'[d] = "none") <=> (thread[d] = "none")
      BY <2>2 DEF RecvResume, RunEntry, TypeOK, ClientTypeOK
    <3> QED  BY <3>1, <3>2
  <2>3. CASE RecvAskStatus(c) \/ RecvGenomes(c)
    <3>1. UNCHANGED <<sig, codeBytes, thread>>
      BY <2>3 DEF RecvAskStatus, RecvGenomes, Abort, mainVars, workerVars
    <3> QED  BY <3>1
  <2>4. CASE RecvCode(c) \/ RecvTerminate(c) \/ RecvPause(c)
    <3>1. UNCHANGED <<sig, codeBytes, thread>>
      BY <2>4 DEF RecvCode, RecvTerminate, RecvPause, workerVars
    <3> QED  BY <3>1
  <2> QED  BY <1>4, <2>1, <2>2, <2>3, <2>4 DEF ReadData
<1>5. ASSUME NEW c \in Clients, HandleSignal(c)
      PROVE  WorkerHasLibrary'
  <2>1. UNCHANGED <<codeBytes, thread>>
    BY <1>5 DEF HandleSignal, RequestGenomesSlot, SendGenomesSlot, NewMinimumSlot,
                EndThread, mainVars, workerVars
  <2>2. sig[c] # <<>> /\ sig' = [sig EXCEPT ![c] = Tail(@)]
    BY <1>5 DEF HandleSignal, RequestGenomesSlot, SendGenomesSlot, NewMinimumSlot,
                EndThread, Deliver
  <2> QED  BY <2>1, <2>2 DEF TypeOK, ClientTypeOK
<1>6. ASSUME NEW c \in Clients, Worker(c)
      PROVE  WorkerHasLibrary'
  <2>1. thread[c] # "none" /\ UNCHANGED codeBytes
    BY <1>6 DEF Worker, WorkerRequest, WorkerSpin, WorkerStop, WorkerEvolve,
                WorkerTail, WorkerReturn, mainVars
  <2>2. \A d \in Clients \ {c} : thread'[d] = thread[d] /\ sig'[d] = sig[d]
    BY <1>6 DEF Worker, WorkerRequest, WorkerSpin, WorkerStop, WorkerEvolve,
                WorkerTail, WorkerReturn, Goto, Emit, TypeOK, ClientTypeOK
  <2>3. thread'[c] # "none"
    BY <1>6 DEF Worker, WorkerRequest, WorkerSpin, WorkerStop, WorkerEvolve,
                WorkerTail, WorkerReturn, Goto, TypeOK, ClientTypeOK
  <2> QED  BY <2>1, <2>2, <2>3
<1> QED  BY <1>1, <1>2, <1>3, <1>4, <1>5, <1>6, NextCases

\* The state of a client has its type whatever the server sends, and messages
\* of the client that name a problem name one that was installed.
THEOREM ClientTypeCorrect == Spec => [](TypeOK /\ WorkerHasLibrary)
<1>1. Init => TypeInv
  BY InitType DEF TypeInv, WorkerHasLibrary, Init, ClientInit
<1>2. TypeInv /\ [Next]_vars => TypeInv'
  BY StepType, StepLibrary DEF TypeInv
<1> QED  BY <1>1, <1>2, PTL DEF Spec, TypeInv

-----------------------------------------------------------------------------
(* One request for chromosomes.                                            *)

\* In each of its places a request is lost or stays, and the worker of a
\* request goes on waiting.
SigQuiet ==
    \A d \in Clients : /\ AtMostOnce(sig'[d], "requestGenomes")
                       /\ Has(sig'[d], "requestGenomes") => Requested(d)
UpQuiet ==
    \A d \in Clients : /\ AtMostOnce(up'[d], "ASKGENOMES")
                       /\ Has(up'[d], "ASKGENOMES") => Asked(d)
DownQuiet ==
    \A d \in Clients : /\ AtMostOnce(down'[d], "GENOMES")
                       /\ Has(down'[d], "GENOMES") => Answered(d)
WorkerQuiet ==
    \A d \in Clients : Waiting(d) => thread'[d] = "spin" /\ ~ parallelDataReady'[d]

\* A step that is quiet for c keeps the one request of c.
LEMMA QuietKeepsOne ==
    ASSUME OneRequest, SigQuiet, UpQuiet, DownQuiet, WorkerQuiet
    PROVE  OneRequest'
BY DEF OneRequest, SigQuiet, UpQuiet, DownQuiet, WorkerQuiet, Requested, Asked,
       Answered, Waiting

\* A step that leaves the queues and the worker of c alone is quiet.
LEMMA UnchangedQuiet ==
    ASSUME OneRequest
    PROVE  /\ UNCHANGED sig => SigQuiet
           /\ UNCHANGED up => UpQuiet
           /\ UNCHANGED down => DownQuiet
           /\ UNCHANGED <<thread, parallelDataReady>> => WorkerQuiet
BY DEF OneRequest, SigQuiet, UpQuiet, DownQuiet, WorkerQuiet, Requested, Asked,
       Answered, Waiting

\* Taking a signal that is no request leaves the requests queued as they are.
LEMMA DeliverQuiet ==
    ASSUME TypeOK, OneRequest, NEW c \in Clients, NEW kind, Deliver(c, kind)
    PROVE  SigQuiet
<1>1. /\ AtMostOnce(Tail(sig[c]), "requestGenomes")
      /\ Has(Tail(sig[c]), "requestGenomes") => Has(sig[c], "requestGenomes")
  BY QueueTypes, OnceTail, HasTail DEF Deliver, OneRequest
<1>2. sig'[c] = Tail(sig[c]) /\ \A d \in Clients \ {c} : sig'[d] = sig[d]
  BY DEF Deliver, TypeOK, ClientTypeOK
<1> QED  BY <1>1, <1>2 DEF SigQuiet, OneRequest, Requested

\* Emitting signals that are no requests leaves the requests queued as they are.
LEMMA EmitQuiet ==
    ASSUME TypeOK, OneRequest, NEW c \in Clients, ~ Waiting(c),
           NEW s \in Seq(Signal), ~ Has(s, "requestGenomes"), Emit(c, s)
    PROVE  SigQuiet
<1>1. ~ Has(sig[c], "requestGenomes")
  BY DEF OneRequest, Requested
<1>2. ~ Has(sig[c] \o s, "requestGenomes")
  BY <1>1, QueueTypes, HasConcat
<1>3. sig'[c] = sig[c] \o s /\ \A d \in Clients \ {c} : sig'[d] = sig[d]
  BY DEF Emit, TypeOK, ClientTypeOK
<1> QED  BY <1>2, <1>3 DEF SigQuiet, OneRequest, Requested, Has, AtMostOnce

\* Writing a message that is no request leaves the requests sent as they are.
LEMMA SendUpQuiet ==
    ASSUME TypeOK, OneRequest, NEW c \in Clients, NEW m \in UpMsg,
           m.msg # "ASKGENOMES", SendUp(c, m)
    PROVE  UpQuiet
<1>1. /\ AtMostOnce(Append(up[c], m), "ASKGENOMES")
      /\ Has(Append(up[c], m), "ASKGENOMES") => Has(up[c], "ASKGENOMES")
  BY QueueTypes, OnceAppend, HasAppend DEF OneRequest
<1>2. /\ up'[c] \in {up[c], Append(up[c], m)}
      /\ \A d \in Clients \ {c} : up'[d] = up[d]
  BY DEF SendUp, Sent, TypeOK, NetTypeOK
<1> QED  BY <1>1, <1>2 DEF UpQuiet, OneRequest, Asked

\* Reading a message that is no request leaves the requests sent as they are.
LEMMA UpTailQuiet ==
    ASSUME TypeOK, OneRequest, NEW c \in Clients, up[c] # <<>>,
           up' = [up EXCEPT ![c] = Tail(@)]
    PROVE  /\ UpQuiet
           /\ Head(up[c]).msg = "ASKGENOMES" => ~ Has(up'[c], "ASKGENOMES")
<1>1. /\ AtMostOnce(Tail(up[c]), "ASKGENOMES")
      /\ Has(Tail(up[c]), "ASKGENOMES") => Has(up[c], "ASKGENOMES")
      /\ Head(up[c]).msg = "ASKGENOMES" => ~ Has(Tail(up[c]), "ASKGENOMES")
  BY QueueTypes, OnceTail, HasTail DEF OneRequest
<1>2. up'[c] = Tail(up[c]) /\ \A d \in Clients \ {c} : up'[d] = up[d]
  BY DEF TypeOK, NetTypeOK
<1> QED  BY <1>1, <1>2 DEF UpQuiet, OneRequest, Asked

\* Reading a message that is no answer leaves the answers sent as they are.
LEMMA ReceiveQuiet ==
    ASSUME TypeOK, OneRequest, NEW c \in Clients, NEW kind, Receive(c, kind)
    PROVE  /\ DownQuiet
           /\ kind = "GENOMES" => ~ Has(down'[c], "GENOMES")
<1>1. down[c] # <<>>
  BY ReceiveType
<1>2. /\ AtMostOnce(Tail(down[c]), "GENOMES")
      /\ Has(Tail(down[c]), "GENOMES") => Has(down[c], "GENOMES")
      /\ kind = "GENOMES" => ~ Has(Tail(down[c]), "GENOMES")
  BY <1>1, QueueTypes, OnceTail, HasTail DEF OneRequest, Receive
<1>3. down'[c] = Tail(down[c]) /\ \A d \in Clients \ {c} : down'[d] = down[d]
  BY DEF Receive, TypeOK, NetTypeOK
<1> QED  BY <1>2, <1>3 DEF DownQuiet, OneRequest, Answered

\* No message a server sends of its own accord is an answer.
LEMMA PushQuiet ==
    ASSUME TypeOK, OneRequest, NEW f \in Pushes, Push(f)
    PROVE  DownQuiet
<1> SUFFICES ASSUME NEW d \in Clients
             PROVE  /\ AtMostOnce(down'[d], "GENOMES")
                    /\ Has(down'[d], "GENOMES") => Has(down[d], "GENOMES")
  BY DEF DownQuiet, Answered
<1>1. CASE f[d] # Nothing
  <2>1. f[d] \in DownMsg /\ f[d].msg # "GENOMES"
    BY <1>1 DEF Pushes, ControlMsg
  <2>2. /\ AtMostOnce(Append(down[d], f[d]), "GENOMES")
        /\ Has(Append(down[d], f[d]), "GENOMES") => Has(down[d], "GENOMES")
    BY <2>1, QueueTypes, OnceAppend, HasAppend DEF OneRequest
  <2>3. down'[d] \in {down[d], Append(down[d], f[d])}
    BY <1>1 DEF Push
  <2> QED  BY <2>2, <2>3 DEF OneRequest
<1>2. CASE f[d] = Nothing
  BY <1>2 DEF Push, OneRequest
<1> QED  BY <1>1, <1>2

\* A server turns a request into an answer, or takes no part in it.
LEMMA ServerStepOne ==
    ASSUME TypeOK, OneRequest, ServerStep
    PROVE  OneRequest'
<1>1. SigQuiet /\ WorkerQuiet
  <2>1. UNCHANGED <<sig, thread, parallelDataReady>>
    BY DEF ServerStep, Serve, Command, ServerEnds, Answer, Release, clientVars,
           workerVars
  <2> QED  BY <2>1, UnchangedQuiet
<1>2. ASSUME NEW c \in Clients, NEW f \in Pushes, Serve(c, f)
      PROVE  OneRequest'
  BY <1>1, <1>2, UpTailQuiet, PushQuiet, QuietKeepsOne DEF Serve
<1>3. ASSUME NEW f \in Pushes, Command(f)
      PROVE  OneRequest'
  BY <1>1, <1>3, UnchangedQuiet, PushQuiet, QuietKeepsOne DEF Command
<1>4. ASSUME NEW f \in Pushes, ServerEnds(f)
      PROVE  OneRequest'
  <2>1. UpQuiet
    BY <1>4, UnchangedQuiet, UpTailQuiet DEF ServerEnds
  <2> QED  BY <1>1, <1>4, <2>1, PushQuiet, QuietKeepsOne DEF ServerEnds
<1>5. ASSUME NEW c \in Clients, NEW array \in SUBSET Problems, Answer(c, array)
      PROVE  OneRequest'
  <2> DEFINE m == [msg |-> "GENOMES", array |-> array]
  <2>1. Asked(c)
    BY <1>5, QueueTypes, HasTail DEF Answer, Asked
  <2>2. Waiting(c) /\ ~ Answered(c) /\ ~ Requested(c)
    BY <2>1 DEF OneRequest
  <2>3. /\ ~ Has(up'[c], "ASKGENOMES")
        /\ UpQuiet
    BY <1>5, UpTailQuiet DEF Answer
  <2>4. /\ down'[c] \in {down[c], Append(down[c], m)}
        /\ \A d \in Clients \ {c} : down'[d] = down[d]
    BY <1>5 DEF Answer, Sent, TypeOK, NetTypeOK
  <2>5. AtMostOnce(down'[c], "GENOMES")
    <3>1. m \in DownMsg
      BY DEF DownMsg
    <3>2. AtMostOnce(Append(down[c], m), "GENOMES")
      BY <2>2, <3>1, QueueTypes, OnceAppend DEF Answered, OneRequest
    <3> QED  BY <2>4, <3>2 DEF OneRequest
  <2>6. UNCHANGED <<sig, thread, parallelDataReady>>
    BY <1>5 DEF Answer, clientVars, workerVars
  <2> QED
    BY <2>2, <2>3, <2>4, <2>5, <2>6
       DEF OneRequest, UpQuiet, Requested, Asked, Answered, Waiting
<1>6. ASSUME NEW c \in Clients, Release(c)
      PROVE  OneRequest'
  <2>1. UpQuiet
    BY <1>6 DEF Release, UpQuiet, OneRequest, Asked, Has, AtMostOnce, TypeOK, NetTypeOK
  <2> QED  BY <1>1, <1>6, <2>1, UnchangedQuiet, QuietKeepsOne DEF Release
<1> QED  BY <1>2, <1>3, <1>4, <1>5, <1>6 DEF ServerStep

\* recvString consumes the answer only to release the worker that waits for it.
LEMMA ReadDataOne ==
    ASSUME TypeOK, OneRequest, NEW c \in Clients, ReadData(c)
    PROVE  OneRequest'
<1>1. SigQuiet
  <2>1. UNCHANGED sig
    BY DEF ReadData, RecvCode, RecvProgram, RunProblem, RecvAskStatus,
           RecvTerminate, RecvPause, RecvResume, RecvGenomes, Abort
  <2> QED  BY <2>1, UnchangedQuiet
<1>2. DownQuiet
  BY ReceiveQuiet DEF ReadData, RecvCode, RecvProgram, RecvAskStatus, RecvTerminate,
                      RecvPause, RecvResume, RecvGenomes
<1>3. UpQuiet
  <2>1. CASE RecvAskStatus(c) /\ SendUp(c, StatusMsg(c, status[c]))
    <3>1. StatusMsg(c, status[c]) \in UpMsg
      BY UpMessages DEF StatusMsg, TypeOK, ClientTypeOK
    <3> QED  BY <2>1, <3>1, SendUpQuiet DEF StatusMsg
  <2>2. CASE ~ (RecvAskStatus(c) /\ SendUp(c, StatusMsg(c, status[c])))
    <3>1. UNCHANGED up
      BY <2>2 DEF ReadData, RecvCode, RecvProgram, RunProblem, RecvAskStatus,
                  RecvTerminate, RecvPause, RecvResume, RecvGenomes, Abort
    <3> QED  BY <3>1, UnchangedQuiet
  <2> QED  BY <2>1, <2>2
<1>4. CASE RecvGenomes(c) /\ ~ Abort(c)
  <2>1. ~ Has(down'[c], "GENOMES")
    BY <1>4, ReceiveQuiet DEF RecvGenomes
  <2>2. Answered(c)
    BY <1>4, ReceiveType, QueueTypes, HasTail DEF RecvGenomes, Receive, Answered
  <2>3. ~ Requested(c) /\ ~ Asked(c)
    BY <2>2 DEF OneRequest
  <2>4. /\ UNCHANGED thread
        /\ \A d \in Clients \ {c} : parallelDataReady'[d] = parallelDataReady[d]
    BY <1>4 DEF RecvGenomes, TypeOK, ClientTypeOK
  <2> QED
    BY <1>1, <1>2, <1>3, <2>1, <2>3, <2>4
       DEF OneRequest, SigQuiet, UpQuiet, DownQuiet, Requested, Asked, Answered,
           Waiting
<1>5. CASE ~ (RecvGenomes(c) /\ ~ Abort(c))
  <2>1. WorkerQuiet
    <3>1. CASE RecvProgram(c) /\ ~ IsRunning(c)
      <4>1. /\ \A d \in Clients \ {c} : /\ thread'[d] = thread[d]
                                        /\ parallelDataReady'[d] = parallelDataReady[d]
            /\ thread[c] # "spin"
        BY <3>1 DEF RecvProgram, RunProblem, IsRunning, TypeOK, ClientTypeOK
      <4> QED  BY <4>1 DEF WorkerQuiet, Waiting
    <3>2. CASE RecvResume(c)
      BY <3>2 DEF RecvResume, WorkerQuiet, Waiting, TypeOK, ClientTypeOK
    <3>3. CASE ~ RecvResume(c) /\ ~ (RecvProgram(c) /\ ~ IsRunning(c))
      <4>1. UNCHANGED <<thread, parallelDataReady>>
        BY <1>5, <3>3
           DEF ReadData, RecvCode, RecvProgram, RunProblem, RecvAskStatus,
               RecvTerminate, RecvPause, RecvGenomes, Abort, workerVars
      <4> QED  BY <4>1, UnchangedQuiet
    <3> QED  BY <3>1, <3>2, <3>3
  <2> QED  BY <1>1, <1>2, <1>3, <2>1, QuietKeepsOne
<1> QED  BY <1>4, <1>5

\* requestGenomesSlot moves the request from the signals to the socket.
LEMMA HandleSignalOne ==
    ASSUME TypeInv, OneRequest, NEW c \in Clients, HandleSignal(c)
    PROVE  OneRequest'
<1> USE DEF TypeInv
<1>1. WorkerQuiet /\ DownQuiet
  <2>1. UNCHANGED <<thread, parallelDataReady, down>>
    BY DEF HandleSignal, RequestGenomesSlot, SendGenomesSlot, NewMinimumSlot,
           EndThread, workerVars
  <2> QED  BY <2>1, UnchangedQuiet
<1>2. CASE RequestGenomesSlot(c)
  <2> DEFINE m == [msg |-> "ASKGENOMES"]
  <2>1. Head(sig[c]).msg = "requestGenomes" /\ sig[c] # <<>>
    BY <1>2 DEF RequestGenomesSlot, Deliver
  <2>2. Requested(c)
    BY <2>1, QueueTypes, HasTail DEF Requested
  <2>3. Waiting(c) /\ ~ Asked(c) /\ ~ Answered(c)
    BY <2>2 DEF OneRequest
  <2>4. sig'[c] = Tail(sig[c]) /\ \A d \in Clients \ {c} : sig'[d] = sig[d]
    BY <1>2 DEF RequestGenomesSlot, Deliver, TypeOK, ClientTypeOK
  <2>5. ~ Has(sig'[c], "requestGenomes") /\ AtMostOnce(sig'[c], "requestGenomes")
    BY <2>1, <2>4, QueueTypes, OnceTail DEF OneRequest
  <2>6. /\ up'[c] \in {up[c], Append(up[c], m)}
        /\ \A d \in Clients \ {c} : up'[d] = up[d]
    BY <1>2 DEF RequestGenomesSlot, SendUp, Sent, TypeOK, NetTypeOK
  <2>7. AtMostOnce(up'[c], "ASKGENOMES")
    <3>1. m \in UpMsg
      BY DEF UpMsg, PlainUp
    <3>2. AtMostOnce(Append(up[c], m), "ASKGENOMES")
      BY <2>3, <3>1, QueueTypes, OnceAppend DEF Asked, OneRequest
    <3> QED  BY <2>6, <3>2 DEF OneRequest
  <2>8. UNCHANGED <<thread, parallelDataReady, down>>
    BY <1>2 DEF RequestGenomesSlot, workerVars
  <2> QED
    BY <2>3, <2>4, <2>5, <2>6, <2>7, <2>8
       DEF OneRequest, Requested, Asked, Answered, Waiting
<1>3. CASE SendGenomesSlot(c)
  <2>1. [msg |-> "SENDGENOMES", problem |-> codeBytes[c]] \in UpMsg
    BY <1>3, UpMessages DEF SendGenomesSlot, Deliver, WorkerHasLibrary
  <2> QED
    BY <1>1, <1>3, <2>1, DeliverQuiet, SendUpQuiet, QuietKeepsOne DEF SendGenomesSlot
<1>4. CASE NewMinimumSlot(c)
  <2> DEFINE m == [msg |-> "STATUS", status |-> status[c],
                   minimum |-> Head(sig[c]).problem]
  <2>1. Head(sig[c]) \in Signal /\ Head(sig[c]).msg = "newMinimum"
    BY <1>4, DeliverType DEF NewMinimumSlot, Deliver
  <2>2. m \in UpMsg
    BY <2>1, UpMessages DEF Signal, MaybeProblem, TypeOK, ClientTypeOK
  <2> QED
    BY <1>1, <1>4, <2>2, DeliverQuiet, SendUpQuiet, QuietKeepsOne DEF NewMinimumSlot
<1>5. CASE EndThread(c)
  <2>1. StatusMsg(c, "FINISH") \in UpMsg /\ StatusMsg(c, "FINISH").msg # "ASKGENOMES"
    BY UpMessages DEF StatusMsg, Status, TypeOK, ClientTypeOK
  <2> QED
    BY <1>1, <1>5, <2>1, DeliverQuiet, SendUpQuiet, QuietKeepsOne DEF EndThread
<1> QED  BY <1>2, <1>3, <1>4, <1>5 DEF HandleSignal

\* MyThread::run asks again only after it was released.
LEMMA WorkerOne ==
    ASSUME TypeInv, OneRequest, NEW c \in Clients, Worker(c)
    PROVE  OneRequest'
<1> USE DEF TypeInv
<1>1. UpQuiet /\ DownQuiet
  <2>1. UNCHANGED <<up, down>>
    BY DEF Worker, WorkerRequest, WorkerSpin, WorkerStop, WorkerEvolve, WorkerTail,
           WorkerReturn, netVars
  <2> QED  BY <2>1, UnchangedQuiet
<1>2. ~ Waiting(c)
  BY DEF Worker, WorkerRequest, WorkerSpin, WorkerStop, WorkerEvolve, WorkerTail,
         WorkerReturn, Waiting
<1>3. ~ Requested(c) /\ ~ Asked(c) /\ ~ Answered(c)
  BY <1>2 DEF OneRequest
<1>4. CASE WorkerRequest(c)
  <2> DEFINE m == [msg |-> "requestGenomes"]
  <2>1. /\ sig'[c] = sig[c] \o <<m>>
        /\ \A d \in Clients \ {c} : sig'[d] = sig[d]
    BY <1>4 DEF WorkerRequest, Emit, TypeOK, ClientTypeOK
  <2>2. AtMostOnce(sig'[c], "requestGenomes")
    <3>1. m \in Signal /\ sig[c] \o <<m>> = Append(sig[c], m)
      BY QueueTypes DEF Signal
    <3> QED  BY <1>3, <2>1, <3>1, QueueTypes, OnceAppend, ZenonT(60) DEF Requested, OneRequest
  <2>3. /\ thread'[c] = "spin" /\ ~ parallelDataReady'[c]
        /\ \A d \in Clients \ {c} : /\ thread'[d] = thread[d]
                                    /\ parallelDataReady'[d] = parallelDataReady[d]
    BY <1>4 DEF WorkerRequest, Goto, TypeOK, ClientTypeOK
  <2>4. UNCHANGED <<up, down>>
    BY <1>4 DEF WorkerRequest, netVars
  <2> QED
    BY <1>3, <2>1, <2>2, <2>3, <2>4 DEF OneRequest, Requested, Asked, Answered, Waiting
<1>5. CASE ~ WorkerRequest(c)
  <2>1. WorkerQuiet
    <3>1. /\ \A d \in Clients \ {c} : thread'[d] = thread[d]
          /\ UNCHANGED parallelDataReady
      BY <1>5 DEF Worker, WorkerSpin, WorkerStop, WorkerEvolve, WorkerTail,
                  WorkerReturn, Goto, TypeOK, ClientTypeOK
    <3> QED  BY <1>2, <3>1 DEF WorkerQuiet, Waiting
  <2>2. SigQuiet
    <3>1. CASE WorkerEvolve(c)
      <4>1. PICK improved \in BOOLEAN : Emit(c, GenerationSignals(c, improved))
        BY <3>1 DEF WorkerEvolve
      <4>2. codeBytes[c] \in Problems
        BY <3>1 DEF WorkerEvolve, WorkerHasLibrary
      <4>3. ~ Has(GenerationSignals(c, improved), "requestGenomes")
        <5> DEFINE a == [msg |-> "sendGenomes"]
                   b == [msg |-> "newMinimum", problem |-> codeBytes[c]]
        <5>1. a \in Signal /\ b \in Signal
          BY <4>2 DEF Signal
        <5>2. /\ <<a>> \in Seq(Signal) /\ <<b>> \in Seq(Signal)
              /\ <<>> \in Seq(Signal)
          BY <5>1
        <5>3. /\ ~ Has(<<a>>, "requestGenomes") /\ ~ Has(<<b>>, "requestGenomes")
              /\ ~ Has(<<>>, "requestGenomes")
          BY DEF Has
        <5>4. GenerationSignals(c, improved) \in {<<a>> \o <<b>>, <<a>> \o <<>>}
          BY DEF GenerationSignals
        <5> HIDE DEF a, b
        <5>5. ~ Has(<<a>> \o <<b>>, "requestGenomes")
          BY <5>2, <5>3, HasConcat
        <5>6. ~ Has(<<a>> \o <<>>, "requestGenomes")
          BY <5>2, <5>3, HasConcat
        <5> QED  BY <5>4, <5>5, <5>6
      <4> QED  BY <1>2, <4>1, <4>2, <4>3, GenerationSignalsType, EmitQuiet
    <3>2. CASE WorkerTail(c)
      <4>1. /\ <<[msg |-> "completed"]>> \in Seq(Signal)
            /\ ~ Has(<<[msg |-> "completed"]>>, "requestGenomes")
        BY DEF Signal, Has
      <4> QED  BY <1>2, <3>2, <4>1, EmitQuiet DEF WorkerTail
    <3>3. CASE ~ WorkerEvolve(c) /\ ~ WorkerTail(c)
      <4>1. UNCHANGED sig
        BY <1>5, <3>3 DEF Worker, WorkerSpin, WorkerStop, WorkerReturn
      <4> QED  BY <4>1, UnchangedQuiet
    <3> QED  BY <3>1, <3>2, <3>3
  <2> QED  BY <1>1, <2>1, <2>2, QuietKeepsOne
<1> QED  BY <1>4, <1>5

\* Every step keeps the one request.
LEMMA StepOneRequest ==
    ASSUME TypeInv, OneRequest, [Next]_vars
    PROVE  OneRequest'
<1>1. CASE UNCHANGED vars
  BY <1>1, UnchangedQuiet, QuietKeepsOne DEF vars, clientVars, workerVars, netVars
<1>2. ASSUME NEW c \in Clients, Connect(c) \/ Kill(c) \/ Unblock(c)
      PROVE  OneRequest'
  <2>1. UNCHANGED <<sig, down, thread, parallelDataReady>>
    BY <1>2 DEF Connect, Kill, Unblock, workerVars, netVars
  <2>2. UpQuiet
    <3>1. CASE Connect(c)
      <4>1. /\ [msg |-> "CONNECT"] \in UpMsg
            /\ [msg |-> "CONNECT"].msg # "ASKGENOMES"
        BY DEF UpMsg, PlainUp
      <4>2. /\ AtMostOnce(Append(up[c], [msg |-> "CONNECT"]), "ASKGENOMES")
            /\ Has(Append(up[c], [msg |-> "CONNECT"]), "ASKGENOMES") => Asked(c)
        BY <4>1, QueueTypes, OnceAppend, HasAppend DEF OneRequest, Asked, TypeInv
      <4> QED  BY <3>1, <4>2
               DEF Connect, UpQuiet, OneRequest, Asked, TypeInv, TypeOK, NetTypeOK
    <3>2. CASE Kill(c) \/ Unblock(c)
      BY <3>2, UnchangedQuiet DEF Kill, Unblock, netVars
    <3> QED  BY <1>2, <3>1, <3>2
  <2> QED  BY <2>1, <2>2, UnchangedQuiet, QuietKeepsOne
<1>3. ASSUME NEW c \in Clients, NEW quits \in BOOLEAN, Leave(c, quits)
      PROVE  OneRequest'
  <2>1. UpQuiet
    BY <1>3, SendUpQuiet, UpMessages DEF Leave, PlainUp, TypeInv
  <2>2. UNCHANGED <<sig, down, thread, parallelDataReady>>
    BY <1>3 DEF Leave, workerVars
  <2> QED  BY <2>1, <2>2, UnchangedQuiet, QuietKeepsOne
<1> QED  BY <1>1, <1>2, <1>3, NextCases, ServerStepOne, ReadDataOne, HandleSignalOne,
            WorkerOne DEF TypeInv

\* At first there is no request.
LEMMA InitOneRequest == Init => OneRequest
<1>1. \A kind : ~ Has(<<>>, kind) /\ AtMostOnce(<<>>, kind)
  BY DEF Has, AtMostOnce
<1>2. Init => \A c \in Clients : sig[c] = <<>> /\ up[c] = <<>> /\ down[c] = <<>>
  BY DEF Init, ClientInit, NetInit
<1> QED  BY <1>1, <1>2 DEF OneRequest, Requested, Asked, Answered

\* Whatever the server does, a request for chromosomes or its answer is in one
\* place at most, and only while the worker waits for it.
THEOREM OneRequestAlways == Spec => []OneRequest
<1>1. Init => TypeInv /\ OneRequest
  BY InitType, InitOneRequest
     DEF TypeInv, WorkerHasLibrary, Init, ClientInit
<1>2. TypeInv /\ OneRequest /\ [Next]_vars => (TypeInv /\ OneRequest)'
  BY StepType, StepLibrary, StepOneRequest DEF TypeInv
<1> QED  BY <1>1, <1>2, PTL DEF Spec

\* The main thread never writes the chromosomes of the server into a Population
\* whose worker is evolving it, although nothing locks it.
THEOREM PopulationExclusiveAlways == Spec => []PopulationExclusive
<1>1. OneRequest => PopulationExclusive
  BY DEF OneRequest, PopulationExclusive, Waiting
<1> QED  BY <1>1, OneRequestAlways, PTL

-----------------------------------------------------------------------------
(* A pause leaves a thread that has returned.                              *)

\* A process that is not connected has no thread; without this conjunct
\* ResumeFindsItStopped is not inductive.
NotConnected ==
    \A c \in Clients : proc[c] = "off" => ~ stopflag[c] /\ thread[c] = "none"

StopInv == ResumeFindsItStopped /\ NotConnected

\* Steps that leave the thread and its flag alone, and make no process "up".
LEMMA StopFrame ==
    ASSUME StopInv, UNCHANGED <<thread, stopflag>>,
           \A d \in Clients : /\ proc'[d] = "up" => proc[d] \in {"up", "off"}
                              /\ proc'[d] = "off" => proc[d] = "off"
    PROVE  StopInv'
BY DEF StopInv, ResumeFindsItStopped, NotConnected

\* recvString sets stopflag only as it goes to wait for the worker, and clears
\* it in resumeExecution.
LEMMA ReadDataStop ==
    ASSUME TypeInv, StopInv, NEW c \in Clients, ReadData(c)
    PROVE  StopInv'
<1> USE DEF TypeInv, TypeOK, ClientTypeOK
<1>1. proc[c] = "up"
  BY DEF ReadData, RecvCode, RecvProgram, RecvAskStatus, RecvTerminate, RecvPause,
         RecvResume, RecvGenomes, Receive
<1>2. CASE RecvProgram(c)
  <2>1. CASE IsRunning(c) /\ Abort(c)
    BY <2>1, StopFrame DEF Abort, workerVars
  <2>2. CASE ~ IsRunning(c)
    <3>1. /\ stopflag' = [stopflag EXCEPT ![c] = FALSE]
          /\ \A d \in Clients \ {c} : thread'[d] = thread[d]
          /\ UNCHANGED proc
      BY <1>2, <2>2 DEF RecvProgram, RunProblem
    <3> QED  BY <1>1, <3>1 DEF StopInv, ResumeFindsItStopped, NotConnected
  <2> QED  BY <1>2, <2>1, <2>2 DEF RecvProgram, RunProblem
<1>3. CASE RecvPause(c)
  <2>1. UNCHANGED thread /\ \A d \in Clients \ {c} :
              proc'[d] = proc[d] /\ stopflag'[d] = stopflag[d]
    BY <1>3 DEF RecvPause
  <2>2. /\ proc'[c] = "up" /\ stopflag'[c] => thread'[c] = "finished"
        /\ proc'[c] # "off"
    BY <1>1, <1>3
       DEF RecvPause, IsRunning, StopInv, ResumeFindsItStopped, ThreadState
  <2> QED  BY <2>1, <2>2 DEF StopInv, ResumeFindsItStopped, NotConnected
<1>4. CASE RecvResume(c)
  <2>1. /\ UNCHANGED proc
        /\ \A d \in Clients \ {c} :
              thread'[d] = thread[d] /\ stopflag'[d] = stopflag[d]
    BY <1>4 DEF RecvResume
  <2>2. stopflag'[c] => thread'[c] = "finished"
    BY <1>1, <1>4 DEF RecvResume, StopInv, ResumeFindsItStopped
  <2> QED  BY <1>1, <2>1, <2>2 DEF StopInv, ResumeFindsItStopped, NotConnected
<1>5. CASE ~ RecvProgram(c) /\ ~ RecvPause(c) /\ ~ RecvResume(c)
  <2>1. UNCHANGED <<thread, stopflag>>
    BY <1>5 DEF ReadData, RecvCode, RecvAskStatus, RecvTerminate, RecvGenomes, Abort,
                workerVars
  <2>2. proc' \in {proc, [proc EXCEPT ![c] = "exited"], [proc EXCEPT ![c] = "aborted"]}
    BY <1>5 DEF ReadData, RecvCode, RecvAskStatus, RecvTerminate, RecvGenomes, Abort,
                mainVars
  <2> QED  BY <2>1, <2>2, StopFrame
<1> QED  BY <1>2, <1>3, <1>4, <1>5

\* The worker does not touch stopflag, and a thread that is finished does nothing.
LEMMA WorkerStopFlag ==
    ASSUME TypeInv, StopInv, NEW c \in Clients, Worker(c)
    PROVE  StopInv'
<1> USE DEF TypeInv, TypeOK, ClientTypeOK, Goto, mainVars
<1>1. /\ UNCHANGED <<proc, stopflag>>
      /\ proc[c] \in {"up", "blocked"} /\ thread[c] # "finished"
      /\ \A d \in Clients \ {c} : thread'[d] = thread[d]
  BY DEF Worker, WorkerRequest, WorkerSpin, WorkerStop, WorkerEvolve, WorkerTail,
         WorkerReturn, Alive
<1> QED  BY <1>1 DEF StopInv, ResumeFindsItStopped, NotConnected

\* Every step keeps StopInv.
LEMMA StepStop ==
    ASSUME TypeInv, StopInv, [Next]_vars
    PROVE  StopInv'
<1> USE DEF TypeInv, TypeOK, ClientTypeOK
<1>1. CASE UNCHANGED vars \/ ServerStep
  <2>1. UNCHANGED clientVars
    BY <1>1 DEF vars, ServerStep, Serve, Command, ServerEnds, Answer, Release
  <2> QED  BY <2>1, StopFrame DEF clientVars, mainVars, workerVars
<1>2. ASSUME NEW c \in Clients,
             Connect(c) \/ Kill(c) \/ \E quits \in BOOLEAN : Leave(c, quits)
      PROVE  StopInv'
  <2>1. UNCHANGED <<thread, stopflag>>
    BY <1>2 DEF Connect, Kill, Leave, workerVars
  <2>2. /\ proc'[c] = "up" => proc[c] \in {"up", "off"}
        /\ proc'[c] # "off"
        /\ \A d \in Clients \ {c} : proc'[d] = proc[d]
    BY <1>2 DEF Connect, Kill, Leave
  <2> QED  BY <2>1, <2>2, StopFrame
<1>3. ASSUME NEW c \in Clients, Unblock(c)
      PROVE  StopInv'
  BY <1>3 DEF Unblock, StopInv, ResumeFindsItStopped, NotConnected, workerVars
<1>4. ASSUME NEW c \in Clients, HandleSignal(c)
      PROVE  StopInv'
  <2>1. UNCHANGED <<proc, thread, stopflag>>
    BY <1>4 DEF HandleSignal, RequestGenomesSlot, SendGenomesSlot, NewMinimumSlot,
                EndThread, mainVars, workerVars
  <2> QED  BY <2>1, StopFrame
<1> QED
  BY <1>1, <1>2, <1>3, <1>4, NextCases, ReadDataStop, WorkerStopFlag

\* StopInv holds at first.
LEMMA InitStop == Init => StopInv
BY DEF Init, ClientInit, StopInv, ResumeFindsItStopped, NotConnected

\* Whenever the main thread can read RESUME and the stop flag is set, run() has
\* returned: the call of start() in resumeExecution is never ignored by Qt.
THEOREM ResumeAlwaysFindsItStopped == Spec => []ResumeFindsItStopped
<1>1. Init => TypeInv /\ StopInv
  BY InitType, InitStop DEF TypeInv, WorkerHasLibrary, Init, ClientInit
<1>2. TypeInv /\ StopInv /\ [Next]_vars => (TypeInv /\ StopInv)'
  BY StepType, StepLibrary, StepStop DEF TypeInv
<1>3. StopInv => ResumeFindsItStopped
  BY DEF StopInv
<1> QED  BY <1>1, <1>2, <1>3, PTL DEF Spec

-----------------------------------------------------------------------------
(* A pause that hangs.                                                     *)

\* Steps that do not change what makes a client hang.
LEMMA HungFrame ==
    ASSUME NEW c \in Clients, Hung(c), proc'[c] \in {"blocked", "killed"},
           thread'[c] = thread[c], parallelDataReady'[c] = parallelDataReady[c]
    PROVE  (Hung(c) \/ proc[c] = "killed")'
BY DEF Hung, Waiting

\* A step leaves a client hung, or is the death of its process.
LEMMA StepHung ==
    ASSUME TypeOK, [Next]_vars, NEW c \in Clients, Hung(c)
    PROVE  (Hung(c) \/ proc[c] = "killed")'
<1> USE DEF TypeOK, ClientTypeOK
<1>1. proc[c] = "blocked" /\ thread[c] = "spin" /\ ~ parallelDataReady[c]
  BY DEF Hung, Waiting
<1>2. CASE UNCHANGED vars \/ ServerStep
  <2>1. UNCHANGED clientVars
    BY <1>2 DEF vars, ServerStep, Serve, Command, ServerEnds, Answer, Release
  <2> QED  BY <1>1, <2>1, HungFrame DEF clientVars, mainVars, workerVars
<1>3. ASSUME NEW e \in Clients, Connect(e) \/ Kill(e) \/ Unblock(e)
      PROVE  (Hung(c) \/ proc[c] = "killed")'
  <2>1. /\ UNCHANGED <<thread, parallelDataReady>>
        /\ proc'[c] \in {"blocked", "killed"}
    BY <1>1, <1>3 DEF Connect, Kill, Unblock, workerVars
  <2> QED  BY <2>1, HungFrame
<1>4. ASSUME NEW e \in Clients, NEW quits \in BOOLEAN, Leave(e, quits)
      PROVE  (Hung(c) \/ proc[c] = "killed")'
  <2>1. UNCHANGED <<thread, parallelDataReady>> /\ proc'[c] = "blocked"
    BY <1>1, <1>4 DEF Leave, workerVars
  <2> QED  BY <2>1, HungFrame
<1>5. ASSUME NEW e \in Clients, ReadData(e) \/ HandleSignal(e)
      PROVE  (Hung(c) \/ proc[c] = "killed")'
  <2>1. proc[e] = "up" /\ e # c
    BY <1>1, <1>5
       DEF ReadData, RecvCode, RecvProgram, RecvAskStatus, RecvTerminate, RecvPause,
           RecvResume, RecvGenomes, Receive, HandleSignal, RequestGenomesSlot,
           SendGenomesSlot, NewMinimumSlot, EndThread, Deliver
  <2>2. CASE HandleSignal(e)
    <3>1. UNCHANGED <<proc, thread, parallelDataReady>>
      BY <2>2 DEF HandleSignal, RequestGenomesSlot, SendGenomesSlot, NewMinimumSlot,
                  EndThread, mainVars, workerVars
    <3> QED  BY <1>1, <3>1, HungFrame
  <2>3. CASE ReadData(e)
    <3>1. proc'[c] = proc[c]
      BY <2>1, <2>3
         DEF ReadData, RecvCode, RecvProgram, RunProblem, RecvAskStatus, RecvTerminate,
             RecvPause, RecvResume, RecvGenomes, Abort, mainVars
    <3>2. thread'[c] = thread[c]
      BY <2>1, <2>3
         DEF ReadData, RecvCode, RecvProgram, RunProblem, RecvAskStatus, RecvTerminate,
             RecvPause, RecvResume, RecvGenomes, Abort, workerVars
    <3>3. parallelDataReady'[c] = parallelDataReady[c]
      BY <2>1, <2>3
         DEF ReadData, RecvCode, RecvProgram, RunProblem, RecvAskStatus, RecvTerminate,
             RecvPause, RecvResume, RecvGenomes, Abort, workerVars
    <3> QED  BY <1>1, <3>1, <3>2, <3>3, HungFrame
  <2> QED  BY <1>5, <2>2, <2>3
<1>6. ASSUME NEW e \in Clients, Worker(e)
      PROVE  (Hung(c) \/ proc[c] = "killed")'
  <2>1. e # c
    BY <1>1, <1>6 DEF Worker, WorkerRequest, WorkerSpin, WorkerStop, WorkerEvolve,
                      WorkerTail, WorkerReturn
  <2>2. /\ proc'[c] = proc[c] /\ thread'[c] = thread[c]
        /\ parallelDataReady'[c] = parallelDataReady[c]
    BY <1>6, <2>1 DEF Worker, WorkerRequest, WorkerSpin, WorkerStop, WorkerEvolve,
                      WorkerTail, WorkerReturn, Goto, mainVars
  <2> QED  BY <1>1, <2>2, HungFrame
<1> QED  BY <1>2, <1>3, <1>4, <1>5, <1>6, NextCases

\* "hangs forever sometimes": a main thread that waits for a worker that waits
\* for it is never released, whatever the server sends; only its death ends it.
THEOREM HangAlwaysForever == Spec => HangIsForever
<1>1. TypeOK /\ [Next]_vars
      => [\A c \in Clients : Hung(c) => (Hung(c) \/ proc[c] = "killed")']_vars
  BY StepHung
<1>2. Spec => []TypeOK
  BY ClientTypeCorrect, PTL
<1> QED  BY <1>1, <1>2, PTL DEF Spec, HangIsForever

-----------------------------------------------------------------------------
(* A worker that waits has a request on its way.                           *)

Pending(d) == Requested(d) \/ Asked(d) \/ Answered(d)

\* While the connection of d lives, d does not start to wait and its request
\* is not lost.
Keeps(d) ==
    link'[d] = "open" /\ (Waiting(d))' =>
        /\ link[d] = "open" /\ Waiting(d)
        /\ Pending(d) => Pending(d)'

\* A step that keeps the request of c and the wait keeps RequestKept.
LEMMA KeepsKept ==
    ASSUME RequestKept, \A d \in Clients : Keeps(d)
    PROVE  RequestKept'
BY DEF RequestKept, Keeps, Pending

\* What is written to a queue leaves a request there.
LEMMA SendUpKeeps ==
    ASSUME TypeOK, NEW c \in Clients, NEW m \in UpMsg, SendUp(c, m),
           NEW d \in Clients, Asked(d)
    PROVE  Asked(d)'
<1>1. Has(up[c], "ASKGENOMES") => Has(Append(up[c], m), "ASKGENOMES")
  BY QueueTypes, HasAppend
<1>2. /\ up'[c] \in {up[c], Append(up[c], m)}
      /\ \A e \in Clients \ {c} : up'[e] = up[e]
  BY DEF SendUp, Sent, TypeOK, NetTypeOK
<1> QED  BY <1>1, <1>2 DEF Asked

\* What a server writes of its own accord removes nothing.
LEMMA PushKeeps ==
    ASSUME TypeOK, NEW f \in Pushes, Push(f), NEW d \in Clients, Answered(d)
    PROVE  Answered(d)'
<1>1. CASE f[d] # Nothing
  <2>1. f[d] \in DownMsg
    BY <1>1 DEF Pushes, ControlMsg
  <2>2. Has(Append(down[d], f[d]), "GENOMES")
    BY <2>1, QueueTypes, HasAppend DEF Answered
  <2>3. down'[d] \in {down[d], Append(down[d], f[d])}
    BY <1>1 DEF Push
  <2> QED  BY <2>2, <2>3 DEF Answered
<1>2. CASE f[d] = Nothing
  BY <1>2 DEF Push, Answered
<1> QED  BY <1>1, <1>2

\* A server that reads a request writes the answer in the same step.
LEMMA ServerStepKeeps ==
    ASSUME TypeOK, ServerStep, NEW d \in Clients
    PROVE  Keeps(d)
<1>1. UNCHANGED <<sig, thread, parallelDataReady>>
  BY DEF ServerStep, Serve, Command, ServerEnds, Answer, Release, clientVars,
         workerVars
<1> USE DEF Keeps, Pending, Waiting
<1>2. ASSUME NEW c \in Clients, NEW f \in Pushes, Serve(c, f)
      PROVE  Keeps(d)
  <2>1. Asked(d) => Asked(d)'
    <3>1. Asked(c) => Has(Tail(up[c]), "ASKGENOMES")
      BY <1>2, QueueTypes, HasTail DEF Serve, Asked
    <3>2. up'[c] = Tail(up[c]) /\ \A e \in Clients \ {c} : up'[e] = up[e]
      BY <1>2 DEF Serve, TypeOK, NetTypeOK
    <3> QED  BY <3>1, <3>2 DEF Asked
  <2> QED  BY <1>1, <1>2, <2>1, PushKeeps DEF Serve, Requested
<1>3. ASSUME NEW f \in Pushes, Command(f)
      PROVE  Keeps(d)
  BY <1>1, <1>3, PushKeeps DEF Command, Requested, Asked
<1>4. ASSUME NEW f \in Pushes, ServerEnds(f)
      PROVE  Keeps(d)
  <2>1. link'[d] # "open"
    BY <1>4 DEF ServerEnds
  <2> QED  BY <2>1
<1>5. ASSUME NEW c \in Clients, NEW array \in SUBSET Problems, Answer(c, array)
      PROVE  Keeps(d)
  <2> DEFINE m == [msg |-> "GENOMES", array |-> array]
  <2>1. CASE d = c /\ link[c] = "open"
    <3>1. m \in DownMsg /\ m.msg = "GENOMES"
      BY DEF DownMsg
    <3>2. down'[c] = Append(down[c], m)
      BY <1>5, <2>1 DEF Answer, Sent, TypeOK, NetTypeOK
    <3>3. Has(Append(down[c], m), "GENOMES")
      BY <3>1, QueueTypes, HasAppend
    <3>4. Answered(d)'
      BY <2>1, <3>2, <3>3 DEF Answered
    <3> QED  BY <1>1, <1>5, <2>1, <3>4 DEF Answer
  <2>2. CASE d # c
    <3>1. down'[d] = down[d] /\ up'[d] = up[d] /\ link' = link
      BY <1>5, <2>2 DEF Answer, Sent, TypeOK, NetTypeOK
    <3> QED  BY <1>1, <3>1 DEF Requested, Asked, Answered
  <2>3. CASE link[d] # "open"
    BY <1>5, <2>3 DEF Answer
  <2> QED  BY <2>1, <2>2, <2>3
<1>6. ASSUME NEW c \in Clients, Release(c)
      PROVE  Keeps(d)
  <2>1. CASE d = c
    BY <1>6, <2>1 DEF Release, TypeOK, NetTypeOK
  <2>2. CASE d # c
    <3>1. down'[d] = down[d] /\ up'[d] = up[d] /\ link'[d] = link[d]
      BY <1>6, <2>2 DEF Release, TypeOK, NetTypeOK
    <3> QED  BY <1>1, <3>1 DEF Requested, Asked, Answered
  <2> QED  BY <2>1, <2>2
<1> QED  BY <1>2, <1>3, <1>4, <1>5, <1>6 DEF ServerStep

\* recvString reads the answer and releases the worker in the same step.
LEMMA ReadDataKeeps ==
    ASSUME TypeOK, NEW c \in Clients, ReadData(c), NEW d \in Clients
    PROVE  Keeps(d)
<1> USE DEF Keeps, Pending, Waiting, TypeOK, ClientTypeOK, NetTypeOK
<1>1. UNCHANGED sig
  BY DEF ReadData, RecvCode, RecvProgram, RunProblem, RecvAskStatus,
         RecvTerminate, RecvPause, RecvResume, RecvGenomes, Abort
<1>2. CASE d # c
  <2>1. down'[d] = down[d]
    BY <1>2 DEF ReadData, RecvCode, RecvProgram, RecvAskStatus, RecvTerminate,
                RecvPause, RecvResume, RecvGenomes, Receive
  <2>2. up'[d] = up[d] /\ link'[d] = link[d]
    BY <1>2 DEF ReadData, RecvCode, RecvProgram, RunProblem, RecvAskStatus, SendUp, Sent,
                RecvTerminate, RecvPause, RecvResume, RecvGenomes, Abort
  <2>3. thread'[d] = thread[d]
    BY <1>2 DEF ReadData, RecvCode, RecvProgram, RunProblem, RecvAskStatus,
                RecvTerminate, RecvPause, RecvResume, RecvGenomes, Abort, workerVars
  <2>4. parallelDataReady'[d] = parallelDataReady[d]
    BY <1>2 DEF ReadData, RecvCode, RecvProgram, RunProblem, RecvAskStatus,
                RecvTerminate, RecvPause, RecvResume, RecvGenomes, Abort, workerVars
  <2> QED  BY <1>1, <2>1, <2>2, <2>3, <2>4 DEF Requested, Asked, Answered
<1>3. CASE d = c /\ (RecvTerminate(c) \/ Abort(c))
  <2>1. link'[c] # "open"
    BY <1>3 DEF RecvTerminate, Abort
  <2> QED  BY <1>3, <2>1
<1>4. CASE d = c /\ RecvProgram(c) /\ ~ Abort(c)
  <2>1. thread' = [thread EXCEPT ![c] = RunEntry(0)]
    BY <1>4 DEF RecvProgram, RunProblem
  <2>2. thread'[c] # "spin"
    BY <2>1 DEF RunEntry
  <2> QED  BY <1>4, <2>2
<1>5. CASE d = c /\ RecvGenomes(c) /\ ~ Abort(c)
  <2>1. parallelDataReady'[c]
    BY <1>5 DEF RecvGenomes
  <2> QED  BY <1>5, <2>1
<1>6. CASE /\ d = c /\ ~ Abort(c)
           /\ RecvCode(c) \/ RecvAskStatus(c) \/ RecvPause(c) \/ RecvResume(c)
  <2>1. Answered(c) => Answered(c)'
    <3>1. down[c] # <<>> /\ Head(down[c]).msg # "GENOMES" /\ down'[c] = Tail(down[c])
      BY <1>6, ReceiveType DEF RecvCode, RecvAskStatus, RecvPause, RecvResume, Receive
    <3> QED  BY <3>1, QueueTypes, HasTail, SMTT(30) DEF Answered
  <2>2. Asked(c) => Asked(c)'
    <3>1. StatusMsg(c, status[c]) \in UpMsg
      BY UpMessages DEF StatusMsg
    <3>2. UNCHANGED up \/ SendUp(c, StatusMsg(c, status[c]))
      BY <1>6 DEF RecvCode, RecvAskStatus, RecvPause, RecvResume
    <3> QED  BY <3>1, <3>2, SendUpKeeps DEF Asked
  <2>3. UNCHANGED <<link, parallelDataReady>>
    BY <1>6 DEF RecvCode, RecvAskStatus, RecvPause, RecvResume, workerVars
  <2>4. thread'[c] = "spin" => thread[c] = "spin"
    BY <1>6 DEF RecvCode, RecvAskStatus, RecvPause, RecvResume, RunEntry, workerVars
  <2> QED  BY <1>1, <1>6, <2>1, <2>2, <2>3, <2>4 DEF Requested
<1> QED  BY <1>2, <1>3, <1>4, <1>5, <1>6 DEF ReadData

\* requestGenomesSlot writes the request it takes to the socket.
LEMMA HandleSignalKeeps ==
    ASSUME TypeInv, NEW c \in Clients, HandleSignal(c), NEW d \in Clients
    PROVE  Keeps(d)
<1> USE DEF TypeInv
<1>1. UNCHANGED <<down, link, thread, parallelDataReady>>
  BY DEF HandleSignal, RequestGenomesSlot, SendGenomesSlot, NewMinimumSlot, EndThread,
         workerVars
<1>2. /\ sig[c] # <<>> /\ sig'[c] = Tail(sig[c])
      /\ \A e \in Clients \ {c} : sig'[e] = sig[e]
  BY DEF HandleSignal, RequestGenomesSlot, SendGenomesSlot, NewMinimumSlot, EndThread,
         Deliver, TypeOK, ClientTypeOK
<1>3. Asked(d) => Asked(d)'
  <2>1. CASE RequestGenomesSlot(c)
    BY <2>1, UpMessages, SendUpKeeps DEF RequestGenomesSlot, PlainUp
  <2>2. CASE SendGenomesSlot(c)
    <3>1. [msg |-> "SENDGENOMES", problem |-> codeBytes[c]] \in UpMsg
      BY <2>2, UpMessages DEF SendGenomesSlot, Deliver, WorkerHasLibrary
    <3> QED  BY <2>2, <3>1, SendUpKeeps DEF SendGenomesSlot
  <2>3. CASE NewMinimumSlot(c)
    <3>1. Head(sig[c]) \in Signal /\ Head(sig[c]).msg = "newMinimum"
      BY <2>3, DeliverType DEF NewMinimumSlot, Deliver
    <3>2. [msg |-> "STATUS", status |-> status[c], minimum |-> Head(sig[c]).problem]
              \in UpMsg
      BY <3>1, UpMessages DEF Signal, MaybeProblem, TypeOK, ClientTypeOK
    <3> QED  BY <2>3, <3>2, SendUpKeeps DEF NewMinimumSlot
  <2>4. CASE EndThread(c)
    <3>1. StatusMsg(c, "FINISH") \in UpMsg
      BY UpMessages DEF StatusMsg, Status, TypeOK, ClientTypeOK
    <3> QED  BY <2>4, <3>1, SendUpKeeps DEF EndThread
  <2> QED  BY <2>1, <2>2, <2>3, <2>4 DEF HandleSignal
<1>4. CASE d # c \/ Head(sig[c]).msg # "requestGenomes"
  <2>1. Requested(d) => Requested(d)'
    BY <1>2, <1>4, QueueTypes, HasTail DEF Requested
  <2> QED  BY <1>1, <1>3, <2>1 DEF Keeps, Pending, Waiting, Answered
<1>5. CASE d = c /\ Head(sig[c]).msg = "requestGenomes" /\ link[c] = "open"
  <2> DEFINE m == [msg |-> "ASKGENOMES"]
  <2>1. SendUp(c, m)
    BY <1>5 DEF HandleSignal, RequestGenomesSlot, SendGenomesSlot, NewMinimumSlot,
                EndThread, Deliver
  <2>2. m \in UpMsg /\ m.msg = "ASKGENOMES"
    BY DEF UpMsg, PlainUp
  <2>3. up'[c] = Append(up[c], m)
    BY <1>5, <2>1 DEF SendUp, Sent, TypeOK, NetTypeOK
  <2>4. Has(Append(up[c], m), "ASKGENOMES")
    BY <2>2, QueueTypes, HasAppend
  <2>5. Asked(c)'
    BY <2>3, <2>4 DEF Asked
  <2> QED  BY <1>1, <1>5, <2>5 DEF Keeps, Pending, Waiting
<1>6. CASE link[d] # "open"
  BY <1>1, <1>6 DEF Keeps
<1> QED  BY <1>4, <1>5, <1>6

\* MyThread::run begins to wait as it emits the request.
LEMMA WorkerKeeps ==
    ASSUME TypeInv, NEW c \in Clients, Worker(c), NEW d \in Clients
    PROVE  Keeps(d) \/ Requested(d)'
<1> USE DEF TypeInv, TypeOK, ClientTypeOK, Goto, Emit, mainVars
<1>1. UNCHANGED <<up, down, link>>
  BY DEF Worker, WorkerRequest, WorkerSpin, WorkerStop, WorkerEvolve, WorkerTail,
         WorkerReturn, netVars
<1>2. CASE d # c
  <2>1. sig'[d] = sig[d]
    BY <1>2 DEF Worker, WorkerRequest, WorkerSpin, WorkerStop, WorkerEvolve,
                WorkerTail, WorkerReturn
  <2>2. thread'[d] = thread[d]
    BY <1>2 DEF Worker, WorkerRequest, WorkerSpin, WorkerStop, WorkerEvolve,
                WorkerTail, WorkerReturn
  <2>3. parallelDataReady'[d] = parallelDataReady[d]
    BY <1>2 DEF Worker, WorkerRequest, WorkerSpin, WorkerStop, WorkerEvolve,
                WorkerTail, WorkerReturn
  <2> QED
    BY <1>1, <2>1, <2>2, <2>3
       DEF Keeps, Pending, Waiting, Requested, Asked, Answered
<1>3. CASE d = c /\ WorkerRequest(c)
  <2> DEFINE m == [msg |-> "requestGenomes"]
  <2>1. m \in Signal /\ sig[c] \o <<m>> = Append(sig[c], m)
    BY QueueTypes DEF Signal
  <2>2. Has(Append(sig[c], m), "requestGenomes")
    BY <2>1, QueueTypes, HasAppend
  <2>3. sig'[c] = sig[c] \o <<m>>
    BY <1>3 DEF WorkerRequest
  <2> QED  BY <1>3, <2>1, <2>2, <2>3 DEF Requested
<1>4. CASE d = c /\ ~ WorkerRequest(c)
  <2>1. thread'[c] # "spin"
    BY <1>4 DEF Worker, WorkerSpin, WorkerStop, WorkerEvolve, WorkerTail, WorkerReturn
  <2> QED  BY <1>4, <2>1 DEF Keeps, Waiting
<1> QED  BY <1>2, <1>3, <1>4

\* Every step keeps RequestKept.
LEMMA StepKept ==
    ASSUME TypeInv, StopInv, RequestKept, [Next]_vars
    PROVE  RequestKept'
<1> USE DEF TypeInv
<1>1. CASE UNCHANGED vars
  BY <1>1 DEF vars, clientVars, workerVars, netVars, RequestKept, Waiting, Requested,
              Asked, Answered
<1>2. CASE ServerStep
  BY <1>2, ServerStepKeeps, KeepsKept
<1>3. ASSUME NEW c \in Clients,
             \/ Connect(c) \/ Kill(c) \/ Unblock(c)
             \/ \E quits \in BOOLEAN : Leave(c, quits)
      PROVE  RequestKept'
  <2>1. UNCHANGED <<sig, down, thread, parallelDataReady>>
    BY <1>3 DEF Connect, Kill, Unblock, Leave, workerVars, netVars
  <2>2. CASE Connect(c)
    <3>1. thread[c] = "none"
      BY <2>2 DEF Connect, StopInv, NotConnected
    <3>2. \A d \in Clients \ {c} : link'[d] = link[d] /\ up'[d] = up[d]
      BY <2>2 DEF Connect, TypeOK, NetTypeOK
    <3> QED
      BY <2>1, <3>1, <3>2 DEF RequestKept, Waiting, Requested, Asked, Answered
  <2>3. CASE Kill(c) \/ Unblock(c)
    <3>1. /\ UNCHANGED up
          /\ \A d \in Clients : link'[d] = "open" => link[d] = "open"
      BY <2>3 DEF Kill, Unblock, netVars, TypeOK, NetTypeOK
    <3> QED  BY <2>1, <3>1 DEF RequestKept, Waiting, Requested, Asked, Answered
  <2>4. ASSUME NEW quits \in BOOLEAN, Leave(c, quits)
        PROVE  RequestKept'
    <3>1. \A d \in Clients : Asked(d) => Asked(d)'
      BY <2>4, UpMessages, SendUpKeeps DEF Leave, PlainUp
    <3>2. UNCHANGED link
      BY <2>4 DEF Leave
    <3> QED  BY <2>1, <3>1, <3>2 DEF RequestKept, Waiting, Requested, Answered
  <2> QED  BY <1>3, <2>2, <2>3, <2>4
<1>4. ASSUME NEW c \in Clients, ReadData(c) \/ HandleSignal(c)
      PROVE  RequestKept'
  BY <1>4, ReadDataKeeps, HandleSignalKeeps, KeepsKept
<1>5. ASSUME NEW c \in Clients, Worker(c)
      PROVE  RequestKept'
  BY <1>5, WorkerKeeps DEF Keeps, Pending, RequestKept
<1> QED  BY <1>1, <1>2, <1>3, <1>4, <1>5, NextCases

\* As long as the connection lives, a worker that waits for chromosomes has a
\* request on its way: none is dropped, and no answer is consumed by the wrong
\* wait.
THEOREM RequestAlwaysKept == Spec => []RequestKept
<1>1. Init => TypeInv /\ StopInv /\ RequestKept
  <2>1. Init => RequestKept
    BY DEF Init, ClientInit, NetInit, RequestKept, Waiting
  <2> QED  BY <2>1, InitType, InitStop DEF TypeInv, WorkerHasLibrary, Init, ClientInit
<1>2. TypeInv /\ StopInv /\ RequestKept /\ [Next]_vars
      => (TypeInv /\ StopInv /\ RequestKept)'
  BY StepType, StepLibrary, StepStop, StepKept DEF TypeInv
<1> QED  BY <1>1, <1>2, PTL DEF Spec
=============================================================================
