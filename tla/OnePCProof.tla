----------------------------- MODULE OnePCProof -----------------------------
(***************************************************************************)
(* Proofs about the whole system: what the slots of the server do, that    *)
(* its clients are those of ClientSystem, and what follows for it; then,   *)
(* while the user only chooses problems, loads scripts and presses RUN,    *)
(* what the server counts, and that its slots implement Experiment.        *)
(***************************************************************************)
EXTENDS OnePC, FiniteSetTheorems, SequenceTheorems, WellFoundedInduction, TLAPS

\* AnyServer together with what is proved of it.
Clnt == INSTANCE ClientProof WITH
    Controls <- {"CODE", "PROGRAM", "ASKSTATUS", "TERMINATE", "PAUSE", "RESUME"},
    DownLengths <- Nat, Backlogs <- Nat

-----------------------------------------------------------------------------
(* Induction over the turns of a loop.                                     *)

\* A set of natural numbers has a least element.
LEMMA Least ==
    ASSUME NEW S \in SUBSET Nat, S # {}
    PROVE  \E m \in S : \A k \in S : m <= k
<1> DEFINE R == {p \in Nat \X Nat : p[1] < p[2]}
<1>1. OpToRel(<, Nat) = R
  BY Zenon DEF OpToRel
<1>2. IsWellFoundedOn(R, Nat)
  BY <1>1, NatLessThanWellFounded, Zenon
<1>3. PICK m \in S : \A k \in S : ~ (<<k, m>> \in R)
  <2> HIDE DEF R
  <2> QED  BY <1>2, WFMin, Zenon
<1>4. ASSUME NEW k \in S PROVE m <= k
  <2>1. k \in Nat /\ m \in Nat
    OBVIOUS
  <2>2. k < m => <<k, m>> \in R
    BY <2>1
  <2> QED  BY <1>3, <2>1, <2>2
<1> QED  BY <1>4

\* The turns of the loop of runParserCommands are a function.
LEMMA LoopExists ==
    ASSUME NEW d, NEW n \in Nat
    PROVE  \E g : g = [k \in 0 .. n |->
                          IF k = 0 THEN d
                          ELSE executeCommand(g[k - 1], Script[d.pos + k - 1])]
<1> DEFINE Turn(e, k) == executeCommand(e, Script[d.pos + k - 1])
           Exists(m) == \E g : g = [k \in 0 .. m |-> IF k = 0 THEN d ELSE Turn(g[k - 1], k)]
           Bad == {m \in Nat : ~ Exists(m)}
<1> SUFFICES ASSUME Bad # {} PROVE FALSE
  OBVIOUS
<1> HIDE DEF Turn
<1>1. PICK m \in Bad : \A j \in Bad : m <= j
  BY Least
<1>2. m # 0
  <2> DEFINE g == [k \in 0 .. 0 |-> d]
  <2>1. g = [k \in 0 .. 0 |-> IF k = 0 THEN d ELSE Turn(g[k - 1], k)]
    OBVIOUS
  <2> QED  BY <1>1, <2>1
<1>3. Exists(m - 1)
  <2>1. m - 1 \in Nat /\ ~ m <= m - 1
    BY <1>1, <1>2
  <2>2. m - 1 \notin Bad
    BY <1>1, <2>1
  <2> HIDE DEF Exists
  <2> QED  BY <2>1, <2>2
<1>4. PICK g : g = [k \in 0 .. m - 1 |-> IF k = 0 THEN d ELSE Turn(g[k - 1], k)]
  BY <1>3
<1> DEFINE h == [k \in 0 .. m |-> IF k = m THEN Turn(g[m - 1], m) ELSE g[k]]
<1>5. h = [k \in 0 .. m |-> IF k = 0 THEN d ELSE Turn(h[k - 1], k)]
  <2> SUFFICES ASSUME NEW k \in 0 .. m
               PROVE  h[k] = IF k = 0 THEN d ELSE Turn(h[k - 1], k)
    OBVIOUS
  <2>1. CASE k = m
    BY <1>1, <1>2, <2>1
  <2>2. CASE k # m
    <3>1. k \in 0 .. m - 1
      BY <1>1, <2>2
    <3>2. g[k] = IF k = 0 THEN d ELSE Turn(g[k - 1], k)
      BY <1>4, <3>1
    <3>3. k # 0 => h[k - 1] = g[k - 1]
      BY <1>1, <3>1
    <3> QED  BY <2>2, <3>1, <3>2, <3>3
  <2> QED  BY <2>1, <2>2
<1> QED  BY <1>1, <1>5

\* runParserCommands: what every turn of the loop keeps holds when it ends.
LEMMA LoopInvariant ==
    ASSUME NEW d, d.pos \in 1 .. Len(Script) + 1, NEW G, d \in G[0],
           \A k \in 1 .. Len(Script) + 1 - d.pos :
              \A e \in G[k - 1] : executeCommand(e, Script[d.pos + k - 1]) \in G[k]
    PROVE  \E e \in G[Len(Script) + 1 - d.pos] :
              runParserCommands(d) = [e EXCEPT !.stop = FALSE]
<1>1. Len(Script) \in Nat
  BY ScriptAssumption, LenProperties
<1> DEFINE turns == Len(Script) + 1 - d.pos
           IsLoop(g) == g = [k \in 0 .. turns |->
                                IF k = 0 THEN d
                                ELSE executeCommand(g[k - 1], Script[d.pos + k - 1])]
           after == CHOOSE g : IsLoop(g)
<1>2. turns \in Nat /\ d.pos # 0
  BY <1>1
<1>3. runParserCommands(d) = [after[turns] EXCEPT !.stop = FALSE]
  BY <1>2 DEF runParserCommands
<1>4. \E g : IsLoop(g)
  BY <1>2, LoopExists
<1>5. IsLoop(after)
  <2> HIDE DEF IsLoop
  <2> QED  BY <1>4
<1> HIDE DEF after
<1>6. /\ after[0] = d
      /\ \A k \in 1 .. turns :
            after[k] = executeCommand(after[k - 1], Script[d.pos + k - 1])
  BY <1>2, <1>5
<1> HIDE DEF IsLoop
<1> DEFINE Bad == {k \in 0 .. turns : after[k] \notin G[k]}
<1>7. Bad = {}
  <2> SUFFICES ASSUME Bad # {} PROVE FALSE
    OBVIOUS
  <2>1. Bad \in SUBSET Nat
    OBVIOUS
  <2>2. PICK m \in Bad : \A j \in Bad : m <= j
    BY <2>1, Least
  <2>3. m # 0
    BY <1>6, <2>2
  <2>4. m \in 1 .. turns /\ m - 1 \in 0 .. turns /\ ~ m <= m - 1
    BY <1>2, <2>2, <2>3
  <2>5. after[m - 1] \in G[m - 1]
    BY <2>2, <2>4
  <2>6. after[m] \in G[m]
    BY <1>6, <2>4, <2>5
  <2> QED  BY <2>2, <2>6
<1>8. after[turns] \in G[turns]
  BY <1>2, <1>7
<1> QED  BY <1>3, <1>8

-----------------------------------------------------------------------------
(* What the slots of the server do at the desk.                            *)

\* The clients that the server may send a library to.
Known == {c \in InVector : entry[c] = "known"}

DeskTypes == [active : MaybeProblem, pos : 0 .. Len(Script) + 1,
              stat : [Clients -> Status \cup {"none"}], started : Int, boxes : Nat,
              sent : [Clients -> Seq(DownMsg)], stop : BOOLEAN]

\* From record d the slots started one run at most, with the clients S, and
\* only if nobody was running; besides this they changed no status, wrote
\* nothing and left totalStarted.
Started(d, e, S, p) ==
    /\ S \subseteq Known /\ (S # {} => p \in Problems)
    /\ e.stat = [c \in Clients |-> IF c \in S THEN "RUN" ELSE d.stat[c]]
    /\ e.sent = [c \in Clients |->
                    IF c \in S THEN Append(d.sent[c], [msg |-> "PROGRAM", problem |-> p])
                               ELSE d.sent[c]]
    /\ \/ S = {} /\ e.started = d.started
       \/ ~ problemIsRunning(d) /\ e.started = Cardinality(S)

Ran(d, e) == \E S \in SUBSET Known, p \in MaybeProblem : Started(d, e, S, p)

\* The vector has finitely many clients in it.
LEMMA VectorIsFinite ==
    ASSUME client \in Seq(Clients)
    PROVE  IsFiniteSet(InVector) /\ InVector \subseteq Clients
<1>1. client \in [1 .. Len(client) -> Clients] /\ Len(client) \in Nat
  BY LenProperties
<1>2. InVector \subseteq Clients
  BY <1>1 DEF InVector, ToSet
<1>3. IsFiniteSet(1 .. Len(client))
  BY <1>1, FS_Interval
<1>4. client \in Surjection(1 .. Len(client), InVector)
  BY <1>1 DEF InVector, ToSet, Surjection
<1>5. IsFiniteSet(InVector)
  BY <1>3, <1>4, FS_Surjection
<1> QED  BY <1>2, <1>5

\* totalRunSlot keeps the types of the desk.
LEMMA RunTypes ==
    ASSUME client \in Seq(Clients), NEW d \in DeskTypes
    PROVE  totalRunSlot(d) \in DeskTypes /\ totalRunSlot(d).pos = d.pos
<1>1. /\ d.active \in MaybeProblem /\ d.boxes \in Nat
      /\ d.stat \in [Clients -> Status \cup {"none"}]
      /\ d.sent \in [Clients -> Seq(DownMsg)]
  BY DEF DeskTypes
<1>2. CASE client = <<>> \/ d.active = NoProblem \/ problemIsRunning(d)
  <2>1. totalRunSlot(d) = [d EXCEPT !.boxes = d.boxes + 1, !.stop = TRUE]
    BY <1>2 DEF totalRunSlot
  <2>2. d.boxes + 1 \in Nat
    BY <1>1
  <2>3. totalRunSlot(d) \in DeskTypes
    BY <2>1, <2>2 DEF DeskTypes
  <2>4. totalRunSlot(d).pos = d.pos
    BY <2>1 DEF DeskTypes
  <2> QED  BY <2>3, <2>4
<1>3. CASE ~ (client = <<>> \/ d.active = NoProblem \/ problemIsRunning(d))
  <2> DEFINE S == Startable(d.active)
             m == [msg |-> "PROGRAM", problem |-> d.active]
             stat == [c \in Clients |-> IF c \in S THEN "RUN" ELSE d.stat[c]]
             sent == [c \in Clients |-> IF c \in S THEN Append(d.sent[c], m)
                                                   ELSE d.sent[c]]
  <2>1. m \in DownMsg
    BY <1>1, <1>3 DEF MaybeProblem, DownMsg
  <2>2. Cardinality(S) \in Int
    BY VectorIsFinite, FS_Subset, FS_CardinalityType DEF Startable
  <2>3. stat \in [Clients -> Status \cup {"none"}]
    BY <1>1 DEF Status
  <2>4. sent \in [Clients -> Seq(DownMsg)]
    BY <1>1, <2>1
  <2>5. totalRunSlot(d) = [d EXCEPT !.stat = stat, !.sent = sent,
                                    !.started = Cardinality(S)]
    BY <1>3 DEF totalRunSlot, SendProgram, DeskTypes
  <2> HIDE DEF S, stat, sent, m
  <2> QED  BY <2>2, <2>3, <2>4, <2>5 DEF DeskTypes
<1> QED  BY <1>2, <1>3

\* executeCommand keeps the types of the desk, and the command index moves by
\* one turn at most.
LEMMA TurnTypes ==
    ASSUME client \in Seq(Clients), NEW d \in DeskTypes, NEW command \in Command,
           d.pos <= Len(Script)
    PROVE  /\ executeCommand(d, command) \in DeskTypes
           /\ executeCommand(d, command).pos \in {d.pos, d.pos + 1}
<1>1. Len(Script) \in Nat
  BY ScriptAssumption, LenProperties
<1>2. d.pos + 1 \in 0 .. Len(Script) + 1
  BY <1>1 DEF DeskTypes
<1>3. ASSUME NEW q \in MaybeProblem
      PROVE  [d EXCEPT !.active = q, !.pos = @ + 1] \in DeskTypes
  BY <1>2 DEF DeskTypes
<1>4. command.cmd = "PROBLEM" => command.problem \in MaybeProblem
  BY DEF Command, MaybeProblem
<1>5. [d EXCEPT !.stop = TRUE] \in DeskTypes
  BY DEF DeskTypes
<1>6. /\ [totalRunSlot(d) EXCEPT !.pos = @ + 1] \in DeskTypes
      /\ [totalRunSlot(d) EXCEPT !.pos = @ + 1].pos = d.pos + 1
  BY <1>2, RunTypes DEF DeskTypes
<1>7. /\ [d EXCEPT !.active = command.problem, !.pos = @ + 1].pos = d.pos + 1
      /\ [d EXCEPT !.stop = TRUE].pos = d.pos
  BY DEF DeskTypes
<1> QED  BY <1>3, <1>4, <1>5, <1>6, <1>7 DEF executeCommand

\* Doing nothing starts nothing.
LEMMA RanRefl == ASSUME NEW d \in DeskTypes PROVE Ran(d, d)
<1>1. Started(d, d, {}, NoProblem)
  BY DEF Started, DeskTypes
<1> QED  BY <1>1 DEF Ran, MaybeProblem

\* A run that was started makes problemIsRunning true.
LEMMA StartedRuns ==
    ASSUME NEW d, NEW e, NEW S, NEW p, Started(d, e, S, p), client \in Seq(Clients),
           ~ problemIsRunning(e)
    PROVE  S = {}
BY VectorIsFinite DEF Started, Known, problemIsRunning

\* totalRunSlot refuses, or starts the first run.
LEMMA RunRan ==
    ASSUME client \in Seq(Clients), NEW d \in DeskTypes, NEW e \in DeskTypes, Ran(d, e)
    PROVE  Ran(d, totalRunSlot(e))
<1>1. PICK S \in SUBSET Known, p \in MaybeProblem : Started(d, e, S, p)
  BY DEF Ran
<1>2. CASE client = <<>> \/ e.active = NoProblem \/ problemIsRunning(e)
  <2>1. totalRunSlot(e) = [e EXCEPT !.boxes = @ + 1, !.stop = TRUE]
    BY <1>2 DEF totalRunSlot
  <2>2. /\ totalRunSlot(e).stat = e.stat /\ totalRunSlot(e).sent = e.sent
        /\ totalRunSlot(e).started = e.started
    BY <2>1 DEF DeskTypes
  <2>3. Started(d, totalRunSlot(e), S, p)
    BY <1>1, <2>2, Zenon DEF Started
  <2> QED  BY <2>3 DEF Ran
<1>3. CASE ~ (client = <<>> \/ e.active = NoProblem \/ problemIsRunning(e))
  <2>1. S = {}
    BY <1>1, <1>3, StartedRuns
  <2>2. /\ e.stat = d.stat /\ e.sent = d.sent
        /\ e.active \in Problems
    BY <1>1, <1>3, <2>1 DEF Started, DeskTypes, MaybeProblem
  <2>3. ~ problemIsRunning(d)
    BY <1>3, <2>2 DEF problemIsRunning
  <2> DEFINE T == Startable(e.active)
             m == [msg |-> "PROGRAM", problem |-> e.active]
  <2>4. T \in SUBSET Known
    BY DEF Startable, Known
  <2>5. totalRunSlot(e) =
           [e EXCEPT !.stat = [c \in Clients |-> IF c \in T THEN "RUN" ELSE e.stat[c]],
                     !.sent = [c \in Clients |-> IF c \in T THEN Append(e.sent[c], m)
                                                           ELSE e.sent[c]],
                     !.started = Cardinality(T)]
    BY <1>3 DEF totalRunSlot, SendProgram, DeskTypes
  <2> HIDE DEF T, m
  <2>6. /\ totalRunSlot(e).stat = [c \in Clients |-> IF c \in T THEN "RUN" ELSE e.stat[c]]
        /\ totalRunSlot(e).sent = [c \in Clients |-> IF c \in T THEN Append(e.sent[c], m)
                                                               ELSE e.sent[c]]
        /\ totalRunSlot(e).started = Cardinality(T)
    BY <2>5 DEF DeskTypes
  <2>7. Started(d, totalRunSlot(e), T, e.active)
    BY <2>2, <2>3, <2>4, <2>6 DEF Started, m
  <2> QED  BY <2>2, <2>4, <2>7 DEF Ran, MaybeProblem
<1> QED  BY <1>2, <1>3

\* Ran looks at three fields of a record.
LEMMA RanSame ==
    ASSUME NEW d, NEW e, NEW f, Ran(d, e),
           f.stat = e.stat, f.sent = e.sent, f.started = e.started
    PROVE  Ran(d, f)
BY Zenon DEF Ran, Started

\* So does a command of the script.
LEMMA CommandRan ==
    ASSUME client \in Seq(Clients), NEW d \in DeskTypes, NEW e \in DeskTypes, Ran(d, e),
           NEW command \in Command, e.pos <= Len(Script)
    PROVE  Ran(d, executeCommand(e, command))
<1>1. CASE e.stop
  BY <1>1 DEF executeCommand
<1>2. CASE ~ e.stop /\ command.cmd = "PROBLEM"
  <2>1. executeCommand(e, command) = [e EXCEPT !.active = command.problem, !.pos = @ + 1]
    BY <1>2 DEF executeCommand
  <2>2. /\ executeCommand(e, command).stat = e.stat
        /\ executeCommand(e, command).sent = e.sent
        /\ executeCommand(e, command).started = e.started
    BY <2>1 DEF DeskTypes
  <2> QED  BY <2>2, RanSame
<1>3. CASE ~ e.stop /\ command.cmd # "PROBLEM" /\ problemIsRunning(e)
  <2>1. executeCommand(e, command) = [e EXCEPT !.stop = TRUE]
    BY <1>3 DEF executeCommand
  <2>2. /\ executeCommand(e, command).stat = e.stat
        /\ executeCommand(e, command).sent = e.sent
        /\ executeCommand(e, command).started = e.started
    BY <2>1 DEF DeskTypes
  <2> QED  BY <2>2, RanSame
<1>4. CASE ~ e.stop /\ command.cmd # "PROBLEM" /\ ~ problemIsRunning(e)
  <2>1. executeCommand(e, command) = [totalRunSlot(e) EXCEPT !.pos = @ + 1]
    BY <1>4 DEF executeCommand
  <2>2. totalRunSlot(e) \in DeskTypes
    BY RunTypes
  <2>3. /\ executeCommand(e, command).stat = totalRunSlot(e).stat
        /\ executeCommand(e, command).sent = totalRunSlot(e).sent
        /\ executeCommand(e, command).started = totalRunSlot(e).started
    BY <2>1, <2>2 DEF DeskTypes
  <2> QED  BY <2>3, RunRan, RanSame
<1> QED  BY <1>1, <1>2, <1>3, <1>4

\* runParserCommands, however many turns it takes.
LEMMA LoopRan ==
    ASSUME client \in Seq(Clients), NEW d \in DeskTypes
    PROVE  runParserCommands(d) \in DeskTypes /\ Ran(d, runParserCommands(d))
<1>1. CASE d.pos = 0
  BY <1>1, RanRefl DEF runParserCommands
<1>2. CASE d.pos # 0
  <2>1. Len(Script) \in Nat /\ d.pos \in 1 .. Len(Script) + 1
    BY <1>2, ScriptAssumption, LenProperties DEF DeskTypes
  <2> DEFINE turns == Len(Script) + 1 - d.pos
             G == [k \in 0 .. turns |->
                     {e \in DeskTypes : Ran(d, e) /\ e.pos <= d.pos + k}]
  <2>2. d \in G[0]
    BY <2>1, RanRefl
  <2>3. ASSUME NEW k \in 1 .. turns, NEW e \in G[k - 1]
        PROVE  executeCommand(e, Script[d.pos + k - 1]) \in G[k]
    <3>1. k - 1 \in 0 .. turns /\ k \in 0 .. turns
      BY <2>1
    <3>2. e \in DeskTypes /\ Ran(d, e) /\ e.pos <= d.pos + (k - 1)
      BY <3>1
    <3>3. e.pos \in Nat /\ e.pos <= Len(Script) /\ d.pos + k - 1 \in 1 .. Len(Script)
      BY <2>1, <3>2 DEF DeskTypes
    <3>4. Script[d.pos + k - 1] \in Command
      BY <3>3, ScriptAssumption, ElementOfSeq
    <3> DEFINE f == executeCommand(e, Script[d.pos + k - 1])
    <3>5. f \in DeskTypes /\ f.pos \in {e.pos, e.pos + 1} /\ Ran(d, f)
      BY <3>2, <3>3, <3>4, TurnTypes, CommandRan
    <3>6. f.pos <= d.pos + k
      <4> HIDE DEF f
      <4>1. e.pos + 1 <= d.pos + k /\ e.pos <= d.pos + k
        BY <2>1, <3>2, <3>3
      <4> QED  BY <3>5, <4>1
    <3> QED  BY <3>1, <3>5, <3>6
  <2> HIDE DEF G
  <2>4. PICK e \in G[turns] : runParserCommands(d) = [e EXCEPT !.stop = FALSE]
    BY <2>1, <2>2, <2>3, LoopInvariant
  <2>5. e \in DeskTypes /\ Ran(d, e)
    BY <2>1, <2>4 DEF G
  <2>6. runParserCommands(d) \in DeskTypes
    BY <2>4, <2>5 DEF DeskTypes
  <2>7. /\ runParserCommands(d).stat = e.stat /\ runParserCommands(d).sent = e.sent
        /\ runParserCommands(d).started = e.started
    BY <2>4, <2>5 DEF DeskTypes
  <2> QED  BY <2>5, <2>6, <2>7, RanSame
<1> QED  BY <1>1, <1>2

\* The slots of a second allClientsTerminated go on where those of the first
\* left off.
LEMMA RanTwice ==
    ASSUME client \in Seq(Clients), NEW d, NEW e, NEW f,
           Ran(d, e), Ran(e, f), ~ problemIsRunning(e)
    PROVE  Ran(d, f)
<1>1. PICK S \in SUBSET Known, p \in MaybeProblem : Started(d, e, S, p)
  BY DEF Ran
<1>2. PICK T \in SUBSET Known, q \in MaybeProblem : Started(e, f, T, q)
  BY DEF Ran
<1>3. S = {}
  BY <1>1, StartedRuns
<1>4. /\ e.stat = [c \in Clients |-> d.stat[c]]
      /\ e.sent = [c \in Clients |-> d.sent[c]]
  BY <1>1, <1>3 DEF Started
<1>5. problemIsRunning(d) <=> problemIsRunning(e)
  BY <1>4, VectorIsFinite DEF problemIsRunning
<1>6. /\ f.stat = [c \in Clients |-> IF c \in T THEN "RUN" ELSE d.stat[c]]
      /\ f.sent = [c \in Clients |->
                     IF c \in T THEN Append(d.sent[c], [msg |-> "PROGRAM", problem |-> q])
                                ELSE d.sent[c]]
  BY <1>2, <1>4 DEF Started
<1>7. \/ T = {} /\ f.started = d.started
      \/ ~ problemIsRunning(d) /\ f.started = Cardinality(T)
  BY <1>1, <1>2, <1>3, <1>5 DEF Started
<1>8. Started(d, f, T, q)
  BY <1>2, <1>6, <1>7 DEF Started
<1> QED  BY <1>8 DEF Ran

\* The record that statusClientSlot starts from.
AfterStatus(c, s) ==
    [Desk EXCEPT !.stat[c] = s, !.started = IF s = "FINISH" THEN @ - 1 ELSE @]

LEMMA DeskType == ASSUME ServerTypeOK PROVE Desk \in DeskTypes
<1>1. <<>> \in Seq(DownMsg)
  BY EmptySeq
<1> QED  BY <1>1 DEF ServerTypeOK, Desk, DeskTypes

LEMMA AfterStatusType ==
    ASSUME ServerTypeOK, NEW c \in Clients, NEW s \in Status
    PROVE  /\ AfterStatus(c, s) \in DeskTypes
           /\ AfterStatus(c, s).stat = [clientStatus EXCEPT ![c] = s]
           /\ AfterStatus(c, s).sent = [e \in Clients |-> <<>>]
           /\ AfterStatus(c, s).started =
                 IF s = "FINISH" THEN totalStarted - 1 ELSE totalStarted
<1> DEFINE stat == [clientStatus EXCEPT ![c] = s]
           started == IF s = "FINISH" THEN totalStarted - 1 ELSE totalStarted
<1>1. stat \in [Clients -> Status \cup {"none"}] /\ started \in Int
  BY DEF ServerTypeOK
<1>2. AfterStatus(c, s) = [Desk EXCEPT !.stat = stat, !.started = started]
  BY DEF AfterStatus, Desk
<1> HIDE DEF stat, started
<1>3. AfterStatus(c, s) \in DeskTypes
  BY <1>1, <1>2, DeskType DEF DeskTypes
<1>4. /\ AfterStatus(c, s).stat = stat /\ AfterStatus(c, s).started = started
      /\ AfterStatus(c, s).sent = [e \in Clients |-> <<>>]
  BY <1>2 DEF Desk
<1> QED  BY <1>3, <1>4 DEF stat, started

\* statusClientSlot starts one run at most, although it may emit
\* allClientsTerminated twice.
LEMMA StatusEffectRan ==
    ASSUME ServerTypeOK, NEW c \in InVector, NEW s \in Status
    PROVE  /\ StatusEffect(c, s) \in DeskTypes
           /\ Ran(AfterStatus(c, s), StatusEffect(c, s))
<1>1. client \in Seq(Clients) /\ c \in Clients
  BY VectorIsFinite DEF ServerTypeOK
<1> DEFINE d0 == AfterStatus(c, s)
           d1 == IF d0.started = 0 THEN runParserCommands(d0) ELSE d0
<1>2. StatusEffect(c, s) = IF s = "FINISH" /\ \A e \in InVector : d1.stat[e] = "FINISH"
                           THEN runParserCommands(d1) ELSE d1
  BY Zenon DEF StatusEffect, AfterStatus
<1>3. d0 \in DeskTypes
  BY <1>1, AfterStatusType
<1> HIDE DEF d0
<1>4. d1 \in DeskTypes /\ Ran(d0, d1)
  BY <1>1, <1>3, LoopRan, RanRefl
<1> HIDE DEF d1
<1>5. runParserCommands(d1) \in DeskTypes /\ Ran(d1, runParserCommands(d1))
  BY <1>1, <1>4, LoopRan
<1>6. (\A e \in InVector : d1.stat[e] = "FINISH") => ~ problemIsRunning(d1)
  BY DEF problemIsRunning
<1>7. (\A e \in InVector : d1.stat[e] = "FINISH") => Ran(d0, runParserCommands(d1))
  BY <1>1, <1>4, <1>5, <1>6, RanTwice
<1> QED  BY <1>2, <1>4, <1>5, <1>7 DEF d0

\* A handler of the server that ends with Settle, seen from outside: the
\* clients S (none, or those of a new run) get the library of p.
Starts(S, p, stat, started) ==
    /\ S \subseteq Known /\ (S # {} => p \in Problems)
    /\ clientStatus' = [c \in Clients |-> IF c \in S THEN "RUN" ELSE stat[c]]
    /\ down' = [c \in Clients |->
                  IF c \in S /\ link[c] = "open"
                  THEN Append(down[c], [msg |-> "PROGRAM", problem |-> p])
                  ELSE down[c]]
    /\ \/ S = {} /\ totalStarted' = started
       \/ (\A c \in InVector : stat[c] # "RUN") /\ totalStarted' = Cardinality(S)

DeskTyped ==
    /\ activeProblem \in MaybeProblem
    /\ currentCommand \in 0 .. Len(Script) + 1
    /\ clientStatus \in [Clients -> Status \cup {"none"}]
    /\ totalStarted \in Int
    /\ boxes \in Nat
    /\ down \in [Clients -> Seq(DownMsg)]

LEMMA SettleStarts ==
    ASSUME NetTypeOK, NEW d, NEW e \in DeskTypes, Ran(d, e), Settle(e),
           d.sent = [c \in Clients |-> <<>>]
    PROVE  /\ \E S \in SUBSET Known, p \in MaybeProblem : Starts(S, p, d.stat, d.started)
           /\ DeskTyped'
<1>1. PICK S \in SUBSET Known, p \in MaybeProblem : Started(d, e, S, p)
  BY DEF Ran
<1> DEFINE m == [msg |-> "PROGRAM", problem |-> p]
<1>2. S # {} => m \in DownMsg
  BY <1>1 DEF Started, DownMsg
<1>3. \A c \in Clients : /\ down[c] \in Seq(DownMsg)
                         /\ e.sent[c] = IF c \in S THEN <<m>> ELSE <<>>
  <2>1. \A c \in Clients : e.sent[c] = IF c \in S THEN Append(<<>>, m) ELSE <<>>
    <3>1. e.sent = [c \in Clients |-> IF c \in S THEN Append(d.sent[c], m) ELSE d.sent[c]]
      BY <1>1, Zenon DEF Started
    <3>2. \A c \in Clients : d.sent[c] = <<>>
      OBVIOUS
    <3> HIDE DEF m
    <3> QED  BY <3>1, <3>2
  <2>2. Append(<<>>, m) = <<m>>
    OBVIOUS
  <2> QED  BY <2>1, <2>2 DEF NetTypeOK
<1> HIDE DEF m
<1>4. \A c \in Clients : down[c] \o e.sent[c] = IF c \in S THEN Append(down[c], m) ELSE down[c]
  <2> SUFFICES ASSUME NEW c \in Clients
               PROVE  down[c] \o e.sent[c] = IF c \in S THEN Append(down[c], m) ELSE down[c]
    OBVIOUS
  <2>1. CASE c \in S
    <3>1. down[c] \in Seq(DownMsg) /\ m \in DownMsg /\ e.sent[c] = <<m>>
      BY <1>2, <1>3, <2>1
    <3> QED  BY <2>1, <3>1, AppendIsConcat
  <2>2. CASE c \notin S
    <3>1. down[c] \in Seq(DownMsg) /\ e.sent[c] = <<>>
      BY <1>3, <2>2
    <3> QED  BY <2>2, <3>1, ConcatEmptySeq
  <2> QED  BY <2>1, <2>2
<1>5. down' = [c \in Clients |-> IF c \in S /\ link[c] = "open" THEN Append(down[c], m)
                                                                ELSE down[c]]
  <2>1. down' = [c \in Clients |-> IF link[c] = "open" THEN down[c] \o e.sent[c]
                                                       ELSE down[c]]
    BY DEF Settle
  <2> QED  BY <1>4, <2>1
<1>6. down' \in [Clients -> Seq(DownMsg)]
  BY <1>2, <1>3, <1>5
<1>7. DeskTyped'
  BY <1>6 DEF DeskTyped, Settle, DeskTypes
<1>8. Starts(S, p, d.stat, d.started)
  BY <1>1, <1>5 DEF Starts, Started, Settle, problemIsRunning, m
<1> QED  BY <1>7, <1>8

-----------------------------------------------------------------------------
(* The vector of clients and the connections.                              *)

\* GaServer::client holds every client whose connection is known and not
\* removed, once; TypeOK alone does not say that a removal removes all there is
\* of a client, or that the server writes to connected clients only.
VectorInv ==
    /\ InVector = {c \in Clients : entry[c] \in {"accepted", "known"}}
    /\ \A i, j \in DOMAIN client : client[i] = client[j] => i = j

Connected == \A c \in Clients : entry[c] # "none" => link[c] # "none"

ServerInv == ServerTypeOK /\ NetTypeOK /\ VectorInv /\ Connected

\* Position is the index of a client.
LEMMA PositionFound ==
    ASSUME client \in Seq(Clients), NEW c \in InVector
    PROVE  Position(c) \in 1 .. Len(client) /\ client[Position(c)] = c
<1>1. \E i \in DOMAIN client : client[i] = c
  BY DEF InVector, ToSet
<1> QED  BY <1>1, LenProperties DEF Position

\* client.remove(pos): what is left of a vector without duplicates.
LEMMA RemoveAtVector ==
    ASSUME NEW q \in Seq(Clients), NEW i \in 1 .. Len(q),
           \A j, k \in DOMAIN q : q[j] = q[k] => j = k
    PROVE  LET r == RemoveAt(q, i)
           IN  /\ r \in Seq(Clients)
               /\ ToSet(r) = ToSet(q) \ {q[i]}
               /\ \A j, k \in DOMAIN r : r[j] = r[k] => j = k
<1> DEFINE r == RemoveAt(q, i)
           a == SubSeq(q, 1, i - 1)
           b == SubSeq(q, i + 1, Len(q))
<1>1. Len(q) \in Nat /\ DOMAIN q = 1 .. Len(q)
  BY LenProperties
<1>2. /\ a \in Seq(Clients) /\ Len(a) = i - 1
      /\ \A j \in 1 .. i - 1 : a[j] = q[j]
  BY <1>1, SubSeqProperties
<1>3. /\ b \in Seq(Clients) /\ Len(b) = Len(q) - i
      /\ \A j \in 1 .. Len(q) - i : b[j] = q[i + j]
  <2>1. \A j \in i + 1 .. Len(q) : q[j] \in Clients
    BY <1>1, ElementOfSeq
  <2>2. /\ b \in Seq(Clients)
        /\ Len(b) = IF i + 1 <= Len(q) THEN Len(q) - (i + 1) + 1 ELSE 0
        /\ \A j \in 1 .. Len(q) - (i + 1) + 1 : b[j] = q[(i + 1) + j - 1]
    BY <1>1, <2>1, SubSeqProperties
  <2>3. /\ Len(q) - (i + 1) + 1 = Len(q) - i
        /\ \A j \in 1 .. Len(q) - i : (i + 1) + j - 1 = i + j
    BY <1>1
  <2> HIDE DEF b
  <2>4. Len(b) = Len(q) - i
    <3>1. CASE i + 1 <= Len(q)
      BY <2>2, <2>3, <3>1
    <3>2. CASE ~ i + 1 <= Len(q)
      <4> DEFINE n == Len(q)
      <4>1. n \in Nat /\ i \in 1 .. n /\ ~ (i + 1 <= n)
        BY <1>1, <3>2
      <4> HIDE DEF n
      <4>2. n - i = 0
        BY <4>1
      <4> QED  BY <2>2, <3>2, <4>2 DEF n
    <3> QED  BY <3>1, <3>2
  <2>5. ASSUME NEW j \in 1 .. Len(q) - i PROVE b[j] = q[i + j]
    <3>1. j \in 1 .. Len(q) - (i + 1) + 1
      BY <2>3
    <3>2. b[j] = q[(i + 1) + j - 1]
      BY <2>2, <3>1
    <3> QED  BY <2>3, <3>2
  <2> QED  BY <2>2, <2>4, <2>5
<1>4. r = a \o b
  BY DEF RemoveAt
<1> HIDE DEF a, b, r
<1>5. /\ r \in Seq(Clients) /\ Len(r) = Len(q) - 1
      /\ \A j \in 1 .. Len(q) - 1 : r[j] = IF j < i THEN q[j] ELSE q[j + 1]
  <2>1. /\ r \in Seq(Clients) /\ Len(r) = Len(a) + Len(b)
        /\ \A j \in 1 .. Len(a) + Len(b) : r[j] = IF j <= Len(a) THEN a[j] ELSE b[j - Len(a)]
    <3>1. a \in Seq(Clients) /\ b \in Seq(Clients)
      BY <1>2, <1>3
    <3> QED  BY <1>4, <3>1, ConcatProperties
  <2>2. Len(a) + Len(b) = Len(q) - 1
    BY <1>1, <1>2, <1>3
  <2>3. ASSUME NEW j \in 1 .. Len(q) - 1
        PROVE  r[j] = IF j < i THEN q[j] ELSE q[j + 1]
    <3>1. CASE j < i
      <4>1. j \in 1 .. i - 1 /\ j <= Len(a)
        BY <1>1, <1>2, <3>1
      <4> QED  BY <1>2, <2>1, <2>2, <3>1, <4>1
    <3>2. CASE ~ j < i
      <4>1. /\ ~ j <= Len(a) /\ j - Len(a) \in 1 .. Len(q) - i
            /\ i + (j - Len(a)) = j + 1
        BY <1>1, <1>2, <3>2
      <4> QED  BY <1>3, <2>1, <2>2, <3>2, <4>1
    <3> QED  BY <3>1, <3>2
  <2> QED  BY <2>1, <2>2, <2>3
<1>6. DOMAIN r = 1 .. Len(q) - 1
  BY <1>5, LenProperties
<1>7. \A j, k \in DOMAIN r : r[j] = r[k] => j = k
  <2> SUFFICES ASSUME NEW j \in 1 .. Len(q) - 1, NEW k \in 1 .. Len(q) - 1, r[j] = r[k]
               PROVE  j = k
    BY <1>6
  <2> DEFINE at(n) == IF n < i THEN n ELSE n + 1
  <2>1. /\ at(j) \in 1 .. Len(q) /\ at(k) \in 1 .. Len(q)
        /\ r[j] = q[at(j)] /\ r[k] = q[at(k)]
    BY <1>1, <1>5
  <2>2. at(j) = at(k)
    BY <1>1, <2>1
  <2> QED  BY <1>1, <2>2
<1>8. ASSUME NEW j \in 1 .. Len(q), j # i
      PROVE  \E k \in 1 .. Len(q) - 1 : r[k] = q[j]
  <2>1. CASE j < i
    BY <1>1, <1>5, <2>1
  <2>2. CASE j > i
    <3>1. j - 1 \in 1 .. Len(q) - 1 /\ ~ j - 1 < i /\ (j - 1) + 1 = j
      BY <1>1, <2>2
    <3> QED  BY <1>5, <3>1
  <2> QED  BY <1>8, <2>1, <2>2
<1>9. ToSet(r) = ToSet(q) \ {q[i]}
  <2>1. ASSUME NEW k \in 1 .. Len(q) - 1 PROVE r[k] \in ToSet(q) \ {q[i]}
    <3> DEFINE j == IF k < i THEN k ELSE k + 1
    <3>1. j \in 1 .. Len(q) /\ j # i /\ r[k] = q[j]
      BY <1>1, <1>5
    <3> HIDE DEF j
    <3> QED  BY <1>1, <3>1 DEF ToSet
  <2>2. ASSUME NEW x \in ToSet(q) \ {q[i]} PROVE x \in ToSet(r)
    <3>1. PICK j \in 1 .. Len(q) : x = q[j]
      BY <1>1 DEF ToSet
    <3>2. PICK k \in 1 .. Len(q) - 1 : r[k] = q[j]
      BY <1>8, <3>1
    <3> QED  BY <1>6, <3>1, <3>2 DEF ToSet
  <2>3. ToSet(r) = {r[k] : k \in 1 .. Len(q) - 1}
    BY <1>6 DEF ToSet
  <2> QED  BY <2>1, <2>2, <2>3
<1> QED  BY <1>5, <1>7, <1>9 DEF r

\* GaServer::removeClient
LEMMA RemoveClientVector ==
    ASSUME ServerTypeOK, VectorInv, NEW c \in Clients, removeClient(c)
    PROVE  /\ client' \in Seq(Clients)
           /\ InVector' = InVector \ {c}
           /\ \A i, j \in DOMAIN client' : client'[i] = client'[j] => i = j
<1>1. CASE c \in InVector
  <2> DEFINE pos == Position(c)
  <2>1. pos \in 1 .. Len(client) /\ client[pos] = c /\ client \in Seq(Clients)
    BY <1>1, PositionFound DEF ServerTypeOK
  <2>2. client' = RemoveAt(client, pos)
    BY <1>1 DEF removeClient
  <2>3. \A j, k \in DOMAIN client : client[j] = client[k] => j = k
    BY DEF VectorInv
  <2> HIDE DEF pos
  <2> QED  BY <2>1, <2>2, <2>3, RemoveAtVector DEF InVector
<1>2. CASE c \notin InVector
  BY <1>2 DEF ServerTypeOK, VectorInv, removeClient, InVector
<1> QED  BY <1>1, <1>2

\* newClientSlot adds a client at the end.
LEMMA AcceptVector ==
    ASSUME ServerInv, NEW c \in Clients, Accept(c)
    PROVE  /\ client' \in Seq(Clients) /\ VectorInv'
<1>1. client \in Seq(Clients) /\ Len(client) \in Nat /\ DOMAIN client = 1 .. Len(client)
  BY LenProperties DEF ServerInv, ServerTypeOK
<1>2. client' = Append(client, c) /\ entry' = [entry EXCEPT ![c] = "accepted"]
      /\ entry[c] = "none" /\ entry \in [Clients -> EntryState]
  BY DEF Accept, ServerInv, ServerTypeOK
<1>3. c \notin InVector
  BY <1>2 DEF ServerInv, VectorInv
<1>4. /\ client' \in Seq(Clients) /\ Len(client') = Len(client) + 1
      /\ \A i \in 1 .. Len(client) : client'[i] = client[i]
      /\ client'[Len(client) + 1] = c
      /\ DOMAIN client' = 1 .. Len(client) + 1
  BY <1>1, <1>2, AppendProperties, LenProperties
<1>5. \A i \in 1 .. Len(client) : client[i] # c
  BY <1>1, <1>3 DEF InVector, ToSet
<1>6. \A i, j \in DOMAIN client' : client'[i] = client'[j] => i = j
  BY <1>1, <1>4, <1>5 DEF ServerInv, VectorInv
<1>7. InVector' = InVector \cup {c}
  BY <1>1, <1>4 DEF InVector, ToSet
<1>8. InVector' = {d \in Clients : entry'[d] \in {"accepted", "known"}}
  BY <1>2, <1>7 DEF ServerInv, VectorInv
<1> QED  BY <1>4, <1>6, <1>8 DEF VectorInv

\* removing a client and giving it another entry keeps the vector.
LEMMA RemoveKeepsVector ==
    ASSUME ServerTypeOK, VectorInv, NEW c \in Clients, removeClient(c),
           NEW state \in {"zombie", "gone"}, entry' = [entry EXCEPT ![c] = state]
    PROVE  client' \in Seq(Clients) /\ VectorInv'
<1>1. /\ client' \in Seq(Clients) /\ InVector' = InVector \ {c}
      /\ \A i, j \in DOMAIN client' : client'[i] = client'[j] => i = j
  BY RemoveClientVector
<1>2. InVector' = {d \in Clients : entry'[d] \in {"accepted", "known"}}
  BY <1>1 DEF VectorInv, ServerTypeOK
<1> QED  BY <1>1, <1>2 DEF VectorInv

\* Handlers that leave the vector and the entries alone.
LEMMA SameVector ==
    ASSUME VectorInv, UNCHANGED <<client, entry>>
    PROVE  VectorInv'
BY DEF VectorInv, InVector

LEMMA SameConnected ==
    ASSUME Connected, UNCHANGED entry,
           \A c \in Clients : link'[c] = "none" => link[c] = "none"
    PROVE  Connected'
BY DEF Connected

Question == [ipos : Nat \ {0}, name : Clients]

\* The parts of the server that desk does not cover.
RestTyped ==
    /\ server \in {"up", "crashed", "exited"}
    /\ client \in Seq(Clients)
    /\ entry \in [Clients -> EntryState]
    /\ genomes \in [Clients -> MaybeProblem]
    /\ question \in Seq(Question) /\ Len(question) <= 1
    /\ pauseText \in [Clients -> {"PAUSE", "RESUME"}]
    /\ results \in [Clients -> [MaybeProblem -> Nat]]
    /\ clicks \in 0 .. MaxClicks /\ loads \in 0 .. MaxLoads

WireTyped ==
    /\ arrived \in [Clients -> Nat]
    /\ up \in [Clients -> Seq(UpMsg)]
    /\ link \in [Clients -> {"none", "open", "closed"}]

LEMMA TypeParts ==
    ServerTypeOK /\ NetTypeOK <=> RestTyped /\ DeskTyped /\ WireTyped
BY DEF ServerTypeOK, NetTypeOK, RestTyped, DeskTyped, WireTyped, Question

LEMMA TypePartsNext ==
    (ServerTypeOK /\ NetTypeOK)' <=> RestTyped' /\ DeskTyped' /\ WireTyped'
BY DEF ServerTypeOK, NetTypeOK, RestTyped, DeskTyped, WireTyped, Question

LEMMA ServerInvParts ==
    /\ ServerInv <=> RestTyped /\ DeskTyped /\ WireTyped /\ VectorInv /\ Connected
    /\ ServerInv' <=> RestTyped' /\ DeskTyped' /\ WireTyped' /\ VectorInv' /\ Connected'
BY TypeParts, TypePartsNext DEF ServerInv

\* What the oldest message of a client may be.
LEMMA TakeTypes ==
    ASSUME WireTyped, NEW c \in Clients, NEW kind, Take(c, kind)
    PROVE  /\ Head(up[c]) \in UpMsg /\ Head(up[c]).msg = kind
           /\ up' \in [Clients -> Seq(UpMsg)]
<1>1. up[c] \in Seq(UpMsg) /\ up[c] # <<>>
  BY DEF Take, WireTyped
<1>2. Head(up[c]) \in UpMsg /\ Tail(up[c]) \in Seq(UpMsg)
  BY <1>1, HeadTailProperties
<1> QED  BY <1>2 DEF Take, WireTyped

\* The messages this server sends.
LEMMA DownMessages ==
    /\ \A kind \in PlainDown : [msg |-> kind] \in DownMsg
    /\ \A p \in Problems : [msg |-> "PROGRAM", problem |-> p] \in DownMsg
    /\ \A array \in SUBSET Problems : [msg |-> "GENOMES", array |-> array] \in DownMsg
BY DEF DownMsg

\* sendObject of a GaThread keeps the type of its socket.
LEMMA SendDownType ==
    ASSUME DeskTyped, NEW c \in Clients, NEW m \in DownMsg, SendDown(c, m)
    PROVE  down' \in [Clients -> Seq(DownMsg)]
BY DEF DeskTyped, SendDown, Sent

\* The slots for the messages of a client keep ServerInv.
LEMMA ReadDataServer ==
    ASSUME ServerInv, NEW c \in Clients, ReadDataSlot(c)
    PROVE  ServerInv'
<1> USE ServerInvParts DEF desk
<1>1. CASE TakeConnect(c)
  <2>1. down' \in [Clients -> Seq(DownMsg)]
    BY <1>1, DownMessages, SendDownType DEF TakeConnect, PlainDown
  <2>2. up' \in [Clients -> Seq(UpMsg)]
    BY <1>1, TakeTypes DEF TakeConnect
  <2>3. entry[c] \in {"accepted", "known", "zombie"}
    BY <1>1 DEF TakeConnect, Take
  <2>4. entry' = [entry EXCEPT ![c] = IF @ = "accepted" THEN "known" ELSE @]
        /\ UNCHANGED <<client, link>>
    BY <1>1 DEF TakeConnect
  <2>5. VectorInv' /\ Connected'
    BY <2>3, <2>4 DEF VectorInv, Connected, InVector, RestTyped
  <2>6. RestTyped'
    BY <1>1, <2>4 DEF TakeConnect, RestTyped, EntryState
  <2>7. DeskTyped' /\ WireTyped'
    BY <1>1, <2>1, <2>2 DEF TakeConnect, DeskTyped, WireTyped
  <2> QED  BY <2>5, <2>6, <2>7
<1>2. CASE TakeDelete(c)
  <2>1. client' \in Seq(Clients) /\ VectorInv'
    BY <1>2, RemoveKeepsVector, TypeParts DEF TakeDelete
  <2>2. RestTyped'
    BY <1>2, <2>1 DEF TakeDelete, RestTyped, EntryState
  <2>3. DeskTyped'
    BY <1>2 DEF TakeDelete, DeskTyped
  <2>4. WireTyped'
    BY <1>2, EmptySeq DEF TakeDelete, WireTyped
  <2>5. Connected'
    BY <1>2 DEF TakeDelete, Connected, WireTyped, RestTyped
  <2> QED  BY <2>1, <2>2, <2>3, <2>4, <2>5
<1>3. CASE TakeStatus(c)
  <2>1. up' \in [Clients -> Seq(UpMsg)] /\ Head(up[c]) \in UpMsg /\ Head(up[c]).msg = "STATUS"
    BY <1>3, TakeTypes DEF TakeStatus
  <2>2. Head(up[c]).status \in Status
    BY <2>1 DEF UpMsg, PlainUp
  <2>3. VectorInv' /\ Connected'
    BY <1>3, SameVector, SameConnected DEF TakeStatus
  <2>4. DeskTyped'
    <3>1. CASE c \in InVector
      <4>1. /\ StatusEffect(c, Head(up[c]).status) \in DeskTypes
            /\ Ran(AfterStatus(c, Head(up[c]).status), StatusEffect(c, Head(up[c]).status))
            /\ AfterStatus(c, Head(up[c]).status).sent = [e \in Clients |-> <<>>]
        BY <2>2, <3>1, TypeParts, StatusEffectRan, AfterStatusType
      <4> QED  BY <1>3, <3>1, <4>1, TypeParts, SettleStarts DEF TakeStatus
    <3>2. CASE c \notin InVector
      BY <1>3, <3>2 DEF TakeStatus, DeskTyped
    <3> QED  BY <3>1, <3>2
  <2>5. results' \in [Clients -> [MaybeProblem -> Nat]]
    <3>1. activeProblem \in MaybeProblem /\ results \in [Clients -> [MaybeProblem -> Nat]]
      BY DEF DeskTyped, RestTyped
    <3>2. \/ UNCHANGED results
          \/ results' = [results EXCEPT ![c] = [results[c] EXCEPT ![activeProblem] = @ + 1]]
      BY <1>3 DEF TakeStatus, FileResult
    <3> QED  BY <3>1, <3>2
  <2>6. RestTyped'
    BY <1>3, <2>5 DEF TakeStatus, RestTyped
  <2>7. WireTyped'
    BY <1>3, <2>1 DEF TakeStatus, WireTyped
  <2> QED  BY <2>3, <2>4, <2>6, <2>7
<1>4. CASE TakeGenomes(c)
  <2>1. up' \in [Clients -> Seq(UpMsg)] /\ Head(up[c]) \in UpMsg
        /\ Head(up[c]).msg = "SENDGENOMES"
    BY <1>4, TakeTypes DEF TakeGenomes
  <2>2. Head(up[c]).problem \in MaybeProblem
    BY <2>1 DEF UpMsg, PlainUp, MaybeProblem
  <2>3. RestTyped' /\ DeskTyped' /\ WireTyped'
    BY <1>4, <2>1, <2>2 DEF TakeGenomes, RestTyped, DeskTyped, WireTyped
  <2>4. VectorInv' /\ Connected'
    BY <1>4, SameVector, SameConnected DEF TakeGenomes
  <2> QED  BY <2>3, <2>4
<1>5. CASE TakeAsk(c)
  <2>1. up' \in [Clients -> Seq(UpMsg)]
    BY <1>5, TakeTypes DEF TakeAsk
  <2>2. OtherGenomes(c) \in SUBSET Problems
    BY VectorIsFinite DEF OtherGenomes, RestTyped, MaybeProblem
  <2>3. down' \in [Clients -> Seq(DownMsg)]
    BY <1>5, <2>2, DownMessages, SendDownType DEF TakeAsk, DeskTyped
  <2>4. \/ UNCHANGED <<server, link>>
        \/ server' = "crashed" /\ CloseAll
    BY <1>5 DEF TakeAsk, Crash
  <2>5. RestTyped' /\ DeskTyped' /\ WireTyped'
    BY <1>5, <2>1, <2>3, <2>4 DEF TakeAsk, RestTyped, DeskTyped, WireTyped, CloseAll
  <2>6. VectorInv' /\ Connected'
    BY <1>5, <2>4, SameVector, SameConnected DEF TakeAsk, CloseAll
  <2> QED  BY <2>5, <2>6
<1> QED  BY <1>1, <1>2, <1>3, <1>4, <1>5 DEF ReadDataSlot

\* New connections, and the end of a thread of the server.
LEMMA ConnectionServer ==
    ASSUME ServerInv, NEW c \in Clients, Accept(c) \/ ThreadDeleted(c)
    PROVE  ServerInv'
<1> USE ServerInvParts DEF desk, netVars
<1>1. CASE Accept(c)
  <2>1. client' \in Seq(Clients) /\ VectorInv'
    BY <1>1, AcceptVector
  <2>2. RestTyped' /\ DeskTyped' /\ WireTyped'
    BY <1>1, <2>1 DEF Accept, RestTyped, DeskTyped, WireTyped, EntryState
  <2>3. Connected'
    BY <1>1 DEF Accept, Connected, RestTyped
  <2> QED  BY <2>1, <2>2, <2>3
<1>2. CASE ThreadDeleted(c)
  <2>1. RestTyped' /\ DeskTyped' /\ WireTyped'
    BY <1>2 DEF ThreadDeleted, RestTyped, DeskTyped, WireTyped, EntryState
  <2>2. VectorInv' /\ Connected'
    BY <1>2 DEF ThreadDeleted, VectorInv, Connected, InVector, RestTyped
  <2> QED  BY <2>1, <2>2
<1> QED  BY <1>1, <1>2

\* The three handlers that load, go on with or make a run, seen from outside.
DeskAct(stat, started) ==
    \E S \in SUBSET Known, p \in MaybeProblem : Starts(S, p, stat, started)

LEMMA UserRuns ==
    ASSUME ServerInv, LoadScript \/ CloseBox \/ ClickRun
    PROVE  DeskTyped' /\ DeskAct(clientStatus, totalStarted)
<1> DEFINE d0 == [Desk EXCEPT !.pos = 1]
           d1 == [Desk EXCEPT !.boxes = boxes - 1]
<1>1. Desk \in DeskTypes /\ client \in Seq(Clients) /\ NetTypeOK /\ Len(Script) \in Nat
  BY DeskType, ScriptAssumption, LenProperties DEF ServerInv, ServerTypeOK
<1>2. ASSUME NEW d, d.stat = clientStatus, d.started = totalStarted,
             d.sent = [c \in Clients |-> <<>>],
             NEW e \in DeskTypes, Ran(d, e), Settle(e)
      PROVE  DeskTyped' /\ DeskAct(clientStatus, totalStarted)
  BY <1>1, <1>2, SettleStarts DEF DeskAct
<1>3. CASE LoadScript
  <2>1. d0 \in DeskTypes
    <3>1. 1 \in 0 .. Len(Script) + 1
      BY <1>1
    <3> QED  BY <1>1, <3>1 DEF DeskTypes
  <2>2. d0.stat = clientStatus /\ d0.started = totalStarted /\ d0.sent = [c \in Clients |-> <<>>]
    BY DEF Desk
  <2>3. Settle(runParserCommands(d0))
    BY <1>3 DEF LoadScript
  <2> HIDE DEF d0
  <2> QED  BY <1>1, <1>2, <2>1, <2>2, <2>3, LoopRan
<1>4. CASE CloseBox
  <2>1. boxes - 1 \in Nat
    BY <1>4 DEF CloseBox, ServerInv, ServerTypeOK
  <2>2. d1 \in DeskTypes
    BY <1>1, <2>1 DEF DeskTypes
  <2>3. d1.stat = clientStatus /\ d1.started = totalStarted /\ d1.sent = [c \in Clients |-> <<>>]
    BY DEF Desk
  <2>4. Settle(runParserCommands(d1))
    BY <1>4 DEF CloseBox, Desk
  <2> HIDE DEF d1
  <2> QED  BY <1>1, <1>2, <2>2, <2>3, <2>4, LoopRan
<1>5. CASE ClickRun
  <2> DEFINE r == totalRunSlot(Desk)
             e == [r EXCEPT !.boxes = boxes]
  <2>1. Ran(Desk, r)
    BY <1>1, RanRefl, RunRan
  <2>2. r \in DeskTypes
    BY <1>1, RunTypes
  <2>3. boxes \in Nat
    BY DEF ServerInv, ServerTypeOK
  <2> HIDE DEF r
  <2>4. e \in DeskTypes /\ e.stat = r.stat /\ e.sent = r.sent /\ e.started = r.started
    BY <2>2, <2>3 DEF DeskTypes
  <2>5. Settle(e)
    BY <1>5 DEF ClickRun, r
  <2>6. /\ Desk.stat = clientStatus /\ Desk.started = totalStarted
        /\ Desk.sent = [c \in Clients |-> <<>>]
    BY DEF Desk
  <2>7. Ran(Desk, e)
    BY <2>1, <2>4, RanSame
  <2> HIDE DEF e
  <2> QED  BY <1>2, <2>4, <2>5, <2>6, <2>7
<1> QED  BY <1>3, <1>4, <1>5

\* The first element of a sequence that is not empty.
LEMMA QueueHead ==
    ASSUME NEW S, NEW q \in Seq(S), q # <<>>
    PROVE  q[1] \in S
<1>1. Len(q) \in Nat \ {0}
  BY LenProperties, EmptySeq
<1> QED  BY <1>1, ElementOfSeq

\* terminateSlot, answered with Yes: the index is one of the vector.
LEMMA AnsweredInVector ==
    ASSUME ServerInv, AnswerYes
    PROVE  client[question[1].ipos] \in InVector
<1>1. question \in Seq(Question) /\ question # <<>> /\ question[1].ipos <= Len(client)
      /\ client \in Seq(Clients)
  BY ServerInvParts DEF AnswerYes, RestTyped
<1>2. question[1] \in Question
  BY <1>1, QueueHead
<1>3. question[1].ipos \in 1 .. Len(client)
  BY <1>1, <1>2, LenProperties DEF Question
<1> QED  BY <1>1, <1>3, LenProperties DEF InVector, ToSet

\* A click is counted.
LEMMA ClickType ==
    ASSUME RestTyped, NEW op, Click(op)
    PROVE  clicks' \in 0 .. MaxClicks
BY UserAssumption DEF RestTyped, Click

\* What the user does keeps ServerInv.
LEMMA UserServer ==
    ASSUME ServerInv, User
    PROVE  ServerInv'
<1> USE ServerInvParts DEF desk, netVars
<1>1. CASE LoadScript \/ CloseBox \/ ClickRun
  <2>1. DeskTyped'
    BY <1>1, UserRuns
  <2>2. RestTyped' /\ WireTyped'
    BY <1>1, UserAssumption
       DEF LoadScript, CloseBox, ClickRun, Click, RestTyped, WireTyped
  <2>3. VectorInv' /\ Connected'
    BY <1>1, SameVector, SameConnected DEF LoadScript, CloseBox, ClickRun
  <2> QED  BY <2>1, <2>2, <2>3
<1>2. CASE ClickTotalStatus
  <2>1. [msg |-> "ASKSTATUS"] \in DownMsg
    BY DownMessages DEF PlainDown
  <2>2. down' \in [Clients -> Seq(DownMsg)]
    BY <1>2, <2>1 DEF ClickTotalStatus, DeskTyped
  <2>3. RestTyped' /\ DeskTyped' /\ WireTyped'
    BY <1>2, <2>2, ClickType DEF ClickTotalStatus, RestTyped, DeskTyped, WireTyped
  <2>4. VectorInv' /\ Connected'
    BY <1>2, SameVector, SameConnected DEF ClickTotalStatus
  <2> QED  BY <2>3, <2>4
<1>3. CASE ClickQuit
  <2> DEFINE n == Len(client) \div 2
             reached == {client[i] : i \in {i \in DOMAIN client : i % 2 = 1}}
  <2>1. /\ client \in Seq(Clients) /\ Len(client) \in Nat /\ DOMAIN client = 1 .. Len(client)
        /\ \A i \in 1 .. Len(client) : client[i] \in Clients
    BY LenProperties, ElementOfSeq DEF RestTyped
  <2>2. n \in Nat /\ \A i \in 1 .. n : 2 * i \in 1 .. Len(client) /\ (2 * i) % 2 = 0
    BY <2>1
  <2>3. \A i \in 1 .. Len(client) : i % 2 # 1 => \E j \in 1 .. n : i = 2 * j
    <3> SUFFICES ASSUME NEW i \in 1 .. Len(client), i % 2 # 1
                 PROVE  \E j \in 1 .. n : i = 2 * j
      OBVIOUS
    <3>1. i \div 2 \in 1 .. n /\ i = 2 * (i \div 2)
      BY <2>1
    <3> QED  BY <3>1
  <2>4. client' = [i \in 1 .. n |-> client[2 * i]]
    BY <1>3 DEF ClickQuit
  <2> HIDE DEF n
  <2>5. client' \in Seq(Clients) /\ DOMAIN client' = 1 .. n
    BY <2>1, <2>2, <2>4, IsASeq
  <2>6. \A i, j \in DOMAIN client' : client'[i] = client'[j] => i = j
    BY <2>1, <2>2, <2>4, <2>5 DEF VectorInv
  <2>7. InVector' = InVector \ reached
    <3>1. ASSUME NEW i \in 1 .. n PROVE client'[i] \in InVector \ reached
      BY <2>1, <2>2, <2>4 DEF VectorInv, InVector, ToSet
    <3>2. ASSUME NEW i \in 1 .. Len(client), client[i] \notin reached
          PROVE  \E j \in 1 .. n : client'[j] = client[i]
      <4>1. i % 2 # 1
        BY <2>1, <3>2
      <4>2. PICK j \in 1 .. n : i = 2 * j
        BY <2>3, <4>1
      <4> QED  BY <2>4, <4>2
    <3>3. InVector' = {client'[j] : j \in 1 .. n}
      BY <2>5 DEF InVector, ToSet
    <3>4. InVector = {client[i] : i \in 1 .. Len(client)}
      BY <2>1 DEF InVector, ToSet
    <3> HIDE DEF reached
    <3> QED  BY <3>1, <3>2, <3>3, <3>4
  <2>8. entry' = [c \in Clients |-> IF c \in reached THEN "gone" ELSE entry[c]]
    BY <1>3 DEF ClickQuit
  <2> HIDE DEF reached
  <2>9. VectorInv'
    BY <2>6, <2>7, <2>8 DEF VectorInv
  <2>10. link' = [c \in Clients |-> IF link[c] = "open" THEN "closed" ELSE link[c]]
    BY <1>3 DEF ClickQuit, CloseAll
  <2>11. \A c \in reached : entry[c] # "none"
    BY <2>1 DEF VectorInv, InVector, ToSet, reached
  <2>12. Connected'
    BY <2>8, <2>10, <2>11 DEF Connected, WireTyped
  <2>13. [msg |-> "TERMINATE"] \in DownMsg
    BY DownMessages DEF PlainDown
  <2>14. down' \in [Clients -> Seq(DownMsg)]
    <3>1. down' = [c \in Clients |-> IF c \in reached /\ link[c] = "open"
                                     THEN Append(down[c], [msg |-> "TERMINATE"])
                                     ELSE down[c]]
      BY <1>3 DEF ClickQuit, reached
    <3> QED  BY <2>13, <3>1 DEF DeskTyped
  <2>15. RestTyped'
    <3>1. entry' \in [Clients -> EntryState]
      BY <2>8 DEF RestTyped, EntryState
    <3> QED  BY <1>3, <2>5, <3>1, ClickType DEF ClickQuit, RestTyped
  <2>16. DeskTyped' /\ WireTyped'
    BY <1>3, <2>10, <2>14 DEF ClickQuit, DeskTyped, WireTyped
  <2> QED  BY <2>9, <2>12, <2>15, <2>16
<1>4. CASE \E p \in Problems : ClickActivate(p)
  <2>1. RestTyped' /\ DeskTyped' /\ WireTyped'
    BY <1>4, ClickType DEF ClickActivate, RestTyped, DeskTyped, WireTyped, MaybeProblem
  <2>2. VectorInv' /\ Connected'
    BY <1>4, SameVector, SameConnected DEF ClickActivate
  <2> QED  BY <2>1, <2>2
<1>5. ASSUME NEW c \in Clients, ClickStatus(c)
      PROVE  ServerInv'
  <2>1. down' \in [Clients -> Seq(DownMsg)]
    BY <1>5, DownMessages, SendDownType DEF ClickStatus, PlainDown
  <2>2. RestTyped' /\ DeskTyped' /\ WireTyped'
    BY <1>5, <2>1, ClickType DEF ClickStatus, RestTyped, DeskTyped, WireTyped
  <2>3. VectorInv' /\ Connected'
    BY <1>5, SameVector, SameConnected DEF ClickStatus
  <2> QED  BY <2>2, <2>3
<1>6. ASSUME NEW c \in Clients, ClickPause(c)
      PROVE  ServerInv'
  <2>1. [msg |-> pauseText[c]] \in DownMsg
    BY DownMessages DEF PlainDown, RestTyped
  <2>2. down' \in [Clients -> Seq(DownMsg)]
    BY <1>6, <2>1, SendDownType DEF ClickPause
  <2>3. RestTyped' /\ DeskTyped' /\ WireTyped'
    BY <1>6, <2>2, ClickType DEF ClickPause, RestTyped, DeskTyped, WireTyped
  <2>4. VectorInv' /\ Connected'
    BY <1>6, SameVector, SameConnected DEF ClickPause
  <2> QED  BY <2>3, <2>4
<1>7. ASSUME NEW c \in Clients, ClickTerminate(c)
      PROVE  ServerInv'
  <2>1. Position(c) \in Nat \ {0}
    <3>1. c \in InVector /\ client \in Seq(Clients)
      BY <1>7 DEF ClickTerminate, RestTyped
    <3>2. Position(c) \in 1 .. Len(client)
      BY <3>1, PositionFound
    <3> QED  BY <3>1, <3>2, LenProperties
  <2>2. [ipos |-> Position(c), name |-> c] \in Question
    BY <2>1 DEF Question
  <2>3. question' \in Seq(Question) /\ Len(question') <= 1
    BY <1>7, <2>2 DEF ClickTerminate
  <2>4. RestTyped' /\ DeskTyped' /\ WireTyped'
    <3>1. clicks' \in 0 .. MaxClicks
      BY <1>7, ClickType DEF ClickTerminate
    <3>2. UNCHANGED <<server, client, entry, genomes, pauseText, results, loads,
                      desk, netVars>>
      BY <1>7 DEF ClickTerminate
    <3>3. RestTyped'
      BY <2>3, <3>1, <3>2 DEF RestTyped
    <3> QED  BY <3>2, <3>3 DEF DeskTyped, WireTyped
  <2>5. VectorInv' /\ Connected'
    BY <1>7, SameVector, SameConnected DEF ClickTerminate
  <2> QED  BY <2>4, <2>5
<1>8. CASE AnswerNo \/ AnswerYesOutOfRange
  <2>1. <<>> \in Seq(Question) /\ Len(<<>>) <= 1
    BY EmptySeq
  <2>2. /\ question' = <<>>
        /\ UNCHANGED <<client, entry, genomes, pauseText, results, clicks,
                       loads, desk, down, arrived, up>>
        /\ \/ UNCHANGED <<server, link>>
           \/ server' = "crashed" /\ CloseAll
    BY <1>8 DEF AnswerNo, AnswerYesOutOfRange, Crash
  <2>3. RestTyped' /\ DeskTyped' /\ WireTyped'
    BY <2>1, <2>2 DEF RestTyped, DeskTyped, WireTyped, CloseAll
  <2>4. VectorInv' /\ Connected'
    BY <2>2, SameVector, SameConnected DEF CloseAll
  <2> QED  BY <2>3, <2>4
<1>9. CASE AnswerYes
  <2> DEFINE c == client[question[1].ipos]
  <2>1. c \in InVector
    BY <1>9, AnsweredInVector
  <2>2. c \in Clients
    BY <2>1, VectorIsFinite DEF RestTyped
  <2>3. /\ SendDown(c, [msg |-> "TERMINATE"]) /\ removeClient(c)
        /\ entry' = [entry EXCEPT ![c] = "zombie"] /\ question' = <<>>
        /\ UNCHANGED <<server, genomes, pauseText, results, clicks, loads, desk, up,
                       arrived, link>>
    BY <1>9 DEF AnswerYes
  <2> HIDE DEF c
  <2>4. down' \in [Clients -> Seq(DownMsg)]
    BY <2>2, <2>3, DownMessages, SendDownType DEF PlainDown
  <2>5. client' \in Seq(Clients) /\ VectorInv'
    BY <2>2, <2>3, TypeParts, RemoveKeepsVector
  <2>6. <<>> \in Seq(Question) /\ Len(<<>>) <= 1
    BY EmptySeq
  <2>7. RestTyped' /\ DeskTyped' /\ WireTyped'
    <3>1. entry' \in [Clients -> EntryState]
      BY <2>2, <2>3 DEF RestTyped, EntryState
    <3>2. RestTyped'
      BY <2>3, <2>5, <2>6, <3>1 DEF RestTyped
    <3>3. DeskTyped' /\ WireTyped'
      BY <2>3, <2>4 DEF DeskTyped, WireTyped
    <3> QED  BY <3>2, <3>3
  <2>8. entry[c] # "none" /\ entry \in [Clients -> EntryState]
    BY <2>1 DEF VectorInv, RestTyped
  <2>9. Connected'
    BY <2>2, <2>3, <2>8 DEF Connected
  <2> QED  BY <2>5, <2>7, <2>9
<1> QED  BY <1>1, <1>2, <1>3, <1>4, <1>5, <1>6, <1>7, <1>8, <1>9 DEF User

-----------------------------------------------------------------------------
(* The server is one of those of ClientSystem.                             *)

\* What it writes at once to the clients of S is one of the pushes of such a
\* server.
LEMMA Pushed ==
    ASSUME ServerInv, ClientTypeOK, NEW S \in SUBSET {c \in Clients : link[c] # "none"},
           NEW g \in [Clients -> Clnt!ControlMsg],
           down' = [c \in Clients |-> IF c \in S /\ link[c] = "open"
                                      THEN Append(down[c], g[c]) ELSE down[c]]
    PROVE  \E f \in Clnt!Pushes : Clnt!Push(f)
<1> DEFINE f == [c \in Clients |-> IF c \in S THEN g[c] ELSE Clnt!Nothing]
<1>1. \A c \in Clients : g[c] # Clnt!Nothing
  BY DEF Clnt!ControlMsg, Clnt!Nothing, Clnt!DownMsg, Clnt!PlainDown
<1>2. f \in Clnt!Pushes
  BY DEF Clnt!Pushes
<1>3. \A c \in Clients : f[c] # Clnt!Nothing <=> c \in S
  BY <1>1
<1>4. \A c \in Clients : /\ Len(down[c]) \in Nat /\ Len(up[c]) \in Nat
                         /\ Len(sig[c]) \in Nat
  BY LenProperties DEF ServerInv, NetTypeOK, ClientTypeOK
<1>5. \A c \in Clients : f[c] # Clnt!Nothing =>
          /\ link[c] # "none" /\ Len(down[c]) \in Nat
          /\ Len(up[c]) \in Nat /\ Len(sig[c]) \in Nat
  BY <1>3, <1>4
<1>6. down' = [c \in Clients |-> IF f[c] # Clnt!Nothing /\ link[c] = "open"
                                 THEN Append(down[c], f[c]) ELSE down[c]]
  BY <1>3
<1>7. Clnt!Push(f)
  BY <1>5, <1>6, Zenon DEF Clnt!Push
<1> QED  BY <1>2, <1>7

\* A message to one client.
LEMMA PushedOne ==
    ASSUME ServerInv, ClientTypeOK, NEW c \in Clients, link[c] # "none",
           NEW m \in Clnt!ControlMsg, SendDown(c, m)
    PROVE  \E f \in Clnt!Pushes : Clnt!Push(f)
<1> DEFINE g == [d \in Clients |-> m]
<1>1. g \in [Clients -> Clnt!ControlMsg]
  OBVIOUS
<1>2. down' = [d \in Clients |-> IF d \in {c} /\ link[d] = "open"
                                 THEN Append(down[d], g[d]) ELSE down[d]]
  BY DEF SendDown, Sent, ServerInv, NetTypeOK
<1> HIDE DEF g
<1> QED  BY <1>1, <1>2, Pushed

\* Nothing written is a push, too.
LEMMA PushedNothing ==
    ASSUME ServerInv, ClientTypeOK, UNCHANGED down
    PROVE  \E f \in Clnt!Pushes : Clnt!Push(f)
<1> DEFINE S == {}
           g == [d \in Clients |-> [msg |-> "CODE"]]
<1>1. g \in [Clients -> Clnt!ControlMsg]
  BY DEF Clnt!ControlMsg, Clnt!DownMsg, Clnt!PlainDown
<1>2. down' = [d \in Clients |-> IF d \in S /\ link[d] = "open"
                                 THEN Append(down[d], g[d]) ELSE down[d]]
  BY DEF ServerInv, NetTypeOK
<1>3. S \in SUBSET {c \in Clients : link[c] # "none"}
  OBVIOUS
<1> HIDE DEF g, S
<1> QED  BY <1>1, <1>2, <1>3, Pushed

\* So is the library that the clients of a new run get.
LEMMA PushedRun ==
    ASSUME ServerInv, ClientTypeOK, NEW stat, NEW started, DeskAct(stat, started)
    PROVE  \E f \in Clnt!Pushes : Clnt!Push(f)
<1>1. PICK S \in SUBSET Known, p \in MaybeProblem : Starts(S, p, stat, started)
  BY DEF DeskAct
<1> DEFINE g == [d \in Clients |-> [msg |-> "PROGRAM", problem |-> p]]
<1>2. CASE S = {}
  <2>1. UNCHANGED down
    BY <1>1, <1>2 DEF Starts, ServerInv, NetTypeOK
  <2> QED  BY <2>1, PushedNothing
<1>3. CASE S # {}
  <2>1. g \in [Clients -> Clnt!ControlMsg]
    BY <1>1, <1>3 DEF Starts, Clnt!ControlMsg, Clnt!DownMsg, Clnt!PlainDown
  <2>2. down' = [d \in Clients |-> IF d \in S /\ link[d] = "open"
                                   THEN Append(down[d], g[d]) ELSE down[d]]
    BY <1>1 DEF Starts
  <2>3. S \in SUBSET {c \in Clients : link[c] # "none"}
    BY <1>1, VectorIsFinite
       DEF Starts, Known, ServerInv, ServerTypeOK, Connected
  <2> HIDE DEF g
  <2> QED  BY <2>1, <2>2, <2>3, Pushed
<1> QED  BY <1>2, <1>3

\* The client a handler talks to is connected.
LEMMA InVectorConnected ==
    ASSUME ServerInv, NEW c \in InVector
    PROVE  c \in Clients /\ link[c] # "none"
BY DEF ServerInv, VectorInv, Connected

\* Every message the server reads, with whatever it answers.
LEMMA ReadDataServes ==
    ASSUME ServerInv, ClientTypeOK, NEW c \in Clients, ReadDataSlot(c),
           UNCHANGED clientVars
    PROVE  Clnt!Next
<1>1. UNCHANGED Clnt!clientVars
  BY DEF clientVars, mainVars, workerVars, Clnt!clientVars, Clnt!mainVars, Clnt!workerVars
<1>2. ASSUME up[c] # <<>>, Head(up[c]).msg \notin {"ASKGENOMES", "DELETE"},
             up' = [up EXCEPT ![c] = Tail(@)], UNCHANGED <<arrived, link>>,
             \E f \in Clnt!Pushes : Clnt!Push(f)
      PROVE  Clnt!Next
  <2>1. \E f \in Clnt!Pushes : Clnt!Serve(c, f)
    BY <1>1, <1>2, Zenon DEF Clnt!Serve
  <2> QED  BY <2>1, Zenon DEF Clnt!Next
<1>3. CASE TakeConnect(c)
  <2>1. link[c] # "none"
    BY <1>3 DEF TakeConnect, Take, ServerInv, Connected
  <2>2. [msg |-> "CODE"] \in Clnt!ControlMsg
    BY DEF Clnt!ControlMsg, Clnt!DownMsg, Clnt!PlainDown
  <2>3. \E f \in Clnt!Pushes : Clnt!Push(f)
    BY <1>3, <2>1, <2>2, PushedOne DEF TakeConnect
  <2> QED  BY <1>2, <1>3, <2>3 DEF TakeConnect, Take
<1>4. CASE TakeDelete(c)
  <2>1. Clnt!Release(c)
    BY <1>1, <1>4, Zenon DEF TakeDelete, Clnt!Release
  <2> QED  BY <2>1, Zenon DEF Clnt!Next
<1>5. CASE TakeStatus(c)
  <2>1. \E f \in Clnt!Pushes : Clnt!Push(f)
    <3>1. CASE c \in InVector
      <4> DEFINE s == Head(up[c]).status
      <4>1. s \in Status
        BY <1>5, TakeTypes, ServerInvParts DEF TakeStatus, UpMsg, PlainUp
      <4> HIDE DEF s
      <4>2. /\ StatusEffect(c, s) \in DeskTypes
            /\ Ran(AfterStatus(c, s), StatusEffect(c, s))
            /\ AfterStatus(c, s).sent = [e \in Clients |-> <<>>]
        BY <3>1, <4>1, StatusEffectRan, AfterStatusType DEF ServerInv
      <4>3. Settle(StatusEffect(c, s))
        BY <1>5, <3>1 DEF TakeStatus, s
      <4>4. DeskAct(AfterStatus(c, s).stat, AfterStatus(c, s).started)
        BY <4>2, <4>3, SettleStarts DEF DeskAct, ServerInv
      <4> QED  BY <4>4, PushedRun
    <3>2. CASE c \notin InVector
      BY <1>5, <3>2, PushedNothing DEF TakeStatus
    <3> QED  BY <3>1, <3>2
  <2> QED  BY <1>2, <1>5, <2>1 DEF TakeStatus, Take
<1>6. CASE TakeGenomes(c)
  BY <1>2, <1>6, PushedNothing DEF TakeGenomes, Take
<1>7. CASE TakeAsk(c)
  <2>1. /\ up[c] # <<>> /\ Head(up[c]).msg = "ASKGENOMES"
        /\ up' = [up EXCEPT ![c] = Tail(@)] /\ UNCHANGED arrived
    BY <1>7 DEF TakeAsk, Take
  <2>2. CASE c \in InVector
    <3>1. OtherGenomes(c) \in SUBSET Problems
      BY VectorIsFinite DEF OtherGenomes, ServerInv, ServerTypeOK, MaybeProblem
    <3>2. down' = Clnt!Sent(down, c, [msg |-> "GENOMES", array |-> OtherGenomes(c)])
          /\ UNCHANGED link
      BY <1>7, <2>2 DEF TakeAsk, SendDown, Sent, Clnt!Sent
    <3>3. Clnt!Answer(c, OtherGenomes(c))
      BY <1>1, <2>1, <3>2, Zenon DEF Clnt!Answer
    <3> QED  BY <3>1, <3>3, Zenon DEF Clnt!Next
  <2>3. CASE c \notin InVector
    <3>1. UNCHANGED down /\ CloseAll
      BY <1>7, <2>3 DEF TakeAsk, Crash
    <3>2. PICK f \in Clnt!Pushes : Clnt!Push(f)
      BY <3>1, PushedNothing
    <3>3. Clnt!ServerEnds(f)
      BY <1>1, <2>1, <3>1, <3>2, Zenon DEF Clnt!ServerEnds, CloseAll
    <3> QED  BY <3>3, Zenon DEF Clnt!Next
  <2> QED  BY <2>2, <2>3
<1> QED  BY <1>3, <1>4, <1>5, <1>6, <1>7 DEF ReadDataSlot

\* New connections and ended threads do not concern the clients.
LEMMA ConnectionStutters ==
    ASSUME NEW c, Accept(c) \/ ThreadDeleted(c), UNCHANGED clientVars
    PROVE  UNCHANGED Clnt!vars
BY DEF Accept, ThreadDeleted, netVars, clientVars, mainVars, workerVars,
       Clnt!vars, Clnt!netVars, Clnt!clientVars, Clnt!mainVars, Clnt!workerVars

\* Every step of the user.
LEMMA UserServes ==
    ASSUME ServerInv, ClientTypeOK, User, UNCHANGED clientVars
    PROVE  [Clnt!Next]_Clnt!vars
<1>1. UNCHANGED Clnt!clientVars
  BY DEF clientVars, mainVars, workerVars, Clnt!clientVars, Clnt!mainVars, Clnt!workerVars
<1>2. ASSUME UNCHANGED <<arrived, up, link>>, \E f \in Clnt!Pushes : Clnt!Push(f)
      PROVE  Clnt!Next
  <2>1. \E f \in Clnt!Pushes : Clnt!Command(f)
    BY <1>1, <1>2, Zenon DEF Clnt!Command
  <2> QED  BY <2>1, Zenon DEF Clnt!Next
<1>3. ASSUME UNCHANGED netVars
      PROVE  UNCHANGED Clnt!vars
  BY <1>1, <1>3 DEF netVars, Clnt!vars, Clnt!netVars
<1>4. ASSUME CloseAll, UNCHANGED <<arrived, up>>, \E f \in Clnt!Pushes : Clnt!Push(f)
      PROVE  Clnt!Next
  <2>1. \E f \in Clnt!Pushes : Clnt!ServerEnds(f)
    BY <1>1, <1>4, Zenon DEF Clnt!ServerEnds, CloseAll
  <2> QED  BY <2>1, Zenon DEF Clnt!Next
<1>5. /\ \A kind \in PlainDown : [msg |-> kind] \in Clnt!ControlMsg
      /\ {"ASKSTATUS", "TERMINATE", "PAUSE", "RESUME"} \subseteq PlainDown
  BY DEF PlainDown, Clnt!ControlMsg, Clnt!DownMsg, Clnt!PlainDown
<1>6. CASE LoadScript \/ CloseBox \/ ClickRun
  <2>1. \E f \in Clnt!Pushes : Clnt!Push(f)
    BY <1>6, UserRuns, PushedRun
  <2> QED  BY <1>2, <1>6, <2>1 DEF LoadScript, CloseBox, ClickRun
<1>7. CASE ClickTotalStatus
  <2> DEFINE S == InVector
             g == [d \in Clients |-> [msg |-> "ASKSTATUS"]]
  <2>1. g \in [Clients -> Clnt!ControlMsg] /\ S \in SUBSET {c \in Clients : link[c] # "none"}
    BY <1>5, InVectorConnected
  <2>2. down' = [c \in Clients |-> IF c \in S /\ link[c] = "open"
                                   THEN Append(down[c], g[c]) ELSE down[c]]
    BY <1>7 DEF ClickTotalStatus
  <2> HIDE DEF g, S
  <2>3. \E f \in Clnt!Pushes : Clnt!Push(f)
    BY <2>1, <2>2, Pushed
  <2> QED  BY <1>2, <1>7, <2>3 DEF ClickTotalStatus
<1>8. CASE ClickQuit
  <2> DEFINE S == {client[i] : i \in {i \in DOMAIN client : i % 2 = 1}}
             g == [d \in Clients |-> [msg |-> "TERMINATE"]]
  <2>1. g \in [Clients -> Clnt!ControlMsg]
    BY <1>5
  <2>2. S \subseteq InVector
    BY DEF InVector, ToSet
  <2>3. S \in SUBSET {c \in Clients : link[c] # "none"}
    BY <2>2, InVectorConnected
  <2>4. down' = [c \in Clients |-> IF c \in S /\ link[c] = "open"
                                   THEN Append(down[c], g[c]) ELSE down[c]]
    BY <1>8 DEF ClickQuit
  <2> HIDE DEF g, S
  <2>5. \E f \in Clnt!Pushes : Clnt!Push(f)
    BY <2>1, <2>3, <2>4, Pushed
  <2> QED  BY <1>4, <1>8, <2>5 DEF ClickQuit
<1>9. CASE AnswerNo \/ (\E p \in Problems : ClickActivate(p))
           \/ (\E c \in Clients : ClickTerminate(c))
  BY <1>3, <1>9 DEF AnswerNo, ClickActivate, ClickTerminate
<1>10. ASSUME NEW c \in Clients, ClickStatus(c)
       PROVE  Clnt!Next
  <2>1. \E f \in Clnt!Pushes : Clnt!Push(f)
    BY <1>5, <1>10, InVectorConnected, PushedOne DEF ClickStatus
  <2> QED  BY <1>2, <1>10, <2>1 DEF ClickStatus
<1>11. ASSUME NEW c \in Clients, ClickPause(c)
       PROVE  Clnt!Next
  <2>1. pauseText[c] \in {"PAUSE", "RESUME"}
    BY DEF ServerInv, ServerTypeOK
  <2>2. \E f \in Clnt!Pushes : Clnt!Push(f)
    BY <1>5, <1>11, <2>1, InVectorConnected, PushedOne DEF ClickPause
  <2> QED  BY <1>2, <1>11, <2>2 DEF ClickPause
<1>12. CASE AnswerYes
  <2> DEFINE c == client[question[1].ipos]
  <2>1. c \in InVector
    BY <1>12, AnsweredInVector
  <2>2. \E f \in Clnt!Pushes : Clnt!Push(f)
    BY <1>5, <1>12, <2>1, InVectorConnected, PushedOne DEF AnswerYes
  <2> QED  BY <1>2, <1>12, <2>2 DEF AnswerYes
<1>13. CASE AnswerYesOutOfRange
  <2>1. \E f \in Clnt!Pushes : Clnt!Push(f)
    BY <1>13, PushedNothing DEF AnswerYesOutOfRange
  <2>2. CASE Crash
    BY <1>4, <1>13, <2>1, <2>2 DEF AnswerYesOutOfRange, Crash
  <2>3. CASE ~ Crash
    BY <1>3, <1>13, <2>3 DEF AnswerYesOutOfRange, netVars
  <2> QED  BY <2>2, <2>3
<1> QED  BY <1>6, <1>7, <1>8, <1>9, <1>10, <1>11, <1>12, <1>13 DEF User

-----------------------------------------------------------------------------
(* The clients are those of ClientSystem.                                  *)

\* A client means the same in the two specifications: each of its operators is
\* the one of the instance.
LEMMA SameClient ==
    ASSUME NEW c
    PROVE  /\ Connect(c) <=> Clnt!Connect(c)
           /\ Leave(c, TRUE) <=> Clnt!Leave(c, TRUE)
           /\ Leave(c, FALSE) <=> Clnt!Leave(c, FALSE)
           /\ Kill(c) <=> Clnt!Kill(c)
           /\ ClientStep(c) <=> Clnt!ClientStep(c)
<1> USE DEF
       netVars, Sent, SendUp, mainVars, workerVars, clientVars, IsRunning, Connect,
       Leave, Kill, Receive, Abort, StatusMsg, RecvCode, RunEntry, RunProblem,
       RecvProgram, RecvAskStatus, RecvTerminate, RecvPause, Unblock, RecvResume,
       GenomesIn, RecvGenomes, ReadData, Deliver, RequestGenomesSlot, SendGenomesSlot,
       NewMinimumSlot, EndThread, HandleSignal, Alive, Goto, Emit, WorkerRequest,
       WorkerSpin, GenerationSignals, WorkerStop, WorkerEvolve, WorkerTail,
       WorkerReturn, Worker, ClientStep, Has,
       Clnt!netVars, Clnt!Sent, Clnt!SendUp, Clnt!mainVars, Clnt!workerVars,
       Clnt!clientVars, Clnt!IsRunning, Clnt!Connect, Clnt!Leave, Clnt!Kill,
       Clnt!Receive, Clnt!Abort, Clnt!StatusMsg, Clnt!RecvCode, Clnt!RunEntry,
       Clnt!RunProblem, Clnt!RecvProgram, Clnt!RecvAskStatus, Clnt!RecvTerminate,
       Clnt!RecvPause, Clnt!Unblock, Clnt!RecvResume, Clnt!GenomesIn, Clnt!RecvGenomes,
       Clnt!ReadData, Clnt!Deliver, Clnt!RequestGenomesSlot, Clnt!SendGenomesSlot,
       Clnt!NewMinimumSlot, Clnt!EndThread, Clnt!HandleSignal, Clnt!Alive, Clnt!Goto,
       Clnt!Emit, Clnt!WorkerRequest, Clnt!WorkerSpin, Clnt!GenerationSignals,
       Clnt!WorkerStop, Clnt!WorkerEvolve, Clnt!WorkerTail, Clnt!WorkerReturn,
       Clnt!Worker, Clnt!ClientStep, Clnt!Has
<1>1. Connect(c) <=> Clnt!Connect(c)
  OBVIOUS
<1>2. Leave(c, TRUE) <=> Clnt!Leave(c, TRUE)
  OBVIOUS
<1>3. Leave(c, FALSE) <=> Clnt!Leave(c, FALSE)
  OBVIOUS
<1>4. Kill(c) <=> Clnt!Kill(c)
  OBVIOUS
<1>5. ClientStep(c) <=> Clnt!ClientStep(c)
  OBVIOUS
<1> QED  BY <1>1, <1>2, <1>3, <1>4, <1>5

LEMMA SameTypes ==
    /\ NetTypeOK /\ ClientTypeOK <=> Clnt!TypeOK
    /\ (NetTypeOK /\ ClientTypeOK)' <=> Clnt!TypeOK'
BY DEF NetTypeOK, ClientTypeOK, ProcState, ThreadState, Signal, MaybeProblem, Status,
       DownMsg, UpMsg, PlainDown, PlainUp, Clnt!TypeOK, Clnt!NetTypeOK,
       Clnt!ClientTypeOK, Clnt!ProcState, Clnt!ThreadState, Clnt!Signal,
       Clnt!MaybeProblem, Clnt!Status, Clnt!DownMsg, Clnt!UpMsg, Clnt!PlainDown,
       Clnt!PlainUp

\* What a client does is a step of ClientSystem.
LEMMA ClientActServes ==
    ASSUME NEW c \in Clients, ClientAct(c)
    PROVE  Clnt!Next
<1>1. \/ Clnt!Connect(c) \/ Clnt!ClientStep(c)
      \/ "close" \in Departures /\ Clnt!Leave(c, TRUE)
      \/ "disconnect" \in Departures /\ Clnt!Leave(c, FALSE)
      \/ "kill" \in Departures /\ Clnt!Kill(c)
  BY SameClient, Zenon DEF ClientAct
<1> QED  BY <1>1, Zenon DEF Clnt!Next, Clnt!Depart

\* A client closes or opens its connection; none is forgotten.
LEMMA ClientActLinks ==
    ASSUME NetTypeOK, NEW c \in Clients, ClientAct(c)
    PROVE  \A d \in Clients : link'[d] = "none" => link[d] = "none"
<1> USE DEF NetTypeOK, netVars
<1>1. Connect(c) \/ Leave(c, TRUE) \/ Leave(c, FALSE) \/ Kill(c) \/ ClientStep(c)
  BY DEF ClientAct
<1>2. CASE Connect(c) \/ Leave(c, TRUE) \/ Leave(c, FALSE) \/ Kill(c)
  BY <1>2 DEF Connect, Leave, Kill
<1>3. CASE ReadData(c)
  BY <1>3 DEF ReadData, RecvCode, RecvProgram, RunProblem, RecvAskStatus, RecvTerminate,
              RecvPause, RecvResume, RecvGenomes, Abort
<1>4. CASE HandleSignal(c) \/ Unblock(c)
  BY <1>4 DEF HandleSignal, RequestGenomesSlot, SendGenomesSlot, NewMinimumSlot,
              EndThread, Unblock
<1>5. CASE Worker(c)
  BY <1>5 DEF Worker, WorkerRequest, WorkerSpin, WorkerStop, WorkerEvolve, WorkerTail,
              WorkerReturn
<1> QED  BY <1>1, <1>2, <1>3, <1>4, <1>5 DEF ClientStep

LEMMA ClientActServer ==
    ASSUME ServerInv, NEW c \in Clients, ClientAct(c), NetTypeOK'
    PROVE  ServerInv'
<1>1. UNCHANGED serverVars
  BY DEF ClientAct
<1>2. ServerTypeOK'
  BY <1>1 DEF ServerInv, ServerTypeOK, serverVars
<1>3. VectorInv'
  BY <1>1, SameVector DEF ServerInv, serverVars
<1>4. Connected'
  BY <1>1, ClientActLinks, SameConnected DEF ServerInv, serverVars
<1> QED  BY <1>2, <1>3, <1>4 DEF ServerInv

\* The inductive invariant: the server's, and what is known of the clients of
\* any server.
Inv == ServerInv /\ ClientTypeOK /\ Clnt!WorkerHasLibrary

LEMMA InvParts ==
    /\ Inv => Clnt!TypeInv /\ TypeOK
    /\ Inv' <=> ServerInv' /\ ClientTypeOK' /\ Clnt!WorkerHasLibrary'
BY SameTypes DEF Inv, ServerInv, TypeOK, Clnt!TypeInv

\* Every step of the system is a step of ClientSystem, or none of the clients
\* and their connections.
LEMMA StepServes ==
    ASSUME Inv, [Next]_vars
    PROVE  [Clnt!Next]_Clnt!vars
<1>1. CASE UNCHANGED vars
  BY <1>1 DEF vars, netVars, clientVars, mainVars, workerVars, Clnt!vars, Clnt!netVars,
              Clnt!clientVars, Clnt!mainVars, Clnt!workerVars
<1>2. CASE UserAct
  BY <1>2, UserServes DEF UserAct, Inv
<1>3. ASSUME NEW c \in Clients, ClientAct(c)
      PROVE  Clnt!Next
  BY <1>3, ClientActServes
<1>4. ASSUME NEW c \in Clients, ServerAct(c)
      PROVE  [Clnt!Next]_Clnt!vars
  <2>1. CASE Accept(c) \/ ThreadDeleted(c)
    BY <1>4, <2>1, ConnectionStutters DEF ServerAct
  <2>2. CASE ReadDataSlot(c)
    BY <1>4, <2>2, ReadDataServes DEF ServerAct, Inv
  <2> QED  BY <1>4, <2>1, <2>2 DEF ServerAct
<1> QED  BY <1>1, <1>2, <1>3, <1>4 DEF Next

LEMMA InitInv == Init => Inv /\ Clnt!Init
<1> SUFFICES ASSUME Init PROVE Inv /\ Clnt!Init
  OBVIOUS
<1>1. Clnt!Init
  BY DEF Init, NetInit, ClientInit, Clnt!Init, Clnt!ClientInit, Clnt!NetInit
<1>2. Clnt!TypeOK /\ Clnt!WorkerHasLibrary
  BY <1>1, Clnt!InitType, GenerationsAssumption, NoProblemAssumption
     DEF Clnt!Init, Clnt!ClientInit, Clnt!WorkerHasLibrary
<1>3. NetTypeOK /\ ClientTypeOK
  BY <1>2, SameTypes
<1>4. ServerTypeOK
  <2>1. 0 \in 0 .. Len(Script) + 1
    BY ScriptAssumption, LenProperties
  <2>2. /\ <<>> \in Seq(Clients) /\ <<>> \in Seq([ipos : Nat \ {0}, name : Clients])
        /\ Len(<<>>) = 0
    BY EmptySeq
  <2>3. 0 \in 0 .. MaxClicks /\ 0 \in 0 .. MaxLoads
    BY UserAssumption
  <2> QED  BY <2>1, <2>2, <2>3 DEF Init, ServerInit, ServerTypeOK, EntryState, MaybeProblem
<1>5. VectorInv /\ Connected
  BY DEF Init, ServerInit, VectorInv, Connected, InVector, ToSet
<1> QED  BY <1>1, <1>2, <1>3, <1>4, <1>5 DEF Inv, ServerInv

LEMMA StepInv ==
    ASSUME Inv, [Next]_vars
    PROVE  Inv'
<1>1. [Clnt!Next]_Clnt!vars
  BY StepServes
<1>2. Clnt!TypeOK' /\ Clnt!WorkerHasLibrary'
  BY <1>1, InvParts, Clnt!StepType, Clnt!StepLibrary, GenerationsAssumption,
     NoProblemAssumption
<1>3. NetTypeOK' /\ ClientTypeOK'
  BY <1>2, SameTypes
<1>4. ServerInv'
  <2>1. CASE UNCHANGED vars
    <3>1. /\ UNCHANGED serverVars /\ UNCHANGED netVars
      BY <2>1 DEF vars
    <3>2. ServerTypeOK'
      BY <3>1 DEF Inv, ServerInv, ServerTypeOK, serverVars
    <3>3. VectorInv' /\ Connected'
      BY <3>1, SameVector, SameConnected DEF Inv, ServerInv, serverVars, netVars
    <3> QED  BY <1>3, <3>2, <3>3 DEF ServerInv
  <2>2. CASE UserAct
    BY <2>2, UserServer DEF UserAct, Inv
  <2>3. ASSUME NEW c \in Clients, ClientAct(c)
        PROVE  ServerInv'
    BY <1>3, <2>3, ClientActServer DEF Inv
  <2>4. ASSUME NEW c \in Clients, ServerAct(c)
        PROVE  ServerInv'
    BY <2>4, ReadDataServer, ConnectionServer DEF ServerAct, Inv
  <2> QED  BY <2>1, <2>2, <2>3, <2>4 DEF Next
<1> QED  BY <1>2, <1>3, <1>4 DEF Inv

LEMMA InvAlways == Spec => []Inv
<1>1. Init => Inv
  BY InitInv
<1>2. Inv /\ [Next]_vars => Inv'
  BY StepInv
<1> QED  BY <1>1, <1>2, PTL DEF Spec

\* TypeOK holds of the whole system, for any script, any set of clients and
\* whatever the user does: no slot of the server or of a client leaves its
\* variables with a value of another kind.
THEOREM TypeCorrect == Spec => []TypeOK
<1>1. Inv => TypeOK
  BY InvParts
<1> QED  BY <1>1, InvAlways, PTL

LEMMA ServesClients == Spec => Clnt!Spec
<1>1. Init => Clnt!Init
  BY InitInv
<1>2. Inv /\ [Next]_vars => [Clnt!Next]_Clnt!vars
  BY StepServes
<1> QED  BY <1>1, <1>2, InvAlways, PTL DEF Spec, Clnt!Spec

\* The two instances are the same specification.
LEMMA SameSpec == AnyServer!Spec <=> Clnt!Spec
BY DEF
       Clnt!MaybeProblem, Clnt!Status, Clnt!PlainDown, Clnt!PlainUp, Clnt!DownMsg,
       Clnt!UpMsg, Clnt!netVars, Clnt!Sent, Clnt!SendUp, Clnt!Has, Clnt!NetInit,
       Clnt!mainVars, Clnt!workerVars, Clnt!clientVars, Clnt!IsRunning, Clnt!ClientInit,
       Clnt!Connect, Clnt!Leave, Clnt!Kill, Clnt!Receive, Clnt!Abort, Clnt!StatusMsg,
       Clnt!RecvCode, Clnt!RunEntry, Clnt!RunProblem, Clnt!RecvProgram,
       Clnt!RecvAskStatus, Clnt!RecvTerminate, Clnt!RecvPause, Clnt!Unblock,
       Clnt!RecvResume, Clnt!GenomesIn, Clnt!RecvGenomes, Clnt!ReadData, Clnt!Deliver,
       Clnt!RequestGenomesSlot, Clnt!SendGenomesSlot, Clnt!NewMinimumSlot,
       Clnt!EndThread, Clnt!HandleSignal, Clnt!Alive, Clnt!Goto, Clnt!Emit,
       Clnt!WorkerRequest, Clnt!WorkerSpin, Clnt!GenerationSignals, Clnt!WorkerStop,
       Clnt!WorkerEvolve, Clnt!WorkerTail, Clnt!WorkerReturn, Clnt!Worker,
       Clnt!ClientStep, Clnt!ControlMsg, Clnt!Nothing, Clnt!vars, Clnt!Init,
       Clnt!Pushes, Clnt!Push, Clnt!Serve, Clnt!Command, Clnt!Answer, Clnt!Release,
       Clnt!ServerEnds, Clnt!Depart, Clnt!Next, AnyServer!MaybeProblem,
       AnyServer!Status, AnyServer!PlainDown, AnyServer!PlainUp, AnyServer!DownMsg,
       AnyServer!UpMsg, AnyServer!netVars, AnyServer!Sent, AnyServer!SendUp,
       AnyServer!Has, AnyServer!NetInit, AnyServer!mainVars, AnyServer!workerVars,
       AnyServer!clientVars, AnyServer!IsRunning, AnyServer!ClientInit,
       AnyServer!Connect, AnyServer!Leave, AnyServer!Kill, AnyServer!Receive,
       AnyServer!Abort, AnyServer!StatusMsg, AnyServer!RecvCode, AnyServer!RunEntry,
       AnyServer!RunProblem, AnyServer!RecvProgram, AnyServer!RecvAskStatus,
       AnyServer!RecvTerminate, AnyServer!RecvPause, AnyServer!Unblock,
       AnyServer!RecvResume, AnyServer!GenomesIn, AnyServer!RecvGenomes,
       AnyServer!ReadData, AnyServer!Deliver, AnyServer!RequestGenomesSlot,
       AnyServer!SendGenomesSlot, AnyServer!NewMinimumSlot, AnyServer!EndThread,
       AnyServer!HandleSignal, AnyServer!Alive, AnyServer!Goto, AnyServer!Emit,
       AnyServer!WorkerRequest, AnyServer!WorkerSpin, AnyServer!GenerationSignals,
       AnyServer!WorkerStop, AnyServer!WorkerEvolve, AnyServer!WorkerTail,
       AnyServer!WorkerReturn, AnyServer!Worker, AnyServer!ClientStep,
       AnyServer!ControlMsg, AnyServer!Nothing, AnyServer!vars, AnyServer!Init,
       AnyServer!Pushes, AnyServer!Push, AnyServer!Serve, AnyServer!Command,
       AnyServer!Answer, AnyServer!Release, AnyServer!ServerEnds, AnyServer!Depart,
       AnyServer!Next, Clnt!Spec, AnyServer!Spec

\* Refinement: the clients of OnePC, with all that its server does to them, are
\* clients of ClientSystem, for every script, user and way to leave.  What is
\* proved of the clients of any server therefore holds of the whole system.
THEOREM ImplementsClientSystem == Spec => ClientsAreThoseOfClientSystem
<1>1. Spec => AnyServer!Spec
  BY ServesClients, SameSpec
<1> QED  BY <1>1 DEF ClientsAreThoseOfClientSystem

\* So the one of OneRequest does: in OnePC a request for chromosomes is in one
\* place at a time, and only while its worker waits for it.
THEOREM OneRequestInOnePC == Spec => []Clnt!OneRequest
<1>1. Clnt!Spec => []Clnt!OneRequest
  BY Clnt!OneRequestAlways, GenerationsAssumption, NoProblemAssumption
<1> QED  BY <1>1, ServesClients

\* And so does RequestKept: while the connection to the server is open, a worker
\* that waits for chromosomes has its request, or the answer, on the way.
THEOREM RequestKeptInOnePC == Spec => []Clnt!RequestKept
<1>1. Clnt!Spec => []Clnt!RequestKept
  BY Clnt!RequestAlwaysKept, GenerationsAssumption, NoProblemAssumption
<1> QED  BY <1>1, ServesClients

-----------------------------------------------------------------------------
(* What the slots of the server write.                                     *)

\* A slot writes nothing to d, or one message on an open connection, which is
\* a library only for a client that has told its machine type.
Writes(d) ==
    \/ down'[d] = down[d]
    \/ /\ link[d] = "open"
       /\ \E m \in DownMsg : /\ down'[d] = Append(down[d], m)
                             /\ m.msg = "PROGRAM" => d \in Known

LEMMA NothingWritten == UNCHANGED down => \A d \in Clients : Writes(d)
BY DEF Writes

LEMMA SendDownWrites ==
    ASSUME ServerInv, NEW c \in Clients, NEW m \in DownMsg, m.msg # "PROGRAM", SendDown(c, m)
    PROVE  \A d \in Clients : Writes(d)
BY DEF Writes, SendDown, Sent, ServerInv, NetTypeOK

LEMMA DeskActWrites ==
    ASSUME NEW stat, NEW started, DeskAct(stat, started)
    PROVE  \A d \in Clients : Writes(d)
<1>1. PICK S \in SUBSET Known, p \in MaybeProblem : Starts(S, p, stat, started)
  BY DEF DeskAct
<1>2. \A d \in S : [msg |-> "PROGRAM", problem |-> p] \in DownMsg
  BY <1>1, DownMessages DEF Starts
<1>3. ASSUME NEW d \in Clients PROVE Writes(d)
  BY <1>1, <1>2 DEF Starts, Writes
<1> QED  BY <1>3

\* statusClientSlot, seen from outside.
StatusCount(s) == IF s = "FINISH" THEN totalStarted - 1 ELSE totalStarted

LEMMA TakeStatusRuns ==
    ASSUME ServerInv, NEW c \in InVector, TakeStatus(c)
    PROVE  LET s == Head(up[c]).status
           IN  s \in Status /\ DeskAct([clientStatus EXCEPT ![c] = s], StatusCount(s))
<1>1. c \in Clients /\ ServerTypeOK /\ NetTypeOK
  BY InVectorConnected DEF ServerInv
<1>2. Head(up[c]) \in UpMsg /\ Head(up[c]).msg = "STATUS"
  BY <1>1, TakeTypes, ServerInvParts DEF TakeStatus
<1> DEFINE s == Head(up[c]).status
<1>3. s \in Status
  BY <1>2 DEF UpMsg, PlainUp
<1>4. Settle(StatusEffect(c, s))
  BY DEF TakeStatus
<1> HIDE DEF s
<1>5. StatusEffect(c, s) \in DeskTypes /\ Ran(AfterStatus(c, s), StatusEffect(c, s))
  BY <1>1, <1>3, StatusEffectRan
<1>6. DeskAct(AfterStatus(c, s).stat, AfterStatus(c, s).started)
  BY <1>1, <1>3, <1>4, <1>5, AfterStatusType, SettleStarts DEF DeskAct
<1>7. DeskAct([clientStatus EXCEPT ![c] = s], StatusCount(s))
  BY <1>1, <1>3, <1>6, AfterStatusType DEF StatusCount
<1> QED  BY <1>3, <1>7 DEF s

LEMMA ServerWrites ==
    ASSUME ServerInv, NEW c \in Clients, ReadDataSlot(c) \/ Accept(c) \/ ThreadDeleted(c)
    PROVE  \A d \in Clients : Writes(d)
<1>1. CASE TakeConnect(c)
  BY <1>1, SendDownWrites, DownMessages DEF TakeConnect, PlainDown
<1>2. CASE TakeDelete(c) \/ TakeGenomes(c) \/ Accept(c) \/ ThreadDeleted(c)
  BY <1>2, NothingWritten DEF TakeDelete, TakeGenomes, Accept, ThreadDeleted, netVars
<1>3. CASE TakeStatus(c)
  <2>1. CASE c \in InVector
    BY <1>3, <2>1, TakeStatusRuns, DeskActWrites
  <2>2. CASE c \notin InVector
    BY <1>3, <2>2, NothingWritten DEF TakeStatus
  <2> QED  BY <2>1, <2>2
<1>4. CASE TakeAsk(c)
  <2>1. OtherGenomes(c) \in SUBSET Problems
    BY VectorIsFinite DEF OtherGenomes, ServerInv, ServerTypeOK, MaybeProblem
  <2>2. [msg |-> "GENOMES", array |-> OtherGenomes(c)] \in DownMsg
    BY <2>1, DownMessages
  <2>3. CASE c \in InVector
    BY <1>4, <2>2, <2>3, SendDownWrites DEF TakeAsk
  <2>4. CASE c \notin InVector
    BY <1>4, <2>4, NothingWritten DEF TakeAsk
  <2> QED  BY <2>3, <2>4
<1> QED  BY <1>1, <1>2, <1>3, <1>4 DEF ReadDataSlot

LEMMA UserWrites ==
    ASSUME ServerInv, User
    PROVE  \A d \in Clients : Writes(d)
<1> USE DEF netVars
<1>1. CASE LoadScript \/ CloseBox \/ ClickRun
  BY <1>1, UserRuns, DeskActWrites
<1>2. CASE ClickTotalStatus
  <2>1. [msg |-> "ASKSTATUS"] \in DownMsg
    BY DownMessages DEF PlainDown
  <2> QED  BY <1>2, <2>1 DEF ClickTotalStatus, Writes
<1>3. CASE ClickQuit
  <2>1. [msg |-> "TERMINATE"] \in DownMsg
    BY DownMessages DEF PlainDown
  <2> DEFINE S == {client[i] : i \in {i \in DOMAIN client : i % 2 = 1}}
  <2>2. down' = [d \in Clients |-> IF d \in S /\ link[d] = "open"
                                   THEN Append(down[d], [msg |-> "TERMINATE"])
                                   ELSE down[d]]
    BY <1>3 DEF ClickQuit
  <2> HIDE DEF S
  <2> QED  BY <2>1, <2>2 DEF Writes
<1>4. CASE AnswerNo \/ AnswerYesOutOfRange \/ (\E p \in Problems : ClickActivate(p))
           \/ (\E c \in Clients : ClickTerminate(c))
  BY <1>4, NothingWritten DEF AnswerNo, AnswerYesOutOfRange, ClickActivate, ClickTerminate
<1>5. ASSUME NEW c \in Clients, ClickStatus(c) \/ ClickPause(c)
      PROVE  \A d \in Clients : Writes(d)
  <2>1. pauseText[c] \in {"PAUSE", "RESUME"}
    BY DEF ServerInv, ServerTypeOK
  <2>2. /\ [msg |-> pauseText[c]] \in DownMsg /\ [msg |-> "ASKSTATUS"] \in DownMsg
    BY <2>1, DownMessages DEF PlainDown
  <2>3. pauseText[c] # "PROGRAM"
    BY <2>1
  <2> QED  BY <1>5, <2>2, <2>3, SendDownWrites DEF ClickStatus, ClickPause
<1>6. CASE AnswerYes
  <2>1. client[question[1].ipos] \in Clients
    BY <1>6, AnsweredInVector, InVectorConnected
  <2>2. [msg |-> "TERMINATE"] \in DownMsg
    BY DownMessages DEF PlainDown
  <2> QED  BY <1>6, <2>1, <2>2, SendDownWrites DEF AnswerYes
<1> QED  BY <1>1, <1>2, <1>3, <1>4, <1>5, <1>6 DEF User

-----------------------------------------------------------------------------
(* A library is stored under a name of its own.                            *)

LEMMA HasAppend ==
    ASSUME NEW S, NEW q \in Seq(S), NEW m \in S, NEW kind
    PROVE  Has(Append(q, m), kind) <=> Has(q, kind) \/ m.msg = kind
BY Clnt!HasAppend, GenerationsAssumption, NoProblemAssumption DEF Has, Clnt!Has

LEMMA HasTail ==
    ASSUME NEW S, NEW q \in Seq(S), q # <<>>, NEW kind
    PROVE  Has(q, kind) <=> Has(Tail(q), kind) \/ Head(q).msg = kind
BY Clnt!HasTail, GenerationsAssumption, NoProblemAssumption DEF Has, Clnt!Has

\* The indices of a queue after a message is added, or the oldest is taken.
LEMMA AppendIndices ==
    ASSUME NEW S, NEW q \in Seq(S), NEW m \in S
    PROVE  /\ Len(q) \in Nat /\ DOMAIN q = 1 .. Len(q)
           /\ DOMAIN Append(q, m) = 1 .. Len(q) + 1 /\ Len(Append(q, m)) = Len(q) + 1
           /\ \A i \in 1 .. Len(q) : Append(q, m)[i] = q[i]
           /\ Append(q, m)[Len(q) + 1] = m
BY AppendProperties, LenProperties

LEMMA TailIndices ==
    ASSUME NEW S, NEW q \in Seq(S), q # <<>>
    PROVE  /\ Len(q) \in Nat \ {0} /\ DOMAIN q = 1 .. Len(q) /\ Head(q) = q[1]
           /\ Tail(q) \in Seq(S) /\ Len(Tail(q)) = Len(q) - 1
           /\ DOMAIN Tail(q) = 1 .. Len(q) - 1
           /\ \A i \in 1 .. Len(q) - 1 : Tail(q)[i] = q[i + 1]
BY HeadTailProperties, LenProperties, EmptySeq

\* A library waits in the queue q only behind SERVERSENDCODE, unless socketId
\* has been set before.
CodeFirst(q, named) ==
    \A i \in DOMAIN q : q[i].msg = "PROGRAM" =>
        named \/ \E j \in DOMAIN q : j < i /\ q[j].msg = "CODE"

LEMMA CodeFirstAppend ==
    ASSUME NEW S, NEW q \in Seq(S), NEW m \in S, NEW named \in BOOLEAN,
           CodeFirst(q, named), m.msg = "PROGRAM" => named \/ Has(q, "CODE")
    PROVE  CodeFirst(Append(q, m), named)
<1> SUFFICES ASSUME ~ named, NEW i \in DOMAIN Append(q, m), Append(q, m)[i].msg = "PROGRAM"
             PROVE  \E j \in DOMAIN Append(q, m) : j < i /\ Append(q, m)[j].msg = "CODE"
  BY DEF CodeFirst
<1>1. CASE i \in DOMAIN q
  BY <1>1, AppendIndices DEF CodeFirst
<1>2. CASE i \notin DOMAIN q
  BY <1>2, AppendIndices DEF Has
<1> QED  BY <1>1, <1>2

LEMMA CodeFirstTail ==
    ASSUME NEW S, NEW q \in Seq(S), q # <<>>, NEW named \in BOOLEAN, NEW after \in BOOLEAN,
           CodeFirst(q, named), named => after, Head(q).msg = "CODE" => after
    PROVE  CodeFirst(Tail(q), after)
<1> SUFFICES ASSUME ~ after, NEW i \in DOMAIN Tail(q), Tail(q)[i].msg = "PROGRAM"
             PROVE  \E j \in DOMAIN Tail(q) : j < i /\ Tail(q)[j].msg = "CODE"
  BY DEF CodeFirst
<1>1. i + 1 \in DOMAIN q /\ q[i + 1].msg = "PROGRAM"
  BY TailIndices
<1>2. PICK k \in DOMAIN q : k < i + 1 /\ q[k].msg = "CODE"
  BY <1>1 DEF CodeFirst
<1>3. k # 1 /\ k \in Nat \ {0} /\ i \in Nat
  BY <1>2, TailIndices
<1>4. k - 1 \in DOMAIN Tail(q) /\ Tail(q)[k - 1] = q[k] /\ k - 1 < i
  BY <1>2, <1>3, TailIndices
<1> QED  BY <1>2, <1>4

\* The invariant behind LibraryHasItsOwnName: a client that told its machine
\* type gets SERVERSENDCODE before any library, and an open connection has lost
\* none of it.
Named(c) ==
    /\ thread[c] # "none" => socketId[c]
    /\ CodeFirst(down[c], socketId[c])
    /\ entry[c] = "known" /\ link[c] = "open" => socketId[c] \/ Has(down[c], "CODE")
    /\ proc[c] = "off" => link[c] = "none"

NameInv == \A c \in Clients : Named(c)

LEMMA NamedFrame ==
    ASSUME NEW d, Named(d), thread'[d] = thread[d], socketId'[d] = socketId[d],
           down'[d] = down[d], entry'[d] = entry[d], link'[d] \in {link[d], "closed"},
           proc'[d] = "off" => proc[d] = "off" /\ link'[d] = link[d]
    PROVE  Named(d)'
BY DEF Named, CodeFirst, Has

\* The main thread of a client stores a library when socketId is set.
LEMMA ReadDataNamed ==
    ASSUME NetTypeOK, ClientTypeOK, NameInv, NEW c \in Clients, ReadData(c),
           entry'[c] = entry[c]
    PROVE  Named(c)'
<1> USE DEF NetTypeOK, ClientTypeOK
<1>1. /\ down[c] \in Seq(DownMsg) /\ down[c] # <<>> /\ down'[c] = Tail(down[c])
      /\ proc[c] = "up"
  <2>1. ASSUME NEW kind, Receive(c, kind)
        PROVE  down[c] # <<>> /\ down'[c] = Tail(down[c]) /\ proc[c] = "up"
    <3>1. down[c] \in Seq(DownMsg) /\ arrived[c] \in Nat
      OBVIOUS
    <3>2. Len(down[c]) # 0
      BY <2>1, <3>1 DEF Receive
    <3> QED  BY <2>1, <3>1, <3>2, EmptySeq DEF Receive
  <2>2. \E kind : Receive(c, kind)
    BY DEF ReadData, RecvCode, RecvProgram, RecvAskStatus, RecvTerminate, RecvPause,
           RecvResume, RecvGenomes
  <2> QED  BY <2>1, <2>2
<1>2. Named(c) /\ socketId[c] \in BOOLEAN
  BY DEF NameInv
<1>3. /\ socketId'[c] \in BOOLEAN /\ (socketId[c] => socketId'[c])
      /\ (Head(down[c]).msg = "CODE" => socketId'[c])
  <2>1. CASE RecvCode(c)
    BY <2>1 DEF RecvCode
  <2>2. CASE ~ RecvCode(c)
    <3>1. UNCHANGED socketId /\ Head(down[c]).msg # "CODE"
      BY <2>2 DEF ReadData, RecvProgram, RunProblem, RecvAskStatus, RecvTerminate,
         RecvPause, RecvResume, RecvGenomes, Abort, mainVars, Receive
    <3> QED  BY <1>2, <3>1
  <2> QED  BY <2>1, <2>2
<1>4. CodeFirst(down'[c], socketId'[c])
  BY <1>1, <1>2, <1>3, CodeFirstTail DEF Named
<1>5. Has(down[c], "CODE") => socketId'[c] \/ Has(down'[c], "CODE")
  BY <1>1, <1>3, HasTail
<1>6. proc'[c] # "off" /\ link'[c] \in {link[c], "closed"}
  BY <1>1 DEF ReadData, RecvCode, RecvProgram, RunProblem, RecvAskStatus, RecvTerminate,
         RecvPause, RecvResume, RecvGenomes, Abort, mainVars
<1>7. thread'[c] # "none" => socketId'[c]
  <2>1. CASE RecvProgram(c)
    <3>1. Head(down[c]).msg = "PROGRAM"
      BY <2>1 DEF RecvProgram, Receive
    <3>2. 1 \in DOMAIN down[c] /\ down[c][1].msg = "PROGRAM"
      BY <1>1, <3>1, TailIndices
    <3>3. \A j \in DOMAIN down[c] : ~ j < 1
      BY <1>1, TailIndices
    <3>4. CodeFirst(down[c], socketId[c])
      BY <1>2 DEF Named
    <3>5. socketId[c]
      BY <3>2, <3>3, <3>4 DEF CodeFirst
    <3> QED  BY <1>3, <3>5
  <2>2. CASE ~ RecvProgram(c)
    <3>1. UNCHANGED thread \/ (RecvResume(c) /\ thread[c] # "none")
      BY <2>2 DEF ReadData, RecvCode, RecvAskStatus, RecvTerminate, RecvPause, RecvResume,
                  RecvGenomes, Abort, workerVars
    <3>2. thread[c] # "none" => socketId'[c]
      BY <1>2, <1>3 DEF Named
    <3>3. thread'[c] # "none" => thread[c] # "none"
      BY <3>1
    <3> QED  BY <3>2, <3>3
  <2> QED  BY <2>1, <2>2
<1>8. CodeFirst(down[c], socketId[c])'
  BY <1>4 DEF CodeFirst
<1>9. (entry[c] = "known" /\ link[c] = "open" => socketId[c] \/ Has(down[c], "CODE"))'
  <2>1. entry'[c] = "known" /\ link'[c] = "open" => socketId'[c] \/ Has(down'[c], "CODE")
    BY <1>2, <1>3, <1>5, <1>6 DEF Named
  <2> QED  BY <2>1 DEF Has
<1> QED  BY <1>6, <1>7, <1>8, <1>9 DEF Named

\* Steps of a client that read no message.
LEMMA ClientActNamed ==
    ASSUME Inv, NameInv, NEW c \in Clients, ClientAct(c)
    PROVE  NameInv'
<1> USE DEF Inv, ServerInv, NetTypeOK, ClientTypeOK
<1>1. /\ UNCHANGED entry
      /\ \/ Connect(c) \/ Leave(c, TRUE) \/ Leave(c, FALSE) \/ Kill(c)
         \/ ReadData(c) \/ HandleSignal(c) \/ Unblock(c) \/ Worker(c)
  BY DEF ClientAct, ClientStep, serverVars
<1>2. ASSUME NEW d \in Clients \ {c} PROVE Named(d)'
  <2>1. /\ thread'[d] = thread[d] /\ socketId'[d] = socketId[d] /\ proc'[d] = proc[d]
        /\ down'[d] = down[d] /\ link'[d] = link[d]
    <3>1. CASE Connect(c) \/ Leave(c, TRUE) \/ Leave(c, FALSE) \/ Kill(c)
      BY <3>1 DEF Connect, Leave, Kill, workerVars
    <3>2. CASE ReadData(c)
      BY <3>2 DEF ReadData, RecvCode, RecvProgram, RunProblem, RecvAskStatus, RecvTerminate,
                  RecvPause, RecvResume, RecvGenomes, Abort, Receive, mainVars, workerVars
    <3>3. CASE HandleSignal(c) \/ Unblock(c)
      BY <3>3 DEF HandleSignal, RequestGenomesSlot, SendGenomesSlot, NewMinimumSlot,
                  EndThread, Unblock, mainVars, workerVars, netVars
    <3>4. CASE Worker(c)
      BY <3>4 DEF Worker, WorkerRequest, WorkerSpin, WorkerStop, WorkerEvolve, WorkerTail,
                  WorkerReturn, Goto, mainVars, netVars
    <3> QED  BY <1>1, <3>1, <3>2, <3>3, <3>4
  <2> QED  BY <1>1, <2>1, NamedFrame DEF NameInv
<1>3. Named(c)'
  <2>1. CASE ReadData(c)
    BY <1>1, <2>1, ReadDataNamed
  <2>2. CASE Connect(c)
    <3>1. entry[c] = "none"
      BY <2>2 DEF Connect, NameInv, Named, Connected
    <3>2. /\ UNCHANGED <<thread, socketId, down>> /\ proc'[c] = "up"
      BY <2>2 DEF Connect, workerVars
    <3> QED  BY <1>1, <3>1, <3>2 DEF NameInv, Named
  <2>3. CASE Leave(c, TRUE) \/ Leave(c, FALSE) \/ Kill(c)
    BY <1>1, <2>3, NamedFrame DEF Leave, Kill, workerVars, NameInv
  <2>4. CASE HandleSignal(c) \/ Unblock(c)
    BY <1>1, <2>4, NamedFrame
       DEF HandleSignal, RequestGenomesSlot, SendGenomesSlot, NewMinimumSlot, EndThread,
           Unblock, Deliver, mainVars, workerVars, netVars, NameInv
  <2>5. CASE Worker(c)
    <3>1. /\ UNCHANGED <<proc, socketId, down, link>> /\ thread[c] # "none"
      BY <2>5 DEF Worker, WorkerRequest, WorkerSpin, WorkerStop, WorkerEvolve, WorkerTail,
                  WorkerReturn, mainVars, netVars
    <3> QED  BY <1>1, <3>1 DEF NameInv, Named
  <2> QED  BY <1>1, <2>1, <2>2, <2>3, <2>4, <2>5
<1> QED  BY <1>2, <1>3 DEF NameInv

\* What the server writes keeps the order of SERVERSENDCODE and the library.
LEMMA WritesNamed ==
    ASSUME Inv, NameInv, NEW d \in Clients, Writes(d), UNCHANGED clientVars,
           link'[d] \in {link[d], "closed"}, link[d] = "none" => link'[d] = "none",
           entry'[d] # "known" \/ entry[d] = "known" \/ Has(down'[d], "CODE")
               \/ link'[d] # "open"
    PROVE  Named(d)'
<1>1. /\ down[d] \in Seq(DownMsg) /\ socketId[d] \in BOOLEAN /\ Named(d)
      /\ UNCHANGED <<thread, socketId, proc>>
  BY DEF Inv, ServerInv, NetTypeOK, ClientTypeOK, NameInv, clientVars, mainVars, workerVars
<1>2. CASE down'[d] = down[d]
  BY <1>1, <1>2 DEF Named
<1>3. CASE /\ link[d] = "open"
           /\ \E m \in DownMsg : /\ down'[d] = Append(down[d], m)
                                 /\ m.msg = "PROGRAM" => d \in Known
  <2>1. PICK m \in DownMsg : /\ down'[d] = Append(down[d], m)
                             /\ m.msg = "PROGRAM" => d \in Known
    BY <1>3
  <2>2. m.msg = "PROGRAM" => socketId[d] \/ Has(down[d], "CODE")
    BY <1>1, <1>3, <2>1 DEF Known, Named
  <2>3. CodeFirst(down'[d], socketId[d])
    BY <1>1, <2>1, <2>2, CodeFirstAppend DEF Named
  <2>4. Has(down[d], "CODE") => Has(down'[d], "CODE")
    BY <1>1, <2>1, HasAppend
  <2> QED  BY <1>1, <1>3, <2>3, <2>4 DEF Named
<1> QED  BY <1>2, <1>3 DEF Writes

LEMMA ServerActNamed ==
    ASSUME Inv, NameInv, NEW c \in Clients, ServerAct(c)
    PROVE  NameInv'
<1> USE DEF Inv, ServerInv, ServerTypeOK, NetTypeOK
<1>1. UNCHANGED clientVars /\ \A d \in Clients : Writes(d)
  BY ServerWrites DEF ServerAct
<1>2. ASSUME NEW d \in Clients
      PROVE  /\ link'[d] \in {link[d], "closed"} /\ (link[d] = "none" => link'[d] = "none")
             /\ entry'[d] # "known" \/ entry[d] = "known" \/ Has(down'[d], "CODE")
                    \/ link'[d] # "open"
  <2>1. CASE TakeConnect(c)
    <3>1. UNCHANGED link
      BY <2>1 DEF TakeConnect
    <3>2. CASE d = c /\ link[c] = "open"
      <4>1. down[c] \in Seq(DownMsg) /\ [msg |-> "CODE"] \in DownMsg
        BY DownMessages DEF PlainDown
      <4>2. down'[c] = Append(down[c], [msg |-> "CODE"])
        BY <2>1, <3>2 DEF TakeConnect, SendDown, Sent
      <4>3. Has(down'[c], "CODE")
        BY <4>1, <4>2, HasAppend
      <4> QED  BY <3>1, <3>2, <4>3
    <3>3. CASE d # c \/ link[c] # "open"
      BY <2>1, <3>1, <3>3 DEF TakeConnect
    <3> QED  BY <3>2, <3>3
  <2>2. CASE TakeDelete(c)
    BY <2>2, <1>1 DEF TakeDelete, Connected
  <2>3. CASE TakeStatus(c) \/ TakeGenomes(c)
    BY <2>3 DEF TakeStatus, TakeGenomes
  <2>4. CASE TakeAsk(c)
    BY <2>4 DEF TakeAsk, Crash, CloseAll
  <2>5. CASE Accept(c) \/ ThreadDeleted(c)
    BY <2>5 DEF Accept, ThreadDeleted, netVars
  <2> QED  BY <2>1, <2>2, <2>3, <2>4, <2>5 DEF ServerAct, ReadDataSlot
<1> QED  BY <1>1, <1>2, WritesNamed DEF NameInv

LEMMA UserActNamed ==
    ASSUME Inv, NameInv, UserAct
    PROVE  NameInv'
<1> USE DEF Inv, ServerInv, ServerTypeOK, NetTypeOK
<1>1. UNCHANGED clientVars /\ \A d \in Clients : Writes(d)
  BY UserWrites DEF UserAct
<1>2. ASSUME NEW d \in Clients
      PROVE  /\ link'[d] \in {link[d], "closed"} /\ (link[d] = "none" => link'[d] = "none")
             /\ entry'[d] # "known" \/ entry[d] = "known"
  <2>1. CASE LoadScript \/ CloseBox \/ ClickRun \/ ClickTotalStatus
    BY <2>1 DEF LoadScript, CloseBox, ClickRun, ClickTotalStatus
  <2>2. CASE ClickQuit
    BY <2>2 DEF ClickQuit, CloseAll
  <2>3. CASE \/ \E p \in Problems : ClickActivate(p)
             \/ \E e \in Clients : ClickStatus(e) \/ ClickPause(e) \/ ClickTerminate(e)
    BY <2>3 DEF ClickActivate, ClickStatus, ClickPause, ClickTerminate, netVars
  <2>4. CASE AnswerNo \/ AnswerYes \/ AnswerYesOutOfRange
    BY <2>4 DEF AnswerNo, AnswerYes, AnswerYesOutOfRange, Crash, CloseAll, netVars
  <2> QED  BY <2>1, <2>2, <2>3, <2>4 DEF UserAct, User
<1> QED  BY <1>1, <1>2, WritesNamed DEF NameInv

\* LibraryHasItsOwnName holds of the whole system, whatever the user does and
\* however clients leave: a client never stores a library before SERVERSENDCODE
\* has given it the socketId that makes the name of the file its own.
THEOREM LibraryAlwaysHasItsOwnName == Spec => []LibraryHasItsOwnName
<1>1. Init => NameInv
  <2>1. \A named : CodeFirst(<<>>, named)
    BY DEF CodeFirst
  <2>2. Init => \A c \in Clients : /\ thread[c] = "none" /\ down[c] = <<>>
                                  /\ entry[c] = "none" /\ link[c] = "none"
    <3>1. ClientInit => \A c \in Clients : thread[c] = "none"
      BY DEF ClientInit
    <3>2. NetInit => \A c \in Clients : down[c] = <<>> /\ link[c] = "none"
      BY DEF NetInit
    <3>3. ServerInit => \A c \in Clients : entry[c] = "none"
      BY DEF ServerInit
    <3> QED  BY <3>1, <3>2, <3>3 DEF Init
  <2> QED  BY <2>1, <2>2 DEF NameInv, Named
<1>2. Inv /\ NameInv /\ [Next]_vars => NameInv'
  <2> SUFFICES ASSUME Inv, NameInv, [Next]_vars PROVE NameInv'
    OBVIOUS
  <2>1. CASE UNCHANGED vars
    <3>1. UNCHANGED <<thread, socketId, down, entry, link, proc>>
      BY <2>1 DEF vars, clientVars, mainVars, workerVars, serverVars, netVars
    <3> QED  BY <3>1, NamedFrame DEF NameInv
  <2> QED  BY <2>1, UserActNamed, ServerActNamed, ClientActNamed DEF Next
<1>3. NameInv => LibraryHasItsOwnName
  BY DEF NameInv, Named, LibraryHasItsOwnName
<1> QED  BY <1>1, <1>2, <1>3, InvAlways, PTL DEF Spec

-----------------------------------------------------------------------------
(* The server survives.                                                    *)

\* Without the TERMINATE button no client is removed while its socket is read.
NoZombie ==
    /\ server # "crashed" /\ question = <<>>
    /\ \A c \in Clients : entry[c] # "zombie"

LEMMA ServerActSurvives ==
    ASSUME Inv, NoZombie, NEW c \in Clients, ServerAct(c)
    PROVE  NoZombie'
<1> USE DEF NoZombie, Inv, ServerInv, ServerTypeOK
<1>1. CASE TakeAsk(c)
  <2>1. c \in InVector
    BY <1>1 DEF TakeAsk, Take, VectorInv
  <2> QED  BY <1>1, <2>1 DEF TakeAsk
<1>2. CASE TakeConnect(c)
  BY <1>2 DEF TakeConnect
<1>3. CASE TakeDelete(c)
  BY <1>3 DEF TakeDelete
<1>4. CASE TakeStatus(c) \/ TakeGenomes(c)
  BY <1>4 DEF TakeStatus, TakeGenomes
<1>5. CASE Accept(c) \/ ThreadDeleted(c)
  BY <1>5 DEF Accept, ThreadDeleted
<1> QED  BY <1>1, <1>2, <1>3, <1>4, <1>5 DEF ServerAct, ReadDataSlot

LEMMA UserActSurvives ==
    ASSUME "TERMINATE" \notin UserOps, Inv, NoZombie, UserAct
    PROVE  NoZombie'
<1> USE DEF NoZombie, Inv, ServerInv, ServerTypeOK
<1>1. CASE LoadScript \/ CloseBox \/ ClickRun \/ ClickTotalStatus
  BY <1>1 DEF LoadScript, CloseBox, ClickRun, ClickTotalStatus
<1>2. CASE ClickQuit
  BY <1>2 DEF ClickQuit
<1>3. CASE \/ \E p \in Problems : ClickActivate(p)
           \/ \E c \in Clients : ClickStatus(c) \/ ClickPause(c)
  BY <1>3 DEF ClickActivate, ClickStatus, ClickPause
<1>4. ~ (\E c \in Clients : ClickTerminate(c))
  BY DEF ClickTerminate, Click
<1>5. ~ (AnswerNo \/ AnswerYes \/ AnswerYesOutOfRange)
  BY DEF AnswerNo, AnswerYes, AnswerYesOutOfRange
<1> QED  BY <1>1, <1>2, <1>3, <1>4, <1>5 DEF UserAct, User

\* ServerSurvives: however clients come, leave or die, and whatever else the
\* user does, clientRequestGenomesSlot indexes the vector with a valid position
\* and the server does not crash, as long as nobody presses TERMINATE.
THEOREM ServerAlwaysSurvives ==
    ASSUME "TERMINATE" \notin UserOps
    PROVE  Spec => []ServerSurvives
<1>1. Init => NoZombie
  BY DEF Init, ServerInit, NoZombie
<1>2. Inv /\ NoZombie /\ [Next]_vars => NoZombie'
  <2> SUFFICES ASSUME Inv, NoZombie, [Next]_vars PROVE NoZombie'
    OBVIOUS
  <2>1. ASSUME UNCHANGED serverVars PROVE NoZombie'
    BY <2>1 DEF serverVars, NoZombie
  <2>2. CASE UNCHANGED vars
    BY <2>1, <2>2 DEF vars
  <2>3. ASSUME NEW c \in Clients, ClientAct(c) PROVE NoZombie'
    BY <2>1, <2>3 DEF ClientAct
  <2> QED  BY <2>2, <2>3, UserActSurvives, ServerActSurvives DEF Next
<1>3. NoZombie => ServerSurvives
  BY DEF NoZombie, ServerSurvives
<1> QED  BY <1>1, <1>2, <1>3, InvAlways, PTL DEF Spec

-----------------------------------------------------------------------------
(* The rounds of an experiment.                                            *)

OnlyRuns == UserOps \subseteq {"RUN", "ACTIVATE"}

-----------------------------------------------------------------------------
(* What is known of the queues of a client.                                *)

IsFinish(m) == m.msg = "STATUS" /\ m.status = "FINISH"

HasFinish(q) == \E i \in DOMAIN q : IsFinish(q[i])

\* No status follows the one that says FINISH, until that one is read.
StatusOrder(q) ==
    /\ \A i, j \in DOMAIN q : i < j /\ IsFinish(q[i]) => q[j].msg # "STATUS"
    /\ \A i \in DOMAIN q : q[i].msg = "STATUS" => q[i].status \in {"RUN", "FINISH"}

\* The worker emits nothing after completed.
CompletedIsLast(q) == \A i \in DOMAIN q : q[i].msg = "completed" => i = Len(q)

\* What a server without other controls sends.
OnlyRounds(q) == \A i \in DOMAIN q : q[i].msg \in {"CODE", "PROGRAM", "GENOMES"}

\* Finishing(c), of the queue up[c].
FinishFirst(q) ==
    \E i \in DOMAIN q : IsFinish(q[i]) /\ \A j \in 1 .. i : q[j].msg # "DELETE"

LEMMA OnlyRoundsAppend ==
    ASSUME NEW S, NEW q \in Seq(S), NEW m \in S, OnlyRounds(q),
           m.msg \in {"CODE", "PROGRAM", "GENOMES"}
    PROVE  OnlyRounds(Append(q, m))
BY AppendIndices DEF OnlyRounds

LEMMA OnlyRoundsTail ==
    ASSUME NEW S, NEW q \in Seq(S), q # <<>>, OnlyRounds(q)
    PROVE  OnlyRounds(Tail(q)) /\ Head(q).msg \in {"CODE", "PROGRAM", "GENOMES"}
BY TailIndices DEF OnlyRounds

LEMMA OnceAppend ==
    ASSUME NEW S, NEW q \in Seq(S), NEW m \in S, NEW kind,
           AtMostOnce(q, kind), ~ Has(q, kind) \/ m.msg # kind
    PROVE  AtMostOnce(Append(q, m), kind)
BY Clnt!OnceAppend, GenerationsAssumption, NoProblemAssumption
   DEF AtMostOnce, Has, Clnt!AtMostOnce, Clnt!Has

LEMMA OnceTail ==
    ASSUME NEW S, NEW q \in Seq(S), q # <<>>, NEW kind, AtMostOnce(q, kind)
    PROVE  /\ AtMostOnce(Tail(q), kind)
           /\ Head(q).msg = kind => ~ Has(Tail(q), kind)
BY Clnt!OnceTail, GenerationsAssumption, NoProblemAssumption
   DEF AtMostOnce, Has, Clnt!AtMostOnce, Clnt!Has

LEMMA HasConcat ==
    ASSUME NEW S, NEW q \in Seq(S), NEW r \in Seq(S), NEW kind
    PROVE  Has(q \o r, kind) <=> Has(q, kind) \/ Has(r, kind)
<1>1. Clnt!Has(q \o r, kind) <=> Clnt!Has(q, kind) \/ Clnt!Has(r, kind)
  BY Clnt!HasConcat, GenerationsAssumption, NoProblemAssumption, Zenon
<1> QED  BY <1>1, Zenon DEF Has, Clnt!Has

LEMMA HasFinishStatus ==
    ASSUME NEW q
    PROVE  HasFinish(q) => Has(q, "STATUS")
BY DEF HasFinish, IsFinish, Has

LEMMA StatusAppend ==
    ASSUME NEW S, NEW q \in Seq(S), NEW m \in S, StatusOrder(q),
           m.msg = "STATUS" => m.status \in {"RUN", "FINISH"} /\ ~ HasFinish(q)
    PROVE  /\ StatusOrder(Append(q, m))
           /\ HasFinish(Append(q, m)) <=> HasFinish(q) \/ IsFinish(m)
<1>1. HasFinish(Append(q, m)) <=> HasFinish(q) \/ IsFinish(m)
  <2>1. /\ DOMAIN q \subseteq DOMAIN Append(q, m)
        /\ \A i \in DOMAIN q : Append(q, m)[i] = q[i]
        /\ Len(q) + 1 \in DOMAIN Append(q, m) /\ Append(q, m)[Len(q) + 1] = m
        /\ \A i \in DOMAIN Append(q, m) : i \in DOMAIN q \/ i = Len(q) + 1
    BY AppendIndices
  <2> QED  BY <2>1 DEF HasFinish
<1>2. \A i, j \in DOMAIN Append(q, m) :
          i < j /\ IsFinish(Append(q, m)[i]) => Append(q, m)[j].msg # "STATUS"
  <2> SUFFICES ASSUME NEW i \in DOMAIN Append(q, m), NEW j \in DOMAIN Append(q, m),
                      i < j, IsFinish(Append(q, m)[i])
               PROVE  Append(q, m)[j].msg # "STATUS"
    OBVIOUS
  <2>1. i \in DOMAIN q /\ Append(q, m)[i] = q[i]
    BY AppendIndices
  <2>2. CASE j \in DOMAIN q
    BY <2>1, <2>2, AppendIndices DEF StatusOrder
  <2>3. CASE j \notin DOMAIN q
    BY <2>1, <2>3, AppendIndices DEF HasFinish
  <2> QED  BY <2>2, <2>3
<1>3. \A i \in DOMAIN Append(q, m) : Append(q, m)[i].msg = "STATUS" =>
          Append(q, m)[i].status \in {"RUN", "FINISH"}
  BY AppendIndices DEF StatusOrder
<1> QED  BY <1>1, <1>2, <1>3 DEF StatusOrder

LEMMA StatusTail ==
    ASSUME NEW S, NEW q \in Seq(S), q # <<>>, StatusOrder(q)
    PROVE  /\ StatusOrder(Tail(q))
           /\ HasFinish(Tail(q)) => HasFinish(q)
           /\ IsFinish(Head(q)) => HasFinish(q) /\ ~ Has(Tail(q), "STATUS")
           /\ Head(q).msg = "STATUS" => Head(q).status \in {"RUN", "FINISH"}
<1>1. /\ \A i \in DOMAIN Tail(q) : i + 1 \in DOMAIN q /\ Tail(q)[i] = q[i + 1] /\ 1 < i + 1
      /\ \A i, j \in DOMAIN Tail(q) : i < j => i + 1 < j + 1
      /\ 1 \in DOMAIN q /\ Head(q) = q[1]
  BY TailIndices
<1> QED  BY <1>1 DEF StatusOrder, HasFinish, Has

LEMMA CompletedAppend ==
    ASSUME NEW S, NEW q \in Seq(S), NEW m \in S, ~ Has(q, "completed")
    PROVE  CompletedIsLast(Append(q, m))
BY AppendIndices DEF CompletedIsLast, Has

LEMMA CompletedNone ==
    ASSUME NEW q, ~ Has(q, "completed")
    PROVE  CompletedIsLast(q)
BY DEF CompletedIsLast, Has

LEMMA CompletedTail ==
    ASSUME NEW S, NEW q \in Seq(S), q # <<>>, CompletedIsLast(q)
    PROVE  /\ CompletedIsLast(Tail(q))
           /\ Head(q).msg = "completed" => Tail(q) = <<>>
<1>1. \A i \in DOMAIN Tail(q) : i + 1 \in DOMAIN q /\ Tail(q)[i] = q[i + 1]
  BY TailIndices
<1>2. CompletedIsLast(Tail(q))
  BY <1>1, TailIndices DEF CompletedIsLast
<1>3. Head(q).msg = "completed" => Len(Tail(q)) = 0
  <2>1. 1 \in DOMAIN q /\ Head(q) = q[1] /\ Len(Tail(q)) = Len(q) - 1
    BY TailIndices
  <2> QED  BY <2>1 DEF CompletedIsLast
<1>4. Len(Tail(q)) = 0 => Tail(q) = <<>>
  BY TailIndices, EmptySeq
<1> QED  BY <1>2, <1>3, <1>4

LEMMA FinishFirstAppend ==
    ASSUME NEW S, NEW q \in Seq(S), NEW m \in S
    PROVE  FinishFirst(Append(q, m)) <=>
               FinishFirst(q) \/ (IsFinish(m) /\ ~ Has(q, "DELETE"))
<1> DEFINE r == Append(q, m)
<1>1. /\ Len(q) \in Nat /\ DOMAIN q = 1 .. Len(q) /\ DOMAIN r = 1 .. Len(q) + 1
      /\ \A i \in 1 .. Len(q) : r[i] = q[i]
      /\ r[Len(q) + 1] = m
  BY AppendIndices
<1> HIDE DEF r
<1>2. ASSUME FinishFirst(r) PROVE FinishFirst(q) \/ (IsFinish(m) /\ ~ Has(q, "DELETE"))
  <2>1. PICK i \in DOMAIN r : IsFinish(r[i]) /\ \A j \in 1 .. i : r[j].msg # "DELETE"
    BY <1>2 DEF FinishFirst
  <2>2. CASE i = Len(q) + 1
    BY <1>1, <2>1, <2>2 DEF Has
  <2>3. CASE i # Len(q) + 1
    <3>1. i \in DOMAIN q /\ \A j \in 1 .. i : r[j] = q[j]
      BY <1>1, <2>3
    <3> QED  BY <2>1, <3>1, <1>1 DEF FinishFirst
  <2> QED  BY <2>2, <2>3
<1>3. ASSUME FinishFirst(q) PROVE FinishFirst(r)
  <2>1. PICK i \in DOMAIN q : IsFinish(q[i]) /\ \A j \in 1 .. i : q[j].msg # "DELETE"
    BY <1>3 DEF FinishFirst
  <2>2. i \in DOMAIN r /\ \A j \in 1 .. i : r[j] = q[j]
    BY <1>1
  <2> QED  BY <2>1, <2>2, <1>1 DEF FinishFirst
<1>4. ASSUME IsFinish(m), ~ Has(q, "DELETE") PROVE FinishFirst(r)
  <2>1. \A j \in 1 .. Len(q) + 1 : r[j].msg # "DELETE"
    BY <1>1, <1>4 DEF Has, IsFinish
  <2> QED  BY <1>1, <1>4, <2>1 DEF FinishFirst
<1> QED  BY <1>2, <1>3, <1>4 DEF r

LEMMA FinishFirstTail ==
    ASSUME NEW S, NEW q \in Seq(S), q # <<>>
    PROVE  /\ Head(q).msg = "DELETE" => ~ FinishFirst(q)
           /\ IsFinish(Head(q)) => FinishFirst(q)
           /\ Head(q).msg # "DELETE" /\ ~ IsFinish(Head(q)) =>
                 (FinishFirst(Tail(q)) <=> FinishFirst(q))
<1> DEFINE r == Tail(q)
<1>1. /\ Len(q) \in Nat \ {0} /\ DOMAIN q = 1 .. Len(q) /\ Head(q) = q[1]
      /\ DOMAIN r = 1 .. Len(q) - 1
      /\ \A i \in 1 .. Len(q) - 1 : r[i] = q[i + 1]
  BY TailIndices
<1> HIDE DEF r
<1>2. Head(q).msg = "DELETE" => ~ FinishFirst(q)
  BY <1>1 DEF FinishFirst
<1>3. IsFinish(Head(q)) => FinishFirst(q)
  BY <1>1 DEF FinishFirst, IsFinish
<1>4. ASSUME Head(q).msg # "DELETE", FinishFirst(r) PROVE FinishFirst(q)
  <2>1. PICK i \in DOMAIN r : IsFinish(r[i]) /\ \A j \in 1 .. i : r[j].msg # "DELETE"
    BY <1>4 DEF FinishFirst
  <2>2. i + 1 \in DOMAIN q /\ IsFinish(q[i + 1])
    BY <1>1, <2>1
  <2>3. ASSUME NEW j \in 1 .. i + 1 PROVE q[j].msg # "DELETE"
    <3>1. CASE j = 1
      BY <1>1, <1>4, <3>1
    <3>2. CASE j # 1
      <4>1. j - 1 \in 1 .. i /\ r[j - 1] = q[j]
        BY <1>1, <3>2
      <4> QED  BY <2>1, <4>1
    <3> QED  BY <3>1, <3>2
  <2> QED  BY <2>2, <2>3 DEF FinishFirst
<1>5. ASSUME ~ IsFinish(Head(q)), FinishFirst(q) PROVE FinishFirst(r)
  <2>1. PICK i \in DOMAIN q : IsFinish(q[i]) /\ \A j \in 1 .. i : q[j].msg # "DELETE"
    BY <1>5 DEF FinishFirst
  <2>2. i # 1
    BY <1>1, <1>5, <2>1
  <2>3. i - 1 \in DOMAIN r /\ r[i - 1] = q[i]
    BY <1>1, <2>2
  <2>4. \A j \in 1 .. i - 1 : j + 1 \in 1 .. i /\ r[j] = q[j + 1]
    BY <1>1, <2>2
  <2> QED  BY <2>1, <2>3, <2>4 DEF FinishFirst
<1> QED  BY <1>2, <1>3, <1>4, <1>5 DEF r

-----------------------------------------------------------------------------
(* The invariant of a client.                                              *)

\* run() is to evolve a generation or to end, with completed still to come.
Busy(c) == thread[c] \in {"first", "request", "spin", "next", "tail"}

Pending(c) == Has(down[c], "PROGRAM")
Completing(c) == Has(sig[c], "completed")

\* A library, a worker, its end or a status of it: what makes the server wait.
Engaged(c) == Pending(c) \/ Busy(c) \/ Completing(c) \/ Has(up[c], "STATUS")

Queues(c) ==
    /\ OnlyRounds(down[c]) /\ AtMostOnce(down[c], "PROGRAM")
    /\ CompletedIsLast(sig[c]) /\ StatusOrder(up[c])

\* A run is in one phase: the library on its way, the worker at work, its end
\* to be handled by the main thread, FINISH on its way to the server.
Phase(c) ==
    /\ Pending(c) => ~ Busy(c) /\ ~ Completing(c) /\ ~ Has(up[c], "STATUS")
    /\ Busy(c) => ~ Completing(c) /\ ~ HasFinish(up[c])
    /\ Completing(c) => ~ HasFinish(up[c]) /\ thread[c] \in {"returning", "finished"}
    /\ status[c] = "RUN" <=> Busy(c) \/ Completing(c)
    /\ Has(sig[c], "newMinimum") => Busy(c) \/ Completing(c)
    /\ calledDone[c] => thread[c] \in {"returning", "finished"}

Process(c) ==
    /\ proc[c] # "blocked"
    /\ proc[c] = "off" <=> link[c] = "none"
    /\ proc[c] = "off" => /\ thread[c] = "none" /\ sig[c] = <<>>
                          /\ up[c] = <<>> /\ down[c] = <<>>

ClientRound(c) == Queues(c) /\ Phase(c) /\ Process(c)

\* Lost and Working, of one client.
IsLost(c) == Gone(c) \/ link[c] = "closed" \/ Has(up[c], "DELETE")

Works(c) == FinishFirst(up[c]) \/ (~ IsLost(c) /\ (Pending(c) \/ status[c] = "RUN"))

LEMMA Views ==
    /\ Lost = {c \in Clients : IsLost(c)}
    /\ Working = {c \in Clients : Works(c)}
<1>1. \A c \in Clients : Finishing(c) <=> FinishFirst(up[c])
  BY DEF Finishing, FinishFirst, IsFinish
<1>2. Lost = {c \in Clients : IsLost(c)}
  BY DEF Lost, IsLost
<1> QED  BY <1>1, <1>2 DEF Working, Works, Pending

\* Nothing changes for whoever runs experiments, or they lose c.
Seen(c) ==
    \/ (IsLost(c)' <=> IsLost(c)) /\ (Works(c)' <=> Works(c))
    \/ IsLost(c)' /\ (FinishFirst(up'[c]) <=> FinishFirst(up[c]))

\* What the steps of a client do to what the server waits for.
Proceeds(c) ==
    /\ ClientRound(c)'
    /\ Engaged(c)' => Engaged(c)
    /\ link[c] = "closed" => link'[c] = "closed" /\ up'[c] = up[c]
    /\ Seen(c)

LEMMA InvTypes ==
    ASSUME Inv, NEW c \in Clients
    PROVE  /\ down[c] \in Seq(DownMsg) /\ up[c] \in Seq(UpMsg) /\ sig[c] \in Seq(Signal)
           /\ proc[c] \in ProcState /\ status[c] \in Status /\ thread[c] \in ThreadState
           /\ calledDone[c] \in BOOLEAN /\ link[c] \in {"none", "open", "closed"}
           /\ globalMinimum[c] \in MaybeProblem
           /\ thread[c] # "none" \/ sig[c] # <<>> => codeBytes[c] \in Problems
BY DEF Inv, ServerInv, NetTypeOK, ClientTypeOK, Clnt!WorkerHasLibrary

-----------------------------------------------------------------------------
(* The steps of a client.                                                  *)

\* recvString, of the messages of a round.
LEMMA ReceiveRound ==
    ASSUME Inv, NEW c \in Clients, Queues(c), NEW kind, Receive(c, kind)
    PROVE  /\ kind \in {"CODE", "PROGRAM", "GENOMES"} /\ proc[c] = "up"
           /\ OnlyRounds(down'[c]) /\ AtMostOnce(down'[c], "PROGRAM")
           /\ kind = "PROGRAM" => Pending(c) /\ ~ Pending(c)'
           /\ kind # "PROGRAM" => (Pending(c)' <=> Pending(c))
<1>1. /\ down[c] \in Seq(DownMsg) /\ down[c] # <<>> /\ down'[c] = Tail(down[c])
      /\ Head(down[c]).msg = kind /\ proc[c] = "up"
  <2>1. down[c] \in Seq(DownMsg) /\ arrived[c] \in Nat /\ down \in [Clients -> Seq(DownMsg)]
    BY DEF Inv, ServerInv, NetTypeOK
  <2>2. arrived[c] < Len(down[c]) => down[c] # <<>>
    BY <2>1, EmptySeq
  <2> QED  BY <2>1, <2>2 DEF Receive
<1>2. /\ OnlyRounds(down'[c]) /\ kind \in {"CODE", "PROGRAM", "GENOMES"}
      /\ AtMostOnce(down'[c], "PROGRAM")
      /\ kind = "PROGRAM" => ~ Has(down'[c], "PROGRAM")
  BY <1>1, OnlyRoundsTail, OnceTail DEF Queues
<1>3. Has(down[c], "PROGRAM") <=> Has(down'[c], "PROGRAM") \/ kind = "PROGRAM"
  BY <1>1, HasTail
<1> QED  BY <1>1, <1>2, <1>3 DEF Pending

LEMMA ReadDataProceeds ==
    ASSUME Inv, NEW c \in Clients, ClientRound(c), ReadData(c)
    PROVE  Proceeds(c)
<1> USE InvTypes DEF ClientRound, ProcState
<1>1. RecvCode(c) \/ RecvProgram(c) \/ RecvGenomes(c)
  <2>1. ASSUME NEW kind, Receive(c, kind) PROVE kind \in {"CODE", "PROGRAM", "GENOMES"}
    BY <2>1, ReceiveRound
  <2>2. ASSUME RecvAskStatus(c) PROVE FALSE
    BY <2>1, <2>2 DEF RecvAskStatus
  <2>3. ASSUME RecvTerminate(c) PROVE FALSE
    BY <2>1, <2>3 DEF RecvTerminate
  <2>4. ASSUME RecvPause(c) PROVE FALSE
    BY <2>1, <2>4 DEF RecvPause
  <2>5. ASSUME RecvResume(c) PROVE FALSE
    BY <2>1, <2>5 DEF RecvResume
  <2> QED  BY <2>2, <2>3, <2>4, <2>5 DEF ReadData
<1>2. proc[c] = "up" /\ OnlyRounds(down'[c]) /\ AtMostOnce(down'[c], "PROGRAM")
      /\ UNCHANGED <<sig, up>>
  <2>1. CASE RecvCode(c)
    BY <2>1, ReceiveRound DEF RecvCode
  <2>2. CASE RecvProgram(c)
    BY <2>2, ReceiveRound DEF RecvProgram, RunProblem, Abort
  <2>3. CASE RecvGenomes(c)
    BY <2>3, ReceiveRound DEF RecvGenomes, Abort
  <2> QED  BY <1>1, <2>1, <2>2, <2>3
<1>3. Queues(c)'
  BY <1>2 DEF Queues
<1>4. link[c] # "none"
  BY <1>2 DEF Process
<1>5. ASSUME UNCHANGED <<thread, status, proc, calledDone, link>>, Pending(c)' <=> Pending(c)
      PROVE  Proceeds(c)
  BY <1>2, <1>3, <1>4, <1>5
     DEF Proceeds, Engaged, Seen, IsLost, Works, Phase, Process, Busy, Completing, Gone
<1>6. ASSUME Abort(c), Pending(c)' => Pending(c)
      PROVE  Proceeds(c)
  <2>1. /\ proc'[c] = "aborted" /\ link'[c] = "closed"
        /\ UNCHANGED <<thread, status, calledDone>>
    BY <1>6 DEF Abort, workerVars, Inv, ServerInv, NetTypeOK, ClientTypeOK
  <2> QED  BY <1>2, <1>3, <1>4, <1>6, <2>1
           DEF Proceeds, Engaged, Seen, IsLost, Works, Phase, Process, Busy, Completing, Gone
<1>7. CASE RecvCode(c)
  <2>1. Pending(c)' <=> Pending(c)
    BY <1>7, ReceiveRound DEF RecvCode
  <2> QED  BY <1>5, <1>7, <2>1 DEF RecvCode, workerVars
<1>8. CASE RecvGenomes(c)
  <2>1. Pending(c)' <=> Pending(c)
    BY <1>8, ReceiveRound DEF RecvGenomes
  <2> QED  BY <1>5, <1>6, <1>8, <2>1 DEF RecvGenomes, mainVars
<1>9. CASE RecvProgram(c)
  <2>1. Pending(c) /\ ~ Pending(c)'
    BY <1>9, ReceiveRound DEF RecvProgram
  <2>2. CASE Abort(c)
    BY <1>6, <2>1, <2>2
  <2>3. CASE ~ Abort(c)
    <3>1. /\ status'[c] = "RUN" /\ calledDone'[c] = FALSE /\ thread'[c] \in {"first", "tail"}
          /\ UNCHANGED <<proc, link>>
      BY <1>9, <2>3 DEF RecvProgram, RunProblem, RunEntry, Inv, ClientTypeOK
    <3> QED  BY <1>2, <1>3, <1>4, <2>1, <3>1, HasFinishStatus
             DEF Proceeds, Engaged, Seen, IsLost, Works, Phase, Process, Busy, Completing,
                 Gone
  <2> QED  BY <2>2, <2>3
<1> QED  BY <1>1, <1>7, <1>8, <1>9

\* A message of c to the server.
LEMMA SendUpRound ==
    ASSUME Inv, NEW c \in Clients, Queues(c), NEW m \in UpMsg, SendUp(c, m),
           m.msg = "STATUS" => m.status \in {"RUN", "FINISH"} /\ ~ HasFinish(up[c])
    PROVE  /\ StatusOrder(up'[c])
           /\ \A kind : Has(up'[c], kind) <=>
                            Has(up[c], kind) \/ (link[c] = "open" /\ m.msg = kind)
           /\ HasFinish(up'[c]) <=> HasFinish(up[c]) \/ (link[c] = "open" /\ IsFinish(m))
           /\ FinishFirst(up'[c]) <=>
                  \/ FinishFirst(up[c])
                  \/ link[c] = "open" /\ IsFinish(m) /\ ~ Has(up[c], "DELETE")
           /\ link[c] = "closed" => up'[c] = up[c]
<1>1. up[c] \in Seq(UpMsg) /\ up'[c] = IF link[c] = "open" THEN Append(up[c], m) ELSE up[c]
  BY DEF SendUp, Sent, Inv, ServerInv, NetTypeOK
<1>2. CASE link[c] # "open"
  BY <1>1, <1>2 DEF Queues
<1>3. CASE link[c] = "open"
  <2>1. up'[c] = Append(up[c], m) /\ StatusOrder(up[c])
    BY <1>1, <1>3 DEF Queues
  <2>2. /\ StatusOrder(Append(up[c], m))
        /\ HasFinish(Append(up[c], m)) <=> HasFinish(up[c]) \/ IsFinish(m)
    BY <1>1, <2>1, StatusAppend
  <2>3. FinishFirst(Append(up[c], m)) <=>
            FinishFirst(up[c]) \/ (IsFinish(m) /\ ~ Has(up[c], "DELETE"))
    BY <1>1, FinishFirstAppend
  <2>4. ASSUME NEW kind
        PROVE  Has(Append(up[c], m), kind) <=> Has(up[c], kind) \/ m.msg = kind
    BY <1>1, HasAppend
  <2> QED  BY <1>3, <2>1, <2>2, <2>3, <2>4
<1> QED  BY <1>2, <1>3

\* A signal of the worker reaches its slot.
LEMMA DeliverRound ==
    ASSUME Inv, NEW c \in Clients, Queues(c), NEW kind, Deliver(c, kind)
    PROVE  /\ proc[c] = "up" /\ sig[c] # <<>> /\ Head(sig[c]) \in Signal
           /\ Head(sig[c]).msg = kind /\ CompletedIsLast(sig'[c])
           /\ \A k : Has(sig[c], k) <=> Has(sig'[c], k) \/ kind = k
           /\ kind = "completed" => sig'[c] = <<>>
<1>1. /\ sig[c] \in Seq(Signal) /\ sig[c] # <<>> /\ sig'[c] = Tail(sig[c])
      /\ Head(sig[c]).msg = kind /\ proc[c] = "up"
  BY DEF Deliver, Inv, ClientTypeOK
<1>2. Head(sig[c]) \in Signal
  BY <1>1, HeadTailProperties
<1>3. CompletedIsLast(sig'[c]) /\ (kind = "completed" => sig'[c] = <<>>)
  BY <1>1, CompletedTail DEF Queues
<1>4. ASSUME NEW k PROVE Has(sig[c], k) <=> Has(sig'[c], k) \/ kind = k
  BY <1>1, HasTail
<1> QED  BY <1>1, <1>2, <1>3, <1>4

LEMMA HandleSignalProceeds ==
    ASSUME Inv, NEW c \in Clients, ClientRound(c), HandleSignal(c)
    PROVE  Proceeds(c)
<1> USE DEF ClientRound
<1>1. /\ link[c] # "none" /\ proc[c] = "up" /\ UNCHANGED <<proc, link, down, thread>>
      /\ OnlyRounds(down[c])' /\ AtMostOnce(down[c], "PROGRAM")'
  <2>1. proc[c] = "up" /\ UNCHANGED <<proc, link, down, thread>>
    BY DEF HandleSignal, RequestGenomesSlot, SendGenomesSlot, NewMinimumSlot, EndThread,
           Deliver, mainVars, workerVars
  <2>2. link[c] # "none"
    BY <2>1 DEF Process
  <2> QED  BY <2>1, <2>2 DEF Queues
<1>2. CASE RequestGenomesSlot(c) \/ SendGenomesSlot(c)
  <2>1. PICK m \in UpMsg : SendUp(c, m) /\ m.msg \in {"ASKGENOMES", "SENDGENOMES"}
    <3>1. CASE RequestGenomesSlot(c)
      <4>1. [msg |-> "ASKGENOMES"] \in UpMsg
        BY DEF UpMsg, PlainUp
      <4> QED  BY <3>1, <4>1 DEF RequestGenomesSlot
    <3>2. CASE SendGenomesSlot(c)
      <4>1. sig[c] # <<>>
        BY <3>2 DEF SendGenomesSlot, Deliver
      <4>2. codeBytes[c] \in Problems
        BY <4>1, InvTypes
      <4>3. [msg |-> "SENDGENOMES", problem |-> codeBytes[c]] \in UpMsg
        BY <4>2 DEF UpMsg
      <4> QED  BY <3>2, <4>3 DEF SendGenomesSlot
    <3> QED  BY <1>2, <3>1, <3>2
  <2>2. /\ StatusOrder(up'[c]) /\ (HasFinish(up'[c]) <=> HasFinish(up[c]))
        /\ Has(up'[c], "STATUS") <=> Has(up[c], "STATUS")
        /\ Has(up'[c], "DELETE") <=> Has(up[c], "DELETE")
        /\ FinishFirst(up'[c]) <=> FinishFirst(up[c])
        /\ link[c] = "closed" => up'[c] = up[c]
    BY <2>1, SendUpRound DEF IsFinish
  <2>3. PICK kind \in {"requestGenomes", "sendGenomes"} : Deliver(c, kind)
    BY <1>2 DEF RequestGenomesSlot, SendGenomesSlot
  <2>4. /\ CompletedIsLast(sig'[c])
        /\ Has(sig'[c], "completed") <=> Has(sig[c], "completed")
        /\ Has(sig'[c], "newMinimum") <=> Has(sig[c], "newMinimum")
    BY <2>3, DeliverRound
  <2>5. UNCHANGED <<status, calledDone>>
    BY <1>2 DEF RequestGenomesSlot, SendGenomesSlot, mainVars
  <2> QED  BY <1>1, <2>2, <2>4, <2>5
           DEF Proceeds, Engaged, Seen, IsLost, Works, Queues, Phase, Process, Busy,
               Pending, Completing, Gone
<1>3. CASE NewMinimumSlot(c)
  <2>1. Deliver(c, "newMinimum") /\ UNCHANGED <<status, calledDone>>
    BY <1>3 DEF NewMinimumSlot
  <2> DEFINE m == [msg |-> "STATUS", status |-> status[c], minimum |-> Head(sig[c]).problem]
  <2>2. /\ CompletedIsLast(sig'[c]) /\ Has(sig[c], "newMinimum")
        /\ Has(sig'[c], "completed") <=> Has(sig[c], "completed")
        /\ Has(sig'[c], "newMinimum") => Has(sig[c], "newMinimum")
        /\ Head(sig[c]) \in Signal /\ Head(sig[c]).msg = "newMinimum"
    BY <2>1, DeliverRound
  <2>3. Busy(c) \/ Completing(c)
    BY <2>2 DEF Phase
  <2>4. status[c] = "RUN" /\ ~ HasFinish(up[c]) /\ ~ Pending(c)
    BY <2>3 DEF Phase
  <2>5. Head(sig[c]).problem \in MaybeProblem
    BY <2>2 DEF Signal, MaybeProblem
  <2>6. m \in UpMsg /\ m.msg = "STATUS" /\ m.status = "RUN" /\ ~ IsFinish(m)
    BY <2>4, <2>5 DEF UpMsg, Status, IsFinish
  <2>7. SendUp(c, m)
    BY <1>3 DEF NewMinimumSlot
  <2> HIDE DEF m
  <2>8. /\ StatusOrder(up'[c]) /\ ~ HasFinish(up'[c])
        /\ Has(up'[c], "DELETE") <=> Has(up[c], "DELETE")
        /\ FinishFirst(up'[c]) <=> FinishFirst(up[c])
        /\ link[c] = "closed" => up'[c] = up[c]
    BY <2>4, <2>6, <2>7, SendUpRound
  <2> QED  BY <1>1, <2>1, <2>2, <2>3, <2>4, <2>8
           DEF Proceeds, Engaged, Seen, IsLost, Works, Queues, Phase, Process, Busy,
               Pending, Completing, Gone
<1>4. CASE EndThread(c)
  <2>1. /\ Deliver(c, "completed") /\ SendUp(c, StatusMsg(c, "FINISH"))
        /\ status'[c] = "FINISH" /\ calledDone'[c] = TRUE
    BY <1>4 DEF EndThread, Inv, ClientTypeOK
  <2>2. sig'[c] = <<>> /\ CompletedIsLast(sig'[c]) /\ Completing(c)
    BY <2>1, DeliverRound DEF Completing
  <2>3. /\ status[c] = "RUN" /\ ~ HasFinish(up[c]) /\ ~ Pending(c) /\ ~ Busy(c)
        /\ thread[c] \in {"returning", "finished"}
    BY <2>2 DEF Phase
  <2>4. StatusMsg(c, "FINISH") \in UpMsg /\ IsFinish(StatusMsg(c, "FINISH"))
    BY InvTypes DEF StatusMsg, UpMsg, Status, IsFinish
  <2>5. StatusMsg(c, "FINISH").status = "FINISH" /\ StatusMsg(c, "FINISH").msg = "STATUS"
    BY <2>4 DEF IsFinish
  <2>6. /\ StatusOrder(up'[c])
        /\ Has(up'[c], "DELETE") <=> Has(up[c], "DELETE")
        /\ FinishFirst(up'[c]) <=>
               FinishFirst(up[c]) \/ (link[c] = "open" /\ ~ Has(up[c], "DELETE"))
        /\ link[c] = "closed" => up'[c] = up[c]
    BY <2>1, <2>3, <2>4, <2>5, SendUpRound
  <2>7. \A kind : ~ Has(<<>>, kind)
    BY DEF Has
  <2>8. link[c] \in {"open", "closed"}
    BY <1>1, InvTypes
  <2>9. IsLost(c) <=> link[c] = "closed" \/ Has(up[c], "DELETE")
    BY <1>1 DEF IsLost, Gone
  <2>10. Seen(c)
    BY <1>1, <2>1, <2>3, <2>6, <2>8, <2>9 DEF Seen, IsLost, Works, Pending, Gone
  <2> QED  BY <1>1, <2>1, <2>2, <2>3, <2>6, <2>7, <2>10
           DEF Proceeds, Engaged, Queues, Phase, Process, Busy, Pending, Completing
<1> QED  BY <1>2, <1>3, <1>4 DEF HandleSignal

\* The worker adds signals behind those it emitted before.
LEMMA EmitRound ==
    ASSUME Inv, NEW c \in Clients, NEW s \in Seq(Signal), Emit(c, s), ~ Completing(c)
    PROVE  /\ \A kind : Has(sig'[c], kind) <=> Has(sig[c], kind) \/ Has(s, kind)
           /\ ~ Has(s, "completed") => CompletedIsLast(sig'[c]) /\ ~ Completing(c)'
<1>1. sig[c] \in Seq(Signal) /\ sig'[c] = sig[c] \o s
  BY DEF Emit, Inv, ClientTypeOK
<1>2. ASSUME NEW kind PROVE Has(sig'[c], kind) <=> Has(sig[c], kind) \/ Has(s, kind)
  BY <1>1, HasConcat
<1>3. ~ Has(s, "completed") => ~ Has(sig'[c], "completed")
  BY <1>2 DEF Completing
<1> QED  BY <1>2, <1>3, CompletedNone DEF Completing

\* The signals of a generation.
LEMMA GenerationRound ==
    ASSUME NEW c \in Clients, codeBytes[c] \in Problems, NEW improved \in BOOLEAN
    PROVE  /\ GenerationSignals(c, improved) \in Seq(Signal)
           /\ ~ Has(GenerationSignals(c, improved), "completed")
<1> DEFINE a == [msg |-> "sendGenomes"]
           b == [msg |-> "newMinimum", problem |-> codeBytes[c]]
<1>1. a \in Signal /\ b \in Signal /\ a.msg # "completed" /\ b.msg # "completed"
  BY DEF Signal
<1>2. /\ <<a>> \in Seq(Signal) /\ <<b>> \in Seq(Signal) /\ <<>> \in Seq(Signal)
  BY <1>1, EmptySeq
<1>3. GenerationSignals(c, improved) = <<a>> \o (IF improved THEN <<b>> ELSE <<>>)
  BY DEF GenerationSignals
<1>4. \A m : m.msg # "completed" => ~ Has(<<m>>, "completed")
  BY DEF Has
<1>5. ~ Has(<<>>, "completed")
  BY DEF Has
<1> HIDE DEF a, b
<1> DEFINE r == IF improved THEN <<b>> ELSE <<>>
<1>6. r \in Seq(Signal) /\ ~ Has(r, "completed") /\ ~ Has(<<a>>, "completed")
  BY <1>1, <1>2, <1>4, <1>5
<1>7. GenerationSignals(c, improved) = <<a>> \o r
  BY <1>3
<1> HIDE DEF r
<1>8. <<a>> \o r \in Seq(Signal)
  BY <1>2, <1>6, ConcatProperties
<1>9. ~ Has(<<a>> \o r, "completed")
  BY <1>2, <1>6, HasConcat, Zenon
<1> QED  BY <1>7, <1>8, <1>9, Zenon

LEMMA WorkerProceeds ==
    ASSUME Inv, NEW c \in Clients, ClientRound(c), Worker(c)
    PROVE  Proceeds(c)
<1> USE DEF ClientRound
<1>1. UNCHANGED <<proc, status, calledDone, down, up, link>>
  BY DEF Worker, WorkerRequest, WorkerSpin, WorkerStop, WorkerEvolve, WorkerTail,
         WorkerReturn, mainVars, netVars
<1>2. proc[c] = "up" /\ link[c] # "none"
  BY DEF Worker, WorkerRequest, WorkerSpin, WorkerStop, WorkerEvolve, WorkerTail,
         WorkerReturn, Alive, Process
<1>3. Seen(c) /\ Process(c)'
  BY <1>1, <1>2 DEF Seen, IsLost, Works, Process, Pending, Gone
<1>4. ASSUME Busy(c), Busy(c)', CompletedIsLast(sig'[c]), ~ Completing(c)'
      PROVE  Proceeds(c)
  BY <1>1, <1>3, <1>4 DEF Proceeds, Engaged, Queues, Phase, Pending, Busy
<1>5. /\ thread \in [Clients -> ThreadState]
      /\ Busy(c) => ~ Completing(c) /\ CompletedIsLast(sig[c])
      /\ thread[c] # "none" => codeBytes[c] \in Problems
  BY InvTypes DEF Inv, ClientTypeOK, Phase, Queues
<1>6. CASE WorkerRequest(c)
  <2>1. <<[msg |-> "requestGenomes"]>> \in Seq(Signal)
    BY DEF Signal
  <2>2. ~ Has(<<[msg |-> "requestGenomes"]>>, "completed")
    BY DEF Has
  <2>3. Busy(c) /\ Busy(c)' /\ Emit(c, <<[msg |-> "requestGenomes"]>>)
    BY <1>5, <1>6 DEF WorkerRequest, Goto, Busy
  <2> QED  BY <1>4, <1>5, <2>1, <2>2, <2>3, EmitRound
<1>7. CASE WorkerSpin(c) \/ WorkerStop(c)
  <2>1. Busy(c) /\ Busy(c)' /\ UNCHANGED sig
    BY <1>5, <1>7 DEF WorkerSpin, WorkerStop, Goto, Busy
  <2> QED  BY <1>4, <1>5, <2>1 DEF Completing
<1>8. CASE WorkerEvolve(c)
  <2>1. Busy(c) /\ Busy(c)' /\ thread[c] # "none"
    BY <1>5, <1>8 DEF WorkerEvolve, Goto, Busy
  <2>2. PICK improved \in BOOLEAN : Emit(c, GenerationSignals(c, improved))
    BY <1>8 DEF WorkerEvolve
  <2> QED  BY <1>4, <1>5, <2>1, <2>2, GenerationRound, EmitRound
<1>9. CASE WorkerTail(c)
  <2> DEFINE m == [msg |-> "completed"]
  <2>1. m \in Signal /\ m.msg = "completed" /\ sig[c] \in Seq(Signal)
    BY InvTypes DEF Signal
  <2>2. Busy(c) /\ thread'[c] = "returning" /\ sig'[c] = sig[c] \o <<m>>
    BY <1>5, <1>9 DEF WorkerTail, Goto, Emit, Busy, Inv, ClientTypeOK
  <2> HIDE DEF m
  <2>3. sig'[c] = Append(sig[c], m)
    BY <2>1, <2>2, AppendIsConcat, Zenon
  <2>4. CompletedIsLast(sig'[c]) /\ Has(sig'[c], "completed")
    <3>1. ~ Has(sig[c], "completed")
      BY <1>5, <2>2 DEF Completing
    <3>2. CompletedIsLast(Append(sig[c], m))
      BY <2>1, <3>1, CompletedAppend
    <3>3. Has(Append(sig[c], m), "completed")
      BY <2>1, HasAppend
    <3> QED  BY <2>3, <3>2, <3>3
  <2>5. Completing(c)'
    BY <2>4 DEF Completing
  <2> QED  BY <1>1, <1>3, <2>2, <2>4, <2>5, <1>5
           DEF Proceeds, Engaged, Queues, Phase, Pending, Busy
<1>10. CASE WorkerReturn(c)
  <2>1. thread[c] = "returning" /\ thread'[c] = "finished" /\ UNCHANGED sig
    BY <1>5, <1>10 DEF WorkerReturn, Goto
  <2> QED  BY <1>1, <1>3, <2>1
           DEF Proceeds, Engaged, Queues, Phase, Pending, Busy, Completing
<1> QED  BY <1>6, <1>7, <1>8, <1>9, <1>10 DEF Worker

\* The user of a client starts it, leaves, or its machine goes down.
LEMMA ConnectProceeds ==
    ASSUME Inv, NEW c \in Clients, ClientRound(c), Connect(c)
    PROVE  ClientRound(c)' /\ ~ Engaged(c)' /\ Seen(c)
<1> USE DEF ClientRound
<1> DEFINE m == [msg |-> "CONNECT"]
<1>1. /\ thread[c] = "none" /\ sig[c] = <<>> /\ up[c] = <<>> /\ down[c] = <<>>
      /\ proc[c] = "off" /\ link[c] = "none"
  BY DEF Connect, Process
<1>2. /\ proc'[c] = "up" /\ link'[c] = "open" /\ up'[c] = Append(up[c], m)
      /\ status'[c] = "START" /\ UNCHANGED <<thread, sig, down, calledDone>>
  BY DEF Connect, workerVars, Inv, ServerInv, NetTypeOK, ClientTypeOK
<1>3. m \in UpMsg /\ m.msg = "CONNECT" /\ up[c] \in Seq(UpMsg)
  BY InvTypes DEF UpMsg, PlainUp
<1> HIDE DEF m
<1>4. \A kind : ~ Has(<<>>, kind)
  BY DEF Has
<1>5. ~ HasFinish(up[c]) /\ ~ FinishFirst(up[c]) /\ StatusOrder(up[c])
  BY <1>1 DEF HasFinish, FinishFirst, StatusOrder
<1>6. ASSUME NEW kind PROVE Has(up'[c], kind) <=> kind = "CONNECT"
  <2>1. Has(Append(up[c], m), kind) <=> Has(up[c], kind) \/ m.msg = kind
    BY <1>3, HasAppend
  <2> QED  BY <1>1, <1>2, <1>3, <1>4, <2>1
<1>7. StatusOrder(up'[c]) /\ ~ HasFinish(up'[c]) /\ ~ FinishFirst(up'[c])
  <2>1. ~ IsFinish(m) /\ m.msg # "STATUS"
    BY <1>3 DEF IsFinish
  <2>2. StatusOrder(Append(up[c], m)) /\ ~ HasFinish(Append(up[c], m))
    BY <1>3, <1>5, <2>1, StatusAppend
  <2>3. ~ FinishFirst(Append(up[c], m))
    BY <1>3, <1>5, <2>1, FinishFirstAppend
  <2> QED  BY <1>2, <2>2, <2>3
<1>8. ~ Has(up'[c], "STATUS") /\ ~ Has(up'[c], "DELETE")
  BY <1>6
<1>9. ~ Pending(c) /\ ~ Busy(c) /\ ~ Completing(c) /\ status[c] # "RUN"
  BY <1>1, <1>4 DEF Pending, Busy, Completing, Phase
<1>10. Seen(c)
  BY <1>1, <1>2, <1>4, <1>5, <1>7, <1>8, <1>9 DEF Seen, IsLost, Works, Pending, Gone
<1> QED  BY <1>1, <1>2, <1>7, <1>8, <1>9, <1>10
         DEF Engaged, Queues, Phase, Process, Pending, Busy, Completing

LEMMA LeaveProceeds ==
    ASSUME Inv, NEW c \in Clients, ClientRound(c), NEW quits \in BOOLEAN, Leave(c, quits)
    PROVE  Proceeds(c)
<1> USE DEF ClientRound
<1> DEFINE m == [msg |-> "DELETE"]
<1>1. /\ proc[c] = "up" /\ proc'[c] \in {"up", "exited"} /\ SendUp(c, m)
      /\ UNCHANGED <<thread, sig, down, status, calledDone, link>>
  BY DEF Leave, workerVars, Inv, ClientTypeOK
<1>2. m \in UpMsg /\ m.msg = "DELETE" /\ ~ IsFinish(m)
  BY DEF UpMsg, PlainUp, IsFinish
<1> HIDE DEF m
<1>3. /\ StatusOrder(up'[c]) /\ (HasFinish(up'[c]) <=> HasFinish(up[c]))
      /\ Has(up'[c], "STATUS") <=> Has(up[c], "STATUS")
      /\ link[c] = "open" => Has(up'[c], "DELETE")
      /\ FinishFirst(up'[c]) <=> FinishFirst(up[c])
      /\ link[c] = "closed" => up'[c] = up[c]
  BY <1>1, <1>2, SendUpRound
<1>4. link[c] \in {"open", "closed"}
  BY <1>1, InvTypes DEF Process
<1>5. Seen(c)
  BY <1>1, <1>3, <1>4 DEF Seen, IsLost
<1> QED  BY <1>1, <1>3, <1>4, <1>5
         DEF Proceeds, Engaged, Queues, Phase, Process, Pending, Busy, Completing

LEMMA KillProceeds ==
    ASSUME Inv, NEW c \in Clients, ClientRound(c), Kill(c)
    PROVE  Proceeds(c)
<1> USE DEF ClientRound
<1>1. /\ proc'[c] = "killed" /\ link'[c] = "closed"
      /\ UNCHANGED <<thread, sig, down, status, calledDone, up>>
  BY DEF Kill, workerVars, Inv, ServerInv, NetTypeOK, ClientTypeOK
<1> QED  BY <1>1 DEF Proceeds, Engaged, Queues, Phase, Process, Pending, Busy, Completing,
                     Seen, IsLost

-----------------------------------------------------------------------------
(* One step of a client, and the others.                                   *)

\* What a client keeps that does not take part in a step.
SameSide(d) ==
    /\ thread'[d] = thread[d] /\ sig'[d] = sig[d] /\ status'[d] = status[d]
    /\ proc'[d] = proc[d] /\ calledDone'[d] = calledDone[d]

SameQueues(d) == down'[d] = down[d] /\ up'[d] = up[d] /\ link'[d] = link[d]

LEMMA RoundFrame ==
    ASSUME NEW d, ClientRound(d), SameSide(d), SameQueues(d)
    PROVE  ClientRound(d)' /\ (Engaged(d)' <=> Engaged(d))
           /\ (IsLost(d)' <=> IsLost(d)) /\ (Works(d)' <=> Works(d))
BY DEF SameSide, SameQueues, ClientRound, Queues, Phase, Process, Engaged, Pending, Busy,
       Completing, IsLost, Works, Gone

LEMMA OthersKeep ==
    ASSUME Inv, NEW c \in Clients, ClientAct(c), NEW d \in Clients \ {c}
    PROVE  SameSide(d) /\ SameQueues(d)
<1> USE DEF Inv, ServerInv, NetTypeOK, ClientTypeOK, SameSide, SameQueues, mainVars,
            workerVars, netVars
<1>1. \/ Connect(c) \/ Leave(c, TRUE) \/ Leave(c, FALSE) \/ Kill(c)
      \/ ReadData(c) \/ HandleSignal(c) \/ Unblock(c) \/ Worker(c)
  BY DEF ClientAct, ClientStep
<1>2. CASE Connect(c) \/ Leave(c, TRUE) \/ Leave(c, FALSE) \/ Kill(c)
  BY <1>2 DEF Connect, Leave, Kill, SendUp, Sent
<1>3. CASE ReadData(c)
  <2>1. CASE RecvCode(c) \/ RecvTerminate(c) \/ RecvPause(c) \/ RecvResume(c)
    BY <2>1 DEF RecvCode, RecvTerminate, RecvPause, RecvResume, Receive
  <2>2. CASE RecvProgram(c)
    BY <2>2 DEF RecvProgram, RunProblem, Abort, Receive
  <2>3. CASE RecvGenomes(c) \/ RecvAskStatus(c)
    BY <2>3 DEF RecvGenomes, RecvAskStatus, Abort, Receive, SendUp, Sent
  <2> QED  BY <1>3, <2>1, <2>2, <2>3 DEF ReadData
<1>4. CASE HandleSignal(c) \/ Unblock(c)
  BY <1>4 DEF HandleSignal, RequestGenomesSlot, SendGenomesSlot, NewMinimumSlot,
              EndThread, Unblock, Deliver, SendUp, Sent
<1>5. CASE Worker(c)
  BY <1>5 DEF Worker, WorkerRequest, WorkerSpin, WorkerStop, WorkerEvolve, WorkerTail,
              WorkerReturn, Goto, Emit
<1> QED  BY <1>1, <1>2, <1>3, <1>4, <1>5

\* Every step of a client keeps its part of the invariant; a client that is no
\* concern of the server before is none after.
LEMMA ClientActProceeds ==
    ASSUME Inv, NEW c \in Clients, ClientRound(c), ClientAct(c)
    PROVE  /\ ClientRound(c)' /\ Seen(c)
           /\ Engaged(c)' => Engaged(c)
           /\ link[c] = "closed" => link'[c] = "closed" /\ up'[c] = up[c]
<1>1. ~ Unblock(c)
  BY DEF Unblock, ClientRound, Process
<1>2. CASE Connect(c)
  <2>1. link[c] # "closed"
    BY <1>2 DEF Connect, ClientRound, Process
  <2> QED  BY <1>2, <2>1, ConnectProceeds
<1>3. CASE ~ Connect(c)
  <2>1. Leave(c, TRUE) \/ Leave(c, FALSE) \/ Kill(c) \/ ReadData(c) \/ HandleSignal(c)
        \/ Worker(c)
    BY <1>1, <1>3 DEF ClientAct, ClientStep
  <2>2. Proceeds(c)
    BY <2>1, LeaveProceeds, KillProceeds, ReadDataProceeds, HandleSignalProceeds,
       WorkerProceeds
  <2> QED  BY <2>2 DEF Proceeds
<1> QED  BY <1>2, <1>3

-----------------------------------------------------------------------------
(* The invariant of the rounds.                                            *)

\* Whoever is engaged counts as running, unless the server has removed it.
ServerRound(c) ==
    /\ entry[c] # "gone" /\ Engaged(c) => clientStatus[c] = "RUN"
    /\ entry[c] = "none" => clientStatus[c] = "none"
    /\ entry[c] = "gone" => up[c] = <<>> /\ link[c] = "closed"
    /\ entry[c] # "zombie"

\* TotalStartedCounts, of the statuses and the counter that a slot leaves.
Counts(stat, started) ==
    LET believed == Cardinality({c \in InVector : stat[c] = "RUN"})
    IN  /\ started >= believed
        /\ (\A c \in Clients : entry[c] # "gone") => started = believed

RoundInv ==
    /\ server = "up" /\ question = <<>>
    /\ Counts(clientStatus, totalStarted)
    /\ \A c \in Clients : ClientRound(c) /\ ServerRound(c)

\* What a slot of the server leaves in the queue of the messages of d.
Reads(d) == up'[d] = up[d] \/ (up[d] # <<>> /\ up'[d] = Tail(up[d])) \/ up'[d] = <<>>

\* A slot writes no library to a client that is engaged, and nothing that does
\* not belong to a round.
WritesRound(d) ==
    \/ down'[d] = down[d]
    \/ /\ link[d] = "open"
       /\ \E m \in DownMsg : /\ down'[d] = Append(down[d], m)
                             /\ m.msg \in {"CODE", "PROGRAM", "GENOMES"}
                             /\ m.msg = "PROGRAM" =>
                                   /\ ~ Pending(d) /\ ~ Busy(d) /\ ~ Completing(d)
                                   /\ ~ Has(up'[d], "STATUS")

LEMMA ReadsRound ==
    ASSUME Inv, NEW d \in Clients, StatusOrder(up[d]), Reads(d)
    PROVE  /\ StatusOrder(up'[d])
           /\ HasFinish(up'[d]) => HasFinish(up[d])
           /\ Has(up'[d], "STATUS") => Has(up[d], "STATUS")
           /\ up[d] = <<>> => up'[d] = <<>>
<1>1. up[d] \in Seq(UpMsg)
  BY InvTypes
<1>2. CASE up'[d] = up[d]
  BY <1>2
<1>3. CASE up[d] # <<>> /\ up'[d] = Tail(up[d])
  BY <1>1, <1>3, StatusTail, HasTail
<1>4. CASE up'[d] = <<>>
  BY <1>4 DEF StatusOrder, HasFinish, Has
<1> QED  BY <1>2, <1>3, <1>4 DEF Reads

LEMMA WritesOnce ==
    ASSUME Inv, NEW d \in Clients, Queues(d), WritesRound(d)
    PROVE  /\ OnlyRounds(down'[d]) /\ AtMostOnce(down'[d], "PROGRAM")
           /\ link[d] # "open" => down'[d] = down[d]
           /\ \/ Has(down'[d], "PROGRAM") <=> Has(down[d], "PROGRAM")
              \/ /\ ~ Pending(d) /\ ~ Busy(d) /\ ~ Completing(d)
                 /\ ~ Has(up'[d], "STATUS")
<1>1. down[d] \in Seq(DownMsg) /\ OnlyRounds(down[d]) /\ AtMostOnce(down[d], "PROGRAM")
  BY InvTypes DEF Queues
<1>2. CASE down'[d] = down[d]
  BY <1>1, <1>2
<1>3. ASSUME NEW m \in DownMsg, down'[d] = Append(down[d], m), link[d] = "open",
             m.msg \in {"CODE", "PROGRAM", "GENOMES"},
             m.msg = "PROGRAM" => /\ ~ Pending(d) /\ ~ Busy(d) /\ ~ Completing(d)
                                  /\ ~ Has(up'[d], "STATUS")
      PROVE  /\ OnlyRounds(down'[d]) /\ AtMostOnce(down'[d], "PROGRAM")
             /\ \/ Has(down'[d], "PROGRAM") <=> Has(down[d], "PROGRAM")
                \/ /\ ~ Pending(d) /\ ~ Busy(d) /\ ~ Completing(d)
                   /\ ~ Has(up'[d], "STATUS")
  <2>1. OnlyRounds(down'[d])
    BY <1>1, <1>3, OnlyRoundsAppend
  <2>2. ~ Has(down[d], "PROGRAM") \/ m.msg # "PROGRAM"
    BY <1>3 DEF Pending
  <2>3. AtMostOnce(Append(down[d], m), "PROGRAM")
    BY <1>1, <2>2, OnceAppend
  <2>4. Has(Append(down[d], m), "PROGRAM") <=> Has(down[d], "PROGRAM") \/ m.msg = "PROGRAM"
    BY <1>1, HasAppend
  <2> QED  BY <1>3, <2>1, <2>3, <2>4
<1> QED  BY <1>2, <1>3 DEF WritesRound

\* The part of the invariant about d after a slot of the server.
LEMMA SlotRound ==
    ASSUME Inv, NEW d \in Clients, ClientRound(d), SameSide(d), Reads(d), WritesRound(d),
           link'[d] \in {link[d], "closed"}, link[d] = "none" => link'[d] = "none"
    PROVE  /\ ClientRound(d)'
           /\ Engaged(d)' => Engaged(d) \/ (Has(down'[d], "PROGRAM") /\ ~ Pending(d))
<1> USE DEF ClientRound, SameSide
<1>1. /\ StatusOrder(up'[d])
      /\ HasFinish(up'[d]) => HasFinish(up[d])
      /\ Has(up'[d], "STATUS") => Has(up[d], "STATUS")
      /\ up[d] = <<>> => up'[d] = <<>>
  BY ReadsRound DEF Queues
<1>2. /\ OnlyRounds(down'[d]) /\ AtMostOnce(down'[d], "PROGRAM")
      /\ link[d] # "open" => down'[d] = down[d]
      /\ \/ Has(down'[d], "PROGRAM") <=> Has(down[d], "PROGRAM")
         \/ ~ Pending(d) /\ ~ Busy(d) /\ ~ Completing(d) /\ ~ Has(up'[d], "STATUS")
  BY WritesOnce
<1>3. Queues(d)'
  BY <1>1, <1>2 DEF Queues
<1>4. Process(d)'
  BY <1>1, <1>2 DEF Process
<1>5. Phase(d)'
  BY <1>1, <1>2 DEF Phase, Pending, Busy, Completing
<1>6. Engaged(d)' => Engaged(d) \/ (Has(down'[d], "PROGRAM") /\ ~ Pending(d))
  BY <1>1 DEF Engaged, Pending, Busy, Completing
<1> QED  BY <1>3, <1>4, <1>5, <1>6

\* What makes the server wait for d, when up'[d] is what is left to be read.
Still(d) == Pending(d) \/ Busy(d) \/ Completing(d) \/ Has(up'[d], "STATUS")

LEMMA StillEngaged ==
    ASSUME Inv, NEW d \in Clients, ClientRound(d), Reads(d)
    PROVE  Still(d) => Engaged(d)
BY ReadsRound DEF Still, Engaged, ClientRound, Queues

\* A new run finds nobody of the vector at work.
LEMMA NewRunIsAlone ==
    ASSUME Inv, NEW S, NEW p, NEW stat, NEW started, Starts(S, p, stat, started), S # {},
           \A d \in Clients : /\ entry[d] # "gone" /\ Still(d) => stat[d] = "RUN"
                              /\ entry[d] = "none" => stat[d] = "none"
                              /\ entry[d] # "zombie",
           NEW d \in Clients, entry[d] # "gone"
    PROVE  ~ Still(d)
<1>1. S \in SUBSET Known /\ IsFiniteSet(InVector)
  BY VectorIsFinite DEF Starts, Inv, ServerInv, ServerTypeOK
<1>2. \A c \in InVector : stat[c] # "RUN"
  <2>1. PICK c \in S : TRUE
    OBVIOUS
  <2> QED  BY <2>1, <1>1 DEF Starts
<1>3. d \in InVector \/ entry[d] = "none"
  BY DEF Inv, ServerInv, VectorInv, ServerTypeOK, EntryState
<1> QED  BY <1>2, <1>3

\* The slots that may start a run, from the statuses and the counter they set
\* before that.
LEMMA DeskRound ==
    ASSUME Inv, server = "up", question = <<>>,
           NEW S, NEW p, NEW stat, NEW started, Starts(S, p, stat, started),
           Counts(stat, started),
           UNCHANGED <<server, client, entry, question, link, clientVars>>,
           \A d \in Clients : /\ entry[d] # "gone" /\ Still(d) => stat[d] = "RUN"
                              /\ entry[d] = "none" => stat[d] = "none"
                              /\ entry[d] = "gone" => up[d] = <<>> /\ link[d] = "closed"
                              /\ entry[d] # "zombie",
           \A d \in Clients : ClientRound(d) /\ Reads(d)
    PROVE  RoundInv'
<1>1. S \subseteq Known /\ IsFiniteSet(InVector) /\ InVector \subseteq Clients
      /\ Known \subseteq InVector
  BY VectorIsFinite DEF Starts, Inv, ServerInv, ServerTypeOK, Known
<1>2. /\ \A c \in Clients : clientStatus'[c] = IF c \in S THEN "RUN" ELSE stat[c]
      /\ \/ S = {} /\ totalStarted' = started
         \/ (\A c \in InVector : stat[c] # "RUN") /\ totalStarted' = Cardinality(S)
      /\ \A d \in Clients : down'[d] = IF d \in S /\ link[d] = "open"
                              THEN Append(down[d], [msg |-> "PROGRAM", problem |-> p])
                              ELSE down[d]
  BY DEF Starts
<1>3. Counts(clientStatus, totalStarted)'
  <2>1. InVector' = InVector
    BY DEF InVector
  <2>2. CASE S = {} /\ totalStarted' = started
    <3>1. {c \in InVector : clientStatus'[c] = "RUN"} = {c \in InVector : stat[c] = "RUN"}
      BY <1>1, <1>2, <2>2
    <3> QED  BY <2>1, <2>2, <3>1 DEF Counts
  <2>3. CASE (\A c \in InVector : stat[c] # "RUN") /\ totalStarted' = Cardinality(S)
    <3>1. {c \in InVector' : clientStatus'[c] = "RUN"} = S
      BY <1>1, <1>2, <2>1, <2>3
    <3>2. Cardinality(S) \in Nat
      BY <1>1, FS_Subset, FS_CardinalityType
    <3>3. totalStarted' = Cardinality(S) /\ totalStarted' >= Cardinality(S)
      BY <2>3, <3>2
    <3> QED  BY <3>1, <3>3 DEF Counts
  <2> QED  BY <1>2, <2>2, <2>3
<1>4. ASSUME NEW d \in Clients PROVE WritesRound(d)
  <2>1. CASE d \in S /\ link[d] = "open"
    <3>1. [msg |-> "PROGRAM", problem |-> p] \in DownMsg
      BY <2>1, DownMessages DEF Starts
    <3>2. entry[d] # "gone" /\ S # {}
      BY <1>1, <2>1 DEF Known
    <3>3. ~ Still(d)
      <4> HIDE DEF Still
      <4> QED  BY <3>2, NewRunIsAlone
    <3> QED  BY <1>2, <2>1, <3>1, <3>3 DEF WritesRound, Still
  <2> QED  BY <1>2, <2>1 DEF WritesRound
<1>5. ASSUME NEW d \in Clients PROVE ClientRound(d)' /\ ServerRound(d)'
  <2>1. SameSide(d)
    BY DEF SameSide, clientVars, mainVars, workerVars
  <2>2. ClientRound(d)'
    BY <1>4, <2>1, SlotRound
  <2>3. up[d] = <<>> => up'[d] = <<>>
    BY ReadsRound DEF ClientRound, Queues
  <2>4. entry'[d] # "gone" /\ Engaged(d)' => clientStatus'[d] = "RUN"
    <3>1. d \notin S => (Engaged(d)' => Still(d))
      BY <1>2, <2>1 DEF Engaged, Still, Pending, Busy, Completing, SameSide
    <3> QED  BY <1>2, <3>1
  <2>5. entry'[d] = "none" => clientStatus'[d] = "none"
    BY <1>1, <1>2 DEF Known
  <2> QED  BY <2>2, <2>3, <2>4, <2>5 DEF ServerRound
<1> QED  BY <1>3, <1>5 DEF RoundInv

\* The statuses and the counter that statusClientSlot sets for c.
StatusOf(c) == [clientStatus EXCEPT ![c] = Head(up[c]).status]
StartedOf(c) == StatusCount(Head(up[c]).status)

\* What DeskRound asks of them.
Fits(stat) ==
    \A d \in Clients : /\ entry[d] # "gone" /\ Still(d) => stat[d] = "RUN"
                       /\ entry[d] = "none" => stat[d] = "none"
                       /\ entry[d] = "gone" => up[d] = <<>> /\ link[d] = "closed"
                       /\ entry[d] # "zombie"

\* The counter goes down with the number of those that are believed to run.
LEMMA FinishCounts ==
    ASSUME Inv, Counts(clientStatus, totalStarted), NEW c \in InVector,
           clientStatus[c] = "RUN"
    PROVE  Counts([clientStatus EXCEPT ![c] = "FINISH"], totalStarted - 1)
<1> DEFINE old == {d \in InVector : clientStatus[d] = "RUN"}
           stat == [clientStatus EXCEPT ![c] = "FINISH"]
           new == {d \in InVector : stat[d] = "RUN"}
<1>1. IsFiniteSet(InVector) /\ InVector \subseteq Clients
      /\ clientStatus \in [Clients -> Status \cup {"none"}] /\ totalStarted \in Int
  BY VectorIsFinite DEF Inv, ServerInv, ServerTypeOK
<1>2. c \in old /\ new = old \ {c}
  BY <1>1
<1>3. IsFiniteSet(old)
  BY <1>1, FS_Subset
<1>4. Cardinality(old) \in Nat
  BY <1>3, FS_CardinalityType
<1> HIDE DEF old
<1>5. Cardinality(old \ {c}) = Cardinality(old) - 1
  BY <1>2, <1>3, FS_RemoveElement
<1>6. /\ totalStarted >= Cardinality(old)
      /\ (\A d \in Clients : entry[d] # "gone") => totalStarted = Cardinality(old)
  BY DEF Counts, old
<1>7. Cardinality(new) = Cardinality(old) - 1
  BY <1>2, <1>5
<1>8. totalStarted - 1 >= Cardinality(new)
      /\ ((\A d \in Clients : entry[d] # "gone") => totalStarted - 1 = Cardinality(new))
  <2> HIDE DEF new
  <2> QED  BY <1>1, <1>4, <1>6, <1>7
<1> QED  BY <1>8 DEF Counts

LEMMA TakeStatusDesk ==
    ASSUME Inv, RoundInv, NEW c \in Clients, TakeStatus(c), UNCHANGED clientVars
    PROVE  /\ c \in InVector /\ entry[c] # "gone"
           /\ up[c] # <<>> /\ up' = [up EXCEPT ![c] = Tail(@)]
           /\ Head(up[c]).msg = "STATUS" /\ Head(up[c]).status \in {"RUN", "FINISH"}
           /\ DeskAct(StatusOf(c), StartedOf(c))
           /\ Counts(StatusOf(c), StartedOf(c)) /\ Fits(StatusOf(c))
           /\ \A d \in Clients : Reads(d)
           /\ IsFinish(Head(up[c])) => HasFinish(up[c]) /\ ~ Still(c)
           /\ Head(up[c]).status = "RUN" => StatusOf(c) = clientStatus
<1> USE DEF RoundInv, ClientRound, ServerRound
<1>1. c \in InVector /\ entry[c] \in {"accepted", "known"} /\ up[c] # <<>>
      /\ up' = [up EXCEPT ![c] = Tail(@)] /\ Head(up[c]).msg = "STATUS"
  BY DEF TakeStatus, Take, Inv, ServerInv, VectorInv
<1>2. up[c] \in Seq(UpMsg) /\ up \in [Clients -> Seq(UpMsg)]
      /\ clientStatus \in [Clients -> Status \cup {"none"}]
  BY DEF Inv, ServerInv, NetTypeOK, ServerTypeOK
<1>3. Head(up[c]).status \in {"RUN", "FINISH"}
  BY <1>1, <1>2, StatusTail DEF Queues
<1>4. Has(up[c], "STATUS") /\ clientStatus[c] = "RUN"
  <2>1. Has(up[c], "STATUS")
    BY <1>1, <1>2, HasTail
  <2> QED  BY <1>1, <2>1 DEF Engaged
<1>5. \A d \in Clients : Reads(d)
  BY <1>1, <1>2 DEF Reads
<1>6. DeskAct(StatusOf(c), StartedOf(c))
  BY <1>1, TakeStatusRuns DEF Inv, StatusOf, StartedOf
<1>7. ASSUME NEW d \in Clients PROVE Still(d) => Engaged(d)
  BY <1>5, StillEngaged
<1>8. CASE Head(up[c]).status = "RUN"
  <2>1. StatusOf(c) = clientStatus /\ StartedOf(c) = totalStarted
    BY <1>2, <1>4, <1>8 DEF StatusOf, StartedOf, StatusCount
  <2>2. Fits(clientStatus)
    BY <1>7 DEF Fits
  <2>3. ~ IsFinish(Head(up[c]))
    BY <1>8 DEF IsFinish
  <2> QED  BY <1>1, <1>3, <1>5, <1>6, <2>1, <2>2, <2>3
<1>9. CASE Head(up[c]).status = "FINISH"
  <2>1. /\ StatusOf(c) = [clientStatus EXCEPT ![c] = "FINISH"]
        /\ StartedOf(c) = totalStarted - 1
    BY <1>9 DEF StatusOf, StartedOf, StatusCount
  <2>2. Counts(StatusOf(c), StartedOf(c))
    BY <1>1, <1>4, <2>1, FinishCounts
  <2>3. HasFinish(up[c]) /\ ~ Has(up'[c], "STATUS")
    <3>1. IsFinish(Head(up[c])) /\ up'[c] = Tail(up[c])
      BY <1>1, <1>2, <1>9 DEF IsFinish
    <3> QED  BY <1>1, <1>2, <3>1, StatusTail DEF Queues
  <2>4. ~ Still(c)
    BY <1>4, <2>3 DEF Still, Phase
  <2>5. Fits(StatusOf(c))
    BY <1>1, <1>2, <1>7, <2>1, <2>4 DEF Fits
  <2> QED  BY <1>1, <1>3, <1>5, <1>6, <1>9, <2>2, <2>3, <2>4, <2>5
<1> QED  BY <1>3, <1>8, <1>9

\* A slot sends no library to d.
SendsQuiet(d) ==
    \/ down'[d] = down[d]
    \/ /\ link[d] = "open"
       /\ \E m \in DownMsg : down'[d] = Append(down[d], m) /\ m.msg \in {"CODE", "GENOMES"}

LEMMA QuietPending ==
    ASSUME Inv, NEW d \in Clients, SendsQuiet(d)
    PROVE  Has(down'[d], "PROGRAM") <=> Pending(d)
<1>1. ASSUME NEW m \in DownMsg, down'[d] = Append(down[d], m), m.msg \in {"CODE", "GENOMES"}
      PROVE  Has(down'[d], "PROGRAM") <=> Pending(d)
  <2>1. down[d] \in Seq(DownMsg)
    BY InvTypes
  <2> QED  BY <1>1, <2>1, HasAppend DEF Pending
<1> QED  BY <1>1 DEF Pending, SendsQuiet

\* Slots that start nothing: they change no status and send no library.
LEMMA QuietRound ==
    ASSUME Inv, RoundInv, UNCHANGED <<clientStatus, clientVars>>, NEW d \in Clients,
           Reads(d), entry'[d] \in {entry[d], "accepted", "known", "gone"},
           entry'[d] = "none" \/ entry[d] # "gone" \/ entry'[d] = "gone",
           entry'[d] = "gone" => up'[d] = <<>> /\ link'[d] = "closed",
           link'[d] \in {link[d], "closed"}, link[d] = "none" => link'[d] = "none",
           SendsQuiet(d)
    PROVE  ClientRound(d)' /\ ServerRound(d)' /\ (Engaged(d)' => Engaged(d))
<1> USE DEF RoundInv, ServerRound
<1>1. SameSide(d) /\ ClientRound(d)
  BY DEF SameSide, clientVars, mainVars, workerVars
<1>2. WritesRound(d)
  BY DEF WritesRound, SendsQuiet
<1>3. Has(down'[d], "PROGRAM") => Pending(d)
  BY QuietPending
<1>4. ClientRound(d)' /\ (Engaged(d)' => Engaged(d))
  BY <1>1, <1>2, <1>3, SlotRound
<1> QED  BY <1>4

\* A message of the server to one client, on its connection.
LEMMA SentQuiet ==
    ASSUME Inv, NEW c \in Clients, NEW m \in DownMsg, SendDown(c, m), NEW d \in Clients
    PROVE  \/ down'[d] = down[d]
           \/ link[d] = "open" /\ down'[d] = Append(down[d], m)
BY DEF SendDown, Sent, Inv, ServerInv, NetTypeOK

LEMMA CountsFrame ==
    ASSUME Counts(clientStatus, totalStarted),
           UNCHANGED <<client, entry, clientStatus, totalStarted>>
    PROVE  Counts(clientStatus, totalStarted)'
BY DEF Counts, InVector

\* Messages that are no status and do not remove their sender.
LEMMA PlainTake ==
    ASSUME Inv, RoundInv, NEW c \in Clients,
           TakeConnect(c) \/ TakeGenomes(c) \/ TakeAsk(c)
    PROVE  /\ up[c] # <<>> /\ up' = [up EXCEPT ![c] = Tail(@)] /\ c \in InVector
           /\ Head(up[c]).msg \notin {"STATUS", "DELETE"}
           /\ entry[c] \in {"accepted", "known"}
           /\ UNCHANGED <<client, question, clientStatus, totalStarted, results>>
           /\ UNCHANGED <<server, link>>
           /\ \A d \in Clients : SendsQuiet(d)
<1> USE DEF Inv, ServerInv, ServerTypeOK, NetTypeOK
<1>1. /\ up[c] # <<>> /\ up' = [up EXCEPT ![c] = Tail(@)] /\ c \in InVector
      /\ entry[c] \in {"accepted", "known"} /\ Head(up[c]).msg \notin {"STATUS", "DELETE"}
      /\ UNCHANGED <<client, question, clientStatus, totalStarted, results>>
  BY DEF TakeConnect, TakeGenomes, TakeAsk, Take, desk, RoundInv, ServerRound, VectorInv
<1>2. UNCHANGED <<server, link>>
  BY <1>1 DEF TakeConnect, TakeGenomes, TakeAsk
<1>3. ASSUME NEW d \in Clients PROVE SendsQuiet(d)
  <2> USE DEF SendsQuiet
  <2>1. CASE TakeConnect(c)
    BY <2>1, SentQuiet, DownMessages DEF TakeConnect, PlainDown
  <2>2. CASE TakeGenomes(c)
    BY <2>2 DEF TakeGenomes
  <2>3. CASE TakeAsk(c)
    <3>1. OtherGenomes(c) \in SUBSET Problems
      BY VectorIsFinite DEF OtherGenomes, MaybeProblem
    <3>2. [msg |-> "GENOMES", array |-> OtherGenomes(c)] \in DownMsg
      BY <3>1, DownMessages
    <3>3. SendDown(c, [msg |-> "GENOMES", array |-> OtherGenomes(c)])
      BY <1>1, <2>3 DEF TakeAsk
    <3> QED  BY <3>2, <3>3, SentQuiet
  <2> QED  BY <2>1, <2>2, <2>3
<1> QED  BY <1>1, <1>2, <1>3

LEMMA PlainRound ==
    ASSUME Inv, RoundInv, NEW c \in Clients, UNCHANGED clientVars,
           TakeConnect(c) \/ TakeGenomes(c) \/ TakeAsk(c)
    PROVE  RoundInv'
<1> USE DEF Inv, ServerInv, ServerTypeOK, NetTypeOK
<1>1. /\ up[c] # <<>> /\ up' = [up EXCEPT ![c] = Tail(@)] /\ c \in InVector
      /\ entry[c] \in {"accepted", "known"}
      /\ UNCHANGED <<client, question, clientStatus, totalStarted>>
  BY PlainTake
<1>2. UNCHANGED <<server, link>>
  BY PlainTake
<1>3. \A d \in Clients : SendsQuiet(d)
  BY PlainTake
<1>4. \A d \in Clients : entry'[d] = entry[d] \/ (d = c /\ entry'[d] = "known")
  BY DEF TakeConnect, TakeGenomes, TakeAsk
<1>5. Counts(clientStatus, totalStarted)'
  <2>1. InVector' = InVector
    BY <1>1 DEF InVector
  <2>2. \A d \in Clients : entry'[d] = "gone" <=> entry[d] = "gone"
    BY <1>1, <1>4
  <2> QED  BY <1>1, <2>1, <2>2 DEF Counts, RoundInv
<1>6. ASSUME NEW d \in Clients PROVE ClientRound(d)' /\ ServerRound(d)'
  <2>1. Reads(d)
    BY <1>1 DEF Reads
  <2>2. /\ entry'[d] \in {entry[d], "accepted", "known", "gone"}
        /\ entry'[d] = "none" \/ entry[d] # "gone" \/ entry'[d] = "gone"
    BY <1>1, <1>4
  <2>3. entry'[d] = "gone" => up'[d] = <<>> /\ link'[d] = "closed"
    BY <1>1, <1>2, <1>4 DEF RoundInv, ServerRound
  <2> QED  BY <1>1, <1>2, <1>3, <2>1, <2>2, <2>3, QuietRound
<1> QED  BY <1>1, <1>2, <1>5, <1>6 DEF RoundInv

LEMMA DeleteRound ==
    ASSUME Inv, RoundInv, NEW c \in Clients, UNCHANGED clientVars, TakeDelete(c)
    PROVE  RoundInv'
<1> USE DEF Inv, ServerInv, ServerTypeOK, NetTypeOK
<1>1. /\ entry' = [entry EXCEPT ![c] = "gone"] /\ link' = [link EXCEPT ![c] = "closed"]
      /\ up' = [up EXCEPT ![c] = <<>>] /\ removeClient(c) /\ entry[c] # "none"
      /\ UNCHANGED <<server, question, clientStatus, totalStarted, down>>
  BY DEF TakeDelete, desk
<1>2. Counts(clientStatus, totalStarted)'
  <2>1. InVector' = InVector \ {c}
    BY <1>1, RemoveClientVector
  <2> DEFINE old == {d \in InVector : clientStatus[d] = "RUN"}
             new == {d \in InVector \ {c} : clientStatus[d] = "RUN"}
  <2>2. IsFiniteSet(old) /\ new \subseteq old
    BY VectorIsFinite, FS_Subset
  <2> HIDE DEF old, new
  <2>3. Cardinality(old) \in Nat /\ Cardinality(new) \in Nat
        /\ Cardinality(new) <= Cardinality(old)
    BY <2>2, FS_Subset, FS_CardinalityType
  <2>4. totalStarted >= Cardinality(old)
    BY DEF RoundInv, Counts, old
  <2>5. totalStarted' >= Cardinality(new)
    BY <1>1, <2>3, <2>4
  <2>6. entry'[c] = "gone"
    BY <1>1
  <2> QED  BY <1>1, <2>1, <2>5, <2>6 DEF Counts, new
<1>3. ASSUME NEW d \in Clients PROVE ClientRound(d)' /\ ServerRound(d)'
  <2>1. Reads(d) /\ SendsQuiet(d)
    BY <1>1 DEF Reads, SendsQuiet
  <2>2. /\ entry'[d] \in {entry[d], "accepted", "known", "gone"}
        /\ entry'[d] = "none" \/ entry[d] # "gone" \/ entry'[d] = "gone"
    BY <1>1
  <2>3. entry'[d] = "gone" => up'[d] = <<>> /\ link'[d] = "closed"
    BY <1>1 DEF RoundInv, ServerRound
  <2>4. link'[d] \in {link[d], "closed"} /\ (link[d] = "none" => link'[d] = "none")
    BY <1>1 DEF Connected
  <2> QED  BY <1>1, <2>1, <2>2, <2>3, <2>4, QuietRound
<1> QED  BY <1>1, <1>2, <1>3 DEF RoundInv

LEMMA AcceptRound ==
    ASSUME Inv, RoundInv, NEW c \in Clients, UNCHANGED clientVars, Accept(c)
    PROVE  RoundInv'
<1> USE DEF Inv, ServerInv, ServerTypeOK, NetTypeOK
<1>1. /\ entry' = [entry EXCEPT ![c] = "accepted"] /\ entry[c] = "none"
      /\ UNCHANGED <<server, question, clientStatus, totalStarted, down, up, link>>
  BY DEF Accept, desk, netVars
<1>2. VectorInv'
  BY AcceptVector
<1>3. Counts(clientStatus, totalStarted)'
  <2>1. clientStatus[c] # "RUN"
    BY <1>1 DEF RoundInv, ServerRound
  <2>2. {d \in InVector' : clientStatus'[d] = "RUN"} = {d \in InVector : clientStatus[d] = "RUN"}
    BY <1>1, <1>2, <2>1 DEF VectorInv
  <2>3. \A d \in Clients : entry'[d] = "gone" <=> entry[d] = "gone"
    BY <1>1
  <2>4. Counts(clientStatus, totalStarted) /\ totalStarted' = totalStarted
    BY <1>1 DEF RoundInv
  <2> HIDE DEF Inv, ServerInv, ServerTypeOK, NetTypeOK
  <2> QED  BY <2>2, <2>3, <2>4 DEF Counts
<1>4. ASSUME NEW d \in Clients PROVE ClientRound(d)' /\ ServerRound(d)'
  <2>1. Reads(d) /\ SendsQuiet(d)
    BY <1>1 DEF Reads, SendsQuiet
  <2>2. /\ entry'[d] \in {entry[d], "accepted", "known", "gone"}
        /\ entry'[d] = "none" \/ entry[d] # "gone" \/ entry'[d] = "gone"
    BY <1>1
  <2>3. entry'[d] = "gone" => up'[d] = <<>> /\ link'[d] = "closed"
    BY <1>1 DEF RoundInv, ServerRound
  <2> QED  BY <1>1, <2>1, <2>2, <2>3, QuietRound
<1> QED  BY <1>1, <1>3, <1>4 DEF RoundInv

LEMMA StatusRound ==
    ASSUME Inv, RoundInv, NEW c \in Clients, UNCHANGED clientVars, TakeStatus(c)
    PROVE  RoundInv'
<1>1. /\ DeskAct(StatusOf(c), StartedOf(c)) /\ Counts(StatusOf(c), StartedOf(c))
      /\ Fits(StatusOf(c)) /\ \A d \in Clients : Reads(d)
  BY TakeStatusDesk
<1>2. PICK S \in SUBSET Known, p \in MaybeProblem : Starts(S, p, StatusOf(c), StartedOf(c))
  BY <1>1 DEF DeskAct
<1>3. UNCHANGED <<server, client, entry, question, link, clientVars>>
  BY DEF TakeStatus
<1>4. server = "up" /\ question = <<>> /\ \A d \in Clients : ClientRound(d)
  BY DEF RoundInv
<1> QED  BY <1>1, <1>2, <1>3, <1>4, DeskRound DEF Fits

\* Of the buttons, OnlyRuns leaves two.
LEMMA OnlyRunsUser ==
    ASSUME OnlyRuns, RoundInv, User
    PROVE  LoadScript \/ CloseBox \/ ClickRun \/ \E p \in Problems : ClickActivate(p)
BY DEF OnlyRuns, RoundInv, User, ClickTotalStatus, ClickQuit, ClickStatus, ClickPause,
       ClickTerminate, AnswerNo, AnswerYes, AnswerYesOutOfRange, Click

\* The user finds the statuses as the invariant says.
LEMMA UserDesk ==
    ASSUME Inv, RoundInv, UNCHANGED up
    PROVE  Fits(clientStatus) /\ \A d \in Clients : Reads(d)
<1>1. \A d \in Clients : Reads(d)
  BY DEF Reads
<1>2. \A d \in Clients : Still(d) => Engaged(d)
  BY <1>1, StillEngaged DEF RoundInv
<1> QED  BY <1>1, <1>2 DEF Fits, RoundInv, ServerRound

LEMMA UserActRound ==
    ASSUME OnlyRuns, Inv, RoundInv, UserAct
    PROVE  RoundInv'
<1>1. UNCHANGED clientVars /\ User
  BY DEF UserAct
<1>2. CASE LoadScript \/ CloseBox \/ ClickRun
  <2>1. UNCHANGED <<server, client, entry, question, link, clientVars, up>>
    BY <1>1, <1>2 DEF LoadScript, CloseBox, ClickRun
  <2>2. DeskAct(clientStatus, totalStarted)
    BY <1>2, UserRuns DEF Inv
  <2>3. PICK S \in SUBSET Known, p \in MaybeProblem :
            Starts(S, p, clientStatus, totalStarted)
    BY <2>2 DEF DeskAct
  <2>4. Fits(clientStatus) /\ \A d \in Clients : Reads(d)
    BY <2>1, UserDesk
  <2>5. /\ server = "up" /\ question = <<>> /\ Counts(clientStatus, totalStarted)
        /\ \A d \in Clients : ClientRound(d)
    BY DEF RoundInv
  <2> QED  BY <2>1, <2>3, <2>4, <2>5, DeskRound DEF Fits
<1>3. ASSUME NEW p \in Problems, ClickActivate(p) PROVE RoundInv'
  <2>1. /\ UNCHANGED <<server, client, entry, question, clientStatus, totalStarted>>
        /\ UNCHANGED <<down, up, link>>
    BY <1>3 DEF ClickActivate, netVars
  <2>2. Counts(clientStatus, totalStarted)'
    BY <2>1, CountsFrame DEF RoundInv
  <2>3. ASSUME NEW d \in Clients PROVE ClientRound(d)' /\ ServerRound(d)'
    <3>1. entry[d] = "gone" => up[d] = <<>> /\ link[d] = "closed"
      BY DEF RoundInv, ServerRound
    <3>2. Reads(d) /\ SendsQuiet(d)
      BY <2>1 DEF Reads, SendsQuiet
    <3> QED  BY <1>1, <2>1, <3>1, <3>2, QuietRound
  <2> QED  BY <2>1, <2>2, <2>3 DEF RoundInv
<1> QED  BY <1>1, <1>2, <1>3, OnlyRunsUser

LEMMA ClientActRound ==
    ASSUME Inv, RoundInv, NEW c \in Clients, ClientAct(c)
    PROVE  RoundInv'
<1>1. UNCHANGED <<server, client, entry, question, clientStatus, totalStarted>>
  BY DEF ClientAct, serverVars
<1>2. Counts(clientStatus, totalStarted)'
  BY <1>1, CountsFrame DEF RoundInv
<1>3. ASSUME NEW d \in Clients PROVE ClientRound(d)' /\ ServerRound(d)'
  <2>1. ClientRound(d) /\ ServerRound(d)
    BY DEF RoundInv
  <2>2. /\ ClientRound(d)' /\ (Engaged(d)' => Engaged(d))
        /\ link[d] = "closed" => link'[d] = "closed" /\ up'[d] = up[d]
    <3>1. CASE d = c
      BY <2>1, <3>1, ClientActProceeds
    <3>2. CASE d # c
      <4>1. SameSide(d) /\ SameQueues(d)
        BY <3>2, OthersKeep
      <4> QED  BY <2>1, <4>1, RoundFrame DEF SameQueues
    <3> QED  BY <3>1, <3>2
  <2> QED  BY <1>1, <2>1, <2>2 DEF ServerRound
<1> QED  BY <1>1, <1>2, <1>3 DEF RoundInv

LEMMA InitRound == Init => RoundInv
<1> SUFFICES ASSUME Init PROVE RoundInv
  OBVIOUS
<1>1. /\ server = "up" /\ question = <<>> /\ client = <<>> /\ totalStarted = 0
      /\ \A c \in Clients : entry[c] = "none" /\ clientStatus[c] = "none"
  BY DEF Init, ServerInit
<1>2. \A c \in Clients : down[c] = <<>> /\ up[c] = <<>> /\ link[c] = "none"
  BY DEF Init, NetInit
<1>3. \A c \in Clients : /\ proc[c] = "off" /\ status[c] = "WAIT" /\ calledDone[c] = FALSE
                         /\ sig[c] = <<>> /\ thread[c] = "none"
  BY DEF Init, ClientInit
<1>4. Counts(clientStatus, totalStarted)
  <2>1. {c \in InVector : clientStatus[c] = "RUN"} = {}
    BY <1>1 DEF InVector, ToSet
  <2>2. Cardinality({}) = 0
    BY FS_EmptySet
  <2>3. Cardinality({c \in InVector : clientStatus[c] = "RUN"}) = 0
    BY <2>1, <2>2, Zenon
  <2> QED  BY <1>1, <2>3 DEF Counts
<1>5. ASSUME NEW q, q = <<>>
      PROVE  /\ \A kind : ~ Has(q, kind)
             /\ ~ HasFinish(q) /\ StatusOrder(q) /\ OnlyRounds(q) /\ CompletedIsLast(q)
             /\ AtMostOnce(q, "PROGRAM")
  BY <1>5 DEF Has, HasFinish, StatusOrder, OnlyRounds, CompletedIsLast, AtMostOnce
<1>6. ASSUME NEW c \in Clients PROVE ClientRound(c) /\ ServerRound(c)
  <2>1. Queues(c) /\ ~ Pending(c) /\ ~ Completing(c) /\ ~ Has(up[c], "STATUS")
        /\ ~ Has(sig[c], "newMinimum") /\ ~ Busy(c)
    BY <1>2, <1>3, <1>5 DEF Queues, Pending, Completing, Busy
  <2> QED  BY <1>1, <1>2, <1>3, <2>1 DEF ClientRound, Phase, Process, ServerRound, Engaged
<1> QED  BY <1>1, <1>4, <1>6 DEF RoundInv

LEMMA StepRound ==
    ASSUME OnlyRuns, Inv, RoundInv, [Next]_vars
    PROVE  RoundInv'
<1>1. CASE UNCHANGED vars
  <2>1. /\ UNCHANGED <<server, client, entry, question, clientStatus, totalStarted>>
        /\ UNCHANGED <<down, up, link>> /\ UNCHANGED clientVars
    BY <1>1 DEF vars, serverVars, netVars
  <2>2. Counts(clientStatus, totalStarted)'
    BY <2>1, CountsFrame DEF RoundInv
  <2>3. ASSUME NEW d \in Clients PROVE ClientRound(d)' /\ ServerRound(d)'
    <3>1. entry[d] = "gone" => up[d] = <<>> /\ link[d] = "closed"
      BY DEF RoundInv, ServerRound
    <3>2. Reads(d) /\ SendsQuiet(d)
      BY <2>1 DEF Reads, SendsQuiet
    <3> QED  BY <2>1, <3>1, <3>2, QuietRound
  <2> QED  BY <2>1, <2>2, <2>3 DEF RoundInv
<1>2. ASSUME NEW c \in Clients, ServerAct(c) PROVE RoundInv'
  <2>1. UNCHANGED clientVars
    BY <1>2 DEF ServerAct
  <2>2. ~ ThreadDeleted(c)
    BY DEF ThreadDeleted, RoundInv, ServerRound
  <2> QED  BY <1>2, <2>1, <2>2, AcceptRound, PlainRound, DeleteRound, StatusRound
           DEF ServerAct, ReadDataSlot
<1> QED  BY <1>1, <1>2, UserActRound, ClientActRound DEF Next

LEMMA RoundInvAlways == ASSUME OnlyRuns PROVE Spec => []RoundInv
<1>1. Init => RoundInv
  BY InitRound
<1>2. Inv /\ RoundInv /\ [Next]_vars => RoundInv'
  BY StepRound
<1> QED  BY <1>1, <1>2, InvAlways, PTL DEF Spec

-----------------------------------------------------------------------------
(* What follows for the server and the clients.                            *)

\* TotalStartedCounts: as long as the user starts rounds by the button or by
\* scripts only, totalStarted is the number of clients in the vector whose
\* status is RUN, and not less when clients were removed in between: it cannot
\* reach 0, which advances the script, while one of them is at work.
THEOREM TotalStartedAlwaysCounts ==
    ASSUME OnlyRuns
    PROVE  Spec => []TotalStartedCounts
<1>1. RoundInv => TotalStartedCounts
  <2> SUFFICES ASSUME RoundInv PROVE TotalStartedCounts
    OBVIOUS
  <2>1. Counts(clientStatus, totalStarted)
    BY DEF RoundInv
  <2> QED  BY <2>1 DEF TotalStartedCounts, Counts
<1> QED  BY <1>1, RoundInvAlways, PTL

\* DoneIsLast: a worker never evaluates the objective function of a problem
\* object after callDone() was called on it.
THEOREM DoneIsAlwaysLast ==
    ASSUME OnlyRuns
    PROVE  Spec => []DoneIsLast
<1>1. RoundInv => DoneIsLast
  BY DEF RoundInv, ClientRound, Phase, DoneIsLast
<1> QED  BY <1>1, RoundInvAlways, PTL

-----------------------------------------------------------------------------
(* The refinement of Experiment.                                           *)

\* Nothing that whoever runs experiments can see.
SameView(d) == (IsLost(d)' <=> IsLost(d)) /\ (Works(d)' <=> Works(d))

Vanishes == UNCHANGED results /\ \A d \in Clients : SameView(d)

LEMMA ViewsNext ==
    Lost' = {c \in Clients : IsLost(c)'} /\ Working' = {c \in Clients : Works(c)'}
<1>1. (Lost = {c \in Clients : IsLost(c)} /\ Working = {c \in Clients : Works(c)})'
  BY Views, PTL
<1> QED  BY <1>1

LEMMA NothingSeen ==
    ASSUME Vanishes
    PROVE  UNCHANGED <<Working, Lost, results>>
<1>1. Lost' = Lost /\ Working' = Working
  BY ViewsNext, Views DEF Vanishes, SameView
<1> QED  BY <1>1 DEF Vanishes

\* A client may drop out, or nothing is seen of its step.
LEMMA ClientActView ==
    ASSUME Inv, RoundInv, NEW c \in Clients, ClientAct(c)
    PROVE  [Rounds!Next]_<<Working, Lost, results>>
<1>1. UNCHANGED results
  BY DEF ClientAct, serverVars
<1>2. \A d \in Clients \ {c} : SameView(d)
  <2> SUFFICES ASSUME NEW d \in Clients \ {c} PROVE SameView(d)
    OBVIOUS
  <2>1. SameSide(d) /\ SameQueues(d)
    BY OthersKeep
  <2> QED  BY <2>1, RoundFrame DEF SameView, RoundInv
<1>3. Seen(c)
  BY ClientActProceeds DEF RoundInv
<1>4. CASE SameView(c)
  <2>1. Vanishes
    BY <1>1, <1>2, <1>4 DEF Vanishes
  <2> QED  BY <2>1, NothingSeen
<1>5. CASE ~ SameView(c)
  <2>1. IsLost(c)' /\ (FinishFirst(up'[c]) <=> FinishFirst(up[c]))
    BY <1>3, <1>5 DEF Seen, SameView
  <2>2. Works(c)' <=> FinishFirst(up[c])
    BY <2>1 DEF Works
  <2>3. ~ IsLost(c) /\ (Works(c)' => Works(c))
    BY <2>1, <2>2, <1>5 DEF SameView, Works
  <2>4. Lost' = Lost \cup {c} /\ c \notin Lost
    BY <1>2, <2>1, <2>3, ViewsNext, Views DEF SameView
  <2>5. Working' \in {Working, Working \ {c}}
    BY <1>2, <2>3, ViewsNext, Views DEF SameView
  <2>6. Rounds!Lose(c)
    BY <1>1, <2>4, <2>5 DEF Rounds!Lose
  <2> QED  BY <2>6 DEF Rounds!Next
<1> QED  BY <1>4, <1>5

\* Reading a message that neither reports nor removes shows nothing.
LEMMA ReadView ==
    ASSUME Inv, NEW d \in Clients, SameSide(d), link'[d] = link[d],
           Has(down'[d], "PROGRAM") <=> Pending(d),
           \/ up'[d] = up[d]
           \/ /\ up[d] # <<>> /\ up'[d] = Tail(up[d])
              /\ Head(up[d]).msg # "DELETE" /\ ~ IsFinish(Head(up[d]))
    PROVE  SameView(d)
<1>1. up[d] \in Seq(UpMsg)
  BY InvTypes
<1>2. (Has(up'[d], "DELETE") <=> Has(up[d], "DELETE"))
      /\ (FinishFirst(up'[d]) <=> FinishFirst(up[d]))
  <2>1. CASE up'[d] = up[d]
    BY <2>1
  <2>2. CASE /\ up[d] # <<>> /\ up'[d] = Tail(up[d])
             /\ Head(up[d]).msg # "DELETE" /\ ~ IsFinish(Head(up[d]))
    BY <1>1, <2>2, HasTail, FinishFirstTail
  <2> QED  BY <2>1, <2>2
<1>3. IsLost(d)' <=> IsLost(d)
  BY <1>2 DEF IsLost, Gone, SameSide
<1>4. Pending(d)' <=> Pending(d)
  BY DEF Pending
<1> QED  BY <1>2, <1>3, <1>4 DEF SameView, Works, SameSide

\* Of the server's slots only the one for statuses shows something.
LEMMA QuietView ==
    ASSUME Inv, RoundInv, NEW c \in Clients, UNCHANGED clientVars,
           \/ Accept(c) \/ TakeDelete(c)
           \/ TakeConnect(c) \/ TakeGenomes(c) \/ TakeAsk(c)
    PROVE  Vanishes
<1>1. \A d \in Clients : SameSide(d)
  BY DEF SameSide, clientVars, mainVars, workerVars
<1>2. CASE Accept(c)
  <2>1. UNCHANGED <<results, up, down, link>>
    BY <1>2 DEF Accept, netVars
  <2> QED  BY <1>1, <2>1, ReadView DEF Vanishes, Pending
<1>3. CASE TakeConnect(c) \/ TakeGenomes(c) \/ TakeAsk(c)
  <2>1. /\ up[c] # <<>> /\ up' = [up EXCEPT ![c] = Tail(@)]
        /\ Head(up[c]).msg \notin {"STATUS", "DELETE"}
        /\ UNCHANGED <<results, link>> /\ \A d \in Clients : SendsQuiet(d)
    BY <1>3, PlainTake
  <2>2. ASSUME NEW d \in Clients PROVE SameView(d)
    <3>1. Has(down'[d], "PROGRAM") <=> Pending(d)
      BY <2>1, QuietPending
    <3>2. \/ up'[d] = up[d]
          \/ /\ up[d] # <<>> /\ up'[d] = Tail(up[d])
             /\ Head(up[d]).msg # "DELETE" /\ ~ IsFinish(Head(up[d]))
      BY <2>1 DEF IsFinish, Inv, ServerInv, NetTypeOK
    <3> QED  BY <1>1, <2>1, <3>1, <3>2, ReadView
  <2> QED  BY <2>1, <2>2 DEF Vanishes
<1>4. CASE TakeDelete(c)
  <2>1. /\ UNCHANGED <<results, down>> /\ link' = [link EXCEPT ![c] = "closed"]
        /\ up' = [up EXCEPT ![c] = <<>>] /\ up[c] # <<>> /\ Head(up[c]).msg = "DELETE"
    BY <1>4 DEF TakeDelete
  <2>2. ASSUME NEW d \in Clients \ {c} PROVE SameView(d)
    <3>1. link'[d] = link[d] /\ up'[d] = up[d] /\ down'[d] = down[d]
      BY <2>1 DEF Inv, ServerInv, NetTypeOK
    <3> QED  BY <1>1, <3>1, ReadView DEF Pending
  <2>3. SameView(c)
    <3>1. Has(up[c], "DELETE") /\ ~ FinishFirst(up[c])
      BY <2>1, InvTypes, HasTail, FinishFirstTail
    <3>2. link'[c] = "closed" /\ up'[c] = <<>>
      BY <2>1 DEF Inv, ServerInv, NetTypeOK
    <3>3. ~ FinishFirst(up'[c])
      BY <3>2 DEF FinishFirst
    <3> QED  BY <3>1, <3>2, <3>3 DEF SameView, IsLost, Works
  <2> QED  BY <2>1, <2>2, <2>3 DEF Vanishes
<1> QED  BY <1>2, <1>3, <1>4

\* Whoever works keeps the server waiting.
LEMMA WorkerEngaged ==
    ASSUME RoundInv, NEW d \in Clients, Works(d)
    PROVE  entry[d] # "gone" /\ Engaged(d)
<1>1. FinishFirst(up[d]) => HasFinish(up[d])
  BY DEF FinishFirst, HasFinish
<1>2. FinishFirst(up[d]) => up[d] # <<>>
  BY DEF FinishFirst
<1> QED  BY <1>1, <1>2, HasFinishStatus
         DEF Works, IsLost, RoundInv, ServerRound, ClientRound, Phase, Engaged

\* A run that starts, as it is seen: nobody but those that were sent a library
\* may work afterwards.
LEMMA RunView ==
    ASSUME Inv, RoundInv, NEW S, NEW p, NEW stat, NEW started, Starts(S, p, stat, started),
           Fits(stat), \A d \in Clients : Reads(d),
           UNCHANGED <<link, clientVars>>, NEW d \in Clients, up'[d] = up[d]
    PROVE  /\ IsLost(d)' <=> IsLost(d)
           /\ S = {} => (Works(d)' <=> Works(d))
           /\ S # {} => ~ Works(d)
<1>1. SameSide(d) /\ link'[d] = link[d]
  BY DEF SameSide, clientVars, mainVars, workerVars
<1>2. IsLost(d)' <=> IsLost(d)
  BY <1>1 DEF IsLost, Gone, SameSide
<1>3. CASE S = {}
  <2>1. down'[d] = down[d]
    BY <1>3 DEF Starts
  <2> QED  BY <1>1, <1>2, <1>3, <2>1 DEF Works, Pending, SameSide
<1>4. CASE S # {}
  <2>1. entry[d] # "gone" => ~ Still(d)
    BY <1>4, NewRunIsAlone DEF Fits
  <2>2. Engaged(d) => Still(d)
    BY DEF Engaged, Still
  <2> QED  BY <1>2, <1>4, <2>1, <2>2, WorkerEngaged
<1> QED  BY <1>3, <1>4

\* The client whose FINISH is read.
LEMMA FinishedView ==
    ASSUME Inv, RoundInv, NEW c \in Clients, TakeStatus(c), UNCHANGED clientVars,
           IsFinish(Head(up[c]))
    PROVE  /\ IsLost(c)' <=> IsLost(c)
           /\ Works(c) /\ (down'[c] = down[c] => ~ Works(c)')
<1>1. /\ up[c] \in Seq(UpMsg) /\ up[c] # <<>> /\ up'[c] = Tail(up[c])
      /\ Head(up[c]).msg = "STATUS" /\ ~ Still(c) /\ UNCHANGED link
  BY TakeStatusDesk DEF Inv, ServerInv, NetTypeOK, TakeStatus
<1>2. SameSide(c)
  BY DEF SameSide, clientVars, mainVars, workerVars
<1>3. IsLost(c)' <=> IsLost(c)
  <2>1. Has(up'[c], "DELETE") <=> Has(up[c], "DELETE")
    BY <1>1, HasTail
  <2> QED  BY <1>1, <1>2, <2>1 DEF IsLost, Gone, SameSide
<1>4. Works(c)
  BY <1>1, FinishFirstTail DEF Works
<1>5. ~ FinishFirst(up'[c])
  <2>1. ~ Has(up'[c], "STATUS")
    BY <1>1 DEF Still
  <2>2. FinishFirst(up'[c]) => HasFinish(up'[c])
    BY DEF FinishFirst, HasFinish
  <2> QED  BY <2>1, <2>2, HasFinishStatus
<1>6. status[c] # "RUN" /\ ~ Pending(c)
  BY <1>1 DEF Still, RoundInv, ClientRound, Phase
<1>7. down'[c] = down[c] => ~ Works(c)'
  BY <1>2, <1>5, <1>6 DEF Works, Pending, SameSide
<1> QED  BY <1>3, <1>4, <1>7

LEMMA StatusView ==
    ASSUME Inv, RoundInv, NEW c \in Clients, TakeStatus(c), UNCHANGED clientVars
    PROVE  [Rounds!Next]_<<Working, Lost, results>>
<1>1. /\ c \in InVector /\ entry[c] # "gone" /\ up[c] # <<>> /\ up' = [up EXCEPT ![c] = Tail(@)]
      /\ Head(up[c]).msg = "STATUS" /\ Head(up[c]).status \in {"RUN", "FINISH"}
      /\ DeskAct(StatusOf(c), StartedOf(c)) /\ Fits(StatusOf(c))
      /\ \A d \in Clients : Reads(d)
      /\ UNCHANGED link
  BY TakeStatusDesk DEF TakeStatus
<1>2. PICK S \in SUBSET Known, p \in MaybeProblem : Starts(S, p, StatusOf(c), StartedOf(c))
  BY <1>1 DEF DeskAct
<1>3. \A d \in Clients \ {c} : up'[d] = up[d]
  BY <1>1 DEF Inv, ServerInv, NetTypeOK
<1>4. ASSUME NEW d \in Clients \ {c}
      PROVE  /\ IsLost(d)' <=> IsLost(d)
             /\ S = {} => (Works(d)' <=> Works(d))
             /\ S # {} => ~ Works(d)
  BY <1>1, <1>2, <1>3, RunView
<1>5. CASE ~ IsFinish(Head(up[c]))
  <2>1. Head(up[c]).status = "RUN"
    BY <1>1, <1>5 DEF IsFinish
  <2>2. StatusOf(c)[c] = "RUN"
    BY <2>1 DEF StatusOf, Inv, ServerInv, ServerTypeOK
  <2>3. S = {}
    BY <1>1, <1>2, <2>2 DEF Starts
  <2>4. down'[c] = down[c]
    BY <1>2, <2>3 DEF Starts
  <2>5. SameView(c)
    <3>1. SameSide(c) /\ up'[c] = Tail(up[c])
      BY <1>1 DEF SameSide, clientVars, mainVars, workerVars, Inv, ServerInv, NetTypeOK
    <3> QED  BY <1>1, <1>5, <2>4, <3>1, ReadView DEF Pending
  <2>6. UNCHANGED results
    BY <1>1, <2>1 DEF TakeStatus
  <2>7. Vanishes
    BY <1>4, <2>3, <2>5, <2>6 DEF Vanishes, SameView
  <2> QED  BY <2>7, NothingSeen
<1>6. CASE IsFinish(Head(up[c]))
  <2>1. /\ IsLost(c)' <=> IsLost(c)
        /\ Works(c) /\ (down'[c] = down[c] => ~ Works(c)')
    BY <1>6, FinishedView
  <2>2. UNCHANGED Lost
    BY <1>4, <2>1, Views, ViewsNext
  <2>3. Rounds!FileOne(c)
    <3>1. results' = [results EXCEPT ![c][activeProblem] = @ + 1]
      BY <1>1, <1>6 DEF TakeStatus, FileResult, IsFinish
    <3>2. activeProblem \in MaybeProblem
      BY DEF Inv, ServerInv, ServerTypeOK
    <3> QED  BY <3>1, <3>2 DEF Rounds!FileOne
  <2>4. CASE S = {}
    <3>1. down'[c] = down[c]
      BY <1>2, <2>4 DEF Starts
    <3>2. c \in Working /\ Working' = Working \ {c}
      BY <1>4, <2>1, <2>4, <3>1, Views, ViewsNext
    <3>3. Rounds!File(c)
      BY <2>2, <2>3, <3>2 DEF Rounds!File
    <3> QED  BY <3>3 DEF Rounds!Next
  <2>5. CASE S # {}
    <3>1. Working = {c} /\ Working' \in SUBSET Clients
      BY <1>4, <2>1, <2>5, Views, ViewsNext
    <3>2. Rounds!FileAndStart(c, Working')
      BY <2>2, <2>3, <3>1 DEF Rounds!FileAndStart
    <3> QED  BY <3>1, <3>2 DEF Rounds!Next
  <2> QED  BY <2>4, <2>5
<1> QED  BY <1>5, <1>6

LEMMA UserView ==
    ASSUME OnlyRuns, Inv, RoundInv, UserAct
    PROVE  [Rounds!Next]_<<Working, Lost, results>>
<1>1. UNCHANGED clientVars /\ User
  BY DEF UserAct
<1>2. CASE LoadScript \/ CloseBox \/ ClickRun
  <2>1. UNCHANGED <<link, clientVars, up, results>>
    BY <1>1, <1>2 DEF LoadScript, CloseBox, ClickRun
  <2>2. DeskAct(clientStatus, totalStarted)
    BY <1>2, UserRuns DEF Inv
  <2>3. PICK S \in SUBSET Known, p \in MaybeProblem :
            Starts(S, p, clientStatus, totalStarted)
    BY <2>2 DEF DeskAct
  <2>4. Fits(clientStatus) /\ \A d \in Clients : Reads(d)
    BY <2>1, UserDesk
  <2>5. ASSUME NEW d \in Clients
        PROVE  /\ IsLost(d)' <=> IsLost(d)
               /\ S = {} => (Works(d)' <=> Works(d))
               /\ S # {} => ~ Works(d)
    BY <2>1, <2>3, <2>4, RunView
  <2>6. CASE S = {}
    <3>1. Vanishes
      BY <2>1, <2>5, <2>6 DEF Vanishes, SameView
    <3> QED  BY <3>1, NothingSeen
  <2>7. CASE S # {}
    <3>1. Working = {} /\ Working' \in SUBSET Clients /\ UNCHANGED <<Lost, results>>
      BY <2>1, <2>5, <2>7, Views, ViewsNext
    <3>2. Rounds!Start(Working')
      BY <3>1 DEF Rounds!Start
    <3> QED  BY <3>1, <3>2 DEF Rounds!Next
  <2> QED  BY <2>6, <2>7
<1>3. ASSUME NEW p \in Problems, ClickActivate(p)
      PROVE  [Rounds!Next]_<<Working, Lost, results>>
  <2>1. UNCHANGED <<down, up, link, results>>
    BY <1>3 DEF ClickActivate, netVars
  <2>2. \A d \in Clients : SameSide(d)
    BY <1>1 DEF SameSide, clientVars, mainVars, workerVars
  <2>3. Vanishes
    BY <2>1, <2>2, ReadView DEF Vanishes, Pending
  <2> QED  BY <2>3, NothingSeen
<1> QED  BY <1>1, <1>2, <1>3, OnlyRunsUser

LEMMA StepView ==
    ASSUME OnlyRuns, Inv, RoundInv, [Next]_vars
    PROVE  [Rounds!Next]_<<Working, Lost, results>>
<1>1. CASE UNCHANGED vars
  <2>1. UNCHANGED <<down, up, link, results, clientVars>>
    BY <1>1 DEF vars, serverVars, netVars
  <2>2. \A d \in Clients : SameSide(d)
    BY <2>1 DEF SameSide, clientVars, mainVars, workerVars
  <2>3. Vanishes
    BY <2>1, <2>2, ReadView DEF Vanishes, Pending
  <2> QED  BY <2>3, NothingSeen
<1>2. ASSUME NEW c \in Clients, ServerAct(c)
      PROVE  [Rounds!Next]_<<Working, Lost, results>>
  <2>1. UNCHANGED clientVars
    BY <1>2 DEF ServerAct
  <2>2. ~ ThreadDeleted(c)
    BY DEF ThreadDeleted, RoundInv, ServerRound
  <2>3. CASE TakeStatus(c)
    BY <2>1, <2>3, StatusView
  <2>4. CASE ~ TakeStatus(c)
    <3>1. Vanishes
      BY <1>2, <2>1, <2>2, <2>4, QuietView DEF ServerAct, ReadDataSlot
    <3> QED  BY <3>1, NothingSeen
  <2> QED  BY <2>3, <2>4
<1> QED  BY <1>1, <1>2, UserView, ClientActView DEF Next

\* RoundsAreSequential: as long as the user starts rounds by the button or by
\* scripts only, a round starts when no client works on an earlier one, every
\* client that takes part files exactly one result, nothing else is filed, and a
\* client that leaves or dies files nothing after what it had already sent.  So
\* totalStarted, the statuses of the vector, the two places that advance the
\* script and the queues in between implement Experiment.
THEOREM ImplementsExperiment ==
    ASSUME OnlyRuns
    PROVE  Spec => RoundsAreSequential
<1>1. Init => Rounds!Init
  <2> SUFFICES ASSUME Init PROVE Rounds!Init
    OBVIOUS
  <2>1. \A c \in Clients : /\ down[c] = <<>> /\ up[c] = <<>> /\ link[c] = "none"
                           /\ proc[c] = "off" /\ status[c] = "WAIT"
    <3>1. \A c \in Clients : down[c] = <<>> /\ up[c] = <<>> /\ link[c] = "none"
      BY DEF Init, NetInit
    <3>2. \A c \in Clients : proc[c] = "off" /\ status[c] = "WAIT"
      BY DEF Init, ClientInit
    <3> QED  BY <3>1, <3>2
  <2>2. ASSUME NEW c \in Clients PROVE ~ IsLost(c) /\ ~ Works(c)
    <3>1. ~ Has(up[c], "DELETE") /\ ~ FinishFirst(up[c]) /\ ~ Pending(c)
      BY <2>1 DEF Has, FinishFirst, Pending
    <3> QED  BY <2>1, <3>1 DEF IsLost, Works, Gone
  <2>3. Working = {} /\ Lost = {}
    BY <2>2, Views
  <2>4. results = [c \in Clients |-> [s \in MaybeProblem |-> 0]]
    BY DEF Init, ServerInit
  <2> QED  BY <2>3, <2>4 DEF Rounds!Init
<1>2. Inv /\ RoundInv /\ [Next]_vars => [Rounds!Next]_<<Working, Lost, results>>
  BY StepView
<1> QED  BY <1>1, <1>2, InvAlways, RoundInvAlways, PTL
         DEF Spec, RoundsAreSequential, Rounds!Spec
=============================================================================
