# A verification of OnePC

OnePC minimises a function with a parallel genetic algorithm of the island
kind. One **server** (`src/OnePcServer`) holds the problems as shared libraries
and a script of runs; any number of **clients** (`src/OnePcClient`) load a
library, evolve a population of their own and exchange chromosomes through the
server. Both are Qt programs that speak JSON over TCP. This directory holds TLA+
modules of that system, the TLC configurations that check them, and proofs that
TLAPS checks.

## 1. The system

| Component | State it keeps | Operations | Interacts through |
|---|---|---|---|
| Protocol (`protocol.h`, `sendObject`, `recvString`, `recvObject`) | the bytes on each socket, `nextBlockSize` | write a message, `readyRead` | TCP, in order, without message boundaries |
| `ClientProtocol` (main thread of a client) | `status`, `socketId`, `codeBytes`, `globalMinimum`, `thread`, `population`, `problem`, `library` | connect; one handler per server message; one slot per signal of the worker; disconnect | socket; queued signals; direct calls into `Population` and `MyThread` |
| `MyThread` (worker of a client) | its place in `run()`, `stopflag`, `parallelDataReady` | ask, wait, evolve, report, finish | queued signals; `parallelDataReady` and `stopflag` shared without a lock |
| `Population` | chromosomes, fitness values, foreign chromosomes, `generation` | `nextGeneration` (select, cross, mutate, local search), `getGenomes`, `setGenomes` | called from both threads of a client |
| `GaServer`, `Client`, `GaThread` | the vector `client`, per client status, minimum and chromosomes | accept, remove, one handler per client message | socket; signals to `MainWindow`, delivered directly: all run in one thread |
| `MainWindow` of the server | `activeProblem`, `totalStarted`, the tables, the parser | RUN, STATUS, PAUSE/RESUME, TERMINATE, quit, activate a problem, load a script | slots; calls into `GaServer` and `Database` |
| `Parser` | the list of commands and `currentCommand` | next, undo, execute | called by `MainWindow` |
| `Database` | tables of problems, libraries, results | insert, look up, delete, settings | called by `MainWindow` and the dialogs |
| dialogs of the server | a copy of the rows they show | edit, load, store, delete | `Database` |
| `MainWindow` of the client, `Global` | settings, a second `connected` flag | connect, disconnect, close | calls into `ClientProtocol` |
| plug-ins, examples, minimisers, charts | numerical or graphical | | interface of `Problem` |

What is hard here:

* **Two threads, no lock.** The mutexes of `MyThread` are local variables. Only
  the order of the request and its answer keeps `setGenomes` (main thread) out
  of a `Population` that the worker is evolving.
* **Signals are queued.** `completed`, `newMinimum`, `requestGenomes` and
  `sendGenomes` are handled later than they are emitted, perhaps after another
  message of the server has changed what they refer to.
* **One message per `readyRead`.** What arrives together is read one message at
  a time, and a signal comes only with new bytes.
* **Blocking calls.** `pauseExecution` waits for the worker inside the main
  thread that the worker may need.
* **Two places advance the script**, one by a count, one by looking at the
  statuses, and `runParserCommands` executes as many commands as it can at once.
* **Modal boxes** run an event loop in the middle of a slot.
* **Clients leave** by closing, disconnecting or dying, at any moment.

What makes each component correct:

* *client*: no two threads in `Population`; a waiting worker is always going to
  be answered; pause and resume leave the worker either stopped or running, as
  `status` says; `done()` of a problem is the last call to it; each client
  writes its own file.
* *server*: rounds run one after the other, each client files one result per
  round, under the problem it solved; the counters that advance the script agree
  with the clients that run; a script comes to its end; a client that has gone
  is never used again; a question acts on the client it names.
* *islands*: what the server collects from one reaches the others.
* *Population*: a generation never loses its best member; chromosomes stay in the
  box of the problem; what is reported belongs together.
* *framing*: both programs read the messages that were written, however the bytes
  are cut; the server, whose one thread serves all, comes back from every slot.
* *window of the client*: no client that is gone stays in the list of the server as
  a computer of the system, and no process is two of them. Connections that were
  accepted and given up before the client knew of them do stay; nothing else may.
* *library*: its arrays are there whenever one of its functions uses them, its
  parameters are those of the run, `done` refines the best point, and no result
  of another run is written over.
* *Tolmin*: the objective function is called only inside the bounds, the point and
  the value that are returned belong together and are the best ones seen, and
  what `INFO` says of them is true.
* *dialogs and database*: the table of problems shows the database, although no query
  refreshes it; what one writer stores another does not undo; a button acts on the
  line it stands in.

## 2. The modules

```
Network ── GaClient ── ClientSystem ── ClientProof
        │          └── OnePC ── MCOnePC, OnePCProof
        └─ GaServer ──┘    (Experiment: what OnePC is shown to implement)

Framing ── MCFraming, FramingProof      (Delivery: what GaClient takes for granted)
ClientWindow ── ClientWindowProof
Plugin ── Library ── MCLibrary, LibraryProof
Potential ─┘
Population ── MCPopulation, PopulationProof
LineSearch ── MCLineSearch              (StepChoice: what lsrch promises)
Tolmin ── MCTolmin
    └── TolminProof (with LineSearch)
Store ── MCStore, StoreProof
```

**Network** is `protocol.h` and the sockets. `down[c]` and `up[c]` are the
messages on their way; `link[c]` says whether the connection lives.
`arrived[c]` counts the messages that are already in the client's buffer under
a `readyRead` that is over: `Receive` of GaClient may take any number of
messages into the buffer and reads one, and needs new bytes to be enabled. The
messages carry a problem, a status or a set of problems (the origin of the
chromosomes), which is all that the properties tell apart.

**GaClient** is one client. Each handler of `ClientProtocol::recvString` is an
action `Recv...`, each slot of the worker's signals an action `...Slot` or
`EndThread`, and `MyThread::run` is cut into the steps `WorkerRequest`,
`WorkerSpin`, `WorkerStop`, `WorkerEvolve`, `WorkerTail` and `WorkerReturn`, at
the accesses to what the two threads share. `sig[c]` is the queue of signals.
What the code does undefined is a choice: `parallelDataReady` of a new thread is
not initialised, and is TRUE or FALSE. Ends of a process by fault (`NULL`
pointer, a running thread deleted) are `Abort`. `stopflag` is one variable read
by the worker and written by the main thread; `thread->wait()` is the state
"blocked" of the process, left by `Unblock`.

**GaServer** is the server. All its slots run in the main thread, so an action
is a whole message or click with every slot called from it: `TakeStatus` is
`readDataSlot`, `statusClientSlot`, `setStatusIcon`, the two emissions of
`allClientsTerminated` and the commands of the script these execute. The slots
that call each other are operators on a record (`Desk`), which `Settle` writes
back. A modal box stops the handler: `boxes` counts those that are open, and
`CloseBox` goes on from there.

**ClientSystem** puts clients next to *any* server that keeps one rule of the
real one: chromosomes go out only to answer a request, once each. **OnePC** puts
them next to GaServer; `ClientsAreThoseOfClientSystem` says that its steps are
steps of ClientSystem, so the results about clients carry over. `DownLengths` and
`Backlogs` bound the queues of ClientSystem for TLC; with `Nat` there is no bound, and
it is with `Nat` that OnePC implements it.

**Experiment** is what the system promises to whoever runs experiments: a round
starts when no client works on an earlier one, and every client files one result
per round. `RoundsAreSequential` maps OnePC to it: a client *works* from the
moment its library is sent to the moment its result is filed, which says nothing
of the statuses and counters by which the server tells. What a result is filed under
(`Subjects`, the problem that is active) is left open.

**Population** is the genetic algorithm of one client. A gene is an integer of
`Lo .. Hi`, `Funmin` any function of the box, and what the code draws at random
a choice. `nextGeneration` is cut into `Mutate` (with the evaluation), any number
of `LocalSearch` rounds that change something, `Select` and `Crossover`; in
between, `phase` is not "ready", and the main thread cannot enter, which is what
`PopulationExclusive` shows. `SetGenomes` and `EvaluateBest` are the other two
calls that change it. `Select` is defined by its result, the stable order of the
values, and `SelectSorts` says that the bubble sort (`BubbleSorted`, with
`Compared` and `Pass` for its two loops) produces it; this is proved, too.
`childsize` is the truncation of a product of doubles, which may come out just below an integer: both outcomes are in `Truncated`. Writing outside
an array is the phase "broken". `GaClient` knows of all this only the number of
the generation and where the foreign chromosomes come from. As the program is,
`setGenomes` is never given any (section 5, MigrantsArrive): `Foreign = {}`; the
runs and the proofs cover what it would do with them.

**Framing** is how messages are cut out of a connection, `sendObject` and `recvObject`
of both programs and the loops around them. A message is its length and its text;
the network delivers any number of bytes at a time. A client reads one message at
most for each `readyRead`; the server reads in a loop and waits inside it, at most
30 seconds at a time, while all other connections stand still (`reading`). A client
may die in the middle of a message. **Delivery** is what GaClient takes for granted
of all this: one whole message per signal, and one that came with another waits.
Framing is shown to implement it (`ClientsReadAsAssumed`).

**ClientWindow** is a client that connects more than once: the flag `connected` of
`ClientProtocol`, the flag of the same name of `MainWindow`, the socket below both,
modal questions, attempts that fail, and a server that ends and starts again. The
connections of a process are numbered; what the server makes of each is `entry`:
`InList` are those in `server.client` and the client table, from the moment they are
accepted. `Counted` are those whose CONNECT was read or will be. An `Orphan` is in the
list, closed and silent: its client made another attempt, gave this one up or ended
before it knew that it was connected. `Overlook` is a connection that is given the
descriptor of an orphan, and that the server takes for the one it has.

**Plugin** is the life of a library in a client over several runs, PAUSE and RESUME:
its parameters and arrays are globals of the library, and `tempx` is the buffer of
`MyProblem` that `done` gets. **Potential** is how `done` of the library potential looks
for a free name of its result file next to other clients of the directory.
**Library** composes the two: the main thread is in `done` between the signal and
`FINISH`, and leaves the messages of the server waiting. Its steps are steps of both
(proved for Plugin: `LibraryImplementsPlugin`).

**Tolmin** is the minimiser that the problems call in `done`: `tolmin` and `getmin`, with
`minflc`, `minfun`, `initzu`, `addcon`, `delcon`, `newcon`, `satact`, `getfes`, `conres`,
`adjtol`, `getd`, `sdirn`, `sdegen`, `stepbd`, `zbfgs` and `ktvec` as far as bounds reach
them. Points have integer
coordinates; the metric that `zbfgs` improves is not kept, and what it decides (the
direction of a step, the sign of a multiplier, the most violated of several
constraints) is a choice. In a search for a feasible point the code only asks that a
direction makes the sum of the violations smaller. The model (`Direction`) also asks that
no violated variable moves away from its bounds: with steps of -1, 0 and 1 that follows
for the two variables of the run, but with more variables and a metric that is not
diagonal it is only a part of what `sdirn` can do. **LineSearch** is `lsrch`, along a fixed direction; in
Tolmin it is one action with the promise of **StepChoice**, which LineSearch is shown
and proved to keep (`SearchImplementsChoice`, `LsrchIsTheSearch`).

**Store** is what the server keeps of problems: the tables of `Database`, the table of
problems in the window, and the three modal dialogs with their copies. While a dialog
is open the script and the clients go on (`SetProblem`, `SetParameter`,
`insertResult`). A crash and the next start are `Restart`. `latest` is a history
variable: what the script has set and no dialog has replaced.

The modules whose names end in `Proof` hold the proofs, those that begin with `MC`
the scripts, functions and sets for TLC.

A definition whose comment says "Mutant" is a plausible slip in the definition
after it, kept to show that a property would notice it. No action uses one.

## 3. The runs

| Run | Instance | What it asks |
|---|---|---|
| client_any_server | 1 client, 1 problem, `Generations` 1 | With every control message at any time and every departure: nobody else in `Population` (`PopulationExclusive`), no wait without an answer on its way (`RequestKept`), `RESUME` finds the worker stopped (`ResumeFindsItStopped`), and the documented hang of a pause is final (`HangIsForever`). |
| script_rounds | 2 clients, script of 2 runs, with fairness | Nobody is at the controls: the script comes to its end (`ScriptCompletes`). |
| manual_runs | 2 clients, script of 2 runs, RUN pressed once at any time, clients disconnect | No request of a removed client is handled (`ServerSurvives`), the count that advances the script is right (`TotalStartedCounts`), the rounds implement Experiment, whoever begins them (`RoundsAreSequential`), and `done()` is the last call to a problem (`DoneIsLast`). |
| controls | 1 client, all controls of the window, 3 clicks | The client stays one of ClientSystem under every control (`ClientsAreThoseOfClientSystem`), so that what holds next to any server holds here; it stores its own library (`LibraryHasItsOwnName`). |
| migrants_arrive | 2 clients, one run | Section 5: a violation. |
| generations | 3 chromosomes of 2 genes in 0 .. 2, 3 generations, 2 foreign chromosomes | The best value never goes up (`BestNeverWorsens`), every chromosome stays in the box (`InMargins`), every chromosome that crossover spares is stored with its own value (`SurvivorsAreEvaluated`), crossover stays in its arrays (`CrossoverStaysInside`), the sort sorts (`SelectSorts`). |
| line_search | 4 steps, 3 evaluations, every function with values 0 .. 2 and every slope of three | `lsrch` keeps the promise Tolmin is built on (`KeepsPromise`): it tries lengths within the limit, none of them twice, and answers with the best of them. |
| tolmin | 2 variables, points -1 .. 3, bounds 0 .. 2 and 0 .. 1, gradients right or wrong anywhere | Every evaluation is inside the bounds (`EvaluatedInside`); the one array of constraints is never torn (`ArrayIsWhole`); `x`, `f` and `g` belong together and `diff` is never read unset (`ValueIsOfThePoint`); the least value is returned, `INFO=1` is true and bounds are always met (`AnswerIsRight`); the limit on the evaluations is kept (in `TypeOK`), and the search ends (`Returns`). |
| store | 2 problems, systems, parameters and results, one file that can not be opened | `TableShowsDatabase`, `OneChecked`, `ScriptParametersKept`, `PositionsMatch`. |
| client_window | 3 connections of one process | No ghost stays in the list (`NoGhost`, `MembersLeave`), no process is two computers of the system (`CountedOnce`); whatever else is in the list is an `Orphan`. |
| library | 2 runs of one client, PAUSE and RESUME, another client in the directory | `NeverBroken`, `DoneGetsBest`, `ParametersAreOfThisRun`, `EarlierKept`, `DoneReturns`. |
| framing | 2 clients that write, one that reads, 2 messages each | The messages read are those written (`ReadInOrder`); the server comes back from its slots and reads all (`ServerKeepsServing`); clients read as GaClient assumes (`ClientsReadAsAssumed`). |

A run repeats nothing that the proofs show for every value of the constants and that no
hazard asks for: the types of the proved modules, `OneRequest`, `ReturnsBest`,
`LimitIsMet`, `BracketShrinks` and `NothingLeft` are theorems only (section 4).

**Bounds.** `Generations` is 1 where the exchange matters (the first round of
the loop asks for nothing, the second does; the loop bound is inclusive).
`StopAfter` stands for the 10 generations before the variance test may end a run
and is 0, so that a run may end by either way. `DownLengths`/`Backlogs` bound what a
ClientSystem server has written and not seen read: 2 messages is enough for one to
arrive behind another unannounced, and for a control message to overtake none but to
lie between an answer and a new run. `MaxClicks` and `MaxLoads` bound the user. Two
clients are enough for a round in which one has finished and one has not, and for a
client that shifts the index of another; clients only meet in the vector and in the
counters. The clients are symmetric and manual_runs, which checks no liveness, uses
that. The queues of OnePC need no bound: a worker waits for its answers and a script
for its rounds.

In generations, three chromosomes give one survivor, one pair of children and a
selection that may need two passes; the third generation is the first in which
foreign chromosomes are drawn as parents, and the second the first with mutation
and local search. The objective function has two valleys, so local search and
crossover both improve and worsen. `alfa` takes five values over the range of
the code, which leave the box on both sides.

In tolmin, the second variable has bounds that are closer than the first tolerance,
so that both are degenerate at once; the starts lie on, inside and outside the
bounds; the valley of the objective function runs along the diagonal and has its end,
with a value below 0, in a corner, so that searches are stopped by boundaries and
constraints are added, given up and met again. `nfmax` 4 lets some runs
end by themselves and cuts others in the middle. In line_search three evaluations
and four steps give every order of the four tests of a trial.

In store, two of everything let one be changed while the other is looked at; the two
results have the same text and different minima. The constraint `Small` keeps at most
five rows and parameters at a time. In client_window three connections are an aborted
one, a new one and one after that. In library two runs let the second find what the
first left behind; `MaxName` is above what two clients with two runs each, next to
two files that were there, can reach. In framing a length has two bytes, so that it
can be cut, and the texts have two and one; two streams to the server are enough
for one to hold up the other.

The server may have nothing to do, the user need not press anything, and each other
system ends when its bounds are reached, so deadlock is not an error in any run but
store, where something can always be done.

**Fairness.** `FairSpec` of OnePC assumes weak fairness of `Connect` (the experimenter
starts the clients), of `ReadData`, `HandleSignal` and `Unblock` (the event loop
of a client), of `Worker` (the scheduler), of `Accept` and `ReadDataSlot` (the
event loop of the server) and of `CloseBox` (a box is closed at some time).
All are actions which stay enabled until they are taken, by loops that handle
whatever comes. No click, departure or loading of a script is fair.
`ScriptCompletes` has a premise: no message ever lies unannounced in a buffer,
and no client dies. The code justifies neither, and without them scripts do
stop; it is the guarantee that is left.

Library assumes that every process goes on while it is in `done` (the scheduler).
ClientWindow assumes that the server reads what has arrived, and nothing of the user.
Tolmin is sequential and assumes that it runs on. Framing assumes that the network
delivers what is on its way to a reader that is free (weak), that the turns of the
server's loop go on (weak), and that its waits do not all end without the bytes that
are coming (strong, as each wait may end by the timeout of 30 seconds while bytes
come).

## 4. The theorems

The first six are about `Spec` of ClientSystem, for any number of clients, problems and
generations and for any bounds, under `GenerationsAssumption` and
`NoProblemAssumption`. Since OnePC implements ClientSystem (`ImplementsClientSystem`
below), they are about the clients of OnePC.

| Theorem | States | Argument |
|---|---|---|
| `ClientTypeCorrect` | `[](TypeOK /\ WorkerHasLibrary)` | `TypeOK` is not inductive: `GenerationSignals` and `SendGenomesSlot` send the problem of `codeBytes`, which has one only once a RUN has been read. `WorkerHasLibrary` adds that there is neither a thread nor a signal before. |
| `OneRequestAlways` | `[]OneRequest` | With the types, `OneRequest` is inductive: it names the three places a request can be in and the state of the worker meanwhile. Most steps are *quiet*: they leave the requests, signals and answers of a client as they are (`SigQuiet`, `UpQuiet`, `DownQuiet`, `WorkerQuiet`), and one lemma says that this suffices. |
| `PopulationExclusiveAlways` | `[]PopulationExclusive` | From `OneRequest`: an answer lies there only while the worker waits. |
| `ResumeAlwaysFindsItStopped` | `[]ResumeFindsItStopped` | Inductive with the fact that a process which is not connected has no thread. |
| `HangAlwaysForever` | `Spec => HangIsForever` | From `OneRequest` and the types: only the main thread sets `parallelDataReady`, and it is blocked. |
| `RequestAlwaysKept` | `[]RequestKept` | From `OneRequest`: a step takes the request of a client from one place only to put it into the next. |

The next nine are about `Spec` of OnePC, for any clients, problems, script, buttons
(`UserOps`), ways to leave and bounds, under the same two assumptions and
`ScriptAssumption` and `UserAssumption`. The last three have a premise, `OnlyRuns`: the
user activates problems, loads scripts and presses RUN, and the clients come, leave and
die as they like. With the other buttons they are false; section 5 says how.

| Theorem | States | Argument |
|---|---|---|
| `TypeCorrect` | `[]TypeOK` | `Inv`: the types, the workers that have a library, and the server's book-keeping: the vector holds the clients whose `entry` says so, each once (`VectorInv`), and they have had a connection (`Connected`). The slots that call each other are a function of a `Desk`; what a call does to it is summed up by `Ran`: some clients of the vector were sent the library and are RUN, and the counter is their number, or nothing was started. That `runParserCommands` is such a call is an induction over its turns; that `allClientsTerminated`, which is emitted twice, starts one run at most follows as the second call finds the first one's clients running. |
| `ImplementsClientSystem` | `Spec => ClientsAreThoseOfClientSystem` | Step by step: a step of a client is one of ClientSystem as it stands, a slot of the server writes nothing but control messages, one for each client, and answers a request only by taking it (`StepServes`). |
| `OneRequestInOnePC`, `RequestKeptInOnePC` | `[]OneRequest`, `[]RequestKept` of the clients of OnePC | From the theorems on ClientSystem through the refinement. |
| `LibraryAlwaysHasItsOwnName` | `[]LibraryHasItsOwnName` | `NameInv`: the queue to a client that has not got its `socketId` has CODE in front of any library, once the server knows the client; before, nothing is in it that starts a worker. |
| `ServerAlwaysSurvives` | without TERMINATE, `[]ServerSurvives` | Nobody is taken out of the vector whose socket is still read (`NoZombie`), with `VectorInv`. |
| `TotalStartedAlwaysCounts` | with `OnlyRuns`, `[]TotalStartedCounts` | Not inductive: a FINISH that came twice, or from a client that is not RUN, would count down too far. `RoundInv` says for each client that its run is in one phase (the library on its way, the worker at work, its end in the queue of signals, FINISH on its way), that no status follows FINISH, and that the server has it as RUN all this time. |
| `DoneIsAlwaysLast` | with `OnlyRuns`, `[]DoneIsLast` | Part of `RoundInv`: `completed` is the last signal of a worker, and no run begins while it is in the queue. |
| `ImplementsExperiment` | with `OnlyRuns`, `Spec => RoundsAreSequential` | From `Inv` and `RoundInv`: nobody works when the slots start a run, since all who work are RUN at the server (`ServerRound`); the slot that files a result removes its client from those that work, and the same slot may start the next round; every other step is a loss or is not seen. |

The next six are about `Spec` of Population, for any dimension, box, objective
function with integer values, number of chromosomes, foreign chromosomes of the
box and bound, under `BoxAssumption`, `SizeAssumption` and `ForeignAssumption`.

| Theorem | States | Argument |
|---|---|---|
| `InMarginsAlways` | `[]InMargins` | Part of the invariant `PopInv`, with its types: children are tested gene by gene (`ChildInBox`), all else moves or mixes genes of the box. |
| `SurvivorsAlwaysEvaluated` | `[]SurvivorsAreEvaluated` | Not inductive by itself: `PopInv` adds that from the evaluation to the crossover *all* values are right, which selection needs, since it may bring any chromosome to the front. |
| `BestIsNeverLost` | with `NonNegative` and `EnoughChromosomes`, `Spec => BestNeverWorsens` | Mutation and crossover leave the first place alone (`FirstSurvives`), so its value is the one the evaluation finds again; selection puts a smallest value first; local search makes absolute values smaller, which for values of 0 and more makes values smaller. |
| `CrossoverAlwaysInside` | with `EnoughChromosomes`, `[]CrossoverStaysInside` | The size after rounding in either way is even, at least 2 and less than the count (`ChildrenFit`). |
| `PopulationTypeCorrect` | `[]TypeOK` | Part of `PopInv`. |
| `SelectAlwaysSorts` | `[]SelectSorts` | A comparison swaps only what is out of order, so that chromosomes of equal value stay as they stood (`ComparedStable`); a pass carries the largest value on (`ComparedBubbles`), so that each pass brings one more place at the end into order (`PassBubbles`). Then the order is the one `Select` names (`Sorts`). |

`EnoughChromosomes` asks that the share that is replaced and the share that is
kept are more than one chromosome each, after the product is rounded down. The
defaults (200 chromosomes, rate 0.10 in `Global`, 0.90 in the constructor and in
the help of `main.cpp:24`) fulfil it; `--chromosomes` and `--selectionrate` accept
values that do not. Without `NonNegative` the theorem is false (section 5).

The next five are about `Spec` of Tolmin, for any number of variables, any bounds, starts,
objective function and gradients (which may be wrong at any point), any limit on the
evaluations and any first tolerance, under `TolminAssumption`. It asks of `Coordinates`
that it has all integers between two of its own: a coordinate of the program is any
double, and a step goes through what lies between. No relation between a lower and an upper
bound is assumed. No fairness is used. For more than two variables the theorems are about
the directions that `Direction` allows in a search for a feasible point (section 2).

| Theorem | States | Argument |
|---|---|---|
| `WholeArray` | `[]ArrayIsWhole` | `ArrayInv` and `PartsInv`, below. Its first part is the conjunct `Satisfied` and its third `Arriving` of `PartsInv`; that both bounds of a free variable are in the array, once, is `Complete` with `Distinct` (`TwoPlaces`). |
| `FeasiblePoints` | `[]EvaluatedInside` | Where minfun works `x` is inside the bounds (`InMinfun`), and the step ends there, too (`Arriving`); what lies between does as a box is convex (`OnTheWay`). |
| `TolminTypes` | `[]TypeOK` | `ArrayInv` has the types of the array: an array that has each bound at most once has at most `2N`, and one variable for each active one makes at most `N` (`FewPlaces`, `FewActive`). `PartsInv` has those of the points, and `WithinLimit` the count of evaluations: it is below `nfmax` wherever an evaluation may follow, which a test of equality never misses. |
| `ValuesOfThePoint` | `[]ValueIsOfThePoint` | `ValuesAtHand` says, for each place in `getfes`, what `info` and `nfvals` tell of `f` and `g`. `info` becomes 1 when `satact` shifts `x`. If it is 0 and something has been evaluated, the point is that of the last evaluation; nothing has moved, so all bounds are still counted as satisfied, and `getfes` ends before `conres` writes the gradient of the violations into `g`. |
| `RightAnswer` | `[]AnswerIsRight` | `Answer` says what holds when minfun ends and still does when the search returns, with `ValuesAtHand`. That `INFO=1` is true needs `Signs`: `getd` ends with acceptable signs of all multipliers that can leave, or with something to reduce (`ConvergedIsFirstOrder`), and `NothingMoves` for the case that all variables are fixed. That `INFO=6` and `7` never occur is `Found`, below. |

The invariant, which TLC checked on the instances of the run before it was proved, has
two large parts. `ArrayInv` is about `iact` alone: it is a list of different bounds, the
upper bounds of fixed variables first, no two active ones of the same variable, and the
direction leaves the variables of active ones alone. Everything that moves elements is
summed up by lemmas on sequences: `Swap`, `Addcon`, `Delcon` and `Place` rearrange what is
there (`SwapPlaces`, `DelconPlaces`, `PlacePlaces`), and nothing but the first loop adds
to it. `PartsInv` says what the parts are of the point: the active and the degenerate ones
hold, those up to `msat` are satisfied wherever `conres` relies on it, while it is at
work those behind its counter may be anywhere (`Partition`), and a direction violates no
degenerate one (`Bounded`). The invariant of the loop of `stepbd` is `Passing`: `bres` has
the distance of each boundary that is still ahead, and none that matters is nearer than
`stepcb`, so that the step does not leave what is satisfied (`PassingArrives`).

`ArrayIsWhole` is not true without the premise `info # 4` of its second part: if some
lower bound is above the upper one, `minflc` returns before all constraints are in the
array. The instance of the run has no such bounds; the proof found it.

`BoundsAreMet` says that the search for a feasible point never gives up when bounds are
all there is. It could: a direction may lead nowhere, or the sum of the violations may
fail to decrease. That it does not is `Found`, which rests on two facts. If no direction
is left with the tolerance of the arithmetic, nothing is violated: a violated bound
belongs to a variable that can still move (`NothingViolated`), and the direction then
meets a boundary (`SeekingFinds`). And the sum of the violations decreases with each
step. Sums are not within reach by recursion (induction over data), so the invariant
`Sums` speaks of partial sums as a function that exists, `IsSum`: lemmas say that a
changed term changes the sum by as much (`SumChanges`), and that smaller terms have a
smaller sum (`SumLess`), by the least place at which partial sums would disagree.

The next six are about `SearchSpec` of LineSearch, for any bound of the step, any limit
and any set of functions and slopes, under `SearchAssumption`.

| Theorem | States | Argument |
|---|---|---|
| `SearchTypeCorrect` | `[]SearchTypeOK` | Part of the invariant of the search. |
| `BestIsReturned` | `[]ReturnsBest` | Inductive with: `fopt` is the value at `stpopt`, and no length in `tried` has a smaller one. |
| `LimitIsAlwaysMet` | `[]LimitIsMet` | The count goes up by one, and the search leaves the loop when it is equal. |
| `BracketAlwaysShrinks` | `[]BracketShrinks` | Between the ends of the bracket, or above the lower one while there is no upper one, nothing was tried. |
| `SearchImplementsChoice` | `SearchSpec => KeepsPromise` | Each evaluation is a `Try`, of a length that was not tried because it is strictly inside the bracket; `Restore` is the `Answer`. By the invariants above. |
| `LsrchIsTheSearch` | what LineSearch ends with is a choice of `Lsrch` of Tolmin | For a call by minfun (`Called`: the bound is `stepcb`, the limit `nfmax - nfvals`, the values those of the points along the direction) the lengths tried fulfil `Tries`, the answer `BestLength`, and the evaluations are as many as the lengths (`Counting`, since no length is tried twice). So the one action of Tolmin leaves out nothing that `lsrch` does. |

Then Library, with any number of parameters, values, runs and other clients, under
`PluginAssumption` and `LibraryAssumption`.

| Theorem | States | Argument |
|---|---|---|
| `LibraryImplementsPlugin` | `LibrarySpec => Spec` | Each step is one of Plugin or leaves its variables alone. |
| `LibraryTypeCorrect` | `[]LibraryTypeOK` | Step by step, for both parts. |
| `LibraryNeverBroken`, `DoneAlwaysGetsBest`, `ParametersAlwaysOwn` | `[]NeverBroken`, `[]DoneGetsBest`, `[]ParametersAreOfThisRun` | One invariant for all: before the first PAUSE, a worker that runs has its arrays and parameters, a signal `completed` in the queue means that there is no other, that the worker has finished and that `tempx` is the best point, and a client that has reported anything else than RUN has no worker. |
| `EarlierAlwaysKept` | `[]EarlierKept` | `before[p]` is fixed during a call, and no file ever goes away, so the name that was found free was not there at the call. |

Then Store, for any numbers of problems, systems, parameters, results and files, under
`StoreAssumption`.

| Theorem | States | Argument |
|---|---|---|
| `StoreTypeCorrect` | `[]TypeOK` | With that of the dialogs: a question names a problem, lines and results have the same length. |
| `OneAlwaysChecked` | `[]OneChecked` | Needs `Distinct`, which is in `TableShowsDatabase`: `setChecked` leaves the boxes of rows with the same problem alone. |
| `TableAlwaysShows` | `[]TableShowsDatabase` | Each action changes both by the same problem; `Restart` builds the table from a list of the problems without repetition. |
| `PositionsAlwaysMatch` | `[]PositionsMatch` | The invariant is that `lines[i].position = i`; a deletion shifts rows and results alike and numbers the rows again. |
| `ScriptParametersAlwaysKept` | with `NoQuotes`, `[]ScriptParametersKept` | `SetParameter` adds the same entry to both; a dialog that stores clears the history. Without `NoQuotes` an update may fail (section 5). |

Then ClientWindow, for any number of attempts and any backlog, under `WindowAssumption`.

| Theorem | States | Argument |
|---|---|---|
| `WindowTypeCorrect` | `[]TypeOK` | Step by step. |
| `AlwaysCountedOnce` | `[]CountedOnce` | `OnlyOne`: a connection that has messages or is known to the server is the one for which `connected` was set, and there is no other attempt from then on. `Held`: only the connection a running client stands for is open, and on the one that was made CONNECT is on its way while the server has only accepted it. So every other one in the list is closed and silent (`AcceptedIsOrphan`). |
| `NeverAGhost` | without `AutoConnect`, `[]NoGhost` | `Left`, of a client that runs: if its connection was made and is closed, the server has it as gone; if the window says that it is not connected, the farewell is on its way, or waits in the socket for the connection (`ExcusedAtEnd`). No step of the server takes an excuse away (`ServerExcuses`). What was only accepted is an orphan (`AcceptedIsOrphan`). With `AutoConnect` the second part is false from the first connection on (section 5). |

Last, Framing, for any streams, lengths, size of the length field and number of messages,
under `FramingAssumption`. No fairness is used.

| Theorem | States | Argument |
|---|---|---|
| `FramingTypeCorrect` | `[]TypeOK` | Below. |
| `AlwaysReadInOrder` | `[]ReadInOrder` | `Fits`: the bytes in the socket and on the wire are one sequence, and there are places in it (the first one before its beginning if a length has been read) behind which each message that was written and not read begins, up to the end or to the cut of a dead writer. Arrivals do not change the sequence (`ArrivedAreNext`), a write makes it longer by one message (`FitsLonger`), a reader takes a length (`LengthRead`) or a text (`TextRead`) off its front. The places are part of the invariant, existentially, so that no sum over messages is needed. |
| `NeverAnythingLeft` | `[]NothingLeft` | Only the slot that serves a stream fills its buffer, and it leaves when the buffer is empty. |
| `ClientsAlwaysReadAsAssumed` | `Spec => ClientsReadAsAssumed` | Framing implements Delivery, step by step: the complete messages in a buffer are those from the next one on whose successor has its place within the bytes (`CompleteAre`); `recvObject` reads one exactly if the next one is complete (`ReadsComplete`), and what it leaves complete is what was complete before but this one (`CompleteRest`). Bytes that arrive complete messages only behind those that are complete. |

Three of the modules need an induction over a number that is a parameter: the commands
that `runParserCommands` executes, the passes of the bubble sort and the terms of the
sum of the violations. The induction
theorems of the library take an operator as a parameter, which the provers cannot
instantiate; here the turns are a function, and the least turn at which the
claim would fail (`Least`, from the theorem on minimal elements in
`WellFoundedInduction`) gives the contradiction.

Only model-checked: liveness (`ScriptCompletes`, `MembersLeave`, `DoneReturns`,
`Returns`, `ServerKeepsServing`), which needs fairness and with it `ENABLED`. Every
invariant and every safety property of a step that a passing run checks is also a theorem,
some of them under a premise that the tables name.

## 5. What the texts say and the code does not do

* **MigrantsArrive** (run migrants_arrive). The README of the program promises islands.
  The answer with the chromosomes of the other islands is read, and then
  `codeBytes`, the bytes of the library, is parsed in its place
  (clientprotocol.cpp:368): no chromosome ever migrates.

Met while modelling, in the model or left out of it as said, and not the subject of a
run of their own:

Rounds and clients

* The second problem of a script is made active as soon as the first is started, so
  the results of the first are filed under the second (mainwindow.cpp:806 and the
  slot that files them, which reads `activeProblem`). The runs use one problem.
* The question of TERMINATE names a client; if one before it leaves while the
  question is open, Yes terminates another (mainwindow.cpp:784).
* After TERMINATE the client is out of the vector and its socket is still read: a
  request for chromosomes that was on its way indexes the vector with -1
  (mainwindow.cpp:584). So `ServerSurvives` is a property of manual_runs, without
  TERMINATE, and is false in controls.
* ASKSTATUS makes a client that has finished send FINISH again: its result is filed
  twice (mainwindow.cpp:679). A client lost in a round leaves the count above 0
  (:659): `TotalStartedCounts` says "at least" for this case. `terminateServerSlot`
  would leave every second client running, as its loop removes while it counts up
  (:943); nothing connects this slot.
* STATUS asked of a client that has not yet run uses a population that is NULL
  (clientprotocol.cpp:249).
* `runProblem` deletes the thread whatever it does (clientprotocol.cpp:189), with a
  comment that wants to wait for it. FINISH is sent while `run()` is still on its
  way out, so a quick second round may delete a running thread, which is `Abort`.
* The chromosomes kept for a client are not cleared by a new run (mainwindow.cpp:562);
  as they never arrive, nothing follows.
* A client is known by its socket descriptor, which the system gives again
  (gaserver.cpp:14). ClientWindow has what follows for a connection that gets the
  descriptor of one in the list (`Overlook`); elsewhere descriptors are distinct.

Framing

* The loop of the server has no end if a client dies in the middle of a message
  (gathread.cpp:142): `SlotReturns` says that this is the only case.
* A client that reads one message per signal leaves one that came with another for
  the next signal; this is what the premise of `ScriptCompletes` is about.

Windows and dialogs

* `connected` of `ClientProtocol` is never reset (clientprotocol.cpp:145): after a
  first connection no second one is possible, whatever the button says.
  `CountedOnce` rests on it.
* A connection is put into the list and the client table when it is accepted
  (gaserver.cpp:28, mainwindow.cpp:828), and no slot handles its end; CLIENTDELETE
  and the user's TERMINATE alone take it out. One that its client gave up, or ended
  in, before `connectSlot` stays there for good. RUN leaves it out, as it never said
  what machine it is, but it is counted (mainwindow.cpp:645), so that the second of
  the two tests for the end of a round, all FINISH, is never met again. Its
  descriptor is free: a new client that gets it is dropped without a word
  (gaserver.cpp:15), waits for ever and holds itself for connected. `Orphan` names
  these entries; `NoGhost`, `CountedOnce` and `MembersLeave` say that there are no
  others.
* A client that connects by its command line starts with the window's flag unset
  (client mainwindow.cpp:77): it may quit without telling the server. ClientWindow
  with `AutoConnect` TRUE violates `NoGhost`; the run has it FALSE.
* Loading a library for a problem that has a row crashes the server, as the layout of
  a button is used (mainwindow.cpp:358): `OsAccept`.
* `deleteResult` removes every row with the same text, whatever its minimum
  (database.cpp:250). `loadParameterSlot` removes while it counts up: every second
  key stays, and an odd number of keys never lets it end (parameterdialog.cpp:161).
* A value with a quote makes the update of the settings fail silently
  (database.cpp:69). `okSlot` writes back what the dialog read when it was opened,
  over what the script has set since (parameterdialog.cpp:97): it is the
  exception in `ScriptParametersKept`.

Libraries and numbers

* After PAUSE, `endThread` calls `done`, which frees the arrays, and RESUME evaluates
  with them (clientprotocol.cpp:284): the premise `paused` of three properties.
* The name of a result file is looked for and opened in two steps
  (potential.cpp:100): two clients may write one file. `EarlierKept` is about files
  that were there before.
* Local search takes what is nearer to 0 and not what is smaller (population.cpp:63).
  For functions with values below 0, such as the example `rastrigin.cc`, it may
  replace the best chromosome by a worse one: `NonNegative`.
* `tolmin` returns INFO 0 when every variable is fixed (tolmin.cc:879).
* The help gives 0.90 as the default of the selection rate (client main.cpp:24),
  `Global` sets 0.10 (global.cpp:5).

## 6. Not modelled, and why

* Floating point and random distributions: genes, points and values are integers,
  what is drawn is a choice, so nothing is said of how likely a result is, nor of
  rounding errors in Tolmin. The text form of chromosomes (six digits) rounds:
  `ForeignAssumption` says what is left.
* The matrices Z and U of Tolmin (the numbers that `zbfgs`, `addcon` and `delcon` keep in
  them, and with them the lengths and directions that `sdirn` and `getd` compute from
  them), and general linear constraints, which no problem of the repository has.
* `Population::restart` and `Database::getBestResult`, which nothing calls.
* The handlers of SENDMINIMUM and SENDMEMORY in the client, and of shared memory
  in the server: no peer sends these messages.
* Socket descriptors that are used again, outside ClientWindow (`Overlook`): above.
* A text that is no JSON: neither program writes one.
* Drawing, charts and the wording of tables; file dialogs but for what they return.
* The objective functions themselves and the reading of their data files.
* Global settings and the command lines: constants of the modules.

## 7. Plan

Done: the clients, the whole system, rounds and the script, with the refinements of
ClientSystem and Experiment; Population and its sort; framing and the refinement of
Delivery; the windows and dialogs; libraries; Tolmin and its line search; and the proofs
of the safety properties of all these. What could follow: descriptors
that are used again, against the vector of GaServer.
