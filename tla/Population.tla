----------------------------- MODULE Population -----------------------------
(***************************************************************************)
(* Population: the genetic algorithm that one client runs.  A gene is an   *)
(* integer of Lo .. Hi here, a chromosome a point of the box, and Funmin   *)
(* the objective function.  What the code draws at random is a choice.     *)
(* nextGeneration is cut into its parts, in their order; between its calls *)
(* (phase "ready") the main thread may call setGenomes.                    *)
(***************************************************************************)
EXTENDS Integers

CONSTANTS
    Dimension, Lo, Hi,       \* the box of the problem
    Funmin,                  \* its objective function
    gcount,                  \* chromosomes
    SelectionRate,           \* selection_rate, in percent
    LocalSearchGenerations,  \* localsearchgenerations
    Foreign,                 \* chromosomes other islands may send
    MaxGeneration            \* bound on the generations that are evolved

Genes == 1 .. Dimension
Data == [Genes -> Int]
Box == [Genes -> Lo .. Hi]
Places == 1 .. gcount

ASSUME BoxAssumption ==
    /\ Dimension \in Nat \ {0} /\ Lo \in Int /\ Hi \in Int
    /\ Funmin \in [Box -> Int]

ASSUME SizeAssumption ==
    /\ gcount \in Nat /\ gcount > 1 /\ SelectionRate \in 0 .. 100
    /\ LocalSearchGenerations \in Nat \ {0} /\ MaxGeneration \in Nat

\* Other islands work on the same problem.  Their values come as text of six
\* digits: any integer here.  So do the genes; rounding is monotone, so they
\* stay in a box whose margins are numbers of six digits.
ASSUME ForeignAssumption == Foreign \subseteq [x : Box, y : Int]

VARIABLES
    genome, fitness,   \* the chromosomes and the values stored for them
    parallelGenome,    \* the foreign chromosomes
    generation,
    phase              \* the part of nextGeneration that comes next

vars == <<genome, fitness, parallelGenome, generation, phase>>

\* isPointIn
isPointIn(x) == x \in Box

Abs(n) == IF n < 0 THEN -n ELSE n

\* Types: the arrays of Population keep their length gcount.
TypeOK ==
    /\ genome \in [Places -> Data]
    /\ fitness \in [Places -> Int]
    /\ parallelGenome \subseteq Data
    /\ generation \in Nat
    /\ phase \in {"ready", "local", "select", "crossover", "broken"}

Evaluated(g) == [i \in Places |-> Funmin[g[i]]]

\* The constructor, with getSample for every chromosome.
Init ==
    /\ genome \in [Places -> Box]
    /\ fitness = Evaluated(genome)
    /\ parallelGenome = {}
    /\ generation = 0
    /\ phase = "ready"

-----------------------------------------------------------------------------
(* nextGeneration.                                                         *)

\* Mutant: fitness is taken before the mutation.
MutateLate ==
    /\ phase = "ready" /\ generation < MaxGeneration
    /\ \E m \in [2 .. gcount -> Box] :
          genome' = IF generation = 0 THEN genome
                    ELSE [i \in Places |-> IF i = 1 THEN genome[1] ELSE m[i]]
    /\ fitness' = Evaluated(genome)
    /\ phase' = IF generation > 0 /\ generation % LocalSearchGenerations = 0
                THEN "local" ELSE "select"
    /\ UNCHANGED <<parallelGenome, generation>>

\* mutate, from the second generation on and never the first chromosome, and
\* calcFitness.
Mutate ==
    /\ phase = "ready" /\ generation < MaxGeneration
    /\ \E m \in [2 .. gcount -> Box] :
          genome' = IF generation = 0 THEN genome
                    ELSE [i \in Places |-> IF i = 1 THEN genome[1] ELSE m[i]]
    /\ fitness' = Evaluated(genome')
    /\ phase' = IF generation > 0 /\ generation % LocalSearchGenerations = 0
                THEN "local" ELSE "select"
    /\ UNCHANGED <<parallelGenome, generation>>

\* The genes of a before place k, those of b from there on.
Mixed(a, b, k) == [i \in Genes |-> IF i < k THEN a[i] ELSE b[i]]

Better(g, pos) == Abs(Funmin[g]) < Abs(fitness[pos])

Accept(g, pos) ==
    /\ genome' = [genome EXCEPT ![pos] = g]
    /\ fitness' = [fitness EXCEPT ![pos] = Funmin[g]]

\* Mutant: the other mixture is taken whatever its value is.
LocalSearchTakesAny(pos, r, k) ==
    /\ phase = "local"
    /\ LET one == Mixed(genome[pos], genome[r], k)
           other == Mixed(genome[r], genome[pos], k)
       IN  \/ Better(one, pos) /\ Accept(one, pos)
           \/ ~ Better(one, pos) /\ Accept(other, pos)
    /\ UNCHANGED <<parallelGenome, generation, phase>>

\* A round of localSearch that changes the chromosome at pos.  There are
\* thousands, most of which change nothing: any number of them may do so.
LocalSearch(pos, r, k) ==
    /\ phase = "local"
    /\ LET one == Mixed(genome[pos], genome[r], k)
           other == Mixed(genome[r], genome[pos], k)
       IN  \/ Better(one, pos) /\ Accept(one, pos)
           \/ ~ Better(one, pos) /\ Better(other, pos) /\ Accept(other, pos)
    /\ UNCHANGED <<parallelGenome, generation, phase>>

LocalSearchEnds ==
    /\ phase = "local"
    /\ phase' = "select"
    /\ UNCHANGED <<genome, fitness, parallelGenome, generation>>

\* A comparison of the bubble sort of select, of the places in the order q.
Swapped(q, j) == [q EXCEPT ![j] = q[j + 1], ![j + 1] = q[j]]
Compared(q, j) == IF fitness[q[j + 1]] < fitness[q[j]] THEN Swapped(q, j) ELSE q

\* Mutant: the last pair is not compared.
PassShort(q) ==
    LET turn[j \in 0 .. gcount] == IF j = 0 THEN q ELSE Compared(turn[j - 1], j)
    IN  turn[gcount - 2]

\* One pass of it, and gcount passes.
Pass(q) ==
    LET turn[j \in 0 .. gcount - 1] == IF j = 0 THEN q ELSE Compared(turn[j - 1], j)
    IN  turn[gcount - 1]

Unsorted == [i \in Places |-> i]

BubbleSorted ==
    LET turn[i \in 0 .. gcount] == IF i = 0 THEN Unsorted ELSE Pass(turn[i - 1])
    IN  turn[gcount]

\* The order q of the places is that of the values, and of equal values the
\* one they were in.
Permutation(q) ==
    /\ q \in [Places -> Places]
    /\ \A i \in Places : \E j \in Places : q[j] = i

StableSort(q) ==
    \A i, j \in Places : i < j =>
        \/ fitness[q[i]] < fitness[q[j]]
        \/ fitness[q[i]] = fitness[q[j]] /\ q[i] < q[j]

\* select puts the chromosomes into this order (SelectSorts).
Select ==
    /\ phase = "select"
    /\ \E q \in [Places -> Places] :
          /\ Permutation(q) /\ StableSort(q)
          /\ genome' = [i \in Places |-> genome[q[i]]]
          /\ fitness' = [i \in Places |-> fitness[q[i]]]
    /\ phase' = "crossover"
    /\ UNCHANGED <<parallelGenome, generation>>

\* (int)((1.0-selection_rate)*gcount): a product that is an integer may come
\* out as the double below it.  An odd number is made even.
Product == (100 - SelectionRate) * gcount
Truncated == {Product \div 100} \cup
             (IF Product > 0 /\ Product % 100 = 0 THEN {Product \div 100 - 1} ELSE {})
ChildSizesUnrounded == Truncated    \* mutant: an odd number stays odd
ChildSizes == {n + (n % 2) : n \in Truncated}

\* The loop writes children in pairs, one pair at least, and they are copied
\* to the last places.
Fits(n) == n % 2 = 0 /\ 2 <= n /\ n <= gcount

\* tournament: eight draws with replacement, so any chromosome can win; those
\* of other islands from the third generation on.
Parents == {genome[i] : i \in Places} \cup (IF generation < 2 THEN {} ELSE parallelGenome)

\* A pair of children: for gene i, alfa is t[i]/2.
Couples == [a : Parents, b : Parents, t : [Genes -> -1 .. 3]]

Blend(m, i) == m.b[i] + (m.t[i] * (m.a[i] - m.b[i])) \div 2

Kept(g, x) == IF Lo <= g /\ g <= Hi THEN g ELSE x

ChildAnywhere(m, second) ==    \* mutant: children may leave the margins
    [i \in Genes |-> IF second THEN m.a[i] + m.b[i] - Blend(m, i) ELSE Blend(m, i)]

Child(m, second) ==
    [i \in Genes |-> IF second THEN Kept(m.a[i] + m.b[i] - Blend(m, i), m.b[i])
                               ELSE Kept(Blend(m, i), m.a[i])]

\* children[j] goes to the place that is j before the last.
WithChildren(n, m) ==
    [i \in Places |-> LET j == gcount - i
                      IN  IF j < n THEN Child(m[j \div 2], j % 2 = 1) ELSE genome[i]]

Crossover ==
    /\ phase = "crossover"
    /\ \E n \in ChildSizes :
          \/ /\ Fits(n)
             /\ \E m \in [0 .. n \div 2 - 1 -> Couples] : genome' = WithChildren(n, m)
             /\ generation' = generation + 1
             /\ phase' = "ready"
          \/ /\ ~ Fits(n)
             /\ phase' = "broken"
             /\ UNCHANGED <<genome, generation>>
    /\ UNCHANGED <<fitness, parallelGenome>>

-----------------------------------------------------------------------------
(* The calls between two generations.                                      *)

\* setGenomes and replaceWorst: the best of them takes the last place.
SetGenomes(S) ==
    /\ phase = "ready"
    /\ parallelGenome' = {f.x : f \in S}
    /\ \/ S = {} /\ UNCHANGED <<genome, fitness>>
       \/ \E f \in S :
             /\ \A h \in S : Abs(f.y) <= Abs(h.y)
             /\ genome' = [genome EXCEPT ![gcount] = f.x]
             /\ fitness' = [fitness EXCEPT ![gcount] = Abs(f.y)]
    /\ UNCHANGED <<generation, phase>>

\* evaluateBestGenome, the last call of a run
EvaluateBest ==
    /\ phase = "ready"
    /\ fitness' = [fitness EXCEPT ![1] = Funmin[genome[1]]]
    /\ UNCHANGED <<genome, parallelGenome, generation, phase>>

Next ==
    \/ Mutate
    \/ \E pos, r \in Places, k \in Genes : LocalSearch(pos, r, k)
    \/ LocalSearchEnds
    \/ Select
    \/ Crossover
    \/ \E S \in SUBSET Foreign : SetGenomes(S)
    \/ EvaluateBest

Spec == Init /\ [][Next]_vars

-----------------------------------------------------------------------------
(* Properties.                                                             *)

\* Every chromosome is a point of the box of the problem: crossover checks the
\* margins of each gene, and nothing else can leave them.
InMargins ==
    /\ \A i \in Places : isPointIn(genome[i])
    /\ \A x \in parallelGenome : isPointIn(x)

\* The places that no crossover and no setGenomes overwrites.
Survivors == {i \in Places : i < gcount /\ \A n \in ChildSizes : Fits(n) => i <= gcount - n}

\* Values and chromosomes are two arrays, and crossover changes one of them.
\* Still the pair that newMinimum reports, and every other survivor, belongs
\* together whenever the population is not inside nextGeneration.
SurvivorsAreEvaluated ==
    phase = "ready" => \A i \in Survivors : fitness[i] = Funmin[genome[i]]

\* The best chromosome is not lost: mutation leaves out the first, select puts
\* the best there, crossover and setGenomes write behind it.  Not so if values
\* can be negative: localSearch compares absolute values.
BestNeverWorsens == [][fitness'[1] <= fitness[1]]_vars

\* crossover writes to children and to the last places of genome, within both.
CrossoverStaysInside == phase # "broken"

\* The bubble sort of select sorts, and keeps the order of equal values.
SelectSorts ==
    phase = "select" => Permutation(BubbleSorted) /\ StableSort(BubbleSorted)
=============================================================================
