--------------------------- MODULE PopulationProof ---------------------------
(***************************************************************************)
(* Proofs about the genetic algorithm of a client, for every objective     *)
(* function, box and number of chromosomes.                                *)
(***************************************************************************)
EXTENDS Population, WellFoundedInduction, TLAPS

USE DEF Places

-----------------------------------------------------------------------------
(* The sizes of the offspring.                                             *)

\* The number of children is an integer.
LEMMA ChildSizesAreIntegers == ChildSizes \subseteq Int
<1>1. SelectionRate \in Int /\ gcount \in Int
  BY SizeAssumption
<1>2. Product \in Int
  BY <1>1 DEF Product
<1>3. Truncated \subseteq Int
  BY <1>2 DEF Truncated
<1> QED
  BY <1>3 DEF ChildSizes

\* Neither so few children that there is no pair, nor so many that the first
\* chromosome is overwritten.  At the rate of 10 percent that Global starts with,
\* and at the 90 of Population, this asks for more than 10 chromosomes.
EnoughChromosomes == Product > 100 /\ SelectionRate * gcount > 100

\* The number of children fits the arrays, whichever way the product rounds.
LEMMA ChildrenFit ==
    ASSUME EnoughChromosomes, NEW n \in ChildSizes
    PROVE  Fits(n) /\ n < gcount
<1>1. gcount \in Int /\ SelectionRate \in Int /\ Product \in Int
  BY SizeAssumption DEF Product
<1>2. Product = 100 * gcount - SelectionRate * gcount
  BY <1>1 DEF Product
<1>3. SelectionRate * gcount \in Int
  BY <1>1
<1>4. Product > 100 /\ Product < 100 * gcount - 100
  BY <1>1, <1>2, <1>3 DEF EnoughChromosomes
<1>5. /\ Product \div 100 \in Int
      /\ Product \div 100 >= 1 /\ Product \div 100 < gcount - 1
      /\ Product % 100 = 0 => Product \div 100 >= 2
  BY <1>1, <1>4
<1>6. PICK k \in Truncated : n = k + (k % 2)
  BY DEF ChildSizes
<1>7. k \in Int /\ 1 <= k /\ k < gcount - 1
  BY <1>1, <1>5, <1>6 DEF Truncated
<1>8. k % 2 \in {0, 1} /\ n % 2 = 0 /\ (k = 1 => k % 2 = 1)
  BY <1>6, <1>7
<1> QED
  BY <1>1, <1>6, <1>7, <1>8 DEF Fits

\* With enough chromosomes the first survives every crossover.
LEMMA FirstSurvives == EnoughChromosomes => 1 \in Survivors
<1> SUFFICES ASSUME EnoughChromosomes PROVE 1 \in Survivors
  OBVIOUS
<1>1. gcount \in Nat /\ gcount > 1
  BY SizeAssumption
<1>2. \A n \in ChildSizes : 1 <= gcount - n
  BY <1>1, ChildSizesAreIntegers, ChildrenFit
<1> QED
  BY <1>1, <1>2 DEF Survivors

-----------------------------------------------------------------------------
(* The inductive invariant.  Inside nextGeneration, after calcFitness and  *)
(* until crossover writes the children, every value is that of its         *)
(* chromosome; between the calls only those of the survivors are.          *)

PopType ==
    /\ genome \in [Places -> Box]
    /\ fitness \in [Places -> Int]
    /\ parallelGenome \subseteq Box
    /\ generation \in Nat
    /\ phase \in {"ready", "local", "select", "crossover", "broken"}

InsideIsEvaluated ==
    phase \in {"local", "select", "crossover"} => fitness = Evaluated(genome)

PopInv == PopType /\ InsideIsEvaluated /\ SurvivorsAreEvaluated

\* The values of the objective function are integers.
LEMMA EvaluatedType ==
    ASSUME NEW g \in [Places -> Box]
    PROVE  /\ Evaluated(g) \in [Places -> Int]
           /\ \A i \in Places : Evaluated(g)[i] = Funmin[g[i]] /\ Funmin[g[i]] \in Int
BY BoxAssumption DEF Evaluated

\* The constructor establishes the invariant.
LEMMA InitPop == Init => PopInv
<1> SUFFICES ASSUME Init PROVE PopInv
  OBVIOUS
<1>1. PopType
  BY EvaluatedType DEF Init, PopType
<1>2. SurvivorsAreEvaluated
  BY EvaluatedType DEF Init, SurvivorsAreEvaluated, Survivors
<1> QED
  BY <1>1, <1>2 DEF PopInv, InsideIsEvaluated, Init

\* mutate and calcFitness evaluate every chromosome, and leave the first alone.
LEMMA MutatePop ==
    ASSUME PopInv, Mutate
    PROVE  PopInv' /\ (EnoughChromosomes => fitness'[1] = fitness[1])
<1>0. 1 \in Places /\ gcount \in Nat
  BY SizeAssumption
<1>1. genome' \in [Places -> Box] /\ genome'[1] = genome[1]
  <2>1. PICK m \in [2 .. gcount -> Box] :
          genome' = IF generation = 0 THEN genome
                    ELSE [i \in Places |-> IF i = 1 THEN genome[1] ELSE m[i]]
    BY DEF Mutate
  <2>2. \A i \in Places : i # 1 => m[i] \in Box
    BY <1>0
  <2> QED
    BY <1>0, <2>1, <2>2 DEF PopInv, PopType
<1>2. fitness' = Evaluated(genome') /\ fitness' \in [Places -> Int]
  BY <1>1, EvaluatedType DEF Mutate
<1>3. PopType'
  BY <1>1, <1>2 DEF Mutate, PopInv, PopType
<1>4. PopInv'
  BY <1>2, <1>3 DEF PopInv, InsideIsEvaluated, SurvivorsAreEvaluated, Mutate
<1>5. EnoughChromosomes => fitness'[1] = fitness[1]
  BY <1>0, <1>1, <1>2, FirstSurvives DEF PopInv, SurvivorsAreEvaluated, Mutate, Evaluated
<1> QED
  BY <1>4, <1>5

\* A chromosome that is stored with its own value keeps the values right.
LEMMA AcceptPop ==
    ASSUME PopInv, phase \in {"local", "select", "crossover"},
           UNCHANGED <<parallelGenome, generation, phase>>,
           NEW g \in Box, NEW pos \in Places, Accept(g, pos)
    PROVE  PopInv'
<1>1. /\ genome' \in [Places -> Box]
      /\ Funmin[g] \in Int
  BY BoxAssumption DEF Accept, PopInv, PopType
<1>2. PopType'
  BY <1>1 DEF Accept, PopInv, PopType
<1>3. fitness' = Evaluated(genome')
  BY <1>1 DEF Accept, PopInv, PopType, InsideIsEvaluated, Evaluated
<1> QED
  BY <1>2, <1>3 DEF PopInv, InsideIsEvaluated, SurvivorsAreEvaluated

\* localSearch mixes chromosomes of the box, and stores what is nearer to 0.
LEMMA LocalSearchPop ==
    ASSUME PopInv, NEW pos \in Places, NEW r \in Places, NEW k \in Genes,
           LocalSearch(pos, r, k)
    PROVE  /\ PopInv'
           /\ \A i \in Places : fitness'[i] = fitness[i]
                                \/ Abs(fitness'[i]) < Abs(fitness[i])
<1>1. PICK g \in {Mixed(genome[pos], genome[r], k), Mixed(genome[r], genome[pos], k)} :
        Better(g, pos) /\ Accept(g, pos)
  BY DEF LocalSearch
<1>2. g \in Box
  BY <1>1, SMTT(30) DEF PopInv, PopType, Box, Mixed
<1>3. PopInv'
  BY <1>1, <1>2, AcceptPop DEF LocalSearch
<1>4. \A i \in Places : fitness'[i] = fitness[i] \/ Abs(fitness'[i]) < Abs(fitness[i])
  BY <1>1 DEF Accept, Better, PopInv, PopType
<1> QED
  BY <1>3, <1>4

\* select moves chromosomes and values together, the smallest value first.
LEMMA SelectPop ==
    ASSUME PopInv, Select
    PROVE  PopInv' /\ fitness'[1] <= fitness[1]
<1>0. 1 \in Places /\ gcount \in Nat
  BY SizeAssumption
<1>1. PICK q \in [Places -> Places] :
        /\ Permutation(q) /\ StableSort(q)
        /\ genome' = [i \in Places |-> genome[q[i]]]
        /\ fitness' = [i \in Places |-> fitness[q[i]]]
  BY DEF Select
<1>2. PopType'
  BY <1>1 DEF Select, PopInv, PopType
<1>3. fitness' = Evaluated(genome')
  BY <1>1 DEF Select, PopInv, PopType, InsideIsEvaluated, Evaluated
<1>4. PopInv'
  BY <1>2, <1>3 DEF PopInv, InsideIsEvaluated, SurvivorsAreEvaluated, Select
<1>5. fitness'[1] <= fitness[1]
  <2>1. PICK j \in Places : q[j] = 1
    BY <1>0, <1>1 DEF Permutation
  <2>2. 1 = j \/ 1 < j
    BY <1>0
  <2>3. fitness[q[1]] \in Int /\ fitness[q[j]] \in Int
    BY <1>0, <1>1 DEF PopInv, PopType
  <2>4. 1 < j => fitness[q[1]] <= fitness[q[j]]
    <3> HAVE 1 < j
    <3>1. \/ fitness[q[1]] < fitness[q[j]]
          \/ fitness[q[1]] = fitness[q[j]] /\ q[1] < q[j]
      BY <1>0, <1>1 DEF StableSort
    <3> QED
      BY <2>3, <3>1
  <2>5. fitness[q[1]] <= fitness[q[j]]
    BY <2>2, <2>3, <2>4
  <2> QED
    BY <1>0, <1>1, <2>1, <2>5
<1> QED
  BY <1>4, <1>5

\* The margin test of crossover keeps every gene in the box.
LEMMA ChildInBox ==
    ASSUME PopInv, NEW m \in Couples, NEW second \in BOOLEAN
    PROVE  Child(m, second) \in Box
<1>1. m.a \in Box /\ m.b \in Box /\ m.t \in [Genes -> -1 .. 3]
  BY DEF Couples, Parents, PopInv, PopType
<1>2. Lo \in Int /\ Hi \in Int
  BY BoxAssumption
<1>3. ASSUME NEW i \in Genes
      PROVE  /\ Kept(m.a[i] + m.b[i] - Blend(m, i), m.b[i]) \in Lo .. Hi
             /\ Kept(Blend(m, i), m.a[i]) \in Lo .. Hi
  <2>1. m.a[i] \in Lo .. Hi /\ m.b[i] \in Lo .. Hi /\ m.t[i] \in Int
    BY <1>1 DEF Box
  <2>2. m.t[i] * (m.a[i] - m.b[i]) \in Int
    BY <1>2, <2>1
  <2>3. Blend(m, i) \in Int
    BY <1>2, <2>1, <2>2 DEF Blend
  <2> QED
    BY <1>2, <2>1, <2>3 DEF Kept
<1> QED
  BY <1>3 DEF Child, Box

\* crossover overwrites the places behind the survivors.
LEMMA CrossoverPop ==
    ASSUME PopInv, Crossover
    PROVE  PopInv' /\ fitness' = fitness
<1>0. gcount \in Nat
  BY SizeAssumption
<1>1. fitness' = fitness
  BY DEF Crossover
<1>2. ASSUME NEW n \in ChildSizes, Fits(n),
             NEW m \in [0 .. n \div 2 - 1 -> Couples], genome' = WithChildren(n, m),
             generation' = generation + 1, phase' = "ready"
      PROVE  PopInv'
  <2>0. n \in Int
    BY ChildSizesAreIntegers
  <2>1. ASSUME NEW i \in Places
        PROVE  /\ genome'[i] \in Box
               /\ i <= gcount - n => genome'[i] = genome[i]
    <3>1. CASE gcount - i < n
      <4>1. (gcount - i) \div 2 \in 0 .. n \div 2 - 1
        BY <1>0, <1>2, <2>0, <3>1 DEF Fits
      <4>2. m[(gcount - i) \div 2] \in Couples
        BY <4>1
      <4>3. genome'[i] = Child(m[(gcount - i) \div 2], (gcount - i) % 2 = 1)
        BY <1>2, <3>1 DEF WithChildren
      <4>4. ((gcount - i) % 2 = 1) \in BOOLEAN
        OBVIOUS
      <4>5. genome'[i] \in Box
        BY <4>2, <4>3, <4>4, ChildInBox
      <4> QED
        BY <1>0, <2>0, <3>1, <4>5
    <3>2. CASE ~ gcount - i < n
      BY <1>2, <3>2 DEF WithChildren, PopInv, PopType
    <3> QED
      BY <3>1, <3>2
  <2>2. genome' \in [Places -> Box]
    BY <1>2, <2>1 DEF WithChildren
  <2>3. PopType'
    BY <1>1, <1>2, <2>2 DEF PopInv, PopType, Crossover
  <2>4. \A i \in Survivors : fitness'[i] = Funmin[genome'[i]]
    <3>1. \A i \in Survivors : i \in Places /\ i <= gcount - n
      BY <1>2 DEF Survivors
    <3> QED
      BY <1>1, <2>1, <3>1 DEF PopInv, InsideIsEvaluated, Crossover, Evaluated
  <2> QED
    BY <1>2, <2>3, <2>4 DEF PopInv, InsideIsEvaluated, SurvivorsAreEvaluated
<1>3. ASSUME phase' = "broken", UNCHANGED <<genome, generation>>
      PROVE  PopInv'
  BY <1>1, <1>3 DEF PopInv, PopType, InsideIsEvaluated, SurvivorsAreEvaluated, Crossover
<1> QED
  BY <1>1, <1>2, <1>3 DEF Crossover

\* setGenomes writes to the last place, which is no survivor.
LEMMA SetGenomesPop ==
    ASSUME PopInv, NEW S \in SUBSET Foreign, SetGenomes(S)
    PROVE  PopInv' /\ fitness'[1] = fitness[1]
<1>0. gcount \in Nat /\ gcount > 1 /\ 1 \in Places
  BY SizeAssumption
<1>1. \A f \in S : f.x \in Box /\ f.y \in Int
  BY ForeignAssumption
<1>2. parallelGenome' \subseteq Box
  BY <1>1 DEF SetGenomes
<1>3. CASE S = {} /\ UNCHANGED <<genome, fitness>>
  BY <1>2, <1>3 DEF SetGenomes, PopInv, PopType, InsideIsEvaluated, SurvivorsAreEvaluated
<1>4. ASSUME NEW f \in S,
             genome' = [genome EXCEPT ![gcount] = f.x],
             fitness' = [fitness EXCEPT ![gcount] = Abs(f.y)]
      PROVE  PopInv' /\ fitness'[1] = fitness[1]
  <2>1. Abs(f.y) \in Int
    BY <1>1 DEF Abs
  <2>2. PopType'
    BY <1>1, <1>2, <1>4, <2>1 DEF SetGenomes, PopInv, PopType
  <2>3. \A i \in Places : i # gcount => genome'[i] = genome[i] /\ fitness'[i] = fitness[i]
    BY <1>4 DEF PopInv, PopType
  <2>4. \A i \in Survivors : i \in Places /\ i # gcount
    BY <1>0 DEF Survivors
  <2> QED
    BY <1>0, <2>2, <2>3, <2>4
       DEF SetGenomes, PopInv, InsideIsEvaluated, SurvivorsAreEvaluated
<1> QED
  BY <1>3, <1>4 DEF SetGenomes

\* evaluateBestGenome finds the value it computes.
LEMMA EvaluateBestPop ==
    ASSUME PopInv, EvaluateBest
    PROVE  PopInv' /\ (EnoughChromosomes => fitness' = fitness)
<1>1. 1 \in Places /\ Funmin[genome[1]] \in Int
  BY SizeAssumption, BoxAssumption DEF PopInv, PopType
<1>2. PopInv'
  BY <1>1 DEF EvaluateBest, PopInv, PopType, InsideIsEvaluated, SurvivorsAreEvaluated, Survivors
<1>3. EnoughChromosomes => fitness' = fitness
  BY FirstSurvives DEF EvaluateBest, PopInv, PopType, SurvivorsAreEvaluated
<1> QED
  BY <1>2, <1>3

\* Every step keeps the invariant.
LEMMA StepPop == PopInv /\ [Next]_vars => PopInv'
<1> SUFFICES ASSUME PopInv, [Next]_vars PROVE PopInv'
  OBVIOUS
<1>1. CASE UNCHANGED vars
  BY <1>1 DEF vars, PopInv, PopType, InsideIsEvaluated, SurvivorsAreEvaluated
<1>2. CASE LocalSearchEnds
  BY <1>2 DEF LocalSearchEnds, PopInv, PopType, InsideIsEvaluated, SurvivorsAreEvaluated
<1> QED
  BY <1>1, <1>2, MutatePop, LocalSearchPop, SelectPop, CrossoverPop, SetGenomesPop,
     EvaluateBestPop DEF Next

\* The invariant holds of every behaviour.
LEMMA PopInvAlways == Spec => []PopInv
BY InitPop, StepPop, PTL DEF Spec

-----------------------------------------------------------------------------
(* Theorems.                                                               *)

\* No chromosome leaves the box of the problem, although crossover looks for
\* genes beyond the parents: the objective function is called inside its box.
THEOREM InMarginsAlways == Spec => []InMargins
<1>1. PopInv => InMargins
  BY DEF PopInv, PopType, InMargins, isPointIn
<1> QED
  BY <1>1, PopInvAlways, PTL

\* The pair of chromosome and value that newMinimum reports belongs together,
\* and so does that of every chromosome that crossover left alone.
THEOREM SurvivorsAlwaysEvaluated == Spec => []SurvivorsAreEvaluated
<1>1. PopInv => SurvivorsAreEvaluated
  BY DEF PopInv
<1> QED
  BY <1>1, PopInvAlways, PTL

NonNegative == \A x \in Box : Funmin[x] >= 0

\* A function that is never negative is minimised: the best value a population
\* has found never gets worse.  Both conditions are needed: localSearch compares
\* absolute values, and the children of few chromosomes overwrite the first.
THEOREM BestIsNeverLost ==
    NonNegative /\ EnoughChromosomes => (Spec => BestNeverWorsens)
<1> SUFFICES ASSUME NonNegative, EnoughChromosomes PROVE Spec => BestNeverWorsens
  OBVIOUS
<1>1. ASSUME PopInv, [Next]_vars PROVE [fitness'[1] <= fitness[1]]_vars
  <2>0. 1 \in Places /\ fitness[1] \in Int
    BY <1>1, SizeAssumption DEF PopInv, PopType
  <2>1. CASE UNCHANGED vars
    BY <2>1
  <2>2. CASE Mutate
    BY <1>1, <2>0, <2>2, MutatePop
  <2>3. ASSUME NEW pos \in Places, NEW r \in Places, NEW k \in Genes,
               LocalSearch(pos, r, k)
        PROVE  fitness'[1] <= fitness[1]
    <3>1. fitness'[1] = fitness[1] \/ Abs(fitness'[1]) < Abs(fitness[1])
      BY <1>1, <2>0, <2>3, LocalSearchPop
    <3>2. fitness'[1] \in Int
      BY <1>1, <2>0, <2>3, LocalSearchPop DEF PopInv, PopType
    <3>3. fitness[1] >= 0
      BY <1>1, <2>0, <2>3 DEF LocalSearch, PopInv, PopType, InsideIsEvaluated, Evaluated,
                              NonNegative
    <3> QED
      BY <2>0, <3>1, <3>2, <3>3 DEF Abs
  <2>4. CASE LocalSearchEnds
    BY <2>0, <2>4 DEF LocalSearchEnds
  <2>5. CASE Select
    BY <1>1, <2>5, SelectPop
  <2>6. CASE Crossover
    BY <1>1, <2>0, <2>6, CrossoverPop
  <2>7. ASSUME NEW S \in SUBSET Foreign, SetGenomes(S) PROVE fitness'[1] <= fitness[1]
    BY <1>1, <2>0, <2>7, SetGenomesPop
  <2>8. CASE EvaluateBest
    BY <1>1, <2>0, <2>8, EvaluateBestPop
  <2> QED
    BY <1>1, <2>1, <2>2, <2>3, <2>4, <2>5, <2>6, <2>7, <2>8 DEF Next
<1> QED
  BY <1>1, PopInvAlways, PTL DEF Spec, BestNeverWorsens

\* With enough chromosomes crossover never writes outside its arrays.
THEOREM CrossoverAlwaysInside == EnoughChromosomes => (Spec => []CrossoverStaysInside)
<1> SUFFICES ASSUME EnoughChromosomes PROVE Spec => []CrossoverStaysInside
  OBVIOUS
<1>1. Init => CrossoverStaysInside
  BY DEF Init, CrossoverStaysInside
<1>2. CrossoverStaysInside /\ [Next]_vars => CrossoverStaysInside'
  BY ChildrenFit DEF CrossoverStaysInside, Next, vars, Mutate, LocalSearch, LocalSearchEnds,
                     Select, Crossover, SetGenomes, EvaluateBest
<1> QED
  BY <1>1, <1>2, PTL DEF Spec
-----------------------------------------------------------------------------
(* The bubble sort of select.                                              *)

\* The types, as Population states them.
THEOREM PopulationTypeCorrect == Spec => []TypeOK
<1>1. Box \subseteq Data
  BY BoxAssumption DEF Box, Data
<1>2. PopInv => TypeOK
  BY <1>1 DEF PopInv, PopType, TypeOK
<1> QED
  BY <1>2, PopInvAlways, PTL

Orders == [Places -> Places]

\* A set of natural numbers has a least element.
LEMMA Least ==
    ASSUME NEW S \in SUBSET Nat, S # {}
    PROVE  \E m \in S : \A k \in S : m <= k
<1> DEFINE R == {p \in Nat \X Nat : p[1] < p[2]}
<1>1. OpToRel(<, Nat) = R
  BY Zenon DEF OpToRel
<1>2. IsWellFoundedOn(R, Nat)
  BY <1>1, NatLessThanWellFounded, Zenon
<1>3. PICK m \in S : \A k \in S : ~ (<<k, m>> \in R)
  <2> HIDE DEF R
  <2> QED  BY <1>2, WFMin, Zenon
<1>4. ASSUME NEW k \in S PROVE m <= k
  <2>1. k \in Nat /\ m \in Nat
    OBVIOUS
  <2>2. k < m => <<k, m>> \in R
    BY <2>1
  <2> QED  BY <1>3, <2>1, <2>2
<1> QED  BY <1>4

\* g are the values of a loop of n turns that begins with d, T[<<v, k>>] being
\* what turn k makes of v.  They exist, and what every turn keeps holds at the
\* end.
IsLoopOf(g, n, d, T) == g[0] = d /\ \A k \in 1 .. n : g[k] = T[<<g[k - 1], k>>]

LEMMA Loop ==
    ASSUME NEW n \in Nat, NEW V, NEW d \in V, NEW T \in [V \X (1 .. n) -> V]
    PROVE  \E g \in [0 .. n -> V] : IsLoopOf(g, n, d, T)
<1> DEFINE IsLoop(g, m) ==
              /\ g \in [0 .. m -> V] /\ g[0] = d
              /\ \A k \in 1 .. m : g[k] = T[<<g[k - 1], k>>]
           Bad == {m \in 0 .. n : ~ \E g : IsLoop(g, m)}
<1>1. Bad = {}
  <2> SUFFICES ASSUME Bad # {} PROVE FALSE
    OBVIOUS
  <2>1. PICK m \in Bad : \A j \in Bad : m <= j
    <3>1. Bad \in SUBSET Nat
      OBVIOUS
    <3> QED  BY <3>1, Least
  <2>2. m # 0
    <3>1. IsLoop([k \in 0 .. 0 |-> d], 0)
      OBVIOUS
    <3> QED  BY <2>1, <3>1
  <2>3. m - 1 \in 0 .. n /\ m - 1 \notin Bad /\ m \in 1 .. n
    <3> HIDE DEF IsLoop
    <3> QED  BY <2>1, <2>2
  <2>4. PICK g : IsLoop(g, m - 1)
    BY <2>3
  <2> DEFINE h == [k \in 0 .. m |-> IF k = m THEN T[<<g[m - 1], m>>] ELSE g[k]]
  <2>5. g[m - 1] \in V
    BY <2>3, <2>4
  <2>6. T[<<g[m - 1], m>>] \in V
    BY <2>3, <2>5
  <2>7. h \in [0 .. m -> V] /\ h[0] = d
    BY <2>3, <2>4, <2>6
  <2>8. ASSUME NEW k \in 1 .. m PROVE h[k] = T[<<h[k - 1], k>>]
    <3>1. CASE k = m
      <4>1. h[m] = T[<<g[m - 1], m>>] /\ h[m - 1] = g[m - 1]
        BY <2>3
      <4> QED  BY <3>1, <4>1
    <3>2. CASE k # m
      <4>1. k \in 1 .. m - 1 /\ k - 1 \in 0 .. m - 1 /\ k - 1 # m
        BY <2>3, <3>2
      <4>2. h[k] = g[k] /\ h[k - 1] = g[k - 1]
        BY <2>3, <3>2, <4>1
      <4> QED  BY <2>4, <4>1, <4>2
    <3> QED  BY <3>1, <3>2
  <2>9. IsLoop(h, m)
    <3> HIDE DEF h
    <3> QED  BY <2>7, <2>8
  <2> QED  BY <2>1, <2>9
<1>2. PICK g : IsLoop(g, n)
  BY <1>1
<1> QED  BY <1>2 DEF IsLoopOf

LEMMA LoopKeeps ==
    ASSUME NEW n \in Nat, NEW g, NEW G, g[0] \in G[0],
           \A k \in 1 .. n : g[k - 1] \in G[k - 1] => g[k] \in G[k]
    PROVE  g[n] \in G[n]
<1> DEFINE Bad == {k \in 0 .. n : g[k] \notin G[k]}
<1> SUFFICES ASSUME Bad # {} PROVE FALSE
  OBVIOUS
<1>1. PICK m \in Bad : \A j \in Bad : m <= j
  <2>1. Bad \in SUBSET Nat
    OBVIOUS
  <2> QED  BY <2>1, Least
<1>2. m # 0
  BY <1>1
<1>3. m \in 1 .. n /\ m - 1 \in 0 .. n /\ m - 1 \notin Bad
  BY <1>1, <1>2
<1> QED  BY <1>1, <1>3

-----------------------------------------------------------------------------
\* The place k holds none smaller than those before it.
LargestAt(q, k) == \A m \in Places : m < k => fitness[q[m]] <= fitness[q[k]]

\* q is an order of the places; equal values are in the order they were in.
StableOrder(q) ==
    /\ q \in Orders
    /\ \A i \in Places : \E j \in Places : q[j] = i
    /\ \A i, j \in Places : i < j /\ fitness[q[i]] = fitness[q[j]] => q[i] < q[j]

\* After j comparisons of a pass, the places behind b being in order before it.
Bubbled(q, b, j) ==
    /\ StableOrder(q)
    /\ \A k \in Places : k > b \/ k = j + 1 \/ (k = b /\ b <= j) => LargestAt(q, k)

LEMMA ComparedIsOrder ==
    ASSUME NEW q \in Orders, NEW j \in 1 .. gcount - 1
    PROVE  Compared(q, j) \in Orders
<1>1. gcount \in Nat /\ j \in Places /\ j + 1 \in Places
  BY SizeAssumption
<1> QED  BY <1>1 DEF Compared, Swapped, Orders

LEMMA ComparedStable ==
    ASSUME PopType, NEW q, StableOrder(q), NEW j \in 1 .. gcount - 1
    PROVE  StableOrder(Compared(q, j))
<1> DEFINE s == Compared(q, j)
<1>1. gcount \in Nat /\ j \in Places /\ j + 1 \in Places /\ j < j + 1 /\ j \in Int
  BY SizeAssumption
<1>2. q \in Orders /\ fitness \in [Places -> Int]
  BY DEF StableOrder, PopType
<1>3. CASE ~ fitness[q[j + 1]] < fitness[q[j]]
  BY <1>3 DEF Compared
<1>4. CASE fitness[q[j + 1]] < fitness[q[j]]
  <2>1. s \in Orders
    BY <1>2, ComparedIsOrder
  <2>2. /\ s[j] = q[j + 1] /\ s[j + 1] = q[j]
        /\ \A k \in Places : k # j /\ k # j + 1 => s[k] = q[k]
    BY <1>1, <1>2, <1>4 DEF Compared, Swapped, Orders
  <2> HIDE DEF s
  <2>3. ASSUME NEW i \in Places PROVE \E k \in Places : s[k] = i
    <3>1. PICK k \in Places : q[k] = i
      BY DEF StableOrder
    <3>2. CASE k = j
      BY <1>1, <2>2, <3>1, <3>2
    <3>3. CASE k = j + 1
      BY <1>1, <2>2, <3>1, <3>3
    <3>4. CASE k # j /\ k # j + 1
      BY <2>2, <3>1, <3>4
    <3> QED  BY <3>2, <3>3, <3>4
  <2>4. ASSUME NEW i \in Places, NEW k \in Places, i < k, fitness[s[i]] = fitness[s[k]]
        PROVE  s[i] < s[k]
    <3>1. \A m \in Places : fitness[q[m]] \in Int /\ q[m] \in Places
      BY <1>2 DEF Orders
    <3>2. ~ (i = j /\ k = j + 1)
      BY <1>1, <1>4, <2>2, <2>4, <3>1
    <3>3. \A m, n \in Places : m < n /\ fitness[q[m]] = fitness[q[n]] => q[m] < q[n]
      BY DEF StableOrder
    <3>4. CASE i # j /\ i # j + 1 /\ k # j /\ k # j + 1
      BY <2>2, <2>4, <3>3, <3>4
    <3>5. CASE i = j \/ i = j + 1
      <4>1. k # j /\ k # j + 1 /\ j < k /\ j + 1 < k
        BY <1>1, <2>4, <3>2, <3>5
      <4>2. s[k] = q[k]
        BY <2>2, <4>1
      <4> QED  BY <1>1, <2>2, <2>4, <3>3, <3>5, <4>1, <4>2
    <3>6. CASE k = j \/ k = j + 1
      <4>1. i # j /\ i # j + 1 /\ i < j /\ i < j + 1
        BY <1>1, <2>4, <3>2, <3>6
      <4>2. s[i] = q[i]
        BY <2>2, <4>1
      <4> QED  BY <1>1, <2>2, <2>4, <3>3, <3>6, <4>1, <4>2
    <3> QED  BY <3>4, <3>5, <3>6
  <2> QED  BY <2>1, <2>3, <2>4 DEF StableOrder, s
<1> QED  BY <1>3, <1>4

\* A comparison carries the largest value so far one place on, and leaves the
\* places behind b alone.
LEMMA ComparedBubbles ==
    ASSUME PopType, NEW b \in Nat, NEW q, NEW j \in 1 .. gcount - 1, Bubbled(q, b, j - 1)
    PROVE  Bubbled(Compared(q, j), b, j)
<1> DEFINE s == Compared(q, j)
<1>1. gcount \in Nat /\ j \in Places /\ j + 1 \in Places /\ j \in Int
  BY SizeAssumption
<1>2. StableOrder(q) /\ q \in Orders /\ fitness \in [Places -> Int]
  BY DEF Bubbled, StableOrder, PopType
<1>3. StableOrder(s)
  BY <1>2, ComparedStable
<1>4. \A m \in Places : fitness[q[m]] \in Int
  BY <1>2 DEF Orders
<1>5. LargestAt(q, j)
  BY <1>1 DEF Bubbled
<1>6. ASSUME NEW k \in Places, k > b \/ k = j + 1 \/ (k = b /\ b <= j)
      PROVE  LargestAt(s, k)
  <2>1. k > b \/ (k = b /\ b <= j - 1) => LargestAt(q, k)
    BY DEF Bubbled
  <2>2. CASE ~ fitness[q[j + 1]] < fitness[q[j]]
    <3>1. s = q
      BY <2>2 DEF Compared
    <3>2. CASE k = j + 1
      <4>1. ASSUME NEW m \in Places, m < k PROVE fitness[q[m]] <= fitness[q[k]]
        <5>1. m = j \/ m < j
          BY <1>1, <3>2, <4>1
        <5>2. fitness[q[m]] <= fitness[q[j]]
          BY <1>1, <1>4, <1>5, <5>1 DEF LargestAt
        <5> QED  BY <1>1, <1>4, <2>2, <3>2, <5>2
      <4> QED  BY <3>1, <4>1 DEF LargestAt
    <3>3. CASE k # j + 1
      <4>1. k > b \/ (k = b /\ b <= j - 1) \/ k = j
        BY <1>1, <1>6, <3>3
      <4> QED  BY <1>5, <2>1, <3>1, <4>1
    <3> QED  BY <3>2, <3>3
  <2>3. CASE fitness[q[j + 1]] < fitness[q[j]]
    <3>1. /\ s[j] = q[j + 1] /\ s[j + 1] = q[j]
          /\ \A m \in Places : m # j /\ m # j + 1 => s[m] = q[m]
      BY <1>1, <1>2, <2>3 DEF Compared, Swapped, Orders
    <3> HIDE DEF s
    <3>2. ~ j + 1 > b
      <4>1. j + 1 > b => LargestAt(q, j + 1)
        BY <1>1 DEF Bubbled
      <4>2. ~ LargestAt(q, j + 1)
        BY <1>1, <1>4, <2>3 DEF LargestAt
      <4> QED  BY <4>1, <4>2
    <3>3. k >= j + 1
      BY <1>1, <1>6, <3>2
    <3>4. ASSUME NEW m \in Places, m < k PROVE fitness[s[m]] <= fitness[s[k]]
      <4>1. CASE k = j + 1
        <5>1. CASE m = j
          BY <1>1, <1>4, <2>3, <3>1, <4>1, <5>1
        <5>2. CASE m # j
          <6>1. m < j /\ m # j + 1
            BY <1>1, <3>4, <4>1, <5>2
          <6>2. fitness[q[m]] <= fitness[q[j]]
            BY <1>5, <6>1 DEF LargestAt
          <6> QED  BY <3>1, <4>1, <5>2, <6>1, <6>2
        <5> QED  BY <5>1, <5>2
      <4>2. CASE k # j + 1
        <5>1. k > j + 1 /\ s[k] = q[k]
          BY <1>1, <3>1, <3>3, <4>2
        <5>2. LargestAt(q, k)
          <6>1. k > b
            BY <1>1, <1>6, <3>2, <4>2, <5>1
          <6> QED  BY <2>1, <6>1
        <5>3. PICK n \in Places : n < k /\ s[m] = q[n]
          <6>1. CASE m = j
            BY <1>1, <3>1, <5>1, <6>1
          <6>2. CASE m = j + 1
            BY <1>1, <3>1, <5>1, <6>2
          <6>3. CASE m # j /\ m # j + 1
            BY <3>1, <3>4, <6>3
          <6> QED  BY <6>1, <6>2, <6>3
        <5> QED  BY <5>1, <5>2, <5>3 DEF LargestAt
      <4> QED  BY <4>1, <4>2
    <3> QED  BY <3>4 DEF LargestAt
  <2> QED  BY <2>2, <2>3
<1> QED  BY <1>3, <1>6 DEF Bubbled
\* The values of the loops of Pass and of BubbleSorted.
LEMMA PassTurns ==
    ASSUME NEW q \in Orders
    PROVE  \E g \in [0 .. gcount - 1 -> Orders] :
              /\ g[0] = q /\ \A j \in 1 .. gcount - 1 : g[j] = Compared(g[j - 1], j)
              /\ Pass(q) = g[gcount - 1]
<1> DEFINE n == gcount - 1
           IsLoop(g) == g = [j \in 0 .. n |-> IF j = 0 THEN q ELSE Compared(g[j - 1], j)]
           turn == CHOOSE g : IsLoop(g)
           T == [p \in Orders \X (1 .. n) |-> Compared(p[1], p[2])]
<1>1. n \in Nat
  BY SizeAssumption
<1>2. T \in [Orders \X (1 .. n) -> Orders]
  BY ComparedIsOrder
<1>3. \A s \in Orders, j \in 1 .. n : T[<<s, j>>] = Compared(s, j)
  OBVIOUS
<1> HIDE DEF T
<1>4. PICK g \in [0 .. n -> Orders] : IsLoopOf(g, n, q, T)
  <2> HIDE DEF n
  <2> QED  BY <1>1, <1>2, Loop
<1>5. IsLoop(g)
  <2>1. \A k \in 1 .. n : g[k - 1] \in Orders
    BY <1>1
  <2>2. \A k \in 1 .. n : g[k] = Compared(g[k - 1], k)
    BY <1>3, <1>4, <2>1 DEF IsLoopOf
  <2>3. \A k \in 0 .. n : k = 0 \/ k \in 1 .. n
    BY <1>1
  <2> QED  BY <1>4, <2>2, <2>3 DEF IsLoopOf
<1>6. IsLoop(turn)
  <2> HIDE DEF IsLoop
  <2> QED  BY <1>5
<1>7. Pass(q) = turn[n]
  BY DEF Pass
<1> HIDE DEF turn
<1>8. ASSUME NEW h, IsLoop(h)
      PROVE  h[0] = q /\ \A j \in 1 .. n : h[j] = Compared(h[j - 1], j)
  BY <1>1, <1>8
<1>9. ASSUME NEW j \in 0 .. n PROVE turn[j] \in Orders
  <2> DEFINE G == [i \in 0 .. n |-> Orders]
  <2>1. \A i \in 1 .. j : turn[i - 1] \in G[i - 1] => turn[i] \in G[i]
    BY <1>1, <1>6, <1>8, ComparedIsOrder
  <2>2. turn[0] \in G[0]
    BY <1>1, <1>6, <1>8
  <2>3. j \in Nat
    OBVIOUS
  <2>4. turn[j] \in G[j]
    <3> HIDE DEF G
    <3> QED  BY <2>1, <2>2, <2>3, LoopKeeps
  <2> QED  BY <2>4
<1>10. turn \in [0 .. n -> Orders]
  BY <1>6, <1>9
<1> QED  BY <1>6, <1>7, <1>8, <1>10

\* A pass brings one more place into order.
LEMMA PassBubbles ==
    ASSUME PopType, NEW b \in Places, NEW q, Bubbled(q, b, 0)
    PROVE  StableOrder(Pass(q)) /\ \A k \in Places : k >= b => LargestAt(Pass(q), k)
<1>1. gcount \in Nat /\ gcount - 1 \in Nat /\ b \in Nat /\ b <= gcount
  BY SizeAssumption
<1>2. q \in Orders
  BY DEF Bubbled, StableOrder
<1>3. PICK g \in [0 .. gcount - 1 -> Orders] :
          /\ g[0] = q /\ \A j \in 1 .. gcount - 1 : g[j] = Compared(g[j - 1], j)
          /\ Pass(q) = g[gcount - 1]
  BY <1>2, PassTurns
<1> DEFINE G == [j \in 0 .. gcount - 1 |-> {s \in Orders : Bubbled(s, b, j)}]
<1>4. g[0] \in G[0]
  BY <1>1, <1>2, <1>3
<1>5. ASSUME NEW j \in 1 .. gcount - 1, g[j - 1] \in G[j - 1]
      PROVE  g[j] \in G[j]
  <2>1. Bubbled(g[j - 1], b, j - 1)
    BY <1>1, <1>5
  <2>2. Bubbled(g[j], b, j)
    BY <1>1, <1>3, <2>1, ComparedBubbles
  <2> QED  BY <1>1, <2>2
<1>6. g[gcount - 1] \in G[gcount - 1]
  <2> HIDE DEF G
  <2> QED  BY <1>1, <1>4, <1>5, LoopKeeps
<1>7. Bubbled(Pass(q), b, gcount - 1)
  BY <1>1, <1>3, <1>6
<1>8. ASSUME NEW k \in Places, k >= b PROVE k > b \/ k = gcount \/ (k = b /\ b <= gcount - 1)
  BY <1>1, <1>8
<1>9. gcount - 1 + 1 = gcount
  BY <1>1
<1> QED  BY <1>7, <1>8, <1>9 DEF Bubbled

\* gcount passes sort.
LEMMA Sorts ==
    ASSUME PopType
    PROVE  Permutation(BubbleSorted) /\ StableSort(BubbleSorted)
<1>1. gcount \in Nat /\ Unsorted \in Orders /\ fitness \in [Places -> Int]
  BY SizeAssumption DEF Unsorted, Orders, PopType
<1> DEFINE IsLoop(g) == g = [i \in 0 .. gcount |-> IF i = 0 THEN Unsorted ELSE Pass(g[i - 1])]
           turn == CHOOSE g : IsLoop(g)
           T == [p \in Orders \X (1 .. gcount) |-> Pass(p[1])]
<1>2. \A q \in Orders : Pass(q) \in Orders
  <2> SUFFICES ASSUME NEW q \in Orders PROVE Pass(q) \in Orders
    OBVIOUS
  <2>1. gcount - 1 \in 0 .. gcount - 1
    BY SizeAssumption
  <2> QED  BY <2>1, PassTurns
<1>3. T \in [Orders \X (1 .. gcount) -> Orders]
  BY <1>2
<1>4. \A s \in Orders, i \in 1 .. gcount : T[<<s, i>>] = Pass(s)
  OBVIOUS
<1> HIDE DEF T
<1>5. PICK g \in [0 .. gcount -> Orders] : IsLoopOf(g, gcount, Unsorted, T)
  BY <1>1, <1>3, Loop
<1>6. IsLoop(g)
  <2>1. \A i \in 1 .. gcount : g[i - 1] \in Orders
    BY <1>1
  <2>2. \A i \in 1 .. gcount : g[i] = Pass(g[i - 1])
    BY <1>4, <1>5, <2>1 DEF IsLoopOf
  <2>3. \A i \in 0 .. gcount : i = 0 \/ i \in 1 .. gcount
    BY <1>1
  <2> QED  BY <1>5, <2>2, <2>3 DEF IsLoopOf
<1>7. IsLoop(turn)
  <2> HIDE DEF IsLoop
  <2> QED  BY <1>6
<1>8. BubbleSorted = turn[gcount]
  BY DEF BubbleSorted
<1> HIDE DEF turn
<1>9. turn[0] = Unsorted /\ \A i \in 1 .. gcount : turn[i] = Pass(turn[i - 1])
  BY <1>1, <1>7
<1> HIDE DEF IsLoop
<1> DEFINE Right(q, i) == StableOrder(q) /\ \A k \in Places : k > gcount - i => LargestAt(q, k)
           G == [i \in 0 .. gcount |-> {q \in Orders : Right(q, i)}]
<1>10. turn[0] \in G[0]
  <2>1. StableOrder(Unsorted)
    BY <1>1 DEF StableOrder, Unsorted
  <2>2. Right(Unsorted, 0)
    BY <1>1, <2>1
  <2> QED  BY <1>1, <1>9, <2>2
<1>11. ASSUME NEW i \in 1 .. gcount, turn[i - 1] \in G[i - 1]
       PROVE  turn[i] \in G[i]
  <2> DEFINE q == turn[i - 1]
             b == gcount - i + 1
  <2>1. q \in Orders /\ StableOrder(q) /\ \A k \in Places : k > b => LargestAt(q, k)
    BY <1>1, <1>11
  <2>2. b \in Places
    BY <1>1
  <2>3. LargestAt(q, 1)
    BY <1>1 DEF LargestAt
  <2>4. Bubbled(q, b, 0)
    <3> SUFFICES ASSUME NEW k \in Places, k > b \/ k = 1 \/ (k = b /\ b <= 0)
                 PROVE  LargestAt(q, k)
      BY <2>1 DEF Bubbled
    <3>1. k > b \/ k = 1
      BY <2>2
    <3> HIDE DEF q, b
    <3> QED  BY <2>1, <2>2, <2>3, <3>1
  <2>5. Right(turn[i], i)
    <3>1. turn[i] = Pass(q)
      BY <1>9
    <3>2. \A k \in Places : k > gcount - i => k >= b
      BY <1>1
    <3> QED  BY <2>2, <2>4, <3>1, <3>2, PassBubbles
  <2>6. turn[i] \in Orders
    BY <2>5 DEF StableOrder
  <2> QED  BY <1>1, <2>5, <2>6
<1>12. turn[gcount] \in G[gcount]
  <2> HIDE DEF G
  <2> QED  BY <1>1, <1>10, <1>11, LoopKeeps
<1> DEFINE q == BubbleSorted
<1>13. q \in Orders /\ StableOrder(q) /\ \A k \in Places : LargestAt(q, k)
  BY <1>1, <1>8, <1>12
<1> HIDE DEF q
<1>14. Permutation(q)
  BY <1>13 DEF Permutation, StableOrder, Orders
<1>15. StableSort(q)
  <2> SUFFICES ASSUME NEW i \in Places, NEW j \in Places, i < j
               PROVE  \/ fitness[q[i]] < fitness[q[j]]
                      \/ fitness[q[i]] = fitness[q[j]] /\ q[i] < q[j]
    BY DEF StableSort
  <2>1. fitness[q[i]] \in Int /\ fitness[q[j]] \in Int
    BY <1>1, <1>13 DEF Orders
  <2>2. fitness[q[i]] <= fitness[q[j]]
    BY <1>13 DEF LargestAt
  <2>3. fitness[q[i]] = fitness[q[j]] => q[i] < q[j]
    BY <1>13 DEF StableOrder
  <2> QED  BY <2>1, <2>2, <2>3
<1> QED  BY <1>14, <1>15 DEF q

\* SelectSorts: gcount passes of the bubble sort of select put the values of any
\* population into order and leave equal ones in the order they were in, so that
\* Select, which is defined by that order, is what the loops compute.
THEOREM SelectAlwaysSorts == Spec => []SelectSorts
<1>1. PopInv => SelectSorts
  BY Sorts DEF PopInv, SelectSorts
<1> QED
  BY <1>1, PopInvAlways, PTL
=============================================================================
