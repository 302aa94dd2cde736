---------------------------- MODULE TolminProof ----------------------------
(***************************************************************************)
(* What is proved of tolmin and of its line search, for every number of    *)
(* variables, all bounds and all objective functions that the constants    *)
(* stand for.                                                              *)
(*                                                                         *)
(* The inductive invariant is built in layers, each of which uses those    *)
(* before it:                                                              *)
(*   ArrayInv      iact is a permutation of the constraints once they are  *)
(*                 all in it, parted into fixed, active, satisfied and     *)
(*                 violated ones; the direction leaves the active alone    *)
(*   PartsInv      the parts are what their names say of the point, and a  *)
(*                 step ends before anything that is satisfied is violated *)
(*   WithinLimit   an evaluation is made only where one is left            *)
(*   Signs         the multipliers getd leaves have the signs it promises  *)
(*   Sums          sumres is the sum of the violations, and decreases      *)
(*   Found         so the search for a feasible point ends in one          *)
(*   ValuesAtHand  f and g belong to x whenever minfun reads them          *)
(*   NothingMoves  without a free variable minfun is never called          *)
(*   Answer        what is true of the point when the search returns       *)
(***************************************************************************)
EXTENDS Tolmin, LineSearch, FiniteSetTheorems, SequenceTheorems, WellFoundedInduction, TLAPS

-----------------------------------------------------------------------------
(* The constraints, and the array of them.                                 *)

\* A bound is about one variable, which has two.
LEMMA Bounds ==
    /\ N \in Nat /\ N >= 1
    /\ \A j \in Constraints : j \in Nat /\ Var(j) \in Vars
    /\ \A v \in Vars : v \in Constraints /\ N + v \in Constraints /\ Var(v) = v /\ Var(N + v) = v
    /\ \A j \in Constraints : j = Var(j) \/ j = N + Var(j)
    /\ \A v \in Vars : v <= N /\ ~ (N + v <= N) /\ N + v - N = v
BY TolminAssumption DEF Constraints, Vars, Var

\* The slope of a direction for a constraint is that of its variable.
LEMMA SlopeOf ==
    ASSUME NEW j \in Constraints, NEW e \in Directions
    PROVE  /\ Slope(j, e) \in {-1, 0, 1}
           /\ Slope(j, e) = 0 <=> e[Var(j)] = 0
           /\ j <= N => Slope(j, e) = -e[Var(j)]
           /\ ~ (j <= N) => Slope(j, e) = e[Var(j)]
<1>1. e[Var(j)] \in {-1, 0, 1}
  BY Bounds DEF Directions
<1>2. Slope(j, e) = IF j <= N THEN -e[Var(j)] ELSE e[Var(j)]
  BY DEF Slope, Var
<1>3. QED
  BY <1>1, <1>2

\* A residual is an integer.
LEMMA ResType ==
    ASSUME NEW j \in Constraints, NEW p \in [Vars -> Int]
    PROVE  /\ Res(j, p) \in Int
           /\ Res(j, p) = IF j <= N THEN p[Var(j)] - Lower[Var(j)] ELSE Upper[Var(j)] - p[Var(j)]
           /\ Lower[Var(j)] \in Int /\ Upper[Var(j)] \in Int /\ p[Var(j)] \in Int
<1>1. Lower \in [Vars -> Int] /\ Upper \in [Vars -> Int]
  BY TolminAssumption DEF Points
<1>2. Var(j) \in Vars
  BY Bounds
<1>3. QED
  BY <1>1, <1>2 DEF Res, Var

OneToOne(a) == \A p, q \in 1 .. Len(a) : a[p] = a[q] => p = q
Elements(a) == {a[p] : p \in 1 .. Len(a)}

\* b has the elements of a, in another order.
Rearranged(a, b) ==
    /\ b \in Seq(Constraints) /\ Len(b) = Len(a)
    /\ Elements(b) = Elements(a) /\ (OneToOne(a) => OneToOne(b))

\* Exchanging two elements.
LEMMA SwapPlaces ==
    ASSUME NEW a \in Seq(Constraints), NEW p \in 1 .. Len(a), NEW q \in 1 .. Len(a)
    PROVE  /\ Rearranged(a, Swap(a, p, q))
           /\ \A r \in 1 .. Len(a) :
                 Swap(a, p, q)[r] = IF r = p THEN a[q] ELSE IF r = q THEN a[p] ELSE a[r]
<1> DEFINE c == [a EXCEPT ![p] = a[q]]
           b == Swap(a, p, q)
<1>1. a[p] \in Constraints /\ a[q] \in Constraints /\ Len(a) \in Nat
  BY ElementOfSeq, LenProperties
<1>2. /\ c \in Seq(Constraints) /\ Len(c) = Len(a)
      /\ \A r \in 1 .. Len(a) : c[r] = IF r = p THEN a[q] ELSE a[r]
  BY <1>1, ExceptSeq
<1>3. b = [c EXCEPT ![q] = a[p]]
  BY DEF Swap
<1> HIDE DEF c
<1>4. /\ b \in Seq(Constraints) /\ Len(b) = Len(a)
      /\ \A r \in 1 .. Len(a) : b[r] = IF r = q THEN a[p] ELSE c[r]
  BY <1>1, <1>2, <1>3, ExceptSeq
<1> HIDE DEF b
<1>5. \A r \in 1 .. Len(a) : b[r] = IF r = p THEN a[q] ELSE IF r = q THEN a[p] ELSE a[r]
  BY <1>2, <1>4
<1>6. Elements(b) = Elements(a)
  <2>1. \A r \in 1 .. Len(a) : b[r] \in Elements(a)
    BY <1>5 DEF Elements
  <2>2. \A r \in 1 .. Len(a) : \E s \in 1 .. Len(a) : a[r] = b[s]
    BY <1>5
  <2>3. QED
    <3>1. Elements(b) \subseteq Elements(a)
      BY <1>4, <2>1 DEF Elements
    <3>2. ASSUME NEW e \in Elements(a) PROVE e \in Elements(b)
      <4>1. PICK r \in 1 .. Len(a) : e = a[r]
        BY DEF Elements
      <4>2. PICK s \in 1 .. Len(a) : a[r] = b[s]
        BY <2>2
      <4>3. QED
        BY <1>4, <4>1, <4>2 DEF Elements
    <3>3. QED
      BY <3>1, <3>2
<1>7. OneToOne(a) => OneToOne(b)
  BY <1>4, <1>5 DEF OneToOne
<1>8. QED
  BY <1>4, <1>5, <1>6, <1>7 DEF Rearranged, b

\* The active ones behind the deleted one move up, and it takes the last place.
LEMMA DelconPlaces ==
    ASSUME NEW a \in Seq(Constraints), NEW n \in 1 .. Len(a), NEW p \in 1 .. n
    PROVE  /\ Rearranged(a, Delcon(a, n, p))
           /\ \A r \in 1 .. Len(a) :
                 Delcon(a, n, p)[r] = IF r < p \/ r > n THEN a[r] ELSE IF r = n THEN a[p] ELSE a[r + 1]
<1> DEFINE b == Delcon(a, n, p)
<1>1. /\ Len(a) \in Nat /\ DOMAIN a = 1 .. Len(a) /\ n \in Nat /\ p \in Nat
      /\ \A r \in 1 .. Len(a) : a[r] \in Constraints
  BY ElementOfSeq, LenProperties
<1>2. \A r \in 1 .. Len(a) : b[r] = IF r < p \/ r > n THEN a[r] ELSE IF r = n THEN a[p] ELSE a[r + 1]
  BY <1>1 DEF Delcon
<1>3. b \in Seq(Constraints) /\ Len(b) = Len(a)
  <2>1. b \in [1 .. Len(a) -> Constraints]
    <3>1. b = [r \in 1 .. Len(a) |->
                  IF r < p \/ r > n THEN a[r] ELSE IF r = n THEN a[p] ELSE a[r + 1]]
      BY <1>1 DEF Delcon
    <3>2. QED
      BY <1>1, <3>1
  <2> HIDE DEF b
  <2>2. QED
    BY <1>1, <2>1
<1> HIDE DEF b
<1>4. Elements(b) = Elements(a)
  <2>1. \A r \in 1 .. Len(a) : b[r] \in Elements(a)
    BY <1>1, <1>2 DEF Elements
  <2>2. ASSUME NEW r \in 1 .. Len(a) PROVE \E s \in 1 .. Len(a) : a[r] = b[s]
    <3>1. CASE r < p \/ r > n
      BY <1>2, <3>1
    <3>2. CASE r = p
      BY <1>1, <1>2, <3>2
    <3>3. CASE p < r /\ r <= n
      <4>1. r - 1 \in 1 .. Len(a) /\ b[r - 1] = a[r]
        BY <1>1, <1>2, <3>3
      <4>2. QED
        BY <4>1
    <3>4. QED
      BY <1>1, <3>1, <3>2, <3>3
  <2>3. QED
    BY <1>3, <2>1, <2>2 DEF Elements
<1>5. OneToOne(a) => OneToOne(b)
  <2> SUFFICES ASSUME OneToOne(a), NEW r \in 1 .. Len(b), NEW s \in 1 .. Len(b), b[r] = b[s]
               PROVE  r = s
    BY DEF OneToOne
  <2> DEFINE From(t) == IF t < p \/ t > n THEN t ELSE IF t = n THEN p ELSE t + 1
  <2>1. \A t \in 1 .. Len(a) : From(t) \in 1 .. Len(a) /\ b[t] = a[From(t)]
    BY <1>1, <1>2
  <2>2. From(r) = From(s)
    <3> HIDE DEF From
    <3> QED BY <1>3, <2>1 DEF OneToOne
  <2>3. QED
    BY <1>1, <1>3, <2>2
<1>6. QED
  BY <1>2, <1>3, <1>4, <1>5 DEF Rearranged, b
\* What is rearranged twice is rearranged.
LEMMA RearrangedTwice ==
    ASSUME NEW a, NEW b, NEW c, Rearranged(a, b), Rearranged(b, c)
    PROVE  Rearranged(a, c)
BY DEF Rearranged

\* A satisfied constraint goes behind the satisfied ones, a degenerate one behind
\* the degenerate ones, whose successor goes behind the satisfied ones.
LEMMA PlacePlaces ==
    ASSUME iact \in Seq(Constraints), mdeg \in Nat, msat \in Nat, mdeg <= msat,
           NEW p \in msat + 1 .. Len(iact)
    PROVE  /\ \A b \in BOOLEAN : Rearranged(iact, Place(p, b))
           /\ \A r \in 1 .. Len(iact) :
                 /\ Place(p, FALSE)[r] = IF r = msat + 1 THEN iact[p]
                                         ELSE IF r = p THEN iact[msat + 1] ELSE iact[r]
                 /\ Place(p, TRUE)[r] = IF r = mdeg + 1 THEN iact[p]
                                        ELSE IF r = msat + 1 THEN iact[mdeg + 1]
                                        ELSE IF r = p THEN iact[msat + 1] ELSE iact[r]
<1> DEFINE a == Swap(iact, p, msat + 1)
<1>1. /\ p \in 1 .. Len(iact) /\ msat + 1 \in 1 .. Len(iact) /\ mdeg + 1 \in 1 .. Len(iact)
      /\ p >= msat + 1
  BY LenProperties
<1>2. /\ Rearranged(iact, a)
      /\ \A r \in 1 .. Len(iact) :
            a[r] = IF r = p THEN iact[msat + 1] ELSE IF r = msat + 1 THEN iact[p] ELSE iact[r]
  BY <1>1, SwapPlaces
<1>3. Place(p, FALSE) = a /\ Place(p, TRUE) = Swap(a, msat + 1, mdeg + 1)
  BY DEF Place
<1> HIDE DEF a
<1>4. a \in Seq(Constraints) /\ Len(a) = Len(iact)
  BY <1>2 DEF Rearranged
<1>5. /\ Rearranged(a, Swap(a, msat + 1, mdeg + 1))
      /\ \A r \in 1 .. Len(iact) :
            Swap(a, msat + 1, mdeg + 1)[r] =
              IF r = msat + 1 THEN a[mdeg + 1] ELSE IF r = mdeg + 1 THEN a[msat + 1] ELSE a[r]
  BY <1>1, <1>4, SwapPlaces
<1>6. Rearranged(iact, Place(p, FALSE)) /\ Rearranged(iact, Place(p, TRUE))
  BY <1>2, <1>3, <1>5, RearrangedTwice
<1>7. ASSUME NEW r \in 1 .. Len(iact)
      PROVE  Place(p, FALSE)[r] = IF r = msat + 1 THEN iact[p]
                                  ELSE IF r = p THEN iact[msat + 1] ELSE iact[r]
  BY <1>1, <1>2, <1>3
<1>8. ASSUME NEW r \in 1 .. Len(iact)
      PROVE  Place(p, TRUE)[r] = IF r = mdeg + 1 THEN iact[p]
                                 ELSE IF r = msat + 1 THEN iact[mdeg + 1]
                                 ELSE IF r = p THEN iact[msat + 1] ELSE iact[r]
  <2>1. a[msat + 1] = iact[p]
    BY <1>1, <1>2
  <2>2. mdeg # msat => a[mdeg + 1] = iact[mdeg + 1]
    BY <1>1, <1>2
  <2>3. QED
    BY <1>1, <1>2, <1>3, <1>5, <2>1, <2>2
<1>9. QED
  BY <1>6, <1>7, <1>8

\* An array without repetitions is no longer than there are constraints.
LEMMA FewPlaces ==
    ASSUME NEW a \in Seq(Constraints), OneToOne(a)
    PROVE  Len(a) <= 2 * N
<1>1. Len(a) \in Nat /\ a \in [1 .. Len(a) -> Constraints] /\ 2 * N \in Nat
  BY LenProperties, Bounds
<1>2. /\ IsFiniteSet(1 .. Len(a)) /\ Cardinality(1 .. Len(a)) = Len(a)
      /\ IsFiniteSet(Constraints) /\ Cardinality(Constraints) = 2 * N
  <2>1. 1 \in Int /\ Len(a) \in Int /\ 2 * N \in Int
    BY <1>1
  <2>2. Cardinality(1 .. Len(a)) = IF 1 > Len(a) THEN 0 ELSE Len(a) - 1 + 1
    BY <2>1, FS_Interval
  <2>3. Cardinality(1 .. 2 * N) = IF 1 > 2 * N THEN 0 ELSE 2 * N - 1 + 1
    BY <2>1, FS_Interval
  <2>4. IsFiniteSet(1 .. Len(a)) /\ IsFiniteSet(1 .. 2 * N)
    BY <2>1, FS_Interval
  <2>5. QED
    BY <1>1, <2>2, <2>3, <2>4 DEF Constraints
<1>3. ASSUME 2 * N < Len(a) PROVE FALSE
  <2>1. PICK p, q \in 1 .. Len(a) : p # q /\ a[p] = a[q]
    BY <1>1, <1>2, <1>3, FS_PigeonHole
  <2>2. QED
    BY <2>1 DEF OneToOne
<1>4. QED
  BY <1>1, <1>3

\* There are no more active constraints than variables.
LEMMA FewActive ==
    ASSUME NEW a \in Seq(Constraints), NEW n \in 0 .. Len(a),
           \A p, q \in 1 .. n : Var(a[p]) = Var(a[q]) => p = q
    PROVE  n <= N
<1> DEFINE h == [p \in 1 .. n |-> Var(a[p])]
<1>1. n \in Nat /\ h \in [1 .. n -> Vars] /\ N \in Nat
  <2>1. Len(a) \in Nat /\ \A p \in 1 .. Len(a) : a[p] \in Constraints
    <3>1. Len(a) \in Nat
      BY LenProperties
    <3>2. QED
      BY <3>1, ElementOfSeq
  <2>2. ASSUME NEW p \in 1 .. n PROVE Var(a[p]) \in Vars
    <3>1. a[p] \in Constraints
      BY <2>1
    <3>2. QED
      BY <3>1, Bounds
  <2>3. QED
    BY <2>1, <2>2, Bounds
<1>2. /\ IsFiniteSet(1 .. n) /\ Cardinality(1 .. n) = n
      /\ IsFiniteSet(Vars) /\ Cardinality(Vars) = N
  <2>1. 1 \in Int /\ n \in Int /\ N \in Int
    BY <1>1
  <2>2. Cardinality(1 .. n) = IF 1 > n THEN 0 ELSE n - 1 + 1
    BY <2>1, FS_Interval
  <2>3. Cardinality(1 .. N) = IF 1 > N THEN 0 ELSE N - 1 + 1
    BY <2>1, FS_Interval
  <2>4. IsFiniteSet(1 .. n) /\ IsFiniteSet(1 .. N)
    BY <2>1, FS_Interval
  <2>5. QED
    BY <1>1, <2>2, <2>3, <2>4 DEF Vars
<1>3. ASSUME N < n PROVE FALSE
  <2>1. \E p, q \in 1 .. n : p # q /\ h[p] = h[q]
    <3> HIDE DEF h
    <3> QED BY <1>1, <1>2, <1>3, FS_PigeonHole
  <2>2. QED
    BY <2>1
<1>4. QED
  BY <1>1, <1>3
-----------------------------------------------------------------------------
(* The array of constraints.                                               *)

\* Constraints enter the array; it is parted, and a direction is found.
Filling == {"initzu", "fix", "addbounds"}
Parting == {"partition", "getd", "sdegen", "interpolate", "stepbd", "pass"}

\* The types of what the array and the steps are made from.
Types ==
    /\ pc \in Filling \union Parting \union
              {"satact", "delete", "conres", "step", "stuck", "adjtol", "found", "start", "kt",
               "lsrch", "reduce", "return"}
    /\ caller \in {"bounds", "inequalities", "minfun"}
    /\ tol \in {"coarse", "fine", "exact"} /\ flagged \subseteq Constraints
    /\ x \in [Vars -> Int] /\ d \in Directions /\ bres \in [Constraints -> Int]
    /\ ddotg \in Int /\ stepcb \in Nat /\ sumres \in Int /\ sumrsk \in Int
    /\ seeking \in BOOLEAN /\ moved \in BOOLEAN /\ diffset \in BOOLEAN
    /\ info \in 0 .. 8

\* The array is divided in this order, and the loops stay inside it.
Counts ==
    /\ k \in Nat /\ meql \in Nat /\ nact \in Nat /\ msat \in Nat
    /\ mdeg \in Nat /\ msatk \in Nat /\ indxbd \in Nat
    /\ meql <= nact /\ nact <= msat /\ msat <= Len(iact)
    /\ mdeg <= Len(iact) /\ msatk <= Len(iact) /\ indxbd <= Len(iact)
    /\ pc = "initzu" => k = 1 /\ iact = <<>>
    /\ pc \in {"fix", "addbounds"} => k \in 1 .. N + 1 /\ msat = meql
    /\ pc = "fix" => meql = Len(iact)
    /\ pc = "satact" => k \in 1 .. nact + 1
    /\ pc = "delete" => k \in meql .. nact
    /\ pc = "partition" => k \in meql + 1 .. Len(iact) + 1 /\ (msat < k \/ msat = nact)
    /\ pc \in Parting => nact <= mdeg /\ mdeg <= msat
    /\ pc = "interpolate" => meql < nact

IsFixed(v) == Lower[v] = Upper[v]

\* No constraint stands twice in the array, no two active ones are about the
\* same variable, and those of fixed variables come first.
Distinct ==
    /\ iact \in Seq(Constraints) /\ OneToOne(iact)
    /\ \A p, q \in 1 .. nact : Var(iact[p]) = Var(iact[q]) => p = q
    /\ \A p \in 1 .. Len(iact) : p <= meql <=> IsFixed(Var(iact[p]))

\* Both constraints of a variable stand there, or the upper bound of a fixed one.
Complete ==
    /\ pc = "initzu" => info = 4
    /\ info = 4 => pc \in {"initzu", "return"}
    /\ info # 4 => \A v \in Vars : Lower[v] <= Upper[v]
    /\ pc = "fix" =>
          Elements(iact) = {j \in Constraints : j > N /\ IsFixed(Var(j)) /\ Var(j) < k}
    /\ pc = "addbounds" =>
          Elements(iact) = {j \in Constraints : IF IsFixed(Var(j)) THEN j > N ELSE Var(j) < k}
    /\ pc \notin Filling /\ info # 4 =>
          Elements(iact) = {j \in Constraints : IsFixed(Var(j)) => j > N}

\* A step along d is being limited, or about to be taken.
Stepping == pc = "pass" \/ (pc \in {"step", "kt", "lsrch"} /\ stepcb > 0)

\* The direction leaves the variables of active constraints alone, and leads to
\* the boundary of iact[indxbd].
Heading ==
    /\ Stepping \/ pc = "stepbd" => \A p \in 1 .. nact : d[Var(iact[p])] = 0
    /\ pc \in {"getd", "sdegen", "interpolate", "stepbd"} => stepcb = 0
    /\ pc = "pass" => /\ \A p \in mdeg + 1 .. Len(iact) :
                            bres[iact[p]] > 0 => Slope(iact[p], d) # 0
                      /\ indxbd \in mdeg + 1 .. Len(iact)
    /\ Stepping => Slope(iact[indxbd], d) # 0
    /\ Stepping /\ pc # "pass" => indxbd \in nact + 1 .. msat

ArrayInv == Types /\ Counts /\ Distinct /\ Complete /\ Heading

\* What changes x.
LEMMA WhoMoves ==
    ASSUME [Next]_vars
    PROVE  x' = x \/ FixVariable \/ ShiftActive \/ FeasibilityStep \/ Lsrch
BY DEF Next, Initialise, Satact, Conres, Getd, Bound, Feasible, Minimise, vars, point,
       CheckBounds, FixEnds, AddBounds, BoundsAdded, FlagActive, ActiveChecked, DeleteFlagged,
       FlaggedDeleted, StartConres, PartActive, PartSatisfied, PartViolated, Parted, GetdDrops,
       GetdKeeps, NoDirection, DirectionFound, AddDegenerate, SdegenDrops, SdegenKeeps, Stepbd,
       PassThrough, StepEnds, Stuck, Adjtol, BoundsDone, ConstraintsDone, StartMinfun,
       StopMinfun, GoOn, ReduceTol

\* A point along the direction has integer coordinates.
LEMMA AlongType ==
    ASSUME x \in [Vars -> Int], d \in Directions, NEW s \in Int
    PROVE  /\ Along(s) \in [Vars -> Int]
           /\ \A v \in Vars : /\ d[v] \in {-1, 0, 1} /\ x[v] \in Int
                              /\ Along(s)[v] = IF d[v] = 1 THEN x[v] + s
                                               ELSE IF d[v] = -1 THEN x[v] - s ELSE x[v]
<1>1. ASSUME NEW v \in Vars
      PROVE  /\ d[v] \in {-1, 0, 1} /\ x[v] \in Int
             /\ x[v] + s * d[v] = IF d[v] = 1 THEN x[v] + s
                                  ELSE IF d[v] = -1 THEN x[v] - s ELSE x[v]
  <2>1. d[v] \in {-1, 0, 1} /\ x[v] \in Int
    BY DEF Directions
  <2>2. CASE d[v] = 1
    BY <2>1, <2>2
  <2>3. CASE d[v] = -1
    BY <2>1, <2>3
  <2>4. CASE d[v] = 0
    BY <2>1, <2>4
  <2>5. QED
    BY <2>1, <2>2, <2>3, <2>4
<1>2. QED
  BY <1>1 DEF Along

\* A slope of a direction is an integer.
LEMMA DotProductType ==
    ASSUME NEW e, NEW h
    PROVE  DotProduct(e, h) \in Int
<1> DEFINE P == {v \in Vars : e[v] * h[v] > 0}
           M == {v \in Vars : e[v] * h[v] < 0}
<1>1. N \in Int /\ 1 \in Int
  BY Bounds
<1>2. IsFiniteSet(Vars)
  BY <1>1, FS_Interval DEF Vars
<1>3. IsFiniteSet(P) /\ IsFiniteSet(M)
  BY <1>2, FS_Subset
<1>4. Cardinality(P) \in Nat /\ Cardinality(M) \in Nat
  BY <1>3, FS_CardinalityType
<1>5. QED
  BY <1>4 DEF DotProduct
\* What changes the direction, its slope and the length of the step.
LEMMA WhoHeads ==
    ASSUME [Next]_vars
    PROVE  \/ d' = d /\ ddotg' = ddotg /\ stepcb' = stepcb
           \/ NoDirection \/ DirectionFound \/ AddDegenerate \/ Parted \/ Stepbd \/ PassThrough
BY DEF Next, Initialise, Satact, Conres, Getd, Bound, Feasible, Minimise, vars,
         CheckBounds, FixVariable, FixEnds, AddBounds, BoundsAdded, ShiftActive, FlagActive,
         ActiveChecked, DeleteFlagged, FlaggedDeleted, StartConres, PartActive,
         PartSatisfied, PartViolated, GetdDrops, GetdKeeps, SdegenDrops, SdegenKeeps,
         StepEnds, FeasibilityStep, Stuck, Adjtol, BoundsDone, ConstraintsDone, StartMinfun,
         StopMinfun, GoOn, Lsrch, ReduceTol, motion, point

\* What changes bres and sumres.
LEMMA WhoMeasures ==
    ASSUME [Next]_vars
    PROVE  \/ bres' = bres /\ sumres' = sumres
           \/ StartConres \/ PartActive \/ PartSatisfied \/ PartViolated \/ Stepbd \/ PassThrough
BY DEF Next, Initialise, Satact, Conres, Getd, Bound, Feasible, Minimise, vars,
         CheckBounds, FixVariable, FixEnds, AddBounds, BoundsAdded, ShiftActive, FlagActive,
         ActiveChecked, DeleteFlagged, FlaggedDeleted, Parted, GetdDrops, GetdKeeps,
         NoDirection, DirectionFound, AddDegenerate, SdegenDrops, SdegenKeeps, StepEnds,
         FeasibilityStep, Stuck, Adjtol, BoundsDone, ConstraintsDone, StartMinfun,
         StopMinfun, GoOn, Lsrch, ReduceTol, residuals
\* The control and the flags keep their types.
LEMMA ControlTypes ==
    ASSUME Types, Counts, Distinct, [Next]_vars
    PROVE  /\ pc' \in Filling \union Parting \union
                      {"satact", "delete", "conres", "step", "stuck", "adjtol", "found", "start",
                       "kt", "lsrch", "reduce", "return"}
           /\ caller' \in {"bounds", "inequalities", "minfun"}
           /\ tol' \in {"coarse", "fine", "exact"} /\ info' \in 0 .. 8
           /\ seeking' \in BOOLEAN /\ moved' \in BOOLEAN /\ diffset' \in BOOLEAN
           /\ flagged' \subseteq Constraints
<1>1. pc' = pc \/ pc' \in Filling \union Parting \union
                      {"satact", "delete", "conres", "step", "stuck", "adjtol", "found", "start",
                       "kt", "lsrch", "reduce", "return"}
  BY DEF Next, Initialise, Satact, Conres, Getd, Bound, Feasible, Minimise, vars,
         CheckBounds, FixVariable, FixEnds, AddBounds, BoundsAdded, ShiftActive, FlagActive,
         ActiveChecked, DeleteFlagged, FlaggedDeleted, StartConres, PartActive,
         PartSatisfied, PartViolated, Parted, GetdDrops, GetdKeeps, NoDirection,
         DirectionFound, AddDegenerate, SdegenDrops, SdegenKeeps, Stepbd, PassThrough,
         StepEnds, FeasibilityStep, Stuck, Adjtol, BoundsDone, ConstraintsDone, StartMinfun,
         StopMinfun, GoOn, Lsrch, ReduceTol, Filling, Parting, Getfes, AfterConres
<1>2. caller' = caller \/ caller' \in {"bounds", "inequalities", "minfun"}
  BY DEF Next, Initialise, Satact, Conres, Getd, Bound, Feasible, Minimise, vars,
         CheckBounds, FixVariable, FixEnds, AddBounds, BoundsAdded, ShiftActive, FlagActive,
         ActiveChecked, DeleteFlagged, FlaggedDeleted, StartConres, PartActive,
         PartSatisfied, PartViolated, Parted, GetdDrops, GetdKeeps, NoDirection,
         DirectionFound, AddDegenerate, SdegenDrops, SdegenKeeps, Stepbd, PassThrough,
         StepEnds, FeasibilityStep, Stuck, Adjtol, BoundsDone, ConstraintsDone, StartMinfun,
         StopMinfun, GoOn, Lsrch, ReduceTol, Getfes
<1>3. tol' = tol \/ Adjtol
  BY DEF Next, Initialise, Satact, Conres, Getd, Bound, Feasible, Minimise, vars,
         CheckBounds, FixVariable, FixEnds, AddBounds, BoundsAdded, ShiftActive, FlagActive,
         ActiveChecked, DeleteFlagged, FlaggedDeleted, StartConres, PartActive,
         PartSatisfied, PartViolated, Parted, GetdDrops, GetdKeeps, NoDirection,
         DirectionFound, AddDegenerate, SdegenDrops, SdegenKeeps, Stepbd, PassThrough,
         StepEnds, FeasibilityStep, Stuck, BoundsDone, ConstraintsDone, StartMinfun,
         StopMinfun, GoOn, Lsrch, ReduceTol
<1>4. info' = info \/ info' \in {0, 1, 2, 3, 6, 7, 8}
  BY DEF Next, Initialise, Satact, Conres, Getd, Bound, Feasible, Minimise, vars,
         CheckBounds, FixVariable, FixEnds, AddBounds, BoundsAdded, ShiftActive, FlagActive,
         ActiveChecked, DeleteFlagged, FlaggedDeleted, StartConres, PartActive,
         PartSatisfied, PartViolated, Parted, GetdDrops, GetdKeeps, NoDirection,
         DirectionFound, AddDegenerate, SdegenDrops, SdegenKeeps, Stepbd, PassThrough,
         StepEnds, FeasibilityStep, Stuck, Adjtol, BoundsDone, ConstraintsDone, StartMinfun,
         StopMinfun, GoOn, Lsrch, ReduceTol, result, Getfes
<1>5. seeking' = seeking \/ StartConres
  BY DEF Next, Initialise, Satact, Conres, Getd, Bound, Feasible, Minimise, vars,
         CheckBounds, FixVariable, FixEnds, AddBounds, BoundsAdded, ShiftActive, FlagActive,
         ActiveChecked, DeleteFlagged, FlaggedDeleted, PartActive, PartSatisfied,
         PartViolated, Parted, GetdDrops, GetdKeeps, NoDirection, DirectionFound,
         AddDegenerate, SdegenDrops, SdegenKeeps, Stepbd, PassThrough, StepEnds,
         FeasibilityStep, Stuck, Adjtol, BoundsDone, ConstraintsDone, StartMinfun,
         StopMinfun, GoOn, Lsrch, ReduceTol, residuals
<1>6. moved' = moved \/ moved' = TRUE \/ moved' = FALSE
  BY DEF Next, Initialise, Satact, Conres, Getd, Bound, Feasible, Minimise, vars,
         CheckBounds, FixVariable, FixEnds, AddBounds, BoundsAdded, ShiftActive, FlagActive,
         ActiveChecked, DeleteFlagged, FlaggedDeleted, StartConres, PartActive,
         PartSatisfied, PartViolated, Parted, GetdDrops, GetdKeeps, NoDirection,
         DirectionFound, AddDegenerate, SdegenDrops, SdegenKeeps, Stepbd, PassThrough,
         StepEnds, FeasibilityStep, Stuck, Adjtol, BoundsDone, ConstraintsDone, StartMinfun,
         StopMinfun, GoOn, Lsrch, ReduceTol, progress
<1>7. diffset' = diffset \/ diffset' = TRUE \/ diffset' = FALSE
  BY DEF Next, Initialise, Satact, Conres, Getd, Bound, Feasible, Minimise, vars,
         CheckBounds, FixVariable, FixEnds, AddBounds, BoundsAdded, ShiftActive, FlagActive,
         ActiveChecked, DeleteFlagged, FlaggedDeleted, StartConres, PartActive,
         PartSatisfied, PartViolated, Parted, GetdDrops, GetdKeeps, NoDirection,
         DirectionFound, AddDegenerate, SdegenDrops, SdegenKeeps, Stepbd, PassThrough,
         StepEnds, FeasibilityStep, Stuck, Adjtol, BoundsDone, ConstraintsDone, StartMinfun,
         StopMinfun, GoOn, Lsrch, ReduceTol, progress
<1>8. flagged' = flagged \/ flagged' = {} \/ FlagActive
  BY DEF Next, Initialise, Satact, Conres, Getd, Bound, Feasible, Minimise, vars,
         CheckBounds, FixVariable, FixEnds, AddBounds, BoundsAdded, ShiftActive,
         ActiveChecked, DeleteFlagged, FlaggedDeleted, StartConres, PartActive,
         PartSatisfied, PartViolated, Parted, GetdDrops, GetdKeeps, NoDirection,
         DirectionFound, AddDegenerate, SdegenDrops, SdegenKeeps, Stepbd, PassThrough,
         StepEnds, FeasibilityStep, Stuck, Adjtol, BoundsDone, ConstraintsDone, StartMinfun,
         StopMinfun, GoOn, Lsrch, ReduceTol, feasibility, Getfes
<1>9. FlagActive => flagged' \subseteq Constraints
  BY ElementOfSeq DEF FlagActive, Types, Counts, Distinct
<1>10. seeking' \in BOOLEAN /\ moved' \in BOOLEAN /\ diffset' \in BOOLEAN
  <2>1. StartConres => seeking' \in BOOLEAN
    BY DEF StartConres
  <2>2. QED
    BY <1>5, <1>6, <1>7, <2>1, Zenon DEF Types
<1>11. tol' \in {"coarse", "fine", "exact"} /\ info' \in 0 .. 8
  BY <1>3, <1>4 DEF Types, Adjtol, ReducedTol
<1>12. flagged' \subseteq Constraints
  BY <1>8, <1>9, Zenon DEF Types
<1>13. QED
  BY <1>1, <1>2, <1>10, <1>11, <1>12, Zenon DEF Types
\* The length of the step to a boundary.
LEMMA StepToType ==
    ASSUME NEW j \in Constraints, d \in Directions, bres \in [Constraints -> Int]
    PROVE  /\ StepTo(j) \in Nat /\ bres[j] \in Int
           /\ Slope(j, d) = 1 => StepTo(j) = IF bres[j] > 0 THEN bres[j] ELSE 0
           /\ Slope(j, d) = -1 => StepTo(j) = IF bres[j] < 0 THEN -bres[j] ELSE 0
           /\ Slope(j, d) = 0 => StepTo(j) = 0
<1>1. Slope(j, d) \in {-1, 0, 1} /\ bres[j] \in Int
  BY SlopeOf
<1>2. CASE Slope(j, d) = 1
  BY <1>1, <1>2 DEF StepTo
<1>3. CASE Slope(j, d) = -1
  BY <1>1, <1>3 DEF StepTo
<1>4. CASE Slope(j, d) = 0
  BY <1>1, <1>4 DEF StepTo
<1>5. QED
  BY <1>1, <1>2, <1>3, <1>4

\* What stepbd makes of bres.
Steps == [j \in Constraints |->
            IF \E p \in mdeg + 1 .. Len(iact) : iact[p] = j THEN StepTo(j) ELSE bres[j]]

\* What stepbd makes of bres: the steps to the boundaries it looks at.
LEMMA StepsType ==
    ASSUME iact \in Seq(Constraints), d \in Directions, bres \in [Constraints -> Int], mdeg \in Nat
    PROVE  /\ Steps \in [Constraints -> Int]
           /\ \A p \in mdeg + 1 .. Len(iact) : Steps[iact[p]] = StepTo(iact[p])
<1>1. \A j \in Constraints : StepTo(j) \in Int /\ bres[j] \in Int
  BY StepToType
<1>2. \A p \in mdeg + 1 .. Len(iact) : p \in 1 .. Len(iact) /\ iact[p] \in Constraints
  BY LenProperties, ElementOfSeq
<1>3. QED
  BY <1>1, <1>2 DEF Steps

\* The types are kept.
LEMMA TypesStep ==
    ASSUME ArrayInv, [Next]_vars
    PROVE  Types'
<1> USE DEF ArrayInv, mtot
<1>0. /\ x \in [Vars -> Int] /\ d \in Directions /\ bres \in [Constraints -> Int]
      /\ iact \in Seq(Constraints) /\ Len(iact) \in Nat
      /\ \A p \in 1 .. Len(iact) : iact[p] \in Constraints
  BY LenProperties, ElementOfSeq DEF Types, Distinct
<1>1. x' \in [Vars -> Int]
  <2>1. CASE FixVariable
    <3>1. Upper \in [Vars -> Int]
      BY TolminAssumption DEF Points
    <3>2. QED
      BY <1>0, <2>1, <3>1 DEF FixVariable
  <2>2. CASE ShiftActive
    BY <2>2, TolminAssumption DEF ShiftActive, Shifted, Points
  <2>3. CASE FeasibilityStep
    BY <1>0, <2>3, AlongType DEF FeasibilityStep, Types
  <2>4. CASE Lsrch
    <3>1. PICK s \in 0 .. stepcb : x' = Along(s)
      BY <2>4 DEF Lsrch
    <3>2. s \in Int
      BY DEF Types
    <3>3. QED
      BY <1>0, <3>1, <3>2, AlongType
  <2>5. QED
    BY <1>0, <2>1, <2>2, <2>3, <2>4, WhoMoves
<1>2. d' \in Directions
  <2>1. Zero \in Directions
    BY DEF Zero, Directions
  <2>2. Stepbd \/ PassThrough \/ Parted => d' = d
    BY DEF Stepbd, PassThrough, Parted
  <2>3. DirectionFound => d' \in Directions
    BY DEF DirectionFound
  <2>4. AddDegenerate => d' \in Directions
    BY DEF AddDegenerate
  <2>5. NoDirection => d' = Zero
    BY DEF NoDirection
  <2>6. QED
    BY <1>0, <2>1, <2>2, <2>3, <2>4, <2>5, WhoHeads
<1>3. ddotg' \in Int
  <2>1. Stepbd \/ AddDegenerate \/ Parted => ddotg' = ddotg
    BY DEF Stepbd, AddDegenerate, Parted
  <2>2. DirectionFound => ddotg' \in Int
    BY DotProductType DEF DirectionFound
  <2>3. NoDirection => ddotg' = 0
    BY DEF NoDirection
  <2>4. PassThrough => ddotg' \in Int
    <3> SUFFICES ASSUME PassThrough PROVE ddotg' \in Int
      OBVIOUS
    <3>1. ddotg' = ddotg - Slope(iact[indxbd], d)
      BY DEF PassThrough
    <3>2. indxbd \in 1 .. Len(iact)
      BY DEF PassThrough, Counts, Heading, StopsAtSatisfied
    <3>3. Slope(iact[indxbd], d) \in Int
      BY <1>0, <3>2, SlopeOf
    <3>4. QED
      BY <3>1, <3>3 DEF Types
  <2>5. QED
    BY <2>1, <2>2, <2>3, <2>4, WhoHeads DEF Types
<1>4. bres' \in [Constraints -> Int] /\ sumres' \in Int
  <2>0. \A p \in 1 .. Len(iact) : Res(iact[p], x) \in Int
    BY <1>0, ResType
  <2>1. CASE StartConres
    BY <2>1 DEF StartConres, Types
  <2>2. CASE PartActive
    BY <1>0, <2>0, <2>2 DEF PartActive, Types, Counts
  <2>3. CASE PartSatisfied
    BY <1>0, <2>0, <2>3 DEF PartSatisfied, Types, Counts
  <2>4. CASE PartViolated
    BY SMTT(30), <1>0, <2>0, <2>4 DEF PartViolated, Types, Counts
  <2>5. CASE Stepbd
    <3>1. bres' = Steps /\ sumres' = sumres
      BY <2>5 DEF Stepbd, Steps
    <3>2. QED
      BY <1>0, <3>1, StepsType DEF Types, Counts
  <2>6. CASE PassThrough
    <3>1. bres' = [bres EXCEPT ![iact[indxbd]] = 0] /\ sumres' = sumres
      BY <2>6 DEF PassThrough
    <3>2. iact[indxbd] \in Constraints
      BY <1>0, <2>6 DEF PassThrough, Counts, Heading, StopsAtSatisfied
    <3>3. QED
      BY <1>0, <3>1, <3>2 DEF Types
  <2>7. QED
    BY <1>0, <2>1, <2>2, <2>3, <2>4, <2>5, <2>6, WhoMeasures DEF Types
<1>5. stepcb' \in Nat
  <2>1. NoDirection \/ DirectionFound \/ AddDegenerate => stepcb' = stepcb
    BY DEF NoDirection, DirectionFound, AddDegenerate
  <2>2. Parted => stepcb' = 0
    BY DEF Parted
  <2>3. CASE Stepbd
    <3>1. Steps \in [Constraints -> Int]
      BY <1>0, StepsType DEF Counts
    <3>2. \/ stepcb' = 0
          \/ \E p \in mdeg + 1 .. mtot : Nearest(iact, Steps, p) /\ stepcb' = Steps[iact[p]]
      BY <2>3 DEF Stepbd, Steps
    <3>3. \A p \in mdeg + 1 .. mtot : iact[p] \in Constraints
      BY <1>0 DEF Counts
    <3>4. QED
      BY <3>1, <3>2, <3>3 DEF Nearest
  <2>4. CASE PassThrough
    <3>1. /\ indxbd \in 1 .. Len(iact) /\ msat + 1 \in 1 .. Len(iact)
      BY <2>4 DEF PassThrough, Counts, Heading, StopsAtSatisfied
    <3>2. iact' = Swap(iact, indxbd, msat + 1) /\ iact' \in Seq(Constraints) /\ Len(iact') = Len(iact)
      BY <1>0, <2>4, <3>1, SwapPlaces DEF PassThrough, Rearranged
    <3>3. stepcb' = stepcb \/ \E p \in mdeg + 1 .. mtot : Nearest(iact', bres', p) /\ stepcb' = bres'[iact'[p]]
      BY <2>4 DEF PassThrough
    <3>4. \A p \in mdeg + 1 .. mtot : iact'[p] \in Constraints
      BY <1>0, <3>2, ElementOfSeq DEF Counts
    <3>5. QED
      BY <1>4, <3>3, <3>4 DEF Nearest, Types
  <2>5. QED
    BY <2>1, <2>2, <2>3, <2>4, WhoHeads DEF Types
<1>6. sumrsk' \in Int
  <2>1. sumrsk' \in {sumrsk, sumres, 0}
    BY DEF Next, Initialise, Satact, Conres, Getd, Bound, Feasible, Minimise, vars,
         CheckBounds, FixVariable, FixEnds, AddBounds, BoundsAdded, ShiftActive, FlagActive,
         ActiveChecked, DeleteFlagged, FlaggedDeleted, StartConres, PartActive,
         PartSatisfied, PartViolated, Parted, GetdDrops, GetdKeeps, NoDirection,
         DirectionFound, AddDegenerate, SdegenDrops, SdegenKeeps, Stepbd, PassThrough,
         StepEnds, FeasibilityStep, Stuck, Adjtol, BoundsDone, ConstraintsDone, StartMinfun,
         StopMinfun, GoOn, Lsrch, ReduceTol, feasibility, Getfes
  <2>2. QED
    BY <2>1 DEF Types
<1>7. QED
  BY <1>1, <1>2, <1>3, <1>4, <1>5, <1>6, ControlTypes, Zenon DEF Types
ActivesDiffer(a, n) == \A p, q \in 1 .. n : Var(a[p]) = Var(a[q]) => p = q

\* A constraint of a variable that is free becomes active.
LEMMA AddconAdds ==
    ASSUME NEW a \in Seq(Constraints), NEW n \in Nat, NEW p \in n + 1 .. Len(a),
           ActivesDiffer(a, n), \A q \in 1 .. n : Var(a[q]) # Var(a[p])
    PROVE  /\ Rearranged(a, Addcon(a, n, p)) /\ ActivesDiffer(Addcon(a, n, p), n + 1)
           /\ \A r \in 1 .. Len(a) :
                 Addcon(a, n, p)[r] = IF r = n + 1 THEN a[p] ELSE IF r = p THEN a[n + 1] ELSE a[r]
<1> DEFINE b == Swap(a, p, n + 1)
<1>1. Len(a) \in Nat /\ p \in 1 .. Len(a) /\ n + 1 \in 1 .. Len(a) /\ p >= n + 1
  BY LenProperties
<1>2. /\ Rearranged(a, b)
      /\ \A r \in 1 .. Len(a) : b[r] = IF r = p THEN a[n + 1] ELSE IF r = n + 1 THEN a[p] ELSE a[r]
  BY <1>1, SwapPlaces
<1>3. b = Addcon(a, n, p)
  BY DEF Addcon
<1> HIDE DEF b
<1>4. \A r \in 1 .. n : b[r] = a[r]
  BY <1>1, <1>2
<1>5. b[n + 1] = a[p]
  BY <1>1, <1>2
<1>6. ActivesDiffer(b, n + 1)
  BY <1>4, <1>5 DEF ActivesDiffer
<1>7. QED
  BY <1>1, <1>2, <1>3, <1>6

\* The other active constraints stay active, behind the deleted one a place up.
LEMMA DelconDeletes ==
    ASSUME NEW a \in Seq(Constraints), NEW n \in 1 .. Len(a), NEW p \in 1 .. n,
           ActivesDiffer(a, n)
    PROVE  /\ Rearranged(a, Delcon(a, n, p)) /\ ActivesDiffer(Delcon(a, n, p), n - 1)
           /\ \A r \in 1 .. n - 1 :
                 Delcon(a, n, p)[r] = IF r < p THEN a[r] ELSE a[r + 1]
           /\ \A r \in n + 1 .. Len(a) : Delcon(a, n, p)[r] = a[r]
           /\ Delcon(a, n, p)[n] = a[p]
           /\ \A r \in 1 .. n : \E s \in 1 .. n : Delcon(a, n, p)[r] = a[s]
<1> DEFINE b == Delcon(a, n, p)
<1>1. Len(a) \in Nat /\ n \in Nat /\ p \in Nat /\ 1 <= p /\ p <= n /\ n <= Len(a)
  BY LenProperties
<1>2. /\ Rearranged(a, b)
      /\ \A r \in 1 .. Len(a) :
            b[r] = IF r < p \/ r > n THEN a[r] ELSE IF r = n THEN a[p] ELSE a[r + 1]
  BY DelconPlaces
<1> HIDE DEF b
<1>3. \A r \in 1 .. n - 1 : b[r] = IF r < p THEN a[r] ELSE a[r + 1]
  BY <1>1, <1>2
<1>4. \A r \in n + 1 .. Len(a) : b[r] = a[r]
  BY <1>1, <1>2
<1>5. b[n] = a[p]
  BY <1>1, <1>2
<1>6. ActivesDiffer(b, n - 1)
  <2> SUFFICES ASSUME NEW r \in 1 .. n - 1, NEW s \in 1 .. n - 1, Var(b[r]) = Var(b[s])
               PROVE  r = s
    BY DEF ActivesDiffer
  <2> DEFINE From(t) == IF t < p THEN t ELSE t + 1
  <2>1. \A t \in 1 .. n - 1 : From(t) \in 1 .. n /\ b[t] = a[From(t)]
    BY <1>1, <1>3
  <2>2. From(r) = From(s)
    <3> HIDE DEF From
    <3> QED BY <2>1 DEF ActivesDiffer
  <2>3. QED
    BY <1>1, <2>2
<1>7. \A r \in 1 .. n : \E s \in 1 .. n : b[r] = a[s]
  BY <1>1, <1>3, <1>5
<1>8. QED
  BY <1>2, <1>3, <1>4, <1>5, <1>6, <1>7 DEF b

\* It does so among the active ones.
LEMMA DelconAmong ==
    ASSUME NEW a \in Seq(Constraints), NEW n \in 1 .. Len(a), NEW p \in 1 .. n,
           ActivesDiffer(a, n)
    PROVE  /\ \A r \in n + 1 .. Len(a) : Delcon(a, n, p)[r] = a[r]
           /\ \A r \in 1 .. n : \E s \in 1 .. n : Delcon(a, n, p)[r] = a[s]
<1>1. /\ \A r \in n + 1 .. Len(a) : Delcon(a, n, p)[r] = a[r]
      /\ \A r \in 1 .. n : \E s \in 1 .. n : Delcon(a, n, p)[r] = a[s]
  BY ZenonT(30), DelconDeletes
<1>2. QED
  BY Zenon, <1>1

\* What changes the array, or which of its constraints are active.
LEMMA WhoRearranges ==
    ASSUME [Next]_vars
    PROVE  \/ iact' = iact /\ nact' = nact /\ meql' = meql
           \/ FixVariable \/ AddBounds \/ DeleteFlagged \/ PartSatisfied \/ GetdDrops
           \/ AddDegenerate \/ SdegenDrops \/ PassThrough \/ FeasibilityStep \/ Lsrch
BY DEF Next, Initialise, Satact, Conres, Getd, Bound, Feasible, Minimise, vars,
         CheckBounds, FixEnds, BoundsAdded, ShiftActive, FlagActive, ActiveChecked,
         FlaggedDeleted, StartConres, PartActive, PartViolated, Parted, GetdKeeps,
         NoDirection, DirectionFound, SdegenKeeps, Stepbd, StepEnds, Stuck, Adjtol,
         BoundsDone, ConstraintsDone, StartMinfun, StopMinfun, GoOn, ReduceTol, set, Getfes

\* What is known of the array before a step.
LEMMA ArrayFacts ==
    ASSUME ArrayInv
    PROVE  /\ iact \in Seq(Constraints) /\ Len(iact) \in Nat
           /\ \A p \in 1 .. Len(iact) : iact[p] \in Constraints /\ Var(iact[p]) \in Vars
           /\ k \in Nat /\ meql \in Nat /\ nact \in Nat /\ msat \in Nat
           /\ mdeg \in Nat /\ msatk \in Nat /\ indxbd \in Nat
           /\ meql <= nact /\ nact <= msat /\ msat <= Len(iact)
           /\ mdeg <= Len(iact) /\ msatk <= Len(iact) /\ indxbd <= Len(iact)
           /\ OneToOne(iact) /\ ActivesDiffer(iact, nact)
           /\ d \in Directions /\ stepcb \in Nat /\ x \in [Vars -> Int]
           /\ bres \in [Constraints -> Int]
BY LenProperties, ElementOfSeq, Bounds
   DEF ArrayInv, Types, Counts, Distinct, ActivesDiffer

\* The counts of the array.
LEMMA ArrayNumbers ==
    ASSUME ArrayInv
    PROVE  /\ Len(iact) \in Nat /\ k \in Nat /\ meql \in Nat /\ nact \in Nat /\ msat \in Nat
           /\ mdeg \in Nat /\ msatk \in Nat /\ indxbd \in Nat
           /\ meql <= nact /\ nact <= msat /\ msat <= Len(iact)
           /\ mdeg <= Len(iact) /\ msatk <= Len(iact) /\ indxbd <= Len(iact)
BY ArrayFacts

\* The constraint at whose boundary a step ends is about a free variable.
LEMMA EndsAtFree ==
    ASSUME ArrayInv, Stepping
    PROVE  /\ indxbd \in nact + 1 .. Len(iact) /\ (pc # "pass" => indxbd <= msat)
           /\ \A q \in 1 .. nact : Var(iact[q]) # Var(iact[indxbd])
<1>1. indxbd \in nact + 1 .. Len(iact) /\ (pc # "pass" => indxbd <= msat)
  BY ArrayFacts DEF ArrayInv, Heading, Stepping, Counts, Parting
<1>2. Slope(iact[indxbd], d) # 0 /\ iact[indxbd] \in Constraints
  BY <1>1, ArrayFacts DEF ArrayInv, Heading
<1>3. d[Var(iact[indxbd])] # 0
  BY <1>2, ArrayFacts, SlopeOf
<1>4. \A q \in 1 .. nact : d[Var(iact[q])] = 0
  BY DEF ArrayInv, Heading
<1>5. QED
  BY <1>1, <1>3, <1>4

\* A violated degenerate constraint is about a free variable.
LEMMA ViolatesFree ==
    ASSUME ArrayInv, NEW e \in Directions, Direction(e), NEW p \in Violates(e), pc = "sdegen"
    PROVE  /\ p \in nact + 1 .. mdeg /\ p \in 1 .. Len(iact)
           /\ \A q \in 1 .. nact : Var(iact[q]) # Var(iact[p])
<1>1. p \in nact + 1 .. mdeg /\ p \in 1 .. Len(iact)
  BY ArrayFacts DEF Violates
<1>2. Slope(iact[p], e) > 0 /\ iact[p] \in Constraints
  BY <1>1, ArrayFacts DEF Violates
<1>3. e[Var(iact[p])] # 0
  BY <1>2, SlopeOf
<1>4. Var(iact[p]) \in FreeVars
  BY <1>1, <1>3, ArrayFacts DEF Direction
<1>5. \A q \in 1 .. nact : Var(iact[q]) \notin FreeVars
  BY DEF FreeVars, Active
<1>6. QED
  BY <1>1, <1>4, <1>5
\* lsrch takes a step that leads somewhere.
LEMMA LsrchSteps ==
    ASSUME ArrayInv, Lsrch
    PROVE  /\ pc = "lsrch" /\ stepcb > 0 /\ Stepping
           /\ \E s \in 0 .. stepcb :
                 /\ x' = Along(s)
                 /\ IF s = stepcb THEN iact' = Addcon(iact, nact, indxbd) /\ nact' = nact + 1
                    ELSE iact' = iact /\ nact' = nact
<1>1. PICK T \in SUBSET (1 .. stepcb), s \in 0 .. stepcb :
           /\ Tries(T) /\ x' = Along(s)
           /\ IF s = stepcb THEN iact' = Addcon(iact, nact, indxbd) /\ nact' = nact + 1
              ELSE UNCHANGED <<iact, nact>>
  BY DEF Lsrch
<1>2. PICK n \in T : n \in 1 .. stepcb
  BY <1>1 DEF Tries
<1>3. stepcb > 0 /\ pc = "lsrch"
  BY <1>2, ArrayFacts DEF Lsrch
<1>4. QED
  BY <1>1, <1>3 DEF Stepping

\* Once it is filled the array is only rearranged, the constraints of fixed
\* variables stay in their places, and the active ones differ.
LEMMA OnlyRearranged ==
    ASSUME ArrayInv, [Next]_vars, pc \notin Filling
    PROVE  /\ Rearranged(iact, iact') /\ meql' = meql /\ \A p \in 1 .. meql : iact'[p] = iact[p]
           /\ nact' \in meql .. Len(iact) /\ ActivesDiffer(iact', nact')
<1> USE DEF mtot
<1>0. /\ iact \in Seq(Constraints) /\ Len(iact) \in Nat
      /\ meql \in Nat /\ nact \in Nat /\ msat \in Nat /\ mdeg \in Nat
      /\ meql <= nact /\ nact <= msat /\ msat <= Len(iact) /\ mdeg <= Len(iact)
      /\ ActivesDiffer(iact, nact)
  BY ArrayFacts
<1> DEFINE Goal == /\ Rearranged(iact, iact') /\ meql' = meql
                   /\ \A p \in 1 .. meql : iact'[p] = iact[p]
                   /\ nact' \in meql .. Len(iact) /\ ActivesDiffer(iact', nact')
<1> SUFFICES Goal
  OBVIOUS
<1>1. CASE iact' = iact /\ nact' = nact /\ meql' = meql
  BY <1>0, <1>1, ArrayFacts DEF Rearranged
<1>2. CASE FixVariable \/ AddBounds
  BY <1>2 DEF FixVariable, AddBounds, Filling
<1>3. ASSUME NEW p \in meql + 1 .. nact, iact' = Delcon(iact, nact, p), nact' = nact - 1, meql' = meql
      PROVE  Goal
  <2>1. nact \in 1 .. Len(iact) /\ p \in 1 .. nact
    BY <1>0
  <2>2. /\ Rearranged(iact, iact') /\ ActivesDiffer(iact', nact - 1)
        /\ \A r \in 1 .. nact - 1 : iact'[r] = IF r < p THEN iact[r] ELSE iact[r + 1]
    <3>1. /\ Rearranged(iact, Delcon(iact, nact, p)) /\ ActivesDiffer(Delcon(iact, nact, p), nact - 1)
          /\ \A r \in 1 .. nact - 1 :
                Delcon(iact, nact, p)[r] = IF r < p THEN iact[r] ELSE iact[r + 1]
      BY <1>0, <2>1, DelconDeletes
    <3>2. QED
      BY <1>3, <3>1
  <2>3. \A r \in 1 .. meql : iact'[r] = iact[r]
    BY <1>0, <2>1, <2>2
  <2>4. QED
    BY <1>0, <1>3, <2>1, <2>2, <2>3
<1>4. ASSUME NEW p \in nact + 1 .. Len(iact), iact' = Addcon(iact, nact, p), nact' = nact + 1,
             meql' = meql, \A q \in 1 .. nact : Var(iact[q]) # Var(iact[p])
      PROVE  Goal
  <2>1. /\ Rearranged(iact, iact') /\ ActivesDiffer(iact', nact + 1)
        /\ \A r \in 1 .. Len(iact) : iact'[r] = IF r = nact + 1 THEN iact[p]
                                                 ELSE IF r = p THEN iact[nact + 1] ELSE iact[r]
    BY <1>0, <1>4, AddconAdds
  <2>2. nact + 1 \in meql .. Len(iact) /\ \A r \in 1 .. meql : iact'[r] = iact[r]
    BY <1>0, <2>1
  <2>3. QED
    BY <1>4, <2>1, <2>2
<1>5. ASSUME Rearranged(iact, iact'), \A r \in 1 .. nact : iact'[r] = iact[r], nact' = nact,
             meql' = meql
      PROVE  Goal
  BY <1>0, <1>5 DEF ActivesDiffer
<1> HIDE DEF Goal
<1>6. CASE DeleteFlagged
  <2>1. k \in meql + 1 .. nact /\ meql' = meql
    BY <1>6, ArrayFacts DEF DeleteFlagged, ArrayInv, Counts
  <2>2. CASE iact[k] \in flagged
    BY <1>3, <1>6, <2>1, <2>2 DEF DeleteFlagged
  <2>3. CASE iact[k] \notin flagged
    <3>1. iact' = iact /\ nact' = nact
      BY <1>6, <2>3 DEF DeleteFlagged
    <3>2. QED
      BY <1>1, <2>1, <3>1 DEF Goal
  <2>4. QED
    BY <2>2, <2>3
<1>7. CASE PartSatisfied
  <2>1. /\ k \in msat + 1 .. Len(iact) /\ nact <= mdeg /\ mdeg <= msat
    BY <1>7, ArrayFacts DEF PartSatisfied, ArrayInv, Counts, Parting
  <2>2. PICK b \in BOOLEAN : iact' = Place(k, b)
    <3>1. iact' = Place(k, Res(iact[k], x) <= Tolerance)
      BY <1>7 DEF PartSatisfied
    <3>2. (Res(iact[k], x) <= Tolerance) \in BOOLEAN
      OBVIOUS
    <3>3. QED
      BY <3>1, <3>2, Zenon
  <2>3. Rearranged(iact, iact') /\ \A r \in 1 .. nact : iact'[r] = iact[r]
    <3>1. /\ \A c \in BOOLEAN : Rearranged(iact, Place(k, c))
          /\ \A r \in 1 .. nact : Place(k, FALSE)[r] = iact[r] /\ Place(k, TRUE)[r] = iact[r]
      <4>1. k \in msat + 1 .. Len(iact)
        BY <2>1
      <4>2. /\ \A c \in BOOLEAN : Rearranged(iact, Place(k, c))
            /\ \A r \in 1 .. Len(iact) :
                  /\ Place(k, FALSE)[r] = IF r = msat + 1 THEN iact[k]
                                          ELSE IF r = k THEN iact[msat + 1] ELSE iact[r]
                  /\ Place(k, TRUE)[r] = IF r = mdeg + 1 THEN iact[k]
                                         ELSE IF r = msat + 1 THEN iact[mdeg + 1]
                                         ELSE IF r = k THEN iact[msat + 1] ELSE iact[r]
        BY <1>0, <2>1, <4>1, PlacePlaces, Zenon
      <4>3. \A r \in 1 .. nact : r \in 1 .. Len(iact) /\ r # msat + 1 /\ r # mdeg + 1 /\ r # k
        BY <1>0, <2>1
      <4>4. QED
        BY <4>2, <4>3
    <3>2. QED
      BY <2>2, <3>1
  <2>4. nact' = nact /\ meql' = meql
    BY <1>7 DEF PartSatisfied
  <2>5. QED
    BY <1>5, <2>3, <2>4
<1>8. CASE GetdDrops
  BY <1>3, <1>8 DEF GetdDrops
<1>9. CASE AddDegenerate
  <2>1. PICK e \in Directions : \E p \in Violates(e) : Direction(e) /\ iact' = Addcon(iact, nact, p)
    BY <1>9 DEF AddDegenerate
  <2>2. PICK p \in Violates(e) : Direction(e) /\ iact' = Addcon(iact, nact, p)
    BY <2>1
  <2>3. pc = "sdegen" /\ nact' = nact + 1 /\ meql' = meql
    BY <1>9 DEF AddDegenerate
  <2>4. p \in nact + 1 .. mdeg /\ \A q \in 1 .. nact : Var(iact[q]) # Var(iact[p])
    BY <2>2, <2>3, ViolatesFree
  <2>5. p \in nact + 1 .. Len(iact)
    BY <2>4, ArrayFacts
  <2>6. QED
    BY <1>4, <2>2, <2>3, <2>4, <2>5
<1>10. CASE SdegenDrops
  <2>1. PICK p \in meql + 1 .. nact - 1 : iact' = Delcon(iact, nact, p)
    BY <1>10 DEF SdegenDrops
  <2>2. p \in meql + 1 .. nact /\ nact' = nact - 1 /\ meql' = meql
    BY <1>10, ArrayFacts DEF SdegenDrops
  <2>3. QED
    BY <1>3, <2>1, <2>2
<1>11. CASE PassThrough
  <2>1. /\ indxbd \in msat + 1 .. Len(iact) /\ nact' = nact /\ meql' = meql
        /\ iact' = Swap(iact, indxbd, msat + 1)
    BY <1>11, ArrayFacts, EndsAtFree DEF PassThrough, StopsAtSatisfied, Stepping
  <2>2. /\ Rearranged(iact, iact')
        /\ \A r \in 1 .. Len(iact) : iact'[r] = IF r = indxbd THEN iact[msat + 1]
                                  ELSE IF r = msat + 1 THEN iact[indxbd] ELSE iact[r]
    <3>1. indxbd \in 1 .. Len(iact) /\ msat + 1 \in 1 .. Len(iact)
      BY <1>0, <2>1
    <3>2. QED
      BY <1>0, <2>1, <3>1, SwapPlaces
  <2>3. \A r \in 1 .. nact : iact'[r] = iact[r]
    BY <1>0, <2>1, <2>2
  <2>4. QED
    BY <1>5, <2>1, <2>2, <2>3
<1>12. CASE FeasibilityStep
  <2>1. meql' = meql
    BY <1>12 DEF FeasibilityStep
  <2>2. CASE stepcb > 0
    BY <1>4, <1>12, <2>1, <2>2, EndsAtFree DEF FeasibilityStep, Stepping
  <2>3. CASE ~ (stepcb > 0)
    <3>1. iact' = iact /\ nact' = nact
      BY <1>12, <2>3 DEF FeasibilityStep
    <3>2. QED
      BY <1>1, <2>1, <3>1 DEF Goal
  <2>4. QED
    BY <2>2, <2>3
<1>13. CASE Lsrch
  <2>1. meql' = meql /\ Stepping /\ pc # "pass"
    BY <1>13, LsrchSteps DEF Lsrch
  <2>2. PICK s \in 0 .. stepcb : IF s = stepcb
                                    THEN iact' = Addcon(iact, nact, indxbd) /\ nact' = nact + 1
                                    ELSE iact' = iact /\ nact' = nact
    BY <1>13, LsrchSteps
  <2>3. CASE s = stepcb
    BY <1>4, <2>1, <2>2, <2>3, EndsAtFree
  <2>4. CASE s # stepcb
    BY <1>1, <2>1, <2>2, <2>4 DEF Goal
  <2>5. QED
    BY <2>3, <2>4
<1>14. QED
  BY <1>1, <1>2, <1>6, <1>7, <1>8, <1>9, <1>10, <1>11, <1>12, <1>13, WhoRearranges
\* What fills the array.
LEMMA WhoFills ==
    ASSUME [Next]_vars, pc \in Filling
    PROVE  UNCHANGED vars \/ CheckBounds \/ FixVariable \/ FixEnds \/ AddBounds \/ BoundsAdded
BY DEF Next, Initialise, Satact, Conres, Getd, Bound, Feasible, Minimise, vars,
         ShiftActive, FlagActive, ActiveChecked, DeleteFlagged, FlaggedDeleted, StartConres,
         PartActive, PartSatisfied, PartViolated, Parted, GetdDrops, GetdKeeps, NoDirection,
         DirectionFound, AddDegenerate, SdegenDrops, SdegenKeeps, Stepbd, PassThrough,
         StepEnds, FeasibilityStep, Stuck, Adjtol, BoundsDone, ConstraintsDone, StartMinfun,
         StopMinfun, GoOn, Lsrch, ReduceTol, Filling

\* What appending one element changes, and what it does not.
LEMMA AppendElements ==
    ASSUME NEW a \in Seq(Constraints), NEW e \in Constraints
    PROVE  /\ Append(a, e) \in Seq(Constraints) /\ Len(Append(a, e)) = Len(a) + 1
           /\ Elements(Append(a, e)) = Elements(a) \union {e}
           /\ \A p \in 1 .. Len(a) : Append(a, e)[p] = a[p]
           /\ Append(a, e)[Len(a) + 1] = e
<1> DEFINE b == Append(a, e)
<1>1. /\ b \in Seq(Constraints) /\ Len(b) = Len(a) + 1 /\ Len(a) \in Nat
      /\ \A p \in 1 .. Len(a) : b[p] = a[p]
      /\ b[Len(a) + 1] = e
  BY AppendProperties, LenProperties
<1> HIDE DEF b
<1>2. Elements(b) = Elements(a) \union {e}
  <2>1. ASSUME NEW p \in 1 .. Len(b) PROVE b[p] \in Elements(a) \union {e}
    BY <1>1 DEF Elements
  <2>2. ASSUME NEW j \in Elements(a) \union {e} PROVE \E p \in 1 .. Len(b) : b[p] = j
    <3>1. CASE j = e
      BY <1>1, <3>1
    <3>2. CASE j \in Elements(a)
      <4>1. PICK p \in 1 .. Len(a) : a[p] = j
        BY <3>2 DEF Elements
      <4>2. p \in 1 .. Len(b) /\ b[p] = j
        BY <1>1, <4>1
      <4>3. QED
        BY <4>2
    <3>3. QED
      BY <3>1, <3>2
  <2>3. QED
    BY <2>1, <2>2 DEF Elements
<1>3. QED
  BY <1>1, <1>2 DEF b

\* Two constraints are appended like one after the other.
LEMMA AppendTwo ==
    ASSUME NEW a \in Seq(Constraints), NEW e \in Constraints, NEW h \in Constraints
    PROVE  a \o <<e, h>> = Append(Append(a, e), h)
<1> DEFINE b == Append(Append(a, e), h)
           c == a \o <<e, h>>
<1>1. Len(a) \in Nat /\ <<e, h>> \in Seq(Constraints) /\ Len(<<e, h>>) = 2
  BY LenProperties
<1>2. /\ b \in Seq(Constraints) /\ Len(b) = Len(a) + 2
      /\ \A p \in 1 .. Len(a) : b[p] = a[p]
      /\ b[Len(a) + 1] = e /\ b[Len(a) + 2] = h
  <2>1. /\ Append(a, e) \in Seq(Constraints) /\ Len(Append(a, e)) = Len(a) + 1
        /\ \A p \in 1 .. Len(a) : Append(a, e)[p] = a[p]
        /\ Append(a, e)[Len(a) + 1] = e
    BY AppendElements
  <2>2. /\ b \in Seq(Constraints) /\ Len(b) = Len(a) + 2
        /\ \A p \in 1 .. Len(a) + 1 : b[p] = Append(a, e)[p]
        /\ b[Len(a) + 2] = h
    BY <1>1, <2>1, AppendElements
  <2>3. QED
    BY <1>1, <2>1, <2>2
<1>3. /\ c \in Seq(Constraints) /\ Len(c) = Len(a) + 2
      /\ \A p \in 1 .. Len(a) + 2 : c[p] = IF p <= Len(a) THEN a[p] ELSE <<e, h>>[p - Len(a)]
  BY <1>1, ConcatProperties
<1> HIDE DEF b, c
<1>4. c[Len(a) + 1] = e /\ c[Len(a) + 2] = h
  BY <1>1, <1>3
<1>5. \A p \in 1 .. Len(c) : c[p] = b[p]
  <2>1. \A p \in 1 .. Len(c) : p \in 1 .. Len(a) \/ p = Len(a) + 1 \/ p = Len(a) + 2
    BY <1>1, <1>3
  <2>2. \A p \in 1 .. Len(a) : c[p] = a[p]
    BY <1>1, <1>3
  <2>3. QED
    BY <1>2, <1>4, <2>1, <2>2
<1>6. c = b
  BY <1>2, <1>3, <1>5, SeqEqual
<1>7. QED
  BY <1>6 DEF b, c

\* A constraint that is not yet there is appended.
LEMMA AppendNew ==
    ASSUME NEW a \in Seq(Constraints), NEW e \in Constraints, e \notin Elements(a), OneToOne(a)
    PROVE  OneToOne(Append(a, e))
<1> DEFINE b == Append(a, e)
<1>1. /\ Len(b) = Len(a) + 1 /\ Len(a) \in Nat
      /\ \A p \in 1 .. Len(a) : b[p] = a[p] /\ b[p] # e
      /\ b[Len(a) + 1] = e
  BY AppendElements, LenProperties DEF Elements
<1> HIDE DEF b
<1>2. QED
  <2>1. OneToOne(b)
    BY <1>1 DEF OneToOne
  <2>2. QED
    BY <2>1 DEF b
\* Bounds are integers.
LEMMA BoundTypes ==
    ASSUME NEW v \in Vars
    PROVE  Lower[v] \in Int /\ Upper[v] \in Int /\ Lower[v] \in Coordinates /\ Upper[v] \in Coordinates
BY TolminAssumption DEF Points

\* The array keeps its order, and gains what it has to.
LEMMA DistinctStep ==
    ASSUME ArrayInv, [Next]_vars
    PROVE  Distinct'
<1> USE DEF mtot
<1>0. /\ iact \in Seq(Constraints) /\ Len(iact) \in Nat
      /\ meql \in Nat /\ nact \in Nat /\ msat \in Nat
      /\ meql <= nact /\ nact <= msat /\ msat <= Len(iact)
      /\ OneToOne(iact) /\ ActivesDiffer(iact, nact)
      /\ \A p \in 1 .. Len(iact) : iact[p] \in Constraints /\ Var(iact[p]) \in Vars
      /\ \A p \in 1 .. Len(iact) : p <= meql <=> IsFixed(Var(iact[p]))
  BY ArrayFacts DEF ArrayInv, Distinct
<1>1. CASE pc \notin Filling
  <2>1. /\ Rearranged(iact, iact') /\ meql' = meql /\ \A p \in 1 .. meql : iact'[p] = iact[p]
        /\ ActivesDiffer(iact', nact')
    BY <1>1, OnlyRearranged
  <2>2. iact' \in Seq(Constraints) /\ OneToOne(iact') /\ Len(iact') = Len(iact)
    BY <1>0, <2>1 DEF Rearranged
  <2>3. ASSUME NEW p \in 1 .. Len(iact) PROVE p <= meql <=> IsFixed(Var(iact'[p]))
    <3>1. CASE p <= meql
      <4>1. iact'[p] = iact[p]
        BY <1>0, <2>1, <3>1
      <4>2. QED
        BY <1>0, <3>1, <4>1
    <3>2. CASE ~ (p <= meql)
      <4>1. iact'[p] \in Elements(iact)
        BY <2>1, <2>2 DEF Rearranged, Elements
      <4>2. PICK q \in 1 .. Len(iact) : iact'[p] = iact[q]
        BY <4>1 DEF Elements
      <4>3. ~ (q <= meql)
        <5> SUFFICES ASSUME q <= meql PROVE FALSE
          OBVIOUS
        <5>1. iact'[q] = iact'[p] /\ q \in 1 .. Len(iact')
          BY <1>0, <2>1, <2>2, <4>2
        <5>2. q = p
          BY <2>2, <5>1 DEF OneToOne
        <5>3. QED
          BY <3>2, <5>2
      <4>4. QED
        BY <1>0, <3>2, <4>2, <4>3
    <3>3. QED
      BY <3>1, <3>2
  <2>4. QED
    BY <2>1, <2>2, <2>3 DEF Distinct, ActivesDiffer
<1>2. CASE UNCHANGED vars \/ CheckBounds \/ FixEnds \/ BoundsAdded
  <2>1. iact' = iact /\ nact' = nact /\ meql' = meql
    BY <1>2 DEF vars, set, CheckBounds, FixEnds, BoundsAdded, Getfes
  <2>2. QED
    BY <2>1 DEF ArrayInv, Distinct
<1>3. CASE FixVariable
  <2>1. k \in Vars /\ meql = Len(iact) /\ nact = meql
    BY <1>0, <1>3 DEF FixVariable, ArrayInv, Counts, Vars
  <2>2. CASE Lower[k] # Upper[k]
    <3>1. iact' = iact /\ nact' = nact /\ meql' = meql
      BY <1>3, <2>2 DEF FixVariable, set
    <3>2. QED
      BY <3>1 DEF ArrayInv, Distinct
  <2>3. CASE Lower[k] = Upper[k]
    <3>1. /\ iact' = Append(iact, N + k) /\ meql' = meql + 1 /\ nact' = nact + 1
          /\ N + k \in Constraints /\ Var(N + k) = k
      BY <1>3, <2>1, <2>3, Bounds DEF FixVariable
    <3>2. Elements(iact) = {j \in Constraints : j > N /\ IsFixed(Var(j)) /\ Var(j) < k}
      BY <1>3 DEF FixVariable, ArrayInv, Complete
    <3>3. \A p \in 1 .. Len(iact) : Var(iact[p]) # k
      <4>1. \A p \in 1 .. Len(iact) : Var(iact[p]) < k
        BY <3>2 DEF Elements
      <4>2. QED
        BY <1>0, <2>1, <4>1 DEF Vars
    <3>4. N + k \notin Elements(iact)
      BY <3>1, <3>3 DEF Elements
    <3>5. /\ iact' \in Seq(Constraints) /\ Len(iact') = Len(iact) + 1 /\ OneToOne(iact')
          /\ \A p \in 1 .. Len(iact) : iact'[p] = iact[p]
          /\ iact'[Len(iact) + 1] = N + k
      BY <1>0, <3>1, <3>4, AppendElements, AppendNew
    <3>6. \A p, q \in 1 .. nact' : Var(iact'[p]) = Var(iact'[q]) => p = q
      <4>1. \A p \in 1 .. nact' : p \in 1 .. Len(iact) \/ p = Len(iact) + 1
        BY <1>0, <2>1, <3>1
      <4>2. QED
        BY <1>0, <2>1, <3>1, <3>3, <3>5, <4>1 DEF ActivesDiffer
    <3>7. \A p \in 1 .. Len(iact') : p <= meql' <=> IsFixed(Var(iact'[p]))
      <4>1. \A p \in 1 .. Len(iact') : p \in 1 .. Len(iact) \/ p = Len(iact) + 1
        BY <1>0, <3>5
      <4>2. IsFixed(k)
        BY <2>3 DEF IsFixed
      <4>3. QED
        BY <1>0, <2>1, <3>1, <3>5, <4>1, <4>2
    <3>8. QED
      BY <3>5, <3>6, <3>7 DEF Distinct
  <2>4. QED
    BY <2>2, <2>3
<1>4. CASE AddBounds
  <2>1. k \in Vars /\ meql' = meql /\ nact' = nact /\ nact = meql
    BY <1>0, <1>4 DEF AddBounds, ArrayInv, Counts, Vars
  <2>2. CASE ~ (Lower[k] < Upper[k])
    <3>1. iact' = iact
      BY <1>4, <2>2 DEF AddBounds
    <3>2. QED
      BY <2>1, <3>1 DEF ArrayInv, Distinct
  <2>3. CASE Lower[k] < Upper[k]
    <3>1. /\ k \in Constraints /\ N + k \in Constraints /\ Var(k) = k /\ Var(N + k) = k /\ k # N + k
      BY <2>1, Bounds DEF Vars
    <3>2. ~ IsFixed(k)
      <4>1. Lower[k] \in Int /\ Upper[k] \in Int
        BY <2>1, BoundTypes
      <4>2. QED
        BY <2>3, <4>1 DEF IsFixed
    <3>3. Elements(iact) = {j \in Constraints : IF IsFixed(Var(j)) THEN j > N ELSE Var(j) < k}
      BY <1>4 DEF AddBounds, ArrayInv, Complete
    <3>4. k \notin Elements(iact) /\ N + k \notin Elements(iact)
      BY <2>1, <3>1, <3>2, <3>3 DEF Vars
    <3> DEFINE a == Append(iact, k)
    <3>5. /\ a \in Seq(Constraints) /\ Len(a) = Len(iact) + 1 /\ OneToOne(a)
          /\ Elements(a) = Elements(iact) \union {k}
          /\ \A p \in 1 .. Len(iact) : a[p] = iact[p]
          /\ a[Len(iact) + 1] = k
      BY <1>0, <3>1, <3>4, AppendElements, AppendNew
    <3>6. iact' = Append(a, N + k)
      BY <1>0, <1>4, <2>3, <3>1, AppendTwo DEF AddBounds
    <3> HIDE DEF a
    <3>7. /\ iact' \in Seq(Constraints) /\ Len(iact') = Len(iact) + 2 /\ OneToOne(iact')
          /\ \A p \in 1 .. Len(iact) + 1 : iact'[p] = a[p]
          /\ iact'[Len(iact) + 2] = N + k
      <4>1. N + k \notin Elements(a)
        BY <3>1, <3>4, <3>5
      <4>2. /\ iact' \in Seq(Constraints) /\ Len(iact') = Len(a) + 1 /\ OneToOne(iact')
            /\ \A p \in 1 .. Len(a) : iact'[p] = a[p]
            /\ iact'[Len(a) + 1] = N + k
        BY <3>1, <3>5, <3>6, <4>1, AppendElements, AppendNew
      <4>3. QED
        BY <1>0, <3>5, <4>2
    <3>8. /\ \A p \in 1 .. Len(iact) : iact'[p] = iact[p]
          /\ iact'[Len(iact) + 1] = k
      BY <1>0, <3>5, <3>7
    <3>9. \A p, q \in 1 .. nact' : Var(iact'[p]) = Var(iact'[q]) => p = q
      <4>1. \A p \in 1 .. nact' : p \in 1 .. nact /\ iact'[p] = iact[p]
        BY <1>0, <2>1, <3>8
      <4>2. QED
        BY <1>0, <4>1 DEF ActivesDiffer
    <3>10. \A p \in 1 .. Len(iact') : p <= meql' <=> IsFixed(Var(iact'[p]))
      <4>1. \A p \in 1 .. Len(iact') : p \in 1 .. Len(iact) \/ p = Len(iact) + 1 \/ p = Len(iact) + 2
        BY <1>0, <3>7
      <4>2. \A p \in 1 .. Len(iact) : p <= meql' <=> IsFixed(Var(iact'[p]))
        BY <1>0, <2>1, <3>8
      <4>3. ~ IsFixed(Var(iact'[Len(iact) + 1])) /\ ~ IsFixed(Var(iact'[Len(iact) + 2]))
        BY <3>1, <3>2, <3>7, <3>8
      <4>4. ~ (Len(iact) + 1 <= meql') /\ ~ (Len(iact) + 2 <= meql')
        BY <1>0, <2>1
      <4>5. QED
        BY <4>1, <4>2, <4>3, <4>4
    <3>11. QED
      BY <3>7, <3>9, <3>10 DEF Distinct
  <2>4. QED
    BY <2>2, <2>3
<1>5. QED
  BY <1>1, <1>2, <1>3, <1>4, WhoFills
\* All bounds that are needed enter the array, and none leaves it.
LEMMA CompleteStep ==
    ASSUME ArrayInv, [Next]_vars
    PROVE  Complete'
<1> USE DEF mtot
<1>0. Complete /\ iact \in Seq(Constraints)
  BY ArrayFacts DEF ArrayInv
<1>1. CASE pc \notin Filling
  <2>1. Elements(iact') = Elements(iact)
    BY <1>1, OnlyRearranged DEF Rearranged
  <2>2. pc' \notin Filling
    BY <1>1 DEF Next, Initialise, Satact, Conres, Getd, Bound, Feasible, Minimise, vars,
         CheckBounds, FixVariable, FixEnds, AddBounds, BoundsAdded, ShiftActive, FlagActive,
         ActiveChecked, DeleteFlagged, FlaggedDeleted, StartConres, PartActive,
         PartSatisfied, PartViolated, Parted, GetdDrops, GetdKeeps, NoDirection,
         DirectionFound, AddDegenerate, SdegenDrops, SdegenKeeps, Stepbd, PassThrough,
         StepEnds, FeasibilityStep, Stuck, Adjtol, BoundsDone, ConstraintsDone, StartMinfun,
         StopMinfun, GoOn, Lsrch, ReduceTol, Filling, Parting, Getfes, AfterConres
  <2>3. info' = 4 => info = 4 /\ pc = "return"
    <3>1. info' = info \/ info' \in {0, 1, 2, 3, 6, 7, 8}
      BY DEF Next, Initialise, Satact, Conres, Getd, Bound, Feasible, Minimise, vars,
         CheckBounds, FixVariable, FixEnds, AddBounds, BoundsAdded, ShiftActive, FlagActive,
         ActiveChecked, DeleteFlagged, FlaggedDeleted, StartConres, PartActive,
         PartSatisfied, PartViolated, Parted, GetdDrops, GetdKeeps, NoDirection,
         DirectionFound, AddDegenerate, SdegenDrops, SdegenKeeps, Stepbd, PassThrough,
         StepEnds, FeasibilityStep, Stuck, Adjtol, BoundsDone, ConstraintsDone, StartMinfun,
         StopMinfun, GoOn, Lsrch, ReduceTol, result, Getfes
    <3>2. QED
      BY <1>0, <1>1, <3>1 DEF Complete, Filling
  <2>4. pc = "return" => pc' = "return" /\ info' = info
    BY DEF Next, Initialise, Satact, Conres, Getd, Bound, Feasible, Minimise, vars,
         CheckBounds, FixVariable, FixEnds, AddBounds, BoundsAdded, ShiftActive, FlagActive,
         ActiveChecked, DeleteFlagged, FlaggedDeleted, StartConres, PartActive,
         PartSatisfied, PartViolated, Parted, GetdDrops, GetdKeeps, NoDirection,
         DirectionFound, AddDegenerate, SdegenDrops, SdegenKeeps, Stepbd, PassThrough,
         StepEnds, FeasibilityStep, Stuck, Adjtol, BoundsDone, ConstraintsDone, StartMinfun,
         StopMinfun, GoOn, Lsrch, ReduceTol, result, Getfes
  <2>5. info = 4 => pc' = "return" /\ info' = 4
    BY <1>0, <1>1, <2>4 DEF Complete, Filling
  <2>6. QED
    BY <1>0, <1>1, <2>1, <2>2, <2>3, <2>5 DEF Complete, Filling
<1>2. CASE UNCHANGED vars
  BY <1>0, <1>2 DEF vars, set, result, Complete, Filling
<1>3. CASE CheckBounds
  <2>1. Elements(iact) = {} /\ iact' = iact /\ k' = 1 /\ pc = "initzu" /\ info = 4
    BY <1>0, <1>3 DEF CheckBounds, set, ArrayInv, Counts, Elements, Complete
  <2>2. CASE \E v \in Vars : Lower[v] > Upper[v]
    BY <1>3, <2>1, <2>2 DEF CheckBounds, Complete, Filling
  <2>3. CASE ~ \E v \in Vars : Lower[v] > Upper[v]
    <3>1. pc' = "fix" /\ info' = 1
      BY <1>3, <2>3 DEF CheckBounds
    <3>2. \A v \in Vars : Lower[v] <= Upper[v]
      BY <2>3, BoundTypes
    <3>3. {j \in Constraints : j > N /\ IsFixed(Var(j)) /\ Var(j) < 1} = {}
      BY Bounds DEF Vars
    <3>4. QED
      BY <2>1, <3>1, <3>2, <3>3 DEF Complete, Filling
  <2>4. QED
    BY <2>2, <2>3
<1>4. CASE FixVariable
  <2>1. /\ k \in Vars /\ pc = "fix" /\ pc' = "fix" /\ k' = k + 1 /\ info' = info
        /\ Elements(iact) = {j \in Constraints : j > N /\ IsFixed(Var(j)) /\ Var(j) < k}
    BY <1>0, <1>4 DEF FixVariable, ArrayInv, Counts, Vars, Complete, result
  <2>2. \A j \in Constraints : Var(j) < k + 1 <=> Var(j) < k \/ Var(j) = k
    BY <2>1, Bounds DEF Vars
  <2>3. \A j \in Constraints : Var(j) = k /\ j > N <=> j = N + k
    BY <2>1, Bounds DEF Vars
  <2>4. Elements(iact') = {j \in Constraints : j > N /\ IsFixed(Var(j)) /\ Var(j) < k + 1}
    <3>1. CASE IsFixed(k)
      <4>1. iact' = Append(iact, N + k) /\ N + k \in Constraints
        BY <1>4, <2>1, <3>1, Bounds DEF FixVariable, IsFixed
      <4>2. Elements(iact') = Elements(iact) \union {N + k}
        BY <1>0, <4>1, AppendElements
      <4>3. QED
        BY <2>1, <2>2, <2>3, <3>1, <4>1, <4>2
    <3>2. CASE ~ IsFixed(k)
      <4>1. iact' = iact
        BY <1>4, <3>2 DEF FixVariable, IsFixed, set
      <4>2. QED
        BY <2>1, <2>2, <3>2, <4>1
    <3>3. QED
      BY <3>1, <3>2
  <2>5. QED
    BY <1>0, <2>1, <2>4 DEF Complete, Filling
<1>5. CASE FixEnds
  <2>1. /\ k = N + 1 /\ pc = "fix" /\ pc' = "addbounds" /\ k' = 1 /\ info' = info /\ iact' = iact
        /\ Elements(iact) = {j \in Constraints : j > N /\ IsFixed(Var(j)) /\ Var(j) < k}
    BY <1>0, <1>5, Bounds DEF FixEnds, ArrayInv, Counts, Complete, result, set
  <2>2. \A j \in Constraints : Var(j) < k /\ ~ (Var(j) < 1)
    BY <2>1, Bounds DEF Vars
  <2>3. Elements(iact) = {j \in Constraints : IF IsFixed(Var(j)) THEN j > N ELSE Var(j) < 1}
    BY <2>1, <2>2
  <2>4. QED
    BY <1>0, <2>1, <2>3 DEF Complete, Filling
<1>6. CASE AddBounds
  <2>1. /\ k \in Vars /\ pc = "addbounds" /\ pc' = "addbounds" /\ k' = k + 1 /\ info' = info
        /\ Elements(iact) = {j \in Constraints : IF IsFixed(Var(j)) THEN j > N ELSE Var(j) < k}
        /\ Lower[k] <= Upper[k] /\ Lower[k] \in Int /\ Upper[k] \in Int
    BY <1>0, <1>6, BoundTypes DEF AddBounds, ArrayInv, Counts, Vars, Complete, result
  <2>2. \A j \in Constraints : Var(j) < k + 1 <=> Var(j) < k \/ Var(j) = k
    BY <2>1, Bounds DEF Vars
  <2>3. \A j \in Constraints : Var(j) = k <=> j = k \/ j = N + k
    BY <2>1, Bounds DEF Vars
  <2>4. Elements(iact') = {j \in Constraints : IF IsFixed(Var(j)) THEN j > N ELSE Var(j) < k + 1}
    <3>1. CASE ~ IsFixed(k)
      <4>1. iact' = iact \o <<k, N + k>> /\ N + k \in Constraints /\ k \in Constraints
        BY SMTT(30), <1>6, <2>1, <3>1, Bounds DEF AddBounds, IsFixed
      <4>2. iact' = Append(Append(iact, k), N + k)
        BY <1>0, <4>1, AppendTwo
      <4>3. Append(iact, k) \in Seq(Constraints) /\ Elements(Append(iact, k)) = Elements(iact) \union {k}
        BY <1>0, <4>1, AppendElements
      <4>4. Elements(iact') = Elements(iact) \union {k} \union {N + k}
        <5> DEFINE a == Append(iact, k)
        <5> HIDE DEF a
        <5>1. a \in Seq(Constraints) /\ iact' = Append(a, N + k)
          BY <4>2, <4>3 DEF a
        <5>2. Elements(iact') = Elements(a) \union {N + k}
          BY <4>1, <5>1, AppendElements
        <5>3. QED
          BY <4>3, <5>2 DEF a
      <4>5. QED
        BY <2>1, <2>2, <2>3, <3>1, <4>1, <4>4
    <3>2. CASE IsFixed(k)
      <4>1. iact' = iact
        BY <1>6, <2>1, <3>2 DEF AddBounds, IsFixed
      <4>2. QED
        BY <2>1, <2>2, <3>2, <4>1
    <3>3. QED
      BY <3>1, <3>2
  <2>5. QED
    BY <1>0, <2>1, <2>4 DEF Complete, Filling
<1>7. CASE BoundsAdded
  <2>1. /\ k = N + 1 /\ pc = "addbounds" /\ pc' = "satact" /\ info' = 0 /\ iact' = iact
        /\ Elements(iact) = {j \in Constraints : IF IsFixed(Var(j)) THEN j > N ELSE Var(j) < k}
    BY <1>0, <1>7, Bounds DEF BoundsAdded, Getfes, ArrayInv, Counts, Complete, set
  <2>2. \A j \in Constraints : Var(j) < k
    BY <2>1, Bounds DEF Vars
  <2>3. Elements(iact) = {j \in Constraints : IsFixed(Var(j)) => j > N}
    BY <2>1, <2>2
  <2>4. QED
    BY <1>0, <2>1, <2>3 DEF Complete, Filling
<1>8. QED
  BY <1>1, <1>2, <1>3, <1>4, <1>5, <1>6, <1>7, WhoFills
\* The length of the array changes only while it is filled.
LEMMA LengthStays ==
    ASSUME ArrayInv, [Next]_vars, pc \notin Filling
    PROVE  Len(iact') = Len(iact)
BY OnlyRearranged DEF Rearranged

\* The active constraints do not move when the step passes through a boundary.
LEMMA PassedThrough ==
    ASSUME ArrayInv, PassThrough
    PROVE  /\ indxbd \in msat + 1 .. Len(iact) /\ pc = "pass"
           /\ nact <= mdeg /\ mdeg <= msat /\ nact' = nact /\ msat' = msat + 1
           /\ mdeg' = mdeg /\ d' = d /\ x' = x /\ Len(iact') = Len(iact)
           /\ bres' = [bres EXCEPT ![iact[indxbd]] = 0]
           /\ \A r \in 1 .. Len(iact) : iact'[r] = IF r = indxbd THEN iact[msat + 1]
                                  ELSE IF r = msat + 1 THEN iact[indxbd] ELSE iact[r]
<1>1. /\ indxbd \in msat + 1 .. Len(iact) /\ pc = "pass" /\ nact <= mdeg /\ mdeg <= msat
      /\ iact' = Swap(iact, indxbd, msat + 1)
  BY ArrayFacts, EndsAtFree
     DEF PassThrough, StopsAtSatisfied, Stepping, ArrayInv, Counts, Parting
<1>2. /\ nact' = nact /\ msat' = msat + 1 /\ mdeg' = mdeg /\ d' = d /\ x' = x
      /\ bres' = [bres EXCEPT ![iact[indxbd]] = 0]
  BY DEF PassThrough, point
<1>3. indxbd \in 1 .. Len(iact) /\ msat + 1 \in 1 .. Len(iact)
  BY <1>1, ArrayNumbers
<1>4. iact \in Seq(Constraints)
  BY ArrayFacts
<1>5. /\ Rearranged(iact, iact')
      /\ \A r \in 1 .. Len(iact) : iact'[r] = IF r = indxbd THEN iact[msat + 1]
                             ELSE IF r = msat + 1 THEN iact[indxbd] ELSE iact[r]
  BY <1>1, <1>3, <1>4, SwapPlaces
<1>6. QED
  BY <1>1, <1>2, <1>5 DEF Rearranged

\* The parts of the array and the loops.
LEMMA CountsStep ==
    ASSUME ArrayInv, [Next]_vars
    PROVE  Counts'
<1> USE DEF mtot
<1>0. /\ Counts /\ Len(iact) \in Nat /\ iact \in Seq(Constraints) /\ N \in Nat
      /\ (Stepping => indxbd \in nact + 1 .. Len(iact) /\ (pc # "pass" => indxbd <= msat))
  BY ArrayFacts, EndsAtFree, Bounds DEF ArrayInv
<1>1. CASE pc \in Filling
  <2>1. CASE UNCHANGED vars
    BY <1>0, <2>1 DEF vars, set, residuals, motion, Counts
  <2>2. CASE CheckBounds
    BY <1>0, <2>2 DEF CheckBounds, set, residuals, motion, Counts, Parting
  <2>3. CASE FixVariable
    <3>1. CASE Lower[k] = Upper[k]
      <4>1. N + k \in Constraints
        BY <1>0, <2>3, Bounds DEF FixVariable, Counts, Vars
      <4>2. Len(iact') = Len(iact) + 1
        BY <1>0, <2>3, <3>1, <4>1, AppendElements DEF FixVariable
      <4>3. QED
        BY <1>0, <2>3, <3>1, <4>2 DEF FixVariable, residuals, motion, Counts, Parting
    <3>2. CASE Lower[k] # Upper[k]
      BY <1>0, <2>3, <3>2 DEF FixVariable, set, residuals, motion, Counts, Parting
    <3>3. QED
      BY <3>1, <3>2
  <2>4. CASE FixEnds
    BY <1>0, <2>4 DEF FixEnds, set, residuals, motion, Counts, Parting
  <2>5. CASE AddBounds
    <3>1. Len(iact') \in Nat /\ Len(iact') >= Len(iact)
      <4>1. iact' = iact \/ iact' = iact \o <<k, N + k>>
        BY <2>5 DEF AddBounds
      <4>2. <<k, N + k>> \in Seq(Constraints) /\ Len(<<k, N + k>>) = 2
        BY <1>0, <2>5, Bounds DEF AddBounds, Counts, Vars
      <4>3. Len(iact \o <<k, N + k>>) = Len(iact) + 2
        BY <1>0, <4>2, ConcatProperties
      <4>4. QED
        BY <1>0, <4>1, <4>3
    <3>2. QED
      BY <1>0, <2>5, <3>1 DEF AddBounds, residuals, motion, Counts, Parting
  <2>6. CASE BoundsAdded
    BY <1>0, <2>6 DEF BoundsAdded, Getfes, set, residuals, motion, Counts, Parting
  <2>7. QED
    BY <1>1, <2>1, <2>2, <2>3, <2>4, <2>5, <2>6, WhoFills
<1>2. CASE pc \notin Filling
  <2>1. Len(iact') = Len(iact) /\ nact' \in meql .. Len(iact) /\ meql' = meql
    BY <1>2, OnlyRearranged, LengthStays
  <2>2. CASE Satact
    <3>1. CASE ShiftActive \/ FlagActive
      BY <1>0, <2>1, <3>1 DEF ShiftActive, FlagActive, set, residuals, motion, Counts, Parting
    <3>2. CASE ActiveChecked
      BY <1>0, <2>1, <3>2 DEF ActiveChecked, set, residuals, motion, Counts, Parting
    <3>3. CASE DeleteFlagged
      BY <1>0, <2>1, <3>3 DEF DeleteFlagged, residuals, motion, Counts, Parting
    <3>4. CASE FlaggedDeleted
      BY <1>0, <2>1, <3>4
         DEF FlaggedDeleted, residuals, motion, Counts, Parting, SatisfiedAfterShift
    <3>5. QED
      BY <2>2, <3>1, <3>2, <3>3, <3>4 DEF Satact
  <2>3. CASE Conres
    <3>1. CASE StartConres
      BY <1>0, <1>2, <2>1, <3>1 DEF StartConres, motion, Counts, Parting
    <3>2. CASE PartActive
      BY <1>0, <1>2, <2>1, <3>2 DEF PartActive, set, motion, Counts, Parting
    <3>3. CASE PartSatisfied
      BY <1>0, <1>2, <2>1, <3>3 DEF PartSatisfied, motion, Counts, Parting
    <3>4. CASE PartViolated
      BY <1>0, <1>2, <2>1, <3>4 DEF PartViolated, set, motion, Counts, Parting
    <3>5. CASE Parted
      BY <1>0, <1>2, <2>1, <3>5 DEF Parted, set, residuals, Counts, Parting
    <3>6. QED
      BY <2>3, <3>1, <3>2, <3>3, <3>4, <3>5 DEF Conres
  <2>4. CASE Getd
    <3>1. CASE AddDegenerate
      <4>1. nact' = nact + 1 /\ nact < mdeg
        BY <3>1, ArrayFacts DEF AddDegenerate, Violates
      <4>2. QED
        BY <1>0, <2>1, <3>1, <4>1 DEF AddDegenerate, residuals, motion, Counts, Parting
    <3>2. CASE ~ AddDegenerate
      BY <1>0, <1>2, <2>1, <2>4, <3>2
         DEF Getd, GetdDrops, GetdKeeps, NoDirection, DirectionFound, SdegenDrops, SdegenKeeps,
             set, residuals, motion, Counts, Parting
    <3>3. QED
      BY <3>1, <3>2
  <2>5. CASE Bound
    <3>1. CASE Stepbd
      <4>1. /\ pc = "stepbd" /\ pc' \in {"pass", "kt", "step"} /\ k' = k /\ nact' = nact
            /\ msat' = msat /\ mdeg' = mdeg /\ msatk' = msatk
            /\ indxbd' \in mdeg + 1 .. Len(iact) \/ indxbd' = 0
        BY <3>1 DEF Stepbd, AfterConres, set, Nearest
      <4>2. indxbd' \in Nat /\ indxbd' <= Len(iact)
        BY <4>1, ArrayNumbers
      <4>3. QED
        BY <1>0, <2>1, <4>1, <4>2 DEF Counts, Parting
    <3>2. CASE PassThrough
      <4>1. /\ indxbd \in msat + 1 .. Len(iact) /\ pc = "pass" /\ nact' = nact /\ msat' = msat + 1
            /\ mdeg' = mdeg /\ nact <= mdeg /\ mdeg <= msat
        BY <3>2, PassedThrough
      <4>2. /\ k' = k /\ meql' = meql /\ msatk' = msatk /\ pc' \in {"pass", "kt", "step"}
            /\ indxbd' \in mdeg + 1 .. Len(iact) \/ indxbd' = msat + 1
        BY <3>2 DEF PassThrough, AfterConres, Nearest
      <4>3. msat + 1 \in 1 .. Len(iact) /\ indxbd' \in 1 .. Len(iact)
        BY <4>1, <4>2, ArrayNumbers
      <4>4. QED
        BY <1>0, <2>1, <4>1, <4>2, <4>3 DEF Counts, Parting
    <3>3. CASE StepEnds
      BY <1>0, <2>1, <3>3 DEF StepEnds, AfterConres, set, residuals, motion, Counts, Parting
    <3>4. QED
      BY <2>5, <3>1, <3>2, <3>3 DEF Bound
  <2>6. CASE Feasible
    <3>1. CASE FeasibilityStep
      BY <1>0, <2>1, <3>1 DEF FeasibilityStep, residuals, motion, Counts, Parting, Stepping
    <3>2. CASE Stuck \/ ConstraintsDone
      BY <1>0, <2>1, <3>2 DEF Stuck, ConstraintsDone, set, residuals, motion, Counts, Parting
    <3>3. CASE Adjtol \/ BoundsDone
      BY <1>0, <2>1, <3>3 DEF Adjtol, BoundsDone, Getfes, set, residuals, motion, Counts, Parting
    <3>4. QED
      BY <2>6, <3>1, <3>2, <3>3 DEF Feasible
  <2>7. CASE Minimise
    <3>1. CASE StartMinfun
      BY <1>0, <1>2, <2>1, <3>1 DEF StartMinfun, residuals, motion, Counts, Parting
    <3>2. CASE StopMinfun \/ GoOn \/ ReduceTol
      BY <1>0, <1>2, <2>1, <3>2
         DEF StopMinfun, GoOn, ReduceTol, set, residuals, motion, Counts, Parting
    <3>3. CASE Lsrch
      <4>1. msat' = msat /\ k' = k /\ mdeg' = mdeg /\ msatk' = msatk /\ indxbd' = indxbd
        BY <3>3 DEF Lsrch, residuals, motion
      <4>2. pc' \in {"reduce", "conres"}
        BY <3>3 DEF Lsrch
      <4>3. nact' <= msat
        <5>1. nact' = nact \/ (nact' = nact + 1 /\ stepcb > 0)
          BY <3>3, LsrchSteps
        <5>2. QED
          BY <1>0, <3>3, <5>1 DEF Lsrch, Stepping, Counts
      <4>4. nact' \in Nat /\ meql <= nact'
        BY <1>0, <2>1 DEF Counts
      <4>5. QED
        BY <1>0, <2>1, <4>1, <4>2, <4>3, <4>4 DEF Counts, Parting
    <3>4. QED
      BY <2>7, <3>1, <3>2, <3>3 DEF Minimise
  <2>8. CASE UNCHANGED vars
    BY <1>0, <2>8 DEF vars, set, residuals, motion, Counts
  <2>9. QED
    <3>1. ~ Initialise
      BY <1>2 DEF Initialise, CheckBounds, FixVariable, FixEnds, AddBounds, BoundsAdded, Filling
    <3>2. QED
      BY <2>2, <2>3, <2>4, <2>5, <2>6, <2>7, <2>8, <3>1 DEF Next
<1>3. QED
  BY <1>1, <1>2
\* What leads to a step.
LEMMA WhoLeads ==
    ASSUME [Next]_vars, pc' \in {"stepbd", "pass", "step", "kt", "lsrch"}
    PROVE  \/ UNCHANGED vars \/ DirectionFound \/ NoDirection \/ Stepbd \/ PassThrough
           \/ StepEnds \/ GoOn \/ Parted
BY DEF Next, Initialise, Satact, Conres, Getd, Bound, Feasible, Minimise, vars,
         CheckBounds, FixVariable, FixEnds, AddBounds, BoundsAdded, ShiftActive, FlagActive,
         ActiveChecked, DeleteFlagged, FlaggedDeleted, StartConres, PartActive,
         PartSatisfied, PartViolated, GetdDrops, GetdKeeps, AddDegenerate, SdegenDrops,
         SdegenKeeps, FeasibilityStep, Stuck, Adjtol, BoundsDone, ConstraintsDone,
         StartMinfun, StopMinfun, Lsrch, ReduceTol, Getfes

\* What leads to a direction.
LEMMA WhoSeeks ==
    ASSUME [Next]_vars, pc' \in {"getd", "sdegen", "interpolate"}
    PROVE  \/ UNCHANGED vars \/ Parted \/ GetdDrops \/ GetdKeeps \/ AddDegenerate \/ SdegenDrops
           \/ SdegenKeeps
BY DEF Next, Initialise, Satact, Conres, Getd, Bound, Feasible, Minimise, vars,
         CheckBounds, FixVariable, FixEnds, AddBounds, BoundsAdded, ShiftActive, FlagActive,
         ActiveChecked, DeleteFlagged, FlaggedDeleted, StartConres, PartActive,
         PartSatisfied, PartViolated, NoDirection, DirectionFound, Stepbd, PassThrough,
         StepEnds, FeasibilityStep, Stuck, Adjtol, BoundsDone, ConstraintsDone, StartMinfun,
         StopMinfun, GoOn, Lsrch, ReduceTol, Getfes, AfterConres

\* A direction is along the active constraints, and so is the step.
LEMMA HeadingStep ==
    ASSUME ArrayInv, [Next]_vars
    PROVE  Heading'
<1> USE DEF mtot
<1>0. Heading /\ Counts
  BY DEF ArrayInv
<1>1. CASE UNCHANGED vars
  BY <1>0, <1>1 DEF vars, set, residuals, motion, Heading, Stepping
<1>2. CASE DirectionFound
  <2>1. PICK e \in Directions : Direction(e) /\ d' = e
    BY <1>2 DEF DirectionFound
  <2>2. pc = "sdegen" /\ pc' = "stepbd" /\ iact' = iact /\ nact' = nact /\ stepcb' = stepcb
    BY <1>2 DEF DirectionFound, set
  <2>3. ASSUME NEW p \in 1 .. nact PROVE Var(iact[p]) \in Vars /\ Var(iact[p]) \notin FreeVars
    <3>1. p \in 1 .. Len(iact)
      BY ArrayNumbers
    <3>2. QED
      BY <3>1, ArrayFacts DEF FreeVars, Active
  <2>4. \A p \in 1 .. nact : d'[Var(iact[p])] = 0
    BY <2>1, <2>3 DEF Direction
  <2>5. QED
    BY <1>0, <2>2, <2>4 DEF Heading, Stepping
<1>3. CASE NoDirection \/ Parted
  <2>1. pc' \in {"step", "kt", "getd"} /\ stepcb' = 0
    BY <1>0, <1>3 DEF NoDirection, Parted, Heading
  <2>2. QED
    BY <2>1 DEF Heading, Stepping
<1>4. CASE Stepbd
  <2>1. /\ pc = "stepbd" /\ iact' = iact /\ nact' = nact /\ d' = d /\ msat' = msat /\ mdeg' = mdeg
        /\ bres' = Steps
    BY <1>4 DEF Stepbd, set, Steps
  <2>2. \A p \in mdeg + 1 .. Len(iact) : Steps[iact[p]] = StepTo(iact[p])
    BY ArrayFacts, StepsType
  <2>3. ASSUME NEW p \in mdeg + 1 .. Len(iact), bres'[iact'[p]] > 0
        PROVE  Slope(iact'[p], d) # 0
    <3>1. iact[p] \in Constraints /\ d \in Directions /\ bres \in [Constraints -> Int]
      BY ArrayFacts
    <3>2. Slope(iact[p], d) = 0 => StepTo(iact[p]) = 0
      BY <3>1, StepToType
    <3>3. StepTo(iact[p]) > 0
      BY <2>1, <2>2, <2>3
    <3>4. QED
      BY <2>1, <3>2, <3>3
  <2>4. \A p \in 1 .. nact : d[Var(iact[p])] = 0
    BY <1>0, <2>1 DEF Heading
  <2>5. CASE pc' = "pass"
    <3>1. indxbd' \in mdeg + 1 .. Len(iact) /\ bres'[iact'[indxbd']] > 0
      BY <1>4, <2>1, <2>5 DEF Stepbd, Steps, Nearest, AfterConres
    <3>2. QED
      BY <2>1, <2>3, <2>4, <2>5, <3>1 DEF Heading, Stepping
  <2>6. CASE pc' # "pass"
    <3>1. stepcb' = 0 /\ pc' \in {"kt", "step"}
      BY <1>4, <2>6 DEF Stepbd, AfterConres
    <3>2. QED
      BY <3>1 DEF Heading, Stepping
  <2>7. QED
    BY <2>5, <2>6
<1>5. CASE PassThrough
  <2>1. /\ indxbd \in msat + 1 .. Len(iact) /\ pc = "pass"
        /\ nact <= mdeg /\ mdeg <= msat /\ nact' = nact /\ msat' = msat + 1
        /\ mdeg' = mdeg /\ d' = d /\ Len(iact') = Len(iact)
        /\ bres' = [bres EXCEPT ![iact[indxbd]] = 0]
        /\ \A r \in 1 .. Len(iact) : iact'[r] = IF r = indxbd THEN iact[msat + 1]
                               ELSE IF r = msat + 1 THEN iact[indxbd] ELSE iact[r]
    BY <1>5, PassedThrough
  <2>2. \A p \in 1 .. nact : iact'[p] = iact[p] /\ d[Var(iact[p])] = 0
    BY <1>0, <2>1, ArrayFacts DEF Heading, Stepping
  <2>3. Slope(iact[indxbd], d) # 0
    BY <1>0, <2>1 DEF Heading, Stepping
  <2>4. \A p \in mdeg + 1 .. Len(iact) : bres'[iact'[p]] > 0 => Slope(iact'[p], d) # 0
    <3>1. ASSUME NEW p \in mdeg + 1 .. Len(iact), bres'[iact'[p]] > 0
          PROVE  Slope(iact'[p], d) # 0
      <4>1. PICK q \in mdeg + 1 .. Len(iact) : iact'[p] = iact[q]
        <5>1. mdeg + 1 <= msat + 1 /\ msat + 1 <= Len(iact) /\ p \in 1 .. Len(iact)
          BY <2>1, ArrayNumbers
        <5>2. iact'[p] = iact[p] \/ iact'[p] = iact[indxbd] \/ iact'[p] = iact[msat + 1]
          BY <2>1, <5>1
        <5>3. indxbd \in mdeg + 1 .. Len(iact) /\ msat + 1 \in mdeg + 1 .. Len(iact)
          <6>1. mdeg \in Nat /\ msat \in Nat /\ Len(iact) \in Nat /\ mdeg <= msat /\ msat + 1 <= Len(iact)
            BY <2>1, <5>1, ArrayNumbers
          <6>2. indxbd \in msat + 1 .. Len(iact)
            BY <2>1
          <6>3. QED
            BY <6>1, <6>2
        <5>4. QED
          BY <5>2, <5>3
      <4>2. iact[q] = iact[indxbd] \/ bres'[iact[q]] = bres[iact[q]]
        BY <2>1, <4>1, ArrayFacts
      <4>3. QED
        BY <1>0, <2>1, <2>3, <3>1, <4>1, <4>2 DEF Heading
    <3>2. QED
      BY <3>1
  <2>5. CASE pc' = "pass"
    <3>1. indxbd' \in mdeg + 1 .. Len(iact) /\ bres'[iact'[indxbd']] > 0
      BY <1>5, <2>1, <2>5 DEF PassThrough, Nearest, AfterConres
    <3>2. QED
      BY <2>1, <2>2, <2>4, <2>5, <3>1 DEF Heading, Stepping
  <2>6. CASE pc' # "pass"
    <3>1. indxbd' = msat + 1 /\ pc' \in {"kt", "step"}
      BY <1>5, <2>1, <2>6 DEF PassThrough, AfterConres
    <3>2. iact'[msat + 1] = iact[indxbd] /\ msat + 1 \in nact' + 1 .. msat'
      <4>1. msat \in Nat /\ nact \in Nat /\ mdeg \in Nat /\ Len(iact) \in Nat
        BY ArrayFacts
      <4>2. msat + 1 \in 1 .. Len(iact) /\ msat + 1 \in nact' + 1 .. msat'
        BY <2>1, <4>1
      <4>3. QED
        BY <2>1, <4>2
    <3>3. QED
      BY <2>1, <2>2, <2>3, <3>1, <3>2 DEF Heading, Stepping
  <2>7. QED
    BY <2>5, <2>6
<1>6. CASE StepEnds
  <2>1. /\ iact' = iact /\ nact' = nact /\ d' = d /\ msat' = msat /\ indxbd' = indxbd
        /\ pc = "pass" /\ pc' \in {"kt", "step"} /\ indxbd <= msat /\ nact <= mdeg
    BY <1>0, <1>6 DEF StepEnds, set, motion, AfterConres, StopsAtSatisfied, Counts, Parting
  <2>2. indxbd \in nact + 1 .. msat
    BY <1>0, <2>1, ArrayFacts DEF Heading
  <2>3. QED
    BY <1>0, <2>1, <2>2 DEF Heading, Stepping
<1>7. CASE GoOn
  BY <1>0, <1>7 DEF GoOn, set, motion, Heading, Stepping
<1>8. CASE pc' \notin {"stepbd", "pass", "step", "kt", "lsrch"}
  <2>1. CASE pc' \in {"getd", "sdegen", "interpolate"}
    <3>1. stepcb' = 0
      BY <1>0, <2>1, WhoSeeks
         DEF vars, motion, Parted, GetdDrops, GetdKeeps, AddDegenerate, SdegenDrops, SdegenKeeps,
             Heading
    <3>2. QED
      BY <1>8, <3>1 DEF Heading, Stepping
  <2>2. CASE pc' \notin {"getd", "sdegen", "interpolate"}
    BY <1>8, <2>2 DEF Heading, Stepping
  <2>3. QED
    BY <2>1, <2>2
<1>9. QED
  BY <1>1, <1>2, <1>3, <1>4, <1>5, <1>6, <1>7, <1>8, WhoLeads

\* The array and the steps, in every behaviour.
LEMMA ArrayAlways == Spec => []ArrayInv
<1>1. Init => ArrayInv
  <2> SUFFICES ASSUME Init PROVE ArrayInv
    OBVIOUS
  <2>1. Types
    <3>1. x \in [Vars -> Int] /\ Zero \in Directions
      BY TolminAssumption DEF Init, Points, Zero, Directions
    <3>2. bres \in [Constraints -> Int] /\ d \in Directions /\ flagged \subseteq Constraints
      BY <3>1 DEF Init
    <3>3. seeking \in BOOLEAN /\ moved \in BOOLEAN /\ diffset \in BOOLEAN
      BY DEF Init
    <3>4. /\ pc = "initzu" /\ caller = "bounds" /\ tol = "coarse"
          /\ ddotg \in Int /\ stepcb \in Nat /\ sumres \in Int /\ sumrsk \in Int /\ info \in 0 .. 8
      BY DEF Init
    <3>5. QED
      BY <3>1, <3>2, <3>3, <3>4, Zenon DEF Types, Filling
  <2>2. iact = <<>> /\ Len(iact) = 0 /\ iact \in Seq(Constraints)
    BY DEF Init
  <2>3. Counts
    BY <2>2, Bounds DEF Init, Counts, Parting
  <2>4. Distinct
    BY <2>2 DEF Init, Distinct, OneToOne
  <2>5. Complete
    BY DEF Init, Complete, Filling
  <2>6. Heading
    BY DEF Init, Heading, Stepping
  <2>7. QED
    BY <2>1, <2>3, <2>4, <2>5, <2>6 DEF ArrayInv
<1>2. ArrayInv /\ [Next]_vars => ArrayInv'
  BY TypesStep, CountsStep, DistinctStep, CompleteStep, HeadingStep DEF ArrayInv
<1>3. QED
  BY <1>1, <1>2, PTL DEF Spec
-----------------------------------------------------------------------------
(* The constraints that are satisfied.                                     *)

\* A constraint that is active, or treated like one: within the tolerance.
Kept(p) == Res(iact[p], x) >= 0 /\ (tol = "exact" => Res(iact[p], x) = 0)

\* The upper bound of a fixed variable is its value.
FixedStay ==
    /\ pc = "fix" => \A v \in Vars : IsFixed(v) /\ v < k => x[v] = Lower[v]
    /\ pc \notin {"initzu", "fix"} /\ info # 4 => \A v \in Vars : IsFixed(v) => x[v] = Lower[v]

\* Active constraints, and degenerate ones, hold.
KeptTo ==
    IF pc = "satact" THEN k - 1
    ELSE IF pc \in {"delete", "conres", "found", "stuck", "start", "step", "kt", "lsrch"} THEN nact
    ELSE IF pc \in Parting THEN mdeg ELSE 0

KeptActive == \A p \in 1 .. KeptTo : Kept(p)

\* Those up to place msat hold.
Counted ==
    \/ pc \in {"satact", "delete"} /\ info = 0
    \/ pc \in {"conres", "found", "stuck", "adjtol"}
    \/ pc = "step" /\ stepcb = 0

Satisfied == Counted => \A p \in 1 .. msat : Res(iact[p], x) >= 0

\* What conres has seen is where it belongs, with its residual in bres, and what
\* it has not is known to hold up to place msatk.
Partition ==
    pc = "partition" =>
    /\ \A p \in mdeg + 1 .. msat : Res(iact[p], x) > 0
    /\ \A p \in msat + 1 .. k - 1 : Res(iact[p], x) < 0
    /\ \A p \in nact + 1 .. k - 1 : bres[iact[p]] = Res(iact[p], x)
    /\ \A p \in k .. msatk : Res(iact[p], x) >= 0

Parts ==
    pc \in {"getd", "sdegen", "interpolate", "stepbd"} =>
    /\ \A p \in mdeg + 1 .. msat : Res(iact[p], x) > 0
    /\ \A p \in msat + 1 .. Len(iact) : Res(iact[p], x) < 0
    /\ \A p \in mdeg + 1 .. Len(iact) : bres[iact[p]] = Res(iact[p], x)

\* The gradient of the sum of the violations, of the bounds that are not in A.
Uphill(v, A) ==
    IF x[v] < Lower[v] /\ v \notin A THEN -1
    ELSE IF x[v] > Upper[v] /\ N + v \notin A THEN 1 ELSE 0

\* Constraints that conres has not looked at yet.
Unseen == {iact[p] : p \in k .. Len(iact)}

\* conres looks for a feasible point unless it works for minfun, and g is then
\* the gradient of the sum of the violations.
Seeking ==
    /\ pc \in Parting => (seeking <=> caller # "minfun")
    /\ pc \in {"kt", "lsrch", "start", "reduce"} => caller = "minfun"
    /\ pc = "step" => caller # "minfun"
    /\ pc = "conres" /\ caller # "minfun" => msat < Len(iact)
    /\ pc = "partition" /\ caller = "minfun" => msatk = Len(iact)
    /\ pc = "partition" /\ caller # "minfun" => \A v \in Vars : g[v] = Uphill(v, Unseen)
    /\ pc \in (Parting \ {"partition"}) \union {"step"} /\ caller # "minfun" =>
          \A v \in Vars : g[v] = Uphill(v, {})

\* minfun works inside the bounds, and all constraints count as satisfied.
InMinfun ==
    caller = "minfun" /\ pc # "return" =>
    /\ pc \in Parting \union {"start", "conres", "kt", "lsrch", "reduce", "adjtol"}
    /\ x \in Inside
    /\ pc # "partition" => msat = Len(iact)

\* The direction violates no degenerate constraint, and no other one more.
Bounded ==
    /\ pc \in {"stepbd", "pass"} => \A p \in nact + 1 .. mdeg : Slope(iact[p], d) <= 0
    /\ pc = "stepbd" => \A p \in msat + 1 .. Len(iact) : Slope(iact[p], d) <= 0

\* It leads downhill in some variable.
Descending == pc = "stepbd" \/ Stepping => \E v \in Vars : g[v] # 0 /\ d[v] = -g[v]

\* What bres tells of the boundaries: those of satisfied constraints on the way
\* and those of violated ones are where it says, unless the step goes beyond.
Passing ==
    pc = "pass" =>
    /\ stepcb = bres[iact[indxbd]] /\ stepcb > 0
    /\ \A p \in mdeg + 1 .. Len(iact) : bres[iact[p]] > 0 => stepcb <= bres[iact[p]]
    /\ \A p \in mdeg + 1 .. msat :
          \/ Res(iact[p], x) > 0 /\ bres[iact[p]] = IF Slope(iact[p], d) = 1 THEN Res(iact[p], x) ELSE 0
          \/ /\ Res(iact[p], x) < 0 /\ Slope(iact[p], d) = -1
             /\ bres[iact[p]] = 0 /\ -Res(iact[p], x) <= stepcb
    /\ \A p \in msat + 1 .. Len(iact) :
          /\ Res(iact[p], x) < 0 /\ Slope(iact[p], d) <= 0
          /\ bres[iact[p]] = IF Slope(iact[p], d) = -1 THEN -Res(iact[p], x) ELSE 0

\* A step that is about to be taken.
Going == pc \in {"step", "kt", "lsrch"} /\ stepcb > 0

\* It ends at a boundary, and leaves nothing that is satisfied.
Arriving ==
    Going =>
    /\ \A v \in Vars : /\ d[v] = 1 => x[v] + stepcb <= Upper[v]
                       /\ d[v] = -1 => x[v] - stepcb >= Lower[v]
    /\ \A p \in 1 .. msat : Res(iact[p], Along(stepcb)) >= 0
    /\ Res(iact[indxbd], Along(stepcb)) = 0

\* While the function can still be reduced there is a step to take.
Ahead == pc = "lsrch" \/ (pc = "kt" /\ ddotg < 0) => stepcb > 0

PartsInv ==
    /\ x \in Points /\ g \in Directions /\ FixedStay /\ KeptActive /\ Satisfied /\ Partition /\ Parts
    /\ Seeking /\ InMinfun /\ Bounded /\ Descending /\ Passing /\ Arriving
    /\ Ahead
\* A residual depends on the variable of the constraint alone.
LEMMA ResAt ==
    ASSUME NEW j \in Constraints, NEW p \in [Vars -> Int], NEW q \in [Vars -> Int],
           p[Var(j)] = q[Var(j)]
    PROVE  Res(j, p) = Res(j, q)
<1>1. Res(j, p) = IF j <= N THEN p[Var(j)] - Lower[Var(j)] ELSE Upper[Var(j)] - p[Var(j)]
  BY ResType
<1>2. Res(j, q) = IF j <= N THEN q[Var(j)] - Lower[Var(j)] ELSE Upper[Var(j)] - q[Var(j)]
  BY ResType
<1>3. QED
  BY <1>1, <1>2

\* A step changes residuals by its length, against the slope.
LEMMA ResAlong ==
    ASSUME x \in [Vars -> Int], d \in Directions, NEW j \in Constraints, NEW s \in Int
    PROVE  /\ Res(j, x) \in Int /\ Slope(j, d) \in {-1, 0, 1}
           /\ Res(j, Along(s)) = IF Slope(j, d) = 1 THEN Res(j, x) - s
                                 ELSE IF Slope(j, d) = -1 THEN Res(j, x) + s ELSE Res(j, x)
<1> DEFINE v == Var(j)
           y == Along(s)
<1>0. v \in Vars
  BY Bounds
<1>1. /\ y \in [Vars -> Int] /\ d[v] \in {-1, 0, 1} /\ x[v] \in Int
      /\ y[v] = IF d[v] = 1 THEN x[v] + s ELSE IF d[v] = -1 THEN x[v] - s ELSE x[v]
  BY <1>0, AlongType
<1>2. /\ Slope(j, d) = IF j <= N THEN -d[v] ELSE d[v]
      /\ Slope(j, d) \in {-1, 0, 1}
  BY SlopeOf, <1>1
<1>3. /\ Res(j, x) \in Int /\ Lower[v] \in Int /\ Upper[v] \in Int
      /\ Res(j, x) = IF j <= N THEN x[v] - Lower[v] ELSE Upper[v] - x[v]
  BY ResType
<1> HIDE DEF y
<1>4. Res(j, y) = IF j <= N THEN y[v] - Lower[v] ELSE Upper[v] - y[v]
  BY <1>1, ResType
<1> HIDE DEF v
<1>5. Res(j, y) = IF Slope(j, d) = 1 THEN Res(j, x) - s
                  ELSE IF Slope(j, d) = -1 THEN Res(j, x) + s ELSE Res(j, x)
  <2>1. CASE d[v] = 1
    BY <1>1, <1>2, <1>3, <1>4, <2>1
  <2>2. CASE d[v] = -1
    BY <1>1, <1>2, <1>3, <1>4, <2>2
  <2>3. CASE d[v] = 0
    BY <1>1, <1>2, <1>3, <1>4, <2>3
  <2>4. QED
    BY <1>1, <2>1, <2>2, <2>3
<1>6. QED
  BY <1>2, <1>3, <1>5 DEF y

\* Where the constraints of a variable stand.
LEMMA PlacesOf ==
    ASSUME ArrayInv, pc \notin Filling, info # 4, NEW v \in Vars
    PROVE  /\ IsFixed(v) => \E p \in 1 .. meql : iact[p] = N + v
           /\ ~ IsFixed(v) => /\ \E p \in meql + 1 .. Len(iact) : iact[p] = v
                              /\ \E p \in meql + 1 .. Len(iact) : iact[p] = N + v
<1>1. Elements(iact) = {j \in Constraints : IsFixed(Var(j)) => j > N}
  BY DEF ArrayInv, Complete
<1>2. /\ v \in Constraints /\ N + v \in Constraints /\ Var(v) = v /\ Var(N + v) = v /\ N + v > N
  BY Bounds DEF Vars
<1>3. /\ \A p \in 1 .. Len(iact) : p <= meql <=> IsFixed(Var(iact[p]))
      /\ meql \in Nat /\ Len(iact) \in Nat /\ meql <= Len(iact)
  BY ArrayFacts DEF ArrayInv, Distinct
<1>4. N + v \in Elements(iact)
  BY <1>1, <1>2
<1>5. PICK p \in 1 .. Len(iact) : iact[p] = N + v
  BY <1>4 DEF Elements
<1>6. CASE IsFixed(v)
  BY <1>2, <1>3, <1>5, <1>6
<1>7. CASE ~ IsFixed(v)
  <2>1. v \in Elements(iact)
    BY <1>1, <1>2, <1>7
  <2>2. PICK q \in 1 .. Len(iact) : iact[q] = v
    BY <2>1 DEF Elements
  <2>3. q \in meql + 1 .. Len(iact) /\ p \in meql + 1 .. Len(iact)
    BY <1>2, <1>3, <1>5, <1>7, <2>2
  <2>4. QED
    BY <1>5, <1>7, <2>2, <2>3
<1>8. QED
  BY <1>6, <1>7

\* The first places are those of the upper bounds of fixed variables.
LEMMA FixedPlaces ==
    ASSUME ArrayInv, pc \notin Filling, info # 4, NEW p \in 1 .. meql
    PROVE  /\ iact[p] \in Constraints /\ ~ (iact[p] <= N) /\ IsFixed(Var(iact[p]))
           /\ p \in 1 .. Len(iact)
<1>1. p \in 1 .. Len(iact) /\ meql \in Nat /\ p <= meql
  BY ArrayNumbers
<1>2. iact[p] \in Elements(iact) /\ iact[p] \in Constraints
  BY <1>1, ArrayFacts DEF Elements
<1>3. IsFixed(Var(iact[p]))
  BY <1>1, <1>2 DEF ArrayInv, Distinct
<1>4. iact[p] > N
  BY <1>2, <1>3 DEF ArrayInv, Complete
<1>5. QED
  BY <1>1, <1>2, <1>3, <1>4, Bounds

\* A point is inside the bounds when it satisfies the constraints of the array,
\* and fixed variables have their values.
LEMMA AllInside ==
    ASSUME ArrayInv, pc \notin Filling, info # 4, x \in Points,
           \A v \in Vars : IsFixed(v) => x[v] = Lower[v],
           \A p \in 1 .. Len(iact) : Res(iact[p], x) >= 0
    PROVE  x \in Inside
<1> SUFFICES ASSUME NEW v \in Vars PROVE Lower[v] <= x[v] /\ x[v] <= Upper[v]
  BY DEF Inside
<1>1. Lower[v] \in Int /\ Upper[v] \in Int /\ x[v] \in Int
  BY BoundTypes, ArrayFacts
<1>2. CASE IsFixed(v)
  BY <1>1, <1>2 DEF IsFixed
<1>3. CASE ~ IsFixed(v)
  <2>1. PICK p, q \in meql + 1 .. Len(iact) : iact[p] = v /\ iact[q] = N + v
    BY <1>3, PlacesOf
  <2>2. p \in 1 .. Len(iact) /\ q \in 1 .. Len(iact)
    BY ArrayFacts
  <2>3. Res(v, x) >= 0 /\ Res(N + v, x) >= 0
    BY <2>1, <2>2
  <2>4. Res(v, x) = x[v] - Lower[v] /\ Res(N + v, x) = Upper[v] - x[v]
    BY Bounds DEF Res
  <2>5. QED
    BY <1>1, <2>3, <2>4
<1>4. QED
  BY <1>2, <1>3

\* Inside the bounds every constraint is satisfied.
LEMMA InsideRes ==
    ASSUME NEW p \in Inside, NEW j \in Constraints
    PROVE  Res(j, p) >= 0 /\ Res(j, p) \in Int /\ p \in [Vars -> Int]
<1>1. p \in [Vars -> Int]
  BY TolminAssumption DEF Inside, Points
<1>2. Var(j) \in Vars
  BY Bounds
<1>3. Lower[Var(j)] <= p[Var(j)] /\ p[Var(j)] <= Upper[Var(j)]
  BY <1>2 DEF Inside
<1>4. QED
  BY <1>1, <1>3, ResType
\* What a step and what stepbd are told by PartsInv.
LEMMA NotFilling ==
    ASSUME ArrayInv, PartsInv, pc \notin Filling, pc # "return"
    PROVE  info # 4 /\ \A v \in Vars : IsFixed(v) => x[v] = Lower[v]
BY DEF ArrayInv, Complete, PartsInv, FixedStay, Filling

\* The places a step leads past: the constraints of fixed variables and active
\* ones stay as they are, and no variable goes beyond a bound that it obeys.
LEMMA OnTheWay ==
    ASSUME ArrayInv, PartsInv, Going, NEW s \in 0 .. stepcb
    PROVE  /\ Along(s) \in Points
           /\ \A p \in 1 .. nact : /\ Along(s)[Var(iact[p])] = x[Var(iact[p])]
                                   /\ Res(iact[p], Along(s)) = Res(iact[p], x)
           /\ \A v \in Vars : IsFixed(v) => Along(s)[v] = x[v]
           /\ x \in Inside => Along(s) \in Inside
<1>1. /\ x \in [Vars -> Int] /\ d \in Directions /\ stepcb \in Nat /\ s \in Int
      /\ 0 <= s /\ s <= stepcb /\ Stepping /\ pc \notin Filling
      /\ x \in Points
  BY ArrayFacts DEF Going, Stepping, Filling, PartsInv
<1>2. \A v \in Vars : /\ d[v] = 1 => x[v] + stepcb <= Upper[v]
                      /\ d[v] = -1 => x[v] - stepcb >= Lower[v]
  BY DEF PartsInv, Arriving
<1> DEFINE y == Along(s)
<1>3. /\ y \in [Vars -> Int]
      /\ \A v \in Vars : /\ d[v] \in {-1, 0, 1} /\ x[v] \in Int
                         /\ y[v] = IF d[v] = 1 THEN x[v] + s
                                   ELSE IF d[v] = -1 THEN x[v] - s ELSE x[v]
  BY <1>1, AlongType
<1> HIDE DEF y
<1>4. ASSUME NEW v \in Vars PROVE y[v] \in Coordinates
  <2>1. /\ x[v] \in Coordinates /\ Lower[v] \in Coordinates /\ Upper[v] \in Coordinates
        /\ x[v] \in Int /\ Lower[v] \in Int /\ Upper[v] \in Int
    BY <1>1, BoundTypes DEF Points
  <2>2. \A a, b \in Coordinates : a .. b \subseteq Coordinates
    BY TolminAssumption
  <2>3. CASE d[v] = 1
    <3>1. y[v] \in x[v] .. Upper[v]
      BY <1>1, <1>2, <1>3, <2>1, <2>3
    <3>2. QED
      BY <2>1, <2>2, <3>1
  <2>4. CASE d[v] = -1
    <3>1. y[v] \in Lower[v] .. x[v]
      BY <1>1, <1>2, <1>3, <2>1, <2>4
    <3>2. QED
      BY <2>1, <2>2, <3>1
  <2>5. CASE d[v] = 0
    BY <1>3, <2>1, <2>5
  <2>6. QED
    BY <1>3, <2>3, <2>4, <2>5
<1>5. y \in Points
  BY <1>3, <1>4 DEF Points
<1>6. ASSUME NEW p \in 1 .. nact
      PROVE  y[Var(iact[p])] = x[Var(iact[p])] /\ Res(iact[p], y) = Res(iact[p], x)
  <2>0. p \in 1 .. Len(iact)
    BY ArrayFacts
  <2>1. iact[p] \in Constraints /\ Var(iact[p]) \in Vars /\ d[Var(iact[p])] = 0
    BY <1>1, <2>0, ArrayFacts DEF ArrayInv, Heading
  <2>2. y[Var(iact[p])] = x[Var(iact[p])]
    BY <1>3, <2>1
  <2>3. QED
    BY <1>1, <1>3, <2>1, <2>2, ResAt
<1>7. ASSUME NEW v \in Vars, IsFixed(v) PROVE y[v] = x[v]
  <2>1. info # 4
    BY <1>1, NotFilling DEF Going
  <2>2. PICK p \in 1 .. meql : iact[p] = N + v
    BY <1>1, <1>7, <2>1, PlacesOf
  <2>3. p \in 1 .. nact /\ Var(iact[p]) = v
    BY <2>2, ArrayFacts, Bounds
  <2>4. QED
    BY <1>6, <2>3
<1>8. ASSUME x \in Inside PROVE y \in Inside
  <2>1. ASSUME NEW v \in Vars PROVE Lower[v] <= y[v] /\ y[v] <= Upper[v]
    <3>1. /\ Lower[v] <= x[v] /\ x[v] <= Upper[v]
          /\ Lower[v] \in Int /\ Upper[v] \in Int
      BY <1>8, BoundTypes DEF Inside
    <3>2. QED
      BY <1>1, <1>2, <1>3, <3>1
  <2>2. QED
    BY <1>5, <2>1 DEF Inside
<1>9. QED
  BY <1>5, <1>6, <1>7, <1>8 DEF y

\* lsrch goes to a point on the way.
LEMMA LsrchGoes ==
    ASSUME ArrayInv, Lsrch
    PROVE  Going /\ \E s \in 0 .. stepcb :
                 /\ x' = Along(s)
                 /\ IF s = stepcb THEN iact' = Addcon(iact, nact, indxbd) /\ nact' = nact + 1
                    ELSE iact' = iact /\ nact' = nact
BY LsrchSteps DEF Going

\* satact shifts no variable of a constraint that it has looked at.
LEMMA ShiftKeeps ==
    ASSUME ArrayInv, PartsInv, ShiftActive
    PROVE  /\ pc = "satact" /\ k \in 1 .. nact /\ k > meql /\ k \in Nat
           /\ x' \in Points /\ Res(iact[k], x') = 0
           /\ \A q \in 1 .. k - 1 : /\ x'[Var(iact[q])] = x[Var(iact[q])]
                                    /\ Res(iact[q], x') = Res(iact[q], x)
<1>1. /\ pc = "satact" /\ k \in 1 .. nact /\ k \in Nat /\ NeedsShift(k)
      /\ x' \in Points /\ Res(iact[k], x') = 0
      /\ \A q \in 1 .. k - 1 : x'[Var(iact[q])] = x[Var(iact[q])]
  BY ArrayFacts DEF ShiftActive, Shifted, ArrayInv, Counts
<1>2. x' \in [Vars -> Int] /\ x \in [Vars -> Int]
  BY <1>1, ArrayFacts, TolminAssumption DEF Points
<1>3. ASSUME NEW q \in 1 .. k - 1 PROVE Res(iact[q], x') = Res(iact[q], x)
  <2>1. iact[q] \in Constraints
    BY <1>1, ArrayFacts
  <2>2. QED
    BY <1>1, <1>2, <2>1, ResAt
<1>4. ASSUME k <= meql PROVE FALSE
  <2>1. pc \notin Filling /\ pc # "return" /\ k \in 1 .. meql
    BY <1>1, <1>4, ArrayFacts DEF Filling
  <2>2. info # 4 /\ \A v \in Vars : IsFixed(v) => x[v] = Lower[v]
    BY <2>1, NotFilling
  <2>3. iact[k] \in Constraints /\ ~ (iact[k] <= N) /\ IsFixed(Var(iact[k]))
    BY <2>1, <2>2, FixedPlaces
  <2>4. x[Var(iact[k])] = Lower[Var(iact[k])]
    BY <2>2, <2>3, Bounds
  <2>5. Res(iact[k], x) = Upper[Var(iact[k])] - x[Var(iact[k])] /\ Upper[Var(iact[k])] \in Int
    BY <1>2, <2>3, ResType
  <2>6. Res(iact[k], x) = 0
    BY <2>3, <2>4, <2>5 DEF IsFixed
  <2>7. QED
    BY <1>1, <2>6 DEF NeedsShift
<1>5. k > meql
  BY <1>1, <1>4, ArrayNumbers
<1>6. QED
  BY <1>1, <1>3, <1>5

\* The point stays one, and fixed variables keep their values.
LEMMA PointStep ==
    ASSUME ArrayInv, PartsInv, [Next]_vars
    PROVE  x' \in Points /\ FixedStay'
<1>0. x \in Points /\ FixedStay
  BY DEF PartsInv
<1>1. CASE FixVariable
  <2>1. k \in Vars /\ pc = "fix" /\ pc' = "fix" /\ k' = k + 1 /\ k \in Nat /\ info' = info
    BY <1>1 DEF FixVariable, ArrayInv, Counts, Vars, result
  <2>2. Upper[k] \in Coordinates
    BY <2>1, BoundTypes
  <2>3. x' = IF IsFixed(k) THEN [x EXCEPT ![k] = Upper[k]] ELSE x
    BY <1>1 DEF FixVariable, IsFixed
  <2>4. x' \in Points
    BY <1>0, <2>1, <2>2, <2>3 DEF Points
  <2>5. ASSUME NEW v \in Vars, IsFixed(v), v < k + 1 PROVE x'[v] = Lower[v]
    <3>1. CASE v = k
      <4>1. x'[k] = Upper[k]
        BY <1>0, <2>1, <2>3, <2>5, <3>1 DEF Points
      <4>2. QED
        BY <2>5, <3>1, <4>1 DEF IsFixed
    <3>2. CASE v # k
      <4>1. v < k
        BY <2>1, <2>5, <3>2 DEF Vars
      <4>2. x'[v] = x[v]
        BY <1>0, <2>3, <3>2 DEF Points
      <4>3. QED
        BY <1>0, <2>1, <2>5, <4>1, <4>2 DEF FixedStay
    <3>3. QED
      BY <3>1, <3>2
  <2>6. QED
    BY <2>1, <2>4, <2>5 DEF FixedStay
<1>2. CASE ShiftActive
  <2>1. /\ pc = "satact" /\ pc' = "satact" /\ k > meql /\ k \in Nat /\ x' \in Points
        /\ \A q \in 1 .. k - 1 : x'[Var(iact[q])] = x[Var(iact[q])]
    BY <1>2, ShiftKeeps DEF ShiftActive
  <2>2. pc \notin Filling /\ info # 4 /\ \A v \in Vars : IsFixed(v) => x[v] = Lower[v]
    BY <2>1, NotFilling DEF Filling
  <2>3. ASSUME NEW v \in Vars, IsFixed(v) PROVE x'[v] = Lower[v]
    <3>1. PICK p \in 1 .. meql : iact[p] = N + v
      BY <2>2, <2>3, PlacesOf
    <3>2. p \in 1 .. k - 1 /\ Var(iact[p]) = v
      BY <2>1, <3>1, ArrayFacts, Bounds
    <3>3. QED
      BY <2>1, <2>2, <2>3, <3>2
  <2>4. QED
    BY <2>1, <2>3 DEF FixedStay
<1>3. ASSUME NEW s \in 0 .. stepcb, Going, x' = Along(s) PROVE x' \in Points /\ FixedStay'
  <2>1. pc' \notin {"fix"}
    BY <1>3 DEF Next, Initialise, Satact, Conres, Getd, Bound, Feasible, Minimise, vars, Going,
         CheckBounds, FixVariable, FixEnds, AddBounds, BoundsAdded, ShiftActive, FlagActive,
         ActiveChecked, DeleteFlagged, FlaggedDeleted, StartConres, PartActive,
         PartSatisfied, PartViolated, Parted, GetdDrops, GetdKeeps, NoDirection,
         DirectionFound, AddDegenerate, SdegenDrops, SdegenKeeps, Stepbd, PassThrough,
         StepEnds, FeasibilityStep, Stuck, Adjtol, BoundsDone, ConstraintsDone, StartMinfun,
         StopMinfun, GoOn, Lsrch, ReduceTol, Getfes, AfterConres
  <2>2. \A v \in Vars : IsFixed(v) => x[v] = Lower[v]
    BY <1>3, NotFilling DEF Going, Filling
  <2>3. x' \in Points /\ \A v \in Vars : IsFixed(v) => x'[v] = x[v]
    BY <1>3, OnTheWay
  <2>4. QED
    BY <2>1, <2>2, <2>3 DEF FixedStay
<1>4. CASE Lsrch
  BY <1>3, <1>4, LsrchGoes
<1>5. CASE FeasibilityStep /\ stepcb > 0
  <2>1. Going /\ x' = Along(stepcb) /\ stepcb \in 0 .. stepcb
    BY <1>5, ArrayFacts DEF FeasibilityStep, Going
  <2>2. QED
    BY <1>3, <2>1
<1>6. CASE x' = x
  <2>1. /\ pc' = "fix" => (pc = "fix" /\ k' = k) \/ (pc = "initzu" /\ k' = k) \/ FixVariable
        /\ pc' \notin {"initzu", "fix"} /\ info' # 4 =>
              \/ pc \notin {"initzu", "fix"} /\ info # 4
              \/ pc = "fix" /\ k > N
              \/ pc = "return"
    BY DEF Next, Initialise, Satact, Conres, Getd, Bound, Feasible, Minimise, vars,
         CheckBounds, FixVariable, FixEnds, AddBounds, BoundsAdded, ShiftActive, FlagActive,
         ActiveChecked, DeleteFlagged, FlaggedDeleted, StartConres, PartActive,
         PartSatisfied, PartViolated, Parted, GetdDrops, GetdKeeps, NoDirection,
         DirectionFound, AddDegenerate, SdegenDrops, SdegenKeeps, Stepbd, PassThrough,
         StepEnds, FeasibilityStep, Stuck, Adjtol, BoundsDone, ConstraintsDone, StartMinfun,
         StopMinfun, GoOn, Lsrch, ReduceTol, Getfes, AfterConres, result, ArrayInv, Complete
  <2>2. pc = "return" => pc' = pc /\ info' = info
    BY DEF Next, Initialise, Satact, Conres, Getd, Bound, Feasible, Minimise, vars,
         CheckBounds, FixVariable, FixEnds, AddBounds, BoundsAdded, ShiftActive, FlagActive,
         ActiveChecked, DeleteFlagged, FlaggedDeleted, StartConres, PartActive,
         PartSatisfied, PartViolated, Parted, GetdDrops, GetdKeeps, NoDirection,
         DirectionFound, AddDegenerate, SdegenDrops, SdegenKeeps, Stepbd, PassThrough,
         StepEnds, FeasibilityStep, Stuck, Adjtol, BoundsDone, ConstraintsDone, StartMinfun,
         StopMinfun, GoOn, Lsrch, ReduceTol, result
  <2>3. pc = "initzu" => k = 1 /\ \A v \in Vars : ~ (v < 1)
    BY DEF ArrayInv, Counts, Vars
  <2>4. pc = "fix" /\ k > N => \A v \in Vars : v < k
    BY ArrayFacts, Bounds DEF Vars
  <2>5. QED
    BY <1>0, <1>1, <1>6, <2>1, <2>2, <2>3, <2>4 DEF FixedStay
<1>7. CASE FeasibilityStep /\ ~ (stepcb > 0)
  BY <1>6, <1>7 DEF FeasibilityStep
<1>8. QED
  BY <1>1, <1>2, <1>4, <1>5, <1>6, <1>7, WhoMoves
\* They are places of the array.
LEMMA KeptToType == ArrayInv => KeptTo \in 0 .. Len(iact)
BY ArrayFacts DEF ArrayInv, Counts, KeptTo, Parting

\* What could make a constraint that is kept one that is not.
LEMMA WhoKeeps ==
    ASSUME ArrayInv, [Next]_vars
    PROVE  \/ iact' = iact /\ x' = x /\ tol' = tol /\ KeptTo' <= KeptTo
           \/ FixVariable \/ AddBounds \/ ShiftActive \/ FlagActive \/ DeleteFlagged \/ PartSatisfied
           \/ GetdDrops \/ AddDegenerate \/ SdegenDrops \/ PassThrough \/ FeasibilityStep \/ Lsrch
           \/ Adjtol
<1>1. Counts /\ nact \in Nat /\ KeptTo >= 0 /\ KeptTo \in Int
  BY KeptToType DEF ArrayInv, Counts
<1>2. CASE UNCHANGED vars
  BY <1>1, <1>2 DEF vars, set, point, residuals, KeptTo
<1>3. CASE Initialise
  BY <1>1, <1>3 DEF Initialise, CheckBounds, FixEnds, BoundsAdded, Getfes, KeptTo, Parting, set, point
<1>4. CASE Satact
  BY <1>1, <1>4 DEF Satact, ActiveChecked, FlaggedDeleted, Counts, KeptTo, Parting, set, point
<1>5. CASE Conres
  BY <1>1, <1>5 DEF Conres, StartConres, PartActive, PartViolated, Parted, Counts, KeptTo,
                    Parting, set, point, residuals
<1>6. CASE Getd
  BY <1>1, <1>6 DEF Getd, GetdKeeps, NoDirection, DirectionFound, SdegenKeeps, Counts, KeptTo,
                    Parting, set, point, residuals
<1>7. CASE Bound
  BY <1>1, <1>7 DEF Bound, Stepbd, StepEnds, AfterConres, Counts, KeptTo, Parting, set, point, residuals
<1>8. CASE Feasible
  BY <1>1, <1>8 DEF Feasible, Stuck, BoundsDone, ConstraintsDone, Getfes, KeptTo, Parting, set, point
<1>9. CASE Minimise
  BY <1>1, <1>9 DEF Minimise, StartMinfun, StopMinfun, GoOn, ReduceTol, KeptTo, Parting, set, point
<1>10. QED
  BY <1>2, <1>3, <1>4, <1>5, <1>6, <1>7, <1>8, <1>9 DEF Next

\* addcon exchanges two places.
LEMMA AddconPlaces ==
    ASSUME ArrayInv, NEW p \in nact + 1 .. Len(iact)
    PROVE  \A r \in 1 .. Len(iact) :
              Addcon(iact, nact, p)[r] = IF r = nact + 1 THEN iact[p]
                                         ELSE IF r = p THEN iact[nact + 1] ELSE iact[r]
<1>1. p \in 1 .. Len(iact) /\ nact + 1 \in 1 .. Len(iact) /\ iact \in Seq(Constraints)
  <2>1. p \in 1 .. Len(iact) /\ nact + 1 \in 1 .. Len(iact)
    BY ArrayNumbers
  <2>2. QED
    BY <2>1, ArrayFacts
<1>2. \A r \in 1 .. Len(iact) :
         Swap(iact, p, nact + 1)[r] = IF r = p THEN iact[nact + 1]
                                      ELSE IF r = nact + 1 THEN iact[p] ELSE iact[r]
  BY <1>1, SwapPlaces
<1>3. QED
  BY <1>1, <1>2 DEF Addcon

\* It does so among the places up to the later one.
LEMMA AddconWithin ==
    ASSUME ArrayInv, NEW p \in nact + 1 .. Len(iact), NEW m \in p .. Len(iact), NEW r \in 1 .. m
    PROVE  \E q \in 1 .. m : Addcon(iact, nact, p)[r] = iact[q]
<1>1. /\ p \in Nat /\ m \in Nat /\ nact \in Nat /\ Len(iact) \in Nat
      /\ r \in 1 .. Len(iact) /\ p \in 1 .. m /\ nact + 1 \in 1 .. m
  BY ArrayNumbers
<1>2. Addcon(iact, nact, p)[r] \in {iact[p], iact[nact + 1], iact[r]}
  BY <1>1, AddconPlaces
<1>3. QED
  BY <1>1, <1>2

\* delcon leaves the same constraints among the places up to any active one's end.
LEMMA DelconWithin ==
    ASSUME ArrayInv, NEW p \in 1 .. nact, NEW m \in nact .. Len(iact), NEW r \in 1 .. m
    PROVE  \E q \in 1 .. m : Delcon(iact, nact, p)[r] = iact[q]
<1>1. /\ nact \in 1 .. Len(iact) /\ iact \in Seq(Constraints) /\ ActivesDiffer(iact, nact)
      /\ nact \in Nat /\ m \in Nat /\ Len(iact) \in Nat /\ nact <= m /\ m <= Len(iact)
  <2>1. /\ nact \in 1 .. Len(iact)
        /\ nact \in Nat /\ m \in Nat /\ Len(iact) \in Nat /\ nact <= m /\ m <= Len(iact)
    BY ArrayNumbers
  <2>2. QED
    BY <2>1, ArrayFacts
<1>2. /\ \A s \in nact + 1 .. Len(iact) : Delcon(iact, nact, p)[s] = iact[s]
      /\ \A s \in 1 .. nact : \E q \in 1 .. nact : Delcon(iact, nact, p)[s] = iact[q]
  BY Zenon, <1>1, DelconAmong
<1>3. CASE r <= nact
  <2>1. r \in 1 .. nact
    BY <1>1, <1>3
  <2>2. PICK q \in 1 .. nact : Delcon(iact, nact, p)[r] = iact[q]
    BY <1>2, <2>1
  <2>3. q \in 1 .. m
    BY <1>1
  <2>4. QED
    BY <2>2, <2>3
<1>4. CASE r > nact
  <2>1. r \in nact + 1 .. Len(iact)
    BY <1>1, <1>4
  <2>2. QED
    BY <1>2, <2>1
<1>5. QED
  BY <1>1, <1>3, <1>4

\* Where conres puts a constraint that is satisfied.
LEMMA PartPlaces ==
    ASSUME ArrayInv, PartSatisfied
    PROVE  /\ pc = "partition" /\ k \in msat + 1 .. Len(iact) /\ k \in 1 .. Len(iact)
           /\ nact <= mdeg /\ mdeg <= msat
           /\ nact' = nact /\ meql' = meql /\ msat' = msat + 1 /\ k' = k + 1 /\ pc' = pc /\ x' = x
           /\ tol' = tol /\ msatk' = msatk /\ caller' = caller /\ g' = g /\ info' = info
           /\ Len(iact') = Len(iact)
           /\ \/ /\ Res(iact[k], x) <= Tolerance /\ mdeg' = mdeg + 1
                 /\ \A r \in 1 .. Len(iact) :
                      iact'[r] = IF r = mdeg + 1 THEN iact[k]
                                 ELSE IF r = msat + 1 THEN iact[mdeg + 1]
                                 ELSE IF r = k THEN iact[msat + 1] ELSE iact[r]
              \/ /\ ~ (Res(iact[k], x) <= Tolerance) /\ mdeg' = mdeg
                 /\ \A r \in 1 .. Len(iact) :
                      iact'[r] = IF r = msat + 1 THEN iact[k]
                                 ELSE IF r = k THEN iact[msat + 1] ELSE iact[r]
<1> USE DEF mtot
<1>1. /\ pc = "partition" /\ k \in msat + 1 .. Len(iact) /\ k \in 1 .. Len(iact)
      /\ nact <= mdeg /\ mdeg <= msat /\ mdeg \in Nat /\ msat \in Nat /\ iact \in Seq(Constraints)
  BY ArrayFacts DEF PartSatisfied, ArrayInv, Counts, Parting
<1>2. /\ \A b \in BOOLEAN : Rearranged(iact, Place(k, b))
      /\ \A r \in 1 .. Len(iact) :
            /\ Place(k, FALSE)[r] = IF r = msat + 1 THEN iact[k]
                                    ELSE IF r = k THEN iact[msat + 1] ELSE iact[r]
            /\ Place(k, TRUE)[r] = IF r = mdeg + 1 THEN iact[k]
                                   ELSE IF r = msat + 1 THEN iact[mdeg + 1]
                                   ELSE IF r = k THEN iact[msat + 1] ELSE iact[r]
  BY <1>1, PlacePlaces, Zenon
<1>3. /\ nact' = nact /\ meql' = meql /\ msat' = msat + 1 /\ k' = k + 1 /\ pc' = pc /\ x' = x
      /\ tol' = tol /\ msatk' = msatk /\ caller' = caller /\ g' = g /\ info' = info
  BY DEF PartSatisfied, point, result
<1>4. /\ iact' = Place(k, Res(iact[k], x) <= Tolerance)
      /\ mdeg' = IF Res(iact[k], x) <= Tolerance THEN mdeg + 1 ELSE mdeg
  BY DEF PartSatisfied
<1>5. CASE Res(iact[k], x) <= Tolerance
  <2>1. iact' = Place(k, TRUE)
    <3>1. (Res(iact[k], x) <= Tolerance) = TRUE
      BY <1>5
    <3>2. QED
      BY <1>4, <3>1, Zenon
  <2>2. Len(iact') = Len(iact)
    BY <1>2, <2>1 DEF Rearranged
  <2>3. QED
    BY <1>1, <1>2, <1>3, <1>4, <1>5, <2>1, <2>2
<1>6. CASE ~ (Res(iact[k], x) <= Tolerance)
  <2>1. iact' = Place(k, FALSE)
    <3>1. (Res(iact[k], x) <= Tolerance) = FALSE
      BY <1>6
    <3>2. QED
      BY <1>4, <3>1, Zenon
  <2>2. Len(iact') = Len(iact)
    BY <1>2, <2>1 DEF Rearranged
  <2>3. QED
    BY <1>1, <1>2, <1>3, <1>4, <1>6, <2>1, <2>2
<1>7. QED
  BY <1>5, <1>6

\* A constraint that counts as satisfied is satisfied.
LEMMA CountsRight ==
    ASSUME ArrayInv, PartsInv, pc = "partition", NEW p \in k .. Len(iact), CountsAsSatisfied(p)
    PROVE  Res(iact[p], x) >= 0
BY ArrayFacts DEF CountsAsSatisfied, PartsInv, Partition

\* Active constraints, and degenerate ones, still hold.
LEMMA KeptStep ==
    ASSUME ArrayInv, ArrayInv', PartsInv, [Next]_vars
    PROVE  KeptActive'
<1> USE DEF mtot
<1>0. /\ KeptActive /\ Counts /\ KeptTo \in 0 .. Len(iact)
      /\ Len(iact) \in Nat /\ meql \in Nat /\ nact \in Nat /\ msat \in Nat /\ mdeg \in Nat
      /\ meql <= nact /\ nact <= msat /\ msat <= Len(iact) /\ mdeg <= Len(iact)
      /\ iact \in Seq(Constraints) /\ ActivesDiffer(iact, nact) /\ k \in Nat
  BY ArrayFacts, KeptToType DEF PartsInv, ArrayInv
<1>1. KeptTo' \in 0 .. Len(iact')
  <2>1. (KeptTo \in 0 .. Len(iact))'
    BY KeptToType, PTL
  <2>2. QED
    BY <2>1
<1>a. ASSUME NEW p \in 1 .. KeptTo PROVE Kept(p)
  BY <1>0 DEF KeptActive
\* The array is rearranged among the constraints that are kept.
<1>b. ASSUME x' = x, tol' = tol,
             \A p \in 1 .. KeptTo' : \E q \in 1 .. KeptTo : iact'[p] = iact[q]
      PROVE  KeptActive'
  <2> SUFFICES ASSUME NEW p \in 1 .. KeptTo' PROVE Kept(p)'
    BY DEF KeptActive
  <2>1. PICK q \in 1 .. KeptTo : iact'[p] = iact[q]
    BY <1>b
  <2>2. Kept(q)
    BY <1>a
  <2>3. QED
    BY <1>b, <2>1, <2>2 DEF Kept
<1>2. CASE iact' = iact /\ x' = x /\ tol' = tol /\ KeptTo' <= KeptTo
  <2>1. \A p \in 1 .. KeptTo' : p \in 1 .. KeptTo
    BY <1>0, <1>2, <1>1
  <2>2. QED
    BY <1>2, <1>b, <2>1
<1>3. CASE FixVariable \/ AddBounds \/ Adjtol
  <2>1. KeptTo' = 0
    BY <1>3 DEF FixVariable, AddBounds, Adjtol, Getfes, KeptTo, Parting
  <2>2. QED
    BY <2>1 DEF KeptActive
<1>4. CASE ShiftActive
  <2>1. /\ k \in 1 .. nact /\ Res(iact[k], x') = 0 /\ tol' = tol /\ iact' = iact
        /\ \A q \in 1 .. k - 1 : Res(iact[q], x') = Res(iact[q], x)
        /\ KeptTo = k - 1 /\ KeptTo' = k
    BY <1>0, <1>4, ShiftKeeps DEF ShiftActive, set, KeptTo
  <2>2. ASSUME NEW p \in 1 .. k PROVE Kept(p)'
    <3>1. CASE p = k
      BY <2>1, <3>1 DEF Kept
    <3>2. CASE p # k
      <4>1. p \in 1 .. KeptTo
        BY <1>0, <2>1, <3>2
      <4>2. Kept(p)
        BY <1>a, <4>1
      <4>3. QED
        BY <2>1, <4>1, <4>2 DEF Kept
    <3>3. QED
      BY <3>1, <3>2
  <2>3. QED
    BY <2>1, <2>2 DEF KeptActive
<1>5. CASE FlagActive
  <2>1. /\ k \in 1 .. nact /\ x' = x /\ tol' = tol /\ iact' = iact /\ ~ NeedsShift(k)
        /\ KeptTo = k - 1 /\ KeptTo' = k
    BY <1>0, <1>5 DEF FlagActive, set, KeptTo, point, Counts
  <2>2. iact[k] \in Constraints /\ x \in [Vars -> Int]
    BY <2>1, ArrayFacts
  <2>3. Res(iact[k], x) \in Int
    BY <2>2, ResType
  <2>4. Kept(k)
    BY <2>1, <2>3 DEF Kept, NeedsShift
  <2>5. ASSUME NEW p \in 1 .. k PROVE Kept(p)'
    <3>1. p = k \/ p \in 1 .. KeptTo
      BY <1>0, <2>1
    <3>2. Kept(p)
      BY <1>a, <2>4, <3>1
    <3>3. QED
      BY <2>1, <3>2 DEF Kept
  <2>6. QED
    BY <2>1, <2>5 DEF KeptActive
<1>6. ASSUME NEW p \in 1 .. nact, iact' = Delcon(iact, nact, p), x' = x, tol' = tol,
             KeptTo' <= KeptTo, KeptTo >= nact
      PROVE  KeptActive'
  <2>1. KeptTo \in nact .. Len(iact)
    BY <1>0, <1>6
  <2>2. ASSUME NEW r \in 1 .. KeptTo'
        PROVE  \E q \in 1 .. KeptTo : iact'[r] = iact[q]
    <3>1. r \in 1 .. KeptTo
      BY <1>0, <1>1, <1>6
    <3>2. QED
      BY <1>6, <2>1, <3>1, DelconWithin
  <2>3. QED
    BY <1>6, <1>b, <2>2
<1>7. CASE DeleteFlagged
  <2>1. /\ k \in 1 .. nact /\ KeptTo = nact /\ KeptTo' = nact' /\ x' = x /\ tol' = tol
    BY <1>0, <1>7 DEF DeleteFlagged, Counts, KeptTo, point
  <2>2. CASE iact[k] \in flagged
    <3>1. iact' = Delcon(iact, nact, k) /\ nact' = nact - 1
      BY <1>7, <2>2 DEF DeleteFlagged
    <3>2. QED
      BY <1>0, <1>6, <2>1, <3>1
  <2>3. CASE iact[k] \notin flagged
    <3>1. iact' = iact /\ nact' = nact
      BY <1>7, <2>3 DEF DeleteFlagged
    <3>2. QED
      BY <1>0, <1>2, <2>1, <3>1
  <2>4. QED
    BY <2>2, <2>3
<1>8. CASE PartSatisfied
  <2>0. /\ pc = "partition" /\ k \in msat + 1 .. Len(iact) /\ k \in 1 .. Len(iact)
        /\ nact <= mdeg /\ mdeg <= msat /\ pc' = pc /\ x' = x /\ tol' = tol
        /\ \/ /\ Res(iact[k], x) <= Tolerance /\ mdeg' = mdeg + 1
              /\ \A r \in 1 .. Len(iact) :
                      iact'[r] = IF r = mdeg + 1 THEN iact[k]
                                 ELSE IF r = msat + 1 THEN iact[mdeg + 1]
                                 ELSE IF r = k THEN iact[msat + 1] ELSE iact[r]
           \/ /\ ~ (Res(iact[k], x) <= Tolerance) /\ mdeg' = mdeg
              /\ \A r \in 1 .. Len(iact) :
                      iact'[r] = IF r = msat + 1 THEN iact[k]
                                 ELSE IF r = k THEN iact[msat + 1] ELSE iact[r]
    BY <1>8, PartPlaces
  <2>1. KeptTo = mdeg /\ KeptTo' = mdeg'
    BY <2>0 DEF KeptTo, Parting
  <2>2. \A r \in 1 .. mdeg : r \in 1 .. Len(iact) /\ iact'[r] = iact[r]
    BY <1>0, <2>0
  <2>3. \A r \in 1 .. mdeg : Kept(r)'
    <3>1. \A r \in 1 .. mdeg : Kept(r)
      BY <1>a, <2>1
    <3>2. QED
      BY <2>0, <2>2, <3>1 DEF Kept
  <2>4. ASSUME NEW r, r = mdeg + 1, mdeg' = mdeg + 1 PROVE Kept(r)'
    <3>1. Res(iact[k], x) <= Tolerance /\ iact'[r] = iact[k]
      BY <1>0, <2>0, <2>4
    <3>2. Res(iact[k], x) >= 0
      <4>1. CountsAsSatisfied(k) /\ k \in k .. Len(iact)
        BY <1>8, <2>0 DEF PartSatisfied
      <4>2. QED
        BY <2>0, <4>1, CountsRight
    <3>3. Res(iact[k], x) \in Int
      BY <2>0, ArrayFacts, ResType
    <3>4. tol = "exact" => Res(iact[k], x) = 0
      BY <3>1, <3>2, <3>3 DEF Tolerance
    <3>5. QED
      BY <2>0, <3>1, <3>2, <3>4 DEF Kept
  <2>5. ASSUME NEW r \in 1 .. mdeg' PROVE Kept(r)'
    <3>1. r \in 1 .. mdeg \/ (r = mdeg + 1 /\ mdeg' = mdeg + 1)
      BY <1>0, <2>0
    <3>2. QED
      BY <2>3, <2>4, <3>1
  <2>6. QED
    BY <2>1, <2>5 DEF KeptActive
<1>9. CASE GetdDrops
  <2>1. KeptTo' = KeptTo /\ KeptTo >= nact /\ x' = x /\ tol' = tol
    BY <1>0, <1>9 DEF GetdDrops, KeptTo, Parting, point, residuals, Counts
  <2>2. PICK p \in meql + 1 .. nact : iact' = Delcon(iact, nact, p)
    BY <1>9 DEF GetdDrops
  <2>3. p \in 1 .. nact
    BY <1>0
  <2>4. QED
    BY <1>0, <1>6, <2>1, <2>2, <2>3
<1>10. CASE SdegenDrops
  <2>1. KeptTo' = KeptTo /\ KeptTo >= nact /\ x' = x /\ tol' = tol
    BY <1>0, <1>10 DEF SdegenDrops, KeptTo, Parting, point, residuals, Counts
  <2>2. PICK p \in meql + 1 .. nact - 1 : iact' = Delcon(iact, nact, p)
    BY <1>10 DEF SdegenDrops
  <2>3. p \in 1 .. nact
    BY <1>0
  <2>4. QED
    BY <1>0, <1>6, <2>1, <2>2, <2>3
<1>11. CASE AddDegenerate
  <2>1. PICK e \in Directions : \E p \in Violates(e) : Direction(e) /\ iact' = Addcon(iact, nact, p)
    BY <1>11 DEF AddDegenerate
  <2>2. PICK p \in Violates(e) : Direction(e) /\ iact' = Addcon(iact, nact, p)
    BY <2>1
  <2>3. pc = "sdegen" /\ KeptTo = mdeg /\ KeptTo' = mdeg /\ x' = x /\ tol' = tol
    BY <1>11 DEF AddDegenerate, KeptTo, Parting, point, residuals
  <2>4. p \in nact + 1 .. mdeg
    BY <2>2, <2>3, ViolatesFree
  <2>5. p \in nact + 1 .. Len(iact) /\ mdeg \in p .. Len(iact)
    BY <1>0, <2>4
  <2>6. ASSUME NEW r \in 1 .. KeptTo' PROVE \E q \in 1 .. KeptTo : iact'[r] = iact[q]
    BY <2>2, <2>3, <2>5, AddconWithin
  <2>7. QED
    BY <1>b, <2>3, <2>6
<1>12. CASE PassThrough
  <2>1. /\ indxbd \in msat + 1 .. Len(iact) /\ nact <= mdeg /\ mdeg <= msat
        /\ nact' = nact /\ mdeg' = mdeg /\ x' = x
        /\ \A r \in 1 .. Len(iact) : iact'[r] = IF r = indxbd THEN iact[msat + 1]
                                  ELSE IF r = msat + 1 THEN iact[indxbd] ELSE iact[r]
    BY <1>12, PassedThrough
  <2>2. KeptTo = mdeg /\ KeptTo' \in {mdeg, nact} /\ tol' = tol
    BY <1>12, <2>1 DEF PassThrough, KeptTo, Parting, AfterConres
  <2>3. \A r \in 1 .. KeptTo' : r \in 1 .. KeptTo /\ iact'[r] = iact[r]
    BY <1>0, <2>1, <2>2
  <2>4. QED
    BY <1>b, <2>1, <2>2, <2>3
<1>13. ASSUME NEW s \in 0 .. stepcb, Going, x' = Along(s), tol' = tol, KeptTo' \in {0, nact'},
              \/ iact' = iact /\ nact' = nact
              \/ iact' = Addcon(iact, nact, indxbd) /\ nact' = nact + 1 /\ s = stepcb
       PROVE  KeptActive'
  <2>1. /\ \A p \in 1 .. nact : Res(iact[p], Along(s)) = Res(iact[p], x)
        /\ KeptTo = nact /\ Stepping /\ pc # "pass"
    BY <1>13, OnTheWay DEF Going, KeptTo, Stepping
  <2>2. \A p \in 1 .. nact : Kept(p)
    BY <1>a, <2>1
  <2>3. ASSUME NEW p \in 1 .. nact, iact'[p] = iact[p] PROVE Kept(p)'
    <3>1. Kept(p) /\ Res(iact[p], Along(s)) = Res(iact[p], x)
      BY <2>1, <2>2
    <3>2. QED
      BY <1>13, <2>3, <3>1 DEF Kept
  <2>4. CASE iact' = iact /\ nact' = nact
    <3>1. \A p \in 1 .. KeptTo' : p \in 1 .. nact
      BY <1>0, <1>13, <2>4
    <3>2. QED
      BY <2>3, <2>4, <3>1 DEF KeptActive
  <2>5. CASE iact' = Addcon(iact, nact, indxbd) /\ nact' = nact + 1 /\ s = stepcb
    <3>1. indxbd \in nact + 1 .. Len(iact) /\ Res(iact[indxbd], Along(stepcb)) = 0
      BY <1>13, <2>1, EndsAtFree DEF PartsInv, Arriving
    <3>2. /\ \A p \in 1 .. nact : iact'[p] = iact[p]
          /\ iact'[nact + 1] = iact[indxbd]
      <4>1. /\ \A p \in 1 .. nact : p \in 1 .. Len(iact) /\ p # nact + 1 /\ p # indxbd
            /\ nact + 1 \in 1 .. Len(iact)
        BY <1>0, <3>1
      <4>2. QED
        BY <2>5, <3>1, <4>1, AddconPlaces
    <3>3. ASSUME NEW p, p = nact + 1 PROVE Kept(p)'
      <4>1. Res(iact'[p], x') = 0
        BY <1>13, <2>5, <3>1, <3>2, <3>3
      <4>2. QED
        BY <4>1 DEF Kept
    <3>4. \A p \in 1 .. KeptTo' : p \in 1 .. nact \/ p = nact + 1
      BY <1>0, <1>13, <2>5
    <3>5. ASSUME NEW p \in 1 .. KeptTo' PROVE Kept(p)'
      BY <2>3, <3>2, <3>3, <3>4
    <3>6. QED
      BY <3>5 DEF KeptActive
  <2>6. QED
    BY <1>13, <2>4, <2>5
<1>14. CASE Lsrch
  <2>1. PICK s \in 0 .. stepcb :
           /\ Going /\ x' = Along(s)
           /\ IF s = stepcb THEN iact' = Addcon(iact, nact, indxbd) /\ nact' = nact + 1
              ELSE iact' = iact /\ nact' = nact
    BY <1>14, LsrchGoes
  <2>2. tol' = tol /\ KeptTo' \in {0, nact'}
    BY <1>14 DEF Lsrch, KeptTo, Parting
  <2>3. \/ iact' = iact /\ nact' = nact
        \/ iact' = Addcon(iact, nact, indxbd) /\ nact' = nact + 1 /\ s = stepcb
    BY <2>1
  <2>4. Going /\ x' = Along(s)
    BY <2>1
  <2>5. QED
    BY <1>13, <2>2, <2>3, <2>4
<1>15. CASE FeasibilityStep
  <2>1. tol' = tol /\ KeptTo' \in {0, nact'} /\ KeptTo = nact
    BY <1>15 DEF FeasibilityStep, KeptTo, Parting
  <2>2. CASE stepcb > 0
    <3>1. /\ Going /\ x' = Along(stepcb) /\ stepcb \in 0 .. stepcb
          /\ iact' = Addcon(iact, nact, indxbd) /\ nact' = nact + 1
      BY <1>15, <2>2, ArrayFacts DEF FeasibilityStep, Going
    <3>2. QED
      BY <1>13, <2>1, <3>1
  <2>3. CASE ~ (stepcb > 0)
    <3>1. x' = x /\ iact' = iact /\ nact' = nact
      BY <1>15, <2>3 DEF FeasibilityStep
    <3>2. QED
      BY <1>0, <1>2, <2>1, <3>1
  <2>4. QED
    BY <2>2, <2>3
<1>16. QED
  BY <1>2, <1>3, <1>4, <1>5, <1>7, <1>8, <1>9, <1>10, <1>11, <1>12, <1>14, <1>15, WhoKeeps
\* Where stepbd and the passing of boundaries lead: what is satisfied stays so
\* until the boundary, and the variables that move have their bounds ahead.
LEMMA PassingArrives ==
    ASSUME ArrayInv, PartsInv, pc = "pass"
    PROVE  /\ stepcb > 0 /\ stepcb \in Nat
           /\ \A v \in Vars : /\ d[v] = 1 => x[v] + stepcb <= Upper[v]
                              /\ d[v] = -1 => x[v] - stepcb >= Lower[v]
           /\ \A p \in 1 .. msat : Res(iact[p], Along(stepcb)) >= 0
           /\ Res(iact[indxbd], Along(stepcb)) = 0
<1>0. /\ Len(iact) \in Nat /\ nact \in Nat /\ msat \in Nat /\ mdeg \in Nat /\ indxbd \in Nat
      /\ meql \in Nat /\ meql <= nact
      /\ nact <= mdeg /\ mdeg <= msat /\ msat <= Len(iact)
      /\ x \in [Vars -> Int] /\ d \in Directions /\ stepcb \in Nat /\ stepcb > 0
      /\ bres \in [Constraints -> Int]
      /\ stepcb = bres[iact[indxbd]] /\ indxbd \in mdeg + 1 .. Len(iact)
      /\ pc \notin Filling /\ KeptTo = mdeg
  BY ArrayFacts DEF ArrayInv, Counts, Heading, Parting, PartsInv, Passing, Filling, KeptTo
<1>1. \A p \in 1 .. Len(iact) : iact[p] \in Constraints /\ Res(iact[p], x) \in Int
                                /\ bres[iact[p]] \in Int
  BY <1>0, ArrayFacts, ResType
\* The three kinds of constraints of the array.
<1>2. \A p \in 1 .. nact : d[Var(iact[p])] = 0 /\ Slope(iact[p], d) = 0
  <2> SUFFICES ASSUME NEW p \in 1 .. nact PROVE d[Var(iact[p])] = 0 /\ Slope(iact[p], d) = 0
    OBVIOUS
  <2>1. d[Var(iact[p])] = 0 /\ p \in 1 .. Len(iact)
    BY <1>0 DEF ArrayInv, Heading, Stepping
  <2>2. QED
    BY <1>0, <1>1, <2>1, SlopeOf
<1>3. \A p \in nact + 1 .. mdeg : Slope(iact[p], d) <= 0
  BY DEF PartsInv, Bounded
<1>4. \A p \in 1 .. mdeg : Res(iact[p], x) >= 0
  BY <1>0 DEF PartsInv, KeptActive, Kept
<1>5. ASSUME NEW p \in mdeg + 1 .. msat
      PROVE  \/ Res(iact[p], x) > 0 /\ (Slope(iact[p], d) = 1 => stepcb <= Res(iact[p], x)
                                                                /\ bres[iact[p]] = Res(iact[p], x))
                                    /\ (Slope(iact[p], d) # 1 => bres[iact[p]] = 0)
             \/ /\ Res(iact[p], x) < 0 /\ Slope(iact[p], d) = -1
                /\ bres[iact[p]] = 0 /\ -Res(iact[p], x) <= stepcb
  <2>1. p \in mdeg + 1 .. Len(iact)
    BY <1>0
  <2>2. bres[iact[p]] > 0 => stepcb <= bres[iact[p]]
    BY <2>1 DEF PartsInv, Passing
  <2>3. \/ Res(iact[p], x) > 0 /\ bres[iact[p]] = IF Slope(iact[p], d) = 1 THEN Res(iact[p], x) ELSE 0
        \/ /\ Res(iact[p], x) < 0 /\ Slope(iact[p], d) = -1
           /\ bres[iact[p]] = 0 /\ -Res(iact[p], x) <= stepcb
    BY DEF PartsInv, Passing
  <2>4. QED
    BY <2>2, <2>3
<1>6. ASSUME NEW p \in msat + 1 .. Len(iact)
      PROVE  /\ Res(iact[p], x) < 0 /\ Slope(iact[p], d) <= 0
             /\ Slope(iact[p], d) = -1 => bres[iact[p]] = -Res(iact[p], x)
             /\ Slope(iact[p], d) # -1 => bres[iact[p]] = 0
  BY DEF PartsInv, Passing
<1>7. ASSUME NEW p \in 1 .. Len(iact)
      PROVE  /\ Slope(iact[p], d) \in {-1, 0, 1}
             /\ Res(iact[p], Along(stepcb)) =
                   IF Slope(iact[p], d) = 1 THEN Res(iact[p], x) - stepcb
                   ELSE IF Slope(iact[p], d) = -1 THEN Res(iact[p], x) + stepcb ELSE Res(iact[p], x)
  <2>1. iact[p] \in Constraints /\ stepcb \in Int /\ x \in [Vars -> Int] /\ d \in Directions
    BY <1>0, <1>1
  <2>2. QED
    BY <2>1, ResAlong
<1>8. ASSUME NEW p \in 1 .. msat PROVE Res(iact[p], Along(stepcb)) >= 0
  <2>0. p \in 1 .. Len(iact) /\ Res(iact[p], x) \in Int
    BY <1>0, <1>1
  <2>1. CASE p <= nact
    BY <1>0, <1>2, <1>4, <1>7, <2>0, <2>1
  <2>2. CASE nact < p /\ p <= mdeg
    BY <1>0, <1>3, <1>4, <1>7, <2>0, <2>2
  <2>3. CASE mdeg < p
    <3>1. p \in mdeg + 1 .. msat
      BY <1>0, <2>3
    <3>2. QED
      BY <1>0, <1>5, <1>7, <2>0, <3>1
  <2>4. QED
    BY <1>0, <2>1, <2>2, <2>3
<1>9. Res(iact[indxbd], Along(stepcb)) = 0
  <2>0. indxbd \in 1 .. Len(iact) /\ Res(iact[indxbd], x) \in Int
    BY <1>0, <1>1
  <2>1. CASE indxbd <= msat
    <3>1. indxbd \in mdeg + 1 .. msat
      BY <1>0, <2>1
    <3>2. QED
      BY <1>0, <1>5, <1>7, <2>0, <3>1
  <2>2. CASE indxbd > msat
    <3>1. indxbd \in msat + 1 .. Len(iact)
      BY <1>0, <2>2
    <3>2. QED
      BY <1>0, <1>6, <1>7, <2>0, <3>1
  <2>3. QED
    BY <1>0, <2>1, <2>2
\* A variable that moves towards a bound has that bound's constraint ahead.
<1>10. ASSUME NEW v \in Vars, NEW j \in {v, N + v}, Slope(j, d) = 1
       PROVE  Res(j, x) \in Int /\ stepcb <= Res(j, x)
  <2>1. j \in Constraints /\ Var(j) = v /\ d[v] # 0
    <3>1. j \in Constraints /\ Var(j) = v
      BY <1>10, Bounds
    <3>2. Slope(j, d) = 0 <=> d[v] = 0
      BY <1>0, <3>1, SlopeOf
    <3>3. QED
      BY <1>10, <3>1, <3>2
  <2>2. info # 4
    BY <1>0, NotFilling
  <2>3. ~ IsFixed(v)
    <3> SUFFICES ASSUME IsFixed(v) PROVE FALSE
      OBVIOUS
    <3>1. PICK p \in 1 .. meql : iact[p] = N + v
      BY <1>0, <2>2, PlacesOf
    <3>2. p \in 1 .. nact /\ Var(iact[p]) = v
      BY <1>0, <3>1, Bounds
    <3>3. QED
      BY <1>2, <2>1, <3>2
  <2>4. PICK p \in meql + 1 .. Len(iact) : iact[p] = j
    BY <1>0, <2>2, <2>3, PlacesOf
  <2>5. p \in 1 .. Len(iact) /\ p \in Nat /\ Slope(iact[p], d) = 1 /\ Res(iact[p], x) \in Int
    BY <1>0, <1>1, <1>10, <2>4
  <2>6. ~ (p <= nact)
    BY <1>2, <2>5
  <2>7. ~ (p \in nact + 1 .. mdeg)
    BY <1>3, <2>5
  <2>8. ~ (p \in msat + 1 .. Len(iact))
    BY <1>6, <2>5
  <2>9. p \in mdeg + 1 .. msat
    BY <1>0, <2>5, <2>6, <2>7, <2>8
  <2>10. QED
    BY <1>5, <2>4, <2>5, <2>9
<1>11. ASSUME NEW v \in Vars
       PROVE  /\ d[v] = 1 => x[v] + stepcb <= Upper[v]
              /\ d[v] = -1 => x[v] - stepcb >= Lower[v]
  <2>1. /\ Slope(v, d) = -d[v] /\ Slope(N + v, d) = d[v] /\ x[v] \in Int
        /\ Res(v, x) = x[v] - Lower[v] /\ Res(N + v, x) = Upper[v] - x[v]
        /\ Lower[v] \in Int /\ Upper[v] \in Int
    <3>1. v <= N /\ ~ (N + v <= N) /\ N + v - N = v
      BY Bounds
    <3>2. Slope(v, d) = -d[v] /\ Res(v, x) = x[v] - Lower[v]
      BY <3>1 DEF Slope, Res
    <3>3. Slope(N + v, d) = d[v] /\ Res(N + v, x) = Upper[v] - x[v]
      BY Bounds DEF Slope, Res
    <3>4. QED
      BY <1>0, <3>2, <3>3, BoundTypes
  <2>2. Slope(v, d) = 1 => stepcb <= Res(v, x)
    BY <1>10
  <2>3. Slope(N + v, d) = 1 => stepcb <= Res(N + v, x)
    BY <1>10
  <2>4. QED
    <3>1. d[v] \in {-1, 0, 1}
      BY <1>0 DEF Directions
    <3>2. CASE d[v] = 1
      BY <1>0, <2>1, <2>3, <3>2
    <3>3. CASE d[v] = -1
      <4>1. Slope(v, d) \in {-1, 0, 1}
        BY <1>0, Bounds, SlopeOf
      <4>2. Slope(v, d) = 1
        BY <2>1, <3>1, <3>3, <4>1
      <4>3. stepcb <= x[v] - Lower[v]
        BY <2>1, <2>2, <4>2
      <4>4. QED
        BY <1>0, <2>1, <3>3, <4>3
    <3>4. QED
      BY <3>1, <3>2, <3>3
<1>12. QED
  BY <1>0, <1>8, <1>9, <1>11
\* What minfun has to do with.
LEMMA WhoMinimises ==
    ASSUME InMinfun, [Next]_vars, caller' = "minfun", pc' # "return"
    PROVE  /\ \/ ConstraintsDone
              \/ caller = "minfun" /\ pc # "return" /\ \/ Lsrch \/ x' = x
           /\ \/ ConstraintsDone \/ Parted \/ PassThrough \/ PartSatisfied \/ StartConres \/ StartMinfun
              \/ msat' = msat /\ (pc = "partition" => pc' = "partition")
           /\ pc' \in Parting \union {"start", "conres", "kt", "lsrch", "reduce", "adjtol", "step"}
<1> USE DEF InMinfun, Parting
<1>1. CASE UNCHANGED vars
  BY <1>1 DEF vars, point, set
<1>2. CASE Initialise
  BY <1>2 DEF Initialise, CheckBounds, FixVariable, FixEnds, AddBounds, BoundsAdded, Getfes
<1>3. CASE Satact
  BY <1>3 DEF Satact, ShiftActive, FlagActive, ActiveChecked, DeleteFlagged, FlaggedDeleted
<1>4. CASE Conres
  BY <1>4 DEF Conres, StartConres, PartActive, PartSatisfied, PartViolated, Parted, set, point
<1>5. CASE Getd
  BY <1>5 DEF Getd, GetdDrops, GetdKeeps, NoDirection, DirectionFound, AddDegenerate, SdegenDrops,
              SdegenKeeps, set, point
<1>6. CASE Bound
  BY <1>6 DEF Bound, Stepbd, PassThrough, StepEnds, AfterConres, set, point
<1>7. CASE Feasible
  BY <1>7 DEF Feasible, FeasibilityStep, Stuck, Adjtol, BoundsDone, ConstraintsDone, Getfes, set, point
<1>8. CASE Minimise
  BY <1>8 DEF Minimise, StartMinfun, StopMinfun, GoOn, Lsrch, ReduceTol, set, point
<1>9. QED
  BY <1>1, <1>2, <1>3, <1>4, <1>5, <1>6, <1>7, <1>8 DEF Next

\* minfun works inside the bounds.
LEMMA InMinfunStep ==
    ASSUME ArrayInv, PartsInv, [Next]_vars
    PROVE  InMinfun'
<1> USE DEF mtot
<1> SUFFICES ASSUME caller' = "minfun", pc' # "return"
             PROVE  /\ pc' \in Parting \union {"start", "conres", "kt", "lsrch", "reduce", "adjtol"}
                    /\ x' \in Inside /\ (pc' # "partition" => msat' = Len(iact'))
  BY DEF InMinfun
<1>0. InMinfun /\ Seeking /\ Counts
  BY DEF PartsInv, ArrayInv
<1>1. CASE ConstraintsDone
  <2>1. /\ pc = "found" /\ msat = Len(iact) /\ x' = x /\ iact' = iact /\ msat' = msat /\ pc' = "start"
    BY <1>0, <1>1, ArrayFacts DEF ConstraintsDone, point, set
  <2>2. \A p \in 1 .. Len(iact) : Res(iact[p], x) >= 0
    BY <2>1 DEF PartsInv, Satisfied, Counted
  <2>3. x \in Inside
    BY <2>1, <2>2, AllInside, NotFilling DEF PartsInv, Filling
  <2>4. QED
    BY <2>1, <2>3 DEF Parting
<1>2. CASE ~ ConstraintsDone
  <2>1. /\ caller = "minfun" /\ pc # "return" /\ \/ Lsrch \/ x' = x
        /\ \/ Parted \/ PassThrough \/ PartSatisfied \/ StartConres \/ StartMinfun
           \/ msat' = msat /\ (pc = "partition" => pc' = "partition")
        /\ pc' \in Parting \union {"start", "conres", "kt", "lsrch", "reduce", "adjtol", "step"}
    BY <1>0, <1>2, WhoMinimises
  <2>2. /\ x \in Inside /\ (pc # "partition" => msat = Len(iact))
        /\ pc \in Parting \union {"start", "conres", "kt", "lsrch", "reduce", "adjtol"}
        /\ pc \notin Filling
    BY <1>0, <2>1 DEF InMinfun, Parting, Filling
  <2>3. Len(iact') = Len(iact)
    BY <2>2, LengthStays
  <2>4. x' \in Inside
    <3>1. CASE Lsrch
      BY <2>2, <3>1, LsrchGoes, OnTheWay
    <3>2. QED
      BY <2>1, <2>2, <3>1
  <2>5. CASE Parted
    <3>1. /\ pc = "partition" /\ k > Len(iact) /\ msat' = msat /\ msat \in Nat /\ msat <= Len(iact)
          /\ k \in Nat /\ Len(iact) \in Nat /\ seeking = FALSE /\ iact' = iact
      <4>1. seeking \in BOOLEAN /\ (seeking <=> FALSE) /\ pc = "partition"
        BY <1>0, <2>1, <2>5 DEF Parted, Seeking, Parting, ArrayInv, Types
      <4>2. QED
        BY <2>5, <4>1, ArrayFacts DEF Parted, set
    <3>2. ASSUME msat # Len(iact) PROVE FALSE
      <4>1. Len(iact) \in msat + 1 .. k - 1 /\ Len(iact) \in 1 .. Len(iact)
        BY <3>1, <3>2
      <4>2. Res(iact[Len(iact)], x) < 0
        BY <3>1, <4>1 DEF PartsInv, Partition
      <4>3. Res(iact[Len(iact)], x) >= 0 /\ Res(iact[Len(iact)], x) \in Int
        BY <2>2, <4>1, ArrayFacts, InsideRes
      <4>4. QED
        BY <4>2, <4>3
    <3>3. pc' = "getd"
      BY <2>5, <3>1 DEF Parted
    <3>4. QED
      BY <2>4, <3>1, <3>2, <3>3 DEF Parting
  <2>6. CASE PassThrough
    <3>1. indxbd \in msat + 1 .. Len(iact) /\ pc = "pass"
      BY <2>6, PassedThrough
    <3>2. QED
      BY <2>2, <3>1, ArrayFacts
  <2>7. CASE PartSatisfied \/ StartConres
    <3>1. pc' = "partition"
      BY <2>7 DEF PartSatisfied, StartConres
    <3>2. QED
      BY <2>4, <3>1 DEF Parting
  <2>8. CASE StartMinfun
    <3>1. pc' = "conres" /\ msat' = Len(iact)
      BY <2>8 DEF StartMinfun
    <3>2. QED
      BY <2>3, <2>4, <3>1
  <2>9. CASE msat' = msat /\ (pc = "partition" => pc' = "partition")
    <3>1. pc' # "step"
      BY <1>0, <2>1, <2>2 DEF Next, Initialise, Satact, Conres, Getd, Bound, Feasible, Minimise, vars,
         CheckBounds, FixVariable, FixEnds, AddBounds, BoundsAdded, ShiftActive, FlagActive,
         ActiveChecked, DeleteFlagged, FlaggedDeleted, StartConres, PartActive,
         PartSatisfied, PartViolated, Parted, GetdDrops, GetdKeeps, NoDirection,
         DirectionFound, AddDegenerate, SdegenDrops, SdegenKeeps, Stepbd, PassThrough,
         StepEnds, FeasibilityStep, Stuck, Adjtol, BoundsDone, ConstraintsDone, StartMinfun,
         StopMinfun, GoOn, Lsrch, ReduceTol, Getfes, AfterConres, Seeking, Parting
    <3>2. QED
      BY <2>1, <2>2, <2>3, <2>4, <2>9, <3>1
  <2>10. QED
    BY <2>1, <2>5, <2>6, <2>7, <2>8, <2>9
<1>3. QED
  BY <1>1, <1>2
\* What leaves constraints satisfied, or finds that they are.
LEMMA WhoSatisfies ==
    ASSUME [Next]_vars, Counted'
    PROVE  \/ Counted /\ x' = x /\ msat' = msat /\ iact' = iact
           \/ BoundsAdded \/ DeleteFlagged \/ FlaggedDeleted \/ FeasibilityStep
           \/ Lsrch \/ StartMinfun \/ ReduceTol \/ Parted \/ NoDirection \/ Stepbd \/ PassThrough
           \/ StepEnds
<1> USE DEF Counted
<1>1. CASE UNCHANGED vars
  BY <1>1 DEF vars, point, set, motion, result
<1>2. CASE Initialise
  BY <1>2 DEF Initialise, CheckBounds, FixVariable, FixEnds, AddBounds, Getfes
<1>3. CASE Satact
  BY <1>3 DEF Satact, ShiftActive, FlagActive, ActiveChecked, point, set, result
<1>4. CASE Conres
  BY <1>4 DEF Conres, StartConres, PartActive, PartSatisfied, PartViolated
<1>5. CASE Getd
  BY <1>5 DEF Getd, GetdDrops, GetdKeeps, DirectionFound, AddDegenerate, SdegenDrops, SdegenKeeps
<1>6. CASE Bound
  BY <1>6 DEF Bound
<1>7. CASE Feasible
  BY <1>7 DEF Feasible, Stuck, Adjtol, BoundsDone, ConstraintsDone, Getfes, set, point
<1>8. CASE Minimise
  BY <1>8 DEF Minimise, StopMinfun, GoOn
<1>9. QED
  BY <1>1, <1>2, <1>3, <1>4, <1>5, <1>6, <1>7, <1>8 DEF Next

\* When minfun is at work every constraint is satisfied.
LEMMA MinfunSatisfied ==
    ASSUME ArrayInv', InMinfun', caller' = "minfun", pc' # "return"
    PROVE  \A p \in 1 .. Len(iact') : Res(iact'[p], x') >= 0
<1>1. x' \in Inside /\ \A p \in 1 .. Len(iact') : iact'[p] \in Constraints
  <2>1. iact' \in Seq(Constraints)
    BY DEF ArrayInv, Distinct
  <2>2. QED
    BY <2>1, ElementOfSeq DEF InMinfun
<1>2. QED
  BY <1>1, InsideRes

\* What is counted as satisfied is satisfied.
LEMMA SatisfiedStep ==
    ASSUME ArrayInv, ArrayInv', PartsInv, [Next]_vars, KeptActive', InMinfun'
    PROVE  Satisfied'
<1> USE DEF mtot
<1> SUFFICES ASSUME Counted' PROVE \A p \in 1 .. msat' : Res(iact'[p], x') >= 0
  BY DEF Satisfied
<1>0. /\ Len(iact) \in Nat /\ meql \in Nat /\ nact \in Nat /\ msat \in Nat /\ mdeg \in Nat
      /\ meql <= nact /\ nact <= msat /\ msat <= Len(iact) /\ mdeg <= Len(iact)
      /\ k \in Nat
  BY ArrayFacts
<1>a. Counted => \A p \in 1 .. msat : Res(iact[p], x) >= 0
  BY DEF PartsInv, Satisfied
<1>b. \A p \in 1 .. KeptTo : Res(iact[p], x) >= 0
  BY DEF PartsInv, KeptActive, Kept
<1>1. CASE Counted /\ x' = x /\ msat' = msat /\ iact' = iact
  BY <1>1, <1>a
<1>2. CASE BoundsAdded
  <2>1. /\ pc = "addbounds" /\ x' = x /\ msat' = meql /\ iact' = iact /\ msat = meql
        /\ info # 4
    BY <1>2 DEF BoundsAdded, point, set, ArrayInv, Counts, Complete
  <2>2. \A p \in 1 .. meql : Res(iact[p], x) = 0
    <3> SUFFICES ASSUME NEW p \in 1 .. meql PROVE Res(iact[p], x) = 0
      OBVIOUS
    <3>1. p \in 1 .. Len(iact) /\ IsFixed(Var(iact[p]))
      BY <1>0 DEF ArrayInv, Distinct
    <3>2. iact[p] \in Constraints /\ Var(iact[p]) \in Vars /\ iact[p] \in Elements(iact)
      BY <3>1, ArrayFacts DEF Elements
    <3>3. iact[p] > N
      BY <2>1, <3>1, <3>2 DEF ArrayInv, Complete
    <3>4. x[Var(iact[p])] = Upper[Var(iact[p])]
      BY <2>1, <3>1, <3>2 DEF PartsInv, FixedStay, IsFixed
    <3>5. ~ (iact[p] <= N)
      BY <3>2, <3>3, Bounds
    <3>6. Res(iact[p], x) = Upper[Var(iact[p])] - x[Var(iact[p])] /\ Upper[Var(iact[p])] \in Int
      BY <3>2, <3>5, ArrayFacts, ResType
    <3>7. QED
      BY <3>4, <3>6
  <2>3. QED
    BY <2>1, <2>2
<1>3. CASE DeleteFlagged
  <2>1. /\ pc = "delete" /\ Counted /\ x' = x /\ msat' = msat /\ k \in 1 .. nact
    BY <1>0, <1>3 DEF DeleteFlagged, Counted, point, result, ArrayInv, Counts
  <2>2. ASSUME NEW p \in 1 .. msat PROVE \E q \in 1 .. msat : iact'[p] = iact[q]
    <3>1. iact' = iact \/ iact' = Delcon(iact, nact, k)
      BY <1>3 DEF DeleteFlagged
    <3>2. msat \in nact .. Len(iact)
      BY <1>0
    <3>3. \E q \in 1 .. msat : Delcon(iact, nact, k)[p] = iact[q]
      BY <2>1, <3>2, DelconWithin
    <3>4. QED
      BY <3>1, <3>3
  <2>3. QED
    BY <1>a, <2>1, <2>2
<1>4. CASE FlaggedDeleted
  <2>1. /\ pc = "delete" /\ x' = x /\ iact' = iact /\ msat' = (IF info > 0 THEN nact ELSE msat)
        /\ info \in 0 .. 8 /\ KeptTo = nact
    BY <1>4 DEF FlaggedDeleted, SatisfiedAfterShift, point, ArrayInv, Types, KeptTo
  <2>2. CASE info = 0
    BY <1>a, <2>1, <2>2 DEF Counted
  <2>3. CASE info # 0
    BY <1>b, <2>1, <2>3
  <2>4. QED
    BY <2>2, <2>3
<1>5. CASE FeasibilityStep
  <2>1. msat' = msat /\ pc = "step"
    BY <1>5 DEF FeasibilityStep
  <2>2. CASE ~ (stepcb > 0)
    <3>1. x' = x /\ iact' = iact /\ stepcb = 0
      BY <1>5, <2>2, ArrayFacts DEF FeasibilityStep
    <3>2. QED
      BY <1>a, <2>1, <3>1 DEF Counted
  <2>3. CASE stepcb > 0
    <3>1. x' = Along(stepcb) /\ iact' = Addcon(iact, nact, indxbd) /\ Stepping /\ Going
      BY <1>5, <2>1, <2>3 DEF FeasibilityStep, Going, Stepping
    <3>2. indxbd \in nact + 1 .. Len(iact) /\ msat \in indxbd .. Len(iact)
      BY <1>0, <2>1, <3>1, EndsAtFree
    <3>3. \A q \in 1 .. msat : Res(iact[q], x') >= 0
      BY <3>1 DEF PartsInv, Arriving
    <3>4. ASSUME NEW p \in 1 .. msat PROVE \E q \in 1 .. msat : iact'[p] = iact[q]
      BY <3>1, <3>2, AddconWithin
    <3>5. QED
      BY <2>1, <3>3, <3>4
  <2>4. QED
    BY <2>2, <2>3
<1>6. CASE Lsrch \/ StartMinfun \/ ReduceTol
  <2>1. caller = "minfun"
    BY <1>6 DEF Lsrch, StartMinfun, ReduceTol, PartsInv, Seeking
  <2>2. caller' = "minfun" /\ pc' # "return"
    BY <1>6, <2>1 DEF Lsrch, StartMinfun, ReduceTol, Counted
  <2>3. \A p \in 1 .. Len(iact') : Res(iact'[p], x') >= 0
    BY <2>2, MinfunSatisfied
  <2>4. msat' \in Nat /\ msat' <= Len(iact') /\ Len(iact') \in Nat
    BY LenProperties DEF ArrayInv, Counts, Distinct
  <2>5. QED
    BY <2>3, <2>4
<1>7. ASSUME msat' = msat, iact' = iact, x' = x, mdeg <= msat,
             \A p \in 1 .. mdeg : Res(iact[p], x) >= 0,
             \A p \in mdeg + 1 .. msat : Res(iact[p], x) > 0
      PROVE  \A p \in 1 .. msat' : Res(iact'[p], x') >= 0
  <2> SUFFICES ASSUME NEW p \in 1 .. msat PROVE Res(iact[p], x) >= 0
    BY <1>7
  <2>1. p \in 1 .. mdeg \/ p \in mdeg + 1 .. msat
    BY <1>0
  <2>2. Res(iact[p], x) \in Int
    <3>1. p \in 1 .. Len(iact)
      BY ArrayNumbers
    <3>2. iact[p] \in Constraints /\ x \in [Vars -> Int]
      BY <3>1, ArrayFacts
    <3>3. QED
      BY <3>2, ResType
  <2>3. QED
    BY <1>7, <2>1, <2>2
<1>8. CASE Parted
  <2>1. /\ msat' = msat /\ iact' = iact /\ x' = x /\ mdeg <= msat /\ KeptTo = mdeg
        /\ pc = "partition"
    BY <1>8 DEF Parted, point, set, KeptTo, Parting, ArrayInv, Counts
  <2>2. QED
    BY <1>b, <1>7, <2>1 DEF PartsInv, Partition
<1>9. CASE NoDirection \/ Stepbd
  <2>1. /\ msat' = msat /\ iact' = iact /\ x' = x /\ mdeg <= msat /\ KeptTo = mdeg
        /\ pc \in {"sdegen", "stepbd"}
    BY <1>9 DEF NoDirection, Stepbd, point, set, KeptTo, Parting, ArrayInv, Counts
  <2>2. QED
    BY <1>b, <1>7, <2>1 DEF PartsInv, Parts
<1>10. CASE PassThrough \/ StepEnds
  <2>1. stepcb > 0 /\ stepcb \in Nat
    BY <1>10, PassingArrives DEF PassThrough, StepEnds
  <2>2. pc' = "step" /\ stepcb' = 0
    BY <1>10 DEF PassThrough, StepEnds, AfterConres, Counted
  <2>3. PassThrough => stepcb' = stepcb
    BY <2>2 DEF PassThrough
  <2>4. StepEnds => stepcb' = stepcb
    BY DEF StepEnds, motion
  <2>5. QED
    BY <1>10, <2>1, <2>2, <2>3, <2>4
<1>11. QED
  BY <1>1, <1>2, <1>3, <1>4, <1>5, <1>6, <1>8, <1>9, <1>10, WhoSatisfies
\* conres has parted the constraints that it has seen.
LEMMA PartitionStep ==
    ASSUME ArrayInv, PartsInv, [Next]_vars
    PROVE  Partition'
<1> USE DEF mtot
<1> SUFFICES ASSUME pc' = "partition"
             PROVE  /\ \A p \in mdeg' + 1 .. msat' : Res(iact'[p], x') > 0
                    /\ \A p \in msat' + 1 .. k' - 1 : Res(iact'[p], x') < 0
                    /\ \A p \in nact' + 1 .. k' - 1 : bres'[iact'[p]] = Res(iact'[p], x')
                    /\ \A p \in k' .. msatk' : Res(iact'[p], x') >= 0
  BY DEF Partition
<1>0. /\ Len(iact) \in Nat /\ meql \in Nat /\ nact \in Nat /\ msat \in Nat /\ mdeg \in Nat
      /\ meql <= nact /\ nact <= msat /\ msat <= Len(iact) /\ mdeg <= Len(iact)
      /\ k \in Nat /\ msatk \in Nat /\ bres \in [Constraints -> Int]
      /\ \A p \in 1 .. Len(iact) : iact[p] \in Constraints /\ Res(iact[p], x) \in Int
      /\ OneToOne(iact)
      /\ pc = "partition" => nact <= mdeg /\ mdeg <= msat
  BY ArrayFacts, ResType DEF ArrayInv, Counts, Parting
<1>a. pc = "partition" =>
         /\ \A p \in mdeg + 1 .. msat : Res(iact[p], x) > 0
         /\ \A p \in msat + 1 .. k - 1 : Res(iact[p], x) < 0
         /\ \A p \in nact + 1 .. k - 1 : bres[iact[p]] = Res(iact[p], x)
         /\ \A p \in k .. msatk : Res(iact[p], x) >= 0
  BY DEF PartsInv, Partition
<1>1. CASE UNCHANGED vars
  BY <1>a, <1>1 DEF vars, point, set, residuals
<1>2. CASE StartConres
  <2>1. /\ pc = "conres" /\ x' = x /\ iact' = iact /\ nact' = nact /\ mdeg' = nact /\ msat' = nact
        /\ msatk' = msat /\ k' = meql + 1
    BY <1>2 DEF StartConres
  <2>2. \A p \in 1 .. msat : Res(iact[p], x) >= 0
    BY <2>1 DEF PartsInv, Satisfied, Counted
  <2>3. QED
    BY <1>0, <2>1, <2>2
<1>3. ASSUME pc = "partition", x' = x, nact' = nact, mdeg' = mdeg, msat' = msat, iact' = iact,
             msatk' = msatk, k' = k + 1, k <= Len(iact), k \in 1 .. Len(iact),
             bres' = [bres EXCEPT ![iact[k]] = Res(iact[k], x)],
             k <= msat \/ Res(iact[k], x) < 0
      PROVE  /\ \A p \in mdeg + 1 .. msat : Res(iact[p], x) > 0
             /\ \A p \in msat + 1 .. k : Res(iact[p], x) < 0
             /\ \A p \in nact + 1 .. k : bres'[iact[p]] = Res(iact[p], x)
             /\ \A p \in k + 1 .. msatk : Res(iact[p], x) >= 0
  <2>1. ASSUME NEW p \in nact + 1 .. k PROVE bres'[iact[p]] = Res(iact[p], x)
    <3>1. p \in 1 .. Len(iact) /\ iact[p] \in Constraints /\ iact[k] \in Constraints
      BY <1>0, <1>3
    <3>2. CASE p = k
      BY <1>0, <1>3, <3>1, <3>2
    <3>3. CASE p # k
      <4>1. p \in nact + 1 .. k - 1 /\ iact[p] # iact[k]
        BY <1>0, <1>3, <3>1, <3>3 DEF OneToOne
      <4>2. QED
        BY <1>0, <1>3, <1>a, <3>1, <4>1
    <3>4. QED
      BY <3>2, <3>3
  <2>2. ASSUME NEW p \in msat + 1 .. k PROVE Res(iact[p], x) < 0
    <3>1. (p = k /\ ~ (k <= msat)) \/ p \in msat + 1 .. k - 1
      BY <1>0, <1>3
    <3>2. QED
      BY <1>3, <1>a, <3>1
  <2>3. \A p \in k + 1 .. msatk : p \in k .. msatk
    BY <1>0
  <2>4. QED
    BY <1>3, <1>a, <2>1, <2>2, <2>3
<1>4. CASE PartActive
  <2>1. /\ pc = "partition" /\ x' = x /\ nact' = nact /\ mdeg' = mdeg /\ msat' = msat /\ iact' = iact
        /\ msatk' = msatk /\ k' = k + 1 /\ k <= nact /\ k \in 1 .. Len(iact) /\ k <= Len(iact)
        /\ bres' = [bres EXCEPT ![iact[k]] = Res(iact[k], x)] /\ k <= msat
    BY <1>0, <1>4 DEF PartActive, point, set, ArrayInv, Counts
  <2>2. k' - 1 = k
    BY <1>0, <2>1
  <2>3. QED
    BY <1>3, <2>1, <2>2
<1>5. CASE PartViolated
  <2>1. /\ pc = "partition" /\ x' = x /\ nact' = nact /\ mdeg' = mdeg /\ msat' = msat /\ iact' = iact
        /\ msatk' = msatk /\ k' = k + 1 /\ k \in 1 .. Len(iact) /\ k <= Len(iact)
        /\ bres' = [bres EXCEPT ![iact[k]] = Res(iact[k], x)]
    BY <1>0, <1>5 DEF PartViolated, set
  <2>2. Res(iact[k], x) < 0
    BY <1>0, <1>5, <2>1 DEF PartViolated, CountsAsSatisfied
  <2>3. k' - 1 = k
    BY <1>0, <2>1
  <2>4. QED
    BY <1>3, <2>1, <2>2, <2>3
<1>6. CASE PartSatisfied
  <2>0. /\ pc = "partition" /\ k \in msat + 1 .. Len(iact) /\ k \in 1 .. Len(iact)
        /\ nact <= mdeg /\ mdeg <= msat
        /\ nact' = nact /\ meql' = meql /\ msat' = msat + 1 /\ k' = k + 1 /\ x' = x
        /\ msatk' = msatk /\ Len(iact') = Len(iact)
        /\ \/ /\ Res(iact[k], x) <= Tolerance /\ mdeg' = mdeg + 1
              /\ \A r \in 1 .. Len(iact) :
                      iact'[r] = IF r = mdeg + 1 THEN iact[k]
                                 ELSE IF r = msat + 1 THEN iact[mdeg + 1]
                                 ELSE IF r = k THEN iact[msat + 1] ELSE iact[r]
           \/ /\ ~ (Res(iact[k], x) <= Tolerance) /\ mdeg' = mdeg
              /\ \A r \in 1 .. Len(iact) :
                      iact'[r] = IF r = msat + 1 THEN iact[k]
                                 ELSE IF r = k THEN iact[msat + 1] ELSE iact[r]
    BY <1>6, PartPlaces
  <2>1. bres' = [bres EXCEPT ![iact[k]] = Res(iact[k], x)] /\ nact < k
    BY <1>6 DEF PartSatisfied
  <2>2. Tolerance >= 0 /\ Tolerance \in Int
    BY TolminAssumption DEF Tolerance
\* Every place after nact has a constraint that was at such a place.
  <2> DEFINE From(p, q) ==
               /\ iact'[p] = iact[q]
               /\ p > msat + 1 => q > msat /\ q < k
               /\ p > mdeg' /\ p <= msat + 1 =>
                     (q > mdeg /\ q <= msat) \/ (q = k /\ Res(iact[k], x) > Tolerance)
  <2>3. ASSUME NEW p \in nact + 1 .. k PROVE \E q \in nact + 1 .. k : From(p, q)
    <3>1. /\ p \in 1 .. Len(iact) /\ p \in Nat /\ p <= k /\ k \in nact + 1 .. k
          /\ mdeg + 1 \in nact + 1 .. k /\ msat + 1 \in nact + 1 .. k
      BY <1>0, <2>0
    <3>2. CASE mdeg' = mdeg
      <4>1. /\ iact'[p] = IF p = msat + 1 THEN iact[k] ELSE IF p = k THEN iact[msat + 1] ELSE iact[p]
            /\ Res(iact[k], x) > Tolerance
        BY <1>0, <2>0, <2>2, <3>1, <3>2
      <4>2. p = msat + 1 => From(p, k)
        BY <1>0, <2>0, <3>1, <3>2, <4>1
      <4>3. p # msat + 1 /\ p = k => From(p, msat + 1)
        BY <1>0, <2>0, <3>1, <3>2, <4>1
      <4>4. p # msat + 1 /\ p # k => From(p, p)
        BY <1>0, <2>0, <3>1, <3>2, <4>1
      <4> HIDE DEF From
      <4>5. QED
        BY <3>1, <4>2, <4>3, <4>4
    <3>3. CASE mdeg' = mdeg + 1
      <4>1. iact'[p] = IF p = mdeg + 1 THEN iact[k]
                       ELSE IF p = msat + 1 THEN iact[mdeg + 1]
                       ELSE IF p = k THEN iact[msat + 1] ELSE iact[p]
        BY <1>0, <2>0, <3>1, <3>3
      <4>2. p = mdeg + 1 => From(p, k)
        BY <1>0, <2>0, <3>1, <3>3, <4>1
      <4>3. p # mdeg + 1 /\ p = msat + 1 => From(p, mdeg + 1)
        BY <1>0, <2>0, <3>1, <3>3, <4>1
      <4>4. p # mdeg + 1 /\ p # msat + 1 /\ p = k => From(p, msat + 1)
        BY <1>0, <2>0, <3>1, <3>3, <4>1
      <4>5. p # mdeg + 1 /\ p # msat + 1 /\ p # k => From(p, p)
        BY <1>0, <2>0, <3>1, <3>3, <4>1
      <4> HIDE DEF From
      <4>6. QED
        BY <3>1, <4>2, <4>3, <4>4, <4>5
    <3>4. QED
      BY <2>0, <3>2, <3>3
  <2> HIDE DEF From
  <2>4. \A q \in nact + 1 .. k : bres'[iact[q]] = Res(iact[q], x)
    <3> SUFFICES ASSUME NEW q \in nact + 1 .. k PROVE bres'[iact[q]] = Res(iact[q], x)
      OBVIOUS
    <3>1. q \in 1 .. Len(iact) /\ iact[q] \in Constraints /\ iact[k] \in Constraints
      <4>1. q \in 1 .. Len(iact) /\ k \in 1 .. Len(iact)
        BY <2>0, ArrayNumbers
      <4>2. QED
        BY <1>0, <4>1
    <3>2. CASE q = k
      BY <1>0, <2>1, <3>1, <3>2
    <3>3. CASE q # k
      <4>1. q \in nact + 1 .. k - 1 /\ iact[q] # iact[k]
        <5>1. q \in nact + 1 .. k - 1 /\ k \in 1 .. Len(iact)
          BY <1>0, <2>0, <3>3
        <5>2. QED
          BY <1>0, <3>1, <3>3, <5>1 DEF OneToOne
      <4>2. QED
        BY <1>0, <1>a, <2>0, <2>1, <3>1, <4>1
    <3>4. QED
      BY <3>2, <3>3
  <2>5. ASSUME NEW p \in mdeg' + 1 .. msat + 1 PROVE Res(iact'[p], x) > 0
    <3>1. p \in nact + 1 .. k /\ p > mdeg' /\ p <= msat + 1
      <4>1. mdeg' \in {mdeg, mdeg + 1} /\ nact <= mdeg /\ k \in msat + 1 .. Len(iact)
        BY <2>0
      <4>2. QED
        BY <4>1, ArrayNumbers
    <3>a. PICK q \in nact + 1 .. k : From(p, q)
      BY <2>3, <3>1
    <3>2. /\ iact'[p] = iact[q]
          /\ (q > mdeg /\ q <= msat) \/ (q = k /\ Res(iact[k], x) > Tolerance)
      BY <3>1, <3>a DEF From
    <3>3. CASE q > mdeg /\ q <= msat
      <4>1. q \in mdeg + 1 .. msat
        BY <1>0, <3>3
      <4>2. QED
        BY <1>a, <2>0, <3>2, <4>1
    <3>4. CASE q = k /\ Res(iact[k], x) > Tolerance
      BY <1>0, <2>0, <2>2, <3>2, <3>4
    <3>5. QED
      BY <3>2, <3>3, <3>4
  <2>6. ASSUME NEW p \in msat + 2 .. k PROVE Res(iact'[p], x) < 0
    <3>1. p \in nact + 1 .. k /\ p > msat + 1
      BY <1>0, <2>0
    <3>a. PICK q \in nact + 1 .. k : From(p, q)
      BY <2>3, <3>1
    <3>2. iact'[p] = iact[q] /\ q > msat /\ q < k
      BY <3>1, <3>a DEF From
    <3>3. q \in msat + 1 .. k - 1
      BY <1>0, <2>0, <3>2
    <3>4. QED
      BY <1>a, <2>0, <3>2, <3>3
  <2>7. ASSUME NEW p \in nact + 1 .. k PROVE bres'[iact'[p]] = Res(iact'[p], x)
    <3>1. PICK q \in nact + 1 .. k : From(p, q)
      BY <2>3
    <3>2. iact'[p] = iact[q]
      BY <3>1 DEF From
    <3>3. QED
      BY <2>4, <3>2
  <2>8. ASSUME NEW p \in k + 1 .. msatk PROVE Res(iact'[p], x) >= 0
    <3>1. p \in 1 .. Len(iact) /\ p # k /\ p # msat + 1 /\ p # mdeg + 1 /\ p \in k .. msatk
      BY <2>0, ArrayNumbers
    <3>2. iact'[p] = iact[p]
      BY <2>0, <3>1
    <3>3. QED
      BY <1>a, <2>0, <3>1, <3>2
  <2>9. k' - 1 = k /\ msat' + 1 = msat + 2
    BY <1>0, <2>0
  <2>10. QED
    BY <2>0, <2>5, <2>6, <2>7, <2>8, <2>9
<1>7. \/ UNCHANGED vars \/ StartConres \/ PartActive \/ PartViolated \/ PartSatisfied
  BY DEF Next, Initialise, Satact, Conres, Getd, Bound, Feasible, Minimise, vars,
         CheckBounds, FixVariable, FixEnds, AddBounds, BoundsAdded, ShiftActive, FlagActive,
         ActiveChecked, DeleteFlagged, FlaggedDeleted, Parted, GetdDrops, GetdKeeps,
         NoDirection, DirectionFound, AddDegenerate, SdegenDrops, SdegenKeeps, Stepbd,
         PassThrough, StepEnds, FeasibilityStep, Stuck, Adjtol, BoundsDone, ConstraintsDone,
         StartMinfun, StopMinfun, GoOn, Lsrch, ReduceTol, Getfes, AfterConres
<1>8. QED
  BY <1>1, <1>2, <1>4, <1>5, <1>6, <1>7
\* delcon and addcon leave alone what stands behind.
LEMMA Behind ==
    ASSUME ArrayInv, NEW m \in nact .. Len(iact), NEW r \in m + 1 .. Len(iact)
    PROVE  /\ \A p \in 1 .. nact : Delcon(iact, nact, p)[r] = iact[r]
           /\ \A p \in nact + 1 .. m : Addcon(iact, nact, p)[r] = iact[r]
<1>0. /\ iact \in Seq(Constraints) /\ Len(iact) \in Nat /\ nact \in Nat /\ m \in Nat /\ nact <= m
      /\ m <= Len(iact) /\ r \in 1 .. Len(iact) /\ r \in nact + 1 .. Len(iact) /\ r \in Nat /\ r > m
      /\ ActivesDiffer(iact, nact)
  BY ArrayFacts
<1>1. ASSUME NEW p \in 1 .. nact PROVE Delcon(iact, nact, p)[r] = iact[r]
  <2>1. nact \in 1 .. Len(iact)
    BY <1>0
  <2>2. \A s \in nact + 1 .. Len(iact) : Delcon(iact, nact, p)[s] = iact[s]
    BY <1>0, <2>1, DelconDeletes
  <2>3. QED
    BY <1>0, <2>2
<1>2. ASSUME NEW p \in nact + 1 .. m PROVE Addcon(iact, nact, p)[r] = iact[r]
  <2>1. p \in nact + 1 .. Len(iact) /\ r # p /\ r # nact + 1
    BY <1>0
  <2>2. QED
    BY <1>0, <2>1, AddconPlaces
<1>3. QED
  BY <1>1, <1>2

\* Whoever looks for a direction leaves the constraints behind the degenerate
\* ones where they are.
LEMMA DirectionKeeps ==
    ASSUME ArrayInv, GetdDrops \/ GetdKeeps \/ AddDegenerate \/ SdegenDrops \/ SdegenKeeps
                     \/ DirectionFound \/ NoDirection
    PROVE  /\ pc \in {"getd", "sdegen", "interpolate"}
           /\ x' = x /\ g' = g /\ mdeg' = mdeg /\ msat' = msat /\ bres' = bres /\ caller' = caller
           /\ Len(iact') = Len(iact) /\ \A r \in mdeg + 1 .. Len(iact) : iact'[r] = iact[r]
<1>1. /\ pc \in {"getd", "sdegen", "interpolate"}
      /\ x' = x /\ g' = g /\ mdeg' = mdeg /\ msat' = msat /\ bres' = bres /\ caller' = caller
  BY DEF GetdDrops, GetdKeeps, AddDegenerate, SdegenDrops, SdegenKeeps, DirectionFound, NoDirection,
         point, residuals, set
<1>2. [Next]_vars
  BY DEF Next, Getd
<1>3. Len(iact') = Len(iact)
  BY <1>1, <1>2, LengthStays DEF Filling
<1>4. mdeg \in nact .. Len(iact) /\ nact \in Nat
  BY <1>1, ArrayFacts DEF ArrayInv, Counts, Parting
<1>5. ASSUME NEW r \in mdeg + 1 .. Len(iact) PROVE iact'[r] = iact[r]
  <2>1. /\ \A p \in 1 .. nact : Delcon(iact, nact, p)[r] = iact[r]
        /\ \A p \in nact + 1 .. mdeg : Addcon(iact, nact, p)[r] = iact[r]
    BY <1>4, Behind
  <2>2. CASE GetdDrops
    <3>1. PICK p \in meql + 1 .. nact : iact' = Delcon(iact, nact, p)
      BY <2>2 DEF GetdDrops
    <3>2. p \in 1 .. nact
      BY ArrayFacts
    <3>3. QED
      BY <2>1, <3>1, <3>2
  <2>3. CASE SdegenDrops
    <3>1. PICK p \in meql + 1 .. nact - 1 : iact' = Delcon(iact, nact, p)
      BY <2>3 DEF SdegenDrops
    <3>2. p \in 1 .. nact
      BY ArrayFacts
    <3>3. QED
      BY <2>1, <3>1, <3>2
  <2>4. CASE AddDegenerate
    <3>1. PICK e \in Directions : \E p \in Violates(e) : Direction(e) /\ iact' = Addcon(iact, nact, p)
      BY <2>4 DEF AddDegenerate
    <3>2. PICK p \in Violates(e) : Direction(e) /\ iact' = Addcon(iact, nact, p)
      BY <3>1
    <3>3. pc = "sdegen"
      BY <2>4 DEF AddDegenerate
    <3>4. p \in nact + 1 .. mdeg
      BY <3>2, <3>3, ViolatesFree
    <3>5. QED
      BY <2>1, <3>2, <3>4
  <2>5. CASE GetdKeeps \/ SdegenKeeps \/ DirectionFound \/ NoDirection
    BY <2>5 DEF GetdKeeps, SdegenKeeps, DirectionFound, NoDirection, set
  <2>6. QED
    BY <2>2, <2>3, <2>4, <2>5
<1>6. QED
  BY <1>1, <1>3, <1>5

\* What is done with a parted array.
LEMMA WhoParts ==
    ASSUME [Next]_vars, pc' \in {"getd", "sdegen", "interpolate", "stepbd"}
    PROVE  \/ UNCHANGED vars \/ Parted
           \/ GetdDrops \/ GetdKeeps \/ AddDegenerate \/ SdegenDrops \/ SdegenKeeps \/ DirectionFound
BY DEF Next, Initialise, Satact, Conres, Getd, Bound, Feasible, Minimise, vars,
         CheckBounds, FixVariable, FixEnds, AddBounds, BoundsAdded, ShiftActive, FlagActive,
         ActiveChecked, DeleteFlagged, FlaggedDeleted, StartConres, PartActive,
         PartSatisfied, PartViolated, NoDirection, Stepbd, PassThrough, StepEnds,
         FeasibilityStep, Stuck, Adjtol, BoundsDone, ConstraintsDone, StartMinfun,
         StopMinfun, GoOn, Lsrch, ReduceTol, Getfes, AfterConres

\* The array stays parted while a direction is found.
LEMMA PartsStep ==
    ASSUME ArrayInv, PartsInv, [Next]_vars
    PROVE  Parts'
<1> USE DEF mtot
<1> SUFFICES ASSUME pc' \in {"getd", "sdegen", "interpolate", "stepbd"}
             PROVE  /\ \A p \in mdeg' + 1 .. msat' : Res(iact'[p], x') > 0
                    /\ \A p \in msat' + 1 .. Len(iact') : Res(iact'[p], x') < 0
                    /\ \A p \in mdeg' + 1 .. Len(iact') : bres'[iact'[p]] = Res(iact'[p], x')
  BY DEF Parts
<1>0. Parts /\ Partition
  BY DEF PartsInv
<1>1. CASE UNCHANGED vars
  BY <1>0, <1>1 DEF vars, point, set, residuals, Parts
<1>2. CASE Parted
  <2>1. /\ pc = "partition" /\ x' = x /\ iact' = iact /\ mdeg' = mdeg /\ msat' = msat /\ bres' = bres
        /\ k = Len(iact) + 1 /\ nact <= mdeg /\ mdeg \in Nat /\ nact \in Nat
    BY <1>2, ArrayFacts DEF Parted, point, set, residuals, ArrayInv, Counts, Parting
  <2>2. k - 1 = Len(iact)
    BY <2>1, ArrayFacts
  <2>3. \A p \in mdeg + 1 .. Len(iact) : p \in nact + 1 .. Len(iact)
    BY <2>1, ArrayFacts
  <2>4. QED
    BY <1>0, <2>1, <2>2, <2>3 DEF Partition
<1>3. CASE GetdDrops \/ GetdKeeps \/ AddDegenerate \/ SdegenDrops \/ SdegenKeeps \/ DirectionFound
  <2>1. /\ pc \in {"getd", "sdegen", "interpolate"}
        /\ x' = x /\ mdeg' = mdeg /\ msat' = msat /\ bres' = bres
        /\ Len(iact') = Len(iact) /\ \A r \in mdeg + 1 .. Len(iact) : iact'[r] = iact[r]
    BY <1>3, DirectionKeeps
  <2>2. /\ mdeg \in Nat /\ msat \in Nat /\ msat <= Len(iact) /\ mdeg <= msat /\ Len(iact) \in Nat
    BY <2>1, ArrayFacts DEF ArrayInv, Counts, Parting
  <2>3. \A p \in mdeg + 1 .. msat : p \in mdeg + 1 .. Len(iact)
    BY <2>2
  <2>4. \A p \in msat + 1 .. Len(iact) : p \in mdeg + 1 .. Len(iact)
    BY <2>2
  <2>5. QED
    BY <1>0, <2>1, <2>3, <2>4 DEF Parts
<1>4. QED
  BY <1>1, <1>2, <1>3, WhoParts
\* Where g comes from.
LEMMA WhoDescends ==
    ASSUME [Next]_vars
    PROVE  g' = g \/ StartConres \/ PartViolated \/ StartMinfun \/ Lsrch
<1>1. CASE UNCHANGED vars
  BY <1>1 DEF vars, point
<1>2. CASE Initialise
  BY <1>2 DEF Initialise, CheckBounds, FixVariable, FixEnds, AddBounds, BoundsAdded, Getfes, point
<1>3. CASE Satact
  BY <1>3 DEF Satact, ShiftActive, FlagActive, ActiveChecked, DeleteFlagged, FlaggedDeleted, point
<1>4. CASE Conres
  BY <1>4 DEF Conres, PartActive, PartSatisfied, Parted, point
<1>5. CASE Getd
  BY <1>5 DEF Getd, GetdDrops, GetdKeeps, NoDirection, DirectionFound, AddDegenerate, SdegenDrops,
              SdegenKeeps, point
<1>6. CASE Bound
  BY <1>6 DEF Bound, Stepbd, PassThrough, StepEnds, point
<1>7. CASE Feasible
  BY <1>7 DEF Feasible, FeasibilityStep, Stuck, Adjtol, BoundsDone, ConstraintsDone, point
<1>8. CASE Minimise
  BY <1>8 DEF Minimise, StopMinfun, GoOn, ReduceTol, point
<1>9. QED
  BY <1>1, <1>2, <1>3, <1>4, <1>5, <1>6, <1>7, <1>8 DEF Next

\* fgcalc never sees a point outside the bounds.
LEMMA PointsInside ==
    ASSUME ArrayInv, PartsInv
    PROVE  /\ pc = "start" => x \in Inside
           /\ pc = "lsrch" /\ stepcb > 0 => \A s \in 0 .. stepcb : Along(s) \in Inside
<1>1. pc \in {"start", "lsrch"} => x \in Inside
  BY DEF PartsInv, Seeking, InMinfun
<1>2. ASSUME pc = "lsrch", stepcb > 0, NEW s \in 0 .. stepcb PROVE Along(s) \in Inside
  <2>1. Going
    BY <1>2 DEF Going
  <2>2. QED
    BY <1>1, <1>2, <2>1, OnTheWay
<1>3. QED
  BY <1>1, <1>2

\* What fgcalc returns at such a point.
LEMMA FgcalcType ==
    ASSUME NEW p \in Inside, Fgcalc(p)
    PROVE  f' = Objective[p] /\ f' \in Int /\ g' \in Gradients[p] /\ g' \in Directions
<1>1. Objective[p] \in Int /\ Gradients[p] \in SUBSET Directions
  BY TolminAssumption
<1>2. QED
  BY <1>1 DEF Fgcalc

\* g is a vector of signs.
LEMMA GradientType ==
    ASSUME ArrayInv, PartsInv, [Next]_vars
    PROVE  g' \in Directions
<1>0. g \in Directions /\ -1 \in {-1, 0, 1} /\ 0 \in {-1, 0, 1} /\ 1 \in {-1, 0, 1}
  BY DEF PartsInv
<1>1. CASE StartConres
  BY <1>0, <1>1 DEF StartConres, Zero, Directions
<1>2. CASE PartViolated
  <2>1. \E e \in {-1, 0, 1} : g' = [g EXCEPT ![Var(iact[k])] = e]
    BY <1>0, <1>2 DEF PartViolated
  <2>2. QED
    BY <1>0, <2>1 DEF Directions
<1>3. CASE StartMinfun
  <2>1. x \in Inside /\ (g' = g \/ Fgcalc(x))
    BY <1>3, PointsInside DEF StartMinfun
  <2>2. QED
    BY <1>0, <2>1, FgcalcType
<1>4. CASE Lsrch
  <2>1. PICK s \in 0 .. stepcb : g' = g \/ Fgcalc(Along(s))
    BY <1>4 DEF Lsrch
  <2>2. Along(s) \in Inside
    BY <1>4, LsrchGoes, PointsInside DEF Going, Lsrch
  <2>3. QED
    BY <1>0, <2>1, <2>2, FgcalcType
<1>5. QED
  BY <1>0, <1>1, <1>2, <1>3, <1>4, WhoDescends

\* For whom conres works.
LEMMA ControlStep ==
    ASSUME ArrayInv, ArrayInv', PartsInv, InMinfun', [Next]_vars
    PROVE  /\ pc' \in Parting => (seeking' <=> caller' # "minfun")
           /\ pc' \in {"kt", "lsrch", "start", "reduce"} => caller' = "minfun"
           /\ pc' = "step" => caller' # "minfun"
           /\ pc' = "conres" /\ caller' # "minfun" => msat' < Len(iact')
           /\ pc' = "partition" /\ caller' = "minfun" => msatk' = Len(iact')
<1> USE DEF mtot
<1>0. /\ Seeking /\ InMinfun /\ msat \in Nat /\ Len(iact) \in Nat /\ msat <= Len(iact)
      /\ seeking \in BOOLEAN
  BY ArrayFacts DEF PartsInv, ArrayInv, Types
<1>1. CASE UNCHANGED vars
  BY <1>0, <1>1 DEF vars, set, residuals, Seeking
<1>2. CASE Initialise
  BY <1>2 DEF Initialise, CheckBounds, FixVariable, FixEnds, AddBounds, BoundsAdded, Getfes, Parting
<1>3. CASE Satact
  <2>1. pc' \in {"satact", "delete", "conres", "found"}
    BY <1>3 DEF Satact, ShiftActive, FlagActive, ActiveChecked, DeleteFlagged, FlaggedDeleted
  <2>2. ASSUME pc' = "conres" PROVE msat' < Len(iact')
    <3>1. FlaggedDeleted /\ msat' # Len(iact) /\ iact' = iact
      BY <1>3, <2>2 DEF Satact, ShiftActive, FlagActive, ActiveChecked, DeleteFlagged, FlaggedDeleted
    <3>2. msat' \in Nat /\ msat' <= Len(iact')
      BY DEF ArrayInv, Counts
    <3>3. QED
      BY <1>0, <3>1, <3>2
  <2>3. QED
    BY <2>1, <2>2 DEF Parting
<1>4. CASE Conres
  <2>1. CASE StartConres
    <3>1. /\ pc' = "partition" /\ caller' = caller /\ msatk' = msat /\ iact' = iact /\ pc = "conres"
          /\ seeking' = (msat < Len(iact))
      BY <2>1 DEF StartConres
    <3>2. caller = "minfun" => msat = Len(iact)
      BY <1>0, <3>1 DEF InMinfun
    <3>3. caller # "minfun" => msat < Len(iact)
      BY <1>0, <3>1 DEF Seeking
    <3>4. (msat < Len(iact)) <=> caller # "minfun"
      BY <1>0, <3>2, <3>3
    <3>5. seeking' <=> caller' # "minfun"
      BY <3>1, <3>4, Zenon
    <3>6. QED
      BY <3>1, <3>2, <3>5
  <2>2. CASE ~ StartConres
    <3>1. /\ pc = "partition" /\ caller' = caller /\ msatk' = msatk /\ seeking' = seeking
          /\ pc' \in {"partition", "getd", "step"} /\ (pc' = "step" => seeking)
      BY <1>4, <2>2 DEF Conres, PartActive, PartSatisfied, PartViolated, Parted, residuals
    <3>2. (seeking <=> caller # "minfun") /\ (caller = "minfun" => msatk = Len(iact))
      BY <1>0, <3>1 DEF Seeking, Parting
    <3>3. Len(iact') = Len(iact)
      BY <3>1, LengthStays DEF Filling
    <3>4. QED
      BY <3>1, <3>2, <3>3
  <2>3. QED
    BY <2>1, <2>2
<1>5. CASE Getd \/ Bound
  <2>1. /\ caller' = caller /\ seeking' = seeking /\ pc \in Parting
        /\ pc' \in {"getd", "sdegen", "interpolate", "stepbd", "pass", "kt", "step"}
        /\ (pc' = "kt" => caller = "minfun") /\ (pc' = "step" => caller # "minfun")
    BY <1>5 DEF Getd, GetdDrops, GetdKeeps, NoDirection, DirectionFound, AddDegenerate, SdegenDrops,
                SdegenKeeps, Bound, Stepbd, PassThrough, StepEnds, AfterConres, Parting, residuals
  <2>2. seeking <=> caller # "minfun"
    BY <1>0, <2>1 DEF Seeking
  <2>3. QED
    BY <2>1, <2>2
<1>6. CASE Feasible
  <2>1. pc' \in {"found", "stuck", "conres", "satact", "adjtol", "return", "start"}
    BY <1>6 DEF Feasible, FeasibilityStep, Stuck, Adjtol, BoundsDone, ConstraintsDone, Getfes
  <2>2. pc' = "start" => caller' = "minfun"
    BY <1>6 DEF Feasible, FeasibilityStep, Stuck, Adjtol, BoundsDone, ConstraintsDone, Getfes
  <2>3. ASSUME pc' = "conres" PROVE msat' < Len(iact')
    <3>1. FeasibilityStep
      BY <1>6, <2>3 DEF Feasible, FeasibilityStep, Stuck, Adjtol, BoundsDone, ConstraintsDone, Getfes
    <3>2. msat # Len(iact) /\ msat' = msat /\ pc = "step"
      BY <2>3, <3>1 DEF FeasibilityStep
    <3>3. Len(iact') = Len(iact)
      BY <3>2, LengthStays DEF Filling
    <3>4. QED
      BY <1>0, <3>2, <3>3
  <2>4. QED
    BY <2>1, <2>2, <2>3 DEF Parting
<1>7. CASE Minimise
  <2>1. caller = "minfun" /\ caller' = caller
    BY <1>0, <1>7 DEF Minimise, StartMinfun, StopMinfun, GoOn, Lsrch, ReduceTol, Seeking
  <2>2. pc' \in {"conres", "reduce", "lsrch", "adjtol", "return"}
    BY <1>7 DEF Minimise, StartMinfun, StopMinfun, GoOn, Lsrch, ReduceTol
  <2>3. QED
    BY <2>1, <2>2 DEF Parting
<1>8. QED
  BY <1>1, <1>2, <1>3, <1>4, <1>5, <1>6, <1>7 DEF Next

\* What conres has seen when it goes on.
LEMMA UnseenStep ==
    ASSUME ArrayInv, k \in 1 .. Len(iact), k' = k + 1, Len(iact') = Len(iact),
           \A r \in k + 1 .. Len(iact) : iact'[r] = iact[r], NEW j
    PROVE  j \in Unseen' <=> j \in Unseen /\ j # iact[k]
<1>0. OneToOne(iact) /\ Len(iact) \in Nat /\ k \in Nat
  BY ArrayFacts
<1>1. Unseen' = {iact'[p] : p \in k + 1 .. Len(iact)}
  BY DEF Unseen
<1>2. ASSUME j \in Unseen' PROVE j \in Unseen /\ j # iact[k]
  <2>1. PICK p \in k + 1 .. Len(iact) : j = iact'[p]
    BY <1>1, <1>2
  <2>2. j = iact[p] /\ p \in k .. Len(iact) /\ p \in 1 .. Len(iact) /\ p # k
    BY <1>0, <2>1
  <2>3. QED
    BY <1>0, <2>2 DEF Unseen, OneToOne
<1>3. ASSUME j \in Unseen, j # iact[k] PROVE j \in Unseen'
  <2>1. PICK p \in k .. Len(iact) : j = iact[p]
    BY <1>3 DEF Unseen
  <2>2. p \in k + 1 .. Len(iact)
    BY <1>0, <1>3, <2>1
  <2>3. QED
    BY <1>1, <2>1, <2>2
<1>4. QED
  BY <1>2, <1>3

\* Constraints that are not violated are seen and leave g as it is.
LEMMA SeenSatisfied ==
    ASSUME ArrayInv, PartsInv, PartActive \/ PartSatisfied
    PROVE  /\ pc = "partition" /\ pc' = "partition" /\ x' = x /\ g' = g /\ caller' = caller
           /\ sumres' = sumres /\ k \in 1 .. Len(iact) /\ iact[k] \in Constraints /\ Res(iact[k], x) >= 0
           /\ \A j : j \in Unseen' <=> j \in Unseen /\ j # iact[k]
<1>0. /\ msat \in Nat /\ Len(iact) \in Nat /\ msat <= Len(iact) /\ nact <= msat /\ k \in Nat
      /\ nact \in Nat /\ meql \in Nat /\ meql <= nact
      /\ \A p \in 1 .. Len(iact) : iact[p] \in Constraints
  BY ArrayFacts
<1>1. CASE PartActive
  <2>1. /\ pc = "partition" /\ pc' = "partition" /\ x' = x /\ g' = g /\ caller' = caller /\ iact' = iact
        /\ sumres' = sumres /\ k \in 1 .. nact /\ k' = k + 1 /\ KeptTo = mdeg /\ nact <= mdeg
    BY <1>0, <1>1 DEF PartActive, point, set, ArrayInv, Counts, KeptTo, Parting
  <2>2. k \in 1 .. Len(iact) /\ k \in 1 .. KeptTo
    BY <1>0, <2>1, ArrayFacts
  <2>3. Res(iact[k], x) >= 0
    BY <2>2 DEF PartsInv, KeptActive, Kept
  <2>4. \A j : j \in Unseen' <=> j \in Unseen /\ j # iact[k]
    BY <2>1, <2>2, UnseenStep
  <2>5. QED
    BY <1>0, <2>1, <2>2, <2>3, <2>4
<1>2. CASE PartSatisfied
  <2>1. /\ pc = "partition" /\ pc' = "partition" /\ x' = x /\ g' = g /\ caller' = caller
        /\ k \in 1 .. Len(iact) /\ k' = k + 1 /\ Len(iact') = Len(iact)
        /\ \A r \in k + 1 .. Len(iact) : iact'[r] = iact[r]
    <3>1. /\ k \in msat + 1 .. Len(iact) /\ nact <= mdeg /\ mdeg <= msat /\ mdeg \in Nat
          /\ pc = "partition" /\ pc' = pc /\ x' = x /\ g' = g /\ caller' = caller
          /\ k' = k + 1 /\ Len(iact') = Len(iact)
          /\ \/ \A r \in 1 .. Len(iact) :
                      iact'[r] = IF r = mdeg + 1 THEN iact[k]
                                 ELSE IF r = msat + 1 THEN iact[mdeg + 1]
                                 ELSE IF r = k THEN iact[msat + 1] ELSE iact[r]
             \/ \A r \in 1 .. Len(iact) :
                      iact'[r] = IF r = msat + 1 THEN iact[k]
                                 ELSE IF r = k THEN iact[msat + 1] ELSE iact[r]
      BY <1>2, PartPlaces, ArrayFacts
    <3>2. \A r \in k + 1 .. Len(iact) : r \in 1 .. Len(iact) /\ r # mdeg + 1 /\ r # msat + 1 /\ r # k
      BY <1>0, <3>1
    <3>3. \A r \in k + 1 .. Len(iact) : iact'[r] = iact[r]
      BY <3>1, <3>2
    <3>4. QED
      BY <1>0, <3>1, <3>3
  <2>2. Res(iact[k], x) >= 0
    <3>1. CountsAsSatisfied(k) /\ k \in k .. Len(iact)
      BY <1>2, <2>1 DEF PartSatisfied
    <3>2. QED
      BY <2>1, <3>1, CountsRight
  <2>3. \A j : j \in Unseen' <=> j \in Unseen /\ j # iact[k]
    BY <2>1, UnseenStep
  <2>4. sumres' = sumres
    BY <1>2 DEF PartSatisfied
  <2>5. QED
    BY <1>0, <2>1, <2>2, <2>3, <2>4
<1>3. QED
  BY <1>1, <1>2

\* The residuals of the bounds of a variable.
LEMMA ResOf ==
    ASSUME NEW v \in Vars, NEW y \in [Vars -> Int]
    PROVE  /\ y[v] \in Int /\ Lower[v] \in Int /\ Upper[v] \in Int
           /\ Res(v, y) = y[v] - Lower[v] /\ Res(N + v, y) = Upper[v] - y[v]
<1>1. y[v] \in Int /\ Lower[v] \in Int /\ Upper[v] \in Int
  BY BoundTypes
<1>2. Res(v, y) = y[v] - Lower[v] /\ Res(N + v, y) = Upper[v] - y[v]
  BY Bounds DEF Res
<1>3. QED
  BY <1>1, <1>2

\* g becomes the gradient of the sum of the violations.
LEMMA GradientStep ==
    ASSUME ArrayInv, PartsInv, [Next]_vars, caller' # "minfun"
    PROVE  /\ pc' = "partition" => \A v \in Vars : g'[v] = Uphill(v, Unseen)'
           /\ pc' \in (Parting \ {"partition"}) \union {"step"} =>
                 \A v \in Vars : g'[v] = Uphill(v, {})'
<1> USE DEF mtot
<1>0. /\ Seeking /\ msat \in Nat /\ Len(iact) \in Nat /\ msat <= Len(iact) /\ nact <= msat /\ k \in Nat
      /\ nact \in Nat /\ meql \in Nat /\ meql <= nact
      /\ x \in [Vars -> Int] /\ g \in Directions
      /\ \A p \in 1 .. Len(iact) : iact[p] \in Constraints /\ Res(iact[p], x) \in Int
  BY ArrayFacts, ResType DEF PartsInv, ArrayInv, Types
<1>1. CASE UNCHANGED vars
  BY <1>0, <1>1 DEF vars, set, point, Seeking, Uphill, Unseen
<1>2. CASE StartConres
  <2>1. /\ pc = "conres" /\ pc' = "partition" /\ x' = x /\ iact' = iact /\ k' = meql + 1 /\ g' = Zero
        /\ info # 4 /\ pc \notin Filling
    <3>1. pc = "conres" /\ caller # "minfun"
      BY <1>2 DEF StartConres
    <3>2. msat < Len(iact)
      BY <1>0, <3>1 DEF Seeking
    <3>3. QED
      BY <1>2, <3>1, <3>2, NotFilling DEF StartConres, Filling
  <2>2. Unseen' = {iact[p] : p \in meql + 1 .. Len(iact)}
    BY <2>1 DEF Unseen
  <2>3. ASSUME NEW v \in Vars PROVE g'[v] = Uphill(v, Unseen)'
    <3>1. g'[v] = 0
      BY <2>1 DEF Zero
    <3>2. CASE IsFixed(v)
      <4>1. x[v] = Lower[v] /\ x[v] = Upper[v] /\ x[v] \in Int
        BY <1>0, <2>1, <3>2, NotFilling DEF IsFixed
      <4>2. ~ (x'[v] < Lower[v]) /\ ~ (x'[v] > Upper[v])
        BY <2>1, <4>1
      <4>3. QED
        BY <3>1, <4>2 DEF Uphill
    <3>3. CASE ~ IsFixed(v)
      <4>1. v \in Unseen' /\ N + v \in Unseen'
        BY <2>1, <2>2, <3>3, PlacesOf
      <4>2. QED
        BY <3>1, <4>1 DEF Uphill
    <3>4. QED
      BY <3>2, <3>3
  <2>4. QED
    BY <2>1, <2>3
<1>3. ASSUME pc = "partition", pc' = "partition", x' = x, g' = g, caller' = caller,
             k \in 1 .. Len(iact), Res(iact[k], x) >= 0,
             \A j : j \in Unseen' <=> j \in Unseen /\ j # iact[k]
      PROVE  \A v \in Vars : g'[v] = Uphill(v, Unseen)'
  <2> SUFFICES ASSUME NEW v \in Vars PROVE g'[v] = Uphill(v, Unseen)'
    OBVIOUS
  <2>1. g[v] = Uphill(v, Unseen)
    BY <1>0, <1>3 DEF Seeking
  <2>2. /\ x[v] \in Int /\ Lower[v] \in Int /\ Upper[v] \in Int
        /\ Res(v, x) = x[v] - Lower[v] /\ Res(N + v, x) = Upper[v] - x[v]
    BY <1>0, ResOf
  <2>3. x[v] < Lower[v] => v # iact[k]
    BY <1>3, <2>2
  <2>4. x[v] > Upper[v] => N + v # iact[k]
    BY <1>3, <2>2
  <2>5. /\ x[v] < Lower[v] => (v \in Unseen' <=> v \in Unseen)
        /\ x[v] > Upper[v] => (N + v \in Unseen' <=> N + v \in Unseen)
    BY <1>3, <2>3, <2>4
  <2>6. QED
    BY <1>3, <2>1, <2>5 DEF Uphill
<1>4. CASE PartActive \/ PartSatisfied
  BY <1>3, <1>4, SeenSatisfied
<1>5. CASE PartViolated
  <2>1. /\ pc = "partition" /\ pc' = "partition" /\ x' = x /\ caller' = caller /\ iact' = iact
        /\ k \in 1 .. Len(iact) /\ k' = k + 1 /\ caller # "minfun"
        /\ g' = [g EXCEPT ![Var(iact[k])] = IF iact[k] <= N THEN -1 ELSE 1]
    BY <1>0, <1>5 DEF PartViolated, set
  <2>2. Res(iact[k], x) < 0 /\ iact[k] \in Constraints /\ Var(iact[k]) \in Vars
    BY <1>0, <1>5, <2>1, Bounds DEF PartViolated, CountsAsSatisfied
  <2>3. \A j : j \in Unseen' <=> j \in Unseen /\ j # iact[k]
    BY <2>1, UnseenStep
  <2>4. \A v \in Vars : Lower[v] <= Upper[v]
    <3>1. info # 4
      BY <2>1, NotFilling DEF Filling
    <3>2. QED
      BY <3>1 DEF ArrayInv, Complete
  <2>5. \A v \in Vars : g[v] = Uphill(v, Unseen)
    BY <1>0, <2>1 DEF Seeking
  <2>6. ASSUME NEW v \in Vars PROVE g'[v] = Uphill(v, Unseen)'
    <3>1. /\ x[v] \in Int /\ Lower[v] \in Int /\ Upper[v] \in Int
          /\ Res(v, x) = x[v] - Lower[v] /\ Res(N + v, x) = Upper[v] - x[v]
      BY <1>0, ResOf
    <3>2. CASE v # Var(iact[k])
      <4>1. v # iact[k] /\ N + v # iact[k]
        BY <3>2, Bounds
      <4>2. (v \in Unseen' <=> v \in Unseen) /\ (N + v \in Unseen' <=> N + v \in Unseen)
        BY <2>3, <4>1
      <4>3. g'[v] = g[v]
        BY <1>0, <2>1, <3>2 DEF Directions
      <4>4. QED
        BY <2>1, <2>5, <4>2, <4>3 DEF Uphill
    <3>3. CASE v = Var(iact[k])
      <4>1. g'[v] = IF iact[k] <= N THEN -1 ELSE 1
        BY <1>0, <2>1, <3>3 DEF Directions
      <4>2. CASE iact[k] = v
        <5>1. x[v] < Lower[v] /\ v \notin Unseen' /\ g'[v] = -1
          BY <2>2, <2>3, <3>1, <4>1, <4>2, Bounds
        <5>2. QED
          BY <2>1, <5>1 DEF Uphill
      <4>3. CASE iact[k] = N + v
        <5>1. x[v] > Upper[v] /\ N + v \notin Unseen' /\ g'[v] = 1
          BY <2>2, <2>3, <3>1, <4>1, <4>3, Bounds
        <5>2. ~ (x[v] < Lower[v])
          BY <2>4, <3>1, <5>1
        <5>3. QED
          BY <2>1, <5>1, <5>2 DEF Uphill
      <4>4. QED
        BY <2>2, <3>3, <4>2, <4>3, Bounds
    <3>4. QED
      BY <3>2, <3>3
  <2>7. QED
    BY <2>1, <2>6
<1>6. CASE Parted
  <2>1. /\ pc = "partition" /\ pc' \in {"getd", "step"} /\ x' = x /\ g' = g /\ caller' = caller
        /\ k > Len(iact)
    BY <1>6 DEF Parted, point
  <2>2. Unseen = {}
    BY <1>0, <2>1 DEF Unseen
  <2>3. \A v \in Vars : g[v] = Uphill(v, Unseen)
    BY <1>0, <2>1 DEF Seeking
  <2>4. QED
    BY <2>1, <2>2, <2>3 DEF Uphill
<1>7. CASE Getd \/ Bound
  <2>1. /\ x' = x /\ g' = g /\ caller' = caller /\ pc \in Parting \ {"partition"} /\ pc' # "partition"
    BY <1>7 DEF Getd, GetdDrops, GetdKeeps, NoDirection, DirectionFound, AddDegenerate, SdegenDrops,
                SdegenKeeps, Bound, Stepbd, PassThrough, StepEnds, AfterConres, Parting, point
  <2>2. \A v \in Vars : g[v] = Uphill(v, {})
    BY <1>0, <2>1 DEF Seeking
  <2>3. QED
    BY <2>1, <2>2 DEF Uphill
<1>8. CASE Initialise \/ Satact \/ Feasible \/ Minimise
  <2>1. pc' \notin Parting \union {"step"}
    BY <1>8 DEF Initialise, Satact, Feasible, Minimise, CheckBounds, FixVariable, FixEnds, AddBounds,
         BoundsAdded, ShiftActive, FlagActive, ActiveChecked, DeleteFlagged, FlaggedDeleted,
         FeasibilityStep, Stuck, Adjtol, BoundsDone, ConstraintsDone, StartMinfun,
         StopMinfun, GoOn, Lsrch, ReduceTol, Getfes, Parting
  <2>2. QED
    BY <2>1 DEF Parting
<1>9. QED
  BY <1>1, <1>2, <1>4, <1>5, <1>6, <1>7, <1>8 DEF Next, Conres

\* conres knows for whom it works, and what g is.
LEMMA SeekingStep ==
    ASSUME ArrayInv, ArrayInv', PartsInv, InMinfun', [Next]_vars
    PROVE  Seeking'
<1>1. caller' # "minfun" =>
           /\ pc' = "partition" => \A v \in Vars : g'[v] = Uphill(v, Unseen)'
           /\ pc' \in (Parting \ {"partition"}) \union {"step"} =>
                 \A v \in Vars : g'[v] = Uphill(v, {})'
  BY GradientStep
<1>2. QED
  BY <1>1, ControlStep DEF Seeking
\* A downhill direction leads somewhere.
LEMMA DownhillMoves ==
    ASSUME NEW e \in Directions, NEW h \in Directions, DotProduct(e, h) < 0
    PROVE  \E v \in Vars : h[v] # 0 /\ e[v] = -h[v]
<1> DEFINE P == {v \in Vars : e[v] * h[v] > 0}
           M == {v \in Vars : e[v] * h[v] < 0}
<1>1. Cardinality(P) \in Nat /\ Cardinality(M) \in Nat /\ IsFiniteSet(M)
  <2>1. IsFiniteSet(Vars)
    BY Bounds, FS_Interval DEF Vars
  <2>2. IsFiniteSet(P) /\ IsFiniteSet(M)
    BY <2>1, FS_Subset
  <2>3. QED
    BY <2>2, FS_CardinalityType
<1>2. Cardinality(M) # 0
  BY <1>1 DEF DotProduct
<1>3. M # {}
  BY <1>1, <1>2, FS_EmptySet
<1>4. PICK v \in Vars : e[v] * h[v] < 0
  BY <1>3
<1>5. e[v] \in {-1, 0, 1} /\ h[v] \in {-1, 0, 1}
  BY DEF Directions
<1>6. h[v] # 0 /\ e[v] = -h[v]
  BY <1>4, <1>5
<1>7. QED
  BY <1>6

\* A direction does not make a violated constraint more so.
LEMMA ViolatedHeeded ==
    ASSUME ArrayInv, PartsInv, pc = "sdegen", NEW e \in Directions, Direction(e),
           NEW p \in msat + 1 .. Len(iact)
    PROVE  Slope(iact[p], e) <= 0
<1> DEFINE j == iact[p]
           v == Var(j)
<1>1. /\ p \in 1 .. Len(iact) /\ j \in Constraints /\ v \in Vars /\ x \in [Vars -> Int]
      /\ msat \in Nat /\ Len(iact) \in Nat
  BY ArrayFacts
<1>2. caller # "minfun"
  <2>1. pc # "return" /\ pc # "partition" /\ msat # Len(iact)
    BY <1>1
  <2>2. QED
    BY <2>1 DEF PartsInv, InMinfun
<1>3. seeking /\ g[v] = Uphill(v, {})
  BY <1>1, <1>2 DEF PartsInv, Seeking, Parting
<1>4. e[v] * g[v] <= 0 /\ e[v] \in {-1, 0, 1}
  BY <1>1, <1>3 DEF Direction, Directions
<1>5. Res(j, x) < 0
  BY DEF PartsInv, Parts
<1>6. /\ Res(j, x) = IF j <= N THEN x[v] - Lower[v] ELSE Upper[v] - x[v]
      /\ Lower[v] \in Int /\ Upper[v] \in Int /\ x[v] \in Int
  BY <1>1, ResType
<1>7. Lower[v] <= Upper[v]
  BY <1>1, NotFilling DEF Filling, ArrayInv, Complete
<1>8. Slope(j, e) = IF j <= N THEN -e[v] ELSE e[v]
  BY <1>1, SlopeOf
<1>9. CASE j <= N
  <2>1. g[v] = -1
    BY <1>3, <1>5, <1>6, <1>9 DEF Uphill
  <2>2. e[v] \in {0, 1}
    BY <1>4, <2>1
  <2>3. QED
    BY <1>8, <1>9, <2>2
<1>10. CASE ~ (j <= N)
  <2>1. x[v] > Upper[v] /\ ~ (x[v] < Lower[v])
    BY <1>5, <1>6, <1>7, <1>10
  <2>2. g[v] = 1
    BY <1>3, <2>1 DEF Uphill
  <2>3. e[v] \in {-1, 0}
    BY <1>4, <2>2
  <2>4. QED
    BY <1>8, <1>10, <2>3
<1>11. QED
  BY <1>9, <1>10

\* A direction respects what it must.
LEMMA BoundedStep ==
    ASSUME ArrayInv, PartsInv, [Next]_vars
    PROVE  Bounded'
<1> USE DEF mtot
<1> SUFFICES ASSUME pc' \in {"stepbd", "pass"} PROVE Bounded'
  BY DEF Bounded
<1>0. /\ Bounded /\ Len(iact) \in Nat /\ nact \in Nat /\ mdeg \in Nat /\ mdeg <= Len(iact) /\ d \in Directions
      /\ msat \in Nat /\ nact <= msat /\ msat <= Len(iact)
      /\ \A p \in 1 .. Len(iact) : iact[p] \in Constraints
  BY ArrayFacts DEF PartsInv
<1>1. CASE UNCHANGED vars
  BY <1>0, <1>1 DEF vars, set, residuals, motion, Bounded
<1>2. CASE DirectionFound
  <2>1. PICK e \in Directions : Direction(e) /\ Violates(e) = {} /\ d' = e
    BY <1>2 DEF DirectionFound
  <2>2. /\ pc = "sdegen" /\ pc' = "stepbd" /\ iact' = iact /\ nact' = nact /\ mdeg' = mdeg
        /\ msat' = msat
    BY <1>2 DEF DirectionFound, set, residuals
  <2>3. ASSUME NEW p \in nact + 1 .. mdeg PROVE Slope(iact[p], e) <= 0
    <3>1. p \in 1 .. Len(iact) /\ iact[p] \in Constraints
      BY <1>0
    <3>2. Slope(iact[p], e) \in {-1, 0, 1}
      BY <3>1, SlopeOf
    <3>3. ~ (Slope(iact[p], e) > 0)
      BY <2>1 DEF Violates
    <3>4. QED
      BY <3>2, <3>3
  <2>4. \A p \in msat + 1 .. Len(iact) : Slope(iact[p], e) <= 0
    BY <2>1, <2>2, ViolatedHeeded
  <2>5. QED
    BY <2>1, <2>2, <2>3, <2>4 DEF Bounded
<1>3. CASE Stepbd
  <2>1. /\ pc = "stepbd" /\ iact' = iact /\ nact' = nact /\ mdeg' = mdeg /\ d' = d /\ pc' # "stepbd"
    BY <1>3 DEF Stepbd, set, AfterConres
  <2>2. QED
    BY <1>0, <2>1 DEF Bounded
<1>4. CASE PassThrough
  <2>1. /\ pc = "pass" /\ nact <= mdeg /\ mdeg <= msat /\ nact' = nact
        /\ mdeg' = mdeg /\ d' = d /\ indxbd \in msat + 1 .. Len(iact)
        /\ \A r \in 1 .. Len(iact) : iact'[r] = IF r = indxbd THEN iact[msat + 1]
                               ELSE IF r = msat + 1 THEN iact[indxbd] ELSE iact[r]
    BY <1>4, PassedThrough
  <2>2. pc' # "stepbd"
    BY <1>4, <2>1 DEF PassThrough, AfterConres
  <2>3. \A r \in nact + 1 .. mdeg : iact'[r] = iact[r]
    BY <1>0, <2>1
  <2>4. QED
    BY <1>0, <2>1, <2>2, <2>3 DEF Bounded
<1>5. CASE NoDirection \/ StepEnds \/ GoOn \/ Parted
  BY <1>5 DEF NoDirection, StepEnds, GoOn, Parted, AfterConres
<1>6. QED
  BY <1>1, <1>2, <1>3, <1>4, <1>5, WhoLeads

\* It does so until the step is taken.
LEMMA DescendingStep ==
    ASSUME ArrayInv, PartsInv, [Next]_vars
    PROVE  Descending'
<1>0. Descending
  BY DEF PartsInv
<1> SUFFICES ASSUME pc' = "stepbd" \/ Stepping' PROVE \E v \in Vars : g'[v] # 0 /\ d'[v] = -g'[v]
  BY DEF Descending
<1>1. CASE DirectionFound
  <2>1. PICK e \in Directions : Direction(e) /\ d' = e
    BY <1>1 DEF DirectionFound
  <2>2. g \in Directions /\ DotProduct(e, g) < 0 /\ g' = g
    BY <1>1, <2>1 DEF Direction, Downhill, PartsInv, DirectionFound, point
  <2>3. QED
    BY <2>1, <2>2, DownhillMoves
<1>2. CASE NoDirection \/ Parted
  <2>1. stepcb' = 0 /\ pc' \notin {"stepbd", "pass"}
    BY <1>2 DEF NoDirection, Parted, ArrayInv, Heading
  <2>2. QED
    BY <2>1 DEF Stepping
<1>3. CASE UNCHANGED vars \/ Stepbd \/ PassThrough \/ StepEnds \/ GoOn
  <2>1. g' = g /\ d' = d
    BY <1>3 DEF vars, point, motion, Stepbd, PassThrough, StepEnds, GoOn
  <2>2. pc = "stepbd" \/ Stepping
    <3>1. CASE UNCHANGED vars
      BY <3>1 DEF vars, motion, Stepping
    <3>2. CASE Stepbd
      BY <3>2 DEF Stepbd
    <3>3. CASE PassThrough \/ StepEnds
      BY <3>3 DEF PassThrough, StepEnds, Stepping
    <3>4. CASE GoOn
      BY <3>4 DEF GoOn, motion, Stepping
    <3>5. QED
      BY <1>3, <3>1, <3>2, <3>3, <3>4
  <2>3. QED
    BY <1>0, <2>1, <2>2 DEF Descending
<1>4. QED
  BY <1>1, <1>2, <1>3, WhoLeads DEF Stepping
\* What stepbd finds of a constraint that is not treated as active.
LEMMA StepbdPlaces ==
    ASSUME ArrayInv, PartsInv, pc = "stepbd", NEW p \in mdeg + 1 .. Len(iact)
    PROVE  /\ iact[p] \in Constraints /\ Res(iact[p], x) \in Int /\ Slope(iact[p], d) \in {-1, 0, 1}
           /\ Steps[iact[p]] \in Int
           /\ p <= msat => /\ Res(iact[p], x) > 0
                           /\ Steps[iact[p]] = IF Slope(iact[p], d) = 1 THEN Res(iact[p], x) ELSE 0
           /\ ~ (p <= msat) =>
                 /\ Res(iact[p], x) < 0 /\ Slope(iact[p], d) <= 0
                 /\ Steps[iact[p]] = IF Slope(iact[p], d) = -1 THEN -Res(iact[p], x) ELSE 0
<1> DEFINE j == iact[p]
<1>1. /\ Len(iact) \in Nat /\ mdeg \in Nat /\ msat \in Nat /\ p \in 1 .. Len(iact) /\ j \in Constraints
      /\ d \in Directions /\ bres \in [Constraints -> Int] /\ x \in [Vars -> Int]
  <2>1. Len(iact) \in Nat /\ mdeg \in Nat /\ msat \in Nat /\ p \in 1 .. Len(iact)
    BY ArrayNumbers
  <2>2. QED
    BY <2>1, ArrayFacts
<1>2. Res(j, x) \in Int /\ Slope(j, d) \in {-1, 0, 1}
  BY <1>1, ResType, SlopeOf
<1>3. Steps[j] = StepTo(j) /\ bres[j] = Res(j, x)
  BY <1>1, ArrayFacts, StepsType DEF PartsInv, Parts
<1>4. /\ StepTo(j) \in Nat
      /\ Slope(j, d) = 1 => StepTo(j) = IF Res(j, x) > 0 THEN Res(j, x) ELSE 0
      /\ Slope(j, d) = -1 => StepTo(j) = IF Res(j, x) < 0 THEN -Res(j, x) ELSE 0
      /\ Slope(j, d) = 0 => StepTo(j) = 0
  BY <1>1, <1>3, StepToType
<1>5. CASE p <= msat
  <2>1. p \in mdeg + 1 .. msat
    BY <1>1, <1>5
  <2>2. Res(j, x) > 0
    BY <2>1 DEF PartsInv, Parts
  <2>3. Steps[j] = IF Slope(j, d) = 1 THEN Res(j, x) ELSE 0
    BY <1>2, <1>3, <1>4, <2>2
  <2>4. QED
    BY <1>1, <1>2, <1>3, <1>4, <1>5, <2>2, <2>3
<1>6. CASE ~ (p <= msat)
  <2>1. p \in msat + 1 .. Len(iact)
    BY <1>1, <1>6
  <2>2. Res(j, x) < 0 /\ Slope(j, d) <= 0
    BY <2>1 DEF PartsInv, Parts, Bounded
  <2>3. Steps[j] = IF Slope(j, d) = -1 THEN -Res(j, x) ELSE 0
    BY <1>2, <1>3, <1>4, <2>2
  <2>4. QED
    BY <1>1, <1>2, <1>3, <1>4, <1>6, <2>2, <2>3
<1>7. QED
  BY <1>5, <1>6

\* The boundaries on the way are where bres tells.
LEMMA PassingStep ==
    ASSUME ArrayInv, PartsInv, [Next]_vars
    PROVE  Passing'
<1> USE DEF mtot
<1> SUFFICES ASSUME pc' = "pass" PROVE Passing'
  BY DEF Passing
<1>0. /\ Passing /\ Len(iact) \in Nat /\ nact \in Nat /\ mdeg \in Nat /\ mdeg <= Len(iact)
      /\ msat \in Nat /\ nact <= msat /\ msat <= Len(iact) /\ x \in [Vars -> Int] /\ d \in Directions
      /\ bres \in [Constraints -> Int] /\ OneToOne(iact) /\ stepcb \in Nat
      /\ \A p \in 1 .. Len(iact) : iact[p] \in Constraints
  BY ArrayFacts DEF PartsInv
<1>1. CASE UNCHANGED vars
  BY <1>0, <1>1 DEF vars, point, set, residuals, motion, Passing
<1>2. CASE Stepbd
  <2>1. /\ pc = "stepbd" /\ iact' = iact /\ mdeg' = mdeg /\ d' = d /\ msat' = msat /\ x' = x
        /\ bres' = Steps
        /\ \E p \in mdeg + 1 .. Len(iact) :
              Nearest(iact, Steps, p) /\ indxbd' = p /\ stepcb' = Steps[iact[p]]
    BY <1>2 DEF Stepbd, Steps, set, point, AfterConres
  <2>2. /\ indxbd' \in mdeg + 1 .. Len(iact) /\ stepcb' = Steps[iact[indxbd']] /\ stepcb' > 0
        /\ \A p \in mdeg + 1 .. Len(iact) : Steps[iact[p]] > 0 => stepcb' <= Steps[iact[p]]
    BY <2>1 DEF Nearest
  <2>3. ASSUME NEW p \in mdeg + 1 .. msat
        PROVE  /\ Res(iact[p], x) > 0
               /\ Steps[iact[p]] = IF Slope(iact[p], d) = 1 THEN Res(iact[p], x) ELSE 0
    <3>1. p \in mdeg + 1 .. Len(iact) /\ p <= msat
      BY <1>0
    <3>2. QED
      BY <2>1, <3>1, StepbdPlaces
  <2>4. ASSUME NEW p \in msat + 1 .. Len(iact)
        PROVE  /\ Res(iact[p], x) < 0 /\ Slope(iact[p], d) <= 0
               /\ Steps[iact[p]] = IF Slope(iact[p], d) = -1 THEN -Res(iact[p], x) ELSE 0
    <3>1. p \in mdeg + 1 .. Len(iact) /\ ~ (p <= msat)
      BY <1>0, <2>1 DEF ArrayInv, Counts, Parting
    <3>2. QED
      BY <2>1, <3>1, StepbdPlaces
  <2>5. QED
    BY <2>1, <2>2, <2>3, <2>4 DEF Passing
<1>3. CASE PassThrough
  <2> DEFINE j == iact[indxbd]
  <2>1. /\ indxbd \in msat + 1 .. Len(iact) /\ pc = "pass" /\ mdeg <= msat /\ msat' = msat + 1
        /\ mdeg' = mdeg /\ d' = d /\ x' = x /\ Len(iact') = Len(iact)
        /\ bres' = [bres EXCEPT ![j] = 0]
        /\ \A r \in 1 .. Len(iact) : iact'[r] = IF r = indxbd THEN iact[msat + 1]
                               ELSE IF r = msat + 1 THEN iact[indxbd] ELSE iact[r]
    BY <1>3, PassedThrough
  <2>2. /\ indxbd' \in mdeg + 1 .. Len(iact) /\ stepcb' = bres'[iact'[indxbd']] /\ stepcb' > 0
        /\ \A p \in mdeg + 1 .. Len(iact) : bres'[iact'[p]] > 0 => stepcb' <= bres'[iact'[p]]
    BY <1>3, <2>1 DEF PassThrough, Nearest, AfterConres
  <2>3. indxbd \in 1 .. Len(iact) /\ j \in Constraints /\ bres'[j] = 0
    BY <1>0, <2>1
  <2>4. /\ Res(j, x) < 0 /\ Slope(j, d) = -1 /\ stepcb = -Res(j, x) /\ Res(j, x) \in Int
    <3>1. /\ Res(j, x) < 0 /\ Slope(j, d) <= 0
          /\ bres[j] = IF Slope(j, d) = -1 THEN -Res(j, x) ELSE 0
      BY <1>0, <2>1 DEF Passing
    <3>2. stepcb = bres[j] /\ stepcb > 0
      BY <1>0, <2>1 DEF Passing
    <3>3. Res(j, x) \in Int
      BY <1>0, <2>3, ResType
    <3>4. QED
      BY <3>1, <3>2, <3>3
  <2>5. ASSUME NEW p \in 1 .. Len(iact), p # indxbd
        PROVE  iact[p] # j /\ bres'[iact[p]] = bres[iact[p]] /\ bres[iact[p]] \in Int
    <3>1. iact[p] # j /\ iact[p] \in Constraints
      BY <1>0, <2>3, <2>5 DEF OneToOne
    <3>2. QED
      BY <1>0, <2>1, <3>1
  <2>6. stepcb <= stepcb' /\ stepcb' \in Int
    <3>1. indxbd' \in 1 .. Len(iact)
      BY <1>0, <2>2
    <3>2. PICK q \in mdeg + 1 .. Len(iact) : iact'[indxbd'] = iact[q]
      <4>1. \/ iact'[indxbd'] = iact[msat + 1] \/ iact'[indxbd'] = iact[indxbd]
            \/ iact'[indxbd'] = iact[indxbd']
        BY <2>1, <3>1
      <4>2. /\ msat + 1 \in mdeg + 1 .. Len(iact) /\ indxbd \in mdeg + 1 .. Len(iact)
            /\ indxbd' \in mdeg + 1 .. Len(iact)
        BY <1>0, <2>1, <2>2
      <4>3. QED
        BY <4>1, <4>2
    <3>3. q # indxbd /\ q \in 1 .. Len(iact)
      BY <1>0, <2>2, <2>3, <3>2
    <3>4. stepcb' = bres[iact[q]] /\ bres[iact[q]] \in Int
      BY <2>2, <2>5, <3>2, <3>3
    <3>5. bres[iact[q]] > 0 => stepcb <= bres[iact[q]]
      BY <1>0, <2>1, <3>2 DEF Passing
    <3>6. QED
      BY <2>2, <3>4, <3>5
  <2>7. ASSUME NEW p \in mdeg + 1 .. msat + 1
        PROVE  \/ /\ Res(iact'[p], x) > 0
                  /\ bres'[iact'[p]] = IF Slope(iact'[p], d) = 1 THEN Res(iact'[p], x) ELSE 0
               \/ /\ Res(iact'[p], x) < 0 /\ Slope(iact'[p], d) = -1
                  /\ bres'[iact'[p]] = 0 /\ -Res(iact'[p], x) <= stepcb'
    <3>1. CASE p = msat + 1
      <4>1. iact'[p] = j
        BY <1>0, <2>1, <3>1
      <4>2. QED
        BY <1>0, <2>3, <2>4, <2>6, <4>1
    <3>2. CASE p # msat + 1
      <4>0. /\ msat \in Nat /\ mdeg \in Nat /\ Len(iact) \in Nat /\ msat <= Len(iact)
            /\ indxbd \in msat + 1 .. Len(iact)
        BY <1>0, <2>1
      <4>1. p \in mdeg + 1 .. msat /\ p \in 1 .. Len(iact) /\ p # indxbd
        BY <3>2, <4>0
      <4>2. iact'[p] = iact[p] /\ bres'[iact[p]] = bres[iact[p]] /\ Res(iact[p], x) \in Int
        BY <1>0, <2>1, <2>5, <3>2, <4>1, ResType
      <4>3. \/ Res(iact[p], x) > 0 /\ bres[iact[p]] = IF Slope(iact[p], d) = 1 THEN Res(iact[p], x) ELSE 0
            \/ /\ Res(iact[p], x) < 0 /\ Slope(iact[p], d) = -1
               /\ bres[iact[p]] = 0 /\ -Res(iact[p], x) <= stepcb
        BY <1>0, <2>1, <4>1 DEF Passing
      <4>4. QED
        BY <1>0, <2>6, <4>2, <4>3
    <3>3. QED
      BY <3>1, <3>2
  <2>8. ASSUME NEW p \in msat + 2 .. Len(iact)
        PROVE  /\ Res(iact'[p], x) < 0 /\ Slope(iact'[p], d) <= 0
               /\ bres'[iact'[p]] = IF Slope(iact'[p], d) = -1 THEN -Res(iact'[p], x) ELSE 0
    <3>1. PICK q \in msat + 1 .. Len(iact) : q # indxbd /\ iact'[p] = iact[q]
      <4>1. CASE p = indxbd
        <5>1. iact'[p] = iact[msat + 1] /\ msat + 1 # indxbd /\ msat + 1 \in msat + 1 .. Len(iact)
          BY <1>0, <2>1, <4>1
        <5>2. QED
          BY <5>1
      <4>2. CASE p # indxbd
        <5>1. iact'[p] = iact[p] /\ p \in msat + 1 .. Len(iact)
          BY <1>0, <2>1, <4>2
        <5>2. QED
          BY <4>2, <5>1
      <4>3. QED
        BY <4>1, <4>2
    <3>2. q \in 1 .. Len(iact)
      BY <1>0
    <3>3. bres'[iact[q]] = bres[iact[q]]
      BY <2>5, <3>1, <3>2
    <3>4. /\ Res(iact[q], x) < 0 /\ Slope(iact[q], d) <= 0
          /\ bres[iact[q]] = IF Slope(iact[q], d) = -1 THEN -Res(iact[q], x) ELSE 0
      BY <1>0, <2>1 DEF Passing
    <3>5. QED
      BY <3>1, <3>3, <3>4
  <2>9. msat' = msat + 1 /\ msat' + 1 = msat + 2
    BY <1>0, <2>1
  <2>10. QED
    BY <2>1, <2>2, <2>7, <2>8, <2>9 DEF Passing
<1>4. CASE DirectionFound \/ NoDirection \/ StepEnds \/ GoOn \/ Parted
  BY <1>4 DEF DirectionFound, NoDirection, StepEnds, GoOn, Parted, AfterConres
<1>5. QED
  BY <1>1, <1>2, <1>3, <1>4, WhoLeads

\* A step that will be taken arrives where it should.
LEMMA ArrivingStep ==
    ASSUME ArrayInv, PartsInv, [Next]_vars
    PROVE  Arriving'
<1> USE DEF mtot
<1>0. Arriving
  BY DEF PartsInv
<1> SUFFICES ASSUME Going' PROVE Arriving'
  BY DEF Arriving
<1>1. CASE UNCHANGED vars
  BY <1>0, <1>1 DEF vars, point, set, motion, Arriving, Going, Along
<1>2. CASE GoOn
  <2>1. /\ pc = "kt" /\ x' = x /\ iact' = iact /\ msat' = msat /\ d' = d /\ stepcb' = stepcb
        /\ indxbd' = indxbd
    BY <1>2 DEF GoOn, point, set, motion
  <2>2. QED
    BY <1>0, <2>1 DEF Arriving, Going, Along
<1>3. CASE NoDirection \/ Parted
  <2>1. stepcb' = 0
    BY <1>3 DEF NoDirection, Parted, ArrayInv, Heading
  <2>2. QED
    BY <2>1 DEF Going
<1>4. CASE Stepbd \/ DirectionFound
  <2>1. pc' \in {"stepbd", "pass"} \/ stepcb' = 0
    BY <1>4 DEF Stepbd, DirectionFound
  <2>2. QED
    BY <2>1 DEF Going
<1>5. CASE StepEnds
  <2>1. /\ pc = "pass" /\ x' = x /\ iact' = iact /\ msat' = msat /\ d' = d /\ stepcb' = stepcb
        /\ indxbd' = indxbd
    BY <1>5 DEF StepEnds, point, set, motion
  <2>2. QED
    BY <2>1, PassingArrives DEF Arriving, Along
<1>6. CASE PassThrough
  <2>1. /\ indxbd \in msat + 1 .. Len(iact) /\ pc = "pass" /\ msat' = msat + 1
        /\ d' = d /\ x' = x
        /\ \A r \in 1 .. Len(iact) : iact'[r] = IF r = indxbd THEN iact[msat + 1]
                               ELSE IF r = msat + 1 THEN iact[indxbd] ELSE iact[r]
    BY <1>6, PassedThrough
  <2>2. stepcb' = stepcb /\ indxbd' = msat + 1
    BY <1>6 DEF PassThrough, Going
  <2>3. /\ \A v \in Vars : /\ d[v] = 1 => x[v] + stepcb <= Upper[v]
                           /\ d[v] = -1 => x[v] - stepcb >= Lower[v]
        /\ \A p \in 1 .. msat : Res(iact[p], Along(stepcb)) >= 0
        /\ Res(iact[indxbd], Along(stepcb)) = 0
    BY <2>1, PassingArrives
  <2>4. Along(stepcb)' = Along(stepcb)
    BY <2>1, <2>2 DEF Along
  <2>5. msat + 1 \in 1 .. Len(iact) /\ iact'[msat + 1] = iact[indxbd] /\ msat \in Nat
    <3>1. msat \in Nat /\ Len(iact) \in Nat
      BY ArrayFacts
    <3>2. msat + 1 \in 1 .. Len(iact)
      BY <2>1, <3>1
    <3>3. QED
      BY <2>1, <3>1, <3>2
  <2>6. ASSUME NEW p \in 1 .. msat + 1 PROVE Res(iact'[p], Along(stepcb)) >= 0
    <3>1. CASE p = msat + 1
      BY <2>3, <2>5, <3>1
    <3>2. CASE p # msat + 1
      <4>0. msat \in Nat /\ Len(iact) \in Nat /\ msat <= Len(iact) /\ indxbd \in msat + 1 .. Len(iact)
        BY <2>1, ArrayFacts
      <4>1. p \in 1 .. msat /\ p \in 1 .. Len(iact) /\ p # indxbd
        BY <3>2, <4>0
      <4>2. iact'[p] = iact[p]
        BY <2>1, <3>2, <4>1
      <4>3. QED
        BY <2>3, <4>1, <4>2
    <3>3. QED
      BY <3>1, <3>2
  <2>7. QED
    BY <2>1, <2>2, <2>3, <2>4, <2>5, <2>6 DEF Arriving
<1>7. QED
  BY <1>1, <1>2, <1>3, <1>4, <1>5, <1>6, WhoLeads DEF Going

\* Inside the bounds a direction leads to one of them.
LEMMA StepbdFinds ==
    ASSUME ArrayInv, PartsInv, pc = "stepbd", caller = "minfun"
    PROVE  \E p \in mdeg + 1 .. Len(iact) : Steps[iact[p]] > 0
<1>0. /\ Len(iact) \in Nat /\ nact \in Nat /\ mdeg \in Nat /\ meql \in Nat /\ meql <= nact
      /\ msat = Len(iact) /\ d \in Directions /\ pc \notin Filling /\ info # 4 /\ nact <= mdeg
      /\ \A p \in 1 .. Len(iact) : iact[p] \in Constraints
  BY ArrayFacts, NotFilling DEF PartsInv, InMinfun, Filling, ArrayInv, Counts, Parting
<1>1. \A p \in 1 .. nact : d[Var(iact[p])] = 0
  BY DEF ArrayInv, Heading
<1>2. PICK v \in Vars : d[v] # 0
  <2>1. PICK v \in Vars : g[v] # 0 /\ d[v] = -g[v]
    BY DEF PartsInv, Descending
  <2>2. g[v] \in {-1, 0, 1}
    BY DEF PartsInv, Directions
  <2>3. QED
    BY <2>1, <2>2
<1>3. d[v] \in {-1, 0, 1}
  BY <1>0 DEF Directions
<1>4. ~ IsFixed(v)
  <2> SUFFICES ASSUME IsFixed(v) PROVE FALSE
    OBVIOUS
  <2>1. PICK p \in 1 .. meql : iact[p] = N + v
    BY <1>0, PlacesOf
  <2>2. p \in 1 .. nact /\ Var(iact[p]) = v
    BY <1>0, <2>1, Bounds
  <2>3. QED
    BY <1>1, <1>2, <2>2
<1>5. PICK j \in Constraints : j \in {v, N + v} /\ Slope(j, d) = 1
  <2>1. /\ v \in Constraints /\ N + v \in Constraints
        /\ Slope(v, d) = -d[v] /\ Slope(N + v, d) = d[v]
    BY Bounds DEF Slope
  <2>2. CASE d[v] = 1
    BY <2>1, <2>2
  <2>3. CASE d[v] = -1
    BY <2>1, <2>3
  <2>4. QED
    BY <1>2, <1>3, <2>2, <2>3
<1>6. PICK p \in meql + 1 .. Len(iact) : iact[p] = j
  BY <1>0, <1>4, <1>5, PlacesOf
<1>7. p \in 1 .. Len(iact) /\ Var(iact[p]) = v /\ Slope(iact[p], d) = 1
  BY <1>0, <1>5, <1>6, Bounds
<1>8. ~ (p \in 1 .. nact)
  BY <1>1, <1>2, <1>7
<1>9. ~ (p \in nact + 1 .. mdeg)
  BY <1>7 DEF PartsInv, Bounded
<1>10. p \in mdeg + 1 .. Len(iact) /\ p <= msat
  BY <1>0, <1>7, <1>8, <1>9
<1>11. Res(iact[p], x) > 0 /\ Steps[iact[p]] = Res(iact[p], x)
  BY <1>7, <1>10, StepbdPlaces
<1>12. QED
  BY <1>10, <1>11

\* While the function can still be reduced there is a step to take.
LEMMA AheadStep ==
    ASSUME ArrayInv, PartsInv, [Next]_vars
    PROVE  Ahead'
<1> USE DEF mtot
<1> SUFFICES ASSUME pc' = "lsrch" \/ (pc' = "kt" /\ ddotg' < 0) PROVE stepcb' > 0
  BY DEF Ahead
<1>0. Ahead /\ Passing
  BY DEF PartsInv
<1>1. CASE UNCHANGED vars
  BY <1>0, <1>1 DEF vars, motion, Ahead
<1>2. CASE GoOn
  <2>1. pc = "kt" /\ ddotg < 0 /\ stepcb' = stepcb
    BY <1>2 DEF GoOn, motion
  <2>2. QED
    BY <1>0, <2>1 DEF Ahead
<1>3. CASE NoDirection \/ Parted \/ DirectionFound
  BY <1>3 DEF NoDirection, Parted, DirectionFound
<1>4. CASE Stepbd
  <2>1. pc = "stepbd" /\ caller = "minfun"
    BY <1>4 DEF Stepbd, AfterConres
  <2>2. PICK p \in mdeg + 1 .. Len(iact) : Steps[iact[p]] > 0
    BY <2>1, StepbdFinds
  <2>3. Steps[iact[p]] \in Int
    BY <2>1, StepbdPlaces
  <2>4. ~ (\A q \in mdeg + 1 .. Len(iact) : Steps[iact[q]] <= 0)
    BY <2>2, <2>3
  <2>5. pc' = "pass"
    BY <1>4, <2>4 DEF Stepbd, Steps
  <2>6. QED
    BY <2>5
<1>5. CASE StepEnds \/ PassThrough
  <2>1. pc = "pass" /\ stepcb' = stepcb
    BY <1>5 DEF StepEnds, PassThrough, motion
  <2>2. QED
    BY <1>0, <2>1 DEF Passing
<1>6. QED
  BY <1>1, <1>2, <1>3, <1>4, <1>5, WhoLeads
\* What x, the array, bres and the direction are to each other, in every behaviour.
LEMMA PartsAlways == Spec => []PartsInv
<1>1. Init => PartsInv
  <2> SUFFICES ASSUME Init PROVE PartsInv
    OBVIOUS
  <2>1. x \in Points /\ g \in Directions
    BY TolminAssumption DEF Init, Zero, Directions
  <2>2. FixedStay /\ KeptActive /\ Satisfied /\ Partition /\ Parts
    BY DEF Init, FixedStay, KeptActive, KeptTo, Satisfied, Counted, Partition, Parts, Parting
  <2>3. Seeking /\ InMinfun /\ Bounded /\ Descending /\ Passing /\ Arriving /\ Ahead
    BY DEF Init, Seeking, InMinfun, Bounded, Descending, Stepping, Passing, Arriving, Ahead, Going, Parting
  <2>4. QED
    BY <2>1, <2>2, <2>3 DEF PartsInv
<1>2. ArrayInv /\ ArrayInv' /\ PartsInv /\ [Next]_vars => PartsInv'
  <2> SUFFICES ASSUME ArrayInv, ArrayInv', PartsInv, [Next]_vars PROVE PartsInv'
    OBVIOUS
  <2>1. x' \in Points /\ g' \in Directions /\ FixedStay'
    BY PointStep, GradientType
  <2>2. KeptActive' /\ InMinfun'
    BY KeptStep, InMinfunStep
  <2>3. Satisfied' /\ Seeking'
    BY <2>2, SatisfiedStep, SeekingStep
  <2>4. Partition' /\ Parts' /\ Bounded' /\ Descending' /\ Passing' /\ Arriving' /\ Ahead'
    BY PartitionStep, PartsStep, BoundedStep, DescendingStep, PassingStep, ArrivingStep, AheadStep
  <2>5. QED
    BY <2>1, <2>2, <2>3, <2>4 DEF PartsInv
<1>3. QED
  BY <1>1, <1>2, ArrayAlways, PTL DEF Spec

\* fgcalc never sees a point outside the bounds, whichever length lsrch tries.
THEOREM FeasiblePoints == Spec => []EvaluatedInside
<1>1. ArrayInv /\ PartsInv => EvaluatedInside
  <2> SUFFICES ASSUME ArrayInv, PartsInv PROVE EvaluatedInside
    OBVIOUS
  <2>1. pc = "lsrch" => stepcb > 0
    BY DEF PartsInv, Ahead
  <2>2. QED
    BY <2>1, PointsInside DEF EvaluatedInside
<1>2. QED
  BY <1>1, ArrayAlways, PartsAlways, PTL

\* A variable that is not fixed has two places in the array.
LEMMA TwoPlaces ==
    ASSUME ArrayInv, pc \notin Filling, info # 4, NEW v \in Vars, ~ IsFixed(v)
    PROVE  Cardinality({p \in 1 .. Len(iact) : Var(iact[p]) = v}) = 2
<1> DEFINE S == {p \in 1 .. Len(iact) : Var(iact[p]) = v}
<1>1. PICK p, q \in meql + 1 .. Len(iact) : iact[p] = v /\ iact[q] = N + v
  BY PlacesOf
<1>2. p \in 1 .. Len(iact) /\ q \in 1 .. Len(iact)
  BY ArrayFacts
<1>3. v # N + v /\ Var(v) = v /\ Var(N + v) = v
  BY Bounds DEF Vars
<1>4. p # q
  BY <1>1, <1>3
<1>5. ASSUME NEW r \in S PROVE r \in {p, q}
  <2>1. iact[r] \in Constraints /\ Var(iact[r]) = v /\ r \in 1 .. Len(iact)
    BY ArrayFacts
  <2>2. iact[r] = v \/ iact[r] = N + v
    BY <2>1, Bounds
  <2>3. iact[r] = iact[p] \/ iact[r] = iact[q]
    BY <1>1, <2>2
  <2>4. QED
    BY <1>2, <2>1, <2>3, ArrayFacts DEF OneToOne
<1>6. S = {p, q}
  BY <1>1, <1>2, <1>3, <1>5
<1>7. Cardinality({p, q}) = 2
  <2>1. IsFiniteSet({q}) /\ Cardinality({q}) = 1
    BY FS_Singleton
  <2>2. p \notin {q}
    BY <1>4
  <2>3. Cardinality({q} \union {p}) = Cardinality({q}) + 1
    BY <2>1, <2>2, FS_AddElement
  <2>4. Cardinality({q} \union {p}) = 1 + 1
    BY Zenon, <2>1, <2>3
  <2>5. {q} \union {p} = {p, q} /\ 1 + 1 = 2
    OBVIOUS
  <2>6. QED
    BY Zenon, <2>4, <2>5
<1>8. QED
  BY <1>6, <1>7

\* Addcon, delcon, conres and stepbd move constraints in one array, in place:
\* what was satisfied before is satisfied where conres looks for it, no bound is
\* lost, and the constraint that becomes active is the one x has arrived at.
THEOREM WholeArray == Spec => []ArrayIsWhole
<1>1. ArrayInv /\ PartsInv => ArrayIsWhole
  <2> SUFFICES ASSUME ArrayInv, PartsInv PROVE ArrayIsWhole
    OBVIOUS
  <2>1. SatisfiedStays
    BY DEF SatisfiedStays, PartsInv, Satisfied, Counted
  <2>2. ConstraintsStay
    <3>1. ASSUME pc \notin Filling, info # 4, NEW v \in Vars, Lower[v] < Upper[v]
          PROVE  Cardinality({p \in 1 .. Len(iact) : Var(iact[p]) = v}) = 2
      <4>1. ~ IsFixed(v)
        BY <3>1, BoundTypes DEF IsFixed
      <4>2. QED
        BY <3>1, <4>1, TwoPlaces
    <3>2. /\ \A p, q \in 1 .. Len(iact) : iact[p] = iact[q] => p = q
          /\ \A p, q \in 1 .. nact : Var(iact[p]) = Var(iact[q]) => p = q
      BY ArrayFacts DEF OneToOne, ActivesDiffer
    <3>3. QED
      BY <3>1, <3>2 DEF ConstraintsStay, mtot, Filling
  <2>3. IndexIsTheBoundary
    <3> SUFFICES ASSUME pc = "lsrch" \/ (pc = "step" /\ stepcb > 0)
                 PROVE  /\ stepcb > 0 /\ indxbd \in nact + 1 .. Len(iact)
                        /\ Res(iact[indxbd], Along(stepcb)) = 0
                        /\ \A p \in 1 .. nact : Var(iact[p]) # Var(iact[indxbd])
      BY DEF IndexIsTheBoundary, mtot
    <3>1. stepcb > 0
      BY DEF PartsInv, Ahead
    <3>2. Going /\ Stepping
      BY <3>1 DEF Going, Stepping
    <3>3. QED
      BY <3>1, <3>2, EndsAtFree DEF PartsInv, Arriving
  <2>4. QED
    BY <2>1, <2>2, <2>3 DEF ArrayIsWhole
<1>2. QED
  BY <1>1, ArrayAlways, PartsAlways, PTL
-----------------------------------------------------------------------------
(* The evaluations.                                                        *)

\* There are as many as allowed, and where one is made there is one left.
WithinLimit ==
    /\ f \in Int /\ fprev \in Int /\ diff \in Int
    /\ nfvals \in Nat /\ nfvals <= nfmax
    /\ pc # "return" /\ (caller # "minfun" \/ pc \in {"start", "lsrch", "adjtol"}) => nfvals < nfmax

\* Who evaluates.
LEMMA WhoEvaluates ==
    ASSUME [Next]_vars
    PROVE  \/ f' = f /\ nfvals' = nfvals /\ least' = least
           \/ StartMinfun \/ Lsrch
<1>1. CASE UNCHANGED vars
  BY <1>1 DEF vars, point, result
<1>2. CASE Initialise
  BY <1>2 DEF Initialise, CheckBounds, FixVariable, FixEnds, AddBounds, BoundsAdded, Getfes, point, result
<1>3. CASE Satact
  BY <1>3 DEF Satact, ShiftActive, FlagActive, ActiveChecked, DeleteFlagged, FlaggedDeleted, point, result
<1>4. CASE Conres
  BY <1>4 DEF Conres, StartConres, PartActive, PartSatisfied, PartViolated, Parted, point, result
<1>5. CASE Getd
  BY <1>5 DEF Getd, GetdDrops, GetdKeeps, NoDirection, DirectionFound, AddDegenerate, SdegenDrops,
              SdegenKeeps, point, result
<1>6. CASE Bound
  BY <1>6 DEF Bound, Stepbd, PassThrough, StepEnds, point, result
<1>7. CASE Feasible
  BY <1>7 DEF Feasible, FeasibilityStep, Stuck, Adjtol, BoundsDone, ConstraintsDone, point, result
<1>8. CASE Minimise
  BY <1>8 DEF Minimise, StopMinfun, GoOn, ReduceTol, point, result
<1>9. QED
  BY <1>1, <1>2, <1>3, <1>4, <1>5, <1>6, <1>7, <1>8 DEF Next

\* Who compares values.
LEMMA WhoCompares ==
    ASSUME [Next]_vars
    PROVE  (fprev' = fprev /\ diff' = diff /\ diffset' = diffset) \/ StartMinfun \/ GoOn
<1>1. CASE UNCHANGED vars
  BY <1>1 DEF vars, progress
<1>2. CASE Initialise
  BY <1>2 DEF Initialise, CheckBounds, FixVariable, FixEnds, AddBounds, BoundsAdded, Getfes, progress
<1>3. CASE Satact
  BY <1>3 DEF Satact, ShiftActive, FlagActive, ActiveChecked, DeleteFlagged, FlaggedDeleted, progress
<1>4. CASE Conres
  BY <1>4 DEF Conres, StartConres, PartActive, PartSatisfied, PartViolated, Parted, progress
<1>5. CASE Getd
  BY <1>5 DEF Getd, GetdDrops, GetdKeeps, NoDirection, DirectionFound, AddDegenerate, SdegenDrops,
              SdegenKeeps, progress
<1>6. CASE Bound
  BY <1>6 DEF Bound, Stepbd, PassThrough, StepEnds, progress
<1>7. CASE Feasible
  BY <1>7 DEF Feasible, FeasibilityStep, Stuck, Adjtol, BoundsDone, ConstraintsDone, progress
<1>8. CASE Minimise
  BY <1>8 DEF Minimise, StopMinfun, Lsrch, ReduceTol, progress
<1>9. QED
  BY <1>1, <1>2, <1>3, <1>4, <1>5, <1>6, <1>7, <1>8 DEF Next

\* lsrch evaluates at least once, and not more often than is left.
LEMMA LsrchCounts ==
    ASSUME ArrayInv, WithinLimit, Lsrch
    PROVE  nfvals' \in Nat /\ nfvals < nfvals' /\ nfvals' <= nfmax
<1>1. PICK T \in SUBSET (1 .. stepcb) : Tries(T) /\ nfvals' = nfvals + Cardinality(T)
  BY DEF Lsrch
<1>2. IsFiniteSet(T) /\ Cardinality(T) \in Nat /\ Cardinality(T) # 0
  <2>1. IsFiniteSet(1 .. stepcb)
    BY ArrayFacts, FS_Interval
  <2>2. IsFiniteSet(T)
    BY <2>1, FS_Subset
  <2>3. T # {}
    BY <1>1 DEF Tries
  <2>4. QED
    BY <2>2, <2>3, FS_CardinalityType, FS_EmptySet
<1>3. nfvals \in Nat /\ nfvals < nfmax /\ nfmax \in Nat
  BY TolminAssumption DEF WithinLimit, Lsrch
<1>4. Cardinality(T) <= nfmax - nfvals
  BY <1>1, <1>3 DEF Tries
<1>5. QED
  BY <1>1, <1>2, <1>3, <1>4

\* The limit on the evaluations is kept.
LEMMA EvaluationsStep ==
    ASSUME ArrayInv, PartsInv, WithinLimit, [Next]_vars
    PROVE  WithinLimit'
<1>0. /\ f \in Int /\ fprev \in Int /\ diff \in Int /\ nfvals \in Nat /\ nfvals <= nfmax /\ nfmax \in Nat
      /\ Seeking
  BY TolminAssumption DEF WithinLimit, PartsInv
<1>1. CASE StartMinfun
  <2>1. x \in Inside /\ pc = "start" /\ pc' = "conres" /\ caller = "minfun" /\ caller' = caller
    BY <1>1, PointsInside DEF StartMinfun, PartsInv, Seeking
  <2>2. f' \in Int
    BY <1>0, <1>1, <2>1, FgcalcType DEF StartMinfun
  <2>3. fprev' \in Int /\ diff' \in Int
    BY <1>0, <1>1, <2>2 DEF StartMinfun, StartValue
  <2>4. nfvals < nfmax
    BY <2>1 DEF WithinLimit
  <2>5. nfvals' \in Nat /\ nfvals' <= nfmax
    BY <1>0, <1>1, <2>4 DEF StartMinfun
  <2>6. QED
    BY <2>1, <2>2, <2>3, <2>5 DEF WithinLimit
<1>2. CASE Lsrch
  <2>1. PICK s \in 0 .. stepcb : IF s = 0 THEN UNCHANGED <<f, g>> ELSE Fgcalc(Along(s))
    BY <1>2 DEF Lsrch
  <2>2. Along(s) \in Inside
    BY <1>2, LsrchGoes, PointsInside DEF Going, Lsrch
  <2>3. f' \in Int
    BY <1>0, <2>1, <2>2, FgcalcType
  <2>4. nfvals' \in Nat /\ nfvals' <= nfmax
    BY <1>2, LsrchCounts
  <2>5. caller' = "minfun" /\ pc' \in {"conres", "reduce"} /\ fprev' = fprev /\ diff' = diff
    BY <1>0, <1>2 DEF Lsrch, Seeking
  <2>6. QED
    BY <1>0, <2>3, <2>4, <2>5 DEF WithinLimit
<1>3. CASE GoOn
  <2>1. /\ f' = f /\ nfvals' = nfvals /\ fprev' = f /\ diff' = fprev - f /\ caller = "minfun"
        /\ caller' = caller /\ (pc' = "lsrch" => nfvals < nfmax) /\ pc' \in {"reduce", "lsrch"}
    BY <1>0, <1>3 DEF GoOn, LimitReached, point, Seeking
  <2>2. QED
    BY <1>0, <2>1 DEF WithinLimit
<1>4. CASE ~ (StartMinfun \/ Lsrch \/ GoOn)
  <2>1. f' = f /\ nfvals' = nfvals /\ fprev' = fprev /\ diff' = diff
    BY <1>4, WhoEvaluates, WhoCompares
  <2>2. ASSUME pc' # "return", caller' # "minfun" \/ pc' \in {"start", "lsrch", "adjtol"}
        PROVE  nfvals < nfmax
    <3> SUFFICES \/ pc # "return" /\ (caller # "minfun" \/ pc \in {"start", "lsrch", "adjtol"})
                 \/ nfvals < nfmax
      BY DEF WithinLimit
    <3>1. CASE UNCHANGED vars
      BY <2>2, <3>1 DEF vars
    <3>2. CASE Initialise
      BY <2>2, <3>2 DEF Initialise, CheckBounds, FixVariable, FixEnds, AddBounds, BoundsAdded, Getfes,
           ArrayInv, Types, PartsInv, InMinfun, Parting
    <3>3. CASE Satact
      BY <2>2, <3>3 DEF Satact, ShiftActive, FlagActive, ActiveChecked, DeleteFlagged, FlaggedDeleted
    <3>4. CASE Conres
      BY <2>2, <3>4 DEF Conres, StartConres, PartActive, PartSatisfied, PartViolated, Parted
    <3>5. CASE Getd
      BY <2>2, <3>5 DEF Getd, GetdDrops, GetdKeeps, NoDirection, DirectionFound, AddDegenerate,
           SdegenDrops, SdegenKeeps
    <3>6. CASE Bound
      BY <2>2, <3>6 DEF Bound, Stepbd, PassThrough, StepEnds, AfterConres
    <3>7. CASE Feasible
      <4>1. CASE FeasibilityStep
        BY <1>0, <4>1 DEF FeasibilityStep, Seeking
      <4>2. CASE Stuck \/ Adjtol \/ BoundsDone \/ ConstraintsDone
        BY <2>2, <4>2 DEF Stuck, Adjtol, BoundsDone, ConstraintsDone, Getfes, PartsInv, InMinfun, Parting
      <4>3. QED
        BY <3>7, <4>1, <4>2 DEF Feasible
    <3>8. CASE Minimise
      BY <1>0, <1>4, <2>2, <3>8 DEF Minimise, StopMinfun, ReduceTol, Seeking
    <3>9. QED
      BY <3>1, <3>2, <3>3, <3>4, <3>5, <3>6, <3>7, <3>8 DEF Next
  <2>3. QED
    BY <1>0, <2>1, <2>2 DEF WithinLimit
<1>5. QED
  BY <1>1, <1>2, <1>3, <1>4

\* The limit on the evaluations is met at all times.
LEMMA EvaluationsAlways == Spec => []WithinLimit
<1>1. Init => WithinLimit
  BY TolminAssumption DEF Init, WithinLimit
<1>2. ArrayInv /\ PartsInv /\ WithinLimit /\ [Next]_vars => WithinLimit'
  BY EvaluationsStep
<1>3. QED
  BY <1>1, <1>2, ArrayAlways, PartsAlways, PTL DEF Spec

\* Every variable keeps its type: the array never holds more than its 2N places,
\* no more than N constraints are active, and the evaluations stay within nfmax.
THEOREM TolminTypes == Spec => []TypeOK
<1>1. ArrayInv /\ PartsInv /\ WithinLimit => TypeOK
  <2> SUFFICES ASSUME ArrayInv, PartsInv, WithinLimit PROVE TypeOK
    OBVIOUS
  <2>1. x \in Points /\ g \in Directions
    BY DEF PartsInv
  <2>2. f \in Int /\ fprev \in Int /\ diff \in Int /\ nfvals \in 0 .. nfmax
    BY TolminAssumption DEF WithinLimit
  <2>3. iact \in Seq(Constraints) /\ Len(iact) <= 2 * N /\ nact <= N /\ N \in Nat
    <3>1. /\ iact \in Seq(Constraints) /\ OneToOne(iact) /\ nact \in 0 .. Len(iact)
          /\ \A p, q \in 1 .. nact : Var(iact[p]) = Var(iact[q]) => p = q
      BY ArrayFacts DEF ActivesDiffer
    <3>2. Len(iact) <= 2 * N
      BY <3>1, FewPlaces
    <3>3. nact <= N
      BY <3>1, FewActive
    <3>4. QED
      BY <3>1, <3>2, <3>3, Bounds
  <2>4. {nact, msat, mdeg, msatk} \subseteq 0 .. Len(iact) /\ indxbd \in 0 .. Len(iact) /\ meql \in 0 .. N
    BY <2>3, ArrayFacts
  <2>5. /\ bres \in [Constraints -> Int] /\ seeking \in BOOLEAN /\ moved \in BOOLEAN /\ d \in Directions
        /\ ddotg \in Int /\ stepcb \in Int /\ sumres \in Int /\ sumrsk \in Int
        /\ tol \in {"coarse", "fine", "exact"} /\ flagged \subseteq Constraints
        /\ diffset \in BOOLEAN /\ info \in 0 .. 8
    BY DEF ArrayInv, Types
  <2>6. {ddotg, stepcb, sumres, sumrsk} \subseteq Int /\ {fprev, diff} \subseteq Int
    BY <2>2, <2>5
  <2>7. QED
    BY <2>1, <2>2, <2>3, <2>4, <2>5, <2>6 DEF TypeOK
<1>2. QED
  BY <1>1, ArrayAlways, PartsAlways, EvaluationsAlways, PTL
-----------------------------------------------------------------------------
(* The signs of the multipliers.                                           *)

\* A variable is free if no active constraint is about it.
LEMMA FreeIf ==
    ASSUME NEW v \in Vars
    PROVE  v \in FreeVars <=> \A p \in 1 .. nact : Var(iact[p]) # v
BY DEF FreeVars, Active

\* With as many active constraints as variables none of them is free.
LEMMA AllActive ==
    ASSUME ArrayInv, nact = N
    PROVE  ~ Reducible
<1> SUFFICES ASSUME NEW v \in Vars, v \in FreeVars PROVE FALSE
  BY DEF Reducible, FreeVars
<1> DEFINE h == [p \in 1 .. nact |-> Var(iact[p])]
           S == Vars \ {v}
<1>1. N \in Nat /\ N >= 1 /\ \A p \in 1 .. nact : Var(iact[p]) \in S
  <2>1. \A p \in 1 .. nact : Var(iact[p]) # v
    BY FreeIf
  <2>2. \A p \in 1 .. nact : p \in 1 .. Len(iact)
    BY ArrayFacts
  <2>3. \A p \in 1 .. nact : Var(iact[p]) \in Vars
    BY <2>2, ArrayFacts
  <2>4. QED
    BY <2>1, <2>3, Bounds
<1>2. h \in [1 .. nact -> S]
  BY <1>1
<1>3. IsFiniteSet(1 .. nact) /\ Cardinality(1 .. nact) = N
  <2>1. 1 \in Int /\ nact \in Int
    BY <1>1
  <2>2. IsFiniteSet(1 .. nact) /\ Cardinality(1 .. nact) = IF 1 > nact THEN 0 ELSE nact - 1 + 1
    BY <2>1, FS_Interval
  <2>3. QED
    BY <1>1, <2>2
<1>4. IsFiniteSet(S) /\ Cardinality(S) = N - 1
  <2>1. 1 \in Int /\ N \in Int
    BY <1>1
  <2>2. IsFiniteSet(1 .. N) /\ Cardinality(1 .. N) = IF 1 > N THEN 0 ELSE N - 1 + 1
    BY <2>1, FS_Interval
  <2>3. IsFiniteSet(Vars) /\ Cardinality(Vars) = N
    BY <1>1, <2>2 DEF Vars
  <2>4. IsFiniteSet(S) /\ Cardinality(S) = Cardinality(Vars) - 1
    BY <2>3, FS_RemoveElement
  <2>5. QED
    BY <2>3, <2>4
<1>5. Cardinality(S) < Cardinality(1 .. nact)
  BY <1>1, <1>3, <1>4
<1>6. \E p, q \in 1 .. nact : p # q /\ h[p] = h[q]
  <2> DEFINE P == 1 .. nact
  <2>1. IsFiniteSet(P) /\ IsFiniteSet(S) /\ Cardinality(S) < Cardinality(P) /\ h \in [P -> S]
    BY <1>2, <1>3, <1>4, <1>5
  <2>2. \E p, q \in P : p # q /\ h[p] = h[q]
    <3> HIDE DEF h, S, P
    <3> QED BY <2>1, FS_PigeonHole
  <2>3. QED
    BY <2>2
<1>7. QED
  BY <1>6, ArrayFacts DEF ActivesDiffer

\* getd ends, and minfun looks at the multipliers, with acceptable signs or with
\* something left to reduce.
Signs ==
    /\ pc = "interpolate" => (WrongSign(nact) => Reducible)
    /\ pc \in {"sdegen", "kt"} => Reducible \/ \A p \in meql + 1 .. nact : ~ WrongSign(p)
    /\ pc \in {"stepbd", "pass"} => Reducible

\* The same active constraints have the same multipliers.
LEMMA SameSigns ==
    ASSUME g' = g, nact' = nact, \A p \in 1 .. nact : iact'[p] = iact[p]
    PROVE  /\ Reducible' <=> Reducible
           /\ \A p \in 1 .. nact : WrongSign(p)' <=> WrongSign(p)
<1>1. Active' = Active
  BY DEF Active
<1>2. FreeVars' = FreeVars
  BY <1>1 DEF FreeVars
<1>3. QED
  BY <1>2 DEF Reducible, WrongSign, Slope

\* A constraint that a direction would violate does not hold up every descent.
LEMMA AddedSign ==
    ASSUME ArrayInv, PartsInv, AddDegenerate, WrongSign(nact)'
    PROVE  Reducible'
<1>a. PICK e \in Directions : \E p \in Violates(e) : Direction(e) /\ iact' = Addcon(iact, nact, p)
  BY DEF AddDegenerate
<1>1. PICK p \in Violates(e) : Direction(e) /\ iact' = Addcon(iact, nact, p)
  BY <1>a
<1> DEFINE j == iact[p]
<1>2. /\ pc = "sdegen" /\ nact' = nact + 1 /\ g' = g /\ nact \in Nat
  BY ArrayFacts DEF AddDegenerate, point
<1>3. /\ p \in nact + 1 .. Len(iact) /\ nact + 1 \in 1 .. Len(iact) /\ j \in Constraints
      /\ Slope(j, e) > 0 /\ Len(iact) \in Nat
  BY <1>1, <1>2, ViolatesFree, ArrayFacts DEF Violates
<1>4. iact'[nact + 1] = j /\ \A r \in 1 .. nact : iact'[r] = iact[r]
  <2>1. \A r \in 1 .. Len(iact) :
           iact'[r] = IF r = nact + 1 THEN iact[p] ELSE IF r = p THEN iact[nact + 1] ELSE iact[r]
    BY <1>1, <1>3, AddconPlaces
  <2>2. \A r \in 1 .. nact : r \in 1 .. Len(iact) /\ r # nact + 1 /\ r # p
    BY <1>2, <1>3
  <2>3. QED
    BY <1>3, <2>1, <2>2
<1>5. Slope(j, g) > 0
  BY <1>2, <1>4 DEF WrongSign, Slope
<1>6. PICK v \in Vars : g[v] # 0 /\ e[v] = -g[v]
  BY <1>1, DownhillMoves DEF Direction, Downhill, PartsInv
<1>7. g \in Directions /\ g[v] \in {-1, 0, 1}
  BY DEF PartsInv, Directions
<1>8. v \in FreeVars
  BY <1>1, <1>6, <1>7 DEF Direction
<1>9. v # Var(j)
  <2> SUFFICES ASSUME v = Var(j) PROVE FALSE
    OBVIOUS
  <2>1. /\ Slope(j, e) = IF j <= N THEN -e[v] ELSE e[v]
        /\ Slope(j, g) = IF j <= N THEN -g[v] ELSE g[v]
    BY <1>3, <1>7, SlopeOf
  <2>2. QED
    BY <1>3, <1>5, <1>6, <1>7, <2>1
<1>10. \A r \in 1 .. nact + 1 : Var(iact'[r]) # v
  <2>1. \A r \in 1 .. nact : Var(iact'[r]) # v
    BY <1>4, <1>8, FreeIf
  <2>2. \A r \in 1 .. nact + 1 : r \in 1 .. nact \/ r = nact + 1
    BY <1>2
  <2>3. QED
    BY <1>4, <1>9, <2>1, <2>2
<1>11. v \in FreeVars'
  BY <1>2, <1>10 DEF FreeVars, Active
<1>12. QED
  BY <1>2, <1>6, <1>11 DEF Reducible

\* A constraint that is given up leaves the others as free as they were.
LEMMA DroppedSign ==
    ASSUME ArrayInv, SdegenDrops
    PROVE  /\ WrongSign(nact)' <=> WrongSign(nact)
           /\ Reducible => Reducible'
<1>1. PICK p \in meql + 1 .. nact - 1 : iact' = Delcon(iact, nact, p)
  BY DEF SdegenDrops
<1>2. g' = g /\ nact' = nact - 1 /\ nact \in Nat /\ meql \in Nat /\ nact <= Len(iact) /\ Len(iact) \in Nat
  BY ArrayFacts DEF SdegenDrops, point
<1>3. p \in 1 .. nact /\ nact \in 1 .. Len(iact) /\ nact - 1 \in 1 .. Len(iact)
  BY <1>2
<1>4. iact'[nact - 1] = iact[nact]
  <2>1. DOMAIN iact = 1 .. Len(iact)
    BY ArrayFacts, LenProperties
  <2>2. /\ nact - 1 \in DOMAIN iact /\ ~ (nact - 1 < p) /\ ~ (nact - 1 > nact) /\ nact - 1 # nact
        /\ nact - 1 + 1 = nact
    BY <1>2, <1>3, <2>1
  <2>3. QED
    BY <1>1, <2>2 DEF Delcon
<1>5. \A s \in 1 .. nact : \E q \in 1 .. nact : iact'[s] = iact[q]
  <2>1. iact \in Seq(Constraints) /\ ActivesDiffer(iact, nact)
    BY ArrayFacts
  <2>2. QED
    BY Zenon, <1>1, <1>3, <2>1, DelconAmong
<1>6. Active' \subseteq Active
  <2>1. \A s \in 1 .. nact' : s \in 1 .. nact
    BY <1>2
  <2>2. \A s \in 1 .. nact' : \E q \in 1 .. nact : iact'[s] = iact[q]
    BY <1>5, <2>1
  <2>3. QED
    BY <2>2 DEF Active
<1>7. FreeVars \subseteq FreeVars'
  BY <1>6 DEF FreeVars
<1>8. QED
  BY <1>2, <1>4, <1>7 DEF Reducible, WrongSign, Slope

\* The signs are as they should be.
LEMMA SignsStep ==
    ASSUME ArrayInv, PartsInv, Signs, [Next]_vars
    PROVE  Signs'
<1> USE DEF mtot
<1>1. ASSUME pc' \in {"interpolate", "sdegen"} PROVE Signs'
  <2>1. CASE UNCHANGED vars
    BY <2>1 DEF vars, set, point, Signs, WrongSign, Reducible, FreeVars, Active, Slope
  <2>2. CASE Parted \/ GetdDrops
    BY <1>1, <2>2 DEF Parted, GetdDrops
  <2>3. CASE GetdKeeps
    <3>1. /\ pc' = "sdegen" /\ g' = g /\ nact' = nact /\ iact' = iact /\ meql' = meql
          /\ Reducible \/ \A p \in meql + 1 .. nact : ~ WrongSign(p)
      BY <2>3 DEF GetdKeeps, set, point
    <3>2. Reducible' \/ \A p \in meql' + 1 .. nact' : ~ WrongSign(p)'
      BY <3>1 DEF Reducible, FreeVars, Active, WrongSign, Slope
    <3>3. QED
      BY <3>1, <3>2 DEF Signs
  <2>4. CASE AddDegenerate
    <3>1. pc' = "interpolate"
      BY <2>4 DEF AddDegenerate
    <3>2. QED
      BY <2>4, <3>1, AddedSign DEF Signs
  <2>5. CASE SdegenDrops
    <3>1. pc = "interpolate" /\ pc' = pc
      BY <2>5 DEF SdegenDrops
    <3>2. QED
      BY <2>5, <3>1, DroppedSign DEF Signs
  <2>6. CASE SdegenKeeps
    <3>1. /\ pc' = "sdegen" /\ g' = g /\ nact' = nact /\ iact' = iact /\ meql' = meql
          /\ pc = "interpolate"
          /\ Reducible \/ \A p \in meql + 1 .. nact - 1 : ~ WrongSign(p)
      BY <2>6 DEF SdegenKeeps, set, point
    <3>2. Reducible \/ ~ WrongSign(nact)
      BY <3>1 DEF Signs
    <3>3. \A p \in meql + 1 .. nact : p = nact \/ p \in meql + 1 .. nact - 1
      BY ArrayFacts
    <3>4. Reducible \/ \A p \in meql + 1 .. nact : ~ WrongSign(p)
      BY <3>1, <3>2, <3>3
    <3>5. Reducible' \/ \A p \in meql' + 1 .. nact' : ~ WrongSign(p)'
      BY <3>1, <3>4 DEF Reducible, FreeVars, Active, WrongSign, Slope
    <3>6. QED
      BY <3>1, <3>5 DEF Signs
  <2>7. QED
    BY <1>1, <2>1, <2>2, <2>3, <2>4, <2>5, <2>6, WhoSeeks
<1>2. ASSUME pc' \in {"stepbd", "pass", "kt"} PROVE Signs'
  <2>1. CASE UNCHANGED vars
    BY <2>1 DEF vars, set, point, Signs, WrongSign, Reducible, FreeVars, Active, Slope
  <2>2. CASE DirectionFound
    <3>1. pc' = "stepbd" /\ g' = g /\ nact' = nact /\ iact' = iact /\ Reducible
      BY <2>2 DEF DirectionFound, set, point
    <3>2. Reducible'
      BY <3>1 DEF Reducible, FreeVars, Active
    <3>3. QED
      BY <3>1, <3>2 DEF Signs
  <2>3. CASE NoDirection
    <3>1. /\ pc = "sdegen" /\ pc' \in {"kt", "step"} /\ g' = g /\ nact' = nact /\ iact' = iact
          /\ meql' = meql
      BY <2>3 DEF NoDirection, set, point
    <3>2. Reducible \/ \A p \in meql + 1 .. nact : ~ WrongSign(p)
      BY <3>1 DEF Signs
    <3>3. Reducible' \/ \A p \in meql' + 1 .. nact' : ~ WrongSign(p)'
      BY <3>1, <3>2 DEF Reducible, FreeVars, Active, WrongSign, Slope
    <3>4. QED
      BY <3>1, <3>3 DEF Signs
  <2>4. CASE Stepbd \/ StepEnds
    <3>1. pc \in {"stepbd", "pass"} /\ g' = g /\ nact' = nact /\ iact' = iact
      BY <2>4 DEF Stepbd, StepEnds, set, point
    <3>2. Reducible'
      BY <3>1 DEF Signs, Reducible, FreeVars, Active
    <3>3. QED
      BY <1>2, <3>2 DEF Signs
  <2>5. CASE PassThrough
    <3>1. /\ indxbd \in msat + 1 .. Len(iact) /\ pc = "pass" /\ nact <= mdeg /\ mdeg <= msat
          /\ nact' = nact
          /\ \A r \in 1 .. Len(iact) : iact'[r] = IF r = indxbd THEN iact[msat + 1]
                                 ELSE IF r = msat + 1 THEN iact[indxbd] ELSE iact[r]
      BY <2>5, PassedThrough
    <3>2. g' = g
      BY <2>5 DEF PassThrough, point
    <3>3. \A r \in 1 .. nact : r \in 1 .. Len(iact) /\ r # indxbd /\ r # msat + 1
      <4>1. nact \in Nat /\ msat \in Nat /\ nact <= msat /\ msat <= Len(iact) /\ Len(iact) \in Nat
        BY ArrayFacts
      <4>2. QED
        BY <3>1, <4>1
    <3>4. \A r \in 1 .. nact : iact'[r] = iact[r]
      BY <3>1, <3>3
    <3>5. Reducible'
      BY <3>1, <3>2, <3>4, SameSigns DEF Signs
    <3>6. QED
      BY <1>2, <3>5 DEF Signs
  <2>6. CASE GoOn \/ Parted
    BY <1>2, <2>6 DEF GoOn, Parted
  <2>7. QED
    BY <1>2, <2>1, <2>2, <2>3, <2>4, <2>5, <2>6, WhoLeads
<1>3. QED
  BY <1>1, <1>2 DEF Signs

\* The multipliers always have the signs getd promises.
LEMMA SignsAlways == Spec => []Signs
<1>1. Init => Signs
  BY DEF Init, Signs
<1>2. ArrayInv /\ PartsInv /\ Signs /\ [Next]_vars => Signs'
  BY SignsStep
<1>3. QED
  BY <1>1, <1>2, ArrayAlways, PartsAlways, PTL DEF Spec

\* Where minfun has converged, with every active constraint on its boundary, the
\* first order conditions hold.
LEMMA ConvergedIsFirstOrder ==
    ASSUME ArrayInv, PartsInv, Signs, pc = "kt", Converged, tol = "exact" \/ nact = 0
    PROVE  FirstOrder(x, g)
<1>1. ~ Reducible /\ \A p \in meql + 1 .. nact : ~ WrongSign(p)
  BY AllActive DEF Converged, Signs
<1>2. g \in Directions /\ x \in Inside /\ caller = "minfun"
  BY DEF PartsInv, Seeking, InMinfun
<1> SUFFICES ASSUME NEW v \in Vars, g[v] # 0
             PROVE  \/ g[v] > 0 /\ x[v] = Lower[v]
                    \/ g[v] < 0 /\ x[v] = Upper[v]
  BY DEF FirstOrder
<1>3. PICK p \in 1 .. nact : Var(iact[p]) = v
  BY <1>1, FreeIf DEF Reducible
<1>4. /\ p \in 1 .. Len(iact) /\ iact[p] \in Constraints /\ x \in [Vars -> Int] /\ p \in Nat
      /\ tol = "exact" /\ g[v] \in {-1, 0, 1}
  <2>1. p \in 1 .. Len(iact) /\ p \in Nat /\ nact # 0
    BY ArrayNumbers
  <2>2. iact[p] \in Constraints /\ x \in [Vars -> Int]
    BY <2>1, ArrayFacts
  <2>3. g[v] \in {-1, 0, 1}
    BY <1>2 DEF Directions
  <2>4. QED
    BY <2>1, <2>2, <2>3
<1>5. Res(iact[p], x) = 0
  <2>1. KeptTo = nact
    BY DEF KeptTo
  <2>2. QED
    BY <1>4, <2>1 DEF PartsInv, KeptActive, Kept
<1>6. /\ Res(iact[p], x) = IF iact[p] <= N THEN x[v] - Lower[v] ELSE Upper[v] - x[v]
      /\ Lower[v] \in Int /\ Upper[v] \in Int /\ x[v] \in Int
  BY <1>3, <1>4, ResType
<1>7. CASE p <= meql
  <2>1. IsFixed(v)
    BY <1>3, <1>4, <1>7 DEF ArrayInv, Distinct
  <2>2. x[v] = Lower[v] /\ x[v] = Upper[v]
    BY <1>5, <1>6, <2>1 DEF IsFixed
  <2>3. QED
    BY <1>4, <2>2
<1>8. CASE ~ (p <= meql)
  <2>1. p \in meql + 1 .. nact
    BY <1>4, <1>8, ArrayFacts
  <2>2. ~ (Slope(iact[p], g) > 0)
    BY <1>1, <2>1 DEF WrongSign
  <2>3. Slope(iact[p], g) = IF iact[p] <= N THEN -g[v] ELSE g[v]
    BY <1>2, <1>3, <1>4, SlopeOf
  <2>4. QED
    BY <1>4, <1>5, <1>6, <2>2, <2>3
<1>9. QED
  BY <1>7, <1>8
-----------------------------------------------------------------------------
(* The sum of the violations.                                              *)

\* A set of natural numbers has a least element.
LEMMA Least ==
    ASSUME NEW S \in SUBSET Nat, S # {}
    PROVE  \E m \in S : \A i \in S : m <= i
<1> DEFINE R == {p \in Nat \X Nat : p[1] < p[2]}
<1>1. OpToRel(<, Nat) = R
  BY Zenon DEF OpToRel
<1>2. IsWellFoundedOn(R, Nat)
  BY <1>1, NatLessThanWellFounded, Zenon
<1>3. PICK m \in S : \A i \in S : ~ (<<i, m>> \in R)
  <2> HIDE DEF R
  <2> QED  BY <1>2, WFMin, Zenon
<1>4. ASSUME NEW i \in S PROVE m <= i
  <2>1. i \in Nat /\ m \in Nat
    OBVIOUS
  <2>2. i < m => <<i, m>> \in R
    BY <2>1
  <2> QED  BY <1>3, <2>1, <2>2
<1> QED  BY <1>4

\* s is the sum of h over the constraints, t its partial sums.
PartialSums(h, s, t) ==
    /\ t \in [0 .. 2 * N -> Int] /\ t[0] = 0 /\ t[2 * N] = s
    /\ \A i \in Constraints : t[i] = t[i - 1] + h[i]

IsSum(h, s) == \E t \in [0 .. 2 * N -> Int] : PartialSums(h, s, t)

\* The sum of nothing but zeros.
LEMMA SumOfNone ==
    ASSUME NEW h \in [Constraints -> Int], \A j \in Constraints : h[j] = 0
    PROVE  IsSum(h, 0)
<1> DEFINE t == [i \in 0 .. 2 * N |-> 0]
<1>1. N \in Nat /\ t \in [0 .. 2 * N -> Int] /\ t[0] = 0 /\ t[2 * N] = 0
  BY Bounds
<1>2. \A i \in Constraints : t[i] = t[i - 1] + h[i]
  BY <1>1 DEF Constraints
<1>3. PartialSums(h, 0, t)
  BY <1>1, <1>2 DEF PartialSums
<1>4. QED
  BY <1>1, <1>3 DEF IsSum

\* A term that changes changes the sum by as much.
LEMMA SumChanges ==
    ASSUME NEW h \in [Constraints -> Int], NEW s \in Int, IsSum(h, s),
           NEW j \in Constraints, NEW a \in Int
    PROVE  IsSum([h EXCEPT ![j] = h[j] + a], s + a)
<1>1. PICK t \in [0 .. 2 * N -> Int] : PartialSums(h, s, t)
  BY DEF IsSum
<1> DEFINE u == [i \in 0 .. 2 * N |-> IF i < j THEN t[i] ELSE t[i] + a]
           e == [h EXCEPT ![j] = h[j] + a]
<1>2. N \in Nat /\ j \in Int /\ 1 <= j /\ j <= 2 * N
  BY Bounds DEF Constraints
<1>3. u \in [0 .. 2 * N -> Int] /\ u[0] = 0 /\ u[2 * N] = s + a
  BY <1>1, <1>2 DEF PartialSums
<1>4. ASSUME NEW i \in Constraints PROVE u[i] = u[i - 1] + e[i]
  <2>1. i \in Int /\ 1 <= i /\ i <= 2 * N /\ i \in 0 .. 2 * N /\ i - 1 \in 0 .. 2 * N
    BY <1>2 DEF Constraints
  <2>2. t[i] = t[i - 1] + h[i] /\ t[i] \in Int /\ t[i - 1] \in Int /\ h[i] \in Int
    BY <1>1, <2>1 DEF PartialSums
  <2>3. e[i] = IF i = j THEN h[i] + a ELSE h[i]
    OBVIOUS
  <2>4. u[i] = (IF i < j THEN t[i] ELSE t[i] + a) /\ u[i - 1] = IF i - 1 < j THEN t[i - 1] ELSE t[i - 1] + a
    BY <2>1
  <2>5. QED
    BY <1>2, <2>1, <2>2, <2>3, <2>4
<1> HIDE DEF u, e
<1>5. PartialSums(e, s + a, u)
  BY <1>3, <1>4 DEF PartialSums
<1>6. IsSum(e, s + a)
  BY <1>3, <1>5 DEF IsSum
<1>7. QED
  BY <1>6 DEF e

\* Sums of two are compared.
LEMMA SumsOfTwo ==
    ASSUME NEW a \in Int, NEW b \in Int, NEW c \in Int, NEW e \in Int, a <= b, c <= e
    PROVE  a + c <= b + e /\ (a < b \/ c < e => a + c < b + e)
OBVIOUS

\* Terms that are no greater, and one that is less, make a sum that is less.
LEMMA SumLess ==
    ASSUME NEW h \in [Constraints -> Int], NEW e \in [Constraints -> Int], NEW s \in Int, NEW r \in Int,
           IsSum(h, s), IsSum(e, r), \A j \in Constraints : h[j] <= e[j],
           NEW j \in Constraints, h[j] < e[j]
    PROVE  s < r
<1>1. PICK t \in [0 .. 2 * N -> Int] : PartialSums(h, s, t)
  BY DEF IsSum
<1>2. PICK u \in [0 .. 2 * N -> Int] : PartialSums(e, r, u)
  BY DEF IsSum
<1>3. N \in Nat /\ j \in Int /\ 1 <= j /\ j <= 2 * N
  BY Bounds DEF Constraints
<1> DEFINE Below(i) == t[i] <= u[i] /\ (j <= i => t[i] < u[i])
           Bad == {i \in 0 .. 2 * N : ~ Below(i)}
<1>4. Bad = {}
  <2> SUFFICES ASSUME Bad # {} PROVE FALSE
    OBVIOUS
  <2>1. PICK i \in Bad : \A n \in Bad : i <= n
    <3>1. Bad \in SUBSET Nat
      BY <1>3
    <3>2. QED
      BY <3>1, Least
  <2>2. i \in 0 .. 2 * N /\ ~ Below(i)
    OBVIOUS
  <2>3. i # 0
    BY <1>1, <1>2, <1>3, <2>2 DEF PartialSums
  <2>4. i \in Constraints /\ i \in Int /\ i - 1 \in 0 .. 2 * N /\ ~ (i <= i - 1)
    BY <1>3, <2>2, <2>3 DEF Constraints
  <2>5. Below(i - 1)
    BY <2>1, <2>4
  <2>6. /\ t[i] = t[i - 1] + h[i] /\ u[i] = u[i - 1] + e[i] /\ h[i] <= e[i] /\ (i = j => h[i] < e[i])
        /\ t[i - 1] \in Int /\ u[i - 1] \in Int /\ h[i] \in Int /\ e[i] \in Int
    BY <1>1, <1>2, <2>4 DEF PartialSums
  <2>7. Below(i)
    <3>1. t[i - 1] <= u[i - 1] /\ (j <= i - 1 => t[i - 1] < u[i - 1])
      BY <2>5
    <3>2. j <= i => i = j \/ j <= i - 1
      BY <1>3, <2>4
    <3>3. /\ t[i] <= u[i]
          /\ t[i - 1] < u[i - 1] \/ h[i] < e[i] => t[i] < u[i]
      <4> HIDE DEF Below
      <4>1. QED
        BY <2>6, <3>1, SumsOfTwo
    <3>4. QED
      BY <2>6, <3>1, <3>2, <3>3
  <2>8. QED
    BY <2>2, <2>7
<1>5. 2 * N \in 0 .. 2 * N
  BY <1>3
<1>6. Below(2 * N)
  BY <1>4, <1>5
<1>7. QED
  BY <1>1, <1>2, <1>3, <1>6 DEF PartialSums

\* By how much y violates the constraints that are not in A.
Violations(y, A) ==
    [j \in Constraints |-> IF Res(j, y) < 0 /\ j \notin A THEN -Res(j, y) ELSE 0]

\* Residuals and violations are integers.
LEMMA ViolationsType ==
    ASSUME NEW y \in [Vars -> Int], NEW A
    PROVE  /\ Violations(y, A) \in [Constraints -> Int]
           /\ \A j \in Constraints : /\ Res(j, y) \in Int
                                     /\ Violations(y, A)[j] =
                                           IF Res(j, y) < 0 /\ j \notin A THEN -Res(j, y) ELSE 0
<1>1. \A j \in Constraints : Res(j, y) \in Int
  BY ResType
<1>2. QED
  BY <1>1 DEF Violations

\* sumres is the sum of what conres has seen, and less than the sum that the step
\* before began with.
Sums ==
    caller # "minfun" =>
    /\ pc = "partition" => IsSum(Violations(x, Unseen), sumres)
    /\ pc \in (Parting \ {"partition"}) \union {"step"} => IsSum(Violations(x, {}), sumres)
    /\ pc \in Parting \union {"conres", "step"} =>
          sumrsk = 0 \/ \A s \in Int : IsSum(Violations(x, {}), s) => s < sumrsk

\* Nothing that is violated has been seen yet.
LEMMA NoneSeen ==
    ASSUME ArrayInv, PartsInv, StartConres, NEW j \in Constraints, Res(j, x) < 0
    PROVE  j \in Unseen'
<1>1. pc = "conres" /\ iact' = iact /\ k' = meql + 1
  BY DEF StartConres
<1>2. /\ pc \notin Filling /\ info # 4 /\ (IsFixed(Var(j)) => x[Var(j)] = Lower[Var(j)]) /\ Var(j) \in Vars
      /\ x \in [Vars -> Int]
  BY <1>1, NotFilling, Bounds, ArrayFacts DEF Filling
<1>3. ~ IsFixed(Var(j))
  BY <1>2, ResType DEF IsFixed
<1>4. PICK p \in meql + 1 .. Len(iact) : iact[p] = j
  BY <1>2, <1>3, PlacesOf, Bounds
<1>5. Unseen' = {iact[q] : q \in meql + 1 .. Len(iact)}
  BY <1>1 DEF Unseen
<1>6. QED
  BY <1>4, <1>5

\* conres adds up the violations.
LEMMA SumresStep ==
    ASSUME ArrayInv, PartsInv, Sums, [Next]_vars, caller' # "minfun"
    PROVE  /\ pc' = "partition" => IsSum(Violations(x, Unseen)', sumres')
           /\ pc' \in (Parting \ {"partition"}) \union {"step"} => IsSum(Violations(x, {})', sumres')
<1> USE DEF mtot
<1>0. x \in [Vars -> Int] /\ Seeking /\ Len(iact) \in Nat /\ k \in Nat /\ sumres \in Int
  BY ArrayFacts DEF PartsInv, ArrayInv, Types
<1>1. CASE UNCHANGED vars
  BY <1>1 DEF vars, set, point, residuals, Sums, Violations, Res, Unseen
<1>2. CASE StartConres
  <2>1. pc = "conres" /\ pc' = "partition" /\ x' = x /\ sumres' = 0
    <3>1. pc = "conres" /\ caller # "minfun"
      BY <1>2 DEF StartConres
    <3>2. msat < Len(iact)
      BY <1>0, <3>1 DEF Seeking
    <3>3. QED
      BY <1>2, <3>1, <3>2 DEF StartConres
  <2>2. \A j \in Constraints : Violations(x, Unseen')[j] = 0
    BY <1>0, <1>2, NoneSeen, ViolationsType
  <2>3. IsSum(Violations(x, Unseen'), 0)
    BY <1>0, <2>2, SumOfNone, ViolationsType
  <2>4. Violations(x, Unseen)' = Violations(x, Unseen')
    BY <2>1 DEF Violations, Res
  <2>5. QED
    BY <2>1, <2>3, <2>4
<1>3. CASE PartActive \/ PartSatisfied
  <2>1. /\ pc = "partition" /\ pc' = "partition" /\ x' = x /\ caller' = caller /\ sumres' = sumres
        /\ \A j : j \in Unseen' <=> j \in Unseen /\ j # iact[k]
        /\ Res(iact[k], x) >= 0 /\ iact[k] \in Constraints
    BY <1>3, SeenSatisfied
  <2>2. \A j \in Constraints : Res(j, x) < 0 /\ j \notin Unseen' <=> Res(j, x) < 0 /\ j \notin Unseen
    <3>1. Res(iact[k], x) \in Int
      BY <1>0, <2>1, ResType
    <3>2. ~ (Res(iact[k], x) < 0)
      BY <2>1, <3>1
    <3>3. QED
      BY <2>1, <3>2
  <2>3. Violations(x, Unseen)' = Violations(x, Unseen)
    BY <2>1, <2>2 DEF Violations, Res
  <2>4. QED
    BY <2>1, <2>3 DEF Sums
<1>4. CASE PartViolated
  <2> DEFINE j == iact[k]
             V == Violations(x, Unseen)
  <2>1. /\ pc = "partition" /\ pc' = "partition" /\ x' = x /\ caller' = caller /\ iact' = iact
        /\ k \in 1 .. Len(iact) /\ k' = k + 1 /\ sumres' = sumres - Res(j, x)
        /\ ~ CountsAsSatisfied(k)
    BY <1>0, <1>4, ArrayFacts DEF PartViolated, set
  <2>2. j \in Constraints /\ Res(j, x) \in Int /\ Res(j, x) < 0
    <3>1. j \in Constraints
      BY <2>1, ArrayFacts
    <3>2. Res(j, x) \in Int
      BY <1>0, <3>1, ResType
    <3>3. ~ (Res(j, x) >= 0)
      BY <2>1 DEF CountsAsSatisfied
    <3>4. QED
      BY <3>1, <3>2, <3>3
  <2>3. /\ j \in Unseen /\ \A i : i \in Unseen' <=> i \in Unseen /\ i # j
    <3>1. j \in Unseen
      BY <2>1 DEF Unseen
    <3>2. pc = "partition" /\ k \in 1 .. Len(iact) /\ k' = k + 1 /\ iact' = iact
      BY <2>1
    <3>3. QED
      BY <3>1, <3>2, UnseenStep
  <2>4. V \in [Constraints -> Int] /\ V[j] = 0 /\ IsSum(V, sumres)
    BY <1>0, <2>1, <2>2, <2>3, ViolationsType DEF Sums
  <2>5. IsSum([V EXCEPT ![j] = V[j] + -Res(j, x)], sumres + -Res(j, x))
    <3> HIDE DEF V
    <3>1. -Res(j, x) \in Int
      BY <2>2
    <3>2. QED
      BY <1>0, <2>2, <2>4, <3>1, SumChanges
  <2>6. Violations(x, Unseen') = [V EXCEPT ![j] = V[j] + -Res(j, x)]
    <3>1. \A i \in Constraints :
             (IF Res(i, x) < 0 /\ i \notin Unseen' THEN -Res(i, x) ELSE 0) =
                IF i = j THEN V[j] + -Res(j, x) ELSE V[i]
      BY <1>0, <2>2, <2>3, <2>4, ViolationsType
    <3>2. QED
      BY <2>4, <3>1 DEF Violations
  <2>7. Violations(x, Unseen)' = Violations(x, Unseen')
    BY <2>1 DEF Violations, Res
  <2>8. sumres' = sumres + -Res(j, x)
    BY <1>0, <2>1, <2>2
  <2>9. QED
    BY <2>1, <2>5, <2>6, <2>7, <2>8
<1>5. CASE Parted
  <2>1. /\ pc = "partition" /\ pc' \in {"getd", "step"} /\ x' = x /\ sumres' = sumres /\ caller' = caller
        /\ k > Len(iact)
    BY <1>5 DEF Parted, point, residuals
  <2>2. Unseen = {}
    BY <1>0, <2>1 DEF Unseen
  <2>3. IsSum(Violations(x, {}), sumres)
    BY <2>1, <2>2 DEF Sums
  <2>4. Violations(x, {})' = Violations(x, {})
    BY <2>1 DEF Violations, Res
  <2>5. QED
    BY <2>1, <2>3, <2>4
<1>6. CASE Getd \/ Bound
  <2>1. /\ x' = x /\ sumres' = sumres /\ caller' = caller /\ pc \in Parting \ {"partition"}
        /\ pc' # "partition"
    BY <1>6 DEF Getd, GetdDrops, GetdKeeps, NoDirection, DirectionFound, AddDegenerate, SdegenDrops,
                SdegenKeeps, Bound, Stepbd, PassThrough, StepEnds, AfterConres, Parting, point, residuals
  <2>2. Violations(x, {})' = Violations(x, {})
    BY <2>1 DEF Violations, Res
  <2>3. QED
    BY <2>1, <2>2 DEF Sums
<1>7. CASE Initialise \/ Satact \/ Feasible \/ Minimise
  <2>1. pc' \notin Parting \union {"step"}
    BY <1>7 DEF Initialise, Satact, Feasible, Minimise, CheckBounds, FixVariable, FixEnds, AddBounds,
         BoundsAdded, ShiftActive, FlagActive, ActiveChecked, DeleteFlagged, FlaggedDeleted,
         FeasibilityStep, Stuck, Adjtol, BoundsDone, ConstraintsDone, StartMinfun,
         StopMinfun, GoOn, Lsrch, ReduceTol, Getfes, Parting
  <2>2. QED
    BY <2>1 DEF Parting
<1>8. QED
  BY <1>1, <1>2, <1>3, <1>4, <1>5, <1>6, <1>7 DEF Next, Conres
\* A step of getfes violates nothing more, and something less.
LEMMA StepLessens ==
    ASSUME ArrayInv, PartsInv, pc = "step", stepcb > 0,
           NEW s \in Int, IsSum(Violations(Along(stepcb), {}), s),
           NEW r \in Int, IsSum(Violations(x, {}), r)
    PROVE  s < r
<1> DEFINE y == Along(stepcb)
<1>1. /\ Going /\ Stepping /\ caller # "minfun" /\ x \in [Vars -> Int] /\ d \in Directions /\ stepcb \in Nat
      /\ stepcb \in Int /\ g \in Directions
  BY ArrayFacts DEF Going, Stepping, PartsInv, Seeking
<1>2. y \in [Vars -> Int]
  BY <1>1, AlongType
<1>3. ASSUME NEW j \in Constraints
      PROVE  /\ Res(j, x) \in Int /\ Res(j, y) \in Int /\ Slope(j, d) \in {-1, 0, 1}
             /\ Slope(j, d) = 1 => Res(j, y) >= 0
             /\ Slope(j, d) = 0 => Res(j, y) = Res(j, x)
             /\ Slope(j, d) = -1 => Res(j, y) = Res(j, x) + stepcb
  <2> DEFINE v == Var(j)
  <2>1. /\ Res(j, x) \in Int /\ Slope(j, d) \in {-1, 0, 1}
        /\ Res(j, y) = IF Slope(j, d) = 1 THEN Res(j, x) - stepcb
                       ELSE IF Slope(j, d) = -1 THEN Res(j, x) + stepcb ELSE Res(j, x)
    BY <1>1, ResAlong
  <2>2. /\ v \in Vars /\ x[v] \in Int /\ Lower[v] \in Int /\ Upper[v] \in Int
        /\ Res(j, x) = IF j <= N THEN x[v] - Lower[v] ELSE Upper[v] - x[v]
        /\ Slope(j, d) = IF j <= N THEN -d[v] ELSE d[v]
        /\ d[v] \in {-1, 0, 1}
    BY <1>1, Bounds, ResType, SlopeOf DEF Directions
  <2>3. /\ d[v] = 1 => x[v] + stepcb <= Upper[v]
        /\ d[v] = -1 => x[v] - stepcb >= Lower[v]
    BY <1>1, <2>2 DEF PartsInv, Arriving
  <2>4. Slope(j, d) = 1 => stepcb <= Res(j, x)
    BY <1>1, <2>2, <2>3
  <2>5. QED
    BY <1>1, <2>1, <2>4
<1>4. PICK v \in Vars : g[v] # 0 /\ d[v] = -g[v]
  BY <1>1 DEF PartsInv, Descending
<1>5. g[v] = Uphill(v, {})
  BY <1>1 DEF PartsInv, Seeking
<1>6. PICK j \in Constraints : Res(j, x) < 0 /\ Slope(j, d) = -1
  <2>1. /\ x[v] \in Int /\ Lower[v] \in Int /\ Upper[v] \in Int
        /\ Res(v, x) = x[v] - Lower[v] /\ Res(N + v, x) = Upper[v] - x[v]
    BY <1>1, ResOf
  <2>2. v \in Constraints /\ N + v \in Constraints /\ Slope(v, d) = -d[v] /\ Slope(N + v, d) = d[v]
    BY Bounds DEF Slope
  <2>3. CASE x[v] < Lower[v]
    <3>1. g[v] = -1
      BY <1>5, <2>3 DEF Uphill
    <3>2. d[v] = 1
      <4>1. d[v] = -g[v] /\ g[v] \in Int
        BY <1>4, <3>1
      <4>2. g[v] + 1 = 0
        BY <3>1
      <4>3. QED
        BY <4>1, <4>2
    <3>3. Slope(v, d) = -1
      BY <2>2, <3>2
    <3>4. Res(v, x) < 0
      BY <2>1, <2>3
    <3>5. QED
      BY <2>2, <3>3, <3>4
  <2>4. CASE ~ (x[v] < Lower[v])
    <3>1. x[v] > Upper[v] /\ g[v] = 1
      BY <1>4, <1>5, <2>4 DEF Uphill
    <3>2. Res(N + v, x) < 0 /\ Slope(N + v, d) = -1
      BY <1>4, <2>1, <2>2, <3>1
    <3>3. QED
      BY <2>2, <3>2
  <2>5. QED
    BY <2>3, <2>4
<1> DEFINE h == Violations(y, {})
           e == Violations(x, {})
<1>7. h \in [Constraints -> Int] /\ e \in [Constraints -> Int]
  BY <1>1, <1>2, ViolationsType
<1>8. ASSUME NEW i \in Constraints
      PROVE  /\ h[i] = IF Res(i, y) < 0 THEN -Res(i, y) ELSE 0
             /\ e[i] = IF Res(i, x) < 0 THEN -Res(i, x) ELSE 0
  BY <1>1, <1>2, ViolationsType
<1> HIDE DEF h, e, y
<1>9. \A i \in Constraints : h[i] <= e[i]
  BY <1>1, <1>3, <1>8
<1>10. h[j] < e[j]
  BY <1>1, <1>3, <1>6, <1>8
<1>11. IsSum(h, s) /\ IsSum(e, r)
  BY DEF h, e, y
<1>12. QED
  BY <1>7, <1>9, <1>10, <1>11, SumLess

\* After a step that satisfies no more constraints the sum has become less.
LEMMA SumrskStep ==
    ASSUME ArrayInv, PartsInv, Sums, [Next]_vars, caller' # "minfun",
           pc' \in Parting \union {"conres", "step"}
    PROVE  sumrsk' = 0 \/ \A s \in Int : IsSum(Violations(x, {})', s) => s < sumrsk'
<1> USE DEF mtot
<1>0. sumres \in Int /\ Seeking /\ msat \in Nat /\ Len(iact) \in Nat /\ msat <= Len(iact) /\ stepcb \in Nat
  BY ArrayFacts DEF PartsInv, ArrayInv, Types
<1>1. CASE UNCHANGED vars
  BY <1>1 DEF vars, point, feasibility, Sums, Violations, Res
<1>2. CASE Initialise
  BY <1>2 DEF Initialise, CheckBounds, FixVariable, FixEnds, AddBounds, BoundsAdded, Getfes, Parting
<1>3. CASE Satact
  BY <1>3 DEF Satact, ShiftActive, FlagActive, ActiveChecked, DeleteFlagged, FlaggedDeleted, Parting
<1>4. CASE Conres \/ Getd \/ Bound
  <2>1. /\ x' = x /\ sumrsk' = sumrsk /\ caller' = caller /\ pc \in Parting \union {"conres"}
    BY <1>4 DEF Conres, StartConres, PartActive, PartSatisfied, PartViolated, Parted,
                Getd, GetdDrops, GetdKeeps, NoDirection, DirectionFound, AddDegenerate, SdegenDrops,
                SdegenKeeps, Bound, Stepbd, PassThrough, StepEnds, AfterConres, Parting, point, feasibility
  <2>2. Violations(x, {})' = Violations(x, {})
    BY <2>1 DEF Violations, Res
  <2>3. QED
    BY <2>1, <2>2 DEF Sums
<1>5. CASE FeasibilityStep
  <2>1. pc = "step" /\ caller # "minfun" /\ pc' = "conres"
    BY <1>0, <1>5 DEF FeasibilityStep, Seeking, Parting
  <2>2. /\ stepcb > 0 => x' = Along(stepcb)
        /\ IsSum(Violations(x, {}), sumres)
        /\ sumrsk = 0 \/ sumres < sumrsk
    BY <1>0, <1>5, <2>1 DEF FeasibilityStep, Sums
  <2>3. sumrsk' = 0 \/ (stepcb > 0 /\ sumrsk' = sumres)
    BY <1>0, <1>5, <2>1, <2>2 DEF FeasibilityStep
  <2>4. ASSUME stepcb > 0, NEW s \in Int, IsSum(Violations(x, {})', s) PROVE s < sumres
    <3>1. Violations(x, {})' = Violations(Along(stepcb), {})
      BY <2>2, <2>4 DEF Violations, Res
    <3>2. QED
      BY <1>0, <2>1, <2>2, <2>4, <3>1, StepLessens
  <2>5. QED
    BY <2>3, <2>4
<1>6. CASE Stuck \/ Adjtol \/ BoundsDone \/ ConstraintsDone
  BY <1>6 DEF Stuck, Adjtol, BoundsDone, ConstraintsDone, Getfes, Parting
<1>7. CASE Minimise
  BY <1>0, <1>7 DEF Minimise, StartMinfun, StopMinfun, GoOn, Lsrch, ReduceTol, Seeking
<1>8. QED
  BY <1>1, <1>2, <1>3, <1>4, <1>5, <1>6, <1>7 DEF Next, Feasible

\* sumres always is the sum of the violations, and decreases.
LEMMA SumsAlways == Spec => []Sums
<1>1. Init => Sums
  BY DEF Init, Sums, Parting
<1>2. ArrayInv /\ PartsInv /\ Sums /\ [Next]_vars => Sums'
  <2> SUFFICES ASSUME ArrayInv, PartsInv, Sums, [Next]_vars, caller' # "minfun" PROVE Sums'
    BY DEF Sums
  <2>1. /\ pc' = "partition" => IsSum(Violations(x, Unseen)', sumres')
        /\ pc' \in (Parting \ {"partition"}) \union {"step"} => IsSum(Violations(x, {})', sumres')
    BY SumresStep
  <2>2. pc' \in Parting \union {"conres", "step"} =>
           sumrsk' = 0 \/ \A s \in Int : IsSum(Violations(x, {})', s) => s < sumrsk'
    BY SumrskStep
  <2>3. QED
    BY <2>1, <2>2 DEF Sums
<1>3. QED
  BY <1>1, <1>2, ArrayAlways, PartsAlways, PTL DEF Spec

-----------------------------------------------------------------------------
(* The bounds are met.                                                     *)

\* getfes finds a point inside the bounds, at the latest with the tolerance of the
\* arithmetic: it never gives up then.
Found ==
    /\ pc = "found" => msat = Len(iact)
    /\ pc = "step" /\ stepcb = 0 /\ tol = "exact" => msat = Len(iact)
    /\ pc = "stuck" => tol # "exact"
    /\ info \notin {6, 7}

\* A violated constraint has a place behind those that are satisfied.
LEMMA ViolatedPlace ==
    ASSUME ArrayInv, PartsInv, pc \in {"sdegen", "stepbd"}, NEW j \in Constraints, Res(j, x) < 0
    PROVE  \E p \in msat + 1 .. Len(iact) : p \in mdeg + 1 .. Len(iact) /\ iact[p] = j
<1>1. pc \notin Filling /\ info # 4 /\ (IsFixed(Var(j)) => x[Var(j)] = Lower[Var(j)])
  BY NotFilling, Bounds DEF Filling
<1>2. x \in [Vars -> Int] /\ Res(j, x) \in Int
  BY ResType, ArrayFacts
<1>3. ~ IsFixed(Var(j))
  BY <1>1, <1>2, ResType DEF IsFixed
<1>4. PICK p \in meql + 1 .. Len(iact) : iact[p] = j
  BY <1>1, <1>3, PlacesOf, Bounds
<1>5. /\ mdeg \in Nat /\ msat \in Nat /\ mdeg <= msat /\ Len(iact) \in Nat /\ meql \in Nat /\ KeptTo = mdeg
  BY ArrayFacts DEF ArrayInv, Counts, Parting, KeptTo
<1>6. ~ (p \in 1 .. mdeg)
  BY <1>2, <1>4, <1>5 DEF PartsInv, KeptActive, Kept
<1>7. ~ (p \in mdeg + 1 .. msat)
  BY <1>2, <1>4 DEF PartsInv, Parts
<1>8. QED
  BY <1>4, <1>5, <1>6, <1>7

\* Outside the bounds a direction leads to one of them, too.
LEMMA SeekingFinds ==
    ASSUME ArrayInv, PartsInv, pc = "stepbd", caller # "minfun"
    PROVE  \E p \in mdeg + 1 .. Len(iact) : Steps[iact[p]] > 0
<1>1. PICK v \in Vars : g[v] # 0 /\ d[v] = -g[v]
  BY DEF PartsInv, Descending
<1>2. g[v] = Uphill(v, {}) /\ x \in [Vars -> Int] /\ msat \in Nat
  BY ArrayFacts DEF PartsInv, Seeking, Parting
<1>3. /\ x[v] \in Int /\ Lower[v] \in Int /\ Upper[v] \in Int
      /\ Res(v, x) = x[v] - Lower[v] /\ Res(N + v, x) = Upper[v] - x[v]
  BY <1>2, ResOf
<1>4. v \in Constraints /\ N + v \in Constraints /\ Slope(v, d) = -d[v] /\ Slope(N + v, d) = d[v]
  BY Bounds DEF Slope
<1>5. PICK j \in Constraints : Res(j, x) < 0 /\ Slope(j, d) = -1
  <2>1. CASE x[v] < Lower[v]
    <3>1. g[v] = -1
      BY <1>2, <2>1 DEF Uphill
    <3>2. d[v] = 1
      <4>1. d[v] = -g[v] /\ g[v] \in Int
        BY <1>1, <3>1
      <4>2. g[v] + 1 = 0
        BY <3>1
      <4>3. QED
        BY <4>1, <4>2
    <3>3. Slope(v, d) = -1
      BY <1>4, <3>2
    <3>4. Res(v, x) < 0
      BY <1>3, <2>1
    <3>5. QED
      BY <1>4, <3>3, <3>4
  <2>2. CASE ~ (x[v] < Lower[v])
    <3>1. x[v] > Upper[v] /\ g[v] = 1
      BY <1>1, <1>2, <2>2 DEF Uphill
    <3>2. QED
      BY <1>1, <1>3, <1>4, <3>1
  <2>3. QED
    BY <2>1, <2>2
<1>6. PICK p \in msat + 1 .. Len(iact) : p \in mdeg + 1 .. Len(iact) /\ iact[p] = j
  BY <1>5, ViolatedPlace
<1>7. ~ (p <= msat)
  BY <1>2
<1>8. Res(iact[p], x) \in Int /\ Steps[iact[p]] = -Res(iact[p], x)
  BY <1>5, <1>6, <1>7, StepbdPlaces
<1>9. QED
  BY <1>5, <1>6, <1>8

\* With active constraints on their boundaries something can always be reduced
\* while a constraint is violated.
LEMMA NothingViolated ==
    ASSUME ArrayInv, PartsInv, pc = "sdegen", caller # "minfun", tol = "exact", ~ Reducible
    PROVE  msat = Len(iact)
<1>0. msat \in Nat /\ Len(iact) \in Nat /\ msat <= Len(iact) /\ x \in [Vars -> Int] /\ nact \in Nat
  BY ArrayFacts
<1> SUFFICES ASSUME msat # Len(iact) PROVE FALSE
  OBVIOUS
<1> DEFINE j == iact[Len(iact)]
           v == Var(j)
<1>1. Len(iact) \in msat + 1 .. Len(iact) /\ Len(iact) \in 1 .. Len(iact)
  BY <1>0
<1>2. Res(j, x) < 0 /\ j \in Constraints /\ v \in Vars
  BY <1>1, ArrayFacts DEF PartsInv, Parts
<1>3. /\ Res(j, x) = IF j <= N THEN x[v] - Lower[v] ELSE Upper[v] - x[v]
      /\ Lower[v] \in Int /\ Upper[v] \in Int /\ x[v] \in Int
  BY <1>0, <1>2, ResType
<1>4. Lower[v] <= Upper[v]
  BY <1>2, NotFilling DEF Filling, ArrayInv, Complete
<1>5. x[v] < Lower[v] \/ x[v] > Upper[v]
  BY <1>2, <1>3
<1>6. g[v] = Uphill(v, {})
  BY <1>2 DEF PartsInv, Seeking, Parting
<1>7. g[v] # 0
  BY <1>5, <1>6 DEF Uphill
<1>8. PICK q \in 1 .. nact : Var(iact[q]) = v
  BY <1>2, <1>7, FreeIf DEF Reducible
<1>9. /\ q \in 1 .. Len(iact) /\ q \in 1 .. KeptTo /\ iact[q] \in Constraints
  <2>1. nact <= mdeg /\ mdeg \in Nat /\ KeptTo = mdeg
    BY ArrayFacts DEF ArrayInv, Counts, Parting, KeptTo
  <2>2. q \in 1 .. Len(iact) /\ q \in 1 .. KeptTo
    BY <1>0, <2>1, ArrayFacts
  <2>3. QED
    BY <2>2, ArrayFacts
<1>10. Res(iact[q], x) = 0
  BY <1>9 DEF PartsInv, KeptActive, Kept
<1>11. x[v] = Lower[v] \/ x[v] = Upper[v]
  <2>1. Res(iact[q], x) = IF iact[q] <= N THEN x[v] - Lower[v] ELSE Upper[v] - x[v]
    BY <1>0, <1>8, <1>9, ResType
  <2>2. QED
    BY <1>3, <1>10, <2>1
<1>12. QED
  BY <1>3, <1>4, <1>5, <1>11

\* It does find one.
LEMMA FoundStep ==
    ASSUME ArrayInv, ArrayInv', PartsInv, Sums, Found, [Next]_vars
    PROVE  Found'
<1> USE DEF mtot
<1>0. /\ sumres \in Int /\ sumrsk \in Int /\ Seeking /\ msat \in Nat /\ Len(iact) \in Nat
      /\ msat <= Len(iact) /\ stepcb \in Nat /\ info \notin {6, 7} /\ info \in 0 .. 8
  BY ArrayFacts DEF PartsInv, ArrayInv, Types, Found
<1>1. CASE UNCHANGED vars
  BY <1>1 DEF vars, set, motion, result, Found
<1>2. CASE Initialise
  BY <1>0, <1>2 DEF Initialise, CheckBounds, FixVariable, FixEnds, AddBounds, BoundsAdded, Getfes, Found, result
<1>3. CASE Satact
  BY <1>0, <1>3 DEF Satact, ShiftActive, FlagActive, ActiveChecked, DeleteFlagged, FlaggedDeleted, Found, result
<1>4. CASE Conres
  BY <1>0, <1>4 DEF Conres, StartConres, PartActive, PartSatisfied, PartViolated, Parted, Found, result, set
<1>5. CASE Getd
  <2>1. CASE NoDirection
    <3>1. /\ pc = "sdegen" /\ ~ Reducible /\ iact' = iact /\ msat' = msat /\ tol' = tol /\ info' = info
          /\ pc' = IF caller = "minfun" THEN "kt" ELSE "step"
      BY <2>1 DEF NoDirection, set, result
    <3>2. QED
      BY <1>0, <3>1, NothingViolated DEF Found
  <2>2. CASE ~ NoDirection
    BY <1>0, <1>5, <2>2 DEF Getd, GetdDrops, GetdKeeps, DirectionFound, AddDegenerate, SdegenDrops,
                            SdegenKeeps, Found, result
  <2>3. QED
    BY <2>1, <2>2
<1>6. CASE Bound
  <2>1. info' = info /\ pc' \in {"pass", "kt", "step"}
    BY <1>6 DEF Bound, Stepbd, PassThrough, StepEnds, AfterConres, result
  <2>2. ASSUME pc' = "step" PROVE stepcb' # 0
    <3>1. CASE Stepbd
      <4>1. pc = "stepbd" /\ caller # "minfun" /\ \A p \in mdeg + 1 .. Len(iact) : Steps[iact[p]] <= 0
        BY <2>2, <3>1 DEF Stepbd, AfterConres, Steps
      <4>2. PICK p \in mdeg + 1 .. Len(iact) : Steps[iact[p]] > 0
        BY <4>1, SeekingFinds
      <4>3. Steps[iact[p]] \in Int
        BY <4>1, StepbdPlaces
      <4>4. QED
        BY <4>1, <4>2, <4>3
    <3>2. CASE PassThrough \/ StepEnds
      <4>1. pc = "pass" /\ stepcb' = stepcb
        BY <2>2, <3>2 DEF PassThrough, StepEnds, motion
      <4>2. QED
        BY <1>0, <4>1 DEF PartsInv, Passing
    <3>3. QED
      BY <1>6, <3>1, <3>2 DEF Bound
  <2>3. QED
    BY <1>0, <2>1, <2>2 DEF Found
<1>7. CASE FeasibilityStep
  <2>1. /\ pc = "step" /\ caller # "minfun" /\ info' = info /\ tol' = tol /\ msat' = msat
        /\ pc' \in {"found", "stuck", "conres"} /\ Len(iact') = Len(iact)
    <3>1. pc = "step" /\ info' = info /\ tol' = tol /\ msat' = msat /\ pc' \in {"found", "stuck", "conres"}
      BY <1>7 DEF FeasibilityStep, result
    <3>2. Len(iact') = Len(iact)
      BY <3>1, LengthStays DEF Filling
    <3>3. QED
      BY <1>0, <3>1, <3>2 DEF Seeking
  <2>2. sumrsk = 0 \/ sumres < sumrsk
    BY <1>0, <2>1 DEF Sums
  <2>3. pc' = "found" => msat = Len(iact)
    BY <1>7 DEF FeasibilityStep
  <2>4. ASSUME pc' = "stuck" PROVE msat < Len(iact) /\ stepcb = 0
    BY <1>0, <1>7, <2>2, <2>4 DEF FeasibilityStep
  <2>5. pc' = "stuck" => tol # "exact"
    BY <1>0, <2>1, <2>4 DEF Found
  <2>6. QED
    BY <1>0, <2>1, <2>3, <2>5 DEF Found
<1>8. CASE Stuck \/ Adjtol \/ BoundsDone \/ ConstraintsDone
  BY <1>0, <1>8 DEF Stuck, Adjtol, BoundsDone, ConstraintsDone, Getfes, Found, result, set
<1>9. CASE Minimise
  BY <1>0, <1>9 DEF Minimise, StartMinfun, StopMinfun, GoOn, Lsrch, ReduceTol, Found, result
<1>10. QED
  BY <1>1, <1>2, <1>3, <1>4, <1>5, <1>6, <1>7, <1>8, <1>9 DEF Next, Feasible

\* A search for a feasible point never fails.
LEMMA FoundAlways == Spec => []Found
<1>1. Init => Found
  BY DEF Init, Found
<1>2. ArrayInv /\ ArrayInv' /\ PartsInv /\ Sums /\ Found /\ [Next]_vars => Found'
  BY FoundStep
<1>3. QED
  BY <1>1, <1>2, ArrayAlways, PartsAlways, SumsAlways, PTL DEF Spec
-----------------------------------------------------------------------------
(* The values of the objective function.                                   *)

\* f and g are those of the objective function at x.
Evaluated == f = Objective[x] /\ g \in Gradients[x] /\ least = Objective[x]

\* getfes is done with the point of the last evaluation, or there was none, or
\* satact has shifted x: g is free for the gradient of the violations only then.
ValuesAtHand ==
    /\ pc \in Filling => caller = "bounds"
    /\ caller = "minfun" /\ pc \notin {"start", "return"} => Evaluated /\ nfvals > 0
    /\ caller = "bounds" => nfvals = 0
    /\ caller # "minfun" /\ pc \notin {"initzu", "return"} => info \in {0, 1}
    /\ caller # "minfun" /\ pc \in Parting \union {"conres", "step", "stuck", "adjtol"} =>
          info = 1 \/ nfvals = 0
    /\ caller # "minfun" /\ pc \in {"satact", "delete", "found"} /\ info = 0 /\ nfvals > 0 =>
          Evaluated /\ msat = Len(iact)
    /\ pc = "start" => /\ info \in {0, 1}
                       /\ info = 0 /\ nfvals > 0 => Evaluated
    /\ pc \in Parting \union {"conres", "kt"} /\ caller = "minfun" => f < fprev \/ diffset
    /\ pc = "lsrch" => diffset

\* Evaluated is about x, f, g and least alone.
LEMMA StaysEvaluated ==
    ASSUME x' = x, f' = f, g' = g, least' = least
    PROVE  Evaluated' <=> Evaluated
BY DEF Evaluated

\* lsrch leaves the values of the point that it leaves, the least of all.
LEMMA LsrchEvaluates ==
    ASSUME ArrayInv, PartsInv, Evaluated, Lsrch
    PROVE  Evaluated'
<1>1. /\ pc = "lsrch" /\ stepcb > 0 /\ stepcb \in Nat /\ x \in [Vars -> Int] /\ d \in Directions /\ x \in Inside
      /\ caller = "minfun"
  BY ArrayFacts, LsrchGoes DEF Going, Lsrch, PartsInv, Seeking, InMinfun
<1>2. PICK T \in SUBSET (1 .. stepcb) : \E s \in 0 .. stepcb :
          /\ BestLength(s, T)
          /\ x' = Along(s)
          /\ IF s = 0 THEN UNCHANGED <<f, g>> ELSE Fgcalc(Along(s))
          /\ least' = CHOOSE y \in {Objective[Along(t)] : t \in T} \union {least} :
                          \A t \in T : y <= least /\ y <= Objective[Along(t)]
  BY DEF Lsrch
<1>3. PICK s \in 0 .. stepcb :
          /\ BestLength(s, T)
          /\ x' = Along(s)
          /\ IF s = 0 THEN UNCHANGED <<f, g>> ELSE Fgcalc(Along(s))
          /\ least' = CHOOSE y \in {Objective[Along(t)] : t \in T} \union {least} :
                          \A t \in T : y <= least /\ y <= Objective[Along(t)]
  BY <1>2
<1>4. Along(0) = x
  <2>1. \A v \in Vars : d[v] \in {-1, 0, 1} /\ x[v] \in Int
    BY <1>1 DEF Directions
  <2>2. \A v \in Vars : x[v] + 0 * d[v] = x[v]
    BY <2>1
  <2>3. QED
    BY <1>1, <2>2 DEF Along
<1>5. \A t \in 0 .. stepcb : Along(t) \in Inside /\ Objective[Along(t)] \in Int
  BY <1>1, PointsInside, TolminAssumption
<1>6. f' = Objective[x'] /\ g' \in Gradients[x']
  <2>1. CASE s = 0
    BY <1>3, <1>4, <2>1 DEF Evaluated
  <2>2. CASE s # 0
    BY <1>3, <2>2 DEF Fgcalc
  <2>3. QED
    BY <2>1, <2>2
<1>7. least' = Objective[x']
  <2> DEFINE V == {Objective[Along(t)] : t \in T} \union {least}
             best == Objective[Along(s)]
             P(y) == \A t \in T : y <= least /\ y <= Objective[Along(t)]
  <2>1. least = Objective[Along(0)] /\ T \subseteq 0 .. stepcb /\ T \union {0} \subseteq 0 .. stepcb
    BY <1>1, <1>4 DEF Evaluated
  <2>2. s \in T \union {0} /\ \A t \in T \union {0} : best <= Objective[Along(t)]
    BY <1>3 DEF BestLength
  <2>3. best \in V /\ P(best)
    BY <2>1, <2>2
  <2>4. least' \in V /\ P(least')
    <3>1. least' = CHOOSE y \in V : P(y)
      BY <1>3
    <3> HIDE DEF V, P
    <3>2. QED
      BY <2>3, <3>1
  <2>5. \A y \in V : y \in Int
    BY <1>5, <2>1
  <2>6. ASSUME T # {} PROVE least' <= best
    <3>1. PICK t \in T : TRUE
      BY <2>6
    <3>2. least' <= least /\ \A r \in T : least' <= Objective[Along(r)]
      BY <2>4, <3>1
    <3>3. CASE s = 0
      BY <2>1, <3>2, <3>3
    <3>4. CASE s # 0
      BY <2>2, <3>2, <3>4
    <3>5. QED
      BY <3>3, <3>4
  <2>7. best <= least'
    BY <2>1, <2>2, <2>4
  <2>8. T = {} => least' = best
    BY <2>1, <2>2, <2>4
  <2>9. QED
    <3>1. least' \in Int /\ best \in Int
      BY <2>3, <2>4, <2>5
    <3>2. least' = best
      BY <2>6, <2>7, <2>8, <3>1
    <3>3. QED
      BY <1>3, <3>2
<1>8. QED
  BY <1>6, <1>7 DEF Evaluated

\* minfun evaluates at its start, unless the values are at hand.
LEMMA StartEvaluates ==
    ASSUME ArrayInv, PartsInv, WithinLimit, ValuesAtHand, StartMinfun
    PROVE  Evaluated' /\ f' < fprev' /\ nfvals' > 0
<1>1. /\ pc = "start" /\ x \in Inside /\ x' = x /\ nfvals \in Nat /\ info \in {0, 1}
  BY PointsInside DEF StartMinfun, WithinLimit, ValuesAtHand
<1>2. Evaluated' /\ nfvals' > 0
  <2>1. CASE NotEvaluated
    BY <1>1, <2>1, FgcalcType DEF StartMinfun, Evaluated
  <2>2. CASE ~ NotEvaluated
    <3>1. f' = f /\ g' = g /\ nfvals' = nfvals /\ least' = least
      BY <2>2 DEF StartMinfun
    <3>2. nfvals > 0 /\ info = 0
      BY <1>1, <2>2 DEF NotEvaluated
    <3>3. QED
      BY <1>1, <3>1, <3>2, StaysEvaluated DEF ValuesAtHand
  <2>3. QED
    BY <2>1, <2>2
<1>3. f' \in Int
  BY <1>1, <1>2, TolminAssumption DEF Evaluated
<1>4. fprev' = StartValue(f')
  BY DEF StartMinfun
<1>5. \A y \in Int : y < StartValue(y)
  BY DEF StartValue
<1>6. QED
  BY <1>2, <1>3, <1>4, <1>5

\* While the bounds are added, nothing has been evaluated.
\* While the array is filled nothing has been evaluated.
LEMMA ValuesInitialise ==
    ASSUME ValuesAtHand, Initialise
    PROVE  ValuesAtHand'
<1>1. pc \in Filling /\ caller = "bounds" /\ nfvals = 0
  BY DEF ValuesAtHand, Initialise, CheckBounds, FixVariable, FixEnds, AddBounds, BoundsAdded, Filling
<1>2. /\ caller' = "bounds" /\ nfvals' = 0 /\ pc' \in Filling \union {"satact", "return"}
      /\ pc' \notin {"initzu", "return"} => info' \in {0, 1}
  BY <1>1 DEF ValuesAtHand, Initialise, CheckBounds, FixVariable, FixEnds, AddBounds, BoundsAdded,
         Filling, Getfes, result
<1>3. QED
  BY <1>2 DEF ValuesAtHand, Filling, Parting

\* satact works for getfes.
LEMMA ValuesSatact ==
    ASSUME ArrayInv, PartsInv, WithinLimit, ValuesAtHand, Satact
    PROVE  ValuesAtHand'
<1> USE DEF mtot
<1>1. pc \in {"satact", "delete"} /\ pc' \in {"satact", "delete", "found", "conres"}
  BY DEF Satact, ShiftActive, FlagActive, ActiveChecked, DeleteFlagged, FlaggedDeleted
<1>2. /\ caller # "minfun" /\ nfvals \in Nat /\ info \in {0, 1} /\ (caller = "bounds" => nfvals = 0)
      /\ info = 0 /\ nfvals > 0 => Evaluated /\ msat = Len(iact)
  BY <1>1 DEF ValuesAtHand, WithinLimit, PartsInv, InMinfun, Parting
<1>3. caller' = caller /\ nfvals' = nfvals /\ f' = f /\ g' = g /\ least' = least
  BY DEF Satact, ShiftActive, FlagActive, ActiveChecked, DeleteFlagged, FlaggedDeleted, result, point
<1>4. Len(iact') = Len(iact)
  BY <1>1, LengthStays DEF Filling, Satact, Next
<1>5. /\ info' \in {0, 1} /\ (pc' = "conres" => info' = 1 \/ nfvals' = 0)
      /\ info' = 0 /\ nfvals' > 0 /\ pc' # "conres" => Evaluated' /\ msat' = Len(iact')
  <2>1. CASE ShiftActive
    BY <2>1 DEF ShiftActive
  <2>2. CASE FlagActive \/ ActiveChecked \/ DeleteFlagged
    <3>1. x' = x /\ info' = info /\ msat' = msat /\ pc' # "conres"
      BY <2>2 DEF FlagActive, ActiveChecked, DeleteFlagged, result, set, point
    <3>2. QED
      BY <1>2, <1>3, <1>4, <3>1, StaysEvaluated
  <2>3. CASE FlaggedDeleted
    <3>1. x' = x /\ info' = info /\ iact' = iact /\ msat' = SatisfiedAfterShift
          /\ pc' = IF SatisfiedAfterShift = Len(iact) THEN "found" ELSE "conres"
      BY <2>3 DEF FlaggedDeleted, result, point
    <3>2. info = 0 => SatisfiedAfterShift = msat
      BY DEF SatisfiedAfterShift
    <3>3. QED
      BY <1>2, <1>3, <3>1, <3>2, StaysEvaluated
  <2>4. QED
    BY <2>1, <2>2, <2>3 DEF Satact
<1>6. QED
  BY <1>1, <1>2, <1>3, <1>5 DEF ValuesAtHand, Filling, Parting

\* conres leaves the gradient alone when it works for minfun.
\* A round of conres, getd and stepbd leaves the point and its value alone, or
\* works for getfes, which reads neither.
LEMMA ValuesConres ==
    ASSUME ArrayInv, PartsInv, ValuesAtHand, Conres \/ Getd \/ Bound
    PROVE  ValuesAtHand'
<1> USE DEF mtot
<1>1. /\ pc \in Parting \union {"conres"} /\ pc' \in Parting \union {"kt", "step"}
      /\ caller' = caller
  BY DEF Parting, Conres, StartConres, PartActive, PartSatisfied, PartViolated, Parted, Getd, GetdDrops,
         GetdKeeps, NoDirection, DirectionFound, AddDegenerate, SdegenDrops, SdegenKeeps, Bound, Stepbd,
         PassThrough, StepEnds, AfterConres
<1>2. /\ x' = x /\ f' = f /\ least' = least /\ nfvals' = nfvals
      /\ info' = info /\ fprev' = fprev /\ diffset' = diffset
  BY DEF Conres, StartConres, PartActive, PartSatisfied, PartViolated, Parted, Getd, GetdDrops,
         GetdKeeps, NoDirection, DirectionFound, AddDegenerate, SdegenDrops, SdegenKeeps, Bound, Stepbd,
         PassThrough, StepEnds, point, result, progress
<1>3. ASSUME caller = "minfun" PROVE g' = g
  <2>1. CASE StartConres
    <3>1. pc = "conres" /\ msat = Len(iact) /\ Len(iact) \in Nat
      BY <1>3, <2>1, ArrayFacts DEF StartConres, PartsInv, InMinfun
    <3>2. QED
      BY <2>1, <3>1 DEF StartConres
  <2>2. CASE PartViolated
    <3>1. pc = "partition" /\ k <= Len(iact) /\ ~ CountsAsSatisfied(k)
      BY <2>2 DEF PartViolated
    <3>2. msatk = Len(iact)
      BY <1>3, <3>1 DEF PartsInv, Seeking
    <3>3. QED
      BY <3>1, <3>2 DEF CountsAsSatisfied
  <2>3. CASE ~ (StartConres \/ PartViolated)
    BY <2>3 DEF Conres, PartActive, PartSatisfied, Parted, Getd, GetdDrops,
         GetdKeeps, NoDirection, DirectionFound, AddDegenerate, SdegenDrops, SdegenKeeps, Bound, Stepbd,
         PassThrough, StepEnds, point
  <2>4. QED
    BY <2>1, <2>2, <2>3
<1>4. CASE caller = "minfun"
  <2>1. Evaluated /\ nfvals > 0 /\ (f < fprev \/ diffset)
    BY <1>1, <1>4 DEF ValuesAtHand, Parting
  <2>2. Evaluated'
    BY <1>2, <1>3, <1>4, <2>1, StaysEvaluated
  <2>3. QED
    BY <1>1, <1>2, <1>4, <2>1, <2>2 DEF ValuesAtHand, Filling, Parting
<1>5. CASE caller # "minfun"
  <2>1. (info = 1 \/ nfvals = 0) /\ info \in {0, 1} /\ (caller = "bounds" => nfvals = 0)
    BY <1>1, <1>5 DEF ValuesAtHand, Parting
  <2>2. QED
    BY <1>1, <1>2, <1>5, <2>1 DEF ValuesAtHand, Filling, Parting
<1>6. QED
  BY <1>4, <1>5

\* getfes ends, or starts anew with another tolerance.
LEMMA ValuesFeasible ==
    ASSUME ArrayInv, PartsInv, WithinLimit, Found, ValuesAtHand, Feasible
    PROVE  ValuesAtHand'
<1> USE DEF mtot
<1>0. /\ nfvals' = nfvals /\ f' = f /\ g' = g /\ least' = least /\ nfvals \in Nat
      /\ caller = "bounds" => nfvals = 0
  BY DEF Feasible, FeasibilityStep, Stuck, Adjtol, BoundsDone, ConstraintsDone, point, result,
         WithinLimit, ValuesAtHand
<1>1. CASE FeasibilityStep
  <2>1. pc = "step" /\ pc' \in {"found", "stuck", "conres"} /\ caller' = caller /\ info' = info
    BY <1>1 DEF FeasibilityStep, result
  <2>2. caller # "minfun"
    BY <2>1 DEF PartsInv, Seeking
  <2>3. info \in {0, 1} /\ (info = 1 \/ nfvals = 0)
    BY <2>1, <2>2 DEF ValuesAtHand
  <2>4. QED
    BY <1>0, <2>1, <2>2, <2>3 DEF ValuesAtHand, Filling, Parting
<1>2. CASE Stuck
  <2>1. pc = "stuck" /\ pc' \in {"found", "adjtol"} /\ caller' = caller /\ info' = info
    BY <1>2 DEF Stuck, result
  <2>2. caller # "minfun"
    BY <2>1 DEF PartsInv, InMinfun, Parting
  <2>3. info \in {0, 1} /\ (info = 1 \/ nfvals = 0)
    BY <2>1, <2>2 DEF ValuesAtHand
  <2>4. QED
    BY <1>0, <2>1, <2>2, <2>3 DEF ValuesAtHand, Filling, Parting
<1>3. CASE Adjtol
  <2>1. pc = "adjtol" /\ pc' = "satact" /\ x' = x /\ msat' = msat /\ iact' = iact
        /\ IF caller = "minfun" THEN caller' = "inequalities" /\ info' = 0 ELSE caller' = caller /\ info' = info
    BY <1>3 DEF Adjtol, Getfes, point, set
  <2>2. CASE caller = "minfun"
    <3>1. Evaluated /\ msat = Len(iact)
      BY <2>1, <2>2 DEF ValuesAtHand, PartsInv, InMinfun
    <3>2. Evaluated' /\ msat' = Len(iact')
      BY <1>0, <2>1, <3>1, StaysEvaluated
    <3>3. QED
      BY <1>0, <2>1, <2>2, <3>2 DEF ValuesAtHand, Filling, Parting
  <2>3. CASE caller # "minfun"
    <3>1. info \in {0, 1} /\ (info = 1 \/ nfvals = 0)
      BY <2>1, <2>3 DEF ValuesAtHand
    <3>2. QED
      BY <1>0, <2>1, <2>3, <3>1 DEF ValuesAtHand, Filling, Parting
  <2>4. QED
    BY <2>2, <2>3
<1>4. CASE BoundsDone
  <2>1. pc = "found" /\ caller = "bounds" /\ msat = Len(iact) /\ msat \in Nat
    BY <1>4, ArrayFacts DEF BoundsDone, Found
  <2>2. pc' = "satact" /\ caller' = "inequalities" /\ info' = 0
    BY <1>4, <2>1 DEF BoundsDone, Getfes
  <2>3. QED
    BY <1>0, <2>1, <2>2 DEF ValuesAtHand, Filling, Parting
<1>5. CASE ConstraintsDone
  <2>1. pc = "found" /\ caller = "inequalities" /\ msat = Len(iact) /\ msat \in Nat
    BY <1>5, ArrayFacts DEF ConstraintsDone, Found
  <2>2. /\ x' = x /\ info' = info
        /\ \/ pc' = "return" /\ caller' = "inequalities"
           \/ pc' = "start" /\ caller' = "minfun"
    BY <1>5, <2>1 DEF ConstraintsDone, point
  <2>3. info \in {0, 1} /\ (info = 0 /\ nfvals > 0 => Evaluated)
    BY <2>1 DEF ValuesAtHand
  <2>4. Evaluated' <=> Evaluated
    BY <1>0, <2>2, StaysEvaluated
  <2>5. QED
    BY <1>0, <2>1, <2>2, <2>3, <2>4 DEF ValuesAtHand, Filling, Parting
<1>6. QED
  BY <1>1, <1>2, <1>3, <1>4, <1>5 DEF Feasible

\* minfun evaluates before it compares.
LEMMA ValuesMinimise ==
    ASSUME ArrayInv, PartsInv, WithinLimit, ValuesAtHand, Minimise
    PROVE  ValuesAtHand'
<1>1. /\ pc \in {"start", "kt", "lsrch", "reduce"} /\ caller' = caller
      /\ pc' \in {"conres", "reduce", "lsrch", "adjtol", "return"}
  BY DEF Minimise, StartMinfun, StopMinfun, GoOn, Lsrch, ReduceTol
<1>2. caller = "minfun"
  BY <1>1 DEF PartsInv, Seeking
<1>3. SUFFICES /\ Evaluated' /\ nfvals' > 0
               /\ pc' = "conres" => f' < fprev' \/ diffset'
               /\ pc' = "lsrch" => diffset'
  BY <1>1, <1>2 DEF ValuesAtHand, Filling, Parting
<1>4. CASE StartMinfun
  BY <1>4, StartEvaluates DEF StartMinfun
<1>5. pc # "start" => Evaluated /\ nfvals > 0
  BY <1>1, <1>2 DEF ValuesAtHand
<1>6. CASE Lsrch
  <2>1. pc = "lsrch" /\ diffset' = diffset
    BY <1>6 DEF Lsrch
  <2>2. nfvals' > 0
    BY <1>5, <1>6, <2>1, LsrchCounts DEF WithinLimit
  <2>3. QED
    BY <1>5, <1>6, <2>1, <2>2, LsrchEvaluates DEF ValuesAtHand
<1>7. CASE StopMinfun \/ GoOn \/ ReduceTol
  <2>1. x' = x /\ f' = f /\ g' = g /\ least' = least /\ nfvals' = nfvals /\ pc # "start" /\ pc' # "conres"
    BY <1>7 DEF StopMinfun, GoOn, ReduceTol, point
  <2>2. pc' = "lsrch" => diffset'
    BY <1>7 DEF StopMinfun, GoOn, ReduceTol
  <2>3. QED
    BY <1>5, <2>1, <2>2, StaysEvaluated
<1>8. QED
  BY <1>4, <1>6, <1>7 DEF Minimise

\* minfun always has the value and the gradient of its point.
LEMMA ValuesAlways == Spec => []ValuesAtHand
<1>1. Init => ValuesAtHand
  BY DEF Init, ValuesAtHand, Filling, Parting
<1>2. ArrayInv /\ PartsInv /\ WithinLimit /\ Found /\ ValuesAtHand /\ [Next]_vars => ValuesAtHand'
  <2> SUFFICES ASSUME ArrayInv, PartsInv, WithinLimit, Found, ValuesAtHand, [Next]_vars PROVE ValuesAtHand'
    OBVIOUS
  <2>1. CASE UNCHANGED vars
    BY <2>1 DEF vars, point, set, progress, result, ValuesAtHand, Evaluated
  <2>2. CASE Next
    BY <2>2, ValuesInitialise, ValuesSatact, ValuesConres, ValuesFeasible, ValuesMinimise DEF Next
  <2>3. QED
    BY <2>1, <2>2
<1>3. QED
  BY <1>1, <1>2, ArrayAlways, PartsAlways, EvaluationsAlways, FoundAlways, PTL DEF Spec

\* minfun works with the value and the gradient of the point it is at, and reads
\* diff only when it has been set, whatever getfes did before it was called again.
THEOREM ValuesOfThePoint == Spec => []ValueIsOfThePoint
<1>1. ArrayInv /\ PartsInv /\ WithinLimit /\ ValuesAtHand => ValueIsOfThePoint
  <2> SUFFICES ASSUME ArrayInv, PartsInv, WithinLimit, ValuesAtHand PROVE ValueIsOfThePoint
    OBVIOUS
  <2>1. ASSUME pc \in {"kt", "lsrch"} \/ (pc = "conres" /\ caller = "minfun")
        PROVE  x \in Inside /\ f = Objective[x] /\ g \in Gradients[x] /\ caller = "minfun"
    BY <2>1 DEF PartsInv, Seeking, InMinfun, ValuesAtHand, Evaluated
  <2>2. ASSUME pc = "kt", f >= fprev PROVE diffset
    BY <2>1, <2>2 DEF ValuesAtHand, WithinLimit
  <2>3. QED
    BY <2>1, <2>2 DEF ValueIsOfThePoint
<1>2. QED
  BY <1>1, ArrayAlways, PartsAlways, EvaluationsAlways, ValuesAlways, PTL
-----------------------------------------------------------------------------
(* The answer.                                                             *)

\* With every variable fixed nothing moves, and minfun is never called.
NothingMoves ==
    meql = N => caller # "minfun" /\ nfvals = 0 /\ (pc \notin Filling => info # 1)

\* What is true of the point that is left, and was when minfun ended.
Answer ==
    /\ pc = "reduce" /\ info = 1 => (tol # "exact" /\ nact > 0) \/ FirstOrder(x, g)
    /\ pc = "return" /\ info = 1 => x \in Inside /\ FirstOrder(x, g)
    /\ pc = "return" /\ nfvals > 0 => x \in Inside /\ Objective[x] = least

\* Constraints become fixed only while the array is filled.
LEMMA WhoFixes ==
    ASSUME [Next]_vars
    PROVE  (meql' = meql /\ (pc' \in Filling => pc \in Filling)) \/ FixVariable
BY DEF Next, Initialise, Satact, Conres, Getd, Bound, Feasible, Minimise, vars,
         CheckBounds, FixEnds, AddBounds, BoundsAdded, ShiftActive, FlagActive,
         ActiveChecked, DeleteFlagged, FlaggedDeleted, StartConres, PartActive,
         PartSatisfied, PartViolated, Parted, GetdDrops, GetdKeeps, NoDirection,
         DirectionFound, AddDegenerate, SdegenDrops, SdegenKeeps, Stepbd, PassThrough,
         StepEnds, FeasibilityStep, Stuck, Adjtol, BoundsDone, ConstraintsDone, StartMinfun,
         StopMinfun, GoOn, Lsrch, ReduceTol, vars, set, Filling, Getfes, AfterConres

\* satact never shifts a constraint of a variable that is fixed.
LEMMA ShiftsFree ==
    ASSUME ArrayInv, PartsInv, ShiftActive
    PROVE  meql < N
<1>1. nact <= N
  <2>1. iact \in Seq(Constraints) /\ nact \in 0 .. Len(iact)
        /\ \A p, q \in 1 .. nact : Var(iact[p]) = Var(iact[q]) => p = q
    BY ArrayFacts DEF ActivesDiffer
  <2>2. QED
    BY <2>1, FewActive
<1>2. QED
  BY <1>1, ShiftKeeps, ArrayFacts, Bounds

\* Without a free variable satact shifts nothing, and conres finds nothing to do.
LEMMA NothingMovesStep ==
    ASSUME ArrayInv, PartsInv, Found, ValuesAtHand, NothingMoves, [Next]_vars
    PROVE  NothingMoves'
<1> USE DEF mtot
<1> SUFFICES ASSUME meql' = N PROVE caller' # "minfun" /\ nfvals' = 0 /\ (pc' \notin Filling => info' # 1)
  BY DEF NothingMoves
<1>1. CASE pc \in Filling
  <2>1. caller = "bounds" /\ nfvals = 0
    BY <1>1 DEF ValuesAtHand
  <2>2. CASE UNCHANGED vars
    BY <1>1, <2>1, <2>2 DEF vars, result
  <2>3. CASE CheckBounds
    <3>1. info = 4
      BY <2>3 DEF CheckBounds, ArrayInv, Complete
    <3>2. QED
      BY <2>1, <2>3, <3>1 DEF CheckBounds, Filling
  <2>4. CASE FixVariable \/ FixEnds \/ AddBounds \/ BoundsAdded
    BY <2>1, <2>4 DEF FixVariable, FixEnds, AddBounds, BoundsAdded, Getfes, Filling, result
  <2>5. QED
    BY <1>1, <2>2, <2>3, <2>4, WhoFills
<1>2. CASE pc \notin Filling
  <2>1. meql' = meql /\ pc' \notin Filling
    BY <1>2, WhoFixes DEF FixVariable, Filling
  <2>2. caller # "minfun" /\ nfvals = 0 /\ info # 1 /\ meql = N
    BY <1>2, <2>1 DEF NothingMoves
  <2>3. CASE UNCHANGED vars
    BY <2>1, <2>2, <2>3 DEF vars, result
  <2>4. CASE Initialise
    BY <1>2, <2>4 DEF Initialise, CheckBounds, FixVariable, FixEnds, AddBounds, BoundsAdded, Filling
  <2>5. CASE Satact
    <3>1. ~ ShiftActive
      BY <2>2, ShiftsFree, ArrayFacts, Bounds
    <3>2. QED
      BY <2>2, <2>5, <3>1 DEF Satact, FlagActive, ActiveChecked, DeleteFlagged, FlaggedDeleted, result
  <2>6. CASE Conres \/ Getd \/ Bound
    BY <2>2, <2>6 DEF Conres, StartConres, PartActive, PartSatisfied, PartViolated, Parted, Getd, GetdDrops,
         GetdKeeps, NoDirection, DirectionFound, AddDegenerate, SdegenDrops, SdegenKeeps, Bound, Stepbd,
         PassThrough, StepEnds, result
  <2>7. CASE Feasible
    <3>1. CASE ConstraintsDone
      <4>1. msat = Len(iact) /\ msat \in Nat
        BY <3>1, ArrayFacts DEF ConstraintsDone, Found
      <4>2. QED
        BY <2>2, <3>1, <4>1 DEF ConstraintsDone
    <3>2. CASE BoundsDone
      <4>1. msat = Len(iact) /\ msat \in Nat
        BY <3>2, ArrayFacts DEF BoundsDone, Found
      <4>2. QED
        BY <2>2, <3>2, <4>1 DEF BoundsDone, Getfes
    <3>3. CASE FeasibilityStep \/ Stuck \/ Adjtol
      BY <2>2, <3>3 DEF FeasibilityStep, Stuck, Adjtol, Getfes, result
    <3>4. QED
      BY <2>7, <3>1, <3>2, <3>3 DEF Feasible
  <2>8. CASE Minimise
    BY <2>2, <2>8 DEF Minimise, StartMinfun, StopMinfun, GoOn, Lsrch, ReduceTol, PartsInv, Seeking
  <2>9. QED
    BY <2>3, <2>4, <2>5, <2>6, <2>7, <2>8 DEF Next
<1>3. QED
  BY <1>1, <1>2

\* Without a free variable minfun is never called.
LEMMA NothingMovesAlways == Spec => []NothingMoves
<1>1. Init => NothingMoves
  BY TolminAssumption DEF Init, NothingMoves
<1>2. ArrayInv /\ PartsInv /\ Found /\ ValuesAtHand /\ NothingMoves /\ [Next]_vars => NothingMoves'
  BY NothingMovesStep
<1>3. QED
  BY <1>1, <1>2, ArrayAlways, PartsAlways, FoundAlways, ValuesAlways, PTL DEF Spec

\* Who ends the search, or the work of minfun.
LEMMA WhoEnds ==
    ASSUME [Next]_vars, pc' \in {"reduce", "return"}
    PROVE  \/ UNCHANGED vars \/ CheckBounds \/ BoundsDone \/ ConstraintsDone
           \/ StopMinfun \/ GoOn \/ Lsrch \/ ReduceTol
BY DEF Next, Initialise, Satact, Conres, Getd, Bound, Feasible, Minimise, vars,
         FixVariable, FixEnds, AddBounds, BoundsAdded, ShiftActive, FlagActive,
         ActiveChecked, DeleteFlagged, FlaggedDeleted, StartConres, PartActive,
         PartSatisfied, PartViolated, Parted, GetdDrops, GetdKeeps, NoDirection,
         DirectionFound, AddDegenerate, SdegenDrops, SdegenKeeps, Stepbd, PassThrough,
         StepEnds, FeasibilityStep, Stuck, Adjtol, StartMinfun, vars, Getfes, AfterConres

\* The search ends, or the work of minfun does, with a point that is what info says.
LEMMA AnswerStep ==
    ASSUME ArrayInv, PartsInv, WithinLimit, Signs, Found, ValuesAtHand, NothingMoves, Answer, [Next]_vars
    PROVE  Answer'
<1> USE DEF mtot
<1> SUFFICES ASSUME pc' \in {"reduce", "return"} PROVE Answer'
  BY DEF Answer
<1>1. CASE UNCHANGED vars
  BY <1>1 DEF vars, point, set, result, Answer, FirstOrder
<1>2. CASE CheckBounds
  <2>1. info = 4 /\ nfvals = 0
    BY <1>2 DEF CheckBounds, ArrayInv, Complete, ValuesAtHand, Filling
  <2>2. QED
    BY <1>2, <2>1 DEF CheckBounds, Answer
<1>3. CASE BoundsDone
  <2>1. msat = Len(iact) /\ msat \in Nat
    BY <1>3, ArrayFacts DEF BoundsDone, Found
  <2>2. QED
    BY <1>3, <2>1 DEF BoundsDone, Getfes
<1>4. CASE ConstraintsDone
  <2>1. pc = "found" /\ msat = Len(iact) /\ msat \in Nat
    BY <1>4, ArrayFacts DEF ConstraintsDone, Found
  <2>2. meql = N /\ pc' = "return" /\ nfvals' = nfvals /\ info' = info
    BY <1>4, <2>1 DEF ConstraintsDone
  <2>3. nfvals = 0 /\ info # 1
    BY <2>1, <2>2 DEF NothingMoves, Filling
  <2>4. QED
    BY <2>2, <2>3 DEF Answer
<1>5. CASE StopMinfun
  <2>1. /\ pc = "kt" /\ pc' = "reduce" /\ x' = x /\ g' = g /\ tol' = tol /\ nact' = nact /\ nact \in Nat
        /\ info' = 1 => Converged
    BY <1>5, ArrayFacts DEF StopMinfun, point, set
  <2>2. Converged => (tol # "exact" /\ nact > 0) \/ FirstOrder(x, g)
    BY <2>1, ConvergedIsFirstOrder
  <2>3. FirstOrder(x, g)' <=> FirstOrder(x, g)
    BY <2>1 DEF FirstOrder
  <2>4. QED
    BY <2>1, <2>2, <2>3 DEF Answer
<1>6. CASE GoOn
  <2>1. /\ pc = "kt" /\ pc' = "reduce" /\ tol' = tol /\ nact' = nact
        /\ \/ info' = 8
           \/ tol # "exact" /\ \E p \in meql + 1 .. nact : Res(iact[p], x) > 0
    BY <1>6 DEF GoOn, set
  <2>2. (\E p \in meql + 1 .. nact : Res(iact[p], x) > 0) => nact > 0
    BY ArrayFacts
  <2>3. QED
    BY <2>1, <2>2 DEF Answer
<1>7. CASE Lsrch
  BY <1>7 DEF Lsrch, Answer
<1>8. CASE ReduceTol
  <2>1. /\ pc = "reduce" /\ pc' = "return" /\ caller = "minfun" /\ x' = x /\ g' = g /\ nfvals' = nfvals
        /\ least' = least /\ nact \in Nat
        /\ info' = 8 \/ (info' = info /\ (tol = "exact" \/ nact = 0))
    BY <1>8, ArrayFacts DEF ReduceTol, point, PartsInv, Seeking
  <2>2. x \in Inside /\ Objective[x] = least
    BY <2>1 DEF PartsInv, InMinfun, ValuesAtHand, Evaluated
  <2>3. info' = 1 => FirstOrder(x, g)
    BY <2>1 DEF Answer
  <2>4. FirstOrder(x, g)' <=> FirstOrder(x, g)
    BY <2>1 DEF FirstOrder
  <2>5. QED
    BY <2>1, <2>2, <2>3, <2>4 DEF Answer
<1>9. QED
  BY <1>1, <1>2, <1>3, <1>4, <1>5, <1>6, <1>7, <1>8, WhoEnds

\* The point that is left is always what info says.
LEMMA AnswerAlways == Spec => []Answer
<1>1. Init => Answer
  BY DEF Init, Answer
<1>2. ArrayInv /\ PartsInv /\ WithinLimit /\ Signs /\ Found /\ ValuesAtHand
      /\ NothingMoves /\ Answer /\ [Next]_vars => Answer'
  BY AnswerStep
<1>3. QED
  BY <1>1, <1>2, ArrayAlways, PartsAlways, EvaluationsAlways, SignsAlways, FoundAlways, ValuesAlways,
     NothingMovesAlways, PTL DEF Spec

\* The point that is left is inside the bounds and has the least value found since
\* satact shifted it last; INFO=1 is only said of a point that meets the first order
\* conditions, and no search for a feasible point fails.
THEOREM RightAnswer == Spec => []AnswerIsRight
<1>1. Answer /\ Found => AnswerIsRight
  BY DEF Answer, Found, AnswerIsRight, LeastIsReturned, SolutionIsOne, BoundsAreMet
<1>2. QED
  BY <1>1, AnswerAlways, FoundAlways, PTL

-----------------------------------------------------------------------------
(* lsrch, for every bound on the step, every limit on the evaluations and  *)
(* every objective function along the direction.                           *)

\* The best length is one that was tried, and no other is better.
Best ==
    /\ stpopt \in tried /\ fopt = value[stpopt]
    /\ \A s \in tried : fopt <= value[s]
    /\ label = "return" => step = stpopt /\ ftrial = fopt

\* There is an evaluation left wherever one may follow.
Limit ==
    /\ icount <= Evaluations
    /\ label \in {"evaluate", "test", "next"} => icount < Evaluations

\* A length outside the bracket.
Beyond(s) == s <= stplow \/ (stphgh > 0 /\ s >= stphgh)

\* What was tried is outside of the bracket, but for the length that is being
\* judged; while there is no upper end, the last length is the lower one.
Bracket ==
    /\ stphgh > 0 => stplow < stphgh
    /\ label \in {"evaluate", "test"} => stplow < step /\ (stphgh > 0 => step < stphgh)
    /\ label = "evaluate" => \A s \in tried : Beyond(s)
    /\ label = "test" => \A s \in tried \ {step} : Beyond(s)
    /\ label = "next" => (\A s \in tried : Beyond(s)) /\ (stphgh = 0 => step = stplow)

\* After the first evaluation a length other than 0 is known.
Tried == label # "evaluate" => tried # {0}

\* What a typed state gives, variable by variable.
LEMMA Typed ==
    SearchTypeOK <=>
    /\ value \in Values /\ slope \in Slopes
    /\ label \in {"evaluate", "test", "next", "restore", "return"}
    /\ step \in Lengths /\ stplow \in Lengths /\ stphgh \in Lengths
    /\ stpopt \in Lengths /\ sbase \in Lengths
    /\ ftrial \in Int /\ fopt \in Int /\ dgopt \in Int /\ fbase \in Int /\ ddotgb \in Int
    /\ icount \in Nat /\ tried \subseteq Lengths
BY Zenon DEF SearchTypeOK

\* Values and slopes of lengths are integers.
LEMMA ValuesAreIntegers ==
    ASSUME SearchTypeOK, NEW s \in Lengths
    PROVE  value[s] \in Int /\ slope[s] \in Int
<1>1. value \in [Lengths -> Int] /\ slope \in [Lengths -> Int]
  BY SearchAssumption DEF SearchTypeOK
<1>2. QED
  BY <1>1

\* lsrch: its variables keep their types, whatever is evaluated.
THEOREM SearchTypeCorrect == SearchSpec => []SearchTypeOK
<1>1. SearchInit => SearchTypeOK
  BY SearchAssumption DEF SearchInit, SearchTypeOK, Lengths, Abs
<1>2. SearchTypeOK /\ [SearchNext]_lvars => SearchTypeOK'
  <2> SUFFICES ASSUME SearchTypeOK, [SearchNext]_lvars PROVE SearchTypeOK'
    OBVIOUS
  <2>0. step \in Lengths
    BY Typed
  <2>1. CASE Evaluate
    <3>1. value[step] \in Int /\ slope[step] \in Int
      BY <2>0, ValuesAreIntegers
    <3>2. Abs(slope[step]) \in Int
      BY <3>1 DEF Abs
    <3>3. stpopt' \in Lengths /\ fopt' \in Int /\ dgopt' \in Int
      BY <2>0, <2>1, <3>1, <3>2, Typed DEF Evaluate
    <3>4. ftrial' \in Int /\ icount' \in Nat /\ tried' \subseteq Lengths
      BY <2>0, <2>1, <3>1, Typed DEF Evaluate
    <3>5. label' \in {"restore", "test"}
      BY <2>1 DEF Evaluate
    <3>6. UNCHANGED <<value, slope, step, stplow, stphgh, sbase, fbase, ddotgb>>
      BY <2>1 DEF Evaluate
    <3>7. QED
      BY <3>3, <3>4, <3>5, <3>6, Typed, Zenon DEF SearchTypeOK
  <2>2. CASE TestUpper
    BY <2>2, Typed DEF TestUpper, SearchTypeOK
  <2>3. CASE TestLower
    <3>1. ddotgb' \in Int /\ fbase' \in Int /\ sbase' \in Lengths /\ stplow' \in Lengths
      BY <2>0, <2>3, ValuesAreIntegers, Typed DEF TestLower
    <3>2. label' \in {"restore", "next"}
      BY <2>3 DEF TestLower
    <3>3. UNCHANGED <<value, slope, step, ftrial, stphgh, stpopt, fopt, dgopt, icount, tried>>
      BY <2>3 DEF TestLower
    <3>4. QED
      BY <3>1, <3>2, <3>3, Typed, Zenon DEF SearchTypeOK
  <2>4. CASE NextTrial
    <3>1. step' \in Lengths
      <4>1. NextLengths \subseteq Lengths
        <5>1. /\ step \in 0 .. StepBound /\ stplow \in 0 .. StepBound
              /\ stphgh \in 0 .. StepBound /\ StepBound \in Nat
          BY Typed, SearchAssumption DEF Lengths
        <5>2. step + 1 .. StepBound \subseteq 0 .. StepBound
          BY <5>1
        <5>3. stplow + 1 .. stphgh - 1 \subseteq 0 .. StepBound
          BY <5>1
        <5>4. QED
          BY <5>2, <5>3 DEF NextLengths, Lengths
      <4>2. QED
        BY <2>0, <2>4, <4>1 DEF NextTrial
    <3>2. label' \in {"restore", "evaluate"}
      BY <2>4 DEF NextTrial
    <3>3. UNCHANGED <<value, slope, ftrial, stplow, stphgh, stpopt, fopt, dgopt,
                      sbase, fbase, ddotgb, icount, tried>>
      BY <2>4 DEF NextTrial
    <3>4. QED
      BY <3>1, <3>2, <3>3, Typed, Zenon DEF SearchTypeOK
  <2>5. CASE Restore
    BY <2>5, Typed DEF Restore, SearchTypeOK
  <2>6. CASE UNCHANGED lvars
    BY <2>6 DEF lvars, SearchTypeOK
  <2>7. QED
    BY <2>1, <2>2, <2>3, <2>4, <2>5, <2>6 DEF SearchNext
<1>3. QED
  BY <1>1, <1>2, PTL DEF SearchSpec

\* The best length and its value belong together, all through the loop.
LEMMA BestAlways == SearchSpec => []Best
<1>1. SearchInit => Best
  BY SearchAssumption DEF SearchInit, Best, Lengths
<1>2. SearchTypeOK /\ Best /\ [SearchNext]_lvars => Best'
  <2> SUFFICES ASSUME SearchTypeOK, Best, [SearchNext]_lvars PROVE Best'
    OBVIOUS
  <2>0. /\ value \in [0 .. StepBound -> Int] /\ slope \in [0 .. StepBound -> Int]
        /\ \A s \in tried : value[s] \in Int
    BY SearchAssumption DEF SearchTypeOK, Lengths
  <2>1. CASE Evaluate
    <3>1. value' = value /\ tried' = tried \union {step} /\ value[step] \in Int /\ fopt \in Int
      BY <2>0, <2>1 DEF Evaluate, SearchTypeOK, Lengths
    <3>2. label' # "return"
      BY <2>1 DEF Evaluate
    <3>3. CASE IsBest(value[step], slope[step])
      <4>1. stpopt' = step /\ fopt' = value[step]
        BY <2>1, <3>3 DEF Evaluate
      <4>2. value[step] <= fopt
        BY <3>1, <3>3 DEF IsBest
      <4>3. \A s \in tried : value[step] <= value[s]
        BY <2>0, <3>1, <4>2 DEF Best
      <4>4. QED
        BY <3>1, <3>2, <4>1, <4>3 DEF Best
    <3>4. CASE ~ IsBest(value[step], slope[step])
      <4>1. stpopt' = stpopt /\ fopt' = fopt
        BY <2>1, <3>4 DEF Evaluate
      <4>2. fopt <= value[step]
        BY <3>1, <3>4 DEF IsBest
      <4>3. QED
        BY <3>1, <3>2, <4>1, <4>2 DEF Best
    <3>5. QED
      BY <3>3, <3>4
  <2>2. CASE TestUpper
    BY <2>2 DEF TestUpper, Best
  <2>3. CASE TestLower
    BY <2>3 DEF TestLower, Best
  <2>4. CASE NextTrial
    BY <2>4 DEF NextTrial, Best
  <2>5. CASE Restore
    BY <2>5 DEF Restore, Best
  <2>6. CASE UNCHANGED lvars
    BY <2>6 DEF lvars, Best
  <2>7. QED
    BY <2>1, <2>2, <2>3, <2>4, <2>5, <2>6 DEF SearchNext
<1>3. QED
  BY <1>1, <1>2, SearchTypeCorrect, PTL DEF SearchSpec

\* lsrch answers with the best length it tried, the start included.
THEOREM BestIsReturned == SearchSpec => []ReturnsBest
<1>1. Best => ReturnsBest
  BY DEF Best, ReturnsBest
<1>2. QED
  BY <1>1, BestAlways, PTL

\* The loop invariant of the count of evaluations.
LEMMA LimitAlways == SearchSpec => []Limit
<1>1. SearchInit => Limit
  BY SearchAssumption DEF SearchInit, Limit
<1>2. SearchTypeOK /\ Limit /\ [SearchNext]_lvars => Limit'
  <2> SUFFICES ASSUME SearchTypeOK, Limit, [SearchNext]_lvars PROVE Limit'
    OBVIOUS
  <2> USE SearchAssumption DEF Limit, SearchTypeOK
  <2>1. CASE Evaluate
    BY <2>1 DEF Evaluate, NoneLeft
  <2>2. CASE TestUpper
    BY <2>2 DEF TestUpper
  <2>3. CASE TestLower
    BY <2>3 DEF TestLower
  <2>4. CASE NextTrial
    BY <2>4 DEF NextTrial
  <2>5. CASE Restore
    BY <2>5 DEF Restore
  <2>6. CASE UNCHANGED lvars
    BY <2>6 DEF lvars
  <2>7. QED
    BY <2>1, <2>2, <2>3, <2>4, <2>5, <2>6 DEF SearchNext
<1>3. QED
  BY <1>1, <1>2, SearchTypeCorrect, PTL DEF SearchSpec

\* nfvals never passes nfmax, although the test is one of equality.
THEOREM LimitIsAlwaysMet == SearchSpec => []LimitIsMet
<1>1. Limit => LimitIsMet
  BY DEF Limit, LimitIsMet
<1>2. QED
  BY <1>1, LimitAlways, PTL

\* The loop invariant of the bracket.
LEMMA BracketAlways == SearchSpec => []Bracket
<1>1. SearchInit => Bracket
  BY DEF SearchInit, Bracket, Beyond
<1>2. SearchTypeOK /\ Bracket /\ [SearchNext]_lvars => Bracket'
  <2> SUFFICES ASSUME SearchTypeOK, Bracket, [SearchNext]_lvars PROVE Bracket'
    OBVIOUS
  <2>0. /\ step \in Nat /\ stplow \in Nat /\ stphgh \in Nat /\ StepBound \in Nat
        /\ \A s \in tried : s \in Nat
    BY SearchAssumption DEF SearchTypeOK, Lengths
  <2>1. CASE Evaluate
    BY <2>0, <2>1 DEF Evaluate, Bracket, Beyond
  <2>2. CASE TestUpper
    BY <2>0, <2>2 DEF TestUpper, Bracket, Beyond
  <2>3. CASE TestLower
    BY <2>0, <2>3 DEF TestLower, IsUpper, Bracket, Beyond
  <2>4. CASE NextTrial
    <3>1. CASE NextLengths = {}
      BY <2>4, <3>1 DEF NextTrial, Bracket, Beyond
    <3>2. CASE NextLengths # {}
      <4>1. /\ label = "next" /\ label' = "evaluate" /\ step' \in NextLengths
            /\ UNCHANGED <<stplow, stphgh, tried>>
        BY <2>4, <3>2 DEF NextTrial
      <4>2. stplow < step' /\ (stphgh > 0 => step' < stphgh)
        BY <2>0, <4>1 DEF NextLengths, Bracket
      <4>3. QED
        BY <2>0, <4>1, <4>2 DEF Bracket, Beyond
    <3>3. QED
      BY <3>1, <3>2
  <2>5. CASE Restore
    BY <2>0, <2>5 DEF Restore, Bracket, Beyond
  <2>6. CASE UNCHANGED lvars
    BY <2>6 DEF lvars, Bracket, Beyond
  <2>7. QED
    BY <2>1, <2>2, <2>3, <2>4, <2>5, <2>6 DEF SearchNext
<1>3. QED
  BY <1>1, <1>2, SearchTypeCorrect, PTL DEF SearchSpec

\* Each trial of lsrch lies inside the bracket and is a new one.
THEOREM BracketAlwaysShrinks == SearchSpec => []BracketShrinks
<1>1. SearchTypeOK /\ Bracket => BracketShrinks
  <2> SUFFICES ASSUME SearchTypeOK, Bracket PROVE BracketShrinks
    OBVIOUS
  <2>1. step \in Nat /\ stplow \in Nat /\ stphgh \in Nat
    BY SearchAssumption DEF SearchTypeOK, Lengths
  <2>2. QED
    BY <2>1 DEF Bracket, Beyond, BracketShrinks
<1>2. QED
  BY <1>1, SearchTypeCorrect, BracketAlways, PTL

\* lsrch evaluates before it does anything else.
LEMMA TriedAlways == SearchSpec => []Tried
<1>1. SearchInit => Tried
  BY DEF SearchInit, Tried
<1>2. SearchTypeOK /\ Bracket /\ Tried /\ [SearchNext]_lvars => Tried'
  <2> SUFFICES ASSUME SearchTypeOK, Bracket, Tried, [SearchNext]_lvars PROVE Tried'
    OBVIOUS
  <2>1. CASE Evaluate
    <3>1. stplow < step /\ step \in Nat /\ stplow \in Nat
      BY <2>1, Typed, SearchAssumption DEF Evaluate, Bracket, Lengths
    <3>2. QED
      BY <2>1, <3>1 DEF Evaluate, Tried
  <2>2. CASE TestUpper
    BY <2>2 DEF TestUpper, Tried
  <2>3. CASE TestLower
    BY <2>3 DEF TestLower, Tried
  <2>4. CASE NextTrial
    BY <2>4 DEF NextTrial, Tried
  <2>5. CASE Restore
    BY <2>5 DEF Restore, Tried
  <2>6. CASE UNCHANGED lvars
    BY <2>6 DEF lvars, Tried
  <2>7. QED
    BY <2>1, <2>2, <2>3, <2>4, <2>5, <2>6 DEF SearchNext
<1>3. QED
  BY <1>1, <1>2, SearchTypeCorrect, BracketAlways, PTL DEF SearchSpec

\* lsrch keeps what StepChoice promises to minfun: each evaluation is a Try of a
\* length that has not been tried (it is strictly inside the bracket),
\* the restoring of the best point is the Answer, and all else is a stutter.
THEOREM SearchImplementsChoice == SearchSpec => KeepsPromise
<1>1. SearchInit => Choice!SInit
  BY SearchAssumption DEF SearchInit, Choice!SInit, Choice!Lengths, Lengths
<1>2. /\ SearchTypeOK /\ Best /\ Limit /\ Bracket /\ Tried /\ [SearchNext]_lvars
      => [Choice!Try \/ Choice!Answer]_(Choice!svars)
  <2> SUFFICES ASSUME SearchTypeOK, Best, Limit, Bracket, Tried, [SearchNext]_lvars
               PROVE  [Choice!Try \/ Choice!Answer]_(Choice!svars)
    OBVIOUS
  <2>1. CASE Evaluate
    <3>1. /\ label = "evaluate" /\ label' # "return" /\ value' = value
          /\ tried' = tried \union {step}
      BY <2>1 DEF Evaluate
    <3>2. step \in (1 .. StepBound) \ tried
      <4>1. step \in Nat /\ stplow \in Nat /\ stphgh \in Nat /\ step <= StepBound
        BY SearchAssumption DEF SearchTypeOK, Lengths
      <4>2. stplow < step /\ (stphgh > 0 => step < stphgh) /\ \A s \in tried : Beyond(s)
        BY <3>1 DEF Bracket
      <4>3. ~ Beyond(step)
        BY <4>1, <4>2 DEF Beyond
      <4>4. QED
        BY <4>1, <4>2, <4>3, SearchAssumption
    <3>3. icount < Evaluations /\ icount \in Nat /\ icount' = icount + 1
      BY <2>1 DEF Evaluate, Limit, SearchTypeOK
    <3>4. Choice!Try
      BY <3>1, <3>2, <3>3, SearchAssumption DEF Choice!Try
    <3>5. QED
      BY <3>4
  <2>2. CASE TestUpper
    BY <2>2 DEF TestUpper, Choice!svars
  <2>3. CASE TestLower
    BY <2>3 DEF TestLower, Choice!svars
  <2>4. CASE NextTrial
    BY <2>4 DEF NextTrial, Choice!svars
  <2>5. CASE Restore
    <3>1. /\ label = "restore" /\ label' = "return" /\ step' = stpopt
          /\ UNCHANGED <<value, tried, icount>>
      BY <2>5 DEF Restore
    <3>2. tried # {0}
      BY <3>1 DEF Tried
    <3>3. stpopt \in Choice!Lengths
      BY DEF SearchTypeOK, Lengths, Choice!Lengths
    <3>4. Choice!BestOf(stpopt, tried)
      BY DEF Best, Choice!BestOf
    <3>5. Choice!Answer
      BY <3>1, <3>2, <3>3, <3>4 DEF Choice!Answer
    <3>6. QED
      BY <3>5
  <2>6. CASE UNCHANGED lvars
    BY <2>6 DEF lvars, Choice!svars
  <2>7. QED
    BY <2>1, <2>2, <2>3, <2>4, <2>5, <2>6 DEF SearchNext
<1>3. QED
  BY <1>1, <1>2, SearchTypeCorrect, BestAlways, LimitAlways, BracketAlways, TriedAlways, PTL
     DEF SearchSpec, KeepsPromise, Choice!SSpec

-----------------------------------------------------------------------------
(* What minfun makes of lsrch.                                             *)

\* Each evaluation is one of a new length.
Counting == 0 \in tried /\ IsFiniteSet(tried) /\ icount = Cardinality(tried \ {0})

\* The count of lsrch is that of the lengths it has tried.
LEMMA CountingAlways == SearchSpec => []Counting
<1>1. SearchInit => Counting
  <2> SUFFICES ASSUME SearchInit PROVE Counting
    OBVIOUS
  <2>1. tried \ {0} = {} /\ icount = 0 /\ tried = {0}
    BY DEF SearchInit
  <2>2. QED
    BY <2>1, FS_EmptySet, FS_Singleton DEF Counting
<1>2. SearchTypeOK /\ Bracket /\ Counting /\ [SearchNext]_lvars => Counting'
  <2> SUFFICES ASSUME SearchTypeOK, Bracket, Counting, [SearchNext]_lvars PROVE Counting'
    OBVIOUS
  <2>1. CASE Evaluate
    <3>1. /\ label = "evaluate" /\ step \in Nat /\ stplow \in Nat /\ stphgh \in Nat
          /\ \A s \in tried : s \in Nat
      BY <2>1, Typed, SearchAssumption DEF Evaluate, Lengths
    <3>2. step # 0 /\ step \notin tried
      BY <3>1 DEF Bracket, Beyond
    <3>3. /\ tried' = tried \union {step} /\ icount' = icount + 1
          /\ tried' \ {0} = (tried \ {0}) \union {step}
      BY <2>1, <3>2 DEF Evaluate
    <3>4. IsFiniteSet(tried \ {0}) /\ IsFiniteSet(tried')
      BY <3>3, FS_AddElement, FS_RemoveElement DEF Counting
    <3>5. Cardinality(tried' \ {0}) = Cardinality(tried \ {0}) + 1
      BY <3>2, <3>3, <3>4, FS_AddElement
    <3>6. QED
      BY <3>3, <3>4, <3>5 DEF Counting
  <2>2. CASE TestUpper \/ TestLower \/ NextTrial \/ Restore \/ UNCHANGED lvars
    BY <2>2 DEF TestUpper, TestLower, NextTrial, Restore, lvars, Counting
  <2>3. QED
    BY <2>1, <2>2 DEF SearchNext
<1>3. QED
  BY <1>1, <1>2, SearchTypeCorrect, BracketAlways, PTL DEF SearchSpec

\* minfun calls lsrch: the step to the boundary is the bound of the search, the
\* evaluations that are left its limit, and its values are those of the points
\* along the direction.
Called ==
    /\ pc = "lsrch" /\ nfvals < nfmax
    /\ stepcb = StepBound /\ nfmax - nfvals = Evaluations
    /\ \A s \in Lengths : value[s] = Objective[Along(s)]

\* What lsrch leaves behind, step by step, is among the choices of the one action
\* Lsrch that stands for it in minfun: the lengths tried, the best of them and the
\* number of evaluations.
THEOREM LsrchIsTheSearch ==
    SearchSpec =>
        [](label = "return" /\ Called =>
              /\ Tries(tried \ {0}) /\ BestLength(step, tried \ {0})
              /\ icount = Cardinality(tried \ {0}))
<1>1. /\ SearchTypeOK /\ Best /\ Limit /\ Tried /\ Counting
      => (label = "return" /\ Called =>
             /\ Tries(tried \ {0}) /\ BestLength(step, tried \ {0})
             /\ icount = Cardinality(tried \ {0}))
  <2> SUFFICES ASSUME SearchTypeOK, Best, Limit, Tried, Counting, label = "return", Called
               PROVE  /\ Tries(tried \ {0}) /\ BestLength(step, tried \ {0})
                      /\ icount = Cardinality(tried \ {0})
    OBVIOUS
  <2>1. 0 \in tried /\ icount = Cardinality(tried \ {0}) /\ icount <= Evaluations
    BY DEF Counting, Limit
  <2>2. tried \ {0} # {} /\ (tried \ {0}) \union {0} = tried
    BY <2>1 DEF Tried
  <2>3. tried \subseteq 0 .. stepcb /\ stepcb \in Nat
    BY SearchAssumption, Typed DEF Called, Lengths
  <2>4. tried \ {0} \subseteq 1 .. stepcb
    BY <2>3
  <2>5. Tries(tried \ {0})
    BY <2>1, <2>2, <2>4 DEF Tries, Called
  <2>6. step \in tried /\ \A t \in tried : value[step] <= value[t]
    BY DEF Best
  <2>7. \A t \in tried : value[t] = Objective[Along(t)]
    BY Typed DEF Called
  <2>8. BestLength(step, tried \ {0})
    BY <2>2, <2>6, <2>7 DEF BestLength
  <2>9. QED
    BY <2>1, <2>5, <2>8
<1>2. QED
  BY <1>1, SearchTypeCorrect, BestAlways, LimitAlways, TriedAlways, CountingAlways, PTL
=============================================================================
