------------------------------- MODULE Tolmin -------------------------------
(***************************************************************************)
(* TOLMIN, the minimiser with bounds that the example problems call when a *)
(* run is done: tolmin, and getmin and the subroutines below it, without   *)
(* linear constraints (m = meq = 0).  lsrch has a module of its own,       *)
(* LineSearch; here it is one action, with what StepChoice promises.       *)
(*                                                                         *)
(* Variables are 1 .. N.  Constraint j is the lower bound of variable j    *)
(* for j <= N and the upper bound of variable j - N above.  Points have    *)
(* integer coordinates, arithmetic is exact, and a branch the code takes   *)
(* only after a rounding error is left out.  Z and U, the metric that      *)
(* zbfgs improves, are not kept: what they decide (a direction, the sign   *)
(* of a multiplier while the gradient can still be reduced, the most       *)
(* violated of several constraints) is a choice.                           *)
(***************************************************************************)
EXTENDS Integers, Sequences, FiniteSets

CONSTANTS
    N,              \* n, the number of variables
    Lower, Upper,   \* xl and xu
    Coordinates,    \* what a coordinate can be
    Starts,         \* the points a search may start from
    Objective,      \* funmin inside the bounds
    Gradients,      \* what granal may return, a set of sign vectors by point
    nfmax,          \* limit on the evaluations
    CoarseTol,      \* the residuals that the first tolerance takes for none
    MaxDrops        \* bound on the constraints sdegen gives up by choice

Vars == 1 .. N
Constraints == 1 .. 2 * N
Points == [Vars -> Coordinates]
Inside == {p \in Points : \A v \in Vars : Lower[v] <= p[v] /\ p[v] <= Upper[v]}
Directions == [Vars -> {-1, 0, 1}]

ASSUME TolminAssumption ==
    /\ N \in Nat \ {0} /\ Coordinates \subseteq Int
    /\ \A a, b \in Coordinates : a .. b \subseteq Coordinates
    /\ Lower \in Points /\ Upper \in Points
    /\ Starts \subseteq Points
    /\ Objective \in [Inside -> Int]
    /\ Gradients \in [Inside -> SUBSET Directions]
    /\ \A p \in Inside : Gradients[p] # {}
    /\ nfmax \in Nat \ {0} /\ CoarseTol \in Nat /\ MaxDrops \in Nat

VARIABLES
    pc,                 \* the part of the code that comes next
    caller,             \* what conres works for: getfes, called for the bounds
                        \* or again for all constraints, or minfun
    k,                  \* the loop counter of that part
    x, f, g,
    iact,               \* all constraints: nact active ones first, msat satisfied
    nact, msat, meql,   \* ones in all; meql active ones never leave
    mdeg, msatk,        \* conres: the degenerate ones end at mdeg
    seeking,            \* conres: idiff > 0
    bres,               \* conres: residuals, then steps to the boundaries
    d, ddotg,           \* the direction and its slope
    stepcb, indxbd,     \* the step to the nearest boundary, and its place in iact
    drops,              \* sdegen: constraints given up by choice
    tol,                \* residuals it takes for none
    flagged,            \* satact: constraints to be deleted
    sumres, sumrsk, itest,  \* getfes: the sum of the violations, and its test
    fprev, diff,        \* minfun: the value before, and the decrease
    diffset,            \* history: diff has a value
    moved,              \* minfun: iterc > iterk
    nfvals, info,
    least               \* history: least value since satact last shifted x

point == <<x, f, g>>
set == <<iact, nact, msat, meql>>
residuals == <<mdeg, msatk, seeking, bres, sumres>>
motion == <<d, ddotg, stepcb, indxbd, drops>>
feasibility == <<flagged, sumrsk, itest>>
progress == <<fprev, diff, diffset, moved>>
result == <<nfvals, info, least>>

vars == <<pc, caller, k, point, set, residuals, motion, tol, feasibility, progress, result>>

-----------------------------------------------------------------------------
(* Constraints and the array of them.                                      *)

mtot == Len(iact)

Var(j) == IF j <= N THEN j ELSE j - N

\* The residual of constraint j at p: negative where it is violated.
Res(j, p) == IF j <= N THEN p[j] - Lower[j] ELSE Upper[j - N] - p[j - N]

\* The product of a vector with the normal of constraint j.
Slope(j, e) == IF j <= N THEN -e[j] ELSE e[j - N]

Swap(a, p, q) == [a EXCEPT ![p] = a[q], ![q] = a[p]]

\* addcon: constraint p of the array becomes active.  Its variable is free, so
\* that it depends on none of the others.
Addcon(a, n, p) == Swap(a, p, n + 1)

\* Mutant: the deleted constraint is overwritten, not moved behind the others.
DelconOverwrites(a, n, p) ==
    [q \in DOMAIN a |-> IF q < p \/ q >= n THEN a[q] ELSE a[q + 1]]

\* delcon: the active ones behind p move up, and p goes to the place that is
\* left.
Delcon(a, n, p) ==
    [q \in DOMAIN a |-> IF q < p \/ q > n THEN a[q] ELSE IF q = n THEN a[p] ELSE a[q + 1]]

Active == {iact[p] : p \in 1 .. nact}
FreeVars == Vars \ {Var(j) : j \in Active}

\* Some free variable can still reduce the function.
Reducible == \E v \in FreeVars : g[v] # 0

\* Mutant: multipliers are not looked at.
NeverWrongSign(p) == FALSE

\* A multiplier has an unacceptable sign: leaving the constraint goes downhill.
WrongSign(p) == Slope(iact[p], g) > 0

Tolerance == IF tol = "coarse" THEN CoarseTol ELSE 0

DotProduct(e, h) == Cardinality({v \in Vars : e[v] * h[v] > 0})
                    - Cardinality({v \in Vars : e[v] * h[v] < 0})

Zero == [v \in Vars |-> 0]

\* Types.
TypeOK ==
    /\ x \in Points /\ f \in Int /\ g \in Directions
    /\ iact \in Seq(Constraints) /\ Len(iact) <= 2 * N
    /\ {nact, msat, mdeg, msatk} \subseteq 0 .. Len(iact)
    /\ meql \in 0 .. N /\ nact <= N
    /\ bres \in [Constraints -> Int]
    /\ seeking \in BOOLEAN /\ moved \in BOOLEAN
    /\ d \in Directions /\ {ddotg, stepcb, sumres, sumrsk} \subseteq Int
    /\ indxbd \in 0 .. Len(iact)
    /\ tol \in {"coarse", "fine", "exact"} /\ flagged \subseteq Constraints
    /\ {fprev, diff} \subseteq Int /\ diffset \in BOOLEAN
    /\ nfvals \in 0 .. nfmax /\ info \in 0 .. 8

Init ==
    /\ pc = "initzu" /\ caller = "bounds" /\ k = 1
    /\ x \in Starts /\ f = 0 /\ g = Zero
    /\ iact = <<>> /\ nact = 0 /\ msat = 0 /\ meql = 0
    /\ mdeg = 0 /\ msatk = 0 /\ seeking = FALSE
    /\ bres = [j \in Constraints |-> 0] /\ sumres = 0
    /\ d = Zero /\ ddotg = 0 /\ stepcb = 0 /\ indxbd = 0 /\ drops = 0
    /\ tol = "coarse" /\ flagged = {} /\ sumrsk = 0 /\ itest = 0
    /\ fprev = 0 /\ diff = 0 /\ diffset = FALSE /\ moved = FALSE
    /\ nfvals = 0 /\ info = 4 /\ least = 0


-----------------------------------------------------------------------------
(* initzu and the start of minflc: constraints enter the array.            *)

\* A lower bound above the upper one ends the search with info = 4.
CheckBounds ==
    /\ pc = "initzu"
    /\ IF \E v \in Vars : Lower[v] > Upper[v] THEN pc' = "return" /\ UNCHANGED info
       ELSE pc' = "fix" /\ info' = 1
    /\ UNCHANGED <<caller, k, point, set, residuals, motion, tol, feasibility, progress, nfvals, least>>

\* A variable whose bounds are equal takes their value, for good: its upper
\* bound is active and stays so.
FixVariable ==
    /\ pc = "fix" /\ k <= N
    /\ IF Lower[k] = Upper[k]
          THEN /\ x' = [x EXCEPT ![k] = Upper[k]]
               /\ iact' = Append(iact, N + k)
               /\ meql' = meql + 1 /\ nact' = nact + 1 /\ msat' = msat + 1
          ELSE UNCHANGED <<x, set>>
    /\ k' = k + 1
    /\ UNCHANGED <<pc, caller, f, g, residuals, motion, tol, feasibility, progress, result>>

FixEnds ==
    /\ pc = "fix" /\ k > N
    /\ pc' = "addbounds" /\ k' = 1
    /\ UNCHANGED <<caller, point, set, residuals, motion, tol, feasibility, progress, result>>

AddBounds ==
    /\ pc = "addbounds" /\ k <= N
    /\ iact' = IF Lower[k] < Upper[k] THEN iact \o <<k, N + k>> ELSE iact
    /\ k' = k + 1
    /\ UNCHANGED <<pc, caller, point, nact, msat, meql, residuals, motion, tol, feasibility,
                   progress, result>>

\* A call of getfes.
Getfes(why) ==
    /\ caller' = why /\ info' = 0
    /\ pc' = "satact" /\ k' = 1 /\ flagged' = {}

BoundsAdded ==
    /\ pc = "addbounds" /\ k > N
    /\ Getfes("bounds")
    /\ UNCHANGED <<point, set, residuals, motion, tol, sumrsk, itest, progress, nfvals, least>>

-----------------------------------------------------------------------------
(* satact: the active constraints are made to hold with equality.          *)

\* Column k of Z moves x: no variable of an earlier active constraint moves,
\* that of this one takes its bound, and any other may move with it.
Shifted(y, p) ==
    /\ y \in Points
    /\ Res(iact[p], y) = 0
    /\ \A q \in 1 .. p - 1 : y[Var(iact[q])] = x[Var(iact[q])]
    /\ \A v \in Vars : v # Var(iact[p]) => y[v] - x[v] \in {-1, 0, 1}

NeedsShift(p) ==
    /\ Res(iact[p], x) # 0
    /\ tol = "exact" \/ Res(iact[p], x) < 0 \/ p <= meql

ShiftActive ==
    /\ pc = "satact" /\ k <= nact /\ NeedsShift(k)
    /\ \E y \in Points : Shifted(y, k) /\ x' = y
    /\ info' = 1 /\ k' = k + 1
    /\ UNCHANGED <<pc, caller, f, g, set, residuals, motion, tol, feasibility, progress,
                   nfvals, least>>

\* Mutant: a constraint is kept whatever its residual is.
NeverTooFar(p) == FALSE

TooFar(p) == Res(iact[p], x) > Tolerance

FlagActive ==
    /\ pc = "satact" /\ k <= nact /\ ~ NeedsShift(k)
    /\ flagged' = IF TooFar(k) THEN flagged \union {iact[k]} ELSE flagged
    /\ k' = k + 1
    /\ UNCHANGED <<pc, caller, point, set, residuals, motion, tol, sumrsk, itest, progress, result>>

ActiveChecked ==
    /\ pc = "satact" /\ k > nact
    /\ pc' = "delete" /\ k' = nact
    /\ UNCHANGED <<caller, point, set, residuals, motion, tol, feasibility, progress, result>>

DeleteFlagged ==
    /\ pc = "delete" /\ k > meql
    /\ IF iact[k] \in flagged
          THEN iact' = Delcon(iact, nact, k) /\ nact' = nact - 1
          ELSE UNCHANGED <<iact, nact>>
    /\ k' = k - 1
    /\ UNCHANGED <<pc, caller, point, msat, meql, residuals, motion, tol, feasibility, progress,
                   result>>

\* After a shift only the active ones are known to be satisfied.
SatisfiedAfterShift == IF info > 0 THEN nact ELSE msat

FlaggedDeleted ==
    /\ pc = "delete" /\ k <= meql
    /\ msat' = SatisfiedAfterShift
    /\ IF SatisfiedAfterShift = mtot THEN pc' = "found" /\ UNCHANGED sumrsk
       ELSE pc' = "conres" /\ sumrsk' = 0
    /\ UNCHANGED <<caller, k, point, iact, nact, meql, residuals, motion, tol, flagged, itest,
                   progress, result>>

-----------------------------------------------------------------------------
(* conres: the constraints are parted, and a direction is found.           *)

StartConres ==
    /\ pc = "conres"
    /\ seeking' = (msat < mtot)
    /\ IF msat < mtot THEN g' = Zero /\ sumres' = 0 ELSE UNCHANGED <<g, sumres>>
    /\ msatk' = msat /\ mdeg' = nact /\ msat' = nact
    /\ pc' = "partition" /\ k' = meql + 1
    /\ UNCHANGED <<caller, x, f, iact, nact, meql, bres, motion, tol, feasibility, progress, result>>

\* Those satisfied before are not looked at again: the direction did not take
\* x across their boundaries.
CountsAsSatisfied(p) == p <= msatk \/ Res(iact[p], x) >= 0

\* Constraint p goes to the end of the satisfied ones, or of the degenerate
\* ones, whose successor goes there instead.
Place(p, degenerate) ==
    LET a == Swap(iact, p, msat + 1)
    IN  IF degenerate THEN Swap(a, msat + 1, mdeg + 1) ELSE a

\* What active constraints have for a residual is noted, too.
PartActive ==
    /\ pc = "partition" /\ k <= nact
    /\ bres' = [bres EXCEPT ![iact[k]] = Res(iact[k], x)]
    /\ k' = k + 1
    /\ UNCHANGED <<pc, caller, point, set, mdeg, msatk, seeking, sumres, motion, tol, feasibility,
                   progress, result>>

PartSatisfied ==
    /\ pc = "partition" /\ nact < k /\ k <= mtot /\ CountsAsSatisfied(k)
    /\ LET degenerate == Res(iact[k], x) <= Tolerance IN
          /\ iact' = Place(k, degenerate)
          /\ mdeg' = IF degenerate THEN mdeg + 1 ELSE mdeg
    /\ msat' = msat + 1
    /\ bres' = [bres EXCEPT ![iact[k]] = Res(iact[k], x)]
    /\ k' = k + 1
    /\ UNCHANGED <<pc, caller, point, nact, meql, msatk, seeking, sumres, motion, tol, feasibility,
                   progress, result>>

\* The gradient is that of the sum of the violations, which sumres is.
PartViolated ==
    /\ pc = "partition" /\ nact < k /\ k <= mtot /\ ~ CountsAsSatisfied(k)
    /\ LET j == iact[k] IN
          /\ g' = [g EXCEPT ![Var(j)] = IF j <= N THEN -1 ELSE 1]
          /\ sumres' = sumres - Res(j, x)
          /\ bres' = [bres EXCEPT ![j] = Res(j, x)]
    /\ k' = k + 1
    /\ UNCHANGED <<pc, caller, x, f, set, mdeg, msatk, seeking, motion, tol, feasibility, progress,
                   result>>

Parted ==
    /\ pc = "partition" /\ k > mtot
    /\ stepcb' = 0 /\ drops' = 0
    /\ pc' = IF seeking /\ msat = mtot THEN "step" ELSE "getd"
    /\ UNCHANGED <<caller, k, point, set, residuals, d, ddotg, indxbd, tol, feasibility, progress,
                   result>>

\* getd: a constraint whose multiplier has the wrong sign is no longer active.
\* While the gradient can be reduced, the metric has a say in the signs.
GetdDrops ==
    /\ pc = "getd"
    /\ \E p \in meql + 1 .. nact :
          /\ WrongSign(p) \/ Reducible
          /\ iact' = Delcon(iact, nact, p)
    /\ nact' = nact - 1
    /\ UNCHANGED <<pc, caller, k, point, msat, meql, residuals, motion, tol, feasibility, progress,
                   result>>

GetdKeeps ==
    /\ pc = "getd"
    /\ Reducible \/ \A p \in meql + 1 .. nact : ~ WrongSign(p)
    /\ pc' = "sdegen"
    /\ UNCHANGED <<caller, k, point, set, residuals, motion, tol, feasibility, progress, result>>

\* zbfgs changes the metric but keeps it positive definite: directions are
\* downhill, and any that is downhill can be the one.
Downhill(e) == DotProduct(e, g) < 0

\* sdirn: a downhill direction along the active constraints.  For a search for
\* a feasible point the code asks for a downhill sum of the violations; here no
\* violated variable moves away from its bounds, either.  For two variables and
\* unit steps that follows (of two, one that moves away cancels the other); for more, and a
\* metric that is not diagonal, it is only a part of what sdirn can do.
Direction(e) ==
    /\ e \in Directions /\ Downhill(e)
    /\ \A v \in Vars \ FreeVars : e[v] = 0
    /\ seeking => \A v \in Vars : e[v] * g[v] <= 0

NoDirection ==
    /\ pc = "sdegen" /\ ~ Reducible
    /\ d' = Zero /\ ddotg' = 0
    /\ pc' = IF caller = "minfun" THEN "kt" ELSE "step"
    /\ UNCHANGED <<caller, k, point, set, residuals, stepcb, indxbd, drops, tol, feasibility,
                   progress, result>>

\* Mutant: no degenerate constraint is ever violated.
ViolatesNone(e) == {}

\* Degenerate constraints that the direction would violate at once.
Violates(e) == {p \in nact + 1 .. mdeg : Slope(iact[p], e) > 0}

DirectionFound ==
    /\ pc = "sdegen" /\ Reducible
    /\ \E e \in Directions :
          /\ Direction(e) /\ Violates(e) = {}
          /\ d' = e /\ ddotg' = DotProduct(e, g)
    /\ pc' = "stepbd"
    /\ UNCHANGED <<caller, k, point, set, residuals, stepcb, indxbd, drops, tol, feasibility,
                   progress, result>>

\* newcon: else one of them becomes active.
AddDegenerate ==
    /\ pc = "sdegen" /\ Reducible
    /\ \E e \in Directions : \E p \in Violates(e) :
          /\ Direction(e) /\ d' = e
          /\ iact' = Addcon(iact, nact, p)
    /\ nact' = nact + 1
    /\ pc' = "interpolate"
    /\ UNCHANGED <<caller, k, point, msat, meql, residuals, ddotg, stepcb, indxbd, drops, tol,
                   feasibility, progress, result>>

\* The multipliers are made to keep their signs, which can cost one of the
\* constraints that were active before.
SdegenDrops ==
    /\ pc = "interpolate"
    /\ \E p \in meql + 1 .. nact - 1 :
          /\ iact' = Delcon(iact, nact, p)
          /\ \/ WrongSign(p) /\ UNCHANGED drops
             \/ ~ WrongSign(p) /\ Reducible /\ drops < MaxDrops /\ drops' = drops + 1
    /\ nact' = nact - 1
    /\ UNCHANGED <<pc, caller, k, point, msat, meql, residuals, d, ddotg, stepcb, indxbd, tol,
                   feasibility, progress, result>>

SdegenKeeps ==
    /\ pc = "interpolate"
    /\ Reducible \/ \A p \in meql + 1 .. nact - 1 : ~ WrongSign(p)
    /\ pc' = "sdegen"
    /\ UNCHANGED <<caller, k, point, set, residuals, motion, tol, feasibility, progress, result>>

\* The first place of a least positive entry of b after mdeg.
Nearest(a, b, p) ==
    /\ p \in mdeg + 1 .. mtot /\ b[a[p]] > 0
    /\ \A q \in mdeg + 1 .. mtot : b[a[q]] > 0 => /\ b[a[p]] <= b[a[q]]
                                                  /\ q < p => b[a[p]] < b[a[q]]

\* The step to the boundary of j, 0 when the direction does not lead there.
StepTo(j) == IF Slope(j, d) * bres[j] <= 0 THEN 0 ELSE Slope(j, d) * bres[j]

AfterConres == pc' = IF caller = "minfun" THEN "kt" ELSE "step"

\* stepbd: the steps to all boundaries, and the nearest one.
Stepbd ==
    /\ pc = "stepbd"
    /\ LET b == [j \in Constraints |->
                    IF \E p \in mdeg + 1 .. mtot : iact[p] = j THEN StepTo(j) ELSE bres[j]]
       IN  /\ bres' = b
           /\ \/ /\ \E p \in mdeg + 1 .. mtot : Nearest(iact, b, p) /\ indxbd' = p
                                               /\ stepcb' = b[iact[p]]
                 /\ pc' = "pass"
              \/ /\ \A p \in mdeg + 1 .. mtot : b[iact[p]] <= 0
                 /\ stepcb' = 0 /\ indxbd' = 0 /\ AfterConres
    /\ UNCHANGED <<caller, k, point, set, mdeg, msatk, seeking, sumres, d, ddotg, drops, tol,
                   feasibility, progress, result>>

\* The boundary is one of a constraint that is satisfied: the step ends there.
StopsAtSatisfied == indxbd <= msat

\* Else the step goes through it: the constraint is satisfied from there on,
\* and the sum of the violations is less steep.  It ends there, too, when the
\* sum would not decrease any more or nothing is violated.
PassThrough ==
    /\ pc = "pass" /\ ~ StopsAtSatisfied
    /\ LET j == iact[indxbd]
           a == Swap(iact, indxbd, msat + 1)
           b == [bres EXCEPT ![j] = 0]
       IN  /\ iact' = a /\ bres' = b
           /\ msat' = msat + 1 /\ ddotg' = ddotg - Slope(j, d)
           /\ \/ /\ ddotg' < 0 /\ msat' < mtot
                 /\ \E p \in mdeg + 1 .. mtot : Nearest(a, b, p) /\ indxbd' = p
                                               /\ stepcb' = b[a[p]]
                 /\ UNCHANGED pc
              \/ /\ \/ ddotg' >= 0 \/ msat' = mtot
                    \/ \A p \in mdeg + 1 .. mtot : b[a[p]] <= 0
                 /\ indxbd' = msat + 1 /\ UNCHANGED stepcb /\ AfterConres
    /\ UNCHANGED <<caller, k, point, nact, meql, mdeg, msatk, seeking, sumres, d, drops, tol,
                   feasibility, progress, result>>

StepEnds ==
    /\ pc = "pass" /\ StopsAtSatisfied
    /\ AfterConres
    /\ UNCHANGED <<caller, k, point, set, residuals, motion, tol, feasibility, progress, result>>

-----------------------------------------------------------------------------
(* getfes: steps to a point inside the bounds.                             *)

Along(s) == [v \in Vars |-> x[v] + s * d[v]]

\* The step is taken and its constraint becomes active; the search goes on
\* while that satisfies more constraints or lessens the sum of the violations,
\* and tries once more after a step that does not.
FeasibilityStep ==
    /\ pc = "step"
    /\ IF stepcb > 0
          THEN /\ x' = Along(stepcb)
               /\ iact' = Addcon(iact, nact, indxbd) /\ nact' = nact + 1
          ELSE UNCHANGED <<x, iact, nact>>
    /\ CASE msat = mtot -> pc' = "found" /\ UNCHANGED <<sumrsk, itest>>
         [] msat < mtot /\ stepcb = 0 -> pc' = "stuck" /\ UNCHANGED <<sumrsk, itest>>
         [] msat < mtot /\ stepcb > 0 /\ msatk < msat ->
              pc' = "conres" /\ sumrsk' = 0 /\ UNCHANGED itest
         [] OTHER ->
              /\ IF sumrsk = 0 \/ sumres < sumrsk
                    THEN sumrsk' = sumres /\ itest' = 1
                    ELSE itest' = itest + 1 /\ UNCHANGED sumrsk
              /\ pc' = IF itest' <= 2 THEN "conres" ELSE "stuck"
    /\ UNCHANGED <<caller, k, f, g, msat, meql, residuals, motion, tol, flagged, progress, result>>

\* A large tolerance may be what keeps it from a feasible point.
Stuck ==
    /\ pc = "stuck"
    /\ pc' = IF tol = "exact" THEN "found" ELSE "adjtol"
    /\ UNCHANGED <<caller, k, point, set, residuals, motion, tol, feasibility, progress, result>>

\* adjtol: a tenth of the largest residual of an active constraint, or the
\* accuracy of the arithmetic when that is less.
ReducedTol ==
    IF \A p \in meql + 1 .. nact : Res(iact[p], x) <= 0 THEN {"exact"} ELSE {"fine", "exact"}

Adjtol ==
    /\ pc = "adjtol"
    /\ tol' \in ReducedTol
    /\ IF caller = "minfun" THEN Getfes("inequalities")
       ELSE pc' = "satact" /\ k' = 1 /\ flagged' = {} /\ UNCHANGED <<caller, info>>
    /\ UNCHANGED <<point, set, residuals, motion, sumrsk, itest, progress, nfvals, least>>

\* getfes returns to minflc, which calls it once for the bounds and, as there
\* are no other constraints, once more for the same ones.
BoundsDone ==
    /\ pc = "found" /\ caller = "bounds"
    /\ IF msat < mtot
          THEN pc' = "return" /\ info' = 6 /\ UNCHANGED <<caller, k, flagged>>
          ELSE Getfes("inequalities")
    /\ UNCHANGED <<point, set, residuals, motion, tol, sumrsk, itest, progress, nfvals, least>>

ConstraintsDone ==
    /\ pc = "found" /\ caller = "inequalities"
    /\ CASE msat < mtot -> pc' = "return" /\ info' = 7 /\ UNCHANGED caller
         [] msat = mtot /\ meql = N -> pc' = "return" /\ UNCHANGED <<info, caller>>
         [] OTHER -> pc' = "start" /\ caller' = "minfun" /\ UNCHANGED info
    /\ UNCHANGED <<k, point, set, residuals, motion, tol, feasibility, progress, nfvals, least>>

-----------------------------------------------------------------------------
(* minfun: the objective function is minimised for one tolerance.          *)

\* fgcalc: the value and the gradient at a point.
Fgcalc(p) == f' = Objective[p] /\ g' \in Gradients[p]

\* Mutant: the function is evaluated the first time only.
NotEvaluatedOnce == nfvals = 0

\* getfes has shifted x since the last evaluation.
NotEvaluated == nfvals = 0 \/ info = 1

\* A value above y to begin with: the first round is never one without decrease.
StartValue(y) == IF y < 0 THEN -(2 * y + 1) ELSE 2 * y + 1

StartMinfun ==
    /\ pc = "start"
    /\ IF NotEvaluated
          THEN /\ Fgcalc(x)
               /\ nfvals' = nfvals + 1 /\ least' = Objective[x]
          ELSE UNCHANGED <<f, g, nfvals, least>>
    /\ msat' = mtot
    /\ fprev' = StartValue(f') /\ diffset' = FALSE /\ moved' = FALSE /\ UNCHANGED diff
    /\ pc' = "conres"
    /\ UNCHANGED <<caller, k, x, iact, nact, meql, residuals, motion, tol, feasibility, info>>

\* ktvec: the residual of the first order conditions is zero.
Converged ==
    \/ nact = N
    \/ ~ Reducible /\ \A p \in meql + 1 .. nact : ~ WrongSign(p)

NoDecrease == f >= fprev /\ ~ ((tol = "exact" \/ nact = 0) /\ diff > 0)

\* Mutant: the limit is tested after one evaluation too many.
LimitReachedLate == nfvals > nfmax

LimitReached == nfvals >= nfmax

StopMinfun ==
    /\ pc = "kt"
    /\ \/ Converged /\ info' = 1
       \/ ~ Converged /\ ddotg >= 0 /\ info' = 2
       \/ ~ Converged /\ ddotg < 0 /\ NoDecrease /\ info' = 3
    /\ pc' = "reduce"
    /\ UNCHANGED <<caller, k, point, set, residuals, motion, tol, feasibility, progress, nfvals, least>>

\* The search goes on unless the limit is reached, or a smaller tolerance
\* promises more: relaxf, which is positive only if an active constraint has a
\* positive residual, is large.
GoOn ==
    /\ pc = "kt" /\ ~ Converged /\ ddotg < 0 /\ ~ NoDecrease
    /\ diff' = fprev - f /\ diffset' = TRUE /\ fprev' = f
    /\ \/ LimitReached /\ pc' = "reduce" /\ info' = 8
       \/ ~ LimitReached /\ pc' = "lsrch" /\ UNCHANGED info
       \/ /\ ~ LimitReached /\ tol # "exact" /\ moved
          /\ \E p \in meql + 1 .. nact : Res(iact[p], x) > 0
          /\ pc' = "reduce" /\ UNCHANGED info
    /\ UNCHANGED <<caller, k, point, set, residuals, motion, tol, feasibility, moved, nfvals, least>>

\* What lsrch promises (StepChoice): the lengths it tries are T, s is the best.
\* It stops when the evaluations are equal to the limit, not above it.
Tries(T) ==
    /\ T \subseteq 1 .. stepcb /\ T # {}
    /\ nfvals < nfmax => Cardinality(T) <= nfmax - nfvals

BestLength(s, T) ==
    /\ s \in T \union {0}
    /\ \A t \in T \union {0} : Objective[Along(s)] <= Objective[Along(t)]

\* A step to a boundary makes its constraint active.
Lsrch ==
    /\ pc = "lsrch"
    /\ \E T \in SUBSET (1 .. stepcb) : \E s \in 0 .. stepcb :
          /\ Tries(T) /\ BestLength(s, T)
          /\ x' = Along(s)
          /\ IF s = 0 THEN UNCHANGED <<f, g>> ELSE Fgcalc(Along(s))
          /\ nfvals' = nfvals + Cardinality(T)
          /\ least' = CHOOSE y \in {Objective[Along(t)] : t \in T} \union {least} :
                          \A t \in T : y <= least /\ y <= Objective[Along(t)]
          /\ IF s = 0 THEN info' = 3 /\ pc' = "reduce" ELSE pc' = "conres" /\ UNCHANGED info
          /\ IF s = stepcb
                THEN iact' = Addcon(iact, nact, indxbd) /\ nact' = nact + 1
                ELSE UNCHANGED <<iact, nact>>
    /\ moved' = TRUE
    /\ UNCHANGED <<caller, k, msat, meql, residuals, motion, tol, feasibility, fprev, diff, diffset>>

\* Back in minflc: with active constraints the tolerance is reduced until it
\* is that of the arithmetic.
ReduceTol ==
    /\ pc = "reduce"
    /\ IF tol = "exact" \/ nact = 0 THEN pc' = "return" /\ UNCHANGED info
       ELSE IF nfvals < nfmax THEN pc' = "adjtol" /\ UNCHANGED info
       ELSE pc' = "return" /\ info' = 8
    /\ UNCHANGED <<caller, k, point, set, residuals, motion, tol, feasibility, progress, nfvals, least>>

-----------------------------------------------------------------------------
Initialise == CheckBounds \/ FixVariable \/ FixEnds \/ AddBounds \/ BoundsAdded

Satact == ShiftActive \/ FlagActive \/ ActiveChecked \/ DeleteFlagged \/ FlaggedDeleted

Conres == StartConres \/ PartActive \/ PartSatisfied \/ PartViolated \/ Parted

Getd == GetdDrops \/ GetdKeeps \/ NoDirection \/ DirectionFound \/ AddDegenerate
        \/ SdegenDrops \/ SdegenKeeps

Bound == Stepbd \/ PassThrough \/ StepEnds

Feasible == FeasibilityStep \/ Stuck \/ Adjtol \/ BoundsDone \/ ConstraintsDone

Minimise == StartMinfun \/ StopMinfun \/ GoOn \/ Lsrch \/ ReduceTol

Next == Initialise \/ Satact \/ Conres \/ Getd \/ Bound \/ Feasible \/ Minimise

\* done() calls tolmin and waits for it: nothing but its own steps holds it up.
Spec == Init /\ [][Next]_vars /\ WF_vars(Next)

-----------------------------------------------------------------------------
(* Properties.                                                             *)

\* "It is called ... with X(.) set to a feasible vector of variables": fgcalc
\* never sees a point outside the bounds, whichever length lsrch tries.
EvaluatedInside ==
    /\ pc = "start" => x \in Inside
    /\ pc = "lsrch" => \A s \in 0 .. stepcb : Along(s) \in Inside

\* conres looks at the sign of a residual only after place msatk: what stands
\* before is still satisfied, whatever step was taken and whatever was swapped.
SatisfiedStays == pc = "conres" => \A p \in 1 .. msat : Res(iact[p], x) >= 0

\* Every constraint of a variable that is not fixed stays in the array, once,
\* and no two active ones are about the same variable.
ConstraintsStay ==
    /\ pc \notin {"initzu", "fix", "addbounds"} /\ info # 4 =>
          \A v \in Vars : Lower[v] < Upper[v] =>
             Cardinality({p \in 1 .. mtot : Var(iact[p]) = v}) = 2
    /\ \A p, q \in 1 .. mtot : iact[p] = iact[q] => p = q
    /\ \A p, q \in 1 .. nact : Var(iact[p]) = Var(iact[q]) => p = q

\* While the step is taken its length is positive and iact[indxbd], which
\* becomes active, is the constraint whose boundary is at that distance.
IndexIsTheBoundary ==
    (pc = "lsrch" \/ (pc = "step" /\ stepcb > 0)) =>
        /\ stepcb > 0 /\ indxbd \in nact + 1 .. mtot
        /\ Res(iact[indxbd], Along(stepcb)) = 0
        /\ \A p \in 1 .. nact : Var(iact[p]) # Var(iact[indxbd])

\* Addcon, delcon, conres and stepbd move constraints in one array, in place:
\* whoever reads a part of it next finds there what the part stands for.
ArrayIsWhole == SatisfiedStays /\ ConstraintsStay /\ IndexIsTheBoundary

\* getfes uses g for the gradient of the violations: minfun never takes it, nor
\* a value of another point, for that of the objective function at x, and it
\* reads diff only after a round that has set it.
ValueIsOfThePoint ==
    /\ (pc \in {"kt", "lsrch"} \/ (pc = "conres" /\ caller = "minfun")) =>
           x \in Inside /\ f = Objective[x] /\ g \in Gradients[x]
    /\ pc = "kt" /\ f >= fprev => diffset

\* "The values that give the least feasible calculated value of the objective
\* function are available", unless satact has shifted x since.
LeastIsReturned ==
    pc = "return" /\ nfvals > 0 => x \in Inside /\ Objective[x] = least

\* INFO=1: x is feasible and meets the first order conditions, with every
\* active constraint on its boundary.
FirstOrder(p, h) ==
    \A v \in Vars : \/ h[v] = 0
                    \/ h[v] > 0 /\ p[v] = Lower[v]
                    \/ h[v] < 0 /\ p[v] = Upper[v]

SolutionIsOne == pc = "return" /\ info = 1 => x \in Inside /\ FirstOrder(x, g)

\* Bounds alone can always be met: with a lower bound below every upper one no
\* search ends with INFO=6 or INFO=7.
BoundsAreMet == info \notin {6, 7}

\* What tolmin says of the point that it leaves, and of how it ended, is true.
AnswerIsRight == LeastIsReturned /\ SolutionIsOne /\ BoundsAreMet

\* The search ends.
Returns == <>(pc = "return")
=============================================================================
