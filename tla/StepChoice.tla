----------------------------- MODULE StepChoice -----------------------------
(***************************************************************************)
(* What a line search promises to the minimiser that calls it: it tries    *)
(* some lengths of step, at least one, none twice and never more than      *)
(* there are evaluations left, and answers with one of them, or with 0,    *)
(* whose value is the least of all that it has seen.                       *)
(***************************************************************************)
EXTENDS Integers

CONSTANTS
    StepBound,   \* the longest step the constraints allow
    Evaluations  \* evaluations there are when it is called

VARIABLES
    value,       \* the objective function along the direction, by length
    tried,       \* lengths whose value is known
    left,        \* evaluations that are left
    step,        \* the answer
    done

svars == <<value, tried, left, step, done>>

Lengths == 0 .. StepBound

BestOf(s, T) == s \in T /\ \A t \in T : value[s] <= value[t]

SInit ==
    /\ value \in [Lengths -> Int]
    /\ tried = {0} /\ left = Evaluations /\ step = 0 /\ done = FALSE

Try ==
    /\ ~ done /\ left > 0 /\ left' = left - 1
    /\ \E s \in (1 .. StepBound) \ tried : tried' = tried \union {s}
    /\ UNCHANGED <<value, step, done>>

Answer ==
    /\ ~ done /\ tried # {0}
    /\ step' \in Lengths /\ BestOf(step', tried)
    /\ done' = TRUE
    /\ UNCHANGED <<value, tried, left>>

SSpec == SInit /\ [][Try \/ Answer]_svars
=============================================================================
