----------------------------- MODULE LineSearch -----------------------------
(***************************************************************************)
(* lsrch of TOLMIN: the length of the step along a downhill direction.     *)
(* The direction is fixed during a search, so that a point is its length:  *)
(* value and slope are the objective function and its derivative along the *)
(* direction.  Lengths are integers here, and an interpolated length is    *)
(* any one of the interval it is taken in; an interval without a length    *)
(* inside stands for one that relint or stpmin finds too short.            *)
(***************************************************************************)
EXTENDS Integers

CONSTANTS
    StepBound,   \* stepcb
    Evaluations, \* nfmax - nfvals when the search begins
    Values,      \* objective functions along a direction
    Slopes       \* their derivatives

Lengths == 0 .. StepBound

ASSUME SearchAssumption ==
    /\ StepBound \in Nat \ {0} /\ Evaluations \in Nat \ {0}
    /\ Values \subseteq [Lengths -> Int]
    /\ Slopes \subseteq {s \in [Lengths -> Int] : s[0] < 0}

VARIABLES
    value, slope,
    label,
    step, ftrial,           \* the trial length and its value
    stplow, stphgh,         \* the bracket; stphgh = 0 while there is no upper end
    stpopt, fopt, dgopt,    \* the best length, its value and steepness
    sbase, fbase, ddotgb,   \* the base of the test of sufficient decrease
    icount,                 \* evaluations
    tried                   \* history: lengths whose value is known

lvars == <<value, slope, label, step, ftrial, stplow, stphgh, stpopt, fopt, dgopt,
           sbase, fbase, ddotgb, icount, tried>>

Abs(i) == IF i < 0 THEN -i ELSE i

\* Types.
SearchTypeOK ==
    /\ value \in Values /\ slope \in Slopes
    /\ label \in {"evaluate", "test", "next", "restore", "return"}
    /\ {step, stplow, stphgh, stpopt, sbase} \subseteq Lengths
    /\ {ftrial, fopt, dgopt, fbase, ddotgb} \subseteq Int
    /\ icount \in Nat /\ tried \subseteq Lengths

SearchInit ==
    /\ value \in Values /\ slope \in Slopes
    /\ label = "evaluate"
    /\ step = 1 /\ ftrial = value[0]
    /\ stplow = 0 /\ stphgh = 0
    /\ stpopt = 0 /\ fopt = value[0] /\ dgopt = Abs(slope[0])
    /\ sbase = 0 /\ fbase = value[0] /\ ddotgb = slope[0]
    /\ icount = 0 /\ tried = {0}

\* Mutant: the last length is the best one.
IsBestLast(fmid, dgmid) == TRUE

\* A trial with the same value is better if it is flatter.
IsBest(fmid, dgmid) ==
    \/ fmid < fopt
    \/ fmid = fopt /\ Abs(dgmid) < dgopt

NoneLeft(count) == count = Evaluations

Evaluate ==
    /\ label = "evaluate"
    /\ ftrial' = value[step] /\ icount' = icount + 1 /\ tried' = tried \union {step}
    /\ IF IsBest(value[step], slope[step])
          THEN stpopt' = step /\ fopt' = value[step] /\ dgopt' = Abs(slope[step])
          ELSE UNCHANGED <<stpopt, fopt, dgopt>>
    /\ label' = IF NoneLeft(icount + 1) THEN "restore" ELSE "test"
    /\ UNCHANGED <<value, slope, step, stplow, stphgh, sbase, fbase, ddotgb>>

\* A tenth of the predicted decrease is missed.
TooLittle == 10 * (ftrial - fbase) >= (step - sbase) * ddotgb

\* The trial becomes the upper end of the bracket.
IsUpper == TooLittle /\ (stphgh > 0 \/ ftrial > fbase \/ 2 * slope[step] > slope[0])

\* Else, if it decreases too little, it is the new base; the search ends when
\* the slope is flat against that of the base, and the trial is the lower end
\* of the bracket when it is not.
TestUpper ==
    /\ label = "test" /\ IsUpper
    /\ stphgh' = step /\ label' = "next"
    /\ UNCHANGED <<value, slope, step, ftrial, stplow, stpopt, fopt, dgopt,
                   sbase, fbase, ddotgb, icount, tried>>

TestLower ==
    /\ label = "test" /\ ~ IsUpper
    /\ IF TooLittle
          THEN sbase' = step /\ fbase' = ftrial /\ ddotgb' = slope[step]
          ELSE UNCHANGED <<sbase, fbase, ddotgb>>
    /\ IF 10 * slope[step] >= 7 * ddotgb'
          THEN label' = "restore" /\ UNCHANGED stplow
          ELSE label' = "next" /\ stplow' = step
    /\ UNCHANGED <<value, slope, step, ftrial, stphgh, stpopt, fopt, dgopt, icount, tried>>

\* The lengths the next trial may have: beyond the last one while there is no
\* upper end, inside the bracket when there is one.
NextLengths ==
    IF stphgh = 0 THEN step + 1 .. StepBound
    ELSE IF 10 * stplow >= 9 * stphgh THEN {} ELSE stplow + 1 .. stphgh - 1

NextTrial ==
    /\ label = "next"
    /\ IF NextLengths = {} THEN label' = "restore" /\ UNCHANGED step
       ELSE label' = "evaluate" /\ step' \in NextLengths
    /\ UNCHANGED <<value, slope, ftrial, stplow, stphgh, stpopt, fopt, dgopt,
                   sbase, fbase, ddotgb, icount, tried>>

Restore ==
    /\ label = "restore" /\ step' = stpopt /\ ftrial' = fopt /\ label' = "return"
    /\ UNCHANGED <<value, slope, stplow, stphgh, stpopt, fopt, dgopt,
                   sbase, fbase, ddotgb, icount, tried>>

SearchNext == Evaluate \/ TestUpper \/ TestLower \/ NextTrial \/ Restore

SearchSpec == SearchInit /\ [][SearchNext]_lvars

-----------------------------------------------------------------------------
(* Properties.                                                             *)

\* "no line search being allowed to increase the objective function": the
\* answer is no worse than the start or any length tried, and the value and
\* the gradient that are left behind are those of the answer.
ReturnsBest ==
    label = "return" => ftrial = value[step] /\ \A s \in tried : ftrial <= value[s]

\* The limit on the evaluations is met by an equality: it must not be passed.
LimitIsMet == icount <= Evaluations /\ (label \in {"test", "next"} => icount < Evaluations)

\* The bracket is one: every trial lies strictly inside it, or beyond its
\* lower end while it has no upper one, so that no length is tried twice.
BracketShrinks ==
    /\ stphgh > 0 => stplow < stphgh
    /\ label = "evaluate" => step > stplow /\ (stphgh > 0 => step < stphgh) /\ step \notin tried

\* A step of the search is one of StepChoice, or changes nothing it promises.
Choice == INSTANCE StepChoice WITH done <- label = "return", left <- Evaluations - icount,
                                    step <- IF label = "return" THEN step ELSE 0
KeepsPromise == Choice!SSpec
=============================================================================
