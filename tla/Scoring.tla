------------------------------ MODULE Scoring ------------------------------
(***************************************************************************)
(* The scores of CostBenefit on pairs of queued lines of Pgs pages, as the  *)
(* scan of select_victim_cost_benefit compares them, under each table of    *)
(* the build; one of the lines grows older.                                 *)
(***************************************************************************)
EXTENDS CostBenefit

CONSTANTS
    Pgs,        \* pages of a line
    AgesOf      \* the ages tried under a table: any set of unsigned integers

\* The counters of a line are ints: the product of two of them is far below
\* the width of a score.
ASSUME PagesAssumption == Pgs \in Nat \ {0} /\ Pgs * Pgs <= MaxU64

VARIABLES steps, ln, best

svars == <<steps, ln, best>>

RAW_LINEAR == <<>>      \* the profile without a table
Tables == {RAW_LINEAR, CAT7, COARSE3, EARLY_SAT, LATE_RAMP, AGGRESSIVE7, FLAT}
            \cup {isotonic_table(K) : K \in 1 .. 7}

ASSUME AgesAssumption == AgesOf \in [Tables -> SUBSET (0 .. MaxU64)]

AgeValue(age) == IF steps = RAW_LINEAR THEN RawAge(age) ELSE StepValue(age, steps)

Ipc(l) == Pgs - l.vpc               \* a queued line has no free page
Score(l) == cost_benefit_score(Ipc(l), l.vpc, AgeValue(l.age))

SInit ==
    /\ steps \in Tables
    /\ ln \in [vpc : 0 .. (Pgs - 1), age : {0}]
    /\ best \in [vpc : 0 .. (Pgs - 1), age : AgesOf[steps]]

GrowOlder ==
    /\ \E a \in AgesOf[steps] : a > ln.age /\ ln' = [ln EXCEPT !.age = a]
    /\ UNCHANGED <<steps, best>>

-----------------------------------------------------------------------------
\* "Boundaries are upper bounds": the value of the step that starts at or
\* below the age and ends above it; no bound ends the last one.
ValueAround(age) ==
    LET around(i) == /\ i > 1 => steps[i - 1].upper_age_ns <= age
                     /\ i < Len(steps) => age < steps[i].upper_age_ns
    IN  IF steps = RAW_LINEAR THEN RawAge(age)
        ELSE steps[CHOOSE i \in DOMAIN steps : around(i)].value

\* "Exact AgeValue * IPC / (VPC + 1), with saturating overflow handling": for
\* lines of Pgs pages the two-step division of cost_benefit_score loses
\* nothing and wraps nowhere, up to ages of ~0ULL, which no step bounds; and
\* whatever rounding and saturation do, a line with fewer valid pages that is
\* no younger wins the comparison.
ScoreExact ==
    LET exact == (ValueAround(ln.age) * Ipc(ln)) \div (ln.vpc + 1)
    IN  /\ Score(ln) = IF exact > MaxU64 THEN MaxU64 ELSE exact
        /\ ln.vpc < best.vpc /\ ln.age >= best.age =>
                Wins(Score(ln), ln.vpc, 1, Score(best), best.vpc, 2)

=============================================================================
