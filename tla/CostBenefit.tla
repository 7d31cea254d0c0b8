----------------------------- MODULE CostBenefit -----------------------------
(***************************************************************************)
(* The integer arithmetic behind the policies GC_POLICY_AGE_CB and          *)
(* GC_POLICY_ISOTONIC of conv_ftl.c: the step functions that turn the age   *)
(* of a line into a value, and the score built from it.  MaxU64 stands for  *)
(* ~0ULL, the largest value of the code's uint64_t.                         *)
(***************************************************************************)
EXTENDS Integers, Sequences

CONSTANT MaxU64

ASSUME WidthAssumption == MaxU64 \in Nat /\ MaxU64 >= 1

-----------------------------------------------------------------------------
(* Ages.  A table is a sequence of steps, the last one without a bound. *)

Step(upper, value) == [upper_age_ns |-> upper, value |-> value]

\* The number, from 1, of the step of an age: the first one whose bound is
\* above it, or the last one.
age_step_lookup(age, steps) ==
    LET hits == {i \in DOMAIN steps : age < steps[i].upper_age_ns}
    IN  IF hits = {} THEN Len(steps)
        ELSE CHOOSE i \in hits : \A j \in hits : i <= j

StepValue(age, steps) == steps[age_step_lookup(age, steps)].value

\* cb_age_value with CB_AGE_PROFILE_RAW_LINEAR, which has no table.
RawAge(age) == IF age = 0 THEN 1 ELSE age

\* The tables of cb_age_value, in milliseconds.
CAT7 == <<Step(10000, 1), Step(20000, 2), Step(45000, 3), Step(90000, 4),
          Step(180000, 5), Step(360000, 6), Step(MaxU64, 7)>>
COARSE3 == <<Step(20000, 1), Step(180000, 2), Step(MaxU64, 3)>>
EARLY_SAT == <<Step(1, 1), Step(2, 2), Step(4, 3), Step(8, 4),
               Step(16, 5), Step(32, 6), Step(MaxU64, 7)>>
LATE_RAMP == <<Step(60000, 1), Step(300000, 2), Step(900000, 3), Step(1800000, 4),
               Step(3600000, 5), Step(7200000, 6), Step(MaxU64, 7)>>
AGGRESSIVE7 == <<Step(10000, 1), Step(20000, 2), Step(45000, 4), Step(90000, 8),
                 Step(180000, 16), Step(360000, 32), Step(MaxU64, 64)>>
FLAT == <<Step(MaxU64, 1)>>

\* The table that isotonic_age_value looks up, K = CONV_ISO_STEP_COUNT steps
\* with the boundaries and the values of conv_ftl.h: CAT7 cut off after K.
isotonic_table(K) == [i \in 1 .. K |-> IF i = K THEN Step(MaxU64, CAT7[K].value) ELSE CAT7[i]]

-----------------------------------------------------------------------------
(* Scores. *)

\* Mutant: the remainder of the first division is forgotten.
cost_benefit_score_truncated(ipc, vpc, age_value) ==
    LET quotient == age_value \div (vpc + 1)
    IN  IF age_value = 0 \/ ipc = 0 THEN 0
        ELSE IF quotient > MaxU64 \div ipc THEN MaxU64 ELSE quotient * ipc

\* cost_benefit_score, which never computes a number above MaxU64.
cost_benefit_score(ipc, vpc, age_value) ==
    LET divisor == vpc + 1
        quotient == age_value \div divisor
        remainder == age_value % divisor
        score == quotient * ipc
        tail == IF remainder > MaxU64 \div ipc THEN MaxU64 \div divisor
                ELSE (remainder * ipc) \div divisor
    IN  IF age_value = 0 \/ ipc = 0 THEN 0
        ELSE IF quotient > MaxU64 \div ipc THEN MaxU64
        ELSE IF score > MaxU64 - tail THEN MaxU64
        ELSE score + tail

\* The order of select_victim_cost_benefit: a line of score s beats the best
\* one so far, of score s1.
Wins(s, vpc, id, s1, vpc1, id1) ==
    \/ s > s1
    \/ s = s1 /\ vpc < vpc1
    \/ s = s1 /\ vpc = vpc1 /\ id < id1

=============================================================================
