------------------------------ MODULE SpeedMapper ------------------------------
(***************************************************************************)
(* domain/mappers/speed_mapper.py: percentages, the discrete steps of a    *)
(* remote and lists of named presets.                                      *)
(*                                                                         *)
(* The code computes in floats.  For the step counts of real remotes (up   *)
(* to 25) its results are those of exact arithmetic, which is used here: a *)
(* ratio is a numerator and a denominator.                                 *)
(***************************************************************************)
EXTENDS Integers

Smaller(a, b) == IF a < b THEN a ELSE b
Larger(a, b)  == IF a < b THEN b ELSE a
Distance(a, b) == Larger(a, b) - Smaller(a, b)

Ceiling(n, d) == (n + d - 1) \div d

\* _round_half_to_even of n / d
RoundHalfToEven(n, d) ==
  LET q == n \div d
      twice == 2 * (n % d)
  IN IF twice < d \/ (twice = d /\ q % 2 = 0) THEN q ELSE q + 1

\* _ranged_value_to_percentage over the range 1 .. total
RangedValueToPercentage(total, value) ==
  IF total = 1 THEN 0
  ELSE RoundHalfToEven(100 * (Larger(1, Smaller(total, value)) - 1), total - 1)

\* discrete_to_percent
DiscreteToPercent(step, total) ==
  IF step <= 0 THEN 0 ELSE RangedValueToPercentage(total, Smaller(step, total))

\* Mutant: the step below, not the one above.
PercentToStepBelow(percent, total) ==
  IF percent <= 0 THEN 0 ELSE 1 + (Smaller(percent, 100) * (total - 1)) \div 100

\* percent_to_discrete: the next step up from _percentage_to_ranged_value
PercentToDiscrete(percent, total) ==
  IF percent <= 0 THEN 0 ELSE 1 + Ceiling(Smaller(percent, 100) * (total - 1), 100)

\* discrete_step_for_index
DiscreteStepForIndex(index, total) == Larger(1, Smaller(total, index))

\* named_to_percent of the index-th of count names
NamedToPercent(index, count) == RangedValueToPercentage(count, index)

\* percent_to_named: the first of the nearest names, 0 for none
PercentToNamed(percent, count) ==
  IF count = 0 \/ percent <= 0 THEN 0
  ELSE LET Off(i) == Distance(NamedToPercent(i, count), percent)
       IN CHOOSE i \in 1 .. count :
            \A j \in 1 .. count : Off(i) < Off(j) \/ (Off(i) = Off(j) /\ i <= j)

================================================================================
