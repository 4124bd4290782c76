------------------------------ MODULE LoadPlan ------------------------------
(***************************************************************************)
(* How the scheduler divides one load window into slices: how many slices  *)
(* there are, and the rate, concurrency and startup burst of each.         *)
(* Scheduler, worker and dry run all compute the plan with these functions. *)
(*                                                                         *)
(* Time is counted in ticks and rate in starts per Second ticks.  The code *)
(* computes with f64, of which only the comparisons matter: a product that *)
(* is a whole number may come out just below it.  Whether it does depends  *)
(* on the configured numbers, so it is part of the scenario here:          *)
(*   low       rate * duration is rounded to less than its value           *)
(*   low_share so is (rate / slices) * duration                            *)
(* A division by a power of two is exact and leaves the rounding alone.    *)
(***************************************************************************)
EXTENDS Integers

CONSTANTS
  Second,                       \* ticks in one second
  TARGET_SPS_PER_SLICE,         \* 10 in the code
  TARGET_CONCURRENCY_PER_SLICE, \* 25 in the code
  MAX_AUTO_SLICES               \* 128 in the code

ASSUME PlanAssumption ==
  /\ Second \in Nat \ {0}
  /\ TARGET_SPS_PER_SLICE \in Nat \ {0}
  /\ TARGET_CONCURRENCY_PER_SLICE \in Nat \ {0}
  /\ MAX_AUTO_SLICES \in 1 .. 128

Scenario ==
  [rate: Nat, concurrency: Nat, duration: Nat, burst: Nat,
   low: BOOLEAN, low_share: BOOLEAN]

PowersOfTwo == {1, 2, 4, 8, 16, 32, 64, 128}

Lesser(a, b) == IF a <= b THEN a ELSE b
Greater(a, b) == IF a >= b THEN a ELSE b
CeilDiv(a, b) == (a + b - 1) \div b

\* The whole starts in the window of s, as f64 counts them.
WholeStarts(s) ==
  LET exact == s.rate * s.duration
  IN IF s.low /\ exact % Second = 0 THEN exact \div Second - 1 ELSE exact \div Second

\* The rules that every configured scenario passes at startup.
validate_scenario_limits(s) ==
  /\ s.rate > 0
  /\ s.concurrency > 0
  /\ s.duration > 0
  /\ s.burst <= s.concurrency
  /\ s.burst = 0 => WholeStarts(s) >= 1

calculate_slices_uncapped(s) ==
  LET byRate == CeilDiv(s.rate, TARGET_SPS_PER_SLICE)
      byConcurrency == CeilDiv(s.concurrency, TARGET_CONCURRENCY_PER_SLICE)
      expectedStarts == Greater(WholeStarts(s), 1)
      wanted == Greater(byRate, byConcurrency)
  IN Lesser(Lesser(wanted, expectedStarts), MAX_AUTO_SLICES)

\* Enough slices for the rate and the concurrency, but none without a unit of
\* concurrency and none without a start inside the window.
calculate_slices(s) ==
  LET byRate == CeilDiv(s.rate, TARGET_SPS_PER_SLICE)
      byConcurrency == CeilDiv(s.concurrency, TARGET_CONCURRENCY_PER_SLICE)
      expectedStarts == Greater(WholeStarts(s), 1)
      wanted == Greater(byRate, byConcurrency)
  IN Lesser(Lesser(Lesser(wanted, s.concurrency), expectedStarts),
            MAX_AUTO_SLICES)

\* The part of whole that slice i of total gets: the remainder is spread over
\* the first slices.
Share(whole, total, i) ==
  whole \div total + (IF i < whole % total THEN 1 ELSE 0)

slice_startup_burst(whole, total, i) == Share(whole, total, i)

\* Slice i of total.  Its rate is the scenario's divided by the slices.
slice_load(s, total, i) ==
  [rate |-> s.rate,
   slices |-> total,
   duration |-> s.duration,
   low |-> IF total \in PowersOfTwo THEN s.low ELSE s.low_share,
   max_concurrency |-> Share(s.concurrency, total, i),
   startup_burst |-> slice_startup_burst(s.burst, total, i)]

planned_slice_loads(s) ==
  LET total == calculate_slices(s)
  IN [i \in 0 .. total - 1 |-> slice_load(s, total, i)]

\* The worker refuses a slice that cannot start anything in its window.
HasPacedStart(load) ==
  LET exact == load.rate * load.duration
      one == Second * load.slices
  IN load.startup_burst = 0 => exact > one \/ (exact = one /\ ~load.low)

\* A share of exactly one start, computed with a division that may round.
Marginal(load) ==
  /\ load.startup_burst = 0
  /\ load.rate * load.duration = Second * load.slices
  /\ load.slices \notin PowersOfTwo

\* A slice that a worker accepts, if f64 does not round its only start away,
\* and whose burst its concurrency can hold.
Runnable(load) ==
  /\ load.max_concurrency > 0
  /\ load.startup_burst <= load.max_concurrency
  /\ HasPacedStart(load) \/ Marginal(load)
=============================================================================
