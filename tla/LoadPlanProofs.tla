--------------------------- MODULE LoadPlanProofs ---------------------------
(***************************************************************************)
(* The plan of a load window, for every valid scenario and all targets and *)
(* limits, however f64 rounds its products: the facts about single slices  *)
(* of PlanKeepsTheLoad.  The sums over the slices need induction and stay  *)
(* with TLC.                                                               *)
(***************************************************************************)
EXTENDS LoadPlan, TLAPS

\* Quotients and remainders are numbers, and small dividends are remainders.
LEMMA DivMod ==
  ASSUME NEW a \in Nat, NEW b \in Nat \ {0}
  PROVE  /\ a \div b \in Nat /\ a % b \in Nat
         /\ a \div b = 0 => a % b = a
         /\ a >= b <=> a \div b >= 1
<1>1. a \div b \in Nat
  OBVIOUS
<1>2. a % b \in Nat
  OBVIOUS
<1>3. a \div b = 0 => a % b = a
  OBVIOUS
<1>4. a >= b <=> a \div b >= 1
  OBVIOUS
<1> QED BY <1>1, <1>2, <1>3, <1>4

\* Quotients are monotone.
LEMMA DivMonotone ==
  ASSUME NEW a \in Nat, NEW c \in Nat, NEW b \in Nat \ {0}, a <= c
  PROVE  /\ a \div b <= c \div b
         /\ a \div b = c \div b => a % b <= c % b
  OBVIOUS

\* The part of a larger whole is not smaller.
LEMMA ShareMonotone ==
  ASSUME NEW a \in Nat, NEW c \in Nat, NEW total \in Nat \ {0}, NEW i \in Nat, a <= c
  PROVE  Share(a, total, i) <= Share(c, total, i)
<1>1. PICK p \in Nat, q \in Nat, x \in Nat, y \in Nat :
        /\ p = a \div total /\ q = c \div total /\ x = a % total /\ y = c % total
  BY DivMod
<1>2. p <= q /\ (p = q => x <= y)
  BY <1>1, DivMonotone
<1>3. p + (IF i < x THEN 1 ELSE 0) <= q + (IF i < y THEN 1 ELSE 0)
  BY <1>2
<1> QED BY <1>1, <1>3 DEF Share

LEMMA WholeStartsType ==
  ASSUME NEW s \in Scenario
  PROVE  WholeStarts(s) \in Int
<1>1. PICK exact \in Nat : exact = s.rate * s.duration
  BY DEF Scenario
<1>2. exact \div Second \in Nat
  BY DivMod, PlanAssumption
<1> QED BY <1>1, <1>2 DEF WholeStarts

\* The starts that f64 counts are no more than there are, and fewer than the
\* exact number if that is rounded down.
LEMMA StartsInWindow ==
  ASSUME NEW s \in Scenario, WholeStarts(s) >= 1
  PROVE  /\ WholeStarts(s) \in Nat
         /\ Second * WholeStarts(s) <= s.rate * s.duration
         /\ s.low => Second * WholeStarts(s) < s.rate * s.duration
<1>1. PICK exact \in Nat : exact = s.rate * s.duration
  BY DEF Scenario
<1>2. PICK q \in Nat, m \in Nat : q = exact \div Second /\ m = exact % Second
  BY DivMod, PlanAssumption
<1>3. exact = Second * q + m
  BY <1>2, PlanAssumption
<1>4. WholeStarts(s) = IF s.low /\ m = 0 THEN q - 1 ELSE q
  BY <1>1, <1>2 DEF WholeStarts
<1>5. CASE s.low /\ m = 0
  <2>1. WholeStarts(s) = q - 1 /\ q \in Nat /\ q >= 2
    BY <1>4, <1>5
  <2>2. Second * (q - 1) = Second * q - Second
    BY <1>2, PlanAssumption
  <2> QED BY <1>1, <1>3, <1>5, <2>1, <2>2, PlanAssumption
<1>6. CASE ~(s.low /\ m = 0)
  <2>1. WholeStarts(s) = q
    BY <1>4, <1>6
  <2>2. Second * q <= exact /\ (m # 0 => Second * q < exact)
    BY <1>3, PlanAssumption
  <2>3. s.low => m # 0
    BY <1>6
  <2> QED BY <1>1, <2>1, <2>2, <2>3
<1> QED BY <1>5, <1>6

\* There is at least one slice, no more slices than units of concurrency, and
\* with more than one slice no more slices than starts in the window.
LEMMA SliceCount ==
  ASSUME NEW s \in Scenario, validate_scenario_limits(s)
  PROVE  /\ calculate_slices(s) \in 1 .. s.concurrency
         /\ calculate_slices(s) > 1 => calculate_slices(s) <= WholeStarts(s)
<1> DEFINE byRate == CeilDiv(s.rate, TARGET_SPS_PER_SLICE)
           byConcurrency == CeilDiv(s.concurrency, TARGET_CONCURRENCY_PER_SLICE)
<1>1. s.rate \in Nat \ {0} /\ s.concurrency \in Nat \ {0}
  BY DEF Scenario, validate_scenario_limits
<1>2. byRate \in Nat /\ byRate >= 1
  <2>1. s.rate + TARGET_SPS_PER_SLICE - 1 \in Nat
        /\ s.rate + TARGET_SPS_PER_SLICE - 1 >= TARGET_SPS_PER_SLICE
    BY <1>1, PlanAssumption
  <2> QED BY <2>1, DivMod, PlanAssumption DEF CeilDiv
<1>3. byConcurrency \in Nat /\ byConcurrency >= 1
  <2>1. s.concurrency + TARGET_CONCURRENCY_PER_SLICE - 1 \in Nat
        /\ s.concurrency + TARGET_CONCURRENCY_PER_SLICE - 1 >= TARGET_CONCURRENCY_PER_SLICE
    BY <1>1, PlanAssumption
  <2> QED BY <2>1, DivMod, PlanAssumption DEF CeilDiv
<1>4. WholeStarts(s) \in Int
  BY WholeStartsType
<1>5. calculate_slices(s) =
        Lesser(Lesser(Lesser(Greater(byRate, byConcurrency), s.concurrency),
                      Greater(WholeStarts(s), 1)), MAX_AUTO_SLICES)
  BY DEF calculate_slices
<1> HIDE DEF byRate, byConcurrency
<1> QED BY <1>1, <1>2, <1>3, <1>4, <1>5, PlanAssumption DEF Lesser, Greater

\* No more than n starts of a slice fit into less than n of the window.
LEMMA ProductMonotone ==
  ASSUME NEW n \in Nat, NEW w \in Nat, n <= w
  PROVE  Second * n <= Second * w
  BY PlanAssumption

\* calculate_slices, slice_load and the check in process_once: every valid
\* scenario is divided into slices that have concurrency and a burst within
\* it, and that the worker refuses only if f64 rounds a share of exactly one
\* start below one, which takes a number of slices that is no power of two.
THEOREM SlicesAreRunnable ==
  ASSUME NEW s \in Scenario, validate_scenario_limits(s)
  PROVE  /\ DOMAIN planned_slice_loads(s) # {}
         /\ \A i \in DOMAIN planned_slice_loads(s) : Runnable(planned_slice_loads(s)[i])
<1> DEFINE total == calculate_slices(s)
           work == s.rate * s.duration
<1>1. /\ total \in Nat \ {0} /\ total <= s.concurrency
      /\ total > 1 => total <= WholeStarts(s)
  BY SliceCount DEF Scenario
<1>2. /\ s.concurrency \in Nat /\ s.burst \in Nat /\ s.burst <= s.concurrency
      /\ s.burst = 0 => WholeStarts(s) >= 1
      /\ work \in Nat
  BY DEF Scenario, validate_scenario_limits
<1> HIDE DEF total, work
<1>3. total <= WholeStarts(s) =>
        /\ Second * total <= work
        /\ s.low => Second * total < work
  <2> SUFFICES ASSUME total <= WholeStarts(s)
               PROVE  Second * total <= work /\ (s.low => Second * total < work)
    OBVIOUS
  <2>1. PICK w \in Nat : w = WholeStarts(s) /\ w >= 1
    BY <1>1, WholeStartsType
  <2>2. Second * w <= work /\ (s.low => Second * w < work)
    BY <2>1, StartsInWindow DEF work
  <2>3. Second * total <= Second * w
    BY <1>1, <2>1, ProductMonotone
  <2>4. Second * w \in Nat /\ Second * total \in Nat
    BY <1>1, <2>1, PlanAssumption
  <2> QED BY <1>2, <2>2, <2>3, <2>4
<1>4. /\ DOMAIN planned_slice_loads(s) = 0 .. total - 1
      /\ \A i \in 0 .. total - 1 : planned_slice_loads(s)[i] = slice_load(s, total, i)
  BY DEF planned_slice_loads, total
<1>5. ASSUME NEW i \in 0 .. total - 1
      PROVE  Runnable(slice_load(s, total, i))
  <2> DEFINE load == slice_load(s, total, i)
  <2>0. /\ load.max_concurrency = Share(s.concurrency, total, i)
        /\ load.startup_burst = Share(s.burst, total, i)
        /\ load.rate * load.duration = work /\ load.slices = total
        /\ load.low = IF total \in PowersOfTwo THEN s.low ELSE s.low_share
    BY DEF slice_load, slice_startup_burst, work
  <2> HIDE DEF load
  <2>1. i \in Nat
    BY <1>1
  <2>2. Share(s.burst, total, i) <= Share(s.concurrency, total, i)
    BY <1>1, <1>2, <2>1, ShareMonotone
  <2>3. Share(s.concurrency, total, i) > 0
    BY <1>1, <1>2, DivMod DEF Share
  <2>4. load.startup_burst = 0 => total <= WholeStarts(s)
    <3>1. CASE total = 1
      <4>1. Share(s.burst, total, i) = 0 => s.burst = 0
        BY <1>1, <1>2, <3>1, DivMod DEF Share
      <4> QED BY <1>2, <2>0, <3>1, <4>1
    <3>2. CASE total > 1
      BY <1>1, <3>2
    <3> QED BY <1>1, <3>1, <3>2
  <2>5. Second * total \in Nat
    BY <1>1, PlanAssumption
  <2>6. HasPacedStart(load) \/ Marginal(load)
    <3> SUFFICES ASSUME load.startup_burst = 0 PROVE HasPacedStart(load) \/ Marginal(load)
      BY DEF HasPacedStart
    <3>1. Second * total <= work /\ (s.low => Second * total < work)
      BY <1>3, <2>4
    <3>2. CASE total \in PowersOfTwo
      <4>1. load.low = s.low
        BY <2>0, <3>2
      <4> QED BY <1>2, <2>0, <2>5, <3>1, <4>1 DEF HasPacedStart
    <3>3. CASE total \notin PowersOfTwo
      BY <1>2, <2>0, <2>5, <3>1, <3>3 DEF HasPacedStart, Marginal
    <3> QED BY <3>2, <3>3
  <2> QED BY <2>0, <2>2, <2>3, <2>6 DEF Runnable, load
<1>6. 0 \in 0 .. total - 1
  BY <1>1
<1> QED BY <1>4, <1>5, <1>6
=============================================================================
