------------------------------ MODULE MCRunner ------------------------------
(* Instances of Runner for TLC. *)
EXTENDS Runner

Window(r, c, d, b) ==
  [rate |-> r, concurrency |-> c, duration |-> d, burst |-> b,
   low |-> FALSE, low_share |-> FALSE]

\* The shortest paced window, one slice of two tasks, and two slices of which
\* the first has a burst.
MCExecuted ==
  {Window(1, 1, 2, 0), Window(2, 2, 3, 0), Window(3, 2, 3, 1)}

\* Rates, concurrencies, durations and bursts on both sides of every limit,
\* and rounded either way where that can make a difference.
MCWindows ==
  {w \in [rate: 1 .. 5, concurrency: 1 .. 5, duration: 1 .. 6, burst: 0 .. 5,
          low: BOOLEAN, low_share: BOOLEAN] :
     /\ validate_scenario_limits(w)
     /\ w.low \/ w.low_share => w.burst = 0 /\ (w.rate * w.duration) % Second = 0}
=============================================================================
