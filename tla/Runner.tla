------------------------------- MODULE Runner -------------------------------
(***************************************************************************)
(* PulseRunner::run_once, executed for every slice of one load window by   *)
(* the workers that received the slices: pacing by a token bucket, the     *)
(* JoinSet as concurrency gate, scenario tasks with their deadline, and    *)
(* the report from which the worker builds the result of the slice.        *)
(*                                                                         *)
(* An action is one poll of the launch loop or of a scenario task between  *)
(* two awaits.  Tokens are counted in units of 1 / Cost of a start, which  *)
(* makes the refill of one tick a whole number.  The metrics of the        *)
(* workers of a slice are kept merged, the metrics of single steps are     *)
(* left out: no result contains them.                                      *)
(***************************************************************************)
EXTENDS LoadPlan, LatencyHistogram, Functions, TLC

CONSTANTS
  Windows,          \* load windows that a configuration may contain
  Executed,         \* bound: those of them whose slices are executed
  Steps,            \* steps of a scenario
  StepErrors,       \* the kinds of errors that steps return
  ScenarioTimeout,  \* PULSE_GRPC_SCENARIO_TIMEOUT_MS in ticks
  TickMs,           \* length of a tick in ms, for the latencies
  MaxTime,          \* bound on the clock
  LatestStart       \* bound on the time at which a slice is received

ASSUME RunnerAssumption ==
  /\ \A s \in Windows : s \in Scenario /\ validate_scenario_limits(s)
  /\ Executed \subseteq Windows
  /\ StepErrors \subseteq
       {"target", "pulse_infrastructure", "permanent_processing"}
  /\ {Steps, ScenarioTimeout} \subseteq Nat \ {0}
  /\ {TickMs, MaxTime, LatestStart} \subseteq Nat

VARIABLES
  scenario,  \* the load window that is executed
  load,      \* load[i]: what the job of slice i asks for
  punctual,  \* whether timers and ready tasks are served without delay
  now,       \* the clock
  pc,        \* pc[i]: where run_once of slice i is
  start,     \* start[i]: launch_start
  tokens,    \* tokens[i]: contents of the bucket
  refilled,  \* refilled[i]: last_refill
  tasks,     \* tasks[i]: the JoinSet, by number of the launch
  launched,  \* launched[i]: scenarios started
  failures,  \* failures[i]: task_failures
  summary,   \* summary[i]: merged metrics of the workers
  outcome    \* outcome[i]: what the worker decides on the report

vars == <<scenario, load, punctual, now, pc, start, tokens, refilled, tasks,
          launched, failures, summary, outcome>>
fixed == <<scenario, load, punctual>>
loopVars == <<pc, start, tokens, refilled, launched, outcome>>

Measurements == {"target", "scenario_timeout"}
Kinds == StepErrors \cup {"scenario_timeout"}
Count(s, kind) == IF kind \in Kinds THEN s.errors[kind] ELSE 0
StepResults == {"ok"} \cup StepErrors
Stages == {"step", "record", "expired", "done", "panicked"}

Slices == DOMAIN pc
Deadline_off_by_one(i) == start[i] + load[i].duration - 1
Deadline(i) == start[i] + load[i].duration
Concurrency(i) == Greater(load[i].max_concurrency, 1)

-----------------------------------------------------------------------------
(* The token bucket. *)

Cost(i) == 2 * Second * load[i].slices
Refill(i) == 2 * load[i].rate
Capacity(i) == Greater(load[i].startup_burst, 1) * Cost(i)

InitialTokens_empty(i) ==
  IF load[i].startup_burst > 0 THEN Capacity(i) ELSE 0

\* With a burst the bucket starts full, without one it starts half way to the
\* first token.
InitialTokens(i) ==
  IF load[i].startup_burst > 0 THEN Capacity(i) ELSE Cost(i) \div 2

Available_uncapped(i) == tokens[i] + (now - refilled[i]) * Refill(i)

Available(i) ==
  Lesser(tokens[i] + (now - refilled[i]) * Refill(i), Capacity(i))

-----------------------------------------------------------------------------
(* Tasks in the JoinSet. *)

Live(i) == {t \in DOMAIN tasks[i] : tasks[i][t].stage \notin {"done", "panicked"}}
Ended(i) == DOMAIN tasks[i] \ Live(i)
Panicked(i) == {t \in Ended(i) : tasks[i][t].stage = "panicked"}

\* Takes the ended tasks T out of the JoinSet (record_join_result).
Joined(i, T) ==
  /\ tasks' = [tasks EXCEPT ![i] = Restrict(@, DOMAIN @ \ T)]
  /\ failures' = [failures EXCEPT ![i] = @ + Cardinality(T \cap Panicked(i))]

Init ==
  /\ scenario \in Windows
  /\ punctual \in BOOLEAN
  /\ now = 0
  /\ load = planned_slice_loads(scenario)
  /\ pc = [i \in DOMAIN load |-> "Idle"]
  /\ start = [i \in Slices |-> 0]
  /\ tokens = [i \in Slices |-> 0]
  /\ refilled = [i \in Slices |-> 0]
  /\ tasks = [i \in Slices |-> EmptyHistogram]
  /\ launched = [i \in Slices |-> 0]
  /\ failures = [i \in Slices |-> 0]
  /\ summary = [i \in Slices |-> [success |-> 0, failure |-> 0,
                                  errors |-> [k \in Kinds |-> 0],
                                  latency |-> EmptyHistogram]]
  /\ outcome = [i \in Slices |-> "none"]

-----------------------------------------------------------------------------
(* The launch loop. *)

\* The worker accepts slice i, holds its lease and enters run_once.
RunOnce(i) ==
  /\ pc[i] = "Idle" /\ now <= LatestStart /\ scenario \in Executed
  /\ HasPacedStart(load[i])
  /\ pc' = [pc EXCEPT ![i] = "Launch"]
  /\ start' = [start EXCEPT ![i] = now]
  /\ refilled' = [refilled EXCEPT ![i] = now]
  /\ tokens' = [tokens EXCEPT ![i] = InitialTokens(i)]
  /\ UNCHANGED <<fixed, now, tasks, launched, failures, summary,
                 outcome>>

AfterJoin_off_by_one(i, n) ==
  IF n > Concurrency(i) THEN "Gate"
  ELSE IF now >= Deadline(i) THEN "Drain" ELSE "Pace"

\* Where the loop goes with n tasks in the JoinSet.
AfterJoin(i, n) ==
  IF n >= Concurrency(i) THEN "Gate"
  ELSE IF now >= Deadline(i) THEN "Drain" ELSE "Pace"

ReapCompleted(i) ==
  /\ pc[i] = "Launch"
  /\ Joined(i, Ended(i))
  /\ pc' = [pc EXCEPT ![i] = AfterJoin(i, Cardinality(Live(i)))]
  /\ UNCHANGED <<fixed, now, start, tokens, refilled, launched,
                 summary, outcome>>

\* join_next at the gate, while pacing, and in the final drain.
JoinNext(i) ==
  /\ pc[i] \in {"Gate", "Pace", "Drain"}
  /\ \E t \in Ended(i) : Joined(i, {t})
  /\ pc' = [pc EXCEPT ![i] =
              IF @ = "Gate" THEN AfterJoin(i, Cardinality(DOMAIN tasks'[i]))
              ELSE @]
  /\ UNCHANGED <<fixed, now, start, tokens, refilled, launched,
                 summary, outcome>>

DeadlineReached(i) ==
  /\ pc[i] \in {"Gate", "Pace"} /\ now >= Deadline(i)
  /\ pc' = [pc EXCEPT ![i] = "Drain"]
  /\ UNCHANGED <<fixed, now, start, tokens, refilled, tasks,
                 launched, failures, summary, outcome>>

NewTask == [stage |-> "step", since |-> now, left |-> Steps, result |-> "ok"]

Spawn(i) ==
  /\ tasks' = [tasks EXCEPT ![i] = (launched[i] :> NewTask) @@ @]
  /\ launched' = [launched EXCEPT ![i] = @ + 1]
  /\ pc' = [pc EXCEPT ![i] = "Launch"]

Acquire_in_debt(i) ==
  /\ pc[i] = "Pace" /\ Available(i) > 0
  /\ tokens' = [tokens EXCEPT ![i] = Available(i) - Cost(i)]
  /\ refilled' = [refilled EXCEPT ![i] = now]
  /\ now < Deadline(i) /\ Spawn(i)
  /\ UNCHANGED <<fixed, now, start, failures, summary, outcome>>

\* A token is taken; at or after the deadline it starts nothing.
Acquire(i) ==
  /\ pc[i] = "Pace" /\ Available(i) >= Cost(i)
  /\ tokens' = [tokens EXCEPT ![i] = Available(i) - Cost(i)]
  /\ refilled' = [refilled EXCEPT ![i] = now]
  /\ \/ now < Deadline(i) /\ Spawn(i)
     \/ /\ now >= Deadline(i)
        /\ pc' = [pc EXCEPT ![i] = "Drain"]
        /\ UNCHANGED <<tasks, launched>>
  /\ UNCHANGED <<fixed, now, start, failures, summary, outcome>>

-----------------------------------------------------------------------------
(* Scenario tasks. *)

Move(i, t, task) == tasks' = [tasks EXCEPT ![i][t] = task]

\* A step ends with result r; an error ends the scenario.
StepEnds(i, t, r) ==
  LET task == tasks[i][t]
      more == r = "ok" /\ task.left > 1
  IN /\ task.stage = "step"
     /\ Move(i, t, [task EXCEPT !.left = @ - 1, !.result = r,
                                !.stage = IF more THEN "step" ELSE "record"])
     /\ UNCHANGED <<fixed, now, loopVars, failures, summary>>

StepPanics(i, t) ==
  /\ tasks[i][t].stage = "step"
  /\ Move(i, t, [tasks[i][t] EXCEPT !.stage = "panicked"])
  /\ UNCHANGED <<fixed, now, loopVars, failures, summary>>

\* record_scenario and record_error_kind, under one lock of the metrics.
Recorded(s, kind, duration) ==
  [s EXCEPT !.success = @ + (IF kind = "ok" THEN 1 ELSE 0),
            !.failure = @ + (IF kind = "ok" THEN 0 ELSE 1),
            !.errors = [k \in Kinds |-> @[k] + (IF k = kind THEN 1 ELSE 0)],
            !.latency = record(@, duration)]

Duration(i, t) == (now - tasks[i][t].since) * TickMs

\* The end of the scenario is recorded as soon as the task has the lock.
RecordScenario(i, t) ==
  /\ tasks[i][t].stage = "record"
  /\ summary' = [summary EXCEPT
                   ![i] = Recorded(@, tasks[i][t].result, Duration(i, t))]
  /\ Move(i, t, [tasks[i][t] EXCEPT !.stage = "done"])
  /\ UNCHANGED <<fixed, now, loopVars, failures>>

ScenarioDeadline_records_twice(i, t) ==
  /\ tasks[i][t].stage \in {"step", "record", "done"}
  /\ now >= tasks[i][t].since + ScenarioTimeout
  /\ Move(i, t, [tasks[i][t] EXCEPT !.stage = "expired"])
  /\ UNCHANGED <<fixed, now, loopVars, failures, summary>>

ScenarioDeadline_after_step(i, t) ==
  /\ tasks[i][t].stage = "record"
  /\ now >= tasks[i][t].since + ScenarioTimeout
  /\ Move(i, t, [tasks[i][t] EXCEPT !.stage = "expired"])
  /\ UNCHANGED <<fixed, now, loopVars, failures, summary>>

\* The deadline drops the execution, also one that waits for the lock.
ScenarioDeadline(i, t) ==
  /\ tasks[i][t].stage \in {"step", "record"}
  /\ now >= tasks[i][t].since + ScenarioTimeout
  /\ Move(i, t, [tasks[i][t] EXCEPT !.stage = "expired"])
  /\ UNCHANGED <<fixed, now, loopVars, failures, summary>>

RecordTimeout(i, t) ==
  /\ tasks[i][t].stage = "expired"
  /\ summary' = [summary EXCEPT
                   ![i] = Recorded(@, "scenario_timeout", Duration(i, t))]
  /\ Move(i, t, [tasks[i][t] EXCEPT !.stage = "done"])
  /\ UNCHANGED <<fixed, now, loopVars, failures>>

-----------------------------------------------------------------------------
(* The report. *)

result(s) ==
  LET buckets == mergeable_latency_buckets(s.latency)
      total(counts) ==
        SumFunctionOnSet(counts, {k \in DOMAIN counts : counts[k] > 0})
  IN
  [total     |-> s.success + s.failure,
   success   |-> s.success,
   failure   |-> s.failure,
   errors    |-> total(s.errors),
   histogram |-> total(buckets)]

\* The counts that ScenarioRunResult::validate compares.
validate(r) ==
  /\ r.success + r.failure = r.total
  /\ r.errors = r.failure
  /\ r.histogram = r.total

\* What execute_and_publish makes of the report.  The publisher validates the
\* result; one that it refuses leaves the source record unsettled.
Settlement(i) ==
  IF failures[i] > 0 THEN "fail_stop"
  ELSE IF Count(summary[i], "pulse_infrastructure") > 0 THEN "retry"
  ELSE IF Count(summary[i], "permanent_processing") > 0 THEN "dead_letter"
  ELSE IF validate(result(summary[i])) THEN "result"
  ELSE "refused"

Finish(i) ==
  /\ pc[i] = "Drain" /\ DOMAIN tasks[i] = {}
  /\ pc' = [pc EXCEPT ![i] = "Done"]
  /\ outcome' = [outcome EXCEPT ![i] = Settlement(i)]
  /\ UNCHANGED <<fixed, now, start, tokens, refilled, tasks,
                 launched, failures, summary>>

-----------------------------------------------------------------------------
\* Something that a timer or a finished task has made ready.
Ready(i) ==
  \/ pc[i] = "Launch"
  \/ pc[i] \in {"Gate", "Pace", "Drain"} /\ Ended(i) # {}
  \/ pc[i] \in {"Gate", "Pace"} /\ now >= Deadline(i)
  \/ pc[i] = "Pace" /\ Available(i) >= Cost(i)
  \/ pc[i] = "Drain" /\ DOMAIN tasks[i] = {}
  \/ \E t \in Live(i) : \/ tasks[i][t].stage \in {"record", "expired"}
                        \/ now >= tasks[i][t].since + ScenarioTimeout

Tick ==
  /\ now < MaxTime
  /\ punctual => \A i \in Slices : ~Ready(i)
  /\ now' = now + 1
  /\ UNCHANGED <<fixed, loopVars, tasks, failures, summary>>

Loop(i) ==
  ReapCompleted(i) \/ JoinNext(i) \/ DeadlineReached(i) \/ Acquire(i) \/ Finish(i)

Timed(i) ==
  \E t \in DOMAIN tasks[i] :
    RecordScenario(i, t) \/ ScenarioDeadline(i, t) \/ RecordTimeout(i, t)

Target(i) ==
  \E t \in DOMAIN tasks[i] :
    StepPanics(i, t) \/ \E r \in StepResults : StepEnds(i, t, r)

Next ==
  Tick \/ \E i \in Slices : RunOnce(i) \/ Loop(i) \/ Timed(i) \/ Target(i)

Spec == Init /\ [][Next]_vars

\* The runtime polls what is ready and time passes.  A step may hang.  Every
\* behaviour has finitely many steps, so that fairness of the disjunction is
\* fairness of each disjunct.
FairSpec ==
  Spec /\ WF_vars(Tick \/ \E i \in Slices : Loop(i) \/ Timed(i))

-----------------------------------------------------------------------------
(* Properties *)

Task == [stage: Stages, since: 0 .. MaxTime, left: 0 .. Steps,
         result: StepResults]

\* The state has its shape; in particular a token is only taken when there is
\* one, and the tasks in the JoinSet are launched ones.
TypeOK ==
  /\ scenario \in Windows /\ punctual \in BOOLEAN /\ now \in 0 .. MaxTime
  /\ load = planned_slice_loads(scenario) /\ Slices = DOMAIN load
  /\ \A i \in Slices :
       /\ pc[i] \in {"Idle", "Launch", "Gate", "Pace", "Drain", "Done"}
       /\ start[i] \in 0 .. now /\ refilled[i] \in start[i] .. now
       /\ tokens[i] \in Nat
       /\ launched[i] \in Nat /\ failures[i] \in Nat
       /\ DOMAIN tasks[i] \subseteq 0 .. launched[i] - 1
       /\ \A t \in DOMAIN tasks[i] : tasks[i][t] \in Task
       /\ outcome[i] \in {"none", "fail_stop", "retry", "dead_letter", "result",
                          "refused"}

\* The slices of a window together never run more scenarios than the
\* configured concurrency, although each worker sees its own slice only
\* (slice_load, and the JoinSet gate of run_once).
ConcurrencyIsGlobal ==
  MapThenSumSet(LAMBDA i : Cardinality(DOMAIN tasks[i]), Slices)
    <= scenario.concurrency

\* The token bucket paces starts: since any moment b a slice has started no
\* more scenarios than the capacity of the bucket and the refill since b
\* allow, however long the gate was closed before; and since its beginning no
\* more than the initial tokens and the refill before its deadline, although
\* a token, a free slot and the deadline may be ready together.
PacedStarts ==
  \A i \in Slices :
    /\ \A b \in start[i] .. now :
         LET recent == {t \in DOMAIN tasks[i] : tasks[i][t].since >= b}
         IN Cardinality(recent) * Cost(i) <= Capacity(i) + (now - b) * Refill(i)
    /\ launched[i] * Cost(i) <=
         InitialTokens(i) + (Lesser(now, Deadline(i) - 1) - start[i]) * Refill(i)

\* The starts that the rate and the burst of slice i promise in the first
\* elapsed ticks: the burst at once, or one start after half an interval, and
\* one more in every further interval.
Interval(i) == CeilDiv(Second * load[i].slices, load[i].rate)
FirstStart(i) ==
  IF load[i].startup_burst > 0 THEN 0
  ELSE CeilDiv(Second * load[i].slices, 2 * load[i].rate)
Promised(i, elapsed) ==
  IF elapsed < FirstStart(i) THEN 0
  ELSE Greater(load[i].startup_burst, 1) + (elapsed - FirstStart(i)) \div Interval(i)

\* A slice keeps up with its plan: served without delay and not held back by
\* its concurrency limit it has started what its rate and burst promise, up
\* to the last moment before its deadline, so that waiting for tokens,
\* joining tasks and the deadline cost no start.
KeepsUp ==
  punctual =>
    \A i \in Slices :
      /\ pc[i] # "Idle" /\ ~Ready(i) /\ launched[i] < Concurrency(i)
      => launched[i] >=
           Promised(i, Lesser(now - start[i], load[i].duration - 1))

\* Every started scenario is counted once, as success, failure or failed
\* task, whatever the race between its end, the lock of the metrics and its
\* deadline; and every failure has one error kind.
EveryStartIsCounted ==
  \A i \in Slices :
    LET counted == summary[i].success + summary[i].failure + failures[i]
        open == Live(i) \cup Panicked(i)
    IN /\ launched[i] = counted + Cardinality(open)
       /\ SumFunction(summary[i].errors) = summary[i].failure

\* Served without delay, a slice ends within its duration and one scenario
\* deadline, the time that the Kafka poll budget reserves for it, and it has
\* started at least one scenario.
EndsInBudget ==
  punctual =>
    \A i \in Slices :
      /\ pc[i] \in {"Launch", "Gate", "Pace", "Drain"} =>
           now <= Deadline(i) + ScenarioTimeout
      /\ pc[i] = "Done" => launched[i] > 0

\* Every slice that is being executed ends, also with steps that hang at the
\* concurrency limit.
EverySliceEnds == []<>(\A i \in Slices : pc[i] \in {"Idle", "Done"})

\* A slice whose scenarios ended with success, with a failure of the target
\* or at their deadline becomes a result: target statuses and request
\* deadlines are measurements.
MeasurementsBecomeResults ==
  \A i \in Slices :
    /\ pc[i] = "Done" /\ failures[i] = 0
    /\ \A k \in Kinds \ Measurements : summary[i].errors[k] = 0
    => outcome[i] = "result"

\* The plan of a window keeps the configured concurrency and startup burst in
\* total and gives every slice a unit of concurrency, a burst within it, and a
\* start inside the window, so that the worker refuses a slice only if its
\* share is one start exactly, its number of slices is not a power of two and
\* f64 rounds the share below one; calculate_slices allows such shares.
PlanKeepsTheLoad ==
  /\ MapThenSumSet(LAMBDA i : load[i].max_concurrency, Slices)
       = scenario.concurrency
  /\ MapThenSumSet(LAMBDA i : load[i].startup_burst, Slices) = scenario.burst
  /\ \A i \in Slices : Runnable(load[i])
=============================================================================
