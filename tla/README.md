# Pulse in TLA+

Pulse is a distributed load generator. Every pod runs the same tasks: leader
election, the scheduler, the Kafka intake, the worker and the aggregator. They
coordinate through Redis, where every decision is one atomic Lua script, and
through four Kafka topics (jobs, results, summaries, dead letters). Delivery is
at least once with deterministic identities. A failure that a task cannot settle
stops the pod with the source offset uncommitted, and the record is delivered
again.

The modules here model that coordination: who may dispatch, what has been
dispatched, who executes a job, how its load is paced and measured, when an
offset may be committed, how the results of a run become one summary, how dead
letters are replayed, and how a process starts and stops.

## Parts of the system and modules

| Part | Code (under `src/src/`) | Modules |
|---|---|---|
| Leader election | `application/service.rs` `leader_election_loop`; `infrastructure/redis/mod.rs` `RedisLeaderElector` | `LeaderElection`, `LeaderLease` (abstract), `LeaderElectionProofs` |
| Scheduler and dispatch ledger | `scheduler_loop`; `RedisDueStateStore` | `Dispatch`, `WindowDispatch` (abstract), `DispatchProofs` |
| Execution leases | `RedisIdempotencyStore` | `ExecutionStore` |
| Intake, worker, settlement, commits | `consumer_pump` to `complete_until_acknowledged`; `infrastructure/kafka/mod.rs` `commit_offset`, `RebalanceFence` | `JobSettlement`, `JobSettlementLemmas`, `JobSettlementProofs` |
| Run state in Redis | `infrastructure/redis/aggregation.rs` scripts; `register_run` | `RunStore` |
| Aggregation runtime | `application/aggregation_service.rs` | `RunAggregation`, `RunAggregationProofs` |
| Slicing of the load | `calculate_slices`, `slice_load`, `slice_startup_burst`; limits in `main.rs` and `contracts.rs` | `LoadPlan`, `LoadPlanProofs` |
| Runner and rate limiter | `application/runner.rs`, `application/rate_limiter.rs`; `execute_and_publish` | `Runner` |
| Latency histogram | `application/metrics.rs` | `LatencyHistogram` |
| DLQ replay tool | `application/dlq_replay.rs`, `bin/pulse_dlq.rs` | `DlqReplay`, `DlqReplayProofs` |
| Node lifecycle | `main.rs` `run`; `PulseNode::run`; health state | `NodeLifecycle`, `NodeLifecycleProofs` |

How the parts meet: `Dispatch` extends `LeaderLease`, the clock-free lease that
`LeaderElection` is proved to implement. `JobSettlement` extends
`ExecutionStore`, and `RunAggregation` extends `RunStore`. `RunAggregation`
receives results of registered runs only, which is what `RunsAreRegistered` of
`Dispatch` provides; runs that nobody registers (jobs of version-1 schedulers and
replayed jobs, see `DlqReplay`) are the exception. `Runner` extends `LoadPlan` and
`LatencyHistogram`: it runs all slices that the plan of one window produces, and
its outcomes are the outcomes that `JobSettlement` chooses from. `NodeLifecycle`
has the tasks of the other modules as control points with the bounds of their waits.

A Lua script is an operator from the stored state to the new state and the typed
answer, with the name of the Rust method. An action is one step of a task
between two awaits, or one effect at Redis or Kafka. A call that fails for its
caller may have had no effect, its effect, or have it later: abandoned requests
are kept in `orphans`, `late` or `stray`.

### LeaderElection

`now` is the clock of Redis, `clock[n]` the monotonic clock of node n, which may
lose up to `Drift <= Renew` ticks while one lease is in use. A request connects,
sends its script and receives the answer; each of the two calls has the whole
`OpTimeout`. `watch[n]` is the value of the watch channel that the scheduler
reads. Owner token and fence are both fresh per acquisition and are compared
together, so the fence stands for both. `Crash`, `Restart`, and the shutdown
sequence `Drain`, `Relinquish`, `Stop` are actions. A node may pause anywhere: no
timer or timeout is assumed to fire on time. The answer "lock without
expiry" is left out: the expiry is set in the script that creates the lock.

### Dispatch

Windows are numbered in the order of their scheduled times and `due[s]` of them
are due. A plan stands for the metadata that `prepare_window` compares; two nodes
may have different plans during a rolling deployment. `writer[s]` is a ghost:
the fence of the last write to the ledger of s. The jobs topic is the set of
distinct records, because a job published again has the identity it had.

### JobSettlement

One partition, with its log, committed offset and group. A record in hand carries
`fenced`, set when a rebalance callback ran after it was received, in place of
the two epochs that the code compares. The broker may give the partition away
(`Rebalance`) before a member learns of it (`JoinGroup`), so the race between the
epoch check and the synchronous commit exists in the model. Time is abstract:
`valid[n]` says that the conservative local deadline is ahead, and Redis does not
expire a lease before that. This is what `LocalDeadlineIsSound` proves of the
same deadline function in `LeaderElection`. A scenario run is one of its
classified outcomes: measured, infrastructure failure, permanent failure,
invariant violation. The answers about mismatched identities are left out,
because the key contains execution key and attempt.

### RunStore and RunAggregation

`RunStore` is the hash of a run, the deadline index, the outbox and the active-run
index. Scenario, schema and slice count are compared together and are one field.
Of the counters `total` is kept, the others are summed the same way. A runtime
settles one record or runs one maintenance cycle, whose calls interleave. The
order of the outbox and of the deadline index is abstracted: a batch is any
subset of the allowed size. `normalize_result` refuses a result with too many error
kinds before the script is called; the script refuses one that would take the run
beyond the limit. Here a commit is atomic with its assignment check;
the race is examined in `JobSettlement`. `finalize_run` is not modelled, as only
tests call it.

### LoadPlan, LatencyHistogram and Runner

`LoadPlan` has rates as numerators over one second. Of the f64 arithmetic it keeps
what comparisons see: a product that is a whole number may be rounded to just below
it. Whether it is depends on the configured numbers, so `low` and `low_share` are
part of the scenario. A slice whose share is exactly one start is then refused by the
worker's own check although startup accepted the scenario (0.3 scenarios per second
for 10 s in three slices); `Marginal` names those slices, and `PlanKeepsTheLoad`
excepts them. `LatencyHistogram` keeps what matters of the HDR histogram: with
three significant digits a slot is 1 ms wide up to 2047 ms and twice as wide for each
further power of two, and `count_between` counts every slot that the interval
touches. `Runner` executes the slices of one window at the same time. The token
bucket holds whole units of a start, one action is one poll of the launch loop or
of a scenario task. A task can fail, panic, hang in a step until the scenario
deadline, or be overtaken by the deadline while it waits for the lock of the
metrics. `punctual` behaviours serve timers on time; the others let the process be
late at any point. The end of `run_once` includes what `execute_and_publish` and
`ScenarioRunResult::validate` decide about the report.

### DlqReplay

Sessions of the tool, in the modes given by their environment, share one consumer
group and one partition. A record is its class: size, identity fields, validity,
scenario, time and terminal event. A publication or commit that fails for the tool
may have happened. A worker rejects a replayed job whose plan is not its own, or claims
the attempt of its identity, executes it and settles it with a result, a retry or a
dead letter, which is appended to the topic that a session is reading. A claim ends
without a terminal record when the lease is lost or released, and a terminal record
ends with its retention (`Lost`, `Forgotten`). Each end permits one more execution:
`traffic` and `ended` count both for every attempt. How a worker gets there is the
subject of `JobSettlement`.

### NodeLifecycle

`left[x]` is what remains of the bound of the wait that task x is in. Time passes
only when tasks have been told to stop, in unit ticks for all running waits, and a
step without a wait takes no time. The outer deadline is `runtime_join_timeout`. The
model begins after the configuration is read; the dry run is left out. The health
monitor looks at the shutdown between two rounds of probes, so a round in flight stores
its flags afterwards; here it may do so any number of times until `run` ends. The checks
of `RunAggregationRuntime::new` repeat those of `AppConfig::validate`, so its error
return is not reached and has no action.

## Runs

| Run | Question | States, time (2 to 4 workers) |
|---|---|---|
| `MCLeaderElection` | safety of election and refinement of `LeaderLease` | 1.2 M, 1.5 min |
| `MCDispatch` | ledger against Kafka, fencing, refinement of `WindowDispatch` | 0.4 M, 1 min |
| `MCDispatchLive` | due windows complete, scenarios do not block each other | 0.3 M, 0.7 min |
| `MCJobSettlement` | commits, outcomes, leases for records of every kind | 1.2 M, 1.2 min |
| `MCJobLive` | every record is settled, retries included | 0.2 M, 0.6 min |
| `MCRunAggregation` | exact and recoverable summaries, refusals, capacity | 2 M, 2 to 3.5 min |
| `MCRunLive` | runs reported, results consumed | 0.1 M, 0.8 min |
| `MCRunner` | the plan keeps the load; pacing, concurrency, counting, end of slices | 0.4 M, 0.8 min |
| `MCDlqReplay` | replayed records are accounted for, one execution per claim; sessions rest | 0.7 M, 1 to 1.8 min |
| `MCNodeLifecycle` | readiness, exit status, deadlines, end of the process | 0.7 M, 2 to 2.7 min |

Runs that show a disagreement between the code and its documentation:

- `MCJobRelease`: after a lost lease `execute_with_lease` awaits `release` while
  the pinned settlement, with its scenario tasks, is still alive. The record is
  deleted and another node can execute the attempt next to those tasks. ADR-0009
  says target execution is cancelled first.
- `MCRunnerDeadline`: a scenario that ends at a deadline of 5 s has a latency in a
  histogram slot (5000 to 5003 ms) that straddles a bucket bound, and
  `mergeable_latency_buckets` counts it in two buckets. The result then fails its own
  validation, the worker stops without settling, and redelivery repeats the slice.
  ADR-0007 says request deadlines are measurements, not reasons to retry. The bounds
  2500, 10000, 30000 and 60000 ms have the same defect.

The models contain further behaviours that a reader of the documentation may not
expect. The properties are stated so that they allow for them:

- A Redis request has two operation timeouts (connect, script), the TTL rule of
  `docs/configuration.md` counts one. A slow successful answer can arrive with its
  budget used up; leadership is withdrawn and safety holds.
- A late slice changes the contents of a pending summary but not its revision, so
  two different summaries can share an `event_id`.
- The second slice of a version-1 run is refused as invalid state, which is not a
  permanent conflict, so every aggregator that receives it stops, and the partition
  stays there. `MCRunLive` has such a log; `Wedged` is the exception that
  `ResultsAreConsumed` makes for it.
- Readiness stays true while a node whose worker has fail-stopped joins its other
  tasks; the drain timeout of the worker is logged and `run` may still succeed; the
  aggregator can be aborted in its final flush.
- A replayed job has the same identity in every session, also when the scenario
  configuration has changed in between. It is executed again when the record of its
  last execution is gone: `OneExecutionPerClaim` is what remains of "once".
- `runtime_join_timeout` has room for the worker's last settlement and commit, but not
  always for the two Redis calls, of two operations each, that the election task or
  the scheduler may have ahead. With a request and delivery timeout of 2 s and a drain
  timeout of 4 s, which `validate` accepts, it leaves 7 s for 8. The lease is then not
  relinquished and expires by its TTL. `Roomy` is the condition in `NodeIsNotCutOff`.

### Bounds

Two nodes show every conflict of an old and a new owner, since the properties
compare two. Two slices and two windows give a window that is half acknowledged
and a successor that resumes it. Up to two faults let a second failure hit the
recovery from the first; `MaxStray`, `MaxLate` and `MaxOrphans` of one keep one
delayed request across the steps of its successor. `MaxRetries = 1` in
`MCJobSettlement` gives a job that is retried and one that goes to the DLQ after its
last attempt; with `MaxFaults = 1` every single failure is met at every step, and the
proofs cover the others. `MaxExact = 3` puts the Lua
bound within reach of the totals, `MaxActive = 1` the capacity.
`MCRunAggregation` runs several logs of the results partition, each with bounds of its
own (`Bounds[log]`): faults and rebalances belong to the redelivered run, the logs
with refusals are fault-free.
The grid of `MCRunner` has all valid windows up to small rates, durations and
concurrencies, with targets per slice of two and three slices at most so that every
limit is met; three of them, one of them in two slices, are executed. `MCDlqReplay`
has two sessions, in which the second meets what a crash of the first left, a limit
that a log of three records exceeds, and two faults, so that a claim can end and be
taken again.
In `MCNodeLifecycle` the timeouts are not `Roomy`, so that the election task can be cut
off and the worker must not be; one task may end by itself. The liveness runs of dispatch and settlement have no delayed requests.
`MCDispatchLive` has leader changes and no failed calls: a leader that is replaced
between two steps leaves the ledger in the states that a failed call leaves. In
`MCLeaderElection` the clock bound of 3 reaches the expiry of a lease granted at the
start, and relinquishing gives room for three leases; the expiry of a renewed lease
lies beyond the bound, and the proofs remove it.

Deadlock is not checked where the bounds on time, faults and windows let the
model stop (all runs but those of `MCRunAggregation`).

### Fairness

- `Dispatch`: a running scheduler takes its steps (every await is a call with a
  timeout, the watch or a timer), and windows become due. Leadership is not fair:
  `DueWindowsComplete` has a lasting leader as its hypothesis.
- `JobSettlement`: live tasks run, a stopped pod is restarted, a member joins the
  current generation, the partition of a dead member is assigned again, and
  unrenewed leases expire. The group is stable after `MaxRebalance` rebalances and
  faults end after `MaxFaults`. A committed offset may move back in the commit
  race, so the property is that every record is settled, not that the offset
  reaches the end.
- `Runner`: ready tasks and timers are polled, and time passes. `EndsInBudget` is
  about punctual behaviours, the other properties about all.
- `DlqReplay`: a running tool takes its steps, each of which has a timeout. The
  operator, faults and workers are not fair.
- `NodeLifecycle`: tasks take their steps and time passes after the shutdown; the
  signal and failures are not fair, and `ProcessEnds` excepts the undisturbed process.
- `RunAggregation`: the runtime's select is biased towards the scan tick, which
  is due one interval after the last tick was taken. Strong fairness of `Receive`
  therefore assumes maintenance cycles shorter than `scan_interval`. If they take
  longer the consumer is starved; durations of cycles are not modelled.

## What is proved

`LeaderElectionProofs` proves, for every set of nodes and all constants that
satisfy `ConstantsAssumption` (the rules of `AppConfig::validate` and a clock that
loses at most the reserved renewal interval per lease):

- `TypeCorrect`, `LocalDeadlineIsSound`, `SingleLeader`: the three invariants of
  `MCLeaderElection`;
- `FencedHandover`: a new fence appears only when no node passes the check (the
  refinement implies it, so no run repeats it);
- `ElectionImplementsLease`: the election refines `LeaderLease`.

The inductive invariant `IInv` adds to the types that clocks are never ahead of
Redis (`ClockInv`), what each control point says of the task's lease (`TaskInv`),
that a fence is held by one node and never by an abandoned relinquish
(`FenceInv`), and the core of the argument, `CoverInv`: a granted answer or a
watched lease is covered in Redis for a whole TTL counted from the start of its
request. The local deadline ends one renewal interval earlier, which pays for the
lag of the clock, so passing the local check implies owning the live lock; two
nodes cannot own it. `SingleLeader` alone is not inductive, because it says
nothing of answers under way and of requests that Redis has yet to execute.

`DispatchProofs` proves, for any nodes, scenarios and plans and any number of windows,
faults and late requests, the two invariants of `MCDispatch` that relate Redis and Kafka
(`LedgerAfterKafka`, `RegisteredBeforePublished`), that ledger writes are fenced
(`FencedWrites`), and that dispatch refines `WindowDispatch`
(`DispatchRefinesWindows`). The invariant has four parts beside the types: passes and
abandoned requests carry real fences and the live lease has the newest one
(`FenceInv`); what the control points say of the window in hand, and that an abandoned
acknowledgement is about a stored record (`HandInv`); the ledger counts exactly the
slices it has, and its windows are consecutive (`LedgerInv`); and the core of the
refinement, `PlanInv`: a window that is known anywhere outside the ledger, in the topic,
on its way, in a scheduler's hand or in an abandoned acknowledgement, is a dispatched
one or the active one, and is known under a single plan. Without the abandoned
requests and the tasks of deposed leaders in it, `PlanInv` is not inductive: they could
publish a window under another plan.

`JobSettlementProofs`, on top of `JobSettlementLemmas`, proves the four invariants of
`MCJobSettlement` for any finite sets of nodes and jobs (`SettlementTypes`,
`CommitsFollowSettlement`, `OutcomesFollowPublication`, `LeasesAreExclusive`). Node and
key sets are finite so that a fresh token exists, as the random owner tokens of the code
assume. `CommittedIsSettled` needs to know of every member, also one that has lost the
partition, that the records it received under its assignment are in the order of the log
and that all before them are settled (`ChainOK`): it is this that makes a commit of the
record in hand safe. `RecordedIsPublished` needs that the event of a settlement is in
its topic before `complete` is called (`OutOK`) and the same of abandoned calls of
`complete` (`RecInv`). `HeldLeaseIsMine` needs that tokens differ and that an abandoned
request with the token of a live lease can only complete it, or release it when its
holder is releasing it (`LeaseInv`).

`RunAggregationProofs` proves, for any logs, nodes, runs and bounds whose logs hold results
of the runs (`AggregationAssumption`), `SummariesAreRecoverable`, `AcksFollowPublication`,
`CommitsFollowIngest`, `RunsMoveForward` and `RunsStayWithinLimit`. First each Lua script
is shown to touch one run, to keep it well formed (`RunOK`: an unpublished revision is in
the outbox and without expiry, the index of active runs has every stored run), to move it
forward, and to enter it into the index only below the limit. The invariant then has the group
(`GroupInv`), what is below the offset (`SettledInv`), that summaries under way or published
are of a revision that the run has reached (`SummaryInv`), and that abandoned requests
are about results of the log or published summaries (`LateInv`).

`DlqReplayProofs` proves for any topic contents, modes and numbers of sessions and
faults that the group's offset passes only accounted records
(`CommittedAccounted`), never moves back (`OffsetsAdvance`), and that an attempt of a
record is executed again only after its claim has ended (`OneExecution`). The invariant
adds what a session knows of the record in hand (`HandInv`), that the owner of
the partition is not behind the committed offset (`OwnerInv`), that the identity of a job
determines the record it came from (`JobInv`), and that an execution for which no
claim has ended still has its claim (`ClaimInv`).

`NodeLifecycleProofs` proves `ReadyIsHonest`, `OkMeansRequested` and `NodeIsNotCutOff` for
all nonzero timeouts. The core is `BudgetInv`: for each guarded task of the node, what
it may still need until it has ended is less than what is left of the outer deadline.
The worker and the pump are guarded whatever the timeouts are, the election task and the
scheduler if the timeouts are `Roomy`.

`LoadPlanProofs` proves `SlicesAreRunnable` for all scenarios that pass the startup rules:
a slice that the worker's check of its paced start refuses is `Marginal`.

Only model-checked: `TypeOK` of `Dispatch` (its bounds), `RunAggregation` and `Runner`,
`SummaryCountsEachSliceOnce` (sums over sets need an induction), all properties of the
runner, and all liveness, which is out of the prover's reach.

## Not modelled

- f64 arithmetic beyond the comparisons of `LoadPlan`: the token bucket of `Runner`
  refills exactly.
- `retry_delay`, `histogram_quantile` and the SHA-256 fingerprints: pure functions
  without interaction; identities are abstract values in the models.
- The in-memory `RunAggregator` of `application/aggregation.rs`: no code calls it.
- Scenario steps, templates, the gRPC gateway, configuration parsing, Prometheus
  metrics, client settings and topic creation: sequential code or pure I/O. Rules of
  the configuration that the properties depend on are assumptions of the modules.
