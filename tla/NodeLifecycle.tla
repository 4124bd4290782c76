---------------------------- MODULE NodeLifecycle ----------------------------
(***************************************************************************)
(* One Pulse process from main.rs `run`: the startup milestones and the    *)
(* health state, the runtime components with the four tasks of PulseNode,  *)
(* the ways in which they end, and the shutdown with its two levels of     *)
(* deadlines.                                                              *)
(*                                                                         *)
(* Time matters once tasks are told to stop: left[x] is what remains of    *)
(* the bound of the call or timeout that x is in.  A call that began       *)
(* before still has its whole bound then, or ends earlier.  Steps without  *)
(* a wait take no time.                                                    *)
(***************************************************************************)
EXTENDS Integers, Sequences

CONSTANTS
  DrainTimeout,  \* shutdown_drain_timeout
  RenewInterval, \* leader_renew_interval
  Request,       \* kafka_request_timeout
  OpTimeout,     \* redis_operation_timeout, once to connect and once to call
  Grace,         \* the second that runtime_join_timeout adds
  MaxFailures    \* bound on tasks that end by themselves

ASSUME LifecycleAssumption ==
  /\ {DrainTimeout, RenewInterval, Request, OpTimeout, Grace, MaxFailures} \subseteq Nat
  /\ 0 \notin {DrainTimeout, RenewInterval, Request, OpTimeout, Grace}

Milestones == <<"redis_ready", "kafka_topics_ready", "kafka_producers_ready",
                "kafka_consumer_ready", "scenarios_initialized">>
Dependencies == {"redis_ready", "kafka_topics_ready"}
Flags == {"redis_ready", "kafka_topics_ready", "kafka_producers_ready",
          "kafka_consumer_ready", "scenarios_initialized",
          "worker_accepting", "draining"}

NodeTasks == {"leader", "scheduler", "pump", "worker"}
Timed == {"leader", "scheduler", "worker", "aggregator", "main"}
NoTimer == 0 - 1

VARIABLES
  main,       \* control point of `run`
  unexpected, \* unexpected_exit
  outcome,    \* what `run` returned
  stage,      \* milestones reached by initialize_runtime
  health,     \* HealthState; config_loaded is set before anything else
  signal,     \* the task that waits for a signal
  shutdown,   \* the process's shutdown watch
  stop,       \* the node's own shutdown watch
  node,       \* the component "scheduler/worker runtime"
  task,       \* control points of the node's tasks
  leading,    \* the election task holds a lease to relinquish
  aggregator, \* the component "result aggregation runtime"
  server,     \* the metrics and health server
  left,       \* remaining bound of what each of Timed waits for
  failures    \* tasks that have ended by themselves

vars == <<main, unexpected, outcome, stage, health, signal, shutdown, stop,
          node, task, leading, aggregator, server, left, failures>>
mainVars == <<main, unexpected, outcome, stage>>
nodeVars == <<stop, node, task, leading>>

Init ==
  /\ main = "plans" /\ unexpected = FALSE /\ outcome = "none" /\ stage = 0
  /\ health = [f \in Flags |-> FALSE]
  /\ signal = "waiting" /\ shutdown = FALSE /\ stop = FALSE
  /\ node = "new" /\ task = [t \in NodeTasks |-> "wait"] /\ leading = FALSE
  /\ aggregator \in {"new", "disabled"}
  /\ server \in {"up", "disabled"}
  /\ left = [x \in Timed |-> NoTimer]
  /\ failures = 0

Set(f, b) == health' = [health EXCEPT ![f] = b]
Fail == failures < MaxFailures /\ failures' = failures + 1
Timer(x, n) == left' = [left EXCEPT ![x] = n]

Running == main # "exit"
Exit(o) == main' = "exit" /\ outcome' = o

\* HealthState::begin_draining, as one step.
begin_draining == [health EXCEPT !["worker_accepting"] = FALSE, !["draining"] = TRUE]

Ready ==
  /\ \A f \in Flags \ {"draining"} : health[f]
  /\ ~health["draining"]

-----------------------------------------------------------------------------
(* The signal task of `run`; begin_draining is two stores. *)

SignalArrives ==
  /\ Running /\ signal = "waiting" /\ signal' = "received"
  /\ UNCHANGED <<mainVars, health, shutdown, nodeVars, aggregator, server, left,
                 failures>>

SignalStopsAccepting ==
  /\ Running /\ signal = "received" /\ signal' = "unaccepting"
  /\ Set("worker_accepting", FALSE)
  /\ UNCHANGED <<mainVars, shutdown, nodeVars, aggregator, server, left, failures>>

SignalMarksDraining_unmarked ==
  /\ Running /\ signal = "unaccepting" /\ signal' = "draining"
  /\ UNCHANGED <<mainVars, health, shutdown, nodeVars, aggregator, server, left,
                 failures>>

SignalMarksDraining ==
  /\ Running /\ signal = "unaccepting" /\ signal' = "draining"
  /\ Set("draining", TRUE)
  /\ UNCHANGED <<mainVars, shutdown, nodeVars, aggregator, server, left, failures>>

SignalSends ==
  /\ Running /\ signal = "draining" /\ signal' = "sent"
  /\ shutdown' = TRUE
  /\ UNCHANGED <<mainVars, health, nodeVars, aggregator, server, left, failures>>

SignalTask ==
  SignalArrives \/ SignalStopsAccepting \/ SignalMarksDraining \/ SignalSends

-----------------------------------------------------------------------------
(* `run` up to the point where the runtime is active. *)

\* load_scenarios, validate_scenario_limits and the offline plans.
LoadPlans ==
  /\ main = "plans"
  /\ \/ main' = "startup" /\ UNCHANGED outcome
     \/ Exit("error")
  /\ UNCHANGED <<unexpected, stage, health, signal, shutdown, nodeVars, aggregator,
                 server, left, failures>>

\* initialize_runtime reaches its next milestone.
Initialize ==
  /\ main = "startup" /\ stage < Len(Milestones)
  /\ Set(Milestones[stage + 1], TRUE)
  /\ stage' = stage + 1
  /\ UNCHANGED <<main, unexpected, outcome, signal, shutdown, nodeVars, aggregator,
                 server, left, failures>>

\* An error of initialize_runtime, the startup deadline, or a shutdown.
StartupFails ==
  /\ main = "startup"
  /\ Exit("error")
  /\ UNCHANGED <<unexpected, stage, health, signal, shutdown, nodeVars, aggregator,
                 server, left, failures>>

\* The select over the startup returns the runtime.
Started ==
  /\ main = "startup" /\ stage = Len(Milestones)
  /\ main' = "accept"
  /\ UNCHANGED <<unexpected, outcome, stage, health, signal, shutdown, nodeVars,
                 aggregator, server, left, failures>>

AcceptWork ==
  /\ main = "accept" /\ main' = "spawn"
  /\ Set("worker_accepting", TRUE)
  /\ UNCHANGED <<unexpected, outcome, stage, signal, shutdown, nodeVars, aggregator,
                 server, left, failures>>

\* The checks of RunAggregationRuntime::new repeat those of AppConfig, so that its
\* error return is not reached.
SpawnComponents ==
  /\ main = "spawn" /\ main' = "select"
  /\ node' = "spawned"
  /\ aggregator' = IF aggregator = "new" THEN "busy" ELSE aggregator
  /\ UNCHANGED <<unexpected, outcome, stage, health, signal, shutdown, stop, task,
                 leading, server, left, failures>>

-----------------------------------------------------------------------------
(* PulseNode::run and its tasks. *)

others == <<mainVars, health, signal, shutdown, aggregator, server>>

\* The node's watch begins with the value of the external one.
NodeStarts ==
  /\ Running /\ node = "spawned" /\ node' = "running"
  /\ stop' = shutdown
  /\ UNCHANGED <<others, task, leading, left, failures>>

\* The forwarder; it waits for changes that the external watch has not shown.
ForwardShutdown ==
  /\ Running /\ node = "running" /\ shutdown /\ ~stop
  /\ stop' = TRUE
  /\ UNCHANGED <<others, node, task, leading, left, failures>>

Ended(t) == task[t] = "done"

NodeJoins_only_logs ==
  /\ Running /\ node = "running"
  /\ (\A t \in NodeTasks : Ended(t)) /\ node' = "done"
  /\ UNCHANGED <<others, stop, task, leading, left, failures>>

\* The join loop: the first task to end stops the others.
NodeJoins ==
  /\ Running /\ node = "running"
  /\ \/ (\E t \in NodeTasks : Ended(t)) /\ ~stop /\ stop' = TRUE /\ UNCHANGED node
     \/ (\A t \in NodeTasks : Ended(t)) /\ stop /\ node' = "done" /\ UNCHANGED stop
  /\ UNCHANGED <<others, task, leading, left, failures>>

runtime_join_timeout_of_one_call == Request + Grace

\* The outer deadline of the shutdown.
runtime_join_timeout == DrainTimeout + 2 * RenewInterval + Request + Grace

\* A step of task t: from one of the control points `from` to `to`, where its
\* wait is bounded by n.
Step(t, from, to, n) ==
  /\ Running /\ node = "running" /\ task[t] \in from
  /\ task' = [task EXCEPT ![t] = to]
  /\ left' = IF t \in Timed THEN [left EXCEPT ![t] = n] ELSE left
  /\ UNCHANGED <<others, stop, node>>

\* A panic ends any task.
Panic(t) ==
  /\ Step(t, {"wait", "call", "second", "publish", "busy", "draining", "commit",
              "handshake", "relinquish"}, "done", NoTimer)
  /\ Fail
  /\ UNCHANGED leading

\* leader_election_loop: a request, then the pause until the next one.
LeaderCalls == ~stop /\ Step("leader", {"wait"}, "call", 2 * OpTimeout)
               /\ UNCHANGED <<leading, failures>>
LeaderAnswered == Step("leader", {"call"}, "wait", NoTimer)
                  /\ leading' \in BOOLEAN /\ UNCHANGED failures

\* Its end: leadership is withdrawn, the scheduler has two renewal intervals to
\* stop, then the lease is relinquished.
LeaderStops == stop /\ Step("leader", {"wait"}, "handshake", 2 * RenewInterval)
               /\ UNCHANGED <<leading, failures>>
LeaderHandshake ==
  /\ Ended("scheduler") \/ left["leader"] = 0
  /\ \/ leading /\ Step("leader", {"handshake"}, "relinquish", 2 * OpTimeout)
     \/ ~leading /\ Step("leader", {"handshake"}, "done", NoTimer)
  /\ UNCHANGED <<leading, failures>>
LeaderRelinquished == Step("leader", {"relinquish"}, "done", NoTimer)
                      /\ leading' = FALSE /\ UNCHANGED failures

LeaderTask == LeaderCalls \/ LeaderAnswered \/ LeaderStops \/ LeaderHandshake
              \/ LeaderRelinquished

\* scheduler_loop: prepare_window, register_run without a check of the shutdown
\* between them, publications, which the shutdown interrupts, and ack_slice.
SchedulerTask ==
  /\ \/ ~stop /\ Step("scheduler", {"wait"}, "call", 2 * OpTimeout)
     \/ Step("scheduler", {"call"}, "second", 2 * OpTimeout)
     \/ Step("scheduler", {"call", "second"}, "wait", NoTimer)
     \/ ~stop /\ Step("scheduler", {"second"}, "publish", NoTimer)
     \/ ~stop /\ Step("scheduler", {"publish"}, "second", 2 * OpTimeout)
     \/ ~stop /\ Step("scheduler", {"publish"}, "wait", NoTimer)
     \/ stop /\ Step("scheduler", {"wait", "publish"}, "done", NoTimer)
  /\ UNCHANGED <<leading, failures>>

\* consumer_pump waits for capacity or a record; it ends with the shutdown, or
\* when the worker has dropped the queue.
PumpTask ==
  /\ stop \/ Ended("worker")
  /\ Step("pump", {"wait"}, "done", NoTimer)
  /\ UNCHANGED <<leading, failures>>

\* worker_loop: a job is processed and its offset committed.
WorkerTask ==
  /\ \/ ~stop /\ ~Ended("pump") /\ Step("worker", {"wait"}, "busy", NoTimer)
     \/ Step("worker", {"busy", "draining"}, "commit", Request)
     \/ ~stop /\ Step("worker", {"commit"}, "wait", NoTimer)
     \/ stop /\ Step("worker", {"busy"}, "draining", DrainTimeout)
     \/ (stop \/ Ended("pump")) /\ Step("worker", {"wait"}, "done", NoTimer)
     \/ stop /\ Step("worker", {"draining", "commit"}, "done", NoTimer)
  /\ UNCHANGED <<leading, failures>>

\* An unsettled job or a failed commit stops the worker.
WorkerFailStops ==
  /\ Step("worker", {"busy", "commit"}, "done", NoTimer)
  /\ Fail
  /\ UNCHANGED leading

-----------------------------------------------------------------------------
(* The aggregation runtime, the server and the health monitor. *)

AggregatorStep(from, to, n) ==
  /\ Running /\ aggregator \in from /\ aggregator' = to
  /\ Timer("aggregator", n)
  /\ UNCHANGED <<mainVars, health, signal, shutdown, nodeVars, server>>

\* It settles a record or runs a maintenance cycle, whose bound lies beyond
\* the horizon of this model, and looks at the shutdown in between.
AggregatorTask ==
  /\ \/ ~shutdown /\ AggregatorStep({"wait"}, "busy", NoTimer)
     \/ AggregatorStep({"busy"}, "wait", NoTimer)
     \/ shutdown /\ AggregatorStep({"wait"}, "flush", DrainTimeout)
     \/ AggregatorStep({"flush"}, "done", NoTimer)
  /\ UNCHANGED failures

\* An unsettled failure is returned as an error.
AggregatorFails == AggregatorStep({"busy"}, "failed", NoTimer) /\ Fail

ServerFails ==
  /\ Running /\ server = "up" /\ server' = "exited" /\ Fail
  /\ UNCHANGED <<mainVars, health, signal, shutdown, nodeVars, aggregator, left>>

\* dependency_health_loop, from its start to its abort.  It looks at the shutdown
\* between two rounds only: a round in flight still stores its flags, here any
\* number of times.
MonitorProbes ==
  /\ main \in {"spawn", "select", "mark", "send", "drain"}
  /\ \E f \in Dependencies : Set(f, ~health[f])
  /\ UNCHANGED <<mainVars, signal, shutdown, nodeVars, aggregator, server, left,
                 failures>>

-----------------------------------------------------------------------------
(* `run` from the select to its end. *)

ComponentJoined == node = "done" \/ aggregator \in {"done", "failed"}

component_exit_is_normal == FALSE

\* component_exit: after the shutdown an end is expected.
component_exit == ~shutdown

Select ==
  /\ main = "select" /\ main' = "mark"
  /\ \/ shutdown /\ UNCHANGED unexpected
     \/ ComponentJoined /\ unexpected' = component_exit
     \/ server = "exited" /\ unexpected' = TRUE
  /\ UNCHANGED <<outcome, stage, health, signal, shutdown, nodeVars, aggregator,
                 server, left, failures>>

MarkDraining ==
  /\ main = "mark" /\ main' = "send"
  /\ health' = begin_draining
  /\ UNCHANGED <<unexpected, outcome, stage, signal, shutdown, nodeVars, aggregator,
                 server, left, failures>>

SendShutdown ==
  /\ main = "send" /\ main' = "drain"
  /\ shutdown' = TRUE
  /\ Timer("main", runtime_join_timeout)
  /\ UNCHANGED <<unexpected, outcome, stage, health, signal, nodeVars, aggregator,
                 server, failures>>

\* drain_components: all joined, or aborted at the deadline.
Drained ==
  /\ main = "drain"
  /\ \/ /\ node = "done" /\ aggregator \in {"done", "failed", "disabled"}
        /\ UNCHANGED <<node, aggregator>>
     \/ /\ left["main"] = 0
        /\ node' = IF node = "done" THEN node ELSE "aborted"
        /\ aggregator' = IF aggregator \in {"done", "failed", "disabled"}
                           THEN aggregator ELSE "aborted"
  /\ Exit(IF unexpected THEN "error" ELSE "ok")
  /\ Timer("main", NoTimer)
  /\ UNCHANGED <<unexpected, stage, health, signal, shutdown, stop, task, leading,
                 server, failures>>

-----------------------------------------------------------------------------
\* What takes no time has been done.
Quiet ==
  /\ signal \in {"waiting", "sent"}
  /\ \/ main = "drain"
     \/ main = "select" /\ ~shutdown /\ ~ComponentJoined /\ server # "exited"
  /\ node = "running" =>
       /\ shutdown => stop
       /\ (\E t \in NodeTasks : Ended(t)) => stop
       /\ stop => /\ task["leader"] \in {"call", "handshake", "relinquish", "done"}
                  /\ task["leader"] = "handshake" => ~Ended("scheduler")
                  /\ task["scheduler"] \in {"call", "second", "done"}
                  /\ task["pump"] = "done"
                  /\ task["worker"] \in {"draining", "commit", "done"}
                  /\ \E t \in NodeTasks : ~Ended(t)
  /\ node # "spawned"
  /\ shutdown => aggregator # "wait"

Tick ==
  /\ stop \/ shutdown
  /\ Quiet
  /\ \A x \in Timed : left[x] # 0
  /\ \E x \in Timed : left[x] > 0
  /\ left' = [x \in Timed |-> IF left[x] > 0 THEN left[x] - 1 ELSE left[x]]
  /\ UNCHANGED <<mainVars, health, signal, shutdown, nodeVars, aggregator, server,
                 failures>>

MainTask ==
  LoadPlans \/ Initialize \/ StartupFails \/ Started \/ AcceptWork \/ SpawnComponents
  \/ Select \/ MarkDraining \/ SendShutdown \/ Drained

Next ==
  \/ SignalTask \/ MainTask
  \/ NodeStarts \/ ForwardShutdown \/ NodeJoins
  \/ LeaderTask \/ SchedulerTask \/ PumpTask \/ WorkerTask \/ WorkerFailStops
  \/ \E t \in NodeTasks : Panic(t)
  \/ AggregatorTask \/ AggregatorFails \/ ServerFails \/ MonitorProbes
  \/ Tick

Spec == Init /\ [][Next]_vars

\* Every task runs: its waits are timers, calls with a timeout, or selects that
\* include the shutdown.  Signals and failures need not happen.
Fairness ==
  /\ WF_vars(MainTask)
  /\ WF_vars(SignalStopsAccepting \/ SignalMarksDraining \/ SignalSends)
  /\ WF_vars(NodeStarts \/ NodeJoins) /\ WF_vars(ForwardShutdown)
  /\ WF_vars(LeaderTask) /\ WF_vars(SchedulerTask) /\ WF_vars(PumpTask)
  /\ WF_vars(WorkerTask) /\ WF_vars(AggregatorTask) /\ WF_vars(Tick)

FairSpec == Spec /\ Fairness

-----------------------------------------------------------------------------
Points == {"wait", "call", "second", "publish", "busy", "draining", "commit",
           "handshake", "relinquish", "done"}

\* The types of what `run` and the node's tasks keep.
TypeOK ==
  /\ main \in {"plans", "startup", "accept", "spawn", "select", "mark", "send",
               "drain", "exit"}
  /\ stage \in 0 .. 5
  /\ health \in [Flags -> BOOLEAN]
  /\ shutdown \in BOOLEAN /\ stop \in BOOLEAN /\ unexpected \in BOOLEAN
  /\ task \in [NodeTasks -> Points]
  /\ left \in [Timed -> Int]

\* /health/ready succeeds only when every milestone was reached and run has
\* declared that work is accepted, and never again once the shutdown has been
\* announced to the components, though run sets worker_accepting and the monitor
\* sets the dependency flags while the signal task marks the process as draining.
\* It does not say that the worker still runs: a node whose worker has stopped by
\* itself stays ready until the rest of the node has stopped and run sees it.
ReadyIsHonest ==
  Ready => /\ stage = Len(Milestones)
           /\ main \in {"spawn", "select", "mark"}
           /\ ~shutdown

\* A process ends with success only after a signal: a component or a server
\* that ends by itself makes run return an error, so the pod is restarted.
OkMeansRequested == outcome = "ok" => signal # "waiting"

\* The worst case of the election task, two Redis calls of two operations and the
\* handshake with the scheduler, fits into runtime_join_timeout.  AppConfig does
\* not require it: a request and delivery timeout of 2 s with a drain timeout of
\* 4 s are accepted, and leave 7 s for 8.
Roomy == 4 * OpTimeout < DrainTimeout + Request + Grace

\* The outer deadline of the shutdown never cuts off the settlement of the job in
\* hand and its commit, whatever the timeouts are; and if they are roomy, neither
\* the scheduler nor the return of the lease (comment of runtime_join_timeout: it
\* cannot abort cleanup at the inner boundary).
NodeIsNotCutOff ==
  node = "aborted" => Ended("worker") /\ Ended("pump") /\ ~Roomy

Undisturbed ==
  /\ main = "select" /\ signal = "waiting" /\ ~stop
  /\ aggregator # "failed" /\ server # "exited"
  /\ \A t \in NodeTasks : ~Ended(t)

\* Once a signal has arrived, or any task or the server has ended, the process
\* ends: no task waits for another one that waits for it, and the node has no
\* deadline of its own when one of its tasks fails.
ProcessEnds == <>[](main = "exit" \/ Undisturbed)
=============================================================================
