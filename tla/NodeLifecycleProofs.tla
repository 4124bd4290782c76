------------------------- MODULE NodeLifecycleProofs -------------------------
(***************************************************************************)
(* Proofs about the lifecycle of a process, for all nonzero timeouts and   *)
(* any number of failures.                                                 *)
(***************************************************************************)
EXTENDS NodeLifecycle, TLAPS

Active == {"select", "mark", "send", "drain"}

\* What the health flags say of the progress of run.
HealthInv ==
  /\ main \in Active \cup {"accept", "spawn"} => stage = 5
  /\ main \in {"plans", "startup", "accept"} => ~health["worker_accepting"]
  /\ main \in {"send", "drain"} => health["draining"]
  /\ main = "exit" => health["draining"] \/ ~health["worker_accepting"]
  /\ signal \in {"draining", "sent"} => health["draining"]
  /\ shutdown => health["draining"]

\* Where a shutdown can come from.
OutcomeInv ==
  /\ main # "exit" => outcome = "none"
  /\ main \notin {"drain", "exit"} /\ shutdown => signal = "sent"
  /\ main \in {"mark", "send", "drain"} /\ ~unexpected => signal # "waiting"
  /\ OkMeansRequested

\* The component "scheduler/worker runtime" as run sees it.
PhaseInv ==
  /\ main \in Active => node \in {"spawned", "running", "done"}
  /\ main \notin Active \cup {"exit"} => node = "new"
  /\ main = "drain" => shutdown
  /\ node = "aborted" => main = "exit"
  /\ NodeIsNotCutOff

\* The bounds of the calls and timeouts that the tasks of the node wait for.
Bound(t, pc) ==
  IF t = "leader" /\ pc \in {"call", "relinquish"} THEN 2 * OpTimeout
  ELSE IF t = "leader" /\ pc = "handshake" THEN 2 * RenewInterval
  ELSE IF t = "scheduler" /\ pc \in {"call", "second"} THEN 2 * OpTimeout
  ELSE IF t = "worker" /\ pc = "draining" THEN DrainTimeout
  ELSE IF t = "worker" /\ pc = "commit" THEN Request
  ELSE NoTimer

TimerInv ==
  \A t \in NodeTasks \cap Timed :
    Bound(t, task[t]) # NoTimer => left[t] \in 0 .. Bound(t, task[t])

\* The waits that task t may still begin after the one at control point pc,
\* once it has been told to stop.
Ahead(t, pc) ==
  IF t = "leader" /\ pc \in {"call", "wait"} THEN 2 * RenewInterval + 2 * OpTimeout
  ELSE IF t = "leader" /\ pc = "handshake" THEN 2 * OpTimeout
  ELSE IF t = "scheduler" /\ pc = "call" THEN 2 * OpTimeout
  ELSE IF t = "worker" /\ pc = "busy" THEN DrainTimeout + Request
  ELSE IF t = "worker" /\ pc = "draining" THEN Request
  ELSE 0

\* What task t needs at most until it has ended.
Need(t) ==
  Ahead(t, task[t]) + (IF Bound(t, task[t]) # NoTimer THEN left[t] ELSE 0)

\* The tasks whose worst case is within the outer deadline.
Guarded == IF Roomy THEN NodeTasks ELSE {"pump", "worker"}

\* The outer deadline is ahead of what each of them still needs.
BudgetInv ==
  main = "drain" /\ node # "done" =>
    /\ left["main"] \in Nat /\ (Roomy => left["main"] # 0)
    /\ node # "running" \/ ~stop => left["main"] = runtime_join_timeout
    /\ node = "running" /\ stop =>
         \A t \in Guarded : ~Ended(t) => Need(t) < left["main"]

IInv == TypeOK /\ HealthInv /\ OutcomeInv /\ PhaseInv /\ TimerInv /\ BudgetInv

-----------------------------------------------------------------------------
\* The initial states satisfy the inductive invariant.
LEMMA InitIInv == Init => IInv
<1> SUFFICES ASSUME Init PROVE IInv
  OBVIOUS
<1>1. TypeOK
  <2>1. health \in [Flags -> BOOLEAN]
    BY DEF Init
  <2>2. task \in [NodeTasks -> Points] /\ left \in [Timed -> Int]
    BY DEF Init, Points, NoTimer
  <2>3. shutdown \in BOOLEAN /\ stop \in BOOLEAN /\ unexpected \in BOOLEAN
    BY DEF Init
  <2>4. main = "plans" /\ stage \in 0 .. 5
    BY DEF Init
  <2> QED BY <2>1, <2>2, <2>3, <2>4 DEF TypeOK
<1>2. HealthInv /\ OutcomeInv /\ PhaseInv
  BY DEF Init, HealthInv, OutcomeInv, PhaseInv, OkMeansRequested, NodeIsNotCutOff,
         Active, Flags
<1>3. TimerInv
  BY DEF Init, TimerInv, Bound, NodeTasks
<1>4. BudgetInv
  BY DEF Init, BudgetInv
<1> QED BY <1>1, <1>2, <1>3, <1>4 DEF IInv

\* The steps that do not belong to run or to the signal task, and what they
\* leave alone.
Elsewhere ==
  \/ NodeStarts \/ ForwardShutdown \/ NodeJoins
  \/ LeaderTask \/ SchedulerTask \/ PumpTask \/ WorkerTask \/ WorkerFailStops
  \/ \E t \in NodeTasks : Panic(t)
  \/ AggregatorTask \/ AggregatorFails \/ ServerFails \/ Tick

LEMMA ElsewhereFrame ==
  Elsewhere => UNCHANGED <<main, unexpected, outcome, stage, health, signal, shutdown>>
<1> USE DEF others, mainVars, nodeVars
<1>1. ASSUME NEW t, NEW f, NEW g, NEW n, Step(t, f, g, n)
      PROVE  UNCHANGED <<main, unexpected, outcome, stage, health, signal, shutdown>>
  BY <1>1 DEF Step
<1>2. LeaderTask \/ SchedulerTask \/ PumpTask \/ WorkerTask \/ WorkerFailStops
        \/ (\E t \in NodeTasks : Panic(t))
        => \E t, f, g, n : Step(t, f, g, n)
  BY Zenon DEF LeaderTask, SchedulerTask, PumpTask, WorkerTask, WorkerFailStops, Panic,
         LeaderCalls, LeaderAnswered, LeaderStops, LeaderHandshake, LeaderRelinquished
<1>3. NodeStarts \/ ForwardShutdown \/ NodeJoins \/ AggregatorTask \/ AggregatorFails
        \/ ServerFails \/ Tick
        => UNCHANGED <<main, unexpected, outcome, stage, health, signal, shutdown>>
  BY DEF NodeStarts, ForwardShutdown, NodeJoins, AggregatorTask, AggregatorFails,
         AggregatorStep, ServerFails, Tick
<1> QED BY <1>1, <1>2, <1>3 DEF Elsewhere

\* The steps of run, of the signal task and of the health monitor preserve what
\* is known of flags, signals and the outcome.
LEMMA HealthStep ==
  ASSUME IInv, [Next]_vars
  PROVE  HealthInv' /\ OutcomeInv'
<1> USE DEF mainVars, nodeVars
<1>1. TypeOK /\ HealthInv /\ OutcomeInv
  BY DEF IInv
<1>2. {"worker_accepting", "draining"} \subseteq Flags
  BY DEF Flags
<1>3. ASSUME UNCHANGED <<main, unexpected, outcome, stage, health, signal, shutdown>>
      PROVE  HealthInv' /\ OutcomeInv'
  BY <1>1, <1>3 DEF HealthInv, OutcomeInv, OkMeansRequested
<1>4. CASE SignalTask
  <2> USE <1>1, <1>2 DEF TypeOK, HealthInv, OutcomeInv, OkMeansRequested, Set
  <2>1. CASE SignalArrives
    BY <2>1 DEF SignalArrives
  <2>2. CASE SignalStopsAccepting
    BY <2>2 DEF SignalStopsAccepting
  <2>3. CASE SignalMarksDraining
    BY <2>3 DEF SignalMarksDraining
  <2>4. CASE SignalSends
    BY <2>4 DEF SignalSends
  <2> QED BY <1>4, <2>1, <2>2, <2>3, <2>4 DEF SignalTask
<1>5. CASE MainTask
  <2> USE <1>1, <1>2 DEF TypeOK, HealthInv, OutcomeInv, OkMeansRequested, Set, Active
  <2>1. CASE LoadPlans
    BY <2>1 DEF LoadPlans, Exit
  <2>2. CASE Initialize
    <3>1. Milestones[stage + 1] \notin {"worker_accepting", "draining"} /\ stage' \in 0 .. 5
      BY <2>2 DEF Initialize, Milestones
    <3> QED BY <2>2, <3>1 DEF Initialize
  <2>3. CASE StartupFails
    BY <2>3 DEF StartupFails, Exit
  <2>4. CASE Started
    BY <2>4 DEF Started, Milestones
  <2>5. CASE AcceptWork
    BY <2>5 DEF AcceptWork
  <2>6. CASE SpawnComponents
    BY <2>6 DEF SpawnComponents
  <2>7. CASE Select
    BY <2>7 DEF Select, component_exit
  <2>8. CASE MarkDraining
    BY <2>8 DEF MarkDraining, begin_draining
  <2>9. CASE SendShutdown
    BY <2>9 DEF SendShutdown
  <2>10. CASE Drained
    BY <2>10 DEF Drained, Exit
  <2> QED BY <1>5, <2>1, <2>2, <2>3, <2>4, <2>5, <2>6, <2>7, <2>8, <2>9, <2>10
          DEF MainTask
<1>6. CASE MonitorProbes
  <2>1. PICK f \in Dependencies : health' = [health EXCEPT ![f] = ~health[f]]
    BY <1>6 DEF MonitorProbes, Set
  <2>2. f \notin {"worker_accepting", "draining"}
    BY DEF Dependencies
  <2>3. /\ health'["worker_accepting"] = health["worker_accepting"]
        /\ health'["draining"] = health["draining"]
    BY <1>1, <1>2, <2>1, <2>2 DEF TypeOK
  <2> QED BY <1>1, <1>6, <2>3 DEF MonitorProbes, HealthInv, OutcomeInv,
             OkMeansRequested
<1>7. CASE Elsewhere
  BY <1>3, <1>7, ElsewhereFrame
<1>8. CASE UNCHANGED vars
  BY <1>3, <1>8 DEF vars
<1> QED BY <1>4, <1>5, <1>6, <1>7, <1>8 DEF Next, Elsewhere

\* What task t needs when it arrives at control point pc.
Fresh(t, pc) == Ahead(t, pc) + (IF Bound(t, pc) # NoTimer THEN Bound(t, pc) ELSE 0)

\* A step of one task of the node: it goes to control point g, and once told to
\* stop it needs no more time than before.
Moves(t, g) ==
  /\ task' = [task EXCEPT ![t] = g]
  /\ left' = IF t \in Timed THEN [left EXCEPT ![t] = Bound(t, g)] ELSE left
  /\ UNCHANGED <<main, unexpected, outcome, stage, health, signal, shutdown, stop, node>>
  /\ stop /\ g # "done" => ~Ended(t) /\ Fresh(t, g) <= Need(t)

TaskSteps ==
  \/ LeaderTask \/ SchedulerTask \/ PumpTask \/ WorkerTask \/ WorkerFailStops
  \/ \E t \in NodeTasks : Panic(t)

\* The values of Bound, and what moves after the stop do to the need.
LEMMA Budgets ==
  /\ Bound("leader", "call") = 2 * OpTimeout
  /\ Bound("leader", "relinquish") = 2 * OpTimeout
  /\ Bound("leader", "handshake") = 2 * RenewInterval
  /\ Bound("scheduler", "call") = 2 * OpTimeout
  /\ Bound("scheduler", "second") = 2 * OpTimeout
  /\ Bound("worker", "draining") = DrainTimeout
  /\ Bound("worker", "commit") = Request
  /\ \A t \in {"leader", "scheduler"} : Bound(t, "wait") = NoTimer
  /\ Bound("scheduler", "publish") = NoTimer
  /\ Bound("worker", "wait") = NoTimer /\ Bound("worker", "busy") = NoTimer
  /\ \A t \in NodeTasks : Bound(t, "done") = NoTimer
  /\ Fresh("leader", "wait") <= Ahead("leader", "call")
  /\ Fresh("leader", "handshake") <= Ahead("leader", "wait")
  /\ Fresh("leader", "relinquish") <= Ahead("leader", "handshake")
  /\ Fresh("scheduler", "second") <= Ahead("scheduler", "call")
  /\ \A c \in {"call", "second"} : Fresh("scheduler", "wait") <= Ahead("scheduler", c)
  /\ \A c \in {"busy", "draining"} : Fresh("worker", "commit") <= Ahead("worker", c)
  /\ Fresh("worker", "draining") <= Ahead("worker", "busy")
<1> USE LifecycleAssumption DEF Bound, Ahead, Fresh, NoTimer, NodeTasks
<1> QED OBVIOUS

\* Times are numbers.
LEMMA BudgetTypes ==
  ASSUME NEW t \in NodeTasks, NEW pc \in Points
  PROVE  /\ Bound(t, pc) \in Int /\ Ahead(t, pc) \in Nat /\ Fresh(t, pc) \in Nat
         /\ Bound(t, pc) # NoTimer => Bound(t, pc) \in Nat /\ t \in Timed
         /\ t \in Guarded => Fresh(t, pc) < runtime_join_timeout
<1>1. /\ Bound(t, pc) \in Int /\ Ahead(t, pc) \in Nat
      /\ Bound(t, pc) # NoTimer => Bound(t, pc) \in Nat /\ t \in Timed
  BY LifecycleAssumption DEF Bound, Ahead, NoTimer, Timed
<1>2. t \in Guarded => Fresh(t, pc) < runtime_join_timeout
  <2>1. t \in Guarded => Roomy \/ t \in {"pump", "worker"}
    BY DEF Guarded
  <2>2. t \in {"pump", "worker"} => Fresh(t, pc) < runtime_join_timeout
    BY LifecycleAssumption DEF Bound, Ahead, Fresh, NoTimer, runtime_join_timeout
  <2>3. Roomy => Fresh(t, pc) < runtime_join_timeout
    BY LifecycleAssumption DEF Roomy, Bound, Ahead, Fresh, NoTimer, runtime_join_timeout
  <2> QED BY <2>1, <2>2, <2>3
<1> QED BY <1>1, <1>2 DEF Fresh

\* Every step of a task is of that form.
LEMMA TaskMoves ==
  ASSUME TypeOK, TimerInv, TaskSteps
  PROVE  \E t \in NodeTasks, g \in Points : Moves(t, g)
<1>1. ASSUME NEW t \in NodeTasks, NEW f, Step(t, f, "done", NoTimer)
      PROVE  Moves(t, "done")
  BY <1>1, Budgets DEF Moves, Step, others, mainVars
<1>2. ASSUME NEW t \in NodeTasks, NEW f, NEW g \in Points, NEW n,
             Step(t, f, g, n), n = Bound(t, g),
             stop => task[t] # "done" /\ Fresh(t, g) <= Ahead(t, task[t])
      PROVE  Moves(t, g)
  <2>1. task[t] \in Points
    BY DEF TypeOK
  <2>2. Bound(t, task[t]) # NoTimer => left[t] \in Nat
    BY <2>1, BudgetTypes DEF TimerInv
  <2>3. Ahead(t, task[t]) <= Need(t) /\ Need(t) \in Nat
    BY <2>1, <2>2, BudgetTypes DEF Need
  <2>4. stop => Fresh(t, g) <= Need(t)
    BY <1>2, <2>1, <2>3, BudgetTypes
  <2> QED BY <1>2, <2>4 DEF Moves, Step, Ended, others, mainVars
<1>3. ASSUME NEW t, NEW f, NEW g, NEW n, Step(t, f, g, n)
      PROVE  task[t] \in f
  BY <1>3 DEF Step
<1>4. /\ {"leader", "scheduler", "worker", "pump"} = NodeTasks
      /\ {"wait", "call", "second", "publish", "busy", "draining", "commit",
          "handshake", "relinquish"} \subseteq Points /\ "done" \in Points
  BY DEF NodeTasks, Points
<1>5. CASE \E t \in NodeTasks : \E f : Step(t, f, "done", NoTimer)
  BY <1>1, <1>4, <1>5
<1>6. CASE LeaderTask
  <2>1. CASE LeaderCalls
    BY <1>2, <1>4, <2>1, Budgets DEF LeaderCalls
  <2>2. CASE LeaderAnswered
    <3>1. task["leader"] = "call" /\ Step("leader", {"call"}, "wait", NoTimer)
      BY <1>3, <2>2 DEF LeaderAnswered
    <3> QED BY <1>2, <1>4, <3>1, Budgets
  <2>3. CASE LeaderStops
    <3>1. /\ task["leader"] = "wait"
          /\ Step("leader", {"wait"}, "handshake", 2 * RenewInterval)
      BY <1>3, <2>3 DEF LeaderStops
    <3> QED BY <1>2, <1>4, <3>1, Budgets
  <2>4. CASE Step("leader", {"handshake"}, "relinquish", 2 * OpTimeout)
    <3>1. task["leader"] = "handshake"
      BY <1>3, <2>4
    <3> QED BY <1>2, <1>4, <2>4, <3>1, Budgets
  <2> QED BY <1>4, <1>5, <1>6, <2>1, <2>2, <2>3, <2>4
          DEF LeaderTask, LeaderHandshake, LeaderRelinquished
<1>7. CASE SchedulerTask
  <2>1. CASE ~stop /\ Step("scheduler", {"wait"}, "call", 2 * OpTimeout)
    BY <1>2, <1>4, <2>1, Budgets
  <2>2. CASE Step("scheduler", {"call"}, "second", 2 * OpTimeout)
    <3>1. task["scheduler"] = "call"
      BY <1>3, <2>2
    <3> QED BY <1>2, <1>4, <2>2, <3>1, Budgets
  <2>3. CASE Step("scheduler", {"call", "second"}, "wait", NoTimer)
    <3>1. task["scheduler"] \in {"call", "second"}
      BY <1>3, <2>3
    <3> QED BY <1>2, <1>4, <2>3, <3>1, Budgets
  <2>4. CASE ~stop /\ Step("scheduler", {"second"}, "publish", NoTimer)
    BY <1>2, <1>4, <2>4, Budgets
  <2>5. CASE ~stop /\ Step("scheduler", {"publish"}, "second", 2 * OpTimeout)
    BY <1>2, <1>4, <2>5, Budgets
  <2>6. CASE ~stop /\ Step("scheduler", {"publish"}, "wait", NoTimer)
    BY <1>2, <1>4, <2>6, Budgets
  <2> QED BY <1>4, <1>5, <1>7, <2>1, <2>2, <2>3, <2>4, <2>5, <2>6 DEF SchedulerTask
<1>8. CASE WorkerTask
  <2>1. CASE ~stop /\ Step("worker", {"wait"}, "busy", NoTimer)
    BY <1>2, <1>4, <2>1, Budgets
  <2>2. CASE Step("worker", {"busy", "draining"}, "commit", Request)
    <3>1. task["worker"] \in {"busy", "draining"}
      BY <1>3, <2>2
    <3> QED BY <1>2, <1>4, <2>2, <3>1, Budgets
  <2>3. CASE ~stop /\ Step("worker", {"commit"}, "wait", NoTimer)
    BY <1>2, <1>4, <2>3, Budgets
  <2>4. CASE Step("worker", {"busy"}, "draining", DrainTimeout)
    <3>1. task["worker"] = "busy"
      BY <1>3, <2>4
    <3> QED BY <1>2, <1>4, <2>4, <3>1, Budgets
  <2> QED BY <1>4, <1>5, <1>8, <2>1, <2>2, <2>3, <2>4 DEF WorkerTask
<1>9. CASE PumpTask \/ WorkerFailStops \/ (\E t \in NodeTasks : Panic(t))
  BY <1>4, <1>5, <1>9 DEF PumpTask, WorkerFailStops, Panic
<1> QED BY <1>6, <1>7, <1>8, <1>9 DEF TaskSteps

Runtime == TypeOK /\ PhaseInv /\ TimerInv /\ BudgetInv

\* The worker and the pump are always guarded.
LEMMA GuardedTasks ==
  /\ Guarded \subseteq NodeTasks /\ {"pump", "worker"} \subseteq Guarded
  /\ Roomy => Guarded = NodeTasks
BY DEF Guarded, NodeTasks

\* Before the outer deadline is set, or runs, it suffices for the guarded tasks.
LEMMA NeedFits ==
  ASSUME TypeOK, TimerInv, NEW t \in NodeTasks
  PROVE  Need(t) \in Nat /\ (t \in Guarded => Need(t) < runtime_join_timeout)
<1>1. task[t] \in Points
  BY DEF TypeOK
<1>2. Bound(t, task[t]) # NoTimer => left[t] \in 0 .. Bound(t, task[t])
  BY <1>1, BudgetTypes DEF TimerInv
<1>3. runtime_join_timeout \in Nat
  BY LifecycleAssumption DEF runtime_join_timeout
<1> QED BY <1>1, <1>2, <1>3, BudgetTypes DEF Need, Fresh

\* A task runs only while its node does.
LEMMA TasksRun == TaskSteps => node = "running"
<1>1. TaskSteps => \E t, f, g, n : Step(t, f, g, n)
  BY Zenon DEF TaskSteps, LeaderTask, SchedulerTask, PumpTask, WorkerTask,
         WorkerFailStops, Panic, LeaderCalls, LeaderAnswered, LeaderStops,
         LeaderHandshake, LeaderRelinquished
<1> QED BY <1>1, Zenon DEF Step

\* The steps of the node's tasks.
LEMMA TaskRuntime ==
  ASSUME Runtime, TaskSteps
  PROVE  Runtime'
<1> USE DEF Runtime
<1>1. PICK t \in NodeTasks, g \in Points : Moves(t, g)
  BY TaskMoves
<1>2. /\ \A u \in NodeTasks : task'[u] = IF u = t THEN g ELSE task[u]
      /\ \A u \in Timed : left'[u] = IF u = t THEN Bound(t, g) ELSE left[u]
  BY <1>1 DEF Moves, TypeOK
<1>3. TypeOK'
  BY <1>1, BudgetTypes DEF TypeOK, Moves
<1>4. PhaseInv'
  <2>1. UNCHANGED <<main, node, shutdown>> /\ node = "running"
    BY <1>1, TasksRun DEF Moves
  <2> QED BY <2>1 DEF PhaseInv, NodeIsNotCutOff
<1>5. TimerInv'
  BY <1>2, BudgetTypes DEF TimerInv
<1>6. BudgetInv'
  <2>1. /\ UNCHANGED <<main, node, stop>> /\ left'["main"] = left["main"]
        /\ stop /\ g # "done" => ~Ended(t) /\ Fresh(t, g) <= Need(t)
    BY <1>1, <1>2 DEF Moves, Timed, NodeTasks
  <2>2. ASSUME NEW u \in NodeTasks, u # t
        PROVE  Need(u)' = Need(u) /\ (Ended(u)' <=> Ended(u))
    BY <1>2, <2>2, BudgetTypes DEF Need, Ended, TypeOK
  <2>3. Need(t)' = Fresh(t, g) /\ (Ended(t)' <=> g = "done")
    BY <1>2, BudgetTypes DEF Need, Ended, Fresh
  <2>4. Need(t) \in Nat /\ Fresh(t, g) \in Nat /\ left["main"] \in Int
    BY NeedFits, BudgetTypes DEF TypeOK, Timed
  <2> QED BY <2>1, <2>2, <2>3, <2>4, GuardedTasks DEF BudgetInv
<1> QED BY <1>3, <1>4, <1>5, <1>6

\* Time passes only while some task is inside a wait, and takes as much from
\* the outer deadline as from what that task needs.
LEMMA TickRuntime ==
  ASSUME Runtime, Tick
  PROVE  Runtime'
<1> USE DEF Runtime
<1>1. /\ UNCHANGED <<main, unexpected, stage, health, shutdown, stop, node, task>>
      /\ left' = [x \in Timed |-> IF left[x] > 0 THEN left[x] - 1 ELSE left[x]]
      /\ \A x \in Timed : left[x] # 0
      /\ Quiet
  BY DEF Tick, mainVars, nodeVars
<1>2. TypeOK'
  BY <1>1 DEF TypeOK
<1>3. PhaseInv'
  BY <1>1 DEF PhaseInv, NodeIsNotCutOff, Ended
<1>4. \A t \in NodeTasks : task[t] \in Points /\ task'[t] = task[t]
  BY <1>1 DEF TypeOK
<1>5. ASSUME NEW t \in NodeTasks, Bound(t, task[t]) # NoTimer
      PROVE  left[t] \in 0 .. Bound(t, task[t]) /\ left'[t] = left[t] - 1 /\ left[t] > 0
  <2>1. t \in Timed /\ Bound(t, task[t]) \in Nat
    BY <1>4, <1>5, BudgetTypes
  <2> QED BY <1>1, <1>5, <2>1 DEF TimerInv
<1>6. TimerInv'
  BY <1>4, <1>5, BudgetTypes DEF TimerInv
<1>7. BudgetInv'
  <2> SUFFICES ASSUME main = "drain", node # "done"
               PROVE  BudgetInv'
    BY <1>1 DEF BudgetInv
  <2>1. node = "running" /\ stop
    BY <1>1 DEF Quiet, PhaseInv, Active, BudgetInv
  <2>2. /\ left["main"] \in Nat \ {0} /\ left'["main"] = left["main"] - 1
        /\ \A t \in Guarded : ~Ended(t) => Need(t) < left["main"]
    BY <1>1, <2>1 DEF BudgetInv, Timed
  <2>3. ASSUME NEW t \in NodeTasks, ~Ended(t)
        PROVE  Need(t)' = Need(t) - 1 /\ Need(t)' \in Nat
    <3>1. Bound(t, task[t]) # NoTimer
      <4>1. /\ t = "leader" => task[t] \in {"call", "handshake", "relinquish"}
            /\ t = "scheduler" => task[t] \in {"call", "second"}
            /\ t = "worker" => task[t] \in {"draining", "commit"}
            /\ t # "pump"
        BY <1>1, <2>1, <2>3 DEF Quiet, Ended
      <4>2. {2 * OpTimeout, 2 * RenewInterval, DrainTimeout, Request} \subseteq Nat
        BY LifecycleAssumption
      <4> QED BY <4>1, <4>2 DEF Bound, NodeTasks, NoTimer
    <3>2. left[t] \in Nat \ {0} /\ left'[t] = left[t] - 1
      BY <1>4, <1>5, <3>1, BudgetTypes
    <3> QED BY <1>4, <3>1, <3>2, BudgetTypes DEF Need
  <2>4. PICK t \in NodeTasks : ~Ended(t)
    BY <1>1, <2>1 DEF Quiet
  <2>5. left'["main"] \in Nat /\ (Roomy => left'["main"] # 0)
    BY <2>2, <2>3, <2>4, NeedFits, GuardedTasks
  <2>6. \A u \in Guarded : ~Ended(u) => Need(u)' < left'["main"]
    BY <2>2, <2>3, NeedFits, GuardedTasks
  <2>7. \A u \in NodeTasks : Ended(u)' <=> Ended(u)
    BY <1>4 DEF Ended
  <2> QED BY <1>1, <2>1, <2>5, <2>6, <2>7, GuardedTasks DEF BudgetInv
<1> QED BY <1>2, <1>3, <1>6, <1>7

\* Every step preserves what is known of the runtime.
LEMMA RuntimeStep ==
  ASSUME IInv, [Next]_vars
  PROVE  Runtime'
<1> USE DEF mainVars, nodeVars, others
<1>1. Runtime
  BY DEF IInv, Runtime
<1>2. {"worker_accepting", "draining"} \subseteq Flags /\ Dependencies \subseteq Flags
      /\ {"main", "aggregator"} \subseteq Timed /\ {"main", "aggregator"} \cap NodeTasks = {}
  BY DEF Flags, Dependencies, Timed, NodeTasks
<1>3. runtime_join_timeout \in Nat \ {0}
  BY LifecycleAssumption DEF runtime_join_timeout
<1>4. ASSUME UNCHANGED <<task, stop, node, main>>, left' \in [Timed -> Int],
             \A x \in Timed \ {"aggregator"} : left'[x] = left[x]
      PROVE  TimerInv' /\ BudgetInv'
  <2>1. \A t \in NodeTasks \cap Timed : left'[t] = left[t]
    BY <1>2, <1>4
  <2>2. TimerInv'
    BY <1>1, <1>4, <2>1 DEF TimerInv, Runtime
  <2>3. \A t \in NodeTasks : Need(t)' = Need(t) /\ (Ended(t)' <=> Ended(t))
    BY <1>1, <1>4, <2>1, BudgetTypes DEF Need, Ended, Runtime, TypeOK
  <2>4. left'["main"] = left["main"]
    BY <1>2, <1>4
  <2> QED BY <1>1, <1>4, <2>2, <2>3, <2>4, GuardedTasks DEF BudgetInv, Runtime
<1>5. ASSUME UNCHANGED <<task, left>>, main' # "drain"
      PROVE  TimerInv' /\ BudgetInv'
  BY <1>1, <1>5 DEF TimerInv, BudgetInv, Runtime
<1>6. CASE SignalTask
  <2>1. UNCHANGED <<main, unexpected, stage, left, task, stop, node>> /\ shutdown' \in BOOLEAN
        /\ (shutdown => shutdown') /\ health' \in [Flags -> BOOLEAN]
    BY <1>1, <1>2, <1>6 DEF SignalTask, SignalArrives, SignalStopsAccepting,
       SignalMarksDraining, SignalSends, Set, Runtime, TypeOK
  <2> QED BY <1>1, <1>4, <2>1 DEF Runtime, TypeOK, PhaseInv, NodeIsNotCutOff, Ended
<1>7. CASE LoadPlans \/ Initialize \/ StartupFails \/ Started \/ AcceptWork \/ Select
           \/ MarkDraining
  <2>1. UNCHANGED <<left, task, stop, node, shutdown>>
    BY <1>7 DEF LoadPlans, Initialize, StartupFails, Started, AcceptWork, Select,
       MarkDraining
  <2>3. health' \in [Flags -> BOOLEAN]
    <3>1. \/ health' = health \/ health' = begin_draining
          \/ \E f : health' = [health EXCEPT ![f] = TRUE]
      BY <1>7 DEF LoadPlans, Initialize, StartupFails, Started, AcceptWork, Select,
         MarkDraining, Set
    <3> QED BY <1>1, <3>1 DEF begin_draining, Runtime, TypeOK
  <2>4. stage' \in 0 .. 5
    <3>1. Len(Milestones) = 5
      BY DEF Milestones
    <3>2. stage' = stage \/ (stage < 5 /\ stage' = stage + 1)
      BY <1>7, <3>1 DEF LoadPlans, Initialize, StartupFails, Started, AcceptWork,
         Select, MarkDraining
    <3> QED BY <1>1, <3>2 DEF Runtime, TypeOK
  <2>5. unexpected' \in BOOLEAN
    BY <1>1, <1>7 DEF LoadPlans, Initialize, StartupFails, Started, AcceptWork, Select,
       MarkDraining, component_exit, Runtime, TypeOK
  <2>2. /\ main' \in {"startup", "accept", "spawn", "mark", "send", "exit"}
        /\ main' \in Active <=> main \in Active
        /\ main \notin {"drain", "exit"}
    BY <1>1, <1>7 DEF LoadPlans, Initialize, StartupFails, Started, AcceptWork, Select,
       MarkDraining, Exit, Active
  <2> QED BY <1>1, <1>5, <2>1, <2>2, <2>3, <2>4, <2>5 DEF Runtime, TypeOK, PhaseInv,
          NodeIsNotCutOff, Ended
<1>8. CASE SpawnComponents
  BY <1>1, <1>5, <1>8 DEF SpawnComponents, Runtime, TypeOK, PhaseInv, NodeIsNotCutOff,
     Active
<1>9. CASE SendShutdown
  <2>1. /\ main = "send" /\ main' = "drain" /\ shutdown' = TRUE
        /\ UNCHANGED <<unexpected, stage, health, stop, node, task>>
        /\ left' = [left EXCEPT !["main"] = runtime_join_timeout]
    BY <1>9 DEF SendShutdown, Timer
  <2>2. TypeOK' /\ PhaseInv' /\ left'["main"] = runtime_join_timeout
        /\ \A t \in NodeTasks \cap Timed : left'[t] = left[t]
    BY <1>1, <1>2, <1>3, <2>1 DEF Runtime, TypeOK, PhaseInv, NodeIsNotCutOff, Active
  <2>3. TimerInv'
    BY <1>1, <2>1, <2>2 DEF TimerInv, Runtime
  <2>4. \A t \in Guarded : Need(t)' < runtime_join_timeout
    BY <1>1, <2>1, <2>2, NeedFits, BudgetTypes, GuardedTasks DEF Need, Runtime, TypeOK
  <2> QED BY <1>3, <2>1, <2>2, <2>3, <2>4 DEF BudgetInv, Runtime
<1>10. CASE Drained
  <2>1. node' # "aborted" \/ (Ended("worker") /\ Ended("pump") /\ ~Roomy)
    <3>1. main = "drain"
      BY <1>10 DEF Drained
    <3>2. node' = "aborted" => left["main"] = 0 /\ node # "done"
      BY <1>1, <1>10, <3>1 DEF Drained, PhaseInv, Runtime, Active
    <3>3. ASSUME node' = "aborted"
          PROVE  Ended("worker") /\ Ended("pump") /\ ~Roomy
      <4>1. node = "running" /\ stop /\ ~Roomy
        BY <1>1, <1>3, <3>1, <3>2, <3>3 DEF BudgetInv, Runtime
      <4>2. \A t \in {"pump", "worker"} : Need(t) \in Nat /\ (~Ended(t) => Need(t) < 0)
        BY <1>1, <3>1, <3>2, <3>3, <4>1, NeedFits, GuardedTasks DEF BudgetInv, Runtime
      <4> QED BY <4>1, <4>2
    <3> QED BY <3>3
  <2>2. /\ main' = "exit" /\ UNCHANGED <<unexpected, stage, health, shutdown, stop, task>>
        /\ left' = [left EXCEPT !["main"] = NoTimer]
    BY <1>10 DEF Drained, Exit, Timer
  <2>3. TypeOK'
    <3>1. left' \in [Timed -> Int]
      <4>1. NoTimer \in Int
        BY DEF NoTimer
      <4> QED BY <1>1, <2>2, <4>1 DEF Runtime, TypeOK
    <3> QED BY <1>1, <2>2, <3>1 DEF Runtime, TypeOK
  <2>5. PhaseInv'
    BY <2>1, <2>2 DEF PhaseInv, NodeIsNotCutOff, Ended, Active
  <2>4. TimerInv'
    BY <1>1, <1>2, <2>2 DEF Runtime, TypeOK, TimerInv
  <2> QED BY <2>2, <2>3, <2>4, <2>5 DEF Runtime, BudgetInv
<1>11. CASE MonitorProbes
  <2>1. PICK f \in Dependencies : health' = [health EXCEPT ![f] = ~health[f]]
    BY <1>11 DEF MonitorProbes, Set
  <2>2. health' \in [Flags -> BOOLEAN]
    BY <1>1, <2>1 DEF Runtime, TypeOK
  <2> QED BY <1>1, <1>4, <1>11, <2>2 DEF MonitorProbes, Runtime, TypeOK, PhaseInv,
          NodeIsNotCutOff, Ended
<1>12. CASE TaskSteps
  BY <1>1, <1>12, TaskRuntime
<1>13. CASE NodeStarts \/ ForwardShutdown \/ NodeJoins
  <2>1. /\ UNCHANGED <<main, unexpected, stage, health, shutdown, task, left>>
        /\ stop' \in BOOLEAN /\ node \in {"spawned", "running"}
        /\ node' \in {"running", "done"}
        /\ node' = "running" => node = "spawned" \/ ~stop
    BY <1>1, <1>13 DEF NodeStarts, ForwardShutdown, NodeJoins, Runtime, TypeOK
  <2>2. TypeOK' /\ PhaseInv' /\ TimerInv'
    BY <1>1, <2>1 DEF Runtime, TypeOK, PhaseInv, NodeIsNotCutOff, TimerInv, Active
  <2>3. \A t \in NodeTasks : Need(t)' = Need(t)
    BY <2>1 DEF Need
  <2>4. BudgetInv'
    BY <1>1, <1>3, <2>1, <2>3, NeedFits, GuardedTasks DEF BudgetInv, Runtime, Ended
  <2> QED BY <2>2, <2>4 DEF Runtime
<1>14. CASE AggregatorTask \/ AggregatorFails \/ ServerFails
  <2>1. /\ UNCHANGED <<main, unexpected, stage, health, shutdown, task, stop, node>>
        /\ left' = left \/ \E n \in {NoTimer, DrainTimeout} :
                             left' = [left EXCEPT !["aggregator"] = n]
    BY <1>14 DEF AggregatorTask, AggregatorFails, AggregatorStep, ServerFails, Timer
  <2>2. {NoTimer, DrainTimeout} \subseteq Int
    BY LifecycleAssumption DEF NoTimer
  <2>3. /\ left' \in [Timed -> Int]
        /\ \A x \in Timed \ {"aggregator"} : left'[x] = left[x]
    BY <1>1, <2>1, <2>2 DEF Runtime, TypeOK
  <2> QED BY <1>1, <1>4, <2>1, <2>3 DEF Runtime, TypeOK, PhaseInv, NodeIsNotCutOff, Ended
<1>15. CASE Tick
  BY <1>1, <1>15, TickRuntime
<1>16. CASE UNCHANGED vars
  BY <1>1, <1>4, <1>16 DEF vars, Runtime, TypeOK, PhaseInv, NodeIsNotCutOff, Ended
<1> QED BY <1>6, <1>7, <1>8, <1>9, <1>10, <1>11, <1>12, <1>13, <1>14, <1>15, <1>16
        DEF Next, MainTask, TaskSteps

\* The invariant is inductive, and holds in every reachable state.
LEMMA Invariance == Spec => []IInv
<1>1. IInv /\ [Next]_vars => IInv'
  BY HealthStep, RuntimeStep DEF IInv, Runtime
<1> QED BY <1>1, InitIInv, PTL DEF Spec

\* Every variable keeps its type.
THEOREM TypeCorrect == Spec => []TypeOK
<1>1. IInv => TypeOK
  BY DEF IInv
<1> QED BY <1>1, Invariance, PTL

\* /health/ready succeeds only with every milestone reached and work accepted,
\* and never after the shutdown was announced.
THEOREM ReadinessIsHonest == Spec => []ReadyIsHonest
<1>1. IInv => ReadyIsHonest
  <2>1. Len(Milestones) = 5 /\ {"worker_accepting", "draining"} \subseteq Flags
    BY DEF Milestones, Flags
  <2> QED BY <2>1 DEF IInv, TypeOK, HealthInv, ReadyIsHonest, Ready, Active
<1> QED BY <1>1, Invariance, PTL

\* A process that ends with success was asked to end.
THEOREM SuccessIsRequested == Spec => []OkMeansRequested
<1>1. IInv => OkMeansRequested
  BY DEF IInv, OutcomeInv
<1> QED BY <1>1, Invariance, PTL

\* Whatever the timeouts are, and wherever the tasks are when they are told to
\* stop, the outer deadline of the shutdown never aborts the worker before it has
\* settled and committed its job or given it up; and it aborts no task of the node
\* when runtime_join_timeout has room for the worst case of the election task.
THEOREM NodeFinishes == Spec => []NodeIsNotCutOff
<1>1. IInv => NodeIsNotCutOff
  BY DEF IInv, PhaseInv, NodeIsNotCutOff
<1> QED BY <1>1, Invariance, PTL
=============================================================================
