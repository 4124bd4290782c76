------------------------------ MODULE Dispatch ------------------------------
(***************************************************************************)
(* The scheduler_loop task of every node (application/service.rs), the     *)
(* dispatch ledger it drives through the prepare_window, register_run and  *)
(* ack_slice Lua scripts (infrastructure/redis/mod.rs), and the publication*)
(* of jobs to Kafka.                                                       *)
(*                                                                         *)
(* Leadership comes from LeaderLease: watch[n] is the fence for which      *)
(* lease_is_current holds on node n.  A scheduler that was past its check  *)
(* when it lost the lease still finishes the Redis call or the publication *)
(* it had started.                                                         *)
(*                                                                         *)
(* The windows of a scenario are numbered in the order of their scheduled  *)
(* times; due[s] of them are due by Redis TIME.  A plan stands for all the *)
(* metadata that prepare_window compares (slice count, repeat policy,      *)
(* contract version, fingerprint); nodes may run different plans during a  *)
(* rolling deployment.                                                     *)
(***************************************************************************)
EXTENDS LeaderLease, FiniteSets

CONSTANTS
    Scenario,    \* the scenarios in `plans'
    Once,        \* the scenarios whose RepeatPolicy is Once
    Plan,        \* the dispatch specifications in use
    PlanOf,      \* PlanOf[n]: the specification node n was deployed with
    SlicesOf,    \* SlicesOf[p]: calculate_slices of plan p
    MaxWindow,   \* bound on the windows that become due
    MaxFence,    \* bound on the leases granted
    MaxFaults,   \* bound on crashes and failed calls
    MaxStray     \* bound on records or requests in flight without a waiter

ASSUME DispatchAssumption ==
    /\ Once \subseteq Scenario
    /\ PlanOf \in [Node -> Plan]
    /\ SlicesOf \in [Plan -> Nat \ {0}]

VARIABLES
    due,         \* due[s]: windows of s whose scheduled time has come
    ledger,      \* ledger[s]: the Redis hash of scenario s
    registered,  \* the runs known to the aggregation store
    jobs,        \* the jobs topic, as the set of distinct records
    stray,       \* records in flight that no scheduler waits for
    late,        \* abandoned Redis requests that may still be executed
    pc,          \* pc[n]: where the scheduler task of n is
    leader,      \* leader[n]: the fence the current pass runs under
    todo,        \* todo[n]: scenarios still to visit in this pass
    scen,        \* scen[n]: the scenario in hand
    window,      \* window[n]: the DispatchWindow in hand
    missing,     \* missing[n]: its slices still to publish
    faults,      \* faults so far
    writer       \* writer[s]: the fence of the last write to ledger[s] (ghost)

redisVars == <<ledger, registered, writer>>
kafkaVars == <<jobs, stray>>
taskVars == <<pc, leader, todo, scen, window, missing>>
vars == <<leaseVars, due, redisVars, kafkaVars, late, taskVars, faults>>

NoWindow == [at |-> 0, plan |-> "none"]
NoScenario == "none"

EmptyLedger ==
    [active |-> NoWindow, acked |-> {}, count |-> 0, next |-> 1,
     last |-> NoWindow, onceDone |-> FALSE]

Init ==
    /\ LeaseInit
    /\ due = [s \in Scenario |-> 1]
    /\ ledger = [s \in Scenario |-> EmptyLedger]
    /\ registered = {}
    /\ jobs = {}
    /\ stray = {}
    /\ late = {}
    /\ pc = [n \in Node |-> "top"]
    /\ leader = [n \in Node |-> 0]
    /\ todo = [n \in Node |-> {}]
    /\ scen = [n \in Node |-> NoScenario]
    /\ window = [n \in Node |-> NoWindow]
    /\ missing = [n \in Node |-> {}]
    /\ faults = 0
    /\ writer = [s \in Scenario |-> 0]

(* The slices of a window, and the job record of one of them; run_id is    *)
(* the window id, execution_key the window id and the slice index.         *)
Slices(p) == 0 .. SlicesOf[p] - 1
WindowId(w) == <<w.at, SlicesOf[w.plan]>>
RunId(s, w) == <<s, WindowId(w)>>
Job(s, w, i) == [scenario |-> s, at |-> w.at, plan |-> w.plan, slice |-> i]

(* lease_is_current for the lease that the pass of node n runs under.      *)
lease_is_current(n) == watch[n] # 0 /\ watch[n] = leader[n]

-----------------------------------------------------------------------------
(* The Lua scripts on the ledger, as the new ledger and the typed outcome. *)
leader_is_current_unchecked(f) == TRUE
leader_is_current(f) == holder.fence = f

Outcome(kind, newLedger, slices) ==
    [kind |-> kind, ledger |-> newLedger, missing |-> slices]

(* The stored metadata of the active window equal the caller's.            *)
same_plan(w, p) == w.plan = p

(* prepare_window: resume the active window if its metadata match, else    *)
(* open the next window if it is due.                                      *)
prepare_window(s, p, f) ==
    LET l == ledger[s]
        open == Slices(p) \ l.acked
    IN  IF ~leader_is_current(f) THEN Outcome("stale", l, {})
        ELSE IF l.active # NoWindow
        THEN IF /\ same_plan(l.active, p)
                /\ l.count = SlicesOf[p] - Cardinality(open)
                /\ open # {}
             THEN Outcome("ready", l, open)
             ELSE Outcome("invalid", l, {})
        ELSE IF s \in Once /\ l.onceDone THEN Outcome("finished", l, {})
        ELSE IF l.next > due[s] THEN Outcome("notdue", l, {})
        ELSE Outcome("ready",
                     [l EXCEPT !.active = [at |-> l.next, plan |-> p], !.count = 0],
                     Slices(p))

(* The ledger after the last acknowledgement of its active window.         *)
completed_keeping_acks(s, l) ==
    [active |-> NoWindow, acked |-> l.acked, count |-> 0, next |-> l.active.at + 1,
     last |-> l.active, onceDone |-> s \in Once]
completed(s, l) ==
    [active |-> NoWindow, acked |-> {}, count |-> 0, next |-> l.active.at + 1,
     last |-> l.active, onceDone |-> s \in Once]

(* remaining = total_slices - ack_count, computed by the script.           *)
remaining_off_by_one(l) == SlicesOf[l.active.plan] - l.count - 1
remaining(l) == SlicesOf[l.active.plan] - l.count

(* HSETNX of the slice's field; the counter moves only if it was not set.  *)
acknowledged_recounting(l, i) ==
    [l EXCEPT !.acked = @ \union {i}, !.count = @ + 1]
acknowledged(l, i) ==
    [l EXCEPT !.acked = @ \union {i}, !.count = IF i \in l.acked THEN @ ELSE @ + 1]

(* ack_slice: record the slice once; the last one completes the window.    *)
ack_slice(s, w, i, f) ==
    LET l == ledger[s]
        acked == acknowledged(l, i)
    IN  IF ~leader_is_current(f) THEN Outcome("stale", l, {})
        ELSE IF l.active = NoWindow
        THEN Outcome(IF l.last # NoWindow /\ WindowId(l.last) = WindowId(w)
                     THEN "complete" ELSE "invalid", l, {})
        ELSE IF ~(WindowId(l.active) = WindowId(w) /\ l.active.plan = w.plan)
        THEN Outcome("invalid", l, {})
        ELSE IF remaining(acked) > 0 THEN Outcome("pending", acked, {})
        ELSE IF remaining(acked) < 0 THEN Outcome("invalid", acked, {})
        ELSE Outcome("complete", completed(s, acked), {})

(* A script runs in Redis; a write is remembered with the caller's fence.  *)
Apply(s, f, newLedger) ==
    /\ ledger' = [ledger EXCEPT ![s] = newLedger]
    /\ writer' = IF newLedger = ledger[s] THEN writer ELSE [writer EXCEPT ![s] = f]

-----------------------------------------------------------------------------
(* One pass of the scheduler of node n over its plans.                     *)

Goto(n, label) == pc' = [pc EXCEPT ![n] = label]
Fault == faults < MaxFaults /\ faults' = faults + 1

(* The loop of a pass is left: the task forgets what it had in hand.       *)
LeavePass(n) ==
    /\ Goto(n, "top")
    /\ leader' = [leader EXCEPT ![n] = 0]
    /\ todo' = [todo EXCEPT ![n] = {}]
    /\ scen' = [scen EXCEPT ![n] = NoScenario]
    /\ window' = [window EXCEPT ![n] = NoWindow]
    /\ missing' = [missing EXCEPT ![n] = {}]

(* The scenario in hand is dropped; the pass goes on with the next one.    *)
LeaveScenario(n) ==
    /\ Goto(n, "plan")
    /\ scen' = [scen EXCEPT ![n] = NoScenario]
    /\ window' = [window EXCEPT ![n] = NoWindow]
    /\ missing' = [missing EXCEPT ![n] = {}]
    /\ UNCHANGED <<leader, todo>>

(* A new pass under the lease that the watch shows.                        *)
BeginPass(n) ==
    /\ pc[n] = "top" /\ watch[n] # 0
    /\ leader' = [leader EXCEPT ![n] = watch[n]]
    /\ todo' = [todo EXCEPT ![n] = Scenario]
    /\ Goto(n, "plan")
    /\ UNCHANGED <<leaseVars, due, redisVars, kafkaVars, late, scen, window, missing, faults>>

PickScenario(n, s) ==
    /\ pc[n] = "plan" /\ s \in todo[n] /\ lease_is_current(n)
    /\ scen' = [scen EXCEPT ![n] = s]
    /\ todo' = [todo EXCEPT ![n] = @ \ {s}]
    /\ Goto(n, "prepare")
    /\ UNCHANGED <<leaseVars, due, redisVars, kafkaVars, late, leader, window, missing, faults>>

(* All scenarios visited, or the lease is gone at one of the checks.       *)
EndPass(n) ==
    /\ \/ pc[n] = "plan" /\ todo[n] = {}
       \/ pc[n] \in {"plan", "register", "slice"} /\ ~lease_is_current(n)
    /\ LeavePass(n)
    /\ UNCHANGED <<leaseVars, due, redisVars, kafkaVars, late, faults>>

Prepare(n) ==
    /\ pc[n] = "prepare"
    /\ LET out == prepare_window(scen[n], PlanOf[n], leader[n]) IN
          /\ Apply(scen[n], leader[n], out.ledger)
          /\ \/ /\ out.kind = "ready"
                /\ window' = [window EXCEPT ![n] =
                               [at |-> out.ledger.active.at, plan |-> PlanOf[n]]]
                /\ missing' = [missing EXCEPT ![n] = out.missing]
                /\ Goto(n, "register")
                /\ UNCHANGED <<leader, todo, scen>>
             \/ out.kind \in {"notdue", "finished", "invalid"} /\ LeaveScenario(n)
             \/ out.kind = "stale" /\ LeavePass(n)
    /\ UNCHANGED <<leaseVars, due, registered, kafkaVars, late, faults>>

(* A Redis call fails for the caller: the script did not run, ran without  *)
(* its answer arriving, or may still run.                                  *)
CallFails(s, f, newLedger, request) ==
    \/ UNCHANGED <<ledger, writer, late>>
    \/ Apply(s, f, newLedger) /\ UNCHANGED late
    \/ /\ Cardinality(late) < MaxStray
       /\ late' = late \union {request}
       /\ UNCHANGED <<ledger, writer>>

PrepareFails(n) ==
    /\ pc[n] = "prepare" /\ Fault
    /\ CallFails(scen[n], leader[n],
                 prepare_window(scen[n], PlanOf[n], leader[n]).ledger,
                 [op |-> "prepare", scenario |-> scen[n], plan |-> PlanOf[n],
                  at |-> 0, slice |-> 0, leader |-> leader[n]])
    /\ LeaveScenario(n)
    /\ UNCHANGED <<leaseVars, due, registered, kafkaVars>>

(* The lease is still current after prepare_window: register the run.      *)
BeginRegister(n) ==
    /\ pc[n] = "register" /\ lease_is_current(n)
    /\ Goto(n, "registering")
    /\ UNCHANGED <<leaseVars, due, redisVars, kafkaVars, late, leader, todo, scen, window,
                   missing, faults>>

(* register_run, which does not check the fence, succeeds.                 *)
Register(n) ==
    /\ pc[n] = "registering"
    /\ registered' = registered \union {RunId(scen[n], window[n])}
    /\ Goto(n, "slice")
    /\ UNCHANGED <<leaseVars, due, ledger, writer, kafkaVars, late, leader, todo, scen,
                   window, missing, faults>>

(* register_run fails (Redis error, active-run capacity, changed metadata),*)
(* before or after the run was stored: no slice is published.              *)
RegisterFails_ignored(n) ==
    /\ pc[n] = "registering" /\ Fault
    /\ Goto(n, "slice")
    /\ UNCHANGED <<leaseVars, due, redisVars, kafkaVars, late, leader, todo, scen,
                   window, missing>>
RegisterFails(n) ==
    /\ pc[n] = "registering" /\ Fault
    /\ \/ UNCHANGED registered
       \/ registered' = registered \union {RunId(scen[n], window[n])}
    /\ LeaveScenario(n)
    /\ UNCHANGED <<leaseVars, due, ledger, writer, kafkaVars, late>>

(* The slice in hand is the smallest missing one.                          *)
Slice(n) == CHOOSE i \in missing[n] : \A j \in missing[n] : i <= j
JobInHand(n) == Job(scen[n], window[n], Slice(n))

(* The check before each slice passes and the record goes to the producer. *)
StartPublish(n) ==
    /\ pc[n] = "slice" /\ missing[n] # {} /\ lease_is_current(n)
    /\ Goto(n, "publishing")
    /\ UNCHANGED <<leaseVars, due, redisVars, kafkaVars, late, leader, todo, scen, window,
                   missing, faults>>

FinishWindow(n) ==
    /\ pc[n] = "slice" /\ missing[n] = {}
    /\ LeaveScenario(n)
    /\ UNCHANGED <<leaseVars, due, redisVars, kafkaVars, late, faults>>

(* The brokers store the record of node n and acknowledge it.              *)
BrokerStore(n) ==
    /\ pc[n] = "publishing"
    /\ jobs' = jobs \union {JobInHand(n)}
    /\ Goto(n, "stored")
    /\ UNCHANGED <<leaseVars, due, redisVars, stray, late, leader, todo, scen, window,
                   missing, faults>>

(* The biased select looks at shutdown, deadline and watch first: the      *)
(* acknowledgement counts only while the lease is current.                 *)
PublishOk(n) ==
    /\ pc[n] = "stored" /\ lease_is_current(n)
    /\ Goto(n, "ack")
    /\ UNCHANGED <<leaseVars, due, redisVars, kafkaVars, late, leader, todo, scen, window,
                   missing, faults>>

(* A publication is given up: a record not yet stored may be lost or may   *)
(* still reach the brokers.                                                *)
AbandonRecord(n) ==
    \/ UNCHANGED kafkaVars
    \/ /\ pc[n] = "publishing"
       /\ Cardinality(stray) < MaxStray
       /\ stray' = stray \union {JobInHand(n)}
       /\ UNCHANGED jobs

(* Publication error: the remaining slices wait for a later pass.          *)
PublishFails(n) ==
    /\ pc[n] \in {"publishing", "stored"} /\ lease_is_current(n) /\ Fault
    /\ AbandonRecord(n)
    /\ LeaveScenario(n)
    /\ UNCHANGED <<leaseVars, due, redisVars, late>>

(* Lost leadership cancels the wait for the publication.                   *)
CancelPublish(n) ==
    /\ pc[n] \in {"publishing", "stored"} /\ ~lease_is_current(n)
    /\ AbandonRecord(n)
    /\ LeavePass(n)
    /\ UNCHANGED <<leaseVars, due, redisVars, late, faults>>

Ack(n) ==
    /\ pc[n] = "ack"
    /\ LET out == ack_slice(scen[n], window[n], Slice(n), leader[n]) IN
          /\ Apply(scen[n], leader[n], out.ledger)
          /\ \/ /\ out.kind \in {"pending", "complete"}
                /\ missing' = [missing EXCEPT ![n] = @ \ {Slice(n)}]
                /\ Goto(n, "slice")
                /\ UNCHANGED <<leader, todo, scen, window>>
             \/ out.kind = "stale" /\ LeavePass(n)
             \/ out.kind = "invalid" /\ LeaveScenario(n)
    /\ UNCHANGED <<leaseVars, due, registered, kafkaVars, late, faults>>

AckFails(n) ==
    /\ pc[n] = "ack" /\ Fault
    /\ CallFails(scen[n], leader[n],
                 ack_slice(scen[n], window[n], Slice(n), leader[n]).ledger,
                 [op |-> "ack", scenario |-> scen[n], plan |-> window[n].plan,
                  at |-> window[n].at, slice |-> Slice(n), leader |-> leader[n]])
    /\ LeaveScenario(n)
    /\ UNCHANGED <<leaseVars, due, registered, kafkaVars>>

-----------------------------------------------------------------------------
(* The environment.                                                        *)

(* A record nobody waits for reaches the brokers.                          *)
DeliverStray(job) ==
    /\ jobs' = jobs \union {job}
    /\ stray' = stray \ {job}
    /\ UNCHANGED <<leaseVars, due, redisVars, late, taskVars, faults>>

(* Redis executes a request whose caller has given up.                     *)
ExecuteLate(r) ==
    /\ late' = late \ {r}
    /\ Apply(r.scenario, r.leader,
             IF r.op = "prepare"
             THEN prepare_window(r.scenario, r.plan, r.leader).ledger
             ELSE ack_slice(r.scenario, [at |-> r.at, plan |-> r.plan], r.slice,
                            r.leader).ledger)
    /\ UNCHANGED <<leaseVars, due, registered, kafkaVars, taskVars, faults>>

(* The process of node n dies or shuts down, and is restarted: its lease,  *)
(* if it had one, stays in Redis until it lapses and nobody knows it.      *)
Crash(n) ==
    /\ Fault
    /\ Withdraw({n})
    /\ holder' = IF holder.node = n THEN [holder EXCEPT !.node = NoNode] ELSE holder
    /\ AbandonRecord(n)
    /\ LeavePass(n)
    /\ UNCHANGED <<fence, due, redisVars, late>>

(* The scheduled time of the next window of s comes.                       *)
DueTick(s) ==
    /\ s \notin Once
    /\ due[s] < MaxWindow
    /\ due' = [due EXCEPT ![s] = @ + 1]
    /\ UNCHANGED <<leaseVars, redisVars, kafkaVars, late, taskVars, faults>>

(* Leadership moves as LeaderLease allows.                                 *)
LeaseStep ==
    /\ \/ \E n \in Node : fence < MaxFence /\ Grant(n)
       \/ \E n \in Node : watch[n] # holder.fence /\ Announce(n)
       \/ \E nodes \in SUBSET Node : Lapse(nodes)
    /\ UNCHANGED <<due, redisVars, kafkaVars, late, taskVars, faults>>

SchedulerStep(n) ==
    \/ BeginPass(n) \/ (\E s \in Scenario : PickScenario(n, s)) \/ EndPass(n)
    \/ Prepare(n) \/ BeginRegister(n) \/ Register(n)
    \/ StartPublish(n) \/ FinishWindow(n) \/ BrokerStore(n) \/ PublishOk(n)
    \/ CancelPublish(n) \/ Ack(n)

SchedulerFault(n) ==
    \/ PrepareFails(n) \/ RegisterFails(n) \/ PublishFails(n) \/ AckFails(n) \/ Crash(n)

Next ==
    \/ \E n \in Node : SchedulerStep(n) \/ SchedulerFault(n)
    \/ \E job \in stray : DeliverStray(job)
    \/ \E r \in late : ExecuteLate(r)
    \/ \E s \in Scenario : DueTick(s)
    \/ LeaseStep

Spec == Init /\ [][Next]_vars

(* The scheduler task of a running node takes its steps (each awaits a     *)
(* call with a timeout, the watch or a timer); time brings the windows.    *)
Fairness ==
    /\ \A n \in Node : WF_vars(SchedulerStep(n))
    /\ \A s \in Scenario : WF_vars(DueTick(s))

FairSpec == Spec /\ Fairness

-----------------------------------------------------------------------------
Window == [at : 1..MaxWindow, plan : Plan]
Jobs == [scenario : Scenario, at : 1..MaxWindow, plan : Plan, slice : Nat]

(* Type correctness; the counter of acknowledged slices agrees with the    *)
(* set, however often a slice is acknowledged.                             *)
TypeOK ==
    /\ holder \in [node : Node \union {NoNode}, fence : 0..MaxFence]
    /\ fence \in 0..MaxFence
    /\ watch \in [Node -> 0..MaxFence]
    /\ due \in [Scenario -> 1..MaxWindow]
    /\ \A s \in Scenario :
          /\ ledger[s].active \in Window \union {NoWindow}
          /\ ledger[s].last \in Window \union {NoWindow}
          /\ ledger[s].count = Cardinality(ledger[s].acked)
    /\ jobs \subseteq Jobs /\ stray \subseteq Jobs
    /\ \A n \in Node : window[n] \in Window \union {NoWindow}

(* scheduler_loop publishes, then calls ack_slice: what the ledger counts  *)
(* as dispatched was stored by Kafka first.  This holds for every slice    *)
(* acknowledged in the active window and every slice of the last window    *)
(* that was completed (ADR-0007: no acknowledgement before publication).   *)
LedgerFollowsKafka ==
    \A s \in Scenario :
        LET l == ledger[s] IN
        /\ \A i \in l.acked : Job(s, l.active, i) \in jobs
        /\ l.last # NoWindow => \A i \in Slices(l.last.plan) : Job(s, l.last, i) \in jobs

(* register_run in scheduler_loop: no record of a run reaches Kafka before *)
(* the run is registered with the aggregation store, so that the deadline  *)
(* of every run is being watched.                                          *)
RunsAreRegistered ==
    \A j \in jobs \union stray : RunId(j.scenario, [at |-> j.at, plan |-> j.plan]) \in registered

(* leader_is_current in the scripts of prepare_window and ack_slice: once  *)
(* a newer leader has written the ledger of a scenario, no write of        *)
(* an older leader lands, however late its request is executed.            *)
WritesAreFenced ==
    [][\A s \in Scenario : writer'[s] >= writer[s]]_vars

(* scheduler_loop: if some node stays leader, the ledger of every scenario *)
(* catches up with the windows that are due again and again, so that each  *)
(* of them is dispatched completely, whatever the earlier leaders, crashes *)
(* and failed calls left behind.  The one exception is a window opened     *)
(* under a plan that this leader does not have: it blocks its own          *)
(* scenario, and no other.                                                 *)
DueWindowsComplete ==
    \A n \in Node : <>[](watch[n] # 0) =>
        \A s \in Scenario :
            []<>(\/ ledger[s].last.at >= due[s]
                 \/ ledger[s].active.plan \notin {PlanOf[n], NoWindow.plan})

(* What the ledger and the fences are for: seen from Kafka, the schedulers *)
(* of all nodes dispatch the windows of a scenario in order, each under    *)
(* one plan, and a window counts as dispatched only when every slice of it *)
(* is in the topic.                                                        *)
Abstract == INSTANCE WindowDispatch
    WITH dispatched <- [s \in Scenario |-> ledger[s].last.at]
ImplementsWindowDispatch == Abstract!Spec
=============================================================================
