--------------------------- MODULE JobSettlement ---------------------------
(***************************************************************************)
(* How a node settles the jobs it consumes: consumer_pump, worker_loop and *)
(* everything below them (application/service.rs), the execution leases in *)
(* Redis (ExecutionStore) and the synchronous, epoch-fenced offset commits *)
(* (infrastructure/kafka/mod.rs).                                          *)
(*                                                                         *)
(* One partition of the jobs topic is modelled: the records of one         *)
(* execution key, retries included, all go to one partition.               *)
(*                                                                         *)
(* An assignment epoch only matters through the comparison of the epoch    *)
(* under which a record was received with the current one, so a record in  *)
(* hand carries `fenced' instead: a rebalance callback ran since.          *)
(*                                                                         *)
(* Time is abstract.  valid[n] says that the conservative local deadline   *)
(* of node n's lease has not passed; a lease cannot expire in Redis before *)
(* that (the deadline is computed by conservative_lease_deadline, of which *)
(* LeaderElection shows this).                                             *)
(***************************************************************************)
EXTENDS ExecutionStore, Sequences, FiniteSets, TLC

CONSTANTS
    Node,        \* the worker nodes
    NoNode,
    Key,         \* execution keys of the jobs on the partition
    Logs,        \* the contents the partition may have at the start
    Rejects,     \* Rejects[n]: keys of jobs that node n's limits or plan refuse
    MaxRetries,  \* max_retries of the jobs
    Attempts,    \* local_settlement_attempt_limit
    QueueSize,   \* worker_queue_capacity
    MaxRebalance,\* bound on rebalances while the assignee is up
    MaxFaults,   \* bound on crashes, failed calls, missed renewals
    MaxStray     \* bound on requests in flight without a waiter

Attempt == 0..MaxRetries
Execution == Key \X Attempt
Poison == [kind |-> "poison", key |-> "none", attempt |-> 0]
Records == {Poison} \union [kind : {"unknown", "job"}, key : Key, attempt : Attempt]

ASSUME SettlementAssumption ==
    /\ NoNode \notin Node
    /\ IsFiniteSet(Node) /\ IsFiniteSet(Key)
    /\ Logs \subseteq Seq(Records)
    /\ Rejects \in [Node -> SUBSET Key]
    /\ MaxRetries \in Nat
    /\ Attempts \in Nat \ {0}
    /\ QueueSize \in Nat \ {0}

VARIABLES
    log,         \* the jobs partition
    committed,   \* its committed group offset: the next one to consume
    outputs,     \* the records of the results and DLQ topics
    stray,       \* records in flight that no worker waits for
    assignee,    \* the group member that owns the partition, for the broker
    joined,      \* the members that take part in the current generation
    rebalances,  \* rebalances while the assignee was up
    assigned,    \* assigned[n]: the partition is in n's local assignment
    position,    \* position[n]: the next offset n fetches
    queue,       \* queue[n]: the channel between pump and worker
    exec,        \* exec[k, a]: the execution record of attempt a of job k
    recorded,    \* outcomes that complete ever recorded (ghost)
    late,        \* abandoned Redis requests that may still be executed
    pc,          \* pc[n]: where the worker of n is
    cur,         \* cur[n]: the record it processes
    token,       \* token[n]: the owner token of its lease
    valid,       \* valid[n]: the local deadline of the lease is ahead
    targets,     \* targets[n]: scenario tasks of n send target traffic
    out,         \* out[n]: the terminal event it publishes
    tries,       \* tries[n]: attempts used by the current settlement loop
    faults       \* faults so far

brokerVars == <<log, committed, outputs, stray>>
groupVars == <<assignee, joined, rebalances, assigned, position>>
redisVars == <<exec, recorded, late>>
leaseVars == <<token, valid, targets>>
taskVars == <<pc, queue, cur, leaseVars, out, tries>>
vars == <<brokerVars, groupVars, redisVars, taskVars, faults>>

NoRecord == [offset |-> 0, fenced |-> FALSE]
NoEvent == [kind |-> "none", key |-> "none", attempt |-> 0]

Init ==
    /\ log \in Logs
    /\ committed = 0
    /\ outputs = {} /\ stray = {}
    /\ assignee = NoNode /\ joined = {} /\ rebalances = 0
    /\ assigned = [n \in Node |-> FALSE]
    /\ position = [n \in Node |-> 0]
    /\ exec = [e \in Execution |-> Absent]
    /\ recorded = {} /\ late = {}
    /\ pc = [n \in Node |-> "idle"]
    /\ queue = [n \in Node |-> <<>>]
    /\ cur = [n \in Node |-> NoRecord]
    /\ token = [n \in Node |-> 0]
    /\ valid = [n \in Node |-> FALSE]
    /\ targets = [n \in Node |-> FALSE]
    /\ out = [n \in Node |-> NoEvent]
    /\ tries = [n \in Node |-> 0]
    /\ faults = 0

(* The job in hand, its execution record, and the terminal events for it.  *)
JobOf(n) == log[cur[n].offset + 1]
ExecutionOf(n) == <<JobOf(n).key, JobOf(n).attempt>>
Event(kind, job) == [kind |-> kind, key |-> job.key, attempt |-> job.attempt]
PoisonEvent(offset) == [kind |-> "poison", key |-> "none", attempt |-> offset]
RetryJob(e) == [kind |-> "job", key |-> e.key, attempt |-> e.attempt + 1]
OutcomeOf(e) == CASE e.kind = "result" -> "completed"
                  [] e.kind = "retry"  -> "retry_published"
                  [] e.kind = "dlq"    -> "dlq_published"

Goto(n, label) == pc' = [pc EXCEPT ![n] = label]
Fault == faults < MaxFaults /\ faults' = faults + 1

(* A claim's owner token is a UUID: no lease or request in flight has it.  *)
FreshToken ==
    LET used == {exec[e].owner : e \in Execution} \union {token[n] : n \in Node}
                \union {r.token : r \in late}
    IN  CHOOSE t \in 1 .. Cardinality(used) + 1 : t \notin used

(* The brokers append an event: a retry goes to the jobs topic.            *)
Deliver(e) ==
    IF e.kind = "retry"
    THEN log' = Append(log, RetryJob(e)) /\ UNCHANGED <<committed, outputs>>
    ELSE outputs' = outputs \union {e} /\ UNCHANGED <<log, committed>>

(* The process of n is gone: what it had in hand and its group membership  *)
(* are lost; the source offset stays where it is.                          *)
Down(n) ==
    /\ Goto(n, "down")
    /\ queue' = [queue EXCEPT ![n] = <<>>]
    /\ cur' = [cur EXCEPT ![n] = NoRecord]
    /\ token' = [token EXCEPT ![n] = 0]
    /\ valid' = [valid EXCEPT ![n] = FALSE]
    /\ targets' = [targets EXCEPT ![n] = FALSE]
    /\ out' = [out EXCEPT ![n] = NoEvent]
    /\ tries' = [tries EXCEPT ![n] = 0]
    /\ assigned' = [assigned EXCEPT ![n] = FALSE]
    /\ position' = [position EXCEPT ![n] = 0]
    /\ joined' = joined \ {n}
    /\ UNCHANGED <<assignee, rebalances>>

-----------------------------------------------------------------------------
(* Kafka's consumer group and the pump.                                    *)

(* The group coordinator gives the partition to n in a new generation.     *)
Rebalance(n) ==
    /\ pc[n] # "down"
    /\ IF assignee \in Node /\ pc[assignee] # "down"
       THEN rebalances < MaxRebalance /\ rebalances' = rebalances + 1
       ELSE UNCHANGED rebalances
    /\ assignee' = n
    /\ joined' = {}
    /\ UNCHANGED <<brokerVars, assigned, position, redisVars, taskVars, faults>>

(* The consumer of n takes part in the new generation: pre_rebalance bumps *)
(* the epoch, which fences what n has received; an assigned partition is   *)
(* consumed from its committed offset.                                     *)
fenced(r) == [r EXCEPT !.fenced = TRUE]
JoinGroup(n) ==
    /\ pc[n] # "down" /\ n \notin joined /\ assignee \in Node
    /\ joined' = joined \union {n}
    /\ assigned' = [assigned EXCEPT ![n] = assignee = n]
    /\ position' = [position EXCEPT ![n] = IF assignee = n THEN committed ELSE 0]
    /\ queue' = [queue EXCEPT ![n] = [i \in DOMAIN @ |-> fenced(@[i])]]
    /\ cur' = [cur EXCEPT ![n] = IF pc[n] = "idle" THEN @ ELSE fenced(@)]
    /\ UNCHANGED <<brokerVars, assignee, rebalances, redisVars, pc, leaseVars, out, tries,
                   faults>>

(* The pump has a free slot of the channel before it receives a record.    *)
Receive(n) ==
    /\ pc[n] # "down" /\ assigned[n]
    /\ Len(queue[n]) < QueueSize
    /\ position[n] < Len(log)
    /\ queue' = [queue EXCEPT ![n] = Append(@, [offset |-> position[n], fenced |-> FALSE])]
    /\ position' = [position EXCEPT ![n] = @ + 1]
    /\ UNCHANGED <<brokerVars, assignee, joined, rebalances, assigned, redisVars, pc, cur,
                   leaseVars, out, tries, faults>>

-----------------------------------------------------------------------------
(* The worker of node n, up to the claim.                                  *)

TakeRecord(n) ==
    /\ pc[n] = "idle" /\ queue[n] # <<>>
    /\ cur' = [cur EXCEPT ![n] = Head(queue[n])]
    /\ queue' = [queue EXCEPT ![n] = Tail(@)]
    /\ Goto(n, "process")
    /\ UNCHANGED <<brokerVars, groupVars, redisVars, leaseVars, out, tries, faults>>

(* process_once refuses the record before any claim: a poison record, a job*)
(* outside the limits or the local plan, too long a deferral, no start.    *)
Refused(n) == JobOf(n).kind = "poison" \/ JobOf(n).key \in Rejects[n]

DeadLetterUnleased(n) ==
    /\ pc[n] = "process" /\ Refused(n)
    /\ out' = [out EXCEPT ![n] = IF JobOf(n).kind = "poison"
                                 THEN PoisonEvent(cur[n].offset)
                                 ELSE Event("dlq", JobOf(n))]
    /\ Goto(n, "send")
    /\ UNCHANGED <<brokerVars, groupVars, redisVars, queue, cur, leaseVars, tries, faults>>

(* The claim is answered within its budget.  A busy execution keeps the    *)
(* record at the head of the worker, to be claimed again.                  *)
Claim(n) ==
    /\ pc[n] = "process" /\ ~Refused(n)
    /\ LET t == FreshToken
           answer == claim(exec[ExecutionOf(n)], t)
       IN  \/ /\ answer.code = "acquired"
              /\ exec' = [exec EXCEPT ![ExecutionOf(n)] = answer.record]
              /\ token' = [token EXCEPT ![n] = t]
              /\ valid' = [valid EXCEPT ![n] = TRUE]
              /\ IF JobOf(n).kind = "unknown"
                 THEN /\ out' = [out EXCEPT ![n] = Event("dlq", JobOf(n))]
                      /\ Goto(n, "verify")
                      /\ UNCHANGED targets
                 ELSE /\ targets' = [targets EXCEPT ![n] = TRUE]
                      /\ Goto(n, "run")
                      /\ UNCHANGED out
           \/ /\ answer.code = "completed"
              /\ Goto(n, "commit")
              /\ UNCHANGED <<exec, leaseVars, out>>
    /\ UNCHANGED <<brokerVars, groupVars, recorded, late, queue, cur, tries, faults>>

(* A Redis call fails for the worker: the script did not run, ran without  *)
(* a timely answer, or may still run.                                      *)
Request(n, op, t, outcome) ==
    [op |-> op, execution |-> ExecutionOf(n), token |-> t, outcome |-> outcome]
Execute(r) ==
    LET record == exec[r.execution]
        answer == CASE r.op = "claim"    -> claim(record, r.token)
                    [] r.op = "complete" -> complete(record, r.token, r.outcome)
                    [] r.op = "release"  -> release(record, r.token)
    IN  /\ exec' = [exec EXCEPT ![r.execution] = answer.record]
        /\ recorded' = IF r.op = "complete" /\ answer.code = "ok"
                       THEN recorded \union {<<r.execution, r.outcome>>} ELSE recorded
Delay(r) ==
    /\ Cardinality(late) < MaxStray
    /\ late' = late \union {r}
    /\ UNCHANGED <<exec, recorded>>
CallFails(r) ==
    \/ UNCHANGED redisVars
    \/ Execute(r) /\ UNCHANGED late
    \/ Delay(r)

(* RetryLater from the claim: the worker stops without a lease to release. *)
ClaimFails(n) ==
    /\ pc[n] = "process" /\ ~Refused(n) /\ Fault
    /\ CallFails(Request(n, "claim", FreshToken, "none"))
    /\ Down(n)
    /\ UNCHANGED brokerVars

-----------------------------------------------------------------------------
(* execute_with_lease: the target run and its settlement under the lease.  *)

Settle(n, event) ==
    /\ targets' = [targets EXCEPT ![n] = FALSE]
    /\ out' = [out EXCEPT ![n] = event]
    /\ Goto(n, "verify")
    /\ UNCHANGED <<brokerVars, groupVars, redisVars, queue, cur, token, valid, tries, faults>>

(* The run has no failure of Pulse itself: its measurements are a result.  *)
RunMeasured(n) == pc[n] = "run" /\ Settle(n, Event("result", JobOf(n)))

(* settle_infrastructure_failure: the next attempt, or the DLQ after the   *)
(* last one.                                                               *)
settle_infrastructure_failure_off_by_one(job) ==
    Event(IF job.attempt > MaxRetries THEN "dlq" ELSE "retry", job)
settle_infrastructure_failure(job) ==
    Event(IF job.attempt >= MaxRetries THEN "dlq" ELSE "retry", job)
RunInfrastructureFailure(n) ==
    pc[n] = "run" /\ Settle(n, settle_infrastructure_failure(JobOf(n)))

RunPermanentFailure(n) == pc[n] = "run" /\ Settle(n, Event("dlq", JobOf(n)))

(* An invariant violation in the run is fail-stop.                         *)
RunInvariantViolation(n) ==
    /\ pc[n] = "run" /\ Fault
    /\ targets' = [targets EXCEPT ![n] = FALSE]
    /\ Goto(n, "release")
    /\ UNCHANGED <<brokerVars, groupVars, redisVars, queue, cur, token, valid, out, tries>>

(* RetryLater under the lease: nothing is published any more, and the lease*)
(* is released before execute_with_lease returns.                          *)
RetryLater(n) ==
    /\ Goto(n, "release")
    /\ out' = [out EXCEPT ![n] = NoEvent]
    /\ tries' = [tries EXCEPT ![n] = 0]

(* verify_publication_lease: an owner-checked renewal before each send.    *)
VerifyLease(n) ==
    /\ pc[n] = "verify"
    /\ IF renew(exec[ExecutionOf(n)], token[n]).code = "ok"
       THEN Goto(n, "send") /\ UNCHANGED <<out, tries>>
       ELSE RetryLater(n)
    /\ UNCHANGED <<brokerVars, groupVars, redisVars, queue, cur, leaseVars, faults>>

VerifyFails(n) ==
    /\ pc[n] = "verify" /\ Fault
    /\ RetryLater(n)
    /\ UNCHANGED <<brokerVars, groupVars, redisVars, queue, cur, leaseVars>>

(* The brokers store the event and the producer reports it.  An event that *)
(* was sent without a lease is the terminal disposition itself.            *)
Publish(n) ==
    /\ pc[n] = "send"
    /\ Deliver(out[n])
    /\ IF token[n] = 0
       THEN Goto(n, "commit") /\ out' = [out EXCEPT ![n] = NoEvent]
       ELSE Goto(n, "complete") /\ UNCHANGED out
    /\ tries' = [tries EXCEPT ![n] = 0]
    /\ UNCHANGED <<stray, groupVars, redisVars, queue, cur, leaseVars, faults>>

(* The processing is given up with a request in flight, which may be lost, *)
(* have reached its server, or still reach it.                             *)
PendingRequest(n) ==
    CASE pc[n] = "process"  -> Request(n, "claim", FreshToken, "none")
      [] pc[n] = "complete" -> Request(n, "complete", token[n], OutcomeOf(out[n]))
      [] pc[n] = "release"  -> Request(n, "release", token[n], "none")
AbandonRequest(n) ==
    \/ UNCHANGED <<brokerVars, redisVars>>
    \/ pc[n] = "send" /\ Deliver(out[n]) /\ UNCHANGED <<stray, redisVars>>
    \/ /\ pc[n] = "send" /\ Cardinality(stray) < MaxStray
       /\ stray' = stray \union {out[n]}
       /\ UNCHANGED <<log, committed, outputs, redisVars>>
    \/ /\ pc[n] = "complete" /\ Execute(PendingRequest(n))
       /\ UNCHANGED <<brokerVars, late>>
    \/ /\ pc[n] \in {"complete", "release"} \/ (pc[n] = "process" /\ ~Refused(n))
       /\ Delay(PendingRequest(n))
       /\ UNCHANGED brokerVars

(* Publication is not acknowledged: try again, from the owner check, while *)
(* the local budget lasts.                                                 *)
PublishFails_ignored(n) ==
    /\ pc[n] = "send" /\ Fault
    /\ AbandonRequest(n)
    /\ Goto(n, IF token[n] = 0 THEN "commit" ELSE "complete")
    /\ UNCHANGED <<groupVars, queue, cur, leaseVars, out, tries>>
PublishFails(n) ==
    /\ pc[n] = "send" /\ Fault
    /\ AbandonRequest(n)
    /\ \/ /\ tries[n] + 1 < Attempts
          /\ tries' = [tries EXCEPT ![n] = @ + 1]
          /\ Goto(n, IF token[n] = 0 THEN "send" ELSE "verify")
          /\ UNCHANGED <<groupVars, queue, cur, leaseVars, out>>
       \/ /\ tries[n] + 1 >= Attempts /\ token[n] # 0
          /\ RetryLater(n)
          /\ UNCHANGED <<groupVars, queue, cur, leaseVars>>
       \/ /\ tries[n] + 1 >= Attempts /\ token[n] = 0
          /\ Down(n)

(* complete_until_acknowledged: a stale owner gives up at once, any other  *)
(* error is retried while the budget lasts.                                *)
Complete(n) ==
    /\ pc[n] = "complete"
    /\ Execute(PendingRequest(n))
    /\ LET code == complete(exec[ExecutionOf(n)], token[n], OutcomeOf(out[n])).code IN
          IF code = "ok" THEN Goto(n, "completed") /\ UNCHANGED <<out, tries>>
          ELSE RetryLater(n)
    /\ UNCHANGED <<brokerVars, groupVars, late, queue, cur, leaseVars, faults>>

CompleteFails(n) ==
    /\ pc[n] = "complete" /\ Fault
    /\ CallFails(PendingRequest(n))
    /\ IF tries[n] + 1 < Attempts
       THEN tries' = [tries EXCEPT ![n] = @ + 1] /\ UNCHANGED <<pc, out>>
       ELSE RetryLater(n)
    /\ UNCHANGED <<brokerVars, groupVars, queue, cur, leaseVars>>

(* The answer of complete arrives: the job has a terminal disposition.     *)
CompleteOk(n) ==
    /\ pc[n] = "completed"
    /\ token' = [token EXCEPT ![n] = 0]
    /\ valid' = [valid EXCEPT ![n] = FALSE]
    /\ out' = [out EXCEPT ![n] = NoEvent]
    /\ tries' = [tries EXCEPT ![n] = 0]
    /\ Goto(n, "commit")
    /\ UNCHANGED <<brokerVars, groupVars, redisVars, queue, cur, targets, faults>>

(* The renewal future wins the select: its deadline passed, or a renewal   *)
(* was refused, by a record that complete has just closed as well, or      *)
(* failed.  The settlement is not polled again, but its scenario tasks run *)
(* until the release is over and execute_with_lease returns.               *)
LeaseLost(n) ==
    /\ pc[n] \in {"run", "verify", "send", "complete", "completed"} /\ token[n] # 0
    /\ \/ ~valid[n] /\ UNCHANGED faults
       \/ renew(exec[ExecutionOf(n)], token[n]).code # "ok" /\ UNCHANGED faults
       \/ Fault
    /\ AbandonRequest(n)
    /\ RetryLater(n)
    /\ UNCHANGED <<groupVars, queue, cur, leaseVars>>

(* Best-effort release of the lease, then the worker stops.                *)
Release(n) ==
    /\ pc[n] = "release"
    /\ Execute(PendingRequest(n))
    /\ Goto(n, "released")
    /\ UNCHANGED <<brokerVars, groupVars, late, queue, cur, leaseVars, out, tries, faults>>

ReleaseFails(n) ==
    /\ pc[n] = "release" /\ Fault
    /\ CallFails(PendingRequest(n))
    /\ Goto(n, "released")
    /\ UNCHANGED <<brokerVars, groupVars, queue, cur, leaseVars, out, tries>>

FailStop(n) ==
    /\ pc[n] = "released"
    /\ Down(n)
    /\ UNCHANGED <<brokerVars, redisVars, faults>>

-----------------------------------------------------------------------------
(* commit_offset: epoch and assignment are checked before and after the    *)
(* synchronous commit; any doubt stops the worker.                         *)

AssignmentUnchanged(n) == ~cur[n].fenced /\ assigned[n]

BeginCommit(n) ==
    /\ pc[n] = "commit"
    /\ \/ AssignmentUnchanged(n) /\ Goto(n, "committing")
          /\ UNCHANGED <<groupVars, queue, cur, leaseVars, out, tries>>
       \/ ~AssignmentUnchanged(n) /\ Down(n)
    /\ UNCHANGED <<brokerVars, redisVars, faults>>

(* The coordinator accepts commits of the current generation only.         *)
BrokerCommit(n) ==
    /\ pc[n] = "committing"
    /\ \/ /\ n \in joined
          /\ committed' = cur[n].offset + 1
          /\ Goto(n, "committed")
          /\ UNCHANGED <<groupVars, queue, cur, leaseVars, out, tries>>
       \/ /\ n \notin joined
          /\ Down(n)
          /\ UNCHANGED committed
    /\ UNCHANGED <<log, outputs, stray, redisVars, faults>>

(* The commit fails or exceeds its budget, before or after taking effect.  *)
CommitFails(n) ==
    /\ pc[n] = "committing" /\ Fault
    /\ \/ UNCHANGED committed
       \/ n \in joined /\ committed' = cur[n].offset + 1
    /\ Down(n)
    /\ UNCHANGED <<log, outputs, stray, redisVars>>

CommitOk(n) ==
    /\ pc[n] = "committed" /\ AssignmentUnchanged(n)
    /\ Goto(n, "idle")
    /\ cur' = [cur EXCEPT ![n] = NoRecord]
    /\ UNCHANGED <<brokerVars, groupVars, redisVars, queue, leaseVars, out, tries, faults>>

CommitRaced(n) ==
    /\ pc[n] = "committed" /\ ~AssignmentUnchanged(n)
    /\ Down(n)
    /\ UNCHANGED <<brokerVars, redisVars, faults>>

-----------------------------------------------------------------------------
(* Failures, restarts and time.                                            *)

(* The process dies, the Kafka-safe processing interval or the shutdown    *)
(* drain ends: the processing is dropped where it is.                      *)
Crash(n) ==
    /\ pc[n] # "down" /\ Fault
    /\ AbandonRequest(n)
    /\ Down(n)

Restart(n) ==
    /\ pc[n] = "down"
    /\ Goto(n, "idle")
    /\ UNCHANGED <<brokerVars, groupVars, redisVars, queue, cur, leaseVars, out, tries, faults>>

(* Renewals come too late: the local deadline of n's lease passes.         *)
MissDeadline(n) ==
    /\ valid[n] /\ Fault
    /\ valid' = [valid EXCEPT ![n] = FALSE]
    /\ UNCHANGED <<brokerVars, groupVars, redisVars, pc, queue, cur, token, targets, out, tries>>

(* lease_until of a lease that no node keeps renewing passes in Redis.     *)
Unrenewed(e) == \A n \in Node : ~(token[n] = exec[e].owner /\ valid[n])
ExpireLease(e) ==
    /\ exec[e].live /\ Unrenewed(e)
    /\ exec' = [exec EXCEPT ![e].live = FALSE]
    /\ UNCHANGED <<brokerVars, groupVars, recorded, late, taskVars, faults>>

(* The retention of a terminal or long expired record, which is longer than*)
(* a lease, ends.                                                          *)
ExpireRecord(e) ==
    /\ exec[e] # Absent /\ ~exec[e].live /\ Unrenewed(e) /\ Fault
    /\ exec' = [exec EXCEPT ![e] = Absent]
    /\ UNCHANGED <<brokerVars, groupVars, recorded, late, taskVars>>

ExecuteLate(r) ==
    /\ Execute(r)
    /\ late' = late \ {r}
    /\ UNCHANGED <<brokerVars, groupVars, taskVars, faults>>

DeliverStray(e) ==
    /\ Deliver(e)
    /\ stray' = stray \ {e}
    /\ UNCHANGED <<groupVars, redisVars, taskVars, faults>>

WorkerStep(n) ==
    \/ TakeRecord(n) \/ DeadLetterUnleased(n) \/ Claim(n)
    \/ RunMeasured(n) \/ RunInfrastructureFailure(n) \/ RunPermanentFailure(n)
    \/ VerifyLease(n) \/ Publish(n) \/ Complete(n) \/ CompleteOk(n)
    \/ Release(n) \/ FailStop(n)
    \/ BeginCommit(n) \/ BrokerCommit(n) \/ CommitOk(n) \/ CommitRaced(n)

WorkerFault(n) ==
    \/ ClaimFails(n) \/ RunInvariantViolation(n) \/ VerifyFails(n) \/ PublishFails(n)
    \/ CompleteFails(n) \/ LeaseLost(n) \/ ReleaseFails(n) \/ CommitFails(n)
    \/ Crash(n) \/ MissDeadline(n)

Next ==
    \/ \E n \in Node : \/ WorkerStep(n) \/ WorkerFault(n) \/ Restart(n)
                       \/ Rebalance(n) \/ JoinGroup(n) \/ Receive(n)
    \/ \E e \in Execution : ExpireLease(e) \/ ExpireRecord(e)
    \/ \E r \in late : ExecuteLate(r)
    \/ \E e \in stray : DeliverStray(e)

Spec == Init /\ [][Next]_vars

(* Tasks of a live process run, a stopped one is restarted, the group      *)
(* hands the partition of a dead member on, and Redis TIME passes.  The    *)
(* group is stable after MaxRebalance rebalances.                          *)
Fairness ==
    /\ \A n \in Node : /\ WF_vars(WorkerStep(n)) /\ WF_vars(Restart(n))
                       /\ WF_vars(JoinGroup(n)) /\ WF_vars(Receive(n))
    /\ WF_vars(\E n \in Node : /\ \A m \in Node : assignee = m => pc[m] = "down"
                              /\ Rebalance(n))
    /\ \A e \in Execution : WF_vars(ExpireLease(e))

FairSpec == Spec /\ Fairness

-----------------------------------------------------------------------------
Events == [kind : {"result", "dlq"}, key : Key, attempt : Attempt]
          \union [kind : {"retry"}, key : Key, attempt : 0 .. MaxRetries - 1]
          \union [kind : {"poison"}, key : {"none"}, attempt : Nat]

(* Every variable has its type; in particular no job on the partition has  *)
(* more attempts than max_retries allows.                                  *)
TypeOK ==
    /\ \A i \in DOMAIN log : log[i] \in Records
    /\ committed \in 0 .. Len(log)
    /\ outputs \subseteq Events /\ stray \subseteq Events
    /\ assignee \in Node \union {NoNode} /\ joined \subseteq Node
    /\ \A n \in Node :
          /\ assigned[n] \in BOOLEAN /\ position[n] \in 0 .. Len(log)
          /\ Len(queue[n]) <= QueueSize
          /\ cur[n].offset \in 0 .. Len(log) /\ cur[n].fenced \in BOOLEAN
          /\ token[n] \in Nat /\ valid[n] \in BOOLEAN /\ targets[n] \in BOOLEAN
          /\ out[n] \in Events \union {NoEvent} /\ tries[n] \in 0 .. Attempts
    /\ \A e \in Execution :
          /\ exec[e].state \in Terminal \union {"absent", "running"}
          /\ exec[e].owner \in Nat /\ exec[e].live \in BOOLEAN

(* A durable terminal disposition of the i-th record: a poison or refused  *)
(* record is in the DLQ, and of any other job complete recorded an outcome.*)
Settled(i) ==
    LET job == log[i] IN
    \/ job.kind = "poison" /\ PoisonEvent(i - 1) \in outputs
    \/ Event("dlq", job) \in outputs
    \/ \E o \in Terminal : <<<<job.key, job.attempt>>, o>> \in recorded

(* worker_loop, ADR-0007 invariants 2 to 4: every record below the         *)
(* committed offset is settled, whatever crashed, was rebalanced, timed out*)
(* or arrived late on the way.                                             *)
CommittedIsSettled == \A i \in 1 .. committed : Settled(i)

(* The topics have the event that outcome o of execution e stands for.     *)
Backed(e, o) ==
    LET job == [kind |-> "job", key |-> e[1], attempt |-> e[2]] IN
    \/ o = "completed" /\ Event("result", job) \in outputs
    \/ o = "dlq_published" /\ Event("dlq", job) \in outputs
    \/ o = "retry_published" /\ \E i \in DOMAIN log : log[i] = RetryJob(job)

(* execute_and_publish, settle_infrastructure_failure and                  *)
(* publish_and_complete_dlq publish first and complete afterwards: an      *)
(* outcome that complete has recorded, which redeliveries are answered     *)
(* with, is backed by the result, the next attempt or the DLQ record.      *)
RecordedIsPublished == \A c \in recorded : Backed(c[1], c[2])

(* claim, renew, complete, release: while the local deadline of a lease is *)
(* ahead, nobody else can have taken the execution over, so the job of a   *)
(* node that works under a lease is executed by that node alone.           *)
HeldLeaseIsMine ==
    \A n \in Node :
        valid[n] /\ pc[n] \notin {"release", "released"} =>
            /\ exec[ExecutionOf(n)].owner = token[n]
            /\ exec[ExecutionOf(n)].live \/ exec[ExecutionOf(n)].state \in Terminal

(* execute_with_lease, ADR-0009: "target execution is cancelled before     *)
(* uncertain ownership can continue": two nodes whose local deadlines are  *)
(* ahead never send target traffic for the same execution.                 *)
OneNodeRunsAnExecution ==
    \A m, n \in Node :
        /\ targets[m] /\ valid[m] /\ targets[n] /\ valid[n]
        /\ ExecutionOf(m) = ExecutionOf(n)
        => m = n

(* worker_loop, process_until_terminal, claim: once crashes, failures and  *)
(* rebalances stop, every record of the partition, the retries published   *)
(* on the way included, is settled: redelivery and the expiry of abandoned *)
(* leases leave no job behind.                                             *)
EveryRecordIsSettled == <>[](\A i \in DOMAIN log : Settled(i))

=============================================================================
