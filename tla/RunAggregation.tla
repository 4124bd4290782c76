--------------------------- MODULE RunAggregation ---------------------------
(***************************************************************************)
(* The aggregation runtimes of the nodes (application/                     *)
(* aggregation_service.rs) on the shared Redis state of RunStore.  A       *)
(* runtime is one task: it either settles one record of the results topic  *)
(* or runs one maintenance cycle, which finalizes overdue runs and then    *)
(* publishes the summaries of the outbox.  The calls of one cycle run      *)
(* concurrently.  Every unsettled failure stops the node.                  *)
(*                                                                         *)
(* The partition of the results topic is given in advance; that a record   *)
(* has not been produced yet is that it has not been received yet.         *)
(***************************************************************************)
EXTENDS RunStore, Sequences, FiniteSetsExt

CONSTANTS
    Node,        \* the aggregator nodes
    NoNode,
    Logs,        \* the contents the results partition may have
    Expected,    \* Expected[r]: slices of run r, as the scheduler plans it
    Batch,       \* scan_batch_limit and outbox_batch_limit
    Bounds       \* Bounds[log]: how far the instance with that log goes

(* The records of log l that are results.                                  *)
Results(l) == {l[i] : i \in {j \in 1..Len(l) : l[j].kind = "result"}}

ASSUME AggregationAssumption ==
    /\ NoNode \notin Node
    /\ Expected \in [Run -> Nat \ {0}]
    /\ Batch \in Nat \ {0}
    /\ \A l \in Logs : Bounds[l] \in
          [dispatched : SUBSET Run, \* the runs the scheduler registers
           repeats : Nat,          \* repeated registrations
           discards : Nat,         \* runs whose retention ends
           rebalances : Nat,       \* rebalances while the assignee is up
           faults : Nat,           \* crashes, stops and failed calls
           late : Nat]             \* Redis requests without a waiter
    /\ \A l \in Logs :
          /\ Len(l) \in Nat
          /\ \A x \in Results(l) :
                x.run \in Run /\ x.expected \in Nat /\ x.total \in Nat

VARIABLES
    log,         \* the results partition
    committed,   \* its committed group offset: the next one to consume
    assignee,    \* the group member that owns the partition
    position,    \* the next offset the assignee fetches
    rebalances,  \* rebalances while the assignee was up
    dead,        \* offsets of the records on the dead-letter topic
    summaries,   \* the records of the summaries topic
    store,       \* the Redis state (RunStore)
    late,        \* abandoned Redis requests that may still be executed
    registered,  \* runs the scheduler ever registered (ghost)
    repeats,     \* repeated registrations
    discarded,   \* runs whose state was discarded (ghost)
    pc,          \* pc[n]: where the runtime of n is
    cur,         \* cur[n]: the offset of the record it processes
    held,        \* held[n]: no rebalance since that record was received
    ids,         \* ids[n]: the runs of the batch still to be handled
    stale,       \* stale[n]: the outbox members to be cleaned
    tasks,       \* tasks[n]: the summaries being published
    failed,      \* failed[n]: a call of this cycle failed
    draining,    \* draining[n]: n stops after this cycle
    faults       \* faults so far

kafkaVars == <<log, committed, assignee, position, rebalances, dead, summaries>>
ghostVars == <<registered, repeats, discarded>>
cycleVars == <<ids, stale, tasks, failed, draining>>
taskVars == <<pc, cur, held, cycleVars>>
vars == <<kafkaVars, store, late, ghostVars, taskVars, faults>>

Init ==
    /\ log \in Logs
    /\ committed = 0 /\ position = 0
    /\ assignee = NoNode /\ rebalances = 0
    /\ dead = {} /\ summaries = {}
    /\ store = EmptyStore
    /\ late = {}
    /\ registered = {} /\ repeats = 0 /\ discarded = {}
    /\ pc = [n \in Node |-> "start"]
    /\ cur = [n \in Node |-> 0]
    /\ held = [n \in Node |-> FALSE]
    /\ ids = [n \in Node |-> {}]
    /\ stale = [n \in Node |-> {}]
    /\ tasks = [n \in Node |-> {}]
    /\ failed = [n \in Node |-> FALSE]
    /\ draining = [n \in Node |-> FALSE]
    /\ faults = 0

Goto(n, label) == pc' = [pc EXCEPT ![n] = label]
Fault == faults < Bounds[log].faults /\ faults' = faults + 1
RecordOf(n) == log[cur[n] + 1]

(* Redis requests: what a node asks for, and what Redis does about it.     *)
Request(op, r, arg) == [op |-> op, run |-> r, arg |-> arg]

Apply(q) ==
    CASE q.op = "ingest" -> ingest(store, log[q.arg + 1])
      [] q.op = "expire" -> mark_expired(store, q.run)
      [] q.op = "clean"  -> clean_outbox(store, q.run)
      [] q.op = "ack"    -> acknowledge_summary(store, q.run, q.arg)

(* A call that returned an error may still be executed.                    *)
Abandon(requests) ==
    late' \in {late} \union {late \union {q} : q \in
                  {p \in requests : Cardinality(late) < Bounds[log].late}}

(* The process of n is gone, and with it its membership of the group.      *)
Down(n) ==
    /\ Goto(n, "down")
    /\ cur' = [cur EXCEPT ![n] = 0]
    /\ held' = [held EXCEPT ![n] = FALSE]
    /\ ids' = [ids EXCEPT ![n] = {}]
    /\ stale' = [stale EXCEPT ![n] = {}]
    /\ tasks' = [tasks EXCEPT ![n] = {}]
    /\ failed' = [failed EXCEPT ![n] = FALSE]
    /\ draining' = [draining EXCEPT ![n] = FALSE]
    /\ assignee' = IF assignee = n THEN NoNode ELSE assignee

-----------------------------------------------------------------------------
(* Around the runtimes: scheduler, time, consumer group.                   *)

(* The scheduler registers the run of a window, and again when it retries  *)
(* the window.  The deadline of a window that is behind may have passed.   *)
Register(r) ==
    /\ r \in Bounds[log].dispatched
    /\ IF r \in registered
       THEN repeats < Bounds[log].repeats /\ repeats' = repeats + 1
       ELSE UNCHANGED repeats
    /\ \E due \in BOOLEAN :
         LET reply == register_run(store, r, Expected[r], due)
         IN  /\ reply.code \in {"registered", "known"}
             /\ store' = reply.store
    /\ registered' = registered \union {r}
    /\ UNCHANGED <<kafkaVars, late, discarded, taskVars, faults>>

DeadlinePasses(r) ==
    /\ DeadlinePassed(store, r) # store
    /\ store' = DeadlinePassed(store, r)
    /\ UNCHANGED <<kafkaVars, late, ghostVars, taskVars, faults>>

(* Retention outlasts the deadline of a run: AppConfig::validate demands   *)
(* more than the load duration plus the partial timeout.                   *)
RetentionEnds(r) ==
    /\ Exists(store, r) /\ ~store.run[r].persist
    /\ store.run[r].status = "open" => store.run[r].due
    /\ Cardinality(discarded) < Bounds[log].discards
    /\ store' = RetentionEnded(store, r)
    /\ discarded' = discarded \union {r}
    /\ UNCHANGED <<kafkaVars, late, registered, repeats, taskVars, faults>>

(* The coordinator gives the partition to n in a new generation.           *)
Rebalance(n) ==
    /\ pc[n] \notin {"down", "start"}
    /\ IF assignee \in Node
       THEN rebalances < Bounds[log].rebalances /\ rebalances' = rebalances + 1
       ELSE UNCHANGED rebalances
    /\ assignee' = n
    /\ position' = committed
    /\ held' = [m \in Node |-> FALSE]
    /\ UNCHANGED <<log, committed, dead, summaries, store, late, ghostVars,
                   pc, cur, cycleVars, faults>>

-----------------------------------------------------------------------------
(* process_record.                                                         *)

(* A run is registered before its first job is published, except that jobs *)
(* of version-1 schedulers and jobs replayed from the dead-letter topic    *)
(* belong to runs that nobody registers.                                   *)
Announced(r) == r \in registered \/ r \notin Bounds[log].dispatched

Receive_committing(n) ==
    /\ pc[n] = "idle" /\ assignee = n
    /\ position < Len(log)
    /\ log[position + 1].kind = "result" => Announced(log[position + 1].run)
    /\ Goto(n, IF log[position + 1].kind = "result" THEN "ingest" ELSE "dlq")
    /\ cur' = [cur EXCEPT ![n] = position]
    /\ held' = [held EXCEPT ![n] = TRUE]
    /\ position' = position + 1
    /\ committed' = position + 1
    /\ UNCHANGED <<log, assignee, rebalances, dead, summaries, store, late,
                   ghostVars, cycleVars, faults>>

Receive(n) ==
    /\ pc[n] = "idle" /\ assignee = n
    /\ position < Len(log)
    /\ LET x == log[position + 1]
       IN  /\ x.kind = "result" => Announced(x.run)
           /\ Goto(n, IF x.kind = "result" THEN "ingest" ELSE "dlq")
    /\ cur' = [cur EXCEPT ![n] = position]
    /\ held' = [held EXCEPT ![n] = TRUE]
    /\ position' = position + 1
    /\ UNCHANGED <<log, committed, assignee, rebalances, dead, summaries, store,
                   late, ghostVars, cycleVars, faults>>

(* Results that can never become valid go to the dead-letter topic; the    *)
(* other refusals stop the node with the offset uncommitted.               *)
Permanent(code) ==
    code \in {"conflict", "kinds", "overflow"}

Ingest(n) ==
    /\ pc[n] = "ingest"
    /\ LET reply == Apply(Request("ingest", RecordOf(n).run, cur[n]))
       IN  /\ store' = reply.store
           /\ \/ /\ reply.code \notin {"capacity", "invalid"}
                 /\ Goto(n, IF Permanent(reply.code) THEN "dlq" ELSE "commit")
                 /\ UNCHANGED <<assignee, cur, held, cycleVars>>
              \/ reply.code \in {"capacity", "invalid"} /\ Down(n)
    /\ UNCHANGED <<log, committed, position, rebalances, dead, summaries, late,
                   ghostVars, faults>>

DeadLetter(n) ==
    /\ pc[n] = "dlq"
    /\ dead' = dead \union {cur[n]}
    /\ Goto(n, "commit")
    /\ UNCHANGED <<log, committed, assignee, position, rebalances, summaries,
                   store, late, ghostVars, cur, held, cycleVars, faults>>

(* The broker accepts the commit of a member that still owns the record.   *)
Commit(n) ==
    /\ pc[n] = "commit"
    /\ \/ /\ held[n] /\ assignee = n
          /\ committed' = cur[n] + 1
          /\ Goto(n, "idle")
          /\ cur' = [cur EXCEPT ![n] = 0]
          /\ held' = [held EXCEPT ![n] = FALSE]
          /\ UNCHANGED <<assignee, cycleVars>>
       \/ ~(held[n] /\ assignee = n) /\ Down(n) /\ UNCHANGED committed
    /\ UNCHANGED <<log, position, rebalances, dead, summaries, store, late,
                   ghostVars, faults>>

-----------------------------------------------------------------------------
(* maintenance: expire_due_runs, then publish_pending.                     *)

(* due_runs.  A starting runtime runs one cycle before it consumes.        *)
BeginMaintenance(n) ==
    /\ pc[n] \in {"start", "idle"}
    /\ \E batch \in Batches(due_runs(store), Batch) :
         ids' = [ids EXCEPT ![n] = batch]
    /\ Goto(n, "expire")
    /\ UNCHANGED <<kafkaVars, store, late, ghostVars, cur, held, stale, tasks,
                   failed, draining, faults>>

MarkExpired(n, r) ==
    /\ pc[n] = "expire" /\ r \in ids[n]
    /\ store' = Apply(Request("expire", r, 0)).store
    /\ ids' = [ids EXCEPT ![n] = @ \ {r}]
    /\ UNCHANGED <<kafkaVars, late, ghostVars, pc, cur, held, stale, tasks,
                   failed, draining, faults>>

MarkExpiredFails(n, r) ==
    /\ pc[n] = "expire" /\ r \in ids[n]
    /\ Fault
    /\ Abandon({Request("expire", r, 0)})
    /\ ids' = [ids EXCEPT ![n] = @ \ {r}]
    /\ failed' = [failed EXCEPT ![n] = TRUE]
    /\ UNCHANGED <<kafkaVars, store, ghostVars, pc, cur, held, stale, tasks,
                   draining>>

(* ZRANGE of the outbox, after all calls of expire_due_runs have returned; *)
(* an ordinary shutdown ends with one more publish_pending.                *)
ScanOutbox(n) ==
    /\ \E batch \in Batches(store.outbox, Batch) : ids' = [ids EXCEPT ![n] = batch]
    /\ Goto(n, "load")

ExpiryDone(n) ==
    /\ pc[n] = "expire" /\ ids[n] = {}
    /\ \/ ~failed[n] /\ ScanOutbox(n)
          /\ UNCHANGED <<assignee, cur, held, stale, tasks, failed, draining>>
       \/ failed[n] /\ Down(n)
    /\ UNCHANGED <<log, committed, position, rebalances, dead, summaries, store,
                   late, ghostVars, faults>>

Stop(n) ==
    /\ pc[n] = "idle"
    /\ Fault
    /\ ScanOutbox(n)
    /\ draining' = [draining EXCEPT ![n] = TRUE]
    /\ UNCHANGED <<kafkaVars, store, late, ghostVars, cur, held, stale, tasks,
                   failed>>

(* One HGETALL of the pipeline, which is not a transaction: a summary that *)
(* awaits publication is read, any other member is to be cleaned.          *)
SummaryOf(r) ==
    LET run == store.run[r]
    IN  [run |-> r, revision |-> run.revision, status |-> run.status,
         expected |-> run.expected, slices |-> {e[1] : e \in run.slices},
         total |-> run.total]

LoadSummary(n, r) ==
    /\ pc[n] = "load" /\ r \in ids[n]
    /\ ids' = [ids EXCEPT ![n] = @ \ {r}]
    /\ IF Finalized(store, r) /\ Unpublished(store, r)
       THEN /\ tasks' = [tasks EXCEPT ![n] = @ \union
                            {[summary |-> SummaryOf(r), stage |-> "publish"]}]
            /\ UNCHANGED stale
       ELSE /\ stale' = [stale EXCEPT ![n] = @ \union {r}]
            /\ UNCHANGED tasks
    /\ UNCHANGED <<kafkaVars, store, late, ghostVars, pc, cur, held, failed,
                   draining, faults>>

LoadDone(n) ==
    /\ pc[n] = "load" /\ ids[n] = {}
    /\ Goto(n, "clean")
    /\ UNCHANGED <<kafkaVars, store, late, ghostVars, cur, held, cycleVars, faults>>

CleanOutbox(n, r) ==
    /\ pc[n] = "clean" /\ r \in stale[n]
    /\ store' = Apply(Request("clean", r, 0)).store
    /\ stale' = [stale EXCEPT ![n] = @ \ {r}]
    /\ UNCHANGED <<kafkaVars, late, ghostVars, pc, cur, held, ids, tasks, failed,
                   draining, faults>>

CleanDone(n) ==
    /\ pc[n] = "clean" /\ stale[n] = {}
    /\ Goto(n, "publish")
    /\ UNCHANGED <<kafkaVars, store, late, ghostVars, cur, held, cycleVars, faults>>

(* publish_one: the brokers acknowledge the summary, then Redis does.      *)
Published(n, t) ==
    tasks' = [tasks EXCEPT ![n] = (@ \ {t}) \union {[t EXCEPT !.stage = "ack"]}]

PublishSummary(n, t) ==
    /\ pc[n] = "publish" /\ t \in tasks[n] /\ t.stage = "publish"
    /\ summaries' = summaries \union {t.summary}
    /\ Published(n, t)
    /\ UNCHANGED <<log, committed, assignee, position, rebalances, dead, store,
                   late, ghostVars, pc, cur, held, ids, stale, failed, draining,
                   faults>>

(* A publication that failed for the producer may have reached the topic.  *)
PublishSummaryFails(n, t) ==
    /\ pc[n] = "publish" /\ t \in tasks[n] /\ t.stage = "publish"
    /\ Fault
    /\ summaries' \in {summaries, summaries \union {t.summary}}
    /\ tasks' = [tasks EXCEPT ![n] = @ \ {t}]
    /\ failed' = [failed EXCEPT ![n] = TRUE]
    /\ UNCHANGED <<log, committed, assignee, position, rebalances, dead, store,
                   late, ghostVars, pc, cur, held, ids, stale, draining>>

AckRequest(t) == Request("ack", t.summary.run, t.summary.revision)

AckSummary(n, t) ==
    /\ pc[n] = "publish" /\ t \in tasks[n] /\ t.stage = "ack"
    /\ LET reply == Apply(AckRequest(t))
       IN  /\ store' = reply.store
           /\ failed' = [failed EXCEPT
                           ![n] = @ \/ reply.code \in {"missing", "invalid"}]
    /\ tasks' = [tasks EXCEPT ![n] = @ \ {t}]
    /\ UNCHANGED <<kafkaVars, late, ghostVars, pc, cur, held, ids, stale,
                   draining, faults>>

AckSummaryFails(n, t) ==
    /\ pc[n] = "publish" /\ t \in tasks[n] /\ t.stage = "ack"
    /\ Fault
    /\ Abandon({AckRequest(t)})
    /\ tasks' = [tasks EXCEPT ![n] = @ \ {t}]
    /\ failed' = [failed EXCEPT ![n] = TRUE]
    /\ UNCHANGED <<kafkaVars, store, ghostVars, pc, cur, held, ids, stale,
                   draining>>

PublishDone(n) ==
    /\ pc[n] = "publish" /\ tasks[n] = {}
    /\ \/ /\ ~failed[n] /\ ~draining[n]
          /\ Goto(n, "idle")
          /\ UNCHANGED <<assignee, cur, held, cycleVars>>
       \/ (failed[n] \/ draining[n]) /\ Down(n)
    /\ UNCHANGED <<log, committed, position, rebalances, dead, summaries, store,
                   late, ghostVars, faults>>

-----------------------------------------------------------------------------
(* Crashes, deadlines of a whole step and failed calls outside the task    *)
(* sets all end in the loss of the process, wherever it is; the call in    *)
(* flight may or may not have its effect.                                  *)
InFlight(n) ==
    CASE pc[n] = "ingest"  -> {Request("ingest", RecordOf(n).run, cur[n])}
      [] pc[n] = "expire"  -> {Request("expire", r, 0) : r \in ids[n]}
      [] pc[n] = "clean"   -> {Request("clean", r, 0) : r \in stale[n]}
      [] pc[n] = "publish" -> {AckRequest(t) : t \in
                                 {u \in tasks[n] : u.stage = "ack"}}
      [] OTHER -> {}

Unacknowledged(n) == {t.summary : t \in {u \in tasks[n] : u.stage = "publish"}}

Crash(n) ==
    /\ pc[n] # "down"
    /\ Fault
    /\ Abandon(InFlight(n))
    /\ summaries' \in {summaries} \union
                      {summaries \union {s} : s \in IF pc[n] = "publish"
                                                    THEN Unacknowledged(n) ELSE {}}
    /\ dead' \in IF pc[n] = "dlq" THEN {dead, dead \union {cur[n]}} ELSE {dead}
    /\ committed' \in IF pc[n] = "commit" /\ held[n] /\ assignee = n
                      THEN {committed, cur[n] + 1} ELSE {committed}
    /\ Down(n)
    /\ UNCHANGED <<log, position, rebalances, store, ghostVars>>

Restart(n) ==
    /\ pc[n] = "down"
    /\ Goto(n, "start")
    /\ UNCHANGED <<kafkaVars, store, late, ghostVars, cur, held, cycleVars, faults>>

ExecuteLate(q) ==
    /\ q \in late
    /\ store' = Apply(q).store
    /\ late' = late \ {q}
    /\ UNCHANGED <<kafkaVars, ghostVars, taskVars, faults>>

-----------------------------------------------------------------------------
Cycle(n) ==
    \/ BeginMaintenance(n)
    \/ \E r \in Run : MarkExpired(n, r)
    \/ ExpiryDone(n)
    \/ \E r \in Run : LoadSummary(n, r)
    \/ LoadDone(n)
    \/ \E r \in Run : CleanOutbox(n, r)
    \/ CleanDone(n)
    \/ \E t \in tasks[n] : PublishSummary(n, t)
    \/ \E t \in tasks[n] : AckSummary(n, t)
    \/ PublishDone(n)

Settlement(n) ==
    \/ Ingest(n)
    \/ DeadLetter(n)
    \/ Commit(n)

Failure(n) ==
    \/ \E r \in Run : MarkExpiredFails(n, r)
    \/ \E t \in tasks[n] : PublishSummaryFails(n, t)
    \/ \E t \in tasks[n] : AckSummaryFails(n, t)
    \/ Stop(n)
    \/ Crash(n)

Next ==
    \/ \E r \in Run : Register(r) \/ DeadlinePasses(r) \/ RetentionEnds(r)
    \/ \E n \in Node : Rebalance(n) \/ Receive(n) \/ Settlement(n) \/ Cycle(n)
                       \/ Failure(n) \/ Restart(n)
    \/ \E q \in late : ExecuteLate(q)

Spec == Init /\ [][Next]_vars

(* The tick of the scan interval and the consumer are polled by one biased *)
(* select, the tick first.  A tick is due one interval after the last one  *)
(* was taken, so the consumer gets its turn as long as a maintenance cycle *)
(* takes less than scan_interval, which is assumed here.  A group without  *)
(* an owner of the partition elects one, a process that stopped is         *)
(* restarted, deadlines pass, and the scheduler registers the runs of the  *)
(* windows it dispatches.                                                  *)
Fairness ==
    /\ \A n \in Node : /\ WF_vars(Cycle(n))
                       /\ SF_vars(Receive(n))
                       /\ WF_vars(Settlement(n))
                       /\ WF_vars(Restart(n))
    /\ SF_vars(assignee = NoNode /\ \E n \in Node : Rebalance(n))
    /\ \A r \in Run : /\ WF_vars(DeadlinePasses(r))
                      /\ WF_vars(r \notin registered /\ Register(r))

FairSpec == Spec /\ Fairness

-----------------------------------------------------------------------------
(* Every variable has its type: in particular a run never counts more      *)
(* slices than it expects, and no revision is pending or acknowledged that *)
(* the run has not reached (durable_summary_from_snapshot would refuse     *)
(* such a hash).                                                           *)
TypeOK ==
    /\ log \in Logs
    /\ committed \in 0..Len(log) /\ position \in 0..Len(log)
    /\ assignee \in Node \union {NoNode}
    /\ dead \subseteq 0..Len(log) - 1
    /\ \A r \in Run :
         LET run == store.run[r]
         IN  /\ run.status \in {"absent", "open", "timed_out", "complete"}
             /\ run.received = Cardinality(run.slices)
             /\ run.received <= run.expected
             /\ run.total <= MaxExact
             /\ run.ack <= run.revision /\ run.pending <= run.revision
             /\ store.deadlines[r] \in {"none", "ahead", "past"}
             /\ store.active[r] \in {"none", "finite", "forever"}
    /\ store.outbox \subseteq Run
    /\ \A n \in Node :
         /\ pc[n] \in {"down", "start", "idle", "ingest", "dlq", "commit",
                       "expire", "load", "clean", "publish"}
         /\ ids[n] \subseteq Run /\ stale[n] \subseteq Run

(* refresh_retention, Finalize, CLEAN_OUTBOX_SCRIPT: no summary is lost    *)
(* between Redis and Kafka. A run whose latest revision is not             *)
(* acknowledged is in the outbox and cannot expire, whatever               *)
(* acknowledgements, cleanups and retention refreshes of other aggregators *)
(* interleave with it; and an open run is in the deadline index, so that   *)
(* some scan of expire_due_runs finds it.                                  *)
PendingIsRecoverable ==
    \A r \in Run :
        /\ Unpublished(store, r) => r \in store.outbox /\ store.run[r].persist
        /\ store.run[r].status = "open" => store.deadlines[r] # "none"

(* register_run and INGEST_SCRIPT bound the runs that Redis keeps by the   *)
(* active-run index: every stored run is in it, with the retention of its  *)
(* key, and there are at most max_active_runs of them.                     *)
CapacityIsKept ==
    /\ \A r \in Run :
         Exists(store, r) =>
             store.active[r] = IF store.run[r].persist THEN "forever" ELSE "finite"
    /\ Cardinality({r \in Run : Exists(store, r)}) <= MaxActive

(* publish_one and ACKNOWLEDGE_SUMMARY_SCRIPT: a revision is acknowledged  *)
(* in Redis only after the summary of that revision, with that status, is  *)
(* on the topic, although publications fail, acknowledgements are delayed  *)
(* and two aggregators publish the same run.                               *)
AckedIsPublished ==
    \A r \in Run \ discarded :
        /\ store.run[r].ack > 0 =>
              \E s \in summaries : s.run = r /\ s.revision = store.run[r].ack
        /\ Finalized(store, r) /\ store.run[r].ack = store.run[r].revision =>
              \E s \in summaries : /\ s.run = r
                                   /\ s.revision = store.run[r].revision
                                   /\ s.status = store.run[r].status

(* process_record and dead_letter_and_commit: a result's offset is         *)
(* committed only after INGEST_SCRIPT counted the result in its run or the *)
(* record was put on the dead-letter topic.                                *)
CommittedIsAggregated ==
    \A i \in 0 .. committed - 1 :
        \/ i \in dead
        \/ /\ log[i + 1].kind = "result"
           /\ \/ log[i + 1].run \in discarded
              \/ <<log[i + 1].slice, log[i + 1].key>> \in
                     store.run[log[i + 1].run].slices

(* INGEST_SCRIPT, its slice: and execution: fields, and                    *)
(* summary_from_snapshot: duplicates, redelivery and retries never inflate *)
(* a summary. Its total is the sum of exactly one result per slice it      *)
(* counts, and it is complete exactly when no slice is missing.            *)
SummaryCountsEachSliceOnce ==
    \A s \in summaries :
        /\ \E pick \in [s.slices -> 1..Len(log)] :
             /\ \A i \in s.slices : /\ log[pick[i]].kind = "result"
                                    /\ log[pick[i]].run = s.run
                                    /\ log[pick[i]].slice = i
             /\ s.total = FoldSet(LAMBDA i, acc : acc + log[pick[i]].total,
                                  0, s.slices)
        /\ s.status = "complete" <=> s.slices = 0 .. s.expected - 1

(* INGEST_SCRIPT, MARK_EXPIRED_SCRIPT and ACKNOWLEDGE_SUMMARY_SCRIPT:      *)
(* while its state is kept a run only moves forward. Slices are never      *)
(* dropped, revisions and acknowledgements never regress, complete is      *)
(* final, so that no delayed mark_expired can time the run out again, and  *)
(* a new revision comes with a new status.                                 *)
RunsOnlyAdvance ==
    [][\A r \in Run \ discarded' :
         LET a == store.run[r]
             b == store'.run[r]
         IN  /\ a.slices \subseteq b.slices
             /\ a.revision <= b.revision /\ a.ack <= b.ack
             /\ a.status = "complete" => b.status = "complete"
             /\ a.status = "timed_out" => b.status # "open"
             /\ b.revision > a.revision => b.status # a.status]_vars

(* maintenance (expire_due_runs, then publish_pending): every registered   *)
(* run is eventually final, with its latest revision published and         *)
(* acknowledged for good, even if results of it never arrive or arrive     *)
(* late and although nodes crash and acknowledgements are lost.            *)
RunsAreReported ==
    \A r \in Run :
        r \in registered ~> [](/\ Finalized(store, r)
                               /\ store.run[r].ack = store.run[r].revision)

(* INGEST_SCRIPT takes the empty histogram of a version-1 result for an    *)
(* unset one: once it has counted a slice of such a run it answers every   *)
(* further result of the run, a redelivery of the same one included, with  *)
(* an error that process_record does not take for a permanent conflict.    *)
Wedged ==
    /\ committed < Len(log)
    /\ log[committed + 1] \in Results(log)
    /\ log[committed + 1].bounds = Unset
    /\ store.run[log[committed + 1].run].received > 0

(* process_record: every record of the results topic is eventually         *)
(* settled, whatever is wrong with it, and no redelivery, duplicate or     *)
(* refused result can stop the aggregators for good, with the exception of *)
(* version-1 runs (ADR-0010: "Their counts remain compatible"): there the  *)
(* partition stays where the second result of the run, or the first one    *)
(* again after a crash, is met.                                            *)
ResultsAreConsumed ==
    <>[](committed = Len(log) \/ Wedged)
=============================================================================
