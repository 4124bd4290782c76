--------------------------- MODULE LeaderElection ---------------------------
(***************************************************************************)
(* Leader election of Pulse: the leader_election_loop task of every node   *)
(* (application/service.rs) against the leader record kept in Redis by the *)
(* acquire, renew and relinquish Lua scripts (infrastructure/redis/mod.rs).*)
(*                                                                         *)
(* Redis keeps one hash with a TTL (the lock) and one fence counter.  A    *)
(* node never compares Redis time with its own clock: it turns the TTL     *)
(* into a deadline on its own monotonic clock, anchored at the start of    *)
(* the request and shortened by one renewal interval.  The model therefore *)
(* has two kinds of time: `now', the clock of Redis, and `clock[n]', the   *)
(* monotonic clock of node n, which may run slow.                          *)
(*                                                                         *)
(* An owner token is a fresh UUID per acquisition and the fence is a fresh *)
(* counter value per acquisition, so the pair that the scripts compare is  *)
(* represented by the fence alone.                                         *)
(***************************************************************************)
EXTENDS Naturals, FiniteSets

CONSTANTS
    Node,        \* the pods
    NoNode,      \* no pod
    TTL,         \* leader_lock_ttl_ms
    Renew,       \* leader_renew_interval
    OpTimeout,   \* redis_operation_timeout
    Drift,       \* ticks a node's clock may lose while one lease is in use
    MaxTime,     \* bound on the clock of Redis
    MaxFence,    \* bound on the leases granted before a node restarts
    MaxOrphans   \* bound on the abandoned requests that Redis may still run

(* AppConfig::validate: the TTL covers three renewal intervals and one     *)
(* Redis operation plus the reserve; the clock may lose at most the        *)
(* reserved renewal interval.                                              *)
ASSUME ConstantsAssumption ==
    /\ NoNode \notin Node
    /\ TTL \in Nat /\ Renew \in Nat \ {0} /\ OpTimeout \in Nat \ {0}
    /\ TTL >= 3 * Renew
    /\ TTL >= OpTimeout + Renew + 1
    /\ Drift \in 0..Renew
    /\ MaxTime \in Nat /\ MaxFence \in Nat /\ MaxOrphans \in Nat

VARIABLES
    now,          \* Redis TIME
    lock,         \* the leader hash: [node, fence, expires]
    fenceCounter, \* the fence key
    clock,        \* clock[n]: Instant::now() of node n
    pc,           \* pc[n]: where the election task of n is
    op,           \* op[n]: the operation of the outstanding request
    started,      \* started[n]: request_started
    skew,         \* skew[n]: now - clock[n] when the request started (ghost)
    reply,        \* reply[n]: what the script returned
    wakeAt,       \* wakeAt[n]: end of the current wait
    current,      \* current[n]: the lease the task holds (0 is None)
    watch,        \* watch[n]: the value of the leader_tx channel
    orphans       \* requests a node gave up on that Redis may still execute

redisVars == <<lock, fenceCounter>>
nodeVars == <<pc, op, started, skew, reply, wakeAt, current, watch>>
vars == <<now, redisVars, clock, nodeVars, orphans>>

NoLock == [node |-> NoNode, fence |-> 0, expires |-> 0]
NoReply == [kind |-> "none", fence |-> 0, retryAfter |-> 0]
NoWatch == [fence |-> 0, validUntil |-> 0, skew |-> 0]

Waiting == {"connecting", "sent", "replied"}

Init ==
    /\ now = 0
    /\ lock = NoLock
    /\ fenceCounter = 0
    /\ clock = [n \in Node |-> 0]
    /\ pc = [n \in Node |-> "waiting"]
    /\ op = [n \in Node |-> "acquire"]
    /\ started = [n \in Node |-> 0]
    /\ skew = [n \in Node |-> 0]
    /\ reply = [n \in Node |-> NoReply]
    /\ wakeAt = [n \in Node |-> 0]
    /\ current = [n \in Node |-> 0]
    /\ watch = [n \in Node |-> NoWatch]
    /\ orphans = {}

-----------------------------------------------------------------------------
(* The lock as the scripts see it: EXISTS is false once the TTL has run    *)
(* out, and an owner matches when its token and fence are the stored ones. *)
LockExists == now < lock.expires
Owns(fence) == LockExists /\ lock.fence = fence

(* The local deadline of a lease whose request began at request_started.   *)
conservative_lease_deadline_without_reserve(request_started) ==
    request_started + TTL
conservative_lease_deadline(request_started) ==
    request_started + (TTL - Renew)

(* lease_is_current for the lease that node n itself observed: the watch   *)
(* holds it and its local deadline is in the future.                       *)
lease_is_current(n) ==
    watch[n].fence # 0 /\ watch[n].validUntil > clock[n]

-----------------------------------------------------------------------------
(* Time.  Every tick of Redis is a tick of each node's clock or is lost by *)
(* it.  While a request is outstanding or a lease is locally valid, the    *)
(* clock loses at most Drift ticks counted from the start of the request.  *)
(* A process may be paused anywhere, so timers and timeouts may fire late. *)
LagBounded(n) ==
    /\ pc[n] \in Waiting => now <= clock[n] + skew[n] + Drift
    /\ lease_is_current(n) => now <= clock[n] + watch[n].skew + Drift

Tick ==
    /\ now < MaxTime
    /\ now' = now + 1
    /\ \E slow \in SUBSET Node :
          clock' = [n \in Node |-> IF n \in slow THEN clock[n] ELSE clock[n] + 1]
    /\ UNCHANGED <<redisVars, nodeVars, orphans>>
    /\ \A n \in Node : LagBounded(n)'

-----------------------------------------------------------------------------
(* The election task of node n.                                            *)

(* request_started is taken and the connection is opened.                  *)
BeginRequest(n, operation) ==
    /\ pc' = [pc EXCEPT ![n] = "connecting"]
    /\ op' = [op EXCEPT ![n] = operation]
    /\ started' = [started EXCEPT ![n] = clock[n]]
    /\ skew' = [skew EXCEPT ![n] = now - clock[n]]
    /\ wakeAt' = [wakeAt EXCEPT ![n] = 0]

(* The request is over: its fields go back to their initial values.        *)
EndRequest(n) ==
    /\ op' = [op EXCEPT ![n] = "acquire"]
    /\ started' = [started EXCEPT ![n] = 0]
    /\ skew' = [skew EXCEPT ![n] = 0]
    /\ reply' = [reply EXCEPT ![n] = NoReply]

(* The wait is over: the loop starts an acquire, or a renewal of `current'.*)
StartRequest(n) ==
    /\ pc[n] = "waiting"
    /\ clock[n] >= wakeAt[n]
    /\ BeginRequest(n, IF current[n] = 0 THEN "acquire" ELSE "renew")
    /\ UNCHANGED <<now, redisVars, clock, reply, current, watch, orphans>>

(* The connection is up; the script is on its way to Redis.                *)
SendScript(n) ==
    /\ pc[n] = "connecting"
    /\ pc' = [pc EXCEPT ![n] = "sent"]
    /\ UNCHANGED <<now, redisVars, clock, op, started, skew, reply, wakeAt, current,
                   watch, orphans>>

(* The Lua scripts, as the Redis state they leave and the answer they give.*)
Answer(kind, fence, retryAfter) ==
    [kind |-> kind, fence |-> fence, retryAfter |-> retryAfter]

Outcome(newLock, newCounter, answer) ==
    [lock |-> newLock, counter |-> newCounter, answer |-> answer]

(* acquire: a fresh fence and a full TTL when there is no live lock.       *)
acquire_without_exists_check(node, fence) ==
    Outcome([node |-> node, fence |-> fenceCounter + 1, expires |-> now + TTL],
            fenceCounter + 1,
            Answer("acquired", fenceCounter + 1, 0))
acquire_ttl_from_grant(node, fence) ==
    IF LockExists
    THEN Outcome(lock, fenceCounter, Answer("follower", 0, lock.expires - TTL - now))
    ELSE Outcome([node |-> node, fence |-> fenceCounter + 1, expires |-> now + TTL],
                 fenceCounter + 1,
                 Answer("acquired", fenceCounter + 1, 0))
acquire(node, fence) ==
    IF LockExists
    THEN Outcome(lock, fenceCounter, Answer("follower", 0, lock.expires - now))
    ELSE Outcome([node |-> node, fence |-> fenceCounter + 1, expires |-> now + TTL],
                 fenceCounter + 1,
                 Answer("acquired", fenceCounter + 1, 0))

(* renew: a full TTL again, for the owner of the live lock only.           *)
renew(node, fence) ==
    IF Owns(fence)
    THEN Outcome([lock EXCEPT !.expires = now + TTL], fenceCounter,
                 Answer("renewed", fence, 0))
    ELSE Outcome(lock, fenceCounter, Answer("stale", 0, 0))

(* relinquish: delete the lock, for its owner only.                        *)
relinquish_without_owner_check(node, fence) ==
    Outcome(NoLock, fenceCounter, Answer("released", 0, 0))
relinquish(node, fence) ==
    IF LockExists /\ lock.fence # fence
    THEN Outcome(lock, fenceCounter, Answer("stale", 0, 0))
    ELSE Outcome(NoLock, fenceCounter, Answer("released", 0, 0))

Script(operation, node, fence) ==
    CASE operation = "acquire" -> acquire(node, fence)
      [] operation = "renew" -> renew(node, fence)
      [] operation = "relinquish" -> relinquish(node, fence)

(* Redis runs the script that node n waits for.                            *)
ExecuteScript(n) ==
    /\ pc[n] = "sent"
    /\ LET outcome == Script(op[n], n, current[n]) IN
          /\ lock' = outcome.lock
          /\ fenceCounter' = outcome.counter
          /\ reply' = [reply EXCEPT ![n] = outcome.answer]
    /\ pc' = [pc EXCEPT ![n] = "replied"]
    /\ UNCHANGED <<now, clock, op, started, skew, wakeAt, current, watch, orphans>>

(* Redis runs a script whose sender has given up; nobody reads the answer. *)
ExecuteOrphan(request) ==
    /\ orphans' = orphans \ {request}
    /\ LET outcome == Script(request.op, request.node, request.fence) IN
          /\ lock' = outcome.lock
          /\ fenceCounter' = outcome.counter
    /\ UNCHANGED <<now, clock, nodeVars>>

-----------------------------------------------------------------------------
(* The answer reaches node n.                                              *)

(* wait_or_shutdown(interval_remaining(request_started, interval)).        *)
WaitFor(n, interval) ==
    /\ pc' = [pc EXCEPT ![n] = "waiting"]
    /\ wakeAt' = [wakeAt EXCEPT ![n] = started[n] + interval]
    /\ EndRequest(n)

(* Acquired or Renewed: the lease is kept; it is announced to the          *)
(* scheduler only if the answer left some of its local budget.             *)
ReceiveLease(n) ==
    /\ pc[n] = "replied"
    /\ reply[n].kind \in {"acquired", "renewed"}
    /\ current' = [current EXCEPT ![n] = reply[n].fence]
    /\ LET deadline == conservative_lease_deadline(started[n]) IN
          watch' = [watch EXCEPT ![n] =
                      IF deadline > clock[n]
                      THEN [fence |-> reply[n].fence, validUntil |-> deadline,
                            skew |-> skew[n]]
                      ELSE NoWatch]
    /\ WaitFor(n, Renew)
    /\ UNCHANGED <<now, redisVars, clock, orphans>>

LoseLeadership(n) ==
    /\ current' = [current EXCEPT ![n] = 0]
    /\ watch' = [watch EXCEPT ![n] = NoWatch]

(* Follower: try again when the lock may be free, or after one interval.   *)
ReceiveFollower(n) ==
    /\ pc[n] = "replied"
    /\ reply[n].kind = "follower"
    /\ LoseLeadership(n)
    /\ WaitFor(n, IF reply[n].retryAfter < Renew THEN reply[n].retryAfter ELSE Renew)
    /\ UNCHANGED <<now, redisVars, clock, orphans>>

(* The renewal found another owner or no lock: an error like any other.    *)
ReceiveStale(n) ==
    /\ pc[n] = "replied"
    /\ op[n] # "relinquish"
    /\ reply[n].kind = "stale"
    /\ LoseLeadership(n)
    /\ WaitFor(n, Renew)
    /\ UNCHANGED <<now, redisVars, clock, orphans>>

(* A script that was sent and not answered may still be executed later.    *)
(* Requests that agree in sender, operation and fence are kept once.       *)
Abandon(n) ==
    \/ UNCHANGED orphans
    \/ /\ pc[n] = "sent"
       /\ Cardinality(orphans) < MaxOrphans
       /\ orphans' = orphans \union
            {[node |-> n, op |-> op[n], fence |-> current[n]]}

(* Timeout or I/O error while connecting, before or after the script ran.  *)
RequestFails(n) ==
    /\ pc[n] \in Waiting
    /\ op[n] # "relinquish"
    /\ Abandon(n)
    /\ LoseLeadership(n)
    /\ WaitFor(n, Renew)
    /\ UNCHANGED <<now, redisVars, clock>>

-----------------------------------------------------------------------------
(* Shutdown, crash and restart.                                            *)

(* A shutdown seen in the wait: leader_tx is cleared and the task waits    *)
(* for the scheduler to stop.                                              *)
Drain(n) ==
    /\ pc[n] = "waiting"
    /\ pc' = [pc EXCEPT ![n] = "draining"]
    /\ watch' = [watch EXCEPT ![n] = NoWatch]
    /\ wakeAt' = [wakeAt EXCEPT ![n] = 0]
    /\ UNCHANGED <<now, redisVars, clock, op, started, skew, reply, current, orphans>>

(* The scheduler has stopped or two renewal intervals have passed (either  *)
(* may come first): a held lease is relinquished.                          *)
Relinquish(n) ==
    /\ pc[n] = "draining"
    /\ IF current[n] = 0
       THEN /\ pc' = [pc EXCEPT ![n] = "stopped"]
            /\ UNCHANGED <<op, started, skew, wakeAt>>
       ELSE BeginRequest(n, "relinquish")
    /\ UNCHANGED <<now, redisVars, clock, reply, current, watch, orphans>>

Halt(n) ==
    /\ pc' = [pc EXCEPT ![n] = "stopped"]
    /\ wakeAt' = [wakeAt EXCEPT ![n] = 0]
    /\ EndRequest(n)
    /\ LoseLeadership(n)
    /\ UNCHANGED <<now, redisVars, clock>>

(* The relinquish request is answered or fails; the task ends either way.  *)
Stop(n) ==
    /\ op[n] = "relinquish"
    /\ pc[n] \in Waiting
    /\ Abandon(n)
    /\ Halt(n)

(* The process dies: everything but Redis and the network is lost.         *)
Crash(n) ==
    /\ pc[n] # "stopped"
    /\ Abandon(n)
    /\ Halt(n)

(* A new process for the same pod, while fewer than MaxFence leases have   *)
(* been granted.                                                           *)
Restart(n) ==
    /\ pc[n] = "stopped"
    /\ fenceCounter < MaxFence
    /\ pc' = [pc EXCEPT ![n] = "waiting"]
    /\ wakeAt' = [wakeAt EXCEPT ![n] = clock[n]]
    /\ UNCHANGED <<now, redisVars, clock, op, started, skew, reply, current, watch,
                   orphans>>

ElectionStep(n) ==
    \/ StartRequest(n) \/ SendScript(n) \/ ExecuteScript(n)
    \/ ReceiveLease(n) \/ ReceiveFollower(n) \/ ReceiveStale(n) \/ RequestFails(n)
    \/ Drain(n) \/ Relinquish(n) \/ Stop(n) \/ Crash(n) \/ Restart(n)

Next ==
    \/ Tick
    \/ \E n \in Node : ElectionStep(n)
    \/ \E request \in orphans : ExecuteOrphan(request)

Spec == Init /\ [][Next]_vars

-----------------------------------------------------------------------------
(* Type correctness; the arithmetic of deadlines and waits never leaves    *)
(* the naturals.                                                           *)
TypeOK ==
    /\ now \in Nat
    /\ lock \in [node : Node \union {NoNode}, fence : Nat, expires : Nat]
    /\ fenceCounter \in Nat
    /\ clock \in [Node -> Nat]
    /\ pc \in [Node -> {"waiting", "draining", "stopped"} \union Waiting]
    /\ op \in [Node -> {"acquire", "renew", "relinquish"}]
    /\ started \in [Node -> Nat]
    /\ skew \in [Node -> Nat]
    /\ reply \in [Node ->
          [kind : {"none", "acquired", "follower", "renewed", "stale", "released"},
           fence : Nat, retryAfter : Nat]]
    /\ wakeAt \in [Node -> Nat]
    /\ current \in [Node -> Nat]
    /\ watch \in [Node -> [fence : Nat, validUntil : Nat, skew : Nat]]
    /\ orphans \subseteq [node : Node, op : {"acquire", "renew", "relinquish"},
                          fence : Nat]

(* A node that may dispatch by its own clock owns the live lock in Redis:  *)
(* the local deadline computed by ObservedLeaderLease never outlives the   *)
(* lease, whatever the delay of the answer and although the node's clock   *)
(* may have lost up to one renewal interval.                               *)
LocalLeaseIsRedisLease ==
    \A n \in Node : lease_is_current(n) => Owns(watch[n].fence)

(* At no time do two nodes both pass the scheduler's lease_is_current      *)
(* check, across crashes, restarts, late answers and abandoned requests    *)
(* that Redis still executes.                                              *)
AtMostOneCurrentLeader ==
    \A m, n \in Node : lease_is_current(m) /\ lease_is_current(n) => m = n

(* Leadership passes only from a lease that has run out or was given back  *)
(* by a node that had already withdrawn it from its scheduler: the step    *)
(* that installs a new fence finds no node dispatching under an older one. *)
HandoverIsFenced ==
    [][lock'.fence > lock.fence => \A n \in Node : ~lease_is_current(n)]_vars

(* The clock-free view that LeaderLease describes: the live lock, and for  *)
(* each node the fence that passes lease_is_current.                       *)
LiveHolder ==
    IF LockExists THEN [node |-> lock.node, fence |-> lock.fence]
                  ELSE [node |-> NoNode, fence |-> 0]
CurrentFence == [n \in Node |-> IF lease_is_current(n) THEN watch[n].fence ELSE 0]

Lease == INSTANCE LeaderLease
    WITH holder <- LiveHolder, fence <- fenceCounter, watch <- CurrentFence

(* Election implements the abstract lease: fences grow, one grant at a     *)
(* time, and no lock disappears from Redis, by expiry or by relinquishing, *)
(* while its holder's scheduler still passes lease_is_current.             *)
ImplementsLease == Lease!LeaseSpec
=============================================================================
