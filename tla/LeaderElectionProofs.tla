------------------------ MODULE LeaderElectionProofs ------------------------
(***************************************************************************)
(* Proofs that a lease which a node believes in is the live lease in       *)
(* Redis, for every set of nodes and every TTL, renewal interval and clock *)
(* drift that the configuration rules allow.                               *)
(***************************************************************************)
EXTENDS LeaderElection, TLAPS

Operations == {"acquire", "renew", "relinquish"}

(* The lease that node n holds or has just been granted.                   *)
HeldFence(n) ==
    IF reply[n].kind = "acquired" THEN reply[n].fence ELSE current[n]

(* Redis honours the lease with this fence at least until time end.        *)
CoversUntil(fence, end) ==
    now >= end \/ (lock.fence = fence /\ lock.expires >= end)

(* Clocks never run ahead of Redis; a request started in the past.         *)
ClockInv ==
    \A n \in Node :
        /\ clock[n] <= now
        /\ pc[n] \in Waiting => started[n] + skew[n] <= now
        /\ LagBounded(n)

(* What the program counter says about the other variables of the task.    *)
TaskInv ==
    \A n \in Node :
        /\ reply[n].kind # "none" => pc[n] = "replied"
        /\ reply[n].kind = "acquired" =>
              op[n] = "acquire" /\ current[n] = 0 /\ reply[n].fence # 0
        /\ reply[n].kind = "renewed" => op[n] = "renew" /\ reply[n].fence = current[n]
        /\ pc[n] \in Waiting /\ op[n] = "acquire" => current[n] = 0
        /\ op[n] # "acquire" => pc[n] \in Waiting /\ current[n] # 0
        /\ pc[n] = "stopped" => current[n] = 0
        /\ watch[n].fence # 0 =>
              /\ watch[n].fence = current[n]
              /\ op[n] # "relinquish"
              /\ pc[n] \notin {"draining", "stopped"}

(* Every fence was handed out once, and a lease that is being given back   *)
(* by an abandoned request is held by nobody.                              *)
FenceInv ==
    /\ lock.fence <= fenceCounter
    /\ lock.expires <= now + TTL
    /\ \A n \in Node : HeldFence(n) <= fenceCounter
    /\ \A n \in Node :
          LockExists /\ HeldFence(n) = lock.fence /\ HeldFence(n) # 0 => lock.node = n
    /\ \A m, n \in Node : m # n /\ HeldFence(m) = HeldFence(n) => HeldFence(n) = 0
    /\ \A r \in orphans :
          /\ r.fence <= fenceCounter
          /\ r.op = "relinquish" =>
                r.fence # 0 /\ \A n \in Node : HeldFence(n) # r.fence

(* A granted answer and a watched lease are covered for a TTL counted from *)
(* the start of the request that obtained them.                            *)
CoverInv ==
    \A n \in Node :
        /\ reply[n].kind \in {"acquired", "renewed"} =>
              CoversUntil(reply[n].fence, started[n] + skew[n] + TTL)
        /\ watch[n].fence # 0 =>
              CoversUntil(watch[n].fence, watch[n].validUntil + watch[n].skew + Renew)

IInv == TypeOK /\ ClockInv /\ TaskInv /\ FenceInv /\ CoverInv

-----------------------------------------------------------------------------
(* The four things a script can do to Redis: grant a new lease when there  *)
(* is no live lock, extend the owner's lease, delete a lock that is its    *)
(* owner's or dead, or leave everything alone.                             *)
Granted(o, node, out) ==
    /\ o = "acquire" /\ ~LockExists
    /\ out.counter = fenceCounter + 1
    /\ out.lock = [node |-> node, fence |-> fenceCounter + 1, expires |-> now + TTL]
    /\ out.answer.kind = "acquired" /\ out.answer.fence = fenceCounter + 1
Extended(o, f, out) ==
    /\ o = "renew" /\ Owns(f)
    /\ out.counter = fenceCounter
    /\ out.lock = [node |-> lock.node, fence |-> f, expires |-> now + TTL]
    /\ out.answer.kind = "renewed" /\ out.answer.fence = f
Deleted(o, f, out) ==
    /\ o = "relinquish" /\ (LockExists => lock.fence = f)
    /\ out.counter = fenceCounter
    /\ out.lock = NoLock
    /\ out.answer.kind = "released"
Untouched(out) ==
    /\ out.counter = fenceCounter
    /\ out.lock = lock
    /\ out.answer.kind \in {"follower", "stale"}

Answers == [kind : {"none", "acquired", "follower", "renewed", "stale", "released"},
            fence : Nat, retryAfter : Nat]

(* What a Lua script of the elector does, whichever operation it is.       *)
LEMMA ScriptEffect ==
    ASSUME TypeOK, NEW o \in Operations, NEW node \in Node, NEW f \in Nat,
           NEW out, out = Script(o, node, f)
    PROVE  /\ out.lock \in [node : Node \union {NoNode}, fence : Nat, expires : Nat]
           /\ out.counter \in Nat
           /\ out.answer \in Answers
           /\ \/ Granted(o, node, out) \/ Extended(o, f, out)
              \/ Deleted(o, f, out) \/ Untouched(out)
<1> USE ConstantsAssumption DEF TypeOK, Outcome, Answer, Answers, LockExists, Owns, NoLock
<1>1. CASE o = "acquire"
  <2>1. out = acquire(node, f)
    BY <1>1 DEF Script
  <2>2. CASE LockExists
    BY <2>1, <2>2 DEF acquire, Untouched
  <2>3. CASE ~LockExists
    BY <1>1, <2>1, <2>3 DEF acquire, Granted
  <2> QED BY <2>2, <2>3
<1>2. CASE o = "renew"
  <2>1. out = renew(node, f)
    BY <1>2 DEF Script
  <2>2. CASE Owns(f)
    <3>1. /\ out.lock = [lock EXCEPT !.expires = now + TTL]
          /\ out.counter = fenceCounter
          /\ out.answer = [kind |-> "renewed", fence |-> f, retryAfter |-> 0]
      BY <2>1, <2>2 DEF renew
    <3>2. /\ lock \in [node : Node \union {NoNode}, fence : Nat, expires : Nat]
          /\ lock.fence = f /\ now + TTL \in Nat
      BY <2>2
    <3>3. /\ out.lock.node = lock.node /\ out.lock.fence = f
          /\ out.lock.expires = now + TTL
          /\ out.lock = [node |-> out.lock.node, fence |-> out.lock.fence,
                         expires |-> out.lock.expires]
      BY <3>1, <3>2
    <3>4. out.lock \in [node : Node \union {NoNode}, fence : Nat, expires : Nat]
      BY <3>2, <3>3
    <3>5. out.counter \in Nat /\ out.answer \in Answers
      BY <3>1
    <3>6. Extended(o, f, out)
      BY <1>2, <2>2, <3>1, <3>3 DEF Extended
    <3> QED BY <3>4, <3>5, <3>6
  <2>3. CASE ~Owns(f)
    BY <2>1, <2>3 DEF renew, Untouched
  <2> QED BY <2>2, <2>3
<1>3. CASE o = "relinquish"
  <2>1. out = relinquish(node, f)
    BY <1>3 DEF Script
  <2>2. CASE LockExists /\ lock.fence # f
    BY <2>1, <2>2 DEF relinquish, Untouched
  <2>3. CASE ~(LockExists /\ lock.fence # f)
    BY <1>3, <2>1, <2>3 DEF relinquish, Deleted
  <2> QED BY <2>2, <2>3
<1> QED BY <1>1, <1>2, <1>3 DEF Operations

(* The initial state satisfies the inductive invariant.                    *)
LEMMA InitIInv == Init => IInv
<1> SUFFICES ASSUME Init PROVE IInv
  OBVIOUS
<1> USE ConstantsAssumption DEF Init, NoLock, NoReply, NoWatch, Waiting
<1>1. TypeOK
  BY DEF TypeOK
<1>2. ClockInv
  BY DEF ClockInv, LagBounded, lease_is_current
<1>3. TaskInv
  BY DEF TaskInv
<1>4. FenceInv
  BY DEF FenceInv, HeldFence, LockExists
<1>5. CoverInv
  BY DEF CoverInv
<1> QED BY <1>1, <1>2, <1>3, <1>4, <1>5 DEF IInv

(* Every step of the specification preserves the inductive invariant.      *)
LEMMA NextIInv == IInv /\ [Next]_vars => IInv'
<1> SUFFICES ASSUME IInv, [Next]_vars PROVE IInv'
  OBVIOUS
<1> USE ConstantsAssumption DEF IInv, redisVars, nodeVars, NoReply, NoWatch, Waiting
<1>1. CASE Tick
  <2> USE <1>1 DEF Tick
  <2>1. TypeOK'
    BY DEF TypeOK
  <2>2. ClockInv'
    BY DEF TypeOK, ClockInv
  <2>3. TaskInv'
    BY DEF TaskInv
  <2>4. FenceInv'
    BY DEF TypeOK, FenceInv, HeldFence, LockExists
  <2>5. CoverInv'
    BY DEF TypeOK, CoverInv, CoversUntil
  <2> QED BY <2>1, <2>2, <2>3, <2>4, <2>5
<1>2. ASSUME NEW n \in Node, StartRequest(n) PROVE IInv'
  <2> USE <1>2 DEF StartRequest, BeginRequest
  <2>1. TypeOK'
    BY DEF TypeOK, ClockInv
  <2>2. ClockInv'
    BY DEF TypeOK, ClockInv, LagBounded, lease_is_current
  <2>3. TaskInv'
    BY DEF TypeOK, TaskInv
  <2>4. FenceInv'
    BY DEF TypeOK, TaskInv, FenceInv, HeldFence, LockExists
  <2>5. CoverInv'
    BY DEF TypeOK, TaskInv, CoverInv, CoversUntil
  <2> QED BY <2>1, <2>2, <2>3, <2>4, <2>5
<1>3. ASSUME NEW n \in Node, SendScript(n) PROVE IInv'
  <2> USE <1>3 DEF SendScript
  <2>1. TypeOK'
    BY DEF TypeOK, ClockInv
  <2>2. ClockInv'
    BY DEF TypeOK, ClockInv, LagBounded, lease_is_current
  <2>3. TaskInv'
    BY DEF TypeOK, TaskInv
  <2>4. FenceInv'
    BY DEF TypeOK, TaskInv, FenceInv, HeldFence, LockExists
  <2>5. CoverInv'
    BY DEF TypeOK, TaskInv, CoverInv, CoversUntil
  <2> QED BY <2>1, <2>2, <2>3, <2>4, <2>5
<1>4. ASSUME NEW n \in Node, ReceiveLease(n) PROVE IInv'
  <2> USE <1>4 DEF ReceiveLease, WaitFor, EndRequest, conservative_lease_deadline
  <2>1. TypeOK'
    BY DEF TypeOK, ClockInv
  <2>2. ClockInv'
    BY DEF TypeOK, ClockInv, LagBounded, lease_is_current
  <2>3. TaskInv'
    BY DEF TypeOK, TaskInv
  <2>4. FenceInv'
    BY DEF TypeOK, TaskInv, FenceInv, HeldFence, LockExists
  <2>5. CoverInv'
    BY DEF TypeOK, TaskInv, CoverInv, CoversUntil
  <2> QED BY <2>1, <2>2, <2>3, <2>4, <2>5
<1>5. ASSUME NEW n \in Node, ReceiveFollower(n) PROVE IInv'
  <2> USE <1>5 DEF ReceiveFollower, LoseLeadership, WaitFor, EndRequest
  <2>1. TypeOK'
    BY DEF TypeOK, ClockInv
  <2>2. ClockInv'
    BY DEF TypeOK, ClockInv, LagBounded, lease_is_current
  <2>3. TaskInv'
    BY DEF TypeOK, TaskInv
  <2>4. FenceInv'
    BY DEF TypeOK, TaskInv, FenceInv, HeldFence, LockExists
  <2>5. CoverInv'
    BY DEF TypeOK, TaskInv, CoverInv, CoversUntil
  <2> QED BY <2>1, <2>2, <2>3, <2>4, <2>5
<1>6. ASSUME NEW n \in Node, ReceiveStale(n) PROVE IInv'
  <2> USE <1>6 DEF ReceiveStale, LoseLeadership, WaitFor, EndRequest
  <2>1. TypeOK'
    BY DEF TypeOK, ClockInv
  <2>2. ClockInv'
    BY DEF TypeOK, ClockInv, LagBounded, lease_is_current
  <2>3. TaskInv'
    BY DEF TypeOK, TaskInv
  <2>4. FenceInv'
    BY DEF TypeOK, TaskInv, FenceInv, HeldFence, LockExists
  <2>5. CoverInv'
    BY DEF TypeOK, TaskInv, CoverInv, CoversUntil
  <2> QED BY <2>1, <2>2, <2>3, <2>4, <2>5
<1>7. ASSUME NEW n \in Node, RequestFails(n) PROVE IInv'
  <2> USE <1>7 DEF RequestFails, LoseLeadership, WaitFor, EndRequest, Abandon
  <2>1. TypeOK'
    BY DEF TypeOK, ClockInv
  <2>2. ClockInv'
    BY DEF TypeOK, ClockInv, LagBounded, lease_is_current
  <2>3. TaskInv'
    BY DEF TypeOK, TaskInv
  <2>4. FenceInv'
    BY DEF TypeOK, TaskInv, FenceInv, HeldFence, LockExists
  <2>5. CoverInv'
    BY DEF TypeOK, TaskInv, CoverInv, CoversUntil
  <2> QED BY <2>1, <2>2, <2>3, <2>4, <2>5
<1>8. ASSUME NEW n \in Node, Drain(n) PROVE IInv'
  <2> USE <1>8 DEF Drain
  <2>1. TypeOK'
    BY DEF TypeOK, ClockInv
  <2>2. ClockInv'
    BY DEF TypeOK, ClockInv, LagBounded, lease_is_current
  <2>3. TaskInv'
    BY DEF TypeOK, TaskInv
  <2>4. FenceInv'
    BY DEF TypeOK, TaskInv, FenceInv, HeldFence, LockExists
  <2>5. CoverInv'
    BY DEF TypeOK, TaskInv, CoverInv, CoversUntil
  <2> QED BY <2>1, <2>2, <2>3, <2>4, <2>5
<1>9. ASSUME NEW n \in Node, Relinquish(n) PROVE IInv'
  <2> USE <1>9 DEF Relinquish, BeginRequest
  <2>1. TypeOK'
    <3>1. CASE current[n] = 0
      <4>1. /\ pc' = [pc EXCEPT ![n] = "stopped"]
            /\ UNCHANGED <<op, started, skew, wakeAt>>
        BY <3>1
      <4> QED BY <4>1 DEF TypeOK
    <3>2. CASE current[n] # 0
      <4>1. BeginRequest(n, "relinquish")
        BY <3>2
      <4> QED BY <4>1 DEF TypeOK, ClockInv
    <3> QED BY <3>1, <3>2
  <2>2. ClockInv'
    BY DEF TypeOK, ClockInv, LagBounded, lease_is_current
  <2>3. TaskInv'
    BY DEF TypeOK, TaskInv
  <2>4. FenceInv'
    BY DEF TypeOK, TaskInv, FenceInv, HeldFence, LockExists
  <2>5. CoverInv'
    <3>1. ASSUME NEW m \in Node, reply[m].kind \in {"acquired", "renewed"}
          PROVE  started'[m] = started[m] /\ skew'[m] = skew[m]
      BY <3>1 DEF TypeOK, TaskInv
    <3>2. UNCHANGED <<now, lock, reply, watch>>
      OBVIOUS
    <3> QED BY <3>1, <3>2 DEF CoverInv, CoversUntil
  <2> QED BY <2>1, <2>2, <2>3, <2>4, <2>5
<1>10. ASSUME NEW n \in Node, Stop(n) PROVE IInv'
  <2> USE <1>10 DEF Stop, Abandon, Halt, EndRequest, LoseLeadership
  <2>1. TypeOK'
    BY DEF TypeOK, ClockInv
  <2>2. ClockInv'
    BY DEF TypeOK, ClockInv, LagBounded, lease_is_current
  <2>3. TaskInv'
    BY DEF TypeOK, TaskInv
  <2>4. FenceInv'
    BY DEF TypeOK, TaskInv, FenceInv, HeldFence, LockExists
  <2>5. CoverInv'
    BY DEF TypeOK, TaskInv, CoverInv, CoversUntil
  <2> QED BY <2>1, <2>2, <2>3, <2>4, <2>5
<1>11. ASSUME NEW n \in Node, Crash(n) PROVE IInv'
  <2> USE <1>11 DEF Crash, Abandon, Halt, EndRequest, LoseLeadership
  <2>1. TypeOK'
    BY DEF TypeOK, ClockInv
  <2>2. ClockInv'
    BY DEF TypeOK, ClockInv, LagBounded, lease_is_current
  <2>3. TaskInv'
    BY DEF TypeOK, TaskInv
  <2>4. FenceInv'
    BY DEF TypeOK, TaskInv, FenceInv, HeldFence, LockExists
  <2>5. CoverInv'
    BY DEF TypeOK, TaskInv, CoverInv, CoversUntil
  <2> QED BY <2>1, <2>2, <2>3, <2>4, <2>5
<1>12. ASSUME NEW n \in Node, Restart(n) PROVE IInv'
  <2> USE <1>12 DEF Restart
  <2>1. TypeOK'
    BY DEF TypeOK, ClockInv
  <2>2. ClockInv'
    BY DEF TypeOK, ClockInv, LagBounded, lease_is_current
  <2>3. TaskInv'
    BY DEF TypeOK, TaskInv
  <2>4. FenceInv'
    BY DEF TypeOK, TaskInv, FenceInv, HeldFence, LockExists
  <2>5. CoverInv'
    BY DEF TypeOK, TaskInv, CoverInv, CoversUntil
  <2> QED BY <2>1, <2>2, <2>3, <2>4, <2>5
<1>13. ASSUME NEW n \in Node, ExecuteScript(n) PROVE IInv'
  <2> DEFINE out == Script(op[n], n, current[n])
  <2> USE <1>13 DEF ExecuteScript
  <2>0. /\ op[n] \in Operations /\ current[n] \in Nat
        /\ lock' = out.lock /\ fenceCounter' = out.counter
        /\ reply' = [reply EXCEPT ![n] = out.answer]
    BY DEF TypeOK, Operations
  <2> HIDE DEF out
  <2>1. /\ out.lock \in [node : Node \union {NoNode}, fence : Nat, expires : Nat]
        /\ out.counter \in Nat
        /\ out.answer \in Answers
    BY <2>0, ScriptEffect DEF out
  <2>2. \/ Granted(op[n], n, out) \/ Extended(op[n], current[n], out)
        \/ Deleted(op[n], current[n], out) \/ Untouched(out)
    BY <2>0, ScriptEffect DEF out
  <2>3. TypeOK'
    BY <2>0, <2>1 DEF TypeOK, Answers
  <2> USE <2>0, <2>1 DEF LockExists, Owns, NoLock
  <2>4. CASE Granted(op[n], n, out)
    <3> USE <2>4 DEF Granted
    <3>1. ClockInv'
      BY DEF TypeOK, ClockInv, LagBounded, lease_is_current
    <3>2. TaskInv'
      BY DEF TypeOK, Answers, TaskInv
    <3>3. FenceInv'
      BY DEF TypeOK, Answers, TaskInv, FenceInv, HeldFence
    <3>4. CoverInv'
      BY DEF TypeOK, Answers, ClockInv, TaskInv, FenceInv, HeldFence, CoverInv, CoversUntil
    <3> QED BY <2>3, <3>1, <3>2, <3>3, <3>4
  <2>5. CASE Extended(op[n], current[n], out)
    <3> USE <2>5 DEF Extended
    <3>1. ClockInv'
      BY DEF TypeOK, ClockInv, LagBounded, lease_is_current
    <3>2. TaskInv'
      BY DEF TypeOK, Answers, TaskInv
    <3>3. FenceInv'
      BY DEF TypeOK, Answers, TaskInv, FenceInv, HeldFence
    <3>4. CoverInv'
      BY DEF TypeOK, Answers, ClockInv, TaskInv, FenceInv, HeldFence, CoverInv, CoversUntil
    <3> QED BY <2>3, <3>1, <3>2, <3>3, <3>4
  <2>6. CASE Deleted(op[n], current[n], out)
    <3> USE <2>6 DEF Deleted
    <3>1. ClockInv'
      BY DEF TypeOK, ClockInv, LagBounded, lease_is_current
    <3>2. TaskInv'
      BY DEF TypeOK, Answers, TaskInv
    <3>3. FenceInv'
      BY DEF TypeOK, Answers, TaskInv, FenceInv, HeldFence
    <3>4. CoverInv'
      BY DEF TypeOK, Answers, ClockInv, TaskInv, FenceInv, HeldFence, CoverInv, CoversUntil
    <3> QED BY <2>3, <3>1, <3>2, <3>3, <3>4
  <2>7. CASE Untouched(out)
    <3> USE <2>7 DEF Untouched
    <3>1. ClockInv'
      BY DEF TypeOK, ClockInv, LagBounded, lease_is_current
    <3>2. TaskInv'
      BY DEF TypeOK, Answers, TaskInv
    <3>3. FenceInv'
      BY DEF TypeOK, Answers, TaskInv, FenceInv, HeldFence
    <3>4. CoverInv'
      BY DEF TypeOK, Answers, ClockInv, TaskInv, FenceInv, HeldFence, CoverInv, CoversUntil
    <3> QED BY <2>3, <3>1, <3>2, <3>3, <3>4
  <2> QED BY <2>2, <2>4, <2>5, <2>6, <2>7
<1>14. ASSUME NEW r \in orphans, ExecuteOrphan(r) PROVE IInv'
  <2> DEFINE out == Script(r.op, r.node, r.fence)
  <2> USE <1>14 DEF ExecuteOrphan
  <2>0. /\ r.op \in Operations /\ r.node \in Node /\ r.fence \in Nat
        /\ lock' = out.lock /\ fenceCounter' = out.counter
    BY DEF TypeOK, Operations
  <2> HIDE DEF out
  <2>1. /\ out.lock \in [node : Node \union {NoNode}, fence : Nat, expires : Nat]
        /\ out.counter \in Nat
    BY <2>0, ScriptEffect DEF out
  <2>2. \/ Granted(r.op, r.node, out) \/ Extended(r.op, r.fence, out)
        \/ Deleted(r.op, r.fence, out) \/ Untouched(out)
    BY <2>0, ScriptEffect DEF out
  <2>3. TypeOK'
    BY <2>0, <2>1 DEF TypeOK
  <2> USE <2>0, <2>1 DEF LockExists, Owns, NoLock
  <2>4. CASE Granted(r.op, r.node, out)
    <3> USE <2>4 DEF Granted
    <3>1. ClockInv'
      BY DEF TypeOK, ClockInv, LagBounded, lease_is_current
    <3>2. TaskInv'
      BY DEF TypeOK, TaskInv
    <3>3. FenceInv'
      BY DEF TypeOK, TaskInv, FenceInv, HeldFence
    <3>4. CoverInv'
      BY DEF TypeOK, ClockInv, TaskInv, FenceInv, HeldFence, CoverInv, CoversUntil
    <3> QED BY <2>3, <3>1, <3>2, <3>3, <3>4
  <2>5. CASE Extended(r.op, r.fence, out)
    <3> USE <2>5 DEF Extended
    <3>1. ClockInv'
      BY DEF TypeOK, ClockInv, LagBounded, lease_is_current
    <3>2. TaskInv'
      BY DEF TypeOK, TaskInv
    <3>3. FenceInv'
      BY DEF TypeOK, TaskInv, FenceInv, HeldFence
    <3>4. CoverInv'
      BY DEF TypeOK, ClockInv, TaskInv, FenceInv, HeldFence, CoverInv, CoversUntil
    <3> QED BY <2>3, <3>1, <3>2, <3>3, <3>4
  <2>6. CASE Deleted(r.op, r.fence, out)
    <3> USE <2>6 DEF Deleted
    <3>1. ClockInv'
      BY DEF TypeOK, ClockInv, LagBounded, lease_is_current
    <3>2. TaskInv'
      BY DEF TypeOK, TaskInv
    <3>3. FenceInv'
      BY DEF TypeOK, TaskInv, FenceInv, HeldFence
    <3>4. CoverInv'
      BY DEF TypeOK, ClockInv, TaskInv, FenceInv, HeldFence, CoverInv, CoversUntil
    <3> QED BY <2>3, <3>1, <3>2, <3>3, <3>4
  <2>7. CASE Untouched(out)
    <3> USE <2>7 DEF Untouched
    <3>1. ClockInv'
      BY DEF TypeOK, ClockInv, LagBounded, lease_is_current
    <3>2. TaskInv'
      BY DEF TypeOK, TaskInv
    <3>3. FenceInv'
      BY DEF TypeOK, TaskInv, FenceInv, HeldFence
    <3>4. CoverInv'
      BY DEF TypeOK, ClockInv, TaskInv, FenceInv, HeldFence, CoverInv, CoversUntil
    <3> QED BY <2>3, <3>1, <3>2, <3>3, <3>4
  <2> QED BY <2>2, <2>4, <2>5, <2>6, <2>7
<1>15. CASE UNCHANGED vars
  <2> USE <1>15 DEF vars
  <2>1. TypeOK'
    BY DEF TypeOK
  <2>2. ClockInv'
    BY DEF ClockInv, LagBounded, lease_is_current
  <2>3. TaskInv'
    BY DEF TaskInv
  <2>4. FenceInv'
    BY DEF FenceInv, HeldFence, LockExists
  <2>5. CoverInv'
    BY DEF CoverInv, CoversUntil
  <2> QED BY <2>1, <2>2, <2>3, <2>4, <2>5
<1> QED
  BY <1>1, <1>2, <1>3, <1>4, <1>5, <1>6, <1>7, <1>8, <1>9, <1>10, <1>11, <1>12, <1>13, <1>14, <1>15 DEF Next, ElectionStep

(* A lease that passes the local check is the live lease in Redis.         *)
LEMMA LocalLease == IInv => LocalLeaseIsRedisLease
<1> SUFFICES ASSUME IInv, NEW n \in Node, lease_is_current(n)
             PROVE  Owns(watch[n].fence)
  BY DEF LocalLeaseIsRedisLease
<1> USE ConstantsAssumption
<1>1. /\ watch[n].fence # 0 /\ watch[n].validUntil > clock[n]
      /\ now <= clock[n] + watch[n].skew + Drift
  BY DEF IInv, ClockInv, LagBounded, lease_is_current
<1>2. CoversUntil(watch[n].fence, watch[n].validUntil + watch[n].skew + Renew)
  BY <1>1 DEF IInv, CoverInv
<1>3. now < watch[n].validUntil + watch[n].skew + Renew
  BY <1>1 DEF IInv, TypeOK
<1> QED
  BY <1>2, <1>3 DEF CoversUntil, Owns, LockExists, IInv, TypeOK

(* Two nodes that pass the local check would own the same lock.            *)
LEMMA OneLeader == IInv => AtMostOneCurrentLeader
<1> SUFFICES ASSUME IInv, NEW m \in Node, NEW n \in Node,
                    lease_is_current(m), lease_is_current(n)
             PROVE  m = n
  BY DEF AtMostOneCurrentLeader
<1>1. watch[m].fence = lock.fence /\ watch[n].fence = lock.fence
  BY LocalLease DEF LocalLeaseIsRedisLease, Owns
<1>2. /\ watch[m].fence = HeldFence(m) /\ watch[n].fence = HeldFence(n)
      /\ watch[n].fence # 0
  BY DEF IInv, TaskInv, HeldFence, lease_is_current
<1> QED
  BY <1>1, <1>2 DEF IInv, FenceInv

(* A step that runs one of the scripts, and leaves the clocks and the      *)
(* watches alone.                                                          *)
ScriptStep(o, node, f) ==
    /\ lock' = Script(o, node, f).lock
    /\ fenceCounter' = Script(o, node, f).counter
    /\ UNCHANGED <<now, clock, watch>>

(* Whatever changes the lock or the fence counter is one script.           *)
LEMMA RedisStep ==
    ASSUME IInv, [Next]_vars
    PROVE  \/ UNCHANGED redisVars
           \/ \E o \in Operations, node \in Node, f \in Nat : ScriptStep(o, node, f)
<1>1. ASSUME NEW n \in Node, ExecuteScript(n)
      PROVE  \E o \in Operations, node \in Node, f \in Nat : ScriptStep(o, node, f)
  <2>1. op[n] \in Operations /\ current[n] \in Nat
    BY DEF IInv, TypeOK, Operations
  <2>2. ScriptStep(op[n], n, current[n])
    BY <1>1 DEF ExecuteScript, ScriptStep
  <2> QED BY <2>1, <2>2
<1>2. ASSUME NEW r \in orphans, ExecuteOrphan(r)
      PROVE  \E o \in Operations, node \in Node, f \in Nat : ScriptStep(o, node, f)
  <2>1. r.op \in Operations /\ r.node \in Node /\ r.fence \in Nat
    BY DEF IInv, TypeOK, Operations
  <2>2. ScriptStep(r.op, r.node, r.fence)
    BY <1>2 DEF ExecuteOrphan, ScriptStep, nodeVars
  <2> QED BY <2>1, <2>2
<1> QED
  BY <1>1, <1>2 DEF Next, ElectionStep, vars, redisVars, Tick, StartRequest,
     SendScript, ReceiveLease, ReceiveFollower, ReceiveStale, RequestFails, Drain,
     Relinquish, Stop, Crash, Restart, Halt

(* A new fence is installed only when no node passes the local check.      *)
LEMMA FencedStep ==
    IInv /\ [Next]_vars =>
        (lock'.fence > lock.fence => \A n \in Node : ~lease_is_current(n))
<1> SUFFICES ASSUME IInv, [Next]_vars, lock'.fence > lock.fence
             PROVE  ~LockExists
  BY LocalLease DEF LocalLeaseIsRedisLease, Owns
<1>1. ~UNCHANGED redisVars
  BY DEF IInv, TypeOK, redisVars
<1>2. PICK o \in Operations, node \in Node, f \in Nat : ScriptStep(o, node, f)
  BY <1>1, RedisStep
<1> DEFINE out == Script(o, node, f)
<1>3. \/ Granted(o, node, out) \/ Extended(o, f, out)
      \/ Deleted(o, f, out) \/ Untouched(out)
  BY ScriptEffect DEF IInv
<1>4. lock' = out.lock
  BY <1>2 DEF ScriptStep
<1> HIDE DEF out
<1> QED
  BY <1>3, <1>4 DEF Granted, Extended, Deleted, Untouched, Owns, NoLock, IInv, TypeOK

-----------------------------------------------------------------------------
(* Refinement of LeaderLease.                                              *)

(* A step that takes currency away from some nodes, and possibly the lock  *)
(* from Redis, is a Lapse.                                                 *)
LEMMA LapseStep ==
    ASSUME IInv', fenceCounter' = fenceCounter,
           LiveHolder' = LiveHolder \/ ~LockExists',
           \A n \in Node : lease_is_current(n)' =>
               lease_is_current(n) /\ watch'[n].fence = watch[n].fence
    PROVE  Lease!LeaseNext
<1> DEFINE nodes == {n \in Node : ~lease_is_current(n)'}
<1>1. CurrentFence' = [n \in Node |-> IF n \in nodes THEN 0 ELSE CurrentFence[n]]
  BY DEF CurrentFence
<1>2. ~LockExists' => LiveHolder' = Lease!Nobody
  BY DEF LiveHolder, Lease!Nobody
<1>3. ~LockExists' => \A n \in Node : CurrentFence'[n] = 0
  <2>1. LocalLeaseIsRedisLease'
    BY LocalLease, PTL
  <2> QED BY <2>1 DEF LocalLeaseIsRedisLease, Owns, CurrentFence
<1>4. Lease!Lapse(nodes)
  BY <1>1, <1>2, <1>3 DEF Lease!Lapse, Lease!Withdraw
<1> QED
  BY <1>4 DEF Lease!LeaseNext

(* A script is a grant to a node, a lapse, or nothing.                     *)
LEMMA ScriptRefines ==
    ASSUME IInv, IInv', NEW o \in Operations, NEW node \in Node, NEW f \in Nat,
           ScriptStep(o, node, f)
    PROVE  Lease!LeaseNext
<1> DEFINE out == Script(o, node, f)
<1>1. \/ Granted(o, node, out) \/ Extended(o, f, out)
      \/ Deleted(o, f, out) \/ Untouched(out)
  BY ScriptEffect DEF IInv
<1>2. lock' = out.lock /\ fenceCounter' = out.counter /\ UNCHANGED <<now, clock, watch>>
  BY DEF ScriptStep
<1> HIDE DEF out
<1>3. CurrentFence' = CurrentFence
  BY <1>2 DEF CurrentFence, lease_is_current
<1>4. CASE Granted(o, node, out)
  <2>1. LiveHolder = Lease!Nobody
    BY <1>4 DEF Granted, LiveHolder, Lease!Nobody
  <2>2. LiveHolder' = [node |-> node, fence |-> fenceCounter + 1]
    BY <1>2, <1>4, ConstantsAssumption
       DEF Granted, LiveHolder, LockExists, IInv, TypeOK
  <2>3. fenceCounter' = fenceCounter + 1
    BY <1>2, <1>4 DEF Granted
  <2>4. Lease!Grant(node)
    BY <1>3, <2>1, <2>2, <2>3, Zenon DEF Lease!Grant
  <2> QED
    BY <2>4, Zenon DEF Lease!LeaseNext
<1>5. CASE ~Granted(o, node, out)
  <2>1. fenceCounter' = fenceCounter
    BY <1>1, <1>2, <1>5 DEF Extended, Deleted, Untouched
  <2>2. LiveHolder' = LiveHolder \/ ~LockExists'
    <3>1. CASE Extended(o, f, out)
      BY <1>2, <3>1, ConstantsAssumption
         DEF Extended, LiveHolder, LockExists, Owns, IInv, TypeOK
    <3>2. CASE Deleted(o, f, out)
      BY <1>2, <3>2 DEF Deleted, LockExists, NoLock, IInv, TypeOK
    <3>3. CASE Untouched(out)
      BY <1>2, <3>3 DEF Untouched, LiveHolder, LockExists
    <3> QED BY <1>1, <1>5, <3>1, <3>2, <3>3
  <2>3. \A n \in Node : lease_is_current(n)' =>
            lease_is_current(n) /\ watch'[n].fence = watch[n].fence
    BY <1>2 DEF lease_is_current
  <2> QED
    BY <2>1, <2>2, <2>3, LapseStep
<1> QED
  BY <1>4, <1>5

(* Every step of election is a step of the abstract lease.                 *)
LEMMA StepRefines ==
    IInv /\ IInv' /\ [Next]_vars => [Lease!LeaseNext]_(Lease!leaseVars)
<1> SUFFICES ASSUME IInv, IInv', [Next]_vars
             PROVE  Lease!LeaseNext
  OBVIOUS
<1>1. CASE \E o \in Operations, node \in Node, f \in Nat : ScriptStep(o, node, f)
  BY <1>1, ScriptRefines
<1>2. CASE UNCHANGED redisVars
  <2>1. CASE \E n \in Node : ReceiveLease(n) /\ lease_is_current(n)'
    <3>1. PICK n \in Node : ReceiveLease(n) /\ lease_is_current(n)'
      BY <2>1
    <3>2. \A m \in Node \ {n} : watch'[m] = watch[m] /\ clock'[m] = clock[m]
      BY <3>1 DEF ReceiveLease, IInv, TypeOK
    <3>3. LiveHolder' = LiveHolder
      BY <1>2, <3>1 DEF ReceiveLease, LiveHolder, LockExists, redisVars
    <3>4. LockExists /\ lock.node = n /\ lock.fence = watch'[n].fence
      <4>1. LocalLeaseIsRedisLease'
        BY LocalLease, PTL
      <4>2. LockExists' /\ lock'.fence = watch'[n].fence
        BY <3>1, <4>1 DEF LocalLeaseIsRedisLease, Owns
      <4>3. HeldFence(n)' = watch'[n].fence /\ watch'[n].fence # 0
        BY <3>1 DEF IInv, TaskInv, HeldFence, lease_is_current
      <4>4. lock'.node = n
        BY <4>2, <4>3 DEF IInv, FenceInv
      <4> QED
        BY <1>2, <3>1, <4>2, <4>4 DEF ReceiveLease, LockExists, redisVars
    <3>5. CurrentFence' = [CurrentFence EXCEPT ![n] = LiveHolder.fence]
      <4>1. LiveHolder.fence = watch'[n].fence
        BY <3>4 DEF LiveHolder
      <4>2. \A m \in Node \ {n} : lease_is_current(m)' = lease_is_current(m)
        BY <3>2 DEF lease_is_current
      <4> QED BY <3>1, <3>2, <4>1, <4>2 DEF CurrentFence
    <3>6. Lease!Announce(n)
      BY <1>2, <3>3, <3>4, <3>5 DEF Lease!Announce, LiveHolder, redisVars
    <3> QED
      BY <3>6 DEF Lease!LeaseNext
  <2>2. CASE ~\E n \in Node : ReceiveLease(n) /\ lease_is_current(n)'
    <3>1. \A n \in Node : lease_is_current(n)' =>
              lease_is_current(n) /\ watch'[n].fence = watch[n].fence
      <4> SUFFICES ASSUME NEW m \in Node, lease_is_current(m)'
                   PROVE  lease_is_current(m) /\ watch'[m].fence = watch[m].fence
        OBVIOUS
      <4>1. CASE UNCHANGED <<clock, watch>>
        BY <4>1 DEF lease_is_current
      <4>2. CASE Tick
        BY <4>2 DEF Tick, nodeVars, lease_is_current, IInv, TypeOK
      <4>3. ASSUME NEW n \in Node, UNCHANGED clock, watch' = [watch EXCEPT ![n] = NoWatch]
            PROVE  lease_is_current(m) /\ watch'[m].fence = watch[m].fence
        BY <4>3 DEF lease_is_current, NoWatch, IInv, TypeOK
      <4>4. ASSUME NEW n \in Node, ReceiveLease(n)
            PROVE  lease_is_current(m) /\ watch'[m].fence = watch[m].fence
        BY <2>2, <4>4 DEF ReceiveLease, lease_is_current, IInv, TypeOK
      <4> QED
        BY <4>1, <4>2, <4>3, <4>4 DEF Next, ElectionStep, vars, nodeVars, StartRequest,
           BeginRequest, SendScript, ExecuteScript, ExecuteOrphan, ReceiveFollower,
           ReceiveStale, RequestFails, LoseLeadership, Drain, Relinquish, Stop, Crash,
           Halt, Restart
    <3>2. LiveHolder' = LiveHolder \/ ~LockExists'
      <4>1. now' \in Nat /\ now' >= now
        <5>1. now \in Nat
          BY DEF IInv, TypeOK
        <5>2. CASE Tick
          BY <5>1, <5>2 DEF Tick
        <5>3. ASSUME NEW n \in Node, ElectionStep(n)
              PROVE  now' = now
          BY <5>3 DEF ElectionStep, StartRequest, SendScript, ExecuteScript, ReceiveLease,
             ReceiveFollower, ReceiveStale, RequestFails, Drain, Relinquish, Stop, Crash,
             Halt, Restart
        <5>4. ASSUME NEW request \in orphans, ExecuteOrphan(request)
              PROVE  now' = now
          BY <5>4 DEF ExecuteOrphan
        <5>5. CASE UNCHANGED vars
          BY <5>1, <5>5 DEF vars
        <5> QED
          BY <5>1, <5>2, <5>3, <5>4, <5>5 DEF Next
      <4> QED
        BY <1>2, <4>1 DEF LiveHolder, LockExists, redisVars, IInv, TypeOK
    <3> QED
      BY <1>2, <3>1, <3>2, LapseStep DEF redisVars
  <2> QED BY <2>1, <2>2
<1> QED
  BY <1>1, <1>2, RedisStep

-----------------------------------------------------------------------------
(* Every reachable state satisfies the inductive invariant.                *)
THEOREM Invariance == Spec => []IInv
  BY InitIInv, NextIInv, PTL DEF Spec

(* The variables of the election keep their types.                         *)
THEOREM TypeCorrect == Spec => []TypeOK
  BY Invariance, PTL DEF IInv

(* A node whose scheduler may dispatch (lease_is_current) owns the live    *)
(* lock in Redis at that moment, for every TTL and renewal interval that   *)
(* AppConfig::validate accepts and every clock that loses at most one      *)
(* renewal interval per lease.                                             *)
THEOREM LocalDeadlineIsSound == Spec => []LocalLeaseIsRedisLease
  BY Invariance, LocalLease, PTL

(* No two nodes pass the scheduler's leadership check at the same time.    *)
THEOREM SingleLeader == Spec => []AtMostOneCurrentLeader
  BY Invariance, OneLeader, PTL

(* Leadership changes hands only when nobody dispatches under the old      *)
(* lease.                                                                  *)
THEOREM FencedHandover == Spec => HandoverIsFenced
  BY Invariance, FencedStep, PTL DEF Spec, HandoverIsFenced

(* Leader election, with its clocks, delays and crashes, implements the    *)
(* abstract lease on which the dispatch model relies.                      *)
THEOREM ElectionImplementsLease == Spec => ImplementsLease
<1>1. Init => Lease!LeaseInit
  BY DEF Init, NoLock, NoWatch, Lease!LeaseInit, Lease!Nobody, LiveHolder, CurrentFence,
     LockExists, lease_is_current
<1> QED
  BY <1>1, Invariance, StepRefines, PTL DEF Spec, ImplementsLease, Lease!LeaseSpec
=============================================================================
