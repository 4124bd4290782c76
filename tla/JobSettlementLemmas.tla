------------------------ MODULE JobSettlementLemmas ------------------------
(***************************************************************************)
(* The inductive invariant IInv of job settlement, what the operators and  *)
(* scripts do to it, and the actions of a worker around the lease.  The    *)
(* calls to Redis, the group and the theorems are in JobSettlementProofs.  *)
(***************************************************************************)
EXTENDS JobSettlement, TLAPS

(* Types.                                                                  *)
Hand == [offset : Nat, fenced : BOOLEAN]
Lease == [state : Terminal \union {"absent", "running"}, owner : Nat, live : BOOLEAN]
Requests == [op : {"claim", "complete", "release"}, execution : Execution,
             token : Nat \ {0}, outcome : Terminal \union {"none"}]
Leaving == {"release", "released"}
Leased == {"run", "verify", "send", "complete", "completed"} \union Leaving
Committing == {"commit", "committing", "committed"}
Labels == {"idle", "process", "down"} \union Leased \union Committing

BrokerT ==
    /\ log \in Seq(Records)
    /\ committed \in Nat /\ committed <= Len(log)
    /\ outputs \subseteq Events /\ stray \subseteq Events
GroupT ==
    /\ assignee \in Node \union {NoNode} /\ joined \subseteq Node
    /\ assigned \in [Node -> BOOLEAN] /\ position \in [Node -> Nat]
RedisT ==
    /\ exec \in [Execution -> Lease]
    /\ recorded \subseteq Execution \X Terminal
    /\ late \subseteq Requests
TaskT ==
    /\ pc \in [Node -> Labels]
    /\ queue \in [Node -> Seq(Hand)] /\ cur \in [Node -> Hand]
    /\ token \in [Node -> Nat]
    /\ valid \in [Node -> BOOLEAN] /\ targets \in [Node -> BOOLEAN]
    /\ out \in [Node -> Events \union {NoEvent}]
    /\ tries \in [Node -> 0 .. Attempts]

(* What the control point of n says of the record and the lease it has.    *)
HandOK(n) ==
    /\ position[n] <= Len(log)
    /\ Len(queue[n]) <= QueueSize
    /\ \A j \in 1 .. Len(queue[n]) : queue[n][j].offset < Len(log)
    /\ pc[n] \in {"idle", "down"} => cur[n] = NoRecord
    /\ pc[n] \notin {"idle", "down"} => cur[n].offset < Len(log)
    /\ pc[n] \in Leased \ {"send"} => token[n] # 0
    /\ token[n] # 0 => pc[n] \in Leased /\ JobOf(n).kind # "poison"
    /\ valid[n] => token[n] # 0

(* The event that n publishes is about its job, and is in its topic before *)
(* the outcome is recorded.                                                *)
Delivered(e) ==
    /\ e.kind = "retry" => \E i \in 1 .. Len(log) : log[i] = RetryJob(e)
    /\ e.kind # "retry" => e \in outputs
OutOK(n) ==
    /\ pc[n] \in {"verify", "send", "complete"} /\ token[n] # 0 =>
          /\ out[n].kind \in {"result", "retry", "dlq"}
          /\ out[n].key = JobOf(n).key /\ out[n].attempt = JobOf(n).attempt
    /\ pc[n] = "send" /\ token[n] = 0 =>
          \/ JobOf(n).kind = "poison" /\ out[n] = PoisonEvent(cur[n].offset)
          \/ out[n] = Event("dlq", JobOf(n)) /\ out[n] \in Events
    /\ pc[n] = "complete" => Delivered(out[n])

(* A record is committed with a terminal disposition.                      *)
DoneOK(n) ==
    /\ pc[n] = "completed" => \E o \in Terminal : <<ExecutionOf(n), o>> \in recorded
    /\ pc[n] \in Committing => Settled(cur[n].offset + 1)

(* The records that n received under its assignment are in the order of    *)
(* the log, and those before them are settled.                             *)
InWork(n) == pc[n] \notin {"idle", "down"} /\ ~cur[n].fenced
Waiting(n) == {j \in 1 .. Len(queue[n]) : ~queue[n][j].fenced}
Held(n, i) ==
    \/ InWork(n) /\ cur[n].offset + 1 = i
    \/ \E j \in Waiting(n) : queue[n][j].offset + 1 = i
ChainOK(n) ==
    /\ pc[n] = "down" => ~assigned[n] /\ queue[n] = <<>>
    /\ InWork(n) => assigned[n] /\ cur[n].offset < position[n]
    /\ \A j \in Waiting(n) :
          /\ assigned[n] /\ queue[n][j].offset < position[n]
          /\ InWork(n) => cur[n].offset < queue[n][j].offset
          /\ \A k \in 1 .. Len(queue[n]) :
                j < k => k \in Waiting(n) /\ queue[n][j].offset < queue[n][k].offset
    /\ assigned[n] => \A i \in 1 .. position[n] : Settled(i) \/ Held(n, i)
    /\ pc[n] \in {"committing", "committed"} =>
          \A i \in 1 .. cur[n].offset + 1 : Settled(i)

NodeOK(n) == HandOK(n) /\ OutOK(n) /\ DoneOK(n) /\ ChainOK(n)

(* Terminal records and recorded outcomes are backed by what was published.*)
RecInv ==
    /\ \A e \in Execution : exec[e].state \in Terminal => <<e, exec[e].state>> \in recorded
    /\ \A c \in recorded : Backed(c[1], c[2])
    /\ \A r \in late : r.op = "complete" =>
          r.outcome \in Terminal /\ Backed(r.execution, r.outcome)

(* Leases have different owners, and an abandoned request that could take  *)
(* a lease away is not about one in use.                                   *)
Holds(x, t) == x.owner = t /\ (x.live \/ x.state \in Terminal)
Harmless(r, n) ==
    token[n] = r.token =>
        r.op = "complete" \/ (r.op = "release" /\ pc[n] \in Leaving)
LeaseInv ==
    /\ \A m, n \in Node : token[m] = token[n] /\ token[m] # 0 => m = n
    /\ \A r \in late : \A n \in Node : Harmless(r, n)
    /\ \A n \in Node : valid[n] /\ pc[n] \notin Leaving =>
                          Holds(exec[ExecutionOf(n)], token[n])

IInv ==
    /\ BrokerT /\ GroupT /\ RedisT /\ TaskT
    /\ \A n \in Node : NodeOK(n)
    /\ CommittedIsSettled /\ RecInv /\ LeaseInv

-----------------------------------------------------------------------------
(* The data.                                                               *)

LEMMA RecordFacts ==
    ASSUME NEW x \in Records
    PROVE  /\ x.kind \in {"poison", "unknown", "job"} /\ x.attempt \in Attempt
           /\ x.kind # "poison" => x.key \in Key /\ <<x.key, x.attempt>> \in Execution
BY SettlementAssumption DEF Records, Poison, Attempt, Execution

LEMMA EventFacts ==
    ASSUME NEW x \in Events
    PROVE  /\ x.kind \in {"result", "dlq", "retry", "poison"}
           /\ x # NoEvent
           /\ x.kind # "poison" => x.key \in Key /\ x.attempt \in Attempt
           /\ x.kind = "retry" => RetryJob(x) \in Records
<1>1. x.kind # "none"
  BY Zenon DEF Events
<1>2. CASE x \in [kind : {"result", "dlq"}, key : Key, attempt : Attempt]
  BY <1>1, <1>2 DEF NoEvent
<1>3. CASE x \in [kind : {"retry"}, key : Key, attempt : 0 .. MaxRetries - 1]
  BY <1>1, <1>3, SettlementAssumption DEF NoEvent, RetryJob, Records, Attempt
<1>4. CASE x \in [kind : {"poison"}, key : {"none"}, attempt : Nat]
  BY <1>1, <1>4 DEF NoEvent
<1>5. QED  BY Zenon, <1>2, <1>3, <1>4 DEF Events

LEMMA OutcomeFacts ==
    ASSUME NEW x, x.kind \in {"result", "retry", "dlq"}
    PROVE  /\ OutcomeOf(x) \in Terminal
           /\ x.kind = "result" => OutcomeOf(x) = "completed"
           /\ x.kind = "retry" => OutcomeOf(x) = "retry_published"
           /\ x.kind = "dlq" => OutcomeOf(x) = "dlq_published"
BY Zenon DEF OutcomeOf, Terminal

(* The job of a node that has a record, and its execution.                 *)
LEMMA JobFacts ==
    ASSUME BrokerT, NEW n \in Node, TaskT, cur[n].offset < Len(log)
    PROVE  /\ JobOf(n) \in Records
           /\ cur[n].offset + 1 \in 1 .. Len(log)
           /\ JobOf(n).kind # "poison" => ExecutionOf(n) \in Execution
<1>1. cur[n].offset \in Nat /\ Len(log) \in Nat
  BY DEF TaskT, BrokerT, Hand
<1>2. cur[n].offset + 1 \in 1 .. Len(log)
  BY <1>1
<1>3. JobOf(n) \in Records
  BY <1>2 DEF JobOf, BrokerT
<1>4. QED  BY Zenon, <1>2, <1>3, RecordFacts DEF ExecutionOf

LEMMA QueueFacts ==
    ASSUME TaskT, NEW n \in Node
    PROVE  /\ queue[n] \in Seq(Hand) /\ Len(queue[n]) \in Nat
           /\ DOMAIN queue[n] = 1 .. Len(queue[n])
           /\ \A j \in 1 .. Len(queue[n]) : queue[n][j] \in Hand /\ queue[n][j].offset \in Nat
<1>1. queue[n] \in Seq(Hand)
  BY Zenon DEF TaskT
<1>2. PICK q \in Seq(Hand) : q = queue[n]
  BY Zenon, <1>1
<1>3. Len(q) \in Nat /\ DOMAIN q = 1 .. Len(q) /\ \A j \in 1 .. Len(q) : q[j] \in Hand
  OBVIOUS
<1>4. \A h \in Hand : h.offset \in Nat
  BY Zenon DEF Hand
<1>5. QED  BY Zenon, <1>2, <1>3, <1>4

-----------------------------------------------------------------------------
(* What every step leaves true: the topics and the recorded outcomes grow, *)
(* and with them what is settled, backed and delivered.                    *)

Grows ==
    /\ Len(log) <= Len(log')
    /\ \A i \in 1 .. Len(log) : log'[i] = log[i]
    /\ outputs \subseteq outputs' /\ recorded \subseteq recorded'

LEMMA StillGrows ==
    ASSUME BrokerT, UNCHANGED <<brokerVars, redisVars>>
    PROVE  BrokerT' /\ Grows
BY DEF BrokerT, Grows, brokerVars, redisVars

LEMMA SettledStays ==
    ASSUME Grows, NEW i \in 1 .. Len(log), Settled(i)
    PROVE  Settled(i)'
BY Zenon DEF Grows, Settled, PoisonEvent, Event

LEMMA BackedStays ==
    ASSUME Grows, BrokerT, BrokerT', NEW e, NEW o, Backed(e, o)
    PROVE  Backed(e, o)'
<1>1. Len(log) \in Nat /\ Len(log') \in Nat
  BY DEF BrokerT
<1>2. DOMAIN log = 1 .. Len(log) /\ DOMAIN log' = 1 .. Len(log')
  BY DEF BrokerT
<1>3. QED  BY <1>1, <1>2 DEF Grows, Backed, Event, RetryJob

LEMMA DeliveredStays ==
    ASSUME Grows, BrokerT, BrokerT', NEW e, Delivered(e)
    PROVE  Delivered(e)'
<1>1. Len(log) \in Nat /\ Len(log') \in Nat
  BY DEF BrokerT
<1>2. QED  BY <1>1 DEF Grows, Delivered, RetryJob

LEMMA JobStays ==
    ASSUME Grows, BrokerT, TaskT, NEW n \in Node, cur[n].offset < Len(log),
           cur'[n].offset = cur[n].offset
    PROVE  JobOf(n)' = JobOf(n) /\ ExecutionOf(n)' = ExecutionOf(n)
<1>1. cur[n].offset + 1 \in 1 .. Len(log)
  BY Zenon, JobFacts
<1>2. JobOf(n)' = JobOf(n)
  BY <1>1 DEF Grows, JobOf
<1>3. QED  BY Zenon, <1>2 DEF ExecutionOf

(* The steps of n do not touch what other nodes have in hand.              *)
Same(m) ==
    /\ pc'[m] = pc[m] /\ cur'[m] = cur[m] /\ queue'[m] = queue[m]
    /\ token'[m] = token[m] /\ valid'[m] = valid[m] /\ out'[m] = out[m]
    /\ assigned'[m] = assigned[m] /\ position'[m] = position[m]
Others(n) == \A m \in Node \ {n} : Same(m)

LEMMA NodeStays ==
    ASSUME Grows, BrokerT, BrokerT', TaskT, GroupT, NEW m \in Node, Same(m), NodeOK(m)
    PROVE  NodeOK(m)'
<1>0. /\ Len(log) \in Nat /\ Len(log') \in Nat /\ Len(log) <= Len(log')
      /\ position[m] \in Nat /\ cur[m].offset \in Nat
  BY DEF BrokerT, TaskT, GroupT, Grows, Hand
<1>1. /\ pc'[m] = pc[m] /\ cur'[m] = cur[m] /\ queue'[m] = queue[m]
      /\ token'[m] = token[m] /\ valid'[m] = valid[m] /\ out'[m] = out[m]
      /\ assigned'[m] = assigned[m] /\ position'[m] = position[m]
  BY Zenon DEF Same
<1>2. ASSUME pc[m] \notin {"idle", "down"}
      PROVE  JobOf(m)' = JobOf(m) /\ ExecutionOf(m)' = ExecutionOf(m)
  BY Zenon, <1>1, <1>2, JobStays DEF NodeOK, HandOK
<1>3. HandOK(m)'
  <2>1. \A j \in 1 .. Len(queue[m]) : queue[m][j].offset < Len(log')
    BY <1>0, QueueFacts DEF NodeOK, HandOK
  <2>2. pc[m] \in Leased => pc[m] \notin {"idle", "down"}
    BY Zenon DEF Leased, Leaving
  <2>3. token[m] # 0 => JobOf(m)'.kind # "poison"
    BY Zenon, <1>2, <2>2 DEF NodeOK, HandOK
  <2>4. pc[m] \notin {"idle", "down"} => cur[m].offset < Len(log')
    BY <1>0 DEF NodeOK, HandOK
  <2>5. QED  BY <1>0, <1>1, <2>1, <2>3, <2>4 DEF NodeOK, HandOK
<1>4. OutOK(m)'
  <2>1. PICK x : x = out[m]
    BY Zenon
  <2>2. pc[m] = "complete" => Delivered(x)'
    BY Zenon, <2>1, DeliveredStays DEF NodeOK, OutOK
  <2>3. PoisonEvent(cur[m].offset)' = PoisonEvent(cur[m].offset)
    BY Zenon, <1>1 DEF PoisonEvent
  <2>4. QED  BY Zenon, <1>1, <1>2, <2>1, <2>2, <2>3 DEF NodeOK, OutOK, Event
<1>5. \A i \in 1 .. Len(log) : Settled(i) => Settled(i)'
  BY Zenon, SettledStays
<1>6. DoneOK(m)'
  <2>1. PICK i : i = cur[m].offset + 1
    BY Zenon
  <2>2. ASSUME pc[m] \in Committing PROVE Settled(i)'
    <3>1. i \in 1 .. Len(log)
      BY <1>0, <2>1, <2>2 DEF NodeOK, HandOK, Committing
    <3>2. QED  BY Zenon, <1>5, <2>1, <2>2, <3>1 DEF NodeOK, DoneOK
  <2>3. QED  BY Zenon, <1>1, <1>2, <2>1, <2>2 DEF NodeOK, DoneOK, Grows
<1>7. ChainOK(m)'
  <2>1. InWork(m)' <=> InWork(m)
    BY Zenon, <1>1 DEF InWork
  <2>2. Waiting(m)' = Waiting(m)
    BY Zenon, <1>1 DEF Waiting
  <2>3. \A i : Held(m, i)' <=> Held(m, i)
    BY Zenon, <1>1, <2>1, <2>2 DEF Held
  <2>4. assigned[m] => \A i \in 1 .. position[m] : Settled(i)' \/ Held(m, i)'
    <3>1. \A i \in 1 .. position[m] : i \in 1 .. Len(log)
      BY <1>0 DEF NodeOK, HandOK
    <3>2. QED  BY Zenon, <1>5, <2>3, <3>1 DEF NodeOK, ChainOK
  <2>5. pc[m] \in {"committing", "committed"} => \A i \in 1 .. cur[m].offset + 1 : Settled(i)'
    <3>1. pc[m] \in {"committing", "committed"} => \A i \in 1 .. cur[m].offset + 1 : i \in 1 .. Len(log)
      BY <1>0 DEF NodeOK, HandOK
    <3>2. QED  BY Zenon, <1>5, <3>1 DEF NodeOK, ChainOK
  <2>6. QED  BY Zenon, <1>1, <2>1, <2>2, <2>4, <2>5 DEF NodeOK, ChainOK
<1>8. QED  BY Zenon, <1>3, <1>4, <1>6, <1>7 DEF NodeOK

(* The end of a process.                                                   *)
LEMMA DownEffect ==
    ASSUME GroupT, TaskT, NEW n \in Node, Down(n)
    PROVE  /\ GroupT' /\ TaskT' /\ Others(n) /\ token'[n] = 0 /\ ~valid'[n]
           /\ BrokerT' => NodeOK(n)'
<1>1. NoRecord \in Hand /\ 0 \in 0 .. Attempts
  BY SettlementAssumption DEF NoRecord, Hand
<1>2. GroupT'
  BY Zenon DEF GroupT, Down
<1>3. TaskT'
  BY <1>1 DEF TaskT, Down, Goto, Labels
<1>4. Others(n)
  BY Zenon DEF Others, Same, Down, Goto, TaskT, GroupT
<1>5. /\ pc'[n] = "down" /\ queue'[n] = <<>> /\ cur'[n] = NoRecord /\ token'[n] = 0
      /\ ~valid'[n] /\ ~assigned'[n] /\ position'[n] = 0
  BY Zenon DEF TaskT, GroupT, Down, Goto
<1>6. BrokerT' => HandOK(n)'
  BY <1>5, SettlementAssumption DEF HandOK, Leased, Leaving, BrokerT
<1>7. OutOK(n)' /\ DoneOK(n)'
  BY Zenon, <1>5 DEF OutOK, DoneOK, Committing
<1>8. ChainOK(n)'
  BY <1>5 DEF ChainOK, InWork, Waiting
<1>9. QED  BY Zenon, <1>2, <1>3, <1>4, <1>5, <1>6, <1>7, <1>8 DEF NodeOK

-----------------------------------------------------------------------------
(* What the calls do.                                                      *)

LEMMA DeliverEffect ==
    ASSUME BrokerT, NEW e \in Events, Deliver(e), stray' \subseteq stray \union {e},
           recorded \subseteq recorded'
    PROVE  BrokerT' /\ Grows /\ Delivered(e)' /\ committed' = committed
<1>1. Len(log) \in Nat
  BY DEF BrokerT
<1>2. stray' \subseteq Events
  BY Zenon DEF BrokerT
<1>3. CASE e.kind = "retry"
  <2>1. RetryJob(e) \in Records
    BY Zenon, <1>3, EventFacts
  <2>2. log' = Append(log, RetryJob(e)) /\ committed' = committed /\ outputs' = outputs
    BY Zenon, <1>3 DEF Deliver
  <2> DEFINE x == RetryJob(e)
  <2> HIDE DEF x
  <2>3. /\ log' \in Seq(Records) /\ Len(log') = Len(log) + 1
        /\ \A i \in 1 .. Len(log) : log'[i] = log[i]
        /\ log'[Len(log) + 1] = x
    BY <2>1, <2>2 DEF BrokerT, x
  <2>4. BrokerT' /\ Grows
    BY <1>1, <1>2, <2>2, <2>3 DEF BrokerT, Grows
  <2>5. Len(log) + 1 \in 1 .. Len(log')
    BY <1>1, <2>3
  <2>6. Delivered(e)'
    BY Zenon, <1>3, <2>3, <2>5 DEF Delivered, x, RetryJob
  <2>7. QED  BY Zenon, <2>2, <2>4, <2>6
<1>4. CASE e.kind # "retry"
  <2>1. log' = log /\ committed' = committed /\ outputs' = outputs \union {e}
    BY Zenon, <1>4 DEF Deliver
  <2>2. QED  BY <1>1, <1>2, <1>4, <2>1 DEF BrokerT, Grows, Delivered
<1>5. QED  BY Zenon, <1>3, <1>4

(* The three scripts that change a record.  None of them takes a lease     *)
(* from an owner that holds it, but the release by that owner.             *)
LEMMA ClaimScript ==
    ASSUME NEW x \in Lease, NEW t \in Nat \ {0}
    PROVE  LET y == claim(x, t).record IN
           /\ y \in Lease
           /\ y.state \in Terminal => y = x
           /\ \A u : Holds(x, u) => y = x
           /\ claim(x, t).code = "acquired" => Holds(y, t)
           /\ claim(x, t).code = "completed" => x.state \in Terminal
BY DEF claim, Answer, Absent, Running, Lease, Terminal, Holds

LEMMA CompleteScript ==
    ASSUME NEW x \in Lease, NEW t \in Nat \ {0}, NEW o \in Terminal
    PROVE  LET y == complete(x, t, o).record IN
           /\ y \in Lease
           /\ y.state \in Terminal /\ y # x => y.state = o /\ complete(x, t, o).code = "ok"
           /\ \A u : Holds(x, u) => Holds(y, u)
BY Zenon DEF complete, Answer, Absent, Lease, Terminal, Holds

LEMMA ReleaseScript ==
    ASSUME NEW x \in Lease, NEW t \in Nat \ {0}
    PROVE  LET y == release(x, t).record IN
           /\ y \in Lease
           /\ y.state \in Terminal => y = x
           /\ \A u : Holds(x, u) /\ u # t => Holds(y, u)
BY Zenon DEF release, Answer, Absent, Lease, Terminal, Holds

Sound(r) == r.op = "complete" => r.outcome \in Terminal /\ Backed(r.execution, r.outcome)

(* Redis executes a request: every held lease survives, but one that its   *)
(* owner releases, and a terminal record is a recorded outcome.            *)
Survives(r) ==
    \A e \in Execution : \A u :
        Holds(exec[e], u) /\ ~(r.op = "release" /\ r.token = u) => Holds(exec'[e], u)

LEMMA ExecuteEffect ==
    ASSUME RedisT, RecInv, NEW r \in Requests, Sound(r), Execute(r)
    PROVE  /\ exec' \in [Execution -> Lease]
           /\ recorded \subseteq recorded'
           /\ recorded' \subseteq recorded \union {<<r.execution, r.outcome>>}
           /\ r.op # "complete" => recorded' = recorded
           /\ \A e \in Execution : exec'[e].state \in Terminal => <<e, exec'[e].state>> \in recorded'
           /\ Survives(r)
<1> DEFINE x == exec[r.execution]
           y == exec'[r.execution]
<1>1. /\ r.execution \in Execution /\ r.token \in Nat \ {0}
      /\ r.op \in {"claim", "complete", "release"} /\ x \in Lease
  BY Zenon DEF Requests, RedisT
<1>2. \A z : exec' = [exec EXCEPT ![r.execution] = z] =>
             y = z /\ \A e \in Execution \ {r.execution} : exec'[e] = exec[e]
  BY Zenon, <1>1 DEF RedisT
<1>3. /\ y \in Lease /\ recorded \subseteq recorded'
      /\ recorded' \subseteq recorded \union {<<r.execution, r.outcome>>}
      /\ r.op # "complete" => recorded' = recorded
      /\ y.state \in Terminal => y.state = x.state \/ <<r.execution, y.state>> \in recorded'
      /\ \A u : Holds(x, u) /\ ~(r.op = "release" /\ r.token = u) => Holds(y, u)
      /\ \A e \in Execution \ {r.execution} : exec'[e] = exec[e]
  <2>1. CASE r.op = "claim"
    <3>1. exec' = [exec EXCEPT ![r.execution] = claim(x, r.token).record] /\ recorded' = recorded
      BY Zenon, <2>1 DEF Execute
    <3>2. y = claim(x, r.token).record
      BY Zenon, <1>2, <3>1
    <3> HIDE DEF x, y
    <3>3. QED  BY Zenon, <1>1, <1>2, <2>1, <3>1, <3>2, ClaimScript
  <2>2. CASE r.op = "complete"
    <3> DEFINE a == complete(x, r.token, r.outcome)
    <3>1. /\ exec' = [exec EXCEPT ![r.execution] = a.record]
          /\ recorded' = IF a.code = "ok"
                         THEN recorded \union {<<r.execution, r.outcome>>} ELSE recorded
      BY Zenon, <2>2 DEF Execute
    <3>2. y = a.record /\ r.outcome \in Terminal
      BY Zenon, <1>2, <2>2, <3>1 DEF Sound
    <3> HIDE DEF x, y
    <3>3. /\ y \in Lease /\ \A u : Holds(x, u) => Holds(y, u)
          /\ y.state \in Terminal /\ y # x => y.state = r.outcome /\ a.code = "ok"
      BY Zenon, <1>1, <3>2, CompleteScript
    <3> HIDE DEF a
    <3>4. QED  BY Zenon, <1>2, <2>2, <3>1, <3>3
  <2>3. CASE r.op = "release"
    <3>1. exec' = [exec EXCEPT ![r.execution] = release(x, r.token).record] /\ recorded' = recorded
      BY Zenon, <2>3 DEF Execute
    <3>2. y = release(x, r.token).record
      BY Zenon, <1>2, <3>1
    <3> HIDE DEF x, y
    <3>3. QED  BY Zenon, <1>1, <1>2, <2>3, <3>1, <3>2, ReleaseScript
  <2>4. QED  BY Zenon, <1>1, <2>1, <2>2, <2>3
<1>4. exec' \in [Execution -> Lease]
  BY Zenon, <1>1, <1>3 DEF Execute, RedisT
<1>5. \A e \in Execution : exec'[e].state \in Terminal => <<e, exec'[e].state>> \in recorded'
  BY Zenon, <1>3 DEF RecInv
<1>6. Survives(r)
  BY Zenon, <1>3 DEF Survives
<1>7. QED  BY Zenon, <1>3, <1>4, <1>5, <1>6

(* A request that its caller waits for, gives up or has given up.          *)
Called(r) ==
    \/ UNCHANGED redisVars
    \/ Execute(r) /\ late' \subseteq late
    \/ Delay(r)

LEMMA CallEffect ==
    ASSUME BrokerT, RedisT, RecInv, NEW r \in Requests, Sound(r), Called(r),
           UNCHANGED <<log, outputs>>
    PROVE  RedisT' /\ RecInv' /\ Grows /\ Survives(r) /\ late' \subseteq late \union {r}
<1>0. ASSUME NEW e, NEW o PROVE Backed(e, o)' <=> Backed(e, o)
  BY Zenon DEF Backed, Event, RetryJob
<1>1. CASE UNCHANGED redisVars
  <2>1. exec' = exec /\ recorded' = recorded /\ late' = late
    BY Zenon, <1>1 DEF redisVars
  <2>2. RedisT' /\ Survives(r)
    BY Zenon, <2>1 DEF RedisT, Survives
  <2>3. RecInv'
    BY Zenon, <1>0, <2>1 DEF RecInv
  <2>4. QED  BY <2>1, <2>2, <2>3 DEF Grows, BrokerT
<1>2. CASE Execute(r) /\ late' \subseteq late
  <2>1. /\ exec' \in [Execution -> Lease]
        /\ recorded \subseteq recorded'
        /\ recorded' \subseteq recorded \union {<<r.execution, r.outcome>>}
        /\ r.op # "complete" => recorded' = recorded
        /\ \A e \in Execution : exec'[e].state \in Terminal => <<e, exec'[e].state>> \in recorded'
        /\ Survives(r)
    BY Zenon, <1>2, ExecuteEffect
  <2>2. RedisT'
    <3>1. recorded' \subseteq Execution \X Terminal
      <4>1. r.op = "complete" => <<r.execution, r.outcome>> \in Execution \X Terminal
        BY Zenon DEF Sound, Requests
      <4>2. QED  BY Zenon, <2>1, <4>1 DEF RedisT
    <3>2. QED  BY Zenon, <1>2, <2>1, <3>1 DEF RedisT
  <2>3. \A c \in recorded' : Backed(c[1], c[2])'
    <3>1. ASSUME NEW c \in recorded', c \notin recorded PROVE Backed(c[1], c[2])
      BY <2>1, <3>1 DEF Sound
    <3>2. \A c \in recorded' : Backed(c[1], c[2])
      BY Zenon, <3>1 DEF RecInv
    <3>3. QED  BY Zenon, <1>0, <3>2
  <2>4. \A s \in late' : s.op = "complete" => s.outcome \in Terminal /\ Backed(s.execution, s.outcome)'
    BY Zenon, <1>0, <1>2 DEF RecInv
  <2>5. QED  BY <1>2, <2>1, <2>2, <2>3, <2>4 DEF RecInv, Grows, BrokerT
<1>3. CASE Delay(r)
  <2>1. exec' = exec /\ recorded' = recorded /\ late' = late \union {r}
    BY Zenon, <1>3 DEF Delay
  <2>2. RedisT' /\ Survives(r)
    BY Zenon, <2>1 DEF RedisT, Survives
  <2>3. RecInv'
    BY Zenon, <1>0, <2>1 DEF RecInv, Sound
  <2>4. QED  BY <2>1, <2>2, <2>3 DEF Grows, BrokerT
<1>4. QED  BY Zenon, <1>1, <1>2, <1>3 DEF Called

-----------------------------------------------------------------------------
(* Frames: what has to be shown of a step of node n.                       *)

(* n keeps its lease or drops it, and does not come back to a lease that   *)
(* it was about to release.                                                *)
Keeps(n) ==
    /\ token'[n] \in {0, token[n]}
    /\ valid'[n] => token'[n] # 0
    /\ token'[n] # 0 => /\ cur'[n].offset = cur[n].offset
                        /\ pc[n] \in Leaving => pc'[n] \in Leaving
                        /\ valid'[n] => valid[n]

(* No lease in use is lost in Redis, and the abandoned requests are none   *)
(* that could lose one.                                                    *)
LeasesSurvive ==
    \A m \in Node : \A e \in Execution :
        token'[m] # 0 /\ pc'[m] \notin Leaving /\ Holds(exec[e], token'[m])
            => Holds(exec'[e], token'[m])
LateHarmless ==
    \A r \in late' : r \in late \/ \A m \in Node : Harmless(r, m)'

LEMMA LeaseStays ==
    ASSUME IInv, NEW n \in Node, Others(n), Grows, Keeps(n), LeasesSurvive, LateHarmless
    PROVE  LeaseInv'
<1>1. BrokerT /\ TaskT /\ \A m \in Node : HandOK(m)
  BY Zenon DEF IInv, NodeOK
<1>2. ASSUME NEW m \in Node
      PROVE  /\ token'[m] \in {0, token[m]} /\ token[m] \in Nat
             /\ valid'[m] => token'[m] # 0
             /\ token'[m] # 0 => /\ cur'[m].offset = cur[m].offset
                                 /\ pc[m] \in Leaving => pc'[m] \in Leaving
                                 /\ valid'[m] => valid[m]
  <2>1. CASE m = n
    BY Zenon, <1>1, <2>1 DEF Keeps, TaskT
  <2>2. CASE m # n
    BY Zenon, <1>1, <2>2 DEF Others, Same, TaskT, HandOK
  <2>3. QED  BY Zenon, <2>1, <2>2
<1>3. \A l, m \in Node : token'[l] = token'[m] /\ token'[l] # 0 => l = m
  BY Zenon, <1>2 DEF IInv, LeaseInv
<1>4. ASSUME NEW r \in late', NEW m \in Node PROVE Harmless(r, m)'
  <2>1. CASE r \in late
    <3>1. Harmless(r, m) /\ r.token \in Nat \ {0}
      BY Zenon, <2>1 DEF IInv, LeaseInv, RedisT, Requests
    <3>2. QED  BY Zenon, <1>2, <3>1 DEF Harmless
  <2>2. CASE r \notin late
    BY Zenon, <2>2 DEF LateHarmless
  <2>3. QED  BY Zenon, <2>1, <2>2
<1>5. ASSUME NEW m \in Node, valid'[m], pc'[m] \notin Leaving
      PROVE  Holds(exec[ExecutionOf(m)], token[m])'
  <2>1. /\ token'[m] = token[m] /\ token[m] # 0 /\ valid[m] /\ pc[m] \notin Leaving
        /\ cur'[m].offset = cur[m].offset
    BY Zenon, <1>2, <1>5
  <2>2. pc[m] \notin {"idle", "down"} /\ JobOf(m).kind # "poison"
    BY Zenon, <1>1, <2>1 DEF HandOK, Leased, Leaving
  <2>3. ExecutionOf(m) \in Execution /\ ExecutionOf(m)' = ExecutionOf(m)
    BY Zenon, <1>1, <2>1, <2>2, JobFacts, JobStays DEF HandOK
  <2>4. Holds(exec[ExecutionOf(m)], token[m])
    BY Zenon, <2>1 DEF IInv, LeaseInv
  <2>5. PICK e \in Execution : e = ExecutionOf(m)
    BY Zenon, <2>3
  <2>6. Holds(exec'[e], token'[m])
    BY Zenon, <1>5, <2>1, <2>4, <2>5 DEF LeasesSurvive
  <2>7. QED  BY Zenon, <2>3, <2>5, <2>6 DEF Holds
<1>6. QED  BY Zenon, <1>3, <1>4, <1>5 DEF LeaseInv

LEMMA NodeStep ==
    ASSUME IInv, NEW n \in Node, Others(n), Grows, Keeps(n), LeasesSurvive, LateHarmless,
           BrokerT', GroupT', RedisT', TaskT', NodeOK(n)', CommittedIsSettled', RecInv'
    PROVE  IInv'
<1>1. ASSUME NEW m \in Node PROVE NodeOK(m)'
  <2>1. m # n => Same(m)
    BY Zenon DEF Others
  <2>2. QED  BY Zenon, <2>1, NodeStays DEF IInv
<1>2. LeaseInv'
  BY Zenon, LeaseStays
<1>3. QED  BY Zenon, <1>1, <1>2 DEF IInv

LEMMA CommittedStays ==
    ASSUME CommittedIsSettled, BrokerT, Grows, committed' = committed
    PROVE  CommittedIsSettled'
<1>1. \A i \in 1 .. committed : i \in 1 .. Len(log)
  BY DEF BrokerT
<1>2. QED  BY Zenon, <1>1, SettledStays DEF CommittedIsSettled

LEMMA RecInvStays ==
    ASSUME RecInv, BrokerT, BrokerT', Grows, UNCHANGED redisVars
    PROVE  RecInv'
<1>1. exec' = exec /\ recorded' = recorded /\ late' = late
  BY Zenon DEF redisVars
<1>2. ASSUME NEW e, NEW o, Backed(e, o) PROVE Backed(e, o)'
  BY Zenon, <1>2, BackedStays
<1>3. QED  BY Zenon, <1>1, <1>2 DEF RecInv

(* A step of n that leaves Kafka and Redis alone.                          *)
LEMMA QuietStep ==
    ASSUME IInv, NEW n \in Node, Others(n), Keeps(n), UNCHANGED <<brokerVars, redisVars>>,
           GroupT', TaskT', NodeOK(n)'
    PROVE  IInv'
<1>1. /\ log' = log /\ committed' = committed /\ outputs' = outputs /\ stray' = stray
      /\ exec' = exec /\ recorded' = recorded /\ late' = late
  BY Zenon DEF brokerVars, redisVars
<1>2. BrokerT' /\ RedisT' /\ Grows /\ LeasesSurvive /\ LateHarmless
  BY <1>1 DEF IInv, BrokerT, RedisT, Grows, LeasesSurvive, LateHarmless
<1>3. CommittedIsSettled'
  BY Zenon, <1>1, <1>2, CommittedStays DEF IInv
<1>4. RecInv'
  BY Zenon, <1>2, RecInvStays DEF IInv
<1>5. QED  BY Zenon, <1>2, <1>3, <1>4, NodeStep

(* A step of n that also sends something to Kafka.                         *)
LEMMA SendStep ==
    ASSUME IInv, NEW n \in Node, Others(n), Keeps(n), BrokerT', Grows,
           committed' = committed, UNCHANGED redisVars, GroupT', TaskT', NodeOK(n)'
    PROVE  IInv'
<1>1. exec' = exec /\ recorded' = recorded /\ late' = late
  BY Zenon DEF redisVars
<1>2. RedisT' /\ LeasesSurvive /\ LateHarmless
  BY Zenon, <1>1 DEF IInv, RedisT, LeasesSurvive, LateHarmless
<1>3. CommittedIsSettled' /\ RecInv'
  BY Zenon, CommittedStays, RecInvStays DEF IInv
<1>4. QED  BY Zenon, <1>2, <1>3, NodeStep

(* A step of n that calls Redis with r.                                    *)
LEMMA CallStep ==
    ASSUME IInv, NEW n \in Node, Others(n), Keeps(n), UNCHANGED brokerVars,
           NEW r \in Requests, Sound(r), Called(r), \A m \in Node : Harmless(r, m)',
           GroupT', TaskT', NodeOK(n)'
    PROVE  IInv'
<1>1. log' = log /\ committed' = committed /\ outputs' = outputs /\ stray' = stray
  BY Zenon DEF brokerVars
<1>2. RedisT' /\ RecInv' /\ Grows /\ Survives(r) /\ late' \subseteq late \union {r}
  BY Zenon, <1>1, CallEffect DEF IInv
<1>3. BrokerT' /\ CommittedIsSettled'
  BY Zenon, <1>1, <1>2, CommittedStays DEF IInv, BrokerT
<1>4. LateHarmless
  BY Zenon, <1>2 DEF LateHarmless
<1>5. LeasesSurvive
  <2>1. ASSUME NEW m \in Node, NEW e \in Execution, token'[m] # 0, pc'[m] \notin Leaving,
               Holds(exec[e], token'[m])
        PROVE  Holds(exec'[e], token'[m])
    <3>1. ~(r.op = "release" /\ r.token = token'[m])
      BY Zenon, <2>1 DEF Harmless
    <3>2. QED  BY Zenon, <1>2, <2>1, <3>1 DEF Survives
  <2>2. QED  BY Zenon, <2>1 DEF LeasesSurvive
<1>6. QED  BY Zenon, <1>2, <1>3, <1>4, <1>5, NodeStep

(* n goes on with the record in hand.                                      *)
Stays(n) ==
    /\ cur'[n] = cur[n] /\ queue'[n] = queue[n]
    /\ assigned'[n] = assigned[n] /\ position'[n] = position[n]
Busy == Labels \ {"idle", "down"}
Leases(n) ==
    /\ pc'[n] \in Leased \ {"send"} => token'[n] # 0
    /\ token'[n] # 0 => pc'[n] \in Leased /\ JobOf(n).kind # "poison"
    /\ valid'[n] => token'[n] # 0

LEMMA WorkStays ==
    ASSUME Grows, BrokerT, BrokerT', TaskT, GroupT, NEW n \in Node, HandOK(n), ChainOK(n),
           Stays(n), pc[n] \in Busy, pc'[n] \in Busy, Leases(n),
           pc'[n] \in {"committing", "committed"} =>
               \A i \in 1 .. cur[n].offset + 1 : Settled(i)
    PROVE  /\ HandOK(n)' /\ ChainOK(n)'
           /\ JobOf(n)' = JobOf(n) /\ ExecutionOf(n)' = ExecutionOf(n)
<1>0. /\ Len(log) \in Nat /\ Len(log') \in Nat /\ Len(log) <= Len(log')
      /\ position[n] \in Nat /\ cur[n].offset \in Nat
  BY DEF BrokerT, TaskT, GroupT, Grows, Hand
<1>1. /\ cur'[n] = cur[n] /\ queue'[n] = queue[n]
      /\ assigned'[n] = assigned[n] /\ position'[n] = position[n]
      /\ pc[n] \notin {"idle", "down"} /\ pc'[n] \notin {"idle", "down"}
      /\ cur[n].offset < Len(log)
  BY Zenon DEF Stays, Busy, HandOK
<1>2. JobOf(n)' = JobOf(n) /\ ExecutionOf(n)' = ExecutionOf(n)
  BY Zenon, <1>1, JobStays
<1>3. HandOK(n)'
  <2>1. \A j \in 1 .. Len(queue[n]) : queue[n][j].offset < Len(log')
    BY <1>0, QueueFacts DEF HandOK
  <2>2. position[n] <= Len(log') /\ cur[n].offset < Len(log')
    BY <1>0, <1>1 DEF HandOK
  <2>3. QED  BY Zenon, <1>1, <1>2, <2>1, <2>2 DEF HandOK, Leases
<1>4. \A i \in 1 .. Len(log) : Settled(i) => Settled(i)'
  BY Zenon, SettledStays
<1>5. ChainOK(n)'
  <2>1. (InWork(n)' <=> InWork(n)) /\ Waiting(n)' = Waiting(n)
    BY Zenon, <1>1 DEF InWork, Waiting
  <2>2. \A i : Held(n, i)' <=> Held(n, i)
    BY Zenon, <1>1, <2>1 DEF Held
  <2>3. assigned[n] => \A i \in 1 .. position[n] : Settled(i)' \/ Held(n, i)'
    <3>1. \A i \in 1 .. position[n] : i \in 1 .. Len(log)
      BY <1>0 DEF HandOK
    <3>2. QED  BY Zenon, <1>4, <2>2, <3>1 DEF ChainOK
  <2>4. pc'[n] \in {"committing", "committed"} => \A i \in 1 .. cur[n].offset + 1 : Settled(i)'
    <3>1. \A i \in 1 .. cur[n].offset + 1 : i \in 1 .. Len(log)
      BY <1>0, <1>1
    <3>2. QED  BY Zenon, <1>4, <3>1
  <2>5. QED  BY Zenon, <1>1, <2>1, <2>3, <2>4 DEF ChainOK
<1>6. QED  BY Zenon, <1>2, <1>3, <1>5

(* The same with Kafka and Redis left alone.                               *)
LEMMA WorkStep ==
    ASSUME IInv, NEW n \in Node, UNCHANGED <<brokerVars, groupVars, redisVars>>, TaskT',
           Others(n), Keeps(n), Stays(n), pc[n] \in Busy, pc'[n] \in Busy, Leases(n),
           pc'[n] \in {"committing", "committed"} =>
               \A i \in 1 .. cur[n].offset + 1 : Settled(i),
           JobOf(n)' = JobOf(n) /\ ExecutionOf(n)' = ExecutionOf(n)
               => OutOK(n)' /\ DoneOK(n)'
    PROVE  IInv'
<1>1. BrokerT' /\ Grows
  BY Zenon, StillGrows DEF IInv
<1>2. GroupT'
  BY Zenon DEF IInv, GroupT, groupVars
<1>3. HandOK(n)' /\ ChainOK(n)' /\ JobOf(n)' = JobOf(n) /\ ExecutionOf(n)' = ExecutionOf(n)
  <2>1. position' = position /\ assigned' = assigned
    BY Zenon DEF groupVars
  <2>2. QED  BY Zenon, <1>1, <2>1, WorkStays DEF IInv, NodeOK
<1>4. NodeOK(n)'
  BY Zenon, <1>3 DEF NodeOK
<1>5. QED  BY Zenon, <1>2, <1>4, QuietStep

(* The end of the process, wherever n was.                                 *)
LEMMA DownStep ==
    ASSUME IInv, NEW n \in Node, Down(n)
    PROVE  GroupT' /\ TaskT' /\ Others(n) /\ Keeps(n) /\ (BrokerT' => NodeOK(n)')
<1>1. /\ GroupT' /\ TaskT' /\ Others(n) /\ token'[n] = 0 /\ ~valid'[n]
      /\ BrokerT' => NodeOK(n)'
  BY Zenon, DownEffect DEF IInv
<1>2. QED  BY Zenon, <1>1 DEF Keeps
-----------------------------------------------------------------------------
(* The actions.  First those of a worker that leave Kafka and Redis alone. *)

LEMMA InitIInv == Init => IInv
<1> SUFFICES ASSUME Init PROVE IInv
  BY Zenon
<1>1. NoRecord \in Hand /\ 0 \in 0 .. Attempts /\ Absent \in Lease
  BY SettlementAssumption DEF NoRecord, Hand, Absent, Lease
<1>2. BrokerT
  BY SettlementAssumption DEF Init, BrokerT
<1>3. GroupT
  BY Zenon DEF Init, GroupT
<1>4. RedisT
  BY Zenon, <1>1 DEF Init, RedisT
<1>5. TaskT
  BY <1>1 DEF Init, TaskT, Labels
<1>6. ASSUME NEW n \in Node PROVE NodeOK(n)
  <2>1. /\ pc[n] = "idle" /\ queue[n] = <<>> /\ cur[n] = NoRecord /\ token[n] = 0
        /\ ~valid[n] /\ ~assigned[n] /\ position[n] = 0 /\ Len(log) \in Nat
    BY <1>2 DEF Init, BrokerT
  <2>2. HandOK(n)
    BY <2>1, SettlementAssumption DEF HandOK, Leased, Leaving
  <2>3. OutOK(n) /\ DoneOK(n) /\ ChainOK(n)
    BY <2>1 DEF OutOK, DoneOK, Committing, ChainOK, InWork, Waiting
  <2>4. QED  BY Zenon, <2>2, <2>3 DEF NodeOK
<1>7. CommittedIsSettled
  BY DEF Init, CommittedIsSettled
<1>8. RecInv
  BY Zenon DEF Init, RecInv, Absent, Terminal
<1>9. LeaseInv
  BY Zenon DEF Init, LeaseInv
<1>10. QED  BY Zenon, <1>2, <1>3, <1>4, <1>5, <1>6, <1>7, <1>8, <1>9 DEF IInv

LEMMA TakeRecordStep ==
    ASSUME IInv, NEW n \in Node, TakeRecord(n)
    PROVE  IInv'
<1> DEFINE q == queue[n]
<1>0. /\ GroupT /\ TaskT /\ HandOK(n) /\ ChainOK(n)
      /\ q \in Seq(Hand) /\ Len(q) \in Nat
      /\ \A j \in 1 .. Len(q) : q[j] \in Hand /\ q[j].offset \in Nat
  BY Zenon, QueueFacts DEF IInv, NodeOK
<1>1. /\ pc[n] = "idle" /\ q # <<>>
      /\ pc' = [pc EXCEPT ![n] = "process"]
      /\ cur' = [cur EXCEPT ![n] = Head(q)]
      /\ queue' = [queue EXCEPT ![n] = Tail(q)]
      /\ UNCHANGED <<brokerVars, groupVars, redisVars, token, valid, targets, out, tries>>
  BY Zenon DEF TakeRecord, Goto, leaseVars
<1>2. /\ Head(q) = q[1] /\ Tail(q) \in Seq(Hand) /\ Len(q) >= 1 /\ Len(Tail(q)) = Len(q) - 1
      /\ \A j \in 1 .. Len(q) - 1 : Tail(q)[j] = q[j + 1]
  <2>1. PICK p \in Seq(Hand) : p = q
    BY Zenon, <1>0
  <2>2. p # <<>> => /\ Head(p) = p[1] /\ Tail(p) \in Seq(Hand) /\ Len(p) >= 1
                    /\ Len(Tail(p)) = Len(p) - 1
                    /\ \A j \in 1 .. Len(p) - 1 : Tail(p)[j] = p[j + 1]
    OBVIOUS
  <2>3. QED  BY Zenon, <1>1, <2>1, <2>2
<1>3. /\ pc'[n] = "process" /\ cur'[n] = q[1] /\ queue'[n] = Tail(q)
      /\ token' = token /\ valid' = valid
      /\ assigned' = assigned /\ position' = position /\ log' = log
      /\ outputs' = outputs /\ recorded' = recorded
  BY Zenon, <1>0, <1>1, <1>2 DEF TaskT, brokerVars, groupVars, redisVars
<1>4. GroupT'
  BY Zenon, <1>0, <1>1 DEF GroupT, groupVars
<1>5. TaskT'
  BY <1>0, <1>1, <1>2 DEF TaskT, Labels
<1>6. Others(n)
  BY Zenon, <1>0, <1>1, <1>3 DEF Others, Same, TaskT
<1>7. Len(q) <= QueueSize /\ token[n] = 0 /\ ~valid[n] /\ QueueSize \in Nat
  BY Zenon, <1>0, <1>1, SettlementAssumption DEF HandOK, Leased, Leaving
<1>8. Keeps(n)
  BY Zenon, <1>3, <1>7 DEF Keeps
<1>9. HandOK(n)'
  BY <1>0, <1>2, <1>3, <1>7 DEF HandOK, Leased, Leaving
<1>10. OutOK(n)' /\ DoneOK(n)'
  BY Zenon, <1>3 DEF OutOK, DoneOK, Committing
<1>11. ChainOK(n)'
  <2>1. \A i : Settled(i)' <=> Settled(i)
    BY Zenon, <1>3 DEF Settled, PoisonEvent, Event
  <2>2. ~InWork(n) /\ (InWork(n)' <=> ~q[1].fenced)
    BY Zenon, <1>1, <1>3 DEF InWork
  <2>3. \A j \in 1 .. Len(q) - 1 : j \in Waiting(n)' <=> j + 1 \in Waiting(n)
    BY <1>2, <1>3, <1>0 DEF Waiting
  <2>4. 1 \in Waiting(n) <=> ~q[1].fenced
    BY <1>0, <1>2 DEF Waiting
  <2>5. \A j \in Waiting(n)' : j \in 1 .. Len(q) - 1
    BY Zenon, <1>2, <1>3 DEF Waiting
  <2>6. \A j \in Waiting(n) : j \in 1 .. Len(q)
    BY Zenon DEF Waiting
  <2>7. InWork(n)' => assigned[n] /\ q[1].offset < position[n]
    BY Zenon, <1>0, <2>2, <2>4 DEF ChainOK
  <2>8. ASSUME NEW j \in Waiting(n)'
        PROVE  /\ assigned[n] /\ Tail(q)[j].offset < position[n]
               /\ InWork(n)' => q[1].offset < Tail(q)[j].offset
               /\ \A k \in 1 .. Len(q) - 1 :
                     j < k => k \in Waiting(n)' /\ Tail(q)[j].offset < Tail(q)[k].offset
    <3>1. j \in 1 .. Len(q) - 1 /\ j + 1 \in Waiting(n) /\ j + 1 \in 1 .. Len(q) /\ 1 < j + 1
      BY <1>0, <2>3, <2>5
    <3>2. assigned[n] /\ q[j + 1].offset < position[n]
      BY Zenon, <1>0, <3>1 DEF ChainOK
    <3>3. InWork(n)' => q[1].offset < q[j + 1].offset
      BY Zenon, <1>0, <2>2, <2>4, <3>1 DEF ChainOK
    <3>4. ASSUME NEW k \in 1 .. Len(q) - 1, j < k
          PROVE  k \in Waiting(n)' /\ q[j + 1].offset < q[k + 1].offset
      <4>1. k + 1 \in 1 .. Len(q) /\ j + 1 < k + 1
        BY <1>0, <3>1, <3>4
      <4>2. k + 1 \in Waiting(n) /\ q[j + 1].offset < q[k + 1].offset
        BY Zenon, <1>0, <3>1, <4>1 DEF ChainOK
      <4>3. QED  BY Zenon, <2>3, <4>2
    <3>5. QED  BY Zenon, <1>2, <3>1, <3>2, <3>3, <3>4
  <2>9. ASSUME assigned[n], NEW i \in 1 .. position[n] PROVE Settled(i) \/ Held(n, i)'
    <3>1. SUFFICES ASSUME Held(n, i) PROVE Held(n, i)'
      BY Zenon, <1>0, <2>9 DEF ChainOK
    <3>2. PICK j \in Waiting(n) : q[j].offset + 1 = i
      BY Zenon, <2>2, <3>1 DEF Held
    <3>3. CASE j = 1
      BY Zenon, <1>3, <2>2, <2>4, <3>2, <3>3 DEF Held
    <3>4. CASE j # 1
      <4>1. j - 1 \in 1 .. Len(q) - 1 /\ j = (j - 1) + 1
        BY <1>0, <2>6, <3>4
      <4>2. j - 1 \in Waiting(n)' /\ Tail(q)[j - 1] = q[j]
        BY Zenon, <1>2, <2>3, <4>1
      <4>3. QED  BY Zenon, <1>3, <3>2, <4>2 DEF Held
    <3>5. QED  BY Zenon, <3>3, <3>4
  <2>10. QED  BY Zenon, <1>2, <1>3, <2>1, <2>7, <2>8, <2>9 DEF ChainOK
<1>12. QED
  BY Zenon, <1>1, <1>4, <1>5, <1>6, <1>8, <1>9, <1>10, <1>11, QuietStep DEF NodeOK

(* Only the control point, the event, the attempts and the target traffic  *)
(* of n change, or its lease is given up.                                  *)
LEMMA TaskEffect ==
    ASSUME IInv, NEW n \in Node, pc[n] \in Busy,
           UNCHANGED <<groupVars, queue, cur>>,
           NEW l \in Busy, pc' = [pc EXCEPT ![n] = l],
           NEW o \in Events \union {NoEvent}, out' = [out EXCEPT ![n] = o],
           NEW k \in 0 .. Attempts, tries' = [tries EXCEPT ![n] = k],
           NEW b \in BOOLEAN, targets' = [targets EXCEPT ![n] = b],
           \/ UNCHANGED <<token, valid>>
           \/ token' = [token EXCEPT ![n] = 0] /\ valid' = [valid EXCEPT ![n] = FALSE],
           l \in Leased \ {"send"} => token'[n] # 0,
           token'[n] # 0 => l \in Leased /\ (pc[n] \in Leaving => l \in Leaving),
           l \in {"committing", "committed"} =>
               \A i \in 1 .. cur[n].offset + 1 : Settled(i)
    PROVE  /\ Others(n) /\ Keeps(n) /\ GroupT' /\ TaskT'
           /\ pc'[n] = l /\ out'[n] = o /\ cur'[n] = cur[n]
           /\ BrokerT' /\ Grows =>
                 /\ HandOK(n)' /\ ChainOK(n)'
                 /\ JobOf(n)' = JobOf(n) /\ ExecutionOf(n)' = ExecutionOf(n)
<1>1. BrokerT /\ GroupT /\ TaskT /\ HandOK(n) /\ ChainOK(n)
  BY Zenon DEF IInv, NodeOK
<1>2. /\ queue' = queue /\ cur' = cur /\ assigned' = assigned /\ position' = position
      /\ assignee' = assignee /\ joined' = joined
  BY Zenon DEF groupVars
<1>3. /\ token'[n] \in {0, token[n]}
      /\ valid'[n] => valid[n] /\ token'[n] = token[n]
      /\ token' \in [Node -> Nat] /\ valid' \in [Node -> BOOLEAN]
      /\ \A m \in Node \ {n} : token'[m] = token[m] /\ valid'[m] = valid[m]
  <2>1. CASE UNCHANGED <<token, valid>>
    BY Zenon, <1>1, <2>1 DEF TaskT
  <2>2. CASE token' = [token EXCEPT ![n] = 0] /\ valid' = [valid EXCEPT ![n] = FALSE]
    <3>1. token'[n] = 0 /\ ~valid'[n]
      BY Zenon, <1>1, <2>2 DEF TaskT
    <3>2. QED  BY Zenon, <1>1, <2>2, <3>1 DEF TaskT
  <2>3. QED  BY Zenon, <2>1, <2>2
<1>4. GroupT' /\ TaskT'
  BY Zenon, <1>1, <1>2, <1>3 DEF GroupT, TaskT, Busy
<1>5. pc'[n] = l /\ out'[n] = o /\ Others(n) /\ Stays(n)
  BY Zenon, <1>1, <1>2, <1>3 DEF TaskT, Others, Same, Stays
<1>6. valid'[n] => token'[n] # 0
  BY Zenon, <1>1, <1>3 DEF HandOK
<1>7. Keeps(n)
  BY Zenon, <1>2, <1>3, <1>5, <1>6 DEF Keeps
<1>8. Leases(n)
  BY Zenon, <1>1, <1>3, <1>5, <1>6 DEF Leases, HandOK
<1>9. ASSUME BrokerT', Grows
      PROVE  /\ HandOK(n)' /\ ChainOK(n)'
             /\ JobOf(n)' = JobOf(n) /\ ExecutionOf(n)' = ExecutionOf(n)
  BY Zenon, <1>1, <1>5, <1>8, <1>9, WorkStays
<1>10. QED  BY Zenon, <1>2, <1>4, <1>5, <1>7, <1>9

LEMMA TaskStep ==
    ASSUME IInv, NEW n \in Node, pc[n] \in Busy,
           UNCHANGED <<brokerVars, groupVars, redisVars, queue, cur>>,
           NEW l \in Busy, pc' = [pc EXCEPT ![n] = l],
           NEW o \in Events \union {NoEvent}, out' = [out EXCEPT ![n] = o],
           NEW k \in 0 .. Attempts, tries' = [tries EXCEPT ![n] = k],
           NEW b \in BOOLEAN, targets' = [targets EXCEPT ![n] = b],
           \/ UNCHANGED <<token, valid>>
           \/ token' = [token EXCEPT ![n] = 0] /\ valid' = [valid EXCEPT ![n] = FALSE],
           l \in Leased \ {"send"} => token'[n] # 0,
           token'[n] # 0 => l \in Leased /\ (pc[n] \in Leaving => l \in Leaving),
           l \in {"committing", "committed"} =>
               \A i \in 1 .. cur[n].offset + 1 : Settled(i),
           JobOf(n)' = JobOf(n) /\ ExecutionOf(n)' = ExecutionOf(n)
               => OutOK(n)' /\ DoneOK(n)'
    PROVE  IInv'
<1>1. BrokerT' /\ Grows
  BY Zenon, StillGrows DEF IInv
<1>2. /\ Others(n) /\ Keeps(n) /\ GroupT' /\ TaskT'
      /\ HandOK(n)' /\ ChainOK(n)'
      /\ JobOf(n)' = JobOf(n) /\ ExecutionOf(n)' = ExecutionOf(n)
  BY Zenon, <1>1, TaskEffect
<1>3. QED  BY Zenon, <1>2, QuietStep DEF NodeOK

(* The facts about n that its actions start from.                          *)
LEMMA NodeFacts ==
    ASSUME IInv, NEW n \in Node, pc[n] \in Busy
    PROVE  /\ BrokerT /\ TaskT /\ HandOK(n) /\ OutOK(n) /\ DoneOK(n) /\ ChainOK(n)
           /\ cur[n].offset \in Nat /\ Len(log) \in Nat /\ cur[n].offset < Len(log)
           /\ JobOf(n) \in Records
           /\ token[n] \in Nat /\ tries[n] \in 0 .. Attempts
           /\ token[n] # 0 => JobOf(n).kind # "poison"
           /\ JobOf(n).kind # "poison" => ExecutionOf(n) \in Execution
           /\ NoEvent \in Events \union {NoEvent} /\ out[n] \in Events \union {NoEvent}
           /\ 0 \in 0 .. Attempts /\ targets[n] \in BOOLEAN
<1>1. BrokerT /\ TaskT /\ HandOK(n) /\ OutOK(n) /\ DoneOK(n) /\ ChainOK(n)
  BY Zenon DEF IInv, NodeOK
<1>2. cur[n].offset \in Nat /\ Len(log) \in Nat /\ cur[n].offset < Len(log)
  BY <1>1 DEF TaskT, BrokerT, Hand, HandOK, Busy
<1>3. JobOf(n) \in Records /\ (JobOf(n).kind # "poison" => ExecutionOf(n) \in Execution)
  BY Zenon, <1>1, <1>2, JobFacts
<1>4. QED  BY <1>1, <1>2, <1>3, SettlementAssumption DEF TaskT, HandOK

(* An event about a job that has a key.                                    *)
LEMMA JobEvents ==
    ASSUME NEW j \in Records, j.key \in Key
    PROVE  /\ Event("result", j) \in Events /\ Event("dlq", j) \in Events
           /\ j.attempt < MaxRetries => Event("retry", j) \in Events
<1>1. j.attempt \in Attempt
  BY Zenon, RecordFacts
<1>2. j.attempt < MaxRetries => j.attempt \in 0 .. MaxRetries - 1
  BY <1>1, SettlementAssumption DEF Attempt
<1>3. QED  BY Zenon, <1>1, <1>2 DEF Event, Events

LEMMA DeadLetterUnleasedStep ==
    ASSUME IInv, NEW n \in Node, DeadLetterUnleased(n)
    PROVE  IInv'
<1> DEFINE o == IF JobOf(n).kind = "poison" THEN PoisonEvent(cur[n].offset)
                ELSE Event("dlq", JobOf(n))
<1>1. /\ pc[n] = "process" /\ Refused(n)
      /\ pc' = [pc EXCEPT ![n] = "send"] /\ out' = [out EXCEPT ![n] = o]
      /\ UNCHANGED <<brokerVars, groupVars, redisVars, queue, cur, tries>>
      /\ UNCHANGED <<token, valid, targets>>
  BY Zenon DEF DeadLetterUnleased, Goto, leaseVars
<1>2. pc[n] \in Busy /\ "send" \in Busy
  BY Zenon, <1>1 DEF Busy, Labels, Leased
<1>3. /\ TaskT /\ HandOK(n) /\ JobOf(n) \in Records /\ cur[n].offset \in Nat
      /\ tries[n] \in 0 .. Attempts /\ targets[n] \in BOOLEAN
  BY Zenon, <1>2, NodeFacts
<1>4. o \in Events
  <2>1. CASE JobOf(n).kind = "poison"
    BY Zenon, <1>3, <2>1 DEF Events, PoisonEvent
  <2>2. CASE JobOf(n).kind # "poison"
    <3>1. JobOf(n).key \in Key
      BY Zenon, <1>3, <2>2, RecordFacts
    <3>2. QED  BY Zenon, <1>3, <2>2, <3>1, JobEvents
  <2>3. QED  BY Zenon, <2>1, <2>2
<1>5. token[n] = 0
  BY Zenon, <1>1, <1>3 DEF HandOK, Leased, Leaving
<1>6. /\ tries' = [tries EXCEPT ![n] = tries[n]] /\ targets' = [targets EXCEPT ![n] = targets[n]]
      /\ out'[n] = o /\ pc'[n] = "send" /\ cur' = cur /\ token' = token /\ log' = log
  BY Zenon, <1>1, <1>3 DEF TaskT, brokerVars
<1>7. JobOf(n)' = JobOf(n) => OutOK(n)' /\ DoneOK(n)'
  BY Zenon, <1>4, <1>5, <1>6 DEF OutOK, DoneOK, Committing, Event, PoisonEvent
<1> HIDE DEF o
<1>8. QED  BY Zenon, <1>1, <1>2, <1>3, <1>4, <1>5, <1>6, <1>7, TaskStep

LEMMA SettleStep ==
    ASSUME IInv, NEW n \in Node, pc[n] = "run", NEW k \in {"result", "retry", "dlq"},
           k = "retry" => JobOf(n).attempt < MaxRetries, Settle(n, Event(k, JobOf(n)))
    PROVE  IInv'
<1> DEFINE o == Event(k, JobOf(n))
<1>1. /\ pc' = [pc EXCEPT ![n] = "verify"] /\ out' = [out EXCEPT ![n] = o]
      /\ targets' = [targets EXCEPT ![n] = FALSE]
      /\ UNCHANGED <<brokerVars, groupVars, redisVars, queue, cur, tries>>
      /\ UNCHANGED <<token, valid>>
  BY Zenon DEF Settle, Goto
<1>2. pc[n] \in Busy /\ "verify" \in Busy /\ "verify" \in Leased /\ pc[n] \in Leased
      /\ pc[n] \notin Leaving
  BY Zenon DEF Busy, Labels, Leased, Leaving
<1>3. /\ TaskT /\ HandOK(n) /\ JobOf(n) \in Records /\ tries[n] \in 0 .. Attempts
      /\ token[n] # 0 => JobOf(n).kind # "poison"
  BY Zenon, <1>2, NodeFacts
<1>4. token[n] # 0
  BY Zenon, <1>2, <1>3 DEF HandOK
<1>5. o \in Events
  <2>1. JobOf(n).key \in Key
    BY Zenon, <1>3, <1>4, RecordFacts
  <2>2. QED  BY Zenon, <1>3, <2>1, JobEvents
<1>6. /\ tries' = [tries EXCEPT ![n] = tries[n]]
      /\ out'[n] = o /\ pc'[n] = "verify" /\ cur' = cur /\ token' = token /\ log' = log
  BY Zenon, <1>1, <1>3 DEF TaskT, brokerVars
<1>7. JobOf(n)' = JobOf(n) => OutOK(n)' /\ DoneOK(n)'
  BY <1>4, <1>6 DEF OutOK, DoneOK, Committing, Event
<1> HIDE DEF o
<1>8. QED  BY Zenon, <1>1, <1>2, <1>3, <1>4, <1>5, <1>6, <1>7, TaskStep

LEMMA RunSteps ==
    ASSUME IInv, NEW n \in Node,
           RunMeasured(n) \/ RunInfrastructureFailure(n) \/ RunPermanentFailure(n)
    PROVE  IInv'
<1>1. CASE RunMeasured(n)
  BY Zenon, <1>1, SettleStep DEF RunMeasured
<1>2. CASE RunPermanentFailure(n)
  BY Zenon, <1>2, SettleStep DEF RunPermanentFailure
<1>3. CASE RunInfrastructureFailure(n)
  <2>1. pc[n] = "run" /\ Settle(n, settle_infrastructure_failure(JobOf(n)))
    BY Zenon, <1>3 DEF RunInfrastructureFailure
  <2>2. JobOf(n).attempt \in Nat
    <3>1. JobOf(n) \in Records
      <4>1. pc[n] \in Busy
        BY Zenon, <2>1 DEF Busy, Labels, Leased
      <4>2. QED  BY Zenon, <4>1, NodeFacts
    <3>2. JobOf(n).attempt \in Attempt
      BY Zenon, <3>1, RecordFacts
    <3>3. QED  BY <3>2, SettlementAssumption DEF Attempt
  <2>3. CASE JobOf(n).attempt >= MaxRetries
    BY Zenon, <2>1, <2>3, SettleStep DEF settle_infrastructure_failure
  <2>4. CASE ~(JobOf(n).attempt >= MaxRetries)
    <3>1. JobOf(n).attempt < MaxRetries
      BY <2>2, <2>4, SettlementAssumption
    <3>2. QED  BY Zenon, <2>1, <2>4, <3>1, SettleStep DEF settle_infrastructure_failure
  <2>5. QED  BY Zenon, <2>3, <2>4
<1>4. QED  BY Zenon, <1>1, <1>2, <1>3

LEMMA RunInvariantViolationStep ==
    ASSUME IInv, NEW n \in Node, RunInvariantViolation(n)
    PROVE  IInv'
<1>1. /\ pc[n] = "run" /\ pc' = [pc EXCEPT ![n] = "release"]
      /\ targets' = [targets EXCEPT ![n] = FALSE]
      /\ UNCHANGED <<brokerVars, groupVars, redisVars, queue, cur, tries, out>>
      /\ UNCHANGED <<token, valid>>
  BY Zenon DEF RunInvariantViolation, Goto
<1>2. pc[n] \in Busy /\ "release" \in Busy /\ "release" \in Leaving /\ "release" \in Leased
      /\ pc[n] \in Leased
  BY Zenon, <1>1 DEF Busy, Labels, Leased, Leaving
<1>3. TaskT /\ HandOK(n) /\ tries[n] \in 0 .. Attempts /\ out[n] \in Events \union {NoEvent}
  BY Zenon, <1>2, NodeFacts
<1>4. token[n] # 0
  BY Zenon, <1>1, <1>2, <1>3 DEF HandOK
<1>5. /\ tries' = [tries EXCEPT ![n] = tries[n]] /\ out' = [out EXCEPT ![n] = out[n]]
      /\ pc'[n] = "release"
  BY Zenon, <1>1, <1>3 DEF TaskT
<1>6. OutOK(n)' /\ DoneOK(n)'
  BY Zenon, <1>5 DEF OutOK, DoneOK, Committing
<1>7. QED  BY Zenon, <1>1, <1>2, <1>3, <1>4, <1>5, <1>6, TaskStep

(* The lease is given up: nothing is published any more.                   *)
LEMMA RetryLaterEffect ==
    ASSUME IInv, NEW n \in Node, pc[n] \in Leased, token[n] # 0, RetryLater(n),
           UNCHANGED <<groupVars, queue, cur, leaseVars>>
    PROVE  /\ Others(n) /\ Keeps(n) /\ GroupT' /\ TaskT'
           /\ BrokerT' /\ Grows => NodeOK(n)'
<1>1. /\ pc' = [pc EXCEPT ![n] = "release"]
      /\ out' = [out EXCEPT ![n] = NoEvent] /\ tries' = [tries EXCEPT ![n] = 0]
      /\ UNCHANGED <<token, valid, targets>>
  BY Zenon DEF RetryLater, Goto, leaseVars
<1>2. pc[n] \in Busy /\ "release" \in Busy /\ "release" \in Leaving /\ "release" \in Leased
  BY Zenon DEF Busy, Labels, Leased, Leaving
<1>3. /\ TaskT /\ HandOK(n) /\ 0 \in 0 .. Attempts /\ NoEvent \in Events \union {NoEvent}
      /\ targets[n] \in BOOLEAN
  BY Zenon, <1>2, NodeFacts
<1>4. targets' = [targets EXCEPT ![n] = targets[n]] /\ pc'[n] = "release" /\ token' = token
  BY Zenon, <1>1, <1>3 DEF TaskT
<1>5. OutOK(n)' /\ DoneOK(n)'
  BY Zenon, <1>4 DEF OutOK, DoneOK, Committing
<1>6. /\ Others(n) /\ Keeps(n) /\ GroupT' /\ TaskT'
      /\ BrokerT' /\ Grows => HandOK(n)' /\ ChainOK(n)'
  BY Zenon, <1>1, <1>2, <1>3, <1>4, TaskEffect
<1>7. QED  BY Zenon, <1>5, <1>6 DEF NodeOK

LEMMA RetryLaterStep ==
    ASSUME IInv, NEW n \in Node, pc[n] \in Leased, token[n] # 0, RetryLater(n),
           UNCHANGED <<brokerVars, groupVars, redisVars, queue, cur, leaseVars>>
    PROVE  IInv'
<1>1. BrokerT' /\ Grows
  BY DEF IInv, BrokerT, Grows, brokerVars, redisVars
<1>2. QED  BY Zenon, <1>1, RetryLaterEffect, QuietStep

LEMMA VerifySteps ==
    ASSUME IInv, NEW n \in Node, VerifyLease(n) \/ VerifyFails(n)
    PROVE  IInv'
<1>1. /\ pc[n] = "verify"
      /\ UNCHANGED <<brokerVars, groupVars, redisVars, queue, cur, leaseVars>>
      /\ RetryLater(n) \/ (Goto(n, "send") /\ UNCHANGED <<out, tries>>)
  BY Zenon DEF VerifyLease, VerifyFails
<1>2. pc[n] \in Busy /\ "send" \in Busy /\ pc[n] \in Leased /\ "send" \in Leased
      /\ pc[n] \notin Leaving
  BY Zenon, <1>1 DEF Busy, Labels, Leased, Leaving
<1>3. /\ TaskT /\ HandOK(n) /\ OutOK(n) /\ tries[n] \in 0 .. Attempts
      /\ out[n] \in Events \union {NoEvent} /\ targets[n] \in BOOLEAN
  BY Zenon, <1>2, NodeFacts
<1>4. token[n] # 0
  BY Zenon, <1>1, <1>2, <1>3 DEF HandOK
<1>5. CASE RetryLater(n)
  BY Zenon, <1>1, <1>2, <1>4, <1>5, RetryLaterStep
<1>6. CASE Goto(n, "send") /\ UNCHANGED <<out, tries>>
  <2>1. /\ pc' = [pc EXCEPT ![n] = "send"] /\ out' = [out EXCEPT ![n] = out[n]]
        /\ tries' = [tries EXCEPT ![n] = tries[n]]
        /\ targets' = [targets EXCEPT ![n] = targets[n]]
        /\ UNCHANGED <<brokerVars, groupVars, redisVars, queue, cur>>
        /\ UNCHANGED <<token, valid>>
    BY Zenon, <1>1, <1>3, <1>6 DEF TaskT, Goto, leaseVars
  <2>2. pc'[n] = "send" /\ out'[n] = out[n] /\ token' = token
    BY Zenon, <1>3, <2>1 DEF TaskT
  <2>3. JobOf(n)' = JobOf(n) => OutOK(n)' /\ DoneOK(n)'
    BY Zenon, <1>1, <1>3, <1>4, <2>2 DEF OutOK, DoneOK, Committing
  <2>4. QED  BY Zenon, <1>2, <1>3, <1>4, <2>1, <2>2, <2>3, TaskStep
<1>7. QED  BY Zenon, <1>1, <1>5, <1>6

LEMMA CompleteOkStep ==
    ASSUME IInv, NEW n \in Node, CompleteOk(n)
    PROVE  IInv'
<1>1. /\ pc[n] = "completed" /\ pc' = [pc EXCEPT ![n] = "commit"]
      /\ token' = [token EXCEPT ![n] = 0] /\ valid' = [valid EXCEPT ![n] = FALSE]
      /\ out' = [out EXCEPT ![n] = NoEvent] /\ tries' = [tries EXCEPT ![n] = 0]
      /\ UNCHANGED <<brokerVars, groupVars, redisVars, queue, cur>>
      /\ targets' = targets
  BY Zenon DEF CompleteOk, Goto
<1>2. pc[n] \in Busy /\ "commit" \in Busy /\ "commit" \notin Leased
  BY Zenon, <1>1 DEF Busy, Labels, Leased, Committing, Leaving
<1>3. /\ TaskT /\ DoneOK(n) /\ 0 \in 0 .. Attempts /\ NoEvent \in Events \union {NoEvent}
      /\ targets[n] \in BOOLEAN
  BY Zenon, <1>2, NodeFacts
<1>4. /\ targets' = [targets EXCEPT ![n] = targets[n]] /\ pc'[n] = "commit" /\ token'[n] = 0
      /\ cur' = cur /\ log' = log /\ outputs' = outputs /\ recorded' = recorded
  BY Zenon, <1>1, <1>3 DEF TaskT, brokerVars, redisVars
<1>5. Settled(cur[n].offset + 1)
  BY Zenon, <1>1, <1>3 DEF DoneOK, Settled, ExecutionOf, JobOf
<1>6. Settled(cur[n].offset + 1)'
  BY Zenon, <1>4, <1>5 DEF Settled, PoisonEvent, Event
<1>7. OutOK(n)' /\ DoneOK(n)'
  BY Zenon, <1>4, <1>6 DEF OutOK, DoneOK, Committing
<1>8. QED  BY Zenon, <1>1, <1>2, <1>3, <1>4, <1>7, TaskStep

(* The process ends with Kafka and Redis as they are.                      *)
LEMMA QuietDownStep ==
    ASSUME IInv, NEW n \in Node, Down(n), UNCHANGED <<brokerVars, redisVars>>
    PROVE  IInv'
<1>1. BrokerT'
  BY Zenon DEF IInv, BrokerT, brokerVars
<1>2. QED  BY Zenon, <1>1, DownStep, QuietStep

(* Everything up to a settled record in hand is settled.                   *)
LEMMA PrefixIsSettled ==
    ASSUME IInv, NEW n \in Node, pc[n] \in Committing, AssignmentUnchanged(n)
    PROVE  \A i \in 1 .. cur[n].offset + 1 : Settled(i)
<1>1. pc[n] \in Busy /\ pc[n] \notin {"idle", "down"}
  BY Zenon DEF Busy, Labels, Committing
<1>2. /\ TaskT /\ GroupT /\ DoneOK(n) /\ ChainOK(n) /\ cur[n].offset \in Nat
      /\ position[n] \in Nat
  BY Zenon, <1>1, NodeFacts DEF IInv, GroupT
<1>3. InWork(n) /\ assigned[n] /\ cur[n].offset < position[n]
  BY Zenon, <1>1, <1>2 DEF InWork, AssignmentUnchanged, ChainOK
<1>4. ASSUME NEW i \in 1 .. cur[n].offset PROVE Settled(i)
  <2>1. i \in 1 .. position[n] /\ i # cur[n].offset + 1
    BY <1>2, <1>3
  <2>2. Settled(i) \/ Held(n, i)
    BY Zenon, <1>2, <1>3, <2>1 DEF ChainOK
  <2>3. ASSUME NEW j \in Waiting(n) PROVE queue[n][j].offset + 1 # i
    <3>1. cur[n].offset < queue[n][j].offset
      BY Zenon, <1>2, <1>3 DEF ChainOK
    <3>2. queue[n][j].offset \in Nat
      BY Zenon, <1>2, QueueFacts DEF Waiting
    <3>3. QED  BY <1>2, <3>1, <3>2
  <2>4. QED  BY Zenon, <2>1, <2>2, <2>3 DEF Held
<1>5. Settled(cur[n].offset + 1)
  BY Zenon, <1>2 DEF DoneOK
<1>6. \A i \in 1 .. cur[n].offset + 1 : i \in 1 .. cur[n].offset \/ i = cur[n].offset + 1
  BY <1>2
<1>7. QED  BY Zenon, <1>4, <1>5, <1>6

LEMMA BeginCommitStep ==
    ASSUME IInv, NEW n \in Node, BeginCommit(n)
    PROVE  IInv'
<1>1. /\ pc[n] = "commit" /\ UNCHANGED <<brokerVars, redisVars>>
      /\ Down(n) \/ (/\ AssignmentUnchanged(n) /\ Goto(n, "committing")
                     /\ UNCHANGED <<groupVars, queue, cur, leaseVars, out, tries>>)
  BY Zenon DEF BeginCommit
<1>2. CASE Down(n)
  BY Zenon, <1>1, <1>2, QuietDownStep
<1>3. CASE /\ AssignmentUnchanged(n) /\ Goto(n, "committing")
           /\ UNCHANGED <<groupVars, queue, cur, leaseVars, out, tries>>
  <2>1. pc[n] \in Busy /\ "committing" \in Busy /\ "committing" \notin Leased
        /\ pc[n] \in Committing /\ pc[n] \notin Leased
    BY Zenon, <1>1 DEF Busy, Labels, Leased, Committing, Leaving
  <2>2. /\ TaskT /\ HandOK(n) /\ DoneOK(n) /\ tries[n] \in 0 .. Attempts
        /\ out[n] \in Events \union {NoEvent} /\ targets[n] \in BOOLEAN
    BY Zenon, <2>1, NodeFacts
  <2>3. /\ pc' = [pc EXCEPT ![n] = "committing"] /\ out' = [out EXCEPT ![n] = out[n]]
        /\ tries' = [tries EXCEPT ![n] = tries[n]]
        /\ targets' = [targets EXCEPT ![n] = targets[n]]
        /\ UNCHANGED <<brokerVars, groupVars, redisVars, queue, cur>>
        /\ UNCHANGED <<token, valid>> /\ pc'[n] = "committing"
    BY Zenon, <1>1, <1>3, <2>2 DEF TaskT, Goto, leaseVars
  <2>4. /\ cur' = cur /\ log' = log /\ outputs' = outputs /\ recorded' = recorded
        /\ token' = token /\ token[n] = 0
    BY Zenon, <2>1, <2>2, <2>3 DEF brokerVars, redisVars, HandOK
  <2>5. \A i \in 1 .. cur[n].offset + 1 : Settled(i)
    BY Zenon, <1>3, <2>1, PrefixIsSettled
  <2>6. Settled(cur[n].offset + 1)'
    BY Zenon, <2>1, <2>2, <2>4 DEF DoneOK, Settled, PoisonEvent, Event
  <2>7. OutOK(n)' /\ DoneOK(n)'
    BY Zenon, <2>3, <2>6 DEF OutOK, DoneOK, Committing
  <2>8. QED  BY Zenon, <2>1, <2>2, <2>3, <2>4, <2>5, <2>7, TaskStep
<1>4. QED  BY Zenon, <1>1, <1>2, <1>3

LEMMA CommitOkStep ==
    ASSUME IInv, NEW n \in Node, CommitOk(n)
    PROVE  IInv'
<1>1. /\ pc[n] = "committed" /\ AssignmentUnchanged(n)
      /\ pc' = [pc EXCEPT ![n] = "idle"] /\ cur' = [cur EXCEPT ![n] = NoRecord]
      /\ UNCHANGED <<brokerVars, groupVars, redisVars>>
      /\ UNCHANGED <<queue, token, valid, targets, out, tries>>
  BY Zenon DEF CommitOk, Goto, leaseVars
<1>2. pc[n] \in Busy /\ pc[n] \in Committing /\ pc[n] \notin Leased
  BY Zenon, <1>1 DEF Busy, Labels, Committing, Leased, Leaving
<1>3. /\ TaskT /\ GroupT /\ HandOK(n) /\ DoneOK(n) /\ ChainOK(n)
  BY Zenon, <1>2, NodeFacts DEF IInv
<1>4. /\ pc'[n] = "idle" /\ cur'[n] = NoRecord /\ queue' = queue /\ token' = token
      /\ valid' = valid /\ assigned' = assigned /\ position' = position /\ log' = log
      /\ outputs' = outputs /\ recorded' = recorded /\ token[n] = 0 /\ ~valid[n]
  BY Zenon, <1>1, <1>2, <1>3 DEF TaskT, HandOK, brokerVars, groupVars, redisVars
<1>5. NoRecord \in Hand
  BY Zenon DEF NoRecord, Hand
<1>6. GroupT' /\ TaskT'
  BY Zenon, <1>1, <1>3, <1>5 DEF GroupT, groupVars, TaskT, Labels
<1>7. Others(n) /\ Keeps(n)
  BY Zenon, <1>1, <1>3, <1>4 DEF Others, Same, Keeps, TaskT
<1>8. HandOK(n)'
  BY Zenon, <1>3, <1>4 DEF HandOK, Leased, Leaving
<1>9. OutOK(n)' /\ DoneOK(n)'
  BY Zenon, <1>4 DEF OutOK, DoneOK, Committing
<1>10. ChainOK(n)'
  <2>1. \A i : Settled(i)' <=> Settled(i)
    BY Zenon, <1>4 DEF Settled, PoisonEvent, Event
  <2>2. ~InWork(n)' /\ Waiting(n)' = Waiting(n)
    BY Zenon, <1>4 DEF InWork, Waiting
  <2>3. ASSUME assigned[n], NEW i \in 1 .. position[n] PROVE Settled(i) \/ Held(n, i)'
    <3>1. Settled(i) \/ Held(n, i)
      BY Zenon, <1>3, <2>3 DEF ChainOK
    <3>2. CASE i = cur[n].offset + 1
      BY Zenon, <1>2, <1>3, <3>2 DEF DoneOK
    <3>3. CASE i # cur[n].offset + 1
      BY Zenon, <1>4, <2>2, <3>1, <3>3 DEF Held
    <3>4. QED  BY Zenon, <3>2, <3>3
  <2>4. QED  BY Zenon, <1>3, <1>4, <2>1, <2>2, <2>3 DEF ChainOK
<1>11. QED
  BY Zenon, <1>1, <1>6, <1>7, <1>8, <1>9, <1>10, QuietStep DEF NodeOK

LEMMA RestartStep ==
    ASSUME IInv, NEW n \in Node, Restart(n)
    PROVE  IInv'
<1>1. /\ pc[n] = "down" /\ pc' = [pc EXCEPT ![n] = "idle"]
      /\ UNCHANGED <<brokerVars, groupVars, redisVars>>
      /\ UNCHANGED <<queue, cur, token, valid, targets, out, tries>>
  BY Zenon DEF Restart, Goto, leaseVars
<1>2. TaskT /\ GroupT /\ HandOK(n) /\ ChainOK(n)
  BY Zenon DEF IInv, NodeOK
<1>3. /\ pc'[n] = "idle" /\ cur' = cur /\ queue' = queue /\ token' = token
      /\ valid' = valid /\ assigned' = assigned /\ position' = position /\ log' = log
      /\ cur[n] = NoRecord /\ queue[n] = <<>> /\ ~assigned[n] /\ token[n] = 0 /\ ~valid[n]
  BY Zenon, <1>1, <1>2 DEF TaskT, HandOK, ChainOK, Leased, Leaving, brokerVars, groupVars
<1>4. GroupT' /\ TaskT'
  BY Zenon, <1>1, <1>2 DEF GroupT, groupVars, TaskT, Labels
<1>5. Others(n) /\ Keeps(n)
  BY Zenon, <1>1, <1>2, <1>3 DEF Others, Same, Keeps, TaskT
<1>6. HandOK(n)'
  BY Zenon, <1>2, <1>3 DEF HandOK, Leased, Leaving
<1>7. OutOK(n)' /\ DoneOK(n)'
  BY Zenon, <1>3 DEF OutOK, DoneOK, Committing
<1>8. ChainOK(n)'
  <2>1. Waiting(n)' = {} /\ ~InWork(n)'
    BY <1>3 DEF Waiting, InWork
  <2>2. QED  BY Zenon, <1>3, <2>1 DEF ChainOK
<1>9. QED  BY Zenon, <1>1, <1>4, <1>5, <1>6, <1>7, <1>8, QuietStep DEF NodeOK

LEMMA MissDeadlineStep ==
    ASSUME IInv, NEW n \in Node, MissDeadline(n)
    PROVE  IInv'
<1>1. /\ valid[n] /\ valid' = [valid EXCEPT ![n] = FALSE]
      /\ UNCHANGED <<brokerVars, groupVars, redisVars>>
      /\ UNCHANGED <<pc, queue, cur, token, targets, out, tries>>
  BY Zenon DEF MissDeadline
<1>2. TaskT /\ HandOK(n) /\ OutOK(n) /\ DoneOK(n) /\ ChainOK(n)
  BY Zenon DEF IInv, NodeOK
<1>3. token[n] # 0 /\ pc[n] \in Leased /\ pc[n] \in Busy
  BY Zenon, <1>1, <1>2 DEF HandOK, Leased, Leaving, Busy, Labels
<1>4. ~valid'[n] /\ TaskT'
  BY Zenon, <1>1, <1>2 DEF TaskT
<1>5. assigned' = assigned /\ position' = position /\ log' = log /\ outputs' = outputs
      /\ recorded' = recorded
  BY Zenon, <1>1 DEF groupVars, brokerVars, redisVars
<1>6. Others(n) /\ Keeps(n) /\ Stays(n) /\ Leases(n)
  BY Zenon, <1>1, <1>2, <1>3, <1>4, <1>5 DEF Others, Same, Keeps, Stays, Leases, HandOK, TaskT
<1>7. OutOK(n)' /\ DoneOK(n)'
  BY Zenon, <1>1, <1>2, <1>5 DEF OutOK, DoneOK, Delivered, Settled, JobOf, ExecutionOf, Event,
     PoisonEvent, RetryJob
<1>8. pc[n] \notin {"committing", "committed"}
  BY Zenon, <1>3 DEF Leased, Leaving
<1>9. QED  BY Zenon, <1>1, <1>3, <1>4, <1>6, <1>7, <1>8, WorkStep

-----------------------------------------------------------------------------
(* The commit.                                                             *)

(* The committed offset moves over records that are all settled.           *)
LEMMA CommitEffect ==
    ASSUME IInv, NEW n \in Node, pc[n] = "committing",
           committed' \in {committed, cur[n].offset + 1},
           UNCHANGED <<log, outputs, stray, redisVars>>
    PROVE  /\ BrokerT' /\ RedisT' /\ Grows /\ LeasesSurvive /\ LateHarmless
           /\ RecInv' /\ CommittedIsSettled'
<1>1. exec' = exec /\ recorded' = recorded /\ late' = late
  BY Zenon DEF redisVars
<1>2. RedisT' /\ LeasesSurvive /\ LateHarmless
  BY Zenon, <1>1 DEF IInv, RedisT, LeasesSurvive, LateHarmless
<1>3. pc[n] \in Busy
  BY Zenon DEF Busy, Labels, Committing
<1>4. BrokerT /\ ChainOK(n) /\ cur[n].offset \in Nat /\ Len(log) \in Nat
      /\ cur[n].offset < Len(log)
  BY Zenon, <1>3, NodeFacts
<1>5. BrokerT' /\ Grows
  BY <1>1, <1>4 DEF BrokerT, Grows
<1>6. RecInv'
  BY Zenon, <1>5, RecInvStays DEF IInv
<1>7. \A i : Settled(i)' <=> Settled(i)
  BY Zenon, <1>1 DEF Settled, PoisonEvent, Event
<1>8. \A i \in 1 .. cur[n].offset + 1 : Settled(i)
  BY Zenon, <1>4 DEF ChainOK
<1>9. CommittedIsSettled'
  <2>1. CASE committed' = committed
    BY Zenon, <1>7, <2>1 DEF IInv, CommittedIsSettled
  <2>2. CASE committed' = cur[n].offset + 1
    BY Zenon, <1>7, <1>8, <2>2 DEF CommittedIsSettled
  <2>3. QED  BY Zenon, <2>1, <2>2
<1>10. QED  BY Zenon, <1>2, <1>5, <1>6, <1>9

LEMMA BrokerCommitStep ==
    ASSUME IInv, NEW n \in Node, BrokerCommit(n)
    PROVE  IInv'
<1>1. pc[n] = "committing" /\ UNCHANGED <<log, outputs, stray, redisVars>>
  BY Zenon DEF BrokerCommit
<1>2. CASE Down(n) /\ UNCHANGED committed
  BY Zenon, <1>1, <1>2, QuietDownStep DEF brokerVars
<1>3. CASE /\ committed' = cur[n].offset + 1 /\ Goto(n, "committed")
           /\ UNCHANGED <<groupVars, queue, cur, leaseVars, out, tries>>
  <2>0. /\ BrokerT' /\ RedisT' /\ Grows /\ LeasesSurvive /\ LateHarmless
        /\ RecInv' /\ CommittedIsSettled'
    BY Zenon, <1>1, <1>3, CommitEffect
  <2>1. /\ pc[n] \in Busy /\ "committed" \in Busy /\ "committed" \notin Leased
        /\ pc[n] \in Committing /\ pc[n] \notin Leased
    BY Zenon, <1>1 DEF Busy, Labels, Leased, Committing, Leaving
  <2>2. /\ TaskT /\ HandOK(n) /\ DoneOK(n) /\ ChainOK(n) /\ tries[n] \in 0 .. Attempts
        /\ out[n] \in Events \union {NoEvent} /\ targets[n] \in BOOLEAN
    BY Zenon, <2>1, NodeFacts
  <2>3. /\ pc' = [pc EXCEPT ![n] = "committed"] /\ out' = [out EXCEPT ![n] = out[n]]
        /\ tries' = [tries EXCEPT ![n] = tries[n]]
        /\ targets' = [targets EXCEPT ![n] = targets[n]]
        /\ UNCHANGED <<groupVars, queue, cur>>
        /\ UNCHANGED <<token, valid>> /\ pc'[n] = "committed"
    BY Zenon, <1>3, <2>2 DEF TaskT, Goto, leaseVars
  <2>4. cur' = cur /\ recorded' = recorded /\ token' = token /\ token[n] = 0
    BY Zenon, <1>1, <2>1, <2>2, <2>3 DEF redisVars, HandOK
  <2>5. \A i \in 1 .. cur[n].offset + 1 : Settled(i)
    BY Zenon, <1>1, <2>2 DEF ChainOK
  <2>6. Settled(cur[n].offset + 1)'
    BY Zenon, <1>1, <2>1, <2>2, <2>4 DEF DoneOK, Settled, PoisonEvent, Event
  <2>7. OutOK(n)' /\ DoneOK(n)'
    BY Zenon, <2>3, <2>6 DEF OutOK, DoneOK, Committing
  <2>8. Others(n) /\ Keeps(n) /\ GroupT' /\ TaskT' /\ HandOK(n)' /\ ChainOK(n)'
    BY Zenon, <2>0, <2>1, <2>2, <2>3, <2>4, <2>5, TaskEffect
  <2>9. QED  BY Zenon, <2>0, <2>7, <2>8, NodeStep DEF NodeOK
<1>4. QED  BY Zenon, <1>2, <1>3 DEF BrokerCommit

LEMMA CommitFailsStep ==
    ASSUME IInv, NEW n \in Node, CommitFails(n)
    PROVE  IInv'
<1>1. /\ pc[n] = "committing" /\ Down(n) /\ UNCHANGED <<log, outputs, stray, redisVars>>
      /\ committed' \in {committed, cur[n].offset + 1}
  BY Zenon DEF CommitFails
<1>2. /\ BrokerT' /\ RedisT' /\ Grows /\ LeasesSurvive /\ LateHarmless
      /\ RecInv' /\ CommittedIsSettled'
  BY Zenon, <1>1, CommitEffect
<1>3. QED  BY Zenon, <1>1, <1>2, DownStep, NodeStep

-----------------------------------------------------------------------------
(* Publication.                                                            *)

LEMMA OutIsEvent ==
    ASSUME IInv, NEW n \in Node, pc[n] = "send"
    PROVE  out[n] \in Events
<1>1. pc[n] \in Busy
  BY Zenon DEF Busy, Labels, Leased
<1>2. OutOK(n) /\ out[n] \in Events \union {NoEvent} /\ cur[n].offset \in Nat
  BY Zenon, <1>1, NodeFacts
<1>3. PoisonEvent(cur[n].offset) \in Events
  BY Zenon, <1>2 DEF PoisonEvent, Events
<1>4. out[n].kind \in {"result", "retry", "dlq"} => out[n] # NoEvent
  BY DEF NoEvent
<1>5. QED  BY Zenon, <1>2, <1>3, <1>4 DEF OutOK

LEMMA PublishStep ==
    ASSUME IInv, NEW n \in Node, Publish(n)
    PROVE  IInv'
<1>1. /\ pc[n] = "send" /\ Deliver(out[n]) /\ stray' = stray
      /\ tries' = [tries EXCEPT ![n] = 0]
      /\ UNCHANGED <<groupVars, queue, cur>> /\ UNCHANGED <<token, valid>>
      /\ UNCHANGED redisVars /\ targets' = targets /\ recorded' = recorded
  BY Zenon DEF Publish, leaseVars, redisVars
<1>2. /\ pc[n] \in Busy /\ "commit" \in Busy /\ "complete" \in Busy /\ "complete" \in Leased
      /\ "commit" \notin Leased /\ pc[n] \notin Leaving
  BY Zenon, <1>1 DEF Busy, Labels, Leased, Committing, Leaving
<1>3. /\ BrokerT /\ TaskT /\ HandOK(n) /\ OutOK(n) /\ 0 \in 0 .. Attempts
      /\ NoEvent \in Events \union {NoEvent} /\ targets[n] \in BOOLEAN
      /\ cur[n].offset \in Nat
  BY Zenon, <1>2, NodeFacts
<1>4. PICK e \in Events : e = out[n]
  BY Zenon, <1>1, OutIsEvent
<1>5. BrokerT' /\ Grows /\ Delivered(e)' /\ committed' = committed
  BY Zenon, <1>1, <1>3, <1>4, DeliverEffect
<1>6. targets' = [targets EXCEPT ![n] = targets[n]] /\ token' = token /\ cur' = cur
  BY Zenon, <1>1, <1>3 DEF TaskT
<1>7. CASE token[n] = 0
  <2>1. pc' = [pc EXCEPT ![n] = "commit"] /\ out' = [out EXCEPT ![n] = NoEvent]
    BY Zenon, <1>7 DEF Publish, Goto
  <2>2. /\ Others(n) /\ Keeps(n) /\ GroupT' /\ TaskT' /\ HandOK(n)' /\ ChainOK(n)'
        /\ pc'[n] = "commit" /\ JobOf(n)' = JobOf(n)
    BY Zenon, <1>1, <1>2, <1>3, <1>5, <1>6, <1>7, <2>1, TaskEffect
  <2>3. e.kind # "retry" /\ e \in outputs'
    <3>1. e.kind \in {"poison", "dlq"}
      BY <1>1, <1>3, <1>4, <1>7 DEF OutOK, PoisonEvent, Event
    <3>2. QED  BY Zenon, <1>5, <3>1 DEF Delivered
  <2>4. Settled(cur[n].offset + 1)'
    <3>1. (cur'[n].offset + 1) - 1 = cur[n].offset
      BY <1>3, <1>6
    <3>2. \/ JobOf(n)'.kind = "poison" /\ e = PoisonEvent(cur[n].offset)
          \/ e = Event("dlq", JobOf(n)')
      BY Zenon, <1>1, <1>3, <1>4, <1>7, <2>2 DEF OutOK
    <3>3. QED  BY Zenon, <2>3, <3>1, <3>2 DEF Settled, JobOf, Event, PoisonEvent
  <2>5. OutOK(n)' /\ DoneOK(n)'
    BY Zenon, <2>2, <2>4 DEF OutOK, DoneOK, Committing
  <2>6. QED  BY Zenon, <1>1, <1>5, <2>2, <2>5, SendStep DEF NodeOK
<1>8. CASE token[n] # 0
  <2>1. pc' = [pc EXCEPT ![n] = "complete"] /\ out' = [out EXCEPT ![n] = e]
    BY Zenon, <1>3, <1>4, <1>8 DEF Publish, Goto, TaskT
  <2>2. /\ Others(n) /\ Keeps(n) /\ GroupT' /\ TaskT' /\ HandOK(n)' /\ ChainOK(n)'
        /\ pc'[n] = "complete" /\ out'[n] = e /\ JobOf(n)' = JobOf(n)
    BY Zenon, <1>1, <1>2, <1>3, <1>5, <1>6, <1>8, <2>1, TaskEffect
  <2>3. OutOK(n)' /\ DoneOK(n)'
    BY Zenon, <1>1, <1>3, <1>4, <1>5, <1>8, <2>2 DEF OutOK, DoneOK, Committing
  <2>4. QED  BY Zenon, <1>1, <1>5, <2>2, <2>3, SendStep DEF NodeOK
<1>9. QED  BY Zenon, <1>7, <1>8
=============================================================================
