------------------------ MODULE JobSettlementProofs ------------------------
(***************************************************************************)
(* The safety of job settlement, for any number of nodes, jobs, retries,   *)
(* faults, rebalances and delayed requests.                                *)
(***************************************************************************)
EXTENDS JobSettlementLemmas

-----------------------------------------------------------------------------
(* The calls to Redis and the requests in flight.                          *)

(* An event about a job is determined by its kind.                         *)
LEMMA EventIs ==
    ASSUME NEW x \in Events, x.kind # "poison"
    PROVE  x = [kind |-> x.kind, key |-> x.key, attempt |-> x.attempt]
BY Zenon DEF Events

LEMMA CompleteIsBacked ==
    ASSUME IInv, NEW n \in Node, pc[n] = "complete"
    PROVE  /\ OutcomeOf(out[n]) \in Terminal
           /\ Backed(ExecutionOf(n), OutcomeOf(out[n]))
<1>1. pc[n] \in Busy /\ pc[n] \in Leased
  BY Zenon DEF Busy, Labels, Leased
<1>2. BrokerT /\ HandOK(n) /\ OutOK(n) /\ out[n] \in Events \union {NoEvent}
  BY Zenon, <1>1, NodeFacts
<1>3. token[n] # 0
  BY Zenon, <1>1, <1>2 DEF HandOK
<1>4. PICK x : x = out[n]
  BY Zenon
<1>5. /\ x.kind \in {"result", "retry", "dlq"}
      /\ x.key = ExecutionOf(n)[1] /\ x.attempt = ExecutionOf(n)[2] /\ Delivered(x)
  BY Zenon, <1>2, <1>3, <1>4 DEF OutOK, ExecutionOf
<1>6. x \in Events
  BY <1>2, <1>4, <1>5 DEF NoEvent
<1>7. /\ OutcomeOf(x) \in Terminal
      /\ x.kind = "result" => OutcomeOf(x) = "completed"
      /\ x.kind = "retry" => OutcomeOf(x) = "retry_published"
      /\ x.kind = "dlq" => OutcomeOf(x) = "dlq_published"
  BY <1>5, OutcomeFacts
<1> DEFINE job == [kind |-> "job", key |-> ExecutionOf(n)[1], attempt |-> ExecutionOf(n)[2]]
<1>8. CASE x.kind = "retry"
  <2>1. RetryJob(job) = RetryJob(x)
    BY Zenon, <1>5 DEF RetryJob
  <2>2. DOMAIN log = 1 .. Len(log)
    BY <1>2 DEF BrokerT
  <2>3. \E i \in DOMAIN log : log[i] = RetryJob(job)
    BY Zenon, <1>5, <1>8, <2>1, <2>2 DEF Delivered
  <2>4. QED  BY Zenon, <1>4, <1>7, <1>8, <2>3 DEF Backed
<1>9. CASE x.kind \in {"result", "dlq"}
  <2>1. x = Event(x.kind, job)
    BY Zenon, <1>5, <1>6, <1>9, EventIs DEF Event
  <2>2. x \in outputs
    BY Zenon, <1>5, <1>9 DEF Delivered
  <2>3. QED  BY Zenon, <1>4, <1>7, <1>9, <2>1, <2>2 DEF Backed
<1>10. QED  BY Zenon, <1>5, <1>8, <1>9

(* What n asks of Redis cannot take the lease of another node.             *)
Mine(r, n) ==
    \/ r.op = "claim" /\ \A m \in Node : token[m] # r.token
    \/ r.op = "complete"
    \/ r.op = "release" /\ r.token = token[n] /\ pc[n] \in Leaving

(* The token of a claim is in no use.                                      *)
FreshOK ==
    /\ FreshToken \in Nat \ {0}
    /\ \A n \in Node : token[n] # FreshToken
    /\ \A r \in late : r.token # FreshToken

LEMMA ClaimRequestFacts ==
    ASSUME IInv, FreshOK, NEW n \in Node, pc[n] = "process", ~Refused(n)
    PROVE  LET r == Request(n, "claim", FreshToken, "none") IN
           r \in Requests /\ Sound(r) /\ Mine(r, n) /\ ExecutionOf(n) \in Execution
<1>1. pc[n] \in Busy
  BY Zenon DEF Busy, Labels
<1>2. ExecutionOf(n) \in Execution
  BY Zenon, <1>1, NodeFacts DEF Refused
<1>3. FreshToken \in Nat \ {0} /\ \A m \in Node : token[m] # FreshToken
  BY Zenon DEF FreshOK
<1>4. QED  BY Zenon, <1>2, <1>3 DEF Request, Requests, Sound, Mine

LEMMA PendingFacts ==
    ASSUME IInv, FreshOK, NEW n \in Node,
           pc[n] \in {"complete", "release"} \/ (pc[n] = "process" /\ ~Refused(n))
    PROVE  LET r == PendingRequest(n) IN r \in Requests /\ Sound(r) /\ Mine(r, n)
<1>1. CASE pc[n] = "process" /\ ~Refused(n)
  BY Zenon, <1>1, ClaimRequestFacts DEF PendingRequest
<1>2. CASE pc[n] \in {"complete", "release"}
  <2>1. pc[n] \in Busy /\ pc[n] \in Leased \ {"send"} /\ (pc[n] = "release" => pc[n] \in Leaving)
    BY Zenon, <1>2 DEF Busy, Labels, Leased, Leaving
  <2>2. HandOK(n) /\ token[n] \in Nat
    BY Zenon, <2>1, NodeFacts
  <2>3. token[n] \in Nat \ {0} /\ ExecutionOf(n) \in Execution
    BY Zenon, <2>1, <2>2, NodeFacts DEF HandOK
  <2>4. CASE pc[n] = "release"
    BY Zenon, <2>1, <2>3, <2>4 DEF PendingRequest, Request, Requests, Sound, Mine
  <2>5. CASE pc[n] = "complete"
    <3>1. OutcomeOf(out[n]) \in Terminal /\ Backed(ExecutionOf(n), OutcomeOf(out[n]))
      BY Zenon, <2>5, CompleteIsBacked
    <3>2. PendingRequest(n) = Request(n, "complete", token[n], OutcomeOf(out[n]))
      BY Zenon, <2>5 DEF PendingRequest
    <3>3. QED  BY <2>3, <3>1, <3>2 DEF Request, Requests, Sound, Mine
  <2>6. QED  BY Zenon, <1>2, <2>4, <2>5
<1>3. QED  BY Zenon, <1>1, <1>2

(* A step of n with a request of its own.                                  *)
LEMMA OwnCallStep ==
    ASSUME IInv, NEW n \in Node, Others(n), Keeps(n), UNCHANGED brokerVars,
           NEW r \in Requests, Sound(r), Mine(r, n), Called(r), GroupT', TaskT',
           BrokerT' /\ Grows => NodeOK(n)'
    PROVE  IInv'
<1>1. BrokerT' /\ UNCHANGED <<log, outputs>>
  BY Zenon DEF IInv, BrokerT, brokerVars
<1>2. Grows
  BY Zenon, <1>1, CallEffect DEF IInv
<1>3. ASSUME NEW m \in Node PROVE Harmless(r, m)'
  <2>1. r.token \in Nat \ {0}
    BY Zenon DEF Requests
  <2>2. token'[m] \in {0, token[m]} /\ (m # n => pc'[m] = pc[m])
    BY Zenon DEF Others, Same, Keeps
  <2>3. CASE r.op = "claim"
    BY Zenon, <2>1, <2>2, <2>3 DEF Mine, Harmless
  <2>4. CASE r.op = "complete"
    BY Zenon, <2>4 DEF Harmless
  <2>5. CASE r.op = "release"
    <3>1. r.token = token[n] /\ pc[n] \in Leaving
      BY Zenon, <2>5 DEF Mine
    <3>2. token'[m] = r.token => m = n
      BY Zenon, <2>1, <2>2, <3>1 DEF IInv, LeaseInv
    <3>3. token'[n] # 0 => pc'[n] \in Leaving
      BY Zenon, <3>1 DEF Keeps
    <3>4. QED  BY Zenon, <2>1, <2>5, <3>2, <3>3 DEF Harmless
  <2>6. QED  BY Zenon, <2>3, <2>4, <2>5 DEF Mine
<1>4. QED  BY Zenon, <1>1, <1>2, <1>3, CallStep

(* A step of n that gives up what it waits for.                            *)
LEMMA AbandonStep ==
    ASSUME IInv, FreshOK, NEW n \in Node, AbandonRequest(n), Others(n), Keeps(n), GroupT', TaskT',
           BrokerT' /\ Grows => NodeOK(n)'
    PROVE  IInv'
<1>0. BrokerT
  BY Zenon DEF IInv
<1>1. CASE UNCHANGED <<brokerVars, redisVars>>
  <2>1. BrokerT' /\ Grows
    BY <1>0, <1>1 DEF BrokerT, Grows, brokerVars, redisVars
  <2>2. QED  BY Zenon, <1>1, <2>1, QuietStep
<1>2. CASE pc[n] = "send" /\ Deliver(out[n]) /\ UNCHANGED <<stray, redisVars>>
  <2>1. PICK e \in Events : e = out[n]
    BY Zenon, <1>2, OutIsEvent
  <2>2. stray' \subseteq stray \union {e} /\ recorded \subseteq recorded'
    BY Zenon, <1>2 DEF redisVars
  <2>3. BrokerT' /\ Grows /\ committed' = committed
    BY Zenon, <1>0, <1>2, <2>1, <2>2, DeliverEffect
  <2>4. QED  BY Zenon, <1>2, <2>3, SendStep
<1>3. CASE /\ pc[n] = "send" /\ stray' = stray \union {out[n]}
           /\ UNCHANGED <<log, committed, outputs, redisVars>>
  <2>1. out[n] \in Events
    BY Zenon, <1>3, OutIsEvent
  <2>2. BrokerT' /\ Grows /\ committed' = committed
    BY <1>0, <1>3, <2>1 DEF BrokerT, Grows, redisVars
  <2>3. QED  BY Zenon, <1>3, <2>2, SendStep
<1>4. CASE /\ pc[n] \in {"complete", "release"} \/ (pc[n] = "process" /\ ~Refused(n))
           /\ UNCHANGED brokerVars
           /\ \/ Execute(PendingRequest(n)) /\ UNCHANGED late
              \/ Delay(PendingRequest(n))
  <2>1. PICK r \in Requests : r = PendingRequest(n) /\ Sound(r) /\ Mine(r, n)
    BY Zenon, <1>4, PendingFacts
  <2>2. Called(r)
    BY Zenon, <1>4, <2>1 DEF Called
  <2>3. QED  BY Zenon, <1>4, <2>1, <2>2, OwnCallStep
<1>5. QED  BY Zenon, <1>1, <1>2, <1>3, <1>4 DEF AbandonRequest

LEMMA CrashStep ==
    ASSUME IInv, FreshOK, NEW n \in Node, Crash(n)
    PROVE  IInv'
<1>1. AbandonRequest(n) /\ Down(n)
  BY Zenon DEF Crash
<1>2. QED  BY Zenon, <1>1, DownStep, AbandonStep

LEMMA LeaseLostStep ==
    ASSUME IInv, FreshOK, NEW n \in Node, LeaseLost(n)
    PROVE  IInv'
<1>1. /\ AbandonRequest(n) /\ RetryLater(n) /\ token[n] # 0 /\ pc[n] \in Leased
      /\ UNCHANGED <<groupVars, queue, cur, leaseVars>>
  BY Zenon DEF LeaseLost, Leased
<1>2. QED  BY Zenon, <1>1, RetryLaterEffect, AbandonStep

LEMMA PublishFailsStep ==
    ASSUME IInv, FreshOK, NEW n \in Node, PublishFails(n)
    PROVE  IInv'
<1>1. pc[n] = "send" /\ AbandonRequest(n)
  BY Zenon DEF PublishFails
<1>2. /\ pc[n] \in Busy /\ pc[n] \in Leased /\ "verify" \in Busy /\ "verify" \in Leased
      /\ pc[n] \notin Leaving
  BY Zenon, <1>1 DEF Busy, Labels, Leased, Leaving
<1>3. /\ BrokerT /\ TaskT /\ HandOK(n) /\ OutOK(n) /\ tries[n] \in 0 .. Attempts
      /\ out[n] \in Events \union {NoEvent} /\ targets[n] \in BOOLEAN
  BY Zenon, <1>2, NodeFacts
<1>4. CASE /\ tries[n] + 1 < Attempts
           /\ tries' = [tries EXCEPT ![n] = @ + 1]
           /\ Goto(n, IF token[n] = 0 THEN "send" ELSE "verify")
           /\ UNCHANGED <<groupVars, queue, cur, leaseVars, out>>
  <2> DEFINE l == IF token[n] = 0 THEN "send" ELSE "verify"
             k == tries[n] + 1
  <2>1. k \in 0 .. Attempts
    BY <1>3, <1>4, SettlementAssumption
  <2>2. /\ pc' = [pc EXCEPT ![n] = l] /\ tries' = [tries EXCEPT ![n] = k]
        /\ out' = [out EXCEPT ![n] = out[n]]
        /\ targets' = [targets EXCEPT ![n] = targets[n]]
        /\ UNCHANGED <<groupVars, queue, cur>> /\ UNCHANGED <<token, valid>>
        /\ token' = token
    BY Zenon, <1>3, <1>4 DEF TaskT, Goto, leaseVars
  <2>3. /\ l \in Busy /\ l \in Leased /\ l \in {"send", "verify"}
        /\ l \in Leased \ {"send"} => token'[n] # 0
    BY Zenon, <1>1, <1>2, <2>2
  <2> HIDE DEF k
  <2>4. /\ Others(n) /\ Keeps(n) /\ GroupT' /\ TaskT'
        /\ pc'[n] = l /\ out'[n] = out[n] /\ cur'[n] = cur[n]
        /\ BrokerT' /\ Grows => HandOK(n)' /\ ChainOK(n)' /\ JobOf(n)' = JobOf(n)
    <3> HIDE DEF l
    <3>1. QED  BY Zenon, <1>2, <1>3, <2>1, <2>2, <2>3, TaskEffect
  <2>5. ASSUME BrokerT', Grows PROVE NodeOK(n)'
    <3>1. HandOK(n)' /\ ChainOK(n)' /\ JobOf(n)' = JobOf(n)
      BY Zenon, <2>4, <2>5
    <3>2. OutOK(n)' /\ DoneOK(n)'
      BY <1>1, <1>3, <2>2, <2>4, <3>1 DEF OutOK, DoneOK, Committing, PoisonEvent, Event
    <3>3. QED  BY Zenon, <3>1, <3>2 DEF NodeOK
  <2>6. QED  BY Zenon, <1>1, <2>4, <2>5, AbandonStep
<1>5. CASE /\ token[n] # 0 /\ RetryLater(n)
           /\ UNCHANGED <<groupVars, queue, cur, leaseVars>>
  BY Zenon, <1>1, <1>2, <1>5, RetryLaterEffect, AbandonStep
<1>6. CASE Down(n)
  BY Zenon, <1>1, <1>6, DownStep, AbandonStep
<1>7. QED  BY Zenon, <1>4, <1>5, <1>6 DEF PublishFails

LEMMA ClaimFailsStep ==
    ASSUME IInv, FreshOK, NEW n \in Node, ClaimFails(n)
    PROVE  IInv'
<1>1. /\ pc[n] = "process" /\ ~Refused(n) /\ Down(n) /\ UNCHANGED brokerVars
      /\ CallFails(Request(n, "claim", FreshToken, "none"))
  BY Zenon DEF ClaimFails
<1>2. PICK r \in Requests : /\ r = Request(n, "claim", FreshToken, "none")
                            /\ Sound(r) /\ Mine(r, n)
  BY Zenon, <1>1, ClaimRequestFacts
<1>3. Called(r)
  BY Zenon, <1>1, <1>2 DEF CallFails, Called
<1>4. QED  BY Zenon, <1>1, <1>2, <1>3, DownStep, OwnCallStep

(* A successful completion has recorded an outcome.                        *)
LEMMA CompleteRecords ==
    ASSUME IInv, NEW n \in Node, pc[n] = "complete", Execute(PendingRequest(n)),
           complete(exec[ExecutionOf(n)], token[n], OutcomeOf(out[n])).code = "ok"
    PROVE  \E o \in Terminal : <<ExecutionOf(n), o>> \in recorded'
<1>1. OutcomeOf(out[n]) \in Terminal
  BY Zenon, CompleteIsBacked
<1>2. PendingRequest(n) = Request(n, "complete", token[n], OutcomeOf(out[n]))
  BY Zenon DEF PendingRequest
<1>3. PICK r : r = PendingRequest(n)
  BY Zenon
<1>4. /\ r.op = "complete" /\ r.execution = ExecutionOf(n) /\ r.token = token[n]
      /\ r.outcome = OutcomeOf(out[n])
  BY <1>2, <1>3 DEF Request
<1>5. recorded' = recorded \union {<<r.execution, r.outcome>>}
  BY Zenon, <1>3, <1>4 DEF Execute
<1>6. QED  BY Zenon, <1>1, <1>4, <1>5

LEMMA CompleteStep ==
    ASSUME IInv, FreshOK, NEW n \in Node, Complete(n)
    PROVE  IInv'
<1>1. /\ pc[n] = "complete" /\ Execute(PendingRequest(n)) /\ late' = late
      /\ UNCHANGED <<groupVars, queue, cur, leaseVars>> /\ UNCHANGED brokerVars
      /\ \/ /\ complete(exec[ExecutionOf(n)], token[n], OutcomeOf(out[n])).code = "ok"
            /\ Goto(n, "completed") /\ UNCHANGED <<out, tries>>
         \/ RetryLater(n)
  BY Zenon DEF Complete
<1>2. /\ pc[n] \in Busy /\ pc[n] \in Leased \ {"send"} /\ "completed" \in Busy
      /\ "completed" \in Leased /\ pc[n] \notin Leaving
  BY Zenon, <1>1 DEF Busy, Labels, Leased, Leaving
<1>3. /\ TaskT /\ HandOK(n) /\ tries[n] \in 0 .. Attempts
      /\ out[n] \in Events \union {NoEvent} /\ targets[n] \in BOOLEAN
  BY Zenon, <1>2, NodeFacts
<1>4. token[n] # 0
  BY Zenon, <1>2, <1>3 DEF HandOK
<1>5. PICK r \in Requests : r = PendingRequest(n) /\ Sound(r) /\ Mine(r, n)
  BY Zenon, <1>1, PendingFacts
<1>6. Called(r)
  BY Zenon, <1>1, <1>5 DEF Called
<1>7. CASE RetryLater(n)
  BY Zenon, <1>1, <1>2, <1>4, <1>5, <1>6, <1>7, RetryLaterEffect, OwnCallStep
<1>8. CASE /\ complete(exec[ExecutionOf(n)], token[n], OutcomeOf(out[n])).code = "ok"
           /\ Goto(n, "completed") /\ UNCHANGED <<out, tries>>
  <2>1. PICK e : e = ExecutionOf(n)
    BY Zenon
  <2>2. \E o \in Terminal : <<e, o>> \in recorded'
    BY Zenon, <1>1, <1>8, <2>1, CompleteRecords
  <2>3. /\ pc' = [pc EXCEPT ![n] = "completed"] /\ out' = [out EXCEPT ![n] = out[n]]
        /\ tries' = [tries EXCEPT ![n] = tries[n]]
        /\ targets' = [targets EXCEPT ![n] = targets[n]]
        /\ UNCHANGED <<groupVars, queue, cur>> /\ UNCHANGED <<token, valid>>
        /\ token' = token
    BY Zenon, <1>1, <1>3, <1>8 DEF TaskT, Goto, leaseVars
  <2>4. /\ Others(n) /\ Keeps(n) /\ GroupT' /\ TaskT' /\ pc'[n] = "completed"
        /\ BrokerT' /\ Grows => HandOK(n)' /\ ChainOK(n)' /\ ExecutionOf(n)' = ExecutionOf(n)
    BY Zenon, <1>2, <1>3, <1>4, <2>3, TaskEffect
  <2>5. ASSUME BrokerT', Grows PROVE NodeOK(n)'
    <3>1. HandOK(n)' /\ ChainOK(n)' /\ ExecutionOf(n)' = e
      BY Zenon, <2>1, <2>4, <2>5
    <3>2. OutOK(n)' /\ DoneOK(n)'
      BY Zenon, <2>2, <2>4, <3>1 DEF OutOK, DoneOK, Committing
    <3>3. QED  BY Zenon, <3>1, <3>2 DEF NodeOK
  <2>6. QED  BY Zenon, <1>1, <1>5, <1>6, <2>4, <2>5, OwnCallStep
<1>9. QED  BY Zenon, <1>1, <1>7, <1>8

LEMMA CompleteFailsStep ==
    ASSUME IInv, FreshOK, NEW n \in Node, CompleteFails(n)
    PROVE  IInv'
<1>1. /\ pc[n] = "complete" /\ CallFails(PendingRequest(n))
      /\ UNCHANGED <<groupVars, queue, cur, leaseVars>> /\ UNCHANGED brokerVars
      /\ \/ /\ tries[n] + 1 < Attempts
            /\ tries' = [tries EXCEPT ![n] = @ + 1] /\ UNCHANGED <<pc, out>>
         \/ RetryLater(n)
  BY Zenon DEF CompleteFails
<1>2. pc[n] \in Busy /\ pc[n] \in Leased \ {"send"} /\ pc[n] \notin Leaving
  BY Zenon, <1>1 DEF Busy, Labels, Leased, Leaving
<1>3. /\ BrokerT /\ TaskT /\ HandOK(n) /\ OutOK(n) /\ tries[n] \in 0 .. Attempts
      /\ out[n] \in Events \union {NoEvent} /\ targets[n] \in BOOLEAN
  BY Zenon, <1>2, NodeFacts
<1>4. token[n] # 0
  BY Zenon, <1>2, <1>3 DEF HandOK
<1>5. PICK r \in Requests : r = PendingRequest(n) /\ Sound(r) /\ Mine(r, n)
  BY Zenon, <1>1, PendingFacts
<1>6. Called(r)
  BY Zenon, <1>1, <1>5 DEF CallFails, Called
<1>7. CASE RetryLater(n)
  BY Zenon, <1>1, <1>2, <1>4, <1>5, <1>6, <1>7, RetryLaterEffect, OwnCallStep
<1>8. CASE /\ tries[n] + 1 < Attempts
           /\ tries' = [tries EXCEPT ![n] = @ + 1] /\ UNCHANGED <<pc, out>>
  <2> DEFINE k == tries[n] + 1
  <2>1. k \in 0 .. Attempts
    BY <1>3, <1>8, SettlementAssumption
  <2>2. /\ pc' = [pc EXCEPT ![n] = "complete"] /\ tries' = [tries EXCEPT ![n] = k]
        /\ out' = [out EXCEPT ![n] = out[n]]
        /\ targets' = [targets EXCEPT ![n] = targets[n]]
        /\ UNCHANGED <<groupVars, queue, cur>> /\ UNCHANGED <<token, valid>>
        /\ token' = token
    BY Zenon, <1>1, <1>3, <1>8 DEF TaskT, leaseVars
  <2> HIDE DEF k
  <2>3. /\ Others(n) /\ Keeps(n) /\ GroupT' /\ TaskT'
        /\ pc'[n] = "complete" /\ out'[n] = out[n]
        /\ BrokerT' /\ Grows => HandOK(n)' /\ ChainOK(n)' /\ JobOf(n)' = JobOf(n)
    BY Zenon, <1>1, <1>2, <1>3, <1>4, <2>1, <2>2, TaskEffect
  <2>4. ASSUME BrokerT', Grows PROVE NodeOK(n)'
    <3>1. HandOK(n)' /\ ChainOK(n)' /\ JobOf(n)' = JobOf(n)
      BY Zenon, <2>3, <2>4
    <3>2. PICK x : x = out[n]
      BY Zenon
    <3>3. Delivered(x)'
      BY Zenon, <1>1, <1>3, <2>4, <3>2, DeliveredStays DEF OutOK
    <3>4. OutOK(n)' /\ DoneOK(n)'
      BY Zenon, <1>1, <1>3, <1>4, <2>2, <2>3, <3>1, <3>2, <3>3 DEF OutOK, DoneOK, Committing
    <3>5. QED  BY Zenon, <3>1, <3>4 DEF NodeOK
  <2>5. QED  BY Zenon, <1>1, <1>5, <1>6, <2>3, <2>4, OwnCallStep
<1>9. QED  BY Zenon, <1>1, <1>7, <1>8

LEMMA ReleaseSteps ==
    ASSUME IInv, FreshOK, NEW n \in Node, Release(n) \/ ReleaseFails(n)
    PROVE  IInv'
<1>1. /\ pc[n] = "release" /\ pc' = [pc EXCEPT ![n] = "released"]
      /\ UNCHANGED <<groupVars, queue, cur, leaseVars, out, tries>> /\ UNCHANGED brokerVars
      /\ \/ Execute(PendingRequest(n)) /\ late' = late
         \/ CallFails(PendingRequest(n))
  BY Zenon DEF Release, ReleaseFails, Goto
<1>2. /\ pc[n] \in Busy /\ pc[n] \in Leased \ {"send"} /\ "released" \in Busy
      /\ "released" \in Leased /\ "released" \in Leaving
  BY Zenon, <1>1 DEF Busy, Labels, Leased, Leaving
<1>3. /\ TaskT /\ HandOK(n) /\ tries[n] \in 0 .. Attempts
      /\ out[n] \in Events \union {NoEvent} /\ targets[n] \in BOOLEAN
  BY Zenon, <1>2, NodeFacts
<1>4. token[n] # 0
  BY Zenon, <1>2, <1>3 DEF HandOK
<1>5. PICK r \in Requests : r = PendingRequest(n) /\ Sound(r) /\ Mine(r, n)
  BY Zenon, <1>1, PendingFacts
<1>6. Called(r)
  BY Zenon, <1>1, <1>5 DEF CallFails, Called
<1>7. /\ pc' = [pc EXCEPT ![n] = "released"]
      /\ out' = [out EXCEPT ![n] = out[n]] /\ tries' = [tries EXCEPT ![n] = tries[n]]
      /\ targets' = [targets EXCEPT ![n] = targets[n]]
      /\ UNCHANGED <<groupVars, queue, cur>> /\ UNCHANGED <<token, valid>>
      /\ token' = token
  BY Zenon, <1>1, <1>3 DEF TaskT, leaseVars
<1>8. /\ Others(n) /\ Keeps(n) /\ GroupT' /\ TaskT' /\ pc'[n] = "released"
      /\ BrokerT' /\ Grows => HandOK(n)' /\ ChainOK(n)'
  BY Zenon, <1>2, <1>3, <1>4, <1>7, TaskEffect
<1>9. OutOK(n)' /\ DoneOK(n)'
  BY Zenon, <1>8 DEF OutOK, DoneOK, Committing
<1>10. QED  BY Zenon, <1>1, <1>5, <1>6, <1>8, <1>9, OwnCallStep DEF NodeOK

(* A claim that is answered with a terminal record: the job is settled.    *)
LEMMA ClaimCompletedStep ==
    ASSUME IInv, FreshOK, NEW n \in Node, pc[n] = "process", ~Refused(n),
           claim(exec[ExecutionOf(n)], FreshToken).code = "completed",
           Goto(n, "commit"),
           UNCHANGED <<brokerVars, groupVars, redisVars, queue, cur, leaseVars, out, tries>>
    PROVE  IInv'
<1>1. /\ pc[n] \in Busy /\ "commit" \in Busy /\ "commit" \notin Leased /\ pc[n] \notin Leased
  BY Zenon DEF Busy, Labels, Leased, Leaving, Committing
<1>2. /\ TaskT /\ HandOK(n) /\ tries[n] \in 0 .. Attempts
      /\ out[n] \in Events \union {NoEvent} /\ targets[n] \in BOOLEAN
  BY Zenon, <1>1, NodeFacts
<1>3. FreshToken \in Nat \ {0}
  BY Zenon DEF FreshOK
<1>4. ExecutionOf(n) \in Execution /\ exec[ExecutionOf(n)] \in Lease
  BY Zenon, ClaimRequestFacts DEF IInv, RedisT
<1>5. exec[ExecutionOf(n)].state \in Terminal
  BY Zenon, <1>3, <1>4, ClaimScript
<1>6. <<ExecutionOf(n), exec[ExecutionOf(n)].state>> \in recorded
  BY Zenon, <1>4, <1>5 DEF IInv, RecInv
<1>7. Settled(cur[n].offset + 1)
  BY Zenon, <1>5, <1>6 DEF Settled, ExecutionOf, JobOf
<1>8. /\ pc' = [pc EXCEPT ![n] = "commit"] /\ out' = [out EXCEPT ![n] = out[n]]
      /\ tries' = [tries EXCEPT ![n] = tries[n]]
      /\ targets' = [targets EXCEPT ![n] = targets[n]]
      /\ UNCHANGED <<token, valid>> /\ pc'[n] = "commit"
      /\ cur' = cur /\ log' = log /\ outputs' = outputs /\ recorded' = recorded
      /\ token' = token /\ token[n] = 0
  BY Zenon, <1>1, <1>2 DEF TaskT, Goto, leaseVars, brokerVars, redisVars, HandOK
<1>9. Settled(cur[n].offset + 1)'
  BY Zenon, <1>7, <1>8 DEF Settled, PoisonEvent, Event
<1>10. OutOK(n)' /\ DoneOK(n)'
  BY Zenon, <1>8, <1>9 DEF OutOK, DoneOK, Committing
<1>11. QED  BY Zenon, <1>1, <1>2, <1>8, <1>10, TaskStep

(* A claim that is acquired: the token is new, and the record was not held.*)
LEMMA ClaimAcquiredStep ==
    ASSUME IInv, FreshOK, NEW n \in Node, pc[n] = "process", ~Refused(n),
           NEW t, t = FreshToken, NEW e, e = ExecutionOf(n),
           claim(exec[e], t).code = "acquired",
           exec' = [exec EXCEPT ![e] = claim(exec[e], t).record],
           token' = [token EXCEPT ![n] = t], valid' = [valid EXCEPT ![n] = TRUE],
           NEW l \in {"verify", "run"}, pc' = [pc EXCEPT ![n] = l],
           NEW b \in BOOLEAN, targets' = [targets EXCEPT ![n] = b],
           NEW o, out' = [out EXCEPT ![n] = o],
           l = "verify" => o = Event("dlq", JobOf(n)),
           l = "run" => o = out[n],
           UNCHANGED <<brokerVars, groupVars, recorded, late, queue, cur, tries>>
    PROVE  IInv'
<1>1. /\ pc[n] \in Busy /\ l \in Busy /\ l \in Leased \ {"send"} /\ l \notin Leaving
      /\ l \notin Committing /\ l \in Labels
  BY Zenon DEF Busy, Labels, Leased, Leaving, Committing
<1>2. /\ BrokerT /\ TaskT /\ HandOK(n) /\ ChainOK(n) /\ JobOf(n) \in Records
      /\ out[n] \in Events \union {NoEvent} /\ GroupT /\ RedisT
  BY Zenon, <1>1, NodeFacts DEF IInv
<1>3. /\ t \in Nat \ {0} /\ \A m \in Node : token[m] # t /\ \A r \in late : r.token # t
  BY Zenon DEF FreshOK
<1>4. e \in Execution /\ exec[e] \in Lease /\ JobOf(n).kind # "poison"
  BY Zenon, <1>2, ClaimRequestFacts DEF RedisT, Refused
<1>5. o \in Events \union {NoEvent}
  <2>1. JobOf(n).key \in Key
    BY Zenon, <1>2, <1>4, RecordFacts
  <2>2. QED  BY Zenon, <1>2, <2>1, JobEvents
<1> DEFINE y == claim(exec[e], t).record
<1>6. /\ y \in Lease /\ (y.state \in Terminal => y = exec[e])
      /\ \A u : Holds(exec[e], u) => y = exec[e]
      /\ Holds(y, t)
  BY Zenon, <1>3, <1>4, ClaimScript
<1> HIDE DEF y
<1>7. exec' = [exec EXCEPT ![e] = y]
  BY Zenon DEF y
<1>8. /\ exec'[e] = y /\ \A f \in Execution \ {e} : exec'[f] = exec[f]
      /\ exec' \in [Execution -> Lease]
  BY Zenon, <1>2, <1>4, <1>6, <1>7 DEF RedisT
<1>9. /\ log' = log /\ committed' = committed /\ outputs' = outputs /\ stray' = stray
      /\ recorded' = recorded /\ late' = late /\ cur' = cur /\ queue' = queue
      /\ assignee' = assignee /\ joined' = joined
      /\ assigned' = assigned /\ position' = position
      /\ pc'[n] = l /\ token'[n] = t /\ out'[n] = o /\ valid'[n] = TRUE
  BY Zenon, <1>2 DEF TaskT, brokerVars, groupVars
<1>10. BrokerT' /\ GroupT' /\ RedisT' /\ Grows
  BY <1>2, <1>8, <1>9 DEF BrokerT, GroupT, RedisT, Grows
<1>11. TaskT'
  BY Zenon, <1>1, <1>2, <1>3, <1>5 DEF TaskT
<1>12. Others(n) /\ Stays(n) /\ Leases(n)
  BY Zenon, <1>1, <1>2, <1>3, <1>4, <1>9 DEF Others, Same, Stays, Leases, TaskT
<1>13. HandOK(n)' /\ ChainOK(n)' /\ JobOf(n)' = JobOf(n) /\ ExecutionOf(n)' = e
  BY Zenon, <1>1, <1>2, <1>9, <1>10, <1>12, WorkStays
<1>14. OutOK(n)' /\ DoneOK(n)'
  BY <1>1, <1>9, <1>13 DEF OutOK, DoneOK, Event
<1>15. ASSUME NEW m \in Node PROVE NodeOK(m)'
  <2>1. CASE m = n
    BY Zenon, <1>13, <1>14, <2>1 DEF NodeOK
  <2>2. CASE m # n
    BY Zenon, <1>2, <1>10, <1>12, <2>2, NodeStays DEF IInv, Others
  <2>3. QED  BY Zenon, <2>1, <2>2
<1>16. CommittedIsSettled'
  BY Zenon, <1>2, <1>9, <1>10, CommittedStays DEF IInv
<1>17. RecInv'
  <2>1. \A f : \A p : Backed(f, p)' <=> Backed(f, p)
    BY Zenon, <1>9 DEF Backed, Event, RetryJob
  <2>2. \A f \in Execution : exec'[f].state \in Terminal => exec'[f] = exec[f]
    BY Zenon, <1>6, <1>8
  <2>3. QED  BY Zenon, <1>9, <2>1, <2>2 DEF IInv, RecInv
<1>18. ASSUME NEW m \in Node, m # n
       PROVE  token'[m] = token[m] /\ valid'[m] = valid[m] /\ pc'[m] = pc[m] /\ token[m] # t
  BY Zenon, <1>3, <1>12, <1>18 DEF Others, Same
<1>19. ASSUME NEW k \in Node, NEW m \in Node, token'[k] = token'[m], token'[k] # 0
       PROVE  k = m
  BY <1>9, <1>18, <1>19 DEF IInv, LeaseInv
<1>20. ASSUME NEW r \in late', NEW m \in Node PROVE Harmless(r, m)'
  <2>1. Harmless(r, m) /\ r.token # t
    BY Zenon, <1>3, <1>9, <1>20 DEF IInv, LeaseInv
  <2>2. CASE m = n
    BY Zenon, <1>9, <2>1, <2>2 DEF Harmless
  <2>3. CASE m # n
    BY Zenon, <1>18, <2>1, <2>3 DEF Harmless
  <2>4. QED  BY Zenon, <2>2, <2>3
<1>21. ASSUME NEW m \in Node, valid'[m], pc'[m] \notin Leaving
       PROVE  Holds(exec[ExecutionOf(m)], token[m])'
  <2>1. CASE m = n
    BY Zenon, <1>6, <1>8, <1>9, <1>13, <2>1 DEF Holds
  <2>2. CASE m # n
    <3>1. valid[m] /\ pc[m] \notin Leaving /\ token'[m] = token[m]
      BY Zenon, <1>18, <1>21, <2>2
    <3>2. Holds(exec[ExecutionOf(m)], token[m]) /\ HandOK(m)
      BY Zenon, <3>1 DEF IInv, LeaseInv, NodeOK
    <3>3. pc[m] \in Busy
      BY Zenon, <3>1, <3>2 DEF HandOK, Busy, Labels, Leased, Leaving
    <3>4. ExecutionOf(m) \in Execution
      BY Zenon, <3>1, <3>2, <3>3, NodeFacts DEF HandOK
    <3>5. PICK f \in Execution : f = ExecutionOf(m)
      BY Zenon, <3>4
    <3>6. ExecutionOf(m)' = f
      BY Zenon, <1>9, <3>5 DEF ExecutionOf, JobOf
    <3>7. exec'[f] = exec[f]
      BY Zenon, <1>6, <1>8, <3>2, <3>5
    <3>8. QED  BY Zenon, <3>1, <3>2, <3>5, <3>6, <3>7 DEF Holds
  <2>3. QED  BY Zenon, <2>1, <2>2
<1>22. LeaseInv'
  BY Zenon, <1>19, <1>20, <1>21 DEF LeaseInv
<1>23. QED  BY Zenon, <1>10, <1>11, <1>15, <1>16, <1>17, <1>22 DEF IInv

LEMMA ClaimStep ==
    ASSUME IInv, FreshOK, NEW n \in Node, Claim(n)
    PROVE  IInv'
<1>1. /\ pc[n] = "process" /\ ~Refused(n)
      /\ UNCHANGED <<brokerVars, groupVars, recorded, late, queue, cur, tries>>
  BY Zenon DEF Claim
<1>2. TaskT
  BY Zenon DEF IInv
<1>3. PICK t, e : t = FreshToken /\ e = ExecutionOf(n)
  BY Zenon
<1>4. CASE /\ claim(exec[e], t).code = "completed"
           /\ Goto(n, "commit") /\ UNCHANGED <<exec, leaseVars, out>>
  <2>1. UNCHANGED <<brokerVars, groupVars, redisVars, queue, cur, leaseVars, out, tries>>
    BY Zenon, <1>1, <1>4 DEF redisVars
  <2>2. QED  BY Zenon, <1>1, <1>3, <1>4, <2>1, ClaimCompletedStep
<1>5. CASE /\ claim(exec[e], t).code = "acquired"
           /\ exec' = [exec EXCEPT ![e] = claim(exec[e], t).record]
           /\ token' = [token EXCEPT ![n] = t] /\ valid' = [valid EXCEPT ![n] = TRUE]
           /\ out' = [out EXCEPT ![n] = Event("dlq", JobOf(n))]
           /\ Goto(n, "verify") /\ UNCHANGED targets
  <2>1. /\ targets' = [targets EXCEPT ![n] = targets[n]] /\ targets[n] \in BOOLEAN
        /\ pc' = [pc EXCEPT ![n] = "verify"]
    BY Zenon, <1>2, <1>5 DEF TaskT, Goto
  <2>2. QED  BY Zenon, <1>1, <1>3, <1>5, <2>1, ClaimAcquiredStep
<1>6. CASE /\ claim(exec[e], t).code = "acquired"
           /\ exec' = [exec EXCEPT ![e] = claim(exec[e], t).record]
           /\ token' = [token EXCEPT ![n] = t] /\ valid' = [valid EXCEPT ![n] = TRUE]
           /\ targets' = [targets EXCEPT ![n] = TRUE]
           /\ Goto(n, "run") /\ UNCHANGED out
  <2>1. out' = [out EXCEPT ![n] = out[n]] /\ pc' = [pc EXCEPT ![n] = "run"]
    BY Zenon, <1>2, <1>6 DEF TaskT, Goto
  <2>2. QED  BY Zenon, <1>1, <1>3, <1>6, <2>1, ClaimAcquiredStep
<1>7. QED  BY Zenon, <1>3, <1>4, <1>5, <1>6 DEF Claim

-----------------------------------------------------------------------------
(* The consumer group and the pump.                                        *)

LEMMA RebalanceStep ==
    ASSUME IInv, NEW n \in Node, Rebalance(n)
    PROVE  IInv'
<1>1. /\ assignee' = n /\ joined' = {} /\ assigned' = assigned /\ position' = position
      /\ UNCHANGED <<brokerVars, redisVars>>
      /\ UNCHANGED <<pc, queue, cur, token, valid, targets, out, tries>>
  BY Zenon DEF Rebalance, taskVars, leaseVars
<1>2. BrokerT /\ GroupT /\ TaskT /\ NodeOK(n)
  BY Zenon DEF IInv
<1>3. GroupT' /\ TaskT'
  BY Zenon, <1>1, <1>2 DEF GroupT, TaskT
<1>4. Others(n) /\ Same(n)
  BY Zenon, <1>1 DEF Others, Same
<1>5. Keeps(n)
  BY Zenon, <1>1, <1>2 DEF Keeps, NodeOK, HandOK
<1>6. BrokerT' /\ Grows
  BY <1>1, <1>2 DEF BrokerT, Grows, brokerVars, redisVars
<1>7. NodeOK(n)'
  BY Zenon, <1>2, <1>4, <1>6, NodeStays
<1>8. QED  BY Zenon, <1>1, <1>3, <1>4, <1>5, <1>7, QuietStep

LEMMA FencedFacts ==
    ASSUME NEW h \in Hand
    PROVE  fenced(h) \in Hand /\ fenced(h).offset = h.offset /\ fenced(h).fenced
BY Zenon DEF fenced, Hand

(* What n received before the generation is fenced, and what it receives   *)
(* in it starts at the committed offset: nothing unsettled is before it.   *)
LEMMA JoinGroupStep ==
    ASSUME IInv, NEW n \in Node, JoinGroup(n)
    PROVE  IInv'
<1>1. /\ joined' = joined \union {n} /\ assignee' = assignee
      /\ assigned' = [assigned EXCEPT ![n] = (assignee = n)]
      /\ position' = [position EXCEPT ![n] = IF assignee = n THEN committed ELSE 0]
      /\ UNCHANGED <<brokerVars, redisVars>>
      /\ UNCHANGED <<pc, token, valid, targets, out, tries>>
      /\ pc[n] # "down"
  BY Zenon DEF JoinGroup, leaseVars
<1>2. BrokerT /\ GroupT /\ TaskT /\ HandOK(n) /\ OutOK(n) /\ DoneOK(n) /\ ChainOK(n)
  BY Zenon DEF IInv, NodeOK
<1>3. PICK q \in Seq(Hand) : q = queue[n]
  BY Zenon, <1>2, QueueFacts
<1>4. PICK h \in Hand : h = cur[n]
  BY Zenon, <1>2 DEF TaskT
<1> DEFINE fq == [i \in 1 .. Len(q) |-> fenced(q[i])]
           fh == IF pc[n] = "idle" THEN h ELSE fenced(h)
<1>5. queue' = [queue EXCEPT ![n] = fq]
  <2>1. DOMAIN q = 1 .. Len(q)
    OBVIOUS
  <2>2. QED  BY Zenon, <1>3, <2>1 DEF JoinGroup
<1>6. cur' = [cur EXCEPT ![n] = fh]
  BY Zenon, <1>4 DEF JoinGroup
<1>7. /\ fq \in Seq(Hand) /\ Len(fq) = Len(q)
      /\ \A j \in 1 .. Len(q) : fq[j].offset = q[j].offset /\ fq[j].fenced
  <2>1. \A j \in 1 .. Len(q) : q[j] \in Hand
    OBVIOUS
  <2>2. \A j \in 1 .. Len(q) : fenced(q[j]) \in Hand /\ fenced(q[j]).offset = q[j].offset
                               /\ fenced(q[j]).fenced
    BY Zenon, <2>1, FencedFacts
  <2>3. Len(q) \in Nat /\ fq \in [1 .. Len(q) -> Hand]
    BY <2>2
  <2>4. fq \in Seq(Hand) /\ Len(fq) = Len(q)
    BY <2>3
  <2>5. QED  BY Zenon, <2>2, <2>4
<1>8. fh \in Hand /\ fh.offset = h.offset /\ (pc[n] # "idle" => fh.fenced)
      /\ (pc[n] = "idle" => fh = h)
  BY Zenon, FencedFacts
<1> HIDE DEF fq, fh
<1>9. /\ queue'[n] = fq /\ cur'[n] = fh /\ pc' = pc /\ token' = token /\ valid' = valid
      /\ out' = out /\ log' = log /\ outputs' = outputs /\ recorded' = recorded
      /\ assigned'[n] = (assignee = n) /\ committed' = committed
      /\ position'[n] = IF assignee = n THEN committed ELSE 0
  BY Zenon, <1>1, <1>2, <1>5, <1>6 DEF TaskT, GroupT, brokerVars, redisVars
<1>10. GroupT'
  BY Zenon, <1>1, <1>2 DEF GroupT, BrokerT
<1>11. TaskT'
  BY Zenon, <1>1, <1>2, <1>5, <1>6, <1>7, <1>8 DEF TaskT
<1>12. Others(n)
  BY Zenon, <1>1, <1>2, <1>5, <1>6 DEF Others, Same, TaskT, GroupT
<1>13. Keeps(n)
  BY Zenon, <1>2, <1>4, <1>8, <1>9 DEF Keeps, HandOK
<1>14. JobOf(n)' = JobOf(n) /\ ExecutionOf(n)' = ExecutionOf(n) /\ cur'[n].offset = cur[n].offset
  BY Zenon, <1>4, <1>8, <1>9 DEF JobOf, ExecutionOf
<1>15. HandOK(n)'
  <2>1. position'[n] <= Len(log)
    BY <1>2, <1>9 DEF BrokerT
  <2>2. /\ Len(queue'[n]) <= QueueSize
        /\ \A j \in 1 .. Len(queue'[n]) : queue'[n][j].offset < Len(log)
    BY Zenon, <1>2, <1>3, <1>7, <1>9 DEF HandOK
  <2>3. pc[n] \in {"idle", "down"} => cur'[n] = NoRecord
    BY Zenon, <1>1, <1>2, <1>4, <1>8, <1>9 DEF HandOK
  <2>4. QED  BY Zenon, <1>2, <1>9, <1>14, <2>1, <2>2, <2>3 DEF HandOK
<1>16. \A i : Settled(i)' <=> Settled(i)
  BY Zenon, <1>9 DEF Settled, PoisonEvent, Event
<1>17. OutOK(n)' /\ DoneOK(n)'
  <2>1. OutOK(n)'
    BY Zenon, <1>2, <1>9, <1>14 DEF OutOK, Delivered, RetryJob, PoisonEvent, Event
  <2>2. PICK i : i = cur[n].offset + 1
    BY Zenon
  <2>3. DoneOK(n)'
    BY Zenon, <1>2, <1>9, <1>14, <1>16, <2>2 DEF DoneOK
  <2>4. QED  BY Zenon, <2>1, <2>3
<1>18. ChainOK(n)'
  <2>1. ~InWork(n)' /\ Waiting(n)' = {}
    BY Zenon, <1>7, <1>8, <1>9 DEF InWork, Waiting
  <2>2. assigned'[n] => \A i \in 1 .. position'[n] : Settled(i)'
    BY Zenon, <1>9, <1>16 DEF IInv, CommittedIsSettled
  <2>3. pc[n] \in {"committing", "committed"} =>
           \A i \in 1 .. cur'[n].offset + 1 : Settled(i)'
    BY Zenon, <1>2, <1>14, <1>16 DEF ChainOK
  <2>4. QED  BY Zenon, <1>1, <1>9, <2>1, <2>2, <2>3 DEF ChainOK
<1>19. QED
  BY Zenon, <1>1, <1>10, <1>11, <1>12, <1>13, <1>15, <1>17, <1>18, QuietStep DEF NodeOK

LEMMA ReceiveStep ==
    ASSUME IInv, NEW n \in Node, Receive(n)
    PROVE  IInv'
<1>1. /\ pc[n] # "down" /\ assigned[n] /\ Len(queue[n]) < QueueSize /\ position[n] < Len(log)
      /\ queue' = [queue EXCEPT ![n] = Append(@, [offset |-> position[n], fenced |-> FALSE])]
      /\ position' = [position EXCEPT ![n] = @ + 1]
      /\ UNCHANGED <<brokerVars, redisVars>>
      /\ UNCHANGED <<assignee, joined, assigned, pc, cur, token, valid, targets, out, tries>>
  BY Zenon DEF Receive, leaseVars
<1>2. BrokerT /\ GroupT /\ TaskT /\ HandOK(n) /\ OutOK(n) /\ DoneOK(n) /\ ChainOK(n)
  BY Zenon DEF IInv, NodeOK
<1>3. PICK q \in Seq(Hand) : q = queue[n]
  BY Zenon, <1>2, QueueFacts
<1>4. PICK p \in Nat : p = position[n]
  BY Zenon, <1>2 DEF GroupT
<1> DEFINE h == [offset |-> p, fenced |-> FALSE]
           qq == Append(q, h)
<1>5. h \in Hand /\ h.offset = p /\ ~h.fenced
  BY Zenon DEF Hand
<1> HIDE DEF h
<1>6. /\ qq \in Seq(Hand) /\ Len(qq) = Len(q) + 1 /\ Len(q) \in Nat
      /\ \A j \in 1 .. Len(q) : qq[j] = q[j] /\ q[j] \in Hand
      /\ qq[Len(q) + 1] = h
  BY <1>5
<1>7. queue' = [queue EXCEPT ![n] = qq] /\ position' = [position EXCEPT ![n] = p + 1]
  BY Zenon, <1>1, <1>3, <1>4 DEF h
<1> HIDE DEF qq
<1>8. /\ queue'[n] = qq /\ position'[n] = p + 1 /\ pc' = pc /\ token' = token
      /\ valid' = valid /\ out' = out /\ log' = log /\ outputs' = outputs /\ cur' = cur
      /\ recorded' = recorded /\ assigned' = assigned
  BY Zenon, <1>1, <1>2, <1>7 DEF TaskT, GroupT, brokerVars, redisVars
<1>9. GroupT' /\ TaskT'
  BY <1>1, <1>2, <1>6, <1>7 DEF GroupT, TaskT
<1>10. Others(n) /\ Keeps(n)
  BY Zenon, <1>2, <1>7, <1>8 DEF Others, Same, Keeps, HandOK, TaskT, GroupT
<1>11. JobOf(n)' = JobOf(n) /\ ExecutionOf(n)' = ExecutionOf(n)
  BY Zenon, <1>8 DEF JobOf, ExecutionOf
<1>12. \A j \in 1 .. Len(qq) : j \in 1 .. Len(q) \/ j = Len(q) + 1
  BY <1>6
<1>13. HandOK(n)'
  <2>1. p + 1 <= Len(log) /\ Len(qq) <= QueueSize
    BY <1>1, <1>2, <1>3, <1>4, <1>6, SettlementAssumption DEF BrokerT
  <2>2. \A j \in 1 .. Len(qq) : qq[j].offset < Len(log)
    BY Zenon, <1>1, <1>2, <1>3, <1>4, <1>5, <1>6, <1>12 DEF HandOK
  <2>3. QED  BY Zenon, <1>2, <1>8, <1>11, <2>1, <2>2 DEF HandOK
<1>14. \A i : Settled(i)' <=> Settled(i)
  BY Zenon, <1>8 DEF Settled, PoisonEvent, Event
<1>15. OutOK(n)' /\ DoneOK(n)'
  <2>1. OutOK(n)'
    BY Zenon, <1>2, <1>8, <1>11 DEF OutOK, Delivered, RetryJob, PoisonEvent, Event
  <2>2. PICK i : i = cur[n].offset + 1
    BY Zenon
  <2>3. DoneOK(n)'
    BY Zenon, <1>2, <1>8, <1>11, <1>14, <2>2 DEF DoneOK
  <2>4. QED  BY Zenon, <2>1, <2>3
<1>16. ChainOK(n)'
  <2>1. InWork(n)' <=> InWork(n)
    BY Zenon, <1>8 DEF InWork
  <2>2. Waiting(n)' = Waiting(n) \union {Len(q) + 1}
    BY <1>3, <1>5, <1>6, <1>8, <1>12 DEF Waiting
  <2>3. \A j \in Waiting(n) : j \in 1 .. Len(q) /\ q[j].offset \in Nat /\ q[j].offset < p
    BY Zenon, <1>2, <1>3, <1>4, QueueFacts DEF Waiting, ChainOK
  <2>4. InWork(n) => cur[n].offset \in Nat /\ cur[n].offset < p
    BY Zenon, <1>2, <1>4 DEF ChainOK, TaskT, Hand
  <2>5. ASSUME NEW j \in Waiting(n)'
        PROVE  /\ qq[j].offset < p + 1
               /\ InWork(n) => cur[n].offset < qq[j].offset
               /\ \A k \in 1 .. Len(qq) : j < k => k \in Waiting(n)' /\ qq[j].offset < qq[k].offset
    <3>1. CASE j \in Waiting(n)
      <4>1. j \in 1 .. Len(q) /\ qq[j] = q[j] /\ q[j].offset \in Nat /\ q[j].offset < p
        BY Zenon, <1>6, <2>3, <3>1
      <4>2. InWork(n) => cur[n].offset < q[j].offset
        BY Zenon, <1>2, <1>3, <3>1 DEF ChainOK
      <4>3. ASSUME NEW k \in 1 .. Len(q), j < k
            PROVE  k \in Waiting(n) /\ q[j].offset < q[k].offset
        BY Zenon, <1>2, <1>3, <3>1, <4>3 DEF ChainOK
      <4>4. QED  BY <1>5, <1>6, <1>12, <2>2, <4>1, <4>2, <4>3
    <3>2. CASE j = Len(q) + 1
      BY <1>5, <1>6, <1>12, <2>4, <3>2
    <3>3. QED  BY Zenon, <2>2, <3>1, <3>2
  <2>6. ASSUME NEW i \in 1 .. p + 1 PROVE Settled(i) \/ Held(n, i)'
    <3>1. CASE i = p + 1
      <4>1. Len(q) + 1 \in Waiting(n)' /\ qq[Len(q) + 1].offset + 1 = i
        BY Zenon, <1>5, <1>6, <2>2, <3>1
      <4>2. QED  BY Zenon, <1>8, <4>1 DEF Held
    <3>2. CASE i \in 1 .. p
      <4>1. Settled(i) \/ Held(n, i)
        BY Zenon, <1>1, <1>2, <1>4, <3>2 DEF ChainOK
      <4>2. ASSUME NEW j \in Waiting(n), q[j].offset + 1 = i PROVE Held(n, i)'
        <5>1. j \in Waiting(n)' /\ queue'[n][j].offset + 1 = i
          BY Zenon, <1>6, <1>8, <2>2, <2>3, <4>2
        <5>2. QED  BY Zenon, <5>1 DEF Held
      <4>3. QED  BY Zenon, <1>3, <1>8, <2>1, <4>1, <4>2 DEF Held
    <3>3. QED  BY <3>1, <3>2
  <2>7. pc[n] \in {"committing", "committed"} =>
           \A i \in 1 .. cur[n].offset + 1 : Settled(i)
    BY Zenon, <1>2 DEF ChainOK
  <2>8. InWork(n) => cur[n].offset < p + 1
    BY <2>4
  <2>9. \A j \in Waiting(n)' :
           /\ assigned'[n] /\ queue'[n][j].offset < position'[n]
           /\ InWork(n)' => cur'[n].offset < queue'[n][j].offset
           /\ \A k \in 1 .. Len(queue'[n]) :
                 j < k => k \in Waiting(n)' /\ queue'[n][j].offset < queue'[n][k].offset
    BY Zenon, <1>1, <1>8, <2>1, <2>5
  <2>10. assigned'[n] => \A i \in 1 .. position'[n] : Settled(i)' \/ Held(n, i)'
    BY Zenon, <1>8, <1>14, <2>6
  <2>11. pc'[n] \in {"committing", "committed"} =>
            \A i \in 1 .. cur'[n].offset + 1 : Settled(i)'
    BY Zenon, <1>8, <1>14, <2>7
  <2>12. /\ pc'[n] # "down"
         /\ InWork(n)' => assigned'[n] /\ cur'[n].offset < position'[n]
    BY Zenon, <1>1, <1>8, <2>1, <2>8
  <2>13. QED  BY Zenon, <2>9, <2>10, <2>11, <2>12 DEF ChainOK
<1>17. QED
  BY Zenon, <1>1, <1>9, <1>10, <1>13, <1>15, <1>16, QuietStep DEF NodeOK

-----------------------------------------------------------------------------
(* Time, and requests that nobody waits for.                               *)

LEMMA EnvStep ==
    ASSUME IInv, UNCHANGED <<taskVars, groupVars>>, Grows, BrokerT', RedisT',
           CommittedIsSettled', RecInv', late' \subseteq late,
           \A m \in Node : valid[m] /\ pc[m] \notin Leaving =>
                              Holds(exec'[ExecutionOf(m)], token[m])
    PROVE  IInv'
<1>1. /\ UNCHANGED <<pc, queue, cur, token, valid, targets, out, tries>>
      /\ UNCHANGED <<assignee, joined, assigned, position>>
  BY Zenon DEF taskVars, leaseVars, groupVars
<1>2. BrokerT /\ GroupT /\ TaskT /\ \A m \in Node : NodeOK(m)
  BY Zenon DEF IInv
<1>3. GroupT' /\ TaskT'
  BY Zenon, <1>1, <1>2 DEF GroupT, TaskT
<1>4. ASSUME NEW m \in Node PROVE NodeOK(m)'
  <2>1. Same(m)
    BY Zenon, <1>1 DEF Same
  <2>2. QED  BY Zenon, <1>2, <2>1, NodeStays
<1>5. ASSUME NEW m \in Node, valid'[m], pc'[m] \notin Leaving
      PROVE  Holds(exec[ExecutionOf(m)], token[m])'
  <2>1. valid[m] /\ pc[m] \notin Leaving /\ token'[m] = token[m] /\ cur'[m] = cur[m]
    BY Zenon, <1>1, <1>5
  <2>2. pc[m] \notin {"idle", "down"} /\ cur[m].offset < Len(log)
    BY Zenon, <1>2, <2>1 DEF NodeOK, HandOK, Leased, Leaving
  <2>3. ExecutionOf(m)' = ExecutionOf(m)
    BY Zenon, <1>2, <2>1, <2>2, JobStays
  <2>4. QED  BY Zenon, <2>1, <2>3 DEF Holds
<1>6. /\ \A k, m \in Node : token'[k] = token'[m] /\ token'[k] # 0 => k = m
      /\ \A r \in late' : \A m \in Node : Harmless(r, m)'
  BY Zenon, <1>1 DEF IInv, LeaseInv, Harmless
<1>7. LeaseInv'
  BY Zenon, <1>5, <1>6 DEF LeaseInv
<1>8. QED  BY Zenon, <1>3, <1>4, <1>7 DEF IInv

(* A node that works under a lease has a record that names an execution.   *)
LEMMA LeaseFacts ==
    ASSUME IInv, NEW m \in Node, valid[m], pc[m] \notin Leaving
    PROVE  /\ ExecutionOf(m) \in Execution /\ token[m] # 0
           /\ Holds(exec[ExecutionOf(m)], token[m])
<1>1. HandOK(m) /\ Holds(exec[ExecutionOf(m)], token[m])
  BY Zenon DEF IInv, NodeOK, LeaseInv
<1>2. token[m] # 0 /\ pc[m] \in Busy
  BY Zenon, <1>1 DEF HandOK, Busy, Labels, Leased, Leaving
<1>3. ExecutionOf(m) \in Execution
  BY Zenon, <1>2, NodeFacts
<1>4. QED  BY Zenon, <1>1, <1>2, <1>3

(* No lease expires while its owner keeps it.                              *)
LEMMA ExpireSteps ==
    ASSUME IInv, NEW e \in Execution, ExpireLease(e) \/ ExpireRecord(e)
    PROVE  IInv'
<1>1. /\ Unrenewed(e) /\ UNCHANGED <<taskVars, groupVars>> /\ UNCHANGED brokerVars
      /\ recorded' = recorded /\ late' = late
      /\ \/ exec' = [exec EXCEPT ![e].live = FALSE]
         \/ exec' = [exec EXCEPT ![e] = Absent]
  BY Zenon DEF ExpireLease, ExpireRecord
<1>2. BrokerT /\ RedisT /\ RecInv /\ exec[e] \in Lease
  BY Zenon DEF IInv, RedisT
<1>3. /\ exec' \in [Execution -> Lease] /\ \A f \in Execution \ {e} : exec'[f] = exec[f]
      /\ exec'[e].state \in Terminal => exec'[e].state = exec[e].state
  <2>1. CASE exec' = [exec EXCEPT ![e] = Absent]
    BY Zenon, <1>2, <2>1 DEF RedisT, Lease, Absent, Terminal
  <2>2. CASE exec' = [exec EXCEPT ![e].live = FALSE]
    BY Zenon, <1>2, <2>2 DEF RedisT, Lease
  <2>3. QED  BY Zenon, <1>1, <2>1, <2>2
<1>4. log' = log /\ committed' = committed /\ outputs' = outputs /\ stray' = stray
  BY Zenon, <1>1 DEF brokerVars
<1>5. BrokerT' /\ RedisT' /\ Grows
  BY <1>1, <1>2, <1>3, <1>4 DEF BrokerT, RedisT, Grows
<1>6. CommittedIsSettled'
  BY Zenon, <1>2, <1>4, <1>5, CommittedStays DEF IInv
<1>7. RecInv'
  <2>1. \A f : \A p : Backed(f, p)' <=> Backed(f, p)
    BY Zenon, <1>4 DEF Backed, Event, RetryJob
  <2>2. \A f \in Execution : exec'[f].state \in Terminal => exec'[f].state = exec[f].state
    BY Zenon, <1>3
  <2>3. \A f \in Execution : exec'[f].state \in Terminal => <<f, exec'[f].state>> \in recorded
    BY Zenon, <1>2, <2>2 DEF RecInv
  <2>4. QED  BY Zenon, <1>1, <1>2, <2>1, <2>3 DEF RecInv
<1>8. ASSUME NEW m \in Node, valid[m], pc[m] \notin Leaving
      PROVE  Holds(exec'[ExecutionOf(m)], token[m])
  <2>1. ExecutionOf(m) \in Execution /\ Holds(exec[ExecutionOf(m)], token[m])
    BY Zenon, <1>8, LeaseFacts
  <2>2. ExecutionOf(m) # e
    BY Zenon, <1>1, <1>8, <2>1 DEF Unrenewed, Holds
  <2>3. QED  BY Zenon, <1>3, <2>1, <2>2
<1>9. QED  BY Zenon, <1>1, <1>5, <1>6, <1>7, <1>8, EnvStep

LEMMA ExecuteLateStep ==
    ASSUME IInv, NEW r \in late, ExecuteLate(r)
    PROVE  IInv'
<1>1. /\ Execute(r) /\ late' = late \ {r} /\ UNCHANGED <<taskVars, groupVars>>
      /\ UNCHANGED brokerVars
  BY Zenon DEF ExecuteLate
<1>2. BrokerT /\ RedisT /\ RecInv /\ r \in Requests /\ Sound(r)
  BY Zenon DEF IInv, RedisT, RecInv, Sound
<1>3. log' = log /\ committed' = committed /\ outputs' = outputs /\ stray' = stray
  BY Zenon, <1>1 DEF brokerVars
<1>4. Called(r)
  BY Zenon, <1>1 DEF Called
<1>5. RedisT' /\ RecInv' /\ Grows /\ Survives(r)
  BY Zenon, <1>2, <1>3, <1>4, CallEffect
<1>6. BrokerT' /\ CommittedIsSettled'
  BY Zenon, <1>2, <1>3, <1>5, CommittedStays DEF IInv, BrokerT
<1>7. ASSUME NEW m \in Node, valid[m], pc[m] \notin Leaving
      PROVE  Holds(exec'[ExecutionOf(m)], token[m])
  <2>1. ExecutionOf(m) \in Execution /\ Holds(exec[ExecutionOf(m)], token[m])
    BY Zenon, <1>7, LeaseFacts
  <2>2. ~(r.op = "release" /\ r.token = token[m])
    BY Zenon, <1>7 DEF IInv, LeaseInv, Harmless
  <2>3. QED  BY Zenon, <1>5, <2>1, <2>2 DEF Survives
<1>8. late' \subseteq late
  BY Zenon, <1>1
<1>9. QED  BY Zenon, <1>1, <1>5, <1>6, <1>7, <1>8, EnvStep

LEMMA DeliverStrayStep ==
    ASSUME IInv, NEW e \in stray, DeliverStray(e)
    PROVE  IInv'
<1>1. /\ Deliver(e) /\ stray' = stray \ {e} /\ UNCHANGED <<taskVars, groupVars>>
      /\ UNCHANGED redisVars /\ exec' = exec /\ recorded' = recorded /\ late' = late
  BY Zenon DEF DeliverStray, redisVars
<1>2. BrokerT /\ RedisT /\ e \in Events
  BY Zenon DEF IInv, BrokerT
<1>3. BrokerT' /\ Grows /\ committed' = committed
  BY Zenon, <1>1, <1>2, DeliverEffect
<1>4. RedisT' /\ CommittedIsSettled' /\ RecInv'
  BY Zenon, <1>1, <1>2, <1>3, CommittedStays, RecInvStays DEF IInv, RedisT
<1>5. ASSUME NEW m \in Node, valid[m], pc[m] \notin Leaving
      PROVE  Holds(exec'[ExecutionOf(m)], token[m])
  BY Zenon, <1>1, <1>5, LeaseFacts
<1>6. QED  BY Zenon, <1>1, <1>3, <1>4, <1>5, EnvStep

-----------------------------------------------------------------------------
(* All steps.                                                              *)

LEMMA NextIInv == IInv /\ FreshOK /\ [Next]_vars => IInv'
<1> SUFFICES ASSUME IInv, FreshOK, [Next]_vars PROVE IInv'
  BY Zenon
<1>1. ASSUME NEW n \in Node, WorkerStep(n) PROVE IInv'
  <2>1. CASE FailStop(n) \/ CommitRaced(n)
    BY Zenon, <2>1, QuietDownStep DEF FailStop, CommitRaced
  <2>2. QED
    BY Zenon, <1>1, <2>1, TakeRecordStep, DeadLetterUnleasedStep, ClaimStep, RunSteps, VerifySteps,
       PublishStep, CompleteStep, CompleteOkStep, ReleaseSteps, BeginCommitStep,
       BrokerCommitStep, CommitOkStep DEF WorkerStep
<1>2. ASSUME NEW n \in Node, WorkerFault(n) PROVE IInv'
  BY Zenon, <1>2, ClaimFailsStep, RunInvariantViolationStep, VerifySteps, PublishFailsStep,
     CompleteFailsStep, LeaseLostStep, ReleaseSteps, CommitFailsStep, CrashStep,
     MissDeadlineStep DEF WorkerFault
<1>3. CASE UNCHANGED vars
  <2>1. /\ UNCHANGED <<taskVars, groupVars>> /\ exec' = exec /\ recorded' = recorded
        /\ late' = late /\ log' = log /\ committed' = committed /\ outputs' = outputs
        /\ stray' = stray
    BY Zenon, <1>3 DEF vars, redisVars, brokerVars
  <2>2. BrokerT' /\ RedisT' /\ Grows
    BY <2>1 DEF IInv, BrokerT, RedisT, Grows
  <2>3. CommittedIsSettled' /\ RecInv'
    BY Zenon, <2>1, <2>2, CommittedStays, RecInvStays DEF IInv, redisVars
  <2>4. \A m \in Node : valid[m] /\ pc[m] \notin Leaving =>
                           Holds(exec'[ExecutionOf(m)], token[m])
    BY Zenon, <2>1, LeaseFacts
  <2>5. QED  BY Zenon, <2>1, <2>2, <2>3, <2>4, EnvStep
<1>4. QED
  BY Zenon, <1>1, <1>2, <1>3, RestartStep, RebalanceStep, JoinGroupStep, ReceiveStep, ExpireSteps,
     ExecuteLateStep, DeliverStrayStep DEF Next

(* A step abandons at most one request.                                    *)
LEMMA LateGrows ==
    ASSUME [Next]_vars
    PROVE  \E r : late' \subseteq late \union {r}
<1>1. ASSUME NEW r, CallFails(r) PROVE late' \subseteq late \union {r}
  BY Zenon, <1>1 DEF CallFails, Delay, redisVars
<1>2. ASSUME NEW n \in Node, AbandonRequest(n) PROVE late' \subseteq late \union {PendingRequest(n)}
  BY Zenon, <1>2 DEF AbandonRequest, Delay, redisVars
<1>3. ASSUME NEW n \in Node, WorkerStep(n) PROVE late' = late
  <2>1. CASE TakeRecord(n) \/ DeadLetterUnleased(n) \/ Claim(n)
    BY Zenon, <2>1 DEF TakeRecord, DeadLetterUnleased, Claim, redisVars
  <2>2. CASE RunMeasured(n) \/ RunInfrastructureFailure(n) \/ RunPermanentFailure(n)
    BY Zenon, <2>2 DEF RunMeasured, RunInfrastructureFailure, RunPermanentFailure, Settle,
                       redisVars
  <2>3. CASE VerifyLease(n) \/ Publish(n) \/ Complete(n) \/ CompleteOk(n)
    BY Zenon, <2>3 DEF VerifyLease, Publish, Complete, CompleteOk, redisVars
  <2>4. CASE Release(n) \/ FailStop(n) \/ BeginCommit(n)
    BY Zenon, <2>4 DEF Release, FailStop, BeginCommit, redisVars
  <2>5. CASE BrokerCommit(n) \/ CommitOk(n) \/ CommitRaced(n)
    BY Zenon, <2>5 DEF BrokerCommit, CommitOk, CommitRaced, redisVars
  <2>6. QED  BY Zenon, <1>3, <2>1, <2>2, <2>3, <2>4, <2>5 DEF WorkerStep
<1>4. ASSUME NEW n \in Node, WorkerFault(n) PROVE \E r : late' \subseteq late \union {r}
  <2>1. CASE ClaimFails(n) \/ CompleteFails(n) \/ ReleaseFails(n)
    BY Zenon, <1>1, <2>1 DEF ClaimFails, CompleteFails, ReleaseFails
  <2>2. CASE PublishFails(n) \/ LeaseLost(n) \/ Crash(n)
    BY Zenon, <1>2, <2>2 DEF PublishFails, LeaseLost, Crash
  <2>3. CASE RunInvariantViolation(n) \/ VerifyFails(n) \/ CommitFails(n) \/ MissDeadline(n)
    BY Zenon, <2>3 DEF RunInvariantViolation, VerifyFails, CommitFails, MissDeadline, redisVars
  <2>4. QED  BY Zenon, <1>4, <2>1, <2>2, <2>3 DEF WorkerFault
<1>5. ASSUME NEW n \in Node, Restart(n) \/ Rebalance(n) \/ JoinGroup(n) \/ Receive(n)
      PROVE  late' = late
  BY Zenon, <1>5 DEF Restart, Rebalance, JoinGroup, Receive, redisVars
<1>6. ASSUME NEW e, ExpireLease(e) \/ ExpireRecord(e) \/ DeliverStray(e) PROVE late' = late
  BY Zenon, <1>6 DEF ExpireLease, ExpireRecord, DeliverStray, redisVars
<1>7. ASSUME NEW r, ExecuteLate(r) PROVE late' \subseteq late
  BY Zenon, <1>7 DEF ExecuteLate
<1>8. CASE UNCHANGED vars
  BY Zenon, <1>8 DEF vars, redisVars
<1>9. QED  BY Zenon, <1>3, <1>4, <1>5, <1>6, <1>7, <1>8 DEF Next

-----------------------------------------------------------------------------
(* Finitely many tokens are in use, so there is always a new one.          *)
INSTANCE FiniteSetTheorems

(* A new owner token is not in use: fewer tokens are in use than there are *)
(* to choose from.                                                         *)
LEMMA FreshTokenIsFresh ==
    ASSUME IsFiniteSet(late)
    PROVE  FreshOK
<1> DEFINE owners == {exec[e].owner : e \in Execution}
           tokens == {token[n] : n \in Node}
           waiting == {r.token : r \in late}
           used == owners \union tokens \union waiting
<1>1. IsFiniteSet(Execution)
  <2>1. IsFiniteSet(Attempt)
    BY FS_Interval, SettlementAssumption DEF Attempt
  <2>2. QED  BY Zenon, <2>1, FS_Product, SettlementAssumption DEF Execution
<1>2. IsFiniteSet(owners)
  <2> DEFINE f == [e \in Execution |-> exec[e].owner]
  <2>1. f \in Surjection(Execution, owners)
    BY Zenon DEF Surjection
  <2>2. QED  BY Zenon, <1>1, <2>1, FS_Surjection
<1>3. IsFiniteSet(tokens)
  <2> DEFINE f == [n \in Node |-> token[n]]
  <2>1. f \in Surjection(Node, tokens)
    BY Zenon DEF Surjection
  <2>2. QED  BY Zenon, <2>1, FS_Surjection, SettlementAssumption
<1>4. IsFiniteSet(waiting)
  <2> DEFINE f == [r \in late |-> r.token]
  <2>1. f \in Surjection(late, waiting)
    BY Zenon DEF Surjection
  <2>2. QED  BY Zenon, <2>1, FS_Surjection
<1>5. IsFiniteSet(used)
  BY Zenon, <1>2, <1>3, <1>4, FS_Union
<1> DEFINE c == Cardinality(used)
<1>6. c \in Nat
  BY Zenon, <1>5, FS_CardinalityType
<1>7. \E t \in 1 .. c + 1 : t \notin used
  <2>1. SUFFICES ASSUME 1 .. c + 1 \subseteq used PROVE FALSE
    BY Zenon
  <2>2. Cardinality(1 .. c + 1) <= c
    BY Zenon, <1>5, <2>1, FS_Subset
  <2>3. Cardinality(1 .. c + 1) = c + 1
    BY <1>6, FS_Interval
  <2>4. QED  BY <1>6, <2>2, <2>3
<1>8. FreshToken \in 1 .. c + 1 /\ FreshToken \notin used
  BY Zenon, <1>7 DEF FreshToken
<1>9. QED  BY <1>6, <1>8 DEF FreshOK

LEMMA Invariance == Spec => [](IInv /\ IsFiniteSet(late))
<1>1. Init => IsFiniteSet(late)
  BY Zenon, FS_EmptySet DEF Init
<1>2. IsFiniteSet(late) /\ [Next]_vars => IsFiniteSet(late)'
  <2> SUFFICES ASSUME IsFiniteSet(late), [Next]_vars PROVE IsFiniteSet(late)'
    BY Zenon
  <2>1. PICK r : late' \subseteq late \union {r}
    BY Zenon, LateGrows
  <2>2. IsFiniteSet(late \union {r})
    BY Zenon, FS_AddElement
  <2>3. IsFiniteSet(late')
    BY Zenon, <2>1, <2>2, FS_Subset
  <2>4. QED  BY Zenon, <2>3
<1>3. IInv /\ IsFiniteSet(late) /\ [Next]_vars => IInv'
  BY Zenon, FreshTokenIsFresh, NextIInv
<1>4. QED  BY <1>1, <1>2, <1>3, InitIInv, PTL DEF Spec

(* Every variable of a settling node, its partition and its execution      *)
(* records keeps its type; in particular settle_infrastructure_failure     *)
(* never publishes an attempt beyond max_retries.                          *)
THEOREM SettlementTypes == Spec => []TypeOK
<1>1. IInv => TypeOK
  <2> SUFFICES ASSUME IInv PROVE TypeOK
    BY Zenon
  <2>1. BrokerT /\ GroupT /\ RedisT /\ TaskT /\ Len(log) \in Nat
    BY DEF IInv, BrokerT
  <2>2. \A i \in DOMAIN log : log[i] \in Records
    BY <2>1 DEF BrokerT
  <2>3. ASSUME NEW n \in Node
        PROVE  /\ assigned[n] \in BOOLEAN /\ position[n] \in 0 .. Len(log)
               /\ Len(queue[n]) <= QueueSize
               /\ cur[n].offset \in 0 .. Len(log) /\ cur[n].fenced \in BOOLEAN
               /\ token[n] \in Nat /\ valid[n] \in BOOLEAN /\ targets[n] \in BOOLEAN
               /\ out[n] \in Events \union {NoEvent} /\ tries[n] \in 0 .. Attempts
    <3>1. HandOK(n) /\ cur[n] \in Hand /\ position[n] \in Nat
      BY Zenon, <2>1 DEF IInv, NodeOK, TaskT, GroupT
    <3>2. cur[n].offset \in 0 .. Len(log) /\ cur[n].fenced \in BOOLEAN
      BY <2>1, <3>1 DEF HandOK, Hand, NoRecord
    <3>3. position[n] \in 0 .. Len(log)
      BY <2>1, <3>1 DEF HandOK
    <3>4. QED  BY Zenon, <2>1, <3>1, <3>2, <3>3 DEF HandOK, TaskT, GroupT
  <2>4. \A e \in Execution :
          /\ exec[e].state \in Terminal \union {"absent", "running"}
          /\ exec[e].owner \in Nat /\ exec[e].live \in BOOLEAN
    BY Zenon, <2>1 DEF RedisT, Lease
  <2>5. QED  BY <2>1, <2>2, <2>3, <2>4 DEF TypeOK, BrokerT, GroupT
<1>2. QED  BY <1>1, Invariance, PTL

(* worker_loop, commit_offset, ADR-0007: whatever crashed, was rebalanced, *)
(* timed out or arrived late, every record below the committed offset has a*)
(* durable terminal disposition.                                           *)
THEOREM CommitsFollowSettlement == Spec => []CommittedIsSettled
<1>1. IInv => CommittedIsSettled
  BY DEF IInv
<1>2. QED  BY <1>1, Invariance, PTL

(* execute_and_publish, publish_and_complete_dlq: an outcome that complete *)
(* recorded is backed by the event it stands for.                          *)
THEOREM OutcomesFollowPublication == Spec => []RecordedIsPublished
<1>1. IInv => RecordedIsPublished
  BY DEF IInv, RecInv, RecordedIsPublished
<1>2. QED  BY <1>1, Invariance, PTL

(* claim, renew, complete, release: a lease whose local deadline is ahead  *)
(* is its owner's alone, late requests and expiry included.                *)
THEOREM LeasesAreExclusive == Spec => []HeldLeaseIsMine
<1>1. IInv => HeldLeaseIsMine
  BY DEF IInv, LeaseInv, Holds, HeldLeaseIsMine, Leaving
<1>2. QED  BY <1>1, Invariance, PTL
=============================================================================
