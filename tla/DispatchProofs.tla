--------------------------- MODULE DispatchProofs ---------------------------
(***************************************************************************)
(* Proofs about dispatch, for every set of nodes, scenarios and plans and  *)
(* all bounds: fencing, registration before publication, publication       *)
(* before acknowledgement, and the refinement of WindowDispatch.           *)
(***************************************************************************)
EXTENDS Dispatch, FiniteSetTheorems, WellFoundedInduction, TLAPS

Points == {"top", "plan", "prepare", "register", "registering", "slice",
           "publishing", "stored", "ack"}
InScenario == Points \ {"top", "plan"}
Holding == InScenario \ {"prepare"}
Sending == {"publishing", "stored", "ack"}

WindowT == [at : Nat \ {0}, plan : Plan]
LedgerT == [active : WindowT \union {NoWindow}, acked : SUBSET Nat, count : Nat,
            next : Nat, last : WindowT \union {NoWindow}, onceDone : BOOLEAN]
JobT == [scenario : Scenario, at : Nat \ {0}, plan : Plan, slice : Nat]
RequestT == [op : {"prepare", "ack"}, scenario : Scenario, plan : Plan, at : Nat,
             slice : Nat, leader : Nat]

\* Types, without the bounds.
Types ==
  /\ holder \in [node : Node \union {NoNode}, fence : Nat]
  /\ fence \in Nat /\ watch \in [Node -> Nat]
  /\ due \in [Scenario -> Nat]
  /\ ledger \in [Scenario -> LedgerT] /\ writer \in [Scenario -> Nat]
  /\ pc \in [Node -> Points] /\ leader \in [Node -> Nat]
  /\ todo \in [Node -> SUBSET Scenario]
  /\ scen \in [Node -> Scenario \union {NoScenario}]
  /\ window \in [Node -> WindowT \union {NoWindow}]
  /\ missing \in [Node -> SUBSET Nat]
  /\ jobs \subseteq JobT /\ stray \subseteq JobT
  /\ late \subseteq RequestT

\* A live lease has the newest fence, passes run under real leases, and no
\* fence is newer than the counter.
FenceInv ==
  /\ holder.fence # 0 => holder.fence = fence
  /\ \A n \in Node : pc[n] # "top" => leader[n] # 0
  /\ \A r \in late : r.leader # 0
  /\ \A s \in Scenario : writer[s] <= fence

\* What the scheduler of node n knows about the window in hand.
Hand(n) ==
  /\ pc[n] \in InScenario => scen[n] \in Scenario
  /\ pc[n] \in Holding =>
       window[n] \in WindowT /\ missing[n] \subseteq Slices(window[n].plan)
  /\ pc[n] \in Sending => missing[n] # {}
  /\ pc[n] \in Sending \union {"slice"} => RunId(scen[n], window[n]) \in registered
  /\ pc[n] \in {"stored", "ack"} => JobInHand(n) \in jobs

\* An abandoned acknowledgement is about a record that is stored.
Stored(r) ==
  r.op = "ack" => /\ r.at # 0 /\ r.slice \in Slices(r.plan)
                  /\ Job(r.scenario, [at |-> r.at, plan |-> r.plan], r.slice) \in jobs

HandInv ==
  /\ \A n \in Node : Hand(n)
  /\ \A r \in late : Stored(r)
  /\ \A j \in jobs \union stray : j.slice \in Slices(j.plan)
  /\ RunsAreRegistered

\* The ledger counts the slices it has, and its windows are consecutive.
LedgerOf(s) ==
  LET l == ledger[s] IN
  /\ l.active = NoWindow => l.acked = {}
  /\ l.active # NoWindow => /\ l.acked \subseteq Slices(l.active.plan)
                            /\ l.active.at = l.last.at + 1
  /\ l.count = Cardinality(l.acked)
  /\ l.next = l.last.at + 1

LedgerInv == (\A s \in Scenario : LedgerOf(s)) /\ LedgerFollowsKafka

\* Window k of scenario s under plan p is known outside the ledger.
Held(s, k, p) ==
  \/ \E j \in jobs \union stray : j.scenario = s /\ j.at = k /\ j.plan = p
  \/ \E n \in Node : /\ pc[n] \in Holding /\ scen[n] = s
                     /\ window[n].at = k /\ window[n].plan = p
  \/ \E r \in late : r.op = "ack" /\ r.scenario = s /\ r.at = k /\ r.plan = p

\* Such a window is a dispatched one or the active one, and has one plan.
PlanInv ==
  \A s \in Scenario, k \in Nat \ {0}, p \in Plan :
    Held(s, k, p) =>
      /\ k <= ledger[s].last.at \/ ledger[s].active = [at |-> k, plan |-> p]
      /\ \A q \in Plan : Held(s, k, q) => p = q

IInv == Types /\ FenceInv /\ HandInv /\ LedgerInv /\ PlanInv

-----------------------------------------------------------------------------
\* A set of natural numbers has a least member, so that Slice is defined.
LEMMA LeastMember ==
  ASSUME NEW S \in SUBSET Nat, S # {}
  PROVE  \E i \in S : \A j \in S : i <= j
<1> DEFINE R == OpToRel(<, Nat)
<1>1. \A x, y \in Nat : y < x => <<y, x>> \in R
  BY DEF OpToRel
<1> HIDE DEF R
<1>2. IsWellFoundedOn(R, Nat)
  BY NatLessThanWellFounded, Zenon DEF R
<1>3. PICK x \in S : \A y \in S : ~(<<y, x>> \in R)
  BY <1>2, WFMin, Zenon
<1>4. \A y \in S : ~(y < x)
  BY <1>1, <1>3, Zenon
<1> QED BY <1>4

LEMMA SliceInHand ==
  ASSUME NEW n \in Node, missing[n] \in SUBSET Nat, missing[n] # {}
  PROVE  Slice(n) \in missing[n]
BY LeastMember DEF Slice

\* What counting tells about the acknowledged slices of a window.
LEMMA Counting ==
  ASSUME NEW p \in Plan, NEW A \in SUBSET Slices(p), NEW i \in Slices(p)
  PROVE  /\ Cardinality(A) \in Nat
         /\ Cardinality(A \union {i}) = IF i \in A THEN Cardinality(A) ELSE Cardinality(A) + 1
         /\ SlicesOf[p] \in Nat \ {0}
         /\ Cardinality(A \union {i}) <= SlicesOf[p]
         /\ Cardinality(A \union {i}) = SlicesOf[p] => A \union {i} = Slices(p)
<1>1. SlicesOf[p] \in Nat \ {0}
  BY DispatchAssumption
<1>2. IsFiniteSet(Slices(p)) /\ Cardinality(Slices(p)) = SlicesOf[p]
  <2>1. SlicesOf[p] - 1 \in Int /\ 0 \in Int
    BY <1>1
  <2>2. /\ IsFiniteSet(0 .. SlicesOf[p] - 1)
        /\ Cardinality(0 .. SlicesOf[p] - 1) =
             IF 0 > SlicesOf[p] - 1 THEN 0 ELSE (SlicesOf[p] - 1) - 0 + 1
    BY <2>1, FS_Interval
  <2> QED BY <1>1, <2>2 DEF Slices
<1>3. IsFiniteSet(A)
  BY <1>2, FS_Subset
<1>4. Cardinality(A) \in Nat
  BY <1>3, FS_CardinalityType
<1>5. Cardinality(A \union {i}) = IF i \in A THEN Cardinality(A) ELSE Cardinality(A) + 1
  BY <1>3, FS_AddElement
<1>6. A \union {i} \in SUBSET Slices(p)
  OBVIOUS
<1>7. /\ Cardinality(A \union {i}) <= Cardinality(Slices(p))
      /\ Cardinality(Slices(p)) = Cardinality(A \union {i}) => Slices(p) = A \union {i}
  BY <1>2, <1>6, FS_Subset
<1> QED BY <1>1, <1>2, <1>4, <1>5, <1>7

-----------------------------------------------------------------------------
\* What the scripts may do to the ledger of scenario s: open a window,
\* acknowledge a stored slice of the active window, complete it.
Opened(s, p) ==
  [ledger[s] EXCEPT !.active = [at |-> ledger[s].next, plan |-> p], !.count = 0]

Move(s, new) ==
  LET l == ledger[s] IN
  \/ l.active = NoWindow /\ \E p \in Plan : new = Opened(s, p)
  \/ /\ l.active # NoWindow
     /\ \E i \in Slices(l.active.plan) :
          /\ Job(s, l.active, i) \in jobs
          /\ \/ new = acknowledged(l, i)
             \/ /\ new = completed(s, acknowledged(l, i))
                /\ l.acked \union {i} = Slices(l.active.plan)

\* A script changes the ledger only for the holder of the lease.
LEMMA PrepareOutcome ==
  ASSUME IInv, NEW s \in Scenario, NEW p \in Plan, NEW f \in Nat
  PROVE  LET out == prepare_window(s, p, f) IN
         /\ out.ledger = ledger[s] \/ (holder.fence = f /\ Move(s, out.ledger))
         /\ out.kind = "ready" =>
              /\ out.ledger.active \in WindowT
              /\ out.ledger.active = [at |-> out.ledger.active.at, plan |-> p]
              /\ out.missing \subseteq Slices(p)
<1>1. ledger[s] \in LedgerT /\ LedgerOf(s)
  BY DEF IInv, Types, LedgerInv
<1>2. NoWindow \notin WindowT
  BY DEF NoWindow, WindowT
<1>3. ledger[s].active \in WindowT /\ ledger[s].active.plan = p =>
        ledger[s].active = [at |-> ledger[s].active.at, plan |-> p]
  BY DEF WindowT
<1>4. ledger[s].next \in Nat \ {0}
  <2>1. ledger[s].last.at \in Nat
    BY <1>1 DEF LedgerT, WindowT, NoWindow
  <2> QED BY <1>1, <2>1 DEF LedgerOf
<1>5. CASE ledger[s].active # NoWindow
  BY <1>1, <1>2, <1>3, <1>5 DEF prepare_window, Outcome, same_plan, LedgerT
<1>6. CASE ledger[s].active = NoWindow
  <2>1. LET out == prepare_window(s, p, f) IN
        \/ out.ledger = ledger[s] /\ out.kind # "ready"
        \/ /\ holder.fence = f /\ out.ledger = Opened(s, p)
           /\ out.missing = Slices(p)
    BY <1>6 DEF prepare_window, Outcome, leader_is_current, Opened
  <2>2. Opened(s, p).active = [at |-> ledger[s].next, plan |-> p]
    BY <1>1 DEF Opened, LedgerT
  <2>3. Opened(s, p).active \in WindowT
    BY <2>2, <1>4 DEF WindowT
  <2> QED BY <1>6, <2>1, <2>2, <2>3 DEF Move
<1> QED BY <1>5, <1>6

LEMMA AckOutcome ==
  ASSUME IInv, NEW s \in Scenario, NEW w \in WindowT, NEW i \in Slices(w.plan),
         NEW f \in Nat, Job(s, w, i) \in jobs
  PROVE  LET out == ack_slice(s, w, i, f) IN
         out.ledger = ledger[s] \/ (holder.fence = f /\ Move(s, out.ledger))
<1> DEFINE l == ledger[s]
<1>1. l \in LedgerT /\ LedgerOf(s)
  BY DEF IInv, Types, LedgerInv
<1>2. CASE /\ leader_is_current(f) /\ l.active # NoWindow
           /\ WindowId(l.active) = WindowId(w) /\ l.active.plan = w.plan
  <2>1. l.active \in WindowT /\ l.active.at = w.at
    BY <1>1, <1>2 DEF LedgerT, WindowId
  <2>2. l.active = w
    BY <1>2, <2>1 DEF WindowT
  <2>3. w.plan \in Plan /\ l.acked \in SUBSET Slices(w.plan) /\ l.count = Cardinality(l.acked)
    BY <1>1, <1>2, <2>2 DEF WindowT, LedgerOf
  <2>4. /\ acknowledged(l, i).acked = l.acked \union {i}
        /\ acknowledged(l, i).count = Cardinality(l.acked \union {i})
        /\ acknowledged(l, i).active = w
    BY <1>1, <2>2, <2>3, Counting DEF acknowledged, LedgerT
  <2>5. /\ remaining(acknowledged(l, i)) = SlicesOf[w.plan] - Cardinality(l.acked \union {i})
        /\ Cardinality(l.acked \union {i}) \in Nat /\ SlicesOf[w.plan] \in Nat
        /\ Cardinality(l.acked \union {i}) <= SlicesOf[w.plan]
        /\ Cardinality(l.acked \union {i}) = SlicesOf[w.plan] => l.acked \union {i} = Slices(w.plan)
    <3>1. /\ Cardinality(l.acked \union {i}) \in Nat /\ SlicesOf[w.plan] \in Nat
          /\ Cardinality(l.acked \union {i}) <= SlicesOf[w.plan]
          /\ Cardinality(l.acked \union {i}) = SlicesOf[w.plan] => l.acked \union {i} = Slices(w.plan)
      BY <2>3, Counting
    <3> QED BY <2>4, <3>1 DEF remaining
  <2>6. LET out == ack_slice(s, w, i, f) IN
        \/ out.ledger = acknowledged(l, i)
        \/ out.ledger = completed(s, acknowledged(l, i)) /\ l.acked \union {i} = Slices(w.plan)
    BY <1>2, <2>5 DEF ack_slice, Outcome
  <2> QED BY <1>2, <2>2, <2>6 DEF Move, leader_is_current
<1>3. CASE ~(/\ leader_is_current(f) /\ l.active # NoWindow
             /\ WindowId(l.active) = WindowId(w) /\ l.active.plan = w.plan)
  BY <1>3 DEF ack_slice, Outcome
<1> QED BY <1>2, <1>3
-----------------------------------------------------------------------------
\* What a move does to the windows of the ledger.
Kept(s, new) ==
  /\ new.last = ledger[s].last
  /\ new.active = ledger[s].active \/ ledger[s].active = NoWindow

Finished(s, new) ==
  LET w == ledger[s].active IN
  /\ w # NoWindow /\ new.last = w /\ new.active = NoWindow
  /\ \A i \in Slices(w.plan) : Job(s, w, i) \in jobs

LEMMA MoveLedger ==
  ASSUME IInv, NEW s \in Scenario, NEW new, Move(s, new),
         jobs \subseteq jobs', ledger' = [ledger EXCEPT ![s] = new]
  PROVE  /\ new \in LedgerT /\ LedgerInv'
         /\ Kept(s, new) \/ Finished(s, new)
<1> DEFINE l == ledger[s]
<1>1. l \in LedgerT /\ LedgerOf(s) /\ ledger \in [Scenario -> LedgerT]
  BY DEF IInv, Types, LedgerInv
<1>2. /\ \A i \in l.acked : Job(s, l.active, i) \in jobs
      /\ l.last # NoWindow => \A i \in Slices(l.last.plan) : Job(s, l.last, i) \in jobs
  BY DEF IInv, LedgerInv, LedgerFollowsKafka
<1>3. NoWindow \notin WindowT /\ NoWindow.at = 0
  BY DEF NoWindow, WindowT
<1>4. l.last.at \in Nat
  BY <1>1 DEF LedgerT, WindowT, NoWindow
<1>5. SUFFICES
        /\ new \in LedgerT
        /\ Kept(s, new) \/ Finished(s, new)
        /\ new.active = NoWindow => new.acked = {}
        /\ new.active # NoWindow => /\ new.acked \subseteq Slices(new.active.plan)
                                    /\ new.active.at = new.last.at + 1
        /\ new.count = Cardinality(new.acked)
        /\ new.next = new.last.at + 1
        /\ \A i \in new.acked : Job(s, new.active, i) \in jobs
        /\ new.last # NoWindow =>
             \A i \in Slices(new.last.plan) : Job(s, new.last, i) \in jobs
  <2>1. ledger'[s] = new /\ \A r \in Scenario \ {s} : ledger'[r] = ledger[r]
    BY <1>1
  <2>2. ASSUME NEW r \in Scenario \ {s} PROVE LedgerOf(r)'
    <3>1. LedgerOf(r)
      BY DEF IInv, LedgerInv
    <3> QED BY <2>1, <3>1 DEF LedgerOf
  <2>3. LedgerOf(s)'
    BY <1>5, <2>1 DEF LedgerOf
  <2>4. LedgerFollowsKafka'
    BY <1>5, <2>1 DEF IInv, LedgerInv, LedgerFollowsKafka, Job
  <2> QED BY <1>5, <2>2, <2>3, <2>4 DEF LedgerInv
<1>6. CASE l.active = NoWindow
  <2>1. PICK p \in Plan : new = Opened(s, p)
    BY <1>6 DEF Move
  <2>2. /\ new.active = [at |-> l.next, plan |-> p] /\ new.count = 0
        /\ new.acked = {} /\ new.last = l.last /\ new.next = l.next
        /\ new.onceDone = l.onceDone
        /\ new = [active |-> new.active, acked |-> {}, count |-> 0, next |-> l.next,
                  last |-> l.last, onceDone |-> l.onceDone]
    BY Zenon, <1>1, <1>6, <2>1 DEF Opened, LedgerT, LedgerOf
  <2>3. l.next = l.last.at + 1 /\ new.active \in WindowT
    BY <1>1, <1>4, <2>2 DEF LedgerOf, WindowT
  <2>4. Cardinality({}) = 0
    BY FS_EmptySet
  <2>5. new \in LedgerT
    BY <1>1, <2>2, <2>3 DEF LedgerT
  <2> QED BY <1>2, <1>3, <1>6, <2>2, <2>3, <2>4, <2>5 DEF Kept
<1>7. CASE l.active # NoWindow
  <2>1. PICK i \in Slices(l.active.plan) :
          /\ Job(s, l.active, i) \in jobs
          /\ \/ new = acknowledged(l, i)
             \/ /\ new = completed(s, acknowledged(l, i))
                /\ l.acked \union {i} = Slices(l.active.plan)
    BY <1>7 DEF Move
  <2>2. l.active \in WindowT /\ l.active.plan \in Plan /\ l.active.at \in Nat
    BY <1>1, <1>7 DEF LedgerT, WindowT
  <2>3. /\ l.acked \in SUBSET Slices(l.active.plan) /\ l.count = Cardinality(l.acked)
        /\ l.active.at = l.last.at + 1 /\ l.next = l.last.at + 1
    BY <1>1, <1>7 DEF LedgerOf
  <2>4. Slices(l.active.plan) \subseteq Nat
    BY <2>2, DispatchAssumption DEF Slices
  <2> DEFINE x == acknowledged(l, i)
  <2>5. /\ Cardinality(l.acked \union {i}) \in Nat
        /\ x.active = l.active /\ x.acked = l.acked \union {i}
        /\ x.count = Cardinality(l.acked \union {i})
        /\ x.next = l.next /\ x.last = l.last /\ x.onceDone = l.onceDone
        /\ x = [active |-> x.active, acked |-> x.acked, count |-> x.count,
                next |-> x.next, last |-> x.last, onceDone |-> x.onceDone]
    <3>1. /\ Cardinality(l.acked) \in Nat
          /\ Cardinality(l.acked \union {i}) =
               IF i \in l.acked THEN l.count ELSE l.count + 1
      BY <2>2, <2>3, Counting
    <3>2. Cardinality(l.acked \union {i}) \in Nat
      BY <2>3, <3>1
    <3>3. x = [l EXCEPT !.acked = l.acked \union {i},
                        !.count = Cardinality(l.acked \union {i})]
      BY Zenon, <3>1 DEF acknowledged
    <3> HIDE DEF x
    <3> QED BY Zenon, <1>1, <3>2, <3>3 DEF LedgerT
  <2> HIDE DEF x
  <2>6. \A j \in l.acked \union {i} : Job(s, l.active, j) \in jobs
    BY <1>2, <2>1
  <2>7. CASE new = x
    <3>1. new \in LedgerT
      BY <1>1, <2>3, <2>4, <2>5, <2>7 DEF LedgerT
    <3>2. /\ new.active = l.active /\ new.acked = l.acked \union {i}
          /\ new.count = Cardinality(l.acked \union {i})
          /\ new.next = l.next /\ new.last = l.last
      BY <2>5, <2>7
    <3>3. new.acked \subseteq Slices(l.active.plan)
      BY <2>3, <3>2
    <3> QED BY <1>2, <1>7, <2>3, <2>6, <3>1, <3>2, <3>3 DEF Kept
  <2>8. CASE /\ new = completed(s, x)
             /\ l.acked \union {i} = Slices(l.active.plan)
    <3>1. new = [active |-> NoWindow, acked |-> {}, count |-> 0,
                 next |-> l.active.at + 1, last |-> l.active, onceDone |-> s \in Once]
      BY <2>5, <2>8 DEF completed
    <3>2. new \in LedgerT
      BY <2>2, <3>1 DEF LedgerT
    <3>3. Cardinality({}) = 0
      BY FS_EmptySet
    <3> QED BY <1>7, <2>6, <2>8, <3>1, <3>2, <3>3 DEF Finished
  <2> QED BY <2>1, <2>7, <2>8 DEF x
<1> QED BY <1>6, <1>7

-----------------------------------------------------------------------------
\* A script has run, or nothing has happened to the ledgers.
Ran(s, f, new) ==
  /\ holder.fence = f /\ Move(s, new)
  /\ ledger' = [ledger EXCEPT ![s] = new]
  /\ writer' = writer \/ writer' = [writer EXCEPT ![s] = f]

LedgerStep ==
  \/ UNCHANGED <<ledger, writer>>
  \/ \E s \in Scenario, f \in Nat \ {0}, new \in LedgerT : Ran(s, f, new)

LEMMA ApplyIsLedgerStep ==
  ASSUME IInv, NEW s \in Scenario, NEW f \in Nat \ {0}, NEW new,
         new = ledger[s] \/ (holder.fence = f /\ Move(s, new)),
         jobs \subseteq jobs', Apply(s, f, new)
  PROVE  LedgerStep
<1>1. ledger \in [Scenario -> LedgerT]
  BY DEF IInv, Types
<1>2. CASE new = ledger[s]
  BY <1>1, <1>2 DEF Apply, LedgerStep
<1>3. CASE holder.fence = f /\ Move(s, new)
  <2>1. new \in LedgerT
    BY Zenon, <1>3, MoveLedger DEF Apply
  <2> QED BY Zenon, <1>3, <2>1 DEF Apply, LedgerStep, Ran
<1> QED BY <1>2, <1>3

\* The ledger stays consistent, windows are kept or finished, and writers only
\* get newer.
LEMMA LedgerPreserved ==
  ASSUME IInv, LedgerStep, jobs \subseteq jobs'
  PROVE  /\ LedgerInv'
         /\ ledger' \in [Scenario -> LedgerT] /\ writer' \in [Scenario -> Nat]
         /\ \A s \in Scenario : writer'[s] >= writer[s] /\ writer'[s] <= fence
         /\ \A s \in Scenario : Kept(s, ledger'[s]) \/ Finished(s, ledger'[s])
<1>1. /\ ledger \in [Scenario -> LedgerT] /\ writer \in [Scenario -> Nat] /\ fence \in Nat
      /\ \A s \in Scenario : writer[s] <= fence
      /\ holder.fence # 0 => holder.fence = fence
  BY DEF IInv, Types, FenceInv
<1>2. CASE UNCHANGED <<ledger, writer>>
  <2>1. LedgerInv'
    BY <1>2 DEF IInv, LedgerInv, LedgerOf, LedgerFollowsKafka, Job
  <2> QED BY <1>1, <1>2, <2>1 DEF Kept
<1>3. ASSUME NEW s \in Scenario, NEW f \in Nat \ {0}, NEW new \in LedgerT, Ran(s, f, new)
      PROVE  /\ LedgerInv'
             /\ ledger' \in [Scenario -> LedgerT] /\ writer' \in [Scenario -> Nat]
             /\ \A r \in Scenario : writer'[r] >= writer[r] /\ writer'[r] <= fence
             /\ \A r \in Scenario : Kept(r, ledger'[r]) \/ Finished(r, ledger'[r])
  <2>1. LedgerInv' /\ (Kept(s, new) \/ Finished(s, new))
    BY Zenon, <1>3, MoveLedger DEF Ran
  <2>2. ledger' \in [Scenario -> LedgerT]
    BY <1>1, <1>3 DEF Ran
  <2>3. f = fence
    BY <1>1, <1>3 DEF Ran
  <2>4. writer' \in [Scenario -> Nat]
        /\ \A r \in Scenario : writer'[r] >= writer[r] /\ writer'[r] <= fence
    BY <1>1, <1>3, <2>3 DEF Ran
  <2>5. ASSUME NEW r \in Scenario
        PROVE  Kept(r, ledger'[r]) \/ Finished(r, ledger'[r])
    <3>1. CASE r = s
      BY <1>1, <1>3, <2>1, <3>1 DEF Ran
    <3>2. CASE r # s
      BY <1>1, <1>3, <3>2 DEF Ran, Kept
    <3> QED BY <3>1, <3>2
  <2> QED BY <2>1, <2>2, <2>4, <2>5
<1> QED BY <1>2, <1>3 DEF LedgerStep

\* Windows become known outside the ledger only as its active window.
HeldStep ==
  \A s \in Scenario, k \in Nat \ {0}, p \in Plan :
    Held(s, k, p)' => Held(s, k, p) \/ ledger'[s].active = [at |-> k, plan |-> p]

LEMMA PlanStep ==
  ASSUME IInv, LedgerStep, jobs \subseteq jobs', HeldStep
  PROVE  PlanInv'
<1>1. /\ LedgerInv' /\ ledger' \in [Scenario -> LedgerT]
      /\ \A s \in Scenario : Kept(s, ledger'[s]) \/ Finished(s, ledger'[s])
  BY LedgerPreserved
<1> SUFFICES ASSUME NEW s \in Scenario, NEW k \in Nat \ {0}, NEW p \in Plan,
                    Held(s, k, p)'
             PROVE  /\ k <= ledger'[s].last.at \/ ledger'[s].active = [at |-> k, plan |-> p]
                    /\ \A q \in Plan : Held(s, k, q)' => p = q
  BY DEF PlanInv
<1> DEFINE l == ledger[s]
           m == ledger'[s]
           W(q) == [at |-> k, plan |-> q]
<1>2. /\ l.last.at \in Nat /\ m.last.at \in Nat
      /\ l.active # NoWindow => l.active.at = l.last.at + 1
      /\ m.active # NoWindow => m.active.at = m.last.at + 1
      /\ Kept(s, m) \/ Finished(s, m)
  <2>1. l \in LedgerT /\ m \in LedgerT
    BY <1>1 DEF IInv, Types
  <2>2. LedgerOf(s) /\ LedgerOf(s)'
    BY <1>1 DEF IInv, LedgerInv
  <2>3. l.last.at \in Nat /\ m.last.at \in Nat
    BY <2>1 DEF LedgerT, WindowT, NoWindow
  <2> QED BY <1>1, <2>2, <2>3 DEF LedgerOf
<1>3. ASSUME NEW q \in Plan, Held(s, k, q)
      PROVE  k <= l.last.at \/ l.active = W(q)
  BY <1>3 DEF IInv, PlanInv
<1>4. \A q \in Plan : W(q) # NoWindow /\ W(q).at = k /\ W(q).plan = q
  BY DEF NoWindow
<1>5. ASSUME NEW q \in Plan, Held(s, k, q)'
      PROVE  k <= m.last.at \/ m.active = W(q)
  <2>1. CASE m.active = W(q)
    BY <2>1
  <2>2. CASE Held(s, k, q)
    <3>1. k <= l.last.at \/ l.active = W(q)
      BY <1>3, <2>2
    <3> HIDE DEF l, m, W
    <3>2. CASE m.last = l.last /\ (m.active = l.active \/ l.active = NoWindow)
      BY <1>4, <3>1, <3>2
    <3>3. CASE l.active # NoWindow /\ m.last = l.active
      BY <1>2, <1>4, <3>1, <3>3
    <3> QED BY <1>2, <3>2, <3>3 DEF Kept, Finished, l, m
  <2> QED BY <1>5, <2>1, <2>2 DEF HeldStep
<1>6. ASSUME NEW q \in Plan, Held(s, k, q)'
      PROVE  p = q
  <2>1. CASE Held(s, k, p) /\ Held(s, k, q)
    BY Zenon, <2>1 DEF IInv, PlanInv
  <2>2. ASSUME NEW a \in Plan, NEW b \in Plan, Held(s, k, a), m.active = W(b)
        PROVE  a = b
    <3>1. k <= l.last.at \/ l.active = W(a)
      BY <1>3, <2>2
    <3> HIDE DEF l, m, W
    <3>2. k = m.last.at + 1
      BY <1>2, <1>4, <2>2
    <3>3. m.active # NoWindow
      BY <1>4, <2>2
    <3>4. m.last = l.last /\ (m.active = l.active \/ l.active = NoWindow)
      BY <1>2, <3>3 DEF Kept, Finished, l, m
    <3>5. l.active = W(a)
      BY <1>2, <3>1, <3>2, <3>4
    <3>6. W(a) = W(b)
      BY <1>4, <2>2, <3>4, <3>5
    <3> QED BY <1>4, <3>6
  <2>3. CASE m.active = W(p) /\ m.active = W(q)
    <3> HIDE DEF W
    <3> QED BY Zenon, <1>4, <2>3
  <2> QED BY <1>6, <2>1, <2>2, <2>3 DEF HeldStep
<1> QED BY <1>5, <1>6

-----------------------------------------------------------------------------
\* A step of the scheduler of node n, as far as the invariant depends on it;
\* a step of the environment is one of a node that is not in Node.
TaskTypes ==
  /\ pc \in [Node -> Points] /\ leader \in [Node -> Nat]
  /\ todo \in [Node -> SUBSET Scenario]
  /\ scen \in [Node -> Scenario \union {NoScenario}]
  /\ window \in [Node -> WindowT \union {NoWindow}]
  /\ missing \in [Node -> SUBSET Nat]

Others(n) ==
  \A m \in Node \ {n} :
    /\ pc'[m] = pc[m] /\ leader'[m] = leader[m] /\ scen'[m] = scen[m]
    /\ window'[m] = window[m] /\ missing'[m] = missing[m]

Own(n) ==
  n \in Node =>
  /\ pc'[n] # "top" => leader'[n] # 0
  /\ Hand(n)'
  /\ pc'[n] \in Holding =>
       \/ pc[n] \in Holding /\ scen'[n] = scen[n] /\ window'[n] = window[n]
       \/ ledger'[scen'[n]].active = window'[n]

AckRequest(n) ==
  [op |-> "ack", scenario |-> scen[n], plan |-> window[n].plan,
   at |-> window[n].at, slice |-> Slice(n), leader |-> leader[n]]

\* What may be added to the topic, to the strays and to the late requests.
Sent(n) ==
  /\ jobs \subseteq jobs' /\ registered \subseteq registered'
  /\ jobs' \subseteq jobs \union stray \union
       (IF n \in Node /\ pc[n] \in Sending THEN {JobInHand(n)} ELSE {})
  /\ stray' \subseteq stray \union
       (IF n \in Node /\ pc[n] \in Sending THEN {JobInHand(n)} ELSE {})

Asked(n) ==
  \A r \in late' :
    \/ r \in late
    \/ r \in RequestT /\ r.op = "prepare" /\ r.leader # 0
    \/ n \in Node /\ pc[n] = "ack" /\ r = AckRequest(n)

\* Redis keeps the fence rules of the lease.
LeaseGood ==
  /\ holder' \in [node : Node \union {NoNode}, fence : Nat]
  /\ fence' \in Nat /\ watch' \in [Node -> Nat] /\ fence <= fence'
  /\ holder'.fence # 0 => holder'.fence = fence'
  /\ due' \in [Scenario -> Nat]

\* The record and the request in hand have their types.
LEMMA InHand ==
  ASSUME IInv, NEW n \in Node
  PROVE  /\ pc[n] \in Sending =>
              /\ Slice(n) \in missing[n] /\ Slice(n) \in Slices(window[n].plan)
              /\ JobInHand(n) \in JobT
              /\ JobInHand(n).scenario = scen[n] /\ JobInHand(n).at = window[n].at
              /\ JobInHand(n).plan = window[n].plan /\ JobInHand(n).slice = Slice(n)
              /\ scen[n] \in Scenario /\ window[n] \in WindowT
              /\ window[n] = [at |-> window[n].at, plan |-> window[n].plan]
         /\ pc[n] = "ack" => AckRequest(n) \in RequestT /\ leader[n] # 0
<1>1. /\ Hand(n) /\ missing[n] \in SUBSET Nat /\ leader[n] \in Nat
      /\ pc[n] # "top" => leader[n] # 0
  BY DEF IInv, HandInv, Types, FenceInv
<1>2. ASSUME pc[n] \in Sending
      PROVE  /\ Slice(n) \in missing[n] /\ Slice(n) \in Slices(window[n].plan)
             /\ Slice(n) \in Nat /\ scen[n] \in Scenario /\ window[n] \in WindowT
  <2>1. missing[n] # {} /\ missing[n] \subseteq Slices(window[n].plan)
        /\ scen[n] \in Scenario /\ window[n] \in WindowT
    BY <1>1, <1>2 DEF Hand, Sending, Holding, InScenario, Points
  <2>2. Slice(n) \in missing[n]
    BY <1>1, <2>1, SliceInHand
  <2> QED BY <1>1, <2>1, <2>2
<1>3. ASSUME pc[n] \in Sending
      PROVE  /\ JobInHand(n) \in JobT
             /\ JobInHand(n).scenario = scen[n] /\ JobInHand(n).at = window[n].at
             /\ JobInHand(n).plan = window[n].plan /\ JobInHand(n).slice = Slice(n)
             /\ window[n] = [at |-> window[n].at, plan |-> window[n].plan]
  BY <1>2, <1>3 DEF JobInHand, Job, JobT, WindowT
<1>4. pc[n] = "ack" => AckRequest(n) \in RequestT /\ leader[n] # 0
  BY <1>1, <1>2 DEF AckRequest, RequestT, WindowT, Sending
<1> QED BY <1>2, <1>3, <1>4

LEMMA HandStep ==
  ASSUME IInv, NEW n, Others(n), Own(n), Sent(n), Asked(n)
  PROVE  HandInv'
<1>1. \A m \in Node : Hand(m)'
  <2> SUFFICES ASSUME NEW m \in Node, m # n PROVE Hand(m)'
    BY DEF Own
  <2>1. Hand(m) /\ jobs \subseteq jobs' /\ registered \subseteq registered'
    BY DEF IInv, HandInv, Sent
  <2>2. /\ pc'[m] = pc[m] /\ scen'[m] = scen[m] /\ window'[m] = window[m]
        /\ missing'[m] = missing[m]
    BY DEF Others
  <2>3. JobInHand(m)' = JobInHand(m) /\ RunId(scen[m], window[m])' = RunId(scen[m], window[m])
    BY <2>2 DEF JobInHand, Job, Slice, RunId, WindowId
  <2> QED BY <2>1, <2>2, <2>3 DEF Hand, Slices
<1>2. \A r \in late' : Stored(r)'
  <2> SUFFICES ASSUME NEW r \in late', r.op = "ack" PROVE Stored(r)'
    BY DEF Stored
  <2>1. CASE r \in late
    BY <2>1 DEF IInv, HandInv, Stored, Sent, Slices, Job
  <2>2. CASE n \in Node /\ pc[n] = "ack" /\ r = AckRequest(n)
    <3>1. /\ r.at = window[n].at /\ r.plan = window[n].plan /\ r.slice = Slice(n)
          /\ r.scenario = scen[n]
      BY <2>2 DEF AckRequest
    <3>2. JobInHand(n) \in jobs
      BY <2>2 DEF IInv, HandInv, Hand
    <3>3. window[n].at # 0 /\ Slice(n) \in Slices(window[n].plan)
          /\ window[n] = [at |-> window[n].at, plan |-> window[n].plan]
      BY <2>2, InHand DEF Sending, WindowT
    <3> QED BY <3>1, <3>2, <3>3 DEF Stored, Sent, Slices, JobInHand
  <2> QED BY <2>1, <2>2 DEF Asked
<1>3. \A j \in (jobs \union stray)' : j.slice \in Slices(j.plan)
  <2>1. \A j \in jobs \union stray : j.slice \in Slices(j.plan)
    BY DEF IInv, HandInv
  <2>2. n \in Node /\ pc[n] \in Sending => JobInHand(n).slice \in Slices(JobInHand(n).plan)
    BY Zenon, InHand
  <2> QED BY <2>1, <2>2 DEF Sent
<1>4. RunsAreRegistered'
  <2>1. RunsAreRegistered /\ registered \subseteq registered'
    BY DEF IInv, HandInv, Sent
  <2>2. n \in Node /\ pc[n] \in Sending => RunId(scen[n], window[n]) \in registered
    BY DEF IInv, HandInv, Hand
  <2>3. n \in Node /\ pc[n] \in Sending =>
          RunId(JobInHand(n).scenario, [at |-> JobInHand(n).at, plan |-> JobInHand(n).plan])
            = RunId(scen[n], window[n])
    BY Zenon, InHand
  <2> QED BY <2>1, <2>2, <2>3 DEF RunsAreRegistered, Sent, RunId, WindowId
<1> QED BY <1>1, <1>2, <1>3, <1>4 DEF HandInv, Slices

LEMMA HeldByStep ==
  ASSUME IInv, NEW n, Others(n), Own(n), Sent(n), Asked(n), TaskTypes'
  PROVE  HeldStep
<1> SUFFICES ASSUME NEW s \in Scenario, NEW k \in Nat \ {0}, NEW p \in Plan, Held(s, k, p)'
             PROVE  Held(s, k, p) \/ ledger'[s].active = [at |-> k, plan |-> p]
  BY Zenon DEF HeldStep
<1>1. n \in Node /\ pc[n] \in Sending => pc[n] \in Holding
  BY DEF Sending, Holding, InScenario, Points
<1>2. ASSUME NEW j \in (jobs \union stray)', j.scenario = s, j.at = k, j.plan = p
      PROVE  Held(s, k, p)
  <2>1. CASE j \in jobs \union stray
    BY <1>2, <2>1 DEF Held
  <2>2. CASE n \in Node /\ pc[n] \in Sending /\ j = JobInHand(n)
    BY Zenon, <1>1, <1>2, <2>2, InHand DEF Held
  <2> QED BY <2>1, <2>2 DEF Sent
<1>3. ASSUME NEW r \in late', r.op = "ack", r.scenario = s, r.at = k, r.plan = p
      PROVE  Held(s, k, p)
  <2>1. CASE r \in late
    BY <1>3, <2>1 DEF Held
  <2>2. CASE n \in Node /\ pc[n] = "ack" /\ r = AckRequest(n)
    <3>1. scen[n] = s /\ window[n].at = k /\ window[n].plan = p
      BY <1>3, <2>2 DEF AckRequest
    <3> QED BY <1>1, <2>2, <3>1 DEF Held, Sending
  <2> QED BY <1>3, <2>1, <2>2 DEF Asked
<1>4. ASSUME NEW m \in Node, pc'[m] \in Holding, scen'[m] = s,
             window'[m].at = k, window'[m].plan = p
      PROVE  Held(s, k, p) \/ ledger'[s].active = [at |-> k, plan |-> p]
  <2>1. CASE m # n
    BY <1>4, <2>1 DEF Others, Held
  <2>2. CASE m = n /\ pc[n] \in Holding /\ scen'[n] = scen[n] /\ window'[n] = window[n]
    BY <1>4, <2>2 DEF Held
  <2>3. CASE m = n /\ ledger'[scen'[n]].active = window'[n]
    <3>1. window'[n] \in WindowT
      BY <1>4, <2>3 DEF Own, Hand
    <3>2. window'[n] = [at |-> k, plan |-> p]
      BY <1>4, <2>3, <3>1 DEF WindowT
    <3> QED BY <1>4, <2>3, <3>2
  <2> QED BY <1>4, <2>1, <2>2, <2>3 DEF Own
<1> QED BY <1>2, <1>3, <1>4 DEF Held

\* The summary of the last lemmas.
LEMMA NodeStep ==
  ASSUME IInv, NEW n, Others(n), Own(n), Sent(n), Asked(n), TaskTypes',
         LedgerStep, LeaseGood
  PROVE  IInv'
<1>1. jobs \subseteq jobs'
  BY DEF Sent
<1>2. LedgerInv' /\ ledger' \in [Scenario -> LedgerT] /\ writer' \in [Scenario -> Nat]
      /\ \A s \in Scenario : writer'[s] <= fence
  BY <1>1, LedgerPreserved
<1>3. HandInv' /\ PlanInv'
  BY <1>1, HandStep, HeldByStep, PlanStep
<1>4. (jobs \subseteq JobT)' /\ (stray \subseteq JobT)' /\ (late \subseteq RequestT)'
  BY InHand DEF IInv, Types, Sent, Asked
<1>5. Types'
  BY <1>2, <1>4 DEF Types, TaskTypes, LeaseGood
<1>6. FenceInv'
  <2>1. \A m \in Node : pc'[m] # "top" => leader'[m] # 0
    BY DEF IInv, FenceInv, Others, Own
  <2>2. \A r \in late' : r.leader # 0
    BY InHand DEF IInv, FenceInv, Asked, AckRequest
  <2>3. \A s \in Scenario : writer'[s] <= fence'
    BY <1>2 DEF LeaseGood, IInv, Types
  <2> QED BY <2>1, <2>2, <2>3 DEF FenceInv, LeaseGood
<1> QED BY <1>2, <1>3, <1>5, <1>6 DEF IInv

-----------------------------------------------------------------------------
\* The actions.  Leaving a scenario or a pass drops what was in hand.
LEMMA Leaving ==
  ASSUME IInv, NEW n \in Node,
         LeavePass(n) \/ (pc[n] # "top" /\ LeaveScenario(n))
  PROVE  Others(n) /\ Own(n) /\ TaskTypes'
<1>1. TaskTypes /\ (pc[n] # "top" => leader[n] # 0)
  BY DEF IInv, Types, FenceInv, TaskTypes
<1>2. Others(n)
  BY <1>1 DEF LeavePass, LeaveScenario, Goto, Others, TaskTypes
<1>3. TaskTypes'
  BY <1>1 DEF LeavePass, LeaveScenario, Goto, TaskTypes, Points
<1>4. pc'[n] \in {"top", "plan"} /\ (pc'[n] = "plan" => leader'[n] # 0)
  BY <1>1 DEF LeavePass, LeaveScenario, Goto, TaskTypes
<1>5. Own(n)
  BY <1>4 DEF Own, Hand, InScenario, Holding, Sending, Points
<1> QED BY <1>2, <1>3, <1>5

\* Most steps leave the lease, the topic or the requests alone.
LEMMA Quiet ==
  ASSUME IInv, NEW n
  PROVE  /\ UNCHANGED <<leaseVars, due>> => LeaseGood
         /\ UNCHANGED <<kafkaVars, registered>> => Sent(n)
         /\ UNCHANGED late => Asked(n)
         /\ UNCHANGED <<ledger, writer>> => LedgerStep
         /\ UNCHANGED taskVars /\ n \notin Node => Others(n) /\ Own(n) /\ TaskTypes'
<1>1. UNCHANGED <<leaseVars, due>> => LeaseGood
  BY DEF IInv, Types, FenceInv, LeaseGood, leaseVars
<1>2. UNCHANGED <<kafkaVars, registered>> => Sent(n)
  BY DEF Sent, kafkaVars
<1>3. UNCHANGED late => Asked(n)
  BY DEF Asked
<1>4. UNCHANGED <<ledger, writer>> => LedgerStep
  BY DEF LedgerStep
<1>5. UNCHANGED taskVars /\ n \notin Node => Others(n) /\ Own(n) /\ TaskTypes'
  BY DEF IInv, Types, TaskTypes, taskVars, Others, Own
<1> QED BY <1>1, <1>2, <1>3, <1>4, <1>5

\* Steps inside one pass that only move the task.
LEMMA PassSteps ==
  ASSUME IInv, NEW n \in Node,
         \/ BeginPass(n) \/ (\E s \in Scenario : PickScenario(n, s))
         \/ BeginRegister(n) \/ StartPublish(n) \/ PublishOk(n)
  PROVE  IInv' /\ LedgerStep
<1>1. /\ TaskTypes /\ (pc[n] # "top" => leader[n] # 0) /\ Hand(n)
      /\ watch[n] \in Nat
  BY DEF IInv, Types, FenceInv, TaskTypes, HandInv
<1>2. UNCHANGED <<leaseVars, due, kafkaVars, registered, ledger, writer, late, window, missing>>
  BY Zenon DEF BeginPass, PickScenario, BeginRegister, StartPublish, PublishOk, redisVars
<1>3. Others(n) /\ TaskTypes'
  BY <1>1, <1>2 DEF BeginPass, PickScenario, BeginRegister, StartPublish, PublishOk,
     Goto, Others, TaskTypes, Points
<1>4. Own(n)
  <2>1. CASE BeginPass(n)
    BY <1>1, <2>1 DEF BeginPass, Goto, Own, Hand, InScenario, Holding, Sending, TaskTypes
  <2>2. CASE \E s \in Scenario : PickScenario(n, s)
    BY <1>1, <2>2 DEF PickScenario, Goto, Own, Hand, InScenario, Holding, Sending, TaskTypes
  <2>3. CASE BeginRegister(n)
    BY <1>1, <1>2, <2>3 DEF BeginRegister, Goto, Own, Hand, InScenario, Holding, Sending, TaskTypes,
       Points
  <2>4. CASE StartPublish(n)
    BY Zenon, <1>1, <1>2, <2>4 DEF StartPublish, Goto, Own, Hand, InScenario, Holding, Sending, TaskTypes,
       Points, Slices, RunId, WindowId
  <2>5. CASE PublishOk(n)
    BY Zenon, <1>1, <1>2, <2>5 DEF PublishOk, Goto, Own, Hand, InScenario, Holding, Sending, TaskTypes,
       Points, Slices, RunId, WindowId, kafkaVars, JobInHand, Job, Slice
  <2> QED BY <2>1, <2>2, <2>3, <2>4, <2>5
<1>5. LeaseGood /\ Sent(n) /\ Asked(n) /\ LedgerStep
  BY <1>2, Quiet
<1> QED BY <1>3, <1>4, <1>5, NodeStep

LEMMA AbandonedRecord ==
  ASSUME IInv, NEW n \in Node, AbandonRecord(n), registered \subseteq registered'
  PROVE  Sent(n)
BY DEF AbandonRecord, kafkaVars, Sent, Sending

\* Steps that give up a scenario or a pass without calling Redis.
LEMMA LeavingSteps ==
  ASSUME IInv, NEW n \in Node,
         \/ EndPass(n) \/ FinishWindow(n) \/ RegisterFails(n)
         \/ PublishFails(n) \/ CancelPublish(n) \/ Crash(n)
  PROVE  IInv' /\ LedgerStep
<1>1. LeavePass(n) \/ (pc[n] # "top" /\ LeaveScenario(n))
  BY DEF EndPass, FinishWindow, RegisterFails, PublishFails, CancelPublish, Crash
<1>2. UNCHANGED <<ledger, writer, late, due>> /\ registered \subseteq registered'
  BY DEF EndPass, FinishWindow, RegisterFails, PublishFails, CancelPublish, Crash, redisVars
<1>3. Sent(n)
  <2>1. UNCHANGED kafkaVars \/ AbandonRecord(n)
    BY DEF EndPass, FinishWindow, RegisterFails, PublishFails, CancelPublish, Crash
  <2>2. AbandonRecord(n)
    BY <2>1 DEF AbandonRecord
  <2> QED BY <1>2, <2>2, AbandonedRecord
<1>4. LeaseGood
  <2>1. CASE Crash(n)
    <3>1. /\ holder \in [node : Node \union {NoNode}, fence : Nat] /\ fence \in Nat
          /\ watch \in [Node -> Nat] /\ due \in [Scenario -> Nat]
          /\ holder.fence # 0 => holder.fence = fence
      BY DEF IInv, Types, FenceInv
    <3>2. fence' = fence /\ watch' \in [Node -> Nat]
      BY <2>1, <3>1 DEF Crash, Withdraw
    <3>3. holder' = holder \/ holder' = [holder EXCEPT !.node = NoNode]
      BY <2>1 DEF Crash
    <3>4. holder' \in [node : Node \union {NoNode}, fence : Nat] /\ holder'.fence = holder.fence
      BY <3>1, <3>3
    <3> QED BY <1>2, <3>1, <3>2, <3>4 DEF LeaseGood
  <2>2. CASE ~Crash(n)
    <3>1. UNCHANGED <<leaseVars, due>>
      BY <2>2 DEF EndPass, FinishWindow, RegisterFails, PublishFails, CancelPublish
    <3> QED BY <3>1, Quiet
  <2> QED BY <2>1, <2>2
<1>5. Asked(n) /\ LedgerStep
  BY <1>2, Quiet
<1>6. Others(n) /\ Own(n) /\ TaskTypes'
  BY <1>1, Leaving
<1> QED BY <1>3, <1>4, <1>5, <1>6, NodeStep

\* The run is registered.
LEMMA RegisterStep ==
  ASSUME IInv, NEW n \in Node, Register(n)
  PROVE  IInv' /\ LedgerStep
<1>1. TaskTypes /\ leader[n] # 0 /\ Hand(n)
  BY DEF IInv, Types, FenceInv, TaskTypes, HandInv, Register
<1>2. /\ UNCHANGED <<leaseVars, due, ledger, writer, kafkaVars, late, leader, todo, scen,
                     window, missing>>
      /\ registered' = registered \union {RunId(scen[n], window[n])}
      /\ pc' = [pc EXCEPT ![n] = "slice"] /\ pc[n] = "registering"
  BY DEF Register, Goto
<1>3. Others(n) /\ TaskTypes'
  BY <1>1, <1>2 DEF Others, TaskTypes, Points
<1>4. Own(n)
  <2>1. pc'[n] = "slice"
    BY <1>1, <1>2 DEF TaskTypes
  <2>2. RunId(scen[n], window[n])' = RunId(scen[n], window[n])
    BY <1>2 DEF RunId, WindowId
  <2> QED BY <1>1, <1>2, <2>1, <2>2
          DEF Own, Hand, InScenario, Holding, Sending, Points, Slices
<1>5. Sent(n)
  BY <1>2 DEF Sent, kafkaVars
<1>6. LeaseGood /\ Asked(n) /\ LedgerStep
  BY Zenon, <1>2, Quiet
<1> QED BY <1>3, <1>4, <1>5, <1>6, NodeStep

\* The brokers store the record in hand.
LEMMA BrokerStep ==
  ASSUME IInv, NEW n \in Node, BrokerStore(n)
  PROVE  IInv' /\ LedgerStep
<1>1. TaskTypes /\ leader[n] # 0 /\ Hand(n)
  BY DEF IInv, Types, FenceInv, TaskTypes, HandInv, BrokerStore
<1>2. /\ UNCHANGED <<leaseVars, due, ledger, writer, registered, stray, late, leader, todo,
                     scen, window, missing>>
      /\ jobs' = jobs \union {JobInHand(n)}
      /\ pc' = [pc EXCEPT ![n] = "stored"] /\ pc[n] = "publishing"
  BY DEF BrokerStore, Goto, redisVars
<1>3. Others(n) /\ TaskTypes'
  BY <1>1, <1>2 DEF Others, TaskTypes, Points
<1>4. Own(n)
  <2>1. pc'[n] = "stored"
    BY <1>1, <1>2 DEF TaskTypes
  <2>2. /\ RunId(scen[n], window[n])' = RunId(scen[n], window[n])
        /\ JobInHand(n)' = JobInHand(n)
    BY Zenon, <1>2 DEF RunId, WindowId, JobInHand, Job, Slice
  <2> QED BY Zenon, <1>1, <1>2, <2>1, <2>2
          DEF Own, Hand, InScenario, Holding, Sending, Points, Slices
<1>5. Sent(n)
  BY <1>2 DEF Sent, Sending
<1>6. LeaseGood /\ Asked(n) /\ LedgerStep
  BY <1>2, Quiet
<1> QED BY <1>3, <1>4, <1>5, <1>6, NodeStep

\* prepare_window, answered or not.
LEMMA PrepareSteps ==
  ASSUME IInv, NEW n \in Node, Prepare(n) \/ PrepareFails(n)
  PROVE  IInv' /\ LedgerStep
<1> DEFINE out == prepare_window(scen[n], PlanOf[n], leader[n])
<1>1. /\ TaskTypes /\ leader[n] \in Nat \ {0} /\ scen[n] \in Scenario /\ PlanOf[n] \in Plan
      /\ pc[n] = "prepare" /\ ledger \in [Scenario -> LedgerT]
  <2>1. TaskTypes /\ Hand(n) /\ (pc[n] # "top" => leader[n] # 0)
        /\ ledger \in [Scenario -> LedgerT]
    BY DEF IInv, Types, FenceInv, TaskTypes, HandInv
  <2>2. pc[n] = "prepare"
    BY Zenon DEF Prepare, PrepareFails
  <2> QED BY <2>1, <2>2, DispatchAssumption DEF Hand, InScenario, Points, TaskTypes
<1>2. /\ out.ledger = ledger[scen[n]] \/ (holder.fence = leader[n] /\ Move(scen[n], out.ledger))
      /\ out.kind = "ready" =>
           /\ out.ledger.active \in WindowT
           /\ out.ledger.active = [at |-> out.ledger.active.at, plan |-> PlanOf[n]]
           /\ out.missing \subseteq Slices(PlanOf[n])
  BY Zenon, <1>1, PrepareOutcome
<1>3. UNCHANGED <<leaseVars, due, registered, kafkaVars>>
  BY Zenon DEF Prepare, PrepareFails
<1>4. LeaseGood /\ Sent(n)
  BY <1>3, Quiet
<1>5. ASSUME Apply(scen[n], leader[n], out.ledger)
      PROVE  LedgerStep
  <2>1. jobs \subseteq jobs'
    BY <1>3 DEF kafkaVars
  <2> HIDE DEF out
  <2> QED BY <1>1, <1>2, <1>5, <2>1, ApplyIsLedgerStep
<1>6. CASE Prepare(n)
  <2>1. UNCHANGED late /\ Apply(scen[n], leader[n], out.ledger)
    BY Zenon, <1>6 DEF Prepare
  <2>2. LedgerStep /\ Asked(n)
    BY Zenon, <1>5, <2>1, Quiet
  <2>3. CASE LeavePass(n) \/ LeaveScenario(n)
    BY Zenon, <1>1, <1>4, <2>2, <2>3, Leaving, NodeStep
  <2>4. CASE ~(LeavePass(n) \/ LeaveScenario(n))
    <3>1. /\ out.kind = "ready"
          /\ window' = [window EXCEPT ![n] =
                           [at |-> out.ledger.active.at, plan |-> PlanOf[n]]]
          /\ missing' = [missing EXCEPT ![n] = out.missing]
          /\ pc' = [pc EXCEPT ![n] = "register"]
          /\ UNCHANGED <<leader, todo, scen>>
      BY Zenon, <1>6, <2>4 DEF Prepare, Goto
    <3>2. ledger' = [ledger EXCEPT ![scen[n]] = out.ledger]
      BY Zenon, <2>1 DEF Apply
    <3>3. Slices(PlanOf[n]) \subseteq Nat
      BY <1>1, DispatchAssumption DEF Slices
    <3> HIDE DEF out
    <3>4. /\ window'[n] = out.ledger.active /\ window'[n] \in WindowT
          /\ window'[n].plan = PlanOf[n]
          /\ missing'[n] \subseteq Slices(PlanOf[n]) /\ pc'[n] = "register"
          /\ scen'[n] = scen[n] /\ leader'[n] = leader[n]
          /\ ledger'[scen[n]] = out.ledger
      BY <1>1, <1>2, <3>1, <3>2 DEF TaskTypes
    <3>5. Others(n)
      BY Zenon, <1>1, <3>1 DEF Others, TaskTypes
    <3>6. TaskTypes'
      <4>1. window' = [window EXCEPT ![n] = out.ledger.active]
        BY Zenon, <1>2, <3>1
      <4>2. out.missing \in SUBSET Nat /\ "register" \in Points
            /\ out.ledger.active \in WindowT
        BY Zenon, <1>2, <3>1, <3>3 DEF Points
      <4> QED BY Zenon, <1>1, <3>1, <4>1, <4>2 DEF TaskTypes
    <3>7. Own(n)
      BY Zenon, <1>1, <3>4 DEF Own, Hand, InScenario, Holding, Sending, Points, Slices
    <3> QED BY <1>4, <2>2, <3>5, <3>6, <3>7, NodeStep
  <2> QED BY <2>3, <2>4
<1>7. CASE PrepareFails(n)
  <2> DEFINE request == [op |-> "prepare", scenario |-> scen[n], plan |-> PlanOf[n],
                         at |-> 0, slice |-> 0, leader |-> leader[n]]
  <2>1. LeaveScenario(n) /\ CallFails(scen[n], leader[n], out.ledger, request)
    BY Zenon, <1>7 DEF PrepareFails
  <2>2. LedgerStep
    BY Zenon, <1>5, <2>1, Quiet DEF CallFails
  <2>3. request \in RequestT /\ request.op = "prepare" /\ request.leader # 0
    BY Zenon, <1>1 DEF RequestT
  <2>4. Asked(n)
    <3>1. late' \subseteq late \union {request}
      BY Zenon, <2>1 DEF CallFails
    <3> HIDE DEF request
    <3> QED BY <2>3, <3>1 DEF Asked
  <2> QED BY Zenon, <1>1, <1>4, <2>1, <2>2, <2>4, Leaving, NodeStep
<1> QED BY <1>6, <1>7

\* ack_slice, answered or not.
LEMMA AckSteps ==
  ASSUME IInv, NEW n \in Node, Ack(n) \/ AckFails(n)
  PROVE  IInv' /\ LedgerStep
<1> DEFINE out == ack_slice(scen[n], window[n], Slice(n), leader[n])
<1>1. /\ TaskTypes /\ leader[n] \in Nat \ {0} /\ Hand(n) /\ pc[n] = "ack"
  <2>1. TaskTypes /\ Hand(n) /\ (pc[n] # "top" => leader[n] # 0)
    BY DEF IInv, Types, FenceInv, TaskTypes, HandInv
  <2>2. pc[n] = "ack"
    BY Zenon DEF Ack, AckFails
  <2> QED BY <2>1, <2>2 DEF TaskTypes
<1>2. /\ scen[n] \in Scenario /\ window[n] \in WindowT /\ Slice(n) \in Slices(window[n].plan)
      /\ Job(scen[n], window[n], Slice(n)) \in jobs
  BY Zenon, <1>1, InHand DEF Sending, Hand, JobInHand
<1>3. out.ledger = ledger[scen[n]] \/ (holder.fence = leader[n] /\ Move(scen[n], out.ledger))
  BY Zenon, <1>1, <1>2, AckOutcome
<1>4. UNCHANGED <<leaseVars, due, registered, kafkaVars>>
  BY Zenon DEF Ack, AckFails
<1>5. LeaseGood /\ Sent(n)
  BY <1>4, Quiet
<1>6. ASSUME Apply(scen[n], leader[n], out.ledger)
      PROVE  LedgerStep
  <2>1. jobs \subseteq jobs'
    BY <1>4 DEF kafkaVars
  <2> HIDE DEF out
  <2> QED BY Zenon, <1>1, <1>2, <1>3, <1>6, <2>1, ApplyIsLedgerStep
<1>7. CASE Ack(n)
  <2>1. UNCHANGED late /\ Apply(scen[n], leader[n], out.ledger)
    BY Zenon, <1>7 DEF Ack
  <2>2. LedgerStep /\ Asked(n)
    BY Zenon, <1>6, <2>1, Quiet
  <2>3. CASE LeavePass(n) \/ LeaveScenario(n)
    BY Zenon, <1>1, <1>5, <2>2, <2>3, Leaving, NodeStep
  <2>4. CASE ~(LeavePass(n) \/ LeaveScenario(n))
    <3>1. /\ missing' = [missing EXCEPT ![n] = @ \ {Slice(n)}]
          /\ pc' = [pc EXCEPT ![n] = "slice"]
          /\ UNCHANGED <<leader, todo, scen, window, registered>>
      BY Zenon, <1>4, <1>7, <2>4 DEF Ack, Goto
    <3>2. /\ missing'[n] = missing[n] \ {Slice(n)} /\ pc'[n] = "slice"
          /\ leader'[n] = leader[n] /\ scen'[n] = scen[n] /\ window'[n] = window[n]
      BY <1>1, <3>1 DEF TaskTypes
    <3>3. Others(n) /\ TaskTypes'
      BY <1>1, <3>1 DEF Others, TaskTypes, Points
    <3>4. RunId(scen[n], window[n])' = RunId(scen[n], window[n])
      BY Zenon, <3>2 DEF RunId, WindowId
    <3>5. Own(n)
      BY <1>1, <3>1, <3>2, <3>4 DEF Own, Hand, InScenario, Holding, Sending, Points, Slices
    <3> QED BY <1>5, <2>2, <3>3, <3>5, NodeStep
  <2> QED BY <2>3, <2>4
<1>8. CASE AckFails(n)
  <2>1. LeaveScenario(n) /\ CallFails(scen[n], leader[n], out.ledger, AckRequest(n))
    BY Zenon, <1>8 DEF AckFails, AckRequest
  <2>2. LedgerStep
    BY Zenon, <1>6, <2>1, Quiet DEF CallFails
  <2>3. Asked(n)
    BY Zenon, <1>1, <2>1 DEF CallFails, Asked
  <2> QED BY Zenon, <1>1, <1>5, <2>1, <2>2, <2>3, Leaving, NodeStep
<1> QED BY <1>7, <1>8

\* Steps of the environment.
LEMMA EnvironmentSteps ==
  ASSUME IInv,
         \/ \E job \in stray : DeliverStray(job)
         \/ \E r \in late : ExecuteLate(r)
         \/ \E s \in Scenario : DueTick(s)
         \/ LeaseStep \/ UNCHANGED vars
  PROVE  IInv' /\ LedgerStep
<1>1. NoNode \notin Node
  BY NoNodeAssumption
<1>2. UNCHANGED taskVars /\ registered' = registered
  BY Zenon DEF DeliverStray, ExecuteLate, DueTick, LeaseStep, vars, redisVars
<1>3. Others(NoNode) /\ Own(NoNode) /\ TaskTypes'
  BY <1>1, <1>2, Quiet
<1>4. Sent(NoNode)
  <2>1. jobs \subseteq jobs' /\ jobs' \subseteq jobs \union stray /\ stray' \subseteq stray
    BY Zenon DEF DeliverStray, ExecuteLate, DueTick, LeaseStep, vars, kafkaVars
  <2> QED BY <1>2, <2>1 DEF Sent
<1>5. Asked(NoNode)
  <2>1. late' \subseteq late
    BY Zenon DEF DeliverStray, ExecuteLate, DueTick, LeaseStep, vars
  <2> QED BY <2>1 DEF Asked
<1>6. LedgerStep
  <2>1. ASSUME NEW r \in late, ExecuteLate(r)
        PROVE  LedgerStep
    <3>1. /\ r \in RequestT /\ r.leader \in Nat \ {0} /\ r.scenario \in Scenario
          /\ r.plan \in Plan /\ r.op \in {"prepare", "ack"} /\ r.at \in Nat /\ Stored(r)
      BY DEF IInv, Types, FenceInv, HandInv, RequestT
    <3>2. jobs \subseteq jobs'
      BY <2>1 DEF ExecuteLate, kafkaVars
    <3>3. CASE r.op = "prepare"
      <4> DEFINE new == prepare_window(r.scenario, r.plan, r.leader).ledger
      <4>1. Apply(r.scenario, r.leader, new)
        BY <2>1, <3>3 DEF ExecuteLate
      <4>2. new = ledger[r.scenario] \/ (holder.fence = r.leader /\ Move(r.scenario, new))
        BY Zenon, <3>1, PrepareOutcome
      <4> HIDE DEF new
      <4> QED BY <3>1, <3>2, <4>1, <4>2, ApplyIsLedgerStep
    <3>4. CASE r.op = "ack"
      <4> DEFINE w == [at |-> r.at, plan |-> r.plan]
                 new == ack_slice(r.scenario, w, r.slice, r.leader).ledger
      <4>1. Apply(r.scenario, r.leader, new)
        BY <2>1, <3>4 DEF ExecuteLate
      <4>2. /\ w \in WindowT /\ r.slice \in Slices(w.plan)
            /\ Job(r.scenario, w, r.slice) \in jobs
        BY <3>1, <3>4 DEF Stored, WindowT
      <4> HIDE DEF w
      <4>3. new = ledger[r.scenario] \/ (holder.fence = r.leader /\ Move(r.scenario, new))
        BY <3>1, <4>2, AckOutcome
      <4> HIDE DEF new
      <4> QED BY <3>1, <3>2, <4>1, <4>3, ApplyIsLedgerStep
    <3> QED BY <3>1, <3>3, <3>4
  <2>2. CASE UNCHANGED <<ledger, writer>>
    BY <2>2, Quiet
  <2> QED BY Zenon, <2>1, <2>2 DEF DeliverStray, DueTick, LeaseStep, vars, redisVars
<1>7. LeaseGood
  <2>1. /\ holder \in [node : Node \union {NoNode}, fence : Nat] /\ fence \in Nat
        /\ watch \in [Node -> Nat] /\ due \in [Scenario -> Nat]
        /\ holder.fence # 0 => holder.fence = fence
    BY DEF IInv, Types, FenceInv
  <2>2. CASE UNCHANGED <<leaseVars, due>>
    BY <2>2, Quiet
  <2>3. ASSUME NEW s \in Scenario, DueTick(s)
        PROVE  LeaseGood
    BY <2>1, <2>3 DEF DueTick, LeaseGood, leaseVars
  <2>4. ASSUME NEW n \in Node, Grant(n), due' = due
        PROVE  LeaseGood
    BY <2>1, <2>4 DEF Grant, LeaseGood
  <2>5. ASSUME NEW n \in Node, Announce(n), due' = due
        PROVE  LeaseGood
    BY <2>1, <2>5 DEF Announce, LeaseGood
  <2>6. ASSUME NEW nodes \in SUBSET Node, Lapse(nodes), due' = due
        PROVE  LeaseGood
    BY <2>1, <2>6 DEF Lapse, Withdraw, Nobody, LeaseGood
  <2>7. CASE LeaseStep
    BY <2>4, <2>5, <2>6, <2>7 DEF LeaseStep
  <2> QED BY Zenon, <2>2, <2>3, <2>7 DEF DeliverStray, ExecuteLate, vars
<1> QED BY <1>3, <1>4, <1>5, <1>6, <1>7, NodeStep

-----------------------------------------------------------------------------
LEMMA InitIInv == Init => IInv
<1> SUFFICES ASSUME Init PROVE IInv
  OBVIOUS
<1> USE DEF Init, LeaseInit
<1>1. Types
  <2>1. EmptyLedger \in LedgerT
    BY DEF EmptyLedger, LedgerT
  <2> QED BY <2>1 DEF Types, Nobody, Points
<1>2. FenceInv
  BY DEF FenceInv, Nobody
<1>3. HandInv
  BY DEF HandInv, Hand, InScenario, Holding, Sending, RunsAreRegistered
<1>4. LedgerInv
  <2>1. Cardinality({}) = 0
    BY FS_EmptySet
  <2>2. \A s \in Scenario : LedgerOf(s)
    <3>1. NoWindow.at + 1 = 1
      BY DEF NoWindow
    <3> QED BY Zenon, <2>1, <3>1 DEF LedgerOf, EmptyLedger
  <2>3. LedgerFollowsKafka
    BY DEF LedgerFollowsKafka, EmptyLedger
  <2> QED BY <2>2, <2>3 DEF LedgerInv
<1>5. PlanInv
  BY DEF PlanInv, Held, Holding, InScenario
<1> QED BY <1>1, <1>2, <1>3, <1>4, <1>5 DEF IInv

LEMMA NextIInv ==
  ASSUME IInv, [Next]_vars
  PROVE  IInv' /\ LedgerStep
<1>1. ASSUME NEW n \in Node, SchedulerStep(n) \/ SchedulerFault(n)
      PROVE  IInv' /\ LedgerStep
  BY <1>1, PassSteps, LeavingSteps, RegisterStep, BrokerStep, PrepareSteps, AckSteps
     DEF SchedulerStep, SchedulerFault
<1> QED BY <1>1, EnvironmentSteps DEF Next

LEMMA Invariance == Spec => []IInv
<1>1. IInv /\ [Next]_vars => IInv'
  BY NextIInv
<1> QED BY <1>1, InitIInv, PTL DEF Spec

\* What a step does to the topic: nothing, or one record that somebody holds.
Published ==
  /\ UNCHANGED ledger
  /\ \E j \in JobT : /\ Held(j.scenario, j.at, j.plan) /\ j.slice \in Slices(j.plan)
                     /\ jobs' = jobs \union {j}

LEMMA TopicStep ==
  ASSUME IInv, [Next]_vars
  PROVE  jobs' = jobs \/ Published
<1>1. ASSUME NEW n \in Node, BrokerStore(n)
      PROVE  Published
  <2>1. /\ UNCHANGED ledger /\ jobs' = jobs \union {JobInHand(n)}
        /\ pc[n] \in Sending /\ pc[n] \in Holding
    BY <1>1 DEF BrokerStore, redisVars, Sending, Holding, InScenario, Points
  <2> DEFINE j == JobInHand(n)
  <2>2. /\ j \in JobT /\ j.scenario = scen[n] /\ j.at = window[n].at
        /\ j.plan = window[n].plan /\ j.slice \in Slices(j.plan)
    BY Zenon, <2>1, InHand
  <2> HIDE DEF j
  <2>3. Held(j.scenario, j.at, j.plan)
    BY <2>1, <2>2 DEF Held
  <2> QED BY <2>1, <2>2, <2>3 DEF Published, j
<1>2. ASSUME NEW job \in stray, DeliverStray(job)
      PROVE  Published
  <2>1. UNCHANGED ledger /\ jobs' = jobs \union {job}
    BY <1>2 DEF DeliverStray, redisVars
  <2>2. job \in JobT /\ job.slice \in Slices(job.plan)
    BY DEF IInv, Types, HandInv
  <2>3. Held(job.scenario, job.at, job.plan)
    BY DEF Held
  <2> QED BY <2>1, <2>2, <2>3 DEF Published
<1>3. ASSUME NEW n \in Node, SchedulerStep(n) \/ SchedulerFault(n)
      PROVE  BrokerStore(n) \/ jobs' = jobs
  <2>1. CASE SchedulerStep(n)
    BY Zenon, <2>1 DEF SchedulerStep, BeginPass, PickScenario, EndPass, Prepare, BeginRegister,
       Register, StartPublish, FinishWindow, PublishOk, CancelPublish, Ack, kafkaVars,
       AbandonRecord
  <2>2. CASE SchedulerFault(n)
    BY <2>2 DEF SchedulerFault, PrepareFails, RegisterFails, PublishFails, AckFails, Crash,
       kafkaVars, AbandonRecord
  <2> QED BY <1>3, <2>1, <2>2
<1> QED BY Zenon, <1>1, <1>2, <1>3 DEF Next, ExecuteLate, DueTick, LeaseStep, vars, kafkaVars

-----------------------------------------------------------------------------
\* The ledger counts a slice as dispatched only after Kafka has stored its
\* record (scheduler_loop publishes, then calls ack_slice).
THEOREM LedgerAfterKafka == Spec => []LedgerFollowsKafka
<1>1. IInv => LedgerFollowsKafka
  BY DEF IInv, LedgerInv
<1> QED BY <1>1, Invariance, PTL

\* No record of a run is in the topic, or on its way, before register_run has
\* announced the run to the aggregation store.
THEOREM RegisteredBeforePublished == Spec => []RunsAreRegistered
<1>1. IInv => RunsAreRegistered
  BY DEF IInv, HandInv
<1> QED BY <1>1, Invariance, PTL

\* The fence check of the scripts: no write of an older leader lands in a ledger
\* that a newer leader has written.
THEOREM FencedWrites == Spec => WritesAreFenced
<1>1. IInv /\ [Next]_vars => [\A s \in Scenario : writer'[s] >= writer[s]]_vars
  <2> SUFFICES ASSUME IInv, [Next]_vars
               PROVE  \A s \in Scenario : writer'[s] >= writer[s]
    OBVIOUS
  <2>1. LedgerStep /\ jobs \subseteq jobs'
    BY NextIInv, TopicStep DEF Published
  <2> QED BY <2>1, LedgerPreserved
<1> QED BY <1>1, Invariance, PTL DEF Spec, WritesAreFenced

\* The initial state of dispatch is one of the abstract specification.
LEMMA InitRefines == Init => Abstract!Init
<1> SUFFICES ASSUME Init PROVE Abstract!Init
  OBVIOUS
<1>1. \A s \in Scenario : ledger[s].last.at = 0
  BY DEF Init, EmptyLedger, NoWindow
<1> QED BY <1>1 DEF Init, Abstract!Init

\* A completed window is a Complete step, a record in the topic is a Publish
\* step, and everything else changes nothing that the abstraction sees.
LEMMA StepRefines ==
  ASSUME IInv, IInv', [Next]_vars
  PROVE  [Abstract!Next]_<<jobs, [s \in Scenario |-> ledger[s].last.at]>>
<1> DEFINE d == [s \in Scenario |-> ledger[s].last.at]
<1>1. LedgerStep /\ (jobs' = jobs \/ Published)
  BY NextIInv, TopicStep
<1>2. /\ \A s \in Scenario : Kept(s, ledger'[s]) \/ Finished(s, ledger'[s])
      /\ ledger \in [Scenario -> LedgerT]
  BY <1>1, LedgerPreserved DEF Published, IInv, Types
<1>3. CASE Published
  <2>1. PICK j \in JobT : /\ Held(j.scenario, j.at, j.plan) /\ j.slice \in Slices(j.plan)
                          /\ jobs' = jobs \union {j}
    BY <1>3 DEF Published
  <2> DEFINE s == j.scenario
             k == j.at
             p == j.plan
  <2>2. /\ s \in Scenario /\ k \in Nat \ {0} /\ p \in Plan
        /\ j = [scenario |-> s, at |-> k, plan |-> p, slice |-> j.slice]
    BY DEF JobT
  <2>3. /\ k <= ledger[s].last.at \/ ledger[s].active = [at |-> k, plan |-> p]
        /\ \A q \in Plan : Held(s, k, q) => p = q
    BY <2>1, <2>2 DEF IInv, PlanInv
  <2>4. ledger[s].last.at \in Nat /\ k \in 1 .. ledger[s].last.at + 1
    <3>1. ledger[s] \in LedgerT /\ LedgerOf(s)
      BY <2>2 DEF IInv, Types, LedgerInv
    <3>2. ledger[s].last.at \in Nat
      BY <3>1 DEF LedgerT, WindowT, NoWindow
    <3>3. ledger[s].active = [at |-> k, plan |-> p] => k = ledger[s].last.at + 1
      <4>1. [at |-> k, plan |-> p] # NoWindow
        BY <2>2 DEF NoWindow
      <4> QED BY <3>1, <4>1 DEF LedgerOf
    <3> QED BY <2>2, <2>3, <3>2, <3>3
  <2>5. \A i \in jobs : i.scenario = s /\ i.at = k => i.plan = p
    <3> SUFFICES ASSUME NEW i \in jobs, i.scenario = s, i.at = k PROVE i.plan = p
      OBVIOUS
    <3>1. i.plan \in Plan
      BY DEF IInv, Types, JobT
    <3>2. Held(s, k, i.plan)
      BY DEF Held
    <3> QED BY <2>3, <3>1, <3>2
  <2>6. d[s] = ledger[s].last.at /\ UNCHANGED d
    BY <1>3, <2>2 DEF Published
  <2>7. j.slice \in 0 .. SlicesOf[p] - 1
    BY <2>1 DEF Slices
  <2> HIDE DEF s, k, p, d
  <2>8. Abstract!Publish(s, k, p, j.slice)
    BY <2>1, <2>2, <2>4, <2>5, <2>6 DEF Abstract!Publish, d
  <2>9. Abstract!Next
    BY <2>2, <2>4, <2>6, <2>7, <2>8 DEF Abstract!Next, d
  <2> QED BY <2>9
<1>4. CASE jobs' = jobs
  <2>1. CASE UNCHANGED <<ledger, writer>>
    BY <1>4, <2>1
  <2>2. ASSUME NEW s \in Scenario, NEW f \in Nat \ {0}, NEW new \in LedgerT, Ran(s, f, new)
        PROVE  [Abstract!Next]_<<jobs, d>>
    <3>1. ledger' = [ledger EXCEPT ![s] = new] /\ ledger'[s] = new
      BY <1>2, <2>2 DEF Ran
    <3>2. CASE Kept(s, new)
      <4>1. \A r \in Scenario : ledger'[r].last = ledger[r].last
        BY <1>2, <3>1, <3>2 DEF Kept
      <4> QED BY <1>4, <4>1
    <3>3. CASE Finished(s, new)
      <4> DEFINE w == ledger[s].active
      <4>1. /\ w # NoWindow /\ new.last = w
            /\ \A i \in Slices(w.plan) : Job(s, w, i) \in jobs
        BY <3>3 DEF Finished
      <4>2. w.plan \in Plan /\ w.at = ledger[s].last.at + 1
        BY <4>1 DEF IInv, Types, LedgerT, WindowT, LedgerInv, LedgerOf
      <4>3. d' = [d EXCEPT ![s] = @ + 1] /\ d[s] + 1 = w.at
        BY Zenon, <1>2, <3>1, <4>1, <4>2
      <4>4. \A i \in 0 .. SlicesOf[w.plan] - 1 :
              [scenario |-> s, at |-> d[s] + 1, plan |-> w.plan, slice |-> i] \in jobs
        BY Zenon, <4>1, <4>3 DEF Slices, Job
      <4> HIDE DEF w, d
      <4>5. PICK p \in Plan : p = w.plan
        BY <4>2
      <4>6. Abstract!Complete(s, p)
        BY Zenon, <1>4, <4>3, <4>4, <4>5 DEF Abstract!Complete, d
      <4>7. Abstract!Next
        BY <4>6 DEF Abstract!Next
      <4> QED BY <4>7
    <3> QED BY <1>2, <3>1, <3>2, <3>3
  <2> QED BY <1>1, <2>1, <2>2 DEF LedgerStep
<1> QED BY <1>1, <1>3, <1>4

\* Dispatch implements WindowDispatch: whatever the schedulers, crashes, lost
\* answers and late requests do, the windows of a scenario reach the topic one
\* after the other, each under one plan and each complete before it counts.
THEOREM DispatchRefinesWindows == Spec => ImplementsWindowDispatch
<1>1. IInv /\ IInv' /\ [Next]_vars =>
        [Abstract!Next]_<<jobs, [s \in Scenario |-> ledger[s].last.at]>>
  BY StepRefines
<1> QED BY <1>1, InitRefines, Invariance, PTL
        DEF Spec, ImplementsWindowDispatch, Abstract!Spec
=============================================================================
