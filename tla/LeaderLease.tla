----------------------------- MODULE LeaderLease -----------------------------
(***************************************************************************)
(* What leader election promises to the scheduler, without clocks: Redis   *)
(* grants at most one lease at a time, each with a larger fence; a lease   *)
(* ends only after its holder's scheduler can no longer see it as current. *)
(* LeaderElection implements this specification; Dispatch builds on it.    *)
(***************************************************************************)
EXTENDS Naturals

CONSTANTS Node, NoNode

ASSUME NoNodeAssumption == NoNode \notin Node

VARIABLES
    holder,  \* the live leader record in Redis: [node, fence]
    fence,   \* the fence counter in Redis
    watch    \* watch[n]: the fence for which lease_is_current holds on n, or 0

leaseVars == <<holder, fence, watch>>

Nobody == [node |-> NoNode, fence |-> 0]

LeaseInit ==
    /\ holder = Nobody
    /\ fence = 0
    /\ watch = [n \in Node |-> 0]

(* Redis grants a lease with a fresh fence to node n.                      *)
Grant(n) ==
    /\ holder = Nobody
    /\ fence' = fence + 1
    /\ holder' = [node |-> n, fence |-> fence + 1]
    /\ UNCHANGED watch

(* The holder's election task shows its lease to the scheduler.            *)
Announce(n) ==
    /\ holder.node = n
    /\ watch' = [watch EXCEPT ![n] = holder.fence]
    /\ UNCHANGED <<holder, fence>>

(* Some nodes' leases stop being current (local deadline, error, shutdown, *)
(* crash).                                                                 *)
Withdraw(nodes) ==
    watch' = [n \in Node |-> IF n \in nodes THEN 0 ELSE watch[n]]

(* Time, a failure or a relinquishment: leases stop being current, and the *)
(* record may vanish from Redis once no node sees it as current.           *)
Lapse(nodes) ==
    /\ Withdraw(nodes)
    /\ UNCHANGED fence
    /\ \/ UNCHANGED holder
       \/ holder' = Nobody /\ \A n \in Node : watch'[n] = 0

LeaseNext ==
    \/ \E n \in Node : Grant(n) \/ Announce(n)
    \/ \E nodes \in SUBSET Node : Lapse(nodes)

LeaseSpec == LeaseInit /\ [][LeaseNext]_leaseVars
=============================================================================
