--------------------------- MODULE WindowDispatch ---------------------------
(***************************************************************************)
(* What dispatch promises, seen from the jobs topic: the windows of a      *)
(* scenario are dispatched one after the other; the records of a window    *)
(* all come from one plan; a window counts as dispatched when every slice  *)
(* of that plan is in the topic.  Records may be published again at any    *)
(* later time, always with the identity they had.                          *)
(***************************************************************************)
EXTENDS Naturals

CONSTANTS Scenario, Plan, SlicesOf

VARIABLES
    jobs,        \* the distinct records in the topic
    dispatched   \* dispatched[s]: how many windows of s are dispatched

Init ==
    /\ jobs = {}
    /\ dispatched = [s \in Scenario |-> 0]

Publish(s, k, p, i) ==
    /\ k <= dispatched[s] + 1
    /\ \A j \in jobs : j.scenario = s /\ j.at = k => j.plan = p
    /\ jobs' = jobs \union {[scenario |-> s, at |-> k, plan |-> p, slice |-> i]}
    /\ UNCHANGED dispatched

Complete(s, p) ==
    /\ \A i \in 0 .. SlicesOf[p] - 1 :
          [scenario |-> s, at |-> dispatched[s] + 1, plan |-> p, slice |-> i] \in jobs
    /\ dispatched' = [dispatched EXCEPT ![s] = @ + 1]
    /\ UNCHANGED jobs

Next ==
    \E s \in Scenario, p \in Plan :
        \/ \E k \in 1 .. dispatched[s] + 1, i \in 0 .. SlicesOf[p] - 1 : Publish(s, k, p, i)
        \/ Complete(s, p)

Spec == Init /\ [][Next]_<<jobs, dispatched>>
=============================================================================
