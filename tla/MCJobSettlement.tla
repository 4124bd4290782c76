-------------------------- MODULE MCJobSettlement --------------------------
EXTENDS JobSettlement

CONSTANTS n1, n2, k1, k2

Job(k) == [kind |-> "job", key |-> k, attempt |-> 0]

SingleJob == {<<Job(k1)>>}

(* A poison record, a job of a scenario that no plan names, a job that the *)
(* scheduler dispatched twice, and one that n2 rejects.                    *)
MixedRecords ==
    {<<Poison>>, <<[Job(k1) EXCEPT !.kind = "unknown"]>>, <<Job(k1), Job(k1)>>,
     <<Job(k2)>>}

(* During a rolling deployment the plan of n2 differs for job k2.          *)
NoRejects == [n \in Node |-> {}]
OneRejects == [n \in Node |-> IF n = n2 THEN {k2} ELSE {}]

=============================================================================
