----------------------------- MODULE MCDispatch -----------------------------
(* Dispatch for TLC: one plan per node. *)
EXTENDS Dispatch, TLC

CONSTANTS n1, n2, p1, p2

PlanPerNode == n1 :> p1 @@ n2 :> p2
TwoSlices == [p \in Plan |-> 2]
TwoAndOne == p1 :> 2 @@ p2 :> 1
=============================================================================
