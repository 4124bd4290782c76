-------------------------- MODULE MCRunAggregation --------------------------
(* Instances of RunAggregation for TLC.                                    *)
EXTENDS RunAggregation, TLC

CONSTANTS n1, n2, r1, r2

NodeSymmetry == Permutations(Node)

Result(r, slice, key, expected, bounds, total, kinds) ==
    [kind |-> "result", run |-> r, slice |-> slice, key |-> key,
     expected |-> expected, bounds |-> bounds, total |-> total, kinds |-> kinds]

(* The result of slice i of n, and the one of a second execution of it.    *)
Slice(r, i, n) == Result(r, i, <<r, i>>, n, "b", 1, {})
Again(r, i, n) == Result(r, i, <<r, i>>, n, "b", 2, {"timeout"})
Undecodable == [kind |-> "poison"]

TwoSlices == [r \in Run |-> 2]

(* A run of two slices, one of them executed and reported twice.           *)
Redelivered == <<Slice(r1, 0, 2), Again(r1, 0, 2), Slice(r1, 1, 2)>>

(* Two runs; a record that cannot be decoded; results that the run refuses *)
(* for their slice count, their error kinds, their totals and their key.   *)
Refused ==
    {<<Undecodable, Slice(r1, 0, 3), Slice(r2, 0, 2), Slice(r1, 1, 2)>>,
     <<Result(r1, 0, <<r1, 0>>, 2, "b", 1, {"x", "y"}),
       Result(r1, 1, <<r1, 1>>, 2, "b", 1, {"z"})>>,
     <<Slice(r1, 0, 2), Result(r1, 1, <<r1, 1>>, 2, "b", 3, {}),
       Result(r1, 0, <<r1, 9>>, 2, "b", 1, {}), Slice(r2, 1, 2)>>}

(* A run of one slice that was replayed from the dead-letter topic.        *)
Replayed == <<Slice(r2, 0, 1), Again(r2, 0, 1)>>

AllLogs == {Redelivered, Replayed} \union Refused

(* The redelivered run meets the most faults, the refusals the end of      *)
(* retention.                                                              *)
AllBounds ==
    [l \in AllLogs |->
        IF l = Redelivered
        THEN [dispatched |-> {r1}, repeats |-> 1, discards |-> 0,
              rebalances |-> 1, faults |-> 2, late |-> 1]
        ELSE [dispatched |-> IF l = Replayed THEN {r1} ELSE {r1, r2},
              repeats |-> 0, discards |-> 1, rebalances |-> 0,
              faults |-> 1, late |-> IF Len(l) = 2 THEN 1 ELSE 0]]

(* Both slices arrive; one of them arrives twice and the other never; one  *)
(* has too many error kinds; or they are from a version-1 scheduler.       *)
Version1(r, i, n) == Result(r, i, <<r, i>>, n, Unset, 1, {})
ShortLogs ==
    {<<Slice(r1, 0, 2), Slice(r1, 1, 2)>>, <<Slice(r1, 0, 2), Again(r1, 0, 2)>>,
     <<Result(r1, 0, <<r1, 0>>, 2, "b", 1, {"x", "y", "z"}), Slice(r1, 1, 2)>>,
     <<Version1(r1, 0, 2), Version1(r1, 1, 2)>>}

ShortBounds ==
    [l \in ShortLogs |->
        [dispatched |-> IF l[1].bounds = Unset THEN {} ELSE {r1},
         repeats |-> 0, discards |-> 0, rebalances |-> 0, faults |-> 1,
         late |-> IF l[1] = Slice(r1, 0, 2) THEN 1 ELSE 0]]
=============================================================================
