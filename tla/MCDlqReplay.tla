---------------------------- MODULE MCDlqReplay ----------------------------
(***************************************************************************)
(* Dead-letter topics with failures of two scenarios, two copies of one    *)
(* failure, poison evidence, an envelope that could be either kind and an  *)
(* oversized record; sessions in a dry run, with a filter and a plan that  *)
(* the workers do not have, with an incomplete scenario set, without the   *)
(* confirmation, and above the safety ceilings.                            *)
(***************************************************************************)
EXTENDS DlqReplay

Failed(s, e) == [fits |-> TRUE, markers |-> {"failed"}, valid |-> TRUE,
                 scenario |-> s, failed_at |-> 1, event |-> <<e>>]
Poison == [fits |-> TRUE, markers |-> {"poison"}, valid |-> TRUE,
           scenario |-> "a", failed_at |-> 1, event |-> <<7>>]
Ambiguous == [Failed("a", 8) EXCEPT !.markers = {"failed", "poison"}]

Oversized == [Failed("a", 9) EXCEPT !.fits = FALSE]

MCLogs == {<<Failed("a", 1), Failed("b", 2)>>, <<Failed("a", 1), Failed("a", 1), Poison>>,
           <<Poison, Ambiguous>>, <<Poison, Oversized>>}

In(dry, ids, known, plan) ==
  [dry_run |-> dry, confirmed |-> ~dry, scenario_ids |-> ids, since |-> 1,
   until |-> 9, known |-> known, buildable |-> TRUE, plan |-> plan]

MCModes == {In(TRUE, {}, {"a", "b"}, 1), In(FALSE, {}, {"a", "b"}, 1),
            In(FALSE, {"a"}, {"a", "b"}, 2), In(FALSE, {}, {"a"}, 1),
            [In(FALSE, {}, {"a", "b"}, 1) EXCEPT !.confirmed = FALSE],
            [In(FALSE, {}, {"a", "b"}, 1) EXCEPT !.buildable = FALSE]}
=============================================================================
