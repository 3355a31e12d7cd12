------------------------------ MODULE MCRollout ------------------------------
(* Two SAP reads and an OMS effect of one case, a later read, an effect    *)
(* with a limit of its own, two workers.                                   *)
EXTENDS Rollout

CONSTANTS q1, q2, q3, w1, h1, k1, k2

MCBudget == [g \in {"sap", "oms"} |-> IF g = "sap" THEN 2 ELSE 1]
Ask(gateway, operation, case, effect) ==
  [gateway |-> gateway, operation |-> operation, case |-> case, effect |-> effect,
   timeout |-> IF operation = "update_hold_flag" THEN 3 ELSE DefaultTimeout]
MCAsks ==
  [c \in Calls |-> CASE c = q1 -> Ask("sap", "lookup", k1, FALSE)
                     [] c = q2 -> Ask("sap", "lookup", k2, FALSE)
                     [] c = w1 -> Ask("oms", "write_order_acceptance", k1, TRUE)
                     [] c = q3 -> Ask("sap", "lookup", k1, FALSE)
                     [] c = h1 -> Ask("oms", "update_hold_flag", NoCase, TRUE)]
MCSlot == [k \in {k1, k2} |-> IF k = k1 THEN 0 ELSE 1]
MCLiveOperations == {<<"sap", "lookup">>, <<"oms", "write_order_acceptance">>}
With(runs, threads, levels, slows, raises, stops) ==
  [runs |-> runs, threads |-> threads, levels |-> levels, slow |-> slows, raises |-> raises,
   restarts |-> stops]
MCSettings ==
  {With(<<{q1, q2}>>, FALSE, {1, 2}, 1, TRUE, 0), With(<<{q1, q2}, {w1}>>, FALSE, {0}, 2, FALSE, 0),
   With(<<{q1, q2}, {w1}>>, FALSE, {0}, 1, TRUE, 0), With(<<{q1}, {h1}, {q3}>>, FALSE, {2}, 1, FALSE, 0),
   With(<<{q1}, {q3}>>, FALSE, {0, 1, 2}, 0, TRUE, 1), With(<<{q1, q2}, {w1}>>, TRUE, {0}, 1, FALSE, 0),
   With(<<{q1}, {w1}>>, TRUE, {2}, 1, TRUE, 0)}
=============================================================================
