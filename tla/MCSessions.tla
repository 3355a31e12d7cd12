----------------------------- MODULE MCSessions -----------------------------
EXTENDS Sessions

CONSTANTS c1, t1, t2, p1, p2

MCOrg == (c1 :> t1)
Case(t) == [tenant |-> t, closing |-> FALSE]
Close(t) == [tenant |-> t, closing |-> TRUE]
With(m, a, n, time, f) == [mode |-> m, arrivals |-> a, changes |-> n, time |-> time, faults |-> f]
MCSettings ==
  {With("redis", {Case(t1), Case(t2)}, 2, 1, 0),
   With("redis", {Case(t1), Close(t1), Case(t2)}, 1, 2, 1),
   With("memory", {Case(t1), Close(t1), Case(t2)}, 2, 2, 1),
   With("tokens", {Case(t1)}, 0, 5, 2),
   With("entra", {Case(t1)}, 0, 3, 1)}
=============================================================================
