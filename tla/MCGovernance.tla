---------------------------- MODULE MCGovernance ----------------------------
EXTENDS Governance

CONSTANTS p1, p2, t1, t2

MCLayers == <<"tenant", "customer">>
MCPlatform == [s \in Signals |-> IF s = "po" THEN 6 ELSE 4]
MCBehaviour == ("po" :> 5) @@ ("amount" :> 5)
MCOverrides == {("po" :> 7) @@ ("amount" :> 3), "po" :> 7, ("po" :> 6) @@ ("typo" :> 4), <<>>}
Postgres(procs, skewed, c, e, r, f) ==
  [kind |-> "db", backend |-> "postgres", procs |-> procs, skewed |-> skewed, changes |-> c,
   events |-> e, resolves |-> r, faults |-> f]
Sqlite(s) == [s EXCEPT !.backend = "sqlite"]
MCSettings ==
  {Postgres({p1, p2}, {}, 2, 1, 0, 1), Postgres({p1, p2}, {}, 2, 0, 1, 0),
   Postgres({p1, p2}, {p1}, 1, 1, 0, 0), Postgres({p1, p2}, {}, 3, 0, 0, 0),
   Postgres({p1, p2}, {}, 0, 4, 0, 0),
   Sqlite(Postgres({p1}, {}, 3, 1, 1, 1)),
   [Sqlite(Postgres({}, {}, 0, 0, 0, 2)) EXCEPT !.kind = "seed"]}
=============================================================================
