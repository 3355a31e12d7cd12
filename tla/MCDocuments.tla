---------------------------- MODULE MCDocuments ----------------------------
EXTENDS Documents

CONSTANTS a1, a2, a3, t1, t2, p1, p2

(* a1 and a2 are one tenant's, with one layout; a3 is another tenant's and *)
(* has the layout, and the bytes, of a1.                                   *)
MCTenant == (a1 :> t1) @@ (a2 :> t1) @@ (a3 :> t2)
MCSha == (a1 :> "h1") @@ (a2 :> "h2") @@ (a3 :> "h1")
MCTemplate == [a \in Attachments |-> "layout"]
With(m, u, d, plans, s, l, time, f) ==
  [mode |-> m, uses |-> {u}, docs |-> d, plans |-> plans, sweeps |-> s, links |-> l,
   time |-> time, faults |-> f]
Sweeps(m, f) == With(m, "erase", {a1, a2}, {<<a1, a2>>, <<a2, a1>>, <<a2>>}, 2, 0, 0, f)
MCSettings ==
  {Sweeps("object", 2), Sweeps("db", 2), Sweeps("memory", 2),
   With("db", "links", {a1}, {}, 0, 2, 4, 0),
   With("memory", "extract", {a1, a2, a3}, {}, 0, 0, 0, 1)}
=============================================================================
