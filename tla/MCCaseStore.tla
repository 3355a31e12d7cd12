----------------------------- MODULE MCCaseStore -----------------------------
(* One PO in two events, one of them unclassified, the other also naming   *)
(* the sales order of a legacy record with another PO.                     *)
EXTENDS CaseStore, TLC

CONSTANTS so1, po1, po2, e1, e2, e3, change

MCKeys == {so1, po1, po2}
MCKeyRank == (so1 :> 1) @@ (po1 :> 2) @@ (po2 :> 2)
MCKeysOf == (e1 :> {po1}) @@ (e2 :> {so1, po1}) @@ (e3 :> {so1, po2})
MCPoOf == (e1 :> po1) @@ (e2 :> po1) @@ (e3 :> po2)
MCSupergroupOf == (e1 :> NoSG) @@ (e2 :> change) @@ (e3 :> NoSG)
MCStatusOf == (e1 :> "RESOLVED") @@ (e2 :> "OPEN_AWAITING_HUMAN") @@ (e3 :> "RESOLVED")
===============================================================================
