------------------------------ MODULE Erasure ------------------------------
(***************************************************************************)
(* What erasing a document promises, whatever keeps its bytes: they go     *)
(* only after the audit log proves it, and the proof stays.  A deployment  *)
(* whose store and log live in memory may lose both at a restart.          *)
(***************************************************************************)
CONSTANT Attachments

VARIABLES
  held,      \* attachments whose bytes exist somewhere
  proved,    \* attachments with an ATTACHMENT_ERASED row
  durable

evars == <<held, proved, durable>>

Init == held = {} /\ proved = {} /\ durable \in BOOLEAN

Arrive(a) == a \notin held \cup proved /\ held' = held \cup {a} /\ UNCHANGED <<proved, durable>>

Prove(a) == a \in held /\ proved' = proved \cup {a} /\ UNCHANGED <<held, durable>>

Erase(a) == a \in held \cap proved /\ held' = held \ {a} /\ UNCHANGED <<proved, durable>>

Lose == ~durable /\ held' = {} /\ proved' = {} /\ UNCHANGED durable

Next == Lose \/ \E a \in Attachments : Arrive(a) \/ Prove(a) \/ Erase(a)

Spec == Init /\ [][Next]_evars
=============================================================================
