---------------------------- MODULE MCEffectOutbox ----------------------------
(* Effects of the graph: two replicas on one table, one replica on either  *)
(* ledger.  Replies: drafts under a key, with restarts; two replicas, with *)
(* drafts and a send; one replica, two operators who send the same reply;  *)
(* one, with a key and a fault.                                            *)
EXTENDS Replies

CONSTANTS p1, p2, e1, e2

On(db, procs, set, n) ==
  [durable |-> db, replicas |-> procs, effects |-> set, faults |-> n,
   requests |-> {}, letters |-> {}, submits |-> 0]
Desk(procs, asked, set, n, m) ==
  [On(TRUE, procs, {}, n) EXCEPT !.requests = asked, !.letters = set, !.submits = m]
Ask(action, user, key, to, text) ==
  [action |-> action, user |-> user, key |-> key, to |-> to, text |-> text]

Draft(user, key, text) == Ask("DRAFT_REPLY", user, key, "buyer", text)
Sending(user, key, to) == Ask("SEND_REPLY", user, key, to, "first")
Edits == {Draft("ann", "k", "first"), Draft("bob", "none", "second")}
MCDeployments ==
  {On(TRUE, {p1, p2}, {e1}, 2),
   On(TRUE, {p1}, {e1, e2}, 1), On(FALSE, {p1}, {e1, e2}, 2),
   Desk({p1}, Edits \cup {Draft("ann", "k", "second")}, {}, 1, 3),
   Desk({p1, p2}, Edits \cup {Sending("ann", "none", "buyer")}, {e1}, 0, 2),
   Desk({p1}, {Sending("ann", "k", "buyer"), Sending("bob", "none", "buyer"), Sending("bob", "none", NoBuyer)},
        {e1, e2}, 0, 2),
   Desk({p1}, {Sending("ann", "k", "buyer")}, {e1, e2}, 1, 2)}
===============================================================================
