----------------------------- MODULE RepliesProofs -----------------------------
(***************************************************************************)
(* Proofs about the ledger of module EffectOutbox and the replies of       *)
(* module Replies, for any number of replicas and effects, any bound on    *)
(* the retries and any number of crashes and other faults.                 *)
(***************************************************************************)
EXTENDS Replies, FiniteSetTheorems, SequenceTheorems, TLAPS

(* The processes that call the gateway for an effect; those whose pass has *)
(* it still to retry; those whose answer will settle it.                   *)
Callers(e) == {p \in deployment.replicas : proc[p].now = e /\ proc[p].answer = "NONE"}
Waiting(e) == {p \in deployment.replicas : e \in proc[p].todo}
Holders(e) == {p \in deployment.replicas : /\ proc[p].task = "reconcile" /\ proc[p].now = e
                                           /\ proc[p].attempts >= MaxAttempts}

One(b) == IF b THEN 1 ELSE 0

Blank(x) == /\ ~x.recorded /\ ~x.needs_compensation /\ x.attempts = 0
            /\ ~x.compensated /\ ~x.escalated

(* A process is idle, in the original call of an effect, or in a pass.     *)
ProcessFits(p, x) ==
  /\ x.task = "idle" \/ p \notin deployment.replicas => x = IdleProc
  /\ x.task = "effect" =>
       /\ x.now # NoEffect /\ x.todo = {}
       /\ x.now \in fired /\ Blank(entry[x.now])
  /\ x.task = "reconcile" =>
       /\ x.now = NoEffect => x.answer = "NONE"
       /\ x.now # NoEffect => /\ x.now \notin x.todo
                              /\ entry[x.now].needs_compensation
                              /\ x.attempts <= entry[x.now].attempts
       /\ \A e \in x.todo : entry[e].needs_compensation
  /\ x.answer = "SUCCESS" => applied[x.now] > 0

ProcessesFit == \A p \in Replicas : ProcessFits(p, proc[p])

(* An effect is called for the first time once.                            *)
FirstCallIsOne ==
  /\ \A e \in Effects \ fired : Blank(entry[e]) /\ applied[e] = 0 /\ late[e] = 0
  /\ \A p, q \in Replicas :
       proc[p].task = "effect" /\ proc[q].task = "effect" /\ proc[p].now = proc[q].now => p = q

(* A call is the first one or a counted retry. *)
CallsAreCounted ==
  \A e \in Effects :
    applied[e] + late[e] + Cardinality(Callers(e)) <= One(e \in fired) + entry[e].attempts

(* What was retried MaxAttempts times is in the hands of processes that    *)
(* will settle it, or that crashed; those that still wait for their turn   *)
(* are further replicas.                                                   *)
RetriesAreCounted ==
  \A e \in Effects :
    entry[e].attempts >= MaxAttempts =>
      /\ Unsettled(entry[e])
           => entry[e].attempts - MaxAttempts + 1 <= Cardinality(Holders(e)) + faults
      /\ entry[e].attempts - MaxAttempts + 1 + Cardinality(Waiting(e))
           <= Cardinality(deployment.replicas) + faults

(* A single process retries nothing that is settled.                       *)
AloneIsCurrent ==
  Cardinality(deployment.replicas) = 1 =>
    \A p \in deployment.replicas, e \in Effects :
      e \in proc[p].todo \/ (proc[p].task = "reconcile" /\ proc[p].now = e) => Unsettled(entry[e])

EscalatedLate == \A e \in Effects : entry[e].escalated => entry[e].attempts >= MaxAttempts

(* The inductive invariant of the ledger: what each process holds, and the *)
(* three counts.                                                           *)
LedgerShape ==
  /\ deployment \in Deployments
  /\ TypeOK /\ DoneMeansApplied /\ EscalatedLate /\ ProcessesFit /\ FirstCallIsOne
LedgerInv ==
  /\ LedgerShape
  /\ CallsAreCounted /\ RetriesAreCounted
  /\ AloneIsCurrent /\ SettledOnce

-----------------------------------------------------------------------------
Asked == UNION {d.requests : d \in Deployments}
Revisions ==
  [version : Nat, text : {r.text : r \in Asked}, source : {"AI_GENERATED", "OPERATOR_EDIT"}]
Data == [revisions : Seq(Revisions),
         sent : [status : {"none", "SENT", "FAILED"}, effect : Effects \cup {NoEffect}]]

Handlers == [request : Asked \cup {NoRequest}, read : Data \cup {<<>>}, composed : BOOLEAN,
             letter : Effects \cup {NoEffect}, answer : Answers \cup {"NONE"}, delivered : BOOLEAN]

DeskTypeOK ==
  /\ record \in [open : BOOLEAN, data : Data]
  /\ handler \in [Replicas -> Handlers]
  /\ DOMAIN answers = Replicas /\ DOMAIN ledger = Replicas /\ DOMAIN letter = Effects
  /\ DOMAIN sentBy = Replicas /\ DOMAIN ranBy = Replicas
  /\ again \in BOOLEAN

(* The reply was performed for somebody.                                   *)
Happened(reply) == \E e \in Effects : letter[e] = reply /\ applied[e] > 0

ChainOK(chain) ==
  \A i \in DOMAIN chain :
    /\ chain[i].version = i
    /\ chain[i].source = IF i = 1 THEN "AI_GENERATED" ELSE "OPERATOR_EDIT"
    /\ i > 1 => chain[i].text # chain[i - 1].text

(* What is stored, or was read, of the record is true.                     *)
DataOK(data) ==
  /\ ChainOK(data.revisions)
  /\ data.sent.status = "SENT" => data.sent.effect \in Effects /\ applied[data.sent.effect] > 0

(* A request being served was not served before; its letter is what its    *)
(* process calls the gateway for, and new to it if the preview was seen.   *)
Serves(p, h) ==
  /\ h.request \in Asked /\ h.read \in Data /\ DataOK(h.read)
  /\ Keys(h.request) \cap ranBy[p] = {}
  /\ proc[p] # IdleProc => /\ proc[p].task = "effect" /\ proc[p].now = h.letter
                           /\ proc[p].answer = h.answer
  /\ h.letter = NoEffect => h.answer = "NONE"
  /\ h.letter # NoEffect =>
       /\ h.letter \in fired /\ letter[h.letter] = Reply(h.request)
       /\ h.letter \notin blind => DeliveryKey(h.request) \notin ledger[p]
       /\ h.answer = "SUCCESS" => applied[h.letter] > 0
HandlerFits(p) == Busy(p) => Serves(p, handler[p])
HandlersFit == \A p \in Replicas : HandlerFits(p)

(* What a process remembers is true of what it did.                        *)
Remembers(p) ==
  /\ \A k \in ledger[p] : Happened(k.reply)
  /\ \A e \in sentBy[p] : e \in fired /\ [by |-> "anyone", reply |-> letter[e]] \in ledger[p]
  /\ \A k \in ranBy[p] : \E a \in answers[p] : k \in Keys(a)
MemoryFits == \A p \in Replicas : Remembers(p)

(* The inductive invariant of the desk. *)
DeskInv ==
  /\ DeskTypeOK /\ HandlersFit /\ MemoryFits
  /\ DataOK(record.data) /\ RepliesAreTrue

RepliesInv == LedgerInv /\ DeskInv

-----------------------------------------------------------------------------
(* Counting processes. *)

(* A set that changed at one element. *)
LEMMA Recount ==
  ASSUME NEW S, IsFiniteSet(S), NEW T, NEW p, \A q : q # p => (q \in T <=> q \in S)
  PROVE  /\ Cardinality(S) \in Nat /\ Cardinality(T) \in Nat
         /\ Cardinality(T) = Cardinality(S) - One(p \in S) + One(p \in T)
<1>1. Cardinality(S) \in Nat
  BY FS_CardinalityType
<1>2. /\ IsFiniteSet(S \ {p})
      /\ Cardinality(S \ {p}) = Cardinality(S) - One(p \in S)
  BY <1>1, FS_RemoveElement DEF One
<1>3. CASE p \in T
  <2>1. T = (S \ {p}) \cup {p}
    BY <1>3
  <2>2. IsFiniteSet(T) /\ Cardinality(T) = Cardinality(S \ {p}) + 1
    BY <1>2, <2>1, FS_AddElement
  <2> QED BY <1>1, <1>2, <1>3, <2>2, FS_CardinalityType DEF One
<1>4. CASE p \notin T
  <2>1. T = S \ {p}
    BY <1>4
  <2> QED BY <1>1, <1>2, <1>4, <2>1, FS_CardinalityType DEF One
<1> QED BY <1>3, <1>4

(* Two disjoint sets of replicas are no more than the replicas. *)
LEMMA DisjointCount ==
  ASSUME NEW R, IsFiniteSet(R), NEW S \in SUBSET R, NEW T \in SUBSET R, S \cap T = {}
  PROVE  /\ Cardinality(R) \in Nat /\ Cardinality(S) \in Nat /\ Cardinality(T) \in Nat
         /\ Cardinality(S) + Cardinality(T) <= Cardinality(R)
<1>1. IsFiniteSet(S) /\ IsFiniteSet(T) /\ IsFiniteSet(S \cup T) /\ S \cup T \in SUBSET R
  BY FS_Subset
<1>2. Cardinality(S \cup T) = Cardinality(S) + Cardinality(T) - Cardinality({})
  BY <1>1, FS_Union
<1>3. Cardinality(S \cup T) <= Cardinality(R)
  BY <1>1, FS_Subset
<1> QED BY <1>1, <1>2, <1>3, FS_EmptySet, FS_CardinalityType

(* The replicas of a deployment can be counted. *)
LEMMA ReplicasAreCounted ==
  ASSUME deployment \in Deployments
  PROVE  /\ IsFiniteSet(deployment.replicas) /\ deployment.replicas \subseteq Replicas
         /\ Cardinality(deployment.replicas) \in Nat \ {0}
         /\ deployment.effects \subseteq Effects /\ deployment.faults \in Nat
         /\ deployment.letters \subseteq Effects
         /\ NoEffect \notin Effects /\ MaxAttempts \in Nat \ {0}
<1>1. /\ IsFiniteSet(deployment.replicas) /\ deployment.replicas \subseteq Replicas
      /\ deployment.replicas # {} /\ deployment.effects \subseteq Effects
      /\ deployment.faults \in Nat /\ deployment.letters \subseteq Effects
      /\ NoEffect \notin Effects /\ MaxAttempts \in Nat \ {0}
  BY OutboxAssumption, RepliesAssumption, FS_Subset DEF OutboxAssumption, RepliesAssumption
<1> QED BY <1>1, FS_EmptySet, FS_CardinalityType

(* What a process's change to x does to the counts of an effect.           *)
Calls(x, e) == x.now = e /\ x.answer = "NONE"
Holds(x, e) == x.task = "reconcile" /\ x.now = e /\ x.attempts >= MaxAttempts
CountsMove(p, x) ==
  \A e :
    /\ Cardinality(Callers(e)) \in Nat /\ Cardinality(Callers(e)') \in Nat
    /\ Cardinality(Callers(e)') = Cardinality(Callers(e)) - One(Calls(proc[p], e)) + One(Calls(x, e))
    /\ Cardinality(Waiting(e)) \in Nat /\ Cardinality(Waiting(e)') \in Nat
    /\ Cardinality(Waiting(e)') = Cardinality(Waiting(e)) - One(e \in proc[p].todo) + One(e \in x.todo)
    /\ Cardinality(Holders(e)) \in Nat /\ Cardinality(Holders(e)') \in Nat
    /\ Cardinality(Holders(e)') = Cardinality(Holders(e)) - One(Holds(proc[p], e)) + One(Holds(x, e))

(* Counts follow the process that changed. *)
LEMMA ProcCounts ==
  ASSUME deployment \in Deployments, proc \in [Replicas -> Procs],
         NEW p \in deployment.replicas, NEW x, deployment' = deployment,
         proc' = [proc EXCEPT ![p] = x]
  PROVE  CountsMove(p, x)
<1> SUFFICES ASSUME NEW e
             PROVE
    /\ Cardinality(Callers(e)) \in Nat /\ Cardinality(Callers(e)') \in Nat
    /\ Cardinality(Callers(e)') = Cardinality(Callers(e)) - One(Calls(proc[p], e)) + One(Calls(x, e))
    /\ Cardinality(Waiting(e)) \in Nat /\ Cardinality(Waiting(e)') \in Nat
    /\ Cardinality(Waiting(e)') = Cardinality(Waiting(e)) - One(e \in proc[p].todo) + One(e \in x.todo)
    /\ Cardinality(Holders(e)) \in Nat /\ Cardinality(Holders(e)') \in Nat
    /\ Cardinality(Holders(e)') = Cardinality(Holders(e)) - One(Holds(proc[p], e)) + One(Holds(x, e))
  BY DEF CountsMove
<1>1. /\ IsFiniteSet(deployment.replicas) /\ deployment.replicas \subseteq Replicas
      /\ proc'[p] = x
      /\ \A q \in deployment.replicas : q # p => proc'[q] = proc[q]
  BY ReplicasAreCounted
<1>2. IsFiniteSet(Callers(e)) /\ IsFiniteSet(Waiting(e)) /\ IsFiniteSet(Holders(e))
  BY <1>1, FS_Subset DEF Callers, Waiting, Holders
<1>3. /\ \A q : q # p => (q \in Callers(e)' <=> q \in Callers(e))
      /\ p \in Callers(e) <=> Calls(proc[p], e)
      /\ p \in Callers(e)' <=> Calls(x, e)
  BY <1>1 DEF Callers, Calls
<1>4. /\ \A q : q # p => (q \in Waiting(e)' <=> q \in Waiting(e))
      /\ p \in Waiting(e) <=> e \in proc[p].todo
      /\ p \in Waiting(e)' <=> e \in x.todo
  BY <1>1 DEF Waiting
<1>5. /\ \A q : q # p => (q \in Holders(e)' <=> q \in Holders(e))
      /\ p \in Holders(e) <=> Holds(proc[p], e)
      /\ p \in Holders(e)' <=> Holds(x, e)
  BY <1>1 DEF Holders, Holds
<1>6. /\ Cardinality(Callers(e)) \in Nat /\ Cardinality(Callers(e)') \in Nat
      /\ Cardinality(Callers(e)') = Cardinality(Callers(e))
           - One(p \in Callers(e)) + One(p \in Callers(e)')
  BY <1>2, <1>3, Recount
<1>7. /\ Cardinality(Waiting(e)) \in Nat /\ Cardinality(Waiting(e)') \in Nat
      /\ Cardinality(Waiting(e)') = Cardinality(Waiting(e))
           - One(p \in Waiting(e)) + One(p \in Waiting(e)')
  BY <1>2, <1>4, Recount
<1>8. /\ Cardinality(Holders(e)) \in Nat /\ Cardinality(Holders(e)') \in Nat
      /\ Cardinality(Holders(e)') = Cardinality(Holders(e))
           - One(p \in Holders(e)) + One(p \in Holders(e)')
  BY <1>2, <1>5, Recount
<1> QED BY <1>3, <1>4, <1>5, <1>6, <1>7, <1>8 DEF One

(* The invariant says what LedgerIsTrue says. *)
LEMMA LedgerTold == LedgerInv => LedgerIsTrue
<1> SUFFICES ASSUME LedgerInv PROVE LedgerIsTrue
  OBVIOUS
<1>1. /\ Cardinality(deployment.replicas) \in Nat \ {0} /\ MaxAttempts \in Nat \ {0}
      /\ faults \in Nat /\ deployment \in Deployments
  BY ReplicasAreCounted DEF LedgerInv, LedgerShape, TypeOK
<1>2. ASSUME NEW e \in Effects
      PROVE  /\ entry[e].attempts \in Nat /\ applied[e] \in Nat /\ late[e] \in Nat
             /\ Cardinality(Waiting(e)) \in Nat /\ Cardinality(Callers(e)) \in Nat
  <2>1. IsFiniteSet(Callers(e)) /\ IsFiniteSet(Waiting(e))
    BY <1>1, ReplicasAreCounted, FS_Subset DEF Callers, Waiting
  <2> QED BY <2>1, FS_CardinalityType DEF LedgerInv, LedgerShape, TypeOK, Entries
<1>3. RetriesBounded
  <2> SUFFICES ASSUME NEW e \in Effects
               PROVE  entry[e].attempts <= MaxAttempts + (Cardinality(deployment.replicas) - 1) + faults
    BY DEF RetriesBounded, LedgerInv, LedgerShape, EscalatedLate
  <2>1. CASE entry[e].attempts < MaxAttempts
    BY <1>1, <1>2, <2>1
  <2>2. CASE entry[e].attempts >= MaxAttempts
    <3>1. entry[e].attempts - MaxAttempts + 1 + Cardinality(Waiting(e))
            <= Cardinality(deployment.replicas) + faults
      BY <2>2 DEF LedgerInv, RetriesAreCounted
    <3> QED BY <1>1, <1>2, <3>1
  <2> QED BY <1>1, <1>2, <2>1, <2>2
<1>4. DuplicatesAreCounted
  <2> SUFFICES ASSUME NEW e \in Effects PROVE applied[e] + late[e] <= 1 + entry[e].attempts
    BY DEF DuplicatesAreCounted
  <2>1. applied[e] + late[e] + Cardinality(Callers(e)) <= One(e \in fired) + entry[e].attempts
    BY DEF LedgerInv, CallsAreCounted
  <2> QED BY <1>2, <2>1 DEF One
<1> QED BY <1>3, <1>4 DEF LedgerInv, LedgerShape, LedgerIsTrue

-----------------------------------------------------------------------------
(* The steps of the outbox.                                                *)

(* What the invariant says of one process, and the types it needs.         *)
LEMMA ShapeFacts ==
  ASSUME LedgerShape
  PROVE  /\ deployment \in Deployments /\ deployment.replicas \subseteq Replicas
         /\ proc \in [Replicas -> Procs] /\ entry \in [Effects -> Entries]
         /\ applied \in [Effects -> Nat] /\ late \in [Effects -> Nat]
         /\ fired \subseteq Effects /\ faults \in Nat /\ deployment.faults \in Nat
         /\ NoEffect \notin Effects /\ MaxAttempts \in Nat \ {0}
         /\ Cardinality(deployment.replicas) \in Nat \ {0}
         /\ \A e \in Effects : entry[e].attempts \in Nat /\ applied[e] \in Nat /\ late[e] \in Nat
         /\ \A p \in Replicas : proc[p].attempts \in Nat
BY ReplicasAreCounted DEF LedgerShape, TypeOK, Procs, Entries

(* An idle process holds nothing. *)
LEMMA IdleHoldsNothing ==
  /\ IdleProc \in Procs /\ IdleProc.task = "idle" /\ IdleProc.now = NoEffect /\ IdleProc.todo = {}
  /\ IdleProc.attempts = 0 /\ IdleProc.answer = "NONE"
BY DEF IdleProc, Procs

(* An idle process fits anything. *)
LEMMA IdleFits == ASSUME NEW p PROVE ProcessFits(p, IdleProc)
BY IdleHoldsNothing DEF ProcessFits

(* A process that calls, or has an answer, does so for an effect. *)
LEMMA AnswersAreOfEffects ==
  ASSUME LedgerShape, NEW q \in Replicas, proc[q].answer # "NONE" \/ proc[q].now # NoEffect
  PROVE  /\ proc[q].now \in Effects /\ proc[q].task \in {"effect", "reconcile"}
         /\ proc[q].now \in fired /\ q \in deployment.replicas
<1>1. proc[q] \in Procs /\ ProcessFits(q, proc[q])
  BY ShapeFacts DEF LedgerShape, ProcessesFit
<1>2. proc[q].task # "idle" /\ q \in deployment.replicas
  BY <1>1, IdleHoldsNothing DEF ProcessFits
<1>3. proc[q].now # NoEffect
  BY <1>1, <1>2 DEF ProcessFits, Procs
<1>4. proc[q].now \in Effects /\ proc[q].task \in {"effect", "reconcile"}
  BY <1>1, <1>2, <1>3 DEF Procs
<1>5. proc[q].now \in fired
  BY <1>1, <1>3, <1>4 DEF LedgerShape, FirstCallIsOne, ProcessFits, Blank
<1> QED BY <1>2, <1>4, <1>5

(* An effect is called for the first time. *)
LEMMA FirePreserves ==
  ASSUME LedgerInv, NEW p \in deployment.replicas, NEW e \in Effects, Fire(p, e)
  PROVE  LedgerInv'
<1> DEFINE x == [proc[p] EXCEPT !.task = "effect", !.now = e]
<1>1. LedgerShape
  BY DEF LedgerInv
<1>2. /\ proc[p] = IdleProc /\ e \notin fired /\ proc' = [proc EXCEPT ![p] = x]
      /\ fired' = fired \cup {e} /\ p \in Replicas
      /\ UNCHANGED <<deployment, entry, late, applied, faults>>
  BY <1>1, ShapeFacts DEF Fire
<1>3. /\ x \in Procs /\ x.task = "effect" /\ x.todo = {} /\ x.now = e
      /\ x.attempts = 0 /\ x.answer = "NONE"
  <2>1. proc[p].todo = {} /\ proc[p].attempts = 0 /\ proc[p].answer = "NONE"
    BY <1>2 DEF IdleProc
  <2>2. proc[p] \in Procs
    BY <1>1, <1>2, ShapeFacts
  <2> QED BY <2>1, <2>2 DEF Procs
<1> HIDE DEF x
<1>4. TypeOK'
  BY <1>1, <1>2, <1>3, ShapeFacts DEF LedgerShape, TypeOK
<1>5. /\ proc'[p] = x /\ \A q \in Replicas : q # p => proc'[q] = proc[q]
      /\ Blank(entry[e])
  BY <1>1, <1>2, ShapeFacts DEF LedgerShape, FirstCallIsOne
<1>6. LedgerShape'
  <2>1. ProcessesFit'
    BY <1>1, <1>2, <1>3, <1>5, ShapeFacts DEF LedgerShape, ProcessesFit, ProcessFits, Blank
  <2>2. FirstCallIsOne'
    BY <1>1, <1>2, <1>3, <1>5 DEF LedgerShape, FirstCallIsOne, ProcessesFit, ProcessFits, Blank
  <2> QED BY <1>1, <1>2, <1>4, <2>1, <2>2 DEF LedgerShape, DoneMeansApplied, EscalatedLate
<1>7. CountsMove(p, x)
  BY <1>1, <1>2, ShapeFacts, ProcCounts
<1>8. CallsAreCounted'
  <2> SUFFICES ASSUME NEW d \in Effects
               PROVE  applied'[d] + late'[d] + Cardinality(Callers(d)') <= One(d \in fired') + entry'[d].attempts
    BY DEF CallsAreCounted
  <2>1. applied[d] + late[d] + Cardinality(Callers(d)) <= One(d \in fired) + entry[d].attempts
    BY DEF LedgerInv, CallsAreCounted
  <2>2. Cardinality(Callers(d)) \in Nat /\ Cardinality(Callers(d)') = Cardinality(Callers(d)) + One(d = e)
    BY <1>1, <1>2, <1>3, <1>7, ShapeFacts DEF CountsMove, Calls, One, IdleProc
  <2>3. One(d \in fired') = One(d \in fired) + One(d = e)
    BY <1>2 DEF One
  <2> QED BY <1>1, <1>2, <2>1, <2>2, <2>3, ShapeFacts DEF One
<1>9. RetriesAreCounted'
  <2>1. ASSUME NEW d \in Effects
        PROVE  /\ Cardinality(Waiting(d)') = Cardinality(Waiting(d))
               /\ Cardinality(Holders(d)') = Cardinality(Holders(d))
    BY <1>2, <1>3, <1>7 DEF CountsMove, Holds, One, IdleProc
  <2> QED BY <1>2, <2>1 DEF LedgerInv, RetriesAreCounted
<1>10. AloneIsCurrent' /\ SettledOnce'
  BY <1>1, <1>2, <1>3, <1>5, ShapeFacts DEF LedgerInv, AloneIsCurrent, SettledOnce
<1> QED BY <1>6, <1>8, <1>9, <1>10 DEF LedgerInv

(* The gateway answers, or the executor gives up waiting. *)
LEMMA RunReturnsPreserves ==
  ASSUME LedgerInv, NEW p \in deployment.replicas, NEW answer \in Answers, RunReturns(p, answer)
  PROVE  LedgerInv'
<1> DEFINE e == proc[p].now
           x == [proc[p] EXCEPT !.answer = answer]
<1>1. LedgerShape
  BY DEF LedgerInv
<1>2. /\ p \in Replicas /\ proc[p].answer = "NONE" /\ e \in Effects
      /\ proc' = [proc EXCEPT ![p] = x]
      /\ UNCHANGED <<deployment, fired, entry, faults>>
  BY <1>1, ShapeFacts DEF RunReturns, Procs
<1>3. /\ x \in Procs /\ x.task = proc[p].task /\ x.todo = proc[p].todo /\ x.now = e
      /\ x.attempts = proc[p].attempts /\ x.answer = answer /\ answer # "NONE"
  BY <1>1, <1>2, ShapeFacts DEF Procs, Answers
<1>4. PICK m \in 0 .. 1, k \in 0 .. 1 :
        /\ applied' \in [Effects -> Nat] /\ late' \in [Effects -> Nat]
        /\ \A d \in Effects : applied'[d] = applied[d] + IF d = e THEN m ELSE 0
        /\ \A d \in Effects : late'[d] = late[d] + IF d = e THEN k ELSE 0
        /\ m + k <= 1 /\ (answer = "SUCCESS" => m = 1)
  <2>1. CASE answer = "SUCCESS"
    <3>1. applied' = [applied EXCEPT ![e] = @ + 1] /\ late' = late
      BY <2>1 DEF RunReturns
    <3>2. /\ applied' \in [Effects -> Nat] /\ late' \in [Effects -> Nat]
          /\ \A d \in Effects : applied'[d] = applied[d] + IF d = e THEN 1 ELSE 0
          /\ \A d \in Effects : late'[d] = late[d] + IF d = e THEN 0 ELSE 0
      BY <1>1, <1>2, <3>1, ShapeFacts
    <3> QED BY <3>2
  <2>2. CASE answer = "FAILED"
    <3>1. PICK n \in 0 .. 1 : applied' = [applied EXCEPT ![e] = @ + n] /\ late' = late
      BY <2>2 DEF RunReturns
    <3>2. /\ applied' \in [Effects -> Nat] /\ late' \in [Effects -> Nat]
          /\ \A d \in Effects : applied'[d] = applied[d] + IF d = e THEN n ELSE 0
          /\ \A d \in Effects : late'[d] = late[d] + IF d = e THEN 0 ELSE 0
      BY <1>1, <1>2, <3>1, ShapeFacts
    <3> QED BY <2>2, <3>2
  <2>3. CASE answer = "TIMEOUT"
    <3>1. late' = [late EXCEPT ![e] = @ + 1] /\ applied' = applied
      BY <2>3 DEF RunReturns
    <3>2. /\ applied' \in [Effects -> Nat] /\ late' \in [Effects -> Nat]
          /\ \A d \in Effects : applied'[d] = applied[d] + IF d = e THEN 0 ELSE 0
          /\ \A d \in Effects : late'[d] = late[d] + IF d = e THEN 1 ELSE 0
      BY <1>1, <1>2, <3>1, ShapeFacts
    <3> QED BY <2>3, <3>2
  <2> QED BY <2>1, <2>2, <2>3 DEF Answers
<1> HIDE DEF x
<1>5. /\ proc'[p] = x /\ \A q \in Replicas : q # p => proc'[q] = proc[q]
      /\ \A d \in Effects : applied'[d] >= applied[d]
      /\ e \in fired
  <2>1. e \in fired
    BY <1>1, <1>2, AnswersAreOfEffects, ShapeFacts
  <2> QED BY <1>1, <1>2, <1>4, <2>1, ShapeFacts
<1>6. LedgerShape'
  <2>1. TypeOK'
    BY <1>1, <1>2, <1>3, <1>4, ShapeFacts DEF LedgerShape, TypeOK
  <2>2. x.answer = "SUCCESS" => applied'[x.now] > 0
    BY <1>1, <1>2, <1>3, <1>4, ShapeFacts
  <2>3. x.task # "idle"
    BY <1>1, <1>2, <1>3, AnswersAreOfEffects, ShapeFacts
  <2>4. p \in deployment.replicas /\ x.now # NoEffect
    BY <1>1, <1>2, <1>3, ShapeFacts
  <2>5. ASSUME NEW q \in Replicas, q # p
        PROVE  proc[q].answer = "SUCCESS" => applied'[proc[q].now] > 0
    <3> SUFFICES ASSUME proc[q].answer = "SUCCESS" PROVE applied'[proc[q].now] > 0
      OBVIOUS
    <3>1. applied[proc[q].now] > 0
      BY <1>1 DEF LedgerShape, ProcessesFit, ProcessFits
    <3>2. proc[q].now \in Effects
      BY <1>1, AnswersAreOfEffects
    <3> QED BY <1>1, <1>5, <3>1, <3>2, ShapeFacts, <1>4
  <2>6. ProcessesFit'
    BY <1>1, <1>2, <1>3, <1>5, <2>2, <2>3, <2>4, <2>5 DEF LedgerShape, ProcessesFit, ProcessFits
  <2>7. FirstCallIsOne'
    BY <1>1, <1>2, <1>3, <1>4, <1>5, ShapeFacts DEF LedgerShape, FirstCallIsOne
  <2>8. DoneMeansApplied'
    BY <1>1, <1>2, <1>4, <1>5, ShapeFacts DEF LedgerShape, DoneMeansApplied
  <2> QED BY <1>1, <1>2, <2>1, <2>6, <2>7, <2>8 DEF LedgerShape, EscalatedLate
<1>7. CountsMove(p, x)
  BY <1>1, <1>2, ShapeFacts, ProcCounts
<1>8. CallsAreCounted'
  <2> SUFFICES ASSUME NEW d \in Effects
               PROVE  applied'[d] + late'[d] + Cardinality(Callers(d)') <= One(d \in fired') + entry'[d].attempts
    BY DEF CallsAreCounted
  <2>1. applied[d] + late[d] + Cardinality(Callers(d)) <= One(d \in fired) + entry[d].attempts
    BY DEF LedgerInv, CallsAreCounted
  <2>2. Cardinality(Callers(d)) \in Nat /\ Cardinality(Callers(d)') = Cardinality(Callers(d)) - One(d = e)
    BY <1>1, <1>2, <1>3, <1>7, ShapeFacts DEF CountsMove, Calls, One
  <2>3. /\ applied[d] \in Nat /\ late[d] \in Nat /\ entry[d].attempts \in Nat
        /\ applied'[d] = applied[d] + (IF d = e THEN m ELSE 0)
        /\ late'[d] = late[d] + (IF d = e THEN k ELSE 0)
    BY <1>1, <1>4, ShapeFacts
  <2> QED BY <1>2, <1>4, <2>1, <2>2, <2>3 DEF One
<1>9. RetriesAreCounted'
  <2>1. ASSUME NEW d \in Effects
        PROVE  /\ Cardinality(Waiting(d)') = Cardinality(Waiting(d))
               /\ Cardinality(Holders(d)') = Cardinality(Holders(d))
    <3>1. One(Holds(x, d)) = One(Holds(proc[p], d)) /\ One(d \in x.todo) = One(d \in proc[p].todo)
      BY <1>3 DEF Holds
    <3> QED BY <1>7, <3>1 DEF CountsMove, One
  <2> QED BY <1>2, <2>1 DEF LedgerInv, RetriesAreCounted
<1>10. AloneIsCurrent' /\ SettledOnce'
  BY <1>1, <1>2, <1>3, <1>5, ShapeFacts DEF LedgerInv, AloneIsCurrent, SettledOnce
<1> QED BY <1>6, <1>8, <1>9, <1>10 DEF LedgerInv

(* An abandoned worker finishes. *)
LEMMA AbandonedCallEndsPreserves ==
  ASSUME LedgerInv, NEW e \in Effects, AbandonedCallEnds(e)
  PROVE  LedgerInv'
<1>1. LedgerShape
  BY DEF LedgerInv
<1>2. PICK n \in 0 .. 1 :
        /\ late[e] > 0 /\ late' = [late EXCEPT ![e] = @ - 1] /\ applied' = [applied EXCEPT ![e] = @ + n]
        /\ UNCHANGED <<deployment, proc, fired, entry, faults>>
  BY DEF AbandonedCallEnds
<1>3. /\ late' \in [Effects -> Nat] /\ applied' \in [Effects -> Nat]
      /\ \A d \in Effects : /\ applied'[d] >= applied[d]
                            /\ applied'[d] + late'[d] <= applied[d] + late[d]
                            /\ late[d] = 0 => applied'[d] = applied[d] /\ late'[d] = 0
  BY <1>1, <1>2, ShapeFacts
<1>4. LedgerShape'
  <2>1. ProcessesFit'
    <3>1. ASSUME NEW q \in Replicas, proc[q].answer = "SUCCESS"
          PROVE  applied'[proc[q].now] > 0
      <4>1. applied[proc[q].now] > 0
        BY <1>1, <3>1 DEF LedgerShape, ProcessesFit, ProcessFits
      <4>2. proc[q].now \in Effects
        BY <1>1, <3>1, AnswersAreOfEffects
      <4> QED BY <1>1, <1>3, <4>1, <4>2, ShapeFacts
    <3> QED BY <1>1, <1>2, <3>1 DEF LedgerShape, ProcessesFit, ProcessFits
  <2>2. FirstCallIsOne'
    BY <1>1, <1>2, <1>3 DEF LedgerShape, FirstCallIsOne
  <2>3. DoneMeansApplied'
    BY <1>1, <1>2, <1>3, ShapeFacts DEF LedgerShape, DoneMeansApplied
  <2> QED BY <1>1, <1>2, <1>3, <2>1, <2>2, <2>3 DEF LedgerShape, EscalatedLate, TypeOK
<1>5. \A d : /\ Callers(d)' = Callers(d) /\ Waiting(d)' = Waiting(d) /\ Holders(d)' = Holders(d)
  BY <1>2 DEF Callers, Waiting, Holders
<1>6. CallsAreCounted'
  <2> SUFFICES ASSUME NEW d \in Effects
               PROVE  applied'[d] + late'[d] + Cardinality(Callers(d)') <= One(d \in fired') + entry'[d].attempts
    BY DEF CallsAreCounted
  <2>1. applied[d] + late[d] + Cardinality(Callers(d)) <= One(d \in fired) + entry[d].attempts
    BY DEF LedgerInv, CallsAreCounted
  <2>2. Cardinality(Callers(d)) \in Nat
    BY <1>1, ReplicasAreCounted, FS_Subset, FS_CardinalityType DEF LedgerShape, Callers
  <2>3. applied[d] \in Nat /\ late[d] \in Nat /\ applied'[d] \in Nat /\ late'[d] \in Nat
    BY <1>1, <1>3, ShapeFacts
  <2> QED BY <1>1, <1>2, <1>3, <1>5, <2>1, <2>2, <2>3, ShapeFacts DEF One
<1>7. RetriesAreCounted' /\ AloneIsCurrent' /\ SettledOnce'
  BY <1>2, <1>5 DEF LedgerInv, RetriesAreCounted, AloneIsCurrent, SettledOnce
<1> QED BY <1>4, <1>6, <1>7 DEF LedgerInv

(* A process becomes idle, or begins a pass, and nothing else changes but  *)
(* the count of faults: neither calls nor retries are added.               *)
LEMMA CallsStay ==
  ASSUME LedgerInv, NEW p \in deployment.replicas, NEW x,
         proc' = [proc EXCEPT ![p] = x], \A e \in Effects : ~Calls(x, e),
         UNCHANGED <<deployment, fired, late, applied>>,
         \A e \in Effects : entry'[e].attempts = entry[e].attempts
  PROVE  CallsAreCounted'
<1>1. LedgerShape
  BY DEF LedgerInv
<1>2. CountsMove(p, x)
  BY <1>1, ShapeFacts, ProcCounts
<1> SUFFICES ASSUME NEW e \in Effects
             PROVE  applied'[e] + late'[e] + Cardinality(Callers(e)') <= One(e \in fired') + entry'[e].attempts
  BY DEF CallsAreCounted
<1>3. applied[e] + late[e] + Cardinality(Callers(e)) <= One(e \in fired) + entry[e].attempts
  BY DEF LedgerInv, CallsAreCounted
<1>4. /\ Cardinality(Callers(e)) \in Nat /\ Cardinality(Callers(e)') \in Nat
      /\ Cardinality(Callers(e)') <= Cardinality(Callers(e))
  BY <1>2 DEF CountsMove, One
<1> QED BY <1>1, <1>3, <1>4, ShapeFacts DEF One

(* A process drops what it was doing, at most at the price of a fault. *)
LEMMA RetriesStay ==
  ASSUME LedgerInv, NEW p \in deployment.replicas,
         proc' = [proc EXCEPT ![p] = IdleProc], deployment' = deployment, faults' \in Nat,
         \A e \in Effects : /\ entry'[e].attempts = entry[e].attempts
                            /\ Unsettled(entry'[e]) => Unsettled(entry[e]) \/ Blank(entry[e]),
         faults' = faults + 1 \/ (faults' = faults /\ proc[p].task = "effect")
  PROVE  RetriesAreCounted'
<1>1. LedgerShape
  BY DEF LedgerInv
<1>2. CountsMove(p, IdleProc)
  BY <1>1, ShapeFacts, ProcCounts
<1> SUFFICES ASSUME NEW e \in Effects, entry'[e].attempts >= MaxAttempts
             PROVE  /\ Unsettled(entry'[e])
                         => entry'[e].attempts - MaxAttempts + 1 <= Cardinality(Holders(e)') + faults'
                    /\ entry'[e].attempts - MaxAttempts + 1 + Cardinality(Waiting(e)')
                         <= Cardinality(deployment'.replicas) + faults'
  BY DEF RetriesAreCounted
<1>3. /\ entry[e].attempts \in Nat /\ MaxAttempts \in Nat \ {0} /\ faults \in Nat
      /\ entry[e].attempts >= MaxAttempts /\ ~Blank(entry[e])
      /\ Cardinality(deployment.replicas) \in Nat
  BY <1>1, ShapeFacts DEF Blank
<1>4. /\ Unsettled(entry[e]) => entry[e].attempts - MaxAttempts + 1 <= Cardinality(Holders(e)) + faults
      /\ entry[e].attempts - MaxAttempts + 1 + Cardinality(Waiting(e))
           <= Cardinality(deployment.replicas) + faults
  BY <1>3 DEF LedgerInv, RetriesAreCounted
<1>5. /\ Cardinality(Holders(e)) \in Nat /\ Cardinality(Holders(e)') \in Nat
      /\ Cardinality(Waiting(e)) \in Nat /\ Cardinality(Waiting(e)') \in Nat
      /\ Cardinality(Waiting(e)') <= Cardinality(Waiting(e))
      /\ Cardinality(Holders(e)) + faults <= Cardinality(Holders(e)') + faults'
  <2>1. ~Holds(IdleProc, e) /\ e \notin IdleProc.todo
    BY DEF Holds, IdleProc
  <2>2. proc[p].task = "effect" => ~Holds(proc[p], e)
    BY DEF Holds
  <2> QED BY <1>2, <1>3, <2>1, <2>2 DEF CountsMove, One
<1> QED BY <1>3, <1>4, <1>5

(* The outcome of the first call is recorded. *)
LEMMA RecordEffectPreserves ==
  ASSUME LedgerInv, NEW p \in deployment.replicas, RecordEffect(p)
  PROVE  LedgerInv'
<1> DEFINE e == proc[p].now
           y == [home |-> p, recorded |-> TRUE,
                 needs_compensation |-> NeedsCompensation(proc[p].answer),
                 attempts |-> 0, compensated |-> FALSE, escalated |-> FALSE]
<1>1. LedgerShape
  BY DEF LedgerInv
<1>2. /\ p \in Replicas /\ proc[p].task = "effect" /\ proc[p].answer # "NONE"
      /\ e \in Effects /\ e \in fired /\ Blank(entry[e])
      /\ proc' = [proc EXCEPT ![p] = IdleProc] /\ entry' = [entry EXCEPT ![e] = y]
      /\ UNCHANGED <<deployment, fired, late, applied, faults>>
  BY <1>1, ShapeFacts, AnswersAreOfEffects DEF RecordEffect, LedgerShape, ProcessesFit, ProcessFits
<1>3. y \in Entries /\ y.attempts = 0 /\ y.needs_compensation = (proc[p].answer # "SUCCESS")
      /\ ~y.compensated /\ ~y.escalated
  BY <1>2 DEF Entries, NeedsCompensation
<1> HIDE DEF y
<1>4. /\ proc'[p] = IdleProc /\ \A q \in Replicas : q # p => proc'[q] = proc[q]
      /\ entry'[e] = y /\ \A d \in Effects : d # e => entry'[d] = entry[d]
      /\ IdleProc \in Procs
  BY <1>1, <1>2, ShapeFacts DEF IdleProc, Procs
<1>5. LedgerShape'
  <2>1. TypeOK'
    BY <1>1, <1>2, <1>3, <1>4, ShapeFacts DEF LedgerShape, TypeOK
  <2>2. ProcessesFit'
    <3>1. ASSUME NEW q \in Replicas, q # p PROVE ProcessFits(q, proc[q])'
      <4>1. ProcessFits(q, proc[q]) /\ proc[q] \in Procs /\ proc'[q] = proc[q]
        BY <1>1, <1>4, <3>1, ShapeFacts DEF LedgerShape, ProcessesFit
      <4>2. proc[q].task = "effect" => proc[q].now # e
        BY <1>1, <1>2, <3>1 DEF LedgerShape, FirstCallIsOne
      <4>3. proc[q].task = "reconcile" => proc[q].now # e /\ e \notin proc[q].todo
        BY <1>1, <1>2, <4>1, ShapeFacts DEF ProcessFits, Blank
      <4>4. proc[q].now # NoEffect => proc[q].now \in Effects
        BY <4>1 DEF Procs
      <4>5. \A d \in proc[q].todo : d \in Effects
        BY <4>1 DEF Procs
      <4> QED BY <1>2, <1>4, <4>1, <4>2, <4>3, <4>4, <4>5 DEF ProcessFits
    <3>2. ProcessFits(p, proc[p])'
      BY <1>4, IdleHoldsNothing DEF ProcessFits
    <3> QED BY <3>1, <3>2 DEF ProcessesFit
  <2>3. FirstCallIsOne'
    BY <1>1, <1>2, <1>4 DEF LedgerShape, FirstCallIsOne, IdleProc
  <2>4. DoneMeansApplied'
    <3>1. ~y.needs_compensation \/ y.compensated => applied[e] > 0
      BY <1>1, <1>2, <1>3 DEF LedgerShape, ProcessesFit, ProcessFits
    <3> QED BY <1>1, <1>2, <1>4, <3>1 DEF LedgerShape, DoneMeansApplied
  <2>5. EscalatedLate'
    BY <1>1, <1>2, <1>3, <1>4 DEF LedgerShape, EscalatedLate
  <2> QED BY <1>1, <1>2, <2>1, <2>2, <2>3, <2>4, <2>5 DEF LedgerShape
<1>6. \A d \in Effects : /\ entry'[d].attempts = entry[d].attempts
                         /\ Unsettled(entry'[d]) => Unsettled(entry[d]) \/ Blank(entry[d])
  BY <1>2, <1>3, <1>4 DEF Blank
<1>7. CallsAreCounted' /\ RetriesAreCounted'
  <2>1. \A d \in Effects : ~Calls(IdleProc, d)
    BY <1>1, ShapeFacts DEF Calls, IdleProc
  <2>2. faults' = faults /\ faults' \in Nat
    BY <1>1, <1>2, ShapeFacts
  <2> QED BY <1>2, <1>6, <2>1, <2>2, CallsStay, RetriesStay
<1>8. AloneIsCurrent' /\ SettledOnce'
  <2>1. SettledOnce'
    BY <1>2, <1>3, <1>4 DEF LedgerInv, SettledOnce
  <2>2. ASSUME Cardinality(deployment.replicas) = 1,
               NEW q \in deployment.replicas, NEW d \in Effects,
               d \in proc'[q].todo \/ (proc'[q].task = "reconcile" /\ proc'[q].now = d)
        PROVE  Unsettled(entry'[d])
    <3>1. q # p /\ proc'[q] = proc[q]
      BY <1>1, <1>2, <1>4, <2>2, ShapeFacts DEF IdleProc
    <3>2. Unsettled(entry[d])
      BY <2>2, <3>1 DEF LedgerInv, AloneIsCurrent
    <3> QED BY <1>2, <1>4, <3>2 DEF Blank, Unsettled
  <2> QED BY <1>2, <2>1, <2>2 DEF AloneIsCurrent
<1> QED BY <1>5, <1>7, <1>8 DEF LedgerInv

(* The record of an outcome is lost. *)
LEMMA RecordFailsPreserves ==
  ASSUME LedgerInv, NEW p \in deployment.replicas, RecordFails(p)
  PROVE  LedgerInv'
<1>1. LedgerShape
  BY DEF LedgerInv
<1>2. /\ p \in Replicas /\ proc[p].task = "effect" /\ faults' = faults + 1
      /\ faults < deployment.faults
      /\ proc' = [proc EXCEPT ![p] = IdleProc]
      /\ UNCHANGED <<deployment, fired, entry, late, applied>>
  BY <1>1, ShapeFacts DEF RecordFails
<1>3. proc'[p] = IdleProc /\ (\A q \in Replicas : q # p => proc'[q] = proc[q]) /\ IdleProc \in Procs
  BY <1>1, <1>2, ShapeFacts, IdleHoldsNothing
<1>4. LedgerShape'
  <2>1. TypeOK'
    BY <1>1, <1>2, <1>3, ShapeFacts DEF LedgerShape, TypeOK
  <2>2. ProcessesFit'
    BY <1>1, <1>2, <1>3, IdleHoldsNothing DEF LedgerShape, ProcessesFit, ProcessFits
  <2>3. FirstCallIsOne'
    BY <1>1, <1>2, <1>3, IdleHoldsNothing DEF LedgerShape, FirstCallIsOne
  <2> QED BY <1>1, <1>2, <2>1, <2>2, <2>3 DEF LedgerShape, DoneMeansApplied, EscalatedLate
<1>5. CallsAreCounted' /\ RetriesAreCounted'
  <2>1. \A d \in Effects : ~Calls(IdleProc, d)
    BY <1>1, ShapeFacts, IdleHoldsNothing DEF Calls
  <2>2. faults' \in Nat
    BY <1>1, <1>2, ShapeFacts
  <2> QED BY <1>2, <2>1, <2>2, CallsStay, RetriesStay
<1>6. AloneIsCurrent' /\ SettledOnce'
  BY <1>1, <1>2, <1>3, IdleHoldsNothing, ShapeFacts DEF LedgerInv, AloneIsCurrent, SettledOnce
<1> QED BY <1>4, <1>5, <1>6 DEF LedgerInv

(* A pass takes its snapshot of what is unsettled. *)
LEMMA BeginPassPreserves ==
  ASSUME LedgerInv, NEW p \in deployment.replicas, NEW given \in BOOLEAN, BeginPass(p, given)
  PROVE  LedgerInv'
<1> DEFINE todo == Pending(p, given)
           x == [proc[p] EXCEPT !.task = "reconcile", !.todo = todo]
<1>1. LedgerShape
  BY DEF LedgerInv
<1>2. /\ p \in Replicas /\ proc[p] = IdleProc /\ proc' = [proc EXCEPT ![p] = x]
      /\ UNCHANGED <<deployment, fired, entry, late, applied, faults>>
  BY <1>1, ShapeFacts DEF BeginPass
<1>3. todo \subseteq Effects /\ \A e \in todo : Unsettled(entry[e])
  BY DEF Pending
<1> HIDE DEF todo
<1>4. /\ x \in Procs /\ x.task = "reconcile" /\ x.todo = todo /\ x.now = NoEffect
      /\ x.attempts = 0 /\ x.answer = "NONE"
  BY <1>2, <1>3, IdleHoldsNothing DEF Procs
<1> HIDE DEF x
<1>5. proc'[p] = x /\ \A q \in Replicas : q # p => proc'[q] = proc[q]
  BY <1>1, <1>2, ShapeFacts
<1>6. LedgerShape'
  <2>1. TypeOK'
    BY <1>1, <1>2, <1>4, ShapeFacts DEF LedgerShape, TypeOK
  <2>2. ProcessesFit'
    <3>1. ProcessFits(p, proc[p])'
      BY <1>2, <1>3, <1>4, <1>5 DEF ProcessFits, Unsettled
    <3> QED BY <1>1, <1>2, <1>5, <3>1 DEF LedgerShape, ProcessesFit, ProcessFits
  <2>3. FirstCallIsOne'
    BY <1>1, <1>2, <1>4, <1>5 DEF LedgerShape, FirstCallIsOne
  <2> QED BY <1>1, <1>2, <2>1, <2>2, <2>3 DEF LedgerShape, DoneMeansApplied, EscalatedLate
<1>7. CountsMove(p, x)
  BY <1>1, <1>2, ShapeFacts, ProcCounts
<1>8. CallsAreCounted'
  <2>1. \A d \in Effects : ~Calls(x, d)
    BY <1>1, <1>4, ShapeFacts DEF Calls
  <2> QED BY <1>2, <2>1, CallsStay
<1>9. RetriesAreCounted'
  <2> SUFFICES ASSUME NEW e \in Effects, entry[e].attempts >= MaxAttempts
               PROVE  /\ Unsettled(entry[e])
                           => entry[e].attempts - MaxAttempts + 1 <= Cardinality(Holders(e)') + faults
                      /\ entry[e].attempts - MaxAttempts + 1 + Cardinality(Waiting(e)')
                           <= Cardinality(deployment.replicas) + faults
    BY <1>2 DEF RetriesAreCounted
  <2>1. /\ entry[e].attempts \in Nat /\ MaxAttempts \in Nat \ {0} /\ faults \in Nat
        /\ Cardinality(deployment.replicas) \in Nat
    BY <1>1, ShapeFacts
  <2>2. /\ Unsettled(entry[e]) => entry[e].attempts - MaxAttempts + 1 <= Cardinality(Holders(e)) + faults
        /\ entry[e].attempts - MaxAttempts + 1 + Cardinality(Waiting(e))
             <= Cardinality(deployment.replicas) + faults
    BY DEF LedgerInv, RetriesAreCounted
  <2>3. /\ Cardinality(Holders(e)) \in Nat /\ Cardinality(Holders(e)') = Cardinality(Holders(e))
        /\ Cardinality(Waiting(e)) \in Nat /\ Cardinality(Waiting(e)') \in Nat
        /\ Cardinality(Waiting(e)') = Cardinality(Waiting(e)) + One(e \in todo)
    <3>1. ~Holds(proc[p], e) /\ ~Holds(x, e) /\ e \notin proc[p].todo
      BY <1>1, <1>2, <1>4, IdleHoldsNothing, ShapeFacts DEF Holds
    <3> QED BY <1>4, <1>7, <3>1 DEF CountsMove, One
  <2>4. CASE e \notin todo
    BY <2>1, <2>2, <2>3, <2>4 DEF One
  <2>5. CASE e \in todo
    <3>1. Holders(e) \cap Waiting(e)' = {}
      <4> SUFFICES ASSUME NEW q \in deployment.replicas, proc[q].task = "reconcile", proc[q].now = e,
                          e \in proc'[q].todo
                   PROVE  FALSE
        BY <1>2 DEF Holders, Waiting
      <4>1. q # p
        BY <1>2, IdleHoldsNothing
      <4>2. q \in Replicas /\ e \in proc[q].todo
        BY <1>1, <1>5, <4>1, ShapeFacts
      <4> QED BY <1>1, <4>2, ShapeFacts DEF LedgerShape, ProcessesFit, ProcessFits
    <3>2. Holders(e) \in SUBSET deployment.replicas /\ Waiting(e)' \in SUBSET deployment.replicas
      BY <1>2 DEF Holders, Waiting
    <3>3. Cardinality(Holders(e)) + Cardinality(Waiting(e)') <= Cardinality(deployment.replicas)
      BY <1>1, <3>1, <3>2, ShapeFacts, ReplicasAreCounted, DisjointCount
    <3> QED BY <1>3, <2>1, <2>2, <2>3, <2>5, <3>3
  <2> QED BY <2>4, <2>5
<1>10. AloneIsCurrent' /\ SettledOnce'
  BY <1>1, <1>2, <1>3, <1>4, <1>5, ShapeFacts DEF LedgerInv, AloneIsCurrent, SettledOnce
<1> QED BY <1>6, <1>8, <1>9, <1>10 DEF LedgerInv

(* A retry is counted, then called. *)
LEMMA RetryPreserves ==
  ASSUME LedgerInv, NEW p \in deployment.replicas, NEW e \in Effects, Retry(p, e)
  PROVE  LedgerInv'
<1> DEFINE x == [proc[p] EXCEPT !.now = e, !.todo = proc[p].todo \ {e},
                                !.attempts = entry[e].attempts + 1]
           y == [entry[e] EXCEPT !.attempts = entry[e].attempts + 1]
<1>1. LedgerShape
  BY DEF LedgerInv
<1>2. /\ p \in Replicas /\ proc[p].task = "reconcile" /\ proc[p].now = NoEffect /\ e \in proc[p].todo
      /\ proc' = [proc EXCEPT ![p] = x] /\ entry' = [entry EXCEPT ![e] = y]
      /\ UNCHANGED <<deployment, fired, late, applied, faults>>
  <2>1. entry' = [entry EXCEPT ![e] = y]
    BY <1>1, ShapeFacts DEF Retry, Counted, Entries
  <2>2. proc' = [proc EXCEPT ![p] = x]
    BY DEF Retry
  <2> HIDE DEF x, y
  <2> QED BY <1>1, <2>1, <2>2, ShapeFacts DEF Retry
<1>3. /\ ProcessFits(p, proc[p]) /\ proc[p] \in Procs /\ entry[e] \in Entries
      /\ entry[e].attempts \in Nat /\ e # NoEffect
  BY <1>1, <1>2, ShapeFacts DEF LedgerShape, ProcessesFit
<1>4. /\ x \in Procs /\ x.task = "reconcile" /\ x.todo = proc[p].todo \ {e} /\ x.now = e
      /\ x.attempts = entry[e].attempts + 1 /\ x.answer = "NONE"
  <2>1. proc[p].answer = "NONE"
    BY <1>2, <1>3 DEF ProcessFits
  <2>2. proc[p].todo \ {e} \in SUBSET Effects /\ entry[e].attempts + 1 \in Nat
    BY <1>3 DEF Procs
  <2> QED BY <1>2, <1>3, <2>1, <2>2 DEF Procs
<1>5. /\ y \in Entries /\ y.attempts = entry[e].attempts + 1 /\ y.recorded = entry[e].recorded
      /\ y.needs_compensation = entry[e].needs_compensation /\ y.compensated = entry[e].compensated
      /\ y.escalated = entry[e].escalated /\ entry[e].needs_compensation
  BY <1>2, <1>3 DEF Entries, ProcessFits
<1> HIDE DEF x, y
<1>6. /\ proc'[p] = x /\ \A q \in Replicas : q # p => proc'[q] = proc[q]
      /\ entry'[e] = y /\ \A d \in Effects : d # e => entry'[d] = entry[d]
      /\ e \in fired
  <2>1. e \in fired
    BY <1>1, <1>5 DEF LedgerShape, FirstCallIsOne, Blank
  <2> QED BY <1>1, <1>2, <2>1, ShapeFacts
<1>7. LedgerShape'
  <2>1. TypeOK'
    BY <1>1, <1>2, <1>4, <1>5, ShapeFacts DEF LedgerShape, TypeOK
  <2>2. ProcessesFit'
    <3>1. ProcessFits(p, proc[p])'
      <4>1. \A d \in x.todo : entry'[d].needs_compensation
        BY <1>2, <1>3, <1>4, <1>6 DEF ProcessFits, Procs
      <4>2. p \in deployment'.replicas
        BY <1>2
      <4>3. x.attempts <= y.attempts
        BY <1>3, <1>4, <1>5
      <4> QED BY <1>3, <1>4, <1>5, <1>6, <4>1, <4>2, <4>3 DEF ProcessFits
    <3>2. ASSUME NEW q \in Replicas, q # p PROVE ProcessFits(q, proc[q])'
      <4>1. ProcessFits(q, proc[q]) /\ proc[q] \in Procs /\ proc'[q] = proc[q]
        BY <1>1, <1>6, <3>2, ShapeFacts DEF LedgerShape, ProcessesFit
      <4>2. proc[q].task = "effect" => proc[q].now # e
        BY <1>5, <4>1 DEF ProcessFits, Blank
      <4>3. /\ proc[q].now # NoEffect => proc[q].now \in Effects
            /\ \A d \in proc[q].todo : d \in Effects
        BY <4>1 DEF Procs
      <4>4. /\ \A d \in Effects : entry'[d].needs_compensation = entry[d].needs_compensation
            /\ \A d \in Effects : entry[d].attempts <= entry'[d].attempts
            /\ \A d \in Effects \ {e} : Blank(entry[d]) => Blank(entry'[d])
            /\ \A d \in Effects : entry[d].attempts \in Nat /\ entry'[d].attempts \in Nat
        <5>1. \A d \in Effects : entry[d].attempts \in Nat
          BY <1>1, ShapeFacts
        <5>2. \A d \in Effects : d = e \/ entry'[d] = entry[d]
          BY <1>6
        <5>3. y.attempts \in Nat /\ entry[e].attempts <= y.attempts
          BY <1>3, <1>5
        <5>4. \A d \in Effects : entry[d].attempts <= entry'[d].attempts /\ entry'[d].attempts \in Nat
          BY <1>6, <5>1, <5>2, <5>3
        <5>5. \A d \in Effects : entry'[d].needs_compensation = entry[d].needs_compensation
          BY <1>5, <1>6, <5>2
        <5> QED BY <5>1, <5>2, <5>4, <5>5
      <4>5. proc[q].attempts \in Nat
        BY <4>1 DEF Procs
      <4> QED BY <1>2, <4>1, <4>2, <4>3, <4>4, <4>5 DEF ProcessFits
    <3> QED BY <3>1, <3>2 DEF ProcessesFit
  <2>3. FirstCallIsOne'
    BY <1>1, <1>2, <1>4, <1>6 DEF LedgerShape, FirstCallIsOne
  <2>4. DoneMeansApplied'
    BY <1>1, <1>2, <1>5, <1>6 DEF LedgerShape, DoneMeansApplied
  <2>5. EscalatedLate'
    BY <1>1, <1>3, <1>5, <1>6, ShapeFacts DEF LedgerShape, EscalatedLate
  <2> QED BY <1>1, <1>2, <2>1, <2>2, <2>3, <2>4, <2>5 DEF LedgerShape
<1>8. CountsMove(p, x)
  BY <1>1, <1>2, ShapeFacts, ProcCounts
<1>9. CallsAreCounted'
  <2> SUFFICES ASSUME NEW d \in Effects
               PROVE  applied[d] + late[d] + Cardinality(Callers(d)') <= One(d \in fired) + entry'[d].attempts
    BY <1>2 DEF CallsAreCounted
  <2>1. applied[d] + late[d] + Cardinality(Callers(d)) <= One(d \in fired) + entry[d].attempts
    BY DEF LedgerInv, CallsAreCounted
  <2>2. Cardinality(Callers(d)) \in Nat /\ Cardinality(Callers(d)') = Cardinality(Callers(d)) + One(d = e)
    BY <1>1, <1>2, <1>4, <1>8, ShapeFacts DEF CountsMove, Calls, One
  <2>3. entry[d].attempts \in Nat /\ entry'[d].attempts = entry[d].attempts + One(d = e)
    BY <1>1, <1>5, <1>6, ShapeFacts DEF One
  <2> QED BY <1>1, <2>1, <2>2, <2>3, ShapeFacts DEF One
<1>10. RetriesAreCounted'
  <2> SUFFICES ASSUME NEW d \in Effects, entry'[d].attempts >= MaxAttempts
               PROVE  /\ Unsettled(entry'[d])
                           => entry'[d].attempts - MaxAttempts + 1 <= Cardinality(Holders(d)') + faults
                      /\ entry'[d].attempts - MaxAttempts + 1 + Cardinality(Waiting(d)')
                           <= Cardinality(deployment.replicas) + faults
    BY <1>2 DEF RetriesAreCounted
  <2>1. /\ entry[d].attempts \in Nat /\ MaxAttempts \in Nat \ {0} /\ faults \in Nat
        /\ Cardinality(deployment.replicas) \in Nat
    BY <1>1, ShapeFacts
  <2>2. entry[d].attempts >= MaxAttempts =>
        /\ Unsettled(entry[d]) => entry[d].attempts - MaxAttempts + 1 <= Cardinality(Holders(d)) + faults
        /\ entry[d].attempts - MaxAttempts + 1 + Cardinality(Waiting(d))
             <= Cardinality(deployment.replicas) + faults
    BY DEF LedgerInv, RetriesAreCounted
  <2>3. /\ Cardinality(Holders(d)) \in Nat
        /\ Cardinality(Holders(d)') = Cardinality(Holders(d)) + One(Holds(x, d))
        /\ Cardinality(Waiting(d)) \in Nat /\ Cardinality(Waiting(d)') \in Nat
        /\ Cardinality(Waiting(d)') = Cardinality(Waiting(d)) - One(d = e)
    <3>1. One(Holds(proc[p], d)) = 0
      BY <1>1, <1>2, ShapeFacts DEF Holds, One
    <3>2. One(d \in x.todo) = One(d \in proc[p].todo) - One(d = e)
      BY <1>2, <1>4 DEF One
    <3>3. One(d \in x.todo) \in Nat /\ One(d \in proc[p].todo) \in Nat /\ One(d = e) \in Nat
          /\ One(Holds(x, d)) \in Nat
      BY DEF One
    <3> QED BY <1>8, <3>1, <3>2, <3>3 DEF CountsMove
  <2>4. CASE d # e
    <3>1. entry'[d] = entry[d] /\ One(d = e) = 0 /\ One(Holds(x, d)) = 0
      BY <1>4, <1>6, <2>4 DEF Holds, One
    <3> QED BY <2>1, <2>2, <2>3, <3>1
  <2>5. CASE d = e
    <3>1. entry'[d].attempts = entry[d].attempts + 1 /\ One(d = e) = 1
      BY <1>5, <1>6, <2>5 DEF One
    <3>2. One(Holds(x, d)) = 1
      BY <1>4, <2>1, <2>5, <3>1 DEF Holds, One
    <3>3. Unsettled(entry'[d]) => Unsettled(entry[d])
      BY <1>5, <1>6, <2>5 DEF Unsettled
    <3>4. Cardinality(Waiting(d)) <= Cardinality(deployment.replicas)
      BY <1>1, ReplicasAreCounted, ShapeFacts, FS_Subset DEF Waiting
    <3>5. CASE entry[d].attempts >= MaxAttempts
      BY <2>1, <2>2, <2>3, <3>1, <3>2, <3>3, <3>5
    <3>6. CASE entry[d].attempts < MaxAttempts
      <4>1. entry'[d].attempts = MaxAttempts
        BY <2>1, <3>1, <3>6
      <4> QED BY <2>1, <2>3, <3>1, <3>2, <3>4, <4>1
    <3> QED BY <2>1, <3>5, <3>6
  <2> QED BY <2>4, <2>5
<1>11. AloneIsCurrent' /\ SettledOnce'
  <2>1. SettledOnce'
    BY <1>2, <1>5, <1>6 DEF LedgerInv, SettledOnce
  <2>2. ASSUME Cardinality(deployment.replicas) = 1,
               NEW q \in deployment.replicas, NEW d \in Effects,
               d \in proc'[q].todo \/ (proc'[q].task = "reconcile" /\ proc'[q].now = d)
        PROVE  Unsettled(entry'[d])
    <3>1. d \in proc[q].todo \/ (proc[q].task = "reconcile" /\ proc[q].now = d)
      BY <1>1, <1>2, <1>4, <1>6, <2>2, ShapeFacts
    <3>2. Unsettled(entry[d])
      BY <2>2, <3>1 DEF LedgerInv, AloneIsCurrent
    <3> QED BY <1>5, <1>6, <3>2 DEF Unsettled
  <2> QED BY <1>2, <2>1, <2>2 DEF AloneIsCurrent
<1> QED BY <1>7, <1>9, <1>10, <1>11 DEF LedgerInv

(* The verdict on a retry; the pass goes on, or ends. *)
LEMMA SettlePreserves ==
  ASSUME LedgerInv, NEW p \in deployment.replicas, Settle(p)
  PROVE  LedgerInv'
<1> DEFINE e == proc[p].now
           x == proc'[p]
           y == entry'[e]
<1>1. LedgerShape
  BY DEF LedgerInv
<1>2. /\ p \in Replicas /\ proc[p].task = "reconcile" /\ proc[p].answer # "NONE"
      /\ e \in Effects /\ e \in fired /\ proc[p] \in Procs /\ ProcessFits(p, proc[p])
      /\ entry[e] \in Entries /\ entry[e].attempts \in Nat /\ proc[p].attempts \in Nat
      /\ proc[p].attempts <= entry[e].attempts /\ e \notin proc[p].todo
      /\ UNCHANGED <<deployment, fired, late, applied, faults>>
  <2>1. /\ p \in Replicas /\ proc[p].task = "reconcile" /\ proc[p].answer # "NONE"
        /\ UNCHANGED <<deployment, fired, late, applied, faults>>
    BY <1>1, ShapeFacts DEF Settle
  <2>2. e \in Effects /\ e \in fired /\ e # NoEffect
    BY <1>1, <2>1, AnswersAreOfEffects, ShapeFacts
  <2>3. proc[p] \in Procs /\ ProcessFits(p, proc[p]) /\ entry[e] \in Entries
    BY <1>1, <2>1, <2>2, ShapeFacts DEF LedgerShape, ProcessesFit
  <2> QED BY <1>1, <2>1, <2>2, <2>3, ShapeFacts DEF ProcessFits
<1>3. /\ proc' = [proc EXCEPT ![p] = x] /\ x \in Procs /\ x.now = NoEffect /\ x.answer = "NONE"
      /\ x.todo = proc[p].todo /\ x.task # "effect" /\ x.attempts = 0
      /\ x.task = "idle" => x = IdleProc
  <2>1. CASE proc[p].todo = {}
    <3>1. proc' = [proc EXCEPT ![p] = IdleProc]
      BY <2>1 DEF Settle
    <3>2. x = IdleProc
      BY <1>1, <1>2, <3>1, ShapeFacts
    <3> QED BY <2>1, <3>1, <3>2, IdleHoldsNothing
  <2>2. CASE proc[p].todo # {}
    <3> DEFINE z == [proc[p] EXCEPT !.now = NoEffect, !.attempts = 0, !.answer = "NONE"]
    <3>1. proc' = [proc EXCEPT ![p] = z]
      BY <2>2 DEF Settle
    <3>2. /\ z \in Procs /\ z.now = NoEffect /\ z.answer = "NONE" /\ z.todo = proc[p].todo
          /\ z.task = "reconcile" /\ z.attempts = 0
      BY <1>2 DEF Procs
    <3> HIDE DEF z
    <3>3. x = z
      BY <1>1, <1>2, <3>1, ShapeFacts
    <3> QED BY <3>1, <3>2, <3>3
  <2> QED BY <2>1, <2>2
<1>4. /\ y \in Entries /\ y.attempts = entry[e].attempts /\ y.recorded = entry[e].recorded
      /\ y.needs_compensation = entry[e].needs_compensation
      /\ entry' \in [Effects -> Entries] /\ \A d \in Effects : d # e => entry'[d] = entry[d]
      /\ Unsettled(y) => Unsettled(entry[e])
      /\ y.compensated => entry[e].compensated \/ applied[e] > 0
      /\ y.escalated => entry[e].escalated \/ proc[p].attempts >= MaxAttempts
      /\ proc[p].attempts >= MaxAttempts => ~Unsettled(y)
      /\ y.compensated /\ y.escalated => entry[e].compensated \/ entry[e].escalated
  <2>1. CASE proc[p].answer = "SUCCESS"
    <3>1. entry' = [entry EXCEPT ![e].compensated = TRUE]
      BY <2>1 DEF Settle
    <3>2. applied[e] > 0
      BY <1>2, <2>1 DEF ProcessFits
    <3> QED BY <1>1, <1>2, <3>1, <3>2, ShapeFacts DEF Entries, Unsettled
  <2>2. CASE proc[p].answer # "SUCCESS" /\ proc[p].attempts >= MaxAttempts
    <3>1. entry' = [entry EXCEPT ![e].escalated = TRUE]
      BY <2>2 DEF Settle
    <3> QED BY <1>1, <1>2, <2>2, <3>1, ShapeFacts DEF Entries, Unsettled
  <2>3. CASE proc[p].answer # "SUCCESS" /\ ~(proc[p].attempts >= MaxAttempts)
    <3>1. entry' = entry
      BY <2>3 DEF Settle
    <3> QED BY <1>1, <1>2, <2>3, <3>1, ShapeFacts DEF Unsettled
  <2> QED BY <2>1, <2>2, <2>3
<1>5. \A q \in Replicas : q # p => proc'[q] = proc[q]
  BY <1>1, <1>3, ShapeFacts
<1> HIDE DEF x, y
<1>6. /\ proc'[p] = x /\ entry'[e] = y
      /\ \A d \in Effects : /\ entry'[d].attempts = entry[d].attempts
                            /\ entry'[d].needs_compensation = entry[d].needs_compensation
                            /\ Unsettled(entry'[d]) => Unsettled(entry[d])
  BY <1>4 DEF x, y
<1>7. LedgerShape'
  <2>1. TypeOK'
    BY <1>1, <1>2, <1>3, <1>4, ShapeFacts DEF LedgerShape, TypeOK
  <2>2. ProcessesFit'
    <3>1. ProcessFits(p, proc[p])'
      BY <1>2, <1>3, <1>6 DEF ProcessFits, Procs
    <3>2. ASSUME NEW q \in Replicas, q # p PROVE ProcessFits(q, proc[q])'
      <4>1. ProcessFits(q, proc[q]) /\ proc[q] \in Procs /\ proc'[q] = proc[q]
        BY <1>1, <1>5, <3>2, ShapeFacts DEF LedgerShape, ProcessesFit
      <4>2. /\ proc[q].now # NoEffect => proc[q].now \in Effects
            /\ \A d \in proc[q].todo : d \in Effects
        BY <4>1 DEF Procs
      <4>3. proc[q].task = "effect" => proc[q].now # e
        <5>1. entry[e].needs_compensation
          BY <1>2 DEF ProcessFits
        <5> QED BY <4>1, <5>1 DEF ProcessFits, Blank
      <4> QED BY <1>2, <1>4, <1>6, <4>1, <4>2, <4>3 DEF ProcessFits
    <3> QED BY <3>1, <3>2 DEF ProcessesFit
  <2>3. FirstCallIsOne'
    BY <1>1, <1>2, <1>3, <1>4, <1>5, <1>6 DEF LedgerShape, FirstCallIsOne
  <2>4. DoneMeansApplied'
    BY <1>1, <1>2, <1>4, <1>6 DEF LedgerShape, DoneMeansApplied
  <2>5. EscalatedLate'
    BY <1>1, <1>2, <1>4, <1>6, ShapeFacts DEF LedgerShape, EscalatedLate
  <2> QED BY <1>1, <1>2, <2>1, <2>2, <2>3, <2>4, <2>5 DEF LedgerShape
<1>8. CallsAreCounted'
  <2>1. \A d \in Effects : ~Calls(x, d)
    BY <1>1, <1>3, ShapeFacts DEF Calls
  <2> QED BY <1>2, <1>3, <1>6, <2>1, CallsStay
<1>9. CountsMove(p, x)
  BY <1>1, <1>2, <1>3, ShapeFacts, ProcCounts
<1>10. RetriesAreCounted'
  <2> SUFFICES ASSUME NEW d \in Effects, entry'[d].attempts >= MaxAttempts
               PROVE  /\ Unsettled(entry'[d])
                           => entry'[d].attempts - MaxAttempts + 1 <= Cardinality(Holders(d)') + faults
                      /\ entry'[d].attempts - MaxAttempts + 1 + Cardinality(Waiting(d)')
                           <= Cardinality(deployment.replicas) + faults
    BY <1>2 DEF RetriesAreCounted
  <2>1. /\ entry[d].attempts \in Nat /\ MaxAttempts \in Nat \ {0} /\ faults \in Nat
        /\ Cardinality(deployment.replicas) \in Nat /\ entry'[d].attempts = entry[d].attempts
    BY <1>1, <1>6, ShapeFacts
  <2>2. /\ Unsettled(entry[d]) => entry[d].attempts - MaxAttempts + 1 <= Cardinality(Holders(d)) + faults
        /\ entry[d].attempts - MaxAttempts + 1 + Cardinality(Waiting(d))
             <= Cardinality(deployment.replicas) + faults
    BY <2>1 DEF LedgerInv, RetriesAreCounted
  <2>3. Cardinality(Waiting(d)') = Cardinality(Waiting(d))
    BY <1>3, <1>9 DEF CountsMove, One
  <2>4. Unsettled(entry'[d]) => Cardinality(Holders(d)') = Cardinality(Holders(d))
    <3>1. Unsettled(entry'[d]) => ~Holds(proc[p], d)
      BY <1>4, <1>6 DEF Holds
    <3>2. ~Holds(x, d)
      BY <1>1, <1>3, ShapeFacts DEF Holds
    <3> QED BY <1>9, <3>1, <3>2 DEF CountsMove, One
  <2> QED BY <1>6, <2>1, <2>2, <2>3, <2>4
<1>11. AloneIsCurrent' /\ SettledOnce'
  <2>1. ASSUME Cardinality(deployment.replicas) = 1,
               NEW q \in deployment.replicas, NEW d \in Effects,
               d \in proc'[q].todo \/ (proc'[q].task = "reconcile" /\ proc'[q].now = d)
        PROVE  Unsettled(entry'[d])
    <3>1. q = p
      <4>1. IsFiniteSet(deployment.replicas)
        BY <1>1, ReplicasAreCounted DEF LedgerShape
      <4> QED BY <2>1, <4>1, FS_Singleton
    <3>2. d \in proc[p].todo
      BY <1>1, <1>3, <1>6, <2>1, <3>1, ShapeFacts
    <3>3. Unsettled(entry[d])
      BY <2>1, <3>2 DEF LedgerInv, AloneIsCurrent
    <3> QED BY <1>2, <1>4, <3>2, <3>3
  <2>2. ASSUME Cardinality(deployment.replicas) = 1, NEW d \in Effects
        PROVE  ~(entry'[d].compensated /\ entry'[d].escalated)
    <3>1. Unsettled(entry[e])
      BY <1>2, <2>2 DEF LedgerInv, AloneIsCurrent
    <3> QED BY <1>4, <1>6, <2>2, <3>1 DEF LedgerInv, SettledOnce, Unsettled
  <2> QED BY <1>2, <2>1, <2>2 DEF AloneIsCurrent, SettledOnce
<1> QED BY <1>7, <1>8, <1>10, <1>11 DEF LedgerInv

(* A process dies; the call it was in may be carried out all the same.     *)
LEMMA CrashPreserves ==
  ASSUME LedgerInv, NEW p \in deployment.replicas, Crash(p)
  PROVE  LedgerInv'
<1> DEFINE e == proc[p].now
<1>1. LedgerShape
  BY DEF LedgerInv
<1>2. /\ p \in Replicas /\ faults' = faults + 1 /\ faults < deployment.faults
      /\ proc' = [proc EXCEPT ![p] = IdleProc] /\ UNCHANGED <<deployment, fired, late>>
  BY <1>1, ShapeFacts DEF Crash
<1>3. /\ entry' \in [Effects -> Entries]
      /\ \A d \in Effects : /\ entry'[d].attempts = entry[d].attempts
                            /\ entry'[d].needs_compensation = entry[d].needs_compensation
                            /\ entry'[d].compensated = entry[d].compensated
                            /\ entry'[d].escalated = entry[d].escalated
                            /\ entry'[d].recorded => entry[d].recorded
                            /\ Unsettled(entry'[d]) <=> Unsettled(entry[d])
                            /\ Blank(entry[d]) => Blank(entry'[d])
  <2>1. ASSUME NEW d \in Effects
        PROVE  /\ entry'[d] \in Entries
               /\ entry'[d].attempts = entry[d].attempts
               /\ entry'[d].needs_compensation = entry[d].needs_compensation
               /\ entry'[d].compensated = entry[d].compensated
               /\ entry'[d].escalated = entry[d].escalated
               /\ entry'[d].recorded => entry[d].recorded
    <3>1. entry'[d] = entry[d] \/ entry'[d] = [entry[d] EXCEPT !.recorded = FALSE]
      BY DEF Crash
    <3>2. entry[d] \in Entries
      BY <1>1, ShapeFacts
    <3> QED BY <3>1, <3>2 DEF Entries
  <2>2. entry' = [d \in Effects |-> entry'[d]]
    BY DEF Crash
  <2>3. entry' \in [Effects -> Entries]
    BY <2>1, <2>2
  <2> QED BY <2>1, <2>3 DEF Unsettled, Blank
<1>4. PICK n \in 0 .. 1 :
        /\ applied' \in [Effects -> Nat]
        /\ \A d \in Effects : applied'[d] = applied[d] + IF d = e THEN n ELSE 0
        /\ n = 1 => Calling(p)
  <2>1. CASE applied' = applied
    BY <1>1, <2>1, ShapeFacts
  <2>2. CASE Calling(p) /\ applied' = [applied EXCEPT ![e] = @ + 1]
    <3>1. applied \in [Effects -> Nat] /\ e \in Effects
      BY <1>1, <1>2, <2>2, ShapeFacts, AnswersAreOfEffects DEF Calling
    <3> HIDE DEF e
    <3>2. applied' \in [Effects -> Nat]
      BY <2>2, <3>1
    <3>3. \A d \in Effects : applied'[d] = applied[d] + IF d = e THEN 1 ELSE 0
      BY <2>2, <3>1
    <3> QED BY <2>2, <3>2, <3>3
  <2> QED BY <2>1, <2>2 DEF Crash
<1>5. /\ proc'[p] = IdleProc /\ (\A q \in Replicas : q # p => proc'[q] = proc[q])
      /\ IdleProc \in Procs
      /\ \A d \in Effects : applied'[d] >= applied[d]
  BY <1>1, <1>2, <1>4, ShapeFacts, IdleHoldsNothing
<1>6. n = 1 => e \in fired
  BY <1>1, <1>2, <1>4, AnswersAreOfEffects DEF Calling
<1>7. LedgerShape'
  <2>1. TypeOK'
    BY <1>1, <1>2, <1>3, <1>4, <1>5, ShapeFacts DEF LedgerShape, TypeOK
  <2>2. ProcessesFit'
    <3>1. ProcessFits(p, proc[p])'
      BY <1>2, <1>5, IdleHoldsNothing DEF ProcessFits
    <3>2. ASSUME NEW q \in Replicas, q # p PROVE ProcessFits(q, proc[q])'
      <4>1. ProcessFits(q, proc[q]) /\ proc[q] \in Procs /\ proc'[q] = proc[q]
        BY <1>1, <1>5, <3>2, ShapeFacts DEF LedgerShape, ProcessesFit
      <4>2. /\ proc[q].now # NoEffect => proc[q].now \in Effects
            /\ \A d \in proc[q].todo : d \in Effects
        BY <4>1 DEF Procs
      <4>3. proc[q].answer = "SUCCESS" => applied'[proc[q].now] > 0
        BY <1>1, <1>4, <1>5, <3>2, <4>1, AnswersAreOfEffects, ShapeFacts DEF ProcessFits
      <4> QED BY <1>2, <1>3, <4>1, <4>2, <4>3 DEF ProcessFits
    <3> QED BY <3>1, <3>2 DEF ProcessesFit
  <2>3. FirstCallIsOne'
    <3>1. ASSUME NEW d \in Effects \ fired
          PROVE  Blank(entry'[d]) /\ applied'[d] = 0 /\ late'[d] = 0
      <4>1. Blank(entry[d]) /\ applied[d] = 0 /\ late[d] = 0
        BY <1>1 DEF LedgerShape, FirstCallIsOne
      <4> QED BY <1>2, <1>3, <1>4, <1>6, <4>1
    <3>2. ASSUME NEW q \in Replicas, NEW r \in Replicas,
                 proc'[q].task = "effect", proc'[r].task = "effect", proc'[q].now = proc'[r].now
          PROVE  q = r
      <4>1. q # p /\ r # p
        BY <1>5, <3>2, IdleHoldsNothing
      <4> QED BY <1>1, <1>5, <3>2, <4>1 DEF LedgerShape, FirstCallIsOne
    <3> QED BY <1>2, <3>1, <3>2 DEF FirstCallIsOne
  <2>4. DoneMeansApplied'
    BY <1>1, <1>3, <1>4, <1>5, ShapeFacts DEF LedgerShape, DoneMeansApplied
  <2>5. EscalatedLate'
    BY <1>1, <1>3 DEF LedgerShape, EscalatedLate
  <2> QED BY <1>1, <1>2, <2>1, <2>2, <2>3, <2>4, <2>5 DEF LedgerShape
<1>8. CountsMove(p, IdleProc)
  BY <1>1, <1>2, ShapeFacts, ProcCounts
<1>9. CallsAreCounted'
  <2> SUFFICES ASSUME NEW d \in Effects
               PROVE  applied'[d] + late'[d] + Cardinality(Callers(d)') <= One(d \in fired') + entry'[d].attempts
    BY DEF CallsAreCounted
  <2>1. applied[d] + late[d] + Cardinality(Callers(d)) <= One(d \in fired) + entry[d].attempts
    BY DEF LedgerInv, CallsAreCounted
  <2>2. /\ Cardinality(Callers(d)) \in Nat /\ Cardinality(Callers(d)') \in Nat
        /\ Cardinality(Callers(d)') = Cardinality(Callers(d)) - One(Calls(proc[p], d))
    <3>1. ~Calls(IdleProc, d)
      BY <1>1, ShapeFacts, IdleHoldsNothing DEF Calls
    <3> QED BY <1>8, <3>1 DEF CountsMove, One
  <2>3. /\ applied[d] \in Nat /\ late[d] \in Nat /\ entry[d].attempts \in Nat
        /\ entry'[d].attempts = entry[d].attempts
        /\ applied'[d] = applied[d] + (IF d = e THEN n ELSE 0)
    BY <1>1, <1>3, <1>4, ShapeFacts
  <2>4. d = e /\ n = 1 => Calls(proc[p], d)
    BY <1>4 DEF Calls, Calling
  <2> QED BY <1>2, <1>4, <2>1, <2>2, <2>3, <2>4 DEF One
<1>10. RetriesAreCounted'
  <2>1. faults' \in Nat
    BY <1>1, <1>2, ShapeFacts
  <2> QED BY <1>2, <1>3, <2>1, RetriesStay
<1>11. AloneIsCurrent' /\ SettledOnce'
  <2>1. SettledOnce'
    BY <1>2, <1>3 DEF LedgerInv, SettledOnce
  <2>2. ASSUME Cardinality(deployment.replicas) = 1,
               NEW q \in deployment.replicas, NEW d \in Effects,
               d \in proc'[q].todo \/ (proc'[q].task = "reconcile" /\ proc'[q].now = d)
        PROVE  Unsettled(entry'[d])
    <3>1. q # p /\ proc'[q] = proc[q]
      BY <1>1, <1>5, <2>2, ShapeFacts, IdleHoldsNothing
    <3> QED BY <1>3, <2>2, <3>1 DEF LedgerInv, AloneIsCurrent
  <2> QED BY <1>2, <2>1, <2>2 DEF AloneIsCurrent
<1> QED BY <1>7, <1>9, <1>10, <1>11 DEF LedgerInv

(* A fault elsewhere only counts. *)
LEMMA FaultPreserves ==
  ASSUME LedgerInv, faults < deployment.faults, faults' = faults + 1,
         UNCHANGED <<deployment, proc, fired, entry, late, applied>>
  PROVE  LedgerInv'
<1>1. LedgerShape
  BY DEF LedgerInv
<1>2. \A d : /\ Callers(d)' = Callers(d) /\ Waiting(d)' = Waiting(d) /\ Holders(d)' = Holders(d)
  BY DEF Callers, Waiting, Holders
<1>3. LedgerShape'
  <2>1. ProcessesFit'
    BY <1>1 DEF LedgerShape, ProcessesFit, ProcessFits
  <2>2. TypeOK'
    BY <1>1, ShapeFacts DEF LedgerShape, TypeOK
  <2> QED BY <1>1, <2>1, <2>2 DEF LedgerShape, FirstCallIsOne, DoneMeansApplied, EscalatedLate
<1>4. RetriesAreCounted'
  <2> SUFFICES ASSUME NEW e \in Effects, entry[e].attempts >= MaxAttempts
               PROVE  /\ Unsettled(entry[e])
                           => entry[e].attempts - MaxAttempts + 1 <= Cardinality(Holders(e)) + faults'
                      /\ entry[e].attempts - MaxAttempts + 1 + Cardinality(Waiting(e))
                           <= Cardinality(deployment.replicas) + faults'
    BY <1>2 DEF RetriesAreCounted
  <2>1. /\ entry[e].attempts \in Nat /\ MaxAttempts \in Nat /\ faults \in Nat
        /\ Cardinality(deployment.replicas) \in Nat
    BY <1>1, ShapeFacts
  <2>2. Cardinality(Holders(e)) \in Nat /\ Cardinality(Waiting(e)) \in Nat
    BY <1>1, ReplicasAreCounted, FS_Subset, FS_CardinalityType DEF LedgerShape, Holders, Waiting
  <2> QED BY <2>1, <2>2 DEF LedgerInv, RetriesAreCounted
<1>5. CallsAreCounted' /\ AloneIsCurrent' /\ SettledOnce'
  BY <1>2 DEF LedgerInv, CallsAreCounted, AloneIsCurrent, SettledOnce
<1> QED BY <1>3, <1>4, <1>5 DEF LedgerInv

(* Initially nothing is fired, called or counted. *)
LEMMA LedgerInit == ASSUME ReplyInit PROVE LedgerInv
<1>1. /\ deployment \in Deployments /\ proc = [p \in Replicas |-> IdleProc] /\ fired = {}
      /\ late = [e \in Effects |-> 0] /\ applied = [e \in Effects |-> 0] /\ faults = 0
  BY DEF ReplyInit, Init
<1>2. PICK p \in deployment.replicas :
        entry = [e \in Effects |-> [home |-> p, recorded |-> FALSE, needs_compensation |-> FALSE,
                                    attempts |-> 0, compensated |-> FALSE, escalated |-> FALSE]]
  BY DEF ReplyInit, Init
<1>3. /\ p \in Replicas /\ deployment.faults \in Nat /\ MaxAttempts \in Nat \ {0}
      /\ deployment.replicas \subseteq Replicas /\ NoEffect \notin Effects
  BY <1>1, ReplicasAreCounted
<1>4. /\ entry \in [Effects -> Entries]
      /\ \A e \in Effects : Blank(entry[e]) /\ ~entry[e].recorded /\ ~Unsettled(entry[e])
  BY <1>2, <1>3 DEF Entries, Blank, Unsettled
<1>5. \A q \in Replicas : proc[q] = IdleProc
  BY <1>1
<1>6. TypeOK
  BY <1>1, <1>3, <1>4, IdleHoldsNothing DEF TypeOK
<1>7. ProcessesFit /\ FirstCallIsOne
  BY <1>1, <1>4, <1>5, IdleFits, IdleHoldsNothing DEF ProcessesFit, FirstCallIsOne
<1>8. LedgerShape
  BY <1>1, <1>4, <1>6, <1>7 DEF LedgerShape, DoneMeansApplied, EscalatedLate, Blank
<1>9. CallsAreCounted
  <2> SUFFICES ASSUME NEW e \in Effects
               PROVE  applied[e] + late[e] + Cardinality(Callers(e)) <= One(e \in fired) + entry[e].attempts
    BY DEF CallsAreCounted
  <2>1. Callers(e) = {}
    BY <1>3, <1>5, IdleHoldsNothing DEF Callers
  <2>2. applied[e] = 0 /\ late[e] = 0 /\ entry[e].attempts = 0
    BY <1>1, <1>4 DEF Blank
  <2> QED BY <1>1, <2>1, <2>2, FS_EmptySet DEF One
<1>10. RetriesAreCounted /\ AloneIsCurrent /\ SettledOnce
  BY <1>3, <1>4, <1>5, IdleHoldsNothing
     DEF RetriesAreCounted, AloneIsCurrent, SettledOnce, Blank
<1> QED BY <1>8, <1>9, <1>10 DEF LedgerInv

(* Every step of the replies keeps the ledger's invariant. *)
LEMMA LedgerNext == ASSUME LedgerInv, [ReplyNext]_allVars PROVE LedgerInv'
<1>1. CASE UNCHANGED vars
  <2>1. \A e : /\ Callers(e)' = Callers(e) /\ Waiting(e)' = Waiting(e) /\ Holders(e)' = Holders(e)
    BY <1>1 DEF Callers, Waiting, Holders, vars
  <2>2. LedgerShape'
    <3>1. ProcessesFit'
      BY <1>1 DEF LedgerInv, LedgerShape, ProcessesFit, ProcessFits, vars
    <3> QED BY <1>1, <3>1
          DEF LedgerInv, LedgerShape, TypeOK, DoneMeansApplied, EscalatedLate, FirstCallIsOne, vars
  <2> QED BY <1>1, <2>1, <2>2
        DEF LedgerInv, CallsAreCounted, RetriesAreCounted, AloneIsCurrent, SettledOnce, vars
<1>2. ASSUME NEW p \in deployment.replicas, NEW r \in deployment.requests, Submit(p, r)
      PROVE  LedgerInv'
  <2>1. CASE UNCHANGED vars
    BY <1>1, <2>1
  <2>2. CASE \E e \in deployment.letters : Fire(p, e)
    <3>1. deployment.letters \subseteq Effects
      BY ReplicasAreCounted DEF LedgerInv, LedgerShape
    <3> QED BY <2>2, <3>1, FirePreserves
  <2> QED BY <1>2, <2>1, <2>2 DEF Submit, Composed, Deduped, Sends
<1>3. ASSUME NEW p \in deployment.replicas, NEW answer \in Answers, Returns(p, answer)
      PROVE  LedgerInv'
  BY <1>3, RunReturnsPreserves DEF Returns
<1>4. ASSUME NEW p \in deployment.replicas, NEW a \in answers[p], Forget(p, a)
      PROVE  LedgerInv'
  BY <1>4, FaultPreserves DEF Forget
<1>5. ASSUME NEW p \in deployment.replicas, OutboxStep(p) PROVE LedgerInv'
  <2>1. CASE \E e \in Effects : ApplyEffect(p, e)
    BY <2>1, FirePreserves DEF ApplyEffect
  <2>2. CASE SchedulerPass(p) \/ AdminPass(p)
    BY <2>2, BeginPassPreserves DEF SchedulerPass, AdminPass
  <2>3. CASE \E e \in Effects : Retry(p, e)
    BY <2>3, RetryPreserves
  <2>4. CASE RecordEffect(p)
    BY <2>4, RecordEffectPreserves
  <2>5. CASE RecordFails(p)
    BY <2>5, RecordFailsPreserves
  <2>6. CASE Settle(p)
    BY <2>6, SettlePreserves
  <2> QED BY <1>5, <2>1, <2>2, <2>3, <2>4, <2>5, <2>6 DEF OutboxStep
<1>6. ASSUME NEW p \in deployment.replicas, Persist(p) \/ Close(p) PROVE LedgerInv'
  BY <1>1, <1>6 DEF Persist, Close
<1>7. ASSUME NEW p \in deployment.replicas, PersistFails(p) \/ RunRaises(p) PROVE LedgerInv'
  BY <1>7, FaultPreserves DEF PersistFails, RunRaises
<1>8. ASSUME NEW p \in deployment.replicas, Restart(p) PROVE LedgerInv'
  BY <1>8, CrashPreserves DEF Restart
<1>9. ASSUME NEW e \in Effects, AbandonedCallEnds(e) PROVE LedgerInv'
  BY <1>9, AbandonedCallEndsPreserves
<1>10. CASE UNCHANGED allVars
  BY <1>1, <1>10 DEF allVars
<1> QED BY <1>2, <1>3, <1>4, <1>5, <1>6, <1>7, <1>8, <1>9, <1>10 DEF ReplyNext

(* The ledger is true to what the gateway did: done means performed, the   *)
(* retries are bounded by the replicas and the faults, duplicates cost an  *)
(* attempt, and a process alone settles an entry one way (outbox.py        *)
(* reconcile_pending, record_effect).                                      *)
THEOREM LedgerIsAlwaysTrue == ReplySpec => []LedgerIsTrue
<1>1. ReplyInit => LedgerInv
  BY LedgerInit
<1>2. LedgerInv /\ [ReplyNext]_allVars => LedgerInv'
  BY LedgerNext
<1>3. LedgerInv => LedgerIsTrue
  BY LedgerTold
<1> QED BY <1>1, <1>2, <1>3, PTL DEF ReplySpec

-----------------------------------------------------------------------------
(* The desk.  A step adds to what was performed and to what was fired, and *)
(* what was fired keeps its letter.                                        *)
Grown ==
  /\ deployment' = deployment /\ fired \subseteq fired' /\ blind \subseteq blind'
  /\ \A e \in Effects : applied'[e] >= applied[e]
  /\ \A e \in fired : letter'[e] = letter[e]

(* What is true of the gateway stays true. *)
LEMMA TruthStays ==
  ASSUME LedgerInv, LedgerInv', Grown
  PROVE  /\ \A reply : Happened(reply) => Happened(reply)'
         /\ \A data : DataOK(data) => DataOK(data)'
<1>1. \A e \in Effects : applied[e] > 0 => e \in fired /\ applied'[e] > 0
  <2>1. LedgerShape /\ LedgerShape'
    BY DEF LedgerInv
  <2>2. \A e \in Effects : applied[e] \in Nat
    BY <2>1, ShapeFacts
  <2>3. \A e \in Effects : applied'[e] \in Nat
    BY <2>1 DEF LedgerShape, TypeOK
  <2> QED BY <2>1, <2>2, <2>3 DEF LedgerShape, FirstCallIsOne, Grown
<1>2. ASSUME NEW reply, Happened(reply) PROVE Happened(reply)'
  BY <1>1, <1>2 DEF Happened, Grown
<1>3. ASSUME NEW data, DataOK(data) PROVE DataOK(data)'
  BY <1>1, <1>3 DEF DataOK
<1> QED BY <1>2, <1>3

(* A handler that a step leaves alone still fits. *)
LEMMA HandlerStays ==
  ASSUME LedgerInv, LedgerInv', DeskInv, Grown, NEW q \in Replicas,
         handler'[q] = handler[q], ledger'[q] = ledger[q], ranBy'[q] \subseteq ranBy[q],
         proc'[q] = proc[q] \/ proc'[q] = IdleProc \/ ~Busy(q)
  PROVE  HandlerFits(q)'
<1> DEFINE h == handler[q]
<1> SUFFICES ASSUME Busy(q)' PROVE Serves(q, handler[q])'
  BY DEF HandlerFits
<1>1. Busy(q) /\ Serves(q, h) /\ handler'[q] = h
  BY DEF Busy, DeskInv, HandlersFit, HandlerFits
<1>2. DataOK(h.read)'
  BY <1>1, TruthStays DEF Serves
<1>3. h.letter # NoEffect => /\ letter'[h.letter] = letter[h.letter] /\ h.letter \in fired'
                             /\ applied[h.letter] > 0 => applied'[h.letter] > 0
  <2> SUFFICES ASSUME h.letter # NoEffect
               PROVE  /\ letter'[h.letter] = letter[h.letter] /\ h.letter \in fired'
                      /\ applied[h.letter] > 0 => applied'[h.letter] > 0
    OBVIOUS
  <2>1. h.letter \in fired /\ fired \subseteq Effects
    BY <1>1, ShapeFacts DEF Serves, LedgerInv
  <2>2. applied[h.letter] \in Nat /\ applied'[h.letter] \in Nat
    BY <2>1 DEF LedgerInv, LedgerShape, TypeOK
  <2> QED BY <2>1, <2>2 DEF Grown
<1>4. h.letter \notin blind' => h.letter \notin blind
  BY DEF Grown
<1> QED BY <1>1, <1>2, <1>3, <1>4 DEF Serves

(* What a process still remembers is still true. *)
LEMMA MemoryStays ==
  ASSUME LedgerInv, LedgerInv', DeskInv, Grown, NEW q \in Replicas,
         ledger'[q] = ledger[q], sentBy'[q] = sentBy[q],
         \A k \in ranBy'[q] : \E a \in answers'[q] : k \in Keys(a)
  PROVE  Remembers(q)'
<1>1. Remembers(q)
  BY DEF DeskInv, MemoryFits
<1>2. \A k \in ledger[q] : Happened(k.reply)'
  BY <1>1, TruthStays DEF Remembers
<1> QED BY <1>1, <1>2 DEF Remembers, Grown

(* The invariant of the desk follows from what the step's process did.     *)
LEMMA DeskStep ==
  ASSUME LedgerInv, LedgerInv', DeskInv, Grown, DeskTypeOK', NEW p \in Replicas,
         \A q \in Replicas :
           q # p => /\ handler'[q] = handler[q] /\ ledger'[q] = ledger[q] /\ sentBy'[q] = sentBy[q]
                    /\ ranBy'[q] = ranBy[q] /\ answers'[q] = answers[q] /\ proc'[q] = proc[q],
         HandlerFits(p)', Remembers(p)', DataOK(record.data)',
         \A e \in resent' : e \in resent \/ e \in blind',
         \A reply \in told' : reply \in told \/ Happened(reply)',
         again' = FALSE
  PROVE  DeskInv'
<1>1. HandlersFit'
  BY HandlerStays DEF HandlersFit
<1>2. MemoryFits'
  <2>1. ASSUME NEW q \in Replicas, q # p PROVE Remembers(q)'
    <3>1. \A k \in ranBy[q] : \E a \in answers[q] : k \in Keys(a)
      BY DEF DeskInv, MemoryFits, Remembers
    <3> QED BY <2>1, <3>1, MemoryStays
  <2> QED BY <2>1 DEF MemoryFits
<1>3. SentWasDelivered'
  <2>1. \A reply \in told' : Happened(reply)'
    <3>1. \A reply \in told : Happened(reply)
      BY DEF DeskInv, RepliesAreTrue, SentWasDelivered, Happened
    <3> QED BY <3>1, TruthStays
  <2> QED BY <2>1 DEF SentWasDelivered, Happened, DataOK
<1>4. SentOncePerLife'
  BY DEF SentOncePerLife, DeskInv, RepliesAreTrue, Grown
<1> QED BY <1>1, <1>2, <1>3, <1>4 DEF DeskInv, RepliesAreTrue, KeyRunsOnce

(* What a request is. *)
LEMMA RequestsAreAsked ==
  ASSUME deployment \in Deployments, NEW r \in deployment.requests
  PROVE  r \in Asked /\ r.action \in {"DRAFT_REPLY", "SEND_REPLY"}
BY RepliesAssumption DEF RepliesAssumption, Asked

(* A free process is not one that serves a request. *)
LEMMA FreeServesNothing ==
  /\ Free \in Handlers /\ Free.request = NoRequest /\ Free.letter = NoEffect
  /\ Free.answer = "NONE" /\ NoRequest.action = "none"
BY DEF Free, Handlers, NoRequest

(* A request that was not answered, its process did not carry out.         *)
LEMMA UnansweredIsNew ==
  ASSUME DeskInv, NEW p \in Replicas, NEW r, ~Answered(p, r)
  PROVE  Keys(r) \cap ranBy[p] = {}
<1> SUFFICES ASSUME NEW k \in Keys(r), k \in ranBy[p] PROVE FALSE
  OBVIOUS
<1>1. PICK a \in answers[p] : k \in Keys(a)
  BY DEF DeskInv, MemoryFits, Remembers
<1>2. a.user = r.user /\ a.key = r.key /\ r.key # "none"
  BY <1>1 DEF Keys
<1> QED BY <1>1, <1>2 DEF Answered, Under

(* An edit keeps the history of the draft a chain. *)
LEMMA EditsChain ==
  ASSUME NEW chain \in Seq(Revisions), NEW h, h.request \in Asked, ChainOK(chain)
  PROVE  Revised(chain, h) \in Seq(Revisions) /\ ChainOK(Revised(chain, h))
<1> DEFINE text == h.request.text
<1>1. CASE ~h.composed \/ (chain # <<>> /\ chain[Len(chain)].text = text)
  BY <1>1 DEF Revised
<1>2. CASE h.composed /\ ~(chain # <<>> /\ chain[Len(chain)].text = text)
  <2> DEFINE v == [version |-> Len(chain) + 1, text |-> text,
                   source |-> IF chain = <<>> THEN "AI_GENERATED" ELSE "OPERATOR_EDIT"]
             c == Append(chain, v)
  <2>1. Revised(chain, h) = c
    BY <1>2 DEF Revised, EveryDraft
  <2>2. /\ v \in Revisions /\ v.version = Len(chain) + 1 /\ v.text = text
        /\ v.source = IF chain = <<>> THEN "AI_GENERATED" ELSE "OPERATOR_EDIT"
    BY DEF Revisions
  <2> HIDE DEF v
  <2>3. /\ c \in Seq(Revisions) /\ Len(c) = Len(chain) + 1 /\ DOMAIN c = 1 .. Len(chain) + 1
        /\ c[Len(chain) + 1] = v /\ \A i \in 1 .. Len(chain) : c[i] = chain[i]
        /\ DOMAIN chain = 1 .. Len(chain) /\ Len(chain) \in Nat /\ (chain = <<>> <=> Len(chain) = 0)
    BY <2>2
  <2> HIDE DEF c
  <2>4. ASSUME NEW i \in DOMAIN c
        PROVE  /\ c[i].version = i
               /\ c[i].source = IF i = 1 THEN "AI_GENERATED" ELSE "OPERATOR_EDIT"
               /\ i > 1 => c[i].text # c[i - 1].text
    <3>1. CASE i \in 1 .. Len(chain)
      <4>1. i > 1 => i - 1 \in 1 .. Len(chain)
        BY <2>3, <3>1
      <4> QED BY <2>3, <3>1, <4>1 DEF ChainOK
    <3>2. CASE i = Len(chain) + 1
      <4>1. i > 1 => c[i - 1] = chain[Len(chain)] /\ chain # <<>>
        BY <2>3, <3>2
      <4> QED BY <1>2, <2>2, <2>3, <3>2, <4>1
    <3> QED BY <2>3, <2>4, <3>1, <3>2
  <2> QED BY <2>1, <2>3, <2>4 DEF ChainOK
<1> QED BY <1>1, <1>2

(* What a process was told of its own call goes to the handler it serves.  *)
LEMMA ReturnsKeeps ==
  ASSUME LedgerInv, LedgerInv', DeskInv, NEW p \in deployment.replicas, NEW answer \in Answers,
         Returns(p, answer)
  PROVE  DeskInv'
<1>1. /\ LedgerShape /\ LedgerShape' /\ p \in Replicas /\ proc[p].now # NoEffect
      /\ proc' = [proc EXCEPT ![p].answer = answer]
      /\ UNCHANGED <<deployment, fired, record, answers, ledger, letter, submits, sentBy, ranBy, told, blind, resent, again>>
  BY ShapeFacts DEF LedgerInv, Returns, RunReturns, past
<1>2. \A e \in Effects : applied'[e] >= applied[e]
  <2>1. applied \in [Effects -> Nat]
    BY <1>1, ShapeFacts
  <2>2. ASSUME NEW n \in 0 .. 1, applied' = [applied EXCEPT ![proc[p].now] = @ + n]
        PROVE  \A e \in Effects : applied'[e] >= applied[e]
    <3> SUFFICES ASSUME NEW e \in Effects PROVE applied'[e] >= applied[e]
      OBVIOUS
    <3>1. applied'[e] = applied[e] \/ applied'[e] = applied[e] + n
      BY <2>1, <2>2
    <3> QED BY <2>1, <3>1
  <2>3. CASE answer = "SUCCESS"
    <3>1. applied' = [applied EXCEPT ![proc[p].now] = @ + 1]
      BY <2>3 DEF Returns, RunReturns
    <3> QED BY <2>2, <3>1
  <2>4. CASE answer = "FAILED"
    <3>1. PICK n \in 0 .. 1 : applied' = [applied EXCEPT ![proc[p].now] = @ + n]
      BY <2>4 DEF Returns, RunReturns
    <3> QED BY <2>2, <3>1
  <2>5. CASE answer = "TIMEOUT"
    <3>1. applied' = applied
      BY <2>5 DEF Returns, RunReturns
    <3> QED BY <2>1, <3>1
  <2> QED BY <2>3, <2>4, <2>5 DEF Answers
<1>3. Grown
  BY <1>1, <1>2 DEF Grown
<1>4. CASE proc[p].task = "effect" /\ Busy(p)
  <2>0. PICK delivered \in {FALSE, answer = "SUCCESS"} :
          handler' = [handler EXCEPT ![p] = [@ EXCEPT !.answer = answer, !.delivered = delivered]]
    BY <1>4 DEF Returns
  <2> DEFINE h == [handler[p] EXCEPT !.answer = answer, !.delivered = delivered]
  <2>1. handler' = [handler EXCEPT ![p] = h]
    BY <2>0
  <2>2. /\ handler[p] \in Handlers /\ Serves(p, handler[p])
    BY <1>1, <1>4 DEF DeskInv, DeskTypeOK, HandlersFit, HandlerFits
  <2>3. /\ h \in Handlers /\ h.request = handler[p].request /\ h.read = handler[p].read
        /\ h.letter = handler[p].letter /\ h.answer = answer
    BY <2>0, <2>2 DEF Handlers
  <2> HIDE DEF h
  <2>4. DeskTypeOK' /\ handler'[p] = h /\ \A q \in Replicas : q # p => handler'[q] = handler[q]
    BY <1>1, <2>1, <2>3 DEF DeskInv, DeskTypeOK
  <2>5. /\ proc'[p].task = "effect" /\ proc'[p].now = proc[p].now /\ proc'[p].answer = answer
        /\ \A q \in Replicas : q # p => proc'[q] = proc[q]
    <3>1. proc \in [Replicas -> Procs] /\ proc[p] \in Procs
      BY <1>1, ShapeFacts
    <3> QED BY <1>1, <1>4, <3>1 DEF Procs
  <2>6. proc[p] # IdleProc /\ h.letter = proc[p].now
    BY <1>1, <1>4, <2>2, <2>3, IdleHoldsNothing DEF Serves
  <2>7. answer = "SUCCESS" => applied'[h.letter] > 0
    BY <1>1, <2>5, <2>6 DEF LedgerShape, ProcessesFit, ProcessFits
  <2>8. DataOK(handler[p].read)'
    <3>1. DataOK(handler[p].read) /\ handler'[p].read = handler[p].read
      BY <2>2, <2>3, <2>4 DEF Serves
    <3> QED BY <1>3, <3>1, TruthStays
  <2>9. HandlerFits(p)'
    BY <1>1, <2>2, <2>3, <2>4, <2>5, <2>6, <2>7, <2>8 DEF HandlerFits, Serves
  <2>10. Remembers(p)' /\ DataOK(record.data)'
    BY <1>1, <1>3, MemoryStays, TruthStays DEF DeskInv, MemoryFits, Remembers
  <2> QED BY <1>1, <1>3, <2>4, <2>5, <2>9, <2>10, DeskStep
        DEF DeskInv, RepliesAreTrue, KeyRunsOnce, DeskTypeOK
<1>5. CASE ~(proc[p].task = "effect" /\ Busy(p))
  <2>1. handler' = handler /\ DeskTypeOK'
    BY <1>1, <1>5 DEF Returns, DeskInv, DeskTypeOK
  <2>2. ~Busy(p)
    BY <1>1, <1>5, IdleHoldsNothing DEF DeskInv, HandlersFit, HandlerFits, Serves
  <2>3. HandlerFits(p)'
    BY <2>1, <2>2 DEF HandlerFits, Busy
  <2>4. Remembers(p)' /\ DataOK(record.data)'
    BY <1>1, <1>3, MemoryStays, TruthStays DEF DeskInv, MemoryFits, Remembers
  <2>5. \A q \in Replicas : q # p => proc'[q] = proc[q]
    BY <1>1, ShapeFacts
  <2> QED BY <1>1, <1>3, <2>1, <2>3, <2>4, <2>5, DeskStep
        DEF DeskInv, RepliesAreTrue, KeyRunsOnce, DeskTypeOK
<1> QED BY <1>4, <1>5

(* What a process remembers it did, it can still answer. *)
LEMMA RansAreAnswered ==
  ASSUME DeskInv, NEW p \in Replicas
  PROVE  \A k \in ranBy[p] : \E a \in answers[p] : k \in Keys(a)
BY DEF DeskInv, MemoryFits, Remembers

(* A request is read, and answered or begun.                               *)
LEMMA SubmitKeeps ==
  ASSUME LedgerInv, LedgerInv', DeskInv, NEW p \in deployment.replicas,
         NEW r \in deployment.requests, Submit(p, r)
  PROVE  DeskInv'
<1>1. /\ LedgerShape /\ p \in Replicas /\ proc[p] = IdleProc /\ ~Busy(p) /\ proc \in [Replicas -> Procs]
      /\ r \in Asked /\ r.action \in {"DRAFT_REPLY", "SEND_REPLY"}
      /\ fired \subseteq Effects /\ deployment.letters \subseteq Effects
      /\ \A e \in Effects : applied[e] \in Nat
  BY ShapeFacts, RequestsAreAsked, ReplicasAreCounted DEF LedgerInv, Submit
<1>2. CASE UNCHANGED <<vars, record, handler, answers, ledger, letter, sentBy, ranBy, told, blind, resent, again>>
  <2>1. Grown /\ DeskTypeOK'
    BY <1>1, <1>2 DEF Grown, vars, DeskInv, DeskTypeOK
  <2>2. HandlerFits(p)' /\ Remembers(p)' /\ DataOK(record.data)'
    BY <1>1, <1>2, <2>1, HandlerStays, MemoryStays, RansAreAnswered, TruthStays DEF vars, DeskInv
  <2> QED BY <1>1, <1>2, <2>1, <2>2, DeskStep
        DEF vars, DeskInv, RepliesAreTrue, KeyRunsOnce, DeskTypeOK
<1>3. ASSUME NEW composed \in BOOLEAN, ~Answered(p, r), Composed(p, r, composed)
      PROVE  DeskInv'
  <2> DEFINE h == [Free EXCEPT !.request = r, !.read = record.data, !.composed = composed]
  <2>0. /\ handler' = [handler EXCEPT ![p] = h]
        /\ UNCHANGED <<vars, record, answers, ledger, letter, sentBy, ranBy, told, blind, resent, again>>
    BY <1>3 DEF Composed, past
  <2>1. /\ h \in Handlers /\ h.request = r /\ h.read = record.data /\ h.letter = NoEffect
        /\ h.answer = "NONE" /\ record.data \in Data
    BY <1>1, FreeServesNothing DEF Handlers, DeskInv, DeskTypeOK
  <2> HIDE DEF h
  <2>2. handler'[p] = h /\ DeskTypeOK' /\ \A q \in Replicas : q # p => handler'[q] = handler[q]
    BY <1>1, <2>0, <2>1 DEF DeskInv, DeskTypeOK
  <2>3. Grown
    BY <1>1, <2>0 DEF Grown, vars
  <2>4. DataOK(record.data)' /\ Remembers(p)'
    BY <1>1, <2>0, <2>3, MemoryStays, RansAreAnswered, TruthStays DEF vars, DeskInv
  <2>5. HandlerFits(p)'
    <3>1. Keys(r) \cap ranBy[p] = {}
      BY <1>1, <1>3, UnansweredIsNew
    <3>2. DataOK(handler[p].read)'
      BY <2>0, <2>1, <2>2, <2>4
    <3> QED BY <1>1, <2>0, <2>1, <2>2, <3>1, <3>2 DEF HandlerFits, Serves, vars
  <2> QED BY <1>1, <2>0, <2>2, <2>3, <2>4, <2>5, DeskStep
        DEF vars, DeskInv, RepliesAreTrue, KeyRunsOnce, DeskTypeOK
<1>4. CASE ~Answered(p, r) /\ DeliveryKey(r) \in ledger[p] /\ Deduped(p, r)
  <2>0. /\ answers' = [answers EXCEPT ![p] = Remembered(p, r)]
        /\ told' = told \cup {Reply(r)}
        /\ Carried(p, r)
        /\ UNCHANGED <<vars, record, handler, ledger, letter, sentBy, blind, resent>>
    BY <1>4 DEF Deduped
  <2>1. Keys(r) \cap ranBy[p] = {}
    BY <1>1, <1>4, <2>0, UnansweredIsNew
  <2>2. /\ Grown /\ DeskTypeOK' /\ again' = FALSE
        /\ answers'[p] = Remembered(p, r) /\ ranBy'[p] = ranBy[p] \cup Keys(r)
        /\ \A q \in Replicas : q # p => answers'[q] = answers[q] /\ ranBy'[q] = ranBy[q]
    BY <1>1, <1>4, <2>0, <2>1 DEF Grown, vars, Carried, DeskInv, DeskTypeOK, RepliesAreTrue, KeyRunsOnce
  <2>3. Remembers(p)' /\ DataOK(record.data)'
    <3>1. \A k \in ranBy'[p] : \E a \in answers'[p] : k \in Keys(a)
      BY <1>1, <2>2, RansAreAnswered DEF Remembered, Keys
    <3> QED BY <1>1, <1>4, <2>0, <2>2, <3>1, MemoryStays, TruthStays DEF DeskInv
  <2>4. Happened(Reply(r))
    <3>1. DeliveryKey(r).reply = Reply(r)
      BY DEF DeliveryKey
    <3> QED BY <1>1, <1>4, <2>0, <3>1 DEF DeskInv, MemoryFits, Remembers
  <2>5. HandlerFits(p)'
    BY <1>1, <1>4, <2>0 DEF HandlerFits, Busy
  <2>6. \A reply \in told' : reply \in told \/ Happened(reply)'
    BY <2>0, <2>2, <2>4, TruthStays
  <2> QED BY <1>1, <1>4, <2>0, <2>2, <2>3, <2>5, <2>6, DeskStep
        DEF vars, DeskInv, RepliesAreTrue
<1>5. ASSUME NEW preview \in BOOLEAN, NEW e \in deployment.letters, ~Answered(p, r),
             preview => DeliveryKey(r) \notin ledger[p], Sends(p, r, preview, e)
      PROVE  DeskInv'
  <2> DEFINE h == [Free EXCEPT !.request = r, !.read = record.data, !.composed = TRUE,
                        !.letter = e]
             x == [proc[p] EXCEPT !.task = "effect", !.now = e]
  <2>0. /\ Fire(p, e) /\ letter' = [letter EXCEPT ![e] = Reply(r)]
        /\ handler' = [handler EXCEPT ![p] = h]
        /\ blind' = IF preview THEN blind ELSE blind \cup {e}
        /\ UNCHANGED <<record, answers, ledger, sentBy, ranBy, told, resent, again>>
    BY <1>5 DEF Sends
  <2>1. /\ h \in Handlers /\ h.request = r /\ h.read = record.data /\ h.letter = e
        /\ h.answer = "NONE" /\ record.data \in Data
    BY <1>1, <1>5, FreeServesNothing DEF Handlers, DeskInv, DeskTypeOK
  <2>2. proc' = [proc EXCEPT ![p] = x]
    BY <2>0 DEF Fire
  <2>3. x.task = "effect" /\ x.now = e /\ x.answer = "NONE"
    <3>1. proc[p] \in Procs /\ proc[p].answer = "NONE"
      BY <1>1, IdleHoldsNothing
    <3> QED BY <3>1 DEF Procs
  <2> HIDE DEF h, x
  <2>4. /\ handler'[p] = h /\ proc'[p] = x /\ e \in Effects /\ e \in fired' /\ letter'[e] = Reply(r)
        /\ \A q \in Replicas : q # p => handler'[q] = handler[q] /\ proc'[q] = proc[q]
        /\ DeskTypeOK'
    BY <1>1, <1>5, <2>0, <2>1, <2>2 DEF DeskInv, DeskTypeOK, Fire
  <2>5. Grown
    BY <1>1, <1>5, <2>0 DEF Grown, Fire, DeskInv, DeskTypeOK
  <2>6. DataOK(record.data)' /\ Remembers(p)'
    BY <1>1, <1>5, <2>0, <2>5, MemoryStays, RansAreAnswered, TruthStays DEF DeskInv
  <2>7. HandlerFits(p)'
    <3>1. Keys(r) \cap ranBy[p] = {}
      BY <1>1, <1>5, <2>0, UnansweredIsNew
    <3>2. DataOK(handler[p].read)'
      BY <2>0, <2>1, <2>4, <2>6
    <3> QED BY <1>1, <1>5, <2>0, <2>1, <2>3, <2>4, <3>1, <3>2 DEF HandlerFits, Serves
  <2> QED BY <1>1, <1>5, <2>0, <2>4, <2>5, <2>6, <2>7, DeskStep
        DEF DeskInv, RepliesAreTrue, KeyRunsOnce, DeskTypeOK
<1>6. \A composed \in Composes(r) : composed \in BOOLEAN
  BY DEF Composes
<1> QED BY <1>2, <1>3, <1>4, <1>5, <1>6 DEF Submit, Seen, past

(* What a served reply leaves in the ledger of deliveries.                 *)
LEMMA DeliverKeeps ==
  ASSUME LedgerInv, LedgerInv', DeskInv, Grown, NEW p \in Replicas, Busy(p), Deliver(p),
         \A k \in ranBy'[p] : \E a \in answers'[p] : k \in Keys(a)
  PROVE  /\ DOMAIN ledger' = Replicas /\ DOMAIN sentBy' = Replicas
         /\ \A q \in Replicas : q # p => ledger'[q] = ledger[q] /\ sentBy'[q] = sentBy[q]
         /\ Remembers(p)'
         /\ \A e \in resent' : e \in resent \/ e \in blind'
<1> DEFINE h == handler[p]
<1>1. /\ Serves(p, h) /\ Remembers(p) /\ DOMAIN ledger = Replicas /\ DOMAIN sentBy = Replicas
  BY DEF DeskInv, HandlersFit, HandlerFits, MemoryFits, DeskTypeOK
<1>2. /\ \A e \in sentBy[p] : e \in fired /\ e \in fired' /\ letter'[e] = letter[e]
      /\ \A k \in ledger[p] : Happened(k.reply)'
  BY <1>1, TruthStays DEF Remembers, Grown
<1>3. CASE ~Sent(p)
  <2>1. ledger' = ledger /\ sentBy' = sentBy /\ resent' = resent
    BY <1>3 DEF Deliver
  <2> QED BY <1>1, <1>2, <2>1 DEF Remembers
<1>4. CASE Sent(p)
  <2> DEFINE k == DeliveryKey(h.request)
             l == h.letter
  <2>1. /\ ledger' = [ledger EXCEPT ![p] = @ \cup {k}] /\ sentBy' = [sentBy EXCEPT ![p] = @ \cup {l}]
        /\ resent' = IF Alike(p, l) THEN resent \cup {l} ELSE resent
    BY <1>4 DEF Deliver
  <2>2. /\ l \in fired /\ l \in Effects /\ letter[l] = Reply(h.request)
        /\ l \notin blind => k \notin ledger[p]
        /\ applied[l] > 0 /\ letter'[l] = letter[l] /\ l \in fired'
    <3>1. fired \subseteq Effects
      BY ShapeFacts DEF LedgerInv
    <3> QED BY <1>1, <1>4, <3>1 DEF Sent, Delivered, Serves, Grown
  <2>3. k = [by |-> "anyone", reply |-> letter[l]] /\ k.reply = letter[l] /\ Happened(k.reply)
    BY <2>2 DEF DeliveryKey, Happened
  <2> HIDE DEF k, l
  <2>4. /\ ledger'[p] = ledger[p] \cup {k} /\ sentBy'[p] = sentBy[p] \cup {l}
        /\ DOMAIN ledger' = Replicas /\ DOMAIN sentBy' = Replicas
        /\ \A q \in Replicas : q # p => ledger'[q] = ledger[q] /\ sentBy'[q] = sentBy[q]
    BY <1>1, <2>1
  <2>5. Remembers(p)'
    <3>1. \A j \in ledger'[p] : Happened(j.reply)'
      BY <1>2, <2>3, <2>4, TruthStays
    <3>2. \A e \in sentBy'[p] : e \in fired' /\ [by |-> "anyone", reply |-> letter'[e]] \in ledger'[p]
      BY <1>1, <1>2, <2>2, <2>3, <2>4 DEF Remembers
    <3> QED BY <3>1, <3>2 DEF Remembers
  <2>6. Alike(p, l) => l \in blind
    BY <1>1, <2>2, <2>3 DEF Remembers, Alike
  <2> QED BY <1>1, <1>2, <2>1, <2>2, <2>4, <2>5, <2>6 DEF Grown
<1> QED BY <1>3, <1>4

(* The request is served: what is written was read, with the entry in it.  *)
LEMMA PersistKeeps ==
  ASSUME LedgerInv, LedgerInv', DeskInv, NEW p \in deployment.replicas, Persist(p)
  PROVE  DeskInv'
<1> DEFINE h == handler[p]
           data == Written(p)
<1>1. /\ LedgerShape /\ p \in Replicas /\ Busy(p) /\ Deliver(p) /\ Carried(p, h.request)
      /\ record' = [record EXCEPT !.data = data]
      /\ answers' = [answers EXCEPT ![p] = Remembered(p, h.request)]
      /\ handler' = [handler EXCEPT ![p] = Free]
      /\ UNCHANGED <<vars, letter, submits, told, blind>>
      /\ Serves(p, h) /\ h \in Handlers
  BY ShapeFacts DEF LedgerInv, Persist, Ready, DeskInv, DeskTypeOK, HandlersFit, HandlerFits
<1>2. Grown
  BY <1>1 DEF Grown, vars, LedgerShape, TypeOK
<1>3. data \in Data /\ DataOK(data)
  <2>1. h.request \in Asked /\ h.read \in Data /\ DataOK(h.read)
    BY <1>1 DEF Serves
  <2>2. CASE h.request.action = "DRAFT_REPLY"
    <3> DEFINE c == Revised(h.read.revisions, h)
    <3>1. data = [h.read EXCEPT !.revisions = c]
      BY <2>2 DEF Written
    <3>2. c \in Seq(Revisions) /\ ChainOK(c)
      <4>1. h.read.revisions \in Seq(Revisions) /\ ChainOK(h.read.revisions)
        BY <2>1 DEF Data, DataOK
      <4> QED BY <2>1, <4>1, EditsChain
    <3> HIDE DEF c, data
    <3>3. data \in Data /\ data.revisions = c /\ data.sent = h.read.sent
      BY <2>1, <3>1, <3>2 DEF Data
    <3> QED BY <2>1, <3>2, <3>3 DEF DataOK
  <2>3. CASE h.request.action # "DRAFT_REPLY"
    <3> DEFINE s == [status |-> Status(p), effect |-> h.letter]
    <3>1. data = [h.read EXCEPT !.sent = s]
      BY <2>3 DEF Written
    <3>2. /\ s \in [status : {"none", "SENT", "FAILED"}, effect : Effects \cup {NoEffect}]
          /\ s.status = "SENT" => s.effect \in Effects /\ applied[s.effect] > 0
      <4>1. h.letter \in Effects \cup {NoEffect}
        BY <1>1 DEF Handlers
      <4> QED BY <1>1, <4>1 DEF Status, Delivered, Serves
    <3> HIDE DEF s, data
    <3>3. data \in Data /\ data.revisions = h.read.revisions /\ data.sent = s
      BY <2>1, <3>1, <3>2 DEF Data
    <3> QED BY <2>1, <3>2, <3>3 DEF DataOK
  <2> QED BY <2>2, <2>3
<1> HIDE DEF data
<1>4. record'.data = data /\ DataOK(record.data)'
  <2>1. record'.data = data
    BY <1>1 DEF DeskInv, DeskTypeOK
  <2> QED BY <1>2, <1>3, <2>1, TruthStays
<1>5. /\ Keys(h.request) \cap ranBy[p] = {} /\ again' = FALSE
      /\ answers'[p] = Remembered(p, h.request) /\ ranBy'[p] = ranBy[p] \cup Keys(h.request)
      /\ \A q \in Replicas : q # p => answers'[q] = answers[q] /\ ranBy'[q] = ranBy[q]
      /\ DOMAIN answers' = Replicas /\ DOMAIN ranBy' = Replicas
  BY <1>1 DEF Serves, Carried, DeskInv, DeskTypeOK, RepliesAreTrue, KeyRunsOnce
<1>6. \A k \in ranBy'[p] : \E a \in answers'[p] : k \in Keys(a)
  BY <1>1, <1>5, RansAreAnswered DEF Remembered, Keys
<1>7. /\ DOMAIN ledger' = Replicas /\ DOMAIN sentBy' = Replicas
      /\ \A q \in Replicas : q # p => ledger'[q] = ledger[q] /\ sentBy'[q] = sentBy[q]
      /\ Remembers(p)'
      /\ \A e \in resent' : e \in resent \/ e \in blind'
  BY <1>1, <1>2, <1>6, DeliverKeeps
<1>8. /\ DeskTypeOK' /\ handler'[p] = Free /\ \A q \in Replicas : q # p => handler'[q] = handler[q]
  BY <1>1, <1>3, <1>5, <1>7, FreeServesNothing DEF DeskInv, DeskTypeOK
<1>9. HandlerFits(p)'
  BY <1>8 DEF HandlerFits, Busy
<1> QED BY <1>1, <1>2, <1>4, <1>5, <1>7, <1>8, <1>9, DeskStep DEF vars

(* The update is refused: the deliveries are remembered, nothing else is.  *)
LEMMA PersistFailsKeeps ==
  ASSUME LedgerInv, LedgerInv', DeskInv, NEW p \in deployment.replicas, PersistFails(p)
  PROVE  DeskInv'
<1>1. /\ LedgerShape /\ p \in Replicas /\ Busy(p) /\ Deliver(p)
      /\ handler' = [handler EXCEPT ![p] = Free]
      /\ UNCHANGED <<deployment, proc, fired, entry, late, applied>>
      /\ UNCHANGED <<record, answers, letter, submits, ranBy, told, blind, again>>
  BY ShapeFacts DEF LedgerInv, PersistFails, Ready
<1>2. Grown
  BY <1>1 DEF Grown, LedgerShape, TypeOK
<1>3. DataOK(record.data)'
  BY <1>1, <1>2, TruthStays DEF DeskInv
<1>4. /\ DOMAIN ledger' = Replicas /\ DOMAIN sentBy' = Replicas
      /\ \A q \in Replicas : q # p => ledger'[q] = ledger[q] /\ sentBy'[q] = sentBy[q]
      /\ Remembers(p)'
      /\ \A e \in resent' : e \in resent \/ e \in blind'
  BY <1>1, <1>2, DeliverKeeps, RansAreAnswered
<1>5. /\ DeskTypeOK' /\ handler'[p] = Free /\ \A q \in Replicas : q # p => handler'[q] = handler[q]
  BY <1>1, <1>4, FreeServesNothing DEF DeskInv, DeskTypeOK
<1>6. HandlerFits(p)'
  BY <1>5 DEF HandlerFits, Busy
<1> QED BY <1>1, <1>2, <1>3, <1>4, <1>5, <1>6, DeskStep
      DEF DeskInv, RepliesAreTrue, KeyRunsOnce, DeskTypeOK

(* The run raises: the process serves nothing and remembers what it did.   *)
LEMMA RunRaisesKeeps ==
  ASSUME LedgerInv, LedgerInv', DeskInv, NEW p \in deployment.replicas, RunRaises(p)
  PROVE  DeskInv'
<1>1. /\ LedgerShape /\ p \in Replicas
      /\ handler' = [handler EXCEPT ![p] = Free]
      /\ UNCHANGED <<deployment, proc, fired, entry, late, applied>>
      /\ UNCHANGED <<record, answers, ledger, letter, submits, sentBy, ranBy, told, blind, resent, again>>
  BY ShapeFacts DEF LedgerInv, RunRaises, past
<1>2. Grown
  BY <1>1 DEF Grown, LedgerShape, TypeOK
<1>3. /\ DeskTypeOK' /\ handler'[p] = Free /\ \A q \in Replicas : q # p => handler'[q] = handler[q]
  BY <1>1, FreeServesNothing DEF DeskInv, DeskTypeOK
<1>4. HandlerFits(p)' /\ Remembers(p)' /\ DataOK(record.data)'
  <2>1. HandlerFits(p)'
    BY <1>3 DEF HandlerFits, Busy
  <2> QED BY <1>1, <1>2, <2>1, MemoryStays, RansAreAnswered, TruthStays DEF DeskInv
<1> QED BY <1>1, <1>2, <1>3, <1>4, DeskStep
      DEF DeskInv, RepliesAreTrue, KeyRunsOnce, DeskTypeOK

(* An answer is dropped, and what it answered may run again.               *)
LEMMA ForgetKeeps ==
  ASSUME LedgerInv, LedgerInv', DeskInv, NEW p \in deployment.replicas, NEW a \in answers[p],
         Forget(p, a)
  PROVE  DeskInv'
<1>1. /\ LedgerShape /\ p \in Replicas
      /\ answers' = [answers EXCEPT ![p] = @ \ {a}] /\ ranBy' = [ranBy EXCEPT ![p] = @ \ Keys(a)]
      /\ UNCHANGED <<deployment, proc, fired, entry, late, applied>>
      /\ UNCHANGED <<record, handler, ledger, letter, submits, sentBy, told, blind, resent, again>>
  BY ShapeFacts DEF LedgerInv, Forget, past
<1>2. Grown
  BY <1>1 DEF Grown, LedgerShape, TypeOK
<1>3. /\ DeskTypeOK' /\ answers'[p] = answers[p] \ {a} /\ ranBy'[p] = ranBy[p] \ Keys(a)
      /\ \A q \in Replicas : q # p => answers'[q] = answers[q] /\ ranBy'[q] = ranBy[q]
  BY <1>1 DEF DeskInv, DeskTypeOK
<1>4. HandlerFits(p)' /\ DataOK(record.data)'
  BY <1>1, <1>2, <1>3, HandlerStays, TruthStays DEF DeskInv
<1>5. Remembers(p)'
  <2>1. \A k \in ranBy'[p] : \E b \in answers'[p] : k \in Keys(b)
    BY <1>1, <1>3, RansAreAnswered
  <2> QED BY <1>1, <1>2, <2>1, MemoryStays
<1> QED BY <1>1, <1>2, <1>3, <1>4, <1>5, DeskStep
      DEF DeskInv, RepliesAreTrue, KeyRunsOnce, DeskTypeOK

(* The outbox works between requests, and records what a request called.   *)
LEMMA OutboxStepKeeps ==
  ASSUME LedgerInv, LedgerInv', DeskInv, NEW p \in deployment.replicas, OutboxStep(p)
  PROVE  DeskInv'
<1>1. /\ LedgerShape /\ p \in Replicas /\ proc \in [Replicas -> Procs] /\ UNCHANGED desk
  BY ShapeFacts DEF LedgerInv, OutboxStep
<1>2. /\ deployment' = deployment /\ applied' = applied /\ fired \subseteq fired'
      /\ \A q \in Replicas : q # p => proc'[q] = proc[q]
      /\ proc'[p] = IdleProc \/ ~Busy(p)
  <2>1. CASE ~Busy(p) /\ \E e \in Effects : ApplyEffect(p, e)
    BY <1>1, <2>1 DEF ApplyEffect, Fire
  <2>2. CASE ~Busy(p) /\ (SchedulerPass(p) \/ AdminPass(p))
    BY <1>1, <2>2 DEF SchedulerPass, AdminPass, BeginPass
  <2>3. CASE \E e \in Effects : Retry(p, e)
    <3>1. ~Busy(p)
      BY <1>1, <2>3, IdleHoldsNothing DEF Retry, DeskInv, HandlersFit, HandlerFits, Serves
    <3> QED BY <1>1, <2>3, <3>1 DEF Retry
  <2>4. CASE RecordEffect(p) \/ RecordFails(p)
    BY <1>1, <2>4 DEF RecordEffect, RecordFails
  <2>5. CASE Settle(p)
    <3>1. ~Busy(p)
      BY <1>1, <2>5, IdleHoldsNothing DEF Settle, DeskInv, HandlersFit, HandlerFits, Serves
    <3> QED BY <1>1, <2>5, <3>1 DEF Settle
  <2> QED BY <2>1, <2>2, <2>3, <2>4, <2>5 DEF OutboxStep
<1>3. Grown /\ DeskTypeOK'
  BY <1>1, <1>2 DEF Grown, desk, past, DeskInv, DeskTypeOK, LedgerShape, TypeOK
<1>4. HandlerFits(p)' /\ Remembers(p)' /\ DataOK(record.data)'
  BY <1>1, <1>2, <1>3, HandlerStays, MemoryStays, RansAreAnswered, TruthStays DEF desk, past, DeskInv
<1> QED BY <1>1, <1>2, <1>3, <1>4, DeskStep
      DEF desk, past, DeskInv, RepliesAreTrue, KeyRunsOnce, DeskTypeOK

(* Another handler takes the record out of review. *)
LEMMA CloseKeeps ==
  ASSUME LedgerInv, LedgerInv', DeskInv, NEW p \in deployment.replicas, Close(p)
  PROVE  DeskInv'
<1>1. /\ LedgerShape /\ p \in Replicas /\ record' = [record EXCEPT !.open = FALSE]
      /\ UNCHANGED <<vars, handler, answers, ledger, letter, submits, sentBy, ranBy, told, blind, resent, again>>
  BY ShapeFacts DEF LedgerInv, Close, past
<1>2. Grown /\ DeskTypeOK' /\ record'.data = record.data
  <2>1. Grown
    BY <1>1 DEF Grown, vars, LedgerShape, TypeOK
  <2>2. DeskTypeOK' /\ record'.data = record.data
    BY <1>1 DEF DeskInv, DeskTypeOK
  <2> QED BY <2>1, <2>2
<1>3. HandlerFits(p)' /\ Remembers(p)' /\ DataOK(record.data)'
  BY <1>1, <1>2, HandlerStays, MemoryStays, RansAreAnswered, TruthStays DEF vars, DeskInv
<1> QED BY <1>1, <1>2, <1>3, DeskStep
      DEF vars, DeskInv, RepliesAreTrue, KeyRunsOnce, DeskTypeOK

(* A process starts afresh: it serves and remembers nothing.               *)
LEMMA RestartKeeps ==
  ASSUME LedgerInv, LedgerInv', DeskInv, NEW p \in deployment.replicas, Restart(p)
  PROVE  DeskInv'
<1>1. /\ LedgerShape /\ p \in Replicas /\ proc \in [Replicas -> Procs]
      /\ proc' = [proc EXCEPT ![p] = IdleProc] /\ UNCHANGED <<deployment, fired>>
      /\ handler' = [handler EXCEPT ![p] = Free]
      /\ answers' = [answers EXCEPT ![p] = {}] /\ ledger' = [ledger EXCEPT ![p] = {}]
      /\ sentBy' = [sentBy EXCEPT ![p] = {}] /\ ranBy' = [ranBy EXCEPT ![p] = {}]
      /\ UNCHANGED <<letter, submits, told, blind, resent, again>>
  BY ShapeFacts DEF LedgerInv, Restart, Crash, past
<1>2. \A e \in Effects : applied'[e] >= applied[e]
  <2>1. applied \in [Effects -> Nat]
    BY <1>1, ShapeFacts
  <2>2. CASE applied' = applied
    BY <2>1, <2>2
  <2>3. CASE applied' = [applied EXCEPT ![proc[p].now] = @ + 1]
    BY <2>1, <2>3
  <2> QED BY <2>2, <2>3 DEF Restart, Crash
<1>3. record' = record \/ record' = [record EXCEPT !.open = FALSE]
  BY DEF Restart
<1>4. Grown
  BY <1>1, <1>2 DEF Grown
<1>5. DeskTypeOK' /\ record'.data = record.data
  BY <1>1, <1>3, FreeServesNothing DEF DeskInv, DeskTypeOK
<1>6. /\ handler'[p] = Free /\ answers'[p] = {} /\ ledger'[p] = {} /\ sentBy'[p] = {} /\ ranBy'[p] = {}
      /\ \A q \in Replicas :
           q # p => /\ handler'[q] = handler[q] /\ ledger'[q] = ledger[q] /\ sentBy'[q] = sentBy[q]
                    /\ ranBy'[q] = ranBy[q] /\ answers'[q] = answers[q] /\ proc'[q] = proc[q]
  BY <1>1 DEF DeskInv, DeskTypeOK
<1>7. HandlerFits(p)' /\ Remembers(p)'
  BY <1>6 DEF HandlerFits, Busy, Remembers
<1>8. DataOK(record.data)'
  BY <1>4, <1>5, TruthStays DEF DeskInv
<1>9. again' = FALSE
  BY <1>1 DEF DeskInv, DeskTypeOK, RepliesAreTrue, KeyRunsOnce
<1>10. told' = told /\ resent' = resent
  BY <1>1, <1>6
<1> QED BY <1>1, <1>4, <1>5, <1>6, <1>7, <1>8, <1>9, <1>10, DeskStep

(* An abandoned call is carried out, or not. *)
LEMMA LateCallKeeps ==
  ASSUME LedgerInv, LedgerInv', DeskInv, NEW e \in Effects, AbandonedCallEnds(e), UNCHANGED desk
  PROVE  DeskInv'
<1>1. /\ LedgerShape /\ UNCHANGED <<deployment, proc, fired>>
  BY DEF LedgerInv, AbandonedCallEnds
<1>2. PICK p \in Replicas : TRUE
  BY <1>1, ReplicasAreCounted, ShapeFacts, FS_EmptySet
<1>3. \A d \in Effects : applied'[d] >= applied[d]
  <2>1. applied \in [Effects -> Nat]
    BY <1>1, ShapeFacts
  <2>2. PICK n \in 0 .. 1 : applied' = [applied EXCEPT ![e] = @ + n]
    BY DEF AbandonedCallEnds
  <2> SUFFICES ASSUME NEW d \in Effects PROVE applied'[d] >= applied[d]
    OBVIOUS
  <2>3. applied'[d] = applied[d] \/ applied'[d] = applied[d] + n
    BY <2>1, <2>2
  <2> QED BY <2>1, <2>3
<1>4. Grown /\ DeskTypeOK'
  BY <1>1, <1>3 DEF Grown, desk, past, DeskInv, DeskTypeOK
<1>5. HandlerFits(p)' /\ Remembers(p)' /\ DataOK(record.data)'
  BY <1>1, <1>2, <1>4, HandlerStays, MemoryStays, RansAreAnswered, TruthStays DEF desk, past, DeskInv
<1> QED BY <1>1, <1>2, <1>4, <1>5, DeskStep
      DEF desk, past, DeskInv, RepliesAreTrue, KeyRunsOnce, DeskTypeOK

(* Initially nothing is asked, sent or remembered. *)
LEMMA DeskInit == ASSUME ReplyInit PROVE DeskInv
<1>1. record = [open |-> TRUE, data |-> [revisions |-> <<>>, sent |-> NoEntry]]
  BY DEF ReplyInit
<1>2. record \in [open : BOOLEAN, data : Data] /\ DataOK(record.data) /\ record.data.sent.status = "none"
  <2>1. <<>> \in Seq(Revisions) /\ ChainOK(<<>>)
    BY DEF ChainOK
  <2>2. record.data = [revisions |-> <<>>, sent |-> NoEntry] /\ record.open = TRUE
    BY <1>1
  <2>3. NoEntry.status = "none"
    BY DEF NoEntry
  <2>4. record.data \in Data
    BY <2>1, <2>2 DEF Data, NoEntry
  <2> QED BY <1>1, <2>1, <2>2, <2>3, <2>4 DEF DataOK
<1>3. /\ handler = [p \in Replicas |-> Free]
      /\ answers = [p \in Replicas |-> {}] /\ ledger = [p \in Replicas |-> {}]
      /\ letter = [e \in Effects |-> Reply(NoRequest)] /\ told = {} /\ resent = {} /\ again = FALSE
      /\ sentBy = [p \in Replicas |-> {}] /\ ranBy = [p \in Replicas |-> {}]
  BY DEF ReplyInit
<1>4. DeskTypeOK
  BY <1>2, <1>3, FreeServesNothing DEF DeskTypeOK
<1>5. HandlersFit /\ MemoryFits
  BY <1>3 DEF HandlersFit, HandlerFits, Busy, MemoryFits, Remembers
<1>6. RepliesAreTrue
  BY <1>2, <1>3 DEF RepliesAreTrue, SentWasDelivered, SentOncePerLife, KeyRunsOnce
<1> QED BY <1>2, <1>4, <1>5, <1>6 DEF DeskInv

(* Every step keeps both halves of the invariant. *)
LEMMA RepliesNext == ASSUME RepliesInv, [ReplyNext]_allVars PROVE RepliesInv'
<1>1. LedgerInv /\ LedgerInv' /\ DeskInv
  BY LedgerNext DEF RepliesInv
<1>2. CASE UNCHANGED allVars
  BY <1>1, <1>2 DEF RepliesInv, allVars, vars, desk, past, DeskInv, DeskTypeOK, HandlersFit, HandlerFits,
                    Busy, Serves, MemoryFits, Remembers, Happened, DataOK, RepliesAreTrue,
                    SentWasDelivered, SentOncePerLife, KeyRunsOnce
<1>3. CASE ReplyNext
  <2>1. ASSUME NEW e \in Effects, AbandonedCallEnds(e), UNCHANGED desk PROVE DeskInv'
    BY <1>1, <2>1, LateCallKeeps
  <2>2. ASSUME NEW p \in deployment.replicas,
               \/ \E r \in deployment.requests : Submit(p, r)
               \/ \E answer \in Answers : Returns(p, answer)
               \/ \E a \in answers[p] : Forget(p, a)
        PROVE  DeskInv'
    BY <1>1, <2>2, SubmitKeeps, ReturnsKeeps, ForgetKeeps
  <2>3. ASSUME NEW p \in deployment.replicas,
               OutboxStep(p) \/ Persist(p) \/ PersistFails(p) \/ RunRaises(p) \/ Close(p) \/ Restart(p)
        PROVE  DeskInv'
    BY <1>1, <2>3, OutboxStepKeeps, PersistKeeps, PersistFailsKeeps, RunRaisesKeeps,
       CloseKeeps, RestartKeeps
  <2> QED BY <1>1, <1>3, <2>1, <2>2, <2>3 DEF ReplyNext, RepliesInv
<1> QED BY <1>2, <1>3

(* A reply the record or an answer calls sent was delivered; a life of a   *)
(* process calls it SENT again only where the later send's preview was     *)
(* halted; and a key's request was carried out once (api/routes/exceptions *)
(* .py _disposition_send_reply, _delivery_record, _idempotency_store).     *)
THEOREM RepliesAreAlwaysTrue == ReplySpec => []RepliesAreTrue
<1>1. ReplyInit => RepliesInv
  BY LedgerInit, DeskInit DEF RepliesInv
<1>2. RepliesInv /\ [ReplyNext]_allVars => RepliesInv'
  BY RepliesNext
<1>3. RepliesInv => RepliesAreTrue
  BY DEF RepliesInv, DeskInv
<1> QED BY <1>1, <1>2, <1>3, PTL DEF ReplySpec

(* The history of a draft is a chain of changes, whatever replicas that    *)
(* overwrite each other's drafts make of it (_append_reply_revision).      *)
THEOREM DraftsStayChains == ReplySpec => []RevisionsChain
<1>1. ReplyInit => RepliesInv
  BY LedgerInit, DeskInit DEF RepliesInv
<1>2. RepliesInv /\ [ReplyNext]_allVars => RepliesInv'
  BY RepliesNext
<1>3. RepliesInv => RevisionsChain
  BY DEF RepliesInv, DeskInv, DataOK, ChainOK, RevisionsChain
<1> QED BY <1>1, <1>2, <1>3, PTL DEF ReplySpec
==============================
