----------------------------- MODULE EffectOutbox -----------------------------
(***************************************************************************)
(* The effect outbox: apply_effects fires a recipe's gateway effect and    *)
(* records its outcome (orchestration/nodes.py); reconcile_pending, run by *)
(* the scheduler or by an admin, retries what failed and escalates what    *)
(* keeps failing (orchestration/outbox.py, orchestration/outbox_scheduler  *)
(* .py); both call the gateway through GatewayExecutor.run                 *)
(* (gateways/executor.py), whose timeout abandons the call to its worker.  *)
(*                                                                         *)
(* A process runs one activity at a time: handlers, graph and scheduler    *)
(* share an event loop and none awaits in the middle.  Processes (the API  *)
(* replicas) interleave, and share the ledger when it is in the database.  *)
(***************************************************************************)
EXTENDS Integers, FiniteSets

CONSTANTS
  Replicas,      \* API processes
  Effects,       \* the effects fired in a behaviour, one ledger entry each
  NoEffect,
  MaxAttempts,   \* reconcile_pending's max_attempts
  Deployments    \* the deployments to explore, each with its bounds: replicas, effects, faults

ASSUME OutboxAssumption ==
  /\ NoEffect \notin Effects
  /\ MaxAttempts \in Nat \ {0}
  /\ IsFiniteSet(Replicas)
  /\ \A d \in Deployments :
       /\ d.durable \in BOOLEAN /\ d.faults \in Nat
       /\ d.replicas \subseteq Replicas /\ d.replicas # {} /\ d.effects \subseteq Effects

VARIABLES
  deployment,  \* durable: DATABASE_URL is set, the ledger is one table
  proc,     \* what each process is doing
  fired,    \* effects whose apply_effects has started
  entry,    \* the ledger
  late,     \* history: calls a timeout gave up on and whose worker still runs
  applied,  \* history: times the gateway performed the effect
  faults    \* faults so far

vars == <<deployment, proc, fired, entry, late, applied, faults>>

Answers == {"SUCCESS", "FAILED", "TIMEOUT"}   \* FAILED stands for UNAVAILABLE too
Procs ==
  [task : {"idle", "effect", "reconcile"},
   todo : SUBSET Effects,                      \* the snapshot still to retry
   now : Effects \cup {NoEffect},              \* the effect being called
   attempts : Nat,                             \* what increment_attempts returned
   answer : Answers \cup {"NONE"}]
IdleProc == [task |-> "idle", todo |-> {}, now |-> NoEffect, attempts |-> 0, answer |-> "NONE"]

Entries ==
  [home : Replicas, recorded : BOOLEAN, needs_compensation : BOOLEAN,
   attempts : Nat, compensated : BOOLEAN, escalated : BOOLEAN]

(* What pending() filters on; mutant: an entry gets one retry only. *)
UntriedOnly(x)       == x.needs_compensation /\ x.attempts = 0
Unsettled(x)         == x.needs_compensation /\ ~x.compensated /\ ~x.escalated

(* pending(tenant_id): the entries to compensate, of the process's own     *)
(* list or of the tenant's rows; the database has none for "no tenant".    *)
Pending(p, tenantGiven) ==
  {e \in Effects :
     /\ entry[e].recorded /\ Unsettled(entry[e])
     /\ IF deployment.durable THEN tenantGiven ELSE entry[e].home = p}

-----------------------------------------------------------------------------
(* apply_effects reaches an effect whose predicate holds and calls run().  *)
Fire(p, e) ==
  /\ proc[p] = IdleProc
  /\ e \notin fired
  /\ proc' = [proc EXCEPT ![p] = [@ EXCEPT !.task = "effect", !.now = e]]
  /\ fired' = fired \cup {e}
  /\ UNCHANGED <<deployment, entry, late, applied, faults>>

ApplyEffect(p, e) == e \in deployment.effects /\ Fire(p, e)

(* run() returns.  SUCCESS: the gateway performed the effect.  FAILED: it  *)
(* did not, or did and then raised.  TIMEOUT: the future is not cancelled  *)
(* and its worker goes on.                                                 *)
RunReturns(p, answer) ==
  LET e == proc[p].now
  IN  /\ e # NoEffect
      /\ proc[p].answer = "NONE"
      /\ proc' = [proc EXCEPT ![p].answer = answer]
      /\ CASE answer = "SUCCESS" -> /\ applied' = [applied EXCEPT ![e] = @ + 1]
                                    /\ UNCHANGED late
           [] answer = "FAILED"  -> /\ \E n \in 0..1 : applied' = [applied EXCEPT ![e] = @ + n]
                                    /\ UNCHANGED late
           [] answer = "TIMEOUT" -> /\ late' = [late EXCEPT ![e] = @ + 1]
                                    /\ UNCHANGED applied
      /\ UNCHANGED <<deployment, fired, entry, faults>>

(* An abandoned worker finishes, with or without effect. *)
AbandonedCallEnds(e) ==
  /\ late[e] > 0
  /\ late' = [late EXCEPT ![e] = @ - 1]
  /\ \E n \in 0..1 : applied' = [applied EXCEPT ![e] = @ + n]
  /\ UNCHANGED <<deployment, proc, fired, entry, faults>>

(* record_effect's flag. *)
NeedsCompensation(answer) == answer # "SUCCESS"

RecordEffect(p) ==
  LET e == proc[p].now
  IN  /\ proc[p].task = "effect" /\ proc[p].answer # "NONE"
      /\ entry' = [entry EXCEPT
                     ![e] = [home |-> p, recorded |-> TRUE,
                             needs_compensation |-> NeedsCompensation(proc[p].answer),
                             attempts |-> 0, compensated |-> FALSE, escalated |-> FALSE]]
      /\ proc' = [proc EXCEPT ![p] = IdleProc]
      /\ UNCHANGED <<deployment, fired, late, applied, faults>>

(* The insert raises: "outbox_record_failed" is logged, the run goes on. *)
RecordFails(p) ==
  /\ deployment.durable
  /\ proc[p].task = "effect" /\ proc[p].answer # "NONE"
  /\ faults < deployment.faults
  /\ faults' = faults + 1
  /\ proc' = [proc EXCEPT ![p] = IdleProc]
  /\ UNCHANGED <<deployment, fired, entry, late, applied>>

-----------------------------------------------------------------------------
(* reconcile_pending takes its snapshot. *)
BeginPass(p, tenantGiven) ==
  /\ proc[p] = IdleProc
  /\ Pending(p, tenantGiven) # {}
  /\ proc' = [proc EXCEPT ![p] = [@ EXCEPT !.task = "reconcile",
                                           !.todo = Pending(p, tenantGiven)]]
  /\ UNCHANGED <<deployment, fired, entry, late, applied, faults>>

SchedulerPass(p) == BeginPass(p, FALSE)     \* start_if_configured() names no tenant
AdminPass(p)     == BeginPass(p, TRUE)      \* POST /outbox/reconcile, the caller's tenant

(* increment_attempts; mutant: the attempt is not counted. *)
Uncounted(e)   == entry
Counted(e)     == [entry EXCEPT ![e].attempts = @ + 1]

(* increment_attempts, then run(); the snapshot is not looked at again. *)
Retry(p, e) ==
  /\ proc[p].task = "reconcile" /\ proc[p].now = NoEffect
  /\ e \in proc[p].todo
  /\ entry' = Counted(e)
  /\ proc' = [proc EXCEPT ![p] = [@ EXCEPT !.now = e, !.todo = proc[p].todo \ {e},
                                           !.attempts = entry[e].attempts + 1]]
  /\ UNCHANGED <<deployment, fired, late, applied, faults>>

(* The verdict on the retried entry; the pass ends with its snapshot. *)
Settle(p) ==
  LET e == proc[p].now
  IN  /\ proc[p].task = "reconcile" /\ proc[p].answer # "NONE"
      /\ entry' = CASE proc[p].answer = "SUCCESS" -> [entry EXCEPT ![e].compensated = TRUE]
                    [] proc[p].answer # "SUCCESS" /\ proc[p].attempts >= MaxAttempts
                                                  -> [entry EXCEPT ![e].escalated = TRUE]
                    [] OTHER                      -> entry
      /\ proc' = [proc EXCEPT ![p] =
                    IF proc[p].todo = {} THEN IdleProc
                    ELSE [@ EXCEPT !.now = NoEffect, !.attempts = 0, !.answer = "NONE"]]
      /\ UNCHANGED <<deployment, fired, late, applied, faults>>

Calling(p) == proc[p].now # NoEffect /\ proc[p].answer = "NONE"

(* A process dies in whatever it was doing and starts afresh; the in-memory *)
(* ledger dies with it.  A call on its way may still be carried out.        *)
Crash(p) ==
  /\ faults < deployment.faults
  /\ faults' = faults + 1
  /\ proc' = [proc EXCEPT ![p] = IdleProc]
  /\ entry' = [e \in Effects |->
                 IF ~deployment.durable /\ entry[e].home = p THEN [entry[e] EXCEPT !.recorded = FALSE]
                 ELSE entry[e]]
  /\ \/ UNCHANGED applied
     \/ Calling(p) /\ applied' = [applied EXCEPT ![proc[p].now] = @ + 1]
  /\ UNCHANGED <<deployment, fired, late>>

Init ==
  /\ deployment \in Deployments
  /\ proc = [p \in Replicas |-> IdleProc]
  /\ fired = {}
  /\ \E p \in deployment.replicas :
       entry = [e \in Effects |-> [home |-> p, recorded |-> FALSE, needs_compensation |-> FALSE,
                                   attempts |-> 0, compensated |-> FALSE, escalated |-> FALSE]]
  /\ late = [e \in Effects |-> 0]
  /\ applied = [e \in Effects |-> 0]
  /\ faults = 0

Next ==
  \/ \E p \in deployment.replicas :
       \/ \E e \in Effects : ApplyEffect(p, e) \/ Retry(p, e)
       \/ \E answer \in Answers : RunReturns(p, answer)
       \/ RecordEffect(p) \/ RecordFails(p)
       \/ SchedulerPass(p) \/ AdminPass(p) \/ Settle(p)
       \/ Crash(p)
  \/ \E e \in Effects : AbandonedCallEnds(e)

Spec == Init /\ [][Next]_vars

(* run() returns by its timeout, a process goes on with what it started,   *)
(* the scheduler's loop runs on every replica, which is so where it is     *)
(* switched on (ASOE_OUTBOX_RECONCILE_INTERVAL_S, off by default).  No     *)
(* admin is assumed.                                                       *)
Fairness ==
  \A p \in Replicas :
    /\ WF_vars(\E answer \in Answers : RunReturns(p, answer))
    /\ WF_vars(RecordEffect(p) \/ Settle(p) \/ \E e \in Effects : Retry(p, e))
    /\ WF_vars(SchedulerPass(p))

FairSpec == Spec /\ Fairness

-----------------------------------------------------------------------------
(* Processes, ledger and counters hold what the code can store in them. *)
TypeOK ==
  /\ proc \in [Replicas -> Procs]
  /\ fired \subseteq Effects
  /\ entry \in [Effects -> Entries]
  /\ late \in [Effects -> Nat] /\ applied \in [Effects -> Nat]
  /\ faults \in 0..deployment.faults

(* The ledger never calls an effect done that did not happen: committed or *)
(* compensated entries were performed by the gateway at least once.        *)
DoneMeansApplied ==
  \A e \in Effects :
    entry[e].recorded /\ (~entry[e].needs_compensation \/ entry[e].compensated)
      => applied[e] > 0

(* An entry is handed to a human only after MaxAttempts retries, and with  *)
(* every replica reconciling from its own stale snapshot it is retried at  *)
(* most once more per other replica and per crash.                         *)
RetriesBounded ==
  \A e \in Effects :
    /\ entry[e].escalated => entry[e].attempts >= MaxAttempts
    /\ entry[e].attempts <= MaxAttempts + (Cardinality(deployment.replicas) - 1) + faults

(* A duplicate costs an attempt: the gateway performs an effect at most    *)
(* once for the original call and once per counted retry, abandoned calls  *)
(* included.                                                               *)
DuplicatesAreCounted ==
  \A e \in Effects : applied[e] + late[e] <= 1 + entry[e].attempts

(* On one process's own ledger an entry leaves the queue one way only.     *)
(* (Two replicas on the shared table can both settle it.)                  *)
SettledOnce ==
  Cardinality(deployment.replicas) = 1 =>
  \A e \in Effects : ~(entry[e].compensated /\ entry[e].escalated)

(* The ledger is true to what the gateway did, under crashes, timeouts and  *)
(* several reconcilers (outbox.py OutboxEntry): done means performed,       *)
(* retries are bounded, duplicates counted, and an entry settled one way.   *)
LedgerIsTrue == TypeOK /\ DoneMeansApplied /\ RetriesBounded /\ DuplicatesAreCounted /\ SettledOnce

(* reconcile_pending drains an in-memory queue: each recorded failure is   *)
(* eventually compensated or escalated by the scheduler alone (or lost in  *)
(* a restart).  A ledger in the database waits for an admin.               *)
FailuresAreDrained ==
  \A e \in Effects :
    ~deployment.durable /\ entry[e].recorded /\ entry[e].needs_compensation
      ~> ~entry[e].recorded \/ entry[e].compensated \/ entry[e].escalated
===============================================================================
