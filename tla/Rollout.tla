------------------------------- MODULE Rollout -------------------------------
(***************************************************************************)
(* Calls to the outside world while a live connector is rolled out: the    *)
(* gateway executor with its shared pool, time limits and breakers         *)
(* (gateways/executor.py), the live-or-stub routers (msgraph_intake.py,    *)
(* sap_live.py, oms_live.py), the canary split, the runner that calls both *)
(* sides, and the dead letters (api/dead_letter_queue.py).                 *)
(*                                                                         *)
(* One process.  The dependencies of a recipe run are fanned out, an       *)
(* effect is called alone; other requests' runs may go on beside it.  Each *)
(* call has a caller, which waits no longer than the limit of its gateway, *)
(* and a worker of the one pool all gateways share, which nobody stops.    *)
(* Time passes in ticks; limits are in ticks.                              *)
(***************************************************************************)
EXTENDS Integers, SequencesExt, FiniteSetsExt

CONSTANTS
  Calls,            \* one request each
  Asks,             \* [Calls -> request]; see Request
  NoCase,           \* the request names no case
  Budget,           \* GATEWAY_TIMEOUT_S: the time limits gateways have of their own
  DefaultTimeout,   \* timeout_ms of a request that sets none
  LiveOperations,   \* pairs <<gateway, operation>> the live backends support
  Slot,             \* [cases -> 0..Slots-1], the hash of a case's id
  Slots,            \* the resolution of the hash and of the canary percentage
  Workers,          \* max_workers of the executor's pool
  MinSamples,       \* outcomes a breaker needs before it can open
  Settings          \* deployments to explore: their runs, whether each has a thread, canary
                    \* levels, how many calls hang, whether stubs raise, restarts

Gateways == {Asks[c].gateway : c \in Calls}

ASSUME RolloutAssumption ==
  /\ IsFiniteSet(Calls) /\ {Slots, Workers, MinSamples} \subseteq Nat \ {0}
  /\ \A c \in Calls :
       /\ Asks[c].timeout \in Nat \ {0}
       /\ Asks[c].effect \in BOOLEAN /\ (Asks[c].case = NoCase \/ Slot[Asks[c].case] \in 0..(Slots - 1))
  /\ \A g \in DOMAIN Budget : Budget[g] \in Nat \ {0}
  /\ \A s \in Settings :
       /\ s.runs \in Seq(SUBSET Calls) /\ s.levels \subseteq 0..Slots /\ {s.raises, s.threads} \subseteq BOOLEAN
       /\ \A i, j \in DOMAIN s.runs : i # j => s.runs[i] \cap s.runs[j] = {}
       /\ {s.slow, s.restarts} \subseteq Nat

VARIABLES
  setting,
  level,        \* the canary percentage of this revision, in slots; 0 without driver
  configured,   \* gateways whose live backend has its credentials
  run,          \* runs begun
  caller,       \* [Calls -> none, waiting, or what it was told]
  worker,       \* [Calls -> none, queued, running, logging, letters, returned, done]
  slow,         \* calls that hang: they do not end while their callers wait
  route,        \* [Calls -> where it went and how each side ended]
  diffs,        \* the diff log: calls, in the order of their entries
  dlq,          \* the dead letters
  breaker,      \* [Gateways -> its circuit breaker]
  restarts,
  age,          \* [Calls -> ticks since the call was submitted, up to its limit]
  worked,       \* history: [Calls -> ticks a worker has had the call, up to its limit]
  crowded       \* history: more callers have waited at once than there are workers

vars == <<setting, level, configured, run, caller, worker, slow, route, diffs, dlq, breaker,
          restarts, age, worked, crowded>>
clock == <<age, worked, crowded>>

Told == {"SUCCESS", "FAILED", "TIMEOUT", "UNAVAILABLE"}
Shut == [state |-> "closed", samples |-> 0, probe |-> FALSE]
Unrouted == [live |-> FALSE, able |-> FALSE, level |-> 0, real |-> "none", stub |-> "none"]

Waiting == {c \in Calls : caller[c] = "waiting"}
Running == {c \in Calls : worker[c] \in {"running", "logging", "letters"}}
Queued  == {c \in Calls : worker[c] = "queued"}

(* effective_timeout_ms: the gateway's budget, unless the request sets a   *)
(* limit of its own.                                                       *)
Limit(c) ==
  IF Asks[c].timeout = DefaultTimeout /\ Asks[c].gateway \in DOMAIN Budget
  THEN Budget[Asks[c].gateway] ELSE Asks[c].timeout

-----------------------------------------------------------------------------
(* resolve_dependencies and apply_effects begin the calls of a run when    *)
(* those before have their answers.  Where requests have threads of their  *)
(* own, runs go on beside each other, and beside the calls that a run left *)
(* out when it halted on a required dependency.                            *)
Begin ==
  /\ run < Len(setting.runs)
  /\ setting.threads \/ \A c \in Calls : caller[c] \notin {"begun", "waiting"}
  /\ run' = run + 1
  /\ caller' = [c \in Calls |-> IF c \in setting.runs[run + 1] THEN "begun" ELSE caller[c]]
  /\ UNCHANGED <<setting, level, configured, worker, slow, route, diffs, dlq, breaker, restarts, clock>>

(* apply_effects files an orphan when an OMS effect did not succeed. *)
Orphaned(c, status) == Asks[c].effect /\ Asks[c].gateway = "oms" /\ status # "SUCCESS"

Letter(c, kind) == [call |-> c, kind |-> kind]
Answers(c, status) ==
  /\ caller' = [caller EXCEPT ![c] = status]
  /\ dlq' = IF Orphaned(c, status) THEN Append(dlq, Letter(c, "orphan")) ELSE dlq

(* breaker.acquire(), detailed in CircuitBreaker: a half-open one lets one *)
(* probe through.                                                          *)
Acquire(c) ==
  LET g == Asks[c].gateway
      b == breaker[g]
      admits == b.state = "closed" \/ (b.state = "half" /\ ~b.probe)
  IN  /\ caller[c] = "begun"
      /\ IF admits THEN caller' = [caller EXCEPT ![c] = "waiting"] /\ UNCHANGED dlq
         ELSE Answers(c, "UNAVAILABLE")
      /\ worker' = IF admits THEN [worker EXCEPT ![c] = "queued"] ELSE worker
      /\ breaker' = IF admits /\ b.state = "half" THEN [breaker EXCEPT ![g].probe = TRUE] ELSE breaker
      /\ UNCHANGED <<setting, level, configured, run, slow, route, diffs, restarts, clock>>

CoolsDown(g) ==
  /\ breaker[g].state = "open"
  /\ breaker' = [breaker EXCEPT ![g].state = "half"]
  /\ UNCHANGED <<setting, level, configured, run, caller, worker, slow, route, diffs, dlq, restarts, clock>>

(* record_success and record_failure; whether a failure is one too many is *)
(* CircuitBreaker's matter.                                                *)
Outcomes(b, failed) ==
  LET counted == [b EXCEPT !.samples = IF @ < MinSamples THEN @ + 1 ELSE @]
  IN  IF b.state = "half" /\ b.probe
      THEN {[counted EXCEPT !.state = IF failed THEN "open" ELSE "closed", !.probe = FALSE]}
      ELSE IF failed /\ b.state = "closed" /\ counted.samples = MinSamples
           THEN {counted, [counted EXCEPT !.state = "open"]}
           ELSE {counted}

Reported(c, failed) ==
  \E b \in Outcomes(breaker[Asks[c].gateway], failed) :
    breaker' = [breaker EXCEPT ![Asks[c].gateway] = b]

-----------------------------------------------------------------------------
(* Who holds a worker: the calls being executed.  Mutant: the callers too,  *)
(* as when the fan-out used the executor's own pool.                       *)
SharedPool == Running \cup Waiting
Holding == Running

(* A worker takes the call; it may hang. *)
TakeWorker(c) ==
  /\ worker[c] = "queued" /\ Cardinality(Holding) < Workers
  /\ worker' = [worker EXCEPT ![c] = "running"]
  /\ slow' \in {slow} \cup (IF Cardinality(slow) < setting.slow THEN {slow \cup {c}} ELSE {})
  /\ UNCHANGED <<setting, level, configured, run, caller, route, diffs, dlq, breaker, restarts, clock>>

(* is_canary_eligible. *)
Eligible(case) == Slot[case] < level

Able(c) ==
  /\ level > 0 /\ Asks[c].gateway \in configured /\ Asks[c].case # NoCase
  /\ <<Asks[c].gateway, Asks[c].operation>> \in LiveOperations

(* The router's execute, up to the runner's log: live side, then stub,     *)
(* whose status nobody reads; or the stub alone, whose answer is returned. *)
(* StubGateway never raises; what is wrapped in its place may.             *)
Execute(c) ==
  /\ worker[c] = "running" /\ (c \in slow => caller[c] # "waiting")
  /\ \E real \in {"ok", "error"}, stub \in {"ok", "raised"} :
       LET live == Able(c) /\ Eligible(Asks[c].case)
       IN  /\ ~live => real = "ok"
           /\ stub = "raised" => setting.raises
           /\ route' = [route EXCEPT ![c] = [live |-> live, able |-> Able(c), level |-> level,
                                             real |-> IF live THEN real ELSE "none", stub |-> stub]]
           /\ worker' = [worker EXCEPT ![c] = IF live THEN "logging" ELSE "returned"]
  /\ UNCHANGED <<setting, level, configured, run, caller, slow, diffs, dlq, breaker, restarts, clock>>

LogDiff(c) ==
  /\ worker[c] = "logging"
  /\ diffs' = Append(diffs, c)
  /\ worker' = [worker EXCEPT ![c] = "letters"]
  /\ UNCHANGED <<setting, level, configured, run, caller, slow, route, dlq, breaker, restarts, clock>>

(* Whose entry the router reads; mutant: the newest of the log. *)
NewestEntry(c) == Last(diffs)
OwnEntry(c) == c

BothFailed(c) == route[c].real = "error" /\ route[c].stub = "raised"
(* A dead letter for a failed live side, and the return. *)
DeadLetter(c) ==
  /\ worker[c] = "letters"
  /\ dlq' = IF BothFailed(c) \/ route[OwnEntry(c)].real = "error" THEN Append(dlq, Letter(c, "live")) ELSE dlq
  /\ worker' = [worker EXCEPT ![c] = "returned"]
  /\ UNCHANGED <<setting, level, configured, run, caller, slow, route, diffs, breaker, restarts, clock>>

-----------------------------------------------------------------------------
(* What the call returned: the live data, or the stub's in its place; the  *)
(* executor turns a stub's exception, alone, into FAILED too.              *)
Status(c) ==
  IF route[c].live THEN (IF BothFailed(c) THEN "FAILED" ELSE "SUCCESS")
  ELSE IF route[c].stub = "raised" THEN "FAILED" ELSE "SUCCESS"

Receive(c) ==
  /\ caller[c] = "waiting" /\ worker[c] = "returned"
  /\ Answers(c, Status(c)) /\ Reported(c, Status(c) # "SUCCESS")
  /\ worker' = [worker EXCEPT ![c] = "done"]
  /\ UNCHANGED <<setting, level, configured, run, slow, route, diffs, restarts, clock>>

(* What a time-out tells the breaker. *)
TimedOut(c) == Reported(c, TRUE)

(* Time passes.  A worker that is free takes a call from the queue before  *)
(* it does.                                                                *)
Aged(c, n) == IF n < Limit(c) THEN n + 1 ELSE n
Tick ==
  /\ Queued = {} \/ Cardinality(Holding) >= Workers
  /\ \E c \in Waiting : age[c] < Limit(c)
  /\ age' = [c \in Calls |-> IF c \in Waiting THEN Aged(c, age[c]) ELSE age[c]]
  /\ worked' = [c \in Calls |-> IF c \in Running THEN Aged(c, worked[c]) ELSE worked[c]]
  /\ crowded' = (crowded \/ Cardinality(Waiting) > Workers)
  /\ UNCHANGED <<setting, level, configured, run, caller, worker, slow, route, diffs, dlq, breaker,
                 restarts>>

(* The limit has passed, counted from the submission, and no answer is     *)
(* there.  The worker goes on, or the queue still holds the call.  Mutant: *)
(* the caller waits without a limit.                                       *)
Unlimited(c) == FALSE
Expired(c) == age[c] = Limit(c) /\ worker[c] # "returned"
TimeOut(c) ==
  /\ caller[c] = "waiting" /\ Expired(c)
  /\ Answers(c, "TIMEOUT") /\ TimedOut(c)
  /\ UNCHANGED <<setting, level, configured, run, worker, slow, route, diffs, restarts, clock>>

(* The late answer of an abandoned call is dropped. *)
LateReturn(c) ==
  /\ worker[c] = "returned" /\ caller[c] = "TIMEOUT"
  /\ worker' = [worker EXCEPT ![c] = "done"]
  /\ UNCHANGED <<setting, level, configured, run, caller, slow, route, diffs, dlq, breaker, restarts, clock>>

(* Another revision: other environment variables, and nothing in memory. *)
Restart ==
  /\ restarts < setting.restarts /\ restarts' = restarts + 1
  /\ level' \in setting.levels /\ configured' \in {{}, Gateways}
  /\ caller' = [c \in Calls |-> IF caller[c] \in {"begun", "waiting"} THEN "lost" ELSE caller[c]]
  /\ worker' = [c \in Calls |-> IF caller[c] = "none" THEN "none" ELSE "gone"]
  /\ diffs' = <<>> /\ dlq' = <<>> /\ breaker' = [g \in Gateways |-> Shut]
  /\ age' = [c \in Calls |-> 0] /\ worked' = [c \in Calls |-> 0] /\ crowded' = FALSE
  /\ UNCHANGED <<setting, run, slow, route>>

Init ==
  /\ setting \in Settings /\ level \in setting.levels /\ configured \in {{}, Gateways}
  /\ run = 0 /\ caller = [c \in Calls |-> "none"] /\ worker = [c \in Calls |-> "none"]
  /\ slow = {} /\ route = [c \in Calls |-> Unrouted] /\ diffs = <<>> /\ dlq = <<>>
  /\ breaker = [g \in Gateways |-> Shut] /\ restarts = 0
  /\ age = [c \in Calls |-> 0] /\ worked = [c \in Calls |-> 0] /\ crowded = FALSE

Next ==
  \/ Begin \/ Restart \/ Tick
  \/ \E g \in Gateways : CoolsDown(g)
  \/ \E c \in Calls :
       \/ Acquire(c) \/ TakeWorker(c) \/ Execute(c) \/ LogDiff(c) \/ DeadLetter(c)
       \/ Receive(c) \/ TimeOut(c) \/ LateReturn(c)

Spec == Init /\ [][Next]_vars

(* Callers and workers go on, and time passes; a call that hangs ends some *)
(* time after its caller has given up.                                     *)
Fairness ==
  /\ WF_vars(Tick)
  /\ \A c \in Calls :
       WF_vars(Acquire(c) \/ TakeWorker(c) \/ Execute(c) \/ LogDiff(c) \/ DeadLetter(c) \/ Receive(c)
               \/ TimeOut(c) \/ LateReturn(c))
FairSpec == Spec /\ Fairness

-----------------------------------------------------------------------------
(* Callers, workers and breakers hold what the code gives them. *)
TypeOK ==
  /\ caller \in [Calls -> Told \cup {"none", "begun", "waiting", "lost"}]
  /\ worker \in [Calls -> {"none", "queued", "running", "logging", "letters", "returned", "done", "gone"}]
  /\ \A g \in Gateways :
       breaker[g].state \in {"closed", "open", "half"} /\ breaker[g].samples \in 0..MinSamples
  /\ Cardinality(Running) <= Workers /\ level \in 0..Slots

(* The dead letters of a finished call are its own: one when its live side *)
(* failed, none when it did not, whatever other calls log meanwhile.       *)
LettersAreOwn ==
  \A c \in Calls : worker[c] \in {"returned", "done"} =>
    Cardinality({i \in DOMAIN dlq : dlq[i] = Letter(c, "live")}) = (IF route[c].real = "error" THEN 1 ELSE 0)

(* An OMS effect whose caller was not told SUCCESS is in the dead letters, *)
(* once, as long as the process lives.                                     *)
OrphansAreFiled ==
  \A c \in Calls :
    (/\ Asks[c].effect /\ Asks[c].gateway = "oms"
     /\ worker[c] # "gone" /\ caller[c] \in Told \ {"SUCCESS"}) =>
    Cardinality({i \in DOMAIN dlq : dlq[i] = Letter(c, "orphan")}) = 1

(* A failure nobody was told of is in the dead letters, a call's own and    *)
(* only once (dead_letter_queue.py record).                                 *)
FailuresAreFiled == TypeOK /\ LettersAreOwn /\ OrphansAreFiled

(* Raising the percentage never takes a case back to the stub, and asking  *)
(* twice gives the same side twice.                                        *)
RolloutIsMonotone ==
  \A c, d \in Calls :
    route[c].live /\ route[d].able /\ Asks[c].case = Asks[d].case /\ route[c].level <= route[d].level
      => route[d].live

(* A breaker's probe is some caller's that still waits: it will report.    *)
ProbeIsAwaited ==
  \A g \in Gateways : breaker[g].probe =>
    breaker[g].state = "half" /\ \E c \in Waiting : Asks[c].gateway = g

(* As long as no more callers wait at once than the pool has workers,      *)
(* calls time out only if one of them has kept a worker for the whole of   *)
(* its own gateway's limit: callers take no workers from those they wait   *)
(* for, and waiting in the queue alone uses up nobody's limit.  Beyond     *)
(* that a call with a short limit does time out behind calls that stay     *)
(* within theirs.                                                          *)
Outlasted(c) == worker[c] # "gone" /\ worked[c] = Limit(c)
HealthyIsServed ==
  (\E c \in Calls : caller[c] = "TIMEOUT" /\ worker[c] # "gone") /\ ~crowded
    => \E c \in Calls : Outlasted(c)

(* A call gets the side it is due, and a worker within its limit unless    *)
(* calls outlast theirs or crowd the pool, and no breaker refuses it for a *)
(* probe that nobody makes (executor.py run).                              *)
CallsAreServed == HealthyIsServed /\ ProbeIsAwaited /\ RolloutIsMonotone

(* Every call that is begun is answered, or lost in a restart. *)
CallsAreAnswered ==
  \A c \in Calls : caller[c] \in {"begun", "waiting"} ~> caller[c] \notin {"begun", "waiting"}

-----------------------------------------------------------------------------
(* What the code does not keep: "one flaky dependency trips in isolation   *)
(* without starving the others" (gateways/circuit_breaker.py:8).           *)
TripsInIsolation ==
  \A g \in Gateways : breaker[g].state = "open" =>
    \E c \in Calls : Asks[c].gateway = g /\ (Outlasted(c) \/ route[c].stub = "raised" \/ route[c].real = "error")
=============================================================================
