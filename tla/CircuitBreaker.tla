---------------------------- MODULE CircuitBreaker ----------------------------
(***************************************************************************)
(* LLMCircuitBreaker (llm/circuit_breaker.py), the breaker in front of the *)
(* LLM provider and, one instance per gateway name, of every gateway       *)
(* (gateways/circuit_breaker.py).  Each method holds the breaker's lock,   *)
(* so acquire and record_* are atomic; the call between them is not: the   *)
(* callers of one instance (the dependency fan-out pool) overlap.          *)
(*                                                                         *)
(* Time is counted in ticks and kept as ages.  A call reports within       *)
(* CallDeadline ticks: GatewayExecutor.run bounds future.result, the LLM   *)
(* provider bounds the SDK request and its retries.                        *)
(***************************************************************************)
EXTENDS Integers, FiniteSets, Functions

CONSTANTS
  Callers,        \* threads that may call the dependency
  MinSamples,     \* _MIN_SAMPLES
  Window,         \* _WINDOW_SECONDS, in ticks
  Cooldown,       \* cooldown_s, in ticks
  CallDeadline,   \* longest call, in ticks
  ErrorRatePct,   \* error_rate_threshold, in percent
  MaxSamples      \* bound: calls outstanding or in the window

ASSUME BreakerAssumption ==
  /\ MinSamples \in Nat \ {0}
  /\ Window \in Nat
  /\ Cooldown \in Nat
  /\ CallDeadline \in Nat
  /\ ErrorRatePct \in 1..100
  /\ MaxSamples \in Nat

VARIABLES
  state,      \* _state
  openedFor,  \* ticks since _opened_at, at most Cooldown; Never when it is None
  probe,      \* _probe_in_flight
  records,    \* _records: how many calls completed a ticks ago, by outcome
  calls,      \* age of each caller's outstanding call, or Idle
  healthy,    \* the dependency answers, and in time
  faulted     \* history: a call failed or was slow since the last closing probe, itself included

vars == <<state, openedFor, probe, records, calls, healthy, faulted>>

Never == -1
Idle  == -1

Outstanding == {c \in Callers : calls[c] # Idle}
Counts      == [all : Nat, errors : Nat, slow : Nat]
Ages        == 0..Window

(* Mutant: old records are never evicted. *)
AgedForEver ==
  LET Sum(x, y) == [all |-> x.all + y.all, errors |-> x.errors + y.errors,
                    slow |-> x.slow + y.slow]
      none      == [all |-> 0, errors |-> 0, slow |-> 0]
  IN  [a \in Ages |-> IF a = Window /\ a > 0 THEN Sum(records[a], records[a - 1])
                      ELSE IF a = 0 THEN none ELSE records[a - 1]]

(* A record leaves the deque once it is older than the window: the methods *)
(* evict before they look, so ageing may as well drop it.                  *)
Aged ==
  [a \in Ages |-> IF a = 0 THEN [all |-> 0, errors |-> 0, slow |-> 0] ELSE records[a - 1]]

Appended(error, slow) ==
  [records EXCEPT ![0] = [all    |-> @.all + 1,
                          errors |-> @.errors + (IF error THEN 1 ELSE 0),
                          slow   |-> @.slow + (IF slow THEN 1 ELSE 0)]]

Samples(w) == SumFunction([a \in Ages |-> w[a].all])
Errors(w)  == SumFunction([a \in Ages |-> w[a].errors])
Slow(w)    == SumFunction([a \in Ages |-> w[a].slow])

(* int(round(0.95 * (n - 1))): Python rounds a half to the even neighbour. *)
P95Index(n) ==
  LET q == (95 * (n - 1)) \div 100
      r == (95 * (n - 1)) % 100
  IN  IF r > 50 \/ (r = 50 /\ q % 2 = 1) THEN q + 1 ELSE q

(* _maybe_trip_locked's two conditions; a sample is slow when its latency  *)
(* reaches the p95 threshold, so the p95 does when only slow ones sort     *)
(* from that index on.                                                     *)
Trips(w) ==
  /\ Samples(w) >= MinSamples
  /\ \/ 100 * Errors(w) >= ErrorRatePct * Samples(w)
     \/ Slow(w) >= Samples(w) - P95Index(Samples(w))

MaybeTrip(w) ==
  IF state = "CLOSED" /\ Trips(w)
  THEN state' = "OPEN" /\ openedFor' = 0
  ELSE UNCHANGED <<state, openedFor>>

(* _maybe_transition_locked; mutant: acquire does not call it. *)
NeverRetried  == state
AfterCooldown ==
  IF state = "OPEN" /\ openedFor # Never /\ openedFor >= Cooldown THEN "HALF_OPEN" ELSE state

-----------------------------------------------------------------------------
(* Whom acquire() admits; mutant: HALF_OPEN admits everybody. *)
AdmitsManyProbes == AfterCooldown # "OPEN"
Admits           == AfterCooldown = "CLOSED" \/ (AfterCooldown = "HALF_OPEN" /\ ~probe)

(* acquire(): admits the caller, or raises CircuitOpen and leaves it idle. *)
Acquire(c) ==
  /\ calls[c] = Idle
  /\ Samples(records) + Cardinality(Outstanding) < MaxSamples
  /\ state' = AfterCooldown
  /\ IF Admits
     THEN /\ calls' = [calls EXCEPT ![c] = 0]
          /\ probe' = IF AfterCooldown = "HALF_OPEN" THEN TRUE ELSE probe
     ELSE UNCHANGED <<calls, probe>>
  /\ UNCHANGED <<openedFor, records, healthy, faulted>>

RecordSuccess(w) ==
  IF state = "HALF_OPEN" /\ probe
  THEN state' = "CLOSED" /\ openedFor' = Never /\ probe' = FALSE
  ELSE MaybeTrip(w) /\ UNCHANGED probe

RecordFailure(w) ==
  IF state = "HALF_OPEN" /\ probe
  THEN state' = "OPEN" /\ openedFor' = 0 /\ probe' = FALSE
  ELSE MaybeTrip(w) /\ UNCHANGED probe

(* The call of c ends and its outcome is recorded; an exhausted deadline   *)
(* is an error like any other.                                             *)
Report(c, error, slow) ==
  /\ calls[c] # Idle
  /\ healthy => ~error /\ ~slow
  /\ calls' = [calls EXCEPT ![c] = Idle]
  /\ records' = Appended(error, slow)
  /\ IF error THEN RecordFailure(records') ELSE RecordSuccess(records')
  /\ faulted' = IF state # "CLOSED" /\ state' = "CLOSED" THEN slow
                ELSE faulted \/ error \/ slow
  /\ UNCHANGED healthy

(* The timeout has not fired yet. *)
MayRunOn(c)   == calls[c] < CallDeadline

Tick ==
  /\ \A c \in Outstanding : MayRunOn(c)
  /\ calls' = [c \in Callers |-> IF calls[c] = Idle THEN Idle ELSE calls[c] + 1]
  /\ records' = Aged
  /\ openedFor' = IF openedFor = Never \/ openedFor >= Cooldown THEN openedFor ELSE openedFor + 1
  /\ UNCHANGED <<state, probe, healthy, faulted>>

HealthChanges ==
  /\ healthy' = ~healthy
  /\ UNCHANGED <<state, openedFor, probe, records, calls, faulted>>

Init ==
  /\ state = "CLOSED" /\ openedFor = Never /\ probe = FALSE
  /\ records = [a \in Ages |-> [all |-> 0, errors |-> 0, slow |-> 0]]
  /\ calls = [c \in Callers |-> Idle]
  /\ healthy \in BOOLEAN
  /\ faulted = FALSE

Next ==
  \/ \E c \in Callers :
       Acquire(c) \/ \E error, slow \in BOOLEAN : Report(c, error, slow)
  \/ Tick
  \/ HealthChanges

Spec == Init /\ [][Next]_vars

(* Calls end (their timeout), time passes, and traffic keeps arriving. *)
Fairness ==
  /\ \A c \in Callers : WF_vars(\E error, slow \in BOOLEAN : Report(c, error, slow))
  /\ WF_vars(\E c \in Callers : Acquire(c))
  /\ WF_vars(Tick)

FairSpec == Spec /\ Fairness

-----------------------------------------------------------------------------
(* The fields hold what the methods can assign. *)
TypeOK ==
  /\ state \in {"CLOSED", "OPEN", "HALF_OPEN"}
  /\ openedFor \in Never..Cooldown
  /\ probe \in BOOLEAN
  /\ records \in [Ages -> Counts]
  /\ calls \in [Callers -> Idle..CallDeadline]
  /\ healthy \in BOOLEAN /\ faulted \in BOOLEAN

(* The probe token is never leaked: it is set exactly in HALF_OPEN, and    *)
(* some call that will report, and so release it, is outstanding.  A token *)
(* with no holder would refuse every caller for ever.                      *)
ProbeIsHeld ==
  /\ probe <=> state = "HALF_OPEN"
  /\ probe => Outstanding # {}

(* "HALF_OPEN - allow a single probe": no call admitted before the trip is *)
(* still out when the probe is, so the verdict on the dependency is the    *)
(* probe's own.  Rests on CallDeadline < Cooldown.                         *)
SingleProbe ==
  state = "HALF_OPEN" => \A c, d \in Outstanding : c = d

(* While the breaker is OPEN it admits nobody: each outstanding call is    *)
(* at least as old as the trip.                                            *)
OpenAdmitsNobody ==
  state = "OPEN" => \A c \in Outstanding : calls[c] >= openedFor

(* The probe protocol of acquire, record_success and record_failure as a    *)
(* whole: what lets a HALF_OPEN breaker judge its dependency by one call.   *)
ProbeRules == TypeOK /\ ProbeIsHeld /\ SingleProbe /\ OpenAdmitsNobody

(* A breaker its probe closed does not trip again on what it recorded      *)
(* before: only a failed or slow call since the probe can.  Rests on       *)
(* Window + CallDeadline < Cooldown, which the LLM tier's settings satisfy *)
(* and the gateway tier's do not.                                          *)
RetripNeedsNewFault ==
  [][state = "CLOSED" /\ state' = "OPEN" => faulted']_vars

(* Once the dependency is healthy for good, the breaker closes for good:   *)
(* no interleaving of stragglers and probes leaves it refusing calls.      *)
Recovers == <>[]healthy => <>[](state = "CLOSED")
===============================================================================
