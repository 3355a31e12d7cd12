---------------------------- MODULE ServiceProofs ----------------------------
(***************************************************************************)
(* Proofs about what every request passes through.                         *)
(*                                                                         *)
(* The circuit breaker, for any number of callers: its probe protocol      *)
(* where a call cannot outlive the cooldown, and that a breaker its probe  *)
(* closed does not trip on old faults where window and call together       *)
(* cannot.  The second needs a few facts about sums over the window.       *)
(*                                                                         *)
(* The gateway calls of a rollout (R), which have a module, constants and  *)
(* variables of their own: for any calls, runs, workers and canary levels. *)
(*                                                                         *)
(* Browser sessions (Web), for any processes, tenants and clients: their   *)
(* credentials, the intents they are answered with, and that the feed of   *)
(* a client misses nothing it is not known to miss.                        *)
(***************************************************************************)
EXTENDS CircuitBreaker, SequenceTheorems, FiniteSetTheorems, TLAPS

CONSTANTS Calls, Asks, NoCase, Budget, DefaultTimeout, LiveOperations, Slot, Slots, Workers, Settings
VARIABLES setting, level, configured, run, caller, worker, slowCalls, route, diffs, dlq, breaker,
          restarts, callAge, worked, crowded

R == INSTANCE Rollout WITH slow <- slowCalls, age <- callAge

CONSTANTS Processes, Home, Tenants, Clients, Org, Deployments, AccessTtl, RefreshTtl, ReplayWindow,
          Recent, KeyTtl, MaxKeys
VARIABLES deployment, clock, handler, changes, children, intents, published, buffer, socket, got,
          last, lost, tokens, jtis, revoked, exchanged, twice, keys, retired, jwks, age, faults

Web == INSTANCE Sessions WITH Settings <- Deployments, Window <- ReplayWindow, setting <- deployment

-----------------------------------------------------------------------------
(* The breaker's probe.                                                    *)

(* The properties support one another: a probe is alone because every call *)
(* admitted before the trip has hit its deadline by the end of the         *)
(* cooldown, which is what OpenAdmitsNobody measures.                      *)
BreakerInv == TypeOK /\ ProbeIsHeld /\ OpenAdmitsNobody /\ SingleProbe

(* Appending a sample keeps the window a table of counts. *)
LEMMA AppendedType ==
  ASSUME records \in [Ages -> Counts], NEW error \in BOOLEAN, NEW slow \in BOOLEAN
  PROVE  Appended(error, slow) \in [Ages -> Counts]
<1>1. 0 \in Ages
  BY BreakerAssumption DEF Ages
<1>2. records[0].all \in Nat /\ records[0].errors \in Nat /\ records[0].slow \in Nat
  BY <1>1 DEF Counts
<1>3. [all |-> records[0].all + 1,
       errors |-> records[0].errors + (IF error THEN 1 ELSE 0),
       slow |-> records[0].slow + (IF slow THEN 1 ELSE 0)] \in Counts
  BY <1>2 DEF Counts
<1> QED
  BY <1>1, <1>3 DEF Appended

(* Ageing the window keeps it a table of counts. *)
LEMMA AgedType ==
  ASSUME records \in [Ages -> Counts]
  PROVE  Aged \in [Ages -> Counts]
<1> SUFFICES ASSUME NEW a \in Ages PROVE Aged[a] \in Counts
  BY DEF Aged
<1>1. CASE a = 0
  BY <1>1 DEF Aged, Counts
<1>2. CASE a # 0
  <2>1. a - 1 \in Ages
    BY <1>2, BreakerAssumption DEF Ages
  <2> QED
    BY <1>2, <2>1 DEF Aged
<1> QED
  BY <1>1, <1>2

(* A fresh breaker is closed and nobody is calling. *)
LEMMA BreakerInit == Init => BreakerInv
<1> SUFFICES ASSUME Init PROVE BreakerInv
  OBVIOUS
<1>1. records \in [Ages -> Counts]
  BY DEF Init, Counts
<1>2. calls \in [Callers -> Idle..CallDeadline] /\ Outstanding = {}
  BY BreakerAssumption DEF Init, Outstanding, Idle
<1>3. openedFor \in Never..Cooldown
  BY BreakerAssumption DEF Init, Never
<1>4. probe \in BOOLEAN /\ healthy \in BOOLEAN /\ faulted \in BOOLEAN
  BY Zenon DEF Init
<1> QED
  BY <1>1, <1>2, <1>3, <1>4
  DEF Init, BreakerInv, TypeOK, ProbeIsHeld, OpenAdmitsNobody, SingleProbe

(* acquire(): the step that can open the probe window; by then the         *)
(* cooldown has outlived every older call.                                 *)
LEMMA AcquirePreserves ==
  ASSUME CallDeadline < Cooldown, BreakerInv, NEW c \in Callers, Acquire(c)
  PROVE  BreakerInv'
<1> USE BreakerAssumption DEF BreakerInv
<1>0. state = "OPEN" /\ openedFor # Never /\ openedFor >= Cooldown => Outstanding = {}
  BY DEF TypeOK, OpenAdmitsNobody, Outstanding, Never, Idle
<1>1. TypeOK'
  <2>1. state' \in {"CLOSED", "OPEN", "HALF_OPEN"}
    BY DEF Acquire, TypeOK, AfterCooldown
  <2>2. calls' \in [Callers -> Idle..CallDeadline]
    <3>1. calls' = calls \/ calls' = [calls EXCEPT ![c] = 0]
      BY DEF Acquire
    <3> QED
      BY <3>1 DEF TypeOK, Idle
  <2>3. probe' \in BOOLEAN
    BY Zenon DEF Acquire, TypeOK
  <2> QED
    BY <2>1, <2>2, <2>3 DEF Acquire, TypeOK
<1>2. CASE AfterCooldown = "CLOSED"
  <2>1. state' = "CLOSED" /\ probe' = probe /\ state = "CLOSED"
    BY <1>2 DEF Acquire, Admits, AfterCooldown
  <2> QED
    BY <1>1, <2>1 DEF ProbeIsHeld, OpenAdmitsNobody, SingleProbe
<1>3. CASE AfterCooldown = "HALF_OPEN" /\ ~probe
  <2>1. state = "OPEN" /\ openedFor # Never /\ openedFor >= Cooldown /\ state' = "HALF_OPEN"
    BY <1>3 DEF Acquire, AfterCooldown, ProbeIsHeld
  <2>2. calls' = [calls EXCEPT ![c] = 0] /\ probe'
    BY <1>3 DEF Acquire, Admits
  <2>3. Outstanding' = {c}
    BY <1>0, <2>1, <2>2 DEF Outstanding, TypeOK, Idle
  <2> QED
    BY <1>1, <2>1, <2>2, <2>3 DEF ProbeIsHeld, OpenAdmitsNobody, SingleProbe
<1>4. CASE ~Admits
  <2>1. calls' = calls /\ probe' = probe
    BY <1>4 DEF Acquire
  <2>2. state' = state /\ openedFor' = openedFor /\ Outstanding' = Outstanding
    BY <1>4, <2>1 DEF Acquire, Admits, AfterCooldown, ProbeIsHeld, Outstanding
  <2> QED
    BY <1>1, <2>1, <2>2 DEF ProbeIsHeld, OpenAdmitsNobody, SingleProbe
<1> QED
  BY <1>2, <1>3, <1>4 DEF Admits

(* record_success / record_failure: the probe's report ends HALF_OPEN and  *)
(* releases the token; any other report can only trip a closed breaker.    *)
LEMMA ReportPreserves ==
  ASSUME BreakerInv, NEW c \in Callers, NEW error \in BOOLEAN, NEW slow \in BOOLEAN,
         Report(c, error, slow)
  PROVE  BreakerInv'
<1> USE BreakerAssumption DEF BreakerInv
<1>1. records' \in [Ages -> Counts]
  BY AppendedType DEF Report, TypeOK
<1>2. calls' \in [Callers -> Idle..CallDeadline] /\ Outstanding' = Outstanding \ {c}
  BY DEF Report, TypeOK, Outstanding, Idle
<1>3. faulted' \in BOOLEAN /\ healthy' \in BOOLEAN
  BY DEF Report, TypeOK
<1>4. \A d \in Outstanding' : d \in Outstanding /\ calls'[d] = calls[d]
  BY <1>2 DEF Report, TypeOK, Outstanding
<1>5. CASE state = "HALF_OPEN" /\ probe
  <2>1. Outstanding' = {}
    BY <1>2, <1>5 DEF SingleProbe, Report, Outstanding
  <2>2. \/ state' = "CLOSED" /\ openedFor' = Never /\ probe' = FALSE
        \/ state' = "OPEN" /\ openedFor' = 0 /\ probe' = FALSE
    BY <1>5 DEF Report, RecordSuccess, RecordFailure
  <2>3. openedFor' \in Never..Cooldown /\ state' \in {"CLOSED", "OPEN"}
    BY <2>2 DEF Never
  <2>4. probe' = FALSE /\ probe' \in BOOLEAN
    BY <2>2
  <2>5. TypeOK'
    BY <1>1, <1>2, <1>3, <2>3, <2>4 DEF TypeOK
  <2> QED
    BY <2>1, <2>3, <2>4, <2>5 DEF ProbeIsHeld, OpenAdmitsNobody, SingleProbe
<1>6. CASE ~(state = "HALF_OPEN" /\ probe)
  <2>1. state # "HALF_OPEN" /\ ~probe
    BY <1>6 DEF ProbeIsHeld
  <2>2. MaybeTrip(records') /\ UNCHANGED probe
    BY <1>6 DEF Report, RecordSuccess, RecordFailure
  <2>3. CASE state = "CLOSED" /\ state' = "OPEN" /\ openedFor' = 0
    <3>1. \A d \in Outstanding' : calls'[d] >= 0
      BY <1>2 DEF Outstanding, Idle
    <3> QED
      BY <1>1, <1>2, <1>3, <2>1, <2>2, <2>3, <3>1
      DEF TypeOK, ProbeIsHeld, OpenAdmitsNobody, SingleProbe, Never
  <2>4. CASE UNCHANGED <<state, openedFor>>
    BY <1>1, <1>2, <1>3, <1>4, <2>1, <2>2, <2>4
    DEF TypeOK, ProbeIsHeld, OpenAdmitsNobody, SingleProbe
  <2> QED
    BY <2>2, <2>3, <2>4 DEF MaybeTrip
<1> QED
  BY <1>5, <1>6

(* Time ages the outstanding calls and the trip alike. *)
LEMMA TickPreserves ==
  ASSUME BreakerInv, Tick
  PROVE  BreakerInv'
<1> USE BreakerAssumption DEF BreakerInv
<1>1. Outstanding' = Outstanding
  BY DEF Tick, TypeOK, Outstanding, Idle
<1>2. \A c \in Outstanding : calls'[c] = calls[c] + 1
  BY DEF Tick, Outstanding
<1>3. records' \in [Ages -> Counts]
  BY AgedType DEF Tick, TypeOK
<1>4. calls' \in [Callers -> Idle..CallDeadline]
  BY DEF Tick, MayRunOn, TypeOK, Outstanding, Idle
<1>5. openedFor' \in Never..Cooldown /\ openedFor' <= openedFor + 1
  BY DEF Tick, TypeOK, Never
<1>6. OpenAdmitsNobody'
  <2> SUFFICES ASSUME state = "OPEN", NEW c \in Outstanding PROVE calls'[c] >= openedFor'
    BY <1>1 DEF OpenAdmitsNobody, Tick
  <2>1. calls[c] \in Int /\ openedFor \in Int /\ calls[c] >= openedFor
    BY DEF TypeOK, OpenAdmitsNobody, Outstanding, Idle, Never
  <2> QED
    BY <1>2, <1>5, <2>1 DEF Never
<1> QED
  BY <1>1, <1>3, <1>4, <1>5, <1>6 DEF TypeOK, ProbeIsHeld, SingleProbe, Tick

(* Every step keeps the invariant. *)
LEMMA BreakerNext == CallDeadline < Cooldown /\ BreakerInv /\ [Next]_vars => BreakerInv'
<1> SUFFICES ASSUME CallDeadline < Cooldown, BreakerInv, [Next]_vars PROVE BreakerInv'
  OBVIOUS
<1>1. ASSUME NEW c \in Callers, Acquire(c) PROVE BreakerInv'
  BY <1>1, AcquirePreserves
<1>2. ASSUME NEW c \in Callers, NEW error \in BOOLEAN, NEW slow \in BOOLEAN,
             Report(c, error, slow)
      PROVE  BreakerInv'
  BY <1>2, ReportPreserves
<1>3. CASE Tick
  BY <1>3, TickPreserves
<1>4. CASE HealthChanges
  BY <1>4 DEF HealthChanges, BreakerInv, TypeOK, ProbeIsHeld, OpenAdmitsNobody, SingleProbe,
              Outstanding
<1>5. CASE UNCHANGED vars
  BY <1>5 DEF vars, BreakerInv, TypeOK, ProbeIsHeld, OpenAdmitsNobody, SingleProbe, Outstanding
<1> QED
  BY <1>1, <1>2, <1>3, <1>4, <1>5 DEF Next

(* When no call can outlive the cooldown, a HALF_OPEN breaker has exactly   *)
(* one call out, its probe, and the token is always held by a call that     *)
(* will report (acquire, record_success and record_failure).                *)
THEOREM ProbeProtocol ==
  ASSUME CallDeadline < Cooldown
  PROVE  Spec => []ProbeRules
<1>1. Init => BreakerInv
  BY BreakerInit
<1>2. BreakerInv /\ [Next]_vars => BreakerInv'
  BY BreakerNext
<1>3. BreakerInv => ProbeRules
  BY DEF BreakerInv, ProbeRules
<1> QED
  BY <1>1, <1>2, <1>3, PTL DEF Spec

-----------------------------------------------------------------------------
(* Sums over the window.  SumFunction is a recursive function over the     *)
(* subsets of a domain; what it returns is shown by a least counterexample.*)

Any(s) == CHOOSE x \in s : TRUE
Summed(f, g, s) == IF s = {} THEN 0 ELSE f[Any(s)] + g[s \ {Any(s)}]

(* A set of naturals has a least element. *)
LEMMA Least ==
  ASSUME NEW T \in SUBSET Nat, T # {}
  PROVE  \E m \in T : \A k \in T : m <= k
<1> DEFINE Below == {p \in Nat \X Nat : p[1] < p[2]}
<1>1. IsWellFoundedOn(Below, Nat)
  BY NatLessThanWellFounded DEF OpToRel
<1> HIDE DEF Below
<1>2. PICK m \in T : \A k \in T : <<k, m>> \notin Below
  BY <1>1, WFMin, Zenon
<1>3. ASSUME NEW k \in T PROVE m <= k
  <2>1. k \in Nat /\ m \in Nat
    OBVIOUS
  <2>2. <<k, m>> \in Below <=> k < m
    BY <2>1 DEF Below
  <2> QED BY <1>2, <2>1, <2>2
<1> QED BY <1>3

(* What fails of a subset only if it fails of that without one element,    *)
(* and not of the empty set, never fails.                                  *)
LEMMA NoLeastFailure ==
  ASSUME NEW S, IsFiniteSet(S), NEW B \in SUBSET SUBSET S, {} \notin B,
         \A s \in B : s \ {Any(s)} \in B
  PROVE  B = {}
<1> SUFFICES ASSUME B # {} PROVE FALSE
  OBVIOUS
<1>1. \A s \in B : IsFiniteSet(s) /\ Cardinality(s) \in Nat /\ s # {}
  BY FS_Subset, FS_CardinalityType
<1> DEFINE T == {Cardinality(s) : s \in B}
<1>2. T \in SUBSET Nat /\ T # {}
  BY <1>1
<1>3. PICK m \in T : \A k \in T : m <= k
  BY <1>2, Least
<1>4. PICK s \in B : m = Cardinality(s)
  BY <1>3
<1>5. Any(s) \in s
  BY <1>1, <1>4 DEF Any
<1>6. Cardinality(s \ {Any(s)}) = Cardinality(s) - 1
  BY <1>1, <1>4, <1>5, FS_RemoveElement
<1>7. s \ {Any(s)} \in B
  BY <1>4
<1>8. Cardinality(s \ {Any(s)}) \in T
  BY <1>7
<1> QED BY <1>1, <1>3, <1>4, <1>6, <1>8

(* The recursion has a solution on all subsets of a finite set. *)
LEMMA SumExists ==
  ASSUME NEW S, IsFiniteSet(S), NEW f \in [S -> Nat]
  PROVE  \E g : g = [s \in SUBSET S |-> Summed(f, g, s)]
<1> DEFINE Good(n) == \E g \in [SUBSET S -> Nat] :
                        \A s \in SUBSET S : Cardinality(s) <= n => g[s] = Summed(f, g, s)
           T == {n \in Nat : ~Good(n)}
<1>1. \A s \in SUBSET S : /\ IsFiniteSet(s) /\ Cardinality(s) \in Nat
                          /\ (Cardinality(s) = 0 <=> s = {})
                          /\ (s # {} => Any(s) \in s /\ Any(s) \in S)
                          /\ \A x \in s : Cardinality(s \ {x}) = Cardinality(s) - 1
  BY FS_Subset, FS_CardinalityType, FS_EmptySet, FS_RemoveElement DEF Any
<1>2. Good(0)
  <2> DEFINE g == [s \in SUBSET S |-> 0]
  <2>1. g \in [SUBSET S -> Nat]
    OBVIOUS
  <2>2. ASSUME NEW s \in SUBSET S, Cardinality(s) <= 0 PROVE g[s] = Summed(f, g, s)
    BY <1>1, <2>2 DEF Summed
  <2> QED BY <2>1, <2>2
<1>3. ASSUME NEW n \in Nat, Good(n) PROVE Good(n + 1)
  <2>1. PICK g \in [SUBSET S -> Nat] : \A s \in SUBSET S : Cardinality(s) <= n => g[s] = Summed(f, g, s)
    BY <1>3
  <2> DEFINE h == [s \in SUBSET S |-> Summed(f, g, s)]
  <2>2. \A s \in SUBSET S : Summed(f, g, s) \in Nat
    BY <1>1 DEF Summed
  <2>3. h \in [SUBSET S -> Nat]
    BY <2>2
  <2>4. ASSUME NEW s \in SUBSET S, Cardinality(s) <= n + 1 PROVE h[s] = Summed(f, h, s)
    <3>1. CASE s = {}
      BY <3>1 DEF Summed
    <3>2. CASE s # {}
      <4>1. Any(s) \in s /\ s \ {Any(s)} \in SUBSET S /\ Cardinality(s \ {Any(s)}) <= n
        BY <1>1, <2>4, <3>2
      <4>2. g[s \ {Any(s)}] = h[s \ {Any(s)}]
        BY <2>1, <4>1
      <4> QED BY <3>2, <4>2 DEF Summed
    <3> QED BY <3>1, <3>2
  <2> HIDE DEF h
  <2> QED BY <2>3, <2>4
<1> HIDE DEF Good
<1>4. T = {}
  <2> SUFFICES ASSUME T # {} PROVE FALSE
    OBVIOUS
  <2>1. PICK m \in T : \A k \in T : m <= k
    BY Least
  <2>2. m \in Nat /\ ~Good(m) /\ m # 0
    BY <1>2, <2>1
  <2>3. m - 1 \in Nat /\ Good(m - 1)
    BY <2>1, <2>2
  <2>4. Good((m - 1) + 1)
    BY <1>3, <2>3
  <2> QED BY <2>2, <2>4
<1>5. PICK g \in [SUBSET S -> Nat] :
        \A s \in SUBSET S : Cardinality(s) <= Cardinality(S) => g[s] = Summed(f, g, s)
  <2>1. Good(Cardinality(S))
    BY <1>1, <1>4
  <2> QED BY <2>1 DEF Good
<1>6. \A s \in SUBSET S : Cardinality(s) <= Cardinality(S)
  BY FS_Subset
<1>7. g = [s \in SUBSET S |-> Summed(f, g, s)]
  BY <1>5, <1>6
<1> QED BY <1>7

(* A sum of naturals is one, and a sum of zeros is zero. *)
LEMMA SumOfNaturals ==
  ASSUME NEW S, IsFiniteSet(S), NEW f \in [S -> Nat]
  PROVE  /\ SumFunction(f) \in Nat
         /\ (\A x \in S : f[x] = 0) => SumFunction(f) = 0
<1> DEFINE iter == CHOOSE g : g = [s \in SUBSET S |-> Summed(f, g, s)]
<1>1. SumFunction(f) = iter[S]
  <2>1. DOMAIN f = S
    OBVIOUS
  <2> QED BY <2>1 DEF SumFunction, SumFunctionOnSet, FoldFunctionOnSet, MapThenFoldSet, Summed, Any
<1>2. iter = [s \in SUBSET S |-> Summed(f, iter, s)]
  BY SumExists
<1> HIDE DEF iter
<1>3. PICK g : g = iter
  OBVIOUS
<1>4. g[{}] = 0
  <2>1. g[{}] = Summed(f, g, {})
    BY <1>2, <1>3
  <2> QED BY <2>1 DEF Summed
<1>5. ASSUME NEW s \in SUBSET S, s # {}
      PROVE  /\ Any(s) \in S /\ s \ {Any(s)} \in SUBSET S
             /\ f[Any(s)] \in Nat /\ g[s] = f[Any(s)] + g[s \ {Any(s)}]
  <2>1. Any(s) \in s
    BY <1>5 DEF Any
  <2>2. g[s] = Summed(f, g, s)
    BY <1>2, <1>3
  <2> QED BY <1>5, <2>1, <2>2 DEF Summed
<1>6. \A s \in SUBSET S : g[s] \in Nat
  <2> DEFINE B == {s \in SUBSET S : g[s] \notin Nat}
  <2>1. {} \notin B
    BY <1>4
  <2>2. ASSUME NEW s \in B PROVE s \ {Any(s)} \in B
    <3>1. s \in SUBSET S /\ s # {} /\ g[s] \notin Nat
      BY <2>1
    <3>2. PICK r : r = s \ {Any(s)}
      OBVIOUS
    <3>3. r \in SUBSET S /\ f[Any(s)] \in Nat /\ g[s] = f[Any(s)] + g[r]
      BY <1>5, <3>1, <3>2
    <3>4. g[r] \notin Nat
      BY <3>1, <3>3
    <3> QED BY <3>2, <3>3, <3>4
  <2> HIDE DEF B
  <2>3. B \in SUBSET SUBSET S
    BY DEF B
  <2>4. B = {}
    BY <2>1, <2>2, <2>3, NoLeastFailure
  <2> QED BY <2>4 DEF B
<1>7. ASSUME \A x \in S : f[x] = 0 PROVE \A s \in SUBSET S : g[s] = 0
  <2> DEFINE B == {s \in SUBSET S : g[s] # 0}
  <2>1. {} \notin B
    BY <1>4
  <2>2. ASSUME NEW s \in B PROVE s \ {Any(s)} \in B
    <3>1. s \in SUBSET S /\ s # {} /\ g[s] # 0
      BY <2>1
    <3>2. PICK r : r = s \ {Any(s)}
      OBVIOUS
    <3>3. r \in SUBSET S /\ Any(s) \in S /\ g[s] = f[Any(s)] + g[r] /\ g[r] \in Nat
      BY <1>5, <1>6, <3>1, <3>2
    <3>4. g[r] # 0
      BY <1>7, <3>1, <3>3
    <3> QED BY <3>2, <3>3, <3>4
  <2> HIDE DEF B
  <2>3. B \in SUBSET SUBSET S
    BY DEF B
  <2>4. B = {}
    BY <2>1, <2>2, <2>3, NoLeastFailure
  <2> QED BY <2>4 DEF B
<1> QED BY <1>1, <1>3, <1>6, <1>7

(* The p95 of n samples is one of them. *)
LEMMA P95InSamples ==
  ASSUME NEW n \in Nat \ {0}
  PROVE  P95Index(n) \in Int /\ P95Index(n) < n
<1> DEFINE m == 95 * (n - 1)
           q == m \div 100
           r == m % 100
<1>1. m \in Nat /\ q \in Int /\ r \in Int /\ m = 100 * q + r /\ 0 <= r /\ r < 100
  OBVIOUS
<1>2. P95Index(n) \in {q, q + 1}
  BY DEF P95Index
<1>3. n = 1 => P95Index(n) = 0
  BY DEF P95Index
<1> HIDE DEF m, q, r
<1>4. n > 1 => q + 1 < n
  BY <1>1 DEF m
<1>5. P95Index(n) \in Int
  BY <1>1, <1>2
<1> QED BY <1>1, <1>2, <1>3, <1>4, <1>5

NoFaults(w) == \A a \in Ages : w[a].errors = 0 /\ w[a].slow = 0

(* A window without errors and slow calls does not trip a breaker. *)
LEMMA NoFaultsNoTrip ==
  ASSUME NEW w \in [Ages -> Counts], NoFaults(w)
  PROVE  ~Trips(w)
<1>1. IsFiniteSet(Ages)
  BY BreakerAssumption, FS_Interval DEF Ages
<1>2. /\ [a \in Ages |-> w[a].all] \in [Ages -> Nat]
      /\ [a \in Ages |-> w[a].errors] \in [Ages -> Nat]
      /\ [a \in Ages |-> w[a].slow] \in [Ages -> Nat]
  BY DEF Counts
<1>3. Samples(w) \in Nat
  BY <1>1, <1>2, SumOfNaturals DEF Samples
<1>4. Errors(w) = 0
  BY <1>1, <1>2, SumOfNaturals DEF Errors, NoFaults
<1>5. Slow(w) = 0
  BY <1>1, <1>2, SumOfNaturals DEF Slow, NoFaults
<1>6. PICK n : n = Samples(w)
  OBVIOUS
<1>7. n \in Nat /\ n >= MinSamples => n \in Nat \ {0} /\ ErrorRatePct * n > 0
  BY BreakerAssumption
<1> QED BY <1>3, <1>4, <1>5, <1>6, <1>7, P95InSamples, BreakerAssumption DEF Trips

-----------------------------------------------------------------------------
(* No trip on old faults.                                                  *)

Nothing == [all |-> 0, errors |-> 0, slow |-> 0]

(* What an open breaker has recorded since it opened is from calls it      *)
(* admitted before, and so at most CallDeadline younger than the trip; by  *)
(* the end of the cooldown it has left the window.  A closed breaker has   *)
(* faults in its window only if it had one since its probe.                *)
FaultInv ==
  /\ state = "OPEN" => \A a \in Ages : records[a] # Nothing => a + CallDeadline >= openedFor
  /\ state = "HALF_OPEN" => \A a \in Ages : records[a] = Nothing
  /\ state = "CLOSED" /\ ~faulted => NoFaults(records)

(* A sample is appended to the newest ones. *)
LEMMA AppendedNewest ==
  ASSUME TypeOK, NEW error \in BOOLEAN, NEW slow \in BOOLEAN
  PROVE  /\ 0 \in Ages /\ \A a \in Ages \ {0} : Appended(error, slow)[a] = records[a]
         /\ Appended(error, slow)[0].errors = records[0].errors + (IF error THEN 1 ELSE 0)
         /\ Appended(error, slow)[0].slow = records[0].slow + (IF slow THEN 1 ELSE 0)
<1>1. 0 \in Ages
  BY BreakerAssumption DEF Ages
<1> QED BY <1>1 DEF Appended, TypeOK

(* The probe is admitted when the window is empty. *)
LEMMA AcquireFaults ==
  ASSUME Window + CallDeadline < Cooldown, TypeOK, FaultInv, NEW c \in Callers, Acquire(c)
  PROVE  FaultInv' /\ ~(state = "CLOSED" /\ state' = "OPEN")
<1>1. UNCHANGED <<records, openedFor, faulted>> /\ state' = AfterCooldown
  BY DEF Acquire
<1>2. CASE state' = state
  BY <1>1, <1>2 DEF FaultInv, NoFaults
<1>3. CASE state' # state
  <2>1. state = "OPEN" /\ state' = "HALF_OPEN" /\ openedFor >= Cooldown
    BY <1>1, <1>3 DEF AfterCooldown
  <2>2. ASSUME NEW a \in Ages PROVE records[a] = Nothing
    <3>1. a \in Nat /\ a <= Window /\ ~(a + CallDeadline >= openedFor)
      BY <2>1, BreakerAssumption DEF Ages, TypeOK, Never
    <3> QED BY <2>1, <3>1 DEF FaultInv
  <2> QED BY <1>1, <2>1, <2>2 DEF FaultInv
<1> QED BY <1>2, <1>3

(* Only a report trips a closed breaker, and not without a fault. *)
LEMMA ReportFaults ==
  ASSUME BreakerInv, FaultInv, NEW c \in Callers, NEW error \in BOOLEAN, NEW slow \in BOOLEAN,
         Report(c, error, slow)
  PROVE  FaultInv' /\ (state = "CLOSED" /\ state' = "OPEN" => faulted')
<1> USE DEF BreakerInv
<1>1. records' = Appended(error, slow) /\ calls[c] # Idle
  BY DEF Report
<1>2. records' \in [Ages -> Counts]
  BY <1>1, AppendedType DEF TypeOK
<1>3. /\ 0 \in Ages /\ \A a \in Ages \ {0} : records'[a] = records[a]
      /\ records'[0].errors = records[0].errors + (IF error THEN 1 ELSE 0)
      /\ records'[0].slow = records[0].slow + (IF slow THEN 1 ELSE 0)
  BY <1>1, AppendedNewest
<1>4. CASE state = "HALF_OPEN"
  <2>1. probe
    BY <1>4 DEF ProbeIsHeld
  <2>2. \/ error /\ state' = "OPEN" /\ openedFor' = 0
        \/ ~error /\ state' = "CLOSED" /\ faulted' = slow
    BY <1>4, <2>1 DEF Report, RecordSuccess, RecordFailure
  <2>3. CASE state' = "OPEN" /\ openedFor' = 0
    BY <1>4, <2>3, BreakerAssumption DEF FaultInv, Ages
  <2>4. CASE ~error /\ state' = "CLOSED" /\ faulted' = slow
    <3>1. \A a \in Ages : records[a].errors = 0 /\ records[a].slow = 0
      BY <1>4 DEF FaultInv, Nothing
    <3>2. ~slow => NoFaults(records')
      BY <1>3, <2>4, <3>1 DEF NoFaults
    <3> QED BY <1>4, <2>4, <3>2 DEF FaultInv, NoFaults
  <2> QED BY <1>4, <2>2, <2>3, <2>4
<1>5. CASE state = "OPEN"
  <2>1. state' = "OPEN" /\ openedFor' = openedFor
    BY <1>5 DEF Report, RecordSuccess, RecordFailure, MaybeTrip
  <2>2. CallDeadline >= openedFor
    <3>1. calls[c] >= openedFor /\ calls[c] <= CallDeadline /\ calls[c] \in Int /\ openedFor \in Int
      BY <1>1, <1>5, BreakerAssumption DEF OpenAdmitsNobody, Outstanding, TypeOK, Idle, Never
    <3> QED BY <3>1, BreakerAssumption
  <2>3. \A a \in Ages : records'[a] # Nothing => a + CallDeadline >= openedFor
    BY <1>3, <1>5, <2>2, BreakerAssumption DEF FaultInv
  <2> QED BY <1>5, <2>1, <2>3 DEF FaultInv
<1>6. CASE state = "CLOSED"
  <2>1. MaybeTrip(records')
    BY <1>6 DEF Report, RecordSuccess, RecordFailure
  <2>2. faulted' = (faulted \/ error \/ slow)
    BY <1>6 DEF Report
  <2>3. ~faulted' => NoFaults(records')
    BY <1>3, <1>6, <2>2 DEF FaultInv, NoFaults, TypeOK, Counts
  <2>4. CASE state' = "OPEN" /\ openedFor' = 0 /\ Trips(records')
    <3>1. faulted'
      BY <1>2, <2>3, <2>4, NoFaultsNoTrip
    <3> QED BY <2>4, <3>1, BreakerAssumption DEF FaultInv, Ages
  <2>5. CASE UNCHANGED <<state, openedFor>>
    BY <1>6, <2>3, <2>5 DEF FaultInv, NoFaults
  <2> QED BY <1>6, <2>1, <2>4, <2>5 DEF MaybeTrip
<1> QED BY <1>4, <1>5, <1>6 DEF TypeOK

(* The window ages at least as fast as the trip. *)
LEMMA TickFaults ==
  ASSUME TypeOK, FaultInv, Tick
  PROVE  FaultInv'
<1>1. UNCHANGED <<state, faulted>> /\ openedFor' <= openedFor + 1 /\ openedFor' \in Int
  BY BreakerAssumption DEF Tick, TypeOK, Never
<1>2. ASSUME NEW a \in Ages
      PROVE  \/ records'[a] = Nothing
             \/ a - 1 \in Ages /\ records'[a] = records[a - 1]
  <2>1. records' = Aged
    BY DEF Tick
  <2>2. records'[a] = IF a = 0 THEN Nothing ELSE records[a - 1]
    BY <2>1 DEF Aged, Nothing
  <2>3. a # 0 => a - 1 \in Ages
    BY BreakerAssumption DEF Ages
  <2> QED BY <2>2, <2>3
<1>3. state = "OPEN" => \A a \in Ages : records'[a] # Nothing => a + CallDeadline >= openedFor'
  BY <1>1, <1>2, BreakerAssumption DEF FaultInv, Ages, TypeOK, Never
<1>4. NoFaults(records) => NoFaults(records')
  BY <1>2 DEF NoFaults, Nothing
<1> QED BY <1>1, <1>2, <1>3, <1>4 DEF FaultInv, NoFaults

(* A breaker its probe closed trips again only on a call that failed or    *)
(* was slow since (record_success, _maybe_trip_locked): what it recorded   *)
(* of the outage has left its window, where a call and the window together *)
(* are shorter than the cooldown, as on the LLM tier.                      *)
THEOREM NoTripOnOldFaults ==
  ASSUME Window + CallDeadline < Cooldown
  PROVE  Spec => RetripNeedsNewFault
<1>1. CallDeadline < Cooldown
  BY BreakerAssumption
<1>2. Init => BreakerInv /\ FaultInv
  BY BreakerInit DEF Init, FaultInv, NoFaults
<1>3. BreakerInv /\ FaultInv /\ [Next]_vars
        => (BreakerInv /\ FaultInv)' /\ [state = "CLOSED" /\ state' = "OPEN" => faulted']_vars
  <2> SUFFICES ASSUME BreakerInv, FaultInv, [Next]_vars
               PROVE  FaultInv' /\ [state = "CLOSED" /\ state' = "OPEN" => faulted']_vars
    BY <1>1, BreakerNext
  <2>1. ASSUME NEW c \in Callers, Acquire(c)
        PROVE  FaultInv' /\ (state = "CLOSED" /\ state' = "OPEN" => faulted')
    BY <2>1, AcquireFaults DEF BreakerInv
  <2>2. ASSUME NEW c \in Callers, NEW error \in BOOLEAN, NEW slow \in BOOLEAN,
               Report(c, error, slow)
        PROVE  FaultInv' /\ (state = "CLOSED" /\ state' = "OPEN" => faulted')
    BY <2>2, ReportFaults
  <2>3. CASE Tick
    BY <2>3, TickFaults DEF BreakerInv, Tick
  <2>4. CASE HealthChanges \/ UNCHANGED vars
    BY <2>4 DEF HealthChanges, vars, FaultInv, NoFaults
  <2> QED BY <2>1, <2>2, <2>3, <2>4 DEF Next
<1> QED BY <1>2, <1>3, PTL DEF Spec, RetripNeedsNewFault

-----------------------------------------------------------------------------
(* The gateway calls of a rollout.                                         *)

Letters == [call : Calls, kind : {"live", "orphan"}]
Routes == [live : BOOLEAN, able : BOOLEAN, level : Nat, real : {"none", "ok", "error"},
           stub : {"none", "ok", "raised"}]
Breakers == [state : {"closed", "open", "half"}, samples : 0..MinSamples, probe : BOOLEAN]
Executing == {"queued", "running", "logging", "letters", "returned"}

WorldOK ==
  /\ R!TypeOK /\ setting \in Settings /\ run \in 0..Len(setting.runs)
  /\ dlq \in Seq(Letters) /\ slowCalls \subseteq Calls
  /\ route \in [Calls -> Routes] /\ breaker \in [R!Gateways -> Breakers]

(* A call is begun once, in its run, and has a worker, or a place in the   *)
(* queue, only while its caller waits or has given up.                     *)
LifeFits(c) ==
  /\ caller[c] = "none" <=> \A i \in DOMAIN setting.runs : i <= run => c \notin setting.runs[i]
  /\ caller[c] \in {"none", "begun"} => worker[c] = "none"
  /\ caller[c] = "UNAVAILABLE" => worker[c] \in {"none", "gone"}
  /\ caller[c] = "waiting" => worker[c] \in Executing
  /\ worker[c] \in Executing => caller[c] \in {"waiting", "TIMEOUT"}

(* A call has no letters before there is something to tell, then its one.  *)
CountOf(d, y) == R!Cardinality({i \in DOMAIN d : d[i] = y})
Filed(c, kind) == CountOf(dlq, R!Letter(c, kind))
Effectful(c) == Asks[c].effect /\ Asks[c].gateway = "oms"
LettersFit(c) ==
  /\ worker[c] \notin {"returned", "done", "gone"} => Filed(c, "live") = 0
  /\ worker[c] \in {"returned", "done"} =>
       Filed(c, "live") = (IF route[c].real = "error" THEN 1 ELSE 0)
  /\ caller[c] \in {"none", "begun", "waiting"} => Filed(c, "orphan") = 0
  /\ Effectful(c) /\ worker[c] # "gone" /\ caller[c] \in R!Told \ {"SUCCESS"} =>
       Filed(c, "orphan") = 1

(* A call went live if its gateway was able and its case below the level.  *)
RouteFits(c) ==
  /\ route[c].able => Asks[c].case # NoCase
  /\ route[c].live <=> route[c].able /\ Slot[Asks[c].case] < route[c].level

CallFits(c) == LifeFits(c) /\ LettersFit(c) /\ RouteFits(c)

(* A call's clocks stop at its limit and start with its submission and     *)
(* with its worker.                                                        *)
TimesFit(c) ==
  /\ callAge[c] \in 0..R!Limit(c) /\ worked[c] \in 0..R!Limit(c)
  /\ caller[c] \in {"none", "begun"} => callAge[c] = 0
  /\ caller[c] \in {"none", "begun"} \/ worker[c] = "queued" => worked[c] = 0

(* While the pool is not crowded and no call has outlasted its limit, time *)
(* passes for a call only with a worker: nobody is given up.               *)
Quiet == ~crowded /\ \A d \in Calls : ~R!Outlasted(d)
Prompt(c) ==
  /\ caller[c] = "TIMEOUT" => worker[c] = "gone"
  /\ caller[c] = "waiting" /\ worker[c] = "queued" => callAge[c] = 0
  /\ caller[c] = "waiting" /\ c \in R!Running => worked[c] = callAge[c]
TimeFits ==
  /\ callAge \in [Calls -> Nat] /\ worked \in [Calls -> Nat]
  /\ \A c \in Calls : TimesFit(c)
  /\ Quiet => \A c \in Calls : Prompt(c)

RolloutInv ==
  /\ R!RolloutAssumption /\ WorldOK /\ \A c \in Calls : CallFits(c)
  /\ R!ProbeIsAwaited /\ TimeFits

(* The module's cardinalities are the library's. *)
LEMMA SameCardinality ==
  ASSUME NEW T
  PROVE  R!Cardinality(T) = Cardinality(T)
BY DEF R!Cardinality, Cardinality

(* A letter counts for its own call and kind. *)
LEMMA FiledAppend ==
  ASSUME NEW d \in Seq(Letters), NEW x \in Letters, NEW y
  PROVE  CountOf(Append(d, x), y) = CountOf(d, y) + (IF x = y THEN 1 ELSE 0)
<1> DEFINE old == {i \in DOMAIN d : d[i] = y}
           new == {i \in DOMAIN Append(d, x) : Append(d, x)[i] = y}
<1>1. /\ DOMAIN d = 1..Len(d) /\ Len(d) \in Nat /\ DOMAIN Append(d, x) = 1..(Len(d) + 1)
      /\ Append(d, x)[Len(d) + 1] = x /\ \A i \in 1..Len(d) : Append(d, x)[i] = d[i]
  OBVIOUS
<1>2. IsFiniteSet(old) /\ Len(d) + 1 \notin old
  <2>1. IsFiniteSet(1..Len(d))
    <3>1. PICK n : n = Len(d)
      OBVIOUS
    <3>2. n \in Int /\ 1 \in Int
      BY <1>1, <3>1
    <3>3. IsFiniteSet(1..n)
      BY ONLY <3>2, FS_Interval
    <3> QED BY <3>1, <3>3
  <2>2. old \subseteq 1..Len(d)
    BY <1>1
  <2> QED BY <1>1, <2>1, <2>2, FS_Subset
<1>3. new = IF x = y THEN old \cup {Len(d) + 1} ELSE old
  BY <1>1
<1>4. Cardinality(old \cup {Len(d) + 1}) = Cardinality(old) + 1 /\ Cardinality(old) \in Nat
  BY <1>2, FS_AddElement, FS_CardinalityType
<1> HIDE DEF old, new
<1>5. Cardinality(new) = Cardinality(old) + (IF x = y THEN 1 ELSE 0)
  BY <1>3, <1>4
<1> QED BY <1>5, SameCardinality DEF old, new, CountOf

(* An empty queue has no letters. *)
LEMMA NothingFiled ==
  ASSUME dlq = <<>>, NEW c, NEW kind
  PROVE  Filed(c, kind) = 0
<1>1. {i \in DOMAIN dlq : dlq[i] = R!Letter(c, kind)} = {}
  OBVIOUS
<1> QED BY <1>1, SameCardinality, FS_EmptySet DEF Filed, CountOf

(* A call that a step leaves alone still fits. *)
LEMMA OthersFit ==
  ASSUME NEW d \in Calls, CallFits(d), UNCHANGED <<setting, run>>,
         caller'[d] = caller[d], worker'[d] = worker[d], route'[d] = route[d],
         \A kind \in {"live", "orphan"} : Filed(d, kind)' = Filed(d, kind)
  PROVE  CallFits(d)'
BY DEF CallFits, LifeFits, LettersFit, RouteFits, Effectful

(* Letters are counted in naturals. *)
LEMMA FiledTyped ==
  ASSUME WorldOK
  PROVE  \A d \in Calls, kind \in {"live", "orphan"} : Filed(d, kind) \in Nat
<1> SUFFICES ASSUME NEW d \in Calls, NEW kind \in {"live", "orphan"} PROVE Filed(d, kind) \in Nat
  OBVIOUS
<1>1. dlq \in Seq(Letters)
  BY DEF WorldOK
<1>2. IsFiniteSet(1..Len(dlq)) /\ DOMAIN dlq = 1..Len(dlq)
  BY <1>1, FS_Interval
<1>3. IsFiniteSet({i \in DOMAIN dlq : dlq[i] = R!Letter(d, kind)})
  BY <1>2, FS_Subset
<1> QED BY <1>3, FS_CardinalityType, SameCardinality DEF Filed, CountOf

(* What a caller is told, and its orphan's letter. *)
LEMMA AnswersFile ==
  ASSUME WorldOK, NEW c \in Calls, NEW status \in R!Told, R!Answers(c, status)
  PROVE  /\ dlq' \in Seq(Letters)
         /\ caller' \in [Calls -> R!Told \cup {"none", "begun", "waiting", "lost"}]
         /\ caller'[c] = status /\ \A d \in Calls \ {c} : caller'[d] = caller[d]
         /\ \A d \in Calls, kind \in {"live", "orphan"} :
              Filed(d, kind)' = Filed(d, kind)
                                + (IF d = c /\ kind = "orphan" /\ R!Orphaned(c, status) THEN 1 ELSE 0)
<1>1. caller' = [caller EXCEPT ![c] = status]
  BY DEF R!Answers
<1>2. caller \in [Calls -> R!Told \cup {"none", "begun", "waiting", "lost"}]
  BY DEF WorldOK, R!TypeOK
<1>3. dlq \in Seq(Letters) /\ R!Letter(c, "orphan") \in Letters
  BY DEF WorldOK, R!Letter, Letters
<1>4. \A d \in Calls, kind \in {"live", "orphan"} :
        Filed(d, kind) \in Nat /\ (R!Letter(d, kind) = R!Letter(c, "orphan") <=> d = c /\ kind = "orphan")
  BY FiledTyped DEF R!Letter
<1>5. CASE R!Orphaned(c, status)
  <2>1. dlq' = Append(dlq, R!Letter(c, "orphan"))
    BY <1>5 DEF R!Answers
  <2>2. dlq' \in Seq(Letters)
    BY <1>3, <2>1
  <2>3. \A d \in Calls, kind \in {"live", "orphan"} :
          Filed(d, kind)' = Filed(d, kind)
                            + (IF R!Letter(c, "orphan") = R!Letter(d, kind) THEN 1 ELSE 0)
    <3> SUFFICES ASSUME NEW d \in Calls, NEW kind \in {"live", "orphan"}
                 PROVE  Filed(d, kind)' = Filed(d, kind)
                          + (IF R!Letter(c, "orphan") = R!Letter(d, kind) THEN 1 ELSE 0)
      OBVIOUS
    <3>1. PICK x, y : x = R!Letter(c, "orphan") /\ y = R!Letter(d, kind)
      OBVIOUS
    <3>2. Filed(d, kind) = CountOf(dlq, y)
      BY <3>1 DEF Filed
    <3>3. Filed(d, kind)' = CountOf(Append(dlq, x), y)
      <4>1. Filed(d, kind)' = CountOf(dlq', R!Letter(d, kind))
        BY DEF Filed, R!Letter, CountOf
      <4> QED BY <2>1, <3>1, <4>1
    <3> QED BY <1>3, <3>1, <3>2, <3>3, FiledAppend
  <2>4. \A d \in Calls, kind \in {"live", "orphan"} :
          Filed(d, kind)' = Filed(d, kind)
                            + (IF d = c /\ kind = "orphan" /\ R!Orphaned(c, status) THEN 1 ELSE 0)
    BY <1>4, <1>5, <2>3
  <2> QED BY <1>1, <1>2, <2>2, <2>4
<1>6. CASE ~R!Orphaned(c, status)
  <2>1. dlq' = dlq
    BY <1>6 DEF R!Answers
  <2>2. \A d \in Calls, kind \in {"live", "orphan"} : Filed(d, kind)' = Filed(d, kind)
    BY <2>1 DEF Filed, R!Letter
  <2> QED BY <1>1, <1>2, <1>3, <1>4, <1>6, <2>1, <2>2
<1> QED BY <1>5, <1>6

(* Whatever is reported, the breaker's probe is over. *)
LEMMA ReportedFits ==
  ASSUME RolloutInv, NEW c \in Calls, NEW failed, R!Reported(c, failed)
  PROVE  /\ breaker' \in [R!Gateways -> Breakers]
         /\ ~breaker'[Asks[c].gateway].probe
         /\ \A g \in R!Gateways \ {Asks[c].gateway} : breaker'[g] = breaker[g]
<1> DEFINE g == Asks[c].gateway
           b == breaker[g]
           counted == [b EXCEPT !.samples = IF @ < MinSamples THEN @ + 1 ELSE @]
<1>1. g \in R!Gateways /\ b \in Breakers /\ breaker \in [R!Gateways -> Breakers] /\ MinSamples \in Nat
  BY DEF RolloutInv, WorldOK, R!Gateways, R!RolloutAssumption
<1>2. b.probe => b.state = "half"
  BY <1>1 DEF RolloutInv, R!ProbeIsAwaited
<1>3. PICK n \in R!Outcomes(b, failed) : breaker' = [breaker EXCEPT ![g] = n]
  BY DEF R!Reported
<1>4. counted \in Breakers /\ counted.probe = b.probe /\ counted.state = b.state
  BY <1>1 DEF Breakers
<1>5. n \in Breakers /\ ~n.probe
  <2>1. CASE b.state = "half" /\ b.probe
    <3>1. n = [counted EXCEPT !.state = IF failed THEN "open" ELSE "closed", !.probe = FALSE]
      BY <1>3, <2>1 DEF R!Outcomes
    <3> HIDE DEF counted
    <3> QED BY <1>4, <3>1 DEF Breakers
  <2>2. CASE ~(b.state = "half" /\ b.probe)
    <3>1. n \in {counted, [counted EXCEPT !.state = "open"]}
      BY <1>3, <2>2 DEF R!Outcomes
    <3> HIDE DEF counted
    <3> QED BY <1>2, <1>4, <2>2, <3>1 DEF Breakers
  <2> QED BY <2>1, <2>2
<1> QED BY <1>1, <1>3, <1>5

(* The pool's workers are as many as the calls they execute. *)
LEMMA PoolFits ==
  ASSUME RolloutInv, R!Running' \subseteq R!Running
  PROVE  (R!Cardinality(R!Running) <= Workers)'
<1>1. IsFiniteSet(R!Running) /\ R!Running \subseteq Calls
  <2>1. IsFiniteSet(Calls) /\ R!Running \subseteq Calls
    BY DEF RolloutInv, R!RolloutAssumption, R!Running, R!IsFiniteSet, IsFiniteSet
  <2> QED BY <2>1, FS_Subset
<1>2. Cardinality(R!Running) <= Workers
  BY SameCardinality DEF RolloutInv, WorldOK, R!TypeOK
<1>3. PICK T : T = R!Running'
  OBVIOUS
<1>4. IsFiniteSet(T) /\ Cardinality(T) <= Cardinality(R!Running)
  BY <1>1, <1>3, FS_Subset
<1>5. Cardinality(T) \in Nat /\ Cardinality(R!Running) \in Nat /\ Workers \in Nat
  BY <1>1, <1>4, FS_CardinalityType DEF RolloutInv, R!RolloutAssumption
<1>6. Cardinality(T) <= Workers
  BY <1>2, <1>4, <1>5
<1>7. R!Cardinality(T) <= Workers
  BY <1>6, SameCardinality
<1> QED BY <1>3, <1>7

(* What the world's parts are. *)
LEMMA WorldFacts ==
  ASSUME WorldOK
  PROVE  /\ caller \in [Calls -> R!Told \cup {"none", "begun", "waiting", "lost"}]
         /\ worker \in [Calls -> Executing \cup {"none", "done", "gone"}]
         /\ route \in [Calls -> Routes] /\ breaker \in [R!Gateways -> Breakers]
         /\ slowCalls \subseteq Calls
         /\ dlq \in Seq(Letters) /\ setting \in Settings /\ run \in 0..Len(setting.runs)
         /\ \A c \in Calls : Asks[c].gateway \in R!Gateways
BY DEF WorldOK, R!TypeOK, R!Gateways, Executing

(* The world and the pool after a step that moves no call to a worker. *)
LEMMA WorldKeeps ==
  ASSUME RolloutInv, UNCHANGED <<setting, run>>, level' \in 0..Slots,
         caller' \in [Calls -> R!Told \cup {"none", "begun", "waiting", "lost"}],
         worker' \in [Calls -> Executing \cup {"none", "done", "gone"}],
         R!Running' \subseteq R!Running,
         route' \in [Calls -> Routes], breaker' \in [R!Gateways -> Breakers],
         slowCalls' \subseteq Calls, dlq' \in Seq(Letters)
  PROVE  WorldOK'
<1>1. \A g \in R!Gateways : /\ breaker'[g].state \in {"closed", "open", "half"}
                            /\ breaker'[g].samples \in 0..MinSamples
  BY DEF Breakers
<1>2. (R!Cardinality(R!Running) <= Workers)'
  BY PoolFits
<1>3. R!TypeOK'
  BY <1>1, <1>2 DEF R!TypeOK, Executing, R!Gateways, R!Told
<1> QED BY <1>3 DEF WorldOK, RolloutInv, R!Gateways, Breakers, Routes, Letters

(* A step of one call keeps the invariant if it does for that call. *)
LEMMA CallKeeps ==
  ASSUME RolloutInv, NEW c \in Calls, UNCHANGED <<setting, run>>, WorldOK', CallFits(c)',
         \A d \in Calls \ {c} : /\ caller'[d] = caller[d] /\ worker'[d] = worker[d]
                                /\ route'[d] = route[d]
                                /\ \A kind \in {"live", "orphan"} : Filed(d, kind)' = Filed(d, kind),
         R!ProbeIsAwaited', TimeFits'
  PROVE  RolloutInv'
<1>1. \A d \in Calls : CallFits(d)'
  BY OthersFit DEF RolloutInv
<1>2. R!RolloutAssumption'
  BY DEF RolloutInv, R!RolloutAssumption, R!Gateways
<1> QED BY <1>1, <1>2 DEF RolloutInv

(* Limits are positive. *)
LEMMA LimitType ==
  ASSUME R!RolloutAssumption, NEW c \in Calls
  PROVE  R!Limit(c) \in Nat \ {0}
BY DEF R!RolloutAssumption, R!Limit

(* A step that leaves the clocks keeps them if it does for its call. *)
LEMMA ClockKeeps ==
  ASSUME RolloutInv, NEW c \in Calls, UNCHANGED <<callAge, worked, crowded>>,
         \A d \in Calls \ {c} : caller'[d] = caller[d] /\ worker'[d] = worker[d],
         worker'[c] = "gone" => worker[c] = "gone",
         TimesFit(c)', Quiet => Prompt(c)'
  PROVE  TimeFits'
<1>1. callAge' \in [Calls -> Nat] /\ worked' \in [Calls -> Nat]
  BY DEF RolloutInv, TimeFits
<1>2. ASSUME NEW d \in Calls PROVE TimesFit(d)'
  <2>1. TimesFit(d)
    BY DEF RolloutInv, TimeFits
  <2> QED BY <2>1 DEF TimesFit, R!Limit
<1>3. Quiet' => Quiet
  BY DEF Quiet, R!Outlasted, R!Limit
<1>4. ASSUME Quiet, NEW d \in Calls PROVE Prompt(d)'
  <2>1. Prompt(d)
    BY <1>4 DEF RolloutInv, TimeFits
  <2> QED BY <1>4, <2>1 DEF Prompt, R!Running
<1> QED BY <1>1, <1>2, <1>3, <1>4 DEF TimeFits

(* A step that moves neither callers nor workers keeps the clocks. *)
LEMMA TimesStay ==
  ASSUME TimeFits, UNCHANGED <<callAge, worked, crowded, caller, worker>>
  PROVE  TimeFits'
BY DEF TimeFits, TimesFit, Prompt, Quiet, R!Outlasted, R!Limit, R!Running

(* So a worker may go on with its call, or end it. *)
LEMMA WorkerMoves ==
  ASSUME RolloutInv, NEW c \in Calls, UNCHANGED <<callAge, worked, crowded, caller>>,
         NEW w, worker' = [worker EXCEPT ![c] = w], w \notin {"queued", "gone"}, worker[c] # "gone",
         w \in {"running", "logging", "letters"} => worker[c] \in {"running", "logging", "letters"}
  PROVE  TimeFits'
<1>1. worker'[c] = w /\ \A d \in Calls \ {c} : worker'[d] = worker[d]
  BY WorldFacts DEF RolloutInv
<1>2. TimesFit(c)'
  <2>1. TimesFit(c)
    BY DEF RolloutInv, TimeFits
  <2> QED BY <1>1, <2>1 DEF TimesFit, R!Limit
<1>3. Quiet => Prompt(c)'
  <2> SUFFICES ASSUME Quiet PROVE Prompt(c)'
    OBVIOUS
  <2>1. Prompt(c)
    BY DEF RolloutInv, TimeFits
  <2> QED BY <1>1, <2>1 DEF Prompt, R!Running
<1> QED BY <1>1, <1>2, <1>3, ClockKeeps

(* A letterless step leaves every count. *)
LEMMA FiledStays ==
  ASSUME UNCHANGED dlq
  PROVE  \A d \in Calls, kind \in {"live", "orphan"} : Filed(d, kind)' = Filed(d, kind)
BY DEF Filed, CountOf, R!Letter

(* A breaker admits a call, as its probe or beside others, or refuses it. *)
LEMMA AcquireKeeps ==
  ASSUME RolloutInv, NEW c \in Calls, R!Acquire(c)
  PROVE  RolloutInv'
<1> DEFINE g == Asks[c].gateway
           b == breaker[g]
           admits == b.state = "closed" \/ (b.state = "half" /\ ~b.probe)
<1> USE WorldFacts DEF RolloutInv
<1>1. /\ caller[c] = "begun" /\ UNCHANGED <<setting, level, run, slowCalls, route, callAge, worked, crowded>>
      /\ g \in R!Gateways /\ b \in Breakers /\ level \in 0..Slots
  BY DEF R!clock, R!Acquire, WorldOK, R!TypeOK
<1>2. CallFits(c) /\ worker[c] = "none"
  BY <1>1 DEF CallFits, LifeFits
<1>3. CASE admits
  <2>1. /\ caller' = [caller EXCEPT ![c] = "waiting"] /\ worker' = [worker EXCEPT ![c] = "queued"]
        /\ UNCHANGED dlq
        /\ breaker' = IF b.state = "half" THEN [breaker EXCEPT ![g].probe = TRUE] ELSE breaker
    BY <1>3 DEF R!Acquire
  <2>2. /\ breaker' \in [R!Gateways -> Breakers]
        /\ \A h \in R!Gateways : breaker'[h].probe => /\ breaker'[h].state = breaker[h].state
                                                      /\ h # g => breaker[h].probe
                                                      /\ h = g => breaker[g].state = "half"
    <3>1. CASE b.state = "half"
      <4>1. [b EXCEPT !.probe = TRUE] \in Breakers /\ [b EXCEPT !.probe = TRUE].state = b.state
        BY <1>1 DEF Breakers
      <4>2. breaker' = [breaker EXCEPT ![g] = [b EXCEPT !.probe = TRUE]]
        BY <2>1, <3>1
      <4> QED BY <1>1, <3>1, <4>1, <4>2
    <3>2. CASE b.state # "half"
      BY <1>1, <1>3, <2>1, <3>2 DEF R!ProbeIsAwaited
    <3> QED BY <3>1, <3>2
  <2>3. WorldOK'
    <3>1. R!Running' \subseteq R!Running
      BY <1>2, <2>1 DEF R!Running
    <3> QED BY <1>1, <2>1, <2>2, <3>1, WorldKeeps DEF Executing
  <2>4. \A d \in Calls, kind \in {"live", "orphan"} : Filed(d, kind)' = Filed(d, kind)
    BY <2>1, FiledStays
  <2>5. CallFits(c)'
    <3>1. caller'[c] = "waiting" /\ worker'[c] = "queued"
      BY <2>1
    <3>2. LifeFits(c)'
      BY <1>1, <1>2, <3>1 DEF CallFits, LifeFits, Executing
    <3>3. LettersFit(c)'
      BY <1>1, <1>2, <2>4, <3>1 DEF CallFits, LettersFit, R!Told
    <3>4. RouteFits(c)'
      BY <1>1, <1>2 DEF CallFits, RouteFits
    <3> QED BY <3>2, <3>3, <3>4 DEF CallFits
  <2>6. R!ProbeIsAwaited'
    <3>1. R!Waiting \subseteq R!Waiting' /\ c \in R!Waiting'
      BY <1>1, <2>1 DEF R!Waiting
    <3> QED BY <1>1, <2>2, <3>1 DEF R!ProbeIsAwaited, R!Gateways
  <2> HIDE DEF RolloutInv
  <2>7. TimeFits'
    <3>1. caller'[c] = "waiting" /\ worker'[c] = "queued"
      BY <1>1, <2>1, WorldFacts DEF RolloutInv
    <3>2. TimesFit(c)
      BY DEF RolloutInv, TimeFits
    <3>3. callAge[c] = 0 /\ worked[c] = 0
      BY <1>1, <3>2 DEF TimesFit
    <3>4. TimesFit(c)'
      BY <1>1, <3>1, <3>2, <3>3 DEF TimesFit, R!Limit
    <3>5. Prompt(c)'
      BY <1>1, <3>1, <3>3 DEF Prompt, R!Running
    <3>6. \A d \in Calls \ {c} : caller'[d] = caller[d] /\ worker'[d] = worker[d]
      BY <2>1
    <3> QED BY <1>1, <3>1, <3>4, <3>5, <3>6, ClockKeeps
  <2> QED BY <1>1, <2>1, <2>3, <2>4, <2>5, <2>6, <2>7, CallKeeps
<1>4. CASE ~admits
  <2>1. R!Answers(c, "UNAVAILABLE") /\ UNCHANGED <<worker, breaker>> /\ "UNAVAILABLE" \in R!Told
    BY <1>4 DEF R!Acquire, R!Told
  <2>2. WorldOK'
    <3>1. R!Running' \subseteq R!Running
      BY <2>1 DEF R!Running
    <3> QED BY <1>1, <2>1, <3>1, WorldKeeps, AnswersFile
  <2>3. CallFits(c)'
    <3>1. caller'[c] = "UNAVAILABLE" /\ worker'[c] = "none" /\ Filed(c, "live")' = Filed(c, "live")
          /\ (Effectful(c) => Filed(c, "orphan")' = 1)
      <4>1. Effectful(c) => R!Orphaned(c, "UNAVAILABLE")
        BY DEF Effectful, R!Orphaned
      <4>2. Filed(c, "orphan") = 0 /\ Filed(c, "live") = 0
        BY <1>1, <1>2 DEF CallFits, LettersFit
      <4>3. caller'[c] = "UNAVAILABLE" /\ worker'[c] = "none"
        BY <1>2, <2>1, AnswersFile
      <4>4. /\ Filed(c, "live")' = Filed(c, "live")
            /\ Effectful(c) => Filed(c, "orphan")' = Filed(c, "orphan") + 1
        BY <2>1, <4>1, <4>2, AnswersFile
      <4> QED BY <4>2, <4>3, <4>4
    <3>2. LifeFits(c)'
      BY <1>1, <1>2, <3>1 DEF CallFits, LifeFits, Executing
    <3>3. LettersFit(c)'
      BY <1>1, <1>2, <3>1 DEF CallFits, LettersFit, Effectful, R!Told
    <3>4. RouteFits(c)'
      BY <1>1, <1>2 DEF CallFits, RouteFits
    <3> QED BY <3>2, <3>3, <3>4 DEF CallFits
  <2>4. R!ProbeIsAwaited'
    <3>1. R!Waiting \subseteq R!Waiting'
      BY <1>1, <2>1, AnswersFile DEF R!Waiting
    <3> QED BY <2>1, <3>1 DEF R!ProbeIsAwaited, R!Gateways
  <2>5. TimeFits'
    <3>1. caller'[c] = "UNAVAILABLE" /\ worker'[c] = "none"
      BY <1>2, <2>1, AnswersFile
    <3>2. \A d \in Calls \ {c} : caller'[d] = caller[d] /\ worker'[d] = worker[d]
      BY <2>1, AnswersFile
    <3> HIDE DEF RolloutInv
    <3> QED BY <1>1, <1>2, <3>1, <3>2, ClockKeeps DEF TimesFit, Prompt, R!Running, RolloutInv, TimeFits
  <2>6. \A d \in Calls \ {c} : \A kind \in {"live", "orphan"} : Filed(d, kind)' = Filed(d, kind)
    BY <2>1, FiledTyped, AnswersFile
  <2> HIDE DEF RolloutInv
  <2> QED BY <1>1, <2>1, <2>2, <2>3, <2>4, <2>5, <2>6, AnswersFile, CallKeeps DEF RolloutInv
<1> QED BY <1>3, <1>4

(* A run begins with calls that were not begun. *)
LEMMA BeginKeeps ==
  ASSUME RolloutInv, R!Begin
  PROVE  RolloutInv'
<1> USE WorldFacts DEF RolloutInv
<1>1. /\ run < Len(setting.runs) /\ run' = run + 1
      /\ caller' = [c \in Calls |-> IF c \in setting.runs[run + 1] THEN "begun" ELSE caller[c]]
      /\ UNCHANGED <<setting, level, configured, worker, slowCalls, route, dlq, breaker, callAge, worked, crowded>>
  BY DEF R!Begin, R!clock
<1>2. /\ run' \in 0..Len(setting.runs) /\ run \in Nat /\ run + 1 \in DOMAIN setting.runs
      /\ \A i, j \in DOMAIN setting.runs : i # j => setting.runs[i] \cap setting.runs[j] = {}
      /\ DOMAIN setting.runs \subseteq Nat
  BY <1>1 DEF R!RolloutAssumption
<1>3. WorldOK'
  <2>1. caller' \in [Calls -> R!Told \cup {"none", "begun", "waiting", "lost"}]
    BY <1>1
  <2>2. (R!Cardinality(R!Running) <= Workers)'
    BY <1>1, PoolFits DEF R!Running
  <2>3. R!TypeOK'
    <3>1. level' \in 0..Slots /\ UNCHANGED <<worker, breaker>>
      BY <1>1 DEF WorldOK, R!TypeOK
    <3>2. \A g \in R!Gateways : /\ breaker[g].state \in {"closed", "open", "half"}
                                /\ breaker[g].samples \in 0..MinSamples
      BY DEF WorldOK, R!TypeOK
    <3>3. worker' \in [Calls -> {"none", "queued", "running", "logging", "letters", "returned",
                                 "done", "gone"}]
      BY <3>1 DEF WorldOK, R!TypeOK
    <3>4. \A g \in R!Gateways : /\ breaker'[g].state \in {"closed", "open", "half"}
                                /\ breaker'[g].samples \in 0..MinSamples
      BY <3>1, <3>2
    <3> QED BY ONLY <2>1, <2>2, <3>1, <3>3, <3>4 DEF R!TypeOK, R!Gateways, R!Told
  <2> QED BY <1>1, <1>2, <2>3 DEF WorldOK, R!Gateways, Breakers, Routes, Letters
<1>4. ASSUME NEW c \in Calls PROVE CallFits(c)'
  <2>1. CallFits(c)
    OBVIOUS
  <2>2. \A kind \in {"live", "orphan"} : Filed(c, kind)' = Filed(c, kind)
    BY <1>1, FiledStays
  <2>3. CASE c \in setting.runs[run + 1]
    <3>1. caller[c] = "none"
      <4>1. ASSUME NEW i \in DOMAIN setting.runs, i <= run PROVE c \notin setting.runs[i]
        <5>1. i # run + 1
          BY <1>2, <4>1
        <5>2. setting.runs[i] \cap setting.runs[run + 1] = {}
          BY <1>2, <5>1
        <5> QED BY <2>3, <5>2
      <4> QED BY ONLY <2>1, <4>1 DEF CallFits, LifeFits
    <3>2. caller'[c] = "begun" /\ worker'[c] = "none" /\ worker[c] = "none" /\ route'[c] = route[c]
      BY <1>1, <2>1, <2>3, <3>1 DEF CallFits, LifeFits
    <3>3. LifeFits(c)'
      BY <1>1, <1>2, <2>3, <3>2 DEF LifeFits, Executing
    <3>4. LettersFit(c)' /\ RouteFits(c)'
      BY <2>1, <2>2, <3>1, <3>2 DEF CallFits, LettersFit, RouteFits, R!Told, Effectful
    <3> QED BY <3>3, <3>4 DEF CallFits
  <2>4. CASE c \notin setting.runs[run + 1]
    <3>1. caller'[c] = caller[c] /\ worker'[c] = worker[c] /\ route'[c] = route[c]
      BY <1>1, <2>4
    <3>2. LifeFits(c)'
      <4>1. (\A i \in DOMAIN setting.runs : i <= run + 1 => c \notin setting.runs[i])
              <=> (\A i \in DOMAIN setting.runs : i <= run => c \notin setting.runs[i])
        <5>1. \A i \in DOMAIN setting.runs : i <= run + 1 <=> i <= run \/ i = run + 1
          BY <1>2
        <5> QED BY <2>4, <5>1
      <4> QED BY <1>1, <2>1, <3>1, <4>1 DEF CallFits, LifeFits
    <3>3. LettersFit(c)' /\ RouteFits(c)'
      BY <2>1, <2>2, <3>1 DEF CallFits, LettersFit, RouteFits, Effectful
    <3> QED BY <3>2, <3>3 DEF CallFits
  <2> QED BY <2>3, <2>4
<1>5. \A c \in Calls : caller'[c] = caller[c] \/ (caller[c] = "none" /\ caller'[c] = "begun")
  <2> SUFFICES ASSUME NEW c \in Calls, c \in setting.runs[run + 1] PROVE caller[c] = "none"
    BY <1>1
  <2>1. ASSUME NEW i \in DOMAIN setting.runs, i <= run PROVE c \notin setting.runs[i]
    <3>1. i # run + 1
      BY <1>2, <2>1
    <3> QED BY <1>2, <3>1
  <2>2. LifeFits(c)
    BY DEF CallFits
  <2> QED BY <2>1, <2>2 DEF LifeFits
<1>6. R!ProbeIsAwaited'
  <2>1. R!Waiting \subseteq R!Waiting'
    BY <1>5 DEF R!Waiting
  <2> QED BY <1>1, <2>1 DEF R!ProbeIsAwaited, R!Gateways
<1>7. TimeFits'
  <2>1. ASSUME NEW c \in Calls PROVE TimesFit(c)'
    <3>1. TimesFit(c)
      BY DEF TimeFits
    <3> QED BY <1>1, <1>5, <3>1 DEF TimesFit, R!Limit
  <2>2. Quiet' => Quiet
    BY <1>1 DEF Quiet, R!Outlasted, R!Limit
  <2>3. ASSUME Quiet, NEW c \in Calls PROVE Prompt(c)'
    <3>1. Prompt(c)
      BY <2>3 DEF TimeFits
    <3> QED BY <1>1, <1>5, <3>1 DEF Prompt, R!Running
  <2>4. callAge' \in [Calls -> Nat] /\ worked' \in [Calls -> Nat]
    BY <1>1 DEF TimeFits
  <2> QED BY <2>1, <2>2, <2>3, <2>4 DEF TimeFits
<1>8. R!RolloutAssumption'
  BY DEF R!RolloutAssumption, R!Gateways
<1> QED BY <1>3, <1>4, <1>6, <1>7, <1>8

(* An open breaker has no probe when its cooldown ends. *)
LEMMA CoolsDownKeeps ==
  ASSUME RolloutInv, NEW g \in R!Gateways, R!CoolsDown(g)
  PROVE  RolloutInv'
<1> USE WorldFacts DEF RolloutInv
<1>1. /\ breaker[g].state = "open" /\ breaker' = [breaker EXCEPT ![g] = [@ EXCEPT !.state = "half"]]
      /\ UNCHANGED <<setting, level, run, caller, worker, slowCalls, route, dlq, callAge, worked, crowded>>
      /\ level \in 0..Slots /\ breaker[g] \in Breakers /\ ~breaker[g].probe
  BY DEF R!CoolsDown, R!clock, WorldOK, R!TypeOK, R!ProbeIsAwaited
<1>2. [breaker[g] EXCEPT !.state = "half"] \in Breakers /\ ~[breaker[g] EXCEPT !.state = "half"].probe
  BY <1>1 DEF Breakers
<1>3. /\ breaker' \in [R!Gateways -> Breakers] /\ ~breaker'[g].probe
      /\ \A h \in R!Gateways \ {g} : breaker'[h] = breaker[h]
  BY <1>1, <1>2
<1>4. WorldOK'
  <2>1. R!Running' \subseteq R!Running
    BY <1>1 DEF R!Running
  <2> QED BY <1>1, <1>3, <2>1, WorldKeeps
<1>5. \A d \in Calls : CallFits(d)'
  BY <1>1, FiledStays, OthersFit
<1>6. R!ProbeIsAwaited'
  BY <1>1, <1>3 DEF R!ProbeIsAwaited, R!Waiting, R!Gateways
<1>7. TimeFits'
  BY <1>1, TimesStay
<1>8. R!RolloutAssumption'
  BY DEF R!RolloutAssumption, R!Gateways
<1> QED BY <1>4, <1>5, <1>6, <1>7, <1>8

(* A worker is taken while one is free. *)
LEMMA TakeWorkerKeeps ==
  ASSUME RolloutInv, NEW c \in Calls, R!TakeWorker(c)
  PROVE  RolloutInv'
<1> USE WorldFacts DEF RolloutInv
<1>1. /\ worker[c] = "queued" /\ worker' = [worker EXCEPT ![c] = "running"]
      /\ slowCalls \subseteq slowCalls' /\ slowCalls' \subseteq Calls
      /\ UNCHANGED <<setting, level, run, caller, route, dlq, breaker, callAge, worked, crowded>>
      /\ R!Cardinality(R!Running) < Workers
  BY DEF R!clock, R!TakeWorker, R!Holding
<1>2. CallFits(c) /\ caller[c] \in {"waiting", "TIMEOUT"}
  BY <1>1 DEF CallFits, LifeFits, Executing
<1>3. WorldOK'
  <2>1. R!Running' = R!Running \cup {c} /\ c \notin R!Running
    BY <1>1 DEF R!Running
  <2>2. PICK T : T = R!Running
    OBVIOUS
  <2>3. IsFiniteSet(T)
    <3>1. IsFiniteSet(Calls) /\ T \subseteq Calls
      BY <2>2 DEF R!RolloutAssumption, R!Running, R!IsFiniteSet, IsFiniteSet
    <3> QED BY <3>1, FS_Subset
  <2>4. Cardinality(T \cup {c}) = Cardinality(T) + 1 /\ Cardinality(T) \in Nat /\ Cardinality(T) < Workers
    BY <1>1, <2>1, <2>2, <2>3, FS_AddElement, FS_CardinalityType, SameCardinality
  <2>5. R!Cardinality(T \cup {c}) <= Workers
    BY <2>4, SameCardinality DEF R!RolloutAssumption
  <2>6. (R!Cardinality(R!Running) <= Workers)'
    BY <2>1, <2>2, <2>5
  <2>7. R!TypeOK'
    BY <1>1, <2>6 DEF WorldOK, R!TypeOK, R!Gateways, R!Told
  <2> QED BY <1>1, <2>7 DEF WorldOK, R!Gateways, Breakers, Routes, Letters
<1>4. \A d \in Calls, kind \in {"live", "orphan"} : Filed(d, kind)' = Filed(d, kind)
  BY <1>1, FiledStays
<1>5. CallFits(c)'
  <2>1. worker'[c] = "running"
    BY <1>1
  <2>2. LifeFits(c)'
    BY <1>1, <1>2, <2>1 DEF CallFits, LifeFits, Executing
  <2>3. LettersFit(c)' /\ RouteFits(c)'
    BY <1>1, <1>2, <1>4, <2>1 DEF CallFits, LettersFit, RouteFits, Effectful
  <2> QED BY <2>2, <2>3 DEF CallFits
<1>6. R!ProbeIsAwaited'
  BY <1>1 DEF R!ProbeIsAwaited, R!Waiting, R!Gateways
<1> HIDE DEF RolloutInv
<1>7. TimeFits'
  <2>1. worker'[c] = "running" /\ \A d \in Calls \ {c} : worker'[d] = worker[d]
    BY <1>1, WorldFacts DEF RolloutInv
  <2>2. TimesFit(c)
    BY DEF RolloutInv, TimeFits
  <2>3. TimesFit(c)'
    BY <1>1, <2>1, <2>2 DEF TimesFit, R!Limit
  <2>4. Quiet => Prompt(c)'
    <3> SUFFICES ASSUME Quiet PROVE Prompt(c)'
      OBVIOUS
    <3>1. Prompt(c)
      BY DEF RolloutInv, TimeFits
    <3> QED BY <1>1, <2>1, <2>2, <3>1 DEF Prompt, TimesFit, R!Running
  <2> QED BY <1>1, <2>1, <2>3, <2>4, ClockKeeps
<1> QED BY <1>1, <1>3, <1>4, <1>5, <1>6, <1>7, CallKeeps

(* Where a call goes is decided by the level it finds. *)
LEMMA ExecuteKeeps ==
  ASSUME RolloutInv, NEW c \in Calls, R!Execute(c)
  PROVE  RolloutInv'
<1> USE WorldFacts DEF RolloutInv
<1>1. PICK real \in {"ok", "error"}, stub \in {"ok", "raised"}, live, able \in BOOLEAN :
        /\ able = R!Able(c) /\ live = (able /\ R!Eligible(Asks[c].case))
        /\ ~live => real = "ok"
        /\ route' = [route EXCEPT ![c] = [live |-> live, able |-> able, level |-> level,
                                          real |-> IF live THEN real ELSE "none", stub |-> stub]]
        /\ worker' = [worker EXCEPT ![c] = IF live THEN "logging" ELSE "returned"]
  <2>1. R!Able(c) \in BOOLEAN /\ (R!Able(c) /\ R!Eligible(Asks[c].case)) \in BOOLEAN
    BY DEF R!Able, R!Eligible
  <2> QED BY <2>1 DEF R!Execute
<1>2. /\ worker[c] = "running" /\ level \in 0..Slots /\ level \in Nat
      /\ UNCHANGED <<setting, level, run, caller, slowCalls, dlq, breaker, callAge, worked, crowded>>
  BY DEF R!clock, R!Execute, WorldOK, R!TypeOK, R!RolloutAssumption
<1>3. CallFits(c) /\ caller[c] \in {"waiting", "TIMEOUT"}
  BY <1>2 DEF CallFits, LifeFits, Executing
<1>4. PICK n : n = [live |-> live, able |-> able, level |-> level,
                    real |-> IF live THEN real ELSE "none", stub |-> stub]
  OBVIOUS
<1>5. /\ n \in Routes /\ n.live = live /\ n.able = able /\ n.level = level
      /\ (~live => n.real # "error")
  BY <1>1, <1>2, <1>4 DEF Routes
<1>6. route' \in [Calls -> Routes] /\ route'[c] = n /\ \A d \in Calls \ {c} : route'[d] = route[d]
  BY <1>1, <1>4, <1>5
<1>7. WorldOK'
  <2>1. R!Running' \subseteq R!Running
    BY <1>1, <1>2 DEF R!Running
  <2>2. worker' \in [Calls -> Executing \cup {"none", "done", "gone"}]
    BY <1>1 DEF Executing
  <2> QED BY <1>2, <1>6, <2>1, <2>2, WorldKeeps
<1>8. \A d \in Calls, kind \in {"live", "orphan"} : Filed(d, kind)' = Filed(d, kind)
  BY <1>2, FiledStays
<1>9. CallFits(c)'
  <2>1. worker'[c] = IF live THEN "logging" ELSE "returned"
    BY <1>1
  <2>2. LifeFits(c)'
    BY <1>2, <1>3, <2>1 DEF CallFits, LifeFits, Executing
  <2>3. LettersFit(c)'
    BY <1>2, <1>3, <1>5, <1>6, <1>8, <2>1 DEF CallFits, LettersFit, Effectful, R!Told
  <2>4. RouteFits(c)'
    BY <1>1, <1>2, <1>5, <1>6 DEF RouteFits, R!Able, R!Eligible
  <2> QED BY <2>2, <2>3, <2>4 DEF CallFits
<1>10. R!ProbeIsAwaited'
  BY <1>2 DEF R!ProbeIsAwaited, R!Waiting, R!Gateways
<1>11. \A d \in Calls \ {c} : worker'[d] = worker[d]
  BY <1>1
<1> HIDE DEF RolloutInv
<1>12. TimeFits'
  <2>1. PICK w \in {"logging", "returned"} : worker' = [worker EXCEPT ![c] = w]
    BY <1>1
  <2> QED BY <1>2, <2>1, WorkerMoves
<1> QED BY <1>2, <1>6, <1>7, <1>8, <1>9, <1>10, <1>11, <1>12, CallKeeps

(* The diff log is no letter. *)
LEMMA LogDiffKeeps ==
  ASSUME RolloutInv, NEW c \in Calls, R!LogDiff(c)
  PROVE  RolloutInv'
<1> USE WorldFacts DEF RolloutInv
<1>1. /\ worker[c] = "logging" /\ worker' = [worker EXCEPT ![c] = "letters"] /\ level \in 0..Slots
      /\ UNCHANGED <<setting, level, run, caller, slowCalls, route, dlq, breaker, callAge, worked, crowded>>
  BY DEF R!clock, R!LogDiff, WorldOK, R!TypeOK
<1>2. CallFits(c)
  OBVIOUS
<1>3. WorldOK'
  <2>1. R!Running' \subseteq R!Running
    BY <1>1 DEF R!Running
  <2> QED BY <1>1, <2>1, WorldKeeps DEF Executing
<1>4. \A d \in Calls, kind \in {"live", "orphan"} : Filed(d, kind)' = Filed(d, kind)
  BY <1>1, FiledStays
<1>5. CallFits(c)'
  BY <1>1, <1>2, <1>4 DEF CallFits, LifeFits, LettersFit, RouteFits, Effectful, Executing
<1>6. R!ProbeIsAwaited'
  BY <1>1 DEF R!ProbeIsAwaited, R!Waiting, R!Gateways
<1> HIDE DEF RolloutInv
<1>7. TimeFits'
  <2>1. PICK w \in {"letters"} : worker' = [worker EXCEPT ![c] = w]
    BY <1>1
  <2> QED BY <1>1, <2>1, WorkerMoves
<1> QED BY <1>1, <1>3, <1>4, <1>5, <1>6, <1>7, CallKeeps

(* A failed live side has its letter, whatever else was logged. *)
LEMMA DeadLetterKeeps ==
  ASSUME RolloutInv, NEW c \in Calls, R!DeadLetter(c)
  PROVE  RolloutInv'
<1> USE WorldFacts DEF RolloutInv
<1>1. /\ worker[c] = "letters" /\ worker' = [worker EXCEPT ![c] = "returned"] /\ level \in 0..Slots
      /\ UNCHANGED <<setting, level, run, caller, slowCalls, route, breaker, callAge, worked, crowded>>
      /\ dlq' = IF route[c].real = "error" THEN Append(dlq, R!Letter(c, "live")) ELSE dlq
  BY DEF R!clock, R!DeadLetter, R!OwnEntry, R!BothFailed, WorldOK, R!TypeOK
<1>2. CallFits(c)
  OBVIOUS
<1>3. PICK x : x = R!Letter(c, "live")
  OBVIOUS
<1>4. x \in Letters /\ \A d \in Calls, kind \in {"live", "orphan"} :
                         x = R!Letter(d, kind) <=> d = c /\ kind = "live"
  BY <1>3 DEF R!Letter, Letters
<1>5. /\ dlq' \in Seq(Letters)
      /\ \A d \in Calls, kind \in {"live", "orphan"} : Filed(d, kind)' =
           Filed(d, kind) + (IF d = c /\ kind = "live" /\ route[c].real = "error" THEN 1 ELSE 0)
  <2>1. CASE route[c].real = "error"
    <3>1. dlq' = Append(dlq, x)
      BY <1>1, <1>3, <2>1
    <3>2. ASSUME NEW d \in Calls, NEW kind \in {"live", "orphan"}
          PROVE  Filed(d, kind)' = Filed(d, kind) + (IF d = c /\ kind = "live" THEN 1 ELSE 0)
      <4>1. Filed(d, kind)' = CountOf(dlq', R!Letter(d, kind)) /\ Filed(d, kind) = CountOf(dlq, R!Letter(d, kind))
        BY DEF Filed, CountOf, R!Letter
      <4>2. CountOf(Append(dlq, x), R!Letter(d, kind))
              = CountOf(dlq, R!Letter(d, kind)) + (IF x = R!Letter(d, kind) THEN 1 ELSE 0)
        BY <1>4, FiledAppend
      <4> QED BY <1>4, <3>1, <4>1, <4>2
    <3> QED BY <1>4, <2>1, <3>1, <3>2
  <2>2. CASE route[c].real # "error"
    <3>1. dlq' = dlq
      BY <1>1, <2>2
    <3>2. \A d \in Calls, kind \in {"live", "orphan"} : Filed(d, kind)' = Filed(d, kind) /\ Filed(d, kind) \in Nat
      BY <3>1, FiledStays, FiledTyped
    <3> QED BY <2>2, <3>1, <3>2
  <2> QED BY <2>1, <2>2
<1>6. WorldOK'
  <2>1. R!Running' \subseteq R!Running
    BY <1>1 DEF R!Running
  <2> QED BY <1>1, <1>5, <2>1, WorldKeeps DEF Executing
<1>7. CallFits(c)'
  <2>1. worker'[c] = "returned" /\ Filed(c, "live") = 0
    BY <1>1, <1>2 DEF CallFits, LettersFit
  <2>2. /\ Filed(c, "live")' = (IF route[c].real = "error" THEN 1 ELSE 0)
        /\ Filed(c, "orphan")' = Filed(c, "orphan")
    BY <1>5, <2>1, FiledTyped
  <2>3. LifeFits(c)' /\ RouteFits(c)'
    BY <1>1, <1>2, <2>1 DEF CallFits, LifeFits, RouteFits, Executing
  <2>4. LettersFit(c)'
    BY <1>1, <1>2, <2>1, <2>2 DEF CallFits, LettersFit, Effectful
  <2> QED BY <2>3, <2>4 DEF CallFits
<1>8. R!ProbeIsAwaited'
  BY <1>1 DEF R!ProbeIsAwaited, R!Waiting, R!Gateways
<1>9. \A d \in Calls \ {c} : \A kind \in {"live", "orphan"} : Filed(d, kind)' = Filed(d, kind)
  BY <1>5, FiledTyped
<1> HIDE DEF RolloutInv
<1>10. TimeFits'
  <2>1. PICK w \in {"returned"} : worker' = [worker EXCEPT ![c] = w]
    BY <1>1
  <2> QED BY <1>1, <2>1, WorkerMoves
<1> QED BY <1>1, <1>6, <1>7, <1>8, <1>9, <1>10, CallKeeps

(* An abandoned call ends. *)
LEMMA LateReturnKeeps ==
  ASSUME RolloutInv, NEW c \in Calls, R!LateReturn(c)
  PROVE  RolloutInv'
<1> USE WorldFacts DEF RolloutInv
<1>1. /\ worker[c] = "returned" /\ caller[c] = "TIMEOUT" /\ worker' = [worker EXCEPT ![c] = "done"]
      /\ UNCHANGED <<setting, level, run, caller, slowCalls, route, dlq, breaker, callAge, worked, crowded>>
      /\ level \in 0..Slots
  BY DEF R!clock, R!LateReturn, WorldOK, R!TypeOK
<1>2. CallFits(c)
  OBVIOUS
<1>3. WorldOK'
  <2>1. R!Running' \subseteq R!Running
    BY <1>1 DEF R!Running
  <2> QED BY <1>1, <2>1, WorldKeeps DEF Executing
<1>4. \A d \in Calls, kind \in {"live", "orphan"} : Filed(d, kind)' = Filed(d, kind)
  BY <1>1, FiledStays
<1>5. CallFits(c)'
  BY <1>1, <1>2, <1>4 DEF CallFits, LifeFits, LettersFit, RouteFits, Effectful, Executing, R!Told
<1>6. R!ProbeIsAwaited'
  BY <1>1 DEF R!ProbeIsAwaited, R!Waiting, R!Gateways
<1> HIDE DEF RolloutInv
<1>7. TimeFits'
  <2>1. PICK w \in {"done"} : worker' = [worker EXCEPT ![c] = w]
    BY <1>1
  <2> QED BY <1>1, <2>1, WorkerMoves
<1> QED BY <1>1, <1>3, <1>4, <1>5, <1>6, <1>7, CallKeeps

(* A caller is told what came back, and its breaker how it ended. *)
LEMMA ReceiveKeeps ==
  ASSUME RolloutInv, NEW c \in Calls, R!Receive(c)
  PROVE  RolloutInv'
<1> USE WorldFacts DEF RolloutInv
<1>1. PICK status \in {"SUCCESS", "FAILED"} : status = R!Status(c)
  BY DEF R!Status
<1>2. /\ caller[c] = "waiting" /\ worker[c] = "returned" /\ worker' = [worker EXCEPT ![c] = "done"]
      /\ R!Answers(c, status) /\ R!Reported(c, status # "SUCCESS") /\ level \in 0..Slots
      /\ UNCHANGED <<setting, level, run, slowCalls, route, callAge, worked, crowded>>
      /\ status \in R!Told /\ status # "TIMEOUT"
  BY <1>1 DEF R!clock, R!Receive, R!Told, WorldOK, R!TypeOK
<1>3. CallFits(c)
  OBVIOUS
<1> HIDE DEF RolloutInv
<1>4. /\ breaker' \in [R!Gateways -> Breakers] /\ ~breaker'[Asks[c].gateway].probe
      /\ \A g \in R!Gateways \ {Asks[c].gateway} : breaker'[g] = breaker[g]
  BY <1>2, ReportedFits
<1> USE DEF RolloutInv
<1>5. WorldOK'
  <2>1. R!Running' \subseteq R!Running
    BY <1>2 DEF R!Running
  <2>2. worker' \in [Calls -> Executing \cup {"none", "done", "gone"}]
    BY <1>2
  <2> QED BY <1>2, <1>4, <2>1, <2>2, AnswersFile, WorldKeeps
<1>6. CallFits(c)'
  <2>1. caller'[c] = status /\ worker'[c] = "done" /\ Filed(c, "orphan") = 0
    BY <1>2, <1>3, AnswersFile DEF CallFits, LettersFit
  <2>2. /\ Filed(c, "live")' = Filed(c, "live")
        /\ Effectful(c) /\ status # "SUCCESS" => Filed(c, "orphan")' = 1
    <3>1. Effectful(c) /\ status # "SUCCESS" => R!Orphaned(c, status)
      BY DEF Effectful, R!Orphaned
    <3>2. /\ Filed(c, "live")' = Filed(c, "live") + 0
          /\ R!Orphaned(c, status) => Filed(c, "orphan")' = Filed(c, "orphan") + 1
      BY <1>2, AnswersFile
    <3> QED BY <2>1, <3>1, <3>2, FiledTyped
  <2>3. LifeFits(c)' /\ RouteFits(c)'
    BY <1>1, <1>2, <1>3, <2>1 DEF CallFits, LifeFits, RouteFits, Executing
  <2>4. LettersFit(c)'
    BY <1>1, <1>2, <1>3, <2>1, <2>2 DEF CallFits, LettersFit, Effectful, R!Told
  <2> QED BY <2>3, <2>4 DEF CallFits
<1>7. \A d \in Calls \ {c} : caller'[d] = caller[d]
  BY <1>2, AnswersFile
<1>8. R!ProbeIsAwaited'
  <2> SUFFICES ASSUME NEW g \in R!Gateways, breaker'[g].probe
               PROVE  /\ breaker'[g].state = "half"
                      /\ \E d \in R!Waiting' : Asks[d].gateway = g
    BY DEF R!ProbeIsAwaited, R!Gateways
  <2>1. g # Asks[c].gateway /\ breaker'[g] = breaker[g]
    BY <1>4
  <2>2. PICK d \in R!Waiting : Asks[d].gateway = g
    BY <2>1 DEF R!ProbeIsAwaited
  <2>3. d \in R!Waiting'
    BY <1>7, <2>1, <2>2 DEF R!Waiting
  <2> QED BY <2>1, <2>2, <2>3 DEF R!ProbeIsAwaited
<1>9. caller'[c] = status /\ worker'[c] = "done"
  BY <1>2, AnswersFile
<1>10. \A d \in Calls \ {c} : \A kind \in {"live", "orphan"} : Filed(d, kind)' = Filed(d, kind)
  BY <1>2, AnswersFile, FiledTyped
<1>11. \A d \in Calls \ {c} : worker'[d] = worker[d]
  BY <1>2
<1> HIDE DEF RolloutInv
<1>12. TimeFits'
  <2>1. TimesFit(c)
    BY DEF RolloutInv, TimeFits
  <2>2. TimesFit(c)'
    BY <1>1, <1>2, <1>9, <2>1 DEF TimesFit, R!Limit
  <2>3. Prompt(c)'
    BY <1>1, <1>2, <1>9 DEF Prompt, R!Running
  <2> QED BY <1>2, <1>7, <1>9, <1>11, <2>2, <2>3, ClockKeeps
<1> QED BY <1>2, <1>5, <1>6, <1>7, <1>8, <1>10, <1>11, <1>12, CallKeeps

(* In a quiet pool no call runs out of time: it has had a worker for as    *)
(* long as it waited.                                                      *)
LEMMA TimeOutKeeps ==
  ASSUME RolloutInv, NEW c \in Calls, R!TimeOut(c)
  PROVE  RolloutInv'
<1> USE WorldFacts DEF RolloutInv
<1>1. /\ caller[c] = "waiting" /\ R!Expired(c) /\ R!Answers(c, "TIMEOUT") /\ R!Reported(c, TRUE)
      /\ UNCHANGED <<setting, level, run, worker, slowCalls, route>> /\ level \in 0..Slots
      /\ UNCHANGED <<callAge, worked, crowded>>
      /\ "TIMEOUT" \in R!Told
  BY DEF R!TimeOut, R!TimedOut, R!Told, R!clock, WorldOK, R!TypeOK
<1>2. CallFits(c)
  OBVIOUS
<1>3. worker[c] \in Executing /\ worker[c] \notin {"returned", "done", "gone"}
  <2>1. LifeFits(c) /\ caller[c] = "waiting" /\ worker[c] # "returned"
    BY <1>1, <1>2 DEF R!Expired, CallFits
  <2> QED BY ONLY <2>1 DEF LifeFits, Executing
<1> HIDE DEF RolloutInv
<1>4. /\ breaker' \in [R!Gateways -> Breakers] /\ ~breaker'[Asks[c].gateway].probe
      /\ \A g \in R!Gateways \ {Asks[c].gateway} : breaker'[g] = breaker[g]
  BY <1>1, ReportedFits
<1> USE DEF RolloutInv
<1>5. WorldOK'
  <2>1. R!Running' \subseteq R!Running /\ R!Running \subseteq Calls
    BY <1>1 DEF R!Running
  <2> QED BY <1>1, <1>4, <2>1, AnswersFile, WorldKeeps
<1>6. CallFits(c)'
  <2>1. caller'[c] = "TIMEOUT" /\ worker'[c] = worker[c] /\ Filed(c, "orphan") = 0
    BY <1>1, <1>2, AnswersFile DEF CallFits, LettersFit
  <2>2. /\ Filed(c, "live")' = Filed(c, "live")
        /\ Effectful(c) => Filed(c, "orphan")' = 1
    <3>1. Effectful(c) => R!Orphaned(c, "TIMEOUT")
      BY DEF Effectful, R!Orphaned
    <3>2. /\ Filed(c, "live")' = Filed(c, "live") + 0
          /\ R!Orphaned(c, "TIMEOUT") => Filed(c, "orphan")' = Filed(c, "orphan") + 1
      BY <1>1, AnswersFile
    <3> QED BY <2>1, <3>1, <3>2, FiledTyped
  <2>3. LifeFits(c)' /\ RouteFits(c)'
    BY <1>1, <1>2, <1>3, <2>1 DEF CallFits, LifeFits, RouteFits, Executing
  <2>4. LettersFit(c)'
    BY <1>1, <1>2, <1>3, <2>1, <2>2 DEF CallFits, LettersFit, Effectful, R!Told
  <2> QED BY <2>3, <2>4 DEF CallFits
<1>7. \A d \in Calls \ {c} : caller'[d] = caller[d]
  BY <1>1, AnswersFile
<1>8. R!ProbeIsAwaited'
  <2> SUFFICES ASSUME NEW g \in R!Gateways, breaker'[g].probe
               PROVE  /\ breaker'[g].state = "half"
                      /\ \E d \in R!Waiting' : Asks[d].gateway = g
    BY DEF R!ProbeIsAwaited, R!Gateways
  <2>1. g # Asks[c].gateway /\ breaker'[g] = breaker[g]
    BY <1>4
  <2>2. PICK d \in R!Waiting : Asks[d].gateway = g
    BY <2>1 DEF R!ProbeIsAwaited
  <2>3. d \in R!Waiting'
    BY <1>7, <2>1, <2>2 DEF R!Waiting
  <2> QED BY <2>1, <2>2, <2>3 DEF R!ProbeIsAwaited
<1>9. TimeFits'
  <2>1. caller'[c] = "TIMEOUT" /\ TimesFit(c)
    BY <1>1, AnswersFile DEF TimeFits
  <2>2. TimesFit(c)'
    BY <1>1, <1>3, <2>1 DEF TimesFit, R!Limit
  <2>3. ~Quiet
    <3> SUFFICES ASSUME Quiet PROVE FALSE
      OBVIOUS
    <3>1. Prompt(c) /\ ~R!Outlasted(c) /\ R!Limit(c) \in Nat \ {0}
      BY LimitType DEF TimeFits, Quiet
    <3>2. callAge[c] = R!Limit(c)
      BY <1>1 DEF R!Expired
    <3> QED BY <1>1, <1>3, <3>1, <3>2 DEF Prompt, R!Outlasted, R!Running, Executing
  <2> HIDE DEF RolloutInv
  <2> QED BY <1>1, <1>7, <2>2, <2>3, ClockKeeps
<1>10. \A d \in Calls \ {c} : \A kind \in {"live", "orphan"} : Filed(d, kind)' = Filed(d, kind)
  BY <1>1, AnswersFile, FiledTyped
<1> HIDE DEF RolloutInv
<1> QED BY <1>1, <1>5, <1>6, <1>7, <1>8, <1>9, <1>10, CallKeeps

(* After a restart a call is over or was never begun. *)
LEMMA RestartKeeps ==
  ASSUME RolloutInv, R!Restart
  PROVE  RolloutInv'
<1> USE WorldFacts DEF RolloutInv
<1>1. /\ level' \in setting.levels /\ dlq' = <<>> /\ breaker' = [g \in R!Gateways |-> R!Shut]
      /\ caller' = [c \in Calls |-> IF caller[c] \in {"begun", "waiting"} THEN "lost" ELSE caller[c]]
      /\ worker' = [c \in Calls |-> IF caller[c] = "none" THEN "none" ELSE "gone"]
      /\ callAge' = [c \in Calls |-> 0] /\ worked' = [c \in Calls |-> 0]
      /\ UNCHANGED <<setting, run, slowCalls, route>>
  BY DEF R!Restart
<1>2. level' \in 0..Slots /\ MinSamples \in Nat
  BY <1>1 DEF R!RolloutAssumption
<1>3. WorldOK'
  <2>1. R!Running' \subseteq R!Running
    BY <1>1 DEF R!Running
  <2>2. R!Shut \in Breakers
    BY <1>2 DEF R!Shut, Breakers
  <2>3. breaker' \in [R!Gateways -> Breakers] /\ dlq' \in Seq(Letters)
    BY <1>1, <2>2
  <2>4. /\ caller' \in [Calls -> R!Told \cup {"none", "begun", "waiting", "lost"}]
        /\ worker' \in [Calls -> Executing \cup {"none", "done", "gone"}]
    BY <1>1
  <2> QED BY <1>1, <1>2, <2>1, <2>3, <2>4, WorldKeeps
<1>4. ASSUME NEW c \in Calls PROVE CallFits(c)'
  <2>1. CallFits(c)
    OBVIOUS
  <2>2. Filed(c, "live")' = 0 /\ Filed(c, "orphan")' = 0
    <3>1. CountOf(<<>>, R!Letter(c, "live")) = 0 /\ CountOf(<<>>, R!Letter(c, "orphan")) = 0
      BY SameCardinality, FS_EmptySet DEF CountOf
    <3> QED BY <1>1, <3>1 DEF Filed, R!Letter, CountOf
  <2>3. /\ caller'[c] = IF caller[c] \in {"begun", "waiting"} THEN "lost" ELSE caller[c]
        /\ worker'[c] = IF caller[c] = "none" THEN "none" ELSE "gone"
    BY <1>1
  <2>4. LifeFits(c)' /\ RouteFits(c)'
    BY <1>1, <2>1, <2>3 DEF CallFits, LifeFits, RouteFits, Executing
  <2>5. LettersFit(c)'
    BY <1>1, <2>2, <2>3 DEF LettersFit, R!Told
  <2> QED BY <2>4, <2>5 DEF CallFits
<1>5. R!ProbeIsAwaited'
  BY <1>1 DEF R!ProbeIsAwaited, R!Gateways, R!Shut
<1>6. TimeFits'
  <2>1. \A c \in Calls : TimesFit(c)'
    <3>1. \A c \in Calls : R!Limit(c) \in Nat \ {0}
      BY LimitType
    <3> QED BY <1>1, <3>1 DEF TimesFit, R!Limit
  <2>2. \A c \in Calls : Prompt(c)'
    BY <1>1, <1>4 DEF Prompt, R!Running, CallFits, LifeFits
  <2> QED BY <1>1, <2>1, <2>2 DEF TimeFits
<1>7. R!RolloutAssumption'
  BY DEF R!RolloutAssumption, R!Gateways
<1> QED BY <1>3, <1>4, <1>5, <1>6, <1>7

(* Time passes: in a quiet pool it finds the queue empty. *)
LEMMA TickKeeps ==
  ASSUME RolloutInv, R!Tick
  PROVE  RolloutInv'
<1>1. /\ UNCHANGED <<setting, level, run, caller, worker, slowCalls, route, dlq, breaker>>
      /\ callAge' = [c \in Calls |-> IF c \in R!Waiting THEN R!Aged(c, callAge[c]) ELSE callAge[c]]
      /\ worked' = [c \in Calls |-> IF c \in R!Running THEN R!Aged(c, worked[c]) ELSE worked[c]]
      /\ crowded' = (crowded \/ R!Cardinality(R!Waiting) > Workers)
      /\ R!Queued = {} \/ R!Cardinality(R!Running) >= Workers
  BY DEF R!Tick, R!Holding
<1>2. TimeFits /\ WorldOK /\ Workers \in Nat /\ IsFiniteSet(Calls)
  BY DEF RolloutInv, R!RolloutAssumption, R!IsFiniteSet, IsFiniteSet
<1>3. WorldOK'
  <2>1. R!Running' \subseteq R!Running /\ level \in 0..Slots
    BY <1>1, <1>2 DEF R!Running, WorldOK, R!TypeOK
  <2> QED BY <1>1, <1>2, <2>1, WorldFacts, WorldKeeps
<1>4. \A d \in Calls : CallFits(d)'
  BY <1>1, FiledStays, OthersFit DEF RolloutInv
<1>5. R!ProbeIsAwaited' /\ R!RolloutAssumption'
  BY <1>1 DEF RolloutInv, R!ProbeIsAwaited, R!Waiting, R!Gateways, R!RolloutAssumption
<1>6. ASSUME NEW c \in Calls PROVE TimesFit(c)'
  <2>1. TimesFit(c) /\ LifeFits(c) /\ R!Limit(c) \in Nat \ {0}
    BY <1>2, LimitType DEF TimeFits, RolloutInv, CallFits
  <2>2. R!Aged(c, callAge[c]) \in 0..R!Limit(c) /\ R!Aged(c, worked[c]) \in 0..R!Limit(c)
    <3>1. PICK lim \in Nat : lim = R!Limit(c)
      BY <2>1
    <3> QED BY <2>1, <3>1 DEF TimesFit, R!Aged
  <2>3. /\ callAge'[c] = IF c \in R!Waiting THEN R!Aged(c, callAge[c]) ELSE callAge[c]
        /\ worked'[c] = IF c \in R!Running THEN R!Aged(c, worked[c]) ELSE worked[c]
    BY <1>1
  <2>4. /\ caller[c] \in {"none", "begun"} => c \notin R!Waiting /\ c \notin R!Running
        /\ worker[c] = "queued" => c \notin R!Running
    BY <2>1 DEF LifeFits, R!Waiting, R!Running
  <2>5. R!Limit(c)' = R!Limit(c)
    BY DEF R!Limit
  <2> QED BY <1>1, <2>1, <2>2, <2>3, <2>4, <2>5 DEF TimesFit
<1>7. Quiet' => Quiet
  <2> SUFFICES ASSUME Quiet', NEW d \in Calls, R!Outlasted(d) PROVE FALSE
    BY <1>1 DEF Quiet
  <2>1. worked[d] = R!Limit(d) /\ worked[d] \in Nat
    BY <1>2 DEF R!Outlasted, TimeFits
  <2>2. worked'[d] = worked[d]
    BY <1>1, <2>1 DEF R!Aged
  <2> QED BY <1>1, <2>1, <2>2 DEF Quiet, R!Outlasted, R!Limit
<1>8. ASSUME Quiet', NEW c \in Calls PROVE Prompt(c)'
  <2>1. /\ ~(R!Cardinality(R!Waiting) > Workers)
        /\ \A d \in Calls : Prompt(d) /\ LifeFits(d)
    BY <1>1, <1>2, <1>7, <1>8 DEF Quiet, TimeFits, RolloutInv, CallFits
  <2>2. ASSUME NEW d \in Calls, worker[d] \in Executing PROVE d \in R!Waiting
    BY <2>1, <2>2 DEF LifeFits, Prompt, Executing, R!Waiting
  <2>3. R!Queued = {}
    <3> SUFFICES ASSUME NEW d \in R!Queued PROVE FALSE
      OBVIOUS
    <3>1. PICK T : T = R!Running
      OBVIOUS
    <3>2. PICK W : W = R!Waiting
      OBVIOUS
    <3>3. T \subseteq W /\ d \in W /\ d \notin T /\ W \subseteq Calls
      BY <2>2, <3>1, <3>2 DEF R!Running, R!Queued, R!Waiting, Executing
    <3>4. IsFiniteSet(W) /\ IsFiniteSet(T)
      BY <1>2, <3>3, FS_Subset
    <3>5. T \cup {d} \subseteq W
      BY <3>3
    <3>6. /\ Cardinality(T \cup {d}) = Cardinality(T) + 1 /\ Cardinality(T \cup {d}) <= Cardinality(W)
          /\ Cardinality(T) \in Nat /\ Cardinality(W) \in Nat
      BY <3>3, <3>4, <3>5, FS_AddElement, FS_Subset, FS_CardinalityType
    <3>7. Cardinality(T) >= Workers /\ ~(Cardinality(W) > Workers)
      <4>1. R!Cardinality(T) >= Workers /\ ~(R!Cardinality(W) > Workers)
        BY <1>1, <2>1, <3>1, <3>2
      <4> QED BY <4>1, SameCardinality
    <3> QED BY <1>2, <3>6, <3>7
  <2>4. c \in R!Running /\ caller[c] = "waiting" => worked'[c] = callAge'[c]
    BY <1>1, <2>1 DEF Prompt, R!Waiting
  <2>5. worker[c] # "queued"
    BY <2>3 DEF R!Queued
  <2> QED BY <1>1, <2>1, <2>4, <2>5 DEF Prompt, R!Running
<1>9. callAge' \in [Calls -> Nat] /\ worked' \in [Calls -> Nat]
  <2>1. \A c \in Calls : callAge'[c] \in Nat /\ worked'[c] \in Nat
    BY <1>1, <1>2 DEF TimeFits, R!Aged
  <2> QED BY <1>1, <2>1
<1>10. TimeFits'
  <2>1. Quiet' => \A c \in Calls : Prompt(c)'
    BY <1>8
  <2> QED BY <1>6, <1>9, <2>1 DEF TimeFits
<1> QED BY <1>3, <1>4, <1>5, <1>10 DEF RolloutInv

(* At first nothing is begun. *)
LEMMA RolloutInit ==
  ASSUME R!RolloutAssumption, R!Init
  PROVE  RolloutInv
<1>1. /\ setting \in Settings /\ level \in setting.levels /\ run = 0 /\ slowCalls = {} /\ dlq = <<>>
      /\ caller = [c \in Calls |-> "none"] /\ worker = [c \in Calls |-> "none"]
      /\ route = [c \in Calls |-> R!Unrouted] /\ breaker = [g \in R!Gateways |-> R!Shut]
      /\ callAge = [c \in Calls |-> 0] /\ worked = [c \in Calls |-> 0]
  BY DEF R!Init
<1>2. /\ level \in 0..Slots /\ MinSamples \in Nat /\ Workers \in Nat /\ setting.runs \in Seq(SUBSET Calls)
  BY <1>1 DEF R!RolloutAssumption
<1>3. R!Running = {} /\ R!Cardinality(R!Running) <= Workers
  <2>1. R!Running = {}
    BY <1>1 DEF R!Running
  <2> QED BY <1>2, <2>1, SameCardinality, FS_EmptySet
<1>4. R!Shut \in Breakers /\ R!Unrouted \in Routes
  BY <1>2 DEF R!Shut, Breakers, R!Unrouted, Routes
<1>5. WorldOK
  <2>1. breaker \in [R!Gateways -> Breakers] /\ route \in [Calls -> Routes]
    BY <1>1, <1>4
  <2>2. R!TypeOK
    BY <1>1, <1>2, <1>3, <2>1 DEF R!TypeOK, R!Told, Breakers
  <2>3. dlq \in Seq(Letters) /\ run \in 0..Len(setting.runs)
    BY <1>1, <1>2
  <2> QED BY <1>1, <2>1, <2>2, <2>3 DEF WorldOK
<1>6. ASSUME NEW c \in Calls PROVE CallFits(c)
  <2>1. Filed(c, "live") = 0 /\ Filed(c, "orphan") = 0
    BY <1>1, NothingFiled
  <2>2. LifeFits(c)
    <3>1. \A i \in DOMAIN setting.runs : ~(i <= 0)
      BY <1>2
    <3> QED BY <1>1, <3>1 DEF LifeFits, Executing
  <2>3. LettersFit(c) /\ RouteFits(c)
    BY <1>1, <2>1 DEF LettersFit, RouteFits, R!Told, R!Unrouted
  <2> QED BY <2>2, <2>3 DEF CallFits
<1>7. R!ProbeIsAwaited /\ TimeFits
  <2>1. \A c \in Calls : R!Limit(c) \in Nat \ {0}
    BY LimitType
  <2>2. \A c \in Calls : TimesFit(c) /\ Prompt(c)
    BY <1>1, <2>1 DEF TimesFit, Prompt, R!Running
  <2> QED BY <1>1, <2>2 DEF R!ProbeIsAwaited, R!Shut, TimeFits
<1> QED BY <1>5, <1>6, <1>7 DEF RolloutInv

(* Every step keeps the invariant. *)
LEMMA RolloutNext == RolloutInv /\ [R!Next]_R!vars => RolloutInv'
<1> SUFFICES ASSUME RolloutInv, [R!Next]_R!vars PROVE RolloutInv'
  OBVIOUS
<1>1. CASE UNCHANGED R!vars
  <2>1. UNCHANGED <<setting, level, run, caller, worker, slowCalls, route, dlq, breaker, callAge, worked, crowded>>
    BY <1>1 DEF R!vars, R!clock
  <2>2. \A d \in Calls : CallFits(d)'
    BY <2>1, FiledStays, OthersFit DEF RolloutInv
  <2>3. WorldOK'
    <3>1. R!Running' \subseteq R!Running /\ level \in 0..Slots
      BY <2>1 DEF R!Running, RolloutInv, WorldOK, R!TypeOK
    <3> QED BY <2>1, <3>1, WorldFacts, WorldKeeps DEF RolloutInv
  <2>4. R!ProbeIsAwaited' /\ TimeFits' /\ R!RolloutAssumption'
    BY <2>1, TimesStay DEF RolloutInv, R!ProbeIsAwaited, R!Waiting, R!Gateways, R!RolloutAssumption
  <2> QED BY <2>2, <2>3, <2>4 DEF RolloutInv
<1> QED
  BY <1>1, BeginKeeps, RestartKeeps, TickKeeps, CoolsDownKeeps, AcquireKeeps, TakeWorkerKeeps, ExecuteKeeps,
     LogDiffKeeps, DeadLetterKeeps, ReceiveKeeps, TimeOutKeeps, LateReturnKeeps
  DEF R!Next

(* The invariant of the gateway calls holds of every reachable state. *)
LEMMA RolloutInvariance ==
  ASSUME R!RolloutAssumption
  PROVE  R!Spec => []RolloutInv
<1>1. R!Init => RolloutInv
  BY RolloutInit
<1> QED BY <1>1, RolloutNext, PTL DEF R!Spec

(* Any calls, any pool: a failure nobody was told of is in the dead        *)
(* letters once, its own, whatever other calls log in between              *)
(* (msgraph_intake.py, nodes.py apply_effects, dead_letter_queue.py).      *)
THEOREM FailuresAreAlwaysFiled ==
  ASSUME R!RolloutAssumption
  PROVE  R!Spec => []R!FailuresAreFiled
<1>1. RolloutInv => R!FailuresAreFiled
  <2> SUFFICES ASSUME RolloutInv PROVE R!FailuresAreFiled
    OBVIOUS
  <2>1. R!TypeOK
    BY DEF RolloutInv, WorldOK
  <2>2. R!LettersAreOwn
    BY DEF RolloutInv, CallFits, LettersFit, R!LettersAreOwn, Filed, CountOf
  <2>3. R!OrphansAreFiled
    BY DEF RolloutInv, CallFits, LettersFit, R!OrphansAreFiled, Filed, CountOf, Effectful
  <2> QED BY <2>1, <2>2, <2>3 DEF R!FailuresAreFiled
<1> QED BY <1>1, RolloutInvariance, PTL

(* Any calls, limits and pool: as long as the pool is not crowded, a call  *)
(* times out only if some call has kept a worker for the whole of its own  *)
(* limit; a probe is awaited; raising the level takes no case back         *)
(* (executor.py, circuit_breaker.py, canary.py is_canary_eligible).        *)
THEOREM CallsAreAlwaysServed ==
  ASSUME R!RolloutAssumption
  PROVE  R!Spec => []R!CallsAreServed
<1>1. RolloutInv => R!CallsAreServed
  <2> SUFFICES ASSUME RolloutInv PROVE R!CallsAreServed
    OBVIOUS
  <2>1. R!RolloutIsMonotone
    <3> SUFFICES ASSUME NEW c \in Calls, NEW d \in Calls, route[c].live, route[d].able,
                        Asks[c].case = Asks[d].case, route[c].level <= route[d].level
                 PROVE  route[d].live
      BY DEF R!RolloutIsMonotone
    <3>1. /\ Asks[d].case # NoCase /\ Slot[Asks[d].case] < route[c].level
          /\ route[d].live <=> Slot[Asks[d].case] < route[d].level
      BY DEF RolloutInv, CallFits, RouteFits
    <3>2. Slot[Asks[d].case] \in Int /\ route[c].level \in Nat /\ route[d].level \in Nat
      BY <3>1, WorldFacts DEF RolloutInv, R!RolloutAssumption, Routes
    <3> QED BY <3>1, <3>2
  <2>2. R!HealthyIsServed
    BY DEF R!HealthyIsServed, RolloutInv, TimeFits, Quiet, Prompt
  <2> QED BY <2>1, <2>2 DEF RolloutInv, R!CallsAreServed
<1> QED BY <1>1, RolloutInvariance, PTL

-----------------------------------------------------------------------------
(* Sessions: the credentials.                                              *)

(* A key set names keys its process fetched, and is kept no longer after   *)
(* the end of one of them than KeyTtl: it was fetched while that was       *)
(* current.                                                                *)
KeyFits(set) ==
  /\ set.expires <= clock + KeyTtl
  /\ set.keys \subseteq 1..keys
  /\ \A k \in set.keys \ {keys} : set.expires <= retired[k] + KeyTtl
KeysFit ==
  /\ clock \in Nat /\ keys \in Nat \ {0} /\ (keys = 1 \/ keys <= MaxKeys)
  /\ retired \in [1..MaxKeys -> Nat] /\ age \in 0..KeyTtl
  /\ jwks \in [Processes -> [expires : Nat, keys : SUBSET Nat]]
  /\ \A p \in Processes : KeyFits(jwks[p])

(* What a process exchanged since it started, it has revoked. *)
TokensFit ==
  /\ ~twice
  /\ exchanged \in [Processes -> SUBSET Nat] /\ revoked \in [Processes -> SUBSET Nat]
  /\ tokens \in [Clients -> [access : Nat, refresh : Nat, jti : Nat]] /\ jtis \in Nat
  /\ \A p \in Processes : exchanged[p] \subseteq revoked[p]

CredentialsInv == {AccessTtl, RefreshTtl, KeyTtl, MaxKeys} \subseteq Nat /\ KeysFit /\ TokensFit

(* The later of two times is one of them. *)
LEMMA LaterOfTwo ==
  ASSUME NEW x \in Int, NEW y \in Int
  PROVE  Web!Max({x, y}) \in {x, y} /\ x <= Web!Max({x, y})
<1>1. \E m \in {x, y} : \A n \in {x, y} : m >= n
  <2>1. CASE x >= y
    BY <2>1
  <2>2. CASE ~(x >= y)
    BY <2>2
  <2> QED BY <2>1, <2>2
<1>2. /\ Web!Max({x, y}) \in {x, y}
      /\ \A n \in {x, y} : Web!Max({x, y}) >= n
  BY <1>1 DEF Web!Max
<1> QED BY <1>2

(* A step that leaves keys and tokens alone keeps both: time only passes. *)
LEMMA CredentialsStay ==
  ASSUME CredentialsInv, UNCHANGED <<tokens, jtis, revoked, exchanged, twice, keys, retired, jwks, age>>,
         clock' \in {clock, clock + 1}
  PROVE  CredentialsInv'
<1>1. ASSUME NEW p \in Processes PROVE KeyFits(jwks[p])'
  <2>1. KeyFits(jwks[p]) /\ jwks[p].expires \in Nat /\ clock \in Nat /\ KeyTtl \in Nat
    BY DEF CredentialsInv, KeysFit
  <2> QED BY <2>1 DEF KeyFits
<1>2. clock' \in Nat
  BY DEF CredentialsInv, KeysFit
<1> QED BY <1>1, <1>2 DEF CredentialsInv, KeysFit, TokensFit

(* A login gives a new pair. *)
LEMMA PairTyped ==
  ASSUME CredentialsInv
  PROVE  Web!Pair(jtis + 1) \in [access : Nat, refresh : Nat, jti : Nat]
BY DEF Web!Pair, CredentialsInv, KeysFit, TokensFit

(* Login: the pair's identifier is new. *)
LEMMA LoginKeeps ==
  ASSUME CredentialsInv, NEW c \in Clients, NEW p \in Processes, Web!Login(c, p)
  PROVE  CredentialsInv'
<1>1. /\ tokens' = [tokens EXCEPT ![c] = Web!Pair(jtis + 1)] /\ jtis' = jtis + 1
      /\ UNCHANGED <<clock, revoked, exchanged, twice, keys, retired, jwks, age>>
  BY DEF Web!Login, Web!entra
<1>2. tokens' \in [Clients -> [access : Nat, refresh : Nat, jti : Nat]] /\ jtis' \in Nat
  <2>1. tokens \in [Clients -> [access : Nat, refresh : Nat, jti : Nat]] /\ jtis \in Nat
    BY DEF CredentialsInv, TokensFit
  <2>2. PICK pair : pair = Web!Pair(jtis + 1)
    OBVIOUS
  <2> QED BY <1>1, <2>1, <2>2, PairTyped
<1> QED BY <1>1, <1>2 DEF CredentialsInv, KeysFit, KeyFits, TokensFit

(* A token is refused once its process has it on the list, which it is put *)
(* on before it is exchanged.                                              *)
LEMMA RefreshKeeps ==
  ASSUME CredentialsInv, NEW c \in Clients, NEW p \in Processes, Web!Refresh(c, p)
  PROVE  CredentialsInv'
<1>1. PICK jti : jti = tokens[c].jti
  OBVIOUS
<1>2. /\ jti \notin revoked[p]
      /\ revoked' = [revoked EXCEPT ![p] = revoked[p] \cup {jti}]
      /\ exchanged' = [exchanged EXCEPT ![p] = exchanged[p] \cup {jti}]
      /\ twice' = (twice \/ jti \in exchanged[p]) /\ jtis' = jtis + 1
      /\ tokens' = [tokens EXCEPT ![c] = Web!Pair(jtis + 1)] \/ UNCHANGED tokens
      /\ UNCHANGED <<clock, keys, retired, jwks, age>>
  BY <1>1 DEF Web!Refresh, Web!Spent, Web!entra
<1>3. /\ ~twice /\ jti \in Nat /\ exchanged[p] \subseteq revoked[p]
      /\ exchanged \in [Processes -> SUBSET Nat] /\ revoked \in [Processes -> SUBSET Nat]
      /\ tokens \in [Clients -> [access : Nat, refresh : Nat, jti : Nat]] /\ jtis \in Nat
  BY <1>1 DEF CredentialsInv, TokensFit
<1>4. ~twice'
  BY <1>2, <1>3
<1>5. exchanged' \in [Processes -> SUBSET Nat] /\ revoked' \in [Processes -> SUBSET Nat]
  BY <1>2, <1>3
<1>6. ASSUME NEW q \in Processes PROVE exchanged'[q] \subseteq revoked'[q]
  BY <1>2, <1>3 DEF CredentialsInv, TokensFit
<1>7. tokens' \in [Clients -> [access : Nat, refresh : Nat, jti : Nat]] /\ jtis' \in Nat
  <2>1. PICK pair : pair = Web!Pair(jtis + 1)
    OBVIOUS
  <2> QED BY <1>2, <1>3, <2>1, PairTyped
<1> QED BY <1>2, <1>4, <1>5, <1>6, <1>7 DEF CredentialsInv, KeysFit, KeyFits, TokensFit

(* A key the process has a set for is accepted before the set expires. *)
LEMMA EntraCallKeeps ==
  ASSUME CredentialsInv, NEW p \in Processes, NEW kid \in 1..MaxKeys, Web!EntraCall(p, kid)
  PROVE  CredentialsInv'
<1>1. /\ kid \in 1..keys
      /\ UNCHANGED <<clock, tokens, jtis, revoked, exchanged, twice, keys, retired>>
  BY DEF Web!EntraCall, Web!auth
<1>2. /\ clock \in Nat /\ keys \in Nat \ {0} /\ (keys = 1 \/ keys <= MaxKeys) /\ MaxKeys \in Nat
      /\ retired \in [1..MaxKeys -> Nat] /\ age \in 0..KeyTtl /\ KeyTtl \in Nat
      /\ jwks \in [Processes -> [expires : Nat, keys : SUBSET Nat]]
  BY DEF CredentialsInv, KeysFit
<1>3. ASSUME age' \in 0..KeyTtl, jwks' \in [Processes -> [expires : Nat, keys : SUBSET Nat]],
             KeyFits(jwks[p])', \A q \in Processes \ {p} : jwks'[q] = jwks[q]
      PROVE  CredentialsInv'
  <2>1. ASSUME NEW q \in Processes PROVE KeyFits(jwks[q])'
    <3>1. CASE q = p
      BY <1>3, <3>1
    <3>2. CASE q # p
      BY <1>1, <1>3, <3>2 DEF CredentialsInv, KeysFit, KeyFits
    <3> QED BY <3>1, <3>2
  <2> QED BY <1>1, <1>3, <2>1 DEF CredentialsInv, KeysFit, TokensFit
<1>4. KeyFits(jwks[p])
  BY DEF CredentialsInv, KeysFit
<1>5. CASE Web!Usable(jwks[p], kid) /\ Web!Accepted(kid) /\ UNCHANGED jwks
  <2>1. age' \in 0..KeyTtl
    <3>1. CASE kid = keys
      BY <1>2, <1>5, <3>1 DEF Web!Accepted
    <3>2. CASE kid # keys
      <4>1. /\ clock < jwks[p].expires /\ jwks[p].expires <= retired[kid] + KeyTtl
            /\ jwks[p].expires \in Nat /\ retired[kid] \in Nat
        BY <1>2, <1>4, <1>5, <3>2 DEF Web!Usable, KeyFits
      <4>2. PICK over : over = clock - retired[kid]
        OBVIOUS
      <4>3. over \in Int /\ over <= KeyTtl
        BY <1>2, <4>1, <4>2
      <4>4. age' = Web!Max({age, over})
        BY <1>5, <3>2, <4>2 DEF Web!Accepted
      <4>5. age \in Int /\ age <= KeyTtl /\ 0 <= age
        BY <1>2
      <4>6. Web!Max({age, over}) \in {age, over} /\ age <= Web!Max({age, over})
        BY <4>3, <4>5, LaterOfTwo
      <4>7. PICK m : m = Web!Max({age, over})
        OBVIOUS
      <4>8. (m = age \/ m = over) /\ age <= m
        BY <4>6, <4>7
      <4> QED BY <1>2, <4>3, <4>4, <4>5, <4>7, <4>8
    <3> QED BY <3>1, <3>2
  <2>2. KeyFits(jwks[p])'
    BY <1>1, <1>4, <1>5 DEF KeyFits
  <2> QED BY <1>2, <1>3, <1>5, <2>1, <2>2
<1>6. CASE /\ jwks' = [jwks EXCEPT ![p] = [expires |-> clock + KeyTtl, keys |-> {keys}]]
           /\ age' = age
  <2>1. PICK set : set = [expires |-> clock + KeyTtl, keys |-> {keys}]
    OBVIOUS
  <2>2. set \in [expires : Nat, keys : SUBSET Nat]
    BY <1>2, <2>1
  <2>3. KeyFits(set)'
    BY <1>1, <1>2, <2>1 DEF KeyFits
  <2>4. jwks' \in [Processes -> [expires : Nat, keys : SUBSET Nat]] /\ jwks'[p] = set
        /\ \A q \in Processes \ {p} : jwks'[q] = jwks[q]
    BY <1>2, <1>6, <2>1, <2>2
  <2>5. KeyFits(jwks[p])'
    BY <2>3, <2>4 DEF KeyFits
  <2>6. age' \in 0..KeyTtl
    BY <1>2, <1>6
  <2> QED BY <1>3, <2>4, <2>5, <2>6
<1>7. CASE UNCHANGED <<jwks, age>>
  <2>1. KeyFits(jwks[p])'
    BY <1>1, <1>4, <1>7 DEF KeyFits
  <2> QED BY <1>2, <1>3, <1>7, <2>1
<1> QED BY <1>5, <1>6, <1>7 DEF Web!EntraCall, Web!Accepted

(* A set that holds the key that ends was fetched before. *)
LEMMA RotateKeyKeeps ==
  ASSUME CredentialsInv, Web!RotateKey
  PROVE  CredentialsInv'
<1>1. /\ keys < MaxKeys /\ keys' = keys + 1 /\ retired' = [retired EXCEPT ![keys] = clock]
      /\ UNCHANGED <<clock, tokens, jtis, revoked, exchanged, twice, jwks, age>>
  BY DEF Web!RotateKey, Web!auth
<1>2. /\ clock \in Nat /\ keys \in Nat \ {0} /\ MaxKeys \in Nat /\ KeyTtl \in Nat
      /\ retired \in [1..MaxKeys -> Nat]
      /\ jwks \in [Processes -> [expires : Nat, keys : SUBSET Nat]]
  BY DEF CredentialsInv, KeysFit
<1>3. /\ keys' \in Nat \ {0} /\ keys' <= MaxKeys /\ retired' \in [1..MaxKeys -> Nat]
      /\ retired'[keys] = clock /\ \A k \in 1..MaxKeys \ {keys} : retired'[k] = retired[k]
  BY <1>1, <1>2
<1>4. ASSUME NEW p \in Processes PROVE KeyFits(jwks[p])'
  <2>1. PICK set : set = jwks[p]
    OBVIOUS
  <2>2. set.expires \in Nat /\ set.expires <= clock + KeyTtl /\ set.keys \subseteq 1..keys
        /\ \A k \in set.keys \ {keys} : set.expires <= retired[k] + KeyTtl
    BY <1>2, <2>1 DEF CredentialsInv, KeysFit, KeyFits
  <2>3. ASSUME NEW k \in set.keys PROVE set.expires <= retired'[k] + KeyTtl
    <3>1. CASE k = keys
      BY <1>3, <2>2, <3>1
    <3>2. CASE k # keys
      BY <1>1, <1>2, <1>3, <2>2, <3>2
    <3> QED BY <3>1, <3>2
  <2>4. set.keys \subseteq 1..keys'
    BY <1>1, <1>2, <2>2
  <2> QED BY <1>1, <2>1, <2>2, <2>3, <2>4 DEF KeyFits
<1> QED BY <1>1, <1>3, <1>4 DEF CredentialsInv, KeysFit, TokensFit

(* A restart forgets the list and what was exchanged under it. *)
LEMMA RestartForgets ==
  ASSUME CredentialsInv, NEW p \in Processes, Web!Restart(p)
  PROVE  CredentialsInv'
<1>1. /\ revoked' = [revoked EXCEPT ![p] = {}] /\ exchanged' = [exchanged EXCEPT ![p] = {}]
      /\ jwks' = [jwks EXCEPT ![p] = [expires |-> 0, keys |-> {}]]
      /\ UNCHANGED <<clock, tokens, jtis, twice, keys, retired, age>>
  BY DEF Web!Restart
<1>2. [expires |-> 0, keys |-> {}] \in [expires : Nat, keys : SUBSET Nat]
  OBVIOUS
<1>3. KeysFit'
  <2>1. /\ clock \in Nat /\ KeyTtl \in Nat
        /\ jwks \in [Processes -> [expires : Nat, keys : SUBSET Nat]]
    BY DEF CredentialsInv, KeysFit
  <2>2. PICK none : none = [expires |-> 0, keys |-> {}]
    OBVIOUS
  <2>3. KeyFits(none)'
    BY <1>1, <2>1, <2>2 DEF KeyFits
  <2>4. ASSUME NEW q \in Processes PROVE KeyFits(jwks[q])'
    <3>1. CASE q = p
      BY <1>1, <2>1, <2>2, <2>3, <3>1
    <3>2. CASE q # p
      <4>1. jwks'[q] = jwks[q] /\ KeyFits(jwks[q])
        BY <1>1, <2>1, <3>2 DEF CredentialsInv, KeysFit
      <4> QED BY <1>1, <4>1 DEF KeyFits
    <3> QED BY <3>1, <3>2
  <2>5. jwks' \in [Processes -> [expires : Nat, keys : SUBSET Nat]]
    BY <1>1, <1>2, <2>1
  <2> QED BY <1>1, <2>4, <2>5 DEF CredentialsInv, KeysFit
<1>4. TokensFit'
  <2>1. exchanged \in [Processes -> SUBSET Nat] /\ revoked \in [Processes -> SUBSET Nat]
    BY DEF CredentialsInv, TokensFit
  <2>2. exchanged' \in [Processes -> SUBSET Nat] /\ revoked' \in [Processes -> SUBSET Nat]
    BY <1>1, <2>1
  <2>3. ASSUME NEW q \in Processes PROVE exchanged'[q] \subseteq revoked'[q]
    BY <1>1, <2>1 DEF CredentialsInv, TokensFit
  <2> QED BY <1>1, <2>2, <2>3 DEF CredentialsInv, TokensFit
<1> QED BY <1>3, <1>4 DEF CredentialsInv

(* Nothing is issued, exchanged or fetched yet. *)
LEMMA CredentialsInit == Web!SessionsAssumption /\ Web!Init => CredentialsInv
<1> SUFFICES ASSUME Web!SessionsAssumption, Web!Init PROVE CredentialsInv
  OBVIOUS
<1>1. {AccessTtl, RefreshTtl, KeyTtl, MaxKeys} \subseteq Nat
  BY DEF Web!SessionsAssumption
<1>2. KeysFit
  <2>1. PICK none : none = [expires |-> 0, keys |-> {}]
    OBVIOUS
  <2>2. clock = 0 /\ keys = 1 /\ age = 0 /\ retired = [k \in 1..MaxKeys |-> 0]
        /\ jwks = [p \in Processes |-> none]
    BY <2>1 DEF Web!Init
  <2>3. none \in [expires : Nat, keys : SUBSET Nat] /\ KeyFits(none)
    BY <1>1, <2>1, <2>2 DEF KeyFits
  <2> QED BY <1>1, <2>2, <2>3 DEF KeysFit
<1>3. TokensFit
  <2>1. PICK pair : pair = [access |-> AccessTtl, refresh |-> RefreshTtl, jti |-> 0]
    OBVIOUS
  <2>2. pair \in [access : Nat, refresh : Nat, jti : Nat]
    BY <1>1, <2>1
  <2>3. tokens = [c \in Clients |-> pair] /\ jtis = 0 /\ twice = FALSE
        /\ revoked = [p \in Processes |-> {}] /\ exchanged = [p \in Processes |-> {}]
    BY <2>1 DEF Web!Init
  <2> QED BY <2>2, <2>3 DEF TokensFit
<1> QED BY <1>1, <1>2, <1>3 DEF CredentialsInv

(* Every step keeps the credentials. *)
LEMMA CredentialsNext == CredentialsInv /\ [Web!Next]_Web!vars => CredentialsInv'
<1> SUFFICES ASSUME CredentialsInv, [Web!Next]_Web!vars PROVE CredentialsInv'
  OBVIOUS
<1>1. ASSUME NEW p \in Processes,
             \/ Web!Attach(p) \/ Web!Handle(p)
             \/ \E c \in Clients : Web!ReadIntents(p, Org[c]) \/ Web!Open(c, p)
      PROVE  CredentialsInv'
  <2>1. UNCHANGED <<clock, tokens, jtis, revoked, exchanged, twice, keys, retired, jwks, age>>
    BY <1>1 DEF Web!Attach, Web!Handle, Web!Keep, Web!StoreRecord, Web!Announce, Web!ReadIntents,
                Web!Open, Web!auth, Web!entra
  <2> QED BY <2>1, CredentialsStay
<1>2. ASSUME NEW c \in Clients, Web!Send(c) \/ Web!Subscribe(c) \/ Web!Ping(c) \/ Web!Disconnect(c)
      PROVE  CredentialsInv'
  <2>1. UNCHANGED <<clock, tokens, jtis, revoked, exchanged, twice, keys, retired, jwks, age>>
    BY <1>2 DEF Web!Send, Web!Subscribe, Web!Ping, Web!Disconnect, Web!auth, Web!entra
  <2> QED BY <2>1, CredentialsStay
<1>3. CASE Web!Tick \/ UNCHANGED Web!vars
  <2>1. /\ UNCHANGED <<tokens, jtis, revoked, exchanged, twice, keys, retired, jwks, age>>
        /\ clock' \in {clock, clock + 1}
    BY <1>3 DEF Web!Tick, Web!vars, Web!auth, Web!entra
  <2> QED BY <2>1, CredentialsStay
<1> QED
  BY <1>1, <1>2, <1>3, LoginKeeps, RefreshKeeps, EntraCallKeeps, RotateKeyKeeps, RestartForgets
     DEF Web!Next

(* CredentialsLapse, for any processes, clients and lifetimes: a process   *)
(* exchanges a refresh token at most once until it restarts, and accepts a *)
(* signing key no longer after its end than it keeps a key set (auth.py    *)
(* refresh, azure_ad_jwks.py get_jwk_for_kid).                             *)
THEOREM CredentialsAlwaysLapse ==
  ASSUME Web!SessionsAssumption
  PROVE  Web!Spec => []Web!CredentialsLapse
<1>1. Web!Init => CredentialsInv
  BY CredentialsInit
<1>2. CredentialsInv => Web!CredentialsLapse
  BY DEF CredentialsInv, KeysFit, TokensFit, Web!CredentialsLapse, Web!ExchangedOnce, Web!KeyIsRecent
<1> QED BY <1>1, <1>2, CredentialsNext, PTL DEF Web!Spec

-----------------------------------------------------------------------------
(* Sessions: the handlers that store records, and the cached intents.      *)

HandlerSteps == {"idle", "case", "store", "announce", "done"}
Events == [change : Nat, kind : {"case", "done"}, tenant : Tenants, at : Nat]
Handlers == [step : HandlerSteps, change : Nat, tenant : Tenants \cup {"none"}, closing : BOOLEAN,
             pending : SUBSET Events]
Children == [change : Nat, tenant : Tenants, by : Processes, closing : BOOLEAN]

(* Between storing its record and its end a handler answers nobody, so the *)
(* entry it dropped before is still empty; what it announces is stored.    *)
HandlerFits(p, h) ==
  /\ h.step # "idle" => h.tenant \in Tenants
  /\ h.step \in {"store", "announce", "done"} /\ ~h.closing => intents[p][h.tenant] = {0}
  /\ h.step \in {"announce", "done"} => \E r \in children : r.change = h.change
(* A cached entry has all records but those that did not drop it. *)
EntryFits(p, t) ==
  intents[p][t] # {0} =>
    \A r \in children : r.tenant = t /\ r.change \notin intents[p][t] => r.by # p \/ r.closing

FeedWorld ==
  /\ deployment \in Deployments /\ clock \in Nat /\ changes \in Nat /\ Org \in [Clients -> Tenants]
  /\ handler \in [Processes -> Handlers] /\ intents \in [Processes -> [Tenants -> SUBSET Nat]]
  /\ children \subseteq Children /\ published \subseteq Events
FeedInv ==
  /\ Web!SessionsAssumption /\ FeedWorld
  /\ \A p \in Processes : HandlerFits(p, handler[p])
  /\ \A p \in Processes, t \in Tenants : EntryFits(p, t)
  /\ Web!AnnouncedIsStored

(* A handler that goes on, and drops an entry of its own process at most,  *)
(* leaves the others as they were.                                         *)
LEMMA HandlerKeeps ==
  ASSUME FeedInv, NEW p \in Processes, NEW h \in Handlers, handler' = [handler EXCEPT ![p] = h],
         HandlerFits(p, h)', clock' = clock, changes' \in Nat, UNCHANGED <<deployment, children>>,
         intents' \in [Processes -> [Tenants -> SUBSET Nat]],
         \A q \in Processes, t \in Tenants :
           intents'[q][t] = intents[q][t] \/ (q = p /\ intents'[q][t] = {0}),
         published' \subseteq Events,
         \A e \in published' \ published : e.kind = "done" => \E r \in children : r.change = e.change
  PROVE  FeedInv'
<1>1. FeedWorld'
  BY DEF FeedInv, FeedWorld
<1>2. ASSUME NEW q \in Processes PROVE HandlerFits(q, handler[q])'
  <2>1. CASE q = p
    <3>1. handler'[q] = h
      BY <2>1 DEF FeedInv, FeedWorld
    <3> QED BY <2>1, <3>1 DEF HandlerFits
  <2>2. CASE q # p
    <3>1. handler'[q] = handler[q] /\ HandlerFits(q, handler[q])
          /\ \A t \in Tenants : intents'[q][t] = intents[q][t]
      BY <2>2 DEF FeedInv, FeedWorld
    <3> QED BY <3>1 DEF HandlerFits
  <2> QED BY <2>1, <2>2
<1>3. ASSUME NEW q \in Processes, NEW t \in Tenants PROVE EntryFits(q, t)'
  <2>1. EntryFits(q, t)
    BY DEF FeedInv
  <2>2. intents'[q][t] = intents[q][t] \/ intents'[q][t] = {0}
    OBVIOUS
  <2> QED BY <2>1, <2>2 DEF EntryFits
<1>4. Web!AnnouncedIsStored'
  BY DEF FeedInv, Web!AnnouncedIsStored
<1> QED BY <1>1, <1>2, <1>3, <1>4 DEF FeedInv, Web!SessionsAssumption

(* A step of sockets, tokens, keys or time changes none of this. *)
LEMMA FeedStays ==
  ASSUME FeedInv, UNCHANGED <<deployment, handler, changes, children, intents, published>>,
         clock' \in {clock, clock + 1}
  PROVE  FeedInv'
<1>1. FeedWorld'
  BY DEF FeedInv, FeedWorld
<1>2. \A p \in Processes : HandlerFits(p, handler[p])'
  BY DEF FeedInv, HandlerFits
<1>3. \A p \in Processes, t \in Tenants : EntryFits(p, t)'
  BY DEF FeedInv, EntryFits
<1>4. Web!AnnouncedIsStored'
  BY DEF FeedInv, Web!AnnouncedIsStored
<1> QED BY <1>1, <1>2, <1>3, <1>4 DEF FeedInv, Web!SessionsAssumption

(* What a handler posts is its event, and it may have to keep it.  *)
LEMMA PostMoves ==
  ASSUME NEW p, NEW h \in Handlers, NEW e \in Events, Web!Post(p, h, e)
  PROVE  \E n \in Handlers :
           /\ handler' = [handler EXCEPT ![p] = n] /\ published' = published \cup {e}
           /\ n.step = h.step /\ n.tenant = h.tenant /\ n.closing = h.closing /\ n.change = h.change
<1>1. PICK n : n = [h EXCEPT !.pending = {e}]
  OBVIOUS
<1>2. n \in Handlers /\ n.step = h.step /\ n.tenant = h.tenant /\ n.closing = h.closing
      /\ n.change = h.change
  BY <1>1 DEF Handlers
<1>3. handler' = [handler EXCEPT ![p] = h] \/ handler' = [handler EXCEPT ![p] = n]
  BY <1>1 DEF Web!Post
<1>4. published' = published \cup {e}
  BY DEF Web!Post
<1> QED BY <1>2, <1>3, <1>4

(* An arrival begins with the case's event. *)
LEMMA AttachKeeps ==
  ASSUME FeedInv, NEW p \in Processes, Web!Attach(p)
  PROVE  FeedInv'
<1>1. changes' = changes + 1 /\ UNCHANGED <<deployment, clock, children, intents>>
  BY DEF Web!Attach
<1>2. PICK a \in deployment.arrivals :
        LET h == [step |-> "case", change |-> changes + 1, tenant |-> a.tenant,
                  closing |-> a.closing, pending |-> {}]
        IN  Web!Post(p, h, Web!Event(h, "case"))
  BY DEF Web!Attach
<1>3. PICK h : h = [step |-> "case", change |-> changes + 1, tenant |-> a.tenant,
                    closing |-> a.closing, pending |-> {}]
  OBVIOUS
<1>4. PICK e : e = Web!Event(h, "case")
  OBVIOUS
<1>5. /\ changes \in Nat /\ clock \in Nat /\ intents \in [Processes -> [Tenants -> SUBSET Nat]]
      /\ published \subseteq Events /\ a.tenant \in Tenants /\ a.closing \in BOOLEAN
  BY DEF FeedInv, FeedWorld, Web!SessionsAssumption
<1>6. h \in Handlers /\ h.step = "case" /\ h.tenant = a.tenant
  BY <1>3, <1>5 DEF Handlers, HandlerSteps
<1>7. e \in Events /\ e.kind = "case"
  BY <1>3, <1>4, <1>5 DEF Web!Event, Events
<1>8. Web!Post(p, h, e)
  BY <1>2, <1>3, <1>4
<1>9. h \in Handlers /\ e \in Events
  BY <1>6, <1>7
<1>10. PICK n \in Handlers :
         /\ handler' = [handler EXCEPT ![p] = n] /\ published' = published \cup {e}
         /\ n.step = h.step /\ n.tenant = h.tenant /\ n.closing = h.closing /\ n.change = h.change
  BY <1>8, <1>9, PostMoves
<1>11. HandlerFits(p, n)'
  BY <1>5, <1>6, <1>10 DEF HandlerFits
<1>12. /\ published' \subseteq Events
       /\ \A f \in published' \ published : f.kind = "done" => \E r \in children : r.change = f.change
  BY <1>5, <1>7, <1>10
<1>13. /\ changes' \in Nat /\ intents' \in [Processes -> [Tenants -> SUBSET Nat]]
       /\ \A q \in Processes, t \in Tenants : intents'[q][t] = intents[q][t]
  BY <1>1, <1>5
<1> QED BY <1>1, <1>10, <1>11, <1>12, <1>13, HandlerKeeps

(* After the case's event the entry is dropped; after the last one the     *)
(* handler is idle.                                                        *)
LEMMA KeepKeeps ==
  ASSUME FeedInv, NEW p \in Processes, Web!Keep(p)
  PROVE  FeedInv'
<1>1. PICK h : h = handler[p]
  OBVIOUS
<1>2. PICK n : n = IF h.step = "done" THEN Web!Idle
                   ELSE [h EXCEPT !.step = Web!Following(h.step), !.pending = {}]
  OBVIOUS
<1>3. /\ h.step \in {"case", "done"} /\ handler' = [handler EXCEPT ![p] = n]
      /\ intents' = IF h.step = "case" /\ Web!Drops(h)
                    THEN [intents EXCEPT ![p][h.tenant] = {0}] ELSE intents
      /\ UNCHANGED <<deployment, clock, changes, children, published>>
  BY <1>1, <1>2 DEF Web!Keep
<1>4. /\ h \in Handlers /\ h.tenant \in Tenants /\ changes \in Nat /\ published \subseteq Events
      /\ intents \in [Processes -> [Tenants -> SUBSET Nat]]
  BY <1>1, <1>3 DEF FeedInv, FeedWorld, HandlerFits
<1>5. /\ n \in Handlers
      /\ h.step = "done" => n.step = "idle"
      /\ h.step = "case" => n.step = "store" /\ n.tenant = h.tenant /\ n.closing = h.closing
  <2>1. CASE h.step = "done"
    BY <1>2, <2>1 DEF Web!Idle, Handlers, HandlerSteps
  <2>2. CASE h.step = "case"
    BY <1>2, <1>4, <2>2 DEF Web!Following, Handlers, HandlerSteps
  <2> QED BY <1>3, <2>1, <2>2
<1>6. /\ intents' \in [Processes -> [Tenants -> SUBSET Nat]]
      /\ \A q \in Processes, t \in Tenants :
           intents'[q][t] = intents[q][t] \/ (q = p /\ intents'[q][t] = {0})
      /\ h.step = "case" /\ ~h.closing => intents'[p][h.tenant] = {0}
  <2>1. CASE h.step = "case" /\ ~h.closing
    <3>1. PICK row : row = [intents[p] EXCEPT ![h.tenant] = {0}]
      OBVIOUS
    <3>2. row \in [Tenants -> SUBSET Nat] /\ row[h.tenant] = {0}
          /\ \A t \in Tenants : row[t] = intents[p][t] \/ row[t] = {0}
      BY <1>4, <3>1
    <3>3. intents' = [intents EXCEPT ![p] = row]
      BY <1>3, <2>1, <3>1 DEF Web!Drops
    <3> QED BY <1>4, <3>2, <3>3
  <2>2. CASE ~(h.step = "case" /\ ~h.closing)
    BY <1>3, <1>4, <2>2 DEF Web!Drops
  <2> QED BY <2>1, <2>2
<1>7. HandlerFits(p, n)'
  BY <1>3, <1>4, <1>5, <1>6 DEF HandlerFits
<1> QED BY <1>3, <1>4, <1>5, <1>6, <1>7, HandlerKeeps

(* A record is stored while its process has no entry for the tenant, or    *)
(* closed the case.                                                        *)
LEMMA StoreRecordKeeps ==
  ASSUME FeedInv, NEW p \in Processes, Web!StoreRecord(p)
  PROVE  FeedInv'
<1>1. PICK h : h = handler[p]
  OBVIOUS
<1>2. PICK n : n = [h EXCEPT !.step = "announce"]
  OBVIOUS
<1>3. PICK r : r = [change |-> h.change, tenant |-> h.tenant, by |-> p, closing |-> h.closing]
  OBVIOUS
<1>4. /\ h.step = "store" /\ handler' = [handler EXCEPT ![p] = n] /\ children' = children \cup {r}
      /\ UNCHANGED <<deployment, clock, changes, intents, published>>
  BY <1>1, <1>2, <1>3 DEF Web!StoreRecord
<1>5. /\ h \in Handlers /\ h.tenant \in Tenants /\ HandlerFits(p, h)
  BY <1>1, <1>4 DEF FeedInv, FeedWorld, HandlerFits
<1>6. n \in Handlers /\ n.step = "announce" /\ n.tenant = h.tenant /\ n.closing = h.closing
      /\ n.change = h.change
  BY <1>2, <1>5 DEF Handlers, HandlerSteps
<1>7. r \in Children /\ r.change = h.change /\ r.tenant = h.tenant /\ r.by = p /\ r.closing = h.closing
  BY <1>3, <1>5 DEF Children, Handlers
<1>8. FeedWorld'
  BY <1>4, <1>6, <1>7 DEF FeedInv, FeedWorld
<1>9. ASSUME NEW q \in Processes PROVE HandlerFits(q, handler[q])'
  <2>1. CASE q = p
    <3>1. handler'[q] = n
      BY <1>4, <2>1 DEF FeedInv, FeedWorld
    <3>2. ~n.closing => intents'[p][n.tenant] = {0}
      BY <1>4, <1>5, <1>6 DEF HandlerFits
    <3>3. \E x \in children' : x.change = n.change
      BY <1>4, <1>6, <1>7
    <3> QED BY <1>5, <1>6, <2>1, <3>1, <3>2, <3>3 DEF HandlerFits
  <2>2. CASE q # p
    <3>1. handler'[q] = handler[q] /\ HandlerFits(q, handler[q])
      BY <1>4, <2>2 DEF FeedInv, FeedWorld
    <3> QED BY <1>4, <3>1 DEF HandlerFits
  <2> QED BY <2>1, <2>2
<1>10. ASSUME NEW q \in Processes, NEW t \in Tenants PROVE EntryFits(q, t)'
  <2>1. EntryFits(q, t)
    BY DEF FeedInv
  <2>2. intents[q][t] # {0} /\ q = p /\ t = h.tenant => h.closing
    BY <1>4, <1>5 DEF HandlerFits
  <2> QED BY <1>4, <1>7, <2>1, <2>2 DEF EntryFits
<1>11. Web!AnnouncedIsStored'
  BY <1>4 DEF FeedInv, Web!AnnouncedIsStored
<1> QED BY <1>8, <1>9, <1>10, <1>11 DEF FeedInv, Web!SessionsAssumption

(* What is announced has been stored. *)
LEMMA AnnounceKeeps ==
  ASSUME FeedInv, NEW p \in Processes, Web!Announce(p)
  PROVE  FeedInv'
<1>1. PICK g : g = handler[p]
  OBVIOUS
<1>2. PICK h : h = [g EXCEPT !.step = "done"]
  OBVIOUS
<1>3. PICK e : e = Web!Event(g, "done")
  OBVIOUS
<1>4. /\ g.step = "announce" /\ Web!Post(p, h, e)
      /\ UNCHANGED <<deployment, clock, changes, children, intents>>
  BY <1>1, <1>2, <1>3 DEF Web!Announce
<1>5. /\ g \in Handlers /\ g.tenant \in Tenants /\ HandlerFits(p, g) /\ clock \in Nat
      /\ changes \in Nat /\ intents \in [Processes -> [Tenants -> SUBSET Nat]]
      /\ published \subseteq Events
  BY <1>1, <1>4 DEF FeedInv, FeedWorld, HandlerFits
<1>6. h \in Handlers /\ h.step = "done" /\ h.tenant = g.tenant /\ h.closing = g.closing
      /\ h.change = g.change
  BY <1>2, <1>5 DEF Handlers, HandlerSteps
<1>7. e \in Events /\ e.change = g.change
  BY <1>3, <1>5 DEF Web!Event, Events, Handlers
<1>8. h \in Handlers /\ e \in Events /\ Web!Post(p, h, e)
  BY <1>4, <1>6, <1>7
<1>9. PICK n \in Handlers :
        /\ handler' = [handler EXCEPT ![p] = n] /\ published' = published \cup {e}
        /\ n.step = h.step /\ n.tenant = h.tenant /\ n.closing = h.closing /\ n.change = h.change
  BY <1>8, PostMoves
<1>10. HandlerFits(p, n)'
  BY <1>4, <1>5, <1>6, <1>9 DEF HandlerFits
<1>11. /\ published' \subseteq Events
       /\ \A f \in published' \ published : f.kind = "done" => \E r \in children : r.change = f.change
  BY <1>4, <1>5, <1>7, <1>9 DEF HandlerFits
<1> QED BY <1>4, <1>5, <1>9, <1>10, <1>11, HandlerKeeps

(* An entry is filled with all records by a process that has none under    *)
(* way.                                                                    *)
LEMMA ReadIntentsKeeps ==
  ASSUME FeedInv, NEW p \in Processes, NEW t \in Tenants, Web!ReadIntents(p, t)
  PROVE  FeedInv'
<1>1. PICK entry : entry = Web!Derived(t)
  OBVIOUS
<1>2. /\ handler[p].step = "idle" /\ intents' = [intents EXCEPT ![p][t] = entry]
      /\ UNCHANGED <<deployment, clock, handler, changes, children, published>>
  BY <1>1 DEF Web!ReadIntents, Web!Answers
<1>3. /\ entry \in SUBSET Nat /\ \A r \in children : r.tenant = t => r.change \in entry
  BY <1>1 DEF Web!Derived, FeedInv, FeedWorld, Children
<1>4. /\ intents' \in [Processes -> [Tenants -> SUBSET Nat]] /\ intents'[p][t] = entry
      /\ \A q \in Processes, u \in Tenants : q # p \/ u # t => intents'[q][u] = intents[q][u]
  <2>1. PICK row : row = [intents[p] EXCEPT ![t] = entry]
    OBVIOUS
  <2>2. intents \in [Processes -> [Tenants -> SUBSET Nat]]
    BY DEF FeedInv, FeedWorld
  <2>3. row \in [Tenants -> SUBSET Nat] /\ row[t] = entry
        /\ \A u \in Tenants : u # t => row[u] = intents[p][u]
    BY <1>3, <2>1, <2>2
  <2>4. intents' = [intents EXCEPT ![p] = row]
    BY <1>2, <2>1
  <2> QED BY <2>2, <2>3, <2>4
<1>5. FeedWorld'
  BY <1>2, <1>4 DEF FeedInv, FeedWorld
<1>6. ASSUME NEW q \in Processes PROVE HandlerFits(q, handler[q])'
  <2>1. HandlerFits(q, handler[q])
    BY DEF FeedInv
  <2>2. CASE q = p
    BY <1>2, <2>2 DEF HandlerFits
  <2>3. CASE q # p
    BY <1>2, <1>4, <2>1, <2>3 DEF HandlerFits
  <2> QED BY <2>2, <2>3
<1>7. ASSUME NEW q \in Processes, NEW u \in Tenants PROVE EntryFits(q, u)'
  <2>1. EntryFits(q, u)
    BY DEF FeedInv
  <2>2. CASE q = p /\ u = t
    BY <1>2, <1>3, <1>4, <2>2 DEF EntryFits
  <2>3. CASE q # p \/ u # t
    BY <1>2, <1>4, <2>1, <2>3 DEF EntryFits
  <2> QED BY <2>2, <2>3
<1>8. Web!AnnouncedIsStored'
  BY <1>2 DEF FeedInv, Web!AnnouncedIsStored
<1> QED BY <1>5, <1>6, <1>7, <1>8 DEF FeedInv, Web!SessionsAssumption

(* A restarted process has no entries. *)
LEMMA RestartEmpties ==
  ASSUME FeedInv, NEW p \in Processes, Web!Restart(p)
  PROVE  FeedInv'
<1>1. PICK n : n = Web!Idle
  OBVIOUS
<1>2. PICK row : row = [t \in Tenants |-> {0}]
  OBVIOUS
<1>3. /\ handler' = [handler EXCEPT ![p] = n] /\ intents' = [intents EXCEPT ![p] = row]
      /\ UNCHANGED <<deployment, clock, changes, children, published>>
  BY <1>1, <1>2 DEF Web!Restart
<1>4. n \in Handlers /\ n.step = "idle"
  BY <1>1 DEF Web!Idle, Handlers, HandlerSteps
<1>5. /\ changes \in Nat /\ intents \in [Processes -> [Tenants -> SUBSET Nat]]
      /\ published \subseteq Events
  BY DEF FeedInv, FeedWorld
<1>6. /\ intents' \in [Processes -> [Tenants -> SUBSET Nat]]
      /\ \A q \in Processes, t \in Tenants :
           intents'[q][t] = intents[q][t] \/ (q = p /\ intents'[q][t] = {0})
  BY <1>2, <1>3, <1>5
<1>7. HandlerFits(p, n)'
  BY <1>4 DEF HandlerFits
<1> QED BY <1>3, <1>4, <1>5, <1>6, <1>7, HandlerKeeps

(* Nothing is stored, cached or published yet. *)
LEMMA FeedInit == Web!SessionsAssumption /\ Web!Init => FeedInv
<1> SUFFICES ASSUME Web!SessionsAssumption, Web!Init PROVE FeedInv
  OBVIOUS
<1>1. PICK n : n = Web!Idle
  OBVIOUS
<1>2. n \in Handlers /\ n.step = "idle"
  BY <1>1 DEF Web!Idle, Handlers, HandlerSteps
<1>3. PICK row : row = [t \in Tenants |-> {0}]
  OBVIOUS
<1>4. /\ deployment \in Deployments /\ clock = 0 /\ changes = 0 /\ children = {} /\ published = {}
      /\ handler = [p \in Processes |-> n] /\ intents = [p \in Processes |-> row]
  BY <1>1, <1>3 DEF Web!Init
<1>5. FeedWorld
  BY <1>2, <1>3, <1>4 DEF FeedWorld, Web!SessionsAssumption
<1>6. \A p \in Processes : HandlerFits(p, handler[p])
  BY <1>2, <1>4 DEF HandlerFits
<1>7. \A p \in Processes, t \in Tenants : EntryFits(p, t)
  BY <1>4 DEF EntryFits
<1> QED BY <1>4, <1>5, <1>6, <1>7 DEF FeedInv, Web!AnnouncedIsStored

(* Every step keeps what handlers and caches promise. *)
LEMMA FeedNext == FeedInv /\ [Web!Next]_Web!vars => FeedInv'
<1> SUFFICES ASSUME FeedInv, [Web!Next]_Web!vars PROVE FeedInv'
  OBVIOUS
<1>1. ASSUME NEW p \in Processes, NEW c \in Clients, Web!ReadIntents(p, Org[c])
      PROVE  FeedInv'
  <2>1. Org[c] \in Tenants
    BY DEF FeedInv, FeedWorld
  <2> QED BY <1>1, <2>1, ReadIntentsKeeps
<1>2. ASSUME NEW p \in Processes, NEW c \in Clients, Web!Open(c, p) \/ Web!Login(c, p) \/ Web!Refresh(c, p)
      PROVE  FeedInv'
  <2>1. UNCHANGED <<deployment, clock, handler, changes, children, intents, published>>
    BY <1>2 DEF Web!Open, Web!Login, Web!Refresh, Web!feed
  <2> QED BY <2>1, FeedStays
<1>3. ASSUME NEW p \in Processes, NEW kid \in 1..MaxKeys, Web!EntraCall(p, kid)
      PROVE  FeedInv'
  <2>1. UNCHANGED <<deployment, clock, handler, changes, children, intents, published>>
    BY <1>3 DEF Web!EntraCall, Web!feed
  <2> QED BY <2>1, FeedStays
<1>4. ASSUME NEW c \in Clients, Web!Send(c) \/ Web!Subscribe(c) \/ Web!Ping(c) \/ Web!Disconnect(c)
      PROVE  FeedInv'
  <2>1. UNCHANGED <<deployment, clock, handler, changes, children, intents, published>>
    BY <1>4 DEF Web!Send, Web!Subscribe, Web!Ping, Web!Disconnect
  <2> QED BY <2>1, FeedStays
<1>5. CASE Web!RotateKey \/ Web!Tick \/ UNCHANGED Web!vars
  <2>1. /\ UNCHANGED <<deployment, handler, changes, children, intents, published>>
        /\ clock' \in {clock, clock + 1}
    BY <1>5 DEF Web!RotateKey, Web!Tick, Web!vars, Web!feed
  <2> QED BY <2>1, FeedStays
<1> QED
  BY <1>1, <1>2, <1>3, <1>4, <1>5, AttachKeeps, KeepKeeps, StoreRecordKeeps, AnnounceKeeps,
     RestartEmpties
     DEF Web!Next, Web!Handle

(* StaleIntentsAreKnown, for any processes, tenants and arrivals: a        *)
(* process answers with the intents of all stored records but those that   *)
(* another attached or that closed the case (case_intents_cache.py         *)
(* intents_for, case_events.py publish_case_update).                       *)
THEOREM StaleIntentsAreAlwaysKnown ==
  ASSUME Web!SessionsAssumption
  PROVE  Web!Spec => []Web!StaleIntentsAreKnown
<1>1. Web!Init => FeedInv
  BY FeedInit
<1>2. FeedInv => Web!StaleIntentsAreKnown
  BY DEF FeedInv, EntryFits, Web!StaleIntentsAreKnown
<1> QED BY <1>1, <1>2, FeedNext, PTL DEF Web!Spec

(* AnnouncedIsStored, for the same: a run is announced as complete only    *)
(* when its record can be read (exceptions.py _publish_task_complete after *)
(* _persist_exception).                                                    *)
THEOREM AnnouncedIsAlwaysStored ==
  ASSUME Web!SessionsAssumption
  PROVE  Web!Spec => []Web!AnnouncedIsStored
<1>1. Web!Init => FeedInv
  BY FeedInit
<1>2. FeedInv => Web!AnnouncedIsStored
  BY DEF FeedInv
<1> QED BY <1>1, <1>2, FeedNext, PTL DEF Web!Spec

-----------------------------------------------------------------------------
(* Sessions: the entries of a sequence that are in a set.                  *)

(* g gives for each of the first n entries what is kept up to it. *)
Step(s, set, g, k) ==
  IF k = 0 THEN <<>> ELSE IF s[k] \in set THEN Append(g[k - 1], s[k]) ELSE g[k - 1]
Keeps(s, set, n, g) == g = [k \in 0..n |-> Step(s, set, g, k)]

(* What fails of a number only if it fails of the one before, and not of   *)
(* 0, never fails.                                                         *)
LEMMA NoFirstFailure ==
  ASSUME NEW B \in SUBSET Nat, 0 \notin B, \A k \in B : k - 1 \in B
  PROVE  B = {}
<1> SUFFICES ASSUME B # {} PROVE FALSE
  OBVIOUS
<1>1. PICK m \in B : \A k \in B : m <= k
  BY Least
<1>2. m \in Nat /\ m - 1 \in B
  BY <1>1
<1> QED BY <1>1, <1>2

(* There is such a g: one for fewer entries can be continued. *)
LEMMA KeepsExists ==
  ASSUME NEW s, NEW set, NEW n \in Nat
  PROVE  \E g : Keeps(s, set, n, g)
<1> DEFINE B == {k \in Nat : ~\E g : Keeps(s, set, k, g)}
<1>1. 0 \notin B
  <2>1. PICK g : g = [k \in 0..0 |-> <<>>]
    OBVIOUS
  <2>2. ASSUME NEW k \in 0..0 PROVE Step(s, set, g, k) = <<>>
    BY DEF Step
  <2>3. Keeps(s, set, 0, g)
    BY <2>1, <2>2 DEF Keeps
  <2> QED BY <2>3
<1>2. ASSUME NEW m \in B PROVE m - 1 \in B
  <2>1. m \in Nat /\ m # 0 /\ m - 1 \in Nat
    BY <1>1
  <2>2. SUFFICES ASSUME NEW g, Keeps(s, set, m - 1, g) PROVE FALSE
    BY <2>1
  <2>3. PICK h : h = [k \in 0..m |-> Step(s, set, g, k)]
    OBVIOUS
  <2>4. \A k \in 0..(m - 1) : g[k] = Step(s, set, g, k)
    <3> HIDE DEF Step
    <3> QED BY <2>2 DEF Keeps
  <2>5. \A k \in 0..(m - 1) : h[k] = g[k]
    BY <2>1, <2>3, <2>4
  <2>6. ASSUME NEW k \in 0..m PROVE Step(s, set, h, k) = Step(s, set, g, k)
    <3>1. k # 0 => k - 1 \in 0..(m - 1)
      BY <2>1
    <3>2. k # 0 => h[k - 1] = g[k - 1]
      BY <2>5, <3>1
    <3> QED BY <3>2 DEF Step
  <2>7. Keeps(s, set, m, h)
    <3> HIDE DEF Step
    <3> QED BY <2>3, <2>6 DEF Keeps
  <2> QED BY <2>7
<1> HIDE DEF B
<1>3. B \in SUBSET Nat
  BY DEF B
<1>4. B = {}
  BY <1>1, <1>2, <1>3, NoFirstFailure
<1> QED BY <1>4 DEF B

(* What such a g gives, entry by entry. *)
Steps(s, set, n, g) ==
  g[0] = <<>> /\ \A k \in 1..n : g[k] = IF s[k] \in set THEN Append(g[k - 1], s[k]) ELSE g[k - 1]
LEMMA KeepsSteps ==
  ASSUME NEW s, NEW set, NEW n \in Nat, NEW g, Keeps(s, set, n, g)
  PROVE  Steps(s, set, n, g)
<1>1. \A k \in 0..n : g[k] = Step(s, set, g, k)
  <2> HIDE DEF Step
  <2> QED BY DEF Keeps
<1>2. ASSUME NEW k \in 1..n
      PROVE  g[k] = IF s[k] \in set THEN Append(g[k - 1], s[k]) ELSE g[k - 1]
  <2>1. k \in 0..n /\ k # 0
    OBVIOUS
  <2> QED BY <1>1, <2>1 DEF Step
<1>3. g[0] = <<>>
  <2>1. 0 \in 0..n
    OBVIOUS
  <2>2. g[0] = Step(s, set, g, 0)
    BY <1>1, <2>1
  <2> QED BY <2>2 DEF Step
<1> QED BY <1>2, <1>3 DEF Steps

(* What is kept of two sequences that agree up to n is the same up to n. *)
LEMMA KeepsAgree ==
  ASSUME NEW s, NEW t, NEW set, NEW other, NEW n \in Nat, NEW m \in Nat, n <= m,
         NEW g, NEW h, Keeps(s, set, n, g), Keeps(t, other, m, h),
         \A k \in 1..n : s[k] = t[k] /\ (s[k] \in set <=> t[k] \in other)
  PROVE  g[n] = h[n]
<1> DEFINE B == {k \in 0..n : g[k] # h[k]}
<1>a. Steps(s, set, n, g) /\ Steps(t, other, m, h)
  BY KeepsSteps, Zenon
<1>b. /\ g[0] = <<>> /\ h[0] = <<>>
      /\ \A k \in 1..n : g[k] = IF s[k] \in set THEN Append(g[k - 1], s[k]) ELSE g[k - 1]
      /\ \A k \in 1..m : h[k] = IF t[k] \in other THEN Append(h[k - 1], t[k]) ELSE h[k - 1]
  BY <1>a DEF Steps
<1>1. 0 \notin B
  BY <1>b
<1>2. ASSUME NEW k \in B PROVE k - 1 \in B
  <2>1. k \in 1..n /\ k \in 1..m /\ k - 1 \in 0..n
    BY <1>1
  <2>2. /\ g[k] = IF s[k] \in set THEN Append(g[k - 1], s[k]) ELSE g[k - 1]
        /\ h[k] = IF t[k] \in other THEN Append(h[k - 1], t[k]) ELSE h[k - 1]
    BY <1>b, <2>1
  <2>3. g[k] # h[k]
    OBVIOUS
  <2>4. g[k - 1] # h[k - 1]
    BY <2>1, <2>2, <2>3
  <2> QED BY <2>1, <2>4
<1>3. B \in SUBSET Nat
  OBVIOUS
<1> HIDE DEF B
<1>4. B = {}
  BY <1>1, <1>2, <1>3, NoFirstFailure
<1> QED BY <1>4 DEF B

(* The entries kept are the last step's. *)
LEMMA ThoseIs ==
  ASSUME NEW s, NEW set, Len(s) \in Nat
  PROVE  \E g : Keeps(s, set, Len(s), g) /\ Web!Those(s, set) = g[Len(s)]
<1> DEFINE kept == CHOOSE g : g = [k \in 0..Len(s) |->
                     IF k = 0 THEN <<>> ELSE IF s[k] \in set THEN Append(g[k - 1], s[k]) ELSE g[k - 1]]
<1>1. Web!Those(s, set) = kept[Len(s)]
  BY DEF Web!Those
<1>2. kept = CHOOSE g : Keeps(s, set, Len(s), g)
  BY DEF Keeps, Step
<1>3. Keeps(s, set, Len(s), kept)
  <2> HIDE DEF kept
  <2>1. PICK n : n = Len(s)
    OBVIOUS
  <2>2. \E g : Keeps(s, set, n, g)
    BY <2>1, KeepsExists
  <2> HIDE DEF Keeps
  <2> QED BY <1>2, <2>1, <2>2
<1> HIDE DEF kept
<1> QED BY <1>1, <1>3

(* Nothing is kept of nothing. *)
LEMMA ThoseOfNothing == ASSUME NEW set PROVE Web!Those(<<>>, set) = <<>>
<1>1. PICK s : s = <<>>
  OBVIOUS
<1>2. PICK n : n = Len(s) /\ n = 0 /\ n \in Nat
  BY <1>1
<1>3. PICK g : Keeps(s, set, n, g) /\ Web!Those(s, set) = g[n]
  BY <1>2, ThoseIs, Zenon
<1>4. Steps(s, set, n, g)
  BY <1>2, <1>3, KeepsSteps, Zenon
<1> QED BY <1>1, <1>2, <1>3, <1>4 DEF Steps

(* Only what a set says of a sequence's entries matters. *)
LEMMA ThoseSame ==
  ASSUME NEW s, NEW set, NEW other, Len(s) \in Nat, \A k \in 1..Len(s) : s[k] \in set <=> s[k] \in other
  PROVE  Web!Those(s, set) = Web!Those(s, other)
<1>1. PICK n : n = Len(s)
  OBVIOUS
<1>2. PICK g : Keeps(s, set, n, g) /\ Web!Those(s, set) = g[n]
  BY <1>1, ThoseIs, Zenon
<1>3. PICK h : Keeps(s, other, n, h) /\ Web!Those(s, other) = h[n]
  BY <1>1, ThoseIs, Zenon
<1>4. g[n] = h[n]
  BY <1>1, <1>2, <1>3, KeepsAgree
<1> QED BY <1>2, <1>3, <1>4

(* What is appended is kept if it is in the set. *)
LEMMA ThoseAppend ==
  ASSUME NEW X, NEW s \in Seq(X), NEW x \in X, NEW set
  PROVE  Web!Those(Append(s, x), set) =
           IF x \in set THEN Append(Web!Those(s, set), x) ELSE Web!Those(s, set)
<1>1. PICK n : n = Len(s)
  OBVIOUS
<1>2. PICK t : t = Append(s, x)
  OBVIOUS
<1>3. /\ n \in Nat /\ n + 1 \in Nat /\ Len(t) = n + 1 /\ t[n + 1] = x
      /\ \A k \in 1..n : s[k] = t[k]
  BY <1>1, <1>2, AppendProperties, LenProperties
<1>4. PICK g : Keeps(s, set, n, g) /\ Web!Those(s, set) = g[n]
  BY <1>1, <1>3, ThoseIs, Zenon
<1>5. PICK m : m = n + 1
  OBVIOUS
<1>6. PICK h : Keeps(t, set, m, h) /\ Web!Those(t, set) = h[m]
  BY <1>3, <1>5, ThoseIs, Zenon
<1>7. h[m] = IF x \in set THEN Append(h[n], x) ELSE h[n]
  <2>1. m \in Nat /\ m \in 1..m /\ m - 1 = n /\ t[m] = x
    BY <1>3, <1>5
  <2>s. Steps(t, set, m, h)
    BY <1>6, <2>1, KeepsSteps, Zenon
  <2>2. \A k \in 1..m : h[k] = IF t[k] \in set THEN Append(h[k - 1], t[k]) ELSE h[k - 1]
    BY <1>6, <2>1, <2>s DEF Steps
  <2> QED BY <2>1, <2>2
<1>8. h[n] = g[n]
  BY <1>3, <1>4, <1>5, <1>6, KeepsAgree
<1> QED BY <1>2, <1>4, <1>6, <1>7, <1>8

(* What is kept: the entries in the set and no others, in the order they   *)
(* have by a time.                                                         *)
InOrder(s) == \A i, j \in 1..Len(s) : i < j => s[i].at <= s[j].at
LEMMA ThoseType ==
  ASSUME NEW X, NEW s \in Seq(X), NEW set
  PROVE  /\ Web!Those(s, set) \in Seq(X)
         /\ \A x : (\E i \in 1..Len(Web!Those(s, set)) : Web!Those(s, set)[i] = x) <=>
                   x \in set /\ \E i \in 1..Len(s) : s[i] = x
         /\ InOrder(s) => InOrder(Web!Those(s, set))
<1>1. PICK n : n = Len(s)
  OBVIOUS
<1>2. n \in Nat /\ \A k \in 1..n : s[k] \in X
  BY <1>1, LenProperties
<1>3. PICK g : Keeps(s, set, n, g) /\ Web!Those(s, set) = g[n]
  BY <1>1, <1>2, ThoseIs, Zenon
<1>s. Steps(s, set, n, g)
  BY <1>2, <1>3, KeepsSteps, Zenon
<1>4. g[0] = <<>>
  BY <1>s DEF Steps
<1>5. \A k \in 1..n : g[k] = IF s[k] \in set THEN Append(g[k - 1], s[k]) ELSE g[k - 1]
  BY <1>s DEF Steps
<1> DEFINE Good(k) ==
             /\ g[k] \in Seq(X)
             /\ \A x : (\E i \in 1..Len(g[k]) : g[k][i] = x) <=> x \in set /\ \E i \in 1..k : s[i] = x
             /\ InOrder(s) => InOrder(g[k])
           B == {k \in 0..n : ~Good(k)}
<1>6. 0 \notin B
  <2>1. g[0] \in Seq(X) /\ Len(g[0]) = 0
    BY <1>4
  <2>2. InOrder(g[0])
    BY <2>1 DEF InOrder
  <2> QED BY <2>1, <2>2
<1>7. ASSUME NEW k \in 1..n, Good(k - 1) PROVE Good(k)
  <2>1. PICK f : f = g[k - 1]
    OBVIOUS
  <2>2. PICK r : r = g[k]
    OBVIOUS
  <2>3. /\ f \in Seq(X) /\ Len(f) \in Nat /\ s[k] \in X
        /\ \A x : (\E i \in 1..Len(f) : f[i] = x) <=> x \in set /\ \E i \in 1..(k - 1) : s[i] = x
        /\ InOrder(s) => InOrder(f)
    BY <1>2, <1>7, <2>1, LenProperties
  <2>4. r = IF s[k] \in set THEN Append(f, s[k]) ELSE f
    BY <1>5, <2>1, <2>2
  <2>5. ASSUME NEW x PROVE (\E i \in 1..k : s[i] = x) <=> x = s[k] \/ \E i \in 1..(k - 1) : s[i] = x
    <3>1. \A i : i \in 1..k <=> i = k \/ i \in 1..(k - 1)
      OBVIOUS
    <3> QED BY <3>1
  <2>6. CASE s[k] \notin set
    <3>1. r = f
      BY <2>4, <2>6
    <3> QED BY <2>2, <2>3, <2>5, <2>6, <3>1
  <2>7. CASE s[k] \in set
    <3>1. /\ r \in Seq(X) /\ Len(r) = Len(f) + 1 /\ r[Len(f) + 1] = s[k]
          /\ \A i \in 1..Len(f) : r[i] = f[i]
      BY <2>3, <2>4, <2>7, AppendProperties
    <3>2. \A i : i \in 1..Len(r) <=> i = Len(f) + 1 \/ i \in 1..Len(f)
      BY <2>3, <3>1
    <3>3. ASSUME NEW x PROVE (\E i \in 1..Len(r) : r[i] = x) <=> x = s[k] \/ \E i \in 1..Len(f) : f[i] = x
      BY <3>1, <3>2
    <3>4. ASSUME NEW x PROVE (\E i \in 1..Len(r) : r[i] = x) <=> x \in set /\ \E i \in 1..k : s[i] = x
      BY <2>3, <2>5, <2>7, <3>3
    <3>5. ASSUME InOrder(s) PROVE InOrder(r)
      <4>1. ASSUME NEW i \in 1..Len(r), NEW j \in 1..Len(r), i < j PROVE r[i].at <= r[j].at
        <5>1. i \in 1..Len(f) /\ r[i] = f[i]
          BY <2>3, <3>1, <4>1
        <5>2. CASE j \in 1..Len(f)
          BY <2>3, <3>1, <3>5, <4>1, <5>1, <5>2 DEF InOrder
        <5>3. CASE j = Len(f) + 1
          <6>1. PICK a \in 1..(k - 1) : s[a] = f[i]
            BY <2>3, <5>1
          <6>2. a \in 1..Len(s) /\ k \in 1..Len(s) /\ a < k
            BY <1>1, <1>2
          <6>3. s[a].at <= s[k].at
            BY <3>5, <6>2 DEF InOrder
          <6> QED BY <3>1, <5>1, <5>3, <6>1, <6>3
        <5> QED BY <3>2, <5>2, <5>3
      <4> QED BY <4>1 DEF InOrder
    <3> QED BY <2>2, <3>1, <3>4, <3>5
  <2> QED BY <2>6, <2>7
<1>8. ASSUME NEW k \in B PROVE k - 1 \in B
  <2> HIDE DEF Good
  <2>1. k \in 1..n /\ k - 1 \in 0..n /\ ~Good(k)
    BY <1>2, <1>6
  <2> QED BY <1>7, <2>1
<1> HIDE DEF Good
<1>9. B \in SUBSET Nat
  OBVIOUS
<1> HIDE DEF B
<1>10. B = {}
  BY <1>6, <1>8, <1>9, NoFirstFailure
<1>11. Good(n)
  BY <1>2, <1>10 DEF B
<1> QED BY <1>1, <1>3, <1>11 DEF Good

(* Choosing twice is choosing once, where the second set is the smaller.   *)
LEMMA ThoseTwice ==
  ASSUME NEW X, NEW s \in Seq(X), NEW set, NEW other,
         \A k \in 1..Len(s) : s[k] \in other => s[k] \in set
  PROVE  Web!Those(Web!Those(s, set), other) = Web!Those(s, other)
<1>1. PICK n : n = Len(s)
  OBVIOUS
<1>2. n \in Nat /\ \A k \in 1..n : s[k] \in X
  BY <1>1, LenProperties
<1>3. PICK g : Keeps(s, set, n, g) /\ Web!Those(s, set) = g[n]
  BY <1>1, <1>2, ThoseIs, Zenon
<1>4. PICK h : Keeps(s, other, n, h) /\ Web!Those(s, other) = h[n]
  BY <1>1, <1>2, ThoseIs, Zenon
<1>s. Steps(s, set, n, g) /\ Steps(s, other, n, h)
  BY <1>2, <1>3, <1>4, KeepsSteps, Zenon
<1>5. g[0] = <<>> /\ \A k \in 1..n : g[k] = IF s[k] \in set THEN Append(g[k - 1], s[k]) ELSE g[k - 1]
  BY <1>s DEF Steps
<1>6. h[0] = <<>> /\ \A k \in 1..n : h[k] = IF s[k] \in other THEN Append(h[k - 1], s[k]) ELSE h[k - 1]
  BY <1>s DEF Steps
<1> DEFINE Good(k) == g[k] \in Seq(X) /\ Web!Those(g[k], other) = h[k]
           B == {k \in 0..n : ~Good(k)}
<1>7. 0 \notin B
  <2>1. g[0] = <<>> /\ h[0] = <<>> /\ <<>> \in Seq(X)
    BY <1>5, <1>6
  <2>2. Web!Those(g[0], other) = h[0]
    BY <2>1, ThoseOfNothing, Zenon
  <2> QED BY <2>1, <2>2
<1>8. ASSUME NEW k \in 1..n, Good(k - 1) PROVE Good(k)
  <2>1. PICK f : f = g[k - 1]
    OBVIOUS
  <2>2. f \in Seq(X) /\ Web!Those(f, other) = h[k - 1] /\ s[k] \in X
    BY <1>2, <1>8, <2>1
  <2>3. g[k] = IF s[k] \in set THEN Append(f, s[k]) ELSE f
    BY <1>5, <2>1
  <2>4. CASE s[k] \in set
    <3>0. PICK x \in X : x = s[k]
      BY <2>2
    <3>1. PICK r : r = Append(f, x)
      OBVIOUS
    <3>2. r \in Seq(X)
      BY <2>2, <3>1, AppendProperties
    <3>3. f \in Seq(X)
      BY <2>2
    <3>4. Web!Those(Append(f, x), other)
            = IF x \in other THEN Append(Web!Those(f, other), x) ELSE Web!Those(f, other)
      BY <3>3, ThoseAppend, Zenon
    <3>5. Web!Those(r, other) = IF x \in other THEN Append(h[k - 1], x) ELSE h[k - 1]
      BY <2>2, <3>1, <3>4, Zenon
    <3>6. h[k] = Web!Those(r, other) /\ g[k] = r
      BY <1>6, <2>3, <2>4, <3>0, <3>1, <3>5
    <3> QED BY <3>2, <3>6
  <2>5. CASE s[k] \notin set
    <3>1. s[k] \notin other
      BY <1>1, <2>5
    <3> QED BY <1>6, <2>2, <2>3, <2>5, <3>1
  <2> QED BY <2>4, <2>5
<1>9. ASSUME NEW k \in B PROVE k - 1 \in B
  <2> HIDE DEF Good
  <2>1. k \in 1..n /\ k - 1 \in 0..n /\ ~Good(k)
    BY <1>2, <1>7
  <2> QED BY <1>8, <2>1
<1> HIDE DEF Good
<1>10. B \in SUBSET Nat
  OBVIOUS
<1> HIDE DEF B
<1>11. B = {}
  BY <1>7, <1>9, <1>10, NoFirstFailure
<1>12. Good(n)
  BY <1>2, <1>11 DEF B
<1> QED BY <1>3, <1>4, <1>12 DEF Good

-----------------------------------------------------------------------------
(* Sessions: what a client's channel and its replay hold.                  *)

Entries == [event : Events, at : Nat]
Held(s) == {s[i] : i \in 1..Len(s)}
EventsIn(s) == {s[i].event : i \in 1..Len(s)}

(* The elements of a sequence, under both names. *)
LEMMA HeldIs == ASSUME NEW X, NEW s \in Seq(X) PROVE Web!ToSet(s) = Held(s) /\ Held(s) \subseteq X
<1>1. DOMAIN s = 1..Len(s) /\ \A i \in 1..Len(s) : s[i] \in X
  OBVIOUS
<1> QED BY <1>1 DEF Web!ToSet, Held

(* What is appended is held too. *)
LEMMA HeldAppend ==
  ASSUME NEW X, NEW s \in Seq(X), NEW x \in X
  PROVE  /\ Append(s, x) \in Seq(X) /\ Len(Append(s, x)) = Len(s) + 1 /\ Append(s, x)[Len(s) + 1] = x
         /\ \A i \in 1..Len(s) : Append(s, x)[i] = s[i]
         /\ Held(Append(s, x)) = Held(s) \cup {x}
<1>1. PICK t : t = Append(s, x)
  OBVIOUS
<1>2. /\ t \in Seq(X) /\ Len(t) = Len(s) + 1 /\ t[Len(s) + 1] = x /\ Len(s) \in Nat
      /\ \A i \in 1..Len(s) : t[i] = s[i]
  BY <1>1, AppendProperties
<1>3. \A i : i \in 1..Len(t) <=> i = Len(s) + 1 \/ i \in 1..Len(s)
  BY <1>2
<1>4. Held(t) = Held(s) \cup {x}
  BY <1>2, <1>3 DEF Held
<1> QED BY <1>1, <1>2, <1>4

(* Those chosen are the ones held that are in the set. *)
LEMMA ThoseHeld ==
  ASSUME NEW X, NEW s \in Seq(X), NEW set
  PROVE  /\ Web!Those(s, set) \in Seq(X)
         /\ \A x : x \in Held(Web!Those(s, set)) <=> x \in set /\ x \in Held(s)
         /\ InOrder(s) => InOrder(Web!Those(s, set))
<1>1. PICK t : t = Web!Those(s, set)
  OBVIOUS
<1>2. /\ t \in Seq(X)
      /\ \A x : (\E i \in 1..Len(t) : t[i] = x) <=> x \in set /\ \E i \in 1..Len(s) : s[i] = x
      /\ InOrder(s) => InOrder(t)
  BY <1>1, ThoseType
<1>3. \A x : x \in Held(t) <=> x \in set /\ x \in Held(s)
  BY <1>2 DEF Held
<1> QED BY <1>1, <1>2, <1>3

(* A channel has the entries of its tenant. *)
LEMMA ChannelIs ==
  ASSUME NEW b \in Seq(Entries), NEW t
  PROVE  /\ Web!Channel(b, t) \in Seq(Entries)
         /\ \A x : x \in Held(Web!Channel(b, t)) <=> x \in Held(b) /\ x.event.tenant = t
         /\ InOrder(b) => InOrder(Web!Channel(b, t))
<1>1. PICK set : set = {x \in Held(b) : x.event.tenant = t}
  OBVIOUS
<1>2. Web!Channel(b, t) = Web!Those(b, set)
  <2>1. Web!ToSet(b) = Held(b)
    BY HeldIs
  <2> QED BY <1>1, <2>1 DEF Web!Channel, Web!InChannel
<1>3. /\ Web!Those(b, set) \in Seq(Entries)
      /\ \A x : x \in Held(Web!Those(b, set)) <=> x \in set /\ x \in Held(b)
      /\ InOrder(b) => InOrder(Web!Those(b, set))
  BY ThoseHeld
<1> QED BY <1>1, <1>2, <1>3

(* Of a channel nothing is trimmed unless an entry of it is too old.       *)
LEMMA TrimmedIs ==
  ASSUME NEW b \in Seq(Entries), NEW c
  PROVE  \A f : f \in Web!Trimmed(b, c) <=>
                \E y \in Held(b) : y.event.tenant = Org[c] /\ y.at + ReplayWindow < clock /\ f = y.event
<1>1. PICK ch : ch = Web!Channel(b, Org[c])
  OBVIOUS
<1>2. ch \in Seq(Entries) /\ \A x : x \in Held(ch) <=> x \in Held(b) /\ x.event.tenant = Org[c]
  BY <1>1, ChannelIs
<1>3. Web!ToSet(ch) = Held(ch)
  BY <1>2, HeldIs
<1>4. Web!Trimmed(b, c) = {x.event : x \in {y \in Held(ch) : y.at + ReplayWindow < clock}}
  BY <1>1, <1>3 DEF Web!Trimmed
<1> QED BY <1>2, <1>4

(* An addition keeps the recent entries; a channel nothing is trimmed of   *)
(* goes on as it was.                                                      *)
LEMMA AddedIs ==
  ASSUME NEW b \in Seq(Entries), NEW e \in Events, clock \in Nat, ReplayWindow \in Nat,
         NEW x, x = [event |-> e, at |-> clock]
  PROVE  /\ Web!Added(b, e) \in Seq(Entries)
         /\ \A y : y \in Held(Web!Added(b, e)) <=>
                   y = x \/ (y \in Held(b) /\ ~(y.at + ReplayWindow < clock))
         /\ InOrder(b) /\ (\A y \in Held(b) : y.at <= clock) => InOrder(Web!Added(b, e))
         /\ \A t : (\A y \in Held(b) : y.event.tenant = t => ~(y.at + ReplayWindow < clock)) =>
              Web!Channel(Web!Added(b, e), t) =
                IF e.tenant = t THEN Append(Web!Channel(b, t), x) ELSE Web!Channel(b, t)
<1>1. PICK fresh : fresh = {y \in Held(b) : ~(y.at + ReplayWindow < clock)}
  OBVIOUS
<1>2. PICK k : k = Web!Those(b, fresh)
  OBVIOUS
<1>3. x \in Entries /\ x.event = e /\ x.at = clock
  BY DEF Entries
<1>4. Web!Added(b, e) = Append(k, x)
  <2>1. Web!ToSet(b) = Held(b)
    BY HeldIs
  <2> QED BY <1>1, <1>2, <2>1 DEF Web!Added, Web!Expired
<1>5. k \in Seq(Entries) /\ (\A y : y \in Held(k) <=> y \in fresh /\ y \in Held(b))
      /\ (InOrder(b) => InOrder(k))
  BY <1>2, ThoseHeld
<1>6. PICK a : a = Append(k, x)
  OBVIOUS
<1>7. /\ a \in Seq(Entries) /\ Len(a) = Len(k) + 1 /\ a[Len(k) + 1] = x /\ Len(k) \in Nat
      /\ \A i \in 1..Len(k) : a[i] = k[i]
      /\ Held(a) = Held(k) \cup {x}
  BY <1>3, <1>5, <1>6, HeldAppend
<1>8. \A y : y \in Held(a) <=> y = x \/ (y \in Held(b) /\ ~(y.at + ReplayWindow < clock))
  BY <1>1, <1>5, <1>7
<1>9. ASSUME InOrder(b), \A y \in Held(b) : y.at <= clock PROVE InOrder(a)
  <2>1. ASSUME NEW i \in 1..Len(a), NEW j \in 1..Len(a), i < j PROVE a[i].at <= a[j].at
    <3>1. i \in 1..Len(k) /\ a[i] = k[i] /\ k[i] \in Held(k)
      BY <1>7, <2>1 DEF Held
    <3>2. CASE j \in 1..Len(k)
      BY <1>5, <1>7, <1>9, <2>1, <3>1, <3>2 DEF InOrder
    <3>3. CASE j = Len(k) + 1
      BY <1>3, <1>5, <1>7, <1>9, <3>1, <3>3
    <3> QED BY <1>7, <3>2, <3>3
  <2> QED BY <2>1 DEF InOrder
<1>10. ASSUME NEW t, \A y \in Held(b) : y.event.tenant = t => ~(y.at + ReplayWindow < clock)
       PROVE  Web!Channel(a, t) = IF e.tenant = t THEN Append(Web!Channel(b, t), x) ELSE Web!Channel(b, t)
  <2>1. PICK new : new = {y \in Held(a) : y.event.tenant = t}
    OBVIOUS
  <2>2. PICK old : old = {y \in Held(b) : y.event.tenant = t}
    OBVIOUS
  <2>3. Web!Channel(a, t) = Web!Those(a, new) /\ Web!Channel(b, t) = Web!Those(b, old)
    <3>1. Web!ToSet(a) = Held(a) /\ Web!ToSet(b) = Held(b)
      BY <1>7, HeldIs
    <3> QED BY <2>1, <2>2, <3>1 DEF Web!Channel, Web!InChannel
  <2>4. x \in new <=> e.tenant = t
    BY <1>3, <1>7, <2>1
  <2>5. Web!Those(a, new) = IF x \in new THEN Append(Web!Those(k, new), x) ELSE Web!Those(k, new)
    BY <1>3, <1>5, <1>6, ThoseAppend
  <2>6. Web!Those(k, new) = Web!Those(k, old)
    <3>1. ASSUME NEW i \in 1..Len(k) PROVE k[i] \in new <=> k[i] \in old
      <4>1. k[i] \in Held(k)
        BY DEF Held
      <4> QED BY <1>5, <1>7, <2>1, <2>2, <4>1
    <3> QED BY <1>7, <3>1, ThoseSame
  <2>7. Web!Those(k, old) = Web!Those(b, old)
    <3>1. \A i \in 1..Len(b) : b[i] \in old => b[i] \in fresh
      BY <1>1, <1>10, <2>2
    <3> QED BY <1>2, <3>1, ThoseTwice
  <2> QED BY <2>3, <2>4, <2>5, <2>6, <2>7
<1> QED BY <1>4, <1>6, <1>7, <1>8, <1>9, <1>10

(* The later of times that are no later than another is one of them. *)
LEMMA LatestIs ==
  ASSUME NEW S \in SUBSET Nat, NEW bound \in Nat, NEW y \in S, \A t \in S : t <= bound
  PROVE  Web!Max(S) \in S /\ \A t \in S : t <= Web!Max(S)
<1> DEFINE Above == {n \in Nat : \A t \in S : t <= n}
<1>1. PICK m \in Above : \A n \in Above : m <= n
  <2>1. bound \in Above /\ Above \in SUBSET Nat /\ Above # {}
    OBVIOUS
  <2> HIDE DEF Above
  <2> QED BY <2>1, Least
<1>2. m \in Nat /\ \A t \in S : t <= m
  BY <1>1
<1>3. m \in S
  <2> SUFFICES ASSUME m \notin S PROVE FALSE
    OBVIOUS
  <2>1. \A t \in S : t < m /\ t \in Nat
    BY <1>2
  <2>2. m - 1 \in Nat /\ \A t \in S : t <= m - 1
    BY <1>2, <2>1
  <2>3. m - 1 \in Above
    BY <2>2
  <2> QED BY <1>1, <1>2, <2>3
<1> HIDE DEF Above
<1>4. \E n : n \in S /\ \A t \in S : n >= t
  BY <1>2, <1>3
<1>5. Web!Max(S) = CHOOSE n \in S : \A t \in S : n >= t
  BY DEF Web!Max
<1> QED BY <1>4, <1>5

-----------------------------------------------------------------------------
(* Sessions: what a client has, and what it can still be sent.             *)

Sockets == [at : {"down", "opened", "live"}, proc : Processes, queue : Seq(Events), seen : Nat,
            shrunk : BOOLEAN]

(* Of a client with the connection s: its own events, those about to be    *)
(* kept and the channel its replay comes from; what it got and lost, since *)
(* when it asks for more.  A connection has its own events to send, and    *)
(* without Redis only before it is live.                                   *)
SocketFits(m, own, s, g, since, now) ==
  /\ Held(s.queue) \subseteq own /\ g \subseteq own /\ since <= now
  /\ s.at = "down" => s.queue = <<>>
  /\ m = "memory" /\ s.at = "live" => s.queue = <<>>
(* Every event got to the client or was lost, or is on its way, or is to   *)
(* be found in the channel, by a ping if it is after those seen.           *)
Covered(m, own, pend, ch, s, reached) ==
  /\ s.at = "down" => own \subseteq reached \cup pend \cup EventsIn(ch)
  /\ s.at # "down" /\ m # "memory" => own \subseteq reached \cup Held(s.queue)
  /\ s.at # "down" /\ m = "memory" /\ ~s.shrunk =>
       /\ s.seen <= Len(ch) /\ Held(s.queue) \subseteq EventsIn(ch)
       /\ \A e \in own : \/ e \in reached \cup Held(s.queue)
                         \/ Len(ch) <= Recent /\ \E i \in 1..Len(ch) : i > s.seen /\ ch[i].event = e
(* An entry that the client did not get is no earlier than what it got, nor *)
(* than what it is sent before it: asking from the last event finds it.    *)
Ahead(ch, s, reached, since) ==
  \A x \in Held(ch) :
    /\ x.event \in reached \/ x.at >= since
    /\ \A i \in 1..Len(s.queue) :
         x.event \in reached \/ x.at >= s.queue[i].at \/ \E j \in 1..i : s.queue[j] = x.event
ClientFits(m, own, pend, ch, s, g, l, since, now) ==
  /\ SocketFits(m, own, s, g, since, now)
  /\ Covered(m, own, pend, ch, s, g \cup l)
  /\ Ahead(ch, s, g \cup l, since)

(* The events of the entries held. *)
LEMMA EventsAre ==
  ASSUME NEW s
  PROVE  /\ \A e : e \in EventsIn(s) <=> \E x \in Held(s) : x.event = e
         /\ \A x \in Held(s) : x.event \in EventsIn(s)
BY DEF EventsIn, Held

(* A client that is down, or has a queue of its own, is as well off when   *)
(* more is kept, or lost and noted.                                        *)
LEMMA ClientGoesOn ==
  ASSUME NEW m, NEW own \in SUBSET Events, NEW own2 \in SUBSET Events, NEW pend, NEW pend2,
         NEW ch, NEW ch2, NEW s \in Sockets, NEW s2 \in Sockets, NEW g, NEW l, NEW l2,
         NEW since \in Nat, NEW now \in Nat, NEW now2 \in Nat,
         ClientFits(m, own, pend, ch, s, g, l, since, now), m # "memory" \/ s.at = "down",
         s2.at = s.at, s2.queue = s.queue, own \subseteq own2, l \subseteq l2, now <= now2,
         \A e \in own2 \ own : e \in l2 \/ (s.at = "down" /\ e \in pend2 \cup EventsIn(ch2)),
         s.at = "down" => own \cap (pend \cup EventsIn(ch)) \subseteq g \cup l2 \cup pend2 \cup EventsIn(ch2),
         \A x \in Held(ch2) : x \in Held(ch) \/ (x.at \in Nat /\ x.at >= now),
         \A e \in own : e.at <= now
  PROVE  ClientFits(m, own2, pend2, ch2, s2, g, l2, since, now2)
<1>1. SocketFits(m, own2, s2, g, since, now2)
  BY DEF ClientFits, SocketFits
<1>2. Covered(m, own2, pend2, ch2, s2, g \cup l2)
  <2>1. ASSUME NEW e \in own2, s.at = "down" PROVE e \in g \cup l2 \cup pend2 \cup EventsIn(ch2)
    BY <2>1 DEF ClientFits, Covered
  <2>2. ASSUME NEW e \in own2, s.at # "down", m # "memory" PROVE e \in g \cup l2 \cup Held(s.queue)
    BY <2>2 DEF ClientFits, Covered
  <2> QED BY <2>1, <2>2 DEF Covered
<1>3. Ahead(ch2, s2, g \cup l2, since)
  <2> SUFFICES ASSUME NEW x \in Held(ch2)
               PROVE  /\ x.event \in g \cup l2 \/ x.at >= since
                      /\ \A i \in 1..Len(s.queue) :
                           x.event \in g \cup l2 \/ x.at >= s.queue[i].at
                           \/ \E j \in 1..i : s.queue[j] = x.event
    BY DEF Ahead
  <2>1. CASE x \in Held(ch)
    BY <2>1 DEF ClientFits, Ahead
  <2>2. CASE x.at \in Nat /\ x.at >= now
    <3>1. x.at >= since
      BY <2>2 DEF ClientFits, SocketFits
    <3>2. ASSUME NEW i \in 1..Len(s.queue) PROVE x.at >= s.queue[i].at
      <4>1. s.queue[i] \in own
        BY DEF ClientFits, SocketFits, Held
      <4>2. s.queue[i].at \in Nat /\ s.queue[i].at <= now
        BY <4>1 DEF Events
      <4> QED BY <2>2, <4>2
    <3> QED BY <3>1, <3>2
  <2> QED BY <2>1, <2>2
<1> QED BY <1>1, <1>2, <1>3 DEF ClientFits

(* Without Redis a connection follows the list, unless that shrank. *)
LEMMA ClientFollows ==
  ASSUME NEW own \in SUBSET Events, NEW own2 \in SUBSET Events, NEW pend, NEW pend2,
         NEW ch \in Seq(Entries), NEW ch2 \in Seq(Entries), NEW s \in Sockets, NEW s2 \in Sockets,
         NEW g, NEW l, NEW since \in Nat, NEW now \in Nat,
         ClientFits("memory", own, pend, ch, s, g, l, since, now), s.at # "down",
         s2.at = s.at, s2.queue = s.queue, s2.seen = s.seen, own \subseteq own2,
         NEW x \in Entries, x.at = now,
         ~s2.shrunk => /\ ~s.shrunk /\ Len(ch) < Recent
                       /\ \/ ch2 = ch /\ own2 = own
                          \/ ch2 = Append(ch, x) /\ own2 = own \cup {x.event},
         \A y \in Held(ch2) : y \in Held(ch) \/ y = x,
         Recent \in Nat, \A e \in own : e.at <= now
  PROVE  ClientFits("memory", own2, pend2, ch2, s2, g, l, since, now)
<1>1. SocketFits("memory", own2, s2, g, since, now)
  BY DEF ClientFits, SocketFits
<1>2. Covered("memory", own2, pend2, ch2, s2, g \cup l)
  <2> SUFFICES ASSUME ~s2.shrunk
               PROVE  /\ s.seen <= Len(ch2) /\ Held(s.queue) \subseteq EventsIn(ch2)
                      /\ \A e \in own2 : \/ e \in g \cup l \cup Held(s.queue)
                                         \/ /\ Len(ch2) <= Recent
                                            /\ \E i \in 1..Len(ch2) : i > s.seen /\ ch2[i].event = e
    BY DEF Covered
  <2>1. /\ s.seen <= Len(ch) /\ Held(s.queue) \subseteq EventsIn(ch)
        /\ \A e \in own : \/ e \in g \cup l \cup Held(s.queue)
                          \/ /\ Len(ch) <= Recent
                             /\ \E i \in 1..Len(ch) : i > s.seen /\ ch[i].event = e
    BY DEF ClientFits, Covered
  <2>2. CASE ch2 = ch /\ own2 = own
    BY <2>1, <2>2
  <2>3. CASE ch2 = Append(ch, x) /\ own2 = own \cup {x.event}
    <3>1. /\ Len(ch2) = Len(ch) + 1 /\ ch2[Len(ch) + 1] = x /\ Len(ch) \in Nat
          /\ \A i \in 1..Len(ch) : ch2[i] = ch[i]
      BY <2>3, HeldAppend
    <3>2. s.seen \in Nat /\ Len(ch2) <= Recent /\ \A i \in 1..Len(ch) : i \in 1..Len(ch2)
      BY <3>1 DEF Sockets
    <3>3. s.seen <= Len(ch2)
      BY <2>1, <3>1, <3>2
    <3>4. Held(s.queue) \subseteq EventsIn(ch2)
      BY <2>1, <3>1, <3>2 DEF EventsIn
    <3>5. ASSUME NEW e \in own, e \notin g \cup l \cup Held(s.queue)
          PROVE  \E i \in 1..Len(ch2) : i > s.seen /\ ch2[i].event = e
      BY <2>1, <3>1, <3>2, <3>5
    <3>6. Len(ch) + 1 \in 1..Len(ch2) /\ Len(ch) + 1 > s.seen /\ ch2[Len(ch) + 1].event = x.event
      BY <2>1, <3>1, <3>2
    <3> QED BY <2>3, <3>2, <3>3, <3>4, <3>5, <3>6
  <2> QED BY <2>2, <2>3
<1>3. Ahead(ch2, s2, g \cup l, since)
  <2> SUFFICES ASSUME NEW y \in Held(ch2)
               PROVE  /\ y.event \in g \cup l \/ y.at >= since
                      /\ \A i \in 1..Len(s.queue) :
                           y.event \in g \cup l \/ y.at >= s.queue[i].at
                           \/ \E j \in 1..i : s.queue[j] = y.event
    BY DEF Ahead
  <2>1. CASE y \in Held(ch)
    BY <2>1 DEF ClientFits, Ahead
  <2>2. CASE y = x
    <3>1. y.at >= since
      BY <2>2 DEF ClientFits, SocketFits
    <3>2. ASSUME NEW i \in 1..Len(s.queue) PROVE y.at >= s.queue[i].at
      <4>1. s.queue[i] \in own
        BY DEF ClientFits, SocketFits, Held
      <4>2. s.queue[i].at \in Nat /\ s.queue[i].at <= now
        BY <4>1 DEF Events
      <4> QED BY <2>2, <4>2
    <3> QED BY <3>1, <3>2
  <2> QED BY <2>1, <2>2
<1> QED BY <1>1, <1>2, <1>3 DEF ClientFits

(* With Redis a subscriber gets an event on the way to the buffer. *)
LEMMA ClientHears ==
  ASSUME NEW m, m # "memory", NEW own \in SUBSET Events, NEW e \in Events, NEW pend, NEW pend2, NEW ch,
         NEW s \in Sockets,
         NEW s2 \in Sockets, NEW g, NEW l, NEW since, NEW now,
         ClientFits(m, own, pend, ch, s, g, l, since, now), s.at = "live", s2.at = "live",
         s2.queue = Append(s.queue, e), EventsIn(ch) \subseteq own
  PROVE  ClientFits(m, own \cup {e}, pend2, ch, s2, g, l, since, now)
<1> DEFINE q == s.queue
<1>1. q \in Seq(Events)
  BY DEF Sockets
<1>2. PICK r : r = s2.queue
  OBVIOUS
<1>3. /\ Len(r) = Len(q) + 1 /\ r[Len(q) + 1] = e /\ Len(q) \in Nat
      /\ \A i \in 1..Len(q) : r[i] = q[i]
      /\ Held(r) = Held(q) \cup {e}
  BY <1>1, <1>2, HeldAppend
<1>4. SocketFits(m, own \cup {e}, s2, g, since, now)
  BY <1>2, <1>3 DEF ClientFits, SocketFits
<1>5. Covered(m, own \cup {e}, pend2, ch, s2, g \cup l)
  BY <1>2, <1>3 DEF ClientFits, Covered
<1>6. Ahead(ch, s2, g \cup l, since)
  <2> SUFFICES ASSUME NEW x \in Held(ch)
               PROVE  /\ x.event \in g \cup l \/ x.at >= since
                      /\ \A i \in 1..Len(r) :
                           x.event \in g \cup l \/ x.at >= r[i].at \/ \E j \in 1..i : r[j] = x.event
    BY <1>2 DEF Ahead
  <2>1. /\ x.event \in g \cup l \/ x.at >= since
        /\ \A i \in 1..Len(q) :
             x.event \in g \cup l \/ x.at >= q[i].at \/ \E j \in 1..i : q[j] = x.event
    BY DEF ClientFits, Ahead
  <2>2. ASSUME NEW i \in 1..Len(q)
        PROVE  x.event \in g \cup l \/ x.at >= r[i].at \/ \E j \in 1..i : r[j] = x.event
    <3>1. r[i] = q[i] /\ \A j \in 1..i : j \in 1..Len(q) /\ r[j] = q[j]
      BY <1>3
    <3> QED BY <2>1, <3>1
  <2>3. x.event \in g \cup l \/ \E j \in 1..(Len(q) + 1) : r[j] = x.event
    <3>1. x.event \in own
      BY EventsAre
    <3>2. x.event \in g \cup l \cup Held(q)
      BY <3>1 DEF ClientFits, Covered
    <3>3. x.event \in Held(q) => \E j \in 1..(Len(q) + 1) : r[j] = x.event
      BY <1>3 DEF Held
    <3> QED BY <3>2, <3>3
  <2> QED BY <1>3, <2>1, <2>2, <2>3
<1> QED BY <1>4, <1>5, <1>6 DEF ClientFits

(* A connection is opened with the replay from the last event on. *)
LEMMA ClientAsks ==
  ASSUME NEW m, NEW own \in SUBSET Events, NEW pend, NEW ch \in Seq(Entries), NEW s,
         NEW s2, NEW g, NEW l, NEW l2, NEW since \in Nat, NEW now,
         ClientFits(m, own, pend, ch, s, g, l, since, now), s.at = "down",
         EventsIn(ch) \subseteq own, \A x \in Held(ch) : x.event.at <= x.at,
         NEW r \in Seq(Entries), InOrder(r),
         \A x : x \in Held(r) <=> x \in Held(ch) /\ x.at >= since,
         s2.at = "opened", s2.queue = [i \in 1..Len(r) |-> r[i].event], s2.seen = 0,
         l \subseteq l2, own \cap pend \subseteq l2
  PROVE  ClientFits(m, own, pend, ch, s2, g, l2, since, now)
<1>1. PICK q : q = s2.queue
  OBVIOUS
<1>2. Len(r) \in Nat /\ Len(ch) \in Nat /\ \A i \in 1..Len(r) : r[i] \in Entries /\ r[i] \in Held(r)
  BY DEF Held
<1>3. Len(q) = Len(r) /\ \A i \in 1..Len(r) : q[i] = r[i].event
  BY <1>1, <1>2
<1>4. Held(q) = {x.event : x \in Held(r)}
  <2>1. ASSUME NEW i \in 1..Len(q) PROVE \E x \in Held(r) : x.event = q[i]
    BY <1>2, <1>3
  <2>2. Held(q) \subseteq {x.event : x \in Held(r)}
    BY <2>1 DEF Held
  <2>3. ASSUME NEW x \in Held(r) PROVE x.event \in Held(q)
    <3>1. PICK i \in 1..Len(r) : x = r[i]
      BY DEF Held
    <3>2. i \in 1..Len(q) /\ q[i] = x.event
      BY <1>3, <3>1
    <3> QED BY <3>2 DEF Held
  <2> QED BY <2>2, <2>3
<1>5. Held(q) \subseteq EventsIn(ch)
  BY <1>4, EventsAre
<1>6. SocketFits(m, own, s2, g, since, now)
  BY <1>1, <1>5 DEF ClientFits, SocketFits
<1>7. ASSUME NEW e \in own PROVE e \in g \cup l2 \cup Held(q)
  <2>1. e \in g \cup l2 \/ e \in EventsIn(ch)
    BY DEF ClientFits, Covered
  <2>2. CASE e \in EventsIn(ch)
    <3>1. PICK x \in Held(ch) : x.event = e
      BY <2>2, EventsAre
    <3>2. x.event \in g \cup l \/ x.at >= since
      BY <3>1 DEF ClientFits, Ahead
    <3> QED BY <1>4, <3>1, <3>2
  <2> QED BY <2>1, <2>2
<1>8. Covered(m, own, pend, ch, s2, g \cup l2)
  BY <1>1, <1>2, <1>5, <1>7 DEF Covered
<1>9. Ahead(ch, s2, g \cup l2, since)
  <2> SUFFICES ASSUME NEW x \in Held(ch)
               PROVE  /\ x.event \in g \cup l2 \/ x.at >= since
                      /\ \A i \in 1..Len(q) :
                           x.event \in g \cup l2 \/ x.at >= q[i].at \/ \E j \in 1..i : q[j] = x.event
    BY <1>1 DEF Ahead
  <2>1. x.event \in g \cup l2 \/ x.at >= since
    BY DEF ClientFits, Ahead
  <2>2. ASSUME NEW i \in 1..Len(q), x.event \notin g \cup l2
        PROVE  x.at >= q[i].at \/ \E j \in 1..i : q[j] = x.event
    <3>1. x \in Held(r)
      BY <2>1, <2>2
    <3>2. PICK k \in 1..Len(r) : r[k] = x
      BY <3>1 DEF Held
    <3>3. i \in Nat /\ k \in Nat /\ q[k] = x.event /\ q[i] = r[i].event /\ i \in 1..Len(r)
      BY <1>2, <1>3, <3>2
    <3>4. CASE k <= i
      <4>1. k \in 1..i
        BY <3>3, <3>4, <3>2
      <4> QED BY <3>3, <4>1
    <3>5. CASE i < k
      <4>1. r[i].at <= r[k].at
        BY <3>2, <3>3, <3>5 DEF InOrder
      <4>2. r[i] \in Held(ch) /\ r[i].event.at <= r[i].at
        BY <1>2, <3>3
      <4>3. r[i].event.at \in Nat /\ r[i].at \in Nat /\ r[k].at \in Nat
        BY <1>2, <3>2, <3>3 DEF Entries, Events
      <4> QED BY <3>2, <3>3, <4>1, <4>2, <4>3
    <3> QED BY <3>3, <3>4, <3>5
  <2> QED BY <2>1, <2>2
<1> QED BY <1>6, <1>8, <1>9 DEF ClientFits

(* The first event is sent. *)
LEMMA ClientReceives ==
  ASSUME NEW m, NEW own \in SUBSET Events, NEW pend, NEW ch \in Seq(Entries),
         NEW s \in Sockets, NEW s2, NEW g, NEW l, NEW since \in Nat, NEW now \in Nat,
         ClientFits(m, own, pend, ch, s, g, l, since, now), s.at # "down", s.queue # <<>>,
         s2.at = s.at, s2.queue = Tail(s.queue), s2.seen = s.seen, s2.shrunk = s.shrunk,
         NEW e, e = Head(s.queue), NEW then \in Nat, then \in {since, e.at}, since <= then,
         \A f \in own : f.at <= now
  PROVE  ClientFits(m, own, pend, ch, s2, g \cup {e}, l, then, now)
<1>1. PICK q : q = s.queue
  OBVIOUS
<1>2. PICK r : r = Tail(q)
  OBVIOUS
<1>3. /\ q \in Seq(Events) /\ r \in Seq(Events) /\ Len(r) = Len(q) - 1 /\ Len(q) \in Nat /\ Len(r) \in Nat
      /\ \A i \in 1..Len(r) : r[i] = q[i + 1]
      /\ e = q[1] /\ 1 \in 1..Len(q)
  <2>1. q \in Seq(Events) /\ q # <<>>
    BY <1>1 DEF Sockets
  <2>2. Len(q) \in Nat /\ Len(q) # 0 /\ e = q[1]
    BY <1>1, <2>1, EmptySeq
  <2> QED BY <1>2, <2>1, <2>2, HeadTailProperties
<1>4. \A f : f \in Held(q) <=> f = e \/ f \in Held(r)
  <2>1. ASSUME NEW i \in 1..Len(q) PROVE i = 1 \/ (i - 1 \in 1..Len(r) /\ r[i - 1] = q[i])
    BY <1>3
  <2>2. \A i \in 1..Len(r) : i + 1 \in 1..Len(q)
    BY <1>3
  <2>3. ASSUME NEW i \in 1..Len(q) PROVE q[i] = e \/ q[i] \in Held(r)
    BY <1>3, <2>1 DEF Held
  <2>4. e \in Held(q)
    BY <1>3 DEF Held
  <2>5. ASSUME NEW i \in 1..Len(r) PROVE r[i] \in Held(q)
    BY <1>3, <2>2 DEF Held
  <2>6. Held(q) \subseteq {e} \cup Held(r)
    BY <2>3 DEF Held
  <2>7. Held(r) \subseteq Held(q)
    BY <2>5 DEF Held
  <2> QED BY <2>4, <2>6, <2>7
<1>5. SocketFits(m, own, s2, g \cup {e}, then, now)
  <2>1. e \in own /\ Held(r) \subseteq own
    BY <1>1, <1>4 DEF ClientFits, SocketFits
  <2>2. then <= now
    BY <2>1 DEF ClientFits, SocketFits
  <2>3. ~(m = "memory" /\ s2.at = "live")
    BY DEF ClientFits, SocketFits
  <2> QED BY <1>1, <1>2, <2>1, <2>2, <2>3 DEF ClientFits, SocketFits
<1>6. Covered(m, own, pend, ch, s2, (g \cup {e}) \cup l)
  BY <1>1, <1>2, <1>4 DEF ClientFits, Covered
<1>s. s2.queue = r
  BY <1>1, <1>2
<1>7. Ahead(ch, s2, (g \cup {e}) \cup l, then)
  <2>0. PICK h : h = (g \cup {e}) \cup l
    OBVIOUS
  <2> SUFFICES ASSUME NEW x \in Held(ch)
               PROVE  /\ x.event \in h \/ x.at >= then
                      /\ \A i \in 1..Len(r) :
                           x.event \in h \/ x.at >= r[i].at \/ \E j \in 1..i : r[j] = x.event
    BY <1>s, <2>0, Zenon DEF Ahead
  <2> SUFFICES ASSUME x.event \notin h
               PROVE  /\ x.at >= then
                      /\ \A i \in 1..Len(r) : x.at >= r[i].at \/ \E j \in 1..i : r[j] = x.event
    OBVIOUS
  <2>1. /\ x.at >= since
        /\ \A i \in 1..Len(q) : x.at >= q[i].at \/ \E j \in 1..i : q[j] = x.event
    BY <1>1, <2>0 DEF ClientFits, Ahead
  <2>2. x.at >= then
    <3>1. x.at >= e.at \/ \E j \in 1..1 : q[j] = x.event
      BY <1>3, <2>1
    <3>2. x.event # q[1]
      BY <1>3, <2>0
    <3> QED BY <2>1, <3>1, <3>2
  <2>3. ASSUME NEW i \in 1..Len(r) PROVE x.at >= r[i].at \/ \E j \in 1..i : r[j] = x.event
    <3>1. i + 1 \in 1..Len(q) /\ r[i] = q[i + 1] /\ i \in Nat
      BY <1>3
    <3>2. x.at >= q[i + 1].at \/ \E j \in 1..(i + 1) : q[j] = x.event
      BY <2>1, <3>1
    <3>3. ASSUME NEW j \in 1..(i + 1), q[j] = x.event PROVE \E k \in 1..i : r[k] = x.event
      <4>1. j # 1
        BY <1>3, <2>0, <3>3
      <4>2. j - 1 \in 1..i /\ j - 1 \in 1..Len(r)
        BY <1>3, <3>1, <4>1
      <4>3. r[j - 1] = q[j]
        BY <1>3, <4>2
      <4> QED BY <3>3, <4>2, <4>3
    <3> QED BY <3>1, <3>2, <3>3
  <2> QED BY <2>2, <2>3
<1> QED BY <1>5, <1>6, <1>7 DEF ClientFits

(* A connection that sent its replay is live. *)
LEMMA ClientSubscribes ==
  ASSUME NEW m, NEW own, NEW pend, NEW ch, NEW s, NEW s2, NEW g, NEW l, NEW since, NEW now,
         ClientFits(m, own, pend, ch, s, g, l, since, now), s.at = "opened", s.queue = <<>>,
         s2.at = "live", s2.queue = s.queue, s2.seen = s.seen, s2.shrunk = s.shrunk
  PROVE  ClientFits(m, own, pend, ch, s2, g, l, since, now)
<1>1. SocketFits(m, own, s2, g, since, now)
  BY DEF ClientFits, SocketFits
<1>2. Covered(m, own, pend, ch, s2, g \cup l)
  BY DEF ClientFits, Covered
<1>3. Ahead(ch, s2, g \cup l, since)
  BY DEF ClientFits, Ahead
<1> QED BY <1>1, <1>2, <1>3 DEF ClientFits

(* After a ping a client has, or lost, all events so far. *)
LEMMA ClientPings ==
  ASSUME NEW own \in SUBSET Events, NEW pend, NEW ch \in Seq(Entries), NEW s \in Sockets, NEW s2,
         NEW g, NEW l, NEW l2, NEW since, NEW then \in Nat, NEW now \in Nat,
         ClientFits("memory", own, pend, ch, s, g, l, since, now), s.at = "live", EventsIn(ch) \subseteq own,
         NEW new, new \subseteq own, l \subseteq l2,
         s.shrunk => own \subseteq g \cup new \cup l2,
         ~s.shrunk /\ Len(ch) <= Recent => \A i \in 1..Len(ch) : i > s.seen => ch[i].event \in new,
         s2.at = "live", s2.queue = s.queue, s2.seen <= Len(ch), then <= now
  PROVE  ClientFits("memory", own, pend, ch, s2, g \cup new, l2, then, now)
<1>1. s.queue = <<>> /\ Len(s.queue) = 0 /\ Held(s.queue) = {}
  BY DEF ClientFits, SocketFits, Held
<1>2. ASSUME NEW e \in own PROVE e \in (g \cup new) \cup l2
  <2>1. CASE s.shrunk
    BY <2>1
  <2>2. CASE ~s.shrunk
    <3>1. \/ e \in g \cup l
          \/ Len(ch) <= Recent /\ \E i \in 1..Len(ch) : i > s.seen /\ ch[i].event = e
      BY <1>1, <2>2 DEF ClientFits, Covered
    <3> QED BY <2>2, <3>1
  <2> QED BY <2>1, <2>2
<1>3. SocketFits("memory", own, s2, g \cup new, then, now)
  BY <1>1 DEF ClientFits, SocketFits
<1>4. Covered("memory", own, pend, ch, s2, (g \cup new) \cup l2)
  BY <1>1, <1>2 DEF Covered
<1>5. Ahead(ch, s2, (g \cup new) \cup l2, then)
  BY <1>1, <1>2, EventsAre DEF Ahead
<1> QED BY <1>3, <1>4, <1>5 DEF ClientFits

(* A connection ends. *)
LEMMA ClientGoes ==
  ASSUME NEW m, NEW own \in SUBSET Events, NEW pend, NEW pend2, NEW ch, NEW ch2, NEW s, NEW s2,
         NEW g, NEW l, NEW l2, NEW since, NEW now,
         ClientFits(m, own, pend, ch, s, g, l, since, now),
         s2.at = "down", s2.queue = <<>>, l \subseteq l2,
         own \subseteq g \cup l2 \cup pend2 \cup EventsIn(ch2), Held(ch2) \subseteq Held(ch)
  PROVE  ClientFits(m, own, pend2, ch2, s2, g, l2, since, now)
<1>1. Len(s2.queue) = 0 /\ Held(s2.queue) = {}
  BY DEF Held
<1>2. SocketFits(m, own, s2, g, since, now)
  BY <1>1 DEF ClientFits, SocketFits
<1>3. Covered(m, own, pend2, ch2, s2, g \cup l2)
  BY DEF Covered
<1>4. Ahead(ch2, s2, g \cup l2, since)
  BY <1>1 DEF ClientFits, Ahead
<1> QED BY <1>2, <1>3, <1>4 DEF ClientFits

-----------------------------------------------------------------------------
(* Sessions: the feed.                                                     *)

Log == buffer[Web!Store(Home)]
Mine(c) == Web!Own(c, published)
ClientInv(c) ==
  ClientFits(Web!mode, Mine(c), Web!Pending, Web!Channel(Log, Org[c]), socket[c], got[c], lost[c],
             last[c], clock)

(* A handler may have one event to keep, with Redis, after it posted it. *)
PendingFits(p, h) ==
  /\ h.pending \subseteq published /\ \A e, f \in h.pending : e = f
  /\ h.step \notin {"case", "done"} \/ Web!mode = "memory" => h.pending = {}
  /\ p \notin Web!Running => h.step = "idle"

(* There is one buffer, of published events in the order they were kept. *)
LogFits(log) ==
  /\ InOrder(log)
  /\ \A x \in Held(log) : x.event \in published /\ x.event.at <= x.at /\ x.at <= clock

StreamWorld ==
  /\ buffer \in [Processes \cup {"redis"} -> Seq(Entries)]
  /\ \A s \in Processes \cup {"redis"} : s # Web!Store(Home) => buffer[s] = <<>>
  /\ socket \in [Clients -> Sockets] /\ \A c \in Clients : socket[c].proc \in Web!Running
  /\ got \in [Clients -> SUBSET Events] /\ lost \in [Clients -> SUBSET published]
  /\ last \in [Clients -> Nat] /\ \A e \in published : e.at <= clock
  /\ ~Web!FeedRuns => published = {}
StreamInv ==
  /\ StreamWorld /\ LogFits(Log)
  /\ \A p \in Processes : PendingFits(p, handler[p])
  /\ \A c \in Clients : ClientInv(c)

(* The process named by each store. *)
LEMMA OneStore ==
  ASSUME FeedInv, StreamInv
  PROVE  /\ Web!Store(Home) \in Processes \cup {"redis"} /\ Home \in Web!Running
         /\ Log \in Seq(Entries) /\ "redis" \notin Processes /\ Web!Running \subseteq Processes
         /\ \A p \in Web!Running : Web!Store(p) = Web!Store(Home)
         /\ Web!mode = "memory" => Web!Store(Home) = Home /\ Web!Running = {Home}
         /\ Web!mode # "memory" => Web!Store(Home) = "redis"
         /\ Recent \in Nat /\ ReplayWindow \in Nat /\ clock \in Nat
<1>1. /\ Home \in Processes /\ "redis" \notin Processes /\ Recent \in Nat /\ ReplayWindow \in Nat
      /\ clock \in Nat
  BY DEF FeedInv, FeedWorld, Web!SessionsAssumption
<1>2. Web!Store(Home) \in Processes \cup {"redis"}
  BY <1>1 DEF Web!Store
<1>3. Log \in Seq(Entries)
  BY <1>2 DEF StreamInv, StreamWorld, Log
<1> QED BY <1>1, <1>2, <1>3 DEF Web!Store, Web!Running

(* The channel of a client has its own events, published before they were  *)
(* kept.                                                                   *)
LEMMA ChannelFits ==
  ASSUME FeedInv, StreamInv, NEW c \in Clients, NEW ch, ch = Web!Channel(Log, Org[c])
  PROVE  /\ ch \in Seq(Entries) /\ InOrder(ch)
         /\ \A x : x \in Held(ch) <=> x \in Held(Log) /\ x.event.tenant = Org[c]
         /\ \A x \in Held(ch) : x.event.at <= x.at /\ x.at <= clock
         /\ EventsIn(ch) \subseteq Mine(c)
         /\ Mine(c) \in SUBSET Events /\ \A e \in Mine(c) : e \in published /\ e.at <= clock
<1>1. Log \in Seq(Entries)
  BY OneStore
<1>2. /\ ch \in Seq(Entries) /\ (InOrder(Log) => InOrder(ch))
      /\ \A x : x \in Held(ch) <=> x \in Held(Log) /\ x.event.tenant = Org[c]
  BY <1>1, ChannelIs
<1>3. LogFits(Log)
  BY DEF StreamInv
<1>4. \A x \in Held(ch) : x.event \in published /\ x.event.tenant = Org[c]
  BY <1>2, <1>3 DEF LogFits
<1>5. \A e : e \in Mine(c) <=> e \in published /\ e.tenant = Org[c]
  BY DEF Mine, Web!Own
<1>6. EventsIn(ch) \subseteq Mine(c)
  BY <1>4, <1>5, EventsAre
<1>7. Mine(c) \in SUBSET Events /\ \A e \in Mine(c) : e \in published /\ e.at <= clock
  BY <1>5 DEF FeedInv, FeedWorld, StreamInv, StreamWorld
<1> QED BY <1>2, <1>3, <1>6, <1>7 DEF LogFits

(* What a client has, with a connection of the right type. *)
LEMMA ClientIs ==
  ASSUME FeedInv, StreamInv, NEW c \in Clients
  PROVE  /\ socket[c] \in Sockets /\ socket[c].proc \in Web!Running
         /\ got[c] \subseteq Events /\ lost[c] \subseteq published /\ last[c] \in Nat
         /\ ClientFits(Web!mode, Mine(c), Web!Pending, Web!Channel(Log, Org[c]), socket[c], got[c],
                       lost[c], last[c], clock)
  BY DEF StreamInv, StreamWorld, ClientInv

(* A client is as well off when it is later. *)
LEMMA ClientWaits ==
  ASSUME NEW m, NEW own, NEW pend, NEW ch, NEW s, NEW g, NEW l, NEW since \in Nat, NEW now \in Nat,
         NEW now2 \in Nat, now <= now2, ClientFits(m, own, pend, ch, s, g, l, since, now)
  PROVE  ClientFits(m, own, pend, ch, s, g, l, since, now2)
<1>1. SocketFits(m, own, s, g, since, now2)
  BY DEF ClientFits, SocketFits
<1> QED BY <1>1 DEF ClientFits

(* A step that leaves the feed alone. *)
LEMMA StreamStays ==
  ASSUME FeedInv, StreamInv, UNCHANGED <<deployment, published, buffer, socket, got, lost, last>>,
         clock' \in {clock, clock + 1},
         \A p \in Processes : /\ handler'[p].pending = handler[p].pending
                              /\ handler'[p] = handler[p] \/ (p \in Web!Running /\ handler[p].pending = {})
  PROVE  StreamInv'
<1>1. clock \in Nat /\ clock' \in Nat /\ clock <= clock'
  BY OneStore
<1>2. StreamWorld'
  <2>1. \A e \in published : e.at \in Nat /\ e.at <= clock
    BY DEF StreamInv, StreamWorld, FeedInv, FeedWorld, Events
  <2>2. \A e \in published : e.at <= clock'
    BY <1>1, <2>1
  <2> QED BY <2>2 DEF StreamInv, StreamWorld, Web!Store, Web!Running, Web!mode, Web!FeedRuns
<1>3. Log' = Log
  BY DEF Log, Web!Store, Web!mode
<1>4. LogFits(Log)'
  <2>1. Log \in Seq(Entries) /\ LogFits(Log)
    BY OneStore DEF StreamInv
  <2>2. \A x \in Held(Log) : x.at \in Nat
    <3>1. Held(Log) \subseteq Entries
      BY <2>1, HeldIs
    <3> QED BY <3>1 DEF Entries
  <2>3. \A x \in Held(Log) : x.at <= clock'
    BY <1>1, <2>1, <2>2 DEF LogFits
  <2> QED BY <1>3, <2>1, <2>3 DEF LogFits
<1>5. ASSUME NEW p \in Processes PROVE PendingFits(p, handler[p])'
  <2>1. PendingFits(p, handler[p])
    BY DEF StreamInv
  <2> QED BY <2>1 DEF PendingFits, Web!Running, Web!mode
<1>6. Web!Pending' = Web!Pending
  BY DEF Web!Pending
<1>7. ASSUME NEW c \in Clients PROVE ClientInv(c)'
  <2>1. last[c] \in Nat
    BY ClientIs
  <2>2. ClientFits(Web!mode, Mine(c), Web!Pending, Web!Channel(Log, Org[c]), socket[c], got[c],
                   lost[c], last[c], clock')
    BY <1>1, <2>1, ClientIs, ClientWaits
  <2>3. Mine(c)' = Mine(c) /\ Web!mode' = Web!mode
    BY DEF Mine, Web!Own, Web!mode
  <2> QED BY <1>3, <1>6, <2>2, <2>3 DEF ClientInv
<1> QED BY <1>2, <1>4, <1>5, <1>7 DEF StreamInv

(* A step of one client and its connection. *)
LEMMA ClientMoves ==
  ASSUME FeedInv, StreamInv, UNCHANGED <<deployment, clock, published, buffer, handler>>,
         NEW c \in Clients, NEW s \in Sockets, NEW g \in SUBSET Events, NEW l \in SUBSET published,
         NEW t \in Nat, s.proc \in Web!Running,
         socket' = [socket EXCEPT ![c] = s], got' = [got EXCEPT ![c] = g],
         lost' = [lost EXCEPT ![c] = l], last' = [last EXCEPT ![c] = t],
         ClientFits(Web!mode, Mine(c), Web!Pending, Web!Channel(Log, Org[c]), s, g, l, t, clock)
  PROVE  StreamInv'
<1>1. /\ socket \in [Clients -> Sockets] /\ got \in [Clients -> SUBSET Events]
      /\ lost \in [Clients -> SUBSET published] /\ last \in [Clients -> Nat]
      /\ \A d \in Clients : socket[d].proc \in Web!Running
  BY DEF StreamInv, StreamWorld
<1>2. /\ socket' \in [Clients -> Sockets] /\ got' \in [Clients -> SUBSET Events]
      /\ lost' \in [Clients -> SUBSET published] /\ last' \in [Clients -> Nat]
      /\ socket'[c] = s /\ got'[c] = g /\ lost'[c] = l /\ last'[c] = t
      /\ \A d \in Clients : d # c => /\ socket'[d] = socket[d] /\ got'[d] = got[d]
                                     /\ lost'[d] = lost[d] /\ last'[d] = last[d]
  BY <1>1
<1>3. \A d \in Clients : socket'[d].proc \in Web!Running
  BY <1>1, <1>2
<1>4. Log' = Log /\ Web!mode' = Web!mode /\ Web!Running' = Web!Running /\ Web!Pending' = Web!Pending
      /\ Web!Store(Home)' = Web!Store(Home)
  BY DEF Log, Web!Store, Web!mode, Web!Running, Web!Pending
<1>5. StreamWorld'
  BY <1>2, <1>3, <1>4 DEF StreamInv, StreamWorld, Web!FeedRuns
<1>6. LogFits(Log)'
  BY <1>4 DEF StreamInv, LogFits
<1>7. \A p \in Processes : PendingFits(p, handler[p])'
  BY <1>4 DEF StreamInv, PendingFits
<1>8. ASSUME NEW d \in Clients PROVE ClientInv(d)'
  <2>1. Mine(d)' = Mine(d)
    BY DEF Mine, Web!Own
  <2>2. CASE d = c
    BY <1>2, <1>4, <2>1, <2>2 DEF ClientInv
  <2>3. CASE d # c
    <3>1. ClientInv(d)
      BY DEF StreamInv
    <3> QED BY <1>2, <1>4, <2>1, <2>3, <3>1 DEF ClientInv
  <2> QED BY <2>2, <2>3
<1> QED BY <1>5, <1>6, <1>7, <1>8 DEF StreamInv

(* A connection is opened. *)
LEMMA OpenKeeps ==
  ASSUME FeedInv, StreamInv, NEW c \in Clients, NEW p \in Processes, Web!Open(c, p)
  PROVE  StreamInv'
<1>1. PICK ch : ch = Web!Channel(Log, Org[c])
  OBVIOUS
<1>2. PICK set : set = {x \in Held(ch) : x.at >= last[c]}
  OBVIOUS
<1>3. PICK r : r = Web!Those(ch, set)
  OBVIOUS
<1>4. PICK q : q = [i \in 1..Len(r) |-> r[i].event]
  OBVIOUS
<1>5. PICK s : s = [Web!Down EXCEPT !.at = "opened", !.proc = p, !.queue = q]
  OBVIOUS
<1>6. PICK l : l = lost[c] \cup Web!Own(c, Web!Pending)
  OBVIOUS
<1>7. /\ socket[c].at = "down" /\ p \in Web!Running
      /\ socket' = [socket EXCEPT ![c] = [Web!Down EXCEPT !.at = "opened", !.proc = p,
                                                         !.queue = Web!Replay(p, c)]]
      /\ lost' = [lost EXCEPT ![c] = @ \cup Web!Own(c, Web!Pending)]
      /\ UNCHANGED <<deployment, clock, published, buffer, handler, got, last>>
  BY Zenon DEF Web!Open, Web!Answers
<1>8. /\ ch \in Seq(Entries) /\ InOrder(ch) /\ \A x \in Held(ch) : x.event.at <= x.at
      /\ EventsIn(ch) \subseteq Mine(c) /\ Mine(c) \in SUBSET Events
  BY <1>1, ChannelFits
<1>9. /\ r \in Seq(Entries) /\ InOrder(r) /\ \A x : x \in Held(r) <=> x \in Held(ch) /\ x.at >= last[c]
  <2>1. /\ r \in Seq(Entries) /\ (\A x : x \in Held(r) <=> x \in set /\ x \in Held(ch))
        /\ (InOrder(ch) => InOrder(r))
    BY <1>3, <1>8, ThoseHeld
  <2> QED BY <1>2, <1>8, <2>1
<1>10. Web!Replay(p, c) = q
  <2>1. buffer[Web!Store(p)] = Log
    BY <1>7, OneStore DEF Log
  <2>2. Web!ToSet(ch) = Held(ch)
    BY <1>8, HeldIs
  <2>3. r = Web!Those(ch, {x \in Web!ToSet(ch) : Web!Since(x, last[c])})
    BY <1>2, <1>3, <2>2 DEF Web!Since
  <2> QED BY <1>1, <1>4, <2>1, <2>3 DEF Web!Replay
<1>11. socket' = [socket EXCEPT ![c] = s]
  BY <1>5, <1>7, <1>10
<1>12. q \in Seq(Events)
  <2>1. ASSUME NEW i \in 1..Len(r) PROVE r[i].event \in Events
    <3>1. r[i] \in Entries
      BY <1>9
    <3> QED BY <3>1 DEF Entries
  <2>2. Len(r) \in Nat
    BY <1>9
  <2> QED BY <1>4, <2>1, <2>2
<1>13. s \in Sockets /\ s.proc \in Web!Running /\ s.at = "opened" /\ s.queue = q /\ s.seen = 0
  <2>1. p \in Processes /\ Home \in Processes
    BY DEF FeedInv, Web!SessionsAssumption
  <2> QED BY <1>5, <1>7, <1>12, <2>1 DEF Sockets, Web!Down
<1>14. \A e : e \in Web!Pending => e \in published
  BY DEF Web!Pending, StreamInv, PendingFits
<1>15. /\ l \in SUBSET published /\ lost[c] \subseteq l /\ Mine(c) \cap Web!Pending \subseteq l
  BY <1>6, <1>14, ClientIs DEF Mine, Web!Own
<1>16. /\ got' = [got EXCEPT ![c] = got[c]] /\ last' = [last EXCEPT ![c] = last[c]]
       /\ lost' = [lost EXCEPT ![c] = l]
  BY <1>6, <1>7 DEF StreamInv, StreamWorld
<1>17. PICK g \in SUBSET Events : g = got[c]
  BY ClientIs
<1>18. PICK t \in Nat : t = last[c]
  BY ClientIs
<1>19. ClientFits(Web!mode, Mine(c), Web!Pending, ch, s, g, l, t, clock)
  <2>1. ClientFits(Web!mode, Mine(c), Web!Pending, ch, socket[c], g, lost[c], t, clock)
    BY <1>1, <1>17, <1>18, ClientIs
  <2> QED BY <1>4, <1>7, <1>8, <1>9, <1>13, <1>15, <1>18, <2>1, ClientAsks
<1>20. /\ got' = [got EXCEPT ![c] = g] /\ last' = [last EXCEPT ![c] = t]
       /\ s \in Sockets /\ s.proc \in Web!Running /\ l \in SUBSET published
       /\ UNCHANGED <<deployment, clock, published, buffer, handler>>
  BY <1>7, <1>13, <1>15, <1>16, <1>17, <1>18
<1>21. ClientFits(Web!mode, Mine(c), Web!Pending, Web!Channel(Log, Org[c]), s, g, l, t, clock)
  BY <1>1, <1>19
<1> QED BY <1>11, <1>16, <1>20, <1>21, ClientMoves

(* An event is sent, and the time to ask from follows. *)
LEMMA SendKeeps ==
  ASSUME FeedInv, StreamInv, NEW c \in Clients, Web!Send(c)
  PROVE  StreamInv'
<1>1. PICK s : s = socket[c]
  OBVIOUS
<1>2. PICK e : e = Head(s.queue)
  OBVIOUS
<1>3. PICK s2 : s2 = [s EXCEPT !.queue = Tail(s.queue)]
  OBVIOUS
<1>4. PICK t : t = Web!Max({last[c]} \cup {f.at : f \in {e}})
  OBVIOUS
<1>5. /\ s.at \in {"opened", "live"} /\ s.queue # <<>>
      /\ socket' = [socket EXCEPT ![c] = s2]
      /\ got' = [got EXCEPT ![c] = @ \cup {e}] /\ last' = [last EXCEPT ![c] = t]
      /\ UNCHANGED <<deployment, clock, published, buffer, handler, lost>>
  BY <1>1, <1>2, <1>3, <1>4, Zenon DEF Web!Send, Web!SentAt, Web!Receives
<1>6. s \in Sockets /\ s.proc \in Web!Running /\ last[c] \in Nat /\ got[c] \subseteq Events
      /\ lost[c] \subseteq published
  BY <1>1, ClientIs
<1>7. s.queue \in Seq(Events) /\ Tail(s.queue) \in Seq(Events) /\ e \in Events
  <2>1. s.queue \in Seq(Events)
    BY <1>6 DEF Sockets
  <2> QED BY <1>2, <1>5, <2>1, HeadTailProperties
<1>8. /\ s2 \in Sockets /\ s2.proc = s.proc /\ s2.at = s.at /\ s2.queue = Tail(s.queue)
      /\ s2.seen = s.seen /\ s2.shrunk = s.shrunk
  BY <1>3, <1>6, <1>7 DEF Sockets
<1>9. t \in Nat /\ t \in {last[c], e.at} /\ last[c] <= t
  <2>1. t = Web!Max({last[c], e.at})
    <3>1. {last[c]} \cup {f.at : f \in {e}} = {last[c], e.at}
      OBVIOUS
    <3> QED BY <1>4, <3>1
  <2>2. PICK x \in Nat : x = last[c]
    BY <1>6
  <2>3. PICK y \in Nat : y = e.at
    BY <1>7 DEF Events
  <2>4. Web!Max({x, y}) \in {x, y} /\ x <= Web!Max({x, y})
    BY LaterOfTwo
  <2> QED BY <2>1, <2>2, <2>3, <2>4
<1>10. PICK ch : ch = Web!Channel(Log, Org[c])
  OBVIOUS
<1>11. ClientFits(Web!mode, Mine(c), Web!Pending, ch, s2, got[c] \cup {e}, lost[c], t, clock)
  <2>1. ClientFits(Web!mode, Mine(c), Web!Pending, ch, s, got[c], lost[c], last[c], clock)
    BY <1>1, <1>10, ClientIs
  <2>2. /\ ch \in Seq(Entries) /\ Mine(c) \in SUBSET Events /\ clock \in Nat
        /\ \A f \in Mine(c) : f.at <= clock
    BY <1>10, ChannelFits, OneStore
  <2>3. s.at # "down"
    BY <1>5
  <2> QED BY <1>2, <1>5, <1>6, <1>8, <1>9, <2>1, <2>2, <2>3, ClientReceives
<1>12. /\ got' = [got EXCEPT ![c] = got[c] \cup {e}] /\ lost' = [lost EXCEPT ![c] = lost[c]]
       /\ got[c] \cup {e} \in SUBSET Events /\ lost[c] \in SUBSET published
  BY <1>5, <1>6, <1>7 DEF StreamInv, StreamWorld
<1>13. s2.proc \in Web!Running
  BY <1>6, <1>8
<1> QED BY <1>5, <1>8, <1>9, <1>10, <1>11, <1>12, <1>13, ClientMoves

(* A connection becomes live. *)
LEMMA SubscribeKeeps ==
  ASSUME FeedInv, StreamInv, NEW c \in Clients, Web!Subscribe(c)
  PROVE  StreamInv'
<1>1. PICK s : s = socket[c]
  OBVIOUS
<1>2. PICK s2 : s2 = [s EXCEPT !.at = "live"]
  OBVIOUS
<1>3. /\ s.at = "opened" /\ s.queue = <<>> /\ socket' = [socket EXCEPT ![c] = s2]
      /\ UNCHANGED <<deployment, clock, published, buffer, handler, got, last, lost>>
  BY <1>1, <1>2, Zenon DEF Web!Subscribe
<1>4. s \in Sockets /\ s.proc \in Web!Running
  BY <1>1, ClientIs
<1>5. /\ s2 \in Sockets /\ s2.proc \in Web!Running /\ s2.at = "live" /\ s2.queue = s.queue
      /\ s2.seen = s.seen /\ s2.shrunk = s.shrunk
  BY <1>2, <1>4 DEF Sockets
<1>6. PICK g \in SUBSET Events : g = got[c]
  BY ClientIs
<1>7. PICK l \in SUBSET published : l = lost[c]
  BY ClientIs
<1>8. PICK t \in Nat : t = last[c]
  BY ClientIs
<1>9. ClientFits(Web!mode, Mine(c), Web!Pending, Web!Channel(Log, Org[c]), s2, g, l, t, clock)
  <2>1. ClientFits(Web!mode, Mine(c), Web!Pending, Web!Channel(Log, Org[c]), s, g, l, t, clock)
    BY <1>1, <1>6, <1>7, <1>8, ClientIs
  <2> QED BY <1>3, <1>5, <2>1, ClientSubscribes
<1>10. /\ got' = [got EXCEPT ![c] = g] /\ lost' = [lost EXCEPT ![c] = l]
       /\ last' = [last EXCEPT ![c] = t] /\ socket' = [socket EXCEPT ![c] = s2]
       /\ UNCHANGED <<deployment, clock, published, buffer, handler>>
  BY <1>3, <1>6, <1>7, <1>8 DEF StreamInv, StreamWorld
<1> QED BY <1>5, <1>9, <1>10, ClientMoves

(* A ping brings what came after those seen. *)
LEMMA PingKeeps ==
  ASSUME FeedInv, StreamInv, NEW c \in Clients, Web!Ping(c)
  PROVE  StreamInv'
<1>1. PICK s : s = socket[c]
  OBVIOUS
<1>2. PICK ch : ch = Web!Channel(Log, Org[c])
  OBVIOUS
<1>3. PICK from : from = Web!Max({1, Len(ch) + 1 - Recent})
  OBVIOUS
<1>4. PICK recent : recent = SubSeq(ch, from, Len(ch))
  OBVIOUS
<1>5. PICK new : new = {recent[i].event : i \in {j \in DOMAIN recent : j > s.seen}}
  OBVIOUS
<1>6. PICK t : t = Web!Max({last[c]} \cup {e.at : e \in new})
  OBVIOUS
<1>7. PICK s2 : s2 = [s EXCEPT !.seen = Len(recent), !.shrunk = FALSE]
  OBVIOUS
<1>8. PICK l : l = IF s.shrunk THEN lost[c] \cup Web!Own(c, published \ (got[c] \cup new)) ELSE lost[c]
  OBVIOUS
<1>9. Web!mode = "memory"
  BY DEF Web!Ping
<1>10. buffer[Home] = Log
  BY <1>9, OneStore DEF Log
<1>11. /\ s.at = "live"
       /\ socket' = [socket EXCEPT ![c].seen = Len(recent), ![c].shrunk = FALSE]
       /\ got' = [got EXCEPT ![c] = @ \cup new] /\ last' = [last EXCEPT ![c] = t]
       /\ lost' = IF s.shrunk
                  THEN [lost EXCEPT ![c] = @ \cup Web!Own(c, published \ (got[c] \cup new))] ELSE lost
       /\ UNCHANGED <<deployment, clock, published, buffer, handler>>
  BY <1>1, <1>2, <1>3, <1>4, <1>5, <1>6, <1>10 DEF Web!Ping, Web!Receives
<1>12. /\ ch \in Seq(Entries) /\ EventsIn(ch) \subseteq Mine(c) /\ Mine(c) \in SUBSET Events
       /\ \A e \in Mine(c) : e \in published /\ e.at <= clock
  BY <1>2, ChannelFits
<1>13. PICK n \in Nat : n = Len(ch)
  BY <1>12
<1>14. /\ from \in Nat /\ from >= 1 /\ from >= n + 1 - Recent
       /\ n <= Recent => from = 1
  <2>1. PICK x \in Int : x = n + 1 - Recent
    BY <1>13, OneStore
  <2>2. from = Web!Max({1, x})
    BY <1>3, <1>13, <2>1
  <2>3. Web!Max({1, x}) \in {1, x} /\ 1 <= Web!Max({1, x})
    BY LaterOfTwo
  <2>4. Web!Max({x, 1}) \in {x, 1} /\ x <= Web!Max({x, 1})
    BY LaterOfTwo
  <2>5. {x, 1} = {1, x}
    OBVIOUS
  <2>6. from \in {1, x} /\ 1 <= from /\ x <= from
    BY <2>2, <2>3, <2>4, <2>5
  <2>7. PICK k \in Nat : k = Recent
    BY OneStore
  <2>8. x = n + 1 - k /\ (n <= k => x <= 1)
    BY <2>1, <2>7
  <2> QED BY <2>1, <2>6, <2>7, <2>8
<1>15. /\ recent \in Seq(Entries) /\ Len(recent) \in Nat /\ Len(recent) <= n
       /\ \A i \in 1..Len(recent) : from + i - 1 \in 1..n /\ recent[i] = ch[from + i - 1]
       /\ n <= Recent => Len(recent) = n
  <2>1. \A i \in from..n : ch[i] \in Entries
    BY <1>12, <1>13, <1>14
  <2>2. /\ SubSeq(ch, from, n) \in Seq(Entries)
        /\ Len(SubSeq(ch, from, n)) = IF from <= n THEN n - from + 1 ELSE 0
        /\ \A i \in 1..(n - from + 1) : SubSeq(ch, from, n)[i] = ch[from + i - 1]
    BY <1>14, <2>1, SubSeqProperties
  <2>3. Len(recent) = (IF from <= n THEN n - from + 1 ELSE 0) /\ Len(recent) \in Nat
    BY <1>4, <1>13, <1>14, <2>2
  <2>4. ASSUME NEW i \in 1..Len(recent) PROVE from + i - 1 \in 1..n /\ recent[i] = ch[from + i - 1]
    <3>1. i \in 1..(n - from + 1) /\ from + i - 1 \in 1..n
      BY <1>14, <2>3
    <3> QED BY <1>4, <1>13, <2>2, <3>1
  <2> QED BY <1>4, <1>13, <1>14, <2>2, <2>3, <2>4
<1>16. new \subseteq EventsIn(ch)
  <2>1. DOMAIN recent = 1..Len(recent)
    BY <1>15
  <2>2. \A i \in 1..Len(recent) : recent[i].event \in EventsIn(ch)
    BY <1>13, <1>15 DEF EventsIn
  <2> QED BY <1>5, <2>1, <2>2
<1>17. new \subseteq Mine(c) /\ new \subseteq Events
  BY <1>12, <1>16
<1>18. t \in Nat /\ t <= clock
  <2>1. PICK S : S = {last[c]} \cup {e.at : e \in new}
    OBVIOUS
  <2>2. last[c] \in Nat /\ last[c] <= clock /\ clock \in Nat
    BY ClientIs, OneStore DEF ClientFits, SocketFits
  <2>3. S \in SUBSET Nat /\ last[c] \in S /\ \A x \in S : x <= clock
    BY <1>12, <1>17, <2>1, <2>2 DEF Events
  <2>4. Web!Max(S) \in S
    BY <2>2, <2>3, LatestIs
  <2> QED BY <1>6, <2>1, <2>3, <2>4
<1>19. s \in Sockets /\ s.proc \in Web!Running
  BY <1>1, ClientIs
<1>20. /\ s2 \in Sockets /\ s2.proc \in Web!Running /\ s2.at = "live" /\ s2.queue = s.queue
       /\ s2.seen = Len(recent)
  BY <1>7, <1>11, <1>15, <1>19 DEF Sockets
<1>21. /\ socket' = [socket EXCEPT ![c] = s2] /\ lost' = [lost EXCEPT ![c] = l]
       /\ got' = [got EXCEPT ![c] = got[c] \cup new] /\ got[c] \cup new \in SUBSET Events
  <2>1. socket' = [socket EXCEPT ![c] = s2]
    BY <1>1, <1>7, <1>11
  <2>2. lost' = [lost EXCEPT ![c] = l]
    BY <1>8, <1>11 DEF StreamInv, StreamWorld
  <2> QED BY <1>11, <1>17, <2>1, <2>2, ClientIs
<1>22. l \in SUBSET published /\ lost[c] \subseteq l
  BY <1>8, ClientIs DEF Web!Own
<1>23. ClientFits(Web!mode, Mine(c), Web!Pending, Web!Channel(Log, Org[c]), s2, got[c] \cup new, l, t,
                  clock)
  <2>1. ClientFits("memory", Mine(c), Web!Pending, ch, s, got[c], lost[c], last[c], clock)
    BY <1>1, <1>2, <1>9, ClientIs
  <2>2. s.shrunk => Mine(c) \subseteq got[c] \cup new \cup l
    BY <1>8 DEF Mine, Web!Own
  <2>3. ASSUME ~s.shrunk, Len(ch) <= Recent, NEW i \in 1..Len(ch), i > s.seen PROVE ch[i].event \in new
    <3>1. from = 1 /\ Len(recent) = n /\ i \in 1..Len(recent)
      BY <1>13, <1>14, <1>15, <2>3
    <3>2. recent[i] = ch[i] /\ i \in DOMAIN recent
      <4>1. recent[i] = ch[from + i - 1] /\ DOMAIN recent = 1..Len(recent)
        BY <1>15, <3>1
      <4> QED BY <3>1, <4>1
    <3> QED BY <1>5, <2>3, <3>2
  <2>4. ~s.shrunk /\ Len(ch) <= Recent => \A i \in 1..Len(ch) : i > s.seen => ch[i].event \in new
    BY <2>3
  <2>5. s2.seen <= Len(ch) /\ clock \in Nat
    BY <1>13, <1>15, <1>20, OneStore
  <2>6. ClientFits("memory", Mine(c), Web!Pending, ch, s2, got[c] \cup new, l, t, clock)
    BY <1>11, <1>12, <1>17, <1>18, <1>19, <1>20, <1>22, <2>1, <2>2, <2>4, <2>5, ClientPings
  <2> QED BY <1>2, <1>9, <2>6
<1>24. t \in Nat /\ last' = [last EXCEPT ![c] = t] /\ UNCHANGED <<deployment, clock, published, buffer, handler>>
  BY <1>11, <1>18
<1> QED BY <1>20, <1>21, <1>22, <1>23, <1>24, ClientMoves

(* What a connection still had to send is kept, pending or noted as lost. *)
LEMMA DroppedIs ==
  ASSUME FeedInv, StreamInv, NEW c \in Clients
  PROVE  /\ Web!Dropped(c) \subseteq published
         /\ Mine(c) \subseteq got[c] \cup lost[c] \cup Web!Dropped(c) \cup Web!Pending
                              \cup EventsIn(Web!Channel(Log, Org[c]))
<1>1. PICK s : s = socket[c]
  OBVIOUS
<1>2. PICK ch : ch = Web!Channel(Log, Org[c])
  OBVIOUS
<1>3. PICK m : m = Web!mode
  OBVIOUS
<1>4. /\ SocketFits(m, Mine(c), s, got[c], last[c], clock)
      /\ Covered(m, Mine(c), Web!Pending, ch, s, got[c] \cup lost[c])
      /\ s \in Sockets
  BY <1>1, <1>2, <1>3, ClientIs DEF ClientFits
<1>5. s.queue \in Seq(Events) /\ Web!ToSet(s.queue) = Held(s.queue)
  <2>1. s.queue \in Seq(Events)
    BY <1>4 DEF Sockets
  <2> QED BY <2>1, HeldIs
<1>6. Web!Owed(c) = IF m = "memory" THEN (IF s.shrunk THEN published \ got[c] ELSE {})
                    ELSE IF m = "redis" THEN Held(s.queue)
                    ELSE IF s.shrunk THEN published \ got[c] ELSE {}
  BY <1>1, <1>3, <1>5 DEF Web!Owed
<1>7. ASSUME NEW e \in Web!Kept, e \in Mine(c) PROVE e \in EventsIn(ch)
  <2>1. PICK d \in DOMAIN buffer : \E x \in Web!ToSet(buffer[d]) : x.event = e
    BY <1>7 DEF Web!Kept
  <2>2. PICK x \in Web!ToSet(buffer[d]) : x.event = e
    BY <2>1
  <2>3. buffer \in [Processes \cup {"redis"} -> Seq(Entries)]
    BY DEF StreamInv, StreamWorld
  <2>4. buffer[d] \in Seq(Entries) /\ d \in Processes \cup {"redis"}
    BY <2>1, <2>3
  <2>5. x \in Held(buffer[d])
    BY <2>2, <2>4, HeldIs
  <2>6. d = Web!Store(Home)
    <3>1. buffer[d] # <<>>
      BY <2>5 DEF Held
    <3> QED BY <2>4, <3>1 DEF StreamInv, StreamWorld
  <2>7. x \in Held(Log) /\ x.event.tenant = Org[c]
    BY <1>7, <2>2, <2>5, <2>6 DEF Log, Mine, Web!Own
  <2> QED BY <1>2, <2>2, <2>7, ChannelFits, EventsAre
<1>8. Web!Dropped(c) \subseteq published
  BY <1>4, <1>6 DEF Web!Dropped, Web!Own, SocketFits, Mine
<1>9. ASSUME NEW e \in Mine(c), e \notin got[c] \cup lost[c], e \notin EventsIn(ch), e \notin Web!Pending
      PROVE  e \in Web!Dropped(c)
  <2>1. e \in published /\ e.tenant = Org[c]
    BY DEF Mine, Web!Own
  <2>2. e \in Web!Owed(c)
    <3>0. s.at # "down"
      BY <1>4, <1>9 DEF Covered
    <3>1. CASE m = "memory"
      <4>1. s.shrunk
        BY <1>4, <1>9, <3>0, <3>1 DEF Covered, EventsIn
      <4> QED BY <1>6, <1>9, <2>1, <3>1, <4>1
    <3>2. CASE m # "memory"
      <4>1. e \in Held(s.queue)
        BY <1>4, <1>9, <3>0, <3>2 DEF Covered
      <4>2. m = "redis"
        BY <1>3, <2>1, <3>2 DEF StreamInv, StreamWorld, Web!FeedRuns
      <4> QED BY <1>6, <4>1, <4>2
    <3> QED BY <3>1, <3>2
  <2>3. e \notin Web!Kept
    BY <1>7, <1>9
  <2> QED BY <1>9, <2>1, <2>2, <2>3 DEF Web!Dropped, Web!Own
<1> QED BY <1>2, <1>8, <1>9

(* A connection ends; what it had to send and nobody keeps is lost. *)
LEMMA DisconnectKeeps ==
  ASSUME FeedInv, StreamInv, NEW c \in Clients, Web!Disconnect(c)
  PROVE  StreamInv'
<1>1. PICK s2 : s2 = Web!Down
  OBVIOUS
<1>2. PICK l : l = lost[c] \cup Web!Dropped(c)
  OBVIOUS
<1>3. /\ socket' = [socket EXCEPT ![c] = s2]
      /\ lost' = [lost EXCEPT ![c] = @ \cup Web!Dropped(c)]
      /\ UNCHANGED <<deployment, clock, published, buffer, handler, got, last>>
  BY <1>1, Zenon DEF Web!Disconnect
<1>4. s2 \in Sockets /\ s2.proc \in Web!Running /\ s2.at = "down" /\ s2.queue = <<>>
  <2>1. Home \in Processes /\ Home \in Web!Running
    BY OneStore DEF FeedInv, Web!SessionsAssumption
  <2> QED BY <1>1, <2>1 DEF Web!Down, Sockets
<1>5. PICK g \in SUBSET Events : g = got[c]
  BY ClientIs
<1>6. PICK t \in Nat : t = last[c]
  BY ClientIs
<1>7. PICK ch : ch = Web!Channel(Log, Org[c])
  OBVIOUS
<1>8. /\ Mine(c) \subseteq g \cup l \cup Web!Pending \cup EventsIn(ch)
      /\ l \in SUBSET published /\ lost[c] \subseteq l
  BY <1>2, <1>5, <1>7, ClientIs, DroppedIs
<1>9. ClientFits(Web!mode, Mine(c), Web!Pending, Web!Channel(Log, Org[c]), s2, g, l, t, clock)
  <2>1. ClientFits(Web!mode, Mine(c), Web!Pending, ch, socket[c], g, lost[c], t, clock)
    BY <1>5, <1>6, <1>7, ClientIs
  <2>2. Mine(c) \in SUBSET Events
    BY <1>7, ChannelFits
  <2>3. ClientFits(Web!mode, Mine(c), Web!Pending, ch, s2, g, l, t, clock)
    BY <1>4, <1>8, <2>1, <2>2, ClientGoes
  <2> QED BY <1>7, <2>3
<1>10. /\ got' = [got EXCEPT ![c] = g] /\ last' = [last EXCEPT ![c] = t]
       /\ lost' = [lost EXCEPT ![c] = l] /\ socket' = [socket EXCEPT ![c] = s2]
       /\ UNCHANGED <<deployment, clock, published, buffer, handler>>
       /\ l \in SUBSET published
  BY <1>2, <1>3, <1>5, <1>6, <1>8 DEF StreamInv, StreamWorld
<1> QED BY <1>4, <1>9, <1>10, ClientMoves

(* A handler that goes on leaves the events the others have to keep. *)
LEMMA PendingMoves ==
  ASSUME FeedInv, StreamInv, deployment' = deployment, published \subseteq published',
         NEW p \in Processes, NEW n \in Handlers, handler' = [handler EXCEPT ![p] = n],
         PendingFits(p, n)'
  PROVE  /\ \A q \in Processes : PendingFits(q, handler[q])'
         /\ n.pending \subseteq Web!Pending'
         /\ Web!Pending \subseteq handler[p].pending \cup Web!Pending'
<1>1. handler'[p] = n /\ \A q \in Processes : q # p => handler'[q] = handler[q]
  BY DEF FeedInv, FeedWorld
<1>2. Web!Pending' = UNION {handler'[q].pending : q \in Processes}
  BY DEF Web!Pending
<1>3. ASSUME NEW q \in Processes PROVE PendingFits(q, handler[q])'
  <2>1. CASE q = p
    BY <1>1, <2>1
  <2>2. CASE q # p
    <3>1. PendingFits(q, handler[q]) /\ handler'[q] = handler[q]
      BY <1>1, <2>2 DEF StreamInv
    <3> QED BY <3>1 DEF PendingFits, Web!Running, Web!mode
  <2> QED BY <2>1, <2>2
<1>4. n.pending \subseteq Web!Pending'
  BY <1>1, <1>2
<1>5. Web!Pending \subseteq handler[p].pending \cup Web!Pending'
  <2> SUFFICES ASSUME NEW q \in Processes, NEW f \in handler[q].pending, q # p
               PROVE  f \in Web!Pending'
    BY DEF Web!Pending
  <2>1. f \in handler'[q].pending
    BY <1>1
  <2> QED BY <1>2, <2>1
<1> QED BY <1>3, <1>4, <1>5

(* An event that is kept, as the entry x: what a channel has then, and what *)
(* of it was trimmed.                                                      *)
ChannelGrows(e, x, c) ==
  /\ Web!Channel(Log', Org[c]) \in Seq(Entries)
  /\ \A y \in Held(Web!Channel(Log', Org[c])) :
       y \in Held(Web!Channel(Log, Org[c])) \/ y = x
  /\ e.tenant = Org[c] => e \in EventsIn(Web!Channel(Log', Org[c]))
  /\ Web!Trimmed(Log, c) \subseteq published
  /\ EventsIn(Web!Channel(Log, Org[c]))
       \subseteq Web!Trimmed(Log, c) \cup EventsIn(Web!Channel(Log', Org[c]))
  /\ Web!Trimmed(Log, c) = {} =>
       Web!Channel(Log', Org[c]) =
         IF e.tenant = Org[c] THEN Append(Web!Channel(Log, Org[c]), x)
         ELSE Web!Channel(Log, Org[c])

(* The buffer after an event was added. *)
LEMMA LogGrows ==
  ASSUME FeedInv, StreamInv, UNCHANGED <<deployment, clock>>, published \subseteq published',
         NEW e \in Events, e \in published', e.at <= clock, NEW x, x = [event |-> e, at |-> clock],
         buffer' = [buffer EXCEPT ![Web!Store(Home)] = Web!Added(Log, e)]
  PROVE  /\ buffer' \in [Processes \cup {"redis"} -> Seq(Entries)]
         /\ \A s \in Processes \cup {"redis"} : s # Web!Store(Home)' => buffer'[s] = <<>>
         /\ LogFits(Log)' /\ x \in Entries
         /\ \A c \in Clients : ChannelGrows(e, x, c)
<1>1. PICK b \in Seq(Entries) : b = Log
  BY OneStore
<1>2. PICK a : a = Web!Added(b, e)
  OBVIOUS
<1>3. Web!Store(Home)' = Web!Store(Home) /\ Web!Store(Home) \in Processes \cup {"redis"}
      /\ clock \in Nat /\ ReplayWindow \in Nat
  BY OneStore DEF Web!Store, Web!mode
<1>4. /\ a \in Seq(Entries)
      /\ \A y : y \in Held(a) <=> y = x \/ (y \in Held(b) /\ ~(y.at + ReplayWindow < clock))
      /\ InOrder(b) /\ (\A y \in Held(b) : y.at <= clock) => InOrder(a)
      /\ \A t : (\A y \in Held(b) : y.event.tenant = t => ~(y.at + ReplayWindow < clock)) =>
           Web!Channel(a, t) = IF e.tenant = t THEN Append(Web!Channel(b, t), x) ELSE Web!Channel(b, t)
  BY <1>2, <1>3, AddedIs
<1>5. buffer \in [Processes \cup {"redis"} -> Seq(Entries)]
      /\ \A s \in Processes \cup {"redis"} : s # Web!Store(Home) => buffer[s] = <<>>
  BY DEF StreamInv, StreamWorld
<1>6. buffer' = [buffer EXCEPT ![Web!Store(Home)] = a]
  BY <1>1, <1>2
<1>7. /\ buffer' \in [Processes \cup {"redis"} -> Seq(Entries)] /\ buffer'[Web!Store(Home)] = a
      /\ \A s \in Processes \cup {"redis"} : s # Web!Store(Home) => buffer'[s] = <<>>
  BY <1>3, <1>4, <1>5, <1>6
<1>8. Log' = a
  BY <1>3, <1>7 DEF Log
<1>9. x \in Entries /\ x.event = e /\ x.at = clock
  BY <1>3 DEF Entries
<1>10. InOrder(b) /\ \A y \in Held(b) : y.event \in published /\ y.event.at <= y.at /\ y.at <= clock
  BY <1>1 DEF StreamInv, LogFits
<1>11. LogFits(Log)'
  <2>1. InOrder(a)
    BY <1>4, <1>10
  <2>2. ASSUME NEW y \in Held(a)
        PROVE  y.event \in published' /\ y.event.at <= y.at /\ y.at <= clock
    BY <1>3, <1>4, <1>9, <1>10
  <2> QED BY <1>8, <2>1, <2>2 DEF LogFits
<1>12. ASSUME NEW c \in Clients, NEW t, t = Org[c], NEW ch, ch = Web!Channel(b, t),
              NEW ch2, ch2 = Web!Channel(a, t)
       PROVE  /\ ch2 \in Seq(Entries) /\ \A y \in Held(ch2) : y \in Held(ch) \/ y = x
              /\ e.tenant = t => e \in EventsIn(ch2)
              /\ Web!Trimmed(b, c) \subseteq published
              /\ EventsIn(ch) \subseteq Web!Trimmed(b, c) \cup EventsIn(ch2)
              /\ Web!Trimmed(b, c) = {} => ch2 = IF e.tenant = t THEN Append(ch, x) ELSE ch
  <2>1. \A y : y \in Held(ch) <=> y \in Held(b) /\ y.event.tenant = t
    BY <1>12, ChannelIs
  <2>2. ch2 \in Seq(Entries) /\ \A y : y \in Held(ch2) <=> y \in Held(a) /\ y.event.tenant = t
    BY <1>4, <1>12, ChannelIs
  <2>3. \A f : f \in Web!Trimmed(b, c) <=>
               \E y \in Held(b) : y.event.tenant = t /\ y.at + ReplayWindow < clock /\ f = y.event
    BY <1>12, TrimmedIs
  <2>4. \A y \in Held(ch2) : y \in Held(ch) \/ y = x
    BY <1>4, <2>1, <2>2
  <2>5. ASSUME e.tenant = t PROVE e \in EventsIn(ch2)
    <3>1. x \in Held(ch2)
      BY <1>4, <1>9, <2>2, <2>5
    <3> QED BY <1>9, <3>1, EventsAre
  <2>6. Web!Trimmed(b, c) \subseteq published
    BY <1>10, <2>3
  <2>7. ASSUME NEW f \in EventsIn(ch), f \notin Web!Trimmed(b, c) PROVE f \in EventsIn(ch2)
    <3>1. PICK y \in Held(ch) : y.event = f
      BY EventsAre
    <3>2. y \in Held(b) /\ y.event.tenant = t /\ ~(y.at + ReplayWindow < clock)
      BY <2>1, <2>3, <2>7, <3>1
    <3>3. y \in Held(ch2)
      BY <1>4, <2>2, <3>2
    <3> QED BY <3>1, <3>3, EventsAre
  <2>8. ASSUME Web!Trimmed(b, c) = {} PROVE ch2 = IF e.tenant = t THEN Append(ch, x) ELSE ch
    <3>1. \A y \in Held(b) : y.event.tenant = t => ~(y.at + ReplayWindow < clock)
      BY <2>3, <2>8
    <3> QED BY <1>4, <1>12, <3>1
  <2> QED BY <2>2, <2>4, <2>5, <2>6, <2>7, <2>8
<1>13. ASSUME NEW c \in Clients
       PROVE  ChannelGrows(e, x, c)
  <2>1. PICK t : t = Org[c]
    OBVIOUS
  <2>2. PICK ch : ch = Web!Channel(b, t)
    OBVIOUS
  <2>3. PICK ch2 : ch2 = Web!Channel(a, t)
    OBVIOUS
  <2>4. /\ ch2 \in Seq(Entries) /\ \A y \in Held(ch2) : y \in Held(ch) \/ y = x
        /\ e.tenant = t => e \in EventsIn(ch2)
        /\ Web!Trimmed(b, c) \subseteq published
        /\ EventsIn(ch) \subseteq Web!Trimmed(b, c) \cup EventsIn(ch2)
        /\ Web!Trimmed(b, c) = {} => ch2 = IF e.tenant = t THEN Append(ch, x) ELSE ch
    BY <1>12, <2>1, <2>2, <2>3
  <2>5. /\ Web!Channel(Log', Org[c]) = ch2 /\ Web!Channel(Log, Org[c]) = ch
        /\ Web!Trimmed(Log, c) = Web!Trimmed(b, c)
    BY <1>1, <1>8, <2>1, <2>2, <2>3
  <2> QED BY <2>1, <2>4, <2>5 DEF ChannelGrows
<1>14. \A s \in Processes \cup {"redis"} : s # Web!Store(Home)' => buffer'[s] = <<>>
  BY <1>3, <1>7
<1> QED BY <1>7, <1>9, <1>11, <1>13, <1>14

(* A handler posts without Redis: its event is listed. *)
LEMMA PostListed ==
  ASSUME FeedInv, StreamInv, UNCHANGED <<deployment, clock, got, last>>, NEW p \in Web!Running,
         NEW h \in Handlers, h.pending = {}, handler[p].pending = {}, handler' = [handler EXCEPT ![p] = h],
         PendingFits(p, h)', NEW e \in Events, e.at = clock, published' = published \cup {e},
         Web!mode = "memory", buffer' = [buffer EXCEPT ![p] = Web!Added(@, e)],
         lost' = [c \in Clients |->
                    IF socket[c].at = "down" THEN lost[c] \cup (Web!Trimmed(buffer[p], c) \ got[c])
                    ELSE lost[c]],
         socket' = [c \in Clients |-> [socket[c] EXCEPT !.shrunk =
                      @ \/ Web!Trimmed(buffer[p], c) # {} \/ Len(Web!Channel(buffer[p], Org[c])) >= Recent]]
  PROVE  StreamInv'
<1>1. /\ Web!Store(Home) = p /\ buffer[p] = Log /\ p \in Processes /\ clock \in Nat /\ Recent \in Nat
      /\ Web!Running' = Web!Running /\ Web!Store(Home)' = Web!Store(Home) /\ Web!mode' = Web!mode
      /\ Web!FeedRuns' = Web!FeedRuns
  BY OneStore DEF Log, Web!Running, Web!Store, Web!mode, Web!FeedRuns
<1>2. PICK x : x = [event |-> e, at |-> clock]
  OBVIOUS
<1>3. buffer' = [buffer EXCEPT ![Web!Store(Home)] = Web!Added(Log, e)] /\ e \in published' /\ e.at <= clock
  BY <1>1
<1>4. /\ buffer' \in [Processes \cup {"redis"} -> Seq(Entries)]
      /\ \A s \in Processes \cup {"redis"} : s # Web!Store(Home)' => buffer'[s] = <<>>
      /\ LogFits(Log)' /\ x \in Entries
      /\ \A c \in Clients : ChannelGrows(e, x, c)
  BY <1>2, <1>3, LogGrows
<1>5. /\ \A q \in Processes : PendingFits(q, handler[q])'
      /\ Web!Pending \subseteq handler[p].pending \cup Web!Pending'
  BY <1>1, PendingMoves
<1>6. ASSUME NEW c \in Clients
      PROVE  /\ ClientInv(c)' /\ socket'[c] \in Sockets /\ socket'[c].proc \in Web!Running
             /\ lost'[c] \subseteq published'
  <2>1. PICK s \in Sockets : s = socket[c]
    BY ClientIs
  <2>2. PICK ch \in Seq(Entries) : ch = Web!Channel(Log, Org[c])
    BY ChannelFits
  <2>3. PICK gone : gone = Web!Trimmed(Log, c)
    OBVIOUS
  <2>4. PICK s2 : s2 = [s EXCEPT !.shrunk = @ \/ gone # {} \/ Len(ch) >= Recent]
    OBVIOUS
  <2>5. PICK l2 : l2 = IF s.at = "down" THEN lost[c] \cup (gone \ got[c]) ELSE lost[c]
    OBVIOUS
  <2>6. socket'[c] = s2 /\ lost'[c] = l2
    BY <1>1, <2>1, <2>2, <2>3, <2>4, <2>5
  <2>7. /\ s2 \in Sockets /\ s2.at = s.at /\ s2.proc = s.proc /\ s2.queue = s.queue /\ s2.seen = s.seen
        /\ ~s2.shrunk => ~s.shrunk /\ gone = {} /\ ~(Len(ch) >= Recent)
    BY <2>1, <2>4 DEF Sockets
  <2>8. s.proc \in Web!Running /\ got[c] \subseteq Events /\ lost[c] \subseteq published /\ last[c] \in Nat
    BY <2>1, ClientIs
  <2>9. PICK ch2 \in Seq(Entries) : ch2 = Web!Channel(Log', Org[c])
    BY <1>4 DEF ChannelGrows
  <2>10. /\ \A y \in Held(ch2) : y \in Held(ch) \/ y = x
         /\ e.tenant = Org[c] => e \in EventsIn(ch2)
         /\ gone \subseteq published /\ EventsIn(ch) \subseteq gone \cup EventsIn(ch2)
         /\ gone = {} => ch2 = IF e.tenant = Org[c] THEN Append(ch, x) ELSE ch
    BY <1>4, <2>2, <2>3, <2>9 DEF ChannelGrows
  <2>11. PICK own : own = Mine(c)
    OBVIOUS
  <2>12. PICK own2 : own2 = IF e.tenant = Org[c] THEN own \cup {e} ELSE own
    OBVIOUS
  <2>13. Mine(c)' = own2
    BY <2>11, <2>12 DEF Mine, Web!Own
  <2>14. own \in SUBSET Events /\ own2 \in SUBSET Events /\ \A f \in own : f.at <= clock
    BY <2>11, <2>12, ChannelFits
  <2>22. PICK pend, pend2, l : pend = Web!Pending /\ pend2 = Web!Pending' /\ l = lost[c]
    OBVIOUS
  <2>15. PICK g : g = got[c]
    OBVIOUS
  <2>16. PICK t \in Nat : t = last[c]
    BY <2>8
  <2>17. ClientFits("memory", own, pend, ch, s, g, l, t, clock)
    BY <2>1, <2>2, <2>11, <2>15, <2>16, <2>22, ClientIs
  <2>18. x.event = e /\ x.at = clock /\ x \in Entries
    BY <1>2, <1>4
  <2>19. ClientFits("memory", own2, pend2, ch2, s2, g, l2, t, clock)
    <3>1. CASE s.at = "down"
      <4>1. own \cap (pend \cup EventsIn(ch)) \subseteq g \cup l2 \cup pend2 \cup EventsIn(ch2)
        BY <1>5, <2>5, <2>10, <2>15, <2>22, <3>1
      <4>2. \A f \in own2 \ own : f \in EventsIn(ch2)
        <5>1. e.tenant = Org[c] => e \in EventsIn(ch2)
          BY <2>10, Zenon
        <5>2. \A f \in own2 \ own : e.tenant = Org[c] /\ f = e
          BY <2>12
        <5> QED BY <5>1, <5>2
      <4>3. \A y \in Held(ch2) : y \in Held(ch) \/ (y.at \in Nat /\ y.at >= clock)
        <5>1. x.at \in Nat /\ x.at >= clock
          BY <1>1, <2>18
        <5>2. \A y \in Held(ch2) : y \in Held(ch) \/ y = x
          BY <2>10, Zenon
        <5> QED BY <5>1, <5>2
      <4>4. own \subseteq own2 /\ l \subseteq l2 /\ clock <= clock
        BY <1>1, <2>5, <2>12, <2>22
      <4>5. \A f \in own2 \ own : f \in l2 \/ (s.at = "down" /\ f \in pend2 \cup EventsIn(ch2))
        BY <3>1, <4>2
      <4>6. s.at = "down" => own \cap (pend \cup EventsIn(ch))
                               \subseteq g \cup l2 \cup pend2 \cup EventsIn(ch2)
        BY <4>1
      <4>7. /\ s2 \in Sockets /\ s2.at = s.at /\ s2.queue = s.queue /\ clock \in Nat
            /\ own \in SUBSET Events /\ own2 \in SUBSET Events /\ \A f \in own : f.at <= clock
        BY <1>1, <2>7, <2>14
      <4> QED BY <2>17, <3>1, <4>3, <4>4, <4>5, <4>6, <4>7, ClientGoesOn, SMTT(60)
    <3>2. CASE s.at # "down"
      <4>1. l2 = l /\ own \subseteq own2
        BY <2>5, <2>12, <2>22, <3>2
      <4>2. ~s2.shrunk => /\ ~s.shrunk /\ Len(ch) < Recent
                          /\ \/ ch2 = ch /\ own2 = own
                             \/ ch2 = Append(ch, x) /\ own2 = own \cup {x.event}
        <5>1. Len(ch) \in Nat
          OBVIOUS
        <5> QED BY <1>1, <2>7, <2>10, <2>12, <2>18, <5>1
      <4>3. /\ s2 \in Sockets /\ s2.at = s.at /\ s2.queue = s.queue /\ s2.seen = s.seen
            /\ Recent \in Nat /\ clock \in Nat /\ x.at = clock
        BY <1>1, <2>7, <2>18
      <4>4. \A y \in Held(ch2) : y \in Held(ch) \/ y = x
        BY <2>10, Zenon
      <4> QED BY <2>14, <2>17, <2>18, <3>2, <4>1, <4>2, <4>3, <4>4, ClientFollows, SMTT(60)
    <3> QED BY <3>1, <3>2
  <2>20. ClientInv(c)'
    BY <1>1, <2>6, <2>9, <2>13, <2>15, <2>16, <2>19, <2>22 DEF ClientInv
  <2>21. l2 \subseteq published'
    BY <2>5, <2>8, <2>10
  <2> QED BY <2>6, <2>7, <2>8, <2>20, <2>21
<1>7. StreamWorld'
  <2>1. lost' \in [Clients -> SUBSET published'] /\ socket' \in [Clients -> Sockets]
    BY <1>6
  <2>2. \A f \in published' : f.at <= clock
    BY <1>1 DEF StreamInv, StreamWorld
  <2>3. Web!FeedRuns
    BY DEF Web!FeedRuns
  <2>4. \A c \in Clients : socket'[c].proc \in Web!Running'
    BY <1>1, <1>6
  <2>5. got' \in [Clients -> SUBSET Events] /\ last' \in [Clients -> Nat]
    BY DEF StreamInv, StreamWorld
  <2> QED BY <1>1, <1>4, <2>1, <2>2, <2>3, <2>4, <2>5 DEF StreamWorld
<1> QED BY <1>4, <1>5, <1>6, <1>7 DEF StreamInv

(* With Redis a handler sends its event, or fails to: subscribers get it,  *)
(* What a post through Redis, or one that failed to be published, does to the  *)
(* clients.                                                                    *)
Sends(e, failed) ==
  /\ socket' = [c \in Clients |->
       IF ~failed /\ socket[c].at = "live" /\ e.tenant = Org[c]
       THEN [socket[c] EXCEPT !.queue = Append(@, e)] ELSE socket[c]]
  /\ lost' = [c \in Clients |->
       IF failed \/ socket[c].at = "opened" THEN lost[c] \cup Web!Own(c, {e}) ELSE lost[c]]

(* and who neither is one nor comes after it is kept loses it.             *)
LEMMA PostSent ==
  ASSUME FeedInv, StreamInv, UNCHANGED <<deployment, clock, got, last, buffer>>, NEW p \in Web!Running,
         NEW n \in Handlers, handler[p].pending = {}, handler' = [handler EXCEPT ![p] = n],
         PendingFits(p, n)', NEW e \in Events, e.at = clock, published' = published \cup {e},
         Web!mode = "redis", NEW failed \in BOOLEAN, ~failed => n.pending = {e},
         Sends(e, failed)
  PROVE  StreamInv'
<1>1. /\ p \in Processes /\ clock \in Nat /\ Web!Running' = Web!Running
      /\ Web!Store(Home)' = Web!Store(Home) /\ Web!mode' = Web!mode /\ Log' = Log
      /\ Log \in Seq(Entries)
  BY OneStore DEF Log, Web!Running, Web!Store, Web!mode
<1>2. /\ \A q \in Processes : PendingFits(q, handler[q])'
      /\ n.pending \subseteq Web!Pending'
      /\ Web!Pending \subseteq handler[p].pending \cup Web!Pending'
  BY <1>1, PendingMoves
<1>3. ASSUME NEW c \in Clients
      PROVE  /\ ClientInv(c)' /\ socket'[c] \in Sockets /\ socket'[c].proc \in Web!Running
             /\ lost'[c] \subseteq published'
  <2>1. PICK s \in Sockets : s = socket[c]
    BY ClientIs
  <2>2. PICK ch \in Seq(Entries) : ch = Web!Channel(Log, Org[c])
    BY ChannelFits
  <2>3. s.proc \in Web!Running /\ lost[c] \subseteq published /\ last[c] \in Nat
    BY <2>1, ClientIs
  <2>4. PICK s2 : s2 = IF ~failed /\ s.at = "live" /\ e.tenant = Org[c]
                       THEN [s EXCEPT !.queue = Append(s.queue, e)] ELSE s
    OBVIOUS
  <2>5. PICK l2 : l2 = IF failed \/ s.at = "opened" THEN lost[c] \cup Web!Own(c, {e}) ELSE lost[c]
    OBVIOUS
  <2>6. socket'[c] = s2 /\ lost'[c] = l2
    BY <2>1, <2>4, <2>5 DEF Sends
  <2>7. PICK own : own = Mine(c)
    OBVIOUS
  <2>8. PICK own2 : own2 = IF e.tenant = Org[c] THEN own \cup {e} ELSE own
    OBVIOUS
  <2>9. Mine(c)' = own2
    BY <2>7, <2>8 DEF Mine, Web!Own
  <2>10. /\ own \in SUBSET Events /\ own2 \in SUBSET Events /\ \A f \in own : f.at <= clock
         /\ EventsIn(ch) \subseteq own
    BY <2>2, <2>7, <2>8, ChannelFits
  <2>11. PICK g : g = got[c]
    OBVIOUS
  <2>12. PICK t \in Nat : t = last[c]
    BY <2>3
  <2>13. PICK m : m = Web!mode /\ m # "memory"
    OBVIOUS
  <2>14. ClientFits(m, own, Web!Pending, ch, s, g, lost[c], t, clock)
    BY <2>1, <2>2, <2>7, <2>11, <2>12, <2>13, ClientIs
  <2>15. l2 \subseteq published' /\ lost[c] \subseteq l2 /\ (failed => Web!Own(c, {e}) \subseteq l2)
    BY <2>3, <2>5 DEF Web!Own
  <2>16. CASE ~failed /\ s.at = "live" /\ e.tenant = Org[c]
    <3>1. s.queue \in Seq(Events) /\ Append(s.queue, e) \in Seq(Events)
      BY <2>1 DEF Sockets
    <3>2. s2 \in Sockets /\ s2.proc = s.proc /\ s2.at = "live" /\ s2.queue = Append(s.queue, e)
      BY <2>4, <2>16, <3>1 DEF Sockets
    <3>3. ClientFits(m, own \cup {e}, Web!Pending', ch, s2, g, lost[c], t, clock)
      BY <2>10, <2>13, <2>14, <2>16, <3>2, ClientHears
    <3>4. own2 = own \cup {e} /\ l2 = lost[c]
      BY <2>5, <2>8, <2>16
    <3>5. ClientInv(c)'
      BY <1>1, <2>2, <2>6, <2>9, <2>11, <2>12, <2>13, <3>3, <3>4 DEF ClientInv
    <3> QED BY <2>3, <2>6, <2>15, <3>2, <3>5
  <2>17. CASE ~(~failed /\ s.at = "live" /\ e.tenant = Org[c])
    <3>1. s2 = s
      BY <2>4, <2>17
    <3>2. \A f \in own2 \ own : f \in l2 \/ (s.at = "down" /\ f \in Web!Pending' \cup EventsIn(ch))
      <4>1. SUFFICES ASSUME e.tenant = Org[c], ~failed, s.at # "opened" PROVE s.at = "down" /\ e \in Web!Pending'
        BY <2>5, <2>8, <2>15 DEF Web!Own
      <4>2. e \in Web!Pending'
        BY <1>2, <4>1
      <4> QED BY <2>1, <2>17, <4>1, <4>2 DEF Sockets
    <3>3. own \cap (Web!Pending \cup EventsIn(ch)) \subseteq g \cup l2 \cup Web!Pending' \cup EventsIn(ch)
      BY <1>2
    <3>4. own \subseteq own2 /\ clock <= clock /\ \A y \in Held(ch) : y \in Held(ch)
      BY <1>1, <2>8
    <3>5. ClientFits(m, own2, Web!Pending', ch, s, g, l2, t, clock)
      BY <1>1, <2>10, <2>13, <2>14, <2>15, <3>2, <3>3, <3>4, ClientGoesOn
    <3>6. ClientInv(c)'
      BY <1>1, <2>2, <2>6, <2>9, <2>11, <2>12, <2>13, <3>1, <3>5 DEF ClientInv
    <3> QED BY <2>3, <2>6, <2>15, <3>1, <3>6
  <2> QED BY <2>16, <2>17
<1>4. StreamWorld'
  <2>1. lost' \in [Clients -> SUBSET published'] /\ socket' \in [Clients -> Sockets]
    BY <1>3 DEF Sends
  <2>2. \A f \in published' : f.at <= clock
    BY <1>1 DEF StreamInv, StreamWorld
  <2>3. Web!FeedRuns'
    BY <1>1 DEF Web!FeedRuns
  <2>4. \A c \in Clients : socket'[c].proc \in Web!Running'
    BY <1>1, <1>3
  <2>5. got' \in [Clients -> SUBSET Events] /\ last' \in [Clients -> Nat]
    BY DEF StreamInv, StreamWorld
  <2>6. /\ buffer' \in [Processes \cup {"redis"} -> Seq(Entries)]
        /\ \A s \in Processes \cup {"redis"} : s # Web!Store(Home)' => buffer'[s] = <<>>
    BY <1>1 DEF StreamInv, StreamWorld
  <2> QED BY <1>1, <2>1, <2>2, <2>3, <2>4, <2>5, <2>6 DEF StreamWorld
<1>5. LogFits(Log)'
  BY <1>1 DEF StreamInv, LogFits
<1> QED BY <1>2, <1>3, <1>4, <1>5 DEF StreamInv

(* Whatever becomes of a post. *)
LEMMA PostKeeps ==
  ASSUME FeedInv, StreamInv, UNCHANGED <<deployment, clock, got, last>>, NEW p \in Web!Running,
         NEW h \in Handlers, h.pending = {}, h.step \in {"case", "done"}, handler[p].pending = {},
         NEW e \in Events, e.at = clock, Web!Post(p, h, e)
  PROVE  StreamInv'
<1>1. published' = published \cup {e} /\ Web!mode' = Web!mode /\ Web!Running' = Web!Running
  BY DEF Web!Post, Web!mode, Web!Running
<1>2. PICK n : n = [h EXCEPT !.pending = {e}]
  OBVIOUS
<1>3. n \in Handlers /\ n.step = h.step /\ n.pending = {e}
  BY <1>2 DEF Handlers
<1>4. PendingFits(p, h)'
  BY <1>1 DEF PendingFits
<1>5. Web!mode = "redis" => PendingFits(p, n)'
  BY <1>1, <1>3 DEF PendingFits
<1>6. CASE /\ Web!mode = "memory"
           /\ buffer' = [buffer EXCEPT ![p] = Web!Added(@, e)]
           /\ lost' = [c \in Clients |->
                IF socket[c].at = "down" THEN lost[c] \cup (Web!Trimmed(buffer[p], c) \ got[c])
                ELSE lost[c]]
           /\ socket' = [c \in Clients |-> [socket[c] EXCEPT !.shrunk =
                @ \/ Web!Trimmed(buffer[p], c) # {} \/ Len(Web!Channel(buffer[p], Org[c])) >= Recent]]
           /\ handler' = [handler EXCEPT ![p] = h]
  BY <1>1, <1>4, <1>6, PostListed
<1>7. CASE /\ Web!mode = "redis"
           /\ socket' = [c \in Clients |->
                IF socket[c].at = "live" /\ Web!InChannel(Org[c], e)
                THEN [socket[c] EXCEPT !.queue = Append(@, e)] ELSE socket[c]]
           /\ lost' = [c \in Clients |->
                IF socket[c].at = "opened" THEN lost[c] \cup Web!Own(c, {e}) ELSE lost[c]]
           /\ handler' = [handler EXCEPT ![p] = n] /\ UNCHANGED buffer
  <2>1. PICK failed \in BOOLEAN : failed = FALSE
    OBVIOUS
  <2>2. Sends(e, failed)
    BY <1>7, <2>1 DEF Web!InChannel, Sends
  <2>4. /\ PendingFits(p, n)' /\ published' = published \cup {e} /\ handler' = [handler EXCEPT ![p] = n]
        /\ UNCHANGED <<deployment, clock, got, last, buffer>> /\ n.pending = {e}
    BY <1>1, <1>3, <1>5, <1>7
  <2>5. n \in Handlers /\ Web!mode = "redis"
    BY <1>3, <1>7
  <2> QED BY <2>1, <2>2, <2>4, <2>5, PostSent
<1>8. CASE /\ Web!mode = "redis"
           /\ lost' = [c \in Clients |-> lost[c] \cup Web!Own(c, {e})]
           /\ handler' = [handler EXCEPT ![p] = h] /\ UNCHANGED <<buffer, socket>>
  <2>1. PICK failed \in BOOLEAN : failed = TRUE
    OBVIOUS
  <2>2. Sends(e, failed)
    BY <1>8, <2>1 DEF StreamInv, StreamWorld, Sends
  <2>3. handler[p].pending = {} /\ handler' = [handler EXCEPT ![p] = h] /\ PendingFits(p, h)'
        /\ UNCHANGED <<deployment, clock, got, last, buffer>> /\ published' = published \cup {e}
    BY <1>1, <1>4, <1>8
  <2> QED BY <1>8, <2>1, <2>2, <2>3, PostSent
<1> QED BY <1>2, <1>6, <1>7, <1>8, Zenon DEF Web!Post

(* An arrival posts the case's event. *)
LEMMA AttachStreams ==
  ASSUME FeedInv, StreamInv, NEW p \in Processes, Web!Attach(p)
  PROVE  StreamInv'
<1>1. /\ p \in Web!Running /\ handler[p].step = "idle"
      /\ UNCHANGED <<deployment, clock, got, last>>
  BY DEF Web!Attach, Web!Answers
<1>2. PICK a \in deployment.arrivals :
        LET h == [step |-> "case", change |-> changes + 1, tenant |-> a.tenant,
                  closing |-> a.closing, pending |-> {}]
        IN  Web!Post(p, h, Web!Event(h, "case"))
  BY DEF Web!Attach
<1>3. PICK h : h = [step |-> "case", change |-> changes + 1, tenant |-> a.tenant,
                    closing |-> a.closing, pending |-> {}]
  OBVIOUS
<1>4. PICK e : e = Web!Event(h, "case")
  OBVIOUS
<1>5. changes \in Nat /\ clock \in Nat /\ a.tenant \in Tenants /\ a.closing \in BOOLEAN
  BY DEF FeedInv, FeedWorld, Web!SessionsAssumption
<1>6. h \in Handlers /\ h.step \in {"case", "done"} /\ h.pending = {} /\ h.tenant = a.tenant
  BY <1>3, <1>5 DEF Handlers, HandlerSteps
<1>7. e \in Events /\ e.at = clock
  BY <1>3, <1>4, <1>5 DEF Web!Event, Events
<1>8. Web!Post(p, h, e)
  BY <1>2, <1>3, <1>4
<1>9. handler[p].pending = {}
  BY <1>1 DEF StreamInv, PendingFits
<1> QED BY <1>1, <1>6, <1>7, <1>8, <1>9, PostKeeps

(* The end of a run is posted. *)
LEMMA AnnounceStreams ==
  ASSUME FeedInv, StreamInv, NEW p \in Processes, Web!Announce(p)
  PROVE  StreamInv'
<1>1. PICK g : g = handler[p]
  OBVIOUS
<1>2. PICK h : h = [g EXCEPT !.step = "done"]
  OBVIOUS
<1>3. PICK e : e = Web!Event(g, "done")
  OBVIOUS
<1>4. /\ g.step = "announce" /\ Web!Post(p, h, e)
      /\ UNCHANGED <<deployment, clock, got, last>>
  BY <1>1, <1>2, <1>3 DEF Web!Announce
<1>5. g \in Handlers /\ g.tenant \in Tenants /\ clock \in Nat
  BY <1>1, <1>4 DEF FeedInv, FeedWorld, HandlerFits
<1>6. g.pending = {} /\ p \in Web!Running
  BY <1>1, <1>4 DEF StreamInv, PendingFits
<1>7. h \in Handlers /\ h.step \in {"case", "done"} /\ h.pending = {}
  BY <1>2, <1>5, <1>6 DEF Handlers, HandlerSteps
<1>8. e \in Events /\ e.at = clock
  BY <1>3, <1>5 DEF Web!Event, Events, Handlers
<1> QED BY <1>1, <1>4, <1>6, <1>7, <1>8, PostKeeps

(* What a handler of p had to keep, and what the channel had, is kept then *)
(* or lost by who is not connected.                                        *)
ChannelServes(p, c) ==
  /\ lost[c] \subseteq lost'[c] /\ lost'[c] \subseteq published
  /\ \A x \in Held(Web!Channel(Log', Org[c])) :
       x \in Held(Web!Channel(Log, Org[c])) \/ x.at = clock
  /\ socket[c].at = "down" =>
       EventsIn(Web!Channel(Log, Org[c])) \cup Web!Own(c, handler[p].pending)
         \subseteq got[c] \cup lost'[c] \cup EventsIn(Web!Channel(Log', Org[c]))

(* With Redis the buffer changes and connections do not. *)
LEMMA LogMoves ==
  ASSUME FeedInv, StreamInv, UNCHANGED <<deployment, clock, published, socket, got, last>>,
         NEW p \in Processes, NEW n \in Handlers, handler' = [handler EXCEPT ![p] = n],
         PendingFits(p, n)', Web!mode # "memory",
         buffer' \in [Processes \cup {"redis"} -> Seq(Entries)],
         \A s \in Processes \cup {"redis"} : s # Web!Store(Home)' => buffer'[s] = <<>>,
         LogFits(Log)', DOMAIN lost' = Clients, lost' = [c \in Clients |-> lost'[c]],
         \A c \in Clients : ChannelServes(p, c)
  PROVE  StreamInv'
<1>1. /\ Web!mode' = Web!mode /\ Web!Running' = Web!Running /\ Web!FeedRuns' = Web!FeedRuns
      /\ clock \in Nat
  BY OneStore DEF Web!mode, Web!Running, Web!FeedRuns
<1>2. /\ \A q \in Processes : PendingFits(q, handler[q])'
      /\ Web!Pending \subseteq handler[p].pending \cup Web!Pending'
  BY PendingMoves
<1>3. StreamWorld'
  <2>1. lost' \in [Clients -> SUBSET published]
    BY DEF ChannelServes
  <2> QED BY <1>1, <2>1 DEF StreamInv, StreamWorld
<1>4. ASSUME NEW c \in Clients PROVE ClientInv(c)'
  <2>1. PICK s \in Sockets : s = socket[c]
    BY ClientIs
  <2>2. PICK ch \in Seq(Entries) : ch = Web!Channel(Log, Org[c])
    BY ChannelFits
  <2>3. PICK ch2 : ch2 = Web!Channel(Log', Org[c])
    OBVIOUS
  <2>4. PICK l2 : l2 = lost'[c]
    OBVIOUS
  <2>5. PICK own : own = Mine(c)
    OBVIOUS
  <2>6. own \in SUBSET Events /\ \A f \in own : f.at <= clock
    BY <2>5, ChannelFits
  <2>7. PICK g : g = got[c]
    OBVIOUS
  <2>8. PICK t \in Nat : t = last[c]
    BY ClientIs
  <2>9. PICK m : m = Web!mode
    OBVIOUS
  <2>10. ClientFits(m, own, Web!Pending, ch, s, g, lost[c], t, clock)
    BY <2>1, <2>2, <2>5, <2>7, <2>8, <2>9, ClientIs
  <2>11. ChannelServes(p, c)
    OBVIOUS
  <2>12. lost[c] \subseteq l2 /\ \A x \in Held(ch2) : x \in Held(ch) \/ (x.at \in Nat /\ x.at >= clock)
    BY <1>1, <2>2, <2>3, <2>4, <2>11 DEF ChannelServes
  <2>13. s.at = "down" => own \cap (Web!Pending \cup EventsIn(ch))
                            \subseteq g \cup l2 \cup Web!Pending' \cup EventsIn(ch2)
    <3>1. ASSUME s.at = "down", NEW f \in own, f \in Web!Pending \cup EventsIn(ch),
                 f \notin Web!Pending'
          PROVE  f \in g \cup l2 \cup EventsIn(ch2)
      <4>1. f \in EventsIn(ch) \cup Web!Own(c, handler[p].pending)
        BY <1>2, <2>5, <3>1 DEF Mine, Web!Own
      <4> QED BY <2>1, <2>2, <2>3, <2>4, <2>7, <2>11, <3>1, <4>1 DEF ChannelServes
    <3> QED BY <3>1
  <2>14. own \subseteq own /\ clock <= clock /\ s.at = s.at /\ s.queue = s.queue
         /\ \A f \in own \ own : f \in l2 \/ (s.at = "down" /\ f \in Web!Pending' \cup EventsIn(ch2))
    BY <1>1
  <2>15. m # "memory"
    BY <2>9
  <2>16. ClientFits(m, own, Web!Pending', ch2, s, g, l2, t, clock)
    BY <1>1, <2>6, <2>10, <2>12, <2>13, <2>14, <2>15, ClientGoesOn
  <2>17. Mine(c)' = own
    BY <2>5 DEF Mine, Web!Own
  <2> QED BY <1>1, <2>1, <2>3, <2>4, <2>7, <2>8, <2>9, <2>16, <2>17 DEF ClientInv
<1> QED BY <1>2, <1>3, <1>4 DEF StreamInv

(* The event that was posted is kept, or that fails. *)
LEMMA KeepStreams ==
  ASSUME FeedInv, StreamInv, NEW p \in Processes, Web!Keep(p)
  PROVE  StreamInv'
<1>1. PICK h : h = handler[p]
  OBVIOUS
<1>2. PICK n : n = IF h.step = "done" THEN Web!Idle
                   ELSE [h EXCEPT !.step = Web!Following(h.step), !.pending = {}]
  OBVIOUS
<1>3. /\ h.step \in {"case", "done"} /\ handler' = [handler EXCEPT ![p] = n]
      /\ UNCHANGED <<deployment, clock, published, socket, got, last>>
  BY <1>1, <1>2 DEF Web!Keep
<1>4. /\ h \in Handlers /\ PendingFits(p, h) /\ published \subseteq Events /\ p \in Web!Running
      /\ clock \in Nat
  BY <1>1, <1>3 DEF FeedInv, FeedWorld, StreamInv, PendingFits
<1>5. n \in Handlers /\ n.pending = {}
  <2>1. CASE h.step = "done"
    BY <1>2, <2>1 DEF Web!Idle, Handlers, HandlerSteps
  <2>2. CASE h.step = "case"
    BY <1>2, <1>4, <2>2 DEF Web!Following, Handlers, HandlerSteps
  <2> QED BY <1>3, <2>1, <2>2
<1>6. PendingFits(p, n)'
  BY <1>3, <1>4, <1>5 DEF PendingFits, Web!Running, Web!mode
<1>7. CASE h.pending = {}
  <2>1. UNCHANGED <<buffer, lost>>
    BY <1>1, <1>7 DEF Web!Keep
  <2>2. ASSUME NEW q \in Processes
        PROVE  /\ handler'[q].pending = handler[q].pending
               /\ handler'[q] = handler[q] \/ (q \in Web!Running /\ handler[q].pending = {})
    BY <1>1, <1>3, <1>4, <1>5, <1>7 DEF FeedInv, FeedWorld
  <2> QED BY <1>3, <2>1, <2>2, StreamStays
<1>8. CASE h.pending # {}
  <2>1. Web!mode # "memory" /\ Web!Store(Home) = "redis" /\ Web!Store(Home)' = Web!Store(Home)
        /\ Log = buffer["redis"]
    <3>1. Web!mode # "memory"
      BY <1>4, <1>8 DEF PendingFits
    <3> QED BY <1>3, <3>1 DEF Web!Store, Web!mode, Log
  <2>2. PICK e \in h.pending :
          \/ /\ buffer' = [buffer EXCEPT !["redis"] = Web!Added(@, e)]
             /\ lost' = [c \in Clients |->
                  IF socket[c].at = "down" THEN lost[c] \cup (Web!Trimmed(buffer["redis"], c) \ got[c])
                  ELSE lost[c]]
          \/ lost' = [c \in Clients |-> lost[c] \cup Web!Own(c, {e})] /\ UNCHANGED buffer
    BY <1>1, <1>8, Zenon DEF Web!Keep
  <2>3. e \in Events /\ e \in published /\ e.at <= clock /\ h.pending = {e}
    BY <1>4 DEF PendingFits, StreamInv, StreamWorld
  <2>4. CASE /\ buffer' = [buffer EXCEPT !["redis"] = Web!Added(@, e)]
             /\ lost' = [c \in Clients |->
                  IF socket[c].at = "down" THEN lost[c] \cup (Web!Trimmed(buffer["redis"], c) \ got[c])
                  ELSE lost[c]]
    <3>1. PICK x : x = [event |-> e, at |-> clock]
      OBVIOUS
    <3>2. buffer' = [buffer EXCEPT ![Web!Store(Home)] = Web!Added(Log, e)]
          /\ published \subseteq published' /\ e \in published'
      BY <1>3, <2>1, <2>3, <2>4
    <3>3. /\ buffer' \in [Processes \cup {"redis"} -> Seq(Entries)]
          /\ \A s \in Processes \cup {"redis"} : s # Web!Store(Home)' => buffer'[s] = <<>>
          /\ LogFits(Log)' /\ x \in Entries
          /\ \A c \in Clients : ChannelGrows(e, x, c)
      BY <1>3, <2>3, <3>1, <3>2, LogGrows
    <3>4. DOMAIN lost' = Clients /\ lost' = [c \in Clients |-> lost'[c]]
      BY <2>4
    <3>5. ASSUME NEW c \in Clients PROVE ChannelServes(p, c)
      <4>1. lost'[c] = IF socket[c].at = "down" THEN lost[c] \cup (Web!Trimmed(Log, c) \ got[c])
                       ELSE lost[c]
        BY <2>1, <2>4
      <4>2. ChannelGrows(e, x, c) /\ lost[c] \subseteq published
        BY <3>3, ClientIs
      <4>3. lost[c] \subseteq lost'[c] /\ lost'[c] \subseteq published
        BY <4>1, <4>2 DEF ChannelGrows
      <4>4. \A y \in Held(Web!Channel(Log', Org[c])) :
              y \in Held(Web!Channel(Log, Org[c])) \/ y.at = clock
        BY <3>1, <4>2 DEF ChannelGrows
      <4>5. \A f \in Web!Own(c, handler[p].pending) : f \in EventsIn(Web!Channel(Log', Org[c]))
        BY <1>1, <2>3, <4>2 DEF ChannelGrows, Web!Own
      <4>6. ASSUME socket[c].at = "down"
            PROVE  EventsIn(Web!Channel(Log, Org[c]))
                     \subseteq got[c] \cup lost'[c] \cup EventsIn(Web!Channel(Log', Org[c]))
        BY <4>1, <4>2, <4>6 DEF ChannelGrows
      <4> QED BY <4>3, <4>4, <4>5, <4>6 DEF ChannelServes
    <3> QED BY <1>3, <1>5, <1>6, <2>1, <3>3, <3>4, <3>5, LogMoves
  <2>5. CASE lost' = [c \in Clients |-> lost[c] \cup Web!Own(c, {e})] /\ UNCHANGED buffer
    <3>1. /\ buffer' \in [Processes \cup {"redis"} -> Seq(Entries)]
          /\ \A s \in Processes \cup {"redis"} : s # Web!Store(Home)' => buffer'[s] = <<>>
      BY <2>1, <2>5 DEF StreamInv, StreamWorld
    <3>2. Log' = Log
      BY <2>1, <2>5 DEF Log
    <3>3. LogFits(Log)'
      BY <1>3, <3>2 DEF StreamInv, LogFits
    <3>4. DOMAIN lost' = Clients /\ lost' = [c \in Clients |-> lost'[c]]
      BY <2>5
    <3>5. ASSUME NEW c \in Clients PROVE ChannelServes(p, c)
      <4>1. lost'[c] = lost[c] \cup Web!Own(c, {e}) /\ lost[c] \subseteq published
        BY <2>5, ClientIs
      <4>2. lost[c] \subseteq lost'[c] /\ lost'[c] \subseteq published
            /\ Web!Own(c, handler[p].pending) \subseteq lost'[c]
        BY <1>1, <2>3, <4>1 DEF Web!Own
      <4> QED BY <3>2, <4>2 DEF ChannelServes
    <3> QED BY <1>3, <1>5, <1>6, <2>1, <3>1, <3>3, <3>4, <3>5, LogMoves
  <2> QED BY <2>2, <2>4, <2>5
<1> QED BY <1>7, <1>8

(* A process restarts: its connections end, the event its handler had to   *)
(* keep is lost, and without Redis the buffer too.                         *)
LEMMA RestartStreams ==
  ASSUME FeedInv, StreamInv, NEW p \in Processes, Web!Restart(p)
  PROVE  StreamInv'
<1>1. PICK n : n = Web!Idle
  OBVIOUS
<1>2. PICK pending : pending = handler[p].pending
  OBVIOUS
<1>3. PICK down : down = Web!Down
  OBVIOUS
<1>4. /\ p \in Web!Running /\ handler' = [handler EXCEPT ![p] = n]
      /\ buffer' = [buffer EXCEPT ![p] = <<>>]
      /\ socket' = [c \in Clients |-> IF socket[c].proc = p THEN down ELSE socket[c]]
      /\ lost' = [c \in Clients |->
           lost[c] \cup (IF socket[c].proc = p THEN Web!Dropped(c) ELSE {})
                   \cup Web!Own(c, pending \cup
                                     IF Web!mode = "memory" THEN published \ got[c] ELSE {})]
      /\ UNCHANGED <<deployment, clock, published, got, last>>
  BY <1>1, <1>2, <1>3, Zenon DEF Web!Restart
<1>5. n \in Handlers /\ n.step = "idle" /\ n.pending = {}
  BY <1>1 DEF Web!Idle, Handlers, HandlerSteps
<1>6. /\ down \in Sockets /\ down.proc \in Web!Running /\ down.at = "down" /\ down.queue = <<>>
  <2>1. Home \in Processes /\ Home \in Web!Running
    BY OneStore DEF FeedInv, Web!SessionsAssumption
  <2> QED BY <1>3, <2>1 DEF Web!Down, Sockets
<1>7. /\ Web!mode' = Web!mode /\ Web!Running' = Web!Running /\ Web!FeedRuns' = Web!FeedRuns
      /\ Web!Store(Home)' = Web!Store(Home)
  BY <1>4 DEF Web!mode, Web!Running, Web!FeedRuns, Web!Store
<1>8. PendingFits(p, n)'
  BY <1>4, <1>5, <1>7 DEF PendingFits
<1>9. /\ \A q \in Processes : PendingFits(q, handler[q])'
      /\ Web!Pending \subseteq pending \cup Web!Pending'
  <2>1. deployment' = deployment /\ published \subseteq published'
    BY <1>4
  <2> QED BY <1>2, <1>4, <1>5, <1>8, <2>1, PendingMoves
<1>10. pending \subseteq published
  BY <1>2 DEF StreamInv, PendingFits
<1>11. IF Web!mode = "memory" THEN p = Web!Store(Home) /\ \A c \in Clients : socket[c].proc = p
       ELSE p # Web!Store(Home)
  BY <1>4, OneStore, ClientIs
<1>12. /\ buffer' \in [Processes \cup {"redis"} -> Seq(Entries)]
       /\ \A s \in Processes \cup {"redis"} : s # Web!Store(Home) => buffer'[s] = <<>>
       /\ Log' = IF Web!mode = "memory" THEN <<>> ELSE Log
  <2>1. buffer \in [Processes \cup {"redis"} -> Seq(Entries)] /\ Web!Store(Home) \in Processes \cup {"redis"}
        /\ \A s \in Processes \cup {"redis"} : s # Web!Store(Home) => buffer[s] = <<>>
    BY OneStore DEF StreamInv, StreamWorld
  <2>2. Log' = buffer'[Web!Store(Home)] /\ Log = buffer[Web!Store(Home)]
    BY <1>7 DEF Log
  <2> QED BY <1>4, <1>11, <2>1, <2>2
<1>13. LogFits(Log)'
  <2>1. CASE Web!mode = "memory"
    <3>1. Log' = <<>> /\ Held(<<>>) = {} /\ InOrder(<<>>)
      BY <1>12, <2>1 DEF Held, InOrder
    <3> QED BY <3>1 DEF LogFits
  <2>2. CASE Web!mode # "memory"
    BY <1>4, <1>12, <2>2 DEF StreamInv, LogFits
  <2> QED BY <2>1, <2>2
<1>14. ASSUME NEW c \in Clients
       PROVE  /\ ClientInv(c)' /\ socket'[c] \in Sockets /\ socket'[c].proc \in Web!Running
              /\ lost'[c] \subseteq published
  <2>1. PICK s \in Sockets : s = socket[c]
    BY ClientIs
  <2>2. PICK s2 : s2 = socket'[c]
    OBVIOUS
  <2>3. s2 = IF s.proc = p THEN down ELSE s
    BY <1>4, <2>1, <2>2
  <2>4. s2 \in Sockets /\ s2.proc \in Web!Running
    BY <1>6, <2>1, <2>3, ClientIs
  <2>5. PICK l2 : l2 = lost'[c]
    OBVIOUS
  <2>6. l2 = lost[c] \cup (IF s.proc = p THEN Web!Dropped(c) ELSE {})
               \cup Web!Own(c, pending \cup IF Web!mode = "memory" THEN published \ got[c] ELSE {})
    BY <1>4, <2>1, <2>5
  <2>7. PICK ch \in Seq(Entries) : ch = Web!Channel(Log, Org[c])
    BY ChannelFits
  <2>8. PICK ch2 : ch2 = Web!Channel(Log', Org[c])
    OBVIOUS
  <2>9. PICK own : own = Mine(c)
    OBVIOUS
  <2>10. own \in SUBSET Events /\ \A f \in own : f \in published /\ f.tenant = Org[c] /\ f.at <= clock
    BY <2>9, ChannelFits DEF Mine, Web!Own
  <2>11. PICK g : g = got[c]
    OBVIOUS
  <2>12. PICK t \in Nat : t = last[c]
    BY ClientIs
  <2>13. PICK m : m = Web!mode
    OBVIOUS
  <2>14. ClientFits(m, own, Web!Pending, ch, s, g, lost[c], t, clock)
    BY <2>1, <2>7, <2>9, <2>11, <2>12, <2>13, ClientIs
  <2>15. /\ own \subseteq g \cup lost[c] \cup Web!Dropped(c) \cup Web!Pending \cup EventsIn(ch)
         /\ Web!Dropped(c) \subseteq published /\ lost[c] \subseteq published
    BY <2>7, <2>9, <2>11, DroppedIs, ClientIs
  <2>16. lost[c] \subseteq l2 /\ l2 \subseteq published
    BY <1>10, <2>6, <2>15 DEF Web!Own
  <2>17. own \cap pending \subseteq l2
    BY <2>6, <2>10 DEF Web!Own
  <2>18. m = "memory" => own \subseteq g \cup l2
    BY <2>6, <2>10, <2>11, <2>13 DEF Web!Own
  <2>19. Held(ch2) \subseteq Held(ch) /\ (m # "memory" => ch2 = ch)
    <3>1. CASE m = "memory"
      <4>1. Log' = <<>> /\ Held(<<>>) = {} /\ <<>> \in Seq(Entries)
        BY <1>12, <2>13, <3>1 DEF Held
      <4>2. \A x : x \in Held(ch2) <=> x \in Held(<<>>) /\ x.event.tenant = Org[c]
        BY <2>8, <4>1, ChannelIs
      <4> QED BY <3>1, <4>1, <4>2
    <3>2. CASE m # "memory"
      BY <1>12, <2>7, <2>8, <2>13, <3>2
    <3> QED BY <3>1, <3>2
  <2>20. ClientFits(m, own, Web!Pending', ch2, s2, g, l2, t, clock)
    <3>1. CASE s.proc = p
      <4>1. own \subseteq g \cup l2 \cup Web!Pending' \cup EventsIn(ch2)
        <5>1. CASE m = "memory"
          BY <2>18, <5>1
        <5>2. CASE m # "memory"
          <6>1. Web!Dropped(c) \subseteq l2
            BY <2>6, <3>1
          <6> QED BY <1>9, <2>15, <2>16, <2>17, <2>19, <5>2, <6>1
        <5> QED BY <5>1, <5>2
      <4>2. s2.at = "down" /\ s2.queue = <<>>
        BY <1>6, <2>3, <3>1
      <4> QED BY <2>10, <2>14, <2>16, <2>19, <4>1, <4>2, ClientGoes
    <3>2. CASE s.proc # p
      <4>1. m # "memory" /\ s2 = s /\ ch2 = ch
        BY <1>11, <2>1, <2>3, <2>13, <2>19, <3>2
      <4>2. own \cap (Web!Pending \cup EventsIn(ch)) \subseteq g \cup l2 \cup Web!Pending' \cup EventsIn(ch)
        BY <1>9, <2>17
      <4>3. /\ own \subseteq own /\ clock <= clock /\ clock \in Nat /\ s.at = s.at /\ s.queue = s.queue
            /\ \A f \in own \ own : f \in l2 \/ (s.at = "down" /\ f \in Web!Pending' \cup EventsIn(ch))
            /\ \A x \in Held(ch) : x \in Held(ch) \/ (x.at \in Nat /\ x.at >= clock)
        BY OneStore
      <4>4. ClientFits(m, own, Web!Pending', ch, s, g, l2, t, clock)
        BY <2>10, <2>14, <2>16, <4>1, <4>2, <4>3, ClientGoesOn
      <4> QED BY <4>1, <4>4
    <3> QED BY <3>1, <3>2
  <2>21. Mine(c)' = own
    BY <1>4, <2>9 DEF Mine, Web!Own
  <2>22. ClientInv(c)'
    BY <1>4, <1>7, <2>2, <2>5, <2>8, <2>11, <2>12, <2>13, <2>20, <2>21 DEF ClientInv
  <2> QED BY <2>2, <2>4, <2>5, <2>16, <2>22
<1>15. StreamWorld'
  <2>1. socket' \in [Clients -> Sockets] /\ lost' \in [Clients -> SUBSET published]
    BY <1>4, <1>14
  <2>2. \A c \in Clients : socket'[c].proc \in Web!Running
    BY <1>14
  <2> QED BY <1>4, <1>7, <1>12, <2>1, <2>2 DEF StreamInv, StreamWorld
<1> QED BY <1>9, <1>13, <1>14, <1>15 DEF StreamInv

(* A record is stored by a handler that has nothing to keep. *)
LEMMA StoreRecordStreams ==
  ASSUME FeedInv, StreamInv, NEW p \in Processes, Web!StoreRecord(p)
  PROVE  StreamInv'
<1>1. PICK h : h = handler[p]
  OBVIOUS
<1>2. PICK n : n = [h EXCEPT !.step = "announce"]
  OBVIOUS
<1>3. /\ h.step = "store" /\ handler' = [handler EXCEPT ![p] = n]
      /\ UNCHANGED <<deployment, clock, published, buffer, socket, got, lost, last>>
  BY <1>1, <1>2 DEF Web!StoreRecord
<1>4. h \in Handlers /\ handler \in [Processes -> Handlers] /\ h.pending = {} /\ p \in Web!Running
  BY <1>1, <1>3 DEF FeedInv, FeedWorld, StreamInv, PendingFits
<1>5. n.pending = {}
  BY <1>2, <1>4 DEF Handlers
<1>6. ASSUME NEW q \in Processes
      PROVE  /\ handler'[q].pending = handler[q].pending
             /\ handler'[q] = handler[q] \/ (q \in Web!Running /\ handler[q].pending = {})
  BY <1>1, <1>3, <1>4, <1>5
<1> QED BY <1>3, <1>6, StreamStays

(* Nothing is posted and nobody connected yet. *)
LEMMA StreamInit == Web!SessionsAssumption /\ Web!Init => StreamInv
<1> SUFFICES ASSUME Web!SessionsAssumption, Web!Init PROVE StreamInv
  OBVIOUS
<1>1. PICK n : n = Web!Idle
  OBVIOUS
<1>2. PICK down : down = Web!Down
  OBVIOUS
<1>3. /\ clock = 0 /\ handler = [p \in Processes |-> n] /\ published = {}
      /\ buffer = [s \in Processes \cup {"redis"} |-> <<>>]
      /\ socket = [c \in Clients |-> down] /\ got = [c \in Clients |-> {}]
      /\ last = [c \in Clients |-> 0] /\ lost = [c \in Clients |-> {}]
  BY <1>1, <1>2, Zenon DEF Web!Init
<1>4. n.step = "idle" /\ n.pending = {}
  BY <1>1 DEF Web!Idle
<1>5. Home \in Processes /\ Home \in Web!Running
  BY DEF Web!SessionsAssumption, Web!Running
<1>6. down \in Sockets /\ down.at = "down" /\ down.queue = <<>> /\ down.proc \in Web!Running
  BY <1>2, <1>5 DEF Web!Down, Sockets
<1>7. StreamWorld
  BY <1>3, <1>6 DEF StreamWorld
<1>8. Log = <<>> /\ Log \in Seq(Entries) /\ Held(<<>>) = {} /\ InOrder(<<>>)
  BY <1>3, <1>5 DEF Log, Web!Store, Held, InOrder
<1>9. LogFits(Log)
  BY <1>8 DEF LogFits
<1>10. \A p \in Processes : PendingFits(p, handler[p])
  BY <1>3, <1>4 DEF PendingFits
<1>11. ASSUME NEW c \in Clients PROVE ClientInv(c)
  <2>1. Mine(c) = {}
    BY <1>3 DEF Mine, Web!Own
  <2>2. PICK ch : ch = Web!Channel(Log, Org[c])
    OBVIOUS
  <2>3. \A x : x \in Held(ch) <=> x \in Held(<<>>) /\ x.event.tenant = Org[c]
    BY <1>8, <2>2, ChannelIs
  <2>4. Held(ch) = {} /\ Held(down.queue) = {}
    BY <1>6, <1>8, <2>3
  <2>5. SocketFits(Web!mode, {}, down, {}, 0, 0)
    BY <1>6, <2>4 DEF SocketFits
  <2>6. Covered(Web!mode, {}, Web!Pending, ch, down, {} \cup {})
    BY <1>6 DEF Covered
  <2>7. Ahead(ch, down, {} \cup {}, 0)
    BY <2>4 DEF Ahead
  <2> QED BY <1>3, <2>1, <2>2, <2>5, <2>6, <2>7 DEF ClientInv, ClientFits
<1> QED BY <1>7, <1>9, <1>10, <1>11 DEF StreamInv

(* Every step keeps the feed. *)
LEMMA StreamNext == FeedInv /\ StreamInv /\ [Web!Next]_Web!vars => StreamInv'
<1> SUFFICES ASSUME FeedInv, StreamInv, [Web!Next]_Web!vars PROVE StreamInv'
  OBVIOUS
<1>1. ASSUME NEW p \in Processes, NEW c \in Clients,
             Web!ReadIntents(p, Org[c]) \/ Web!Login(c, p) \/ Web!Refresh(c, p)
      PROVE  StreamInv'
  <2>1. UNCHANGED <<deployment, clock, handler, published, buffer, socket, got, lost, last>>
    BY <1>1 DEF Web!ReadIntents, Web!Login, Web!Refresh, Web!feed
  <2> QED BY <2>1, StreamStays
<1>2. ASSUME NEW p \in Processes, NEW kid \in 1..MaxKeys, Web!EntraCall(p, kid)
      PROVE  StreamInv'
  <2>1. UNCHANGED <<deployment, clock, handler, published, buffer, socket, got, lost, last>>
    BY <1>2 DEF Web!EntraCall, Web!feed
  <2> QED BY <2>1, StreamStays
<1>3. CASE Web!RotateKey \/ Web!Tick \/ UNCHANGED Web!vars
  <2>1. /\ UNCHANGED <<deployment, handler, published, buffer, socket, got, lost, last>>
        /\ clock' \in {clock, clock + 1}
    BY <1>3 DEF Web!RotateKey, Web!Tick, Web!vars, Web!feed
  <2> QED BY <2>1, StreamStays
<1>4. ASSUME NEW p \in Processes, Web!Handle(p) PROVE StreamInv'
  BY <1>4, KeepStreams, StoreRecordStreams, AnnounceStreams DEF Web!Handle
<1>5. ASSUME NEW c \in Clients, Web!Send(c) \/ Web!Subscribe(c) \/ Web!Ping(c) \/ Web!Disconnect(c)
      PROVE  StreamInv'
  BY <1>5, SendKeeps, SubscribeKeeps, PingKeeps, DisconnectKeeps
<1> QED
  BY <1>1, <1>2, <1>3, <1>4, <1>5, AttachStreams, RestartStreams, OpenKeeps DEF Web!Next

(* The clock, the faults and the identifiers of the tokens, which only the *)
(* type invariant bounds.                                                  *)
BoundsInv ==
  /\ deployment \in Deployments /\ clock \in 0..deployment.time /\ faults \in 0..deployment.faults
  /\ \A c \in Clients : tokens[c].jti \in 0..jtis

(* What a step may do to the clock and the faults. *)
LEMMA BoundsMove ==
  ASSUME [Web!Next]_Web!vars
  PROVE  /\ deployment' = deployment
         /\ clock' = clock \/ (clock < deployment.time /\ clock' = clock + 1)
         /\ faults' = faults \/ (faults < deployment.faults /\ faults' = faults + 1)
         /\ \/ UNCHANGED <<tokens, jtis>> \/ (jtis' = jtis + 1 /\ UNCHANGED tokens)
            \/ /\ jtis' = jtis + 1
               /\ \E c \in Clients : tokens' = [tokens EXCEPT ![c] = Web!Pair(jtis + 1)]
<1> USE DEF Web!Fault, Web!NoFault, Web!auth
<1>1. ASSUME NEW p \in Processes, Web!Attach(p) \/ Web!Announce(p)
      PROVE  /\ UNCHANGED <<deployment, clock, tokens, jtis>>
             /\ faults' = faults \/ (faults < deployment.faults /\ faults' = faults + 1)
  BY <1>1 DEF Web!Attach, Web!Announce, Web!Post
<1>2. ASSUME NEW p \in Processes, Web!Keep(p) \/ Web!StoreRecord(p) \/ Web!Restart(p)
      PROVE  /\ UNCHANGED <<deployment, clock, tokens, jtis>>
             /\ faults' = faults \/ (faults < deployment.faults /\ faults' = faults + 1)
  BY <1>2 DEF Web!Keep, Web!StoreRecord, Web!Restart
<1>3. ASSUME NEW p \in Processes, NEW c \in Clients, Web!ReadIntents(p, Org[c]) \/ Web!Open(c, p)
      PROVE  UNCHANGED <<deployment, clock, tokens, jtis, faults>>
  BY <1>3 DEF Web!ReadIntents, Web!Open
<1>4. ASSUME NEW p \in Processes, NEW c \in Clients, Web!Login(c, p) \/ Web!Refresh(c, p)
      PROVE  /\ UNCHANGED <<deployment, clock>> /\ jtis' = jtis + 1
             /\ faults' = faults \/ (faults < deployment.faults /\ faults' = faults + 1)
             /\ tokens' = [tokens EXCEPT ![c] = Web!Pair(jtis + 1)] \/ UNCHANGED tokens
  BY <1>4 DEF Web!Login, Web!Refresh
<1>5. ASSUME NEW p \in Processes, NEW kid \in 1..MaxKeys, Web!EntraCall(p, kid)
      PROVE  /\ UNCHANGED <<deployment, clock, tokens, jtis>>
             /\ faults' = faults \/ (faults < deployment.faults /\ faults' = faults + 1)
  BY <1>5 DEF Web!EntraCall
<1>6. ASSUME NEW c \in Clients, Web!Send(c) \/ Web!Subscribe(c) \/ Web!Ping(c) \/ Web!Disconnect(c)
      PROVE  /\ UNCHANGED <<deployment, clock, tokens, jtis>>
             /\ faults' = faults \/ (faults < deployment.faults /\ faults' = faults + 1)
  BY <1>6 DEF Web!Send, Web!Subscribe, Web!Ping, Web!Disconnect
<1>7. CASE Web!RotateKey \/ Web!Tick \/ UNCHANGED Web!vars
  BY <1>7 DEF Web!RotateKey, Web!Tick, Web!vars
<1> QED
  BY <1>1, <1>2, <1>3, <1>4, <1>5, <1>6, <1>7 DEF Web!Next, Web!Handle

(* The bounds hold in every step. *)
LEMMA BoundsNext ==
  FeedInv /\ CredentialsInv /\ BoundsInv /\ [Web!Next]_Web!vars => BoundsInv'
<1> SUFFICES ASSUME FeedInv, CredentialsInv, BoundsInv, [Web!Next]_Web!vars PROVE BoundsInv'
  OBVIOUS
<1>1. /\ deployment' = deployment /\ deployment \in Deployments
      /\ deployment.time \in Nat /\ deployment.faults \in Nat
  BY BoundsMove DEF BoundsInv, FeedInv, Web!SessionsAssumption
<1>2. clock' \in 0..deployment.time
  <2>1. clock' = clock \/ (clock < deployment.time /\ clock' = clock + 1)
    BY BoundsMove
  <2> QED BY <1>1, <2>1 DEF BoundsInv
<1>3. faults' \in 0..deployment.faults
  <2>1. faults' = faults \/ (faults < deployment.faults /\ faults' = faults + 1)
    BY BoundsMove
  <2> QED BY <1>1, <2>1 DEF BoundsInv
<1>4. ASSUME NEW c \in Clients PROVE tokens'[c].jti \in 0..jtis'
  <2>1. /\ jtis \in Nat /\ tokens[c].jti \in 0..jtis
        /\ tokens \in [Clients -> [access : Nat, refresh : Nat, jti : Nat]]
    BY DEF CredentialsInv, TokensFit, BoundsInv
  <2>2. PICK pair : pair = Web!Pair(jtis + 1)
    OBVIOUS
  <2>3. pair.jti = jtis + 1
    BY <2>2 DEF Web!Pair
  <2>4. \/ UNCHANGED <<tokens, jtis>> \/ (jtis' = jtis + 1 /\ UNCHANGED tokens)
        \/ jtis' = jtis + 1 /\ \E d \in Clients : tokens' = [tokens EXCEPT ![d] = pair]
    BY <2>2, BoundsMove
  <2>5. CASE UNCHANGED tokens /\ jtis' \in {jtis, jtis + 1}
    BY <2>1, <2>5
  <2>6. CASE jtis' = jtis + 1 /\ \E d \in Clients : tokens' = [tokens EXCEPT ![d] = pair]
    <3>1. tokens'[c] \in {tokens[c], pair}
      BY <2>1, <2>6
    <3> QED BY <2>1, <2>3, <2>6, <3>1
  <2> QED BY <2>4, <2>5, <2>6
<1> QED BY <1>1, <1>2, <1>3, <1>4 DEF BoundsInv

(* Sockets, buffers, tokens and caches hold what the code can store. *)
LEMMA SessionsTyped ==
  ASSUME FeedInv, StreamInv, CredentialsInv, BoundsInv
  PROVE  Web!TypeOK
<1>1. /\ deployment.time \in Nat /\ KeyTtl \in Nat /\ clock \in Nat /\ clock <= deployment.time
  BY DEF FeedInv, Web!SessionsAssumption, BoundsInv
<1>2. ASSUME NEW p \in Processes
      PROVE  /\ handler[p].step \in {"idle", "case", "store", "announce", "done"}
             /\ handler[p].pending \subseteq published
             /\ jwks[p].expires \in 0..deployment.time + KeyTtl
  <2>1. handler[p] \in Handlers /\ PendingFits(p, handler[p])
    BY DEF FeedInv, FeedWorld, StreamInv
  <2>2. jwks[p].expires \in Nat /\ jwks[p].expires <= clock + KeyTtl
    BY DEF CredentialsInv, KeysFit, KeyFits
  <2>3. jwks[p].expires \in 0..deployment.time + KeyTtl
    BY <1>1, <2>2
  <2> QED BY <2>1, <2>3 DEF Handlers, HandlerSteps, PendingFits
<1>3. ASSUME NEW s \in DOMAIN buffer, NEW x \in Web!ToSet(buffer[s])
      PROVE  x.event \in published /\ x.at \in x.event.at..clock
  <2>1. buffer \in [Processes \cup {"redis"} -> Seq(Entries)]
    BY DEF StreamInv, StreamWorld
  <2>2. s \in Processes \cup {"redis"} /\ buffer[s] \in Seq(Entries)
    BY <2>1
  <2>3. x \in Held(buffer[s]) /\ x \in Entries
    BY <2>2, HeldIs
  <2>4. s = Web!Store(Home)
    <3>1. buffer[s] # <<>>
      BY <2>3 DEF Held
    <3> QED BY <2>2, <3>1 DEF StreamInv, StreamWorld
  <2>5. x.event \in published /\ x.event.at <= x.at /\ x.at <= clock
    BY <2>3, <2>4 DEF StreamInv, LogFits, Log
  <2>6. x.at \in Nat /\ x.event.at \in Nat
    BY <2>3 DEF Entries, Events
  <2> QED BY <1>1, <2>5, <2>6
<1>4. ASSUME NEW c \in Clients
      PROVE  /\ got[c] \subseteq published /\ lost[c] \subseteq published /\ last[c] \in 0..clock
             /\ tokens[c].jti \in 0..jtis
  <2>1. /\ lost[c] \subseteq published /\ last[c] \in Nat
        /\ got[c] \subseteq Mine(c) /\ last[c] <= clock
    BY ClientIs DEF ClientFits, SocketFits
  <2>2. Mine(c) \subseteq published
    BY DEF Mine, Web!Own
  <2> QED BY <1>1, <2>1, <2>2 DEF BoundsInv
<1> QED BY <1>2, <1>3, <1>4 DEF Web!TypeOK, BoundsInv

(* Who is connected has, or will be sent, all but what is noted as lost. *)
LEMMA NothingMissed ==
  ASSUME FeedInv, StreamInv
  PROVE  Web!NothingElseIsMissed
<1> SUFFICES ASSUME NEW c \in Clients, socket[c].at = "live", NEW e \in published, e.tenant = Org[c]
             PROVE  \/ e \in got[c] \cup lost[c] \cup Web!ToSet(socket[c].queue)
                    \/ /\ Web!mode = "memory"
                       /\ \/ socket[c].shrunk
                          \/ \E i \in DOMAIN Web!Channel(buffer[Home], Org[c]) :
                               /\ i > socket[c].seen
                               /\ Web!Channel(buffer[Home], Org[c])[i].event = e
  BY DEF Web!NothingElseIsMissed
<1>1. PICK s \in Sockets : s = socket[c]
  BY ClientIs
<1>2. PICK ch \in Seq(Entries) : ch = Web!Channel(Log, Org[c])
  BY ChannelFits
<1>3. PICK m : m = Web!mode
  OBVIOUS
<1>4. e \in Mine(c)
  BY DEF Mine, Web!Own
<1>5. /\ SocketFits(m, Mine(c), s, got[c], last[c], clock)
      /\ Covered(m, Mine(c), Web!Pending, ch, s, got[c] \cup lost[c])
  BY <1>1, <1>2, <1>3, ClientIs DEF ClientFits
<1>6. Web!ToSet(s.queue) = Held(s.queue)
  <2>1. s.queue \in Seq(Events)
    BY DEF Sockets
  <2> QED BY <2>1, HeldIs
<1>7. CASE m # "memory"
  BY <1>1, <1>4, <1>5, <1>6, <1>7 DEF Covered
<1>8. CASE m = "memory" /\ ~s.shrunk
  <2>1. e \in got[c] \cup lost[c] \cup Held(s.queue) \/ \E i \in 1..Len(ch) : i > s.seen /\ ch[i].event = e
    BY <1>1, <1>4, <1>5, <1>8 DEF Covered
  <2>2. ch = Web!Channel(buffer[Home], Org[c]) /\ DOMAIN ch = 1..Len(ch)
    BY <1>2, <1>3, <1>8, OneStore DEF Log
  <2> QED BY <1>1, <1>3, <1>6, <1>8, <2>1, <2>2
<1> QED BY <1>1, <1>3, <1>7, <1>8

(* FeedIsComplete, for any processes, tenants, clients and bounds: a       *)
(* client that is connected has, or is about to be sent, every event of    *)
(* its tenant, but for those lost on an occasion the feed is known to lose *)
(* one; it has nothing of another tenant, and no run is announced before   *)
(* its record can be read (ws.py case_events, pubsub.py publish and        *)
(* get_recent, case_events.py publish_case_update).                        *)
THEOREM FeedIsAlwaysComplete ==
  ASSUME Web!SessionsAssumption
  PROVE  Web!Spec => []Web!FeedIsComplete
<1> DEFINE SessionsInv == FeedInv /\ StreamInv /\ CredentialsInv /\ BoundsInv
<1>1. Web!Init => SessionsInv
  <2>1. ASSUME Web!Init PROVE BoundsInv
    <3>1. PICK pair : pair = [access |-> AccessTtl, refresh |-> RefreshTtl, jti |-> 0]
      OBVIOUS
    <3>2. deployment \in Deployments /\ clock = 0 /\ faults = 0 /\ jtis = 0
          /\ tokens = [c \in Clients |-> pair]
      BY <2>1, <3>1 DEF Web!Init
    <3>3. pair.jti = 0
      BY <3>1
    <3>4. deployment.time \in Nat /\ deployment.faults \in Nat
      BY <3>2 DEF Web!SessionsAssumption
    <3> QED BY <3>2, <3>3, <3>4 DEF BoundsInv
  <2> QED BY <2>1, FeedInit, StreamInit, CredentialsInit
<1>2. SessionsInv /\ [Web!Next]_Web!vars => SessionsInv'
  BY FeedNext, StreamNext, CredentialsNext, BoundsNext
<1>3. SessionsInv => Web!FeedIsComplete
  <2> SUFFICES ASSUME SessionsInv PROVE Web!FeedIsComplete
    OBVIOUS
  <2>1. Web!OwnTenantOnly
    <3>1. ASSUME NEW c \in Clients, NEW e \in got[c] \cup Web!ToSet(socket[c].queue)
          PROVE  e.tenant = Org[c]
      <4>1. PICK s \in Sockets : s = socket[c]
        BY ClientIs
      <4>2. s.queue \in Seq(Events)
        BY DEF Sockets
      <4>3. Web!ToSet(s.queue) = Held(s.queue)
        BY <4>2, HeldIs
      <4>4. got[c] \subseteq Mine(c) /\ Held(s.queue) \subseteq Mine(c)
        BY <4>1, ClientIs DEF ClientFits, SocketFits
      <4> QED BY <4>1, <4>3, <4>4 DEF Mine, Web!Own
    <3> QED BY <3>1 DEF Web!OwnTenantOnly
  <2> QED BY <2>1, SessionsTyped, NothingMissed DEF Web!FeedIsComplete, FeedInv
<1> HIDE DEF SessionsInv
<1> QED BY <1>1, <1>2, <1>3, PTL DEF Web!Spec
===============================================================================
