--------------------------- MODULE LlmRoutingProofs ---------------------------
(***************************************************************************)
(* Proofs about the model calls of module LlmRouting, for any number of    *)
(* processes and runs, any environments, any prices and any budget, and    *)
(* any number of restarts, failed reads and changes of the environment.    *)
(***************************************************************************)
EXTENDS LlmRouting, FiniteSetTheorems, TLAPS

Statuses == {"NONE", "FAIL_TO_HUMAN", "MANUAL_REVIEW_REQUIRED", "BLOCKED", "PROCEEDED"}
Runs ==
  [at : GraphTasks \cup {"idle", "l2", "intake", "ended"}, id : Nat, tenant : Tenants \cup {NoTenant},
   explain : BOOLEAN, killed : BOOLEAN, det : Intents, verdict : Verdicts,
   impact : BOOLEAN, customer : BOOLEAN, calling : Clients \cup {"none"},
   untraced : SUBSET GraphTasks, foreign : BOOLEAN, late : {"no", "graph", "intake"},
   intent : Intents \cup {"none"}, l1 : Verdicts \cup {"none"}, l2 : Actions \cup {"none"},
   l2tenant : Tenants \cup {NoTenant}, status : Statuses]
Opinions == [tenant : Tenants \cup {NoTenant}, l1 : Verdicts \cup {"none"}, action : Actions]

(* A run has no status and no second opinion while the graph is under way, *)
(* which it is not when the kill switch was thrown at its beginning; past  *)
(* the classifier its intent is the rules'; a call belongs to the node, or *)
(* to the intake, that the run is at.                                      *)
RunFits(r) ==
  /\ r \in Runs
  /\ ~r.foreign
  /\ r.untraced \subseteq IF r.calling # "none" THEN {r.at} ELSE {}
  /\ r.calling # "none" => r.at \in GraphTasks \cup {"intake"}
  /\ r.at \in {"intake", "ended"} => r.status # "NONE"
  /\ r.at \in GraphTasks \cup {"l2"} => ~r.killed /\ r.l2 = "none" /\ r.status = "NONE"
  /\ r.at \in {"recipe", "shadow", "l2"} => r.intent = r.det
  /\ r.at = "l2" => r.l1 \in Verdicts
  /\ r.l2 # "none" => r.l2tenant = r.tenant /\ r.l1 \in {"GREEN", "YELLOW"}
  /\ r.late # "no" => ~r.killed /\ r.late = "graph"
  /\ r.status = "PROCEEDED" =>
       /\ r.intent = r.det /\ r.l1 = "GREEN" /\ ~r.explain
       /\ ~(threshold /\ r.impact /\ r.l2 = "DISAGREE_DOWNGRADE")
RunsFit == run \in [Processes -> Runs] /\ \A p \in Processes : RunFits(run[p])

(* The calls on their way that a counter will be charged for, in a state   *)
(* of the runs.                                                            *)
Calls(t, state) == {p \in Processes : Tracker(p) = t /\ state[p].calling # "none"}

(* What was charged and what may still be stays below the bound. *)
SpendFits ==
  \A t \in Trackers :
    consumed[t] + Cardinality(Calls(t, run)) * MaxCost < Budget + (Users(t) + blind[t]) * MaxCost

WorldOK ==
  /\ config \in Configs /\ kill \in BOOLEAN /\ disabled \subseteq Tasks
  /\ faults \in 0 .. MaxFaults /\ began \in Nat
  /\ shared \in BOOLEAN /\ threshold \in BOOLEAN
  /\ consumed \in [Trackers -> Nat] /\ blind \in [Trackers -> Nat]
  /\ \A t \in Trackers : blind[t] <= faults
  /\ cached \in [Processes -> [GraphTasks -> Kinds \cup {"none"}]]
  /\ l2cache \in [Processes -> SUBSET Opinions]

(* A slot holds no trace between nodes: the node that wrote it took it.    *)
SlotsAreEmpty == slot = [p \in Processes |-> [t \in GraphTasks |-> NoTrace]]

(* The inductive invariant. *)
RoutingInv == WorldOK /\ RunsFit /\ SlotsAreEmpty /\ SpendFits

-----------------------------------------------------------------------------
(* Counting calls. *)

(* The constants are numbers, and the processes can be counted. *)
LEMMA Numbers ==
  /\ MaxCost \in Nat /\ Budget \in Nat /\ Budget > 0 /\ MaxFaults \in Nat
  /\ IsFiniteSet(Processes) /\ Cardinality(Processes) \in Nat
  /\ \A t : Users(t) \in Nat
  /\ \A c \in Costs : c \in Nat /\ c <= MaxCost
<1>1. /\ MaxCost \in Nat /\ Budget \in Nat /\ Budget > 0 /\ MaxFaults \in Nat
      /\ IsFiniteSet(Processes) /\ Costs \subseteq 0 .. MaxCost
  BY LlmRoutingAssumption DEF LlmRoutingAssumption
<1>2. Cardinality(Processes) \in Nat
  BY <1>1, FS_CardinalityType
<1> QED BY <1>1, <1>2 DEF Users

(* No more calls wait for a counter than processes use it. *)
LEMMA CallsAreBounded ==
  ASSUME NEW t \in Trackers, NEW state
  PROVE  /\ IsFiniteSet(Calls(t, state)) /\ Cardinality(Calls(t, state)) \in Nat
         /\ Cardinality(Calls(t, state)) <= Users(t)
<1>1. IsFiniteSet(Processes) /\ Calls(t, state) \subseteq Processes
  BY Numbers DEF Calls
<1>2. /\ IsFiniteSet(Calls(t, state)) /\ Cardinality(Calls(t, state)) \in Nat
      /\ Cardinality(Calls(t, state)) <= Cardinality(Processes)
  BY <1>1, FS_Subset, FS_CardinalityType
<1>3. CASE t = "redis"
  BY <1>2, <1>3 DEF Users
<1>4. CASE t # "redis"
  <2>1. Calls(t, state) \subseteq {t}
    BY <1>4 DEF Calls, Tracker
  <2>2. IsFiniteSet({t}) /\ Cardinality({t}) = 1
    BY FS_Singleton
  <2>3. Cardinality(Calls(t, state)) <= 1
    BY <2>1, <2>2, FS_Subset
  <2> QED BY <1>2, <1>4, <2>3 DEF Users
<1> QED BY <1>3, <1>4

(* Sums of products, once and for all. *)
LEMMA CostSums ==
  ASSUME NEW c \in Nat, NEW k \in Nat, NEW u \in Nat, NEW b \in Nat, NEW m \in Nat, NEW g \in Nat
  PROVE  /\ c < g /\ k <= u => c + k * m < g + (u + b) * m
         /\ \A j \in Nat : j <= k /\ c + k * m < g + (u + b) * m => c + j * m < g + (u + b) * m
         /\ c + k * m < g + (u + b) * m => c + (k + 1) * m < g + (u + (b + 1)) * m
         /\ \A d \in Nat : d <= m /\ k > 0 /\ c + k * m < g + (u + b) * m
                             => (c + d) + (k - 1) * m < g + (u + b) * m
<1>1. /\ (u + b) * m = u * m + b * m /\ (u + (b + 1)) * m = u * m + b * m + m
      /\ (k + 1) * m = k * m + m /\ (k - 1) * m = k * m - m
      /\ u * m \in Nat /\ b * m \in Nat /\ k * m \in Nat
  OBVIOUS
<1>2. ASSUME NEW i \in Nat, NEW j \in Nat, j <= i PROVE j * m <= i * m /\ j * m \in Nat
  BY <1>2
<1> QED BY <1>1, <1>2

-----------------------------------------------------------------------------
(* What a run may become.                                                  *)

(* A run that has not begun fits. *)
LEMMA IdleRunFits == RunFits(NoRun) /\ NoRun.calling = "none" /\ NoTrace.run = 0
BY DEF RunFits, NoRun, Runs, GraphTasks, Clients, Intents, Verdicts, Actions, Statuses, NoTrace

(* Nothing but its process's run changes. *)
LEMMA OneRunMoves ==
  ASSUME RunsFit, NEW p \in Processes, NEW r, Goto(p, r), RunFits(r), threshold' = threshold
  PROVE  RunsFit' /\ run'[p] = r /\ \A q \in Processes : q # p => run'[q] = run[q]
<1>1. run'[p] = r /\ (\A q \in Processes : q # p => run'[q] = run[q]) /\ r \in Runs
  BY DEF Goto, RunsFit, RunFits
<1>2. run' \in [Processes -> Runs]
  BY <1>1 DEF Goto, RunsFit
<1>3. ASSUME NEW q \in Processes PROVE RunFits(run[q])'
  BY <1>1 DEF RunsFit, RunFits
<1> QED BY <1>1, <1>2, <1>3 DEF RunsFit

(* A choice of a node is one its task can make. *)
LEMMA ChoicesFit ==
  ASSUME NEW r \in Runs, NEW task \in GraphTasks, NEW d \in Choices(r, task)
  PROVE  /\ task = "intent" => d \in Intents
         /\ task = "shadow" => d \in Verdicts
         /\ ByRule(r, task) \in Choices(r, task)
         /\ task = "recipe" => d = "any"
BY LlmRoutingAssumption DEF LlmRoutingAssumption, Choices, ByRule, Runs, GraphTasks

(* A decision, by whatever backend, takes a run on in the graph; the trace  *)
(* that is drained is its own call's, or none was left.                    *)
LEMMA DecisionsFit ==
  ASSUME NEW r, RunFits(r), r.at \in GraphTasks, NEW kind, NEW d \in Choices(r, r.at),
         kind = "det" => d = ByRule(r, r.at),
         NEW trace, trace = Trace(r, r.at) \/ (trace = NoTrace /\ r.calling = "none")
  PROVE  LET f == Drained(Decided([r EXCEPT !.calling = "none"], kind, r.at, d), trace)
         IN  RunFits(f) /\ f.calling = "none"
<1> DEFINE task == r.at
           s == [r EXCEPT !.calling = "none"]
           q == Decided(s, kind, task, d)
           f == Drained(q, trace)
<1>1. r \in Runs /\ task \in GraphTasks /\ d \in Choices(r, task) /\ (kind = "det" => d = ByRule(r, task))
  BY DEF RunFits
<1>2. /\ s \in Runs /\ s.calling = "none"
      /\ s.at = r.at /\ s.id = r.id /\ s.tenant = r.tenant /\ s.explain = r.explain
      /\ s.killed = r.killed /\ s.det = r.det /\ s.verdict = r.verdict /\ s.untraced = r.untraced
      /\ s.foreign = r.foreign /\ s.late = r.late /\ s.intent = r.intent /\ s.l1 = r.l1
      /\ s.l2 = r.l2 /\ s.status = r.status
  BY <1>1 DEF Runs
<1>3. /\ trace.run \in {0, r.id}
      /\ r.untraced \subseteq IF trace.task = task THEN {task} ELSE {}
      /\ r.id \in Nat
  BY <1>1 DEF RunFits, Trace, NoTrace, Runs
<1>4. /\ q \in Runs /\ q.calling = "none" /\ q.id = r.id /\ q.untraced = r.untraced
      /\ q.foreign = r.foreign /\ q.killed = r.killed /\ q.late = r.late /\ q.l2 = "none"
      /\ q.det = r.det /\ q.at \in {"intake", "recipe", "shadow", "l2"} /\ q.intent = r.det
      /\ q.at = "l2" => q.l1 \in Verdicts
      /\ IF q.at = "intake" THEN q.status = "MANUAL_REVIEW_REQUIRED" ELSE q.status = "NONE"
  <2>a. /\ r.l2 = "none" /\ r.status = "NONE" /\ (task \in {"recipe", "shadow"} => r.intent = r.det)
        /\ r.det \in Intents
    BY <1>1 DEF RunFits, Runs
  <2> HIDE DEF s
  <2>1. CASE task = "intent"
    <3>1. q = Classified(s, kind, d) /\ d \in Intents /\ (kind = "det" => d = r.det)
      BY <1>1, <2>1, ChoicesFit DEF Decided, ByRule
    <3>2. CASE kind # "det" /\ d # s.det
      <4>1. q = [s EXCEPT !.intent = s.det, !.status = "MANUAL_REVIEW_REQUIRED", !.at = "intake"]
        BY <3>1, <3>2 DEF Classified
      <4> HIDE DEF q
      <4> QED BY <1>2, <2>a, <4>1 DEF Runs, Statuses
    <3>3. CASE ~(kind # "det" /\ d # s.det)
      <4>1. q = [s EXCEPT !.intent = d, !.at = "recipe"] /\ d = r.det
        BY <1>2, <3>1, <3>3 DEF Classified
      <4>2. q = [s EXCEPT !.intent = r.det, !.at = "recipe"]
        BY <4>1
      <4> HIDE DEF q
      <4>3. q \in Runs /\ q.at = "recipe" /\ q.intent = r.det
        BY <1>2, <2>a, <4>2 DEF Runs, GraphTasks
      <4> QED BY <1>2, <2>a, <4>2, <4>3 DEF Runs
    <3> QED BY <3>2, <3>3
  <2>2. CASE task = "recipe"
    <3>1. q = [s EXCEPT !.at = "shadow"]
      BY <2>2 DEF Decided
    <3> HIDE DEF q
    <3> QED BY <1>2, <2>a, <2>2, <3>1 DEF Runs, GraphTasks
  <2>3. CASE task = "shadow"
    <3>1. q = [s EXCEPT !.l1 = d, !.verdict = "GREEN", !.at = "l2"] /\ d \in Verdicts
      BY <1>1, <2>3, ChoicesFit DEF Decided
    <3> HIDE DEF q
    <3> QED BY <1>2, <2>a, <2>3, <3>1 DEF Runs, Verdicts
  <2> QED BY <1>1, <2>1, <2>2, <2>3 DEF GraphTasks
<1> HIDE DEF q
<1>5. /\ f \in Runs /\ f.calling = "none" /\ f.untraced = {} /\ ~f.foreign
      /\ f.at = q.at /\ f.killed = q.killed /\ f.late = q.late /\ f.l2 = q.l2
      /\ f.det = q.det /\ f.intent = q.intent /\ f.status = q.status /\ f.l1 = q.l1
  <2>1. f = [q EXCEPT !.untraced = q.untraced \ {trace.task}, !.foreign = q.foreign \/ trace.run \notin {0, q.id}]
    BY DEF Drained
  <2>2. q.untraced \ {trace.task} = {} /\ (q.foreign \/ trace.run \notin {0, q.id}) = FALSE
    BY <1>3, <1>4 DEF RunFits
  <2>3. f = [q EXCEPT !.untraced = {}, !.foreign = FALSE]
    BY <2>1, <2>2
  <2> HIDE DEF f
  <2> QED BY <1>4, <2>3 DEF Runs
<1> HIDE DEF f
<1>6. RunFits(f)
  BY <1>1, <1>4, <1>5 DEF RunFits, GraphTasks
<1> QED BY <1>5, <1>6 DEF f, q

(* A call of a node, or of the intake, is the run's own.                   *)
LEMMA CallsFit ==
  ASSUME NEW r, RunFits(r), NEW client \in Clients, NEW task,
         (task = r.at /\ r.at \in GraphTasks) \/ (task = "email" /\ r.at = "intake" /\ ~kill),
         r.calling = "none"
  PROVE  RunFits(Call(r, client, task)) /\ Call(r, client, task).calling = client
<1> DEFINE u == r.untraced \cup ({task} \cap GraphTasks)
           l == IF kill THEN IF task = "email" THEN "intake" ELSE "graph" ELSE r.late
           f == [r EXCEPT !.calling = client, !.untraced = u, !.late = l]
<1>1. Call(r, client, task) = f
  BY DEF Call
<1>2. r \in Runs /\ r.untraced = {} /\ client # "none"
  BY DEF RunFits, Clients
<1>3. /\ u \subseteq GraphTasks /\ u \subseteq {r.at} /\ l \in {"no", "graph", "intake"}
      /\ l # "no" => ~r.killed /\ l = "graph"
  BY <1>2 DEF RunFits, Runs, GraphTasks
<1> HIDE DEF u, l
<1>4. /\ f \in Runs /\ f.calling = client /\ f.untraced = u /\ f.late = l
      /\ f.at = r.at /\ f.tenant = r.tenant /\ f.explain = r.explain /\ f.killed = r.killed
      /\ f.det = r.det /\ f.impact = r.impact /\ f.foreign = r.foreign /\ f.intent = r.intent
      /\ f.l1 = r.l1 /\ f.l2 = r.l2 /\ f.l2tenant = r.l2tenant /\ f.status = r.status
  <2>1. f \in Runs
    BY <1>2, <1>3 DEF Runs
  <2>2. f.calling = client /\ f.untraced = u /\ f.late = l
    BY <1>2 DEF Runs
  <2>3. /\ f.at = r.at /\ f.tenant = r.tenant /\ f.explain = r.explain /\ f.killed = r.killed
        /\ f.det = r.det /\ f.impact = r.impact /\ f.foreign = r.foreign /\ f.intent = r.intent
        /\ f.l1 = r.l1 /\ f.l2 = r.l2 /\ f.l2tenant = r.l2tenant /\ f.status = r.status
    BY <1>2 DEF Runs
  <2> QED BY <2>1, <2>2, <2>3
<1> HIDE DEF f
<1>5. RunFits(f)
  BY <1>2, <1>3, <1>4 DEF RunFits
<1> QED BY <1>1, <1>4, <1>5

-----------------------------------------------------------------------------
(* What a step does to the spend.                                          *)

(* No call is added, nothing is charged. *)
LEMMA SpendStays ==
  ASSUME WorldOK, SpendFits, UNCHANGED <<shared, consumed, blind>>,
         \A q \in Processes : run'[q].calling # "none" => run[q].calling # "none"
  PROVE  SpendFits'
<1> SUFFICES ASSUME NEW t \in Trackers
             PROVE  consumed[t] + Cardinality(Calls(t, run')) * MaxCost
                      < Budget + (Users(t) + blind[t]) * MaxCost
  BY DEF SpendFits, Calls, Tracker
<1>1. Calls(t, run') \subseteq Calls(t, run)
  BY DEF Calls
<1>2. /\ Cardinality(Calls(t, run)) \in Nat /\ Cardinality(Calls(t, run')) \in Nat
      /\ Cardinality(Calls(t, run')) <= Cardinality(Calls(t, run))
  BY <1>1, CallsAreBounded, FS_Subset
<1>3. consumed[t] \in Nat /\ blind[t] \in Nat /\ Users(t) \in Nat /\ MaxCost \in Nat /\ Budget \in Nat
  BY Numbers DEF WorldOK
<1>4. consumed[t] + Cardinality(Calls(t, run)) * MaxCost < Budget + (Users(t) + blind[t]) * MaxCost
  BY DEF SpendFits
<1> QED BY <1>2, <1>3, <1>4, CostSums

(* A call is admitted by a counter that is below the budget. *)
LEMMA SpendAdmits ==
  ASSUME WorldOK, SpendFits, UNCHANGED <<shared, consumed, blind>>, NEW p \in Processes,
         \A q \in Processes : q # p => run'[q] = run[q],
         ~HardBlock(consumed[Tracker(p)])
  PROVE  SpendFits'
<1> SUFFICES ASSUME NEW t \in Trackers
             PROVE  consumed[t] + Cardinality(Calls(t, run')) * MaxCost
                      < Budget + (Users(t) + blind[t]) * MaxCost
  BY DEF SpendFits, Calls, Tracker
<1>1. consumed[t] \in Nat /\ blind[t] \in Nat /\ Users(t) \in Nat /\ MaxCost \in Nat /\ Budget \in Nat
  BY Numbers DEF WorldOK
<1>2. Cardinality(Calls(t, run')) \in Nat /\ Cardinality(Calls(t, run')) <= Users(t)
  BY CallsAreBounded
<1>3. CASE t = Tracker(p)
  <2>1. consumed[t] < Budget
    BY <1>1, <1>3 DEF HardBlock
  <2> QED BY <1>1, <1>2, <2>1, CostSums
<1>4. CASE t # Tracker(p)
  <2>1. Calls(t, run') = Calls(t, run)
    BY <1>4 DEF Calls
  <2> QED BY <2>1 DEF SpendFits
<1> QED BY <1>3, <1>4

(* A call is admitted because the counter could not be read. *)
LEMMA SpendGoesBlind ==
  ASSUME WorldOK, SpendFits, UNCHANGED <<shared, consumed>>, shared, NEW p \in Processes,
         \A q \in Processes : q # p => run'[q] = run[q],
         blind' = [blind EXCEPT !["redis"] = @ + 1]
  PROVE  SpendFits'
<1> SUFFICES ASSUME NEW t \in Trackers
             PROVE  consumed[t] + Cardinality(Calls(t, run')) * MaxCost
                      < Budget + (Users(t) + blind'[t]) * MaxCost
  BY DEF SpendFits, Calls, Tracker
<1>1. consumed[t] \in Nat /\ blind[t] \in Nat /\ Users(t) \in Nat /\ MaxCost \in Nat /\ Budget \in Nat
  BY Numbers DEF WorldOK
<1>2. consumed[t] + Cardinality(Calls(t, run)) * MaxCost < Budget + (Users(t) + blind[t]) * MaxCost
  BY DEF SpendFits
<1>3. CASE t = "redis"
  <2>1. Calls(t, run') \subseteq Calls(t, run) \cup {p}
    BY DEF Calls
  <2>2. /\ IsFiniteSet(Calls(t, run)) /\ Cardinality(Calls(t, run)) \in Nat
        /\ Cardinality(Calls(t, run')) \in Nat
    BY CallsAreBounded
  <2>3. /\ IsFiniteSet(Calls(t, run) \cup {p})
        /\ Cardinality(Calls(t, run) \cup {p}) <= Cardinality(Calls(t, run)) + 1
        /\ Cardinality(Calls(t, run) \cup {p}) \in Nat
    <3>1. /\ IsFiniteSet(Calls(t, run) \cup {p})
          /\ Cardinality(Calls(t, run) \cup {p})
               = IF p \in Calls(t, run) THEN Cardinality(Calls(t, run)) ELSE Cardinality(Calls(t, run)) + 1
      BY <2>2, FS_AddElement
    <3> QED BY <2>2, <3>1
  <2>4. Cardinality(Calls(t, run')) <= Cardinality(Calls(t, run)) + 1
    BY <2>1, <2>2, <2>3, FS_Subset
  <2>5. blind'[t] = blind[t] + 1
    BY <1>3 DEF WorldOK, Trackers
  <2>6. consumed[t] + (Cardinality(Calls(t, run)) + 1) * MaxCost
          < Budget + (Users(t) + (blind[t] + 1)) * MaxCost
    BY <1>1, <1>2, <2>2, CostSums
  <2>7. Cardinality(Calls(t, run)) + 1 \in Nat /\ blind[t] + 1 \in Nat
    BY <1>1, <2>2
  <2> QED BY <1>1, <2>2, <2>4, <2>5, <2>6, <2>7, CostSums
<1>4. CASE t # "redis"
  <2>1. Calls(t, run') = Calls(t, run) /\ blind'[t] = blind[t]
    BY <1>4 DEF Calls, Tracker, WorldOK
  <2> QED BY <1>2, <2>1
<1> QED BY <1>3, <1>4

(* An answered call is charged, or its charge is lost. *)
LEMMA SpendCharges ==
  ASSUME WorldOK, SpendFits, UNCHANGED <<shared, blind>>, NEW p \in Processes,
         \A q \in Processes : q # p => run'[q] = run[q],
         run[p].calling # "none", run'[p].calling = "none",
         NEW cost \in Costs, Charge(p, cost)
  PROVE  SpendFits' /\ consumed' \in [Trackers -> Nat]
<1>1. Tracker(p) \in Trackers /\ consumed \in [Trackers -> Nat]
  BY DEF Tracker, Trackers, WorldOK
<1>2. CASE UNCHANGED consumed
  BY <1>1, <1>2, SpendStays
<1>3. CASE consumed' = [consumed EXCEPT ![Tracker(p)] = @ + Price(run[p].calling, cost)]
  <2> DEFINE d == Price(run[p].calling, cost)
  <2>1. d \in Nat /\ d <= MaxCost
    BY Numbers DEF Price
  <2>2. consumed' = [consumed EXCEPT ![Tracker(p)] = consumed[Tracker(p)] + d]
    BY <1>3
  <2> HIDE DEF d
  <2>3. consumed' \in [Trackers -> Nat]
    BY <1>1, <2>1, <2>2
  <2> SUFFICES ASSUME NEW t \in Trackers
               PROVE  consumed'[t] + Cardinality(Calls(t, run')) * MaxCost
                        < Budget + (Users(t) + blind[t]) * MaxCost
    BY <2>3 DEF SpendFits, Calls, Tracker
  <2>4. consumed[t] \in Nat /\ blind[t] \in Nat /\ Users(t) \in Nat /\ MaxCost \in Nat /\ Budget \in Nat
    BY Numbers DEF WorldOK
  <2>5. consumed[t] + Cardinality(Calls(t, run)) * MaxCost < Budget + (Users(t) + blind[t]) * MaxCost
    BY DEF SpendFits
  <2>6. CASE t = Tracker(p)
    <3>1. Calls(t, run') = Calls(t, run) \ {p} /\ p \in Calls(t, run)
      BY <2>6 DEF Calls
    <3>2. IsFiniteSet(Calls(t, run)) /\ Cardinality(Calls(t, run)) \in Nat
      BY CallsAreBounded
    <3>3. Cardinality(Calls(t, run')) = Cardinality(Calls(t, run)) - 1 /\ Cardinality(Calls(t, run')) \in Nat
      BY <3>1, <3>2, FS_RemoveElement, CallsAreBounded
    <3>4. Cardinality(Calls(t, run)) > 0
      BY <3>2, <3>3
    <3>5. consumed'[t] = consumed[t] + d
      BY <1>1, <2>2, <2>6
    <3> QED BY <2>1, <2>4, <2>5, <3>2, <3>3, <3>4, <3>5, CostSums
  <2>7. CASE t # Tracker(p)
    <3>1. Calls(t, run') = Calls(t, run) /\ consumed'[t] = consumed[t]
      BY <1>1, <2>2, <2>7 DEF Calls
    <3> QED BY <2>5, <3>1
  <2> QED BY <2>6, <2>7
<1> QED BY <1>2, <1>3 DEF Charge

(* A day ends, or a process starts afresh: some counters are empty, and    *)
(* the calls on their way no more than there were.                         *)
LEMMA SpendRestarts ==
  ASSUME WorldOK, SpendFits, shared' = shared, consumed' \in [Trackers -> Nat],
         blind' \in [Trackers -> Nat],
         \A t \in Trackers : \/ consumed'[t] = 0
                             \/ consumed'[t] = consumed[t] /\ blind'[t] = blind[t],
         \A q \in Processes : run'[q].calling # "none" => run[q].calling # "none"
  PROVE  SpendFits'
<1> SUFFICES ASSUME NEW t \in Trackers
             PROVE  consumed'[t] + Cardinality(Calls(t, run')) * MaxCost
                      < Budget + (Users(t) + blind'[t]) * MaxCost
  BY DEF SpendFits, Calls, Tracker
<1>1. /\ consumed[t] \in Nat /\ blind[t] \in Nat /\ consumed'[t] \in Nat /\ blind'[t] \in Nat
      /\ Users(t) \in Nat /\ MaxCost \in Nat /\ Budget \in Nat /\ Budget > 0
  BY Numbers DEF WorldOK
<1>2. Cardinality(Calls(t, run')) \in Nat /\ Cardinality(Calls(t, run')) <= Users(t)
  BY CallsAreBounded
<1>3. CASE consumed'[t] = 0
  BY <1>1, <1>2, <1>3, CostSums
<1>4. CASE consumed'[t] = consumed[t] /\ blind'[t] = blind[t]
  <2>1. Calls(t, run') \subseteq Calls(t, run)
    BY DEF Calls
  <2>2. /\ Cardinality(Calls(t, run)) \in Nat
        /\ Cardinality(Calls(t, run')) <= Cardinality(Calls(t, run))
    BY <2>1, CallsAreBounded, FS_Subset
  <2>3. consumed[t] + Cardinality(Calls(t, run)) * MaxCost < Budget + (Users(t) + blind[t]) * MaxCost
    BY DEF SpendFits
  <2> QED BY <1>1, <1>2, <1>4, <2>2, <2>3, CostSums
<1> QED BY <1>3, <1>4

-----------------------------------------------------------------------------
(* The steps.                                                              *)

(* The invariant's parts that a run's step needs. *)
LEMMA RoutingFacts ==
  ASSUME RoutingInv, NEW p \in Processes
  PROVE  /\ RunFits(run[p]) /\ run[p] \in Runs /\ run \in [Processes -> Runs]
         /\ \A task \in GraphTasks : slot[p][task] = NoTrace
         /\ WorldOK /\ RunsFit /\ SlotsAreEmpty /\ SpendFits
BY DEF RoutingInv, RunsFit, SlotsAreEmpty

(* A backend is one of the kinds, and a client's only while nobody threw   *)
(* the kill switch.                                                        *)
LEMMA BackendsAreKinds ==
  ASSUME NEW task
  PROVE  /\ Backend(task) \in Kinds
         /\ Backend(task) \in Clients => ~kill
BY DEF Backend, Build, Kinds, Clients

(* What a process keeps is a backend of one of the kinds. *)
LEMMA KeptIsAKind ==
  ASSUME WorldOK, NEW p \in Processes, NEW task \in GraphTasks, Keep(p, task)
  PROVE  /\ Kept(p, task) \in Kinds
         /\ cached' \in [Processes -> [GraphTasks -> Kinds \cup {"none"}]]
<1>1. cached[p] \in [GraphTasks -> Kinds \cup {"none"}] /\ cached[p][task] \in Kinds \cup {"none"}
  BY DEF WorldOK
<1>2. Kept(p, task) \in Kinds
  BY <1>1, BackendsAreKinds DEF Kept
<1>3. cached' = [cached EXCEPT ![p] = [cached[p] EXCEPT ![task] = Kept(p, task)]]
  BY DEF Keep
<1> HIDE DEF Kept
<1>4. [cached[p] EXCEPT ![task] = Kept(p, task)] \in [GraphTasks -> Kinds \cup {"none"}]
  BY <1>1, <1>2
<1> QED BY <1>2, <1>3, <1>4 DEF WorldOK

(* A node is done with its decision. *)
LEMMA DecideKeeps ==
  ASSUME RoutingInv, NEW p \in Processes, run[p].at \in GraphTasks,
         NEW kind, NEW d \in Choices(run[p], run[p].at), kind = "det" => d = ByRule(run[p], run[p].at),
         NEW trace,
         trace = Trace(run[p], run[p].at) \/ (trace = NoTrace /\ run[p].calling = "none"),
         Decide(p, kind, run[p].at, d, trace), threshold' = threshold
  PROVE  /\ RunsFit' /\ SlotsAreEmpty' /\ run'[p].calling = "none"
         /\ \A q \in Processes : q # p => run'[q] = run[q]
<1> DEFINE f == Drained(Decided([run[p] EXCEPT !.calling = "none"], kind, run[p].at, d), trace)
<1>1. RunFits(f) /\ f.calling = "none"
  <2>1. RunFits(run[p])
    BY RoutingFacts
  <2> QED BY <2>1, DecisionsFit
<1>2. Goto(p, f)
  BY DEF Decide
<1> HIDE DEF f
<1>3. RunsFit' /\ run'[p] = f /\ \A q \in Processes : q # p => run'[q] = run[q]
  BY <1>1, <1>2, RoutingFacts, OneRunMoves
<1>4. SlotsAreEmpty'
  <2>1. slot' = [slot EXCEPT ![p][run[p].at] = NoTrace]
    BY DEF Decide, Drain, Emptied
  <2>2. slot = [q \in Processes |-> [t \in GraphTasks |-> NoTrace]]
    BY RoutingFacts DEF SlotsAreEmpty
  <2> QED BY <2>1, <2>2 DEF SlotsAreEmpty
<1> QED BY <1>1, <1>3, <1>4

(* A node, or the intake, calls out. *)
LEMMA CallKeeps ==
  ASSUME RoutingInv, NEW p \in Processes, NEW client \in Clients, NEW task,
         (task = run[p].at /\ run[p].at \in GraphTasks) \/ (task = "email" /\ run[p].at = "intake" /\ ~kill),
         run[p].calling = "none", Goto(p, Call(run[p], client, task)), threshold' = threshold
  PROVE  RunsFit' /\ \A q \in Processes : q # p => run'[q] = run[q]
<1>1. RunFits(Call(run[p], client, task))
  BY RoutingFacts, CallsFit
<1> QED BY <1>1, RoutingFacts, OneRunMoves

(* A run begins. *)
LEMMA BeginKeeps == ASSUME RoutingInv, NEW p \in Processes, Begin(p) PROVE RoutingInv'
<1>1. PICK e \in Events :
        Goto(p, [NoRun EXCEPT !.id = began + 1, !.tenant = e.tenant, !.explain = e.explain,
                              !.impact = e.impact, !.customer = e.customer,
                              !.verdict = e.verdict, !.det = e.det, !.killed = kill,
                              !.at = IF kill THEN "intake" ELSE "intent",
                              !.status = IF kill THEN "FAIL_TO_HUMAN" ELSE "NONE"])
  BY DEF Begin
<1>2. /\ began' = began + 1 /\ UNCHANGED <<world, consumed, blind, cached, slot, l2cache, faults>>
  BY DEF Begin
<1>3. e \in EventRecords /\ began \in Nat /\ kill \in BOOLEAN
  BY LlmRoutingAssumption DEF LlmRoutingAssumption, RoutingInv, WorldOK
<1> DEFINE f == [NoRun EXCEPT !.id = began + 1, !.tenant = e.tenant, !.explain = e.explain,
                              !.impact = e.impact, !.customer = e.customer,
                              !.verdict = e.verdict, !.det = e.det, !.killed = kill,
                              !.at = IF kill THEN "intake" ELSE "intent",
                              !.status = IF kill THEN "FAIL_TO_HUMAN" ELSE "NONE"]
<1>4. /\ f \in Runs /\ f.calling = "none" /\ f.untraced = {} /\ ~f.foreign /\ f.late = "no"
      /\ f.killed = kill /\ f.at = (IF kill THEN "intake" ELSE "intent") /\ f.l2 = "none"
      /\ f.status = IF kill THEN "FAIL_TO_HUMAN" ELSE "NONE"
  <2> DEFINE at == IF kill THEN "intake" ELSE "intent"
             status == IF kill THEN "FAIL_TO_HUMAN" ELSE "NONE"
  <2>1. /\ NoRun \in Runs /\ NoRun.calling = "none" /\ NoRun.untraced = {} /\ ~NoRun.foreign
        /\ NoRun.late = "no" /\ NoRun.l2 = "none"
    BY IdleRunFits DEF RunFits, NoRun
  <2>2. /\ began + 1 \in Nat /\ e.tenant \in Tenants /\ e.explain \in BOOLEAN /\ e.det \in Intents
        /\ e.verdict \in Verdicts /\ e.impact \in BOOLEAN /\ e.customer \in BOOLEAN
        /\ at \in GraphTasks \cup {"idle", "l2", "intake", "ended"} /\ status \in Statuses
    BY <1>3 DEF EventRecords, GraphTasks, Statuses
  <2> DEFINE g == [NoRun EXCEPT !.id = began + 1, !.tenant = e.tenant, !.explain = e.explain,
                                !.impact = e.impact, !.customer = e.customer]
             h == [g EXCEPT !.verdict = e.verdict, !.det = e.det, !.killed = kill,
                            !.at = at, !.status = status]
  <2>3. f = h
    BY Zenon
  <2> HIDE DEF f, at, status
  <2>4. /\ g \in Runs /\ g.calling = "none" /\ g.untraced = {} /\ ~g.foreign
        /\ g.late = "no" /\ g.l2 = "none"
    BY <2>1, <2>2 DEF Runs
  <2> HIDE DEF g
  <2>5. h \in Runs
    BY <1>3, <2>2, <2>4, ZenonT(40) DEF Runs
  <2>6. /\ h.calling = "none" /\ h.untraced = {} /\ ~h.foreign
        /\ h.late = "no" /\ h.l2 = "none" /\ h.killed = kill /\ h.at = at /\ h.status = status
    BY <2>4 DEF Runs
  <2> HIDE DEF h
  <2> QED BY <2>3, <2>5, <2>6 DEF at, status
<1> HIDE DEF f
<1>5. RunFits(f)
  BY <1>3, <1>4 DEF RunFits, GraphTasks
<1>6. RunsFit' /\ run'[p] = f /\ \A q \in Processes : q # p => run'[q] = run[q]
  BY <1>1, <1>2, <1>5, RoutingFacts, OneRunMoves DEF f, world
<1>7. SpendFits'
  BY <1>2, <1>4, <1>6, RoutingFacts, SpendStays DEF world
<1> QED BY <1>2, <1>3, <1>6, <1>7 DEF RoutingInv, WorldOK, SlotsAreEmpty, world

(* A node reaches its backend. *)
LEMMA ReachKeeps == ASSUME RoutingInv, NEW p \in Processes, Reach(p) PROVE RoutingInv'
<1> DEFINE r == run[p]
           task == r.at
           kind == Kept(p, task)
<1>1. /\ task \in GraphTasks /\ r.calling = "none" /\ Keep(p, task)
      /\ UNCHANGED <<world, consumed, l2cache, began>>
      /\ r \in Runs /\ slot[p][task] = NoTrace /\ WorldOK /\ SpendFits /\ SlotsAreEmpty
  BY RoutingFacts DEF Reach
<1>2. kind \in Kinds /\ cached' \in [Processes -> [GraphTasks -> Kinds \cup {"none"}]]
  BY <1>1, KeptIsAKind
<1>3. ByRule(r, task) \in Choices(r, task) /\ (task = "recipe" => Choices(r, task) = {"any"})
  BY <1>1, ChoicesFit DEF Choices, ByRule
<1>4. /\ threshold' = threshold /\ shared' = shared /\ faults \in Nat /\ Tracker(p) \in Trackers
      /\ faults \in 0 .. MaxFaults /\ MaxFaults \in Nat
  BY <1>1, Numbers DEF world, WorldOK, Tracker, Trackers
<1>5. ASSUME UNCHANGED <<blind, faults>> PROVE WorldOK'
  BY <1>1, <1>2, <1>5 DEF WorldOK, world
<1>6. ASSUME NEW d \in Choices(r, task), kind = "det" => d = ByRule(r, task),
             NEW trace, trace = Trace(r, task) \/ trace = NoTrace,
             Decide(p, kind, task, d, trace), UNCHANGED <<blind, faults>>
      PROVE  RoutingInv'
  <2>1. /\ RunsFit' /\ SlotsAreEmpty' /\ run'[p].calling = "none"
        /\ \A q \in Processes : q # p => run'[q] = run[q]
    BY <1>1, <1>4, <1>6, DecideKeeps
  <2>2. SpendFits'
    BY <1>1, <1>4, <1>6, <2>1, SpendStays
  <2> QED BY <1>5, <1>6, <2>1, <2>2 DEF RoutingInv
<1>7. CASE kind = "det" /\ Decide(p, kind, task, ByRule(r, task), slot[p][task]) /\ UNCHANGED <<blind, faults>>
  BY <1>1, <1>3, <1>6, <1>7
<1>8. CASE kind = "local" /\ UNCHANGED <<blind, faults>>
           /\ \/ \E d \in Choices(r, task) : Decide(p, kind, task, d, slot[p][task])
              \/ Goto(p, NoRun) /\ UNCHANGED slot
  <2>1. CASE \E d \in Choices(r, task) : Decide(p, kind, task, d, slot[p][task])
    BY <1>1, <1>6, <1>8, <2>1
  <2>2. CASE Goto(p, NoRun) /\ UNCHANGED slot
    <3>1. RunsFit' /\ run'[p].calling = "none" /\ \A q \in Processes : q # p => run'[q] = run[q]
      BY <1>4, <2>2, IdleRunFits, RoutingFacts, OneRunMoves
    <3>2. SpendFits'
      BY <1>1, <1>4, <1>8, <3>1, SpendStays
    <3> QED BY <1>1, <1>5, <1>8, <2>2, <3>1, <3>2 DEF RoutingInv, SlotsAreEmpty
  <2> QED BY <1>8, <2>1, <2>2
<1>9. CASE kind \in Clients /\ NoCall(r, task)
           /\ Decide(p, kind, task, "any", slot[p][task]) /\ UNCHANGED <<blind, faults>>
  <2>1. "any" \in Choices(r, task) /\ kind # "det"
    BY <1>3, <1>9 DEF NoCall, Clients
  <2> QED BY <1>1, <1>6, <1>9, <2>1
<1>10. CASE kind \in Clients /\ Goto(p, Call(r, kind, task)) /\ UNCHANGED <<slot, blind, faults>>
            /\ ~HardBlock(consumed[Tracker(p)])
  <2>1. RunsFit' /\ \A q \in Processes : q # p => run'[q] = run[q]
    BY <1>1, <1>4, <1>10, CallKeeps
  <2>2. SpendFits'
    BY <1>1, <1>4, <1>10, <2>1, SpendAdmits
  <2> QED BY <1>1, <1>5, <1>10, <2>1, <2>2 DEF RoutingInv, SlotsAreEmpty
<1>11. CASE /\ kind \in Clients /\ shared /\ faults < MaxFaults /\ faults' = faults + 1
            /\ blind' = [blind EXCEPT !["redis"] = @ + 1]
            /\ Goto(p, Call(r, kind, task)) /\ UNCHANGED slot
  <2>1. RunsFit' /\ \A q \in Processes : q # p => run'[q] = run[q]
    BY <1>1, <1>4, <1>11, CallKeeps
  <2>2. SpendFits'
    BY <1>1, <1>4, <1>11, <2>1, SpendGoesBlind
  <2>3. blind' \in [Trackers -> Nat] /\ \A t \in Trackers : blind'[t] <= faults'
    BY <1>1, <1>4, <1>11 DEF WorldOK, Trackers
  <2>4. WorldOK'
    BY <1>1, <1>2, <1>4, <1>11, <2>3 DEF WorldOK, world
  <2> QED BY <1>1, <1>11, <2>1, <2>2, <2>4 DEF RoutingInv, SlotsAreEmpty
<1>12. CASE kind \in Clients /\ Decide(p, kind, task, ByRule(r, task), Trace(r, task)) /\ UNCHANGED <<blind, faults>>
  <2>1. kind # "det"
    BY <1>12 DEF Clients
  <2> QED BY <1>3, <1>6, <1>12, <2>1
<1> QED BY <1>7, <1>8, <1>9, <1>10, <1>11, <1>12 DEF Reach

(* A call comes back. *)
LEMMA AnswerKeeps == ASSUME RoutingInv, NEW p \in Processes, Answer(p) PROVE RoutingInv'
<1> DEFINE r == run[p]
           task == r.at
           trace == Trace(r, task)
<1>1. /\ task \in GraphTasks /\ r.calling # "none"
      /\ UNCHANGED <<world, blind, cached, l2cache, began>>
      /\ r \in Runs /\ WorldOK /\ SpendFits
  BY RoutingFacts DEF Answer
<1>2. ByRule(r, task) \in Choices(r, task) /\ r.calling # "det"
  <2>1. ByRule(r, task) \in Choices(r, task)
    BY DEF Choices
  <2>2. r.calling \in Clients \cup {"none"}
    BY <1>1 DEF Runs
  <2> QED BY <2>1, <2>2 DEF Clients
<1>3. threshold' = threshold /\ shared' = shared
  BY <1>1 DEF world
<1>4. ASSUME NEW d \in Choices(r, task), Decide(p, r.calling, task, d, trace)
      PROVE  /\ RunsFit' /\ SlotsAreEmpty' /\ run'[p].calling = "none"
             /\ \A q \in Processes : q # p => run'[q] = run[q]
  BY <1>1, <1>2, <1>3, <1>4, DecideKeeps
<1>5. CASE Decide(p, r.calling, task, ByRule(r, task), trace) /\ UNCHANGED <<consumed, faults>>
  <2>1. /\ RunsFit' /\ SlotsAreEmpty' /\ run'[p].calling = "none"
        /\ \A q \in Processes : q # p => run'[q] = run[q]
    BY <1>2, <1>4, <1>5
  <2>2. SpendFits'
    BY <1>1, <1>3, <1>5, <2>1, SpendStays
  <2> QED BY <1>1, <1>5, <2>1, <2>2 DEF RoutingInv, WorldOK, world
<1>6. ASSUME NEW cost \in Costs, Charge(p, cost), NEW d \in Choices(r, task),
             Decide(p, r.calling, task, d, trace)
      PROVE  RoutingInv'
  <2>1. /\ RunsFit' /\ SlotsAreEmpty' /\ run'[p].calling = "none"
        /\ \A q \in Processes : q # p => run'[q] = run[q]
    BY <1>4, <1>6
  <2>2. SpendFits' /\ consumed' \in [Trackers -> Nat]
    BY <1>1, <1>3, <1>6, <2>1, SpendCharges
  <2>3. faults' \in 0 .. MaxFaults /\ faults' >= faults /\ faults \in Nat
    BY <1>1, <1>6, Numbers DEF Charge, WorldOK
  <2>4. \A t \in Trackers : blind'[t] <= faults'
    BY <1>1, <2>3 DEF WorldOK
  <2> QED BY <1>1, <2>1, <2>2, <2>3, <2>4 DEF RoutingInv, WorldOK, world
<1>7. \/ Decide(p, r.calling, task, ByRule(r, task), trace) /\ UNCHANGED <<consumed, faults>>
      \/ /\ \E cost \in Costs : Charge(p, cost)
         /\ \E d \in Choices(r, task) : Decide(p, r.calling, task, d, trace)
  BY <1>2 DEF Answer
<1> QED BY <1>5, <1>6, <1>7

(* What enforce makes of a verdict. *)
LEMMA EnforcementFits ==
  ASSUME NEW r \in Runs, ~r.foreign, r.untraced = {}, r.calling = "none", r.intent = r.det,
         r.l2 # "none" => r.l2tenant = r.tenant /\ r.l1 \in {"GREEN", "YELLOW"},
         r.late # "no" => ~r.killed /\ r.late = "graph",
         NEW v \in Verdicts,
         v = "GREEN" => r.l1 = "GREEN" /\ ~(threshold /\ r.impact /\ r.l2 = "DISAGREE_DOWNGRADE")
  PROVE  RunFits(Enforced(r, v)) /\ Enforced(r, v).calling = "none"
<1> DEFINE s == CASE v = "RED" -> "BLOCKED"
                  [] v = "YELLOW" \/ r.explain -> "MANUAL_REVIEW_REQUIRED"
                  [] OTHER -> "PROCEEDED"
           f == [r EXCEPT !.at = "intake", !.status = s]
<1>1. Enforced(r, v) = f
  BY DEF Enforced
<1>2. s \in Statuses /\ s # "NONE" /\ (s = "PROCEEDED" => v = "GREEN" /\ ~r.explain)
  BY DEF Statuses, Verdicts
<1> HIDE DEF s
<1>3. /\ f \in Runs /\ f.at = "intake" /\ f.status = s /\ f.calling = "none" /\ f.untraced = {}
      /\ f.foreign = r.foreign /\ f.tenant = r.tenant /\ f.explain = r.explain /\ f.killed = r.killed
      /\ f.det = r.det /\ f.impact = r.impact /\ f.intent = r.intent /\ f.late = r.late
      /\ f.l1 = r.l1 /\ f.l2 = r.l2 /\ f.l2tenant = r.l2tenant
  BY <1>2, ZenonT(40) DEF Runs
<1> HIDE DEF f
<1>4. RunFits(f)
  BY <1>2, <1>3 DEF RunFits, GraphTasks
<1> QED BY <1>1, <1>3, <1>4

(* The second opinion. *)
LEMMA SecondOpinionKeeps == ASSUME RoutingInv, NEW p \in Processes, SecondOpinion(p) PROVE RoutingInv'
<1> DEFINE r == run[p]
           hits == {e \in l2cache[p] : SameKey(e, r)}
           Given(e) == Goto(p, Enforced([r EXCEPT !.l2 = e.action, !.l2tenant = e.tenant],
                                        Combined(r, e.action)))
<1>1. /\ r.at = "l2" /\ UNCHANGED <<world, consumed, blind, cached, slot, began, faults>>
      /\ r \in Runs /\ RunFits(r) /\ WorldOK /\ SpendFits /\ RunsFit /\ SlotsAreEmpty
      /\ l2cache[p] \subseteq Opinions
  BY RoutingFacts DEF SecondOpinion, WorldOK
<1>2. /\ ~r.foreign /\ r.untraced = {} /\ r.calling = "none" /\ r.intent = r.det /\ r.l2 = "none"
      /\ r.late # "no" => ~r.killed /\ r.late = "graph"
      /\ r.l1 \in Verdicts /\ r.tenant \in Tenants \cup {NoTenant}
  BY <1>1 DEF RunFits, GraphTasks, Runs
<1>3. RunFits(Enforced(r, r.l1)) /\ Enforced(r, r.l1).calling = "none"
  BY <1>1, <1>2, EnforcementFits
<1>4. ASSUME NEW e \in Opinions, e.tenant = r.tenant, Asked(r), Given(e)
      PROVE  /\ RunsFit' /\ run'[p].calling = "none"
             /\ \A q \in Processes : q # p => run'[q] = run[q]
  <2> DEFINE g == [r EXCEPT !.l2 = e.action, !.l2tenant = e.tenant]
             v == Combined(r, e.action)
  <2>1. e.action \in Actions /\ e.tenant \in Tenants \cup {NoTenant}
    BY DEF Opinions
  <2>2. /\ g \in Runs /\ ~g.foreign /\ g.untraced = {} /\ g.calling = "none" /\ g.intent = g.det
        /\ g.l2 = e.action /\ g.l2tenant = e.tenant /\ g.tenant = r.tenant /\ g.l1 = r.l1
        /\ g.impact = r.impact /\ g.late = r.late /\ g.killed = r.killed
    BY <1>1, <1>2, <2>1 DEF Runs
  <2>3. r.l1 \in {"GREEN", "YELLOW"}
    BY <1>4 DEF Asked
  <2>4. /\ v \in Verdicts
        /\ v = "GREEN" => r.l1 = "GREEN" /\ ~(threshold /\ r.impact /\ e.action = "DISAGREE_DOWNGRADE")
    BY <1>2 DEF Combined, Verdicts
  <2>5. Goto(p, Enforced(g, v))
    BY <1>4
  <2> HIDE DEF g, v
  <2>6. RunFits(Enforced(g, v)) /\ Enforced(g, v).calling = "none"
    BY <1>2, <1>4, <2>2, <2>3, <2>4, EnforcementFits
  <2>7. threshold' = threshold
    BY <1>1 DEF world
  <2> QED BY <1>1, <2>5, <2>6, <2>7, OneRunMoves
<1>5. ASSUME Goto(p, Enforced(r, r.l1))
      PROVE  /\ RunsFit' /\ run'[p].calling = "none"
             /\ \A q \in Processes : q # p => run'[q] = run[q]
  <2>1. threshold' = threshold
    BY <1>1 DEF world
  <2> QED BY <1>1, <1>3, <1>5, <2>1, OneRunMoves
<1>6. /\ RunsFit' /\ run'[p].calling = "none"
      /\ \A q \in Processes : q # p => run'[q] = run[q]
      /\ l2cache' \in [Processes -> SUBSET Opinions]
  <2>0. l2cache \in [Processes -> SUBSET Opinions]
    BY <1>1 DEF WorldOK
  <2>1. CASE Goto(p, Enforced(r, r.l1)) /\ UNCHANGED l2cache
    BY <1>5, <2>0, <2>1
  <2>2. CASE Asked(r) /\ hits # {} /\ UNCHANGED l2cache /\ \E e \in hits : Given(e)
    <3>1. PICK e \in hits : Given(e)
      BY <2>2
    <3>2. e \in Opinions /\ e.tenant = r.tenant
      BY <1>1, <3>1 DEF SameKey
    <3> HIDE DEF Given, hits
    <3> QED BY <1>4, <2>0, <2>2, <3>1, <3>2
  <2>3. CASE Asked(r) /\ \E action \in Actions :
               LET e == [tenant |-> r.tenant, l1 |-> r.l1, action |-> action]
               IN  l2cache' = [l2cache EXCEPT ![p] = (@ \ hits) \cup {e}] /\ Given(e)
    <3>1. PICK action \in Actions :
            LET e == [tenant |-> r.tenant, l1 |-> r.l1, action |-> action]
            IN  l2cache' = [l2cache EXCEPT ![p] = (@ \ hits) \cup {e}] /\ Given(e)
      BY <2>3
    <3> DEFINE e == [tenant |-> r.tenant, l1 |-> r.l1, action |-> action]
    <3>2. e \in Opinions /\ e.tenant = r.tenant
      BY <1>2 DEF Opinions
    <3>3. l2cache' = [l2cache EXCEPT ![p] = (l2cache[p] \ hits) \cup {e}] /\ Given(e)
      BY <3>1
    <3> HIDE DEF Given, hits, e
    <3>4. l2cache' \in [Processes -> SUBSET Opinions]
      BY <2>0, <3>2, <3>3
    <3> QED BY <1>4, <2>3, <3>2, <3>3, <3>4
  <2> QED BY <2>1, <2>2, <2>3 DEF SecondOpinion
<1>7. SpendFits'
  BY <1>1, <1>6, SpendStays DEF world
<1> QED BY <1>1, <1>6, <1>7 DEF RoutingInv, WorldOK, SlotsAreEmpty, world

(* The case is opened: a run that calls nobody ends. *)
LEMMA GatedFits ==
  ASSUME NEW r, RunFits(r), r.at = "intake"
  PROVE  RunFits(Gated(r)) /\ Gated(r).calling = "none"
<1> DEFINE f == [r EXCEPT !.at = "ended", !.calling = "none"]
<1>1. r \in Runs /\ r.untraced = {}
  BY DEF RunFits, Runs, GraphTasks
<1>2. /\ f \in Runs /\ f.at = "ended" /\ f.calling = "none" /\ f.untraced = {}
      /\ f.foreign = r.foreign /\ f.tenant = r.tenant /\ f.explain = r.explain /\ f.killed = r.killed
      /\ f.det = r.det /\ f.impact = r.impact /\ f.intent = r.intent /\ f.late = r.late
      /\ f.l1 = r.l1 /\ f.l2 = r.l2 /\ f.l2tenant = r.l2tenant /\ f.status = r.status
  BY <1>1 DEF Runs
<1> HIDE DEF f
<1>3. RunFits(f)
  BY <1>2 DEF RunFits, GraphTasks
<1> QED BY <1>2, <1>3 DEF f, Gated

(* The record is stored, and a customer's e-mail classified.               *)
LEMMA IntakeKeeps == ASSUME RoutingInv, NEW p \in Processes, Intake(p) PROVE RoutingInv'
<1> DEFINE r == run[p]
           client == EmailBackend(p)
<1>1. /\ r.at = "intake" /\ r.calling = "none"
      /\ UNCHANGED <<world, consumed, cached, slot, l2cache, began>>
      /\ WorldOK /\ SpendFits /\ RunsFit /\ SlotsAreEmpty /\ RunFits(r)
  BY RoutingFacts DEF Intake
<1>2. client \in Clients => ~kill
  BY BackendsAreKinds DEF EmailBackend
<1>3. threshold' = threshold /\ shared' = shared
  BY <1>1 DEF world
<1>4. CASE Goto(p, Gated(r)) /\ UNCHANGED <<blind, faults>>
  <2>1. Gated(r).calling = "none" /\ RunFits(Gated(r))
    BY <1>1, GatedFits
  <2>2. RunsFit' /\ run'[p].calling = "none" /\ \A q \in Processes : q # p => run'[q] = run[q]
    BY <1>1, <1>3, <1>4, <2>1, OneRunMoves
  <2>3. SpendFits'
    BY <1>1, <1>3, <1>4, <2>2, SpendStays
  <2> QED BY <1>1, <1>4, <2>2, <2>3 DEF RoutingInv, WorldOK, SlotsAreEmpty, world
<1>5. CASE /\ client \in Clients /\ ~HardBlock(consumed[Tracker(p)]) /\ UNCHANGED <<blind, faults>>
           /\ Goto(p, Call(r, client, "email"))
  <2>1. RunsFit' /\ \A q \in Processes : q # p => run'[q] = run[q]
    BY <1>1, <1>2, <1>3, <1>5, CallKeeps
  <2>2. SpendFits'
    BY <1>1, <1>3, <1>5, <2>1, SpendAdmits
  <2> QED BY <1>1, <1>5, <2>1, <2>2 DEF RoutingInv, WorldOK, SlotsAreEmpty, world
<1>6. CASE /\ client \in Clients /\ shared /\ faults < MaxFaults
           /\ faults' = faults + 1 /\ blind' = [blind EXCEPT !["redis"] = @ + 1]
           /\ Goto(p, Call(r, client, "email"))
  <2>1. RunsFit' /\ \A q \in Processes : q # p => run'[q] = run[q]
    BY <1>1, <1>2, <1>3, <1>6, CallKeeps
  <2>2. SpendFits'
    BY <1>1, <1>3, <1>6, <2>1, SpendGoesBlind
  <2>3. faults' \in 0 .. MaxFaults /\ faults \in Nat
    BY <1>1, <1>6, Numbers DEF WorldOK
  <2>4. /\ blind \in [Trackers -> Nat] /\ (\A t \in Trackers : blind[t] <= faults)
        /\ "redis" \in Trackers
    BY <1>1 DEF WorldOK, Trackers
  <2>5. blind' = [blind EXCEPT !["redis"] = blind["redis"] + 1] /\ faults' = faults + 1
    BY <1>6
  <2>6. blind' \in [Trackers -> Nat]
    BY <2>4, <2>5
  <2>7. ASSUME NEW t \in Trackers PROVE blind'[t] <= faults'
    BY <2>3, <2>4, <2>5
  <2> QED BY <1>1, <1>6, <2>1, <2>2, <2>3, <2>6, <2>7 DEF RoutingInv, WorldOK, SlotsAreEmpty, world
<1> QED BY <1>4, <1>5, <1>6 DEF Intake

(* The e-mail's call comes back. *)
LEMMA EmailAnswerKeeps == ASSUME RoutingInv, NEW p \in Processes, EmailAnswer(p) PROVE RoutingInv'
<1> DEFINE r == run[p]
<1>1. /\ r.at = "intake" /\ r.calling # "none" /\ Goto(p, Gated(r))
      /\ UNCHANGED <<world, blind, cached, slot, l2cache, began>>
      /\ WorldOK /\ SpendFits /\ RunsFit /\ SlotsAreEmpty
  BY RoutingFacts DEF EmailAnswer
<1>2. threshold' = threshold /\ shared' = shared
  BY <1>1 DEF world
<1>3. Gated(r).calling = "none" /\ RunFits(Gated(r))
  BY <1>1, RoutingFacts, GatedFits
<1>4. RunsFit' /\ run'[p].calling = "none" /\ \A q \in Processes : q # p => run'[q] = run[q]
  BY <1>1, <1>2, <1>3, OneRunMoves
<1>5. CASE UNCHANGED <<consumed, faults>>
  <2>1. SpendFits'
    BY <1>1, <1>2, <1>4, <1>5, SpendStays
  <2> QED BY <1>1, <1>4, <1>5, <2>1 DEF RoutingInv, WorldOK, SlotsAreEmpty, world
<1>6. ASSUME NEW cost \in Costs, Charge(p, cost) PROVE RoutingInv'
  <2>1. SpendFits' /\ consumed' \in [Trackers -> Nat]
    BY <1>1, <1>2, <1>4, <1>6, SpendCharges
  <2>2. faults' \in 0 .. MaxFaults /\ faults' >= faults /\ faults \in Nat
    BY <1>1, <1>6, Numbers DEF Charge, WorldOK
  <2>3. \A t \in Trackers : blind'[t] <= faults'
    BY <1>1, <2>2 DEF WorldOK
  <2> QED BY <1>1, <1>4, <2>1, <2>2, <2>3 DEF RoutingInv, WorldOK, SlotsAreEmpty, world
<1> QED BY <1>5, <1>6 DEF EmailAnswer

(* A run ends. *)
LEMMA EndKeeps == ASSUME RoutingInv, NEW p \in Processes, End(p) PROVE RoutingInv'
<1>1. /\ Goto(p, NoRun) /\ UNCHANGED <<world, consumed, blind, cached, slot, l2cache, began, faults>>
      /\ WorldOK /\ SpendFits /\ RunsFit /\ SlotsAreEmpty
  BY RoutingFacts DEF End
<1>2. RunsFit' /\ run'[p].calling = "none" /\ \A q \in Processes : q # p => run'[q] = run[q]
  BY <1>1, IdleRunFits, OneRunMoves DEF world
<1>3. SpendFits'
  BY <1>1, <1>2, SpendStays DEF world
<1> QED BY <1>1, <1>2, <1>3 DEF RoutingInv, WorldOK, SlotsAreEmpty, world

(* An operator changes the environment; the threshold is not part of it.   *)
LEMMA OperateKeeps == ASSUME RoutingInv, Operate PROVE RoutingInv'
<1>1. /\ faults' = faults + 1 /\ faults < MaxFaults
      /\ UNCHANGED <<shared, threshold, consumed, blind, cached, slot, l2cache, run, began>>
  BY DEF Operate
<1>2. WorldOK'
  <2>1. kill' \in BOOLEAN /\ disabled' \subseteq Tasks /\ config' \in Configs
    BY LlmRoutingAssumption DEF Operate, LlmRoutingAssumption, RoutingInv, WorldOK
  <2>2. faults' \in 0 .. MaxFaults /\ \A t \in Trackers : blind[t] <= faults'
    BY <1>1, Numbers DEF RoutingInv, WorldOK
  <2> QED BY <1>1, <2>1, <2>2 DEF RoutingInv, WorldOK
<1>3. RunsFit' /\ SlotsAreEmpty'
  BY <1>1 DEF RoutingInv, RunsFit, RunFits, SlotsAreEmpty
<1>4. SpendFits'
  BY <1>1, SpendStays DEF RoutingInv
<1> QED BY <1>2, <1>3, <1>4 DEF RoutingInv

(* A new day has counters of its own. *)
LEMMA NextDayKeeps == ASSUME RoutingInv, NextDay PROVE RoutingInv'
<1>1. /\ faults' = faults + 1 /\ faults < MaxFaults
      /\ consumed' = [t \in Trackers |-> 0] /\ blind' = [t \in Trackers |-> 0]
      /\ UNCHANGED <<world, cached, slot, l2cache, run, began>>
  BY DEF NextDay
<1>2. WorldOK'
  <2>1. faults' \in 0 .. MaxFaults
    BY <1>1, Numbers DEF RoutingInv, WorldOK
  <2> QED BY <1>1, <2>1 DEF RoutingInv, WorldOK, world
<1>3. RunsFit' /\ SlotsAreEmpty'
  BY <1>1 DEF RoutingInv, RunsFit, RunFits, SlotsAreEmpty, world
<1>4. SpendFits'
  BY <1>1, SpendRestarts DEF RoutingInv, world
<1> QED BY <1>2, <1>3, <1>4 DEF RoutingInv

(* A process starts afresh. *)
LEMMA RestartKeeps == ASSUME RoutingInv, NEW p \in Processes, Restart(p) PROVE RoutingInv'
<1>1. /\ faults' = faults + 1 /\ faults < MaxFaults /\ Goto(p, NoRun)
      /\ cached' = [cached EXCEPT ![p] = [t \in GraphTasks |-> "none"]]
      /\ slot' = [slot EXCEPT ![p] = [t \in GraphTasks |-> NoTrace]]
      /\ l2cache' = [l2cache EXCEPT ![p] = {}]
      /\ consumed' = [consumed EXCEPT ![p] = 0] /\ blind' = [blind EXCEPT ![p] = 0]
      /\ UNCHANGED <<config, kill, disabled, shared, threshold, began>>
      /\ WorldOK /\ SpendFits /\ RunsFit /\ SlotsAreEmpty
  BY RoutingFacts DEF Restart, Goto
<1>2. RunsFit' /\ run'[p].calling = "none" /\ \A q \in Processes : q # p => run'[q] = run[q]
  BY <1>1, IdleRunFits, OneRunMoves
<1>3. faults' \in 0 .. MaxFaults /\ faults \in Nat
  BY <1>1, Numbers DEF WorldOK
<1>4. /\ consumed' \in [Trackers -> Nat] /\ blind' \in [Trackers -> Nat]
      /\ \A t \in Trackers : blind'[t] <= faults'
      /\ \A t \in Trackers : \/ consumed'[t] = 0
                             \/ consumed'[t] = consumed[t] /\ blind'[t] = blind[t]
  BY <1>1, <1>3 DEF WorldOK, Trackers
<1>5. SpendFits'
  BY <1>1, <1>2, <1>4, SpendRestarts
<1>6. cached' \in [Processes -> [GraphTasks -> Kinds \cup {"none"}]]
  BY <1>1 DEF WorldOK
<1>7. l2cache' \in [Processes -> SUBSET Opinions]
  BY <1>1 DEF WorldOK
<1>8. WorldOK'
  BY <1>1, <1>3, <1>4, <1>6, <1>7 DEF WorldOK
<1>9. SlotsAreEmpty'
  BY <1>1 DEF SlotsAreEmpty
<1> QED BY <1>2, <1>5, <1>8, <1>9 DEF RoutingInv

(* Initially nothing runs and nothing was charged. *)
LEMMA RoutingInit == ASSUME Init PROVE RoutingInv
<1>1. RunsFit /\ \A p \in Processes : run[p].calling = "none"
  BY IdleRunFits DEF Init, RunsFit, RunFits
<1>2. SpendFits
  <2> SUFFICES ASSUME NEW t \in Trackers
               PROVE  consumed[t] + Cardinality(Calls(t, run)) * MaxCost
                        < Budget + (Users(t) + blind[t]) * MaxCost
    BY DEF SpendFits
  <2>1. consumed[t] = 0 /\ blind[t] = 0
    BY DEF Init
  <2>2. Cardinality(Calls(t, run)) \in Nat /\ Cardinality(Calls(t, run)) <= Users(t)
    BY CallsAreBounded
  <2>3. Users(t) \in Nat /\ MaxCost \in Nat /\ Budget \in Nat /\ Budget > 0
    BY Numbers
  <2> QED BY <2>1, <2>2, <2>3, CostSums
<1>3. WorldOK
  <2>1. cached \in [Processes -> [GraphTasks -> Kinds \cup {"none"}]]
    BY DEF Init
  <2>2. threshold \in BOOLEAN
    BY LlmRoutingAssumption DEF Init, LlmRoutingAssumption
  <2>3. faults \in 0 .. MaxFaults /\ faults = 0 /\ began \in Nat
    BY Numbers DEF Init
  <2>4. /\ consumed \in [Trackers -> Nat] /\ blind \in [Trackers -> Nat]
        /\ \A t \in Trackers : blind[t] <= faults
    BY <2>3 DEF Init
  <2>5. l2cache \in [Processes -> SUBSET Opinions]
    BY DEF Init
  <2>6. config \in Configs /\ kill \in BOOLEAN /\ disabled \subseteq Tasks /\ shared \in BOOLEAN
    BY DEF Init
  <2> QED BY <2>1, <2>2, <2>3, <2>4, <2>5, <2>6 DEF WorldOK
<1> QED BY <1>1, <1>2, <1>3 DEF RoutingInv, SlotsAreEmpty, Init

(* Every step keeps the invariant. *)
LEMMA RoutingNext == ASSUME RoutingInv, [Next]_vars PROVE RoutingInv'
<1>1. CASE UNCHANGED vars
  BY <1>1 DEF vars, world, RoutingInv, WorldOK, RunsFit, RunFits, SlotsAreEmpty, SpendFits, Calls, Tracker
<1> QED BY <1>1, BeginKeeps, ReachKeeps, AnswerKeeps, SecondOpinionKeeps, IntakeKeeps,
           EmailAnswerKeeps, EndKeeps, RestartKeeps, OperateKeeps, NextDayKeeps DEF Next, Step

(* The inductive invariant the results below follow from. *)
LEMMA RoutingInvariance == Spec => []RoutingInv
<1>1. Init => RoutingInv
  BY RoutingInit
<1>2. RoutingInv /\ [Next]_vars => RoutingInv'
  BY RoutingNext
<1> QED BY <1>1, <1>2, PTL DEF Spec

(* A day's counter passes the budget by no more than one call of each      *)
(* process that shares it, and one for every read that failed (budget.py,  *)
(* llm_backend.py _invoke): a call is checked before and charged after.    *)
THEOREM SpendIsAlwaysBounded == Spec => []SpendIsBounded
<1>1. RoutingInv => SpendIsBounded
  <2> SUFFICES ASSUME RoutingInv, NEW t \in Trackers
               PROVE  consumed[t] < Budget + (Users(t) + blind[t]) * MaxCost
    BY DEF SpendIsBounded
  <2>1. consumed[t] + Cardinality(Calls(t, run)) * MaxCost < Budget + (Users(t) + blind[t]) * MaxCost
    BY DEF RoutingInv, SpendFits
  <2>2. Cardinality(Calls(t, run)) \in Nat
    BY CallsAreBounded
  <2>3. consumed[t] \in Nat /\ blind[t] \in Nat /\ Users(t) \in Nat /\ MaxCost \in Nat /\ Budget \in Nat
    BY Numbers DEF RoutingInv, WorldOK
  <2>4. PICK bound : bound = Budget + (Users(t) + blind[t]) * MaxCost
    OBVIOUS
  <2>5. bound \in Int
    BY <2>3, <2>4
  <2>6. consumed[t] + 0 * MaxCost < bound /\ 0 * MaxCost = 0
    BY <2>1, <2>2, <2>3, <2>4, CostSums
  <2>7. consumed[t] < bound
    BY ONLY <2>3, <2>5, <2>6
  <2> QED BY <2>4, <2>7
<1> QED BY <1>1, RoutingInvariance, PTL

(* A trace is its run's and a second opinion its tenant's, whatever runs   *)
(* shared a backend, its slot and its caches (nodes.py _drain_llm_trace,   *)
(* shadow_llm.py).                                                         *)
THEOREM RunsAlwaysKeepApart == Spec => []RunsKeepApart
<1>1. RoutingInv => RunsKeepApart
  <2> SUFFICES ASSUME RoutingInv PROVE RunsKeepApart
    OBVIOUS
  <2>1. blind \in [Trackers -> 0 .. MaxFaults]
    <3>1. \A t \in Trackers : blind[t] \in 0 .. MaxFaults
      BY Numbers DEF RoutingInv, WorldOK
    <3> QED BY <3>1 DEF RoutingInv, WorldOK
  <2>2. TypeOK
    BY <2>1 DEF TypeOK, RoutingInv, WorldOK, RunsFit, RunFits, Runs
  <2>3. TracesAreTheRuns /\ OpinionIsTheTenants
    BY DEF TracesAreTheRuns, OpinionIsTheTenants, RoutingInv, RunsFit, RunFits
  <2> QED BY <2>2, <2>3 DEF RunsKeepApart
<1> QED BY <1>1, RoutingInvariance, PTL

(* No run proceeds past a check of what the model decided, and none calls  *)
(* a provider past the kill switch but from a graph already under way      *)
(* (router.py, nodes.py classify_exception, enforce).                      *)
THEOREM ModelAlwaysStaysInBounds == Spec => []ModelStaysInBounds
<1>1. RoutingInv => ModelStaysInBounds
  BY DEF RoutingInv, RunsFit, RunFits, ModelStaysInBounds, ProceedIsEarned, KillStopsCalls
<1> QED BY <1>1, RoutingInvariance, PTL
=============================================================================
