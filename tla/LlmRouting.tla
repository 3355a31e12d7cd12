----------------------------- MODULE LlmRouting -----------------------------
(***************************************************************************)
(* The model calls of a run: the router that picks a backend for a task    *)
(* (constraints/router.py), the remote backend with its guards             *)
(* (constraints/llm_backend.py), the daily budget (llm/budget.py), the     *)
(* provider clients, the cross-check of the intent, the L2 shadow and its  *)
(* cache (compliance/shadow_llm.py), and the supergroup of an e-mail       *)
(* (email_intelligence/).                                                  *)
(*                                                                         *)
(* A process serves one run at a time, on its event loop.  Processes share *)
(* the budget when it is in Redis.  Operators change the environment while *)
(* runs are on their way; the backends of the three graph tasks are kept   *)
(* by the process, that of the e-mail task is looked up every time.        *)
(***************************************************************************)
EXTENDS Naturals, FiniteSets

CONSTANTS
  Processes,
  Tenants, NoTenant,
  Events,      \* set of [tenant, explain, impact, customer, verdict, det], see EventRecords
  Configs,     \* environments: the providers named and how their clients are set up
  ToldIntents, ToldVerdicts,   \* what a model may decide, besides what the rules decide
  MayDisable,  \* the tasks operators disable
  Costs,       \* subset of Nat: what an answered call costs
  MaxCost,     \* the largest of them
  Budget,      \* daily budget
  Thresholds,  \* subset of BOOLEAN: is financial_impact_threshold_usd set
  MaxRuns,     \* bound: runs begun
  MaxFaults    \* bound: changes of the environment, days, restarts, requests Redis fails

GraphTasks == {"intent", "recipe", "shadow"}
Tasks == GraphTasks \cup {"email"}
Clients == {"anthropic", "openai", "huggingface", "ollama"}
Names == {"unset", "fallback", "outlines", "unbuildable"} \cup Clients
Kinds == {"det", "local"} \cup Clients     \* the deterministic, Outlines and remote backends
(* The provider variables, API keys, endpoints and api version.            *)
Environments ==
  [task : [Tasks -> Names], global : Names, outlines : BOOLEAN, production : BOOLEAN,
   keys : SUBSET Clients, endpoint : [Clients -> {"none", "public", "private"}], azure : BOOLEAN]
Intents == {"A", "B", "MASS"}     \* MASS has no recipe
Verdicts == {"GREEN", "YELLOW", "RED"}
(* What an event's run is told apart by: the explain endpoint, an impact   *)
(* above the L2 floor and threshold, a customer's e-mail, and the verdict  *)
(* and the intent the deterministic backend gives.                         *)
EventRecords ==
  [tenant : Tenants, explain : BOOLEAN, impact : BOOLEAN, customer : BOOLEAN,
   verdict : Verdicts, det : Intents]
Actions == {"AGREE", "DISAGREE_DOWNGRADE"}   \* AGREE also stands for ABSTAIN

ASSUME LlmRoutingAssumption ==
  /\ IsFiniteSet(Processes) /\ NoTenant \notin Tenants
  /\ Configs \subseteq Environments
  /\ Events \subseteq EventRecords
  /\ Costs \subseteq 0..MaxCost /\ Thresholds \subseteq BOOLEAN /\ MayDisable \subseteq Tasks
  /\ ToldIntents \subseteq Intents /\ ToldVerdicts \subseteq Verdicts
  /\ {MaxCost, Budget, MaxRuns, MaxFaults} \subseteq Nat /\ Budget > 0

VARIABLES
  config,     \* the provider variables of the environment
  kill,       \* ASOE_KILL_SWITCH
  disabled,   \* ASOE_LLM_DISABLE_FOR
  shared,     \* REDIS_URL is set
  threshold,  \* financial_impact_threshold_usd is set
  consumed,   \* [trackers -> what the budget's counter of the day says]
  blind,      \* history: calls admitted today, per tracker, because Redis failed the read
  cached,     \* [Processes -> [GraphTasks -> Kinds \cup {"none"}]]
  slot,       \* [Processes -> [GraphTasks -> last_call_trace of the backend]]
  l2cache,    \* [Processes -> set of cached verdicts]
  run,        \* [Processes -> state of the run]
  began, faults

vars == <<config, kill, disabled, shared, threshold, consumed, blind,
          cached, slot, l2cache, run, began, faults>>
world == <<config, kill, disabled, shared, threshold>>

NoTrace == [run |-> 0, task |-> "none"]
NoRun == [at |-> "idle", id |-> 0, tenant |-> NoTenant, explain |-> FALSE, killed |-> FALSE,
          det |-> "A", verdict |-> "GREEN", impact |-> FALSE, customer |-> FALSE,
          calling |-> "none", untraced |-> {}, foreign |-> FALSE, late |-> "no",
          intent |-> "none", l1 |-> "none", l2 |-> "none", l2tenant |-> NoTenant,
          status |-> "NONE"]

Trackers == {"redis"} \cup Processes
Tracker(p) == IF shared THEN "redis" ELSE p
Users(t) == IF t = "redis" THEN Cardinality(Processes) ELSE 1
Goto(p, r) == run' = [run EXCEPT ![p] = r]

-----------------------------------------------------------------------------
(* _resolve_provider: the task's variable, the global one, the legacy one. *)
Provider(task) ==
  IF task \in Tasks /\ config.task[task] # "unset" THEN config.task[task]
  ELSE IF config.global # "unset" THEN config.global
  ELSE IF config.outlines THEN "outlines" ELSE "fallback"

(* from_config of each client.  Production needs an endpoint of its own;   *)
(* Ollama needs no key; Azure's OpenAI needs an address.                   *)
Private(client) == config.production => config.endpoint[client] = "private"
AnthropicBuilds   == "anthropic" \in config.keys /\ Private("anthropic") /\ ~kill
HuggingFaceBuilds == "huggingface" \in config.keys /\ Private("huggingface") /\ ~kill
OllamaBuilds      == Private("ollama") /\ ~kill
OpenAIBuilds ==
  /\ "openai" \in config.keys /\ Private("openai") /\ ~kill
  /\ config.azure => config.endpoint["openai"] # "none"

Builds(client) ==
  CASE client = "anthropic" -> AnthropicBuilds [] client = "openai" -> OpenAIBuilds
    [] client = "huggingface" -> HuggingFaceBuilds [] client = "ollama" -> OllamaBuilds

(* A client that cannot be built leaves the deterministic backend. *)
Build(provider) ==
  CASE provider \in Clients -> IF Builds(provider) THEN provider ELSE "det"
    [] provider = "outlines" -> "local" [] OTHER -> "det"

(* get_constrained_backend. *)
Backend(task) ==
  IF kill \/ task \in disabled THEN "det" ELSE Build(Provider(task))

(* The graph's backends are kept for the life of the process. *)
Kept(p, task) == IF cached[p][task] # "none" THEN cached[p][task] ELSE Backend(task)
Keep(p, task) == cached' = [cached EXCEPT ![p][task] = Kept(p, task)]

-----------------------------------------------------------------------------
(* A run begins: under the kill switch no node runs. *)
Begin(p) ==
  /\ run[p].at = "idle" /\ began < MaxRuns
  /\ began' = began + 1
  /\ \E e \in Events :
       Goto(p, [NoRun EXCEPT !.id = began + 1, !.tenant = e.tenant, !.explain = e.explain,
                             !.impact = e.impact, !.customer = e.customer,
                             !.verdict = e.verdict, !.det = e.det, !.killed = kill,
                             !.at = IF kill THEN "intake" ELSE "intent",
                             !.status = IF kill THEN "FAIL_TO_HUMAN" ELSE "NONE"])
  /\ UNCHANGED <<world, consumed, blind, cached, slot, l2cache, faults>>

(* What the nodes do with a decision.  classify cross-checks it unless the *)
(* backend is the deterministic one.                                       *)
Classified(r, kind, i) ==
  IF kind # "det" /\ i # r.det
  THEN [r EXCEPT !.intent = r.det, !.status = "MANUAL_REVIEW_REQUIRED", !.at = "intake"]
  ELSE [r EXCEPT !.intent = i, !.at = "recipe"]

Decided(r, kind, task, d) ==
  CASE task = "intent" -> Classified(r, kind, d)
    [] task = "recipe" -> [r EXCEPT !.at = "shadow"]
    [] OTHER -> [r EXCEPT !.l1 = d, !.verdict = "GREEN", !.at = "l2"]

ByRule(r, task) ==
  CASE task = "intent" -> r.det [] task = "shadow" -> r.verdict [] OTHER -> "any"
Choices(r, task) ==
  {ByRule(r, task)} \cup
  CASE task = "intent" -> ToldIntents [] task = "shadow" -> ToldVerdicts [] OTHER -> {}

(* _drain_llm_trace takes the trace out of the slot; mutant: leaves it. *)
LeftIn(s)  == s
Emptied(s) == NoTrace
Drained(r, trace) ==
  [r EXCEPT !.untraced = @ \ {trace.task}, !.foreign = @ \/ trace.run \notin {0, r.id}]
Drain(p, task, trace) == slot' = [slot EXCEPT ![p][task] = Emptied(trace)]

Decide(p, kind, task, d, trace) ==
  /\ Goto(p, Drained(Decided([run[p] EXCEPT !.calling = "none"], kind, task, d), trace))
  /\ Drain(p, task, trace)

(* BudgetState.hard_block; mutant: one call past the budget. *)
BlockPast(total) == total > Budget
HardBlock(total) == total >= Budget

Call(r, client, task) ==
  [r EXCEPT !.calling = client, !.untraced = @ \cup ({task} \cap GraphTasks),
            !.late = IF kill THEN IF task = "email" THEN "intake" ELSE "graph" ELSE @]

(* The trace of a call, answered or not, or of a fallback without one. *)
Trace(r, task) == [run |-> r.id, task |-> task]

(* A node reaches its backend.  Without a recipe to look for the remote    *)
(* backend makes no call, and the slot is drained as it is.                *)
NoCall(r, task) == task = "recipe" /\ r.intent = "MASS"

Reach(p) ==
  LET r == run[p]
      task == r.at
      kind == Kept(p, task)
  IN  /\ task \in GraphTasks /\ r.calling = "none"
      /\ Keep(p, task)
      /\ \/ kind = "det" /\ Decide(p, kind, task, ByRule(r, task), slot[p][task])
            /\ UNCHANGED <<blind, faults>>
         \/ kind = "local" /\ UNCHANGED <<blind, faults>>
            /\ \/ \E d \in Choices(r, task) : Decide(p, kind, task, d, slot[p][task])
               \/ Goto(p, NoRun) /\ UNCHANGED slot          \* it raises: 500
         \/ kind \in Clients /\ NoCall(r, task)
            /\ Decide(p, kind, task, "any", slot[p][task]) /\ UNCHANGED <<blind, faults>>
         \/ /\ kind \in Clients /\ ~NoCall(r, task)
            /\ \/ /\ HardBlock(consumed[Tracker(p)])
                  /\ Decide(p, kind, task, ByRule(r, task), Trace(r, task))
                  /\ UNCHANGED <<blind, faults>>
               \/ /\ ~HardBlock(consumed[Tracker(p)])
                  /\ Goto(p, Call(r, kind, task))
                  /\ UNCHANGED <<slot, blind, faults>>
               \/ /\ shared /\ faults < MaxFaults         \* Redis fails: taken for 0
                  /\ faults' = faults + 1
                  /\ blind' = [blind EXCEPT !["redis"] = @ + 1]
                  /\ Goto(p, Call(r, kind, task))
                  /\ UNCHANGED slot
               \/ /\ Decide(p, kind, task, ByRule(r, task), Trace(r, task))   \* circuit open
                  /\ UNCHANGED <<blind, faults>>
      /\ UNCHANGED <<world, consumed, l2cache, began>>

(* What becomes of a call: the SDK raises, or there is an answer with no   *)
(* choice in it, with text in place of a tool call, with arguments that    *)
(* are no JSON, or with none, or with some.  call_with_tool of each client *)
(* raises on what it refuses: the provider may have billed it, the budget  *)
(* is not charged.                                                         *)
Replies == {"raised", "empty", "text", "garbled", "bare", "arguments"}
AnthropicRefuses   == {"raised", "text"}
OpenAIRefuses      == {"raised", "empty", "text", "garbled"}
HuggingFaceRefuses == {"raised", "empty", "text", "garbled"}
OllamaRefuses      == {"raised", "text", "garbled"}
Refuses(client) ==
  CASE client = "anthropic" -> AnthropicRefuses [] client = "openai" -> OpenAIRefuses
    [] client = "huggingface" -> HuggingFaceRefuses [] client = "ollama" -> OllamaRefuses
Sends(client) == Refuses(client) \cup {"bare", "arguments"}

(* The price list knows Claude models only: other answers cost nothing. *)
Price(client, cost) == IF client = "anthropic" THEN cost ELSE 0

(* What an answered call is charged, to the day on which it is charged.    *)
(* Redis may lose it.                                                      *)
Charge(p, cost) ==
  \/ /\ consumed' = [consumed EXCEPT ![Tracker(p)] = @ + Price(run[p].calling, cost)]
     /\ UNCHANGED faults
  \/ /\ shared /\ faults < MaxFaults
     /\ faults' = faults + 1
     /\ UNCHANGED consumed

(* The call comes back; what the schema refuses is decided by the rules,   *)
(* and so is a call that brought no arguments.                             *)
Answer(p) ==
  LET r == run[p]
      task == r.at
      client == r.calling
      Taken(d) == Decide(p, client, task, d, Trace(r, task))
  IN  /\ task \in GraphTasks /\ client # "none"
      /\ \E reply \in Sends(client) :
           \/ reply \in Refuses(client) /\ Taken(ByRule(r, task)) /\ UNCHANGED <<consumed, faults>>
           \/ /\ reply \notin Refuses(client)
              /\ \E cost \in Costs : Charge(p, cost)
              /\ \E d \in (IF reply = "bare" THEN {ByRule(r, task)} ELSE Choices(r, task)) : Taken(d)
      /\ UNCHANGED <<world, blind, cached, l2cache, began>>

-----------------------------------------------------------------------------
(* The L2 shadow.  It is asked on a YELLOW verdict or a large impact, never *)
(* on RED; its cache is keyed by tenant and request, and a cached verdict   *)
(* may have expired.                                                        *)
Asked(r) == r.l1 = "YELLOW" \/ (r.l1 = "GREEN" /\ r.impact)
SameKey(e, r) == e.tenant = r.tenant /\ e.l1 = r.l1

(* combine_verdicts; mutant: L2 may also settle a YELLOW. *)
CombinedBothWays(r, action) ==
  IF action = "AGREE" /\ threshold THEN "GREEN"
  ELSE IF threshold /\ action = "DISAGREE_DOWNGRADE" /\ r.impact THEN "YELLOW" ELSE r.l1
Combined(r, action) ==
  IF threshold /\ r.l1 = "GREEN" /\ action = "DISAGREE_DOWNGRADE" /\ r.impact
  THEN "YELLOW" ELSE r.l1

(* enforce, and what the rest of the graph makes of a verdict that lets    *)
(* the run go on; an explain run executes nothing.                         *)
Enforced(r, verdict) ==
  [r EXCEPT !.at = "intake",
            !.status = CASE verdict = "RED" -> "BLOCKED"
                         [] verdict = "YELLOW" \/ r.explain -> "MANUAL_REVIEW_REQUIRED"
                         [] OTHER -> "PROCEEDED"]

SecondOpinion(p) ==
  LET r == run[p]
      hits == {e \in l2cache[p] : SameKey(e, r)}
      Given(e) == Goto(p, Enforced([r EXCEPT !.l2 = e.action, !.l2tenant = e.tenant],
                                   Combined(r, e.action)))
  IN  /\ r.at = "l2"
      /\ \/ ~Asked(r) /\ Goto(p, Enforced(r, r.l1)) /\ UNCHANGED l2cache
         \/ Asked(r) /\ hits # {} /\ UNCHANGED l2cache /\ \E e \in hits : Given(e)
         \/ /\ Asked(r)                         \* no hit, or an expired one
            /\ \/ Goto(p, Enforced(r, r.l1)) /\ UNCHANGED l2cache   \* timeout, error, invalid
               \/ \E action \in Actions :
                    LET e == [tenant |-> r.tenant, l1 |-> r.l1, action |-> action]
                    IN  l2cache' = [l2cache EXCEPT ![p] = (@ \ hits) \cup {e}] /\ Given(e)
      /\ UNCHANGED <<world, consumed, blind, cached, slot, began, faults>>

-----------------------------------------------------------------------------
(* The record is stored and its case opened: a customer's e-mail is        *)
(* classified first.  The call's trace does not take the task, so that the *)
(* remote backend raises after the call whatever it answered, and the      *)
(* classifier falls back.                                                  *)
EmailBackend(p) == Backend("email")

Gated(r) == [r EXCEPT !.at = "ended", !.calling = "none"]

Intake(p) ==
  LET r == run[p]
      client == EmailBackend(p)
  IN  /\ r.at = "intake" /\ r.calling = "none"
      /\ \/ /\ ~r.customer \/ client \notin Clients \/ HardBlock(consumed[Tracker(p)])
            /\ Goto(p, Gated(r)) /\ UNCHANGED <<blind, faults>>
         \/ /\ r.customer /\ client \in Clients
            /\ \/ Goto(p, Gated(r)) /\ UNCHANGED <<blind, faults>>    \* circuit open
               \/ /\ ~HardBlock(consumed[Tracker(p)]) /\ UNCHANGED <<blind, faults>>
                  /\ Goto(p, Call(r, client, "email"))
               \/ /\ shared /\ faults < MaxFaults
                  /\ faults' = faults + 1 /\ blind' = [blind EXCEPT !["redis"] = @ + 1]
                  /\ Goto(p, Call(r, client, "email"))
      /\ UNCHANGED <<world, consumed, cached, slot, l2cache, began>>

EmailAnswer(p) ==
  /\ run[p].at = "intake" /\ run[p].calling # "none"
  /\ Goto(p, Gated(run[p]))
  /\ \E reply \in Sends(run[p].calling) :
       IF reply \in Refuses(run[p].calling) THEN UNCHANGED <<consumed, faults>>
       ELSE \E cost \in Costs : Charge(p, cost)
  /\ UNCHANGED <<world, blind, cached, slot, l2cache, began>>

End(p) ==
  /\ run[p].at = "ended"
  /\ Goto(p, NoRun)
  /\ UNCHANGED <<world, consumed, blind, cached, slot, l2cache, began, faults>>

-----------------------------------------------------------------------------
Operate ==
  /\ faults < MaxFaults /\ faults' = faults + 1
  /\ \/ kill' = ~kill /\ UNCHANGED <<config, disabled>>
     \/ \E t \in MayDisable \ disabled :
          disabled' = disabled \cup {t} /\ UNCHANGED <<config, kill>>
     \/ \E c \in Configs : config' = c /\ UNCHANGED <<kill, disabled>>
  /\ UNCHANGED <<shared, threshold, consumed, blind, cached, slot, l2cache, run, began>>

(* A new UTC day has a counter of its own. *)
NextDay ==
  /\ faults < MaxFaults /\ faults' = faults + 1
  /\ consumed' = [t \in Trackers |-> 0] /\ blind' = [t \in Trackers |-> 0]
  /\ UNCHANGED <<world, cached, slot, l2cache, run, began>>

Restart(p) ==
  /\ faults < MaxFaults /\ faults' = faults + 1
  /\ run' = [run EXCEPT ![p] = NoRun]
  /\ cached' = [cached EXCEPT ![p] = [t \in GraphTasks |-> "none"]]
  /\ slot' = [slot EXCEPT ![p] = [t \in GraphTasks |-> NoTrace]]
  /\ l2cache' = [l2cache EXCEPT ![p] = {}]
  /\ consumed' = [consumed EXCEPT ![p] = 0] /\ blind' = [blind EXCEPT ![p] = 0]
  /\ UNCHANGED <<config, kill, disabled, shared, threshold, began>>

Init ==
  /\ config \in Configs /\ kill = FALSE /\ disabled = {}
  /\ shared \in BOOLEAN /\ threshold \in Thresholds
  /\ consumed = [t \in Trackers |-> 0] /\ blind = [t \in Trackers |-> 0]
  /\ cached = [p \in Processes |-> [t \in GraphTasks |-> "none"]]
  /\ slot = [p \in Processes |-> [t \in GraphTasks |-> NoTrace]]
  /\ l2cache = [p \in Processes |-> {}]
  /\ run = [p \in Processes |-> NoRun]
  /\ began = 0 /\ faults = 0

Step(p) ==
  \/ Reach(p) \/ Answer(p) \/ SecondOpinion(p) \/ Intake(p) \/ EmailAnswer(p) \/ End(p)

Next ==
  \/ \E p \in Processes : Begin(p) \/ Step(p) \/ Restart(p)
  \/ Operate \/ NextDay

Spec == Init /\ [][Next]_vars

-----------------------------------------------------------------------------
(* Runs, backends, traces and counters hold what the code can store. *)
TypeOK ==
  /\ config \in Configs /\ kill \in BOOLEAN /\ disabled \subseteq Tasks
  /\ faults \in 0..MaxFaults
  /\ consumed \in [Trackers -> Nat] /\ blind \in [Trackers -> 0..MaxFaults]
  /\ cached \in [Processes -> [GraphTasks -> Kinds \cup {"none"}]]
  /\ \A p \in Processes :
       /\ run[p].at \in GraphTasks \cup {"idle", "l2", "intake", "ended"}
       /\ run[p].at \in {"intake", "ended"} => run[p].status # "NONE"

(* The budget is read before a call and charged after it, on the day of    *)
(* the charge: a day's counter passes the budget by no more than one call  *)
(* of each process that was under way, and one for every read that failed. *)
SpendIsBounded ==
  \A t \in Trackers : consumed[t] < Budget + (Users(t) + blind[t]) * MaxCost

(* Every remote call of a graph task leaves a trace on the run that made   *)
(* it and on no other, whatever became of the call: a backend outlives the *)
(* run and keeps the last trace in a slot of its own.                      *)
TracesAreTheRuns ==
  \A p \in Processes :
    ~run[p].foreign /\ run[p].untraced \subseteq IF run[p].calling # "none" THEN {run[p].at} ELSE {}

(* Once the kill switch is thrown only runs begun before it go on calling, *)
(* from their graph; opening a case calls nobody.                          *)
KillStopsCalls ==
  \A p \in Processes : run[p].late # "no" => ~run[p].killed /\ run[p].late = "graph"

(* A run proceeds only on an intent the rules agree with, a GREEN verdict  *)
(* and no second opinion that takes it back, and never when explaining,    *)
(* however often the environment changed on its way.                       *)
ProceedIsEarned ==
  \A p \in Processes : run[p].status = "PROCEEDED" =>
    /\ run[p].intent = run[p].det /\ run[p].l1 = "GREEN" /\ ~run[p].explain
    /\ ~(threshold /\ run[p].impact /\ run[p].l2 = "DISAGREE_DOWNGRADE")

(* A second opinion is the run's tenant's, and is never asked on RED. *)
OpinionIsTheTenants ==
  \A p \in Processes : run[p].l2 # "none" =>
    run[p].l2tenant = run[p].tenant /\ run[p].l1 \in {"GREEN", "YELLOW"}

(* Runs share backends, caches and a budget, and nothing else: a trace is   *)
(* its run's, a second opinion its tenant's (nodes.py, shadow_llm.py).      *)
RunsKeepApart == TypeOK /\ TracesAreTheRuns /\ OpinionIsTheTenants

(* What the model may do is what every switch and every check leaves it:    *)
(* no run proceeds past one, and none calls a provider past the kill switch *)
(* but from a graph that was already under way.                             *)
ModelStaysInBounds == ProceedIsEarned /\ KillStopsCalls

(* constraints/router.py says that an explain run makes no paid call. *)
ExplainMakesNoCall ==
  \A p \in Processes : run[p].explain => run[p].untraced = {}
===============================================================================
