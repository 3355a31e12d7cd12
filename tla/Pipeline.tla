------------------------------- MODULE Pipeline -------------------------------
(***************************************************************************)
(* One run of the LangGraph state machine: run_graph, the nodes of         *)
(* orchestration/nodes.py and the edges of orchestration/graph.py.         *)
(*                                                                         *)
(* A run is sequential; what varies is the event (its intent and facts),   *)
(* the answers of backends and gateways, the operator's directed re-entry  *)
(* and the mode of the process.  Module Recipes has the recipes and the    *)
(* deterministic shadow.                                                   *)
(***************************************************************************)
EXTENDS Recipes, Contracts

(* propose_recipe: the recipe of each intent, "NONE" for MASS_PRICING_ERROR. *)
ProposeRecipe ==
  [CONTRACTUAL_CORRECTION |-> "PriceAdjustment",    CREDIT_BLOCK       |-> "CreditHoldRelease",
   DUPLICATE_PO           |-> "DuplicatePO",        PRICE_HOLD_RELEASE |-> "PriceHoldRelease",
   EDI_MISMATCH           |-> "EdiMismatch",        BACK_ORDER         |-> "BackOrderResolution",
   OVER_MAX               |-> "OverMaxTrim",        MIN_ORDER_QTY      |-> "MOQRoundUp",
   PALLET_CONFIG          |-> "PalletAlignment",    DELIVERY_DELAY     |-> "DeliveryDelayResolution",
   MANUAL_ORDER_INTAKE    |-> "ManualOrderIntake",  MASS_PRICING_ERROR |-> "NONE"]

Intents  == DOMAIN ProposeRecipe
Directed == {"SubmitToErp", "ReplyDraft"}      \* GraphState.directed_recipe
Recipes  == {ProposeRecipe[i] : i \in Intents} \cup Directed \cup {"NONE"}

(* The registry's dependencies and effects. *)
RequiresGateway == Recipes \ ({"NONE", "CreditHoldRelease", "EdiMismatch", "PalletAlignment"}
                              \cup Directed)
MaySoftFail     == {"ManualOrderIntake"}
EffectGateway(recipe) ==
  CASE recipe \in {"DuplicatePO", "EdiMismatch", "BackOrderResolution", "ReplyDraft"}
                                     -> "buyer_notification"
    [] recipe = "PriceHoldRelease"   -> "oms"
    [] recipe = "SubmitToErp"        -> "erp"
    [] OTHER                         -> "NONE"

Statuses == {"SUCCESS", "COMPLETE", "RELEASED", "SOFT_FLAG", "PASS", "DRAFTED",
             "READY_TO_SEND", "REVIEW_REQUIRED", "ESCALATE", "BLOCKED", "REJECTED", "FAILED"}

(* only_on_recipe_status; an effect that declares none fires on any outcome, *)
(* "ERROR" (log.errors, empty outputs) included.                             *)
FiresOn(recipe) ==
  CASE recipe = "SubmitToErp" -> {"SUCCESS"}
    [] recipe = "ReplyDraft"  -> {"READY_TO_SEND"}
    [] OTHER                  -> Statuses \cup {"ERROR"}

(* A recipe's success completes the record, an order intake's does not. *)
SuccessOutcome(recipe)   ==
  IF recipe = "ManualOrderIntake" THEN "MANUAL_REVIEW_REQUIRED" ELSE "COMPLETE"

(* execute_recipe's routing of the outcome. *)
RouteOutcome(recipe, result) ==
  CASE result.status = "ERROR" -> "FAIL_TO_HUMAN"
    [] result.status # "ERROR" /\ result.human -> "MANUAL_REVIEW_REQUIRED"
    [] result.status = "FAILED" /\ ~result.human -> "FAIL_TO_HUMAN"
    [] result.status \in {"BLOCKED", "REJECTED"} /\ ~result.human -> result.status
    [] result.status = "REVIEW_REQUIRED" /\ ~result.human -> "MANUAL_REVIEW_REQUIRED"
    [] OTHER -> SuccessOutcome(recipe)

-----------------------------------------------------------------------------
Nodes == {"start", "ingest", "classify", "load_skill", "validate_circuit_breaker",
          "select_recipe", "resolve_dependencies", "validate_types", "shadow_audit",
          "execute_recipe", "apply_effects", "explain_only", "build_analysis", "end"}

VARIABLES
  node,     \* the node about to run
  killed,   \* ASOE_KILL_SWITCH
  state     \* the GraphState

vars == <<node, killed, state>>

GraphStates ==
  [intent : Intents, directed : Directed \cup {"NONE"}, explain : BOOLEAN,
   llm_shadow : BOOLEAN,                      \* ASOE_LLM_PROVIDER_SHADOW is set
   facts : UNION {Facts(recipe) : recipe \in Recipes},
   final_status : Finals \cup {"NONE"},
   recipe : Recipes,                          \* selected_recipe
   evidence : {"NONE", "PARTIAL", "FULL"},    \* what resolve_dependencies fetched
   invocation : BOOLEAN,                      \* state.invocation is not None
   verdict : Verdicts,
   outcome : Statuses \cup {"NONE", "ERROR"}, \* of execution_log
   action : ResolutionActions \cup {"NONE"},   \* its recommended_action
   effect : {"NONE", "SUCCESS", "FAILED"},    \* of effect_results
   explanation : {"NONE", "OUTCOME", "RECIPE_COMPLETED_EFFECT_FAILED"},
   halted : BOOLEAN]       \* history: a gate before the shadow stopped the run

(* One node runs: it updates the state and control moves on. *)
Goto(next, new) == node' = next /\ state' = new /\ UNCHANGED killed

(* Mutant: the conditional edges became plain ones. *)
GateAlwaysOpen(next, new) == Goto(next, new)

(* route_after_gate. *)
Gate(next, new) == Goto(IF new.final_status = "NONE" THEN next ELSE "build_analysis", new)

Halt(final) == [state EXCEPT !.final_status = final, !.halted = TRUE]

(* The operator flips the switch; a run in flight does not look at it again. *)
FlipKillSwitch == killed' = ~killed /\ UNCHANGED <<node, state>>

RunGraph ==
  /\ node = "start"
  /\ IF killed THEN Goto("end", Halt("FAIL_TO_HUMAN")) ELSE Goto("ingest", state)

(* _validate_event may fail; the edge to classify is unconditional. *)
Ingest ==
  /\ node = "ingest"
  /\ \E new \in {state, Halt("FAIL_TO_HUMAN")} : Goto("classify", new)

(* Where an LLM classifies, a cross-check disagreement forces              *)
(* MANUAL_REVIEW_REQUIRED.                                                 *)
Classify ==
  /\ node = "classify"
  /\ \E new \in {state, Halt("MANUAL_REVIEW_REQUIRED")} : Goto("load_skill", new)

LoadSkill == node = "load_skill" /\ Goto("validate_circuit_breaker", state)

ValidateCircuitBreaker ==
  /\ node = "validate_circuit_breaker"
  /\ \E new \in {state, Halt("FAIL_TO_HUMAN")} : Gate("select_recipe", new)

(* No recipe does not end the run: the shadow stays the terminal voice. *)
SelectRecipe ==
  LET recipe == IF state.directed # "NONE" THEN state.directed ELSE ProposeRecipe[state.intent]
  IN  /\ node = "select_recipe"
      /\ Gate("resolve_dependencies",
              [state EXCEPT !.recipe = recipe,
                            !.explanation = IF recipe = "NONE" THEN "OUTCOME" ELSE @])

ResolveDependencies ==
  /\ node = "resolve_dependencies"
  /\ \E new \in {[state EXCEPT !.evidence = "FULL"]}
              \cup (IF state.recipe \in MaySoftFail THEN {[state EXCEPT !.evidence = "PARTIAL"]} ELSE {})
              \cup (IF state.recipe \in RequiresGateway THEN {Halt("FAIL_TO_HUMAN")} ELSE {}) :
       Gate("validate_types", new)

(* Only the price hold refuses to build its invocation. *)
ValidateTypes ==
  /\ node = "validate_types"
  /\ Gate("shadow_audit",
          IF state.recipe = "PriceHoldRelease" /\ state.facts.base <= 0
          THEN Halt("FAIL_TO_HUMAN")
          ELSE [state EXCEPT !.invocation = state.recipe # "NONE"])

(* build_graph's and build_explain_graph's edge out of the audit; mutant:  *)
(* one graph for both modes.                                               *)
AlwaysExecute == "execute_recipe"
AfterShadow   == IF state.explain THEN "explain_only" ELSE "execute_recipe"

(* The L1 verdict, which the L2 shadow may move from GREEN to YELLOW; then *)
(* enforce.                                                                *)
ShadowAudit ==
  /\ node = "shadow_audit"
  /\ \E l1 \in IF state.llm_shadow THEN Verdicts \ {"NONE"}
                 ELSE {ShadowDecision(state.intent, state.facts)} :
     \E verdict \in {l1} \cup (IF l1 = "GREEN" THEN {"YELLOW"} ELSE {}) :
       Gate(AfterShadow,
            [state EXCEPT !.verdict = verdict,
                          !.final_status = CASE verdict = "RED"    -> "BLOCKED"
                                             [] verdict = "YELLOW" -> "MANUAL_REVIEW_REQUIRED"
                                             [] verdict = "GREEN"  -> @])

ExplainOnly ==
  /\ node = "explain_only"
  /\ Goto("build_analysis", [state EXCEPT !.final_status = "MANUAL_REVIEW_REQUIRED",
                                          !.explanation = "OUTCOME"])

(* A run of the recipe; an error when a parameter is missing or it raises. *)
Ran(result) ==
  [state EXCEPT !.outcome = result.status, !.action = result.action, !.explanation = "OUTCOME",
                !.final_status = RouteOutcome(state.recipe, result)]

(* Every outcome, an error too, leads to apply_effects. *)
ExecuteRecipe ==
  /\ node = "execute_recipe"
  /\ \/ /\ ~state.invocation
        /\ Goto("apply_effects", [state EXCEPT !.final_status = "FAIL_TO_HUMAN",
                                               !.explanation = "OUTCOME"])
     \/ /\ state.invocation
        /\ \E result \in {Plain("ERROR"), Decide(state.recipe, state.facts)} :
             Goto("apply_effects", Ran(result))

(* The effect fires if its predicate accepts the recipe status; the gateway *)
(* call then succeeds or fails.                                             *)
ApplyEffects ==
  /\ node = "apply_effects"
  /\ \/ /\ \/ state.outcome = "NONE"
           \/ EffectGateway(state.recipe) = "NONE"
           \/ state.outcome \notin FiresOn(state.recipe)
        /\ Goto("build_analysis", state)
     \/ /\ state.outcome # "NONE"
        /\ EffectGateway(state.recipe) # "NONE"
        /\ state.outcome \in FiresOn(state.recipe)
        /\ \/ Goto("build_analysis", [state EXCEPT !.effect = "SUCCESS"])
           \/ Goto("build_analysis", [state EXCEPT !.effect = "FAILED",
                                        !.explanation = "RECIPE_COMPLETED_EFFECT_FAILED"])

(* Audit coverage, or the metadata contract, may turn any outcome but       *)
(* FAIL_TO_HUMAN into AUDIT_CONTEXT_MISSING.                                *)
BuildAnalysis ==
  /\ node = "build_analysis"
  /\ \/ Goto("end", state)
     \/ /\ state.final_status # "FAIL_TO_HUMAN"
        /\ Goto("end", [state EXCEPT !.final_status = "AUDIT_CONTEXT_MISSING"])

Init ==
  /\ node = "start"
  /\ killed \in BOOLEAN
  /\ \E i \in Intents, explain, llm_shadow \in BOOLEAN, d \in Directed \cup {"NONE"} :
       /\ d # "NONE" => i = "MANUAL_ORDER_INTAKE"
       /\ \E f \in Facts(IF d = "NONE" THEN ProposeRecipe[i] ELSE d) :
            state = [intent |-> i, directed |-> d, explain |-> explain,
                     llm_shadow |-> llm_shadow, facts |-> f, final_status |-> "NONE",
                     recipe |-> "NONE", evidence |-> "NONE", invocation |-> FALSE, verdict |-> "NONE", outcome |-> "NONE",
                     action |-> "NONE", effect |-> "NONE", explanation |-> "NONE",
                     halted |-> FALSE]

Next ==
  \/ FlipKillSwitch \/ RunGraph \/ Ingest \/ Classify \/ LoadSkill
  \/ ValidateCircuitBreaker \/ SelectRecipe \/ ResolveDependencies \/ ValidateTypes
  \/ ShadowAudit \/ ExplainOnly \/ ExecuteRecipe \/ ApplyEffects \/ BuildAnalysis

Spec == Init /\ [][Next]_vars

-----------------------------------------------------------------------------
(* The node functions write values of the declared types. *)
TypeOK == node \in Nodes /\ killed \in BOOLEAN /\ state \in GraphStates

(* A finished run leaves one of the outcomes the record life cycle is      *)
(* built for: verdict and final_status never disagree (a RED never ends    *)
(* COMPLETE, an unaudited run never BLOCKED), whichever node wrote last.   *)
OutcomesCovered ==
  node = "end" => [verdict |-> state.verdict, final |-> state.final_status] \in PipelineOutcomes

(* Guardrail #4: the shadow gates recipe execution and effects, and it     *)
(* judges a materialised proposal (ADR-025): nothing runs before a GREEN   *)
(* on fetched evidence, nothing at all in explain mode.                    *)
ShadowGatesExecution ==
  /\ state.verdict # "NONE" => state.evidence # "NONE"
  /\ state.outcome # "NONE" \/ state.effect # "NONE"
       => state.verdict = "GREEN" /\ ~state.explain

(* A gate that said stop (kill switch, invalid event, cross-check          *)
(* disagreement, breach, missing evidence) is never overruled, though      *)
(* later nodes still run and may overwrite final_status.                   *)
HaltIsFinal ==
  state.halted => /\ state.verdict = "NONE" /\ state.outcome = "NONE" /\ state.effect = "NONE"
                  /\ state.final_status \in {"FAIL_TO_HUMAN", "MANUAL_REVIEW_REQUIRED",
                                             "AUDIT_CONTEXT_MISSING"}

(* No gate can be walked around: the shadow's, and any other that said stop. *)
GatesHold == TypeOK /\ ShadowGatesExecution /\ HaltIsFinal

(* ADR-042: free text never reaches the ERP, or COMPLETE, on its own; the  *)
(* binding write needs an operator's directed run and a SUCCESS.           *)
IntakeIsOperatorGated ==
  /\ state.intent = "MANUAL_ORDER_INTAKE" /\ state.final_status = "COMPLETE"
       => state.directed # "NONE"
  /\ state.recipe = "SubmitToErp" /\ state.effect # "NONE"
       => state.directed = "SubmitToErp" /\ state.outcome = "SUCCESS"

(* docs/STATUS_MODEL.md section 5: the pipeline never emits REJECTED.  It   *)
(* is the policy thresholds and autonomy levels that keep an undirected    *)
(* run from it, since execute_recipe passes a recipe's REJECTED through.   *)
(* (An LLM shadow may judge a credit or price hold GREEN: then it does.)   *)
RejectedIsHumanOnly ==
  ~state.llm_shadow /\ state.directed = "NONE" => state.final_status # "REJECTED"

(* The shadow judges before the recipe runs, from the same thresholds: an  *)
(* event the recipe would reject or escalate is RED to it.  (For delivery  *)
(* delays they read different fields; credit, pallet and intake refusals   *)
(* are caught elsewhere.)                                                  *)
SevereIsRed ==
  LET mirrored == {"PRICE_HOLD_RELEASE", "EDI_MISMATCH", "BACK_ORDER", "OVER_MAX", "MIN_ORDER_QTY"}
  IN  ~state.llm_shadow /\ state.verdict # "NONE" /\ state.intent \in mirrored
        => (Decide(state.recipe, state.facts).status \in {"REJECTED", "ESCALATE"}
              => state.verdict = "RED")

(* What completes without a human is what the recipe found nothing wrong   *)
(* with.  execute_recipe sends ESCALATE and SOFT_FLAG to COMPLETE, so this *)
(* rests on shadow, thresholds and autonomy levels together.               *)
OnlyBenignCompletes ==
  ~state.llm_shadow /\ state.directed = "NONE" /\ state.intent # "DELIVERY_DELAY"
      /\ state.final_status = "COMPLETE"
    => state.outcome \in {"SUCCESS", "COMPLETE", "RELEASED", "PASS"}

(* What is a person's to decide stays with one: intake of free text, a      *)
(* rejection, and whatever the recipe had something to say about.           *)
NeedsAHuman == IntakeIsOperatorGated /\ RejectedIsHumanOnly /\ OnlyBenignCompletes

-----------------------------------------------------------------------------
(* What the documentation says of the program and the code does not do.    *)

(* knowledge/skills/delivery-delay/SKILL.md section 5: a SEVERE_DELAY (the *)
(* recipe's ESCALATE) is RED, so it never auto-completes.                  *)
SevereDelayIsNotCompleted ==
  ~state.llm_shadow /\ state.intent = "DELIVERY_DELAY" /\ state.outcome = "ESCALATE"
    => state.final_status # "COMPLETE"
===============================================================================
