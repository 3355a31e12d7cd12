---------------------------- MODULE PipelineProofs ----------------------------
(***************************************************************************)
(* Proofs about the graph of module Pipeline, run by the workflows of      *)
(* module Workflow, for every policy threshold, every event and workflows  *)
(* of any length.                                                          *)
(***************************************************************************)
EXTENDS Workflow, SequenceTheorems, TLAPS

(* The recipe the event of a run asks for. *)
Proposal(s) == IF s.directed # "NONE" THEN s.directed ELSE ProposeRecipe[s.intent]

Gating  == {"start", "ingest", "classify", "load_skill", "validate_circuit_breaker",
            "select_recipe", "resolve_dependencies", "validate_types", "shadow_audit"}
Closing == {"apply_effects", "build_analysis", "end"}

(* An event carries the facts its recipe looks at; only an intake is       *)
(* directed.                                                               *)
Posed(s) ==
  /\ s.directed # "NONE" => s.intent = "MANUAL_ORDER_INTAKE"
  /\ s.facts \in Facts(Proposal(s))
  /\ s.recipe \in {"NONE", Proposal(s)}

(* Up to the audit a run has done nothing, and has a status only if a gate *)
(* stopped it; past a gate it has none.                                    *)
BeforeAudit(n, s) ==
  /\ n \in Gating => /\ s.verdict = "NONE" /\ s.outcome = "NONE" /\ s.effect = "NONE"
                     /\ s.final_status # "NONE" => s.halted
                     /\ ~s.invocation \/ s.recipe # "NONE"
  /\ n \in {"resolve_dependencies", "validate_types", "shadow_audit"}
       => s.recipe = Proposal(s) /\ s.final_status = "NONE"
  /\ n \in {"validate_types", "shadow_audit"} => s.evidence # "NONE"
  /\ s.halted => /\ s.verdict = "NONE" /\ s.outcome = "NONE" /\ s.effect = "NONE"
                 /\ s.final_status \in {"FAIL_TO_HUMAN", "MANUAL_REVIEW_REQUIRED",
                                        "AUDIT_CONTEXT_MISSING"}

(* A verdict is about the proposal, on evidence; without an LLM it is the  *)
(* rules', which the second opinion may turn from GREEN to YELLOW.         *)
Judged(s) ==
  s.verdict # "NONE" =>
    /\ s.recipe = Proposal(s) /\ s.evidence # "NONE" /\ ~s.halted
    /\ ~s.llm_shadow => LET rules == ShadowDecision(s.intent, s.facts)
                        IN  s.verdict = rules \/ (rules = "GREEN" /\ s.verdict = "YELLOW")

(* A recipe's outcome is an error or what it decides of the facts, and the *)
(* status is that outcome's route unless the audit's context is missing.   *)
HasRun(s) ==
  LET decision == Decide(s.recipe, s.facts)
  IN  /\ s.verdict = "GREEN" /\ ~s.explain /\ s.recipe # "NONE"
      /\ \/ s.outcome = "ERROR" /\ s.final_status \in {"FAIL_TO_HUMAN", "AUDIT_CONTEXT_MISSING"}
         \/ /\ s.outcome = decision.status
            /\ s.final_status \in {RouteOutcome(s.recipe, decision), "AUDIT_CONTEXT_MISSING"}

AfterAudit(n, s) ==
  /\ n \in {"explain_only", "execute_recipe"}
       => /\ s.verdict = "GREEN" /\ s.final_status = "NONE" /\ s.outcome = "NONE" /\ s.effect = "NONE"
          /\ s.explain <=> n = "explain_only"
          /\ ~s.invocation \/ s.recipe # "NONE"
  /\ n = "apply_effects" => s.verdict = "GREEN" /\ ~s.explain /\ s.effect = "NONE"
  /\ s.outcome # "NONE" => n \in Closing /\ HasRun(s)
  /\ s.effect # "NONE" => /\ s.outcome # "NONE" /\ s.outcome \in FiresOn(s.recipe)
  /\ n \in Closing =>
       /\ [verdict |-> s.verdict, final |-> s.final_status] \in PipelineOutcomes
       /\ s.verdict = "GREEN" /\ s.outcome = "NONE"
            => s.final_status \in {"FAIL_TO_HUMAN", "MANUAL_REVIEW_REQUIRED", "AUDIT_CONTEXT_MISSING"}

(* The inductive invariant of a run. *)
Sound(n, s) == Posed(s) /\ BeforeAudit(n, s) /\ Judged(s) /\ AfterAudit(n, s)
RunInv == TypeOK /\ Sound(node, state)

-----------------------------------------------------------------------------
(* Facts about the operators. *)

Answered == [status : Statuses \cup {"ERROR"}, action : ResolutionActions \cup {"NONE"},
             human : BOOLEAN]

(* A status alone is an answer. *)
LEMMA PlainType ==
  ASSUME NEW status \in Statuses \cup {"ERROR"}
  PROVE  Plain(status) \in Answered
BY DEF Plain, Answered

(* An advice has the autonomy of its level. *)
LEMMA AdviceType ==
  ASSUME NEW status \in Statuses, NEW action \in ResolutionActions, NEW level
  PROVE  Advice(status, action, level) \in Answered
BY DEF Advice, Answered

(* Every class of a duplicate order has an action. *)
LEMMA DuplicatePOType ==
  ASSUME NEW f
  PROVE  /\ DuplicatePOClass(f) \in {"BLOCKED", "REVIEW_REQUIRED", "SOFT_FLAG", "PASS"}
         /\ DuplicatePOAction(f) \in DOMAIN DUPLICATE_PO_AUTONOMY_LEVELS
         /\ DuplicatePOClass(f) = "SOFT_FLAG" => DuplicatePO(f).human
<1>1. DuplicatePOClass(f) \in {"BLOCKED", "REVIEW_REQUIRED", "SOFT_FLAG", "PASS"}
  BY DEF DuplicatePOClass
<1>2. DuplicatePOAction(f) \in DOMAIN DUPLICATE_PO_AUTONOMY_LEVELS
  BY <1>1 DEF DuplicatePOAction, DUPLICATE_PO_AUTONOMY_LEVELS
<1>3. DuplicatePOClass(f) = "SOFT_FLAG" => DuplicatePO(f).human
  <2>1. DuplicatePOClass(f) = "SOFT_FLAG" => DuplicatePOAction(f) = "REQUEST_BUYER_CONFIRMATION"
    BY DEF DuplicatePOAction
  <2>2. AutonomyRank[DUPLICATE_PO_AUTONOMY_LEVELS["REQUEST_BUYER_CONFIRMATION"]] <= 1
    BY DEF DUPLICATE_PO_AUTONOMY_LEVELS, AutonomyRank
  <2>3. DuplicatePO(f).human =
          (AutonomyRank[DUPLICATE_PO_AUTONOMY_LEVELS[DuplicatePOAction(f)]] <= 1)
    BY Zenon DEF DuplicatePO, Advice
  <2> QED BY <2>1, <2>2, <2>3
<1> QED BY <1>1, <1>2, <1>3

(* Every recipe answers any facts with a status of the vocabulary, an      *)
(* action of the vocabulary and a level of autonomy.                       *)
LEMMA DecideType ==
  ASSUME NEW recipe \in Recipes \ {"NONE"}, NEW f
  PROVE  Decide(recipe, f) \in Answered
<1>1. CASE recipe = "DuplicatePO"
  BY <1>1, DuplicatePOType, AdviceType
  DEF Decide, DuplicatePO, DUPLICATE_PO_AUTONOMY_LEVELS, Statuses, ResolutionActions
<1>2. CASE recipe = "EdiMismatch"
  BY <1>2, PlainType, AdviceType DEF Decide, EdiMismatch, Statuses, ResolutionActions
<1>3. CASE recipe = "ManualOrderIntake"
  BY <1>3, AdviceType DEF Decide, ManualOrderIntake, Statuses, ResolutionActions
<1>4. CASE recipe \in {"PriceAdjustment", "CreditHoldRelease", "PriceHoldRelease"}
  BY <1>4, PlainType
  DEF Decide, PriceAdjustment, CreditHoldRelease, PriceHoldRelease, Statuses
<1>5. CASE recipe \in {"BackOrderResolution", "OverMaxTrim", "MOQRoundUp"}
  BY <1>5, PlainType DEF Decide, BackOrderResolution, OverMaxTrim, MOQRoundUp, Statuses
<1>6. CASE recipe \in {"PalletAlignment", "DeliveryDelayResolution"}
  BY <1>6, PlainType DEF Decide, PalletAlignment, DeliveryDelayResolution, Statuses
<1>7. CASE recipe \in {"SubmitToErp", "ReplyDraft"}
  BY <1>7, PlainType DEF Decide, SubmitToErp, ReplyDraft, Statuses
<1> QED
  BY <1>1, <1>2, <1>3, <1>4, <1>5, <1>6, <1>7
  DEF Recipes, ProposeRecipe, Intents, Directed

(* The rules judge every event. *)
LEMMA ShadowType ==
  ASSUME NEW intent \in Intents, NEW f
  PROVE  ShadowDecision(intent, f) \in Verdicts \ {"NONE"}
BY DEF Intents, ProposeRecipe, ShadowDecision, ShadowForPriceHold, ShadowForEdiMismatch,
       ShadowForBackOrder, ShadowForOverMax, ShadowForMoq, ShadowForDeliveryDelay, Verdicts

(* Every answer is routed to a final status. *)
LEMMA RouteType ==
  ASSUME NEW recipe, NEW result \in Answered
  PROVE  /\ RouteOutcome(recipe, result) \in Finals \ {"AUDIT_CONTEXT_MISSING"}
         /\ result.status = "ERROR" => RouteOutcome(recipe, result) = "FAIL_TO_HUMAN"
BY DEF RouteOutcome, Answered, SuccessOutcome, Statuses, Finals

(* What a run asks for is a recipe of the registry. *)
LEMMA ProposalType ==
  ASSUME NEW s, s.intent \in Intents, s.directed \in Directed \cup {"NONE"}
  PROVE  Proposal(s) \in Recipes
BY DEF Proposal, Recipes

-----------------------------------------------------------------------------
(* A run starts sound. *)
LEMMA RunStarts == Init => RunInv
<1> SUFFICES ASSUME Init PROVE RunInv
  OBVIOUS
<1>1. node = "start" /\ killed \in BOOLEAN
  BY DEF Init
<1>2. PICK i \in Intents, explain \in BOOLEAN, llm \in BOOLEAN, d \in Directed \cup {"NONE"} :
        /\ d # "NONE" => i = "MANUAL_ORDER_INTAKE"
        /\ \E f \in Facts(IF d = "NONE" THEN ProposeRecipe[i] ELSE d) :
             state = [intent |-> i, directed |-> d, explain |-> explain,
                      llm_shadow |-> llm, facts |-> f, final_status |-> "NONE",
                      recipe |-> "NONE", evidence |-> "NONE", invocation |-> FALSE,
                      verdict |-> "NONE", outcome |-> "NONE", action |-> "NONE",
                      effect |-> "NONE", explanation |-> "NONE", halted |-> FALSE]
  BY DEF Init
<1>3. state.intent = i /\ state.directed = d /\ state.facts \in Facts(Proposal(state))
  BY <1>2 DEF Proposal
<1>4. Proposal(state) \in Recipes
  BY <1>2, <1>3, ProposalType
<1>5. state \in GraphStates
  BY <1>2, <1>3, <1>4 DEF GraphStates, Finals, Recipes, Verdicts
<1>6. Sound("start", state)
  BY <1>2, <1>3 DEF Sound, Posed, BeforeAudit, Judged, AfterAudit, Closing
<1> QED BY <1>1, <1>5, <1>6 DEF RunInv, TypeOK, Nodes

(* A node before the audit that passes the run on as it is, or stops it.   *)
LEMMA PassOrHalt ==
  ASSUME RunInv, node \in Gating, killed' = killed,
         NEW final \in {"FAIL_TO_HUMAN", "MANUAL_REVIEW_REQUIRED"},
         state' \in {state, Halt(final)},
         \/ node' \in {"ingest", "classify", "load_skill", "validate_circuit_breaker", "select_recipe"}
         \/ node' \in {"build_analysis", "end"} /\ state'.final_status # "NONE"
  PROVE  RunInv'
<1> USE DEF RunInv, Halt
<1>1. state \in GraphStates /\ node' \in Nodes
  BY DEF TypeOK, Nodes
<1>2. state' \in GraphStates
  BY <1>1, ZenonT(40) DEF GraphStates, Finals
<1>3. Proposal(state') = Proposal(state)
  BY <1>1 DEF Proposal, GraphStates
<1>4. Posed(state)'
  BY <1>1, <1>3 DEF GraphStates, Sound, Posed
<1>5. BeforeAudit(node, state)'
  BY <1>1, <1>3 DEF GraphStates, Sound, BeforeAudit, Gating
<1>6. Judged(state)'
  BY <1>1 DEF GraphStates, Sound, BeforeAudit, Judged, Gating
<1>7. AfterAudit(node, state)'
  BY <1>1 DEF GraphStates, Sound, BeforeAudit, Gating, AfterAudit, Closing, PipelineOutcomes
<1> QED BY <1>1, <1>2, <1>4, <1>5, <1>6, <1>7 DEF TypeOK, Sound

(* The gates before a recipe is selected. *)
LEMMA GatesPreserve ==
  ASSUME RunInv, RunGraph \/ Ingest \/ Classify \/ LoadSkill \/ ValidateCircuitBreaker
  PROVE  RunInv'
<1>1. /\ node \in Gating /\ killed' = killed
      /\ \E final \in {"FAIL_TO_HUMAN", "MANUAL_REVIEW_REQUIRED"} : state' \in {state, Halt(final)}
  BY DEF RunGraph, Ingest, Classify, LoadSkill, ValidateCircuitBreaker, Gate, Goto, Gating
<1>2. \/ node' \in {"ingest", "classify", "load_skill", "validate_circuit_breaker", "select_recipe"}
      \/ node' \in {"build_analysis", "end"} /\ state'.final_status # "NONE"
  BY DEF RunGraph, Ingest, Classify, LoadSkill, ValidateCircuitBreaker, Gate, Goto, Halt,
         RunInv, TypeOK, GraphStates
<1> QED BY <1>1, <1>2, PassOrHalt

(* The recipe selected is the proposal's. *)
LEMMA SelectRecipePreserves == ASSUME RunInv, SelectRecipe PROVE RunInv'
<1> DEFINE recipe == IF state.directed # "NONE" THEN state.directed ELSE ProposeRecipe[state.intent]
<1> USE DEF RunInv, SelectRecipe, Goto, Gate
<1>1. recipe = Proposal(state) /\ recipe \in Recipes
  BY ProposalType DEF Proposal, TypeOK, GraphStates
<1>2. PICK e \in {"OUTCOME", state.explanation} :
        state' = [state EXCEPT !.recipe = recipe, !.explanation = e]
  OBVIOUS
<1> HIDE DEF recipe
<1>3. state \in GraphStates /\ node = "select_recipe"
      /\ node' = IF state.final_status = "NONE" THEN "resolve_dependencies" ELSE "build_analysis"
  BY <1>2 DEF TypeOK, GraphStates
<1>4. TypeOK'
  BY <1>1, <1>2, <1>3, ZenonT(40) DEF TypeOK, GraphStates, Nodes
<1>5. Proposal(state') = Proposal(state)
  BY <1>2, <1>3 DEF Proposal, GraphStates
<1>6. Posed(state)'
  BY <1>1, <1>2, <1>3, <1>5 DEF GraphStates, Sound, Posed
<1>7. BeforeAudit(node, state)'
  <2>1. state.invocation => Proposal(state) # "NONE"
    BY <1>3 DEF Sound, Posed, BeforeAudit, Gating
  <2>2. /\ state.verdict = "NONE" /\ state.outcome = "NONE" /\ state.effect = "NONE"
        /\ state.final_status # "NONE" => state.halted
    BY <1>3 DEF Sound, BeforeAudit, Gating
  <2>3. state'.recipe = Proposal(state') /\ (state'.invocation => state'.recipe # "NONE")
    BY <1>1, <1>2, <1>3, <1>5, <2>1 DEF GraphStates
  <2>4. /\ state'.verdict = "NONE" /\ state'.outcome = "NONE" /\ state'.effect = "NONE"
        /\ state'.final_status = state.final_status /\ state'.halted = state.halted
    BY <1>2, <1>3, <2>2 DEF GraphStates
  <2> QED BY <1>3, <2>2, <2>3, <2>4 DEF Sound, BeforeAudit, Gating
<1>8. Judged(state)'
  BY <1>2, <1>3 DEF GraphStates, Sound, BeforeAudit, Judged, Gating
<1>9. AfterAudit(node, state)'
  BY <1>2, <1>3
  DEF GraphStates, Sound, BeforeAudit, Gating, AfterAudit, Closing, PipelineOutcomes
<1> QED BY <1>4, <1>6, <1>7, <1>8, <1>9 DEF Sound

(* What is fetched is evidence, unless it cannot be fetched. *)
LEMMA ResolveDependenciesPreserves == ASSUME RunInv, ResolveDependencies PROVE RunInv'
<1> USE DEF RunInv, ResolveDependencies
<1>1. state \in GraphStates /\ node = "resolve_dependencies" /\ state.final_status = "NONE"
  BY DEF TypeOK, Sound, BeforeAudit
<1>2. CASE state' = Halt("FAIL_TO_HUMAN") /\ node' = "build_analysis" /\ killed' = killed
  <2>1. state'.final_status # "NONE"
    BY <1>1, <1>2 DEF Halt, GraphStates
  <2> QED BY <1>1, <1>2, <2>1, PassOrHalt DEF Gating
<1>3. ASSUME NEW e \in {"PARTIAL", "FULL"}, state' = [state EXCEPT !.evidence = e],
             node' = "validate_types", killed' = killed
      PROVE  RunInv'
  <2>1. state' \in GraphStates /\ Proposal(state') = Proposal(state)
    BY <1>1, <1>3 DEF GraphStates, Proposal
  <2>2. Posed(state)' /\ Judged(state)'
    BY <1>1, <1>3, <2>1 DEF GraphStates, Sound, Posed, BeforeAudit, Judged, Gating
  <2>3. BeforeAudit(node, state)'
    BY <1>1, <1>3, <2>1 DEF GraphStates, Sound, BeforeAudit, Gating
  <2>4. AfterAudit(node, state)'
    BY <1>1, <1>3 DEF GraphStates, Sound, BeforeAudit, Gating, AfterAudit, Closing
  <2> QED BY <1>3, <2>1, <2>2, <2>3, <2>4 DEF TypeOK, Nodes, Sound
<1>4. ASSUME NEW e \in {"PARTIAL", "FULL"}, Gate("validate_types", [state EXCEPT !.evidence = e])
      PROVE  RunInv'
  <2>1. [state EXCEPT !.evidence = e].final_status = "NONE"
    BY <1>1 DEF GraphStates
  <2> QED BY <1>3, <1>4, <2>1 DEF Gate, Goto
<1>5. CASE Gate("validate_types", Halt("FAIL_TO_HUMAN"))
  <2>1. Halt("FAIL_TO_HUMAN").final_status = "FAIL_TO_HUMAN"
    BY <1>1 DEF Halt, GraphStates
  <2> QED BY <1>2, <1>5, <2>1 DEF Gate, Goto
<1>6. \/ \E e \in {"PARTIAL", "FULL"} : Gate("validate_types", [state EXCEPT !.evidence = e])
      \/ Gate("validate_types", Halt("FAIL_TO_HUMAN"))
  OBVIOUS
<1> QED BY <1>4, <1>5, <1>6

(* The price hold may refuse its proposal; any other is materialised. *)
LEMMA ValidateTypesPreserves == ASSUME RunInv, ValidateTypes PROVE RunInv'
<1> USE DEF RunInv, ValidateTypes
<1>1. state \in GraphStates /\ node = "validate_types" /\ state.final_status = "NONE"
  BY DEF TypeOK, Sound, BeforeAudit
<1>2. CASE state' = Halt("FAIL_TO_HUMAN") /\ node' = "build_analysis" /\ killed' = killed
  <2>1. state'.final_status # "NONE"
    BY <1>1, <1>2 DEF Halt, GraphStates
  <2> QED BY <1>1, <1>2, <2>1, PassOrHalt DEF Gating
<1>3. CASE /\ state' = [state EXCEPT !.invocation = state.recipe # "NONE"]
           /\ node' = "shadow_audit" /\ killed' = killed
  <2>1. state' \in GraphStates /\ Proposal(state') = Proposal(state)
    BY <1>1, <1>3 DEF GraphStates, Proposal
  <2>2. Posed(state)' /\ Judged(state)'
    BY <1>1, <1>3, <2>1 DEF GraphStates, Sound, Posed, BeforeAudit, Judged, Gating
  <2>3. BeforeAudit(node, state)'
    BY <1>1, <1>3, <2>1 DEF GraphStates, Sound, BeforeAudit, Gating
  <2>4. AfterAudit(node, state)'
    BY <1>1, <1>3 DEF GraphStates, Sound, BeforeAudit, Gating, AfterAudit, Closing
  <2> QED BY <1>3, <2>1, <2>2, <2>3, <2>4 DEF TypeOK, Nodes, Sound
<1> QED BY <1>1, <1>2, <1>3 DEF Gate, Goto, Halt, GraphStates

(* The audit lets GREEN pass and closes the run on anything else. *)
LEMMA ShadowAuditPreserves == ASSUME RunInv, ShadowAudit PROVE RunInv'
<1> DEFINE rules == ShadowDecision(state.intent, state.facts)
<1> USE DEF RunInv
<1>1. state \in GraphStates /\ node = "shadow_audit"
  BY DEF TypeOK, ShadowAudit
<1>2. /\ state.recipe = Proposal(state) /\ state.final_status = "NONE" /\ state.evidence # "NONE"
      /\ state.outcome = "NONE" /\ state.effect = "NONE" /\ ~state.halted
      /\ ~state.invocation \/ state.recipe # "NONE"
  BY <1>1 DEF Sound, BeforeAudit, Gating
<1>3. PICK verdict \in Verdicts \ {"NONE"} :
        /\ state' = [state EXCEPT !.verdict = verdict,
                                  !.final_status = CASE verdict = "RED"    -> "BLOCKED"
                                                     [] verdict = "YELLOW" -> "MANUAL_REVIEW_REQUIRED"
                                                     [] verdict = "GREEN"  -> @]
        /\ node' = IF state'.final_status = "NONE" THEN AfterShadow ELSE "build_analysis"
        /\ ~state.llm_shadow => verdict = rules \/ (rules = "GREEN" /\ verdict = "YELLOW")
        /\ killed' = killed
  <2>1. rules \in Verdicts \ {"NONE"}
    BY <1>1, ShadowType DEF GraphStates
  <2> HIDE DEF rules
  <2>2. PICK l1 \in IF state.llm_shadow THEN Verdicts \ {"NONE"} ELSE {rules} :
          \E verdict \in {l1} \cup (IF l1 = "GREEN" THEN {"YELLOW"} ELSE {}) :
            Gate(AfterShadow,
              [state EXCEPT !.verdict = verdict,
                            !.final_status = CASE verdict = "RED"    -> "BLOCKED"
                                               [] verdict = "YELLOW" -> "MANUAL_REVIEW_REQUIRED"
                                               [] verdict = "GREEN"  -> @])
    BY DEF ShadowAudit, rules
  <2>3. PICK verdict \in {l1} \cup (IF l1 = "GREEN" THEN {"YELLOW"} ELSE {}) :
          Gate(AfterShadow,
            [state EXCEPT !.verdict = verdict,
                          !.final_status = CASE verdict = "RED"    -> "BLOCKED"
                                             [] verdict = "YELLOW" -> "MANUAL_REVIEW_REQUIRED"
                                             [] verdict = "GREEN"  -> @])
    BY <2>2
  <2>4. verdict \in Verdicts \ {"NONE"}
    BY <2>1, <2>2, <2>3 DEF Verdicts
  <2> QED BY <2>2, <2>3, <2>4 DEF Gate, Goto
<1>4. verdict \in {"RED", "YELLOW", "GREEN"}
  BY <1>3 DEF Verdicts
<1>5. PICK final : /\ state' = [state EXCEPT !.verdict = verdict, !.final_status = final]
                   /\ final = IF verdict = "RED" THEN "BLOCKED"
                              ELSE IF verdict = "YELLOW" THEN "MANUAL_REVIEW_REQUIRED" ELSE "NONE"
  BY <1>2, <1>3, <1>4
<1>6. state' \in GraphStates /\ Proposal(state') = Proposal(state)
  <2>1. final \in Finals \cup {"NONE"} /\ verdict \in Verdicts
    BY <1>4, <1>5 DEF Finals, Verdicts
  <2>2. state' = [state EXCEPT !.verdict = verdict, !.final_status = final]
    BY <1>5
  <2> QED BY <1>1, <2>1, <2>2 DEF GraphStates, Proposal
<1>7. node' = IF verdict = "GREEN" THEN AfterShadow ELSE "build_analysis"
  BY <1>1, <1>3, <1>4, <1>5 DEF GraphStates
<1>8. Posed(state)'
  BY <1>1, <1>5, <1>6 DEF GraphStates, Sound, Posed
<1>9. BeforeAudit(node, state)'
  <2>1. ~state'.halted
    BY <1>1, <1>2, <1>5 DEF GraphStates
  <2>2. node' \in {"explain_only", "execute_recipe", "build_analysis"}
    BY <1>7 DEF AfterShadow
  <2> QED BY <2>1, <2>2 DEF BeforeAudit, Gating
<1>10. Judged(state)'
  BY <1>1, <1>2, <1>3, <1>5, <1>6, ZenonT(40) DEF GraphStates, Judged
<1>11. AfterAudit(node, state)'
  <2>1. /\ state'.verdict = verdict /\ state'.outcome = "NONE" /\ state'.effect = "NONE"
        /\ state'.explain = state.explain /\ state'.invocation = state.invocation
        /\ state'.recipe = state.recipe
        /\ state'.final_status = IF verdict = "RED" THEN "BLOCKED"
                                 ELSE IF verdict = "YELLOW" THEN "MANUAL_REVIEW_REQUIRED" ELSE "NONE"
    BY <1>1, <1>2, <1>5 DEF GraphStates
  <2>2. CASE verdict = "GREEN"
    BY <1>1, <1>2, <1>7, <2>1, <2>2 DEF GraphStates, AfterAudit, Closing, AfterShadow
  <2>3. CASE verdict # "GREEN"
    BY <1>2, <1>4, <1>7, <2>1, <2>3 DEF AfterAudit, Closing, PipelineOutcomes
  <2> QED BY <2>2, <2>3
<1> QED BY <1>3, <1>6, <1>7, <1>8, <1>9, <1>10, <1>11 DEF TypeOK, Nodes, AfterShadow, Sound

(* Explaining runs nothing. *)
LEMMA ExplainOnlyPreserves == ASSUME RunInv, ExplainOnly PROVE RunInv'
<1> USE DEF RunInv, ExplainOnly, Goto
<1>1. state \in GraphStates /\ node = "explain_only" /\ node' = "build_analysis"
  BY DEF TypeOK
<1>2. state' \in GraphStates /\ Proposal(state') = Proposal(state)
  BY <1>1 DEF GraphStates, Finals, Proposal
<1>3. /\ state.verdict = "GREEN" /\ state.outcome = "NONE" /\ state.effect = "NONE"
      /\ ~state.halted
  BY <1>1 DEF Sound, AfterAudit, Judged
<1>4. Posed(state)' /\ Judged(state)'
  BY <1>1, <1>2 DEF GraphStates, Sound, Posed, Judged
<1>5. /\ state'.verdict = "GREEN" /\ state'.outcome = "NONE" /\ state'.effect = "NONE"
      /\ ~state'.halted /\ state'.final_status = "MANUAL_REVIEW_REQUIRED"
  BY <1>1, <1>3 DEF GraphStates
<1>6. BeforeAudit(node, state)'
  BY <1>1, <1>5 DEF BeforeAudit, Gating
<1>7. AfterAudit(node, state)'
  BY <1>1, <1>5 DEF AfterAudit, Closing, PipelineOutcomes, Finals
<1> QED BY <1>1, <1>2, <1>4, <1>6, <1>7 DEF TypeOK, Nodes, Sound

(* The routes of a decision are outcomes of a GREEN run. *)
LEMMA ExecuteRecipePreserves == ASSUME RunInv, ExecuteRecipe PROVE RunInv'
<1> USE DEF RunInv, Goto
<1>1. /\ state \in GraphStates /\ node = "execute_recipe"
      /\ node' = "apply_effects" /\ killed' = killed
  BY DEF TypeOK, ExecuteRecipe
<1>2. /\ state.verdict = "GREEN" /\ state.outcome = "NONE" /\ state.effect = "NONE" /\ ~state.explain
      /\ ~state.invocation \/ state.recipe # "NONE"
      /\ state.recipe = Proposal(state) /\ ~state.halted
  BY <1>1 DEF Sound, AfterAudit, Judged
<1>3. ASSUME NEW result \in Answered, state.recipe # "NONE",
             result.status = "ERROR" \/ result = Decide(state.recipe, state.facts),
             state' = Ran(result)
      PROVE  RunInv'
  <2> DEFINE final == RouteOutcome(state.recipe, result)
  <2>1. final \in Finals \ {"AUDIT_CONTEXT_MISSING"}
        /\ (result.status = "ERROR" => final = "FAIL_TO_HUMAN")
    BY <1>3, RouteType
  <2>2. state' = [state EXCEPT !.outcome = result.status, !.action = result.action,
                              !.explanation = "OUTCOME", !.final_status = final]
    BY <1>3 DEF Ran
  <2> HIDE DEF final
  <2>3. result.status # "NONE" /\ result.status \in Statuses \cup {"ERROR"}
        /\ result.action \in ResolutionActions \cup {"NONE"}
    BY <1>3 DEF Answered, Statuses
  <2>4. state' \in GraphStates /\ Proposal(state') = Proposal(state)
    BY <1>1, <2>1, <2>2, <2>3 DEF GraphStates, Proposal
  <2>5. Posed(state)' /\ Judged(state)'
    BY <1>1, <2>2, <2>4 DEF GraphStates, Sound, Posed, Judged
  <2>6. BeforeAudit(node, state)'
    BY <1>1, <1>2, <2>2 DEF GraphStates, BeforeAudit, Gating
  <2>7. HasRun(state)'
    <3>1. /\ state'.verdict = "GREEN" /\ ~state'.explain /\ state'.recipe = state.recipe
          /\ state'.facts = state.facts /\ state'.outcome = result.status
          /\ state'.final_status = final
      BY <1>1, <1>2, <2>2 DEF GraphStates
    <3> QED BY <1>3, <2>1, <3>1 DEF HasRun, final
  <2>8. AfterAudit(node, state)'
    BY <1>1, <1>2, <2>1, <2>2, <2>3, <2>7 DEF GraphStates, AfterAudit, Closing, PipelineOutcomes
  <2> QED BY <1>1, <2>4, <2>5, <2>6, <2>7, <2>8 DEF TypeOK, Nodes, Sound
<1>4. CASE ~state.invocation
  <2>1. state' = [state EXCEPT !.final_status = "FAIL_TO_HUMAN", !.explanation = "OUTCOME"]
    BY <1>4 DEF ExecuteRecipe
  <2>2. state' \in GraphStates /\ Proposal(state') = Proposal(state)
    BY <1>1, <2>1 DEF GraphStates, Finals, Proposal
  <2>3. Posed(state)' /\ Judged(state)'
    BY <1>1, <2>1, <2>2 DEF GraphStates, Sound, Posed, Judged
  <2>4. /\ state'.verdict = "GREEN" /\ state'.outcome = "NONE" /\ state'.effect = "NONE"
        /\ ~state'.halted /\ ~state'.explain /\ state'.final_status = "FAIL_TO_HUMAN"
    BY <1>1, <1>2, <2>1 DEF GraphStates
  <2>5. BeforeAudit(node, state)' /\ AfterAudit(node, state)'
    BY <1>1, <2>4 DEF BeforeAudit, Gating, AfterAudit, Closing, PipelineOutcomes, Finals
  <2> QED BY <1>1, <2>2, <2>3, <2>5 DEF TypeOK, Nodes, Sound
<1>5. CASE state.invocation
  <2>1. PICK result \in {Plain("ERROR"), Decide(state.recipe, state.facts)} : state' = Ran(result)
    BY <1>5 DEF ExecuteRecipe
  <2>2. Plain("ERROR") \in Answered /\ Plain("ERROR").status = "ERROR"
    BY PlainType DEF Plain
  <2>3. Decide(state.recipe, state.facts) \in Answered
    BY <1>1, <1>2, <1>5, DecideType DEF GraphStates
  <2> QED BY <1>2, <1>3, <1>5, <2>1, <2>2, <2>3
<1> QED BY <1>4, <1>5

(* An effect changes neither outcome nor status. *)
LEMMA ApplyEffectsPreserves == ASSUME RunInv, ApplyEffects PROVE RunInv'
<1> USE DEF RunInv, Goto
<1>1. /\ state \in GraphStates /\ node = "apply_effects"
      /\ node' = "build_analysis" /\ killed' = killed
  BY DEF TypeOK, ApplyEffects
<1>2. PICK effect \in {"NONE", "SUCCESS", "FAILED"},
           explanation \in {state.explanation, "RECIPE_COMPLETED_EFFECT_FAILED"} :
        /\ state' = [state EXCEPT !.effect = effect, !.explanation = explanation]
        /\ effect # "NONE" => state.outcome # "NONE" /\ state.outcome \in FiresOn(state.recipe)
  <2>1. state = [state EXCEPT !.effect = "NONE", !.explanation = state.explanation]
    BY <1>1 DEF Sound, AfterAudit, GraphStates
  <2>2. CASE state' = state
    BY <2>1, <2>2
  <2>3. CASE /\ state.outcome # "NONE" /\ state.outcome \in FiresOn(state.recipe)
             /\ state' = [state EXCEPT !.effect = "SUCCESS"]
    <3>1. state' = [state EXCEPT !.effect = "SUCCESS", !.explanation = state.explanation]
      BY <1>1, <2>3 DEF GraphStates
    <3> QED BY <2>3, <3>1
  <2>4. CASE /\ state.outcome # "NONE" /\ state.outcome \in FiresOn(state.recipe)
             /\ state' = [state EXCEPT !.effect = "FAILED",
                                       !.explanation = "RECIPE_COMPLETED_EFFECT_FAILED"]
    BY <2>4
  <2> QED BY <2>2, <2>3, <2>4 DEF ApplyEffects
<1>3. state' \in GraphStates /\ Proposal(state') = Proposal(state)
  BY <1>1, <1>2 DEF GraphStates, Proposal
<1>4. /\ state'.verdict = state.verdict /\ state'.outcome = state.outcome /\ state'.facts = state.facts
      /\ state'.recipe = state.recipe /\ state'.explain = state.explain /\ state'.halted = state.halted
      /\ state'.final_status = state.final_status /\ state'.effect = effect
  BY <1>1, <1>2 DEF GraphStates
<1>5. Posed(state)' /\ Judged(state)'
  BY <1>1, <1>2, <1>3 DEF GraphStates, Sound, Posed, Judged
<1>6. BeforeAudit(node, state)'
  BY <1>1, <1>4 DEF Sound, Judged, BeforeAudit, AfterAudit, Gating
<1>7. AfterAudit(node, state)'
  BY <1>1, <1>2, <1>4 DEF Sound, AfterAudit, HasRun, Closing
<1> QED BY <1>1, <1>3, <1>5, <1>6, <1>7 DEF TypeOK, Nodes, Sound

(* The audit's context may be missing at the end of any run. *)
LEMMA BuildAnalysisPreserves == ASSUME RunInv, BuildAnalysis PROVE RunInv'
<1> USE DEF RunInv, Goto
<1>1. /\ state \in GraphStates /\ node = "build_analysis"
      /\ node' = "end" /\ killed' = killed
  BY DEF TypeOK, BuildAnalysis
<1>2. PICK final \in {state.final_status, "AUDIT_CONTEXT_MISSING"} :
        state' = [state EXCEPT !.final_status = final]
        /\ (final # state.final_status => state.final_status # "FAIL_TO_HUMAN")
  BY <1>1 DEF BuildAnalysis, GraphStates
<1>3. state' \in GraphStates /\ Proposal(state') = Proposal(state)
  BY <1>1, <1>2 DEF GraphStates, Finals, Proposal
<1>4. /\ state'.verdict = state.verdict /\ state'.outcome = state.outcome /\ state'.facts = state.facts
      /\ state'.recipe = state.recipe /\ state'.explain = state.explain /\ state'.halted = state.halted
      /\ state'.final_status = final /\ state'.effect = state.effect
  BY <1>1, <1>2 DEF GraphStates
<1>5. Posed(state)' /\ Judged(state)'
  BY <1>1, <1>2, <1>3 DEF GraphStates, Sound, Posed, Judged
<1>6. BeforeAudit(node, state)'
  BY <1>1, <1>2, <1>4 DEF Sound, BeforeAudit, Gating
<1>7. AfterAudit(node, state)'
  <2>1. [verdict |-> state.verdict, final |-> final] \in PipelineOutcomes
    BY <1>1, <1>2 DEF Sound, AfterAudit, Closing, PipelineOutcomes, Finals
  <2>2. state.outcome # "NONE" => HasRun(state)'
    BY <1>1, <1>2, <1>4 DEF Sound, AfterAudit, HasRun
  <2> QED BY <1>1, <1>2, <1>4, <2>1, <2>2 DEF Sound, AfterAudit, Closing
<1> QED BY <1>1, <1>3, <1>5, <1>6, <1>7 DEF TypeOK, Nodes, Sound

(* Every step of a run, of any node, keeps it sound. *)
LEMMA NextPreserves == RunInv /\ [Next]_vars => RunInv'
<1> SUFFICES ASSUME RunInv, [Next]_vars PROVE RunInv'
  OBVIOUS
<1>1. CASE FlipKillSwitch
  BY <1>1 DEF FlipKillSwitch, RunInv, TypeOK
<1>2. CASE RunGraph \/ Ingest \/ Classify \/ LoadSkill \/ ValidateCircuitBreaker
  BY <1>2, GatesPreserve
<1>3. CASE SelectRecipe
  BY <1>3, SelectRecipePreserves
<1>4. CASE ResolveDependencies
  BY <1>4, ResolveDependenciesPreserves
<1>5. CASE ValidateTypes
  BY <1>5, ValidateTypesPreserves
<1>6. CASE ShadowAudit
  BY <1>6, ShadowAuditPreserves
<1>7. CASE ExplainOnly
  BY <1>7, ExplainOnlyPreserves
<1>8. CASE ExecuteRecipe
  BY <1>8, ExecuteRecipePreserves
<1>9. CASE ApplyEffects
  BY <1>9, ApplyEffectsPreserves
<1>10. CASE BuildAnalysis
  BY <1>10, BuildAnalysisPreserves
<1>11. CASE UNCHANGED vars
  BY <1>11 DEF vars, RunInv, TypeOK
<1> QED
  BY <1>1, <1>2, <1>3, <1>4, <1>5, <1>6, <1>7, <1>8, <1>9, <1>10, <1>11 DEF Next

-----------------------------------------------------------------------------
(* What soundness says of a run. *)

(* A finished run leaves an outcome the record life cycle knows. *)
LEMMA EndsCovered == RunInv => OutcomesCovered
BY DEF RunInv, Sound, AfterAudit, Closing, OutcomesCovered

(* No gate is walked around. *)
LEMMA GatesAreHeld == RunInv => GatesHold
<1> SUFFICES ASSUME RunInv PROVE GatesHold
  OBVIOUS
<1>1. TypeOK /\ HaltIsFinal
  BY DEF RunInv, Sound, BeforeAudit, HaltIsFinal
<1>2. state.outcome # "NONE" \/ state.effect # "NONE" => state.verdict = "GREEN" /\ ~state.explain
  BY DEF RunInv, Sound, AfterAudit, HasRun
<1>3. state.verdict # "NONE" => state.evidence # "NONE"
  BY DEF RunInv, Sound, Judged
<1> QED BY <1>1, <1>2, <1>3 DEF GatesHold, ShadowGatesExecution

(* What the recipe would reject or escalate, the rules judge RED: the two  *)
(* read the same thresholds in different words.                            *)
LEMMA SevereRules ==
  ASSUME NEW intent \in {"PRICE_HOLD_RELEASE", "EDI_MISMATCH", "BACK_ORDER", "OVER_MAX", "MIN_ORDER_QTY"},
         NEW f \in Facts(ProposeRecipe[intent]),
         Decide(ProposeRecipe[intent], f).status \in {"REJECTED", "ESCALATE"}
  PROVE  ShadowDecision(intent, f) = "RED"
<1>1. CASE intent = "PRICE_HOLD_RELEASE"
  <2>1. Decide(ProposeRecipe[intent], f) = PriceHoldRelease(f)
    BY <1>1 DEF ProposeRecipe, Decide
  <2>2. Exceeds(Deviation(f), f.base, PRICE_HOLD_HARD_BLOCK_PCT)
    BY <2>1 DEF PriceHoldRelease, Plain
  <2> QED BY <1>1, <2>2 DEF ShadowDecision, ShadowForPriceHold
<1>2. CASE intent = "EDI_MISMATCH"
  <2>1. Decide(ProposeRecipe[intent], f) = EdiMismatch(f)
    BY <1>2 DEF ProposeRecipe, Decide
  <2>2. f.sub_type \notin {"SHIP_TO_MISMATCH", "QTY_MISMATCH", "UOM_MISMATCH"}
    BY <2>1 DEF EdiMismatch, Advice, Plain
  <2> QED BY <1>2, <2>2 DEF ShadowDecision, ShadowForEdiMismatch
<1>3. CASE intent = "BACK_ORDER"
  <2>1. f \in [ordered : Quantities, available : Quantities]
    BY <1>3 DEF ProposeRecipe, Facts
  <2>2. f.ordered \in Int /\ f.available \in Int
    BY <2>1, RecipesAssumption DEF RecipesAssumption
  <2>3. Decide(ProposeRecipe[intent], f) = BackOrderResolution(f)
    BY <1>3 DEF ProposeRecipe, Decide
  <2>4. /\ f.ordered > 0 /\ f.ordered - f.available > 0
        /\ Reaches(f.ordered - f.available, f.ordered, BACK_ORDER_SEVERE_GAP_PCT)
    BY <2>2, <2>3 DEF BackOrderResolution, Plain
  <2>5. f.ordered >= f.available
    BY <2>2, <2>4
  <2> QED BY <1>3, <2>4, <2>5 DEF ShadowDecision, ShadowForBackOrder
<1>4. CASE intent = "OVER_MAX"
  <2>1. f \in [total : Quantities, max : Quantities]
    BY <1>4 DEF ProposeRecipe, Facts
  <2>2. f.total \in Int /\ f.max \in Int
    BY <2>1, RecipesAssumption DEF RecipesAssumption
  <2>3. Decide(ProposeRecipe[intent], f) = OverMaxTrim(f)
    BY <1>4 DEF ProposeRecipe, Decide
  <2>4. /\ f.max > 0 /\ f.total - f.max > 0
        /\ Exceeds(f.total - f.max, f.max, OVER_MAX_SEVERE_EXCEEDANCE_PCT)
    BY <2>2, <2>3 DEF OverMaxTrim, Plain
  <2>5. f.total >= f.max
    BY <2>2, <2>4
  <2> QED BY <1>4, <2>4, <2>5 DEF ShadowDecision, ShadowForOverMax
<1>5. CASE intent = "MIN_ORDER_QTY"
  <2>1. Decide(ProposeRecipe[intent], f) = MOQRoundUp(f)
    BY <1>5 DEF ProposeRecipe, Decide
  <2>2. /\ ~(f.moq <= 0) /\ ~(f.ordered >= f.moq)
        /\ Reaches(f.moq - f.ordered, f.moq, MOQ_SEVERE_SHORTFALL_PCT)
    BY <2>1 DEF MOQRoundUp, Plain
  <2> QED BY <1>5, <2>2 DEF ShadowDecision, ShadowForMoq
<1> QED BY <1>1, <1>2, <1>3, <1>4, <1>5

(* An event the recipe would reject or escalate is RED to the audit. *)
LEMMA SevereAreRed == RunInv => SevereIsRed
<1> DEFINE mirrored == {"PRICE_HOLD_RELEASE", "EDI_MISMATCH", "BACK_ORDER", "OVER_MAX", "MIN_ORDER_QTY"}
<1> SUFFICES ASSUME RunInv, ~state.llm_shadow, state.verdict # "NONE", state.intent \in mirrored,
                    Decide(state.recipe, state.facts).status \in {"REJECTED", "ESCALATE"}
             PROVE  state.verdict = "RED"
  BY DEF SevereIsRed
<1>1. state.recipe = ProposeRecipe[state.intent] /\ state.facts \in Facts(ProposeRecipe[state.intent])
  BY DEF RunInv, Sound, Posed, Judged, Proposal
<1>2. ShadowDecision(state.intent, state.facts) = "RED"
  BY <1>1, SevereRules
<1> QED BY <1>2 DEF RunInv, Sound, Judged

(* Where execute_recipe's routes lead. *)
LEMMA RoutesOf ==
  ASSUME NEW recipe, NEW result \in Answered
  PROVE  /\ RouteOutcome(recipe, result) = "COMPLETE" =>
              /\ ~result.human /\ recipe # "ManualOrderIntake"
              /\ result.status \notin {"ERROR", "FAILED", "BLOCKED", "REJECTED", "REVIEW_REQUIRED"}
         /\ RouteOutcome(recipe, result) = "REJECTED" => ~result.human /\ result.status = "REJECTED"
BY DEF RouteOutcome, Answered, SuccessOutcome

(* A completed or rejected run was judged GREEN and is its recipe's.       *)
LEMMA DecidedByRecipe ==
  ASSUME RunInv, state.final_status \in {"COMPLETE", "REJECTED"}
  PROVE  LET decision == Decide(state.recipe, state.facts)
         IN  /\ state.verdict = "GREEN" /\ state.recipe = Proposal(state) /\ state.recipe # "NONE"
             /\ decision \in Answered /\ state.outcome = decision.status
             /\ state.final_status = RouteOutcome(state.recipe, decision)
             /\ ~state.llm_shadow => ShadowDecision(state.intent, state.facts) = "GREEN"
<1> DEFINE decision == Decide(state.recipe, state.facts)
<1>1. node \in Closing
  BY DEF RunInv, TypeOK, Nodes, Sound, BeforeAudit, AfterAudit, Gating, Closing
<1>2. state.verdict = "GREEN"
  BY <1>1 DEF RunInv, Sound, AfterAudit, PipelineOutcomes
<1>3. state.outcome # "NONE"
  BY <1>1, <1>2 DEF RunInv, Sound, AfterAudit
<1>4. /\ state.recipe # "NONE" /\ state.outcome = decision.status
      /\ state.final_status = RouteOutcome(state.recipe, decision)
  BY <1>3 DEF RunInv, Sound, AfterAudit, HasRun
<1>5. decision \in Answered
  BY <1>4, DecideType DEF RunInv, TypeOK, GraphStates
<1>6. /\ state.recipe = Proposal(state)
      /\ ~state.llm_shadow => ShadowDecision(state.intent, state.facts) = "GREEN"
  BY <1>2 DEF RunInv, Sound, Judged
<1> QED BY <1>2, <1>4, <1>5, <1>6

(* Free text reaches COMPLETE, or the ERP, in a directed run only. *)
LEMMA IntakeIsGated == RunInv => IntakeIsOperatorGated
<1> SUFFICES ASSUME RunInv PROVE IntakeIsOperatorGated
  OBVIOUS
<1>1. ASSUME state.intent = "MANUAL_ORDER_INTAKE", state.final_status = "COMPLETE", state.directed = "NONE"
      PROVE  FALSE
  <2>1. state.recipe = "ManualOrderIntake"
    BY <1>1, DecidedByRecipe DEF Proposal, ProposeRecipe
  <2> QED BY <1>1, <2>1, DecidedByRecipe, RoutesOf
<1>2. ASSUME state.recipe = "SubmitToErp", state.effect # "NONE"
      PROVE  state.directed = "SubmitToErp" /\ state.outcome = "SUCCESS"
  <2>1. state.outcome # "NONE" /\ state.outcome = "SUCCESS"
    BY <1>2 DEF RunInv, Sound, AfterAudit, FiresOn
  <2>2. state.recipe = Proposal(state)
    BY <2>1 DEF RunInv, Sound, AfterAudit, HasRun, Judged
  <2>3. state.directed = "SubmitToErp"
    BY <1>2, <2>2 DEF Proposal, ProposeRecipe, Intents, RunInv, TypeOK, GraphStates
  <2> QED BY <2>1, <2>3
<1> QED BY <1>1, <1>2 DEF IntakeIsOperatorGated

(* Of an undirected run's recipes, the rules pass to COMPLETE or REJECTED  *)
(* only what the recipe found nothing wrong with.                          *)
LEMMA GreenIsBenign ==
  ASSUME NEW intent \in Intents, NEW f \in Facts(ProposeRecipe[intent]),
         ProposeRecipe[intent] # "NONE", ShadowDecision(intent, f) = "GREEN"
  PROVE  LET recipe   == ProposeRecipe[intent]
             decision == Decide(recipe, f)
         IN  /\ RouteOutcome(recipe, decision) # "REJECTED"
             /\ RouteOutcome(recipe, decision) = "COMPLETE" /\ intent # "DELIVERY_DELAY"
                  => decision.status \in {"SUCCESS", "COMPLETE", "RELEASED", "PASS"}
<1> DEFINE recipe   == ProposeRecipe[intent]
           decision == Decide(recipe, f)
<1>1. decision \in Answered
  BY DecideType DEF Recipes
<1>2. CASE intent \in {"PRICE_HOLD_RELEASE", "MIN_ORDER_QTY"}
  <2>1. decision.status \notin {"REJECTED", "ESCALATE"}
    BY <1>2, SevereRules
  <2>2. decision.status \in {"ERROR", "FAILED", "RELEASED", "REVIEW_REQUIRED", "REJECTED",
                             "COMPLETE", "ESCALATE"}
    BY <1>2 DEF ProposeRecipe, Decide, PriceHoldRelease, MOQRoundUp, Plain
  <2> QED BY <1>1, <2>1, <2>2, RoutesOf
<1>3. CASE intent = "CONTRACTUAL_CORRECTION"
  <2>1. decision.status \in {"ERROR", "FAILED", "SUCCESS"}
    BY <1>3 DEF ProposeRecipe, Decide, PriceAdjustment, Plain
  <2> QED BY <1>1, <2>1, RoutesOf
<1>4. CASE intent = "DUPLICATE_PO"
  <2>1. decision = DuplicatePO(f)
    BY <1>4 DEF ProposeRecipe, Decide
  <2>2. DuplicatePO(f).status = DuplicatePOClass(f)
    BY Zenon DEF DuplicatePO, Advice
  <2> QED BY <1>1, <2>1, <2>2, DuplicatePOType, RoutesOf
<1>5. CASE intent = "MANUAL_ORDER_INTAKE"
  <2>1. recipe = "ManualOrderIntake" /\ decision = ManualOrderIntake(f)
    BY <1>5 DEF ProposeRecipe, Decide
  <2>2. \/ ManualOrderIntake(f) = Advice("REJECTED", "REJECT", "L4")
        \/ ManualOrderIntake(f).status \in {"SUCCESS", "REVIEW_REQUIRED"}
    BY DEF ManualOrderIntake, Advice
  <2>3. Advice("REJECTED", "REJECT", "L4").human
    <3>1. AutonomyRank["L4"] <= 1
      BY DEF AutonomyRank
    <3>2. Advice("REJECTED", "REJECT", "L4").human = (AutonomyRank["L4"] <= 1)
      BY Zenon DEF Advice
    <3> QED BY <3>1, <3>2
  <2> QED BY <1>1, <2>1, <2>2, <2>3, RoutesOf
<1>6. CASE intent = "DELIVERY_DELAY"
  <2>1. decision.status # "REJECTED"
    BY <1>6 DEF ProposeRecipe, Decide, DeliveryDelayResolution, Plain
  <2> QED BY <1>1, <1>6, <2>1, RoutesOf
<1>7. intent \notin {"MASS_PRICING_ERROR", "CREDIT_BLOCK", "PALLET_CONFIG", "EDI_MISMATCH",
                     "BACK_ORDER", "OVER_MAX"}
  BY DEF ShadowDecision, ShadowForEdiMismatch, ShadowForBackOrder, ShadowForOverMax
<1> QED BY <1>2, <1>3, <1>4, <1>5, <1>6, <1>7 DEF Intents, ProposeRecipe

(* What is a person's to decide stays with one. *)
LEMMA HumansAreNeeded == RunInv => NeedsAHuman
<1> SUFFICES ASSUME RunInv PROVE NeedsAHuman
  OBVIOUS
<1>1. ASSUME ~state.llm_shadow, state.directed = "NONE", state.final_status \in {"COMPLETE", "REJECTED"}
      PROVE  /\ state.final_status # "REJECTED"
             /\ state.intent # "DELIVERY_DELAY" => state.outcome \in {"SUCCESS", "COMPLETE", "RELEASED", "PASS"}
  <2>1. state.intent \in Intents /\ state.facts \in Facts(ProposeRecipe[state.intent])
    BY <1>1 DEF RunInv, TypeOK, GraphStates, Sound, Posed, Proposal
  <2>2. /\ state.recipe = ProposeRecipe[state.intent] /\ state.recipe # "NONE"
        /\ state.outcome = Decide(state.recipe, state.facts).status
        /\ state.final_status = RouteOutcome(state.recipe, Decide(state.recipe, state.facts))
        /\ ShadowDecision(state.intent, state.facts) = "GREEN"
    BY <1>1, DecidedByRecipe DEF Proposal
  <2> QED BY <1>1, <2>1, <2>2, GreenIsBenign
<1> QED BY <1>1, IntakeIsGated DEF NeedsAHuman, RejectedIsHumanOnly, OnlyBenignCompletes

-----------------------------------------------------------------------------
(* The workflow around the runs. *)

Passed == [verdict |-> "GREEN", final |-> "COMPLETE"]

(* The inductive invariant of a workflow: while it runs, each of its steps *)
(* so far was completed under its own number, GREEN, and nothing else has  *)
(* fired an effect.                                                        *)
WorkInv ==
  /\ workflow \in [status : {"NONE", "RUNNING", "COMPLETE", "FAILED", "COMPENSATED"},
                   results : Seq(StepResult), completed : Seq(Undo), log : Seq(Undo),
                   fired : SUBSET Steps]
  /\ Len(workflow.results) <= MaxSteps
  /\ Len(workflow.completed) <= MaxSteps
  /\ Len(workflow.log) <= MaxSteps
  /\ workflow.status = "RUNNING" =>
       /\ state.directed = "NONE"
       /\ Len(workflow.results) < MaxSteps
       /\ Len(workflow.completed) = Len(workflow.results)
       /\ \A i \in 1 .. Len(workflow.results) : workflow.results[i] = Passed
       /\ \A i \in 1 .. Len(workflow.results) : workflow.completed[i].step = i
       /\ workflow.fired \subseteq 1 .. Len(workflow.results)
  /\ CompleteMeansEveryStepPassed
  /\ CompensationCoversEffects

WorkflowInv == RunInv /\ WorkInv

(* A sequence within the bound is a bounded sequence. *)
LEMMA BoundedSeqType ==
  ASSUME NEW S, NEW n \in Nat, NEW s \in Seq(S), Len(s) <= n
  PROVE  s \in BoundedSeq(S, n)
<1>1. s \in [1 .. Len(s) -> S] /\ Len(s) \in 0 .. n
  BY LenProperties
<1> QED BY <1>1 DEF BoundedSeq, SeqOf

(* The compensation log is the completed steps, last one first. *)
LEMMA CompensateReverses ==
  ASSUME NEW s \in Seq(Undo)
  PROVE  /\ Compensate(s) \in Seq(Undo) /\ Len(Compensate(s)) = Len(s)
         /\ \A i \in 1 .. Len(s) : Compensate(s)[i] = s[Len(s) - i + 1]
<1>1. Len(s) \in Nat
  BY LenProperties
<1>2. \A i \in 1 .. Len(s) : (Len(s) - i) + 1 \in 1 .. Len(s) /\ s[(Len(s) - i) + 1] \in Undo
  BY <1>1, ElementOfSeq
<1>3. Compensate(s) = [i \in 1 .. Len(s) |-> s[(Len(s) - i) + 1]]
  BY DEF Compensate, Reverse
<1>4. Compensate(s) \in [1 .. Len(s) -> Undo]
  BY <1>2, <1>3
<1> QED BY <1>1, <1>3, <1>4

(* A run keeps the direction it was given. *)
LEMMA DirectionStays == RunInv /\ [Next]_vars => state'.directed = state.directed
<1> SUFFICES ASSUME RunInv, [Next]_vars PROVE state'.directed = state.directed
  OBVIOUS
<1>1. state \in GraphStates
  BY DEF RunInv, TypeOK
<1>2. CASE \/ FlipKillSwitch \/ RunGraph \/ Ingest \/ Classify \/ LoadSkill
           \/ ValidateCircuitBreaker \/ UNCHANGED vars
  BY <1>1, <1>2, ZenonT(40) DEF FlipKillSwitch, RunGraph, Ingest, Classify, LoadSkill, ValidateCircuitBreaker,
                    Halt, Gate, Goto, GraphStates, vars
<1>3. CASE SelectRecipe \/ ResolveDependencies \/ ValidateTypes
  <2>1. CASE SelectRecipe
    <3>1. \E r, e : state' = [state EXCEPT !.recipe = r, !.explanation = e]
      BY <2>1 DEF SelectRecipe, Gate, Goto
    <3> QED BY <1>1, <3>1 DEF GraphStates
  <2>2. CASE ResolveDependencies
    <3>1. state' \in {[state EXCEPT !.evidence = "FULL"], [state EXCEPT !.evidence = "PARTIAL"],
                      Halt("FAIL_TO_HUMAN")}
      BY <2>2 DEF ResolveDependencies, Gate, Goto
    <3> QED BY <1>1, <3>1 DEF Halt, GraphStates
  <2>3. CASE ValidateTypes
    BY <1>1, <2>3 DEF ValidateTypes, Halt, Gate, Goto, GraphStates
  <2> QED BY <1>3, <2>1, <2>2, <2>3
<1>4. CASE ShadowAudit
  BY <1>1, <1>4 DEF ShadowAudit, Gate, Goto, GraphStates
<1>5. CASE ExplainOnly \/ ExecuteRecipe \/ ApplyEffects \/ BuildAnalysis
  BY <1>1, <1>5 DEF ExplainOnly, ExecuteRecipe, ApplyEffects, BuildAnalysis, Ran, Goto, GraphStates
<1> QED BY <1>2, <1>3, <1>4, <1>5 DEF Next

(* A workflow starts with no step taken. *)
LEMMA WorkflowStarts == WorkflowInit => WorkflowInv
<1> SUFFICES ASSUME WorkflowInit PROVE WorkflowInv
  OBVIOUS
<1>1. RunInv
  BY RunStarts DEF WorkflowInit
<1>2. workflow = [status |-> IF state.directed = "NONE" THEN "RUNNING" ELSE "NONE",
                  results |-> <<>>, completed |-> <<>>, log |-> <<>>, fired |-> {}]
  BY DEF WorkflowInit
<1>3. WorkInv
  BY <1>2, WorkflowAssumption, EmptySeq
  DEF WorkInv, WorkflowAssumption, CompleteMeansEveryStepPassed, CompensationCoversEffects
<1> QED BY <1>1, <1>3 DEF WorkflowInv

(* A step of a run, or none, leaves the workflow as it is. *)
LEMMA RunStepPreserves ==
  ASSUME WorkflowInv, RunStep \/ UNCHANGED workflowVars
  PROVE  WorkflowInv'
<1>1. [Next]_vars /\ workflow' = workflow
  BY DEF RunStep, workflowVars, vars
<1>2. RunInv' /\ state'.directed = state.directed
  BY <1>1, NextPreserves, DirectionStays DEF WorkflowInv
<1>3. WorkInv'
  BY <1>1, <1>2 DEF WorkflowInv, WorkInv, CompleteMeansEveryStepPassed, CompensationCoversEffects
<1> QED BY <1>2, <1>3 DEF WorkflowInv

(* What a step leaves in the locals: its result, and its effect if it had  *)
(* one.                                                                    *)
LEMMA ReturnedType ==
  ASSUME WorkflowInv, node = "end", workflow.status = "RUNNING"
  PROVE  LET n == Len(workflow.results)
             r == [verdict |-> state.verdict, final |-> state.final_status]
         IN  /\ n \in Nat /\ n + 1 \in Steps
             /\ Returned = [workflow EXCEPT !.results = Append(workflow.results, r),
                                            !.fired = Returned.fired]
             /\ r \in StepResult
             /\ Append(workflow.results, r) \in Seq(StepResult)
             /\ Len(Append(workflow.results, r)) = n + 1
             /\ \A i \in 1 .. n : Append(workflow.results, r)[i] = Passed
             /\ Append(workflow.results, r)[n + 1] = r
             /\ Returned.results = Append(workflow.results, r)
             /\ Returned.fired \subseteq 1 .. (n + 1) /\ Returned.fired \subseteq Steps
<1> DEFINE n == Len(workflow.results)
           r == [verdict |-> state.verdict, final |-> state.final_status]
<1>1. /\ workflow.results \in Seq(StepResult) /\ n < MaxSteps /\ workflow.fired \subseteq 1 .. n
      /\ \A i \in 1 .. n : workflow.results[i] = Passed
      /\ workflow \in [status : {"NONE", "RUNNING", "COMPLETE", "FAILED", "COMPENSATED"},
                   results : Seq(StepResult), completed : Seq(Undo), log : Seq(Undo),
                   fired : SUBSET Steps]
  BY DEF WorkflowInv, WorkInv
<1>2. n \in Nat /\ n + 1 \in Steps
  BY <1>1, LenProperties, WorkflowAssumption DEF WorkflowAssumption, Steps
<1>3. r \in StepResult
  <2>1. r \in PipelineOutcomes
    BY EndsCovered DEF WorkflowInv, OutcomesCovered
  <2> QED BY <2>1 DEF PipelineOutcomes, StepResult, Verdicts, Finals
<1>4. /\ Append(workflow.results, r) \in Seq(StepResult)
      /\ Len(Append(workflow.results, r)) = n + 1
      /\ \A i \in 1 .. n : Append(workflow.results, r)[i] = workflow.results[i]
      /\ Append(workflow.results, r)[n + 1] = r
  BY <1>1, <1>3, AppendProperties
<1>5. /\ Returned.results = Append(workflow.results, r)
      /\ Returned.fired \subseteq workflow.fired \cup {n + 1}
      /\ Returned = [workflow EXCEPT !.results = Append(workflow.results, r), !.fired = Returned.fired]
  BY <1>1 DEF Returned
<1>6. Returned.fired \subseteq 1 .. (n + 1)
  BY <1>1, <1>2, <1>5
<1>7. Returned.fired \subseteq Steps
  BY <1>1, <1>2, <1>5
<1> QED BY <1>1, <1>2, <1>3, <1>4, <1>5, <1>6, <1>7

(* A completed step starts the next one, or ends the workflow. *)
LEMMA StepCompletesPreserves == ASSUME WorkflowInv, StepCompletes PROVE WorkflowInv'
<1> DEFINE n == Len(workflow.results)
           r == [verdict |-> state.verdict, final |-> state.final_status]
           results == Append(workflow.results, r)
<1>1. /\ node = "end" /\ workflow.status = "RUNNING" /\ state.final_status = "COMPLETE"
      /\ RunInv
  BY DEF StepCompletes, StepDone, WorkflowInv
<1>2. /\ n \in Nat /\ n + 1 \in Steps
      /\ Returned = [workflow EXCEPT !.results = results, !.fired = Returned.fired]
      /\ results \in Seq(StepResult) /\ Len(results) = n + 1
      /\ \A i \in 1 .. n : results[i] = Passed
      /\ results[n + 1] = r
      /\ Returned.results = results
      /\ Returned.fired \subseteq 1 .. (n + 1) /\ Returned.fired \subseteq Steps
  BY <1>1, ReturnedType
<1>3. r = Passed
  BY <1>1, DecidedByRecipe DEF Passed
<1>4. \A i \in 1 .. n + 1 : results[i] = Passed
  BY <1>2, <1>3
<1>5. /\ workflow \in [status : {"NONE", "RUNNING", "COMPLETE", "FAILED", "COMPENSATED"},
                       results : Seq(StepResult), completed : Seq(Undo), log : Seq(Undo),
                       fired : SUBSET Steps]
      /\ Len(workflow.completed) = n /\ state.directed = "NONE" /\ Len(workflow.log) <= MaxSteps
      /\ \A i \in 1 .. n : workflow.completed[i].step = i
  BY <1>1 DEF WorkflowInv, WorkInv
<1> DEFINE done(recipe) ==
      [Returned EXCEPT !.completed = Append(@, [step |-> Len(Returned.results), recipe |-> recipe])]
<1>6. PICK recipe \in BOOLEAN :
        \/ workflow' = [done(recipe) EXCEPT !.status = "COMPLETE"] /\ UNCHANGED vars
        \/ /\ Len(done(recipe).results) < MaxSteps /\ workflow' = done(recipe)
           /\ \E facts \in NextFacts : state' = FreshState(facts)
           /\ node' = "start" /\ killed' = killed
  BY DEF StepCompletes
<1> DEFINE u == [step |-> n + 1, recipe |-> recipe]
           completed == Append(workflow.completed, u)
<1>7. u \in Undo
  BY <1>2 DEF Undo
<1>8. /\ completed \in Seq(Undo) /\ Len(completed) = n + 1
      /\ \A i \in 1 .. n : completed[i] = workflow.completed[i]
      /\ completed[n + 1] = u
  BY <1>5, <1>7, AppendProperties
<1>9. \A i \in 1 .. n + 1 : completed[i].step = i
  BY <1>2, <1>5, <1>8
<1>10. done(recipe)
         = [workflow EXCEPT !.results = results, !.fired = Returned.fired, !.completed = completed]
  BY <1>2, <1>5
<1> HIDE DEF results, completed, r, u, done
<1>11. CASE /\ UNCHANGED vars
            /\ workflow' = [[workflow EXCEPT !.results = results, !.fired = Returned.fired,
                                             !.completed = completed] EXCEPT !.status = "COMPLETE"]
  <2>1. /\ workflow'.status = "COMPLETE" /\ workflow'.results = results /\ workflow'.completed = completed
        /\ workflow'.log = workflow.log /\ workflow'.fired = Returned.fired
        /\ workflow' \in [status : {"NONE", "RUNNING", "COMPLETE", "FAILED", "COMPENSATED"},
                       results : Seq(StepResult), completed : Seq(Undo), log : Seq(Undo),
                       fired : SUBSET Steps]
    BY <1>2, <1>5, <1>8, <1>11
  <2>2. CompleteMeansEveryStepPassed' /\ CompensationCoversEffects'
    BY <1>2, <1>4, <2>1, LenProperties
    DEF CompleteMeansEveryStepPassed, CompensationCoversEffects, Passed
  <2>3. n + 1 <= MaxSteps
    BY <1>2, WorkflowAssumption DEF Steps, WorkflowAssumption
  <2>4. WorkInv'
    BY <1>2, <1>5, <1>8, <2>1, <2>2, <2>3 DEF WorkInv
  <2> QED BY <1>1, <1>11, <2>4 DEF WorkflowInv, RunInv, TypeOK, vars
<1>12. CASE /\ workflow' = [workflow EXCEPT !.results = results, !.fired = Returned.fired,
                                            !.completed = completed]
            /\ n + 1 < MaxSteps
            /\ \E facts \in NextFacts : state' = FreshState(facts)
            /\ node' = "start" /\ killed' = killed
  <2>1. /\ workflow'.status = "RUNNING" /\ workflow'.results = results /\ workflow'.completed = completed
        /\ workflow'.log = workflow.log /\ workflow'.fired = Returned.fired
        /\ workflow' \in [status : {"NONE", "RUNNING", "COMPLETE", "FAILED", "COMPENSATED"},
                       results : Seq(StepResult), completed : Seq(Undo), log : Seq(Undo),
                       fired : SUBSET Steps]
    BY <1>1, <1>2, <1>5, <1>8, <1>12
  <2>2. PICK facts \in Facts(ProposeRecipe[state.intent]) : state' = FreshState(facts)
    BY <1>12 DEF NextFacts
  <2>3. state \in GraphStates
    BY <1>1 DEF RunInv, TypeOK
  <2>4. /\ state'.intent = state.intent /\ state'.directed = "NONE" /\ state'.facts = facts
        /\ state'.recipe = "NONE" /\ state'.final_status = "NONE" /\ state'.verdict = "NONE"
        /\ state'.outcome = "NONE" /\ state'.effect = "NONE" /\ ~state'.invocation /\ ~state'.halted
    BY <1>5, <2>2, <2>3 DEF FreshState, GraphStates
  <2>5. state' \in GraphStates
    <3>1. ProposeRecipe[state.intent] \in Recipes
      BY <2>3 DEF GraphStates, Recipes
    <3>2. "NONE" \in Recipes /\ "NONE" \in Verdicts
      BY DEF Recipes, Verdicts
    <3>3. facts \in UNION {Facts(q) : q \in Recipes}
      BY <3>1
    <3> QED BY <2>2, <2>3, <3>2, <3>3 DEF FreshState, GraphStates
  <2>6. Sound("start", state')
    BY <2>4 DEF Sound, Posed, BeforeAudit, Judged, AfterAudit, Closing, Proposal
  <2>7. RunInv'
    BY <1>1, <1>12, <2>5, <2>6 DEF RunInv, TypeOK, Nodes
  <2>8. CompleteMeansEveryStepPassed' /\ CompensationCoversEffects'
    BY <2>1 DEF CompleteMeansEveryStepPassed, CompensationCoversEffects
  <2>9. WorkInv'
    BY <1>2, <1>4, <1>5, <1>8, <1>9, <1>12, <2>1, <2>4, <2>8, WorkflowAssumption
    DEF WorkInv, WorkflowAssumption
  <2> QED BY <2>7, <2>9 DEF WorkflowInv
<1>13. Len([workflow EXCEPT !.results = results, !.fired = Returned.fired,
                            !.completed = completed].results) = n + 1
  BY <1>2, <1>5
<1> QED BY <1>6, <1>10, <1>11, <1>12, <1>13

(* A step that does not complete stops the workflow, whose report lists    *)
(* all that fired before it.                                               *)
LEMMA StepStopsPreserves == ASSUME WorkflowInv, StepStops PROVE WorkflowInv'
<1> DEFINE n == Len(workflow.results)
           r == [verdict |-> state.verdict, final |-> state.final_status]
           results == Append(workflow.results, r)
           log == Compensate(workflow.completed)
<1>1. node = "end" /\ workflow.status = "RUNNING" /\ UNCHANGED vars
  BY DEF StepStops
<1>2. /\ n \in Nat /\ n + 1 \in Steps
      /\ Returned = [workflow EXCEPT !.results = results, !.fired = Returned.fired]
      /\ results \in Seq(StepResult) /\ Len(results) = n + 1
      /\ Returned.fired \subseteq 1 .. (n + 1) /\ Returned.fired \subseteq Steps
  BY <1>1, ReturnedType
<1>3. /\ workflow \in [status : {"NONE", "RUNNING", "COMPLETE", "FAILED", "COMPENSATED"},
                       results : Seq(StepResult), completed : Seq(Undo), log : Seq(Undo),
                       fired : SUBSET Steps]
      /\ Len(workflow.completed) = n /\ n < MaxSteps
      /\ \A i \in 1 .. n : workflow.completed[i].step = i
  BY <1>1 DEF WorkflowInv, WorkInv
<1>4. /\ log \in Seq(Undo) /\ Len(log) = n
      /\ \A i \in 1 .. n : log[i] = workflow.completed[n - i + 1]
  BY <1>3, CompensateReverses
<1>5. ASSUME NEW i \in 1 .. n PROVE log[i].step = n - i + 1
  <2>1. n - i + 1 \in 1 .. n
    BY <1>2
  <2> QED BY <1>3, <1>4, <2>1
<1>6. PICK status \in {"COMPENSATED", "FAILED"} :
        workflow' = [workflow EXCEPT !.results = results, !.fired = Returned.fired,
                                     !.log = log, !.status = status]
  <2>1. PICK status \in {"COMPENSATED", "FAILED"} :
          workflow' = [Returned EXCEPT !.log = log, !.status = status]
    BY DEF StepStops
  <2> HIDE DEF results, r, log
  <2> QED BY <1>2, <1>3, <2>1
<1> HIDE DEF results, r, log
<1>7. /\ workflow'.status \in {"COMPENSATED", "FAILED"} /\ workflow'.results = results
      /\ workflow'.completed = workflow.completed /\ workflow'.log = log
      /\ workflow'.fired = Returned.fired
      /\ workflow' \in [status : {"NONE", "RUNNING", "COMPLETE", "FAILED", "COMPENSATED"},
                        results : Seq(StepResult), completed : Seq(Undo), log : Seq(Undo),
                        fired : SUBSET Steps]
  BY <1>2, <1>3, <1>4, <1>6
<1>8. CompleteMeansEveryStepPassed'
  BY <1>7 DEF CompleteMeansEveryStepPassed
<1>9. CompensationCoversEffects'
  <2>1. DOMAIN log = 1 .. n
    BY <1>4, LenProperties
  <2>2. ASSUME NEW s \in Returned.fired, s # n + 1
        PROVE  \E i \in DOMAIN log : log[i].step = s
    <3>1. n - s + 1 \in 1 .. n
      BY <1>2, <2>2
    <3>2. log[n - s + 1].step = s
      BY <1>2, <1>5, <2>2, <3>1
    <3> QED BY <2>1, <3>1, <3>2
  <2>3. ASSUME NEW i \in DOMAIN log, NEW j \in DOMAIN log, i < j
        PROVE  log[i].step > log[j].step
    BY <1>2, <1>5, <2>1, <2>3
  <2> QED BY <1>2, <1>7, <2>2, <2>3 DEF CompensationCoversEffects
<1>10. WorkInv'
  BY <1>2, <1>3, <1>4, <1>7, <1>8, <1>9, WorkflowAssumption DEF WorkInv, WorkflowAssumption
<1> QED BY <1>1, <1>10 DEF WorkflowInv, RunInv, TypeOK, vars

(* Every step of a workflow keeps its invariant. *)
LEMMA WorkflowNextPreserves == WorkflowInv /\ [WorkflowNext]_workflowVars => WorkflowInv'
BY RunStepPreserves, StepCompletesPreserves, StepStopsPreserves DEF WorkflowNext

(* What a workflow reports is what its runs did. *)
LEMMA ReportsAreTrue == WorkflowInv => WorkflowReportIsTrue
<1> SUFFICES ASSUME WorkflowInv PROVE WorkflowReportIsTrue
  OBVIOUS
<1>1. /\ workflow \in [status : {"NONE", "RUNNING", "COMPLETE", "FAILED", "COMPENSATED"},
                       results : Seq(StepResult), completed : Seq(Undo), log : Seq(Undo),
                       fired : SUBSET Steps]
      /\ Len(workflow.results) <= MaxSteps
      /\ Len(workflow.completed) <= MaxSteps
      /\ Len(workflow.log) <= MaxSteps
  BY DEF WorkflowInv, WorkInv
<1>2. MaxSteps \in Nat
  BY WorkflowAssumption DEF WorkflowAssumption
<1>3. /\ workflow.results \in BoundedSeq(StepResult, MaxSteps)
      /\ workflow.completed \in BoundedSeq(Undo, MaxSteps)
      /\ workflow.log \in BoundedSeq(Undo, MaxSteps)
  BY <1>1, <1>2, BoundedSeqType
<1>4. WorkflowTypeOK
  BY <1>1, <1>3 DEF WorkflowTypeOK, Workflows
<1> QED BY <1>4 DEF WorkflowInv, WorkInv, WorkflowReportIsTrue

(* The workflow's invariant holds in every reachable state. *)
LEMMA WorkflowIsSound == WorkflowSpec => []WorkflowInv
<1>1. WorkflowInit => WorkflowInv
  BY WorkflowStarts
<1>2. WorkflowInv /\ [WorkflowNext]_workflowVars => WorkflowInv'
  BY WorkflowNextPreserves
<1> QED BY <1>1, <1>2, PTL DEF WorkflowSpec

-----------------------------------------------------------------------------
(* Whatever nodes wrote last, a finished run leaves one of the outcomes    *)
(* the record life cycle is built for: a RED never ends COMPLETE.          *)
THEOREM OutcomesAreCovered == WorkflowSpec => []OutcomesCovered
<1>1. WorkflowInv => OutcomesCovered
  BY EndsCovered DEF WorkflowInv
<1> QED BY <1>1, WorkflowIsSound, PTL

(* No gate can be walked around: neither the shadow's, before recipes and  *)
(* effects, nor any other that said stop; types are kept on the way.       *)
THEOREM GatesAlwaysHold == WorkflowSpec => []GatesHold
<1>1. WorkflowInv => GatesHold
  BY GatesAreHeld DEF WorkflowInv
<1> QED BY <1>1, WorkflowIsSound, PTL

(* Whatever the thresholds of the policy: free text reaches the ERP only   *)
(* by an operator, no undirected run rejects, and what completes is what   *)
(* the recipe found nothing wrong with.                                    *)
THEOREM HumansDecide == WorkflowSpec => []NeedsAHuman
<1>1. WorkflowInv => NeedsAHuman
  BY HumansAreNeeded DEF WorkflowInv
<1> QED BY <1>1, WorkflowIsSound, PTL

(* Whatever the thresholds, the audit's rules judge RED what the recipe    *)
(* would reject or escalate.                                               *)
THEOREM SevereIsAlwaysRed == WorkflowSpec => []SevereIsRed
<1>1. WorkflowInv => SevereIsRed
  BY SevereAreRed DEF WorkflowInv
<1> QED BY <1>1, WorkflowIsSound, PTL

(* Workflows of any length: COMPLETE means every step's run was GREEN, and *)
(* the compensation log of a stopped one lists every effect that took      *)
(* place before the step that stopped it, newest first.                    *)
THEOREM ReportIsAlwaysTrue == WorkflowSpec => []WorkflowReportIsTrue
<1>1. WorkflowInv => WorkflowReportIsTrue
  BY ReportsAreTrue
<1> QED BY <1>1, WorkflowIsSound, PTL
===============================================================================
