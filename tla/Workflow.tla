------------------------------- MODULE Workflow -------------------------------
(***************************************************************************)
(* POST /workflows: the WorkflowRunner of workflows/runner.py over the     *)
(* graph of module Pipeline, one full run per step.                        *)
(*                                                                         *)
(* The route hands every step the same OrderEvent object, so what an       *)
(* earlier step's input_mapping put into its metadata is still there, and  *)
(* the graph classifies that one event each time: the intent a step        *)
(* declares is not read.  The branch for a missing event is therefore      *)
(* unreachable and left out.  A run that is no workflow step (a resolve)   *)
(* is a workflow of one step; a directed re-entry is none.                 *)
(***************************************************************************)
EXTENDS Pipeline, SequencesExt

CONSTANT MaxSteps       \* bound on len(definition.steps)
ASSUME WorkflowAssumption == MaxSteps \in Nat \ {0}

VARIABLE workflow       \* the locals of WorkflowRunner.run

workflowVars == <<vars, workflow>>

Steps      == 1 .. MaxSteps
Undo       == [step : Steps, recipe : BOOLEAN]   \* recipe: compensation_recipe is declared
StepResult == [verdict : Verdicts, final : Finals]
Workflows  ==
  [status : {"NONE", "RUNNING", "COMPLETE", "FAILED", "COMPENSATED"},
   results : BoundedSeq(StepResult, MaxSteps),    \* step_results
   completed : BoundedSeq(Undo, MaxSteps),
   log : BoundedSeq(Undo, MaxSteps),              \* compensation_log
   fired : SUBSET Steps]                          \* history: steps whose effect took place

(* _compensate lists the completed steps, last one first, and runs nothing; *)
(* mutant: first one first.                                                 *)
CompensateForward(completed) == completed
Compensate(completed)        == Reverse(completed)

StepDone(final)          == final = "COMPLETE"

(* What a next run reads may differ in all but the columns of the event:   *)
(* input_mapping overwrites metadata and the gateways are asked again.     *)
EventColumns == {"base", "po", "limit", "exposure", "authorized"}
NextFacts ==
  {f \in Facts(ProposeRecipe[state.intent]) :
     \A column \in EventColumns \cap DOMAIN f : f[column] = state.facts[column]}

FreshState(facts) ==
  [state EXCEPT !.facts = facts, !.final_status = "NONE", !.recipe = "NONE", !.evidence = "NONE",
                !.invocation = FALSE, !.verdict = "NONE", !.outcome = "NONE", !.action = "NONE",
                !.effect = "NONE", !.explanation = "NONE", !.halted = FALSE]

Returned ==
  [workflow EXCEPT
     !.results = Append(@, [verdict |-> state.verdict, final |-> state.final_status]),
     !.fired = IF state.effect = "SUCCESS" THEN @ \cup {Len(workflow.results) + 1} ELSE @]

RunStep == Next /\ UNCHANGED workflow

(* run_graph returned COMPLETE: the next step starts, or there is none. *)
StepCompletes ==
  /\ node = "end" /\ workflow.status = "RUNNING" /\ StepDone(state.final_status)
  /\ \E recipe \in BOOLEAN :
       LET done == [Returned EXCEPT
                      !.completed = Append(@, [step |-> Len(Returned.results), recipe |-> recipe])]
       IN  \/ /\ workflow' = [done EXCEPT !.status = "COMPLETE"]
              /\ UNCHANGED vars
           \/ /\ Len(done.results) < MaxSteps
              /\ workflow' = done
              /\ \E facts \in NextFacts : state' = FreshState(facts)
              /\ node' = "start"
              /\ UNCHANGED killed

(* Any other status stops the workflow. *)
StepStops ==
  /\ node = "end" /\ workflow.status = "RUNNING" /\ ~StepDone(state.final_status)
  /\ workflow' = [Returned EXCEPT
                    !.log = Compensate(workflow.completed),
                    !.status = IF \E u \in ToSet(workflow.completed) : u.recipe
                               THEN "COMPENSATED" ELSE "FAILED"]
  /\ UNCHANGED vars

WorkflowInit ==
  /\ Init
  /\ workflow = [status |-> IF state.directed = "NONE" THEN "RUNNING" ELSE "NONE",
                 results |-> <<>>, completed |-> <<>>, log |-> <<>>, fired |-> {}]

WorkflowNext == RunStep \/ StepCompletes \/ StepStops

WorkflowSpec == WorkflowInit /\ [][WorkflowNext]_workflowVars

-----------------------------------------------------------------------------
(* WorkflowRunner.run's locals and its WorkflowResult keep their types. *)
WorkflowTypeOK == workflow \in Workflows

(* "Compliance Shadow is mandatory (per step)" (workflows/runner.py:25): a *)
(* workflow reports COMPLETE only when the shadow judged every one of its  *)
(* runs GREEN, whatever the switch and the events did in between.          *)
CompleteMeansEveryStepPassed ==
  workflow.status = "COMPLETE"
    => \A i \in DOMAIN workflow.results : workflow.results[i] = [verdict |-> "GREEN", final |-> "COMPLETE"]

(* The compensation log is all an operator has to undo a stopped workflow  *)
(* by: it lists every step whose effect reached a gateway, newest first,   *)
(* but for the step that stopped it (which the runner never lists, even    *)
(* though its effect may have fired too).                                  *)
CompensationCoversEffects ==
  workflow.status \in {"FAILED", "COMPENSATED"}
    => /\ \A s \in workflow.fired :
            s = Len(workflow.results) \/ \E i \in DOMAIN workflow.log : workflow.log[i].step = s
       /\ \A i, j \in DOMAIN workflow.log : i < j => workflow.log[i].step > workflow.log[j].step

(* The WorkflowResult an operator gets says what the runs of its steps did. *)
WorkflowReportIsTrue == WorkflowTypeOK /\ CompleteMeansEveryStepPassed /\ CompensationCoversEffects
===============================================================================
