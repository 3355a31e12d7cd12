------------------------------ MODULE Contracts ------------------------------
(***************************************************************************)
(* The status vocabulary the components share (contracts/models.py).       *)
(***************************************************************************)

Lifecycles == {"INGESTED", "PENDING_REVIEW", "ESCALATED",
               "PENDING_ADMIN_REVIEW", "PENDING_COSIGN", "RESOLVED",
               "FAILED", "BLOCKED", "REJECTED"}
Finals   == {"COMPLETE", "FAIL_TO_HUMAN", "MANUAL_REVIEW_REQUIRED",
             "BLOCKED", "REJECTED", "AUDIT_CONTEXT_MISSING"}
Verdicts == {"GREEN", "YELLOW", "RED", "NONE"}

(***************************************************************************)
(* What run_graph can leave behind: shadow verdict ("NONE" when a gate     *)
(* stopped the run before the audit) and final_status.  Module Pipeline    *)
(* derives this set from the graph (its invariant OutcomesCovered).        *)
(***************************************************************************)
PipelineOutcomes ==
       [verdict : {"NONE"},   final : {"FAIL_TO_HUMAN", "MANUAL_REVIEW_REQUIRED",
                                       "AUDIT_CONTEXT_MISSING"}]
  \cup [verdict : {"YELLOW"}, final : {"MANUAL_REVIEW_REQUIRED", "AUDIT_CONTEXT_MISSING"}]
  \cup [verdict : {"RED"},    final : {"BLOCKED", "AUDIT_CONTEXT_MISSING"}]
  \cup [verdict : {"GREEN"},  final : Finals]

(* STATUS_TO_LIFECYCLE; the callers' default for anything else. *)
LifecycleOf(final) ==
  CASE final = "COMPLETE"                                    -> "RESOLVED"
    [] final \in {"FAIL_TO_HUMAN", "AUDIT_CONTEXT_MISSING"}  -> "FAILED"
    [] final = "MANUAL_REVIEW_REQUIRED"                      -> "PENDING_REVIEW"
    [] final \in {"BLOCKED", "REJECTED"}                     -> final
    [] OTHER                                                 -> "INGESTED"
===============================================================================
