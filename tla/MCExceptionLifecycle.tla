------------------------- MODULE MCExceptionLifecycle -------------------------
(* Instances of ExceptionLifecycle for TLC. *)
EXTENDS ExceptionLifecycle, TLC

CONSTANTS ana, mgr, adm   \* one subject per role

VARIABLE scenario   \* what a behaviour exercises: one record's life, or the roll-up of two

(* One outcome per lifecycle a run can leave, GREEN and not. *)
BroadOutcomes ==
  {[verdict |-> "NONE",   final |-> "FAIL_TO_HUMAN"],
   [verdict |-> "YELLOW", final |-> "MANUAL_REVIEW_REQUIRED"],
   [verdict |-> "RED",    final |-> "BLOCKED"],
   [verdict |-> "GREEN",  final |-> "COMPLETE"],
   [verdict |-> "GREEN",  final |-> "REJECTED"]}

(* Enough for the roll-up: an open, a failed and a settled child. *)
RollupOutcomes ==
  {[verdict |-> "YELLOW", final |-> "MANUAL_REVIEW_REQUIRED"],
   [verdict |-> "RED",    final |-> "BLOCKED"],
   [verdict |-> "GREEN",  final |-> "COMPLETE"]}

(* All kinds, and without a high-value record that is no order intake. *)
AllKinds    == RecordKinds
RollupKinds == {k \in RecordKinds : k.high => k.intake}

OneAnalyst == {ana}
OneManager == {mgr}
OneAdmin   == {adm}

(* One record with every kind, outcome, role and handler; or two records   *)
(* of one case moved by the seniors, without reanalysis or case override.  *)
MCInit == Init /\ scenario \in {"record", "rollup"}

OneRecord == created' <= 1

TwoRecords ==
  /\ created' = created + 1 =>
       LET r == rec'[created']
       IN  /\ [intake |-> r.intake, high |-> r.high] \in RollupKinds
           /\ [verdict |-> r.verdict, final |-> r.final_status] \in RollupOutcomes
  /\ \A r \in 1..created' :
       rec'[r].attempts = 0 /\ ana \notin {rec'[r].resolved_by, rec'[r].pending_override.initiator}
  /\ UNCHANGED casePending

MCNext ==
  /\ Next /\ UNCHANGED scenario
  /\ IF scenario = "record" THEN OneRecord ELSE TwoRecords

MCSpec == MCInit /\ [][MCNext]_<<vars, scenario>>
===============================================================================
