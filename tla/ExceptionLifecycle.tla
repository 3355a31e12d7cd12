-------------------------- MODULE ExceptionLifecycle --------------------------
(***************************************************************************)
(* The human-in-the-loop life of an exception record and of the order case *)
(* it belongs to: POST /exceptions/resolve persists a pipeline outcome and *)
(* the handlers of api/routes/exceptions.py move the record afterwards     *)
(* (disposition, cosign, escalate, reanalyze, challenge, admin-release),   *)
(* each followed, or not, by the roll-up of the parent case's status       *)
(* (api/case_resolver.py).  The case-level override of api/routes/cases.py *)
(* is included behind its feature flag.                                    *)
(*                                                                         *)
(* A handler is one atomic step: within a process nothing runs between its *)
(* reading a record and its last write.  Two replicas can interleave       *)
(* there; that is outside this module.                                     *)
(***************************************************************************)
EXTENDS Naturals, FiniteSets, Contracts

CONSTANTS
  MaxRecords,     \* bound: exception records created in a behaviour
  Cases,          \* order cases, one per correlation key
  Analysts, Managers, Admins,  \* JWT subjects, by role
  NoUser,         \* "no subject": None in resolved_by, initiator, ...
  Kinds,          \* the kinds of record considered, subset of RecordKinds
  Outcomes,       \* the pipeline outcomes considered, see PipelineOutcomes
  ReanalysisMaxAttempts, \* contracts/policy.py REANALYSIS_MAX_ATTEMPTS
  PageLimit,      \* rows DatabaseBackedStore.list_by_case reads (500)
  LiveRecords,    \* TRUE: in-memory store, get() returns the stored object
  CaseCosign      \* ASOE_CASE_COSIGN_ENABLED

Ids      == 1..MaxRecords
Users    == Analysts \cup Managers \cup Admins
Seniors  == Managers \cup Admins     \* require_role("manager", "admin")
Subjects == Users \cup {NoUser}

(* What the handlers read of a record's immutable columns: intake, it is a *)
(* MANUAL_ORDER_INTAKE record that carries an extraction; high, its        *)
(* _cosign_materiality_usd is at least HIGH_VALUE_OVERRIDE_THRESHOLD_USD.  *)
RecordKinds == [intake : BOOLEAN, high : BOOLEAN]

ASSUME LifecycleAssumption ==
  /\ MaxRecords \in Nat
  /\ ReanalysisMaxAttempts \in Nat
  /\ PageLimit \in Nat \ {0}
  /\ LiveRecords \in BOOLEAN
  /\ CaseCosign \in BOOLEAN
  /\ Admins # {}
  /\ NoUser \notin Users
  /\ Outcomes \subseteq PipelineOutcomes
  /\ Kinds \subseteq RecordKinds

(* Source states of each HITL action (contracts/models.py). *)
HITL_OVERRIDE_STATES ==
  {"PENDING_REVIEW", "ESCALATED", "RESOLVED", "BLOCKED", "PENDING_ADMIN_REVIEW"}
HITL_DISPOSITION_STATES  == {"PENDING_REVIEW", "ESCALATED", "PENDING_ADMIN_REVIEW"}
COSIGN_ELIGIBLE_STATES   == {"PENDING_COSIGN"}
CHALLENGE_SOURCE_STATES  == {"RESOLVED"}
ADMIN_RELEASE_SOURCE_STATES == {"BLOCKED"}
ESCALATE_ELIGIBLE_STATES == {"PENDING_REVIEW", "FAILED", "BLOCKED"}
REANALYZE_ELIGIBLE_VERDICTS   == {"YELLOW", "RED"}
REANALYZE_ELIGIBLE_LIFECYCLES ==
  {"PENDING_REVIEW", "ESCALATED", "PENDING_ADMIN_REVIEW", "BLOCKED", "FAILED"}

(***************************************************************************)
(* State.  rec[r] is the persisted row; of resolution_data it keeps the    *)
(* entries the handlers read or leave: pending_override, erp_submission.   *)
(***************************************************************************)
VARIABLES
  created,     \* number of records created; 1..created exist, oldest first
  rec,         \* the exceptions table
  audit,       \* the last lifecycle row about a record in policy_audit_log
  caseStatus, closedAt, casePending,   \* the order cases
  cosigner,    \* history: who cosigned the standing resolution of a record
  overridden   \* history: the cases somebody initiated an override of

vars == <<created, rec, audit, caseStatus, closedAt, casePending, cosigner, overridden>>

Actions     == {"APPROVE", "NO_ACTION", "OVERRIDE", "SUBMIT_TO_ERP", "NONE"}
Binding     == {"OVERRIDE", "SUBMIT_TO_ERP"}   \* gated by four eyes when high
Pendings    == [action : Binding \cup {"NONE"}, initiator : Subjects,
                from : Lifecycles]
NoPending   == [action |-> "NONE", initiator |-> NoUser, from |-> "INGESTED"]
Submissions == {"NONE", "REJECTED", "UNPOSTED", "POSTED"}
Records     ==
  [parent : Cases, intake : BOOLEAN, high : BOOLEAN, lifecycle : Lifecycles,
   final_status : Finals, verdict : Verdicts, pending_override : Pendings,
   resolved_by : Subjects, resolved_action : Actions,
   erp_submission : Submissions, attempts : 0..ReanalysisMaxAttempts]

Fresh(c, kind, o) ==
  [parent |-> c, intake |-> kind.intake, high |-> kind.high,
   lifecycle |-> LifecycleOf(o.final), final_status |-> o.final,
   verdict |-> o.verdict, pending_override |-> NoPending,
   resolved_by |-> NoUser, resolved_action |-> "NONE",
   erp_submission |-> "NONE", attempts |-> 0]

CaseStatuses == {"NONE", "OPEN_AGENT_PROCESSING", "OPEN_AWAITING_HUMAN",
                 "BLOCKED", "FAILED", "RESOLVED"}
TERMINAL_CASE_STATUSES == {"BLOCKED", "FAILED", "RESOLVED"}

Exists(r) == r <= created

-----------------------------------------------------------------------------
(* The case roll-up, api/case_resolver.py. *)

CaseStatusRank(s) ==
  CASE s = "OPEN_AWAITING_HUMAN" -> 3
    [] s = "BLOCKED"             -> 2
    [] s = "FAILED"              -> 1
    [] OTHER                     -> 0

CaseStatusFromLifecycle(l) ==
  CASE l \in {"RESOLVED", "REJECTED"} -> "RESOLVED"
    [] l \in {"BLOCKED", "FAILED"}    -> l
    [] OTHER                          -> "OPEN_AWAITING_HUMAN"

Aggregate(statuses) ==
  CHOOSE s \in statuses : \A t \in statuses : CaseStatusRank(t) <= CaseStatusRank(s)

(* The children list_by_case returns: it filters the PageLimit newest rows. *)
ListByCase(c, recs, n) == {r \in 1..n : recs[r].parent = c /\ r + PageLimit > n}

ChildStatuses(c, recs, n) ==
  {CaseStatusFromLifecycle(recs[r].lifecycle) : r \in ListByCase(c, recs, n)}

(* The stamp recompute_case_status writes with a status. *)
CloseStamp(c, status)       == status \in TERMINAL_CASE_STATUSES

(* The case is not parked for a case override. *)
NotParked(c)  == casePending[c] = NoUser

(* recompute_case_status: nothing while a case override is pending, when   *)
(* nothing is to aggregate, or when the status is already right.           *)
RecomputeCase(c, statuses) ==
  LET new == Aggregate(statuses)
  IN  IF ~NotParked(c) \/ statuses = {} \/ new = caseStatus[c]
      THEN UNCHANGED <<caseStatus, closedAt>>
      ELSE /\ caseStatus' = [caseStatus EXCEPT ![c] = new]
           /\ closedAt' = [closedAt EXCEPT ![c] = CloseStamp(c, new)]

(* Mutant: the roll-up reads the children before the record is updated. *)
ReaggregateStale(r, new) ==
  RecomputeCase(rec[r].parent, ChildStatuses(rec[r].parent, rec, created))

(* _reaggregate_parent_case, called with the record already updated. *)
Reaggregate(r, new) ==
  RecomputeCase(rec[r].parent, ChildStatuses(rec[r].parent, [rec EXCEPT ![r] = new], created))

(* exception_store.update followed by log_audit_event. *)
Write(r, new, previous) ==
  /\ rec' = [rec EXCEPT ![r] = new]
  /\ audit' = [audit EXCEPT ![r] = [previous |-> previous, new |-> new.lifecycle]]
  /\ UNCHANGED <<created, casePending, overridden>>

-----------------------------------------------------------------------------
(* A run of an order intake is operator-gated: it does not end COMPLETE    *)
(* (IntakeIsOperatorGated of module Pipeline).                             *)
MayEnd(intake, o) == intake => o.final # "COMPLETE"

(* POST /exceptions/resolve and /resolve/async: run the graph, open or     *)
(* attach to the case folding the incoming status in, create the row.  No  *)
(* audit row is written; audit[r] starts at the created lifecycle.         *)
Resolve(c, kind, o) ==
  LET r        == created + 1
      incoming == CaseStatusFromLifecycle(LifecycleOf(o.final))
      opened   == IF caseStatus[c] = "NONE" THEN "OPEN_AGENT_PROCESSING" ELSE caseStatus[c]
      new      == Aggregate(ChildStatuses(c, rec, created) \cup {incoming})
  IN  /\ created < MaxRecords
      /\ MayEnd(kind.intake, o)
      /\ created' = r
      /\ rec' = [rec EXCEPT ![r] = Fresh(c, kind, o)]
      /\ audit' = [audit EXCEPT ![r] = [previous |-> "INGESTED", new |-> LifecycleOf(o.final)]]
      /\ IF ~NotParked(c) \/ new = opened
         THEN caseStatus' = [caseStatus EXCEPT ![c] = opened] /\ UNCHANGED closedAt
         ELSE /\ caseStatus' = [caseStatus EXCEPT ![c] = new]
              /\ closedAt' = [closedAt EXCEPT ![c] = CloseStamp(c, new)]
      /\ UNCHANGED <<casePending, cosigner, overridden>>

(* Mutant: final_status is left as the pipeline wrote it. *)
DisposedLifecycleOnly(r, u, action) ==
  [rec[r] EXCEPT !.resolved_by = u, !.resolved_action = action,
                 !.lifecycle = IF action = "NO_ACTION" THEN "REJECTED" ELSE "RESOLVED"]

(* The commit shared by the dispositions: resolved_by/action and the status. *)
Disposed(r, u, action) ==
  [rec[r] EXCEPT !.resolved_by = u, !.resolved_action = action,
                 !.lifecycle = IF action = "NO_ACTION" THEN "REJECTED" ELSE "RESOLVED",
                 !.final_status = IF action = "NO_ACTION" THEN "REJECTED" ELSE "COMPLETE"]

(* PATCH disposition, sub_type APPROVE or REJECT. *)
Dispose(r, u, action) ==
  LET new == Disposed(r, u, action)
  IN  /\ Exists(r)
      /\ action \in {"APPROVE", "NO_ACTION"}
      /\ rec[r].lifecycle \in HITL_DISPOSITION_STATES
      /\ Write(r, new, rec[r].lifecycle)
      /\ cosigner' = [cosigner EXCEPT ![r] = NoUser]
      /\ Reaggregate(r, new)

OverrideAllowed(r, u) ==
  /\ Exists(r)
  /\ u \in Seniors                       \* the exceptions:override permission
  /\ rec[r].verdict # "NONE"
  /\ rec[r].lifecycle \in HITL_OVERRIDE_STATES

(* PATCH disposition, sub_type OVERRIDE below the four-eyes threshold. *)
Override(r, u) ==
  LET new == Disposed(r, u, "OVERRIDE")
  IN  /\ OverrideAllowed(r, u)
      /\ ~rec[r].high
      /\ Write(r, new, rec[r].lifecycle)
      /\ cosigner' = [cosigner EXCEPT ![r] = NoUser]
      /\ Reaggregate(r, new)

(* Parking a high-value action for the second pair of eyes. *)
Parked(r, u, action) ==
  [rec[r] EXCEPT !.lifecycle = "PENDING_COSIGN",
                 !.pending_override = [action |-> action, initiator |-> u,
                                       from |-> rec[r].lifecycle]]

(* PATCH disposition, OVERRIDE at or above the threshold: the handler      *)
(* returns before _reaggregate_parent_case.                                *)
StageOverride(r, u) ==
  /\ OverrideAllowed(r, u)
  /\ rec[r].high
  /\ Write(r, Parked(r, u, "OVERRIDE"), rec[r].lifecycle)
  /\ UNCHANGED <<caseStatus, closedAt, cosigner>>

-----------------------------------------------------------------------------
(* The ERP submit.  "REJECTED": the directed run left no SUCCESS recipe    *)
(* status; "UNPOSTED": the recipe succeeded, the erp gateway call did not  *)
(* (sap_doc_number stays null); "POSTED": both did.                        *)

SubmitAllowed(r) ==
  /\ Exists(r)
  /\ rec[r].intake
  /\ rec[r].lifecycle \in HITL_DISPOSITION_STATES

(* _persist_erp_submit's update. *)
Submitted(r, u, outcome) ==
  LET tried == [rec[r] EXCEPT !.pending_override = NoPending, !.erp_submission = outcome]
  IN  IF outcome = "REJECTED" THEN tried
      ELSE [tried EXCEPT !.lifecycle = "RESOLVED", !.final_status = "COMPLETE",
                         !.resolved_by = u, !.resolved_action = "SUBMIT_TO_ERP"]

(* Mutant: the audit row's previous value is the updated record's. *)
PreviousIsNew(r, new) == new.lifecycle

(* record.lifecycle_state is read AFTER the update for the audit row: on   *)
(* the in-memory store, record is the updated object.                      *)
PreviousAfterUpdate(r, new) == IF LiveRecords THEN new.lifecycle ELSE rec[r].lifecycle

PersistErpSubmit(r, u, outcome, cosign) ==
  LET new == Submitted(r, u, outcome)
  IN  /\ Write(r, new, PreviousAfterUpdate(r, new))
      /\ cosigner' = IF outcome = "REJECTED" THEN cosigner
                     ELSE [cosigner EXCEPT ![r] = cosign]
      /\ UNCHANGED <<caseStatus, closedAt>>        \* no roll-up on this path

SubmitToErp(r, u, outcome) ==
  /\ SubmitAllowed(r)
  /\ ~rec[r].high
  /\ PersistErpSubmit(r, u, outcome, NoUser)

StageSubmit(r, u) ==
  LET new == Parked(r, u, "SUBMIT_TO_ERP")
  IN  /\ SubmitAllowed(r)
      /\ rec[r].high
      /\ Write(r, new, PreviousAfterUpdate(r, new))
      /\ UNCHANGED <<caseStatus, closedAt, cosigner>>

-----------------------------------------------------------------------------
(* POST override/cosign. *)

(* Mutant: the initiator may cosign. *)
CosignAllowedToInitiator(r, u) ==
  /\ Exists(r)
  /\ u \in Seniors
  /\ rec[r].lifecycle \in COSIGN_ELIGIBLE_STATES
  /\ rec[r].pending_override # NoPending

CosignAllowed(r, u) ==
  /\ Exists(r)
  /\ u \in Seniors
  /\ rec[r].lifecycle \in COSIGN_ELIGIBLE_STATES
  /\ rec[r].pending_override # NoPending
  /\ rec[r].pending_override.initiator # u

CosignApprove(r, u) ==
  LET p   == rec[r].pending_override
      new == [rec[r] EXCEPT !.resolved_by = p.initiator, !.resolved_action = p.action,
                            !.lifecycle = "RESOLVED", !.final_status = "COMPLETE",
                            !.pending_override = NoPending]
  IN  /\ CosignAllowed(r, u)
      /\ p.action = "OVERRIDE"
      /\ Write(r, new, rec[r].lifecycle)
      /\ cosigner' = [cosigner EXCEPT ![r] = u]
      /\ Reaggregate(r, new)

CosignSubmit(r, u, outcome) ==
  /\ CosignAllowed(r, u)
  /\ rec[r].pending_override.action = "SUBMIT_TO_ERP"
  /\ PersistErpSubmit(r, rec[r].pending_override.initiator, outcome, u)

(* Back to the state it was staged from. *)
Unparked(r)     == [rec[r] EXCEPT !.lifecycle = rec[r].pending_override.from,
                                  !.pending_override = NoPending]

CosignReject(r, u) ==
  LET new == Unparked(r)
  IN  /\ CosignAllowed(r, u)
      /\ Write(r, new, rec[r].lifecycle)
      /\ UNCHANGED cosigner
      /\ Reaggregate(r, new)

-----------------------------------------------------------------------------
(* The routing handlers.  Some user of each role exists and the record does *)
(* not say who called, so they take no user.                                *)

Escalate(r) ==
  LET new == [rec[r] EXCEPT !.lifecycle = "ESCALATED"]
  IN  /\ Exists(r)
      /\ rec[r].lifecycle \in ESCALATE_ELIGIBLE_STATES
      /\ Write(r, new, rec[r].lifecycle)
      /\ UNCHANGED cosigner
      /\ Reaggregate(r, new)

(* reanalyze's two eligibility checks. *)
ReanalyzeEligible(r) ==
  /\ \/ rec[r].verdict \in REANALYZE_ELIGIBLE_VERDICTS
     \/ rec[r].lifecycle \in REANALYZE_ELIGIBLE_LIFECYCLES
  /\ rec[r].attempts < ReanalysisMaxAttempts

(* The graph replay rewrites verdict, final_status and lifecycle and leaves *)
(* resolution_data, resolved_by and resolved_action as they were.           *)
Reanalyze(r, o) ==
  LET new == [rec[r] EXCEPT !.verdict = o.verdict, !.final_status = o.final,
                            !.lifecycle = LifecycleOf(o.final),
                            !.attempts = @ + 1]
  IN  /\ Exists(r)
      /\ ReanalyzeEligible(r)
      /\ MayEnd(rec[r].intake, o)
      /\ Write(r, new, rec[r].lifecycle)
      /\ UNCHANGED cosigner
      /\ Reaggregate(r, new)

Challenge(r) ==
  LET new == [rec[r] EXCEPT !.lifecycle = "ESCALATED"]
  IN  /\ Exists(r)
      /\ rec[r].lifecycle \in CHALLENGE_SOURCE_STATES
      /\ Write(r, new, "RESOLVED")
      /\ UNCHANGED cosigner
      /\ Reaggregate(r, new)

AdminRelease(r) ==
  LET new == [rec[r] EXCEPT !.lifecycle = "PENDING_ADMIN_REVIEW"]
  IN  /\ Exists(r)
      /\ rec[r].lifecycle \in ADMIN_RELEASE_SOURCE_STATES
      /\ Write(r, new, "BLOCKED")
      /\ UNCHANGED cosigner
      /\ Reaggregate(r, new)

-----------------------------------------------------------------------------
(* The case-level override, api/routes/cases.py. *)

InitiateCaseOverride(c, u) ==
  /\ CaseCosign
  /\ caseStatus[c] # "NONE"
  /\ u \in Seniors
  /\ casePending[c] = NoUser
  /\ casePending' = [casePending EXCEPT ![c] = u]
  /\ caseStatus' = [caseStatus EXCEPT ![c] = "OPEN_AWAITING_HUMAN"]
  /\ overridden' = overridden \cup {c}
  /\ UNCHANGED <<created, rec, audit, closedAt, cosigner>>

CosignCaseOverride(c, u, approve) ==
  /\ CaseCosign
  /\ u \in Seniors
  /\ casePending[c] \notin {NoUser, u}
  /\ casePending' = [casePending EXCEPT ![c] = NoUser]
  /\ caseStatus' = [caseStatus EXCEPT
                      ![c] = IF approve THEN "RESOLVED" ELSE "OPEN_AGENT_PROCESSING"]
  /\ closedAt' = [closedAt EXCEPT ![c] = approve \/ @]
  /\ UNCHANGED <<created, rec, audit, cosigner, overridden>>

-----------------------------------------------------------------------------
Init ==
  /\ created = 0
  /\ \E c \in Cases :
       rec = [r \in Ids |-> Fresh(c, [intake |-> FALSE, high |-> FALSE],
                                  [verdict |-> "NONE", final |-> "FAIL_TO_HUMAN"])]
  /\ audit = [r \in Ids |-> [previous |-> "INGESTED", new |-> "FAILED"]]
  /\ caseStatus = [c \in Cases |-> "NONE"]
  /\ closedAt = [c \in Cases |-> FALSE]
  /\ casePending = [c \in Cases |-> NoUser]
  /\ cosigner = [r \in Ids |-> NoUser]
  /\ overridden = {}

CaseStep ==
  \E c \in Cases :
    \/ \E kind \in Kinds, o \in Outcomes : Resolve(c, kind, o)
    \/ \E u \in Users :
         \/ InitiateCaseOverride(c, u)
         \/ \E approve \in BOOLEAN : CosignCaseOverride(c, u, approve)

UserStep(r, u) ==
  \/ \E action \in {"APPROVE", "NO_ACTION"} : Dispose(r, u, action)
  \/ Override(r, u)
  \/ StageOverride(r, u)
  \/ StageSubmit(r, u)
  \/ CosignApprove(r, u)
  \/ CosignReject(r, u)
  \/ \E outcome \in Submissions \ {"NONE"} :
       SubmitToErp(r, u, outcome) \/ CosignSubmit(r, u, outcome)

RoutingStep(r) ==
  \/ Escalate(r)
  \/ Challenge(r)
  \/ AdminRelease(r)
  \/ \E o \in Outcomes : Reanalyze(r, o)

Next ==
  \/ CaseStep
  \/ \E r \in Ids : RoutingStep(r) \/ \E u \in Users : UserStep(r, u)

Spec == Init /\ [][Next]_vars

-----------------------------------------------------------------------------
(* Every variable ranges over what the handlers can store in it. *)
TypeOK ==
  /\ created \in 0..MaxRecords
  /\ rec \in [Ids -> Records]
  /\ audit \in [Ids -> [previous : Lifecycles, new : Lifecycles]]
  /\ caseStatus \in [Cases -> CaseStatuses]
  /\ closedAt \in [Cases -> BOOLEAN]
  /\ casePending \in [Cases -> Subjects]
  /\ cosigner \in [Ids -> Subjects]
  /\ overridden \subseteq Cases

(* Four eyes (POLICY_FOUR_EYES): the standing resolution of a high-value   *)
(* record, when it overrides the agent or writes to the ERP, was cosigned  *)
(* by a senior other than the user it is attributed to, whatever sequence  *)
(* of staging, reanalysis, challenge and re-staging led there.             *)
FourEyes ==
  \A r \in 1..created :
    rec[r].high /\ rec[r].resolved_action \in Binding
      => cosigner[r] \in Seniors \ {rec[r].resolved_by}

(* lifecycle_state and final_status are written by different handlers and  *)
(* restored by a rejected cosign: a settled record's two fields agree.     *)
SettledMatchesFinalStatus ==
  \A r \in 1..created :
    /\ rec[r].lifecycle = "RESOLVED" => rec[r].final_status = "COMPLETE"
    /\ rec[r].lifecycle = "REJECTED" => rec[r].final_status = "REJECTED"

(* A record parked in PENDING_COSIGN still carries what the cosign endpoint *)
(* needs to release it (it answers 409 NO_PENDING_OVERRIDE otherwise); the  *)
(* one way out of this is a cosigned submit the recipe rejected.            *)
ParkedIsCosignable ==
  \A r \in 1..created :
    rec[r].lifecycle = "PENDING_COSIGN"
      => rec[r].pending_override # NoPending \/ rec[r].erp_submission = "REJECTED"

(* A stored row makes sense by itself: its columns hold what the handlers   *)
(* assign, the two status columns agree once it is settled, and a parked    *)
(* row can be released; the columns are written by handlers that restore,   *)
(* clear and overwrite each other's (models.py ExceptionRecord).            *)
RowsAreCoherent == TypeOK /\ SettledMatchesFinalStatus /\ ParkedIsCosignable

(* While one page holds all rows, a case nobody overrode has the status of *)
(* its children: the roll-up may lag behind them only where a handler      *)
(* skips it, a child parked for cosign, or one an ERP submit resolved.     *)
CaseStatusTracksChildren ==
  created <= PageLimit => \A c \in Cases \ overridden :
    LET kids == {r \in 1..created : rec[r].parent = c}
    IN  kids = {} \/ caseStatus[c] = Aggregate({CaseStatusFromLifecycle(rec[r].lifecycle) : r \in kids})
          \/ \E r \in kids : \/ rec[r].lifecycle = "PENDING_COSIGN"
                             \/ rec[r].resolved_action = "SUBMIT_TO_ERP"

(* closed_at is stamped exactly while a case nobody overrode is in a       *)
(* terminal status (recompute_case_status: "a reopened case must not carry *)
(* a stale close timestamp").                                              *)
CloseStampMatchesStatus ==
  \A c \in Cases \ overridden : closedAt[c] <=> caseStatus[c] \in TERMINAL_CASE_STATUSES

(* While a case override waits for its cosigner the case stays open for a  *)
(* human, whatever happens to the children meanwhile.                      *)
CosignParkedCaseStaysOpen ==
  \A c \in Cases : casePending[c] # NoUser => caseStatus[c] = "OPEN_AWAITING_HUMAN"

(* A case's status, its close timestamp and its parked override agree with *)
(* its children and with each other, in whatever order the handlers roll   *)
(* up, override and cosign (recompute_case_status, cosign_case_override).  *)
CaseFollowsChildren ==
  CaseStatusTracksChildren /\ CloseStampMatchesStatus /\ CosignParkedCaseStaysOpen

(* Each move of a record's lifecycle leaves an audit row whose             *)
(* previous_value is the pre-action snapshot and whose new_value the       *)
(* post-action state (docs/AUDITOR_GUIDE.md, HITL Audit Events).           *)
AuditTrailConnected ==
  [][\A r \in 1..created :
       rec'[r].lifecycle # rec[r].lifecycle
         => audit'[r] = [previous |-> rec[r].lifecycle, new |-> rec'[r].lifecycle]]_vars

-----------------------------------------------------------------------------
(* What the documentation says of the program and the code does not do.    *)

(* _persist_erp_submit: "a REJECTED submit stays in review for correction". *)
RejectedSubmitStaysInReview ==
  \A r \in 1..created :
    rec[r].erp_submission = "REJECTED" => rec[r].lifecycle # "PENDING_COSIGN"
                                          \/ rec[r].pending_override # NoPending

(* reanalyze: eligibility prevents re-runs "of already-closed exceptions". *)
ClosedIsNotReanalyzed ==
  [][\A r \in 1..created :
       rec'[r].attempts # rec[r].attempts
         => rec[r].lifecycle \notin {"RESOLVED", "REJECTED"}]_vars

(* _persist_erp_submit: "On SUCCESS the record resolves; ... (no false     *)
(* resolution)": a record resolved by SUBMIT_TO_ERP has its ERP document.  *)
NoFalseResolution ==
  \A r \in 1..created :
    rec[r].lifecycle = "RESOLVED" /\ rec[r].resolved_action = "SUBMIT_TO_ERP"
      => rec[r].erp_submission = "POSTED"
===============================================================================
