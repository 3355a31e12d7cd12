----------------------- MODULE ExceptionLifecycleProofs -----------------------
(***************************************************************************)
(* Proofs about ExceptionLifecycle, for any number of records, cases and   *)
(* users.  The inductive invariant adds to the four checked invariants     *)
(* what a parked record remembers: the state a rejected cosign would       *)
(* restore is one the override handlers accept, and is only RESOLVED when  *)
(* final_status still says COMPLETE.                                       *)
(*                                                                         *)
(* The second half is about Migrations, the database those records are     *)
(* kept in, for any number of booting replicas, older rows, crashes and    *)
(* audit events.  Its invariant says what each statement of a boot has     *)
(* achieved: on SQLite, what the statements already passed left in the     *)
(* database, and that only a crash between the two statements of V014      *)
(* leaves older audit events without an organisation; on PostgreSQL, what  *)
(* the transaction of each boot contains, and that one boot at a time has  *)
(* a transaction open.                                                     *)
(***************************************************************************)
EXTENDS ExceptionLifecycle, SequenceTheorems, TLAPS

CONSTANTS Replicas, Single, Rows, Sparse, LegacyAudit, MaxAudit, MaxFaults
VARIABLES backend, db, work, at, line, phase, trail, append, torn, faults

Mig == INSTANCE Migrations

(* What the invariants say of one record d whose resolution k cosigned. *)
RowOK(d, k) ==
  /\ d.high /\ d.resolved_action \in Binding => k \in Seniors \ {d.resolved_by}
  /\ d.lifecycle = "RESOLVED" => d.final_status = "COMPLETE"
  /\ d.lifecycle = "REJECTED" => d.final_status = "REJECTED"
  /\ d.lifecycle = "PENDING_COSIGN"
       => d.pending_override # NoPending \/ d.erp_submission = "REJECTED"
  /\ d.lifecycle = "PENDING_COSIGN" /\ d.pending_override # NoPending
       => /\ d.pending_override.action \in Binding
          /\ d.pending_override.from \in HITL_OVERRIDE_STATES
          /\ d.pending_override.from = "RESOLVED" => d.final_status = "COMPLETE"

IInv == TypeOK /\ \A r \in 1..created : RowOK(rec[r], cosigner[r])

-----------------------------------------------------------------------------
(* Facts about the operators. *)

(* STATUS_TO_LIFECYCLE gives each final status one of five states.         *)
LEMMA LifecycleOfType ==
  ASSUME NEW f \in Finals
  PROVE  /\ LifecycleOf(f) \in {"RESOLVED", "FAILED", "PENDING_REVIEW", "BLOCKED", "REJECTED"}
         /\ LifecycleOf(f) = "RESOLVED" => f = "COMPLETE"
         /\ LifecycleOf(f) = "REJECTED" => f = "REJECTED"
BY DEF Finals, LifecycleOf

(* A pipeline outcome is a verdict and a final status.                     *)
LEMMA OutcomeType ==
  ASSUME NEW o \in Outcomes
  PROVE  o.verdict \in Verdicts /\ o.final \in Finals
BY LifecycleAssumption DEF PipelineOutcomes, Verdicts, Finals

(* A child counts as one of the four aggregated statuses.                  *)
LEMMA FromLifecycleType ==
  ASSUME NEW l \in Lifecycles
  PROVE  CaseStatusFromLifecycle(l) \in {"RESOLVED", "BLOCKED", "FAILED", "OPEN_AWAITING_HUMAN"}
BY DEF CaseStatusFromLifecycle, Lifecycles

(* The roll-up always picks one of the children's statuses. *)
LEMMA AggregateType ==
  ASSUME NEW S \in SUBSET {"RESOLVED", "BLOCKED", "FAILED", "OPEN_AWAITING_HUMAN"}, S # {}
  PROVE  Aggregate(S) \in S
<1>1. \E s \in S : \A t \in S : CaseStatusRank(t) <= CaseStatusRank(s)
  <2>1. CASE "OPEN_AWAITING_HUMAN" \in S
    BY <2>1 DEF CaseStatusRank
  <2>2. CASE "OPEN_AWAITING_HUMAN" \notin S /\ "BLOCKED" \in S
    BY <2>2 DEF CaseStatusRank
  <2>3. CASE "OPEN_AWAITING_HUMAN" \notin S /\ "BLOCKED" \notin S /\ "FAILED" \in S
    BY <2>3 DEF CaseStatusRank
  <2>4. CASE "OPEN_AWAITING_HUMAN" \notin S /\ "BLOCKED" \notin S /\ "FAILED" \notin S
    BY <2>4 DEF CaseStatusRank
  <2> QED BY <2>1, <2>2, <2>3, <2>4
<1> QED BY <1>1 DEF Aggregate

(* recompute_case_status keeps the case variables in their types. *)
LEMMA RecomputeType ==
  ASSUME TypeOK, NEW c \in Cases,
         NEW S \in SUBSET {"RESOLVED", "BLOCKED", "FAILED", "OPEN_AWAITING_HUMAN"},
         RecomputeCase(c, S)
  PROVE  caseStatus' \in [Cases -> CaseStatuses] /\ closedAt' \in [Cases -> BOOLEAN]
<1>1. CASE UNCHANGED <<caseStatus, closedAt>>
  BY <1>1 DEF TypeOK
<1>2. CASE ~ UNCHANGED <<caseStatus, closedAt>>
  <2>1. S # {}
    BY <1>2 DEF RecomputeCase
  <2>2. Aggregate(S) \in CaseStatuses
    BY <2>1, AggregateType DEF CaseStatuses
  <2>3. /\ caseStatus' = [caseStatus EXCEPT ![c] = Aggregate(S)]
        /\ closedAt' = [closedAt EXCEPT ![c] = Aggregate(S) \in TERMINAL_CASE_STATUSES]
    BY <1>2 DEF RecomputeCase, CloseStamp
  <2> QED BY <2>2, <2>3 DEF TypeOK
<1> QED BY <1>1, <1>2

(* _reaggregate_parent_case keeps the case variables in their types.       *)
LEMMA ReaggregateType ==
  ASSUME TypeOK, NEW r \in 1..created, NEW new \in Records, Reaggregate(r, new)
  PROVE  caseStatus' \in [Cases -> CaseStatuses] /\ closedAt' \in [Cases -> BOOLEAN]
<1> DEFINE recs == [rec EXCEPT ![r] = new]
           c    == rec[r].parent
<1>1. r \in Ids /\ 1..created \subseteq Ids
  BY LifecycleAssumption DEF TypeOK, Ids
<1>2. recs \in [Ids -> Records] /\ c \in Cases
  BY <1>1 DEF TypeOK, Records
<1>3. ChildStatuses(c, recs, created)
        \in SUBSET {"RESOLVED", "BLOCKED", "FAILED", "OPEN_AWAITING_HUMAN"}
  <2> SUFFICES ASSUME NEW q \in ListByCase(c, recs, created)
               PROVE  CaseStatusFromLifecycle(recs[q].lifecycle)
                        \in {"RESOLVED", "BLOCKED", "FAILED", "OPEN_AWAITING_HUMAN"}
    BY DEF ChildStatuses
  <2>1. recs[q].lifecycle \in Lifecycles
    BY <1>1, <1>2 DEF ListByCase, Records
  <2> QED BY <2>1, FromLifecycleType
<1> QED BY <1>2, <1>3, RecomputeType DEF Reaggregate

-----------------------------------------------------------------------------
(* Every handler but resolve rewrites one row; the invariant then rests on *)
(* the row it writes.                                                      *)
LEMMA WritePreserves ==
  ASSUME IInv, NEW r \in 1..created, NEW new \in Records, NEW previous \in Lifecycles,
         NEW k \in Subjects,
         Write(r, new, previous), RowOK(new, k),
         cosigner' = [cosigner EXCEPT ![r] = k],
         caseStatus' \in [Cases -> CaseStatuses], closedAt' \in [Cases -> BOOLEAN]
  PROVE  IInv'
<1>1. r \in Ids /\ 1..created \subseteq Ids
  BY LifecycleAssumption DEF IInv, TypeOK, Ids
<1>2. TypeOK'
  BY <1>1 DEF IInv, TypeOK, Write, Records
<1>3. ASSUME NEW q \in 1..created' PROVE RowOK(rec'[q], cosigner'[q])
  <2>1. q \in 1..created /\ q \in Ids /\ RowOK(rec[q], cosigner[q])
    BY <1>1 DEF IInv, Write
  <2>2. CASE q = r
    <3>1. rec'[q] = new /\ cosigner'[q] = k
      BY <2>1, <2>2 DEF IInv, TypeOK, Write
    <3> QED BY <3>1
  <2>3. CASE q # r
    <3>1. rec'[q] = rec[q] /\ cosigner'[q] = cosigner[q]
      BY <2>1, <2>3 DEF IInv, TypeOK, Write
    <3> QED BY <2>1, <3>1
  <2> QED BY <2>2, <2>3
<1> QED BY <1>2, <1>3 DEF IInv

(* An empty store satisfies the invariant.                                 *)
LEMMA InitHolds == Init => IInv
<1> SUFFICES ASSUME Init PROVE IInv
  OBVIOUS
<1>1. PICK c \in Cases :
        rec = [r \in Ids |-> Fresh(c, [intake |-> FALSE, high |-> FALSE],
                                  [verdict |-> "NONE", final |-> "FAIL_TO_HUMAN"])]
  BY DEF Init
<1>2. Fresh(c, [intake |-> FALSE, high |-> FALSE],
            [verdict |-> "NONE", final |-> "FAIL_TO_HUMAN"]) \in Records
  BY LifecycleAssumption DEF Fresh, Records, LifecycleOf, Lifecycles, Finals, Verdicts,
     Pendings, NoPending, Subjects, Actions, Submissions, Binding
<1>3. TypeOK
  BY <1>1, <1>2, LifecycleAssumption
     DEF Init, TypeOK, CaseStatuses, Subjects, Lifecycles
<1>4. 1..created = {}
  BY DEF Init
<1> QED BY <1>3, <1>4 DEF IInv

(* The one step that adds a row. *)
LEMMA ResolvePreserves ==
  ASSUME IInv, NEW c \in Cases, NEW kind \in Kinds, NEW o \in Outcomes, Resolve(c, kind, o)
  PROVE  IInv'
<1> DEFINE r   == created + 1
           row == Fresh(c, kind, o)
           inc == CaseStatusFromLifecycle(LifecycleOf(o.final))
           S   == ChildStatuses(c, rec, created) \cup {inc}
<1>1. /\ r \in Ids /\ created' = r /\ 1..created' = 1..created \cup {r}
      /\ 1..created \subseteq Ids /\ r \notin 1..created
  BY LifecycleAssumption DEF IInv, TypeOK, Ids, Resolve
<1>2. o.verdict \in Verdicts /\ o.final \in Finals /\ kind \in RecordKinds
  BY OutcomeType, LifecycleAssumption
<1>3. LifecycleOf(o.final) \in Lifecycles
  BY <1>2, LifecycleOfType DEF Lifecycles
<1>4. row \in Records
  BY <1>2, <1>3, LifecycleAssumption
     DEF Fresh, Records, RecordKinds, Pendings, NoPending, Subjects, Actions,
         Submissions, Binding, Lifecycles
<1>5. RowOK(row, cosigner[r])
  BY <1>2, LifecycleOfType DEF Fresh, RowOK, Binding
<1>6. S \in SUBSET {"RESOLVED", "BLOCKED", "FAILED", "OPEN_AWAITING_HUMAN"}
  <2> SUFFICES ASSUME NEW q \in ListByCase(c, rec, created)
               PROVE  CaseStatusFromLifecycle(rec[q].lifecycle)
                        \in {"RESOLVED", "BLOCKED", "FAILED", "OPEN_AWAITING_HUMAN"}
    BY <1>3, FromLifecycleType DEF ChildStatuses
  <2>1. rec[q].lifecycle \in Lifecycles
    BY <1>1 DEF ListByCase, Records, IInv, TypeOK
  <2> QED BY <2>1, FromLifecycleType
<1>7. Aggregate(S) \in CaseStatuses
  <2>1. Aggregate(S) \in S
    BY <1>6, AggregateType
  <2> QED BY <1>6, <2>1 DEF CaseStatuses
<1>8. caseStatus' \in [Cases -> CaseStatuses] /\ closedAt' \in [Cases -> BOOLEAN]
  <2> DEFINE opened == IF caseStatus[c] = "NONE" THEN "OPEN_AGENT_PROCESSING" ELSE caseStatus[c]
  <2>1. opened \in CaseStatuses
    BY DEF IInv, TypeOK, CaseStatuses
  <2>2. \/ caseStatus' = [caseStatus EXCEPT ![c] = opened] /\ closedAt' = closedAt
        \/ /\ caseStatus' = [caseStatus EXCEPT ![c] = Aggregate(S)]
           /\ closedAt' = [closedAt EXCEPT ![c] = Aggregate(S) \in TERMINAL_CASE_STATUSES]
    BY DEF Resolve, CloseStamp
  <2> HIDE DEF opened, S
  <2>3. (Aggregate(S) \in TERMINAL_CASE_STATUSES) \in BOOLEAN
    BY DEF TERMINAL_CASE_STATUSES
  <2>4. caseStatus \in [Cases -> CaseStatuses] /\ closedAt \in [Cases -> BOOLEAN]
    BY DEF IInv, TypeOK
  <2>5. CASE caseStatus' = [caseStatus EXCEPT ![c] = opened] /\ closedAt' = closedAt
    BY <2>1, <2>4, <2>5
  <2>6. CASE /\ caseStatus' = [caseStatus EXCEPT ![c] = Aggregate(S)]
             /\ closedAt' = [closedAt EXCEPT ![c] = Aggregate(S) \in TERMINAL_CASE_STATUSES]
    BY <1>7, <2>3, <2>4, <2>6
  <2> QED BY <2>2, <2>5, <2>6
<1>9. TypeOK'
  BY <1>1, <1>3, <1>4, <1>8 DEF IInv, TypeOK, Resolve, Ids, Lifecycles
<1>10. ASSUME NEW q \in 1..created' PROVE RowOK(rec'[q], cosigner'[q])
  <2>1. CASE q = r
    <3>1. rec'[q] = row /\ cosigner'[q] = cosigner[r]
      BY <1>1, <2>1 DEF IInv, TypeOK, Resolve
    <3> QED BY <1>5, <3>1
  <2>2. CASE q # r
    <3>1. q \in 1..created /\ rec'[q] = rec[q] /\ cosigner'[q] = cosigner[q]
      BY <1>1, <2>2 DEF IInv, TypeOK, Resolve
    <3> QED BY <3>1 DEF IInv
  <2> QED BY <2>1, <2>2
<1> QED BY <1>9, <1>10 DEF IInv

-----------------------------------------------------------------------------
(* One lemma per handler, or per group that shares its update. *)

(* The row a disposition writes, cosigned by k or not gated, is a good one. *)
LEMMA DisposedRow ==
  ASSUME IInv, NEW r \in 1..created, NEW u \in Users, NEW k \in Subjects,
         NEW action \in {"APPROVE", "NO_ACTION", "OVERRIDE"},
         rec[r].high /\ action = "OVERRIDE" => k \in Seniors \ {u}
  PROVE  Disposed(r, u, action) \in Records /\ RowOK(Disposed(r, u, action), k)
<1>1. r \in Ids /\ rec[r] \in Records
  BY LifecycleAssumption DEF IInv, TypeOK, Ids
<1>2. Disposed(r, u, action) \in Records
  BY <1>1 DEF Disposed, Records, Lifecycles, Finals, Actions, Subjects
<1>3. RowOK(Disposed(r, u, action), k)
  BY <1>1 DEF Disposed, RowOK, Records, Binding
<1> QED BY <1>2, <1>3

(* APPROVE and REJECT keep the invariant.                                  *)
LEMMA DisposePreserves ==
  ASSUME IInv, NEW r \in Ids, NEW u \in Users, NEW action \in {"APPROVE", "NO_ACTION"},
         Dispose(r, u, action)
  PROVE  IInv'
<1>1. r \in 1..created /\ rec[r].lifecycle \in Lifecycles /\ NoUser \in Subjects
  BY DEF Dispose, Exists, Ids, IInv, TypeOK, Records, Subjects
<1>2. Disposed(r, u, action) \in Records /\ RowOK(Disposed(r, u, action), NoUser)
  BY <1>1, DisposedRow
<1>3. caseStatus' \in [Cases -> CaseStatuses] /\ closedAt' \in [Cases -> BOOLEAN]
  BY <1>1, <1>2, ReaggregateType DEF Dispose, IInv
<1> QED BY <1>1, <1>2, <1>3, WritePreserves DEF Dispose

(* An override below the threshold keeps the invariant.                    *)
LEMMA OverridePreserves ==
  ASSUME IInv, NEW r \in Ids, NEW u \in Users, Override(r, u)
  PROVE  IInv'
<1>1. r \in 1..created /\ rec[r].lifecycle \in Lifecycles /\ NoUser \in Subjects
  BY DEF Override, OverrideAllowed, Exists, Ids, IInv, TypeOK, Records, Subjects
<1>2. Disposed(r, u, "OVERRIDE") \in Records /\ RowOK(Disposed(r, u, "OVERRIDE"), NoUser)
  BY <1>1, DisposedRow DEF Override
<1>3. caseStatus' \in [Cases -> CaseStatuses] /\ closedAt' \in [Cases -> BOOLEAN]
  BY <1>1, <1>2, ReaggregateType DEF Override, IInv
<1> QED BY <1>1, <1>2, <1>3, WritePreserves DEF Override

(* Parking: the state to restore is the one the guard admitted. *)
LEMMA ParkedRow ==
  ASSUME IInv, NEW r \in 1..created, NEW u \in Users, NEW action \in Binding,
         rec[r].lifecycle \in HITL_OVERRIDE_STATES
  PROVE  Parked(r, u, action) \in Records /\ RowOK(Parked(r, u, action), cosigner[r])
<1>1. r \in Ids /\ rec[r] \in Records /\ RowOK(rec[r], cosigner[r])
  BY LifecycleAssumption DEF IInv, TypeOK, Ids
<1>2. Parked(r, u, action) \in Records
  BY <1>1 DEF Parked, Records, Lifecycles, Pendings, Subjects
<1>3. RowOK(Parked(r, u, action), cosigner[r])
  BY <1>1 DEF Parked, RowOK, Records, Binding, NoPending, HITL_OVERRIDE_STATES
<1> QED BY <1>2, <1>3

(* Staging an override or a submit keeps the invariant.                    *)
LEMMA StagePreserves ==
  ASSUME IInv, NEW r \in Ids, NEW u \in Users, StageOverride(r, u) \/ StageSubmit(r, u)
  PROVE  IInv'
<1>1. /\ r \in 1..created /\ rec[r].lifecycle \in HITL_OVERRIDE_STATES
      /\ cosigner' = cosigner /\ cosigner[r] \in Subjects
      /\ caseStatus' = caseStatus /\ closedAt' = closedAt
  BY DEF StageOverride, StageSubmit, OverrideAllowed, SubmitAllowed, Exists, Ids,
         HITL_OVERRIDE_STATES, HITL_DISPOSITION_STATES, IInv, TypeOK
<1>2. cosigner' = [cosigner EXCEPT ![r] = cosigner[r]]
  BY <1>1 DEF IInv, TypeOK
<1>3. PICK action \in Binding, previous \in Lifecycles : Write(r, Parked(r, u, action), previous)
  <2>1. CASE StageOverride(r, u)
    BY <1>1, <2>1 DEF StageOverride, Binding, Lifecycles, HITL_OVERRIDE_STATES
  <2>2. CASE StageSubmit(r, u)
    <3>1. PreviousAfterUpdate(r, Parked(r, u, "SUBMIT_TO_ERP")) \in Lifecycles
      BY <1>1, ParkedRow DEF PreviousAfterUpdate, Binding, Lifecycles, HITL_OVERRIDE_STATES, Records
    <3> QED BY <2>2, <3>1 DEF StageSubmit, Binding
  <2> QED BY <2>1, <2>2
<1>4. Parked(r, u, action) \in Records /\ RowOK(Parked(r, u, action), cosigner[r])
  BY <1>1, ParkedRow
<1>5. caseStatus' \in [Cases -> CaseStatuses] /\ closedAt' \in [Cases -> BOOLEAN]
  BY <1>1 DEF IInv, TypeOK
<1>6. cosigner[r] \in Subjects /\ Parked(r, u, action) \in Records
  BY <1>1, <1>4
<1>7. r \in 1..created
  BY <1>1
<1> QED BY <1>2, <1>3, <1>4, <1>5, <1>6, <1>7, WritePreserves

(* The submit: by u, cosigned by k or, below the threshold, by nobody. *)
LEMMA PersistErpSubmitPreserves ==
  ASSUME IInv, NEW r \in 1..created, NEW u \in Subjects, NEW k \in Subjects,
         NEW outcome \in Submissions \ {"NONE"},
         rec[r].high => k \in Seniors \ {u},
         PersistErpSubmit(r, u, outcome, k)
  PROVE  IInv'
<1> DEFINE new == Submitted(r, u, outcome)
           kk  == IF outcome = "REJECTED" THEN cosigner[r] ELSE k
<1>1. r \in Ids /\ rec[r] \in Records /\ RowOK(rec[r], cosigner[r]) /\ cosigner[r] \in Subjects
  BY LifecycleAssumption DEF IInv, TypeOK, Ids
<1>2. new \in Records
  <2>1. NoPending \in Pendings /\ "RESOLVED" \in Lifecycles /\ "COMPLETE" \in Finals
        /\ "SUBMIT_TO_ERP" \in Actions
    BY DEF NoPending, Pendings, Lifecycles, Finals, Actions, Subjects
  <2> DEFINE tried == [rec[r] EXCEPT !.pending_override = NoPending, !.erp_submission = outcome]
  <2>2. tried \in Records
    BY <1>1, <2>1 DEF Records
  <2>3. new = IF outcome = "REJECTED" THEN tried
              ELSE [tried EXCEPT !.lifecycle = "RESOLVED", !.final_status = "COMPLETE",
                                 !.resolved_by = u, !.resolved_action = "SUBMIT_TO_ERP"]
    BY DEF Submitted
  <2> HIDE DEF tried, new
  <2> QED BY <2>1, <2>2, <2>3 DEF Records
<1>3. RowOK(new, kk)
  <2>1. CASE outcome = "REJECTED"
    BY <1>1, <2>1 DEF Submitted, RowOK, Records, NoPending
  <2>2. CASE outcome # "REJECTED"
    BY <1>1, <2>2 DEF Submitted, RowOK, Records
  <2> QED BY <2>1, <2>2
<1>4. cosigner' = [cosigner EXCEPT ![r] = kk] /\ kk \in Subjects
  BY <1>1 DEF PersistErpSubmit, IInv, TypeOK
<1>5. PreviousAfterUpdate(r, new) \in Lifecycles
  BY <1>1, <1>2 DEF PreviousAfterUpdate, Records
<1>6. caseStatus' \in [Cases -> CaseStatuses] /\ closedAt' \in [Cases -> BOOLEAN]
  BY DEF PersistErpSubmit, IInv, TypeOK
<1>7. Write(r, new, PreviousAfterUpdate(r, new))
  BY DEF PersistErpSubmit
<1> HIDE DEF new, kk
<1> QED BY <1>2, <1>3, <1>4, <1>5, <1>6, <1>7, WritePreserves

(* A submit below the threshold keeps the invariant.                       *)
LEMMA SubmitPreserves ==
  ASSUME IInv, NEW r \in Ids, NEW u \in Users, NEW outcome \in Submissions \ {"NONE"},
         SubmitToErp(r, u, outcome)
  PROVE  IInv'
<1>1. r \in 1..created /\ u \in Subjects /\ NoUser \in Subjects
  BY DEF SubmitToErp, SubmitAllowed, Exists, Ids, IInv, TypeOK, Subjects
<1>2. ~rec[r].high /\ PersistErpSubmit(r, u, outcome, NoUser)
  BY DEF SubmitToErp
<1> QED BY <1>1, <1>2, PersistErpSubmitPreserves

(* Cosigning needs a senior other than the initiator: four eyes. *)
LEMMA CosignFacts ==
  ASSUME IInv, NEW r \in Ids, NEW u \in Users, CosignAllowed(r, u)
  PROVE  /\ r \in 1..created /\ rec[r] \in Records /\ RowOK(rec[r], cosigner[r])
         /\ rec[r].lifecycle = "PENDING_COSIGN"
         /\ rec[r].pending_override \in Pendings
         /\ rec[r].pending_override.action \in Binding
         /\ rec[r].pending_override.from \in HITL_OVERRIDE_STATES
         /\ rec[r].pending_override.from = "RESOLVED" => rec[r].final_status = "COMPLETE"
         /\ u \in Seniors \ {rec[r].pending_override.initiator}
         /\ u \in Subjects /\ rec[r].pending_override.initiator \in Subjects
<1>1. r \in 1..created /\ rec[r] \in Records /\ RowOK(rec[r], cosigner[r])
  BY DEF CosignAllowed, Exists, Ids, IInv, TypeOK
<1>2. rec[r].pending_override \in Pendings
  BY <1>1 DEF Records
<1> QED BY <1>1, <1>2 DEF CosignAllowed, COSIGN_ELIGIBLE_STATES, RowOK, Pendings, Subjects

(* An approved override keeps the invariant.                               *)
LEMMA CosignApprovePreserves ==
  ASSUME IInv, NEW r \in Ids, NEW u \in Users, CosignApprove(r, u)
  PROVE  IInv'
<1> DEFINE p   == rec[r].pending_override
           new == [rec[r] EXCEPT !.resolved_by = p.initiator, !.resolved_action = p.action,
                                 !.lifecycle = "RESOLVED", !.final_status = "COMPLETE",
                                 !.pending_override = NoPending]
<1>1. /\ r \in 1..created /\ rec[r] \in Records /\ u \in Seniors \ {p.initiator}
      /\ p.action \in Binding /\ p.initiator \in Subjects /\ u \in Subjects
      /\ rec[r].lifecycle \in Lifecycles
  BY CosignFacts DEF CosignApprove, Lifecycles
<1>2. new \in Records
  BY <1>1 DEF Records, Lifecycles, Finals, Actions, Binding, Pendings, NoPending, Subjects
<1>3. RowOK(new, u)
  BY <1>1 DEF RowOK, Records
<1>4. /\ Write(r, new, rec[r].lifecycle) /\ Reaggregate(r, new)
      /\ cosigner' = [cosigner EXCEPT ![r] = u]
  BY DEF CosignApprove
<1> HIDE DEF new
<1>5. caseStatus' \in [Cases -> CaseStatuses] /\ closedAt' \in [Cases -> BOOLEAN]
  BY <1>1, <1>2, <1>4, ReaggregateType DEF IInv
<1> QED BY <1>1, <1>2, <1>3, <1>4, <1>5, WritePreserves

(* A cosigned submit keeps the invariant, accepted or rejected.            *)
LEMMA CosignSubmitPreserves ==
  ASSUME IInv, NEW r \in Ids, NEW u \in Users, NEW outcome \in Submissions \ {"NONE"},
         CosignSubmit(r, u, outcome)
  PROVE  IInv'
BY CosignFacts, PersistErpSubmitPreserves DEF CosignSubmit

(* A rejected cosign restores a state the guards admitted.                 *)
LEMMA CosignRejectPreserves ==
  ASSUME IInv, NEW r \in Ids, NEW u \in Users, CosignReject(r, u)
  PROVE  IInv'
<1> DEFINE new == [rec[r] EXCEPT !.lifecycle = rec[r].pending_override.from,
                                 !.pending_override = NoPending]
<1>1. /\ r \in 1..created /\ rec[r] \in Records /\ RowOK(rec[r], cosigner[r])
      /\ rec[r].pending_override.from \in HITL_OVERRIDE_STATES
      /\ rec[r].pending_override.from = "RESOLVED" => rec[r].final_status = "COMPLETE"
      /\ rec[r].lifecycle \in Lifecycles
  BY CosignFacts DEF CosignReject, Lifecycles
<1>2. new \in Records
  BY <1>1 DEF Records, Lifecycles, HITL_OVERRIDE_STATES, Pendings, NoPending, Subjects, Binding
<1>3. RowOK(new, cosigner[r])
  BY <1>1 DEF RowOK, Records, HITL_OVERRIDE_STATES, NoPending
<1>4. /\ Write(r, new, rec[r].lifecycle) /\ Reaggregate(r, new) /\ cosigner' = cosigner
  BY DEF CosignReject, Unparked
<1> HIDE DEF new
<1>5. caseStatus' \in [Cases -> CaseStatuses] /\ closedAt' \in [Cases -> BOOLEAN]
  BY <1>1, <1>2, <1>4, ReaggregateType DEF IInv
<1>6. cosigner[r] \in Subjects /\ cosigner' = [cosigner EXCEPT ![r] = cosigner[r]]
  BY <1>4 DEF IInv, TypeOK
<1> QED BY <1>1, <1>2, <1>3, <1>4, <1>5, <1>6, WritePreserves

(* Escalate, challenge and admin-release only move the lifecycle. *)
LEMMA MovePreserves ==
  ASSUME IInv, NEW r \in 1..created, NEW l \in {"ESCALATED", "PENDING_ADMIN_REVIEW"},
         NEW previous \in Lifecycles,
         Write(r, [rec[r] EXCEPT !.lifecycle = l], previous), cosigner' = cosigner,
         Reaggregate(r, [rec[r] EXCEPT !.lifecycle = l])
  PROVE  IInv'
<1> DEFINE new == [rec[r] EXCEPT !.lifecycle = l]
<1>1. r \in Ids /\ rec[r] \in Records /\ RowOK(rec[r], cosigner[r])
  BY LifecycleAssumption DEF IInv, TypeOK, Ids
<1>2. new \in Records /\ RowOK(new, cosigner[r])
  BY <1>1 DEF Records, Lifecycles, RowOK
<1>3. caseStatus' \in [Cases -> CaseStatuses] /\ closedAt' \in [Cases -> BOOLEAN]
  BY <1>2, ReaggregateType DEF IInv
<1>4. cosigner[r] \in Subjects /\ cosigner' = [cosigner EXCEPT ![r] = cosigner[r]]
  BY <1>1 DEF IInv, TypeOK
<1> QED BY <1>2, <1>3, <1>4, WritePreserves

(* Escalate, challenge and admin-release keep the invariant.               *)
LEMMA RoutingPreserves ==
  ASSUME IInv, NEW r \in Ids, Escalate(r) \/ Challenge(r) \/ AdminRelease(r)
  PROVE  IInv'
<1>1. r \in 1..created /\ rec[r].lifecycle \in Lifecycles
  BY DEF Escalate, Challenge, AdminRelease, Exists, Ids, IInv, TypeOK, Records
<1>2. CASE Escalate(r)
  BY <1>1, <1>2, MovePreserves DEF Escalate
<1>3. CASE Challenge(r)
  BY <1>1, <1>3, MovePreserves DEF Challenge, Lifecycles
<1>4. CASE AdminRelease(r)
  BY <1>1, <1>4, MovePreserves DEF AdminRelease, Lifecycles
<1> QED BY <1>2, <1>3, <1>4

(* The graph replay rewrites both status columns together.                 *)
LEMMA ReanalyzePreserves ==
  ASSUME IInv, NEW r \in Ids, NEW o \in Outcomes, Reanalyze(r, o)
  PROVE  IInv'
<1> DEFINE new == [rec[r] EXCEPT !.verdict = o.verdict, !.final_status = o.final,
                                 !.lifecycle = LifecycleOf(o.final), !.attempts = @ + 1]
<1>1. /\ r \in 1..created /\ rec[r] \in Records /\ RowOK(rec[r], cosigner[r])
      /\ rec[r].lifecycle \in Lifecycles /\ rec[r].attempts \in 0..ReanalysisMaxAttempts
      /\ rec[r].attempts < ReanalysisMaxAttempts
  BY DEF Reanalyze, ReanalyzeEligible, Exists, Ids, IInv, TypeOK, Records
<1>2. o.verdict \in Verdicts /\ o.final \in Finals
  BY OutcomeType
<1>3. /\ LifecycleOf(o.final) \in {"RESOLVED", "FAILED", "PENDING_REVIEW", "BLOCKED", "REJECTED"}
      /\ LifecycleOf(o.final) = "RESOLVED" => o.final = "COMPLETE"
      /\ LifecycleOf(o.final) = "REJECTED" => o.final = "REJECTED"
  BY <1>2, LifecycleOfType
<1>4. new \in Records
  <2>1. /\ LifecycleOf(o.final) \in Lifecycles
        /\ rec[r].attempts + 1 \in 0..ReanalysisMaxAttempts
    BY <1>1, <1>3, LifecycleAssumption DEF Lifecycles
  <2> QED BY <1>1, <1>2, <2>1 DEF Records
<1>5. RowOK(new, cosigner[r])
  BY <1>1, <1>3 DEF RowOK, Records
<1>6. /\ Write(r, new, rec[r].lifecycle) /\ Reaggregate(r, new) /\ cosigner' = cosigner
  BY DEF Reanalyze
<1> HIDE DEF new
<1>7. caseStatus' \in [Cases -> CaseStatuses] /\ closedAt' \in [Cases -> BOOLEAN]
  BY <1>1, <1>4, <1>6, ReaggregateType DEF IInv
<1>8. cosigner[r] \in Subjects /\ cosigner' = [cosigner EXCEPT ![r] = cosigner[r]]
  BY <1>6 DEF IInv, TypeOK
<1> QED BY <1>1, <1>4, <1>5, <1>6, <1>7, <1>8, WritePreserves

(* The case-level override touches no record. *)
LEMMA CaseOverridePreserves ==
  ASSUME IInv, NEW c \in Cases, NEW u \in Users,
         \/ InitiateCaseOverride(c, u)
         \/ \E approve \in BOOLEAN : CosignCaseOverride(c, u, approve)
  PROVE  IInv'
<1>1. created' = created /\ rec' = rec /\ audit' = audit /\ cosigner' = cosigner
  BY DEF InitiateCaseOverride, CosignCaseOverride
<1>2. /\ caseStatus' \in [Cases -> CaseStatuses] /\ closedAt' \in [Cases -> BOOLEAN]
      /\ casePending' \in [Cases -> Subjects]
  <2>1. CASE InitiateCaseOverride(c, u)
    BY <2>1 DEF InitiateCaseOverride, IInv, TypeOK, CaseStatuses, Subjects
  <2>2. ASSUME NEW approve \in BOOLEAN, CosignCaseOverride(c, u, approve)
        PROVE  /\ caseStatus' \in [Cases -> CaseStatuses] /\ closedAt' \in [Cases -> BOOLEAN]
               /\ casePending' \in [Cases -> Subjects]
    BY <2>2 DEF CosignCaseOverride, IInv, TypeOK, CaseStatuses, Subjects
  <2> QED BY <2>1, <2>2
<1>3. overridden' \subseteq Cases
  BY DEF InitiateCaseOverride, CosignCaseOverride, IInv, TypeOK
<1>4. TypeOK'
  BY <1>1, <1>2, <1>3 DEF IInv, TypeOK
<1> QED BY <1>1, <1>4 DEF IInv

-----------------------------------------------------------------------------
(* Every handler keeps the invariant.                                      *)
LEMMA NextPreserves == IInv /\ [Next]_vars => IInv'
<1> SUFFICES ASSUME IInv, [Next]_vars PROVE IInv'
  OBVIOUS
<1>1. CASE CaseStep
  BY <1>1, ResolvePreserves, CaseOverridePreserves DEF CaseStep
<1>2. ASSUME NEW r \in Ids, RoutingStep(r) PROVE IInv'
  BY <1>2, RoutingPreserves, ReanalyzePreserves DEF RoutingStep
<1>3. ASSUME NEW r \in Ids, NEW u \in Users, UserStep(r, u) PROVE IInv'
  BY <1>3, DisposePreserves, OverridePreserves, StagePreserves, SubmitPreserves,
     CosignApprovePreserves, CosignSubmitPreserves, CosignRejectPreserves DEF UserStep
<1>4. CASE UNCHANGED vars
  BY <1>4 DEF vars, IInv, TypeOK
<1> QED BY <1>1, <1>2, <1>3, <1>4 DEF Next

(* The invariant contains the properties the runs check.                   *)
LEMMA IInvImplies ==
  IInv => TypeOK /\ FourEyes /\ SettledMatchesFinalStatus /\ ParkedIsCosignable
BY DEF IInv, RowOK, FourEyes, SettledMatchesFinalStatus, ParkedIsCosignable

(* The invariant of the record life cycle. *)
THEOREM Invariance == Spec => []IInv
<1>1. Init => IInv
  BY InitHolds
<1>2. IInv /\ [Next]_vars => IInv'
  BY NextPreserves
<1> QED BY <1>1, <1>2, PTL DEF Spec

(* Every handler writes values of the declared types (contracts/models.py). *)
THEOREM TypeCorrect == Spec => []TypeOK
BY Invariance, IInvImplies, PTL

(* No sequence of handler calls commits a high-value override or submit    *)
(* without a second senior (dispositions and override/cosign).             *)
THEOREM FourEyesHolds == Spec => []FourEyes
BY Invariance, IInvImplies, PTL

(* No sequence of handler calls leaves a row whose two status columns       *)
(* disagree once it is settled, or one parked without what the cosign       *)
(* endpoint needs, unless a cosigned submit was rejected.                   *)
THEOREM CoherenceHolds == Spec => []RowsAreCoherent
<1>1. IInv => RowsAreCoherent
  BY IInvImplies DEF RowsAreCoherent
<1> QED BY <1>1, Invariance, PTL

-----------------------------------------------------------------------------
(* The case and its children.                                              *)

(* What the children of a case are counted as, and whether a handler has   *)
(* left one of them without a roll-up.                                     *)
Kids(c) == {r \in 1..created : rec[r].parent = c}
KidStatuses(c) == {CaseStatusFromLifecycle(rec[r].lifecycle) : r \in Kids(c)}
Lags(c) ==
  \E r \in Kids(c) : rec[r].lifecycle = "PENDING_COSIGN" \/ rec[r].resolved_action = "SUBMIT_TO_ERP"

(* A case parked for its cosigner is one somebody overrode. *)
CaseInv ==
  /\ CaseFollowsChildren
  /\ \A c \in Cases : casePending[c] # NoUser => c \in overridden

(* CaseStatusTracksChildren in the words above. *)
LEMMA TracksChildren ==
  CaseStatusTracksChildren <=>
    (created <= PageLimit => \A c \in Cases \ overridden :
       Kids(c) = {} \/ caseStatus[c] = Aggregate(KidStatuses(c)) \/ Lags(c))
BY DEF CaseStatusTracksChildren, Kids, KidStatuses, Lags

(* The same, of the next state. *)
LEMMA TracksChildrenNext ==
  CaseStatusTracksChildren' <=>
    (created' <= PageLimit => \A c \in Cases \ overridden' :
       Kids(c)' = {} \/ caseStatus'[c] = Aggregate(KidStatuses(c)') \/ Lags(c)')
BY DEF CaseStatusTracksChildren, Kids, KidStatuses, Lags

(* A row that is rewritten stays its case's, and the other cases' children *)
(* stay what they were.                                                    *)
LEMMA OtherKids ==
  ASSUME IInv, NEW r \in 1..created, NEW new \in Records, new.parent = rec[r].parent,
         rec' = [rec EXCEPT ![r] = new], created' = created
  PROVE  /\ \A c : Kids(c)' = Kids(c)
         /\ rec'[r] = new /\ \A q \in 1..created : q # r => rec'[q] = rec[q]
         /\ r \in Kids(rec[r].parent) /\ rec[r].parent \in Cases
         /\ \A c : c # rec[r].parent => KidStatuses(c)' = KidStatuses(c) /\ Lags(c)' = Lags(c)
<1>1. r \in Ids /\ 1..created \subseteq Ids /\ rec \in [Ids -> Records]
  BY LifecycleAssumption DEF IInv, TypeOK, Ids
<1>2. rec'[r] = new /\ \A q \in 1..created : q # r => rec'[q] = rec[q]
  BY <1>1
<1>3. \A q \in 1..created : rec'[q].parent = rec[q].parent
  BY <1>2
<1>4. \A c : Kids(c)' = Kids(c)
  BY <1>3 DEF Kids
<1>5. r \in Kids(rec[r].parent) /\ rec[r].parent \in Cases
  BY <1>1 DEF Kids, Records
<1>6. ASSUME NEW c, c # rec[r].parent
      PROVE  KidStatuses(c)' = KidStatuses(c) /\ Lags(c)' = Lags(c)
  <2>1. \A q \in Kids(c) : rec'[q] = rec[q]
    BY <1>2, <1>6 DEF Kids
  <2>2. Kids(c)' = Kids(c)
    BY <1>4
  <2>3. KidStatuses(c)' = {CaseStatusFromLifecycle(rec'[q].lifecycle) : q \in Kids(c)}
    BY <2>2 DEF KidStatuses
  <2>4. KidStatuses(c)' = KidStatuses(c)
    BY <2>1, <2>3 DEF KidStatuses
  <2> QED BY <2>1, <2>2, <2>4 DEF Lags
<1> QED BY <1>2, <1>4, <1>5, <1>6

(* A roll-up after the row was written: the case has its children's status *)
(* and stamp again, unless it waits for its cosigner.                      *)
LEMMA RollUpKeeps ==
  ASSUME IInv, CaseInv, NEW r \in 1..created, NEW new \in Records, NEW previous,
         new.parent = rec[r].parent, Write(r, new, previous), Reaggregate(r, new)
  PROVE  CaseInv'
<1>1. PICK c : c = rec[r].parent
  OBVIOUS
<1>2. PICK S : S = ChildStatuses(c, rec', created)
  OBVIOUS
<1>3. /\ rec' = [rec EXCEPT ![r] = new] /\ UNCHANGED <<created, casePending, overridden>>
      /\ RecomputeCase(c, S)
  BY <1>1, <1>2 DEF Write, Reaggregate
<1>4. /\ \A d : Kids(d)' = Kids(d) /\ (d # c => KidStatuses(d)' = KidStatuses(d) /\ Lags(d)' = Lags(d))
      /\ r \in Kids(c) /\ c \in Cases
  BY <1>1, <1>3, OtherKids
<1>5. caseStatus \in [Cases -> CaseStatuses] /\ closedAt \in [Cases -> BOOLEAN]
  BY DEF IInv, TypeOK
<1>6. \/ UNCHANGED <<caseStatus, closedAt>> /\ (~NotParked(c) \/ S = {} \/ Aggregate(S) = caseStatus[c])
      \/ /\ NotParked(c)
         /\ caseStatus' = [caseStatus EXCEPT ![c] = Aggregate(S)]
         /\ closedAt' = [closedAt EXCEPT ![c] = Aggregate(S) \in TERMINAL_CASE_STATUSES]
  BY <1>3 DEF RecomputeCase, CloseStamp
<1>7. /\ \A d \in Cases : d # c => caseStatus'[d] = caseStatus[d] /\ closedAt'[d] = closedAt[d]
      /\ casePending[c] # NoUser => UNCHANGED caseStatus
      /\ casePending[c] = NoUser /\ S # {} => caseStatus'[c] = Aggregate(S)
      /\ \/ caseStatus'[c] = caseStatus[c] /\ closedAt'[c] = closedAt[c]
         \/ closedAt'[c] <=> caseStatus'[c] \in TERMINAL_CASE_STATUSES
  BY <1>4, <1>5, <1>6 DEF NotParked
<1>8. CosignParkedCaseStaysOpen'
  BY <1>3, <1>7 DEF CaseInv, CaseFollowsChildren, CosignParkedCaseStaysOpen
<1>9. CloseStampMatchesStatus'
  BY <1>3, <1>7 DEF CaseInv, CaseFollowsChildren, CloseStampMatchesStatus
<1>10. CaseStatusTracksChildren'
  <2>1. ASSUME created <= PageLimit PROVE S = KidStatuses(c)'
    <3>1. \A q \in 1..created : q + PageLimit > created
      BY <2>1, LifecycleAssumption DEF LifecycleAssumption, IInv, TypeOK
    <3>2. ListByCase(c, rec', created) = Kids(c)'
      BY <1>3, <3>1 DEF ListByCase, Kids
    <3> QED BY <1>2, <3>2 DEF ChildStatuses, KidStatuses
  <2>2. KidStatuses(c)' # {}
    BY <1>4 DEF KidStatuses
  <2>3. ASSUME created <= PageLimit, NEW d \in Cases \ overridden
        PROVE  Kids(d)' = {} \/ caseStatus'[d] = Aggregate(KidStatuses(d)') \/ Lags(d)'
    <3>1. CASE d = c
      <4>1. casePending[c] = NoUser
        BY <2>3, <3>1 DEF CaseInv
      <4> QED BY <1>7, <2>1, <2>2, <2>3, <3>1, <4>1
    <3>2. CASE d # c
      <4>1. Kids(d) = {} \/ caseStatus[d] = Aggregate(KidStatuses(d)) \/ Lags(d)
        BY <2>3, TracksChildren DEF CaseInv, CaseFollowsChildren
      <4> QED BY <1>4, <1>7, <2>3, <3>2, <4>1
    <3> QED BY <3>1, <3>2
  <2> QED BY <1>3, <2>3, TracksChildrenNext
<1> QED BY <1>3, <1>8, <1>9, <1>10 DEF CaseInv, CaseFollowsChildren

(* A row written without a roll-up: the case lags, or nothing it counts    *)
(* has changed.                                                            *)
LEMMA LagKeeps ==
  ASSUME IInv, CaseInv, NEW r \in 1..created, NEW new \in Records, NEW previous,
         new.parent = rec[r].parent, Write(r, new, previous), UNCHANGED <<caseStatus, closedAt>>,
         \/ new.lifecycle = "PENDING_COSIGN" \/ new.resolved_action = "SUBMIT_TO_ERP"
         \/ new.lifecycle = rec[r].lifecycle /\ new.resolved_action = rec[r].resolved_action
  PROVE  CaseInv'
<1>1. PICK c : c = rec[r].parent
  OBVIOUS
<1>2. rec' = [rec EXCEPT ![r] = new] /\ UNCHANGED <<created, casePending, overridden>>
  BY DEF Write
<1>3. /\ \A d : Kids(d)' = Kids(d) /\ (d # c => KidStatuses(d)' = KidStatuses(d) /\ Lags(d)' = Lags(d))
      /\ r \in Kids(c) /\ rec'[r] = new /\ \A q \in 1..created : q # r => rec'[q] = rec[q]
  BY <1>1, <1>2, OtherKids
<1>4. CosignParkedCaseStaysOpen' /\ CloseStampMatchesStatus'
  BY <1>2 DEF CaseInv, CaseFollowsChildren, CosignParkedCaseStaysOpen, CloseStampMatchesStatus
<1>5. CASE new.lifecycle = "PENDING_COSIGN" \/ new.resolved_action = "SUBMIT_TO_ERP"
  <2>1. Lags(c)'
    BY <1>3, <1>5 DEF Lags
  <2>2. CaseStatusTracksChildren'
    BY <1>2, <1>3, <2>1, TracksChildren, TracksChildrenNext DEF CaseInv, CaseFollowsChildren
  <2> QED BY <1>2, <1>4, <2>2 DEF CaseInv, CaseFollowsChildren
<1>6. CASE new.lifecycle = rec[r].lifecycle /\ new.resolved_action = rec[r].resolved_action
  <2>1. \A q \in 1..created : rec'[q].lifecycle = rec[q].lifecycle
                              /\ rec'[q].resolved_action = rec[q].resolved_action
    BY <1>3, <1>6
  <2>2. \A d : Kids(d) \subseteq 1..created
    BY DEF Kids
  <2>3. \A d : Lags(d)' = Lags(d)
    BY <1>3, <2>1, <2>2 DEF Lags
  <2>4. ASSUME NEW d PROVE KidStatuses(d)' = KidStatuses(d)
    <3>1. KidStatuses(d)' = {CaseStatusFromLifecycle(rec'[q].lifecycle) : q \in Kids(d)}
      BY <1>3 DEF KidStatuses
    <3>2. \A q \in Kids(d) : rec'[q].lifecycle = rec[q].lifecycle
      BY <2>1, <2>2
    <3>3. {CaseStatusFromLifecycle(rec'[q].lifecycle) : q \in Kids(d)}
            = {CaseStatusFromLifecycle(rec[q].lifecycle) : q \in Kids(d)}
      BY <3>2
    <3>4. KidStatuses(d) = {CaseStatusFromLifecycle(rec[q].lifecycle) : q \in Kids(d)}
      BY DEF KidStatuses
    <3> QED BY <3>1, <3>3, <3>4
  <2>5. CaseStatusTracksChildren'
    BY <1>2, <1>3, <2>3, <2>4, TracksChildren, TracksChildrenNext DEF CaseInv, CaseFollowsChildren
  <2> QED BY <1>2, <1>4, <2>5 DEF CaseInv, CaseFollowsChildren
<1> QED BY <1>5, <1>6

(* The handlers that end with _reaggregate_parent_case.                    *)
LEMMA RollUpSteps ==
  ASSUME IInv, CaseInv, NEW r \in Ids, NEW u \in Users,
         \/ \E action \in {"APPROVE", "NO_ACTION"} : Dispose(r, u, action)
         \/ Override(r, u) \/ CosignApprove(r, u) \/ CosignReject(r, u)
  PROVE  CaseInv'
<1>1. CASE \E action \in {"APPROVE", "NO_ACTION"} : Dispose(r, u, action)
  <2>1. PICK action \in {"APPROVE", "NO_ACTION"} : Dispose(r, u, action)
    BY <1>1
  <2>2. r \in 1..created /\ rec[r] \in Records /\ NoUser \in Subjects
    BY <2>1 DEF Dispose, Exists, Ids, IInv, TypeOK, Subjects
  <2>3. Disposed(r, u, action) \in Records
    BY <2>2, DisposedRow
  <2>4. Disposed(r, u, action).parent = rec[r].parent
    BY <2>2 DEF Disposed, Records
  <2> QED BY <2>1, <2>2, <2>3, <2>4, RollUpKeeps DEF Dispose
<1>2. CASE Override(r, u)
  <2>1. r \in 1..created /\ rec[r] \in Records /\ NoUser \in Subjects /\ ~rec[r].high
    BY <1>2 DEF Override, OverrideAllowed, Exists, Ids, IInv, TypeOK, Subjects
  <2>2. Disposed(r, u, "OVERRIDE") \in Records
    BY <2>1, DisposedRow
  <2>3. Disposed(r, u, "OVERRIDE").parent = rec[r].parent
    BY <2>1 DEF Disposed, Records
  <2> QED BY <1>2, <2>1, <2>2, <2>3, RollUpKeeps DEF Override
<1>3. CASE CosignApprove(r, u)
  <2> DEFINE p   == rec[r].pending_override
             new == [rec[r] EXCEPT !.resolved_by = p.initiator, !.resolved_action = p.action,
                                   !.lifecycle = "RESOLVED", !.final_status = "COMPLETE",
                                   !.pending_override = NoPending]
  <2>1. r \in 1..created /\ rec[r] \in Records /\ p.action \in Binding /\ p.initiator \in Subjects
    BY <1>3, CosignFacts DEF CosignApprove
  <2>2. new \in Records
    BY <2>1 DEF Records, Lifecycles, Finals, Actions, Binding, Pendings, NoPending, Subjects
  <2>3. new.parent = rec[r].parent
    BY <2>1 DEF Records
  <2>4. Write(r, new, rec[r].lifecycle) /\ Reaggregate(r, new)
    BY <1>3 DEF CosignApprove
  <2> HIDE DEF new
  <2> QED BY <2>1, <2>2, <2>3, <2>4, RollUpKeeps
<1>4. CASE CosignReject(r, u)
  <2>1. r \in 1..created /\ rec[r] \in Records
        /\ rec[r].pending_override.from \in HITL_OVERRIDE_STATES
    BY <1>4, CosignFacts DEF CosignReject
  <2>2. Unparked(r) \in Records /\ Unparked(r).parent = rec[r].parent
    BY <2>1 DEF Unparked, Records, Lifecycles, HITL_OVERRIDE_STATES, Pendings, NoPending,
       Subjects, Binding
  <2> QED BY <1>4, <2>1, <2>2, RollUpKeeps DEF CosignReject
<1> QED BY <1>1, <1>2, <1>3, <1>4

(* So do the routing handlers.                                             *)
LEMMA RoutingRollsUp ==
  ASSUME IInv, CaseInv, NEW r \in Ids, RoutingStep(r)
  PROVE  CaseInv'
<1>1. r \in 1..created /\ rec[r] \in Records
  <2>1. Exists(r)
    BY DEF RoutingStep, Escalate, Challenge, AdminRelease, Reanalyze
  <2> QED BY <2>1 DEF Exists, Ids, IInv, TypeOK
<1>2. ASSUME NEW l \in {"ESCALATED", "PENDING_ADMIN_REVIEW"}, NEW previous,
             Write(r, [rec[r] EXCEPT !.lifecycle = l], previous),
             Reaggregate(r, [rec[r] EXCEPT !.lifecycle = l])
      PROVE  CaseInv'
  <2> DEFINE new == [rec[r] EXCEPT !.lifecycle = l]
  <2>1. new \in Records /\ new.parent = rec[r].parent
    BY <1>1 DEF Records, Lifecycles
  <2>2. Write(r, new, previous) /\ Reaggregate(r, new)
    BY <1>2
  <2> HIDE DEF new
  <2> QED BY <1>1, <2>1, <2>2, RollUpKeeps
<1>3. CASE Escalate(r) \/ Challenge(r) \/ AdminRelease(r)
  BY <1>2, <1>3 DEF Escalate, Challenge, AdminRelease
<1>4. ASSUME NEW o \in Outcomes, Reanalyze(r, o) PROVE CaseInv'
  <2> DEFINE new == [rec[r] EXCEPT !.verdict = o.verdict, !.final_status = o.final,
                                   !.lifecycle = LifecycleOf(o.final), !.attempts = @ + 1]
  <2>1. o.verdict \in Verdicts /\ o.final \in Finals /\ LifecycleOf(o.final) \in Lifecycles
    BY OutcomeType, LifecycleOfType DEF Lifecycles
  <2>2. rec[r].attempts + 1 \in 0..ReanalysisMaxAttempts
    BY <1>1, <1>4, LifecycleAssumption DEF Reanalyze, ReanalyzeEligible, Records
  <2>3. new \in Records /\ new.parent = rec[r].parent
    BY <1>1, <2>1, <2>2 DEF Records
  <2>4. Write(r, new, rec[r].lifecycle) /\ Reaggregate(r, new)
    BY <1>4 DEF Reanalyze
  <2> HIDE DEF new
  <2> QED BY <1>1, <2>3, <2>4, RollUpKeeps
<1> QED BY <1>3, <1>4 DEF RoutingStep

(* The handlers that return before the roll-up: staging and the submit.    *)
LEMMA LagSteps ==
  ASSUME IInv, CaseInv, NEW r \in Ids, NEW u \in Users,
         \/ StageOverride(r, u) \/ StageSubmit(r, u)
         \/ \E outcome \in Submissions \ {"NONE"} :
              SubmitToErp(r, u, outcome) \/ CosignSubmit(r, u, outcome)
  PROVE  CaseInv'
<1>1. ASSUME NEW action \in Binding, NEW previous, r \in 1..created,
             rec[r].lifecycle \in HITL_OVERRIDE_STATES,
             Write(r, Parked(r, u, action), previous), UNCHANGED <<caseStatus, closedAt>>
      PROVE  CaseInv'
  <2>1. Parked(r, u, action) \in Records /\ rec[r] \in Records
    BY <1>1, ParkedRow DEF IInv, TypeOK
  <2>2. Parked(r, u, action).parent = rec[r].parent
        /\ Parked(r, u, action).lifecycle = "PENDING_COSIGN"
    BY <2>1 DEF Parked, Records
  <2> QED BY <1>1, <2>1, <2>2, LagKeeps
<1>2. CASE StageOverride(r, u)
  BY <1>1, <1>2 DEF StageOverride, OverrideAllowed, Exists, Ids, Binding, IInv, TypeOK
<1>3. CASE StageSubmit(r, u)
  BY <1>1, <1>3 DEF StageSubmit, SubmitAllowed, Exists, Ids, Binding, IInv, TypeOK,
     HITL_OVERRIDE_STATES, HITL_DISPOSITION_STATES
<1>4. ASSUME NEW v \in Subjects, NEW k, NEW outcome \in Submissions \ {"NONE"},
             r \in 1..created, PersistErpSubmit(r, v, outcome, k)
      PROVE  CaseInv'
  <2> DEFINE tried == [rec[r] EXCEPT !.pending_override = NoPending, !.erp_submission = outcome]
             new   == Submitted(r, v, outcome)
  <2>1. rec[r] \in Records /\ NoPending \in Pendings
    BY <1>4 DEF IInv, TypeOK, Ids, NoPending, Pendings, Lifecycles, Subjects
  <2>2. /\ tried \in Records /\ tried.parent = rec[r].parent
        /\ tried.lifecycle = rec[r].lifecycle /\ tried.resolved_action = rec[r].resolved_action
    BY <2>1 DEF Records
  <2>3. new = IF outcome = "REJECTED" THEN tried
              ELSE [tried EXCEPT !.lifecycle = "RESOLVED", !.final_status = "COMPLETE",
                                 !.resolved_by = v, !.resolved_action = "SUBMIT_TO_ERP"]
    BY DEF Submitted
  <2>4. /\ new \in Records /\ new.parent = rec[r].parent
        /\ \/ new.resolved_action = "SUBMIT_TO_ERP"
           \/ new.lifecycle = rec[r].lifecycle /\ new.resolved_action = rec[r].resolved_action
    <3> HIDE DEF tried, new
    <3>1. "RESOLVED" \in Lifecycles /\ "COMPLETE" \in Finals /\ "SUBMIT_TO_ERP" \in Actions
      BY DEF Lifecycles, Finals, Actions
    <3> QED BY <2>2, <2>3, <3>1 DEF Records
  <2>5. /\ Write(r, new, PreviousAfterUpdate(r, new))
        /\ UNCHANGED <<caseStatus, closedAt>>
    BY <1>4 DEF PersistErpSubmit
  <2> HIDE DEF new
  <2> QED BY <1>4, <2>4, <2>5, LagKeeps
<1>5. ASSUME NEW outcome \in Submissions \ {"NONE"}, SubmitToErp(r, u, outcome)
      PROVE  CaseInv'
  <2>1. r \in 1..created /\ u \in Subjects
    BY <1>5 DEF SubmitToErp, SubmitAllowed, Exists, Ids, IInv, TypeOK, Subjects
  <2> QED BY <1>4, <1>5, <2>1 DEF SubmitToErp
<1>6. ASSUME NEW outcome \in Submissions \ {"NONE"}, CosignSubmit(r, u, outcome)
      PROVE  CaseInv'
  BY <1>4, <1>6, CosignFacts DEF CosignSubmit
<1> QED BY <1>2, <1>3, <1>5, <1>6

(* A resolve attaches its row to the case: the case takes the status of    *)
(* its children with the new one among them.                               *)
LEMMA ResolveKeeps ==
  ASSUME IInv, CaseInv, NEW c \in Cases, NEW kind \in Kinds, NEW o \in Outcomes,
         Resolve(c, kind, o)
  PROVE  CaseInv'
<1> DEFINE row    == Fresh(c, kind, o)
           inc    == CaseStatusFromLifecycle(LifecycleOf(o.final))
           opened == IF caseStatus[c] = "NONE" THEN "OPEN_AGENT_PROCESSING" ELSE caseStatus[c]
<1>1. PICK r : r = created + 1
  OBVIOUS
<1>2. PICK S : S = ChildStatuses(c, rec, created) \cup {inc}
  OBVIOUS
<1>3. /\ r \in Ids /\ created' = r /\ 1..created' = 1..created \cup {r}
      /\ 1..created \subseteq Ids /\ r \notin 1..created
  BY <1>1, LifecycleAssumption DEF IInv, TypeOK, Ids, Resolve
<1>4. rec' = [rec EXCEPT ![r] = row] /\ rec \in [Ids -> Records]
  BY <1>1 DEF Resolve, IInv, TypeOK
<1>5. row.parent = c /\ row.lifecycle = LifecycleOf(o.final)
  BY DEF Fresh
<1>6. rec'[r] = row /\ \A q \in 1..created : rec'[q] = rec[q]
  BY <1>3, <1>4
<1>7. Aggregate(S) \in {"RESOLVED", "BLOCKED", "FAILED", "OPEN_AWAITING_HUMAN"}
  <2>1. LifecycleOf(o.final) \in Lifecycles
    BY OutcomeType, LifecycleOfType DEF Lifecycles
  <2>2. ASSUME NEW q \in ListByCase(c, rec, created) PROVE rec[q].lifecycle \in Lifecycles
    BY <1>3, <1>4 DEF ListByCase, Records
  <2>3. S \in SUBSET {"RESOLVED", "BLOCKED", "FAILED", "OPEN_AWAITING_HUMAN"} /\ S # {}
    BY <1>2, <2>1, <2>2, FromLifecycleType DEF ChildStatuses
  <2>4. Aggregate(S) \in S
    BY <2>3, AggregateType
  <2> QED BY <2>3, <2>4
<1>8. /\ UNCHANGED <<casePending, overridden>>
      /\ IF ~NotParked(c) \/ Aggregate(S) = opened
         THEN caseStatus' = [caseStatus EXCEPT ![c] = opened] /\ UNCHANGED closedAt
         ELSE /\ caseStatus' = [caseStatus EXCEPT ![c] = Aggregate(S)]
              /\ closedAt' = [closedAt EXCEPT ![c] = Aggregate(S) \in TERMINAL_CASE_STATUSES]
  BY <1>2 DEF Resolve, CloseStamp
<1>9. /\ caseStatus \in [Cases -> CaseStatuses] /\ closedAt \in [Cases -> BOOLEAN]
      /\ casePending[c] # NoUser => caseStatus[c] = "OPEN_AWAITING_HUMAN"
  BY DEF IInv, TypeOK, CaseInv, CaseFollowsChildren, CosignParkedCaseStaysOpen
<1>10. /\ \A d \in Cases : d # c => caseStatus'[d] = caseStatus[d] /\ closedAt'[d] = closedAt[d]
       /\ casePending[c] # NoUser => caseStatus'[c] = caseStatus[c] /\ closedAt'[c] = closedAt[c]
       /\ casePending[c] = NoUser => caseStatus'[c] = Aggregate(S)
       /\ \/ caseStatus'[c] = caseStatus[c] /\ closedAt'[c] = closedAt[c]
          \/ closedAt'[c] <=> caseStatus'[c] \in TERMINAL_CASE_STATUSES
  BY <1>7, <1>8, <1>9 DEF NotParked
<1>11. CosignParkedCaseStaysOpen'
  BY <1>8, <1>10 DEF CaseInv, CaseFollowsChildren, CosignParkedCaseStaysOpen
<1>12. CloseStampMatchesStatus'
  BY <1>8, <1>10 DEF CaseInv, CaseFollowsChildren, CloseStampMatchesStatus
<1>13. Kids(c)' = Kids(c) \cup {r} /\ \A d : d # c => Kids(d)' = Kids(d)
  BY <1>3, <1>5, <1>6 DEF Kids
<1>14. \A d : \A q \in Kids(d) : rec'[q] = rec[q]
  BY <1>6 DEF Kids
<1>15. ASSUME created <= PageLimit PROVE S = KidStatuses(c)'
  <2>1. ListByCase(c, rec, created) = Kids(c)
    BY <1>15, LifecycleAssumption DEF ListByCase, Kids, IInv, TypeOK
  <2>2. S = KidStatuses(c) \cup {inc}
    BY <1>2, <2>1 DEF ChildStatuses, KidStatuses
  <2>3. KidStatuses(c)' = {CaseStatusFromLifecycle(rec'[q].lifecycle) : q \in Kids(c) \cup {r}}
    BY <1>13 DEF KidStatuses
  <2>4. KidStatuses(c)' = KidStatuses(c) \cup {inc}
    BY <1>5, <1>6, <1>14, <2>3 DEF KidStatuses
  <2> QED BY <2>2, <2>4
<1>16. ASSUME created' <= PageLimit, NEW d \in Cases \ overridden
       PROVE  Kids(d)' = {} \/ caseStatus'[d] = Aggregate(KidStatuses(d)') \/ Lags(d)'
  <2>1. created <= PageLimit
    BY <1>1, <1>3, <1>16, LifecycleAssumption DEF IInv, TypeOK
  <2>2. CASE d = c
    <3>1. casePending[c] = NoUser
      BY <1>16, <2>2 DEF CaseInv
    <3> QED BY <1>10, <1>15, <2>1, <2>2, <3>1
  <2>3. CASE d # c
    <3>1. Kids(d) = {} \/ caseStatus[d] = Aggregate(KidStatuses(d)) \/ Lags(d)
      BY <1>16, <2>1, TracksChildren DEF CaseInv, CaseFollowsChildren
    <3>2. Kids(d)' = Kids(d)
      BY <1>13, <2>3
    <3>3. KidStatuses(d)' = {CaseStatusFromLifecycle(rec'[q].lifecycle) : q \in Kids(d)}
      BY <3>2 DEF KidStatuses
    <3>4. KidStatuses(d)' = KidStatuses(d)
      BY <1>14, <3>3 DEF KidStatuses
    <3>5. Lags(d) => Lags(d)'
      BY <1>14, <3>2 DEF Lags
    <3> QED BY <1>10, <1>16, <2>3, <3>1, <3>2, <3>4, <3>5
  <2> QED BY <2>2, <2>3
<1>17. CaseStatusTracksChildren'
  BY <1>8, <1>16, TracksChildrenNext
<1> QED BY <1>8, <1>11, <1>12, <1>17 DEF CaseInv, CaseFollowsChildren

(* The case-level override moves the status of the one case it takes out   *)
(* of the roll-up's hands.                                                 *)
LEMMA CaseOverrideKeeps ==
  ASSUME IInv, CaseInv, NEW c \in Cases, NEW u \in Users,
         \/ InitiateCaseOverride(c, u)
         \/ \E approve \in BOOLEAN : CosignCaseOverride(c, u, approve)
  PROVE  CaseInv'
<1>1. /\ created' = created /\ rec' = rec
      /\ c \in overridden' /\ overridden \subseteq overridden'
      /\ overridden' \subseteq overridden \cup {c}
      /\ \A d \in Cases : d # c => /\ caseStatus'[d] = caseStatus[d] /\ closedAt'[d] = closedAt[d]
                                   /\ casePending'[d] = casePending[d]
      /\ casePending'[c] # NoUser => caseStatus'[c] = "OPEN_AWAITING_HUMAN"
  <2>1. CASE InitiateCaseOverride(c, u)
    BY <2>1 DEF InitiateCaseOverride, IInv, TypeOK
  <2>2. CASE \E approve \in BOOLEAN : CosignCaseOverride(c, u, approve)
    BY <2>2 DEF CosignCaseOverride, IInv, TypeOK, CaseInv
  <2> QED BY <2>1, <2>2
<1>2. CosignParkedCaseStaysOpen'
  BY <1>1 DEF CaseInv, CaseFollowsChildren, CosignParkedCaseStaysOpen
<1>3. CloseStampMatchesStatus'
  BY <1>1 DEF CaseInv, CaseFollowsChildren, CloseStampMatchesStatus
<1>4. \A d : Kids(d)' = Kids(d)
  BY <1>1 DEF Kids
<1>5. \A d : KidStatuses(d)' = KidStatuses(d) /\ Lags(d)' = Lags(d)
  BY <1>1, <1>4 DEF KidStatuses, Lags
<1>6. CaseStatusTracksChildren'
  BY <1>1, <1>4, <1>5, TracksChildren, TracksChildrenNext DEF CaseInv, CaseFollowsChildren
<1>7. \A d \in Cases : casePending'[d] # NoUser => d \in overridden'
  BY <1>1 DEF CaseInv
<1> QED BY <1>2, <1>3, <1>6, <1>7 DEF CaseInv, CaseFollowsChildren

(* Cases have no status and no children at first.                          *)
LEMMA CaseInit == Init => CaseInv
<1> SUFFICES ASSUME Init PROVE CaseInv
  OBVIOUS
<1>1. \A c : Kids(c) = {}
  BY DEF Init, Kids
<1>2. CaseStatusTracksChildren
  BY <1>1, TracksChildren
<1>3. CloseStampMatchesStatus
  BY DEF Init, CloseStampMatchesStatus, TERMINAL_CASE_STATUSES
<1>4. CosignParkedCaseStaysOpen /\ \A c \in Cases : casePending[c] # NoUser => c \in overridden
  BY DEF Init, CosignParkedCaseStaysOpen
<1> QED BY <1>2, <1>3, <1>4 DEF CaseInv, CaseFollowsChildren

(* Every handler keeps the cases in step with their children.              *)
LEMMA CaseStepKeeps == IInv /\ CaseInv /\ [Next]_vars => CaseInv'
<1> SUFFICES ASSUME IInv, CaseInv, [Next]_vars PROVE CaseInv'
  OBVIOUS
<1>1. CASE CaseStep
  BY <1>1, ResolveKeeps, CaseOverrideKeeps DEF CaseStep
<1>2. ASSUME NEW r \in Ids, RoutingStep(r) PROVE CaseInv'
  BY <1>2, RoutingRollsUp
<1>3. ASSUME NEW r \in Ids, NEW u \in Users, UserStep(r, u) PROVE CaseInv'
  BY <1>3, RollUpSteps, LagSteps DEF UserStep
<1>4. CASE UNCHANGED vars
  <2>1. CaseStatusTracksChildren' /\ CloseStampMatchesStatus' /\ CosignParkedCaseStaysOpen'
    BY <1>4 DEF vars, CaseInv, CaseFollowsChildren, CaseStatusTracksChildren,
       CloseStampMatchesStatus, CosignParkedCaseStaysOpen
  <2> QED BY <1>4, <2>1 DEF vars, CaseInv, CaseFollowsChildren
<1> QED BY <1>1, <1>2, <1>3, <1>4 DEF Next

(* In whatever order records are resolved, reviewed, staged, cosigned,     *)
(* submitted and re-run, a case has its children's status and the close    *)
(* stamp that goes with it, except where a handler skips the roll-up, and  *)
(* a case parked for its cosigner stays open (recompute_case_status).      *)
THEOREM CaseAlwaysFollowsChildren == Spec => []CaseFollowsChildren
<1>1. Init => IInv /\ CaseInv
  BY InitHolds, CaseInit
<1>2. (IInv /\ CaseInv) /\ [Next]_vars => (IInv /\ CaseInv)'
  BY NextPreserves, CaseStepKeeps
<1>3. CaseInv => CaseFollowsChildren
  BY DEF CaseInv
<1> QED BY <1>1, <1>2, <1>3, PTL DEF Spec

-----------------------------------------------------------------------------
(* The audit trail.                                                        *)

Audited ==
  \A r \in 1..created :
    rec'[r].lifecycle # rec[r].lifecycle
      => audit'[r] = [previous |-> rec[r].lifecycle, new |-> rec'[r].lifecycle]

(* A write that names the state it found leaves the row it should.         *)
LEMMA WriteAudits ==
  ASSUME TypeOK, NEW r \in Ids, NEW new, Write(r, new, rec[r].lifecycle)
  PROVE  Audited
<1>1. /\ rec'[r] = new /\ audit'[r] = [previous |-> rec[r].lifecycle, new |-> new.lifecycle]
      /\ \A x \in Ids \ {r} : rec'[x] = rec[x]
  BY DEF Write, TypeOK
<1>2. 1..created \subseteq Ids
  BY LifecycleAssumption DEF TypeOK, Ids
<1> QED BY <1>1, <1>2 DEF Audited

(* Every handler leaves an audit row that connects the state it found to   *)
(* the one it left (log_audit_event in api/routes/exceptions.py), on a     *)
(* store whose reads are snapshots: on the in-memory store the submit and  *)
(* its staging read the previous state from the record they have updated.  *)
THEOREM AuditTrailAlwaysConnected == ~LiveRecords => (Spec => AuditTrailConnected)
<1> SUFFICES ASSUME ~LiveRecords PROVE Spec => AuditTrailConnected
  OBVIOUS
<1>1. ASSUME IInv, NEW r \in Ids, NEW u \in Users, UserStep(r, u) PROVE Audited
  <2>1. \E new : Write(r, new, rec[r].lifecycle)
    BY <1>1 DEF UserStep, Dispose, Override, StageOverride, StageSubmit, CosignApprove, CosignReject,
                SubmitToErp, CosignSubmit, PersistErpSubmit, PreviousAfterUpdate
  <2> QED BY <1>1, <2>1, WriteAudits DEF IInv
<1>2. ASSUME IInv, NEW r \in Ids, RoutingStep(r) PROVE Audited
  <2>1. CASE Challenge(r)
    <3>1. rec[r].lifecycle = "RESOLVED"
      BY <2>1 DEF Challenge, CHALLENGE_SOURCE_STATES
    <3> QED BY <1>2, <2>1, <3>1, WriteAudits DEF Challenge, IInv
  <2>2. CASE AdminRelease(r)
    <3>1. rec[r].lifecycle = "BLOCKED"
      BY <2>2 DEF AdminRelease, ADMIN_RELEASE_SOURCE_STATES
    <3> QED BY <1>2, <2>2, <3>1, WriteAudits DEF AdminRelease, IInv
  <2>3. CASE Escalate(r) \/ \E o \in Outcomes : Reanalyze(r, o)
    <3>1. \E new : Write(r, new, rec[r].lifecycle)
      BY <2>3 DEF Escalate, Reanalyze
    <3> QED BY <1>2, <3>1, WriteAudits DEF IInv
  <2> QED BY <1>2, <2>1, <2>2, <2>3 DEF RoutingStep
<1>3. ASSUME IInv, CaseStep PROVE Audited
  <2>1. CASE UNCHANGED rec
    BY <2>1 DEF Audited
  <2>2. ASSUME NEW c \in Cases, NEW kind \in Kinds, NEW o \in Outcomes, Resolve(c, kind, o)
        PROVE  Audited
    <3>1. rec' = [rec EXCEPT ![created + 1] = Fresh(c, kind, o)]
      BY <2>2 DEF Resolve
    <3>2. created \in Nat /\ 1..created \subseteq Ids /\ created + 1 \notin 1..created
      BY <1>3, LifecycleAssumption DEF IInv, TypeOK, Ids
    <3>3. \A x \in 1..created : rec'[x] = rec[x]
      BY <1>3, <3>1, <3>2 DEF IInv, TypeOK
    <3> QED BY <3>3 DEF Audited
  <2> QED BY <1>3, <2>1, <2>2 DEF CaseStep, InitiateCaseOverride, CosignCaseOverride
<1>4. IInv /\ [Next]_vars => [Audited]_vars
  BY <1>1, <1>2, <1>3 DEF Next
<1>5. Spec => [][Audited]_vars
  BY <1>4, Invariance, PTL DEF Spec
<1> QED BY <1>5 DEF AuditTrailConnected, Audited

-----------------------------------------------------------------------------
(* Migrations: the scripts.                                                *)

Ops == {"commit", "table", "add", "drop", "add_or_skip", "chain", "items", "stamp", "seed", "mode", "record"}
Tables ==
  {"-", "exceptions", "traces", "policy_overrides", "policy_audit_log", "checkpoints", "tenant_config",
   "order_case", "case_correlation_keys", "case_events", "case_locks", "effect_outbox",
   "email_attachment", "case_supergroup", "case_intent", "supergroup_intent_allowed", "intent_label",
   "app_config", "case_classification_history"}
Names ==
  {"-", "original_event", "reanalysis_history", "prev_hash", "event_hash", "no_update", "no_delete",
   "no_replace", "enrichment_context", "contract_insert", "contract_update", "source",
   "parent_case_id", "updated_at", "origin", "supergroup_code", "predecessor_case_id",
   "will_miss_rdd", "sla_due_at", "divergence_reason", "intent_code", "sap_block_field", "scope",
   "inheritance", "leaf_validity", "pending_override"}
Objects == Tables \X Names
StatementRows ==
  [op : Ops, table : Tables, names : SUBSET Names, version : Mig!Versions \cup {"-"}]

(* The one object a later version drops, the version that makes an object, *)
(* and the tables of earlier versions that a version adds to.              *)
Gone == {<<"order_case", "source">>}
MadeOfExceptions(name) ==
  IF name = "-" THEN "V001"
  ELSE IF name \in {"original_event", "reanalysis_history"} THEN "V002"
  ELSE IF name = "enrichment_context" THEN "V004"
  ELSE IF name \in {"contract_insert", "contract_update"} THEN "V007"
  ELSE IF name = "parent_case_id" THEN "V009" ELSE "V018"
MadeOfCases(name) ==
  IF name \in {"-", "source"} THEN "V009"
  ELSE IF name = "updated_at" THEN "V014"
  ELSE IF name = "pending_override" THEN "V021" ELSE "V018"
MadeIn(o) ==
  IF o[1] = "exceptions" THEN MadeOfExceptions(o[2])
  ELSE IF o[1] = "order_case" THEN MadeOfCases(o[2])
  ELSE IF o[1] = "policy_audit_log"
       THEN IF o[2] = "-" THEN "V001" ELSE "V003"
  ELSE IF o[1] \in {"traces", "policy_overrides", "checkpoints"} THEN "V001"
  ELSE IF o[1] = "tenant_config" THEN "V006"
  ELSE IF o[1] = "case_correlation_keys" THEN "V010"
  ELSE IF o[1] = "case_events" THEN "V012"
  ELSE IF o[1] = "case_locks" THEN "V013"
  ELSE IF o[1] = "effect_outbox" THEN "V015"
  ELSE IF o[1] = "email_attachment" THEN "V016"
  ELSE IF o[1] \in {"case_supergroup", "case_intent", "supergroup_intent_allowed", "intent_label"} THEN "V017"
  ELSE IF o[1] = "app_config" THEN "V018" ELSE "V020"
Bases(v) ==
  (IF v = "V001" THEN {} ELSE {"exceptions", "policy_audit_log"})
    \cup (IF v \in {"V014", "V018", "V021"} THEN {"order_case"} ELSE {})
    \cup (IF v = "V020" THEN {"case_classification_history"} ELSE {})

(* A statement of version v, but for its record. *)
Fine(v, s) ==
  /\ s \in StatementRows /\ s.op # "record"
  /\ \A o \in Mig!Makes(s) : o \in Objects /\ MadeIn(o) = v
  /\ s.op = "table" => \A n \in s.names : <<s.table, n>> \in Gone
  /\ s.op \in {"add", "add_or_skip"} => s.table \in Bases(v)
  /\ s.op \in {"add", "add_or_skip", "drop"} => s.table # "-" /\ "-" \notin s.names
  /\ s.op = "add_or_skip" => v = "V014"

(* Statements of version v: what one of them drops is gone for good, or is *)
(* made by the next.                                                       *)
Fits(v, S) ==
  /\ S \in Seq(StatementRows)
  /\ \A k \in 1..Len(S) :
       /\ Fine(v, S[k])
       /\ S[k].op = "drop" =>
            \/ Mig!Drops(S[k]) \subseteq Gone
            \/ /\ k + 1 \in 1..Len(S) /\ S[k + 1].op = "add"
               /\ S[k + 1].table = S[k].table /\ S[k + 1].names = S[k].names
Contains(S, s) == \E k \in 1..Len(S) : S[k] = s
Row(op, table, names, v) == [op |-> op, table |-> table, names |-> names, version |-> v]

(* What fits and is contained stays so in a longer script. *)
LEMMA FitsConcat ==
  ASSUME NEW v, NEW S, NEW T, Fits(v, S), Fits(v, T)
  PROVE  Fits(v, S \o T)
<1>1. /\ S \in Seq(StatementRows) /\ T \in Seq(StatementRows)
      /\ Len(S) \in Nat /\ Len(T) \in Nat
  BY DEF Fits
<1>2. PICK C : C = S \o T
  OBVIOUS
<1>3. /\ C \in Seq(StatementRows) /\ Len(C) = Len(S) + Len(T)
      /\ \A k \in 1..Len(S) : C[k] = S[k]
      /\ \A k \in 1..Len(C) : k > Len(S) => k - Len(S) \in 1..Len(T) /\ C[k] = T[k - Len(S)]
  BY <1>1, <1>2, ConcatProperties
<1>4. ASSUME NEW k \in 1..Len(C)
      PROVE  /\ Fine(v, C[k])
             /\ C[k].op = "drop" =>
                  \/ Mig!Drops(C[k]) \subseteq Gone
                  \/ /\ k + 1 \in 1..Len(C) /\ C[k + 1].op = "add"
                     /\ C[k + 1].table = C[k].table /\ C[k + 1].names = C[k].names
  <2>1. CASE k <= Len(S)
    <3>1. k \in 1..Len(S) /\ C[k] = S[k]
      BY <1>1, <1>3, <2>1
    <3>2. k + 1 \in 1..Len(S) => k + 1 \in 1..Len(C) /\ C[k + 1] = S[k + 1]
      BY <1>1, <1>3
    <3> QED BY <3>1, <3>2 DEF Fits
  <2>2. CASE k > Len(S)
    <3>1. PICK j \in 1..Len(T) : j = k - Len(S) /\ C[k] = T[j]
      BY <1>3, <2>2
    <3>2. j + 1 \in 1..Len(T) => k + 1 \in 1..Len(C) /\ C[k + 1] = T[j + 1]
      <4> SUFFICES ASSUME j + 1 \in 1..Len(T) PROVE k + 1 \in 1..Len(C) /\ C[k + 1] = T[j + 1]
        OBVIOUS
      <4>1. k + 1 \in 1..Len(C) /\ k + 1 > Len(S) /\ (k + 1) - Len(S) = j + 1
        BY <1>1, <1>3, <3>1
      <4> QED BY <1>3, <4>1
    <3> QED BY <3>1, <3>2 DEF Fits
  <2> QED BY <1>1, <1>3, <2>1, <2>2
<1>5. Fits(v, C)
  BY <1>3, <1>4 DEF Fits
<1> QED BY <1>2, <1>5

(* A statement of either part is one of the whole. *)
LEMMA ContainsConcat ==
  ASSUME NEW v, NEW S, NEW T, Fits(v, S), Fits(v, T), NEW s, Contains(S, s) \/ Contains(T, s)
  PROVE  Contains(S \o T, s)
<1>1. /\ S \in Seq(StatementRows) /\ T \in Seq(StatementRows)
      /\ Len(S) \in Nat /\ Len(T) \in Nat
  BY DEF Fits
<1>2. /\ Len(S \o T) = Len(S) + Len(T)
      /\ \A k \in 1..Len(S) : (S \o T)[k] = S[k]
      /\ \A k \in 1..Len(T) : (S \o T)[k + Len(S)] = T[k]
  BY <1>1
<1>3. CASE Contains(S, s)
  BY <1>1, <1>2, <1>3 DEF Contains
<1>4. CASE Contains(T, s)
  <2>1. PICK k \in 1..Len(T) : T[k] = s
    BY <1>4 DEF Contains
  <2>2. k + Len(S) \in 1..Len(S \o T) /\ (S \o T)[k + Len(S)] = s
    BY <1>1, <1>2, <2>1
  <2> QED BY <2>2 DEF Contains
<1> QED BY <1>3, <1>4

(* Three and four scripts in a row. *)
LEMMA FourFit ==
  ASSUME NEW v, NEW A, NEW B, NEW C, NEW D, Fits(v, A), Fits(v, B), Fits(v, C)
  PROVE  /\ Fits(v, A \o B \o C)
         /\ \A s : Contains(A, s) \/ Contains(B, s) \/ Contains(C, s) => Contains(A \o B \o C, s)
         /\ Fits(v, D) => /\ Fits(v, A \o B \o C \o D)
                          /\ \A s : Contains(A, s) => Contains(A \o B \o C \o D, s)
<1>1. PICK P : P = A \o B
  OBVIOUS
<1>2. Fits(v, P) /\ \A s : Contains(A, s) \/ Contains(B, s) => Contains(P, s)
  BY <1>1, FitsConcat, ContainsConcat
<1>3. PICK Q : Q = P \o C
  OBVIOUS
<1>4. Fits(v, Q) /\ \A s : Contains(P, s) \/ Contains(C, s) => Contains(Q, s)
  BY <1>2, <1>3, FitsConcat, ContainsConcat
<1>5. Q = A \o B \o C
  BY <1>1, <1>3
<1>6. ASSUME Fits(v, D)
      PROVE  Fits(v, Q \o D) /\ \A s : Contains(Q, s) => Contains(Q \o D, s)
  BY <1>4, <1>6, FitsConcat, ContainsConcat
<1> QED BY <1>2, <1>4, <1>5, <1>6

(* Five scripts in a row. *)
LEMMA FiveFit ==
  ASSUME NEW v, NEW A, NEW B, NEW C, NEW D, NEW E,
         Fits(v, A), Fits(v, B), Fits(v, C), Fits(v, D), Fits(v, E)
  PROVE  /\ Fits(v, A \o B \o C \o D \o E)
         /\ \A s : Contains(A, s) \/ Contains(B, s) \/ Contains(C, s) \/ Contains(D, s) \/ Contains(E, s)
                   => Contains(A \o B \o C \o D \o E, s)
<1>1. PICK P : P = A \o B
  OBVIOUS
<1>2. Fits(v, P) /\ \A s : Contains(A, s) \/ Contains(B, s) => Contains(P, s)
  BY <1>1, FitsConcat, ContainsConcat
<1>3. PICK Q : Q = P \o C
  OBVIOUS
<1>4. Fits(v, Q) /\ \A s : Contains(P, s) \/ Contains(C, s) => Contains(Q, s)
  BY <1>2, <1>3, FitsConcat, ContainsConcat
<1>5. PICK R : R = Q \o D
  OBVIOUS
<1>6. Fits(v, R) /\ \A s : Contains(Q, s) \/ Contains(D, s) => Contains(R, s)
  BY <1>4, <1>5, FitsConcat, ContainsConcat
<1>7. PICK T : T = R \o E
  OBVIOUS
<1>8. Fits(v, T) /\ \A s : Contains(R, s) \/ Contains(E, s) => Contains(T, s)
  BY <1>6, <1>7, FitsConcat, ContainsConcat
<1>9. T = A \o B \o C \o D \o E
  BY <1>1, <1>3, <1>5, <1>7
<1> QED BY <1>2, <1>4, <1>6, <1>8, <1>9

(* A script of one statement. *)
LEMMA StmtFits ==
  ASSUME NEW v, NEW s, Fine(v, s), s.op = "drop" => Mig!Drops(s) \subseteq Gone
  PROVE  Fits(v, <<s>>) /\ Contains(<<s>>, s)
<1>1. s \in StatementRows
  BY DEF Fine
<1>2. PICK S : S = <<s>>
  OBVIOUS
<1>3. S \in Seq(StatementRows) /\ Len(S) = 1 /\ S[1] = s
  BY <1>1, <1>2
<1>4. Fits(v, S)
  BY <1>3 DEF Fits
<1>5. Contains(S, s)
  BY <1>3 DEF Contains
<1> QED BY <1>2, <1>4, <1>5

(* CREATE TABLE. *)
LEMMA TableFits ==
  ASSUME NEW v, NEW table \in Tables, NEW names \in SUBSET Names,
         \A n \in names \cup {"-"} : MadeIn(<<table, n>>) = v,
         \A n \in names : <<table, n>> \in Gone
  PROVE  /\ Fits(v, Mig!Table(table, names))
         /\ \E s : Contains(Mig!Table(table, names), s) /\ <<table, "-">> \in Mig!Makes(s)
<1>1. PICK s : s = [op |-> "table", table |-> table, names |-> names, version |-> "-"]
  OBVIOUS
<1>2. /\ s \in StatementRows /\ s.op = "table" /\ s.table = table /\ s.names = names
      /\ Mig!Makes(s) = {<<table, n>> : n \in names \cup {"-"}}
  BY <1>1 DEF StatementRows, Ops, Mig!Makes
<1>a. \A o \in Mig!Makes(s) : o \in Objects /\ MadeIn(o) = v
  <2>1. ASSUME NEW n \in names \cup {"-"} PROVE <<table, n>> \in Objects
    <3>1. n \in Names
      BY DEF Names
    <3> QED BY <3>1 DEF Objects
  <2> QED BY <1>2, <2>1
<1>3. Fine(v, s)
  BY <1>2, <1>a DEF Fine
<1>4. Mig!Table(table, names) = <<s>>
  BY <1>1 DEF Mig!Table, Mig!Stmt
<1>5. <<table, "-">> \in Mig!Makes(s)
  BY <1>2
<1> QED BY <1>2, <1>3, <1>4, <1>5, StmtFits

(* A statement that makes and drops nothing. *)
LEMMA PlainFits ==
  ASSUME NEW v, NEW op \in {"commit", "chain", "items", "stamp", "seed", "mode"}, NEW table \in Tables
  PROVE  /\ Fits(v, Mig!Stmt(op, table, {}, "-"))
         /\ \E s : Contains(Mig!Stmt(op, table, {}, "-"), s) /\ s.op = op
<1>1. PICK s : s = [op |-> op, table |-> table, names |-> {}, version |-> "-"]
  OBVIOUS
<1>2. s \in StatementRows /\ s.op = op /\ s.table = table /\ s.names = {} /\ Mig!Makes(s) = {}
  BY <1>1 DEF StatementRows, Ops, Mig!Makes
<1>3. Fine(v, s)
  BY <1>2 DEF Fine
<1>4. Mig!Stmt(op, table, {}, "-") = <<s>>
  BY <1>1 DEF Mig!Stmt
<1> QED BY <1>2, <1>3, <1>4, StmtFits

(* executescript. *)
LEMMA ScriptFits ==
  ASSUME NEW v, NEW S, Fits(v, S)
  PROVE  /\ Fits(v, Mig!Script(S))
         /\ \A s : Contains(S, s) => Contains(Mig!Script(S), s)
<1>1. PICK C : C = Mig!Stmt("commit", "-", {}, "-")
  OBVIOUS
<1>2. Fits(v, C)
  <2>1. "-" \in Tables
    BY DEF Tables
  <2> QED BY <1>1, <2>1, PlainFits
<1>3. Mig!Script(S) = C \o S
  BY <1>1 DEF Mig!Script
<1> QED BY <1>2, <1>3, FitsConcat, ContainsConcat

(* DROP TRIGGER IF EXISTS and CREATE TRIGGER. *)
LEMMA TriggerFits ==
  ASSUME NEW v, NEW table \in Bases(v), NEW name \in Names, MadeIn(<<table, name>>) = v,
         table # "-", name # "-"
  PROVE  Fits(v, Mig!Trigger(table, name))
<1>1. PICK a : a = [op |-> "drop", table |-> table, names |-> {name}, version |-> "-"]
  OBVIOUS
<1>2. PICK b : b = [op |-> "add", table |-> table, names |-> {name}, version |-> "-"]
  OBVIOUS
<1>3. PICK S : S = Mig!Trigger(table, name)
  OBVIOUS
<1>4. S = <<a>> \o <<b>>
  BY <1>1, <1>2, <1>3 DEF Mig!Trigger, Mig!Stmt
<1>0. table \in Tables
  BY DEF Bases, Tables
<1>5. /\ a \in StatementRows /\ a.op = "drop" /\ a.table = table /\ a.names = {name} /\ Mig!Makes(a) = {}
      /\ b \in StatementRows /\ b.op = "add" /\ b.table = table /\ b.names = {name}
      /\ Mig!Makes(b) = {<<table, name>>}
  <2>1. a \in StatementRows /\ a.op = "drop" /\ a.table = table /\ a.names = {name}
    BY <1>0, <1>1 DEF StatementRows, Ops
  <2>2. b \in StatementRows /\ b.op = "add" /\ b.table = table /\ b.names = {name}
    BY <1>0, <1>2 DEF StatementRows, Ops
  <2> QED BY <2>1, <2>2 DEF Mig!Makes
<1>6. Fine(v, a) /\ Fine(v, b)
  <2>1. <<table, name>> \in Objects
    BY <1>0 DEF Objects
  <2> QED BY <1>0, <1>5, <2>1 DEF Fine
<1>7. S \in Seq(StatementRows) /\ Len(S) = 2 /\ S[1] = a /\ S[2] = b
  <2>1. <<a>> \in Seq(StatementRows) /\ Len(<<a>>) = 1 /\ <<b>> \in Seq(StatementRows) /\ Len(<<b>>) = 1
    BY <1>5
  <2>2. <<a>>[1] = a /\ <<b>>[1] = b
    OBVIOUS
  <2> QED BY <1>4, <2>1, <2>2, ConcatProperties
<1>8. Fits(v, S)
  <2>1. ASSUME NEW k \in 1..Len(S)
        PROVE  /\ Fine(v, S[k])
               /\ S[k].op = "drop" =>
                    /\ k + 1 \in 1..Len(S) /\ S[k + 1].op = "add"
                    /\ S[k + 1].table = S[k].table /\ S[k + 1].names = S[k].names
    <3>1. k = 1 \/ k = 2
      BY <1>7
    <3>2. CASE k = 1
      <4>1. S[k] = a /\ k + 1 = 2 /\ S[k + 1] = b /\ k + 1 \in 1..Len(S)
        BY <1>7, <3>2
      <4> QED BY <1>5, <1>6, <4>1
    <3>3. CASE k = 2
      <4>1. S[k] = b
        BY <1>7, <3>3
      <4> QED BY <1>5, <1>6, <4>1
    <3> QED BY <3>1, <3>2, <3>3
  <2> QED BY <1>7, <2>1 DEF Fits
<1> QED BY <1>3, <1>8

(* ALTER TABLE ... ADD COLUMN. *)
LEMMA AddFits ==
  ASSUME NEW v, NEW table \in Bases(v), table # "-", NEW columns \in Seq(Names),
         \A i \in 1..Len(columns) : columns[i] # "-" /\ MadeIn(<<table, columns[i]>>) = v
  PROVE  Fits(v, Mig!Add(table, columns))
<1>0. table \in Tables /\ DOMAIN columns = 1..Len(columns) /\ Len(columns) \in Nat
  BY DEF Bases, Tables
<1>1. PICK S : S = Mig!Add(table, columns)
  OBVIOUS
<1>2. S = [i \in 1..Len(columns) |-> [op |-> "add", table |-> table, names |-> {columns[i]}, version |-> "-"]]
  <2>1. \A s : <<s>>[1] = s
    OBVIOUS
  <2> QED BY <1>0, <1>1, <2>1 DEF Mig!Add, Mig!Stmt
<1>3. ASSUME NEW k \in 1..Len(columns) PROVE Fine(v, S[k]) /\ S[k].op = "add" /\ S[k] \in StatementRows
  <2>1. PICK s : s = S[k]
    OBVIOUS
  <2>2. columns[k] \in Names /\ columns[k] # "-" /\ MadeIn(<<table, columns[k]>>) = v
    BY <1>0
  <2>3. s.op = "add" /\ s.table = table /\ s.names = {columns[k]} /\ s \in StatementRows
    BY <1>0, <1>2, <2>1, <2>2 DEF StatementRows, Ops
  <2>4. Mig!Makes(s) = {<<table, columns[k]>>}
    BY <2>3 DEF Mig!Makes
  <2>5. <<table, columns[k]>> \in Objects
    BY <1>0, <2>2 DEF Objects
  <2>6. Fine(v, s)
    BY <1>0, <2>2, <2>3, <2>4, <2>5 DEF Fine
  <2> QED BY <2>1, <2>3, <2>6
<1>4. S \in Seq(StatementRows) /\ Len(S) = Len(columns)
  <2>1. S \in [1..Len(columns) -> StatementRows]
    BY <1>2, <1>3
  <2> QED BY <1>0, <2>1
<1>5. Fits(v, S)
  BY <1>3, <1>4 DEF Fits
<1> QED BY <1>1, <1>5

(* A version's script ends with its record and a commit. *)
Entire(v, S) ==
  /\ S \in Seq(StatementRows) /\ Len(S) >= 2
  /\ S[Len(S)].op = "commit" /\ S[Len(S)].table = "-"
  /\ S[Len(S) - 1].op = "record" /\ S[Len(S) - 1].table = "-" /\ S[Len(S) - 1].version = v
  /\ \A k \in 1..Len(S) - 2 :
       /\ Fine(v, S[k])
       /\ S[k].op = "drop" =>
            \/ Mig!Drops(S[k]) \subseteq Gone
            \/ S[k + 1].op = "add" /\ S[k + 1].table = S[k].table /\ S[k + 1].names = S[k].names
(* ... and does this before. *)
Does(S, s) == \E k \in 1..Len(S) - 2 : S[k] = s

(* What is recorded after statements that fit. *)
LEMMA RecordedIsEntire ==
  ASSUME NEW v \in Mig!Versions, NEW S, Fits(v, S)
  PROVE  /\ Entire(v, S \o Mig!Recorded(v)) /\ Entire(v, Mig!Recorded(v))
         /\ \A s : Contains(S, s) => Does(S \o Mig!Recorded(v), s)
<1>1. PICK a : a = [op |-> "record", table |-> "-", names |-> {}, version |-> v]
  OBVIOUS
<1>2. PICK b : b = [op |-> "commit", table |-> "-", names |-> {}, version |-> "-"]
  OBVIOUS
<1>3. PICK R : R = Mig!Recorded(v)
  OBVIOUS
<1>4. R = <<a>> \o <<b>>
  BY <1>1, <1>2, <1>3 DEF Mig!Recorded, Mig!Stmt
<1>5. /\ a \in StatementRows /\ a.op = "record" /\ a.table = "-" /\ a.version = v
      /\ b \in StatementRows /\ b.op = "commit" /\ b.table = "-"
  <2>0. "-" \in Tables
    BY DEF Tables
  <2>1. a \in StatementRows /\ a.op = "record" /\ a.table = "-" /\ a.version = v
    BY <1>1, <2>0 DEF StatementRows, Ops
  <2>2. b \in StatementRows /\ b.op = "commit" /\ b.table = "-"
    BY <1>2, <2>0 DEF StatementRows, Ops
  <2> QED BY <2>1, <2>2
<1>7. R \in Seq(StatementRows) /\ Len(R) = 2 /\ R[1] = a /\ R[2] = b
  <2>1. <<a>> \in Seq(StatementRows) /\ Len(<<a>>) = 1 /\ <<b>> \in Seq(StatementRows) /\ Len(<<b>>) = 1
    BY <1>5
  <2>2. <<a>>[1] = a /\ <<b>>[1] = b
    OBVIOUS
  <2> QED BY <1>4, <2>1, <2>2, ConcatProperties
<1>8. Entire(v, R)
  BY <1>5, <1>7 DEF Entire
<1>9. S \in Seq(StatementRows) /\ Len(S) \in Nat
  BY DEF Fits
<1>10. PICK C : C = S \o R
  OBVIOUS
<1>11. /\ C \in Seq(StatementRows) /\ Len(C) = Len(S) + 2
       /\ \A k \in 1..Len(S) : C[k] = S[k]
       /\ C[Len(S) + 1] = a /\ C[Len(S) + 2] = b
  <2>1. /\ C \in Seq(StatementRows) /\ Len(C) = Len(S) + Len(R)
        /\ \A k \in 1..Len(S) : C[k] = S[k]
        /\ \A k \in 1..Len(R) : C[Len(S) + k] = R[k]
    <3>1. /\ C \in Seq(StatementRows) /\ Len(C) = Len(S) + Len(R)
          /\ \A k \in 1..Len(S) + Len(R) : C[k] = IF k <= Len(S) THEN S[k] ELSE R[k - Len(S)]
      <4>1. R \in Seq(StatementRows)
        BY <1>7
      <4> QED BY <4>1, <1>9, <1>10, ConcatProperties
    <3>2. ASSUME NEW k \in 1..Len(S) PROVE C[k] = S[k]
      BY <1>7, <1>9, <3>1
    <3>3. ASSUME NEW k \in 1..Len(R) PROVE C[Len(S) + k] = R[k]
      <4>1. Len(S) + k \in 1..Len(C) /\ ~(Len(S) + k <= Len(S)) /\ (Len(S) + k) - Len(S) = k
        BY <1>7, <1>9, <3>1
      <4> QED BY <3>1, <4>1
    <3> QED BY <3>1, <3>2, <3>3
  <2> QED BY <1>7, <1>9, <2>1
<1>12. Entire(v, C)
  <2>1. ASSUME NEW k \in 1..Len(C) - 2
        PROVE  /\ Fine(v, C[k])
               /\ C[k].op = "drop" =>
                    \/ Mig!Drops(C[k]) \subseteq Gone
                    \/ C[k + 1].op = "add" /\ C[k + 1].table = C[k].table /\ C[k + 1].names = C[k].names
    <3>1. k \in 1..Len(S) /\ C[k] = S[k]
      BY <1>9, <1>11
    <3>2. k + 1 \in 1..Len(S) => C[k + 1] = S[k + 1]
      BY <1>11
    <3> QED BY <3>1, <3>2 DEF Fits
  <2>2. Len(C) - 1 = Len(S) + 1 /\ Len(C) >= 2
    BY <1>9, <1>11
  <2> QED BY <1>5, <1>11, <2>1, <2>2 DEF Entire
<1>13. ASSUME NEW s, Contains(S, s) PROVE Does(C, s)
  <2>1. PICK k \in 1..Len(S) : S[k] = s
    BY <1>13 DEF Contains
  <2>2. k \in 1..Len(C) - 2 /\ C[k] = s
    BY <1>9, <1>11, <2>1
  <2> QED BY <2>2 DEF Does
<1> QED BY <1>3, <1>8, <1>10, <1>12, <1>13

(* CREATE TABLE without a column that a later version drops. *)
LEMMA NewTable ==
  ASSUME NEW v, NEW table \in Tables, MadeIn(<<table, "-">>) = v
  PROVE  /\ Fits(v, Mig!Table(table, {}))
         /\ \E s : <<table, "-">> \in Mig!Makes(s) /\ Contains(Mig!Table(table, {}), s)
BY TableFits

(* The versions. *)
LEMMA VersionsAre ==
  Mig!Versions = {"V001", "V002", "V003", "V004", "V005", "V006", "V007", "V008", "V009", "V010", "V011",
                  "V012", "V013", "V014", "V015", "V016", "V017", "V018", "V019", "V020", "V021", "V022"}
BY DEF Mig!Versions, Mig!Statements

(* V001. *)
LEMMA V001Fits ==
  /\ Entire("V001", Mig!V001)
  /\ \E s : <<"exceptions", "-">> \in Mig!Makes(s) /\ Does(Mig!V001, s)
  /\ \E s : <<"policy_audit_log", "-">> \in Mig!Makes(s) /\ Does(Mig!V001, s)
<1>1. /\ Fits("V001", Mig!Script(Mig!Table("exceptions", {}) \o Mig!Table("traces", {})
        \o Mig!Table("policy_overrides", {}) \o Mig!Table("policy_audit_log", {})
        \o Mig!Table("checkpoints", {})))
      /\ \E s : <<"exceptions", "-">> \in Mig!Makes(s)
                  /\ Contains(Mig!Script(Mig!Table("exceptions", {})
        \o Mig!Table("traces", {}) \o Mig!Table("policy_overrides", {})
        \o Mig!Table("policy_audit_log", {}) \o Mig!Table("checkpoints", {})), s)
      /\ \E s : <<"policy_audit_log", "-">> \in Mig!Makes(s)
                  /\ Contains(Mig!Script(Mig!Table("exceptions", {})
        \o Mig!Table("traces", {}) \o Mig!Table("policy_overrides", {})
        \o Mig!Table("policy_audit_log", {}) \o Mig!Table("checkpoints", {})), s)
  <2>1. /\ Fits("V001", Mig!Table("exceptions", {}))
        /\ \E s : <<"exceptions", "-">> \in Mig!Makes(s) /\ Contains(Mig!Table("exceptions", {}), s)
    <3>1. "exceptions" \in Tables /\ MadeIn(<<"exceptions", "-">>) = "V001"
      BY DEF Tables, Names, Bases, MadeIn, MadeOfExceptions, MadeOfCases, Gone
    <3> QED BY <3>1, NewTable
  <2>2. Fits("V001", Mig!Table("traces", {}))
    <3>1. "traces" \in Tables /\ MadeIn(<<"traces", "-">>) = "V001"
      BY DEF Tables, Names, Bases, MadeIn, MadeOfExceptions, MadeOfCases, Gone
    <3> QED BY <3>1, NewTable
  <2>3. Fits("V001", Mig!Table("policy_overrides", {}))
    <3>1. "policy_overrides" \in Tables /\ MadeIn(<<"policy_overrides", "-">>) = "V001"
      BY DEF Tables, Names, Bases, MadeIn, MadeOfExceptions, MadeOfCases, Gone
    <3> QED BY <3>1, NewTable
  <2>4. /\ Fits("V001", Mig!Table("policy_audit_log", {}))
        /\ \E s : <<"policy_audit_log", "-">> \in Mig!Makes(s)
                    /\ Contains(Mig!Table("policy_audit_log", {}), s)
    <3>1. "policy_audit_log" \in Tables /\ MadeIn(<<"policy_audit_log", "-">>) = "V001"
      BY DEF Tables, Names, Bases, MadeIn, MadeOfExceptions, MadeOfCases, Gone
    <3> QED BY <3>1, NewTable
  <2>5. Fits("V001", Mig!Table("checkpoints", {}))
    <3>1. "checkpoints" \in Tables /\ MadeIn(<<"checkpoints", "-">>) = "V001"
      BY DEF Tables, Names, Bases, MadeIn, MadeOfExceptions, MadeOfCases, Gone
    <3> QED BY <3>1, NewTable
  <2>6. PICK S : S = Mig!Table("exceptions", {}) \o Mig!Table("traces", {})
              \o Mig!Table("policy_overrides", {})
        \o Mig!Table("policy_audit_log", {}) \o Mig!Table("checkpoints", {})
    OBVIOUS
  <2>7. Fits("V001", S)
    BY <2>1, <2>2, <2>3, <2>4, <2>5, <2>6, FiveFit
  <2>8. \E s : <<"exceptions", "-">> \in Mig!Makes(s) /\ Contains(S, s)
    <3>1. PICK s : <<"exceptions", "-">> \in Mig!Makes(s)
                /\ Contains(Mig!Table("exceptions", {}), s)
      BY <2>1
    <3> QED BY <2>1, <2>2, <2>3, <2>4, <2>5, <2>6, <3>1, FiveFit
  <2>9. \E s : <<"policy_audit_log", "-">> \in Mig!Makes(s) /\ Contains(S, s)
    <3>1. PICK s : <<"policy_audit_log", "-">> \in Mig!Makes(s)
                /\ Contains(Mig!Table("policy_audit_log", {}), s)
      BY <2>4
    <3> QED BY <2>1, <2>2, <2>3, <2>4, <2>5, <2>6, <3>1, FiveFit
  <2> QED BY <2>6, <2>7, <2>8, <2>9, ScriptFits
<1>2. PICK S : S = Mig!Script(Mig!Table("exceptions", {}) \o Mig!Table("traces", {})
        \o Mig!Table("policy_overrides", {}) \o Mig!Table("policy_audit_log", {})
        \o Mig!Table("checkpoints", {}))
  OBVIOUS
<1>3. Fits("V001", S)
  BY <1>1, <1>2
<1>4. "V001" \in Mig!Versions /\ Mig!V001 = S \o Mig!Recorded("V001")
  BY <1>2, VersionsAre DEF Mig!V001
<1>5. \E s : <<"exceptions", "-">> \in Mig!Makes(s) /\ Contains(S, s)
  BY <1>1, <1>2
<1>6. \E s : <<"policy_audit_log", "-">> \in Mig!Makes(s) /\ Contains(S, s)
  BY <1>1, <1>2
<1> QED BY <1>3, <1>4, <1>5, <1>6, RecordedIsEntire

(* V002. *)
LEMMA V002Fits == Entire("V002", Mig!V002)
<1>1. Fits("V002", Mig!Add("exceptions", <<"original_event", "reanalysis_history">>))
  <2>1. PICK c : c = <<"original_event", "reanalysis_history">>
    OBVIOUS
  <2>2. Len(c) = 2 /\ c[1] = "original_event" /\ c[2] = "reanalysis_history"
    BY <2>1
  <2>3. c \in Seq(Names)
    BY <2>1 DEF Names
  <2>4. ASSUME NEW i \in 1..Len(c) PROVE c[i] # "-" /\ MadeIn(<<"exceptions", c[i]>>) = "V002"
    <3>1. i = 1 \/ i = 2
      BY <2>2
    <3> QED BY <2>2, <3>1 DEF MadeIn, MadeOfExceptions, MadeOfCases
  <2>5. "exceptions" \in Bases("V002") /\ "exceptions" # "-"
    BY DEF Bases
  <2> QED BY <2>1, <2>3, <2>4, <2>5, AddFits
<1>2. PICK S : S = Mig!Add("exceptions", <<"original_event", "reanalysis_history">>)
  OBVIOUS
<1>3. Fits("V002", S)
  BY <1>1, <1>2
<1>4. "V002" \in Mig!Versions /\ Mig!V002 = S \o Mig!Recorded("V002")
  BY <1>2, VersionsAre DEF Mig!V002
<1> QED BY <1>3, <1>4, RecordedIsEntire

(* V003. *)
LEMMA V003Fits ==
  /\ Entire("V003", Mig!V003)
  /\ \E s : s.op = "chain" /\ Does(Mig!V003, s)
<1>1. Fits("V003", Mig!Add("policy_audit_log", <<"prev_hash", "event_hash">>))
  <2>1. PICK c : c = <<"prev_hash", "event_hash">>
    OBVIOUS
  <2>2. Len(c) = 2 /\ c[1] = "prev_hash" /\ c[2] = "event_hash"
    BY <2>1
  <2>3. c \in Seq(Names)
    BY <2>1 DEF Names
  <2>4. ASSUME NEW i \in 1..Len(c) PROVE c[i] # "-" /\ MadeIn(<<"policy_audit_log", c[i]>>) = "V003"
    <3>1. i = 1 \/ i = 2
      BY <2>2
    <3> QED BY <2>2, <3>1 DEF MadeIn, MadeOfExceptions, MadeOfCases
  <2>5. "policy_audit_log" \in Bases("V003") /\ "policy_audit_log" # "-"
    BY DEF Bases
  <2> QED BY <2>1, <2>3, <2>4, <2>5, AddFits
<1>2. /\ Fits("V003", Mig!Fill("chain", "policy_audit_log"))
      /\ \E s : s.op = "chain" /\ Contains(Mig!Fill("chain", "policy_audit_log"), s)
  <2>1. "policy_audit_log" \in Tables
    BY DEF Tables
  <2> QED BY <2>1, PlainFits DEF Mig!Fill
<1>3. Fits("V003", Mig!Script(Mig!Trigger("policy_audit_log", "no_update")
        \o Mig!Trigger("policy_audit_log", "no_delete")))
  <2>1. Fits("V003", Mig!Trigger("policy_audit_log", "no_update"))
    <3>1. /\ "policy_audit_log" \in Bases("V003") /\ "no_update" \in Names
         /\ MadeIn(<<"policy_audit_log",
                     "no_update">>) = "V003" /\ "policy_audit_log" # "-" /\ "no_update" # "-"
      BY DEF Tables, Names, Bases, MadeIn, MadeOfExceptions, MadeOfCases, Gone
    <3> QED BY <3>1, TriggerFits
  <2>2. Fits("V003", Mig!Trigger("policy_audit_log", "no_delete"))
    <3>1. /\ "policy_audit_log" \in Bases("V003") /\ "no_delete" \in Names
         /\ MadeIn(<<"policy_audit_log",
                     "no_delete">>) = "V003" /\ "policy_audit_log" # "-" /\ "no_delete" # "-"
      BY DEF Tables, Names, Bases, MadeIn, MadeOfExceptions, MadeOfCases, Gone
    <3> QED BY <3>1, TriggerFits
  <2> QED BY <2>1, <2>2, FitsConcat, ScriptFits
<1>4. PICK S : S = Mig!Add("policy_audit_log", <<"prev_hash", "event_hash">>)
            \o Mig!Fill("chain", "policy_audit_log")
        \o Mig!Script(Mig!Trigger("policy_audit_log", "no_update")
        \o Mig!Trigger("policy_audit_log", "no_delete"))
  OBVIOUS
<1>5. Fits("V003", S)
  BY <1>1, <1>2, <1>3, <1>4, FitsConcat
<1>6. "V003" \in Mig!Versions /\ Mig!V003 = S \o Mig!Recorded("V003")
  BY <1>4, VersionsAre DEF Mig!V003
<1>7. \E s : s.op = "chain" /\ Contains(S, s)
  <2>1. PICK s : s.op = "chain" /\ Contains(Mig!Fill("chain", "policy_audit_log"), s)
    BY <1>2
  <2> QED BY <1>1, <1>2, <1>3, <1>4, <2>1, FitsConcat, ContainsConcat
<1> QED BY <1>5, <1>6, <1>7, RecordedIsEntire

(* V004. *)
LEMMA V004Fits == Entire("V004", Mig!V004)
<1>1. Fits("V004", Mig!Add("exceptions", <<"enrichment_context">>))
  <2>1. PICK c : c = <<"enrichment_context">>
    OBVIOUS
  <2>2. Len(c) = 1 /\ c[1] = "enrichment_context"
    BY <2>1
  <2>3. c \in Seq(Names)
    BY <2>1 DEF Names
  <2>4. ASSUME NEW i \in 1..Len(c) PROVE c[i] # "-" /\ MadeIn(<<"exceptions", c[i]>>) = "V004"
    <3>1. i = 1
      BY <2>2
    <3> QED BY <2>2, <3>1 DEF MadeIn, MadeOfExceptions, MadeOfCases
  <2>5. "exceptions" \in Bases("V004") /\ "exceptions" # "-"
    BY DEF Bases
  <2> QED BY <2>1, <2>3, <2>4, <2>5, AddFits
<1>2. PICK S : S = Mig!Add("exceptions", <<"enrichment_context">>)
  OBVIOUS
<1>3. Fits("V004", S)
  BY <1>1, <1>2
<1>4. "V004" \in Mig!Versions /\ Mig!V004 = S \o Mig!Recorded("V004")
  BY <1>2, VersionsAre DEF Mig!V004
<1> QED BY <1>3, <1>4, RecordedIsEntire

(* V006. *)
LEMMA V006Fits == Entire("V006", Mig!V006)
<1>1. Fits("V006", Mig!Script(Mig!Table("tenant_config", {})))
  <2>1. Fits("V006", Mig!Table("tenant_config", {}))
    <3>1. "tenant_config" \in Tables /\ MadeIn(<<"tenant_config", "-">>) = "V006"
      BY DEF Tables, Names, Bases, MadeIn, MadeOfExceptions, MadeOfCases, Gone
    <3> QED BY <3>1, NewTable
  <2> QED BY <2>1, ScriptFits
<1>2. PICK S : S = Mig!Script(Mig!Table("tenant_config", {}))
  OBVIOUS
<1>3. Fits("V006", S)
  BY <1>1, <1>2
<1>4. "V006" \in Mig!Versions /\ Mig!V006 = S \o Mig!Recorded("V006")
  BY <1>2, VersionsAre DEF Mig!V006
<1> QED BY <1>3, <1>4, RecordedIsEntire

(* V007. *)
LEMMA V007Fits == Entire("V007", Mig!V007)
<1>1. Fits("V007", Mig!Script(Mig!Trigger("exceptions", "contract_insert")
        \o Mig!Trigger("exceptions", "contract_update")))
  <2>1. Fits("V007", Mig!Trigger("exceptions", "contract_insert"))
    <3>1. /\ "exceptions" \in Bases("V007") /\ "contract_insert" \in Names
         /\ MadeIn(<<"exceptions",
                     "contract_insert">>) = "V007" /\ "exceptions" # "-" /\ "contract_insert" # "-"
      BY DEF Tables, Names, Bases, MadeIn, MadeOfExceptions, MadeOfCases, Gone
    <3> QED BY <3>1, TriggerFits
  <2>2. Fits("V007", Mig!Trigger("exceptions", "contract_update"))
    <3>1. /\ "exceptions" \in Bases("V007") /\ "contract_update" \in Names
         /\ MadeIn(<<"exceptions",
                     "contract_update">>) = "V007" /\ "exceptions" # "-" /\ "contract_update" # "-"
      BY DEF Tables, Names, Bases, MadeIn, MadeOfExceptions, MadeOfCases, Gone
    <3> QED BY <3>1, TriggerFits
  <2> QED BY <2>1, <2>2, FitsConcat, ScriptFits
<1>2. PICK S : S = Mig!Script(Mig!Trigger("exceptions", "contract_insert")
        \o Mig!Trigger("exceptions", "contract_update"))
  OBVIOUS
<1>3. Fits("V007", S)
  BY <1>1, <1>2
<1>4. "V007" \in Mig!Versions /\ Mig!V007 = S \o Mig!Recorded("V007")
  BY <1>2, VersionsAre DEF Mig!V007
<1> QED BY <1>3, <1>4, RecordedIsEntire

(* V008. *)
LEMMA V008Fits ==
  /\ Entire("V008", Mig!V008)
  /\ \E s : s.op = "items" /\ Does(Mig!V008, s)
<1>1. /\ Fits("V008", Mig!Fill("items", "exceptions"))
      /\ \E s : s.op = "items" /\ Contains(Mig!Fill("items", "exceptions"), s)
  <2>1. "exceptions" \in Tables
    BY DEF Tables
  <2> QED BY <2>1, PlainFits DEF Mig!Fill
<1>2. PICK S : S = Mig!Fill("items", "exceptions")
  OBVIOUS
<1>3. Fits("V008", S)
  BY <1>1, <1>2
<1>4. "V008" \in Mig!Versions /\ Mig!V008 = S \o Mig!Recorded("V008")
  BY <1>2, VersionsAre DEF Mig!V008
<1>5. \E s : s.op = "items" /\ Contains(S, s)
  BY <1>1, <1>2
<1> QED BY <1>3, <1>4, <1>5, RecordedIsEntire

(* V009. *)
LEMMA V009Fits ==
  /\ Entire("V009", Mig!V009)
  /\ \E s : <<"order_case", "-">> \in Mig!Makes(s) /\ Does(Mig!V009, s)
<1>1. /\ Fits("V009", Mig!Script(Mig!Table("order_case", {"source"})))
      /\ \E s : <<"order_case", "-">> \in Mig!Makes(s)
                  /\ Contains(Mig!Script(Mig!Table("order_case", {"source"})), s)
  <2>1. /\ Fits("V009", Mig!Table("order_case", {"source"}))
        /\ \E s : <<"order_case", "-">> \in Mig!Makes(s)
                    /\ Contains(Mig!Table("order_case", {"source"}), s)
    <3>1. PICK names : names = {"source"}
      OBVIOUS
    <3>2. "order_case" \in Tables /\ names \in SUBSET Names
      BY <3>1 DEF Tables, Names
    <3>3. \A m \in names \cup {"-"} : MadeIn(<<"order_case", m>>) = "V009"
      BY <3>1 DEF MadeIn, MadeOfExceptions, MadeOfCases
    <3>4. \A m \in names : <<"order_case", m>> \in Gone
      BY <3>1 DEF Gone
    <3> QED BY <3>1, <3>2, <3>3, <3>4, TableFits
  <2>2. PICK S : S = Mig!Table("order_case", {"source"})
    OBVIOUS
  <2>3. Fits("V009", S)
    BY <2>1, <2>2, FitsConcat
  <2>4. \E s : <<"order_case", "-">> \in Mig!Makes(s) /\ Contains(S, s)
    BY <2>1, <2>2
  <2> QED BY <2>2, <2>3, <2>4, ScriptFits
<1>2. Fits("V009", Mig!Add("exceptions", <<"parent_case_id">>))
  <2>1. PICK c : c = <<"parent_case_id">>
    OBVIOUS
  <2>2. Len(c) = 1 /\ c[1] = "parent_case_id"
    BY <2>1
  <2>3. c \in Seq(Names)
    BY <2>1 DEF Names
  <2>4. ASSUME NEW i \in 1..Len(c) PROVE c[i] # "-" /\ MadeIn(<<"exceptions", c[i]>>) = "V009"
    <3>1. i = 1
      BY <2>2
    <3> QED BY <2>2, <3>1 DEF MadeIn, MadeOfExceptions, MadeOfCases
  <2>5. "exceptions" \in Bases("V009") /\ "exceptions" # "-"
    BY DEF Bases
  <2> QED BY <2>1, <2>3, <2>4, <2>5, AddFits
<1>3. PICK S : S = Mig!Script(Mig!Table("order_case", {"source"}))
            \o Mig!Add("exceptions", <<"parent_case_id">>)
  OBVIOUS
<1>4. Fits("V009", S)
  BY <1>1, <1>2, <1>3, FitsConcat
<1>5. "V009" \in Mig!Versions /\ Mig!V009 = S \o Mig!Recorded("V009")
  BY <1>3, VersionsAre DEF Mig!V009
<1>6. \E s : <<"order_case", "-">> \in Mig!Makes(s) /\ Contains(S, s)
  <2>1. PICK s : <<"order_case", "-">> \in Mig!Makes(s)
              /\ Contains(Mig!Script(Mig!Table("order_case", {"source"})), s)
    BY <1>1
  <2> QED BY <1>1, <1>2, <1>3, <2>1, FitsConcat, ContainsConcat
<1> QED BY <1>4, <1>5, <1>6, RecordedIsEntire

(* V010. *)
LEMMA V010Fits == Entire("V010", Mig!V010)
<1>1. Fits("V010", Mig!Script(Mig!Table("case_correlation_keys", {})))
  <2>1. Fits("V010", Mig!Table("case_correlation_keys", {}))
    <3>1. "case_correlation_keys" \in Tables /\ MadeIn(<<"case_correlation_keys", "-">>) = "V010"
      BY DEF Tables, Names, Bases, MadeIn, MadeOfExceptions, MadeOfCases, Gone
    <3> QED BY <3>1, NewTable
  <2> QED BY <2>1, ScriptFits
<1>2. PICK S : S = Mig!Script(Mig!Table("case_correlation_keys", {}))
  OBVIOUS
<1>3. Fits("V010", S)
  BY <1>1, <1>2
<1>4. "V010" \in Mig!Versions /\ Mig!V010 = S \o Mig!Recorded("V010")
  BY <1>2, VersionsAre DEF Mig!V010
<1> QED BY <1>3, <1>4, RecordedIsEntire

(* V012. *)
LEMMA V012Fits == Entire("V012", Mig!V012)
<1>1. Fits("V012", Mig!Script(Mig!Table("case_events", {})))
  <2>1. Fits("V012", Mig!Table("case_events", {}))
    <3>1. "case_events" \in Tables /\ MadeIn(<<"case_events", "-">>) = "V012"
      BY DEF Tables, Names, Bases, MadeIn, MadeOfExceptions, MadeOfCases, Gone
    <3> QED BY <3>1, NewTable
  <2> QED BY <2>1, ScriptFits
<1>2. PICK S : S = Mig!Script(Mig!Table("case_events", {}))
  OBVIOUS
<1>3. Fits("V012", S)
  BY <1>1, <1>2
<1>4. "V012" \in Mig!Versions /\ Mig!V012 = S \o Mig!Recorded("V012")
  BY <1>2, VersionsAre DEF Mig!V012
<1> QED BY <1>3, <1>4, RecordedIsEntire

(* V013. *)
LEMMA V013Fits == Entire("V013", Mig!V013)
<1>1. Fits("V013", Mig!Script(Mig!Table("case_locks", {})))
  <2>1. Fits("V013", Mig!Table("case_locks", {}))
    <3>1. "case_locks" \in Tables /\ MadeIn(<<"case_locks", "-">>) = "V013"
      BY DEF Tables, Names, Bases, MadeIn, MadeOfExceptions, MadeOfCases, Gone
    <3> QED BY <3>1, NewTable
  <2> QED BY <2>1, ScriptFits
<1>2. PICK S : S = Mig!Script(Mig!Table("case_locks", {}))
  OBVIOUS
<1>3. Fits("V013", S)
  BY <1>1, <1>2
<1>4. "V013" \in Mig!Versions /\ Mig!V013 = S \o Mig!Recorded("V013")
  BY <1>2, VersionsAre DEF Mig!V013
<1> QED BY <1>3, <1>4, RecordedIsEntire

(* V015. *)
LEMMA V015Fits == Entire("V015", Mig!V015)
<1>1. Fits("V015", Mig!Script(Mig!Table("effect_outbox", {})))
  <2>1. Fits("V015", Mig!Table("effect_outbox", {}))
    <3>1. "effect_outbox" \in Tables /\ MadeIn(<<"effect_outbox", "-">>) = "V015"
      BY DEF Tables, Names, Bases, MadeIn, MadeOfExceptions, MadeOfCases, Gone
    <3> QED BY <3>1, NewTable
  <2> QED BY <2>1, ScriptFits
<1>2. PICK S : S = Mig!Script(Mig!Table("effect_outbox", {}))
  OBVIOUS
<1>3. Fits("V015", S)
  BY <1>1, <1>2
<1>4. "V015" \in Mig!Versions /\ Mig!V015 = S \o Mig!Recorded("V015")
  BY <1>2, VersionsAre DEF Mig!V015
<1> QED BY <1>3, <1>4, RecordedIsEntire

(* V016. *)
LEMMA V016Fits == Entire("V016", Mig!V016)
<1>1. Fits("V016", Mig!Script(Mig!Table("email_attachment", {})))
  <2>1. Fits("V016", Mig!Table("email_attachment", {}))
    <3>1. "email_attachment" \in Tables /\ MadeIn(<<"email_attachment", "-">>) = "V016"
      BY DEF Tables, Names, Bases, MadeIn, MadeOfExceptions, MadeOfCases, Gone
    <3> QED BY <3>1, NewTable
  <2> QED BY <2>1, ScriptFits
<1>2. PICK S : S = Mig!Script(Mig!Table("email_attachment", {}))
  OBVIOUS
<1>3. Fits("V016", S)
  BY <1>1, <1>2
<1>4. "V016" \in Mig!Versions /\ Mig!V016 = S \o Mig!Recorded("V016")
  BY <1>2, VersionsAre DEF Mig!V016
<1> QED BY <1>3, <1>4, RecordedIsEntire

(* V017. *)
LEMMA V017Fits ==
  /\ Entire("V017", Mig!V017)
  /\ \E s : s.op = "seed" /\ Does(Mig!V017, s)
<1>1. Fits("V017", Mig!Script(Mig!Table("case_supergroup", {}) \o Mig!Table("case_intent", {})
        \o Mig!Table("supergroup_intent_allowed", {}) \o Mig!Table("intent_label", {})))
  <2>1. Fits("V017", Mig!Table("case_supergroup", {}))
    <3>1. "case_supergroup" \in Tables /\ MadeIn(<<"case_supergroup", "-">>) = "V017"
      BY DEF Tables, Names, Bases, MadeIn, MadeOfExceptions, MadeOfCases, Gone
    <3> QED BY <3>1, NewTable
  <2>2. Fits("V017", Mig!Table("case_intent", {}))
    <3>1. "case_intent" \in Tables /\ MadeIn(<<"case_intent", "-">>) = "V017"
      BY DEF Tables, Names, Bases, MadeIn, MadeOfExceptions, MadeOfCases, Gone
    <3> QED BY <3>1, NewTable
  <2>3. Fits("V017", Mig!Table("supergroup_intent_allowed", {}))
    <3>1. "supergroup_intent_allowed" \in Tables /\ MadeIn(<<"supergroup_intent_allowed",
                "-">>) = "V017"
      BY DEF Tables, Names, Bases, MadeIn, MadeOfExceptions, MadeOfCases, Gone
    <3> QED BY <3>1, NewTable
  <2>4. Fits("V017", Mig!Table("intent_label", {}))
    <3>1. "intent_label" \in Tables /\ MadeIn(<<"intent_label", "-">>) = "V017"
      BY DEF Tables, Names, Bases, MadeIn, MadeOfExceptions, MadeOfCases, Gone
    <3> QED BY <3>1, NewTable
  <2> QED BY <2>1, <2>2, <2>3, <2>4, FitsConcat, ScriptFits
<1>2. /\ Fits("V017", Mig!Fill("seed", "case_supergroup"))
      /\ \E s : s.op = "seed" /\ Contains(Mig!Fill("seed", "case_supergroup"), s)
  <2>1. "case_supergroup" \in Tables
    BY DEF Tables
  <2> QED BY <2>1, PlainFits DEF Mig!Fill
<1>3. Fits("V017", Mig!Stmt("commit", "-", {}, "-"))
  <2>1. "-" \in Tables
    BY DEF Tables
  <2> QED BY <2>1, PlainFits
<1>4. PICK S : S = Mig!Script(Mig!Table("case_supergroup", {}) \o Mig!Table("case_intent", {})
        \o Mig!Table("supergroup_intent_allowed", {}) \o Mig!Table("intent_label", {}))
        \o Mig!Fill("seed", "case_supergroup") \o Mig!Stmt("commit", "-", {}, "-")
  OBVIOUS
<1>5. Fits("V017", S) /\ \A s : Contains(Mig!Fill("seed", "case_supergroup"), s) => Contains(S, s)
  <2>1. PICK A, B, C :
          /\ A = Mig!Script(Mig!Table("case_supergroup", {}) \o Mig!Table("case_intent", {})
                   \o Mig!Table("supergroup_intent_allowed", {}) \o Mig!Table("intent_label", {}))
          /\ B = Mig!Fill("seed", "case_supergroup")
          /\ C = Mig!Stmt("commit", "-", {}, "-")
    OBVIOUS
  <2>2. Fits("V017", A) /\ Fits("V017", B) /\ Fits("V017", C) /\ S = A \o B \o C
    BY <1>1, <1>2, <1>3, <1>4, <2>1
  <2>3. Fits("V017", S) /\ \A s : Contains(B, s) => Contains(S, s)
    BY <2>2, FourFit
  <2> QED BY <2>1, <2>3
<1>6. "V017" \in Mig!Versions /\ Mig!V017 = S \o Mig!Recorded("V017")
  BY <1>4, VersionsAre DEF Mig!V017
<1>7. \E s : s.op = "seed" /\ Contains(S, s)
  BY <1>2, <1>5
<1> QED BY <1>5, <1>6, <1>7, RecordedIsEntire

(* V018. *)
LEMMA V018Fits ==
  /\ Entire("V018", Mig!V018)
  /\ \E s : s.op = "mode" /\ Does(Mig!V018, s)
<1>1. Fits("V018", Mig!Script(Mig!Table("app_config", {})))
  <2>1. Fits("V018", Mig!Table("app_config", {}))
    <3>1. "app_config" \in Tables /\ MadeIn(<<"app_config", "-">>) = "V018"
      BY DEF Tables, Names, Bases, MadeIn, MadeOfExceptions, MadeOfCases, Gone
    <3> QED BY <3>1, NewTable
  <2> QED BY <2>1, ScriptFits
<1>2. /\ Fits("V018", Mig!Fill("mode", "app_config"))
      /\ \E s : s.op = "mode" /\ Contains(Mig!Fill("mode", "app_config"), s)
  <2>1. "app_config" \in Tables
    BY DEF Tables
  <2> QED BY <2>1, PlainFits DEF Mig!Fill
<1>3. Fits("V018", Mig!Add("order_case", <<"origin", "supergroup_code", "predecessor_case_id",
            "will_miss_rdd", "sla_due_at">>))
  <2>1. PICK c : c = <<"origin", "supergroup_code", "predecessor_case_id", "will_miss_rdd",
              "sla_due_at">>
    OBVIOUS
  <2>2. Len(c) = 5 /\ c[1] = "origin" /\ c[2] = "supergroup_code"
              /\ c[3] = "predecessor_case_id" /\ c[4] = "will_miss_rdd" /\ c[5] = "sla_due_at"
    BY <2>1
  <2>3. c \in Seq(Names)
    BY <2>1 DEF Names
  <2>4. ASSUME NEW i \in 1..Len(c) PROVE c[i] # "-" /\ MadeIn(<<"order_case", c[i]>>) = "V018"
    <3>1. i = 1 \/ i = 2 \/ i = 3 \/ i = 4 \/ i = 5
      BY <2>2
    <3> QED BY <2>2, <3>1 DEF MadeIn, MadeOfExceptions, MadeOfCases
  <2>5. "order_case" \in Bases("V018") /\ "order_case" # "-"
    BY DEF Bases
  <2> QED BY <2>1, <2>3, <2>4, <2>5, AddFits
<1>4. Fits("V018", Mig!Add("exceptions", <<"supergroup_code", "divergence_reason",
            "intent_code", "sap_block_field", "scope">>))
  <2>1. PICK c : c = <<"supergroup_code", "divergence_reason", "intent_code",
              "sap_block_field", "scope">>
    OBVIOUS
  <2>2. Len(c) = 5 /\ c[1] = "supergroup_code" /\ c[2] = "divergence_reason"
              /\ c[3] = "intent_code" /\ c[4] = "sap_block_field" /\ c[5] = "scope"
    BY <2>1
  <2>3. c \in Seq(Names)
    BY <2>1 DEF Names
  <2>4. ASSUME NEW i \in 1..Len(c) PROVE c[i] # "-" /\ MadeIn(<<"exceptions", c[i]>>) = "V018"
    <3>1. i = 1 \/ i = 2 \/ i = 3 \/ i = 4 \/ i = 5
      BY <2>2
    <3> QED BY <2>2, <3>1 DEF MadeIn, MadeOfExceptions, MadeOfCases
  <2>5. "exceptions" \in Bases("V018") /\ "exceptions" # "-"
    BY DEF Bases
  <2> QED BY <2>1, <2>3, <2>4, <2>5, AddFits
<1>5. Fits("V018", Mig!Script(Mig!Trigger("exceptions", "inheritance")
        \o Mig!Trigger("exceptions", "leaf_validity")))
  <2>1. Fits("V018", Mig!Trigger("exceptions", "inheritance"))
    <3>1. /\ "exceptions" \in Bases("V018") /\ "inheritance" \in Names
         /\ MadeIn(<<"exceptions",
                     "inheritance">>) = "V018" /\ "exceptions" # "-" /\ "inheritance" # "-"
      BY DEF Tables, Names, Bases, MadeIn, MadeOfExceptions, MadeOfCases, Gone
    <3> QED BY <3>1, TriggerFits
  <2>2. Fits("V018", Mig!Trigger("exceptions", "leaf_validity"))
    <3>1. /\ "exceptions" \in Bases("V018") /\ "leaf_validity" \in Names
         /\ MadeIn(<<"exceptions",
                     "leaf_validity">>) = "V018" /\ "exceptions" # "-" /\ "leaf_validity" # "-"
      BY DEF Tables, Names, Bases, MadeIn, MadeOfExceptions, MadeOfCases, Gone
    <3> QED BY <3>1, TriggerFits
  <2> QED BY <2>1, <2>2, FitsConcat, ScriptFits
<1>6. PICK S : S = Mig!Script(Mig!Table("app_config", {})) \o Mig!Fill("mode", "app_config")
        \o Mig!Add("order_case", <<"origin", "supergroup_code", "predecessor_case_id",
                    "will_miss_rdd", "sla_due_at">>)
        \o Mig!Add("exceptions", <<"supergroup_code", "divergence_reason", "intent_code",
                    "sap_block_field", "scope">>)
        \o Mig!Script(Mig!Trigger("exceptions", "inheritance")
        \o Mig!Trigger("exceptions", "leaf_validity"))
  OBVIOUS
<1>7. Fits("V018", S) /\ \A s : Contains(Mig!Fill("mode", "app_config"), s) => Contains(S, s)
  <2>1. PICK A, B, C, D, E :
          /\ A = Mig!Script(Mig!Table("app_config", {}))
          /\ B = Mig!Fill("mode", "app_config")
          /\ C = Mig!Add("order_case", <<"origin", "supergroup_code", "predecessor_case_id",
                         "will_miss_rdd", "sla_due_at">>)
          /\ D = Mig!Add("exceptions", <<"supergroup_code", "divergence_reason", "intent_code",
                         "sap_block_field", "scope">>)
          /\ E = Mig!Script(Mig!Trigger("exceptions", "inheritance")
                   \o Mig!Trigger("exceptions", "leaf_validity"))
    OBVIOUS
  <2>2. S = A \o B \o C \o D \o E
    BY <1>6, <2>1
  <2>3. Fits("V018", A) /\ Fits("V018", B) /\ Fits("V018", C) /\ Fits("V018", D) /\ Fits("V018", E)
    BY <1>1, <1>2, <1>3, <1>4, <1>5, <2>1
  <2>4. Fits("V018", S) /\ \A s : Contains(B, s) => Contains(S, s)
    BY <2>2, <2>3, FiveFit
  <2> QED BY <2>1, <2>4
<1>8. "V018" \in Mig!Versions /\ Mig!V018 = S \o Mig!Recorded("V018")
  BY <1>6, VersionsAre DEF Mig!V018
<1>9. \E s : s.op = "mode" /\ Contains(S, s)
  BY <1>2, <1>7
<1> QED BY <1>7, <1>8, <1>9, RecordedIsEntire

(* V020. *)
LEMMA V020Fits ==
  /\ Entire("V020", Mig!V020)
  /\ \E s : <<"case_classification_history", "-">> \in Mig!Makes(s) /\ Does(Mig!V020, s)
<1>1. /\ Fits("V020", Mig!Script(Mig!Table("case_classification_history", {})
        \o Mig!Trigger("case_classification_history", "no_update")
        \o Mig!Trigger("case_classification_history", "no_delete")
        \o Mig!Trigger("case_classification_history", "no_replace")))
      /\ \E s : <<"case_classification_history", "-">> \in Mig!Makes(s)
                  /\ Contains(Mig!Script(Mig!Table("case_classification_history", {})
        \o Mig!Trigger("case_classification_history", "no_update")
        \o Mig!Trigger("case_classification_history", "no_delete")
        \o Mig!Trigger("case_classification_history", "no_replace")), s)
  <2>1. /\ Fits("V020", Mig!Table("case_classification_history", {}))
        /\ \E s : <<"case_classification_history", "-">> \in Mig!Makes(s)
                    /\ Contains(Mig!Table("case_classification_history", {}), s)
    <3>1. "case_classification_history" \in Tables /\ MadeIn(<<"case_classification_history",
                "-">>) = "V020"
      BY DEF Tables, Names, Bases, MadeIn, MadeOfExceptions, MadeOfCases, Gone
    <3> QED BY <3>1, NewTable
  <2>2. Fits("V020", Mig!Trigger("case_classification_history", "no_update"))
    <3>1. /\ "case_classification_history" \in Bases("V020") /\ "no_update" \in Names
         /\ MadeIn(<<"case_classification_history",
                     "no_update">>) = "V020" /\ "case_classification_history" # "-"
                                 /\ "no_update" # "-"
      BY DEF Tables, Names, Bases, MadeIn, MadeOfExceptions, MadeOfCases, Gone
    <3> QED BY <3>1, TriggerFits
  <2>3. Fits("V020", Mig!Trigger("case_classification_history", "no_delete"))
    <3>1. /\ "case_classification_history" \in Bases("V020") /\ "no_delete" \in Names
         /\ MadeIn(<<"case_classification_history",
                     "no_delete">>) = "V020" /\ "case_classification_history" # "-"
                                 /\ "no_delete" # "-"
      BY DEF Tables, Names, Bases, MadeIn, MadeOfExceptions, MadeOfCases, Gone
    <3> QED BY <3>1, TriggerFits
  <2>4. Fits("V020", Mig!Trigger("case_classification_history", "no_replace"))
    <3>1. /\ "case_classification_history" \in Bases("V020") /\ "no_replace" \in Names
         /\ MadeIn(<<"case_classification_history",
                     "no_replace">>) = "V020" /\ "case_classification_history" # "-"
                                 /\ "no_replace" # "-"
      BY DEF Tables, Names, Bases, MadeIn, MadeOfExceptions, MadeOfCases, Gone
    <3> QED BY <3>1, TriggerFits
  <2>5. PICK S : S = Mig!Table("case_classification_history", {})
        \o Mig!Trigger("case_classification_history", "no_update")
        \o Mig!Trigger("case_classification_history", "no_delete")
        \o Mig!Trigger("case_classification_history", "no_replace")
    OBVIOUS
  <2>6. /\ Fits("V020", S)
        /\ \A s : Contains(Mig!Table("case_classification_history", {}), s) => Contains(S, s)
    BY <2>1, <2>2, <2>3, <2>4, <2>5, FourFit
  <2>7. \E s : <<"case_classification_history", "-">> \in Mig!Makes(s) /\ Contains(S, s)
    BY <2>1, <2>6
  <2> QED BY <2>5, <2>6, <2>7, ScriptFits
<1>2. PICK S : S = Mig!Script(Mig!Table("case_classification_history", {})
        \o Mig!Trigger("case_classification_history", "no_update")
        \o Mig!Trigger("case_classification_history", "no_delete")
        \o Mig!Trigger("case_classification_history", "no_replace"))
  OBVIOUS
<1>3. Fits("V020", S)
  BY <1>1, <1>2
<1>4. "V020" \in Mig!Versions /\ Mig!V020 = S \o Mig!Recorded("V020")
  BY <1>2, VersionsAre DEF Mig!V020
<1>5. \E s : <<"case_classification_history", "-">> \in Mig!Makes(s) /\ Contains(S, s)
  BY <1>1, <1>2
<1> QED BY <1>3, <1>4, <1>5, RecordedIsEntire

(* V021. *)
LEMMA V021Fits == Entire("V021", Mig!V021)
<1>1. Fits("V021", Mig!Add("order_case", <<"pending_override">>))
  <2>1. PICK c : c = <<"pending_override">>
    OBVIOUS
  <2>2. Len(c) = 1 /\ c[1] = "pending_override"
    BY <2>1
  <2>3. c \in Seq(Names)
    BY <2>1 DEF Names
  <2>4. ASSUME NEW i \in 1..Len(c) PROVE c[i] # "-" /\ MadeIn(<<"order_case", c[i]>>) = "V021"
    <3>1. i = 1
      BY <2>2
    <3> QED BY <2>2, <3>1 DEF MadeIn, MadeOfExceptions, MadeOfCases
  <2>5. "order_case" \in Bases("V021") /\ "order_case" # "-"
    BY DEF Bases
  <2> QED BY <2>1, <2>3, <2>4, <2>5, AddFits
<1>2. PICK S : S = Mig!Add("order_case", <<"pending_override">>)
  OBVIOUS
<1>3. Fits("V021", S)
  BY <1>1, <1>2
<1>4. "V021" \in Mig!Versions /\ Mig!V021 = S \o Mig!Recorded("V021")
  BY <1>2, VersionsAre DEF Mig!V021
<1> QED BY <1>3, <1>4, RecordedIsEntire

(* V014: the column, the UPDATE where it was added, record and commit. *)
LEMMA V014Fits ==
  /\ Entire("V014", Mig!V014)
  /\ Len(Mig!V014) = 4
  /\ Mig!V014[1].op = "add_or_skip" /\ Mig!V014[1].table = "order_case" /\ Mig!V014[1].names = {"updated_at"}
  /\ Mig!V014[2].op = "stamp" /\ Mig!V014[2].table = "order_case"
<1>1. PICK a : a = [op |-> "add_or_skip", table |-> "order_case", names |-> {"updated_at"}, version |-> "-"]
  OBVIOUS
<1>2. PICK b : b = [op |-> "stamp", table |-> "order_case", names |-> {}, version |-> "-"]
  OBVIOUS
<1>3. PICK R : R = Mig!Recorded("V014")
  OBVIOUS
<1>4. PICK S : S = <<a>> \o <<b>>
  OBVIOUS
<1>5. Mig!V014 = S \o R
  BY <1>1, <1>2, <1>3, <1>4 DEF Mig!V014, Mig!Stmt, Mig!Fill
<1>6. /\ a \in StatementRows /\ a.op = "add_or_skip" /\ a.table = "order_case" /\ a.names = {"updated_at"}
      /\ b \in StatementRows /\ b.op = "stamp" /\ b.table = "order_case" /\ b.names = {}
  <2>0. "order_case" \in Tables /\ {"updated_at"} \in SUBSET Names
    BY DEF Tables, Names
  <2>1. a \in StatementRows /\ a.op = "add_or_skip" /\ a.table = "order_case" /\ a.names = {"updated_at"}
    BY <1>1, <2>0 DEF StatementRows, Ops
  <2>2. b \in StatementRows /\ b.op = "stamp" /\ b.table = "order_case" /\ b.names = {}
    BY <1>2, <2>0 DEF StatementRows, Ops
  <2> QED BY <2>1, <2>2
<1>7. Fine("V014", a) /\ Fine("V014", b)
  <2>1. Mig!Makes(a) = {<<"order_case", "updated_at">>} /\ Mig!Makes(b) = {}
    BY <1>6 DEF Mig!Makes
  <2>2. <<"order_case", "updated_at">> \in Objects /\ MadeIn(<<"order_case", "updated_at">>) = "V014"
    BY DEF Objects, Tables, Names, MadeIn, MadeOfCases
  <2>3. "order_case" \in Bases("V014") /\ "order_case" # "-" /\ "updated_at" # "-"
    BY DEF Bases
  <2> QED BY <1>6, <2>1, <2>2, <2>3 DEF Fine
<1>8. S \in Seq(StatementRows) /\ Len(S) = 2 /\ S[1] = a /\ S[2] = b
  <2>1. <<a>> \in Seq(StatementRows) /\ Len(<<a>>) = 1 /\ <<b>> \in Seq(StatementRows) /\ Len(<<b>>) = 1
    BY <1>6
  <2>2. <<a>>[1] = a /\ <<b>>[1] = b
    OBVIOUS
  <2> QED BY <1>4, <2>1, <2>2, ConcatProperties
<1>9. Fits("V014", S)
  <2>1. ASSUME NEW k \in 1..Len(S) PROVE Fine("V014", S[k]) /\ S[k].op # "drop"
    <3>1. k = 1 \/ k = 2
      BY <1>8
    <3> QED BY <1>6, <1>7, <1>8, <3>1
  <2> QED BY <1>8, <2>1 DEF Fits
<1>10. Entire("V014", S \o R)
  <2>1. "V014" \in Mig!Versions
    BY VersionsAre
  <2> QED BY <1>3, <1>9, <2>1, RecordedIsEntire
<1>11. R \in Seq(StatementRows) /\ Len(R) = 2
  <2>1. PICK c : c = [op |-> "record", table |-> "-", names |-> {}, version |-> "V014"]
    OBVIOUS
  <2>2. PICK d : d = [op |-> "commit", table |-> "-", names |-> {}, version |-> "-"]
    OBVIOUS
  <2>3. R = <<c>> \o <<d>>
    BY <1>3, <2>1, <2>2 DEF Mig!Recorded, Mig!Stmt
  <2>4. "-" \in Tables /\ "V014" \in Mig!Versions
    BY VersionsAre DEF Tables
  <2>5. c \in StatementRows
    BY <2>1, <2>4 DEF StatementRows, Ops
  <2>6. d \in StatementRows
    BY <2>2, <2>4 DEF StatementRows, Ops
  <2>7. <<c>> \in Seq(StatementRows) /\ Len(<<c>>) = 1 /\ <<d>> \in Seq(StatementRows) /\ Len(<<d>>) = 1
    BY <2>5, <2>6
  <2> QED BY <2>3, <2>7, ConcatProperties
<1>12. /\ Len(S \o R) = 4 /\ (S \o R)[1] = a /\ (S \o R)[2] = b
  <2>1. /\ Len(S \o R) = Len(S) + Len(R)
        /\ \A k \in 1..Len(S) + Len(R) : (S \o R)[k] = IF k <= Len(S) THEN S[k] ELSE R[k - Len(S)]
    <3>1. S \in Seq(StatementRows) /\ R \in Seq(StatementRows)
      BY <1>8, <1>11
    <3> QED BY <3>1, ConcatProperties
  <2> QED BY <1>8, <1>11, <2>1
<1> QED BY <1>5, <1>6, <1>10, <1>12

(* V019 drops the column. *)
LEMMA V019Fits ==
  /\ Entire("V019", Mig!V019)
  /\ \E s : Mig!Drops(s) = Gone /\ Does(Mig!V019, s)
<1>1. PICK a : a = [op |-> "drop", table |-> "order_case", names |-> {"source"}, version |-> "-"]
  OBVIOUS
<1>2. PICK c : c = <<"source">>
  OBVIOUS
<1>3. Mig!Drop("order_case", c) = <<a>>
  <2>1. Mig!Drop("order_case", c) = [i \in DOMAIN c |-> [op |-> "drop", table |-> "order_case", names |-> {c[i]}, version |-> "-"]]
    <3>1. \A s : <<s>>[1] = s
      OBVIOUS
    <3> QED BY <3>1 DEF Mig!Drop, Mig!Stmt
  <2>2. DOMAIN c = 1..1 /\ c[1] = "source"
    BY <1>2
  <2>3. Mig!Drop("order_case", c) = [i \in 1..1 |-> a]
    BY <1>1, <2>1, <2>2
  <2>4. <<a>> = [i \in 1..1 |-> a]
    OBVIOUS
  <2> QED BY <2>3, <2>4
<1>4. a \in StatementRows /\ a.op = "drop" /\ a.table = "order_case" /\ a.names = {"source"}
  <2>0. "order_case" \in Tables /\ {"source"} \in SUBSET Names
    BY DEF Tables, Names
  <2> QED BY <1>1, <2>0 DEF StatementRows, Ops
<1>5. Mig!Makes(a) = {} /\ Mig!Drops(a) = Gone
  BY <1>4 DEF Mig!Makes, Mig!Drops, Gone
<1>6. Fine("V019", a)
  BY <1>4, <1>5 DEF Fine
<1>7. PICK S : S = <<a>>
  OBVIOUS
<1>8. Fits("V019", S) /\ Contains(S, a)
  BY <1>5, <1>6, <1>7, StmtFits
<1>9. Mig!V019 = S \o Mig!Recorded("V019") /\ "V019" \in Mig!Versions
  BY <1>2, <1>3, <1>7, VersionsAre DEF Mig!V019
<1> QED BY <1>5, <1>8, <1>9, RecordedIsEntire

(* Every script. *)
LEMMA ScriptsAreEntire == \A v \in Mig!Versions : Entire(v, Mig!Statements[v])
<1>1. \A v \in {"V005", "V011", "V022"} : Entire(v, Mig!Recorded(v))
  <2>1. ASSUME NEW v \in {"V005", "V011", "V022"} PROVE Entire(v, Mig!Recorded(v))
    <3>1. v \in Mig!Versions
      BY VersionsAre
    <3>2. Fits(v, <<>>)
      <4>1. <<>> \in Seq(StatementRows) /\ Len(<<>>) = 0
        OBVIOUS
      <4> QED BY <4>1 DEF Fits
    <3> QED BY <3>1, <3>2, RecordedIsEntire
  <2> QED BY <2>1
<1>2. SUFFICES ASSUME NEW v \in Mig!Versions PROVE Entire(v, Mig!Statements[v])
  OBVIOUS
<1>3. CASE v \in {"V005", "V011", "V022"}
  BY <1>1, <1>3 DEF Mig!Statements, Mig!V011
<1>4. CASE v = "V001"
  BY <1>4, V001Fits DEF Mig!Statements
<1>5. CASE v = "V002"
  BY <1>5, V002Fits DEF Mig!Statements
<1>6. CASE v = "V003"
  BY <1>6, V003Fits DEF Mig!Statements
<1>7. CASE v = "V004"
  BY <1>7, V004Fits DEF Mig!Statements
<1>8. CASE v = "V006"
  BY <1>8, V006Fits DEF Mig!Statements
<1>9. CASE v = "V007"
  BY <1>9, V007Fits DEF Mig!Statements
<1>10. CASE v = "V008"
  BY <1>10, V008Fits DEF Mig!Statements
<1>11. CASE v = "V009"
  BY <1>11, V009Fits DEF Mig!Statements
<1>12. CASE v = "V010"
  BY <1>12, V010Fits DEF Mig!Statements
<1>13. CASE v = "V012"
  BY <1>13, V012Fits DEF Mig!Statements
<1>14. CASE v = "V013"
  BY <1>14, V013Fits DEF Mig!Statements
<1>15. CASE v = "V014"
  BY <1>15, V014Fits DEF Mig!Statements
<1>16. CASE v = "V015"
  BY <1>16, V015Fits DEF Mig!Statements
<1>17. CASE v = "V016"
  BY <1>17, V016Fits DEF Mig!Statements
<1>18. CASE v = "V017"
  BY <1>18, V017Fits DEF Mig!Statements
<1>19. CASE v = "V018"
  BY <1>19, V018Fits DEF Mig!Statements
<1>20. CASE v = "V019"
  BY <1>20, V019Fits DEF Mig!Statements
<1>21. CASE v = "V020"
  BY <1>21, V020Fits DEF Mig!Statements
<1>22. CASE v = "V021"
  BY <1>22, V021Fits DEF Mig!Statements
<1> QED BY <1>3, <1>4, <1>5, <1>6, <1>7, <1>8, <1>9, <1>10, <1>11, <1>12, <1>13, <1>14, <1>15, <1>16, <1>17, <1>18, <1>19, <1>20, <1>21, <1>22, VersionsAre

-----------------------------------------------------------------------------
(* Migrations: what the versions make of the schema.                       *)

(* A version makes objects of its own, with their table or in one there.   *)
LEMMA Creations ==
  ASSUME NEW v \in Mig!Versions
  PROVE  /\ \A k \in 1..Len(Mig!Statements[v]) : Mig!Makes(Mig!Statements[v][k]) \subseteq Mig!Creates(v)
         /\ \A o \in Mig!Creates(v) :
              /\ o \in Objects /\ MadeIn(o) = v
              /\ o[2] = "-" \/ <<o[1], "-">> \in Mig!Creates(v) \/ o[1] \in Bases(v)
         /\ Mig!Removes(v) \subseteq Gone
<1>1. PICK S : S = Mig!Statements[v]
  OBVIOUS
<1>2. Entire(v, S)
  BY <1>1, ScriptsAreEntire
<1>3. S \in Seq(StatementRows) /\ Len(S) \in Nat /\ Len(S) >= 2 /\ DOMAIN S = 1..Len(S)
  BY <1>2 DEF Entire
<1>4. /\ \A o : o \in Mig!Creates(v) <=> \E k \in 1..Len(S) : o \in Mig!Makes(S[k])
      /\ \A o \in Mig!Removes(v) : \E k \in 1..Len(S) : o \in Mig!Drops(S[k])
  <2>1. \A s : s \in Mig!ToSet(S) <=> \E k \in 1..Len(S) : s = S[k]
    BY <1>3 DEF Mig!ToSet
  <2>2. \A o : o \in Mig!Creates(v) <=> \E s \in Mig!ToSet(S) : o \in Mig!Makes(s)
    BY <1>1 DEF Mig!Creates
  <2>3. \A o \in Mig!Removes(v) : \E s \in Mig!ToSet(S) : o \in Mig!Drops(s)
    BY <1>1 DEF Mig!Removes
  <2> QED BY <2>1, <2>2, <2>3
<1>5. \A k \in 1..Len(S) : Mig!Makes(S[k]) \subseteq Mig!Creates(v)
  BY <1>4
<1>6. ASSUME NEW k \in 1..Len(S), NEW o, o \in Mig!Makes(S[k]) \/ o \in Mig!Drops(S[k])
      PROVE  k \in 1..Len(S) - 2
  <2>1. SUFFICES ASSUME k = Len(S) \/ k = Len(S) - 1 PROVE FALSE
    <3>1. PICK n \in Nat : n = Len(S)
      BY <1>3
    <3>2. k \in 1..n - 2 \/ k = n \/ k = n - 1
      BY <3>1
    <3> QED BY <3>1, <3>2
  <2>2. S[k].op \in {"commit", "record"}
    BY <1>2, <2>1 DEF Entire
  <2>3. Mig!Makes(S[k]) = {} /\ Mig!Drops(S[k]) = {}
    BY <2>2 DEF Mig!Makes, Mig!Drops
  <2> QED BY <1>6, <2>3
<1>7. ASSUME NEW o \in Mig!Creates(v)
      PROVE  /\ o \in Objects /\ MadeIn(o) = v
             /\ o[2] = "-" \/ <<o[1], "-">> \in Mig!Creates(v) \/ o[1] \in Bases(v)
  <2>1. PICK k \in 1..Len(S) : o \in Mig!Makes(S[k])
    BY <1>4
  <2>2. PICK s : s = S[k]
    OBVIOUS
  <2>3. Fine(v, s)
    BY <1>2, <1>6, <2>1, <2>2 DEF Entire
  <2>4. o \in Objects /\ MadeIn(o) = v
    BY <2>1, <2>2, <2>3 DEF Fine
  <2>5. CASE s.op = "table"
    <3>1. Mig!Makes(s) = {<<s.table, n>> : n \in s.names \cup {"-"}}
      BY <2>5 DEF Mig!Makes
    <3>2. o[1] = s.table /\ <<s.table, "-">> \in Mig!Makes(s)
      BY <2>1, <2>2, <3>1
    <3>3. <<o[1], "-">> \in Mig!Creates(v)
      BY <1>5, <2>2, <3>2
    <3> QED BY <2>4, <3>3
  <2>6. CASE s.op # "table"
    <3>1. s.op \in {"add", "add_or_skip"} /\ Mig!Makes(s) = {<<s.table, n>> : n \in s.names}
      BY <2>1, <2>2, <2>6 DEF Mig!Makes
    <3>2. o[1] = s.table /\ s.table \in Bases(v)
      BY <2>1, <2>2, <2>3, <3>1 DEF Fine
    <3> QED BY <2>4, <3>2
  <2> QED BY <2>5, <2>6
<1>8. ASSUME NEW o \in Mig!Removes(v) PROVE o \in Gone
  <2>1. PICK k \in 1..Len(S) : o \in Mig!Drops(S[k])
    BY <1>4
  <2>2. k \in 1..Len(S) - 2 /\ S[k].op = "drop"
    BY <1>6, <2>1 DEF Mig!Drops
  <2>3. SUFFICES ASSUME S[k + 1].op = "add", S[k + 1].table = S[k].table, S[k + 1].names = S[k].names
                 PROVE  FALSE
    BY <1>2, <2>1, <2>2 DEF Entire
  <2>4. Mig!Drops(S[k]) = Mig!Makes(S[k + 1])
    BY <2>2, <2>3 DEF Mig!Drops, Mig!Makes
  <2>5. k + 1 \in 1..Len(S)
    BY <1>3, <2>2
  <2>6. o \in Mig!Creates(v)
    BY <1>5, <2>1, <2>4, <2>5
  <2>7. o \notin Mig!Creates(v)
    BY <1>8 DEF Mig!Removes
  <2> QED BY <2>6, <2>7
<1> QED BY <1>1, <1>5, <1>7, <1>8

(* A statement of a version's script, and where it is. *)
LEMMA DoesMakes ==
  ASSUME NEW v \in Mig!Versions, NEW s, Does(Mig!Statements[v], s)
  PROVE  Mig!Makes(s) \subseteq Mig!Creates(v)
<1>1. PICK k \in 1..Len(Mig!Statements[v]) - 2 : Mig!Statements[v][k] = s
  BY DEF Does
<1>2. Len(Mig!Statements[v]) \in Nat
  BY ScriptsAreEntire DEF Entire
<1>3. k \in 1..Len(Mig!Statements[v])
  BY <1>1, <1>2
<1> QED BY <1>1, <1>3, Creations

(* The tables that later versions add to. *)
LEMMA BaseTables ==
  /\ <<"exceptions", "-">> \in Mig!Creates("V001")
  /\ <<"policy_audit_log", "-">> \in Mig!Creates("V001")
  /\ <<"order_case", "-">> \in Mig!Creates("V009")
  /\ <<"case_classification_history", "-">> \in Mig!Creates("V020")
<1>0. {"V001", "V009", "V020"} \subseteq Mig!Versions
  BY VersionsAre
<1>1. /\ Mig!Statements["V001"] = Mig!V001 /\ Mig!Statements["V009"] = Mig!V009
      /\ Mig!Statements["V020"] = Mig!V020
  BY DEF Mig!Statements
<1>2. <<"exceptions", "-">> \in Mig!Creates("V001") /\ <<"policy_audit_log", "-">> \in Mig!Creates("V001")
  BY <1>0, <1>1, V001Fits, DoesMakes
<1>3. <<"order_case", "-">> \in Mig!Creates("V009")
  BY <1>0, <1>1, V009Fits, DoesMakes
<1>4. <<"case_classification_history", "-">> \in Mig!Creates("V020")
  BY <1>0, <1>1, V020Fits, DoesMakes
<1> QED BY <1>2, <1>3, <1>4

(* V019 removes what is gone, V011 creates nothing. *)
LEMMA GoneIsRemoved == Gone \subseteq Mig!Removes("V019") /\ Mig!Creates("V011") = {}
<1>0. {"V011", "V019"} \subseteq Mig!Versions /\ Mig!Statements["V019"] = Mig!V019
  BY VersionsAre DEF Mig!Statements
<1>1. PICK s : Mig!Drops(s) = Gone /\ Does(Mig!V019, s)
  BY V019Fits
<1>2. PICK S : S = Mig!Statements["V019"]
  OBVIOUS
<1>3. S \in Seq(StatementRows) /\ Len(S) \in Nat
  BY <1>0, <1>2, ScriptsAreEntire DEF Entire
<1>4. s \in Mig!ToSet(S)
  <2>1. PICK k \in 1..Len(S) - 2 : S[k] = s
    BY <1>0, <1>1, <1>2 DEF Does
  <2>2. k \in DOMAIN S
    BY <1>3, <2>1
  <2> QED BY <2>1, <2>2 DEF Mig!ToSet
<1>5. \A o \in Gone : o \notin Mig!Creates("V019")
  <2>1. \A o \in Gone : MadeIn(o) = "V009"
    BY DEF Gone, MadeIn, MadeOfCases
  <2> QED BY <1>0, <2>1, Creations
<1>6. ASSUME NEW o \in Gone PROVE o \in Mig!Removes("V019")
  <2>1. o \in UNION {Mig!Drops(r) : r \in Mig!ToSet(Mig!Statements["V019"])}
    BY <1>1, <1>2, <1>4
  <2> QED BY <1>5, <2>1 DEF Mig!Removes
<1>7. \A o : MadeIn(o) # "V011"
  BY DEF MadeIn, MadeOfExceptions, MadeOfCases
<1> QED BY <1>0, <1>6, <1>7, Creations

(* The orders are of all versions. *)
LEMMA OrdersAreWhole ==
  /\ Len(Mig!SqliteOrder) = 22 /\ Len(Mig!PostgresOrder) = 22
  /\ \A i \in 1..22 : Mig!SqliteOrder[i] \in Mig!Versions /\ Mig!PostgresOrder[i] \in Mig!Versions
  /\ \A v \in Mig!Versions : \E i \in 1..22 : Mig!SqliteOrder[i] = v
  /\ \A v \in Mig!Versions : \E i \in 1..22 : Mig!PostgresOrder[i] = v
  /\ \A i \in 1..22 : Mig!SqliteOrder[i] = "V014" <=> i = 11
  /\ Mig!PostgresOrder[1] = "V001" /\ Mig!PostgresOrder[9] = "V009" /\ Mig!PostgresOrder[11] = "V011"
  /\ \A i \in 1..22 : Mig!PostgresOrder[i] # "V001" => i > 1
  /\ \A i \in 1..22 : Mig!PostgresOrder[i] \in {"V014", "V018", "V021"} => i > 9
BY VersionsAre DEF Mig!SqliteOrder, Mig!PostgresOrder

-----------------------------------------------------------------------------
(* Migrations: databases.                                                  *)

DbRows ==
  [objects : SUBSET Objects, recorded : SUBSET Mig!Versions, audit : Seq(Int), items : SUBSET Rows,
   cased : BOOLEAN, stamped : BOOLEAN, seeded : BOOLEAN, mode : BOOLEAN]
Hashed(a) == \A i \in 1..Len(a) : a[i] = i - 1
Unhashed(a) == \A i \in 1..Len(a) : a[i] = -1

(* Columns and triggers have their table; the audit events are all in the  *)
(* chain or none of them is, and all are once V003 is recorded.            *)
Sound(d) ==
  /\ d \in DbRows
  /\ \A o \in d.objects : o[2] = "-" \/ <<o[1], "-">> \in d.objects
  /\ Hashed(d.audit) \/ Unhashed(d.audit)
  /\ "V003" \in d.recorded => Hashed(d.audit)

(* The database has what the versions W make, and nothing else's objects.  *)
Filled(d, W) ==
  /\ W \subseteq Mig!Versions
  /\ \A o \in d.objects : MadeIn(o) \in W
  /\ \A v \in W : Mig!Creates(v) \ Gone \subseteq d.objects
  /\ "V003" \in W => Hashed(d.audit)
  /\ "V008" \in W => Rows \ Sparse \subseteq d.items
  /\ "V011" \in W => d.cased
  /\ "V014" \in W => d.stamped
  /\ "V018" \in W => d.mode

(* V003 hashes every event onto its predecessor. *)
LEMMA ChainedHashes ==
  ASSUME NEW a \in Seq(Int), Hashed(a) \/ Unhashed(a)
  PROVE  Mig!Chained(a) \in Seq(Int) /\ Hashed(Mig!Chained(a))
<1>1. PICK c : c = Mig!Chained(a)
  OBVIOUS
<1>2. DOMAIN a = 1..Len(a) /\ Len(a) \in Nat
  OBVIOUS
<1>3. c = [i \in 1..Len(a) |-> IF a[i] # -1 THEN a[i] ELSE Mig!Max({0} \cup {j \in 1..i - 1 : a[j] = -1})]
  BY <1>1, <1>2 DEF Mig!Chained
<1>4. ASSUME NEW i \in 1..Len(a) PROVE c[i] = i - 1
  <2>1. CASE a[i] # -1
    <3>1. Hashed(a)
      BY <2>1 DEF Unhashed
    <3> QED BY <1>3, <2>1, <3>1 DEF Hashed
  <2>2. CASE a[i] = -1
    <3>1. i \in Int /\ i >= 1 /\ i <= Len(a)
      BY <1>2
    <3>2. Unhashed(a)
      <4>1. ~Hashed(a)
        BY <2>2, <3>1 DEF Hashed
      <4> QED BY <4>1
    <3>3. PICK T : T = {0} \cup {j \in 1..i - 1 : a[j] = -1}
      OBVIOUS
    <3>4. \A j : j \in T <=> j \in 0..i - 1
      BY <1>2, <3>1, <3>2, <3>3 DEF Unhashed
    <3>5. Mig!Max(T) = CHOOSE x \in T : \A y \in T : x >= y
      BY DEF Mig!Max
    <3>6. i - 1 \in T /\ \A y \in T : i - 1 >= y
      BY <3>1, <3>4
    <3>7. PICK m : m = CHOOSE x \in T : \A y \in T : x >= y
      OBVIOUS
    <3>8. m \in T /\ \A y \in T : m >= y
      BY <3>6, <3>7
    <3>9. m = i - 1
      BY <3>1, <3>4, <3>6, <3>8
    <3> QED BY <1>3, <2>2, <3>3, <3>5, <3>7, <3>9
  <2> QED BY <2>1, <2>2
<1>5. c \in [1..Len(a) -> Int]
  <2>1. c = [i \in 1..Len(a) |-> i - 1]
    BY <1>3, <1>4, Zenon
  <2> QED BY <1>2, <2>1
<1>6. c \in Seq(Int) /\ Len(c) = Len(a)
  BY <1>2, <1>5
<1> QED BY <1>1, <1>4, <1>6 DEF Hashed

(* Sound databases are ones the runner can reach. *)
LEMMA SoundIsDatabase ==
  ASSUME NEW d, Sound(d)
  PROVE  Mig!IsDatabase(d)
<1>1. /\ d.recorded \subseteq Mig!Versions /\ d.items \subseteq Rows
      /\ d.audit \in Seq(Int)
  BY DEF Sound, DbRows
<1>2. DOMAIN d.audit = 1..Len(d.audit) /\ Len(d.audit) \in Nat
  BY <1>1
<1>3. ASSUME NEW i \in 1..Len(d.audit) PROVE d.audit[i] \in -1..i - 1
  <2>1. d.audit[i] = i - 1 \/ d.audit[i] = -1
    BY DEF Sound, Hashed, Unhashed
  <2> QED BY <1>2, <2>1
<1> QED BY <1>1, <1>2, <1>3 DEF Mig!IsDatabase, Sound

(* An older installation. *)
LEMMA InstallationsFit ==
  ASSUME Mig!MigrationsAssumption, NEW n \in {0, 2, 10}, NEW d, d = Mig!Installed(n)
  PROVE  /\ Sound(d) /\ Filled(d, d.recorded)
         /\ "V014" \notin d.recorded /\ "V017" \notin d.recorded
<1>1. CASE n = 0
  <2>1. d = [objects |-> {}, recorded |-> {}, audit |-> <<>>, items |-> Rows, cased |-> FALSE,
             stamped |-> TRUE, seeded |-> FALSE, mode |-> FALSE]
    BY <1>1 DEF Mig!Installed, Mig!Empty
  <2>2. d \in DbRows /\ d.objects = {} /\ d.recorded = {} /\ Len(d.audit) = 0
    BY <2>1 DEF DbRows
  <2> QED BY <2>2 DEF Sound, Filled, Hashed
<1>2. CASE n # 0
  <2> DEFINE done == {Mig!PostgresOrder[i] : i \in 1..n}
  <2>1. PICK made : made = UNION {Mig!Creates(v) : v \in done}
    OBVIOUS
  <2>2. PICK log : log = [i \in 1..LegacyAudit |-> IF n < 3 THEN -1 ELSE i - 1]
    OBVIOUS
  <2>3. PICK items : items = IF n < 8 THEN {} ELSE Rows \ Sparse
    OBVIOUS
  <2>4. d = [objects |-> made, recorded |-> done, audit |-> log, items |-> items,
             cased |-> FALSE, stamped |-> n < 9, seeded |-> FALSE, mode |-> FALSE]
    BY <1>2, <2>1, <2>2, <2>3 DEF Mig!Installed, Mig!Empty
  <2>5. /\ done \subseteq Mig!Versions /\ "V001" \in done
        /\ "V003" \in done => n = 10
        /\ "V008" \in done => n = 10
        /\ \A v \in {"V011", "V014", "V017", "V018", "V020", "V021"} : v \notin done
    <3>1. n = 2 \/ n = 10
      BY <1>2
    <3> QED BY <3>1, VersionsAre DEF Mig!PostgresOrder
  <2>6. log \in Seq(Int) /\ Len(log) = LegacyAudit /\ LegacyAudit \in Nat
        /\ \A i \in 1..LegacyAudit : log[i] = IF n < 3 THEN -1 ELSE i - 1
    <3>1. LegacyAudit \in Nat
      BY DEF Mig!MigrationsAssumption
    <3>2. log \in [1..LegacyAudit -> Int]
      BY <2>2, <3>1
    <3> QED BY <2>2, <3>1, <3>2
  <2> HIDE DEF done
  <2>7. ASSUME NEW o \in made
        PROVE  /\ o \in Objects /\ MadeIn(o) \in done
               /\ o[2] = "-" \/ <<o[1], "-">> \in made
    <3>1. PICK v \in done : o \in Mig!Creates(v)
      BY <2>1
    <3>2. /\ o \in Objects /\ MadeIn(o) = v
          /\ o[2] = "-" \/ <<o[1], "-">> \in Mig!Creates(v) \/ o[1] \in Bases(v)
      BY <2>5, <3>1, Creations
    <3>3. o[1] \in Bases(v) => o[1] \in {"exceptions", "policy_audit_log"}
      BY <2>5 DEF Bases
    <3>4. <<"exceptions", "-">> \in made /\ <<"policy_audit_log", "-">> \in made
      BY <2>1, <2>5, BaseTables
    <3>5. o[1] \in Bases(v) => <<o[1], "-">> \in made
      <4>1. SUFFICES ASSUME o[1] \in Bases(v) PROVE <<o[1], "-">> \in made
        OBVIOUS
      <4>2. CASE o[1] = "exceptions"
        BY <3>4, <4>2
      <4>3. CASE o[1] = "policy_audit_log"
        BY <3>4, <4>3
      <4> QED BY <3>3, <4>1, <4>2, <4>3
    <3>6. <<o[1], "-">> \in Mig!Creates(v) => <<o[1], "-">> \in made
      BY <2>1
    <3> QED BY <3>2, <3>5, <3>6
  <2>9. /\ d.objects = made /\ d.recorded = done /\ d.audit = log /\ d.items = items
    BY <2>4
  <2>10. items \subseteq Rows /\ made \subseteq Objects
    BY <2>3, <2>7
  <2>11. d \in DbRows
    BY <2>4, <2>5, <2>6, <2>10 DEF DbRows
  <2>12. /\ Hashed(log) \/ Unhashed(log)
         /\ n = 10 => Hashed(log)
    BY <1>2, <2>6 DEF Hashed, Unhashed
  <2>13. Sound(d)
    BY <2>5, <2>7, <2>9, <2>11, <2>12 DEF Sound
  <2>14. n = 10 => Rows \ Sparse \subseteq items
    BY <2>3
  <2>15. \A v \in done : Mig!Creates(v) \subseteq made
    BY <2>1
  <2>16. \A o \in made : MadeIn(o) \in done
    BY <2>7
  <2>17. Filled(d, done)
    BY <2>5, <2>9, <2>12, <2>14, <2>15, <2>16 DEF Filled
  <2> QED BY <2>5, <2>9, <2>13, <2>17
<1> QED BY <1>1, <1>2

(* What a statement s of apply_sqlite does to the database d: it stays     *)
(* sound, keeps what is there but for what s drops, and has what s makes.  *)
Moves(d, e, s) ==
  /\ Sound(e)
  /\ d.objects \subseteq e.objects \cup Mig!Drops(s) /\ e.objects \subseteq d.objects \cup Mig!Makes(s)
  /\ Mig!Makes(s) \ Gone \subseteq e.objects
  /\ d.recorded \subseteq e.recorded /\ d.items \subseteq e.items
  /\ d.stamped => e.stamped
  /\ d.seeded => e.seeded
  /\ d.mode => e.mode
  /\ Hashed(d.audit) => Hashed(e.audit)
  /\ s.op = "chain" => Hashed(e.audit)
  /\ s.op = "items" => Rows \ Sparse \subseteq e.items
  /\ s.op = "stamp" => e.stamped
  /\ s.op = "seed" => e.seeded
  /\ s.op = "mode" => e.mode
  /\ s.op = "record" => s.version \in e.recorded

(* An EXCEPT of a database is a database. *)
LEMMA RowFields ==
  ASSUME NEW d \in DbRows
  PROVE  /\ d.objects \subseteq Objects /\ d.recorded \subseteq Mig!Versions /\ d.audit \in Seq(Int)
         /\ d.items \subseteq Rows /\ d.cased \in BOOLEAN /\ d.stamped \in BOOLEAN
         /\ d.seeded \in BOOLEAN /\ d.mode \in BOOLEAN
BY DEF DbRows

(* Statements that change the schema. *)
LEMMA SchemaMoves ==
  ASSUME NEW d, Sound(d), NEW v, NEW s, Fine(v, s), ~Mig!Refused(d, s),
         s.op \in {"table", "add", "add_or_skip", "drop"}, NEW e, e = Mig!Effect(d, s)
  PROVE  Moves(d, e, s)
<1>1. d \in DbRows /\ s \in StatementRows
  BY DEF Sound, Fine
<1>2. Mig!Makes(s) \subseteq Objects
  BY DEF Fine
<1>3. CASE s.op = "table" /\ Mig!Has(d, s.table, "-")
  <2>1. e = d
    BY <1>3 DEF Mig!Effect
  <2>2. Mig!Makes(s) = {<<s.table, n>> : n \in s.names \cup {"-"}} /\ Mig!Drops(s) = {}
    BY <1>3 DEF Mig!Makes, Mig!Drops
  <2>3. Mig!Makes(s) \ Gone \subseteq d.objects
    <3>1. ASSUME NEW n \in s.names \cup {"-"}, <<s.table, n>> \notin Gone PROVE <<s.table, n>> \in d.objects
      <4>1. n = "-"
        BY <1>3, <3>1 DEF Fine
      <4> QED BY <1>3, <4>1 DEF Mig!Has
    <3> QED BY <2>2, <3>1
  <2> QED BY <1>3, <2>1, <2>2, <2>3 DEF Moves
<1>4. CASE ~(s.op = "table" /\ Mig!Has(d, s.table, "-"))
  <2>1. PICK objects : objects = (d.objects \cup Mig!Makes(s)) \ Mig!Drops(s)
    OBVIOUS
  <2>2. e = [d EXCEPT !.objects = objects]
    BY <1>4, <2>1 DEF Mig!Effect
  <2>3. objects \subseteq Objects
    BY <1>1, <1>2, <2>1, RowFields
  <2>4. /\ e \in DbRows /\ e.objects = objects /\ e.recorded = d.recorded /\ e.audit = d.audit
        /\ e.items = d.items
    BY <1>1, <2>2, <2>3 DEF DbRows
  <2>5. (e.stamped <=> d.stamped) /\ (e.seeded <=> d.seeded) /\ (e.mode <=> d.mode)
    BY <1>1, <2>2 DEF DbRows
  <2>6. ASSUME NEW o \in objects PROVE o[2] = "-" \/ <<o[1], "-">> \in objects
    <3>1. SUFFICES ASSUME o[2] # "-" PROVE <<o[1], "-">> \in objects
      OBVIOUS
    <3>2. <<o[1], "-">> \notin Mig!Drops(s)
      <4>1. SUFFICES ASSUME s.op = "drop" PROVE \A n \in s.names : <<s.table, n>> # <<o[1], "-">>
        BY DEF Mig!Drops
      <4> QED BY <4>1 DEF Fine
    <3>3. CASE o \in d.objects
      <4>1. <<o[1], "-">> \in d.objects
        BY <3>1, <3>3 DEF Sound
      <4> QED BY <2>1, <3>2, <4>1
    <3>4. CASE o \in Mig!Makes(s)
      <4>1. CASE s.op = "table"
        <5>1. Mig!Makes(s) = {<<s.table, n>> : n \in s.names \cup {"-"}}
          BY <4>1 DEF Mig!Makes
        <5>2. o[1] = s.table /\ <<s.table, "-">> \in Mig!Makes(s)
          BY <3>4, <5>1
        <5> QED BY <2>1, <3>2, <5>2
      <4>2. CASE s.op # "table"
        <5>1. s.op \in {"add", "add_or_skip"} /\ Mig!Makes(s) = {<<s.table, n>> : n \in s.names}
          BY <3>4, <4>2 DEF Mig!Makes
        <5>2. o[1] = s.table /\ s.table # "-"
          BY <3>4, <5>1 DEF Fine
        <5>3. <<o[1], "-">> \in d.objects
          BY <4>2, <5>2 DEF Mig!Refused, Mig!Has
        <5> QED BY <2>1, <3>2, <5>3
      <4> QED BY <4>1, <4>2
    <3> QED BY <2>1, <3>3, <3>4
  <2>7. Sound(e)
    BY <2>4, <2>6 DEF Sound
  <2>8. Mig!Makes(s) \cap Mig!Drops(s) = {}
    BY DEF Mig!Makes, Mig!Drops
  <2> QED BY <2>1, <2>4, <2>5, <2>7, <2>8 DEF Moves
<1> QED BY <1>3, <1>4

(* Statements that change the rows. *)
LEMMA RowsMove ==
  ASSUME NEW d, Sound(d), NEW s \in StatementRows, NEW e, e = Mig!Effect(d, s),
         s.op \in {"chain", "items", "stamp", "seed", "mode", "record"},
         s.op = "record" => s.version \in Mig!Versions /\ (s.version = "V003" => Hashed(d.audit))
  PROVE  Moves(d, e, s)
<1>1. d \in DbRows /\ Mig!Makes(s) = {} /\ Mig!Drops(s) = {}
  BY DEF Sound, Mig!Makes, Mig!Drops
<1>2. CASE s.op = "chain"
  <2>1. PICK log : log = Mig!Chained(d.audit)
    OBVIOUS
  <2>2. log \in Seq(Int) /\ Hashed(log)
    BY <1>1, <2>1, ChainedHashes, RowFields DEF Sound
  <2>3. e = [d EXCEPT !.audit = log]
    BY <1>2, <2>1 DEF Mig!Effect
  <2>4. /\ e \in DbRows /\ e.objects = d.objects /\ e.recorded = d.recorded /\ e.audit = log
        /\ e.items = d.items
    BY <1>1, <2>2, <2>3 DEF DbRows
  <2>5. (e.stamped <=> d.stamped) /\ (e.seeded <=> d.seeded) /\ (e.mode <=> d.mode)
    BY <1>1, <2>3 DEF DbRows
  <2>6. Sound(e)
    BY <2>2, <2>4 DEF Sound
  <2> QED BY <1>1, <1>2, <2>2, <2>4, <2>5, <2>6 DEF Moves
<1>3. CASE s.op = "items"
  <2>1. PICK items : items = d.items \cup Mig!Candidates(d)
    OBVIOUS
  <2>2. items \subseteq Rows /\ Rows \ Sparse \subseteq items /\ d.items \subseteq items
    BY <1>1, <2>1, RowFields DEF Mig!Candidates
  <2>3. e = [d EXCEPT !.items = items]
    BY <1>3, <2>1 DEF Mig!Effect
  <2>4. /\ e \in DbRows /\ e.objects = d.objects /\ e.recorded = d.recorded /\ e.audit = d.audit
        /\ e.items = items
    BY <1>1, <2>2, <2>3 DEF DbRows
  <2>5. (e.stamped <=> d.stamped) /\ (e.seeded <=> d.seeded) /\ (e.mode <=> d.mode)
    BY <1>1, <2>3 DEF DbRows
  <2>6. Sound(e)
    BY <2>4 DEF Sound
  <2> QED BY <1>1, <1>3, <2>2, <2>4, <2>5, <2>6 DEF Moves
<1>4. CASE s.op = "record"
  <2>1. PICK recorded : recorded = d.recorded \cup {s.version}
    OBVIOUS
  <2>2. recorded \subseteq Mig!Versions
    BY <1>1, <1>4, <2>1, RowFields
  <2>3. e = [d EXCEPT !.recorded = recorded]
    BY <1>4, <2>1 DEF Mig!Effect
  <2>4. /\ e \in DbRows /\ e.objects = d.objects /\ e.recorded = recorded /\ e.audit = d.audit
        /\ e.items = d.items
    BY <1>1, <2>2, <2>3 DEF DbRows
  <2>5. (e.stamped <=> d.stamped) /\ (e.seeded <=> d.seeded) /\ (e.mode <=> d.mode)
    BY <1>1, <2>3 DEF DbRows
  <2>6. Sound(e)
    BY <1>4, <2>1, <2>4 DEF Sound
  <2> QED BY <1>1, <1>4, <2>1, <2>4, <2>5, <2>6 DEF Moves
<1>5. CASE s.op \in {"stamp", "seed", "mode"}
  <2>1. e = IF s.op = "stamp" THEN [d EXCEPT !.stamped = TRUE]
            ELSE IF s.op = "seed" THEN [d EXCEPT !.seeded = TRUE] ELSE [d EXCEPT !.mode = TRUE]
    BY <1>5 DEF Mig!Effect
  <2>2. /\ e \in DbRows /\ e.objects = d.objects /\ e.recorded = d.recorded /\ e.audit = d.audit
        /\ e.items = d.items
    <3>1. CASE s.op = "stamp"
      <4>1. e = [d EXCEPT !.stamped = TRUE]
        BY <2>1, <3>1
      <4> QED BY <1>1, <4>1 DEF DbRows
    <3>2. CASE s.op = "seed"
      <4>1. e = [d EXCEPT !.seeded = TRUE]
        BY <2>1, <3>2
      <4> QED BY <1>1, <4>1 DEF DbRows
    <3>3. CASE s.op = "mode"
      <4>1. e = [d EXCEPT !.mode = TRUE]
        BY <2>1, <3>3
      <4> QED BY <1>1, <4>1 DEF DbRows
    <3> QED BY <1>5, <3>1, <3>2, <3>3
  <2>3. /\ e.stamped <=> d.stamped \/ s.op = "stamp"
        /\ e.seeded <=> d.seeded \/ s.op = "seed"
        /\ e.mode <=> d.mode \/ s.op = "mode"
    BY <1>1, <1>5, <2>1 DEF DbRows
  <2>4. Sound(e)
    BY <2>2 DEF Sound
  <2> QED BY <1>1, <1>5, <2>2, <2>3, <2>4 DEF Moves
<1> QED BY <1>2, <1>3, <1>4, <1>5

-----------------------------------------------------------------------------
(* Migrations: the boots of a process over SQLite.                         *)

Works == {Mig!NoWork} \cup {Mig!Opened(d) : d \in DbRows}
Runners ==
  /\ backend \in {"sqlite", "postgres"} /\ torn \in BOOLEAN /\ faults \in 0..MaxFaults
  /\ work \in [Replicas -> Works] /\ at \in [Replicas -> 0..23]
  /\ phase \in [Replicas -> Mig!Phases] /\ line \in Nat \ {0}
  /\ Sound(db)
  /\ \A p \in Replicas : work[p].open => Sound(work[p].d)

ScriptAt(i) == Mig!Statements[Mig!SqliteOrder[i]]
Now == ScriptAt(at[Single])[line]

(* The statements this boot has passed, what the last of them has dropped  *)
(* for the next, and what the others have left.                            *)
Passed(i, k) ==
  i \in 1..22 /\ k \in 1..Len(ScriptAt(i)) /\ (i < at[Single] \/ (i = at[Single] /\ k < line))
Pending == IF line = 1 THEN {} ELSE Mig!Drops(ScriptAt(at[Single])[line - 1])
Achieved(d, pending, s) ==
  /\ Mig!Makes(s) \ Gone \subseteq d.objects \cup pending
  /\ s.op = "chain" => Hashed(d.audit)
  /\ s.op = "items" => Rows \ Sparse \subseteq d.items
  /\ s.op = "seed" => d.seeded
  /\ s.op = "mode" => d.mode
  /\ s.op = "record" => s.version \in d.recorded

(* Cases have the column, but not all of them a value. *)
Unstamped(d) == Mig!Has(d, "order_case", "updated_at") /\ ~d.stamped
Midway ==
  /\ phase[Single] = "run" /\ at[Single] = 11
  /\ line = 2 \/ (line \in {3, 4} /\ work[Single].open /\ work[Single].d.stamped)

SqliteFits ==
  /\ \A p \in Replicas \ {Single} : phase[p] = "down" /\ ~work[p].open
  /\ phase[Single] \in {"down", "run", "serving"}
  /\ phase[Single] = "run" => at[Single] \in 1..22 /\ line \in 1..Len(ScriptAt(at[Single]))
  /\ phase[Single] = "serving" => at[Single] = 23
  /\ phase[Single] # "run" => line = 1
  /\ line = 1 => ~work[Single].open
PassedFit ==
  phase[Single] # "down" =>
    \A i, k : Passed(i, k) => Achieved(Mig!Seen(Single), Pending, ScriptAt(i)[k])
StampFit ==
  /\ Unstamped(db) => torn \/ Midway
  /\ work[Single].open /\ Unstamped(work[Single].d) => torn

(* A transaction is open on a database. *)
LEMMA WorkIs ==
  /\ ~Mig!NoWork.open /\ Mig!NoWork \in Works
  /\ \A d : Mig!Opened(d).open /\ Mig!Opened(d).d = d
  /\ \A d \in DbRows : Mig!Opened(d) \in Works
  /\ \A w \in Works : w.open \in BOOLEAN
<1>1. Mig!NoWork.open = FALSE /\ \A d : Mig!Opened(d).open = TRUE /\ Mig!Opened(d).d = d
  BY DEF Mig!NoWork, Mig!Opened
<1>2. \A w \in Works : w.open \in BOOLEAN
  <2>1. ASSUME NEW w \in Works PROVE w.open \in BOOLEAN
    <3>1. CASE w = Mig!NoWork
      BY <1>1, <3>1
    <3>2. CASE w # Mig!NoWork
      <4>1. PICK d \in DbRows : w = Mig!Opened(d)
        BY <3>2 DEF Works
      <4> QED BY <1>1, <4>1
    <3> QED BY <3>1, <3>2
  <2> QED BY <2>1
<1> QED BY <1>1, <1>2 DEF Works

(* What a process sees is sound. *)
LEMMA SeenIsSound ==
  ASSUME Runners, NEW p \in Replicas
  PROVE  Sound(Mig!Seen(p))
BY DEF Runners, Mig!Seen

(* The statements of a script, by their place. *)
LEMMA Placing ==
  ASSUME NEW v \in Mig!Versions, NEW S, S = Mig!Statements[v], NEW k \in 1..Len(S), NEW s, s = S[k]
  PROVE  /\ Len(S) \in Nat /\ Len(S) >= 2 /\ s \in StatementRows
         /\ s.op \notin {"table", "add", "add_or_skip"} => Mig!Makes(s) = {}
         /\ s.op # "drop" => Mig!Drops(s) = {}
         /\ k = Len(S) => s.op = "commit"
         /\ k = Len(S) - 1 => s.op = "record"
         /\ s.op = "record" => k = Len(S) - 1 /\ s.version = v /\ s.table = "-"
         /\ s.op \in {"table", "add", "add_or_skip", "drop"} => Fine(v, s)
         /\ k > 1 => Mig!Drops(S[k - 1]) \ Gone \subseteq Mig!Makes(s)
<1>1. Entire(v, S)
  BY ScriptsAreEntire
<1>2. S \in Seq(StatementRows) /\ Len(S) \in Nat /\ Len(S) >= 2 /\ s \in StatementRows
  BY <1>1 DEF Entire
<1>3. s.op \notin {"table", "add", "add_or_skip"} => Mig!Makes(s) = {}
  BY DEF Mig!Makes
<1>4. s.op # "drop" => Mig!Drops(s) = {}
  BY DEF Mig!Drops
<1>5. k = Len(S) => s.op = "commit"
  BY <1>1 DEF Entire
<1>6. k = Len(S) - 1 => s.op = "record" /\ s.version = v /\ s.table = "-"
  BY <1>1 DEF Entire
<1>7. k # Len(S) /\ k # Len(S) - 1 => k \in 1..Len(S) - 2
  <2>1. PICK n \in Nat : n = Len(S)
    BY <1>2
  <2> QED BY <2>1
<1>8. k \in 1..Len(S) - 2 => Fine(v, s) /\ s.op # "record"
  BY <1>1 DEF Entire, Fine
<1>9. k > 1 => Mig!Drops(S[k - 1]) \ Gone \subseteq Mig!Makes(s)
  <2>1. SUFFICES ASSUME k > 1, S[k - 1].op = "drop", ~(Mig!Drops(S[k - 1]) \subseteq Gone)
                 PROVE  Mig!Drops(S[k - 1]) \subseteq Mig!Makes(s)
    BY DEF Mig!Drops
  <2>2. k - 1 \in 1..Len(S) - 2
    <3>1. PICK n \in Nat : n = Len(S)
      BY <1>2
    <3>2. k - 1 \in 1..n - 1 /\ (k - 1) + 1 = k
      BY <2>1, <3>1
    <3>3. k - 1 # n - 1
      BY <1>1, <2>1, <3>1 DEF Entire
    <3> QED BY <3>1, <3>2, <3>3
  <2>3. (k - 1) + 1 = k
    BY <1>2
  <2>4. s.op = "add" /\ s.table = S[k - 1].table /\ s.names = S[k - 1].names
    BY <1>1, <2>1, <2>2, <2>3 DEF Entire
  <2> QED BY <2>1, <2>4 DEF Mig!Drops, Mig!Makes
<1> QED BY <1>2, <1>3, <1>4, <1>5, <1>6, <1>7, <1>8, <1>9

(* V014 alone skips, and alone makes updated_at, with its first statement. *)
LEMMA V014Only ==
  ASSUME NEW v \in Mig!Versions, NEW S, S = Mig!Statements[v], NEW k \in 1..Len(S), NEW s, s = S[k],
         s.op = "add_or_skip" \/ <<"order_case", "updated_at">> \in Mig!Makes(s)
  PROVE  v = "V014" /\ k = 1 /\ Len(S) = 4 /\ S[2].op = "stamp"
<1>1. v = "V014"
  <2>1. s.op \in {"table", "add", "add_or_skip"}
    BY DEF Mig!Makes
  <2>2. Fine(v, s)
    BY <2>1, Placing
  <2>3. MadeIn(<<"order_case", "updated_at">>) = "V014"
    BY DEF MadeIn, MadeOfCases
  <2> QED BY <2>2, <2>3 DEF Fine
<1>2. S = Mig!V014
  BY <1>1 DEF Mig!Statements
<1>3. Len(S) = 4 /\ S[2].op = "stamp"
  BY <1>2, V014Fits
<1>4. k = 1
  <2>1. k \in 1..4
    BY <1>3
  <2>2. S[3].op = "record" /\ S[4].op = "commit"
    <3>1. Entire(v, S)
      BY ScriptsAreEntire
    <3>2. Len(S) = 4 /\ Len(S) - 1 = 3
      BY <1>3
    <3> QED BY <3>1, <3>2 DEF Entire
  <2>3. SUFFICES ASSUME k \in {2, 3, 4} PROVE FALSE
    BY <2>1
  <2>4. s.op \in {"stamp", "record", "commit"}
    BY <1>3, <2>2, <2>3
  <2> QED BY <2>4 DEF Mig!Makes
<1> QED BY <1>1, <1>3, <1>4

(* V003 chains the events before it is recorded. *)
LEMMA V003Chains ==
  ASSUME NEW S, S = Mig!Statements["V003"]
  PROVE  \E k \in 1..Len(S) - 2 : S[k].op = "chain"
<1>1. S = Mig!V003
  BY DEF Mig!Statements
<1> QED BY <1>1, V003Fits DEF Does

(* A statement of apply_sqlite that is not refused. *)
Advances(s) ==
  LET next == line + IF Mig!Skips(Mig!Seen(Single), s) THEN 2 ELSE 1
      ended == next > Len(ScriptAt(at[Single]))
  IN  /\ line' = IF ended THEN 1 ELSE next
      /\ at' = [at EXCEPT ![Single] = IF ended THEN @ + 1 ELSE @]
      /\ phase' = [phase EXCEPT ![Single] = IF ended /\ at[Single] = 22 THEN "serving" ELSE @]
Runs(s) ==
  /\ phase[Single] = "run" /\ UNCHANGED <<backend, torn, faults>> /\ Advances(s)
  /\ \/ s.op = "commit" /\ db' = Mig!Seen(Single) /\ work' = [work EXCEPT ![Single] = Mig!NoWork]
     \/ /\ s.op # "commit" /\ ~Mig!Refused(Mig!Seen(Single), s)
        /\ \/ /\ s.op \in Mig!Dml \/ work[Single].open
              /\ work' = [work EXCEPT ![Single] = Mig!Opened(Mig!Effect(Mig!Seen(Single), s))]
              /\ db' = db
           \/ /\ s.op \notin Mig!Dml /\ ~work[Single].open
              /\ db' = Mig!Effect(Mig!Seen(Single), s) /\ work' = work

(* The next statement commits, is refused or runs. *)
LEMMA SqliteStepIs ==
  ASSUME Mig!SqliteStep(Single)
  PROVE  \/ phase[Single] = "run" /\ Now.op # "commit" /\ Mig!Refused(Mig!Seen(Single), Now) /\ Mig!Fail(Single)
         \/ Runs(Now)
<1>1. Len(Mig!SqliteOrder) = 22
  BY OrdersAreWhole
<1>2. PICK s : s = Now
  OBVIOUS
<1>3. PICK S : S = ScriptAt(at[Single])
  OBVIOUS
<1>4. S = Mig!Statements[Mig!SqliteOrder[at[Single]]] /\ s = S[line]
  BY <1>2, <1>3 DEF ScriptAt, Now
<1>5. PICK next : next = line + IF Mig!Skips(Mig!Seen(Single), s) THEN 2 ELSE 1
  OBVIOUS
<1>6. /\ phase[Single] = "run"
      /\ \/ /\ s.op = "commit" /\ db' = Mig!Seen(Single) /\ work' = [work EXCEPT ![Single] = Mig!NoWork]
            /\ line' = IF next > Len(S) THEN 1 ELSE next
            /\ at' = [at EXCEPT ![Single] = IF next > Len(S) THEN @ + 1 ELSE @]
            /\ phase' = [phase EXCEPT ![Single] =
                           IF next > Len(S) /\ at[Single] = Len(Mig!SqliteOrder) THEN "serving" ELSE @]
            /\ UNCHANGED <<backend, torn, faults>>
         \/ s.op # "commit" /\ Mig!Refused(Mig!Seen(Single), s) /\ Mig!Fail(Single)
         \/ /\ s.op # "commit" /\ ~Mig!Refused(Mig!Seen(Single), s)
            /\ IF s.op \in Mig!Dml \/ work[Single].open
               THEN /\ work' = [work EXCEPT ![Single] = Mig!Opened(IF s.op = "commit" THEN Mig!Seen(Single)
                                                                   ELSE Mig!Effect(Mig!Seen(Single), s))]
                    /\ UNCHANGED db
               ELSE /\ db' = IF s.op = "commit" THEN Mig!Seen(Single) ELSE Mig!Effect(Mig!Seen(Single), s)
                    /\ UNCHANGED work
            /\ line' = IF next > Len(S) THEN 1 ELSE next
            /\ at' = [at EXCEPT ![Single] = IF next > Len(S) THEN @ + 1 ELSE @]
            /\ phase' = [phase EXCEPT ![Single] =
                           IF next > Len(S) /\ at[Single] = Len(Mig!SqliteOrder) THEN "serving" ELSE @]
            /\ UNCHANGED <<backend, torn, faults>>
  BY <1>4, <1>5, Zenon DEF Mig!SqliteStep
<1>7. CASE s.op # "commit" /\ Mig!Refused(Mig!Seen(Single), s) /\ Mig!Fail(Single)
  BY <1>2, <1>6, <1>7
<1>8. CASE ~(s.op # "commit" /\ Mig!Refused(Mig!Seen(Single), s) /\ Mig!Fail(Single))
  <2>1. Advances(s)
    BY <1>1, <1>3, <1>5, <1>6, <1>8 DEF Advances
  <2>2. Runs(s)
    BY <1>6, <1>8, <2>1 DEF Runs
  <2> QED BY <1>2, <2>2
<1> QED BY <1>7, <1>8

(* What a boot is at. *)
LEMMA NowIs ==
  ASSUME Runners, SqliteFits, phase[Single] = "run",
         NEW v, v = Mig!SqliteOrder[at[Single]], NEW S, S = ScriptAt(at[Single]), NEW s, s = Now
  PROVE  /\ at[Single] \in 1..22 /\ v \in Mig!Versions /\ S = Mig!Statements[v]
         /\ line \in 1..Len(S) /\ s = S[line] /\ Len(S) \in Nat /\ line \in Nat
<1>1. at[Single] \in 1..22 /\ line \in 1..Len(S) /\ s = S[line]
  BY DEF SqliteFits, Now
<1>2. S = Mig!Statements[v]
  BY DEF ScriptAt
<1>3. v \in Mig!Versions
  BY <1>1, OrdersAreWhole
<1>4. Len(S) \in Nat
  BY <1>1, <1>2, <1>3, Placing
<1>5. line \in Nat
  BY DEF Runners
<1> QED BY <1>1, <1>2, <1>3, <1>4, <1>5

(* It moves the database it sees. *)
LEMMA RunMoves ==
  ASSUME Single \in Replicas, Runners, SqliteFits, PassedFit, NEW s, s = Now, Runs(s)
  PROVE  /\ Moves(Mig!Seen(Single), Mig!Seen(Single)', s)
         /\ Sound(db') /\ work' \in [Replicas -> Works]
         /\ \A p \in Replicas : work'[p].open => Sound(work'[p].d)
         /\ \A p \in Replicas \ {Single} : work'[p] = work[p]
<1>1. PICK v : v = Mig!SqliteOrder[at[Single]]
  OBVIOUS
<1>2. PICK S : S = ScriptAt(at[Single])
  OBVIOUS
<1>3. /\ at[Single] \in 1..22 /\ v \in Mig!Versions /\ S = Mig!Statements[v]
      /\ line \in 1..Len(S) /\ s = S[line] /\ Len(S) \in Nat /\ line \in Nat
  BY <1>1, <1>2, NowIs DEF Runs
<1>4. PICK d : d = Mig!Seen(Single)
  OBVIOUS
<1>5. Sound(d) /\ d = IF work[Single].open THEN work[Single].d ELSE db
  BY <1>4, SeenIsSound DEF Mig!Seen
<1>6. work \in [Replicas -> Works] /\ Sound(db)
  BY DEF Runners
<1>7. CASE s.op = "commit"
  <2>1. db' = d /\ work' = [work EXCEPT ![Single] = Mig!NoWork]
    BY <1>4, <1>7 DEF Runs
  <2>2. /\ work' \in [Replicas -> Works] /\ work'[Single] = Mig!NoWork
        /\ \A p \in Replicas \ {Single} : work'[p] = work[p]
    BY <1>6, <2>1, WorkIs
  <2>3. Mig!Seen(Single)' = d
    BY <2>1, <2>2, WorkIs DEF Mig!Seen
  <2>4. Mig!Makes(s) = {} /\ Mig!Drops(s) = {}
    BY <1>7 DEF Mig!Makes, Mig!Drops
  <2>5. Moves(d, d, s)
    BY <1>5, <1>7, <2>4 DEF Moves
  <2>6. \A p \in Replicas : work'[p].open => Sound(work'[p].d)
    BY <2>2, WorkIs DEF Runners
  <2> QED BY <1>4, <1>5, <2>1, <2>2, <2>3, <2>5, <2>6
<1>8. CASE s.op # "commit"
  <2>1. PICK e : e = Mig!Effect(d, s)
    OBVIOUS
  <2>2. ~Mig!Refused(d, s)
    BY <1>4, <1>8 DEF Runs
  <2>3. s \in StatementRows /\ s.op \in Ops
    <3>1. s \in StatementRows
      BY <1>3, Placing
    <3> QED BY <3>1 DEF StatementRows
  <2>4. Moves(d, e, s)
    <3>1. CASE s.op \in {"table", "add", "add_or_skip", "drop"}
      <4>1. Fine(v, s)
        BY <1>3, <3>1, Placing
      <4> QED BY <1>5, <2>1, <2>2, <3>1, <4>1, SchemaMoves
    <3>2. CASE s.op \notin {"table", "add", "add_or_skip", "drop"}
      <4>1. s.op \in {"chain", "items", "stamp", "seed", "mode", "record"}
        BY <1>8, <2>3, <3>2 DEF Ops
      <4>2. s.op = "record" => line = Len(S) - 1 /\ s.version = v
        BY <1>3, Placing
      <4>3. ASSUME s.op = "record", v = "V003" PROVE Hashed(d.audit)
        <5>1. PICK k \in 1..Len(S) - 2 : S[k].op = "chain"
          BY <1>3, <4>3, V003Chains
        <5>2. k \in 1..Len(S) /\ k < line
          BY <1>3, <4>2, <4>3, <5>1
        <5>3. Passed(at[Single], k)
          BY <1>2, <1>3, <5>2 DEF Passed
        <5>4. Achieved(d, Pending, S[k])
          BY <1>2, <1>4, <5>3 DEF PassedFit, Runs
        <5> QED BY <5>1, <5>4 DEF Achieved
      <4> QED BY <1>3, <1>5, <2>1, <2>3, <4>1, <4>2, <4>3, RowsMove
    <3> QED BY <3>1, <3>2
  <2>5. Sound(e) /\ e \in DbRows
    BY <2>4 DEF Moves, Sound
  <2>6. CASE s.op \in Mig!Dml \/ work[Single].open
    <3>1. db' = db /\ work' = [work EXCEPT ![Single] = Mig!Opened(e)]
      BY <1>4, <1>8, <2>1, <2>6 DEF Runs
    <3>2. /\ work' \in [Replicas -> Works] /\ work'[Single] = Mig!Opened(e)
          /\ \A p \in Replicas \ {Single} : work'[p] = work[p]
      BY <1>6, <2>5, <3>1, WorkIs
    <3>3. Mig!Seen(Single)' = e
      BY <3>2, WorkIs DEF Mig!Seen
    <3>4. \A p \in Replicas : work'[p].open => Sound(work'[p].d)
      BY <2>5, <3>2, WorkIs DEF Runners
    <3> QED BY <1>4, <1>6, <2>4, <3>1, <3>2, <3>3, <3>4
  <2>7. CASE ~(s.op \in Mig!Dml \/ work[Single].open)
    <3>1. db' = e /\ work' = work
      BY <1>4, <1>8, <2>1, <2>7 DEF Runs
    <3>2. Mig!Seen(Single)' = e
      BY <2>7, <3>1 DEF Mig!Seen
    <3> QED BY <1>4, <1>6, <2>4, <2>5, <3>1, <3>2 DEF Runners
  <2> QED BY <2>6, <2>7
<1> QED BY <1>7, <1>8

(* Where it goes on. *)
LEMMA RunAdvances ==
  ASSUME Single \in Replicas, Runners, SqliteFits, NEW s, s = Now, Runs(s),
         NEW S, S = ScriptAt(at[Single])
  PROVE  /\ \/ /\ at'[Single] = at[Single] /\ phase'[Single] = "run" /\ line' = line + 1
               /\ line + 1 \in 1..Len(S) /\ ~(s.op = "add_or_skip" /\ Unstamped(Mig!Seen(Single)))
            \/ /\ at'[Single] = at[Single] /\ phase'[Single] = "run" /\ line = 1 /\ line' = 3
               /\ at[Single] = 11 /\ Len(S) = 4 /\ s.op = "add_or_skip" /\ S[2].op = "stamp"
            \/ /\ at'[Single] = at[Single] + 1 /\ line' = 1 /\ line = Len(S) /\ s.op = "commit"
               /\ phase'[Single] = IF at[Single] = 22 THEN "serving" ELSE "run"
         /\ at' \in [Replicas -> 0..23] /\ phase' \in [Replicas -> Mig!Phases]
         /\ \A p \in Replicas \ {Single} : phase'[p] = phase[p]
<1>1. PICK v : v = Mig!SqliteOrder[at[Single]]
  OBVIOUS
<1>2. /\ at[Single] \in 1..22 /\ v \in Mig!Versions /\ S = Mig!Statements[v]
      /\ line \in 1..Len(S) /\ s = S[line] /\ Len(S) \in Nat /\ line \in Nat
  BY <1>1, NowIs DEF Runs
<1>3. PICK skips \in BOOLEAN : skips <=> Mig!Skips(Mig!Seen(Single), s)
  OBVIOUS
<1>4. PICK next : next = line + IF skips THEN 2 ELSE 1
  OBVIOUS
<1>5. /\ line' = IF next > Len(S) THEN 1 ELSE next
      /\ at' = [at EXCEPT ![Single] = IF next > Len(S) THEN @ + 1 ELSE @]
      /\ phase' = [phase EXCEPT ![Single] = IF next > Len(S) /\ at[Single] = 22 THEN "serving" ELSE @]
      /\ phase[Single] = "run"
  BY <1>3, <1>4 DEF Runs, Advances
<1>6. at \in [Replicas -> 0..23] /\ phase \in [Replicas -> Mig!Phases]
  BY DEF Runners
<1>7. /\ at' \in [Replicas -> 0..23] /\ phase' \in [Replicas -> Mig!Phases]
      /\ \A p \in Replicas \ {Single} : phase'[p] = phase[p]
  <2>1. at[Single] + 1 \in 0..23
    <3>1. PICK n \in 1..22 : n = at[Single]
      BY <1>2
    <3> QED BY <3>1
  <2>2. "serving" \in Mig!Phases
    BY DEF Mig!Phases
  <2> QED BY <1>5, <1>6, <2>1, <2>2
<1>8. CASE skips
  <2>1. s.op = "add_or_skip"
    BY <1>3, <1>8 DEF Mig!Skips
  <2>2. v = "V014" /\ line = 1 /\ Len(S) = 4 /\ S[2].op = "stamp"
    BY <1>2, <2>1, V014Only
  <2>3. at[Single] = 11
    <3>1. PICK i \in 1..22 : i = at[Single]
      BY <1>2
    <3>2. Mig!SqliteOrder[i] = "V014"
      BY <1>1, <2>2, <3>1
    <3> QED BY <3>1, <3>2, OrdersAreWhole
  <2>4. next = 3 /\ ~(next > Len(S))
    BY <1>4, <1>8, <2>2
  <2>5. at'[Single] = at[Single] /\ phase'[Single] = "run" /\ line' = 3
    BY <1>5, <1>6, <2>4
  <2> QED BY <1>7, <2>1, <2>2, <2>3, <2>5
<1>9. CASE ~skips
  <2>1. next = line + 1
    BY <1>4, <1>9
  <2>2. CASE line = Len(S)
    <3>1. next > Len(S) /\ s.op = "commit"
      <4>1. s.op = "commit"
        BY <1>2, <2>2, Placing
      <4> QED BY <1>2, <2>1, <2>2, <4>1
    <3> QED BY <1>5, <1>6, <1>7, <2>2, <3>1
  <2>3. CASE line # Len(S)
    <3>1. ~(next > Len(S)) /\ line + 1 \in 1..Len(S)
      BY <1>2, <2>1, <2>3
    <3>2. ~(s.op = "add_or_skip" /\ Unstamped(Mig!Seen(Single)))
      <4>1. SUFFICES ASSUME s.op = "add_or_skip", Unstamped(Mig!Seen(Single)) PROVE FALSE
        OBVIOUS
      <4>2. s.table = "order_case"
        <5>1. S = Mig!V014 /\ line = 1
          BY <1>2, <4>1, V014Only DEF Mig!Statements
        <5> QED BY <1>2, <5>1, V014Fits
      <4> QED BY <1>3, <1>9, <4>1, <4>2 DEF Mig!Skips, Unstamped
    <3> QED BY <1>5, <1>6, <1>7, <2>1, <3>1, <3>2
  <2> QED BY <2>2, <2>3
<1> QED BY <1>8, <1>9

(* What it has passed stays achieved, and so is the statement.             *)
LEMMA RunPasses ==
  ASSUME Single \in Replicas, Runners, SqliteFits, PassedFit, NEW s, s = Now, Runs(s)
  PROVE  PassedFit'
<1>1. PICK v : v = Mig!SqliteOrder[at[Single]]
  OBVIOUS
<1>2. PICK S : S = ScriptAt(at[Single])
  OBVIOUS
<1>3. /\ at[Single] \in 1..22 /\ v \in Mig!Versions /\ S = Mig!Statements[v]
      /\ line \in 1..Len(S) /\ s = S[line] /\ Len(S) \in Nat /\ line \in Nat
  BY <1>1, <1>2, NowIs DEF Runs
<1>4. PICK d : d = Mig!Seen(Single)
  OBVIOUS
<1>5. PICK e : e = Mig!Seen(Single)'
  OBVIOUS
<1>6. Moves(d, e, s)
  BY <1>4, <1>5, RunMoves
<1>7. PICK dropped : dropped = Mig!Drops(s)
  OBVIOUS
<1>8. Pending \ Gone \subseteq Mig!Makes(s)
  <2>1. CASE line = 1
    BY <2>1 DEF Pending
  <2>2. CASE line # 1
    BY <1>2, <1>3, <2>2, Placing DEF Pending
  <2> QED BY <2>1, <2>2
<1>9. ASSUME NEW t, Achieved(d, Pending, t) PROVE Achieved(e, dropped, t)
  <2>1. Mig!Makes(t) \ Gone \subseteq e.objects \cup dropped
    <3>1. ASSUME NEW o \in Mig!Makes(t), o \notin Gone PROVE o \in e.objects \cup dropped
      <4>1. o \in d.objects \/ o \in Pending
        BY <1>9, <3>1 DEF Achieved
      <4>2. CASE o \in d.objects
        BY <1>6, <1>7, <4>2 DEF Moves
      <4>3. CASE o \in Pending
        <5>1. o \in Mig!Makes(s)
          BY <1>8, <3>1, <4>3
        <5> QED BY <1>6, <3>1, <5>1 DEF Moves
      <4> QED BY <4>1, <4>2, <4>3
    <3> QED BY <3>1
  <2> QED BY <1>6, <1>9, <2>1 DEF Achieved, Moves
<1>10. Achieved(e, dropped, s)
  BY <1>6 DEF Achieved, Moves
<1>11. \A t : t.op = "stamp" => Achieved(e, dropped, t)
  BY DEF Achieved, Mig!Makes
<1>12. dropped \subseteq Pending'
  <2>1. CASE at'[Single] = at[Single] /\ line' = line + 1
    <3>1. line' # 1 /\ line' - 1 = line
      BY <1>3, <2>1
    <3> QED BY <1>2, <1>3, <1>7, <2>1, <3>1 DEF Pending, ScriptAt
  <2>2. CASE s.op \in {"add_or_skip", "commit"}
    BY <1>7, <2>2 DEF Mig!Drops
  <2> QED BY <1>2, <2>1, <2>2, RunAdvances
<1>13. ASSUME NEW i, NEW k, Passed(i, k)' PROVE Achieved(e, Pending', ScriptAt(i)[k])
  <2>0. PICK line1 : line1 = line'
    OBVIOUS
  <2>1. i \in 1..22 /\ k \in 1..Len(ScriptAt(i)) /\ (i < at'[Single] \/ (i = at'[Single] /\ k < line1))
    BY <1>13, <2>0 DEF Passed, ScriptAt
  <2>2. \/ Passed(i, k)
        \/ i = at[Single] /\ k = line
        \/ i = at[Single] /\ ScriptAt(i)[k].op = "stamp"
    <3>1. CASE at'[Single] = at[Single] /\ line1 = line + 1
      <4>1. k \in Int /\ (k < line + 1 => k < line \/ k = line)
        BY <1>3, <2>1
      <4> QED BY <2>1, <3>1, <4>1 DEF Passed
    <3>2. CASE at'[Single] = at[Single] /\ line = 1 /\ line1 = 3 /\ S[2].op = "stamp"
      <4>1. k < 3 /\ k \in 1..Len(ScriptAt(i)) => k = 1 \/ k = 2
        OBVIOUS
      <4>2. i < at[Single] => Passed(i, k)
        BY <2>1 DEF Passed
      <4> QED BY <1>2, <2>1, <3>2, <4>1, <4>2
    <3>3. CASE at'[Single] = at[Single] + 1 /\ line1 = 1 /\ line = Len(S)
      <4>1. i < at[Single] \/ i = at[Single]
        <5>1. PICK n \in 1..22 : n = at[Single]
          BY <1>3
        <5>2. i \in 1..22 /\ i < n + 1
          BY <2>1, <3>3, <5>1
        <5>3. i < n \/ i = n
          BY <5>2
        <5> QED BY <5>1, <5>3
      <4>2. CASE i < at[Single]
        BY <2>1, <4>2 DEF Passed
      <4>3. CASE i = at[Single]
        <5>1. k < line \/ k = line
          <6>1. k \in 1..Len(S)
            BY <1>2, <2>1, <4>3
          <6> QED BY <1>3, <3>3, <6>1
        <5> QED BY <2>1, <4>3, <5>1 DEF Passed
      <4> QED BY <4>1, <4>2, <4>3
    <3> QED BY <1>2, <2>0, <3>1, <3>2, <3>3, RunAdvances
  <2>3. Achieved(e, dropped, ScriptAt(i)[k])
    <3>1. CASE Passed(i, k)
      <4>1. Achieved(d, Pending, ScriptAt(i)[k])
        BY <1>4, <3>1 DEF PassedFit, Runs
      <4> QED BY <1>9, <4>1
    <3>2. CASE i = at[Single] /\ k = line
      BY <1>2, <1>3, <1>10, <3>2
    <3>3. CASE ScriptAt(i)[k].op = "stamp"
      BY <1>11, <3>3
    <3> QED BY <2>2, <3>1, <3>2, <3>3
  <2> QED BY <1>12, <2>3 DEF Achieved
<1> QED BY <1>5, <1>13 DEF PassedFit, ScriptAt

(* A database reads the same. *)
LEMMA UnstampedMoves ==
  ASSUME NEW d, NEW e, NEW s, Moves(d, e, s), <<"order_case", "updated_at">> \notin Mig!Makes(s), Unstamped(e)
  PROVE  Unstamped(d)
<1>1. <<"order_case", "updated_at">> \in d.objects
  BY DEF Moves, Unstamped, Mig!Has
<1> QED BY <1>1 DEF Moves, Unstamped, Mig!Has

(* V014's ALTER is followed by its UPDATE before anything else is.         *)
LEMMA RunStamps ==
  ASSUME Single \in Replicas, Runners, SqliteFits, PassedFit, StampFit, NEW s, s = Now, Runs(s)
  PROVE  StampFit'
<1>1. PICK v : v = Mig!SqliteOrder[at[Single]]
  OBVIOUS
<1>2. PICK S : S = ScriptAt(at[Single])
  OBVIOUS
<1>3. /\ at[Single] \in 1..22 /\ v \in Mig!Versions /\ S = Mig!Statements[v]
      /\ line \in 1..Len(S) /\ s = S[line] /\ Len(S) \in Nat /\ line \in Nat
  BY <1>1, <1>2, NowIs DEF Runs
<1>4. PICK d : d = Mig!Seen(Single)
  OBVIOUS
<1>5. PICK e : e = Mig!Seen(Single)'
  OBVIOUS
<1>6. Moves(d, e, s) /\ work' \in [Replicas -> Works]
  BY <1>4, <1>5, RunMoves
<1>7. torn' = torn /\ phase[Single] = "run"
  BY DEF Runs
<1>8. e = IF work'[Single].open THEN work'[Single].d ELSE db'
  BY <1>5 DEF Mig!Seen
<1>9. d = IF work[Single].open THEN work[Single].d ELSE db
  BY <1>4 DEF Mig!Seen
<1>10. \/ s.op = "commit" /\ db' = d /\ ~work'[Single].open
       \/ s.op # "commit" /\ (s.op \in Mig!Dml \/ work[Single].open) /\ db' = db /\ work'[Single].open
       \/ s.op # "commit" /\ s.op \notin Mig!Dml /\ ~work[Single].open /\ ~work'[Single].open /\ db' = e
  <2>1. work \in [Replicas -> Works]
    BY DEF Runners
  <2>2. CASE s.op = "commit"
    <3>1. db' = d /\ work' = [work EXCEPT ![Single] = Mig!NoWork]
      BY <1>4, <2>2 DEF Runs
    <3> QED BY <2>1, <2>2, <3>1, WorkIs
  <2>3. CASE s.op # "commit" /\ (s.op \in Mig!Dml \/ work[Single].open)
    <3>1. db' = db /\ work' = [work EXCEPT ![Single] = Mig!Opened(Mig!Effect(Mig!Seen(Single), s))]
      BY <2>3 DEF Runs
    <3> QED BY <2>1, <2>3, <3>1, WorkIs
  <2>4. CASE s.op # "commit" /\ ~(s.op \in Mig!Dml \/ work[Single].open)
    <3>1. work' = work
      BY <2>4 DEF Runs
    <3> QED BY <1>8, <2>4, <3>1
  <2> QED BY <2>2, <2>3, <2>4
<1>11. at[Single] = 11 => Len(S) = 4 /\ S[2].op = "stamp" /\ S[3].op = "record" /\ S[4].op = "commit"
  <2>1. SUFFICES ASSUME at[Single] = 11
                 PROVE  Len(S) = 4 /\ S[2].op = "stamp" /\ S[3].op = "record" /\ S[4].op = "commit"
    OBVIOUS
  <2>2. v = "V014"
    BY <1>1, <2>1, OrdersAreWhole
  <2>3. S = Mig!V014
    BY <1>3, <2>2 DEF Mig!Statements
  <2>4. Len(S) = 4 /\ S[2].op = "stamp"
    BY <2>3, V014Fits
  <2> QED BY <1>3, <2>4, Placing
\* The ALTER, with which the window opens.
<1>12. CASE <<"order_case", "updated_at">> \in Mig!Makes(s)
  <2>1. v = "V014" /\ line = 1 /\ Len(S) = 4
    BY <1>3, <1>12, V014Only
  <2>2. at[Single] = 11
    <3>1. PICK i \in 1..22 : i = at[Single]
      BY <1>3
    <3>2. Mig!SqliteOrder[i] = "V014"
      BY <1>1, <2>1, <3>1
    <3> QED BY <3>1, <3>2, OrdersAreWhole
  <2>3. ~work[Single].open
    BY <2>1 DEF SqliteFits
  <2>4. s.op # "commit" /\ s.op \notin Mig!Dml
    BY <1>12 DEF Mig!Makes, Mig!Dml
  <2>5. db' = e /\ ~work'[Single].open /\ d = db
    BY <1>9, <1>10, <2>3, <2>4
  <2>6. CASE Unstamped(d)
    <3>1. torn
      BY <2>1, <2>5, <2>6 DEF StampFit, Midway
    <3> QED BY <1>7, <2>5, <3>1 DEF StampFit
  <2>7. CASE ~Unstamped(d)
    <3>1. \/ at'[Single] = at[Single] /\ phase'[Single] = "run" /\ line' = line + 1
          \/ s.op = "add_or_skip" /\ line' = 3
      BY <1>2, <2>1, RunAdvances
    <3>2. CASE line' = line + 1 /\ at'[Single] = at[Single] /\ phase'[Single] = "run"
      <4>1. line' = 2 /\ at'[Single] = 11
        BY <2>1, <2>2, <3>2
      <4>2. Midway'
        BY <3>2, <4>1 DEF Midway
      <4> QED BY <2>5, <4>2 DEF StampFit
    <3>3. CASE s.op = "add_or_skip" /\ line' = 3
      <4>1. \E o : Mig!Skips(d, s) /\ o = s
        <5>1. SUFFICES ASSUME ~Mig!Skips(d, s) PROVE FALSE
          OBVIOUS
        <5>2. line' = IF line + 1 > Len(S) THEN 1 ELSE line + 1
          BY <1>2, <1>4, <5>1 DEF Runs, Advances
        <5> QED BY <2>1, <3>3, <5>2
      <4>2. s.table = "order_case"
        <5>1. S = Mig!V014
          BY <1>3, <2>1 DEF Mig!Statements
        <5> QED BY <1>3, <2>1, <5>1, V014Fits
      <4>3. d.stamped
        BY <2>7, <4>1, <4>2 DEF Mig!Skips, Unstamped
      <4>4. e.stamped
        BY <1>6, <4>3 DEF Moves
      <4> QED BY <2>5, <4>4 DEF StampFit, Unstamped
    <3> QED BY <3>1, <3>2, <3>3
  <2> QED BY <2>6, <2>7
\* The rest.
<1>13. CASE <<"order_case", "updated_at">> \notin Mig!Makes(s)
  <2>1. Unstamped(e) => Unstamped(d)
    BY <1>6, <1>13, UnstampedMoves
  <2>2. CASE Midway
    <3>1. line \in {2, 3, 4} /\ at[Single] = 11
      BY <2>2 DEF Midway
    <3>2. CASE line = 2
      <4>1. s.op = "stamp"
        BY <1>3, <1>11, <3>1, <3>2
      <4>2. e.stamped
        BY <1>6, <4>1 DEF Moves
      <4>3. db' = db /\ work'[Single].open /\ work'[Single].d = e
        BY <1>8, <1>10, <4>1 DEF Mig!Dml
      <4>4. line' = 3 /\ at'[Single] = 11 /\ phase'[Single] = "run"
        BY <1>2, <1>11, <3>1, <3>2, <4>1, RunAdvances
      <4> QED BY <4>2, <4>3, <4>4 DEF StampFit, Midway, Unstamped
    <3>3. CASE line = 3
      <4>1. s.op = "record"
        BY <1>3, <1>11, <3>1, <3>3
      <4>2. e.stamped
        BY <1>6, <1>9, <2>2, <3>3 DEF Moves, Midway
      <4>3. db' = db /\ work'[Single].open /\ work'[Single].d = e
        BY <1>8, <1>10, <4>1 DEF Mig!Dml
      <4>4. line' = 4 /\ at'[Single] = 11 /\ phase'[Single] = "run"
        BY <1>2, <1>11, <3>1, <3>3, <4>1, RunAdvances
      <4> QED BY <4>2, <4>3, <4>4 DEF StampFit, Midway, Unstamped
    <3>4. CASE line = 4
      <4>1. s.op = "commit" /\ d.stamped
        BY <1>3, <1>9, <1>11, <2>2, <3>1, <3>4 DEF Midway
      <4>2. db' = d /\ ~work'[Single].open
        BY <1>10, <4>1
      <4> QED BY <4>1, <4>2 DEF StampFit, Unstamped
    <3> QED BY <3>1, <3>2, <3>3, <3>4
  <2>3. CASE ~Midway
    <3>1. (Unstamped(db) => torn) /\ (Unstamped(d) => torn)
      BY <1>9, <2>3 DEF StampFit
    <3>2. (Unstamped(db') => torn) /\ (work'[Single].open /\ Unstamped(work'[Single].d) => torn)
      BY <1>8, <1>10, <2>1, <3>1
    <3> QED BY <1>7, <3>2 DEF StampFit, Unstamped
  <2> QED BY <2>2, <2>3
<1> QED BY <1>12, <1>13

(* What a process serves on. *)
Complete(d) ==
  /\ d.recorded = Mig!Versions
  /\ \A v \in Mig!Versions : Mig!Creates(v) \ Gone \subseteq d.objects
  /\ Rows \ Sparse \subseteq d.items
  /\ Hashed(d.audit)
  /\ d.seeded
  /\ d.mode

(* It has passed every statement of every version. *)
LEMMA SqliteServes ==
  ASSUME Runners, SqliteFits, PassedFit, StampFit, phase[Single] = "serving"
  PROVE  Complete(db) /\ (db.stamped \/ torn)
<1>1. at[Single] = 23 /\ line = 1 /\ ~work[Single].open
  BY DEF SqliteFits
<1>2. Mig!Seen(Single) = db /\ Pending = {}
  BY <1>1 DEF Mig!Seen, Pending
<1>3. ASSUME NEW v \in Mig!Versions, NEW k \in 1..Len(Mig!Statements[v])
      PROVE  Achieved(db, {}, Mig!Statements[v][k])
  <2>1. PICK i \in 1..22 : Mig!SqliteOrder[i] = v
    BY OrdersAreWhole
  <2>2. ScriptAt(i) = Mig!Statements[v]
    BY <2>1 DEF ScriptAt
  <2>3. Passed(i, k)
    BY <1>1, <2>2 DEF Passed
  <2>4. Achieved(Mig!Seen(Single), Pending, ScriptAt(i)[k])
    BY <2>3 DEF PassedFit
  <2> QED BY <1>2, <2>2, <2>4
<1>4. ASSUME NEW v \in Mig!Versions, NEW s, Does(Mig!Statements[v], s) PROVE Achieved(db, {}, s)
  <2>1. PICK k \in 1..Len(Mig!Statements[v]) - 2 : Mig!Statements[v][k] = s
    BY <1>4 DEF Does
  <2>2. Len(Mig!Statements[v]) \in Nat
    BY ScriptsAreEntire DEF Entire
  <2>3. k \in 1..Len(Mig!Statements[v])
    BY <2>1, <2>2
  <2> QED BY <1>3, <2>1, <2>3
<1>5. ASSUME NEW v \in Mig!Versions PROVE v \in db.recorded
  <2>1. PICK S : S = Mig!Statements[v]
    OBVIOUS
  <2>2. /\ S \in Seq(StatementRows) /\ Len(S) >= 2
        /\ S[Len(S) - 1].op = "record" /\ S[Len(S) - 1].version = v
    BY <2>1, ScriptsAreEntire DEF Entire
  <2>3. Len(S) - 1 \in 1..Len(S)
    BY <2>2
  <2>4. Achieved(db, {}, S[Len(S) - 1])
    BY <1>3, <2>1, <2>3
  <2> QED BY <2>2, <2>4 DEF Achieved
<1>6. db.recorded = Mig!Versions
  BY <1>5, RowFields DEF Runners, Sound
<1>7. ASSUME NEW v \in Mig!Versions, NEW o \in Mig!Creates(v), o \notin Gone PROVE o \in db.objects
  <2>1. PICK S : S = Mig!Statements[v]
    OBVIOUS
  <2>2. S \in Seq(StatementRows)
    BY <2>1, ScriptsAreEntire DEF Entire
  <2>3. PICK k \in 1..Len(S) : o \in Mig!Makes(S[k])
    <3>1. DOMAIN S = 1..Len(S)
      BY <2>2
    <3>2. \A s \in Mig!ToSet(S) : \E k \in 1..Len(S) : s = S[k]
      BY <3>1 DEF Mig!ToSet
    <3> QED BY <1>7, <2>1, <3>2 DEF Mig!Creates
  <2>4. Achieved(db, {}, S[k])
    BY <1>3, <2>1
  <2> QED BY <1>7, <2>3, <2>4 DEF Achieved
<1>8. {"V003", "V008", "V014", "V017", "V018"} \subseteq Mig!Versions
      /\ Mig!Statements["V008"] = Mig!V008 /\ Mig!Statements["V014"] = Mig!V014
      /\ Mig!Statements["V017"] = Mig!V017 /\ Mig!Statements["V018"] = Mig!V018
  BY VersionsAre DEF Mig!Statements
<1>9. Rows \ Sparse \subseteq db.items
  <2>1. PICK s : s.op = "items" /\ Does(Mig!V008, s)
    BY V008Fits
  <2> QED BY <1>4, <1>8, <2>1 DEF Achieved
<1>10. db.seeded
  <2>1. PICK s : s.op = "seed" /\ Does(Mig!V017, s)
    BY V017Fits
  <2> QED BY <1>4, <1>8, <2>1 DEF Achieved
<1>11. db.mode
  <2>1. PICK s : s.op = "mode" /\ Does(Mig!V018, s)
    BY V018Fits
  <2> QED BY <1>4, <1>8, <2>1 DEF Achieved
<1>12. Hashed(db.audit)
  BY <1>6, <1>8 DEF Runners, Sound
<1>13. Mig!Has(db, "order_case", "updated_at")
  <2>1. Len(Mig!V014) = 4 /\ Mig!Makes(Mig!V014[1]) = {<<"order_case", "updated_at">>}
    BY V014Fits DEF Mig!Makes
  <2>2. Achieved(db, {}, Mig!V014[1])
    <3>1. 1 \in 1..Len(Mig!Statements["V014"]) /\ "V014" \in Mig!Versions
      BY <1>8, <2>1
    <3>2. Achieved(db, {}, Mig!Statements["V014"][1])
      BY <1>3, <3>1
    <3> QED BY <1>8, <3>2
  <2>3. <<"order_case", "updated_at">> \notin Gone
    BY DEF Gone
  <2> QED BY <2>1, <2>2, <2>3 DEF Achieved, Mig!Has
<1>14. db.stamped \/ torn
  BY <1>13 DEF StampFit, Midway, Unstamped
<1> QED BY <1>6, <1>7, <1>9, <1>10, <1>11, <1>12, <1>14 DEF Complete

(* A boot that stops: its transaction is rolled back. *)
Stops(p) ==
  /\ db' = db /\ backend' = backend /\ line' = 1
  /\ work' = [work EXCEPT ![p] = Mig!NoWork]
  /\ at' = [at EXCEPT ![p] = 0]
  /\ phase' = [phase EXCEPT ![p] = "down"]

(* A statement that raises, and the death of the process, stop it. *)
LEMMA StopsAre ==
  ASSUME NEW p \in Replicas
  PROVE  /\ Mig!Fail(p) => Stops(p) /\ torn' = torn /\ faults' = faults
         /\ Mig!Crash(p) => /\ Stops(p) /\ torn' = (torn \/ Unstamped(db)) /\ phase[p] # "down"
                            /\ faults < MaxFaults /\ faults' = faults + 1
<1>1. Mig!Fail(p) => Stops(p) /\ torn' = torn /\ faults' = faults
  BY Zenon DEF Mig!Fail, Stops
<1>2. Mig!Crash(p) => /\ Stops(p) /\ torn' = (torn \/ Unstamped(db)) /\ phase[p] # "down"
                      /\ faults < MaxFaults /\ faults' = faults + 1
  BY Zenon DEF Mig!Crash, Stops, Unstamped
<1> QED BY <1>1, <1>2

(* The boots of the others go on. *)
LEMMA StopsKeep ==
  ASSUME Runners, NEW p \in Replicas, Stops(p), torn' \in BOOLEAN, faults' \in 0..MaxFaults
  PROVE  /\ Runners' /\ ~work'[p].open /\ phase'[p] = "down" /\ at'[p] = 0
         /\ \A q \in Replicas \ {p} : work'[q] = work[q] /\ phase'[q] = phase[q] /\ at'[q] = at[q]
<1>1. work \in [Replicas -> Works] /\ at \in [Replicas -> 0..23] /\ phase \in [Replicas -> Mig!Phases]
  BY DEF Runners
<1>2. /\ work' \in [Replicas -> Works] /\ work'[p] = Mig!NoWork
      /\ \A q \in Replicas \ {p} : work'[q] = work[q]
  BY <1>1, WorkIs DEF Stops
<1>3. /\ at' \in [Replicas -> 0..23] /\ at'[p] = 0
      /\ \A q \in Replicas \ {p} : at'[q] = at[q]
  BY <1>1 DEF Stops
<1>4. /\ phase' \in [Replicas -> Mig!Phases] /\ phase'[p] = "down"
      /\ \A q \in Replicas \ {p} : phase'[q] = phase[q]
  BY <1>1 DEF Stops, Mig!Phases
<1>5. \A q \in Replicas : work'[q].open => Sound(work'[q].d)
  BY <1>2, WorkIs DEF Runners
<1>6. db' = db /\ backend' = backend /\ line' = 1
  BY DEF Stops
<1>7. Runners'
  BY <1>2, <1>3, <1>4, <1>5, <1>6 DEF Runners
<1> QED BY <1>2, <1>3, <1>4, <1>7, WorkIs

(* What holds of the boots over SQLite. *)
SqliteInv == Runners /\ SqliteFits /\ PassedFit /\ StampFit

(* A statement runs. *)
LEMMA SqliteRuns ==
  ASSUME Single \in Replicas, SqliteInv, Runs(Now)
  PROVE  SqliteInv'
<1>1. PICK s : s = Now
  OBVIOUS
<1>2. PICK S : S = ScriptAt(at[Single])
  OBVIOUS
<1>3. Runners /\ SqliteFits /\ PassedFit /\ StampFit /\ Runs(s)
  BY <1>1 DEF SqliteInv
<1>4. /\ Sound(db') /\ work' \in [Replicas -> Works]
      /\ \A p \in Replicas : work'[p].open => Sound(work'[p].d)
      /\ \A p \in Replicas \ {Single} : work'[p] = work[p]
  BY <1>1, <1>3, RunMoves
<1>5. /\ at' \in [Replicas -> 0..23] /\ phase' \in [Replicas -> Mig!Phases]
      /\ \A p \in Replicas \ {Single} : phase'[p] = phase[p]
  BY <1>1, <1>2, <1>3, RunAdvances
<1>6. at[Single] \in 1..22 /\ line \in 1..Len(S) /\ line \in Nat
  BY <1>1, <1>2, <1>3, NowIs DEF Runs
<1>7. UNCHANGED <<backend, torn, faults>>
  BY <1>3 DEF Runs
<1>8. CASE at'[Single] = at[Single] /\ phase'[Single] = "run" /\ line' = line + 1 /\ line + 1 \in 1..Len(S)
  <2>1. line' \in Nat \ {0} /\ line' # 1
    BY <1>6, <1>8
  <2>2. Runners'
    BY <1>3, <1>4, <1>5, <1>7, <2>1 DEF Runners
  <2>3. line' \in 1..Len(ScriptAt(at'[Single]))
    BY <1>2, <1>8
  <2>4. SqliteFits'
    BY <1>3, <1>4, <1>5, <1>6, <1>8, <2>1, <2>3 DEF SqliteFits, ScriptAt
  <2> QED BY <1>1, <1>3, <2>2, <2>4, RunPasses, RunStamps DEF SqliteInv
<1>9. CASE at'[Single] = at[Single] /\ phase'[Single] = "run" /\ line' = 3 /\ Len(S) = 4
  <2>1. line' \in Nat \ {0} /\ line' # 1
    BY <1>9
  <2>2. Runners'
    BY <1>3, <1>4, <1>5, <1>7, <2>1 DEF Runners
  <2>3. line' \in 1..Len(ScriptAt(at'[Single]))
    BY <1>2, <1>9
  <2>4. SqliteFits'
    BY <1>3, <1>4, <1>5, <1>6, <1>9, <2>1, <2>3 DEF SqliteFits, ScriptAt
  <2> QED BY <1>1, <1>3, <2>2, <2>4, RunPasses, RunStamps DEF SqliteInv
<1>10. CASE /\ at'[Single] = at[Single] + 1 /\ line' = 1 /\ s.op = "commit"
            /\ phase'[Single] = IF at[Single] = 22 THEN "serving" ELSE "run"
  <2>1. Runners'
    BY <1>3, <1>4, <1>5, <1>7, <1>10 DEF Runners
  <2>2. ~work'[Single].open
    <3>1. work' = [work EXCEPT ![Single] = Mig!NoWork] /\ work \in [Replicas -> Works]
      BY <1>3, <1>10 DEF Runs, Runners
    <3> QED BY <3>1, WorkIs
  <2>3. ASSUME phase'[Single] = "run"
        PROVE  at'[Single] \in 1..22 /\ line' \in 1..Len(ScriptAt(at'[Single]))
    <3>1. at[Single] # 22
      BY <1>10, <2>3
    <3>2. PICK i \in 1..22 : i = at[Single] + 1
      <4>1. PICK n \in 1..22 : n = at[Single]
        BY <1>6
      <4> QED BY <3>1, <4>1
    <3>3. PICK v \in Mig!Versions : v = Mig!SqliteOrder[i]
      BY OrdersAreWhole
    <3>4. Len(Mig!Statements[v]) \in Nat /\ Len(Mig!Statements[v]) >= 2
      BY ScriptsAreEntire DEF Entire
    <3>5. Len(ScriptAt(i)) \in Nat /\ Len(ScriptAt(i)) >= 2
      BY <3>3, <3>4 DEF ScriptAt
    <3>6. 1 \in 1..Len(ScriptAt(i))
      BY <3>5
    <3> QED BY <1>10, <3>2, <3>6
  <2>4. phase'[Single] = "serving" => at'[Single] = 23
    BY <1>6, <1>10
  <2>5. phase'[Single] \in {"run", "serving"}
    BY <1>10
  <2>6. SqliteFits'
    BY <1>3, <1>4, <1>5, <1>10, <2>2, <2>3, <2>4, <2>5 DEF SqliteFits, ScriptAt
  <2> QED BY <1>1, <1>3, <2>1, <2>6, RunPasses, RunStamps DEF SqliteInv
<1> QED BY <1>1, <1>2, <1>3, <1>8, <1>9, <1>10, RunAdvances

(* No boot stops between V014's two statements, unless its process dies. *)
LEMMA SqliteStops ==
  ASSUME Single \in Replicas, SqliteInv, Stops(Single), torn' \in BOOLEAN, faults' \in 0..MaxFaults,
         Unstamped(db) => torn'
  PROVE  SqliteInv'
<1>1. /\ Runners' /\ ~work'[Single].open /\ phase'[Single] = "down" /\ line' = 1 /\ db' = db
      /\ \A q \in Replicas \ {Single} : work'[q] = work[q] /\ phase'[q] = phase[q]
  BY StopsKeep DEF SqliteInv, Stops
<1>2. SqliteFits'
  BY <1>1 DEF SqliteFits, SqliteInv
<1>3. PassedFit'
  BY <1>1 DEF PassedFit
<1>4. StampFit'
  BY <1>1 DEF StampFit, Unstamped
<1> QED BY <1>1, <1>2, <1>3, <1>4 DEF SqliteInv

(* A refused statement is none of those: what V014 updates is there. *)
LEMMA SqliteFails ==
  ASSUME Single \in Replicas, SqliteInv, Stops(Single), UNCHANGED <<torn, faults>>,
         phase[Single] = "run", Now.op # "commit", Mig!Refused(Mig!Seen(Single), Now)
  PROVE  SqliteInv'
<1>1. PICK s : s = Now
  OBVIOUS
<1>2. PICK S : S = ScriptAt(at[Single])
  OBVIOUS
<1>3. PICK v : v = Mig!SqliteOrder[at[Single]]
  OBVIOUS
<1>4. Runners /\ SqliteFits /\ PassedFit /\ StampFit
  BY DEF SqliteInv
<1>5. /\ at[Single] \in 1..22 /\ v \in Mig!Versions /\ S = Mig!Statements[v]
      /\ line \in 1..Len(S) /\ s = S[line]
  BY <1>1, <1>2, <1>3, <1>4, NowIs
<1>6. PICK d : d = Mig!Seen(Single)
  OBVIOUS
<1>7. Sound(d) /\ Mig!Refused(d, s) /\ s.op # "commit"
  BY <1>1, <1>4, <1>6, SeenIsSound
<1>8. ASSUME Midway PROVE FALSE
  <2>1. at[Single] = 11 /\ line \in {2, 3, 4}
    BY <1>8 DEF Midway
  <2>2. v = "V014" /\ S = Mig!V014
    <3>1. v = "V014"
      BY <1>3, <2>1, OrdersAreWhole
    <3> QED BY <1>5, <3>1 DEF Mig!Statements
  <2>3. /\ Len(S) = 4 /\ S[1].op = "add_or_skip" /\ S[1].table = "order_case" /\ S[1].names = {"updated_at"}
        /\ S[2].op = "stamp" /\ S[2].table = "order_case"
    BY <2>2, V014Fits
  <2>4. S[3].op = "record" /\ S[3].table = "-" /\ S[4].op = "commit"
    <3>1. 3 \in 1..Len(S) /\ 4 \in 1..Len(S) /\ Len(S) - 1 = 3 /\ Len(S) = 4
      BY <2>3
    <3>2. Entire(v, S)
      BY <1>5, ScriptsAreEntire
    <3> QED BY <3>1, <3>2 DEF Entire
  <2>5. CASE line = 2
    <3>1. s.op = "stamp" /\ s.table = "order_case"
      BY <1>5, <2>3, <2>5
    <3>2. Passed(11, 1)
      BY <1>2, <2>1, <2>3, <2>5 DEF Passed
    <3>3. Achieved(d, Pending, S[1])
      BY <1>2, <1>4, <1>6, <2>1, <3>2 DEF PassedFit
    <3>4. Pending = {}
      <4>1. line - 1 = 1
        BY <2>5
      <4> QED BY <1>2, <2>3, <2>5, <4>1 DEF Pending, Mig!Drops
    <3>5. <<"order_case", "updated_at">> \in Mig!Makes(S[1])
      BY <2>3 DEF Mig!Makes
    <3>6. <<"order_case", "updated_at">> \in d.objects
      BY <3>3, <3>4, <3>5 DEF Achieved, Gone
    <3>7. <<"order_case", "-">> \in d.objects
      BY <1>7, <3>6 DEF Sound
    <3> QED BY <1>7, <3>1, <3>7 DEF Mig!Refused, Mig!Has
  <2>6. CASE line = 3
    <3>1. s.op = "record" /\ s.table = "-"
      BY <1>5, <2>4, <2>6
    <3> QED BY <1>7, <3>1 DEF Mig!Refused
  <2>7. CASE line = 4
    BY <1>5, <1>7, <2>4, <2>7
  <2> QED BY <2>1, <2>5, <2>6, <2>7
<1>9. Unstamped(db) => torn'
  BY <1>4, <1>8 DEF StampFit
<1>10. torn' \in BOOLEAN /\ faults' \in 0..MaxFaults
  BY <1>4 DEF Runners
<1> QED BY <1>9, <1>10, SqliteStops

(* A boot begins. *)
LEMMA SqliteBoots ==
  ASSUME Single \in Replicas, SqliteInv, phase[Single] = "down",
         at' = [at EXCEPT ![Single] = 1], phase' = [phase EXCEPT ![Single] = "run"],
         UNCHANGED <<backend, db, work, line, torn, faults>>
  PROVE  SqliteInv'
<1>1. Runners /\ SqliteFits /\ StampFit
  BY DEF SqliteInv
<1>2. /\ at' \in [Replicas -> 0..23] /\ at'[Single] = 1
      /\ phase' \in [Replicas -> Mig!Phases] /\ phase'[Single] = "run"
      /\ \A q \in Replicas \ {Single} : phase'[q] = phase[q]
  BY <1>1 DEF Runners, Mig!Phases
<1>3. Runners'
  BY <1>1, <1>2 DEF Runners
<1>4. line = 1 /\ ~work[Single].open
  BY <1>1 DEF SqliteFits
<1>5. 1 \in 1..Len(ScriptAt(1))
  <2>1. PICK v \in Mig!Versions : v = Mig!SqliteOrder[1]
    BY OrdersAreWhole
  <2>2. Len(Mig!Statements[v]) \in Nat /\ Len(Mig!Statements[v]) >= 2
    BY ScriptsAreEntire DEF Entire
  <2>3. Len(ScriptAt(1)) \in Nat /\ Len(ScriptAt(1)) >= 2
    BY <2>1, <2>2 DEF ScriptAt
  <2> QED BY <2>3
<1>6. SqliteFits'
  BY <1>1, <1>2, <1>4, <1>5 DEF SqliteFits, ScriptAt
<1>7. ASSUME NEW i, NEW k, Passed(i, k)' PROVE FALSE
  <2>1. i \in 1..22 /\ k \in 1..Len(ScriptAt(i)) /\ (i < 1 \/ k < 1)
    BY <1>2, <1>4, <1>7 DEF Passed, ScriptAt
  <2> QED BY <2>1
<1>8. PassedFit'
  BY <1>7 DEF PassedFit
<1>9. Unstamped(db) => torn
  BY <1>1 DEF StampFit, Midway
<1>10. StampFit'
  BY <1>4, <1>9 DEF StampFit, Unstamped
<1> QED BY <1>3, <1>6, <1>8, <1>10 DEF SqliteInv

(* Every step over SQLite. *)
LEMMA SqliteNext ==
  ASSUME Single \in Replicas, MaxFaults \in Nat, SqliteInv, backend = "sqlite",
         NEW p \in Replicas, Mig!Progress(p) \/ Mig!Crash(p)
  PROVE  SqliteInv' /\ backend' = "sqlite"
<1>1. /\ \A q \in Replicas \ {Single} : phase[q] = "down"
      /\ phase[Single] \in {"down", "run", "serving"}
  BY DEF SqliteInv, SqliteFits
<1>2. CASE Mig!Boot(p)
  <2>1. p = Single
    BY <1>2 DEF Mig!Boot
  <2>2. /\ phase[Single] = "down" /\ at' = [at EXCEPT ![Single] = 1]
        /\ phase' = [phase EXCEPT ![Single] = "run"]
        /\ UNCHANGED <<backend, db, work, line, torn, faults>>
    BY <1>2, <2>1 DEF Mig!Boot
  <2> QED BY <2>2, SqliteBoots
<1>3. CASE Mig!SqliteStep(p)
  <2>1. phase[p] = "run"
    BY <1>3, Zenon DEF Mig!SqliteStep
  <2>2. p = Single
    BY <1>1, <2>1
  <2>3. CASE Runs(Now)
    BY <2>3, SqliteRuns DEF Runs
  <2>4. CASE Now.op # "commit" /\ Mig!Refused(Mig!Seen(Single), Now) /\ Mig!Fail(Single)
    <3>1. Stops(Single) /\ UNCHANGED <<torn, faults>>
      BY <2>4, StopsAre
    <3>2. SqliteInv'
      BY <2>1, <2>2, <2>4, <3>1, SqliteFails
    <3> QED BY <3>1, <3>2 DEF Stops
  <2> QED BY <1>3, <2>2, <2>3, <2>4, SqliteStepIs
<1>4. CASE Mig!SelectVersion(p) \/ Mig!ExecuteFile(p) \/ Mig!InsertVersion(p) \/ Mig!SeedTaxonomy(p)
  <2>1. phase[p] \in {"select", "execute", "insert", "seed"}
    BY <1>4, Zenon DEF Mig!SelectVersion, Mig!ExecuteFile, Mig!InsertVersion, Mig!SeedTaxonomy
  <2> QED BY <1>1, <2>1
<1>6. CASE Mig!Crash(p)
  <2>1. /\ Stops(p) /\ torn' = (torn \/ Unstamped(db)) /\ phase[p] # "down"
        /\ faults < MaxFaults /\ faults' = faults + 1
    BY <1>6, StopsAre
  <2>2. p = Single
    BY <1>1, <2>1
  <2>3. torn' \in BOOLEAN /\ faults' \in 0..MaxFaults
    BY <2>1 DEF SqliteInv, Runners
  <2>4. SqliteInv'
    BY <2>1, <2>2, <2>3, SqliteStops
  <2> QED BY <2>1, <2>4 DEF Stops
<1> QED BY <1>2, <1>3, <1>4, <1>6 DEF Mig!Progress

-----------------------------------------------------------------------------
(* Migrations: the boots of replicas over PostgreSQL.                      *)

Seeds(d) == "V017" \in d.recorded => d.seeded

(* A boot that sees d, in a transaction of its own or what is committed:   *)
(* it has passed what is before its version, and has the whole of what it  *)
(* has recorded; V011 leaves the file's work committed without its record. *)
Booting(b, open, d, ph, i) ==
  /\ ph \in {"down", "select", "execute", "insert", "seed", "serving"}
  /\ ph \in {"down", "serving"} => ~open
  /\ ph = "seed" => open
  /\ ph \in {"select", "execute", "insert", "seed"} =>
       i \in 1..22 /\ \A j \in 1..22 : j < i => Mig!PostgresOrder[j] \in d.recorded
  /\ b.recorded \subseteq d.recorded
  /\ b.cased => d.cased
  /\ ph # "insert" => Filled(d, d.recorded)
  /\ ph # "seed" => Seeds(d)
  /\ ph = "insert" /\ open =>
       Mig!PostgresOrder[i] \in d.recorded \/ Filled(d, d.recorded \cup {Mig!PostgresOrder[i]})
  /\ ph = "insert" /\ ~open => Mig!PostgresOrder[i] = "V011" /\ d.cased
PostgresFits ==
  /\ Filled(db, db.recorded) /\ Seeds(db)
  /\ \A p, q \in Replicas : work[p].open /\ work[q].open => p = q
  /\ \A p \in Replicas : Booting(db, work[p].open, Mig!Seen(p), phase[p], at[p])
  /\ (\E p \in Replicas : phase[p] = "serving") => db.recorded = Mig!Versions
PostgresInv == Runners /\ PostgresFits

(* A boot goes on as others commit. *)
LEMMA BootingStays ==
  ASSUME NEW b, NEW c, NEW open \in BOOLEAN, NEW d, NEW e, NEW ph, NEW i, Booting(b, open, d, ph, i),
         c = b \/ ~open \/ (c.recorded = b.recorded /\ (c.cased <=> b.cased)),
         open => d = e, ~open => d = b /\ e = c,
         b.recorded \subseteq c.recorded, b.cased => c.cased, Filled(c, c.recorded), Seeds(c)
  PROVE  Booting(c, open, e, ph, i)
<1>1. CASE open
  BY <1>1 DEF Booting
<1>2. CASE ~open
  <2>1. d = b /\ e = c
    BY <1>2
  <2> QED BY <1>2, <2>1 DEF Booting
<1> QED BY <1>1, <1>2

(* A step of the boot of p. *)
Turns(p, w, i, ph) ==
  /\ work' \in [Replicas -> Works] /\ work'[p] = w /\ \A q \in Replicas \ {p} : work'[q] = work[q]
  /\ at' \in [Replicas -> 0..23] /\ at'[p] = i /\ \A q \in Replicas \ {p} : at'[q] = at[q]
  /\ phase' \in [Replicas -> Mig!Phases] /\ phase'[p] = ph /\ \A q \in Replicas \ {p} : phase'[q] = phase[q]

(* A step that leaves the boot of p as it should be leaves the others so. *)
LEMMA TurnsKeep ==
  ASSUME PostgresInv, NEW p \in Replicas, NEW w \in Works, NEW i, NEW ph, Turns(p, w, i, ph),
         backend' = backend, torn' \in BOOLEAN, faults' \in 0..MaxFaults, line' \in Nat \ {0},
         NEW c, c = db', NEW e, e = IF w.open THEN w.d ELSE c,
         Sound(c), Sound(e), Booting(c, w.open, e, ph, i), Filled(c, c.recorded), Seeds(c),
         w.open => \A q \in Replicas \ {p} : ~work[q].open,
         c = db \/ (\A q \in Replicas \ {p} : ~work[q].open),
         db.recorded \subseteq c.recorded, db.cased => c.cased,
         ph = "serving" => c.recorded = Mig!Versions
  PROVE  PostgresInv'
<1>1. \A q \in Replicas : work'[q].open => Sound(work'[q].d)
  BY DEF Turns, PostgresInv, Runners
<1>2. Runners'
  BY <1>1 DEF Turns, PostgresInv, Runners
<1>3. \A q \in Replicas : \A r \in Replicas : work'[q].open /\ work'[r].open => q = r
  BY DEF Turns, PostgresInv, PostgresFits
<1>4. ASSUME NEW q \in Replicas \ {p}
      PROVE  Booting(c, work'[q].open, Mig!Seen(q)', phase'[q], at'[q])
  <2>1. PICK open \in BOOLEAN : open = work[q].open
    <3>1. work[q] \in Works
      BY DEF PostgresInv, Runners
    <3> QED BY <3>1, WorkIs
  <2>2. PICK b : b = db
    OBVIOUS
  <2>3. PICK d : d = IF open THEN work[q].d ELSE b
    OBVIOUS
  <2>4. PICK f : f = IF open THEN work[q].d ELSE c
    OBVIOUS
  <2>5. Booting(b, open, d, phase[q], at[q])
    BY <2>1, <2>2, <2>3 DEF PostgresInv, PostgresFits, Mig!Seen
  <2>6. Booting(c, open, f, phase[q], at[q])
    <3>1. c = b \/ ~open
      BY <2>1, <2>2
    <3>2. b.recorded \subseteq c.recorded /\ (b.cased => c.cased)
      BY <2>2
    <3>3. (open => d = f) /\ (~open => d = b /\ f = c)
      BY <2>3, <2>4
    <3> QED BY <2>5, <3>1, <3>2, <3>3, BootingStays
  <2>7. work'[q] = work[q] /\ phase'[q] = phase[q] /\ at'[q] = at[q]
    BY DEF Turns
  <2>8. Mig!Seen(q)' = f /\ work'[q].open = open
    BY <2>1, <2>4, <2>7 DEF Mig!Seen
  <2> QED BY <2>6, <2>7, <2>8
<1>5. Booting(c, work'[p].open, Mig!Seen(p)', phase'[p], at'[p])
  <2>1. work'[p] = w /\ at'[p] = i /\ phase'[p] = ph
    BY DEF Turns
  <2>2. Mig!Seen(p)' = e
    BY <2>1 DEF Mig!Seen
  <2> QED BY <2>1, <2>2
<1>6. ASSUME NEW q \in Replicas, phase'[q] = "serving" PROVE c.recorded = Mig!Versions
  <2>1. CASE q = p
    BY <1>6, <2>1 DEF Turns
  <2>2. CASE q # p
    <3>1. db.recorded = Mig!Versions
      BY <1>6, <2>2 DEF Turns, PostgresInv, PostgresFits
    <3>2. c.recorded \subseteq Mig!Versions
      BY DEF Filled
    <3> QED BY <3>1, <3>2
  <2> QED BY <2>1, <2>2
<1>7. PostgresFits'
  BY <1>3, <1>4, <1>5, <1>6 DEF PostgresFits
<1> QED BY <1>2, <1>7 DEF PostgresInv

(* The file of a version makes of a database it fits what the version      *)
(* does, and records nothing.                                              *)
Executed(d, e, v) ==
  /\ Sound(e) /\ Filled(e, d.recorded \cup {v})
  /\ e.recorded = d.recorded
  /\ e.cased <=> d.cased \/ v = "V011"
  /\ e.seeded <=> d.seeded

(* The schema after the file: every object is with its table. *)
LEMMA FileMakes ==
  ASSUME NEW d, Sound(d), Filled(d, d.recorded), NEW v \in Mig!Versions, NEW objects,
         objects = (d.objects \cup Mig!Creates(v)) \ Mig!Removes(v),
         v # "V001" => "V001" \in d.recorded,
         v \in {"V014", "V018", "V021"} => "V009" \in d.recorded
  PROVE  /\ objects \subseteq Objects
         /\ \A o \in objects : o[2] = "-" \/ <<o[1], "-">> \in objects
         /\ \A o \in objects : MadeIn(o) \in d.recorded \cup {v}
         /\ \A u \in d.recorded \cup {v} : Mig!Creates(u) \ Gone \subseteq objects
<1>1. d.objects \subseteq Objects
  BY RowFields DEF Sound
<1>3. PICK removed : removed = Mig!Removes(v)
  OBVIOUS
<1>4. PICK fresh : fresh = Mig!Creates(v)
  OBVIOUS
<1>5. objects = (d.objects \cup fresh) \ removed
  BY <1>3, <1>4
<1>6. removed \subseteq {<<"order_case", "source">>}
  BY <1>3, Creations DEF Gone
<1>7. ASSUME NEW t, <<t, "-">> \in d.objects \/ <<t, "-">> \in fresh PROVE <<t, "-">> \in objects
  <2>1. <<t, "-">> # <<"order_case", "source">>
    OBVIOUS
  <2> QED BY <1>5, <1>6, <1>7, <2>1
<1>8. ASSUME NEW t \in Bases(v) PROVE <<t, "-">> \in objects
  <2>1. v # "V001" => <<"exceptions", "-">> \in d.objects /\ <<"policy_audit_log", "-">> \in d.objects
    <3>1. SUFFICES ASSUME v # "V001" PROVE <<"exceptions", "-">> \in d.objects /\ <<"policy_audit_log", "-">> \in d.objects
      OBVIOUS
    <3>2. Mig!Creates("V001") \ Gone \subseteq d.objects
      BY <3>1 DEF Filled
    <3> QED BY <3>2, BaseTables DEF Gone
  <2>2. v \in {"V014", "V018", "V021"} => <<"order_case", "-">> \in d.objects
    <3>1. SUFFICES ASSUME v \in {"V014", "V018", "V021"} PROVE <<"order_case", "-">> \in d.objects
      OBVIOUS
    <3>2. Mig!Creates("V009") \ Gone \subseteq d.objects
      BY <3>1 DEF Filled
    <3> QED BY <3>2, BaseTables DEF Gone
  <2>3. v = "V020" => <<"case_classification_history", "-">> \in fresh
    BY <1>4, BaseTables
  <2>4. \/ v # "V001" /\ (t = "exceptions" \/ t = "policy_audit_log")
        \/ v \in {"V014", "V018", "V021"} /\ t = "order_case"
        \/ v = "V020" /\ t = "case_classification_history"
    BY <1>8 DEF Bases
  <2>5. CASE v # "V001" /\ t = "exceptions"
    BY <1>7, <2>1, <2>5
  <2>6. CASE v # "V001" /\ t = "policy_audit_log"
    BY <1>7, <2>1, <2>6
  <2>7. CASE v \in {"V014", "V018", "V021"} /\ t = "order_case"
    BY <1>7, <2>2, <2>7
  <2>8. CASE v = "V020" /\ t = "case_classification_history"
    BY <1>7, <2>3, <2>8
  <2> QED BY <2>4, <2>5, <2>6, <2>7, <2>8
<1>9. ASSUME NEW o \in fresh
      PROVE  o \in Objects /\ MadeIn(o) = v /\ (o[2] = "-" \/ <<o[1], "-">> \in objects)
  <2>1. /\ o \in Objects /\ MadeIn(o) = v
        /\ o[2] = "-" \/ <<o[1], "-">> \in fresh \/ o[1] \in Bases(v)
    BY <1>4, <1>9, Creations
  <2>2. <<o[1], "-">> \in fresh => <<o[1], "-">> \in objects
    BY <1>7
  <2>3. o[1] \in Bases(v) => <<o[1], "-">> \in objects
    BY <1>8
  <2> QED BY <2>1, <2>2, <2>3
<1>11. ASSUME NEW o \in d.objects
       PROVE  o \in Objects /\ MadeIn(o) \in d.recorded /\ (o[2] = "-" \/ <<o[1], "-">> \in objects)
  <2>1. o \in Objects /\ MadeIn(o) \in d.recorded
    BY <1>1, <1>11 DEF Filled
  <2>2. o[2] = "-" \/ <<o[1], "-">> \in d.objects
    BY <1>11 DEF Sound
  <2>3. <<o[1], "-">> \in d.objects => <<o[1], "-">> \in objects
    BY <1>7
  <2> QED BY <2>1, <2>2, <2>3
<1>12. \A o \in objects : o \in d.objects \/ o \in fresh
  BY <1>5
<1>13. objects \subseteq Objects
  BY <1>9, <1>11, <1>12
<1>14. \A o \in objects : o[2] = "-" \/ <<o[1], "-">> \in objects
  BY <1>9, <1>11, <1>12
<1>15. \A o \in objects : MadeIn(o) \in d.recorded \cup {v}
  BY <1>9, <1>11, <1>12
<1>16. ASSUME NEW u \in d.recorded \cup {v}, NEW o \in Mig!Creates(u), o \notin Gone PROVE o \in objects
  <2>1. o \in d.objects \/ o \in fresh
    BY <1>4, <1>16 DEF Filled
  <2>2. o \notin removed
    BY <1>6, <1>16 DEF Gone
  <2> QED BY <1>5, <2>1, <2>2
<1> QED BY <1>13, <1>14, <1>15, <1>16

(* ... and the rows it fills in. *)
LEMMA FileExecutes ==
  ASSUME NEW d, Sound(d), Filled(d, d.recorded), NEW v \in Mig!Versions, NEW e, e = Mig!FileEffect(d, v),
         v # "V001" => "V001" \in d.recorded,
         v \in {"V014", "V018", "V021"} => "V009" \in d.recorded,
         v = "V003" => Hashed(d.audit)
  PROVE  Executed(d, e, v)
<1>1. PICK objects : objects = (d.objects \cup Mig!Creates(v)) \ Mig!Removes(v)
  OBVIOUS
<1>2. /\ objects \subseteq Objects
      /\ \A o \in objects : o[2] = "-" \/ <<o[1], "-">> \in objects
      /\ \A o \in objects : MadeIn(o) \in d.recorded \cup {v}
      /\ \A u \in d.recorded \cup {v} : Mig!Creates(u) \ Gone \subseteq objects
  BY <1>1, FileMakes
<1>3. d \in DbRows
  BY DEF Sound
<1>4. PICK m : m = [d EXCEPT !.objects = objects]
  OBVIOUS
<1>6. PICK items : items = IF v = "V008" THEN d.items \cup Mig!Candidates(d) ELSE d.items
  OBVIOUS
<1>8. /\ items \subseteq Rows /\ d.items \subseteq items
      /\ v = "V008" => Rows \ Sparse \subseteq items
  BY <1>3, <1>6, RowFields DEF Mig!Candidates
<1>9. /\ m \in DbRows /\ m.objects = objects /\ m.recorded = d.recorded /\ m.audit = d.audit
      /\ m.items = d.items
  BY <1>2, <1>3, <1>4 DEF DbRows
<1>10. /\ m.cased <=> d.cased
       /\ m.stamped <=> d.stamped
       /\ m.seeded <=> d.seeded
       /\ m.mode <=> d.mode
  BY <1>3, <1>4 DEF DbRows
<1>11. e = IF v = "V008" THEN [m EXCEPT !.items = items]
           ELSE IF v = "V011" THEN [m EXCEPT !.cased = TRUE]
           ELSE IF v = "V014" THEN [m EXCEPT !.stamped = TRUE]
           ELSE IF v = "V018" THEN [m EXCEPT !.mode = TRUE]
           ELSE m
  <2>1. Mig!FileEffect(d, v) =
          CASE v = "V008" -> [m EXCEPT !.items = @ \cup Mig!Candidates(d)]
            [] v = "V011" -> [m EXCEPT !.cased = TRUE]
            [] v = "V014" -> [m EXCEPT !.stamped = TRUE]
            [] v = "V018" -> [m EXCEPT !.mode = TRUE]
            [] OTHER -> m
    BY <1>1, <1>4, Zenon DEF Mig!FileEffect
  <2>2. CASE v = "V008"
    BY <1>6, <1>9, <2>1, <2>2
  <2>3. CASE v # "V008"
    BY <2>1, <2>3
  <2> QED BY <2>2, <2>3
<1>12. /\ e \in DbRows /\ e.objects = objects /\ e.recorded = d.recorded /\ e.audit = d.audit
       /\ e.items = items
  <2>1. CASE v = "V008"
    BY <1>8, <1>9, <1>11, <2>1 DEF DbRows
  <2>2. CASE v # "V008"
    BY <1>6, <1>9, <1>11, <2>2 DEF DbRows
  <2> QED BY <2>1, <2>2
<1>13. /\ e.cased <=> d.cased \/ v = "V011"
       /\ e.seeded <=> d.seeded
       /\ d.stamped \/ v = "V014" => e.stamped
       /\ d.mode \/ v = "V018" => e.mode
  BY <1>9, <1>10, <1>11 DEF DbRows
<1>14. Sound(e)
  BY <1>2, <1>12 DEF Sound
<1>15. PICK W : W = d.recorded \cup {v}
  OBVIOUS
<1>16. Filled(e, W)
  <2>1. W \subseteq Mig!Versions
    BY <1>3, <1>15, RowFields
  <2>2. \A o \in e.objects : MadeIn(o) \in W
    BY <1>2, <1>12, <1>15
  <2>3. \A u \in W : Mig!Creates(u) \ Gone \subseteq e.objects
    BY <1>2, <1>12, <1>15
  <2>4. /\ "V003" \in W => Hashed(e.audit)
        /\ "V008" \in W => Rows \ Sparse \subseteq e.items
    BY <1>8, <1>12, <1>15 DEF Filled
  <2>5. /\ "V011" \in W => e.cased
        /\ "V014" \in W => e.stamped
        /\ "V018" \in W => e.mode
    BY <1>13, <1>15 DEF Filled
  <2> QED BY <2>1, <2>2, <2>3, <2>4, <2>5 DEF Filled
<1> QED BY <1>12, <1>13, <1>14, <1>15, <1>16 DEF Executed

(* What a boot sees as it stands. *)
LEMMA BootIs ==
  ASSUME PostgresInv, NEW p \in Replicas, NEW b, b = db, NEW d, d = Mig!Seen(p),
         NEW open, open = work[p].open, NEW i, i = at[p], NEW ph, ph = phase[p]
  PROVE  /\ Booting(b, open, d, ph, i) /\ Sound(d) /\ Sound(b) /\ Filled(b, b.recorded) /\ Seeds(b)
         /\ open \in BOOLEAN /\ (open => d = work[p].d) /\ (~open => d = b)
         /\ i \in 0..23
         /\ open => \A q \in Replicas \ {p} : ~work[q].open
<1>1. Runners /\ PostgresFits
  BY DEF PostgresInv
<1>2. Booting(b, open, d, ph, i) /\ Filled(b, b.recorded) /\ Seeds(b)
  BY <1>1 DEF PostgresFits
<1>3. Sound(d) /\ Sound(b)
  BY <1>1, SeenIsSound DEF Runners
<1>4. open \in BOOLEAN
  <2>1. work[p] \in Works
    BY <1>1 DEF Runners
  <2> QED BY <2>1, WorkIs
<1>5. open => \A q \in Replicas \ {p} : ~work[q].open
  BY <1>1 DEF PostgresFits
<1>6. i \in 0..23
  BY <1>1 DEF Runners
<1> QED BY <1>2, <1>3, <1>4, <1>5, <1>6 DEF Mig!Seen

(* A boot stops and is rolled back. *)
LEMMA PostgresStops ==
  ASSUME PostgresInv, NEW p \in Replicas, Stops(p), torn' \in BOOLEAN, faults' \in 0..MaxFaults
  PROVE  PostgresInv'
<1>1. Runners
  BY DEF PostgresInv
<1>2. PICK w : w = Mig!NoWork
  OBVIOUS
<1>3. w \in Works /\ ~w.open
  BY <1>2, WorkIs
<1>4. Turns(p, w, 0, "down")
  BY <1>1, <1>2, <1>3 DEF Runners, Stops, Turns, Mig!Phases
<1>5. PICK b : b = db
  OBVIOUS
<1>6. Sound(b) /\ Filled(b, b.recorded) /\ Seeds(b)
  BY <1>5 DEF PostgresInv, Runners, PostgresFits
<1>7. Booting(b, w.open, b, "down", 0)
  BY <1>3, <1>6 DEF Booting
<1>8. db' = b /\ backend' = backend /\ line' \in Nat \ {0}
  BY <1>5 DEF Stops
<1>9. b = IF w.open THEN w.d ELSE b
  BY <1>3
<1> QED BY <1>3, <1>4, <1>5, <1>6, <1>7, <1>8, <1>9, TurnsKeep

(* Another boot begins, on what is committed. *)
LEMMA PostgresBoots ==
  ASSUME PostgresInv, NEW p \in Replicas, phase[p] = "down",
         at' = [at EXCEPT ![p] = 1], phase' = [phase EXCEPT ![p] = "select"],
         UNCHANGED <<backend, db, work, line, torn, faults>>
  PROVE  PostgresInv'
<1>1. Runners
  BY DEF PostgresInv
<1>2. PICK w : w = work[p]
  OBVIOUS
<1>3. PICK b : b = db
  OBVIOUS
<1>4. /\ Booting(b, w.open, Mig!Seen(p), "down", at[p])
      /\ Sound(b) /\ Filled(b, b.recorded) /\ Seeds(b)
  BY <1>2, <1>3, BootIs
<1>5. w \in Works /\ ~w.open
  BY <1>1, <1>2, <1>4 DEF Booting, Runners
<1>6. Turns(p, w, 1, "select")
  BY <1>1, <1>2 DEF Runners, Turns, Mig!Phases
<1>7. Booting(b, w.open, b, "select", 1)
  BY <1>4, <1>5 DEF Booting
<1>8. db' = b /\ backend' = backend /\ line' \in Nat \ {0} /\ torn' \in BOOLEAN /\ faults' \in 0..MaxFaults
  BY <1>1, <1>3 DEF Runners
<1>9. b = IF w.open THEN w.d ELSE b
  BY <1>5
<1> QED BY <1>3, <1>4, <1>5, <1>6, <1>7, <1>8, <1>9, TurnsKeep

(* The next version is looked for; after the last the boot commits. *)
LEMMA PostgresSelects ==
  ASSUME PostgresInv, NEW p \in Replicas, Mig!SelectVersion(p)
  PROVE  PostgresInv'
<1>1. Runners
  BY DEF PostgresInv
<1>2. PICK b : b = db
  OBVIOUS
<1>3. PICK d : d = Mig!Seen(p)
  OBVIOUS
<1>4. PICK i : i = at[p]
  OBVIOUS
<1>5. PICK v : v = Mig!PostgresOrder[i]
  OBVIOUS
<1>6. PICK w \in Works : w = work[p]
  BY <1>1 DEF Runners
<1>7. /\ phase[p] = "select"
      /\ at' = [at EXCEPT ![p] = IF v \in d.recorded /\ i # 22 THEN i + 1 ELSE i]
      /\ phase' = [phase EXCEPT ![p] = IF v \notin d.recorded THEN "execute"
                                       ELSE IF i = 22 THEN "serving" ELSE "select"]
      /\ IF v \in d.recorded /\ i = 22
         THEN db' = d /\ work' = [work EXCEPT ![p] = Mig!NoWork]
         ELSE UNCHANGED <<db, work>>
      /\ UNCHANGED <<backend, line, torn, faults>>
  <2>1. Len(Mig!PostgresOrder) = 22
    BY OrdersAreWhole
  <2>2. /\ phase[p] = "select"
        /\ at' = [at EXCEPT ![p] = IF v \in d.recorded /\ ~(at[p] = Len(Mig!PostgresOrder)) THEN at[p] + 1 ELSE at[p]]
        /\ phase' = [phase EXCEPT ![p] = IF ~(v \in d.recorded) THEN "execute"
                                         ELSE IF at[p] = Len(Mig!PostgresOrder) THEN "serving" ELSE phase[p]]
        /\ IF v \in d.recorded /\ at[p] = Len(Mig!PostgresOrder)
           THEN db' = d /\ work' = [work EXCEPT ![p] = Mig!NoWork]
           ELSE UNCHANGED <<db, work>>
        /\ UNCHANGED <<backend, line, torn, faults>>
    BY <1>3, <1>4, <1>5, Zenon DEF Mig!SelectVersion
  <2> QED BY <1>4, <2>1, <2>2
<1>8. /\ Booting(b, w.open, d, "select", i) /\ Sound(d) /\ Sound(b) /\ Filled(b, b.recorded) /\ Seeds(b)
      /\ w.open \in BOOLEAN /\ (w.open => d = w.d) /\ (~w.open => d = b)
      /\ w.open => \A q \in Replicas \ {p} : ~work[q].open
  BY <1>2, <1>3, <1>4, <1>6, <1>7, BootIs
<1>9. /\ i \in 1..22 /\ \A j \in 1..22 : j < i => Mig!PostgresOrder[j] \in d.recorded
      /\ b.recorded \subseteq d.recorded /\ (b.cased => d.cased)
      /\ Filled(d, d.recorded) /\ Seeds(d)
  BY <1>8 DEF Booting
<1>10. work \in [Replicas -> Works] /\ at \in [Replicas -> 0..23] /\ phase \in [Replicas -> Mig!Phases]
  BY <1>1 DEF Runners
<1>11. backend' = backend /\ torn' \in BOOLEAN /\ faults' \in 0..MaxFaults /\ line' \in Nat \ {0}
  BY <1>1, <1>7 DEF Runners
<1>12. d = IF w.open THEN w.d ELSE b
  BY <1>8
<1>13. CASE v \notin d.recorded
  <2>1. Turns(p, w, i, "execute")
    BY <1>4, <1>6, <1>7, <1>10, <1>13 DEF Turns, Mig!Phases
  <2>2. Booting(b, w.open, d, "execute", i)
    BY <1>8, <1>9 DEF Booting
  <2>3. b = db'
    BY <1>2, <1>7, <1>13
  <2> QED BY <1>2, <1>8, <1>11, <1>12, <2>1, <2>2, <2>3, TurnsKeep
<1>14. CASE v \in d.recorded /\ i # 22
  <2>1. PICK n \in 1..22 : n = i + 1
    BY <1>9, <1>14
  <2>2. Turns(p, w, n, "select")
    BY <1>6, <1>7, <1>10, <1>14, <2>1 DEF Turns, Mig!Phases
  <2>3. ASSUME NEW j \in 1..22, j < n PROVE Mig!PostgresOrder[j] \in d.recorded
    <3>1. j < i \/ j = i
      BY <1>9, <2>1, <2>3
    <3> QED BY <1>5, <1>9, <1>14, <3>1
  <2>4. Booting(b, w.open, d, "select", n)
    BY <1>8, <1>9, <2>3 DEF Booting
  <2>5. b = db'
    BY <1>2, <1>7, <1>14
  <2> QED BY <1>2, <1>8, <1>11, <1>12, <2>2, <2>4, <2>5, TurnsKeep
<1>15. CASE v \in d.recorded /\ i = 22
  <2>1. ASSUME NEW u \in Mig!Versions PROVE u \in d.recorded
    <3>1. PICK j \in 1..22 : Mig!PostgresOrder[j] = u
      BY OrdersAreWhole
    <3>2. j < i \/ j = i
      BY <1>15
    <3> QED BY <1>5, <1>9, <1>15, <3>1, <3>2
  <2>2. d.recorded = Mig!Versions
    BY <1>9, <2>1 DEF Filled
  <2>3. PICK n : n = Mig!NoWork
    OBVIOUS
  <2>4. n \in Works /\ ~n.open
    BY <2>3, WorkIs
  <2>5. Turns(p, n, 22, "serving")
    BY <1>7, <1>10, <1>15, <2>3, <2>4 DEF Turns, Mig!Phases
  <2>6. Booting(d, n.open, d, "serving", 22)
    BY <1>9, <2>4 DEF Booting
  <2>7. d = db' /\ d = IF n.open THEN n.d ELSE d
    BY <1>7, <1>15, <2>4
  <2>8. d = db \/ (\A q \in Replicas \ {p} : ~work[q].open)
    BY <1>2, <1>8
  <2> QED BY <1>2, <1>8, <1>9, <1>11, <2>2, <2>4, <2>5, <2>6, <2>7, <2>8, TurnsKeep
<1> QED BY <1>13, <1>14, <1>15

(* A file is executed. *)
LEMMA PostgresExecutes ==
  ASSUME PostgresInv, NEW p \in Replicas, Mig!ExecuteFile(p)
  PROVE  PostgresInv'
<1>1. Runners
  BY DEF PostgresInv
<1>2. PICK b : b = db
  OBVIOUS
<1>3. PICK d : d = Mig!Seen(p)
  OBVIOUS
<1>4. PICK i : i = at[p]
  OBVIOUS
<1>5. PICK v : v = Mig!PostgresOrder[i]
  OBVIOUS
<1>6. PICK w \in Works : w = work[p]
  BY <1>1 DEF Runners
<1>7. PICK e : e = Mig!FileEffect(d, v)
  OBVIOUS
<1>8. /\ phase[p] = "execute" /\ Mig!Free(p)
      /\ \/ Mig!Fail(p)
         \/ /\ ~Mig!FileRefused(d, v)
            /\ IF v \in Mig!CommitsInside
               THEN db' = e /\ work' = [work EXCEPT ![p] = Mig!NoWork]
               ELSE UNCHANGED db /\ work' = [work EXCEPT ![p] = Mig!Opened(e)]
            /\ phase' = [phase EXCEPT ![p] = "insert"]
            /\ UNCHANGED <<backend, at, line, torn, faults>>
  BY <1>3, <1>4, <1>5, <1>7, Zenon DEF Mig!ExecuteFile
<1>9. CASE Mig!Fail(p)
  <2>1. Stops(p) /\ torn' = torn /\ faults' = faults
    BY <1>9, StopsAre
  <2> QED BY <1>1, <2>1, PostgresStops DEF Runners
<1>10. CASE ~Mig!Fail(p)
  <2>1. /\ Booting(b, w.open, d, "execute", i) /\ Sound(d) /\ Sound(b) /\ Filled(b, b.recorded) /\ Seeds(b)
        /\ w.open \in BOOLEAN /\ (w.open => d = w.d) /\ (~w.open => d = b)
    BY <1>2, <1>3, <1>4, <1>6, <1>8, BootIs
  <2>2. /\ i \in 1..22 /\ \A j \in 1..22 : j < i => Mig!PostgresOrder[j] \in d.recorded
        /\ b.recorded \subseteq d.recorded /\ (b.cased => d.cased)
        /\ Filled(d, d.recorded) /\ Seeds(d)
    BY <2>1 DEF Booting
  <2>3. /\ v \in Mig!Versions
        /\ v # "V001" => "V001" \in d.recorded
        /\ v \in {"V014", "V018", "V021"} => "V009" \in d.recorded
        /\ v = "V003" => Hashed(d.audit)
    <3>4. v = "V003" => Hashed(d.audit)
      <4>1. SUFFICES ASSUME v = "V003" PROVE Hashed(d.audit)
        OBVIOUS
      <4>2. ~\E k \in DOMAIN d.audit : d.audit[k] = -1
        BY <1>8, <1>10, <4>1, Zenon DEF Mig!FileRefused
      <4>3. d.audit \in Seq(Int) /\ (Hashed(d.audit) \/ Unhashed(d.audit))
        BY <2>1, RowFields DEF Sound
      <4> QED BY <4>2, <4>3 DEF Hashed, Unhashed
    <3>1. v \in Mig!Versions /\ (v # "V001" => i > 1) /\ (v \in {"V014", "V018", "V021"} => i > 9)
      BY <1>5, <2>2, OrdersAreWhole
    <3>2. i > 1 => "V001" \in d.recorded
      BY <2>2, OrdersAreWhole
    <3>3. i > 9 => "V009" \in d.recorded
      BY <2>2, OrdersAreWhole
    <3> QED BY <3>1, <3>2, <3>3, <3>4
  <2>4. Executed(d, e, v)
    BY <1>7, <2>1, <2>2, <2>3, FileExecutes
  <2>5. /\ Sound(e) /\ Filled(e, d.recorded \cup {v}) /\ e.recorded = d.recorded /\ Seeds(e)
        /\ d.cased \/ v = "V011" => e.cased
    BY <2>2, <2>4 DEF Executed, Seeds
  <2>6. work \in [Replicas -> Works] /\ at \in [Replicas -> 0..23] /\ phase \in [Replicas -> Mig!Phases]
    BY <1>1 DEF Runners
  <2>7. backend' = backend /\ torn' \in BOOLEAN /\ faults' \in 0..MaxFaults /\ line' \in Nat \ {0}
    BY <1>1, <1>8, <1>10 DEF Runners
  <2>8. \A q \in Replicas \ {p} : ~work[q].open
    BY <1>8 DEF Mig!Free
  <2>9. CASE v \in Mig!CommitsInside
    <3>1. v = "V011"
      BY <2>9 DEF Mig!CommitsInside
    <3>2. PICK n : n = Mig!NoWork
      OBVIOUS
    <3>3. n \in Works /\ ~n.open
      BY <3>2, WorkIs
    <3>4. Turns(p, n, i, "insert")
      BY <1>4, <1>8, <1>10, <2>6, <2>9, <3>2, <3>3 DEF Turns, Mig!Phases
    <3>5. Filled(e, e.recorded)
      <4>1. \A o \in e.objects : MadeIn(o) # "V011"
        BY DEF MadeIn, MadeOfExceptions, MadeOfCases
      <4> QED BY <2>5, <3>1, <4>1 DEF Filled
    <3>6. Booting(e, n.open, e, "insert", i)
      BY <1>5, <2>2, <2>5, <3>1, <3>3, <3>5 DEF Booting
    <3>7. e = db' /\ e = IF n.open THEN n.d ELSE e
      BY <1>8, <1>10, <2>9, <3>3
    <3>8. db.recorded \subseteq e.recorded /\ (db.cased => e.cased)
      BY <1>2, <2>2, <2>5
    <3> QED BY <2>5, <2>7, <2>8, <3>3, <3>4, <3>5, <3>6, <3>7, <3>8, TurnsKeep
  <2>10. CASE v \notin Mig!CommitsInside
    <3>1. PICK n : n = Mig!Opened(e)
      OBVIOUS
    <3>2. n \in Works /\ n.open /\ n.d = e
      BY <2>5, <3>1, WorkIs DEF Sound
    <3>3. Turns(p, n, i, "insert")
      BY <1>4, <1>8, <1>10, <2>6, <2>10, <3>1, <3>2 DEF Turns, Mig!Phases
    <3>4. Booting(b, n.open, e, "insert", i)
      BY <1>5, <2>2, <2>5, <3>2 DEF Booting
    <3>5. b = db' /\ e = IF n.open THEN n.d ELSE b
      BY <1>2, <1>8, <1>10, <2>10, <3>2
    <3> QED BY <1>2, <2>1, <2>5, <2>7, <2>8, <3>2, <3>3, <3>4, <3>5, TurnsKeep
  <2> QED BY <2>9, <2>10
<1> QED BY <1>9, <1>10

(* The version is recorded, in the transaction. *)
LEMMA RecordKeeps ==
  ASSUME NEW d, Sound(d), NEW v, NEW W, W = d.recorded \cup {v}, Filled(d, W),
         NEW e, e = [d EXCEPT !.recorded = W]
  PROVE  /\ Sound(e) /\ Filled(e, W) /\ e.recorded = W
         /\ e.cased <=> d.cased
         /\ e.seeded <=> d.seeded
<1>1. d \in DbRows /\ W \subseteq Mig!Versions
  BY DEF Sound, Filled
<1>2. /\ e \in DbRows /\ e.objects = d.objects /\ e.recorded = W /\ e.audit = d.audit
      /\ e.items = d.items
  BY <1>1 DEF DbRows
<1>3. /\ e.cased <=> d.cased
      /\ e.stamped <=> d.stamped
      /\ e.seeded <=> d.seeded
      /\ e.mode <=> d.mode
  BY <1>1 DEF DbRows
<1>4. "V003" \in W => Hashed(d.audit)
  BY DEF Filled
<1>5. Sound(e)
  BY <1>2, <1>4 DEF Sound
<1>6. Filled(e, W)
  BY <1>2, <1>3 DEF Filled
<1> QED BY <1>2, <1>3, <1>5, <1>6

(* ... and what has the work of the file has its record; but for V011, whose work is committed. *)
LEMMA PostgresInserts ==
  ASSUME PostgresInv, NEW p \in Replicas, Mig!InsertVersion(p)
  PROVE  PostgresInv'
<1>1. Runners
  BY DEF PostgresInv
<1>2. PICK b : b = db
  OBVIOUS
<1>3. PICK d : d = Mig!Seen(p)
  OBVIOUS
<1>4. PICK i : i = at[p]
  OBVIOUS
<1>5. PICK v : v = Mig!PostgresOrder[i]
  OBVIOUS
<1>6. PICK w \in Works : w = work[p]
  BY <1>1 DEF Runners
<1>7. PICK W : W = d.recorded \cup {v}
  OBVIOUS
<1>8. PICK e : e = [d EXCEPT !.recorded = W]
  OBVIOUS
<1>9. /\ phase[p] = "insert" /\ Mig!Free(p)
      /\ IF v \in d.recorded
         THEN Mig!Fail(p)
         ELSE /\ work' = [work EXCEPT ![p] = Mig!Opened(e)]
              /\ phase' = [phase EXCEPT ![p] = IF v = "V017" THEN "seed" ELSE "select"]
              /\ UNCHANGED <<backend, db, at, line, torn, faults>>
  BY <1>3, <1>4, <1>5, <1>7, <1>8, Zenon DEF Mig!InsertVersion
<1>10. CASE v \in d.recorded
  <2>1. Stops(p) /\ torn' = torn /\ faults' = faults
    BY <1>9, <1>10, StopsAre
  <2> QED BY <1>1, <2>1, PostgresStops DEF Runners
<1>11. CASE v \notin d.recorded
  <2>1. /\ Booting(b, w.open, d, "insert", i) /\ Sound(d) /\ Sound(b) /\ Filled(b, b.recorded) /\ Seeds(b)
        /\ w.open \in BOOLEAN /\ (w.open => d = w.d) /\ (~w.open => d = b)
    BY <1>2, <1>3, <1>4, <1>6, <1>9, BootIs
  <2>2. /\ i \in 1..22 /\ \A j \in 1..22 : j < i => Mig!PostgresOrder[j] \in d.recorded
        /\ b.recorded \subseteq d.recorded /\ (b.cased => d.cased)
        /\ Seeds(d)
    BY <2>1 DEF Booting
  <2>3. Filled(d, W)
    <3>1. CASE w.open
      BY <1>5, <1>7, <1>11, <2>1, <3>1 DEF Booting
    <3>2. CASE ~w.open
      <4>1. v = "V011" /\ d.cased /\ Filled(d, d.recorded)
        BY <1>5, <2>1, <3>2 DEF Booting
      <4>2. Mig!Creates(v) = {} /\ v \in Mig!Versions
        BY <4>1, GoneIsRemoved, VersionsAre
      <4> QED BY <1>7, <4>1, <4>2 DEF Filled
    <3> QED BY <3>1, <3>2
  <2>4. /\ Sound(e) /\ Filled(e, W) /\ e.recorded = W
        /\ e.cased <=> d.cased
        /\ e.seeded <=> d.seeded
    BY <1>7, <1>8, <2>1, <2>3, RecordKeeps
  <2>5. work \in [Replicas -> Works] /\ at \in [Replicas -> 0..23] /\ phase \in [Replicas -> Mig!Phases]
    BY <1>1 DEF Runners
  <2>6. backend' = backend /\ torn' \in BOOLEAN /\ faults' \in 0..MaxFaults /\ line' \in Nat \ {0}
    BY <1>1, <1>9, <1>11 DEF Runners
  <2>7. \A q \in Replicas \ {p} : ~work[q].open
    BY <1>9 DEF Mig!Free
  <2>8. PICK n : n = Mig!Opened(e)
    OBVIOUS
  <2>9. n \in Works /\ n.open /\ n.d = e
    BY <2>4, <2>8, WorkIs DEF Sound
  <2>10. PICK ph \in {"seed", "select"} : ph = IF v = "V017" THEN "seed" ELSE "select"
    OBVIOUS
  <2>11. Turns(p, n, i, ph)
    BY <1>4, <1>9, <1>11, <2>5, <2>8, <2>9, <2>10 DEF Turns, Mig!Phases
  <2>12. \A j \in 1..22 : j < i => Mig!PostgresOrder[j] \in e.recorded
    BY <1>7, <2>2, <2>4
  <2>13. ph # "seed" => Seeds(e)
    BY <1>7, <2>2, <2>4, <2>10 DEF Seeds
  <2>14. b.recorded \subseteq e.recorded /\ (b.cased => e.cased)
    BY <1>7, <2>2, <2>4
  <2>15. Booting(b, n.open, e, ph, i)
    BY <2>2, <2>4, <2>9, <2>10, <2>12, <2>13, <2>14 DEF Booting
  <2>16. b = db' /\ e = IF n.open THEN n.d ELSE b
    BY <1>2, <1>9, <1>11, <2>9
  <2>17. ph # "serving"
    BY <2>10
  <2> QED BY <1>2, <2>1, <2>4, <2>6, <2>7, <2>9, <2>11, <2>15, <2>16, <2>17, TurnsKeep
<1> QED BY <1>10, <1>11

(* The taxonomy is seeded, in the transaction. *)
LEMMA PostgresSeeds ==
  ASSUME PostgresInv, NEW p \in Replicas, Mig!SeedTaxonomy(p)
  PROVE  PostgresInv'
<1>1. Runners
  BY DEF PostgresInv
<1>2. PICK b : b = db
  OBVIOUS
<1>3. PICK d : d = Mig!Seen(p)
  OBVIOUS
<1>4. PICK i : i = at[p]
  OBVIOUS
<1>5. PICK w \in Works : w = work[p]
  BY <1>1 DEF Runners
<1>6. PICK e : e = [d EXCEPT !.seeded = TRUE]
  OBVIOUS
<1>7. /\ phase[p] = "seed" /\ work' = [work EXCEPT ![p].d.seeded = TRUE]
      /\ phase' = [phase EXCEPT ![p] = "select"]
      /\ UNCHANGED <<backend, db, at, line, torn, faults>>
  BY DEF Mig!SeedTaxonomy
<1>8. /\ Booting(b, w.open, d, "seed", i) /\ Sound(d) /\ Sound(b) /\ Filled(b, b.recorded) /\ Seeds(b)
      /\ w.open => d = w.d
      /\ w.open => \A q \in Replicas \ {p} : ~work[q].open
  BY <1>2, <1>3, <1>4, <1>5, <1>7, BootIs
<1>9. /\ w.open /\ i \in 1..22 /\ \A j \in 1..22 : j < i => Mig!PostgresOrder[j] \in d.recorded
      /\ b.recorded \subseteq d.recorded /\ (b.cased => d.cased)
      /\ Filled(d, d.recorded)
  BY <1>8 DEF Booting
<1>10. d \in DbRows
  BY <1>8 DEF Sound
<1>11. /\ e \in DbRows /\ e.objects = d.objects /\ e.recorded = d.recorded /\ e.audit = d.audit
       /\ e.items = d.items /\ e.seeded
  BY <1>6, <1>10 DEF DbRows
<1>12. /\ e.cased <=> d.cased
       /\ e.stamped <=> d.stamped
       /\ e.mode <=> d.mode
  BY <1>6, <1>10 DEF DbRows
<1>13. Sound(e) /\ Filled(e, e.recorded) /\ Seeds(e)
  <2>1. Sound(e)
    BY <1>8, <1>11 DEF Sound
  <2>2. Filled(e, e.recorded)
    BY <1>9, <1>11, <1>12 DEF Filled
  <2> QED BY <1>11, <2>1, <2>2 DEF Seeds
<1>14. w = Mig!Opened(d)
  <2>1. PICK x \in DbRows : w = Mig!Opened(x)
    BY <1>9, WorkIs DEF Works
  <2> QED BY <1>8, <1>9, <2>1, WorkIs
<1>15. PICK n : n = Mig!Opened(e)
  OBVIOUS
<1>16. n \in Works /\ n.open /\ n.d = e
  BY <1>11, <1>15, WorkIs
<1>17. work' = [work EXCEPT ![p] = n]
  <2>1. n = [open |-> TRUE, d |-> e] /\ w = [open |-> TRUE, d |-> d]
    BY <1>14, <1>15 DEF Mig!Opened
  <2>2. [w EXCEPT !.d = e] = n
    <3>1. PICK z : z = [w EXCEPT !.d = e]
      OBVIOUS
    <3>2. /\ w \in [open : BOOLEAN, d : DbRows] /\ n \in [open : BOOLEAN, d : DbRows] /\ n.d = e
          /\ w.open /\ n.open
      BY <1>10, <1>11, <2>1
    <3>3. z \in [open : BOOLEAN, d : DbRows] /\ z.d = e /\ z.open
      BY <1>11, <3>1, <3>2
    <3>4. \A r, s \in [open : BOOLEAN, d : DbRows] : r.d = s.d /\ (r.open <=> s.open) => r = s
      OBVIOUS
    <3> QED BY <3>1, <3>2, <3>3, <3>4, Zenon
  <2>3. work' = [work EXCEPT ![p] = [w EXCEPT !.d = [d EXCEPT !.seeded = TRUE]]]
    BY <1>5, <1>7, <2>1
  <2> QED BY <1>6, <2>2, <2>3
<1>18. work \in [Replicas -> Works] /\ at \in [Replicas -> 0..23] /\ phase \in [Replicas -> Mig!Phases]
  BY <1>1 DEF Runners
<1>19. Turns(p, n, i, "select")
  BY <1>4, <1>7, <1>16, <1>17, <1>18 DEF Turns, Mig!Phases
<1>20. Booting(b, n.open, e, "select", i)
  BY <1>9, <1>11, <1>12, <1>13, <1>16 DEF Booting
<1>21. b = db' /\ e = IF n.open THEN n.d ELSE b
  BY <1>2, <1>7, <1>16
<1>22. backend' = backend /\ torn' \in BOOLEAN /\ faults' \in 0..MaxFaults /\ line' \in Nat \ {0}
  BY <1>1, <1>7 DEF Runners
<1> QED BY <1>2, <1>8, <1>9, <1>13, <1>16, <1>19, <1>20, <1>21, <1>22, TurnsKeep

(* Every step over PostgreSQL. *)
LEMMA PostgresNext ==
  ASSUME MaxFaults \in Nat, PostgresInv, backend = "postgres",
         NEW p \in Replicas, Mig!Progress(p) \/ Mig!Crash(p)
  PROVE  PostgresInv' /\ backend' = "postgres"
<1>1. phase[p] # "run"
  <2>1. Booting(db, work[p].open, Mig!Seen(p), phase[p], at[p])
    BY DEF PostgresInv, PostgresFits
  <2> QED BY <2>1 DEF Booting
<1>2. CASE Mig!Boot(p)
  <2>1. /\ phase[p] = "down" /\ at' = [at EXCEPT ![p] = 1]
        /\ phase' = [phase EXCEPT ![p] = "select"]
        /\ UNCHANGED <<backend, db, work, line, torn, faults>>
    BY <1>2 DEF Mig!Boot
  <2> QED BY <2>1, PostgresBoots
<1>3. CASE Mig!SqliteStep(p)
  BY <1>1, <1>3, Zenon DEF Mig!SqliteStep
<1>4. CASE Mig!SelectVersion(p)
  <2>1. backend' = backend
    BY <1>4, Zenon DEF Mig!SelectVersion
  <2> QED BY <1>4, <2>1, PostgresSelects
<1>5. CASE Mig!ExecuteFile(p)
  <2>1. backend' = backend
    BY <1>5, Zenon DEF Mig!ExecuteFile, Mig!Fail
  <2> QED BY <1>5, <2>1, PostgresExecutes
<1>6. CASE Mig!InsertVersion(p)
  <2>1. backend' = backend
    BY <1>6, Zenon DEF Mig!InsertVersion, Mig!Fail
  <2> QED BY <1>6, <2>1, PostgresInserts
<1>7. CASE Mig!SeedTaxonomy(p)
  <2>1. backend' = backend
    BY <1>7, Zenon DEF Mig!SeedTaxonomy
  <2> QED BY <1>7, <2>1, PostgresSeeds
<1>9. CASE Mig!Crash(p)
  <2>1. /\ Stops(p) /\ torn' = (torn \/ Unstamped(db))
        /\ faults < MaxFaults /\ faults' = faults + 1
    BY <1>9, StopsAre
  <2>2. torn' \in BOOLEAN /\ faults' \in 0..MaxFaults
    BY <2>1 DEF PostgresInv, Runners
  <2>3. PostgresInv'
    BY <2>1, <2>2, PostgresStops
  <2> QED BY <2>1, <2>3 DEF Stops
<1> QED BY <1>2, <1>3, <1>4, <1>5, <1>6, <1>7, <1>9 DEF Mig!Progress

-----------------------------------------------------------------------------
(* Migrations: every boot.                                                 *)

BootInv ==
  \/ backend = "sqlite" /\ SqliteInv
  \/ backend = "postgres" /\ PostgresInv

(* An older installation nobody has booted on yet. *)
LEMMA BootInit ==
  ASSUME Mig!MigrationsAssumption, Mig!Init
  PROVE  BootInv
<1>1. /\ backend \in {"sqlite", "postgres"} /\ work = [p \in Replicas |-> Mig!NoWork]
      /\ at = [p \in Replicas |-> 0] /\ line = 1 /\ phase = [p \in Replicas |-> "down"]
      /\ torn = FALSE /\ faults = 0
  BY DEF Mig!Init
<1>2. PICK n \in {0, 2, 10} : db = Mig!Installed(n)
  BY DEF Mig!Init
<1>3. PICK b : b = db
  OBVIOUS
<1>5. Sound(b) /\ Filled(b, b.recorded) /\ "V014" \notin b.recorded /\ "V017" \notin b.recorded
  BY <1>2, <1>3, InstallationsFit
<1>6. Single \in Replicas /\ MaxFaults \in Nat
  BY DEF Mig!MigrationsAssumption
<1>7. \A p \in Replicas : ~work[p].open /\ phase[p] = "down" /\ at[p] = 0
  BY <1>1, WorkIs
<1>8. Runners
  <2>1. work \in [Replicas -> Works] /\ at \in [Replicas -> 0..23] /\ phase \in [Replicas -> Mig!Phases]
    BY <1>1, WorkIs DEF Mig!Phases
  <2>2. backend \in {"sqlite", "postgres"} /\ torn \in BOOLEAN /\ faults \in 0..MaxFaults /\ line \in Nat \ {0}
    <3>1. faults = 0 /\ line = 1 /\ torn = FALSE /\ backend \in {"sqlite", "postgres"}
      BY <1>1
    <3>2. faults \in 0..MaxFaults /\ line \in Nat \ {0}
      BY <1>6, <3>1
    <3>3. torn \in BOOLEAN
      BY <3>1, Zenon
    <3> QED BY <3>1, <3>2, <3>3
  <2>3. Sound(db) /\ \A p \in Replicas : ~work[p].open
    BY <1>3, <1>5, <1>7
  <2> QED BY <2>1, <2>2, <2>3 DEF Runners
<1>9. SqliteFits /\ PassedFit
  BY <1>1, <1>6, <1>7 DEF SqliteFits, PassedFit
<1>10. ~Unstamped(b)
  <2>1. SUFFICES ASSUME <<"order_case", "updated_at">> \in b.objects PROVE FALSE
    BY DEF Unstamped, Mig!Has
  <2>2. MadeIn(<<"order_case", "updated_at">>) = "V014"
    BY DEF MadeIn, MadeOfCases
  <2> QED BY <1>5, <2>1, <2>2 DEF Filled
<1>11. StampFit
  BY <1>3, <1>6, <1>7, <1>10 DEF StampFit
<1>12. PostgresFits
  <2>1. Seeds(b)
    BY <1>5 DEF Seeds
  <2>2. ASSUME NEW p \in Replicas PROVE Booting(db, work[p].open, Mig!Seen(p), phase[p], at[p])
    <3>1. Mig!Seen(p) = b
      BY <1>3, <1>7 DEF Mig!Seen
    <3> QED BY <1>3, <1>5, <1>7, <2>1, <3>1 DEF Booting
  <2> QED BY <1>3, <1>5, <1>7, <2>1, <2>2 DEF PostgresFits
<1> QED BY <1>1, <1>8, <1>9, <1>11, <1>12 DEF BootInv, SqliteInv, PostgresInv

-----------------------------------------------------------------------------
(* Migrations: the audit events serving processes append.                  *)

(* Events, and the appends of processes, on what P names. *)
Events(P) ==
  [step : {"none", "stamped", "read"}, at : 0..MaxAudit, prev : P, beside : BOOLEAN]
Written(P) == 0 \in P /\ trail \in Seq(Events(P)) /\ append \in [Replicas -> Events(P)]
NewestIn(t, n) == Mig!Max({0} \cup {t[i].at : i \in 1..n})
Idle(p) == append[p].step = "none"

(* What an event e, or an append, is linked to when n are in the trail t:  *)
(* one that was the newest, and the newest there is unless another process *)
(* was appending.                                                          *)
Links(t, n, e) ==
  /\ \E m \in 0..n : e.prev = NewestIn(t, m)
  /\ ~e.beside => e.prev = NewestIn(t, n)
TrailFits ==
  /\ \E P : Written(P)
  /\ backend = "sqlite" => \A p \in Replicas : p # Single => Idle(p)
  /\ \A p \in Replicas : ~Idle(p) =>
       /\ append[p].beside => backend = "postgres"
       /\ ~append[p].beside => \A q \in Replicas : q # p => Idle(q)
       /\ append[p].step = "read" => Links(trail, Len(trail), append[p])
  /\ \A i \in 1..Len(trail) :
       /\ Links(trail, i - 1, trail[i])
       /\ trail[i].beside => backend = "postgres"

(* More may be named. *)
LEMMA WrittenGrows ==
  ASSUME NEW P, Written(P), NEW x
  PROVE  Written(P \cup {x})
<1> DEFINE Q == P \cup {x}
<1>1. Events(P) \subseteq Events(Q)
  BY DEF Events
<1>2. PICK S : S = Events(P)
  OBVIOUS
<1>3. PICK T : T = Events(Q)
  OBVIOUS
<1>4. S \subseteq T /\ trail \in Seq(S) /\ append \in [Replicas -> S]
  BY <1>1, <1>2, <1>3 DEF Written
<1>5. trail \in Seq(T)
  BY <1>4
<1>6. append \in [Replicas -> T]
  BY <1>4
<1> QED BY <1>3, <1>5, <1>6 DEF Written

(* The links of the first n events stay as the trail grows. *)
LEMMA LinksStay ==
  ASSUME NEW t, NEW u, NEW n \in Nat, \A i \in 1..n : u[i] = t[i], NEW e, Links(t, n, e)
  PROVE  Links(u, n, e)
<1>1. ASSUME NEW m \in 0..n PROVE NewestIn(u, m) = NewestIn(t, m)
  <2>1. \A i \in 1..m : u[i] = t[i]
    OBVIOUS
  <2>2. {u[i].at : i \in 1..m} = {t[i].at : i \in 1..m}
    BY <2>1
  <2> QED BY <2>2 DEF NewestIn
<1>2. n \in 0..n
  OBVIOUS
<1> QED BY <1>1, <1>2 DEF Links

(* A process takes the time of an event. *)
LEMMA StampKeeps ==
  ASSUME TrailFits, NEW p \in Replicas, Mig!StampEvent(p), backend = "sqlite" => p = Single,
         Single \in Replicas, MaxAudit \in Nat, backend \in {"sqlite", "postgres"}
  PROVE  TrailFits'
<1>1. PICK P : Written(P)
  BY DEF TrailFits
<1>2. PICK b \in BOOLEAN : b = (Mig!Appending # {})
  OBVIOUS
<1>3. PICK now \in 1..MaxAudit :
        append' = [q \in Replicas |->
                     IF q = p THEN [step |-> "stamped", at |-> now, prev |-> 0, beside |-> b]
                     ELSE IF q \in Mig!Appending THEN [append[q] EXCEPT !.beside = TRUE]
                     ELSE append[q]]
  BY <1>2, Zenon DEF Mig!StampEvent
<1>4. UNCHANGED <<backend, trail>> /\ Idle(p)
  BY DEF Mig!StampEvent, Mig!boot, Mig!Appending, Idle
<1>5. /\ 0 \in P /\ trail \in Seq(Events(P)) /\ append \in [Replicas -> Events(P)]
      /\ \A q \in Replicas : append[q] \in Events(P)
  BY <1>1 DEF Written
<1>6. append'[p] = [step |-> "stamped", at |-> now, prev |-> 0, beside |-> b]
  BY <1>3
<1>7. append'[p] \in Events(P) /\ append'[p].step = "stamped" /\ (append'[p].beside <=> b)
  BY <1>5, <1>6 DEF Events
<1>8. ASSUME NEW q \in Replicas, q # p
      PROVE  /\ append'[q] \in Events(P) /\ append'[q].step = append[q].step
             /\ append'[q].prev = append[q].prev
             /\ ~Idle(q) => append'[q].beside
             /\ Idle(q) => append'[q] = append[q]
  <2>1. PICK a : a = append[q]
    OBVIOUS
  <2>2. a \in Events(P)
    BY <1>5, <2>1
  <2>3. CASE Idle(q)
    <3>1. append'[q] = a
      BY <1>3, <1>8, <2>1, <2>3 DEF Mig!Appending, Idle
    <3> QED BY <2>1, <2>2, <2>3, <3>1
  <2>4. CASE ~Idle(q)
    <3>1. append'[q] = [a EXCEPT !.beside = TRUE]
      BY <1>3, <1>8, <2>1, <2>4 DEF Mig!Appending, Idle
    <3> QED BY <2>1, <2>2, <2>4, <3>1 DEF Events
  <2> QED BY <2>3, <2>4
<1>9. Written(P)'
  <2>1. PICK S : S = Events(P)
    OBVIOUS
  <2>2. append' \in [Replicas -> S]
    <3>1. \A q \in Replicas : append'[q] \in S
      BY <1>7, <1>8, <2>1
    <3>2. PICK g : g = append'
      OBVIOUS
    <3>3. g = [q \in Replicas |-> g[q]]
      BY <1>3, <3>2
    <3> QED BY <3>1, <3>2, <3>3
  <2> QED BY <1>4, <1>5, <2>1, <2>2 DEF Written, Events
<1>10. backend = "sqlite" => \A q \in Replicas : q # Single => Idle(q) /\ Idle(q)'
  BY <1>8 DEF TrailFits, Idle
<1>11. b <=> \E q \in Replicas : q # p /\ ~Idle(q)
  BY <1>2, <1>4 DEF Mig!Appending, Idle
<1>12. ASSUME NEW q \in Replicas, ~Idle(q)'
       PROVE  /\ append'[q].beside => backend = "postgres"
              /\ ~append'[q].beside => \A r \in Replicas : r # q => Idle(r)'
              /\ append'[q].step = "read" => Links(trail, Len(trail), append'[q])
  <2>1. CASE q = p
    <3>1. b => backend = "postgres"
      BY <1>10, <1>11
    <3>2. ~b => \A r \in Replicas : r # p => Idle(r)'
      BY <1>8, <1>11 DEF Idle
    <3> QED BY <1>7, <2>1, <3>1, <3>2
  <2>2. CASE q # p
    <3>1. ~Idle(q) /\ append'[q].beside
      BY <1>8, <1>12, <2>2 DEF Idle
    <3>2. backend = "postgres"
      BY <1>10, <2>2, <3>1
    <3>3. append'[q].step = "read" => Links(trail, Len(trail), append[q])
      BY <1>8, <2>2, <3>1 DEF TrailFits
    <3>4. append'[q].step = "read" => Links(trail, Len(trail), append'[q])
      BY <1>8, <2>2, <3>1, <3>3 DEF Links
    <3> QED BY <3>1, <3>2, <3>4
  <2> QED BY <2>1, <2>2
<1> QED BY <1>4, <1>9, <1>10, <1>12 DEF TrailFits

(* It reads which event is the newest. *)
LEMMA ReadKeeps ==
  ASSUME TrailFits, NEW p \in Replicas, Mig!ReadNewest(p)
  PROVE  TrailFits'
<1>1. PICK x : x = NewestIn(trail, Len(trail))
  OBVIOUS
<1>2. append[p].step = "stamped" /\ append' = [append EXCEPT ![p].step = "read", ![p].prev = x]
  BY <1>1, Zenon DEF Mig!ReadNewest, Mig!LastEventHash, Mig!Newest, NewestIn
<1>3. UNCHANGED <<backend, trail>>
  BY DEF Mig!ReadNewest, Mig!boot
<1>4. PICK P : Written(P)
  BY DEF TrailFits
<1>5. PICK Q : Q = P \cup {x}
  OBVIOUS
<1>6. Written(Q) /\ x \in Q
  BY <1>4, <1>5, WrittenGrows
<1>7. PICK a : a = append[p]
  OBVIOUS
<1>8. /\ append \in [Replicas -> Events(Q)] /\ a \in Events(Q)
      /\ trail \in Seq(Events(Q)) /\ 0 \in Q
  BY <1>6, <1>7 DEF Written
<1>9. PICK e : e = [a EXCEPT !.step = "read", !.prev = x]
  OBVIOUS
<1>10. e \in Events(Q) /\ e.step = "read" /\ e.prev = x /\ (e.beside <=> a.beside)
  BY <1>6, <1>8, <1>9 DEF Events
<1>11. append' = [append EXCEPT ![p] = e]
  BY <1>2, <1>7, <1>8, <1>9
<1>12. append'[p] = e /\ \A q \in Replicas : q # p => append'[q] = append[q]
  BY <1>8, <1>11
<1>13. Written(Q)'
  <2>1. append' \in [Replicas -> Events(Q)]
    BY <1>8, <1>10, <1>11
  <2> QED BY <1>3, <1>8, <2>1 DEF Written, Events
<1>14. \A q \in Replicas : Idle(q)' <=> Idle(q)
  BY <1>2, <1>10, <1>12 DEF Idle
<1>15. Links(trail, Len(trail), e)
  <2>1. Len(trail) \in 0..Len(trail)
    BY <1>8
  <2> QED BY <1>1, <1>10, <2>1 DEF Links
<1>16. ASSUME NEW q \in Replicas, ~Idle(q)
       PROVE  /\ append'[q].beside => backend = "postgres"
              /\ ~append'[q].beside => \A r \in Replicas : r # q => Idle(r)
              /\ append'[q].step = "read" => Links(trail, Len(trail), append'[q])
  <2>1. CASE q = p
    BY <1>7, <1>10, <1>12, <1>15, <1>16, <2>1 DEF TrailFits
  <2>2. CASE q # p
    BY <1>12, <1>16, <2>2 DEF TrailFits
  <2> QED BY <2>1, <2>2
<1> QED BY <1>3, <1>13, <1>14, <1>16 DEF TrailFits

(* It inserts the event. *)
LEMMA InsertKeeps ==
  ASSUME TrailFits, NEW p \in Replicas, Mig!InsertEvent(p), MaxAudit \in Nat
  PROVE  TrailFits'
<1>1. PICK P : Written(P)
  BY DEF TrailFits
<1>2. PICK e : e = append[p]
  OBVIOUS
<1>3. PICK t : t = Append(trail, e)
  OBVIOUS
<1>4. /\ e.step = "read" /\ trail' = t /\ append' = [append EXCEPT ![p] = Mig!NoAppend]
      /\ backend' = backend
  BY <1>2, <1>3 DEF Mig!InsertEvent, Mig!boot
<1>5. /\ append \in [Replicas -> Events(P)] /\ e \in Events(P)
      /\ trail \in Seq(Events(P)) /\ 0 \in P /\ Len(trail) \in Nat
  BY <1>1, <1>2 DEF Written
<1>6. /\ t \in Seq(Events(P)) /\ Len(t) = Len(trail) + 1 /\ t[Len(trail) + 1] = e
      /\ \A i \in 1..Len(trail) : t[i] = trail[i]
  BY <1>3, <1>5, AppendProperties
<1>7. append'[p] = Mig!NoAppend /\ \A q \in Replicas : q # p => append'[q] = append[q]
  BY <1>4, <1>5
<1>8. Written(P)'
  <2>1. Mig!NoAppend \in Events(P)
    BY <1>5 DEF Mig!NoAppend, Events
  <2>2. append' \in [Replicas -> Events(P)]
    BY <1>4, <1>5, <2>1
  <2> QED BY <1>4, <1>5, <1>6, <2>2 DEF Written, Events
<1>9. Idle(p)' /\ ~Idle(p) /\ \A q \in Replicas : q # p => (Idle(q)' <=> Idle(q))
  BY <1>2, <1>4, <1>7 DEF Idle, Mig!NoAppend
<1>10. ASSUME NEW q \in Replicas, ~Idle(q)'
       PROVE  /\ append'[q].beside /\ backend = "postgres"
              /\ append'[q].step = "read" => Links(t, Len(t), append'[q])
  <2>1. q # p /\ ~Idle(q) /\ append'[q] = append[q]
    BY <1>7, <1>9, <1>10
  <2>2. append[q].beside
    BY <1>9, <2>1 DEF TrailFits
  <2>3. append[q].step = "read" => Links(trail, Len(trail), append[q])
    BY <2>1 DEF TrailFits
  <2>4. append[q].step = "read" => Links(t, Len(trail), append[q])
    BY <1>5, <1>6, <2>3, LinksStay
  <2>5. append[q].step = "read" => Links(t, Len(t), append[q])
    BY <1>5, <1>6, <2>2, <2>4 DEF Links
  <2> QED BY <2>1, <2>2, <2>5 DEF TrailFits
<1>11. ASSUME NEW i \in 1..Len(t)
       PROVE  Links(t, i - 1, t[i]) /\ (t[i].beside => backend = "postgres")
  <2>1. CASE i = Len(t)
    <3>1. Links(trail, Len(trail), e) /\ (e.beside => backend = "postgres")
      BY <1>2, <1>4, <1>9 DEF TrailFits
    <3>2. Links(t, Len(trail), e)
      BY <1>5, <1>6, <3>1, LinksStay
    <3> QED BY <1>5, <1>6, <2>1, <3>1, <3>2
  <2>2. CASE i # Len(t)
    <3>1. i \in 1..Len(trail) /\ i - 1 \in Nat
      BY <1>5, <1>6, <2>2
    <3>2. Links(trail, i - 1, trail[i]) /\ (trail[i].beside => backend = "postgres")
      BY <3>1 DEF TrailFits
    <3>3. t[i] = trail[i] /\ \A j \in 1..i - 1 : t[j] = trail[j]
      BY <1>5, <1>6, <3>1
    <3>4. Links(t, i - 1, trail[i])
      BY <3>1, <3>2, <3>3, LinksStay
    <3> QED BY <3>2, <3>3, <3>4
  <2> QED BY <2>1, <2>2
<1>12. backend = "sqlite" => \A q \in Replicas : q # Single => Idle(q)'
  BY <1>9 DEF TrailFits
<1>13. ASSUME NEW q \in Replicas, ~Idle(q)'
       PROVE  /\ append'[q].beside => backend = "postgres"
              /\ ~append'[q].beside => \A r \in Replicas : r # q => Idle(r)'
              /\ append'[q].step = "read" => Links(t, Len(t), append'[q])
  BY <1>10, <1>13
<1>14. \A q \in Replicas : ~Idle(q)' =>
         /\ append'[q].beside => backend' = "postgres"
         /\ ~append'[q].beside => \A r \in Replicas : r # q => Idle(r)'
         /\ append'[q].step = "read" => Links(trail', Len(trail'), append'[q])
  BY <1>4, <1>13
<1>15. \A i \in 1..Len(trail') :
         Links(trail', i - 1, trail'[i]) /\ (trail'[i].beside => backend' = "postgres")
  BY <1>4, <1>11
<1>16. backend' = "sqlite" => \A q \in Replicas : q # Single => Idle(q)'
  BY <1>4, <1>12
<1>17. (\E Q : Written(Q))'
  BY <1>8
<1> QED BY <1>14, <1>15, <1>16, <1>17, Zenon DEF TrailFits

(* The process dies with the event it was appending. *)
LEMMA CrashDrops ==
  ASSUME TrailFits, NEW p \in Replicas, Mig!Crash(p), MaxAudit \in Nat
  PROVE  TrailFits'
<1>1. /\ append' = [append EXCEPT ![p] = Mig!NoAppend]
      /\ backend' = backend /\ trail' = trail
  BY Zenon DEF Mig!Crash
<1>2. PICK P : Written(P)
  BY DEF TrailFits
<1>3. append \in [Replicas -> Events(P)] /\ trail \in Seq(Events(P)) /\ 0 \in P
  BY <1>2 DEF Written
<1>4. append'[p] = Mig!NoAppend /\ \A q \in Replicas : q # p => append'[q] = append[q]
  BY <1>1, <1>3
<1>5. Written(P)'
  <2>1. Mig!NoAppend \in Events(P)
    BY <1>3 DEF Mig!NoAppend, Events
  <2>2. append' \in [Replicas -> Events(P)]
    BY <1>1, <1>3, <2>1
  <2> QED BY <1>1, <1>3, <2>2 DEF Written, Events
<1>6. Idle(p)' /\ \A q \in Replicas : q # p => (Idle(q)' <=> Idle(q))
  BY <1>4 DEF Idle, Mig!NoAppend
<1>7. ASSUME NEW q \in Replicas, ~Idle(q)'
      PROVE  /\ append'[q].beside => backend = "postgres"
             /\ ~append'[q].beside => \A r \in Replicas : r # q => Idle(r)'
             /\ append'[q].step = "read" => Links(trail, Len(trail), append'[q])
  <2>1. q # p /\ ~Idle(q) /\ append'[q] = append[q]
    BY <1>4, <1>6, <1>7
  <2>2. ~append[q].beside => \A r \in Replicas : r # q => Idle(r)
    BY <2>1 DEF TrailFits
  <2> QED BY <1>6, <2>1, <2>2 DEF TrailFits
<1>8. backend = "sqlite" => \A q \in Replicas : q # Single => Idle(q)'
  BY <1>6 DEF TrailFits
<1> QED BY <1>1, <1>5, <1>7, <1>8 DEF TrailFits

(* Over SQLite it is Single that serves. *)
LEMMA AppendsKeep ==
  ASSUME Mig!MigrationsAssumption, BootInv, TrailFits, NEW p \in Replicas,
         Mig!AppendEvent(p) \/ Mig!Crash(p), MaxAudit \in Nat
  PROVE  TrailFits'
<1>1. Single \in Replicas /\ backend \in {"sqlite", "postgres"}
  BY DEF Mig!MigrationsAssumption, BootInv
<1>2. CASE Mig!StampEvent(p)
  <2>1. phase[p] = "serving"
    BY <1>2 DEF Mig!StampEvent
  <2>2. backend = "sqlite" => p = Single
    BY <2>1 DEF BootInv, SqliteInv, SqliteFits
  <2> QED BY <1>1, <1>2, <2>2, StampKeeps
<1>3. CASE Mig!ReadNewest(p)
  BY <1>3, ReadKeeps
<1>4. CASE Mig!InsertEvent(p)
  BY <1>4, InsertKeeps
<1>5. CASE Mig!Crash(p)
  BY <1>5, CrashDrops
<1> QED BY <1>2, <1>3, <1>4, <1>5 DEF Mig!AppendEvent

(* Nothing is appended before a process serves. *)
LEMMA TrailInit ==
  ASSUME Mig!MigrationsAssumption, Mig!Init
  PROVE  TrailFits
<1>1. /\ trail = <<>> /\ append = [p \in Replicas |-> Mig!NoAppend]
      /\ MaxAudit \in Nat
  BY DEF Mig!Init, Mig!MigrationsAssumption
<1>2. Written({0})
  BY <1>1 DEF Written, Events, Mig!NoAppend
<1>3. \A p \in Replicas : Idle(p)
  BY <1>1 DEF Idle, Mig!NoAppend
<1>4. Len(trail) = 0
  BY <1>1
<1> QED BY <1>2, <1>3, <1>4 DEF TrailFits

-----------------------------------------------------------------------------
(* Migrations: the invariant and the theorem.                              *)

(* What is there is made by versions, and what those make is not lost.     *)
LEMMA CompleteServes ==
  ASSUME NEW d, Complete(d), NEW o, o \in UNION {Mig!Creates(v) : v \in Mig!Versions},
         o \notin UNION {Mig!Removes(v) : v \in Mig!Versions}
  PROVE  o \in d.objects
<1>1. PICK v \in Mig!Versions : o \in Mig!Creates(v)
  OBVIOUS
<1>2. "V019" \in Mig!Versions
  BY VersionsAre
<1>3. o \notin Mig!Removes("V019")
  BY <1>2
<1>4. o \notin Gone
  BY <1>3, GoneIsRemoved
<1> QED BY <1>1, <1>4 DEF Complete

(* The invariant says what was to be shown. *)
LEMMA BootsAreWhole ==
  ASSUME Mig!MigrationsAssumption, BootInv, TrailFits
  PROVE  Mig!DatabaseIsWhole
<1>1. Runners /\ Single \in Replicas
  BY DEF BootInv, SqliteInv, PostgresInv, Mig!MigrationsAssumption
<1>2. PICK b : b = db
  OBVIOUS
<1>3. Sound(b)
  BY <1>1, <1>2 DEF Runners
<1>4. Mig!TypeOK
  <2>1. Mig!IsDatabase(db)
    BY <1>2, <1>3, SoundIsDatabase
  <2>2. ASSUME NEW p \in Replicas
        PROVE  /\ work[p].open => Mig!IsDatabase(work[p].d)
               /\ phase[p] \in Mig!Phases /\ at[p] \in 0..23
    <3>1. PICK d : d = work[p].d
      OBVIOUS
    <3>2. work[p].open => Mig!IsDatabase(d)
      BY <1>1, <3>1, SoundIsDatabase DEF Runners
    <3> QED BY <1>1, <3>1, <3>2 DEF Runners
  <2>3. Len(Mig!SqliteOrder) + 1 = 23
    BY OrdersAreWhole
  <2> QED BY <1>1, <2>1, <2>2, <2>3 DEF Runners, Mig!TypeOK
<1>5. ASSUME NEW p \in Replicas, phase[p] = "serving"
      PROVE  Complete(b) /\ (b.stamped \/ torn) /\ (backend = "postgres" => b.cased)
  <2>1. CASE backend = "sqlite"
    <3>1. Runners /\ SqliteFits /\ PassedFit /\ StampFit
      BY <2>1 DEF BootInv, SqliteInv
    <3>2. p = Single
      BY <1>5, <3>1 DEF SqliteFits
    <3> QED BY <1>2, <1>5, <2>1, <3>1, <3>2, SqliteServes
  <2>2. CASE backend = "postgres"
    <3>1. Filled(b, b.recorded) /\ Seeds(b) /\ b.recorded = Mig!Versions
      BY <1>2, <1>5, <2>2 DEF BootInv, PostgresInv, PostgresFits
    <3>2. {"V003", "V008", "V011", "V014", "V017", "V018"} \subseteq Mig!Versions
      BY VersionsAre
    <3>3. Complete(b)
      BY <3>1, <3>2 DEF Filled, Seeds, Complete
    <3> QED BY <3>1, <3>2, <3>3 DEF Filled
  <2> QED BY <2>1, <2>2 DEF BootInv
<1>6. Mig!ServesOnCompleteSchema
  <2>1. SUFFICES ASSUME NEW p \in Replicas, phase[p] = "serving"
                 PROVE  /\ db.recorded = Mig!Versions
                        /\ (UNION {Mig!Creates(v) : v \in Mig!Versions})
                             \ (UNION {Mig!Removes(v) : v \in Mig!Versions}) \subseteq db.objects
                        /\ Rows \ Sparse \subseteq db.items
                        /\ db.seeded /\ db.mode /\ (db.stamped \/ torn)
                        /\ backend = "postgres" => db.cased
    BY Zenon DEF Mig!ServesOnCompleteSchema
  <2>2. Complete(b) /\ (b.stamped \/ torn) /\ (backend = "postgres" => b.cased)
    BY <1>5, <2>1
  <2>3. (UNION {Mig!Creates(v) : v \in Mig!Versions})
          \ (UNION {Mig!Removes(v) : v \in Mig!Versions}) \subseteq b.objects
    BY <2>2, CompleteServes
  <2> QED BY <1>2, <2>2, <2>3 DEF Complete
<1>7. Mig!NothingHalfApplied
  <2>1. SUFFICES ASSUME backend = "postgres", NEW v \in Mig!Versions, NEW o,
                        o \in Mig!Creates(v), o \in b.objects
                 PROVE  v \in b.recorded
    BY <1>2 DEF Mig!NothingHalfApplied
  <2>2. Filled(b, b.recorded)
    BY <1>2, <2>1 DEF BootInv, PostgresInv, PostgresFits
  <2>3. v # "-"
    BY VersionsAre
  <2>4. \A x \in Mig!Creates(v) : MadeIn(x) = v
    BY Creations
  <2>5. MadeIn(o) = v
    BY <2>1, <2>4
  <2> QED BY <2>1, <2>2, <2>3, <2>5 DEF Filled
<1>8. Mig!AuditIsChained
  <2>1. DOMAIN b.audit = 1..Len(b.audit)
    BY <1>3, RowFields DEF Sound
  <2>2. "V003" \in db.recorded => \A i \in DOMAIN db.audit : db.audit[i] = i - 1
    BY <1>2, <1>3, <2>1 DEF Sound, Hashed
  <2>3. DOMAIN trail = 1..Len(trail)
    BY DEF TrailFits, Written
  <2>4. ASSUME NEW i \in 1..Len(trail)
        PROVE  /\ \E n \in 0..i - 1 : trail[i].prev = Mig!Newest(n)
               /\ ~trail[i].beside => trail[i].prev = Mig!Newest(i - 1)
               /\ trail[i].beside => backend = "postgres"
    <3>1. \A n : NewestIn(trail, n) = Mig!Newest(n)
      BY DEF NewestIn, Mig!Newest
    <3>2. Links(trail, i - 1, trail[i]) /\ (trail[i].beside => backend = "postgres")
      BY DEF TrailFits
    <3> QED BY <3>1, <3>2 DEF Links
  <2> QED BY <2>2, <2>3, <2>4 DEF Mig!AuditIsChained
<1> QED BY <1>4, <1>6, <1>7, <1>8 DEF Mig!DatabaseIsWhole

(* A step that changes none of it keeps it. *)
LEMMA BootStays ==
  ASSUME BootInv, UNCHANGED Mig!boot
  PROVE  BootInv'
<1>1. UNCHANGED <<backend, db, work, at, line, phase, torn, faults>>
  BY DEF Mig!boot
<1> QED BY <1>1 DEF BootInv, SqliteInv, PostgresInv, Runners, SqliteFits, PassedFit, StampFit,
                    PostgresFits, Passed, Pending, Midway, Unstamped, ScriptAt, Mig!Seen, Mig!Has

(* ... nor the events. *)
LEMMA TrailStays ==
  ASSUME TrailFits, UNCHANGED <<backend, trail, append>>
  PROVE  TrailFits'
<1>1. \A P : Events(P)' = Events(P)
  BY DEF Events
<1>2. (\E P : Written(P))'
  BY <1>1 DEF TrailFits, Written
<1>3. \A p : Idle(p)' <=> Idle(p)
  BY DEF Idle
<1> QED BY <1>2, <1>3 DEF TrailFits

(* A boot goes on, a process dies or an event is appended. *)
LEMMA BootStep ==
  ASSUME Mig!MigrationsAssumption, BootInv, NEW p \in Replicas,
         Mig!Progress(p) \/ Mig!AppendEvent(p) \/ Mig!Crash(p)
  PROVE  BootInv'
<1>1. Single \in Replicas /\ MaxFaults \in Nat
  BY DEF Mig!MigrationsAssumption
<1>2. CASE Mig!Progress(p) \/ Mig!Crash(p)
  <2>1. CASE backend = "sqlite"
    <3>1. SqliteInv
      BY <2>1 DEF BootInv
    <3>2. SqliteInv' /\ backend' = "sqlite"
      BY <1>1, <1>2, <2>1, <3>1, SqliteNext
    <3> QED BY <3>2 DEF BootInv
  <2>2. CASE backend = "postgres"
    <3>1. PostgresInv
      BY <2>2 DEF BootInv
    <3>2. PostgresInv' /\ backend' = "postgres"
      BY <1>1, <1>2, <2>2, <3>1, PostgresNext
    <3> QED BY <3>2 DEF BootInv
  <2> QED BY <2>1, <2>2 DEF BootInv
<1>3. CASE Mig!AppendEvent(p)
  <2>1. UNCHANGED Mig!boot
    BY <1>3 DEF Mig!AppendEvent, Mig!StampEvent, Mig!ReadNewest, Mig!InsertEvent
  <2> QED BY <2>1, BootStays
<1> QED BY <1>2, <1>3

(* The invariant is inductive. *)
LEMMA WholeStep ==
  ASSUME Mig!MigrationsAssumption, BootInv, TrailFits, [Mig!Next]_(Mig!vars)
  PROVE  BootInv' /\ TrailFits'
<1>1. MaxAudit \in Nat
  BY DEF Mig!MigrationsAssumption
<1>2. ASSUME NEW p \in Replicas, Mig!Progress(p) PROVE BootInv' /\ TrailFits'
  <2>1. BootInv'
    BY <1>2, BootStep
  <2>2. UNCHANGED <<trail, append>>
    BY <1>2 DEF Mig!Progress
  <2>3. backend' = backend
    BY <1>2, Zenon DEF Mig!Progress, Mig!Boot, Mig!SqliteStep, Mig!SelectVersion, Mig!ExecuteFile,
                       Mig!InsertVersion, Mig!SeedTaxonomy, Mig!Fail
  <2> QED BY <2>1, <2>2, <2>3, TrailStays
<1>3. ASSUME NEW p \in Replicas, Mig!AppendEvent(p) \/ Mig!Crash(p) PROVE BootInv' /\ TrailFits'
  BY <1>1, <1>3, BootStep, AppendsKeep
<1>4. CASE UNCHANGED Mig!vars
  <2>1. UNCHANGED Mig!boot /\ UNCHANGED <<backend, trail, append>>
    BY <1>4 DEF Mig!vars, Mig!boot
  <2> QED BY <2>1, BootStays, TrailStays
<1> QED BY <1>2, <1>3, <1>4 DEF Mig!Next

(* Whatever boots and crashes came before, over SQLite as over PostgreSQL, *)
(* a process serves on the whole schema and filled-in data, and nothing is *)
(* half applied (runner.py apply_migrations); the older audit events are   *)
(* chained from V003 on, and an appended one is linked to the newest       *)
(* before it unless another replica was appending at the same time, which  *)
(* happens over PostgreSQL alone (repository.py _insert_audit_event).      *)
THEOREM DatabaseIsAlwaysWhole ==
  ASSUME Mig!MigrationsAssumption
  PROVE  Mig!Spec => []Mig!DatabaseIsWhole
<1>1. Mig!Init => BootInv /\ TrailFits
  BY BootInit, TrailInit
<1>2. BootInv /\ TrailFits /\ [Mig!Next]_(Mig!vars) => (BootInv /\ TrailFits)'
  BY WholeStep
<1>3. BootInv /\ TrailFits => Mig!DatabaseIsWhole
  BY BootsAreWhole
<1> QED BY <1>1, <1>2, <1>3, PTL DEF Mig!Spec
===============================================================================
