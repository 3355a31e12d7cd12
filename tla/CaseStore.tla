------------------------------ MODULE CaseStore ------------------------------
(***************************************************************************)
(* The durable case store shared by the API replicas and the backfill      *)
(* script: an event finds or opens its case by correlation key             *)
(* (api/case_resolver.py, api/store.py, db/repository.py), rolls the case  *)
(* up and stores its record; a steward reclassifies; the backfill attaches *)
(* orphan records and merges duplicate cases (agents/backfill.py).         *)
(*                                                                         *)
(* A replica runs one activity at a time; the steps of an activity are its *)
(* database transactions (READ COMMITTED: a transaction's reads may be     *)
(* stale when it writes) and the steps of different replicas interleave.   *)
(* In one process the same operations run under the store's lock.          *)
(***************************************************************************)
EXTENDS Naturals, FiniteSets

CONSTANTS
  Replicas,       \* API processes
  Script,         \* the one of them that also runs the backfill (concurrencyPolicy: Forbid)
  Cases, NoCase,  \* fresh case ids
  Events,         \* the events, one record each
  NoEvent,
  Keys,           \* correlation keys
  KeyRank,        \* [Keys -> 1..4]: SO 1, PO 2, EDI 3, email 4
  KeysOf,         \* [Events -> SUBSET Keys]: the keys an event carries
  PoOf,           \* [Events -> Keys]: its customer PO (order_id when none is given)
  SupergroupOf,   \* [Events -> Supergroups \cup {NoSG}]: what intake classifies
  StatusOf,       \* [Events -> DOMAIN StatusRank]: its record's contribution to the case
  Legacy,         \* records stored before cases existed, parent_case_id NULL
  Unreadable,     \* legacy records without a usable original_event
  Supergroups, NoSG, Triage,
  MaxUpdates,     \* bound: reclassifications, status writes and merge runs
  MaxFaults       \* bound: crashes

StatusRank ==
  [s \in {"OPEN_AWAITING_HUMAN", "BLOCKED", "FAILED", "RESOLVED"} |->
     CASE s = "OPEN_AWAITING_HUMAN" -> 3 [] s = "BLOCKED" -> 2
       [] s = "FAILED" -> 1 [] OTHER -> 0]
CaseStatuses == DOMAIN StatusRank \cup {"OPEN_AGENT_PROCESSING"}

ASSUME CaseStoreAssumption ==
  /\ Script \in Replicas
  /\ NoCase \notin Cases /\ NoEvent \notin Events
  /\ KeyRank \in [Keys -> 1..4]
  /\ KeysOf \in [Events -> SUBSET Keys]
  /\ PoOf \in [Events -> Keys] /\ \A e \in Events : PoOf[e] \in KeysOf[e]
  /\ \A e \in Events : \A k, l \in KeysOf[e] : KeyRank[k] = KeyRank[l] => k = l
  /\ NoSG \notin Supergroups /\ Triage \in Supergroups
  /\ SupergroupOf \in [Events -> (Supergroups \ {Triage}) \cup {NoSG}]
  /\ StatusOf \in [Events -> DOMAIN StatusRank]
  /\ Unreadable \subseteq Legacy /\ Legacy \subseteq Events
  /\ MaxUpdates \in Nat /\ MaxFaults \in Nat /\ IsFiniteSet(Cases)

VARIABLES
  cases,      \* order_case
  keys,       \* case_correlation_keys
  records,    \* exceptions: parent_case_id and supergroup_code
  history,    \* case_classification_history: the supergroups recorded for a case
  task,       \* what each replica is doing
  overtaken,  \* history: cases written between another update's check and its write
  contested,  \* history: POs opened twice at once, or whose key a merge dropped
  updates, faults

vars == <<cases, keys, records, history, task, overtaken, contested, updates, faults>>

CaseRows ==
  [exists : BOOLEAN, po : Keys \cup {NoCase}, opened : Nat,
   supergroup : Supergroups \cup {NoSG}, status : CaseStatuses]
NoRow == [exists |-> FALSE, po |-> NoCase, opened |-> 0, supergroup |-> NoSG,
          status |-> "OPEN_AGENT_PROCESSING"]

Jobs == {"idle", "intake", "backfill", "update", "merge"}
Steps == {"start", "found", "attached", "counted", "checked", "rolled", "listed"}
Tasks ==
  [job : Jobs, step : Steps,
   event : Events \cup {NoEvent}, case : Cases \cup {NoCase},
   status : CaseStatuses \cup {"UNSET"},                   \* the fields of an update
   supergroup : Supergroups \cup {NoSG},
   seen : Supergroups \cup {NoSG},                         \* existing.supergroup_code
   known : SUBSET Keys,                                    \* registered keys a lookup missed
   todo : SUBSET Events,                                   \* orphans, or children to move
   plan : SUBSET (Cases \X Cases)]                         \* <<primary, duplicate>>
Idle == [job |-> "idle", step |-> "start", event |-> NoEvent, case |-> NoCase,
         status |-> "UNSET", supergroup |-> NoSG, seen |-> NoSG,
         known |-> {}, todo |-> {}, plan |-> {}]

Live == {c \in Cases : cases[c].exists}
Stored == {e \in Events : records[e].stored}
Children(c) == {e \in Stored : records[e].parent = c}
Set(p, t) == task' = [task EXCEPT ![p] = t]

(* An exception ends the activity: the handler answers 500, the script 3.  *)
Abort(p) == Set(p, Idle)

-----------------------------------------------------------------------------
(* find_by_correlation / find_by_priority: the highest-priority key the    *)
(* event carries that is registered; mutant: only its first key is tried.  *)
FindByFirstKey(e) ==
  keys[CHOOSE k \in KeysOf[e] : \A l \in KeysOf[e] : KeyRank[k] <= KeyRank[l]]
FindByPriority(e) ==
  LET hits == {k \in KeysOf[e] : keys[k] # NoCase}
  IN  IF hits = {} THEN NoCase
      ELSE keys[CHOOSE k \in hits : \A l \in hits : KeyRank[k] <= KeyRank[l]]

(* What a lookup leaves in the task. *)
Sought(t, e) ==
  [t EXCEPT !.step = "found", !.event = e, !.case = FindByPriority(e),
            !.known = IF FindByPriority(e) = NoCase
                      THEN {k \in KeysOf[e] : keys[k] # NoCase} ELSE {}]

(* An event arrives (or is sent again after a failure): resolve_or_open_   *)
(* case looks for its case.                                                *)
IntakeFinds(p, e) ==
  /\ task[p] = Idle
  /\ e \notin Stored /\ \A q \in Replicas : task[q].event # e
  /\ Set(p, Sought([Idle EXCEPT !.job = "intake", !.supergroup = SupergroupOf[e]], e))
  /\ UNCHANGED <<cases, keys, records, history, overtaken, contested, updates, faults>>

(* Orphans Pass 1 skips; mutant: those whose case exists already, too.      *)
SkippedIfCased(e) == e \in Unreadable \/ FindByPriority(e) # NoCase
Skipped(e)        == e \in Unreadable

(* Pass 1 of the backfill: list_orphans, then one orphan after the other,  *)
(* by the same lookup and with no classification.                          *)
BackfillStarts(p) ==
  LET orphans == {e \in Stored : records[e].parent = NoCase /\ ~Skipped(e)}
  IN  /\ p = Script /\ task[p] = Idle
      /\ orphans # {}
      /\ Set(p, [Idle EXCEPT !.job = "backfill", !.todo = orphans])
      /\ UNCHANGED <<cases, keys, records, history, overtaken, contested, updates, faults>>

BackfillFinds(p, e) ==
  /\ task[p].job = "backfill" /\ task[p].step = "start" /\ e \in task[p].todo
  /\ Set(p, Sought([task[p] EXCEPT !.todo = @ \ {e}], e))
  /\ UNCHANGED <<cases, keys, records, history, overtaken, contested, updates, faults>>

(* register: an upsert, the last writer wins. *)
Register(e, c) == [k \in Keys |-> IF k \in KeysOf[e] THEN c ELSE keys[k]]

(* lookup_or_create commits on the case it found.  The keys' foreign key   *)
(* fails the transaction when a merge has deleted that case meanwhile.     *)
Attach(p) ==
  LET t == task[p]
  IN  /\ t.step = "found" /\ t.case # NoCase
      /\ IF cases[t.case].exists
         THEN /\ keys' = Register(t.event, t.case)
              /\ Set(p, [t EXCEPT !.step = "attached",
                                  !.supergroup = cases[t.case].supergroup])
         ELSE UNCHANGED keys /\ Abort(p)
      /\ UNCHANGED <<cases, records, history, overtaken, contested, updates, faults>>

(* What creation writes to case_classification_history. *)
IntakeAudit(sg)   == {sg} \ {NoSG}

(* lookup_or_create commits a new case: row, keys and intake audit at once. *)
Open(p) ==
  LET t == task[p]
      e == t.event
      c == CHOOSE d \in Cases : cases[d].opened = 0
  IN  /\ t.step = "found" /\ t.case = NoCase
      /\ \E d \in Cases : cases[d].opened = 0
      /\ cases' = [cases EXCEPT ![c] =
                     [exists |-> TRUE, po |-> PoOf[e], supergroup |-> t.supergroup,
                      status |-> "OPEN_AGENT_PROCESSING",
                      opened |-> 1 + Cardinality({d \in Cases : cases[d].opened > 0})]]
      /\ keys' = Register(e, c)
      /\ history' = [history EXCEPT ![c] = @ \cup IntakeAudit(t.supergroup)]
      /\ contested' = contested \cup {k \in KeysOf[e] \ t.known : keys[k] # NoCase}
      /\ Set(p, [t EXCEPT !.step = "attached", !.case = c, !.known = {}])
      /\ UNCHANGED <<records, overtaken, updates, faults>>

(* The status the case's records and the incoming one give it. *)
Aggregate(c, incoming) ==
  CHOOSE s \in {StatusOf[e] : e \in Children(c) \cup {incoming}} :
    \A e \in Children(c) \cup {incoming} : StatusRank[s] >= StatusRank[StatusOf[e]]

(* recompute_case_status: nothing to do for a case that is gone or already *)
(* there, otherwise update(status=...).  A case parked for cosign, which   *)
(* it leaves alone, is in ExceptionLifecycle.                              *)
Count(p) ==
  LET t == task[p]
      status == Aggregate(t.case, t.event)
  IN  /\ t.job = "intake" /\ t.step = "attached"
      /\ Set(p, IF ~cases[t.case].exists THEN [t EXCEPT !.step = "rolled"]
                ELSE IF status = cases[t.case].status
                THEN [t EXCEPT !.step = "rolled", !.supergroup = cases[t.case].supergroup]
                ELSE [t EXCEPT !.step = "counted", !.status = status,
                               !.supergroup = NoSG])
      /\ UNCHANGED <<cases, keys, records, history, overtaken, contested, updates, faults>>

(* A caller of update(): a steward's reclassification, or a status write   *)
(* (the case override's promotion).                                        *)
UpdateStarts(p, c, status, supergroup) ==
  /\ task[p] = Idle
  /\ cases[c].exists
  /\ updates < MaxUpdates /\ updates' = updates + 1
  /\ Set(p, [Idle EXCEPT !.job = "update", !.step = "counted", !.case = c,
                         !.status = status, !.supergroup = supergroup])
  /\ UNCHANGED <<cases, keys, records, history, overtaken, contested, faults>>

(* NeedsTriageCloseBlocked. *)
CloseBlocked(t, row) ==
  /\ (IF t.status = "UNSET" THEN row.status ELSE t.status) = "RESOLVED"
  /\ (IF t.supergroup = NoSG THEN row.supergroup ELSE t.supergroup) = Triage

(* update() reads the case and validates ... *)
Check(p) ==
  LET t == task[p]
      row == cases[t.case]
  IN  /\ t.step = "counted"
      /\ IF ~row.exists \/ CloseBlocked(t, row) THEN Abort(p)
         ELSE Set(p, [t EXCEPT !.step = "checked", !.seen = row.supergroup])
      /\ UNCHANGED <<cases, keys, records, history, overtaken, contested, updates, faults>>

(* The audit row of a reclassification; mutant: only a first one is kept. *)
FirstAuditOnly(c, sg) == IF history[c] = {} THEN {sg} ELSE {}
ReclassificationAudit(c, sg) == {sg}

(* ... and writes, in a transaction of its own: the fields given, and an   *)
(* audit row when the supergroup differs from the one it read.  The row of *)
(* a case deleted meanwhile cannot be read back.                           *)
Write(p) ==
  LET t == task[p]
      c == t.case
      old == cases[c]
      new == [old EXCEPT !.status = IF t.status = "UNSET" THEN @ ELSE t.status,
                         !.supergroup = IF t.supergroup = NoSG THEN @ ELSE t.supergroup]
  IN  /\ t.step = "checked"
      /\ IF ~old.exists
         THEN /\ Abort(p)
              /\ UNCHANGED <<cases, history, overtaken>>
         ELSE /\ cases' = [cases EXCEPT ![c] = new]
              /\ history' = [history EXCEPT ![c] =
                   @ \cup IF t.supergroup \in {NoSG, t.seen} THEN {}
                          ELSE ReclassificationAudit(c, t.supergroup)]
              /\ overtaken' = IF \E q \in Replicas \ {p} :
                                   task[q].step = "checked" /\ task[q].case = c
                              THEN overtaken \cup {c} ELSE overtaken
              /\ Set(p, IF t.job = "update" THEN Idle
                        ELSE [t EXCEPT !.step = "rolled", !.status = "UNSET",
                                       !.supergroup = new.supergroup, !.seen = NoSG])
      /\ UNCHANGED <<keys, records, contested, updates, faults>>

(* The supergroup of a new record mirrors its case's as last read. *)
RecordSupergroup(t)    == t.supergroup

(* The V018 trigger: a classified record agrees with its classified case.  *)
Inherits(sg, c) == sg = NoSG \/ cases[c].supergroup \in {NoSG, sg}

(* _persist_exception stores the record; foreign key and trigger may       *)
(* refuse it, after the roll-up.                                           *)
Store(p) ==
  LET t == task[p]
      sg == RecordSupergroup(t)
  IN  /\ t.job = "intake" /\ t.step = "rolled"
      /\ records' = IF cases[t.case].exists /\ Inherits(sg, t.case)
                    THEN [records EXCEPT ![t.event] =
                            [stored |-> TRUE, parent |-> t.case, supergroup |-> sg]]
                    ELSE records
      /\ Set(p, Idle)
      /\ UNCHANGED <<cases, keys, history, overtaken, contested, updates, faults>>

(* The backfill links the orphan and takes the next one. *)
Link(p) ==
  LET t == task[p]
  IN  /\ t.job = "backfill" /\ t.step = "attached"
      /\ IF cases[t.case].exists
         THEN /\ records' = [records EXCEPT ![t.event].parent = t.case]
              /\ Set(p, IF t.todo = {} THEN Idle
                        ELSE [Idle EXCEPT !.job = "backfill", !.todo = t.todo])
         ELSE /\ UNCHANGED records
              /\ Abort(p)
      /\ UNCHANGED <<cases, keys, history, overtaken, contested, updates, faults>>

-----------------------------------------------------------------------------
(* Pass 2 plans from one listing: per customer PO the earliest case        *)
(* absorbs the others.                                                     *)
Absorbs(c, d) ==
  /\ c # d /\ cases[c].po = cases[d].po
  /\ \A b \in Live : cases[b].po = cases[c].po => cases[c].opened <= cases[b].opened
MergePlan == {pair \in Live \X Live : Absorbs(pair[1], pair[2])}

MergeStarts(p) ==
  /\ p = Script /\ task[p] = Idle
  /\ MergePlan # {}
  /\ updates < MaxUpdates /\ updates' = updates + 1
  /\ Set(p, [Idle EXCEPT !.job = "merge", !.plan = MergePlan])
  /\ UNCHANGED <<cases, keys, records, history, overtaken, contested, faults>>

(* The next duplicate and its children. *)
MergeLists(p, pair) ==
  /\ task[p].job = "merge" /\ task[p].step = "start" /\ pair \in task[p].plan
  /\ Set(p, [task[p] EXCEPT !.step = "listed", !.case = pair[2], !.todo = Children(pair[2])])
  /\ UNCHANGED <<cases, keys, records, history, overtaken, contested, updates, faults>>

Primary(t) == CHOOSE c \in Cases : <<c, t.case>> \in t.plan

(* A child moves: an update of parent_case_id alone, which neither checks  *)
(* the inheritance trigger nor rolls the primary up.                       *)
MergeMoves(p, e) ==
  LET t == task[p]
  IN  /\ t.step = "listed" /\ e \in t.todo
      /\ IF cases[Primary(t)].exists
         THEN /\ records' = [records EXCEPT ![e].parent = Primary(t)]
              /\ Set(p, [t EXCEPT !.todo = @ \ {e}])
         ELSE /\ UNCHANGED records
              /\ Abort(p)
      /\ UNCHANGED <<cases, keys, history, overtaken, contested, updates, faults>>

(* The foreign keys of records and history on a case. *)
Referenced(c)  == Children(c) # {} \/ history[c] # {}

(* The duplicate and its correlation keys go; a case that still has        *)
(* records, or an audit history, fails the delete and ends the script.     *)
MergeDeletes(p) ==
  LET t == task[p]
      lost == {k \in Keys : keys[k] = t.case}
      rest == {q \in t.plan : q[2] # t.case}
  IN  /\ t.step = "listed" /\ t.todo = {}
      /\ IF Referenced(t.case)
         THEN /\ Abort(p)
              /\ UNCHANGED <<cases, keys, contested>>
         ELSE /\ cases' = [cases EXCEPT ![t.case].exists = FALSE]
              /\ keys' = [k \in Keys |-> IF k \in lost THEN NoCase ELSE keys[k]]
              /\ contested' = contested \cup lost
              /\ Set(p, IF rest = {} THEN Idle ELSE [Idle EXCEPT !.job = "merge", !.plan = rest])
      /\ UNCHANGED <<records, history, overtaken, updates, faults>>

-----------------------------------------------------------------------------
(* A process dies between two transactions. *)
Crash(p) ==
  /\ faults < MaxFaults /\ task[p] # Idle
  /\ faults' = faults + 1
  /\ Set(p, Idle)
  /\ UNCHANGED <<cases, keys, records, history, overtaken, contested, updates>>

Init ==
  /\ cases = [c \in Cases |-> NoRow]
  /\ keys = [k \in Keys |-> NoCase]
  /\ records = [e \in Events |-> [stored |-> e \in Legacy, parent |-> NoCase, supergroup |-> NoSG]]
  /\ history = [c \in Cases |-> {}]
  /\ task = [p \in Replicas |-> Idle]
  /\ overtaken = {} /\ contested = {} /\ updates = 0 /\ faults = 0

Intake(p) ==
  \/ \E e \in Events : IntakeFinds(p, e)
  \/ Attach(p) \/ Open(p)
  \/ Count(p) \/ Check(p) \/ Write(p) \/ Store(p)

Update(p) ==
  \E c \in Cases :
    \/ \E sg \in Supergroups : UpdateStarts(p, c, "UNSET", sg)
    \/ \E s \in {"RESOLVED", "OPEN_AGENT_PROCESSING"} : UpdateStarts(p, c, s, NoSG)

Backfill(p) == BackfillStarts(p) \/ (\E e \in Events : BackfillFinds(p, e)) \/ Link(p)

Merge(p) ==
  \/ MergeStarts(p) \/ (\E pair \in Cases \X Cases : MergeLists(p, pair))
  \/ (\E e \in Events : MergeMoves(p, e)) \/ MergeDeletes(p)

Next == \E p \in Replicas : Intake(p) \/ Update(p) \/ Backfill(p) \/ Merge(p) \/ Crash(p)

Spec == Init /\ [][Next]_vars

(* What a process started it goes on with, and the weekly job runs Pass 1:   *)
(* strongly fair, since it has a pod of its own that no event being retried  *)
(* keeps busy.                                                               *)
Continues(p) ==
  \/ Attach(p) \/ Open(p) \/ Count(p) \/ Check(p) \/ Write(p)
  \/ Store(p) \/ (\E e \in Events : BackfillFinds(p, e)) \/ Link(p)
  \/ (\E pair \in Cases \X Cases : MergeLists(p, pair))
  \/ (\E e \in Events : MergeMoves(p, e)) \/ MergeDeletes(p)
Fairness == \A p \in Replicas : WF_vars(Continues(p)) /\ SF_vars(BackfillStarts(p))

FairSpec == Spec /\ Fairness

-----------------------------------------------------------------------------
(* Tables, activities and counters hold what the code can store in them. *)
TypeOK ==
  /\ cases \in [Cases -> CaseRows]
  /\ keys \in [Keys -> Cases \cup {NoCase}]
  /\ records \in [Events -> [stored : BOOLEAN, parent : Cases \cup {NoCase},
                             supergroup : Supergroups \cup {NoSG}]]
  /\ history \in [Cases -> SUBSET Supergroups]
  /\ task \in [Replicas -> Tasks]
  /\ overtaken \subseteq Cases /\ contested \subseteq Keys
  /\ updates \in 0..MaxUpdates /\ faults \in 0..MaxFaults

(* Keys and records refer to existing cases, whatever a merge deletes      *)
(* while other replicas attach (the foreign keys of V009 and V010).        *)
ReferencesHold ==
  /\ \A k \in Keys : keys[k] # NoCase => cases[keys[k]].exists
  /\ \A e \in Stored : records[e].parent # NoCase => cases[records[e].parent].exists

(* Events with one customer PO meet in one case: a second case for a PO    *)
(* needs two replicas opening at once, or a merge that dropped the key;    *)
(* a crash between opening the case and storing the record does not do it. *)
OneCasePerPO ==
  \A c, d \in Live : c # d /\ cases[c].po = cases[d].po => cases[c].po \in contested

(* A case's supergroup is never one that its audit history does not name   *)
(* (requirements 8.6): intake and update write row and audit together.     *)
SupergroupIsAudited ==
  \A c \in Live : cases[c].supergroup # NoSG => cases[c].supergroup \in history[c]

(* A record carries a supergroup its case has, or has had, unless a merge  *)
(* moved it: classification, attachment and reclassification interleave.   *)
RecordFollowsCase ==
  \A e \in Stored :
    records[e].supergroup # NoSG /\ records[e].parent # NoCase
      => \/ records[e].supergroup \in history[records[e].parent]
         \/ cases[records[e].parent].po \in contested

(* An unclassifiable case is never RESOLVED (requirements 8.2), whichever  *)
(* of status and supergroup was written last, except when another update   *)
(* wrote the case between the check and the write.                         *)
TriageStaysOpen ==
  \A c \in Live \ overtaken : ~(cases[c].supergroup = Triage /\ cases[c].status = "RESOLVED")

(* A case is found by every reference to it, and by its customer PO alone   *)
(* (repository.py case lookups and the foreign keys).                       *)
CasesAreFound == TypeOK /\ ReferencesHold /\ OneCasePerPO

(* A supergroup is where its history, its records and its status put it     *)
(* (requirements 8.2 and 8.6).                                              *)
SupergroupsAreTraced == SupergroupIsAudited /\ RecordFollowsCase /\ TriageStaysOpen

(* Every readable orphan gets its case, whatever the job is interrupted by. *)
OrphansAreAdopted ==
  \A e \in Legacy \ Unreadable : records[e].parent = NoCase ~> records[e].parent # NoCase
===============================================================================
