----------------------------- MODULE StoreProofs -----------------------------
(***************************************************************************)
(* Proofs about what the database keeps while others write between the     *)
(* transactions of an activity, so that the invariants say what of its     *)
(* snapshot stays true.                                                    *)
(*                                                                         *)
(* CaseStore, for any replicas, cases, events, keys, updates and crashes:  *)
(* a case once opened keeps its customer PO, a supergroup once read is in  *)
(* the case's history, what Check found open is open unless somebody wrote *)
(* the case since, and a merge's plan names contested POs only.            *)
(*                                                                         *)
(* Governance (G), which has constants and variables of its own, for any   *)
(* processes, layers, changes and failures: what a change of the weights   *)
(* read is still there when it writes unless two were about one layer, and *)
(* the hash a row is linked to is still the newest unless two audited at   *)
(* once.                                                                   *)
(***************************************************************************)
EXTENDS CaseStore, SequenceTheorems, FiniteSetTheorems, WellFoundedInduction, TLAPS

CONSTANTS Processes, Tenants, Owner, Layers, Signals, Whole, Platform, Behaviour, Overrides, None, Settings
VARIABLES setting, failures, clock, rows, log, job, changes, events, resolves, written, audited, lost,
          hollow, overlapped, muddled, resolved, seed, constants, steward, interrupted, before

G == INSTANCE Governance WITH faults <- failures

RecordRows == [stored : BOOLEAN, parent : Cases \cup {NoCase}, supergroup : Supergroups \cup {NoSG}]

TablesOK ==
  /\ cases \in [Cases -> CaseRows]
  /\ keys \in [Keys -> Cases \cup {NoCase}]
  /\ records \in [Events -> RecordRows]
  /\ history \in [Cases -> SUBSET Supergroups]
  /\ task \in [Replicas -> Tasks]
  /\ overtaken \subseteq Cases /\ contested \subseteq Keys
  /\ updates \in 0..MaxUpdates /\ faults \in 0..MaxFaults

(* A live case was opened, for a PO by which it is found unless contested. *)
Opened(c) == cases[c].opened > 0
CasesOpened == \A c \in Live : Opened(c) /\ cases[c].po \in Keys
PosRegistered == \A c \in Live : keys[cases[c].po] # NoCase \/ cases[c].po \in contested

(* The backfill is about legacy records, intake about the others.          *)
LegacyApart ==
  /\ \A e \in Legacy : records[e].stored /\ records[e].supergroup = NoSG
  /\ \A e \in Stored \ Legacy : records[e].parent # NoCase

StoreFits ==
  /\ CasesOpened /\ PosRegistered /\ LegacyApart
  /\ ReferencesHold /\ OneCasePerPO
  /\ SupergroupIsAudited /\ RecordFollowsCase /\ TriageStaysOpen

(* How far an activity t is, and what of the tables it may rely on.        *)
Placed(t) ==
  /\ t.known = {}
  /\ t.job = "idle" => t.step = "start"
  /\ t.job = "intake" => t.step \in {"found", "attached", "counted", "checked", "rolled"}
                         /\ t.event \in Events \ Legacy
  /\ t.job = "backfill" => t.step \in {"start", "found", "attached"} /\ t.todo \subseteq Legacy
                           /\ (t.step # "start" => t.event \in Legacy)
  /\ t.job = "update" => t.step \in {"counted", "checked"}
  /\ t.job = "merge" => t.step \in {"start", "listed"}
  /\ t.step \notin {"start", "found"} => t.case \in Cases
  /\ t.job = "intake" /\ t.step \in {"counted", "checked"} => t.supergroup = NoSG
  /\ t.step = "listed" => \E c \in Cases : <<c, t.case>> \in t.plan

Traced(t) ==
  /\ t.case \in Cases => Opened(t.case)
  /\ t.job = "intake" /\ t.step \in {"attached", "rolled"} => t.supergroup \in history[t.case] \cup {NoSG}
  /\ t.step = "checked" => t.seen \in history[t.case] \cup {NoSG}

Guarded(t) ==
  t.step = "checked" /\ t.case \in Live \ overtaken => ~CloseBlocked(t, cases[t.case])

Planned(t) ==
  \A pair \in t.plan :
    /\ Opened(pair[1]) /\ Opened(pair[2])
    /\ cases[pair[1]].po \in contested

TaskOK(t) == Placed(t) /\ Traced(t) /\ Guarded(t) /\ Planned(t)
TasksFit == \A p \in Replicas : TaskOK(task[p])

StoreInv == TablesOK /\ StoreFits /\ TasksFit

-----------------------------------------------------------------------------
(* Facts about the operators.                                              *)

(* A lookup answers a registered key's case if one of the event's keys is  *)
(* registered, and so a lookup that missed knows of no registered key.     *)
LEMMA FindFinds ==
  ASSUME TablesOK, NEW e \in Events
  PROVE  /\ FindByPriority(e) = NoCase => \A k \in KeysOf[e] : keys[k] = NoCase
         /\ FindByPriority(e) # NoCase => \E k \in KeysOf[e] : keys[k] = FindByPriority(e)
<1> DEFINE hits == {k \in KeysOf[e] : keys[k] # NoCase}
<1>1. CASE hits = {}
  BY <1>1 DEF FindByPriority
<1>2. CASE hits # {}
  <2>1. \A k \in hits : KeyRank[k] \in {1, 2, 3, 4}
    BY CaseStoreAssumption
  <2>2. \E k \in hits : \A l \in hits : KeyRank[k] <= KeyRank[l]
    <3>1. CASE \E k \in hits : KeyRank[k] = 1
      BY <2>1, <3>1
    <3>2. CASE (~\E k \in hits : KeyRank[k] = 1) /\ \E k \in hits : KeyRank[k] = 2
      BY <2>1, <3>2
    <3>3. CASE (~\E k \in hits : KeyRank[k] \in {1, 2}) /\ \E k \in hits : KeyRank[k] = 3
      BY <2>1, <3>3
    <3>4. CASE ~\E k \in hits : KeyRank[k] \in {1, 2, 3}
      BY <1>2, <2>1, <3>4
    <3> QED BY <3>1, <3>2, <3>3, <3>4
  <2>3. PICK h : h = CHOOSE k \in hits : \A l \in hits : KeyRank[k] <= KeyRank[l]
    OBVIOUS
  <2>4. h \in hits
    BY <2>2, <2>3
  <2>5. FindByPriority(e) = keys[h]
    BY <1>2, <2>3 DEF FindByPriority
  <2> QED BY <2>4, <2>5
<1> QED BY <1>1, <1>2

(* The statuses of records have a highest rank. *)
LEMMA AggregateType ==
  ASSUME NEW c \in Cases, NEW e \in Events
  PROVE  Aggregate(c, e) \in DOMAIN StatusRank
<1> DEFINE S == {StatusOf[f] : f \in Children(c) \cup {e}}
<1>1. DOMAIN StatusRank = {"OPEN_AWAITING_HUMAN", "BLOCKED", "FAILED", "RESOLVED"}
      /\ StatusRank["OPEN_AWAITING_HUMAN"] = 3 /\ StatusRank["BLOCKED"] = 2
      /\ StatusRank["FAILED"] = 1 /\ StatusRank["RESOLVED"] = 0
  BY DEF StatusRank
<1>2. S # {} /\ S \subseteq DOMAIN StatusRank
  BY CaseStoreAssumption DEF Children, Stored
<1> HIDE DEF S
<1>3. \E s \in S : \A x \in S : StatusRank[s] >= StatusRank[x]
  <2>1. CASE "OPEN_AWAITING_HUMAN" \in S
    BY <1>1, <1>2, <2>1
  <2>2. CASE "OPEN_AWAITING_HUMAN" \notin S /\ "BLOCKED" \in S
    BY <1>1, <1>2, <2>2
  <2>3. CASE "OPEN_AWAITING_HUMAN" \notin S /\ "BLOCKED" \notin S /\ "FAILED" \in S
    BY <1>1, <1>2, <2>3
  <2>4. CASE S = {"RESOLVED"}
    BY <1>1, <2>4
  <2> QED BY <1>1, <1>2, <2>1, <2>2, <2>3, <2>4
<1>4. \E s \in S : \A f \in Children(c) \cup {e} : StatusRank[s] >= StatusRank[StatusOf[f]]
  BY <1>3 DEF S
<1> QED BY <1>2, <1>4 DEF Aggregate, S

(* A process that does nothing relies on nothing. *)
LEMMA IdleFits == Idle \in Tasks /\ TaskOK(Idle) /\ TaskOK(Idle)'
<1>1. Idle \in Tasks
  BY DEF Idle, Tasks, Jobs, Steps
<1>2. Idle.job = "idle" /\ Idle.step = "start" /\ Idle.case = NoCase /\ Idle.known = {} /\ Idle.plan = {}
  BY DEF Idle
<1> QED
  BY <1>1, <1>2, CaseStoreAssumption DEF TaskOK, Placed, Traced, Guarded, Planned

(* What an activity relies on stays true while others write: opened cases  *)
(* keep their PO, histories and the sets of named races grow, and a case   *)
(* written between its check and its write is overtaken.                   *)
LEMMA TaskKeeps ==
  ASSUME NEW t \in Tasks, TaskOK(t),
         \A c \in Cases : Opened(c) => Opened(c)' /\ cases'[c].po = cases[c].po,
         \A c \in Cases : history[c] \subseteq history'[c],
         contested \subseteq contested',
         t.step = "checked" /\ t.case \in (Live \ overtaken)' =>
           t.case \in Live \ overtaken /\ CloseBlocked(t, cases[t.case])' = CloseBlocked(t, cases[t.case])
  PROVE  TaskOK(t)'
<1>1. Placed(t)'
  BY DEF TaskOK, Placed
<1>2. Traced(t)'
  BY DEF TaskOK, Placed, Traced, Tasks
<1>3. Guarded(t)'
  BY DEF TaskOK, Guarded
<1>4. Planned(t)'
  BY DEF TaskOK, Planned, Tasks
<1> QED BY <1>1, <1>2, <1>3, <1>4 DEF TaskOK

(* The same for all processes but the one that moves on to activity t. *)
LEMMA TasksKeep ==
  ASSUME TablesOK, TasksFit, NEW p \in Replicas, NEW t \in Tasks, Set(p, t), TaskOK(t)',
         \A c \in Cases : Opened(c) => Opened(c)' /\ cases'[c].po = cases[c].po,
         \A c \in Cases : history[c] \subseteq history'[c],
         contested \subseteq contested',
         \A q \in Replicas \ {p} :
           task[q].step = "checked" /\ task[q].case \in (Live \ overtaken)' =>
             /\ task[q].case \in Live \ overtaken
             /\ cases'[task[q].case] = cases[task[q].case]
  PROVE  TasksFit' /\ task' \in [Replicas -> Tasks]
<1>1. task' \in [Replicas -> Tasks] /\ task'[p] = t /\ \A q \in Replicas \ {p} : task'[q] = task[q]
  BY DEF TablesOK, Set
<1>2. ASSUME NEW q \in Replicas, q # p PROVE TaskOK(task[q])'
  <2>1. PICK s : s = task[q]
    OBVIOUS
  <2>2. s \in Tasks /\ TaskOK(s)
    BY <2>1 DEF TablesOK, TasksFit
  <2>3. s.step = "checked" /\ s.case \in (Live \ overtaken)' =>
          s.case \in Live \ overtaken /\ CloseBlocked(s, cases[s.case])' = CloseBlocked(s, cases[s.case])
    BY <1>2, <2>1 DEF CloseBlocked
  <2>4. TaskOK(s)'
    BY <2>2, <2>3, TaskKeeps
  <2>5. task'[q] = s
    BY <1>1, <1>2, <2>1
  <2> QED BY <2>4, <2>5
<1>3. TaskOK(task[p])'
  BY <1>1
<1> QED BY <1>1, <1>2, <1>3 DEF TasksFit

(* A step that leaves the tables alone. *)
LEMMA QuietKeeps ==
  ASSUME StoreInv, NEW p \in Replicas, NEW t \in Tasks, TaskOK(t), Set(p, t),
         UNCHANGED <<cases, keys, records, history, overtaken, contested>>,
         updates' \in 0..MaxUpdates, faults' \in 0..MaxFaults
  PROVE  StoreInv'
<1>1. TaskOK(t)'
  BY DEF TaskOK, Placed, Traced, Guarded, Planned, Opened, Live, CloseBlocked
<1>2. \A c \in Cases : (Opened(c) <=> Opened(c)') /\ cases'[c].po = cases[c].po
  BY DEF Opened
<1>3. (Live \ overtaken)' = Live \ overtaken
  BY DEF Live
<1>4. TasksFit' /\ task' \in [Replicas -> Tasks]
  BY <1>1, <1>2, <1>3, TasksKeep DEF StoreInv
<1>5. TablesOK'
  BY <1>4 DEF StoreInv, TablesOK
<1>6. StoreFits'
  BY DEF StoreInv, StoreFits, CasesOpened, PosRegistered, LegacyApart, ReferencesHold, OneCasePerPO,
         SupergroupIsAudited, RecordFollowsCase, TriageStaysOpen, Live, Stored, Opened
<1> QED BY <1>4, <1>5, <1>6 DEF StoreInv

-----------------------------------------------------------------------------
(* The steps that only read the tables.                                    *)

(* A lookup's snapshot fits an activity that looks for an event's case. *)
LEMMA SoughtFits ==
  ASSUME StoreInv, NEW t \in Tasks, Planned(t), NEW e \in Events,
         \/ t.job = "intake" /\ e \notin Legacy
         \/ t.job = "backfill" /\ e \in Legacy /\ t.todo \subseteq Legacy
  PROVE  Sought(t, e) \in Tasks /\ TaskOK(Sought(t, e))
<1>1. PICK c : c = FindByPriority(e)
  OBVIOUS
<1>2. c \in Cases \cup {NoCase} /\ (c # NoCase => \E k \in KeysOf[e] : keys[k] = c)
      /\ (c = NoCase => {k \in KeysOf[e] : keys[k] # NoCase} = {})
  BY <1>1, FindFinds, CaseStoreAssumption DEF StoreInv, TablesOK
<1>3. c \in Cases => Opened(c)
  BY <1>2, CaseStoreAssumption DEF StoreInv, StoreFits, ReferencesHold, CasesOpened, Live, TablesOK
<1>4. PICK s : s = [t EXCEPT !.step = "found", !.event = e, !.case = c, !.known = {}]
  OBVIOUS
<1>5. s = Sought(t, e)
  BY <1>1, <1>2, <1>4 DEF Sought
<1>6. /\ s \in Tasks /\ s.step = "found" /\ s.event = e /\ s.case = c /\ s.known = {}
      /\ s.job = t.job /\ s.supergroup = t.supergroup /\ s.todo = t.todo /\ s.plan = t.plan
  BY <1>2, <1>4 DEF Tasks, Steps
<1>7. Placed(s)
  BY <1>6 DEF Placed
<1>8. Traced(s) /\ Guarded(s) /\ Planned(s)
  BY <1>3, <1>6 DEF Traced, Guarded, Planned
<1> QED BY <1>5, <1>6, <1>7, <1>8 DEF TaskOK

(* Intake that finds a case by its key goes on to attach. *)
LEMMA IntakeFindsKeeps ==
  ASSUME StoreInv, NEW p \in Replicas, NEW e \in Events, IntakeFinds(p, e)
  PROVE  StoreInv'
<1>1. PICK t : t = [Idle EXCEPT !.job = "intake", !.supergroup = SupergroupOf[e]]
  OBVIOUS
<1>2. t \in Tasks /\ t.job = "intake" /\ t.plan = {}
  BY <1>1, IdleFits, CaseStoreAssumption DEF Tasks, Jobs, Idle
<1>3. e \notin Legacy
  BY DEF StoreInv, StoreFits, LegacyApart, IntakeFinds, Stored
<1>4. PICK s : s = Sought(t, e)
  OBVIOUS
<1>5. s \in Tasks /\ TaskOK(s)
  BY <1>2, <1>3, <1>4, SoughtFits DEF Planned
<1>6. Set(p, s) /\ UNCHANGED <<cases, keys, records, history, overtaken, contested, updates, faults>>
  BY <1>1, <1>4 DEF IntakeFinds
<1>7. updates \in 0..MaxUpdates /\ faults \in 0..MaxFaults
  BY DEF StoreInv, TablesOK
<1> QED BY <1>5, <1>6, <1>7, QuietKeeps

(* The backfill starts on an orphan, whose PO it reads. *)
LEMMA BackfillStartsKeeps ==
  ASSUME StoreInv, NEW p \in Replicas, BackfillStarts(p)
  PROVE  StoreInv'
<1>1. PICK orphans : orphans = {e \in Stored : records[e].parent = NoCase /\ ~Skipped(e)}
  OBVIOUS
<1>2. orphans \subseteq Legacy /\ orphans \subseteq Events
  BY <1>1, CaseStoreAssumption DEF StoreInv, StoreFits, LegacyApart, Stored
<1>3. PICK t : t = [Idle EXCEPT !.job = "backfill", !.todo = orphans]
  OBVIOUS
<1>4. /\ t \in Tasks /\ t.job = "backfill" /\ t.step = "start" /\ t.plan = {} /\ t.todo = orphans
      /\ t.case = NoCase /\ t.known = {}
  BY <1>2, <1>3, IdleFits DEF Tasks, Jobs, Idle
<1>5. TaskOK(t)
  BY <1>2, <1>4, CaseStoreAssumption DEF TaskOK, Placed, Traced, Guarded, Planned
<1>6. Set(p, t) /\ UNCHANGED <<cases, keys, records, history, overtaken, contested, updates, faults>>
  BY <1>1, <1>3 DEF BackfillStarts
<1>7. updates \in 0..MaxUpdates /\ faults \in 0..MaxFaults
  BY DEF StoreInv, TablesOK
<1> QED BY <1>4, <1>5, <1>6, <1>7, QuietKeeps

(* The backfill finds the case of its orphan, or none. *)
LEMMA BackfillFindsKeeps ==
  ASSUME StoreInv, NEW p \in Replicas, NEW e \in Events, BackfillFinds(p, e)
  PROVE  StoreInv'
<1>1. PICK t : t = task[p]
  OBVIOUS
<1>2. t \in Tasks /\ TaskOK(t) /\ t.job = "backfill" /\ e \in t.todo
  BY <1>1 DEF BackfillFinds, StoreInv, TablesOK, TasksFit
<1>3. PICK u : u = [t EXCEPT !.todo = @ \ {e}]
  OBVIOUS
<1>4. u \in Tasks /\ u.job = "backfill" /\ u.todo = t.todo \ {e} /\ u.plan = t.plan
  BY <1>2, <1>3 DEF Tasks
<1>5. u.todo \subseteq Legacy /\ e \in Legacy /\ Planned(u)
  BY <1>2, <1>4 DEF TaskOK, Placed, Planned
<1>6. PICK s : s = Sought(u, e)
  OBVIOUS
<1>7. s \in Tasks /\ TaskOK(s)
  BY <1>4, <1>5, <1>6, SoughtFits
<1>8. Set(p, s) /\ UNCHANGED <<cases, keys, records, history, overtaken, contested, updates, faults>>
  BY <1>1, <1>3, <1>6 DEF BackfillFinds
<1>9. updates \in 0..MaxUpdates /\ faults \in 0..MaxFaults
  BY DEF StoreInv, TablesOK
<1> QED BY <1>7, <1>8, <1>9, QuietKeeps

(* The roll-up's write carries a status and no supergroup. *)
LEMMA CountKeeps ==
  ASSUME StoreInv, NEW p \in Replicas, Count(p)
  PROVE  StoreInv'
<1>1. PICK t : t = task[p]
  OBVIOUS
<1>2. /\ t \in Tasks /\ TaskOK(t) /\ t.job = "intake" /\ t.step = "attached"
      /\ UNCHANGED <<cases, keys, records, history, overtaken, contested, updates, faults>>
      /\ updates \in 0..MaxUpdates /\ faults \in 0..MaxFaults
  BY <1>1 DEF Count, StoreInv, TablesOK, TasksFit
<1>3. t.case \in Cases /\ t.event \in Events
  BY <1>2 DEF TaskOK, Placed
<1>4. PICK row : row = cases[t.case]
  OBVIOUS
<1>5. row.exists => row.supergroup \in history[t.case] \cup {NoSG} /\ row.supergroup \in Supergroups \cup {NoSG}
  BY <1>3, <1>4 DEF StoreInv, StoreFits, SupergroupIsAudited, Live, TablesOK, CaseRows
<1>6. PICK status : status = Aggregate(t.case, t.event)
  OBVIOUS
<1>7. status \in CaseStatuses
  BY <1>3, <1>6, AggregateType DEF CaseStatuses
<1>8. CASE ~row.exists
  <2>1. PICK s : s = [t EXCEPT !.step = "rolled"]
    OBVIOUS
  <2>2. /\ s \in Tasks /\ s.step = "rolled" /\ s.job = t.job /\ s.case = t.case /\ s.event = t.event
        /\ s.supergroup = t.supergroup /\ s.plan = t.plan /\ s.known = t.known /\ s.todo = t.todo
    BY <1>2, <2>1 DEF Tasks, Steps
  <2>3. TaskOK(s)
    BY <1>2, <1>3, <2>2 DEF TaskOK, Placed, Traced, Guarded, Planned
  <2>4. Set(p, s)
    BY <1>1, <1>4, <1>8, <2>1 DEF Count
  <2> QED BY <1>2, <2>2, <2>3, <2>4, QuietKeeps
<1>9. CASE row.exists /\ status = row.status
  <2>1. PICK s : s = [t EXCEPT !.step = "rolled", !.supergroup = row.supergroup]
    OBVIOUS
  <2>2. /\ s \in Tasks /\ s.step = "rolled" /\ s.job = t.job /\ s.case = t.case /\ s.event = t.event
        /\ s.supergroup = row.supergroup /\ s.plan = t.plan /\ s.known = t.known /\ s.todo = t.todo
    BY <1>2, <1>5, <1>9, <2>1 DEF Tasks, Steps
  <2>3. TaskOK(s)
    BY <1>2, <1>3, <1>5, <1>9, <2>2 DEF TaskOK, Placed, Traced, Guarded, Planned
  <2>4. Set(p, s)
    BY <1>1, <1>4, <1>6, <1>9, <2>1 DEF Count
  <2> QED BY <1>2, <2>2, <2>3, <2>4, QuietKeeps
<1>10. CASE row.exists /\ status # row.status
  <2>1. PICK s : s = [t EXCEPT !.step = "counted", !.status = status, !.supergroup = NoSG]
    OBVIOUS
  <2>2. /\ s \in Tasks /\ s.step = "counted" /\ s.job = t.job /\ s.case = t.case /\ s.event = t.event
        /\ s.supergroup = NoSG /\ s.plan = t.plan /\ s.known = t.known /\ s.todo = t.todo
    BY <1>2, <1>7, <2>1 DEF Tasks, Steps
  <2>3. TaskOK(s)
    BY <1>2, <1>3, <2>2 DEF TaskOK, Placed, Traced, Guarded, Planned
  <2>4. Set(p, s)
    BY <1>1, <1>4, <1>6, <1>10, <2>1 DEF Count
  <2> QED BY <1>2, <2>2, <2>3, <2>4, QuietKeeps
<1> QED BY <1>8, <1>9, <1>10

(* An update names a case that exists. *)
LEMMA UpdateStartsKeeps ==
  ASSUME StoreInv, NEW p \in Replicas, NEW c \in Cases, NEW status \in CaseStatuses \cup {"UNSET"},
         NEW supergroup \in Supergroups \cup {NoSG}, UpdateStarts(p, c, status, supergroup)
  PROVE  StoreInv'
<1>1. PICK t : t = [Idle EXCEPT !.job = "update", !.step = "counted", !.case = c,
                                !.status = status, !.supergroup = supergroup]
  OBVIOUS
<1>2. t \in Tasks /\ t.job = "update" /\ t.step = "counted" /\ t.case = c /\ t.plan = {} /\ t.known = {}
  BY <1>1, IdleFits DEF Tasks, Jobs, Steps, Idle
<1>3. Opened(c)
  BY DEF UpdateStarts, StoreInv, StoreFits, CasesOpened, Live
<1>4. TaskOK(t)
  BY <1>2, <1>3 DEF TaskOK, Placed, Traced, Guarded, Planned
<1>5. Set(p, t) /\ UNCHANGED <<cases, keys, records, history, overtaken, contested, faults>>
  BY <1>1 DEF UpdateStarts
<1>6. updates' \in 0..MaxUpdates /\ faults \in 0..MaxFaults
  BY CaseStoreAssumption DEF UpdateStarts, StoreInv, TablesOK
<1> QED BY <1>2, <1>4, <1>5, <1>6, QuietKeeps

(* What Check lets pass is open, and the supergroup it read is recorded. *)
LEMMA CheckKeeps ==
  ASSUME StoreInv, NEW p \in Replicas, Check(p)
  PROVE  StoreInv'
<1>1. PICK t : t = task[p]
  OBVIOUS
<1>2. /\ t \in Tasks /\ TaskOK(t) /\ t.step = "counted"
      /\ UNCHANGED <<cases, keys, records, history, overtaken, contested, updates, faults>>
      /\ updates \in 0..MaxUpdates /\ faults \in 0..MaxFaults
  BY <1>1 DEF Check, StoreInv, TablesOK, TasksFit
<1>3. PICK row : row = cases[t.case]
  OBVIOUS
<1>4. CASE ~row.exists \/ CloseBlocked(t, row)
  <2>1. Set(p, Idle)
    BY <1>1, <1>3, <1>4 DEF Check, Abort
  <2> QED BY <1>2, <2>1, IdleFits, QuietKeeps
<1>5. CASE row.exists /\ ~CloseBlocked(t, row)
  <2>1. PICK s : s = [t EXCEPT !.step = "checked", !.seen = row.supergroup]
    OBVIOUS
  <2>2. t.case \in Cases
    BY <1>2 DEF TaskOK, Placed
  <2>3. row.supergroup \in history[t.case] \cup {NoSG} /\ row.supergroup \in Supergroups \cup {NoSG}
    BY <1>3, <1>5, <2>2 DEF StoreInv, StoreFits, SupergroupIsAudited, Live, TablesOK, CaseRows
  <2>4. /\ s \in Tasks /\ s.step = "checked" /\ s.job = t.job /\ s.case = t.case /\ s.event = t.event
        /\ s.seen = row.supergroup /\ s.plan = t.plan /\ s.known = t.known /\ s.todo = t.todo
        /\ s.status = t.status /\ s.supergroup = t.supergroup
    BY <1>2, <2>1, <2>3 DEF Tasks, Steps
  <2>5. ~CloseBlocked(s, row)
    BY <1>5, <2>4 DEF CloseBlocked
  <2>6. Placed(s) /\ Planned(s)
    BY <1>2, <2>4 DEF TaskOK, Placed, Planned
  <2>7. Traced(s) /\ Guarded(s)
    BY <1>2, <1>3, <2>3, <2>4, <2>5 DEF TaskOK, Traced, Guarded
  <2>8. Set(p, s)
    BY <1>1, <1>3, <1>5, <2>1 DEF Check
  <2> QED BY <1>2, <2>4, <2>6, <2>7, <2>8, QuietKeeps DEF TaskOK
<1> QED BY <1>4, <1>5

(* Two live cases of one PO are a plan, and a contested PO. *)
LEMMA MergeStartsKeeps ==
  ASSUME StoreInv, NEW p \in Replicas, MergeStarts(p)
  PROVE  StoreInv'
<1>1. PICK plan : plan = MergePlan
  OBVIOUS
<1>2. plan \subseteq Cases \X Cases
  BY <1>1 DEF MergePlan, Live
<1>3. \A pair \in plan : /\ pair[1] \in Live /\ pair[2] \in Live /\ pair[1] # pair[2]
                         /\ cases[pair[1]].po = cases[pair[2]].po
  BY <1>1 DEF MergePlan, Absorbs
<1>4. PICK t : t = [Idle EXCEPT !.job = "merge", !.plan = plan]
  OBVIOUS
<1>5. /\ t \in Tasks /\ t.job = "merge" /\ t.step = "start" /\ t.case = NoCase
      /\ t.plan = plan /\ t.known = {}
  BY <1>2, <1>4, IdleFits DEF Tasks, Jobs, Steps, Idle
<1>6. Planned(t)
  BY <1>3, <1>5 DEF Planned, StoreInv, StoreFits, CasesOpened, OneCasePerPO
<1>7. TaskOK(t)
  BY <1>5, <1>6, CaseStoreAssumption DEF TaskOK, Placed, Traced, Guarded
<1>8. Set(p, t) /\ UNCHANGED <<cases, keys, records, history, overtaken, contested, faults>>
  BY <1>1, <1>4 DEF MergeStarts
<1>9. updates' \in 0..MaxUpdates /\ faults \in 0..MaxFaults
  BY CaseStoreAssumption DEF MergeStarts, StoreInv, TablesOK
<1> QED BY <1>5, <1>7, <1>8, <1>9, QuietKeeps

(* The merge lists the children of the case it absorbs. *)
LEMMA MergeListsKeeps ==
  ASSUME StoreInv, NEW p \in Replicas, NEW pair \in Cases \X Cases, MergeLists(p, pair)
  PROVE  StoreInv'
<1>1. PICK t : t = task[p]
  OBVIOUS
<1>2. /\ t \in Tasks /\ TaskOK(t) /\ t.job = "merge" /\ pair \in t.plan
      /\ UNCHANGED <<cases, keys, records, history, overtaken, contested, updates, faults>>
      /\ updates \in 0..MaxUpdates /\ faults \in 0..MaxFaults
  BY <1>1 DEF MergeLists, StoreInv, TablesOK, TasksFit
<1>3. PICK children : children = Children(pair[2])
  OBVIOUS
<1>4. children \subseteq Events /\ pair[1] \in Cases /\ pair[2] \in Cases /\ pair = <<pair[1], pair[2]>>
  BY <1>3 DEF Children, Stored
<1>5. PICK s : s = [t EXCEPT !.step = "listed", !.case = pair[2], !.todo = children]
  OBVIOUS
<1>6. /\ s \in Tasks /\ s.step = "listed" /\ s.job = "merge" /\ s.case = pair[2]
      /\ s.plan = t.plan /\ s.known = t.known
  BY <1>2, <1>4, <1>5 DEF Tasks, Steps
<1>7. Placed(s)
  BY <1>2, <1>4, <1>6 DEF TaskOK, Placed
<1>8. Traced(s) /\ Guarded(s) /\ Planned(s)
  BY <1>2, <1>4, <1>6 DEF TaskOK, Traced, Guarded, Planned
<1>9. Set(p, s)
  BY <1>1, <1>3, <1>5 DEF MergeLists
<1> QED BY <1>2, <1>6, <1>7, <1>8, <1>9, QuietKeeps DEF TaskOK

(* A crash ends the activity; what it wrote stays. *)
LEMMA CrashKeeps ==
  ASSUME StoreInv, NEW p \in Replicas, Crash(p)
  PROVE  StoreInv'
<1>1. Set(p, Idle) /\ UNCHANGED <<cases, keys, records, history, overtaken, contested, updates>>
  BY DEF Crash
<1>2. faults' \in 0..MaxFaults /\ updates \in 0..MaxUpdates
  BY CaseStoreAssumption DEF Crash, StoreInv, TablesOK
<1> QED BY <1>1, <1>2, IdleFits, QuietKeeps

-----------------------------------------------------------------------------
(* The steps that write.                                                   *)

(* A registration moves keys to a case and drops none. *)
LEMMA RegisterMoves ==
  ASSUME TablesOK, NEW e \in Events, NEW c \in Cases
  PROVE  /\ Register(e, c) \in [Keys -> Cases \cup {NoCase}]
         /\ \A k \in Keys : Register(e, c)[k] = IF k \in KeysOf[e] THEN c ELSE keys[k]
         /\ \A k \in Keys : Register(e, c)[k] \in {c, keys[k]}
         /\ \A k \in Keys : keys[k] # NoCase => Register(e, c)[k] # NoCase
BY CaseStoreAssumption DEF Register, TablesOK

(* An activity that found, or missed, its case has its event. *)
LEMMA FoundEvent ==
  ASSUME NEW t \in Tasks, Placed(t), t.step = "found"
  PROVE  t.event \in Events /\ t.known = {} /\ t.job \in {"intake", "backfill"}
BY CaseStoreAssumption DEF Placed, Tasks, Jobs

(* An attach makes the record a child of the case it found. *)
LEMMA AttachKeeps ==
  ASSUME StoreInv, NEW p \in Replicas, Attach(p)
  PROVE  StoreInv'
<1>1. PICK t : t = task[p]
  OBVIOUS
<1>2. /\ t \in Tasks /\ TaskOK(t) /\ t.step = "found" /\ t.case \in Cases
      /\ UNCHANGED <<cases, records, history, overtaken, contested, updates, faults>>
      /\ updates \in 0..MaxUpdates /\ faults \in 0..MaxFaults
  BY <1>1 DEF Attach, StoreInv, TablesOK, TasksFit, Tasks
<1>3. PICK c, e : c = t.case /\ e = t.event
  OBVIOUS
<1>4. c \in Cases /\ e \in Events
  BY <1>2, <1>3, FoundEvent DEF TaskOK
<1>5. CASE ~cases[c].exists
  <2>1. Set(p, Idle) /\ UNCHANGED keys
    BY <1>1, <1>3, <1>5 DEF Attach, Abort
  <2> QED BY <1>2, <2>1, IdleFits, QuietKeeps
<1>6. CASE cases[c].exists
  <2>1. PICK s : s = [t EXCEPT !.step = "attached", !.supergroup = cases[c].supergroup]
    OBVIOUS
  <2>2. keys' = Register(e, c) /\ Set(p, s)
    BY <1>1, <1>3, <1>6, <2>1 DEF Attach
  <2>3. cases[c].supergroup \in history[c] \cup {NoSG} /\ cases[c].supergroup \in Supergroups \cup {NoSG}
    BY <1>4, <1>6 DEF StoreInv, StoreFits, SupergroupIsAudited, Live, TablesOK, CaseRows
  <2>4. /\ s \in Tasks /\ s.step = "attached" /\ s.job = t.job /\ s.case = c /\ s.event = e
        /\ s.supergroup = cases[c].supergroup /\ s.plan = t.plan /\ s.known = t.known /\ s.todo = t.todo
    BY <1>2, <1>3, <2>1, <2>3 DEF Tasks, Steps
  <2>5. Placed(s)'
    BY <1>2, <1>3, <1>4, <2>4 DEF TaskOK, Placed
  <2>6. Traced(s)' /\ Guarded(s)' /\ Planned(s)'
    BY <1>2, <1>3, <2>3, <2>4 DEF TaskOK, Traced, Guarded, Planned, Opened
  <2>7. TasksFit' /\ task' \in [Replicas -> Tasks]
    BY <1>2, <2>2, <2>4, <2>5, <2>6, TasksKeep DEF StoreInv, TaskOK, Opened, Live
  <2>8. /\ keys' \in [Keys -> Cases \cup {NoCase}]
        /\ \A k \in Keys : keys'[k] \in {c, keys[k]} /\ (keys[k] # NoCase => keys'[k] # NoCase)
    BY <1>4, <2>2, RegisterMoves DEF StoreInv
  <2>9. TablesOK'
    BY <1>2, <2>7, <2>8 DEF StoreInv, TablesOK
  <2>10. CasesOpened' /\ PosRegistered' /\ LegacyApart' /\ ReferencesHold'
    BY <1>2, <1>6, <2>8
       DEF StoreInv, StoreFits, CasesOpened, PosRegistered, LegacyApart, ReferencesHold, Live, Stored, Opened
  <2>11. OneCasePerPO' /\ SupergroupIsAudited' /\ RecordFollowsCase' /\ TriageStaysOpen'
    BY <1>2 DEF StoreInv, StoreFits, OneCasePerPO, SupergroupIsAudited, RecordFollowsCase,
                TriageStaysOpen, Live, Stored
  <2> QED BY <2>7, <2>9, <2>10, <2>11 DEF StoreInv, StoreFits
<1> QED BY <1>5, <1>6

(* A new case takes a fresh identifier.  If its PO has a case already, the *)
(* PO had a key that the lookup before did not see, or was contested.      *)
LEMMA OpenKeeps ==
  ASSUME StoreInv, NEW p \in Replicas, Open(p)
  PROVE  StoreInv'
<1>1. PICK t : t = task[p]
  OBVIOUS
<1>2. /\ t \in Tasks /\ TaskOK(t) /\ t.step = "found"
      /\ UNCHANGED <<records, overtaken, updates, faults>>
  BY <1>1 DEF Open, StoreInv, TablesOK, TasksFit
<1>3. PICK c, e : c = (CHOOSE d \in Cases : cases[d].opened = 0) /\ e = t.event
  OBVIOUS
<1>4. c \in Cases /\ cases[c].opened = 0 /\ e \in Events /\ t.known = {}
      /\ t.job \in {"intake", "backfill"}
  BY <1>2, <1>3, FoundEvent DEF Open, TaskOK
<1>5. ~Opened(c) /\ c \notin Live /\ PoOf[e] \in KeysOf[e] /\ PoOf[e] \in Keys /\ KeysOf[e] \subseteq Keys
  BY <1>4, CaseStoreAssumption DEF Opened, StoreInv, StoreFits, CasesOpened, Live
<1>6. PICK n : n = Cardinality({d \in Cases : cases[d].opened > 0})
  OBVIOUS
<1>7. n \in Nat
  BY <1>6, CaseStoreAssumption, FS_Subset, FS_CardinalityType
<1>8. PICK row : row = [exists |-> TRUE, po |-> PoOf[e], supergroup |-> t.supergroup,
                        status |-> "OPEN_AGENT_PROCESSING", opened |-> 1 + n]
  OBVIOUS
<1>9. /\ row \in CaseRows /\ row.exists /\ row.po = PoOf[e] /\ row.supergroup = t.supergroup
      /\ row.status = "OPEN_AGENT_PROCESSING" /\ row.opened > 0
      /\ t.supergroup \in Supergroups \cup {NoSG}
  BY <1>2, <1>5, <1>7, <1>8 DEF CaseRows, CaseStatuses, Tasks
<1>10. PICK s : s = [t EXCEPT !.step = "attached", !.case = c, !.known = {}]
  OBVIOUS
<1>11. /\ s \in Tasks /\ s.step = "attached" /\ s.job = t.job /\ s.case = c /\ s.event = e
       /\ s.supergroup = t.supergroup /\ s.plan = t.plan /\ s.known = {} /\ s.todo = t.todo
  BY <1>2, <1>3, <1>4, <1>10 DEF Tasks, Steps
<1>12. /\ cases' = [cases EXCEPT ![c] = row] /\ keys' = Register(e, c)
       /\ history' = [history EXCEPT ![c] = @ \cup IntakeAudit(t.supergroup)]
       /\ contested' = contested \cup {k \in KeysOf[e] : keys[k] # NoCase}
       /\ Set(p, s)
  BY <1>1, <1>3, <1>4, <1>6, <1>8, <1>10 DEF Open
<1>13. /\ cases' \in [Cases -> CaseRows] /\ cases'[c] = row /\ \A d \in Cases \ {c} : cases'[d] = cases[d]
       /\ history' \in [Cases -> SUBSET Supergroups]
       /\ \A d \in Cases : history[d] \subseteq history'[d]
       /\ t.supergroup \in history'[c] \cup {NoSG}
       /\ contested \subseteq contested' /\ contested' \subseteq Keys
  BY <1>4, <1>5, <1>9, <1>12 DEF StoreInv, TablesOK, IntakeAudit
<1>14. /\ keys' \in [Keys -> Cases \cup {NoCase}] /\ keys'[PoOf[e]] = c
       /\ \A k \in Keys : keys'[k] \in {c, keys[k]} /\ (keys[k] # NoCase => keys'[k] # NoCase)
  BY <1>4, <1>5, <1>12, RegisterMoves DEF StoreInv
<1>15. \A d \in Cases : Opened(d) => d # c /\ Opened(d)' /\ cases'[d].po = cases[d].po
  BY <1>5, <1>13 DEF Opened
<1>16. Live' = Live \cup {c} /\ c \notin Live /\ Opened(c)'
  BY <1>4, <1>5, <1>9, <1>13 DEF Live, Opened
<1>17. TaskOK(s)'
  <2>1. Placed(s)'
    BY <1>2, <1>3, <1>4, <1>11 DEF TaskOK, Placed
  <2>2. Traced(s)' /\ Guarded(s)'
    BY <1>11, <1>13, <1>16 DEF Traced, Guarded
  <2>3. Planned(s)'
    BY <1>2, <1>11, <1>13, <1>15 DEF TaskOK, Planned, Tasks
  <2> QED BY <2>1, <2>2, <2>3 DEF TaskOK
<1>18. ASSUME NEW q \in Replicas, task[q].step = "checked", task[q].case \in (Live \ overtaken)'
       PROVE  task[q].case \in Live \ overtaken /\ cases'[task[q].case] = cases[task[q].case]
  <2>1. task[q] \in Tasks /\ TaskOK(task[q])
    BY DEF StoreInv, TablesOK, TasksFit
  <2>2. task[q].case \in Cases /\ Opened(task[q].case)
    BY <1>18, <2>1 DEF TaskOK, Placed, Traced
  <2> QED BY <1>2, <1>13, <1>15, <1>16, <1>18, <2>2
<1>19. TasksFit' /\ task' \in [Replicas -> Tasks]
  BY <1>11, <1>12, <1>13, <1>15, <1>17, <1>18, TasksKeep DEF StoreInv
<1>20. TablesOK'
  BY <1>2, <1>13, <1>14, <1>19 DEF StoreInv, TablesOK
<1>21. \A d \in Live : d # c /\ cases'[d] = cases[d] /\ d \in Cases
  BY <1>13, <1>16 DEF Live
<1>22. CasesOpened'
  BY <1>5, <1>9, <1>13, <1>16, <1>21 DEF CasesOpened, Opened, StoreInv, StoreFits
<1>23. PosRegistered'
  BY <1>4, <1>9, <1>13, <1>14, <1>16, <1>21, CaseStoreAssumption
     DEF PosRegistered, CasesOpened, StoreInv, StoreFits
<1>24. LegacyApart' /\ ReferencesHold'
  <2>1. \A d \in Cases : cases[d].exists => cases'[d].exists
    BY <1>9, <1>13
  <2>2. \A k \in Keys : keys'[k] # NoCase => cases'[keys'[k]].exists
    BY <1>9, <1>13, <1>14, <2>1 DEF ReferencesHold, StoreInv, StoreFits, TablesOK
  <2>3. \A f \in Stored : records[f].parent # NoCase => cases'[records[f].parent].exists
    BY <2>1 DEF ReferencesHold, StoreInv, StoreFits, TablesOK, RecordRows, Stored
  <2>4. Stored' = Stored
    BY <1>2 DEF Stored
  <2> QED BY <1>2, <2>2, <2>3, <2>4 DEF LegacyApart, ReferencesHold, StoreInv, StoreFits
<1>25. \A d \in Live : cases[d].po = PoOf[e] => PoOf[e] \in contested'
  BY <1>5, <1>12 DEF StoreInv, StoreFits, PosRegistered
<1>26. OneCasePerPO'
  BY <1>9, <1>13, <1>16, <1>21, <1>25 DEF OneCasePerPO, StoreInv, StoreFits
<1>27. SupergroupIsAudited' /\ TriageStaysOpen'
  BY <1>2, <1>9, <1>13, <1>16, <1>21 DEF SupergroupIsAudited, TriageStaysOpen, StoreInv, StoreFits
<1>28. RecordFollowsCase'
  <2>1. \A f \in Stored : records[f].parent # NoCase => records[f].parent \in Live
    BY DEF ReferencesHold, StoreInv, StoreFits, Live, Stored, TablesOK, RecordRows
  <2>2. Stored' = Stored
    BY <1>2 DEF Stored
  <2> QED BY <1>2, <1>13, <1>21, <2>1, <2>2 DEF RecordFollowsCase, StoreInv, StoreFits
<1> QED BY <1>19, <1>20, <1>22, <1>23, <1>24, <1>26, <1>27, <1>28 DEF StoreInv, StoreFits

(* An update writes what it checked, and records a supergroup that is not  *)
(* the one it read; another update of the case is overtaken by it.         *)
LEMMA WriteKeeps ==
  ASSUME StoreInv, NEW p \in Replicas, Write(p)
  PROVE  StoreInv'
<1>1. PICK t : t = task[p]
  OBVIOUS
<1>2. /\ t \in Tasks /\ TaskOK(t) /\ t.step = "checked"
      /\ UNCHANGED <<keys, records, contested, updates, faults>>
      /\ updates \in 0..MaxUpdates /\ faults \in 0..MaxFaults
  BY <1>1 DEF Write, StoreInv, TablesOK, TasksFit
<1>3. PICK c, old : c = t.case /\ old = cases[t.case]
  OBVIOUS
<1>4. c \in Cases /\ old \in CaseRows /\ old = cases[c]
  BY <1>2, <1>3 DEF TaskOK, Placed, StoreInv, TablesOK
<1>5. CASE ~old.exists
  <2>1. Set(p, Idle) /\ UNCHANGED <<cases, history, overtaken>>
    BY <1>1, <1>3, <1>5 DEF Write, Abort
  <2> QED BY <1>2, <2>1, IdleFits, QuietKeeps
<1>6. CASE old.exists
  <2>1. PICK new : new = [old EXCEPT !.status = IF t.status = "UNSET" THEN @ ELSE t.status,
                                     !.supergroup = IF t.supergroup = NoSG THEN @ ELSE t.supergroup]
    OBVIOUS
  <2>2. /\ new \in CaseRows /\ new.exists /\ new.po = old.po /\ new.opened = old.opened
        /\ new.status = (IF t.status = "UNSET" THEN old.status ELSE t.status)
        /\ new.supergroup = (IF t.supergroup = NoSG THEN old.supergroup ELSE t.supergroup)
    BY <1>2, <1>4, <1>6, <2>1 DEF CaseRows, Tasks
  <2>3. PICK audit : audit = IF t.supergroup \in {NoSG, t.seen} THEN {}
                             ELSE ReclassificationAudit(c, t.supergroup)
    OBVIOUS
  <2>4. PICK s : s = IF t.job = "update" THEN Idle
                     ELSE [t EXCEPT !.step = "rolled", !.status = "UNSET",
                                    !.supergroup = new.supergroup, !.seen = NoSG]
    OBVIOUS
  <2>5. /\ cases' = [cases EXCEPT ![c] = new]
        /\ history' = [history EXCEPT ![c] = @ \cup audit]
        /\ overtaken' = IF \E q \in Replicas \ {p} : task[q].step = "checked" /\ task[q].case = c
                        THEN overtaken \cup {c} ELSE overtaken
        /\ Set(p, s)
    BY <1>1, <1>3, <1>6, <2>1, <2>3, <2>4 DEF Write
  <2>6. audit \subseteq Supergroups /\ (t.supergroup \in audit \cup {NoSG, t.seen})
    BY <1>2, <2>3 DEF ReclassificationAudit, Tasks
  <2>7. /\ cases' \in [Cases -> CaseRows] /\ cases'[c] = new /\ \A d \in Cases \ {c} : cases'[d] = cases[d]
        /\ history' \in [Cases -> SUBSET Supergroups] /\ history'[c] = history[c] \cup audit
        /\ \A d \in Cases : history[d] \subseteq history'[d]
        /\ overtaken \subseteq overtaken' /\ overtaken' \subseteq Cases
    BY <1>4, <2>2, <2>5, <2>6 DEF StoreInv, TablesOK
  <2>8. Live' = Live /\ c \in Live
    BY <1>4, <1>6, <2>2, <2>7 DEF Live
  <2>9. \A d \in Cases : (Opened(d) <=> Opened(d)') /\ cases'[d].po = cases[d].po
                         /\ (cases'[d].exists <=> cases[d].exists)
    BY <1>4, <1>6, <2>2, <2>7 DEF Opened
  <2>10. new.supergroup \in history'[c] \cup {NoSG}
    BY <1>2, <1>3, <1>4, <2>2, <2>6, <2>7, <2>8
       DEF TaskOK, Traced, StoreInv, StoreFits, SupergroupIsAudited
  <2>11. s \in Tasks /\ TaskOK(s)'
    <3>1. CASE t.job = "update"
      <4>1. TaskOK(Idle)'
        BY IdleFits
      <4> QED BY <2>4, <3>1, <4>1, IdleFits
    <3>2. CASE t.job # "update"
      <4>1. t.job = "intake"
        BY <1>2, <3>2 DEF TaskOK, Placed, Tasks, Jobs
      <4>2. s = [t EXCEPT !.step = "rolled", !.status = "UNSET",
                          !.supergroup = new.supergroup, !.seen = NoSG]
        BY <2>4, <3>2
      <4>3. /\ s \in Tasks /\ s.step = "rolled" /\ s.job = t.job /\ s.case = c /\ s.event = t.event
            /\ s.supergroup = new.supergroup /\ s.plan = t.plan /\ s.known = t.known /\ s.todo = t.todo
        BY <1>2, <1>3, <2>2, <4>2 DEF Tasks, Steps, CaseRows
      <4>4. Placed(s)'
        BY <1>2, <1>4, <4>1, <4>3 DEF TaskOK, Placed
      <4>5. Traced(s)' /\ Guarded(s)'
        BY <1>2, <1>3, <2>9, <2>10, <4>3 DEF TaskOK, Traced, Guarded
      <4>6. Planned(s)'
        BY <1>2, <2>9, <4>3 DEF TaskOK, Planned, Tasks
      <4> QED BY <4>3, <4>4, <4>5, <4>6 DEF TaskOK
    <3> QED BY <3>1, <3>2
  <2>12. ASSUME NEW q \in Replicas \ {p}, task[q].step = "checked", task[q].case \in (Live \ overtaken)'
         PROVE  task[q].case \in Live \ overtaken /\ cases'[task[q].case] = cases[task[q].case]
    <3>1. task[q].case # c
      BY <2>5, <2>12
    <3> QED BY <2>7, <2>8, <2>12, <3>1 DEF Live
  <2>13. TasksFit' /\ task' \in [Replicas -> Tasks]
    BY <1>2, <2>5, <2>7, <2>9, <2>11, <2>12, TasksKeep DEF StoreInv
  <2>14. TablesOK'
    BY <1>2, <2>7, <2>13 DEF StoreInv, TablesOK
  <2>15. CasesOpened' /\ PosRegistered' /\ OneCasePerPO'
    BY <1>2, <2>8, <2>9 DEF CasesOpened, PosRegistered, OneCasePerPO, StoreInv, StoreFits, Live
  <2>16. Stored' = Stored
    BY <1>2 DEF Stored
  <2>17. \A f \in Stored : records[f].parent # NoCase => records[f].parent \in Cases
    BY DEF Stored, StoreInv, TablesOK, RecordRows
  <2>18. LegacyApart' /\ ReferencesHold'
    BY <1>2, <2>9, <2>16, <2>17 DEF LegacyApart, ReferencesHold, StoreInv, StoreFits, TablesOK
  <2>19. SupergroupIsAudited'
    BY <2>7, <2>8, <2>10 DEF SupergroupIsAudited, StoreInv, StoreFits, Live
  <2>20. RecordFollowsCase'
    BY <1>2, <2>7, <2>9, <2>16, <2>17 DEF RecordFollowsCase, StoreInv, StoreFits
  <2>21. TriageStaysOpen'
    <3>1. c \notin overtaken => ~CloseBlocked(t, old)
      BY <1>2, <1>3, <2>8 DEF TaskOK, Guarded
    <3>2. c \notin overtaken => ~(new.supergroup = Triage /\ new.status = "RESOLVED")
      BY <2>2, <3>1 DEF CloseBlocked
    <3> QED BY <2>7, <2>8, <3>2 DEF TriageStaysOpen, StoreInv, StoreFits, Live
  <2> QED BY <2>13, <2>14, <2>15, <2>18, <2>19, <2>20, <2>21 DEF StoreInv, StoreFits
<1> QED BY <1>5, <1>6

(* A record carries the supergroup its case had when the activity read it; *)
(* the foreign key and the inheritance trigger may refuse it.              *)
LEMMA StoreKeeps ==
  ASSUME StoreInv, NEW p \in Replicas, Store(p)
  PROVE  StoreInv'
<1>1. PICK t : t = task[p]
  OBVIOUS
<1>2. /\ t \in Tasks /\ TaskOK(t) /\ t.job = "intake" /\ t.step = "rolled" /\ Set(p, Idle)
      /\ UNCHANGED <<cases, keys, history, overtaken, contested, updates, faults>>
      /\ updates \in 0..MaxUpdates /\ faults \in 0..MaxFaults
  BY <1>1 DEF Store, StoreInv, TablesOK, TasksFit
<1>3. PICK c, e, sg : c = t.case /\ e = t.event /\ sg = t.supergroup
  OBVIOUS
<1>4. /\ c \in Cases /\ e \in Events \ Legacy /\ sg \in Supergroups \cup {NoSG}
      /\ sg \in history[c] \cup {NoSG}
  BY <1>2, <1>3 DEF TaskOK, Placed, Traced, Tasks
<1>5. CASE ~(cases[c].exists /\ Inherits(sg, c))
  <2>1. UNCHANGED records
    BY <1>1, <1>3, <1>5 DEF Store, RecordSupergroup
  <2> QED BY <1>2, <2>1, IdleFits, QuietKeeps
<1>6. CASE cases[c].exists /\ Inherits(sg, c)
  <2>1. PICK r : r = [stored |-> TRUE, parent |-> c, supergroup |-> sg]
    OBVIOUS
  <2>2. r \in RecordRows /\ r.stored /\ r.parent = c /\ r.supergroup = sg
    BY <1>4, <2>1 DEF RecordRows
  <2>3. records' = [records EXCEPT ![e] = r]
    BY <1>1, <1>3, <1>6, <2>1 DEF Store, RecordSupergroup
  <2>4. records' \in [Events -> RecordRows] /\ records'[e] = r
        /\ \A f \in Events \ {e} : records'[f] = records[f]
    BY <1>4, <2>2, <2>3 DEF StoreInv, TablesOK
  <2>5. TaskOK(Idle)'
    BY IdleFits
  <2>6. TasksFit' /\ task' \in [Replicas -> Tasks]
    BY <1>2, <2>5, IdleFits, TasksKeep DEF StoreInv, Opened, Live
  <2>7. TablesOK'
    BY <1>2, <2>4, <2>6 DEF StoreInv, TablesOK
  <2>8. Stored' = Stored \cup {e}
    BY <1>4, <2>2, <2>4 DEF Stored
  <2>9. CasesOpened' /\ PosRegistered' /\ OneCasePerPO' /\ SupergroupIsAudited' /\ TriageStaysOpen'
    BY <1>2 DEF CasesOpened, PosRegistered, OneCasePerPO, SupergroupIsAudited, TriageStaysOpen,
                StoreInv, StoreFits, Live, Opened
  <2>10. LegacyApart'
    BY <1>4, <2>2, <2>4, <2>8, CaseStoreAssumption DEF LegacyApart, StoreInv, StoreFits, Stored
  <2>11. ReferencesHold'
    BY <1>2, <1>6, <2>2, <2>4, <2>8 DEF ReferencesHold, StoreInv, StoreFits, Stored
  <2>12. RecordFollowsCase'
    BY <1>2, <1>4, <2>2, <2>4, <2>8 DEF RecordFollowsCase, StoreInv, StoreFits, Stored
  <2> QED BY <2>6, <2>7, <2>9, <2>10, <2>11, <2>12 DEF StoreInv, StoreFits
<1> QED BY <1>5, <1>6

(* A record that moves to a live case leaves everything else as it was, if *)
(* it has no supergroup or the case's PO is contested.                     *)
LEMMA MoveKeeps ==
  ASSUME StoreInv, NEW p \in Replicas, NEW t \in Tasks, TaskOK(t), Set(p, t),
         NEW e \in Events, NEW c \in Cases, cases[c].exists,
         e \in Legacy \/ cases[c].po \in contested,
         records' = [records EXCEPT ![e].parent = c],
         UNCHANGED <<cases, keys, history, overtaken, contested, updates, faults>>
  PROVE  StoreInv'
<1>1. /\ records' \in [Events -> RecordRows] /\ records'[e].parent = c
      /\ records'[e].supergroup = records[e].supergroup /\ (records'[e].stored <=> records[e].stored)
      /\ \A f \in Events \ {e} : records'[f] = records[f]
  BY DEF StoreInv, TablesOK, RecordRows
<1>2. TaskOK(t)'
  BY DEF TaskOK, Placed, Traced, Guarded, Planned, Opened, Live, CloseBlocked
<1>3. TasksFit' /\ task' \in [Replicas -> Tasks]
  BY <1>2, TasksKeep DEF StoreInv, Opened, Live
<1>4. TablesOK'
  BY <1>1, <1>3 DEF StoreInv, TablesOK
<1>5. Stored' = Stored
  BY <1>1 DEF Stored
<1>6. CasesOpened' /\ PosRegistered' /\ OneCasePerPO' /\ SupergroupIsAudited' /\ TriageStaysOpen'
  BY DEF CasesOpened, PosRegistered, OneCasePerPO, SupergroupIsAudited, TriageStaysOpen,
         StoreInv, StoreFits, Live, Opened
<1>7. LegacyApart'
  BY <1>1, <1>5, CaseStoreAssumption DEF LegacyApart, StoreInv, StoreFits, Stored
<1>8. ReferencesHold'
  BY <1>1, <1>5 DEF ReferencesHold, StoreInv, StoreFits, Stored
<1>9. RecordFollowsCase'
  <2>1. ASSUME NEW f \in Stored, records'[f].supergroup # NoSG, records'[f].parent # NoCase
        PROVE  \/ records'[f].supergroup \in history[records'[f].parent]
               \/ cases[records'[f].parent].po \in contested
    <3>1. CASE f = e
      BY <1>1, <2>1, <3>1 DEF LegacyApart, StoreInv, StoreFits
    <3>2. CASE f # e
      BY <1>1, <2>1, <3>2 DEF RecordFollowsCase, StoreInv, StoreFits, Stored
    <3> QED BY <3>1, <3>2
  <2> QED BY <1>5, <2>1 DEF RecordFollowsCase
<1> QED BY <1>3, <1>4, <1>6, <1>7, <1>8, <1>9 DEF StoreInv, StoreFits

(* The backfill attaches legacy records, which have no supergroup. *)
LEMMA LinkKeeps ==
  ASSUME StoreInv, NEW p \in Replicas, Link(p)
  PROVE  StoreInv'
<1>1. PICK t : t = task[p]
  OBVIOUS
<1>2. /\ t \in Tasks /\ TaskOK(t) /\ t.job = "backfill" /\ t.step = "attached"
      /\ UNCHANGED <<cases, keys, history, overtaken, contested, updates, faults>>
      /\ updates \in 0..MaxUpdates /\ faults \in 0..MaxFaults
  BY <1>1 DEF Link, StoreInv, TablesOK, TasksFit
<1>3. t.case \in Cases /\ t.event \in Legacy /\ t.event \in Events /\ t.todo \subseteq Legacy
      /\ t.todo \subseteq Events
  BY <1>2, CaseStoreAssumption DEF TaskOK, Placed, Tasks, Jobs
<1>4. CASE ~cases[t.case].exists
  BY <1>1, <1>2, <1>4, IdleFits, QuietKeeps DEF Link, Abort
<1>5. CASE cases[t.case].exists
  <2>1. PICK u : u = [Idle EXCEPT !.job = "backfill", !.todo = t.todo]
    OBVIOUS
  <2>2. /\ u \in Tasks /\ u.job = "backfill" /\ u.step = "start" /\ u.case = NoCase /\ u.plan = {}
        /\ u.todo = t.todo /\ u.known = {}
    BY <1>3, <2>1, IdleFits DEF Tasks, Jobs, Idle
  <2>3. TaskOK(u)
    BY <1>3, <2>2, CaseStoreAssumption DEF TaskOK, Placed, Traced, Guarded, Planned
  <2>4. PICK s : s = IF t.todo = {} THEN Idle ELSE u
    OBVIOUS
  <2>5. s \in Tasks /\ TaskOK(s)
    BY <2>2, <2>3, <2>4, IdleFits
  <2>6. Set(p, s) /\ records' = [records EXCEPT ![t.event].parent = t.case]
    BY <1>1, <1>5, <2>1, <2>4 DEF Link
  <2> QED BY <1>2, <1>3, <1>5, <2>5, <2>6, MoveKeeps
<1> QED BY <1>4, <1>5

(* A merge moves records to a case of a contested PO. *)
LEMMA MergeMovesKeeps ==
  ASSUME StoreInv, NEW p \in Replicas, NEW e \in Events, MergeMoves(p, e)
  PROVE  StoreInv'
<1>1. PICK t : t = task[p]
  OBVIOUS
<1>2. /\ t \in Tasks /\ TaskOK(t) /\ t.step = "listed"
      /\ UNCHANGED <<cases, keys, history, overtaken, contested, updates, faults>>
      /\ updates \in 0..MaxUpdates /\ faults \in 0..MaxFaults
  BY <1>1 DEF MergeMoves, StoreInv, TablesOK, TasksFit
<1>3. PICK c : c = Primary(t)
  OBVIOUS
<1>4. c \in Cases /\ <<c, t.case>> \in t.plan
  BY <1>2, <1>3 DEF TaskOK, Placed, Primary
<1>5. cases[c].po \in contested
  BY <1>2, <1>4 DEF TaskOK, Planned
<1>6. CASE ~cases[c].exists
  BY <1>1, <1>2, <1>3, <1>6, IdleFits, QuietKeeps DEF MergeMoves, Abort
<1>7. CASE cases[c].exists
  <2>1. PICK s : s = [t EXCEPT !.todo = @ \ {e}]
    OBVIOUS
  <2>2. /\ s \in Tasks /\ s.step = t.step /\ s.job = t.job /\ s.case = t.case /\ s.event = t.event
        /\ s.supergroup = t.supergroup /\ s.plan = t.plan /\ s.known = t.known /\ s.todo = t.todo \ {e}
        /\ s.seen = t.seen /\ s.status = t.status
    BY <1>2, <2>1 DEF Tasks
  <2>3. TaskOK(s)
    BY <1>2, <2>2 DEF TaskOK, Placed, Traced, Guarded, Planned
  <2>4. Set(p, s) /\ records' = [records EXCEPT ![e].parent = c]
    BY <1>1, <1>3, <1>7, <2>1 DEF MergeMoves
  <2> QED BY <1>2, <1>4, <1>5, <1>7, <2>2, <2>3, <2>4, MoveKeeps
<1> QED BY <1>6, <1>7

(* A merge deletes a case nothing refers to; its keys become contested.    *)
LEMMA MergeDeletesKeeps ==
  ASSUME StoreInv, NEW p \in Replicas, MergeDeletes(p)
  PROVE  StoreInv'
<1>1. PICK t : t = task[p]
  OBVIOUS
<1>2. /\ t \in Tasks /\ TaskOK(t) /\ t.step = "listed"
      /\ UNCHANGED <<records, history, overtaken, updates, faults>>
      /\ updates \in 0..MaxUpdates /\ faults \in 0..MaxFaults
  BY <1>1 DEF MergeDeletes, StoreInv, TablesOK, TasksFit
<1>3. PICK c : c = t.case
  OBVIOUS
<1>4. c \in Cases
  BY <1>2, <1>3 DEF TaskOK, Placed
<1>5. CASE Referenced(c)
  <2>1. Set(p, Idle) /\ UNCHANGED <<cases, keys, contested>>
    BY <1>1, <1>3, <1>5 DEF MergeDeletes, Abort
  <2> QED BY <1>2, <2>1, IdleFits, QuietKeeps
<1>6. CASE ~Referenced(c)
  <2>1. PICK dropped, rest : dropped = {k \in Keys : keys[k] = c} /\ rest = {q \in t.plan : q[2] # c}
    OBVIOUS
  <2>2. PICK u : u = [Idle EXCEPT !.job = "merge", !.plan = rest]
    OBVIOUS
  <2>3. PICK s : s = IF rest = {} THEN Idle ELSE u
    OBVIOUS
  <2>4. /\ cases' = [cases EXCEPT ![c].exists = FALSE]
        /\ keys' = [k \in Keys |-> IF k \in dropped THEN NoCase ELSE keys[k]]
        /\ contested' = contested \cup dropped /\ Set(p, s)
    BY <1>1, <1>3, <1>6, <2>1, <2>2, <2>3 DEF MergeDeletes
  <2>5. /\ cases' \in [Cases -> CaseRows] /\ ~cases'[c].exists
        /\ \A d \in Cases \ {c} : cases'[d] = cases[d]
        /\ \A d \in Cases : cases'[d].po = cases[d].po /\ cases'[d].opened = cases[d].opened
    BY <1>4, <2>4 DEF StoreInv, TablesOK, CaseRows
  <2>6. Live' = Live \ {c} /\ \A d \in Cases : Opened(d)' <=> Opened(d)
    BY <1>4, <2>5 DEF Live, Opened
  <2>7. /\ keys' \in [Keys -> Cases \cup {NoCase}] /\ dropped \subseteq Keys
        /\ \A k \in Keys : keys'[k] = IF keys[k] = c THEN NoCase ELSE keys[k]
        /\ \A k \in Keys : keys[k] = c => k \in contested'
        /\ contested \subseteq contested' /\ contested' \subseteq Keys
    BY <2>1, <2>4 DEF StoreInv, TablesOK
  <2>8. rest \subseteq t.plan /\ t.plan \subseteq Cases \X Cases
    BY <1>2, <2>1 DEF Tasks
  <2>9. /\ u \in Tasks /\ u.job = "merge" /\ u.step = "start" /\ u.case = NoCase
        /\ u.plan = rest /\ u.known = {}
    BY <2>2, <2>8, IdleFits DEF Tasks, Jobs, Idle
  <2>10. Planned(u)'
    BY <1>2, <2>5, <2>6, <2>7, <2>8, <2>9 DEF TaskOK, Planned
  <2>11. TaskOK(u)'
    BY <2>9, <2>10, CaseStoreAssumption DEF TaskOK, Placed, Traced, Guarded
  <2>12. s \in Tasks /\ TaskOK(s)'
    BY <2>3, <2>9, <2>11, IdleFits
  <2>13. TasksFit' /\ task' \in [Replicas -> Tasks]
    BY <1>2, <2>4, <2>5, <2>6, <2>7, <2>12, TasksKeep DEF StoreInv, Live
  <2>14. TablesOK'
    BY <1>2, <2>5, <2>7, <2>13 DEF StoreInv, TablesOK
  <2>15. Stored' = Stored /\ \A f \in Stored : records[f].parent # c
    BY <1>2, <1>6 DEF Stored, Referenced, Children
  <2>16. \A f \in Stored : records[f].parent # NoCase => records[f].parent \in Cases
    BY DEF Stored, StoreInv, TablesOK, RecordRows
  <2>17. CasesOpened' /\ PosRegistered'
    BY <2>5, <2>6, <2>7 DEF CasesOpened, PosRegistered, StoreInv, StoreFits, Live
  <2>18. LegacyApart' /\ ReferencesHold'
    <3>1. \A k \in Keys : keys'[k] # NoCase => cases'[keys'[k]].exists
      BY <2>5, <2>7 DEF ReferencesHold, StoreInv, StoreFits, TablesOK
    <3>2. \A f \in Stored : records[f].parent # NoCase => cases'[records[f].parent].exists
      BY <2>5, <2>15, <2>16 DEF ReferencesHold, StoreInv, StoreFits
    <3> QED BY <1>2, <2>15, <3>1, <3>2 DEF LegacyApart, ReferencesHold, StoreInv, StoreFits
  <2>19. OneCasePerPO'
    BY <2>5, <2>6, <2>7 DEF OneCasePerPO, StoreInv, StoreFits, Live
  <2>20. SupergroupIsAudited' /\ TriageStaysOpen'
    BY <1>2, <2>5, <2>6 DEF SupergroupIsAudited, TriageStaysOpen, StoreInv, StoreFits, Live
  <2>21. RecordFollowsCase'
    BY <1>2, <2>5, <2>7, <2>15, <2>16 DEF RecordFollowsCase, StoreInv, StoreFits
  <2> QED BY <2>13, <2>14, <2>17, <2>18, <2>19, <2>20, <2>21 DEF StoreInv, StoreFits
<1> QED BY <1>5, <1>6

-----------------------------------------------------------------------------
(* The store begins without cases and with its legacy records. *)
LEMMA StoreInit == Init => StoreInv
<1> SUFFICES ASSUME Init PROVE StoreInv
  OBVIOUS
<1>1. NoRow \in CaseRows /\ ~NoRow.exists
  BY DEF NoRow, CaseRows, CaseStatuses
<1>2. \A e \in Events : records[e] = [stored |-> e \in Legacy, parent |-> NoCase, supergroup |-> NoSG]
  BY DEF Init
<1>3. /\ \A e \in Events : (records[e].stored <=> e \in Legacy) /\ records[e].parent = NoCase
                           /\ records[e].supergroup = NoSG
      /\ records \in [Events -> RecordRows]
  <2>1. \A e \in Events : (e \in Legacy) \in BOOLEAN
    OBVIOUS
  <2> QED BY <1>2, <2>1 DEF Init, RecordRows
<1>4. Live = {} /\ Stored \subseteq Legacy
  BY <1>1, <1>3 DEF Init, Live, Stored
<1>5. TablesOK
  BY <1>1, <1>3, IdleFits, CaseStoreAssumption DEF Init, TablesOK
<1>6. TasksFit
  BY IdleFits DEF Init, TasksFit
<1>7. StoreFits
  BY <1>3, <1>4, CaseStoreAssumption
     DEF Init, StoreFits, CasesOpened, PosRegistered, LegacyApart, ReferencesHold, OneCasePerPO,
         SupergroupIsAudited, RecordFollowsCase, TriageStaysOpen, Stored
<1> QED BY <1>5, <1>6, <1>7 DEF StoreInv

(* No transaction of any activity, in any order, breaks the invariant. *)
LEMMA StoreStepKeeps == StoreInv /\ [Next]_vars => StoreInv'
<1> SUFFICES ASSUME StoreInv, [Next]_vars PROVE StoreInv'
  OBVIOUS
<1>1. ASSUME NEW p \in Replicas, Intake(p) PROVE StoreInv'
  BY <1>1, IntakeFindsKeeps, AttachKeeps, OpenKeeps, CountKeeps, CheckKeeps, WriteKeeps, StoreKeeps DEF Intake
<1>2. ASSUME NEW p \in Replicas, Update(p) PROVE StoreInv'
  BY <1>2, UpdateStartsKeeps, CaseStoreAssumption DEF Update, CaseStatuses, StatusRank
<1>3. ASSUME NEW p \in Replicas, Backfill(p) PROVE StoreInv'
  BY <1>3, BackfillStartsKeeps, BackfillFindsKeeps, LinkKeeps DEF Backfill
<1>4. ASSUME NEW p \in Replicas, Merge(p) PROVE StoreInv'
  BY <1>4, MergeStartsKeeps, MergeListsKeeps, MergeMovesKeeps, MergeDeletesKeeps DEF Merge
<1>5. CASE UNCHANGED vars
  <2>1. TablesOK' /\ StoreFits'
    BY <1>5 DEF vars, StoreInv, TablesOK, StoreFits, CasesOpened, PosRegistered, LegacyApart, ReferencesHold,
       OneCasePerPO, SupergroupIsAudited, RecordFollowsCase, TriageStaysOpen, Live, Stored, Opened
  <2>2. TasksFit'
    <3>1. \A t : TaskOK(t)' <=> TaskOK(t)
      BY <1>5 DEF vars, TaskOK, Placed, Traced, Guarded, Planned, Live, Opened, CloseBlocked
    <3>2. task' = task
      BY <1>5 DEF vars
    <3> QED BY <3>1, <3>2 DEF StoreInv, TasksFit
  <2> QED BY <2>1, <2>2 DEF StoreInv
<1> QED BY <1>1, <1>2, <1>3, <1>4, <1>5, CrashKeeps DEF Next

(* The inductive invariant holds in every reachable state. *)
THEOREM StoreInvariance == Spec => []StoreInv
BY StoreInit, StoreStepKeeps, PTL DEF Spec

(* Events of one customer PO meet in one case, and keys and records refer  *)
(* to cases that exist, however lookups, openings, the backfill and merges *)
(* of duplicates interleave and die half-way; two cases of a PO mean that  *)
(* two replicas opened it at once or a merge dropped its key               *)
(* (db/repository.py register, agents/backfill.py).                        *)
THEOREM CasesAreAlwaysFound == Spec => []CasesAreFound
<1>1. StoreInv => CasesAreFound
  BY DEF StoreInv, TablesOK, StoreFits, CasesAreFound, TypeOK, RecordRows
<1> QED BY <1>1, StoreInvariance, PTL

(* A case's supergroup is in its audit history, so is its records', and a  *)
(* triage case is not resolved, except by one of two updates that crossed  *)
(* (db/repository.py OrderCaseRepository.update).                          *)
THEOREM SupergroupsAreAlwaysTraced == Spec => []SupergroupsAreTraced
<1>1. StoreInv => SupergroupsAreTraced
  BY DEF StoreInv, StoreFits, SupergroupsAreTraced
<1> QED BY <1>1, StoreInvariance, PTL

-----------------------------------------------------------------------------
(* Governance: the taxonomy's seed.                                        *)

StewardSteps == {"idle", "validate", "replace", "py", "ts"}

(* What each step of a command may rely on: a proposal that was validated, *)
(* then a seed that is the proposal, then one of its two files.            *)
SeedInv ==
  /\ steward \in [step : StewardSteps, codes : SUBSET G!Codes] /\ G!Loads(seed)
  /\ steward.step \in {"validate", "replace"} => seed = before
  /\ steward.step = "replace" => G!Loads(steward.codes)
  /\ steward.step \in {"py", "ts"} => seed = steward.codes
  /\ steward.step = "ts" => constants["py"] = seed
  /\ steward.step \in {"idle", "validate", "replace"} /\ ~interrupted => ~G!Drifted
  /\ interrupted \in BOOLEAN /\ seed \subseteq G!Codes

(* The order in which the command goes through its files. *)
LEMMA StewardOrder ==
  /\ G!After("idle") = "validate" /\ G!After("validate") = "replace"
  /\ G!After("replace") = "py" /\ G!After("py") = "ts"
<1> DEFINE order == <<"validate", "replace", "py", "ts">>
<1>1. /\ DOMAIN order = 1..4 /\ Len(order) = 4 /\ Head(order) = "validate"
      /\ order[1] = "validate" /\ order[2] = "replace" /\ order[3] = "py" /\ order[4] = "ts"
  OBVIOUS
<1>2. ASSUME NEW i \in 1..3 PROVE (CHOOSE k \in DOMAIN order : order[k] = order[i]) = i
  BY <1>1
<1>3. G!After("idle") = "validate"
  BY <1>1 DEF G!After, G!Following
<1>4. ASSUME NEW i \in 1..3 PROVE G!After(order[i]) = order[i + 1]
  <2>1. order[i] # "idle"
    BY <1>1
  <2>2. G!Following(order, order[i]) = order[i + 1]
    <3> HIDE DEF order
    <3> QED BY <1>1, <1>2, <2>1 DEF G!Following
  <2> QED BY <2>2 DEF G!After
<1> HIDE DEF order
<1> QED BY <1>1, <1>3, <1>4

(* The seed at the beginning has one code. *)
LEMMA SeedInit == G!Init => SeedInv
<1> SUFFICES ASSUME G!Init PROVE SeedInv
  OBVIOUS
<1>1. PICK first : first = [kind |-> "SG", suffix |-> "pricing"]
  OBVIOUS
<1>2. /\ seed = {first} /\ constants = [f \in {"py", "ts"} |-> seed]
      /\ steward = [step |-> "idle", codes |-> {}] /\ interrupted = FALSE /\ before = seed
  BY <1>1 DEF G!Init
<1>3. first \in G!Codes
  BY <1>1 DEF G!Codes
<1>4. G!Loads(seed)
  BY <1>2 DEF G!Loads
<1>5. ~G!Drifted
  BY <1>2 DEF G!Drifted
<1> QED BY <1>2, <1>3, <1>4, <1>5 DEF SeedInv, StewardSteps

(* A command takes a step on its own proposal. *)
LEMMA StewardMoves ==
  ASSUME NEW s, s \in [step : StewardSteps, codes : SUBSET G!Codes], NEW step \in StewardSteps
  PROVE  /\ [s EXCEPT !.step = step] \in [step : StewardSteps, codes : SUBSET G!Codes]
         /\ [s EXCEPT !.step = step].step = step /\ [s EXCEPT !.step = step].codes = s.codes
OBVIOUS

(* What is validated is what replaces the seed, and what the files are     *)
(* generated from.                                                         *)
LEMMA SeedNext == SeedInv /\ [G!Next]_G!vars => SeedInv'
<1> SUFFICES ASSUME SeedInv, [G!Next]_G!vars PROVE SeedInv'
  OBVIOUS
<1> DEFINE Stewards == [step : StewardSteps, codes : SUBSET G!Codes]
<1>0. [step |-> "idle", codes |-> {}] \in Stewards
  BY DEF StewardSteps
<1>1. /\ steward \in Stewards /\ interrupted \in BOOLEAN /\ seed \subseteq G!Codes
  BY DEF SeedInv
<1>2. CASE G!StewardBegins
  <2>1. PICK code \in G!Codes : steward' = [step |-> "validate", codes |-> seed \cup {code}]
    BY <1>2, StewardOrder DEF G!StewardBegins
  <2>2. steward.step = "idle" /\ before' = seed /\ UNCHANGED <<seed, constants, interrupted>>
    BY <1>2 DEF G!StewardBegins
  <2>3. steward' \in Stewards /\ steward'.step = "validate"
    BY <1>1, <2>1 DEF StewardSteps
  <2> QED BY <2>2, <2>3 DEF SeedInv, G!Drifted, G!Loads
<1>3. CASE G!Validate
  <2>1. steward.step = "validate" /\ UNCHANGED <<seed, constants, interrupted, before>>
    BY <1>3 DEF G!Validate
  <2>2. /\ steward' \in Stewards /\ steward'.step \in {"idle", "replace"}
        /\ steward'.step = "replace" => G!Loads(steward'.codes)
    <3>1. CASE G!Loads(steward.codes)
      <4>1. steward' = [steward EXCEPT !.step = "replace"]
        BY <1>3, <2>1, <3>1, StewardOrder DEF G!Validate
      <4>2. "replace" \in StewardSteps
        BY DEF StewardSteps
      <4> QED BY <1>1, <3>1, <4>1, <4>2, StewardMoves
    <3>2. CASE ~G!Loads(steward.codes)
      <4>1. steward' = [step |-> "idle", codes |-> {}]
        BY <1>3, <3>2 DEF G!Validate
      <4> QED BY <1>0, <4>1
    <3> QED BY <3>1, <3>2
  <2>3. steward'.step = "replace" => G!Loads(steward.codes)'
    BY <2>2 DEF G!Loads
  <2> QED BY <2>1, <2>2, <2>3 DEF SeedInv, G!Drifted, G!Loads
<1>4. CASE G!Replace
  <2>1. /\ steward.step = "replace" /\ seed' = steward.codes
        /\ UNCHANGED <<constants, interrupted, before>>
        /\ steward' = [steward EXCEPT !.step = "py"]
    BY <1>4, StewardOrder DEF G!Replace
  <2>2. steward' \in Stewards /\ steward'.step = "py" /\ steward'.codes = steward.codes
    <3>1. "py" \in StewardSteps
      BY DEF StewardSteps
    <3> QED BY <1>1, <2>1, <3>1, StewardMoves
  <2>3. seed' \subseteq G!Codes
    BY <1>1, <2>1
  <2> QED BY <2>1, <2>2, <2>3 DEF SeedInv, G!Loads
<1>5. CASE G!Generate
  <2>1. /\ steward.step \in {"py", "ts"} /\ UNCHANGED <<seed, interrupted, before>>
        /\ constants' = [f \in {"py", "ts"} |->
                           IF f = steward.step THEN steward.codes ELSE constants[f]]
    BY <1>5 DEF G!Generate, G!Generated
  <2>2. seed = steward.codes
    BY <2>1 DEF SeedInv
  <2>3. CASE steward.step = "py"
    <3>1. steward' = [steward EXCEPT !.step = "ts"]
      BY <1>5, <2>3, StewardOrder DEF G!Generate
    <3>2. steward' \in Stewards /\ steward'.step = "ts" /\ steward'.codes = steward.codes
      <4>1. "ts" \in StewardSteps
        BY DEF StewardSteps
      <4> QED BY <1>1, <3>1, <4>1, StewardMoves
    <3>3. constants'["py"] = seed'
      BY <2>1, <2>2, <2>3
    <3> QED BY <2>1, <2>2, <3>2, <3>3 DEF SeedInv, G!Loads
  <2>4. CASE steward.step = "ts"
    <3>1. steward' = [step |-> "idle", codes |-> {}]
      BY <1>5, <2>4 DEF G!Generate
    <3>2. constants'["py"] = seed' /\ constants'["ts"] = seed'
      BY <2>1, <2>2, <2>4 DEF SeedInv
    <3>3. ~G!Drifted'
      BY <3>2 DEF G!Drifted
    <3> QED BY <1>0, <2>1, <3>1, <3>3 DEF SeedInv, G!Loads
  <2> QED BY <2>1, <2>3, <2>4
<1>6. CASE G!StewardFails
  <2>1. /\ steward' = [step |-> "idle", codes |-> {}] /\ UNCHANGED <<seed, constants, before>>
        /\ interrupted' = (interrupted \/ steward.step \in {"py", "ts"})
    BY <1>6 DEF G!StewardFails
  <2>2. ~interrupted' => ~interrupted /\ steward.step \in {"idle", "validate", "replace"}
    BY <1>1, <2>1 DEF StewardSteps
  <2>3. ~interrupted' => ~G!Drifted'
    BY <2>1, <2>2 DEF SeedInv, G!Drifted
  <2>4. interrupted' \in BOOLEAN
    BY <2>1
  <2> QED BY <1>0, <2>1, <2>3, <2>4 DEF SeedInv, G!Loads
<1>7. CASE G!Regenerate
  <2>1. /\ steward.step = "idle" /\ constants' = [f \in {"py", "ts"} |-> seed]
        /\ interrupted' = FALSE /\ UNCHANGED <<seed, steward, before>>
    BY <1>7 DEF G!Regenerate
  <2>2. ~G!Drifted'
    BY <2>1 DEF G!Drifted
  <2> QED BY <2>1, <2>2 DEF SeedInv, G!Loads
<1>8. CASE UNCHANGED G!taxonomy
  BY <1>8 DEF G!taxonomy, SeedInv, G!Loads, G!Drifted
<1>9. ASSUME NEW p \in Processes,
             \/ G!Propose(p) \/ G!Find(p) \/ G!Write(p) \/ G!HandlerAudits(p) \/ G!Stamp(p)
             \/ G!Link(p) \/ G!Insert(p) \/ G!Fails(p) \/ G!Resolve(p) \/ G!ReadLayer(p)
      PROVE  UNCHANGED G!taxonomy
  BY <1>9 DEF G!Propose, G!Find, G!Write, G!HandlerAudits, G!Stamp, G!Link, G!Insert, G!Fails,
              G!Resolve, G!ReadLayer
<1> QED BY <1>2, <1>3, <1>4, <1>5, <1>6, <1>7, <1>8, <1>9 DEF G!Next, G!vars

(* SeedIsSound, for any settings and any number of commands and failures:  *)
(* the seed can be loaded wherever the steward's command is stopped, and   *)
(* the two generated files are the seed's unless one was stopped between   *)
(* the three (scripts/steward_change.py _atomic_commit).                   *)
THEOREM SeedIsAlwaysSound == G!Spec => []G!SeedIsSound
<1>1. SeedInv => G!SeedIsSound
  BY DEF SeedInv, G!SeedIsSound, G!SeedLoads, G!ConstantsFollowSeed
<1> QED BY <1>1, SeedInit, SeedNext, PTL DEF G!Spec

-----------------------------------------------------------------------------
(* Governance: what a log says of a layer and of a tenant's chain.         *)

Weights == Overrides \cup {None}
Places == G!LayerSet \cup {"none"}
Lefts == Overrides \cup {<<>>}
Hashes == [form : {"text", "decoded"}, at : Nat, prev : Nat, old : Weights, new : Lefts]
LogRows == [tenant : Tenants, layer : Places, at : Nat, prev : Nat, old : Weights, new : Lefts, hash : Hashes]

(* The module's operators on the log, with the log as a parameter. *)
About(d, l) == {i \in DOMAIN d : d[i].layer = l}
Left(d, T) == IF T = {} THEN <<>> ELSE d[G!Max(T)].new
LastLeft(d, l) == Left(d, About(d, l))
Replays(d, l) == \A i \in About(d, l) : G!Given(d[i].old) = Left(d, {k \in About(d, l) : k < i})

RowsIn(d, t) == {i \in DOMAIN d : d[i].tenant = t}
Before(d, t, time) == {k \in RowsIn(d, t) : d[k].at < time}
(* An index is the latest of a set of rows, or 0 when there are none. *)
IsLatest(d, T, i) == IF T = {} THEN i = 0 ELSE i \in T /\ \A k \in T : d[k].at <= d[i].at
(* The rows of a tenant but those in X are linked to the latest before.    *)
Chained(d, t, X) == \A i \in RowsIn(d, t) \ X : IsLatest(d, Before(d, t, d[i].at), d[i].prev)
(* Every row is linked to an earlier one of its tenant, and hashed as text. *)
Rooted(d, t, i) == i = 0 \/ i \in RowsIn(d, t)
Forest(d) == \A i \in 1..Len(d) : d[i].prev < i /\ Rooted(d, d[i].tenant, d[i].prev)
Sound(d) == \A i \in 1..Len(d) : d[i].hash = G!Hash("text", d[i].at, d[i].prev, d[i].old, d[i].new)
Ordered(d) == \A i, k \in DOMAIN d : i < k /\ d[i].tenant = d[k].tenant => d[i].at < d[k].at

(* A set of naturals has a least element. *)
LEMMA Least ==
  ASSUME NEW T \in SUBSET Nat, T # {}
  PROVE  \E m \in T : \A k \in T : m <= k
<1> DEFINE Below == {p \in Nat \X Nat : p[1] < p[2]}
<1>1. IsWellFoundedOn(Below, Nat)
  BY NatLessThanWellFounded DEF OpToRel
<1> HIDE DEF Below
<1>2. PICK m \in T : \A k \in T : <<k, m>> \notin Below
  BY <1>1, WFMin, Zenon
<1>3. ASSUME NEW k \in T PROVE m <= k
  <2>1. k \in Nat /\ m \in Nat
    OBVIOUS
  <2>2. <<k, m>> \in Below <=> k < m
    BY <2>1 DEF Below
  <2> QED BY <1>2, <2>1, <2>2
<1> QED BY <1>3

(* With a bound it has a greatest. *)
LEMMA Greatest ==
  ASSUME NEW T \in SUBSET Nat, T # {}, NEW b \in Nat, \A k \in T : k <= b
  PROVE  \E m \in T : \A k \in T : k <= m
<1> DEFINE D == {b - k : k \in T}
<1>0. PICK x \in T : TRUE
  OBVIOUS
<1>a. ASSUME NEW k \in T PROVE b - k \in Nat
  OBVIOUS
<1>1. D \in SUBSET Nat /\ D # {}
  BY <1>0, <1>a
<1>2. PICK d \in D : \A k \in D : d <= k
  BY <1>1, Least
<1>3. PICK m \in T : d = b - m
  OBVIOUS
<1>4. ASSUME NEW k \in T PROVE k <= m
  <2>1. b - k \in D /\ k \in Nat /\ m \in Nat
    OBVIOUS
  <2>2. d <= b - k
    BY <1>2, <2>1
  <2>3. b - m <= b - k
    BY <1>3, <2>2
  <2> QED BY <2>1, <2>3
<1> QED BY <1>4

(* Max is the greatest. *)
LEMMA MaxOfIndices ==
  ASSUME NEW T, NEW b \in Nat, T \subseteq 1..b, T # {}
  PROVE  G!Max(T) \in T /\ \A k \in T : k <= G!Max(T)
<1>a. T \in SUBSET Nat /\ \A k \in T : k <= b
  OBVIOUS
<1>1. PICK m \in T : \A k \in T : k <= m
  BY <1>a, Greatest
<1>2. \E x \in T : \A y \in T : x >= y
  BY <1>a, <1>1
<1>3. G!Max(T) \in T /\ \A y \in T : G!Max(T) >= y
  BY <1>2 DEF G!Max
<1> QED BY <1>a, <1>3

(* What rows an appended log has, by layer and by tenant. *)
LEMMA LogAppend ==
  ASSUME NEW d \in Seq(LogRows), NEW row \in LogRows
  PROVE  /\ Append(d, row) \in Seq(LogRows) /\ Len(d) \in Nat /\ Len(Append(d, row)) = Len(d) + 1
         /\ DOMAIN d = 1..Len(d) /\ DOMAIN Append(d, row) = 1..(Len(d) + 1)
         /\ Append(d, row)[Len(d) + 1] = row /\ \A i \in 1..Len(d) : Append(d, row)[i] = d[i]
<1>1. Append(d, row) \in Seq(LogRows) /\ Len(Append(d, row)) = Len(d) + 1
  BY AppendProperties
<1>2. Append(d, row)[Len(d) + 1] = row /\ \A i \in 1..Len(d) : Append(d, row)[i] = d[i]
  BY AppendProperties
<1>3. \A s \in Seq(LogRows) : Len(s) \in Nat /\ DOMAIN s = 1..Len(s)
  BY LenProperties
<1> QED BY <1>1, <1>2, <1>3

(* A row of a log is one. *)
LEMMA RowOfLog ==
  ASSUME NEW d \in Seq(LogRows)
  PROVE  /\ Len(d) \in Nat /\ DOMAIN d = 1..Len(d)
         /\ \A i \in 1..Len(d) : d[i] \in LogRows /\ d[i].at \in Nat /\ d[i].tenant \in Tenants
                                 /\ d[i].prev \in Nat /\ d[i].layer \in Places
<1>1. Len(d) \in Nat /\ DOMAIN d = 1..Len(d)
  BY LenProperties
<1>2. ASSUME NEW i \in 1..Len(d) PROVE d[i] \in LogRows
  BY ElementOfSeq
<1>3. \A row \in LogRows : row.at \in Nat /\ row.tenant \in Tenants /\ row.prev \in Nat /\ row.layer \in Places
  BY DEF LogRows
<1> QED BY <1>1, <1>2, <1>3

(* What older rows left does not change. *)
LEMMA LeftStays ==
  ASSUME NEW d \in Seq(LogRows), NEW row \in LogRows, NEW T, T \subseteq DOMAIN d
  PROVE  Left(Append(d, row), T) = Left(d, T)
<1>1. CASE T = {}
  BY <1>1 DEF Left
<1>2. CASE T # {}
  <2>1. Len(d) \in Nat /\ T \subseteq 1..Len(d)
    BY LogAppend
  <2>2. G!Max(T) \in 1..Len(d)
    BY <1>2, <2>1, MaxOfIndices
  <2>3. Append(d, row)[G!Max(T)] = d[G!Max(T)]
    BY <2>2, LogAppend
  <2> QED BY <1>2, <2>3 DEF Left
<1> QED BY <1>1, <1>2

(* A row extends the trail of its layer and no other. *)
LEMMA ReplaysAppend ==
  ASSUME NEW d \in Seq(LogRows), NEW row \in LogRows, NEW l, Replays(d, l),
         row.layer = l => G!Given(row.old) = LastLeft(d, l)
  PROVE  /\ LastLeft(Append(d, row), l) = IF row.layer = l THEN row.new ELSE LastLeft(d, l)
         /\ Replays(Append(d, row), l)
<1> DEFINE e == Append(d, row)
           n == Len(d) + 1
<1>1. /\ Len(d) \in Nat /\ n \in Nat /\ DOMAIN d = 1..Len(d) /\ DOMAIN e = 1..n /\ e[n] = row
      /\ \A i \in 1..Len(d) : e[i] = d[i]
  BY LogAppend
<1> HIDE DEF e
<1>2. About(e, l) = About(d, l) \cup (IF row.layer = l THEN {n} ELSE {}) /\ About(d, l) \subseteq 1..Len(d)
  BY <1>1 DEF About
<1>3. \A T \in SUBSET (1..Len(d)) : Left(e, T) = Left(d, T)
  BY <1>1, LeftStays DEF e
<1>4. LastLeft(e, l) = IF row.layer = l THEN row.new ELSE LastLeft(d, l)
  <2>1. CASE row.layer = l
    <3>1. About(e, l) \subseteq 1..n /\ n \in About(e, l)
      BY <1>1, <1>2, <2>1
    <3>2. G!Max(About(e, l)) \in About(e, l) /\ n <= G!Max(About(e, l))
      BY <1>1, <3>1, MaxOfIndices
    <3>3. G!Max(About(e, l)) = n
      BY <1>1, <3>1, <3>2
    <3> QED BY <1>1, <2>1, <3>1, <3>3 DEF LastLeft, Left
  <2>2. CASE row.layer # l
    BY <1>2, <1>3, <2>2 DEF LastLeft
  <2> QED BY <2>1, <2>2
<1>5. ASSUME NEW i \in About(e, l) PROVE G!Given(e[i].old) = Left(e, {k \in About(e, l) : k < i})
  <2>1. CASE i = n /\ row.layer = l
    <3>1. {k \in About(e, l) : k < n} = About(d, l)
      BY <1>1, <1>2
    <3> QED BY <1>1, <1>2, <1>3, <2>1, <3>1 DEF LastLeft
  <2>2. CASE i \in About(d, l)
    <3>1. {k \in About(e, l) : k < i} = {k \in About(d, l) : k < i}
      BY <1>1, <1>2, <2>2
    <3>2. {k \in About(d, l) : k < i} \in SUBSET (1..Len(d))
      BY <1>2
    <3> QED BY <1>1, <1>2, <1>3, <2>2, <3>1, <3>2 DEF Replays
  <2> QED BY <1>2, <2>1, <2>2
<1> QED BY <1>4, <1>5 DEF e, Replays

(* A row later than the chained ones of its tenant leaves them chained;    *)
(* later than all of them, and linked to the latest, it is chained itself. *)
LEMMA ChainAppend ==
  ASSUME NEW d \in Seq(LogRows), NEW row \in LogRows, NEW t, NEW X, NEW Y, Chained(d, t, X),
         X \subseteq Y, Y \subseteq X \cup {Len(d) + 1},
         row.tenant = t => /\ \A i \in RowsIn(d, t) \ X : d[i].at < row.at
                           /\ (Len(d) + 1) \notin Y => /\ \A i \in RowsIn(d, t) : d[i].at < row.at
                                                       /\ IsLatest(d, RowsIn(d, t), row.prev)
  PROVE  Chained(Append(d, row), t, Y)
<1> DEFINE e == Append(d, row)
           n == Len(d) + 1
<1>1. /\ Len(d) \in Nat /\ n \in Nat /\ DOMAIN d = 1..Len(d) /\ DOMAIN e = 1..n /\ e[n] = row
      /\ \A i \in 1..Len(d) : e[i] = d[i]
  BY LogAppend
<1>a. row.at \in Nat /\ \A i \in 1..Len(d) : d[i].at \in Nat
  BY RowOfLog DEF LogRows
<1> HIDE DEF e
<1>2. RowsIn(e, t) = RowsIn(d, t) \cup (IF row.tenant = t THEN {n} ELSE {}) /\ RowsIn(d, t) \subseteq 1..Len(d)
  BY <1>1 DEF RowsIn
<1>3. ASSUME NEW i \in RowsIn(e, t) \ Y PROVE IsLatest(e, Before(e, t, e[i].at), e[i].prev)
  <2>1. CASE i = n /\ row.tenant = t
    <3>0. (\A k \in RowsIn(d, t) : d[k].at < row.at) /\ IsLatest(d, RowsIn(d, t), row.prev)
      BY <1>3, <2>1
    <3>1. Before(e, t, row.at) = RowsIn(d, t)
      <4>1. ~(row.at < row.at) /\ e[n].at = row.at
        BY <1>1, <1>a
      <4> QED BY <1>1, <1>2, <2>1, <3>0, <4>1 DEF Before
    <3>2. IsLatest(e, RowsIn(d, t), row.prev)
      BY <1>1, <1>2, <2>1, <3>0 DEF IsLatest
    <3> QED BY <1>1, <2>1, <3>1, <3>2
  <2>2. CASE i \in RowsIn(d, t)
    <3>0. i \in RowsIn(d, t) \ X
      BY <1>3, <2>2
    <3>1. e[i] = d[i] /\ d[i].at \in Nat /\ IsLatest(d, Before(d, t, d[i].at), d[i].prev)
      BY <1>1, <1>a, <1>2, <3>0 DEF Chained
    <3>2. row.tenant = t => ~(row.at < d[i].at)
      BY <1>1, <1>a, <1>2, <3>0
    <3>3. Before(e, t, d[i].at) = Before(d, t, d[i].at) /\ Before(d, t, d[i].at) \subseteq 1..Len(d)
      BY <1>1, <1>2, <3>2 DEF Before
    <3>4. IsLatest(e, Before(d, t, d[i].at), d[i].prev)
      BY <1>1, <3>1, <3>3 DEF IsLatest
    <3> QED BY <3>1, <3>3, <3>4
  <2> QED BY <1>2, <1>3, <2>1, <2>2
<1> QED BY <1>3 DEF e, Chained

(* A row linked to one of its tenant and hashed as text.                   *)
LEMMA ForestAppend ==
  ASSUME NEW d \in Seq(LogRows), NEW row \in LogRows, Forest(d), Sound(d), Rooted(d, row.tenant, row.prev),
         row.hash = G!Hash("text", row.at, row.prev, row.old, row.new)
  PROVE  /\ Forest(Append(d, row)) /\ Sound(Append(d, row))
         /\ \A t, i : Rooted(d, t, i) => Rooted(Append(d, row), t, i)
<1> DEFINE e == Append(d, row)
           n == Len(d) + 1
<1>1. /\ Len(d) \in Nat /\ n \in Nat /\ DOMAIN d = 1..Len(d) /\ DOMAIN e = 1..n /\ Len(e) = n /\ e[n] = row
      /\ \A i \in 1..Len(d) : e[i] = d[i]
  BY LogAppend
<1>a. row.prev \in Nat
  BY DEF LogRows
<1> HIDE DEF e
<1>2. ASSUME NEW t, NEW i, Rooted(d, t, i) PROVE Rooted(e, t, i)
  BY <1>1, <1>2 DEF Rooted, RowsIn
<1>3. ASSUME NEW i \in 1..n
      PROVE  /\ e[i].prev < i /\ Rooted(e, e[i].tenant, e[i].prev)
             /\ e[i].hash = G!Hash("text", e[i].at, e[i].prev, e[i].old, e[i].new)
  <2>1. CASE i = n
    <3>1. row.prev < n
      BY <1>1, <1>a DEF Rooted, RowsIn
    <3> QED BY <1>1, <1>2, <2>1, <3>1
  <2>2. CASE i \in 1..Len(d)
    BY <1>1, <1>2, <2>2 DEF Forest, Sound
  <2> QED BY <1>1, <2>1, <2>2
<1>4. Forest(e) /\ Sound(e)
  BY <1>1, <1>3 DEF Forest, Sound
<1> QED BY <1>2, <1>4 DEF e

(* The newest row of a tenant, as the transaction reads it. *)
LEMMA NewestIsLatest ==
  ASSUME NEW t, log \in Seq(LogRows), NEW b \in Nat, \A i \in DOMAIN log : log[i].at <= b
  PROVE  G!Newest(t) \in 0..Len(log) /\ IsLatest(log, RowsIn(log, t), G!Newest(t))
<1>a. Len(log) \in Nat /\ DOMAIN log = 1..Len(log)
  OBVIOUS
<1>b. G!RowsOf(t) = RowsIn(log, t) /\ RowsIn(log, t) \subseteq 1..Len(log)
  BY <1>a DEF G!RowsOf, RowsIn
<1>c. \A i \in 1..Len(log) : log[i].at \in Nat
  BY RowOfLog
<1>1. G!RowsOf(t) = RowsIn(log, t) /\ RowsIn(log, t) \subseteq 1..Len(log) /\ Len(log) \in Nat
      /\ \A i \in 1..Len(log) : log[i].at \in Nat
  BY <1>a, <1>b, <1>c
<1>2. CASE RowsIn(log, t) = {}
  BY <1>1, <1>2 DEF G!Newest, IsLatest
<1>3. CASE RowsIn(log, t) # {}
  <2> DEFINE T == {log[i].at : i \in RowsIn(log, t)}
  <2>1. T \in SUBSET Nat /\ T # {} /\ \A k \in T : k <= b
    BY <1>1, <1>3
  <2>2. PICK m \in T : \A k \in T : k <= m
    BY <2>1, Greatest
  <2>3. PICK i \in RowsIn(log, t) : m = log[i].at
    OBVIOUS
  <2>4. \A k \in RowsIn(log, t) : log[k].at <= log[i].at
    BY <2>2, <2>3
  <2>5. /\ G!Newest(t) \in RowsIn(log, t)
        /\ \A k \in RowsIn(log, t) : log[k].at <= log[G!Newest(t)].at
    BY <1>1, <1>3, <2>4 DEF G!Newest
  <2> QED BY <1>1, <1>3, <2>5 DEF IsLatest
<1> QED BY <1>2, <1>3

-----------------------------------------------------------------------------
(* Governance: the invariant.  A change is known by its number, which the  *)
(* job that makes it holds alone; a layer whose changes never overlapped   *)
(* has at most one, and what that one read is still there; a job between   *)
(* the time and the row of its audit is alone in its tenant unless         *)
(* overlapped names it.                                                    *)

JobSteps == {"idle", "find", "write", "stamp", "link", "insert", "resolve"}
Changing == {"find", "write"}
Stamping == {"stamp", "link", "insert"}
JobRows == [step : JobSteps, layer : Places, tenant : Tenants, id : Nat, old : Weights, new : Weights,
            found : Weights, at : Nat, prev : Nat, seen : Seq(Weights), torn : BOOLEAN]

Overlaps == [jobs : SUBSET Processes, rows : SUBSET Nat]

GovWorld ==
  /\ setting \in Settings /\ failures \in 0..setting.faults /\ clock \in Nat /\ changes \in Nat
  /\ rows \in [G!LayerSet -> Weights] /\ log \in Seq(LogRows) /\ job \in [Processes -> JobRows]
  /\ written \subseteq 1..changes /\ audited \subseteq 1..changes
  /\ lost \subseteq 1..changes /\ hollow \subseteq 1..changes
  /\ overlapped \in Overlaps

(* How far job j is with its change, the one numbered j.id. *)
JobFits(j) ==
  /\ j.id = 0 <=> j.layer = "none"
  /\ j.step \in {"idle", "resolve"} => j.id = 0
  /\ j.step = "resolve" => Len(j.seen) < Len(Layers)
  /\ j.id <= changes /\ j.prev <= Len(log) /\ j.at <= 2 * clock + 4
  /\ j.step \in Changing => j.id # 0 /\ j.id \notin written \cup audited \cup hollow \cup lost
  /\ j.step \in Stamping /\ j.id # 0 => j.id \in written \cup hollow /\ j.id \notin audited \cup lost
JobsFit == \A p \in Processes : JobFits(job[p]) /\ (p \notin setting.procs => job[p].step = "idle")
IdsApart == \A p, q \in Processes : p # q /\ job[p].id = job[q].id => job[p].id = 0

(* What became of change x. *)
Fate(x) ==
  /\ x \in written => x \in audited \/ x \in lost \/ \E p \in Processes : job[p].id = x
  /\ x \in audited => x \in written \/ x \in hollow
  /\ x \in lost => x \in written /\ x \notin audited
  /\ x \in written => x \notin hollow
ChangesFit == JobsFit /\ IdsApart /\ \A x \in 1..changes : Fate(x)

LogFits == \A i \in 1..Len(log) : log[i].prev < Len(log) /\ log[i].at <= 2 * clock + 4

(* The only job about layer l, and what of the layer it may rely on. *)
OnLayer(j, l) ==
  /\ j.step \in Changing => j.old = rows[l] /\ G!Given(rows[l]) = LastLeft(log, l) /\ (j.new = None => rows[l] # None)
  /\ j.step = "write" => j.found = rows[l]
  /\ j.step \in Stamping => G!Given(j.old) = LastLeft(log, l) /\ j.new = rows[l] /\ j.id \in written
LayerFits(l) ==
  /\ \A p, q \in Processes : job[p].layer = l /\ job[q].layer = l => p = q
  /\ \A p \in Processes : job[p].layer = l => OnLayer(job[p], l)
  /\ (\A p \in Processes : job[p].layer # l) => G!Given(rows[l]) = LastLeft(log, l)
  /\ Replays(log, l)
LayersFit ==
  /\ \A l \in G!LayerSet \ muddled : LayerFits(l)
  /\ hollow # {} => muddled # {}

(* The time of a job's row is later than its tenant's rows that no other   *)
(* ran beside; if none runs beside it either, than all of them, and the    *)
(* row it is linked to is the latest of them.                              *)
AloneFits(p) ==
  /\ \A i \in RowsIn(log, job[p].tenant) : log[i].at < job[p].at
  /\ \A q \in Processes : q # p /\ G!Stamped(q) => job[q].tenant # job[p].tenant
  /\ job[p].step = "insert" => IsLatest(log, RowsIn(log, job[p].tenant), job[p].prev)
StampFits(p) ==
  G!Stamped(p) =>
    /\ job[p].at < 2 * clock
    /\ \A i \in RowsIn(log, job[p].tenant) \ overlapped.rows : log[i].at < job[p].at
    /\ p \notin overlapped.jobs => AloneFits(p)
ForestFits ==
  /\ Sound(log) /\ Forest(log)
  /\ setting.backend = "sqlite" => overlapped.jobs = {} /\ overlapped.rows = {}
  /\ \A p \in Processes : job[p].step = "insert" => Rooted(log, job[p].tenant, job[p].prev)
OrderFits ==
  setting.skewed = {} => /\ \A i \in 1..Len(log) : log[i].at < 2 * clock
                         /\ \A p \in Processes : StampFits(p)
                         /\ \A t \in Tenants : Chained(log, t, overlapped.rows)
ChainsFit == ForestFits /\ OrderFits

GovInv == GovWorld /\ ChangesFit /\ LogFits /\ LayersFit /\ ChainsFit

-----------------------------------------------------------------------------
(* Governance: what a step of p leaves alone.                              *)

(* torn alone is another job's to change. *)
SameJob(a, b) ==
  /\ a.step = b.step /\ a.layer = b.layer /\ a.tenant = b.tenant /\ a.id = b.id /\ a.old = b.old
  /\ a.new = b.new /\ a.found = b.found /\ a.at = b.at /\ a.prev = b.prev /\ a.seen = b.seen
OthersKeep(p) == \A q \in Processes \ {p} : SameJob(job'[q], job[q])

(* Only what became of change y differs. *)
OnlyChanges(y) ==
  \A x \in Nat \ {y} : /\ x \in written' <=> x \in written
                       /\ x \in audited' <=> x \in audited
                       /\ x \in lost' <=> x \in lost
                       /\ x \in hollow' <=> x \in hollow

(* A step that gives p the job n gives no other job anything. *)
LEMMA JobSet ==
  ASSUME GovWorld, NEW p \in Processes, NEW n \in JobRows, job' = [job EXCEPT ![p] = n]
  PROVE  job' \in [Processes -> JobRows] /\ job'[p] = n /\ OthersKeep(p)
BY DEF GovWorld, OthersKeep, SameJob

(* The other jobs and the other changes are as they were. *)
LEMMA ChangesKeep ==
  ASSUME GovWorld, GovWorld', ChangesFit, NEW p \in Processes, NEW y, y = job[p].id, OthersKeep(p),
         UNCHANGED setting, changes <= changes', clock <= clock', Len(log) <= Len(log'), OnlyChanges(y),
         job'[p].id \in {0, y} \/ job'[p].id = changes + 1,
         JobFits(job[p])', p \notin setting.procs => job'[p].step = "idle",
         y # 0 => Fate(y)'
  PROVE  ChangesFit'
<1>1. /\ y \in Nat /\ clock \in Nat /\ clock' \in Nat /\ changes \in Nat /\ changes' \in Nat
      /\ Len(log) \in Nat /\ Len(log') \in Nat
      /\ 0 \notin written /\ 0 \notin audited /\ 0 \notin lost /\ 0 \notin hollow
      /\ 0 \notin written' /\ 0 \notin audited' /\ 0 \notin lost' /\ 0 \notin hollow'
  <2>1. Len(log) \in Nat /\ Len(log') \in Nat
    BY RowOfLog DEF GovWorld
  <2>2. job[p].id \in Nat
    BY DEF GovWorld, JobRows
  <2>3. clock \in Nat /\ clock' \in Nat /\ changes \in Nat /\ changes' \in Nat
    BY DEF GovWorld
  <2>4. 0 \notin written /\ 0 \notin audited /\ 0 \notin lost /\ 0 \notin hollow
    BY DEF GovWorld
  <2>5. 0 \notin written' /\ 0 \notin audited' /\ 0 \notin lost' /\ 0 \notin hollow'
    BY DEF GovWorld
  <2> QED BY <2>1, <2>2, <2>3, <2>4, <2>5
<1>2. ASSUME NEW q \in Processes, q # p
      PROVE  /\ SameJob(job'[q], job[q]) /\ job[q].id \in Nat /\ job[q].at \in Nat /\ job[q].prev \in Nat
             /\ job[q].id = y => y = 0
  <2>1. SameJob(job'[q], job[q])
    BY <1>2 DEF OthersKeep
  <2>2. job[q].id \in Nat /\ job[q].at \in Nat /\ job[q].prev \in Nat
    BY DEF GovWorld, JobRows
  <2> QED BY <1>2, <2>1, <2>2 DEF ChangesFit, IdsApart
<1>3. JobsFit'
  <2>1. ASSUME NEW q \in Processes, q # p
        PROVE  JobFits(job[q])' /\ (q \notin setting'.procs => job'[q].step = "idle")
    <3>1. JobFits(job[q]) /\ (q \notin setting.procs => job[q].step = "idle")
      BY DEF ChangesFit, JobsFit
    <3>2. /\ job[q].id \in written' <=> job[q].id \in written
          /\ job[q].id \in audited' <=> job[q].id \in audited
          /\ job[q].id \in lost' <=> job[q].id \in lost
          /\ job[q].id \in hollow' <=> job[q].id \in hollow
      BY <1>1, <1>2, <2>1 DEF OnlyChanges
    <3>3. job[q].id <= changes' /\ job[q].prev <= Len(log') /\ job[q].at <= 2 * clock' + 4
      <4>1. job[q].id <= changes /\ job[q].prev <= Len(log) /\ job[q].at <= 2 * clock + 4
        BY <3>1 DEF JobFits
      <4>2. job[q].id \in Nat /\ job[q].prev \in Nat /\ job[q].at \in Nat
        BY <1>2, <2>1
      <4> QED BY <1>1, <4>1, <4>2, SMTT(30)
    <3> QED BY <1>2, <2>1, <3>1, <3>2, <3>3 DEF JobFits, SameJob
  <2> QED BY <2>1 DEF JobsFit
<1>4. IdsApart'
  <2>1. ASSUME NEW q \in Processes, q # p PROVE job'[q].id = job'[p].id => job'[p].id = 0
    <3>1. job[q].id <= changes
      BY <2>1 DEF ChangesFit, JobsFit, JobFits
    <3>2. job'[q].id = job[q].id /\ job[q].id \in Nat /\ (job[q].id = y => y = 0)
      BY <1>2, <2>1 DEF SameJob
    <3>3. job[q].id # changes + 1
      BY <1>1, <3>1, <3>2
    <3> QED BY <3>2, <3>3
  <2>2. ASSUME NEW q \in Processes, NEW r \in Processes, q # r, q # p, r # p, job'[q].id = job'[r].id
        PROVE  job'[q].id = 0
    BY <1>2, <2>2 DEF ChangesFit, IdsApart, SameJob
  <2> QED BY <2>1, <2>2 DEF IdsApart
<1>5. ASSUME NEW x \in 1..changes' PROVE Fate(x)'
  <2>1. CASE x = y
    BY <1>1, <2>1
  <2>2. CASE x # y
    <3>1. x \in Nat /\ (x \in 1..changes => Fate(x))
      BY <1>1 DEF ChangesFit
    <3>2. x \notin 1..changes => x \notin written /\ x \notin audited /\ x \notin lost
      BY DEF GovWorld
    <3>3. /\ x \in written' <=> x \in written
          /\ x \in audited' <=> x \in audited
          /\ x \in lost' <=> x \in lost
          /\ x \in hollow' <=> x \in hollow
      BY <2>2, <3>1 DEF OnlyChanges
    <3>4. (\E q \in Processes : job[q].id = x) => \E q \in Processes : job'[q].id = x
      BY <1>2, <2>2 DEF SameJob
    <3> QED BY <3>1, <3>2, <3>3, <3>4 DEF Fate
  <2> QED BY <2>1, <2>2
<1> QED BY <1>3, <1>4, <1>5 DEF ChangesFit

(* A layer p is not about is as it was. *)
LEMMA LayerKeeps ==
  ASSUME GovWorld, NEW p \in Processes, NEW l \in G!LayerSet, LayerFits(l), OthersKeep(p),
         job[p].layer # l, job'[p].layer # l, rows'[l] = rows[l], written \subseteq written',
         log' = log \/ \E row \in LogRows : row.layer # l /\ log' = Append(log, row)
  PROVE  LayerFits(l)'
<1>1. Replays(log', l) /\ LastLeft(log', l) = LastLeft(log, l)
  <2>1. CASE log' = log
    BY <2>1 DEF LayerFits
  <2>2. CASE \E row \in LogRows : row.layer # l /\ log' = Append(log, row)
    <3>1. PICK row \in LogRows : row.layer # l /\ log' = Append(log, row)
      BY <2>2
    <3> QED BY <3>1, ReplaysAppend DEF LayerFits, GovWorld
  <2> QED BY <2>1, <2>2
<1> HIDE DEF Replays, LastLeft
<1>2. ASSUME NEW q \in Processes PROVE job'[q].layer = l <=> job[q].layer = l
  BY DEF OthersKeep, SameJob
<1>3. ASSUME NEW q \in Processes, job'[q].layer = l PROVE OnLayer(job[q], l)'
  <2>1. SameJob(job'[q], job[q]) /\ OnLayer(job[q], l)
    BY <1>2, <1>3 DEF OthersKeep, LayerFits
  <2> QED BY <1>1, <2>1 DEF SameJob, OnLayer
<1>4. (\A q \in Processes : job'[q].layer # l) => G!Given(rows'[l]) = LastLeft(log', l)
  BY <1>1, <1>2 DEF LayerFits
<1>5. \A q, r \in Processes : job'[q].layer = l /\ job'[r].layer = l => q = r
  BY <1>2 DEF LayerFits
<1> QED BY <1>1, <1>3, <1>4, <1>5 DEF LayerFits

(* A layer only p is about, before or after. *)
LEMMA LoneLayer ==
  ASSUME NEW p \in Processes, NEW l \in G!LayerSet, OthersKeep(p),
         \A q \in Processes \ {p} : job[q].layer # l, Replays(log', l),
         job'[p].layer = l => OnLayer(job[p], l)',
         job'[p].layer # l => G!Given(rows'[l]) = LastLeft(log', l)
  PROVE  LayerFits(l)'
<1>1. ASSUME NEW q \in Processes, q # p PROVE job'[q].layer # l
  BY <1>1 DEF OthersKeep, SameJob
<1> HIDE DEF Replays, LastLeft, OnLayer
<1> QED BY <1>1 DEF LayerFits

(* A step after which p has no time, and which logs nothing. *)
LEMMA ChainsKeep ==
  ASSUME ChainsFit, NEW p \in Processes, OthersKeep(p), ~G!Stamped(p)',
         UNCHANGED <<setting, clock, log, overlapped>>
  PROVE  ChainsFit'
<1>2. ASSUME NEW q \in Processes, G!Stamped(q)'
      PROVE  q # p /\ SameJob(job'[q], job[q]) /\ G!Stamped(q)
  BY <1>2 DEF OthersKeep, SameJob, G!Stamped
<1>0. ForestFits'
  <2>1. ASSUME NEW q \in Processes, job'[q].step = "insert" PROVE Rooted(log, job'[q].tenant, job'[q].prev)
    <3>1. G!Stamped(q)'
      BY <2>1 DEF G!Stamped
    <3>2. SameJob(job'[q], job[q])
      BY <1>2, <3>1
    <3>3. job[q].step = "insert" => Rooted(log, job[q].tenant, job[q].prev)
      BY DEF ChainsFit, ForestFits
    <3> QED BY <2>1, <3>2, <3>3 DEF SameJob
  <2>2. Sound(log) /\ Forest(log) /\ (setting.backend = "sqlite" => overlapped.jobs = {} /\ overlapped.rows = {})
    BY DEF ChainsFit, ForestFits
  <2> QED BY <2>1, <2>2 DEF ForestFits
<1>1. SUFFICES ASSUME setting.skewed = {} PROVE \A q \in Processes : StampFits(q)'
  BY <1>0 DEF ChainsFit, OrderFits
<1>3. ASSUME NEW q \in Processes, G!Stamped(q)' PROVE StampFits(q)'
  <2>1. StampFits(q) /\ G!Stamped(q) /\ SameJob(job'[q], job[q])
    BY <1>1, <1>2, <1>3 DEF ChainsFit, OrderFits
  <2>2. ASSUME AloneFits(q) PROVE AloneFits(q)'
    <3>1. ASSUME NEW r \in Processes, r # q, G!Stamped(r)' PROVE job'[r].tenant # job'[q].tenant
      BY <1>2, <2>1, <2>2, <3>1 DEF AloneFits, SameJob
    <3> HIDE DEF IsLatest
    <3> QED BY <2>1, <2>2, <3>1 DEF AloneFits, SameJob
  <2> HIDE DEF AloneFits
  <2> QED BY <2>1, <2>2 DEF StampFits, SameJob
<1> QED BY <1>3 DEF StampFits

-----------------------------------------------------------------------------
(* Governance: each step preserves the invariant.                          *)

(* What the assumption says that the proofs use. *)
LEMMA GovConstants ==
  ASSUME G!GovernanceAssumption
  PROVE  /\ Owner \in Tenants /\ None \notin Overrides /\ Len(Layers) \in Nat /\ Len(Layers) > 0
         /\ DOMAIN Layers = 1..Len(Layers) /\ \A i \in 1..Len(Layers) : Layers[i] \in G!LayerSet
         /\ "none" \notin G!LayerSet
         /\ \A s \in Settings : s.faults \in Nat /\ s.skewed \subseteq s.procs /\ s.procs \subseteq Processes
         /\ \A s \in Settings : /\ s.backend \in {"sqlite", "postgres"}
                                /\ s.backend = "sqlite" => s.skewed = {} /\ \A p, q \in s.procs : p = q
<1>1. Layers \in Seq(STRING) /\ Layers # <<>>
  BY DEF G!GovernanceAssumption
<1>2. Len(Layers) \in Nat /\ DOMAIN Layers = 1..Len(Layers)
  BY <1>1
<1>3. Len(Layers) > 0
  BY <1>1, <1>2, EmptySeq
<1>4. G!LayerSet = {Layers[i] : i \in DOMAIN Layers}
  BY DEF G!LayerSet, G!ToSet
<1>5. ASSUME NEW s \in Settings PROVE s.faults \in Nat /\ s.skewed \subseteq s.procs /\ s.procs \subseteq Processes
  BY DEF G!GovernanceAssumption
<1>6. Owner \in Tenants /\ None \notin Overrides /\ "none" \notin G!LayerSet
  BY DEF G!GovernanceAssumption, G!LayerSet
<1>7. ASSUME NEW s \in Settings
      PROVE  /\ s.backend \in {"sqlite", "postgres"}
             /\ s.backend = "sqlite" => s.skewed = {} /\ \A p, q \in s.procs : p = q
  BY DEF G!GovernanceAssumption
<1> QED BY <1>2, <1>3, <1>4, <1>5, <1>6, <1>7

(* The idle job. *)
LEMMA IdleJob ==
  ASSUME G!GovernanceAssumption
  PROVE  /\ G!Idle \in JobRows /\ G!Idle.step = "idle" /\ G!Idle.layer = "none" /\ G!Idle.id = 0
         /\ G!Idle.at = 0 /\ G!Idle.prev = 0 /\ G!Idle.seen = <<>>
<1>1. Owner \in Tenants
  BY GovConstants
<1>2. <<>> \in Seq(Weights)
  OBVIOUS
<1> QED BY <1>1, <1>2 DEF G!Idle, JobRows, JobSteps, Places, Weights

(* The fields of a job. *)
LEMMA JobFields ==
  ASSUME GovWorld, NEW p \in Processes
  PROVE  /\ job[p] \in JobRows
         /\ job[p].step \in JobSteps /\ job[p].layer \in Places /\ job[p].tenant \in Tenants
         /\ job[p].id \in Nat /\ job[p].old \in Weights /\ job[p].new \in Weights
         /\ job[p].found \in Weights /\ job[p].at \in Nat /\ job[p].prev \in Nat
         /\ job[p].seen \in Seq(Weights)
<1>1. job[p] \in JobRows
  BY DEF GovWorld
<1> QED BY <1>1 DEF JobRows

(* The invariant at the beginning. *)
LEMMA GovInit == ASSUME G!GovernanceAssumption PROVE G!Init => GovInv
<1> SUFFICES ASSUME G!Init PROVE GovInv
  OBVIOUS
<1>1. /\ setting \in Settings /\ failures = 0 /\ clock = 0 /\ changes = 0
      /\ rows = [l \in G!LayerSet |-> None] /\ log = <<>> /\ job = [p \in Processes |-> G!Idle]
      /\ written = {} /\ audited = {} /\ lost = {} /\ hollow = {} /\ muddled = {}
      /\ overlapped = [jobs |-> {}, rows |-> {}]
  BY DEF G!Init
<1>2. log \in Seq(LogRows) /\ Len(log) = 0 /\ DOMAIN log = {}
  BY <1>1
<1>3. GovWorld
  <2>1. failures \in 0..setting.faults
    BY <1>1, GovConstants
  <2>2. rows \in [G!LayerSet -> Weights] /\ job \in [Processes -> JobRows]
    BY <1>1, IdleJob DEF Weights
  <2>3. overlapped \in Overlaps
    BY <1>1 DEF Overlaps
  <2> QED BY <1>1, <1>2, <2>1, <2>2, <2>3 DEF GovWorld
<1>4. \A p \in Processes : job[p] = G!Idle
  BY <1>1
<1>5. ChangesFit /\ LogFits
  <2>1. JobsFit
    BY <1>1, <1>2, <1>4, IdleJob DEF JobsFit, JobFits, Changing, Stamping
  <2>2. IdsApart
    BY <1>4, IdleJob DEF IdsApart
  <2> QED BY <1>1, <1>2, <2>1, <2>2 DEF ChangesFit, LogFits
<1>6. LayersFit
  <2>1. ASSUME NEW l \in G!LayerSet PROVE LayerFits(l)
    <3>1. \A p \in Processes : job[p].layer # l
      BY <1>4, IdleJob, GovConstants
    <3>2. About(log, l) = {}
      BY <1>2 DEF About
    <3>3. Replays(log, l) /\ LastLeft(log, l) = <<>>
      BY <3>2 DEF Replays, LastLeft, Left
    <3>4. G!Given(rows[l]) = LastLeft(log, l)
      BY <1>1, <3>3 DEF G!Given
    <3> QED BY <3>1, <3>3, <3>4 DEF LayerFits
  <2> QED BY <1>1, <2>1 DEF LayersFit
<1>7. ChainsFit
  <2>1. \A p \in Processes : StampFits(p)
    BY <1>4, IdleJob DEF StampFits, G!Stamped
  <2>2. \A t \in Tenants : Chained(log, t, overlapped.rows)
    BY <1>2 DEF Chained, RowsIn
  <2>3. \A p \in Processes : job[p].step # "insert"
    BY <1>4, IdleJob
  <2>4. Sound(log) /\ Forest(log)
    BY <1>2 DEF Sound, Forest
  <2> QED BY <1>1, <1>2, <2>1, <2>2, <2>3, <2>4 DEF ChainsFit, OrderFits, ForestFits
<1> QED BY <1>3, <1>5, <1>6, <1>7 DEF GovInv

(* Propose: a change of a layer gets a number of its own. *)
LEMMA GovPropose ==
  ASSUME G!GovernanceAssumption, GovInv, NEW p \in Processes, G!Propose(p)
  PROVE  GovInv'
<1>1. PICK layer \in G!LayerSet, new \in Weights :
        /\ new = None => rows[layer] # None
        /\ job' = [job EXCEPT ![p] = [G!Idle EXCEPT !.step = "find", !.layer = layer, !.new = new,
                                                     !.old = rows[layer], !.id = changes + 1]]
        /\ muddled' = IF \E q \in G!Others(p) : job[q].layer = layer THEN muddled \cup {layer} ELSE muddled
  BY DEF G!Propose, Weights
<1>2. /\ UNCHANGED <<setting, clock, rows, log, written, audited, lost, hollow, overlapped, failures>>
      /\ changes' = changes + 1 /\ G!Answers(p)
  BY DEF G!Propose, G!NoFault
<1>3. PICK n : n = [G!Idle EXCEPT !.step = "find", !.layer = layer, !.new = new,
                                  !.old = rows[layer], !.id = changes + 1]
  OBVIOUS
<1>4. GovWorld /\ changes \in Nat /\ rows[layer] \in Weights /\ changes + 1 \in Nat
  BY DEF GovInv, GovWorld
<1>5. /\ n \in JobRows /\ n.step = "find" /\ n.layer = layer /\ n.new = new /\ n.old = rows[layer]
      /\ n.id = changes + 1 /\ n.at = 0 /\ n.prev = 0
  BY <1>3, <1>4, IdleJob DEF JobRows, JobSteps, Places
<1>6. job' \in [Processes -> JobRows] /\ job'[p] = n /\ OthersKeep(p)
  BY <1>1, <1>3, <1>4, <1>5, JobSet
<1>7. GovWorld'
  <2>1. \A T : T \subseteq 1..changes => T \subseteq 1..(changes + 1)
    BY <1>4
  <2> QED BY <1>2, <1>4, <1>6, <2>1 DEF GovWorld
<1>8. job[p].step = "idle" /\ p \in setting.procs /\ job[p].id = 0 /\ job[p].layer = "none"
  BY <1>2 DEF G!Answers, GovInv, ChangesFit, JobsFit, JobFits
<1>9. ChangesFit'
  <2>1. JobFits(job[p])'
    <3>1. changes + 1 \notin written \cup audited \cup hollow \cup lost
      BY <1>4 DEF GovWorld
    <3>2. clock \in Nat /\ Len(log) \in Nat /\ layer # "none"
      BY <1>4, RowOfLog, GovConstants DEF GovWorld
    <3> QED BY <1>2, <1>4, <1>5, <1>6, <3>1, <3>2 DEF JobFits, Changing, Stamping
  <2>2. OnlyChanges(0)
    BY <1>2 DEF OnlyChanges
  <2>3. changes <= changes' /\ clock <= clock' /\ Len(log) <= Len(log')
    BY <1>2, <1>4, RowOfLog DEF GovWorld
  <2>4. job'[p].id = changes + 1
    BY <1>5, <1>6
  <2> QED BY <1>2, <1>4, <1>6, <1>7, <1>8, <2>1, <2>2, <2>3, <2>4, ChangesKeep DEF GovInv
<1>10. LayersFit'
  <2>1. ASSUME NEW l \in G!LayerSet, l \notin muddled' PROVE LayerFits(l)'
    <3>1. LayerFits(l) /\ job[p].layer # l
      BY <1>1, <1>8, <2>1, GovConstants DEF GovInv, LayersFit
    <3>2. CASE l # layer
      BY <1>2, <1>4, <1>5, <1>6, <2>1, <3>1, <3>2, LayerKeeps
    <3>3. CASE l = layer
      <4>1. ASSUME NEW q \in Processes, q # p PROVE job[q].layer # l
        <5>1. q \in setting.procs => job[q].layer # layer
          BY <1>1, <2>1, <3>3, <4>1 DEF G!Others
        <5>2. q \notin setting.procs => job[q].layer = "none"
          BY DEF GovInv, ChangesFit, JobsFit, JobFits
        <5> QED BY <3>3, <5>1, <5>2, GovConstants
      <4>2. G!Given(rows[l]) = LastLeft(log, l) /\ Replays(log, l)
        BY <3>1, <4>1 DEF LayerFits
      <4>3. OnLayer(job[p], l)'
        BY <1>1, <1>2, <1>5, <1>6, <3>3, <4>2 DEF OnLayer, Changing, Stamping
      <4> QED BY <1>2, <1>5, <1>6, <3>3, <4>1, <4>2, <4>3, LoneLayer
    <3> QED BY <3>2, <3>3
  <2>2. hollow' # {} => muddled' # {}
    BY <1>1, <1>2 DEF GovInv, LayersFit
  <2> QED BY <2>1, <2>2 DEF LayersFit
<1>11. ChainsFit'
  <2>1. ~G!Stamped(p)'
    BY <1>5, <1>6 DEF G!Stamped
  <2> QED BY <1>2, <1>6, <2>1, ChainsKeep DEF GovInv
<1>12. LogFits'
  BY <1>2 DEF GovInv, LogFits
<1> QED BY <1>7, <1>9, <1>10, <1>11, <1>12 DEF GovInv

(* The layers p is not about, in a step that logs nothing. *)
LEMMA OtherLayersKeep ==
  ASSUME GovInv, NEW p \in Processes, OthersKeep(p), UNCHANGED <<rows, log>>, written \subseteq written',
         muddled \subseteq muddled', job'[p].layer \in {job[p].layer, "none"}, "none" \notin G!LayerSet,
         NEW l \in G!LayerSet, l \notin muddled', l # job[p].layer
  PROVE  LayerFits(l)'
<1>1. LayerFits(l) /\ GovWorld
  BY DEF GovInv, LayersFit
<1>2. job'[p].layer # l
  OBVIOUS
<1> QED BY <1>1, <1>2, LayerKeeps

(* A step of a job that is about no change. *)
LEMMA QuietJob ==
  ASSUME GovInv, GovWorld', NEW p \in Processes, OthersKeep(p), "none" \notin G!LayerSet,
         UNCHANGED <<setting, clock, rows, log, changes, written, audited, lost, hollow, overlapped, muddled>>,
         job[p].id = 0, JobFits(job[p])', job'[p].id = 0, job'[p].layer = "none", ~G!Stamped(p)',
         p \in setting.procs
  PROVE  GovInv'
<1>1. job[p].layer = "none"
  BY DEF GovInv, ChangesFit, JobsFit, JobFits
<1>2. OnlyChanges(0)
  BY DEF OnlyChanges
<1>3. GovWorld /\ changes <= changes' /\ clock <= clock' /\ Len(log) <= Len(log')
  BY RowOfLog DEF GovInv, GovWorld
<1>4. ChangesFit'
  BY <1>2, <1>3, ChangesKeep DEF GovInv
<1>5. LayersFit'
  <2>1. ASSUME NEW l \in G!LayerSet, l \notin muddled' PROVE LayerFits(l)'
    BY <1>1, <2>1, OtherLayersKeep
  <2> QED BY <2>1 DEF GovInv, LayersFit
<1>6. ChainsFit'
  BY ChainsKeep DEF GovInv
<1> QED BY <1>4, <1>5, <1>6 DEF GovInv, LogFits

(* HandlerAudits: another handler's event is about no layer. *)
LEMMA GovHandlerAudits ==
  ASSUME G!GovernanceAssumption, GovInv, NEW p \in Processes, G!HandlerAudits(p)
  PROVE  GovInv'
<1>1. /\ UNCHANGED <<setting, clock, rows, log, changes, written, audited, lost, hollow, overlapped, muddled, failures>>
      /\ G!Answers(p)
  BY DEF G!HandlerAudits, G!NoFault
<1>2. PICK t \in Tenants : job' = [job EXCEPT ![p] = [G!Idle EXCEPT !.step = "stamp", !.tenant = t]]
  BY DEF G!HandlerAudits
<1>3. PICK n : n = [G!Idle EXCEPT !.step = "stamp", !.tenant = t]
  OBVIOUS
<1>4. n \in JobRows /\ n.step = "stamp" /\ n.id = 0 /\ n.layer = "none" /\ n.at = 0 /\ n.prev = 0
  BY <1>3, IdleJob DEF JobRows, JobSteps
<1>5. GovWorld
  BY DEF GovInv
<1>6. job' \in [Processes -> JobRows] /\ job'[p] = n /\ OthersKeep(p)
  BY <1>2, <1>3, <1>4, <1>5, JobSet
<1>7. GovWorld'
  BY <1>1, <1>5, <1>6 DEF GovWorld
<1>8. p \in setting.procs /\ job[p].id = 0
  BY <1>1 DEF G!Answers, GovInv, ChangesFit, JobsFit, JobFits
<1>9. JobFits(job[p])'
  <2>1. clock \in Nat /\ Len(log) \in Nat /\ changes \in Nat
    BY <1>5, RowOfLog DEF GovWorld
  <2> QED BY <1>1, <1>4, <1>6, <2>1 DEF JobFits, Changing, Stamping
<1>10. ~G!Stamped(p)'
  BY <1>4, <1>6 DEF G!Stamped
<1> QED BY <1>1, <1>4, <1>6, <1>7, <1>8, <1>9, <1>10, GovConstants, QuietJob

(* Resolve: the reads of a resolution begin. *)
LEMMA GovResolve ==
  ASSUME G!GovernanceAssumption, GovInv, NEW p \in Processes, G!Resolve(p)
  PROVE  GovInv'
<1>1. /\ UNCHANGED <<setting, clock, rows, log, changes, written, audited, lost, hollow, overlapped, muddled, failures>>
      /\ G!Answers(p) /\ job' = [job EXCEPT ![p] = [G!Idle EXCEPT !.step = "resolve"]]
  BY DEF G!Resolve, G!NoFault
<1>2. PICK n : n = [G!Idle EXCEPT !.step = "resolve"]
  OBVIOUS
<1>3. /\ n \in JobRows /\ n.step = "resolve" /\ n.id = 0 /\ n.layer = "none" /\ n.at = 0 /\ n.prev = 0
      /\ n.seen = <<>>
  BY <1>2, IdleJob DEF JobRows, JobSteps
<1>4. GovWorld
  BY DEF GovInv
<1>5. job' \in [Processes -> JobRows] /\ job'[p] = n /\ OthersKeep(p)
  BY <1>1, <1>2, <1>3, <1>4, JobSet
<1>6. GovWorld'
  BY <1>1, <1>4, <1>5 DEF GovWorld
<1>7. p \in setting.procs /\ job[p].id = 0
  BY <1>1 DEF G!Answers, GovInv, ChangesFit, JobsFit, JobFits
<1>8. JobFits(job[p])'
  <2>1. clock \in Nat /\ Len(log) \in Nat /\ changes \in Nat /\ Len(Layers) > 0 /\ Len(n.seen) = 0
    BY <1>3, <1>4, RowOfLog, GovConstants DEF GovWorld
  <2>2. Len(job'[p].seen) < Len(Layers)
    BY <1>3, <1>5, <2>1
  <2>3. job'[p].prev <= Len(log') /\ job'[p].at <= 2 * clock' + 4 /\ job'[p].id <= changes'
    <3>1. n.prev <= Len(log) /\ n.at <= 2 * clock + 4 /\ n.id <= changes
      BY <1>3, <2>1
    <3> QED BY <1>1, <1>5, <3>1
  <2> QED BY <1>3, <1>5, <2>2, <2>3 DEF JobFits, Changing, Stamping
<1>9. ~G!Stamped(p)'
  BY <1>3, <1>5 DEF G!Stamped
<1> QED BY <1>1, <1>3, <1>5, <1>6, <1>7, <1>8, <1>9, GovConstants, QuietJob

(* ReadLayer: a resolution reads its next layer. *)
LEMMA GovReadLayer ==
  ASSUME G!GovernanceAssumption, GovInv, NEW p \in Processes, G!ReadLayer(p)
  PROVE  GovInv'
<1> DEFINE seen == Append(job[p].seen, rows[Layers[Len(job[p].seen) + 1]])
<1>1. /\ UNCHANGED <<setting, clock, rows, log, changes, written, audited, lost, hollow, overlapped, muddled, failures>>
      /\ job[p].step = "resolve"
      /\ job' = [job EXCEPT ![p] = IF Len(seen) = Len(Layers) THEN G!Idle ELSE [job[p] EXCEPT !.seen = seen]]
  BY DEF G!ReadLayer, G!NoFault
<1>2. GovWorld
  BY DEF GovInv
<1>3. JobFits(job[p]) /\ p \in setting.procs /\ job[p].id = 0 /\ job[p].layer = "none"
  BY <1>1 DEF GovInv, ChangesFit, JobsFit, JobFits
<1>4. seen \in Seq(Weights) /\ Len(seen) <= Len(Layers) /\ Len(seen) \in Nat
  <2>1. Len(job[p].seen) \in Nat /\ Len(job[p].seen) < Len(Layers) /\ job[p].seen \in Seq(Weights)
    BY <1>1, <1>2, <1>3, JobFields, LenProperties DEF JobFits
  <2>2. rows[Layers[Len(job[p].seen) + 1]] \in Weights
    <3>1. Len(job[p].seen) + 1 \in 1..Len(Layers)
      BY <2>1, GovConstants
    <3> QED BY <1>2, <3>1, GovConstants DEF GovWorld
  <2>3. seen \in Seq(Weights) /\ Len(seen) = Len(job[p].seen) + 1
    BY <2>1, <2>2, AppendProperties
  <2> QED BY <2>1, <2>3, GovConstants
<1> HIDE DEF seen
<1>5. PICK n : n = IF Len(seen) = Len(Layers) THEN G!Idle ELSE [job[p] EXCEPT !.seen = seen]
  OBVIOUS
<1>6. /\ n \in JobRows /\ n.id = 0 /\ n.layer = "none" /\ n.step \in {"idle", "resolve"}
      /\ n.step = "resolve" => n.seen = seen /\ Len(seen) # Len(Layers)
      /\ n.at \in {0, job[p].at} /\ n.prev \in {0, job[p].prev}
  <2>1. CASE Len(seen) = Len(Layers)
    BY <1>5, <2>1, IdleJob
  <2>2. CASE Len(seen) # Len(Layers)
    <3>1. job[p] \in JobRows /\ n = [job[p] EXCEPT !.seen = seen]
      BY <1>2, <1>5, <2>2, JobFields
    <3>2. /\ n \in JobRows /\ n.step = job[p].step /\ n.id = job[p].id /\ n.layer = job[p].layer
          /\ n.seen = seen /\ n.at = job[p].at /\ n.prev = job[p].prev
      BY <1>4, <3>1 DEF JobRows
    <3> QED BY <1>1, <1>3, <2>2, <3>2
  <2> QED BY <2>1, <2>2
<1>7. job' \in [Processes -> JobRows] /\ job'[p] = n /\ OthersKeep(p)
  BY <1>1, <1>2, <1>5, <1>6, JobSet
<1>8. GovWorld'
  BY <1>1, <1>2, <1>7 DEF GovWorld
<1>9. JobFits(job[p])'
  <2>1. clock \in Nat /\ Len(log) \in Nat /\ changes \in Nat /\ job[p].prev <= Len(log) /\ job[p].at <= 2 * clock + 4
    BY <1>2, <1>3, RowOfLog DEF GovWorld, JobFits
  <2>2. n.prev <= Len(log) /\ n.at <= 2 * clock + 4
    BY <1>6, <2>1
  <2>3. n.step = "resolve" => Len(n.seen) < Len(Layers)
    BY <1>4, <1>6, GovConstants
  <2>4. job'[p].step = "resolve" => Len(job'[p].seen) < Len(Layers)
    BY <1>7, <2>3
  <2>5. job'[p].prev <= Len(log') /\ job'[p].at <= 2 * clock' + 4 /\ job'[p].id <= changes'
    <3>1. n.id <= changes
      BY <1>6, <2>1
    <3> QED BY <1>1, <1>7, <2>2, <3>1
  <2> QED BY <1>6, <1>7, <2>4, <2>5 DEF JobFits, Changing, Stamping
<1>10. ~G!Stamped(p)'
  BY <1>6, <1>7 DEF G!Stamped
<1> QED BY <1>1, <1>3, <1>6, <1>7, <1>8, <1>9, <1>10, GovConstants, QuietJob

(* A job about a layer whose changes never overlapped is alone with it,    *)
(* and knows what it holds.                                                *)
LEMMA OnOwnLayer ==
  ASSUME GovInv, NEW p \in Processes, NEW l \in G!LayerSet, l \notin muddled, job[p].layer = l
  PROVE  /\ OnLayer(job[p], l) /\ Replays(log, l) /\ \A q \in Processes \ {p} : job[q].layer # l
BY DEF GovInv, LayersFit, LayerFits

(* Find: a deletion finds its row unless another change took it.           *)
LEMMA GovFind ==
  ASSUME G!GovernanceAssumption, GovInv, NEW p \in Processes, G!Find(p)
  PROVE  GovInv'
<1> DEFINE gone == job[p].new = None /\ rows[job[p].layer] = None
<1>1. /\ UNCHANGED <<setting, clock, rows, log, changes, written, audited, lost, overlapped, muddled, failures>>
      /\ job[p].step = "find"
      /\ job' = [job EXCEPT ![p].step = IF gone THEN "stamp" ELSE "write", ![p].found = rows[job[p].layer]]
      /\ hollow' = IF gone THEN hollow \cup {job[p].id} ELSE hollow
  BY DEF G!Find, G!NoFault
<1>2. GovWorld /\ JobFits(job[p])
  BY DEF GovInv, ChangesFit, JobsFit
<1>3. PICK y : y = job[p].id
  OBVIOUS
<1>4. y \in Nat /\ y # 0 /\ y <= changes /\ job[p].layer \in G!LayerSet
  BY <1>1, <1>2, <1>3, JobFields DEF JobFits, Changing, Places
<1>5. y \notin written /\ y \notin audited /\ y \notin hollow /\ y \notin lost /\ y \in 1..changes
  BY <1>1, <1>2, <1>3, <1>4 DEF JobFits, Changing, GovWorld
<1>6. PICK n : n = [job[p] EXCEPT !.step = IF gone THEN "stamp" ELSE "write", !.found = rows[job[p].layer]]
  OBVIOUS
<1>7. /\ n \in JobRows /\ n.step = (IF gone THEN "stamp" ELSE "write") /\ n.found = rows[job[p].layer]
      /\ n.id = y /\ n.layer = job[p].layer /\ n.at = job[p].at /\ n.prev = job[p].prev
      /\ n.old = job[p].old /\ n.new = job[p].new
  <2>1. rows[job[p].layer] \in Weights
    BY <1>2, <1>4 DEF GovWorld
  <2> QED BY <1>2, <1>3, <1>6, <2>1, JobFields, ZenonT(60) DEF JobRows, JobSteps
<1>8. job' \in [Processes -> JobRows] /\ job'[p] = n /\ OthersKeep(p)
  <2>1. job' = [job EXCEPT ![p] = n]
    BY <1>1, <1>2, <1>6 DEF GovWorld
  <2> QED BY <1>2, <1>7, <2>1, JobSet
<1>9. GovWorld'
  BY <1>1, <1>2, <1>3, <1>5, <1>8 DEF GovWorld
<1>10. ChangesFit'
  <2>1. JobFits(job[p])'
    <3>1. job'[p].prev <= Len(log') /\ job'[p].at <= 2 * clock' + 4 /\ job'[p].id <= changes'
      <4>1. n.prev <= Len(log) /\ n.at <= 2 * clock + 4 /\ n.id <= changes
        BY <1>2, <1>4, <1>7 DEF JobFits
      <4> QED BY <1>1, <1>8, <4>1
    <3>2. n.step = "write" => y \notin hollow'
      BY <1>1, <1>5, <1>7
    <3>3. n.step = "stamp" => y \in hollow'
      BY <1>1, <1>3, <1>7
    <3>4. n.layer # "none" /\ n.step \in {"write", "stamp"}
      BY <1>2, <1>3, <1>4, <1>7 DEF JobFits
    <3> QED BY <1>1, <1>4, <1>5, <1>7, <1>8, <3>1, <3>2, <3>3, <3>4 DEF JobFits, Changing, Stamping
  <2>2. OnlyChanges(y)
    BY <1>1, <1>3 DEF OnlyChanges
  <2>3. changes <= changes' /\ clock <= clock' /\ Len(log) <= Len(log')
    BY <1>1, <1>2, RowOfLog DEF GovWorld
  <2>4. Fate(y)'
    BY <1>1, <1>5 DEF Fate
  <2>5. p \notin setting.procs => job'[p].step = "idle"
    BY <1>1 DEF GovInv, ChangesFit, JobsFit
  <2>6. job'[p].id = y
    BY <1>7, <1>8
  <2>7. ChangesFit /\ UNCHANGED setting
    BY <1>1 DEF GovInv
  <2> QED BY <1>2, <1>3, <1>8, <1>9, <2>1, <2>2, <2>3, <2>4, <2>5, <2>6, <2>7, ChangesKeep
<1>11. job[p].layer \notin muddled => /\ ~gone /\ OnLayer(job[p], job[p].layer)
  BY <1>1, <1>4, OnOwnLayer DEF OnLayer, Changing
<1>12. LayersFit'
  <2>1. ASSUME NEW l \in G!LayerSet, l \notin muddled' PROVE LayerFits(l)'
    <3>1. CASE l # job[p].layer
      BY <1>1, <1>7, <1>8, <2>1, <3>1, GovConstants, OtherLayersKeep
    <3>2. CASE l = job[p].layer
      <4>1. OnLayer(job[p], l) /\ Replays(log, l) /\ \A q \in Processes \ {p} : job[q].layer # l
        BY <1>1, <2>1, <3>2, OnOwnLayer
      <4>2. OnLayer(job[p], l)'
        BY <1>1, <1>7, <1>8, <1>11, <2>1, <3>2, <4>1 DEF OnLayer, Changing, Stamping
      <4> QED BY <1>1, <1>7, <1>8, <3>2, <4>1, <4>2, LoneLayer
    <3> QED BY <3>1, <3>2
  <2>2. hollow' # {} => muddled' # {}
    BY <1>1, <1>11 DEF GovInv, LayersFit
  <2> QED BY <2>1, <2>2 DEF LayersFit
<1>13. ChainsFit'
  <2>1. ~G!Stamped(p)'
    BY <1>7, <1>8 DEF G!Stamped
  <2> QED BY <1>1, <1>8, <2>1, ChainsKeep DEF GovInv
<1>14. LogFits'
  BY <1>1 DEF GovInv, LogFits
<1> QED BY <1>9, <1>10, <1>12, <1>13, <1>14 DEF GovInv

(* Write: it applies unless another change of the layer came between.      *)
LEMMA GovWrite ==
  ASSUME G!GovernanceAssumption, GovInv, NEW p \in Processes, G!Write(p)
  PROVE  GovInv'
<1> DEFINE inserts == job[p].new # None /\ job[p].found = None
           stored == rows[job[p].layer]
           applies == IF inserts THEN stored = None ELSE stored # None
           refused == inserts /\ stored # None
<1>1. /\ UNCHANGED <<setting, clock, log, changes, audited, lost, overlapped, muddled, failures>>
      /\ job[p].step = "write"
      /\ rows' = IF applies THEN [rows EXCEPT ![job[p].layer] = job[p].new] ELSE rows
      /\ job' = [q \in Processes |->
           IF q = p THEN (IF refused THEN G!Idle ELSE [job[p] EXCEPT !.step = "stamp"])
           ELSE [job[q] EXCEPT !.torn = @ \/ (applies /\ job[q].step = "resolve")]]
      /\ written' = IF applies THEN written \cup {job[p].id} ELSE written
      /\ hollow' = IF applies \/ refused THEN hollow ELSE hollow \cup {job[p].id}
  BY DEF G!Write, G!NoFault, G!Audits
<1>2. GovWorld /\ JobFits(job[p])
  BY DEF GovInv, ChangesFit, JobsFit
<1>3. PICK y : y = job[p].id
  OBVIOUS
<1>4. y \in Nat /\ y # 0 /\ y <= changes /\ job[p].layer \in G!LayerSet /\ job[p].new \in Weights
  BY <1>1, <1>2, <1>3, JobFields DEF JobFits, Changing, Places
<1>5. y \notin written /\ y \notin audited /\ y \notin hollow /\ y \notin lost /\ y \in 1..changes
  BY <1>1, <1>2, <1>3, <1>4 DEF JobFits, Changing, GovWorld
<1>6. PICK n : n = IF refused THEN G!Idle ELSE [job[p] EXCEPT !.step = "stamp"]
  OBVIOUS
<1>7. /\ n \in JobRows
      /\ refused => n = G!Idle
      /\ ~refused => /\ n.step = "stamp" /\ n.id = y /\ n.layer = job[p].layer /\ n.at = job[p].at
                     /\ n.prev = job[p].prev /\ n.old = job[p].old /\ n.new = job[p].new
  <2>1. CASE refused
    BY <1>6, <2>1, IdleJob
  <2>2. CASE ~refused
    BY <1>2, <1>3, <1>6, <2>2, JobFields, SMTT(40) DEF JobRows, JobSteps
  <2> QED BY <2>1, <2>2
<1>8. job' \in [Processes -> JobRows] /\ job'[p] = n /\ OthersKeep(p)
  <2>1. ASSUME NEW q \in Processes, q # p PROVE job'[q] \in JobRows /\ SameJob(job'[q], job[q])
    <3>1. job'[q] = [job[q] EXCEPT !.torn = @ \/ (applies /\ job[q].step = "resolve")]
      BY <1>1, <2>1
    <3>2. job[q] \in JobRows
      BY <1>2, JobFields
    <3>3. (job[q].torn \/ (applies /\ job[q].step = "resolve")) \in BOOLEAN
      BY <3>2 DEF JobRows
    <3> HIDE DEF applies
    <3> QED BY <3>1, <3>2, <3>3 DEF JobRows, SameJob
  <2>2. job'[p] = n
    BY <1>1, <1>6
  <2> QED BY <1>1, <1>7, <2>1, <2>2 DEF OthersKeep
<1>9. rows' \in [G!LayerSet -> Weights] /\ \A l \in G!LayerSet : l # job[p].layer => rows'[l] = rows[l]
  BY <1>1, <1>2, <1>4 DEF GovWorld
<1>10. GovWorld'
  BY <1>1, <1>2, <1>3, <1>5, <1>8, <1>9 DEF GovWorld
<1>11. ChangesFit'
  <2>1. JobFits(job[p])'
    <3>1. CASE refused
      <4>1. clock \in Nat /\ Len(log) \in Nat /\ changes \in Nat
        BY <1>2, RowOfLog DEF GovWorld
      <4>2. job'[p] = G!Idle
        BY <1>7, <1>8, <3>1
      <4>3. job'[p].prev <= Len(log') /\ job'[p].at <= 2 * clock' + 4 /\ job'[p].id <= changes'
        <5>1. 0 <= Len(log) /\ 0 <= 2 * clock + 4 /\ 0 <= changes
          BY <4>1
        <5> QED BY <1>1, <4>2, <5>1, IdleJob
      <4> QED BY <4>2, <4>3, IdleJob DEF JobFits, Changing, Stamping
    <3>2. CASE ~refused
      <4>1. job'[p].prev <= Len(log') /\ job'[p].at <= 2 * clock' + 4 /\ job'[p].id <= changes'
        <5>1. n.prev <= Len(log) /\ n.at <= 2 * clock + 4 /\ n.id <= changes
          BY <1>2, <1>4, <1>7, <3>2 DEF JobFits
        <5> QED BY <1>1, <1>8, <5>1
      <4>2. y \in written' \cup hollow' /\ n.layer # "none"
        BY <1>1, <1>2, <1>3, <1>4, <1>7, <3>2 DEF JobFits
      <4>3. job'[p].step = "stamp" /\ job'[p].id = y /\ job'[p].layer # "none"
        BY <1>7, <1>8, <3>2, <4>2
      <4>4. y \notin audited' /\ y \notin lost'
        BY <1>1, <1>5
      <4> HIDE DEF refused, applies
      <4> QED BY <1>4, <4>1, <4>2, <4>3, <4>4 DEF JobFits, Changing, Stamping
    <3> QED BY <3>1, <3>2
  <2>2. OnlyChanges(y)
    BY <1>1, <1>3 DEF OnlyChanges
  <2>3. changes <= changes' /\ clock <= clock' /\ Len(log) <= Len(log')
    BY <1>1, <1>2, RowOfLog DEF GovWorld
  <2>4. Fate(y)'
    <3>1. y \in written' => ~refused /\ applies
      BY <1>1, <1>5
    <3>2. y \in written' => job'[p].id = y /\ y \notin hollow'
      BY <1>1, <1>5, <1>7, <1>8, <3>1
    <3> HIDE DEF refused, applies
    <3> QED BY <1>1, <1>5, <3>2 DEF Fate
  <2>5. p \notin setting.procs => job'[p].step = "idle"
    BY <1>1 DEF GovInv, ChangesFit, JobsFit
  <2>6. job'[p].id \in {0, y}
    BY <1>7, <1>8, IdleJob
  <2>7. ChangesFit /\ UNCHANGED setting
    BY <1>1 DEF GovInv
  <2> QED BY <1>2, <1>3, <1>8, <1>10, <2>1, <2>2, <2>3, <2>4, <2>5, <2>6, <2>7, ChangesKeep
<1>12. job[p].layer \notin muddled => applies /\ OnLayer(job[p], job[p].layer)
  BY <1>1, <1>4, OnOwnLayer DEF OnLayer, Changing
<1>13. LayersFit'
  <2>1. ASSUME NEW l \in G!LayerSet, l \notin muddled' PROVE LayerFits(l)'
    <3>1. CASE l # job[p].layer
      <4>1. LayerFits(l) /\ job'[p].layer # l
        <5>1. job'[p].layer \in {job[p].layer, "none"}
          BY <1>7, <1>8, IdleJob
        <5> QED BY <1>1, <2>1, <3>1, <5>1, GovConstants DEF GovInv, LayersFit
      <4>2. written \subseteq written'
        BY <1>1
      <4> QED BY <1>1, <1>2, <1>8, <1>9, <3>1, <4>1, <4>2, LayerKeeps
    <3>2. CASE l = job[p].layer
      <4>1. OnLayer(job[p], l) /\ Replays(log, l) /\ \A q \in Processes \ {p} : job[q].layer # l
        BY <1>1, <2>1, <3>2, OnOwnLayer
      <4>2. applies /\ ~refused
        BY <1>1, <1>12, <2>1, <3>2
      <4>3. rows'[l] = job[p].new /\ y \in written'
        BY <1>1, <1>2, <1>3, <1>4, <3>2, <4>2 DEF GovWorld
      <4>4. OnLayer(job[p], l)'
        <5> HIDE DEF applies, refused
        <5> QED BY <1>1, <1>7, <1>8, <3>2, <4>1, <4>2, <4>3 DEF OnLayer, Changing, Stamping
      <4>5. job'[p].layer = l
        BY <1>7, <1>8, <3>2, <4>2
      <4> QED BY <1>1, <1>8, <4>1, <4>4, <4>5, LoneLayer
    <3> QED BY <3>1, <3>2
  <2>2. hollow' # {} => muddled' # {}
    BY <1>1, <1>12 DEF GovInv, LayersFit
  <2> QED BY <2>1, <2>2 DEF LayersFit
<1>14. ChainsFit'
  <2>1. ~G!Stamped(p)'
    BY <1>7, <1>8, IdleJob DEF G!Stamped
  <2> QED BY <1>1, <1>8, <2>1, ChainsKeep DEF GovInv
<1>15. LogFits'
  BY <1>1 DEF GovInv, LogFits
<1> QED BY <1>10, <1>11, <1>13, <1>14, <1>15 DEF GovInv

(* The layers in a step that changes no row, no change and no log.         *)
LEMMA SameLayers ==
  ASSUME GovInv, NEW p \in Processes, OthersKeep(p), "none" \notin G!LayerSet,
         UNCHANGED <<rows, log, written, hollow, muddled>>, job[p].step \in Stamping,
         job'[p].step \in Stamping, job'[p].layer = job[p].layer, job'[p].id = job[p].id,
         job'[p].old = job[p].old, job'[p].new = job[p].new
  PROVE  LayersFit'
<1>1. ASSUME NEW l \in G!LayerSet, l \notin muddled' PROVE LayerFits(l)'
  <2>1. CASE l # job[p].layer
    BY <1>1, <2>1, OtherLayersKeep
  <2>2. CASE l = job[p].layer
    <3>1. OnLayer(job[p], l) /\ Replays(log, l) /\ \A q \in Processes \ {p} : job[q].layer # l
      BY <1>1, <2>2, OnOwnLayer
    <3>2. OnLayer(job[p], l)'
      <4>1. job'[p].step \notin Changing /\ job'[p].step # "write"
        BY DEF Changing, Stamping
      <4> QED BY <2>2, <3>1, <4>1 DEF OnLayer
    <3> QED BY <2>2, <3>1, <3>2, LoneLayer
  <2> QED BY <2>1, <2>2
<1> QED BY <1>1 DEF GovInv, LayersFit

(* The changes in such a step. *)
LEMMA SameChanges ==
  ASSUME GovInv, GovWorld', NEW p \in Processes, OthersKeep(p),
         UNCHANGED <<setting, log, changes, written, audited, lost, hollow>>, clock <= clock',
         job[p].step \in Stamping, job'[p].step \in Stamping, job'[p].layer = job[p].layer,
         job'[p].id = job[p].id, job'[p].prev <= Len(log), job'[p].at <= 2 * clock' + 4
  PROVE  ChangesFit'
<1>1. GovWorld /\ ChangesFit /\ JobFits(job[p]) /\ (p \notin setting.procs => job[p].step = "idle")
  BY DEF GovInv, ChangesFit, JobsFit
<1>2. PICK y : y = job[p].id
  OBVIOUS
<1>3. JobFits(job[p])'
  <2>1. job'[p].step \notin Changing /\ job'[p].step \notin {"idle", "resolve"}
    BY DEF Changing, Stamping
  <2> QED BY <1>1, <2>1 DEF JobFits
<1>4. OnlyChanges(y) /\ changes <= changes' /\ Len(log) <= Len(log')
  BY <1>1, RowOfLog DEF OnlyChanges, GovWorld
<1>5. y # 0 => Fate(y)'
  <2>1. y # 0 => Fate(y) /\ job'[p].id = y
    <3>1. y \in Nat /\ y <= changes /\ changes \in Nat
      BY <1>1, <1>2, JobFields DEF JobFits, GovWorld
    <3> QED BY <1>1, <1>2, <3>1 DEF ChangesFit
  <2> QED BY <2>1 DEF Fate
<1>6. p \notin setting.procs => job'[p].step = "idle"
  BY <1>1 DEF Stamping
<1> QED BY <1>1, <1>2, <1>3, <1>4, <1>5, <1>6, ChangesKeep

(* Stamp: alone in its tenant or in overlapped, later than what is there.  *)
LEMMA GovStamp ==
  ASSUME G!GovernanceAssumption, GovInv, NEW p \in Processes, G!Stamp(p)
  PROVE  GovInv'
<1>1. /\ UNCHANGED <<setting, rows, log, changes, written, audited, lost, hollow, muddled, failures>>
      /\ job[p].step = "stamp" /\ clock' = clock + 1
      /\ job' = [job EXCEPT ![p].step = "link", ![p].at = G!Now(p)]
      /\ overlapped' = [overlapped EXCEPT !.jobs =
           IF G!Beside(p) = {} THEN @ \ {p} ELSE (@ \cup {p}) \cup G!Beside(p)]
  BY DEF G!Stamp, G!NoFault
<1>2. GovWorld /\ JobFits(job[p]) /\ clock \in Nat /\ clock' \in Nat
  BY <1>1 DEF GovInv, ChangesFit, JobsFit, GovWorld
<1>3. PICK now : now = G!Now(p)
  OBVIOUS
<1>4. now \in Nat /\ now <= 2 * clock + 3 /\ (setting.skewed = {} => now = 2 * clock)
  BY <1>2, <1>3 DEF G!Now
<1>5. PICK n : n = [job[p] EXCEPT !.step = "link", !.at = now]
  OBVIOUS
<1>6. /\ n \in JobRows /\ n.step = "link" /\ n.at = now /\ n.id = job[p].id /\ n.layer = job[p].layer
      /\ n.tenant = job[p].tenant /\ n.old = job[p].old /\ n.new = job[p].new /\ n.prev = job[p].prev
  BY <1>2, <1>4, <1>5, JobFields, ZenonT(60) DEF JobRows, JobSteps
<1>7. job' \in [Processes -> JobRows] /\ job'[p] = n /\ OthersKeep(p)
  <2>1. job' = [job EXCEPT ![p] = n]
    BY <1>1, <1>2, <1>3, <1>5 DEF GovWorld
  <2> QED BY <1>2, <1>6, <2>1, JobSet
<1>b. PICK beside : beside = G!Beside(p)
  OBVIOUS
<1>c. /\ beside \subseteq Processes
      /\ \A q \in Processes : q \in beside <=> q # p /\ G!Stamped(q) /\ job[q].tenant = job[p].tenant
      /\ setting.backend = "sqlite" => beside = {}
  <2>1. \A q \in Processes : q \notin setting.procs => job[q].step = "idle"
    BY DEF GovInv, ChangesFit, JobsFit
  <2>2. setting \in Settings /\ setting.procs \subseteq Processes
    BY <1>2, GovConstants DEF GovWorld
  <2>3. \A q \in Processes : G!Stamped(q) => q \in setting.procs
    BY <2>1 DEF G!Stamped
  <2>4. p \in setting.procs
    BY <1>1, <2>1
  <2>5. beside \subseteq Processes /\ beside \subseteq setting.procs \ {p}
    BY <1>b, <2>2 DEF G!Beside, G!Others
  <2>6. ASSUME NEW q \in Processes PROVE q \in beside <=> q # p /\ G!Stamped(q) /\ job[q].tenant = job[p].tenant
    BY <1>b, <2>3 DEF G!Beside, G!Others
  <2>7. ASSUME setting.backend = "sqlite" PROVE beside = {}
    <3>1. \A a, b \in setting.procs : a = b
      BY <2>2, <2>7, GovConstants
    <3> QED BY <2>4, <2>5, <3>1
  <2> QED BY <2>5, <2>6, <2>7
<1>o. /\ overlapped' \in Overlaps /\ overlapped'.rows = overlapped.rows
      /\ beside = {} => overlapped'.jobs = overlapped.jobs \ {p}
      /\ beside # {} => overlapped'.jobs = (overlapped.jobs \cup {p}) \cup beside
  <2>1. overlapped' = [overlapped EXCEPT !.jobs = IF beside = {} THEN @ \ {p} ELSE (@ \cup {p}) \cup beside]
    BY <1>1, <1>b
  <2>2. overlapped \in Overlaps
    BY <1>2 DEF GovWorld
  <2> QED BY <1>c, <2>1, <2>2 DEF Overlaps
<1>8. GovWorld'
  <2>1. overlapped' \in Overlaps
    BY <1>o
  <2> QED BY <1>1, <1>2, <1>7, <2>1 DEF GovWorld
<1>9. ChangesFit'
  <2>1. clock <= clock' /\ job'[p].at <= 2 * clock' + 4
    <3>1. clock <= clock' /\ now <= 2 * clock' + 4
      BY <1>1, <1>2, <1>4
    <3> QED BY <1>6, <1>7, <3>1
  <2>2. job'[p].prev <= Len(log)
    BY <1>2, <1>6, <1>7 DEF JobFits
  <2>3. job[p].step \in Stamping /\ job'[p].step \in Stamping
    BY <1>1, <1>6, <1>7 DEF Stamping
  <2> QED BY <1>1, <1>6, <1>7, <1>8, <2>1, <2>2, <2>3, SameChanges
<1>10. LayersFit'
  <2>1. job[p].step \in Stamping /\ job'[p].step \in Stamping
    BY <1>1, <1>6, <1>7 DEF Stamping
  <2> QED BY <1>1, <1>6, <1>7, <2>1, GovConstants, SameLayers
<1>11. ChainsFit'
  <2>6. ASSUME NEW q \in Processes, q # p
        PROVE  SameJob(job'[q], job[q]) /\ (G!Stamped(q)' => G!Stamped(q))
    BY <1>7, <2>6 DEF OthersKeep, SameJob, G!Stamped
  <2>0. ForestFits'
    <3>1. ForestFits
      BY DEF GovInv, ChainsFit
    <3>2. ASSUME NEW q \in Processes, job'[q].step = "insert" PROVE Rooted(log, job'[q].tenant, job'[q].prev)
      <4>1. q # p
        BY <1>6, <1>7, <3>2
      <4>2. SameJob(job'[q], job[q])
        BY <2>6, <4>1
      <4> QED BY <3>1, <3>2, <4>2 DEF ForestFits, SameJob
    <3>3. setting.backend = "sqlite" => overlapped'.jobs = {} /\ overlapped'.rows = {}
      BY <1>c, <1>o, <3>1 DEF ForestFits
    <3> QED BY <1>1, <3>1, <3>2, <3>3 DEF ForestFits
  <2>2. SUFFICES ASSUME setting.skewed = {}
        PROVE  /\ \A i \in 1..Len(log) : log[i].at < 2 * clock'
               /\ \A q \in Processes : StampFits(q)'
               /\ \A t \in Tenants : Chained(log, t, overlapped.rows)
    BY <1>1, <1>o, <2>0 DEF ChainsFit, OrderFits
  <2>3. /\ \A i \in 1..Len(log) : log[i].at < 2 * clock
        /\ \A q \in Processes : StampFits(q)
        /\ \A t \in Tenants : Chained(log, t, overlapped.rows)
    BY <2>2 DEF GovInv, ChainsFit, OrderFits
  <2>4. ASSUME NEW i \in 1..Len(log) PROVE log[i].at < 2 * clock'
    BY <1>1, <1>2, <2>3, RowOfLog DEF GovWorld
  <2>7. StampFits(p)'
    <3>1. job'[p].at < 2 * clock' /\ job'[p].step # "insert" /\ job'[p].tenant = job[p].tenant
      <4>1. now < 2 * clock'
        BY <1>1, <1>2, <1>4, <2>2
      <4> QED BY <1>6, <1>7, <4>1
    <3>2. \A i \in RowsIn(log, job[p].tenant) : log[i].at < job'[p].at
      <4>1. RowsIn(log, job[p].tenant) \subseteq 1..Len(log)
        BY <1>2, RowOfLog DEF RowsIn, GovWorld
      <4> QED BY <1>4, <1>6, <1>7, <2>2, <2>3, <4>1
    <3>3. ASSUME p \notin overlapped'.jobs PROVE AloneFits(p)'
      <4>1. beside = {}
        BY <1>o, <3>3
      <4>2. ASSUME NEW q \in Processes, q # p, G!Stamped(q)' PROVE job'[q].tenant # job'[p].tenant
        BY <1>c, <2>6, <3>1, <4>1, <4>2 DEF SameJob
      <4> QED BY <1>1, <3>1, <3>2, <4>2 DEF AloneFits
    <3> QED BY <1>1, <3>1, <3>2, <3>3 DEF StampFits
  <2>8. ASSUME NEW q \in Processes, q # p PROVE StampFits(q)'
    <3>1. SUFFICES ASSUME G!Stamped(q)' PROVE StampFits(q)'
      BY DEF StampFits
    <3>2. G!Stamped(q) /\ StampFits(q) /\ SameJob(job'[q], job[q]) /\ job[q].at \in Nat
      BY <1>2, <2>3, <2>6, <2>8, <3>1, JobFields
    <3>3. job'[q].at < 2 * clock'
      BY <1>1, <1>2, <3>2 DEF StampFits, SameJob
    <3>4. ASSUME q \notin overlapped'.jobs PROVE AloneFits(q)'
      <4>0. q \notin beside /\ q \notin overlapped.jobs
        BY <1>o, <2>8, <3>4
      <4>3. AloneFits(q) /\ job[p].tenant # job[q].tenant
        BY <1>c, <2>8, <3>2, <4>0 DEF StampFits
      <4>4. ASSUME NEW r \in Processes, r # q, G!Stamped(r)' PROVE job'[r].tenant # job'[q].tenant
        <5>1. CASE r = p
          BY <1>6, <1>7, <3>2, <4>3, <5>1 DEF SameJob
        <5>2. CASE r # p
          BY <2>6, <3>2, <4>3, <4>4, <5>2 DEF AloneFits, SameJob
        <5> QED BY <5>1, <5>2
      <4> HIDE DEF IsLatest
      <4> QED BY <1>1, <3>2, <4>3, <4>4 DEF AloneFits, SameJob
    <3>5. \A i \in RowsIn(log', job'[q].tenant) \ overlapped'.rows : log'[i].at < job'[q].at
      BY <1>1, <1>o, <3>2 DEF StampFits, SameJob
    <3> QED BY <3>3, <3>4, <3>5 DEF StampFits
  <2> QED BY <2>3, <2>4, <2>7, <2>8
<1>12. LogFits'
  <2>1. ASSUME NEW i \in 1..Len(log) PROVE log[i].prev < Len(log) /\ log[i].at <= 2 * clock' + 4
    <3>1. log[i].prev < Len(log) /\ log[i].at <= 2 * clock + 4 /\ log[i].at \in Nat
      BY <1>2, RowOfLog DEF GovInv, LogFits, GovWorld
    <3> QED BY <1>1, <1>2, <3>1
  <2> QED BY <1>1, <2>1 DEF LogFits
<1> QED BY <1>8, <1>9, <1>10, <1>11, <1>12 DEF GovInv

(* Link: the newest row is the latest of the tenant's. *)
LEMMA GovLink ==
  ASSUME G!GovernanceAssumption, GovInv, NEW p \in Processes, G!Link(p)
  PROVE  GovInv'
<1>1. /\ UNCHANGED <<setting, clock, rows, log, changes, written, audited, lost, hollow, overlapped, muddled, failures>>
      /\ job[p].step = "link"
      /\ job' = [job EXCEPT ![p].step = "insert", ![p].prev = G!Newest(job[p].tenant)]
  BY DEF G!Link, G!NoFault
<1>2. GovWorld /\ JobFits(job[p]) /\ clock \in Nat
  BY DEF GovInv, ChangesFit, JobsFit, GovWorld
<1>3. PICK prev : prev = G!Newest(job[p].tenant)
  OBVIOUS
<1>4. prev \in Nat /\ prev <= Len(log) /\ IsLatest(log, RowsIn(log, job[p].tenant), prev)
  <2>1. log \in Seq(LogRows) /\ Len(log) \in Nat /\ DOMAIN log = 1..Len(log)
    BY <1>2, RowOfLog DEF GovWorld
  <2>2. \A i \in DOMAIN log : log[i].at <= 2 * clock + 4
    BY <2>1 DEF GovInv, LogFits
  <2>3. 2 * clock + 4 \in Nat
    BY <1>2
  <2>4. prev \in 0..Len(log) /\ IsLatest(log, RowsIn(log, job[p].tenant), prev)
    BY <1>3, <2>1, <2>2, <2>3, NewestIsLatest
  <2> QED BY <2>1, <2>4
<1>5. PICK n : n = [job[p] EXCEPT !.step = "insert", !.prev = prev]
  OBVIOUS
<1>6. /\ n \in JobRows /\ n.step = "insert" /\ n.prev = prev /\ n.id = job[p].id /\ n.layer = job[p].layer
      /\ n.tenant = job[p].tenant /\ n.old = job[p].old /\ n.new = job[p].new /\ n.at = job[p].at
  BY <1>2, <1>4, <1>5, JobFields, ZenonT(60) DEF JobRows, JobSteps
<1>7. job' \in [Processes -> JobRows] /\ job'[p] = n /\ OthersKeep(p)
  <2>1. job' = [job EXCEPT ![p] = n]
    BY <1>1, <1>2, <1>3, <1>5 DEF GovWorld
  <2> QED BY <1>2, <1>6, <2>1, JobSet
<1>8. GovWorld'
  BY <1>1, <1>2, <1>7 DEF GovWorld
<1>9. job[p].step \in Stamping /\ job'[p].step \in Stamping
  BY <1>1, <1>6, <1>7 DEF Stamping
<1>10. ChangesFit'
  <2>1. clock <= clock' /\ job'[p].at <= 2 * clock' + 4
    <3>1. n.at <= 2 * clock + 4
      BY <1>2, <1>6 DEF JobFits
    <3>2. clock <= clock'
      BY <1>1, <1>2
    <3> QED BY <1>1, <1>7, <3>1, <3>2
  <2>2. job'[p].prev <= Len(log)
    BY <1>4, <1>6, <1>7
  <2> QED BY <1>1, <1>6, <1>7, <1>8, <1>9, <2>1, <2>2, SameChanges
<1>11. LayersFit'
  BY <1>1, <1>6, <1>7, <1>9, GovConstants, SameLayers
<1>12. ChainsFit'
  <2>0. ForestFits'
    <3>1. ForestFits
      BY DEF GovInv, ChainsFit
    <3>2. ASSUME NEW q \in Processes, job'[q].step = "insert" PROVE Rooted(log, job'[q].tenant, job'[q].prev)
      <4>1. CASE q = p
        BY <1>4, <1>6, <1>7, <4>1 DEF Rooted, IsLatest
      <4>2. CASE q # p
        <5>1. SameJob(job'[q], job[q])
          BY <1>7, <4>2 DEF OthersKeep
        <5> QED BY <3>1, <3>2, <5>1 DEF ForestFits, SameJob
      <4> QED BY <4>1, <4>2
    <3> QED BY <1>1, <3>1, <3>2 DEF ForestFits
  <2>1. SUFFICES ASSUME setting.skewed = {} PROVE \A q \in Processes : StampFits(q)'
    BY <1>1, <2>0 DEF GovInv, ChainsFit, OrderFits
  <2>2. \A q \in Processes : StampFits(q)
    BY <2>1 DEF GovInv, ChainsFit, OrderFits
  <2>3. ASSUME NEW q \in Processes
        PROVE  /\ G!Stamped(q)' <=> G!Stamped(q)
               /\ job'[q].tenant = job[q].tenant /\ job'[q].at = job[q].at
               /\ q # p => job'[q].prev = job[q].prev /\ job'[q].step = job[q].step
    <3>1. CASE q = p
      BY <1>1, <1>6, <1>7, <3>1 DEF G!Stamped
    <3>2. CASE q # p
      BY <1>7, <3>2 DEF OthersKeep, SameJob, G!Stamped
    <3> QED BY <3>1, <3>2
  <2>4. ASSUME NEW q \in Processes, G!Stamped(q)' PROVE StampFits(q)'
    <3>1. G!Stamped(q) /\ StampFits(q)
      BY <2>2, <2>3, <2>4
    <3>4. ASSUME q \notin overlapped.jobs PROVE AloneFits(q)'
      <4>0. AloneFits(q)
        BY <3>1, <3>4 DEF StampFits
      <4>1. ASSUME NEW r \in Processes, r # q, G!Stamped(r)' PROVE job'[r].tenant # job'[q].tenant
        BY <2>3, <4>0, <4>1 DEF AloneFits
      <4>2. job'[q].step = "insert" => IsLatest(log, RowsIn(log, job[q].tenant), job'[q].prev)
        <5>1. CASE q = p
          BY <1>4, <1>6, <1>7, <5>1
        <5>2. CASE q # p
          BY <2>3, <4>0, <5>2 DEF AloneFits
        <5> QED BY <5>1, <5>2
      <4> HIDE DEF IsLatest
      <4> QED BY <1>1, <2>3, <4>0, <4>1, <4>2 DEF AloneFits
    <3> HIDE DEF AloneFits
    <3> QED BY <1>1, <2>3, <3>1, <3>4 DEF StampFits
  <2> QED BY <2>4 DEF StampFits
<1>13. LogFits'
  BY <1>1 DEF GovInv, LogFits
<1> QED BY <1>8, <1>10, <1>11, <1>12, <1>13 DEF GovInv

(* Log e has the rows and the latest of t that d has. *)
SameRows(d, e, t) ==
  /\ RowsIn(e, t) = RowsIn(d, t)
  /\ \A i \in RowsIn(d, t) : e[i] = d[i]
  /\ \A i : IsLatest(d, RowsIn(d, t), i) => IsLatest(e, RowsIn(d, t), i)

(* A row of another tenant leaves a tenant's latest. *)
LEMMA LatestStays ==
  ASSUME NEW d \in Seq(LogRows), NEW row \in LogRows, NEW t, row.tenant # t, NEW e, e = Append(d, row)
  PROVE  SameRows(d, e, t)
<1> DEFINE n == Len(d) + 1
<1>1. /\ Len(d) \in Nat /\ n \in Nat /\ DOMAIN d = 1..Len(d) /\ DOMAIN e = 1..n /\ e[n] = row
      /\ \A i \in 1..Len(d) : e[i] = d[i]
  BY LogAppend
<1>2. RowsIn(e, t) = RowsIn(d, t) /\ RowsIn(d, t) \subseteq 1..Len(d)
  BY <1>1 DEF RowsIn
<1>3. \A i \in RowsIn(d, t) : e[i] = d[i]
  BY <1>1, <1>2
<1>4. ASSUME NEW i, IsLatest(d, RowsIn(d, t), i) PROVE IsLatest(e, RowsIn(d, t), i)
  BY <1>3, <1>4 DEF IsLatest
<1> QED BY <1>2, <1>3, <1>4 DEF SameRows

(* Insert: the row starts from what the layer's last left, and is linked   *)
(* to the latest of its tenant.                                            *)
LEMMA GovInsert ==
  ASSUME G!GovernanceAssumption, GovInv, NEW p \in Processes, G!Insert(p)
  PROVE  GovInv'
<1>1. /\ UNCHANGED <<setting, clock, rows, changes, written, lost, hollow, muddled, failures>>
      /\ job[p].step = "insert"
      /\ log' = Append(log, G!Row(job[p]))
      /\ overlapped' = [jobs |-> overlapped.jobs \ {p},
                        rows |-> IF p \in overlapped.jobs THEN overlapped.rows \cup {Len(log) + 1}
                                 ELSE overlapped.rows]
      /\ audited' = IF job[p].id = 0 THEN audited ELSE audited \cup {job[p].id}
      /\ job' = [job EXCEPT ![p] = G!Idle]
  BY DEF G!Insert, G!NoFault, G!Committed
<1>2. GovWorld /\ JobFits(job[p]) /\ clock \in Nat
  BY DEF GovInv, ChangesFit, JobsFit, GovWorld
<1>3. PICK row : row = G!Row(job[p])
  OBVIOUS
<1>4. /\ row \in LogRows /\ row.tenant = job[p].tenant /\ row.layer = job[p].layer /\ row.at = job[p].at
      /\ row.prev = job[p].prev /\ row.old = job[p].old /\ row.new = G!Given(job[p].new)
      /\ row.hash = G!Hash("text", row.at, row.prev, row.old, row.new)
  <2>1. PICK left : left = G!Given(job[p].new)
    OBVIOUS
  <2>2. left \in Lefts
    BY <1>2, <2>1, JobFields DEF G!Given, Weights, Lefts
  <2>3. PICK hash : hash = G!Hash("text", job[p].at, job[p].prev, job[p].old, left)
    OBVIOUS
  <2>4. hash \in Hashes
    BY <1>2, <2>2, <2>3, JobFields DEF Hashes, G!Hash
  <2>5. row = [tenant |-> job[p].tenant, layer |-> job[p].layer, at |-> job[p].at,
               prev |-> job[p].prev, old |-> job[p].old, new |-> left, hash |-> hash]
    BY <1>3, <2>1, <2>3 DEF G!Row, G!Previous
  <2>6. /\ row \in LogRows /\ row.tenant = job[p].tenant /\ row.layer = job[p].layer /\ row.at = job[p].at
        /\ row.prev = job[p].prev /\ row.old = job[p].old /\ row.new = left /\ row.hash = hash
    BY <1>2, <2>2, <2>4, <2>5, JobFields DEF LogRows
  <2> QED BY <2>1, <2>3, <2>6
<1>5. log' = Append(log, row) /\ log \in Seq(LogRows)
  BY <1>1, <1>2, <1>3 DEF GovWorld
<1>6. /\ log' \in Seq(LogRows) /\ Len(log) \in Nat /\ Len(log') = Len(log) + 1 /\ DOMAIN log = 1..Len(log)
      /\ log'[Len(log) + 1] = row /\ \A i \in 1..Len(log) : log'[i] = log[i]
  BY <1>4, <1>5, LogAppend
<1>7. job' \in [Processes -> JobRows] /\ job'[p] = G!Idle /\ OthersKeep(p)
  BY <1>1, <1>2, IdleJob, JobSet
<1>8. PICK y : y = job[p].id
  OBVIOUS
<1>9. y \in Nat /\ (y # 0 => y \in 1..changes /\ y \in written \cup hollow /\ y \notin lost)
  <2>1. y # 0 => y \in written \cup hollow /\ y \notin lost
    BY <1>1, <1>2, <1>8 DEF JobFits, Stamping
  <2> QED BY <1>2, <1>8, <2>1, JobFields DEF GovWorld
<1>o. /\ overlapped' \in Overlaps
      /\ overlapped'.jobs = overlapped.jobs \ {p}
      /\ overlapped.rows \subseteq overlapped'.rows
      /\ overlapped'.rows \subseteq overlapped.rows \cup {Len(log) + 1}
      /\ p \in overlapped.jobs => (Len(log) + 1) \in overlapped'.rows
      /\ p \notin overlapped.jobs => overlapped'.rows = overlapped.rows
  <2>1. overlapped.jobs \subseteq Processes /\ overlapped.rows \subseteq Nat
    BY <1>2 DEF GovWorld, Overlaps
  <2>2. Len(log) + 1 \in Nat
    BY <1>6
  <2> QED BY <1>1, <2>1, <2>2 DEF Overlaps
<1>10. GovWorld'
  <2>1. audited' \subseteq 1..changes
    BY <1>1, <1>2, <1>8, <1>9 DEF GovWorld
  <2> QED BY <1>1, <1>2, <1>6, <1>7, <1>o, <2>1 DEF GovWorld
<1>11. ChangesFit'
  <2>1. JobFits(job[p])'
    <3>1. job'[p].prev <= Len(log') /\ job'[p].at <= 2 * clock' + 4 /\ job'[p].id <= changes'
      <4>1. 0 <= Len(log) + 1 /\ 0 <= 2 * clock + 4 /\ 0 <= changes
        BY <1>2, <1>6 DEF GovWorld
      <4> QED BY <1>1, <1>6, <1>7, <4>1, IdleJob
    <3> QED BY <1>7, <3>1, IdleJob DEF JobFits, Changing, Stamping
  <2>2. OnlyChanges(y)
    BY <1>1, <1>8 DEF OnlyChanges
  <2>3. changes <= changes' /\ clock <= clock' /\ Len(log) <= Len(log')
    BY <1>1, <1>2, <1>6 DEF GovWorld
  <2>4. y # 0 => Fate(y)'
    <3>1. ASSUME y # 0 PROVE Fate(y)'
      <4>1. Fate(y) /\ y \in audited'
        BY <1>1, <1>8, <1>9, <3>1 DEF GovInv, ChangesFit
      <4> QED BY <1>1, <1>9, <3>1, <4>1 DEF Fate
    <3> QED BY <3>1
  <2>5. job'[p].step = "idle" /\ job'[p].id = 0
    BY <1>7, IdleJob
  <2>6. ChangesFit /\ UNCHANGED setting
    BY <1>1 DEF GovInv
  <2> QED BY <1>2, <1>7, <1>8, <1>10, <2>1, <2>2, <2>3, <2>4, <2>5, <2>6, ChangesKeep
<1>12. LogFits'
  <2>1. ASSUME NEW i \in 1..Len(log') PROVE log'[i].prev < Len(log') /\ log'[i].at <= 2 * clock + 4
    <3>1. CASE i \in 1..Len(log)
      <4>1. log[i].prev < Len(log) /\ log[i].at <= 2 * clock + 4 /\ log[i].prev \in Nat
        BY <1>5, <3>1, RowOfLog DEF GovInv, LogFits
      <4> QED BY <1>6, <3>1, <4>1
    <3>2. CASE i = Len(log) + 1
      <4>1. row.prev <= Len(log) /\ row.at <= 2 * clock + 4 /\ row.prev \in Nat
        BY <1>2, <1>4, JobFields DEF JobFits
      <4> QED BY <1>6, <3>2, <4>1
    <3> QED BY <1>6, <2>1, <3>1, <3>2
  <2> QED BY <1>1, <2>1 DEF LogFits
<1>13. LayersFit'
  <2>1. ASSUME NEW l \in G!LayerSet, l \notin muddled' PROVE LayerFits(l)'
    <3>1. CASE l # job[p].layer
      <4>1. LayerFits(l) /\ job'[p].layer # l
        BY <1>1, <1>7, <2>1, IdleJob, GovConstants DEF GovInv, LayersFit
      <4> QED BY <1>1, <1>2, <1>4, <1>5, <1>7, <3>1, <4>1, LayerKeeps
    <3>2. CASE l = job[p].layer
      <4>1. OnLayer(job[p], l) /\ Replays(log, l) /\ \A q \in Processes \ {p} : job[q].layer # l
        BY <1>1, <2>1, <3>2, OnOwnLayer
      <4>2. G!Given(row.old) = LastLeft(log, l) /\ row.new = G!Given(rows[l])
        BY <1>1, <1>4, <4>1 DEF OnLayer, Stamping
      <4>3. Replays(log', l) /\ LastLeft(log', l) = G!Given(rows[l])
        BY <1>4, <1>5, <3>2, <4>1, <4>2, ReplaysAppend
      <4>4. job'[p].layer # l
        BY <1>7, IdleJob, GovConstants
      <4> QED BY <1>1, <1>7, <4>1, <4>3, <4>4, LoneLayer
    <3> QED BY <3>1, <3>2
  <2> QED BY <1>1, <2>1 DEF GovInv, LayersFit
<1>14. ChainsFit'
  <2>a. ForestFits
    BY DEF GovInv, ChainsFit
  <2>b. /\ Forest(log') /\ Sound(log')
        /\ \A t, i : Rooted(log, t, i) => Rooted(log', t, i)
    <3>1. Forest(log) /\ Sound(log) /\ Rooted(log, row.tenant, row.prev)
      BY <1>1, <1>4, <2>a DEF ForestFits
    <3> QED BY <1>4, <1>5, <3>1, ForestAppend
  <2>c. ForestFits'
    <3>1. ASSUME NEW q \in Processes, job'[q].step = "insert" PROVE Rooted(log', job'[q].tenant, job'[q].prev)
      <4>1. q # p
        BY <1>7, <3>1, IdleJob
      <4>2. SameJob(job'[q], job[q])
        BY <1>7, <4>1 DEF OthersKeep
      <4>3. Rooted(log, job[q].tenant, job[q].prev)
        BY <2>a, <3>1, <4>2 DEF ForestFits, SameJob
      <4> QED BY <2>b, <4>2, <4>3 DEF SameJob
    <3>2. setting.backend = "sqlite" => overlapped'.jobs = {} /\ overlapped'.rows = {}
      BY <1>o, <2>a DEF ForestFits
    <3> QED BY <1>1, <2>b, <3>1, <3>2 DEF ForestFits
  <2>1. SUFFICES ASSUME setting.skewed = {}
        PROVE  /\ \A i \in 1..Len(log') : log'[i].at < 2 * clock
               /\ \A q \in Processes : StampFits(q)'
               /\ \A t \in Tenants : Chained(log', t, overlapped'.rows)
    BY <1>1, <2>c DEF ChainsFit, OrderFits
  <2>2. /\ \A i \in 1..Len(log) : log[i].at < 2 * clock
        /\ \A q \in Processes : StampFits(q)
        /\ \A t \in Tenants : Chained(log, t, overlapped.rows)
    BY <2>1 DEF GovInv, ChainsFit, OrderFits
  <2>0. /\ row.at < 2 * clock
        /\ \A i \in RowsIn(log, row.tenant) \ overlapped.rows : log[i].at < row.at
        /\ p \notin overlapped.jobs => AloneFits(p)
    BY <1>1, <1>4, <2>2 DEF StampFits, G!Stamped
  <2>3. /\ row.at < 2 * clock
        /\ \A i \in RowsIn(log, row.tenant) \ overlapped.rows : log[i].at < row.at
        /\ p \notin overlapped.jobs =>
             /\ IsLatest(log, RowsIn(log, row.tenant), row.prev)
             /\ \A i \in RowsIn(log, row.tenant) : log[i].at < row.at
             /\ \A q \in Processes : q # p /\ G!Stamped(q) => job[q].tenant # row.tenant
    BY <1>1, <1>4, <2>0 DEF AloneFits
  <2>4. ASSUME NEW i \in 1..Len(log') PROVE log'[i].at < 2 * clock
    <3>1. i \in 1..Len(log) \/ i = Len(log) + 1
      BY <1>6
    <3> QED BY <1>6, <2>2, <2>3, <3>1
  <2>5. ASSUME NEW t \in Tenants PROVE Chained(log', t, overlapped'.rows)
    <3>1. Chained(log, t, overlapped.rows)
      BY <2>2
    <3>2. row.tenant = t =>
            /\ \A i \in RowsIn(log, t) \ overlapped.rows : log[i].at < row.at
            /\ (Len(log) + 1) \notin overlapped'.rows => /\ \A i \in RowsIn(log, t) : log[i].at < row.at
                                                         /\ IsLatest(log, RowsIn(log, t), row.prev)
      BY <1>o, <2>3
    <3> QED BY <1>4, <1>5, <1>o, <3>1, <3>2, ChainAppend
  <2>6. ASSUME NEW q \in Processes, G!Stamped(q)' PROVE StampFits(q)'
    <3>1. q # p /\ SameJob(job'[q], job[q]) /\ G!Stamped(q)
      BY <1>7, <2>6, IdleJob DEF OthersKeep, SameJob, G!Stamped
    <3>2. StampFits(q)
      BY <2>2
    <3>7. job'[q].at < 2 * clock'
      BY <1>1, <3>1, <3>2 DEF StampFits, SameJob
    <3>8. CASE job[q].tenant = row.tenant
      <4>1. p \in overlapped.jobs
        BY <2>3, <3>1, <3>8
      <4>2. q \in overlapped.jobs
        BY <1>1, <1>4, <3>1, <3>2, <3>8 DEF StampFits, AloneFits, G!Stamped
      <4>3. ASSUME NEW i \in RowsIn(log', job'[q].tenant) \ overlapped'.rows PROVE log'[i].at < job'[q].at
        <5>1. i \in 1..Len(log) /\ log'[i] = log[i] /\ i \in RowsIn(log, job[q].tenant) \ overlapped.rows
          BY <1>6, <1>o, <3>1, <4>1, <4>3 DEF RowsIn, SameJob
        <5> QED BY <3>1, <3>2, <5>1 DEF StampFits, SameJob
      <4>4. q \in overlapped'.jobs
        BY <1>o, <3>1, <4>2
      <4> QED BY <3>7, <4>3, <4>4 DEF StampFits
    <3>9. CASE job[q].tenant # row.tenant
      <4>0. PICK t : t = job[q].tenant
        OBVIOUS
      <4>1. /\ RowsIn(log', t) = RowsIn(log, t)
            /\ \A i \in RowsIn(log, t) : log'[i] = log[i]
            /\ \A i : IsLatest(log, RowsIn(log, t), i) => IsLatest(log', RowsIn(log, t), i)
        <5>1. log \in Seq(LogRows) /\ row \in LogRows /\ row.tenant # t
          BY <1>4, <1>5, <3>9, <4>0
        <5>2. log' = Append(log, row)
          BY <1>5
        <5>3. SameRows(log, log', t)
          BY <5>1, <5>2, LatestStays
        <5> QED BY <5>3 DEF SameRows
      <4>2. \A i \in RowsIn(log', job'[q].tenant) \ overlapped'.rows : log'[i].at < job'[q].at
        BY <1>o, <3>1, <3>2, <4>0, <4>1 DEF StampFits, SameJob
      <4>3. ASSUME q \notin overlapped'.jobs PROVE AloneFits(q)'
        <5>1. AloneFits(q)
          BY <1>o, <3>1, <3>2, <4>3 DEF StampFits
        <5>2. ASSUME NEW r \in Processes, r # q, G!Stamped(r)' PROVE job'[r].tenant # job'[q].tenant
          <6>1. r # p /\ SameJob(job'[r], job[r]) /\ G!Stamped(r)
            BY <1>7, <5>2, IdleJob DEF OthersKeep, SameJob, G!Stamped
          <6> QED BY <3>1, <5>1, <5>2, <6>1 DEF AloneFits, SameJob
        <5> HIDE DEF IsLatest, RowsIn
        <5>3. \A i \in RowsIn(log', job'[q].tenant) : log'[i].at < job'[q].at
          BY <3>1, <4>0, <4>1, <5>1 DEF AloneFits, SameJob
        <5>4. job'[q].step = "insert" => IsLatest(log', RowsIn(log', job'[q].tenant), job'[q].prev)
          BY <3>1, <4>0, <4>1, <5>1 DEF AloneFits, SameJob
        <5> QED BY <5>2, <5>3, <5>4 DEF AloneFits
      <4> QED BY <3>7, <4>2, <4>3 DEF StampFits
    <3> QED BY <3>8, <3>9
  <2> QED BY <2>4, <2>5, <2>6 DEF StampFits
<1> QED BY <1>10, <1>11, <1>12, <1>13, <1>14 DEF GovInv

(* Fails: what was written stays, without its row. *)
LEMMA GovFails ==
  ASSUME G!GovernanceAssumption, GovInv, NEW p \in Processes, G!Fails(p)
  PROVE  GovInv'
<1>1. /\ UNCHANGED <<setting, clock, rows, log, changes, written, audited, hollow, overlapped>>
      /\ job[p].step # "idle" /\ failures < setting.faults /\ failures' = failures + 1
      /\ job' = [job EXCEPT ![p] = G!Idle]
      /\ lost' = IF job[p].id \in written THEN lost \cup {job[p].id} ELSE lost
      /\ muddled' = IF job[p].id \in written THEN muddled \cup {job[p].layer} ELSE muddled
  BY DEF G!Fails, G!Fault
<1>2. GovWorld /\ JobFits(job[p]) /\ clock \in Nat
  BY DEF GovInv, ChangesFit, JobsFit, GovWorld
<1>3. job' \in [Processes -> JobRows] /\ job'[p] = G!Idle /\ OthersKeep(p)
  BY <1>1, <1>2, IdleJob, JobSet
<1>4. PICK y : y = job[p].id
  OBVIOUS
<1>5. GovWorld'
  <2>1. setting.faults \in Nat /\ failures \in 0..setting.faults
    BY <1>2, GovConstants DEF GovWorld
  <2>2. failures' \in 0..setting'.faults
    BY <1>1, <2>1
  <2>a. lost \subseteq 1..changes /\ written \subseteq 1..changes
    BY <1>2 DEF GovWorld
  <2>3. lost' \subseteq 1..changes
    BY <1>1, <2>a
  <2> QED BY <1>1, <1>2, <1>3, <2>2, <2>3 DEF GovWorld
<1>6. y \in written => /\ job[p].step \in Stamping /\ y # 0 /\ y \notin audited /\ y \in 1..changes
  <2>0. written \subseteq 1..changes
    BY <1>2 DEF GovWorld
  <2>1. y \in written => y # 0 /\ y \in 1..changes
    BY <2>0
  <2>2. job[p].step \in Changing \cup Stamping \cup {"idle", "resolve"}
    BY <1>2, JobFields DEF JobSteps, Changing, Stamping
  <2> QED BY <1>2, <1>4, <2>1, <2>2 DEF JobFits
<1>7. ChangesFit'
  <2>1. JobFits(job[p])'
    <3>1. job'[p].prev <= Len(log') /\ job'[p].at <= 2 * clock' + 4 /\ job'[p].id <= changes'
      <4>1. 0 <= Len(log) /\ 0 <= 2 * clock + 4 /\ 0 <= changes
        BY <1>2, RowOfLog DEF GovWorld
      <4> QED BY <1>1, <1>3, <4>1, IdleJob
    <3> QED BY <1>3, <3>1, IdleJob DEF JobFits, Changing, Stamping
  <2>2. OnlyChanges(y)
    BY <1>1, <1>4 DEF OnlyChanges
  <2>3. changes <= changes' /\ clock <= clock' /\ Len(log) <= Len(log')
    BY <1>1, <1>2, RowOfLog DEF GovWorld
  <2>4. y # 0 => Fate(y)'
    <3>1. ASSUME y # 0 PROVE Fate(y)'
      <4>1. Fate(y)
        <5>1. y \in 1..changes
          BY <1>2, <1>4, <3>1, JobFields DEF JobFits, GovWorld
        <5> QED BY <5>1 DEF GovInv, ChangesFit
      <4> QED BY <1>1, <1>4, <1>6, <4>1 DEF Fate
    <3> QED BY <3>1
  <2>5. job'[p].step = "idle" /\ job'[p].id = 0
    BY <1>3, IdleJob
  <2>6. ChangesFit /\ UNCHANGED setting
    BY <1>1 DEF GovInv
  <2> QED BY <1>2, <1>3, <1>4, <1>5, <2>1, <2>2, <2>3, <2>4, <2>5, <2>6, ChangesKeep
<1>8. LayersFit'
  <2>1. ASSUME NEW l \in G!LayerSet, l \notin muddled' PROVE LayerFits(l)'
    <3>1. l \notin muddled
      BY <1>1, <2>1
    <3>2. CASE l # job[p].layer
      BY <1>1, <1>3, <2>1, <3>2, IdleJob, GovConstants, OtherLayersKeep
    <3>3. CASE l = job[p].layer
      <4>1. OnLayer(job[p], l) /\ Replays(log, l) /\ \A q \in Processes \ {p} : job[q].layer # l
        BY <3>1, <3>3, OnOwnLayer
      <4>2. y \notin written /\ y # 0
        BY <1>1, <1>2, <1>4, <2>1, <3>3, GovConstants DEF JobFits
      <4>3. job[p].step \in Changing
        BY <1>2, <1>4, <4>1, <4>2, JobFields DEF OnLayer, JobFits, JobSteps, Changing, Stamping
      <4>4. G!Given(rows[l]) = LastLeft(log, l)
        BY <4>1, <4>3 DEF OnLayer
      <4>5. job'[p].layer # l
        BY <1>3, IdleJob, GovConstants
      <4> QED BY <1>1, <1>3, <4>1, <4>4, <4>5, LoneLayer
    <3> QED BY <3>2, <3>3
  <2>2. hollow' # {} => muddled' # {}
    BY <1>1 DEF GovInv, LayersFit
  <2> QED BY <2>1, <2>2 DEF LayersFit
<1>9. ChainsFit'
  <2>1. ~G!Stamped(p)'
    BY <1>3, IdleJob DEF G!Stamped
  <2> QED BY <1>1, <1>3, <2>1, ChainsKeep DEF GovInv
<1>10. LogFits'
  BY <1>1 DEF GovInv, LogFits
<1> QED BY <1>5, <1>7, <1>8, <1>9, <1>10 DEF GovInv

(* What the steward changes is no part of it. *)
LEMMA GovSame ==
  ASSUME G!GovernanceAssumption, GovInv, UNCHANGED <<setting, G!config>>,
         failures' = failures \/ (failures < setting.faults /\ failures' = failures + 1)
  PROVE  GovInv'
<1>1. UNCHANGED <<setting, clock, rows, log, job, changes, written, audited, lost, hollow, overlapped, muddled>>
  BY DEF G!config
<1>2. GovWorld'
  <2>1. setting.faults \in Nat /\ failures \in 0..setting.faults
    BY GovConstants DEF GovInv, GovWorld
  <2>2. failures' \in 0..setting'.faults
    BY <1>1, <2>1
  <2> QED BY <1>1, <2>2 DEF GovInv, GovWorld
<1>3. ChangesFit' /\ LogFits'
  BY <1>1 DEF GovInv, ChangesFit, JobsFit, JobFits, IdsApart, Fate, LogFits
<1>4. LayersFit'
  BY <1>1 DEF GovInv, LayersFit, LayerFits, OnLayer
<1>5. ChainsFit'
  BY <1>1 DEF GovInv, ChainsFit, ForestFits, OrderFits, StampFits, AloneFits, G!Stamped
<1> QED BY <1>2, <1>3, <1>4, <1>5 DEF GovInv

(* Every step. *)
LEMMA GovNext ==
  ASSUME G!GovernanceAssumption
  PROVE  GovInv /\ [G!Next]_G!vars => GovInv'
<1> SUFFICES ASSUME GovInv, [G!Next]_G!vars PROVE GovInv'
  OBVIOUS
<1>1. ASSUME NEW p \in Processes,
             \/ G!Propose(p) \/ G!Find(p) \/ G!Write(p) \/ G!HandlerAudits(p) \/ G!Stamp(p)
             \/ G!Link(p) \/ G!Insert(p) \/ G!Fails(p) \/ G!Resolve(p) \/ G!ReadLayer(p)
      PROVE  GovInv'
  BY <1>1, GovPropose, GovFind, GovWrite, GovHandlerAudits, GovStamp, GovLink, GovInsert, GovFails,
     GovResolve, GovReadLayer
<1>2. ASSUME G!StewardBegins \/ G!Validate \/ G!Replace \/ G!Generate \/ G!StewardFails \/ G!Regenerate
      PROVE  GovInv'
  <2>1. /\ UNCHANGED <<setting, G!config>>
        /\ failures' = failures \/ (failures < setting.faults /\ failures' = failures + 1)
    BY <1>2 DEF G!StewardBegins, G!Validate, G!Replace, G!Generate, G!StewardFails, G!Regenerate,
                G!NoFault, G!Fault
  <2> QED BY <2>1, GovSame
<1>3. CASE UNCHANGED G!vars
  BY <1>3, GovSame DEF G!vars
<1> QED BY <1>1, <1>2, <1>3 DEF G!Next

(* The invariant is what an auditor wants to know. *)
LEMMA GovImplies == ASSUME G!GovernanceAssumption PROVE GovInv => G!AuditIsWhole
<1> SUFFICES ASSUME GovInv PROVE G!AuditIsWhole
  OBVIOUS
<1>1. GovWorld /\ log \in Seq(LogRows) /\ Len(log) \in Nat /\ DOMAIN log = 1..Len(log)
  BY RowOfLog DEF GovInv, GovWorld
<1>2. \A x \in 1..changes : Fate(x)
  BY DEF GovInv, ChangesFit
<1>3. G!TypeOK
  <2>1. ASSUME NEW i \in DOMAIN log PROVE log[i].prev \in 0..(Len(log) - 1) /\ log[i].tenant \in Tenants
    <3>1. log[i].prev < Len(log) /\ log[i].prev \in Nat /\ log[i].tenant \in Tenants
      BY <1>1, RowOfLog DEF GovInv, LogFits
    <3> QED BY <1>1, <3>1
  <2>2. lost \subseteq written /\ lost \cap audited = {} /\ written \cap hollow = {}
    BY <1>1, <1>2 DEF Fate, GovWorld
  <2> QED BY <1>1, <2>1, <2>2 DEF G!TypeOK, GovWorld, Weights
<1>4. G!ChainVerifies
  <2>0. ForestFits /\ OrderFits
    BY DEF GovInv, ChainsFit
  <2>1. \A t : G!RowsOf(t) = RowsIn(log, t)
    BY DEF G!RowsOf, RowsIn
  <2>2. ASSUME setting.skewed = {}, NEW i \in (1..Len(log)) \ overlapped.rows PROVE G!Links(i)
    <3>1. PICK t \in Tenants : t = log[i].tenant
      BY <1>1, RowOfLog
    <3>2. i \in RowsIn(log, t) \ overlapped.rows /\ Chained(log, t, overlapped.rows)
      BY <1>1, <2>0, <2>2, <3>1 DEF RowsIn, OrderFits
    <3>3. G!Earlier(i) = Before(log, t, log[i].at)
      BY <2>1, <3>1 DEF G!Earlier, Before
    <3> QED BY <3>2, <3>3 DEF G!Links, Chained, IsLatest
  <2>3. ASSUME NEW i \in 1..Len(log) PROVE G!Recomputes(i) <=> setting.backend # "postgres"
    <3>1. log[i].hash = G!Hash("text", log[i].at, log[i].prev, log[i].old, log[i].new)
      BY <2>0 DEF ForestFits, Sound
    <3>2. log[i].hash.form = "text"
      BY <3>1 DEF G!Hash
    <3>3. \A form : G!Hash(form, log[i].at, log[i].prev, log[i].old, log[i].new).form = form
      BY DEF G!Hash
    <3>4. CASE setting.backend = "postgres"
      BY <3>2, <3>3, <3>4 DEF G!Recomputes, G!ReadAs
    <3>5. CASE setting.backend # "postgres"
      BY <3>1, <3>5 DEF G!Recomputes, G!ReadAs
    <3> QED BY <3>4, <3>5
  <2>4. \A t : RowsIn(log, t) \subseteq 1..Len(log)
    BY <1>1 DEF RowsIn
  <2>5. ASSUME setting.backend = "sqlite", NEW t \in Tenants PROVE G!Verifies(t)
    <3>1. setting.skewed = {} /\ overlapped.rows = {}
      BY <1>1, <2>0, <2>5, GovConstants DEF GovWorld, ForestFits
    <3>2. ASSUME NEW i \in RowsIn(log, t) PROVE G!Links(i) /\ G!Recomputes(i)
      BY <2>2, <2>3, <2>4, <2>5, <3>1
    <3> QED BY <2>1, <3>2 DEF G!Verifies
  <2>6. ASSUME setting.backend = "postgres", NEW t \in Tenants, G!Verifies(t) PROVE G!RowsOf(t) = {}
    BY <2>1, <2>3, <2>4, <2>6 DEF G!Verifies
  <2>7. ASSUME NEW i \in 1..Len(log)
        PROVE  log[i].prev = 0 \/ (log[i].prev < i /\ log[log[i].prev].tenant = log[i].tenant)
    BY <2>0 DEF ForestFits, Forest, Rooted, RowsIn
  <2> QED BY <1>1, <2>2, <2>5, <2>6, <2>7 DEF G!ChainVerifies
<1>5. G!ChangesAreAudited
  <2>1. ASSUME NEW x \in written PROVE x \in audited \cup lost \cup {job[p].id : p \in Processes}
    <3>1. Fate(x)
      BY <1>1, <1>2 DEF GovWorld
    <3> QED BY <3>1 DEF Fate
  <2>2. ASSUME NEW x \in audited PROVE x \in written \cup hollow
    BY <1>1, <1>2 DEF GovWorld, Fate
  <2> QED BY <2>1, <2>2 DEF G!ChangesAreAudited, GovInv, LayersFit
<1>6. G!TrailReplays
  <2>1. ASSUME NEW l \in G!LayerSet \ muddled
        PROVE  /\ \A i \in G!Trail(l) : G!Given(log[i].old) = G!LeftBy({k \in G!Trail(l) : k < i})
               /\ ~(\E p \in Processes : job[p].layer = l) => G!Given(rows[l]) = G!LeftBy(G!Trail(l))
    <3>1. Replays(log, l) /\ ((\A p \in Processes : job[p].layer # l) => G!Given(rows[l]) = LastLeft(log, l))
      BY DEF GovInv, LayersFit, LayerFits
    <3>2. G!Trail(l) = About(log, l) /\ \A T : G!LeftBy(T) = Left(log, T)
      BY DEF G!Trail, About, G!LeftBy, Left
    <3> QED BY <3>1, <3>2 DEF Replays, LastLeft
  <2> QED BY <2>1 DEF G!TrailReplays
<1> QED BY <1>3, <1>4, <1>5, <1>6 DEF G!AuditIsWhole

(* AuditIsWhole, for any processes, tenants, layers and overrides and any  *)
(* number of changes, events and failures: on SQLite verify_audit_chain    *)
(* accepts every tenant's log; on PostgreSQL, where it accepts none with a *)
(* row in it, a row is linked to the newest before it unless another       *)
(* audit of its tenant ran beside it or the clocks disagree, and always    *)
(* to an earlier one of its tenant; every change is audited, lost to a     *)
(* failure or under way; and the rows about a layer tell its history       *)
(* unless two changes of it, or a failure, mixed (routes/config.py,        *)
(* PolicyRepository._insert_audit_event, verify_audit_chain).              *)
THEOREM AuditIsAlwaysWhole ==
  ASSUME G!GovernanceAssumption
  PROVE  G!Spec => []G!AuditIsWhole
BY GovInit, GovNext, GovImplies, PTL DEF G!Spec

-----------------------------------------------------------------------------
(* Governance: the merge of the layers, in closed form.                    *)

(* The platform's weights are a function. *)
FunctionOfSignals == Platform = [s \in Signals |-> Platform[s]]

(* Weights L of the layers in T over the platform's: of a key the widest   *)
(* index that has it.                                                      *)
Having(L, T, s) == {i \in T : s \in DOMAIN L[i]}
MergedKeys(L, T) == Signals \cup UNION {DOMAIN L[i] : i \in T}
WeightOf(L, T, s) == IF Having(L, T, s) = {} THEN Platform[s] ELSE L[G!Max(Having(L, T, s))][s]
MergedOver(L, T) == [s \in MergedKeys(L, T) |-> WeightOf(L, T, s)]

(* A step of the fold. *)
Folded(L, g, T) == IF T = {} THEN Platform ELSE G!Over(g[T \ {G!Max(T)}], L[G!Max(T)])
TakesSteps(L, n, g) == g = [T \in SUBSET (1..n) |-> Folded(L, g, T)]

(* The indices that have a key, and the greatest of them. *)
LEMMA HavingGreatest ==
  ASSUME NEW n \in Nat, NEW L, NEW T \in SUBSET (1..n), NEW s
  PROVE  /\ Having(L, T, s) \subseteq T
         /\ Having(L, T, s) # {} => /\ G!Max(Having(L, T, s)) \in Having(L, T, s)
                                    /\ \A k \in Having(L, T, s) : k <= G!Max(Having(L, T, s))
<1>1. Having(L, T, s) \subseteq T /\ Having(L, T, s) \subseteq 1..n
  BY DEF Having
<1> QED BY <1>1, MaxOfIndices

(* The closed form takes the fold's step. *)
LEMMA MergeStep ==
  ASSUME FunctionOfSignals, NEW n \in Nat, NEW L, NEW T \in SUBSET (1..n), T # {}
  PROVE  MergedOver(L, T) = G!Over(MergedOver(L, T \ {G!Max(T)}), L[G!Max(T)])
<1>1. PICK m : m = G!Max(T)
  OBVIOUS
<1>2. PICK R : R = T \ {m}
  OBVIOUS
<1>3. m \in T /\ m \in 1..n /\ (\A k \in T : k <= m) /\ T \subseteq 1..n /\ R \in SUBSET (1..n) /\ T = R \cup {m}
  BY <1>1, <1>2, MaxOfIndices
<1>4. MergedKeys(L, T) = MergedKeys(L, R) \cup DOMAIN L[m]
  BY <1>3 DEF MergedKeys
<1>5. ASSUME NEW s \in DOMAIN L[m] PROVE WeightOf(L, T, s) = L[m][s]
  <2>1. m \in Having(L, T, s)
    BY <1>3 DEF Having
  <2>2. PICK h : h = G!Max(Having(L, T, s))
    OBVIOUS
  <2>3. h \in T /\ m <= h
    BY <2>1, <2>2, HavingGreatest
  <2>4. h = m
    BY <1>3, <2>3
  <2> QED BY <2>1, <2>2, <2>4 DEF WeightOf
<1>6. ASSUME NEW s, s \notin DOMAIN L[m] PROVE WeightOf(L, T, s) = WeightOf(L, R, s)
  <2>1. Having(L, T, s) = Having(L, R, s)
    BY <1>3, <1>6 DEF Having
  <2> QED BY <2>1 DEF WeightOf
<1>7. DOMAIN MergedOver(L, R) = MergedKeys(L, R) /\ \A s \in MergedKeys(L, R) : MergedOver(L, R)[s] = WeightOf(L, R, s)
  BY DEF MergedOver
<1>8. G!Over(MergedOver(L, R), L[m]) =
        [k \in MergedKeys(L, R) \cup DOMAIN L[m] |->
           IF k \in DOMAIN L[m] THEN L[m][k] ELSE MergedOver(L, R)[k]]
  BY <1>7 DEF G!Over
<1>9. ASSUME NEW k \in MergedKeys(L, T)
      PROVE  WeightOf(L, T, k) = IF k \in DOMAIN L[m] THEN L[m][k] ELSE MergedOver(L, R)[k]
  BY <1>4, <1>5, <1>6, <1>7
<1>10. MergedOver(L, T) = G!Over(MergedOver(L, R), L[m])
  <2> HIDE DEF WeightOf, MergedKeys
  <2> QED BY <1>4, <1>8, <1>9 DEF MergedOver
<1> QED BY <1>1, <1>2, <1>10

(* Nothing merged over the platform's weights is these. *)
LEMMA MergeNothing ==
  ASSUME FunctionOfSignals, NEW L
  PROVE  MergedOver(L, {}) = Platform
<1>1. MergedKeys(L, {}) = Signals
  BY DEF MergedKeys
<1>2. \A s : Having(L, {}, s) = {}
  BY DEF Having
<1>3. \A s : WeightOf(L, {}, s) = Platform[s]
  BY <1>2 DEF WeightOf
<1>4. MergedOver(L, {}) = [s \in Signals |-> Platform[s]]
  BY <1>1, <1>3 DEF MergedOver
<1> QED BY <1>4 DEF FunctionOfSignals

(* A function that takes the fold's steps is the closed form: there is no  *)
(* least set on which it is not.                                           *)
LEMMA FoldIsMerge ==
  ASSUME FunctionOfSignals, NEW n \in Nat, NEW L,
         NEW g, TakesSteps(L, n, g)
  PROVE  \A T \in SUBSET (1..n) : g[T] = MergedOver(L, T)
<1> DEFINE B == {T \in SUBSET (1..n) : g[T] # MergedOver(L, T)}
<1>1. ASSUME NEW T \in SUBSET (1..n) PROVE g[T] = Folded(L, g, T)
  <2> HIDE DEF Folded
  <2> QED BY DEF TakesSteps
<1>2. {} \notin B
  BY <1>1, MergeNothing DEF Folded
<1>3. ASSUME NEW T \in B
      PROVE  /\ T # {} /\ G!Max(T) \in 1..n
             /\ T \ {G!Max(T)} \in B /\ G!Max(T \ {G!Max(T)}) < G!Max(T)
  <2>1. T \in SUBSET (1..n) /\ T # {} /\ g[T] # MergedOver(L, T)
    BY <1>2
  <2>2. PICK m : m = G!Max(T)
    OBVIOUS
  <2>3. PICK R : R = T \ {m}
    OBVIOUS
  <2>4. m \in T /\ m \in 1..n /\ (\A k \in T : k <= m) /\ R \in SUBSET (1..n)
    BY <2>1, <2>2, <2>3, MaxOfIndices
  <2>5. g[T] = G!Over(g[R], L[m])
    BY <1>1, <2>1, <2>2, <2>3 DEF Folded
  <2>6. MergedOver(L, T) = G!Over(MergedOver(L, R), L[m])
    BY <2>1, <2>2, <2>3, MergeStep
  <2>7. g[R] # MergedOver(L, R)
    BY <2>1, <2>5, <2>6
  <2>8. R \in B /\ R # {}
    BY <1>2, <2>4, <2>7
  <2>9. PICK r : r = G!Max(R)
    OBVIOUS
  <2>10. r < m
    <3>1. r \in R
      BY <2>4, <2>8, <2>9, MaxOfIndices
    <3>2. r \in T /\ r # m
      BY <2>3, <3>1
    <3>3. r \in Int /\ m \in Int /\ r <= m
      BY <2>1, <2>4, <3>2
    <3> QED BY <3>2, <3>3
  <2> QED BY <2>1, <2>2, <2>3, <2>4, <2>8, <2>9, <2>10
<1> HIDE DEF B
<1>4. B = {}
  <2>1. SUFFICES ASSUME B # {} PROVE FALSE
    OBVIOUS
  <2> DEFINE M == {G!Max(T) : T \in B}
  <2>2. M \in SUBSET Nat /\ M # {}
    <3>1. ASSUME NEW T \in B PROVE G!Max(T) \in Nat
      <4>1. G!Max(T) \in 1..n
        BY <1>3
      <4> QED BY <4>1
    <3> QED BY <2>1, <3>1
  <2>3. PICK m \in M : \A k \in M : m <= k
    BY <2>2, Least
  <2>4. PICK T \in B : m = G!Max(T)
    OBVIOUS
  <2>5. PICK R \in B : G!Max(R) < G!Max(T)
    BY <1>3
  <2>6. G!Max(R) \in M /\ G!Max(R) \in Nat /\ m \in Nat
    BY <2>2, <2>5
  <2> QED BY <2>3, <2>4, <2>5, <2>6
<1> QED BY <1>4 DEF B

(* There is such a function. *)
LEMMA FoldExists ==
  ASSUME FunctionOfSignals, NEW n \in Nat, NEW L
  PROVE  \E g : TakesSteps(L, n, g)
<1>1. PICK g : g = [T \in SUBSET (1..n) |-> MergedOver(L, T)]
  OBVIOUS
<1>2. ASSUME NEW T \in SUBSET (1..n) PROVE MergedOver(L, T) = Folded(L, g, T)
  <2>1. CASE T = {}
    BY <2>1, MergeNothing DEF Folded
  <2>2. CASE T # {}
    <3>1. T \ {G!Max(T)} \in SUBSET (1..n)
      OBVIOUS
    <3>2. g[T \ {G!Max(T)}] = MergedOver(L, T \ {G!Max(T)})
      BY <1>1, <3>1
    <3> QED BY <2>2, <3>2, MergeStep DEF Folded
  <2> QED BY <2>1, <2>2
<1>3. TakesSteps(L, n, g)
  <2> HIDE DEF MergedOver, Folded
  <2> QED BY <1>1, <1>2 DEF TakesSteps
<1> QED BY <1>3

(* What a resolution merges is the closed form over all layers. *)
LEMMA MergedIs ==
  ASSUME G!GovernanceAssumption, FunctionOfSignals, NEW seen, NEW L,
         \A i \in 1..Len(Layers) : L[i] = G!Layer(i, seen[i])
  PROVE  G!Merged(seen) = MergedOver(L, 1..Len(Layers))
<1> DEFINE n == Len(Layers)
           order == [i \in DOMAIN Layers |-> i]
           iter == CHOOSE g : g = [T \in SUBSET (DOMAIN order) |->
                      IF T = {} THEN Platform
                      ELSE G!Over(g[T \ {G!Max(T)}], G!Layer(order[G!Max(T)], seen[order[G!Max(T)]]))]
<1>1. G!Merged(seen) = iter[DOMAIN order]
  BY DEF G!Merged, G!FoldLeft, G!MapThenFoldSet
<1>2. n \in Nat /\ DOMAIN order = 1..n /\ \A i \in 1..n : order[i] = i
  BY GovConstants
<1>3. ASSUME NEW g, NEW T \in SUBSET (1..n)
      PROVE  Folded(L, g, T) = IF T = {} THEN Platform
               ELSE G!Over(g[T \ {G!Max(T)}], G!Layer(order[G!Max(T)], seen[order[G!Max(T)]]))
  <2>1. T # {} => G!Max(T) \in 1..n
    BY <1>2, MaxOfIndices
  <2>2. T # {} => L[G!Max(T)] = G!Layer(order[G!Max(T)], seen[order[G!Max(T)]])
    BY <1>2, <2>1
  <2> QED BY <2>2 DEF Folded
<1> HIDE DEF order
<1>4. iter = CHOOSE g : TakesSteps(L, n, g)
  <2>0. DOMAIN order = 1..n
    BY <1>2
  <2>1. ASSUME NEW g
        PROVE  [T \in SUBSET (1..n) |-> Folded(L, g, T)] =
               [T \in SUBSET (DOMAIN order) |->
                      IF T = {} THEN Platform
                      ELSE G!Over(g[T \ {G!Max(T)}], G!Layer(order[G!Max(T)], seen[order[G!Max(T)]]))]
    <3> HIDE DEF Folded, n
    <3>1. SUBSET (DOMAIN order) = SUBSET (1..n)
      BY <2>0
    <3> QED BY <1>3, <3>1, Zenon
  <2> QED BY <2>1, ZenonT(60) DEF TakesSteps
<1>5. TakesSteps(L, n, iter)
  <2> HIDE DEF iter
  <2>1. n \in Nat
    BY <1>2
  <2> HIDE DEF n
  <2>2. \E g : TakesSteps(L, n, g)
    BY <2>1, FoldExists, Zenon
  <2> HIDE DEF TakesSteps
  <2> QED BY <1>4, <2>2, Zenon
<1> HIDE DEF iter
<1>6. PICK g : g = iter
  OBVIOUS
<1>7. n \in Nat /\ TakesSteps(L, n, g)
  BY <1>2, <1>5, <1>6
<1> HIDE DEF n
<1>8. g[1..n] = MergedOver(L, 1..n)
  <2>1. \A T \in SUBSET (1..n) : g[T] = MergedOver(L, T)
    BY <1>7, FoldIsMerge
  <2> QED BY <2>1
<1> QED BY <1>1, <1>2, <1>6, <1>8 DEF n

(* What is merged of a table's rows: of a key the weight of the narrowest  *)
(* layer that has it.                                                      *)
LEMMA MergedRows ==
  ASSUME G!GovernanceAssumption, FunctionOfSignals, NEW seen, NEW stored,
         \A i \in 1..Len(Layers) : seen[i] = stored[Layers[i]]
  PROVE  G!Merged(seen) = [s \in G!KeysOf(stored) |-> G!Narrowest(stored, s)]
<1>1. PICK n : n = Len(Layers)
  OBVIOUS
<1>2. n \in Nat /\ DOMAIN Layers = 1..n
  BY <1>1, GovConstants
<1>3. PICK L : L = [i \in 1..n |-> G!Layer(i, stored[Layers[i]])]
  OBVIOUS
<1>4. \A i \in 1..n : L[i] = G!Layer(i, stored[Layers[i]]) /\ L[i] = G!Layer(i, seen[i])
  BY <1>1, <1>3
<1>5. G!Merged(seen) = MergedOver(L, 1..n)
  BY <1>1, <1>4, MergedIs
<1>6. MergedKeys(L, 1..n) = G!KeysOf(stored)
  <2>1. UNION {DOMAIN L[i] : i \in 1..n} = UNION {DOMAIN G!Layer(i, stored[Layers[i]]) : i \in 1..n}
    BY <1>4
  <2> QED BY <1>2, <2>1 DEF MergedKeys, G!KeysOf
<1>7. ASSUME NEW s PROVE WeightOf(L, 1..n, s) = G!Narrowest(stored, s)
  <2>1. PICK has : has = Having(L, 1..n, s)
    OBVIOUS
  <2>2. has = {i \in DOMAIN Layers : s \in DOMAIN G!Layer(i, stored[Layers[i]])}
    BY <1>2, <1>4, <2>1 DEF Having
  <2>3. has # {} => G!Max(has) \in 1..n
    BY <1>2, <2>1, HavingGreatest
  <2>4. has # {} => L[G!Max(has)] = G!Layer(G!Max(has), stored[Layers[G!Max(has)]])
    BY <1>4, <2>3
  <2>5. WeightOf(L, 1..n, s) = IF has = {} THEN Platform[s] ELSE L[G!Max(has)][s]
    BY <2>1 DEF WeightOf
  <2>6. G!Narrowest(stored, s) =
          IF has = {} THEN Platform[s] ELSE G!Layer(G!Max(has), stored[Layers[G!Max(has)]])[s]
    BY <2>2 DEF G!Narrowest
  <2> QED BY <2>4, <2>5, <2>6
<1> QED
  <2> HIDE DEF WeightOf, MergedKeys
  <2> QED BY <1>5, <1>6, <1>7 DEF MergedOver

-----------------------------------------------------------------------------
(* Governance: a resolution against the rows it read.                      *)

(* What resolution r gives, against the rows stored when it ended. *)
ResolutionFits(r) ==
  LET reference == [s \in G!KeysOf(r.stored) |-> G!Narrowest(r.stored, s)]
  IN  /\ G!Contract(r.weights)
      /\ ~r.torn => r.weights = (IF G!Contract(reference) THEN reference ELSE Platform)

(* What a resolution has read is still there, unless a write tore it. *)
ReadsFit ==
  \A p \in Processes : job[p].step = "resolve" /\ ~job[p].torn =>
    \A i \in 1..Len(job[p].seen) : job[p].seen[i] = rows[Layers[i]]

ResolveInv == GovInv /\ ReadsFit /\ ResolutionFits(resolved)

(* The weights of a resolution that read all layers as they are stored. *)
LEMMA ResolutionIs ==
  ASSUME G!GovernanceAssumption, G!PlatformAssumption, NEW r, NEW seen,
         r.weights = G!Resolution(seen),
         ~r.torn => \A i \in 1..Len(Layers) : seen[i] = r.stored[Layers[i]]
  PROVE  ResolutionFits(r)
<1>1. G!Contract(Platform) /\ FunctionOfSignals
  BY DEF G!PlatformAssumption, FunctionOfSignals
<1>2. PICK merged : merged = G!Merged(seen)
  OBVIOUS
<1>3. r.weights = IF G!Contract(merged) THEN merged ELSE Platform
  BY <1>2 DEF G!Resolution
<1>4. G!Contract(r.weights)
  BY <1>1, <1>3
<1>5. ~r.torn => merged = [s \in G!KeysOf(r.stored) |-> G!Narrowest(r.stored, s)]
  BY <1>1, <1>2, MergedRows
<1> QED BY <1>3, <1>4, <1>5 DEF ResolutionFits

(* A step of p that writes nothing and ends or begins no reading. *)
LEMMA ReadsKeep ==
  ASSUME ResolveInv, NEW p \in Processes, UNCHANGED <<rows, resolved>>,
         \A q \in Processes \ {p} : job'[q] = job[q],
         job'[p].step = "resolve" => job'[p].seen = <<>>
  PROVE  ReadsFit' /\ ResolutionFits(resolved)'
<1>1. ASSUME NEW q \in Processes, job'[q].step = "resolve", ~job'[q].torn, NEW i \in 1..Len(job'[q].seen)
      PROVE  job'[q].seen[i] = rows'[Layers[i]]
  <2>1. CASE q = p
    <3>1. Len(job'[q].seen) = 0
      BY <1>1, <2>1
    <3> QED BY <1>1, <3>1
  <2>2. CASE q # p
    BY <1>1, <2>2 DEF ResolveInv, ReadsFit
  <2> QED BY <2>1, <2>2
<1>2. ResolutionFits(resolved)'
  BY DEF ResolveInv, ResolutionFits
<1> QED BY <1>1, <1>2 DEF ReadsFit

(* The steps of p that write nothing and read nothing for a resolution. *)
QuietStep(p) ==
  \/ G!Propose(p) \/ G!Find(p) \/ G!HandlerAudits(p) \/ G!Stamp(p)
  \/ G!Link(p) \/ G!Insert(p) \/ G!Fails(p) \/ G!Resolve(p)

(* They keep what is read. *)
LEMMA QuietReads ==
  ASSUME G!GovernanceAssumption, ResolveInv, NEW p \in Processes, QuietStep(p)
  PROVE  ReadsFit' /\ ResolutionFits(resolved)'
<1>0. \/ G!Propose(p) \/ G!Find(p) \/ G!HandlerAudits(p) \/ G!Stamp(p)
      \/ G!Link(p) \/ G!Insert(p) \/ G!Fails(p) \/ G!Resolve(p)
  BY DEF QuietStep
<1>1. job \in [Processes -> JobRows] /\ job[p] \in JobRows
  BY JobFields DEF ResolveInv, GovInv, GovWorld
<1>2. UNCHANGED <<rows, resolved>>
  <2>1. CASE G!Propose(p)
    BY <2>1, Zenon DEF G!Propose
  <2>2. CASE G!Find(p)
    BY <2>2, Zenon DEF G!Find
  <2>3. CASE G!HandlerAudits(p) \/ G!Stamp(p) \/ G!Link(p)
    BY <2>3, Zenon DEF G!HandlerAudits, G!Stamp, G!Link
  <2>4. CASE G!Insert(p) \/ G!Fails(p) \/ G!Resolve(p)
    BY <2>4, Zenon DEF G!Insert, G!Fails, G!Resolve
  <2> QED BY <1>0, <2>1, <2>2, <2>3, <2>4
<1>3. /\ \A q \in Processes \ {p} : job'[q] = job[q]
      /\ job'[p].step = "resolve" => job'[p].seen = <<>>
  <2>1. CASE G!Propose(p)
    <3>1. PICK layer \in G!LayerSet, new \in Weights :
            /\ new = None => rows[layer] # None
            /\ job' = [job EXCEPT ![p] = [G!Idle EXCEPT !.step = "find", !.layer = layer, !.new = new,
                                                        !.old = rows[layer], !.id = changes + 1]]
            /\ muddled' = IF \E q \in G!Others(p) : job[q].layer = layer THEN muddled \cup {layer} ELSE muddled
      BY <2>1, Zenon DEF G!Propose, Weights
    <3>2. job'[p] = [G!Idle EXCEPT !.step = "find", !.layer = layer, !.new = new,
                                   !.old = rows[layer], !.id = changes + 1]
      BY <1>1, <3>1
    <3>3. job'[p].step = "find"
      BY <3>2, IdleJob DEF JobRows
    <3> QED BY <1>1, <3>1, <3>3
  <2>2. CASE G!Find(p)
    <3>1. job' = [job EXCEPT ![p].step = IF job[p].new = None /\ rows[job[p].layer] = None THEN "stamp" ELSE "write",
                             ![p].found = rows[job[p].layer]]
      BY <2>2 DEF G!Find
    <3>2. job'[p].step \in {"stamp", "write"}
      BY <1>1, <3>1 DEF JobRows
    <3> QED BY <1>1, <3>1, <3>2
  <2>3. CASE G!HandlerAudits(p)
    <3>1. PICK t \in Tenants : job' = [job EXCEPT ![p] = [G!Idle EXCEPT !.step = "stamp", !.tenant = t]]
      BY <2>3, Zenon DEF G!HandlerAudits
    <3>2. job'[p] = [G!Idle EXCEPT !.step = "stamp", !.tenant = t]
      BY <1>1, <3>1
    <3>3. job'[p].step = "stamp"
      BY <3>2, IdleJob DEF JobRows
    <3> QED BY <1>1, <3>1, <3>3
  <2>4. CASE G!Stamp(p)
    BY <1>1, <2>4 DEF G!Stamp, JobRows
  <2>5. CASE G!Link(p)
    BY <1>1, <2>5 DEF G!Link, JobRows
  <2>6. CASE G!Insert(p)
    BY <1>1, <2>6, IdleJob DEF G!Insert, G!Committed
  <2>7. CASE G!Fails(p)
    BY <1>1, <2>7, IdleJob DEF G!Fails
  <2>8. CASE G!Resolve(p)
    BY <1>1, <2>8, IdleJob DEF G!Resolve, JobRows
  <2> QED BY <1>0, <2>1, <2>2, <2>3, <2>4, <2>5, <2>6, <2>7, <2>8
<1> QED BY <1>2, <1>3, ReadsKeep

(* Write: what a write changes, it tears for whoever is reading. *)
LEMMA WriteTears ==
  ASSUME G!GovernanceAssumption, ResolveInv, NEW p \in Processes, G!Write(p)
  PROVE  ReadsFit' /\ ResolutionFits(resolved)'
<1> DEFINE inserts == job[p].new # None /\ job[p].found = None
           stored == rows[job[p].layer]
           applies == IF inserts THEN stored = None ELSE stored # None
           refused == inserts /\ stored # None
<1>1. /\ rows' = IF applies THEN [rows EXCEPT ![job[p].layer] = job[p].new] ELSE rows
      /\ job' = [q \in Processes |->
           IF q = p THEN (IF refused THEN G!Idle ELSE [job[p] EXCEPT !.step = "stamp"])
           ELSE [job[q] EXCEPT !.torn = @ \/ (applies /\ job[q].step = "resolve")]]
      /\ resolved' = resolved
  BY DEF G!Write, G!Audits
<1>2. \A q \in Processes : job[q] \in JobRows
  BY JobFields DEF ResolveInv, GovInv
<1>3. job'[p].step # "resolve"
  <2>1. CASE refused
    BY <1>1, <2>1, IdleJob
  <2>2. CASE ~refused
    <3>1. job'[p] = [job[p] EXCEPT !.step = "stamp"]
      BY <1>1, <2>2
    <3> QED BY <1>2, <3>1 DEF JobRows
  <2> QED BY <2>1, <2>2
<1>4. ASSUME NEW q \in Processes, q # p, job'[q].step = "resolve", ~job'[q].torn
      PROVE  /\ rows' = rows /\ job'[q].seen = job[q].seen
             /\ job[q].step = "resolve" /\ ~job[q].torn
  <2>1. PICK a \in BOOLEAN : a <=> applies
    OBVIOUS
  <2>2. job'[q] = [job[q] EXCEPT !.torn = @ \/ (applies /\ job[q].step = "resolve")]
    BY <1>1, <1>4
  <2> HIDE DEF applies
  <2>3. /\ job'[q].step = job[q].step /\ job'[q].seen = job[q].seen
        /\ job'[q].torn <=> job[q].torn \/ (applies /\ job[q].step = "resolve")
    BY <1>2, <2>2 DEF JobRows
  <2>4. ~applies
    BY <1>4, <2>3
  <2> QED BY <1>1, <1>4, <2>3, <2>4
<1>5. ReadsFit'
  <2> SUFFICES ASSUME NEW q \in Processes, job'[q].step = "resolve", ~job'[q].torn,
                      NEW i \in 1..Len(job'[q].seen)
               PROVE  job'[q].seen[i] = rows'[Layers[i]]
    BY DEF ReadsFit
  <2>1. q # p
    BY <1>3
  <2> QED BY <1>4, <2>1 DEF ResolveInv, ReadsFit
<1>6. ResolutionFits(resolved)'
  BY <1>1 DEF ResolveInv, ResolutionFits
<1> QED BY <1>5, <1>6

(* ReadLayer: the last layer read makes the resolution. *)
LEMMA ReadingFits ==
  ASSUME G!GovernanceAssumption, G!PlatformAssumption, ResolveInv, NEW p \in Processes, G!ReadLayer(p)
  PROVE  ReadsFit' /\ ResolutionFits(resolved)'
<1>1. PICK read : read = job[p].seen
  OBVIOUS
<1>2. PICK seen : seen = Append(read, rows[Layers[Len(read) + 1]])
  OBVIOUS
<1>3. /\ job[p].step = "resolve" /\ rows' = rows
      /\ job' = [job EXCEPT ![p] = IF Len(seen) = Len(Layers) THEN G!Idle ELSE [job[p] EXCEPT !.seen = seen]]
      /\ resolved' = IF Len(seen) = Len(Layers)
                     THEN [weights |-> G!Resolution(seen), torn |-> job[p].torn,
                           stored |-> [l \in G!LayerSet |-> rows[l]]]
                     ELSE resolved
  BY <1>1, <1>2 DEF G!ReadLayer
<1>4. job \in [Processes -> JobRows] /\ job[p] \in JobRows /\ read \in Seq(Weights) /\ Len(read) < Len(Layers)
  BY <1>1, <1>3, JobFields DEF ResolveInv, GovInv, GovWorld, ChangesFit, JobsFit, JobFits
<1>5. /\ Len(read) \in Nat /\ Len(Layers) \in Nat /\ Len(seen) = Len(read) + 1
      /\ \A i \in 1..Len(read) : seen[i] = read[i]
      /\ seen[Len(read) + 1] = rows[Layers[Len(read) + 1]]
  <2>1. Len(read) \in Nat /\ Len(Layers) \in Nat
    BY <1>4, GovConstants
  <2>2. PICK w : w = rows[Layers[Len(read) + 1]]
    OBVIOUS
  <2>3. w \in Weights
    <3>1. Len(read) + 1 \in 1..Len(Layers)
      BY <1>4, <2>1
    <3> QED BY <2>2, <3>1, GovConstants DEF ResolveInv, GovInv, GovWorld
  <2> QED BY <1>2, <1>4, <2>1, <2>2, <2>3, AppendProperties
<1>6. ~job[p].torn => \A i \in 1..Len(seen) : seen[i] = rows[Layers[i]]
  <2>1. ~job[p].torn => \A i \in 1..Len(read) : read[i] = rows[Layers[i]]
    BY <1>1, <1>3 DEF ResolveInv, ReadsFit
  <2> QED BY <1>5, <2>1
<1>7. CASE Len(seen) = Len(Layers)
  <2>1. PICK r : r = [weights |-> G!Resolution(seen), torn |-> job[p].torn,
                      stored |-> [l \in G!LayerSet |-> rows[l]]]
    OBVIOUS
  <2>2. r.weights = G!Resolution(seen) /\ (r.torn <=> job[p].torn)
        /\ \A i \in 1..Len(Layers) : r.stored[Layers[i]] = rows[Layers[i]]
    BY <2>1, GovConstants
  <2>3. ResolutionFits(r)
    BY <1>6, <1>7, <2>2, ResolutionIs
  <2>4. resolved' = r
    BY <1>3, <1>7, <2>1
  <2>5. ResolutionFits(resolved)'
    BY <2>3, <2>4 DEF ResolutionFits
  <2>6. job'[p] = G!Idle /\ \A q \in Processes \ {p} : job'[q] = job[q]
    BY <1>3, <1>4, <1>7
  <2>7. job'[p].step # "resolve"
    BY <2>6, IdleJob
  <2>8. ReadsFit'
    BY <1>3, <2>6, <2>7 DEF ResolveInv, ReadsFit
  <2> QED BY <2>5, <2>8
<1>8. CASE Len(seen) # Len(Layers)
  <2>1. job'[p] = [job[p] EXCEPT !.seen = seen] /\ \A q \in Processes \ {p} : job'[q] = job[q]
    BY <1>3, <1>4, <1>8
  <2>2. job'[p].seen = seen /\ (job'[p].torn <=> job[p].torn)
    BY <1>4, <2>1 DEF JobRows
  <2>3. ReadsFit'
    BY <1>3, <1>6, <2>1, <2>2 DEF ResolveInv, ReadsFit
  <2>4. ResolutionFits(resolved)'
    BY <1>3, <1>8 DEF ResolveInv, ResolutionFits
  <2> QED BY <2>3, <2>4
<1> QED BY <1>7, <1>8

(* The rows and the resolution at the beginning. *)
LEMMA ResolveInit ==
  ASSUME G!GovernanceAssumption, G!PlatformAssumption
  PROVE  G!Init => ResolveInv
<1> SUFFICES ASSUME G!Init PROVE ResolveInv
  OBVIOUS
<1>1. resolved.weights = Platform /\ resolved.torn
  BY DEF G!Init
<1>2. ResolutionFits(resolved)
  BY <1>1 DEF ResolutionFits, G!PlatformAssumption
<1>3. ReadsFit
  BY IdleJob DEF G!Init, ReadsFit
<1> QED BY <1>2, <1>3, GovInit DEF ResolveInv

(* Every step keeps what has been read, or tears it. *)
LEMMA ResolveNext ==
  ASSUME G!GovernanceAssumption, G!PlatformAssumption
  PROVE  ResolveInv /\ [G!Next]_G!vars => ResolveInv'
<1> SUFFICES ASSUME ResolveInv, [G!Next]_G!vars PROVE ResolveInv'
  OBVIOUS
<1>1. GovInv'
  BY GovNext DEF ResolveInv
<1>2. ASSUME NEW p \in Processes,
             \/ G!Propose(p) \/ G!Find(p) \/ G!Write(p) \/ G!HandlerAudits(p) \/ G!Stamp(p)
             \/ G!Link(p) \/ G!Insert(p) \/ G!Fails(p) \/ G!Resolve(p) \/ G!ReadLayer(p)
      PROVE  ReadsFit' /\ ResolutionFits(resolved)'
  BY <1>2, QuietReads, WriteTears, ReadingFits DEF QuietStep
<1>3. ASSUME \/ G!StewardBegins \/ G!Validate \/ G!Replace \/ G!Generate \/ G!StewardFails \/ G!Regenerate
             \/ UNCHANGED G!vars
      PROVE  ReadsFit' /\ ResolutionFits(resolved)'
  <2>1. UNCHANGED <<rows, job, resolved>>
    BY <1>3 DEF G!StewardBegins, G!Validate, G!Replace, G!Generate, G!StewardFails, G!Regenerate,
                G!vars, G!config
  <2> QED BY <2>1 DEF ResolveInv, ReadsFit, ResolutionFits
<1> QED BY <1>1, <1>2, <1>3 DEF G!Next, ResolveInv

(* ResolvedFitsRows, for any layers, weights and overrides, whatever keys  *)
(* an administrator writes: a resolution meets the contract, and unless a  *)
(* write came while it read the layers, each key has the weight of the     *)
(* narrowest row that has it, or all of them are the platform's            *)
(* (tenant_config.py TenantConfigGateway, assert_weight_contract).         *)
THEOREM ResolvedAlwaysFitsRows ==
  ASSUME G!GovernanceAssumption, G!PlatformAssumption
  PROVE  G!Spec => []G!ResolvedFitsRows
<1>1. ResolveInv => G!ResolvedFitsRows
  BY DEF ResolveInv, ResolutionFits, G!ResolvedFitsRows
<1> QED BY <1>1, ResolveInit, ResolveNext, PTL DEF G!Spec
=============================================================================
