---------------------------- MODULE DocumentsProofs ----------------------------
(***************************************************************************)
(* Proofs about the documents of module Documents: their bytes and the     *)
(* audit rows about them, the links they are read with and the caches of   *)
(* what was extracted from them, and that the store, the log and the       *)
(* sweeper implement module Erasure.  They hold for any number of          *)
(* processes, documents, sweeps, faults and rotations, and any plans.      *)
(***************************************************************************)
EXTENDS Documents, FiniteSetTheorems, SequenceTheorems, TLAPS

Indexes == Processes \cup {"table"}
Kinds == {"ATTACHMENT_ERASED", "SCHEDULED_RETENTION_DELETE"}
Jobs ==
  [step : {"idle", "read", "prove", "delete", "swept"}, items : Seq(Attachments),
   plan : Nat, deleted : Nat, blocked : Nat, id : Nat]

(* The documents a sweep left a row of a kind for. *)
Rows(kind, s) == {row.att : row \in {x \in log : x.sweep = s /\ x.kind = kind}}
Attributed(s) == Rows("SCHEDULED_RETENTION_DELETE", s)

WorldOK == setting \in Settings /\ faults \in 0 .. setting.faults /\ sweeps \in Nat

(* A document is in one index; where the records or the table are shared   *)
(* there is one index, and no object store.                                *)
StoreFits ==
  /\ stored \subseteq Attachments /\ blobs \subseteq stored
  /\ index \in [Indexes -> SUBSET stored]
  /\ \A i, k \in Indexes : i # k => index[i] \cap index[k] = {}
  /\ mode # "object" => blobs = {} /\ \A i \in Indexes : i # Index(Home) => index[i] = {}
  /\ NothingReadsEmpty /\ StrandedIsKnown

LogFits == log \subseteq [kind : Kinds, att : stored, sweep : 1 .. sweeps]

(* A sweep counted the candidates it left its row for, which it cannot     *)
(* list any more, and the one it has just deleted.                         *)
SweepFits(p) ==
  LET j == job[p]
  IN  /\ j \in Jobs
      /\ j.deleted + j.blocked + Len(j.items) <= j.plan + (IF j.step = "swept" THEN 1 ELSE 0)
      /\ j.step # "idle" =>
           /\ p \in Running /\ j.id \in 1 .. sweeps
           /\ IsFiniteSet(Attributed(j.id))
           /\ j.deleted = Cardinality(Attributed(j.id)) + (IF j.step = "swept" THEN 1 ELSE 0)
           /\ Attributed(j.id) \subseteq Rows("ATTACHMENT_ERASED", j.id) \ index[Index(p)]

(* The candidate in hand: what was read and proved of it still holds,      *)
(* whatever the other processes did.                                       *)
CandidateFits(p) ==
  LET j == job[p]
      a == Head(j.items)
  IN  /\ j.step \in {"prove", "delete", "swept"} =>
           j.items # <<>> /\ a \in stored /\ a \notin Attributed(j.id)
      /\ j.step \in {"prove", "delete"} =>
           a \in Held \cup Proved /\ (mode = "object" => a \in index[p])
      /\ j.step \in {"delete", "swept"} => a \in Rows("ATTACHMENT_ERASED", j.id)
      /\ j.step = "swept" => a \notin index[Index(p)]

(* No two sweeps under way have one number, nor one that has ended its.    *)
SweepsApart ==
  /\ \A p, q \in Processes :
       p # q /\ job[p].step # "idle" /\ job[q].step # "idle" => job[p].id # job[q].id
  /\ \A r \in results, p \in Processes : job[p].step # "idle" => job[p].id # r.sweep
  /\ \A r \in results : r.sweep \in 1 .. sweeps

(* The inductive invariant of the bytes and the log. *)
DocsInv ==
  /\ WorldOK /\ StoreFits /\ LogFits /\ job \in [Processes -> Jobs]
  /\ \A p \in Processes : SweepFits(p) /\ CandidateFits(p)
  /\ SweepsApart /\ ErasedIsGone /\ SweepAddsUp

-----------------------------------------------------------------------------
(* Settings, jobs and rows. *)

(* A deployment in force is one of the declared kinds. *)
LEMMA SettingFacts ==
  ASSUME WorldOK
  PROVE  /\ mode \in {"memory", "db", "object"} /\ Running \subseteq Processes /\ Home \in Running
         /\ \A p \in Processes : Index(p) \in Indexes /\ (mode = "object" => Index(p) = p)
         /\ \A p \in Running : mode # "object" => Index(p) = Index(Home)
         /\ setting.docs \subseteq Attachments /\ setting.plans \subseteq Seq(Attachments)
         /\ setting.faults \in Nat /\ faults \in Nat
<1>1. /\ Home \in Processes /\ setting \in Settings
      /\ mode \in {"memory", "db", "object"} /\ setting.docs \subseteq Attachments
      /\ setting.plans \subseteq Seq(setting.docs) /\ setting.faults \in Nat
  BY DocumentsAssumption DEF DocumentsAssumption, WorldOK, mode
<1>2. Running \subseteq Processes /\ Home \in Running
  BY <1>1 DEF Running
<1>3. \A p \in Processes : Index(p) \in Indexes /\ (mode = "object" => Index(p) = p)
  BY DEF Index, Indexes
<1>4. \A p \in Running : mode # "object" => Index(p) = Index(Home)
  BY <1>1 DEF Index, Running
<1>5. setting.plans \subseteq Seq(Attachments)
  BY <1>1
<1> QED BY <1>1, <1>2, <1>3, <1>4, <1>5 DEF WorldOK

(* A candidate list that is not empty has a head and a shorter tail. *)
LEMMA Candidates ==
  ASSUME NEW j \in Jobs, j.items # <<>>
  PROVE  /\ Head(j.items) \in Attachments /\ Tail(j.items) \in Seq(Attachments)
         /\ Len(j.items) \in Nat /\ Len(Tail(j.items)) + 1 = Len(j.items)
<1>1. j.items \in Seq(Attachments)
  BY DEF Jobs
<1> QED BY <1>1, HeadTailProperties

(* What a change of its step makes of a job. *)
LEMMA StepChanges ==
  ASSUME NEW j \in Jobs, NEW s \in {"idle", "read", "prove", "delete", "swept"}
  PROVE  LET k == [j EXCEPT !.step = s]
         IN  /\ k \in Jobs /\ k.step = s /\ k.items = j.items /\ k.plan = j.plan
             /\ k.deleted = j.deleted /\ k.blocked = j.blocked /\ k.id = j.id
  BY DEF Jobs

(* The deletion went through. *)
LEMMA DeletionCounts ==
  ASSUME NEW j \in Jobs
  PROVE  LET k == [j EXCEPT !.step = "swept", !.deleted = @ + 1]
         IN  /\ k \in Jobs /\ k.step = "swept" /\ k.items = j.items /\ k.plan = j.plan
             /\ k.deleted = j.deleted + 1 /\ k.blocked = j.blocked /\ k.id = j.id
<1>1. j.deleted + 1 \in Nat
  BY DEF Jobs
<1>2. LET k == [j EXCEPT !.step = "swept", !.deleted = j.deleted + 1]
      IN  /\ k \in Jobs /\ k.step = "swept" /\ k.items = j.items /\ k.plan = j.plan
          /\ k.deleted = j.deleted + 1 /\ k.blocked = j.blocked /\ k.id = j.id
  BY <1>1 DEF Jobs
<1> QED BY <1>2

(* The sweep goes on to its next candidate. *)
LEMMA NextCandidate ==
  ASSUME NEW j \in Jobs, j.items # <<>>
  PROVE  LET k == NextItem(j)
         IN  /\ k \in Jobs /\ k.step = "read" /\ k.items = Tail(j.items) /\ k.plan = j.plan
             /\ k.deleted = j.deleted /\ k.blocked = j.blocked /\ k.id = j.id
<1>1. Tail(j.items) \in Seq(Attachments)
  BY Candidates
<1>2. NextItem(j) = [j EXCEPT !.step = "read", !.items = Tail(j.items)]
  BY DEF NextItem
<1> QED BY <1>1, <1>2 DEF Jobs

(* The candidate is counted as blocked. *)
LEMMA BlockedCandidate ==
  ASSUME NEW j \in Jobs, j.items # <<>>
  PROVE  LET k == Blocked(j)
         IN  /\ k \in Jobs /\ k.step = "read" /\ k.items = Tail(j.items) /\ k.plan = j.plan
             /\ k.deleted = j.deleted /\ k.blocked = j.blocked + 1 /\ k.id = j.id
<1> DEFINE n == NextItem(j)
<1>1. /\ n \in Jobs /\ n.step = "read" /\ n.items = Tail(j.items) /\ n.plan = j.plan
      /\ n.deleted = j.deleted /\ n.blocked = j.blocked /\ n.id = j.id
  BY NextCandidate
<1>2. Blocked(j) = [n EXCEPT !.blocked = n.blocked + 1]
  BY DEF Blocked
<1> HIDE DEF n
<1>3. LET k == [n EXCEPT !.blocked = n.blocked + 1]
      IN  /\ k \in Jobs /\ k.step = "read" /\ k.items = Tail(j.items) /\ k.plan = j.plan
          /\ k.deleted = j.deleted /\ k.blocked = j.blocked + 1 /\ k.id = j.id
  BY <1>1 DEF Jobs
<1> QED BY <1>2, <1>3

(* The candidate was gone. *)
LEMMA MissingCandidate ==
  ASSUME NEW j \in Jobs, j.items # <<>>
  PROVE  LET k == [NextItem(j) EXCEPT !.deleted = @ + Counts(FALSE)]
         IN  /\ k \in Jobs /\ k.step = "read" /\ k.items = Tail(j.items) /\ k.plan = j.plan
             /\ k.deleted = j.deleted /\ k.blocked = j.blocked /\ k.id = j.id
<1> DEFINE n == NextItem(j)
<1>1. /\ n \in Jobs /\ n.step = "read" /\ n.items = Tail(j.items) /\ n.plan = j.plan
      /\ n.deleted = j.deleted /\ n.blocked = j.blocked /\ n.id = j.id
  BY NextCandidate
<1>2. Counts(FALSE) = 0
  BY DEF Counts
<1> HIDE DEF n
<1>3. LET k == [n EXCEPT !.deleted = n.deleted + 0]
      IN  /\ k \in Jobs /\ k.step = "read" /\ k.items = Tail(j.items) /\ k.plan = j.plan
          /\ k.deleted = j.deleted /\ k.blocked = j.blocked /\ k.id = j.id
  BY <1>1 DEF Jobs
<1> QED BY <1>2, <1>3 DEF n

(* An idle process, and a sweep that starts. *)
LEMMA IdleJob ==
  Idle \in Jobs /\ Idle.step = "idle" /\ Idle.items = <<>> /\ Idle.deleted = 0
  /\ Idle.blocked = 0 /\ Idle.plan = 0
<1>1. <<>> \in Seq(Attachments)
  OBVIOUS
<1> QED BY <1>1 DEF Idle, Jobs

(* A sweep that starts has its plan ahead of it. *)
LEMMA FreshJob ==
  ASSUME NEW plan \in Seq(Attachments), NEW n \in Nat
  PROVE  LET k == [Idle EXCEPT !.step = "read", !.items = plan, !.plan = Len(plan), !.id = n]
         IN  /\ k \in Jobs /\ k.step = "read" /\ k.items = plan /\ k.plan = Len(plan)
             /\ k.deleted = 0 /\ k.blocked = 0 /\ k.id = n
<1>1. Len(plan) \in Nat
  OBVIOUS
<1>2. Idle \in Jobs /\ Idle.deleted = 0 /\ Idle.blocked = 0
  BY IdleJob
<1> QED BY <1>1, <1>2 DEF Jobs

(* What a document is held in. *)
LEMMA HeldIn ==
  ASSUME index \in [Indexes -> SUBSET stored]
  PROVE  \A x : x \in Held <=> x \in blobs \/ \E i \in Indexes : x \in index[i]
  BY DEF Held

(* The same, of the next state. *)
LEMMA HeldNext ==
  ASSUME index' \in [Indexes -> SUBSET stored']
  PROVE  \A x : x \in Held' <=> x \in blobs' \/ \E i \in Indexes : x \in index'[i]
  BY DEF Held

(* A row added to the log is its sweep's, of its kind, about its candidate. *)
LEMMA RowAdded ==
  ASSUME NEW p, NEW kind, log' = log \cup {Row(kind, p)}
  PROVE  /\ \A k, s : Rows(k, s)' = IF k = kind /\ s = job[p].id
                                   THEN Rows(k, s) \cup {Head(job[p].items)} ELSE Rows(k, s)
         /\ Proved' = IF kind = "ATTACHMENT_ERASED" THEN Proved \cup {Head(job[p].items)} ELSE Proved
<1> DEFINE row == Row(kind, p)
<1>1. row.kind = kind /\ row.att = Head(job[p].items) /\ row.sweep = job[p].id
  BY DEF Row
<1> HIDE DEF row
<1>2. log' = log \cup {row}
  BY DEF row
<1>3. ASSUME NEW k, NEW s
      PROVE  Rows(k, s)' = IF k = kind /\ s = job[p].id
                           THEN Rows(k, s) \cup {Head(job[p].items)} ELSE Rows(k, s)
  BY <1>1, <1>2 DEF Rows
<1>4. Proved' = IF kind = "ATTACHMENT_ERASED" THEN Proved \cup {Head(job[p].items)} ELSE Proved
  BY <1>1, <1>2 DEF Proved
<1> QED BY <1>3, <1>4

(* A row is about a document that was stored, by a sweep that began. *)
LEMMA RowsAreKnown ==
  ASSUME LogFits, sweeps \in Nat
  PROVE  /\ \A k, s : Rows(k, s) \subseteq stored
         /\ \A k, s : (s \in Nat /\ s > sweeps) => Rows(k, s) = {}
         /\ Proved \subseteq stored
<1>1. \A x \in log : x.att \in stored /\ x.sweep \in 1 .. sweeps
  BY DEF LogFits
<1>2. \A x \in log : x.sweep <= sweeps
  BY <1>1
<1> QED BY <1>1, <1>2 DEF Rows, Proved

(* The facts of the invariant that the steps of a process use. *)
LEMMA DocsFacts ==
  ASSUME DocsInv, NEW p \in Processes
  PROVE  /\ WorldOK /\ StoreFits /\ LogFits /\ SweepsApart /\ ErasedIsGone /\ SweepAddsUp
         /\ job \in [Processes -> Jobs] /\ job[p] \in Jobs /\ SweepFits(p) /\ CandidateFits(p)
         /\ sweeps \in Nat /\ Index(p) \in Indexes /\ p \in Indexes
         /\ index \in [Indexes -> SUBSET stored] /\ \A i \in Indexes : index[i] \subseteq stored
<1>1. WorldOK /\ StoreFits
  BY DEF DocsInv
<1>2. index \in [Indexes -> SUBSET stored] /\ \A i \in Indexes : index[i] \subseteq stored
  BY <1>1 DEF StoreFits
<1>3. Index(p) \in Indexes
  BY <1>1, SettingFacts
<1>4. p \in Indexes
  BY DEF Indexes
<1>5. job \in [Processes -> Jobs] /\ job[p] \in Jobs /\ SweepFits(p) /\ CandidateFits(p)
  BY DEF DocsInv
<1> QED BY <1>1, <1>2, <1>3, <1>4, <1>5 DEF DocsInv, WorldOK

(* What a step of one process leaves of the sweeps of the others. *)
LEMMA OthersFit ==
  ASSUME DocsInv, NEW p \in Processes, UNCHANGED setting,
         sweeps' \in Nat, sweeps <= sweeps', stored \subseteq stored',
         Held \cup Proved \subseteq Held' \cup Proved',
         \A i \in Indexes : index'[i] \cap stored \subseteq index[i],
         \A q \in Processes \ {p} : job'[q] = job[q],
         \A q \in Processes \ {p} : mode = "object" => index'[q] = index[q],
         \A q \in Processes \ {p} : job[q].step # "idle" =>
            \A k, s : s = job[q].id => Rows(k, s)' = Rows(k, s)
  PROVE  \A q \in Processes \ {p} : SweepFits(q)' /\ CandidateFits(q)'
<1> SUFFICES ASSUME NEW q \in Processes \ {p} PROVE SweepFits(q)' /\ CandidateFits(q)'
  OBVIOUS
<1> DEFINE j == job[q]
           a == Head(j.items)
<1>1. SweepFits(q) /\ CandidateFits(q) /\ LogFits /\ sweeps \in Nat /\ Index(q) \in Indexes
  BY DocsFacts
<1>2. job'[q] = j /\ mode' = mode /\ Running' = Running /\ Index(q)' = Index(q)
  BY DEF mode, Running, Index
<1>3. CASE j.step = "idle"
  BY <1>1, <1>2, <1>3 DEF SweepFits, CandidateFits
<1>4. CASE j.step # "idle"
  <2>1. \A k : Rows(k, j.id) \subseteq stored
    BY <1>1, RowsAreKnown
  <2>2. /\ \A k : Rows(k, j.id)' = Rows(k, j.id)
        /\ Attributed(j.id)' = Attributed(j.id)
    BY <1>2, <1>4 DEF Attributed
  <2>3. Attributed(j.id) \subseteq stored
    BY <2>1 DEF Attributed
  <2>4. /\ j \in Jobs
        /\ j.deleted + j.blocked + Len(j.items) <= j.plan + (IF j.step = "swept" THEN 1 ELSE 0)
        /\ q \in Running /\ j.id \in 1 .. sweeps
        /\ IsFiniteSet(Attributed(j.id))
        /\ j.deleted = Cardinality(Attributed(j.id)) + (IF j.step = "swept" THEN 1 ELSE 0)
        /\ Attributed(j.id) \subseteq Rows("ATTACHMENT_ERASED", j.id) \ index[Index(q)]
    BY <1>1, <1>4 DEF SweepFits
  <2>5. j.id \in 1 .. sweeps'
    BY <1>1, <2>4
  <2>6. index'[Index(q)] \cap stored \subseteq index[Index(q)]
    BY <1>1
  <2>7. Attributed(j.id) \subseteq Rows("ATTACHMENT_ERASED", j.id) \ index'[Index(q)]
    BY <2>3, <2>4, <2>6
  <2>8. SweepFits(q)'
    BY <1>2, <2>2, <2>4, <2>5, <2>7 DEF SweepFits
  <2>9. CandidateFits(q)'
    <3> HIDE DEF a
    <3>1. /\ j.step \in {"prove", "delete", "swept"} =>
               j.items # <<>> /\ a \in stored /\ a \notin Attributed(j.id)
          /\ j.step \in {"prove", "delete"} =>
               a \in Held \cup Proved /\ (mode = "object" => a \in index[q])
          /\ j.step \in {"delete", "swept"} => a \in Rows("ATTACHMENT_ERASED", j.id)
          /\ j.step = "swept" => a \notin index[Index(q)]
      BY <1>1 DEF CandidateFits, a
    <3>2. mode = "object" => index'[q] = index[q]
      OBVIOUS
    <3>3. /\ j.step \in {"prove", "delete", "swept"} =>
               j.items # <<>> /\ a \in stored' /\ a \notin Attributed(j.id)'
          /\ j.step \in {"prove", "delete"} =>
               a \in Held' \cup Proved' /\ (mode' = "object" => a \in index'[q])
          /\ j.step \in {"delete", "swept"} => a \in Rows("ATTACHMENT_ERASED", j.id)'
          /\ j.step = "swept" => a \notin index'[Index(q)]
      BY <1>2, <2>2, <2>6, <3>1, <3>2
    <3> QED BY <1>2, <3>3 DEF CandidateFits, a
  <2> QED BY <2>8, <2>9
<1> QED BY <1>3, <1>4

-----------------------------------------------------------------------------
(* The steps on the bytes and the log: each keeps the invariant, and is a  *)
(* step of module Erasure or leaves what that module speaks of alone.      *)

AbstractStep == [Abstract!Next]_(Abstract!evars)

(* A step that leaves the bytes, the log and the sweeps alone. *)
LEMMA DocsStay ==
  ASSUME DocsInv, UNCHANGED <<setting, docs, sweep>>, faults' \in 0 .. setting.faults
  PROVE  DocsInv' /\ AbstractStep
<1>1. UNCHANGED <<stored, index, blobs, log, stranded, undeleted, job, sweeps, results, setting>>
  BY DEF docs, sweep
<1>2. UNCHANGED <<mode, Running, Held, Proved>>
  BY <1>1 DEF mode, Running, Held, Proved
<1>3. \A p : Index(p)' = Index(p)
  BY <1>2 DEF Index
<1>4. \A k, s : Rows(k, s)' = Rows(k, s)
  BY <1>1 DEF Rows
<1>5. AbstractStep
  BY <1>2 DEF AbstractStep, Abstract!evars
<1>6. WorldOK' /\ LogFits' /\ SweepsApart'
  BY <1>1 DEF DocsInv, WorldOK, LogFits, SweepsApart
<1>7. StoreFits'
  BY <1>1, <1>2, <1>3 DEF DocsInv, StoreFits, NothingReadsEmpty, StrandedIsKnown
<1>8. ErasedIsGone'
  BY <1>1, <1>2 DEF DocsInv, ErasedIsGone
<1>9. SweepAddsUp'
  BY <1>1 DEF DocsInv, SweepAddsUp
<1>10. ASSUME NEW p \in Processes PROVE SweepFits(p)' /\ CandidateFits(p)'
  <2>1. SweepFits(p) /\ CandidateFits(p) /\ job'[p] = job[p]
    BY <1>1 DEF DocsInv
  <2>2. \A k : Rows(k, job[p].id)' = Rows(k, job[p].id)
    BY <1>1, <1>4
  <2>3. Attributed(job[p].id)' = Attributed(job[p].id)
    BY <2>2 DEF Attributed
  <2> QED BY <1>1, <1>2, <1>3, <2>1, <2>2, <2>3 DEF SweepFits, CandidateFits
<1> QED BY <1>1, <1>5, <1>6, <1>7, <1>8, <1>9, <1>10 DEF DocsInv

(* A process that answers requests sweeps nothing. *)
LEMMA AnswersIdle ==
  ASSUME NEW p, Answers(p)
  PROVE  job[p].step = "idle" /\ p \in Running
  BY DEF Answers

(* A fault is counted. *)
LEMMA FaultsFit ==
  ASSUME WorldOK, UNCHANGED setting, Fault \/ NoFault
  PROVE  faults' \in 0 .. setting.faults
<1>1. setting.faults \in Nat
  BY SettingFacts
<1> QED BY <1>1 DEF WorldOK, Fault, NoFault

(* A document arrives, or its bytes do without it. *)
LEMMA StoreKeeps ==
  ASSUME DocsInv, NEW p \in Processes, NEW a \in setting.docs, StoreAttachment(p, a)
  PROVE  DocsInv' /\ AbstractStep
<1> DEFINE with == [index EXCEPT ![Index(p)] = @ \cup {a}]
<1>1. /\ job[p].step = "idle" /\ p \in Running /\ a \notin stored /\ stored' = stored \cup {a}
      /\ UNCHANGED <<setting, clock, log, undeleted, job, sweeps, results>>
  BY AnswersIdle DEF StoreAttachment, sweep
<1>2. /\ WorldOK /\ StoreFits /\ LogFits /\ SweepsApart /\ ErasedIsGone /\ SweepAddsUp
      /\ job \in [Processes -> Jobs] /\ SweepFits(p) /\ CandidateFits(p)
      /\ sweeps \in Nat /\ Index(p) \in Indexes
      /\ index \in [Indexes -> SUBSET stored] /\ \A i \in Indexes : index[i] \subseteq stored
  BY DocsFacts
<1>3. /\ mode \in {"memory", "db", "object"} /\ (mode = "object" => Index(p) = p)
      /\ (mode # "object" => Index(p) = Index(Home)) /\ a \in Attachments
      /\ \A q \in Processes : q \in Indexes
  BY <1>1, <1>2, SettingFacts DEF Indexes
<1>4. UNCHANGED <<mode, Running>> /\ \A i : Index(i)' = Index(i)
  BY <1>1 DEF mode, Running, Index
<1>5. /\ with \in [Indexes -> SUBSET stored'] /\ with[Index(p)] = index[Index(p)] \cup {a}
      /\ \A i \in Indexes : i # Index(p) => with[i] = index[i]
  BY <1>1, <1>2
<1>6. \/ index' = with /\ blobs' = (IF mode = "object" THEN blobs \cup {a} ELSE blobs)
         /\ UNCHANGED stranded
      \/ /\ mode = "object" /\ index' = index
         /\ \E written \in SUBSET {a} : blobs' = blobs \cup written /\ stranded' = stranded \cup written
  BY <1>1 DEF StoreAttachment, Enters
<1> HIDE DEF with
<1>7. /\ index' \in [Indexes -> SUBSET stored']
      /\ \A i \in Indexes : index'[i] \cap stored \subseteq index[i] /\ index[i] \subseteq index'[i]
      /\ \A i \in Indexes : i # Index(p) => index'[i] = index[i]
      /\ index'[Index(p)] \subseteq index[Index(p)] \cup {a}
      /\ blobs' \subseteq blobs \cup {a} /\ blobs \subseteq blobs'
  <2>1. CASE index' = with
    BY <1>1, <1>2, <1>5, <1>6, <2>1
  <2>2. CASE index' = index
    BY <1>1, <1>2, <1>6, <2>2
  <2> QED BY <1>6, <2>1, <2>2
<1>8. Held \subseteq Held' /\ Held' \subseteq Held \cup {a}
  BY <1>2, <1>7, HeldIn, HeldNext
<1>9. UNCHANGED Proved /\ a \notin Proved /\ \A k, s : Rows(k, s)' = Rows(k, s)
  BY <1>1, <1>2, RowsAreKnown DEF Proved, Rows
<1>10. a \notin Held
  BY <1>1, <1>2, HeldIn DEF StoreFits
<1>11. AbstractStep
  BY <1>3, <1>4, <1>8, <1>9, <1>10
     DEF AbstractStep, Abstract!evars, Abstract!Next, Abstract!Arrive
<1>12. WorldOK'
  BY <1>1, <1>2, FaultsFit DEF WorldOK, StoreAttachment
<1>13. \A q \in Processes \ {p} : mode = "object" => index'[q] = index[q]
  BY <1>3, <1>7
<1>14. \A q \in Processes \ {p} : SweepFits(q)' /\ CandidateFits(q)'
  BY <1>1, <1>2, <1>7, <1>8, <1>9, <1>13, OthersFit
<1>15. SweepFits(p)' /\ CandidateFits(p)'
  BY <1>1, <1>2 DEF SweepFits, CandidateFits
<1>16. LogFits' /\ SweepsApart' /\ SweepAddsUp'
  BY <1>1, <1>2 DEF LogFits, SweepsApart, SweepAddsUp
<1>17. ErasedIsGone'
  <2>1. \A row \in log : row.att \in stored
    BY <1>2 DEF LogFits
  <2> QED BY <1>1, <1>2, <1>8, <2>1 DEF ErasedIsGone
<1>18. StoreFits'
  <2>1. stored' \subseteq Attachments /\ blobs' \subseteq stored'
    BY <1>1, <1>2, <1>3, <1>7 DEF StoreFits
  <2>2. \A i, k \in Indexes : i # k => index'[i] \cap index'[k] = {}
    BY <1>1, <1>2, <1>7 DEF StoreFits
  <2>3. mode # "object" => blobs' = {} /\ \A i \in Indexes : i # Index(Home) => index'[i] = {}
    BY <1>2, <1>3, <1>6, <1>7 DEF StoreFits
  <2>4. ASSUME mode = "object"
        PROVE  /\ \A q \in Processes : index'[q] \subseteq blobs'
               /\ blobs' \ UNION {index'[q] : q \in Processes} \subseteq stranded'
    <3>1. /\ \A q \in Processes : index[q] \subseteq blobs
          /\ blobs \ UNION {index[q] : q \in Processes} \subseteq stranded
      BY <1>2, <2>4 DEF StoreFits, NothingReadsEmpty, StrandedIsKnown
    <3>2. CASE index' = with /\ blobs' = blobs \cup {a} /\ UNCHANGED stranded
      <4>1. index'[p] = index[p] \cup {a} /\ \A q \in Processes : q # p => index'[q] = index[q]
        BY <1>3, <1>5, <2>4, <3>2
      <4> QED BY <3>1, <3>2, <4>1
    <3>3. CASE index' = index /\ \E written \in SUBSET {a} :
                 blobs' = blobs \cup written /\ stranded' = stranded \cup written
      BY <3>1, <3>3
    <3> QED BY <1>6, <2>4, <3>2, <3>3
  <2> QED BY <1>4, <1>7, <2>1, <2>2, <2>3, <2>4 DEF StoreFits, NothingReadsEmpty, StrandedIsKnown
<1>19. job' \in [Processes -> Jobs]
  BY <1>1, <1>2
<1> QED BY <1>11, <1>12, <1>14, <1>15, <1>16, <1>17, <1>18, <1>19 DEF DocsInv

(* A step of one sweep that leaves the store and the log alone: what is    *)
(* left to show is that the sweep itself still fits.                       *)
LEMMA OneSweepMoves ==
  ASSUME DocsInv, NEW p \in Processes, UNCHANGED <<setting, docs>>,
         faults' \in 0 .. setting.faults, sweeps' \in Nat, sweeps <= sweeps',
         NEW k \in Jobs, job' = [job EXCEPT ![p] = k],
         SweepFits(p)', CandidateFits(p)', SweepsApart', SweepAddsUp',
         job[p].step = "delete" => k.step = "delete" /\ k.items = job[p].items
  PROVE  DocsInv' /\ AbstractStep
<1>1. /\ UNCHANGED <<stored, index, blobs, log, stranded, undeleted, setting>>
      /\ \A q \in Processes : q # p => job'[q] = job[q]
      /\ job' \in [Processes -> Jobs] /\ job'[p] = k
  BY DocsFacts DEF docs
<1>2. UNCHANGED <<mode, Running, Held, Proved>> /\ \A q : Index(q)' = Index(q)
  BY <1>1 DEF mode, Running, Held, Proved, Index
<1>3. AbstractStep
  BY <1>2 DEF AbstractStep, Abstract!evars
<1>4. /\ WorldOK /\ StoreFits /\ LogFits /\ ErasedIsGone /\ sweeps \in Nat
      /\ index \in [Indexes -> SUBSET stored] /\ \A i \in Indexes : index[i] \subseteq stored
  BY DocsFacts
<1>5. WorldOK' /\ StoreFits'
  BY <1>1, <1>2, <1>4 DEF WorldOK, StoreFits, NothingReadsEmpty, StrandedIsKnown
<1>6. LogFits'
  <2>1. 1 .. sweeps \subseteq 1 .. sweeps'
    BY <1>4
  <2> QED BY <1>1, <1>4, <2>1 DEF LogFits
<1>7. \A q \in Processes \ {p} : SweepFits(q)' /\ CandidateFits(q)'
  <2>1. \A j, s : Rows(j, s)' = Rows(j, s)
    BY <1>1 DEF Rows
  <2> QED BY <1>1, <1>2, <1>4, <2>1, OthersFit
<1>8. ErasedIsGone'
  <2>1. \A q \in Processes : job[q].step = "delete" =>
          job'[q].step = "delete" /\ Head(job'[q].items) = Head(job[q].items)
    BY <1>1
  <2> QED BY <1>1, <1>2, <1>4, <2>1 DEF ErasedIsGone
<1> QED BY <1>1, <1>3, <1>5, <1>6, <1>7, <1>8 DEF DocsInv

(* A sweep starts: no row bears its number. *)
LEMMA StartKeeps ==
  ASSUME DocsInv, NEW p \in Processes, SweepStarts(p)
  PROVE  DocsInv' /\ AbstractStep
<1>1. /\ job[p].step = "idle" /\ p \in Running /\ sweeps' = sweeps + 1
      /\ UNCHANGED <<setting, docs, results>> /\ NoFault
  BY AnswersIdle DEF SweepStarts
<1>2. PICK plan \in setting.plans :
        job' = [job EXCEPT ![p] = [Idle EXCEPT !.step = "read", !.items = plan,
                                               !.plan = Len(plan), !.id = sweeps + 1]]
  BY DEF SweepStarts
<1>3. /\ WorldOK /\ LogFits /\ SweepsApart /\ SweepAddsUp /\ sweeps \in Nat
      /\ job \in [Processes -> Jobs] /\ \A q \in Processes : SweepFits(q)
  BY DocsFacts
<1>4. plan \in Seq(Attachments) /\ Len(plan) \in Nat
  BY <1>3, SettingFacts
<1>. PICK n \in Nat : n = sweeps + 1
  BY <1>3
<1>5. PICK k \in Jobs :
        /\ job' = [job EXCEPT ![p] = k] /\ k.step = "read" /\ k.items = plan /\ k.plan = Len(plan)
        /\ k.deleted = 0 /\ k.blocked = 0 /\ k.id = n
  BY <1>2, <1>4, FreshJob, ZenonT(40)
<1>7. job'[p] = k /\ \A q \in Processes : q # p => job'[q] = job[q]
  BY <1>3, <1>5
<1>8. UNCHANGED <<mode, Running, log, index>> /\ \A q : Index(q)' = Index(q)
  BY <1>1 DEF docs, mode, Running, Index
<1>9. Attributed(n)' = {}
  <2>1. \A kind : Rows(kind, n) = {}
    BY <1>3, RowsAreKnown
  <2> QED BY <1>8, <2>1 DEF Attributed, Rows
<1>11. SweepFits(p)'
  <2>1. k.id \in 1 .. sweeps'
    BY <1>1, <1>3, <1>5
  <2>2. IsFiniteSet({}) /\ Cardinality({}) = 0
    BY FS_EmptySet
  <2>4. 0 + 0 + Len(plan) <= Len(plan)
    BY <1>4
  <2>5. /\ job'[p] = k /\ k.step = "read" /\ k.id = n /\ p \in Running'
    BY <1>1, <1>5, <1>7, <1>8
  <2>6. Attributed(job[p].id)' = {}
    BY <1>9, <2>5 DEF Attributed, Rows
  <2>7. IsFiniteSet(Attributed(job[p].id)') /\ Cardinality(Attributed(job[p].id)') = 0
    BY <2>2, <2>6
  <2>8. job'[p] \in Jobs /\ job'[p].step = "read"
    BY <1>5, <2>5
  <2>9. job'[p].deleted + job'[p].blocked + Len(job'[p].items) <= job'[p].plan
    BY <1>5, <2>4, <2>5
  <2>10. p \in Running' /\ job'[p].id \in 1 .. sweeps' /\ job'[p].deleted = 0
    BY <1>5, <2>1, <2>5
  <2> QED BY <2>6, <2>7, <2>8, <2>9, <2>10 DEF SweepFits, Jobs
<1>12. CandidateFits(p)'
  BY <1>5, <1>7 DEF CandidateFits
<1>13. SweepsApart'
  <2>1. \A q \in Processes : job[q].step # "idle" => job[q].id \in 1 .. sweeps
    BY <1>3 DEF SweepFits
  <2>2. \A q \in Processes : job[q].step # "idle" => job[q].id # sweeps + 1
    BY <1>3, <2>1
  <2>3. \A r \in results : r.sweep \in 1 .. sweeps
    BY <1>3 DEF SweepsApart
  <2>4. \A r \in results : r.sweep # sweeps + 1 /\ r.sweep \in 1 .. sweeps'
    BY <1>1, <1>3, <2>3
  <2> QED BY <1>1, <1>3, <1>5, <1>7, <2>2, <2>4 DEF SweepsApart
<1>14. SweepAddsUp'
  BY <1>1, <1>3, <1>8 DEF SweepAddsUp
<1>15. faults' \in 0 .. setting.faults
  BY <1>1, <1>3, FaultsFit
<1>16. sweeps' \in Nat /\ sweeps <= sweeps' /\ job[p].step # "delete"
  BY <1>1, <1>3
<1> QED BY <1>1, <1>5, <1>11, <1>12, <1>13, <1>14, <1>15, <1>16, OneSweepMoves

(* A sweep under way that goes on under its number. *)
LEMMA SweepGoesOn ==
  ASSUME DocsInv, NEW p \in Processes, UNCHANGED <<setting, sweeps>>, NEW k \in Jobs, job'[p] = k,
         job[p].step # "idle", k.step # "idle", k.id = job[p].id,
         \A s : /\ Attributed(s)' = Attributed(s)
                /\ Rows("ATTACHMENT_ERASED", s) \subseteq Rows("ATTACHMENT_ERASED", s)',
         index'[Index(p)] \subseteq index[Index(p)],
         k.deleted + (IF job[p].step = "swept" THEN 1 ELSE 0)
           = job[p].deleted + (IF k.step = "swept" THEN 1 ELSE 0),
         k.deleted + k.blocked + Len(k.items) <= k.plan + (IF k.step = "swept" THEN 1 ELSE 0)
  PROVE  SweepFits(p)'
<1> DEFINE j == job[p]
<1>1. /\ j \in Jobs /\ p \in Running /\ j.id \in 1 .. sweeps
      /\ IsFiniteSet(Attributed(j.id))
      /\ j.deleted = Cardinality(Attributed(j.id)) + (IF j.step = "swept" THEN 1 ELSE 0)
      /\ Attributed(j.id) \subseteq Rows("ATTACHMENT_ERASED", j.id) \ index[Index(p)]
  BY DocsFacts DEF SweepFits
<1>2. Running' = Running /\ Index(p)' = Index(p)
  BY DEF Running, Index, mode
<1>3. PICK n : n = j.id
  OBVIOUS
<1>4. job'[p].id = n
  BY <1>3
<1>5. /\ Attributed(job[p].id)' = Attributed(n)
      /\ Rows("ATTACHMENT_ERASED", n) \subseteq Rows("ATTACHMENT_ERASED", job[p].id)'
  <2>1. /\ Attributed(n)' = Attributed(n)
        /\ Rows("ATTACHMENT_ERASED", n) \subseteq Rows("ATTACHMENT_ERASED", n)'
    OBVIOUS
  <2> QED BY <1>4, <2>1 DEF Attributed, Rows
<1>6. Cardinality(Attributed(n)) \in Nat
  BY <1>1, <1>3, FS_CardinalityType
<1>7. k.deleted = Cardinality(Attributed(n)) + (IF k.step = "swept" THEN 1 ELSE 0)
  BY <1>1, <1>3, <1>6, SMTT(40) DEF Jobs
<1>8. Attributed(n) \subseteq Rows("ATTACHMENT_ERASED", n) \ index'[Index(p)]
  BY <1>1, <1>3
<1>9. /\ job'[p].deleted = Cardinality(Attributed(job[p].id)') + (IF job'[p].step = "swept" THEN 1 ELSE 0)
      /\ IsFiniteSet(Attributed(job[p].id)')
      /\ Attributed(job[p].id)' \subseteq Rows("ATTACHMENT_ERASED", job[p].id)' \ index'[Index(p)]
  BY <1>1, <1>3, <1>5, <1>7, <1>8
<1>10. /\ p \in Running' /\ job'[p].id \in 1 .. sweeps' /\ job'[p] \in Jobs
       /\ job'[p].deleted + job'[p].blocked + Len(job'[p].items)
            <= job'[p].plan + (IF job'[p].step = "swept" THEN 1 ELSE 0)
  BY <1>1, <1>2
<1> QED BY <1>2, <1>9, <1>10 DEF SweepFits

(* Sweeps stay apart when one of them goes on or ends. *)
LEMMA SweepsStayApart ==
  ASSUME DocsInv, NEW p \in Processes, UNCHANGED <<sweeps, results>>,
         NEW k \in Jobs, job' = [job EXCEPT ![p] = k],
         k.step = "idle" \/ (job[p].step # "idle" /\ k.id = job[p].id)
  PROVE  SweepsApart'
<1>1. SweepsApart /\ job'[p] = k /\ \A q \in Processes : q # p => job'[q] = job[q]
  BY DocsFacts
<1> QED BY <1>1 DEF SweepsApart

(* A candidate counted as blocked is one less to come. *)
LEMMA BlockedAddsUp ==
  ASSUME NEW j \in Jobs, NEW k \in Jobs, j.items # <<>>, k.items = Tail(j.items), k.plan = j.plan,
         k.deleted = j.deleted, k.blocked = j.blocked + 1, k.step = "read",
         j.deleted + j.blocked + Len(j.items) <= j.plan
  PROVE  k.deleted + k.blocked + Len(k.items) <= k.plan + (IF k.step = "swept" THEN 1 ELSE 0)
<1>1. PICK t \in Nat : t = Len(Tail(j.items)) /\ t + 1 = Len(j.items)
  BY Candidates, LenProperties
<1>2. /\ j.deleted \in Nat /\ j.blocked \in Nat /\ j.plan \in Nat
      /\ j.deleted + j.blocked + (t + 1) <= j.plan /\ Len(k.items) = t
  BY <1>1 DEF Jobs
<1>3. j.deleted + (j.blocked + 1) + t <= j.plan + 0
  BY <1>2
<1> QED BY <1>2, <1>3

(* The record is read; one that is gone is passed over uncounted, one that *)
(* could not be read is blocked.                                           *)
LEMMA ReadKeeps ==
  ASSUME DocsInv, NEW p \in Processes, SweepReads(p)
  PROVE  DocsInv' /\ AbstractStep
<1> DEFINE j == job[p]
<1>1. /\ j.step = "read" /\ j.items # <<>> /\ (NoFault \/ Fault)
      /\ UNCHANGED <<setting, docs, sweeps, results>>
  BY DEF SweepReads
<1>2. /\ WorldOK /\ StoreFits /\ LogFits /\ SweepAddsUp /\ sweeps \in Nat
      /\ j \in Jobs /\ job \in [Processes -> Jobs] /\ SweepFits(p) /\ CandidateFits(p)
      /\ Index(p) \in Indexes /\ index \in [Indexes -> SUBSET stored]
      /\ \A i \in Indexes : index[i] \subseteq stored
  BY DocsFacts
<1>3. /\ Len(j.items) \in Nat /\ Len(Tail(j.items)) + 1 = Len(j.items)
      /\ j.deleted + j.blocked + Len(j.items) <= j.plan
      /\ j.deleted \in Nat /\ j.blocked \in Nat /\ j.plan \in Nat
  BY <1>1, <1>2, Candidates DEF SweepFits, Jobs
<1>4. UNCHANGED <<stored, index, log, blobs, mode, Running>> /\ Index(p)' = Index(p)
      /\ Held' = Held /\ Proved' = Proved
  BY <1>1 DEF docs, mode, Running, Index, Held, Proved
<1>5. \A s : /\ Attributed(s)' = Attributed(s)
             /\ Rows("ATTACHMENT_ERASED", s) \subseteq Rows("ATTACHMENT_ERASED", s)'
  BY <1>4 DEF Attributed, Rows
<1>6. SweepAddsUp'
  BY <1>1, <1>2, <1>4 DEF SweepAddsUp
<1>7. /\ faults' \in 0 .. setting.faults /\ sweeps' \in Nat /\ sweeps <= sweeps'
      /\ job[p].step # "delete" /\ UNCHANGED <<setting, docs>>
  BY <1>1, <1>2, FaultsFit
<1>8. CASE job' = [job EXCEPT ![p] = [j EXCEPT !.step = "prove"]] /\ Readable(p, Head(j.items))
  <2>1. PICK k \in Jobs :
          /\ job' = [job EXCEPT ![p] = k] /\ k.step = "prove" /\ k.items = j.items
          /\ k.plan = j.plan /\ k.deleted = j.deleted /\ k.blocked = j.blocked /\ k.id = j.id
    BY <1>2, <1>8, StepChanges, ZenonT(40)
  <2>2. job'[p] = k
    BY <1>2, <2>1
  <2>3. SweepFits(p)'
    BY <1>1, <1>2, <1>3, <1>4, <1>5, <2>1, <2>2, SweepGoesOn
  <2>4. CandidateFits(p)'
    <3>1. PICK a : a = Head(j.items)
      OBVIOUS
    <3>2. PICK n : n = j.id
      OBVIOUS
    <3>3. a \in index[Index(p)] /\ a \in stored
      BY <1>2, <1>8, <3>1 DEF Readable
    <3>4. a \notin Attributed(n)
      BY <1>1, <1>2, <3>2, <3>3 DEF SweepFits
    <3>5. a \notin Attributed(job[p].id)'
      BY <1>4, <2>1, <2>2, <3>2, <3>4 DEF Attributed, Rows
    <3>6. a \in Held' /\ (mode' = "object" => a \in index'[p])
      BY <1>2, <1>4, <3>3, HeldIn, SettingFacts
    <3>7. Head(job'[p].items) = a /\ job'[p].step = "prove" /\ job'[p].items # <<>> /\ a \in stored'
      BY <1>1, <1>4, <2>1, <2>2, <3>1, <3>3
    <3> QED BY <3>5, <3>6, <3>7 DEF CandidateFits
  <2>5. SweepsApart'
    BY <1>1, <2>1, SweepsStayApart
  <2> QED BY <1>6, <1>7, <2>1, <2>3, <2>4, <2>5, OneSweepMoves
<1>9. CASE job' = [job EXCEPT ![p] = [NextItem(j) EXCEPT !.deleted = @ + Counts(FALSE)]]
  <2>1. PICK k \in Jobs :
          /\ job' = [job EXCEPT ![p] = k] /\ k.step = "read" /\ k.items = Tail(j.items)
          /\ k.plan = j.plan /\ k.deleted = j.deleted /\ k.blocked = j.blocked /\ k.id = j.id
    BY <1>1, <1>2, <1>9, MissingCandidate
  <2>2. job'[p] = k
    BY <1>2, <2>1
  <2>3. k.deleted + k.blocked + Len(k.items) <= k.plan + (IF k.step = "swept" THEN 1 ELSE 0)
    <3>1. Len(Tail(j.items)) \in Nat
      BY <1>3, Candidates, <1>1, <1>2
    <3> QED BY <1>3, <2>1, <3>1, SMTT(40)
  <2>4. SweepFits(p)'
    BY <1>1, <1>2, <1>3, <1>4, <1>5, <2>1, <2>2, <2>3, SweepGoesOn
  <2>5. CandidateFits(p)'
    BY <2>1, <2>2 DEF CandidateFits
  <2>6. SweepsApart'
    BY <1>1, <2>1, SweepsStayApart
  <2> QED BY <1>6, <1>7, <2>1, <2>4, <2>5, <2>6, OneSweepMoves
<1>10. CASE job' = [job EXCEPT ![p] = Blocked(j)]
  <2>1. PICK k \in Jobs :
          /\ job' = [job EXCEPT ![p] = k] /\ k.step = "read" /\ k.items = Tail(j.items)
          /\ k.plan = j.plan /\ k.deleted = j.deleted /\ k.blocked = j.blocked + 1 /\ k.id = j.id
    BY <1>1, <1>2, <1>10, BlockedCandidate
  <2>2. job'[p] = k
    BY <1>2, <2>1
  <2>3. k.deleted + k.blocked + Len(k.items) <= k.plan + (IF k.step = "swept" THEN 1 ELSE 0)
    BY <1>1, <1>2, <1>3, <2>1, BlockedAddsUp
  <2>4. SweepFits(p)'
    BY <1>1, <1>2, <1>3, <1>4, <1>5, <2>1, <2>2, <2>3, SweepGoesOn
  <2>5. CandidateFits(p)'
    BY <2>1, <2>2 DEF CandidateFits
  <2>6. SweepsApart'
    BY <1>1, <2>1, SweepsStayApart
  <2> QED BY <1>6, <1>7, <2>1, <2>4, <2>5, <2>6, OneSweepMoves
<1>11. \/ job' = [job EXCEPT ![p] = [j EXCEPT !.step = "prove"]] /\ Readable(p, Head(j.items))
       \/ job' = [job EXCEPT ![p] = [NextItem(j) EXCEPT !.deleted = @ + Counts(FALSE)]]
       \/ job' = [job EXCEPT ![p] = Blocked(j)]
  BY DEF SweepReads
<1> QED BY <1>8, <1>9, <1>10, <1>11

(* A sweep returns: its counts are those of its rows. *)
LEMMA EndKeeps ==
  ASSUME DocsInv, NEW p \in Processes, SweepEnds(p)
  PROVE  DocsInv' /\ AbstractStep
<1> DEFINE j == job[p]
           new == [sweep |-> j.id, deleted |-> j.deleted, blocked |-> j.blocked, items |-> j.plan]
<1>1. /\ j.step = "read" /\ j.items = <<>> /\ NoFault
      /\ results' = results \cup {new} /\ job' = [job EXCEPT ![p] = Idle]
      /\ UNCHANGED <<setting, docs, sweeps>>
  BY DEF SweepEnds
<1>2. new.sweep = j.id /\ new.deleted = j.deleted /\ new.blocked = j.blocked /\ new.items = j.plan
  OBVIOUS
<1> HIDE DEF new
<1>3. /\ WorldOK /\ LogFits /\ SweepAddsUp /\ SweepsApart /\ sweeps \in Nat
      /\ j \in Jobs /\ job \in [Processes -> Jobs] /\ SweepFits(p)
  BY DocsFacts
<1>4. UNCHANGED <<log, index, mode>>
  BY <1>1 DEF docs, mode
<1>5. /\ Idle \in Jobs /\ job'[p] = Idle /\ Idle.step = "idle"
      /\ \A q \in Processes : q # p => job'[q] = job[q]
  BY <1>1, <1>3, IdleJob
<1>6. /\ faults' \in 0 .. setting.faults /\ sweeps' \in Nat /\ sweeps <= sweeps'
      /\ job[p].step # "delete" /\ UNCHANGED <<setting, docs>>
  BY <1>1, <1>3, FaultsFit
<1>7. SweepFits(p)' /\ CandidateFits(p)'
  <2>1. 0 + 0 + Len(<<>>) <= 0
    OBVIOUS
  <2>2. /\ job'[p].step = "idle" /\ job'[p] \in Jobs
        /\ job'[p].deleted + job'[p].blocked + Len(job'[p].items) <= job'[p].plan + 0
    BY <1>5, <2>1, IdleJob
  <2> QED BY <2>2 DEF SweepFits, CandidateFits
<1>8. SweepsApart'
  BY <1>1, <1>2, <1>3, <1>5 DEF SweepsApart, SweepFits
<1>9. SweepAddsUp'
  <2>1. /\ Attributed(new.sweep) \subseteq Rows("ATTACHMENT_ERASED", new.sweep)
        /\ Cardinality(Attributed(new.sweep)) = new.deleted
        /\ IsFiniteSet(Attributed(new.sweep))
        /\ new.deleted + new.blocked <= new.items
    <3>1. /\ Attributed(j.id) \subseteq Rows("ATTACHMENT_ERASED", j.id)
          /\ j.deleted = Cardinality(Attributed(j.id)) + 0
          /\ IsFiniteSet(Attributed(j.id))
      BY <1>1, <1>3 DEF SweepFits
    <3>2. Len(j.items) = 0
      BY <1>1
    <3>3. j.deleted + j.blocked + Len(j.items) <= j.plan + 0
      BY <1>1, <1>3 DEF SweepFits
    <3>4. j.deleted \in Nat /\ j.blocked \in Nat /\ j.plan \in Nat
      BY <1>3 DEF Jobs
    <3>5. Cardinality(Attributed(j.id)) \in Nat
      BY <3>1, FS_CardinalityType
    <3> QED BY <1>2, <3>1, <3>2, <3>3, <3>4, <3>5
  <2>2. ASSUME NEW r \in results \cup {new}
        PROVE  LET rows(kind) == {row.att : row \in {x \in log : x.sweep = r.sweep /\ x.kind = kind}}
               IN  /\ rows("SCHEDULED_RETENTION_DELETE") \subseteq rows("ATTACHMENT_ERASED")
                   /\ Cardinality(rows("SCHEDULED_RETENTION_DELETE")) = r.deleted
                   /\ r.deleted + r.blocked <= r.items
    <3>1. CASE r \in results
      BY <1>3, <3>1 DEF SweepAddsUp
    <3>2. CASE r = new
      BY <2>1, <3>2 DEF Attributed, Rows
    <3> QED BY <3>1, <3>2
  <2> QED BY <1>1, <1>4, <2>2 DEF SweepAddsUp
<1> QED BY <1>1, <1>5, <1>6, <1>7, <1>8, <1>9, OneSweepMoves

(* The proof of erasure is written; a log that refuses it aborts the       *)
(* erasure of this candidate.                                              *)
LEMMA ProveKeeps ==
  ASSUME DocsInv, NEW p \in Processes, SweepProves(p)
  PROVE  DocsInv' /\ AbstractStep
<1> DEFINE j == job[p]
<1>1. /\ j.step = "prove"
      /\ UNCHANGED <<setting, stored, index, blobs, stranded, undeleted, sweeps, results>>
  BY DEF SweepProves
<1>2. /\ WorldOK /\ StoreFits /\ LogFits /\ SweepAddsUp /\ SweepsApart /\ ErasedIsGone /\ sweeps \in Nat
      /\ j \in Jobs /\ job \in [Processes -> Jobs] /\ SweepFits(p) /\ CandidateFits(p)
      /\ Index(p) \in Indexes /\ index \in [Indexes -> SUBSET stored]
      /\ \A i \in Indexes : index[i] \subseteq stored
  BY DocsFacts
<1>3. /\ j.items # <<>> /\ Len(j.items) \in Nat /\ Len(Tail(j.items)) + 1 = Len(j.items)
      /\ Len(Tail(j.items)) \in Nat
      /\ j.deleted + j.blocked + Len(j.items) <= j.plan
      /\ j.deleted \in Nat /\ j.blocked \in Nat /\ j.plan \in Nat
  BY <1>1, <1>2, Candidates DEF SweepFits, CandidateFits, Jobs
<1>4. UNCHANGED <<mode, Running, Held>> /\ \A i : Index(i)' = Index(i)
  BY <1>1 DEF mode, Running, Index, Held
<1>5. CASE job' = [job EXCEPT ![p] = Unproved(j)] /\ Fault /\ UNCHANGED log
  <2>1. PICK k \in Jobs :
          /\ job' = [job EXCEPT ![p] = k] /\ k.step = "read" /\ k.items = Tail(j.items)
          /\ k.plan = j.plan /\ k.deleted = j.deleted /\ k.blocked = j.blocked + 1 /\ k.id = j.id
    BY <1>2, <1>3, <1>5, BlockedCandidate DEF Unproved
  <2>2. job'[p] = k
    BY <1>2, <2>1
  <2>3. k.deleted + k.blocked + Len(k.items) <= k.plan + (IF k.step = "swept" THEN 1 ELSE 0)
    BY <1>2, <1>3, <2>1, BlockedAddsUp
  <2>4. \A s : /\ Attributed(s)' = Attributed(s)
               /\ Rows("ATTACHMENT_ERASED", s) \subseteq Rows("ATTACHMENT_ERASED", s)'
    BY <1>5 DEF Attributed, Rows
  <2>5. SweepFits(p)'
    BY <1>1, <1>2, <1>3, <1>4, <2>1, <2>2, <2>3, <2>4, SweepGoesOn
  <2>6. CandidateFits(p)'
    BY <2>1, <2>2 DEF CandidateFits
  <2>7. SweepsApart'
    BY <1>1, <2>1, SweepsStayApart
  <2>8. SweepAddsUp'
    BY <1>1, <1>2, <1>5 DEF SweepAddsUp
  <2>9. /\ faults' \in 0 .. setting.faults /\ sweeps' \in Nat /\ sweeps <= sweeps'
        /\ job[p].step # "delete" /\ UNCHANGED <<setting, docs>>
    BY <1>1, <1>2, <1>5, FaultsFit DEF docs
  <2> QED BY <2>1, <2>5, <2>6, <2>7, <2>8, <2>9, OneSweepMoves
<1>6. CASE /\ log' = log \cup {Row("ATTACHMENT_ERASED", p)}
           /\ job' = [job EXCEPT ![p].step = "delete"] /\ NoFault
  <2>1. PICK k \in Jobs :
          /\ job' = [job EXCEPT ![p] = k] /\ k.step = "delete" /\ k.items = j.items
          /\ k.plan = j.plan /\ k.deleted = j.deleted /\ k.blocked = j.blocked /\ k.id = j.id
    BY <1>2, <1>6, StepChanges, ZenonT(40)
  <2>2. /\ job'[p] = k /\ \A q \in Processes : q # p => job'[q] = job[q]
        /\ job' \in [Processes -> Jobs]
    BY <1>2, <2>1
  <2>3. PICK a : a = Head(j.items)
    OBVIOUS
  <2>4. PICK n : n = j.id
    OBVIOUS
  <2>5. /\ \A kind, s : Rows(kind, s)' = IF kind = "ATTACHMENT_ERASED" /\ s = n
                                      THEN Rows(kind, s) \cup {a} ELSE Rows(kind, s)
        /\ Proved' = Proved \cup {a}
    BY <1>6, <2>3, <2>4, RowAdded
  <2>6. \A s : /\ Attributed(s)' = Attributed(s)
               /\ Rows("ATTACHMENT_ERASED", s) \subseteq Rows("ATTACHMENT_ERASED", s)'
    BY <2>5 DEF Attributed
  <2>7. /\ a \in stored /\ a \notin Attributed(n) /\ a \in Held \cup Proved
        /\ (mode = "object" => a \in index[p]) /\ n \in 1 .. sweeps
    BY <1>1, <1>2, <2>3, <2>4 DEF CandidateFits, SweepFits
  <2>8. SweepFits(p)'
    BY <1>1, <1>2, <1>3, <1>4, <2>1, <2>2, <2>6, SweepGoesOn
  <2>9. CandidateFits(p)'
    <3>1. Attributed(job[p].id)' = Attributed(n) /\ a \in Rows("ATTACHMENT_ERASED", job[p].id)'
      <4>1. a \in Rows("ATTACHMENT_ERASED", n)' /\ Attributed(n)' = Attributed(n)
        BY <2>5, <2>6
      <4> QED BY <2>1, <2>2, <2>4, <4>1 DEF Attributed, Rows
    <3>2. a \in Held' \cup Proved' /\ (mode' = "object" => a \in index'[p]) /\ a \in stored'
      BY <1>1, <1>4, <2>5, <2>7
    <3>3. Head(job'[p].items) = a /\ job'[p].step = "delete" /\ job'[p].items # <<>>
      BY <1>3, <2>1, <2>2, <2>3
    <3> QED BY <2>7, <3>1, <3>2, <3>3 DEF CandidateFits
  <2>10. \A q \in Processes \ {p} : SweepFits(q)' /\ CandidateFits(q)'
    <3>1. \A q \in Processes \ {p} : job[q].step # "idle" => job[q].id # n
      BY <1>1, <1>2, <2>4 DEF SweepsApart
    <3>2. \A q \in Processes \ {p} : job[q].step # "idle" =>
            \A kind, s : s = job[q].id => Rows(kind, s)' = Rows(kind, s)
      BY <2>5, <3>1
    <3>3. /\ UNCHANGED setting /\ sweeps' \in Nat /\ sweeps <= sweeps' /\ stored \subseteq stored'
          /\ Held \cup Proved \subseteq Held' \cup Proved'
          /\ \A i \in Indexes : index'[i] \cap stored \subseteq index[i]
          /\ \A q \in Processes \ {p} : job'[q] = job[q]
          /\ \A q \in Processes \ {p} : mode = "object" => index'[q] = index[q]
      BY <1>1, <1>2, <1>4, <2>2, <2>5
    <3> QED BY <3>2, <3>3, OthersFit
  <2>11. SweepsApart'
    BY <1>1, <2>1, SweepsStayApart
  <2>12. SweepAddsUp'
    <3>1. \A r \in results : r.sweep # n
      BY <1>1, <1>2, <2>4 DEF SweepsApart
    <3>3. ASSUME NEW r \in results
          PROVE  LET rows(kind) == {row.att : row \in {x \in log' : x.sweep = r.sweep /\ x.kind = kind}}
                 IN  /\ rows("SCHEDULED_RETENTION_DELETE") \subseteq rows("ATTACHMENT_ERASED")
                     /\ Cardinality(rows("SCHEDULED_RETENTION_DELETE")) = r.deleted
                     /\ r.deleted + r.blocked <= r.items
      <4>1. PICK s : s = r.sweep
        OBVIOUS
      <4>2. /\ Rows("SCHEDULED_RETENTION_DELETE", s)' = Rows("SCHEDULED_RETENTION_DELETE", s)
            /\ Rows("ATTACHMENT_ERASED", s)' = Rows("ATTACHMENT_ERASED", s)
        BY <2>5, <3>1, <4>1
      <4>3. /\ Rows("SCHEDULED_RETENTION_DELETE", s) \subseteq Rows("ATTACHMENT_ERASED", s)
            /\ Cardinality(Rows("SCHEDULED_RETENTION_DELETE", s)) = r.deleted
            /\ r.deleted + r.blocked <= r.items
        BY <1>2, <4>1 DEF SweepAddsUp, Rows
      <4>4. /\ Rows("SCHEDULED_RETENTION_DELETE", s)' \subseteq Rows("ATTACHMENT_ERASED", s)'
            /\ Cardinality(Rows("SCHEDULED_RETENTION_DELETE", s)') = r.deleted
        BY <4>2, <4>3
      <4> QED BY <4>1, <4>3, <4>4 DEF Rows
    <3> QED BY <1>1, <3>3 DEF SweepAddsUp
  <2>13. ErasedIsGone'
    <3>1. Row("ATTACHMENT_ERASED", p).att = a
      BY <2>3 DEF Row
    <3>2. \A q \in Processes : job[q].step = "delete" =>
            job'[q].step = "delete" /\ Head(job'[q].items) = Head(job[q].items)
      BY <1>1, <2>2
    <3>3. job'[p].step = "delete" /\ Head(job'[p].items) = a
      BY <2>1, <2>2, <2>3
    <3>4. ASSUME NEW row \in log', row.kind = "ATTACHMENT_ERASED"
          PROVE  \/ row.att \notin Held
                 \/ row.att \in undeleted
                 \/ \E q \in Processes : job'[q].step = "delete" /\ Head(job'[q].items) = row.att
      <4>1. CASE row \in log
        BY <1>2, <3>2, <3>4, <4>1 DEF ErasedIsGone
      <4>2. CASE row = Row("ATTACHMENT_ERASED", p)
        BY <3>1, <3>3, <4>2
      <4> QED BY <1>6, <4>1, <4>2
    <3> QED BY <1>1, <1>4, <3>4 DEF ErasedIsGone
  <2>14. LogFits'
    <3>1. Row("ATTACHMENT_ERASED", p) \in [kind : Kinds, att : stored, sweep : 1 .. sweeps]
      BY <2>3, <2>4, <2>7 DEF Row, Kinds
    <3> QED BY <1>1, <1>2, <1>6, <3>1 DEF LogFits
  <2>15. WorldOK' /\ StoreFits'
    BY <1>1, <1>2, <1>4, <1>6, FaultsFit DEF WorldOK, StoreFits, NothingReadsEmpty, StrandedIsKnown
  <2>16. AbstractStep
    <3>1. a \in Attachments
      BY <1>2, <2>7 DEF StoreFits
    <3>2. CASE a \in Proved
      BY <1>4, <2>5, <3>2 DEF AbstractStep, Abstract!evars
    <3>3. CASE a \in Held
      BY <1>4, <2>5, <3>1, <3>3 DEF AbstractStep, Abstract!evars, Abstract!Next, Abstract!Prove
    <3> QED BY <2>7, <3>2, <3>3
  <2> QED BY <2>2, <2>8, <2>9, <2>10, <2>11, <2>12, <2>13, <2>14, <2>15, <2>16 DEF DocsInv
<1> QED BY <1>5, <1>6 DEF SweepProves

(* The bytes go, or the deletion fails and is recorded as undone: where    *)
(* there is an object store their metadata is gone all the same.           *)
LEMMA DeleteKeeps ==
  ASSUME DocsInv, NEW p \in Processes, SweepDeletes(p)
  PROVE  DocsInv' /\ AbstractStep
<1> DEFINE j == job[p]
           i0 == Index(p)
<1>1. j.step = "delete" /\ UNCHANGED <<setting, stored, log, sweeps, results>>
  BY DEF SweepDeletes
<1>2. /\ WorldOK /\ StoreFits /\ LogFits /\ SweepAddsUp /\ SweepsApart /\ ErasedIsGone /\ sweeps \in Nat
      /\ j \in Jobs /\ job \in [Processes -> Jobs] /\ SweepFits(p) /\ CandidateFits(p)
      /\ i0 \in Indexes /\ index \in [Indexes -> SUBSET stored]
      /\ \A i \in Indexes : index[i] \subseteq stored
  BY DocsFacts
<1>3. /\ j.items # <<>> /\ Len(j.items) \in Nat
      /\ j.deleted + j.blocked + Len(j.items) <= j.plan
      /\ j.deleted \in Nat /\ j.blocked \in Nat /\ j.plan \in Nat
  BY <1>1, <1>2, Candidates DEF SweepFits, CandidateFits, Jobs
<1>4. /\ UNCHANGED <<mode, Running, Proved>> /\ \A i : Index(i)' = Index(i)
      /\ \A k, s : Rows(k, s)' = Rows(k, s)
      /\ \A s : Attributed(s)' = Attributed(s)
  BY <1>1 DEF mode, Running, Index, Proved, Rows, Attributed
<1>. PICK a : a = Head(j.items)
  OBVIOUS
<1>. PICK n : n = j.id
  OBVIOUS
<1>5. /\ a \in stored /\ a \notin Attributed(n) /\ a \in Held \cup Proved
      /\ a \in Rows("ATTACHMENT_ERASED", n)
      /\ (mode = "object" => a \in index[p]) /\ p \in Running
  BY <1>1, <1>2 DEF CandidateFits, SweepFits
<1>6. a \in Proved
  BY <1>5 DEF Rows, Proved
<1>7. /\ mode \in {"memory", "db", "object"} /\ (mode = "object" => i0 = p)
      /\ (mode # "object" => i0 = Index(Home)) /\ a \in Attachments
      /\ \A q \in Processes : q \in Indexes
  BY <1>2, <1>5, SettingFacts DEF Indexes, StoreFits
<1>. PICK without \in [Indexes -> SUBSET stored] : without = [index EXCEPT ![i0] = @ \ {a}]
  BY <1>2
<1>8. /\ without[i0] = index[i0] \ {a}
      /\ \A i \in Indexes : i # i0 => without[i] = index[i]
      /\ \A i \in Indexes : without[i] \subseteq index[i]
  BY <1>2
<1>9. \A i \in Indexes : i # i0 => a \notin index[i]
  BY <1>2, <1>5, <1>7 DEF StoreFits
<1>10. ASSUME NEW k \in Jobs, job' = [job EXCEPT ![p] = k], Fault \/ NoFault,
              index' = without \/ index' = index, blobs' \subseteq blobs,
              Held \cup Proved \subseteq Held' \cup Proved',
              SweepFits(p)', CandidateFits(p)', SweepsApart', ErasedIsGone', StoreFits'
       PROVE  DocsInv'
  <2>1. job' \in [Processes -> Jobs] /\ \A q \in Processes \ {p} : job'[q] = job[q]
    BY <1>2, <1>10
  <2>2. /\ UNCHANGED setting /\ sweeps' \in Nat /\ sweeps <= sweeps' /\ stored \subseteq stored'
        /\ \A i \in Indexes : index'[i] \cap stored \subseteq index[i]
    BY <1>1, <1>2, <1>8, <1>10
  <2>3. \A q \in Processes \ {p} : mode = "object" => index'[q] = index[q]
    BY <1>7, <1>8, <1>10
  <2>4. \A q \in Processes \ {p} : job[q].step # "idle" =>
          \A kind, s : s = job[q].id => Rows(kind, s)' = Rows(kind, s)
    BY <1>4
  <2>5. \A q \in Processes \ {p} : SweepFits(q)' /\ CandidateFits(q)'
    BY <1>10, <2>1, <2>2, <2>3, <2>4, OthersFit
  <2>6. WorldOK' /\ LogFits' /\ SweepAddsUp'
    BY <1>1, <1>2, <1>10, FaultsFit DEF WorldOK, LogFits, SweepAddsUp
  <2> QED BY <1>10, <2>1, <2>5, <2>6 DEF DocsInv
<1>11. CASE /\ index' = without /\ NoFault /\ blobs' = WithoutBlob(a)
            /\ job' = [job EXCEPT ![p] = [j EXCEPT !.step = "swept", !.deleted = @ + 1]]
            /\ UNCHANGED <<stranded, undeleted>>
  <2>1. PICK k \in Jobs :
          /\ job' = [job EXCEPT ![p] = k] /\ k.step = "swept" /\ k.items = j.items
          /\ k.plan = j.plan /\ k.deleted = j.deleted + 1 /\ k.blocked = j.blocked /\ k.id = j.id
    BY <1>2, <1>11, DeletionCounts
  <2>2. job'[p] = k /\ \A q \in Processes : q # p => job'[q] = job[q]
    BY <1>2, <2>1
  <2>3. blobs' = blobs \ {a}
    BY <1>11 DEF WithoutBlob
  <2>4. a \notin blobs' /\ \A i \in Indexes : a \notin index'[i]
    BY <1>8, <1>9, <1>11, <2>3
  <2>5. index' \in [Indexes -> SUBSET stored']
    BY <1>1, <1>11
  <2>6. Held' = Held \ {a}
    <3>1. ASSUME NEW x PROVE x \in Held' <=> x \in Held \ {a}
      <4>1. x \in Held <=> x \in blobs \/ \E i \in Indexes : x \in index[i]
        BY <1>2, HeldIn
      <4>2. x \in Held' <=> x \in blobs' \/ \E i \in Indexes : x \in index'[i]
        BY <2>5, HeldNext
      <4>3. CASE x = a
        BY <2>4, <4>2, <4>3
      <4>4. CASE x # a
        BY <1>8, <1>11, <2>3, <4>1, <4>2, <4>4
      <4> QED BY <4>3, <4>4
    <3> QED BY <3>1
  <2>7. AbstractStep
    <3>1. CASE a \in Held
      BY <1>4, <1>6, <1>7, <2>6, <3>1 DEF AbstractStep, Abstract!evars, Abstract!Next, Abstract!Erase
    <3>2. CASE a \notin Held
      BY <1>4, <2>6, <3>2 DEF AbstractStep, Abstract!evars
    <3> QED BY <3>1, <3>2
  <2>8. /\ k.deleted + k.blocked + Len(k.items) <= k.plan + (IF k.step = "swept" THEN 1 ELSE 0)
        /\ k.deleted + (IF job[p].step = "swept" THEN 1 ELSE 0)
             = job[p].deleted + (IF k.step = "swept" THEN 1 ELSE 0)
    <3>1. PICK l \in Nat : l = Len(j.items) /\ Len(k.items) = l
      BY <1>3, <2>1
    <3>2. /\ j.deleted + j.blocked + l <= j.plan
          /\ j.deleted \in Nat /\ j.blocked \in Nat /\ j.plan \in Nat
      BY <1>3, <3>1
    <3>3. (j.deleted + 1) + j.blocked + l <= j.plan + 1 /\ (j.deleted + 1) + 0 = j.deleted + 1
      BY <3>2
    <3>4. job[p].step # "swept" /\ k.step = "swept"
      BY <1>1, <2>1
    <3> QED BY <2>1, <3>1, <3>3, <3>4
  <2>9. SweepFits(p)'
    <3>1. index'[Index(p)] \subseteq index[Index(p)]
      BY <1>2, <1>8, <1>11
    <3>2. \A s : /\ Attributed(s)' = Attributed(s)
                 /\ Rows("ATTACHMENT_ERASED", s) \subseteq Rows("ATTACHMENT_ERASED", s)'
      BY <1>4
    <3> QED BY <1>1, <2>1, <2>2, <2>8, <3>1, <3>2, SweepGoesOn
  <2>10. CandidateFits(p)'
    <3>1. a \notin Attributed(job[p].id)' /\ a \in Rows("ATTACHMENT_ERASED", job[p].id)'
      BY <1>1, <1>5, <2>1, <2>2 DEF Attributed, Rows
    <3>2. Head(job'[p].items) = a /\ job'[p].step = "swept" /\ job'[p].items # <<>> /\ a \in stored'
      BY <1>1, <1>3, <1>5, <2>1, <2>2
    <3>3. a \notin index'[Index(p)]
      BY <1>2, <2>4
    <3> QED BY <1>4, <3>1, <3>2, <3>3 DEF CandidateFits
  <2>11. SweepsApart'
    BY <1>1, <2>1, SweepsStayApart
  <2>12. ErasedIsGone'
    <3>1. ASSUME NEW row \in log, row.kind = "ATTACHMENT_ERASED"
          PROVE  \/ row.att \notin Held'
                 \/ row.att \in undeleted'
                 \/ \E q \in Processes : job'[q].step = "delete" /\ Head(job'[q].items) = row.att
      <4>1. CASE row.att = a
        BY <2>6, <4>1
      <4>2. CASE row.att # a
        BY <1>2, <1>11, <2>2, <2>6, <3>1, <4>2 DEF ErasedIsGone
      <4> QED BY <4>1, <4>2
    <3> QED BY <1>1, <3>1 DEF ErasedIsGone
  <2>13. StoreFits'
    <3>1. stored' \subseteq Attachments /\ blobs' \subseteq stored'
      BY <1>1, <1>2, <2>3 DEF StoreFits
    <3>2. \A i, k2 \in Indexes : i # k2 => index'[i] \cap index'[k2] = {}
      BY <1>2, <1>8, <1>11 DEF StoreFits
    <3>3. mode # "object" => blobs' = {} /\ \A i \in Indexes : i # Index(Home) => index'[i] = {}
      BY <1>2, <1>8, <1>11, <2>3 DEF StoreFits
    <3>4. ASSUME mode = "object"
          PROVE  /\ \A q \in Processes : index'[q] \subseteq blobs'
                 /\ blobs' \ UNION {index'[q] : q \in Processes} \subseteq stranded'
      <4>1. /\ \A q \in Processes : index[q] \subseteq blobs
            /\ blobs \ UNION {index[q] : q \in Processes} \subseteq stranded
        BY <1>2, <3>4 DEF StoreFits, NothingReadsEmpty, StrandedIsKnown
      <4>2. \A q \in Processes : index'[q] = index[q] \ {a}
        BY <1>7, <1>8, <1>9, <1>11
      <4> QED BY <1>11, <2>3, <4>1, <4>2
    <3> QED BY <1>4, <2>5, <3>1, <3>2, <3>3, <3>4 DEF StoreFits, NothingReadsEmpty, StrandedIsKnown
  <2>14. Held \cup Proved \subseteq Held' \cup Proved'
    BY <1>4, <1>6, <2>6
  <2> QED BY <1>10, <1>11, <2>1, <2>3, <2>7, <2>9, <2>10, <2>11, <2>12, <2>13, <2>14
<1>12. CASE /\ mode # "memory" /\ Fault
            /\ index' = (IF mode = "object" THEN without ELSE index)
            /\ stranded' = (IF mode = "object" THEN stranded \cup {a} ELSE stranded)
            /\ job' = [job EXCEPT ![p] = Undone(j)]
            /\ undeleted' = (IF Undone(j).blocked > j.blocked THEN undeleted \cup {a} ELSE undeleted)
            /\ UNCHANGED blobs
  <2>1. PICK k \in Jobs :
          /\ job' = [job EXCEPT ![p] = k] /\ k.step = "read" /\ k.items = Tail(j.items)
          /\ k.plan = j.plan /\ k.deleted = j.deleted /\ k.blocked = j.blocked + 1 /\ k.id = j.id
          /\ undeleted' = undeleted \cup {a}
    <3>1. Undone(j) \in Jobs /\ Undone(j).blocked = j.blocked + 1
      BY <1>2, <1>3, BlockedCandidate DEF Undone
    <3>2. undeleted' = undeleted \cup {a}
      BY <1>3, <1>12, <3>1
    <3> QED BY <1>2, <1>3, <1>12, <3>2, BlockedCandidate DEF Undone
  <2>2. job'[p] = k /\ \A q \in Processes : q # p => job'[q] = job[q]
    BY <1>2, <2>1
  <2>3. /\ index' \in [Indexes -> SUBSET stored'] /\ \A i \in Indexes : index'[i] \subseteq index[i]
        /\ \A i \in Indexes : mode # "object" => index'[i] = index[i]
    BY <1>1, <1>2, <1>8, <1>12
  <2>4. Held' = Held
    <3>1. mode = "object" => a \in blobs
      BY <1>2, <1>5 DEF StoreFits, NothingReadsEmpty
    <3>2. ASSUME NEW x PROVE x \in Held' <=> x \in Held
      <4>1. x \in Held <=> x \in blobs \/ \E i \in Indexes : x \in index[i]
        BY <1>2, HeldIn
      <4>2. x \in Held' <=> x \in blobs \/ \E i \in Indexes : x \in index'[i]
        BY <1>12, <2>3, HeldNext
      <4>3. CASE mode # "object"
        BY <2>3, <4>1, <4>2, <4>3
      <4>4. CASE mode = "object"
        BY <1>8, <1>12, <3>1, <4>1, <4>2, <4>4
      <4> QED BY <4>3, <4>4
    <3> QED BY <3>2
  <2>5. AbstractStep
    BY <1>4, <2>4 DEF AbstractStep, Abstract!evars
  <2>6. k.deleted + k.blocked + Len(k.items) <= k.plan + (IF k.step = "swept" THEN 1 ELSE 0)
    BY <1>2, <1>3, <2>1, BlockedAddsUp
  <2>7. SweepFits(p)'
    BY <1>1, <1>2, <1>4, <2>1, <2>2, <2>3, <2>6, SweepGoesOn
  <2>8. CandidateFits(p)'
    BY <2>1, <2>2 DEF CandidateFits
  <2>9. SweepsApart'
    BY <1>1, <2>1, SweepsStayApart
  <2>10. ErasedIsGone'
    <3>1. ASSUME NEW row \in log, row.kind = "ATTACHMENT_ERASED"
          PROVE  \/ row.att \notin Held'
                 \/ row.att \in undeleted'
                 \/ \E q \in Processes : job'[q].step = "delete" /\ Head(job'[q].items) = row.att
      <4>1. CASE row.att = a
        BY <2>1, <4>1
      <4>2. CASE row.att # a
        BY <1>2, <2>1, <2>2, <2>4, <3>1, <4>2 DEF ErasedIsGone
      <4> QED BY <4>1, <4>2
    <3> QED BY <1>1, <3>1 DEF ErasedIsGone
  <2>11. StoreFits'
    <3>1. stored' \subseteq Attachments /\ blobs' \subseteq stored'
      BY <1>1, <1>2, <1>12 DEF StoreFits
    <3>2. \A i, k2 \in Indexes : i # k2 => index'[i] \cap index'[k2] = {}
      BY <1>2, <2>3 DEF StoreFits
    <3>3. mode # "object" => blobs' = {} /\ \A i \in Indexes : i # Index(Home) => index'[i] = {}
      BY <1>2, <1>12, <2>3 DEF StoreFits
    <3>4. ASSUME mode = "object"
          PROVE  /\ \A q \in Processes : index'[q] \subseteq blobs'
                 /\ blobs' \ UNION {index'[q] : q \in Processes} \subseteq stranded'
      <4>1. /\ \A q \in Processes : index[q] \subseteq blobs
            /\ blobs \ UNION {index[q] : q \in Processes} \subseteq stranded
        BY <1>2, <3>4 DEF StoreFits, NothingReadsEmpty, StrandedIsKnown
      <4>2. \A q \in Processes : index'[q] = index[q] \ {a}
        BY <1>7, <1>8, <1>9, <1>12, <3>4
      <4>3. stranded' = stranded \cup {a}
        BY <1>12, <3>4
      <4> QED BY <1>12, <4>1, <4>2, <4>3
    <3> QED BY <1>4, <2>3, <3>1, <3>2, <3>3, <3>4 DEF StoreFits, NothingReadsEmpty, StrandedIsKnown
  <2>12. Held \cup Proved \subseteq Held' \cup Proved' /\ (index' = without \/ index' = index)
    BY <1>4, <1>12, <2>4
  <2> QED BY <1>10, <1>12, <2>1, <2>5, <2>7, <2>8, <2>9, <2>10, <2>11, <2>12
<1> QED BY <1>11, <1>12 DEF SweepDeletes

(* The sweeper's own row, about a document its index has no more; without  *)
(* it the sweep ends there.                                                *)
LEMMA AttributeKeeps ==
  ASSUME DocsInv, NEW p \in Processes, SweepAttributes(p)
  PROVE  DocsInv' /\ AbstractStep
<1> DEFINE j == job[p]
<1>1. /\ j.step = "swept"
      /\ UNCHANGED <<setting, stored, index, blobs, stranded, undeleted, sweeps, results>>
  BY DEF SweepAttributes
<1>2. /\ WorldOK /\ StoreFits /\ LogFits /\ SweepAddsUp /\ SweepsApart /\ ErasedIsGone /\ sweeps \in Nat
      /\ j \in Jobs /\ job \in [Processes -> Jobs] /\ SweepFits(p) /\ CandidateFits(p)
      /\ Index(p) \in Indexes /\ index \in [Indexes -> SUBSET stored]
  BY DocsFacts
<1>3. j.items # <<>> /\ j.deleted + j.blocked + Len(j.items) <= j.plan + 1
  BY <1>1, <1>2 DEF SweepFits, CandidateFits
<1>4. UNCHANGED <<mode, Running, Held>> /\ \A i : Index(i)' = Index(i)
  BY <1>1 DEF mode, Running, Index, Held
<1>5. CASE job' = [job EXCEPT ![p] = Idle] /\ Fault /\ UNCHANGED log
  <2>1. /\ Idle \in Jobs /\ job'[p] = Idle /\ Idle.step = "idle"
        /\ \A q \in Processes : q # p => job'[q] = job[q]
    BY <1>2, <1>5, IdleJob
  <2>2. SweepFits(p)' /\ CandidateFits(p)'
    <3>1. 0 + 0 + Len(<<>>) <= 0
      OBVIOUS
    <3>2. /\ job'[p].step = "idle" /\ job'[p] \in Jobs
          /\ job'[p].deleted + job'[p].blocked + Len(job'[p].items) <= job'[p].plan + 0
      BY <2>1, <3>1, IdleJob
    <3> QED BY <3>2 DEF SweepFits, CandidateFits
  <2>3. SweepsApart'
    BY <1>1, <1>5, <2>1, SweepsStayApart
  <2>4. SweepAddsUp'
    BY <1>1, <1>2, <1>5 DEF SweepAddsUp
  <2>5. /\ faults' \in 0 .. setting.faults /\ sweeps' \in Nat /\ sweeps <= sweeps'
        /\ job[p].step # "delete" /\ UNCHANGED <<setting, docs>>
    BY <1>1, <1>2, <1>5, FaultsFit DEF docs
  <2> QED BY <1>5, <2>1, <2>2, <2>3, <2>4, <2>5, OneSweepMoves
<1>6. CASE /\ log' = log \cup {Row("SCHEDULED_RETENTION_DELETE", p)}
           /\ job' = [job EXCEPT ![p] = NextItem(j)] /\ NoFault
  <2>1. PICK k \in Jobs :
          /\ job' = [job EXCEPT ![p] = k] /\ k.step = "read" /\ k.items = Tail(j.items)
          /\ k.plan = j.plan /\ k.deleted = j.deleted /\ k.blocked = j.blocked /\ k.id = j.id
    BY <1>2, <1>3, <1>6, NextCandidate
  <2>2. /\ job'[p] = k /\ \A q \in Processes : q # p => job'[q] = job[q]
        /\ job' \in [Processes -> Jobs]
    BY <1>2, <2>1
  <2>3. PICK a : a = Head(j.items)
    OBVIOUS
  <2>4. PICK n : n = j.id
    OBVIOUS
  <2>5. /\ \A kind, s : Rows(kind, s)' = IF kind = "SCHEDULED_RETENTION_DELETE" /\ s = n
                                      THEN Rows(kind, s) \cup {a} ELSE Rows(kind, s)
        /\ Proved' = Proved
    BY <1>6, <2>3, <2>4, RowAdded
  <2>6. /\ a \in stored /\ a \notin Attributed(n) /\ a \in Rows("ATTACHMENT_ERASED", n)
        /\ a \notin index[Index(p)] /\ n \in 1 .. sweeps /\ p \in Running
        /\ IsFiniteSet(Attributed(n)) /\ j.deleted = Cardinality(Attributed(n)) + 1
        /\ Attributed(n) \subseteq Rows("ATTACHMENT_ERASED", n) \ index[Index(p)]
    BY <1>1, <1>2, <2>3, <2>4 DEF CandidateFits, SweepFits
  <2>7. /\ Attributed(n)' = Attributed(n) \cup {a}
        /\ Rows("ATTACHMENT_ERASED", n)' = Rows("ATTACHMENT_ERASED", n)
    BY <2>5 DEF Attributed
  <2>8. SweepFits(p)'
    <3>1. /\ IsFiniteSet(Attributed(n)')
          /\ Cardinality(Attributed(n)') = Cardinality(Attributed(n)) + 1
      BY <2>6, <2>7, FS_AddElement
    <3>2. /\ Attributed(job[p].id)' = Attributed(n)'
          /\ Rows("ATTACHMENT_ERASED", job[p].id)' = Rows("ATTACHMENT_ERASED", n)'
      BY <2>1, <2>2, <2>4 DEF Attributed, Rows
    <3>3. k.deleted + k.blocked + Len(k.items) <= k.plan + 0
      <4>1. PICK t \in Nat : t = Len(Tail(j.items)) /\ t + 1 = Len(j.items)
        BY <1>2, <1>3, Candidates, LenProperties
      <4>2. /\ j.deleted \in Nat /\ j.blocked \in Nat /\ j.plan \in Nat
            /\ j.deleted + j.blocked + (t + 1) <= j.plan + 1 /\ Len(k.items) = t
        BY <1>2, <1>3, <2>1, <4>1 DEF Jobs
      <4>3. j.deleted + j.blocked + t <= j.plan + 0
        BY <4>2, SMTT(30)
      <4> QED BY <2>1, <4>2, <4>3
    <3>4. Attributed(n)' \subseteq Rows("ATTACHMENT_ERASED", n)' \ index'[Index(p)]
      BY <1>1, <2>6, <2>7
    <3>5. /\ job'[p] \in Jobs /\ job'[p].step = "read" /\ p \in Running'
          /\ job'[p].id \in 1 .. sweeps'
          /\ job'[p].deleted + job'[p].blocked + Len(job'[p].items) <= job'[p].plan + 0
      BY <1>1, <1>4, <2>1, <2>2, <2>4, <2>6, <3>3
    <3>6. job'[p].deleted = Cardinality(Attributed(job[p].id)') + 0
      <4>1. Cardinality(Attributed(n)) \in Nat
        BY <2>6, FS_CardinalityType
      <4>2. Cardinality(Attributed(job[p].id)') = j.deleted
        BY <2>6, <3>1, <3>2, <4>1
      <4> QED BY <2>1, <2>2, <2>6, <4>1, <4>2
    <3> QED BY <1>4, <3>1, <3>2, <3>4, <3>5, <3>6 DEF SweepFits
  <2>9. CandidateFits(p)'
    BY <2>1, <2>2 DEF CandidateFits
  <2>10. \A q \in Processes \ {p} : SweepFits(q)' /\ CandidateFits(q)'
    <3>1. \A q \in Processes \ {p} : job[q].step # "idle" => job[q].id # n
      BY <1>1, <1>2, <2>4 DEF SweepsApart
    <3>2. \A q \in Processes \ {p} : job[q].step # "idle" =>
            \A kind, s : s = job[q].id => Rows(kind, s)' = Rows(kind, s)
      BY <2>5, <3>1
    <3>3. /\ UNCHANGED setting /\ sweeps' \in Nat /\ sweeps <= sweeps' /\ stored \subseteq stored'
          /\ Held \cup Proved \subseteq Held' \cup Proved'
          /\ \A i \in Indexes : index'[i] \cap stored \subseteq index[i]
          /\ \A q \in Processes \ {p} : job'[q] = job[q]
          /\ \A q \in Processes \ {p} : mode = "object" => index'[q] = index[q]
      BY <1>1, <1>2, <1>4, <2>2, <2>5
    <3> QED BY <3>2, <3>3, OthersFit
  <2>11. SweepsApart'
    BY <1>1, <2>1, SweepsStayApart
  <2>12. SweepAddsUp'
    <3>1. \A r \in results : r.sweep # n
      BY <1>1, <1>2, <2>4 DEF SweepsApart
    <3>2. ASSUME NEW r \in results
          PROVE  LET rows(kind) == {row.att : row \in {x \in log' : x.sweep = r.sweep /\ x.kind = kind}}
                 IN  /\ rows("SCHEDULED_RETENTION_DELETE") \subseteq rows("ATTACHMENT_ERASED")
                     /\ Cardinality(rows("SCHEDULED_RETENTION_DELETE")) = r.deleted
                     /\ r.deleted + r.blocked <= r.items
      <4>1. PICK s : s = r.sweep
        OBVIOUS
      <4>2. /\ Rows("SCHEDULED_RETENTION_DELETE", s)' = Rows("SCHEDULED_RETENTION_DELETE", s)
            /\ Rows("ATTACHMENT_ERASED", s)' = Rows("ATTACHMENT_ERASED", s)
        BY <2>5, <3>1, <4>1
      <4>3. /\ Rows("SCHEDULED_RETENTION_DELETE", s) \subseteq Rows("ATTACHMENT_ERASED", s)
            /\ Cardinality(Rows("SCHEDULED_RETENTION_DELETE", s)) = r.deleted
            /\ r.deleted + r.blocked <= r.items
        BY <1>2, <4>1 DEF SweepAddsUp, Rows
      <4>4. /\ Rows("SCHEDULED_RETENTION_DELETE", s)' \subseteq Rows("ATTACHMENT_ERASED", s)'
            /\ Cardinality(Rows("SCHEDULED_RETENTION_DELETE", s)') = r.deleted
        BY <4>2, <4>3
      <4> QED BY <4>1, <4>3, <4>4 DEF Rows
    <3> QED BY <1>1, <3>2 DEF SweepAddsUp
  <2>13. ErasedIsGone'
    <3>1. Row("SCHEDULED_RETENTION_DELETE", p).kind = "SCHEDULED_RETENTION_DELETE"
      BY DEF Row
    <3>2. \A q \in Processes : job[q].step = "delete" =>
            job'[q].step = "delete" /\ Head(job'[q].items) = Head(job[q].items)
      BY <1>1, <2>2
    <3>3. \A row \in log' : row.kind = "ATTACHMENT_ERASED" => row \in log
      BY <1>6, <3>1
    <3> QED BY <1>1, <1>2, <1>4, <3>2, <3>3 DEF ErasedIsGone
  <2>14. LogFits'
    <3>1. Row("SCHEDULED_RETENTION_DELETE", p) \in [kind : Kinds, att : stored, sweep : 1 .. sweeps]
      BY <2>3, <2>4, <2>6 DEF Row, Kinds
    <3> QED BY <1>1, <1>2, <1>6, <3>1 DEF LogFits
  <2>15. WorldOK' /\ StoreFits'
    BY <1>1, <1>2, <1>4, <1>6, FaultsFit DEF WorldOK, StoreFits, NothingReadsEmpty, StrandedIsKnown
  <2>16. AbstractStep
    BY <1>4, <2>5 DEF AbstractStep, Abstract!evars
  <2> QED BY <2>2, <2>8, <2>9, <2>10, <2>11, <2>12, <2>13, <2>14, <2>15, <2>16 DEF DocsInv
<1> QED BY <1>5, <1>6 DEF SweepAttributes

(* A restart loses what was only in the process: the bytes and the log of  *)
(* a deployment in memory, the index of an object store.                   *)
LEMMA RestartKeeps ==
  ASSUME DocsInv, NEW p \in Processes, Restart(p)
  PROVE  DocsInv' /\ AbstractStep
<1>1. /\ p \in Running /\ Fault /\ job' = [job EXCEPT ![p] = Idle]
      /\ index' = (IF mode = "db" THEN index ELSE [index EXCEPT ![p] = {}])
      /\ stranded' = (IF mode = "object" THEN stranded \cup index[p] ELSE stranded)
      /\ undeleted' = (IF job[p].step = "delete" THEN undeleted \cup {Head(job[p].items)} ELSE undeleted)
      /\ log' = (IF mode = "memory" THEN {} ELSE log)
      /\ results' = (IF mode = "memory" THEN {} ELSE results)
      /\ UNCHANGED <<setting, stored, blobs, sweeps>>
  BY DEF Restart
<1>2. /\ WorldOK /\ StoreFits /\ LogFits /\ SweepAddsUp /\ SweepsApart /\ ErasedIsGone /\ sweeps \in Nat
      /\ job \in [Processes -> Jobs] /\ SweepFits(p) /\ CandidateFits(p)
      /\ p \in Indexes /\ index \in [Indexes -> SUBSET stored]
  BY DocsFacts
<1>3. UNCHANGED <<mode, Running>> /\ \A i : Index(i)' = Index(i)
  BY <1>1 DEF mode, Running, Index
<1>4. /\ Idle \in Jobs /\ job'[p] = Idle /\ Idle.step = "idle"
      /\ \A q \in Processes : q # p => job'[q] = job[q]
      /\ job' \in [Processes -> Jobs]
  BY <1>1, <1>2, IdleJob
<1>5. mode = "memory" => /\ \A q \in Processes \ {p} : job[q].step = "idle"
                         /\ Index(Home) = p /\ blobs = {}
  <2>1. \A q \in Processes : job[q].step # "idle" => q \in Running
    BY DEF DocsInv, SweepFits
  <2>2. mode = "memory" => p = Home /\ Index(Home) = Home /\ Running = {Home}
    BY <1>1 DEF Running, Index
  <2> QED BY <1>2, <2>1, <2>2 DEF StoreFits
<1>6. /\ index' \in [Indexes -> SUBSET stored']
      /\ \A i \in Indexes : index'[i] \subseteq index[i]
      /\ \A i \in Indexes : i # p => index'[i] = index[i]
  BY <1>1, <1>2
<1>7. mode \in {"memory", "db", "object"} /\ \A q \in Processes : q \in Indexes
  BY <1>2, SettingFacts DEF Indexes
<1>8. mode = "memory" => Held' = {} /\ Proved' = {}
  <2>1. ASSUME mode = "memory", NEW x PROVE x \notin Held'
    <3>1. \A i \in Indexes : index'[i] = {}
      BY <1>1, <1>2, <1>5, <1>6, <2>1 DEF StoreFits
    <3> QED BY <1>1, <1>5, <1>6, <2>1, <3>1, HeldNext
  <2> QED BY <1>1, <2>1 DEF Proved
<1>9. mode # "memory" => Held' = Held /\ Proved' = Proved
  <2>1. ASSUME mode # "memory", NEW x PROVE x \in Held' <=> x \in Held
    <3>1. CASE mode = "db"
      BY <1>1, <1>2, <1>6, <3>1, HeldIn, HeldNext
    <3>2. CASE mode = "object"
      <4>1. index[p] \subseteq blobs
        BY <1>2, <3>2 DEF StoreFits, NothingReadsEmpty
      <4> QED BY <1>1, <1>2, <1>6, <4>1, HeldIn, HeldNext
    <3> QED BY <1>7, <2>1, <3>1, <3>2
  <2> QED BY <1>1, <2>1 DEF Proved
<1>10. AbstractStep
  BY <1>3, <1>8, <1>9 DEF AbstractStep, Abstract!evars, Abstract!Next, Abstract!Lose
<1>11. SweepFits(p)' /\ CandidateFits(p)'
  <2>1. 0 + 0 + Len(<<>>) <= 0
    OBVIOUS
  <2>2. /\ job'[p].step = "idle" /\ job'[p] \in Jobs
        /\ job'[p].deleted + job'[p].blocked + Len(job'[p].items) <= job'[p].plan + 0
    BY <1>4, <2>1, IdleJob
  <2> QED BY <2>2 DEF SweepFits, CandidateFits
<1>12. \A q \in Processes \ {p} : SweepFits(q)' /\ CandidateFits(q)'
  <2>1. CASE mode = "memory"
    <3>1. ASSUME NEW q \in Processes \ {p} PROVE SweepFits(q)' /\ CandidateFits(q)'
      <4>1. job'[q] = job[q] /\ job[q].step = "idle" /\ SweepFits(q)
        BY <1>4, <1>5, <2>1, DocsFacts
      <4> QED BY <4>1 DEF SweepFits, CandidateFits
    <3> QED BY <3>1
  <2>2. CASE mode # "memory"
    <3>1. /\ UNCHANGED setting /\ sweeps' \in Nat /\ sweeps <= sweeps' /\ stored \subseteq stored'
          /\ Held \cup Proved \subseteq Held' \cup Proved'
          /\ \A i \in Indexes : index'[i] \cap stored \subseteq index[i]
          /\ \A q \in Processes \ {p} : job'[q] = job[q]
          /\ \A q \in Processes \ {p} : mode = "object" => index'[q] = index[q]
      BY <1>1, <1>2, <1>4, <1>6, <1>7, <1>9, <2>2
    <3>2. \A k, s : Rows(k, s)' = Rows(k, s)
      BY <1>1, <2>2 DEF Rows
    <3> QED BY <3>1, <3>2, OthersFit
  <2> QED BY <2>1, <2>2
<1>13. WorldOK'
  BY <1>1, <1>2, FaultsFit DEF WorldOK
<1>14. LogFits' /\ SweepAddsUp'
  BY <1>1, <1>2 DEF LogFits, SweepAddsUp
<1>15. SweepsApart'
  BY <1>1, <1>2, <1>4 DEF SweepsApart
<1>16. ErasedIsGone'
  <2>1. ASSUME mode # "memory", NEW row \in log, row.kind = "ATTACHMENT_ERASED"
        PROVE  \/ row.att \notin Held'
               \/ row.att \in undeleted'
               \/ \E q \in Processes : job'[q].step = "delete" /\ Head(job'[q].items) = row.att
    <3>1. CASE row.att \notin Held \/ row.att \in undeleted
      BY <1>1, <1>9, <2>1, <3>1
    <3>2. CASE \E q \in Processes : job[q].step = "delete" /\ Head(job[q].items) = row.att
      <4>1. PICK q \in Processes : job[q].step = "delete" /\ Head(job[q].items) = row.att
        BY <3>2
      <4>2. CASE q = p
        BY <1>1, <4>1, <4>2
      <4>3. CASE q # p
        BY <1>4, <4>1, <4>3
      <4> QED BY <4>2, <4>3
    <3> QED BY <1>2, <2>1, <3>1, <3>2 DEF ErasedIsGone
  <2> QED BY <1>1, <2>1 DEF ErasedIsGone
<1>17. StoreFits'
  <2>1. stored' \subseteq Attachments /\ blobs' \subseteq stored'
    BY <1>1, <1>2 DEF StoreFits
  <2>2. \A i, k \in Indexes : i # k => index'[i] \cap index'[k] = {}
    BY <1>2, <1>6 DEF StoreFits
  <2>3. mode # "object" => blobs' = {} /\ \A i \in Indexes : i # Index(Home) => index'[i] = {}
    BY <1>1, <1>2, <1>6 DEF StoreFits
  <2>4. ASSUME mode = "object"
        PROVE  /\ \A q \in Processes : index'[q] \subseteq blobs'
               /\ blobs' \ UNION {index'[q] : q \in Processes} \subseteq stranded'
    <3>1. /\ \A q \in Processes : index[q] \subseteq blobs
          /\ blobs \ UNION {index[q] : q \in Processes} \subseteq stranded
      BY <1>2, <2>4 DEF StoreFits, NothingReadsEmpty, StrandedIsKnown
    <3>2. \A q \in Processes : q # p => index'[q] = index[q]
      BY <1>6, <1>7
    <3>3. index'[p] \subseteq index[p] /\ stranded' = stranded \cup index[p]
      BY <1>1, <1>2, <1>6, <2>4
    <3> QED BY <1>1, <3>1, <3>2, <3>3
  <2> QED BY <1>3, <1>6, <2>1, <2>2, <2>3, <2>4 DEF StoreFits, NothingReadsEmpty, StrandedIsKnown
<1> QED BY <1>4, <1>10, <1>11, <1>12, <1>13, <1>14, <1>15, <1>16, <1>17 DEF DocsInv

-----------------------------------------------------------------------------
(* The invariant of the bytes and the log, and the refinement's step.      *)

(* At the start nothing is stored and nobody sweeps. *)
LEMMA DocsInit == Init => DocsInv /\ Abstract!Init
<1> SUFFICES ASSUME Init PROVE DocsInv /\ Abstract!Init
  OBVIOUS
<1>1. /\ setting \in Settings /\ clock = 0 /\ faults = 0 /\ stored = {} /\ blobs = {} /\ log = {}
      /\ index = [i \in Indexes |-> {}] /\ stranded = {} /\ undeleted = {}
      /\ job = [p \in Processes |-> Idle] /\ sweeps = 0 /\ results = {}
  BY DEF Init, Indexes
<1>2. setting.faults \in Nat
  BY <1>1, DocumentsAssumption DEF DocumentsAssumption
<1>3. WorldOK
  BY <1>1, <1>2 DEF WorldOK
<1>4. job \in [Processes -> Jobs] /\ \A p \in Processes : job[p].step = "idle"
  BY <1>1, IdleJob
<1>5. \A p \in Processes : SweepFits(p) /\ CandidateFits(p)
  <2>1. 0 + 0 + Len(<<>>) <= 0 + 0
    OBVIOUS
  <2>2. ASSUME NEW p \in Processes
        PROVE  /\ job[p] \in Jobs /\ job[p].step = "idle"
               /\ job[p].deleted + job[p].blocked + Len(job[p].items) <= job[p].plan + 0
    BY <1>1, <2>1, IdleJob
  <2> QED BY <2>2 DEF SweepFits, CandidateFits
<1>6. StoreFits
  <2>1. index \in [Indexes -> SUBSET stored] /\ \A i \in Indexes : index[i] = {}
    BY <1>1
  <2>2. \A p \in Processes : index[p] \subseteq blobs
    BY <2>1 DEF Indexes
  <2>3. NothingReadsEmpty /\ StrandedIsKnown
    BY <1>1, <2>2 DEF NothingReadsEmpty, StrandedIsKnown
  <2> QED BY <1>1, <2>1, <2>3 DEF StoreFits
<1>7. Held = {} /\ Proved = {}
  BY <1>1, HeldIn DEF Proved
<1>8. LogFits /\ SweepsApart /\ ErasedIsGone /\ SweepAddsUp
  BY <1>1, <1>4 DEF LogFits, SweepsApart, ErasedIsGone, SweepAddsUp
<1> QED BY <1>3, <1>4, <1>5, <1>6, <1>7, <1>8 DEF DocsInv, Abstract!Init

(* Steps that only read the store, or have nothing to do with it. *)
LEMMA OtherStepsStay ==
  ASSUME DocsInv, UNCHANGED <<setting, docs, sweep>>, NoFault
  PROVE  DocsInv' /\ AbstractStep
<1>1. faults' \in 0 .. setting.faults
  BY FaultsFit DEF DocsInv
<1> QED BY <1>1, DocsStay

(* Every step keeps the invariant and is one that module Erasure allows. *)
LEMMA DocsNext == ASSUME DocsInv, [Next]_vars PROVE DocsInv' /\ AbstractStep
<1>1. CASE UNCHANGED vars
  <2>1. UNCHANGED <<setting, docs, sweep>> /\ NoFault
    BY <1>1 DEF vars, NoFault
  <2> QED BY <2>1, OtherStepsStay
<1>2. CASE Tick \/ Upgrade
  BY <1>2, OtherStepsStay DEF Tick, Upgrade
<1>3. ASSUME NEW p \in Processes, Sweep(p) \/ Restart(p)
      PROVE  DocsInv' /\ AbstractStep
  BY <1>3, StartKeeps, ReadKeeps, ProveKeeps, DeleteKeeps, AttributeKeeps, EndKeeps, RestartKeeps
     DEF Sweep
<1>4. ASSUME NEW p \in Processes, Rotate(p) \/ Retire(p)
      PROVE  DocsInv' /\ AbstractStep
  BY <1>4, OtherStepsStay DEF Rotate, Retire
<1>5. ASSUME NEW p \in Processes, NEW a \in setting.docs,
             \/ StoreAttachment(p, a) \/ Mint(p, a)
             \/ ExtractFields(p, a) \/ ExtractAnchors(p, a)
      PROVE  DocsInv' /\ AbstractStep
  <2>1. CASE StoreAttachment(p, a)
    BY <2>1, StoreKeeps
  <2>2. CASE Mint(p, a) \/ ExtractFields(p, a) \/ ExtractAnchors(p, a)
    BY <2>2, OtherStepsStay DEF Mint, ExtractFields, ExtractAnchors
  <2> QED BY <1>5, <2>1, <2>2
<1> QED BY <1>1, <1>2, <1>3, <1>4, <1>5 DEF Next

(* The store, the log and the sweeper implement the abstract erasure: no   *)
(* byte goes before its proof, whatever sweeps overlap and whatever fails  *)
(* (attachment_store.py erase_attachment, retention_sweeper.py             *)
(* commit_with_residency_check).                                           *)
THEOREM StoreImplementsErasure == Spec => ImplementsErasure
<1>1. Init => DocsInv /\ Abstract!Init
  BY DocsInit
<1>2. DocsInv /\ [Next]_vars => DocsInv' /\ [Abstract!Next]_(Abstract!evars)
  BY DocsNext DEF AbstractStep
<1> QED BY <1>1, <1>2, PTL DEF Spec, ImplementsErasure, Abstract!Spec

-----------------------------------------------------------------------------
(* The links and the signing keys.                                         *)

(* A process that is a key behind the others dropped its older keys, and   *)
(* they keep the one it signs with; a link whose key a process has dropped *)
(* has expired, and will have wherever every process has a later key and   *)
(* the time to live has passed since.                                      *)
KeysInv ==
  /\ clock \in Nat /\ changed \in Nat /\ changed <= clock
  /\ env \in [Processes -> [primary : 1 .. MaxKeys, secondaries : SUBSET (1 .. MaxKeys)]]
  /\ links \subseteq [att : stored, exp : Nat, key : 1 .. MaxKeys]
  /\ \A l \in links : l.exp <= clock + Ttl
  /\ \A p, q \in Running : env[q].primary < env[p].primary =>
       /\ env[p].primary = env[q].primary + 1
       /\ env[q].secondaries = {} /\ env[p].secondaries = {env[q].primary}
  /\ \A l \in links, p \in Running :
       l.key < env[p].primary /\ l.key \notin env[p].secondaries => l.exp < clock
  /\ \A l \in links : (\A p \in Running : l.key < env[p].primary) => l.exp <= changed + Ttl

(* At the start every process has the first key alone. *)
LEMMA KeysInit == Init => KeysInv
<1> SUFFICES ASSUME Init PROVE KeysInv
  OBVIOUS
<1>1. MaxKeys \in Nat /\ MaxKeys >= 1 /\ Ttl \in Nat
  BY DocumentsAssumption DEF DocumentsAssumption
<1>2. /\ clock = 0 /\ changed = 0 /\ links = {} /\ WorldOK
      /\ env = [p \in Processes |-> [primary |-> 1, secondaries |-> {}]]
  BY DocsInit DEF Init, DocsInv
<1>3. Running \subseteq Processes
  BY <1>2, SettingFacts
<1>4. \A p \in Running : env[p].primary = 1
  BY <1>2, <1>3
<1>5. env \in [Processes -> [primary : 1 .. MaxKeys, secondaries : SUBSET (1 .. MaxKeys)]]
  <2>1. [primary |-> 1, secondaries |-> {}] \in [primary : 1 .. MaxKeys, secondaries : SUBSET (1 .. MaxKeys)]
    BY <1>1
  <2> QED BY <1>2, <2>1
<1>6. \A p, q \in Running : ~(env[q].primary < env[p].primary)
  BY <1>4
<1>7. 0 \in Nat /\ 0 <= 0
  OBVIOUS
<1> QED BY <1>2, <1>5, <1>6, <1>7 DEF KeysInv

(* The types of keys and links, one by one. *)
LEMMA KeysFacts ==
  ASSUME KeysInv
  PROVE  /\ clock \in Nat /\ changed \in Nat /\ Ttl \in Nat /\ MaxKeys \in Nat
         /\ \A p \in Processes : env[p].primary \in Nat /\ env[p].primary \in 1 .. MaxKeys
         /\ \A l \in links : l.exp \in Nat /\ l.key \in Nat /\ l.key \in 1 .. MaxKeys /\ l.att \in stored
<1>1. Ttl \in Nat /\ MaxKeys \in Nat
  BY DocumentsAssumption DEF DocumentsAssumption
<1>2. \A p \in Processes : env[p].primary \in 1 .. MaxKeys
  BY DEF KeysInv
<1>3. \A l \in links : l.exp \in Nat /\ l.key \in 1 .. MaxKeys /\ l.att \in stored
  BY DEF KeysInv
<1> QED BY <1>1, <1>2, <1>3 DEF KeysInv

(* A link is signed with the primary key of the process that makes it. *)
LEMMA MintKeeps ==
  ASSUME DocsInv, KeysInv, NEW p \in Processes, NEW a \in setting.docs, Mint(p, a)
  PROVE  KeysInv'
<1> DEFINE token == Token(p, a)
<1>1. /\ p \in Running /\ a \in index[Index(p)] /\ links' = links \cup {token}
      /\ UNCHANGED <<setting, clock, stored, env, changed>>
  BY AnswersIdle DEF Mint, docs, Readable
<1>2. token.att = a /\ token.exp = clock + Ttl /\ token.key = env[p].primary
      /\ token = [att |-> a, exp |-> clock + Ttl, key |-> env[p].primary]
  BY DEF Token
<1> HIDE DEF token
<1>3. UNCHANGED Running /\ Running \subseteq Processes
  BY <1>1, SettingFacts DEF Running, mode, DocsInv
<1>4. a \in stored
  BY <1>1, DocsFacts
<1>5. token \in [att : stored, exp : Nat, key : 1 .. MaxKeys]
  BY <1>2, <1>4, KeysFacts
<1>6. ASSUME NEW q \in Running, token.key < env[q].primary, token.key \notin env[q].secondaries
      PROVE  FALSE
  BY <1>1, <1>2, <1>6 DEF KeysInv
<1>7. ~\A q \in Running : token.key < env[q].primary
  BY <1>1, <1>2, KeysFacts
<1>8. token.exp <= clock + Ttl
  BY <1>2, KeysFacts
<1> QED BY <1>1, <1>3, <1>5, <1>6, <1>7, <1>8 DEF KeysInv

(* A process gets the next key: the first to, when all have dropped the    *)
(* older ones, or a later one, which is a key behind.                      *)
LEMMA RotateKeeps ==
  ASSUME DocsInv, KeysInv, NEW p \in Processes, Rotate(p)
  PROVE  KeysInv'
<1> DEFINE k == env[p].primary
<1>1. /\ p \in Running /\ k < MaxKeys
      /\ \A q \in Running : env[q].primary >= k
      /\ (\A q \in Running : env[q].primary = k) => \A q \in Running : env[q].secondaries = {}
      /\ env' = [env EXCEPT ![p] = [primary |-> k + 1, secondaries |-> {k}]]
      /\ changed' = clock /\ UNCHANGED <<setting, clock, stored, links>>
  BY AnswersIdle DEF Rotate, docs
<1>2. UNCHANGED Running /\ Running \subseteq Processes
  BY <1>1, SettingFacts DEF Running, mode, DocsInv
<1>3. k \in 1 .. MaxKeys /\ k + 1 \in 1 .. MaxKeys /\ k \in Nat
  BY <1>1, KeysFacts
<1>4. /\ env'[p].primary = k + 1 /\ env'[p].secondaries = {k}
      /\ \A q \in Processes : q # p => env'[q] = env[q]
  BY <1>1 DEF KeysInv
<1>5. env' \in [Processes -> [primary : 1 .. MaxKeys, secondaries : SUBSET (1 .. MaxKeys)]]
  BY <1>1, <1>3 DEF KeysInv
<1>6. /\ env[p].secondaries = {}
      /\ \A q \in Running : \/ env[q].primary = k /\ env[q].secondaries = {}
                            \/ env[q].primary = k + 1 /\ env[q].secondaries = {k}
  <2>1. CASE \A q \in Running : env[q].primary = k
    BY <1>1, <2>1
  <2>2. CASE \E r \in Running : env[r].primary # k
    <3>1. PICK r \in Running : env[r].primary > k
      BY <1>1, <1>2, <1>3, <2>2, KeysFacts
    <3>2. env[r].primary = k + 1 /\ env[p].secondaries = {}
      BY <1>1, <3>1 DEF KeysInv
    <3>3. ASSUME NEW q \in Running
          PROVE  \/ env[q].primary = k /\ env[q].secondaries = {}
                 \/ env[q].primary = k + 1 /\ env[q].secondaries = {k}
      <4>1. env[q].primary \in Nat /\ env[q].primary >= k
        BY <1>1, <1>2, KeysFacts
      <4>2. CASE env[q].primary = k
        BY <1>3, <3>1, <3>2, <4>2 DEF KeysInv
      <4>3. CASE env[q].primary > k
        BY <1>1, <4>3 DEF KeysInv
      <4> QED BY <1>3, <4>1, <4>2, <4>3
    <3> QED BY <3>2, <3>3
  <2> QED BY <2>1, <2>2
<1>7. ASSUME NEW r \in Running, NEW q \in Running, env'[q].primary < env'[r].primary
      PROVE  /\ env'[r].primary = env'[q].primary + 1
             /\ env'[q].secondaries = {} /\ env'[r].secondaries = {env'[q].primary}
  <2>1. env'[r].primary = k \/ env'[r].primary = k + 1
    BY <1>2, <1>4, <1>6
  <2>2. env'[q].primary = k \/ env'[q].primary = k + 1
    BY <1>2, <1>4, <1>6
  <2>3. env'[q].primary = k /\ env'[r].primary = k + 1
    BY <1>3, <1>7, <2>1, <2>2
  <2>4. q # p /\ env'[q].secondaries = {}
    BY <1>2, <1>3, <1>4, <1>6, <2>3
  <2>5. env'[r].secondaries = {k}
    BY <1>2, <1>3, <1>4, <1>6, <2>3
  <2> QED BY <2>3, <2>4, <2>5
<1>8. ASSUME NEW l \in links, NEW q \in Running,
             l.key < env'[q].primary, l.key \notin env'[q].secondaries
      PROVE  l.exp < clock
  <2>1. CASE q = p
    <3>1. l.key < k /\ l.key \notin env[p].secondaries
      BY <1>3, <1>4, <1>6, <1>8, <2>1, KeysFacts
    <3> QED BY <1>1, <3>1 DEF KeysInv
  <2>2. CASE q # p
    BY <1>2, <1>4, <1>8, <2>2 DEF KeysInv
  <2> QED BY <2>1, <2>2
<1>9. \A l \in links : l.exp <= changed' + Ttl
  BY <1>1 DEF KeysInv
<1>10. clock \in Nat /\ clock <= clock
  BY KeysFacts
<1> QED BY <1>1, <1>2, <1>5, <1>7, <1>8, <1>9, <1>10 DEF KeysInv

(* A process drops the older keys when the links they signed have expired. *)
LEMMA RetireKeeps ==
  ASSUME DocsInv, KeysInv, NEW p \in Processes, Retire(p)
  PROVE  KeysInv'
<1>1. /\ p \in Running /\ clock > changed + Ttl
      /\ \A q \in Running : env[q].primary = env[p].primary
      /\ env' = [env EXCEPT ![p].secondaries = {}]
      /\ UNCHANGED <<setting, clock, stored, links, changed>>
  BY AnswersIdle DEF Retire, docs
<1>2. UNCHANGED Running /\ Running \subseteq Processes
  BY <1>1, SettingFacts DEF Running, mode, DocsInv
<1>3. /\ env' \in [Processes -> [primary : 1 .. MaxKeys, secondaries : SUBSET (1 .. MaxKeys)]]
      /\ \A q \in Processes : env'[q].primary = env[q].primary
      /\ \A q \in Processes : q # p => env'[q] = env[q]
  BY <1>1 DEF KeysInv
<1>4. \A r, q \in Running : ~(env'[q].primary < env'[r].primary)
  BY <1>1, <1>2, <1>3, KeysFacts
<1>5. ASSUME NEW l \in links, NEW q \in Running,
             l.key < env'[q].primary, l.key \notin env'[q].secondaries
      PROVE  l.exp < clock
  <2>1. \A r \in Running : l.key < env[r].primary
    BY <1>1, <1>2, <1>3, <1>5
  <2>2. l.exp <= changed + Ttl
    BY <2>1 DEF KeysInv
  <2> QED BY <1>1, <2>2, KeysFacts
<1>6. ASSUME NEW l \in links, \A q \in Running : l.key < env'[q].primary
      PROVE  l.exp <= changed + Ttl
  BY <1>2, <1>3, <1>6 DEF KeysInv
<1> QED BY <1>1, <1>2, <1>3, <1>4, <1>5, <1>6 DEF KeysInv

(* The rest leaves keys and links alone, while time passes and documents   *)
(* arrive.                                                                 *)
LEMMA KeysStay ==
  ASSUME DocsInv, KeysInv, UNCHANGED <<setting, reading>>, stored \subseteq stored',
         clock' = clock \/ clock' = clock + 1
  PROVE  KeysInv'
<1>1. UNCHANGED <<env, changed, links, Running>>
  BY DEF reading, Running, mode
<1>2. clock \in Nat /\ clock' \in Nat /\ clock <= clock'
  BY KeysFacts
<1>3. changed \in Nat /\ changed <= clock'
  BY <1>2 DEF KeysInv
<1>4. links \subseteq [att : stored', exp : Nat, key : 1 .. MaxKeys]
  BY DEF KeysInv
<1>5. \A l \in links : l.exp <= clock' + Ttl
  BY <1>2, KeysFacts DEF KeysInv
<1>6. \A l \in links, p \in Running :
        l.key < env[p].primary /\ l.key \notin env[p].secondaries => l.exp < clock'
  BY <1>2, KeysFacts DEF KeysInv
<1> QED BY <1>1, <1>2, <1>3, <1>4, <1>5, <1>6 DEF KeysInv

(* Every step keeps the links and the keys as they should be. *)
LEMMA KeysNext == ASSUME DocsInv, KeysInv, [Next]_vars PROVE KeysInv'
<1>1. CASE UNCHANGED vars
  BY <1>1, KeysStay DEF vars, docs
<1>2. CASE Tick \/ Upgrade
  BY <1>2, KeysStay DEF Tick, Upgrade, docs
<1>3. ASSUME NEW p \in Processes, Sweep(p) \/ Restart(p)
      PROVE  KeysInv'
  <2>1. UNCHANGED <<setting, reading, stored, clock>>
    BY <1>3 DEF Sweep, SweepStarts, SweepReads, SweepProves, SweepDeletes, SweepAttributes,
                SweepEnds, Restart, docs
  <2> QED BY <2>1, KeysStay
<1>4. ASSUME NEW p \in Processes, NEW a \in setting.docs,
             StoreAttachment(p, a) \/ ExtractFields(p, a) \/ ExtractAnchors(p, a)
      PROVE  KeysInv'
  <2>1. UNCHANGED <<setting, reading, clock>> /\ stored \subseteq stored'
    BY <1>4 DEF StoreAttachment, ExtractFields, ExtractAnchors, docs
  <2> QED BY <2>1, KeysStay
<1> QED BY <1>1, <1>2, <1>3, <1>4, MintKeeps, RotateKeeps, RetireKeeps DEF Next

(* Both invariants hold in every reachable state. *)
LEMMA DocsInvariance == Spec => [](DocsInv /\ KeysInv)
<1>1. Init => DocsInv /\ KeysInv
  BY DocsInit, KeysInit
<1>2. DocsInv /\ KeysInv /\ [Next]_vars => (DocsInv /\ KeysInv)'
  BY DocsNext, KeysNext
<1> QED BY <1>1, <1>2, PTL DEF Spec

(* The stored bytes and the rows about them agree, through overlapping     *)
(* sweeps, failed deletions and restarts (attachment_store.py              *)
(* erase_attachment, retention_sweeper.py commit_with_residency_check).    *)
THEOREM BytesAreAlwaysAccounted == Spec => []BytesAreAccounted
<1>1. DocsInv /\ KeysInv => BytesAreAccounted
  <2> SUFFICES ASSUME DocsInv, KeysInv PROVE BytesAreAccounted
    OBVIOUS
  <2>1. /\ stored \subseteq Attachments /\ blobs \subseteq stored /\ faults \in 0 .. setting.faults
        /\ NothingReadsEmpty /\ StrandedIsKnown /\ ErasedIsGone /\ SweepAddsUp
        /\ \A i \in DOMAIN index : index[i] \subseteq stored
    BY DEF DocsInv, StoreFits, WorldOK
  <2>2. log \subseteq [kind : {"ATTACHMENT_ERASED", "SCHEDULED_RETENTION_DELETE"},
                       att : stored, sweep : 1 .. sweeps]
    BY DEF DocsInv, LogFits, Kinds
  <2>3. \A p \in Processes :
          /\ job[p].step \in {"idle", "read", "prove", "delete", "swept"}
          /\ job[p].deleted + job[p].blocked + Len(job[p].items)
               <= job[p].plan + (IF job[p].step = "swept" THEN 1 ELSE 0)
    BY DEF DocsInv, SweepFits, Jobs
  <2>4. \A l \in links : l.att \in stored /\ l.exp <= clock + Ttl /\ l.key \in 1 .. MaxKeys
    BY KeysFacts DEF KeysInv
  <2> QED BY <2>1, <2>2, <2>3, <2>4 DEF BytesAreAccounted, TypeOK
<1> QED BY <1>1, DocsInvariance, PTL

(* A link serves until it expires on every process that has its key or a   *)
(* later one, through a rotation of the signing keys                       *)
(* (attachment_read_token.py verify_read_token).                           *)
THEOREM LinksAlwaysLast == Spec => []LinksLast
<1>1. DocsInv /\ KeysInv => LinksLast
  <2> SUFFICES ASSUME DocsInv, KeysInv, NEW l \in links, NEW p \in Running,
                      l.exp >= clock, l.key <= env[p].primary, Readable(p, l.att)
               PROVE  Serves(p, l)
    BY DEF LinksLast
  <2>1. p \in Processes
    BY SettingFacts DEF DocsInv
  <2>2. l.key = env[p].primary \/ l.key \in env[p].secondaries
    BY <2>1, KeysFacts DEF KeysInv
  <2> QED BY <2>2 DEF Serves, Verified, Verifying
<1> QED BY <1>1, DocsInvariance, PTL

-----------------------------------------------------------------------------
(* The extraction caches.                                                  *)

(* An entry is under the key of the document it was made from. *)
CachesInv ==
  /\ DOMAIN fields = Processes /\ DOMAIN anchors = Processes
  /\ \A p \in Processes : \A e \in fields[p] : e.key = FieldsKey(e.origin)
  /\ \A p \in Processes : \A e \in anchors[p] : e.key = AnchorsKey(e.origin, e.model)
  /\ CachesFit

(* What is answered comes from a document of the same key, and is kept     *)
(* under it.                                                               *)
LEMMA CachesNext == ASSUME CachesInv, [Next]_vars PROVE CachesInv'
<1>1. CASE UNCHANGED <<fields, anchors, answered>>
  BY <1>1 DEF CachesInv, CachesFit, FieldsStayInTenant, AnchorsFitBytes
<1>2. ASSUME NEW p \in Processes, NEW a \in setting.docs, ExtractFields(p, a)
      PROVE  CachesInv'
  <2>1. PICK e \in Entry(fields[p], FieldsKey(a), a) :
          /\ fields' = [fields EXCEPT ![p] = @ \cup {e}]
          /\ Answer("fields", a, e) /\ UNCHANGED anchors
    BY <1>2 DEF ExtractFields
  <2>2. e.key = FieldsKey(a) /\ e.key = FieldsKey(e.origin)
    <3>1. CASE e \in fields[p] /\ e.key = FieldsKey(a)
      BY <3>1 DEF CachesInv
    <3>2. CASE e = [key |-> FieldsKey(a), origin |-> a, model |-> model]
      BY <3>2
    <3> QED BY <3>1, <3>2, <2>1 DEF Entry
  <2>3. Tenant[e.origin] = Tenant[a] /\ Template[e.origin] = Template[a]
    BY <2>2 DEF FieldsKey
  <2>4. \A x \in answered' : x.kind = "fields" /\ x.att = a /\ x.origin = e.origin
    BY <2>1 DEF Answer
  <2>5. CachesFit'
    BY <2>3, <2>4 DEF CachesFit, FieldsStayInTenant, AnchorsFitBytes
  <2>6. /\ DOMAIN fields' = Processes
        /\ \A q \in Processes : fields'[q] \subseteq fields[q] \cup {e}
    BY <2>1 DEF CachesInv
  <2> QED BY <2>1, <2>2, <2>5, <2>6 DEF CachesInv
<1>3. ASSUME NEW p \in Processes, NEW a \in setting.docs, ExtractAnchors(p, a)
      PROVE  CachesInv'
  <2>1. PICK e \in Entry(anchors[p], AnchorsKey(a, model), a) :
          /\ anchors' = [anchors EXCEPT ![p] = @ \cup {e}]
          /\ Answer("anchors", a, e) /\ UNCHANGED fields
    BY <1>3 DEF ExtractAnchors
  <2>2. e.key = AnchorsKey(a, model) /\ e.key = AnchorsKey(e.origin, e.model)
    <3>1. CASE e \in anchors[p] /\ e.key = AnchorsKey(a, model)
      BY <3>1 DEF CachesInv
    <3>2. CASE e = [key |-> AnchorsKey(a, model), origin |-> a, model |-> model]
      BY <3>2
    <3> QED BY <3>1, <3>2, <2>1 DEF Entry
  <2>3. Sha[e.origin] = Sha[a] /\ e.model = model
    BY <2>2 DEF AnchorsKey
  <2>4. \A x \in answered' :
          x.kind = "anchors" /\ x.att = a /\ x.origin = e.origin /\ x.made = e.model /\ x.asked = model
    BY <2>1 DEF Answer
  <2>5. CachesFit'
    BY <2>3, <2>4 DEF CachesFit, FieldsStayInTenant, AnchorsFitBytes
  <2>6. /\ DOMAIN anchors' = Processes
        /\ \A q \in Processes : anchors'[q] \subseteq anchors[q] \cup {e}
    BY <2>1 DEF CachesInv
  <2> QED BY <2>1, <2>2, <2>5, <2>6 DEF CachesInv
<1>4. ASSUME NEW p \in Processes, Restart(p)
      PROVE  CachesInv'
  <2>1. /\ fields' = [fields EXCEPT ![p] = {}] /\ anchors' = [anchors EXCEPT ![p] = {}]
        /\ UNCHANGED answered
    BY <1>4 DEF Restart
  <2>2. /\ DOMAIN fields' = Processes /\ DOMAIN anchors' = Processes
        /\ \A q \in Processes : fields'[q] \subseteq fields[q] /\ anchors'[q] \subseteq anchors[q]
    BY <2>1 DEF CachesInv
  <2> QED BY <2>1, <2>2 DEF CachesInv, CachesFit, FieldsStayInTenant, AnchorsFitBytes
<1>5. CASE UNCHANGED vars
  BY <1>1, <1>5 DEF vars, extraction
<1>6. CASE Tick \/ Upgrade
  BY <1>1, <1>6 DEF Tick, Upgrade, extraction
<1>7. ASSUME NEW p \in Processes, Sweep(p) \/ Rotate(p) \/ Retire(p)
      PROVE  CachesInv'
  BY <1>1, <1>7 DEF Sweep, SweepStarts, SweepReads, SweepProves, SweepDeletes, SweepAttributes,
                    SweepEnds, Rotate, Retire, extraction
<1>8. ASSUME NEW p \in Processes, NEW a \in setting.docs, StoreAttachment(p, a) \/ Mint(p, a)
      PROVE  CachesInv'
  BY <1>1, <1>8 DEF StoreAttachment, Mint, extraction
<1> QED BY <1>2, <1>3, <1>4, <1>5, <1>6, <1>7, <1>8 DEF Next

(* What an extraction cache answers fits the document that was asked       *)
(* about: its tenant and layout, or its bytes and the model in service     *)
(* (extract_attachment.py, document_extraction.py).                        *)
THEOREM CachesAlwaysFit == Spec => []CachesFit
<1>1. Init => CachesInv
  BY DEF Init, CachesInv, CachesFit, FieldsStayInTenant, AnchorsFitBytes
<1>2. CachesInv /\ [Next]_vars => CachesInv'
  BY CachesNext
<1>3. CachesInv => CachesFit
  BY DEF CachesInv
<1> QED BY <1>1, <1>2, <1>3, PTL DEF Spec
=============================================================================
