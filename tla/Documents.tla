----------------------------- MODULE Documents -----------------------------
(***************************************************************************)
(* The documents attached to e-mails: the store of their bytes             *)
(* (attachment_store.py and its three backends), their erasure by the      *)
(* retention sweeper and its rows in the audit log (retention_sweeper.py), *)
(* the links they are read with (attachment_read_token.py) and the values  *)
(* and anchors extracted from them (extract_attachment.py,                 *)
(* document_extraction.py).                                                *)
(*                                                                         *)
(* A sweep stops at every call of the store and the log, because another   *)
(* process may sweep, or store, in between; its own process answers nobody *)
(* meanwhile.  A plan for another region, or with the sweeper switched     *)
(* off, is refused before anything happens and is left out.                *)
(***************************************************************************)
EXTENDS Naturals, SequencesExt

CONSTANTS
  Processes, Home,      \* Home is the one process when nothing is shared
  Attachments,
  Tenant, Sha, Template,\* [Attachments -> ...]: owner, hash of the bytes, layout fingerprint
  Settings,             \* deployments to explore: backend, what is used, documents, plans, bounds
  Ttl, MaxKeys          \* ATTACHMENT_READ_URL_TTL_SECONDS; bound: signing keys

ASSUME DocumentsAssumption ==
  /\ Home \in Processes /\ IsFiniteSet(Processes) /\ IsFiniteSet(Attachments)
  /\ "table" \notin Processes /\ Ttl \in Nat /\ MaxKeys \in Nat \ {0}
  /\ \A s \in Settings :
       /\ s.mode \in {"memory", "db", "object"} /\ s.uses \subseteq {"erase", "links", "extract"}
       /\ s.docs \subseteq Attachments /\ s.plans \subseteq Seq(s.docs)
       /\ {s.sweeps, s.links, s.time, s.faults} \subseteq Nat

VARIABLES
  setting, clock, faults,
  stored,      \* ids given out (uuid4: never twice)
  index,       \* [Processes \cup {"table"} -> rows, or the object store's metadata]
  blobs,       \* bytes in the object store
  log,         \* audit rows: [kind, att, sweep]
  stranded, undeleted,   \* history: bytes out of the index, and deletions that did not happen
  job,         \* [Processes -> the sweep it runs]
  sweeps,      \* sweeps begun
  results,     \* history: CommitResults: [sweep, deleted, blocked, items]
  env, changed,\* signing keys of each process; when the last of them got a new one
  links,       \* read tokens: [att, exp, key]
  fields, anchors,       \* [Processes -> cached extractions]
  model, answered        \* the extraction model in service; history: the latest answer

docs == <<stored, index, blobs, log, stranded, undeleted>>
sweep == <<job, sweeps, results>>
reading == <<env, changed, links>>
extraction == <<fields, anchors, model, answered>>
vars == <<setting, clock, faults, docs, sweep, reading, extraction>>

mode == setting.mode
Uses(u) == u \in setting.uses
Fault == faults < setting.faults /\ faults' = faults + 1
NoFault == UNCHANGED faults

-----------------------------------------------------------------------------
(* Without a database or an object store every process is alone. *)
Running == IF mode = "memory" THEN {Home} ELSE Processes

(* Rows live in the table; the object store's index lives in the process. *)
Index(p) == IF mode = "db" THEN "table" ELSE p

Readable(p, a) == a \in index[Index(p)]
Held == blobs \cup UNION {index[i] : i \in DOMAIN index}

Idle == [step |-> "idle", items |-> <<>>, plan |-> 0, deleted |-> 0, blocked |-> 0, id |-> 0]
Answers(p) == p \in Running /\ job[p].step = "idle"

(* Whether a document enters the index, by whether its bytes were written. *)
Enters(written) == written

StoreAttachment(p, a) ==
  /\ Answers(p) /\ a \notin stored
  /\ stored' = stored \cup {a}
  /\ \/ /\ NoFault /\ UNCHANGED stranded
        /\ index' = [index EXCEPT ![Index(p)] = @ \cup {a}]
        /\ blobs' = IF mode = "object" THEN blobs \cup {a} ELSE blobs
     \/ /\ mode = "object" /\ Fault            \* raised, with or without the bytes written
        /\ index' = IF Enters(FALSE) THEN [index EXCEPT ![p] = @ \cup {a}] ELSE index
        /\ \E written \in SUBSET {a} : blobs' = blobs \cup written /\ stranded' = stranded \cup written
  /\ UNCHANGED <<setting, clock, log, undeleted, sweep, reading, extraction>>

-----------------------------------------------------------------------------
(* commit_with_residency_check, candidate by candidate. *)
SweepStarts(p) ==
  /\ Answers(p) /\ Uses("erase") /\ sweeps < setting.sweeps
  /\ sweeps' = sweeps + 1
  /\ \E plan \in setting.plans :
       job' = [job EXCEPT ![p] = [Idle EXCEPT !.step = "read", !.items = plan,
                                               !.plan = Len(plan), !.id = sweeps + 1]]
  /\ NoFault /\ UNCHANGED <<setting, clock, docs, results, reading, extraction>>

Row(kind, p) == [kind |-> kind, att |-> Head(job[p].items), sweep |-> job[p].id]

(* The sweep goes on to its next candidate; mutant: to the same again. *)
Again(j) == [j EXCEPT !.step = "read"]
NextItem(j) == [j EXCEPT !.step = "read", !.items = Tail(@)]
Blocked(j) == [NextItem(j) EXCEPT !.blocked = @ + 1]

(* A candidate already gone is not counted. *)
Counts(found) == IF found THEN 1 ELSE 0

(* erase_attachment reads the record; without one there is nothing to do. *)
SweepReads(p) ==
  LET j == job[p]
      found == Readable(p, Head(j.items))
  IN  /\ j.step = "read" /\ j.items # <<>>
      /\ \/ /\ job' = [job EXCEPT ![p] =
                IF found THEN [j EXCEPT !.step = "prove"]
                ELSE [NextItem(j) EXCEPT !.deleted = @ + Counts(FALSE)]]
            /\ NoFault
         \/ /\ mode = "db" \/ (mode = "object" /\ found)     \* the read raised
            /\ job' = [job EXCEPT ![p] = Blocked(j)] /\ Fault
      /\ UNCHANGED <<setting, clock, docs, sweeps, results, reading, extraction>>

(* What follows a row the log refused: strict, so it aborts the erasure;   *)
(* mutant: the failure is swallowed and the bytes are deleted.             *)
Swallows(j) == [j EXCEPT !.step = "delete"]
Unproved(j) == Blocked(j)

SweepProves(p) ==
  LET j == job[p]
  IN  /\ j.step = "prove"
      /\ \/ /\ log' = log \cup {Row("ATTACHMENT_ERASED", p)}
            /\ job' = [job EXCEPT ![p].step = "delete"] /\ NoFault
         \/ job' = [job EXCEPT ![p] = Unproved(j)] /\ Fault /\ UNCHANGED log
      /\ UNCHANGED <<setting, clock, stored, index, blobs, stranded, undeleted, sweeps, results,
                     reading, extraction>>

(* The object store after a deletion. *)
WithoutBlob(a) == blobs \ {a}

(* Whether a deletion that failed raises; mutant: it is passed over. *)
PassesOver(j) == [j EXCEPT !.step = "swept", !.deleted = @ + 1]
Undone(j) == Blocked(j)

(* The object store takes the metadata out before it deletes the bytes.    *)
SweepDeletes(p) ==
  LET j == job[p]
      a == Head(j.items)
      without == [index EXCEPT ![Index(p)] = @ \ {a}]
  IN  /\ j.step = "delete"
      /\ \/ /\ index' = without /\ NoFault
            /\ blobs' = WithoutBlob(a)
            /\ job' = [job EXCEPT ![p] = [j EXCEPT !.step = "swept", !.deleted = @ + 1]]
            /\ UNCHANGED <<stranded, undeleted>>
         \/ /\ mode # "memory" /\ Fault
            /\ index' = IF mode = "object" THEN without ELSE index
            /\ stranded' = IF mode = "object" THEN stranded \cup {a} ELSE stranded
            /\ job' = [job EXCEPT ![p] = Undone(j)]
            /\ undeleted' = IF Undone(j).blocked > j.blocked THEN undeleted \cup {a} ELSE undeleted
            /\ UNCHANGED blobs
      /\ UNCHANGED <<setting, clock, stored, log, sweeps, results, reading, extraction>>

(* The sweeper's own row is written outside the try: a failure ends the    *)
(* sweep, whatever candidates are left.                                    *)
SweepAttributes(p) ==
  LET j == job[p]
  IN  /\ j.step = "swept"
      /\ \/ /\ log' = log \cup {Row("SCHEDULED_RETENTION_DELETE", p)}
            /\ job' = [job EXCEPT ![p] = NextItem(j)] /\ NoFault
         \/ job' = [job EXCEPT ![p] = Idle] /\ Fault /\ UNCHANGED log
      /\ UNCHANGED <<setting, clock, stored, index, blobs, stranded, undeleted, sweeps, results,
                     reading, extraction>>

SweepEnds(p) ==
  LET j == job[p]
  IN  /\ j.step = "read" /\ j.items = <<>>
      /\ results' = results \cup
           {[sweep |-> j.id, deleted |-> j.deleted, blocked |-> j.blocked, items |-> j.plan]}
      /\ job' = [job EXCEPT ![p] = Idle]
      /\ NoFault /\ UNCHANGED <<setting, clock, docs, sweeps, reading, extraction>>

(* What was only in the process is gone: records and their log without a   *)
(* database, the index of the object store, the caches.                    *)
Restart(p) ==
  /\ p \in Running /\ Fault
  /\ index' = IF mode = "db" THEN index ELSE [index EXCEPT ![p] = {}]
  /\ stranded' = IF mode = "object" THEN stranded \cup index[p] ELSE stranded
  /\ undeleted' = IF job[p].step = "delete" THEN undeleted \cup {Head(job[p].items)} ELSE undeleted
  /\ log' = IF mode = "memory" THEN {} ELSE log
  /\ results' = IF mode = "memory" THEN {} ELSE results
  /\ job' = [job EXCEPT ![p] = Idle]
  /\ fields' = [fields EXCEPT ![p] = {}] /\ anchors' = [anchors EXCEPT ![p] = {}]
  /\ UNCHANGED <<setting, clock, stored, blobs, sweeps, reading, model, answered>>

-----------------------------------------------------------------------------
(* Links: create_signed_read_url and read_attachment_by_token.             *)
Token(p, a) == [att |-> a, exp |-> clock + Ttl, key |-> env[p].primary]

Mint(p, a) ==
  /\ Answers(p) /\ Uses("links") /\ Readable(p, a) /\ Cardinality(links) < setting.links
  /\ links' = links \cup {Token(p, a)}
  /\ NoFault /\ UNCHANGED <<setting, clock, docs, sweep, env, changed, extraction>>

(* Keys a process verifies with; mutant: the primary alone. *)
PrimaryOnly(e) == {e.primary}
Verifying(e) == {e.primary} \cup e.secondaries

Verified(p, l) == l.key \in Verifying(env[p]) /\ l.exp >= clock
Serves(p, l) == Verified(p, l) /\ Readable(p, l.att)

(* The operator gives the processes the next key one by one, the old one   *)
(* as secondary, and drops it when the links it signed have expired.       *)
Rotate(p) ==
  /\ Uses("links") /\ Answers(p) /\ env[p].primary < MaxKeys
  /\ \A q \in Running : env[q].primary >= env[p].primary
  /\ (\A q \in Running : env[q].primary = env[p].primary) => \A q \in Running : env[q].secondaries = {}
  /\ env' = [env EXCEPT ![p] = [primary |-> @.primary + 1, secondaries |-> {@.primary}]]
  /\ changed' = clock
  /\ NoFault /\ UNCHANGED <<setting, clock, docs, sweep, links, extraction>>

Retire(p) ==
  /\ Answers(p) /\ env[p].secondaries # {} /\ clock > changed + Ttl
  /\ \A q \in Running : env[q].primary = env[p].primary
  /\ env' = [env EXCEPT ![p].secondaries = {}]
  /\ NoFault /\ UNCHANGED <<setting, clock, docs, sweep, changed, links, extraction>>

-----------------------------------------------------------------------------
(* Extraction.  extract_attachment works from the manifest entry: it does  *)
(* not look whether the document is stored.  Mutant: keyed by layout only. *)
LayoutOnly(a) == <<Template[a]>>
FieldsKey(a) == <<Tenant[a], Template[a]>>

(* Anchors are cached by the bytes and the model. *)
AnchorsKey(a, m) == <<Sha[a], m>>

(* What a caller is given: the cached entry, or one made now. *)
Entry(cache, key, a) ==
  IF \E e \in cache : e.key = key THEN {e \in cache : e.key = key}
  ELSE {[key |-> key, origin |-> a, model |-> model]}

Answer(kind, a, e) ==
  answered' =
    {[kind |-> kind, att |-> a, origin |-> e.origin, made |-> e.model, asked |-> model]}

ExtractFields(p, a) ==
  /\ Answers(p) /\ Uses("extract")
  /\ \E e \in Entry(fields[p], FieldsKey(a), a) :
       /\ fields' = [fields EXCEPT ![p] = @ \cup {e}]
       /\ Answer("fields", a, e)
  /\ NoFault /\ UNCHANGED <<setting, clock, docs, sweep, reading, anchors, model>>

(* An open breaker or an outage gives no anchors, and nothing is cached.   *)
ExtractAnchors(p, a) ==
  /\ Answers(p) /\ Uses("extract")
  /\ \E e \in Entry(anchors[p], AnchorsKey(a, model), a) :
       /\ anchors' = [anchors EXCEPT ![p] = @ \cup {e}]
       /\ Answer("anchors", a, e)
  /\ NoFault /\ UNCHANGED <<setting, clock, docs, sweep, reading, fields, model>>

Upgrade ==
  /\ Uses("extract") /\ model = 1 /\ model' = 2
  /\ NoFault /\ UNCHANGED <<setting, clock, docs, sweep, reading, fields, anchors, answered>>

Tick ==
  /\ clock < setting.time /\ clock' = clock + 1
  /\ NoFault /\ UNCHANGED <<setting, docs, sweep, reading, extraction>>

-----------------------------------------------------------------------------
Init ==
  /\ setting \in Settings /\ clock = 0 /\ faults = 0
  /\ stored = {} /\ index = [i \in Processes \cup {"table"} |-> {}] /\ blobs = {} /\ log = {}
  /\ stranded = {} /\ undeleted = {}
  /\ job = [p \in Processes |-> Idle] /\ sweeps = 0 /\ results = {}
  /\ env = [p \in Processes |-> [primary |-> 1, secondaries |-> {}]] /\ changed = 0 /\ links = {}
  /\ fields = [p \in Processes |-> {}] /\ anchors = [p \in Processes |-> {}]
  /\ model = 1 /\ answered = {}

Sweep(p) ==
  \/ SweepStarts(p) \/ SweepReads(p) \/ SweepProves(p) \/ SweepDeletes(p)
  \/ SweepAttributes(p) \/ SweepEnds(p)

Next ==
  \/ Tick \/ Upgrade
  \/ \E p \in Processes :
       \/ Sweep(p) \/ Restart(p) \/ Rotate(p) \/ Retire(p)
       \/ \E a \in setting.docs :
            StoreAttachment(p, a) \/ Mint(p, a) \/ ExtractFields(p, a) \/ ExtractAnchors(p, a)

Spec == Init /\ [][Next]_vars

-----------------------------------------------------------------------------
(* The documents, the sweeps and the links have their types. *)
TypeOK ==
  /\ stored \subseteq Attachments /\ blobs \subseteq stored /\ faults \in 0..setting.faults
  /\ \A i \in DOMAIN index : index[i] \subseteq stored
  /\ log \subseteq [kind : {"ATTACHMENT_ERASED", "SCHEDULED_RETENTION_DELETE"},
                    att : stored, sweep : 1..sweeps]
  /\ \A p \in Processes :
       /\ job[p].step \in {"idle", "read", "prove", "delete", "swept"}
       /\ job[p].deleted + job[p].blocked + Len(job[p].items)
            <= job[p].plan + (IF job[p].step = "swept" THEN 1 ELSE 0)
  /\ \A l \in links : l.att \in stored /\ l.exp <= clock + Ttl /\ l.key \in 1..MaxKeys

(* Whatever a process can list has its bytes: ObjectStoreBackend.get       *)
(* answers an empty document for metadata without a blob.                  *)
NothingReadsEmpty == mode = "object" => \A p \in Processes : index[p] \subseteq blobs

(* Bytes no process can reach are those a restart, a failed write or a     *)
(* failed deletion left: the index of the object store is not durable.     *)
StrandedIsKnown ==
  mode = "object" => blobs \ UNION {index[p] : p \in Processes} \subseteq stranded

(* An ATTACHMENT_ERASED row means the bytes are nowhere, once its sweep is *)
(* past the deletion, unless the deletion failed or its process stopped.   *)
ErasedIsGone ==
  \A row \in log : row.kind = "ATTACHMENT_ERASED" =>
    \/ row.att \notin Held
    \/ row.att \in undeleted
    \/ \E p \in Processes : job[p].step = "delete" /\ Head(job[p].items) = row.att

(* A sweep that returned counted exactly the candidates it left two rows   *)
(* for: its own and the proof of erasure.                                  *)
SweepAddsUp ==
  \A r \in results :
    LET rows(kind) == {row.att : row \in {x \in log : x.sweep = r.sweep /\ x.kind = kind}}
    IN  /\ rows("SCHEDULED_RETENTION_DELETE") \subseteq rows("ATTACHMENT_ERASED")
        /\ Cardinality(rows("SCHEDULED_RETENTION_DELETE")) = r.deleted
        /\ r.deleted + r.blocked <= r.items

(* Stored bytes and the rows about them agree, through overlapping sweeps,  *)
(* failed deletions and restarts (attachment_store.py, retention_sweeper.py). *)
BytesAreAccounted == TypeOK /\ NothingReadsEmpty /\ StrandedIsKnown /\ ErasedIsGone /\ SweepAddsUp

(* A link serves until it expires on every process that has its key or a   *)
(* later one, through a rotation of the signing keys.                      *)
LinksLast ==
  \A l \in links, p \in Running :
    l.exp >= clock /\ l.key <= env[p].primary /\ Readable(p, l.att) => Serves(p, l)

(* Extracted values come from a document of the same tenant and layout:    *)
(* the cache is per tenant even for layouts tenants share.                 *)
FieldsStayInTenant ==
  \A x \in answered : x.kind = "fields" =>
    Tenant[x.origin] = Tenant[x.att] /\ Template[x.origin] = Template[x.att]

(* Anchors were made on the same bytes by the model in service when they   *)
(* were asked for.                                                         *)
AnchorsFitBytes ==
  \A x \in answered : x.kind = "anchors" => Sha[x.origin] = Sha[x.att] /\ x.made = x.asked

(* What an extraction cache answers fits the document that was asked about. *)
CachesFit == FieldsStayInTenant /\ AnchorsFitBytes

(* The store, the log and the sweeper implement the abstract erasure: no   *)
(* byte goes before its proof, whatever the sweeps and the faults.         *)
Proved == {row.att : row \in {x \in log : x.kind = "ATTACHMENT_ERASED"}}
Abstract == INSTANCE Erasure WITH held <- Held, proved <- Proved, durable <- (mode # "memory")
ImplementsErasure == Abstract!Spec
=============================================================================
