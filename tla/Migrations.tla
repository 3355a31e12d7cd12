----------------------------- MODULE Migrations -----------------------------
(***************************************************************************)
(* The schema migrations every process applies when it boots               *)
(* (db/migrations/runner.py).  On SQLite all migrations run at every boot, *)
(* statement by statement: DDL commits by itself unless DML has opened a   *)
(* transaction, and executescript commits first.  On PostgreSQL the        *)
(* recorded versions are skipped and the others run in one transaction,    *)
(* except that the file of V011 contains a COMMIT; replicas boot at once   *)
(* and the first to write makes the others wait.  A boot that fails is     *)
(* rolled back and the process restarts.                                   *)
(*                                                                         *)
(* The schema is the set of objects created: <<table, "-">>, or            *)
(* <<table, column or trigger>>; indexes are left out.  The rows are those *)
(* of an older installation, as far as a migration rewrites them, and the  *)
(* audit events of one tenant appended while processes serve               *)
(* (db/repository.py _insert_audit_event).                                 *)
(***************************************************************************)
EXTENDS Integers, SequencesExt

CONSTANTS
  Replicas,   \* the processes that boot; SQLite is the database of one of them
  Single,     \* that one
  Rows,       \* exceptions of an older installation
  Sparse,     \* those that are terminal DUPLICATE_PO rows without the metadata contract
  LegacyAudit,\* number of audit events of an older installation, not hashed
  MaxAudit,   \* bound: times at which audit events are appended
  MaxFaults   \* bound: crashes

ASSUME MigrationsAssumption ==
  /\ Single \in Replicas /\ Sparse \subseteq Rows
  /\ LegacyAudit \in Nat /\ MaxAudit \in Nat /\ MaxFaults \in Nat

VARIABLES
  backend,    \* "sqlite" or "postgres"
  db,         \* what is committed
  work,       \* [Replicas -> db or NoWork]: the open transaction
  at,         \* [Replicas -> Nat]: position of the version in the order of the backend
  line,       \* next statement of that version (SQLite)
  phase,      \* [Replicas -> Phases]
  trail,      \* the audit events appended by serving processes, in the order of their inserts
  append,     \* [Replicas -> event or NoAppend]: the event a process is appending
  torn,       \* history: a process died between the two statements of V014
  faults

boot == <<backend, db, work, at, line, phase, torn, faults>>
vars == <<boot, trail, append>>

Phases == {"down", "run", "select", "execute", "insert", "seed", "serving"}
NoWork == [open |-> FALSE]
NoAppend == [step |-> "none", at |-> 0, prev |-> 0, beside |-> FALSE]

-----------------------------------------------------------------------------
(* Statements.                                                             *)
Stmt(op, table, names, version) ==
  <<[op |-> op, table |-> table, names |-> names, version |-> version]>>
(* ALTER TABLE ... ADD/DROP COLUMN, each guarded by _sqlite_column_exists. *)
Add(table, columns)  == [i \in DOMAIN columns |-> Stmt("add", table, {columns[i]}, "-")[1]]
Drop(table, columns) == [i \in DOMAIN columns |-> Stmt("drop", table, {columns[i]}, "-")[1]]
(* executescript: commits, then each statement by itself. *)
Script(stmts)        == Stmt("commit", "-", {}, "-") \o stmts
(* CREATE TABLE where there is none. *)
Table(table, columns) == Stmt("table", table, columns, "-")
(* DROP TRIGGER IF EXISTS and CREATE TRIGGER. *)
Trigger(table, name) == Stmt("drop", table, {name}, "-") \o Stmt("add", table, {name}, "-")
(* INSERT OR IGNORE INTO schema_migrations, commit. *)
Recorded(v)          == Stmt("record", "-", {}, v) \o Stmt("commit", "-", {}, "-")
(* INSERT and UPDATE statements, by what they fill. *)
Fill(what, table)    == Stmt(what, table, {}, "-")

V001 == Script(Table("exceptions", {}) \o Table("traces", {}) \o Table("policy_overrides", {})
               \o Table("policy_audit_log", {}) \o Table("checkpoints", {}))
        \o Recorded("V001")
V002 == Add("exceptions", <<"original_event", "reanalysis_history">>) \o Recorded("V002")
V003 == Add("policy_audit_log", <<"prev_hash", "event_hash">>)
        \o Fill("chain", "policy_audit_log")
        \o Script(Trigger("policy_audit_log", "no_update") \o Trigger("policy_audit_log", "no_delete"))
        \o Recorded("V003")
V004 == Add("exceptions", <<"enrichment_context">>) \o Recorded("V004")
V006 == Script(Table("tenant_config", {})) \o Recorded("V006")
V007 == Script(Trigger("exceptions", "contract_insert") \o Trigger("exceptions", "contract_update"))
        \o Recorded("V007")
V008 == Fill("items", "exceptions") \o Recorded("V008")
V009 == Script(Table("order_case", {"source"})) \o Add("exceptions", <<"parent_case_id">>)
        \o Recorded("V009")
V010 == Script(Table("case_correlation_keys", {})) \o Recorded("V010")
V011 == Recorded("V011")
V012 == Script(Table("case_events", {})) \o Recorded("V012")
V013 == Script(Table("case_locks", {})) \o Recorded("V013")
(* The UPDATE runs only where the column has just been added. *)
V014 == Stmt("add_or_skip", "order_case", {"updated_at"}, "-")
        \o Fill("stamp", "order_case") \o Recorded("V014")
V015 == Script(Table("effect_outbox", {})) \o Recorded("V015")
V016 == Script(Table("email_attachment", {})) \o Recorded("V016")
V017 == Script(Table("case_supergroup", {}) \o Table("case_intent", {})
               \o Table("supergroup_intent_allowed", {}) \o Table("intent_label", {}))
        \o Fill("seed", "case_supergroup") \o Stmt("commit", "-", {}, "-") \o Recorded("V017")
V018 == Script(Table("app_config", {})) \o Fill("mode", "app_config")
        \o Add("order_case", <<"origin", "supergroup_code", "predecessor_case_id",
                               "will_miss_rdd", "sla_due_at">>)
        \o Add("exceptions", <<"supergroup_code", "divergence_reason", "intent_code",
                               "sap_block_field", "scope">>)
        \o Script(Trigger("exceptions", "inheritance") \o Trigger("exceptions", "leaf_validity"))
        \o Recorded("V018")
V019 == Drop("order_case", <<"source">>) \o Recorded("V019")
V020 == Script(Table("case_classification_history", {})
               \o Trigger("case_classification_history", "no_update")
               \o Trigger("case_classification_history", "no_delete")
               \o Trigger("case_classification_history", "no_replace"))
        \o Recorded("V020")
V021 == Add("order_case", <<"pending_override">>) \o Recorded("V021")

Statements ==
  [V001 |-> V001, V002 |-> V002, V003 |-> V003, V004 |-> V004, V005 |-> Recorded("V005"),
   V006 |-> V006, V007 |-> V007, V008 |-> V008, V009 |-> V009, V010 |-> V010, V011 |-> V011,
   V012 |-> V012, V013 |-> V013, V014 |-> V014, V015 |-> V015, V016 |-> V016, V017 |-> V017,
   V018 |-> V018, V019 |-> V019, V020 |-> V020, V021 |-> V021, V022 |-> Recorded("V022")]
Versions == DOMAIN Statements

(* The files in the order apply_postgres executes them. *)
PostgresOrder ==
  <<"V001", "V002", "V003", "V004", "V005", "V006", "V007", "V008", "V009", "V010", "V011",
    "V012", "V013", "V014", "V015", "V016", "V017", "V018", "V019", "V020", "V021", "V022">>
(* apply_sqlite does V014 with order_case. *)
SqliteOrder ==
  <<"V001", "V002", "V003", "V004", "V005", "V006", "V007", "V008", "V009", "V010", "V014", "V011",
    "V012", "V013", "V015", "V016", "V017", "V018", "V019", "V020", "V021", "V022">>

(* What a statement makes and drops. *)
Makes(s) ==
  IF s.op = "table" THEN {<<s.table, n>> : n \in s.names \cup {"-"}}
  ELSE IF s.op \in {"add", "add_or_skip"} THEN {<<s.table, n>> : n \in s.names} ELSE {}
Drops(s) == IF s.op = "drop" THEN {<<s.table, n>> : n \in s.names} ELSE {}

(* What the SQL file of a version leaves in the schema. *)
Creates(v) == UNION {Makes(s) : s \in ToSet(Statements[v])}
Removes(v) == (UNION {Drops(s) : s \in ToSet(Statements[v])}) \ Creates(v)

-----------------------------------------------------------------------------
(* audit[i]: the event whose hash the i-th event of the older installation *)
(* carries as prev_hash, 0 for GENESIS, -1 while it has no hash.           *)
Empty == [objects |-> {}, recorded |-> {}, audit |-> <<>>, items |-> Rows, cased |-> FALSE,
          stamped |-> TRUE, seeded |-> FALSE, mode |-> FALSE]

(* An installation at version n of PostgresOrder, with rows in its tables. *)
Installed(n) ==
  LET done == {PostgresOrder[i] : i \in 1..n}
  IN  IF n = 0 THEN Empty
      ELSE [Empty EXCEPT
              !.objects = UNION {Creates(v) : v \in done},
              !.recorded = done,
              !.audit = [i \in 1..LegacyAudit |-> IF n < 3 THEN -1 ELSE i - 1],
              !.items = IF n < 8 THEN {} ELSE Rows \ Sparse,
              !.stamped = n < 9]

Has(d, table, name) == <<table, name>> \in d.objects

(* V003: the unhashed events in order, each on its predecessor; mutant: on *)
(* the hash stored for its predecessor, which is still empty.              *)
ChainedOnStored(audit) == [i \in DOMAIN audit |-> IF audit[i] = -1 THEN 0 ELSE audit[i]]
Chained(audit) ==
  [i \in DOMAIN audit |->
     IF audit[i] # -1 THEN audit[i]
     ELSE Max({0} \cup {j \in 1..i - 1 : audit[j] = -1})]

(* V008: rows without line items; those V007's trigger would reject are    *)
(* left out; mutant: not left out.                                         *)
AllCandidates(d) == Rows \ d.items
Candidates(d)    == Rows \ (d.items \cup Sparse)

(* A statement the database refuses: a table that is not there, or a       *)
(* trigger that raises.                                                    *)
Refused(d, s) ==
  \/ s.table # "-" /\ s.op # "table" /\ ~Has(d, s.table, "-")
  \/ /\ s.op = "chain" /\ \E i \in DOMAIN d.audit : d.audit[i] = -1
     /\ Has(d, "policy_audit_log", "no_update")
  \/ /\ s.op = "items" /\ Candidates(d) \cap Sparse # {}
     /\ Has(d, "exceptions", "contract_update")

Effect(d, s) ==
  CASE s.op \in {"table", "add", "add_or_skip", "drop"} ->
         IF s.op = "table" /\ Has(d, s.table, "-") THEN d
         ELSE [d EXCEPT !.objects = (@ \cup Makes(s)) \ Drops(s)]
    [] s.op = "chain"  -> [d EXCEPT !.audit = Chained(@)]
    [] s.op = "items"  -> [d EXCEPT !.items = @ \cup Candidates(d)]
    [] s.op = "stamp"  -> [d EXCEPT !.stamped = TRUE]
    [] s.op = "seed"   -> [d EXCEPT !.seeded = TRUE]
    [] s.op = "mode"   -> [d EXCEPT !.mode = TRUE]
    [] s.op = "record" -> [d EXCEPT !.recorded = @ \cup {s.version}]

-----------------------------------------------------------------------------
Seen(p) == IF work[p].open THEN work[p].d ELSE db
Opened(d) == [open |-> TRUE, d |-> d]

(* A boot begins. *)
Boot(p) ==
  /\ phase[p] = "down"
  /\ backend = "sqlite" => p = Single
  /\ at' = [at EXCEPT ![p] = 1]
  /\ phase' = [phase EXCEPT ![p] = IF backend = "sqlite" THEN "run" ELSE "select"]
  /\ UNCHANGED <<backend, db, work, line, torn, faults>>

(* The statement or the commit raises: rollback, and the process exits. *)
Fail(p) ==
  /\ work' = [work EXCEPT ![p] = NoWork]
  /\ at' = [at EXCEPT ![p] = 0] /\ line' = 1
  /\ phase' = [phase EXCEPT ![p] = "down"]
  /\ UNCHANGED <<backend, db, torn, faults>>

(* The next statement of apply_sqlite.  DML opens a transaction; DDL joins *)
(* an open one and else commits by itself.  V014's UPDATE runs only after  *)
(* its ALTER has.                                                          *)
Skips(d, s) == s.op = "add_or_skip" /\ Has(d, s.table, "updated_at")
Dml == {"chain", "items", "stamp", "seed", "mode", "record"}
SqliteStep(p) ==
  LET script == Statements[SqliteOrder[at[p]]]
      s == script[line]
      d == IF s.op = "commit" THEN Seen(p) ELSE Effect(Seen(p), s)
      next == line + IF Skips(Seen(p), s) THEN 2 ELSE 1
      ended == next > Len(script)
      moved == /\ line' = IF ended THEN 1 ELSE next
               /\ at' = [at EXCEPT ![p] = IF ended THEN @ + 1 ELSE @]
               /\ phase' = [phase EXCEPT ![p] =
                              IF ended /\ at[p] = Len(SqliteOrder) THEN "serving" ELSE @]
               /\ UNCHANGED <<backend, torn, faults>>
  IN  /\ phase[p] = "run"
      /\ \/ /\ s.op = "commit"
            /\ db' = Seen(p)
            /\ work' = [work EXCEPT ![p] = NoWork]
            /\ moved
         \/ s.op # "commit" /\ Refused(Seen(p), s) /\ Fail(p)
         \/ /\ s.op # "commit" /\ ~Refused(Seen(p), s)
            /\ IF s.op \in Dml \/ work[p].open
               THEN work' = [work EXCEPT ![p] = Opened(d)] /\ UNCHANGED db
               ELSE db' = d /\ UNCHANGED work
            /\ moved

-----------------------------------------------------------------------------
(* PostgreSQL.  The first write of a transaction waits for the other one   *)
(* that has written.                                                       *)
Free(p) == \A q \in Replicas \ {p} : ~work[q].open

(* Files that fail on objects that are there: V001's trigger, the ADD      *)
(* COLUMNs of V014 and V018.                                               *)
Plain == {"V001", "V014", "V018"}
\* ... and the file that commits; mutant: another one does.
CommitsInside == {"V011"}

SelectVersion(p) ==
  LET v == PostgresOrder[at[p]]
      done == v \in Seen(p).recorded
      last == at[p] = Len(PostgresOrder)
  IN  /\ phase[p] = "select"
      /\ at' = [at EXCEPT ![p] = IF done /\ ~last THEN @ + 1 ELSE @]
      /\ phase' = [phase EXCEPT ![p] = IF ~done THEN "execute"
                                       ELSE IF last THEN "serving" ELSE @]
      /\ IF done /\ last
         THEN db' = Seen(p) /\ work' = [work EXCEPT ![p] = NoWork]
         ELSE UNCHANGED <<db, work>>
      /\ UNCHANGED <<backend, line, torn, faults>>

(* V003's UPDATE finds events without a hash, which V001's immutability    *)
(* trigger does not let it change; V008's finds rows V007's trigger does   *)
(* not let it change.                                                      *)
FileRefused(d, v) ==
  \/ v \in Plain /\ Creates(v) \cap d.objects # {}
  \/ v = "V003" /\ \E i \in DOMAIN d.audit : d.audit[i] = -1
  \/ \E s \in ToSet(Statements[v]) : s.op = "items" /\ Refused(d, s)

FileEffect(d, v) ==
  LET made == [d EXCEPT !.objects = (@ \cup Creates(v)) \ Removes(v)]
  IN  CASE v = "V008" -> [made EXCEPT !.items = @ \cup Candidates(d)]
        [] v = "V011" -> [made EXCEPT !.cased = TRUE]
        [] v = "V014" -> [made EXCEPT !.stamped = TRUE]
        [] v = "V018" -> [made EXCEPT !.mode = TRUE]
        [] OTHER -> made

ExecuteFile(p) ==
  LET v == PostgresOrder[at[p]]
      d == Seen(p)
      made == FileEffect(d, v)
  IN  /\ phase[p] = "execute" /\ Free(p)
      /\ \/ FileRefused(d, v) /\ Fail(p)
         \/ /\ ~FileRefused(d, v)
            /\ IF v \in CommitsInside
               THEN db' = made /\ work' = [work EXCEPT ![p] = NoWork]
               ELSE UNCHANGED db /\ work' = [work EXCEPT ![p] = Opened(made)]
            /\ phase' = [phase EXCEPT ![p] = "insert"]
            /\ UNCHANGED <<backend, at, line, torn, faults>>

(* INSERT INTO schema_migrations: a key another boot has committed since   *)
(* the SELECT fails it.                                                    *)
InsertVersion(p) ==
  LET v == PostgresOrder[at[p]]
  IN  /\ phase[p] = "insert" /\ Free(p)
      /\ IF v \in Seen(p).recorded
         THEN Fail(p)
         ELSE /\ work' = [work EXCEPT ![p] =
                            Opened([Seen(p) EXCEPT !.recorded = @ \cup {v}])]
              /\ phase' = [phase EXCEPT ![p] = IF v = "V017" THEN "seed" ELSE "select"]
              /\ UNCHANGED <<backend, db, at, line, torn, faults>>

SeedTaxonomy(p) ==
  /\ phase[p] = "seed"
  /\ work' = [work EXCEPT ![p].d.seeded = TRUE]
  /\ phase' = [phase EXCEPT ![p] = "select"]
  /\ UNCHANGED <<backend, db, at, line, torn, faults>>

-----------------------------------------------------------------------------
(* A serving process appends an audit event: it takes the time, then reads *)
(* the hash of the newest event, then inserts and commits; nothing locks   *)
(* between these.  beside: another process was appending in the meantime.  *)
(* The clocks of the processes agree.  An event is named by its time; 0 is *)
(* the last event of the older installation, GENESIS where there is none.  *)
Appending == {q \in Replicas : append[q].step # "none"}
Times == {trail[i].at : i \in DOMAIN trail} \cup {append[q].at : q \in Appending}

StampEvent(p) ==
  /\ phase[p] = "serving" /\ p \notin Appending
  /\ \E now \in 1..MaxAudit :
       /\ \A t \in Times : t < now
       /\ append' = [q \in Replicas |->
                       IF q = p
                       THEN [step |-> "stamped", at |-> now, prev |-> 0, beside |-> Appending # {}]
                       ELSE IF q \in Appending THEN [append[q] EXCEPT !.beside = TRUE]
                       ELSE append[q]]
  /\ UNCHANGED <<boot, trail>>

(* The newest of the first n events by its time. *)
Newest(n) == Max({0} \cup {trail[i].at : i \in 1..n})

(* _last_event_hash reads the newest there is; mutant: the one inserted    *)
(* last.                                                                   *)
LastInserted  == IF trail = <<>> THEN 0 ELSE trail[Len(trail)].at
LastEventHash == Newest(Len(trail))

ReadNewest(p) ==
  /\ append[p].step = "stamped"
  /\ append' = [append EXCEPT ![p].step = "read", ![p].prev = LastEventHash]
  /\ UNCHANGED <<boot, trail>>

InsertEvent(p) ==
  /\ append[p].step = "read"
  /\ trail' = Append(trail, append[p])
  /\ append' = [append EXCEPT ![p] = NoAppend]
  /\ UNCHANGED boot

AppendEvent(p) == StampEvent(p) \/ ReadNewest(p) \/ InsertEvent(p)

(* The process dies: the open transactions are rolled back. *)
Crash(p) ==
  /\ phase[p] # "down" /\ faults < MaxFaults
  /\ faults' = faults + 1
  /\ torn' = (torn \/ (Has(db, "order_case", "updated_at") /\ ~db.stamped))
  /\ work' = [work EXCEPT ![p] = NoWork]
  /\ at' = [at EXCEPT ![p] = 0] /\ line' = 1
  /\ phase' = [phase EXCEPT ![p] = "down"]
  /\ append' = [append EXCEPT ![p] = NoAppend]
  /\ UNCHANGED <<backend, db, trail>>

Init ==
  /\ backend \in {"sqlite", "postgres"}
  /\ \E n \in {0, 2, 10} : db = Installed(n)
  /\ work = [p \in Replicas |-> NoWork]
  /\ at = [p \in Replicas |-> 0] /\ line = 1
  /\ phase = [p \in Replicas |-> "down"]
  /\ trail = <<>> /\ append = [p \in Replicas |-> NoAppend]
  /\ torn = FALSE /\ faults = 0

Progress(p) ==
  /\ \/ Boot(p) \/ SqliteStep(p) \/ SelectVersion(p) \/ ExecuteFile(p) \/ InsertVersion(p)
     \/ SeedTaxonomy(p)
  /\ UNCHANGED <<trail, append>>

Next == \E p \in Replicas : Progress(p) \/ AppendEvent(p) \/ Crash(p)

Spec == Init /\ [][Next]_vars

(* A process that can take a step of its boot takes it; the platform       *)
(* restarts one that died.                                                 *)
FairSpec == Spec /\ \A p \in Replicas : WF_vars(Progress(p))

-----------------------------------------------------------------------------
(* Databases, transactions and positions are ones the runner can reach. *)
IsDatabase(d) ==
  /\ d.recorded \subseteq Versions /\ d.items \subseteq Rows
  /\ \A i \in DOMAIN d.audit : d.audit[i] \in -1..i - 1
  /\ \A o \in d.objects : o[2] = "-" \/ <<o[1], "-">> \in d.objects
TypeOK ==
  /\ backend \in {"sqlite", "postgres"} /\ torn \in BOOLEAN /\ faults \in 0..MaxFaults
  /\ IsDatabase(db)
  /\ \A p \in Replicas :
       /\ work[p].open => IsDatabase(work[p].d)
       /\ phase[p] \in Phases
       /\ at[p] \in 0..Len(SqliteOrder) + 1

(* A process serves only on the whole schema and the filled-in data,       *)
(* whichever boot was interrupted where; but cases keep a NULL updated_at  *)
(* when an SQLite boot died between V014's ALTER and its UPDATE.           *)
ServesOnCompleteSchema ==
  (\E p \in Replicas : phase[p] = "serving")
    => /\ db.recorded = Versions
       /\ (UNION {Creates(v) : v \in Versions}) \ (UNION {Removes(v) : v \in Versions}) \subseteq db.objects
       /\ Rows \ Sparse \subseteq db.items
       /\ db.seeded /\ db.mode /\ (db.stamped \/ torn)
       /\ backend = "postgres" => db.cased

(* On PostgreSQL nothing of a version is committed without its record, so  *)
(* a file that cannot run twice never has to, although V011 commits in the *)
(* middle of the run.                                                      *)
NothingHalfApplied ==
  backend = "postgres"
    => \A v \in Versions : Creates(v) \cap db.objects # {} => v \in db.recorded

(* From V003 on the events of the older installation are all hashed, each  *)
(* onto the one before it.  An appended event carries the hash of one that *)
(* was newest while it was appended, and of the newest before it unless    *)
(* another process was appending at the same time, which nothing in SQLite *)
(* does.  Two replicas do fork the chain over PostgreSQL                   *)
(* (repository.py _insert_audit_event).                                    *)
AuditIsChained ==
  /\ "V003" \in db.recorded => \A i \in DOMAIN db.audit : db.audit[i] = i - 1
  /\ \A i \in DOMAIN trail :
       /\ \E n \in 0..i - 1 : trail[i].prev = Newest(n)
       /\ ~trail[i].beside => trail[i].prev = Newest(i - 1)
       /\ trail[i].beside => backend = "postgres"

(* Whatever the boots and crashes before, what runs on the database finds   *)
(* schema, data and audit chain whole (runner.py apply_migrations).         *)
DatabaseIsWhole == TypeOK /\ ServesOnCompleteSchema /\ NothingHalfApplied /\ AuditIsChained

(* Every process comes up, however the boots of replicas and crashes       *)
(* interleave.  Not so on PostgreSQL when audit events exist at V003: the  *)
(* immutability trigger of V001 refuses its backfill.                      *)
BootsComplete ==
  \A p \in Replicas :
    (\/ backend = "sqlite" /\ p = Single
     \/ backend = "postgres" /\ \A i \in DOMAIN db.audit : db.audit[i] # -1)
      ~> phase[p] = "serving"
=============================================================================
