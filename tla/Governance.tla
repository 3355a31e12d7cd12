----------------------------- MODULE Governance -----------------------------
(***************************************************************************)
(* Who changed what, and what it was: the layers of a tenant's weights     *)
(* (routes/config.py, tenant_config.py, TenantConfigRepository), the hash  *)
(* chain that records their changes beside the other handlers' events      *)
(* (PolicyRepository, DatabaseBackedStore.log_audit_event), and the        *)
(* taxonomy seed a steward edits (scripts/steward_change.py).              *)
(*                                                                         *)
(* A change is several transactions: the handler's read, the repository's  *)
(* own read, the write, the audit row.  In the last one the time is taken, *)
(* the newest hash read and the row inserted, with nothing locked.  A      *)
(* handler does not yield, so within a process they do not interleave;     *)
(* between the replicas of a PostgreSQL deployment they do.                *)
(***************************************************************************)
EXTENDS Integers, SequencesExt, FiniteSetsExt

CONSTANTS
  Processes, Tenants, Owner,   \* Owner is the tenant whose weights are edited
  Layers,             \* sequence of the layers of one event, widest first
  Signals, Whole,     \* the weights' keys and their sum
  Platform,           \* defaults.json
  Behaviour,          \* the customer's layer when the table has none
  Overrides,          \* the weights an administrator writes, of any keys or none
  None,               \* no row
  Settings            \* deployments to explore, each with its bounds

ASSUME GovernanceAssumption ==
  /\ Owner \in Tenants /\ None \notin Overrides
  /\ Layers \in Seq(STRING) \ {<<>>} /\ "none" \notin ToSet(Layers)
  /\ \A s \in Settings :
       /\ s.kind \in {"db", "seed"} /\ s.backend \in {"sqlite", "postgres"}
       /\ s.skewed \subseteq s.procs /\ s.procs \subseteq Processes
       /\ s.backend = "sqlite" => s.skewed = {} /\ \A p, q \in s.procs : p = q
       /\ {s.changes, s.events, s.resolves, s.faults} \subseteq Nat

VARIABLES
  setting, faults, clock,
  rows,              \* [layers -> the weights in tenant_config]
  log,               \* policy_audit_log in the order of insertion
  job,               \* [Processes -> the handler it runs]
  changes, events, resolves,   \* begun so far
  written, audited, lost, hollow,   \* history: changes by what became of them
  overlapped,        \* history: audit transactions that ran at once, [jobs, rows]
  muddled,           \* history: layers whose trail two changes, or a failure, mixed
  resolved,          \* history: the latest resolution
  seed, constants,   \* the taxonomy: the YAML, and [py, ts] generated from it
  steward,           \* the steward's command: step and proposed seed
  interrupted, before\* history: a command stopped halfway; the seed when the latest began

config == <<clock, rows, log, job, changes, events, resolves, written, audited, lost, hollow,
            overlapped, muddled, resolved>>
taxonomy == <<seed, constants, steward, interrupted, before>>
vars == <<setting, faults, config, taxonomy>>

LayerSet == ToSet(Layers)
Fault == faults < setting.faults /\ faults' = faults + 1
NoFault == UNCHANGED faults

Idle == [step |-> "idle", layer |-> "none", tenant |-> Owner, id |-> 0, old |-> None, new |-> None,
         found |-> None, at |-> 0, prev |-> 0, seen |-> <<>>, torn |-> FALSE]
Answers(p) == setting.kind = "db" /\ p \in setting.procs /\ job[p].step = "idle"
Others(p) == setting.procs \ {p}
Stamped(q) == job[q].step \in {"link", "insert"}

-----------------------------------------------------------------------------
(* The weights of a row; that there is none gives none.                    *)
Given(w) == IF w = None THEN <<>> ELSE w

(* upsert_layer and delete_layer: the row is read for the audit; a         *)
(* deletion, whose new weights are None here, is refused where nothing is. *)
(* The event is validated before any write: what is not valid changes      *)
(* nothing and is left out.                                                *)
Propose(p) ==
  /\ Answers(p) /\ changes < setting.changes
  /\ changes' = changes + 1
  /\ \E layer \in LayerSet, new \in Overrides \cup {None} :
       /\ new = None => rows[layer] # None
       /\ job' = [job EXCEPT ![p] = [Idle EXCEPT !.step = "find", !.layer = layer, !.new = new,
                                                 !.old = rows[layer], !.id = changes + 1]]
       /\ muddled' = IF \E q \in Others(p) : job[q].layer = layer THEN muddled \cup {layer} ELSE muddled
  /\ NoFault
  /\ UNCHANGED <<setting, clock, rows, log, events, resolves, written, audited, lost, hollow,
                 overlapped, resolved, taxonomy>>

(* The repository reads the row itself; delete returns FALSE when it has   *)
(* gone meanwhile, which the handler does not look at.                     *)
Find(p) ==
  LET j == job[p]
      gone == j.new = None /\ rows[j.layer] = None
  IN  /\ j.step = "find"
      /\ job' = [job EXCEPT ![p].step = IF gone THEN "stamp" ELSE "write", ![p].found = rows[j.layer]]
      /\ hollow' = IF gone THEN hollow \cup {j.id} ELSE hollow
      /\ NoFault
      /\ UNCHANGED <<setting, clock, rows, log, changes, events, resolves, written, audited, lost,
                     overlapped, muddled, resolved, taxonomy>>

(* What follows a write: the audit row; mutant: not after a deletion. *)
OnlyUpserts(j) == IF j.new = None THEN Idle ELSE [j EXCEPT !.step = "stamp"]
Audits(j) == [j EXCEPT !.step = "stamp"]

(* An UPDATE or DELETE of a row that has gone changes nothing and raises   *)
(* nothing; an INSERT beside another is refused by the unique key.         *)
Write(p) ==
  LET j == job[p]
      stored == rows[j.layer]
      inserts == j.new # None /\ j.found = None
      applies == IF inserts THEN stored = None ELSE stored # None
      refused == inserts /\ stored # None
  IN  /\ j.step = "write"
      /\ rows' = IF applies THEN [rows EXCEPT ![j.layer] = j.new] ELSE rows
      /\ job' = [q \in Processes |->
           IF q = p THEN (IF refused THEN Idle ELSE Audits(j))
           ELSE [job[q] EXCEPT !.torn = @ \/ (applies /\ job[q].step = "resolve")]]
      /\ written' = IF applies THEN written \cup {j.id} ELSE written
      /\ hollow' = IF applies \/ refused THEN hollow ELSE hollow \cup {j.id}
      /\ NoFault
      /\ UNCHANGED <<setting, clock, log, changes, events, resolves, audited, lost, overlapped,
                     muddled, resolved, taxonomy>>

(* Another handler's event for the same log, or another tenant's. *)
HandlerAudits(p) ==
  /\ Answers(p) /\ events < setting.events
  /\ events' = events + 1
  /\ \E t \in Tenants : job' = [job EXCEPT ![p] = [Idle EXCEPT !.step = "stamp", !.tenant = t]]
  /\ NoFault
  /\ UNCHANGED <<setting, clock, rows, log, changes, resolves, written, audited, lost, hollow,
                 overlapped, muddled, resolved, taxonomy>>

(* _insert_audit_event takes the time first: microseconds, never the same  *)
(* twice; the clock of a skewed process is ahead.                          *)
Now(p) == 2 * clock + (IF p \in setting.skewed THEN 3 ELSE 0)
Beside(p) == {q \in Others(p) : Stamped(q) /\ job[q].tenant = job[p].tenant}

Stamp(p) ==
  /\ job[p].step = "stamp"
  /\ job' = [job EXCEPT ![p].step = "link", ![p].at = Now(p)]
  /\ clock' = clock + 1
  /\ overlapped' = [overlapped EXCEPT !.jobs =
       IF Beside(p) = {} THEN @ \ {p} ELSE (@ \cup {p}) \cup Beside(p)]
  /\ NoFault
  /\ UNCHANGED <<setting, rows, log, changes, events, resolves, written, audited, lost, hollow,
                 muddled, resolved, taxonomy>>

(* The rows of a tenant's chain. *)
RowsOf(t) == {i \in DOMAIN log : log[i].tenant = t}

(* ORDER BY created_at DESC LIMIT 1; 0 is GENESIS; mutant: of all tenants. *)
NewestOfAll(t) ==
  IF log = <<>> THEN 0
  ELSE CHOOSE i \in DOMAIN log : \A k \in DOMAIN log : log[k].at <= log[i].at
Newest(t) ==
  IF RowsOf(t) = {} THEN 0
  ELSE CHOOSE i \in RowsOf(t) : \A k \in RowsOf(t) : log[k].at <= log[i].at

Link(p) ==
  /\ job[p].step = "link"
  /\ job' = [job EXCEPT ![p].step = "insert", ![p].prev = Newest(job[p].tenant)]
  /\ NoFault
  /\ UNCHANGED <<setting, clock, rows, log, changes, events, resolves, written, audited, lost,
                 hollow, overlapped, muddled, resolved, taxonomy>>

(* What the audit row says was there before. *)
Previous(j) == j.old

(* The row commits once; mutant: it is inserted again, as if it had not. *)
Again(j) == [j EXCEPT !.step = "stamp"]
Committed(j) == Idle

(* _audit_event_hash: a hash stands for what is hashed, the dumped columns *)
(* and the hash before them; text dumps to other bytes than what it        *)
(* decodes to.                                                             *)
Hash(form, at, prev, old, new) ==
  [form |-> form, at |-> at, prev |-> prev, old |-> old, new |-> new]

(* The columns hashed are the strings that are bound. *)
Row(j) ==
  [tenant |-> j.tenant, layer |-> j.layer, at |-> j.at, prev |-> j.prev,
   old |-> Previous(j), new |-> Given(j.new),
   hash |-> Hash("text", j.at, j.prev, Previous(j), Given(j.new))]

Insert(p) ==
  LET j == job[p]
  IN  /\ j.step = "insert"
      /\ log' = Append(log, Row(j))
      /\ overlapped' = [jobs |-> overlapped.jobs \ {p},
                        rows |-> IF p \in overlapped.jobs THEN overlapped.rows \cup {Len(log) + 1}
                                 ELSE overlapped.rows]
      /\ audited' = IF j.id = 0 THEN audited ELSE audited \cup {j.id}
      /\ job' = [job EXCEPT ![p] = Committed(j)]
      /\ NoFault
      /\ UNCHANGED <<setting, clock, rows, changes, events, resolves, written, lost, hollow,
                     muddled, resolved, taxonomy>>

(* A transaction raises, or the process stops: the write stays without its *)
(* row.  Another handler's event is logged and given up (not strict).      *)
Fails(p) ==
  LET j == job[p]
  IN  /\ j.step # "idle" /\ Fault
      /\ job' = [job EXCEPT ![p] = Idle]
      /\ lost' = IF j.id \in written THEN lost \cup {j.id} ELSE lost
      /\ muddled' = IF j.id \in written THEN muddled \cup {j.layer} ELSE muddled
      /\ UNCHANGED <<setting, clock, rows, log, changes, events, resolves, written, audited, hollow,
                     overlapped, resolved, taxonomy>>

-----------------------------------------------------------------------------
(* assert_weight_contract. *)
SumOver(w) == FoldSet(LAMBDA s, total : w[s] + total, 0, Signals)
Contract(w) ==
  /\ DOMAIN w = Signals /\ \A s \in Signals : w[s] \in 0..Whole
  /\ SumOver(w) = Whole

(* A narrower layer replaces the keys it has; mutant: it only adds keys. *)
KeepsWider(wide, narrow) == wide @@ narrow
Over(wide, narrow) ==
  [k \in DOMAIN wide \cup DOMAIN narrow |-> IF k \in DOMAIN narrow THEN narrow[k] ELSE wide[k]]

(* The platform's defaults meet the contract; nothing else is checked      *)
(* before it is merged.                                                    *)
ASSUME PlatformAssumption == Contract(Platform) /\ Platform = [s \in Signals |-> Platform[s]]

(* The behaviour tag speaks where the customer's row gives nothing. *)
Layer(i, w) == IF Layers[i] = "customer" /\ Given(w) = <<>> THEN Behaviour ELSE Given(w)
Merged(seen) ==
  FoldLeft(LAMBDA wide, i : Over(wide, Layer(i, seen[i])), Platform, [i \in DOMAIN Layers |-> i])
Resolution(seen) == IF Contract(Merged(seen)) THEN Merged(seen) ELSE Platform

(* TenantConfigGateway reads the layers one transaction after another.     *)
Resolve(p) ==
  /\ Answers(p) /\ resolves < setting.resolves
  /\ resolves' = resolves + 1
  /\ job' = [job EXCEPT ![p] = [Idle EXCEPT !.step = "resolve"]]
  /\ NoFault
  /\ UNCHANGED <<setting, clock, rows, log, changes, events, written, audited, lost, hollow,
                 overlapped, muddled, resolved, taxonomy>>

ReadLayer(p) ==
  LET j == job[p]
      seen == Append(j.seen, rows[Layers[Len(j.seen) + 1]])
      done == Len(seen) = Len(Layers)
  IN  /\ j.step = "resolve"
      /\ job' = [job EXCEPT ![p] = IF done THEN Idle ELSE [j EXCEPT !.seen = seen]]
      /\ resolved' = IF done THEN [weights |-> Resolution(seen), torn |-> j.torn,
                                   stored |-> [l \in LayerSet |-> rows[l]]]
                     ELSE resolved
      /\ NoFault
      /\ UNCHANGED <<setting, clock, rows, log, changes, events, resolves, written, audited, lost,
                     hollow, overlapped, muddled, taxonomy>>

-----------------------------------------------------------------------------
(* The taxonomy: its codes, SG_ and INT_, each with its suffix.  Of the    *)
(* invariants load_yaml checks, the command does not check the shared      *)
(* suffix itself.                                                          *)
Codes == [kind : {"SG", "INT"}, suffix : {"pricing", "credit"}]
Loads(codes) == ~\E x, y \in codes : x.kind # y.kind /\ x.suffix = y.suffix

(* The steps of _atomic_commit; mutant: replaced before it is validated. *)
Following(order, step) ==
  IF step = "idle" THEN Head(order)
  ELSE LET k == CHOOSE i \in DOMAIN order : order[i] = step
       IN  IF k = Len(order) THEN "idle" ELSE order[k + 1]
Hasty(step) == Following(<<"replace", "validate", "py", "ts">>, step)
After(step) == Following(<<"validate", "replace", "py", "ts">>, step)

StewardBegins ==
  /\ setting.kind = "seed" /\ steward.step = "idle"
  /\ \E code \in Codes \ seed : steward' = [step |-> After("idle"), codes |-> seed \cup {code}]
  /\ before' = seed
  /\ NoFault /\ UNCHANGED <<setting, config, seed, constants, interrupted>>

(* The proposal is validated in a file beside the seed. *)
Validate ==
  /\ steward.step = "validate"
  /\ steward' = IF Loads(steward.codes) THEN [steward EXCEPT !.step = After(@)]
                ELSE [step |-> "idle", codes |-> {}]
  /\ NoFault /\ UNCHANGED <<setting, config, seed, constants, interrupted, before>>

Replace ==
  /\ steward.step = "replace"
  /\ seed' = steward.codes
  /\ steward' = [steward EXCEPT !.step = After(@)]
  /\ NoFault /\ UNCHANGED <<setting, config, constants, interrupted, before>>

(* The files the generator writes. *)
Generated(step) == {step}

Generate ==
  /\ steward.step \in {"py", "ts"}
  /\ constants' = [f \in {"py", "ts"} |->
       IF f \in Generated(steward.step) THEN steward.codes ELSE constants[f]]
  /\ steward' = IF steward.step = "ts" THEN [step |-> "idle", codes |-> {}]
                ELSE [steward EXCEPT !.step = After(@)]
  /\ NoFault /\ UNCHANGED <<setting, config, seed, interrupted, before>>

(* A file cannot be written, or the command is stopped; from the           *)
(* replacement on, the seed has changed all the same.                      *)
StewardFails ==
  /\ steward.step # "idle" /\ Fault
  /\ steward' = [step |-> "idle", codes |-> {}]
  /\ interrupted' = (interrupted \/ steward.step \in {"py", "ts"})
  /\ UNCHANGED <<setting, config, seed, constants, before>>

(* validate finds the drift (exit 4), and the generator is run again. *)
Drifted == \E f \in {"py", "ts"} : constants[f] # seed
Regenerate ==
  /\ setting.kind = "seed" /\ steward.step = "idle" /\ Drifted
  /\ constants' = [f \in {"py", "ts"} |-> seed] /\ interrupted' = FALSE
  /\ NoFault /\ UNCHANGED <<setting, config, seed, steward, before>>

-----------------------------------------------------------------------------
Init ==
  /\ setting \in Settings /\ faults = 0 /\ clock = 0
  /\ rows = [l \in LayerSet |-> None] /\ log = <<>> /\ job = [p \in Processes |-> Idle]
  /\ changes = 0 /\ events = 0 /\ resolves = 0
  /\ written = {} /\ audited = {} /\ lost = {} /\ hollow = {}
  /\ overlapped = [jobs |-> {}, rows |-> {}] /\ muddled = {}
  /\ resolved = [weights |-> Platform, torn |-> TRUE, stored |-> rows]
  /\ seed = {[kind |-> "SG", suffix |-> "pricing"]} /\ constants = [f \in {"py", "ts"} |-> seed]
  /\ steward = [step |-> "idle", codes |-> {}] /\ interrupted = FALSE /\ before = seed

Next ==
  \/ \E p \in Processes :
       \/ Propose(p) \/ Find(p) \/ Write(p) \/ HandlerAudits(p) \/ Stamp(p) \/ Link(p) \/ Insert(p)
       \/ Fails(p) \/ Resolve(p) \/ ReadLayer(p)
  \/ StewardBegins \/ Validate \/ Replace \/ Generate \/ StewardFails \/ Regenerate

Spec == Init /\ [][Next]_vars

-----------------------------------------------------------------------------
(* Rows, log and jobs have their types, and a change ends in one way. *)
TypeOK ==
  /\ rows \in [LayerSet -> Overrides \cup {None}] /\ faults \in 0..setting.faults
  /\ \A i \in DOMAIN log : log[i].prev \in 0..(Len(log) - 1) /\ log[i].tenant \in Tenants
  /\ written \cup audited \cup hollow \subseteq 1..changes /\ lost \subseteq written
  /\ lost \cap audited = {} /\ written \cap hollow = {}

(* verify_audit_chain: the rows of a tenant by created_at, each linked to  *)
(* the one before it and hashing to its hash.  On PostgreSQL JSONB and     *)
(* TIMESTAMPTZ columns come back decoded, on SQLite every column is TEXT.  *)
Earlier(i) == {k \in RowsOf(log[i].tenant) : log[k].at < log[i].at}
Links(i) ==
  IF Earlier(i) = {} THEN log[i].prev = 0
  ELSE log[i].prev \in Earlier(i) /\ \A k \in Earlier(i) : log[k].at <= log[log[i].prev].at
ReadAs == IF setting.backend = "postgres" THEN "decoded" ELSE "text"
Recomputes(i) ==
  log[i].hash = Hash(ReadAs, log[i].at, log[i].prev, log[i].old, log[i].new)
Verifies(t) == \A i \in RowsOf(t) : Links(i) /\ Recomputes(i)

(* On SQLite a tenant's log verifies.  On PostgreSQL, where no log with a  *)
(* row in it does, replicas fork the chain and nothing else breaks it: a   *)
(* row no other audit of its tenant ran beside is linked to the newest     *)
(* before it, whatever forks came earlier, if no clock is ahead; and any   *)
(* row is linked to an earlier one of its own tenant.                      *)
ChainVerifies ==
  /\ setting.backend = "sqlite" => \A t \in Tenants : Verifies(t)
  /\ setting.backend = "postgres" => \A t \in Tenants : Verifies(t) => RowsOf(t) = {}
  /\ setting.skewed = {} => \A i \in DOMAIN log \ overlapped.rows : Links(i)
  /\ \A i \in DOMAIN log :
       log[i].prev = 0 \/ (log[i].prev < i /\ log[log[i].prev].tenant = log[i].tenant)

(* Every change of the weights has its audit row, unless a failure came    *)
(* between; and a row without a change comes only of two changes at once.  *)
ChangesAreAudited ==
  LET running == {job[p].id : p \in Processes}
  IN  /\ written \subseteq audited \cup lost \cup running
      /\ audited \subseteq written \cup hollow
      /\ hollow # {} => muddled # {}

(* Read in order, the rows about a layer tell its history: each starts     *)
(* from what the one before left, and the last left what is stored.        *)
Trail(layer) == {i \in DOMAIN log : log[i].layer = layer}
LeftBy(trail) == IF trail = {} THEN <<>> ELSE log[Max(trail)].new
TrailReplays ==
  \A layer \in LayerSet \ muddled :
    /\ \A i \in Trail(layer) : Given(log[i].old) = LeftBy({k \in Trail(layer) : k < i})
    /\ ~(\E p \in Processes : job[p].layer = layer) => Given(rows[layer]) = LeftBy(Trail(layer))

(* An auditor can rebuild the weights from the log: it is chained as       *)
(* ChainVerifies says, every change is in it, and its rows replay          *)
(* (config.py upsert_layer, delete_layer, _insert_audit_event).            *)
AuditIsWhole == TypeOK /\ ChainVerifies /\ ChangesAreAudited /\ TrailReplays

(* The narrowest layer that has the key, and then the platform, gives its  *)
(* weight; what breaks the contract as a whole is not used at all.         *)
Narrowest(stored, s) ==
  LET has == {i \in DOMAIN Layers : s \in DOMAIN Layer(i, stored[Layers[i]])}
  IN  IF has = {} THEN Platform[s] ELSE Layer(Max(has), stored[Layers[Max(has)]])[s]
KeysOf(stored) == Signals \cup UNION {DOMAIN Layer(i, stored[Layers[i]]) : i \in DOMAIN Layers}
ResolvedFitsRows ==
  LET reference == [s \in KeysOf(resolved.stored) |-> Narrowest(resolved.stored, s)]
  IN  /\ Contract(resolved.weights)
      /\ ~resolved.torn =>
           resolved.weights = (IF Contract(reference) THEN reference ELSE Platform)

(* Whatever stops the steward, the seed can be loaded, and a command that  *)
(* did not get to the replacement left it alone.                           *)
SeedLoads ==
  /\ Loads(seed)
  /\ steward.step \in {"validate", "replace"} => seed = before

(* The generated constants are those of the seed, unless a command stopped *)
(* between the three files.                                                *)
ConstantsFollowSeed == setting.kind = "seed" /\ steward.step = "idle" /\ ~interrupted => ~Drifted

(* The taxonomy a steward leaves can be loaded, and its constants are its.  *)
SeedIsSound == SeedLoads /\ ConstantsFollowSeed
=============================================================================
