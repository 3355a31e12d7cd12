# ASOE: a verification project in TLA+

ASOE handles order exceptions. An event (a price hold, a possible duplicate
order, an order typed into an e-mail, ...) goes through a graph of nodes that
classifies it, has a *compliance shadow* judge it, lets a deterministic *recipe*
decide, and fires gateway *effects*. What the graph cannot settle becomes a
record that people dispose of, some of it under four eyes; records of one order
roll up into a case. This directory has TLA+ modules of that core, the TLC
instances that check them and TLAPS proofs of the results that matter for every
size of system.

Paths below are relative to `src/`.

## 1. The system

| Component | State | Operations | Talks to | Hard about it | Correct when |
|---|---|---|---|---|---|
| Exception records, `api/routes/exceptions.py` | a row: lifecycle, final status, verdict, resolution data, attempts | resolve, disposition (approve, reject, override, submit to ERP), cosign, escalate, reanalyze, challenge, admin release | graph, store, case roll-up, audit log | any order of handlers by several users; cosign parks a record between two requests; a submit may fail half-way | four eyes, no stranded record, the two status fields agree, every move audited |
| Cases, `api/case_resolver.py`, `api/routes/cases.py` | status, `closed_at`, pending override | attach event, recompute status, initiate and cosign a case override | records, event bus | a cached aggregate; two writers of one status | status reflects the children; stamp only while closed |
| Pipeline, `orchestration/` | `GraphState` | 13 nodes, two graphs | backends, gateways, recipes, outbox | many writers of `final_status`; gates; soft failures | nothing runs before GREEN; a halt is final |
| Recipes, `recipes/`, and deterministic shadow, `constraints/fallback_backend.py` | none | one decision each | called by the pipeline | the same thresholds compared twice | shadow RED whenever the recipe would reject or escalate |
| Breakers, `llm/circuit_breaker.py`, `gateways/circuit_breaker.py` | state, window, probe token | acquire, record success or failure | every LLM and gateway call | overlapping callers, stragglers | one probe, never leaked; recovers |
| Gateway executor, `gateways/executor.py` | thread pool, meters | run | breakers, gateways | a timeout abandons the call | bounded, typed answer |
| Effect outbox, `orchestration/outbox*.py` | ledger of effects | record, reconcile (scheduler or admin) | executor, database | crash between call and row, replicas, duplicates | what it calls done was done; failures drain |
| Persistence, `db/`, `api/store.py` | case tables, correlation keys, audit hash chain, locks, configuration | lookup or create, update, merge, append, lease, migrate | database | an operation is several transactions; leases expire; boots die | one case per order, one chain, a whole schema |
| Case backfill, `agents/backfill.py` | none | attach orphans, merge duplicates | case tables next to live traffic | crash between transactions | every orphan adopted, no dangling key |
| LLM routing and budget, `constraints/`, `llm/`, `compliance/shadow_llm.py` | daily spend, cached backends, trace slots, L2 cache | route, cross-check, call, charge, second opinion | breakers, providers, Redis | check-then-charge; state that outlives a run; operators' changes | bounded overspend; a run proceeds only on an answer that is its own |
| Case agent, `agents/` | lock, budget, replay log, summary | dispatch, turn, tool, compact, release | tools, LLM, cases | lease expiry, death between effect and log | one run per case, every call logged |
| Workflows, `workflows/runner.py` | results, completed steps | run, list compensations | pipeline | a step stops after others had effects | what must be undone is listed |
| Events, `api/events.py`, `pubsub.py`, `routes/ws.py`, `case_intents_cache.py` | replay buffer, sockets, cached intents | publish, replay, stream | every handler | reconnects, trimming, other processes | nothing missed but in the known gaps; own tenant only |
| Authentication, `api/deps.py`, `routes/auth.py`, `refresh_token_revocation.py`, `azure_ad_jwks.py` | revocations, key cache | login, refresh, verify | all routes | lost answers, restarts | a refresh token is spent once per process life |
| Attachments, `gateways/attachment_*`, extraction caches | bytes, metadata index, links, caches | store, read, link, extract | records, Redis, object store | an index of one process, failed deletions, rotated keys | nothing reads empty; links last; values stay in their tenant |
| Retention, `api/retention_sweeper.py` | plan of a sweep | plan, erase, attribute | attachments, audit log | overlapping sweeps, crash between proof and deletion | no byte goes before its proof |
| Tenant configuration, `gateways/tenant_config.py`, `api/routes/config.py` | layered weights | resolve, change | recipes, audit log | read, write and audit are separate transactions | every change audited; the trail replays |
| Taxonomy seed, `scripts/steward_change.py` | seed and two generated files | add, deprecate, generate, validate | migrations | stops between files | the seed always loads |
| Rollout, `gateways/canary.py`, `shadow_mode.py`, `sap_live.py`, `oms_live.py`, `msgraph_intake.py` | diff log, dead letters | route live or stub, call both | executor, breakers | concurrent logs, restarts at another level | a letter is its own call's; raising a level never takes a case back |
| Composers, schemas, sandbox, observability, scripts | none the above depend on | projections | - | - | - |

The interaction that carries the safety of the system is a chain:

    event -> Pipeline (shadow, recipe, effect) -> record -> HITL handlers -> case
             ^     |              |                  |             |          |
     workflow, LLMs, budget    executor,         ERP submit,     reply      events,
     case agent              routers, outbox   directed re-entry drafts     sockets

## 2. Modules

| Module | Models | Uses |
|---|---|---|
| `Contracts` | the status vocabulary, what a run can leave (`PipelineOutcomes`), `STATUS_TO_LIFECYCLE` | |
| `ExceptionLifecycle` | the record handlers, the case roll-up, the case override | `Contracts` |
| `Recipes` | the decisions of the 13 registered recipes and of the deterministic shadow | |
| `Pipeline` | one run of the graph | `Recipes`, `Contracts` |
| `Workflow` | the runner of several steps, each a run of `Pipeline` | `Pipeline` |
| `CircuitBreaker` | one breaker with its concurrent callers | |
| `EffectOutbox` | effects, the ledger, the scheduler, the executor's timeout, replicas | |
| `Replies` | reply drafts and sends on a record, idempotency keys, the delivery ledger | `EffectOutbox` |
| `CaseStore` | the case tables, intake, updates and backfill, transaction by transaction | |
| `Migrations` | the boots of processes over SQLite and PostgreSQL | |
| `CaseAgent` | runs of the agent on one case | |
| `LlmRouting` | the model calls of runs: routing, budget, traces, second opinion | |
| `Sessions` | sockets, tokens, signing keys, cached intents | |
| `Erasure` | abstract: what erasing a document promises | |
| `Documents` | stores, sweeps, links, extraction caches; implements `Erasure` | `Erasure` |
| `Governance` | layered weights, their audited changes, the audit chain, the taxonomy seed | |
| `Rollout` | executor, pool, breakers, routers, dead letters | |
| `...Proofs` | theorems about eight of these (section 4) | |
| `MC...` | instances for TLC | |

Components are composed where they share state. `Workflow` extends `Pipeline` (a step
is a run), and `Replies` extends `EffectOutbox` (a send fires the effect the outbox then
keeps). `Pipeline` and `ExceptionLifecycle` are composed by contract: `Pipeline`'s
invariant `OutcomesCovered` says a run ends in `PipelineOutcomes`, and
`ExceptionLifecycle` assumes its `Outcomes` are a subset of that set; its guard
`MayEnd` is `Pipeline`'s invariant `IntakeIsOperatorGated`.

In all modules with several processes a handler is atomic for its own process (the
event loop does not get control back inside one) and is split for the others at
each database transaction, store call or gateway call.

### ExceptionLifecycle

A record `rec[r]` keeps the columns the handlers branch on and, of
`resolution_data`, `pending_override` and `erp_submission`. Monetary impact is
the Boolean `high` (at or above the four-eyes threshold), an order-intake record
with an extraction is `intake`. `audit[r]` is the last lifecycle row in the audit
log. A case has `caseStatus`, `closedAt` (stamped or not) and `casePending`.
Two history variables: `cosigner`, who cosigned the resolution that now stands, and
`overridden`, the cases somebody initiated an override of.

Each handler is one action: its state checks are the guard, the update of the
row, the audit row and the roll-up of the case are its effect, so an action
that leaves the roll-up out (`StageOverride`, `PersistErpSubmit`) is a handler
that does not call it. A handler runs on one event loop and does not await
between reading a record and its last write, so it is atomic within a process.
Two replicas can interleave inside a handler: that is not in this module.
`PersistErpSubmit` has three outcomes: the recipe rejected the submit, it
succeeded and the ERP call failed (`UNPOSTED`), or both succeeded (`POSTED`).

### Recipes and Pipeline

`Recipes` is a set of pure operators. Fractions of `contracts/policy.py` are
integer percentages and a quotient compared with a threshold is multiplied out,
so the models decide boundaries exactly. Amounts of the credit recipe are in
units of its tolerance. An answer is a status, a recommended action and whether
the autonomy level asks for a human (`AutonomyRank`, vocabulary v2). One pallet
line stands for several.

`Pipeline` has the `GraphState` in `state` and the node about to run in `node`;
an action is a node function together with its outgoing edges. `Gate` is
`route_after_gate`: a set `final_status` sends the run to `build_analysis`. What
the environment answers (a dependency fails, softly or not; a gateway effect
fails; an LLM disagrees; a parameter is missing, written as the result `ERROR`)
is a choice in the action. `state.facts` are the fields the recipe and the
shadow look at; for delivery delays these differ (`late` computed from dates,
`days_late` from metadata). With `state.llm_shadow` any verdict may come back.
`FlipKillSwitch` is always possible, and `RunGraph` alone looks at the switch.

### CircuitBreaker

`acquire` and `record_*` hold the lock and are atomic; the call between is not,
so `calls[c]` is the age of each caller's outstanding call. Time is in ticks and
kept as ages: `records[a]` counts what completed `a` ticks ago. `Trips` has both
of `_maybe_trip_locked`'s conditions, the p95 with Python's rounding. The
dependency's health changes at any time.

### EffectOutbox

A process does one thing at a time (`proc[p]`): it fires an effect, or retries
the entries of the snapshot it took of the ledger. `RunReturns` is the gateway
executor: success, failure (with or without the effect having happened), or a
timeout that leaves the call running (`late`), which may complete whenever it
likes. `Crash` loses what the process was doing and, without a database, its
ledger; a call on its way may still be carried out. `applied[e]` counts what the gateway really did.

### Replies

`record.data` is the part of `resolution_data` the reply handlers write: draft,
revisions, sent. A request is a draft or a send with its user, key, recipient and text.
`Submit` is a request up to its gateway call: it reads the record, and a send is first
previewed. The preview and the send are two runs of the graph, each of which classifies
and audits the event again, so that either may be halted where the other composes the
reply (`Composes`); the ledger of deliveries is asked only about what a preview composed.
The gateway call goes through `EffectOutbox`'s own actions; `Persist` writes the
ledger, then the record as it was read. Keys and deliveries are kept per
process and die at `Restart`; the key cache may forget (`Forget`). Two history variables:
`blind`, the sends whose preview was halted, and `resent`, those a process calls SENT
after it called another send of the same reply SENT.

### Workflow

`workflow` is the locals of `WorkflowRunner.run`. The route hands every step one
`OrderEvent` object, so `NextFacts` lets metadata and gateway answers differ at the next
step and keeps the event's columns. `Compensate` lists, since `_compensate`
runs nothing.

### CaseStore

`task[p]` is what a replica is doing and where; each step is a transaction of
`DatabaseBackedCaseStore` or `DatabaseBackedStore`. Reads before a write may be stale.
Two history variables name known races: `contested` are keys that two replicas opened
at once or a merge dropped, `overtaken` are cases written between a check and its write.

### Migrations

Versions are lists of statements over a set of objects. SQLite executes statement by
statement and its driver commits as `sqlite3` does; PostgreSQL runs unrecorded files in one
transaction that `V011` commits half-way. `torn` records a boot that died between an `ALTER`
and its `UPDATE`. Old installations have rows without the later columns and unhashed
audit events, which V003's backfill chains unless the trigger of V001 refuses it
(`FileRefused`). A serving process appends an audit event in three steps (`StampEvent`,
`ReadNewest`, `InsertEvent`), with nothing locked between them: `trail` has the events in the
order of their inserts, `beside` says that another process was appending in the meantime.

### CaseAgent

A run goes through the steps of `run_case_agent_step`: dispatch, acquire, turns with
their tools, log, compaction, release. `durable` chooses the database's lease and replay
table or the in-memory mutex and list. `late` says that some run outlived its lease.

### LlmRouting

`run[p].at` is the task a process is at. `consumed` is a budget counter per process, or
one in Redis; `blind` counts reads of it that failed. The environments in `Configs` are
what `provider_factory` reads, `Builds` and the four `...Refuses` say which client comes up
and which request it turns down before anything is charged.

### Sessions

A client's `socket` connects, replays, subscribes and streams; `buffer` is the replay
list or sorted set; `lost` names the events that fell into one of the known gaps.
`tokens` are a user's pair, `intents` the per-process cache, `jwks` the cached key set.

### Documents and Erasure

`blobs` are bytes, `index[p]` the metadata a process can reach (the object store's is a
dictionary of the process). A sweep's `job` has one step per call of store or log, a read that
raises among them. Its plan is any list of candidates, because that is what
`commit_with_residency_check` takes; today's command line never gives it one (`dry_run`
returns an empty plan, `api/retention_sweeper.py:131`, and the object store's index is empty
in a new process), so that the sweeps on the object store stand for a caller inside the API
process. The extraction caches keep what their keys must fit: a rendition's hash is left out,
and so is the `attachment_id` in cached anchors, which is that of the first document with
these bytes (`gateways/document_extraction.py:366` and 380). `Erasure` has three facts (held,
proved, durable) and four actions; `Documents` implements it with `held <- Held` and `proved
<- Proved` (rows of the log).

### Governance

`job[p]` is a change or a resolve; `log` has the rows of all tenants with the time they took,
the row they hashed onto and what their hash was computed from (`Hash`). A hash is a record of
its inputs, so that two are equal only when these are, the form of the values included: they
are hashed as text (JSON and ISO times), SQLite gives them back as text, PostgreSQL's JSONB
and TIMESTAMPTZ columns come back decoded (`ReadAs`). `Verifies` is `verify_audit_chain` with
both of its checks, link and recomputation. `overlapped` are the rows written while another
audit transaction of the tenant was open. `muddled` layers were changed by two jobs at once,
`hollow` rows report a change of a vanished row. Weights have any keys, or none: nothing
checks them before the resolution does (`Contract`). `None` is a missing row; to a resolution
and in the log it is the same as a row without keys (`Given`). The steward works on `seed` and
two generated files, and may be stopped before each write.

### Rollout

`caller[c]` and `worker[c]` are the two ends of a call; `route[c]` what happened on
its live and stub side. `Limit(c)` is the limit of its gateway (`GATEWAY_TIMEOUT_S`) or the
request's own, in ticks; `age[c]` is the time since the submission, queue included, and
`Expired` its only guard: a call with a short limit does time out behind calls well within
longer ones. A call ends between two ticks, after any number of them, or `slow`
has it and it outlives its caller. With `threads` several requests' runs go on beside each
other, and beside the calls a run left out when it halted on a required dependency. Two
histories: `worked[c]`, how long a worker has had the call, and `crowded`, that more callers
waited at once than there are workers.

## 3. Runs

Related invariants are checked under one name; the table names the parts of
each. `TypeOK` of a module is a part of the first.

| Run | Instance | Properties |
|---|---|---|
| `HitlRuns` | one record of every kind with an analyst, a manager and an admin; or two records of one case moved by the seniors (`scenario`) | `FourEyes`; `RowsAreCoherent` (`SettledMatchesFinalStatus`, `ParkedIsCosignable`); `CaseFollowsChildren` (`CaseStatusTracksChildren`, `CloseStampMatchesStatus`, `CosignParkedCaseStaysOpen`); `AuditTrailConnected` |
| `PipelineRuns` | every intent, live and explain, deterministic or LLM shadow, facts around every threshold, workflows of up to 3 steps | `OutcomesCovered`; `GatesHold` (`ShadowGatesExecution`, `HaltIsFinal`); `NeedsAHuman` (`IntakeIsOperatorGated`, `RejectedIsHumanOnly`, `OnlyBenignCompletes`); `SevereIsRed`; `WorkflowReportIsTrue` (`CompleteMeansEveryStepPassed`, `CompensationCoversEffects`) |
| `BreakerRuns` | 3 callers, the ratios of the LLM tier | `ProbeRules` (`ProbeIsHeld`, `SingleProbe`, `OpenAdmitsNobody`); `RetripNeedsNewFault`; `Recovers` |
| `OutboxRuns` | 2 replicas on the table, 1 replica on either ledger; two desks of operators who draft and send replies | `LedgerIsTrue` (`DoneMeansApplied`, `RetriesBounded`, `DuplicatesAreCounted`, `SettledOnce`); `FailuresAreDrained`; `RepliesAreTrue` (`SentWasDelivered`, `SentOncePerLife`, `KeyRunsOnce`); `RevisionsChain` |
| `CaseStoreRuns` | 2 processes, one also the backfill script; three events of two purchase orders | `CasesAreFound` (`ReferencesHold`, `OneCasePerPO`); `SupergroupsAreTraced` (`SupergroupIsAudited`, `RecordFollowsCase`, `TriageStaysOpen`); `OrphansAreAdopted` |
| `MigrationRuns` | one SQLite process or 2 PostgreSQL replicas over a fresh and two older databases, 2 crashes | `DatabaseIsWhole` (`ServesOnCompleteSchema`, `NothingHalfApplied`, `AuditIsChained`); `BootsComplete` |
| `CaseAgentRuns` | 2 runs on one case, in memory or over the database, 1 fault | `OneRunPerCase`; `TraceIsTrue` (`EveryCallIsLogged`, `HaltIsLast`, `BudgetHolds`); `NotesAreKept` |
| `LlmRuns` | 2 runs on 1 or 2 processes, own or shared budget | `SpendIsBounded`; `RunsKeepApart` (`TracesAreTheRuns`, `OpinionIsTheTenants`); `ModelStaysInBounds` (`ProceedIsEarned`, `KillStopsCalls`) |
| `SessionRuns` | a client over 2 processes on Redis or one in memory; its tokens; a rotating signing key | `FeedIsComplete` (`NothingElseIsMissed`, `OwnTenantOnly`, `AnnouncedIsStored`); `StaleIntentsAreKnown`; `CredentialsLapse` (`ExchangedOnce`, `KeyIsRecent`) |
| `DocumentRuns` | 2 overlapping sweeps over each store, links through two rotations, both extraction caches | `BytesAreAccounted` (`NothingReadsEmpty`, `StrandedIsKnown`, `ErasedIsGone`, `SweepAddsUp`); `LinksLast`; `CachesFit` (`FieldsStayInTenant`, `AnchorsFitBytes`); `ImplementsErasure` |
| `GovernanceRuns` | 2 replicas on PostgreSQL or 1 process on SQLite changing, resolving and auditing weights; a steward over the seed | `AuditIsWhole` (`ChainVerifies`, `ChangesAreAudited`, `TrailReplays`); `ResolvedFitsRows`; `SeedIsSound` (`SeedLoads`, `ConstantsFollowSeed`) |
| `RolloutRuns` | up to 3 calls of 2 gateways with limits of their own, 2 workers, 3 canary levels, hanging and failing sides, runs beside each other, a restart | `FailuresAreFiled` (`LettersAreOwn`, `OrphansAreFiled`); `CallsAreServed` (`HealthyIsServed`, `ProbeIsAwaited`, `RolloutIsMonotone`); `CallsAreAnswered` |

Several modules take their bounds from a `setting` (or `deployment`) chosen in
the initial state, so that one run covers a family of small instances instead of
one that is large in every direction.

**Bounds.**

- `HitlRuns`: a handler reads one record, so one record is enough for the record
  properties. An analyst may only stage a submit, and two seniors take either side
  of every cosign. Two reanalyses let a record be resolved, reopened and resolved
  again under another initiator. Two records are the least for a roll-up to have
  a least settled child; they run without the case override, whose effect on the
  roll-up is in the first scenario. `PageLimit` (500 rows in the code) is not
  reached.
- `PipelineRuns`: `MCPrices`, `MCQuantities`, `MCPercents` and `MCDays` hold the
  values at and next to each threshold, and the zero and negative ones the
  recipes guard against. With three steps two complete before a third stops, the
  least for an order of compensations.
- `BreakerRuns`: three callers let a straggler, a probe and a third caller meet.
  `MaxSamples` bounds the counters of the window.
- `OutboxRuns`: two replicas and a fault let the snapshots of a pass go stale in every
  way one pair of passes can; `MaxAttempts` is 2 (3 in the code), so that escalation is
  met after a retry that failed. Replies: two replicas, one letter and two
  requests; one replica, two letters, three requests and a restart.
- `CaseStoreRuns`: two new events of one PO race to open it, one unclassified; a
  legacy record shares the sales order only. Four case identifiers are enough for
  each of these and a retry to open one. One update, one crash.
- `MigrationRuns`: two replicas boot side by side, held apart only by the locks of their
  transactions; a second crash can hit the boot that repairs the first. One row with the
  optional columns, one without; two unhashed audit events of the older installation, up to
  three appended ones, so that two fork the chain and a third comes after the fork.
- `CaseAgentRuns`: two turns of up to two calls, the case at tier 2, a lease of one
  tick that a run can outlive, a compaction that two calls trigger.
- `LlmRuns`: a budget of two calls that two processes can read before either is
  charged; two tenants; a GREEN event above the impact threshold, and an explained one.
- `SessionRuns`: windows of one to three ticks in a time of up to five, so that an event, a
  token, a key set each expire once; an access token outlives the replay window, as
  the code's do, so that a client comes back after the window; two changes, two tenants.
- `DocumentRuns`: two documents of one tenant and one of another with the same
  bytes and layout; plans in both orders; two signing-key rotations retire a key.
- `GovernanceRuns`: two layers; whole weights, partial ones, ones with an unknown key, none;
  up to three changes, so that two deletions of one row overlap.
- `RolloutRuns`: two workers and three calls, so that the pool is full or crowded; limits
  of one, two and three ticks, so that one expires while another's call is well; settings with
  calls that hang and without.

`CHECK_DEADLOCK` is off except for the breaker and the pipeline: a system whose
events, requests and time are used up stops. (The pipeline's kill switch may
always flip, and its breaker's time passes.)

**Fairness.** Only what the code's scheduling gives.

- `CircuitBreaker`: calls end (executor and SDK bound them), time passes, traffic
  arrives. `Recovers` is conditional on a dependency that stays healthy.
- `EffectOutbox`, `Replies`: `run` returns by its timeout, a process goes on with what it
  began, the scheduler's loop, which survives any exception of a pass, runs again. The
  scheduler is off by default: `FailuresAreDrained` is about deployments that set
  `ASOE_OUTBOX_RECONCILE_INTERVAL_S`. Without it a failure waits for an administrator.
- `CaseStore`: a started activity continues; the backfill is started again
  as long as it can be (strong fairness: a replica is busy in between).
- `Migrations`: a boot that has begun, or crashed, goes on.
- `Rollout`: callers and workers go on, time passes, and a call that hangs ends some time
  after its caller has given up.

None is assumed of users, administrators, faults, or calls abandoned by a timeout.

**Settings that matter.** `SingleProbe` needs `CallDeadline < Cooldown`, which both
tiers satisfy. `RetripNeedsNewFault` needs `Window + CallDeadline < Cooldown`: the
LLM tier satisfies it, the gateway tier does not, and there the faults of calls
that outlive an outage can trip a breaker its probe had closed.

**Exceptions in properties.** Some properties hold but for a race that the code has. The race
is then named by a history variable or a condition, and the property says that it is the only
one: `overridden` (`ExceptionLifecycle`), `contested` and `overtaken` (`CaseStore`), `torn`
and `beside` (`Migrations`), `late` (`CaseAgent`), `blind` (`LlmRouting`; another one in
`Replies`), `lost` (`Sessions`), `stranded` and `undeleted` (`Documents`), `overlapped`,
`muddled` and `hollow` (`Governance`), `crowded` (`Rollout`). Dropping the exception makes TLC
show the race.

## 4. Proofs

Every theorem below holds for all values of the constants that satisfy the module's
assumption, and each inductive invariant was first checked by TLC on the instance of
the corresponding run. One lemma per action shows the invariant is kept; what actions
share (an action that only moves one process on, a write through a common helper) is a
lemma of its own.

| Module | Theorems | Of the properties |
|---|---|---|
| `ExceptionLifecycleProofs` | `TypeCorrect`, `FourEyesHolds`, `CoherenceHolds`, `Invariance`, `CaseAlwaysFollowsChildren`, `AuditTrailAlwaysConnected`; `DatabaseIsAlwaysWhole` | `FourEyes`, `RowsAreCoherent`, `CaseFollowsChildren`, `AuditTrailConnected`; `DatabaseIsWhole` (`Migrations`) |
| `PipelineProofs` | `OutcomesAreCovered`, `GatesAlwaysHold`, `HumansDecide`, `SevereIsAlwaysRed`, `ReportIsAlwaysTrue` | all of `PipelineRuns` |
| `ServiceProofs` | `ProbeProtocol`, `NoTripOnOldFaults`; `FailuresAreAlwaysFiled`, `CallsAreAlwaysServed`; `CredentialsAlwaysLapse`, `StaleIntentsAreAlwaysKnown`, `AnnouncedIsAlwaysStored`, `FeedIsAlwaysComplete` | `ProbeRules`, `RetripNeedsNewFault` (`CircuitBreaker`); `FailuresAreFiled`, `CallsAreServed` (`Rollout`); `CredentialsLapse`, `StaleIntentsAreKnown`, `FeedIsComplete` (`Sessions`) |
| `RepliesProofs` | `LedgerIsAlwaysTrue`, `RepliesAreAlwaysTrue`, `DraftsStayChains` | the invariants of `OutboxRuns` |
| `StoreProofs` | `CasesAreAlwaysFound`, `SupergroupsAreAlwaysTraced`; `AuditIsAlwaysWhole`, `ResolvedAlwaysFitsRows`, `SeedIsAlwaysSound` | the invariants of `CaseStoreRuns`; all of `GovernanceRuns` |
| `CaseAgentProofs` | `OneRunAlways`, `TraceIsAlwaysTrue`, `NotesAreAlwaysKept` | all of `CaseAgentRuns` |
| `LlmRoutingProofs` | `SpendIsAlwaysBounded`, `RunsAlwaysKeepApart`, `ModelAlwaysStaysInBounds` | all of `LlmRuns` |
| `DocumentsProofs` | `StoreImplementsErasure`, `BytesAreAlwaysAccounted`, `LinksAlwaysLast`, `CachesAlwaysFit` | all of `DocumentRuns` |

**`ExceptionLifecycleProofs`**, from `LifecycleAssumption`. The invariants are not
inductive alone. Rejecting a cosign restores the state the override was staged from, so
the invariant has to remember what that state can be; `RowOK` adds for a parked record
that its pending action is one four eyes gates, that it came from a state the
override handlers accept, and that if this was `RESOLVED` then `final_status` still
says `COMPLETE`. `IInv` is `TypeOK` and `RowOK` of every created record. `CaseInv` adds
the case: `AggregateType` shows the roll-up's `CHOOSE` has a value, and a handler that
rolls up re-establishes the case's clauses from the children, while one that does not
leaves a child that exempts them. `AuditTrailAlwaysConnected` is an action property: the
rows of one step are compared, under `~LiveRecords` (the database's store). With live
records `_persist_erp_submit` breaks it, see section 5.

The second half of the module is about the database those records are kept in.
`DatabaseIsAlwaysWhole` holds from `MigrationsAssumption`, for any replicas, older rows,
crashes and audit events; the 22 scripts are those of the code. The lemmas about them
(`V001Fits`, `V002Fits`, ...) say which version makes each table, column and trigger
(`MadeIn`), and that a script ends with its version's record and a commit. The only object a
later script takes away for good is `order_case.source` (`Gone`). The two backends need
different invariants, and the audit events one more:

- `SqliteInv`: whatever statement a boot has passed has achieved what it is for, in what the
  process sees (`PassedFit`; a trigger may be between its drop and its creation, `Pending`).
  No transaction is open where a script begins (`SqliteFits`), so that a crash loses no
  statement of an earlier script. Cases with the column of V014 but no value in it exist only
  while a process is between its two statements (`Midway`) or after it died there (`torn`).
- `PostgresInv`: what a boot sees, its own transaction or what is committed, holds the whole
  of each version it has recorded (`Filled`), whatever point the boot has reached
  (`Booting`). One boot at a time has a transaction open, which is why what is committed
  cannot change under it. V011's COMMIT leaves its rows without its record, which `Booting`
  says of the boot about to insert it, and `Filled` of a later boot that runs the file again.
- `TrailFits` is the third part: what an appended event will be linked to was the newest of
  some beginning of the trail, and is the newest of all of it unless another replica is
  appending too. `AuditIsChained` follows; it does not say that the chain verifies, which over
  PostgreSQL it does not (see `Governance`).

**`PipelineProofs`**, from the assumptions of `Recipes` and `Pipeline`. `RunInv` ties
each field of the state to the node the run has reached (before the shadow there is no
verdict, past a gate there is no `final_status` unless a later node set it), so that a
gate's guarantee is still known where an outcome is produced. `SevereIsAlwaysRed` compares
the shadow's rules and the recipes threshold by threshold. `WorkflowInv` adds the runner:
the effects that took place are those of the completed steps, so the compensation log of a
stopped workflow is complete and in reverse order.

**`ServiceProofs`**. `ProbeProtocol` needs `CallDeadline < Cooldown`, and
`ProbeRules` is inductive: when a cooldown ends, an outstanding call would be at least as
old as the trip (`OpenAdmitsNobody`), thus older than its deadline allows, so nobody is out
when the probe is admitted. `NoTripOnOldFaults` needs `Window + CallDeadline < Cooldown`.
Its `FaultInv` says that what an open breaker's window holds is at most `CallDeadline`
younger than the trip, so that the window is empty when the probe is admitted. That an
empty window does not trip is a fact about `SumFunction`, which the community modules
define by recursion: `SumOfNaturals` proves it by a least counterexample (`Least`), where
a scheme of induction would need an operator as parameter.

`Rollout` comes into the same module as the instance `R`, with constants and variables of its
own. `FailuresAreAlwaysFiled` and `CallsAreAlwaysServed` assume `RolloutAssumption`: the runs
of a setting are disjoint, so that a call stands for one request. `RolloutInv` says of each
call how far its two ends can be apart (`LifeFits`: a worker executes only what its caller
waits for or has given up), how many letters of each kind it has at every step (`LettersFit`,
a count over the queue, which is why a second letter or one of another call would break it),
and that its route was decided by the level it found, not by a later one (`RouteFits`, from
which `RolloutIsMonotone` follows). `HealthyIsServed` rests on `TimeFits`. While no more
callers have waited at once than there are workers and no call has kept a worker for its whole
limit (`Quiet`), a call in the queue has age 0, and one that a worker has is as old as its
worker's time with it (`Prompt`). For time to pass, the queue must be empty or every worker
taken; in the second case a queued caller and those of the held workers would be more than
there are workers, unless some caller has given up, which `Prompt` excludes. So a caller gives
up only at the whole limit with a worker, which some call then outlasted.

`Sessions` is the instance `Web`. `KeyIsRecent` rests on `KeyFits`: a cached key set was fetched
while the key it names was current, so it expires at most `KeyTtl` after that key's end.
`StaleIntentsAreKnown` needs `HandlerFits`: from the moment a handler stores its record until
it ends, the entry it dropped before is still empty, since its process answers nobody
meanwhile.

`FeedIsComplete` rests on `StreamInv`, which follows each client through its connections.
`Covered` says where an event of its tenant can be that it neither got nor lost: kept or about
to be kept while it is down; in its queue once it is connected; without Redis, in the list after
what the last ping saw. `Ahead` is why asking from the time of the last event finds the rest:
what is in the channel and was not received is no earlier than anything received, or in the
queue before it. That needs the log in the order of its times (`InOrder`, kept because entries
carry the time they are added) and a queue that is sent in order. With Redis `Pending` and
`DroppedIs` account for an event between its publication and its addition. The channel, the
replay and what is trimmed are subsequences of one log; the lemmas on `Those` (what it holds, of an
append, of a subsequence of a subsequence, that it keeps the order) are proved by a least
counterexample over its table of prefixes. A first attempt showed that the property was kept
only by the bounds of its run: a connection that ended with an event older than the window still
to send lost it, and no client came back that late. The model's `Dropped` now names this
occasion and the run reaches it.

**`RepliesProofs`**, from `OutboxAssumption` and `RepliesAssumption`. `LedgerInv` says what
the snapshot of a process in the middle of a pass still tells about the ledger (an entry it
holds is there, pending or settled by another), and bounds a gateway's applications of an
effect by the attempts spent on it and the calls under way. `DeskInv` says for each request
what the record showed it and what it has delivered so far; `SentWasDelivered` needs it
because the write comes from the snapshot. `SentOncePerLife` follows from `Serves`: a send
whose preview went through found its delivery key absent from its process's ledger, and
nothing else of the process runs until it writes.

**`StoreProofs`**, from `CaseStoreAssumption`. Others write between an activity's
steps, so `TasksFit` says which part of its snapshot stays true: a case once opened keeps
its customer PO (`Placed`), a supergroup once read is in the case's history (`Traced`), what
`Check` found open is open unless the case is in `overtaken` (`Guarded`), a merge's plan
names contested POs only (`Planned`). `StoreFits` adds that a live case's PO has a key or is
contested (`PosRegistered`): this is why a second case of one PO needs a race.

`Governance` comes into the same module as the instance `G`, from `GovernanceAssumption` and,
where weights are merged, `PlatformAssumption` (`defaults.json` meets the contract, which
`tests/test_duplicate_po_weights.py` asserts). `GovInv` has three parts an auditor's promise
rests on. `ChangesFit`: a change's number is held by one job alone, and says how far the
change is. `LayersFit`: on a layer that is not `muddled` one job at most is at work, what it
read is still there, and the log up to now leaves what is stored, so that the row it adds
starts where the last one ended. `ChainsFit` has two halves. `ForestFits`: whatever overlaps,
every row hashes onto an earlier one of its tenant or onto none, from what it holds, as text;
this gives the recomputation on SQLite and its failure on PostgreSQL. `OrderFits`, if no clock
is skewed: a job that took its time, and that no other overlapped, is alone in its tenant,
later than every row, and linked to the latest, so that a fork stays with the rows that made
it. On SQLite nothing overlaps. `SeedInv` follows the steward's three files. `ResolveInv` adds
that what a resolution has read is still stored unless a write tore it. The merge is a fold
over the layers; `MergedIs` brings it into a closed form (of each key the weight of the last
layer that has it), again by a least counterexample, over the sets the fold takes apart.

**`CaseAgentProofs`**. `LockFits`: whoever is inside holds the lock, unless some run outlived
its lease. `RunsFit` relates what a run has traced, its turns and its end to the log;
`NotesFit` the summary to the log.

**`LlmRoutingProofs`**. The bound of `SpendIsBounded` is not inductive, since a run that
read the budget charges later. `SpendFits` counts for each budget counter what is consumed
together with the calls under way; that a process makes one call at a time bounds them
by the users of the counter, by cardinalities. `SlotsAreEmpty` says that no trace slot
outlives its run.

**`DocumentsProofs`**. `DocsInv` accounts for bytes, rows and sweeps: bytes whose erasure is
proved are gone, stranded or in a sweep that is about to delete them (`SweepFits`), and two
sweeps never hold the same plan entry unless they are `overlapped` (`SweepsApart`). From it
every step of `Documents` maps to a step of `Erasure` or a stutter
(`StoreImplementsErasure`). Links and caches have invariants of their own (`KeysInv`,
`CachesInv`).

**Only model-checked**, and why:

- Liveness (`Recovers`, `FailuresAreDrained`, `OrphansAreAdopted`, `BootsComplete`,
  `CallsAreAnswered`): fairness and `ENABLED` are beyond the prover.

Every other property the runs check is stated by a theorem above.

## 5. Differences from the documents

Met while modelling; the models behave like the code. For the first group the
modules define what the document says as a property, which no run checks because
TLC finds it violated.

- `RejectedSubmitStaysInReview`: a cosigned submit the recipe rejects loses its pending
  override and stays in `PENDING_COSIGN`, where no endpoint accepts it
  (`api/routes/exceptions.py:855`, against line 837: "a REJECTED submit stays in review for
  correction").
- `ClosedIsNotReanalyzed`: a record a human resolved keeps its YELLOW verdict and can be
  reanalysed (`exceptions.py:2126`, against line 2091: "already-closed exceptions").
- `NoFalseResolution`: a submit resolves the record although the ERP call of the same
  run failed (`exceptions.py:845`, against line 836: "no false resolution").
- `SevereDelayIsNotCompleted`: the shadow judges metadata `days_late`, the recipe the two
  dates; when they disagree a severe delay is audited GREEN and its `ESCALATE`
  completes (`constraints/fallback_backend.py:395`, against
  `knowledge/skills/delivery-delay/SKILL.md:43`).
- `FailuresAreDrained` without `~durable`: the scheduler names no tenant, and the durable
  ledger answers that with no entries (`orchestration/outbox.py:159`, against
  `outbox_scheduler.py:5`: "drains the effect-outbox compensation queue").
- `ExplainMakesNoCall`: an explain run makes live model calls, against
  `constraints/router.py`.
- `IntentsAreCurrent`: the intents cache is not dropped when an arrival closes the case, nor
  by another process's events (`api/case_intents_cache.py:83`).
- `TripsInIsolation`: calls that wait behind another gateway's calls time out and trip
  the healthy gateway's breaker (`gateways/circuit_breaker.py:8`). Where the pool is crowded
  those need not be slow: a limit of 3 s ends in the queue behind calls well within their 8
  (`contracts/policy.py:398`, against `gateways/executor.py:94`: "so a slow upstream can't burn
  the whole request budget").

Records and cases:

- `docs/STATUS_MODEL.md:139` says every endpoint triggers the roll-up. Staging a
  cosign and submitting to the ERP do not; `CaseStatusTracksChildren` exempts both.
- `list_by_case` (`api/store.py:702`) filters the tenant's newest 500 rows, not the
  case's children: `PageLimit` below the number of records breaks the roll-up.
- `set_pending_override` reopens a terminal case and keeps `closed_at`, against
  `api/case_resolver.py:365`; hence `CloseStampMatchesStatus` is about cases nobody overrode.
- `_persist_erp_submit` reads `previous_value` after the update; the in-memory
  store returns the live object, so the audit row says RESOLVED to RESOLVED
  (`LiveRecords`).
- A rejected cosigned submit writes its cosign entry next to the `resolved_by` of an
  earlier override, so one user can appear as both (`docs/AUDITOR_GUIDE.md:870`).
- Merging duplicate cases deletes the duplicate's keys without moving them, moves
  children without inheriting or rolling up, and aborts, after the children have
  moved, on a case with a classification history (`agents/backfill.py`). `register` can
  take another case's key (`db/repository.py`).

Pipeline, workflows and effects:

- `docs/STATUS_MODEL.md:169` says the pipeline never emits `REJECTED`. With an LLM shadow a
  credit or price hold judged GREEN passes the recipe's `REJECTED` on.
- An effect without a status predicate fires after a recipe that raised, and its failure
  replaces the error by "Recipe completed but side effect requires manual follow-up"
  (`orchestration/nodes.py:1473`); it also fires, without a template, for the duplicate-order
  actions said to notify nobody (`recipes/DuplicatePORecipe.py:85`), and sends the buyer
  inquiry before the human review of `docs/specs/duplicate-po-product-spec.md:180`.
- `orchestration/graph.py:349` sends a run without a recipe to `FAIL_TO_HUMAN`; it goes on to
  the shadow, which blocks it.
- `docs/AUDITOR_GUIDE.md:357` says explain mode skips `resolve_dependencies`; the two graphs
  share the node.
- A fulfilled identical order at the auto-block score is recommended `ALLOW_BOTH` and ends
  `BLOCKED` (`tasks.md:330`). `contracts/policy.py:161` says at or above; shadow and recipe
  both use `>`.
- `orchestration/outbox.py:267` calls a retry safe; a timed-out call may still complete next
  to its retry. `outbox.py:10` says a committed effect is never lost; the row is written after
  the call, and a crash between loses it.
- The workflow route passes one event object to all steps (a comment says clones), so an
  `input_mapping` leaks into later steps; a step's declared intent is not read; `_compensate`
  lists and invokes nothing; a step that stops after its own effect fired is not listed.
- A reply is "delivered AT MOST ONCE, even across two distinct SEND_REPLY requests"
  (`exceptions.py:711`). A restart, another replica and an outbox retry repeat it, and so can
  one process: a send asks the ledger only about what its preview composed (lines 1159-1161:
  "the extra compose is pure + deterministic"), and the send itself is another run of the
  graph (line 1181), so that a halted preview followed by a run that is not halted delivers
  again (`blind`). A send whose run raises after the effect leaves no entry in the ledger.
  What is sent is the request's text, not the reviewed draft's; a send that fails overwrites
  an earlier SENT.
- Requests of recipes to a gateway carry neither case nor tenant, so the routers serve them
  from the stub at every level, and their dead letters have tenant `unknown` (against
  `gateways/msgraph_intake.py`). A failed live write is reported SUCCESS with the stub's data.
  `orchestration/nodes.py:1479` says no recipe declares an OMS write; the price hold does, for
  an operation the live connector does not have.

LLMs, agent and sessions:

- Backends are built once per process, so providers do not switch "at runtime"
  (`constraints/router.py:33`). L2 calls and refused replies are not charged; only Claude has
  a price (`contracts/policy.py:513`).
- The agent's database log reads back empty (`list_for_case`), so compaction rewrites the
  summary without the notes; `event_id` can collide. Its cost estimate is never charged;
  releasing the lease deletes whoever's row it is.
- A live event goes out before it is in the replay buffer, and a socket reads the buffer
  before it subscribes; what a connection had not sent when it ended is missed if the window
  has passed it, though the client was there; revocations live in one process. Entra tokens
  are not accepted by the web socket.

Documents, configuration, migrations:

- Overlapping sweeps both count and prove one erasure (`api/retention_sweeper.py:162`). A
  failed deletion leaves bytes whose `ATTACHMENT_ERASED` row exists. The object store's index
  dies with its process. The extraction cache keeps values past the erasure of their document.
- Over PostgreSQL the audit chain never verifies: JSONB and TIMESTAMPTZ columns
  (`db/migrations/V001__initial_schema.sql:80`) do not read back as the strings that were
  hashed (`db/repository.py:857-869`), so `verify_audit_chain` (943-955) reports the first row
  it recomputes. Besides, replicas fork the chain, since nothing locks between reading the
  newest hash and the insert. Against `db/repository.py:16` and 820, `README.md:568` and
  `docs/AUDITOR_GUIDE.md:500`. The audit row of a configuration change is a transaction of its
  own. `api/routes/config.py:366` calls empty weights the canonical "removed" marker, but
  `upsert_layer` accepts and logs them too (line 83), so the log does not tell a row without
  keys from a removed one. Overrides of `routes/policies.py` live in memory and leave no row.
- A steward's command that fails after `os.replace` leaves the seed changed
  (`scripts/steward_change.py:72`: "untouched").
- SQLite: a boot that dies inside V014 leaves `updated_at` NULL for good. PostgreSQL: the
  trigger of V001 refuses the backfill of V003 when audit rows exist
  (`V003__audit_hash_chain.sql:16`).

## 6. Not modelled, and why

- Hazards of the code that no property covers, because nothing in the code
  prevents them: a crash between a gateway call and its ledger row
  (`orchestration/nodes.py:1446`), the lost update of two replicas on one row
  (`api/store.py:799`; `Replies` has it for replies), materiality computed before the
  corrections (`api/routes/exceptions.py:1217`), a second submit of a challenged
  record (line 1196), columns a reanalysis keeps (line 2180).
- The handlers of two replicas interleaved within one request are modelled where
  their effect leaves the process (`Replies`, `CaseStore`, `Documents`, `Governance`); the
  disposition and cosign handlers are atomic.
- Case summaries (`api/case_summary*.py`): the verdict gates read keys of `resolution_data`
  that no recipe stores, so that most rules are unreachable; the rest is a projection.
- Branches no property depends on: the roll-up's `NeedsTriageCloseBlocked` in
  `ExceptionLifecycle` (`api/store.py:1230`, 1669; `CaseStore` has it), `ASOE_EXPLAIN_MODE` and
  `ASOE_SHADOW_LLM_DISABLED` in `LlmRouting` (`constraints/router.py:187`,
  `orchestration/nodes.py:452`), and prices other than Anthropic's. `Sessions` has refresh tokens
  with a `jti` only: those minted before it existed skip the revocation check
  (`api/routes/auth.py:240`) until they expire, so `ExchangedOnce` is not about them.
- Composers, adapters, schemas and read endpoints are projections without state.
  Option rankings, texts, explanations, traces and presentation are data no property is
  about. OCR, parsing, cryptography and provider clients are I/O.
- Metrics, evaluation and one-off scripts: nothing else depends on their state.
- Sandbox: stubs that answer; the gateways' answers are choices in the models.

## 7. Plan

Done: `PipelineProofs`; `CaseFollowsChildren` and `AuditTrailConnected`; the outbox and the
replies; the refinement of `Erasure`; the spending bound; the case store; the agent; the
rollout; governance; credentials, intents and the feed; the migrations.

Left: two replicas inside a disposition, with the read, the graph and the write of
`ExceptionLifecycle` apart.
