# TLA+ models of bigqmt_autotrader

This directory holds TLA+ models of `bigqmt_autotrader`: the durable execution
core, the command and event paths between the host and the broker terminal, the
daily archive, the runtime control above them and the risk engine. TLC
configurations check them on small instances; TLAPS proofs establish nearly all of
their safety properties for every value of the constants. The models
are translated from the Python source; `PROJECT.json` maps every definition to
the lines it models.

## 1. The system and its parts

`bigqmt_autotrader` places orders through a broker terminal (Big QMT). A host
process keeps everything durable in SQLite; a thin bridge inside the terminal
executes commands and reports events through files. The rule the whole design
serves is: *a broker call whose outcome is not known is never repeated and never
guessed away*.

| Part (source) | State | Operations | What makes it correct |
|---|---|---|---|
| Order lifecycle (`domain/state_machine.py`, `states.py`) | none | `transition` | closed orders stay closed; late observations do not move an order back |
| Repository (`oms/repository.py`) | `order_intents`, `broker_orders`, `risk_decisions`, ... | `create_intent`, `prepare_submit`, `prepare_cancel`, `transition_order`, `merge_broker_fact_in_tx`, ... | a call is reserved once; fill and status agree |
| Evidence journal (`oms/evidence.py`, `broker_evidence_v1.py`) | evidence keys and observations | `ingest` | same result in any order; conflicts are kept and hold |
| Leader lease (`oms/leader.py`) | the `oms_leader` row | `acquire`, `heartbeat`, `assert_held`, `release` | one writer at a time; a superseded writer is fenced |
| Execution core (`oms/service.py`, `core/facade.py`) | `_reconciled`, the operation in progress | `recover`, `submit_*`, `cancel_order`, `close` | at most one call per order and kind; nothing ambiguous behind a reconciled session |
| Dispatcher (`qmt/guojin_sim_oms.py`, `durable_identity.py`) | `qmt_execution_dispatches`, durable identities | `execute_intent`, `cancel_intent`, `recover_dispatches`, `refresh_identities` | a frame leaves the host only after its reservation; no history is misread |
| Command spool and results (`qmt/commands.py`, `command_results.py`, `oms_bridge.py`) | command files, `qmt_command_results` | `publish`, `locate`, `ingest` | one result per command, accepted by every list |
| Bridge (`qmt_side/*V05*.py`) | claimed files, session counters, event queue | claim, execute, settle, report, recover orphans; snapshot, callbacks, flush | a claim is not executed again; results tell the truth; the quota holds |
| Event spool, ingress, mapper, host (`qmt/spool.py`, `receiver.py`, `ingestion.py`, `read_model.py`, `guojin_evidence.py`, `host.py`, `instances.py`) | sequence numbers, read model, trades | `poll_once`, `ingest`, replay, rollover | no event lost; a healthy view is complete; fills are confirmed |
| Daily archive (`qmt/archive.py`) | archive, manifest, checkpoint, sources | `archive_day`, recovery | sources go only when the archive is committed |
| Operations (`operations/*`, `service/supervisor.py`, `lifecycle.py`, `bootstrap.py`) | mode, audit, health, alerts | `request_mode`, `halt`, `tick`, `shutdown`, `sync_*` | the audit tells the mode; unready means halted; alerts are current |
| Risk (`risk/*`, `service/coordinator.py`, `risk_runtime.py`, `risk_oms.py`) | daily ledger, the snapshot a caller holds | `evaluate_risk`, `record_*`, `build`, `submit_intent` | accepted orders stay within the caps; a halt takes effect |
| Strategy and market data (`strategy_api/*`, `market_data/*`) | newest heartbeat and quote | ingest, require fresh | newest wins, stale is refused |

Interactions. The execution core and the dispatcher own the repository on one
SQLite connection and one thread each; every transaction starts with
`assert_held` inside `BEGIN IMMEDIATE`. Several processes may work on one
database, and only the lease row keeps them apart. Host and bridge are two
processes that share nothing but files: commands go one way through `inbox`,
`claimed`, `processed`, `rejected` and `unknown`, events come back through a spool
with per-session sequence numbers. Broker facts reach the orders only as
evidence, by query and by callback; a command result never sets a broker status.

Hard behaviour, listed line by line under `hazards` in `PROJECT.json`: crashes
between a reservation, its call and its record; leases that run out between two
statements; clock readings and snapshots that are old when used; renames that
race a directory scan; events dropped, repeated, reordered or split over a
restart; errors inside error handling; retries of what was already done.

## 2. Modules

```
OrderLifecycle            pure rules of one order row and one piece of evidence
   |-- EvidenceJournal    ingest() over any evidence       -- EvidenceJournalProofs
   |-- OmsCore            sessions, lease, driver, broker  -- OmsCoreProofs, OmsRecoveryProofs
   |-- CommandResults     what the host accepts as a result
   |     |-- BridgeCommands    the bridge's command half
   |           |-- CommandPath composed with dispatcher, spool and journal
   |                                                       -- CommandPathProofs
   |-- EventPath          the bridge's event half, spool, host, mapper, archive
   |                                                       -- EventPathProofs
WriterLease               abstract lease
   ^-- LeaseCoordinator   the oms_leader row and the clock -- LeaseCoordinatorProofs
   ^-- OmsCore            (INSTANCE: both implement it)
RiskEngine                pure risk rules, ledger, snapshot
   |-- RuntimeOperations  mode, health, alerts, supervisor, decisions
   |                                                       -- RuntimeProofs
OrderLifecycleProofs      facts about the row operators, cited by the other proofs
MC*.tla                   evidence sets, deployments and symmetry for TLC
```

**OrderLifecycle.** `Allowed`, `Stale`, `Moves` and `Legal` are `_ALLOWED`,
`_STALE` and `transition`. `MergeOutcome` gives the exception `_transition_in_tx`
raises for a broker fact, in the code's order; `MergedRow` is its UPDATE.
`IngestResult` is the branch `ingest()` takes, `IngestRows` and `IngestKeys` what
it leaves in the tables. Timestamps, digests and the `order_events` audit rows are
left out: no decision reads them.

**EvidenceJournal.** One action, `Ingest(e)`, because `ingest()` is one
transaction. `rows`, `keys` and `journal` are the three tables; `offered` is
history. Orders start in a state after the submit reservation.

**WriterLease / LeaseCoordinator.** The abstract lease has an owner and is free,
live or expired; it changes hands only when free or expired, and only the session
the row names gives it back or renews it. `claims` are the sessions that have a
`LeaderLease` object, valid or not: a superseded one may close at any time
(`Forget`) and leaves the row alone. In
`LeaseCoordinator` reading the clock (`ReadClock`) and the transaction that uses
the reading are two steps, because `now` is evaluated before `BEGIN IMMEDIATE` is
granted; a guarded write reads the clock inside its transaction.

**OmsCore.** `pc[s]` is the program counter of a session's single thread. One
transaction, one driver call or one lease check outside a transaction is one
step. Submit runs `CreateIntent`, `RecordRiskDecision`, `PrepareSubmit`,
`AssertBeforeCall`, `CallDriver`, `PersistUnknown`, `BeginReconciling`, `Query`,
`ApplyAnswer`; cancel shares the steps from `AssertBeforeCall` on and ends with
`ResolveCancel`; recover runs `StartRecovery`, then `Visit` and the branches of
the loop body for each candidate, then `FinishRecovery`. `Fenced` is every
`OmsLeaderLost`. An internal error ends the operation and is remembered in
`faults`. The broker is external: it never contradicts itself, but a call may
reach it or not whatever the driver returned, a query may answer any fact
published so far or nothing, and every published fact may be delivered as a
callback at any time, any number of times.

**CommandResults.** The three lists of statuses and side effects a result has to
pass (`ProtocolAccepts`, `JournalAccepts`, `SinkAccepts`) and `ReconciledRow`, the
only thing a result does to an order.

**BridgeCommands.** A command is `<<order, kind>>`; `files[c]` is the set of
directories its file is in. `Claim`, `Process`, `Settle`, `Report` and `Flush` are
the steps between two file operations; `SettleFails`, `FrameRefused`,
`RecoverOrphan` and `OrphansDone` are the error paths. The three generated
artifacts differ only in the executor, so `Outcomes` selects `ShadowOutcomes`,
`SimulationOutcomes` or `CanaryOutcomes` by `env.mode`. `calls` and `crossings` are
history. A scenario (`env`) fixes the mode, the quotas, the commands and the
faults of a behaviour, so that one run covers several deployments.

**CommandPath.** A host is `GuojinSimOmsRuntime`: `HostStart` is its constructor,
`CreateIntent`, `Authorize`, `ReserveSubmit` are `execute_intent`, `ReserveCancel`
is `cancel_intent`, then `LookAt` (one `exists()` of `locate()`), `NotFound`,
`PublishCheck`, `PublishRename`, `RecordState` and `BeginReconciliation` are
`_recover_dispatch`. `Imported` is `refresh_identities` with
`register_qmt_durable_submit`. Results come in through `IngestCommandResult` and
`ObserveResult`, broker facts through `IngestEvidence`. `ProbePublish` are the three
probe programs, which send commands without the OMS.

**EventPath.** Bridge: `Load`, `Bind`, `ReadSnapshot`, the callbacks, `RuntimeError`,
`Flush`. Each query of a snapshot may raise, which `query_errors` counts, or return no
rows, which it does not (`V05:643`). Every event has the next number, waits in a queue that drops its oldest
entry at the limit, and becomes a file. Host: `HostStart` (`load_instance`),
`Replay`, `Poll`, `Feed` (one piece of evidence per step), `Move`, `SetAside`,
`RolloverExit`. `Take` is what ingress and `on_event` do with one event, including
the handler that raises after the event was counted (`RaiseEarly`). Archive:
`WriteArchive`, `CommitArchive`, `DeleteSource`, `RecoverDay`. One order with deals of
one unit each; the mapper's `_trades` is `trades`. Directories, the files left to
replay or delete and the rows left to ingest are sets, and the next one is the `Oldest`,
which is the order in which the code sorts file names and rows. `basis` (the clean
snapshot the view rests on), `settled` and `persisted` are history.

**RiskEngine.** Each rule of `evaluate_risk` is a `Rule` record in the order of
the code; `EvaluateRisk` takes the first broken one. `Snapshot` is
`RuntimeRiskAssembler.build`, which adds the open external buys to the exposures.

**RuntimeOperations.** One process at a time with its memory, and three tables
(audit, alert journal, ledger). `SupervisorTick` is the whole cycle: health, mode and
ambiguity go to telemetry, then the halt and its report; a journal conflict raises
and what follows is skipped. `EvaluateIntent` holds a snapshot that `SubmitIntent`
evaluates again later. Repeated mode requests change nothing or raise, so they
are the guard of `Enter`. The clock is the machine's wall clock: `Wait` moves it on,
and `SetBack` sets it back to an instant in `plan.back`, so that facts can be late for
the journal, the health registry and the caches. `armed` is history: the latest
instant the clock showed in SIMULATION.

## 3. Runs

| Run | Instance | Shows |
|---|---|---|
| `EvidenceJournal` | 2 orders, 2 broker ids, quantity 2, any 3 of the evidence in `AnyEvidence`, repeated at will (583,164 states) | `TypeOK`, `FillConsistent`, `ConflictHolds`, `Converges`, `FactsNeverRegress` |
| `EvidenceContradiction` | the same | violates `ContradictionFailsClosed` (finding 1) |
| `LeaseCoordinator` | 3 clients, term 2, clock to 5, 4 acquisitions (193,309 states) | `WritesInAcquisitionOrder`, `NoEarlyTakeover`, `ImplementsWriterLease` |
| `OmsCore` | 1 order of quantity 2, 2 sessions, 1 recovery each, 4 facts | `TypeOK`, `NoInternalFault`, `BrokerTruth`, `LifecycleMonotone`, `RecoveryResolves`, `ImplementsWriterLease`, `RecoveryCompletes` |
| `OmsTwoOrders` | 2 orders, 2 sessions, 2 recoveries each, 1 fact | `SnapshotCurrent`, `AtMostOneBrokerCall`, `ReservedBeforeCall`, `NoExposureBeforeReconciliation` |
| `OmsEvidenceIdReuse` | 2 recoveries, quantity 1 | violates `RecoveryResolves` (finding 2) |
| `CommandPath` | 5 deployments: the OMS submits with every fault, the OMS cancels, a probe submits and the OMS takes over, live canary with quota 1, shadow (1,704,128 states) | `PathTypeOK`, `AtMostOneCall`, `SideEffectReported`, `OneResultPerCommand`, `ResultsAccepted`, `SessionFuse`, `CallsAreReserved`, `HistoryComplete`, `InboxDrains` |
| `EventPath` | 7 plans: failing disk and short queue, archiving over two days, account switch, OMS feed with failing handlers, complete fill, terminal restart, queries that return no rows (1,098,104 states) | `EventsTypeOK`, `NothingLost`, `HealthyViewComplete`, `SnapshotConfirmsFills`, `EventsDelivered` |
| `HostRestartReplay` | OMS feed, one host death | violates `ReplayIdempotent` (finding 3) |
| `HostRollover` | terminal restart under an OMS host | violates `RolloverRecovers` (finding 4) |
| `Runtime` | 11 plans, three of them with a clock that is set back, and 1152 combinations of a book and an intent (688,509 states) | `RuntimeTypeOK`, `AuditTellsMode`, `AlertsCurrent`, `AcceptedIsHarmless`, `HaltTakesEffect`, `TickHalts`, `NewestWins` |
| `SupervisorAutoHalt` | supervised simulation | violates `AutoHaltReported` (finding 5) |

Bounds. Quantity 2 has the three fills that differ: none, part, all; `EventPath`
uses 3 so that two deals are still partial. Three pieces of evidence are enough
for apply, contradict, retry. Two sessions give crash and takeover at every point;
`LeaseCoordinator` has three clients because a stale client, a holder and a taker
can then meet. Four facts are the longest history of one order. In `CommandPath` one
order goes through two terminal sessions with any number of host deaths, which
puts a crash of either process between any two steps of a command; the second
order is there for the quota. In `EventPath` each plan turns on the faults of one
hazard, because all of them together only multiply; five events are enough for a
gap, its snapshot and what follows, a queue of two overflows with the third. In
`Runtime` a clock of four instants lets every age limit (1 and 2) run out. The clock is
set back where it matters: in `Ambiguous` (alerts appear, go and come back across
restarts), in `Corrected` (health observations and supervisor cycles) and in `HoldingOn`
(quotes, heartbeats and a held snapshot). The
plan names its bounds; `MaxRecoveries`, `MaxFacts`, `MaxOffers`, `MaxTime`, `MaxTokens`
and `MaxDay` only bound the search. Sessions, clients and request ids are symmetric;
runs with liveness properties use no symmetry. Deadlock is not checked where the
system may stop: when every session is closed, the clock has reached its bound, or
nothing is left to publish. The evidence runs do check it.

Fairness. `OmsCore!FairSpec`: weak fairness of a session's own steps, because its
thread runs, and of the first `recover()`, because callers of `ExecutionCore` must
call it before anything else; `RecoveryCompletes` assumes a session that keeps its
lease from some point on and a driver whose queries do not raise. `PathSpec`: weak
fairness of the bridge's steps, because the terminal calls `command_tick` every
second; the host is never forced. `InboxDrains` excepts a terminal that keeps being
stopped. `EventSpec`: weak fairness of the host's steps, because `main()` is a loop
without blocking calls and is started again after it exits; the bridge and the
broker are never forced.

What the properties say beyond their comments: `HealthyViewComplete` is an invariant
about the two processes together (the bridge suppresses account rows it believes
were delivered), and excepts what the code does not promise: a snapshot with query errors, an
event whose handler raised, and what a query of the snapshot that came back without
rows should have shown, which is the account row until an account event brings one
and the deals reported before the snapshot (section 5). `AlertsCurrent` says of a row
that no ACTIVE event of its key is newer; a newer RESOLVED event can exist, from before
the row did (section 5). `NewestWins` says that from then on the row only goes forward,
and the same of the observations, quotes and heartbeats in memory. `HaltTakesEffect`
measures how long after the latest instant the clock showed in SIMULATION an order can still be
authorised from a held snapshot. `AcceptedIsHarmless` is the reference definition of
the risk caps, stated over every partial execution instead of the engine's
projection. `SessionFuse` is about the live canary; the simulation counts only calls
that returned, and its executor does not promise more.

## 4. Proofs

TLAPS checks every step of the proof modules. Each theorem holds for every value of the
constants that meets the named assumptions: any number of orders, sessions, hosts,
commands, events and days, any quantity.

* `OrderLifecycleProofs`: what the transition, review and merge operators do to a row:
  types, flags never taken back, status and fill, which the other modules cite.
* `EvidenceJournalProofs`: `JournalInv` is the conjunction of types, fill
  consistency of every row, `ConflictHolds`, "one key per event id", "a
  conflict on record has its key" and "what is journaled was offered". The key
  facts are needed because a reused id speaks of a key and a later piece of
  evidence: only uniqueness says which order the id first named. Lemmas about
  `MergedRow` and `ReviewRow` carry the row-level facts; the regression theorem
  follows from the same lemmas. Assumption: only facts that pass
  `BrokerEvidenceV1` validation are offered (`EvidenceAssumption`).
  `Converges` speaks of a history with its terminal fact and is not inductive.
  `Summarised` extends it to every prefix: as long as the facts of an order agree
  (`Agreeing` is closed under taking facts away), the row is their `Summary`, and so
  the next fact that fits raises nothing. The theorem assumes that no order starts in
  `MANUAL_REVIEW`, which is final.
* `LeaseCoordinatorProofs`: `LeaseInv` says that no clock reading is later than the
  clock, no token is later than the counter, no write was made under a token newer
  than the row's, a lease object names its own client, and the term is bounded. From this
  follow fencing order, late takeover, bounded terms, own release and the refinement of
  `WriterLease`, in which a release is a `Drop` of the client the row names or a `Forget`.
* `OmsCoreProofs`: `OmsInv` is the types, with what each program point says of the
  order in hand, and `Reservations`: a session between its reservation and its
  call works on an order whose flag is set and that has not been called yet, and
  no two sessions are in that position for the same order and kind. The last part
  is what survives a takeover: the lease may be lost in between, the flag may not.
  From it follow `AtMostOneBrokerCall` and `ReservedBeforeCall`. The refinement of
  `WriterLease`, with the sessions that are neither off nor closed as `claims`, is proved
  action by action: `close()` and a crash of a superseded session are a `Forget`.
* `OmsRecoveryProofs`, in layers, each using the ones before. `Positions`: what a
  thread's position says of its locals. `Book` and `KeysNamed`: the broker does not
  contradict itself, and a key carries a fact it published under an id that names the
  order. `Rows`: every row is `Sound`, and `TrueAt`: it says of the order only what the
  broker reported; hence `BrokerTruth` and `LifecycleMonotone`. `Tracking`: a session
  that can still write sees the rows as they are; hence `SnapshotCurrent` and
  `NoInternalFault`. `Settling`: a reconciled session's own writes are the only reason for
  an order to be ambiguous; hence `NoExposureBeforeReconciliation`. `Clean`: what recovery
  has behind it is unambiguous; hence `RecoveryResolves`. The last one assumes one
  `recover()` per session, because finding 2 refutes it otherwise; the others do not.
* `CommandPathProofs`. Types with what each program point of a host and of the bridge says
  of its locals (`PathTypes`); `Honest`: the verdict in hand makes a result every receiver
  accepts; `Fuse`: the canary's counter never lags behind its calls. These hold without
  further assumptions. The rest is about a command that is sent once, and assumes
  `OneWriter`: where a lease may lapse under a running host there is one host, because the
  rename of `publish()` is not fenced (`commands.py:277-287`) and TLC refutes the claim for
  two. `Sender`: one host follows a command; `Spool`: its file is in one directory, the one
  the bridge's position says; `Calls`: a command that was called has left the
  inbox for good, and results and verdicts without a side effect had no call; `Reserved` and
  `Known`: a file of the OMS has its outbox row, that row its reservation, and the broker
  knows only what was called; `Sent` and `Scans`: a processed submit was called, and while a
  scan has found nothing the file is not in the directories behind it. From these follow `AtMostOneCall`, `SideEffectReported`,
  `OneResultPerCommand`, `CallsAreReserved` and `HistoryComplete`.
* `EventPathProofs`. `Bridge`: every event has a number of its own, and queue and files
  have the numbers in order. `Filed`: a file is in one directory and what the host holds is
  on disk; `Closing`: a file is deleted only after the archive that has it was committed,
  and a committed day is never written again; hence `NothingLost`. `Journal`: the durable
  fill covers every accepted key, every row of the event in hand that was ingested and
  every snapshot that went through, and is never more than the broker traded; hence
  `SnapshotConfirmsFills`. `View`: there is a history `C` of what the bridge remembered of
  the account after each of its events, such that a view that rests on a clean snapshot is the
  account as of the last event that arrived, unless that snapshot had no account row and
  none came since, and has the deals reported since that snapshot, or all if it had any; it is an existential, because neither process
  keeps that history; hence `HealthyViewComplete`. Assumptions (`EventAssumption`):
  one order, the broker does not trade more than its quantity, and the placeholder is no
  event.
* `RuntimeProofs`. `Clock` and `Held`: in SIMULATION the clock is not past `armed`, and a
  snapshot taken in SIMULATION has no fact newer than `armed`; both survive a clock that is
  set back, because `armed` is the latest such instant and not the last. An order is
  authorised only if none of the three rules on mode, heartbeat and quote is broken at the
  submit; hence `HaltTakesEffect`. `Audited`: the last row of the running session names the
  mode, and only a proven deployment runs; hence `AuditTellsMode`. `Memory` and `Rows`: the
  caches keep at most one fact, and the audit only known modes; with `Alerting`, hence
  `RuntimeTypeOK`. With at most one fact in each cache, `NewsAdvances`, the second
  part of `NewestWins`, is the comparison each cache makes, action by action.
  `Booked`: what a caller holds is a decision on a book and an intent of the plan. The rules
  an accepted decision passed bound the engine's projection, and the projection bounds every
  partial execution; that compares sums over sets of orders and symbols, whose facts
  (`TotalSplit`, `TotalMonotone`) are proved by induction over the subsets of a finite set
  (`Subsets`, from `WFMin`; a set stands for the predicate). Hence `AcceptedIsHarmless`.
  Assumptions (`IsIntent`, `IsBook`): quantity and price of an order are positive, as its
  constructor demands, exposures are not negative, and the book names the intent's symbol.
  `Alerting`: telemetry shows the active rows, and `Journal`: no two facts of one key at one
  instant, a row for every key that was ever active, and each row an event of its key than
  which no ACTIVE event is newer. Without the first, two facts could tie, and without the
  second an old ACTIVE fact could start a row behind a newer one. `Advances` relates the
  journals before and after a note; it is transitive, which carries it over the fold over a
  list of keys (`NoteEach`), by induction over the positions that are left; hence
  `AlertsCurrent` and `AlertsNeverRewound`, the first part of `NewestWins`. `Calm`: in a cycle that begins with no fact of this instant all facts of
  this instant are the cycle's own, one for a key, so none contradicts another; hence
  `TickHalts`.

Model-checked only: the liveness properties (`RecoveryCompletes`, `InboxDrains`,
`EventsDelivered`), because fairness is outside the prover's reach.

## 5. Findings

1. A terminal contradiction that also reports more than the order quantity raises
   inside the conflict handler; the transaction rolls back, the order stays as it
   was and the evidence is not recorded (`evidence.py:211`, `repository.py:366`).
2. A second `recover()` in one session reuses the event id of the first; if the
   answer is the same, it is a duplicate and the order stays `RECONCILING` behind
   a reconciled session (`service.py:160`, `evidence.py:126`).
3. The mapper's trades live in memory. A host that dies after ingesting a deal and
   before moving its file, with no clean snapshot to replay, maps the same event to
   a smaller fill; the journal sees a conflicting identity and the order goes to
   manual review (`guojin_evidence.py:315`).
4. An OMS host exits on any event of another session and leaves the file. An event
   of the previous session left in the inbox therefore ends every later host
   (`host.py:29`).
5. The supervisor cycle that halts the runtime records RESOLVED and ACTIVE for one
   alert at one instant; the journal refuses the second, so the cycle raises after
   the halt has taken effect (`supervisor.py:82`).

Remarks without a run of their own:

* A query of the selected account that returns None or no rows is no query error
  (`V05:643`; for linked account types None is one, `V05:664`). The snapshot counts as
  clean and ends the resync (`receiver.py:86`), although `docs/BRIDGE_API_V1_ZH.md:309`
  asks for a complete one; the host's view is healthy without the account row, and the
  bridge, which keeps the digest of the row it read before (`V05:680`), goes on suppressing
  the row (`V05:1300`) until it changes, its heartbeat is due or the next snapshot has it.
  With `view.cash = lastCash` alone as its first part TLC finds `HealthyViewComplete`
  violated; the property excepts the case.
* A RESOLVED fact of an alert without a row is stored without one. If the clock is then
  set back and the alert is raised, the earlier ACTIVE fact finds no row to be late for
  and becomes the current state (`alert_store.py:160`, `235`), although lines 107-108 say
  that late events never rewind it. `AlertsCurrent` therefore compares a row with ACTIVE
  events only; TLC finds it violated without that restriction.
* Fencing epochs start again at 1 after a release (`leader.py:74`); only the random
  token keeps leases apart, which is enough for `WritesInAcquisitionOrder`.
* A driver call can run after a takeover (`service.py:354`, `417`); the reservation
  keeps it a single call.
* The rename that publishes a frame is not fenced either (`commands.py:280`). Two
  hosts of one session, the first stalled past its lease between its check and its
  rename, publish a command twice, and the bridge, which only looks for a second
  claim, executes it twice: with `Host = {h1, h2}` TLC finds `AtMostOneCall` violated.
* `locate()` may see a file twice while the bridge moves it and raises; the
  operation ends and can be repeated (`LocateConflict`). It cannot miss the file,
  because it looks in the order of the moves (`HistoryComplete`).
* A handler that raises after ingress has counted the event loses the effect of that
  event until the next snapshot, although `spool.py:290-293` prefers a retry.
* A snapshot with query errors replaces a healthy view and leaves it healthy, with
  the missing part empty (`read_model.py`), although only a clean snapshot ends a
  resync.
* The simulation's submit quota counts only calls that returned; the live canary
  reserves its quota first.
* `RiskManagedOms` evaluates a held snapshot again with the mode it had then;
  `HaltTakesEffect` bounds how long that matters.
* Nothing in the repository calls the `record_*` methods of the daily ledger yet, so
  no code ties an accepted order to `record_order_submit`; the model takes the
  recorded facts as inputs.

## 6. Not modelled

Schema migrations and backups (I/O without protocol state; SQLite transactions are
the atomicity of every action), value objects, digests and canonical forms, the test
drivers, the TCP transport of bridge and receiver (the same ingress behind another
carrier), quarantine of undecodable files, the bridge's instrument tick probe
(read-only market data, no order depends on it), the older bridge versions V03 and
V04, the calibration probe and what the other probes print, the text templating of
the deployment builder, and the repository's own models under `formal/`.

Simplifications inside the modelled parts: one order per `EventPath` behaviour, with
deals of one unit; positions and linked accounts are not told apart from other rows;
one strategy and one symbol with a second one for external orders in `RiskEngine`;
integers for decimals; a written file is read back as written.
