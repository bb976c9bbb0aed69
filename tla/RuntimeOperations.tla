-------------------------- MODULE RuntimeOperations --------------------------
(***************************************************************************)
(* The production runtime above the OMS (service/bootstrap.py): runtime    *)
(* mode with its audit (operations/mode.py, control.py), the health        *)
(* registry and what feeds it (health.py, service/health_sync.py,          *)
(* strategy_api/runtime.py, market_data/), telemetry with its durable      *)
(* alert journal (telemetry.py, alert_store.py), the supervisor and the    *)
(* shutdown, and the decision on an intent (service/coordinator.py,        *)
(* service/risk_oms.py), which RiskEngine computes.                        *)
(*                                                                         *)
(* One process at a time.  Its memory is lost when it dies; the audit, the *)
(* journal and the ledger are tables, and each write to one of them is a   *)
(* transaction of its own.  Time is the wall clock, read once per call; it *)
(* may be set back.                                                        *)
(***************************************************************************)
EXTENDS RiskEngine

CONSTANTS Plan,       \* what may happen and how often, see IsPlan
          Policy,     \* the RiskPolicy and the security reference facts
          HealthAge,  \* health_max_age_seconds
          RequestId,  \* ids of mode requests
          None

\* TradingDaySchedule: windows do not overlap.
ValidSchedule(windows) ==
  /\ \A w \in windows : w[1] < w[2]
  /\ \A v, w \in windows : v # w => v[2] <= w[1] \/ w[2] <= v[1]

\* components: the health components in play, in the order of HealthComponent (the others
\* count as healthy).  does: the kinds of step in play.  targets: the modes requested.
\* sessions: runtime session ids.  clock: the last instant.  back: the instants the clock
\* may be set back to.  skew: how far other clocks may be off, lags: the account's.
\* health, gaps: what the host and the ingress may report.  prices, strategies (sessions), versions, beats, unknown
\* (orders), facts (of the ledger), books, intents: inputs.  release, observed: the
\* deployment.  windows: the calendar's trading sessions.  rows: bound on the audit.
IsPlan(p) ==
  /\ p.does \subseteq {"report", "ingress", "quote", "heartbeat", "control", "replay", "halt",
                       "tick", "shutdown", "die", "ledger", "decide"}
  /\ p.components \in Seq({"DATABASE", "OMS", "LEADER", "RECONCILIATION", "QMT", "MARKET_DATA",
                            "STRATEGY"})
  /\ p.targets \subseteq {"DISABLED", "OBSERVE", "SHADOW", "SIMULATION", "LIVE_CANARY",
                      "LIVE_ARMED"}
  /\ p.clock \in Nat \ {0} /\ p.back \subseteq 1..p.clock /\ p.skew \subseteq Int
  /\ p.rows \in Nat /\ p.health \subseteq BOOLEAN
  /\ ValidSchedule(p.windows)
  /\ \A b \in p.books : IsBook(b)
  /\ \A i \in p.intents : IsIntent(i) /\ \A b \in p.books : i.symbol \in DOMAIN b.own

ASSUME RuntimeAssumption ==
  /\ \A p \in Plan : IsPlan(p)
  /\ HealthAge \in Nat \ {0} /\ ValidPolicy(Policy)

VARIABLES
  plan,     \* the plan of this behaviour; never changes
  now,      \* the wall clock
  session,  \* the runtime session of the running process, or None
  mode,     \* memory: RuntimeModeController._mode
  seen,     \* memory: the newest observation of each component, {} or a singleton
  quote,    \* memory: the newest quote of the symbol, {} or a singleton
  beat,     \* memory: the newest heartbeat of the strategy, {} or a singleton
  tele,     \* memory: OperationsTelemetry
  held,     \* memory: the snapshot a caller holds, {} or a singleton
  audit,    \* table runtime_mode_transitions, in the order of insertion
  journal,  \* tables operations_alert_events and operations_alert_state
  ledger,   \* tables daily_risk_events and daily_risk_pnl_snapshots
  tick,     \* how the last call of supervisor.tick ended
  sent,     \* the last order authorised by RiskManagedOms
  armed     \* history: the latest the clock showed in SIMULATION in this process, or 0

memory  == <<mode, seen, quote, beat, tele, held>>
vars    == <<plan, now, session, memory, audit, journal, ledger, tick, sent, armed>>

Components == Range(plan.components)
HaltedKey  == "runtime:HALTED"
AlertKeys  == Components \cup {HaltedKey, "execution:UNKNOWN"}

\* Mutant: active alerts are not restored from the journal.
FreshTelemetry_Forgets(j) ==
  [alerts |-> <<>>, health |-> 0, mode |-> 0, execution |-> 0, shown |-> "DISABLED",
   ready |-> FALSE]

FreshTelemetry(j) ==
  [alerts |-> SetToSeq({ k \in DOMAIN j.rows : j.rows[k].status = "ACTIVE" }),
   health |-> 0, mode |-> 0, execution |-> 0, shown |-> "DISABLED", ready |-> FALSE]

NoMemory == /\ mode' = "DISABLED" /\ seen' = [c \in Components |-> {}]
            /\ quote' = {} /\ beat' = {} /\ held' = {}

RuntimeInit ==
  /\ plan \in Plan /\ now = 1 /\ session = None
  /\ mode = "DISABLED" /\ seen = [c \in Components |-> {}]
  /\ quote = {} /\ beat = {} /\ held = {}
  /\ audit = <<>> /\ journal = [events |-> {}, rows |-> <<>>] /\ ledger = NoFacts
  /\ tele = FreshTelemetry(journal)
  /\ tick = [halted |-> FALSE, raised |-> FALSE] /\ sent = {} /\ armed = 0

Does(k) == session # None /\ k \in plan.does

-----------------------------------------------------------------------------
(* Health.  An observation is [healthy, at, detail].                       *)

\* Mutant: contradictory news is kept side by side.
Observed_Merged(old, o) ==
  IF old = {} \/ \A p \in old : o.at > p.at THEN {o}
  ELSE IF \A p \in old : o.at < p.at THEN old ELSE old \cup {o}

\* Mutant: the last news to arrive counts.
Observed_LastWins(old, o) == {o}

\* HealthRegistry.observe: older news is ignored, contradictory news is bad news.
Observed(old, o) ==
  IF old = {} \/ \A p \in old : o.at > p.at THEN {o}
  ELSE IF o \in old \/ \A p \in old : o.at < p.at THEN old
  ELSE {[healthy |-> FALSE, at |-> o.at, detail |-> "CONFLICTING"]}

Observe(c, healthy, at, detail) ==
  /\ c \in Components
  /\ seen' = [seen EXCEPT ![c] = Observed(@, [healthy |-> healthy, at |-> at, detail |-> detail])]
  /\ UNCHANGED <<plan, now, session, mode, quote, beat, tele, held, audit, journal, ledger,
                 tick, sent, armed>>

\* HealthRegistry.snapshot: why a component is not healthy, "" when it is.
Trouble(c, at) ==
  IF seen[c] = {} THEN "MISSING"
  ELSE LET o == CHOOSE x \in seen[c] : TRUE
       IN  IF o.at > at THEN "FUTURE_DATED"
           ELSE IF at - o.at > HealthAge THEN "STALE"
           ELSE IF ~o.healthy THEN o.detail ELSE ""

Ready(at) == \A c \in Components : Trouble(c, at) = ""

\* The host reports on its own parts.
Report(c, healthy) ==
  /\ Does("report") /\ c \notin {"QMT", "MARKET_DATA", "STRATEGY"}
  /\ Observe(c, healthy, now, "UNHEALTHY")

\* RuntimeHealthSynchronizer.observe_qmt_ingress; the event carries QMT's clock.
ObserveQmt(gap, resync, at) ==
  /\ Does("ingress")
  /\ Observe("QMT", ~gap /\ ~resync, at, IF gap THEN "INGRESS_GAP" ELSE "NEEDS_RESYNC")

\* MarketDataService.ingest: broker time decides, the first of two facts of one time stays.
NewerQuote(at) == \A q \in quote : at > q.broker

\* QmtMarketDataAdapter.ingest
IngestQuote(price, at) ==
  /\ Does("quote") /\ NewerQuote(at)
  /\ quote' = {[price |-> price, broker |-> at, seen |-> now]}
  /\ UNCHANGED <<plan, now, session, mode, seen, beat, tele, held, audit, journal, ledger,
                 tick, sent, armed>>

RefreshMarketData ==
  /\ Does("quote")
  /\ Observe("MARKET_DATA", FreshQuote(quote, now, Policy.marketAge), now, "MarketDataError")

\* StrategyRuntimeService.ingest_heartbeat: sequence numbers within a strategy session,
\* strictly newer observations between sessions.
NewerBeat(b, old) ==
  IF b.session = old.session THEN b.seq > old.seq /\ b.at >= old.at ELSE b.at > old.at

IngestHeartbeat(s, n, version, at) ==
  LET b == [session |-> s, seq |-> n, at |-> at, version |-> version]
  IN /\ Does("heartbeat") /\ \A old \in beat : NewerBeat(b, old)
     /\ beat' = {b}
     /\ UNCHANGED <<plan, now, session, mode, seen, quote, tele, held, audit, journal,
                    ledger, tick, sent, armed>>

RefreshStrategies ==
  /\ Does("heartbeat")
  /\ Observe("STRATEGY", /\ FreshBeat(beat, now, Policy.strategyAge)
                        /\ \A b \in beat : b.version \in Policy.versions,
             now, "StrategyRuntimeError")

-----------------------------------------------------------------------------
(* The alert journal.  A fact is [key, type, detail, at]; its event id is   *)
(* a digest of all of it.                                                   *)

\* Mutant: any other fact about the key counts, whatever its time.
Contradicts_AnyTime(j, f) == \E e \in j.events : e.key = f.key /\ e # f

\* AlertEventConflict: another fact about the same key at the same instant.
Contradicts(j, f) == \E e \in j.events : e.key = f.key /\ e.at = f.at /\ e # f

\* Mutant: an ACTIVE fact always becomes the state, however old it is.
Journaled_Rewinds(j, f) ==
  LET known == f.key \in DOMAIN j.rows
      row   == j.rows[f.key]
      new   == IF f.type = "RESOLVED" THEN [row EXCEPT !.status = "RESOLVED", !.last = f.at]
               ELSE [status |-> "ACTIVE", detail |-> f.detail, last |-> f.at, first |-> f.at,
                     count |-> 1]
      keep  == f \in j.events \/ (f.type = "RESOLVED" /\ (~known \/ f.at < row.last))
  IN [events |-> j.events \cup {f},
      rows   |-> IF keep THEN j.rows
                 ELSE [k \in DOMAIN j.rows \cup {f.key} |->
                         IF k = f.key THEN new ELSE j.rows[k]]]

\* record_active and record_resolved, for a fact that contradicts none.
Journaled(j, f) ==
  LET known == f.key \in DOMAIN j.rows
      row   == j.rows[f.key]
      late  == known /\ f.at < row.last
      fresh == ~known \/ row.status = "RESOLVED"
      new   == IF f.type = "RESOLVED"
               THEN [row EXCEPT !.status = "RESOLVED", !.last = f.at]
               ELSE [status |-> "ACTIVE", detail |-> f.detail, last |-> f.at,
                     first |-> IF fresh THEN f.at ELSE row.first,
                     count |-> IF fresh THEN 1 ELSE row.count + 1]
      keep  == f \in j.events \/ late \/ (f.type = "RESOLVED" /\ ~known)
  IN [events |-> j.events \cup {f},
      rows   |-> IF keep THEN j.rows
                 ELSE [k \in DOMAIN j.rows \cup {f.key} |->
                         IF k = f.key THEN new ELSE j.rows[k]]]

\* OperationsTelemetry._upsert and _resolve on t = [tele, journal, raised]: the memory
\* mirrors what the journal says; a contradiction raises and nothing more happens.
Note(t, f) ==
  IF t.raised THEN t
  ELSE IF Contradicts(t.journal, f) THEN [t EXCEPT !.raised = TRUE]
  ELSE LET j      == Journaled(t.journal, f)
           active == f.key \in DOMAIN j.rows /\ j.rows[f.key].status = "ACTIVE"
           order  == t.tele.alerts
       IN [t EXCEPT !.journal = j,
             !.tele.alerts = IF ~active THEN RemoveFirst(order, f.key)
                             ELSE IF f.key \in Range(order) THEN order
                             ELSE Append(order, f.key)]

ActiveFact(k, d, at) == [key |-> k, type |-> "ACTIVE", detail |-> d, at |-> at]
ResolvedFact(k, at)  == [key |-> k, type |-> "RESOLVED", detail |-> "", at |-> at]

\* One fact after the other, for those of the keys that have one.
NoteEach(t, keys, facts) ==
  FoldLeft(LAMBDA acc, k : IF k \in DOMAIN facts THEN Note(acc, facts[k]) ELSE acc, t, keys)

SyncHealth(t, at) ==
  IF t.raised \/ at < t.tele.health THEN t
  ELSE LET bad == { c \in Components : Trouble(c, at) # "" }
           t1  == [t EXCEPT !.tele.health = at, !.tele.ready = Ready(at)]
           t2  == NoteEach(t1, plan.components, [c \in bad |-> ActiveFact(c, Trouble(c, at), at)])
       IN NoteEach(t2, t2.tele.alerts, [k \in Components \ bad |-> ResolvedFact(k, at)])

SyncMode(t, m, at) ==
  IF t.raised \/ at < t.tele.mode THEN t
  ELSE Note([t EXCEPT !.tele.mode = at, !.tele.shown = m],
            IF m = "HALTED" THEN ActiveFact(HaltedKey, "HALTED", at) ELSE ResolvedFact(HaltedKey, at))

\* sync_execution_ambiguity; the two counts behave alike, one stands for both.
SyncExecution(t, unknown, at) ==
  IF t.raised \/ at < t.tele.execution THEN t
  ELSE Note([t EXCEPT !.tele.execution = at],
            IF unknown # "0" THEN ActiveFact("execution:UNKNOWN", unknown, at)
            ELSE ResolvedFact("execution:UNKNOWN", at))

Telemetry == [tele |-> tele, journal |-> journal, raised |-> FALSE]

-----------------------------------------------------------------------------
(* Modes.  An audit row is [id, session, from, to, by, at].                 *)

Row(id, to, by, at) == [id |-> id, session |-> session, from |-> mode, to |-> to, by |-> by, at |-> at]

Prior(id) == { r \in Range(audit) : r.id = id }

Allowed(from, to) ==
  to \in CASE from = "DISABLED"   -> {"DISABLED", "OBSERVE"}
           [] from = "OBSERVE"    -> {"DISABLED", "OBSERVE", "SHADOW", "SIMULATION"}
           [] from = "SHADOW"     -> {"DISABLED", "OBSERVE", "SHADOW", "SIMULATION"}
           [] from = "SIMULATION" -> {"DISABLED", "OBSERVE", "SIMULATION"}
           [] OTHER               -> {"DISABLED"}

\* The history of SIMULATION when the clock shows at in mode m.
ArmedAt(m, at) == IF m = "SIMULATION" /\ armed < at THEN at ELSE armed

\* Mutant: a replayed request sets the mode again.
Enter_Reapplied(id, to, by, at) ==
  /\ IF Prior(id) = {} THEN Len(audit) < plan.rows /\ audit' = Append(audit, Row(id, to, by, at))
     ELSE /\ \E r \in Prior(id) : r.session = session /\ r.to = to /\ r.by = by
          /\ audit' = audit
  /\ mode' = to /\ armed' = ArmedAt(to, now)

\* A new transition is audited, then it holds.  A request whose id is known is a replay,
\* which changes nothing, or a conflict: neither is a step.
Enter(id, to, by, at) ==
  /\ Prior(id) = {} /\ Len(audit) < plan.rows
  /\ audit' = Append(audit, Row(id, to, by, at)) /\ mode' = to
  /\ armed' = ArmedAt(to, now)

\* request_mode, through enter_observe and arm_simulation or directly.
RequestMode(id, to) ==
  /\ Does("control")
  /\ Prior(id) = {} => /\ Allowed(mode, to)
                       /\ to \in {"SHADOW", "SIMULATION"} => Ready(now)
  /\ Enter(id, to, "operator", now)
  /\ UNCHANGED <<plan, now, session, seen, quote, beat, tele, held, journal, ledger, tick, sent>>

\* halt: from every mode, whatever the health.
Halt(id, by) == Enter(id, "HALTED", by, now)

\* enforce_health: only SIMULATION depends on the health.
MustHalt == mode = "SIMULATION" /\ ~Ready(now)

\* OperationsControl.emergency_halt.
EmergencyHalt(id) ==
  /\ Does("halt")
  /\ Halt(id, "operator")
  /\ UNCHANGED <<plan, now, session, seen, quote, beat, tele, held, journal, ledger, tick, sent>>

\* RuntimeSupervisor.tick: health, mode and ambiguity go to telemetry, then the halt.
SupervisorTick(id, unknown) ==
  LET t1   == SyncHealth(Telemetry, now)
      t2   == SyncMode(t1, mode, now)
      t3   == SyncExecution(t2, unknown, now)
      t4   == SyncMode(t3, "HALTED", now)
      halt == ~t3.raised /\ MustHalt /\ Prior(id) = {}
      end  == IF halt THEN t4 ELSE t3
  IN /\ Does("tick")
     /\ tele' = end.tele /\ journal' = end.journal
     /\ tick' = [halted |-> halt, raised |-> end.raised \/ (MustHalt /\ ~halt)]
     /\ IF halt THEN Halt(id, "health-monitor")
                ELSE UNCHANGED <<mode, audit, armed>>
     /\ UNCHANGED <<plan, now, session, seen, quote, beat, held, ledger, sent>>

\* RuntimeLifecycleController.shutdown: it may be called again at the same instant.
Shutdown ==
  LET id   == <<"shutdown", session>>
      same == \E r \in Prior(id) : r.at = now /\ mode = "HALTED"
      t    == SyncMode(Telemetry, "HALTED", now)
  IN /\ Does("shutdown")
     /\ IF same THEN UNCHANGED <<mode, audit, armed>> ELSE Halt(id, "runtime-lifecycle")
     /\ tele' = t.tele /\ journal' = t.journal
     /\ UNCHANGED <<plan, now, session, seen, quote, beat, held, ledger, tick, sent>>

-----------------------------------------------------------------------------
(* The process.                                                            *)

\* _deployment_preflight and DeploymentGuard.validate, before anything is written.
Compatible(expected, o) ==
  /\ \A f \in {"app", "commit", "terminal", "bridge", "config"} : o[f] = expected[f]
  /\ expected.schema = o.binary /\ o.database = o.binary

\* bootstrap_runtime_services in a new process; the startup row names the session, so
\* an old session id is refused.
Start(s) ==
  /\ session = None /\ Compatible(plan.release, plan.observed)
  /\ Prior(<<"startup", s>>) = {} /\ Len(audit) < plan.rows /\ now < plan.clock
  /\ session' = s /\ now' = now + 1
  /\ audit' = Append(audit, [id |-> <<"startup", s>>, session |-> s, from |-> "DISABLED",
                             to |-> "DISABLED", by |-> "system", at |-> now'])
  /\ NoMemory /\ tele' = FreshTelemetry(journal) /\ armed' = 0
  /\ UNCHANGED <<plan, journal, ledger, tick, sent>>

Die == /\ Does("die")
       /\ session' = None /\ NoMemory /\ tele' = FreshTelemetry([rows |-> <<>>])
       /\ UNCHANGED <<plan, now, audit, journal, ledger, tick, sent, armed>>

Wait == /\ now < plan.clock /\ now' = now + 1
        /\ armed' = ArmedAt(mode, now')
        /\ UNCHANGED <<plan, session, memory, audit, journal, ledger, tick, sent>>

\* External: the wall clock is corrected, while a process runs or between two.
SetBack == /\ now' \in plan.back /\ now' < now
           /\ UNCHANGED <<plan, session, memory, audit, journal, ledger, tick, sent, armed>>

-----------------------------------------------------------------------------
(* Decisions.                                                              *)

\* The ledger, written by callers with the identities of upstream facts.
Account(f) ==
  /\ Does("ledger")
  /\ ledger' = IF f.kind = "PNL" THEN RecordPnl(ledger, [key |-> f.key, pnl |-> f.pnl, at |-> now])
                                 ELSE RecordEvent(ledger, f)
  /\ ledger' # ledger
  /\ UNCHANGED <<plan, now, session, memory, audit, journal, tick, sent, armed>>

\* TradingCalendar.status: an unknown day has no windows.
MarketOpen == \E w \in plan.windows : w[1] <= now /\ now < w[2]

HealthFlags == [c \in DOMAIN HealthCode |-> c \in Components => Trouble(c, now) = ""]

\* ExecutionRuntimeCoordinator.evaluate_intent: the snapshot and its evaluation.
EvaluateIntent(i, book, lag) ==
  /\ Does("decide") /\ ~FactConflict(book.facts)
  /\ Buildable(ledger, beat, quote, Policy, now)
  /\ \E b \in beat, q \in quote :
       LET known == [book EXCEPT !.at = now - lag]
           s     == Snapshot(mode, HealthFlags, MarketOpen, ledger, b, q, known, i.symbol, Policy)
       IN /\ WellFormed(s)
          /\ held' = {[intent |-> i, book |-> known, snapshot |-> s, ledger |-> ledger,
                       accepted |-> EvaluateRisk(i, s, Policy, now).accepted]}
  /\ UNCHANGED <<plan, now, session, mode, seen, quote, beat, tele, audit, journal, ledger,
                 tick, sent, armed>>

\* RiskManagedOms.submit_intent: the snapshot the caller holds is evaluated once more,
\* at the time of the submit; an accepted order goes to OmsCore.
SubmitIntent ==
  /\ Does("decide")
  /\ \E h \in held :
       /\ EvaluateRisk(h.intent, h.snapshot, Policy, now).accepted
       /\ sent' = {[at |-> now, lag |-> now - armed, what |-> h]}
  /\ UNCHANGED <<plan, now, session, memory, audit, journal, ledger, tick, armed>>

HealthStep ==
  \/ \E c \in Components, h \in plan.health : Report(c, h)
  \/ \E gap, resync \in plan.gaps, d \in plan.skew : ObserveQmt(gap, resync, now + d)
  \/ \E price \in plan.prices, d \in plan.skew : IngestQuote(price, now + d)
  \/ RefreshMarketData
  \/ \E s \in plan.strategies, n \in 1..plan.beats, v \in plan.versions, d \in plan.skew :
       IngestHeartbeat(s, n, v, now + d)
  \/ RefreshStrategies

ControlStep ==
  \/ \E id \in RequestId, to \in plan.targets : RequestMode(id, to)
  \/ \E id \in RequestId : EmergencyHalt(id)
  \/ \E id \in RequestId, n \in plan.unknown : SupervisorTick(id, n)
  \/ Shutdown

DecisionStep ==
  \/ \E f \in plan.facts : Account(f)
  \/ \E i \in plan.intents, b \in plan.books, lag \in plan.lags : EvaluateIntent(i, b, lag)
  \/ SubmitIntent

RuntimeNext ==
  \/ HealthStep \/ ControlStep \/ DecisionStep
  \/ \E s \in plan.sessions : Start(s)
  \/ Die \/ Wait \/ SetBack

RuntimeSpec == RuntimeInit /\ [][RuntimeNext]_vars

-----------------------------------------------------------------------------
(* Properties.                                                             *)

Modes == {"DISABLED", "OBSERVE", "SHADOW", "SIMULATION", "HALTED"}

\* The caches hold at most one fact each, whatever order and however contradictory the
\* news arrives in (health.py, strategy_api/runtime.py, market_data/service.py), live
\* modes are out of reach, and the alert tables only name known keys.
RuntimeTypeOK ==
  /\ now \in 1..plan.clock /\ session \in plan.sessions \cup {None}
  /\ mode \in Modes /\ armed \in 0..plan.clock
  /\ \A c \in Components : Cardinality(seen[c]) <= 1 /\ \A o \in seen[c] : o.healthy \in BOOLEAN
  /\ Cardinality(quote) <= 1 /\ Cardinality(beat) <= 1
  /\ \A r \in Range(audit) : {r.from, r.to} \subseteq Modes /\ r.at \in 1..plan.clock
  /\ DOMAIN journal.rows \subseteq AlertKeys /\ Range(tele.alerts) \subseteq AlertKeys

\* Within a process no news is replaced by older news (health.py:69-87,
\* market_data/service.py:39-60, strategy_api/runtime.py:73-96), whatever order it arrives
\* in and wherever the clocks are set; at an equal instant only bad health or the next
\* heartbeat of the same strategy session replaces it.
NewsAdvances ==
  [][session # None /\ session' = session =>
       /\ \A c \in Components : \A o \in seen[c] : \E p \in seen'[c] :
            p = o \/ p.at > o.at \/ (p.at = o.at /\ ~p.healthy)
       /\ \A q \in quote : \E p \in quote' : p = q \/ p.broker > q.broker
       /\ \A b \in beat : \E p \in beat' :
            p = b \/ p.at > b.at \/ (p.at = b.at /\ p.session = b.session /\ p.seq > b.seq)]_vars

\* The audit tells the mode: in every state of a process the mode in memory is the target
\* of the last transition audited for its session (mode.py:135-256), across replays,
\* conflicts, halts, crashes and restarts; nothing is audited on an unproven deployment.
AuditTellsMode ==
  /\ session # None =>
       \E i \in DOMAIN audit : /\ audit[i].session = session /\ audit[i].to = mode
                              /\ \A j \in DOMAIN audit : j > i => audit[j].session # session
  /\ ~Compatible(plan.release, plan.observed) => audit = <<>>

\* The row of key k shows event e.
IsStateOf(row, k, e) == e.key = k /\ e.at = row.last /\ e.type = row.status

\* How the row of key k went on from journal i to journal j.
Forward(i, j, k) ==
  LET new == { e \in j.events \ i.events : e.key = k }
  IN /\ i.rows[k].last <= j.rows[k].last /\ \A e \in new : e.at <= j.rows[k].last
     /\ j.rows[k] # i.rows[k] => \E e \in new : IsStateOf(j.rows[k], k, e)

\* What telemetry shows as active is what the journal has as active (alert_store.py:100-231,
\* telemetry.py:86-176), and a journal row is an event of its key that no ACTIVE event is
\* newer than: no alert is lost by a crash or hidden by an older fact, whichever way the
\* clock went.  A RESOLVED fact from before there was a row may be newer than the row.
AlertsCurrent ==
  /\ session # None =>
       Range(tele.alerts) = { k \in DOMAIN journal.rows : journal.rows[k].status = "ACTIVE" }
  /\ \A k \in DOMAIN journal.rows :
       /\ \E e \in journal.events : IsStateOf(journal.rows[k], k, e)
       /\ \A e \in journal.events : e.key = k /\ e.type = "ACTIVE" => e.at <= journal.rows[k].last

\* A journal row is never rewound (alert_store.py:160, 237): whatever one call notes about a
\* key that has a row, after a restart and with the clock set back too, leaves a row no
\* older than before and no older than any fact noted, and a row that changed shows one
\* of the facts just noted.
AlertsNeverRewound ==
  [][\A k \in DOMAIN journal.rows : k \in DOMAIN journal'.rows /\ Forward(journal, journal', k)]_vars

\* The newest fact wins: neither a row of the alert journal nor an observation, quote or
\* heartbeat in memory is replaced by an older one, although facts come out of order and
\* the clock may be set back (alert_store.py:107-108, health.py:69-87).
NewestWins == AlertsNeverRewound /\ NewsAdvances

\* A supervisor cycle ends with an unready SIMULATION halted (supervisor.py:48-87) unless
\* its request id was used before or the journal already holds a fact of this instant: no
\* older alert, no fact from before the clock was set back and no restart keeps telemetry
\* from reaching the halt.
TickHalts ==
  [][\A id \in RequestId, n \in plan.unknown :
       /\ mode = "SIMULATION" /\ ~Ready(now) /\ SupervisorTick(id, n)
       /\ Prior(id) = {} /\ \A e \in journal.events : e.at # now
       => mode' = "HALTED"]_vars

\* The exposure per symbol after f shares of the order and the external buys in E.
After(h, f, E) ==
  [x \in DOMAIN h.book.own |->
     LET held0 == h.book.own[x] + h.book.other[x] + Remaining({ e \in E : e.symbol = x })
         mine  == IF x = h.intent.symbol THEN f * h.intent.price ELSE 0
     IN IF h.intent.side = "BUY" THEN held0 + mine
        ELSE IF mine > held0 THEN 0 ELSE held0 - mine]

\* An accepted order is harmless however it ends (engine.py:49-414, risk_runtime.py:74-172):
\* whatever part of it is filled and whichever external buys are, no cap of the policy is
\* broken that would hold without the order; cash keeps its reserve, the day its limits.
AcceptedIsHarmless ==
  \A h \in held : h.accepted =>
    LET buys == { e \in External(h.book.facts, h.book.tokens) : e.side = "BUY" }
        i    == h.intent
    IN /\ \A f \in 0..i.quantity, E \in SUBSET buys :
            /\ Gross(After(h, f, E)) <= Policy.maxGross
                 \/ Gross(After(h, f, E)) <= Gross(After(h, 0, E))
            /\ After(h, f, E)[i.symbol] <= Policy.maxSecurity
                 \/ After(h, f, E)[i.symbol] <= After(h, 0, E)[i.symbol]
       /\ ~\E e \in External(h.book.facts, h.book.tokens) : e.symbol = i.symbol
       /\ i.side = "BUY" =>
            /\ h.book.cash * 100 - Notional(i) * (100 + Policy.fee) >= Policy.minCash * 100
            /\ Cardinality({ x \in DOMAIN h.book.own : h.book.own[x] > 0 \/ x = i.symbol })
                 <= Policy.maxPositions
       /\ Turnover(h.ledger) + Notional(i) <= Policy.maxTurnover
       /\ Cardinality(OfKind(h.ledger, "ORDER")) < Policy.maxOrders

\* A halt takes effect: the snapshot that is evaluated again at the submit has no time of
\* its own (risk_oms.py:29-38), yet no order is authorised later after the latest the clock
\* showed in SIMULATION than the heartbeat and the quote in the snapshot may be old (a
\* clock set back prolongs this by as much).
HaltTakesEffect ==
  \A x \in sent : x.lag <= Policy.strategyAge /\ x.lag <= Policy.marketAge

\* tests/service/test_supervisor.py:106 asserts that the cycle that halts returns a result
\* that says so.
AutoHaltReported == tick.halted => ~tick.raised

=============================================================================
