------------------------------ MODULE EventPath ------------------------------
(***************************************************************************)
(* Broker facts on their way from the terminal to the OMS: the event half  *)
(* of the QMT-side bridge (qmt_side/*V05*.py), the file spool, the host    *)
(* process (qmt/host.py, spool.py, receiver.py, ingestion.py,              *)
(* read_model.py, instances.py), the Guojin evidence mapper that turns     *)
(* deals into cumulative fills, and the daily archive (archive.py).        *)
(*                                                                         *)
(* Bridge and host are two processes that share only files; each is one    *)
(* thread and may die between any two file operations.  One order is past  *)
(* its submit reservation; every deal is for one unit of it.               *)
(***************************************************************************)
EXTENDS OrderLifecycle, Sequences

CONSTANTS Plan,       \* the deployments and bounds to check, see IsPlan
          MaxDay,     \* bound: trading days
          NoEvent

\* The queries of a snapshot; that for positions differs only in a row not modelled.
Query == {"account", "orders", "deals"}

\* oms: the host runs the Guojin simulation OMS (else it only observes).  other: the
\* sessions in which another account is selected in the terminal.  flaky: persisting an
\* event may fail.  misses: the queries that may come back without rows.  types: the
\* callbacks in play.  Bounds: sessions, events (per session), queue (MAX_QUEUED_EVENTS), deaths and
\* fails of the host, days, trades, cash (account states).
IsPlan(p) ==
  /\ {p.oms, p.flaky} \subseteq BOOLEAN /\ p.other \subseteq Nat
  /\ p.misses \subseteq Query /\ p.types \subseteq {"account", "order", "deal", "error"}
  /\ {p.sessions, p.events, p.deaths, p.fails, p.days, p.trades, p.cash} \subseteq Nat
  /\ p.queue \in Nat \ {0} /\ p.trades <= Quantity

\* Every event is a record of this shape: session, number, day, type, query_errors, and
\* the account, deal and order rows it carries (0, {} and "none" stand for no row).
EventType == {"ready", "capabilities", "snapshot", "account", "order", "deal", "error"}

Envelope ==
  [s : Nat, n : Nat, d : Nat, t : EventType,
   errors : SUBSET Query, cash : Nat, deals : SUBSET (1..Quantity),
   order : {"none", "live", "cancelled", "rejected"} \X (0..Quantity)]

ASSUME EventAssumption ==
  /\ NoEvent \notin Envelope
  /\ \A p \in Plan : IsPlan(p) /\ p.days <= MaxDay
  /\ MaxDay \in Nat /\ (\E o \in Order : Order = {o}) /\ BrokerId # {}

VARIABLES
  plan,        \* the plan of this behaviour; never changes
  day,         \* today's trading day
  \* external: the broker
  dealt,       \* trades of the order so far, numbered 1..dealt
  state,       \* "live", "cancelled" or "rejected"
  cash,        \* the account row
  \* the bridge process
  up, sess, num,   \* running; session_id; sequence
  bound,       \* _STATE.initialized
  outbox,      \* _STATE.events
  lastCash,    \* last_account_payload_digest (0: none)
  manifest,    \* durable: the session instance.json names
  \* durable: the event spool and its archive
  inbox, processed, conflicts,
  archive,     \* the archive file of a day and the sources its manifest lists
  committed,   \* days with a checkpoint
  \* the host process
  hpc,         \* "down", "replay", "poll", "feed", "move", "commit" or "delete"
  pin,         \* the session its instance was loaded with
  ingress,     \* session_id, last_sequence, needs_resync
  view,        \* the read model
  trades,      \* the mapper's _trades
  todo,        \* the events left to replay, or the files left to delete
  feed,        \* the rows of the event in hand, with the evidence each maps to, not yet ingested
  inHand,      \* the event being handled, or the file about to be moved
  \* durable: the OMS database
  rows, keys,
  \* history
  persisted,   \* every event file that was ever published
  settled,     \* deals in the largest snapshot the OMS handled without an error
  basis,       \* the clean snapshot the view rests on, if no event failed since
  deaths, fails

brokerVars == <<dealt, state, cash, day>>
bridgeMem  == <<up, sess, num, bound, outbox, lastCash, manifest>>
spoolDirs  == <<inbox, processed, conflicts>>
archiveVars == <<archive, committed>>
hostMem    == <<hpc, pin, ingress, view, trades, todo, feed, inHand>>
omsVars    == <<rows, keys, settled>>
eventVars  == <<plan, brokerVars, bridgeMem, spoolDirs, archiveVars, hostMem, omsVars,
                persisted, basis, deaths, fails>>

TheOrder == CHOOSE o \in Order : TRUE
TheId    == CHOOSE b \in BrokerId : TRUE

Who(s) == IF s \in plan.other THEN "other" ELSE "own"

NoView  == [s |-> 0, cash |-> 0, deals |-> {}, healthy |-> FALSE]
Fresh   == [s |-> 0, last |-> 0, resync |-> TRUE]

EventInit ==
  /\ plan \in Plan
  /\ day = 1 /\ dealt = 0 /\ state = "live" /\ cash = 1
  /\ up = FALSE /\ sess = 0 /\ num = 0 /\ bound = FALSE /\ outbox = <<>> /\ lastCash = 0
  /\ manifest = 0
  /\ inbox = {} /\ processed = {} /\ conflicts = {}
  /\ archive = [d \in 1..MaxDay |-> {}] /\ committed = {}
  /\ hpc = "down" /\ pin = 0 /\ ingress = Fresh /\ view = NoView /\ trades = {}
  /\ todo = {} /\ feed = {} /\ inHand = NoEvent
  /\ rows = [o \in Order |-> [AbsentRow EXCEPT !.status = "RECONCILING", !.submit = 1]]
  /\ keys = {} /\ settled = 0
  /\ persisted = {} /\ basis = NoEvent /\ deaths = 0 /\ fails = 0

-----------------------------------------------------------------------------
(* The bridge: every event gets the next sequence number, waits in a       *)
(* bounded queue, and is published as a file when the disk allows.         *)

\* The normalizers: the account row; the order row's status and fill; the deal rows.
AccountRow == cash
OrderRow == <<state, dealt>>
DealRows == 1..dealt

\* _event: the envelope of the n-th event.  A snapshot has no rows from the queries in
\* errors, which raised, and from those in none, which returned None or an empty list.
Event(n, t, errors, none) ==
  LET has(q) == q \notin errors \cup none IN
  [s |-> sess, n |-> n, d |-> day, t |-> t, errors |-> errors,
   cash  |-> IF t \in {"account", "snapshot"} /\ has("account") THEN AccountRow ELSE 0,
   deals |-> IF t = "snapshot" /\ has("deals") THEN DealRows ELSE {},
   order |-> IF t \in {"order", "snapshot"} /\ has("orders") THEN OrderRow ELSE <<"none", 0>>]

\* The events other than snapshots query nothing.
Notice(n, t) == Event(n, t, {}, {})

\* The account_capabilities event that read_account_capabilities ends with; no state of
\* this module depends on what it tells, but it has a number.
Capabilities(n) == Notice(n, "capabilities")

\* Mutant: the limit is compared after the append.
Enqueued_OffByOne(q, e) == IF Len(q) > plan.queue THEN Append(Tail(q), e) ELSE Append(q, e)

\* _enqueue: at the limit the oldest queued event is dropped.
Enqueued(q, e) == IF Len(q) >= plan.queue THEN Append(Tail(q), e) ELSE Append(q, e)

\* flush_transport: the events up to the first one that cannot be written.
Flushed(q, k) ==
  /\ k = Len(q) \/ plan.flaky
  /\ outbox' = SubSeq(q, k + 1, Len(q))
  /\ inbox' = inbox \cup {q[i] : i \in 1..k}
  /\ persisted' = persisted \cup {q[i] : i \in 1..k}

\* A handler that has put n events behind the others, which makes the queue q, flushes.
Emit(n, q) ==
  /\ up /\ num + n <= plan.events
  /\ num' = num + n
  /\ \E k \in 0..Len(q) : Flushed(q, k)
  /\ UNCHANGED <<plan, brokerVars, up, sess, processed, conflicts, archiveVars, hostMem,
                 omsVars, basis, deaths, fails>>

\* The terminal loads the strategy: a fresh _RuntimeState with a new session id.
Load ==
  /\ ~up /\ sess < plan.sessions
  /\ up' = TRUE /\ sess' = sess + 1 /\ num' = 0 /\ bound' = FALSE
  /\ outbox' = <<>> /\ lastCash' = 0
  /\ UNCHANGED <<plan, brokerVars, manifest, spoolDirs, archiveVars, hostMem, omsVars,
                 persisted, basis, deaths, fails>>

\* _publish_instance_manifest: instance.json names the session, replaced atomically.
PublishManifest == manifest' = sess

\* init -> _bind_runtime: the manifest is published before bridge_ready.
Bind ==
  /\ ~bound
  /\ bound' = TRUE /\ PublishManifest
  /\ Emit(1, Enqueued(outbox, Notice(num + 1, "ready")))
  /\ UNCHANGED lastCash

\* read_snapshot: every query may raise, which query_errors counts, or return None or no
\* rows, which it does not; an account row that was read is remembered, and without one
\* the digest of the last stays.  _top_level_bootstrap reads a snapshot before init;
\* after_init and periodic_snapshot_timer put the capabilities in front of it.
ReadSnapshot(errors, none) ==
  /\ bound \/ num = 0
  /\ IF bound
     THEN Emit(2, Enqueued(Enqueued(outbox, Capabilities(num + 1)),
                           Event(num + 2, "snapshot", errors, none)))
     ELSE Emit(1, Enqueued(outbox, Event(num + 1, "snapshot", errors, none)))
  /\ lastCash' = IF "account" \in errors \cup none THEN lastCash ELSE AccountRow
  /\ UNCHANGED <<bound, manifest>>

\* account_callback: a changed payload, or an unchanged one whose 300 s heartbeat is
\* due; any other callback is suppressed and changes nothing.
AccountCallback ==
  /\ bound /\ "account" \in plan.types
  /\ lastCash' = AccountRow
  /\ Emit(1, Enqueued(outbox, Notice(num + 1, "account")))
  /\ UNCHANGED <<bound, manifest>>

\* order_callback; a position callback differs only in a row that is not modelled.
OrderCallback ==
  /\ bound /\ "order" \in plan.types
  /\ Emit(1, Enqueued(outbox, Notice(num + 1, "order")))
  /\ UNCHANGED <<bound, manifest, lastCash>>

\* deal_callback, for any trade so far: callbacks are lost, repeated and reordered.
DealCallback(k) ==
  /\ bound /\ k \in DealRows /\ "deal" \in plan.types
  /\ Emit(1, Enqueued(outbox, [Notice(num + 1, "deal") EXCEPT !.deals = {k}]))
  /\ UNCHANGED <<bound, manifest, lastCash>>

\* _runtime_error: any handler that fails, and a callback for an account that is neither
\* the selected one nor linked to it.
RuntimeError ==
  /\ "error" \in plan.types
  /\ Emit(1, Enqueued(outbox, Notice(num + 1, "error")))
  /\ UNCHANGED <<bound, manifest, lastCash>>

\* handlebar and command_tick flush what earlier calls could not.
Flush ==
  /\ up /\ outbox # <<>>
  /\ Flushed(outbox, Len(outbox))
  /\ UNCHANGED <<plan, brokerVars, up, sess, num, bound, lastCash, manifest, processed,
                 conflicts, archiveVars, hostMem, omsVars, basis, deaths, fails>>

\* The terminal stops or dies: the queue is lost.
Unload ==
  /\ up
  /\ up' = FALSE /\ outbox' = <<>>
  /\ UNCHANGED <<plan, brokerVars, sess, num, bound, lastCash, manifest, spoolDirs,
                 archiveVars, hostMem, omsVars, persisted, basis, deaths, fails>>

\* External: a trade, the end of the order, a new account state, the next day.
BrokerMoves ==
  /\ \/ /\ state = "live" /\ dealt < plan.trades
        /\ dealt' = dealt + 1 /\ UNCHANGED <<state, cash, day>>
     \/ /\ state = "live" /\ dealt = 0 /\ plan.trades < Quantity
        /\ state' \in {"cancelled", "rejected"} /\ UNCHANGED <<dealt, cash, day>>
     \/ cash < plan.cash /\ cash' = cash + 1 /\ UNCHANGED <<dealt, state, day>>
     \/ day < plan.days /\ day' = day + 1 /\ UNCHANGED <<dealt, state, cash>>
  /\ UNCHANGED <<plan, bridgeMem, spoolDirs, archiveVars, hostMem, omsVars, persisted,
                 basis, deaths, fails>>

-----------------------------------------------------------------------------
(* The evidence mapper (guojin_evidence.py).                               *)

Evidence(eid, status, filled) ==
  [eid |-> eid, order |-> TheOrder, status |-> status, bid |-> TheId, filled |-> filled]

\* _map_order for the calibrated status codes; a partially filled or a partially
\* filled and cancelled order is not calibrated and maps to nothing.
MappedOrder(eid, order) ==
  LET st == order[1]  filled == order[2] IN
  IF st = "live" /\ filled = 0 THEN {Evidence(eid, "ACKNOWLEDGED", 0)}
  ELSE IF st = "live" /\ filled = Quantity THEN {Evidence(eid, "FILLED", Quantity)}
  ELSE IF st = "cancelled" /\ filled = 0 THEN {Evidence(eid, "CANCELLED", 0)}
  ELSE IF st = "rejected" THEN {Evidence(eid, "REJECTED", 0)}
  ELSE {}

\* Mutant: a deal reports its own quantity, not the sum over the trades seen.
MappedDeal_OwnQuantity(eid, known) == Evidence(eid, "PARTIALLY_FILLED", 1)

\* _map_deal: the fill is the sum over all trades the mapper has seen, this one included.
MappedDeal(eid, known) ==
  LET filled == Cardinality(known) IN
  Evidence(eid, IF filled = Quantity THEN "FILLED" ELSE "PARTIALLY_FILLED", filled)

\* __call__ and map_snapshot: the order row first, then the deal rows in turn; the
\* source event id is session:sequence, with the row for a snapshot.
Mapped(e) ==
  LET seen(k) == trades \cup {j \in e.deals : j <= k} IN
  {[row |-> 0, fact |-> f] : f \in MappedOrder(<<e.s, e.n, "order", 0>>, e.order)}
    \cup {[row |-> k, fact |-> MappedDeal(<<e.s, e.n, "deal", k>>, seen(k))] : k \in e.deals}

-----------------------------------------------------------------------------
(* One event through the host: ingress, read model, evidence.              *)

Before(a, b) == a.s < b.s \/ (a.s = b.s /\ a.n < b.n)

\* The file the host looks at next: names sort by time, that is by session and number.
Oldest(e, files) == e \in files /\ \A f \in files \ {e} : Before(e, f)

\* A snapshot without query_errors, whatever rows it has.
CleanSnapshot(e) == e.t = "snapshot" /\ e.errors = {}

\* Where ingest() stands when e arrives: a new session starts from nothing.
Base(e) == IF ingress.s = e.s THEN ingress ELSE [Fresh EXCEPT !.s = e.s]

Duplicate(e) == e.n <= Base(e).last

\* Mutant: a gap in the sequence goes unnoticed.
Advanced_GapIgnored(e) ==
  [s |-> e.s, last |-> e.n, resync |-> Base(e).resync /\ ~CleanSnapshot(e)]

\* QmtIngressBuffer.ingest: a gap asks for a resync, a clean snapshot ends it.
Advanced(e) ==
  LET gap == Base(e).last # 0 /\ e.n # Base(e).last + 1
  IN  [s |-> e.s, last |-> e.n, resync |-> (Base(e).resync \/ gap) /\ ~CleanSnapshot(e)]

\* QmtReadModel.apply: a snapshot replaces the view, a callback amends it.
Applied(e) ==
  LET healthy == ~Advanced(e).resync IN
  IF e.t = "snapshot"
  THEN [s |-> e.s, cash |-> e.cash, deals |-> e.deals, healthy |-> healthy]
  ELSE IF view = NoView THEN view
  ELSE [view EXCEPT !.cash = IF e.t = "account" THEN e.cash ELSE @,
                    !.deals = @ \cup e.deals, !.healthy = healthy]

\* The mapper serves ORDER and DEAL callbacks and snapshots of the OMS host.
FeedsOms(e) == plan.oms /\ e.t \in {"order", "deal", "snapshot"}

Rollover(e) == plan.oms /\ e.s # pin

\* on_event returned: a polled file is moved next, a replayed one stays.
Done(e) == IF e \in processed THEN hpc' = "replay" /\ inHand' = NoEvent
           ELSE hpc' = "move" /\ inHand' = e

\* on_event raised: the replay is given up, a polled file stays in the inbox.
Failed == hpc' = "poll" /\ todo' = {} /\ inHand' = NoEvent /\ feed' = {}

\* QmtHostIngestion.handle for an event that is not a duplicate.
Handle(e) ==
  /\ ingress' = Advanced(e) /\ view' = Applied(e)
  /\ basis' = IF CleanSnapshot(e) THEN e ELSE IF e.t = "snapshot" THEN NoEvent ELSE basis
  /\ IF FeedsOms(e)
     THEN /\ trades' = trades \cup e.deals /\ feed' = Mapped(e)
          /\ hpc' = "feed" /\ inHand' = e
     ELSE Done(e) /\ UNCHANGED <<trades, feed>>
  /\ UNCHANGED fails

\* on_event raises before handle(): maintain() or refresh_identities().  Ingress has
\* already counted the event, so the retry will take it for a duplicate.
RaiseEarly(e) ==
  /\ plan.oms /\ fails < plan.fails
  /\ fails' = fails + 1 /\ basis' = NoEvent
  /\ ingress' = Advanced(e)
  /\ UNCHANGED <<view, trades>>

\* ingress.ingest and on_event for one event, remaining being what replay has left.
Take(e, remaining) ==
  /\ ~Rollover(e)
  /\ \/ /\ Duplicate(e)
        /\ ingress' = Base(e)
        /\ Done(e) /\ todo' = remaining
        /\ UNCHANGED <<view, trades, feed, basis, fails>>
     \/ ~Duplicate(e) /\ Handle(e) /\ todo' = remaining
     \/ ~Duplicate(e) /\ RaiseEarly(e) /\ Failed

-----------------------------------------------------------------------------
(* The host process.                                                       *)

Archived == UNION {archive[d] : d \in committed}

\* _latest_bridge_ready over the spool and the committed archives.
ReadyEvents == {e \in inbox \cup processed \cup Archived : e.t = "ready"}

\* load_instance: the newest bridge_ready is the one the manifest names.
Loadable == \E e \in ReadyEvents : /\ e.s = manifest
                                   /\ \A f \in ReadyEvents : f.s <= e.s

\* replay_processed_from_latest_clean_snapshot: the processed events of the newest
\* session of the pinned account, from its last clean snapshot on.
ReplayTail ==
  LET mine  == {e \in inbox \cup processed : Who(e.s) = Who(manifest)}
      tail  == {e \in processed \cap mine : \A f \in mine : f.s <= e.s}
      clean == {e.n : e \in {f \in tail : CleanSnapshot(f)}}
  IN  {e \in tail : \E n \in clean : n <= e.n /\ \A m \in clean : m <= n}

HostStart ==
  /\ hpc = "down" /\ Loadable
  /\ hpc' = "replay" /\ pin' = manifest
  /\ ingress' = Fresh /\ view' = NoView /\ trades' = {} /\ basis' = NoEvent
  /\ todo' = ReplayTail /\ feed' = {} /\ inHand' = NoEvent
  /\ UNCHANGED <<plan, brokerVars, bridgeMem, spoolDirs, archiveVars, omsVars,
                 persisted, deaths, fails>>

hostRest == <<plan, brokerVars, bridgeMem, archiveVars, pin, persisted, deaths>>

\* One replayed event; after an exception the host goes on polling.
Replay ==
  /\ hpc = "replay"
  /\ IF todo = {}
     THEN hpc' = "poll" /\ UNCHANGED <<ingress, view, trades, todo, feed, inHand, basis, fails>>
     ELSE \E e \in todo : Oldest(e, todo) /\ Take(e, todo \ {e})
  /\ UNCHANGED <<hostRest, spoolDirs, omsVars>>

\* EvidenceJournal.ingest for the mapped evidence, one transaction each; the first
\* conflict raises and the rest is not ingested.
Feed ==
  /\ hpc = "feed"
  /\ IF feed = {}
     THEN /\ Done(inHand)
          /\ settled' = Larger(settled, Cardinality(inHand.deals))
          /\ UNCHANGED <<rows, keys, feed, todo>>
     ELSE \E x \in feed :
          /\ \A y \in feed : x.row <= y.row
          /\ rows' = IngestRows(rows, keys, x.fact)
          /\ keys' = IngestKeys(rows, keys, x.fact)
          /\ IF Raises(IngestResult(rows, keys, x.fact)) THEN Failed
             ELSE feed' = feed \ {x} /\ UNCHANGED <<hpc, todo, inHand>>
          /\ UNCHANGED settled
  /\ UNCHANGED <<hostRest, spoolDirs, ingress, view, trades, basis, fails>>

\* Mutant: the file is copied to conflicts/ but stays in the inbox.
SetAside_Copied(e) ==
  /\ hpc = "poll" /\ Oldest(e, inbox) /\ Who(e.s) # Who(pin)
  /\ conflicts' = conflicts \cup {e}
  /\ UNCHANGED <<hostRest, inbox, processed, hpc, ingress, view, trades, todo, feed, inHand,
                 omsVars, basis, fails>>

\* QmtIngressIdentityError: the file of another account is set aside.
SetAside(e) ==
  /\ hpc = "poll" /\ Oldest(e, inbox) /\ Who(e.s) # Who(pin)
  /\ inbox' = inbox \ {e} /\ conflicts' = conflicts \cup {e}
  /\ UNCHANGED <<hostRest, processed, hpc, ingress, view, trades, todo, feed, inHand,
                 omsVars, basis, fails>>

\* poll_once, one file: after an exception it stays in the inbox.
Poll(e) ==
  /\ hpc = "poll" /\ Oldest(e, inbox) /\ Who(e.s) = Who(pin)
  /\ Take(e, {})
  /\ UNCHANGED <<hostRest, spoolDirs, omsVars>>

Move ==
  /\ hpc = "move"
  /\ inbox' = inbox \ {inHand} /\ processed' = processed \cup {inHand}
  /\ hpc' = "poll" /\ inHand' = NoEvent
  /\ UNCHANGED <<hostRest, conflicts, ingress, view, trades, todo, feed, omsVars, basis,
                 fails>>

Down == hpc' = "down" /\ todo' = {} /\ feed' = {} /\ inHand' = NoEvent

\* QmtOmsSessionRollover: main() returns 2; the file stays in the inbox.
RolloverExit(e) ==
  /\ \/ hpc = "poll" /\ Oldest(e, inbox) /\ Who(e.s) = Who(pin)
     \/ hpc = "replay" /\ Oldest(e, todo)
  /\ Rollover(e)
  /\ Down
  /\ UNCHANGED <<hostRest, spoolDirs, ingress, view, trades, omsVars, basis, fails>>

HostDies ==
  /\ hpc # "down" /\ deaths < plan.deaths
  /\ deaths' = deaths + 1
  /\ Down
  /\ UNCHANGED <<plan, brokerVars, bridgeMem, spoolDirs, archiveVars, pin, ingress, view,
                 trades, omsVars, persisted, basis, fails>>

-----------------------------------------------------------------------------
(* The daily archive, run by the host between polls for closed days.       *)

OfDay(files, d) == {e \in files : e.d = d}

\* _sequence_gaps
GapFree(records) ==
  \A e, f \in records :
    e.s = f.s /\ e.n < f.n => \E g \in records : g.s = e.s /\ g.n = e.n + 1

\* _find_final_snapshot: the last snapshot of the day is clean, and what follows only
\* repeats its account row.
Finalized(records) ==
  \E c \in records :
    /\ CleanSnapshot(c)
    /\ \A e \in records : Before(c, e) => e.s = c.s /\ e.t = "account" /\ e.cash = c.cash

\* archive_day: the reasons not to archive yet; the quiet period may have passed.
ArchiveReady(d) ==
  LET records == OfDay(processed, d) IN
  /\ d < day /\ d \notin committed /\ records # {}
  /\ OfDay(inbox, d) = {}
  /\ Cardinality({Who(e.s) : e \in records}) = 1
  /\ GapFree(records) /\ Finalized(records)

archiveRest == <<plan, brokerVars, bridgeMem, inbox, conflicts, pin, ingress, view, trades,
                 feed, inHand, omsVars, persisted, basis, deaths, fails>>

\* The archive and its manifest are written and verified ...
WriteArchive(d) ==
  /\ hpc = "poll" /\ ArchiveReady(d)
  /\ archive' = [archive EXCEPT ![d] = OfDay(processed, d)]
  /\ hpc' = "commit" /\ todo' = OfDay(processed, d)
  /\ UNCHANGED <<archiveRest, processed, committed>>

\* Mutant: the sources are deleted before the checkpoint commits the archive.
CommitArchive_DeleteFirst ==
  /\ hpc = "commit"
  /\ processed' = processed \ todo
  /\ hpc' = "delete" /\ committed' = committed
  /\ UNCHANGED <<archiveRest, archive, todo>>

\* ... the checkpoint commits them ...
CommitArchive ==
  /\ hpc = "commit"
  /\ committed' = committed \cup {e.d : e \in todo}
  /\ hpc' = "delete"
  /\ UNCHANGED <<archiveRest, processed, archive, todo>>

\* ... and only then the sources are deleted, file by file.
DeleteSource ==
  /\ hpc = "delete"
  /\ IF todo = {} THEN hpc' = "poll" /\ UNCHANGED <<processed, todo>>
     ELSE /\ \E e \in todo : Oldest(e, todo) /\ processed' = processed \ {e} /\ todo' = todo \ {e}
          /\ UNCHANGED hpc
  /\ UNCHANGED <<archiveRest, archiveVars>>

\* _recover_committed_day: finish the deletion, unless late events turned up.
RecoverDay(d) ==
  /\ hpc = "poll" /\ d < day /\ d \in committed
  /\ OfDay(processed, d) # {} /\ OfDay(processed, d) \subseteq archive[d]
  /\ hpc' = "delete" /\ todo' = OfDay(processed, d)
  /\ UNCHANGED <<archiveRest, processed, archiveVars>>

-----------------------------------------------------------------------------
BridgeSide ==
  \/ Load \/ Bind \/ AccountCallback \/ OrderCallback \/ RuntimeError \/ Flush \/ Unload
  \/ \E errors \in SUBSET plan.misses :
       \E none \in SUBSET (plan.misses \ errors) : ReadSnapshot(errors, none)
  \/ \E k \in 1..Quantity : DealCallback(k)

HostSide ==
  \/ HostStart \/ Replay \/ Feed \/ Move \/ CommitArchive \/ DeleteSource
  \/ \E e \in inbox : SetAside(e) \/ Poll(e)
  \/ \E e \in inbox \cup todo : RolloverExit(e)
  \/ \E d \in 1..MaxDay : WriteArchive(d) \/ RecoverDay(d)

EventNext == BridgeSide \/ BrokerMoves \/ HostSide \/ HostDies

\* The host's loop never blocks for good, and whoever supervises it starts it again.
EventSpec == EventInit /\ [][EventNext]_eventVars /\ WF_eventVars(HostSide)

-----------------------------------------------------------------------------
\* Files, queues and the read model keep their shape (protocol.py:40, spool.py:60).
EventsTypeOK ==
  /\ Len(outbox) <= plan.queue
  /\ inbox \cap processed = {} /\ inbox \cap conflicts = {}
  /\ hpc \in {"feed", "move"} <=> inHand # NoEvent
  /\ rows \in [Order -> Row]
  /\ ingress.last <= plan.events /\ view.deals \subseteq 1..Quantity

\* No published event is ever lost: whatever dies in the middle of polling, archiving or
\* deleting, each file is in the spool or in an archive that is committed
\* (archive.py:228-254, spool.py:265-311).
NothingLost == persisted \subseteq inbox \cup processed \cup conflicts \cup Archived

\* The host has taken in everything the bridge of this session emitted, no handler failed
\* since the last snapshot, that snapshot had no query errors, and the view is healthy.
CaughtUp ==
  /\ hpc \in {"poll", "move"} /\ view.healthy /\ basis # NoEvent
  /\ view.s = sess /\ ingress.s = sess /\ ingress.last = num

\* When the host has taken in everything the bridge emitted, a healthy view shows the
\* account row the bridge last saw and every deal it reported, although the bridge drops
\* events at its queue limit and suppresses account rows it believes were delivered
\* (V05:481, V05:1276, receiver.py:61-80).  Excepted: views built on a snapshot with
\* query errors, events whose handler failed, and what a query of the snapshot that came
\* back without rows (V05:643) should have shown: the account row until an account event
\* brings one, and the deals reported before the snapshot.
HealthyViewComplete ==
  CaughtUp =>
    /\ view.cash = lastCash \/ (view.cash = 0 /\ basis.cash = 0)
    /\ \A e \in persisted :
         e.s = sess /\ (basis.deals # {} \/ e.n >= basis.n) => e.deals \subseteq view.deals

\* Once a snapshot went through the OMS without an error, the durable fill covers every
\* deal in it, even though fills are summed from trades held in memory and callbacks are
\* lost; and no fill the broker did not make is ever recorded (guojin_evidence.py:296).
SnapshotConfirmsFills ==
  rows[TheOrder].filled >= settled /\ rows[TheOrder].filled <= dealt

Drained == inbox = {} \/ (hpc = "down" /\ ~Loadable)

\* The spool drains: files of another account, duplicates, gaps, failing handlers and
\* restarts never block the files behind them, unless the instance cannot be loaded or
\* an OMS host meets a file of an earlier session (spool.py:265-311, instances.py:300).
EventsDelivered ==
  <>[](Drained \/ (plan.oms /\ \E e \in inbox : e.s # manifest))

\* "A fresh Host startup validates the new manifest and replays its coherent tail"
\* (host.py:455): after a session rollover a new host gets through the spool.
RolloverRecovers == <>[]Drained

\* "Evidence replay is auditable and idempotent" (docs/P1_GATE_RESULT_20260912.md:80):
\* a broker that never contradicts itself never sends an order to manual review.
ReplayIdempotent == rows[TheOrder].status # "MANUAL_REVIEW"
=============================================================================
