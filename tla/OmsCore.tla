------------------------------- MODULE OmsCore -------------------------------
(***************************************************************************)
(* OfflineOms (oms/service.py) over the SQLite repository                  *)
(* (oms/repository.py), the evidence journal (oms/evidence.py), the        *)
(* single-row leader lease (oms/leader.py) and an ExecutionDriver          *)
(* (ports/execution.py).                                                   *)
(*                                                                         *)
(* A Session is one OfflineOms instance: its session_id is a fresh uuid, so *)
(* each element starts at most once and never regains a lease it lost.     *)
(* Sessions run as separate processes on one database.  One transaction,   *)
(* one driver call or one lease check outside a transaction is one action, *)
(* and a crash or a takeover may fall between any two.  Within a session   *)
(* everything is sequential (one SQLite connection, one thread).           *)
(*                                                                         *)
(* Time is abstracted: a lease that is "live" may become "expired" at any  *)
(* moment.  LeaseCoordinator models the clock; both modules implement      *)
(* WriterLease.                                                            *)
(*                                                                         *)
(* The broker is external and does not contradict itself, but it may lose  *)
(* a call, answer a query late or not at all, and its callbacks arrive in  *)
(* any order, any number of times.  Its id for order o is o itself.        *)
(***************************************************************************)
EXTENDS OrderLifecycle

CONSTANTS Session,        \* OfflineOms instances
          NoSession,      \* no row in oms_leader
          NoOrder,        \* no order in hand
          NoReply,        \* query_by_client_order_id returned None
          MaxRecoveries,  \* bound: recover() calls per session
          MaxFacts        \* bound: different facts the broker publishes

ASSUME OmsAssumption ==
  /\ NoSession \notin Session
  /\ NoOrder \notin Order
  /\ NoId \notin BrokerId
  /\ Order \subseteq BrokerId
  /\ MaxRecoveries \in Nat
  /\ MaxFacts \in Nat

VARIABLES
  \* durable: the SQLite database
  orders,       \* broker_orders
  keys,         \* broker_evidence_keys
  holder,       \* session_id of the oms_leader row
  lease,        \* "free" (no row), "live" or "expired"
  \* one OfflineOms instance
  pc,           \* where its thread is
  op,           \* "submit", "cancel" or "recover" while pc is inside one
  cur,          \* the order in hand
  seen,         \* status of that order as recover() tracks it
  todo,         \* candidates recover() has still to visit
  snap,         \* rows as list_recovery_candidates() returned them
  reply,        \* what the last driver query returned
  recoveries,   \* recover() calls so far
  reconciled,   \* sessions with _reconciled = True
  \* external: the broker, and the calls that reached the driver
  broker,       \* [st, filled] of each order at the broker
  emitted,      \* facts the broker has published (callbacks, query answers)
  submits,      \* submit_limit_order calls per order
  cancels,      \* cancel_order calls per order
  \* history
  writer,       \* session whose transaction last wrote the order's row
  faults        \* internal errors raised: see Fault

durable     == <<orders, keys, writer>>
leaseVars   == <<holder, lease>>
progress    == <<pc, op, cur, seen, todo, snap, reply, recoveries, reconciled>>
brokerVars  == <<broker, emitted, submits, cancels>>
vars        == <<orders, keys, holder, lease, pc, op, cur, seen, todo, snap, reply,
                 recoveries, reconciled, broker, emitted, submits, cancels, writer, faults>>

Pc == {"off", "closed", "idle",
       "created", "authorized", "reserved", "armed", "returned", "failed",
       "unknown", "reconciling", "answered", "ingested",
       "next", "visiting"}

\* Errors that reach the caller.  Only "QueryFailed" comes from outside (the driver).
Fault == {"InvalidTransition", "AlreadyStarted", "RecoveryInvariantViolation",
          "BrokerEvidenceConflict", "QueryFailed"}

BlankSnap == [o \in Order |-> AbsentRow]

Init ==
  /\ orders = [o \in Order |-> AbsentRow]
  /\ keys = {}
  /\ holder = NoSession /\ lease = "free"
  /\ pc = [s \in Session |-> "off"]
  /\ op = [s \in Session |-> "none"]
  /\ cur = [s \in Session |-> NoOrder]
  /\ seen = [s \in Session |-> "ABSENT"]
  /\ todo = [s \in Session |-> {}]
  /\ snap = [s \in Session |-> BlankSnap]
  /\ reply = [s \in Session |-> NoReply]
  /\ recoveries = [s \in Session |-> 0]
  /\ reconciled = {}
  /\ broker = [o \in Order |-> [st |-> "NONE", filled |-> 0]]
  /\ emitted = {}
  /\ submits = [o \in Order |-> 0]
  /\ cancels = [o \in Order |-> 0]
  /\ writer = [o \in Order |-> NoSession]
  /\ faults = {}

-----------------------------------------------------------------------------
(* Lease and lifecycle of a session.                                       *)

\* assert_held: the row names this session and has not expired.
Held(s) == holder = s /\ lease = "live"

\* Mutant: leadership is not checked when a transaction starts.
Guard_Unfenced(s) == pc[s] # "off"

\* _guard_write_in_tx, inside BEGIN IMMEDIATE: no takeover can fall between the
\* check and the commit, so guard and write are one step.
Guard(s) == Held(s)

\* acquire: no row, or the row has expired.
LeaseAvailable == lease \in {"free", "expired"}

\* OfflineOms.__init__: acquire, then start_session.
Start(s) ==
  /\ pc[s] = "off"
  /\ LeaseAvailable
  /\ holder' = s /\ lease' = "live"
  /\ pc' = [pc EXCEPT ![s] = "idle"]
  /\ UNCHANGED <<durable, op, cur, seen, todo, snap, reply, recoveries, reconciled,
                 brokerVars, faults>>

\* Leave whatever operation the session was in: locals are gone.
Done(s, where) ==
  /\ pc' = [pc EXCEPT ![s] = where]
  /\ op' = [op EXCEPT ![s] = "none"]
  /\ cur' = [cur EXCEPT ![s] = NoOrder]
  /\ seen' = [seen EXCEPT ![s] = "ABSENT"]
  /\ todo' = [todo EXCEPT ![s] = {}]
  /\ snap' = [snap EXCEPT ![s] = BlankSnap]
  /\ reply' = [reply EXCEPT ![s] = NoReply]
  /\ UNCHANGED recoveries

\* Mutant: release() clears the session but leaves the row in place.
Close_RowKept(s) ==
  /\ pc[s] = "idle"
  /\ holder' = (IF holder = s THEN NoSession ELSE holder)
  /\ reconciled' = reconciled \ {s}
  /\ Done(s, "closed")
  /\ UNCHANGED <<durable, lease, brokerVars, faults>>

\* Mutant: release() deletes whatever row there is.
Close_AnyRow(s) ==
  /\ pc[s] = "idle"
  /\ holder' = NoSession /\ lease' = "free"
  /\ reconciled' = reconciled \ {s}
  /\ Done(s, "closed")
  /\ UNCHANGED <<durable, brokerVars, faults>>

\* close(): release deletes the row only if it is still this session's.
Close(s) ==
  /\ pc[s] = "idle"
  /\ IF holder = s THEN holder' = NoSession /\ lease' = "free"
                   ELSE UNCHANGED leaseVars
  /\ reconciled' = reconciled \ {s}
  /\ Done(s, "closed")
  /\ UNCHANGED <<durable, brokerVars, faults>>

\* The process dies; the lease row stays and must expire.
Crash(s) ==
  /\ pc[s] \notin {"off", "closed"}
  /\ reconciled' = reconciled \ {s}
  /\ Done(s, "closed")
  /\ UNCHANGED <<durable, leaseVars, brokerVars, faults>>

\* Time passes without a heartbeat.
Expire ==
  /\ lease = "live"
  /\ lease' = "expired"
  /\ UNCHANGED <<durable, holder, progress, brokerVars, faults>>

\* recover()'s heartbeat read the clock before the lease ran out and its transaction
\* started afterwards; nobody had taken the lease, so it is renewed.
Renew(s) ==
  /\ pc[s] = "next"
  /\ holder = s /\ lease = "expired"
  /\ lease' = "live"
  /\ UNCHANGED <<durable, holder, progress, brokerVars, faults>>

\* Any assert_leader, guard or heartbeat raises OmsLeaderLost: the operation ends
\* with nothing written.  After the driver call has been decided ("armed") there is
\* no further check before the call.
Fenced(s) ==
  /\ pc[s] \notin {"off", "closed", "idle", "armed"}
  /\ ~Held(s)
  /\ Done(s, "idle")
  /\ UNCHANGED <<durable, leaseVars, reconciled, brokerVars, faults>>

-----------------------------------------------------------------------------
(* Writing rows.                                                           *)

\* Move on inside an operation; recover() tracks the status it last wrote.
Goto(s, where, status) ==
  /\ pc' = [pc EXCEPT ![s] = where]
  /\ seen' = [seen EXCEPT ![s] = status]
  /\ UNCHANGED <<op, cur, todo, snap, reply, recoveries>>

\* Go on at `where`, or return to the caller.
Continue(s, where, status) ==
  IF where = "idle" THEN Done(s, "idle") ELSE Goto(s, where, status)

\* Every transaction stamps the rows it changes with its session.
Stamp(s) == writer' = [o \in Order |-> IF orders'[o] # orders[o] THEN s ELSE writer[o]]

\* One transition_order transaction on the order in hand.  An illegal request raises
\* InvalidTransition: the transaction rolls back and the operation ends.
Write(s, target, resolve, where) ==
  LET o == cur[s] IN
  /\ Guard(s)
  /\ IF Legal(orders[o].status, target)
     THEN /\ orders' = [orders EXCEPT ![o] = TransitionRow(@, target, resolve)]
          /\ Continue(s, where, target)
          /\ UNCHANGED faults
     ELSE /\ UNCHANGED orders
          /\ Done(s, "idle")
          /\ faults' = faults \cup {"InvalidTransition"}
  /\ Stamp(s)
  /\ UNCHANGED <<keys, leaseVars, reconciled, brokerVars>>

\* One EvidenceJournal.ingest transaction; a conflict is raised to the caller after
\* the transaction has committed.
Ingest(s, e) ==
  /\ Guard(s)
  /\ orders' = IngestRows(orders, keys, e)
  /\ keys' = IngestKeys(orders, keys, e)
  /\ faults' = IF Raises(IngestResult(orders, keys, e))
               THEN faults \cup {"BrokerEvidenceConflict"} ELSE faults
  /\ Stamp(s)
  /\ UNCHANGED <<leaseVars, reconciled, brokerVars>>

-----------------------------------------------------------------------------
(* submit_authorized_intent                                                *)

\* Mutant: commands do not wait for recover().
Ready_Unreconciled(s) == pc[s] = "idle"

\* assert_leader has passed and OmsNotReconciled is not raised.
Ready(s) == pc[s] = "idle" /\ s \in reconciled

\* create_intent; the primary key refuses a second intent with the same id.
CreateIntent(s, o) ==
  /\ Ready(s)
  /\ Guard(s)
  /\ orders[o].status = "ABSENT"
  /\ orders' = [orders EXCEPT ![o] = [AbsentRow EXCEPT !.status = "CREATED"]]
  /\ Stamp(s)
  /\ pc' = [pc EXCEPT ![s] = "created"]
  /\ op' = [op EXCEPT ![s] = "submit"]
  /\ cur' = [cur EXCEPT ![s] = o]
  /\ UNCHANGED <<keys, leaseVars, seen, todo, snap, reply, recoveries, reconciled,
                 brokerVars, faults>>

\* record_risk_decision: the authorization handed in accepts or rejects.
RecordRiskDecision(s) ==
  /\ pc[s] = "created"
  /\ \E accepted \in BOOLEAN :
       IF accepted THEN Write(s, "RISK_ACCEPTED", FALSE, "authorized")
                   ELSE Write(s, "RISK_REJECTED", FALSE, "idle")

\* Mutant: the UPDATE does not test call_started=0.
CanReserve_FlagIgnored(row, target, started) == Moves(row.status, target)

\* The two conditions of prepare_submit_in_tx and prepare_cancel_in_tx: the state
\* machine moves, and the UPDATE ... WHERE call_started=0 matches the row.
CanReserve(row, target, started) == Moves(row.status, target) /\ started = 0

\* Mutant: the status is written but the reservation column is not.
PrepareSubmit_FlagNotSet(s) ==
  /\ pc[s] = "authorized"
  /\ Write(s, "SUBMITTING", FALSE, "reserved")

PrepareSubmit(s) ==
  LET o == cur[s] IN
  /\ pc[s] = "authorized"
  /\ Guard(s)
  /\ IF CanReserve(orders[o], "SUBMITTING", orders[o].submit)
     THEN /\ orders' = [orders EXCEPT ![o].status = "SUBMITTING", ![o].submit = 1]
          /\ Goto(s, "reserved", "SUBMITTING")
          /\ UNCHANGED faults
     ELSE /\ UNCHANGED orders
          /\ Done(s, "idle")
          /\ faults' = faults \cup {"AlreadyStarted"}
  /\ Stamp(s)
  /\ UNCHANGED <<keys, leaseVars, reconciled, brokerVars>>

-----------------------------------------------------------------------------
(* cancel_order                                                            *)

PrepareCancel(s, o) ==
  /\ Ready(s)
  /\ Guard(s)
  /\ CanReserve(orders[o], "CANCEL_PENDING", orders[o].cancel)
  /\ orders' = [orders EXCEPT ![o].status = "CANCEL_PENDING", ![o].cancel = 1,
                              ![o].resolved = 0]
  /\ Stamp(s)
  /\ pc' = [pc EXCEPT ![s] = "reserved"]
  /\ op' = [op EXCEPT ![s] = "cancel"]
  /\ cur' = [cur EXCEPT ![s] = o]
  /\ UNCHANGED <<keys, leaseVars, seen, todo, snap, reply, recoveries, reconciled,
                 brokerVars, faults>>

-----------------------------------------------------------------------------
(* The side effect and what follows it, common to submit and cancel.       *)

\* assert_leader after the reservation has committed.
AssertBeforeCall(s) ==
  /\ pc[s] = "reserved"
  /\ Held(s)
  /\ Goto(s, "armed", seen[s])
  /\ UNCHANGED <<durable, leaseVars, reconciled, brokerVars, faults>>

\* driver.submit_limit_order / driver.cancel_order.  Nothing is checked here: the
\* lease may have been lost since.  The call returns or raises, and neither says
\* whether the broker took it.
CallDriver(s) ==
  LET o == cur[s] IN
  /\ pc[s] = "armed"
  /\ \E where \in {"returned", "failed"} : Goto(s, where, seen[s])
  /\ IF op[s] = "submit"
     THEN /\ submits' = [submits EXCEPT ![o] = @ + 1]
          /\ broker' = [broker EXCEPT ![o].st = IF @ = "NONE" THEN "SENT" ELSE @]
          /\ UNCHANGED <<cancels, emitted>>
     ELSE /\ cancels' = [cancels EXCEPT ![o] = @ + 1]
          /\ UNCHANGED <<submits, broker, emitted>>
  /\ UNCHANGED <<durable, leaseVars, reconciled, faults>>

\* Mutant: an exception of the driver is taken for a rejection.
PersistUnknown_Rejects(s) ==
  \/ pc[s] = "failed" /\ Write(s, IF op[s] = "submit" THEN "REJECTED" ELSE "UNKNOWN",
                               FALSE, "idle")
  \/ pc[s] = "returned" /\ Write(s, "UNKNOWN", FALSE, "unknown")

\* Whatever the call did, the order is UNKNOWN; after an exception that is all.
PersistUnknown(s) ==
  \/ pc[s] = "failed" /\ Write(s, "UNKNOWN", FALSE, "idle")
  \/ pc[s] = "returned" /\ Write(s, "UNKNOWN", FALSE, "unknown")

BeginReconciling(s) ==
  /\ pc[s] = "unknown"
  /\ Write(s, "RECONCILING", FALSE, "reconciling")

\* Whether recover() must still settle a cancel of the order in hand.
CancelUnresolved(s) == snap[s][cur[s]].cancel = 1 /\ snap[s][cur[s]].resolved = 0

\* The order in hand is to be looked up at the broker.
AtQuery(s) ==
  \/ pc[s] = "reconciling"
  \/ /\ pc[s] = "visiting"
     /\ seen[s] \notin {"CREATED", "RISK_ACCEPTED", "SUBMITTING", "CANCEL_PENDING",
                        "UNKNOWN"}
     /\ CancelUnresolved(s) => seen[s] \in {"RECONCILING", "MANUAL_REVIEW"}

\* query_by_client_order_id between two lease checks: None, or any fact the broker
\* has published for the order (the answer may be stale).
Query(s) ==
  /\ AtQuery(s)
  /\ Held(s)
  /\ \E r \in {NoReply} \cup {f \in emitted : f.order = cur[s]} :
       reply' = [reply EXCEPT ![s] = r]
  /\ pc' = [pc EXCEPT ![s] = "answered"]
  /\ UNCHANGED <<durable, leaseVars, op, cur, seen, todo, snap, recoveries, reconciled,
                 brokerVars, faults>>

\* The driver's query raises; nothing catches it, the operation ends.
QueryFails(s) ==
  /\ AtQuery(s)
  /\ Held(s)
  /\ Done(s, "idle")
  /\ faults' = faults \cup {"QueryFailed"}
  /\ UNCHANGED <<durable, leaseVars, reconciled, brokerVars>>

\* _ingest_active_query_evidence: the event id is session_id:reason:client_order_id.
QueryEvidence(s) ==
  [eid |-> <<s, op[s], cur[s]>>, order |-> cur[s], status |-> reply[s].status,
   bid |-> cur[s], filled |-> reply[s].filled]

\* The answer of the query that follows a submit or a cancel.
ApplyAnswer(s) ==
  /\ pc[s] = "answered" /\ op[s] # "recover"
  /\ IF reply[s] = NoReply
     THEN /\ Held(s)
          /\ Done(s, "idle")
          /\ UNCHANGED <<durable, leaseVars, reconciled, brokerVars, faults>>
     ELSE /\ Ingest(s, QueryEvidence(s))
          /\ IF Raises(IngestResult(orders, keys, QueryEvidence(s))) \/ op[s] = "submit"
             THEN Done(s, "idle") ELSE Goto(s, "ingested", orders'[cur[s]].status)

\* CANCEL_ACTIVE_QUERY_RESOLVED: the status ingest() returned, requested again.
ResolveCancel(s) ==
  /\ pc[s] = "ingested" /\ op[s] = "cancel"
  /\ Write(s, seen[s], TRUE, "idle")

-----------------------------------------------------------------------------
(* recover                                                                 *)

StartRecovery(s) ==
  /\ pc[s] = "idle"
  /\ recoveries[s] < MaxRecoveries
  /\ Held(s)
  /\ pc' = [pc EXCEPT ![s] = "next"]
  /\ op' = [op EXCEPT ![s] = "recover"]
  /\ todo' = [todo EXCEPT ![s] = {o \in Order : RecoveryCandidate(orders[o])}]
  /\ snap' = [snap EXCEPT ![s] = orders]
  /\ recoveries' = [recoveries EXCEPT ![s] = @ + 1]
  /\ UNCHANGED <<durable, leaseVars, cur, seen, reply, reconciled, brokerVars, faults>>

\* Mutant: the candidate in hand stays on the list.
Visit_Again(s) ==
  /\ pc[s] = "next"
  /\ Held(s)
  /\ \E o \in todo[s] :
       /\ cur' = [cur EXCEPT ![s] = o]
       /\ seen' = [seen EXCEPT ![s] = snap[s][o].status]
  /\ pc' = [pc EXCEPT ![s] = "visiting"]
  /\ UNCHANGED <<durable, leaseVars, op, todo, snap, reply, recoveries, reconciled,
                 brokerVars, faults>>

\* The next candidate, after a heartbeat.  The code visits them by rowid; the model
\* in any order.
Visit(s) ==
  /\ pc[s] = "next"
  /\ Held(s)
  /\ \E o \in todo[s] :
       /\ cur' = [cur EXCEPT ![s] = o]
       /\ seen' = [seen EXCEPT ![s] = snap[s][o].status]
       /\ todo' = [todo EXCEPT ![s] = @ \ {o}]
  /\ pc' = [pc EXCEPT ![s] = "visiting"]
  /\ UNCHANGED <<durable, leaseVars, op, snap, reply, recoveries, reconciled, brokerVars,
                 faults>>

\* A row that contradicts its own reservations stops recovery.
ImpossibleRow(s) ==
  LET row == snap[s][cur[s]] IN
  \/ seen[s] \in {"CREATED", "RISK_ACCEPTED"}
       /\ (row.submit = 1 \/ row.cancel = 1 \/ row.bid # NoId)
  \/ seen[s] = "SUBMITTING" /\ row.submit = 0
  \/ seen[s] = "CANCEL_PENDING" /\ row.cancel = 0

RecoveryFails(s) ==
  /\ Done(s, "idle")
  /\ faults' = faults \cup {"RecoveryInvariantViolation"}
  /\ UNCHANGED <<durable, leaseVars, reconciled, brokerVars>>

\* Durable pre-side-effect orphans are aborted, never submitted.
AbortOrphan(s) ==
  /\ pc[s] = "visiting" /\ seen[s] \in {"CREATED", "RISK_ACCEPTED"}
  /\ IF ImpossibleRow(s) THEN RecoveryFails(s) ELSE Write(s, "ABORTED", FALSE, "next")

\* Mutant: a row found in SUBMITTING goes to RECONCILING at once.
Classify_SkipsUnknown(s) ==
  /\ pc[s] = "visiting"
  /\ seen[s] \in {"SUBMITTING", "CANCEL_PENDING", "UNKNOWN"}
  /\ Write(s, "RECONCILING", FALSE, "visiting")

\* The branches of the loop body that walk a row to RECONCILING, one write each.
Classify(s) ==
  /\ pc[s] = "visiting"
  /\ IF ImpossibleRow(s) THEN seen[s] \in {"SUBMITTING", "CANCEL_PENDING"} /\ RecoveryFails(s)
     ELSE \/ seen[s] = "SUBMITTING" /\ Write(s, "UNKNOWN", FALSE, "visiting")
          \/ /\ CancelUnresolved(s) /\ seen[s] \in {"ACKNOWLEDGED", "PARTIALLY_FILLED"}
             /\ Write(s, "CANCEL_PENDING", FALSE, "visiting")
          \/ seen[s] = "CANCEL_PENDING" /\ Write(s, "UNKNOWN", FALSE, "visiting")
          \/ seen[s] = "UNKNOWN" /\ Write(s, "RECONCILING", FALSE, "visiting")

\* A terminal broker status settles the cancel.
CancelAlreadyTerminal(s) ==
  /\ pc[s] = "visiting" /\ CancelUnresolved(s) /\ seen[s] \in BrokerTerminal
  /\ Write(s, seen[s], TRUE, "next")

\* The answer of recovery's query: not found means MANUAL_REVIEW, never a retry.
ApplyRecoveryAnswer(s) ==
  /\ pc[s] = "answered" /\ op[s] = "recover"
  /\ IF reply[s] = NoReply
     THEN Write(s, "MANUAL_REVIEW", CancelUnresolved(s), "next")
     ELSE /\ Ingest(s, QueryEvidence(s))
          /\ IF Raises(IngestResult(orders, keys, QueryEvidence(s))) THEN Done(s, "idle")
             ELSE Goto(s, IF CancelUnresolved(s) THEN "ingested" ELSE "next", seen[s])

RecoveryResolvesCancel(s) ==
  /\ pc[s] = "ingested" /\ op[s] = "recover"
  /\ Write(s, orders[cur[s]].status, TRUE, "next")

\* Mutant: recover() returns after the first candidate.
FinishRecovery_Early(s) ==
  /\ pc[s] = "next"
  /\ Guard(s)
  /\ reconciled' = reconciled \cup {s}
  /\ Done(s, "idle")
  /\ UNCHANGED <<durable, leaseVars, brokerVars, faults>>

\* Final heartbeat, mark_session_reconciled, _reconciled = True.
FinishRecovery(s) ==
  /\ pc[s] = "next" /\ todo[s] = {}
  /\ Guard(s)
  /\ reconciled' = reconciled \cup {s}
  /\ Done(s, "idle")
  /\ UNCHANGED <<durable, leaseVars, brokerVars, faults>>

-----------------------------------------------------------------------------
(* ingest_broker_evidence: a callback handed to an idle OMS.               *)

CallbackEvidence(f) ==
  [eid |-> <<"callback", f.order, f.status, f.filled>>, order |-> f.order,
   status |-> f.status, bid |-> f.order, filled |-> f.filled]

Callback(s, f) ==
  /\ pc[s] = "idle"
  /\ Ingest(s, CallbackEvidence(f))
  /\ UNCHANGED <<pc, op, cur, seen, todo, snap, reply, recoveries>>

-----------------------------------------------------------------------------
(* External: the broker.                                                   *)

Publish(o, st, filled) ==
  /\ Cardinality(emitted) < MaxFacts
  /\ broker' = [broker EXCEPT ![o] = [st |-> st, filled |-> filled]]
  /\ emitted' = emitted \cup {[order |-> o, status |-> st, filled |-> filled]}
  /\ UNCHANGED <<durable, leaseVars, progress, submits, cancels, faults>>

BrokerAnswers(o) ==
  /\ broker[o].st = "SENT"
  /\ \E st \in {"ACKNOWLEDGED", "REJECTED"} : Publish(o, st, 0)

BrokerFills(o) ==
  /\ broker[o].st \in {"ACKNOWLEDGED", "PARTIALLY_FILLED"}
  /\ \E n \in (broker[o].filled + 1)..Quantity :
       Publish(o, IF n = Quantity THEN "FILLED" ELSE "PARTIALLY_FILLED", n)

\* On request or on its own account (end of day).
BrokerCancels(o) ==
  /\ broker[o].st \in {"ACKNOWLEDGED", "PARTIALLY_FILLED"}
  /\ Publish(o, "CANCELLED", broker[o].filled)

-----------------------------------------------------------------------------
\* What a running session does next once an operation has begun.
Step(s) ==
  \/ RecordRiskDecision(s) \/ PrepareSubmit(s) \/ AssertBeforeCall(s) \/ CallDriver(s)
  \/ PersistUnknown(s) \/ BeginReconciling(s) \/ Query(s) \/ ApplyAnswer(s)
  \/ ResolveCancel(s) \/ Visit(s) \/ AbortOrphan(s) \/ Classify(s)
  \/ CancelAlreadyTerminal(s) \/ ApplyRecoveryAnswer(s) \/ RecoveryResolvesCancel(s)
  \/ FinishRecovery(s) \/ Fenced(s)

Next ==
  \/ \E s \in Session :
       \/ Start(s) \/ Close(s) \/ Crash(s) \/ Renew(s)
       \/ StartRecovery(s) \/ Step(s) \/ QueryFails(s)
       \/ \E o \in Order : CreateIntent(s, o) \/ PrepareCancel(s, o)
       \/ \E f \in emitted : Callback(s, f)
  \/ Expire
  \/ \E o \in Order : BrokerAnswers(o) \/ BrokerFills(o) \/ BrokerCancels(o)

Spec == Init /\ [][Next]_vars

\* A started session is driven: its caller calls recover() once and the thread runs.
\* Starting, crashing, expiry, new orders and the broker are not forced.
FairSpec ==
  Spec /\ \A s \in Session :
            WF_vars(StartRecovery(s) /\ s \notin reconciled) /\ WF_vars(Step(s))

-----------------------------------------------------------------------------
EventId == (Session \X {"submit", "cancel", "recover"} \X Order)
           \cup ({"callback"} \X Order \X BrokerStatus \X (0..Quantity))

Key == [eid : EventId, order : Order, status : BrokerStatus,
        bid : BrokerId \cup {NoId}, filled : 0..Quantity, accepted : {0, 1}]

Published == [order : Order, status : BrokerStatus, filled : 0..Quantity]

\* The tables, each session's locals and the broker's book keep their types; the
\* lease has an owner exactly when the oms_leader row exists (leader.py:54-200).
TypeOK ==
  /\ orders \in [Order -> Row]
  /\ keys \subseteq Key
  /\ holder \in Session \cup {NoSession}
  /\ lease \in {"free", "live", "expired"}
  /\ holder = NoSession <=> lease = "free"
  /\ pc \in [Session -> Pc]
  /\ op \in [Session -> {"none", "submit", "cancel", "recover"}]
  /\ cur \in [Session -> Order \cup {NoOrder}]
  /\ seen \in [Session -> Status \cup {"ABSENT"}]
  /\ todo \in [Session -> SUBSET Order]
  /\ snap \in [Session -> [Order -> Row]]
  /\ reply \in [Session -> Published \cup {NoReply}]
  /\ recoveries \in [Session -> 0..MaxRecoveries]
  /\ reconciled \subseteq Session
  /\ broker \in [Order -> [st : BrokerStatus \cup {"NONE", "SENT"}, filled : 0..Quantity]]
  /\ emitted \subseteq Published
  /\ submits \in [Order -> Nat]
  /\ cancels \in [Order -> Nat]
  /\ writer \in [Order -> Session \cup {NoSession}]
  /\ faults \subseteq Fault

\* Over all sessions, crashes, takeovers and recoveries, the driver is called at most
\* once to submit an order and at most once to cancel it (repository.py:178-254 before
\* service.py:353-356 and 416-419; the call itself is not fenced).
AtMostOneBrokerCall == \A o \in Order : submits[o] <= 1 /\ cancels[o] <= 1

\* A call that reached the driver was durably reserved first, and the order can never
\* again look like one that was not sent (repository.py:211-215, 250-254).
ReservedBeforeCall ==
  \A o \in Order :
    /\ submits[o] > 0 => orders[o].submit = 1 /\ orders[o].status \notin PreSubmit \cup {"ABSENT"}
    /\ cancels[o] > 0 => orders[o].cancel = 1

\* The OMS never believes more than the broker reported: no invented fill, no terminal
\* status the broker does not have, no broker id for an order that was never accepted.
\* Whatever the driver call did must therefore have been recorded as UNKNOWN
\* (service.py:357-385, 420-448).
BrokerTruth ==
  \A o \in Order :
    /\ orders[o].filled <= broker[o].filled
    /\ orders[o].status \in BrokerTerminal => broker[o].st = orders[o].status
    /\ orders[o].bid # NoId => broker[o].st \in BrokerStatus

\* With a broker that does not contradict itself and one recover() per session, no
\* operation fails on the OMS's own rules: no illegal transition, no refused
\* reservation, no impossible row, no evidence conflict, whatever the interleaving of
\* queries, late callbacks, crashes and takeovers (service.py:176-473).
NoInternalFault == faults \subseteq {"QueryFailed"}

\* While a session holds the lease, the rows recover() read before its first write are
\* still what the database says about every candidate it has yet to visit: the
\* snapshot of service.py:178 cannot go stale under the loop.
SnapshotCurrent ==
  \A s \in Session : Held(s) => \A o \in todo[s] : snap[s][o] = orders[o]

\* A row never goes back: fills and flags only grow, a broker id is never replaced, a
\* closed order is only ever reopened as MANUAL_REVIEW, and MANUAL_REVIEW is final
\* (repository.py:432-587).
LifecycleMonotone ==
  [][\A o \in Order :
       /\ orders'[o].filled >= orders[o].filled
       /\ orders'[o].submit >= orders[o].submit
       /\ orders'[o].cancel >= orders[o].cancel
       /\ orders'[o].resolved >= orders[o].resolved
       /\ orders[o].bid # NoId => orders'[o].bid = orders[o].bid
       /\ orders[o].status \in Terminal
            => orders'[o].status \in {orders[o].status, "MANUAL_REVIEW"}
       /\ orders[o].status # "ABSENT" => orders'[o].status # "ABSENT"]_vars

\* When recover() completes, no order is left that recovery would have to visit: nothing
\* stays ambiguous behind a session that calls itself reconciled (service.py:176-302).
RecoveryResolves ==
  [][\A s \in Session :
       Held(s) /\ pc[s] = "next" /\ pc'[s] = "idle"
         => \A o \in Order : ~RecoveryCandidate(orders'[o])]_vars

\* No new exposure while a predecessor's order is unsettled: when a submit or a cancel is
\* reserved, every order that is still ambiguous was made so by this very session
\* (service.py:343-344, 413-414).
NoExposureBeforeReconciliation ==
  [][\A o \in Order :
       orders'[o].submit > orders[o].submit \/ orders'[o].cancel > orders[o].cancel
         => \A p \in Order : RecoveryCandidate(orders[p]) => writer[p] = holder]_vars

\* A session that keeps its lease, and whose driver answers its queries, becomes
\* reconciled: recover() visits every candidate and terminates (service.py:178-302).
RecoveryCompletes ==
  \A s \in Session :
    <>[]Held(s) /\ [](pc[s] # "closed") /\ []("QueryFailed" \notin faults)
      => <>(s \in reconciled)

\* A session has a LeaderLease object from its start to its close() or death.
claims == {s \in Session : pc[s] \notin {"off", "closed"}}

Lease == INSTANCE WriterLease

\* Sessions use the lease only as leader.py allows: it changes hands when free or
\* expired, a session's close() frees only the lease of that very session, and a
\* session that lost its lease, or died, leaves the row to its owner
\* (service.py:56-127, leader.py:191-200).
ImplementsWriterLease == Lease!Spec
=============================================================================
