--------------------------- MODULE OrderLifecycle ---------------------------
(***************************************************************************)
(* The value-level rules of one durable order: the command-path state      *)
(* machine (domain/state_machine.py), the row operations of                *)
(* oms/repository.py and the broker-fact merge and evidence-identity rules *)
(* of oms/repository.py and oms/evidence.py.  Everything here is a pure    *)
(* operator; the modules that EXTEND this one own the state.               *)
(*                                                                         *)
(* A broker_orders row is a record                                         *)
(*   status   an OrderStatus, or "ABSENT" before create_intent             *)
(*   bid      broker_order_id, NoId for SQL NULL                           *)
(*   filled   filled_quantity                                              *)
(*   submit, cancel, resolved   the 0/1 columns submit_call_started,       *)
(*            cancel_call_started and cancel_outcome_resolved              *)
(* Evidence is a record with eid (source + source_event_id), the order it  *)
(* names and the normalized fact: status, bid, filled.  The fact is what   *)
(* semantic_digest covers; the transport metadata it excludes is left out. *)
(***************************************************************************)
EXTENDS Integers, FiniteSets

CONSTANTS Order,      \* client_order_ids of one account
          BrokerId,   \* order ids a broker can assign
          Quantity,   \* order_intents.quantity, the same for every order
          NoId        \* SQL NULL in broker_order_id

ASSUME QuantityAssumption == Quantity \in Nat \ {0}

Terminal == {"RISK_REJECTED", "ABORTED", "FILLED", "CANCELLED", "REJECTED",
             "MANUAL_REVIEW"}

BrokerTerminal == {"FILLED", "CANCELLED", "REJECTED"}

\* The statuses a validated BrokerEvidenceV1 may request.
BrokerStatus == {"ACKNOWLEDGED", "PARTIALLY_FILLED"} \cup BrokerTerminal

\* Statuses that precede the submit reservation or rule it out for good.
PreSubmit == {"CREATED", "RISK_ACCEPTED", "RISK_REJECTED", "ABORTED"}

Status == PreSubmit \cup BrokerStatus \cup
          {"SUBMITTING", "CANCEL_PENDING", "UNKNOWN", "RECONCILING", "MANUAL_REVIEW"}

Row == [status : Status \cup {"ABSENT"}, bid : BrokerId \cup {NoId},
        filled : 0..Quantity, submit : {0, 1}, cancel : {0, 1}, resolved : {0, 1}]

AbsentRow == [status |-> "ABSENT", bid |-> NoId, filled |-> 0,
              submit |-> 0, cancel |-> 0, resolved |-> 0]

Larger(a, b) == IF a >= b THEN a ELSE b

(***************************************************************************)
(* The command-path state machine.                                         *)
(***************************************************************************)

\* _ALLOWED
Allowed(s) ==
  CASE s = "CREATED"          -> {"RISK_REJECTED", "RISK_ACCEPTED", "ABORTED"}
    [] s = "RISK_ACCEPTED"    -> {"SUBMITTING", "ABORTED"}
    [] s = "SUBMITTING"       -> {"ACKNOWLEDGED", "REJECTED", "UNKNOWN"}
    [] s = "ACKNOWLEDGED"     -> {"PARTIALLY_FILLED", "FILLED", "CANCEL_PENDING"}
    [] s = "PARTIALLY_FILLED" -> {"FILLED", "CANCEL_PENDING", "CANCELLED"}
    [] s = "CANCEL_PENDING"   -> {"CANCELLED", "PARTIALLY_FILLED", "FILLED", "UNKNOWN"}
    [] s = "UNKNOWN"          -> {"RECONCILING"}
    [] s = "RECONCILING"      -> BrokerStatus \cup {"MANUAL_REVIEW"}
    [] OTHER                  -> {}

\* _STALE: observations older than the current state.
Stale(s) ==
  CASE s = "RISK_ACCEPTED" -> {"CREATED"}
    [] s = "SUBMITTING"    -> {"CREATED", "RISK_ACCEPTED"}
    [] s = "ACKNOWLEDGED"  -> {"CREATED", "RISK_ACCEPTED", "SUBMITTING"}
    [] s \in {"PARTIALLY_FILLED", "CANCEL_PENDING"}
         -> {"CREATED", "RISK_ACCEPTED", "SUBMITTING", "ACKNOWLEDGED"}
    [] OTHER -> {}

\* transition(): whether the requested status moves the order ...
Moves(cur, target) == cur # target /\ cur \notin Terminal /\ target \in Allowed(cur)

\* ... and whether the request is accepted at all (else InvalidTransition).
Legal(cur, target) ==
  cur = target \/ cur \in Terminal \/ target \in Allowed(cur) \cup Stale(cur)

\* _transition_in_tx without a broker fact, for the calls that pass no fill and
\* no broker id: the status moves or stays; resolve sets cancel_outcome_resolved.
TransitionRow(row, target, resolve) ==
  [row EXCEPT !.status   = IF Moves(@, target) THEN target ELSE @,
              !.resolved = IF resolve THEN 1 ELSE @]

\* list_recovery_candidates: the WHERE clause.
RecoveryCandidate(row) ==
  \/ row.status \in {"CREATED", "RISK_ACCEPTED", "SUBMITTING", "CANCEL_PENDING",
                     "UNKNOWN", "RECONCILING"}
  \/ row.cancel = 1 /\ row.resolved = 0

(***************************************************************************)
(* Merging a broker fact (merge_broker_fact_in_tx).                        *)
(***************************************************************************)

\* BrokerEvidenceV1.__post_init__: the facts that can be constructed at all.
ValidFact(e) ==
  /\ e.filled >= 0
  /\ CASE e.status = "ACKNOWLEDGED" -> e.bid # NoId /\ e.filled = 0
       [] e.status \in {"PARTIALLY_FILLED", "FILLED"} -> e.bid # NoId /\ e.filled > 0
       [] e.status = "CANCELLED" -> e.bid # NoId
       [] e.status = "REJECTED" -> e.filled = 0
       [] OTHER -> FALSE

\* _normalize_broker_status: the InvalidFilledQuantity cases ...
FillContradicts(status, fill) ==
  \/ status = "FILLED" /\ fill # Quantity
  \/ status = "REJECTED" /\ fill # 0
  \/ status = "CANCELLED" /\ fill = Quantity
  \/ status = "PARTIALLY_FILLED" /\ fill = 0

\* ... and the status it returns otherwise.
Normalized(status, fill) ==
  CASE status \in {"ACKNOWLEDGED", "PARTIALLY_FILLED"} /\ fill = Quantity -> "FILLED"
    [] status \in {"ACKNOWLEDGED", "PARTIALLY_FILLED"} /\ fill \in 1..(Quantity - 1)
         -> "PARTIALLY_FILLED"
    [] OTHER -> status

\* Mutant: a late ACKNOWLEDGED or partial fill overwrites a terminal status.
Aggregated_Regresses(cur, target) ==
  IF cur = "MANUAL_REVIEW" THEN cur ELSE target

\* _aggregate_broker_status: MANUAL_REVIEW and broker terminals absorb, a late
\* ACKNOWLEDGED does not undo a partial fill or a pending cancel.
Aggregated(cur, target) ==
  IF \/ cur \in BrokerTerminal \cup {"MANUAL_REVIEW"}
     \/ target = "ACKNOWLEDGED" /\ cur \in {"PARTIALLY_FILLED", "CANCEL_PENDING"}
  THEN cur ELSE target

TerminalClash(a, b) == a \in BrokerTerminal /\ b \in BrokerTerminal /\ a # b

\* Mutant: a fill one above the order quantity passes.
Overfilled_OffByOne(fill) == fill > Quantity + 1

\* filled_quantity above order_intents.quantity.
Overfilled(fill) == fill > Quantity

\* _transition_in_tx with broker_fact=True: which exception, in the code's order.
MergeOutcome(row, e) ==
  LET fill == Larger(row.filled, e.filled) IN
  IF e.bid # NoId /\ row.bid \notin {NoId, e.bid} THEN "broker_order_id_mismatch"
  ELSE IF TerminalClash(row.status, e.status) THEN "terminal_conflict"
  ELSE IF Overfilled(e.filled) \/ FillContradicts(e.status, fill) THEN "invalid_fill"
  ELSE IF \/ TerminalClash(row.status, Normalized(e.status, fill))
          \/ row.status \in {"CANCELLED", "REJECTED"} /\ fill > row.filled
       THEN "terminal_conflict"
  ELSE "ok"

MergedRow(row, e) ==
  LET fill == Larger(row.filled, e.filled) IN
  [row EXCEPT !.status = Aggregated(@, Normalized(e.status, fill)),
              !.bid    = IF @ = NoId THEN e.bid ELSE @,
              !.filled = fill]

\* mark_broker_conflict_manual_review_in_tx; fill is the row's own when the
\* caller passes None.
ReviewRow(row, fill) ==
  [row EXCEPT !.status = "MANUAL_REVIEW", !.filled = Larger(@, fill)]

(***************************************************************************)
(* Evidence identity (EvidenceJournal.ingest).  keys is the set of         *)
(* broker_evidence_keys rows: an evidence record plus accepted \in {0,1}.  *)
(* The observations with classification NEW, DUPLICATE or                  *)
(* SEMANTIC_DUPLICATE carry exactly the facts of the accepted keys, so     *)
(* keys stands for both tables here.                                       *)
(***************************************************************************)

Fact(e) == <<e.order, e.status, e.bid, e.filled>>

WithAccepted(e, a) == [eid |-> e.eid, order |-> e.order, status |-> e.status,
                       bid |-> e.bid, filled |-> e.filled, accepted |-> a]

\* _semantic_duplicate_exists
SemanticDuplicate(row, keys, e) ==
  /\ Legal(row.status, e.status)
  /\ ~Moves(row.status, e.status)
  /\ \E k \in keys : k.accepted = 1 /\ Fact(k) = Fact(e)

\* Which way ingest() ends.  "rolled_back": the exception leaves the with-block,
\* so the transaction keeps nothing; this happens for an unknown order, and when
\* a terminal clash carries a fill above the order quantity, because the
\* MANUAL_REVIEW write itself then raises InvalidFilledQuantity.
IngestResult(rows, keys, e) ==
  LET row  == rows[e.order]
      same == {k \in keys : k.eid = e.eid}
  IN  IF row.status = "ABSENT" THEN "rolled_back"
      ELSE IF \E k \in same : Fact(k) # Fact(e) THEN "identity_conflict"
      ELSE IF \E k \in same : k.accepted = 1 THEN "duplicate"
      ELSE IF same # {} THEN "conflict_duplicate"
      ELSE IF SemanticDuplicate(row, keys, e) THEN "semantic_duplicate"
      ELSE IF MergeOutcome(row, e) = "ok" THEN "applied"
      ELSE IF MergeOutcome(row, e) = "terminal_conflict" /\ Overfilled(e.filled)
           THEN "rolled_back"
      ELSE "conflict"

\* ingest() raises BrokerEvidenceConflict (after committing the journal rows) or
\* the error that rolled the transaction back.
Raises(result) ==
  result \in {"identity_conflict", "conflict_duplicate", "conflict", "rolled_back"}

IngestRows(rows, keys, e) ==
  LET result == IngestResult(rows, keys, e)
      row    == rows[e.order]
  IN  CASE result = "identity_conflict" ->
             [o \in Order |->
               IF o = e.order \/ \E k \in keys : k.eid = e.eid /\ k.order = o
               THEN ReviewRow(rows[o], rows[o].filled) ELSE rows[o]]
        [] result = "applied" -> [rows EXCEPT ![e.order] = MergedRow(row, e)]
        [] result = "conflict" ->
             [rows EXCEPT ![e.order] =
               ReviewRow(row, IF MergeOutcome(row, e) = "terminal_conflict"
                              THEN e.filled ELSE row.filled)]
        [] OTHER -> rows

IngestKeys(rows, keys, e) ==
  LET result == IngestResult(rows, keys, e) IN
  CASE result \in {"applied", "semantic_duplicate"} -> keys \cup {WithAccepted(e, 1)}
    [] result = "conflict"                          -> keys \cup {WithAccepted(e, 0)}
    [] OTHER                                        -> keys
=============================================================================
