--------------------------- MODULE EvidenceJournal --------------------------
(***************************************************************************)
(* The durable broker-evidence journal (oms/evidence.py) and the aggregate *)
(* order rows it maintains (oms/repository.py), fed with evidence in any   *)
(* order, any number of times.  Every ingest() is one SQLite transaction,  *)
(* so it is one action.  The command path and the leader lease are in      *)
(* OmsCore; here an order is already past its submit reservation.          *)
(***************************************************************************)
EXTENDS OrderLifecycle

CONSTANTS Evidence,    \* the evidence the sources may offer
          MaxOffers,   \* bound: how many different pieces of evidence arrive
          StartStatus  \* statuses an order may have when evidence arrives

VARIABLES rows,     \* broker_orders
          keys,     \* broker_evidence_keys (and the observations of accepted keys)
          journal,  \* broker_evidence_observations: <<evidence, classification>>
          offered   \* history: evidence ingest() has been called with

vars == <<rows, keys, journal, offered>>

ASSUME StartAssumption == StartStatus \subseteq Status \ (PreSubmit \cup BrokerStatus)

EvidenceRecord == [eid : {e.eid : e \in Evidence}, order : Order, status : BrokerStatus,
                   bid : BrokerId \cup {NoId}, filled : Nat]

\* Only validated evidence reaches ingest().
ASSUME EvidenceAssumption ==
  Evidence \subseteq EvidenceRecord /\ \A e \in Evidence : ValidFact(e)

Init ==
  /\ rows \in [Order -> {[AbsentRow EXCEPT !.status = st, !.submit = 1,
                                          !.cancel = IF st = "CANCEL_PENDING" THEN 1 ELSE 0] :
                         st \in StartStatus}]
  /\ keys = {}
  /\ journal = {}
  /\ offered = {}

\* The classification column written by _insert_observation; nothing is written
\* when the transaction rolls back.
Classification(result) ==
  CASE result = "applied"            -> {"NEW"}
    [] result = "duplicate"          -> {"DUPLICATE"}
    [] result = "semantic_duplicate" -> {"SEMANTIC_DUPLICATE"}
    [] result = "conflict_duplicate" -> {"CONFLICT_DUPLICATE"}
    [] result \in {"conflict", "identity_conflict"} -> {"CONFLICT"}
    [] OTHER                         -> {}

\* Mutant: the conflict branch records the evidence but leaves the order alone.
IngestedRows_ConflictIgnored(e) ==
  IF IngestResult(rows, keys, e) \in {"conflict", "identity_conflict"}
  THEN rows ELSE IngestRows(rows, keys, e)

\* Mutant: the fill replaces the stored one instead of being the larger of the two.
IngestedRows_FillOverwritten(e) ==
  IF IngestResult(rows, keys, e) = "applied"
  THEN [rows EXCEPT ![e.order] = [MergedRow(rows[e.order], e) EXCEPT !.filled = e.filled]]
  ELSE IngestRows(rows, keys, e)

\* Mutant: no state machine guard on the merge, so a late fact moves a closed order.
IngestedRows_NoAbsorption(e) ==
  IF IngestResult(rows, keys, e) = "applied"
  THEN [rows EXCEPT ![e.order].status = e.status]
  ELSE IngestRows(rows, keys, e)

IngestedRows(e) == IngestRows(rows, keys, e)

\* EvidenceJournal.ingest
Ingest(e) ==
  /\ Cardinality(offered \cup {e}) <= MaxOffers
  /\ rows' = IngestedRows(e)
  /\ keys' = IngestKeys(rows, keys, e)
  /\ journal' = journal \cup ({e} \X Classification(IngestResult(rows, keys, e)))
  /\ offered' = offered \cup {e}

Next == \E e \in Evidence : Ingest(e)

Spec == Init /\ [][Next]_vars

-----------------------------------------------------------------------------
Key == [eid : {e.eid : e \in Evidence}, order : Order, status : BrokerStatus,
        bid : BrokerId \cup {NoId}, filled : Nat, accepted : {0, 1}]

\* The durable tables keep their column types, whatever is offered
\* (repository.py:432, evidence.py:58).
TypeOK ==
  /\ rows \in [Order -> Row]
  /\ keys \subseteq Key
  /\ offered \subseteq Evidence
  /\ journal \subseteq Evidence \X {"NEW", "DUPLICATE", "SEMANTIC_DUPLICATE",
                                    "CONFLICT_DUPLICATE", "CONFLICT"}

\* The stored fill and the stored status never contradict each other, although
\* they are merged by two different rules (max of fills at repository.py:481,
\* status aggregation at repository.py:551) from facts that arrive in any order.
FillConsistent ==
  \A o \in Order :
    /\ rows[o].status = "FILLED" => rows[o].filled = Quantity
    /\ rows[o].status \in {"REJECTED", "ACKNOWLEDGED"} => rows[o].filled = 0
    /\ rows[o].status = "CANCELLED" => rows[o].filled < Quantity
    /\ rows[o].status = "PARTIALLY_FILLED" => rows[o].filled \in 1..(Quantity - 1)

\* An order whose evidence was refused as a conflict stays in MANUAL_REVIEW for
\* good: no later evidence, however plausible, reopens it (evidence.py:206-221).
ConflictHolds ==
  /\ \A k \in keys : k.accepted = 0 => rows[k.order].status = "MANUAL_REVIEW"
  /\ \A e \in offered : <<e, "CONFLICT">> \in journal
                        => rows[e.order].status = "MANUAL_REVIEW"

\* One source event id stands for one fact.  When an id comes back with another fact,
\* neither the order it first named nor the one it names now is trusted any more
\* (evidence.py:81-121).
OneFactPerEvent ==
  \A k \in keys, e \in offered :
    k.eid = e.eid /\ Fact(k) # Fact(e) /\ <<e, "CONFLICT">> \in journal
      => {rows[k.order].status, rows[e.order].status} = {"MANUAL_REVIEW"}

RowsAdvance ==
  \A o \in Order :
    /\ rows'[o].filled >= rows[o].filled
    /\ rows[o].bid # NoId => rows'[o].bid = rows[o].bid
    /\ rows[o].status \in BrokerTerminal
         => rows'[o].status \in {rows[o].status, "MANUAL_REVIEW"}
    /\ rows[o].status = "MANUAL_REVIEW" => rows'[o].status = "MANUAL_REVIEW"

\* Confirmed facts never go back: fills only grow, a broker id is never replaced, a
\* broker terminal status only ever gives way to MANUAL_REVIEW, and MANUAL_REVIEW
\* is final (repository.py:515-520, 551-587).
FactsNeverRegress == [][RowsAdvance]_vars

\* A history one broker could have reported of an order: one broker id, one terminal
\* fact, FILLED exactly when the fill is the whole order, no fill beyond the terminal
\* one, and no event id used twice.
Coherent(history) ==
  /\ \E e \in history :
       /\ e.status \in BrokerTerminal /\ e.filled <= Quantity
       /\ e.status = "FILLED" <=> e.filled = Quantity
       /\ \A f \in history \ {e} : f.status \notin BrokerTerminal /\ f.filled <= e.filled
  /\ Cardinality({e.bid : e \in history}) = 1
  /\ \A e \in history, f \in offered : e.eid = f.eid => e = f

\* Evidence of a broker that does not contradict itself converges: once the terminal
\* fact of an order is among what was delivered, in whatever order and however often,
\* the order has that status and that fill (repository.py:432-618, evidence.py:58).
Converges ==
  \A o \in Order :
    LET history == {e \in offered : e.order = o}
    IN  Coherent(history)
          => \E e \in history : /\ e.status \in BrokerTerminal
                                /\ rows[o].status = e.status
                                /\ rows[o].filled = e.filled

\* "Fail closed even when the current lifecycle state is terminal"
\* (repository.py:357): two contradictory broker terminal facts about an order leave
\* it in MANUAL_REVIEW, and both are on record.
ContradictionFailsClosed ==
  \A e \in offered :
    /\ ~TerminalClash(rows[e.order].status, e.status)
    /\ \E c \in {"NEW", "DUPLICATE", "SEMANTIC_DUPLICATE", "CONFLICT_DUPLICATE",
                 "CONFLICT"} : <<e, c>> \in journal
=============================================================================
