------------------------ MODULE EvidenceJournalProofs -----------------------
(***************************************************************************)
(* EvidenceJournal for every set of evidence, contradictory or not, every  *)
(* number of orders and every quantity.                                    *)
(***************************************************************************)
EXTENDS EvidenceJournal, FiniteSetTheorems, TLAPS

\* The fill and the status of one row agree.
RowConsistent(row) ==
  /\ row.status = "FILLED" => row.filled = Quantity
  /\ row.status \in {"REJECTED", "ACKNOWLEDGED"} => row.filled = 0
  /\ row.status = "CANCELLED" => row.filled < Quantity
  /\ row.status = "PARTIALLY_FILLED" => row.filled \in 1..(Quantity - 1)

\* What a row may turn into.
RowAdvances(row, new) ==
  /\ new.filled >= row.filled
  /\ row.bid # NoId => new.bid = row.bid
  /\ row.status \in BrokerTerminal => new.status \in {row.status, "MANUAL_REVIEW"}
  /\ row.status = "MANUAL_REVIEW" => new.status = "MANUAL_REVIEW"

\* Taking an order out of service keeps its fill and its broker id
\* (repository.py:348-397).
LEMMA ReviewRowFacts ==
  ASSUME NEW row \in Row, NEW fill \in 0..Quantity
  PROVE  /\ ReviewRow(row, fill) \in Row
         /\ ReviewRow(row, fill).status = "MANUAL_REVIEW"
         /\ RowConsistent(ReviewRow(row, fill))
         /\ RowAdvances(row, ReviewRow(row, fill))
<1>1. Larger(row.filled, fill) \in 0..Quantity /\ Larger(row.filled, fill) >= row.filled
  BY QuantityAssumption DEF Larger, Row
<1>2. /\ ReviewRow(row, fill) \in Row
      /\ ReviewRow(row, fill).status = "MANUAL_REVIEW"
      /\ ReviewRow(row, fill).filled = Larger(row.filled, fill)
      /\ ReviewRow(row, fill).bid = row.bid
  BY <1>1 DEF ReviewRow, Row, Status
<1> QED
  BY <1>1, <1>2 DEF RowConsistent, RowAdvances

\* A merge that raises nothing keeps the row consistent and never goes back
\* (repository.py:432-618).
LEMMA MergedRowFacts ==
  ASSUME NEW row \in Row, NEW e \in EvidenceRecord, MergeOutcome(row, e) = "ok", RowConsistent(row)
  PROVE  /\ MergedRow(row, e) \in Row
         /\ RowConsistent(MergedRow(row, e))
         /\ RowAdvances(row, MergedRow(row, e))
<1> DEFINE fill == Larger(row.filled, e.filled)
           target == Normalized(e.status, fill)
           m == MergedRow(row, e)
<1>1. /\ ~Overfilled(e.filled) /\ ~FillContradicts(e.status, fill)
      /\ ~TerminalClash(row.status, target)
      /\ ~(row.status \in {"CANCELLED", "REJECTED"} /\ fill > row.filled)
      /\ ~(e.bid # NoId /\ row.bid \notin {NoId, e.bid})
  BY DEF MergeOutcome
<1>2. e.filled \in Nat /\ e.status \in BrokerStatus /\ e.bid \in BrokerId \cup {NoId}
  BY DEF EvidenceRecord
<1>3. fill \in 0..Quantity /\ fill >= row.filled
  BY <1>1, <1>2, QuantityAssumption DEF Larger, Row, Overfilled
<1>4. /\ target \in BrokerStatus
      /\ target = "FILLED" => fill = Quantity
      /\ target \in {"REJECTED", "ACKNOWLEDGED"} => fill = 0
      /\ target = "CANCELLED" => fill < Quantity
      /\ target = "PARTIALLY_FILLED" => fill \in 1..(Quantity - 1)
  <2>1. ~FillContradicts(e.status, fill)
    BY <1>1
  <2> HIDE DEF fill
  <2> QED
    BY <1>2, <1>3, <2>1, QuantityAssumption
       DEF Normalized, FillContradicts, BrokerStatus, BrokerTerminal
<1> HIDE DEF fill, target
<1>5. /\ m.status = Aggregated(row.status, target)
      /\ m.filled = fill
      /\ m.bid = IF row.bid = NoId THEN e.bid ELSE row.bid
      /\ m \in Row
  <2>1. Aggregated(row.status, target) \in Status \cup {"ABSENT"}
    BY <1>4 DEF Aggregated, Row, Status
  <2> QED
    BY <1>2, <1>3, <2>1 DEF MergedRow, Row, fill, target
<1>6. RowConsistent(m)
  <2>1. CASE row.status \in BrokerTerminal \cup {"MANUAL_REVIEW"}
    <3>1. m.status = row.status
      BY <1>5, <2>1 DEF Aggregated
    <3>2. row.filled \in 0..Quantity
      BY DEF Row
    <3> QED
      BY <1>1, <1>3, <1>5, <2>1, <3>1, <3>2, QuantityAssumption DEF RowConsistent, BrokerTerminal
  <2>2. CASE row.status \notin BrokerTerminal \cup {"MANUAL_REVIEW"}
    <3>1. \/ m.status = target
          \/ /\ target = "ACKNOWLEDGED" /\ m.status = row.status
             /\ row.status \in {"PARTIALLY_FILLED", "CANCEL_PENDING"}
      BY <1>5, <2>2 DEF Aggregated
    <3>2. row.filled \in 0..Quantity
      BY DEF Row
    <3> QED
      BY <1>3, <1>4, <1>5, <3>1, <3>2, QuantityAssumption DEF RowConsistent, BrokerTerminal
  <2> QED
    BY <2>1, <2>2
<1>7. RowAdvances(row, m)
  BY <1>3, <1>5 DEF RowAdvances, Aggregated
<1> QED
  BY <1>5, <1>6, <1>7

\* Whatever evidence is ingested, every row of the table stays typed and consistent and
\* none goes back (evidence.py:58-226).
LEMMA IngestRowsFacts ==
  ASSUME NEW t \in [Order -> Row], NEW ks, NEW e \in EvidenceRecord,
         \A o \in Order : RowConsistent(t[o])
  PROVE  /\ IngestRows(t, ks, e) \in [Order -> Row]
         /\ \A o \in Order : /\ RowConsistent(IngestRows(t, ks, e)[o])
                             /\ RowAdvances(t[o], IngestRows(t, ks, e)[o])
<1> DEFINE Good(r, q) == q \in Row /\ RowConsistent(q) /\ RowAdvances(r, q)
           result == IngestResult(t, ks, e)
           new == IngestRows(t, ks, e)
<1>0. e.order \in Order /\ e.filled \in Nat
  BY DEF EvidenceRecord
<1>1. \A o \in Order : t[o].filled \in 0..Quantity /\ Good(t[o], t[o])
  BY DEF Row, RowAdvances
<1>2. \A o \in Order, f \in 0..Quantity : Good(t[o], ReviewRow(t[o], f))
  BY ReviewRowFacts
<1>3. MergeOutcome(t[e.order], e) = "ok" => Good(t[e.order], MergedRow(t[e.order], e))
  BY <1>0, MergedRowFacts
<1> SUFFICES new \in [Order -> Row] /\ \A o \in Order : Good(t[o], new[o])
  OBVIOUS
<1>4. \A r, q : Good(r, q) => q \in Row
  OBVIOUS
<1> HIDE DEF Good
<1>5. CASE result = "identity_conflict"
  <2>1. new = [o \in Order |->
                 IF o = e.order \/ \E k \in ks : k.eid = e.eid /\ k.order = o
                 THEN ReviewRow(t[o], t[o].filled) ELSE t[o]]
    BY <1>5 DEF IngestRows
  <2> QED
    BY <1>1, <1>2, <1>4, <2>1
<1>6. CASE result = "applied"
  <2>1. MergeOutcome(t[e.order], e) = "ok"
    BY <1>6 DEF IngestResult
  <2>2. new = [t EXCEPT ![e.order] = MergedRow(t[e.order], e)]
    BY <1>6 DEF IngestRows
  <2> QED
    BY <1>0, <1>1, <1>3, <1>4, <2>1, <2>2
<1>7. CASE result = "conflict"
  <2> DEFINE f == IF MergeOutcome(t[e.order], e) = "terminal_conflict"
                  THEN e.filled ELSE t[e.order].filled
  <2>1. MergeOutcome(t[e.order], e) = "terminal_conflict" => ~Overfilled(e.filled)
    BY <1>7 DEF IngestResult
  <2>2. f \in 0..Quantity
    BY <1>0, <1>1, <2>1, QuantityAssumption DEF Overfilled
  <2>3. new = [t EXCEPT ![e.order] = ReviewRow(t[e.order], f)]
    BY <1>7 DEF IngestRows
  <2> HIDE DEF f
  <2> QED
    BY <1>0, <1>1, <1>2, <1>4, <2>2, <2>3
<1>8. CASE result \notin {"identity_conflict", "applied", "conflict"}
  <2>1. new = t
    BY <1>8 DEF IngestRows
  <2> QED
    BY <1>1, <2>1
<1> QED
  BY <1>5, <1>6, <1>7, <1>8

\* The inductive invariant: types, consistent rows, refused evidence under review, and one
\* key per event id, present whenever a conflict about that id is on record.
KeysUnique == \A k, l \in keys : k.eid = l.eid => k = l

ConflictHasKey ==
  \A e \in offered : <<e, "CONFLICT">> \in journal => \E k \in keys : k.eid = e.eid

JournalOffered ==
  journal \subseteq offered \X {"NEW", "DUPLICATE", "SEMANTIC_DUPLICATE",
                               "CONFLICT_DUPLICATE", "CONFLICT"}

JournalInv ==
  /\ TypeOK
  /\ FillConsistent
  /\ ConflictHolds
  /\ OneFactPerEvent
  /\ KeysUnique
  /\ ConflictHasKey
  /\ JournalOffered

\* Where nothing has been ingested the invariant holds.
LEMMA InitInv == Init => JournalInv
<1> SUFFICES ASSUME Init PROVE JournalInv
  OBVIOUS
<1>1. \A o \in Order : \E st \in StartStatus :
        rows[o] = [AbsentRow EXCEPT !.status = st, !.submit = 1,
                                    !.cancel = IF st = "CANCEL_PENDING" THEN 1 ELSE 0]
  BY DEF Init
<1>2. \A o \in Order : rows[o] \in Row /\ rows[o].status \notin BrokerStatus
  <2> SUFFICES ASSUME NEW o \in Order PROVE rows[o] \in Row /\ rows[o].status \notin BrokerStatus
    OBVIOUS
  <2>1. PICK st \in StartStatus :
          rows[o] = [AbsentRow EXCEPT !.status = st, !.submit = 1,
                                      !.cancel = IF st = "CANCEL_PENDING" THEN 1 ELSE 0]
    BY <1>1
  <2>2. st \in Status /\ st \notin BrokerStatus /\ 0 \in 0..Quantity
    BY StartAssumption, QuantityAssumption
  <2>3. rows[o] = [status |-> st, bid |-> NoId, filled |-> 0, submit |-> 1,
                   cancel |-> IF st = "CANCEL_PENDING" THEN 1 ELSE 0, resolved |-> 0]
    BY <2>1 DEF AbsentRow
  <2> QED
    BY <2>2, <2>3 DEF Row
<1>3. TypeOK
  <2>1. rows \in [Order -> Row]
    <3>1. DOMAIN rows = Order /\ rows = [o \in DOMAIN rows |-> rows[o]]
      BY DEF Init
    <3> QED
      BY <1>2, <3>1
  <2> QED
    BY <2>1 DEF Init, TypeOK
<1>4. FillConsistent
  BY <1>2 DEF FillConsistent, BrokerStatus, BrokerTerminal
<1>5. keys = {} /\ journal = {} /\ offered = {}
  BY DEF Init
<1>6. ConflictHolds /\ OneFactPerEvent /\ KeysUnique /\ ConflictHasKey /\ JournalOffered
  BY <1>5 DEF ConflictHolds, OneFactPerEvent, KeysUnique, ConflictHasKey, JournalOffered
<1> QED
  BY <1>3, <1>4, <1>6 DEF JournalInv

\* An ingest preserves the invariant.
LEMMA IngestInv ==
  ASSUME JournalInv, NEW e \in Evidence, Ingest(e)
  PROVE  JournalInv' /\ \A o \in Order : RowAdvances(rows[o], rows'[o])
<1> DEFINE result == IngestResult(rows, keys, e)
           refused == result \in {"conflict", "identity_conflict"}
<1>0. /\ rows' = IngestRows(rows, keys, e) /\ keys' = IngestKeys(rows, keys, e)
      /\ journal' = journal \cup ({e} \X Classification(result))
      /\ offered' = offered \cup {e}
  BY DEF Ingest, IngestedRows
<1>1. e \in EvidenceRecord /\ e.order \in Order
  BY EvidenceAssumption DEF EvidenceRecord
<1>2. rows \in [Order -> Row] /\ keys \subseteq Key /\ \A o \in Order : RowConsistent(rows[o])
  BY DEF JournalInv, TypeOK, FillConsistent, RowConsistent
<1>3. /\ rows' \in [Order -> Row]
      /\ \A o \in Order : RowConsistent(rows'[o]) /\ RowAdvances(rows[o], rows'[o])
  BY <1>0, <1>1, <1>2, IngestRowsFacts
<1>4. FillConsistent'
  BY <1>3 DEF FillConsistent, RowConsistent
<1>5. /\ WithAccepted(e, 0) \in Key /\ WithAccepted(e, 1) \in Key
      /\ \A a \in {0, 1} : /\ WithAccepted(e, a).eid = e.eid /\ WithAccepted(e, a).accepted = a
                           /\ WithAccepted(e, a).order = e.order
                           /\ Fact(WithAccepted(e, a)) = Fact(e)
  BY <1>1 DEF WithAccepted, Key, EvidenceRecord, Fact
<1>6. keys' = keys \/ keys' = keys \cup {WithAccepted(e, 1)}
      \/ (result = "conflict" /\ keys' = keys \cup {WithAccepted(e, 0)})
  BY <1>0 DEF IngestKeys
<1>7. Classification(result) \subseteq {"NEW", "DUPLICATE", "SEMANTIC_DUPLICATE",
                                        "CONFLICT_DUPLICATE", "CONFLICT"}
      /\ ("CONFLICT" \in Classification(result) => refused)
  BY DEF Classification
<1>8. TypeOK'
  BY <1>0, <1>3, <1>2, <1>5, <1>6, <1>7 DEF TypeOK, JournalInv
<1>9. \A o \in Order : rows[o].status = "MANUAL_REVIEW" => rows'[o].status = "MANUAL_REVIEW"
  BY <1>3 DEF RowAdvances
<1>10. refused => rows'[e.order].status = "MANUAL_REVIEW"
  <2>1. \A o \in Order : \A f : ReviewRow(rows[o], f).status = "MANUAL_REVIEW"
    BY <1>2 DEF ReviewRow, Row
  <2> QED
    BY <1>0, <1>1, <1>2, <2>1 DEF IngestRows
<1>11. \A k \in keys : k.order \in Order
  BY <1>2 DEF Key
<1>12. \A x \in offered : x.order \in Order
  BY EvidenceAssumption DEF JournalInv, TypeOK, EvidenceRecord
<1>13. ConflictHolds'
  <2>1. \A k \in keys' : k.accepted = 0 => rows'[k.order].status = "MANUAL_REVIEW"
    BY <1>5, <1>6, <1>9, <1>10, <1>11 DEF JournalInv, ConflictHolds
  <2>2. ASSUME NEW x \in offered', <<x, "CONFLICT">> \in journal'
        PROVE  rows'[x.order].status = "MANUAL_REVIEW"
    <3>1. CASE x \in offered /\ <<x, "CONFLICT">> \in journal
      BY <1>9, <1>12, <3>1 DEF JournalInv, ConflictHolds
    <3>2. CASE x = e /\ "CONFLICT" \in Classification(result)
      BY <1>7, <1>10, <3>2
    <3> QED
      BY <1>0, <2>2, <3>1, <3>2 DEF JournalInv, JournalOffered
  <2> QED
    BY <2>1, <2>2 DEF ConflictHolds
<1>14. keys' # keys => \A k \in keys : k.eid # e.eid
  <2>1. result \in {"applied", "semantic_duplicate", "conflict"}
          => \A k \in keys : k.eid # e.eid
    <3> SUFFICES ASSUME NEW k \in keys, k.eid = e.eid
                 PROVE  result \in {"rolled_back", "identity_conflict", "duplicate",
                                   "conflict_duplicate"}
      OBVIOUS
    <3>1. k.accepted = 0 \/ k.accepted = 1
      BY <1>2 DEF Key
    <3>2. CASE \E l \in keys : l.eid = e.eid /\ Fact(l) # Fact(e)
      BY <3>2 DEF IngestResult
    <3>3. CASE ~\E l \in keys : l.eid = e.eid /\ Fact(l) # Fact(e)
      BY <3>1, <3>3 DEF IngestResult
    <3> QED
      BY <3>2, <3>3
  <2> QED
    BY <1>0, <2>1 DEF IngestKeys
<1>15. KeysUnique'
  BY <1>5, <1>6, <1>14 DEF JournalInv, KeysUnique
<1>16. JournalOffered'
  BY <1>0, <1>7 DEF JournalInv, JournalOffered
<1>17. refused => \E k \in keys' : k.eid = e.eid
  <2>1. result = "identity_conflict" => \E k \in keys : k.eid = e.eid
    BY DEF IngestResult
  <2>2. result = "conflict" => WithAccepted(e, 0) \in keys'
    BY <1>0 DEF IngestKeys
  <2> QED
    BY <1>5, <1>6, <2>1, <2>2
<1>18. \A x \in offered' : <<x, "CONFLICT">> \in journal'
         => \/ x \in offered /\ <<x, "CONFLICT">> \in journal
            \/ x = e /\ refused
  BY <1>0, <1>7 DEF JournalInv, JournalOffered
<1>19. ConflictHasKey'
  BY <1>6, <1>17, <1>18 DEF JournalInv, ConflictHasKey
<1>20. OneFactPerEvent'
  <2> SUFFICES ASSUME NEW k \in keys', NEW x \in offered', k.eid = x.eid, Fact(k) # Fact(x),
                      <<x, "CONFLICT">> \in journal'
               PROVE  rows'[k.order].status = "MANUAL_REVIEW" /\ rows'[x.order].status = "MANUAL_REVIEW"
    BY DEF OneFactPerEvent
  <2>1. rows'[x.order].status = "MANUAL_REVIEW"
    BY <1>13 DEF ConflictHolds
  <2>2. CASE x \in offered /\ <<x, "CONFLICT">> \in journal
    <3>1. k \in keys
      <4>1. \E l \in keys : l.eid = x.eid
        BY <2>2 DEF JournalInv, ConflictHasKey
      <4> QED
        BY <1>5, <1>6, <1>14, <4>1
    <3> QED
      BY <1>9, <1>11, <2>1, <2>2, <3>1 DEF JournalInv, OneFactPerEvent
  <2>3. CASE x = e /\ refused
    <3>1. k \in keys
      BY <1>5, <1>6, <2>3
    <3>2. result = "identity_conflict"
      BY <2>3, <3>1 DEF IngestResult
    <3>3. rows'[k.order] = ReviewRow(rows[k.order], rows[k.order].filled)
      BY <1>0, <1>11, <2>3, <3>1, <3>2 DEF IngestRows
    <3>4. rows'[k.order].status = "MANUAL_REVIEW"
      BY <1>2, <1>11, <3>1, <3>3 DEF ReviewRow, Row
    <3> QED
      BY <2>1, <3>4
  <2> QED
    BY <1>18, <2>2, <2>3
<1> QED
  BY <1>3, <1>4, <1>8, <1>13, <1>15, <1>16, <1>19, <1>20 DEF JournalInv

\* Every step preserves the invariant.
LEMMA NextInv == JournalInv /\ [Next]_vars => JournalInv'
<1> SUFFICES ASSUME JournalInv, [Next]_vars PROVE JournalInv'
  OBVIOUS
<1>1. CASE Next
  BY <1>1, IngestInv DEF Next
<1>2. CASE UNCHANGED vars
  BY <1>2 DEF vars, JournalInv, TypeOK, FillConsistent, ConflictHolds, OneFactPerEvent,
              KeysUnique, ConflictHasKey, JournalOffered
<1> QED
  BY <1>1, <1>2

\* The invariant holds in every reachable state.
THEOREM JournalInvariance == Spec => []JournalInv
  BY InitInv, NextInv, PTL DEF Spec

\* The durable tables keep their types, whatever evidence the sources send.
THEOREM TypeCorrect == Spec => []TypeOK
  BY JournalInvariance, PTL DEF JournalInv

\* Status and fill never contradict each other, in whatever order facts arrive
\* (repository.py:432-618).
THEOREM FillsAreConsistent == Spec => []FillConsistent
  BY JournalInvariance, PTL DEF JournalInv

\* Refused evidence keeps its order in MANUAL_REVIEW for good (evidence.py:206-221).
THEOREM ConflictsHold == Spec => []ConflictHolds
  BY JournalInvariance, PTL DEF JournalInv

\* A reused event id takes both orders it named out of service (evidence.py:81-121).
THEOREM EventsAreUnique == Spec => []OneFactPerEvent
  BY JournalInvariance, PTL DEF JournalInv

\* Confirmed facts never go back (repository.py:515-520, 551-587).
THEOREM NoRegression == Spec => FactsNeverRegress
<1>1. JournalInv /\ [Next]_vars => [\A o \in Order : RowAdvances(rows[o], rows'[o])]_vars
  BY IngestInv DEF Next
<1>2. [\A o \in Order : RowAdvances(rows[o], rows'[o])]_vars => [RowsAdvance]_vars
  BY DEF RowAdvances, RowsAdvance
<1> QED
  BY <1>1, <1>2, JournalInvariance, PTL DEF Spec, FactsNeverRegress

(***************************************************************************)
(* Convergence.  A broker that does not contradict itself is described on  *)
(* every prefix of what it reports: Agreeing is closed under taking facts  *)
(* away, which Coherent, with its terminal fact, is not.                   *)
(***************************************************************************)
History(o) == {e \in offered : e.order = o}

\* The facts of one order fit together: one broker id, fills within the order, and a
\* terminal fact, if there is one, that closes all others.
Agreeing(history) ==
  /\ \A e, f \in history : e.bid = f.bid
  /\ \A e \in history : e.filled <= Quantity
  /\ \A e \in history : e.status \in BrokerTerminal =>
       /\ e.status = "FILLED" <=> e.filled = Quantity
       /\ \A f \in history : f # e => f.status \notin BrokerTerminal /\ f.filled <= e.filled

\* No event id of the order's facts has another meaning.
OwnIds(o) == \A e \in History(o), f \in offered : e.eid = f.eid => e = f

\* The row is a summary of the facts: nothing in it comes from elsewhere, and it shows
\* the terminal fact if there is one.  A row may already be FILLED without a terminal
\* fact, because a fill of the whole quantity is normalised.
Summary(row, history) ==
  /\ row.status # "MANUAL_REVIEW"
  /\ row.bid # NoId => \E e \in history : e.bid = row.bid
  /\ row.filled = 0 \/ \E e \in history : row.filled = e.filled
  /\ row.status \in {"CANCELLED", "REJECTED"}
       => \E e \in history : e.status \in BrokerTerminal
  /\ \A e \in history : e.status \in BrokerTerminal
       => row.status = e.status /\ row.filled = e.filled

Summarised ==
  \A o \in Order : OwnIds(o) /\ Agreeing(History(o)) => Summary(rows[o], History(o))

KeysOffered == \A k \in keys : \E e \in offered : e.eid = k.eid /\ Fact(e) = Fact(k)

\* Merging one more fact that fits raises nothing, and the row stays the summary
\* (repository.py:432-618).
LEMMA MergeSummary ==
  ASSUME NEW row \in Row, RowConsistent(row), row.status # "ABSENT",
         NEW h, h \subseteq EvidenceRecord, NEW e \in EvidenceRecord, ValidFact(e),
         Agreeing(h \cup {e}), Summary(row, h)
  PROVE  MergeOutcome(row, e) = "ok" /\ Summary(MergedRow(row, e), h \cup {e})
<1> DEFINE fill == Larger(row.filled, e.filled)
           target == Normalized(e.status, fill)
           m == MergedRow(row, e)
<1>1. /\ e.filled \in 0..Quantity /\ row.filled \in 0..Quantity /\ e.status \in BrokerStatus
      /\ \A f \in h : f.filled \in 0..Quantity /\ f.status \in BrokerStatus
  BY QuantityAssumption DEF EvidenceRecord, Agreeing, Row
<1>2. /\ e.status \in BrokerTerminal => (e.status = "FILLED" <=> e.filled = Quantity)
      /\ e.status = "REJECTED" => e.filled = 0
      /\ e.status = "ACKNOWLEDGED" => e.filled = 0
      /\ e.status = "PARTIALLY_FILLED" => e.filled > 0
  BY DEF Agreeing, ValidFact, BrokerTerminal
<1>3. e.status \in BrokerTerminal => row.filled <= e.filled
  <2> SUFFICES ASSUME e.status \in BrokerTerminal, row.filled # 0 PROVE row.filled <= e.filled
    BY <1>1
  <2>1. PICK f \in h : row.filled = f.filled
    BY DEF Summary
  <2>2. f = e \/ f.filled <= e.filled
    BY DEF Agreeing
  <2> QED
    BY <1>1, <2>1, <2>2
<1>4. ASSUME NEW t \in h, t.status \in BrokerTerminal
      PROVE  /\ row.status = t.status /\ row.filled = t.filled
             /\ e.filled <= row.filled
             /\ e.status \in BrokerTerminal => e = t
  <2>1. t # e => e.status \notin BrokerTerminal /\ e.filled <= t.filled
    BY <1>4 DEF Agreeing
  <2> QED
    BY <1>1, <1>4, <2>1 DEF Summary
<1>5. row.bid \in {NoId, e.bid}
  BY DEF Summary, Agreeing
<1>6. /\ fill \in 0..Quantity /\ fill >= e.filled /\ fill >= row.filled
      /\ fill \in {e.filled, row.filled}
  BY <1>1 DEF Larger
<1> HIDE DEF fill
<1>7. /\ row.status = "FILLED" => row.filled = Quantity
      /\ row.status \in {"CANCELLED", "REJECTED"}
           => e.filled <= row.filled
      /\ row.status = "CANCELLED" => row.filled < Quantity
      /\ row.status = "REJECTED" => row.filled = 0
  BY <1>4 DEF RowConsistent, Summary
<1>8. e.status \in BrokerTerminal /\ row.status \in BrokerTerminal => e.status = row.status
  <2>1. CASE \E t \in h : t.status \in BrokerTerminal
    BY <1>4, <2>1
  <2>2. CASE ~\E t \in h : t.status \in BrokerTerminal
    BY <1>1, <1>2, <1>3, <1>7, <2>2 DEF Summary, BrokerTerminal
  <2> QED
    BY <2>1, <2>2
<1>9. e.status \in BrokerTerminal => fill = e.filled
  BY <1>1, <1>3, <1>6
<1>10. ~FillContradicts(e.status, fill)
  BY <1>1, <1>2, <1>6, <1>9 DEF FillContradicts, BrokerStatus, BrokerTerminal
<1>11. /\ e.status \in BrokerTerminal => target = e.status
       /\ e.status \notin BrokerTerminal
            => /\ target \in {"ACKNOWLEDGED", "PARTIALLY_FILLED", "FILLED"}
               /\ fill = Quantity <=> target = "FILLED"
  BY <1>1, <1>6, QuantityAssumption DEF Normalized, BrokerTerminal, BrokerStatus
<1> HIDE DEF target
<1>12. row.status \in {"CANCELLED", "REJECTED"} => fill = row.filled
  BY <1>1, <1>6, <1>7
<1>13. ~TerminalClash(row.status, target)
  <2>1. CASE e.status \in BrokerTerminal
    BY <1>8, <1>11, <2>1 DEF TerminalClash
  <2>2. CASE e.status \notin BrokerTerminal
    BY <1>1, <1>6, <1>7, <1>11, <1>12, <2>2, QuantityAssumption DEF TerminalClash, BrokerTerminal
  <2> QED
    BY <2>1, <2>2
<1>14. MergeOutcome(row, e) = "ok"
  <2>1. ~Overfilled(e.filled)
    BY <1>1, QuantityAssumption DEF Overfilled
  <2>2. ~TerminalClash(row.status, e.status)
    BY <1>8 DEF TerminalClash
  <2>3. ~(row.status \in {"CANCELLED", "REJECTED"} /\ fill > row.filled)
    BY <1>1, <1>12
  <2> QED
    BY <1>5, <1>10, <1>13, <2>1, <2>2, <2>3 DEF MergeOutcome, fill, target
<1>15. /\ m.status = Aggregated(row.status, target)
       /\ m.filled = fill
       /\ m.bid = IF row.bid = NoId THEN e.bid ELSE row.bid
  BY DEF MergedRow, Row, fill, target
<1> HIDE DEF m
<1>16. ASSUME NEW t \in h \cup {e}, t.status \in BrokerTerminal
       PROVE  m.status = t.status /\ m.filled = t.filled
  <2>1. CASE t \in h
    BY <1>1, <1>4, <1>6, <1>15, <1>16, <2>1 DEF Aggregated
  <2>2. CASE t = e
    BY <1>8, <1>9, <1>11, <1>15, <1>16, <2>2 DEF Aggregated, Summary, BrokerTerminal
  <2> QED
    BY <2>1, <2>2
<1>17. m.status # "MANUAL_REVIEW"
  BY <1>1, <1>11, <1>15 DEF Aggregated, Summary, BrokerStatus, BrokerTerminal
<1>18. m.bid # NoId => \E f \in h \cup {e} : f.bid = m.bid
  BY <1>5, <1>15
<1>19. m.filled = 0 \/ \E f \in h \cup {e} : m.filled = f.filled
  BY <1>6, <1>15 DEF Summary
<1>20. m.status \in {"CANCELLED", "REJECTED"}
         => \E f \in h \cup {e} : f.status \in BrokerTerminal
  BY <1>11, <1>15 DEF Aggregated, Summary, BrokerTerminal
<1> QED
  BY <1>14, <1>16, <1>17, <1>18, <1>19, <1>20 DEF Summary, m

ConvergeInv ==
  /\ JournalInv
  /\ KeysOffered
  /\ Summarised
  /\ IsFiniteSet(offered)
  /\ \A o \in Order : rows[o].status # "ABSENT"

\* An ingest leaves every row the summary of its facts, if they fit together.
LEMMA SummaryStep ==
  ASSUME ConvergeInv, NEW e \in Evidence, Ingest(e)
  PROVE  ConvergeInv'
<1> DEFINE result == IngestResult(rows, keys, e)
<1>0. /\ rows' = IngestRows(rows, keys, e) /\ keys' = IngestKeys(rows, keys, e)
      /\ offered' = offered \cup {e}
  BY DEF Ingest, IngestedRows
<1>1. /\ e \in EvidenceRecord /\ e.order \in Order /\ ValidFact(e)
      /\ offered \subseteq EvidenceRecord
  BY EvidenceAssumption DEF EvidenceRecord, ConvergeInv, JournalInv, TypeOK
<1>2. /\ rows \in [Order -> Row] /\ keys \subseteq Key
      /\ \A o \in Order : RowConsistent(rows[o]) /\ rows[o].status # "ABSENT"
  BY DEF ConvergeInv, JournalInv, TypeOK, FillConsistent, RowConsistent
<1>3. JournalInv'
  BY IngestInv DEF ConvergeInv
<1>4. IsFiniteSet(offered')
  BY <1>0, FS_AddElement DEF ConvergeInv
<1>5. \A a \in {0, 1} : WithAccepted(e, a).eid = e.eid /\ Fact(WithAccepted(e, a)) = Fact(e)
  BY DEF WithAccepted, Fact
<1>6. KeysOffered'
  <2>1. keys' \subseteq keys \cup {WithAccepted(e, 1), WithAccepted(e, 0)}
    BY <1>0 DEF IngestKeys
  <2> QED
    BY <1>0, <1>5, <2>1 DEF ConvergeInv, KeysOffered
<1>7. \A f, g \in EvidenceRecord : f.eid = g.eid /\ Fact(f) = Fact(g) => f = g
  BY DEF EvidenceRecord, Fact
<1>8. ASSUME NEW o \in Order, OwnIds(o)', Agreeing(History(o))'
      PROVE  Summary(rows'[o], History(o)')
  <2> DEFINE h == History(o)
  <2>1. /\ History(o)' = IF e.order = o THEN h \cup {e} ELSE h
        /\ h \subseteq EvidenceRecord
    BY <1>0, <1>1 DEF History
  <2>2. /\ \A f \in h, g \in offered \cup {e} : f.eid = g.eid => f = g
        /\ e.order = o => \A g \in offered \cup {e} : e.eid = g.eid => e = g
    BY <1>0, <1>8, <2>1 DEF OwnIds, History
  <2>3. Agreeing(History(o)')
    BY <1>8 DEF Agreeing, History
  <2>4. Agreeing(h)
    BY <2>1, <2>3 DEF Agreeing
  <2>5. Summary(rows[o], h)
    BY <2>2, <2>4 DEF OwnIds, ConvergeInv, Summarised
  <2>6. ASSUME NEW k \in keys, k.eid = e.eid, k.order = o \/ e.order = o
        PROVE  e \in offered /\ e.order = o /\ Fact(k) = Fact(e) /\ k.order = o
    <3>1. PICK f \in offered : f.eid = k.eid /\ Fact(f) = Fact(k)
      BY DEF ConvergeInv, KeysOffered
    <3>2. f.order = k.order
      BY <3>1 DEF Fact
    <3>3. f = e
      BY <2>2, <2>6, <3>1, <3>2 DEF History
    <3> QED
      BY <2>6, <3>1, <3>2, <3>3
  <2>7. CASE e.order # o
    <3>1. ~\E k \in keys : k.eid = e.eid /\ k.order = o
      BY <2>6, <2>7
    <3>2. rows'[o] = rows[o]
      BY <1>0, <1>1, <1>2, <2>7, <3>1 DEF IngestRows
    <3> QED
      BY <2>1, <2>5, <2>7, <3>2
  <2>8. CASE e.order = o
    <3>1. ~\E k \in keys : k.eid = e.eid /\ Fact(k) # Fact(e)
      BY <2>6, <2>8
    <3>2. CASE \E k \in keys : k.eid = e.eid
      <4>1. e \in h /\ \A k \in keys : k.eid = e.eid => k.accepted = 1
        <5>1. \A k \in keys : k.order = o => k.accepted = 1
          BY <1>2, <2>5 DEF ConvergeInv, JournalInv, ConflictHolds, Summary, Key
        <5> QED
          BY <2>6, <2>8, <3>2, <5>1 DEF History
      <4>2. result = "duplicate"
        BY <1>2, <2>8, <3>1, <3>2, <4>1 DEF IngestResult
      <4>3. rows' = rows /\ History(o)' = h
        BY <1>0, <2>1, <4>1, <4>2 DEF IngestRows
      <4> QED
        BY <2>5, <4>3
    <3>3. CASE ~\E k \in keys : k.eid = e.eid
      <4>1. CASE SemanticDuplicate(rows[o], keys, e)
        <5>1. PICK k \in keys : Fact(k) = Fact(e)
          BY <4>1 DEF SemanticDuplicate
        <5>2. PICK f \in offered : f.eid = k.eid /\ Fact(f) = Fact(k)
          BY DEF ConvergeInv, KeysOffered
        <5>3. f \in h /\ f.status = e.status /\ f.filled = e.filled
          BY <2>8, <5>1, <5>2 DEF Fact, History
        <5>4. f # e
          BY <3>3, <5>2
        <5>5. e.status \notin BrokerTerminal
          BY <2>1, <2>3, <2>8, <5>3, <5>4 DEF Agreeing
        <5>6. result = "semantic_duplicate"
          BY <1>2, <2>8, <3>3, <4>1 DEF IngestResult
        <5>7. rows' = rows
          BY <1>0, <5>6 DEF IngestRows
        <5> QED
          BY <2>1, <2>5, <2>8, <5>5, <5>7 DEF Summary
      <4>2. CASE ~SemanticDuplicate(rows[o], keys, e)
        <5>1. MergeOutcome(rows[o], e) = "ok" /\ Summary(MergedRow(rows[o], e), h \cup {e})
          BY <1>1, <1>2, <2>1, <2>3, <2>5, <2>8, MergeSummary
        <5>2. result = "applied"
          BY <1>2, <2>8, <3>3, <4>2, <5>1 DEF IngestResult
        <5>3. rows'[o] = MergedRow(rows[o], e)
          BY <1>0, <1>2, <2>8, <5>2 DEF IngestRows
        <5> QED
          BY <2>1, <2>8, <5>1, <5>3
      <4> QED
        BY <4>1, <4>2
    <3> QED
      BY <3>2, <3>3
  <2> QED
    BY <2>7, <2>8
<1>9. Summarised'
  BY <1>8 DEF Summarised, Summary
<1>10. \A o \in Order : rows'[o].status # "ABSENT"
  <2>1. \A o \in Order : \A f : ReviewRow(rows[o], f).status = "MANUAL_REVIEW"
    BY <1>2 DEF ReviewRow, Row
  <2>2. MergedRow(rows[e.order], e).status # "ABSENT"
    <3>1. Normalized(e.status, Larger(rows[e.order].filled, e.filled)) # "ABSENT"
      BY <1>1 DEF Normalized, EvidenceRecord, BrokerStatus, BrokerTerminal
    <3> QED
      BY <1>1, <1>2, <3>1 DEF MergedRow, Row, Aggregated
  <2> QED
    BY <1>0, <1>1, <1>2, <2>1, <2>2 DEF IngestRows
<1> QED
  BY <1>3, <1>4, <1>6, <1>9, <1>10 DEF ConvergeInv

\* Facts one broker could have reported fit together on every prefix.
LEMMA CoherentAgrees ==
  ASSUME NEW o \in Order, Coherent(History(o)), IsFiniteSet(offered),
         offered \subseteq EvidenceRecord
  PROVE  OwnIds(o) /\ Agreeing(History(o)) /\ \E e \in History(o) : e.status \in BrokerTerminal
<1> DEFINE h == History(o)
           bids == {e.bid : e \in h}
<1>1. PICK t \in h : /\ t.status \in BrokerTerminal /\ t.filled <= Quantity
                     /\ t.status = "FILLED" <=> t.filled = Quantity
                     /\ \A f \in h \ {t} : f.status \notin BrokerTerminal /\ f.filled <= t.filled
  BY DEF Coherent
<1>2. h \subseteq EvidenceRecord /\ IsFiniteSet(h)
  BY FS_Subset DEF History
<1>3. IsFiniteSet(bids)
  <2>1. [e \in h |-> e.bid] \in Surjection(h, bids)
    BY DEF Surjection
  <2> QED
    BY <1>2, <2>1, FS_Surjection
<1>4. Cardinality(bids) = 1
  BY DEF Coherent
<1>5. PICK b : bids = {b}
  BY <1>3, <1>4, FS_Singleton
<1>6. \A e, f \in h : e.bid = f.bid
  BY <1>5
<1>7. \A e \in h : e.filled \in Nat
  BY <1>2 DEF EvidenceRecord
<1>8. Agreeing(h)
  BY <1>1, <1>6, <1>7, QuantityAssumption DEF Agreeing
<1>9. OwnIds(o)
  BY DEF Coherent, OwnIds
<1> QED
  BY <1>1, <1>8, <1>9

\* Evidence of a broker that does not contradict itself converges, in whatever order and
\* however often it is delivered (repository.py:432-618, evidence.py:58), for an order
\* that was not already taken out of service.
THEOREM Convergence ==
  ASSUME "MANUAL_REVIEW" \notin StartStatus
  PROVE  Spec => []Converges
<1>1. Init => ConvergeInv
  <2> SUFFICES ASSUME Init PROVE ConvergeInv
    OBVIOUS
  <2>1. keys = {} /\ offered = {}
    BY DEF Init
  <2>2. \A o \in Order : /\ rows[o].status \in StartStatus
                         /\ rows[o].bid = NoId /\ rows[o].filled = 0
    <3>1. \A o \in Order : \E st \in StartStatus :
            rows[o] = [AbsentRow EXCEPT !.status = st, !.submit = 1,
                                        !.cancel = IF st = "CANCEL_PENDING" THEN 1 ELSE 0]
      BY DEF Init
    <3> QED
      BY <3>1 DEF AbsentRow
  <2>3. \A o \in Order : rows[o].status \notin {"MANUAL_REVIEW", "ABSENT", "CANCELLED", "REJECTED"}
    BY <2>2, StartAssumption DEF Status, BrokerStatus, BrokerTerminal, PreSubmit
  <2>4. Summarised
    BY <2>1, <2>2, <2>3 DEF Summarised, Summary, History
  <2> QED
    BY <2>1, <2>3, <2>4, InitInv, FS_EmptySet DEF ConvergeInv, KeysOffered
<1>2. ConvergeInv /\ [Next]_vars => ConvergeInv'
  <2> SUFFICES ASSUME ConvergeInv, [Next]_vars PROVE ConvergeInv'
    OBVIOUS
  <2>1. CASE Next
    BY <2>1, SummaryStep DEF Next
  <2>2. CASE UNCHANGED vars
    <3>1. JournalInv'
      BY NextInv DEF ConvergeInv
    <3> QED
      BY <2>2, <3>1 DEF vars, ConvergeInv, KeysOffered, Summarised, OwnIds, History
  <2> QED
    BY <2>1, <2>2
<1>3. ConvergeInv => Converges
  <2> SUFFICES ASSUME ConvergeInv, NEW o \in Order, Coherent(History(o))
               PROVE  \E e \in History(o) : /\ e.status \in BrokerTerminal
                                            /\ rows[o].status = e.status
                                            /\ rows[o].filled = e.filled
    BY DEF Converges, History
  <2>1. offered \subseteq EvidenceRecord /\ IsFiniteSet(offered)
    BY EvidenceAssumption DEF ConvergeInv, JournalInv, TypeOK
  <2>2. OwnIds(o) /\ Agreeing(History(o)) /\ \E e \in History(o) : e.status \in BrokerTerminal
    BY <2>1, CoherentAgrees
  <2> QED
    BY <2>2 DEF ConvergeInv, Summarised, Summary
<1> QED
  BY <1>1, <1>2, <1>3, PTL DEF Spec
=============================================================================
