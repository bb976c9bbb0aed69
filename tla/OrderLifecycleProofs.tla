------------------------ MODULE OrderLifecycleProofs ------------------------
(***************************************************************************)
(* Facts about the row operators of OrderLifecycle, for every order        *)
(* quantity and every set of orders and broker ids.  The proofs about the  *)
(* components that own a broker_orders table cite them.                    *)
(***************************************************************************)
EXTENDS OrderLifecycle, TLAPS

\* The statuses of an order that was never handed to the broker.
Unsent == PreSubmit \cup {"ABSENT"}

\* A transition request keeps a row a row, leaves the reservations alone and never
\* takes a submitted order back before its submission (state_machine.py:28-71).
LEMMA TransitionRowFacts ==
  ASSUME NEW row \in Row, NEW target \in Status \cup {"ABSENT"}, NEW resolve \in BOOLEAN
  PROVE  /\ TransitionRow(row, target, resolve) \in Row
         /\ TransitionRow(row, target, resolve).submit = row.submit
         /\ TransitionRow(row, target, resolve).cancel = row.cancel
         /\ TransitionRow(row, target, resolve).status \in {row.status, target}
         /\ row.status \notin Unsent
              => TransitionRow(row, target, resolve).status \notin Unsent
<1> DEFINE t == TransitionRow(row, target, resolve)
<1>1. t \in Row /\ t.submit = row.submit /\ t.cancel = row.cancel
  BY DEF TransitionRow, Row
<1>2. t.status = IF Moves(row.status, target) THEN target ELSE row.status
  BY DEF TransitionRow, Row
<1>3. row.status \notin Unsent /\ Moves(row.status, target) => target \notin Unsent
  BY DEF Moves, Allowed, Terminal, Unsent, PreSubmit, BrokerStatus, BrokerTerminal, Row,
         Status
<1> QED
  BY <1>1, <1>2, <1>3

\* A transition request moves the status and may settle the cancel; the broker id and
\* the fill stay (repository.py:295-318).
LEMMA TransitionRowParts ==
  ASSUME NEW row \in Row, NEW target, NEW resolve \in BOOLEAN
  PROVE  /\ TransitionRow(row, target, resolve).bid = row.bid
         /\ TransitionRow(row, target, resolve).filled = row.filled
         /\ resolve => TransitionRow(row, target, resolve).resolved = 1
         /\ ~resolve => TransitionRow(row, target, resolve).resolved = row.resolved
         /\ Moves(row.status, target) => TransitionRow(row, target, resolve).status = target
         /\ ~Moves(row.status, target)
              => TransitionRow(row, target, resolve).status = row.status
  BY DEF TransitionRow, Row

\* A request the state machine moves on writes the status and nothing else.
LEMMA MovedRow ==
  ASSUME NEW row \in Row, NEW target, Moves(row.status, target)
  PROVE  TransitionRow(row, target, FALSE) = [row EXCEPT !.status = target]
  BY DEF TransitionRow, Row

\* A row sent to manual review keeps its reservations and its broker id
\* (repository.py:589-618).
LEMMA ReviewRowFacts ==
  ASSUME NEW row \in Row, NEW fill \in 0..Quantity
  PROVE  /\ ReviewRow(row, fill) \in Row
         /\ ReviewRow(row, fill).submit = row.submit
         /\ ReviewRow(row, fill).cancel = row.cancel
         /\ ReviewRow(row, fill).resolved = row.resolved
         /\ ReviewRow(row, fill).status = "MANUAL_REVIEW"
         /\ ReviewRow(row, fill).bid = row.bid
         /\ ReviewRow(row, fill).filled = Larger(row.filled, fill)
<1>1. Larger(row.filled, fill) \in 0..Quantity
  BY QuantityAssumption DEF Larger, Row
<1> QED
  BY <1>1 DEF ReviewRow, Row, Status

\* A merged broker fact keeps the reservations and never makes a sent order unsent; the
\* fill is the larger of the two (repository.py:432-587).
LEMMA MergedRowFacts ==
  ASSUME NEW row \in Row, NEW e, e.status \in BrokerStatus, e.filled \in 0..Quantity,
         e.bid \in BrokerId \cup {NoId}
  PROVE  /\ MergedRow(row, e) \in Row
         /\ MergedRow(row, e).submit = row.submit
         /\ MergedRow(row, e).cancel = row.cancel
         /\ MergedRow(row, e).resolved = row.resolved
         /\ MergedRow(row, e).bid = IF row.bid = NoId THEN e.bid ELSE row.bid
         /\ MergedRow(row, e).status
              = Aggregated(row.status, Normalized(e.status, Larger(row.filled, e.filled)))
         /\ MergedRow(row, e).status \in {row.status} \cup BrokerStatus
         /\ MergedRow(row, e).filled = Larger(row.filled, e.filled)
<1> DEFINE fill == Larger(row.filled, e.filled)
<1>1. fill \in 0..Quantity
  BY QuantityAssumption DEF Larger, Row
<1>2. Normalized(e.status, fill) \in BrokerStatus
  BY DEF Normalized, BrokerStatus, BrokerTerminal
<1>3. Aggregated(row.status, Normalized(e.status, fill)) \in {row.status} \cup BrokerStatus
  BY <1>2 DEF Aggregated
<1>4. BrokerStatus \subseteq Status
  BY DEF BrokerStatus, BrokerTerminal, Status
<1>5. MergedRow(row, e) =
        [row EXCEPT !.status = Aggregated(row.status, Normalized(e.status, fill)),
                    !.bid = IF row.bid = NoId THEN e.bid ELSE row.bid,
                    !.filled = fill]
  BY DEF MergedRow, Row
<1> HIDE DEF fill
<1>6. /\ MergedRow(row, e) \in Row
      /\ MergedRow(row, e).submit = row.submit
      /\ MergedRow(row, e).cancel = row.cancel
      /\ MergedRow(row, e).resolved = row.resolved
      /\ MergedRow(row, e).bid = IF row.bid = NoId THEN e.bid ELSE row.bid
      /\ MergedRow(row, e).status = Aggregated(row.status, Normalized(e.status, fill))
      /\ MergedRow(row, e).status \in {row.status} \cup BrokerStatus
      /\ MergedRow(row, e).filled = fill
  BY <1>1, <1>3, <1>4, <1>5 DEF Row
<1> QED
  BY <1>6 DEF fill
=============================================================================
