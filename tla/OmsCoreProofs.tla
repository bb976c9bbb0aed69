--------------------------- MODULE OmsCoreProofs ----------------------------
(***************************************************************************)
(* OmsCore for any number of orders, sessions, recoveries and broker facts *)
(* and any order quantity: types, at most one broker call of each kind per *)
(* order, and the lease discipline.                                        *)
(***************************************************************************)
EXTENDS OmsCore, OrderLifecycleProofs

Fact0 == [order : Order, status : BrokerStatus, bid : BrokerId \cup {NoId},
          filled : 0..Quantity, eid : EventId]

(***************************************************************************)
(* Facts about the row operators.                                          *)
(***************************************************************************)

\* Ingesting evidence keeps the table a table, leaves the reservations alone and never
\* takes a submitted order back (repository.py:320-397, 432-618).
LEMMA IngestRowsFacts ==
  ASSUME NEW rows \in [Order -> Row], NEW ks, NEW e \in Fact0
  PROVE  /\ IngestRows(rows, ks, e) \in [Order -> Row]
         /\ \A o \in Order :
              /\ IngestRows(rows, ks, e)[o].submit = rows[o].submit
              /\ IngestRows(rows, ks, e)[o].cancel = rows[o].cancel
              /\ rows[o].status \notin PreSubmit \cup {"ABSENT"}
                   => IngestRows(rows, ks, e)[o].status \notin PreSubmit \cup {"ABSENT"}
<1> DEFINE Good(r, q) == /\ q \in Row /\ q.submit = r.submit /\ q.cancel = r.cancel
                         /\ r.status \notin PreSubmit \cup {"ABSENT"}
                              => q.status \notin PreSubmit \cup {"ABSENT"}
<1>0. e.order \in Order /\ e.filled \in 0..Quantity /\ e.status \in BrokerStatus
      /\ e.bid \in BrokerId \cup {NoId}
  BY DEF Fact0
<1>1. ASSUME NEW r \in Row, NEW f \in 0..Quantity PROVE Good(r, ReviewRow(r, f))
  BY ReviewRowFacts DEF PreSubmit
<1>2. ASSUME NEW r \in Row PROVE Good(r, MergedRow(r, e))
  <2>1. BrokerStatus \cap (PreSubmit \cup {"ABSENT"}) = {}
    BY DEF BrokerStatus, BrokerTerminal, PreSubmit
  <2> QED
    BY <1>0, <2>1, MergedRowFacts
<1>3. ASSUME NEW r \in Row PROVE Good(r, r)
  OBVIOUS
<1>4. /\ IngestRows(rows, ks, e) \in [Order -> Row]
      /\ \A o \in Order : Good(rows[o], IngestRows(rows, ks, e)[o])
  <2> HIDE DEF Good
  <2>1. \A r \in Row : Good(r, r) /\ Good(r, MergedRow(r, e))
    BY <1>2, <1>3
  <2>2. \A r \in Row : \A f \in 0..Quantity : Good(r, ReviewRow(r, f))
    BY <1>1
  <2>3. \A r, q : Good(r, q) => q \in Row
    BY DEF Good
  <2>4. \A o \in Order : rows[o] \in Row /\ rows[o].filled \in 0..Quantity
    BY DEF Row
  <2>5. ASSUME NEW g \in 0..Quantity
        PROVE  LET t == [rows EXCEPT ![e.order] = ReviewRow(rows[e.order], g)]
               IN  t \in [Order -> Row] /\ \A o \in Order : Good(rows[o], t[o])
    BY <1>0, <2>1, <2>2, <2>3, <2>4
  <2>6. LET t == [rows EXCEPT ![e.order] = MergedRow(rows[e.order], e)]
        IN  t \in [Order -> Row] /\ \A o \in Order : Good(rows[o], t[o])
    BY <1>0, <2>1, <2>3, <2>4
  <2>7. LET t == [o \in Order |->
                    IF o = e.order \/ \E k \in ks : k.eid = e.eid /\ k.order = o
                    THEN ReviewRow(rows[o], rows[o].filled) ELSE rows[o]]
        IN  t \in [Order -> Row] /\ \A o \in Order : Good(rows[o], t[o])
    BY <2>1, <2>2, <2>3, <2>4
  <2>8. rows \in [Order -> Row] /\ \A o \in Order : Good(rows[o], rows[o])
    BY <2>1, <2>4
  <2> QED
    BY <1>0, <2>4, <2>5, <2>6, <2>7, <2>8 DEF IngestRows
<1> QED
  BY <1>4

\* The keys table keeps its type (evidence.py:298-326).
LEMMA IngestKeysType ==
  ASSUME NEW rows, NEW ks, ks \subseteq Key, NEW e \in Fact0
  PROVE  IngestKeys(rows, ks, e) \subseteq Key
<1>1. WithAccepted(e, 0) \in Key /\ WithAccepted(e, 1) \in Key
  BY DEF WithAccepted, Fact0, Key
<1> QED
  BY <1>1 DEF IngestKeys

(***************************************************************************)
(* The inductive invariant.                                                *)
(***************************************************************************)

\* What a thread's position says about the operation and the order in hand.
Fits(where, kind, o) ==
  /\ where \in {"created", "authorized"} => kind = "submit"
  /\ where \in {"reserved", "armed", "returned", "failed", "unknown", "reconciling"}
       => kind \in {"submit", "cancel"}
  /\ where \in {"next", "visiting"} => kind = "recover"
  /\ where \in {"answered", "ingested"} => kind # "none"
  /\ where \notin {"off", "closed", "idle", "next"} => o \in Order

Locals ==
  /\ pc \in [Session -> Pc]
  /\ op \in [Session -> {"none", "submit", "cancel", "recover"}]
  /\ cur \in [Session -> Order \cup {NoOrder}]
  /\ seen \in [Session -> Status \cup {"ABSENT"}]
  /\ todo \in [Session -> SUBSET Order]
  /\ snap \in [Session -> [Order -> Row]]
  /\ reply \in [Session -> Published \cup {NoReply}]
  /\ recoveries \in [Session -> 0..MaxRecoveries]
  /\ \A s \in Session : Fits(pc[s], op[s], cur[s])

Tables ==
  /\ orders \in [Order -> Row]
  /\ keys \subseteq Key
  /\ writer \in [Order -> Session \cup {NoSession}]

LeaseOK ==
  /\ holder \in Session \cup {NoSession}
  /\ lease \in {"free", "live", "expired"}
  /\ holder = NoSession <=> lease = "free"

BrokerBook ==
  /\ broker \in [Order -> [st : BrokerStatus \cup {"NONE", "SENT"}, filled : 0..Quantity]]
  /\ emitted \subseteq Published
  /\ submits \in [Order -> Nat]
  /\ cancels \in [Order -> Nat]

Others == reconciled \subseteq Session /\ faults \subseteq Fault

Types == Tables /\ LeaseOK /\ Locals /\ BrokerBook /\ Others

\* Between its reservation and its driver call.
Calling(s, kind) == pc[s] \in {"reserved", "armed"} /\ op[s] = kind

\* A session about to call owns the one reservation of its order, and the call has not
\* been made; a reservation is never lost.
Reservations ==
  /\ \A s \in Session :
       /\ Calling(s, "submit") => orders[cur[s]].submit = 1 /\ submits[cur[s]] = 0
       /\ Calling(s, "cancel") => orders[cur[s]].cancel = 1 /\ cancels[cur[s]] = 0
  /\ \A s, t \in Session :
       /\ Calling(s, "submit") /\ Calling(t, "submit") /\ s # t => cur[s] # cur[t]
       /\ Calling(s, "cancel") /\ Calling(t, "cancel") /\ s # t => cur[s] # cur[t]
  /\ \A o \in Order :
       /\ submits[o] <= 1 /\ (submits[o] = 1 => orders[o].submit = 1)
       /\ cancels[o] <= 1 /\ (cancels[o] = 1 => orders[o].cancel = 1)
       /\ orders[o].submit = 1 \/ orders[o].cancel = 1
            => orders[o].status \notin PreSubmit \cup {"ABSENT"}

OmsInv == Types /\ Reservations

\* The inductive invariant contains the properties the runs check.
LEMMA InvImplies == OmsInv => TypeOK /\ AtMostOneBrokerCall /\ ReservedBeforeCall
<1> SUFFICES ASSUME OmsInv PROVE TypeOK /\ AtMostOneBrokerCall /\ ReservedBeforeCall
  OBVIOUS
<1>1. TypeOK
  BY DEF OmsInv, Types, Tables, LeaseOK, Locals, BrokerBook, Others, TypeOK
<1>2. AtMostOneBrokerCall /\ ReservedBeforeCall
  BY DEF OmsInv, Types, BrokerBook, Reservations, AtMostOneBrokerCall, ReservedBeforeCall
<1> QED
  BY <1>1, <1>2

\* The empty database and idle broker satisfy the invariant.
LEMMA InitInv == Init => OmsInv
<1> SUFFICES ASSUME Init PROVE OmsInv
  OBVIOUS
<1>1. AbsentRow \in Row
  BY QuantityAssumption DEF AbsentRow, Row
<1>2. Types
  BY <1>1, QuantityAssumption, OmsAssumption
     DEF Init, Types, Tables, LeaseOK, Locals, BrokerBook, Others, Fits, Pc, BlankSnap
<1>3. Reservations
  BY DEF Init, Reservations, Calling, AbsentRow
<1> QED
  BY <1>2, <1>3 DEF OmsInv

(***************************************************************************)
(* What the building blocks of the actions preserve.                       *)
(***************************************************************************)

\* Leaving an operation keeps the locals typed.
LEMMA DoneLocals ==
  ASSUME Locals, NEW s \in Session, NEW where \in {"idle", "closed"}, Done(s, where)
  PROVE  Locals'
<1>1. AbsentRow \in Row
  BY QuantityAssumption DEF AbsentRow, Row
<1>2. BlankSnap \in [Order -> Row]
  BY <1>1 DEF BlankSnap
<1> QED
  BY <1>2 DEF Locals, Done, Fits, Pc

\* Moving on inside an operation keeps them typed if the new position fits.
LEMMA GotoLocals ==
  ASSUME Locals, NEW s \in Session, NEW where \in Pc, NEW status \in Status \cup {"ABSENT"},
         Fits(where, op[s], cur[s]), Goto(s, where, status)
  PROVE  Locals'
  BY DEF Locals, Goto

\* A step that keeps both reservation columns, makes no call and lets no session
\* arrive at a call keeps the reservations in order.
LEMMA ReservationsKept ==
  ASSUME Reservations,
         \A o \in Order :
           /\ orders'[o].submit = orders[o].submit
           /\ orders'[o].cancel = orders[o].cancel
           /\ orders[o].status \notin PreSubmit \cup {"ABSENT"}
                => orders'[o].status \notin PreSubmit \cup {"ABSENT"},
         UNCHANGED <<submits, cancels>>, Locals,
         \A s \in Session : pc'[s] \in {"reserved", "armed"}
                            => /\ pc[s] \in {"reserved", "armed"}
                               /\ op'[s] = op[s] /\ cur'[s] = cur[s]
  PROVE  Reservations'
<1>1. \A s \in Session : \A k : Calling(s, k)' => Calling(s, k) /\ cur'[s] = cur[s] /\ cur[s] \in Order
  BY DEF Calling, Locals, Fits
<1> QED
  BY <1>1 DEF Reservations

\* Stamping keeps the writer column typed.
LEMMA StampType ==
  ASSUME Tables, NEW s \in Session, Stamp(s)
  PROVE  writer' \in [Order -> Session \cup {NoSession}]
  BY DEF Tables, Stamp

\* Where a thread can be after Done or Goto.
LEMMA ThreadMoves ==
  ASSUME Locals, NEW s \in Session, NEW where \in Pc \ {"reserved", "armed"},
         NEW status, Done(s, "idle") \/ Goto(s, where, status)
  PROVE  \A q \in Session : pc'[q] \in {"reserved", "armed"}
                            => /\ pc[q] \in {"reserved", "armed"}
                               /\ op'[q] = op[q] /\ cur'[q] = cur[q]
  BY DEF Locals, Done, Goto

\* One transition_order transaction preserves the invariant (repository.py:295-318).
LEMMA WriteInv ==
  ASSUME OmsInv, NEW s \in Session, NEW target \in Status \cup {"ABSENT"},
         NEW resolve \in BOOLEAN,
         NEW where \in Pc \ {"reserved", "armed"}, cur[s] \in Order,
         where # "idle" => Fits(where, op[s], cur[s]),
         Write(s, target, resolve, where)
  PROVE  OmsInv'
<1> DEFINE o == cur[s]
<1>1. Locals' /\ \A q \in Session : pc'[q] \in {"reserved", "armed"}
                            => /\ pc[q] \in {"reserved", "armed"}
                               /\ op'[q] = op[q] /\ cur'[q] = cur[q]
  <2>1. Locals
    BY DEF OmsInv, Types
  <2>2. Done(s, "idle") \/ (where # "idle" /\ Goto(s, where, target))
    BY DEF Write, Continue
  <2>3. CASE Done(s, "idle")
    BY <2>1, <2>3, DoneLocals, ThreadMoves
  <2>4. CASE where # "idle" /\ Goto(s, where, target)
    BY <2>1, <2>4, GotoLocals, ThreadMoves
  <2> QED
    BY <2>2, <2>3, <2>4
<1>2. /\ orders' \in [Order -> Row]
      /\ \A p \in Order :
           /\ orders'[p].submit = orders[p].submit
           /\ orders'[p].cancel = orders[p].cancel
           /\ orders[p].status \notin PreSubmit \cup {"ABSENT"}
                => orders'[p].status \notin PreSubmit \cup {"ABSENT"}
  <2>1. orders \in [Order -> Row]
    BY DEF OmsInv, Types, Tables
  <2>2. CASE orders' = orders
    BY <2>1, <2>2
  <2>3. CASE orders' = [orders EXCEPT ![o] = TransitionRow(orders[o], target, resolve)]
    <3>1. orders[o] \in Row
      BY <2>1
    <3> HIDE DEF o
    <3>2. o \in Order
      BY DEF o
    <3> QED
      BY <2>1, <2>3, <3>1, <3>2, TransitionRowFacts DEF Unsent
  <2> QED
    BY <2>2, <2>3 DEF Write
<1>3. Tables'
  BY <1>2, StampType DEF OmsInv, Types, Tables, Write
<1>4. LeaseOK' /\ BrokerBook' /\ Others' /\ UNCHANGED <<submits, cancels>>
  BY DEF OmsInv, Types, LeaseOK, BrokerBook, Others, Write, Fault, leaseVars, brokerVars
<1>5. Reservations'
  <2>1. Reservations /\ Locals
    BY DEF OmsInv, Types
  <2> QED
    BY <1>1, <1>2, <1>4, <2>1, ReservationsKept
<1> QED
  BY <1>1, <1>3, <1>4, <1>5 DEF OmsInv, Types

\* One ingest transaction preserves everything but the caller's locals, which the
\* caller moves (evidence.py:58-226).
LEMMA IngestInv ==
  ASSUME OmsInv, NEW s \in Session, NEW e \in Fact0, Ingest(s, e), Locals',
         \A q \in Session : pc'[q] \in {"reserved", "armed"}
                            => /\ pc[q] \in {"reserved", "armed"}
                               /\ op'[q] = op[q] /\ cur'[q] = cur[q]
  PROVE  OmsInv'
<1>1. Tables /\ Locals /\ Reservations
  BY DEF OmsInv, Types
<1>2. /\ orders' \in [Order -> Row]
      /\ \A p \in Order :
           /\ orders'[p].submit = orders[p].submit
           /\ orders'[p].cancel = orders[p].cancel
           /\ orders[p].status \notin PreSubmit \cup {"ABSENT"}
                => orders'[p].status \notin PreSubmit \cup {"ABSENT"}
  BY <1>1, IngestRowsFacts DEF Tables, Ingest
<1>3. Tables'
  BY <1>1, <1>2, StampType, IngestKeysType DEF Tables, Ingest
<1>4. LeaseOK' /\ BrokerBook' /\ Others' /\ UNCHANGED <<submits, cancels>>
  BY DEF OmsInv, Types, LeaseOK, BrokerBook, Others, Ingest, Fault, leaseVars, brokerVars
<1>5. Reservations'
  BY <1>1, <1>2, <1>4, ReservationsKept
<1> QED
  BY <1>3, <1>4, <1>5 DEF OmsInv, Types

\* A step that changes neither tables, broker book nor reservations preserves the
\* invariant if it keeps the lease and the locals in order.
LEMMA QuietInv ==
  ASSUME OmsInv, UNCHANGED <<durable, submits, cancels>>, BrokerBook', LeaseOK', Locals', Others',
         \A q \in Session : pc'[q] \in {"reserved", "armed"}
                            => /\ pc[q] \in {"reserved", "armed"}
                               /\ op'[q] = op[q] /\ cur'[q] = cur[q]
  PROVE  OmsInv'
<1>1. Tables'
  BY DEF OmsInv, Types, Tables, durable
<1>2. Reservations'
  BY ReservationsKept DEF OmsInv, Types, durable
<1> QED
  BY <1>1, <1>2 DEF OmsInv, Types

\* The lease row, the sessions' life cycle and time (service.py:56-127).
LEMMA SessionSteps ==
  ASSUME OmsInv, NEW s \in Session,
         Start(s) \/ Close(s) \/ Crash(s) \/ Renew(s) \/ Fenced(s) \/ Expire
  PROVE  OmsInv'
<1>0. Tables /\ LeaseOK /\ Locals /\ BrokerBook /\ Others
  BY DEF OmsInv, Types
<1>1. CASE Start(s)
  <2>1. Locals' /\ \A q \in Session : pc'[q] \in {"reserved", "armed"}
                            => /\ pc[q] \in {"reserved", "armed"}
                               /\ op'[q] = op[q] /\ cur'[q] = cur[q]
    BY <1>0, <1>1 DEF Start, Locals, Fits, Pc
  <2>2. LeaseOK' /\ BrokerBook' /\ Others' /\ UNCHANGED <<durable, submits, cancels>>
    BY <1>0, <1>1, OmsAssumption DEF Start, LeaseOK, BrokerBook, Others, brokerVars
  <2> QED
    BY <2>1, <2>2, QuietInv
<1>2. CASE Close(s)
  <2>1. Done(s, "closed")
    BY <1>2 DEF Close
  <2>2. Locals' /\ \A q \in Session : pc'[q] \in {"reserved", "armed"}
                            => /\ pc[q] \in {"reserved", "armed"}
                               /\ op'[q] = op[q] /\ cur'[q] = cur[q]
    BY <1>0, <2>1, DoneLocals DEF Done, Locals
  <2>3. LeaseOK' /\ BrokerBook' /\ Others' /\ UNCHANGED <<durable, submits, cancels>>
    BY <1>0, <1>2 DEF Close, LeaseOK, BrokerBook, Others, brokerVars, leaseVars
  <2> QED
    BY <2>2, <2>3, QuietInv
<1>3. CASE Crash(s)
  <2>1. Done(s, "closed")
    BY <1>3 DEF Crash
  <2>2. Locals' /\ \A q \in Session : pc'[q] \in {"reserved", "armed"}
                            => /\ pc[q] \in {"reserved", "armed"}
                               /\ op'[q] = op[q] /\ cur'[q] = cur[q]
    BY <1>0, <2>1, DoneLocals DEF Done, Locals
  <2>3. LeaseOK' /\ BrokerBook' /\ Others' /\ UNCHANGED <<durable, submits, cancels>>
    BY <1>0, <1>3 DEF Crash, LeaseOK, BrokerBook, Others, brokerVars, leaseVars
  <2> QED
    BY <2>2, <2>3, QuietInv
<1>4. CASE Renew(s)
  <2>1. Locals' /\ UNCHANGED <<pc, op, cur>>
    BY <1>0, <1>4 DEF Renew, Locals, progress
  <2>2. LeaseOK' /\ BrokerBook' /\ Others' /\ UNCHANGED <<durable, submits, cancels>>
    BY <1>0, <1>4, OmsAssumption DEF Renew, LeaseOK, BrokerBook, Others, brokerVars, progress
  <2> QED
    BY <2>1, <2>2, QuietInv
<1>5. CASE Fenced(s)
  <2>1. Done(s, "idle")
    BY <1>5 DEF Fenced
  <2>2. Locals' /\ \A q \in Session : pc'[q] \in {"reserved", "armed"}
                            => /\ pc[q] \in {"reserved", "armed"}
                               /\ op'[q] = op[q] /\ cur'[q] = cur[q]
    BY <1>0, <2>1, DoneLocals DEF Done, Locals
  <2>3. LeaseOK' /\ BrokerBook' /\ Others' /\ UNCHANGED <<durable, submits, cancels>>
    BY <1>0, <1>5 DEF Fenced, LeaseOK, BrokerBook, Others, brokerVars, leaseVars
  <2> QED
    BY <2>2, <2>3, QuietInv
<1>6. CASE Expire
  <2>1. Locals' /\ UNCHANGED <<pc, op, cur>>
    BY <1>0, <1>6 DEF Expire, Locals, progress
  <2>2. LeaseOK' /\ BrokerBook' /\ Others' /\ UNCHANGED <<durable, submits, cancels>>
    BY <1>0, <1>6 DEF Expire, LeaseOK, BrokerBook, Others, brokerVars, progress
  <2> QED
    BY <2>1, <2>2, QuietInv
<1> QED
  BY <1>1, <1>2, <1>3, <1>4, <1>5, <1>6

\* create_intent and the two reservations (repository.py:91-144, 178-254).
LEMMA CommandSteps ==
  ASSUME OmsInv, NEW s \in Session, NEW o \in Order,
         CreateIntent(s, o) \/ PrepareSubmit(s) \/ PrepareCancel(s, o)
  PROVE  OmsInv'
<1>0. Tables /\ LeaseOK /\ Locals /\ BrokerBook /\ Others /\ Reservations
  BY DEF OmsInv, Types
<1>1. CASE CreateIntent(s, o)
  <2>1. [AbsentRow EXCEPT !.status = "CREATED"] \in Row
    BY QuantityAssumption DEF AbsentRow, Row, Status, PreSubmit
  <2>2. orders' \in [Order -> Row]
    BY <1>0, <1>1, <2>1 DEF CreateIntent, Tables
  <2>3. Tables'
    BY <1>0, <1>1, <2>2, StampType DEF CreateIntent, Tables
  <2>4. \A p \in Order :
           /\ orders'[p].submit = orders[p].submit
           /\ orders'[p].cancel = orders[p].cancel
           /\ orders[p].status \notin PreSubmit \cup {"ABSENT"}
                => orders'[p].status \notin PreSubmit \cup {"ABSENT"}
    <3>1. orders[o].submit = 0 /\ orders[o].cancel = 0 /\ orders[o].status = "ABSENT"
      BY <1>0, <1>1 DEF CreateIntent, Reservations, Tables, Row
    <3> QED
      BY <1>0, <1>1, <3>1 DEF CreateIntent, Tables, AbsentRow
  <2>5. Locals' /\ \A q \in Session : pc'[q] \in {"reserved", "armed"}
                            => /\ pc[q] \in {"reserved", "armed"}
                               /\ op'[q] = op[q] /\ cur'[q] = cur[q]
    BY <1>0, <1>1 DEF CreateIntent, Locals, Fits, Pc
  <2>6. LeaseOK' /\ BrokerBook' /\ Others' /\ UNCHANGED <<submits, cancels>>
    BY <1>0, <1>1 DEF CreateIntent, LeaseOK, BrokerBook, Others, brokerVars, leaseVars
  <2>7. Reservations'
    BY <1>0, <2>4, <2>5, <2>6, ReservationsKept
  <2> QED
    BY <2>3, <2>5, <2>6, <2>7 DEF OmsInv, Types
<1>2. CASE PrepareSubmit(s)
  <2> DEFINE c == cur[s]
  <2>0. c \in Order /\ op[s] = "submit" /\ pc[s] = "authorized"
    BY <1>0, <1>2 DEF PrepareSubmit, Locals, Fits
  <2>1. CASE ~CanReserve(orders[c], "SUBMITTING", orders[c].submit)
    <3>1. Done(s, "idle") /\ orders' = orders
      BY <1>2, <2>1 DEF PrepareSubmit
    <3>2. UNCHANGED <<durable, submits, cancels>>
      BY <1>0, <1>2, <3>1 DEF PrepareSubmit, Stamp, Tables, durable, brokerVars
    <3>3. Locals' /\ \A q \in Session : pc'[q] \in {"reserved", "armed"}
                            => /\ pc[q] \in {"reserved", "armed"}
                               /\ op'[q] = op[q] /\ cur'[q] = cur[q]
      BY <1>0, <3>1, DoneLocals DEF Done, Locals
    <3>4. LeaseOK' /\ BrokerBook' /\ Others'
      BY <1>0, <1>2 DEF PrepareSubmit, LeaseOK, BrokerBook, Others, brokerVars, leaseVars, Fault
    <3> QED
      BY <3>2, <3>3, <3>4, QuietInv
  <2>2. CASE CanReserve(orders[c], "SUBMITTING", orders[c].submit)
    <3>1. orders' = [orders EXCEPT ![c].status = "SUBMITTING", ![c].submit = 1]
          /\ Goto(s, "reserved", "SUBMITTING")
      BY <1>2, <2>2 DEF PrepareSubmit
    <3>2. orders[c].submit = 0 /\ orders[c] \in Row
      BY <1>0, <2>0, <2>2 DEF CanReserve, Tables
    <3> HIDE DEF c
    <3>3. /\ orders' \in [Order -> Row]
          /\ orders'[c].status = "SUBMITTING" /\ orders'[c].submit = 1
          /\ orders'[c].cancel = orders[c].cancel
          /\ \A p \in Order \ {c} : orders'[p] = orders[p]
      BY <1>0, <2>0, <3>1, <3>2 DEF Tables, Row, Status
    <3>4. Locals'
      BY <1>0, <2>0, <3>1, GotoLocals DEF Fits, Pc, Status, c
    <3>5. Tables' /\ LeaseOK' /\ BrokerBook' /\ Others' /\ UNCHANGED <<submits, cancels>>
      <4>1. Tables'
        BY <1>0, <1>2, <3>3, StampType DEF PrepareSubmit, Tables
      <4>2. UNCHANGED <<leaseVars, reconciled, brokerVars>> /\ UNCHANGED faults
        BY <1>2, <2>2 DEF PrepareSubmit, c
      <4> QED
        BY <1>0, <4>1, <4>2 DEF LeaseOK, BrokerBook, Others, brokerVars, leaseVars
    <3>6. Reservations'
      <4>1. /\ pc' = [pc EXCEPT ![s] = "reserved"] /\ op' = op /\ cur' = cur
            /\ pc[s] \notin {"reserved", "armed"} /\ pc \in [Session -> Pc]
        BY <1>0, <2>0, <3>1 DEF Goto, Locals
      <4>2. submits[c] = 0
        <5>1. submits[c] \in Nat
          BY <1>0, <2>0 DEF BrokerBook
        <5>2. submits[c] <= 1 /\ submits[c] # 1
          BY <1>0, <2>0, <3>2 DEF Reservations
        <5> QED
          BY <5>1, <5>2
      <4>3. \A q \in Session : \A k : q # s => (Calling(q, k)' <=> Calling(q, k))
        BY <4>1 DEF Calling
      <4>4. \A k : Calling(s, k)' => k = "submit"
        BY <2>0, <4>1 DEF Calling
      <4>5. \A q \in Session : Calling(q, "submit") => cur[q] # c
        BY <1>0, <3>2 DEF Reservations
      <4>6. \A q \in Session : \A k : Calling(q, k) => cur[q] \in Order
        BY <1>0 DEF Locals, Fits, Calling
      <4>7. cur[s] = c
        BY DEF c
      <4>8. c \in Order /\ "SUBMITTING" \notin PreSubmit \cup {"ABSENT"}
        BY <2>0 DEF PreSubmit
      <4>9. \A q \in Session :
              /\ Calling(q, "submit")' => orders'[cur'[q]].submit = 1 /\ submits'[cur'[q]] = 0
              /\ Calling(q, "cancel")' => orders'[cur'[q]].cancel = 1 /\ cancels'[cur'[q]] = 0
        BY <1>0, <3>3, <3>5, <4>1, <4>2, <4>3, <4>4, <4>6, <4>7, <4>8 DEF Reservations
      <4>10. \A q, r \in Session :
              /\ Calling(q, "submit")' /\ Calling(r, "submit")' /\ q # r => cur'[q] # cur'[r]
              /\ Calling(q, "cancel")' /\ Calling(r, "cancel")' /\ q # r => cur'[q] # cur'[r]
        BY <1>0, <4>1, <4>3, <4>4, <4>5, <4>7 DEF Reservations
      <4>11. \A p \in Order :
              /\ submits'[p] <= 1 /\ (submits'[p] = 1 => orders'[p].submit = 1)
              /\ cancels'[p] <= 1 /\ (cancels'[p] = 1 => orders'[p].cancel = 1)
              /\ orders'[p].submit = 1 \/ orders'[p].cancel = 1
                   => orders'[p].status \notin PreSubmit \cup {"ABSENT"}
        BY <1>0, <3>3, <3>5, <4>8 DEF Reservations
      <4> QED
        BY <4>9, <4>10, <4>11 DEF Reservations
    <3> QED
      BY <3>4, <3>5, <3>6 DEF OmsInv, Types
  <2> QED
    BY <2>1, <2>2
<1>3. CASE PrepareCancel(s, o)
  <2>1. /\ orders' = [orders EXCEPT ![o].status = "CANCEL_PENDING", ![o].cancel = 1,
                                    ![o].resolved = 0]
        /\ orders[o].cancel = 0 /\ orders[o] \in Row
    BY <1>0, <1>3 DEF PrepareCancel, CanReserve, Tables
  <2>2. /\ orders' \in [Order -> Row]
        /\ orders'[o].status = "CANCEL_PENDING" /\ orders'[o].cancel = 1
        /\ orders'[o].submit = orders[o].submit
        /\ \A p \in Order \ {o} : orders'[p] = orders[p]
    BY <1>0, <2>1 DEF Tables, Row, Status
  <2>3. /\ pc' = [pc EXCEPT ![s] = "reserved"] /\ op' = [op EXCEPT ![s] = "cancel"]
        /\ cur' = [cur EXCEPT ![s] = o] /\ pc[s] = "idle"
    BY <1>3 DEF PrepareCancel, Ready
  <2>4. Locals'
    BY <1>0, <1>3, <2>3 DEF PrepareCancel, Locals, Fits, Pc
  <2>5. Tables' /\ LeaseOK' /\ BrokerBook' /\ Others' /\ UNCHANGED <<submits, cancels>>
    <3>1. Tables'
      BY <1>0, <1>3, <2>2, StampType DEF PrepareCancel, Tables
    <3> QED
      BY <1>0, <1>3, <3>1 DEF PrepareCancel, LeaseOK, BrokerBook, Others, brokerVars, leaseVars
  <2>6. Reservations'
    <3>1. cancels[o] = 0
      <4>1. cancels[o] \in Nat
        BY <1>0 DEF BrokerBook
      <4>2. cancels[o] <= 1 /\ cancels[o] # 1
        BY <1>0, <2>1 DEF Reservations
      <4> QED
        BY <4>1, <4>2
    <3>2. \A q \in Session : \A k : q # s => (Calling(q, k)' <=> Calling(q, k)) /\ cur'[q] = cur[q]
      BY <1>0, <2>3 DEF Calling, Locals
    <3>3. \A k : Calling(s, k)' => k = "cancel"
      BY <1>0, <2>3 DEF Calling, Locals
    <3>4. \A q \in Session : Calling(q, "cancel") => cur[q] # o
      BY <1>0, <2>1 DEF Reservations
    <3>5. \A q \in Session : \A k : Calling(q, k) => cur[q] \in Order
      BY <1>0 DEF Locals, Fits, Calling
    <3>6. cur'[s] = o /\ "CANCEL_PENDING" \notin PreSubmit \cup {"ABSENT"}
      BY <1>0, <2>3 DEF Locals, PreSubmit
    <3>7. \A q \in Session :
            /\ Calling(q, "submit")' => orders'[cur'[q]].submit = 1 /\ submits'[cur'[q]] = 0
            /\ Calling(q, "cancel")' => orders'[cur'[q]].cancel = 1 /\ cancels'[cur'[q]] = 0
      BY <1>0, <2>2, <2>5, <3>1, <3>2, <3>3, <3>5, <3>6 DEF Reservations
    <3>8. \A q, r \in Session :
            /\ Calling(q, "submit")' /\ Calling(r, "submit")' /\ q # r => cur'[q] # cur'[r]
            /\ Calling(q, "cancel")' /\ Calling(r, "cancel")' /\ q # r => cur'[q] # cur'[r]
      BY <1>0, <3>2, <3>3, <3>4, <3>6 DEF Reservations
    <3>9. \A p \in Order :
            /\ submits'[p] <= 1 /\ (submits'[p] = 1 => orders'[p].submit = 1)
            /\ cancels'[p] <= 1 /\ (cancels'[p] = 1 => orders'[p].cancel = 1)
            /\ orders'[p].submit = 1 \/ orders'[p].cancel = 1
                 => orders'[p].status \notin PreSubmit \cup {"ABSENT"}
      BY <1>0, <2>2, <2>5, <3>6 DEF Reservations
    <3> QED
      BY <3>7, <3>8, <3>9 DEF Reservations
  <2> QED
    BY <2>4, <2>5, <2>6 DEF OmsInv, Types
<1> QED
  BY <1>1, <1>2, <1>3

\* The lease check before the call and the call itself (service.py:354-356, 417-419).
LEMMA CallSteps ==
  ASSUME OmsInv, NEW s \in Session, AssertBeforeCall(s) \/ CallDriver(s)
  PROVE  OmsInv'
<1>0. Tables /\ LeaseOK /\ Locals /\ BrokerBook /\ Others /\ Reservations
  BY DEF OmsInv, Types
<1>1. CASE AssertBeforeCall(s)
  <2>1. Goto(s, "armed", seen[s]) /\ pc[s] = "reserved"
    BY <1>1 DEF AssertBeforeCall
  <2>2. Locals'
    BY <1>0, <2>1, GotoLocals DEF Fits, Pc, Locals
  <2>3. \A q \in Session : pc'[q] \in {"reserved", "armed"}
                            => /\ pc[q] \in {"reserved", "armed"}
                               /\ op'[q] = op[q] /\ cur'[q] = cur[q]
    BY <1>0, <2>1 DEF Goto, Locals
  <2>4. LeaseOK' /\ BrokerBook' /\ Others' /\ UNCHANGED <<durable, submits, cancels>>
    BY <1>0, <1>1 DEF AssertBeforeCall, LeaseOK, BrokerBook, Others, brokerVars, leaseVars
  <2> QED
    BY <2>2, <2>3, <2>4, QuietInv
<1>2. CASE CallDriver(s)
  <2> DEFINE c == cur[s]
  <2>1. c \in Order /\ op[s] \in {"submit", "cancel"} /\ pc[s] = "armed"
    BY <1>0, <1>2 DEF CallDriver, Locals, Fits
  <2>2. PICK where \in {"returned", "failed"} : Goto(s, where, seen[s])
    BY <1>2 DEF CallDriver
  <2>3. Locals'
    <3>1. Fits(where, op[s], cur[s]) /\ where \in Pc /\ seen[s] \in Status \cup {"ABSENT"}
      BY <1>0, <2>1 DEF Fits, Pc, Locals
    <3> QED
      BY <1>0, <2>2, <3>1, GotoLocals
  <2>4. Tables' /\ LeaseOK' /\ Others' /\ orders' = orders
    BY <1>0, <1>2 DEF CallDriver, Tables, LeaseOK, Others, leaseVars, durable
  <2>5. BrokerBook'
    <3>1. CASE op[s] = "submit"
      <4>1. /\ submits' = [submits EXCEPT ![c] = submits[c] + 1]
            /\ cancels' = cancels /\ emitted' = emitted
            /\ broker' = [broker EXCEPT ![c] =
                            [broker[c] EXCEPT !.st = IF broker[c].st = "NONE" THEN "SENT"
                                                     ELSE broker[c].st]]
        BY <1>2, <3>1 DEF CallDriver
      <4> HIDE DEF c
      <4>2. submits' \in [Order -> Nat]
        BY <1>0, <2>1, <4>1 DEF BrokerBook
      <4>3. broker' \in [Order -> [st : BrokerStatus \cup {"NONE", "SENT"}, filled : 0..Quantity]]
        BY <1>0, <2>1, <4>1 DEF BrokerBook
      <4> QED
        BY <1>0, <4>1, <4>2, <4>3 DEF BrokerBook
    <3>2. CASE op[s] = "cancel"
      <4>1. /\ cancels' = [cancels EXCEPT ![c] = cancels[c] + 1]
            /\ submits' = submits /\ emitted' = emitted /\ broker' = broker
        BY <1>2, <3>2 DEF CallDriver
      <4> HIDE DEF c
      <4>2. cancels' \in [Order -> Nat]
        BY <1>0, <2>1, <4>1 DEF BrokerBook
      <4> QED
        BY <1>0, <4>1, <4>2 DEF BrokerBook
    <3> QED
      BY <2>1, <3>1, <3>2
  <2>6. /\ cur' = cur /\ op' = op
        /\ \A q \in Session : \A k : Calling(q, k)' => Calling(q, k) /\ q # s
    BY <1>0, <2>2 DEF Goto, Calling, Locals
  <2>7. \A q \in Session : \A k : Calling(q, k) => cur[q] \in Order
    BY <1>0 DEF Locals, Fits, Calling
  <2>8. CASE op[s] = "submit"
    <3>1. submits' = [submits EXCEPT ![c] = submits[c] + 1] /\ cancels' = cancels
      BY <1>2, <2>8 DEF CallDriver
    <3>2. orders[c].submit = 1 /\ submits[c] = 0
      BY <1>0, <2>1, <2>8 DEF Reservations, Calling
    <3>3. \A q \in Session : Calling(q, "submit")' => cur[q] # c
      BY <1>0, <2>1, <2>6, <2>8 DEF Reservations, Calling
    <3> HIDE DEF c
    <3>4. submits'[c] = 1 /\ \A p \in Order \ {c} : submits'[p] = submits[p]
      BY <1>0, <2>1, <3>1, <3>2 DEF BrokerBook
    <3>5. \A q \in Session :
            /\ Calling(q, "submit")' => orders'[cur'[q]].submit = 1 /\ submits'[cur'[q]] = 0
            /\ Calling(q, "cancel")' => orders'[cur'[q]].cancel = 1 /\ cancels'[cur'[q]] = 0
      BY <1>0, <2>4, <2>6, <2>7, <3>1, <3>3, <3>4 DEF Reservations
    <3>6. \A p \in Order :
            /\ submits'[p] <= 1 /\ (submits'[p] = 1 => orders'[p].submit = 1)
            /\ cancels'[p] <= 1 /\ (cancels'[p] = 1 => orders'[p].cancel = 1)
            /\ orders'[p].submit = 1 \/ orders'[p].cancel = 1
                 => orders'[p].status \notin PreSubmit \cup {"ABSENT"}
      BY <1>0, <2>4, <3>1, <3>2, <3>4 DEF Reservations
    <3>7. \A q, r \in Session :
            /\ Calling(q, "submit")' /\ Calling(r, "submit")' /\ q # r => cur'[q] # cur'[r]
            /\ Calling(q, "cancel")' /\ Calling(r, "cancel")' /\ q # r => cur'[q] # cur'[r]
      BY <1>0, <2>6 DEF Reservations
    <3>8. Reservations'
      BY <3>5, <3>6, <3>7 DEF Reservations
    <3> QED
      BY <2>3, <2>4, <2>5, <3>8 DEF OmsInv, Types
  <2>9. CASE op[s] = "cancel"
    <3>1. cancels' = [cancels EXCEPT ![c] = cancels[c] + 1] /\ submits' = submits
      BY <1>2, <2>9 DEF CallDriver
    <3>2. orders[c].cancel = 1 /\ cancels[c] = 0
      BY <1>0, <2>1, <2>9 DEF Reservations, Calling
    <3>3. \A q \in Session : Calling(q, "cancel")' => cur[q] # c
      BY <1>0, <2>1, <2>6, <2>9 DEF Reservations, Calling
    <3> HIDE DEF c
    <3>4. cancels'[c] = 1 /\ \A p \in Order \ {c} : cancels'[p] = cancels[p]
      BY <1>0, <2>1, <3>1, <3>2 DEF BrokerBook
    <3>5. \A q \in Session :
            /\ Calling(q, "submit")' => orders'[cur'[q]].submit = 1 /\ submits'[cur'[q]] = 0
            /\ Calling(q, "cancel")' => orders'[cur'[q]].cancel = 1 /\ cancels'[cur'[q]] = 0
      BY <1>0, <2>4, <2>6, <2>7, <3>1, <3>3, <3>4 DEF Reservations
    <3>6. \A p \in Order :
            /\ submits'[p] <= 1 /\ (submits'[p] = 1 => orders'[p].submit = 1)
            /\ cancels'[p] <= 1 /\ (cancels'[p] = 1 => orders'[p].cancel = 1)
            /\ orders'[p].submit = 1 \/ orders'[p].cancel = 1
                 => orders'[p].status \notin PreSubmit \cup {"ABSENT"}
      BY <1>0, <2>4, <3>1, <3>2, <3>4 DEF Reservations
    <3>7. \A q, r \in Session :
            /\ Calling(q, "submit")' /\ Calling(r, "submit")' /\ q # r => cur'[q] # cur'[r]
            /\ Calling(q, "cancel")' /\ Calling(r, "cancel")' /\ q # r => cur'[q] # cur'[r]
      BY <1>0, <2>6 DEF Reservations
    <3>8. Reservations'
      BY <3>5, <3>6, <3>7 DEF Reservations
    <3> QED
      BY <2>3, <2>4, <2>5, <3>8 DEF OmsInv, Types
  <2> QED
    BY <2>1, <2>8, <2>9
<1> QED
  BY <1>1, <1>2

\* The steps that are one transition_order each (service.py:188-302, 347-391, 441-473).
LEMMA TransitionSteps ==
  ASSUME OmsInv, NEW s \in Session,
         \/ RecordRiskDecision(s) \/ PersistUnknown(s) \/ BeginReconciling(s)
         \/ ResolveCancel(s) \/ RecoveryResolvesCancel(s) \/ CancelAlreadyTerminal(s)
  PROVE  OmsInv'
<1>0. Locals /\ Tables
  BY DEF OmsInv, Types
<1>1. CASE RecordRiskDecision(s)
  <2>1. cur[s] \in Order /\ Fits("authorized", op[s], cur[s])
    BY <1>0, <1>1 DEF RecordRiskDecision, Locals, Fits
  <2>2. \/ Write(s, "RISK_ACCEPTED", FALSE, "authorized")
        \/ Write(s, "RISK_REJECTED", FALSE, "idle")
    BY <1>1 DEF RecordRiskDecision
  <2> QED
    BY <2>1, <2>2, WriteInv DEF Status, PreSubmit, Pc
<1>2. CASE PersistUnknown(s)
  <2>1. cur[s] \in Order /\ Fits("unknown", op[s], cur[s])
    BY <1>0, <1>2 DEF PersistUnknown, Locals, Fits
  <2>2. Write(s, "UNKNOWN", FALSE, "idle") \/ Write(s, "UNKNOWN", FALSE, "unknown")
    BY <1>2 DEF PersistUnknown
  <2> QED
    BY <2>1, <2>2, WriteInv DEF Status, Pc
<1>3. CASE BeginReconciling(s)
  <2>1. cur[s] \in Order /\ Fits("reconciling", op[s], cur[s])
    BY <1>0, <1>3 DEF BeginReconciling, Locals, Fits
  <2> QED
    BY <1>3, <2>1, WriteInv DEF BeginReconciling, Status, Pc
<1>4. CASE ResolveCancel(s)
  <2>1. cur[s] \in Order /\ seen[s] \in Status \cup {"ABSENT"}
    BY <1>0, <1>4 DEF ResolveCancel, Locals, Fits
  <2> QED
    BY <1>4, <2>1, WriteInv DEF ResolveCancel, Pc
<1>5. CASE RecoveryResolvesCancel(s)
  <2>1. cur[s] \in Order /\ Fits("next", op[s], cur[s])
    BY <1>0, <1>5 DEF RecoveryResolvesCancel, Locals, Fits
  <2>2. orders[cur[s]].status \in Status \cup {"ABSENT"}
    BY <1>0, <2>1 DEF Tables, Row
  <2> QED
    BY <1>5, <2>1, <2>2, WriteInv DEF RecoveryResolvesCancel, Pc
<1>6. CASE CancelAlreadyTerminal(s)
  <2>1. cur[s] \in Order /\ Fits("next", op[s], cur[s]) /\ seen[s] \in Status \cup {"ABSENT"}
    BY <1>0, <1>6 DEF CancelAlreadyTerminal, Locals, Fits
  <2> QED
    BY <1>6, <2>1, WriteInv DEF CancelAlreadyTerminal, Pc
<1> QED
  BY <1>1, <1>2, <1>3, <1>4, <1>5, <1>6

\* Recovery raising an error, or a failing query: nothing is written.
LEMMA AbortedOperation ==
  ASSUME OmsInv, NEW s \in Session, RecoveryFails(s) \/ QueryFails(s)
  PROVE  OmsInv'
<1>1. Done(s, "idle") /\ Locals
  BY DEF RecoveryFails, QueryFails, OmsInv, Types
<1>2. Locals' /\ \A q \in Session : pc'[q] \in {"reserved", "armed"}
                            => /\ pc[q] \in {"reserved", "armed"}
                               /\ op'[q] = op[q] /\ cur'[q] = cur[q]
  BY <1>1, DoneLocals DEF Done, Locals
<1>3. LeaseOK' /\ BrokerBook' /\ Others' /\ UNCHANGED <<durable, submits, cancels>>
  BY DEF RecoveryFails, QueryFails, OmsInv, Types, LeaseOK, BrokerBook, Others, brokerVars,
         leaseVars, Fault
<1> QED
  BY <1>2, <1>3, QuietInv

\* The writes recovery makes while it walks a row to RECONCILING (service.py:188-272).
LEMMA ClassifySteps ==
  ASSUME OmsInv, NEW s \in Session, AbortOrphan(s) \/ Classify(s)
  PROVE  OmsInv'
<1>0. Locals
  BY DEF OmsInv, Types
<1>1. cur[s] \in Order /\ Fits("next", op[s], cur[s]) /\ Fits("visiting", op[s], cur[s])
  BY <1>0 DEF AbortOrphan, Classify, Locals, Fits
<1>2. \/ RecoveryFails(s)
      \/ Write(s, "ABORTED", FALSE, "next")
      \/ Write(s, "UNKNOWN", FALSE, "visiting")
      \/ Write(s, "CANCEL_PENDING", FALSE, "visiting")
      \/ Write(s, "RECONCILING", FALSE, "visiting")
  BY DEF AbortOrphan, Classify
<1> QED
  BY <1>1, <1>2, WriteInv, AbortedOperation DEF Status, PreSubmit, Pc

\* Reads that move a thread: the query, and recover()'s loop (service.py:176-181,
\* 274-276, 299-302, 392-396, 455-457).
LEMMA ReadSteps ==
  ASSUME OmsInv, NEW s \in Session,
         Query(s) \/ StartRecovery(s) \/ Visit(s) \/ FinishRecovery(s)
  PROVE  OmsInv'
<1>0. Tables /\ LeaseOK /\ Locals /\ BrokerBook /\ Others
  BY DEF OmsInv, Types
<1>1. LeaseOK' /\ BrokerBook' /\ Others' /\ UNCHANGED <<durable, submits, cancels>>
  BY <1>0 DEF Query, StartRecovery, Visit, FinishRecovery, LeaseOK, BrokerBook, Others,
              brokerVars, leaseVars
<1>2. Locals' /\ \A q \in Session : pc'[q] \in {"reserved", "armed"}
                            => /\ pc[q] \in {"reserved", "armed"}
                               /\ op'[q] = op[q] /\ cur'[q] = cur[q]
  <2>1. CASE Query(s)
    <3>1. PICK r \in {NoReply} \cup {f \in emitted : f.order = cur[s]} :
             reply' = [reply EXCEPT ![s] = r]
      BY <2>1 DEF Query
    <3>2. r \in Published \cup {NoReply}
      BY <1>0 DEF BrokerBook
    <3>3. Fits("answered", op[s], cur[s])
      BY <1>0, <2>1 DEF Query, AtQuery, Locals, Fits
    <3> QED
      BY <1>0, <2>1, <3>1, <3>2, <3>3 DEF Query, Locals, Pc
  <2>2. CASE StartRecovery(s)
    BY <1>0, <2>2, OmsAssumption DEF StartRecovery, Locals, Tables, Fits, Pc
  <2>3. CASE Visit(s)
    <3>1. PICK o \in todo[s] : /\ cur' = [cur EXCEPT ![s] = o]
                               /\ seen' = [seen EXCEPT ![s] = snap[s][o].status]
                               /\ todo' = [todo EXCEPT ![s] = @ \ {o}]
      BY <2>3 DEF Visit
    <3>2. o \in Order /\ snap[s][o].status \in Status \cup {"ABSENT"}
      BY <1>0 DEF Locals, Row
    <3>3. op[s] = "recover"
      BY <1>0, <2>3 DEF Visit, Locals, Fits
    <3> QED
      BY <1>0, <2>3, <3>1, <3>2, <3>3 DEF Visit, Locals, Fits, Pc
  <2>4. CASE FinishRecovery(s)
    <3>1. Done(s, "idle")
      BY <2>4 DEF FinishRecovery
    <3> QED
      BY <1>0, <3>1, DoneLocals DEF Done, Locals
  <2> QED
    BY <2>1, <2>2, <2>3, <2>4
<1> QED
  BY <1>1, <1>2, QuietInv

\* What a session builds from an answer, or a caller from a callback, is a fact.
LEMMA EvidenceTypes ==
  ASSUME OmsInv
  PROVE  /\ \A s \in Session : pc[s] = "answered" /\ reply[s] # NoReply
                                => QueryEvidence(s) \in Fact0
         /\ \A f \in emitted : CallbackEvidence(f) \in Fact0
<1>1. ASSUME NEW s \in Session, pc[s] = "answered", reply[s] # NoReply
      PROVE  QueryEvidence(s) \in Fact0
  <2>1. /\ cur[s] \in Order /\ op[s] \in {"submit", "cancel", "recover"}
        /\ reply[s] \in Published
    BY <1>1 DEF OmsInv, Types, Locals, Fits
  <2>2. <<s, op[s], cur[s]>> \in EventId
    BY <2>1 DEF EventId
  <2> QED
    BY <2>1, <2>2, OmsAssumption DEF QueryEvidence, Fact0, Published
<1>2. ASSUME NEW f \in emitted PROVE CallbackEvidence(f) \in Fact0
  <2>1. f \in Published
    BY DEF OmsInv, Types, BrokerBook
  <2>2. <<"callback", f.order, f.status, f.filled>> \in EventId
    BY <2>1 DEF EventId, Published
  <2> QED
    BY <2>1, <2>2, OmsAssumption DEF CallbackEvidence, Fact0, Published
<1> QED
  BY <1>1, <1>2

\* Applying an answer or a callback (service.py:129-132, 277-297, 397-409, 458-465).
LEMMA EvidenceSteps ==
  ASSUME OmsInv, NEW s \in Session,
         \/ ApplyAnswer(s) \/ ApplyRecoveryAnswer(s)
         \/ \E f \in emitted : Callback(s, f)
  PROVE  OmsInv'
<1>0. Locals /\ Tables
  BY DEF OmsInv, Types
<1>1. ASSUME NEW e \in Fact0, Ingest(s, e), NEW where \in Pc \ {"reserved", "armed"},
             NEW status \in Status \cup {"ABSENT"}, Fits(where, op[s], cur[s]),
             Done(s, "idle") \/ Goto(s, where, status)
      PROVE  OmsInv'
  <2>1. Locals'
    BY <1>0, <1>1, DoneLocals, GotoLocals
  <2>2. \A q \in Session : pc'[q] \in {"reserved", "armed"}
                            => /\ pc[q] \in {"reserved", "armed"}
                               /\ op'[q] = op[q] /\ cur'[q] = cur[q]
    BY <1>0, <1>1, ThreadMoves
  <2> QED
    BY <1>1, <2>1, <2>2, IngestInv
<1>2. CASE ApplyAnswer(s)
  <2>1. pc[s] = "answered" /\ cur[s] \in Order /\ op[s] # "none"
    BY <1>0, <1>2 DEF ApplyAnswer, Locals, Fits
  <2>2. CASE reply[s] = NoReply
    <3>1. Done(s, "idle")
      BY <1>2, <2>2 DEF ApplyAnswer
    <3>2. Locals' /\ \A q \in Session : pc'[q] \in {"reserved", "armed"}
                            => /\ pc[q] \in {"reserved", "armed"}
                               /\ op'[q] = op[q] /\ cur'[q] = cur[q]
      BY <1>0, <3>1, DoneLocals DEF Done, Locals
    <3>3. LeaseOK' /\ BrokerBook' /\ Others' /\ UNCHANGED <<durable, submits, cancels>>
      BY <1>2, <2>2 DEF ApplyAnswer, OmsInv, Types, LeaseOK, BrokerBook, Others, brokerVars,
                        leaseVars
    <3> QED
      BY <3>2, <3>3, QuietInv
  <2>3. CASE reply[s] # NoReply
    <3>1. QueryEvidence(s) \in Fact0
      BY <2>1, <2>3, EvidenceTypes
    <3>2. Ingest(s, QueryEvidence(s))
      BY <1>2, <2>3 DEF ApplyAnswer
    <3>3. Done(s, "idle") \/ Goto(s, "ingested", orders'[cur[s]].status)
      BY <1>2, <2>3 DEF ApplyAnswer
    <3>4. orders' \in [Order -> Row]
      BY <1>0, <3>1, <3>2, IngestRowsFacts DEF Tables, Ingest
    <3>5. orders'[cur[s]].status \in Status \cup {"ABSENT"}
      BY <2>1, <3>4 DEF Row
    <3>6. Fits("ingested", op[s], cur[s]) /\ "ingested" \in Pc \ {"reserved", "armed"}
      BY <2>1 DEF Fits, Pc
    <3> QED
      BY <1>1, <3>1, <3>2, <3>3, <3>5, <3>6
  <2> QED
    BY <2>2, <2>3
<1>3. CASE ApplyRecoveryAnswer(s)
  <2>1. /\ pc[s] = "answered" /\ cur[s] \in Order /\ op[s] = "recover"
        /\ seen[s] \in Status \cup {"ABSENT"}
    BY <1>0, <1>3 DEF ApplyRecoveryAnswer, Locals, Fits
  <2>2. \A w \in {"ingested", "next"} : Fits(w, op[s], cur[s]) /\ w \in Pc \ {"reserved", "armed"}
    BY <2>1 DEF Fits, Pc
  <2>3. CASE reply[s] = NoReply
    BY <1>3, <2>1, <2>2, <2>3, WriteInv DEF ApplyRecoveryAnswer, CancelUnresolved, Status
  <2>4. CASE reply[s] # NoReply
    <3>1. QueryEvidence(s) \in Fact0
      BY <2>1, <2>4, EvidenceTypes
    <3>2. /\ Ingest(s, QueryEvidence(s))
          /\ \/ Done(s, "idle")
             \/ Goto(s, "ingested", seen[s])
             \/ Goto(s, "next", seen[s])
      BY <1>3, <2>4 DEF ApplyRecoveryAnswer
    <3> QED
      BY <1>1, <2>1, <2>2, <3>1, <3>2
  <2> QED
    BY <2>3, <2>4
<1>4. ASSUME NEW f \in emitted, Callback(s, f) PROVE OmsInv'
  <2>1. CallbackEvidence(f) \in Fact0
    BY EvidenceTypes
  <2>2. Locals' /\ UNCHANGED <<pc, op, cur>>
    BY <1>0, <1>4 DEF Callback, Locals
  <2> QED
    BY <1>4, <2>1, <2>2, IngestInv DEF Callback
<1> QED
  BY <1>2, <1>3, <1>4

\* The broker's own steps (external).
LEMMA BrokerSteps ==
  ASSUME OmsInv, NEW o \in Order, BrokerAnswers(o) \/ BrokerFills(o) \/ BrokerCancels(o)
  PROVE  OmsInv'
<1>0. BrokerBook /\ Locals
  BY DEF OmsInv, Types
<1>1. \E st \in BrokerStatus, n \in 0..Quantity : Publish(o, st, n)
  <2>1. broker[o].filled \in 0..Quantity
    BY <1>0 DEF BrokerBook
  <2>2. CASE BrokerAnswers(o)
    BY <2>2, QuantityAssumption DEF BrokerAnswers, BrokerStatus, BrokerTerminal
  <2>3. CASE BrokerFills(o)
    BY <2>1, <2>3, QuantityAssumption DEF BrokerFills, BrokerStatus, BrokerTerminal
  <2>4. CASE BrokerCancels(o)
    BY <2>1, <2>4 DEF BrokerCancels, BrokerStatus, BrokerTerminal
  <2> QED
    BY <2>2, <2>3, <2>4
<1>2. PICK st \in BrokerStatus, n \in 0..Quantity : Publish(o, st, n)
  BY <1>1
<1>3. BrokerBook'
  BY <1>0, <1>2 DEF Publish, BrokerBook, Published
<1>4. LeaseOK' /\ Locals' /\ Others' /\ UNCHANGED <<durable, submits, cancels, pc, op, cur>>
  BY <1>2 DEF Publish, OmsInv, Types, LeaseOK, Locals, Others, leaseVars, progress
<1> QED
  BY <1>3, <1>4, QuietInv

\* Every step preserves the invariant.
LEMMA NextInv == OmsInv /\ [Next]_vars => OmsInv'
<1> SUFFICES ASSUME OmsInv, [Next]_vars PROVE OmsInv'
  OBVIOUS
<1>1. ASSUME NEW s \in Session, Step(s) PROVE OmsInv'
  <2>1. CASE PrepareSubmit(s)
    <3>1. cur[s] \in Order
      BY <2>1 DEF PrepareSubmit, OmsInv, Types, Locals, Fits
    <3> QED
      BY <2>1, <3>1, CommandSteps
  <2> QED
    BY <1>1, <2>1, TransitionSteps, CallSteps, ReadSteps, EvidenceSteps, ClassifySteps,
       SessionSteps DEF Step
<1>2. ASSUME NEW s \in Session, NEW o \in Order, CreateIntent(s, o) \/ PrepareCancel(s, o)
      PROVE  OmsInv'
  BY <1>2, CommandSteps
<1>3. ASSUME NEW s \in Session,
             Start(s) \/ Close(s) \/ Crash(s) \/ Renew(s) \/ StartRecovery(s) \/ QueryFails(s)
      PROVE  OmsInv'
  BY <1>3, SessionSteps, ReadSteps, AbortedOperation
<1>4. ASSUME NEW s \in Session, NEW f \in emitted, Callback(s, f) PROVE OmsInv'
  BY <1>4, EvidenceSteps
<1>5. CASE Expire
  <2>1. Session = {} => OmsInv'
    <3> SUFFICES ASSUME Session = {} PROVE OmsInv'
      OBVIOUS
    <3> QED
      BY <1>5 DEF Expire, OmsInv, Types, LeaseOK
  <2>2. ASSUME NEW s \in Session PROVE OmsInv'
    BY <1>5, <2>2, SessionSteps
  <2> QED
    BY <2>1, <2>2
<1>6. ASSUME NEW o \in Order, BrokerAnswers(o) \/ BrokerFills(o) \/ BrokerCancels(o)
      PROVE  OmsInv'
  BY <1>6, BrokerSteps
<1>7. CASE UNCHANGED vars
  <2>1. LeaseOK' /\ BrokerBook' /\ Others' /\ Locals'
        /\ UNCHANGED <<durable, submits, cancels, pc, op, cur>>
    BY <1>7 DEF vars, OmsInv, Types, LeaseOK, BrokerBook, Others, Locals, durable
  <2> QED
    BY <2>1, QuietInv
<1> QED
  BY <1>1, <1>2, <1>3, <1>4, <1>5, <1>6, <1>7 DEF Next

\* The inductive invariant holds in every reachable state.
THEOREM OmsInvariance == Spec => []OmsInv
  BY InitInv, NextInv, PTL DEF Spec

\* Tables, locals and the broker's book keep their types for every instance.
THEOREM TypeCorrect == Spec => []TypeOK
  BY OmsInvariance, InvImplies, PTL

\* However many sessions crash, are superseded or recover, and wherever they are when it
\* happens, the driver is asked at most once to submit and at most once to cancel an
\* order (repository.py:178-254, service.py:353-356, 416-419).
THEOREM NoDuplicateBrokerCall == Spec => []AtMostOneBrokerCall
  BY OmsInvariance, InvImplies, PTL

\* A call that reached the driver has a durable reservation, and the order is past the
\* states recovery aborts (repository.py:178-254, service.py:188-204).
THEOREM CallsAreReserved == Spec => []ReservedBeforeCall
  BY OmsInvariance, InvImplies, PTL

\* The lease row is left alone, and session s, which has a LeaderLease object, keeps it.
KeepsLease(s) ==
  /\ holder' = holder /\ lease' = lease
  /\ pc[s] \notin {"off", "closed"}
  /\ \E p \in Pc \ {"off", "closed"} : pc' = [pc EXCEPT ![s] = p]

\* A session that keeps its LeaderLease object leaves the abstract lease as it was.
LEMMA LeaseKept ==
  ASSUME OmsInv, NEW s \in Session, KeepsLease(s)
  PROVE  holder' = holder /\ lease' = lease /\ claims' = claims
<1>1. pc \in [Session -> Pc]
  BY DEF OmsInv, Types, Locals
<1>2. PICK p \in Pc \ {"off", "closed"} : pc' = [pc EXCEPT ![s] = p]
  BY DEF KeepsLease
<1>3. \A t \in Session : (pc'[t] \notin {"off", "closed"}) <=> (pc[t] \notin {"off", "closed"})
  BY <1>1, <1>2 DEF KeepsLease
<1> QED
  BY <1>3 DEF KeepsLease, claims

\* Writing a row, and returning or moving on inside the operation, keeps the lease
\* object (service.py:129-302).
LEMMA WriteKeepsLease ==
  ASSUME NEW s \in Session, NEW target, NEW resolve, NEW where \in Pc \ {"off", "closed"},
         pc[s] \notin {"off", "closed"}, Write(s, target, resolve, where)
  PROVE  KeepsLease(s)
<1>1. "idle" \in Pc \ {"off", "closed"}
  BY DEF Pc
<1>2. \E p \in Pc \ {"off", "closed"} : pc' = [pc EXCEPT ![s] = p]
  BY <1>1 DEF Write, Continue, Done, Goto
<1> QED
  BY <1>2 DEF Write, KeepsLease, leaseVars

\* No step inside an operation touches the lease row or drops the lease object
\* (service.py:129-302).
LEMMA StepKeepsLease ==
  ASSUME NEW s \in Session, Step(s)
  PROVE  KeepsLease(s)
<1>0. {"idle", "authorized", "reserved", "armed", "returned", "failed", "unknown",
       "reconciling", "answered", "ingested", "next", "visiting"} \subseteq Pc \ {"off", "closed"}
  BY DEF Pc
<1>1. ASSUME RecordRiskDecision(s) PROVE KeepsLease(s)
  BY <1>0, <1>1, WriteKeepsLease DEF RecordRiskDecision
<1>2. ASSUME PrepareSubmit(s) PROVE KeepsLease(s)
  BY <1>0, <1>2 DEF PrepareSubmit, Goto, Done, KeepsLease, leaseVars
<1>3. ASSUME AssertBeforeCall(s) PROVE KeepsLease(s)
  BY <1>0, <1>3 DEF AssertBeforeCall, Goto, KeepsLease, leaseVars
<1>4. ASSUME CallDriver(s) PROVE KeepsLease(s)
  BY <1>0, <1>4 DEF CallDriver, Goto, KeepsLease, leaseVars
<1>5. ASSUME PersistUnknown(s) PROVE KeepsLease(s)
  BY <1>0, <1>5, WriteKeepsLease DEF PersistUnknown
<1>6. ASSUME BeginReconciling(s) PROVE KeepsLease(s)
  BY <1>0, <1>6, WriteKeepsLease DEF BeginReconciling
<1>7. ASSUME Query(s) PROVE KeepsLease(s)
  BY <1>0, <1>7 DEF Query, AtQuery, KeepsLease, leaseVars
<1>8. ASSUME ApplyAnswer(s) PROVE KeepsLease(s)
  BY <1>0, <1>8 DEF ApplyAnswer, Ingest, Goto, Done, KeepsLease, leaseVars
<1>9. ASSUME ResolveCancel(s) PROVE KeepsLease(s)
  BY <1>0, <1>9, WriteKeepsLease DEF ResolveCancel
<1>10. ASSUME Visit(s) PROVE KeepsLease(s)
  BY <1>0, <1>10 DEF Visit, KeepsLease, leaseVars
<1>11. ASSUME RecoveryFails(s), pc[s] = "visiting" PROVE KeepsLease(s)
  BY <1>0, <1>11 DEF RecoveryFails, Done, KeepsLease, leaseVars
<1>12. ASSUME AbortOrphan(s) PROVE KeepsLease(s)
  BY <1>0, <1>11, <1>12, WriteKeepsLease DEF AbortOrphan
<1>13. ASSUME Classify(s) PROVE KeepsLease(s)
  BY <1>0, <1>11, <1>13, WriteKeepsLease DEF Classify
<1>14. ASSUME CancelAlreadyTerminal(s) PROVE KeepsLease(s)
  BY <1>0, <1>14, WriteKeepsLease DEF CancelAlreadyTerminal
<1>15. ASSUME ApplyRecoveryAnswer(s) PROVE KeepsLease(s)
  <2>1. CASE reply[s] = NoReply
    BY <1>0, <1>15, <2>1, WriteKeepsLease DEF ApplyRecoveryAnswer
  <2>2. CASE reply[s] # NoReply
    BY <1>0, <1>15, <2>2 DEF ApplyRecoveryAnswer, Ingest, Goto, Done, KeepsLease, leaseVars
  <2> QED
    BY <2>1, <2>2
<1>16. ASSUME RecoveryResolvesCancel(s) PROVE KeepsLease(s)
  BY <1>0, <1>16, WriteKeepsLease DEF RecoveryResolvesCancel
<1>17. ASSUME FinishRecovery(s) PROVE KeepsLease(s)
  BY <1>0, <1>17 DEF FinishRecovery, Done, KeepsLease, leaseVars
<1>18. ASSUME Fenced(s) PROVE KeepsLease(s)
  BY <1>0, <1>18 DEF Fenced, Done, KeepsLease, leaseVars
<1> QED
  BY <1>1, <1>2, <1>3, <1>4, <1>5, <1>6, <1>7, <1>8, <1>9, <1>10, <1>12, <1>13, <1>14,
     <1>15, <1>16, <1>17, <1>18 DEF Step

\* Sessions use the lease as WriterLease allows: only the session the row names frees or
\* renews it (service.py:56-127).
THEOREM OmsImplementsLease == Spec => ImplementsWriterLease
<1>1. Init => Lease!Init
  BY DEF Init, Lease!Init, claims
<1>2. OmsInv /\ [Next]_vars => [Lease!Next]_(Lease!leaseVars)
  <2> SUFFICES ASSUME OmsInv, [Next]_vars
               PROVE  Lease!Next \/ (holder' = holder /\ lease' = lease /\ claims' = claims)
    BY DEF Lease!leaseVars
  <2>0. pc \in [Session -> Pc]
    BY DEF OmsInv, Types, Locals
  <2>1. ASSUME NEW s \in Session, Start(s) PROVE Lease!Next
    <3>1. claims' = claims \cup {s}
      BY <2>0, <2>1 DEF Start, claims
    <3> QED
      BY <2>1, <3>1 DEF Start, LeaseAvailable, Lease!Next, Lease!Take
  <2>2. ASSUME NEW s \in Session, Close(s) PROVE Lease!Next
    <3>1. s \in claims /\ claims' = claims \ {s}
      BY <2>0, <2>2 DEF Close, Done, claims
    <3>2. CASE holder = s
      BY <2>2, <3>1, <3>2 DEF Close, Lease!Next, Lease!Drop
    <3>3. CASE holder # s
      BY <2>2, <3>1, <3>3 DEF Close, leaseVars, Lease!Next, Lease!Forget
    <3> QED
      BY <3>2, <3>3
  <2>3. ASSUME NEW s \in Session, Renew(s) PROVE Lease!Next
    <3>1. s \in claims /\ claims' = claims
      BY <2>3 DEF Renew, progress, claims
    <3> QED
      BY <2>3, <3>1 DEF Renew, Lease!Next, Lease!Renew
  <2>4. CASE Expire
    BY <2>4 DEF Expire, progress, claims, Lease!Next, Lease!Expire
  <2>5. ASSUME NEW s \in Session, Crash(s) PROVE Lease!Next
    <3>1. s \in claims /\ claims' = claims \ {s}
      BY <2>0, <2>5 DEF Crash, Done, claims
    <3> QED
      BY <2>5, <3>1 DEF Crash, leaseVars, Lease!Next, Lease!Forget
  <2>6. ASSUME NEW s \in Session,
               \/ StartRecovery(s) \/ QueryFails(s)
               \/ \E o \in Order : CreateIntent(s, o) \/ PrepareCancel(s, o)
        PROVE  KeepsLease(s)
    <3>1. {"next", "idle", "created", "reserved"} \subseteq Pc \ {"off", "closed"}
      BY DEF Pc
    <3>2. ASSUME StartRecovery(s) PROVE KeepsLease(s)
      BY <3>1, <3>2 DEF StartRecovery, KeepsLease, leaseVars
    <3>3. ASSUME QueryFails(s) PROVE KeepsLease(s)
      BY <3>1, <3>3 DEF QueryFails, AtQuery, Done, KeepsLease, leaseVars
    <3>4. ASSUME NEW o \in Order, CreateIntent(s, o) PROVE KeepsLease(s)
      BY <3>1, <3>4 DEF CreateIntent, Ready, KeepsLease, leaseVars
    <3>5. ASSUME NEW o \in Order, PrepareCancel(s, o) PROVE KeepsLease(s)
      BY <3>1, <3>5 DEF PrepareCancel, Ready, KeepsLease, leaseVars
    <3> QED
      BY <2>6, <3>2, <3>3, <3>4, <3>5
  <2>7. ASSUME NEW s \in Session, \E f \in emitted : Callback(s, f)
        PROVE  holder' = holder /\ lease' = lease /\ claims' = claims
    BY <2>7 DEF Callback, Ingest, leaseVars, claims
  <2>8. ASSUME NEW o \in Order, BrokerAnswers(o) \/ BrokerFills(o) \/ BrokerCancels(o)
        PROVE  holder' = holder /\ lease' = lease /\ claims' = claims
    BY <2>8 DEF BrokerAnswers, BrokerFills, BrokerCancels, Publish, leaseVars, progress, claims
  <2>9. ASSUME NEW s \in Session, Step(s)
        PROVE  holder' = holder /\ lease' = lease /\ claims' = claims
    BY <2>9, StepKeepsLease, LeaseKept
  <2>10. CASE UNCHANGED vars
    BY <2>10 DEF vars, claims
  <2> QED
    BY <2>1, <2>2, <2>3, <2>4, <2>5, <2>6, <2>7, <2>8, <2>9, <2>10, LeaseKept DEF Next
<1> QED
  BY <1>1, <1>2, OmsInvariance, PTL DEF Spec, ImplementsWriterLease, Lease!Spec
=============================================================================
